---------------------------- MODULE MCCryptoHeader ----------------------------
(* The instance of CryptoHeader for TLC.                                      *)
EXTENDS CryptoHeader, TLC

\* Processes, passwords and material each play the same part.
MCSymmetry == Permutations(Procs) \cup Permutations(Passwords) \cup Permutations(Keys)

=============================================================================
