---------------------------- MODULE MCAndroidUser ----------------------------
(* Instances of AndroidUser for TLC: the primary user and another one, each   *)
(* storage with one directory.                                                *)
EXTENDS AndroidUser, TLC

MCUsers  == {0, 10}
MCItems  == {"dir"}
\* The two passwords play the same part.
MCSymmetry == Permutations(Passwords)

=============================================================================
