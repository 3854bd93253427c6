---------------------------- MODULE MCRefinement ----------------------------
(* The instance of EfsRefinement for TLC: a directory and a file.             *)
EXTENDS EfsRefinement, TLC

MCItems     == {"dir", "file"}
MCDirs      == {"dir"}
\* The failures EfsCalls covers.
MCStoreFaults == {"space", "proc_umount", "proc_recover", "proc_remove",
                  "mkdir", "header", "random", "keyring", "mount", "list",
                  "copy", "umount", "token", "delete", "rmdir", "unlink"}
\* The passwords that are long enough play the same part, and so do the keys.
MCSymmetry  == Permutations(Passwords \ ShortPasswords) \cup Permutations(Keys)

=============================================================================
