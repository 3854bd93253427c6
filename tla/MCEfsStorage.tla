---------------------------- MODULE MCEfsStorage ----------------------------
(* Instances of EfsStorage for TLC: a directory and a file.                   *)
EXTENDS EfsInvariants, TLC

MCItems    == {"dir", "file"}
MCDirs     == {"dir"}
MCAllFaults == {"space", "proc_mount", "proc_umount", "proc_recover", "proc_remove",
                "mkdir", "header", "random", "keyring", "mount", "chown", "list",
                "copy", "umount", "token", "delete", "rmdir", "unlink"}
MCAllOps    == ApiCalls

\* The steps "create", "unlock" and "lock" are made of: the part of Step that
\* can happen when Ops names these three calls.
CreationStep(p) ==
  \/ CreateChecks(p) \/ MakePrivateDir(p) \/ WriteNewHeader(p) \/ UnlockChecks(p)
  \/ ReadForStatus(p) \/ WriteBack(p)
  \/ MountCheck(p) \/ MountOpen(p) \/ MountKeys(p) \/ MountFs(p)
  \/ UmountCheck(p) \/ Umount(p) \/ UmountKeys(p)
  \/ ListForCopy(p) \/ CopyItem(p) \/ CopyEnds(p)
  \/ ListForRemoval(p) \/ RemoveItem(p) \/ RemovalEnds(p) \/ RemoveRoot(p)
CreationNext ==
  \/ \E p \in Procs : CreationStep(p) \/ Kill(p) \/ \E c \in CallArgs : Start(p, c)
  \/ Reboot
\* FairSpec with these calls and a directory that holds every item at the start.
CreationSpec ==
  Init /\ [][CreationNext]_vars /\ \A p \in Procs : WF_vars(CreationStep(p))

=============================================================================
