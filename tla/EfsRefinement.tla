---------------------------- MODULE EfsRefinement ----------------------------
(* EfsStorage, with one process, implements SecureStore: its many steps are  *)
(* one of the outcomes of EfsCalls when the call ends, and nothing before.   *)
(* History variables keep the storage as it was when the call started, and   *)
(* how the last call went.                                                   *)
EXTENDS EfsStorage

VARIABLES
  before,   \* the storage when the running call started
  failed,   \* the failures there had been by then
  how       \* how the last call went

hvars == <<vars, before, failed, how>>

\* The storage as it is now.
Now == [clear |-> plain, cipher |-> Ciphertext, priv |-> privDir,
        stat |-> hdr.stat, pass |-> hdr.pass,
        at |-> IF mtab = <<>> THEN "none" ELSE mtab[1].at, rec |-> recDir]
NotRunning == [clear |-> {}]

HInit == Init /\ before = NotRunning /\ failed = 0 /\ how = "clean"

\* What the history keeps of a step.
Remember ==
  /\ before' = IF Quiet' THEN NotRunning ELSE IF Quiet THEN Now ELSE before
  /\ failed' = IF Quiet' THEN 0 ELSE IF Quiet THEN faults ELSE failed
  /\ how' = IF ~Quiet' THEN "clean" ELSE IF Quiet THEN how
            ELSE IF kills' > kills THEN "killed"
            ELSE IF faults' > failed THEN "fault" ELSE "clean"

\* Next /\ Remember, one disjunct per action.
HNext ==
  \/ \E p \in Procs :
       \/ CreateChecks(p) /\ Remember
       \/ MakePrivateDir(p) /\ Remember
       \/ WriteNewHeader(p) /\ Remember
       \/ UnlockChecks(p) /\ Remember
       \/ RecoverChecks(p) /\ Remember
       \/ MakeRecoveryDir(p) /\ Remember
       \/ RemoveChecks(p) /\ Remember
       \/ UnlinkKeyFile(p) /\ Remember
       \/ ReadForStatus(p) /\ Remember
       \/ ReadForChange(p) /\ Remember
       \/ WriteBack(p) /\ Remember
       \/ MountCheck(p) /\ Remember
       \/ MountOpen(p) /\ Remember
       \/ MountKeys(p) /\ Remember
       \/ MountFs(p) /\ Remember
       \/ UmountCheck(p) /\ Remember
       \/ Umount(p) /\ Remember
       \/ UmountKeys(p) /\ Remember
       \/ ListForCopy(p) /\ Remember
       \/ CopyItem(p) /\ Remember
       \/ CopyEnds(p) /\ Remember
       \/ ListForRemoval(p) /\ Remember
       \/ RemoveItem(p) /\ Remember
       \/ RemovalEnds(p) /\ Remember
       \/ RemoveRoot(p) /\ Remember
       \/ Kill(p) /\ Remember
       \/ \E c \in CallArgs : Start(p, c) /\ Remember
  \/ Reboot /\ Remember
  \/ \E i \in Items : AppWrite(i) /\ Remember

HSpec == HInit /\ [][HNext]_hvars

Caller == CHOOSE p \in Procs : TRUE

Store == INSTANCE SecureStore WITH
           st     <- IF Quiet THEN Now ELSE before,
           call   <- call[Caller],
           answer <- [code |-> IF Quiet THEN ret[Caller] ELSE "running", how |-> how]

\* Each call of the library, taken as a whole, does what SecureStore allows:
\* it leaves one of the listed states, returns the code that goes with it, and
\* reports an error whenever one of its system calls has failed.
ImplementsSecureStore == Store!Spec

Safe(i) == i \in plain \cup Decryptable
\* An item is lost in one step only: the clean-up of a recovery whose copy has
\* failed, on an item that lay in the clear alone when the recovery began - one
\* an earlier, interrupted recovery had brought back, or one an application had
\* stored meanwhile.  Without a failure nothing is lost.
OnlyCleanupLoses ==
  [][\A i \in data \cap data' : Safe(i) /\ ~Safe(i)' =>
       /\ faults + kills > 0 /\ i \in before.clear \ before.cipher
       /\ \E p \in Procs : pc[p] = "rdel" /\ Op(p) = "recover" /\ phase[p] = "nocopy"]_hvars

=============================================================================
