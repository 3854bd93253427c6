------------------------- MODULE EfsRefinement_proofs -------------------------
(* With one caller, each call taken as a whole does what EfsCalls allows.     *)
EXTENDS EfsRefinement, EfsInvariants_proofs

-----------------------------------------------------------------------------
(* The keyring: a storage that is mounted has its tokens, and a header that    *)
(* can be read.                                                              *)

TokensInv(p) ==
  /\ mtab # <<>> => Tokens(hdr.key) \subseteq keyring /\ Readable(hdr)
  /\ pc[p] \in {"mkeys", "mount", "ukeys"} => Readable(hdr)
  /\ pc[p] \in {"mount", "ukeys"} => Tokens(hdr.key) \subseteq keyring /\ mtab = <<>>
  /\ pc[p] = "umount" => OneMount(PointOf[Op(p)])
  /\ pc[p] \in {"umount", "ukeys"} => hcopy[p].key = hdr.key

\* Steps that touch neither header, mounts nor keyring.
LEMMA TokensStay ==
  ASSUME NEW p, TokensInv(p), UNCHANGED <<hdr, mtab, keyring>>,
         pc'[p] \notin {"mkeys", "mount", "umount", "ukeys"}
  PROVE  TokensInv(p)'
PROOF BY DEF TokensInv, Readable, Tokens

\* With nothing mounted, only the place of a call asks for tokens.
LEMMA TokensNone ==
  ASSUME NEW p, mtab' = <<>>, pc'[p] \notin {"mkeys", "mount", "umount", "ukeys"}
  PROVE  TokensInv(p)'
PROOF BY DEF TokensInv

LEMMA FinishTokens ==
  ASSUME TypeOK, NEW p \in Procs, TokensInv(p), UNCHANGED <<hdr, mtab, keyring>>,
         NEW code, Finish(p, code)
  PROVE  TokensInv(p)'
PROOF BY TokensStay DEF Finish, TypeOK, ProcsTypeOK

LEMMA GotoTokens ==
  ASSUME TypeOK, NEW p \in Procs, TokensInv(p), UNCHANGED <<hdr, mtab, keyring>>,
         NEW step, Goto(p, step), step \notin {"mkeys", "mount", "umount", "ukeys"}
  PROVE  TokensInv(p)'
PROOF BY TokensStay DEF Goto, TypeOK, ProcsTypeOK

LEMMA EnterTokens ==
  ASSUME TypeOK, NEW p \in Procs, TokensInv(p), UNCHANGED <<hdr, mtab, keyring>>,
         NEW f, NEW step, Enter(p, f, step), step \notin {"mkeys", "mount", "umount", "ukeys"}
  PROVE  TokensInv(p)'
PROOF BY TokensStay DEF Enter, TypeOK, ProcsTypeOK

\* The steps that check, list and copy.
LEMMA TokensQuietSteps ==
  ASSUME TypeOK, NEW p \in Procs, TokensInv(p),
         \/ CreateChecks(p) \/ MakePrivateDir(p) \/ UnlockChecks(p) \/ RecoverChecks(p)
         \/ MakeRecoveryDir(p) \/ RemoveChecks(p) \/ ReadForStatus(p) \/ ReadForChange(p)
         \/ ListForCopy(p) \/ CopyItem(p) \/ CopyEnds(p)
         \/ ListForRemoval(p) \/ RemoveItem(p) \/ RemovalEnds(p) \/ MountCheck(p)
  PROVE  TokensInv(p)'
PROOF
  <1>1. /\ UNCHANGED <<hdr, mtab, keyring>>
    BY DEF CreateChecks, MakePrivateDir, UnlockChecks, RecoverChecks,
       MakeRecoveryDir, RemoveChecks, ReadForStatus, ReadForChange, ListForCopy, CopyItem,
       CopyEnds, ListForRemoval, RemoveItem, RemovalEnds, MountCheck, disk, kernel
  <1>2. CASE CreateChecks(p) \/ MakePrivateDir(p) \/ UnlockChecks(p) \/ RecoverChecks(p)
               \/ MakeRecoveryDir(p)
    BY <1>1, <1>2, FinishTokens, GotoTokens DEF CreateChecks, MakePrivateDir, UnlockChecks,
       RecoverChecks, MakeRecoveryDir
  <1>3. CASE RemoveChecks(p)
    BY <1>1, <1>3, FinishTokens, EnterTokens DEF RemoveChecks
  <1>4. CASE ReadForStatus(p) \/ ReadForChange(p)
    <2>1. CASE Finish(p, "err")
      BY <1>1, <2>1, FinishTokens
    <2>2. CASE ~Finish(p, "err")
      <3>1. pc'[p] \in {"swrite", "pwrite"}
        BY <1>4, <2>2 DEF ReadForStatus, ReadForChange, TypeOK, ProcsTypeOK
      <3> QED BY <1>1, <3>1, TokensStay
    <2> QED BY <2>1, <2>2
  <1>5. CASE ListForCopy(p) \/ CopyItem(p) \/ CopyEnds(p)
    <2>1. CASE CopyFailed(p)
      BY <1>1, <2>1, EnterTokens DEF CopyFailed
    <2>2. CASE ~CopyFailed(p)
      <3>1. pc'[p] \in {"copy", "ucheck"}
        BY <1>5, <2>2 DEF ListForCopy, CopyItem, CopyEnds, Goto, TypeOK, ProcsTypeOK
      <3> QED BY <1>1, <3>1, TokensStay
    <2> QED BY <2>1, <2>2
  <1>6. ASSUME NEW ok, RemoveDone(p, ok) PROVE TokensInv(p)'
    BY <1>1, <1>6, FinishTokens, EnterTokens, GotoTokens DEF RemoveDone
  <1>7. CASE ListForRemoval(p) \/ RemoveItem(p) \/ RemovalEnds(p)
    <2>1. CASE \E ok : RemoveDone(p, ok)
      BY <1>6, <2>1
    <2>2. CASE ~(\E ok : RemoveDone(p, ok))
      <3>1. pc'[p] = "rdel"
        BY <1>7, <2>2 DEF ListForRemoval, RemoveItem, RemovalEnds, TypeOK, ProcsTypeOK
      <3> QED BY <1>1, <3>1, TokensStay
    <2> QED BY <2>1, <2>2
  <1>8. CASE MountCheck(p)
    BY <1>1, <1>8, FinishTokens, GotoTokens DEF MountCheck, MountDone
  <1> QED BY <1>2, <1>3, <1>4, <1>5, <1>7, <1>8

\* The steps that write the key file.
LEMMA TokensHeaderSteps ==
  ASSUME OneCaller, TypeOK, SoloInv, NEW p \in Procs, TokensInv(p),
         WriteNewHeader(p) \/ WriteBack(p) \/ UnlinkKeyFile(p)
  PROVE  TokensInv(p)'
PROOF
  <1>1. mtab' = mtab /\ keyring' = keyring
    BY DEF WriteNewHeader, WriteBack, UnlinkKeyFile, kernel
  <1>2. CASE WriteNewHeader(p) \/ UnlinkKeyFile(p)
    <2>1. mtab' = <<>>
      BY <1>1, <1>2 DEF SoloInv, Mine, MountInv, WriteNewHeader, UnlinkKeyFile
    <2>2. pc'[p] \in {"idle", "mcheck"}
      BY <1>2 DEF WriteNewHeader, UnlinkKeyFile, WriteFails, Finish, Goto, TypeOK, ProcsTypeOK
    <2> QED BY <2>1, <2>2, TokensNone
  <1>3. CASE WriteBack(p)
    <2>1. pc[p] \in {"swrite", "pwrite"} /\ pc'[p] = "idle"
      BY <1>3 DEF WriteBack, WriteFails, Finish, TypeOK, ProcsTypeOK
    <2>2. hdr'.key = hdr.key /\ Readable(hdr)'
      BY <1>3, <2>1, Written DEF WriteBack, WriteFails, Readable
    <2> QED BY <1>1, <2>1, <2>2 DEF TokensInv, Tokens
  <1> QED BY <1>2, <1>3

\* mount_ecryptfs.
LEMMA TokensMountSteps ==
  ASSUME OneCaller, TypeOK, SoloInv, SoloInv', NEW p \in Procs, TokensInv(p),
         MountOpen(p) \/ MountKeys(p) \/ MountFs(p)
  PROVE  TokensInv(p)'
PROOF
  <1>1. /\ pc[p] \in {"mopen", "mkeys", "mount"} /\ mtab = <<>> /\ hdr' = hdr
    BY MountingPlace DEF MountOpen, MountKeys, MountFs, disk
  <1>2. CASE MountFailed(p) /\ mtab' = mtab
    <2>1. pc'[p] \in {"idle", "rlist"}
      BY <1>2 DEF MountFailed, Finish, Enter, TypeOK, ProcsTypeOK
    <2> QED BY <1>1, <1>2, <2>1, TokensNone
  <1>3. CASE MountOpen(p) /\ ~MountFailed(p)
    <2>1. pc'[p] = "mkeys" /\ Readable(hdr) /\ mtab' = <<>>
      BY <1>1, <1>3 DEF MountOpen, kernel, TypeOK, ProcsTypeOK
    <2> QED BY <1>1, <2>1 DEF TokensInv, Readable
  <1>4. CASE MountKeys(p) /\ ~MountFailed(p)
    <2>1. /\ keyring' = keyring \cup Tokens(hcopy[p].key) /\ mtab' = <<>> /\ pc[p] = "mkeys"
          /\ pc'[p] = "mount"
      BY <1>1, <1>4 DEF MountKeys, Goto, TypeOK, ProcsTypeOK
    <2>2. hcopy[p].key = hdr.key /\ Readable(hdr)
      BY <2>1 DEF SoloInv, Mine, CopyInv, TokensInv
    <2> QED BY <1>1, <2>1, <2>2 DEF TokensInv, Readable, Tokens
  <1>5. CASE MountFs(p) /\ ~(MountFailed(p) /\ mtab' = mtab)
    <2>1. pc[p] = "mount" /\ keyring' = keyring
      BY <1>5 DEF MountFs
    <2>2. pc'[p] \in {"idle", "list", "rlist"}
      BY <1>5 DEF MountFs, MountDone, MountFailed, Finish, Goto, Enter, TypeOK, ProcsTypeOK
    <2>3. Tokens(hdr.key) \subseteq keyring /\ Readable(hdr)
      BY <2>1 DEF TokensInv
    <2> QED BY <1>1, <2>1, <2>2, <2>3 DEF TokensInv, Tokens, Readable
  <1> QED BY <1>2, <1>3, <1>4, <1>5, <1>1 DEF MountOpen, MountKeys, MountFs, kernel

\* umount_ecryptfs: when the tokens go, the mount has gone.
LEMMA UmountDoneTokens ==
  ASSUME TypeOK, NEW p \in Procs, NEW ok \in BOOLEAN, UmountDone(p, ok)
  PROVE  pc'[p] \notin {"mkeys", "mount", "umount", "ukeys"}
PROOF BY DEF UmountDone, Finish, Enter, Goto, TypeOK, ProcsTypeOK

LEMMA TokensUmountCheck ==
  ASSUME OneCaller, TypeOK, SoloInv, NEW p \in Procs, TokensInv(p), UmountCheck(p)
  PROVE  TokensInv(p)'
PROOF
  <1>1. UNCHANGED <<hdr, mtab, keyring>> /\ pc[p] = "ucheck"
    BY DEF UmountCheck, kernel, disk
  <1>2. CASE \E ok \in BOOLEAN : UmountDone(p, ok)
    BY <1>1, <1>2, UmountDoneTokens, TokensStay
  <1>3. CASE /\ Listed(PointOf[Op(p)]) # {} /\ UNCHANGED <<call>>
             /\ hcopy' = [hcopy EXCEPT ![p].key =
                  mtab[CHOOSE n \in Listed(PointOf[Op(p)]) :
                         \A m \in Listed(PointOf[Op(p)]) : n <= m].key]
             /\ pc' = [pc EXCEPT ![p] = "umount"]
    <2>1. OneMount(PointOf[Op(p)])
      <3>1. (Op(p) \in {"create", "recover", "lock"} /\ PointOf[Op(p)] # "P") \/ Through(p)
        BY <1>1, UnmountingPlace, PointsOf DEF Through
      <3>2. CASE Through(p)
        BY <1>1, <3>2, UnmountingPlace
      <3>3. CASE PointOf[Op(p)] # "P"
        <4>1. Mounts(PointOf[Op(p)]) # {}
          BY <1>3, <3>3 DEF Listed
        <4>2. mtab # <<>> /\ Mounted(PointOf[Op(p)])
          BY <4>1, NothingSeen DEF Mounted
        <4>3. PICK pt \in Points : OneMount(pt)
          BY <4>2 DEF SoloInv, ViewInv
        <4>4. pt = PointOf[Op(p)]
          BY <4>2, <4>3, MountSeen
        <4> QED BY <4>3, <4>4
      <3> QED BY <3>1, <3>2, <3>3
    <2>2. Listed(PointOf[Op(p)]) = {1}
      BY <2>1, MountSeen
    <2>3. (CHOOSE n \in Listed(PointOf[Op(p)]) :
             \A m \in Listed(PointOf[Op(p)]) : n <= m) = 1
      BY <2>2
    <2>4. mtab[1].key = hdr.key
      BY <2>1 DEF OneMount
    <2>5. hcopy' = [hcopy EXCEPT ![p].key = hdr.key]
      BY <1>3, <2>3, <2>4
    <2>6. hcopy'[p].key = hdr.key
      BY <2>5 DEF TypeOK, ProcsTypeOK, Header
    <2>7. pc'[p] = "umount" /\ Op(p)' = Op(p)
      BY <1>3 DEF TypeOK, ProcsTypeOK, Op
    <2>8. OneMount(PointOf[Op(p)])'
      BY <1>1, <2>1, <2>7 DEF OneMount
    <2> QED BY <1>1, <2>6, <2>7, <2>8 DEF TokensInv, Readable, Tokens
  <1> QED BY <1>1, <1>2, <1>3 DEF UmountCheck

LEMMA TokensUmount ==
  ASSUME OneCaller, TypeOK, SoloInv, NEW p \in Procs, TokensInv(p), Umount(p)
  PROVE  TokensInv(p)' /\ (pc'[p] = "ukeys" => mtab' = <<>>)
PROOF
  <1>1. UNCHANGED <<hdr, keyring>> /\ pc[p] = "umount"
    BY DEF Umount, disk
  <1>2. CASE UmountDone(p, FALSE) /\ mtab' = mtab
    BY <1>1, <1>2, UmountDoneTokens, TokensStay
  <1>3. CASE ~(UmountDone(p, FALSE) /\ mtab' = mtab)
    <2>1. OneMount(PointOf[Op(p)])
      BY <1>1 DEF TokensInv
    <2>2. Mounts(PointOf[Op(p)]) = {1} /\ Mounted(PointOf[Op(p)])
      BY <2>1, MountSeen
    <2>3. mtab' = Without(1) /\ Goto(p, "ukeys")
      BY <1>3, <2>2 DEF Umount
    <2>4. mtab' = <<>>
      BY <2>1, <2>3, WithoutOnly DEF OneMount, TypeOK, KernelTypeOK
    <2>5. pc'[p] = "ukeys" /\ hcopy' = hcopy
      BY <2>3 DEF Goto, TypeOK, ProcsTypeOK
    <2>6. mtab # <<>>
      BY <2>1, MountSeen
    <2> QED BY <1>1, <2>4, <2>5, <2>6 DEF TokensInv, Readable, Tokens
  <1> QED BY <1>2, <1>3

LEMMA TokensUmountKeys ==
  ASSUME TypeOK, NEW p \in Procs, TokensInv(p), UmountKeys(p)
  PROVE  /\ TokensInv(p)' /\ UNCHANGED <<disk, mtab, ghosts, kills, reboots>>
         /\ \/ UmountDone(p, TRUE) /\ faults' = faults
            \/ UmountDone(p, FALSE) /\ Fault("token")
PROOF
  <1>1. /\ pc[p] = "ukeys" /\ UNCHANGED <<disk, mtab, ghosts, kills, reboots>>
        /\ Tokens(hcopy[p].key) \subseteq keyring /\ mtab = <<>>
    BY DEF UmountKeys, TokensInv
  <1>2. \/ UmountDone(p, TRUE) /\ faults' = faults
        \/ UmountDone(p, FALSE) /\ Fault("token")
    BY <1>1 DEF UmountKeys, Tokens
  <1> QED BY <1>1, <1>2, UmountDoneTokens, TokensNone

LEMMA TokensRemoveRoot ==
  ASSUME TypeOK, SoloInv, NEW p \in Procs, TokensInv(p), RemoveRoot(p)
  PROVE  TokensInv(p)'
PROOF
  <1>1. UNCHANGED <<hdr, keyring>> /\ pc[p] = "rmdir"
    BY DEF RemoveRoot
  <1>2. pc'[p] \in {"idle", "rcheck", "unlink"}
    BY DEF RemoveRoot, RmdirDone, Finish, Goto, TypeOK, ProcsTypeOK
  <1>3. CASE mtab' = mtab
    BY <1>1, <1>2, <1>3, TokensStay
  <1>4. CASE mtab' = [n \in 1..Len(mtab) |-> [mtab[n] EXCEPT !.live = FALSE]]
    <2>1. mtab = <<>> => mtab' = <<>>
      BY <1>4
    <2> QED BY <1>1, <1>2, <2>1 DEF TokensInv, Tokens, Readable
  <1> QED BY <1>3, <1>4 DEF RemoveRoot

\* The call's next step keeps TokensInv.
LEMMA TokensStep ==
  ASSUME OneCaller, TypeOK, SoloInv, SoloInv', NEW p \in Procs, TokensInv(p), Step(p)
  PROVE  TokensInv(p)'
PROOF BY TokensQuietSteps, TokensHeaderSteps, TokensMountSteps, TokensUmountCheck,
         TokensUmount, TokensUmountKeys, TokensRemoveRoot DEF Step

-----------------------------------------------------------------------------
(* The outcomes EfsCalls allows, one by one.                                 *)

End(y, code, way) == [to |-> y, code |-> code, how |-> way]

\* A call may fail, and its caller die, in each state it goes through.
LEMMA Interrupting ==
  ASSUME NEW X, NEW y \in X
  PROVE  /\ End(y, "err", "fault") \in Store!Interrupted(X)
         /\ End(y, "none", "killed") \in Store!Interrupted(X)
PROOF BY DEF End, Store!Interrupted, Store!Ends

LEMMA Ending ==
  ASSUME NEW X, NEW y \in X, NEW code, NEW way
  PROVE  End(y, code, way) \in Store!Ends(X, code, way)
PROOF BY DEF End, Store!Ends

LEMMA CreateEnds ==
  ASSUME NEW x, NEW pw
  PROVE  /\ End(x, "err", "fault") \in Store!Create(x, pw)
         /\ End(x, "none", "killed") \in Store!Create(x, pw)
         /\ pw \in ShortPasswords \/ x.priv => End(x, "err", "clean") \in Store!Create(x, pw)
         /\ pw \notin ShortPasswords /\ ~x.priv =>
              /\ End(Store!Created(x, pw), "ok", "clean") \in Store!Create(x, pw)
              /\ \A y \in Store!HalfCreated(x, pw) :
                   /\ End(y, "err", "fault") \in Store!Create(x, pw)
                   /\ End(y, "none", "killed") \in Store!Create(x, pw)
PROOF
  <1>1. Store!Interrupted({x}) \subseteq Store!Create(x, pw)
    BY DEF Store!Create
  <1>2. CASE pw \in ShortPasswords \/ x.priv
    <2>1. Store!Ends({x}, "err", "clean") \subseteq Store!Create(x, pw)
      BY <1>2 DEF Store!Create
    <2> QED BY <1>1, <1>2, <2>1, Interrupting, Ending
  <1>3. CASE ~(pw \in ShortPasswords \/ x.priv)
    <2>1. /\ Store!Ends({Store!Created(x, pw)}, "ok", "clean") \subseteq Store!Create(x, pw)
          /\ Store!Interrupted(Store!HalfCreated(x, pw)) \subseteq Store!Create(x, pw)
      BY <1>3 DEF Store!Create
    <2> QED BY <1>1, <1>3, <2>1, Interrupting, Ending
  <1> QED BY <1>2, <1>3

LEMMA UnlockEnds ==
  ASSUME NEW x, NEW pw
  PROVE  /\ End(x, "err", "fault") \in Store!Unlock(x, pw)
         /\ End(x, "none", "killed") \in Store!Unlock(x, pw)
         /\ pw \in ShortPasswords \/ ~Store!HasHeader(x) =>
              End(x, "err", "clean") \in Store!Unlock(x, pw)
         /\ pw \notin ShortPasswords /\ x.stat = "not_started" =>
              End(x, "positive", "clean") \in Store!Unlock(x, pw)
         /\ pw \notin ShortPasswords /\ x.stat = "completed" =>
              /\ x.at # "none" => End(x, "ok", "clean") \in Store!Unlock(x, pw)
              /\ x.at = "none" /\ ~(pw = x.pass /\ x.priv) =>
                   End(x, "err", "clean") \in Store!Unlock(x, pw)
              /\ x.at = "none" /\ pw = x.pass /\ x.priv =>
                   End([x EXCEPT !.at = "S"], "ok", "clean") \in Store!Unlock(x, pw)
PROOF
  <1>1. Store!Interrupted({x}) \subseteq Store!Unlock(x, pw)
    BY DEF Store!Unlock
  <1>2. CASE pw \in ShortPasswords \/ ~Store!HasHeader(x)
    <2>1. Store!Ends({x}, "err", "clean") \subseteq Store!Unlock(x, pw)
      BY <1>2 DEF Store!Unlock
    <2> QED BY <1>1, <1>2, <2>1, Interrupting, Ending DEF Store!HasHeader
  <1>3. CASE pw \notin ShortPasswords /\ x.stat = "not_started"
    <2>1. Store!Ends({x}, "positive", "clean") \subseteq Store!Unlock(x, pw)
      BY <1>3 DEF Store!Unlock, Store!HasHeader
    <2> QED BY <1>1, <1>3, <2>1, Interrupting, Ending DEF Store!HasHeader
  <1>4. CASE pw \notin ShortPasswords /\ x.stat = "completed"
    <2>1. CASE x.at # "none"
      <3>1. Store!Ends({x}, "ok", "clean") \subseteq Store!Unlock(x, pw)
        BY <1>4, <2>1 DEF Store!Unlock, Store!HasHeader
      <3> QED BY <1>1, <1>4, <2>1, <3>1, Interrupting, Ending DEF Store!HasHeader
    <2>2. CASE x.at = "none" /\ ~(pw = x.pass /\ x.priv)
      <3>1. Store!Ends({x}, "err", "clean") \subseteq Store!Unlock(x, pw)
        BY <1>4, <2>2 DEF Store!Unlock, Store!HasHeader
      <3> QED BY <1>1, <1>4, <2>2, <3>1, Interrupting, Ending DEF Store!HasHeader
    <2>3. CASE x.at = "none" /\ pw = x.pass /\ x.priv
      <3>1. Store!Ends({[x EXCEPT !.at = "S"]}, "ok", "clean") \subseteq Store!Unlock(x, pw)
        BY <1>4, <2>3 DEF Store!Unlock, Store!HasHeader
      <3> QED BY <1>1, <1>4, <2>3, <3>1, Interrupting, Ending DEF Store!HasHeader
    <2> QED BY <2>1, <2>2, <2>3
  <1> QED BY <1>2, <1>3, <1>4 DEF Store!HasHeader

LEMMA LockEnds ==
  ASSUME NEW x
  PROVE  /\ End(x, "err", "fault") \in Store!Lock(x)
         /\ End(x, "none", "killed") \in Store!Lock(x)
         /\ End(Store!Locked(x), "ok", "clean") \in Store!Lock(x)
         /\ End(Store!Locked(x), "err", "fault") \in Store!Lock(x)
         /\ End(Store!Locked(x), "none", "killed") \in Store!Lock(x)
PROOF
  <1>1. /\ Store!Interrupted({x, Store!Locked(x)}) \subseteq Store!Lock(x)
        /\ Store!Ends({Store!Locked(x)}, "ok", "clean") \subseteq Store!Lock(x)
    BY DEF Store!Lock
  <1> QED BY <1>1, Interrupting, Ending

LEMMA ChangeEnds ==
  ASSUME NEW x, NEW old, NEW new
  PROVE  /\ End(x, "err", "fault") \in Store!Change(x, old, new)
         /\ End(x, "none", "killed") \in Store!Change(x, old, new)
         /\ IF {old, new} \cap ShortPasswords = {} /\ Store!HasHeader(x) /\ x.pass = old
            THEN End([x EXCEPT !.pass = new], "ok", "clean") \in Store!Change(x, old, new)
            ELSE End(x, "err", "clean") \in Store!Change(x, old, new)
PROOF
  <1>1. Store!Interrupted({x}) \subseteq Store!Change(x, old, new)
    BY DEF Store!Change
  <1>2. CASE {old, new} \cap ShortPasswords = {} /\ Store!HasHeader(x) /\ x.pass = old
    <2>1. Store!Ends({[x EXCEPT !.pass = new]}, "ok", "clean")
            \subseteq Store!Change(x, old, new)
      BY <1>2 DEF Store!Change
    <2> QED BY <1>1, <1>2, <2>1, Interrupting, Ending
  <1>3. CASE ~({old, new} \cap ShortPasswords = {} /\ Store!HasHeader(x) /\ x.pass = old)
    <2>1. Store!Ends({x}, "err", "clean") \subseteq Store!Change(x, old, new)
      BY <1>3 DEF Store!Change
    <2> QED BY <1>1, <1>3, <2>1, Interrupting, Ending
  <1> QED BY <1>2, <1>3

LEMMA RemoveEnds ==
  ASSUME NEW x
  PROVE  /\ End(x, "err", "fault") \in Store!Remove(x)
         /\ End(x, "none", "killed") \in Store!Remove(x)
         /\ ~x.priv => End(x, "err", "clean") \in Store!Remove(x)
         /\ x.priv /\ x.at # "none" => End(x, "ok", "clean") \in Store!Remove(x)
         /\ x.priv /\ x.at = "none" =>
              /\ \A y \in Store!HalfRemoved(x) : /\ End(y, "err", "fault") \in Store!Remove(x)
                                                 /\ End(y, "none", "killed") \in Store!Remove(x)
              /\ IF x.stat = "absent"
                 THEN End([x EXCEPT !.cipher = {}, !.priv = FALSE], "err", "clean")
                        \in Store!Remove(x)
                 ELSE End(Store!Removed(x), "ok", "clean") \in Store!Remove(x)
PROOF
  <1>1. Store!Interrupted({x}) \subseteq Store!Remove(x)
    BY DEF Store!Remove
  <1>2. CASE ~x.priv
    <2>1. Store!Ends({x}, "err", "clean") \subseteq Store!Remove(x)
      BY <1>2 DEF Store!Remove
    <2> QED BY <1>1, <1>2, <2>1, Interrupting, Ending
  <1>3. CASE x.priv /\ x.at # "none"
    <2>1. Store!Ends({x}, "ok", "clean") \subseteq Store!Remove(x)
      BY <1>3 DEF Store!Remove
    <2> QED BY <1>1, <1>3, <2>1, Interrupting, Ending
  <1>4. CASE x.priv /\ x.at = "none"
    <2>1. Store!Interrupted(Store!HalfRemoved(x)) \subseteq Store!Remove(x)
      BY <1>4 DEF Store!Remove
    <2>2. CASE x.stat = "absent"
      <3>1. Store!Ends({[x EXCEPT !.cipher = {}, !.priv = FALSE]}, "err", "clean")
              \subseteq Store!Remove(x)
        BY <1>4, <2>2 DEF Store!Remove
      <3> QED BY <1>1, <1>4, <2>1, <2>2, <3>1, Interrupting, Ending
    <2>3. CASE x.stat # "absent"
      <3>1. Store!Ends({Store!Removed(x)}, "ok", "clean") \subseteq Store!Remove(x)
        BY <1>4, <2>3 DEF Store!Remove
      <3> QED BY <1>1, <1>4, <2>1, <2>3, <3>1, Interrupting, Ending
    <2> QED BY <2>2, <2>3
  <1> QED BY <1>2, <1>3, <1>4

\* A recovery is admitted, and opens the ciphertext, and meets no directory twice.
Admitted(x, pw) == pw \notin ShortPasswords /\ x.priv /\ x.at = "none" /\ ~x.rec
OpenedBy(x, pw) == Store!HasHeader(x) /\ x.pass = pw
Colliding(x)    == Dirs \cap x.clear \cap x.cipher # {}

LEMMA RecoverEnds ==
  ASSUME NEW x, NEW pw
  PROVE  /\ End(x, "err", "fault") \in Store!Recover(x, pw)
         /\ End(x, "none", "killed") \in Store!Recover(x, pw)
         /\ ~Admitted(x, pw) \/ ~OpenedBy(x, pw) =>
              End(x, "err", "clean") \in Store!Recover(x, pw)
         /\ Admitted(x, pw) =>
              /\ End([x EXCEPT !.rec = TRUE], "err", "fault") \in Store!Recover(x, pw)
              /\ End([x EXCEPT !.rec = TRUE], "none", "killed") \in Store!Recover(x, pw)
         /\ Admitted(x, pw) /\ OpenedBy(x, pw) =>
              /\ \A y \in Store!HalfRecovered(x) :
                   /\ End(y, "err", "fault") \in Store!Recover(x, pw)
                   /\ End(y, "none", "killed") \in Store!Recover(x, pw)
              /\ IF Colliding(x)
                 THEN End([x EXCEPT !.clear = {}, !.rec = TRUE], "err", "clean")
                        \in Store!Recover(x, pw)
                 ELSE End(Store!Removed(Store!Gathered(x)), "ok", "clean")
                        \in Store!Recover(x, pw)
PROOF
  <1>1. Store!Interrupted({x}) \subseteq Store!Recover(x, pw)
    BY DEF Store!Recover
  <1>2. CASE ~Admitted(x, pw)
    <2>1. Store!Ends({x}, "err", "clean") \subseteq Store!Recover(x, pw)
      BY <1>2 DEF Store!Recover, Admitted
    <2> QED BY <1>1, <1>2, <2>1, Interrupting, Ending
  <1>3. CASE Admitted(x, pw)
    <2>1. Store!Interrupted({[x EXCEPT !.rec = TRUE]}) \subseteq Store!Recover(x, pw)
      BY <1>3 DEF Store!Recover, Admitted
    <2>2. CASE ~OpenedBy(x, pw)
      <3>1. Store!Ends({x}, "err", "clean") \subseteq Store!Recover(x, pw)
        BY <1>3, <2>2 DEF Store!Recover, Admitted, OpenedBy
      <3> QED BY <1>1, <1>3, <2>1, <2>2, <3>1, Interrupting, Ending
    <2>3. CASE OpenedBy(x, pw)
      <3>1. Store!Interrupted(Store!HalfRecovered(x)) \subseteq Store!Recover(x, pw)
        BY <1>3, <2>3 DEF Store!Recover, Admitted, OpenedBy
      <3>2. CASE Colliding(x)
        <4>1. Store!Ends({[x EXCEPT !.clear = {}, !.rec = TRUE]}, "err", "clean")
                \subseteq Store!Recover(x, pw)
          BY <1>3, <2>3, <3>2 DEF Store!Recover, Admitted, OpenedBy, Colliding
        <4> QED BY <1>1, <1>3, <2>1, <2>3, <3>1, <3>2, <4>1, Interrupting, Ending
      <3>3. CASE ~Colliding(x)
        <4>1. Store!Ends({Store!Removed(Store!Gathered(x))}, "ok", "clean")
                \subseteq Store!Recover(x, pw)
          BY <1>3, <2>3, <3>3 DEF Store!Recover, Admitted, OpenedBy, Colliding
        <4> QED BY <1>1, <1>3, <2>1, <2>3, <3>1, <3>3, <4>1, Interrupting, Ending
      <3> QED BY <3>2, <3>3
    <2> QED BY <2>2, <2>3
  <1> QED BY <1>2, <1>3

-----------------------------------------------------------------------------
(* What a call has done so far to the storage it started on.                 *)

Fresh == faults = failed

\* The path of the mount, and the storage seen field by field.
At == IF mtab = <<>> THEN "none" ELSE mtab[1].at
HeaderIs(x) == hdr.stat = x.stat /\ hdr.pass = x.pass
Is(x) == /\ plain = x.clear /\ Ciphertext = x.cipher /\ privDir = x.priv
         /\ HeaderIs(x) /\ At = x.at /\ recDir = x.rec

\* What a call knows of the storage it started on.
BeforeInv ==
  /\ before \in Store!Storage /\ failed \in Nat /\ failed <= faults
  /\ ~before.priv => before.cipher = {} /\ before.at = "none"
  /\ before.stat \in {"absent", "malformed"} => before.pass = NoPassword

\* What is left to do, and what failed, in a removal of the items I.
RemovalSoFar(p, I) ==
  pc[p] = "rdel" => /\ work[p] \subseteq I /\ (~bad[p] => I \subseteq work[p])
                    /\ bad[p] => ~Fresh

CreateSoFar(p) ==
  /\ pc[p] \in {"create", "mkpriv"} => Is(before)
  /\ pc[p] # "create" => call[p].pw \notin ShortPasswords /\ ~before.priv
  /\ pc[p] = "newhdr" => Is(Store!Made(before))
  /\ pc[p] \notin {"create", "mkpriv", "newhdr"} =>
       /\ privDir /\ recDir = before.rec
       /\ hdr.stat = "not_started" /\ hdr.pass = call[p].pw
       /\ Ciphertext \subseteq before.clear /\ plain \subseteq before.clear
  /\ phase[p] = "nocopy" => plain = before.clear /\ ~Fresh
  /\ phase[p] = "forward" =>
       /\ pc[p] # "rdel" => Fresh
       /\ pc[p] \in {"mcheck", "mopen", "mkeys", "mount", "list", "copy", "ucheck", "umount",
                     "ukeys", "rlist"} => plain = before.clear
       /\ pc[p] \in {"mcheck", "mopen", "mkeys", "mount", "list"} => Ciphertext = {}
       /\ pc[p] = "copy" => Ciphertext = plain \ work[p] /\ work[p] \subseteq plain
       /\ pc[p] \in {"ucheck", "umount", "ukeys", "rlist", "rdel", "sread", "swrite"} =>
            Ciphertext = before.clear
       /\ RemovalSoFar(p, plain) /\ (pc[p] = "rdel" /\ ~bad[p] => Fresh)
       /\ pc[p] \in {"sread", "swrite"} => plain = {}

UnlockSoFar(p) ==
  /\ Is(before) /\ Fresh
  /\ pc[p] # "unlock" => call[p].pw \notin ShortPasswords /\ before.stat = "completed"
  /\ pc[p] \in {"mkeys", "mount"} => before.pass = call[p].pw

LockSoFar(p) == Fresh /\ Is(IF pc[p] = "ukeys" THEN Store!Locked(before) ELSE before)

ChangeSoFar(p) ==
  /\ Is(before) /\ Fresh
  /\ pc[p] = "pwrite" =>
       /\ {call[p].pw, call[p].new} \cap ShortPasswords = {}
       /\ Store!HasHeader(before) /\ before.pass = call[p].pw

\* The removal of P, by a call of its own or as the end of a recovery, with the
\* items of clear in the storage directory.
DestroySoFar(p, clear) ==
  /\ plain = clear /\ HeaderIs(before) /\ recDir = before.rec
  /\ privDir = (pc[p] # "unlink") /\ before.priv /\ before.at = "none"
  /\ Ciphertext \subseteq before.cipher
  /\ pc[p] = "rlist" => Ciphertext = before.cipher
  /\ pc[p] \in {"rmdir", "unlink"} => Ciphertext = {}
  /\ RemovalSoFar(p, Ciphertext) /\ (pc[p] # "rdel" \/ ~bad[p] => Fresh)

RemoveSoFar(p) == IF pc[p] = "rcheck" THEN Is(before) /\ Fresh
                  ELSE DestroySoFar(p, before.clear)

Opens(p) == OpenedBy(before, call[p].pw)
Collides == Colliding(before)
Gathers  == before.clear \cup before.cipher
\* All a recovery changes before it destroys: the items in the clear, R, and the
\* mount.
Returning == /\ privDir /\ recDir /\ HeaderIs(before) /\ Ciphertext = before.cipher
             /\ plain \subseteq Gathers

RecoverSoFar(p) ==
  /\ pc[p] \in {"recover", "mkrec"} => Is(before) /\ Fresh
  /\ pc[p] # "recover" => /\ call[p].pw \notin ShortPasswords
                          /\ before.priv /\ before.at = "none"
  /\ pc[p] \notin {"recover", "mkrec"} => ~before.rec
  /\ phase[p] = "nomount" => /\ Returning /\ plain = before.clear
                             /\ Fresh => ~Opens(p)
                             /\ pc[p] = "rdel" => work[p] = {} /\ ~bad[p]
  /\ phase[p] = "forward" =>
       /\ Fresh
       /\ pc[p] \in {"mcheck", "mopen", "mkeys", "mount", "list"} => plain = before.clear
       /\ pc[p] \notin {"recover", "mkrec", "rcheck"} => Returning
       /\ pc[p] \notin {"recover", "mkrec", "mcheck", "mopen"} => Opens(p)
       /\ pc[p] = "copy" =>
            /\ before.clear \subseteq plain
            /\ work[p] \subseteq before.cipher /\ before.cipher \subseteq plain \cup work[p]
            /\ plain \cap work[p] \subseteq before.clear
            /\ Dirs \cap before.clear \cap before.cipher \subseteq work[p]
       /\ pc[p] \in {"ucheck", "umount", "ukeys", "rmdir"} => plain = Gathers /\ ~Collides
       /\ pc[p] = "rcheck" => Is(Store!Gathered(before)) /\ ~Collides
  /\ phase[p] = "nocopy" =>
       /\ Returning /\ Opens(p) /\ (Fresh => Collides)
       /\ pc[p] \in {"rlist", "rdel"} /\ Fresh => mtab = <<>>
       /\ RemovalSoFar(p, plain)
  /\ phase[p] = "destroy" => Opens(p) /\ ~Collides /\ ~before.rec /\ DestroySoFar(p, Gathers)

SoFar(p) ==
  /\ BeforeInv
  /\ Op(p) = "create"  => CreateSoFar(p)
  /\ Op(p) = "unlock"  => UnlockSoFar(p)
  /\ Op(p) = "lock"    => LockSoFar(p)
  /\ Op(p) = "change"  => ChangeSoFar(p)
  /\ Op(p) = "remove"  => RemoveSoFar(p)
  /\ Op(p) = "recover" => RecoverSoFar(p)

\* Only a removal that is under way has failed to remove an item.
ListInv(p) == pc[p] # "rdel" => ~bad[p]

CallInv(p) == /\ TokensInv(p) /\ ListInv(p)
              /\ IF pc[p] = "idle" THEN before = NotRunning /\ failed = 0
                 ELSE how = "clean" /\ SoFar(p)
HInv == \A p \in Procs : CallInv(p)

-----------------------------------------------------------------------------
(* At every step the storage is in a state in which the call may fail.       *)

\* The storage as it is now, and a storage known field by field.
LEMMA NowIsStorage ==
  TypeOK => Now \in Store!Storage
PROOF
  <1> SUFFICES ASSUME TypeOK PROVE Now \in Store!Storage
    OBVIOUS
  <1>1. At \in {"none", "S", "P", "R"}
    <2>1. mtab \in Seq(Entry)
      BY DEF TypeOK, KernelTypeOK
    <2>2. mtab = <<>> \/ mtab[1] \in Entry
      BY <2>1
    <2> QED BY <2>2 DEF At, Entry, Points
  <1>2. Ciphertext \subseteq Items /\ plain \subseteq Items
    BY DEF Ciphertext, TypeOK, DiskTypeOK
  <1>3. /\ privDir \in BOOLEAN /\ recDir \in BOOLEAN
        /\ hdr.stat \in {"absent", "malformed", "not_started", "completed"}
        /\ hdr.pass \in Passwords \cup {NoPassword}
    BY DEF TypeOK, DiskTypeOK, Header
  <1>4. Now = [clear |-> plain, cipher |-> Ciphertext, priv |-> privDir, stat |-> hdr.stat,
               pass |-> hdr.pass, at |-> At, rec |-> recDir]
    BY DEF Now, At
  <1> QED BY <1>1, <1>2, <1>3, <1>4 DEF Store!Storage

LEMMA IsNow ==
  ASSUME NEW x \in Store!Storage
  PROVE  Is(x) => Now = x
PROOF
  <1> SUFFICES ASSUME Is(x) PROVE Now = x
    OBVIOUS
  <1>1. x = [clear |-> x.clear, cipher |-> x.cipher, priv |-> x.priv, stat |-> x.stat,
             pass |-> x.pass, at |-> x.at, rec |-> x.rec]
    BY DEF Store!Storage
  <1>2. Now = [clear |-> x.clear, cipher |-> x.cipher, priv |-> x.priv, stat |-> x.stat,
               pass |-> x.pass, at |-> x.at, rec |-> x.rec]
    BY DEF Now, Is, HeaderIs, At
  <1> QED BY <1>1, <1>2

\* The seven fields of the storage.
LEMMA NowFields ==
  /\ Now.clear = plain /\ Now.cipher = Ciphertext /\ Now.priv = privDir
  /\ Now.stat = hdr.stat /\ Now.pass = hdr.pass /\ Now.at = At /\ Now.rec = recDir
PROOF BY DEF Now, At

LEMMA AtOf ==
  ASSUME NEW pt
  PROVE  /\ mtab = <<>> => At = "none"
         /\ OneMount(pt) => At = pt
PROOF BY DEF At, OneMount

LEMMA OutcomesOf ==
  ASSUME NEW x, NEW c
  PROVE  /\ c.op = "create"  => Store!Outcomes(x, c) = Store!Create(x, c.pw)
         /\ c.op = "unlock"  => Store!Outcomes(x, c) = Store!Unlock(x, c.pw)
         /\ c.op = "lock"    => Store!Outcomes(x, c) = Store!Lock(x)
         /\ c.op = "change"  => Store!Outcomes(x, c) = Store!Change(x, c.pw, c.new)
         /\ c.op = "remove"  => Store!Outcomes(x, c) = Store!Remove(x)
         /\ c.op = "recover" => Store!Outcomes(x, c) = Store!Recover(x, c.pw)
PROOF BY DEF Store!Outcomes

\* The storage in the middle of an EFS_create.
LEMMA CreateHalf ==
  ASSUME TypeOK, SoloInv, NEW p \in Procs, pc[p] # "idle", Op(p) = "create",
         BeforeInv, CreateSoFar(p)
  PROVE  Now = before \/ (~(call[p].pw \in ShortPasswords \/ before.priv)
                          /\ Now \in Store!HalfCreated(before, call[p].pw))
PROOF
  <1>1. before \in Store!Storage /\ call[p].pw \in Passwords \cup {NoPassword}
    BY DEF BeforeInv, TypeOK, ProcsTypeOK, CallArgs, NoCall
  <1> DEFINE pw == call[p].pw
  <1>2. CASE pc[p] \in {"create", "mkpriv"}
    BY <1>1, <1>2, IsNow DEF CreateSoFar
  <1>3. CASE pc[p] = "newhdr"
    <2>1. Store!Made(before) \in Store!Storage
      BY <1>1 DEF Store!Made, Store!Storage
    <2>2. Now = Store!Made(before)
      BY <1>3, <2>1, IsNow DEF CreateSoFar
    <2> QED BY <1>3, <2>2 DEF CreateSoFar, Store!HalfCreated
  <1>4. ASSUME pc[p] \notin {"create", "mkpriv", "newhdr"}
        PROVE  Now \in Store!HalfCreated(before, pw)
    <2>1. /\ privDir /\ recDir = before.rec /\ hdr.stat = "not_started" /\ hdr.pass = pw
          /\ Ciphertext \subseteq before.clear /\ plain \subseteq before.clear
          /\ before.clear \subseteq Items
      BY <1>1, <1>4 DEF CreateSoFar, Store!Storage
    <2>2. Mine(p) /\ ViewInv /\ PointOf[Op(p)] = "P" /\ Through(p)
      BY PointsOf DEF SoloInv, Through
    <2>3. CASE plain = before.clear /\ At \in {"none", "P"}
      <3> DEFINE x == [Store!Keyed(before, pw) EXCEPT !.cipher = Ciphertext, !.at = At]
      <3>1. x \in Store!Storage /\ Is(x)
        BY <1>1, <2>1, <2>3 DEF Store!Keyed, Store!Storage, Is, HeaderIs
      <3>2. x \in Store!Copied(before, pw, "none") \cup Store!Copied(before, pw, "P")
        BY <2>1, <2>3 DEF Store!Copied
      <3> HIDE DEF x
      <3> QED BY <3>1, <3>2, IsNow DEF Store!HalfCreated
    <2>4. CASE Ciphertext = before.clear /\ At = "none"
      <3> DEFINE x == [Store!Keyed(before, pw) EXCEPT !.cipher = before.clear, !.clear = plain]
      <3>0. before.at = "none"
        BY <1>4 DEF CreateSoFar, BeforeInv
      <3>1. x \in Store!Storage /\ Is(x)
        BY <1>1, <2>1, <2>4, <3>0 DEF Store!Keyed, Store!Storage, Is, HeaderIs
      <3>2. x \in Store!Wiped(before, pw)
        BY <2>1 DEF Store!Wiped
      <3> HIDE DEF x
      <3> QED BY <3>1, <3>2, IsNow DEF Store!HalfCreated
    <2>5. mtab = <<>> \/ OneMount("P")
      <3>1. phase[p] \in {"forward", "nocopy"}
        BY <2>2 DEF Mine, PlaceInv
      <3>2. CASE phase[p] = "forward"
        <4>1. pc[p] \in {"mcheck", "mopen", "mkeys", "mount", "list", "copy", "ucheck", "umount",
                         "ukeys", "rlist", "rdel", "sread", "swrite"}
          BY <1>4, <2>2, <3>2 DEF Mine, PlaceInv, OnTheWay
        <4> QED BY <2>2, <3>2, <4>1 DEF Mine, MountInv
      <3>3. CASE phase[p] = "nocopy"
        <4>1. pc[p] \in {"ucheck", "umount", "ukeys", "rlist", "rdel", "rmdir"}
          BY <2>2, <3>3 DEF Mine, PlaceInv
        <4> QED BY <2>2, <3>3, <4>1 DEF Mine, MountInv
      <3> QED BY <3>1, <3>2, <3>3
    <2>6. At \in {"none", "P"}
      BY <2>5, AtOf
    <2>7. \/ phase[p] = "nocopy"
          \/ /\ phase[p] = "forward"
             /\ pc[p] \in {"mcheck", "mopen", "mkeys", "mount", "list", "copy", "ucheck", "umount",
                         "ukeys", "rlist", "rdel", "sread", "swrite"}
      BY <1>4, <2>2 DEF Mine, PlaceInv, OnTheWay
    <2>8. plain = before.clear \/ (Ciphertext = before.clear /\ mtab = <<>>)
      BY <1>4, <2>2, <2>7 DEF CreateSoFar, Mine, MountInv
    <2> QED BY <2>3, <2>4, <2>6, <2>8, AtOf
  <1> QED BY <1>2, <1>3, <1>4 DEF CreateSoFar

\* The storage while P is removed.
LEMMA DestroyHalf ==
  ASSUME TypeOK, NEW p \in Procs, BeforeInv, mtab = <<>>,
         NEW clear \in SUBSET Items, DestroySoFar(p, clear),
         pc[p] \in {"rlist", "rdel", "rmdir", "unlink"}
  PROVE  Now \in Store!HalfRemoved([before EXCEPT !.clear = clear])
PROOF
  <1> DEFINE y == [before EXCEPT !.clear = clear]
  <1>1. y \in Store!Storage /\ y.cipher = before.cipher
    BY DEF BeforeInv, Store!Storage
  <1>2. CASE pc[p] = "unlink"
    <2> DEFINE x == [y EXCEPT !.cipher = {}, !.priv = FALSE]
    <2>1. x \in Store!Storage /\ Is(x)
      BY <1>2, AtOf DEF BeforeInv, Store!Storage, Is, HeaderIs, DestroySoFar
    <2>2. x \in Store!HalfRemoved(y)
      BY DEF Store!HalfRemoved
    <2> HIDE DEF x, y
    <2> QED BY <2>1, <2>2, IsNow DEF y
  <1>3. CASE pc[p] # "unlink"
    <2> DEFINE x == [y EXCEPT !.cipher = Ciphertext]
    <2>0. Ciphertext \subseteq before.cipher
      BY DEF DestroySoFar
    <2>1. x \in Store!Storage
      BY <2>0 DEF BeforeInv, Store!Storage
    <2>1a. Is(x)
      BY <1>3, AtOf DEF BeforeInv, Store!Storage, Is, HeaderIs, DestroySoFar
    <2>2. x \in Store!HalfRemoved(y)
      BY <1>1, <2>0 DEF Store!HalfRemoved
    <2> HIDE DEF x, y
    <2> QED BY <2>1, <2>1a, <2>2, IsNow DEF y
  <1> QED BY <1>2, <1>3

\* The storage in the middle of an EFS_recover_data_and_remove.
LEMMA RecoverHalf ==
  ASSUME TypeOK, SoloInv, NEW p \in Procs, pc[p] # "idle", Op(p) = "recover",
         BeforeInv, RecoverSoFar(p)
  PROVE  \/ Now = before
         \/ Admitted(before, call[p].pw) /\ Now = [before EXCEPT !.rec = TRUE]
         \/ Admitted(before, call[p].pw) /\ Opens(p) /\ Now \in Store!HalfRecovered(before)
PROOF
  <1>1. before \in Store!Storage /\ Gathers \subseteq Items
    BY DEF BeforeInv, Gathers, Store!Storage
  <1>2. Mine(p) /\ ViewInv /\ PointOf[Op(p)] = "R" /\ Through(p)
    BY PointsOf DEF SoloInv, Through
  <1>3. CASE pc[p] \in {"recover", "mkrec"}
    BY <1>1, <1>3, IsNow DEF RecoverSoFar
  <1>4. ASSUME pc[p] \notin {"recover", "mkrec"} PROVE Admitted(before, call[p].pw)
    BY <1>4 DEF RecoverSoFar, Admitted
  <1>5. ASSUME pc[p] \notin {"recover", "mkrec"}, mtab = <<>>, Returning, plain = before.clear
        PROVE  Now = [before EXCEPT !.rec = TRUE]
    <2> DEFINE x == [before EXCEPT !.rec = TRUE]
    <2>1. before.priv /\ before.at = "none"
      BY <1>5 DEF RecoverSoFar
    <2>2. x \in Store!Storage /\ Is(x)
      BY <1>1, <1>5, <2>1, AtOf DEF Store!Storage, Is, HeaderIs, Returning
    <2> HIDE DEF x
    <2> QED BY <2>2, IsNow DEF x
  <1>6. ASSUME pc[p] \notin {"recover", "mkrec"}, mtab = <<>> \/ OneMount("R"), Returning
        PROVE  Now \in Store!HalfRecovered(before)
    <2> DEFINE x == [before EXCEPT !.clear = plain, !.rec = TRUE, !.at = At]
    <2>1. before.priv /\ At \in {"none", "R"}
      BY <1>6, AtOf DEF RecoverSoFar
    <2>2. x \in Store!Storage
      BY <1>1, <1>6, <2>1 DEF Store!Storage, Returning
    <2>3. Is(x)
      BY <1>1, <1>6, <2>1 DEF Store!Storage, Is, HeaderIs, Returning
    <2>4. x \in Store!Restored(before, At)
      BY <1>6 DEF Store!Restored, Returning, Gathers
    <2> HIDE DEF x
    <2> QED BY <2>1, <2>2, <2>3, <2>4, IsNow DEF Store!HalfRecovered
  <1>7. CASE phase[p] = "nomount"
    <2>1. pc[p] \in {"rlist", "rdel", "rmdir"} /\ mtab = <<>>
      BY <1>2, <1>7 DEF Mine, PlaceInv, MountInv
    <2> QED BY <1>4, <1>5, <1>7, <2>1 DEF RecoverSoFar
  <1>8. CASE phase[p] = "nocopy"
    <2>1. pc[p] \in {"ucheck", "umount", "ukeys", "rlist", "rdel"}
      BY <1>2, <1>8 DEF Mine, PlaceInv
    <2>2. mtab = <<>> \/ OneMount("R")
      BY <1>2, <1>8, <2>1 DEF Mine, MountInv
    <2> QED BY <1>4, <1>6, <1>8, <2>1, <2>2 DEF RecoverSoFar
  <1>9. CASE phase[p] = "destroy"
    <2>1. pc[p] \in {"rlist", "rdel", "rmdir", "unlink"} /\ mtab = <<>>
      BY <1>2, <1>9 DEF Mine, PlaceInv, MountInv
    <2>2. Opens(p) /\ DestroySoFar(p, Gathers)
      BY <1>9 DEF RecoverSoFar
    <2>3. Now \in Store!HalfRemoved([before EXCEPT !.clear = Gathers])
      BY <1>1, <2>1, <2>2, DestroyHalf
    <2>4. Store!Gathered(before) = [before EXCEPT !.clear = Gathers]
      BY DEF Store!Gathered, Gathers
    <2> QED BY <1>4, <2>1, <2>2, <2>3, <2>4 DEF Store!HalfRecovered
  <1>10. CASE phase[p] = "forward" /\ pc[p] \notin {"recover", "mkrec"}
    <2>1. pc[p] \in {"mcheck", "mopen", "mkeys", "mount", "list", "copy", "ucheck", "umount",
                     "ukeys", "rmdir", "rcheck"}
      BY <1>2, <1>10 DEF Mine, PlaceInv, OnTheWay
    <2>2. CASE pc[p] \in {"mcheck", "mopen"}
      <3>1. mtab = <<>>
        BY <1>2, <2>2 DEF Mine, MountInv
      <3> QED BY <1>4, <1>5, <1>10, <2>2, <3>1 DEF RecoverSoFar
    <2>3. CASE pc[p] \in {"mkeys", "mount", "list", "copy", "ucheck", "umount", "ukeys", "rmdir"}
      <3>1. mtab = <<>> \/ OneMount("R")
        BY <1>2, <1>10, <2>3 DEF Mine, MountInv
      <3> QED BY <1>4, <1>6, <1>10, <2>3, <3>1 DEF RecoverSoFar
    <2>4. CASE pc[p] = "rcheck"
      <3> DEFINE y == Store!Gathered(before)
      <3>1. y \in Store!Storage /\ y = [y EXCEPT !.cipher = y.cipher] /\ y.cipher \subseteq y.cipher
        BY <1>1 DEF Store!Gathered, Store!Storage
      <3>2. y \in Store!HalfRemoved(y)
        BY <3>1 DEF Store!HalfRemoved
      <3>3. Is(y) /\ Opens(p)
        BY <1>10, <2>4 DEF RecoverSoFar
      <3>4. Now = y
        BY <3>1, <3>3, IsNow
      <3> QED BY <1>4, <2>4, <3>2, <3>3, <3>4 DEF Store!HalfRecovered
    <2> QED BY <2>1, <2>2, <2>3, <2>4
  <1> QED BY <1>2, <1>3, <1>7, <1>8, <1>9, <1>10 DEF Mine, PlaceInv

\* The storage in the middle of an EFS_remove.
LEMMA RemoveHalf ==
  ASSUME TypeOK, SoloInv, NEW p \in Procs, pc[p] # "idle", Op(p) = "remove",
         BeforeInv, RemoveSoFar(p)
  PROVE  \/ Now = before
         \/ before.priv /\ before.at = "none" /\ Now \in Store!HalfRemoved(before)
PROOF
  <1>1. before \in Store!Storage /\ before.clear \subseteq Items
    BY DEF BeforeInv, Store!Storage
  <1>2. Mine(p)
    BY DEF SoloInv
  <1>3. CASE pc[p] = "rcheck"
    BY <1>1, <1>3, IsNow DEF RemoveSoFar
  <1>4. CASE pc[p] # "rcheck"
    <2>1. pc[p] \in {"rlist", "rdel", "rmdir", "unlink"} /\ phase[p] = "destroy" /\ mtab = <<>>
      <3>1. pc[p] \in {"rlist", "rdel", "rmdir", "unlink"} /\ phase[p] = "destroy"
        BY <1>2, <1>4 DEF Mine, PlaceInv, OnTheWay, Through
      <3> QED BY <1>2, <3>1 DEF Mine, MountInv
    <2>2. DestroySoFar(p, before.clear)
      BY <1>4 DEF RemoveSoFar
    <2>3. Now \in Store!HalfRemoved([before EXCEPT !.clear = before.clear])
      BY <1>1, <2>1, <2>2, DestroyHalf
    <2>4. [before EXCEPT !.clear = before.clear] = before
      BY <1>1 DEF Store!Storage
    <2> QED BY <2>2, <2>3, <2>4 DEF DestroySoFar
  <1> QED BY <1>3, <1>4

\* A call may end with each code and in each way EfsCalls lists.
Allowed(p, y, code, way) == End(y, code, way) \in Store!Outcomes(before, call[p])

LEMMA AllowedBy ==
  ASSUME NEW p, NEW y, NEW code, NEW way
  PROVE  LET c == call[p]  e == End(y, code, way) IN
         /\ Op(p) = "create"  /\ e \in Store!Create(before, c.pw)  => Allowed(p, y, code, way)
         /\ Op(p) = "unlock"  /\ e \in Store!Unlock(before, c.pw)  => Allowed(p, y, code, way)
         /\ Op(p) = "lock"    /\ e \in Store!Lock(before)          => Allowed(p, y, code, way)
         /\ Op(p) = "change"  /\ e \in Store!Change(before, c.pw, c.new)
              => Allowed(p, y, code, way)
         /\ Op(p) = "remove"  /\ e \in Store!Remove(before)        => Allowed(p, y, code, way)
         /\ Op(p) = "recover" /\ e \in Store!Recover(before, c.pw) => Allowed(p, y, code, way)
PROOF BY OutcomesOf DEF Allowed, Op

\* Wherever a call is, it may fail or die there.
LEMMA MayEndHere ==
  ASSUME TypeOK, SoloInv, NEW p \in Procs, pc[p] # "idle", SoFar(p)
  PROVE  /\ Allowed(p, Now, "none", "killed")
         /\ Allowed(p, Now, "err", "fault")
PROOF
  <1>1. before \in Store!Storage
    BY DEF SoFar, BeforeInv
  <1>2. Mine(p) /\ call[p] \in CallArgs \cup {NoCall}
    BY DEF SoloInv, TypeOK, ProcsTypeOK
  <1>3. Op(p) \in {"create", "unlock", "lock", "change", "remove", "recover"}
    BY <1>2 DEF Mine, PlaceInv, OnTheWay, Through
  <1>4. CASE Op(p) = "create"
    <2>1. Store!Outcomes(before, call[p]) = Store!Create(before, call[p].pw)
      BY <1>4, OutcomesOf DEF Op
    <2> QED BY <1>4, <2>1, CreateHalf, CreateEnds DEF SoFar, Allowed
  <1>5. CASE Op(p) = "unlock"
    <2>1. Store!Outcomes(before, call[p]) = Store!Unlock(before, call[p].pw)
      BY <1>5, OutcomesOf DEF Op
    <2> QED BY <1>1, <1>5, <2>1, IsNow, UnlockEnds DEF SoFar, UnlockSoFar, Allowed
  <1>6. CASE Op(p) = "lock"
    <2>1. Store!Outcomes(before, call[p]) = Store!Lock(before)
      BY <1>6, OutcomesOf DEF Op
    <2>2. Store!Locked(before) \in Store!Storage
      BY <1>1 DEF Store!Locked, Store!Storage
    <2>3. Now = IF pc[p] = "ukeys" THEN Store!Locked(before) ELSE before
      BY <1>1, <1>6, <2>2, IsNow DEF SoFar, LockSoFar
    <2> QED BY <1>6, <2>1, <2>3, LockEnds DEF Allowed
  <1>7. CASE Op(p) = "change"
    <2>1. Store!Outcomes(before, call[p]) = Store!Change(before, call[p].pw, call[p].new)
      BY <1>7, OutcomesOf DEF Op
    <2> QED BY ZenonT(40), <1>1, <1>7, <2>1, IsNow, ChangeEnds DEF SoFar, ChangeSoFar, Allowed
  <1>8. CASE Op(p) = "remove"
    <2>1. Store!Outcomes(before, call[p]) = Store!Remove(before)
      BY <1>8, OutcomesOf DEF Op
    <2> QED BY <1>8, <2>1, RemoveHalf, RemoveEnds DEF SoFar, Allowed
  <1>9. CASE Op(p) = "recover"
    <2>1. Store!Outcomes(before, call[p]) = Store!Recover(before, call[p].pw)
      BY <1>9, OutcomesOf DEF Op
    <2> DEFINE pw == call[p].pw
    <2>2. \/ Now = before
          \/ Admitted(before, pw) /\ Now = [before EXCEPT !.rec = TRUE]
          \/ /\ Admitted(before, pw) /\ OpenedBy(before, pw)
             /\ Now \in Store!HalfRecovered(before)
      BY <1>9, RecoverHalf DEF SoFar, Opens
    <2>3. /\ End(Now, "err", "fault") \in Store!Recover(before, pw)
          /\ End(Now, "none", "killed") \in Store!Recover(before, pw)
      BY <2>2, RecoverEnds
    <2> QED BY <2>1, <2>3 DEF Allowed
  <1> QED BY <1>3, <1>4, <1>5, <1>6, <1>7, <1>8, <1>9

-----------------------------------------------------------------------------
(* Each step either leaves the call running, in a state it may be in, or     *)
(* returns with an outcome it may have.                                      *)

Inside(p) == /\ OneCaller /\ TypeOK /\ TypeOK' /\ SoloInv /\ SoloInv'
             /\ pc[p] # "idle" /\ SoFar(p) /\ TokensInv(p) /\ ListInv(p)

Goes(p) == IF pc'[p] = "idle"
           THEN Allowed(p, Now', ret'[p], IF faults' > failed THEN "fault" ELSE "clean")
           ELSE before' = before /\ failed' = failed => SoFar(p)'

\* The step leaves the storage alone.
SameStore == UNCHANGED <<plain, privDir, enc, hdr, recDir, mtab>>
LEMMA StoreStays ==
  ASSUME SameStore
  PROVE  /\ Now' = Now /\ Ciphertext' = Ciphertext /\ At' = At
         /\ \A x : Is(x)' <=> Is(x)
         /\ \A x : HeaderIs(x)' <=> HeaderIs(x)
PROOF BY DEF SameStore, Now, Ciphertext, At, Is, HeaderIs

LEMMA BeforeStays ==
  ASSUME TypeOK, BeforeInv, before' = before, failed' = failed,
         faults' = faults \/ faults' = faults + 1
  PROVE  BeforeInv'
PROOF BY DEF BeforeInv, TypeOK, BudgetTypeOK

\* A call that has met a failure may report it wherever it is.
LEMMA FailsHere ==
  ASSUME NEW p \in Procs, Inside(p), SameStore, pc'[p] = "idle", ret'[p] = "err",
         faults' > failed
  PROVE  Goes(p)
PROOF BY StoreStays, MayEndHere DEF Goes, Inside

LEMMA FaultHere ==
  ASSUME NEW p \in Procs, Inside(p), SameStore, NEW kind, Fault(kind), Finish(p, "err")
  PROVE  Goes(p)
PROOF
  <1>1. pc'[p] = "idle" /\ ret'[p] = "err" /\ faults' > failed
    BY DEF Fault, Finish, Inside, TypeOK, ProcsTypeOK, BudgetTypeOK, SoFar, BeforeInv
  <1> QED BY <1>1, FailsHere

\* A call that has met no failure returns.
LEMMA ReturnsClean ==
  ASSUME NEW p \in Procs, Inside(p), Fresh, faults' = faults, NEW code, Finish(p, code),
         Allowed(p, Now', code, "clean")
  PROVE  Goes(p)
PROOF
  <1>1. pc'[p] = "idle" /\ ret'[p] = code /\ ~(faults' > failed)
    BY DEF Fresh, Finish, Inside, TypeOK, ProcsTypeOK, BudgetTypeOK, SoFar, BeforeInv
  <1> QED BY <1>1 DEF Goes

LEMMA StepEffect ==
  ASSUME TypeOK, NEW p \in Procs
  PROVE  /\ \A step : Goto(p, step) => /\ pc'[p] = step /\ call' = call /\ phase'[p] = phase[p]
                                       /\ hcopy'[p] = hcopy[p] /\ work'[p] = work[p]
                                       /\ bad'[p] = bad[p]
         /\ \A f, step : Enter(p, f, step) => /\ pc'[p] = step /\ call' = call /\ phase'[p] = f
                                              /\ work'[p] = {} /\ bad'[p] = FALSE
         /\ \A code : Finish(p, code) => pc'[p] = "idle" /\ ret'[p] = code /\ call' = call
PROOF BY DEF Goto, Enter, Finish, TypeOK, ProcsTypeOK

\* Where each step belongs.
LEMMA PlaceOf ==
  ASSUME SoloInv, NEW p \in Procs
  PROVE  /\ pc[p] \in {"create", "mkpriv", "newhdr", "sread", "swrite"} =>
              Op(p) = "create" /\ phase[p] = "forward"
         /\ pc[p] = "unlock" => Op(p) = "unlock" /\ phase[p] = "forward"
         /\ pc[p] \in {"change", "pwrite"} => Op(p) = "change" /\ phase[p] = "forward"
         /\ pc[p] \in {"recover", "mkrec"} => Op(p) = "recover" /\ phase[p] = "forward"
         /\ pc[p] = "rcheck" => \/ Op(p) = "recover" /\ phase[p] = "forward"
                                \/ Op(p) = "remove" /\ phase[p] = "destroy"
         /\ pc[p] = "unlink" => Op(p) \in {"remove", "recover"} /\ phase[p] = "destroy"
PROOF BY DEF SoloInv, Mine, PlaceInv, OnTheWay, Through

LEMMA GoesCreateChecks ==
  ASSUME NEW p \in Procs, Inside(p), CreateChecks(p)
  PROVE  Goes(p)
PROOF
  <1>1. SameStore /\ pc[p] = "create"
    BY DEF CreateChecks, SameStore, disk, kernel
  <1>2. Op(p) = "create" /\ phase[p] = "forward" /\ Is(before) /\ Fresh
    BY <1>1, PlaceOf DEF Inside, SoFar, CreateSoFar
  <1>3. CASE Fault("space") /\ Finish(p, "err")
    BY <1>1, <1>3, FaultHere
  <1>4. CASE /\ call[p].pw \in ShortPasswords \/ privDir
             /\ Finish(p, "err") /\ UNCHANGED faults
    <2>1. Now' = before /\ privDir = before.priv
      BY <1>1, <1>2, IsNow, StoreStays DEF Is, Inside, SoFar, BeforeInv
    <2>2. Allowed(p, Now', "err", "clean")
      BY <1>2, <1>4, <2>1, CreateEnds, OutcomesOf DEF Allowed, Op
    <2> QED BY <1>2, <1>4, <2>2, ReturnsClean
  <1>5. CASE /\ call[p].pw \notin ShortPasswords /\ ~privDir
             /\ Goto(p, "mkpriv") /\ UNCHANGED faults
    <2>1. pc'[p] = "mkpriv" /\ call' = call /\ phase'[p] = "forward"
      BY <1>2, <1>5, StepEffect DEF Inside
    <2> SUFFICES ASSUME before' = before, failed' = failed PROVE SoFar(p)'
      BY <2>1 DEF Goes
    <2>2. BeforeInv' /\ Fresh' /\ Is(before)'
      BY <1>1, <1>2, <1>5, BeforeStays, StoreStays DEF Inside, SoFar, Fresh
    <2>3. ~before.priv
      BY <1>2, <1>5 DEF Is
    <2>4. CreateSoFar(p)'
      BY <1>5, <2>1, <2>2, <2>3 DEF CreateSoFar, RemovalSoFar
    <2> QED BY <1>2, <2>1, <2>2, <2>4 DEF SoFar, Op
  <1> QED BY <1>3, <1>4, <1>5 DEF CreateChecks

LEMMA GoesMakePrivateDir ==
  ASSUME NEW p \in Procs, Inside(p), MakePrivateDir(p)
  PROVE  Goes(p)
PROOF
  <1>1. pc[p] = "mkpriv" /\ UNCHANGED <<plain, enc, hdr, recDir, mtab>>
    BY DEF MakePrivateDir, kernel
  <1>2. /\ Op(p) = "create" /\ phase[p] = "forward" /\ Is(before) /\ Fresh
        /\ call[p].pw \notin ShortPasswords /\ ~before.priv /\ BeforeInv
    BY <1>1, PlaceOf DEF Inside, SoFar, CreateSoFar
  <1>3. CASE Fault("mkdir") /\ Finish(p, "err") /\ UNCHANGED privDir
    <2>1. SameStore
      BY <1>1, <1>3 DEF SameStore
    <2> QED BY <1>1, <1>3, <2>1, FaultHere
  <1>4. CASE privDir'  = TRUE /\ Goto(p, "newhdr") /\ UNCHANGED faults
    <2>1. pc'[p] = "newhdr" /\ call' = call /\ phase'[p] = "forward"
      BY <1>2, <1>4, StepEffect DEF Inside
    <2> SUFFICES ASSUME before' = before, failed' = failed PROVE SoFar(p)'
      BY <2>1 DEF Goes
    <2>2. BeforeInv' /\ Fresh'
      BY <1>2, <1>4, BeforeStays DEF Inside, Fresh
    <2>3. Is(Store!Made(before))'
      BY <1>1, <1>2, <1>4 DEF Is, HeaderIs, At, Ciphertext, BeforeInv, Store!Made, Store!Storage
    <2>4. CreateSoFar(p)'
      BY <1>2, <2>1, <2>2, <2>3 DEF CreateSoFar, RemovalSoFar
    <2> QED BY <1>2, <2>1, <2>2, <2>4 DEF SoFar, Op
  <1> QED BY <1>2, <1>3, <1>4 DEF MakePrivateDir, Is

\* IsNow, for the storage a step leaves.
LEMMA IsNext ==
  ASSUME NEW x \in Store!Storage, Is(x)'
  PROVE  Now' = x
PROOF
  <1>1. x = [clear |-> x.clear, cipher |-> x.cipher, priv |-> x.priv, stat |-> x.stat,
             pass |-> x.pass, at |-> x.at, rec |-> x.rec]
    BY DEF Store!Storage
  <1>2. Now' = [clear |-> x.clear, cipher |-> x.cipher, priv |-> x.priv, stat |-> x.stat,
                pass |-> x.pass, at |-> x.at, rec |-> x.rec]
    BY DEF Now, Is, HeaderIs, At
  <1> QED BY <1>1, <1>2

LEMMA GoesWriteNewHeader ==
  ASSUME NEW p \in Procs, Inside(p), WriteNewHeader(p)
  PROVE  Goes(p)
PROOF
  <1>1. pc[p] = "newhdr" /\ UNCHANGED <<plain, privDir, enc, recDir, mtab>> /\ mtab = <<>>
    BY DEF WriteNewHeader, kernel, Inside, SoloInv, Mine, MountInv
  <1>2. /\ Op(p) = "create" /\ phase[p] = "forward" /\ Is(Store!Made(before)) /\ Fresh
        /\ call[p].pw \notin ShortPasswords /\ ~before.priv /\ BeforeInv
        /\ before \in Store!Storage
    BY <1>1, PlaceOf DEF Inside, SoFar, CreateSoFar, BeforeInv
  <1>3. CASE Fault("random") /\ Finish(p, "err") /\ UNCHANGED hdr
    <2>1. SameStore
      BY <1>1, <1>3 DEF SameStore
    <2> QED BY <1>1, <1>3, <2>1, FaultHere
  <1>4. CASE WriteFails(p)
    <2> PICK x : x = [Store!Made(before) EXCEPT !.stat = IF @ = "absent" THEN "malformed" ELSE @]
      OBVIOUS
    <2>1. x \in Store!Storage
      BY <1>2 DEF Store!Made, Store!Storage
    <2>2. Is(x)'
      BY <1>1, <1>2, <1>4 DEF WriteFails, NoHeader, Is, HeaderIs, At, Ciphertext, BeforeInv,
         Store!Made, Store!Storage
    <2>3. x \in Store!HalfCreated(before, call[p].pw)
      BY DEF Store!HalfCreated
    <2>4. Now' = x
      BY <2>1, <2>2, IsNext
    <2>5. Allowed(p, Now', "err", "fault")
      BY <1>2, <2>3, <2>4, CreateEnds, OutcomesOf DEF Allowed, Op
    <2>6. pc'[p] = "idle" /\ ret'[p] = "err" /\ faults' > failed
      BY <1>2, <1>4 DEF WriteFails, Fault, Finish, Inside, TypeOK, ProcsTypeOK, BudgetTypeOK,
         BeforeInv
    <2> QED BY <2>5, <2>6 DEF Goes
  <1>5. ASSUME NEW k, hdr' = [key |-> k, pass |-> call[p].pw, stat |-> "not_started"],
               Goto(p, "mcheck"), UNCHANGED faults
        PROVE  Goes(p)
    <2>1. pc'[p] = "mcheck" /\ call' = call /\ phase'[p] = "forward"
      BY <1>2, <1>5, StepEffect DEF Inside
    <2> SUFFICES ASSUME before' = before, failed' = failed PROVE SoFar(p)'
      BY <2>1 DEF Goes
    <2>2. BeforeInv' /\ Fresh'
      BY <1>2, <1>5, BeforeStays DEF Inside, Fresh
    <2>3. privDir /\ recDir = before.rec /\ plain = before.clear /\ Ciphertext = {}
      BY <1>2 DEF Is, BeforeInv, Store!Made, Store!Storage
    <2>4. /\ privDir' /\ recDir' = before'.rec /\ plain' = before'.clear /\ Ciphertext' = {}
          /\ hdr'.stat = "not_started" /\ hdr'.pass = call'[p].pw
      BY <1>1, <1>5, <2>1, <2>3 DEF Ciphertext
    <2>5. CreateSoFar(p)'
      BY <1>2, <2>1, <2>2, <2>4 DEF CreateSoFar, RemovalSoFar
    <2> QED BY <1>2, <2>1, <2>2, <2>5 DEF SoFar, Op
  <1> QED BY <1>3, <1>4, <1>5 DEF WriteNewHeader

LEMMA GoesUnlockChecks ==
  ASSUME NEW p \in Procs, Inside(p), UnlockChecks(p)
  PROVE  Goes(p)
PROOF
  <1>1. SameStore /\ pc[p] = "unlock" /\ faults' = faults
    BY DEF UnlockChecks, SameStore, disk, kernel, budget
  <1>2. Op(p) = "unlock" /\ phase[p] = "forward" /\ Is(before) /\ Fresh
    BY <1>1, PlaceOf DEF Inside, SoFar, UnlockSoFar
  <1>3. Now' = before /\ hdr.stat = before.stat
    BY <1>1, <1>2, IsNow, StoreStays DEF Is, HeaderIs, Inside, SoFar, BeforeInv
  <1>4. CASE Finish(p, "err") /\ (call[p].pw \in ShortPasswords \/ ~Readable(hdr))
    <2>1. call[p].pw \in ShortPasswords \/ ~Store!HasHeader(before)
      BY <1>3, <1>4 DEF Readable, Store!HasHeader
    <2>2. End(Now', "err", "clean") \in Store!Unlock(before, call[p].pw)
      BY <1>3, <2>1, UnlockEnds
    <2> QED BY <1>1, <1>2, <1>4, <2>2, ReturnsClean, AllowedBy
  <1>5. CASE /\ call[p].pw \notin ShortPasswords /\ hdr.stat = "not_started"
             /\ Finish(p, "positive")
    <2>1. End(Now', "positive", "clean") \in Store!Unlock(before, call[p].pw)
      BY <1>3, <1>5, UnlockEnds
    <2> QED BY <1>1, <1>2, <1>5, <2>1, ReturnsClean, AllowedBy
  <1>6. CASE /\ call[p].pw \notin ShortPasswords /\ hdr.stat = "completed"
             /\ Goto(p, "mcheck")
    <2>1. pc'[p] = "mcheck" /\ call' = call
      BY <1>6, StepEffect DEF Inside
    <2> SUFFICES ASSUME before' = before, failed' = failed PROVE SoFar(p)'
      BY <2>1 DEF Goes
    <2>2. BeforeInv' /\ Fresh' /\ Is(before)'
      BY <1>1, <1>2, BeforeStays, StoreStays DEF Inside, SoFar, Fresh
    <2>3. UnlockSoFar(p)'
      BY <1>3, <1>6, <2>1, <2>2 DEF UnlockSoFar
    <2> QED BY <1>2, <2>1, <2>2, <2>3 DEF SoFar, Op
  <1> QED BY <1>4, <1>5, <1>6 DEF UnlockChecks

\* A line of the mount table is a mount somewhere.
LEMMA ListedSomething ==
  ASSUME SoloInv, Listed("P") # {}
  PROVE  At # "none"
PROOF
  <1>1. mtab # <<>>
    BY NothingSeen
  <1>2. PICK pt \in Points : OneMount(pt)
    BY <1>1 DEF SoloInv, ViewInv
  <1> QED BY <1>2, AtOf DEF Points

LEMMA GoesRecoverChecks ==
  ASSUME NEW p \in Procs, Inside(p), RecoverChecks(p)
  PROVE  Goes(p)
PROOF
  <1>1. SameStore /\ pc[p] = "recover"
    BY DEF RecoverChecks, SameStore, disk, kernel
  <1>2. Op(p) = "recover" /\ phase[p] = "forward" /\ Is(before) /\ Fresh
    BY <1>1, PlaceOf DEF Inside, SoFar, RecoverSoFar
  <1>3. CASE Fault("proc_recover") /\ Finish(p, "err")
    BY <1>1, <1>3, FaultHere
  <1>4. CASE /\ call[p].pw \in ShortPasswords \/ ~privDir \/ Listed("P") # {}
             /\ Finish(p, "err") /\ UNCHANGED faults
    <2>1. Now' = before /\ privDir = before.priv /\ At = before.at
      BY <1>1, <1>2, IsNow, StoreStays DEF Is, Inside, SoFar, BeforeInv
    <2>2. ~Admitted(before, call[p].pw)
      BY <1>4, <2>1, ListedSomething DEF Admitted, Inside
    <2>3. End(Now', "err", "clean") \in Store!Recover(before, call[p].pw)
      BY <2>1, <2>2, RecoverEnds
    <2> QED BY <1>2, <1>4, <2>3, ReturnsClean, AllowedBy
  <1>5. CASE /\ call[p].pw \notin ShortPasswords /\ privDir /\ Listed("P") = {}
             /\ Goto(p, "mkrec") /\ UNCHANGED faults
    <2>1. pc'[p] = "mkrec" /\ call' = call /\ phase'[p] = "forward"
      BY <1>2, <1>5, StepEffect DEF Inside
    <2> SUFFICES ASSUME before' = before, failed' = failed PROVE SoFar(p)'
      BY <2>1 DEF Goes
    <2>2. BeforeInv' /\ Fresh' /\ Is(before)'
      BY <1>1, <1>2, <1>5, BeforeStays, StoreStays DEF Inside, SoFar, Fresh
    <2>3. before.priv /\ before.at = "none"
      BY <1>2, <1>5, ListedNothing, AtOf DEF Is, Inside
    <2>4. RecoverSoFar(p)'
      BY <1>5, <2>1, <2>2, <2>3 DEF RecoverSoFar
    <2> QED BY <1>2, <2>1, <2>2, <2>4 DEF SoFar, Op
  <1> QED BY <1>3, <1>4, <1>5 DEF RecoverChecks

LEMMA GoesMakeRecoveryDir ==
  ASSUME NEW p \in Procs, Inside(p), MakeRecoveryDir(p)
  PROVE  Goes(p)
PROOF
  <1>1. pc[p] = "mkrec" /\ UNCHANGED <<plain, privDir, enc, hdr, mtab>>
    BY DEF MakeRecoveryDir, kernel
  <1>2. /\ Op(p) = "recover" /\ phase[p] = "forward" /\ Is(before) /\ Fresh
        /\ call[p].pw \notin ShortPasswords /\ before.priv /\ before.at = "none" /\ BeforeInv
    BY <1>1, PlaceOf DEF Inside, SoFar, RecoverSoFar
  <1>3. CASE Fault("mkdir") /\ Finish(p, "err") /\ UNCHANGED recDir
    <2>1. SameStore
      BY <1>1, <1>3 DEF SameStore
    <2> QED BY <1>1, <1>3, <2>1, FaultHere
  <1>4. CASE recDir /\ Finish(p, "err") /\ UNCHANGED <<recDir, faults>>
    <2>1. SameStore
      BY <1>1, <1>4 DEF SameStore
    <2>2. Now' = before /\ before.rec
      BY <1>2, <1>4, <2>1, IsNow, StoreStays DEF Is, BeforeInv
    <2>3. ~Admitted(before, call[p].pw)
      BY <2>2 DEF Admitted
    <2>4. End(Now', "err", "clean") \in Store!Recover(before, call[p].pw)
      BY <2>2, <2>3, RecoverEnds
    <2> QED BY <1>2, <1>4, <2>4, ReturnsClean, AllowedBy
  <1>5. CASE ~recDir /\ recDir' = TRUE /\ Goto(p, "mcheck") /\ UNCHANGED faults
    <2>1. pc'[p] = "mcheck" /\ call' = call /\ phase'[p] = "forward"
      BY <1>2, <1>5, StepEffect DEF Inside
    <2> SUFFICES ASSUME before' = before, failed' = failed PROVE SoFar(p)'
      BY <2>1 DEF Goes
    <2>2. BeforeInv' /\ Fresh'
      BY <1>2, <1>5, BeforeStays DEF Inside, Fresh
    <2>3. ~before.rec /\ plain = before.clear /\ privDir /\ HeaderIs(before)
          /\ Ciphertext = before.cipher
      BY <1>2, <1>5 DEF Is
    <2>4. Returning' /\ plain' = before'.clear
      BY <1>1, <1>5, <2>3 DEF Returning, HeaderIs, Ciphertext, Gathers
    <2>5. RecoverSoFar(p)'
      BY <1>2, <2>1, <2>2, <2>3, <2>4 DEF RecoverSoFar
    <2> QED BY <1>2, <2>1, <2>2, <2>5 DEF SoFar, Op
  <1> QED BY <1>3, <1>4, <1>5 DEF MakeRecoveryDir

LEMMA GoesRemoveChecks ==
  ASSUME NEW p \in Procs, Inside(p), RemoveChecks(p)
  PROVE  Goes(p)
PROOF
  <1>1. SameStore /\ pc[p] = "rcheck"
    BY DEF RemoveChecks, SameStore, disk, kernel
  <1>2. CASE Fault("proc_remove") /\ Finish(p, "err")
    BY <1>1, <1>2, FaultHere
  <1>3. CASE Op(p) = "remove" /\ phase[p] = "destroy"
    <2>1. Is(before) /\ Fresh /\ BeforeInv
      BY <1>1, <1>3 DEF Inside, SoFar, RemoveSoFar
    <2>2. Now' = before /\ privDir = before.priv /\ At = before.at
      BY <1>1, <2>1, IsNow, StoreStays DEF Is, BeforeInv
    <2>3. CASE ~privDir /\ Finish(p, "err") /\ UNCHANGED faults
      <3>1. End(Now', "err", "clean") \in Store!Remove(before)
        BY <2>2, <2>3, RemoveEnds
      <3> QED BY <1>3, <2>1, <2>3, <3>1, ReturnsClean, AllowedBy
    <2>4. CASE privDir /\ Listed("P") # {} /\ Finish(p, "ok") /\ UNCHANGED faults
      <3>1. before.at # "none"
        BY <2>2, <2>4, ListedSomething DEF Inside
      <3>2. End(Now', "ok", "clean") \in Store!Remove(before)
        BY <2>2, <2>4, <3>1, RemoveEnds
      <3> QED BY <1>3, <2>1, <2>4, <3>2, ReturnsClean, AllowedBy
    <2>5. CASE privDir /\ Listed("P") = {} /\ Enter(p, "destroy", "rlist") /\ UNCHANGED faults
      <3>1. pc'[p] = "rlist" /\ call' = call
        BY <2>5, StepEffect DEF Inside
      <3> SUFFICES ASSUME before' = before, failed' = failed PROVE SoFar(p)'
        BY <3>1 DEF Goes
      <3>2. BeforeInv' /\ Fresh'
        BY <2>1, <2>5, BeforeStays DEF Inside, Fresh
      <3>3. before.priv /\ before.at = "none"
        BY <2>2, <2>5, ListedNothing, AtOf DEF Inside
      <3>4. DestroySoFar(p, before.clear)'
        <4>1. /\ plain' = before'.clear /\ HeaderIs(before)' /\ recDir' = before'.rec
              /\ privDir' = TRUE /\ Ciphertext' = before'.cipher
          BY <1>1, <2>1, <2>5, StoreStays DEF Is, SameStore, HeaderIs
        <4> QED BY <3>1, <3>2, <3>3, <4>1 DEF DestroySoFar, RemovalSoFar
      <3>5. RemoveSoFar(p)'
        BY <3>1, <3>4 DEF RemoveSoFar
      <3> QED BY <1>3, <3>1, <3>2, <3>5 DEF SoFar, Op
    <2> QED BY <1>2, <2>3, <2>4, <2>5 DEF RemoveChecks
  <1>4. CASE Op(p) = "recover" /\ phase[p] = "forward"
    <2>1. /\ Is(Store!Gathered(before)) /\ ~Collides /\ Fresh /\ Opens(p) /\ before.priv
          /\ before.at = "none" /\ ~before.rec /\ call[p].pw \notin ShortPasswords /\ BeforeInv
      BY <1>1, <1>4 DEF Inside, SoFar, RecoverSoFar
    <2>2. /\ plain = Gathers /\ privDir /\ HeaderIs(before) /\ recDir = before.rec
          /\ Ciphertext = before.cipher
      BY <2>1 DEF Is, HeaderIs, BeforeInv, Store!Gathered, Store!Storage, Gathers
    <2>3. mtab = <<>>
      BY <1>1, <1>4 DEF Inside, SoloInv, Mine, MountInv
    <2>4. CASE ~(Fault("proc_remove") /\ Finish(p, "err"))
      <3>1. Enter(p, "destroy", "rlist") /\ UNCHANGED faults
        BY <2>2, <2>3, <2>4, NothingSeen DEF RemoveChecks
      <3>2. pc'[p] = "rlist" /\ call' = call /\ phase'[p] = "destroy"
        BY <3>1, StepEffect DEF Inside
      <3> SUFFICES ASSUME before' = before, failed' = failed PROVE SoFar(p)'
        BY <3>2 DEF Goes
      <3>3. BeforeInv' /\ Fresh'
        BY <2>1, <3>1, BeforeStays DEF Inside, Fresh
      <3>4. /\ plain' = Gathers' /\ HeaderIs(before)' /\ recDir' = before'.rec
            /\ privDir' = TRUE /\ Ciphertext' = before'.cipher /\ Gathers' = Gathers
        BY <1>1, <2>2, StoreStays DEF SameStore, Gathers, HeaderIs
      <3>5. DestroySoFar(p, Gathers)'
        BY <2>1, <3>2, <3>3, <3>4 DEF DestroySoFar, RemovalSoFar
      <3>6. Opens(p)' /\ ~Collides'
        BY <2>1, <3>2 DEF Opens, Collides
      <3>7. RecoverSoFar(p)'
        BY <2>1, <3>2, <3>5, <3>6 DEF RecoverSoFar
      <3> QED BY <1>4, <3>2, <3>3, <3>7 DEF SoFar, Op
    <2> QED BY <1>2, <2>4
  <1> QED BY <1>1, <1>3, <1>4, PlaceOf DEF Inside

LEMMA GoesUnlinkKeyFile ==
  ASSUME NEW p \in Procs, Inside(p), UnlinkKeyFile(p)
  PROVE  Goes(p)
PROOF
  <1>1. pc[p] = "unlink" /\ UNCHANGED <<plain, privDir, enc, recDir, mtab>>
    BY DEF UnlinkKeyFile, kernel
  <1>2. mtab = <<>> /\ Op(p) \in {"remove", "recover"} /\ phase[p] = "destroy"
    BY <1>1, PlaceOf DEF Inside, SoloInv, Mine, MountInv
  <1>3. CASE Fault("unlink") /\ Finish(p, "err") /\ UNCHANGED hdr
    <2>1. SameStore
      BY <1>1, <1>3 DEF SameStore
    <2> QED BY <1>1, <1>3, <2>1, FaultHere
  <1>4. before \in Store!Storage /\ BeforeInv
    BY DEF Inside, SoFar, BeforeInv
  <1>5. ASSUME NEW clear \in SUBSET Items, DestroySoFar(p, clear)
        PROVE  /\ Fresh /\ before.priv /\ before.at = "none" /\ hdr.stat = before.stat
               /\ hdr' = NoHeader =>
                    Now' = Store!Removed([before EXCEPT !.clear = clear])
               /\ hdr' = hdr =>
                    Now' = [before EXCEPT !.clear = clear, !.cipher = {}, !.priv = FALSE]
    <2>1. /\ plain = clear /\ HeaderIs(before) /\ recDir = before.rec /\ ~privDir
          /\ Ciphertext = {} /\ Fresh /\ before.priv /\ before.at = "none"
      BY <1>1, <1>5 DEF DestroySoFar
    <2>2. /\ plain' = clear /\ recDir' = before.rec /\ ~privDir' /\ privDir' \in BOOLEAN
          /\ Ciphertext' = {} /\ At' = before.at
      BY <1>1, <1>2, <2>1, StoreStays DEF Ciphertext, At, Inside, TypeOK, DiskTypeOK
    <2>3. ASSUME hdr' = NoHeader
          PROVE  Now' = Store!Removed([before EXCEPT !.clear = clear])
      <3> PICK x : x = Store!Removed([before EXCEPT !.clear = clear])
        OBVIOUS
      <3>1. x \in Store!Storage
        BY <1>4 DEF Store!Removed, Store!Storage
      <3>2. /\ x.clear = clear /\ x.cipher = {} /\ x.priv = FALSE /\ x.stat = "absent"
            /\ x.pass = NoPassword /\ x.at = before.at /\ x.rec = before.rec
        BY <1>4 DEF Store!Removed, Store!Storage
      <3>3. Is(x)'
        BY <2>2, <2>3, <3>2 DEF Is, HeaderIs, NoHeader
      <3> QED BY <3>1, <3>3, IsNext
    <2>4. ASSUME hdr' = hdr
          PROVE  Now' = [before EXCEPT !.clear = clear, !.cipher = {}, !.priv = FALSE]
      <3> PICK x : x = [before EXCEPT !.clear = clear, !.cipher = {}, !.priv = FALSE]
        OBVIOUS
      <3>1. x \in Store!Storage
        BY <1>4 DEF Store!Storage
      <3>2. /\ x.clear = clear /\ x.cipher = {} /\ x.priv = FALSE /\ x.stat = before.stat
            /\ x.pass = before.pass /\ x.at = before.at /\ x.rec = before.rec
        BY <1>4 DEF Store!Storage
      <3>3. Is(x)'
        BY <2>1, <2>2, <2>4, <3>2 DEF Is, HeaderIs
      <3> QED BY <3>1, <3>3, IsNext
    <2> QED BY <2>1, <2>3, <2>4 DEF HeaderIs
  <1>6. CASE Op(p) = "remove" /\ ~(Fault("unlink") /\ Finish(p, "err") /\ UNCHANGED hdr)
    <2>1. DestroySoFar(p, before.clear) /\ before.clear \in SUBSET Items
      BY <1>1, <1>4, <1>6 DEF Inside, SoFar, RemoveSoFar, Store!Storage
    <2>2. [before EXCEPT !.clear = before.clear] = before
          /\ [before EXCEPT !.clear = before.clear, !.cipher = {}, !.priv = FALSE]
               = [before EXCEPT !.cipher = {}, !.priv = FALSE]
      BY <1>4 DEF Store!Storage
    <2>3. CASE hdr.stat = "absent" /\ Finish(p, "err") /\ UNCHANGED <<hdr, faults>>
      <3>1. /\ Now' = [before EXCEPT !.cipher = {}, !.priv = FALSE] /\ Fresh
            /\ before.priv /\ before.at = "none" /\ before.stat = "absent"
        BY <1>5, <2>1, <2>2, <2>3
      <3>2. End(Now', "err", "clean") \in Store!Remove(before)
        BY <3>1, RemoveEnds
      <3> QED BY <1>6, <2>3, <3>1, <3>2, ReturnsClean, AllowedBy
    <2>4. CASE hdr.stat # "absent" /\ hdr' = NoHeader /\ Finish(p, "ok") /\ UNCHANGED faults
      <3>1. /\ Now' = Store!Removed(before) /\ Fresh
            /\ before.priv /\ before.at = "none" /\ before.stat # "absent"
        BY <1>5, <2>1, <2>2, <2>4
      <3>2. End(Now', "ok", "clean") \in Store!Remove(before)
        BY <3>1, RemoveEnds
      <3> QED BY <1>6, <2>4, <3>1, <3>2, ReturnsClean, AllowedBy
    <2> QED BY <1>6, <2>3, <2>4 DEF UnlinkKeyFile
  <1>7. CASE Op(p) = "recover" /\ ~(Fault("unlink") /\ Finish(p, "err") /\ UNCHANGED hdr)
    <2>1. /\ DestroySoFar(p, Gathers) /\ Gathers \in SUBSET Items /\ Opens(p) /\ ~Collides
          /\ ~before.rec /\ call[p].pw \notin ShortPasswords
      BY <1>1, <1>2, <1>4, <1>7 DEF Inside, SoFar, RecoverSoFar, Store!Storage, Gathers
    <2>2. Store!Gathered(before) = [before EXCEPT !.clear = Gathers]
      BY DEF Store!Gathered, Gathers
    <2>3. /\ Fresh /\ before.priv /\ before.at = "none" /\ hdr.stat = before.stat
          /\ hdr' = NoHeader => Now' = Store!Removed(Store!Gathered(before))
      BY <1>5, <2>1, <2>2
    <2>4. hdr.stat # "absent" /\ hdr' = NoHeader /\ Finish(p, "ok") /\ UNCHANGED faults
      BY <1>7, <2>1, <2>3 DEF UnlinkKeyFile, Opens, OpenedBy, Store!HasHeader
    <2>5. /\ Admitted(before, call[p].pw) /\ OpenedBy(before, call[p].pw) /\ ~Colliding(before)
          /\ Now' = Store!Removed(Store!Gathered(before))
      BY <2>1, <2>3, <2>4 DEF Admitted, Opens, Collides
    <2>6. End(Now', "ok", "clean") \in Store!Recover(before, call[p].pw)
      BY <2>5, RecoverEnds
    <2> QED BY <1>7, <2>3, <2>4, <2>6, ReturnsClean, AllowedBy
  <1> QED BY <1>2, <1>3, <1>6, <1>7

LEMMA GoesReadForStatus ==
  ASSUME NEW p \in Procs, Inside(p), ReadForStatus(p)
  PROVE  Goes(p)
PROOF
  <1>1. SameStore /\ pc[p] = "sread" /\ faults' = faults
    BY DEF ReadForStatus, SameStore, disk, kernel, budget
  <1>2. Op(p) = "create" /\ phase[p] = "forward" /\ CreateSoFar(p) /\ BeforeInv
    BY <1>1, PlaceOf DEF Inside, SoFar
  <1>3. Readable(hdr)
    BY <1>1, <1>2 DEF CreateSoFar, Readable
  <1>4. pc'[p] = "swrite" /\ call' = call /\ phase' = phase
    BY <1>3 DEF ReadForStatus, Inside, TypeOK, ProcsTypeOK
  <1> SUFFICES ASSUME before' = before, failed' = failed PROVE SoFar(p)'
    BY <1>4 DEF Goes
  <1>5. BeforeInv' /\ (Fresh' <=> Fresh)
    BY <1>1, <1>2, BeforeStays DEF Inside, Fresh
  <1>6. CreateSoFar(p)'
    BY <1>1, <1>2, <1>4, <1>5, StoreStays DEF CreateSoFar, RemovalSoFar, SameStore
  <1> QED BY <1>2, <1>4, <1>5, <1>6 DEF SoFar, Op

LEMMA GoesReadForChange ==
  ASSUME NEW p \in Procs, Inside(p), ReadForChange(p)
  PROVE  Goes(p)
PROOF
  <1>1. SameStore /\ pc[p] = "change" /\ faults' = faults
    BY DEF ReadForChange, SameStore, disk, kernel, budget
  <1>2. Op(p) = "change" /\ phase[p] = "forward" /\ Is(before) /\ Fresh /\ BeforeInv
    BY <1>1, PlaceOf DEF Inside, SoFar, ChangeSoFar
  <1>3. Now' = before /\ hdr.stat = before.stat /\ hdr.pass = before.pass
    BY <1>1, <1>2, IsNow, StoreStays DEF Is, HeaderIs, BeforeInv
  <1>4. CASE /\ \/ {call[p].pw, call[p].new} \cap ShortPasswords # {}
                \/ ~Readable(hdr) \/ hdr.pass # call[p].pw
             /\ Finish(p, "err")
    <2>1. ~(/\ {call[p].pw, call[p].new} \cap ShortPasswords = {}
            /\ Store!HasHeader(before) /\ before.pass = call[p].pw)
      BY <1>3, <1>4 DEF Readable, Store!HasHeader
    <2>2. End(Now', "err", "clean") \in Store!Change(before, call[p].pw, call[p].new)
      BY <1>3, <2>1, ChangeEnds
    <2> QED BY <1>1, <1>2, <1>4, <2>2, ReturnsClean, AllowedBy
  <1>5. CASE /\ {call[p].pw, call[p].new} \cap ShortPasswords = {}
             /\ Readable(hdr) /\ hdr.pass = call[p].pw
             /\ pc' = [pc EXCEPT ![p] = "pwrite"] /\ UNCHANGED <<call, phase>>
    <2>1. pc'[p] = "pwrite"
      BY <1>5 DEF Inside, TypeOK, ProcsTypeOK
    <2> SUFFICES ASSUME before' = before, failed' = failed PROVE SoFar(p)'
      BY <2>1 DEF Goes
    <2>2. BeforeInv' /\ Fresh' /\ Is(before)'
      BY <1>1, <1>2, BeforeStays, StoreStays DEF Inside, Fresh
    <2>3. ChangeSoFar(p)'
      BY <1>3, <1>5, <2>1, <2>2 DEF ChangeSoFar, Store!HasHeader, Readable
    <2> QED BY <1>2, <1>5, <2>1, <2>2, <2>3 DEF SoFar, Op
  <1> QED BY <1>4, <1>5 DEF ReadForChange

LEMMA GoesWriteBack ==
  ASSUME NEW p \in Procs, Inside(p), WriteBack(p)
  PROVE  Goes(p)
PROOF
  <1>1. pc[p] \in {"swrite", "pwrite"} /\ UNCHANGED <<plain, privDir, enc, recDir, mtab>>
    BY DEF WriteBack, kernel
  <1>2. CopyInv(p) /\ Readable(hdr) /\ before \in Store!Storage /\ BeforeInv
    BY <1>1 DEF Inside, SoloInv, Mine, CopyInv, SoFar, BeforeInv
  <1>3. CASE WriteFails(p)
    <2>1. SameStore
      BY <1>1, <1>2, <1>3 DEF SameStore, WriteFails, Readable
    <2> QED BY <1>1, <1>3, <2>1, FaultHere DEF WriteFails
  <1>4. CASE ~WriteFails(p)
    <2>1. hdr' = hcopy[p] /\ Finish(p, "ok") /\ UNCHANGED faults
      BY <1>4 DEF WriteBack
    <2>2. CASE pc[p] = "swrite"
      <3>1. Op(p) = "create" /\ phase[p] = "forward" /\ CreateSoFar(p) /\ Fresh /\ mtab = <<>>
        BY <2>2, PlaceOf DEF Inside, SoFar, CreateSoFar, SoloInv, Mine, MountInv
      <3>2. /\ plain = {} /\ Ciphertext = before.clear /\ privDir /\ recDir = before.rec
            /\ hdr.pass = call[p].pw /\ call[p].pw \notin ShortPasswords /\ ~before.priv
            /\ before.at = "none"
        BY <1>2, <2>2, <3>1 DEF CreateSoFar, BeforeInv
      <3>3. hdr'.stat = "completed" /\ hdr'.pass = hdr.pass
        BY <1>2, <2>1, <2>2 DEF CopyInv, Inside, TypeOK, DiskTypeOK, Header
      <3> PICK x : x = Store!Created(before, call[p].pw)
        OBVIOUS
      <3>4. /\ x.clear = {} /\ x.cipher = before.clear /\ x.priv = TRUE /\ x.stat = "completed"
            /\ x.pass = call[p].pw /\ x.at = before.at /\ x.rec = before.rec
        BY <1>2 DEF Store!Created, Store!Storage
      <3>5. x \in Store!Storage
        <4>1. call[p].pw \in Passwords \cup {NoPassword}
          BY DEF Inside, TypeOK, ProcsTypeOK, CallArgs, NoCall
        <4> QED BY <1>2, <4>1 DEF Store!Created, Store!Storage
      <3>6. Is(x)'
        <4>1. Ciphertext' = Ciphertext /\ At' = "none"
          BY <1>1, <3>1 DEF Ciphertext, At
        <4> QED BY <1>1, <3>2, <3>3, <3>4, <4>1 DEF Is, HeaderIs
      <3>7. Now' = x
        BY <3>5, <3>6, IsNext
      <3>8. End(Now', "ok", "clean") \in Store!Create(before, call[p].pw)
        BY <3>2, <3>7, CreateEnds
      <3> QED BY <2>1, <3>1, <3>8, ReturnsClean, AllowedBy
    <2>3. CASE pc[p] = "pwrite"
      <3>1. Op(p) = "change" /\ ChangeSoFar(p) /\ Is(before) /\ Fresh
        BY <2>3, PlaceOf DEF Inside, SoFar, ChangeSoFar
      <3>2. call[p].new \in Passwords \cup {NoPassword}
        BY DEF Inside, TypeOK, ProcsTypeOK, CallArgs, NoCall
      <3>3. hdr'.stat = hdr.stat /\ hdr'.pass = call[p].new
        BY <1>2, <2>1, <2>3 DEF CopyInv, Inside, TypeOK, DiskTypeOK, Header
      <3> PICK x : x = [before EXCEPT !.pass = call[p].new]
        OBVIOUS
      <3>4. /\ x.clear = before.clear /\ x.cipher = before.cipher /\ x.priv = before.priv
            /\ x.stat = before.stat /\ x.pass = call[p].new /\ x.at = before.at
            /\ x.rec = before.rec
        BY <1>2 DEF Store!Storage
      <3>5. x \in Store!Storage
        BY <1>2, <3>2 DEF Store!Storage
      <3>6. Is(x)'
        <4>1. Ciphertext' = Ciphertext /\ At' = At
          BY <1>1 DEF Ciphertext, At
        <4> QED BY <1>1, <3>1, <3>3, <3>4, <4>1 DEF Is, HeaderIs
      <3>7. Now' = x
        BY <3>5, <3>6, IsNext
      <3>8. End(Now', "ok", "clean") \in Store!Change(before, call[p].pw, call[p].new)
        BY <2>3, <3>1, <3>7, ChangeEnds DEF ChangeSoFar
      <3> QED BY <2>1, <3>1, <3>8, ReturnsClean, AllowedBy
    <2> QED BY <1>1, <2>2, <2>3
  <1> QED BY <1>3, <1>4

\* What a step that leaves the storage alone leaves of a recovery.
LEMMA ReturningStays ==
  ASSUME SameStore, before' = before
  PROVE  /\ Returning' <=> Returning
         /\ Gathers' = Gathers /\ (Collides' <=> Collides)
         /\ \A p : call' = call => (Opens(p)' <=> Opens(p))
PROOF BY StoreStays DEF Returning, Gathers, Collides, Opens, SameStore, HeaderIs

\* mount_ecryptfs fails because a system call in it has.
LEMMA MountFaults ==
  ASSUME NEW p \in Procs, Inside(p), SameStore, pc[p] \in {"mopen", "mkeys", "mount"},
         NEW kind, Fault(kind), MountFailed(p)
  PROVE  Goes(p)
PROOF
  <1>1. CASE Op(p) # "recover"
    BY <1>1, FaultHere DEF MountFailed
  <1>2. CASE Op(p) = "recover"
    <2>1. phase[p] = "forward" /\ RecoverSoFar(p) /\ BeforeInv
      BY <1>2, MountingPlace DEF Inside, SoFar
    <2>2. Enter(p, "nomount", "rlist")
      BY <1>2 DEF MountFailed
    <2>3. pc'[p] = "rlist" /\ call' = call /\ phase'[p] = "nomount"
      BY <2>2, StepEffect DEF Inside
    <2> SUFFICES ASSUME before' = before, failed' = failed PROVE SoFar(p)'
      BY <2>3 DEF Goes
    <2>4. BeforeInv' /\ ~Fresh'
      BY <2>1, BeforeStays DEF Inside, Fault, Fresh, TypeOK, BudgetTypeOK, BeforeInv
    <2>5. Returning /\ plain = before.clear /\ call[p].pw \notin ShortPasswords
          /\ before.priv /\ before.at = "none" /\ ~before.rec
      BY <2>1 DEF RecoverSoFar
    <2>6. Returning' /\ plain' = before'.clear
      BY <2>5, ReturningStays DEF SameStore
    <2>7. RecoverSoFar(p)'
      BY <2>3, <2>4, <2>5, <2>6 DEF RecoverSoFar
    <2> QED BY <1>2, <2>3, <2>4, <2>7 DEF SoFar, Op
  <1> QED BY <1>1, <1>2

LEMMA GoesMountCheck ==
  ASSUME NEW p \in Procs, Inside(p), MountCheck(p)
  PROVE  Goes(p)
PROOF
  <1>1. SameStore /\ pc[p] = "mcheck"
    BY DEF MountCheck, SameStore, disk, kernel
  <1>2. ~Fault("proc_mount")
    BY DEF OneCaller, Fault, Inside, TypeOK, BudgetTypeOK
  <1>3. /\ phase[p] = "forward" /\ Op(p) \in {"create", "unlock", "recover"} /\ BeforeInv
        /\ before \in Store!Storage
    BY <1>1, MountingPlace DEF Inside, SoFar, BeforeInv
  <1>4. CASE Listed("P") # {} /\ MountDone(p) /\ UNCHANGED faults
    <2>1. Op(p) = "unlock"
      BY <1>1, <1>3, <1>4, MountingPlace, NothingSeen DEF Inside
    <2>2. UnlockSoFar(p) /\ Is(before) /\ Fresh
      BY <2>1 DEF Inside, SoFar, UnlockSoFar
    <2>3. Now' = before /\ before.at # "none"
      BY <1>1, <1>3, <1>4, <2>2, IsNow, StoreStays, ListedSomething DEF Is, Inside
    <2>4. End(Now', "ok", "clean") \in Store!Unlock(before, call[p].pw)
      BY <1>1, <2>2, <2>3, UnlockEnds DEF UnlockSoFar
    <2> QED BY <1>4, <2>1, <2>2, <2>4, ReturnsClean, AllowedBy DEF MountDone
  <1>5. CASE Listed("P") = {} /\ Goto(p, "mopen") /\ UNCHANGED faults
    <2>1. pc'[p] = "mopen" /\ call' = call /\ phase'[p] = phase[p]
      BY <1>5, StepEffect DEF Inside
    <2> SUFFICES ASSUME before' = before, failed' = failed PROVE SoFar(p)'
      BY <2>1 DEF Goes
    <2>2. BeforeInv' /\ (Fresh' <=> Fresh)
      BY <1>3, <1>5, BeforeStays DEF Inside, Fresh
    <2>3. Op(p) = "create" => CreateSoFar(p)'
      BY <1>1, <1>3, <2>1, <2>2, StoreStays DEF Inside, SoFar, CreateSoFar, RemovalSoFar, SameStore
    <2>4. Op(p) = "unlock" => UnlockSoFar(p)'
      BY <1>1, <2>1, <2>2, StoreStays DEF Inside, SoFar, UnlockSoFar
    <2>5. Op(p) = "recover" => RecoverSoFar(p)'
      BY <1>1, <1>3, <2>1, <2>2, ReturningStays DEF Inside, SoFar, RecoverSoFar, SameStore
    <2> QED BY <1>3, <2>1, <2>2, <2>3, <2>4, <2>5 DEF SoFar, Op
  <1> QED BY <1>2, <1>4, <1>5 DEF MountCheck

LEMMA GoesMountOpen ==
  ASSUME NEW p \in Procs, Inside(p), MountOpen(p)
  PROVE  Goes(p)
PROOF
  <1>1. SameStore /\ pc[p] = "mopen" /\ faults' = faults
    BY DEF MountOpen, SameStore, disk, kernel, budget
  <1>2. /\ phase[p] = "forward" /\ Op(p) \in {"create", "unlock", "recover"} /\ BeforeInv
        /\ before \in Store!Storage /\ mtab = <<>>
    BY <1>1, MountingPlace DEF Inside, SoFar, BeforeInv
  <1>3. CASE Op(p) = "create"
    <2>1. CreateSoFar(p) /\ PointOf[Op(p)] = "P"
      BY <1>3, PointsOf DEF Inside, SoFar
    <2>2. Exists(PointOf[Op(p)]) /\ Readable(hdr) /\ hdr.pass = call[p].pw
      BY <1>1, <2>1 DEF CreateSoFar, Exists, Readable
    <2>3. pc' = [pc EXCEPT ![p] = "mkeys"] /\ UNCHANGED <<call, phase>>
      BY <2>2 DEF MountOpen
    <2>4. pc'[p] = "mkeys"
      BY <2>3 DEF Inside, TypeOK, ProcsTypeOK
    <2> SUFFICES ASSUME before' = before, failed' = failed PROVE SoFar(p)'
      BY <2>4 DEF Goes
    <2>5. BeforeInv' /\ (Fresh' <=> Fresh)
      BY <1>1, <1>2, BeforeStays DEF Inside, Fresh
    <2>6. CreateSoFar(p)'
      BY <1>1, <1>2, <2>1, <2>3, <2>4, <2>5, StoreStays DEF CreateSoFar, RemovalSoFar, SameStore
    <2> QED BY <1>3, <2>3, <2>5, <2>6 DEF SoFar, Op
  <1>4. CASE Op(p) = "unlock"
    <2>1. UnlockSoFar(p) /\ Is(before) /\ Fresh /\ PointOf[Op(p)] = "S"
      BY <1>4, PointsOf DEF Inside, SoFar, UnlockSoFar
    <2>2. Exists(PointOf[Op(p)]) /\ Readable(hdr) /\ hdr.pass = before.pass
      BY <1>1, <2>1 DEF UnlockSoFar, Exists, Readable, Is, HeaderIs
    <2>3. CASE hdr.pass # call[p].pw
      <3>1. Finish(p, "err")
        BY <1>4, <2>3 DEF MountOpen, MountFailed
      <3>2. Now' = before /\ before.at = "none"
        BY <1>1, <1>2, <2>1, IsNow, StoreStays, AtOf DEF Is
      <3>3. End(Now', "err", "clean") \in Store!Unlock(before, call[p].pw)
        BY <1>1, <2>1, <2>2, <2>3, <3>2, UnlockEnds DEF UnlockSoFar
      <3> QED BY <1>1, <1>4, <2>1, <3>1, <3>3, ReturnsClean, AllowedBy
    <2>4. CASE hdr.pass = call[p].pw
      <3>1. pc' = [pc EXCEPT ![p] = "mkeys"] /\ UNCHANGED <<call, phase>>
        BY <2>2, <2>4 DEF MountOpen
      <3>2. pc'[p] = "mkeys"
        BY <3>1 DEF Inside, TypeOK, ProcsTypeOK
      <3> SUFFICES ASSUME before' = before, failed' = failed PROVE SoFar(p)'
        BY <3>2 DEF Goes
      <3>3. BeforeInv' /\ Fresh' /\ Is(before)'
        BY <1>1, <1>2, <2>1, BeforeStays, StoreStays DEF Inside, Fresh
      <3>4. UnlockSoFar(p)'
        BY <1>1, <2>1, <2>2, <2>4, <3>1, <3>2, <3>3 DEF UnlockSoFar
      <3> QED BY <1>4, <3>1, <3>3, <3>4 DEF SoFar, Op
    <2> QED BY <2>3, <2>4
  <1>5. CASE Op(p) = "recover"
    <2>1. RecoverSoFar(p) /\ PointOf[Op(p)] = "R"
      BY <1>5, PointsOf DEF Inside, SoFar
    <2>2. /\ Returning /\ plain = before.clear /\ call[p].pw \notin ShortPasswords
          /\ before.priv /\ before.at = "none" /\ ~before.rec /\ Fresh
      BY <1>1, <1>2, <2>1 DEF RecoverSoFar
    <2>3. Exists(PointOf[Op(p)]) /\ hdr.stat = before.stat /\ hdr.pass = before.pass
      BY <2>1, <2>2 DEF Exists, Returning, HeaderIs
    <2>4. CASE Readable(hdr) /\ hdr.pass = call[p].pw
      <3>1. pc' = [pc EXCEPT ![p] = "mkeys"] /\ UNCHANGED <<call, phase>>
        BY <2>3, <2>4 DEF MountOpen
      <3>2. pc'[p] = "mkeys" /\ Opens(p)
        BY <2>3, <2>4, <3>1 DEF Inside, TypeOK, ProcsTypeOK, Opens, OpenedBy, Store!HasHeader,
           Readable
      <3> SUFFICES ASSUME before' = before, failed' = failed PROVE SoFar(p)'
        BY <3>2 DEF Goes
      <3>3. BeforeInv' /\ Fresh'
        BY <1>1, <1>2, <2>2, BeforeStays DEF Inside, Fresh
      <3>4. Returning' /\ plain' = before'.clear /\ Opens(p)'
        BY <1>1, <2>2, <3>1, <3>2, ReturningStays DEF SameStore
      <3>5. RecoverSoFar(p)'
        BY <1>2, <2>2, <3>1, <3>2, <3>3, <3>4 DEF RecoverSoFar
      <3> QED BY <1>5, <3>1, <3>3, <3>5 DEF SoFar, Op
    <2>5. CASE ~(Readable(hdr) /\ hdr.pass = call[p].pw)
      <3>1. Enter(p, "nomount", "rlist")
        BY <1>5, <2>5 DEF MountOpen, MountFailed
      <3>2. pc'[p] = "rlist" /\ call' = call /\ phase'[p] = "nomount" /\ ~Opens(p)
        BY <2>3, <2>5, <3>1, StepEffect DEF Inside, Opens, OpenedBy, Store!HasHeader, Readable
      <3> SUFFICES ASSUME before' = before, failed' = failed PROVE SoFar(p)'
        BY <3>2 DEF Goes
      <3>3. BeforeInv' /\ Fresh'
        BY <1>1, <1>2, <2>2, BeforeStays DEF Inside, Fresh
      <3>4. Returning' /\ plain' = before'.clear /\ ~Opens(p)'
        BY <1>1, <2>2, <3>2, ReturningStays DEF SameStore
      <3>5. RecoverSoFar(p)'
        BY <2>2, <3>2, <3>3, <3>4 DEF RecoverSoFar
      <3> QED BY <1>5, <3>2, <3>3, <3>5 DEF SoFar, Op
    <2> QED BY <2>4, <2>5
  <1> QED BY <1>2, <1>3, <1>4, <1>5

LEMMA GoesMountKeys ==
  ASSUME NEW p \in Procs, Inside(p), MountKeys(p)
  PROVE  Goes(p)
PROOF
  <1>1. SameStore /\ pc[p] = "mkeys"
    BY DEF MountKeys, SameStore, disk
  <1>2. /\ phase[p] = "forward" /\ Op(p) \in {"create", "unlock", "recover"} /\ BeforeInv
    BY <1>1, MountingPlace DEF Inside, SoFar
  <1>3. CASE Fault("keyring") /\ MountFailed(p)
    BY <1>1, <1>3, MountFaults
  <1>4. CASE Goto(p, "mount") /\ UNCHANGED faults
    <2>1. pc'[p] = "mount" /\ call' = call /\ phase'[p] = phase[p]
      BY <1>4, StepEffect DEF Inside
    <2> SUFFICES ASSUME before' = before, failed' = failed PROVE SoFar(p)'
      BY <2>1 DEF Goes
    <2>2. BeforeInv' /\ (Fresh' <=> Fresh)
      BY <1>2, <1>4, BeforeStays DEF Inside, Fresh
    <2>3. Op(p) = "create" => CreateSoFar(p)'
      BY <1>1, <1>2, <2>1, <2>2, StoreStays DEF Inside, SoFar, CreateSoFar, RemovalSoFar, SameStore
    <2>4. Op(p) = "unlock" => UnlockSoFar(p)'
      BY <1>1, <2>1, <2>2, StoreStays DEF Inside, SoFar, UnlockSoFar
    <2>5. Op(p) = "recover" => RecoverSoFar(p)'
      BY <1>1, <1>2, <2>1, <2>2, ReturningStays DEF Inside, SoFar, RecoverSoFar, SameStore
    <2> QED BY <1>2, <2>1, <2>2, <2>3, <2>4, <2>5 DEF SoFar, Op
  <1> QED BY <1>3, <1>4 DEF MountKeys

LEMMA GoesMountFs ==
  ASSUME NEW p \in Procs, Inside(p), MountFs(p)
  PROVE  Goes(p)
PROOF
  <1> DEFINE pt == PointOf[Op(p)]
             line == [at |-> pt, key |-> hcopy[p].key, live |-> TRUE]
             possible == /\ Exists(pt) /\ privDir /\ ~Mounted("P")
                         /\ Tokens(hcopy[p].key) \subseteq keyring
  <1>1. pc[p] = "mount" /\ UNCHANGED <<plain, privDir, enc, hdr, recDir>>
    BY DEF MountFs, disk
  <1>2. /\ phase[p] = "forward" /\ Op(p) \in {"create", "unlock", "recover"} /\ BeforeInv
        /\ before \in Store!Storage /\ mtab = <<>>
    BY <1>1, MountingPlace DEF Inside, SoFar, BeforeInv
  <1>3. ~Fault("chown")
    BY DEF OneCaller, Fault, Inside, TypeOK, BudgetTypeOK
  <1>4. Tokens(hcopy[p].key) \subseteq keyring /\ ~Mounted("P")
    BY <1>1, <1>2, NothingSeen DEF Inside, TokensInv, SoloInv, Mine, CopyInv
  <1>5. CASE Fault("mount") /\ MountFailed(p) /\ UNCHANGED mtab
    <2>1. SameStore
      BY <1>1, <1>5 DEF SameStore
    <2> QED BY <1>1, <1>5, <2>1, MountFaults
  <1>6. ASSUME possible, mtab' = Append(mtab, line), MountDone(p), UNCHANGED faults
        PROVE  Goes(p)
    <2>1. /\ Ciphertext' = Ciphertext
          /\ HeaderIs(before)' = (hdr.stat = before'.stat /\ hdr.pass = before'.pass)
      BY <1>1 DEF Ciphertext, HeaderIs
    <2>2. CASE Op(p) = "unlock"
      <3>1. UnlockSoFar(p) /\ Is(before) /\ Fresh /\ pt = "S" /\ Finish(p, "ok")
        BY <1>6, <2>2, PointsOf DEF Inside, SoFar, UnlockSoFar, MountDone
      <3>2. mtab' = <<line>>
        BY <1>2, <1>6
      <3>3. At' = "S"
        BY <3>1, <3>2 DEF At
      <3>4. before.at = "none" /\ before.priv
        BY <1>2, <1>6, <3>1, AtOf DEF Is
      <3> PICK x : x = [before EXCEPT !.at = "S"]
        OBVIOUS
      <3>5. /\ x.clear = before.clear /\ x.cipher = before.cipher /\ x.priv = before.priv
            /\ x.stat = before.stat /\ x.pass = before.pass /\ x.at = "S" /\ x.rec = before.rec
            /\ x \in Store!Storage
        BY <1>2 DEF Store!Storage
      <3>6. Is(x)'
        BY <1>1, <2>1, <3>1, <3>3, <3>5 DEF Is, HeaderIs
      <3>7. Now' = x
        BY <3>5, <3>6, IsNext
      <3>8. End(Now', "ok", "clean") \in Store!Unlock(before, call[p].pw)
        BY <1>1, <3>1, <3>4, <3>7, UnlockEnds DEF UnlockSoFar
      <3> QED BY <1>6, <2>2, <3>1, <3>8, ReturnsClean, AllowedBy
    <2>3. CASE Op(p) \in {"create", "recover"}
      <3>1. Goto(p, "list")
        BY <1>6, <2>3 DEF MountDone
      <3>2. pc'[p] = "list" /\ call' = call /\ phase'[p] = phase[p]
        BY <3>1, StepEffect DEF Inside
      <3> SUFFICES ASSUME before' = before, failed' = failed PROVE SoFar(p)'
        BY <3>2 DEF Goes
      <3>3. BeforeInv' /\ (Fresh' <=> Fresh)
        BY <1>2, <1>6, BeforeStays DEF Inside, Fresh
      <3>4. Op(p) = "create" => CreateSoFar(p)'
        BY <1>1, <1>2, <2>1, <3>2, <3>3 DEF Inside, SoFar, CreateSoFar, RemovalSoFar
      <3>5. Op(p) = "recover" => RecoverSoFar(p)'
        <4>1. /\ Returning' <=> Returning
              /\ Opens(p)' <=> Opens(p)
          BY <1>1, <2>1, <3>2 DEF Returning, Opens, HeaderIs, Gathers
        <4> QED BY <1>1, <1>2, <3>2, <3>3, <4>1 DEF Inside, SoFar, RecoverSoFar
      <3> QED BY <2>3, <3>2, <3>3, <3>4, <3>5 DEF SoFar, Op
    <2> QED BY <1>2, <2>2, <2>3
  <1>7. CASE ~possible /\ MountFailed(p) /\ UNCHANGED <<mtab, faults>>
    <2>1. SameStore
      BY <1>1, <1>7 DEF SameStore
    <2>2. CASE Op(p) = "create"
      <3>1. privDir /\ pt = "P"
        BY <1>1, <2>2, PointsOf DEF Inside, SoFar, CreateSoFar
      <3> QED BY <1>4, <1>7, <3>1 DEF Exists
    <2>3. CASE Op(p) = "recover"
      <3>1. privDir /\ recDir /\ pt = "R"
        BY <1>1, <1>2, <2>3, PointsOf DEF Inside, SoFar, RecoverSoFar, Returning
      <3> QED BY <1>4, <1>7, <3>1 DEF Exists
    <2>4. CASE Op(p) = "unlock"
      <3>1. UnlockSoFar(p) /\ Is(before) /\ Fresh /\ pt = "S" /\ Finish(p, "err")
        BY <1>7, <2>4, PointsOf DEF Inside, SoFar, UnlockSoFar, MountFailed
      <3>2. ~before.priv /\ before.at = "none"
        BY <1>2, <1>4, <1>7, <3>1, AtOf DEF Is, Exists
      <3>3. Now' = before
        BY <1>2, <2>1, <3>1, IsNow, StoreStays
      <3>4. End(Now', "err", "clean") \in Store!Unlock(before, call[p].pw)
        BY <1>1, <3>1, <3>2, <3>3, UnlockEnds DEF UnlockSoFar
      <3> QED BY <1>7, <2>4, <3>1, <3>4, ReturnsClean, AllowedBy
    <2> QED BY <1>2, <2>2, <2>3, <2>4
  <1> QED BY <1>3, <1>5, <1>6, <1>7 DEF MountFs

\* umount_ecryptfs fails because a system call in it has.
LEMMA UmountFaults ==
  ASSUME NEW p \in Procs, Inside(p), SameStore, pc[p] \in {"ucheck", "umount", "ukeys"},
         NEW kind, Fault(kind), UmountDone(p, FALSE)
  PROVE  Goes(p)
PROOF
  <1>1. CASE phase[p] # "nocopy"
    BY <1>1, FaultHere DEF UmountDone
  <1>2. CASE phase[p] = "nocopy"
    <2>1. Op(p) \in {"create", "recover"} /\ BeforeInv
      BY <1>2, UnmountingPlace DEF Inside, SoFar, Through, SoloInv, Mine, PlaceInv
    <2>2. Enter(p, "nocopy", "rlist")
      BY <1>2 DEF UmountDone
    <2>3. pc'[p] = "rlist" /\ call' = call /\ phase'[p] = "nocopy"
      BY <2>2, StepEffect DEF Inside
    <2> SUFFICES ASSUME before' = before, failed' = failed PROVE SoFar(p)'
      BY <2>3 DEF Goes
    <2>4. BeforeInv' /\ ~Fresh'
      BY <2>1, BeforeStays DEF Inside, Fault, Fresh, TypeOK, BudgetTypeOK, BeforeInv
    <2>5. Op(p) = "create" => CreateSoFar(p)'
      BY <1>2, <2>3, <2>4, StoreStays DEF Inside, SoFar, CreateSoFar, RemovalSoFar, SameStore
    <2>6. Op(p) = "recover" => RecoverSoFar(p)'
      BY <1>2, <2>3, <2>4, ReturningStays DEF Inside, SoFar, RecoverSoFar, RemovalSoFar
    <2> QED BY <2>1, <2>3, <2>4, <2>5, <2>6 DEF SoFar, Op
  <1> QED BY <1>1, <1>2

LEMMA GoesUmountCheck ==
  ASSUME NEW p \in Procs, Inside(p), UmountCheck(p)
  PROVE  Goes(p)
PROOF
  <1> DEFINE pt == PointOf[Op(p)]
  <1>1. SameStore /\ pc[p] = "ucheck"
    BY DEF UmountCheck, SameStore, disk, kernel
  <1>2. /\ (Op(p) = "lock" /\ phase[p] = "forward") \/ Through(p)
        /\ phase[p] \in {"forward", "nocopy"} /\ BeforeInv /\ before \in Store!Storage
    BY <1>1, UnmountingPlace DEF Inside, SoFar, BeforeInv
  <1>3. CASE Fault("proc_umount") /\ UmountDone(p, FALSE)
    BY <1>1, <1>3, UmountFaults
  <1>4. CASE Listed(pt) = {} /\ UmountDone(p, TRUE) /\ UNCHANGED faults
    <2>1. ~Through(p)
      BY <1>1, <1>4, UnmountingPlace, MountSeen DEF Inside
    <2>2. Op(p) = "lock" /\ phase[p] = "forward" /\ pt = "S" /\ Finish(p, "ok")
      BY <1>2, <1>4, <2>1, PointsOf DEF UmountDone
    <2>3. Is(before) /\ Fresh
      BY <1>1, <2>2 DEF Inside, SoFar, LockSoFar
    <2>4. At # "S"
      <3> SUFFICES ASSUME At = "S" PROVE FALSE
        OBVIOUS
      <3>1. mtab # <<>>
        BY AtOf
      <3>2. PICK q \in Points : OneMount(q)
        BY <3>1 DEF Inside, SoloInv, ViewInv
      <3>3. q = "S"
        BY <3>2, AtOf
      <3> QED BY <1>4, <2>2, <3>2, <3>3, MountSeen
    <2>5. Store!Locked(before) = before
      BY <1>2, <2>3, <2>4 DEF Is, Store!Locked, Store!Storage
    <2>6. Now' = before
      BY <1>1, <1>2, <2>3, IsNow, StoreStays
    <2>7. End(Now', "ok", "clean") \in Store!Lock(before)
      BY <2>5, <2>6, LockEnds
    <2> QED BY <1>4, <2>2, <2>3, <2>7, ReturnsClean, AllowedBy
  <1>5. CASE /\ pc' = [pc EXCEPT ![p] = "umount"]
             /\ UNCHANGED <<call, phase, work, bad, ret, faults>>
    <2>1. pc'[p] = "umount"
      BY <1>5 DEF Inside, TypeOK, ProcsTypeOK
    <2> SUFFICES ASSUME before' = before, failed' = failed PROVE SoFar(p)'
      BY <2>1 DEF Goes
    <2>2. BeforeInv' /\ (Fresh' <=> Fresh)
      BY <1>2, <1>5, BeforeStays DEF Inside, Fresh
    <2>3. Op(p) = "create" => CreateSoFar(p)'
      BY <1>1, <1>5, <2>1, <2>2, StoreStays DEF Inside, SoFar, CreateSoFar, RemovalSoFar, SameStore
    <2>4. Op(p) = "lock" => LockSoFar(p)'
      BY <1>1, <2>1, <2>2, StoreStays DEF Inside, SoFar, LockSoFar
    <2>5. Op(p) = "recover" => RecoverSoFar(p)'
      BY <1>1, <1>2, <1>5, <2>1, <2>2, ReturningStays DEF Inside, SoFar, RecoverSoFar,
         RemovalSoFar, SameStore
    <2> QED BY <1>2, <1>5, <2>2, <2>3, <2>4, <2>5 DEF SoFar, Op, Through
  <1> QED BY <1>3, <1>4, <1>5 DEF UmountCheck

LEMMA GoesUmount ==
  ASSUME NEW p \in Procs, Inside(p), Umount(p)
  PROVE  Goes(p)
PROOF
  <1>1. pc[p] = "umount" /\ UNCHANGED <<plain, privDir, enc, hdr, recDir>>
    BY DEF Umount, disk
  <1>2. /\ (Op(p) = "lock" /\ phase[p] = "forward") \/ Through(p)
        /\ phase[p] \in {"forward", "nocopy"} /\ BeforeInv /\ before \in Store!Storage
    BY <1>1, UnmountingPlace DEF Inside, SoFar, BeforeInv
  <1>3. CASE Fault("umount") /\ UmountDone(p, FALSE) /\ UNCHANGED mtab
    <2>1. SameStore
      BY <1>1, <1>3 DEF SameStore
    <2> QED BY <1>1, <1>3, <2>1, UmountFaults
  <1>4. CASE Goto(p, "ukeys") /\ UNCHANGED faults
    <2>1. pc'[p] = "ukeys" /\ call' = call /\ phase'[p] = phase[p]
      BY <1>4, StepEffect DEF Inside
    <2>2. mtab' = <<>> /\ OneMount(PointOf[Op(p)])
      BY <1>1, <2>1, TokensUmount DEF Inside, TokensInv
    <2> SUFFICES ASSUME before' = before, failed' = failed PROVE SoFar(p)'
      BY <2>1 DEF Goes
    <2>3. BeforeInv' /\ (Fresh' <=> Fresh) /\ Ciphertext' = Ciphertext
      BY <1>1, <1>2, <1>4, BeforeStays DEF Inside, Fresh, Ciphertext
    <2>4. Op(p) = "create" => CreateSoFar(p)'
      BY <1>1, <1>2, <2>1, <2>3 DEF Inside, SoFar, CreateSoFar, RemovalSoFar
    <2>5. ASSUME Op(p) = "lock" PROVE LockSoFar(p)'
      <3>1. Is(before) /\ Fresh
        BY <1>1, <2>5 DEF Inside, SoFar, LockSoFar
      <3>2. At = "S"
        BY <2>2, <2>5, AtOf, PointsOf
      <3> PICK x : x = Store!Locked(before)
        OBVIOUS
      <3>3. /\ x.clear = before.clear /\ x.cipher = before.cipher /\ x.priv = before.priv
            /\ x.stat = before.stat /\ x.pass = before.pass /\ x.at = "none"
            /\ x.rec = before.rec
        BY <1>2, <3>1, <3>2 DEF Is, Store!Locked, Store!Storage
      <3>4. At' = "none"
        BY <2>2 DEF At
      <3>5. Is(x)'
        BY <1>1, <2>3, <3>1, <3>3, <3>4 DEF Is, HeaderIs
      <3>6. x = Store!Locked(before')
        OBVIOUS
      <3>7. Is(Store!Locked(before))'
        BY <3>5, <3>6 DEF Is, HeaderIs
      <3> QED BY <2>1, <2>3, <3>1, <3>7 DEF LockSoFar
    <2>6. Op(p) = "recover" => RecoverSoFar(p)'
      <3>1. /\ Returning' <=> Returning
            /\ Opens(p)' <=> Opens(p)
            /\ Gathers' = Gathers /\ (Collides' <=> Collides)
        BY <1>1, <2>1, <2>3 DEF Returning, Opens, HeaderIs, Gathers, Collides
      <3> QED BY <1>1, <1>2, <2>1, <2>3, <3>1 DEF Inside, SoFar, RecoverSoFar, RemovalSoFar
    <2> QED BY <1>2, <2>1, <2>3, <2>4, <2>5, <2>6 DEF SoFar, Op, Through
  <1> QED BY <1>3, <1>4 DEF Umount

LEMMA GoesUmountKeys ==
  ASSUME NEW p \in Procs, Inside(p), UmountKeys(p)
  PROVE  Goes(p)
PROOF
  <1>1. /\ pc[p] = "ukeys" /\ SameStore /\ mtab = <<>>
        /\ \/ UmountDone(p, TRUE) /\ faults' = faults
           \/ UmountDone(p, FALSE) /\ Fault("token")
    BY TokensUmountKeys DEF Inside, TokensInv, UmountKeys, SameStore, disk
  <1>2. /\ (Op(p) = "lock" /\ phase[p] = "forward") \/ Through(p)
        /\ phase[p] \in {"forward", "nocopy"} /\ BeforeInv /\ before \in Store!Storage
    BY <1>1, UnmountingPlace DEF Inside, SoFar, BeforeInv
  <1>3. CASE UmountDone(p, FALSE) /\ Fault("token")
    BY <1>1, <1>3, UmountFaults
  <1>4. CASE UmountDone(p, TRUE) /\ faults' = faults /\ Op(p) = "lock"
    <2>1. Finish(p, "ok") /\ Is(Store!Locked(before)) /\ Fresh
      BY <1>1, <1>2, <1>4 DEF UmountDone, Inside, SoFar, LockSoFar, Through
    <2>2. Store!Locked(before) \in Store!Storage
      BY <1>2 DEF Store!Locked, Store!Storage
    <2>3. Now' = Store!Locked(before)
      BY <1>1, <2>1, <2>2, IsNow, StoreStays
    <2>4. End(Now', "ok", "clean") \in Store!Lock(before)
      BY <2>3, LockEnds
    <2> QED BY <1>1, <1>4, <2>1, <2>4, ReturnsClean, AllowedBy
  <1>5. CASE UmountDone(p, TRUE) /\ faults' = faults /\ Through(p)
    <2>1. /\ pc'[p] = IF phase[p] = "forward" /\ Op(p) = "recover" THEN "rmdir" ELSE "rlist"
          /\ call' = call /\ phase'[p] = phase[p]
      <3>1. \/ phase[p] = "nocopy" /\ Enter(p, "nocopy", "rlist")
            \/ phase[p] = "forward" /\ Op(p) = "create" /\ Enter(p, "forward", "rlist")
            \/ phase[p] = "forward" /\ Op(p) = "recover" /\ Goto(p, "rmdir")
        BY <1>1, <1>2, <1>5 DEF UmountDone, Through
      <3>2. Goto(p, "rmdir") => pc'[p] = "rmdir" /\ call' = call /\ phase'[p] = phase[p]
        BY DEF Inside, Goto, TypeOK, ProcsTypeOK
      <3>3. ASSUME NEW f, Enter(p, f, "rlist")
            PROVE  pc'[p] = "rlist" /\ call' = call /\ phase'[p] = f
        BY <3>3 DEF Inside, Enter, TypeOK, ProcsTypeOK
      <3>4. CASE phase[p] = "nocopy"
        BY <3>1, <3>2, <3>3, <3>4
      <3>5. CASE phase[p] = "forward"
        BY <1>5, <3>1, <3>2, <3>3, <3>5 DEF Through
      <3> QED BY <1>2, <3>4, <3>5
    <2>2. pc'[p] # "idle"
      BY <2>1
    <2> SUFFICES ASSUME before' = before, failed' = failed PROVE SoFar(p)'
      BY <2>2 DEF Goes
    <2>3. BeforeInv' /\ (Fresh' <=> Fresh) /\ mtab' = <<>>
      BY <1>1, <1>2, <1>5, BeforeStays DEF Inside, Fresh, SameStore
    <2>4. ASSUME Op(p) = "create" PROVE CreateSoFar(p)'
      BY <1>1, <1>2, <1>5, <2>1, <2>3, <2>4, StoreStays DEF Inside, SoFar, CreateSoFar, RemovalSoFar,
         SameStore
    <2>5. ASSUME Op(p) = "recover" PROVE RecoverSoFar(p)'
      BY <1>1, <1>2, <1>5, <2>1, <2>3, <2>5, ReturningStays DEF Inside, SoFar, RecoverSoFar,
         RemovalSoFar, SameStore
    <2> QED BY <1>5, <2>1, <2>3, <2>4, <2>5 DEF SoFar, Op, Through
  <1> QED BY <1>1, <1>2, <1>3, <1>4, <1>5

\* A copy that fails because a system call has, or because a directory is there
\* already.
LEMMA CopyFails ==
  ASSUME NEW p \in Procs, Inside(p), SameStore, pc[p] \in {"list", "copy"}, CopyFailed(p),
         (\E kind : Fault(kind)) \/ (Op(p) = "recover" /\ Collides /\ faults' = faults)
  PROVE  Goes(p)
PROOF
  <1>1. phase[p] = "forward" /\ Through(p) /\ BeforeInv
    BY CopyingPlace DEF Inside, SoFar
  <1>2. pc'[p] = "ucheck" /\ call' = call /\ phase'[p] = "nocopy"
    BY StepEffect DEF CopyFailed, Inside
  <1> SUFFICES ASSUME before' = before, failed' = failed PROVE SoFar(p)'
    BY <1>2 DEF Goes
  <1>3. faults' = faults \/ faults' = faults + 1
    BY DEF Fault
  <1>4. BeforeInv' /\ (Fresh' => Op(p) = "recover" /\ Collides)
    BY <1>1, <1>3, BeforeStays DEF Inside, Fault, Fresh, TypeOK, BudgetTypeOK, BeforeInv
  <1>5. ASSUME Op(p) = "create" PROVE CreateSoFar(p)'
    BY <1>1, <1>2, <1>4, <1>5, StoreStays DEF Inside, SoFar, CreateSoFar, RemovalSoFar, SameStore
  <1>6. ASSUME Op(p) = "recover" PROVE RecoverSoFar(p)'
    BY <1>1, <1>2, <1>4, <1>6, ReturningStays DEF Inside, SoFar, RecoverSoFar, RemovalSoFar
  <1> QED BY <1>1, <1>2, <1>4, <1>5, <1>6 DEF SoFar, Op, Through

LEMMA GoesListForCopy ==
  ASSUME NEW p \in Procs, Inside(p), ListForCopy(p)
  PROVE  Goes(p)
PROOF
  <1>1. SameStore /\ pc[p] = "list"
    BY DEF ListForCopy, SameStore, disk, kernel
  <1>2. phase[p] = "forward" /\ Through(p) /\ BeforeInv
    BY <1>1, CopyingPlace DEF Inside, SoFar
  <1>3. /\ CanOpen(SourceOf(p))
        /\ Op(p) = "create" => Visible(SourceOf(p)) = plain
        /\ Op(p) = "recover" => Visible(SourceOf(p)) = Ciphertext
    <2>1. CASE Op(p) = "create"
      BY <1>1, <2>1, CopyingPlace, MountSeen DEF Inside, CanOpen, Exists, Visible
    <2>2. CASE Op(p) = "recover"
      BY <1>1, <2>2, CopyingPlace, MountSeen DEF Inside, CanOpen, Visible, OneMount
    <2> QED BY <1>2, <2>1, <2>2 DEF Through
  <1>4. CASE Fault("list") /\ CopyFailed(p)
    BY <1>1, <1>4, CopyFails
  <1>5. CASE /\ work' = [work EXCEPT ![p] = Visible(SourceOf(p))]
             /\ pc' = [pc EXCEPT ![p] = "copy"]
             /\ UNCHANGED <<call, phase, bad, faults>>
    <2>1. pc'[p] = "copy" /\ work'[p] = Visible(SourceOf(p))
      BY <1>5 DEF Inside, TypeOK, ProcsTypeOK
    <2> SUFFICES ASSUME before' = before, failed' = failed PROVE SoFar(p)'
      BY <2>1 DEF Goes
    <2>2. BeforeInv' /\ (Fresh' <=> Fresh)
      BY <1>2, <1>5, BeforeStays DEF Inside, Fresh
    <2>3. ASSUME Op(p) = "create" PROVE CreateSoFar(p)'
      <3>1. work'[p] = plain /\ Ciphertext = {}
        BY <1>1, <1>2, <1>3, <2>1, <2>3 DEF Inside, SoFar, CreateSoFar
      <3> QED BY <1>1, <1>2, <1>5, <2>1, <2>2, <2>3, <3>1, StoreStays DEF Inside, SoFar,
                 CreateSoFar, RemovalSoFar, SameStore
    <2>4. ASSUME Op(p) = "recover" PROVE RecoverSoFar(p)'
      <3>1. /\ work'[p] = before.cipher /\ plain = before.clear /\ Returning /\ Fresh /\ Opens(p)
            /\ call[p].pw \notin ShortPasswords /\ before.priv /\ before.at = "none" /\ ~before.rec
        BY <1>1, <1>2, <1>3, <2>1, <2>4 DEF Inside, SoFar, RecoverSoFar, Returning
      <3>2. Returning' /\ plain' = before'.clear /\ Opens(p)'
        BY <1>1, <1>5, <3>1, ReturningStays DEF SameStore
      <3> QED BY <1>2, <1>5, <2>1, <2>2, <3>1, <3>2 DEF RecoverSoFar
    <2> QED BY <1>2, <1>5, <2>2, <2>3, <2>4 DEF SoFar, Op, Through
  <1> QED BY <1>3, <1>4, <1>5 DEF ListForCopy

LEMMA GoesCopyItem ==
  ASSUME NEW p \in Procs, Inside(p), CopyItem(p)
  PROVE  Goes(p)
PROOF
  <1>1. pc[p] = "copy" /\ UNCHANGED <<privDir, hdr, recDir, mtab>>
    BY DEF CopyItem, kernel
  <1>2. phase[p] = "forward" /\ Through(p) /\ BeforeInv /\ before \in Store!Storage
    BY <1>1, CopyingPlace DEF Inside, SoFar, BeforeInv
  <1>3. PICK i \in work[p] :
          LET possible == /\ CanPut(TargetOf(p)) /\ CanRead(SourceOf(p), i)
                          /\ i \in Dirs => i \notin Visible(TargetOf(p))
          IN \/ /\ possible /\ Put(TargetOf(p), i)
                /\ work' = [work EXCEPT ![p] = @ \ {i}]
                /\ UNCHANGED <<pc, call, phase, hcopy, bad, ret, faults>>
             \/ ~possible /\ CopyFailed(p) /\ UNCHANGED <<plain, enc, faults>>
             \/ Fault("copy") /\ CopyFailed(p) /\ UNCHANGED <<plain, enc>>
    BY DEF CopyItem
  <1>4. i \in Items
    BY <1>3 DEF Inside, TypeOK, ProcsTypeOK
  <1>5. CASE Fault("copy") /\ CopyFailed(p) /\ UNCHANGED <<plain, enc>>
    <2>1. SameStore
      BY <1>1, <1>5 DEF SameStore
    <2> QED BY <1>1, <1>5, <2>1, CopyFails
  <1>6. CASE Op(p) = "create" /\ ~(Fault("copy") /\ CopyFailed(p) /\ UNCHANGED <<plain, enc>>)
    <2>1. /\ CreateSoFar(p) /\ SourceOf(p) = "S" /\ TargetOf(p) = "P" /\ OneMount("P")
      BY <1>1, <1>6, CopyingPlace DEF Inside, SoFar
    <2>2. /\ Ciphertext = plain \ work[p] /\ work[p] \subseteq plain /\ hdr.stat = "not_started"
      BY <1>1, <1>2, <2>1 DEF CreateSoFar
    <2>3. Mounted("P") /\ Top("P").live /\ ~Mounted("S")
      BY <2>1, MountSeen DEF OneMount
    <2>4. CanPut(TargetOf(p)) /\ CanRead(SourceOf(p), i) /\ i \notin Visible(TargetOf(p))
      BY <1>3, <2>1, <2>2, <2>3 DEF CanPut, CanRead, Visible
    <2>5. /\ Put(TargetOf(p), i) /\ work' = [work EXCEPT ![p] = @ \ {i}]
          /\ UNCHANGED <<pc, call, phase, hcopy, bad, ret, faults>>
      BY <1>3, <1>6, <2>4
    <2>6. enc' = [enc EXCEPT ![i] = hdr.key] /\ plain' = plain
      BY <1>1, <1>4, <1>6, <2>5, CopyPuts DEF Inside
    <2>7. hdr.key # NoKey
      BY <2>2, KeyAssumption DEF Inside, SoloInv, HeaderInv, Readable, TypeOK, GhostsTypeOK
    <2>8. Ciphertext' = Ciphertext \cup {i}
      BY <1>4, <2>6, <2>7 DEF Ciphertext, Inside, TypeOK, DiskTypeOK
    <2>9. work'[p] = work[p] \ {i} /\ pc'[p] = "copy"
      BY <1>1, <2>5 DEF Inside, TypeOK, ProcsTypeOK
    <2> SUFFICES ASSUME before' = before, failed' = failed PROVE SoFar(p)'
      BY <2>9 DEF Goes
    <2>10. BeforeInv' /\ (Fresh' <=> Fresh)
      BY <1>2, <2>5, BeforeStays DEF Inside, Fresh
    <2>11. Ciphertext' = plain' \ work'[p] /\ work'[p] \subseteq plain'
      BY <1>3, <2>2, <2>6, <2>8, <2>9
    <2>12. Ciphertext' \subseteq before'.clear
      BY <1>1, <1>2, <2>1, <2>6, <2>11 DEF CreateSoFar
    <2>13. CreateSoFar(p)'
      BY <1>1, <1>2, <2>1, <2>5, <2>6, <2>10, <2>11, <2>12 DEF CreateSoFar, RemovalSoFar
    <2> QED BY <1>6, <2>5, <2>10, <2>13 DEF SoFar, Op
  <1>7. CASE Op(p) = "recover" /\ ~(Fault("copy") /\ CopyFailed(p) /\ UNCHANGED <<plain, enc>>)
    <2>1. /\ RecoverSoFar(p) /\ SourceOf(p) = "R" /\ TargetOf(p) = "S" /\ OneMount("R")
      BY <1>1, <1>7, CopyingPlace DEF Inside, SoFar
    <2>2. /\ Returning /\ Fresh /\ Opens(p) /\ before.clear \subseteq plain
          /\ work[p] \subseteq before.cipher /\ before.cipher \subseteq plain \cup work[p]
          /\ plain \cap work[p] \subseteq before.clear
          /\ Dirs \cap before.clear \cap before.cipher \subseteq work[p]
          /\ call[p].pw \notin ShortPasswords /\ before.priv /\ before.at = "none"
          /\ ~before.rec
      BY <1>1, <1>2, <2>1 DEF RecoverSoFar
    <2>3. /\ Mounted("R") /\ Top("R").live /\ Top("R").key = hdr.key /\ ~Mounted("S")
      BY <2>1, MountSeen DEF OneMount
    <2>4. i \in Ciphertext
      BY <1>3, <2>2 DEF Returning
    <2>5. enc[i] = hdr.key
      BY <1>4, <2>4 DEF Inside, SoloInv, OneKey, Ciphertext
    <2>6. CanPut(TargetOf(p)) /\ CanRead(SourceOf(p), i) /\ Visible(TargetOf(p)) = plain
      BY <2>1, <2>3, <2>4, <2>5 DEF CanPut, CanRead, Visible, Exists
    <2>7. CASE i \in Dirs /\ i \in plain
      <3>1. CopyFailed(p) /\ UNCHANGED <<plain, enc, faults>>
        BY <1>3, <1>7, <2>6, <2>7
      <3>2. SameStore
        BY <1>1, <3>1 DEF SameStore
      <3>3. Collides
        BY <1>3, <2>2, <2>7 DEF Collides, Colliding
      <3> QED BY <1>1, <1>7, <3>1, <3>2, <3>3, CopyFails
    <2>8. CASE ~(i \in Dirs /\ i \in plain)
      <3>1. /\ Put(TargetOf(p), i) /\ work' = [work EXCEPT ![p] = @ \ {i}]
            /\ UNCHANGED <<pc, call, phase, hcopy, bad, ret, faults>>
        BY <1>3, <1>7, <2>6, <2>8
      <3>2. enc' = enc /\ plain' = plain \cup {i}
        BY <1>1, <1>4, <1>7, <3>1, CopyPuts DEF Inside
      <3>3. work'[p] = work[p] \ {i} /\ pc'[p] = "copy"
        BY <1>1, <3>1 DEF Inside, TypeOK, ProcsTypeOK
      <3> SUFFICES ASSUME before' = before, failed' = failed PROVE SoFar(p)'
        BY <3>3 DEF Goes
      <3>4. BeforeInv' /\ (Fresh' <=> Fresh)
        BY <1>2, <3>1, BeforeStays DEF Inside, Fresh
      <3>5. Returning' /\ Opens(p)'
        <4>1. i \in Gathers
          BY <1>3, <2>2 DEF Gathers
        <4> QED BY <1>1, <2>2, <3>1, <3>2, <4>1 DEF Returning, Opens, HeaderIs, Ciphertext, Gathers
      <3>6. /\ before'.clear \subseteq plain'
            /\ work'[p] \subseteq before'.cipher /\ before'.cipher \subseteq plain' \cup work'[p]
            /\ plain' \cap work'[p] \subseteq before'.clear
            /\ Dirs \cap before'.clear \cap before'.cipher \subseteq work'[p]
        BY <2>2, <2>8, <3>2, <3>3
      <3>7. RecoverSoFar(p)'
        BY <1>2, <2>2, <3>1, <3>3, <3>4, <3>5, <3>6 DEF RecoverSoFar
      <3> QED BY <1>7, <3>1, <3>4, <3>7 DEF SoFar, Op
    <2> QED BY <2>7, <2>8
  <1> QED BY <1>2, <1>5, <1>6, <1>7 DEF Through

LEMMA GoesCopyEnds ==
  ASSUME NEW p \in Procs, Inside(p), CopyEnds(p)
  PROVE  Goes(p)
PROOF
  <1>1. SameStore /\ pc[p] = "copy" /\ work[p] = {} /\ faults' = faults
    BY DEF CopyEnds, SameStore, disk, kernel, budget
  <1>2. phase[p] = "forward" /\ Through(p) /\ BeforeInv /\ before \in Store!Storage
    BY <1>1, CopyingPlace DEF Inside, SoFar, BeforeInv
  <1>3. pc'[p] = "ucheck" /\ call' = call /\ phase'[p] = "forward"
    BY <1>2, StepEffect DEF CopyEnds, Inside
  <1> SUFFICES ASSUME before' = before, failed' = failed PROVE SoFar(p)'
    BY <1>3 DEF Goes
  <1>4. BeforeInv' /\ (Fresh' <=> Fresh)
    BY <1>1, <1>2, BeforeStays DEF Inside, Fresh
  <1>5. ASSUME Op(p) = "create" PROVE CreateSoFar(p)'
    <2>1. CreateSoFar(p) /\ Ciphertext = before.clear
      BY <1>1, <1>2, <1>5 DEF Inside, SoFar, CreateSoFar
    <2> QED BY <1>1, <1>2, <1>3, <1>4, <2>1, StoreStays DEF CreateSoFar, RemovalSoFar, SameStore
  <1>6. ASSUME Op(p) = "recover" PROVE RecoverSoFar(p)'
    <2>1. /\ Returning /\ Fresh /\ Opens(p) /\ before.clear \subseteq plain
          /\ before.cipher \subseteq plain
          /\ Dirs \cap before.clear \cap before.cipher = {}
          /\ call[p].pw \notin ShortPasswords /\ before.priv /\ before.at = "none"
          /\ ~before.rec
      BY <1>1, <1>2, <1>6 DEF Inside, SoFar, RecoverSoFar
    <2>2. plain = Gathers /\ ~Collides
      BY <2>1 DEF Returning, Gathers, Collides, Colliding
    <2>3. Returning' /\ Opens(p)' /\ plain' = Gathers' /\ ~Collides'
      BY <1>1, <1>3, <2>1, <2>2, ReturningStays DEF SameStore
    <2> QED BY <1>3, <1>4, <2>1, <2>3 DEF RecoverSoFar
  <1> QED BY <1>2, <1>3, <1>4, <1>5, <1>6 DEF SoFar, Op, Through

-----------------------------------------------------------------------------
(* remove_dir_content, and remove(3) of the directory itself.                *)

\* What is left in the storage directory when P goes.
Left(p) == IF Op(p) = "recover" THEN Gathers ELSE before.clear

LEMMA Destroying ==
  ASSUME NEW p \in Procs, Inside(p), phase[p] = "destroy", pc[p] # "rcheck"
  PROVE  DestroySoFar(p, Left(p)) /\ Op(p) \in {"remove", "recover"}
PROOF
  <1>1. Op(p) \in {"remove", "recover"}
    BY DEF Inside, SoloInv, Mine, PlaceInv
  <1>2. CASE Op(p) = "remove"
    BY <1>2 DEF Inside, SoFar, RemoveSoFar, Left
  <1>3. CASE Op(p) = "recover"
    BY <1>3 DEF Inside, SoFar, RecoverSoFar, Left
  <1> QED BY <1>1, <1>2, <1>3

\* A step of the removal of P that leaves it under way.
LEMMA DestroyGoes ==
  ASSUME NEW p \in Procs, Inside(p), phase[p] = "destroy", pc[p] # "rcheck",
         pc'[p] \in {"rdel", "rmdir", "unlink"}, phase'[p] = phase[p], call' = call,
         before' = before, BeforeInv', DestroySoFar(p, Left(p))'
  PROVE  SoFar(p)'
PROOF
  <1>1. Op(p) \in {"remove", "recover"} /\ Op(p)' = Op(p)
    BY Destroying DEF Op
  <1>2. CASE Op(p) = "remove"
    <2>1. DestroySoFar(p, before.clear)'
      BY <1>1, <1>2 DEF Left, DestroySoFar, RemovalSoFar
    <2> QED BY <1>1, <1>2, <2>1 DEF SoFar, RemoveSoFar
  <1>3. CASE Op(p) = "recover"
    <2>1. DestroySoFar(p, Gathers)'
      BY <1>1, <1>3 DEF Left, DestroySoFar, RemovalSoFar
    <2>2. /\ Opens(p) /\ ~Collides /\ ~before.rec /\ call[p].pw \notin ShortPasswords
          /\ before.priv /\ before.at = "none"
      <3>1. pc[p] \notin {"recover", "mkrec"}
        BY PlaceOf DEF Inside
      <3> QED BY <1>3, <3>1 DEF Inside, SoFar, RecoverSoFar
    <2>3. Opens(p)' /\ ~Collides'
      BY <2>2 DEF Opens, Collides
    <2>4. RecoverSoFar(p)'
      BY <2>1, <2>2, <2>3 DEF RecoverSoFar
    <2> QED BY <1>1, <1>3, <2>4 DEF SoFar
  <1> QED BY <1>1, <1>2, <1>3

\* The five removals, and what they find in the directory.
LEMMA RemovalSees ==
  ASSUME NEW p \in Procs, Inside(p), pc[p] \in {"rlist", "rdel"}
  PROVE  /\ BeforeInv /\ before \in Store!Storage
         /\ \/ phase[p] = "forward" /\ Op(p) = "create" /\ ContentOf(p) = "S"
            \/ phase[p] = "nomount" /\ Op(p) = "recover" /\ ContentOf(p) = "R"
            \/ phase[p] = "nocopy" /\ Op(p) = "create" /\ ContentOf(p) = "P"
            \/ phase[p] = "nocopy" /\ Op(p) = "recover" /\ ContentOf(p) = "S"
            \/ phase[p] = "destroy" /\ Op(p) \in {"remove", "recover"} /\ ContentOf(p) = "P"
         /\ CanOpen(ContentOf(p))
         /\ ContentOf(p) = "S" => ~Mounted("S") /\ Visible("S") = plain
         /\ ContentOf(p) = "P" => Visible("P") = Ciphertext
         /\ ContentOf(p) = "R" => Visible("R") = {} /\ mtab = <<>>
PROOF
  <1>1. BeforeInv /\ before \in Store!Storage
    BY DEF Inside, SoFar, BeforeInv
  <1>2. \/ phase[p] = "forward" /\ Op(p) = "create" /\ ContentOf(p) = "S"
        \/ phase[p] = "nomount" /\ Op(p) = "recover" /\ ContentOf(p) = "R"
        \/ phase[p] = "nocopy" /\ Op(p) = "create" /\ ContentOf(p) = "P"
        \/ phase[p] = "nocopy" /\ Op(p) = "recover" /\ ContentOf(p) = "S"
        \/ phase[p] = "destroy" /\ Op(p) \in {"remove", "recover"} /\ ContentOf(p) = "P"
    BY RemovingPlace DEF Inside, Phases, ContentOf, Through
  <1>3. ~Mounted("S")
    BY <1>2, RemovingPlace, NothingSeen, MountSeen, PointsOf DEF Inside
  <1>4. CASE ContentOf(p) = "S"
    BY <1>1, <1>2, <1>3, <1>4 DEF CanOpen, Exists, Visible
  <1>5. CASE ContentOf(p) = "R"
    <2>1. mtab = <<>> /\ recDir
      BY <1>2, <1>5, RemovingPlace DEF Inside, SoFar, RecoverSoFar, Returning
    <2> QED BY <1>1, <1>2, <1>5, <2>1, NothingSeen DEF CanOpen, Exists, Visible
  <1>6. CASE ContentOf(p) = "P"
    <2>1. privDir
      <3>1. CASE Op(p) = "create"
        BY <3>1 DEF Inside, SoFar, CreateSoFar
      <3>2. CASE phase[p] = "destroy"
        BY <3>2, Destroying DEF DestroySoFar
      <3> QED BY <1>2, <1>6, <3>1, <3>2
    <2>2. Visible("P") = Ciphertext
      <3>1. CASE mtab = <<>>
        BY <3>1, NothingSeen DEF Visible
      <3>2. CASE OneMount("P")
        BY <3>2, MountSeen DEF Visible, OneMount
      <3> QED BY <1>2, <1>6, <3>1, <3>2, RemovingPlace, PointsOf DEF Inside
    <2> QED BY <1>1, <1>2, <1>6, <2>1, <2>2 DEF CanOpen, Exists
  <1> QED BY <1>2, <1>4, <1>5, <1>6

\* A directory that keeps an item loses just it.
LEMMA Drops ==
  ASSUME TypeOK, NEW i \in Items
  PROVE  /\ Drop("S", i) /\ ~Mounted("S") => plain' = plain \ {i} /\ Ciphertext' = Ciphertext
         /\ Drop("P", i) => plain' = plain /\ Ciphertext' = Ciphertext \ {i}
PROOF BY DEF Drop, Ciphertext, TypeOK, DiskTypeOK

\* Removals go on.
LEMMA ListStays ==
  ASSUME TypeOK, NEW p \in Procs, ListInv(p), Step(p)
  PROVE  ListInv(p)'
PROOF
  <1>1. /\ \A code : Finish(p, code) => ~bad'[p]
        /\ \A step : Goto(p, step) => bad'[p] = bad[p] /\ pc'[p] = step
        /\ \A f, step : Enter(p, f, step) => ~bad'[p]
    BY DEF Finish, Goto, Enter, TypeOK, ProcsTypeOK
  <1>2. CASE pc[p] # "rdel" /\ bad' = bad
    BY <1>2 DEF ListInv
  <1>3. CASE pc[p] # "rdel" /\ bad' # bad
    <2>1. (\E code : Finish(p, code)) \/ (\E f, step : Enter(p, f, step))
      BY <1>3 DEF Step, CreateChecks, MakePrivateDir, WriteNewHeader, WriteFails, UnlockChecks,
         RecoverChecks, MakeRecoveryDir, RemoveChecks, UnlinkKeyFile, ReadForStatus,
         ReadForChange, WriteBack, MountCheck, MountOpen, MountKeys, MountFs, MountDone,
         MountFailed, UmountCheck, Umount, UmountKeys, UmountDone, ListForCopy, CopyItem,
         CopyEnds, CopyFailed, ListForRemoval, RemoveItem, RemovalEnds, RemoveDone,
         RemoveRoot, RmdirDone, Goto
    <2> QED BY <1>1, <2>1 DEF ListInv
  <1>4. CASE pc[p] = "rdel"
    <2>1. RemoveItem(p) \/ RemovalEnds(p)
      BY <1>4 DEF Step, CreateChecks, MakePrivateDir, WriteNewHeader, UnlockChecks,
         RecoverChecks, MakeRecoveryDir, RemoveChecks, UnlinkKeyFile, ReadForStatus,
         ReadForChange, WriteBack, MountCheck, MountOpen, MountKeys, MountFs,
         UmountCheck, Umount, UmountKeys, ListForCopy, CopyItem,
         CopyEnds, ListForRemoval, RemoveRoot
    <2>2. CASE RemoveItem(p)
      BY <1>4, <2>2 DEF RemoveItem, ListInv
    <2>3. CASE RemovalEnds(p)
      <3>1. RemoveDone(p, ~bad[p])
        BY <2>3 DEF RemovalEnds
      <3>2. CASE \E code : Finish(p, code)
        BY <1>1, <3>2 DEF ListInv
      <3>3. CASE \E f, step : Enter(p, f, step)
        BY <1>1, <3>3 DEF ListInv
      <3>4. CASE ~bad[p] /\ Goto(p, "rmdir")
        BY <1>1, <3>4 DEF ListInv
      <3> QED BY <3>1, <3>2, <3>3, <3>4 DEF RemoveDone
    <2> QED BY <2>1, <2>2, <2>3
  <1> QED BY <1>2, <1>3, <1>4

LEMMA GoesListForRemoval ==
  ASSUME NEW p \in Procs, Inside(p), ListForRemoval(p)
  PROVE  Goes(p)
PROOF
  <1>1. SameStore /\ pc[p] = "rlist" /\ ~bad[p]
    BY DEF ListForRemoval, SameStore, disk, kernel, Inside, ListInv
  <1>2. CASE Fault("list") /\ RemoveDone(p, FALSE)
    BY <1>1, <1>2, FaultHere DEF RemoveDone
  <1>3. CASE ~(Fault("list") /\ RemoveDone(p, FALSE))
    <2>1. /\ work' = [work EXCEPT ![p] = Visible(ContentOf(p))]
          /\ pc' = [pc EXCEPT ![p] = "rdel"]
          /\ UNCHANGED <<call, phase, hcopy, bad, ret, faults>>
      BY <1>1, <1>3, RemovalSees DEF ListForRemoval
    <2>2. pc'[p] = "rdel" /\ work'[p] = Visible(ContentOf(p)) /\ ~bad'[p] /\ phase'[p] = phase[p]
      BY <1>1, <2>1 DEF Inside, TypeOK, ProcsTypeOK
    <2> SUFFICES ASSUME before' = before, failed' = failed PROVE SoFar(p)'
      BY <2>2 DEF Goes
    <2>3. BeforeInv' /\ (Fresh' <=> Fresh) /\ plain' = plain /\ Ciphertext' = Ciphertext
      BY <1>1, <2>1, RemovalSees, BeforeStays, StoreStays DEF Inside, Fresh, SameStore
    <2>4. CASE phase[p] = "forward" /\ Op(p) = "create" /\ ContentOf(p) = "S"
      <3>1. work'[p] = plain' /\ CreateSoFar(p)
        BY <1>1, <2>2, <2>3, <2>4, RemovalSees DEF Inside, SoFar
      <3>2. CreateSoFar(p)'
        BY <1>1, <2>1, <2>2, <2>3, <2>4, <3>1 DEF CreateSoFar, RemovalSoFar, SameStore
      <3> QED BY <2>1, <2>3, <2>4, <3>2 DEF SoFar, Op
    <2>5. CASE phase[p] = "nomount" /\ Op(p) = "recover" /\ ContentOf(p) = "R"
      <3>1. work'[p] = {} /\ RecoverSoFar(p)
        BY <1>1, <2>2, <2>5, RemovalSees DEF Inside, SoFar
      <3>2. Returning' /\ (Opens(p)' <=> Opens(p))
        BY <1>1, <2>1, <2>5, <3>1, ReturningStays DEF RecoverSoFar
      <3>3. RecoverSoFar(p)'
        BY <1>1, <2>1, <2>2, <2>3, <2>5, <3>1, <3>2 DEF RecoverSoFar
      <3> QED BY <2>1, <2>3, <2>5, <3>3 DEF SoFar, Op
    <2>6. CASE phase[p] = "nocopy" /\ Op(p) = "create" /\ ContentOf(p) = "P"
      <3>1. CreateSoFar(p)
        BY <2>6 DEF Inside, SoFar
      <3>2. CreateSoFar(p)'
        BY <1>1, <2>1, <2>2, <2>3, <2>6, <3>1 DEF CreateSoFar, SameStore
      <3> QED BY <2>1, <2>3, <2>6, <3>2 DEF SoFar, Op
    <2>7. CASE phase[p] = "nocopy" /\ Op(p) = "recover" /\ ContentOf(p) = "S"
      <3>1. work'[p] = plain' /\ RecoverSoFar(p)
        BY <1>1, <2>2, <2>3, <2>7, RemovalSees DEF Inside, SoFar
      <3>2. Returning' /\ (Opens(p)' <=> Opens(p)) /\ (Collides' <=> Collides)
        BY <1>1, <2>1, <2>7, <3>1, ReturningStays DEF RecoverSoFar
      <3>3. RecoverSoFar(p)'
        BY <1>1, <2>1, <2>2, <2>3, <2>7, <3>1, <3>2 DEF RecoverSoFar, RemovalSoFar, SameStore
      <3> QED BY <2>1, <2>3, <2>7, <3>3 DEF SoFar, Op
    <2>8. CASE phase[p] = "destroy" /\ ContentOf(p) = "P"
      <3>1. work'[p] = Ciphertext' /\ DestroySoFar(p, Left(p))
        BY <1>1, <2>2, <2>3, <2>8, RemovalSees, Destroying
      <3>2. Left(p)' = Left(p)
        BY <2>1 DEF Left, Gathers, Op
      <3>3. DestroySoFar(p, Left(p))'
        BY <1>1, <2>2, <2>3, <3>1, <3>2 DEF DestroySoFar, RemovalSoFar, SameStore, HeaderIs
      <3> QED BY <1>1, <2>1, <2>2, <2>3, <2>8, <3>3, DestroyGoes
    <2> QED BY <1>1, <2>4, <2>5, <2>6, <2>7, <2>8, RemovalSees
  <1> QED BY <1>2, <1>3

LEMMA GoesRemovalEnds ==
  ASSUME NEW p \in Procs, Inside(p), RemovalEnds(p)
  PROVE  Goes(p)
PROOF
  <1>1. SameStore /\ pc[p] = "rdel" /\ faults' = faults /\ RemoveDone(p, ~bad[p])
    BY DEF RemovalEnds, SameStore, disk, kernel, budget
  <1>2. bad[p] \in BOOLEAN /\ faults \in Nat /\ failed \in Nat /\ failed <= faults
    BY DEF Inside, TypeOK, ProcsTypeOK, BudgetTypeOK, SoFar, BeforeInv
  <1>3. ASSUME ~Fresh, Finish(p, "err") PROVE Goes(p)
    <2>1. pc'[p] = "idle" /\ ret'[p] = "err"
      BY <1>3, StepEffect DEF Inside
    <2>2. faults' > failed
      BY <1>1, <1>2, <1>3 DEF Fresh
    <2> QED BY <1>1, <2>1, <2>2, FailsHere
  <1>4. CASE bad[p]
    <2>1. Finish(p, "err")
      BY <1>1, <1>4 DEF RemoveDone
    <2>2. ~Fresh
      <3>1. CASE Op(p) = "create"
        BY <1>1, <1>4, <3>1, RemovalSees DEF Inside, SoFar, CreateSoFar, RemovalSoFar
      <3>2. CASE phase[p] = "destroy"
        BY <1>1, <1>4, <3>2, Destroying DEF DestroySoFar, RemovalSoFar
      <3>3. CASE Op(p) = "recover" /\ phase[p] \in {"nomount", "nocopy"}
        BY <1>1, <1>4, <3>3 DEF Inside, SoFar, RecoverSoFar, RemovalSoFar
      <3> QED BY <1>1, <3>1, <3>2, <3>3, RemovalSees
    <2> QED BY <1>3, <2>1, <2>2
  <1>5. CASE ~bad[p]
    <2>1. work[p] = {} /\ RemoveDone(p, TRUE)
      <3>1. (~bad[p]) = TRUE
        BY <1>5
      <3> QED BY <1>1, <1>5, <3>1 DEF RemovalEnds, RemovalOver
    <2>2. CASE phase[p] = "forward" /\ Op(p) = "create"
      <3>1. Enter(p, "forward", "sread")
        BY <2>1, <2>2 DEF RemoveDone
      <3>2. pc'[p] = "sread" /\ call' = call /\ phase'[p] = "forward"
        BY <3>1, StepEffect DEF Inside
      <3> SUFFICES ASSUME before' = before, failed' = failed PROVE SoFar(p)'
        BY <3>2 DEF Goes
      <3>3. BeforeInv' /\ (Fresh' <=> Fresh)
        BY <1>1, RemovalSees, BeforeStays DEF Inside, Fresh
      <3>4. CreateSoFar(p) /\ plain = {} /\ Fresh
        BY <1>1, <1>5, <2>1, <2>2 DEF Inside, SoFar, CreateSoFar, RemovalSoFar
      <3>5. CreateSoFar(p)'
        BY <1>1, <2>2, <3>2, <3>3, <3>4, StoreStays DEF CreateSoFar, RemovalSoFar, SameStore
      <3> QED BY <2>2, <3>2, <3>3, <3>5 DEF SoFar, Op
    <2>3. CASE phase[p] = "nocopy" /\ Op(p) = "recover"
      <3>1. Finish(p, "err") /\ BeforeInv /\ before \in Store!Storage
        BY <1>1, <2>1, <2>3, RemovalSees DEF RemoveDone
      <3>2. CASE Fresh
        <4>1. /\ Returning /\ Opens(p) /\ Collides /\ mtab = <<>> /\ plain = {}
              /\ before.priv /\ before.at = "none" /\ ~before.rec
              /\ call[p].pw \notin ShortPasswords
          BY <1>1, <1>5, <2>1, <2>3, <3>2 DEF Inside, SoFar, RecoverSoFar, RemovalSoFar
        <4> PICK x : x = [before EXCEPT !.clear = {}, !.rec = TRUE]
          OBVIOUS
        <4>2. /\ x.clear = {} /\ x.cipher = before.cipher /\ x.priv = before.priv
              /\ x.stat = before.stat /\ x.pass = before.pass /\ x.at = before.at /\ x.rec = TRUE
              /\ x \in Store!Storage
          BY <3>1 DEF Store!Storage
        <4>3. Is(x)
          BY <4>1, <4>2, AtOf DEF Is, Returning, HeaderIs
        <4>4. Now' = x
          BY <1>1, <4>2, <4>3, IsNow, StoreStays
        <4>5. Admitted(before, call[p].pw) /\ OpenedBy(before, call[p].pw) /\ Colliding(before)
          BY <4>1 DEF Admitted, Opens, Collides
        <4>6. End(Now', "err", "clean") \in Store!Recover(before, call[p].pw)
          BY <4>4, <4>5, RecoverEnds
        <4> QED BY <1>1, <2>3, <3>1, <3>2, <4>6, ReturnsClean, AllowedBy
      <3> QED BY <1>3, <3>1, <3>2
    <2>4. CASE phase[p] \in {"nomount", "destroy"} \/ (phase[p] = "nocopy" /\ Op(p) = "create")
      <3>1. Goto(p, "rmdir")
        BY <2>1, <2>4 DEF RemoveDone
      <3>2. pc'[p] = "rmdir" /\ call' = call /\ phase'[p] = phase[p]
        BY <3>1, StepEffect DEF Inside
      <3> SUFFICES ASSUME before' = before, failed' = failed PROVE SoFar(p)'
        BY <3>2 DEF Goes
      <3>3. BeforeInv' /\ (Fresh' <=> Fresh) /\ plain' = plain /\ Ciphertext' = Ciphertext
        BY <1>1, RemovalSees, BeforeStays, StoreStays DEF Inside, Fresh, SameStore
      <3>4. CASE phase[p] = "nomount" /\ Op(p) = "recover"
        <4>1. RecoverSoFar(p) /\ Returning /\ plain = before.clear /\ (Fresh => ~Opens(p))
          BY <3>4 DEF Inside, SoFar, RecoverSoFar
        <4>2. Returning' /\ (Opens(p)' <=> Opens(p))
          BY <1>1, <3>2, <4>1, ReturningStays
        <4>3. RecoverSoFar(p)'
          BY <1>1, <3>2, <3>3, <3>4, <4>1, <4>2 DEF RecoverSoFar
        <4> QED BY <3>2, <3>3, <3>4, <4>3 DEF SoFar, Op
      <3>5. CASE phase[p] = "nocopy" /\ Op(p) = "create"
        <4>1. CreateSoFar(p)'
          BY <1>1, <3>2, <3>3, <3>5 DEF Inside, SoFar, CreateSoFar, SameStore
        <4> QED BY <3>2, <3>3, <3>5, <4>1 DEF SoFar, Op
      <3>6. CASE phase[p] = "destroy"
        <4>1. DestroySoFar(p, Left(p)) /\ Ciphertext = {}
          BY <1>1, <1>5, <2>1, <3>6, Destroying DEF DestroySoFar, RemovalSoFar
        <4>2. Left(p)' = Left(p)
          BY <3>2 DEF Left, Gathers, Op
        <4>3. DestroySoFar(p, Left(p))'
          BY <1>1, <1>5, <3>2, <3>3, <4>1, <4>2 DEF DestroySoFar, RemovalSoFar, SameStore, HeaderIs
        <4> QED BY <1>1, <3>2, <3>3, <3>6, <4>3, DestroyGoes
      <3> QED BY <1>1, <2>4, <3>4, <3>5, <3>6, RemovalSees
    <2> QED BY <1>1, <2>2, <2>3, <2>4, RemovalSees
  <1> QED BY <1>2, <1>4, <1>5

LEMMA GoesRemoveItem ==
  ASSUME NEW p \in Procs, Inside(p), RemoveItem(p)
  PROVE  Goes(p)
PROOF
  <1>1. /\ pc[p] = "rdel" /\ UNCHANGED <<privDir, hdr, recDir, mtab>>
        /\ UNCHANGED <<pc, call, phase>>
    BY DEF RemoveItem, kernel
  <1>2. PICK i \in work[p] :
          /\ work' = [work EXCEPT ![p] = @ \ {i}]
          /\ \/ /\ i \in Visible(ContentOf(p)) /\ Drop(ContentOf(p), i)
                /\ UNCHANGED <<bad, faults>>
             \/ /\ i \notin Visible(ContentOf(p)) /\ bad' = [bad EXCEPT ![p] = TRUE]
                /\ UNCHANGED <<plain, enc, faults>>
             \/ /\ Fault("delete") /\ bad' = [bad EXCEPT ![p] = TRUE]
                /\ UNCHANGED <<plain, enc>>
    BY DEF RemoveItem, Files
  <1>3. i \in Items /\ work'[p] = work[p] \ {i} /\ bad[p] \in BOOLEAN /\ pc'[p] # "idle"
    BY <1>1, <1>2 DEF Inside, TypeOK, ProcsTypeOK
  <1>4. /\ BeforeInv /\ before \in Store!Storage
        /\ faults \in Nat /\ failed \in Nat /\ failed <= faults
    BY DEF Inside, SoFar, BeforeInv, TypeOK, BudgetTypeOK
  <1> SUFFICES ASSUME before' = before, failed' = failed PROVE SoFar(p)'
    BY <1>3 DEF Goes
  <1>5. BeforeInv'
    BY <1>2, <1>4, BeforeStays DEF Inside, Fault
  \* What becomes of the items, the report, and the failures.
  <1>6. \/ /\ Drop(ContentOf(p), i) /\ bad'[p] = bad[p] /\ (Fresh' <=> Fresh)
        \/ /\ i \notin Visible(ContentOf(p)) /\ bad'[p] = TRUE /\ (Fresh' <=> Fresh)
           /\ plain' = plain /\ Ciphertext' = Ciphertext
        \/ /\ bad'[p] = TRUE /\ ~Fresh'
           /\ plain' = plain /\ Ciphertext' = Ciphertext
    <2>1. /\ bad' = bad => bad'[p] = bad[p]
          /\ bad' = [bad EXCEPT ![p] = TRUE] => bad'[p] = TRUE
          /\ faults' = faults => (Fresh' <=> Fresh)
          /\ enc' = enc => Ciphertext' = Ciphertext
      BY DEF Fresh, Inside, TypeOK, ProcsTypeOK, Ciphertext
    <2>2. Fault("delete") => ~Fresh'
      BY <1>4 DEF Fault, Fresh
    <2> QED BY <1>2, <2>1, <2>2
  <1>7. CASE phase[p] = "forward" /\ Op(p) = "create" /\ ContentOf(p) = "S"
    <2>1. /\ CreateSoFar(p) /\ work[p] \subseteq plain /\ (~bad[p] => plain \subseteq work[p])
          /\ (bad[p] => ~Fresh) /\ (~bad[p] => Fresh) /\ ~Mounted("S") /\ Visible("S") = plain
      BY <1>1, <1>7, RemovalSees DEF Inside, SoFar, CreateSoFar, RemovalSoFar
    <2>2. \/ /\ plain' = plain \ {i} /\ bad'[p] = bad[p] /\ (Fresh' <=> Fresh)
          \/ /\ plain' = plain /\ bad'[p] = TRUE /\ ~Fresh'
      BY <1>2, <1>3, <1>6, <1>7, <2>1, Drops DEF Inside
    <2>3. Ciphertext' = Ciphertext
      BY <1>3, <1>6, <1>7, <2>1, Drops DEF Inside
    <2>4. /\ work'[p] \subseteq plain' /\ (~bad'[p] => plain' \subseteq work'[p])
          /\ (bad'[p] => ~Fresh') /\ (~bad'[p] => Fresh') /\ plain' \subseteq plain
      BY <1>2, <1>3, <2>1, <2>2
    <2>5. CreateSoFar(p)'
      BY <1>1, <1>7, <2>1, <2>3, <2>4 DEF CreateSoFar, RemovalSoFar
    <2> QED BY <1>1, <1>5, <1>7, <2>5 DEF SoFar, Op
  <1>8. CASE phase[p] = "nomount" /\ Op(p) = "recover"
    BY <1>1, <1>2, <1>8 DEF Inside, SoFar, RecoverSoFar
  <1>9. CASE phase[p] = "nocopy" /\ Op(p) = "create" /\ ContentOf(p) = "P"
    <2>1. CreateSoFar(p) /\ ~Fresh
      BY <1>9 DEF Inside, SoFar, CreateSoFar
    <2>2. plain' = plain /\ Ciphertext' \subseteq Ciphertext /\ ~Fresh'
      BY <1>3, <1>6, <1>9, <2>1, Drops DEF Inside
    <2>3. CreateSoFar(p)'
      BY <1>1, <1>9, <2>1, <2>2 DEF CreateSoFar
    <2> QED BY <1>1, <1>5, <1>9, <2>3 DEF SoFar, Op
  <1>10. CASE phase[p] = "nocopy" /\ Op(p) = "recover" /\ ContentOf(p) = "S"
    <2>1. /\ RecoverSoFar(p) /\ work[p] \subseteq plain /\ (~bad[p] => plain \subseteq work[p])
          /\ (bad[p] => ~Fresh) /\ ~Mounted("S") /\ Visible("S") = plain /\ Returning
          /\ Opens(p) /\ (Fresh => Collides /\ mtab = <<>>)
      BY <1>1, <1>10, RemovalSees DEF Inside, SoFar, RecoverSoFar, RemovalSoFar
    <2>2. \/ /\ plain' = plain \ {i} /\ bad'[p] = bad[p] /\ (Fresh' <=> Fresh)
          \/ /\ plain' = plain /\ bad'[p] = TRUE /\ ~Fresh'
      BY <1>2, <1>3, <1>6, <1>10, <2>1, Drops DEF Inside
    <2>3. Ciphertext' = Ciphertext
      BY <1>3, <1>6, <1>10, <2>1, Drops DEF Inside
    <2>4. /\ work'[p] \subseteq plain' /\ (~bad'[p] => plain' \subseteq work'[p])
          /\ (bad'[p] => ~Fresh') /\ plain' \subseteq plain /\ (Fresh' => Fresh)
      BY <1>2, <1>3, <2>1, <2>2
    <2>5. Returning' /\ Opens(p)' /\ (Collides' <=> Collides)
      BY <1>1, <2>1, <2>3, <2>4 DEF Returning, HeaderIs, Gathers, Opens, Collides
    <2>6. RecoverSoFar(p)'
      BY <1>1, <1>10, <2>1, <2>4, <2>5 DEF RecoverSoFar, RemovalSoFar
    <2> QED BY <1>1, <1>5, <1>10, <2>6 DEF SoFar, Op
  <1>11. CASE phase[p] = "destroy" /\ ContentOf(p) = "P"
    <2>1. /\ DestroySoFar(p, Left(p)) /\ work[p] \subseteq Ciphertext
          /\ (~bad[p] => Ciphertext \subseteq work[p])
          /\ (bad[p] => ~Fresh) /\ (~bad[p] => Fresh) /\ Visible("P") = Ciphertext
      BY <1>1, <1>11, RemovalSees, Destroying DEF DestroySoFar, RemovalSoFar
    <2>2. \/ /\ Ciphertext' = Ciphertext \ {i} /\ bad'[p] = bad[p] /\ (Fresh' <=> Fresh)
          \/ /\ Ciphertext' = Ciphertext /\ bad'[p] = TRUE /\ ~Fresh'
      BY <1>2, <1>3, <1>6, <1>11, <2>1, Drops DEF Inside
    <2>3. plain' = plain
      BY <1>3, <1>6, <1>11, <2>1, Drops DEF Inside
    <2>4. /\ work'[p] \subseteq Ciphertext' /\ (~bad'[p] => Ciphertext' \subseteq work'[p])
          /\ (bad'[p] => ~Fresh') /\ (~bad'[p] => Fresh') /\ Ciphertext' \subseteq Ciphertext
      BY <1>2, <1>3, <2>1, <2>2
    <2>5. Left(p)' = Left(p)
      BY <1>1 DEF Left, Gathers, Op
    <2>6. DestroySoFar(p, Left(p))'
      BY <1>1, <2>1, <2>3, <2>4, <2>5 DEF DestroySoFar, RemovalSoFar, HeaderIs
    <2> QED BY <1>1, <1>5, <1>11, <2>6, DestroyGoes
  <1> QED BY <1>1, <1>7, <1>8, <1>9, <1>10, <1>11, RemovalSees

LEMMA GoesRemoveRoot ==
  ASSUME NEW p \in Procs, Inside(p), RemoveRoot(p)
  PROVE  Goes(p)
PROOF
  <1>1. pc[p] = "rmdir" /\ UNCHANGED <<plain, enc, hdr>>
    BY DEF RemoveRoot
  <1>2. /\ BeforeInv /\ before \in Store!Storage
        /\ faults \in Nat /\ failed \in Nat /\ failed <= faults
    BY DEF Inside, SoFar, BeforeInv, TypeOK, BudgetTypeOK
  <1>3. \/ phase[p] = "forward" /\ Op(p) = "recover"
        \/ phase[p] = "nomount" /\ Op(p) = "recover"
        \/ phase[p] = "nocopy" /\ Op(p) = "create"
        \/ phase[p] = "destroy"
    BY <1>1 DEF Inside, SoloInv, Mine, PlaceInv, OnTheWay, Through
  <1>4. mtab = <<>> \/ (phase[p] = "nocopy" /\ Op(p) = "create" /\ OneMount("P"))
    BY <1>1, <1>3, RemovingPlace, PointsOf DEF Inside
  <1>5. Ciphertext' = Ciphertext
    BY <1>1 DEF Ciphertext
  <1>6. CASE Fault("rmdir") /\ RmdirDone(p, FALSE) /\ UNCHANGED <<privDir, recDir, mtab>>
    <2>1. SameStore
      BY <1>1, <1>6 DEF SameStore
    <2> QED BY <1>1, <1>6, <2>1, FaultHere DEF RmdirDone
  <1>7. CASE /\ phase[p] \in {"forward", "nomount"} /\ Op(p) = "recover"
             /\ ~(Fault("rmdir") /\ RmdirDone(p, FALSE) /\ UNCHANGED <<privDir, recDir, mtab>>)
    <2>1. /\ RecoverSoFar(p) /\ Returning /\ before.priv /\ before.at = "none" /\ ~before.rec
          /\ call[p].pw \notin ShortPasswords /\ mtab = <<>>
      BY <1>1, <1>4, <1>7 DEF Inside, SoFar, RecoverSoFar
    <2>2. /\ recDir' = FALSE /\ RmdirDone(p, TRUE) /\ UNCHANGED <<privDir, mtab, faults>>
      BY <1>7, <2>1, NothingSeen DEF RemoveRoot, RootOf, Exists, Returning
    <2>3. CASE phase[p] = "nomount"
      <3>1. Finish(p, "err") /\ plain = before.clear /\ (Fresh => ~Opens(p))
        BY <2>1, <2>2, <2>3 DEF RmdirDone, RecoverSoFar
      <3>2. before.rec = FALSE /\ before.priv = TRUE
        BY <1>2, <2>1 DEF Store!Storage
      <3>3. /\ plain' = before.clear /\ Ciphertext' = before.cipher /\ privDir' = privDir
            /\ hdr' = hdr /\ At' = "none" /\ recDir' = before.rec
        BY <1>1, <1>5, <2>1, <2>2, <3>1, <3>2 DEF Returning, At
      <3> PICK x : x = before
        OBVIOUS
      <3>4. Is(x)'
        <4>1. hdr'.stat = x.stat /\ hdr'.pass = x.pass /\ privDir' = x.priv
          BY <1>2, <2>1, <3>2, <3>3 DEF Returning, HeaderIs, Inside, TypeOK, DiskTypeOK
        <4> QED BY <2>1, <3>3, <4>1 DEF Is, HeaderIs
      <3>5. Now' = before
        BY <1>2, <3>4, IsNext
      <3>6. CASE Fresh
        <4>1. ~OpenedBy(before, call[p].pw)
          BY <3>1, <3>6 DEF Opens
        <4>2. End(Now', "err", "clean") \in Store!Recover(before, call[p].pw)
          BY <3>5, <4>1, RecoverEnds
        <4> QED BY <1>7, <2>2, <3>1, <3>6, <4>2, ReturnsClean, AllowedBy
      <3>7. CASE ~Fresh
        <4>1. pc'[p] = "idle" /\ ret'[p] = "err"
          BY <3>1, StepEffect DEF Inside
        <4>2. faults' > failed
          BY <1>2, <2>2, <3>7 DEF Fresh
        <4>3. End(Now', "err", "fault") \in Store!Recover(before, call[p].pw)
          BY <3>5, RecoverEnds
        <4>4. Allowed(p, Now', "err", "fault")
          BY <1>7, <4>3, AllowedBy
        <4> QED BY <4>1, <4>2, <4>4 DEF Goes
      <3> QED BY <3>6, <3>7
    <2>4. CASE phase[p] = "forward"
      <3>1. Goto(p, "rcheck")
        BY <2>2, <2>4 DEF RmdirDone
      <3>2. pc'[p] = "rcheck" /\ call' = call /\ phase'[p] = "forward"
        BY <2>4, <3>1, StepEffect DEF Inside
      <3> SUFFICES ASSUME before' = before, failed' = failed PROVE SoFar(p)'
        BY <3>2 DEF Goes
      <3>3. BeforeInv' /\ (Fresh' <=> Fresh)
        BY <1>2, <2>2, BeforeStays DEF Inside, Fresh
      <3>4. plain = Gathers /\ ~Collides /\ Fresh /\ Opens(p)
        BY <1>1, <2>1, <2>4 DEF RecoverSoFar
      <3>5. before.rec = FALSE
        BY <1>2, <2>1 DEF Store!Storage
      <3> PICK x : x = Store!Gathered(before)
        OBVIOUS
      <3>6. /\ x.clear = Gathers /\ x.cipher = before.cipher /\ x.priv = before.priv
            /\ x.stat = before.stat /\ x.pass = before.pass /\ x.at = before.at /\ x.rec = before.rec
        BY <1>2 DEF Store!Gathered, Store!Storage, Gathers
      <3>7. /\ plain' = x.clear /\ Ciphertext' = x.cipher /\ privDir' = x.priv
            /\ At' = x.at /\ recDir' = x.rec
        BY <1>1, <1>2, <1>5, <2>1, <2>2, <3>4, <3>5, <3>6 DEF Returning, At, Store!Storage, Inside,
           TypeOK, DiskTypeOK
      <3>8. hdr'.stat = x.stat /\ hdr'.pass = x.pass
        BY <1>1, <2>1, <3>6 DEF Returning, HeaderIs
      <3>9. Is(x)'
        BY <3>7, <3>8 DEF Is, HeaderIs
      <3>10. x = Store!Gathered(before')
        OBVIOUS
      <3>11. Is(Store!Gathered(before))'
        BY <3>9, <3>10 DEF Is, HeaderIs
      <3>12. Opens(p)' /\ ~Collides'
        BY <3>2, <3>4 DEF Opens, Collides
      <3>13. RecoverSoFar(p)'
        BY <2>1, <3>2, <3>3, <3>4, <3>11, <3>12 DEF RecoverSoFar
      <3> QED BY <1>7, <3>2, <3>3, <3>13 DEF SoFar, Op
    <2> QED BY <1>7, <2>3, <2>4
  <1>8. CASE /\ phase[p] = "nocopy" /\ Op(p) = "create"
             /\ ~(Fault("rmdir") /\ RmdirDone(p, FALSE) /\ UNCHANGED <<privDir, recDir, mtab>>)
    <2>1. /\ CreateSoFar(p) /\ ~Fresh /\ plain = before.clear /\ privDir /\ recDir = before.rec
          /\ hdr.stat = "not_started" /\ hdr.pass = call[p].pw
          /\ call[p].pw \notin ShortPasswords /\ ~before.priv
      BY <1>1, <1>8 DEF Inside, SoFar, CreateSoFar
    <2>2. Finish(p, "err") /\ faults' = faults
      BY <1>8 DEF RemoveRoot, RmdirDone
    <2>3. pc'[p] = "idle" /\ ret'[p] = "err"
      BY <2>2, StepEffect DEF Inside
    <2>4. faults' > failed
      BY <1>2, <2>1, <2>2 DEF Fresh
    <2>5. CASE UNCHANGED <<privDir, recDir, mtab>>
      <3>1. SameStore
        BY <1>1, <2>5 DEF SameStore
      <3> QED BY <1>1, <2>3, <2>4, <3>1, FailsHere
    <2>6. CASE ~UNCHANGED <<privDir, recDir, mtab>>
      <3>1. /\ ~Mounted("P") /\ Ciphertext = {} /\ privDir' = FALSE /\ recDir' = recDir
            /\ mtab' = [n \in 1..Len(mtab) |-> [mtab[n] EXCEPT !.live = FALSE]]
        BY <1>8, <2>6 DEF RemoveRoot, RootOf
      <3>2. mtab = <<>>
        BY <1>4, <3>1, MountSeen
      <3>3. mtab' = <<>>
        BY <3>1, <3>2
      <3>4. before.cipher = {} /\ before.at = "none"
        BY <1>2, <2>1 DEF BeforeInv
      <3> PICK x : x = [Store!Keyed(before, call[p].pw) EXCEPT !.priv = FALSE]
        OBVIOUS
      <3>5. call[p].pw \in Passwords \cup {NoPassword}
        BY DEF Inside, TypeOK, ProcsTypeOK, CallArgs, NoCall
      <3>6. /\ x.clear = before.clear /\ x.cipher = {} /\ x.priv = FALSE /\ x.at = "none"
            /\ x.stat = "not_started" /\ x.pass = call[p].pw /\ x.rec = before.rec
        BY <1>2, <3>4 DEF Store!Keyed, Store!Storage
      <3>7. x \in Store!Storage
        BY <1>2, <3>5 DEF Store!Keyed, Store!Storage
      <3>8. Is(x)'
        BY <1>1, <1>5, <2>1, <3>1, <3>3, <3>6 DEF Is, HeaderIs, At
      <3>9. Now' = x
        BY <3>7, <3>8, IsNext
      <3>10. x \in Store!HalfCreated(before, call[p].pw)
        BY DEF Store!HalfCreated
      <3>11. End(Now', "err", "fault") \in Store!Create(before, call[p].pw)
        BY <2>1, <3>9, <3>10, CreateEnds
      <3>12. Allowed(p, Now', "err", "fault")
        BY <1>8, <3>11, AllowedBy
      <3> QED BY <2>3, <2>4, <3>12 DEF Goes
    <2> QED BY <2>5, <2>6
  <1>9. CASE /\ phase[p] = "destroy"
             /\ ~(Fault("rmdir") /\ RmdirDone(p, FALSE) /\ UNCHANGED <<privDir, recDir, mtab>>)
    <2>1. /\ DestroySoFar(p, Left(p)) /\ privDir /\ Ciphertext = {} /\ Fresh /\ mtab = <<>>
      BY <1>1, <1>4, <1>9, Destroying DEF DestroySoFar
    <2>2. /\ privDir' = FALSE /\ RmdirDone(p, TRUE) /\ UNCHANGED <<recDir, faults>>
          /\ mtab' = [n \in 1..Len(mtab) |-> [mtab[n] EXCEPT !.live = FALSE]]
      BY <1>9, <2>1, NothingSeen DEF RemoveRoot, RootOf, Exists
    <2>3. Goto(p, "unlink")
      BY <1>9, <2>2 DEF RmdirDone
    <2>4. pc'[p] = "unlink" /\ call' = call /\ phase'[p] = phase[p]
      BY <2>3, StepEffect DEF Inside
    <2> SUFFICES ASSUME before' = before, failed' = failed PROVE SoFar(p)'
      BY <2>4 DEF Goes
    <2>5. BeforeInv' /\ (Fresh' <=> Fresh)
      BY <1>2, <2>2, BeforeStays DEF Inside, Fresh
    <2>6. Left(p)' = Left(p)
      BY <2>4 DEF Left, Gathers, Op
    <2>7. DestroySoFar(p, Left(p))'
      BY <1>1, <1>5, <2>1, <2>2, <2>4, <2>5, <2>6 DEF DestroySoFar, RemovalSoFar, HeaderIs
    <2> QED BY <1>1, <1>9, <2>4, <2>5, <2>7, DestroyGoes
  <1> QED BY <1>3, <1>6, <1>7, <1>8, <1>9

\* Each step of a call leaves it running or returns what EfsCalls allows.
LEMMA GoesStep ==
  ASSUME NEW p \in Procs, Inside(p), Step(p)
  PROVE  Goes(p)
PROOF BY GoesCreateChecks, GoesMakePrivateDir, GoesWriteNewHeader, GoesUnlockChecks,
         GoesRecoverChecks, GoesMakeRecoveryDir, GoesRemoveChecks, GoesUnlinkKeyFile,
         GoesReadForStatus, GoesReadForChange, GoesWriteBack, GoesMountCheck, GoesMountOpen,
         GoesMountKeys, GoesMountFs, GoesUmountCheck, GoesUmount, GoesUmountKeys,
         GoesListForCopy, GoesCopyItem, GoesCopyEnds, GoesListForRemoval, GoesRemoveItem,
         GoesRemovalEnds, GoesRemoveRoot DEF Step

-----------------------------------------------------------------------------
(* From one step of the library to one of SecureStore.                       *)

LEMMA CallerIs ==
  ASSUME OneCaller
  PROVE  /\ Caller \in Procs /\ \A p \in Procs : p = Caller
         /\ Quiet <=> pc[Caller] = "idle"
         /\ Quiet' <=> pc'[Caller] = "idle"
PROOF
  <1>1. Caller \in Procs
    BY DEF OneCaller, Caller
  <1>2. \A p \in Procs : p = Caller
    BY <1>1 DEF OneCaller
  <1> QED BY <1>1, <1>2 DEF Quiet

\* A step of the library is one of a call that runs, and not a failure from outside.
LEMMA StepRuns ==
  ASSUME TypeOK, NEW p \in Procs, Step(p)
  PROVE  pc[p] # "idle" /\ call' = call /\ kills' = kills
PROOF
  <1>1. ASSUME NEW ok, RmdirDone(p, ok) \/ RemoveDone(p, ok) \/ UmountDone(p, ok)
        PROVE  call' = call
    BY <1>1 DEF RmdirDone, RemoveDone, UmountDone, Finish, Enter, Goto
  <1>2. MountFailed(p) \/ MountDone(p) \/ CopyFailed(p) => call' = call
    BY DEF MountFailed, MountDone, CopyFailed, Finish, Enter, Goto
  <1>3. CASE CreateChecks(p) \/ MakePrivateDir(p) \/ WriteNewHeader(p) \/ UnlockChecks(p)
               \/ RecoverChecks(p) \/ MakeRecoveryDir(p) \/ RemoveChecks(p) \/ UnlinkKeyFile(p)
               \/ ReadForStatus(p) \/ ReadForChange(p) \/ WriteBack(p)
    BY <1>3 DEF CreateChecks, MakePrivateDir, WriteNewHeader, UnlockChecks, RecoverChecks,
       MakeRecoveryDir, RemoveChecks, UnlinkKeyFile, ReadForStatus, ReadForChange, WriteBack,
       WriteFails, Finish, Enter, Goto, budget
  <1>4. CASE MountCheck(p) \/ MountOpen(p) \/ MountKeys(p) \/ MountFs(p) \/ UmountCheck(p)
               \/ Umount(p) \/ UmountKeys(p)
    BY <1>1, <1>2, <1>4 DEF MountCheck, MountOpen, MountKeys, MountFs, UmountCheck, Umount,
       UmountKeys, Goto, Finish, budget
  <1>5. CASE ListForCopy(p) \/ CopyItem(p) \/ CopyEnds(p) \/ ListForRemoval(p)
               \/ RemoveItem(p) \/ RemovalEnds(p) \/ RemoveRoot(p)
    BY <1>1, <1>2, <1>5 DEF ListForCopy, CopyItem, CopyEnds, ListForRemoval, RemoveItem,
       RemovalEnds, RemoveRoot, Goto, budget
  <1> QED BY <1>3, <1>4, <1>5 DEF Step

\* What SecureStore sees.
Shown == IF Quiet THEN Now ELSE before
Said  == [code |-> IF Quiet THEN ret[Caller] ELSE "running", how |-> how]
Seen  == Store!Next \/ UNCHANGED <<Shown, call[Caller], Said>>

\* A call that ends with an outcome of EfsCalls returns.
LEMMA SeenReturn ==
  ASSUME OneCaller, ~Quiet, Quiet', how = "clean", call' = call,
         Allowed(Caller, Now', ret'[Caller], how')
  PROVE  Seen
PROOF
  <1> PICK o : o = End(Now', ret'[Caller], how')
    OBVIOUS
  <1>1. o \in Store!Outcomes(before, call[Caller])
    BY DEF Allowed
  <1>2. o.to = Now' /\ o.code = ret'[Caller] /\ o.how = how'
    BY DEF End
  <1>3. Store!Return
    BY <1>1, <1>2 DEF Store!Return, Store!Running
  <1> QED BY <1>3 DEF Seen, Store!Next

\* A step of HNext is a step of the library that the history remembers.
LEMMA HNextIs == HNext <=> Next /\ Remember
PROOF BY Zenon DEF HNext, Next, Step

LEMMA StepSeen ==
  ASSUME OneCaller, TypeOK, TypeOK', SoloInv, SoloInv', HInv, Remember, Step(Caller)
  PROVE  HInv' /\ Seen
PROOF
  <1> DEFINE p == Caller
  <1>1. p \in Procs /\ \A q \in Procs : q = p
    BY CallerIs
  <1>2. pc[p] # "idle" /\ call' = call /\ kills' = kills /\ ~Quiet
    BY <1>1, StepRuns, CallerIs
  <1>3. CallInv(p)
    BY <1>1 DEF HInv
  <1>4. how = "clean" /\ SoFar(p) /\ TokensInv(p) /\ ListInv(p)
    BY <1>2, <1>3 DEF CallInv
  <1>5. Inside(p) /\ kills \in Nat
    BY <1>2, <1>4 DEF Inside, TypeOK, BudgetTypeOK
  <1>6. TokensInv(p)' /\ ListInv(p)'
    BY <1>1, <1>4, <1>5, TokensStep, ListStays
  <1>7. Goes(p)
    BY <1>1, <1>5, GoesStep
  <1>8. CASE pc'[p] = "idle"
    <2>1. Quiet'
      BY <1>8, CallerIs
    <2>2. before' = NotRunning /\ failed' = 0
      BY <2>1 DEF Remember
    <2>3. how' = IF faults' > failed THEN "fault" ELSE "clean"
      BY <1>2, <1>5, <2>1 DEF Remember
    <2>4. CallInv(p)'
      BY <1>6, <1>8, <2>2 DEF CallInv
    <2>5. Allowed(p, Now', ret'[p], how')
      BY <1>7, <1>8, <2>3 DEF Goes
    <2> QED BY <1>1, <1>2, <1>4, <2>1, <2>4, <2>5, SeenReturn DEF HInv
  <1>9. CASE pc'[p] # "idle"
    <2>1. ~Quiet'
      BY <1>9, CallerIs
    <2>2. before' = before /\ failed' = failed /\ how' = "clean"
      BY <1>2, <2>1 DEF Remember
    <2>3. CallInv(p)'
      BY <1>6, <1>7, <1>9, <2>2 DEF CallInv, Goes
    <2>4. HInv'
      BY <1>1, <2>3 DEF HInv
    <2>5. UNCHANGED <<Shown, call[Caller], Said>>
      BY <1>2, <1>4, <2>1, <2>2 DEF Shown, Said
    <2> QED BY <2>4, <2>5 DEF Seen
  <1> QED BY <1>8, <1>9

LEMMA KillSeen ==
  ASSUME OneCaller, TypeOK, SoloInv, HInv, Remember, Kill(Caller)
  PROVE  HInv' /\ Seen
PROOF
  <1> DEFINE p == Caller
  <1>1. p \in Procs /\ \A q \in Procs : q = p
    BY CallerIs
  <1>2. /\ pc[p] # "idle" /\ call' = call /\ ~Quiet /\ Finish(p, "none")
        /\ kills' = kills + 1 /\ SameStore /\ UNCHANGED <<hdr, mtab, keyring>>
    BY <1>1, CallerIs DEF Kill, Finish, SameStore, disk, kernel
  <1>3. CallInv(p)
    BY <1>1 DEF HInv
  <1>4. how = "clean" /\ SoFar(p) /\ TokensInv(p)
    BY <1>2, <1>3 DEF CallInv
  <1>5. pc'[p] = "idle" /\ ret'[p] = "none" /\ bad'[p] = FALSE /\ kills \in Nat
    BY <1>1, <1>2 DEF Finish, TypeOK, ProcsTypeOK, BudgetTypeOK
  <1>6. Quiet'
    BY <1>5, CallerIs
  <1>7. kills' > kills
    BY <1>2, <1>5
  <1>8. before' = NotRunning /\ failed' = 0 /\ how' = "killed"
    BY <1>2, <1>6, <1>7 DEF Remember
  <1>9. TokensInv(p)'
    BY <1>1, <1>2, <1>4, FinishTokens
  <1>10. CallInv(p)'
    BY <1>5, <1>8, <1>9 DEF CallInv, ListInv
  <1>11. Now' = Now
    BY <1>2, StoreStays
  <1>12. Allowed(p, Now', ret'[p], how')
    BY <1>1, <1>2, <1>4, <1>5, <1>8, <1>11, MayEndHere
  <1> QED BY <1>1, <1>2, <1>4, <1>6, <1>10, <1>12, SeenReturn DEF HInv

\* Without P there is no ciphertext and no mount, and without a header that can
\* be read no password.
LEMMA NowBefore ==
  ASSUME TypeOK, SoloInv, before' = Now, failed' = faults, faults' = faults,
         UNCHANGED <<disk, kernel>>
  PROVE  BeforeInv' /\ Fresh' /\ Is(before)'
PROOF
  <1>1. Now \in Store!Storage
    BY NowIsStorage
  <1>2. ~privDir => Ciphertext = {} /\ At = "none"
    BY AtOf DEF SoloInv, ViewInv, Ciphertext
  <1>3. hdr.stat \in {"absent", "malformed"} => hdr.pass = NoPassword
    BY DEF SoloInv, HeaderInv, Readable
  <1>4. faults \in Nat
    BY DEF TypeOK, BudgetTypeOK
  <1>5. /\ before' \in Store!Storage /\ failed' \in Nat /\ failed' <= faults'
        /\ ~before'.priv => before'.cipher = {} /\ before'.at = "none"
        /\ before'.stat \in {"absent", "malformed"} => before'.pass = NoPassword
    BY <1>1, <1>2, <1>3, <1>4, NowFields
  <1>6. Ciphertext' = Ciphertext /\ At' = At
    BY DEF disk, kernel, Ciphertext, At
  <1>7. Is(before)'
    BY <1>6, NowFields DEF disk, Is, HeaderIs
  <1> QED BY <1>5, <1>7 DEF BeforeInv, Fresh

LEMMA StartSeen ==
  ASSUME OneCaller, TypeOK, SoloInv, HInv, Remember, NEW c \in CallArgs, Start(Caller, c)
  PROVE  HInv' /\ Seen
PROOF
  <1> DEFINE p == Caller
  <1>1. p \in Procs /\ \A q \in Procs : q = p
    BY CallerIs
  <1>2. /\ pc[p] = "idle" /\ Quiet /\ UNCHANGED <<disk, kernel, budget>> /\ bad' = bad
        /\ pc'[p] = FirstStep[c.op] /\ call'[p] = c
        /\ phase'[p] = IF c.op = "remove" THEN "destroy" ELSE "forward"
    BY <1>1, CallerIs DEF Start, TypeOK, ProcsTypeOK
  <1>3. c.op \in ApiCalls
    BY OpsAssumption DEF CallArgs, ApiCalls
  <1>4. /\ c.op = "create"  => pc'[p] = "create"
        /\ c.op = "unlock"  => pc'[p] = "unlock"
        /\ c.op = "lock"    => pc'[p] = "ucheck"
        /\ c.op = "change"  => pc'[p] = "change"
        /\ c.op = "remove"  => pc'[p] = "rcheck"
        /\ c.op = "recover" => pc'[p] = "recover"
    BY <1>2 DEF FirstStep
  <1>4a. pc'[p] \in {"create", "unlock", "ucheck", "change", "rcheck", "recover"}
    BY <1>3, <1>4 DEF ApiCalls
  <1>5. ~Quiet'
    BY <1>4a, CallerIs
  <1>6. before' = Now /\ failed' = faults /\ how' = "clean" /\ faults' = faults
    BY <1>2, <1>5 DEF Remember, budget
  <1>7. BeforeInv' /\ Fresh' /\ Is(before)'
    BY <1>2, <1>6, NowBefore
  <1>8. Op(p)' = c.op
    BY <1>2 DEF Op
  <1>9. SoFar(p)'
    BY <1>2, <1>3, <1>4, <1>7, <1>8 DEF SoFar, ApiCalls, CreateSoFar, UnlockSoFar, LockSoFar,
       ChangeSoFar, RemoveSoFar, RecoverSoFar, RemovalSoFar
  <1>10. TokensInv(p) /\ ListInv(p)
    BY <1>1 DEF HInv, CallInv
  <1>11. TokensInv(p)'
    BY <1>2, <1>4a, <1>10, TokensStay DEF disk, kernel
  <1>12. ListInv(p)'
    BY <1>2, <1>4a, <1>10 DEF ListInv
  <1>13. CallInv(p)'
    BY <1>4a, <1>6, <1>9, <1>11, <1>12 DEF CallInv
  <1>14. ret[p] # "running"
    BY <1>1 DEF TypeOK, ProcsTypeOK, Codes
  <1>15. c \in Store!Args
    BY DEF CallArgs, Store!Args
  <1>16. Store!Start(c)
    BY <1>2, <1>5, <1>6, <1>14 DEF Store!Start, Store!Running
  <1>17. Seen
    BY <1>15, <1>16 DEF Seen, Store!Next
  <1>18. HInv'
    BY <1>1, <1>13 DEF HInv
  <1> QED BY <1>17, <1>18

LEMMA RebootSeen ==
  ASSUME OneCaller, TypeOK, SoloInv, HInv, Remember, Reboot
  PROVE  HInv' /\ Seen
PROOF
  <1> DEFINE p == Caller
  <1>1. p \in Procs /\ \A q \in Procs : q = p
    BY CallerIs
  <1>2. /\ pc'[p] = "idle" /\ ret'[p] = "none" /\ bad'[p] = FALSE /\ call' = call
        /\ mtab' = <<>> /\ UNCHANGED <<disk, faults>>
    BY <1>1 DEF Reboot
  <1>3. Quiet'
    BY <1>2, CallerIs
  <1>4. before' = NotRunning /\ failed' = 0
    BY <1>3 DEF Remember
  <1>5. TokensInv(p)'
    BY <1>2, TokensNone
  <1>6. HInv'
    BY <1>1, <1>2, <1>4, <1>5 DEF HInv, CallInv, ListInv
  <1>7. Now' = [Now EXCEPT !.at = "none"]
    <2> PICK x : x = [Now EXCEPT !.at = "none"]
      OBVIOUS
    <2>1. x \in Store!Storage
      BY NowIsStorage DEF Store!Storage
    <2>2. /\ x.clear = plain /\ x.cipher = Ciphertext /\ x.priv = privDir /\ x.stat = hdr.stat
          /\ x.pass = hdr.pass /\ x.at = "none" /\ x.rec = recDir
      BY NowFields, NowIsStorage DEF Store!Storage
    <2>3. Is(x)'
      BY <1>2, <2>2 DEF Is, HeaderIs, At, disk, Ciphertext
    <2> QED BY <2>1, <2>3, IsNext
  <1>8. CASE Quiet
    <2>1. how' = how
      BY <1>3, <1>8 DEF Remember
    <2>2. ret[p] # "running"
      BY <1>1 DEF TypeOK, ProcsTypeOK, Codes
    <2>3. Said # Store!Running /\ Shown' = [Shown EXCEPT !.at = "none"]
      BY <1>3, <1>7, <1>8, <2>2 DEF Said, Shown, Store!Running
    <2>4. Said' = [Said EXCEPT !.code = "none"]
      BY <1>2, <1>3, <1>8, <2>1 DEF Said
    <2>5. Store!Restart
      BY <1>2, <2>3, <2>4 DEF Store!Restart, Said, Shown
    <2> QED BY <1>6, <2>5 DEF Seen, Store!Next
  <1>9. CASE ~Quiet
    <2>1. kills' = kills + 1 /\ kills \in Nat
      BY <1>9 DEF Reboot, TypeOK, BudgetTypeOK
    <2>2. how' = "killed"
      BY <1>3, <1>9, <2>1 DEF Remember
    <2>3. pc[p] # "idle" /\ CallInv(p)
      BY <1>1, <1>9, CallerIs DEF HInv
    <2>4. how = "clean" /\ SoFar(p)
      BY <2>3 DEF CallInv
    <2>5. Allowed(p, Now, "none", "killed")
      BY <1>1, <2>3, <2>4, MayEndHere
    <2> PICK o : o = End(Now, "none", "killed")
      OBVIOUS
    <2>6. o \in Store!Outcomes(before, call[p]) /\ o.to = Now /\ o.code = "none"
          /\ o.how = "killed"
      BY <2>5 DEF Allowed, End
    <2>7. Store!Restart
      BY <1>2, <1>3, <1>7, <1>9, <2>2, <2>4, <2>6 DEF Store!Restart, Store!Running
    <2> QED BY <1>6, <2>7 DEF Seen, Store!Next
  <1> QED BY <1>8, <1>9

LEMMA AppWriteSeen ==
  ASSUME OneCaller, ~AppsDuringCalls, TypeOK, SoloInv, HInv, Remember,
         NEW i \in Items, AppWrite(i)
  PROVE  HInv' /\ Seen
PROOF
  <1> DEFINE p == Caller
  <1>1. p \in Procs /\ \A q \in Procs : q = p
    BY CallerIs
  <1>2. /\ Quiet /\ Put("S", i) /\ i \notin Visible("S")
        /\ UNCHANGED <<privDir, hdr, recDir, mtab, keyring, pc, call, ret, bad, faults>>
    BY DEF AppWrite, kernel, procs, budget
  <1>3. Quiet' /\ pc[p] = "idle" /\ pc'[p] = "idle"
    BY <1>2, CallerIs
  <1>4. before' = NotRunning /\ failed' = 0 /\ how' = how
    BY <1>2, <1>3 DEF Remember
  <1>5. TokensInv(p) /\ ListInv(p)
    BY <1>1 DEF HInv, CallInv
  <1>6. TokensInv(p)' /\ ListInv(p)'
    BY <1>2, <1>3, <1>5, TokensStay DEF ListInv
  <1>7. HInv'
    BY <1>1, <1>3, <1>4, <1>6 DEF HInv, CallInv
  <1>8. ret[p] # "running"
    BY <1>1 DEF TypeOK, ProcsTypeOK, Codes
  <1>9. Now' = IF Now.at = "S" THEN [Now EXCEPT !.cipher = @ \cup {i}]
               ELSE [Now EXCEPT !.clear = @ \cup {i}]
    <2>1. CASE OneMount("S")
      <3>1. At = "S" /\ mtab # <<>> /\ Mounted("S") /\ Top("S").key = hdr.key
        BY <2>1, AtOf, MountSeen DEF OneMount
      <3>2. hdr.key # NoKey
        BY <1>5, <3>1, KeyAssumption DEF TokensInv, SoloInv, HeaderInv, TypeOK, GhostsTypeOK
      <3>3. plain' = plain /\ enc' = [enc EXCEPT ![i] = hdr.key]
        BY <1>2, <3>1 DEF Put
      <3>4. Ciphertext' = Ciphertext \cup {i}
        BY <3>2, <3>3 DEF Ciphertext, TypeOK, DiskTypeOK
      <3> PICK x : x = [Now EXCEPT !.cipher = @ \cup {i}]
        OBVIOUS
      <3>6. /\ x.clear = plain /\ x.cipher = Ciphertext \cup {i} /\ x.priv = privDir
            /\ x.stat = hdr.stat /\ x.pass = hdr.pass /\ x.at = At /\ x.rec = recDir
            /\ x \in Store!Storage
        BY NowFields, NowIsStorage DEF Store!Storage
      <3>7. Is(x)'
        BY <1>2, <3>3, <3>4, <3>6 DEF Is, HeaderIs, At
      <3>5. Now' = [Now EXCEPT !.cipher = @ \cup {i}]
        BY <3>6, <3>7, IsNext
      <3> QED BY <3>1, <3>5, NowFields
    <2>2. CASE ~OneMount("S")
      <3>1. plain' = plain \cup {i} /\ enc' = enc
        BY <1>2, <2>2, AppPuts
      <3>2. At # "S"
        BY <2>2, AtOf DEF SoloInv, ViewInv, Points
      <3> PICK x : x = [Now EXCEPT !.clear = @ \cup {i}]
        OBVIOUS
      <3>4. /\ x.clear = plain \cup {i} /\ x.cipher = Ciphertext /\ x.priv = privDir
            /\ x.stat = hdr.stat /\ x.pass = hdr.pass /\ x.at = At /\ x.rec = recDir
            /\ x \in Store!Storage
        BY NowFields, NowIsStorage DEF Store!Storage
      <3>5. Is(x)'
        BY <1>2, <3>1, <3>4 DEF Is, HeaderIs, At, Ciphertext
      <3>3. Now' = [Now EXCEPT !.clear = @ \cup {i}]
        BY <3>4, <3>5, IsNext
      <3> QED BY <3>2, <3>3, NowFields
    <2> QED BY <2>1, <2>2
  <1>10. Store!AppWrite(i)
    BY <1>2, <1>3, <1>4, <1>8, <1>9 DEF Store!AppWrite, Store!Running
  <1> QED BY <1>7, <1>10 DEF Seen, Store!Next

LEMMA StutterSeen ==
  ASSUME HInv, UNCHANGED hvars
  PROVE  HInv' /\ Seen
PROOF
  <1>1. UNCHANGED <<plain, privDir, enc, hdr, recDir, mtab, keyring, pc, call, phase, hcopy,
                    work, bad, ret, faults, before, failed, how>>
    BY DEF hvars, vars, disk, kernel, procs, budget
  <1>2. UNCHANGED <<Shown, call[Caller], Said>>
    BY <1>1 DEF Shown, Said, Quiet, Now, Ciphertext
  <1>3. ASSUME NEW p \in Procs PROVE CallInv(p)'
    <2>1. CallInv(p)
      BY DEF HInv
    <2>2. TokensInv(p)' /\ ListInv(p)'
      BY <1>1, <2>1 DEF CallInv, TokensInv, ListInv, Readable, Tokens, OneMount, Op
    <2>3. SoFar(p)' <=> SoFar(p)
      BY <1>1 DEF SoFar, BeforeInv, CreateSoFar, UnlockSoFar, LockSoFar, ChangeSoFar, RemoveSoFar,
         RecoverSoFar, DestroySoFar, RemovalSoFar, Fresh, Is, HeaderIs, At, Ciphertext, Op,
         Opens, Collides, Gathers, Returning
    <2> QED BY <1>1, <2>1, <2>2, <2>3 DEF CallInv
  <1> QED BY <1>2, <1>3 DEF HInv, Seen

LEMMA InitSeen ==
  ASSUME OneCaller, HInit
  PROVE  HInv /\ Store!Init
PROOF
  <1>1. Init /\ before = NotRunning /\ failed = 0 /\ how = "clean"
    BY DEF HInit
  <1>2. Caller \in Procs /\ (Quiet <=> pc[Caller] = "idle")
    BY CallerIs
  <1>3. Quiet /\ ret[Caller] = "none" /\ call[Caller] = NoCall
    BY <1>1, <1>2 DEF Init
  <1>4. Now = Store!InTheClear(InitialItems)
    BY <1>1 DEF Init, NoHeader, Now, Ciphertext, Store!InTheClear
  <1>5. Store!Init
    BY <1>1, <1>3, <1>4 DEF Store!Init, Store!NoCall, NoCall
  <1>6. ASSUME NEW p \in Procs PROVE CallInv(p)
    BY <1>1 DEF Init, CallInv, TokensInv, ListInv
  <1> QED BY <1>5, <1>6 DEF HInv

\* Each step of the library is one of SecureStore, or none.
LEMMA NextSeen ==
  ASSUME OneCaller, ~AppsDuringCalls, TypeOK, SoloInv, HInv, [HNext]_hvars
  PROVE  HInv' /\ Seen
PROOF
  <1>1. CASE UNCHANGED hvars
    BY <1>1, StutterSeen
  <1>2. CASE HNext
    <2>1. Next /\ Remember
      BY <1>2, HNextIs
    <2>2. TypeOK' /\ SoloInv'
      BY <2>1, TypeStep, SoloStep
    <2>3. \A p \in Procs : p = Caller
      BY CallerIs
    <2>4. \/ Step(Caller) \/ Kill(Caller) \/ \E c \in CallArgs : Start(Caller, c)
          \/ Reboot \/ \E i \in Items : AppWrite(i)
      BY <2>1, <2>3 DEF Next
    <2> QED BY <2>1, <2>2, <2>4, StepSeen, KillSeen, StartSeen, RebootSeen, AppWriteSeen
  <1> QED BY <1>1, <1>2

\* EfsStorage implements SecureStore.  For one caller, and applications that
\* write between its calls, each call of the library is one atomic change of
\* the storage: while it runs its callers see nothing of it, and when it
\* returns, fails or dies at any of its steps, the storage, the code and the way
\* it went are together one of the outcomes EfsCalls lists for that call on the
\* storage it started on.
THEOREM SecureStoreImplemented ==
  ASSUME OneCaller, ~AppsDuringCalls
  PROVE  HSpec => ImplementsSecureStore
PROOF
  <1>1. HInit => TypeOK /\ SoloInv /\ HInv /\ Store!Init
    BY InitSeen, TypeInit, SoloInit DEF HInit
  <1>2. TypeOK /\ SoloInv /\ HInv /\ [HNext]_hvars => (TypeOK /\ SoloInv /\ HInv)'
    <2> SUFFICES ASSUME TypeOK, SoloInv, HInv, [HNext]_hvars PROVE (TypeOK /\ SoloInv /\ HInv)'
      OBVIOUS
    <2>1. [Next]_vars
      BY HNextIs DEF hvars
    <2> QED BY <2>1, NextSeen, TypeStep, SoloStep
  <1>3. TypeOK /\ SoloInv /\ HInv /\ [HNext]_hvars => 
          [Store!Next]_<<IF Quiet THEN Now ELSE before, call[Caller],
             [code |-> IF Quiet THEN ret[Caller] ELSE "running", how |-> how]>>
    BY NextSeen DEF Seen, Shown, Said
  <1> QED BY <1>1, <1>2, <1>3, PTL DEF HSpec, ImplementsSecureStore, Store!Spec

=============================================================================
