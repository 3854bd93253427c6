------------------------- MODULE EfsInvariants_proofs -------------------------
(* For every value of the constants: any number of processes, items,          *)
(* passwords, keys, failures, kills and restarts.  Every variable of          *)
(* EfsStorage stays in its set; processes that create, unlock and lock one    *)
(* storage lose no data; with every call allowed, nothing is mounted without  *)
(* a password that has protected its master key; and with one caller every    *)
(* call keeps its promise.                                                    *)
EXTENDS EfsInvariants, SequenceFacts

-----------------------------------------------------------------------------
(* The mount table is searched for its first and its last matching line.    *)

LEMMA ListedType ==
  ASSUME KernelTypeOK, NEW pt
  PROVE  Listed(pt) \in SUBSET (1..Len(mtab)) /\ Mounts(pt) \in SUBSET (1..Len(mtab))
PROOF BY DEF Listed, Mounts

\* The topmost mount of a path is a line of the table.
LEMMA TopType ==
  ASSUME KernelTypeOK, NEW pt, Mounted(pt)
  PROVE  Top(pt) \in Entry
PROOF
  <1>1. Mounts(pt) \in SUBSET (1..Len(mtab)) /\ Len(mtab) \in Nat
    BY ListedType DEF KernelTypeOK
  <1>2. \E n \in Mounts(pt) : \A m \in Mounts(pt) : m <= n
    BY <1>1, MaxExists DEF Mounted
  <1>3. (CHOOSE n \in Mounts(pt) : \A m \in Mounts(pt) : m <= n) \in 1..Len(mtab)
    BY <1>1, <1>2
  <1> QED BY <1>3 DEF Top, KernelTypeOK

\* The line umount_ecryptfs reads the signatures from is a line of the table.
FirstLine(pt) == CHOOSE n \in Listed(pt) : \A m \in Listed(pt) : n <= m
LEMMA FirstLineType ==
  ASSUME KernelTypeOK, NEW pt, Listed(pt) # {}
  PROVE  mtab[FirstLine(pt)] \in Entry
PROOF
  <1>1. Listed(pt) \in SUBSET Nat /\ Listed(pt) \in SUBSET (1..Len(mtab))
    BY ListedType
  <1>2. \E n \in Listed(pt) : \A m \in Listed(pt) : n <= m
    BY <1>1, MinExists
  <1>3. FirstLine(pt) \in 1..Len(mtab)
    BY <1>1, <1>2 DEF FirstLine
  <1> QED BY <1>3 DEF KernelTypeOK

\* umount leaves a table one line shorter.
LEMMA WithoutType ==
  ASSUME KernelTypeOK, NEW n \in 1..Len(mtab)
  PROVE  Without(n) \in Seq(Entry) /\ Len(Without(n)) = Len(mtab) - 1
PROOF
  <1>1. Len(mtab) \in Nat /\ Len(mtab) - 1 \in Nat
    BY DEF KernelTypeOK
  <1>2. ASSUME NEW m \in 1..(Len(mtab) - 1)
        PROVE  Without(n)[m] \in Entry
    BY <1>1 DEF Without, KernelTypeOK
  <1>3. Without(n) \in [1..(Len(mtab) - 1) -> Entry]
    BY <1>2 DEF Without
  <1> QED BY <1>1, <1>3

-----------------------------------------------------------------------------
(* Type correctness: the parts that do not move, then the helpers.          *)

LEMMA CallFields ==
  ASSUME ProcsTypeOK, NEW p \in Procs
  PROVE  /\ call[p].pw \in Passwords \cup {NoPassword}
         /\ call[p].new \in Passwords \cup {NoPassword}
         /\ call[p].op \in ApiCalls \cup {"none"}
PROOF
  <1>1. call[p] \in CallArgs \cup {NoCall}
    BY DEF ProcsTypeOK
  <1> QED BY <1>1 DEF CallArgs, NoCall, ApiCalls

LEMMA PointType ==
  ASSUME ProcsTypeOK, NEW p \in Procs
  PROVE  PointOf[Op(p)] \in Points
PROOF BY CallFields DEF PointOf, Op, ApiCalls, Points

LEMMA NoHeaderType == NoHeader \in Header
PROOF BY DEF NoHeader, Header

\* The local changes made to a copy of the header keep it a header.
LEMMA HeaderUpdate ==
  ASSUME NEW h \in Header
  PROVE  /\ [h EXCEPT !.stat = "completed"] \in Header
         /\ \A w \in Passwords \cup {NoPassword} : [h EXCEPT !.pass = w] \in Header
         /\ \A k \in Keys \cup {NoKey} : [h EXCEPT !.key = k] \in Header
PROOF BY DEF Header

\* Lines whose ciphertext is gone are lines.
LEMMA DeadLines ==
  ASSUME KernelTypeOK
  PROVE  [n \in 1..Len(mtab) |-> [mtab[n] EXCEPT !.live = FALSE]] \in Seq(Entry)
PROOF
  <1>1. Len(mtab) \in Nat
    BY DEF KernelTypeOK
  <1>2. ASSUME NEW n \in 1..Len(mtab)
        PROVE  [mtab[n] EXCEPT !.live = FALSE] \in Entry
    <2>1. mtab[n] \in Entry
      BY DEF KernelTypeOK
    <2> QED BY <2>1 DEF Entry
  <1> DEFINE dead == [n \in 1..Len(mtab) |-> [mtab[n] EXCEPT !.live = FALSE]]
  <1>3. dead \in [1..Len(mtab) -> Entry]
    BY <1>2
  <1> HIDE DEF dead
  <1>4. dead \in Seq(Entry)
    BY <1>1, <1>3
  <1> QED BY <1>4 DEF dead

LEMMA GotoType ==
  ASSUME ProcsTypeOK, NEW p \in Procs, NEW step \in Steps, Goto(p, step)
  PROVE  ProcsTypeOK'
PROOF BY DEF ProcsTypeOK, Goto

LEMMA FinishType ==
  ASSUME ProcsTypeOK, NEW p \in Procs, NEW code \in Codes, Finish(p, code)
  PROVE  ProcsTypeOK'
PROOF BY NoHeaderType DEF ProcsTypeOK, Finish, Steps, Phases

LEMMA EnterType ==
  ASSUME ProcsTypeOK, NEW p \in Procs, NEW f \in Phases, NEW step \in Steps,
         Enter(p, f, step)
  PROVE  ProcsTypeOK'
PROOF BY DEF ProcsTypeOK, Enter

\* A step that sets p's copy of the header, or its list, and its program counter.
LEMMA CopyType ==
  ASSUME ProcsTypeOK, NEW p \in Procs, NEW h \in Header, NEW step \in Steps,
         hcopy' = [hcopy EXCEPT ![p] = h], pc' = [pc EXCEPT ![p] = step],
         UNCHANGED <<call, phase, work, bad, ret>>
  PROVE  ProcsTypeOK'
PROOF BY DEF ProcsTypeOK

LEMMA MountDoneType ==
  ASSUME ProcsTypeOK, NEW p \in Procs, MountDone(p) \/ MountFailed(p) \/ CopyFailed(p)
  PROVE  ProcsTypeOK'
PROOF BY GotoType, FinishType, EnterType
      DEF MountDone, MountFailed, CopyFailed, Steps, Codes, Phases

LEMMA UmountDoneType ==
  ASSUME ProcsTypeOK, NEW p \in Procs, NEW ok \in BOOLEAN, UmountDone(p, ok)
  PROVE  ProcsTypeOK'
PROOF BY GotoType, FinishType, EnterType DEF UmountDone, Steps, Codes, Phases

LEMMA RemoveDoneType ==
  ASSUME ProcsTypeOK, NEW p \in Procs, NEW ok \in BOOLEAN,
         RemoveDone(p, ok) \/ RmdirDone(p, ok)
  PROVE  ProcsTypeOK'
PROOF BY GotoType, FinishType, EnterType DEF RemoveDone, RmdirDone, Steps, Codes, Phases

LEMMA PutType ==
  ASSUME DiskTypeOK, KernelTypeOK, NEW pt, NEW i \in Items, Put(pt, i) \/ Drop(pt, i)
  PROVE  plain' \subseteq Items /\ enc' \in [Items -> Keys \cup {NoKey, Clear}]
PROOF
  <1>1. Mounted(pt) => Top(pt).key \in Keys \cup {NoKey}
    BY TopType DEF Entry
  <1> QED BY <1>1 DEF DiskTypeOK, Put, Drop

LEMMA FaultType ==
  ASSUME BudgetTypeOK, NEW kind, Fault(kind)
  PROVE  faults' \in Nat
PROOF BY DEF BudgetTypeOK, Fault

LEMMA WriteFailsType ==
  ASSUME TypeOK, NEW p \in Procs, WriteFails(p)
  PROVE  hdr' \in Header /\ ProcsTypeOK' /\ faults' \in Nat
PROOF
  <1>1. ProcsTypeOK'
    BY FinishType DEF WriteFails, TypeOK, Codes
  <1>2. hdr' \in Header
    BY NoHeaderType DEF WriteFails, TypeOK, DiskTypeOK, Header, NoHeader
  <1> QED BY <1>1, <1>2, FaultType DEF WriteFails, TypeOK

(* One lemma per action: the step keeps every variable in its set.          *)

LEMMA StartType ==
  ASSUME TypeOK, NEW p \in Procs, NEW c \in CallArgs, Start(p, c)
  PROVE  TypeOK'
PROOF
  <1>1. c.op \in ApiCalls
    BY DEF CallArgs, ApiCalls
  <1>2. FirstStep[c.op] \in Steps
    BY <1>1 DEF ApiCalls, FirstStep, Steps
  <1>3. ProcsTypeOK'
    BY <1>2 DEF Start, TypeOK, ProcsTypeOK, Phases, Codes
  <1> QED BY <1>3 DEF Start, TypeOK, DiskTypeOK, KernelTypeOK, GhostsTypeOK,
                      BudgetTypeOK, disk, kernel, ghosts, budget

LEMMA CreateChecksType ==
  ASSUME TypeOK, NEW p \in Procs, CreateChecks(p)
  PROVE  TypeOK'
PROOF
  <1>1. ProcsTypeOK'
    BY GotoType, FinishType DEF CreateChecks, TypeOK, Steps, Codes
  <1>2. BudgetTypeOK'
    BY FaultType DEF CreateChecks, TypeOK, BudgetTypeOK
  <1> QED BY <1>1, <1>2 DEF CreateChecks, TypeOK, DiskTypeOK, disk, KernelTypeOK, kernel, GhostsTypeOK, ghosts

LEMMA UnlockChecksType ==
  ASSUME TypeOK, NEW p \in Procs, UnlockChecks(p)
  PROVE  TypeOK'
PROOF
  <1>1. ProcsTypeOK'
    BY GotoType, FinishType DEF UnlockChecks, TypeOK, Steps, Codes
  <1>2. BudgetTypeOK'
    BY FaultType DEF UnlockChecks, TypeOK, BudgetTypeOK, budget
  <1> QED BY <1>1, <1>2 DEF UnlockChecks, TypeOK, DiskTypeOK, disk, KernelTypeOK, kernel, GhostsTypeOK, ghosts

LEMMA RecoverChecksType ==
  ASSUME TypeOK, NEW p \in Procs, RecoverChecks(p)
  PROVE  TypeOK'
PROOF
  <1>1. ProcsTypeOK'
    BY GotoType, FinishType DEF RecoverChecks, TypeOK, Steps, Codes
  <1>2. BudgetTypeOK'
    BY FaultType DEF RecoverChecks, TypeOK, BudgetTypeOK
  <1> QED BY <1>1, <1>2 DEF RecoverChecks, TypeOK, DiskTypeOK, disk, KernelTypeOK, kernel, GhostsTypeOK, ghosts

LEMMA MakeRecoveryDirType ==
  ASSUME TypeOK, NEW p \in Procs, MakeRecoveryDir(p)
  PROVE  TypeOK'
PROOF
  <1>1. ProcsTypeOK'
    BY GotoType, FinishType DEF MakeRecoveryDir, TypeOK, Steps, Codes
  <1>2. DiskTypeOK'
    BY DEF MakeRecoveryDir, TypeOK, DiskTypeOK
  <1>3. BudgetTypeOK'
    BY FaultType DEF MakeRecoveryDir, TypeOK, BudgetTypeOK
  <1> QED BY <1>1, <1>2, <1>3 DEF MakeRecoveryDir, TypeOK, KernelTypeOK, kernel, GhostsTypeOK, ghosts

LEMMA RemoveChecksType ==
  ASSUME TypeOK, NEW p \in Procs, RemoveChecks(p)
  PROVE  TypeOK'
PROOF
  <1>1. ProcsTypeOK'
    BY EnterType, FinishType DEF RemoveChecks, TypeOK, Steps, Codes, Phases
  <1>2. GhostsTypeOK'
    BY DEF RemoveChecks, TypeOK, GhostsTypeOK
  <1>3. BudgetTypeOK'
    BY FaultType DEF RemoveChecks, TypeOK, BudgetTypeOK
  <1> QED BY <1>1, <1>2, <1>3 DEF RemoveChecks, TypeOK, DiskTypeOK, disk, KernelTypeOK, kernel

LEMMA UnlinkKeyFileType ==
  ASSUME TypeOK, NEW p \in Procs, UnlinkKeyFile(p)
  PROVE  TypeOK'
PROOF
  <1>1. ProcsTypeOK'
    BY FinishType DEF UnlinkKeyFile, TypeOK, Codes
  <1>2. DiskTypeOK'
    BY NoHeaderType DEF UnlinkKeyFile, TypeOK, DiskTypeOK
  <1>3. BudgetTypeOK'
    BY FaultType DEF UnlinkKeyFile, TypeOK, BudgetTypeOK
  <1> QED BY <1>1, <1>2, <1>3 DEF UnlinkKeyFile, TypeOK, KernelTypeOK, kernel, GhostsTypeOK, ghosts

LEMMA MakePrivateDirType ==
  ASSUME TypeOK, NEW p \in Procs, MakePrivateDir(p)
  PROVE  TypeOK'
PROOF
  <1>1. ProcsTypeOK'
    BY GotoType, FinishType DEF MakePrivateDir, TypeOK, Steps, Codes
  <1>2. DiskTypeOK'
    BY DEF MakePrivateDir, TypeOK, DiskTypeOK
  <1>3. BudgetTypeOK'
    BY FaultType DEF MakePrivateDir, TypeOK, BudgetTypeOK
  <1> QED BY <1>1, <1>2, <1>3 DEF MakePrivateDir, TypeOK, KernelTypeOK, kernel, GhostsTypeOK, ghosts

LEMMA WriteNewHeaderType ==
  ASSUME TypeOK, NEW p \in Procs, WriteNewHeader(p)
  PROVE  TypeOK'
PROOF
  <1>1. ProcsTypeOK'
    BY GotoType, FinishType, WriteFailsType DEF WriteNewHeader, TypeOK, Steps, Codes
  <1>2. DiskTypeOK'
    BY CallFields, WriteFailsType DEF WriteNewHeader, TypeOK, DiskTypeOK, Header
  <1>3. GhostsTypeOK'
    BY CallFields DEF WriteNewHeader, WriteFails, TypeOK, GhostsTypeOK
  <1>4. BudgetTypeOK'
    BY FaultType, WriteFailsType DEF WriteNewHeader, TypeOK, BudgetTypeOK
  <1> QED BY <1>1, <1>2, <1>3, <1>4 DEF WriteNewHeader, TypeOK, KernelTypeOK, kernel

LEMMA ReadForStatusType ==
  ASSUME TypeOK, NEW p \in Procs, ReadForStatus(p)
  PROVE  TypeOK'
PROOF
  <1>1. ProcsTypeOK'
    <2> DEFINE h == [hdr EXCEPT !.stat = "completed"]
    <2>1. h \in Header
      BY HeaderUpdate DEF TypeOK, DiskTypeOK
    <2> HIDE DEF h
    <2>2. \/ Finish(p, "err")
          \/ /\ hcopy' = [hcopy EXCEPT ![p] = h] /\ pc' = [pc EXCEPT ![p] = "swrite"]
             /\ UNCHANGED <<call, phase, work, bad, ret>>
      BY DEF ReadForStatus, h
    <2> QED BY <2>1, <2>2, CopyType, FinishType DEF TypeOK, Steps, Codes
  <1>2. BudgetTypeOK'
    BY FaultType DEF ReadForStatus, TypeOK, BudgetTypeOK, budget
  <1> QED BY <1>1, <1>2 DEF ReadForStatus, TypeOK, DiskTypeOK, disk, KernelTypeOK, kernel, GhostsTypeOK, ghosts

LEMMA ReadForChangeType ==
  ASSUME TypeOK, NEW p \in Procs, ReadForChange(p)
  PROVE  TypeOK'
PROOF
  <1>1. ProcsTypeOK'
    <2> DEFINE h == [hdr EXCEPT !.pass = call[p].new]
    <2>1. h \in Header
      BY CallFields, HeaderUpdate DEF TypeOK, DiskTypeOK
    <2> HIDE DEF h
    <2>2. \/ Finish(p, "err")
          \/ /\ hcopy' = [hcopy EXCEPT ![p] = h] /\ pc' = [pc EXCEPT ![p] = "pwrite"]
             /\ UNCHANGED <<call, phase, work, bad, ret>>
      BY DEF ReadForChange, h
    <2> QED BY <2>1, <2>2, CopyType, FinishType DEF TypeOK, Steps, Codes
  <1>2. BudgetTypeOK'
    BY FaultType DEF ReadForChange, TypeOK, BudgetTypeOK, budget
  <1> QED BY <1>1, <1>2 DEF ReadForChange, TypeOK, DiskTypeOK, disk, KernelTypeOK, kernel, GhostsTypeOK, ghosts

LEMMA WriteBackType ==
  ASSUME TypeOK, NEW p \in Procs, WriteBack(p)
  PROVE  TypeOK'
PROOF
  <1>1. ProcsTypeOK'
    BY FinishType, WriteFailsType DEF WriteBack, TypeOK, Codes
  <1>2. DiskTypeOK'
    BY WriteFailsType DEF WriteBack, TypeOK, DiskTypeOK, ProcsTypeOK
  <1>3. GhostsTypeOK'
    BY DEF WriteBack, WriteFails, TypeOK, GhostsTypeOK, ProcsTypeOK, Header
  <1>4. BudgetTypeOK'
    BY FaultType, WriteFailsType DEF WriteBack, TypeOK, BudgetTypeOK
  <1> QED BY <1>1, <1>2, <1>3, <1>4 DEF WriteBack, TypeOK, KernelTypeOK, kernel

LEMMA MountCheckType ==
  ASSUME TypeOK, NEW p \in Procs, MountCheck(p)
  PROVE  TypeOK'
PROOF
  <1>1. ProcsTypeOK'
    BY GotoType, MountDoneType DEF MountCheck, TypeOK, Steps
  <1>2. BudgetTypeOK'
    BY FaultType DEF MountCheck, TypeOK, BudgetTypeOK
  <1> QED BY <1>1, <1>2 DEF MountCheck, TypeOK, DiskTypeOK, disk, KernelTypeOK, kernel, GhostsTypeOK, ghosts

LEMMA MountOpenType ==
  ASSUME TypeOK, NEW p \in Procs, MountOpen(p)
  PROVE  TypeOK'
PROOF
  <1>1. ProcsTypeOK'
    BY MountDoneType DEF MountOpen, TypeOK, DiskTypeOK, ProcsTypeOK, Steps
  <1>2. BudgetTypeOK'
    BY FaultType DEF MountOpen, TypeOK, BudgetTypeOK, budget
  <1> QED BY <1>1, <1>2 DEF MountOpen, TypeOK, DiskTypeOK, disk, KernelTypeOK, kernel, GhostsTypeOK, ghosts

LEMMA MountKeysType ==
  ASSUME TypeOK, NEW p \in Procs, MountKeys(p)
  PROVE  TypeOK'
PROOF
  <1>1. ProcsTypeOK'
    BY GotoType, MountDoneType DEF MountKeys, TypeOK, Steps
  <1>2. KernelTypeOK'
    BY DEF MountKeys, Tokens, TypeOK, KernelTypeOK, ProcsTypeOK, Header
  <1>3. BudgetTypeOK'
    BY FaultType DEF MountKeys, TypeOK, BudgetTypeOK
  <1> QED BY <1>1, <1>2, <1>3 DEF MountKeys, TypeOK, DiskTypeOK, disk, GhostsTypeOK, ghosts

LEMMA MountFsType ==
  ASSUME TypeOK, NEW p \in Procs, MountFs(p)
  PROVE  TypeOK'
PROOF
  <1>1. ProcsTypeOK'
    BY MountDoneType DEF MountFs, TypeOK
  <1>2. KernelTypeOK'
    <2> DEFINE line == [at |-> PointOf[Op(p)], key |-> hcopy[p].key, live |-> TRUE]
    <2>1. line \in Entry
      BY PointType DEF TypeOK, ProcsTypeOK, Header, Entry
    <2>2. mtab' = Append(mtab, line) \/ mtab' = mtab
      BY DEF MountFs
    <2> HIDE DEF line
    <2> QED BY <2>1, <2>2 DEF MountFs, TypeOK, KernelTypeOK
  <1>3. BudgetTypeOK'
    BY FaultType DEF MountFs, TypeOK, BudgetTypeOK
  <1> QED BY <1>1, <1>2, <1>3 DEF MountFs, TypeOK, DiskTypeOK, disk, GhostsTypeOK, ghosts

LEMMA UmountCheckType ==
  ASSUME TypeOK, NEW p \in Procs, UmountCheck(p)
  PROVE  TypeOK'
PROOF
  <1>1. ProcsTypeOK'
    <2> DEFINE h == [hcopy[p] EXCEPT !.key = mtab[FirstLine(PointOf[Op(p)])].key]
    <2>1. \/ \E ok \in BOOLEAN : UmountDone(p, ok)
          \/ /\ Listed(PointOf[Op(p)]) # {} /\ hcopy' = [hcopy EXCEPT ![p] = h]
             /\ pc' = [pc EXCEPT ![p] = "umount"]
             /\ UNCHANGED <<call, phase, work, bad, ret>>
      BY DEF UmountCheck, FirstLine
    <2>2. Listed(PointOf[Op(p)]) # {} => h \in Header
      BY FirstLineType, HeaderUpdate DEF TypeOK, ProcsTypeOK, Entry
    <2> HIDE DEF h
    <2> QED BY <2>1, <2>2, CopyType, UmountDoneType DEF TypeOK, Steps
  <1>2. BudgetTypeOK'
    BY FaultType DEF UmountCheck, TypeOK, BudgetTypeOK
  <1> QED BY <1>1, <1>2 DEF UmountCheck, TypeOK, DiskTypeOK, disk, KernelTypeOK, kernel, GhostsTypeOK, ghosts

LEMMA UmountType ==
  ASSUME TypeOK, NEW p \in Procs, Umount(p)
  PROVE  TypeOK'
PROOF
  <1>1. ProcsTypeOK'
    BY GotoType, UmountDoneType DEF Umount, TypeOK, Steps
  <1>2. KernelTypeOK'
    BY WithoutType, ListedType DEF Umount, TypeOK, KernelTypeOK
  <1>3. BudgetTypeOK'
    BY FaultType DEF Umount, TypeOK, BudgetTypeOK
  <1> QED BY <1>1, <1>2, <1>3 DEF Umount, TypeOK, DiskTypeOK, disk, GhostsTypeOK, ghosts

LEMMA UmountKeysType ==
  ASSUME TypeOK, NEW p \in Procs, UmountKeys(p)
  PROVE  TypeOK'
PROOF
  <1>1. ProcsTypeOK'
    BY UmountDoneType DEF UmountKeys, TypeOK
  <1>2. KernelTypeOK'
    BY DEF UmountKeys, TypeOK, KernelTypeOK
  <1>3. BudgetTypeOK'
    BY FaultType DEF UmountKeys, TypeOK, BudgetTypeOK, budget
  <1> QED BY <1>1, <1>2, <1>3 DEF UmountKeys, TypeOK, DiskTypeOK, disk, GhostsTypeOK, ghosts

LEMMA ListForCopyType ==
  ASSUME TypeOK, NEW p \in Procs, ListForCopy(p)
  PROVE  TypeOK'
PROOF
  <1>1. ProcsTypeOK'
    BY MountDoneType DEF ListForCopy, TypeOK, DiskTypeOK, ProcsTypeOK, Visible, Ciphertext, Steps
  <1>2. BudgetTypeOK'
    BY FaultType DEF ListForCopy, TypeOK, BudgetTypeOK
  <1> QED BY <1>1, <1>2 DEF ListForCopy, TypeOK, DiskTypeOK, disk, KernelTypeOK, kernel, GhostsTypeOK, ghosts

LEMMA CopyItemType ==
  ASSUME TypeOK, NEW p \in Procs, CopyItem(p)
  PROVE  TypeOK'
PROOF
  <1>1. ProcsTypeOK'
    BY MountDoneType DEF CopyItem, TypeOK, ProcsTypeOK
  <1>2. DiskTypeOK'
    BY PutType DEF CopyItem, TypeOK, DiskTypeOK, ProcsTypeOK
  <1>3. BudgetTypeOK'
    BY FaultType DEF CopyItem, TypeOK, BudgetTypeOK
  <1> QED BY <1>1, <1>2, <1>3 DEF CopyItem, TypeOK, KernelTypeOK, kernel, GhostsTypeOK, ghosts

LEMMA CopyEndsType ==
  ASSUME TypeOK, NEW p \in Procs, CopyEnds(p)
  PROVE  TypeOK'
PROOF
  <1>1. ProcsTypeOK'
    BY GotoType DEF CopyEnds, TypeOK, Steps
  <1>2. BudgetTypeOK'
    BY FaultType DEF CopyEnds, TypeOK, BudgetTypeOK, budget
  <1> QED BY <1>1, <1>2 DEF CopyEnds, TypeOK, DiskTypeOK, disk, KernelTypeOK, kernel, GhostsTypeOK, ghosts

LEMMA ListForRemovalType ==
  ASSUME TypeOK, NEW p \in Procs, ListForRemoval(p)
  PROVE  TypeOK'
PROOF
  <1>1. ProcsTypeOK'
    <2>1. Visible(ContentOf(p)) \subseteq Items
      BY DEF Visible, Ciphertext, TypeOK, DiskTypeOK
    <2>2. CASE RemoveDone(p, FALSE)
      BY <2>2, RemoveDoneType DEF TypeOK
    <2>3. CASE work' = [work EXCEPT ![p] = Visible(ContentOf(p))]
      BY <2>1, <2>2, <2>3 DEF ListForRemoval, TypeOK, ProcsTypeOK, Steps
    <2> QED BY <2>2, <2>3 DEF ListForRemoval
  <1>2. BudgetTypeOK'
    BY FaultType DEF ListForRemoval, TypeOK, BudgetTypeOK
  <1> QED BY <1>1, <1>2 DEF ListForRemoval, TypeOK, DiskTypeOK, disk, KernelTypeOK, kernel, GhostsTypeOK, ghosts

LEMMA RemoveItemType ==
  ASSUME TypeOK, NEW p \in Procs, RemoveItem(p)
  PROVE  TypeOK'
PROOF
  <1>1. ProcsTypeOK'
    <2>1. PICK i : /\ work' = [work EXCEPT ![p] = @ \ {i}]
                   /\ bad' = bad \/ bad' = [bad EXCEPT ![p] = TRUE]
      BY DEF RemoveItem
    <2>2. work' \in [Procs -> SUBSET Items] /\ bad' \in [Procs -> BOOLEAN]
      BY <2>1 DEF TypeOK, ProcsTypeOK
    <2> QED BY <2>2 DEF RemoveItem, TypeOK, ProcsTypeOK
  <1>2. DiskTypeOK'
    BY PutType DEF RemoveItem, Files, TypeOK, DiskTypeOK, ProcsTypeOK
  <1>3. BudgetTypeOK'
    BY FaultType DEF RemoveItem, TypeOK, BudgetTypeOK
  <1> QED BY <1>1, <1>2, <1>3 DEF RemoveItem, TypeOK, KernelTypeOK, kernel, GhostsTypeOK, ghosts

LEMMA RemovalEndsType ==
  ASSUME TypeOK, NEW p \in Procs, RemovalEnds(p)
  PROVE  TypeOK'
PROOF
  <1>1. ProcsTypeOK'
    BY RemoveDoneType DEF RemovalEnds, TypeOK, ProcsTypeOK
  <1>2. BudgetTypeOK'
    BY FaultType DEF RemovalEnds, TypeOK, BudgetTypeOK, budget
  <1> QED BY <1>1, <1>2 DEF RemovalEnds, TypeOK, DiskTypeOK, disk, KernelTypeOK, kernel, GhostsTypeOK, ghosts

LEMMA RemoveRootType ==
  ASSUME TypeOK, NEW p \in Procs, RemoveRoot(p)
  PROVE  TypeOK'
PROOF
  <1>1. ProcsTypeOK'
    BY RemoveDoneType DEF RemoveRoot, TypeOK
  <1>2. DiskTypeOK'
    BY DEF RemoveRoot, TypeOK, DiskTypeOK
  <1>3. KernelTypeOK'
    BY DeadLines DEF RemoveRoot, TypeOK, KernelTypeOK
  <1>4. BudgetTypeOK'
    BY FaultType DEF RemoveRoot, TypeOK, BudgetTypeOK
  <1> QED BY <1>1, <1>2, <1>3, <1>4 DEF RemoveRoot, TypeOK, GhostsTypeOK, ghosts

LEMMA KillType ==
  ASSUME TypeOK, NEW p \in Procs, Kill(p)
  PROVE  TypeOK'
PROOF
  <1>1. ProcsTypeOK'
    BY FinishType DEF Kill, TypeOK, Codes
  <1>2. BudgetTypeOK'
    BY FaultType DEF Kill, TypeOK, BudgetTypeOK, budget
  <1> QED BY <1>1, <1>2 DEF Kill, TypeOK, DiskTypeOK, disk, KernelTypeOK, kernel, GhostsTypeOK, ghosts

LEMMA RebootType ==
  ASSUME TypeOK, Reboot
  PROVE  TypeOK'
PROOF
  <1>1. ProcsTypeOK'
    BY NoHeaderType DEF Reboot, TypeOK, ProcsTypeOK, Steps, Phases, Codes
  <1>2. KernelTypeOK'
    BY DEF Reboot, KernelTypeOK
  <1>3. BudgetTypeOK'
    BY DEF Reboot, TypeOK, BudgetTypeOK
  <1> QED BY <1>1, <1>2, <1>3 DEF Reboot, TypeOK, DiskTypeOK, GhostsTypeOK, disk, ghosts

LEMMA AppWriteType ==
  ASSUME TypeOK, NEW i \in Items, AppWrite(i)
  PROVE  TypeOK'
PROOF
  <1>1. DiskTypeOK'
    BY PutType DEF AppWrite, TypeOK, DiskTypeOK
  <1>2. ProcsTypeOK'
    BY DEF AppWrite, TypeOK, ProcsTypeOK, procs
  <1>3. GhostsTypeOK' /\ BudgetTypeOK' /\ KernelTypeOK'
    BY DEF AppWrite, TypeOK, GhostsTypeOK, BudgetTypeOK, KernelTypeOK, budget, kernel
  <1> QED BY <1>1, <1>2, <1>3 DEF TypeOK

LEMMA TypeInit == Init => TypeOK
PROOF
  <1> SUFFICES ASSUME Init PROVE TypeOK
    OBVIOUS
  <1>1. DiskTypeOK /\ GhostsTypeOK
    BY ItemsAssumption, NoHeaderType DEF Init, DiskTypeOK, GhostsTypeOK
  <1>2. KernelTypeOK
    BY DEF Init, KernelTypeOK
  <1>3. ProcsTypeOK
    BY NoHeaderType DEF Init, ProcsTypeOK, Steps, Phases, Codes
  <1>4. BudgetTypeOK
    BY DEF Init, BudgetTypeOK
  <1> QED BY <1>1, <1>2, <1>3, <1>4 DEF TypeOK

LEMMA TypeStep == TypeOK /\ [Next]_vars => TypeOK'
PROOF
  <1> SUFFICES ASSUME TypeOK, [Next]_vars PROVE TypeOK'
    OBVIOUS
  <1>1. CASE UNCHANGED vars
    BY <1>1 DEF TypeOK, DiskTypeOK, KernelTypeOK, ProcsTypeOK, GhostsTypeOK, BudgetTypeOK,
                vars, disk, kernel, procs, ghosts, budget
  <1>2. ASSUME NEW p \in Procs, Step(p) PROVE TypeOK'
    BY <1>2, CreateChecksType, MakePrivateDirType, WriteNewHeaderType, UnlockChecksType,
       RecoverChecksType, MakeRecoveryDirType, RemoveChecksType, UnlinkKeyFileType,
       ReadForStatusType, ReadForChangeType, WriteBackType, MountCheckType,
       MountOpenType, MountKeysType, MountFsType, UmountCheckType, UmountType,
       UmountKeysType, ListForCopyType, CopyItemType, CopyEndsType,
       ListForRemovalType, RemoveItemType, RemovalEndsType, RemoveRootType DEF Step
  <1>3. ASSUME NEW p \in Procs, Kill(p) \/ \E c \in CallArgs : Start(p, c)
        PROVE  TypeOK'
    BY <1>3, KillType, StartType
  <1>4. CASE Reboot
    BY <1>4, RebootType
  <1>5. CASE \E i \in Items : AppWrite(i)
    BY <1>5, AppWriteType
  <1> QED BY <1>1, <1>2, <1>3, <1>4, <1>5 DEF Next

\* Every variable stays in its set, whatever the processes, failures and
\* restarts: the invariant TypeOK of the run "implements", for all constants.
THEOREM TypeCorrect == Spec => []TypeOK
PROOF
  <1> QED BY TypeInit, TypeStep, PTL DEF Spec

-----------------------------------------------------------------------------
(* What the processes keep, together.                                        *)
Locals(p) == ControlInv(p) /\ UnlockInv(p) /\ CreationInv(p)

\* A step of p leaves the other processes where they are.
Local(p) ==
  \A q \in Procs \ {p} :
    /\ pc'[q] = pc[q] /\ call'[q] = call[q] /\ phase'[q] = phase[q]
    /\ hcopy'[q] = hcopy[q] /\ work'[q] = work[q] /\ bad'[q] = bad[q]

-----------------------------------------------------------------------------
(* What the control helpers do to p, and to the others.                     *)

LEMMA GotoEffect ==
  ASSUME ProcsTypeOK, NEW p \in Procs, NEW step, Goto(p, step)
  PROVE  /\ Local(p) /\ pc'[p] = step /\ call'[p] = call[p] /\ phase'[p] = phase[p]
         /\ hcopy'[p] = hcopy[p] /\ work'[p] = work[p] /\ bad'[p] = bad[p]
PROOF BY DEF ProcsTypeOK, Goto, Local

LEMMA FinishEffect ==
  ASSUME ProcsTypeOK, NEW p \in Procs, NEW code, Finish(p, code)
  PROVE  Local(p) /\ pc'[p] = "idle" /\ call'[p] = call[p] /\ phase'[p] = "forward"
PROOF BY DEF ProcsTypeOK, Finish, Local

LEMMA EnterEffect ==
  ASSUME ProcsTypeOK, NEW p \in Procs, NEW f, NEW step, Enter(p, f, step)
  PROVE  /\ Local(p) /\ pc'[p] = step /\ call'[p] = call[p] /\ phase'[p] = f
         /\ hcopy'[p] = hcopy[p] /\ work'[p] = {} /\ bad'[p] = FALSE
PROOF BY DEF ProcsTypeOK, Enter, Local

\* A call that returns is bound by nothing.
LEMMA IdleLocals ==
  ASSUME NEW p \in Procs, pc'[p] = "idle", phase'[p] = "forward"
  PROVE  Locals(p)' /\ ~Creator(p)'
PROOF BY DEF Locals, ControlInv, UnlockInv, CreationInv, Creator, Forward

LEMMA FinishLocals ==
  ASSUME ProcsTypeOK, NEW p \in Procs, NEW code, Finish(p, code)
  PROVE  Local(p) /\ Locals(p)' /\ ~Creator(p)'
PROOF BY FinishEffect, IdleLocals

-----------------------------------------------------------------------------
(* Steps that touch nothing shared but the keyring, and steps of a creator.  *)

Same == UNCHANGED <<disk, mtab, data>>

LEMMA FrameLocals ==
  ASSUME Same, NEW p \in Procs, Local(p), NEW q \in Procs \ {p}, Locals(q)
  PROVE  Locals(q)' /\ Creator(q)' = Creator(q)
PROOF
  <1>1. /\ pc'[q] = pc[q] /\ call'[q] = call[q] /\ phase'[q] = phase[q]
        /\ hcopy'[q] = hcopy[q] /\ work'[q] = work[q] /\ bad'[q] = bad[q]
    BY DEF Local
  <1>2. /\ plain' = plain /\ privDir' = privDir /\ enc' = enc /\ hdr' = hdr
        /\ mtab' = mtab /\ data' = data
    BY DEF Same, disk
  <1>3. Decryptable' = Decryptable
    BY <1>2 DEF Decryptable, Readable
  <1>4. Creator(q)' = Creator(q) /\ \A s : Forward(q, s)' = Forward(q, s)
    BY <1>1 DEF Creator, Forward, Op
  <1>5. ControlInv(q)' /\ UnlockInv(q)'
    BY <1>1, <1>2, <1>4 DEF Locals, ControlInv, UnlockInv, Op, StepsOf
  <1>6. CreationInv(q)'
    BY <1>1, <1>2, <1>3, <1>4 DEF Locals, CreationInv, Readable
  <1> QED BY <1>4, <1>5, <1>6 DEF Locals

\* The invariant is kept when only p moves, and p's own part is.
LEMMA QuietStep ==
  ASSUME KeepInv, Same, NEW p \in Procs, Local(p), Locals(p)', Creator(p)' => Creator(p)
  PROVE  KeepInv'
PROOF
  <1>1. /\ plain' = plain /\ privDir' = privDir /\ enc' = enc /\ hdr' = hdr
        /\ mtab' = mtab /\ data' = data
    BY DEF Same, disk
  <1>2. \A q \in Procs : Locals(q)' /\ (Creator(q)' => Creator(q))
    BY FrameLocals DEF KeepInv, Locals
  <1>3. OneCreator' /\ SealedInv'
    BY <1>1, <1>2 DEF KeepInv, OneCreator, SealedInv
  <1>4. TableInv' /\ NothingInClear'
    BY <1>1 DEF KeepInv, TableInv, NothingInClear
  <1>5. Durable' /\ (~privDir' => data' \subseteq plain')
    BY <1>1 DEF KeepInv, Durable, Decryptable, Readable
  <1> QED BY <1>2, <1>3, <1>4, <1>5 DEF KeepInv, Locals

\* While a creation runs there is no other, and no unlock past its checks.
LEMMA OthersStay ==
  ASSUME KeepInv, NEW p \in Procs, Creator(p), Local(p), NEW q \in Procs \ {p}
  PROVE  Locals(q)' /\ ~Creator(q)'
PROOF
  <1>1. /\ pc'[q] = pc[q] /\ call'[q] = call[q] /\ phase'[q] = phase[q]
    BY DEF Local
  <1>2. ~Creator(q) /\ hdr.stat # "completed"
    BY DEF KeepInv, OneCreator, SealedInv
  <1>3. ~Creator(q)' /\ ControlInv(q)'
    BY <1>1, <1>2 DEF KeepInv, ControlInv, Creator, Op, StepsOf
  <1>4. UnlockInv(q)'
    BY <1>1, <1>2 DEF KeepInv, UnlockInv, Op
  <1>5. CreationInv(q)'
    BY <1>3 DEF CreationInv, Forward
  <1> QED BY <1>3, <1>4, <1>5 DEF Locals

\* The invariant after a shared step of a creator p.
LEMMA CreatorStep ==
  ASSUME KeepInv, NEW p \in Procs, Creator(p), Local(p), Locals(p)',
         hdr'.stat = "completed" => privDir' /\ ~Creator(p)',
         TableInv', NothingInClear', Durable', ~privDir' => data' \subseteq plain'
  PROVE  KeepInv'
PROOF
  <1>1. \A q \in Procs \ {p} : Locals(q)' /\ ~Creator(q)'
    BY OthersStay
  <1>2. OneCreator' /\ SealedInv'
    BY <1>1 DEF OneCreator, SealedInv
  <1> QED BY <1>1, <1>2 DEF KeepInv, Locals

-----------------------------------------------------------------------------
(* One lemma per action.                                                    *)

LEMMA StartKeeps ==
  ASSUME TypeOK, KeepInv, KeepingOps, NEW p \in Procs, NEW c \in CallArgs, Start(p, c)
  PROVE  KeepInv'
PROOF
  <1>1. c.op \in {"create", "unlock", "lock"}
    BY DEF CallArgs, KeepingOps
  <1>2. /\ Local(p) /\ pc'[p] = FirstStep[c.op] /\ call'[p] = c
        /\ phase'[p] = "forward"
    BY <1>1 DEF Start, TypeOK, ProcsTypeOK, Local
  <1>3. ~Creator(p)' /\ ControlInv(p)' /\ UnlockInv(p)'
    BY <1>1, <1>2 DEF FirstStep, Creator, ControlInv, UnlockInv, Op, StepsOf
  <1>4. CreationInv(p)'
    BY <1>3 DEF CreationInv, Forward
  <1> QED BY <1>2, <1>3, <1>4, QuietStep DEF Start, Same, Locals, kernel, ghosts

LEMMA CreateChecksKeeps ==
  ASSUME TypeOK, KeepInv, NEW p \in Procs, CreateChecks(p)
  PROVE  KeepInv'
PROOF
  <1>1. Same
    BY DEF CreateChecks, Same, kernel, ghosts
  <1>2. CASE Finish(p, "err")
    BY <1>1, <1>2, FinishLocals, QuietStep DEF TypeOK
  <1>3. CASE Goto(p, "mkpriv")
    <2>1. /\ Local(p) /\ pc'[p] = "mkpriv" /\ call'[p] = call[p] /\ phase'[p] = phase[p]
      BY <1>3, GotoEffect DEF TypeOK
    <2>2. Op(p) = "create" /\ phase[p] = "forward"
      BY DEF CreateChecks, KeepInv, ControlInv, StepsOf, Creator
    <2>3. ~Creator(p)' /\ ControlInv(p)' /\ UnlockInv(p)'
      BY <2>1, <2>2 DEF Creator, ControlInv, UnlockInv, Op, StepsOf
    <2>4. CreationInv(p)'
      BY <2>3 DEF CreationInv, Forward
    <2> QED BY <1>1, <2>1, <2>3, <2>4, QuietStep DEF Locals
  <1> QED BY <1>2, <1>3 DEF CreateChecks

LEMMA UnlockChecksKeeps ==
  ASSUME TypeOK, KeepInv, NEW p \in Procs, UnlockChecks(p)
  PROVE  KeepInv'
PROOF
  <1>1. Same
    BY DEF UnlockChecks, Same, kernel, ghosts
  <1>2. ASSUME NEW code, Finish(p, code) PROVE KeepInv'
    BY <1>1, <1>2, FinishLocals, QuietStep DEF TypeOK
  <1>3. CASE hdr.stat = "completed" /\ Goto(p, "mcheck")
    <2>1. /\ Local(p) /\ pc'[p] = "mcheck" /\ call'[p] = call[p] /\ phase'[p] = phase[p]
          /\ hdr' = hdr
      BY <1>1, <1>3, GotoEffect DEF TypeOK, Same, disk
    <2>2. Op(p) = "unlock" /\ phase[p] = "forward"
      BY DEF UnlockChecks, KeepInv, ControlInv, StepsOf, CleanupSteps
    <2>3. ~Creator(p)' /\ ControlInv(p)' /\ UnlockInv(p)'
      BY <1>3, <2>1, <2>2 DEF Creator, ControlInv, UnlockInv, Op, StepsOf
    <2>4. CreationInv(p)'
      BY <2>3 DEF CreationInv, Forward
    <2> QED BY <1>1, <2>1, <2>3, <2>4, QuietStep DEF Locals
  <1> QED BY <1>2, <1>3 DEF UnlockChecks

LEMMA MakePrivateDirKeeps ==
  ASSUME TypeOK, KeepInv, NEW p \in Procs, MakePrivateDir(p)
  PROVE  KeepInv'
PROOF
  <1>1. CASE Finish(p, "err") /\ UNCHANGED privDir
    BY <1>1, FinishLocals, QuietStep DEF MakePrivateDir, TypeOK, Same, disk, kernel, ghosts
  <1>2. CASE ~privDir /\ privDir' = TRUE /\ Goto(p, "newhdr")
    <2>1. /\ Local(p) /\ pc'[p] = "newhdr" /\ call'[p] = call[p] /\ phase'[p] = phase[p]
          /\ plain' = plain /\ enc' = enc /\ hdr' = hdr /\ mtab' = mtab /\ data' = data
          /\ privDir' = TRUE
      BY <1>2, GotoEffect DEF MakePrivateDir, TypeOK, kernel, ghosts
    <2>2. /\ Op(p) = "create" /\ phase[p] = "forward" /\ pc[p] = "mkpriv"
          /\ hdr.stat # "completed" /\ mtab = <<>> /\ data \subseteq plain
          /\ \A q \in Procs : ~Creator(q)
      BY <1>2 DEF MakePrivateDir, KeepInv, ControlInv, CreationInv, SealedInv, TableInv,
                  StepsOf, Creator
    <2>3. ASSUME NEW q \in Procs \ {p} PROVE Locals(q)' /\ ~Creator(q)'
      <3>1. /\ pc'[q] = pc[q] /\ call'[q] = call[q] /\ phase'[q] = phase[q]
            /\ hcopy'[q] = hcopy[q]
        BY <2>1 DEF Local
      <3>2. ~Creator(q)' /\ ControlInv(q)' /\ UnlockInv(q)'
        BY <2>1, <2>2, <3>1 DEF KeepInv, ControlInv, UnlockInv, Creator, Op, StepsOf
      <3> QED BY <3>2 DEF Locals, CreationInv, Forward
    <2>4. Locals(p)'
      BY <2>1, <2>2 DEF Locals, ControlInv, UnlockInv, CreationInv, Creator, Forward, Op,
                        StepsOf
    <2>5. OneCreator' /\ SealedInv' /\ TableInv'
      BY <2>1, <2>2, <2>3 DEF OneCreator, SealedInv, TableInv
    <2>6. NothingInClear' /\ Durable'
      BY <2>1 DEF KeepInv, NothingInClear, Durable, Decryptable, Readable
    <2> QED BY <2>1, <2>2, <2>3, <2>4, <2>5, <2>6 DEF KeepInv, Locals
  <1> QED BY <1>1, <1>2 DEF MakePrivateDir

LEMMA WriteNewHeaderKeeps ==
  ASSUME TypeOK, KeepInv, NEW p \in Procs, WriteNewHeader(p)
  PROVE  KeepInv'
PROOF
  <1>1. /\ Op(p) = "create" /\ phase[p] = "forward" /\ pc[p] = "newhdr" /\ Creator(p)
        /\ privDir /\ mtab = <<>> /\ data \subseteq plain /\ hdr.stat # "completed"
    BY DEF WriteNewHeader, KeepInv, ControlInv, CreationInv, SealedInv, StepsOf, Creator,
           Forward, CleanupSteps
  <1>2. /\ plain' = plain /\ privDir' = privDir /\ enc' = enc /\ mtab' = mtab
        /\ data' = data
    BY DEF WriteNewHeader, kernel
  <1>3. hdr'.stat # "completed"
    BY <1>1 DEF WriteNewHeader, WriteFails, NoHeader
  <1>4. Local(p) /\ Locals(p)'
    <2>1. CASE Finish(p, "err")
      BY <2>1, FinishLocals DEF TypeOK
    <2>2. CASE Goto(p, "mcheck")
      <3>1. /\ Local(p) /\ pc'[p] = "mcheck" /\ call'[p] = call[p] /\ phase'[p] = phase[p]
        BY <2>2, GotoEffect DEF TypeOK
      <3> QED BY <1>1, <1>2, <3>1 DEF Locals, ControlInv, UnlockInv, CreationInv, Creator,
                                      Forward, Op, StepsOf
    <2> QED BY <2>1, <2>2 DEF WriteNewHeader, WriteFails
  <1>5. TableInv' /\ NothingInClear' /\ Durable'
    BY <1>1, <1>2 DEF KeepInv, TableInv, NothingInClear, Durable
  <1> QED BY <1>1, <1>2, <1>3, <1>4, <1>5, CreatorStep

LEMMA ReadForStatusKeeps ==
  ASSUME TypeOK, KeepInv, NEW p \in Procs, ReadForStatus(p)
  PROVE  KeepInv'
PROOF
  <1>1. Same
    BY DEF ReadForStatus, Same, kernel, ghosts
  <1>2. CASE Finish(p, "err")
    BY <1>1, <1>2, FinishLocals, QuietStep DEF TypeOK
  <1>3. CASE pc' = [pc EXCEPT ![p] = "swrite"]
    <2> DEFINE h == [hdr EXCEPT !.stat = "completed"]
    <2>1. h.stat = "completed" /\ h.key = hdr.key
      BY DEF TypeOK, DiskTypeOK, Header
    <2>2. hcopy' = [hcopy EXCEPT ![p] = h] /\ UNCHANGED <<call, phase, work, bad>>
      BY <1>3, FinishEffect DEF ReadForStatus, TypeOK, ProcsTypeOK
    <2> HIDE DEF h
    <2>3. /\ Local(p) /\ pc'[p] = "swrite" /\ hcopy'[p] = h
          /\ call'[p] = call[p] /\ phase'[p] = phase[p]
      BY <1>3, <2>2 DEF TypeOK, ProcsTypeOK, Local
    <2>4. /\ Op(p) = "create" /\ phase[p] = "forward" /\ Creator(p) /\ pc[p] = "sread"
          /\ privDir /\ Readable(hdr) /\ data \subseteq Decryptable /\ plain = {}
      BY DEF ReadForStatus, KeepInv, ControlInv, CreationInv, StepsOf, Creator, Forward,
             CleanupSteps
    <2>5. /\ plain' = plain /\ privDir' = privDir /\ enc' = enc /\ hdr' = hdr
          /\ mtab' = mtab /\ data' = data
      BY <1>1 DEF Same, disk
    <2>6. Locals(p)' /\ Creator(p)
      BY <2>1, <2>3, <2>4, <2>5 DEF Locals, ControlInv, UnlockInv, CreationInv, Creator,
         Forward, Op, StepsOf, Readable, Decryptable
    <2> QED BY <1>1, <2>3, <2>6, QuietStep
  <1> QED BY <1>2, <1>3 DEF ReadForStatus

LEMMA WriteBackKeeps ==
  ASSUME TypeOK, KeepInv, NEW p \in Procs, WriteBack(p)
  PROVE  KeepInv'
PROOF
  <1>1. /\ Op(p) = "create" /\ phase[p] = "forward" /\ pc[p] = "swrite" /\ Creator(p)
        /\ privDir /\ Readable(hdr) /\ data \subseteq Decryptable
        /\ Readable(hcopy[p]) /\ hcopy[p].key = hdr.key
    BY DEF WriteBack, KeepInv, ControlInv, CreationInv, StepsOf, Creator, Forward,
           CleanupSteps
  <1>2. /\ plain' = plain /\ privDir' = privDir /\ enc' = enc /\ mtab' = mtab
        /\ data' = data
    BY DEF WriteBack, kernel
  <1>3. Local(p) /\ Locals(p)' /\ ~Creator(p)'
    BY FinishLocals DEF WriteBack, WriteFails, TypeOK
  <1>4. Readable(hdr') /\ hdr'.key = hdr.key
    BY <1>1 DEF WriteBack, WriteFails, Readable
  <1>5. TableInv' /\ NothingInClear' /\ Durable'
    <2>1. TableInv'
      <3>1. hdr.stat # "completed"
        BY <1>1 DEF KeepInv, SealedInv
      <3> QED BY <1>2, <3>1 DEF KeepInv, TableInv
    <2>2. NothingInClear' /\ Durable'
      BY <1>1, <1>2, <1>4 DEF KeepInv, NothingInClear, Durable, Decryptable
    <2> QED BY <2>1, <2>2
  <1> QED BY <1>1, <1>2, <1>3, <1>5, CreatorStep DEF KeepInv
-----------------------------------------------------------------------------
(* Mounting.                                                                *)

MountSteps == {"mcheck", "mopen", "mkeys", "mount"}

\* Only creations and unlocks mount, and only on their way forward.
LEMMA MountPlace ==
  ASSUME KeepInv, NEW p \in Procs, pc[p] \in MountSteps
  PROVE  /\ Op(p) \in {"create", "unlock"} /\ phase[p] = "forward"
         /\ (Creator(p) <=> Op(p) = "create")
         /\ Creator(p) => privDir /\ mtab = <<>> /\ data \subseteq plain
PROOF
  <1>1. Op(p) \in {"create", "unlock"} /\ phase[p] = "forward"
    BY DEF KeepInv, ControlInv, StepsOf, CleanupSteps, MountSteps
  <1> QED BY <1>1 DEF KeepInv, CreationInv, Creator, Forward, MountSteps

LEMMA MountFailedLocals ==
  ASSUME ProcsTypeOK, NEW p \in Procs, Op(p) # "recover", MountFailed(p)
  PROVE  Local(p) /\ Locals(p)' /\ ~Creator(p)'
PROOF BY FinishLocals DEF MountFailed

\* A failed mount that has changed no more than the keyring.
LEMMA MountFailedKeeps ==
  ASSUME ProcsTypeOK, KeepInv, NEW p \in Procs, pc[p] \in MountSteps, MountFailed(p), Same
  PROVE  KeepInv'
PROOF BY MountPlace, MountFailedLocals, QuietStep

LEMMA MountCheckKeeps ==
  ASSUME TypeOK, KeepInv, NEW p \in Procs, MountCheck(p)
  PROVE  KeepInv'
PROOF
  <1>1. Same
    BY DEF MountCheck, Same, kernel, ghosts
  <1>2. /\ Op(p) \in {"create", "unlock"} /\ phase[p] = "forward" /\ pc[p] = "mcheck"
        /\ (Creator(p) <=> Op(p) = "create")
        /\ Creator(p) => privDir /\ mtab = <<>> /\ data \subseteq plain
    BY MountPlace DEF MountCheck, MountSteps
  <1>3. CASE Goto(p, "mopen")
    <2>1. /\ Local(p) /\ pc'[p] = "mopen" /\ call'[p] = call[p] /\ phase'[p] = phase[p]
      BY <1>3, GotoEffect DEF TypeOK
    <2>2. /\ plain' = plain /\ privDir' = privDir /\ hdr' = hdr
          /\ mtab' = mtab /\ data' = data
      BY <1>1 DEF Same, disk
    <2>3. Locals(p)' /\ (Creator(p)' => Creator(p))
      <3>1. ControlInv(p)' /\ UnlockInv(p)' /\ (Creator(p)' => Creator(p))
        BY <1>2, <2>1, <2>2 DEF KeepInv, ControlInv, UnlockInv, Creator, Op, StepsOf
      <3>2. CreationInv(p)'
        BY <1>2, <2>1, <2>2, <3>1 DEF CreationInv, Forward
      <3> QED BY <3>1, <3>2 DEF Locals
    <2> QED BY <1>1, <2>1, <2>3, QuietStep
  <1>4. CASE Listed("P") # {} /\ MountDone(p)
    <2>1. mtab # <<>>
      BY <1>4 DEF Listed
    <2>2. Op(p) = "unlock"
      BY <1>2, <2>1
    <2> QED BY <1>1, <1>4, <2>2, FinishLocals, QuietStep DEF MountDone, TypeOK
  <1> QED BY <1>3, <1>4 DEF MountCheck

LEMMA MountOpenKeeps ==
  ASSUME TypeOK, KeepInv, NEW p \in Procs, MountOpen(p)
  PROVE  KeepInv'
PROOF
  <1>1. Same
    BY DEF MountOpen, Same, kernel, ghosts
  <1>2. /\ Op(p) \in {"create", "unlock"} /\ phase[p] = "forward" /\ pc[p] = "mopen"
        /\ (Creator(p) <=> Op(p) = "create")
        /\ Creator(p) => privDir /\ mtab = <<>> /\ data \subseteq plain
    BY MountPlace DEF MountOpen, MountSteps
  <1>3. CASE MountFailed(p)
    BY <1>1, <1>2, <1>3, MountFailedKeeps DEF MountSteps, TypeOK
  <1>4. CASE /\ Readable(hdr) /\ hcopy' = [hcopy EXCEPT ![p] = hdr]
             /\ pc' = [pc EXCEPT ![p] = "mkeys"]
             /\ UNCHANGED <<call, phase, work, bad, ret>>
    <2>1. /\ Local(p) /\ pc'[p] = "mkeys" /\ call'[p] = call[p] /\ phase'[p] = phase[p]
          /\ hcopy'[p] = hdr
      BY <1>4 DEF TypeOK, ProcsTypeOK, Local
    <2>2. /\ plain' = plain /\ privDir' = privDir /\ hdr' = hdr
          /\ mtab' = mtab /\ data' = data
      BY <1>1 DEF Same, disk
    <2>3. ControlInv(p)' /\ UnlockInv(p)' /\ (Creator(p)' => Creator(p))
      BY <1>2, <2>1, <2>2 DEF KeepInv, ControlInv, UnlockInv, Creator, Op, StepsOf
    <2>4. CreationInv(p)'
      BY <1>2, <1>4, <2>1, <2>2, <2>3 DEF CreationInv, Forward, Readable
    <2> QED BY <1>1, <2>1, <2>3, <2>4, QuietStep DEF Locals
  <1> QED BY <1>3, <1>4 DEF MountOpen

LEMMA MountKeysKeeps ==
  ASSUME TypeOK, KeepInv, NEW p \in Procs, MountKeys(p)
  PROVE  KeepInv'
PROOF
  <1>1. Same
    BY DEF MountKeys, Same, ghosts
  <1>2. /\ Op(p) \in {"create", "unlock"} /\ phase[p] = "forward" /\ pc[p] = "mkeys"
        /\ (Creator(p) <=> Op(p) = "create")
        /\ Creator(p) => privDir /\ mtab = <<>> /\ data \subseteq plain
    BY MountPlace DEF MountKeys, MountSteps
  <1>3. CASE MountFailed(p)
    BY <1>1, <1>2, <1>3, MountFailedKeeps DEF MountSteps, TypeOK
  <1>4. CASE Goto(p, "mount")
    <2>1. /\ Local(p) /\ pc'[p] = "mount" /\ call'[p] = call[p] /\ phase'[p] = phase[p]
          /\ hcopy'[p] = hcopy[p]
      BY <1>4, GotoEffect DEF TypeOK
    <2>2. /\ plain' = plain /\ privDir' = privDir /\ hdr' = hdr
          /\ mtab' = mtab /\ data' = data
      BY <1>1 DEF Same, disk
    <2>3. ControlInv(p)' /\ UnlockInv(p)' /\ (Creator(p)' => Creator(p))
      BY <1>2, <2>1, <2>2 DEF KeepInv, ControlInv, UnlockInv, Creator, Op, StepsOf
    <2>4. Creator(p) => Readable(hdr) /\ hcopy[p].key = hdr.key
      BY <1>2 DEF KeepInv, CreationInv, Forward
    <2>5. CreationInv(p)'
      BY <1>2, <2>1, <2>2, <2>3, <2>4 DEF CreationInv, Forward, Readable
    <2> QED BY <1>1, <2>1, <2>3, <2>5, QuietStep DEF Locals
  <1> QED BY <1>3, <1>4 DEF MountKeys

\* A completed storage has no creator, and its mount table may change freely.
LEMMA SealedStep ==
  ASSUME KeepInv, hdr.stat = "completed", UNCHANGED <<disk, data>>, NEW p \in Procs,
         Local(p), Locals(p)', ~Creator(p)', TableInv'
  PROVE  KeepInv'
PROOF
  <1>1. /\ plain' = plain /\ privDir' = privDir /\ enc' = enc /\ hdr' = hdr /\ data' = data
    BY DEF disk
  <1>2. \A q \in Procs : ~Creator(q)
    BY DEF KeepInv, SealedInv
  <1>3. ASSUME NEW q \in Procs \ {p} PROVE Locals(q)' /\ ~Creator(q)'
    <2>1. /\ pc'[q] = pc[q] /\ call'[q] = call[q] /\ phase'[q] = phase[q]
          /\ hcopy'[q] = hcopy[q]
      BY DEF Local
    <2>2. ~Creator(q)' /\ ControlInv(q)' /\ UnlockInv(q)'
      BY <1>1, <1>2, <2>1 DEF KeepInv, ControlInv, UnlockInv, Creator, Op, StepsOf
    <2> QED BY <2>2 DEF Locals, CreationInv, Forward
  <1>4. OneCreator' /\ SealedInv'
    BY <1>1, <1>3 DEF KeepInv, OneCreator, SealedInv
  <1>5. NothingInClear' /\ Durable' /\ (~privDir' => data' \subseteq plain')
    BY <1>1 DEF KeepInv, NothingInClear, Durable, Decryptable, Readable
  <1> QED BY <1>3, <1>4, <1>5 DEF KeepInv, Locals

\* The table after a mount: what was there, and one more line.
LEMMA MountedTable ==
  ASSUME TypeOK, KeepInv, NEW p \in Procs, pc[p] = "mount", privDir,
         UNCHANGED <<disk, data>>,
         mtab' = Append(mtab, [at |-> PointOf[Op(p)], key |-> hcopy[p].key, live |-> TRUE])
  PROVE  /\ TableInv'
         /\ Op(p) = "create" => /\ Len(mtab') = 1 /\ mtab'[1].at = "P"
                                /\ mtab'[1].key = hdr.key
PROOF
  <1>1. /\ Op(p) \in {"create", "unlock"} /\ phase[p] = "forward"
        /\ (Creator(p) <=> Op(p) = "create") /\ (Creator(p) => mtab = <<>>)
    BY MountPlace DEF MountSteps
  <1> DEFINE e == [at |-> PointOf[Op(p)], key |-> hcopy[p].key, live |-> TRUE]
  <1>2. e.at = PointOf[Op(p)] /\ e.key = hcopy[p].key
    OBVIOUS
  <1> HIDE DEF e
  <1>3. /\ Len(mtab') = Len(mtab) + 1 /\ mtab'[Len(mtab) + 1] = e
        /\ \A n \in 1..Len(mtab) : mtab'[n] = mtab[n]
    BY DEF e, TypeOK, KernelTypeOK
  <1>4. Len(mtab) \in Nat
    BY DEF TypeOK, KernelTypeOK
  <1>5. e.key = hdr.key /\ (Op(p) = "unlock" => hdr.stat = "completed")
    BY <1>1, <1>2 DEF KeepInv, UnlockInv, CreationInv, Forward
  <1>6. e.at = IF Op(p) = "create" THEN "P" ELSE "S"
    BY <1>1, <1>2 DEF PointOf
  <1>7. \A n \in 1..Len(mtab') : n \in 1..Len(mtab) \/ n = Len(mtab) + 1
    BY <1>3, <1>4
  <1>8. hdr' = hdr /\ privDir' = privDir
    BY DEF disk
  <1>9. TableInv'
    BY <1>1, <1>3, <1>5, <1>6, <1>7, <1>8 DEF KeepInv, TableInv
  <1>10. Op(p) = "create" => Len(mtab) = 0
    BY <1>1
  <1> QED BY <1>3, <1>5, <1>6, <1>9, <1>10

LEMMA MountFsKeeps ==
  ASSUME TypeOK, KeepInv, NEW p \in Procs, MountFs(p)
  PROVE  KeepInv'
PROOF
  <1> DEFINE added ==
        mtab' = Append(mtab, [at |-> PointOf[Op(p)], key |-> hcopy[p].key, live |-> TRUE])
  <1>1. pc[p] = "mount" /\ UNCHANGED <<disk, data>>
    BY DEF MountFs, ghosts
  <1>2. /\ Op(p) \in {"create", "unlock"} /\ phase[p] = "forward"
        /\ (Creator(p) <=> Op(p) = "create")
        /\ Creator(p) => privDir /\ mtab = <<>> /\ data \subseteq plain
    BY <1>1, MountPlace DEF MountSteps
  <1>3. CASE MountFailed(p) /\ mtab' = mtab
    BY <1>1, <1>3, MountFailedKeeps DEF MountSteps, TypeOK, Same
  <1>4. CASE privDir /\ added /\ (MountDone(p) \/ MountFailed(p))
    <2>1. /\ TableInv'
          /\ Op(p) = "create" => /\ Len(mtab') = 1 /\ mtab'[1].at = "P"
                                 /\ mtab'[1].key = hdr.key
      BY <1>1, <1>4, MountedTable
    <2>2. /\ plain' = plain /\ privDir' = privDir /\ enc' = enc /\ hdr' = hdr
          /\ data' = data
      BY <1>1 DEF disk
    <2>3. CASE Op(p) = "unlock"
      <3>1. Local(p) /\ Locals(p)' /\ ~Creator(p)'
        BY <1>4, <2>3, FinishLocals DEF MountDone, MountFailed, TypeOK
      <3>2. hdr.stat = "completed"
        BY <1>1, <2>3 DEF KeepInv, UnlockInv
      <3> QED BY <1>1, <2>1, <3>1, <3>2, SealedStep
    <2>4. CASE Op(p) = "create"
      <3>1. Creator(p) /\ Readable(hdr) /\ hcopy[p].key = hdr.key /\ hdr.stat # "completed"
        BY <1>1, <1>2, <2>4 DEF KeepInv, CreationInv, Forward, SealedInv
      <3>2. Local(p) /\ Locals(p)'
        <4>1. CASE MountFailed(p)
          BY <4>1, <1>2, MountFailedLocals DEF TypeOK
        <4>2. CASE MountDone(p)
          <5>1. /\ Local(p) /\ pc'[p] = "list" /\ call'[p] = call[p]
                /\ phase'[p] = phase[p]
            BY <2>4, <4>2, GotoEffect DEF MountDone, TypeOK
          <5>2. ControlInv(p)' /\ UnlockInv(p)'
            BY <1>2, <2>4, <5>1 DEF ControlInv, UnlockInv, Op, StepsOf
          <5>3. CreationInv(p)'
            BY <1>2, <2>1, <2>2, <2>4, <3>1, <5>1 DEF CreationInv, Creator, Forward,
               Op, Readable
          <5> QED BY <5>1, <5>2, <5>3 DEF Locals
        <4> QED BY <1>4, <4>1, <4>2
      <3>3. NothingInClear' /\ Durable' /\ (~privDir' => data' \subseteq plain')
        BY <2>2 DEF KeepInv, NothingInClear, Durable, Decryptable, Readable
      <3> QED BY <2>1, <2>2, <3>1, <3>2, <3>3, CreatorStep
    <2> QED BY <1>2, <2>3, <2>4
  <1> QED BY <1>3, <1>4 DEF MountFs

-----------------------------------------------------------------------------
(* Unmounting.                                                              *)

LEMMA UmountPlace ==
  ASSUME KeepInv, NEW p \in Procs, pc[p] \in {"ucheck", "umount", "ukeys"}
  PROVE  /\ Op(p) \in {"create", "lock"} /\ (Creator(p) <=> Op(p) = "create")
         /\ phase[p] # "forward" => phase[p] = "nocopy" /\ Creator(p)
         /\ Creator(p) => data \subseteq plain
         /\ Creator(p) => privDir
         /\ Creator(p) /\ phase[p] = "forward" =>
              Readable(hdr) /\ plain \subseteq Decryptable
PROOF
  <1>1. /\ Op(p) \in {"create", "lock"} /\ (Creator(p) <=> Op(p) = "create")
        /\ phase[p] # "forward" => phase[p] = "nocopy" /\ Creator(p)
    BY DEF KeepInv, ControlInv, StepsOf, Creator
  <1>2. CreationInv(p)
    BY DEF KeepInv
  <1> QED BY <1>1, <1>2 DEF CreationInv, Forward

LEMMA UmountDoneLocals ==
  ASSUME ProcsTypeOK, KeepInv, NEW p \in Procs, pc[p] \in {"ucheck", "umount", "ukeys"},
         UNCHANGED <<disk, data>>, NEW ok \in BOOLEAN, UmountDone(p, ok)
  PROVE  Local(p) /\ Locals(p)' /\ (Creator(p)' => Creator(p))
PROOF
  <1>1. /\ Op(p) \in {"create", "lock"} /\ (Creator(p) <=> Op(p) = "create")
        /\ phase[p] # "forward" => phase[p] = "nocopy" /\ Creator(p)
        /\ Creator(p) => data \subseteq plain /\ privDir
        /\ Creator(p) /\ phase[p] = "forward" =>
             Readable(hdr) /\ plain \subseteq Decryptable
    BY UmountPlace
  <1>2. /\ plain' = plain /\ privDir' = privDir /\ enc' = enc /\ hdr' = hdr /\ data' = data
    BY DEF disk
  <1>3. Decryptable' = Decryptable
    BY <1>2 DEF Decryptable, Readable
  <1>4. ASSUME NEW code, Finish(p, code) PROVE Local(p) /\ Locals(p)' /\ ~Creator(p)'
    BY <1>4, FinishLocals
  <1>5. CASE Enter(p, "nocopy", "rlist") /\ phase[p] = "nocopy"
    <2>1. /\ Local(p) /\ pc'[p] = "rlist" /\ call'[p] = call[p] /\ phase'[p] = "nocopy"
      BY <1>5, EnterEffect
    <2> QED BY <1>1, <1>2, <1>5, <2>1 DEF Locals, ControlInv, UnlockInv, CreationInv, Creator,
               Forward, Op, StepsOf, CleanupSteps
  <1>6. CASE Enter(p, "forward", "rlist") /\ phase[p] = "forward" /\ Op(p) = "create"
    <2>1. /\ Local(p) /\ pc'[p] = "rlist" /\ call'[p] = call[p] /\ phase'[p] = "forward"
      BY <1>6, EnterEffect
    <2>2. ControlInv(p)' /\ UnlockInv(p)' /\ (Creator(p)' => Creator(p))
      BY <1>1, <1>6, <2>1 DEF ControlInv, UnlockInv, Op, StepsOf, Creator
    <2>3. CreationInv(p)'
      BY <1>1, <1>2, <1>3, <1>6, <2>1 DEF CreationInv, Creator, Forward, Op, Readable
    <2> QED BY <2>1, <2>2, <2>3 DEF Locals
  <1> QED BY <1>1, <1>4, <1>5, <1>6 DEF UmountDone

LEMMA UmountCheckKeeps ==
  ASSUME TypeOK, KeepInv, NEW p \in Procs, UmountCheck(p)
  PROVE  KeepInv'
PROOF
  <1>1. Same /\ pc[p] = "ucheck"
    BY DEF UmountCheck, Same, kernel, ghosts
  <1>2. CASE UmountDone(p, TRUE) \/ UmountDone(p, FALSE)
    BY <1>1, <1>2, UmountDoneLocals, QuietStep DEF TypeOK, Same
  <1>3. CASE /\ \E k : hcopy' = [hcopy EXCEPT ![p].key = k]
             /\ pc' = [pc EXCEPT ![p] = "umount"]
             /\ UNCHANGED <<call, phase, work, bad, ret>>
    <2>1. /\ Local(p) /\ pc'[p] = "umount" /\ call'[p] = call[p] /\ phase'[p] = phase[p]
      BY <1>3 DEF TypeOK, ProcsTypeOK, Local
    <2>2. /\ plain' = plain /\ privDir' = privDir /\ enc' = enc /\ hdr' = hdr
          /\ mtab' = mtab /\ data' = data
      BY <1>1 DEF Same, disk
    <2>3. Decryptable' = Decryptable
      BY <2>2 DEF Decryptable, Readable
    <2>4. ControlInv(p)' /\ UnlockInv(p)' /\ (Creator(p)' => Creator(p))
      BY <1>1, <2>1, <2>2, UmountPlace DEF ControlInv, UnlockInv, Op, StepsOf, Creator,
         CleanupSteps
    <2>5. CreationInv(p)'
      BY <1>1, <2>1, <2>2, <2>3, UmountPlace DEF CreationInv, Creator, Forward, Op, Readable
    <2> QED BY <1>1, <2>1, <2>4, <2>5, QuietStep DEF Locals
  <1> QED BY <1>2, <1>3 DEF UmountCheck

\* The lines of the table without one of them are lines of the table.
LEMMA WithoutLines ==
  ASSUME mtab \in Seq(Entry), NEW n \in 1..Len(mtab), NEW m \in 1..Len(Without(n))
  PROVE  \E j \in 1..Len(mtab) : Without(n)[m] = mtab[j]
PROOF
  <1>1. Len(mtab) \in Nat
    OBVIOUS
  <1>2. m \in 1..(Len(mtab) - 1)
    BY <1>1 DEF Without
  <1>3. Without(n)[m] = IF m < n THEN mtab[m] ELSE mtab[m + 1]
    BY <1>2 DEF Without
  <1> QED BY <1>1, <1>2, <1>3

LEMMA UmountKeeps ==
  ASSUME TypeOK, KeepInv, NEW p \in Procs, Umount(p)
  PROVE  KeepInv'
PROOF
  <1>1. pc[p] = "umount" /\ UNCHANGED <<disk, data>>
    BY DEF Umount, ghosts
  <1>2. /\ Op(p) \in {"create", "lock"} /\ (Creator(p) <=> Op(p) = "create")
        /\ phase[p] # "forward" => phase[p] = "nocopy" /\ Creator(p)
        /\ Creator(p) => data \subseteq plain /\ privDir
        /\ Creator(p) /\ phase[p] = "forward" =>
             Readable(hdr) /\ plain \subseteq Decryptable
    BY <1>1, UmountPlace
  <1>3. /\ plain' = plain /\ privDir' = privDir /\ enc' = enc /\ hdr' = hdr /\ data' = data
    BY <1>1 DEF disk
  <1>4. CASE UmountDone(p, FALSE) /\ mtab' = mtab
    BY <1>1, <1>4, UmountDoneLocals, QuietStep DEF TypeOK, Same
  <1>5. ASSUME Goto(p, "ukeys")
        PROVE  Local(p) /\ Locals(p)' /\ (Creator(p)' <=> Creator(p))
    <2>1. /\ Local(p) /\ pc'[p] = "ukeys" /\ call'[p] = call[p] /\ phase'[p] = phase[p]
      BY <1>5, GotoEffect DEF TypeOK
    <2>2. ControlInv(p)' /\ UnlockInv(p)' /\ (Creator(p)' <=> Creator(p))
      BY <1>1, <1>2, <2>1 DEF ControlInv, UnlockInv, Op, StepsOf, Creator, CleanupSteps
    <2>3. Decryptable' = Decryptable
      BY <1>3 DEF Decryptable, Readable
    <2>4. CreationInv(p)'
      BY <1>2, <1>3, <2>1, <2>3 DEF CreationInv, Creator, Forward, Op, Readable
    <2> QED BY <2>1, <2>2, <2>4 DEF Locals
  <1>6. CASE Goto(p, "ukeys") /\ mtab' = mtab
    BY <1>1, <1>5, <1>6, QuietStep DEF Same
  <1>7. CASE Goto(p, "ukeys") /\ \E n \in Mounts(PointOf[Op(p)]) : mtab' = Without(n)
    <2>1. PICK n \in Mounts(PointOf[Op(p)]) : mtab' = Without(n)
      BY <1>7
    <2>2. n \in 1..Len(mtab) /\ mtab[n].at = PointOf[Op(p)] /\ mtab \in Seq(Entry)
      BY DEF Mounts, TypeOK, KernelTypeOK
    <2>3. privDir
      <3>1. Len(mtab) # 0
        BY <2>2
      <3> QED BY <3>1 DEF KeepInv, TableInv
    <2>4. TableInv'
      <3>1. \A m \in 1..Len(mtab') : \E j \in 1..Len(mtab) : mtab'[m] = mtab[j]
        BY <2>1, <2>2, WithoutLines
      <3> QED BY <1>3, <2>3, <3>1 DEF KeepInv, TableInv
    <2>5. CASE Op(p) = "lock"
      <3>1. hdr.stat = "completed"
        BY <2>2, <2>5 DEF PointOf, KeepInv, TableInv
      <3> QED BY <1>1, <1>2, <1>5, <1>7, <2>4, <2>5, <3>1, SealedStep
    <2>6. CASE Op(p) = "create"
      <3>1. hdr.stat # "completed" /\ Creator(p)
        BY <1>2, <2>6 DEF KeepInv, SealedInv
      <3>2. NothingInClear' /\ Durable' /\ (~privDir' => data' \subseteq plain')
        BY <1>3 DEF KeepInv, NothingInClear, Durable, Decryptable, Readable
      <3> QED BY <1>3, <1>5, <1>7, <2>4, <3>1, <3>2, CreatorStep
    <2> QED BY <1>2, <2>5, <2>6
  <1> QED BY <1>4, <1>6, <1>7 DEF Umount

LEMMA UmountKeysKeeps ==
  ASSUME TypeOK, KeepInv, NEW p \in Procs, UmountKeys(p)
  PROVE  KeepInv'
PROOF
  <1>1. Same /\ pc[p] = "ukeys" /\ UNCHANGED <<disk, data>>
    BY DEF UmountKeys, Same, ghosts
  <1> QED BY <1>1, UmountDoneLocals, QuietStep DEF UmountKeys, TypeOK
-----------------------------------------------------------------------------
(* Copying into the private directory and wiping the storage.               *)

LEMMA CopyPlace ==
  ASSUME KeepInv, NEW p \in Procs, pc[p] \in {"list", "copy"}
  PROVE  /\ Op(p) = "create" /\ phase[p] = "forward" /\ Creator(p) /\ privDir
         /\ Readable(hdr) /\ data \subseteq plain
         /\ Len(mtab) = 1 /\ mtab[1].at = "P" /\ mtab[1].key = hdr.key
PROOF
  <1>1. Op(p) = "create" /\ phase[p] = "forward" /\ Creator(p)
    BY DEF KeepInv, ControlInv, StepsOf, Creator, CleanupSteps
  <1> QED BY <1>1 DEF KeepInv, CreationInv, Forward

LEMMA CopyFailedKeeps ==
  ASSUME TypeOK, KeepInv, NEW p \in Procs, pc[p] \in {"list", "copy"}, Same, CopyFailed(p)
  PROVE  KeepInv'
PROOF
  <1>1. /\ Local(p) /\ pc'[p] = "ucheck" /\ call'[p] = call[p] /\ phase'[p] = "nocopy"
    BY EnterEffect DEF CopyFailed, TypeOK
  <1>2. plain' = plain /\ privDir' = privDir /\ data' = data
    BY DEF Same, disk
  <1>3. Locals(p)' /\ (Creator(p)' => Creator(p))
    BY <1>1, <1>2, CopyPlace DEF Locals, ControlInv, UnlockInv, CreationInv, Creator,
       Forward, Op, StepsOf, CleanupSteps
  <1> QED BY <1>1, <1>3, QuietStep

\* A storage that is being created is not mounted.
LEMMA StorageOpen ==
  ASSUME KeepInv, NEW p \in Procs, Creator(p)
  PROVE  ~Mounted("S") /\ hdr.stat # "completed"
PROOF BY DEF KeepInv, SealedInv, TableInv, Mounted, Mounts

LEMMA ListForCopyKeeps ==
  ASSUME TypeOK, KeepInv, NEW p \in Procs, ListForCopy(p)
  PROVE  KeepInv'
PROOF
  <1>1. Same /\ pc[p] = "list"
    BY DEF ListForCopy, Same, kernel, ghosts
  <1>2. CASE CopyFailed(p)
    BY <1>1, <1>2, CopyFailedKeeps
  <1>3. CASE /\ work' = [work EXCEPT ![p] = Visible(SourceOf(p))]
             /\ pc' = [pc EXCEPT ![p] = "copy"]
             /\ UNCHANGED <<call, phase, hcopy, bad, ret, faults>>
    <2>1. Visible(SourceOf(p)) = plain
      BY <1>1, CopyPlace, StorageOpen DEF SourceOf, Visible
    <2>2. /\ Local(p) /\ pc'[p] = "copy" /\ call'[p] = call[p] /\ phase'[p] = phase[p]
          /\ work'[p] = plain
      BY <1>3, <2>1 DEF TypeOK, ProcsTypeOK, Local
    <2>3. /\ plain' = plain /\ privDir' = privDir /\ hdr' = hdr
          /\ mtab' = mtab /\ data' = data
      BY <1>1 DEF Same, disk
    <2>4. ControlInv(p)' /\ UnlockInv(p)' /\ (Creator(p)' => Creator(p))
      BY <1>1, <2>2, CopyPlace DEF ControlInv, UnlockInv, Op, StepsOf, Creator
    <2>5. CreationInv(p)'
      BY <1>1, <2>2, <2>3, CopyPlace DEF CreationInv, Creator, Forward, Op, Readable
    <2> QED BY <1>1, <2>2, <2>4, <2>5, QuietStep DEF Locals
  <1> QED BY <1>2, <1>3 DEF ListForCopy

\* An item copied into P is encrypted with the key of the key file.
LEMMA CopyEncrypts ==
  ASSUME TypeOK, KeepInv, NEW p \in Procs, pc[p] = "copy", NEW i \in Items,
         Put(TargetOf(p), i)
  PROVE  plain' = plain /\ enc' = [enc EXCEPT ![i] = hdr.key]
PROOF
  <1>1. TargetOf(p) = "P" /\ Len(mtab) = 1 /\ mtab[1].at = "P" /\ mtab[1].key = hdr.key
    BY CopyPlace DEF TargetOf
  <1>2. Mounts("P") = {1}
    BY <1>1 DEF Mounts
  <1>3. Mounted("P") /\ Top("P") = mtab[1]
    BY <1>2 DEF Mounted, Top
  <1> QED BY <1>1, <1>3 DEF Put

LEMMA CopyItemKeeps ==
  ASSUME TypeOK, KeepInv, NEW p \in Procs, CopyItem(p)
  PROVE  KeepInv'
PROOF
  <1>1. /\ pc[p] = "copy" /\ privDir' = privDir /\ hdr' = hdr /\ mtab' = mtab
        /\ data' = data /\ recDir' = recDir
    BY DEF CopyItem, kernel, ghosts
  <1>2. CASE CopyFailed(p) /\ UNCHANGED <<plain, enc>>
    BY <1>1, <1>2, CopyFailedKeeps DEF Same, disk
  <1>3. CASE \E i \in work[p] : /\ Put(TargetOf(p), i)
                                /\ work' = [work EXCEPT ![p] = @ \ {i}]
                                /\ UNCHANGED <<pc, call, phase, hcopy, bad, ret>>
    <2>1. PICK i \in work[p] : /\ Put(TargetOf(p), i)
                               /\ work' = [work EXCEPT ![p] = @ \ {i}]
                               /\ UNCHANGED <<pc, call, phase, hcopy, bad, ret>>
      BY <1>3
    <2>2. i \in Items
      BY DEF TypeOK, ProcsTypeOK
    <2>3. plain' = plain /\ enc' = [enc EXCEPT ![i] = hdr.key]
      BY <1>1, <2>1, <2>2, CopyEncrypts
    <2>4. /\ Local(p) /\ pc'[p] = "copy" /\ call'[p] = call[p] /\ phase'[p] = phase[p]
          /\ hcopy'[p] = hcopy[p] /\ work'[p] = work[p] \ {i}
      BY <1>1, <2>1 DEF TypeOK, ProcsTypeOK, Local
    <2>5. /\ Op(p) = "create" /\ phase[p] = "forward" /\ Creator(p) /\ privDir
          /\ Readable(hdr) /\ data \subseteq plain
          /\ Len(mtab) = 1 /\ mtab[1].at = "P" /\ mtab[1].key = hdr.key
      BY <1>1, CopyPlace
    <2>6. Decryptable' = Decryptable \cup {i}
      BY <1>1, <2>2, <2>3, <2>5 DEF Decryptable, Readable, TypeOK, DiskTypeOK
    <2>7. plain \ work[p] \subseteq Decryptable
      BY <1>1, <2>5 DEF KeepInv, CreationInv, Forward
    <2>8. ControlInv(p)' /\ UnlockInv(p)' /\ (Creator(p)' <=> Creator(p))
      BY <1>1, <2>4, <2>5 DEF ControlInv, UnlockInv, Op, StepsOf, Creator
    <2>9. CreationInv(p)'
      BY <1>1, <2>3, <2>4, <2>5, <2>6, <2>7 DEF CreationInv, Creator, Forward, Op, Readable
    <2>10. NothingInClear'
      <3>1. hdr.key # Clear
        BY KeyAssumption DEF TypeOK, DiskTypeOK, Header
      <3> QED BY <2>2, <2>3, <3>1 DEF KeepInv, NothingInClear, TypeOK, DiskTypeOK
    <2>11. Durable' /\ TableInv' /\ (~privDir' => data' \subseteq plain')
      BY <1>1, <2>3, <2>5 DEF KeepInv, Durable, TableInv
    <2>12. hdr'.stat # "completed"
      BY <1>1, <2>5, StorageOpen
    <2> QED BY <2>4, <2>5, <2>8, <2>9, <2>10, <2>11, <2>12, CreatorStep DEF Locals
  <1>4. \A i \in IF work[p] \cap Dirs # {} THEN work[p] \cap Dirs ELSE work[p] : i \in work[p]
    OBVIOUS
  <1> QED BY <1>2, <1>3, <1>4 DEF CopyItem

LEMMA CopyEndsKeeps ==
  ASSUME TypeOK, KeepInv, NEW p \in Procs, CopyEnds(p)
  PROVE  KeepInv'
PROOF
  <1>1. Same /\ pc[p] = "copy" /\ work[p] = {} /\ Goto(p, "ucheck")
    BY DEF CopyEnds, Same, kernel, ghosts
  <1>2. /\ Local(p) /\ pc'[p] = "ucheck" /\ call'[p] = call[p] /\ phase'[p] = phase[p]
    BY <1>1, GotoEffect DEF TypeOK
  <1>3. /\ plain' = plain /\ privDir' = privDir /\ enc' = enc /\ hdr' = hdr /\ data' = data
    BY <1>1 DEF Same, disk
  <1>4. Decryptable' = Decryptable
    BY <1>3 DEF Decryptable, Readable
  <1>5. plain \subseteq Decryptable
    BY <1>1, CopyPlace DEF KeepInv, CreationInv, Forward
  <1>6. ControlInv(p)' /\ UnlockInv(p)' /\ (Creator(p)' => Creator(p))
    BY <1>1, <1>2, CopyPlace DEF ControlInv, UnlockInv, Op, StepsOf, Creator
  <1>7. CreationInv(p)'
    BY <1>1, <1>2, <1>3, <1>4, <1>5, CopyPlace DEF CreationInv, Creator, Forward, Op, Readable
  <1> QED BY <1>1, <1>2, <1>6, <1>7, QuietStep DEF Locals

LEMMA RemovalPlace ==
  ASSUME KeepInv, NEW p \in Procs, pc[p] \in {"rlist", "rdel", "rmdir"}
  PROVE  /\ Op(p) = "create" /\ Creator(p) /\ privDir
         /\ \/ phase[p] = "nocopy" /\ data \subseteq plain
            \/ /\ phase[p] = "forward" /\ pc[p] # "rmdir"
               /\ Readable(hdr) /\ data \subseteq Decryptable
PROOF
  <1>1. /\ Op(p) = "create" /\ Creator(p)
        /\ phase[p] = "nocopy" \/ (phase[p] = "forward" /\ pc[p] # "rmdir")
    BY DEF KeepInv, ControlInv, StepsOf, Creator
  <1> QED BY <1>1 DEF KeepInv, CreationInv, Forward

LEMMA RemoveDoneKeeps ==
  ASSUME TypeOK, KeepInv, NEW p \in Procs, pc[p] \in {"rlist", "rdel"}, Same,
         NEW ok \in BOOLEAN, RemoveDone(p, ok), ok /\ phase[p] = "forward" => plain = {}
  PROVE  KeepInv'
PROOF
  <1>1. /\ Op(p) = "create" /\ Creator(p) /\ privDir
        /\ \/ phase[p] = "nocopy" /\ data \subseteq plain
           \/ /\ phase[p] = "forward" /\ pc[p] # "rmdir"
              /\ Readable(hdr) /\ data \subseteq Decryptable
    BY RemovalPlace
  <1>2. /\ plain' = plain /\ privDir' = privDir /\ enc' = enc /\ hdr' = hdr /\ data' = data
    BY DEF Same, disk
  <1>3. Decryptable' = Decryptable
    BY <1>2 DEF Decryptable, Readable
  <1>4. CASE Finish(p, "err")
    BY <1>4, FinishLocals, QuietStep DEF TypeOK
  <1>5. CASE Enter(p, "forward", "sread") /\ phase[p] = "forward" /\ ok
    <2>1. /\ Local(p) /\ pc'[p] = "sread" /\ call'[p] = call[p] /\ phase'[p] = "forward"
      BY <1>5, EnterEffect DEF TypeOK
    <2>2. ControlInv(p)' /\ UnlockInv(p)'
      BY <1>1, <2>1 DEF ControlInv, UnlockInv, Op, StepsOf
    <2>3. CreationInv(p)'
      BY <1>1, <1>2, <1>3, <1>5, <2>1 DEF CreationInv, Creator, Forward, Op, Readable
    <2> QED BY <1>1, <2>1, <2>2, <2>3, QuietStep DEF Locals
  <1>6. CASE Goto(p, "rmdir") /\ phase[p] # "forward"
    <2>1. /\ Local(p) /\ pc'[p] = "rmdir" /\ call'[p] = call[p] /\ phase'[p] = phase[p]
      BY <1>6, GotoEffect DEF TypeOK
    <2>2. ControlInv(p)' /\ UnlockInv(p)'
      BY <1>1, <1>6, <2>1 DEF ControlInv, UnlockInv, Op, StepsOf, Creator, CleanupSteps
    <2>3. CreationInv(p)'
      BY <1>1, <1>2, <1>6, <2>1 DEF CreationInv, Creator, Forward, Op
    <2> QED BY <1>1, <2>1, <2>2, <2>3, QuietStep DEF Locals
  <1> QED BY <1>1, <1>4, <1>5, <1>6 DEF RemoveDone

LEMMA ListForRemovalKeeps ==
  ASSUME TypeOK, KeepInv, NEW p \in Procs, ListForRemoval(p)
  PROVE  KeepInv'
PROOF
  <1>1. Same /\ pc[p] = "rlist"
    BY DEF ListForRemoval, Same, kernel, ghosts
  <1>2. CASE RemoveDone(p, FALSE)
    BY <1>1, <1>2, RemoveDoneKeeps
  <1>3. CASE /\ work' = [work EXCEPT ![p] = Visible(ContentOf(p))]
             /\ pc' = [pc EXCEPT ![p] = "rdel"]
             /\ UNCHANGED <<call, phase, hcopy, bad, ret>>
    <2>1. /\ Op(p) = "create" /\ Creator(p) /\ privDir
          /\ \/ phase[p] = "nocopy" /\ data \subseteq plain
             \/ /\ phase[p] = "forward" /\ Readable(hdr) /\ data \subseteq Decryptable
      BY <1>1, RemovalPlace
    <2>2. /\ Local(p) /\ pc'[p] = "rdel" /\ call'[p] = call[p] /\ phase'[p] = phase[p]
          /\ work'[p] = Visible(ContentOf(p)) /\ bad'[p] = bad[p]
      BY <1>3 DEF TypeOK, ProcsTypeOK, Local
    <2>3. phase[p] = "forward" => work'[p] = plain
      BY <2>1, <2>2, StorageOpen DEF ContentOf, Visible
    <2>4. /\ plain' = plain /\ privDir' = privDir /\ enc' = enc /\ hdr' = hdr
          /\ data' = data
      BY <1>1 DEF Same, disk
    <2>5. Decryptable' = Decryptable
      BY <2>4 DEF Decryptable, Readable
    <2>6. ControlInv(p)' /\ UnlockInv(p)'
      BY <2>1, <2>2 DEF ControlInv, UnlockInv, Op, StepsOf, Creator, CleanupSteps
    <2>7. CreationInv(p)'
      BY <2>1, <2>2, <2>3, <2>4, <2>5 DEF CreationInv, Creator, Forward, Op, Readable
    <2> QED BY <1>1, <2>1, <2>2, <2>6, <2>7, QuietStep DEF Locals
  <1> QED BY <1>2, <1>3 DEF ListForRemoval
\* What a wipe removes lies in the clear, and has its ciphertext; what the
\* clean-up of a failed copy removes is ciphertext, and is still in the clear.
LEMMA RemoveItemKeeps ==
  ASSUME TypeOK, KeepInv, NEW p \in Procs, RemoveItem(p)
  PROVE  KeepInv'
PROOF
  <1>1. /\ Op(p) = "create" /\ Creator(p) /\ privDir /\ pc[p] = "rdel"
        /\ \/ phase[p] = "nocopy" /\ data \subseteq plain
           \/ /\ phase[p] = "forward" /\ Readable(hdr) /\ data \subseteq Decryptable
              /\ bad[p] \/ plain \subseteq work[p]
        /\ ~Mounted("S") /\ hdr.stat # "completed"
    <2>1. pc[p] = "rdel"
      BY DEF RemoveItem
    <2> QED BY <2>1, RemovalPlace, StorageOpen DEF KeepInv, CreationInv, Forward
  <1>2. PICK i \in work[p] :
          /\ work' = [work EXCEPT ![p] = @ \ {i}]
          /\ \/ Drop(ContentOf(p), i) /\ UNCHANGED bad
             \/ bad' = [bad EXCEPT ![p] = TRUE] /\ UNCHANGED <<plain, enc>>
    BY DEF RemoveItem, Files
  <1>3. /\ privDir' = privDir /\ hdr' = hdr /\ mtab' = mtab /\ data' = data /\ i \in Items
        /\ UNCHANGED <<pc, call, phase, hcopy, ret>>
    BY DEF RemoveItem, kernel, ghosts, TypeOK, ProcsTypeOK
  <1>4. /\ Local(p) /\ pc'[p] = "rdel" /\ call'[p] = call[p] /\ phase'[p] = phase[p]
        /\ work'[p] = work[p] \ {i}
        /\ \/ Drop(ContentOf(p), i) /\ bad'[p] = bad[p]
           \/ bad'[p] = TRUE /\ UNCHANGED <<plain, enc>>
    BY <1>1, <1>2, <1>3 DEF TypeOK, ProcsTypeOK, Local
  <1>5. /\ phase[p] = "forward" => enc' = enc /\ (bad'[p] \/ plain' \subseteq work'[p])
        /\ phase[p] = "nocopy" => plain' = plain
        /\ enc' = enc \/ enc' = [enc EXCEPT ![i] = NoKey]
    BY <1>1, <1>4 DEF ContentOf, Drop
  <1>6. phase[p] = "forward" => Decryptable' = Decryptable
    BY <1>3, <1>5 DEF Decryptable, Readable
  <1>7. NothingInClear' /\ Durable'
    BY <1>1, <1>3, <1>5, <1>6, KeyAssumption DEF KeepInv, NothingInClear, Durable, TypeOK,
       DiskTypeOK
  <1>8. TableInv' /\ (~privDir' => data' \subseteq plain') /\ hdr'.stat # "completed"
    BY <1>1, <1>3 DEF KeepInv, TableInv
  <1>9. ControlInv(p)' /\ UnlockInv(p)'
    BY <1>1, <1>4 DEF ControlInv, UnlockInv, Op, StepsOf, Creator, CleanupSteps
  <1>10. CreationInv(p)'
    BY <1>1, <1>3, <1>4, <1>5, <1>6 DEF CreationInv, Creator, Forward, Op, Readable
  <1> QED BY <1>1, <1>4, <1>7, <1>8, <1>9, <1>10, CreatorStep DEF Locals

LEMMA RemovalEndsKeeps ==
  ASSUME TypeOK, KeepInv, NEW p \in Procs, RemovalEnds(p)
  PROVE  KeepInv'
PROOF
  <1>1. Same /\ pc[p] = "rdel" /\ RemoveDone(p, ~bad[p]) /\ RemovalOver(p)
    BY DEF RemovalEnds, Same, kernel, ghosts
  <1>2. ~bad[p] /\ phase[p] = "forward" => plain = {}
    BY <1>1, RemovalPlace DEF KeepInv, CreationInv, Forward, RemovalOver
  <1>3. (~bad[p]) \in BOOLEAN
    BY DEF TypeOK, ProcsTypeOK
  <1> QED BY <1>1, <1>2, <1>3, RemoveDoneKeeps

\* The clean-up removes a private directory nothing is mounted from.
LEMMA RemoveRootKeeps ==
  ASSUME TypeOK, KeepInv, NEW p \in Procs, RemoveRoot(p)
  PROVE  KeepInv'
PROOF
  <1>1. /\ pc[p] = "rmdir" /\ plain' = plain /\ enc' = enc /\ hdr' = hdr /\ data' = data
    BY DEF RemoveRoot, ghosts
  <1>2. /\ Op(p) = "create" /\ Creator(p) /\ privDir /\ phase[p] = "nocopy"
        /\ data \subseteq plain /\ hdr.stat # "completed"
    BY <1>1, RemovalPlace, StorageOpen
  <1>3. ASSUME NEW ok, RmdirDone(p, ok) PROVE Local(p) /\ Locals(p)' /\ ~Creator(p)'
    BY <1>2, <1>3, FinishLocals DEF RmdirDone, TypeOK
  <1>4. NothingInClear' /\ Durable'
    BY <1>1, <1>2 DEF KeepInv, NothingInClear, Durable
  <1>5. CASE UNCHANGED <<privDir, recDir, mtab>>
    BY <1>1, <1>3, <1>5, QuietStep DEF RemoveRoot, Same, disk
  <1>6. CASE /\ ~Mounted("P") /\ privDir' = FALSE
             /\ mtab' = [n \in 1..Len(mtab) |-> [mtab[n] EXCEPT !.live = FALSE]]
    <2>1. Len(mtab) = 0
      <3>1. Len(mtab) \in Nat /\ \A n \in 1..Len(mtab) : FALSE
        BY <1>2, <1>6 DEF KeepInv, TableInv, Mounted, Mounts, TypeOK, KernelTypeOK
      <3>2. CASE Len(mtab) > 0
        BY <3>1, <3>2
      <3> QED BY <3>1, <3>2
    <2>2. mtab' = <<>>
      BY <1>6, <2>1
    <2>3. TableInv'
      BY <2>2 DEF TableInv
    <2> QED BY <1>1, <1>2, <1>3, <1>4, <2>3, CreatorStep DEF RemoveRoot
  <1>7. RootOf(p) = "P"
    BY <1>2 DEF RootOf
  <1> QED BY <1>5, <1>6, <1>7 DEF RemoveRoot

LEMMA KillKeeps ==
  ASSUME TypeOK, KeepInv, NEW p \in Procs, Kill(p)
  PROVE  KeepInv'
PROOF
  <1>1. Same /\ Finish(p, "none")
    BY DEF Kill, Same, kernel, ghosts
  <1> QED BY <1>1, FinishLocals, QuietStep DEF TypeOK

LEMMA RebootKeeps ==
  ASSUME TypeOK, KeepInv, Reboot
  PROVE  KeepInv'
PROOF
  <1>1. /\ plain' = plain /\ privDir' = privDir /\ enc' = enc /\ hdr' = hdr
        /\ data' = data /\ mtab' = <<>>
    BY DEF Reboot, disk, ghosts
  <1>2. \A p \in Procs : pc'[p] = "idle" /\ phase'[p] = "forward"
    BY DEF Reboot
  <1>3. \A p \in Procs : Locals(p)' /\ ~Creator(p)'
    BY <1>2, IdleLocals
  <1>4. OneCreator' /\ SealedInv'
    BY <1>1, <1>3 DEF KeepInv, OneCreator, SealedInv
  <1>5. TableInv' /\ NothingInClear' /\ Durable' /\ (~privDir' => data' \subseteq plain')
    BY <1>1 DEF KeepInv, TableInv, NothingInClear, Durable, Decryptable, Readable
  <1> QED BY <1>3, <1>4, <1>5 DEF KeepInv, Locals

LEMMA AppWriteKeeps ==
  ASSUME TypeOK, KeepInv, KeepingOps, NEW i \in Items, AppWrite(i)
  PROVE  KeepInv'
PROOF
  <1>1. /\ privDir' = privDir /\ hdr' = hdr /\ mtab' = mtab /\ data' = data \cup {i}
        /\ UNCHANGED <<pc, call, phase, hcopy, work, bad>>
        /\ Put("S", i)
    BY DEF AppWrite, kernel, procs
  <1>2. \A p \in Procs : pc[p] = "idle" /\ ~Creator(p) /\ phase[p] = "forward"
    BY DEF AppWrite, KeepingOps, Quiet, KeepInv, ControlInv, Creator
  <1>3. \A p \in Procs : Locals(p)' /\ ~Creator(p)'
    BY <1>1, <1>2, IdleLocals
  <1>4. OneCreator' /\ SealedInv' /\ TableInv'
    BY <1>1, <1>3 DEF KeepInv, OneCreator, SealedInv, TableInv
  <1>5. CASE Mounted("S")
    <2>1. \E n \in Mounts("S") : \A m \in Mounts("S") : m <= n
      <3>1. Mounts("S") \in SUBSET (1..Len(mtab)) /\ Len(mtab) \in Nat
        BY ListedType DEF TypeOK, KernelTypeOK
      <3> QED BY <1>5, <3>1, MaxExists DEF Mounted
    <2>2. (CHOOSE n \in Mounts("S") : \A m \in Mounts("S") : m <= n) \in Mounts("S")
      BY <2>1
    <2>3. privDir /\ hdr.stat = "completed" /\ Top("S").key = hdr.key
      BY <2>2 DEF KeepInv, TableInv, SealedInv, Top, Mounts
    <2>4. plain' = plain /\ enc' = [enc EXCEPT ![i] = hdr.key]
      BY <1>1, <1>5, <2>3 DEF Put
    <2>5. Decryptable' = Decryptable \cup {i}
      BY <1>1, <2>3, <2>4 DEF Decryptable, Readable, TypeOK, DiskTypeOK
    <2>6. hdr.key # Clear
      BY KeyAssumption DEF TypeOK, DiskTypeOK, Header
    <2>7. NothingInClear' /\ Durable'
      BY <1>1, <2>4, <2>5, <2>6 DEF KeepInv, NothingInClear, Durable, TypeOK, DiskTypeOK
    <2> QED BY <1>1, <1>3, <1>4, <2>3, <2>7 DEF KeepInv, Locals
  <1>6. CASE ~Mounted("S")
    <2>1. plain' = plain \cup {i} /\ enc' = enc
      BY <1>1, <1>6 DEF Put
    <2>2. NothingInClear' /\ Durable' /\ (~privDir' => data' \subseteq plain')
      BY <1>1, <2>1 DEF KeepInv, NothingInClear, Durable, Decryptable, Readable
    <2> QED BY <1>3, <1>4, <2>2 DEF KeepInv, Locals
  <1> QED BY <1>5, <1>6

-----------------------------------------------------------------------------
(* The invariant is inductive.                                              *)

LEMMA KeepInit == Init => KeepInv
PROOF
  <1> SUFFICES ASSUME Init PROVE KeepInv
    OBVIOUS
  <1>1. /\ plain = InitialItems /\ data = InitialItems /\ privDir = FALSE /\ mtab = <<>>
        /\ enc = [i \in Items |-> NoKey] /\ hdr = NoHeader
        /\ \A p \in Procs : pc[p] = "idle" /\ phase[p] = "forward"
    BY DEF Init
  <1>2. \A p \in Procs : ~Creator(p) /\ ControlInv(p) /\ UnlockInv(p) /\ CreationInv(p)
    BY <1>1 DEF Creator, ControlInv, UnlockInv, CreationInv, Forward
  <1>3. NothingInClear /\ Durable /\ TableInv
    BY <1>1, KeyAssumption DEF NothingInClear, Durable, TableInv
  <1>4. OneCreator /\ SealedInv
    BY <1>1, <1>2 DEF OneCreator, SealedInv, NoHeader
  <1> QED BY <1>1, <1>2, <1>3, <1>4 DEF KeepInv

\* No process is at a step of a call that is never made.
LEMMA OtherCallsAbsent ==
  ASSUME KeepInv, NEW p \in Procs
  PROVE  /\ ~RecoverChecks(p) /\ ~MakeRecoveryDir(p) /\ ~RemoveChecks(p)
         /\ ~UnlinkKeyFile(p) /\ ~ReadForChange(p)
PROOF
  <1>1. pc[p] \notin {"recover", "mkrec", "rcheck", "unlink", "change"}
    BY DEF KeepInv, ControlInv, StepsOf
  <1> QED BY <1>1 DEF RecoverChecks, MakeRecoveryDir, RemoveChecks, UnlinkKeyFile,
                      ReadForChange

LEMMA KeepStep ==
  ASSUME KeepingOps, TypeOK, KeepInv, [Next]_vars
  PROVE  KeepInv'
PROOF
  <1>1. ASSUME NEW p \in Procs, Step(p) PROVE KeepInv'
    BY <1>1, OtherCallsAbsent, CreateChecksKeeps, MakePrivateDirKeeps, WriteNewHeaderKeeps,
       UnlockChecksKeeps, ReadForStatusKeeps, WriteBackKeeps, MountCheckKeeps,
       MountOpenKeeps, MountKeysKeeps, MountFsKeeps, UmountCheckKeeps, UmountKeeps,
       UmountKeysKeeps, ListForCopyKeeps, CopyItemKeeps, CopyEndsKeeps,
       ListForRemovalKeeps, RemoveItemKeeps, RemovalEndsKeeps, RemoveRootKeeps DEF Step
  <1>2. ASSUME NEW p \in Procs, Kill(p) \/ \E c \in CallArgs : Start(p, c)
        PROVE  KeepInv'
    BY <1>2, KillKeeps, StartKeeps
  <1>3. CASE Reboot
    BY <1>3, RebootKeeps
  <1>4. CASE \E i \in Items : AppWrite(i)
    BY <1>4, AppWriteKeeps
  <1>5. CASE UNCHANGED vars
    <2>1. UNCHANGED <<plain, privDir, enc, hdr, mtab, data, pc, call, phase, hcopy, work, bad>>
      BY <1>5 DEF vars, disk, kernel, procs, ghosts
    <2>2. \A p \in Procs : /\ Creator(p)' <=> Creator(p)
                           /\ \A s : Forward(p, s)' <=> Forward(p, s)
      BY <2>1 DEF Creator, Forward, Op
    <2>3. Decryptable' = Decryptable
      BY <2>1 DEF Decryptable, Readable
    <2>4. \A p \in Procs : ControlInv(p)' /\ UnlockInv(p)' /\ CreationInv(p)'
      BY <2>1, <2>2, <2>3 DEF KeepInv, ControlInv, UnlockInv, CreationInv, Op, Readable
    <2>5. OneCreator' /\ SealedInv' /\ TableInv' /\ NothingInClear' /\ Durable'
      BY <2>1, <2>2, <2>3 DEF KeepInv, OneCreator, SealedInv, TableInv, NothingInClear, Durable
    <2> QED BY <2>1, <2>4, <2>5 DEF KeepInv
  <1> QED BY <1>1, <1>2, <1>3, <1>4, <1>5 DEF Next

\* Any number of processes that create, unlock and lock a storage keep the
\* inductive invariant KeepInv of the run "creation".
THEOREM KeepCorrect ==
  ASSUME KeepingOps
  PROVE  Spec => [](TypeOK /\ KeepInv)
PROOF
  <1>1. TypeOK /\ KeepInv /\ [Next]_vars => (TypeOK /\ KeepInv)'
    BY TypeStep, KeepStep
  <1> QED BY <1>1, TypeInit, KeepInit, PTL DEF Spec

\* No stored item is lost: it lies in the storage directory or in ciphertext
\* the key file opens, whatever system call of EFS_create, EFS_unlock and
\* EFS_lock fails, whichever process dies and however often the device restarts.
THEOREM DurableWhenKept ==
  ASSUME KeepingOps
  PROVE  Spec => []Durable
PROOF
  <1>1. KeepInv => Durable
    BY DEF KeepInv
  <1> QED BY <1>1, KeepCorrect, PTL

\* Nothing is ever written to the private directory unencrypted.
THEOREM EncryptedWhenKept ==
  ASSUME KeepingOps
  PROVE  Spec => []NothingInClear
PROOF
  <1>1. KeepInv => NothingInClear
    BY DEF KeepInv
  <1> QED BY <1>1, KeepCorrect, PTL
-----------------------------------------------------------------------------
(* What a single step may do to the storage and to the header.              *)

\* Items leave the storage directory by the wipe of a finished copy only.
LEMMA OnlyWipesRemove ==
  ASSUME TypeOK, KeepInv, [Next]_vars, ~(plain \subseteq plain')
  PROVE  data \subseteq Decryptable
PROOF
  <1>1. ASSUME NEW p \in Procs, RemoveItem(p) PROVE data \subseteq Decryptable
    <2>1. pc[p] = "rdel" /\ ~(plain' = plain) /\ plain' \in {plain} \cup {plain \ {i} : i \in Items}
      BY <1>1 DEF RemoveItem, Drop, Files, TypeOK, ProcsTypeOK
    <2>2. phase[p] # "nocopy"
      BY <1>1, <2>1, RemovalPlace DEF RemoveItem, Drop, ContentOf
    <2> QED BY <2>1, <2>2, RemovalPlace
  <1>2. ASSUME NEW p \in Procs, CopyItem(p) PROVE plain' = plain
    BY <1>2, CopyEncrypts DEF CopyItem, TypeOK, ProcsTypeOK
  <1>3. ASSUME NEW i \in Items, AppWrite(i) PROVE plain \subseteq plain'
    BY <1>3 DEF AppWrite, Put
  <1>4. ASSUME NEW p \in Procs, Step(p), ~RemoveItem(p), ~CopyItem(p) PROVE plain' = plain
    BY <1>4 DEF Step, disk, CreateChecks, MakePrivateDir, WriteNewHeader, UnlockChecks,
       RecoverChecks, MakeRecoveryDir, RemoveChecks, UnlinkKeyFile, ReadForStatus,
       ReadForChange, WriteBack, MountCheck, MountOpen, MountKeys, MountFs, UmountCheck,
       Umount, UmountKeys, ListForCopy, CopyEnds, ListForRemoval, RemovalEnds, RemoveRoot
  <1>5. ASSUME NEW p \in Procs, Kill(p) \/ \E c \in CallArgs : Start(p, c)
        PROVE  plain' = plain
    BY <1>5 DEF Kill, Start, disk
  <1>6. ASSUME Reboot \/ UNCHANGED vars PROVE plain' = plain
    BY <1>6 DEF Reboot, vars, disk
  <1> QED BY <1>1, <1>2, <1>3, <1>4, <1>5, <1>6 DEF Next

\* The status becomes COMPLETED by the last step of a creation only.
LEMMA OnlySealCompletes ==
  ASSUME TypeOK, KeepInv, [Next]_vars, hdr.stat # "completed", hdr'.stat = "completed"
  PROVE  plain = {} /\ data \subseteq Decryptable /\ hdr'.key = hdr.key
PROOF
  <1>1. ASSUME NEW p \in Procs, WriteBack(p)
        PROVE  plain = {} /\ data \subseteq Decryptable /\ hdr'.key = hdr.key
    <2>1. Forward(p, {"swrite"})
      BY <1>1 DEF WriteBack, KeepInv, ControlInv, StepsOf, Creator, Forward, CleanupSteps
    <2>2. /\ plain = {} /\ data \subseteq Decryptable
          /\ hcopy[p].key = hdr.key
      BY <2>1 DEF KeepInv, CreationInv, Forward
    <2>3. hdr' = hcopy[p] \/ hdr'.stat # "completed" \/ hdr' = hdr
      BY <1>1 DEF WriteBack, WriteFails, NoHeader
    <2> QED BY <2>2, <2>3
  <1>2. ASSUME NEW p \in Procs, WriteNewHeader(p) PROVE FALSE
    BY <1>2 DEF WriteNewHeader, WriteFails, NoHeader
  <1>3. ASSUME NEW p \in Procs, Step(p), ~WriteBack(p), ~WriteNewHeader(p) PROVE hdr' = hdr
    BY <1>3, OtherCallsAbsent DEF Step, disk, CreateChecks, MakePrivateDir, UnlockChecks,
       ReadForStatus, MountCheck, MountOpen, MountKeys, MountFs, UmountCheck, Umount,
       UmountKeys, ListForCopy, CopyItem, CopyEnds, ListForRemoval, RemoveItem,
       RemovalEnds, RemoveRoot
  <1>4. ASSUME NEW p \in Procs, Kill(p) \/ \E c \in CallArgs : Start(p, c)
        PROVE  hdr' = hdr
    BY <1>4 DEF Kill, Start, disk
  <1>5. ASSUME Reboot \/ (\E i \in Items : AppWrite(i)) \/ UNCHANGED vars
        PROVE  hdr' = hdr
    BY <1>5 DEF Reboot, AppWrite, vars, disk
  <1> QED BY <1>1, <1>2, <1>3, <1>4, <1>5 DEF Next

\* EFS_create deletes an item from the storage only when the key file opens
\* its ciphertext.
THEOREM WipeWhenKept ==
  ASSUME KeepingOps
  PROVE  Spec => WipeOnlyEncrypted
PROOF
  <1>1. TypeOK /\ KeepInv /\ [Next]_vars =>
          [\A p \in Procs : pc[p] = "rdel" /\ Op(p) = "create" /\ pc'[p] = "rdel" =>
             (plain \ plain') \cap data \subseteq Decryptable]_vars
    BY OnlyWipesRemove
  <1> QED BY <1>1, KeepCorrect, PTL DEF Spec, WipeOnlyEncrypted

\* A storage is declared encrypted only when nothing is left in the clear and
\* the key file opens the ciphertext of everything stored.
THEOREM SealWhenKept ==
  ASSUME KeepingOps
  PROVE  Spec => SealedOnlyWhenDone
PROOF
  <1>1. TypeOK /\ KeepInv /\ [Next]_vars =>
          [hdr.stat # "completed" /\ hdr'.stat = "completed" =>
             plain = {} /\ data \subseteq {i \in Items : enc[i] = hdr'.key}]_vars
    BY OnlySealCompletes DEF Decryptable
  <1> QED BY <1>1, KeepCorrect, PTL DEF Spec, SealedOnlyWhenDone

-----------------------------------------------------------------------------
(* A storage is mounted by a password that has protected its master key only, *)
(* whatever the calls, however they interleave and wherever they fail.        *)

\* p moves, the others stay, and p is not about to mount.
Calm(p) == Local(p) /\ pc'[p] \notin {"mkeys", "mount"}

LEMMA CalmHelpers ==
  ASSUME ProcsTypeOK, NEW p \in Procs
  PROVE  /\ \A code : Finish(p, code) => Calm(p)
         /\ \A step : Goto(p, step) /\ step \notin {"mkeys", "mount"} => Calm(p)
         /\ \A f, step : Enter(p, f, step) /\ step \notin {"mkeys", "mount"} => Calm(p)
         /\ MountDone(p) \/ MountFailed(p) \/ CopyFailed(p) => Calm(p)
         /\ \A ok : UmountDone(p, ok) \/ RemoveDone(p, ok) \/ RmdirDone(p, ok) => Calm(p)
PROOF
  <1>1. ASSUME NEW code, Finish(p, code) PROVE Calm(p)
    BY <1>1, FinishEffect DEF Calm
  <1>2. ASSUME NEW step, step \notin {"mkeys", "mount"}, Goto(p, step) PROVE Calm(p)
    BY <1>2, GotoEffect DEF Calm
  <1>3. ASSUME NEW f, NEW step, step \notin {"mkeys", "mount"}, Enter(p, f, step)
        PROVE  Calm(p)
    BY <1>3, EnterEffect DEF Calm
  <1>4. MountDone(p) \/ MountFailed(p) \/ CopyFailed(p) => Calm(p)
    BY <1>1, <1>2, <1>3 DEF MountDone, MountFailed, CopyFailed
  <1>5. ASSUME NEW ok, UmountDone(p, ok) \/ RemoveDone(p, ok) \/ RmdirDone(p, ok)
        PROVE  Calm(p)
    BY <1>1, <1>2, <1>3, <1>5 DEF UmountDone, RemoveDone, RmdirDone
  <1> QED BY <1>1, <1>2, <1>3, <1>4, <1>5

\* Every step but the two that bring a call to its mount is calm.
LEMMA CalmStep ==
  ASSUME TypeOK, NEW p \in Procs, Step(p), ~MountOpen(p), ~MountKeys(p)
  PROVE  Calm(p)
PROOF
  <1>1. CASE \/ CreateChecks(p) \/ MakePrivateDir(p) \/ WriteNewHeader(p)
             \/ UnlockChecks(p) \/ RecoverChecks(p) \/ MakeRecoveryDir(p)
             \/ UnlinkKeyFile(p) \/ WriteBack(p) \/ MountCheck(p) \/ MountFs(p)
    BY <1>1, CalmHelpers DEF CreateChecks, MakePrivateDir, WriteNewHeader, UnlockChecks,
       RecoverChecks, MakeRecoveryDir, UnlinkKeyFile, WriteBack, WriteFails, MountCheck,
       MountFs, TypeOK
  <1>2. CASE Umount(p) \/ UmountKeys(p) \/ CopyEnds(p) \/ RemovalEnds(p) \/ RemoveRoot(p)
    BY <1>2, CalmHelpers DEF Umount, UmountKeys, CopyEnds, RemovalEnds, RemoveRoot, TypeOK
  <1>3. CASE RemoveChecks(p)
    <2>1. (\E code : Finish(p, code)) \/ Enter(p, "destroy", "rlist")
      BY <1>3 DEF RemoveChecks
    <2> QED BY <2>1, CalmHelpers DEF TypeOK
  <1>4. CASE ReadForStatus(p) \/ ReadForChange(p)
    BY <1>4, CalmHelpers DEF ReadForStatus, ReadForChange, TypeOK, ProcsTypeOK, Calm, Local
  <1>5. CASE UmountCheck(p) \/ ListForCopy(p) \/ ListForRemoval(p)
    BY <1>5, CalmHelpers DEF UmountCheck, ListForCopy, ListForRemoval, TypeOK, ProcsTypeOK,
       Calm, Local
  <1>6. CASE CopyItem(p)
    BY <1>6, CalmHelpers DEF CopyItem, TypeOK, ProcsTypeOK, Calm, Local
  <1>7. CASE RemoveItem(p)
    BY <1>7 DEF RemoveItem, TypeOK, ProcsTypeOK, Calm, Local
  <1> QED BY <1>1, <1>2, <1>3, <1>4, <1>5, <1>6, <1>7 DEF Step

\* From check_passwd to mount(2) the header of the caller p stays in force.
LEMMA MountOpenReads ==
  ASSUME TypeOK, NEW p \in Procs, MountOpen(p)
  PROVE  /\ Local(p) /\ hdr' = hdr
         /\ pc'[p] \in {"mkeys", "mount"} =>
              Readable(hdr) /\ hdr.pass = call'[p].pw /\ hcopy'[p].key = hdr.key
PROOF
  <1>1. CASE MountFailed(p)
    BY <1>1, CalmHelpers DEF MountOpen, disk, Calm, TypeOK
  <1>2. CASE ~MountFailed(p)
    BY <1>2 DEF MountOpen, disk, TypeOK, ProcsTypeOK, Local
  <1> QED BY <1>1, <1>2

LEMMA MountKeysKeepsCopy ==
  ASSUME TypeOK, GateInv, NEW p \in Procs, MountKeys(p)
  PROVE  /\ Local(p) /\ hdr' = hdr
         /\ pc'[p] \in {"mkeys", "mount"} =>
              Readable(hdr) /\ hdr.pass = call'[p].pw /\ hcopy'[p].key = hdr.key
PROOF
  <1>1. CASE MountFailed(p)
    BY <1>1, CalmHelpers DEF MountKeys, disk, Calm, TypeOK
  <1>2. CASE Goto(p, "mount")
    BY <1>2, GotoEffect DEF MountKeys, disk, GateInv, TypeOK
  <1> QED BY <1>1, <1>2 DEF MountKeys

\* Four steps write the key file.
WritingSteps == {"newhdr", "swrite", "pwrite", "unlink"}

LEMMA HeaderWriters ==
  ASSUME NEW p \in Procs, Step(p), pc[p] \notin WritingSteps
  PROVE  hdr' = hdr
PROOF
  <1>1. ~WriteNewHeader(p) /\ ~WriteBack(p) /\ ~UnlinkKeyFile(p)
    BY DEF WritingSteps, WriteNewHeader, WriteBack, UnlinkKeyFile
  <1> QED BY <1>1 DEF Step, disk, CreateChecks, MakePrivateDir, UnlockChecks,
       RecoverChecks, MakeRecoveryDir, RemoveChecks, ReadForStatus, ReadForChange,
       MountCheck, MountOpen, MountKeys, MountFs, UmountCheck, Umount, UmountKeys,
       ListForCopy, CopyItem, CopyEnds, ListForRemoval, RemoveItem, RemovalEnds, RemoveRoot

\* No other process is about to write the key file while q is about to mount.
NoOtherWrites ==
  \A p, q \in Procs : pc[p] \in WritingSteps /\ pc[q] \in {"mkeys", "mount"} => p = q

LEMMA OneCallerWrites ==
  ASSUME \E caller : Procs = {caller}
  PROVE  NoOtherWrites
PROOF BY DEF NoOtherWrites

LEMMA KeptWrites ==
  ASSUME KeepInv
  PROVE  NoOtherWrites
PROOF
  <1> SUFFICES ASSUME NEW p \in Procs, NEW q \in Procs, pc[p] \in WritingSteps,
                      pc[q] \in {"mkeys", "mount"}
               PROVE  p = q
    BY DEF NoOtherWrites
  <1>1. Creator(p)
    BY DEF KeepInv, ControlInv, StepsOf, Creator, WritingSteps
  <1>2. CASE Op(q) = "create"
    BY <1>1, <1>2 DEF KeepInv, OneCreator, Creator
  <1>3. CASE Op(q) = "unlock"
    BY <1>1, <1>3 DEF KeepInv, UnlockInv, SealedInv
  <1>4. Op(q) \in {"create", "unlock"}
    BY DEF KeepInv, ControlInv, StepsOf
  <1> QED BY <1>2, <1>3, <1>4

LEMMA GateStep ==
  ASSUME TypeOK, GateInv, NoOtherWrites, [Next]_vars
  PROVE  GateInv'
PROOF
  <1>1. ASSUME NEW p \in Procs, Step(p) PROVE GateInv'
    <2>1. /\ Local(p)
          /\ pc'[p] \in {"mkeys", "mount"} =>
               /\ hdr' = hdr /\ Readable(hdr) /\ hdr.pass = call'[p].pw
               /\ hcopy'[p].key = hdr.key
      BY <1>1, CalmStep, MountOpenReads, MountKeysKeepsCopy DEF Calm
    <2>2. ASSUME NEW q \in Procs \ {p}, pc'[q] \in {"mkeys", "mount"}
          PROVE  /\ hdr' = hdr /\ Readable(hdr) /\ hdr.pass = call'[q].pw
                 /\ hcopy'[q].key = hdr.key
      <3>1. pc[q] \in {"mkeys", "mount"} /\ call'[q] = call[q] /\ hcopy'[q] = hcopy[q]
        BY <2>1, <2>2 DEF Local
      <3>2. hdr' = hdr
        BY <1>1, <3>1, HeaderWriters DEF NoOtherWrites
      <3> QED BY <3>1, <3>2 DEF GateInv
    <2> QED BY <2>1, <2>2 DEF GateInv
  <1>2. ASSUME NEW p \in Procs, Kill(p) \/ \E c \in CallArgs : Start(p, c)
        PROVE  GateInv'
    <2>1. hdr' = hdr
      BY <1>2 DEF Kill, Start, disk
    <2>2. Calm(p)
      <3>1. CASE Kill(p)
        BY <3>1, CalmHelpers DEF Kill, TypeOK
      <3>2. ASSUME NEW c \in CallArgs, Start(p, c) PROVE Calm(p)
        BY <3>2 DEF Start, FirstStep, CallArgs, Calm, Local, TypeOK, ProcsTypeOK
      <3> QED BY <1>2, <3>1, <3>2
    <2> QED BY <2>1, <2>2 DEF Calm, Local, GateInv
  <1>3. CASE Reboot
    BY <1>3 DEF Reboot, GateInv
  <1>4. CASE (\E i \in Items : AppWrite(i)) \/ UNCHANGED vars
    BY <1>4 DEF AppWrite, GateInv, vars, disk, procs
  <1> QED BY <1>1, <1>2, <1>3, <1>4 DEF Next

\* What PasswordGate says of a step.
Gated == \E p \in Procs : /\ pc[p] = "mount" /\ pc'[p] # "mount"
                          /\ Readable(hdr) /\ hdr.pass = call[p].pw
                          /\ mtab'[Len(mtab')].key = hdr.key

\* The mount table grows by the mount(2) of a call that has its key.
LEMMA OnlyMountsGrow ==
  ASSUME TypeOK, GateInv, [Next]_vars, Len(mtab') > Len(mtab)
  PROVE  Gated
PROOF
  <1>1. mtab \in Seq(Entry) /\ Len(mtab) \in Nat
    BY DEF TypeOK, KernelTypeOK
  <1>2. ASSUME NEW p \in Procs, MountFs(p)
        PROVE  Gated
    <2> DEFINE e == [at |-> PointOf[Op(p)], key |-> hcopy[p].key, live |-> TRUE]
    <2>1. mtab' = mtab \/ mtab' = Append(mtab, e)
      BY <1>2 DEF MountFs
    <2>2. e.key = hcopy[p].key
      OBVIOUS
    <2>3. pc[p] = "mount"
      BY <1>2 DEF MountFs
    <2>4. pc'[p] # "mount"
      BY <1>2, CalmHelpers DEF MountFs, TypeOK, Calm
    <2> HIDE DEF e
    <2>5. mtab' = Append(mtab, e)
      BY <1>1, <2>1
    <2>6. mtab'[Len(mtab')] = e
      BY <1>1, <2>5
    <2> QED BY <2>2, <2>3, <2>4, <2>6 DEF GateInv, Gated
  <1>3. ASSUME NEW p \in Procs, Umount(p) PROVE FALSE
    <2>1. ASSUME NEW n, mtab' = Without(n) PROVE FALSE
      <3>1. CASE Len(mtab) = 0
        BY <1>1, <2>1, <3>1 DEF Without
      <3>2. CASE Len(mtab) # 0
        <4>1. Len(mtab) - 1 \in Nat
          BY <1>1, <3>2
        <4>2. Len(mtab') = Len(mtab) - 1
          BY <2>1, <4>1 DEF Without
        <4> QED BY <1>1, <4>2
      <3> QED BY <3>1, <3>2
    <2>2. mtab' = mtab \/ \E n : mtab' = Without(n)
      BY <1>3 DEF Umount
    <2> QED BY <1>1, <2>1, <2>2
  <1>4. ASSUME NEW p \in Procs, RemoveRoot(p) PROVE FALSE
    <2>1. \/ mtab' = mtab
          \/ mtab' = [n \in 1..Len(mtab) |-> [mtab[n] EXCEPT !.live = FALSE]]
      BY <1>4 DEF RemoveRoot
    <2>2. Len(mtab') = Len(mtab)
      BY <1>1, <2>1
    <2> QED BY <1>1, <2>2
  <1>5. ASSUME NEW p \in Procs, Step(p), ~MountFs(p), ~Umount(p), ~RemoveRoot(p)
        PROVE  mtab' = mtab
    BY <1>5 DEF Step, kernel, CreateChecks, MakePrivateDir, WriteNewHeader, UnlockChecks,
       RecoverChecks, MakeRecoveryDir, RemoveChecks, UnlinkKeyFile, ReadForStatus,
       ReadForChange, WriteBack, MountCheck, MountOpen, MountKeys, UmountCheck,
       UmountKeys, ListForCopy, CopyItem, CopyEnds, ListForRemoval, RemoveItem, RemovalEnds
  <1>6. ASSUME NEW p \in Procs, Kill(p) \/ \E c \in CallArgs : Start(p, c)
        PROVE  mtab' = mtab
    BY <1>6 DEF Kill, Start, kernel
  <1>7. ASSUME Reboot PROVE Len(mtab') = 0
    BY <1>7 DEF Reboot
  <1>8. ASSUME (\E i \in Items : AppWrite(i)) \/ UNCHANGED vars PROVE mtab' = mtab
    BY <1>8 DEF AppWrite, vars, kernel
  <1> QED BY <1>1, <1>2, <1>3, <1>4, <1>5, <1>6, <1>7, <1>8 DEF Next

LEMMA GateInit == Init => GateInv
PROOF BY DEF Init, GateInv

\* Any number of processes create, unlock and lock a storage: mount_ecryptfs
\* mounts nothing unless its caller's own password opens the key file as it is
\* at that moment.
THEOREM PasswordGateWhenKept ==
  ASSUME KeepingOps
  PROVE  Spec => PasswordGate
PROOF
  <1>1. TypeOK /\ KeepInv /\ GateInv /\ [Next]_vars => (TypeOK /\ KeepInv /\ GateInv)'
    BY TypeStep, KeepStep, KeptWrites, GateStep
  <1>2. TypeOK /\ GateInv /\ [Next]_vars => [Len(mtab') > Len(mtab) => Gated]_vars
    BY OnlyMountsGrow
  <1> QED BY <1>1, <1>2, TypeInit, KeepInit, GateInit, PTL DEF Spec, PasswordGate, Gated

\* The same for one caller and all six calls: after a change of password the old
\* one mounts nothing.
THEOREM PasswordGateOneCaller ==
  ASSUME \E caller : Procs = {caller}
  PROVE  Spec => PasswordGate
PROOF
  <1>1. TypeOK /\ GateInv /\ [Next]_vars => (TypeOK /\ GateInv)'
    BY TypeStep, OneCallerWrites, GateStep
  <1>2. TypeOK /\ GateInv /\ [Next]_vars => [Len(mtab') > Len(mtab) => Gated]_vars
    BY OnlyMountsGrow
  <1> QED BY <1>1, <1>2, TypeInit, GateInit, PTL DEF Spec, PasswordGate, Gated

-----------------------------------------------------------------------------
(* What one caller of the storage API can rely on: all six calls, every item, *)
(* password and key, every restart and kill.                                  *)

\* One process makes the calls.  The two failures after which a storage can be
\* mounted twice or a mount is taken for none do not happen.
OneCaller == /\ \E caller : Procs = {caller}
             /\ MaxFaults = 0 \/ {"proc_mount", "chown"} \cap FaultKinds = {}

-----------------------------------------------------------------------------
(* The inductive invariant.                                                  *)

\* P is mounted once, at pt, with the key of the key file.
OneMount(pt) == /\ Len(mtab) = 1 /\ mtab[1].at = pt
                /\ mtab[1].key = hdr.key /\ mtab[1].live

\* At most one mount; nothing mounted, and no ciphertext, without P.
ViewInv ==
  /\ mtab = <<>> \/ \E pt \in Points : OneMount(pt)
  /\ ~privDir => mtab = <<>> /\ \A i \in Items : enc[i] = NoKey

\* A key file that can be read holds a key that was generated once.
HeaderInv == IF Readable(hdr) THEN hdr.key \in used
             ELSE hdr.key = NoKey /\ hdr.pass = NoPassword

\* The call copies through a mount of its own.
Through(p) == Op(p) \in {"create", "recover"}

\* The steps of a call while nothing has failed ...
OnTheWay(p) ==
  \/ Op(p) = "create" /\ pc[p] \in {"create", "mkpriv", "newhdr", "mcheck", "mopen",
       "mkeys", "mount", "list", "copy", "ucheck", "umount", "ukeys", "rlist", "rdel",
       "sread", "swrite"}
  \/ Op(p) = "unlock" /\ pc[p] \in {"unlock", "mcheck", "mopen", "mkeys", "mount"}
  \/ Op(p) = "lock" /\ pc[p] \in {"ucheck", "umount", "ukeys"}
  \/ Op(p) = "change" /\ pc[p] \in {"change", "pwrite"}
  \/ Op(p) = "recover" /\ pc[p] \in {"recover", "mkrec", "mcheck", "mopen", "mkeys",
       "mount", "list", "copy", "ucheck", "umount", "ukeys", "rmdir", "rcheck"}

\* ... and of its error paths and of the removal.
PlaceInv(p) ==
  \/ phase[p] = "forward" /\ (pc[p] = "idle" \/ OnTheWay(p))
  \/ /\ phase[p] = "nomount" /\ Op(p) = "recover"
     /\ pc[p] \in {"rlist", "rdel", "rmdir"}
  \/ /\ phase[p] = "nocopy" /\ Through(p)
     /\ pc[p] \in {"ucheck", "umount", "ukeys", "rlist", "rdel", "rmdir"}
     /\ pc[p] = "rmdir" => Op(p) = "create"
  \/ /\ phase[p] = "destroy" /\ Op(p) \in {"remove", "recover"}
     /\ pc[p] \in {"rcheck", "rlist", "rdel", "rmdir", "unlink"}
     /\ pc[p] = "rcheck" => Op(p) = "remove"

\* What is mounted while a call is at each of its steps.
MountInv(p) ==
  /\ pc[p] \in {"newhdr", "mkrec", "mopen", "mkeys", "mount", "sread", "swrite", "unlink"}
       => mtab = <<>>
  /\ Through(p) /\ pc[p] \in {"mcheck", "ukeys"} => mtab = <<>>
  /\ Through(p) /\ pc[p] \in {"list", "copy", "ucheck", "umount"} =>
       OneMount(PointOf[Op(p)])
  /\ pc[p] = "ukeys" => ~Mounted(PointOf[Op(p)])
  /\ pc[p] \in {"rlist", "rdel", "rmdir"} =>
       mtab = <<>> \/ (phase[p] = "nocopy" /\ OneMount(PointOf[Op(p)]))
  /\ pc[p] = "rcheck" /\ phase[p] = "forward" => mtab = <<>>
  /\ pc[p] = "newhdr" => \A i \in Items : enc[i] = NoKey
  /\ pc[p] = "unlink" => ~privDir

\* The local copy of the header is the header, but for the change it is for.
CopyInv(p) ==
  /\ pc[p] \in {"mkeys", "mount"} => hcopy[p].key = hdr.key
  /\ pc[p] = "swrite" => Readable(hdr) /\ hcopy[p] = [hdr EXCEPT !.stat = "completed"]
  /\ pc[p] = "pwrite" => /\ Readable(hdr) /\ hcopy[p] = [hdr EXCEPT !.pass = call[p].new]
                         /\ call[p].pw = hdr.pass

\* How much of the ciphertext a recovery has brought back.
BackInv(p) ==
  Op(p) = "recover" /\ phase[p] = "forward" =>
    /\ pc[p] = "copy" => Ciphertext \subseteq plain \cup work[p]
    /\ pc[p] \in {"ucheck", "umount", "ukeys", "rmdir", "rcheck"} => Ciphertext \subseteq plain

Mine(p) == PlaceInv(p) /\ MountInv(p) /\ CopyInv(p) /\ BackInv(p)

SoloInv == /\ ViewInv /\ HeaderInv /\ OneKey
           /\ \A p \in Procs : Mine(p)

-----------------------------------------------------------------------------
(* How the invariant is kept by the kinds of steps.                          *)

\* A caller between calls is bound by nothing.
LEMMA IdleMine ==
  ASSUME NEW p \in Procs, pc'[p] = "idle", phase'[p] = "forward"
  PROVE  Mine(p)'
PROOF BY DEF Mine, PlaceInv, MountInv, CopyInv, BackInv

LEMMA FinishMine ==
  ASSUME ProcsTypeOK, NEW p \in Procs, NEW code, Finish(p, code)
  PROVE  Mine(p)'
PROOF BY FinishEffect, IdleMine

\* The storage is what the one caller makes of it.
LEMMA Alone ==
  ASSUME OneCaller, NEW p \in Procs, ViewInv', HeaderInv', OneKey', Mine(p)'
  PROVE  SoloInv'
PROOF
  <1>1. \A q \in Procs : q = p
    BY DEF OneCaller
  <1>2. \A q \in Procs : Mine(q)'
    BY <1>1
  <1> QED BY <1>2 DEF SoloInv

\* A step that leaves P, its mounts and the key in the key file alone.
LEMMA KeyStays ==
  ASSUME OneCaller, SoloInv, NEW p \in Procs, UNCHANGED <<privDir, enc, mtab>>,
         hdr'.key = hdr.key, HeaderInv', Mine(p)'
  PROVE  SoloInv'
PROOF
  <1>1. ViewInv' /\ OneKey'
    BY DEF SoloInv, ViewInv, OneKey, OneMount
  <1> QED BY <1>1, Alone

\* A step of the library that moves nothing but the caller.
Moves == UNCHANGED <<privDir, enc, hdr, mtab, used>>
LEMMA MoveStep ==
  ASSUME OneCaller, SoloInv, NEW p \in Procs, Moves, Mine(p)'
  PROVE  SoloInv'
PROOF
  <1>1. HeaderInv'
    BY DEF Moves, SoloInv, HeaderInv, Readable
  <1> QED BY <1>1, KeyStays DEF Moves

LEMMA FinishStep ==
  ASSUME OneCaller, TypeOK, SoloInv, NEW p \in Procs, Moves, NEW code, Finish(p, code)
  PROVE  SoloInv'
PROOF BY FinishMine, MoveStep DEF TypeOK

\* A failed write of the header leaves the key that was there.
LEMMA WriteFailsStep ==
  ASSUME OneCaller, TypeOK, SoloInv, NEW p \in Procs, UNCHANGED <<privDir, enc, mtab, used>>,
         WriteFails(p)
  PROVE  SoloInv'
PROOF
  <1>1. hdr'.key = hdr.key /\ HeaderInv'
    BY DEF WriteFails, SoloInv, HeaderInv, Readable, NoHeader
  <1>2. Mine(p)'
    BY FinishMine DEF WriteFails, TypeOK
  <1> QED BY <1>1, <1>2, KeyStays

\* With one mount in the table, it is the mount of its point and of P.
LEMMA MountSeen ==
  ASSUME NEW pt, OneMount(pt)
  PROVE  /\ mtab # <<>> /\ Mounts(pt) = {1} /\ Mounted(pt) /\ Top(pt) = mtab[1]
         /\ Listed("P") = {1} /\ Listed(pt) = {1}
         /\ \A q : q # pt => ~Mounted(q)
PROOF
  <1>1. 1..Len(mtab) = {1}
    BY DEF OneMount
  <1>2. Mounts(pt) = {1} /\ \A q : q # pt => Mounts(q) = {}
    BY <1>1 DEF OneMount, Mounts
  <1>3. (CHOOSE n \in Mounts(pt) : \A m \in Mounts(pt) : m <= n) = 1
    BY <1>2
  <1> QED BY <1>1, <1>2, <1>3 DEF Mounted, Top, Listed, OneMount

LEMMA NothingSeen ==
  ASSUME mtab = <<>>, NEW pt
  PROVE  Mounts(pt) = {} /\ ~Mounted(pt) /\ Listed(pt) = {}
PROOF
  <1>1. 1..Len(mtab) = {}
    OBVIOUS
  <1> QED BY <1>1 DEF Mounts, Mounted, Listed

\* Nothing listed is nothing mounted.
LEMMA ListedNothing ==
  ASSUME SoloInv, Listed("P") = {}
  PROVE  mtab = <<>>
PROOF BY MountSeen DEF SoloInv, ViewInv

\* The points of the calls that copy.
LEMMA PointsOf == /\ PointOf["create"] = "P" /\ PointOf["recover"] = "R"
                  /\ PointOf["unlock"] = "S" /\ PointOf["lock"] = "S"
PROOF BY DEF PointOf

-----------------------------------------------------------------------------
(* One lemma per action: the start of a call and its checks.                 *)

LEMMA SoloStart ==
  ASSUME OneCaller, TypeOK, SoloInv, NEW p \in Procs, NEW c \in CallArgs, Start(p, c)
  PROVE  SoloInv'
PROOF
  <1>1. c.op \in ApiCalls
    BY DEF CallArgs, ApiCalls
  <1>2. /\ pc'[p] = FirstStep[c.op] /\ Op(p)' = c.op
        /\ phase'[p] = IF c.op = "remove" THEN "destroy" ELSE "forward"
    BY DEF Start, TypeOK, ProcsTypeOK, Op
  <1>3. PlaceInv(p)'
    BY <1>1, <1>2 DEF PlaceInv, OnTheWay, FirstStep, ApiCalls
  <1>4. MountInv(p)' /\ CopyInv(p)' /\ BackInv(p)'
    BY <1>1, <1>2 DEF MountInv, CopyInv, BackInv, Through, FirstStep, ApiCalls
  <1>5. Moves
    BY DEF Start, Moves, disk, kernel, ghosts
  <1> QED BY <1>3, <1>4, <1>5, MoveStep DEF Mine

LEMMA SoloCreateChecks ==
  ASSUME OneCaller, TypeOK, SoloInv, NEW p \in Procs, CreateChecks(p)
  PROVE  SoloInv'
PROOF
  <1>1. Moves
    BY DEF CreateChecks, Moves, disk, kernel, ghosts
  <1>2. CASE Finish(p, "err")
    BY <1>1, <1>2, FinishStep
  <1>3. CASE Goto(p, "mkpriv")
    <2>1. pc'[p] = "mkpriv" /\ call'[p] = call[p] /\ phase'[p] = phase[p]
      BY <1>3, GotoEffect DEF TypeOK
    <2>2. Mine(p)'
      BY <2>1 DEF CreateChecks, SoloInv, Mine, PlaceInv, OnTheWay, MountInv, CopyInv,
         BackInv, Op, Through
    <2> QED BY <1>1, <2>2, MoveStep
  <1> QED BY <1>2, <1>3 DEF CreateChecks

LEMMA SoloUnlockChecks ==
  ASSUME OneCaller, TypeOK, SoloInv, NEW p \in Procs, UnlockChecks(p)
  PROVE  SoloInv'
PROOF
  <1>1. Moves
    BY DEF UnlockChecks, Moves, disk, kernel, ghosts
  <1>2. CASE \E code : Finish(p, code)
    BY <1>1, <1>2, FinishStep
  <1>3. CASE Goto(p, "mcheck")
    <2>1. pc'[p] = "mcheck" /\ call'[p] = call[p] /\ phase'[p] = phase[p]
      BY <1>3, GotoEffect DEF TypeOK
    <2>2. Mine(p)'
      BY <2>1 DEF UnlockChecks, SoloInv, Mine, PlaceInv, OnTheWay, MountInv, CopyInv,
         BackInv, Op, Through
    <2> QED BY <1>1, <2>2, MoveStep
  <1> QED BY <1>2, <1>3 DEF UnlockChecks

LEMMA SoloRecoverChecks ==
  ASSUME OneCaller, TypeOK, SoloInv, NEW p \in Procs, RecoverChecks(p)
  PROVE  SoloInv'
PROOF
  <1>1. Moves
    BY DEF RecoverChecks, Moves, disk, kernel, ghosts
  <1>2. CASE Finish(p, "err")
    BY <1>1, <1>2, FinishStep
  <1>3. CASE Listed("P") = {} /\ Goto(p, "mkrec")
    <2>1. pc'[p] = "mkrec" /\ call'[p] = call[p] /\ phase'[p] = phase[p]
      BY <1>3, GotoEffect DEF TypeOK
    <2>2. mtab' = <<>>
      BY <1>1, <1>3, ListedNothing DEF Moves
    <2>3. Mine(p)'
      BY <2>1, <2>2 DEF RecoverChecks, SoloInv, Mine, PlaceInv, OnTheWay, MountInv,
         CopyInv, BackInv, Op, Through
    <2> QED BY <1>1, <2>3, MoveStep
  <1> QED BY <1>2, <1>3 DEF RecoverChecks

LEMMA SoloMakeRecoveryDir ==
  ASSUME OneCaller, TypeOK, SoloInv, NEW p \in Procs, MakeRecoveryDir(p)
  PROVE  SoloInv'
PROOF
  <1>1. Moves
    BY DEF MakeRecoveryDir, Moves, kernel, ghosts
  <1>2. CASE Finish(p, "err")
    BY <1>1, <1>2, FinishStep
  <1>3. CASE Goto(p, "mcheck")
    <2>1. pc'[p] = "mcheck" /\ call'[p] = call[p] /\ phase'[p] = phase[p]
      BY <1>3, GotoEffect DEF TypeOK
    <2>2. pc[p] = "mkrec" /\ mtab' = mtab
      BY <1>1 DEF MakeRecoveryDir, Moves
    <2>3. Mine(p)'
      BY <2>1, <2>2 DEF SoloInv, Mine, PlaceInv, OnTheWay, MountInv, CopyInv, BackInv,
         Op, Through
    <2> QED BY <1>1, <2>3, MoveStep
  <1> QED BY <1>2, <1>3 DEF MakeRecoveryDir

LEMMA SoloRemoveChecks ==
  ASSUME OneCaller, TypeOK, SoloInv, NEW p \in Procs, RemoveChecks(p)
  PROVE  SoloInv'
PROOF
  <1>1. Moves
    BY DEF RemoveChecks, Moves, disk, kernel
  <1>2. CASE \E code : Finish(p, code)
    BY <1>1, <1>2, FinishStep
  <1>3. CASE Listed("P") = {} /\ Enter(p, "destroy", "rlist")
    <2>1. pc'[p] = "rlist" /\ call'[p] = call[p] /\ phase'[p] = "destroy"
      BY <1>3, EnterEffect DEF TypeOK
    <2>2. pc[p] = "rcheck" /\ mtab' = <<>>
      BY <1>1, <1>3, ListedNothing DEF RemoveChecks, Moves
    <2>3. Mine(p)'
      BY <2>1, <2>2 DEF SoloInv, Mine, PlaceInv, OnTheWay, MountInv, CopyInv, BackInv,
         Op, Through
    <2> QED BY <1>1, <2>3, MoveStep
  <1> QED BY <1>2, <1>3 DEF RemoveChecks

LEMMA SoloUnlinkKeyFile ==
  ASSUME OneCaller, TypeOK, SoloInv, NEW p \in Procs, UnlinkKeyFile(p)
  PROVE  SoloInv'
PROOF
  <1>1. UNCHANGED <<plain, privDir, enc, mtab, used>> /\ pc[p] = "unlink"
    BY DEF UnlinkKeyFile, kernel, ghosts
  <1>2. \E code : Finish(p, code)
    BY DEF UnlinkKeyFile
  <1>3. CASE UNCHANGED hdr
    BY <1>1, <1>2, <1>3, FinishStep DEF Moves
  <1>4. CASE hdr' = NoHeader
    <2>1. ~privDir /\ mtab = <<>> /\ \A i \in Items : enc[i] = NoKey
      BY <1>1 DEF SoloInv, Mine, MountInv, ViewInv
    <2>2. ViewInv' /\ OneKey' /\ HeaderInv'
      BY <1>1, <1>4, <2>1 DEF ViewInv, OneKey, HeaderInv, NoHeader, Readable
    <2> QED BY <1>2, <2>2, FinishMine, Alone DEF TypeOK
  <1> QED BY <1>3, <1>4 DEF UnlinkKeyFile

-----------------------------------------------------------------------------
(* The private directory and the header.                                     *)

LEMMA SoloMakePrivateDir ==
  ASSUME OneCaller, TypeOK, SoloInv, NEW p \in Procs, MakePrivateDir(p)
  PROVE  SoloInv'
PROOF
  <1>1. UNCHANGED <<plain, enc, hdr, mtab, used>> /\ pc[p] = "mkpriv"
    BY DEF MakePrivateDir, kernel, ghosts
  <1>2. CASE Finish(p, "err") /\ privDir' = privDir
    BY <1>1, <1>2, FinishStep DEF Moves
  <1>3. CASE ~privDir /\ privDir' = TRUE /\ Goto(p, "newhdr")
    <2>1. mtab = <<>> /\ \A i \in Items : enc[i] = NoKey
      BY <1>3 DEF SoloInv, ViewInv
    <2>2. ViewInv' /\ OneKey' /\ HeaderInv'
      BY <1>1, <1>3, <2>1 DEF SoloInv, ViewInv, OneKey, HeaderInv, Readable
    <2>3. pc'[p] = "newhdr" /\ call'[p] = call[p] /\ phase'[p] = phase[p]
      BY <1>3, GotoEffect DEF TypeOK
    <2>4. Mine(p)'
      BY <1>1, <2>1, <2>3 DEF SoloInv, Mine, PlaceInv, OnTheWay, MountInv, CopyInv,
         BackInv, Op, Through
    <2> QED BY <2>2, <2>4, Alone
  <1> QED BY <1>2, <1>3 DEF MakePrivateDir

LEMMA SoloWriteNewHeader ==
  ASSUME OneCaller, TypeOK, SoloInv, NEW p \in Procs, WriteNewHeader(p)
  PROVE  SoloInv'
PROOF
  <1>1. UNCHANGED <<privDir, enc, mtab>> /\ pc[p] = "newhdr"
    BY DEF WriteNewHeader, kernel
  <1>2. CASE Finish(p, "err") /\ UNCHANGED <<hdr, used>>
    BY <1>1, <1>2, FinishStep DEF Moves
  <1>3. CASE WriteFails(p) /\ UNCHANGED used
    BY <1>1, <1>3, WriteFailsStep
  <1>4. ASSUME NEW k \in Keys \ used, Goto(p, "mcheck"), used' = used \cup {k},
               hdr' = [key |-> k, pass |-> call[p].pw, stat |-> "not_started"]
        PROVE  SoloInv'
    <2>1. mtab = <<>> /\ \A i \in Items : enc[i] = NoKey
      BY <1>1 DEF SoloInv, Mine, MountInv
    <2>2. ViewInv' /\ OneKey' /\ HeaderInv'
      BY <1>1, <1>4, <2>1 DEF ViewInv, OneKey, HeaderInv, Readable
    <2>3. pc'[p] = "mcheck" /\ call'[p] = call[p] /\ phase'[p] = phase[p]
      BY <1>4, GotoEffect DEF TypeOK
    <2>4. Mine(p)'
      BY <1>1, <2>1, <2>3 DEF SoloInv, Mine, PlaceInv, OnTheWay, MountInv, CopyInv,
         BackInv, Op, Through
    <2> QED BY <2>2, <2>4, Alone
  <1> QED BY <1>2, <1>3, <1>4 DEF WriteNewHeader

LEMMA SoloReadForStatus ==
  ASSUME OneCaller, TypeOK, SoloInv, NEW p \in Procs, ReadForStatus(p)
  PROVE  SoloInv'
PROOF
  <1>1. Moves /\ pc[p] = "sread"
    BY DEF ReadForStatus, Moves, disk, kernel, ghosts
  <1>2. CASE Finish(p, "err")
    BY <1>1, <1>2, FinishStep
  <1>3. CASE ~Finish(p, "err")
    <2>1. /\ Readable(hdr) /\ hcopy'[p] = [hdr EXCEPT !.stat = "completed"]
          /\ pc'[p] = "swrite" /\ call'[p] = call[p] /\ phase'[p] = phase[p]
      BY <1>3 DEF ReadForStatus, TypeOK, ProcsTypeOK
    <2>2. hdr' = hdr /\ mtab' = mtab /\ Readable(hdr)' = Readable(hdr)
      BY <1>1 DEF Moves, Readable
    <2>3. Mine(p)'
      BY <1>1, <2>1, <2>2 DEF SoloInv, Mine, PlaceInv, OnTheWay, MountInv, CopyInv,
         BackInv, Op, Through
    <2> QED BY <1>1, <2>3, MoveStep
  <1> QED BY <1>2, <1>3

LEMMA SoloReadForChange ==
  ASSUME OneCaller, TypeOK, SoloInv, NEW p \in Procs, ReadForChange(p)
  PROVE  SoloInv'
PROOF
  <1>1. Moves /\ pc[p] = "change"
    BY DEF ReadForChange, Moves, disk, kernel, ghosts
  <1>2. CASE Finish(p, "err")
    BY <1>1, <1>2, FinishStep
  <1>3. CASE ~Finish(p, "err")
    <2>1. /\ Readable(hdr) /\ hdr.pass = call[p].pw
          /\ hcopy'[p] = [hdr EXCEPT !.pass = call[p].new]
          /\ pc'[p] = "pwrite" /\ call'[p] = call[p] /\ phase'[p] = phase[p]
      BY <1>3 DEF ReadForChange, TypeOK, ProcsTypeOK
    <2>2. hdr' = hdr /\ mtab' = mtab /\ Readable(hdr)' = Readable(hdr)
      BY <1>1 DEF Moves, Readable
    <2>3. Mine(p)'
      BY <1>1, <2>1, <2>2 DEF SoloInv, Mine, PlaceInv, OnTheWay, MountInv, CopyInv,
         BackInv, Op, Through
    <2> QED BY <1>1, <2>3, MoveStep
  <1> QED BY <1>2, <1>3

\* What is written back: the header as it is, but for its status or password.
LEMMA Written ==
  ASSUME TypeOK, SoloInv, NEW p \in Procs, pc[p] \in {"swrite", "pwrite"}
  PROVE  /\ Readable(hdr) /\ Readable(hcopy[p]) /\ hcopy[p].key = hdr.key
         /\ pc[p] = "swrite" => hcopy[p].pass = hdr.pass /\ hcopy[p].stat = "completed"
         /\ pc[p] = "pwrite" => /\ hcopy[p].pass = call[p].new /\ hcopy[p].stat = hdr.stat
                                /\ call[p].pw = hdr.pass
PROOF
  <1>1. hdr \in Header
    BY DEF TypeOK, DiskTypeOK
  <1> QED BY <1>1 DEF SoloInv, Mine, CopyInv, Readable, Header

LEMMA SoloWriteBack ==
  ASSUME OneCaller, TypeOK, SoloInv, NEW p \in Procs, WriteBack(p)
  PROVE  SoloInv'
PROOF
  <1>1. UNCHANGED <<privDir, enc, mtab, used>> /\ pc[p] \in {"swrite", "pwrite"}
    BY DEF WriteBack, kernel
  <1>2. CASE WriteFails(p)
    BY <1>1, <1>2, WriteFailsStep
  <1>3. CASE hdr' = hcopy[p] /\ Finish(p, "ok")
    <2>1. hdr'.key = hdr.key /\ HeaderInv'
      BY <1>1, <1>3, Written DEF SoloInv, HeaderInv, Readable
    <2> QED BY <1>1, <1>3, <2>1, FinishMine, KeyStays DEF TypeOK
  <1> QED BY <1>2, <1>3 DEF WriteBack

-----------------------------------------------------------------------------
(* mount_ecryptfs.                                                           *)

\* The calls that mount, and what they find.
LEMMA MountingPlace ==
  ASSUME SoloInv, NEW p \in Procs, pc[p] \in {"mcheck", "mopen", "mkeys", "mount"}
  PROVE  /\ phase[p] = "forward" /\ Op(p) \in {"create", "unlock", "recover"}
         /\ (pc[p] # "mcheck" \/ Op(p) # "unlock") => mtab = <<>>
PROOF BY DEF SoloInv, Mine, PlaceInv, OnTheWay, MountInv, Through

\* A mount that fails leaves nothing mounted.
LEMMA MountFailedStep ==
  ASSUME OneCaller, TypeOK, SoloInv, NEW p \in Procs, Moves, MountFailed(p),
         pc[p] \in {"mopen", "mkeys", "mount"}
  PROVE  SoloInv'
PROOF
  <1>1. CASE Finish(p, "err")
    BY <1>1, FinishStep
  <1>2. CASE Op(p) = "recover" /\ Enter(p, "nomount", "rlist")
    <2>1. pc'[p] = "rlist" /\ call'[p] = call[p] /\ phase'[p] = "nomount"
      BY <1>2, EnterEffect DEF TypeOK
    <2>2. mtab' = <<>>
      BY MountingPlace DEF Moves
    <2>3. Mine(p)'
      BY <1>2, <2>1, <2>2 DEF Mine, PlaceInv, MountInv, CopyInv, BackInv, Op, Through
    <2> QED BY <2>3, MoveStep
  <1> QED BY <1>1, <1>2 DEF MountFailed

LEMMA SoloMountCheck ==
  ASSUME OneCaller, TypeOK, SoloInv, NEW p \in Procs, MountCheck(p)
  PROVE  SoloInv'
PROOF
  <1>1. Moves /\ pc[p] = "mcheck"
    BY DEF MountCheck, Moves, disk, kernel, ghosts
  <1>2. ~Fault("proc_mount")
    BY DEF OneCaller, Fault, TypeOK, BudgetTypeOK
  <1>3. CASE Listed("P") # {} /\ MountDone(p)
    <2>1. Op(p) = "unlock"
      BY <1>1, <1>3, MountingPlace, NothingSeen
    <2> QED BY <1>1, <1>3, <2>1, FinishStep DEF MountDone
  <1>4. CASE Listed("P") = {} /\ Goto(p, "mopen")
    <2>1. pc'[p] = "mopen" /\ call'[p] = call[p] /\ phase'[p] = phase[p]
      BY <1>4, GotoEffect DEF TypeOK
    <2>2. mtab' = <<>>
      BY <1>1, <1>4, ListedNothing DEF Moves
    <2>3. Mine(p)'
      BY ZenonT(40), <1>1, <2>1, <2>2 DEF SoloInv, Mine, PlaceInv, OnTheWay, MountInv, CopyInv,
         BackInv, Op, Through
    <2> QED BY <1>1, <2>3, MoveStep
  <1> QED BY <1>2, <1>3, <1>4 DEF MountCheck

LEMMA SoloMountOpen ==
  ASSUME OneCaller, TypeOK, SoloInv, NEW p \in Procs, MountOpen(p)
  PROVE  SoloInv'
PROOF
  <1>1. Moves /\ pc[p] = "mopen"
    BY DEF MountOpen, Moves, disk, kernel, ghosts
  <1>2. CASE MountFailed(p)
    BY <1>1, <1>2, MountFailedStep
  <1>3. CASE ~MountFailed(p)
    <2>1. /\ hcopy'[p] = hdr /\ pc'[p] = "mkeys" /\ call'[p] = call[p]
          /\ phase'[p] = phase[p]
      BY <1>3 DEF MountOpen, TypeOK, ProcsTypeOK
    <2>2. hdr' = hdr /\ mtab' = <<>>
      BY <1>1, MountingPlace DEF Moves
    <2>3. Mine(p)'
      BY ZenonT(40), <1>1, <2>1, <2>2 DEF SoloInv, Mine, PlaceInv, OnTheWay, MountInv, CopyInv,
         BackInv, Op, Through
    <2> QED BY <1>1, <2>3, MoveStep
  <1> QED BY <1>2, <1>3

LEMMA SoloMountKeys ==
  ASSUME OneCaller, TypeOK, SoloInv, NEW p \in Procs, MountKeys(p)
  PROVE  SoloInv'
PROOF
  <1>1. Moves /\ pc[p] = "mkeys"
    BY DEF MountKeys, Moves, disk, ghosts
  <1>2. CASE MountFailed(p)
    BY <1>1, <1>2, MountFailedStep
  <1>3. CASE Goto(p, "mount")
    <2>1. /\ hcopy'[p] = hcopy[p] /\ pc'[p] = "mount" /\ call'[p] = call[p]
          /\ phase'[p] = phase[p]
      BY <1>3, GotoEffect DEF TypeOK
    <2>2. hdr' = hdr /\ mtab' = <<>>
      BY <1>1, MountingPlace DEF Moves
    <2>3. Mine(p)'
      BY ZenonT(40), <1>1, <2>1, <2>2 DEF SoloInv, Mine, PlaceInv, OnTheWay, MountInv, CopyInv,
         BackInv, Op, Through
    <2> QED BY <1>1, <2>3, MoveStep
  <1> QED BY <1>2, <1>3 DEF MountKeys

LEMMA SoloMountFs ==
  ASSUME OneCaller, TypeOK, SoloInv, NEW p \in Procs, MountFs(p)
  PROVE  SoloInv'
PROOF
  <1>1. UNCHANGED <<privDir, enc, hdr, used>> /\ pc[p] = "mount"
    BY DEF MountFs, disk, ghosts
  <1>2. ~Fault("chown")
    BY DEF OneCaller, Fault, TypeOK, BudgetTypeOK
  <1>3. CASE MountFailed(p) /\ mtab' = mtab
    BY <1>1, <1>3, MountFailedStep DEF Moves
  <1>4. CASE /\ privDir /\ MountDone(p)
             /\ mtab' = Append(mtab, [at |-> PointOf[Op(p)], key |-> hcopy[p].key,
                                      live |-> TRUE])
    <2>1. /\ mtab = <<>> /\ phase[p] = "forward"
          /\ Op(p) \in {"create", "unlock", "recover"}
      BY <1>1, MountingPlace
    <2>2. mtab' = <<[at |-> PointOf[Op(p)], key |-> hcopy[p].key, live |-> TRUE]>>
      BY <1>4, <2>1
    <2>3. hcopy[p].key = hdr.key
      BY <1>1 DEF SoloInv, Mine, CopyInv
    <2>4. PointOf[Op(p)] \in Points
      BY PointType DEF TypeOK
    <2>5. /\ Len(mtab') = 1 /\ mtab'[1].at = PointOf[Op(p)] /\ mtab'[1].key = hdr.key
          /\ mtab'[1].live
      BY <2>2, <2>3
    <2>6. \A pt : pt = PointOf[Op(p)] => OneMount(pt)'
      BY <1>1, <2>5 DEF OneMount
    <2>7. ViewInv' /\ OneKey' /\ HeaderInv'
      BY <1>1, <1>4, <2>4, <2>6 DEF SoloInv, ViewInv, OneKey, HeaderInv, Readable
    <2>8. CASE Op(p) = "unlock"
      BY <1>4, <2>7, <2>8, FinishMine, Alone DEF MountDone, TypeOK
    <2>9. CASE Op(p) # "unlock"
      <3>1. pc'[p] = "list" /\ call'[p] = call[p] /\ phase'[p] = phase[p]
        BY <1>4, <2>9, GotoEffect DEF MountDone, TypeOK
      <3>2. Op(p)' = Op(p) /\ PointOf[Op(p)]' = PointOf[Op(p)]
        BY <3>1 DEF Op
      <3>3. OneMount(PointOf[Op(p)])'
        BY <2>6, <3>2
      <3>4. PlaceInv(p)' /\ CopyInv(p)' /\ BackInv(p)'
        BY <2>1, <2>9, <3>1, <3>2 DEF PlaceInv, OnTheWay, CopyInv, BackInv
      <3>5. MountInv(p)'
        BY <3>1, <3>3 DEF MountInv
      <3> QED BY <2>7, <3>4, <3>5, Alone DEF Mine
    <2> QED BY <2>8, <2>9
  <1> QED BY <1>2, <1>3, <1>4 DEF MountFs

-----------------------------------------------------------------------------
(* umount_ecryptfs.                                                          *)

\* The calls that unmount, and what they find.
LEMMA UnmountingPlace ==
  ASSUME SoloInv, NEW p \in Procs, pc[p] \in {"ucheck", "umount", "ukeys"}
  PROVE  /\ (Op(p) = "lock" /\ phase[p] = "forward") \/ Through(p)
         /\ phase[p] \in {"forward", "nocopy"}
         /\ Through(p) /\ pc[p] # "ukeys" => OneMount(PointOf[Op(p)])
         /\ Through(p) /\ pc[p] = "ukeys" => mtab = <<>>
         /\ Op(p) = "recover" /\ phase[p] = "forward" => Ciphertext \subseteq plain
PROOF BY DEF SoloInv, Mine, PlaceInv, OnTheWay, MountInv, BackInv, Through

\* umount_ecryptfs returns: a success of a call that copies has unmounted.
LEMMA UmountDoneStep ==
  ASSUME OneCaller, TypeOK, SoloInv, NEW p \in Procs, UNCHANGED <<disk, mtab, used>>,
         NEW ok \in BOOLEAN, UmountDone(p, ok), pc[p] \in {"ucheck", "umount", "ukeys"},
         ok /\ Through(p) => mtab = <<>>
  PROVE  SoloInv'
PROOF
  <1>1. Moves
    BY DEF Moves, disk
  <1>2. CASE \E code : Finish(p, code)
    BY <1>1, <1>2, FinishStep
  <1>3. CASE phase[p] = "nocopy" /\ Enter(p, "nocopy", "rlist")
    <2>1. pc'[p] = "rlist" /\ call'[p] = call[p] /\ phase'[p] = "nocopy"
      BY <1>3, EnterEffect DEF TypeOK
    <2>2. Through(p) /\ (mtab = <<>> \/ OneMount(PointOf[Op(p)]))
      BY <1>3, UnmountingPlace
    <2>3. /\ Op(p)' = Op(p) /\ PointOf[Op(p)]' = PointOf[Op(p)]
          /\ mtab' = mtab /\ hdr' = hdr
      BY <1>1, <2>1 DEF Op, Moves
    <2>4. mtab' = <<>> \/ OneMount(PointOf[Op(p)])'
      BY <2>2, <2>3 DEF OneMount
    <2>5. Mine(p)'
      BY <2>1, <2>2, <2>3, <2>4 DEF Mine, PlaceInv, MountInv, CopyInv, BackInv, Through
    <2> QED BY <1>1, <2>5, MoveStep
  <1>4. CASE ok /\ Op(p) = "create" /\ phase[p] # "nocopy" /\ Enter(p, "forward", "rlist")
    <2>1. pc'[p] = "rlist" /\ call'[p] = call[p] /\ phase'[p] = "forward"
      BY <1>4, EnterEffect DEF TypeOK
    <2>2. mtab' = <<>>
      BY <1>1, <1>4 DEF Through, Moves
    <2>3. Mine(p)'
      BY <1>4, <2>1, <2>2 DEF Mine, PlaceInv, OnTheWay, MountInv, CopyInv, BackInv,
         Through, Op
    <2> QED BY <1>1, <2>3, MoveStep
  <1>5. CASE ok /\ Op(p) = "recover" /\ phase[p] # "nocopy" /\ Goto(p, "rmdir")
    <2>1. pc'[p] = "rmdir" /\ call'[p] = call[p] /\ phase'[p] = phase[p]
      BY <1>5, GotoEffect DEF TypeOK
    <2>2. mtab' = <<>> /\ phase[p] = "forward" /\ Ciphertext \subseteq plain
      BY <1>1, <1>5, UnmountingPlace DEF Through, Moves
    <2>3. Ciphertext' \subseteq plain'
      BY <2>2 DEF disk, Ciphertext
    <2>4. Mine(p)'
      BY <1>5, <2>1, <2>2, <2>3 DEF Mine, PlaceInv, OnTheWay, MountInv, CopyInv, BackInv,
         Through, Op
    <2> QED BY <1>1, <2>4, MoveStep
  <1> QED BY <1>2, <1>3, <1>4, <1>5 DEF UmountDone

LEMMA SoloUmountCheck ==
  ASSUME OneCaller, TypeOK, SoloInv, NEW p \in Procs, UmountCheck(p)
  PROVE  SoloInv'
PROOF
  <1>1. UNCHANGED <<disk, mtab, used>> /\ pc[p] = "ucheck"
    BY DEF UmountCheck, kernel, ghosts
  <1>2. CASE UmountDone(p, FALSE)
    BY <1>1, <1>2, UmountDoneStep
  <1>3. CASE Listed(PointOf[Op(p)]) = {} /\ UmountDone(p, TRUE)
    <2>1. ~Through(p)
      BY <1>1, <1>3, UnmountingPlace, MountSeen
    <2> QED BY <1>1, <1>3, <2>1, UmountDoneStep
  <1>4. CASE pc' = [pc EXCEPT ![p] = "umount"] /\ UNCHANGED <<call, phase>>
    <2>1. pc'[p] = "umount" /\ call'[p] = call[p] /\ phase'[p] = phase[p]
      BY <1>4 DEF TypeOK, ProcsTypeOK
    <2>2. Moves
      BY <1>1 DEF Moves, disk
    <2>3. Op(p)' = Op(p) /\ PointOf[Op(p)]' = PointOf[Op(p)]
      BY <2>1 DEF Op
    <2>4. Through(p)' => OneMount(PointOf[Op(p)])'
      BY <1>1, <2>2, <2>3, UnmountingPlace DEF OneMount, Through, Moves
    <2>5. Ciphertext' = Ciphertext /\ plain' = plain
      BY <1>1 DEF disk, Ciphertext
    <2>6. PlaceInv(p)' /\ CopyInv(p)'
      BY <1>1, <2>1, <2>3 DEF SoloInv, Mine, PlaceInv, OnTheWay, CopyInv, Through
    <2>7. MountInv(p)' /\ BackInv(p)'
      BY <1>1, <2>1, <2>3, <2>4, <2>5 DEF SoloInv, Mine, MountInv, BackInv
    <2> QED BY <2>2, <2>6, <2>7, MoveStep DEF Mine
  <1> QED BY <1>2, <1>3, <1>4 DEF UmountCheck

\* The table without its one line is empty.
LEMMA WithoutOnly ==
  ASSUME mtab \in Seq(Entry), Len(mtab) = 1
  PROVE  Without(1) = <<>>
PROOF BY DEF Without

LEMMA SoloUmount ==
  ASSUME OneCaller, TypeOK, SoloInv, NEW p \in Procs, Umount(p)
  PROVE  SoloInv'
PROOF
  <1>1. UNCHANGED <<disk, used>> /\ pc[p] = "umount"
    BY DEF Umount, ghosts
  <1>2. CASE UmountDone(p, FALSE) /\ mtab' = mtab
    BY <1>1, <1>2, UmountDoneStep
  <1>3. ASSUME Goto(p, "ukeys"), mtab' = <<>> \/ (mtab' = mtab /\ ~Through(p)),
               ~Mounted(PointOf[Op(p)])'
        PROVE  SoloInv'
    <2>1. pc'[p] = "ukeys" /\ call'[p] = call[p] /\ phase'[p] = phase[p]
      BY <1>3, GotoEffect DEF TypeOK
    <2>2. Op(p)' = Op(p) /\ PointOf[Op(p)]' = PointOf[Op(p)]
      BY <2>1 DEF Op
    <2>3. Ciphertext' = Ciphertext /\ plain' = plain
      BY <1>1 DEF disk, Ciphertext
    <2>4. PlaceInv(p)' /\ CopyInv(p)'
      BY <1>1, <2>1, <2>2 DEF SoloInv, Mine, PlaceInv, OnTheWay, CopyInv, Through
    <2>5. MountInv(p)' /\ BackInv(p)'
      BY <1>1, <1>3, <2>1, <2>2, <2>3 DEF SoloInv, Mine, MountInv, BackInv, Through
    <2>6. ViewInv' /\ OneKey' /\ HeaderInv'
      BY <1>1, <1>3 DEF disk, SoloInv, ViewInv, OneMount, OneKey, HeaderInv, Readable
    <2> QED BY <2>4, <2>5, <2>6, Alone DEF Mine
  <1>4. ASSUME NEW n \in Mounts(PointOf[Op(p)]), mtab' = Without(n), Goto(p, "ukeys")
        PROVE  SoloInv'
    <2>1. n \in 1..Len(mtab) /\ mtab \in Seq(Entry)
      BY DEF Mounts, TypeOK, KernelTypeOK
    <2>2. mtab # <<>>
      BY <2>1
    <2>3. Len(mtab) = 1
      BY <2>2 DEF SoloInv, ViewInv, OneMount
    <2>4. n = 1
      BY <2>1, <2>3
    <2>5. mtab' = <<>>
      BY <1>4, <2>1, <2>3, <2>4, WithoutOnly
    <2>6. Op(p)' = Op(p)
      BY <1>4, GotoEffect DEF Op, TypeOK
    <2>7. ~Mounted(PointOf[Op(p)])'
      BY <2>5 DEF Mounted, Mounts
    <2> QED BY <1>3, <1>4, <2>5, <2>7
  <1>5. CASE ~Mounted(PointOf[Op(p)]) /\ Goto(p, "ukeys") /\ mtab' = mtab
    <2>1. ~Through(p)
      BY <1>1, <1>5, UnmountingPlace, MountSeen
    <2>2. Op(p)' = Op(p)
      BY <1>5, GotoEffect DEF Op, TypeOK
    <2>3. ~Mounted(PointOf[Op(p)])'
      BY <1>5, <2>2 DEF Mounted, Mounts
    <2> QED BY <1>3, <1>5, <2>1, <2>3
  <1> QED BY <1>2, <1>4, <1>5 DEF Umount

LEMMA SoloUmountKeys ==
  ASSUME OneCaller, TypeOK, SoloInv, NEW p \in Procs, UmountKeys(p)
  PROVE  SoloInv'
PROOF
  <1>1. UNCHANGED <<disk, mtab, used>> /\ pc[p] = "ukeys"
    BY DEF UmountKeys, ghosts
  <1>2. PICK ok \in BOOLEAN : UmountDone(p, ok)
    BY DEF UmountKeys
  <1>3. Through(p) => mtab = <<>>
    BY <1>1, UnmountingPlace
  <1> QED BY <1>1, <1>2, <1>3, UmountDoneStep

-----------------------------------------------------------------------------
(* copy_dir_content.                                                         *)

\* The calls that copy, and what they find.
LEMMA CopyingPlace ==
  ASSUME SoloInv, NEW p \in Procs, pc[p] \in {"list", "copy"}
  PROVE  /\ phase[p] = "forward" /\ Through(p) /\ OneMount(PointOf[Op(p)])
         /\ Op(p) = "create" => SourceOf(p) = "S" /\ TargetOf(p) = "P" /\ OneMount("P")
         /\ Op(p) = "recover" => SourceOf(p) = "R" /\ TargetOf(p) = "S" /\ OneMount("R")
         /\ privDir
PROOF
  <1>1. phase[p] = "forward" /\ Through(p) /\ OneMount(PointOf[Op(p)])
    BY DEF SoloInv, Mine, PlaceInv, OnTheWay, MountInv, Through
  <1>2. privDir
    BY <1>1, MountSeen DEF SoloInv, ViewInv
  <1> QED BY <1>1, <1>2, PointsOf DEF SourceOf, TargetOf

LEMMA CopyFailedStep ==
  ASSUME OneCaller, TypeOK, SoloInv, NEW p \in Procs, pc[p] \in {"list", "copy"},
         Moves, CopyFailed(p)
  PROVE  SoloInv'
PROOF
  <1>1. pc'[p] = "ucheck" /\ call'[p] = call[p] /\ phase'[p] = "nocopy"
    BY EnterEffect DEF CopyFailed, TypeOK
  <1>2. Op(p)' = Op(p) /\ PointOf[Op(p)]' = PointOf[Op(p)]
    BY <1>1 DEF Op
  <1>3. Through(p)' /\ OneMount(PointOf[Op(p)])'
    BY <1>2, CopyingPlace DEF Through, OneMount, Moves
  <1>4. Mine(p)'
    BY <1>1, <1>3 DEF Mine, PlaceInv, MountInv, CopyInv, BackInv
  <1> QED BY <1>4, MoveStep

LEMMA SoloListForCopy ==
  ASSUME OneCaller, TypeOK, SoloInv, NEW p \in Procs, ListForCopy(p)
  PROVE  SoloInv'
PROOF
  <1>1. Moves /\ pc[p] = "list" /\ UNCHANGED <<disk, mtab>>
    BY DEF ListForCopy, Moves, disk, kernel, ghosts
  <1>2. CASE CopyFailed(p)
    BY <1>1, <1>2, CopyFailedStep
  <1>3. CASE /\ work' = [work EXCEPT ![p] = Visible(SourceOf(p))]
             /\ pc' = [pc EXCEPT ![p] = "copy"] /\ UNCHANGED <<call, phase>>
    <2>1. /\ pc'[p] = "copy" /\ call'[p] = call[p] /\ phase'[p] = phase[p]
          /\ work'[p] = Visible(SourceOf(p))
      BY <1>3 DEF TypeOK, ProcsTypeOK
    <2>2. Op(p)' = Op(p) /\ PointOf[Op(p)]' = PointOf[Op(p)]
      BY <2>1 DEF Op
    <2>3. phase[p] = "forward" /\ Through(p)' /\ OneMount(PointOf[Op(p)])'
      BY <1>1, <2>2, CopyingPlace DEF Through, OneMount, Moves
    <2>4. Ciphertext' = Ciphertext
      BY <1>1 DEF disk, Ciphertext
    <2>5. Op(p) = "recover" => Visible(SourceOf(p)) = Ciphertext
      BY <1>1, CopyingPlace, MountSeen DEF Visible, OneMount
    <2>6. PlaceInv(p)' /\ CopyInv(p)' /\ MountInv(p)'
      BY <1>1, <2>1, <2>2, <2>3 DEF PlaceInv, OnTheWay, CopyInv, MountInv, Through
    <2>7. BackInv(p)'
      BY <2>1, <2>2, <2>4, <2>5 DEF BackInv
    <2> QED BY <1>1, <2>6, <2>7, MoveStep DEF Mine
  <1> QED BY <1>2, <1>3 DEF ListForCopy

\* An item copied by a creation is encrypted with the key of the key file; one
\* copied by a recovery is put back in the clear.
LEMMA CopyPuts ==
  ASSUME TypeOK, SoloInv, NEW p \in Procs, pc[p] = "copy", NEW i \in Items,
         Put(TargetOf(p), i)
  PROVE  /\ Op(p) = "create" => enc' = [enc EXCEPT ![i] = hdr.key] /\ plain' = plain
         /\ Op(p) = "recover" => plain' = plain \cup {i} /\ enc' = enc
PROOF
  <1>1. CASE Op(p) = "create"
    <2>1. Mounted("P") /\ Top("P").key = hdr.key /\ TargetOf(p) = "P"
      BY <1>1, CopyingPlace, MountSeen DEF OneMount
    <2> QED BY <1>1, <2>1 DEF Put
  <1>2. CASE Op(p) = "recover"
    <2>1. ~Mounted("S") /\ TargetOf(p) = "S"
      BY <1>2, CopyingPlace, MountSeen
    <2> QED BY <1>2, <2>1 DEF Put
  <1> QED BY <1>1, <1>2

LEMMA SoloCopyItem ==
  ASSUME OneCaller, TypeOK, SoloInv, NEW p \in Procs, CopyItem(p)
  PROVE  SoloInv'
PROOF
  <1>1. UNCHANGED <<privDir, hdr, mtab, used>> /\ pc[p] = "copy"
    BY DEF CopyItem, kernel, ghosts
  <1>2. CASE CopyFailed(p) /\ enc' = enc
    BY <1>1, <1>2, CopyFailedStep DEF Moves
  <1>3. ASSUME NEW i \in work[p], Put(TargetOf(p), i), UNCHANGED <<pc, call, phase, hcopy>>,
               work' = [work EXCEPT ![p] = @ \ {i}]
        PROVE  SoloInv'
    <2>1. i \in Items /\ work'[p] = work[p] \ {i} /\ enc \in [Items -> Keys \cup {NoKey, Clear}]
      BY <1>3 DEF TypeOK, ProcsTypeOK, DiskTypeOK
    <2>2. /\ phase[p] = "forward" /\ Through(p) /\ OneMount(PointOf[Op(p)]) /\ privDir
      BY <1>1, CopyingPlace
    <2>3. /\ Op(p) = "create" => enc' = [enc EXCEPT ![i] = hdr.key] /\ plain' = plain
          /\ Op(p) = "recover" => plain' = plain \cup {i} /\ enc' = enc
      BY <1>1, <1>3, <2>1, CopyPuts
    <2>4. OneKey'
      BY <1>1, <2>1, <2>2, <2>3 DEF SoloInv, OneKey, Through
    <2>5. ViewInv' /\ HeaderInv'
      BY <1>1, <2>2 DEF SoloInv, ViewInv, OneMount, HeaderInv, Readable
    <2>6. Op(p)' = Op(p) /\ PointOf[Op(p)]' = PointOf[Op(p)]
      BY <1>3 DEF Op
    <2>7. OneMount(PointOf[Op(p)])'
      BY <1>1, <2>2, <2>6 DEF OneMount
    <2>8. PlaceInv(p)' /\ CopyInv(p)' /\ MountInv(p)'
      BY <1>1, <1>3, <2>2, <2>6, <2>7 DEF SoloInv, Mine, PlaceInv, OnTheWay, CopyInv,
         MountInv, Through
    <2>9. BackInv(p)'
      BY <1>1, <1>3, <2>1, <2>3, <2>6 DEF SoloInv, Mine, BackInv, Ciphertext
    <2> QED BY <2>4, <2>5, <2>8, <2>9, Alone DEF Mine
  <1>4. PICK i \in IF work[p] \cap Dirs # {} THEN work[p] \cap Dirs ELSE work[p] :
          \/ /\ Put(TargetOf(p), i) /\ work' = [work EXCEPT ![p] = @ \ {i}]
             /\ UNCHANGED <<pc, call, phase, hcopy, bad, ret, faults>>
          \/ CopyFailed(p) /\ UNCHANGED <<plain, enc>>
    BY DEF CopyItem
  <1>5. i \in work[p]
    BY <1>4
  <1> QED BY <1>2, <1>3, <1>4, <1>5

LEMMA SoloCopyEnds ==
  ASSUME OneCaller, TypeOK, SoloInv, NEW p \in Procs, CopyEnds(p)
  PROVE  SoloInv'
PROOF
  <1>1. Moves /\ pc[p] = "copy" /\ work[p] = {} /\ UNCHANGED <<disk, mtab>>
    BY DEF CopyEnds, Moves, disk, kernel, ghosts
  <1>2. pc'[p] = "ucheck" /\ call'[p] = call[p] /\ phase'[p] = phase[p]
    BY GotoEffect DEF CopyEnds, TypeOK
  <1>3. Op(p)' = Op(p) /\ PointOf[Op(p)]' = PointOf[Op(p)]
    BY <1>2 DEF Op
  <1>4. phase[p] = "forward" /\ Through(p)' /\ OneMount(PointOf[Op(p)])'
    BY <1>1, <1>3, CopyingPlace DEF Through, OneMount, Moves
  <1>5. Op(p) = "recover" => Ciphertext' \subseteq plain'
    BY <1>1, <1>4 DEF SoloInv, Mine, BackInv, Ciphertext, disk
  <1>6. PlaceInv(p)' /\ CopyInv(p)' /\ MountInv(p)' /\ BackInv(p)'
    BY <1>2, <1>3, <1>4, <1>5 DEF PlaceInv, OnTheWay, CopyInv, MountInv, BackInv, Through
  <1> QED BY <1>1, <1>6, MoveStep DEF Mine

-----------------------------------------------------------------------------
(* remove_dir_content, and remove(3) of the directory itself.                *)

\* Where a removal can be, and what is mounted then.
LEMMA RemovingPlace ==
  ASSUME SoloInv, NEW p \in Procs, pc[p] \in {"rlist", "rdel", "rmdir"}
  PROVE  /\ mtab = <<>> \/ (phase[p] = "nocopy" /\ OneMount(PointOf[Op(p)]))
         /\ phase[p] = "forward" /\ pc[p] # "rmdir" => Op(p) = "create"
         /\ phase[p] = "forward" /\ pc[p] = "rmdir" => Op(p) = "recover"
         /\ phase[p] = "nomount" => Op(p) = "recover"
         /\ phase[p] = "nocopy" => Through(p)
         /\ phase[p] = "destroy" => Op(p) \in {"remove", "recover"}
         /\ phase[p] \in Phases
PROOF BY DEF SoloInv, Mine, PlaceInv, OnTheWay, MountInv, Phases

\* remove_dir_content returns.
LEMMA RemoveDoneStep ==
  ASSUME OneCaller, TypeOK, SoloInv, NEW p \in Procs, pc[p] \in {"rlist", "rdel"},
         Moves, NEW ok, RemoveDone(p, ok)
  PROVE  SoloInv'
PROOF
  <1>1. CASE \E code : Finish(p, code)
    BY <1>1, FinishStep
  <1>2. CASE phase[p] = "forward" /\ Enter(p, "forward", "sread")
    <2>1. pc'[p] = "sread" /\ call'[p] = call[p] /\ phase'[p] = "forward"
      BY <1>2, EnterEffect DEF TypeOK
    <2>2. mtab' = <<>> /\ Op(p) = "create"
      BY <1>2, RemovingPlace DEF Moves
    <2>3. Mine(p)'
      BY <2>1, <2>2 DEF Mine, PlaceInv, OnTheWay, MountInv, CopyInv, BackInv, Op, Through
    <2> QED BY <2>3, MoveStep
  <1>3. CASE /\ phase[p] # "forward" /\ ~(phase[p] = "nocopy" /\ Op(p) = "recover")
             /\ Goto(p, "rmdir")
    <2>1. pc'[p] = "rmdir" /\ call'[p] = call[p] /\ phase'[p] = phase[p]
      BY <1>3, GotoEffect DEF TypeOK
    <2>2. Op(p)' = Op(p) /\ PointOf[Op(p)]' = PointOf[Op(p)]
      BY <2>1 DEF Op
    <2>3. mtab' = <<>> \/ (phase[p] = "nocopy" /\ OneMount(PointOf[Op(p)])')
      BY <2>2, RemovingPlace DEF OneMount, Moves
    <2>4. PlaceInv(p)'
      BY <1>3, <2>1, <2>2, RemovingPlace DEF PlaceInv, Through, Phases
    <2>5. MountInv(p)' /\ CopyInv(p)' /\ BackInv(p)'
      BY <1>3, <2>1, <2>2, <2>3 DEF MountInv, CopyInv, BackInv
    <2> QED BY <2>4, <2>5, MoveStep DEF Mine
  <1> QED BY <1>1, <1>2, <1>3 DEF RemoveDone

LEMMA SoloListForRemoval ==
  ASSUME OneCaller, TypeOK, SoloInv, NEW p \in Procs, ListForRemoval(p)
  PROVE  SoloInv'
PROOF
  <1>1. Moves /\ pc[p] = "rlist"
    BY DEF ListForRemoval, Moves, disk, kernel, ghosts
  <1>2. CASE RemoveDone(p, FALSE)
    BY <1>1, <1>2, RemoveDoneStep
  <1>3. CASE pc' = [pc EXCEPT ![p] = "rdel"] /\ UNCHANGED <<call, phase>>
    <2>1. pc'[p] = "rdel" /\ call'[p] = call[p] /\ phase'[p] = phase[p]
      BY <1>3 DEF TypeOK, ProcsTypeOK
    <2>2. Op(p)' = Op(p) /\ PointOf[Op(p)]' = PointOf[Op(p)]
      BY <2>1 DEF Op
    <2>3. mtab' = <<>> \/ (phase[p] = "nocopy" /\ OneMount(PointOf[Op(p)])')
      BY <1>1, <2>2, RemovingPlace DEF OneMount, Moves
    <2>4. PlaceInv(p)' /\ MountInv(p)' /\ CopyInv(p)' /\ BackInv(p)'
      BY <1>1, <2>1, <2>2, <2>3 DEF SoloInv, Mine, PlaceInv, OnTheWay, MountInv, CopyInv,
         BackInv, Through
    <2> QED BY <1>1, <2>4, MoveStep DEF Mine
  <1> QED BY <1>2, <1>3 DEF ListForRemoval

LEMMA SoloRemoveItem ==
  ASSUME OneCaller, TypeOK, SoloInv, NEW p \in Procs, RemoveItem(p)
  PROVE  SoloInv'
PROOF
  <1>1. /\ UNCHANGED <<pc, call, phase, hcopy, privDir, hdr, mtab, used>>
        /\ pc[p] = "rdel"
    BY DEF RemoveItem, kernel, ghosts
  <1>2. PICK i \in Items : Drop(ContentOf(p), i) \/ UNCHANGED <<plain, enc>>
    <2>1. PICK i \in IF Files(work[p]) # {} THEN Files(work[p]) ELSE work[p] :
            Drop(ContentOf(p), i) \/ UNCHANGED <<plain, enc>>
      BY DEF RemoveItem
    <2>2. i \in work[p] /\ work[p] \subseteq Items
      BY <2>1 DEF Files, TypeOK, ProcsTypeOK
    <2> QED BY <2>1, <2>2
  <1>3. \A j \in Items : enc'[j] = enc[j] \/ enc'[j] = NoKey
    BY <1>2 DEF Drop, TypeOK, DiskTypeOK
  <1>4. ViewInv' /\ OneKey' /\ HeaderInv'
    BY <1>1, <1>3 DEF SoloInv, ViewInv, OneMount, OneKey, HeaderInv, Readable
  <1>5. Op(p)' = Op(p) /\ PointOf[Op(p)]' = PointOf[Op(p)]
    BY <1>1 DEF Op
  <1>6. mtab' = <<>> \/ (phase'[p] = "nocopy" /\ OneMount(PointOf[Op(p)])')
    BY <1>1, <1>5, RemovingPlace DEF OneMount
  <1>7. PlaceInv(p)' /\ MountInv(p)' /\ CopyInv(p)' /\ BackInv(p)'
    BY <1>1, <1>5, <1>6 DEF SoloInv, Mine, PlaceInv, OnTheWay, MountInv, CopyInv, BackInv,
       Through
  <1> QED BY <1>4, <1>7, Alone DEF Mine

LEMMA SoloRemovalEnds ==
  ASSUME OneCaller, TypeOK, SoloInv, NEW p \in Procs, RemovalEnds(p)
  PROVE  SoloInv'
PROOF
  <1>1. Moves /\ pc[p] = "rdel" /\ RemoveDone(p, ~bad[p])
    BY DEF RemovalEnds, Moves, disk, kernel, ghosts
  <1> QED BY <1>1, RemoveDoneStep

LEMMA SoloRemoveRoot ==
  ASSUME OneCaller, TypeOK, SoloInv, NEW p \in Procs, RemoveRoot(p)
  PROVE  SoloInv'
PROOF
  <1>1. UNCHANGED <<plain, enc, hdr, used>> /\ pc[p] = "rmdir"
    BY DEF RemoveRoot, ghosts
  <1>2. CASE RmdirDone(p, FALSE) /\ UNCHANGED <<privDir, mtab>>
    BY <1>1, <1>2, FinishStep DEF RmdirDone, Moves
  <1>3. CASE /\ RootOf(p) = "P" /\ ~Mounted("P") /\ Ciphertext = {} /\ privDir' = FALSE
             /\ mtab' = [n \in 1..Len(mtab) |-> [mtab[n] EXCEPT !.live = FALSE]]
             /\ RmdirDone(p, TRUE)
    <2>1. phase[p] \in {"nocopy", "destroy"}
      BY <1>1, <1>3, RemovingPlace DEF RootOf, Phases
    <2>2. phase[p] = "nocopy" => Op(p) = "create"
      BY <1>1, <2>1 DEF SoloInv, Mine, PlaceInv
    <2>3. mtab = <<>>
      BY <1>1, <1>3, <2>2, RemovingPlace, PointsOf, MountSeen
    <2>4. mtab' = <<>> /\ \A i \in Items : enc[i] = NoKey
      BY <1>3, <2>3 DEF Ciphertext
    <2>5. ViewInv' /\ OneKey' /\ HeaderInv'
      BY <1>1, <1>3, <2>4 DEF SoloInv, ViewInv, OneKey, HeaderInv, Readable
    <2>6. CASE \E code : Finish(p, code)
      BY <2>5, <2>6, FinishMine, Alone DEF TypeOK
    <2>7. CASE phase[p] = "destroy" /\ Goto(p, "unlink")
      <3>1. pc'[p] = "unlink" /\ call'[p] = call[p] /\ phase'[p] = "destroy"
        BY <2>7, GotoEffect DEF TypeOK
      <3>2. Mine(p)'
        BY <1>1, <1>3, <2>4, <2>7, <3>1, RemovingPlace DEF Mine, PlaceInv, MountInv, CopyInv,
           BackInv, Op, Through
      <3> QED BY <2>5, <3>2, Alone
    <2> QED BY <1>3, <2>1, <2>6, <2>7 DEF RmdirDone
  <1>4. CASE RmdirDone(p, TRUE) /\ RootOf(p) = "R" /\ UNCHANGED <<privDir, mtab>>
    <2>1. phase[p] \in {"forward", "nomount"} /\ Moves
      BY <1>1, <1>4 DEF RootOf, Moves
    <2>2. CASE \E code : Finish(p, code)
      BY <2>1, <2>2, FinishStep
    <2>3. CASE phase[p] = "forward" /\ Goto(p, "rcheck")
      <3>1. pc'[p] = "rcheck" /\ call'[p] = call[p] /\ phase'[p] = phase[p]
        BY <2>3, GotoEffect DEF TypeOK
      <3>2. mtab' = <<>> /\ Op(p) = "recover"
        BY <1>1, <1>4, <2>3, RemovingPlace
      <3>3. Ciphertext' \subseteq plain'
        BY <1>1, <2>3, <3>2 DEF SoloInv, Mine, BackInv, Ciphertext
      <3>4. Mine(p)'
        BY <2>3, <3>1, <3>2, <3>3 DEF Mine, PlaceInv, OnTheWay, MountInv, CopyInv, BackInv,
           Op, Through
      <3> QED BY <2>1, <3>4, MoveStep
    <2> QED BY <1>4, <2>1, <2>2, <2>3 DEF RmdirDone
  <1> QED BY <1>2, <1>3, <1>4 DEF RemoveRoot

-----------------------------------------------------------------------------
(* The environment, and the induction.                                       *)

LEMMA SoloKill ==
  ASSUME OneCaller, TypeOK, SoloInv, NEW p \in Procs, Kill(p)
  PROVE  SoloInv'
PROOF
  <1>1. Moves
    BY DEF Kill, Moves, disk, kernel, ghosts
  <1> QED BY <1>1, FinishStep DEF Kill

LEMMA SoloReboot ==
  ASSUME TypeOK, SoloInv, Reboot
  PROVE  SoloInv'
PROOF
  <1>1. UNCHANGED <<privDir, enc, hdr, used>> /\ mtab' = <<>>
    BY DEF Reboot, disk, ghosts
  <1>2. ViewInv' /\ OneKey' /\ HeaderInv'
    BY <1>1 DEF SoloInv, ViewInv, OneKey, HeaderInv, Readable
  <1>3. \A p \in Procs : Mine(p)'
    BY IdleMine DEF Reboot
  <1> QED BY <1>2, <1>3 DEF SoloInv

\* An application's item lies in the clear, or is encrypted with the key of the
\* key file by the mount over the storage path.
LEMMA AppPuts ==
  ASSUME SoloInv, NEW i \in Items, Put("S", i)
  PROVE  \/ plain' = plain \cup {i} /\ enc' = enc
         \/ OneMount("S") /\ enc' = [enc EXCEPT ![i] = hdr.key] /\ plain' = plain
PROOF
  <1>1. CASE ~Mounted("S")
    BY <1>1 DEF Put
  <1>2. CASE Mounted("S")
    <2>1. mtab # <<>>
      BY <1>2, NothingSeen
    <2>2. OneMount("S")
      BY <1>2, <2>1, MountSeen DEF SoloInv, ViewInv
    <2>3. Top("S").key = hdr.key
      BY <2>2, MountSeen DEF OneMount
    <2> QED BY <1>2, <2>2, <2>3 DEF Put
  <1> QED BY <1>1, <1>2

LEMMA SoloAppWrite ==
  ASSUME OneCaller, TypeOK, SoloInv, NEW i \in Items, AppWrite(i)
  PROVE  SoloInv'
PROOF
  <1>1. UNCHANGED <<privDir, hdr, mtab, used, pc, call, phase, hcopy, work>>
    BY DEF AppWrite, kernel, procs
  <1>2. \/ plain' = plain \cup {i} /\ enc' = enc
        \/ OneMount("S") /\ enc' = [enc EXCEPT ![i] = hdr.key] /\ plain' = plain
    BY AppPuts DEF AppWrite
  <1>3. OneMount("S") => privDir /\ mtab # <<>>
    BY MountSeen DEF SoloInv, ViewInv
  <1>4. enc \in [Items -> Keys \cup {NoKey, Clear}]
    BY DEF TypeOK, DiskTypeOK
  <1>5. OneKey' /\ HeaderInv'
    BY <1>1, <1>2, <1>4 DEF SoloInv, OneKey, HeaderInv, Readable
  <1>6. ViewInv'
    BY <1>1, <1>2, <1>3 DEF SoloInv, ViewInv, OneMount
  <1>7. ASSUME NEW p \in Procs PROVE Mine(p)'
    <2>1. Op(p)' = Op(p) /\ PointOf[Op(p)]' = PointOf[Op(p)]
      BY <1>1 DEF Op
    <2>2. OneMount(PointOf[Op(p)])' = OneMount(PointOf[Op(p)])
      BY <1>1, <2>1 DEF OneMount
    <2>3. Mounted(PointOf[Op(p)])' = Mounted(PointOf[Op(p)])
      BY <1>1, <2>1 DEF Mounted, Mounts
    <2>4. PlaceInv(p)' /\ CopyInv(p)'
      BY <1>1, <2>1 DEF SoloInv, Mine, PlaceInv, OnTheWay, CopyInv, Through, Readable
    <2>5. pc[p] = "newhdr" => enc' = enc
      BY <1>2, <1>3 DEF SoloInv, Mine, MountInv
    <2>6. MountInv(p)'
      BY <1>1, <2>1, <2>2, <2>3, <2>5 DEF SoloInv, Mine, MountInv, Through
    <2>7. ~(/\ Op(p) = "recover" /\ phase[p] = "forward" /\ OneMount("S")
            /\ pc[p] \in {"copy", "ucheck", "umount", "ukeys", "rmdir", "rcheck"})
      <3>1. Op(p) = "recover" => PointOf[Op(p)] = "R"
        BY PointsOf
      <3>2. Op(p) = "recover" /\ OneMount(PointOf[Op(p)]) => ~OneMount("S")
        BY <3>1 DEF OneMount
      <3> QED BY <1>3, <3>2 DEF SoloInv, Mine, MountInv, Through
    <2>8. BackInv(p)'
      BY <1>1, <1>2, <2>1, <2>7 DEF SoloInv, Mine, BackInv, Ciphertext
    <2> QED BY <2>4, <2>6, <2>8 DEF Mine
  <1> QED BY <1>5, <1>6, <1>7 DEF SoloInv

LEMMA SoloInit == Init => SoloInv
PROOF BY DEF Init, SoloInv, ViewInv, HeaderInv, OneKey, Mine, PlaceInv, MountInv, CopyInv,
         BackInv, NoHeader, Readable

LEMMA SoloStep ==
  ASSUME OneCaller, TypeOK, SoloInv, [Next]_vars
  PROVE  SoloInv'
PROOF
  <1>1. ASSUME NEW p \in Procs, Step(p) PROVE SoloInv'
    BY <1>1, SoloCreateChecks, SoloMakePrivateDir, SoloWriteNewHeader, SoloUnlockChecks,
       SoloRecoverChecks, SoloMakeRecoveryDir, SoloRemoveChecks, SoloUnlinkKeyFile,
       SoloReadForStatus, SoloReadForChange, SoloWriteBack, SoloMountCheck, SoloMountOpen,
       SoloMountKeys, SoloMountFs, SoloUmountCheck, SoloUmount, SoloUmountKeys,
       SoloListForCopy, SoloCopyItem, SoloCopyEnds, SoloListForRemoval, SoloRemoveItem,
       SoloRemovalEnds, SoloRemoveRoot DEF Step
  <1>2. ASSUME NEW p \in Procs, Kill(p) \/ \E c \in CallArgs : Start(p, c)
        PROVE  SoloInv'
    BY <1>2, SoloKill, SoloStart
  <1>3. CASE Reboot
    BY <1>3, SoloReboot
  <1>4. CASE \E i \in Items : AppWrite(i)
    BY <1>4, SoloAppWrite
  <1>5. CASE UNCHANGED vars
    <2>1. UNCHANGED <<plain, privDir, enc, hdr, mtab, used, pc, call, phase, hcopy, work>>
      BY <1>5 DEF vars, disk, kernel, procs, ghosts
    <2>2. ViewInv' /\ HeaderInv' /\ OneKey'
      BY <2>1 DEF SoloInv, ViewInv, OneMount, HeaderInv, Readable, OneKey
    <2>3. ASSUME NEW p \in Procs PROVE Mine(p)'
      <3>1. Op(p)' = Op(p) /\ PointOf[Op(p)]' = PointOf[Op(p)]
        BY <2>1 DEF Op
      <3>2. /\ OneMount(PointOf[Op(p)])' = OneMount(PointOf[Op(p)])
            /\ Mounted(PointOf[Op(p)])' = Mounted(PointOf[Op(p)])
        BY <2>1, <3>1 DEF OneMount, Mounted, Mounts
      <3>3. PlaceInv(p)' /\ CopyInv(p)' /\ BackInv(p)'
        BY <2>1, <3>1 DEF SoloInv, Mine, PlaceInv, OnTheWay, CopyInv, BackInv, Through,
           Readable, Ciphertext
      <3>4. MountInv(p)'
        BY <2>1, <3>1, <3>2 DEF SoloInv, Mine, MountInv, Through
      <3> QED BY <3>3, <3>4 DEF Mine
    <2> QED BY <2>2, <2>3 DEF SoloInv
  <1> QED BY <1>1, <1>2, <1>3, <1>4, <1>5 DEF Next

\* With one caller, SoloInv is inductive.
THEOREM SoloCorrect ==
  ASSUME OneCaller
  PROVE  Spec => [](TypeOK /\ SoloInv)
PROOF
  <1>1. TypeOK /\ SoloInv /\ [Next]_vars => (TypeOK /\ SoloInv)'
    BY TypeStep, SoloStep
  <1> QED BY <1>1, TypeInit, SoloInit, PTL DEF Spec

\* One password opens all of a storage or nothing: whatever fails and wherever
\* the caller dies, no item lies in P unencrypted or under an older key.
THEOREM OneKeyCorrect ==
  ASSUME OneCaller
  PROVE  Spec => []OneKey
PROOF
  <1>1. SoloInv => OneKey
    BY DEF SoloInv
  <1> QED BY <1>1, SoloCorrect, PTL

-----------------------------------------------------------------------------
(* What a return value of 0 promises, and what no step undoes.               *)

\* Only a call's own step returns its code.
LEMMA ReturnStep ==
  ASSUME TypeOK, NEW p \in Procs, NEW op, Returns0(p, op), [Next]_vars,
         \A q \in Procs : q = p
  PROVE  Step(p)
PROOF
  <1>1. pc[p] # "idle" /\ pc'[p] = "idle" /\ ret'[p] = "ok"
    BY DEF Returns0
  <1>2. ~Kill(p)
    BY <1>1 DEF Kill, Finish, TypeOK, ProcsTypeOK
  <1>3. ~Reboot
    BY <1>1 DEF Reboot
  <1>4. ~(\E c \in CallArgs : Start(p, c))
    BY <1>1 DEF Start
  <1>5. ~(\E i \in Items : AppWrite(i)) /\ ~(UNCHANGED vars)
    BY <1>1 DEF AppWrite, procs, vars
  <1> QED BY <1>2, <1>3, <1>4, <1>5 DEF Next

LEMMA LockReturns ==
  ASSUME OneCaller, TypeOK, SoloInv, NEW p \in Procs, Returns0(p, "lock"), [Next]_vars
  PROVE  ~Mounted("S")'
PROOF
  <1>1. Step(p) /\ Op(p) = "lock" /\ pc'[p] = "idle" /\ ret'[p] = "ok"
    BY ReturnStep DEF OneCaller, Returns0
  <1>2. pc[p] \in {"ucheck", "umount", "ukeys"}
    BY <1>1 DEF SoloInv, Mine, PlaceInv, OnTheWay, Through, Returns0
  <1>3. PointOf[Op(p)] = "S" /\ phase[p] = "forward"
    BY <1>1, PointsOf DEF SoloInv, Mine, PlaceInv, Through
  <1>4. ~UmountDone(p, FALSE)
    BY <1>1, <1>3 DEF UmountDone, Finish, TypeOK, ProcsTypeOK
  <1>5. UmountCheck(p) \/ Umount(p) \/ UmountKeys(p)
    BY <1>1, <1>2 DEF Step, CreateChecks, MakePrivateDir, WriteNewHeader, UnlockChecks,
       RecoverChecks, MakeRecoveryDir, RemoveChecks, UnlinkKeyFile, ReadForStatus,
       ReadForChange, WriteBack, MountCheck, MountOpen, MountKeys, MountFs, ListForCopy,
       CopyItem, CopyEnds, ListForRemoval, RemoveItem, RemovalEnds, RemoveRoot
  <1>6. CASE UmountCheck(p)
    <2>1. Listed("S") = {} /\ mtab' = mtab
      BY <1>1, <1>3, <1>4, <1>6 DEF UmountCheck, kernel, TypeOK, ProcsTypeOK
    <2> QED BY <2>1 DEF Listed, Mounted, Mounts
  <1>7. CASE Umount(p)
    <2>1. Goto(p, "ukeys")
      BY <1>4, <1>7 DEF Umount
    <2> QED BY <1>1, <2>1, GotoEffect DEF TypeOK
  <1>8. CASE UmountKeys(p)
    <2>1. ~Mounted("S") /\ mtab' = mtab
      BY <1>3, <1>8 DEF UmountKeys, SoloInv, Mine, MountInv
    <2> QED BY <2>1 DEF Mounted, Mounts
  <1> QED BY <1>5, <1>6, <1>7, <1>8

\* Which steps touch the key file.
LEMMA HeaderSteps ==
  ASSUME OneCaller, TypeOK, SoloInv, [Next]_vars, hdr' # hdr
  PROVE  \E p \in Procs : WriteNewHeader(p) \/ WriteBack(p) \/ UnlinkKeyFile(p)
PROOF
  <1>1. ASSUME NEW p \in Procs, Step(p), ~WriteNewHeader(p), ~WriteBack(p), ~UnlinkKeyFile(p)
        PROVE  hdr' = hdr
    BY <1>1 DEF Step, disk, CreateChecks, MakePrivateDir, UnlockChecks,
       RecoverChecks, MakeRecoveryDir, RemoveChecks, ReadForStatus, ReadForChange,
       MountCheck, MountOpen, MountKeys, MountFs, UmountCheck, Umount, UmountKeys,
       ListForCopy, CopyItem, CopyEnds, ListForRemoval, RemoveItem, RemovalEnds, RemoveRoot
  <1>2. ASSUME NEW p \in Procs, Kill(p) \/ \E c \in CallArgs : Start(p, c)
        PROVE  hdr' = hdr
    BY <1>2 DEF Kill, Start, disk
  <1>3. Reboot \/ (\E i \in Items : AppWrite(i)) \/ UNCHANGED vars => hdr' = hdr
    BY DEF Reboot, AppWrite, vars, disk
  <1> QED BY <1>1, <1>2, <1>3 DEF Next

\* The header of a key changes by a status or a password written back.
LEMMA HeaderChange ==
  ASSUME OneCaller, TypeOK, SoloInv, [Next]_vars, hdr'.key = hdr.key
  PROVE  /\ hdr'.pass # hdr.pass => \E p \in Procs : pc[p] = "pwrite" /\ call[p].pw = hdr.pass
         /\ hdr.stat = "completed" => hdr'.stat = "completed"
PROOF
  <1> SUFFICES ASSUME hdr' # hdr
               PROVE  /\ hdr'.pass # hdr.pass =>
                           \E p \in Procs : pc[p] = "pwrite" /\ call[p].pw = hdr.pass
                      /\ hdr.stat = "completed" => hdr'.stat = "completed"
    OBVIOUS
  <1>1. used \subseteq Keys /\ (Readable(hdr) => hdr.key \in used)
    BY DEF TypeOK, GhostsTypeOK, SoloInv, HeaderInv
  <1>2. PICK p \in Procs : WriteNewHeader(p) \/ WriteBack(p) \/ UnlinkKeyFile(p)
    BY HeaderSteps
  <1>3. CASE WriteFails(p)
    BY <1>3 DEF WriteFails, SoloInv, HeaderInv, Readable, NoHeader
  <1>4. CASE hdr' = hcopy[p] /\ pc[p] \in {"swrite", "pwrite"}
    BY <1>4, Written
  <1>5. CASE hdr' = NoHeader
    <2>1. ~Readable(hdr) /\ hdr.pass = NoPassword
      BY <1>1, <1>5, KeyAssumption DEF SoloInv, HeaderInv, NoHeader
    <2> QED BY <1>5, <2>1 DEF Readable, NoHeader
  <1>6. CASE \E k \in Keys \ used : hdr'.key = k
    BY <1>1, <1>6, KeyAssumption DEF SoloInv, HeaderInv
  <1> QED BY <1>2, <1>3, <1>4, <1>5, <1>6 DEF WriteNewHeader, WriteBack, UnlinkKeyFile

LEMMA ChangeReturns ==
  ASSUME OneCaller, TypeOK, SoloInv, NEW p \in Procs, Returns0(p, "change"), [Next]_vars
  PROVE  hdr'.pass = call[p].new /\ hdr'.key = hdr.key
PROOF
  <1>1. Step(p) /\ Op(p) = "change" /\ pc[p] # "idle" /\ pc'[p] = "idle" /\ ret'[p] = "ok"
    BY ReturnStep DEF OneCaller, Returns0
  <1>2. pc[p] \in {"change", "pwrite"}
    BY <1>1 DEF SoloInv, Mine, PlaceInv, OnTheWay, Through
  <1>3. ReadForChange(p) \/ WriteBack(p)
    BY <1>1, <1>2 DEF Step, CreateChecks, MakePrivateDir, WriteNewHeader, UnlockChecks,
       RecoverChecks, MakeRecoveryDir, RemoveChecks, UnlinkKeyFile, ReadForStatus,
       MountCheck, MountOpen, MountKeys, MountFs, UmountCheck, Umount, UmountKeys,
       ListForCopy, CopyItem, CopyEnds, ListForRemoval, RemoveItem, RemovalEnds, RemoveRoot
  <1>4. ~Finish(p, "err")
    BY <1>1 DEF Finish, TypeOK, ProcsTypeOK
  <1>5. ~ReadForChange(p)
    BY <1>1, <1>4 DEF ReadForChange, TypeOK, ProcsTypeOK
  <1>6. hdr' = hcopy[p] /\ pc[p] = "pwrite"
    BY <1>2, <1>3, <1>4, <1>5 DEF WriteBack, WriteFails, ReadForChange
  <1> QED BY <1>6, Written

\* lock: when it returns 0, no decrypted view is left at the storage path.
THEOREM LockContractCorrect ==
  ASSUME OneCaller
  PROVE  Spec => LockContract
PROOF
  <1>1. TypeOK /\ SoloInv /\ [Next]_vars =>
          [\A p \in Procs : Returns0(p, "lock") => ~Mounted("S")']_vars
    BY LockReturns
  <1> QED BY <1>1, SoloCorrect, PTL DEF Spec, LockContract

\* change: when it returns 0, the new password protects the same master key.
THEOREM ChangeContractCorrect ==
  ASSUME OneCaller
  PROVE  Spec => ChangeContract
PROOF
  <1>1. TypeOK /\ SoloInv /\ [Next]_vars =>
          [\A p \in Procs : Returns0(p, "change") =>
             hdr'.pass = call[p].new /\ hdr'.key = hdr.key]_vars
    BY ChangeReturns
  <1> QED BY <1>1, SoloCorrect, PTL DEF Spec, ChangeContract

\* Nobody changes the password of a storage without giving the one in force.
THEOREM PasswordKeptCorrect ==
  ASSUME OneCaller
  PROVE  Spec => PasswordKept
PROOF
  <1>1. TypeOK /\ SoloInv /\ [Next]_vars =>
          [hdr'.key = hdr.key /\ hdr'.pass # hdr.pass =>
             \E p \in Procs : pc[p] = "pwrite" /\ call[p].pw = hdr.pass]_vars
    BY HeaderChange
  <1> QED BY <1>1, SoloCorrect, PTL DEF Spec, PasswordKept

\* An encrypted storage stays declared so until it is removed.
THEOREM CompletedStaysCorrect ==
  ASSUME OneCaller
  PROVE  Spec => CompletedStays
PROOF
  <1>1. TypeOK /\ SoloInv /\ [Next]_vars =>
          [hdr.stat = "completed" /\ hdr'.key = hdr.key => hdr'.stat = "completed"]_vars
    BY HeaderChange
  <1> QED BY <1>1, SoloCorrect, PTL DEF Spec, CompletedStays

\* A recovery that begins to destroy has all ciphertext back in the clear.
LEMMA DestroyStarts ==
  ASSUME OneCaller, TypeOK, SoloInv, [Next]_vars, NEW p \in Procs, pc[p] = "rcheck",
         Op(p) = "recover", phase'[p] = "destroy", Durable
  PROVE  data \subseteq plain
PROOF
  <1>1. phase[p] = "forward" => Ciphertext \subseteq plain
    BY DEF SoloInv, Mine, BackInv
  <1>2. phase[p] = "forward"
    BY DEF SoloInv, Mine, PlaceInv
  <1>3. Decryptable \subseteq Ciphertext
    <2>1. used \subseteq Keys
      BY DEF TypeOK, GhostsTypeOK
    <2> QED BY <2>1, KeyAssumption DEF Decryptable, Ciphertext, SoloInv, HeaderInv
  <1> QED BY <1>1, <1>2, <1>3 DEF Durable

\* A recovery destroys no ciphertext before everything that could be recovered
\* lies in the clear.
THEOREM DestroyOnlyRecoveredCorrect ==
  ASSUME OneCaller
  PROVE  Spec => DestroyOnlyRecovered
PROOF
  <1>1. TypeOK /\ SoloInv /\ [Next]_vars =>
          [\A p \in Procs :
             pc[p] = "rcheck" /\ Op(p) = "recover" /\ phase'[p] = "destroy" /\ Durable =>
               data \subseteq plain]_vars
    BY DestroyStarts
  <1> QED BY <1>1, SoloCorrect, PTL DEF Spec, DestroyOnlyRecovered

-----------------------------------------------------------------------------
(* When nothing fails, nobody dies in a call and applications leave a storage *)
(* alone while a call runs, each call does all it is for, and no more.       *)

Undisturbed == MaxFaults = 0 /\ MaxKills = 0 /\ ~AppsDuringCalls

\* p has made the private directory and not yet returned.
Making(p) == Op(p) = "create" /\ pc[p] \notin {"idle", "create", "mkpriv"}

\* The steps between the making and the removal of the recovery directory.
Recovering(p) == /\ Op(p) = "recover" /\ phase[p] \in {"forward", "nomount"}
                 /\ pc[p] \notin {"idle", "recover", "mkrec", "rcheck"}

\* Which files and directories are there, and what the key file says.
StageInv(p) ==
  /\ phase[p] # "nocopy" /\ ~bad[p]
  /\ hdr.stat = IF pc[p] = "unlink" THEN "completed"
                ELSE IF ~privDir \/ pc[p] = "newhdr" THEN "absent"
                ELSE IF Making(p) THEN "not_started" ELSE "completed"
  /\ pc[p] = "mkpriv" => ~privDir
  /\ privDir \/ pc[p] \in {"idle", "create", "mkpriv", "unlock", "ucheck", "umount", "ukeys",
                           "change", "recover", "rcheck", "unlink"}
  /\ Making(p) \/ Recovering(p) \/ (Op(p) = "recover" /\ pc[p] = "rcheck") => privDir
  /\ Making(p) /\ pc[p] # "newhdr" => hdr.pass = call[p].pw
  /\ recDir <=> Recovering(p)

\* The keyring holds the tokens of what is mounted, of what is about to be,
\* and of what has just been unmounted.
KeysInv(p) ==
  /\ pc[p] \in {"mount", "ukeys"} => keyring = Tokens(hdr.key) /\ mtab = <<>>
  /\ pc[p] \notin {"mount", "ukeys"} =>
       keyring = IF mtab = <<>> THEN {} ELSE Tokens(hdr.key)
  /\ pc[p] \in {"umount", "ukeys"} => hcopy[p].key = hdr.key
  /\ \/ mtab = <<>> \/ OneMount("S")
     \/ Through(p) /\ pc[p] \in {"list", "copy", "ucheck", "umount"}
  /\ pc[p] = "umount" => OneMount(PointOf[Op(p)])

\* The steps at which an item may be both in the clear and encrypted.
Overlap(p) ==
  \/ Op(p) = "create" /\ pc[p] \in {"copy", "ucheck", "umount", "ukeys", "rlist", "rdel"}
  \/ /\ Op(p) = "recover" /\ phase[p] # "nomount"
     /\ \/ phase[p] = "destroy"
        \/ pc[p] \in {"copy", "ucheck", "umount", "ukeys", "rmdir", "rcheck"}

\* Where the data is: a creation moves it to the ciphertext, a recovery and
\* the removal that ends it move it back.
DataInv(p) ==
  /\ data = IF phase[p] = "destroy" /\ pc[p] # "rcheck" THEN plain
            ELSE plain \cup Ciphertext
  /\ plain \cap Ciphertext = {} \/ Overlap(p)
  /\ Op(p) = "create" =>
       /\ pc[p] \in {"newhdr", "mcheck", "mopen", "mkeys", "mount", "list"} => Ciphertext = {}
       /\ pc[p] = "copy" => work[p] \subseteq plain /\ Ciphertext = plain \ work[p]
       /\ pc[p] \in {"ucheck", "umount", "ukeys", "rlist"} => Ciphertext = plain
       /\ pc[p] = "rdel" => work[p] = plain /\ plain \subseteq Ciphertext
       /\ pc[p] \in {"sread", "swrite"} => plain = {}
  /\ Op(p) = "recover" /\ pc[p] = "copy" => work[p] = Ciphertext \ plain
  /\ phase[p] = "nomount" => work[p] = {}
  /\ phase[p] = "destroy" =>
       /\ pc[p] = "rdel" => work[p] = Ciphertext
       /\ pc[p] \in {"rmdir", "unlink"} => Ciphertext = {}

CleanInv == /\ faults = 0 /\ kills = 0
            /\ \A p \in Procs : StageInv(p) /\ KeysInv(p) /\ DataInv(p)

Good == OneCaller /\ Undisturbed /\ TypeOK /\ SoloInv /\ CleanInv

LEMMA NoFault ==
  ASSUME Good, NEW kind
  PROVE  ~Fault(kind)
PROOF BY DEF Good, Undisturbed, CleanInv, Fault

LEMMA CleanAlone ==
  ASSUME OneCaller, NEW p \in Procs, faults' = 0, kills' = 0,
         StageInv(p)', KeysInv(p)', DataInv(p)'
  PROVE  CleanInv'
PROOF
  <1>1. \A q \in Procs : q = p
    BY DEF OneCaller
  <1>2. \A q \in Procs : StageInv(q)' /\ KeysInv(q)' /\ DataInv(q)'
    BY <1>1
  <1> QED BY <1>2 DEF CleanInv

\* The storage between calls, and until a call changes it.
Settled == /\ hdr.stat = IF privDir THEN "completed" ELSE "absent"
           /\ ~recDir
           /\ mtab = <<>> \/ OneMount("S")
           /\ keyring = IF mtab = <<>> THEN {} ELSE Tokens(hdr.key)
           /\ plain \cap Ciphertext = {} /\ data = plain \cup Ciphertext

AtRest(p) ==
  \/ pc[p] \in {"idle", "create", "mkpriv", "unlock", "change", "pwrite", "recover", "mkrec"}
  \/ Op(p) = "unlock" /\ pc[p] \in {"mcheck", "mopen", "mkeys"}
  \/ Op(p) = "lock" /\ pc[p] = "ucheck"
  \/ Op(p) = "remove" /\ pc[p] = "rcheck"

LEMMA RestIsSettled ==
  ASSUME Good, NEW p \in Procs, AtRest(p)
  PROVE  Settled
PROOF
  <1>1. PlaceInv(p) /\ StageInv(p) /\ KeysInv(p) /\ DataInv(p)
    BY DEF Good, SoloInv, Mine, CleanInv
  <1>2. /\ ~Making(p) /\ ~Recovering(p) /\ ~Overlap(p) /\ pc[p] \notin {"unlink", "newhdr"}
        /\ pc[p] \notin {"mount", "ukeys"} /\ ~(phase[p] = "destroy" /\ pc[p] # "rcheck")
        /\ ~(Through(p) /\ pc[p] \in {"list", "copy", "ucheck", "umount"})
    BY <1>1 DEF PlaceInv, OnTheWay, Through, AtRest, Making, Recovering, Overlap
  <1> QED BY <1>1, <1>2 DEF Settled, StageInv, KeysInv, DataInv

\* The storage stays settled when nothing shared moves.
Still == UNCHANGED <<disk, mtab, keyring, data, faults, kills>>
LEMMA StillSettled ==
  ASSUME Settled, Still
  PROVE  Settled'
PROOF
  <1>1. Ciphertext' = Ciphertext
    BY DEF Still, disk, Ciphertext
  <1>2. OneMount("S")' = OneMount("S")
    BY DEF Still, disk, OneMount
  <1> QED BY <1>1, <1>2 DEF Settled, Still, disk, Tokens

LEMMA StaysAtRest ==
  ASSUME OneCaller, NEW p \in Procs, SoloInv', Settled', AtRest(p)', faults' = 0, kills' = 0,
         ~bad'[p], phase'[p] = "forward" \/ pc'[p] = "rcheck", pc'[p] = "mkpriv" => ~privDir',
         privDir' \/ pc'[p] \notin {"pwrite", "mkrec", "mcheck", "mopen", "mkeys"}
  PROVE  CleanInv'
PROOF
  <1>1. PlaceInv(p)'
    BY DEF SoloInv, Mine
  <1>2. /\ ~Making(p)' /\ ~Recovering(p)' /\ pc'[p] \notin {"unlink", "newhdr", "umount"}
        /\ pc'[p] \notin {"mount", "ukeys"} /\ ~(phase'[p] = "destroy" /\ pc'[p] # "rcheck")
        /\ phase'[p] # "nocopy"
    BY <1>1 DEF PlaceInv, OnTheWay, Through, AtRest, Making, Recovering
  <1>3. StageInv(p)'
    BY <1>1, <1>2 DEF StageInv, Settled, AtRest
  <1>4. KeysInv(p)'
    BY <1>2 DEF KeysInv, Settled
  <1>5. DataInv(p)'
    BY <1>1, <1>2 DEF DataInv, Settled, AtRest, PlaceInv, OnTheWay, Through
  <1> QED BY <1>3, <1>4, <1>5, CleanAlone

LEMMA ReturnsSettled ==
  ASSUME OneCaller, TypeOK, NEW p \in Procs, SoloInv', Settled', faults' = 0, kills' = 0,
         NEW code, Finish(p, code)
  PROVE  CleanInv'
PROOF
  <1>1. pc'[p] = "idle" /\ phase'[p] = "forward" /\ ~bad'[p]
    BY DEF Finish, TypeOK, ProcsTypeOK
  <1> QED BY <1>1, StaysAtRest DEF AtRest

\* A call that has changed nothing returns.
LEMMA ReturnsAtRest ==
  ASSUME Good, NEW p \in Procs, SoloInv', AtRest(p), Still, NEW code, Finish(p, code)
  PROVE  CleanInv'
PROOF
  <1>1. Settled'
    BY RestIsSettled, StillSettled
  <1>2. faults' = 0 /\ kills' = 0
    BY DEF Good, CleanInv, Still
  <1> QED BY <1>1, <1>2, ReturnsSettled DEF Good

\* A call that has changed nothing goes on.
LEMMA GoesAtRest ==
  ASSUME Good, NEW p \in Procs, SoloInv', AtRest(p), Still, NEW step, pc'[p] = step,
         call'[p] = call[p], phase'[p] = phase[p], bad'[p] = bad[p], AtRest(p)',
         step = "mkpriv" => ~privDir,
         privDir \/ step \notin {"pwrite", "mkrec", "mcheck", "mopen", "mkeys"}
  PROVE  CleanInv'
PROOF
  <1>1. Settled' /\ faults' = 0 /\ kills' = 0 /\ privDir' = privDir
    BY RestIsSettled, StillSettled DEF Good, CleanInv, Still, disk
  <1>2. PlaceInv(p)' /\ ~bad'[p]
    BY DEF Good, SoloInv, Mine, CleanInv, StageInv
  <1>3. phase'[p] = "forward" \/ pc'[p] = "rcheck"
    BY <1>2 DEF AtRest, PlaceInv, OnTheWay, Through
  <1> QED BY <1>1, <1>2, <1>3, StaysAtRest DEF Good

-----------------------------------------------------------------------------
(* One lemma per action: calls that start, and what they check first.        *)

LEMMA Frame ==
  ASSUME Still
  PROVE  /\ plain' = plain /\ privDir' = privDir /\ enc' = enc /\ hdr' = hdr /\ recDir' = recDir
         /\ mtab' = mtab /\ keyring' = keyring /\ data' = data
         /\ faults' = faults /\ kills' = kills /\ Ciphertext' = Ciphertext
         /\ \A pt : OneMount(pt)' = OneMount(pt)
PROOF BY DEF Still, disk, Ciphertext, OneMount

LEMMA CleanStart ==
  ASSUME Good, SoloInv', NEW p \in Procs, NEW c \in CallArgs, Start(p, c)
  PROVE  CleanInv'
PROOF
  <1>1. c.op \in ApiCalls /\ pc[p] = "idle"
    BY DEF CallArgs, ApiCalls, Start
  <1>2. /\ pc'[p] = FirstStep[c.op] /\ Op(p)' = c.op /\ bad'[p] = bad[p]
        /\ phase'[p] = IF c.op = "remove" THEN "destroy" ELSE "forward"
    BY DEF Start, Good, TypeOK, ProcsTypeOK, Op
  <1>3. AtRest(p)' /\ (phase'[p] = "forward" \/ pc'[p] = "rcheck")
    BY <1>1, <1>2 DEF AtRest, FirstStep, ApiCalls
  <1>4. pc'[p] \notin {"mkpriv", "pwrite", "mkrec", "mcheck", "mopen", "mkeys"}
    BY <1>1, <1>2 DEF FirstStep, ApiCalls
  <1>5. Still
    BY DEF Start, Still, kernel, ghosts, budget
  <1>6. Settled' /\ faults' = 0 /\ kills' = 0 /\ ~bad'[p]
    BY <1>1, <1>2, <1>5, RestIsSettled, StillSettled, Frame DEF AtRest, Good, CleanInv, StageInv
  <1> QED BY <1>3, <1>4, <1>6, StaysAtRest DEF Good

LEMMA CleanCreateChecks ==
  ASSUME Good, SoloInv', NEW p \in Procs, CreateChecks(p)
  PROVE  CleanInv'
PROOF
  <1>1. AtRest(p) /\ Still
    BY NoFault DEF CreateChecks, AtRest, Still, kernel, ghosts, Good, CleanInv
  <1>2. CASE Finish(p, "err")
    BY <1>1, <1>2, ReturnsAtRest
  <1>3. CASE ~privDir /\ Goto(p, "mkpriv")
    <2>1. /\ pc'[p] = "mkpriv" /\ call'[p] = call[p] /\ phase'[p] = phase[p]
          /\ bad'[p] = bad[p]
      BY <1>3, GotoEffect DEF Good, TypeOK
    <2> QED BY <1>1, <1>3, <2>1, GoesAtRest DEF AtRest
  <1> QED BY <1>2, <1>3, NoFault DEF CreateChecks

LEMMA CleanUnlockChecks ==
  ASSUME Good, SoloInv', NEW p \in Procs, UnlockChecks(p)
  PROVE  CleanInv'
PROOF
  <1>1. AtRest(p) /\ Still /\ pc[p] = "unlock"
    BY DEF UnlockChecks, AtRest, Still, kernel, ghosts, budget
  <1>2. CASE \E code : Finish(p, code)
    BY <1>1, <1>2, ReturnsAtRest
  <1>3. CASE hdr.stat = "completed" /\ Goto(p, "mcheck")
    <2>1. /\ pc'[p] = "mcheck" /\ call'[p] = call[p] /\ phase'[p] = phase[p]
          /\ bad'[p] = bad[p]
      BY <1>3, GotoEffect DEF Good, TypeOK
    <2>2. Op(p)' = "unlock"
      BY <1>1, <2>1 DEF Good, SoloInv, Mine, PlaceInv, OnTheWay, Op
    <2>3. privDir
      BY <1>1, <1>3, RestIsSettled DEF Settled
    <2> QED BY <1>1, <2>1, <2>2, <2>3, GoesAtRest DEF AtRest
  <1> QED BY <1>2, <1>3 DEF UnlockChecks

LEMMA CleanRecoverChecks ==
  ASSUME Good, SoloInv', NEW p \in Procs, RecoverChecks(p)
  PROVE  CleanInv'
PROOF
  <1>1. AtRest(p) /\ Still
    BY NoFault DEF RecoverChecks, AtRest, Still, kernel, ghosts
  <1>2. CASE Finish(p, "err")
    BY <1>1, <1>2, ReturnsAtRest
  <1>3. CASE privDir /\ Goto(p, "mkrec")
    <2>1. /\ pc'[p] = "mkrec" /\ call'[p] = call[p] /\ phase'[p] = phase[p]
          /\ bad'[p] = bad[p]
      BY <1>3, GotoEffect DEF Good, TypeOK
    <2> QED BY <1>1, <1>3, <2>1, GoesAtRest DEF AtRest
  <1> QED BY <1>2, <1>3, NoFault DEF RecoverChecks

LEMMA CleanReadForChange ==
  ASSUME Good, SoloInv', NEW p \in Procs, ReadForChange(p)
  PROVE  CleanInv'
PROOF
  <1>1. AtRest(p) /\ Still
    BY DEF ReadForChange, AtRest, Still, kernel, ghosts, budget
  <1>2. CASE Finish(p, "err")
    BY <1>1, <1>2, ReturnsAtRest
  <1>3. CASE ~Finish(p, "err")
    <2>1. /\ Readable(hdr) /\ pc'[p] = "pwrite" /\ call'[p] = call[p]
          /\ phase'[p] = phase[p] /\ bad'[p] = bad[p]
      BY <1>3 DEF ReadForChange, Good, TypeOK, ProcsTypeOK
    <2>2. privDir
      BY <1>1, <2>1, RestIsSettled DEF Settled, Readable
    <2> QED BY <1>1, <2>1, <2>2, GoesAtRest DEF AtRest
  <1> QED BY <1>2, <1>3

\* EFS_remove and the last part of a recovery: nothing is mounted by then.
LEMMA CleanRemoveChecks ==
  ASSUME Good, SoloInv', NEW p \in Procs, RemoveChecks(p)
  PROVE  CleanInv'
PROOF
  <1>1. /\ UNCHANGED <<disk, mtab, keyring, faults, kills>> /\ pc[p] = "rcheck"
        /\ Op(p) \in {"remove", "recover"}
    BY NoFault DEF RemoveChecks, kernel, Good, SoloInv, Mine, PlaceInv, OnTheWay, Through
  <1>2. CASE (\E code : Finish(p, code)) /\ UNCHANGED data /\ Op(p) = "remove"
    BY <1>1, <1>2, ReturnsAtRest DEF AtRest, Still
  <1>3. Op(p) = "recover" =>
          /\ privDir /\ Listed("P") = {} /\ phase[p] = "forward"
          /\ Ciphertext \subseteq plain
    BY <1>1, NothingSeen DEF Good, SoloInv, Mine, PlaceInv, MountInv, BackInv, CleanInv, StageInv
  <1>4. CASE /\ privDir /\ Listed("P") = {} /\ Enter(p, "destroy", "rlist")
             /\ data' = IF Op(p) = "remove" THEN data \cap plain ELSE data
    <2>1. /\ pc'[p] = "rlist" /\ call'[p] = call[p] /\ phase'[p] = "destroy" /\ ~bad'[p]
      BY <1>4, EnterEffect DEF Good, TypeOK
    <2>2. Op(p)' = Op(p)
      BY <2>1 DEF Op
    <2>3. mtab = <<>>
      BY <1>4, ListedNothing DEF Good
    <2>4. /\ plain' = plain /\ privDir' = privDir /\ hdr' = hdr /\ recDir' = recDir
          /\ mtab' = mtab /\ keyring' = keyring /\ Ciphertext' = Ciphertext
      BY <1>1 DEF disk, Ciphertext
    <2>5. StageInv(p)'
      BY <1>1, <1>4, <2>1, <2>2, <2>4 DEF Good, CleanInv, StageInv, Making, Recovering
    <2>6. KeysInv(p)'
      BY <1>1, <2>1, <2>3, <2>4 DEF Good, CleanInv, KeysInv
    <2>7. DataInv(p)'
      BY <1>1, <1>3, <1>4, <2>1, <2>2, <2>4 DEF Good, CleanInv, DataInv, Overlap
    <2>8. faults' = 0 /\ kills' = 0
      BY <1>1 DEF Good, CleanInv
    <2> QED BY <2>5, <2>6, <2>7, <2>8, CleanAlone DEF Good
  <1> QED BY <1>1, <1>2, <1>3, <1>4, NoFault DEF RemoveChecks

LEMMA CleanMakeRecoveryDir ==
  ASSUME Good, SoloInv', NEW p \in Procs, MakeRecoveryDir(p)
  PROVE  CleanInv'
PROOF
  <1>1. /\ UNCHANGED <<plain, privDir, enc, hdr, mtab, keyring, data, faults, kills>>
        /\ pc[p] = "mkrec" /\ Op(p) = "recover" /\ phase[p] = "forward"
    BY NoFault DEF MakeRecoveryDir, kernel, ghosts, Good, SoloInv, Mine, PlaceInv, OnTheWay
  <1>2. ~recDir /\ privDir /\ Settled
    BY <1>1, RestIsSettled DEF AtRest, Settled, Good, CleanInv, StageInv
  <1>3. recDir' = TRUE /\ Goto(p, "mcheck")
    BY <1>2, NoFault DEF MakeRecoveryDir
  <1>4. /\ pc'[p] = "mcheck" /\ call'[p] = call[p] /\ phase'[p] = "forward"
        /\ bad'[p] = bad[p]
    BY <1>1, <1>3, GotoEffect DEF Good, TypeOK
  <1>5. Op(p)' = Op(p) /\ Ciphertext' = Ciphertext /\ OneMount("S")' = OneMount("S")
    BY <1>1, <1>4 DEF Op, Ciphertext, OneMount
  <1>6. StageInv(p)'
    BY <1>1, <1>2, <1>3, <1>4, <1>5 DEF Good, CleanInv, StageInv, Making, Recovering, Settled
  <1>7. KeysInv(p)' /\ DataInv(p)'
    BY <1>1, <1>2, <1>4, <1>5 DEF KeysInv, DataInv, Settled, Tokens
  <1>8. faults' = 0 /\ kills' = 0
    BY <1>1 DEF Good, CleanInv
  <1> QED BY <1>6, <1>7, <1>8, CleanAlone DEF Good

LEMMA CleanUnlinkKeyFile ==
  ASSUME Good, SoloInv', NEW p \in Procs, UnlinkKeyFile(p)
  PROVE  CleanInv' /\ Finish(p, "ok") /\ data' \subseteq plain' /\ ~privDir'
PROOF
  <1>1. /\ UNCHANGED <<plain, privDir, enc, recDir, mtab, keyring, data, faults, kills>>
        /\ pc[p] = "unlink"
    BY NoFault DEF UnlinkKeyFile, kernel, ghosts
  <1>2. phase[p] = "destroy" /\ mtab = <<>> /\ ~privDir /\ ~Making(p)
    BY <1>1 DEF Good, SoloInv, Mine, PlaceInv, OnTheWay, MountInv, Making
  <1>3. /\ hdr.stat = "completed" /\ ~recDir /\ keyring = {} /\ data = plain /\ Ciphertext = {}
    BY <1>1, <1>2 DEF Good, CleanInv, StageInv, KeysInv, DataInv, Recovering
  <1>4. hdr' = NoHeader /\ Finish(p, "ok")
    BY <1>3, NoFault DEF UnlinkKeyFile
  <1>5. Ciphertext' = Ciphertext
    BY <1>1 DEF Ciphertext
  <1>6. Settled'
    BY <1>1, <1>2, <1>3, <1>4, <1>5 DEF Settled, NoHeader
  <1> QED BY <1>1, <1>2, <1>3, <1>4, <1>6, ReturnsSettled DEF Good, CleanInv

LEMMA CleanMakePrivateDir ==
  ASSUME Good, SoloInv', NEW p \in Procs, MakePrivateDir(p)
  PROVE  CleanInv'
PROOF
  <1>1. /\ UNCHANGED <<plain, enc, hdr, recDir, mtab, keyring, data, faults, kills>>
        /\ pc[p] = "mkpriv" /\ Op(p) = "create" /\ phase[p] = "forward"
    BY NoFault DEF MakePrivateDir, kernel, ghosts, Good, SoloInv, Mine, PlaceInv, OnTheWay
  <1>2. ~privDir /\ Settled
    BY <1>1, RestIsSettled DEF AtRest, Good, CleanInv, StageInv
  <1>3. mtab = <<>> /\ Ciphertext = {}
    BY <1>2 DEF Good, SoloInv, ViewInv, Ciphertext
  <1>4. privDir' = TRUE /\ Goto(p, "newhdr")
    BY <1>2, NoFault DEF MakePrivateDir
  <1>5. /\ pc'[p] = "newhdr" /\ call'[p] = call[p] /\ phase'[p] = "forward"
        /\ bad'[p] = bad[p]
    BY <1>1, <1>4, GotoEffect DEF Good, TypeOK
  <1>6. Op(p)' = Op(p) /\ Ciphertext' = Ciphertext
    BY <1>1, <1>5 DEF Op, Ciphertext
  <1>7. StageInv(p)'
    BY <1>1, <1>2, <1>4, <1>5, <1>6 DEF Good, CleanInv, StageInv, Making, Recovering, Settled
  <1>8. KeysInv(p)' /\ DataInv(p)'
    BY <1>1, <1>2, <1>3, <1>5, <1>6 DEF KeysInv, DataInv, Settled
  <1>9. faults' = 0 /\ kills' = 0
    BY <1>1 DEF Good, CleanInv
  <1> QED BY <1>7, <1>8, <1>9, CleanAlone DEF Good

LEMMA CleanWriteNewHeader ==
  ASSUME Good, SoloInv', NEW p \in Procs, WriteNewHeader(p)
  PROVE  CleanInv'
PROOF
  <1>1. /\ UNCHANGED <<plain, privDir, enc, recDir, mtab, keyring, data, kills>>
        /\ pc[p] = "newhdr" /\ Op(p) = "create" /\ phase[p] = "forward"
    BY DEF WriteNewHeader, kernel, Good, SoloInv, Mine, PlaceInv, OnTheWay
  <1>2. /\ hdr'.stat = "not_started" /\ hdr'.pass = call[p].pw
        /\ Goto(p, "mcheck") /\ faults' = faults
    BY NoFault DEF WriteNewHeader, WriteFails
  <1>3. mtab = <<>>
    BY <1>1 DEF Good, SoloInv, Mine, MountInv
  <1>4. /\ pc'[p] = "mcheck" /\ call'[p] = call[p] /\ phase'[p] = "forward"
        /\ bad'[p] = bad[p]
    BY <1>1, <1>2, GotoEffect DEF Good, TypeOK
  <1>5. Op(p)' = Op(p) /\ Ciphertext' = Ciphertext
    BY <1>1, <1>4 DEF Op, Ciphertext
  <1>6. StageInv(p)'
    BY <1>1, <1>2, <1>4, <1>5 DEF Good, CleanInv, StageInv, Making, Recovering
  <1>7. KeysInv(p)'
    BY <1>1, <1>3, <1>4 DEF Good, CleanInv, KeysInv
  <1>8. DataInv(p)'
    BY <1>1, <1>4, <1>5 DEF Good, CleanInv, DataInv, Overlap
  <1>9. faults' = 0 /\ kills' = 0
    BY <1>1, <1>2 DEF Good, CleanInv
  <1> QED BY <1>6, <1>7, <1>8, <1>9, CleanAlone DEF Good

LEMMA CleanReadForStatus ==
  ASSUME Good, SoloInv', NEW p \in Procs, ReadForStatus(p)
  PROVE  CleanInv'
PROOF
  <1>1. Still /\ pc[p] = "sread" /\ Op(p) = "create" /\ phase[p] = "forward"
    BY DEF ReadForStatus, Still, kernel, ghosts, budget, Good, SoloInv, Mine, PlaceInv, OnTheWay
  <1>2. hdr.stat = "not_started"
    BY <1>1 DEF Good, CleanInv, StageInv, Making
  <1>3. /\ pc'[p] = "swrite" /\ call'[p] = call[p] /\ phase'[p] = phase[p]
        /\ bad'[p] = bad[p]
    BY <1>2 DEF ReadForStatus, Readable, Good, TypeOK, ProcsTypeOK
  <1>4. Op(p)' = Op(p)
    BY <1>3 DEF Op
  <1>5. StageInv(p)' /\ KeysInv(p)' /\ DataInv(p)'
    BY <1>1, <1>3, <1>4, Frame DEF Good, CleanInv, StageInv, KeysInv, DataInv, Making,
       Recovering, Overlap, Through, Tokens
  <1> QED BY <1>1, <1>5, Frame, CleanAlone DEF Good, CleanInv

\* The creation is complete when its status is written.
LEMMA CleanWriteBack ==
  ASSUME Good, SoloInv', NEW p \in Procs, WriteBack(p)
  PROVE  /\ CleanInv'
         /\ Op(p) = "create" => /\ plain' = {} /\ data' = Ciphertext' /\ mtab' = <<>>
                                /\ hdr'.stat = "completed" /\ OneKey'
PROOF
  <1>1. /\ UNCHANGED <<plain, privDir, enc, recDir, mtab, keyring, data, faults, kills>>
        /\ pc[p] \in {"swrite", "pwrite"} /\ hdr' = hcopy[p] /\ Finish(p, "ok")
    BY NoFault DEF WriteBack, WriteFails, kernel
  <1>2. Ciphertext' = Ciphertext
    BY <1>1 DEF Ciphertext
  <1>3. hdr'.key = hdr.key
    BY <1>1, Written DEF Good
  <1>4. OneMount("S")' = OneMount("S")
    BY <1>1, <1>3 DEF OneMount
  <1>5. CASE pc[p] = "pwrite"
    <2>1. Op(p) = "change" /\ Settled /\ hdr'.stat = hdr.stat
      BY <1>1, <1>5, RestIsSettled, Written DEF AtRest, Good, SoloInv, Mine, PlaceInv, OnTheWay
    <2>2. Settled'
      BY <1>1, <1>2, <1>3, <1>4, <2>1 DEF Settled, Tokens
    <2> QED BY <1>1, <2>1, <2>2, ReturnsSettled DEF Good, CleanInv
  <1>6. CASE pc[p] = "swrite"
    <2>1. Op(p) = "create" /\ mtab = <<>> /\ Making(p) /\ phase[p] = "forward"
      BY <1>6 DEF Good, SoloInv, Mine, PlaceInv, OnTheWay, MountInv, Making
    <2>2. /\ privDir /\ ~recDir /\ keyring = {} /\ plain = {} /\ data = Ciphertext
      BY ZenonT(40), <1>6, <2>1 DEF Good, CleanInv, StageInv, KeysInv, DataInv, Recovering
    <2>3. hdr'.stat = "completed"
      BY <1>1, <1>6, Written DEF Good
    <2>4. Settled'
      BY <1>1, <1>2, <2>1, <2>2, <2>3 DEF Settled
    <2> QED BY <1>1, <1>2, <2>1, <2>2, <2>3, <2>4, ReturnsSettled DEF Good, CleanInv, SoloInv
  <1> QED BY <1>1, <1>5, <1>6

-----------------------------------------------------------------------------
(* mount_ecryptfs succeeds, or the password was not the one in force.        *)

LEMMA CleanMountCheck ==
  ASSUME Good, SoloInv', NEW p \in Procs, MountCheck(p)
  PROVE  CleanInv' /\ (Finish(p, "ok") => OneMount("S")')
PROOF
  <1>1. /\ Still /\ pc[p] = "mcheck" /\ phase[p] = "forward"
        /\ Op(p) \in {"create", "unlock", "recover"}
    BY NoFault, MountingPlace DEF MountCheck, Still, kernel, ghosts, Good
  <1>2. ASSUME Goto(p, "mopen")
        PROVE  /\ pc'[p] = "mopen" /\ call'[p] = call[p] /\ phase'[p] = phase[p]
               /\ bad'[p] = bad[p] /\ Op(p)' = Op(p) /\ ~Finish(p, "ok")
    <2>1. /\ pc'[p] = "mopen" /\ call'[p] = call[p] /\ phase'[p] = phase[p]
          /\ bad'[p] = bad[p]
      BY <1>2, GotoEffect DEF Good, TypeOK
    <2> QED BY <2>1 DEF Op, Finish, Good, TypeOK, ProcsTypeOK
  <1>3. CASE Op(p) = "unlock"
    <2>1. AtRest(p) /\ privDir
      BY <1>1, <1>3 DEF AtRest, Good, CleanInv, StageInv
    <2>2. CASE Listed("P") # {} /\ Finish(p, "ok")
      <3>1. OneMount("S")
        BY <2>1, <2>2, RestIsSettled, NothingSeen DEF Settled
      <3> QED BY <1>1, <2>1, <2>2, <3>1, Frame, ReturnsAtRest
    <2>3. CASE Goto(p, "mopen")
      BY <1>1, <1>2, <1>3, <2>1, <2>3, GoesAtRest DEF AtRest
    <2> QED BY <1>3, <2>2, <2>3, NoFault DEF MountCheck, MountDone
  <1>4. CASE Op(p) # "unlock"
    <2>1. mtab = <<>>
      BY <1>1, <1>4, MountingPlace DEF Good
    <2>2. Goto(p, "mopen")
      BY <2>1, NothingSeen, NoFault DEF MountCheck
    <2>3. StageInv(p)'
      BY <1>1, <1>2, <2>2, Frame DEF Good, CleanInv, StageInv, Making, Recovering
    <2>4. KeysInv(p)' /\ DataInv(p)'
      BY <1>1, <1>2, <2>1, <2>2, Frame DEF Good, CleanInv, KeysInv, DataInv, Overlap
    <2> QED BY <1>1, <1>2, <2>2, <2>3, <2>4, Frame, CleanAlone DEF Good, CleanInv
  <1> QED BY <1>3, <1>4

LEMMA CleanMountOpen ==
  ASSUME Good, SoloInv', NEW p \in Procs, MountOpen(p)
  PROVE  CleanInv' /\ ~Finish(p, "ok")
PROOF
  <1>1. /\ Still /\ pc[p] = "mopen" /\ phase[p] = "forward" /\ mtab = <<>>
        /\ Op(p) \in {"create", "unlock", "recover"} /\ privDir
    BY MountingPlace DEF MountOpen, Still, kernel, ghosts, budget, Good, CleanInv, StageInv
  <1>2. CASE ~MountFailed(p)
    <2>1. /\ pc'[p] = "mkeys" /\ call'[p] = call[p] /\ phase'[p] = phase[p]
          /\ bad'[p] = bad[p] /\ Op(p)' = Op(p) /\ ~Finish(p, "ok")
      BY <1>2 DEF MountOpen, Good, TypeOK, ProcsTypeOK, Op, Finish
    <2>2. StageInv(p)'
      BY <1>1, <2>1, Frame DEF Good, CleanInv, StageInv, Making, Recovering
    <2>3. KeysInv(p)' /\ DataInv(p)'
      BY <1>1, <2>1, Frame DEF Good, CleanInv, KeysInv, DataInv, Overlap
    <2> QED BY <1>1, <2>1, <2>2, <2>3, Frame, CleanAlone DEF Good, CleanInv
  <1>3. CASE MountFailed(p)
    <2>1. Op(p) # "create"
      <3>1. Op(p) = "create" => /\ hdr.stat = "not_started" /\ hdr.pass = call[p].pw
                                /\ Exists(PointOf[Op(p)])
        BY <1>1, PointsOf DEF Good, CleanInv, StageInv, Making, Exists
      <3>2. Op(p) = "create" => pc'[p] = "mkeys"
        BY <3>1 DEF MountOpen, Readable, Good, TypeOK, ProcsTypeOK
      <3>3. Op(p) = "create" => pc'[p] = "idle"
        BY <1>3 DEF MountFailed, Finish, Good, TypeOK, ProcsTypeOK
      <3> QED BY <3>2, <3>3
    <2>2. CASE Op(p) = "unlock"
      <3>1. AtRest(p) /\ Finish(p, "err")
        BY <1>1, <1>3, <2>2 DEF AtRest, MountFailed
      <3> QED BY <1>1, <3>1, ReturnsAtRest DEF Finish, Good, TypeOK, ProcsTypeOK
    <2>3. CASE Op(p) = "recover"
      <3>1. /\ pc'[p] = "rlist" /\ call'[p] = call[p] /\ phase'[p] = "nomount"
            /\ ~bad'[p] /\ work'[p] = {}
        BY <1>3, <2>3 DEF MountFailed, Enter, Good, TypeOK, ProcsTypeOK
      <3>2. Op(p)' = Op(p) /\ ~Finish(p, "ok")
        BY <3>1 DEF Op, Finish, Good, TypeOK, ProcsTypeOK
      <3>3. StageInv(p)'
        BY <1>1, <2>3, <3>1, <3>2, Frame DEF Good, CleanInv, StageInv, Making, Recovering
      <3>4. KeysInv(p)' /\ DataInv(p)'
        BY <1>1, <2>3, <3>1, <3>2, Frame DEF Good, CleanInv, KeysInv, DataInv, Overlap
      <3> QED BY <1>1, <3>2, <3>3, <3>4, Frame, CleanAlone DEF Good, CleanInv
    <2> QED BY <1>1, <2>1, <2>2, <2>3
  <1> QED BY <1>2, <1>3

LEMMA CleanMountKeys ==
  ASSUME Good, SoloInv', NEW p \in Procs, MountKeys(p)
  PROVE  CleanInv' /\ ~Finish(p, "ok")
PROOF
  <1>1. /\ UNCHANGED <<plain, privDir, enc, hdr, recDir, mtab, data, faults, kills>>
        /\ pc[p] = "mkeys" /\ phase[p] = "forward" /\ mtab = <<>> /\ Goto(p, "mount")
        /\ Op(p) \in {"create", "unlock", "recover"}
        /\ keyring' = keyring \cup Tokens(hcopy[p].key)
    BY NoFault, MountingPlace DEF MountKeys, disk, ghosts, Good
  <1>2. keyring = {} /\ hcopy[p].key = hdr.key /\ privDir
    BY <1>1 DEF Good, SoloInv, Mine, CopyInv, CleanInv, KeysInv, StageInv
  <1>3. /\ pc'[p] = "mount" /\ call'[p] = call[p] /\ phase'[p] = phase[p]
        /\ bad'[p] = bad[p]
    BY <1>1, GotoEffect DEF Good, TypeOK
  <1>4. Op(p)' = Op(p) /\ Ciphertext' = Ciphertext /\ ~Finish(p, "ok")
    BY <1>1, <1>3 DEF Op, Ciphertext, Finish, Good, TypeOK, ProcsTypeOK
  <1>5. StageInv(p)'
    BY <1>1, <1>2, <1>3, <1>4 DEF Good, CleanInv, StageInv, Making, Recovering
  <1>6. KeysInv(p)'
    BY <1>1, <1>2, <1>3 DEF KeysInv, Tokens
  <1>7. DataInv(p)'
    BY <1>1, <1>3, <1>4 DEF Good, CleanInv, DataInv, Overlap
  <1> QED BY <1>1, <1>4, <1>5, <1>6, <1>7, CleanAlone DEF Good, CleanInv

LEMMA CleanMountFs ==
  ASSUME Good, SoloInv', NEW p \in Procs, MountFs(p)
  PROVE  CleanInv' /\ (Finish(p, "ok") => OneMount("S")')
PROOF
  <1>1. /\ UNCHANGED <<plain, privDir, enc, hdr, recDir, keyring, data, kills>>
        /\ pc[p] = "mount" /\ phase[p] = "forward" /\ mtab = <<>>
        /\ Op(p) \in {"create", "unlock", "recover"}
    BY MountingPlace DEF MountFs, disk, ghosts, Good
  <1>2. /\ hcopy[p].key = hdr.key /\ privDir /\ keyring = Tokens(hdr.key)
        /\ Op(p) = "recover" => recDir
    BY <1>1 DEF Good, SoloInv, Mine, CopyInv, CleanInv, KeysInv, StageInv, Recovering
  <1>3. Exists(PointOf[Op(p)]) /\ ~Mounted("P") /\ Tokens(hcopy[p].key) \subseteq keyring
    BY <1>1, <1>2, PointsOf, NothingSeen DEF Exists
  <1>4. /\ mtab' = Append(mtab, [at |-> PointOf[Op(p)], key |-> hcopy[p].key, live |-> TRUE])
        /\ MountDone(p) /\ faults' = faults
    BY <1>2, <1>3, NoFault DEF MountFs
  <1>5. mtab' = <<[at |-> PointOf[Op(p)], key |-> hdr.key, live |-> TRUE]>>
    BY <1>1, <1>2, <1>4
  <1>6. /\ Len(mtab') = 1 /\ mtab'[1].at = PointOf[Op(p)] /\ mtab'[1].key = hdr.key
        /\ mtab'[1].live /\ mtab' # <<>>
    BY <1>5
  <1>7. \A pt : pt = PointOf[Op(p)] => OneMount(pt)'
    BY <1>1, <1>6 DEF OneMount
  <1>8. Ciphertext' = Ciphertext /\ faults' = 0 /\ kills' = 0
    BY <1>1, <1>4 DEF Ciphertext, Good, CleanInv
  <1>9. plain \cap Ciphertext = {} /\ data = plain \cup Ciphertext
    BY <1>1 DEF Good, CleanInv, DataInv, Overlap
  <1>10. CASE Op(p) = "unlock"
    <2>1. OneMount("S")'
      BY <1>7, <1>10, PointsOf
    <2>2. hdr.stat = "completed" /\ ~recDir
      BY <1>1, <1>2, <1>10 DEF Good, CleanInv, StageInv, Making, Recovering
    <2>3. Settled'
      BY <1>1, <1>2, <1>6, <1>8, <1>9, <2>1, <2>2 DEF Settled, Tokens
    <2> QED BY <1>4, <1>8, <1>10, <2>1, <2>3, ReturnsSettled DEF MountDone, Good
  <1>11. CASE Op(p) # "unlock"
    <2>1. /\ pc'[p] = "list" /\ call'[p] = call[p] /\ phase'[p] = phase[p]
          /\ bad'[p] = bad[p]
      BY <1>4, <1>11, GotoEffect DEF MountDone, Good, TypeOK
    <2>2. Op(p)' = Op(p) /\ ~Finish(p, "ok")
      BY <2>1 DEF Op, Finish, Good, TypeOK, ProcsTypeOK
    <2>3. StageInv(p)'
      BY <1>1, <1>2, <1>11, <2>1, <2>2 DEF Good, CleanInv, StageInv, Making, Recovering
    <2>4. KeysInv(p)'
      BY <1>1, <1>2, <1>6, <1>11, <2>1, <2>2 DEF KeysInv, Through, Tokens
    <2>5. DataInv(p)'
      BY <1>1, <1>8, <1>9, <1>11, <2>1, <2>2 DEF Good, CleanInv, DataInv
    <2> QED BY <1>8, <2>2, <2>3, <2>4, <2>5, CleanAlone DEF Good
  <1> QED BY <1>10, <1>11

-----------------------------------------------------------------------------
(* umount_ecryptfs succeeds.                                                 *)

LEMMA CleanUmountCheck ==
  ASSUME Good, SoloInv', NEW p \in Procs, UmountCheck(p)
  PROVE  CleanInv'
PROOF
  <1>1. /\ UNCHANGED <<disk, mtab, keyring, data, faults, kills>> /\ pc[p] = "ucheck"
        /\ (Op(p) = "lock" \/ Through(p)) /\ phase[p] = "forward"
        /\ Op(p) = "lock" => PointOf[Op(p)] = "S"
    BY NoFault, UnmountingPlace, PointsOf DEF UmountCheck, kernel, ghosts, Good, CleanInv,
       StageInv
  <1>2. Still
    BY <1>1 DEF Still
  <1>3. CASE Listed(PointOf[Op(p)]) = {}
    <2>1. Op(p) = "lock" /\ UmountDone(p, TRUE)
      BY <1>1, <1>3, UnmountingPlace, MountSeen, NoFault DEF UmountCheck, Good
    <2>2. AtRest(p) /\ Finish(p, "ok")
      BY <1>1, <2>1 DEF AtRest, UmountDone
    <2> QED BY <1>2, <2>2, ReturnsAtRest
  <1>4. CASE Listed(PointOf[Op(p)]) # {}
    <2>1. OneMount(PointOf[Op(p)])
      <3>1. CASE Op(p) = "lock"
        <4>1. mtab # <<>> /\ Settled
          BY <1>1, <1>4, <3>1, NothingSeen, RestIsSettled DEF AtRest
        <4> QED BY <1>1, <3>1, <4>1 DEF Settled
      <3>2. CASE Through(p)
        BY <1>1, <3>2, UnmountingPlace DEF Good
      <3> QED BY <1>1, <3>1, <3>2
    <2>2. /\ Listed(PointOf[Op(p)]) = {1} /\ mtab # <<>> /\ mtab[1].key = hdr.key
      BY <2>1, MountSeen DEF OneMount
    <2>3. (CHOOSE n \in Listed(PointOf[Op(p)]) : \A m \in Listed(PointOf[Op(p)]) : n <= m) = 1
      BY <2>2
    <2>4. /\ hcopy'[p].key = hdr.key /\ pc'[p] = "umount" /\ call'[p] = call[p]
          /\ phase'[p] = phase[p] /\ bad'[p] = bad[p]
      <3>1. /\ hcopy' = [hcopy EXCEPT ![p].key =
                  mtab[CHOOSE n \in Listed(PointOf[Op(p)]) :
                         \A m \in Listed(PointOf[Op(p)]) : n <= m].key]
            /\ pc' = [pc EXCEPT ![p] = "umount"] /\ UNCHANGED <<call, phase, bad>>
        BY <1>4, NoFault DEF UmountCheck
      <3>2. hcopy' = [hcopy EXCEPT ![p].key = hdr.key]
        BY <2>2, <2>3, <3>1
      <3>3. hcopy'[p].key = hdr.key
        BY <3>2 DEF Good, TypeOK, ProcsTypeOK, Header
      <3> QED BY <3>1, <3>3 DEF Good, TypeOK, ProcsTypeOK
    <2>5. Op(p)' = Op(p) /\ PointOf[Op(p)]' = PointOf[Op(p)]
      BY <2>4 DEF Op
    <2>6. OneMount(PointOf[Op(p)])' /\ (OneMount("S")' <=> OneMount("S"))
      BY <1>2, <2>1, <2>5, Frame
    <2>7. StageInv(p)'
      BY <1>1, <1>2, <2>4, <2>5, Frame DEF Good, CleanInv, StageInv, Making, Recovering
    <2>8. KeysInv(p)'
      BY <1>1, <1>2, <2>1, <2>2, <2>4, <2>5, <2>6, Frame DEF Good, CleanInv, KeysInv, Through,
         Tokens
    <2>9. DataInv(p)'
      BY <1>1, <1>2, <2>4, <2>5, Frame DEF Good, CleanInv, DataInv, Overlap, Through
    <2> QED BY <1>2, <2>7, <2>8, <2>9, Frame, CleanAlone DEF Good, CleanInv
  <1> QED BY <1>3, <1>4

LEMMA CleanUmount ==
  ASSUME Good, SoloInv', NEW p \in Procs, Umount(p)
  PROVE  CleanInv' /\ ~Finish(p, "ok")
PROOF
  <1>1. /\ UNCHANGED <<disk, keyring, data, kills>> /\ pc[p] = "umount"
        /\ (Op(p) = "lock" \/ Through(p)) /\ phase[p] = "forward"
        /\ OneMount(PointOf[Op(p)]) /\ hcopy[p].key = hdr.key
    BY UnmountingPlace DEF Umount, ghosts, Good, CleanInv, StageInv, KeysInv
  <1>2. Mounted(PointOf[Op(p)]) /\ Mounts(PointOf[Op(p)]) = {1} /\ mtab # <<>> /\ Len(mtab) = 1
    BY <1>1, MountSeen DEF OneMount
  <1>3. mtab' = Without(1) /\ Goto(p, "ukeys") /\ faults' = faults
    BY <1>2, NoFault DEF Umount
  <1>4. mtab' = <<>>
    BY <1>2, <1>3, WithoutOnly DEF Good, TypeOK, KernelTypeOK
  <1>5. /\ pc'[p] = "ukeys" /\ call'[p] = call[p] /\ phase'[p] = phase[p]
        /\ bad'[p] = bad[p] /\ hcopy'[p] = hcopy[p]
    BY <1>3, GotoEffect DEF Good, TypeOK
  <1>6. /\ Op(p)' = Op(p) /\ ~Finish(p, "ok") /\ Ciphertext' = Ciphertext
        /\ plain' = plain /\ privDir' = privDir /\ hdr' = hdr /\ recDir' = recDir
    BY <1>1, <1>5 DEF Op, Finish, Good, TypeOK, ProcsTypeOK, Ciphertext, disk
  <1>7. StageInv(p)'
    BY <1>1, <1>5, <1>6 DEF Good, CleanInv, StageInv, Making, Recovering
  <1>8. KeysInv(p)'
    BY <1>1, <1>2, <1>4, <1>5, <1>6 DEF Good, CleanInv, KeysInv, Tokens
  <1>9. DataInv(p)'
    BY <1>1, <1>5, <1>6 DEF Good, CleanInv, DataInv, Overlap, Through
  <1> QED BY <1>1, <1>3, <1>6, <1>7, <1>8, <1>9, CleanAlone DEF Good, CleanInv

LEMMA CleanUmountKeys ==
  ASSUME Good, SoloInv', NEW p \in Procs, UmountKeys(p)
  PROVE  CleanInv'
PROOF
  <1>1. /\ UNCHANGED <<disk, mtab, data, faults, kills>> /\ pc[p] = "ukeys"
        /\ (Op(p) = "lock" \/ Through(p)) /\ phase[p] = "forward"
    BY NoFault, UnmountingPlace DEF UmountKeys, ghosts, Good, CleanInv, StageInv
  <1>2. keyring = Tokens(hdr.key) /\ mtab = <<>> /\ hcopy[p].key = hdr.key
    BY <1>1 DEF Good, CleanInv, KeysInv
  <1>3. keyring' = {} /\ UmountDone(p, TRUE)
    BY <1>2, NoFault DEF UmountKeys, Tokens
  <1>4. /\ Ciphertext' = Ciphertext /\ faults' = 0 /\ kills' = 0 /\ mtab' = <<>>
        /\ plain' = plain /\ privDir' = privDir /\ hdr' = hdr /\ recDir' = recDir
        /\ data' = data
    BY <1>1, <1>2 DEF Ciphertext, disk, Good, CleanInv
  <1>5. CASE Op(p) = "lock"
    <2>1. Finish(p, "ok")
      BY <1>1, <1>3, <1>5 DEF UmountDone
    <2>2. /\ hdr.stat = IF privDir THEN "completed" ELSE "absent"
          /\ ~recDir /\ plain \cap Ciphertext = {} /\ data = plain \cup Ciphertext
      BY <1>1, <1>5 DEF Good, CleanInv, StageInv, DataInv, Making, Recovering, Overlap
    <2>3. Settled'
      BY <1>3, <1>4, <2>2 DEF Settled
    <2> QED BY <1>4, <2>1, <2>3, ReturnsSettled DEF Good
  <1>6. CASE Op(p) = "create"
    <2>1. /\ pc'[p] = "rlist" /\ call'[p] = call[p] /\ phase'[p] = "forward" /\ ~bad'[p]
      BY <1>1, <1>3, <1>6, EnterEffect DEF UmountDone, Good, TypeOK
    <2>2. Op(p)' = Op(p)
      BY <2>1 DEF Op
    <2>3. StageInv(p)'
      BY <1>1, <1>4, <1>6, <2>1, <2>2 DEF Good, CleanInv, StageInv, Making, Recovering
    <2>4. KeysInv(p)' /\ DataInv(p)'
      BY <1>1, <1>3, <1>4, <1>6, <2>1, <2>2 DEF Good, CleanInv, KeysInv, DataInv, Overlap
    <2> QED BY <1>4, <2>3, <2>4, CleanAlone DEF Good
  <1>7. CASE Op(p) = "recover"
    <2>1. /\ pc'[p] = "rmdir" /\ call'[p] = call[p] /\ phase'[p] = phase[p]
          /\ bad'[p] = bad[p]
      BY <1>1, <1>3, <1>7, GotoEffect DEF UmountDone, Good, TypeOK
    <2>2. Op(p)' = Op(p)
      BY <2>1 DEF Op
    <2>3. StageInv(p)'
      BY <1>1, <1>4, <1>7, <2>1, <2>2 DEF Good, CleanInv, StageInv, Making, Recovering
    <2>4. KeysInv(p)' /\ DataInv(p)'
      BY <1>1, <1>3, <1>4, <1>7, <2>1, <2>2 DEF Good, CleanInv, KeysInv, DataInv, Overlap
    <2> QED BY <1>4, <2>3, <2>4, CleanAlone DEF Good
  <1> QED BY <1>1, <1>5, <1>6, <1>7 DEF Through

-----------------------------------------------------------------------------
(* copy_dir_content succeeds.                                                *)

LEMMA CleanListForCopy ==
  ASSUME Good, SoloInv', NEW p \in Procs, ListForCopy(p)
  PROVE  CleanInv' /\ ~Finish(p, "ok")
PROOF
  <1>1. /\ Still /\ pc[p] = "list" /\ phase[p] = "forward" /\ Through(p)
        /\ OneMount(PointOf[Op(p)]) /\ privDir
    BY NoFault, CopyingPlace DEF ListForCopy, Still, kernel, ghosts, Good
  <1>2. /\ CanOpen(SourceOf(p))
        /\ Visible(SourceOf(p)) = IF Op(p) = "create" THEN plain ELSE Ciphertext
    <2>1. CASE Op(p) = "create"
      <3>1. SourceOf(p) = "S" /\ ~Mounted("S")
        BY <1>1, <2>1, CopyingPlace, MountSeen DEF Good
      <3> QED BY <2>1, <3>1 DEF CanOpen, Exists, Visible
    <2>2. CASE Op(p) = "recover"
      <3>1. SourceOf(p) = "R" /\ Mounted("R") /\ Top("R").live
        BY <1>1, <2>2, CopyingPlace, MountSeen DEF Good, OneMount
      <3> QED BY <2>2, <3>1 DEF CanOpen, Visible
    <2> QED BY <1>1, <2>1, <2>2 DEF Through
  <1>3. /\ pc'[p] = "copy" /\ call'[p] = call[p] /\ phase'[p] = phase[p]
        /\ bad'[p] = bad[p]
        /\ work'[p] = IF Op(p) = "create" THEN plain ELSE Ciphertext
    BY <1>2, NoFault DEF ListForCopy, Good, TypeOK, ProcsTypeOK
  <1>4. Op(p)' = Op(p) /\ ~Finish(p, "ok")
    BY <1>3 DEF Op, Finish, Good, TypeOK, ProcsTypeOK
  <1>5. StageInv(p)'
    BY <1>1, <1>3, <1>4, Frame DEF Good, CleanInv, StageInv, Making, Recovering, Through
  <1>6. KeysInv(p)'
    BY <1>1, <1>3, <1>4, Frame DEF Good, CleanInv, KeysInv, Through, Tokens
  <1>7. DataInv(p)'
    BY <1>1, <1>3, <1>4, Frame DEF Good, CleanInv, DataInv, Overlap, Through
  <1> QED BY <1>1, <1>4, <1>5, <1>6, <1>7, Frame, CleanAlone DEF Good, CleanInv

\* An item that is still to be copied can be read, and its copy made.
LEMMA CopyPossible ==
  ASSUME Good, NEW p \in Procs, pc[p] = "copy", NEW i \in work[p]
  PROVE  /\ CanPut(TargetOf(p)) /\ CanRead(SourceOf(p), i) /\ i \notin Visible(TargetOf(p))
         /\ IF Op(p) = "create" THEN i \in plain \ Ciphertext ELSE i \in Ciphertext \ plain
PROOF
  <1>1. phase[p] = "forward" /\ Through(p) /\ OneMount(PointOf[Op(p)])
    BY CopyingPlace DEF Good
  <1>2. /\ Op(p) = "create" => work[p] \subseteq plain /\ Ciphertext = plain \ work[p]
        /\ Op(p) = "recover" => work[p] = Ciphertext \ plain
    BY <1>1 DEF Good, CleanInv, DataInv
  <1>3. CASE Op(p) = "create"
    <2>1. /\ SourceOf(p) = "S" /\ TargetOf(p) = "P" /\ ~Mounted("S") /\ Mounted("P")
          /\ Top("P").live
      BY <1>3, CopyingPlace, MountSeen DEF Good, OneMount
    <2>2. Visible("S") = plain /\ Visible("P") = Ciphertext
      BY <2>1 DEF Visible
    <2> QED BY <1>2, <1>3, <2>1, <2>2 DEF CanPut, CanRead
  <1>4. CASE Op(p) = "recover"
    <2>1. /\ SourceOf(p) = "R" /\ TargetOf(p) = "S" /\ ~Mounted("S") /\ Mounted("R")
          /\ Top("R").live /\ Top("R").key = hdr.key
      BY <1>4, CopyingPlace, MountSeen DEF Good, OneMount
    <2>2. Visible("S") = plain /\ Visible("R") = Ciphertext
      BY <2>1 DEF Visible
    <2>3. \A j \in Ciphertext : enc[j] = hdr.key
      BY DEF Ciphertext, Good, SoloInv, OneKey
    <2> QED BY <1>2, <1>4, <2>1, <2>2, <2>3 DEF CanPut, CanRead, Exists
  <1> QED BY <1>1, <1>3, <1>4 DEF Through

\* The key of a storage is a key.
LEMMA KeyIsKey ==
  ASSUME Good, NEW p \in Procs, pc[p] = "copy"
  PROVE  hdr.key \in Keys /\ hdr.key # NoKey
PROOF
  <1>1. OneMount(PointOf[Op(p)]) /\ privDir /\ Through(p)
    BY CopyingPlace DEF Good
  <1>2. hdr.stat \in {"not_started", "completed"}
    BY <1>1 DEF Good, CleanInv, StageInv
  <1> QED BY <1>2, KeyAssumption DEF Good, SoloInv, HeaderInv, Readable, TypeOK, GhostsTypeOK

LEMMA CleanCopyItem ==
  ASSUME Good, SoloInv', NEW p \in Procs, CopyItem(p)
  PROVE  CleanInv' /\ ~Finish(p, "ok")
PROOF
  <1>1. /\ UNCHANGED <<privDir, hdr, recDir, mtab, keyring, data, kills>> /\ pc[p] = "copy"
        /\ phase[p] = "forward" /\ Through(p) /\ OneMount(PointOf[Op(p)])
    BY CopyingPlace DEF CopyItem, kernel, ghosts, Good
  <1>2. PICK i \in work[p] :
          /\ Put(TargetOf(p), i) /\ work' = [work EXCEPT ![p] = @ \ {i}]
          /\ UNCHANGED <<pc, call, phase, hcopy, bad, ret, faults>>
    <2>1. PICK i \in IF work[p] \cap Dirs # {} THEN work[p] \cap Dirs ELSE work[p] :
            LET possible == /\ CanPut(TargetOf(p)) /\ CanRead(SourceOf(p), i)
                            /\ i \in Dirs => i \notin Visible(TargetOf(p))
            IN \/ /\ possible /\ Put(TargetOf(p), i)
                  /\ work' = [work EXCEPT ![p] = @ \ {i}]
                  /\ UNCHANGED <<pc, call, phase, hcopy, bad, ret, faults>>
               \/ ~possible /\ CopyFailed(p) /\ UNCHANGED <<plain, enc, faults>>
      BY NoFault DEF CopyItem
    <2>2. i \in work[p]
      BY <2>1
    <2> QED BY <1>1, <2>1, <2>2, CopyPossible
  <1>3. /\ i \in Items /\ work'[p] = work[p] \ {i}
        /\ IF Op(p) = "create" THEN i \in plain \ Ciphertext ELSE i \in Ciphertext \ plain
    BY <1>1, <1>2, CopyPossible DEF Good, TypeOK, ProcsTypeOK
  <1>4. /\ Op(p) = "create" => enc' = [enc EXCEPT ![i] = hdr.key] /\ plain' = plain
        /\ Op(p) = "recover" => plain' = plain \cup {i} /\ enc' = enc
    BY <1>1, <1>2, <1>3, CopyPuts DEF Good
  <1>5. hdr.key # NoKey /\ enc \in [Items -> Keys \cup {NoKey, Clear}]
    BY <1>1, KeyIsKey DEF Good, TypeOK, DiskTypeOK
  <1>6. /\ Op(p) = "create" => Ciphertext' = Ciphertext \cup {i}
        /\ Op(p) = "recover" => Ciphertext' = Ciphertext
    BY <1>3, <1>4, <1>5 DEF Ciphertext
  <1>7. /\ pc'[p] = pc[p] /\ phase'[p] = phase[p] /\ bad'[p] = bad[p] /\ call'[p] = call[p]
        /\ Op(p)' = Op(p) /\ ~Finish(p, "ok")
    BY <1>1, <1>2 DEF Op, Finish, Good, TypeOK, ProcsTypeOK
  <1>8. StageInv(p)'
    BY <1>1, <1>7 DEF Good, CleanInv, StageInv, Making, Recovering
  <1>9. KeysInv(p)'
    BY <1>1, <1>7 DEF Good, CleanInv, KeysInv, Through, Tokens
  <1>10. DataInv(p)'
    BY <1>1, <1>3, <1>4, <1>6, <1>7 DEF Good, CleanInv, DataInv, Overlap, Through
  <1> QED BY <1>1, <1>2, <1>7, <1>8, <1>9, <1>10, CleanAlone DEF Good, CleanInv

LEMMA CleanCopyEnds ==
  ASSUME Good, SoloInv', NEW p \in Procs, CopyEnds(p)
  PROVE  CleanInv' /\ ~Finish(p, "ok")
PROOF
  <1>1. /\ Still /\ pc[p] = "copy" /\ phase[p] = "forward" /\ Through(p) /\ work[p] = {}
    BY CopyingPlace DEF CopyEnds, Still, kernel, ghosts, budget, Good
  <1>2. /\ pc'[p] = "ucheck" /\ call'[p] = call[p] /\ phase'[p] = phase[p]
        /\ bad'[p] = bad[p]
    BY GotoEffect DEF CopyEnds, Good, TypeOK
  <1>3. Op(p)' = Op(p) /\ ~Finish(p, "ok")
    BY <1>2 DEF Op, Finish, Good, TypeOK, ProcsTypeOK
  <1>4. StageInv(p)'
    BY <1>1, <1>2, <1>3, Frame DEF Good, CleanInv, StageInv, Making, Recovering, Through
  <1>5. KeysInv(p)'
    BY <1>1, <1>2, <1>3, Frame DEF Good, CleanInv, KeysInv, Through, Tokens
  <1>6. DataInv(p)'
    BY <1>1, <1>2, <1>3, Frame DEF Good, CleanInv, DataInv, Overlap, Through
  <1> QED BY <1>1, <1>3, <1>4, <1>5, <1>6, Frame, CleanAlone DEF Good, CleanInv

-----------------------------------------------------------------------------
(* remove_dir_content and remove(3) succeed.                                 *)

\* A removal is the last part of a creation, of a recovery without its mount,
\* or of a removal of the storage; nothing is mounted by then.
LEMMA RemovingClean ==
  ASSUME Good, NEW p \in Procs, pc[p] \in {"rlist", "rdel", "rmdir"}
  PROVE  /\ mtab = <<>> /\ keyring = {} /\ ~bad[p] /\ privDir
         /\ \/ phase[p] = "forward" /\ Op(p) = "create" /\ pc[p] # "rmdir"
            \/ phase[p] = "forward" /\ Op(p) = "recover" /\ pc[p] = "rmdir" /\ recDir
            \/ phase[p] = "nomount" /\ Op(p) = "recover" /\ recDir
            \/ phase[p] = "destroy" /\ Op(p) \in {"remove", "recover"}
PROOF
  <1>1. phase[p] # "nocopy" /\ ~bad[p] /\ privDir
    BY DEF Good, CleanInv, StageInv
  <1>2. mtab = <<>>
    BY <1>1, RemovingPlace DEF Good
  <1>3. keyring = {}
    BY <1>2 DEF Good, CleanInv, KeysInv
  <1>4. Recovering(p) => recDir
    BY DEF Good, CleanInv, StageInv
  <1> QED BY <1>1, <1>2, <1>3, <1>4, RemovingPlace DEF Good, Phases, Recovering

LEMMA CleanListForRemoval ==
  ASSUME Good, SoloInv', NEW p \in Procs, ListForRemoval(p)
  PROVE  CleanInv' /\ ~Finish(p, "ok")
PROOF
  <1>1. Still /\ pc[p] = "rlist" /\ mtab = <<>> /\ privDir
    BY NoFault, RemovingClean DEF ListForRemoval, Still, kernel, ghosts
  <1>2. \/ phase[p] = "forward" /\ Op(p) = "create" /\ ContentOf(p) = "S"
        \/ phase[p] = "nomount" /\ Op(p) = "recover" /\ ContentOf(p) = "R" /\ recDir
        \/ phase[p] = "destroy" /\ Op(p) \in {"remove", "recover"} /\ ContentOf(p) = "P"
    BY <1>1, RemovingClean DEF ContentOf
  <1>3. ~Mounted("S") /\ ~Mounted("R") /\ ~Mounted("P")
    BY <1>1, NothingSeen
  <1>4. CanOpen(ContentOf(p))
    BY <1>1, <1>2 DEF CanOpen, Exists
  <1>5. Visible(ContentOf(p)) = IF phase[p] = "forward" THEN plain
                                ELSE IF phase[p] = "nomount" THEN {} ELSE Ciphertext
    BY <1>2, <1>3 DEF Visible
  <1>6. /\ pc'[p] = "rdel" /\ call'[p] = call[p] /\ phase'[p] = phase[p]
        /\ bad'[p] = bad[p]
        /\ work'[p] = IF phase[p] = "forward" THEN plain
                      ELSE IF phase[p] = "nomount" THEN {} ELSE Ciphertext
    BY <1>4, <1>5, NoFault DEF ListForRemoval, Good, TypeOK, ProcsTypeOK
  <1>7. Op(p)' = Op(p) /\ ~Finish(p, "ok")
    BY <1>6 DEF Op, Finish, Good, TypeOK, ProcsTypeOK
  <1>8. StageInv(p)'
    BY <1>1, <1>2, <1>6, <1>7, Frame DEF Good, CleanInv, StageInv, Making, Recovering
  <1>9. KeysInv(p)' /\ DataInv(p)'
    BY <1>1, <1>2, <1>6, <1>7, Frame DEF Good, CleanInv, KeysInv, DataInv, Overlap
  <1> QED BY <1>1, <1>7, <1>8, <1>9, Frame, CleanAlone DEF Good, CleanInv

LEMMA CleanRemoveItem ==
  ASSUME Good, SoloInv', NEW p \in Procs, RemoveItem(p)
  PROVE  CleanInv' /\ ~Finish(p, "ok")
PROOF
  <1>1. /\ UNCHANGED <<privDir, hdr, recDir, mtab, keyring, data, kills>> /\ pc[p] = "rdel"
        /\ UNCHANGED <<pc, call, phase, hcopy>> /\ ~RemovalOver(p)
        /\ mtab = <<>> /\ keyring = {} /\ privDir /\ ~bad[p]
    BY RemovingClean DEF RemoveItem, kernel, ghosts
  <1>2. work[p] # {}
    BY <1>1 DEF RemovalOver
  <1>3. \/ /\ phase[p] = "forward" /\ Op(p) = "create" /\ ContentOf(p) = "S"
           /\ work[p] = plain /\ plain \subseteq Ciphertext
        \/ /\ phase[p] = "destroy" /\ Op(p) \in {"remove", "recover"} /\ ContentOf(p) = "P"
           /\ work[p] = Ciphertext /\ data = plain
    <2>1. phase[p] = "nomount" => work[p] = {}
      BY DEF Good, CleanInv, DataInv
    <2> QED BY <1>1, <1>2, <2>1, RemovingClean DEF ContentOf, Good, CleanInv, DataInv
  <1>4. ~Mounted("S") /\ ~Mounted("P")
    BY <1>1, NothingSeen
  <1>5. Visible(ContentOf(p)) = work[p]
    BY <1>3, <1>4 DEF Visible
  <1>6. PICK i \in work[p] :
          /\ work' = [work EXCEPT ![p] = @ \ {i}] /\ Drop(ContentOf(p), i)
          /\ UNCHANGED <<bad, faults>>
    <2>1. PICK i \in IF Files(work[p]) # {} THEN Files(work[p]) ELSE work[p] :
            /\ work' = [work EXCEPT ![p] = @ \ {i}]
            /\ \/ /\ i \in Visible(ContentOf(p)) /\ Drop(ContentOf(p), i)
                  /\ UNCHANGED <<bad, faults>>
               \/ i \notin Visible(ContentOf(p))
      BY NoFault DEF RemoveItem
    <2>2. i \in work[p]
      BY <2>1 DEF Files
    <2> QED BY <1>5, <2>1, <2>2
  <1>7. i \in Items /\ work'[p] = work[p] \ {i} /\ enc \in [Items -> Keys \cup {NoKey, Clear}]
    BY <1>6 DEF Good, TypeOK, ProcsTypeOK, DiskTypeOK
  <1>8. /\ phase[p] = "forward" => plain' = plain \ {i} /\ Ciphertext' = Ciphertext
        /\ phase[p] = "destroy" => plain' = plain /\ Ciphertext' = Ciphertext \ {i}
    BY <1>3, <1>4, <1>6, <1>7 DEF Drop, Ciphertext
  <1>9. Op(p)' = Op(p) /\ ~Finish(p, "ok") /\ ~bad'[p]
    BY <1>1, <1>6 DEF Op, Finish, Good, TypeOK, ProcsTypeOK
  <1>10. StageInv(p)'
    BY <1>1, <1>9 DEF Good, CleanInv, StageInv, Making, Recovering
  <1>11. KeysInv(p)'
    BY <1>1 DEF KeysInv
  <1>12. DataInv(p)'
    BY <1>1, <1>3, <1>7, <1>8, <1>9 DEF Good, CleanInv, DataInv, Overlap
  <1> QED BY <1>1, <1>6, <1>9, <1>10, <1>11, <1>12, CleanAlone DEF Good, CleanInv

LEMMA CleanRemovalEnds ==
  ASSUME Good, SoloInv', NEW p \in Procs, RemovalEnds(p)
  PROVE  CleanInv' /\ ~Finish(p, "ok")
PROOF
  <1>1. /\ Still /\ pc[p] = "rdel" /\ ~bad[p] /\ privDir /\ mtab = <<>> /\ keyring = {}
        /\ work[p] = {} /\ RemoveDone(p, TRUE)
    BY RemovingClean DEF RemovalEnds, RemovalOver, Still, kernel, ghosts, budget
  <1>2. CASE phase[p] = "forward"
    <2>1. Op(p) = "create" /\ plain = {}
      BY <1>1, <1>2, RemovingClean DEF Good, CleanInv, DataInv
    <2>2. /\ pc'[p] = "sread" /\ call'[p] = call[p] /\ phase'[p] = "forward" /\ ~bad'[p]
      BY <1>1, <1>2, EnterEffect DEF RemoveDone, Good, TypeOK
    <2>3. Op(p)' = Op(p) /\ ~Finish(p, "ok")
      BY <2>2 DEF Op, Finish, Good, TypeOK, ProcsTypeOK
    <2>4. StageInv(p)'
      BY <1>1, <1>2, <2>1, <2>2, <2>3, Frame DEF Good, CleanInv, StageInv, Making, Recovering
    <2>5. KeysInv(p)' /\ DataInv(p)'
      BY <1>1, <1>2, <2>1, <2>2, <2>3, Frame DEF Good, CleanInv, KeysInv, DataInv, Overlap
    <2> QED BY <1>1, <2>3, <2>4, <2>5, Frame, CleanAlone DEF Good, CleanInv
  <1>3. CASE phase[p] # "forward"
    <2>1. \/ phase[p] = "nomount" /\ Op(p) = "recover" /\ recDir
          \/ phase[p] = "destroy" /\ Op(p) \in {"remove", "recover"}
      BY <1>1, <1>3, RemovingClean
    <2>2. /\ pc'[p] = "rmdir" /\ call'[p] = call[p] /\ phase'[p] = phase[p]
          /\ bad'[p] = bad[p] /\ work'[p] = work[p]
      BY <1>1, <1>3, <2>1, GotoEffect DEF RemoveDone, Goto, Good, TypeOK
    <2>3. Op(p)' = Op(p) /\ ~Finish(p, "ok")
      BY <2>2 DEF Op, Finish, Good, TypeOK, ProcsTypeOK
    <2>4. StageInv(p)'
      BY <1>1, <2>1, <2>2, <2>3, Frame DEF Good, CleanInv, StageInv, Making, Recovering
    <2>5. KeysInv(p)' /\ DataInv(p)'
      BY <1>1, <2>1, <2>2, <2>3, Frame DEF Good, CleanInv, KeysInv, DataInv, Overlap
    <2> QED BY <1>1, <2>3, <2>4, <2>5, Frame, CleanAlone DEF Good, CleanInv
  <1> QED BY <1>2, <1>3

LEMMA CleanRemoveRoot ==
  ASSUME Good, SoloInv', NEW p \in Procs, RemoveRoot(p)
  PROVE  CleanInv' /\ ~Finish(p, "ok")
PROOF
  <1>1. /\ UNCHANGED <<plain, enc, hdr, keyring, data, kills>> /\ pc[p] = "rmdir"
        /\ mtab = <<>> /\ keyring = {} /\ privDir /\ ~bad[p]
    BY RemovingClean DEF RemoveRoot, ghosts
  <1>2. \/ phase[p] = "forward" /\ Op(p) = "recover" /\ RootOf(p) = "R" /\ recDir
        \/ phase[p] = "nomount" /\ Op(p) = "recover" /\ RootOf(p) = "R" /\ recDir
        \/ /\ phase[p] = "destroy" /\ Op(p) \in {"remove", "recover"} /\ RootOf(p) = "P"
           /\ Ciphertext = {}
    BY <1>1, RemovingClean DEF RootOf, Good, CleanInv, DataInv
  <1>3. Exists(RootOf(p)) /\ ~Mounted(RootOf(p)) /\ (RootOf(p) = "P" => Ciphertext = {})
    BY <1>1, <1>2, NothingSeen DEF Exists
  <1>4. /\ RmdirDone(p, TRUE) /\ faults' = faults
        /\ \/ /\ RootOf(p) = "P" /\ privDir' = FALSE /\ recDir' = recDir
              /\ mtab' = [n \in 1..Len(mtab) |-> [mtab[n] EXCEPT !.live = FALSE]]
           \/ RootOf(p) = "R" /\ recDir' = FALSE /\ UNCHANGED <<privDir, mtab>>
    BY <1>3, NoFault DEF RemoveRoot
  <1>5. Ciphertext' = Ciphertext /\ mtab' = <<>> /\ faults' = 0 /\ kills' = 0
    <2>1. [n \in 1..Len(mtab) |-> [mtab[n] EXCEPT !.live = FALSE]] = <<>>
      BY <1>1
    <2>2. mtab' = <<>>
      BY <1>1, <1>4, <2>1
    <2> QED BY <1>1, <1>4, <2>2 DEF Ciphertext, Good, CleanInv
  <1>6. hdr.stat = "completed"
    BY <1>1, <1>2 DEF Good, CleanInv, StageInv, Making
  <1>7. CASE phase[p] = "nomount"
    <2>1. Finish(p, "err") /\ recDir' = FALSE /\ privDir' = privDir
      BY <1>2, <1>4, <1>7 DEF RmdirDone
    <2>2. plain \cap Ciphertext = {} /\ data = plain \cup Ciphertext
      BY <1>1, <1>2, <1>7 DEF Good, CleanInv, DataInv, Overlap
    <2>3. Settled'
      BY <1>1, <1>5, <1>6, <2>1, <2>2 DEF Settled
    <2>4. ~Finish(p, "ok")
      BY <2>1 DEF Finish, Good, TypeOK, ProcsTypeOK
    <2> QED BY <1>5, <2>1, <2>3, <2>4, ReturnsSettled DEF Good
  <1>8. CASE phase[p] = "forward"
    <2>1. /\ pc'[p] = "rcheck" /\ call'[p] = call[p] /\ phase'[p] = phase[p]
          /\ bad'[p] = bad[p]
      BY <1>4, <1>8, GotoEffect DEF RmdirDone, Good, TypeOK
    <2>2. Op(p)' = Op(p) /\ ~Finish(p, "ok") /\ recDir' = FALSE /\ privDir' = privDir
      BY <1>2, <1>4, <1>8, <2>1 DEF Op, Finish, Good, TypeOK, ProcsTypeOK
    <2>3. StageInv(p)'
      BY <1>1, <1>2, <1>6, <1>8, <2>1, <2>2 DEF StageInv, Making, Recovering
    <2>4. KeysInv(p)' /\ DataInv(p)'
      BY <1>1, <1>2, <1>5, <1>8, <2>1, <2>2 DEF Good, CleanInv, KeysInv, DataInv, Overlap
    <2> QED BY <1>5, <2>2, <2>3, <2>4, CleanAlone DEF Good
  <1>9. CASE phase[p] = "destroy"
    <2>1. /\ pc'[p] = "unlink" /\ call'[p] = call[p] /\ phase'[p] = phase[p]
          /\ bad'[p] = bad[p]
      BY <1>4, <1>9, GotoEffect DEF RmdirDone, Good, TypeOK
    <2>2. Op(p)' = Op(p) /\ ~Finish(p, "ok") /\ recDir' = recDir
      BY <1>2, <1>4, <1>9, <2>1 DEF Op, Finish, Good, TypeOK, ProcsTypeOK
    <2>3. StageInv(p)'
      BY <1>1, <1>2, <1>6, <1>9, <2>1, <2>2 DEF Good, CleanInv, StageInv, Making, Recovering
    <2>4. KeysInv(p)' /\ DataInv(p)'
      BY <1>1, <1>2, <1>5, <1>9, <2>1, <2>2 DEF Good, CleanInv, KeysInv, DataInv, Overlap
    <2> QED BY <1>5, <2>2, <2>3, <2>4, CleanAlone DEF Good
  <1> QED BY <1>2, <1>7, <1>8, <1>9

-----------------------------------------------------------------------------
(* Between the calls, and the induction.                                     *)

LEMMA CleanReboot ==
  ASSUME Good, SoloInv', Reboot
  PROVE  CleanInv'
PROOF
  <1>1. PICK p \in Procs : Procs = {p}
    BY DEF Good, OneCaller
  <1>2. Quiet /\ kills' = kills
    BY DEF Reboot, Good, Undisturbed, CleanInv
  <1>3. Settled
    BY <1>2, RestIsSettled DEF Quiet, AtRest
  <1>4. /\ UNCHANGED <<plain, privDir, enc, hdr, recDir, data, faults>>
        /\ mtab' = <<>> /\ keyring' = {}
        /\ pc'[p] = "idle" /\ phase'[p] = "forward" /\ bad'[p] = FALSE
    BY DEF Reboot, disk, ghosts
  <1>5. Ciphertext' = Ciphertext
    BY <1>4 DEF Ciphertext
  <1>6. Settled'
    BY <1>3, <1>4, <1>5 DEF Settled
  <1> QED BY <1>2, <1>4, <1>6, StaysAtRest DEF AtRest, Good, CleanInv

LEMMA CleanAppWrite ==
  ASSUME Good, SoloInv', NEW i \in Items, AppWrite(i)
  PROVE  CleanInv'
PROOF
  <1>1. PICK p \in Procs : Procs = {p}
    BY DEF Good, OneCaller
  <1>2. Quiet
    BY DEF AppWrite, Good, Undisturbed
  <1>3. Settled /\ pc[p] = "idle" /\ phase[p] = "forward" /\ ~bad[p]
    BY <1>2, RestIsSettled DEF Quiet, AtRest, Good, SoloInv, Mine, PlaceInv, OnTheWay,
       CleanInv, StageInv
  <1>4. /\ UNCHANGED <<privDir, hdr, recDir, mtab, keyring, pc, phase, bad, faults, kills>>
        /\ i \notin data /\ data' = data \cup {i}
    BY DEF AppWrite, kernel, procs, budget
  <1>5. \/ plain' = plain \cup {i} /\ enc' = enc
        \/ OneMount("S") /\ enc' = [enc EXCEPT ![i] = hdr.key] /\ plain' = plain
    BY AppPuts DEF AppWrite, Good
  <1>6. OneMount("S") => hdr.key # NoKey
    <2>1. OneMount("S") => hdr.stat = "completed"
      BY <1>3, MountSeen DEF Settled, Good, SoloInv, ViewInv
    <2> QED BY <2>1, KeyAssumption DEF Good, SoloInv, HeaderInv, Readable, TypeOK, GhostsTypeOK
  <1>7. \/ plain' = plain \cup {i} /\ Ciphertext' = Ciphertext
        \/ plain' = plain /\ Ciphertext' = Ciphertext \cup {i}
    BY <1>5, <1>6 DEF Ciphertext, Good, TypeOK, DiskTypeOK
  <1>8. OneMount("S")' <=> OneMount("S")
    BY <1>4 DEF OneMount
  <1>9. Settled'
    BY <1>3, <1>4, <1>7, <1>8 DEF Settled, Tokens
  <1> QED BY <1>3, <1>4, <1>9, StaysAtRest DEF AtRest, Good, CleanInv

LEMMA CleanInit == Init => CleanInv
PROOF
  <1> SUFFICES ASSUME Init PROVE CleanInv
    OBVIOUS
  <1>1. Ciphertext = {}
    BY DEF Init, Ciphertext
  <1> QED BY <1>1 DEF Init, CleanInv, StageInv, KeysInv, DataInv, Making, Recovering, Overlap,
        NoHeader, NoCall, Op

\* A step in which nothing moves.
LEMMA CleanStutter ==
  ASSUME Good, UNCHANGED vars
  PROVE  CleanInv'
PROOF
  <1>1. /\ UNCHANGED <<plain, privDir, enc, hdr, recDir, mtab, keyring, pc, call, phase, hcopy,
                       work, bad, data, faults, kills>>
    BY DEF vars, disk, kernel, procs, ghosts, budget
  <1>2. Ciphertext' = Ciphertext /\ \A pt : OneMount(pt)' = OneMount(pt)
    BY <1>1 DEF Ciphertext, OneMount
  <1>3. ASSUME NEW p \in Procs PROVE StageInv(p)' /\ KeysInv(p)' /\ DataInv(p)'
    <2>1. /\ Op(p)' = Op(p) /\ Making(p)' = Making(p) /\ Recovering(p)' = Recovering(p)
          /\ Overlap(p)' = Overlap(p) /\ Through(p)' = Through(p)
          /\ PointOf[Op(p)]' = PointOf[Op(p)]
      BY <1>1 DEF Op, Making, Recovering, Overlap, Through
    <2>2. OneMount(PointOf[Op(p)])' = OneMount(PointOf[Op(p)])
      BY <1>2, <2>1 DEF OneMount
    <2>3. StageInv(p)'
      BY <1>1, <2>1 DEF Good, CleanInv, StageInv
    <2>4. KeysInv(p)'
      BY <1>1, <1>2, <2>1, <2>2 DEF Good, CleanInv, KeysInv, Tokens
    <2>5. DataInv(p)'
      BY <1>1, <1>2, <2>1 DEF Good, CleanInv, DataInv
    <2> QED BY <2>3, <2>4, <2>5
  <1> QED BY <1>1, <1>3 DEF Good, CleanInv

LEMMA CleanStep ==
  ASSUME Good, SoloInv', [Next]_vars
  PROVE  CleanInv'
PROOF
  <1>1. ASSUME NEW p \in Procs, Step(p) PROVE CleanInv'
    BY <1>1, CleanCreateChecks, CleanMakePrivateDir, CleanWriteNewHeader, CleanUnlockChecks,
       CleanRecoverChecks, CleanMakeRecoveryDir, CleanRemoveChecks, CleanUnlinkKeyFile,
       CleanReadForStatus, CleanReadForChange, CleanWriteBack, CleanMountCheck,
       CleanMountOpen, CleanMountKeys, CleanMountFs, CleanUmountCheck, CleanUmount,
       CleanUmountKeys, CleanListForCopy, CleanCopyItem, CleanCopyEnds, CleanListForRemoval,
       CleanRemoveItem, CleanRemovalEnds, CleanRemoveRoot DEF Step
  <1>2. ASSUME NEW p \in Procs PROVE ~Kill(p)
    BY DEF Kill, Good, Undisturbed, CleanInv
  <1>3. CASE \E p \in Procs : \E c \in CallArgs : Start(p, c)
    BY <1>3, CleanStart
  <1>4. CASE \E i \in Items : AppWrite(i)
    BY <1>4, CleanAppWrite
  <1> QED BY <1>1, <1>2, <1>3, <1>4, CleanReboot, CleanStutter DEF Next

\* With one caller nobody disturbs, CleanInv is inductive next to SoloInv.
THEOREM CleanCorrect ==
  ASSUME OneCaller, Undisturbed
  PROVE  Spec => [](TypeOK /\ SoloInv /\ CleanInv)
PROOF
  <1>1. TypeOK /\ SoloInv /\ CleanInv /\ [Next]_vars => (TypeOK /\ SoloInv /\ CleanInv)'
    BY TypeStep, SoloStep, CleanStep DEF Good
  <1> QED BY <1>1, TypeInit, SoloInit, CleanInit, PTL DEF Spec

-----------------------------------------------------------------------------
(* What follows for the user.                                                *)

\* Calls that met no failure leave nothing behind: no item both in the clear and
\* encrypted, no token without its mount, no recovery directory.
THEOREM NoResidueCorrect ==
  ASSUME OneCaller, Undisturbed
  PROVE  Spec => []NoResidue
PROOF
  <1>1. ASSUME TypeOK, SoloInv, CleanInv PROVE NoResidue
    <2> SUFFICES ASSUME Quiet
                 PROVE  /\ plain \cap Ciphertext \cap data = {}
                        /\ keyring = UNION {Tokens(mtab[n].key) : n \in 1..Len(mtab)}
                        /\ ~recDir
      BY DEF NoResidue
    <2>1. Settled
      BY <1>1, RestIsSettled DEF Good, OneCaller, Quiet, AtRest
    <2>2. CASE mtab = <<>>
      <3>1. 1..Len(mtab) = {}
        BY <2>2
      <3> QED BY <2>1, <2>2, <3>1 DEF Settled
    <2>3. CASE mtab # <<>>
      <3>1. Len(mtab) = 1 /\ mtab[1].key = hdr.key
        BY <2>1, <2>3 DEF Settled, OneMount
      <3>2. 1..Len(mtab) = {1}
        BY <3>1
      <3>3. {Tokens(mtab[n].key) : n \in 1..Len(mtab)} = {Tokens(hdr.key)}
        BY <3>1, <3>2
      <3>4. keyring = Tokens(hdr.key)
        BY <2>1, <2>3 DEF Settled
      <3> QED BY <2>1, <3>3, <3>4 DEF Settled
    <2> QED BY <2>2, <2>3
  <1> QED BY <1>1, CleanCorrect, PTL

\* No data is lost by calls that nobody disturbs.
THEOREM DurableCorrect ==
  ASSUME OneCaller, Undisturbed
  PROVE  Spec => []Durable
PROOF
  <1>1. ASSUME TypeOK, SoloInv, CleanInv PROVE Durable
    <2>1. PICK p \in Procs : Procs = {p}
      BY DEF OneCaller
    <2>2. StageInv(p) /\ DataInv(p) /\ MountInv(p) /\ PlaceInv(p)
      BY <1>1 DEF SoloInv, Mine, CleanInv
    <2>3. data \subseteq plain \cup Ciphertext
      BY <2>2 DEF DataInv
    <2>4. Ciphertext # {} => privDir /\ pc[p] # "newhdr"
      BY <1>1, <2>2 DEF SoloInv, ViewInv, MountInv, Ciphertext
    <2>5. Ciphertext # {} => Readable(hdr)
      BY <2>2, <2>4 DEF StageInv, Readable
    <2>6. Ciphertext \subseteq Decryptable
      BY <1>1, <2>5 DEF Ciphertext, Decryptable, SoloInv, OneKey
    <2> QED BY <2>3, <2>6 DEF Durable
  <1> QED BY <1>1, CleanCorrect, PTL

\* The steps by which a call returns 0.
LEMMA OkReturns ==
  ASSUME TypeOK, SoloInv, NEW p \in Procs, Step(p), pc'[p] = "idle", ret'[p] = "ok"
  PROVE  \/ Op(p) = "unlock" /\ Finish(p, "ok") /\ (MountCheck(p) \/ MountFs(p))
         \/ Op(p) = "lock"
         \/ Op(p) \in {"remove", "recover"} /\ (RemoveChecks(p) \/ UnlinkKeyFile(p))
         \/ WriteBack(p)
PROOF
  <1>1. /\ \A code : code # "ok" => ~Finish(p, code)
        /\ \A step : step # "idle" => ~Goto(p, step)
        /\ \A f, step : step # "idle" => ~Enter(p, f, step)
        /\ \A step : step # "idle" => pc' # [pc EXCEPT ![p] = step]
    BY DEF Finish, Goto, Enter, TypeOK, ProcsTypeOK
  <1>2. ~MountFailed(p) /\ ~CopyFailed(p)
    BY <1>1 DEF MountFailed, CopyFailed
  <1>3. MountDone(p) => Op(p) = "unlock" /\ Finish(p, "ok")
    BY <1>1 DEF MountDone
  <1>4. \A ok : ~RemoveDone(p, ok) /\ ~RmdirDone(p, ok)
    BY <1>1 DEF RemoveDone, RmdirDone
  <1>5. \A ok : UmountDone(p, ok) => ~Through(p)
    BY <1>1 DEF UmountDone, Through
  <1>6. pc[p] \in {"ucheck", "umount", "ukeys"} => Op(p) = "lock" \/ Through(p)
    BY UnmountingPlace
  <1>7. pc[p] \in {"rcheck", "unlink"} => Op(p) \in {"remove", "recover"}
    BY DEF SoloInv, Mine, PlaceInv, OnTheWay
  <1>8. ~CreateChecks(p) /\ ~MakePrivateDir(p) /\ ~WriteNewHeader(p) /\ ~UnlockChecks(p)
    BY <1>1 DEF CreateChecks, MakePrivateDir, WriteNewHeader, WriteFails, UnlockChecks
  <1>9. ~RecoverChecks(p) /\ ~MakeRecoveryDir(p) /\ ~ReadForStatus(p) /\ ~ReadForChange(p)
    BY <1>1 DEF RecoverChecks, MakeRecoveryDir, ReadForStatus, ReadForChange
  <1>10. ~MountOpen(p) /\ ~MountKeys(p)
    BY <1>1, <1>2 DEF MountOpen, MountKeys
  <1>11. ~ListForCopy(p) /\ ~CopyEnds(p) /\ ~ListForRemoval(p)
    BY <1>1, <1>2, <1>4 DEF ListForCopy, CopyEnds, ListForRemoval
  <1>12. ~CopyItem(p) /\ ~RemoveItem(p) /\ ~RemovalEnds(p) /\ ~RemoveRoot(p)
    BY <1>2, <1>4 DEF CopyItem, RemoveItem, RemovalEnds, RemoveRoot
  <1>13. UmountCheck(p) \/ Umount(p) \/ UmountKeys(p) => Op(p) = "lock"
    BY <1>1, <1>5, <1>6 DEF UmountCheck, Umount, UmountKeys
  <1>14. MountCheck(p) \/ MountFs(p) => Op(p) = "unlock" /\ Finish(p, "ok")
    BY <1>1, <1>2, <1>3 DEF MountCheck, MountFs
  <1> QED BY <1>7, <1>8, <1>9, <1>10, <1>11, <1>12, <1>13, <1>14
       DEF Step, RemoveChecks, UnlinkKeyFile

\* create: when it returns 0, everything is encrypted, closed and gone from the
\* storage directory.
LEMMA CreateReturns ==
  ASSUME Good, SoloInv', NEW p \in Procs, Returns0(p, "create"), [Next]_vars
  PROVE  /\ plain' = {} /\ data' \subseteq Decryptable' /\ ~Mounted("P")'
         /\ hdr'.stat = "completed"
PROOF
  <1>1. Step(p) /\ Op(p) = "create" /\ pc'[p] = "idle" /\ ret'[p] = "ok"
    BY ReturnStep DEF Good, OneCaller, Returns0
  <1>2. WriteBack(p)
    BY <1>1, OkReturns DEF Good
  <1>3. /\ plain' = {} /\ data' = Ciphertext' /\ mtab' = <<>> /\ hdr'.stat = "completed"
        /\ OneKey'
    BY <1>1, <1>2, CleanWriteBack
  <1>4. Ciphertext' \subseteq Decryptable'
    BY <1>3 DEF Ciphertext, Decryptable, OneKey, Readable
  <1>5. ~Mounted("P")'
    BY <1>3 DEF Mounted, Mounts
  <1> QED BY <1>3, <1>4, <1>5

\* create: when it returns 0, every item is in ciphertext the key file opens,
\* nothing is left in the clear or mounted on P, and the status says so.
THEOREM CreateContractCorrect ==
  ASSUME OneCaller, Undisturbed
  PROVE  Spec => CreateContract
PROOF
  <1>1. TypeOK /\ SoloInv /\ CleanInv /\ SoloInv' /\ [Next]_vars =>
          [\A p \in Procs : Returns0(p, "create") =>
             plain' = {} /\ data' \subseteq Decryptable' /\ ~Mounted("P")'
               /\ hdr'.stat = "completed"]_vars
    BY CreateReturns DEF Good
  <1> QED BY <1>1, CleanCorrect, PTL DEF Spec, CreateContract

\* A mount at the storage path shows, and reads, all the key file opens.
LEMMA ViewIsReadable ==
  TypeOK /\ SoloInv /\ OneMount("S") =>
    Mounted("S") /\ \A i \in Decryptable : CanRead("S", i)
PROOF
  <1> SUFFICES ASSUME TypeOK, SoloInv, OneMount("S")
               PROVE  Mounted("S") /\ \A i \in Decryptable : CanRead("S", i)
    OBVIOUS
  <1>1. Mounted("S") /\ Top("S").key = hdr.key /\ Top("S").live
    BY MountSeen DEF OneMount
  <1>2. Decryptable \subseteq Ciphertext
    BY KeyAssumption DEF Decryptable, Ciphertext, SoloInv, HeaderInv, TypeOK, GhostsTypeOK
  <1> QED BY <1>1, <1>2 DEF CanRead, Visible, Decryptable

\* unlock: when it returns 0, what the key file opens can be read at the storage
\* path.
LEMMA UnlockReturns ==
  ASSUME Good, SoloInv', TypeOK', NEW p \in Procs, Returns0(p, "unlock"), [Next]_vars
  PROVE  (Mounted("S") /\ \A i \in Decryptable : CanRead("S", i))'
PROOF
  <1>1. Step(p) /\ Op(p) = "unlock" /\ pc[p] # "idle" /\ pc'[p] = "idle" /\ ret'[p] = "ok"
    BY ReturnStep DEF Good, OneCaller, Returns0
  <1>2. ~WriteBack(p)
    BY <1>1 DEF WriteBack, Good, SoloInv, Mine, PlaceInv, OnTheWay
  <1>3. Finish(p, "ok") /\ (MountCheck(p) \/ MountFs(p))
    BY <1>1, <1>2, OkReturns DEF Good
  <1>4. OneMount("S")'
    BY <1>3, CleanMountCheck, CleanMountFs
  <1> QED BY <1>4, ViewIsReadable, PTL

\* unlock: when it returns 0, every item the key file opens can be read at the
\* storage path.
THEOREM UnlockContractCorrect ==
  ASSUME OneCaller, Undisturbed
  PROVE  Spec => UnlockContract
PROOF
  <1>1. TypeOK /\ SoloInv /\ CleanInv /\ SoloInv' /\ TypeOK' /\ [Next]_vars =>
          [\A p \in Procs : Returns0(p, "unlock") =>
             (Mounted("S") /\ \A i \in Decryptable : CanRead("S", i))']_vars
    BY UnlockReturns DEF Good
  <1> QED BY <1>1, CleanCorrect, PTL DEF Spec, UnlockContract

\* recover: when it returns 0, every item is back in the clear and the
\* ciphertext is gone.
LEMMA RecoverReturns ==
  ASSUME Good, SoloInv', NEW p \in Procs, Returns0(p, "recover"), [Next]_vars
  PROVE  data' \subseteq plain' /\ ~privDir'
PROOF
  <1>1. Step(p) /\ Op(p) = "recover" /\ pc[p] # "idle" /\ pc'[p] = "idle" /\ ret'[p] = "ok"
    BY ReturnStep DEF Good, OneCaller, Returns0
  <1>2. ~WriteBack(p)
    BY <1>1 DEF WriteBack, Good, SoloInv, Mine, PlaceInv, OnTheWay
  <1>3. RemoveChecks(p) \/ UnlinkKeyFile(p)
    BY <1>1, <1>2, OkReturns DEF Good
  <1>4. ~RemoveChecks(p)
    <2>1. pc[p] = "rcheck" => Listed("P") = {}
      BY <1>1, NothingSeen DEF Good, SoloInv, Mine, PlaceInv, MountInv
    <2>2. ~Finish(p, "err") /\ ~Enter(p, "destroy", "rlist")
      BY <1>1 DEF Finish, Enter, Good, TypeOK, ProcsTypeOK
    <2> QED BY <2>1, <2>2 DEF RemoveChecks
  <1> QED BY <1>3, <1>4, CleanUnlinkKeyFile

\* recover: when it returns 0, every item is back in the clear and P is gone.
THEOREM RecoverContractCorrect ==
  ASSUME OneCaller, Undisturbed
  PROVE  Spec => RecoverContract
PROOF
  <1>1. TypeOK /\ SoloInv /\ CleanInv /\ SoloInv' /\ [Next]_vars =>
          [\A p \in Procs : Returns0(p, "recover") => data' \subseteq plain' /\ ~privDir']_vars
    BY RecoverReturns DEF Good
  <1> QED BY <1>1, CleanCorrect, PTL DEF Spec, RecoverContract

=============================================================================
