---------------------------- MODULE EfsInvariants ----------------------------
(* The inductive invariant behind the safety of creating, unlocking and      *)
(* locking one storage from any number of processes.  It holds as long as no *)
(* call destroys ciphertext on purpose or rewrites the header from an older  *)
(* copy, and applications write between calls only.                          *)
EXTENDS EfsStorage

KeepingOps == Ops \subseteq {"create", "unlock", "lock"} /\ ~AppsDuringCalls

\* p has made the private directory and not yet returned.
Creator(p) == Op(p) = "create" /\ pc[p] \notin {"idle", "create", "mkpriv"}
Forward(p, steps) == Creator(p) /\ phase[p] = "forward" /\ pc[p] \in steps

StepsOf(op) ==
  CASE op = "create" -> {"create", "mkpriv", "newhdr", "mcheck", "mopen", "mkeys", "mount",
                         "list", "copy", "ucheck", "umount", "ukeys", "rlist", "rdel",
                         "rmdir", "sread", "swrite"}
    [] op = "unlock" -> {"unlock", "mcheck", "mopen", "mkeys", "mount"}
    [] op = "lock"   -> {"ucheck", "umount", "ukeys"}

CleanupSteps == {"ucheck", "umount", "ukeys", "rlist", "rdel", "rmdir"}

\* Which step a call can be at, and in which phase.
ControlInv(p) ==
  /\ pc[p] # "idle" => Op(p) \in {"create", "unlock", "lock"} /\ pc[p] \in StepsOf(Op(p))
  /\ phase[p] # "forward" =>
       phase[p] = "nocopy" /\ Creator(p) /\ pc[p] \in CleanupSteps
  /\ Op(p) = "create" /\ phase[p] = "forward" => pc[p] # "rmdir"

\* The private directory is made by one creation at a time.
OneCreator == \A p, q \in Procs : Creator(p) /\ Creator(q) => p = q

\* A completed storage is never created again.
SealedInv == hdr.stat = "completed" => privDir /\ \A p \in Procs : ~Creator(p)

\* What is mounted: nothing without a private directory, and over the storage
\* only the key of a completed storage.
TableInv ==
  /\ ~privDir => mtab = <<>>
  /\ \A n \in 1..Len(mtab) :
       \/ mtab[n].at = "P"
       \/ mtab[n].at = "S" /\ hdr.stat = "completed" /\ mtab[n].key = hdr.key

\* An unlock past its status check works on the header as it stands.
UnlockInv(p) ==
  /\ Op(p) = "unlock" /\ pc[p] \in {"mcheck", "mopen", "mkeys", "mount"} =>
       hdr.stat = "completed"
  /\ Op(p) = "unlock" /\ pc[p] \in {"mkeys", "mount"} => hcopy[p].key = hdr.key

\* How far a creation has come, and where the data is by then.
CreationInv(p) ==
  /\ Creator(p) => privDir
  /\ Forward(p, {"newhdr", "mcheck", "mopen", "mkeys", "mount"}) =>
       mtab = <<>> /\ data \subseteq plain
  /\ Forward(p, {"mkeys", "mount"}) => Readable(hdr) /\ hcopy[p].key = hdr.key
  /\ Forward(p, {"list", "copy"}) =>
       /\ Readable(hdr) /\ data \subseteq plain
       /\ Len(mtab) = 1 /\ mtab[1].at = "P" /\ mtab[1].key = hdr.key
  /\ Forward(p, {"copy"}) => plain \ work[p] \subseteq Decryptable
  /\ Forward(p, {"ucheck", "umount", "ukeys"}) =>
       Readable(hdr) /\ data \subseteq plain /\ plain \subseteq Decryptable
  /\ Creator(p) /\ phase[p] = "nocopy" => data \subseteq plain
  /\ Forward(p, {"rlist", "rdel", "sread", "swrite"}) =>
       Readable(hdr) /\ data \subseteq Decryptable
  /\ Forward(p, {"rdel"}) /\ ~bad[p] => plain \subseteq work[p]
  /\ Forward(p, {"sread", "swrite"}) => plain = {}
  /\ Forward(p, {"swrite"}) => Readable(hcopy[p]) /\ hcopy[p].key = hdr.key

\* The inductive invariant of the theorems about creation.
KeepInv ==
  /\ OneCreator /\ SealedInv /\ TableInv /\ NothingInClear /\ Durable
  /\ ~privDir => data \subseteq plain
  /\ \A p \in Procs : ControlInv(p) /\ UnlockInv(p) /\ CreationInv(p)

\* The invariant behind PasswordGate: from the check of the password to the
\* mount, the key file stays as the call has found it.
GateInv ==
  \A p \in Procs : pc[p] \in {"mkeys", "mount"} =>
    Readable(hdr) /\ hdr.pass = call[p].pw /\ hcopy[p].key = hdr.key

=============================================================================
