------------------------------- MODULE EfsCalls -------------------------------
(* What one call of the storage API may do to a storage, from the outside:   *)
(* the state it leaves, the code it returns, and whether every system call   *)
(* in it succeeded ("clean"), one failed ("fault"), or the caller died on    *)
(* the way ("killed").  Covered are the failures of all system calls but two *)
(* (see the README): a /proc/mounts that mount_ecryptfs cannot read, and a   *)
(* failing chown of a mount point.                                           *)
EXTENDS FiniteSets

CONSTANTS
  Items,            \* files and directories a user may keep in the storage
  Dirs,             \* the items mkdir creates: making one twice is an error
  Passwords,        \* passwords a caller may pass
  ShortPasswords,   \* those shorter than MIN_PASSWD_LEN
  NoPassword        \* the password argument of calls that take none

ASSUME StoreAssumption == /\ Dirs \subseteq Items
                          /\ ShortPasswords \subseteq Passwords
                          /\ NoPassword \notin Passwords

\* clear: the items in the storage directory itself; cipher: those in the
\* private directory; at: the path the private directory is mounted on
\* (Storage, Private, Recovery); rec: the recovery directory exists.
Storage == [clear: SUBSET Items, cipher: SUBSET Items, priv: BOOLEAN,
            stat: {"absent", "malformed", "not_started", "completed"},
            pass: Passwords \cup {NoPassword},
            at: {"none", "S", "P", "R"}, rec: BOOLEAN]

InTheClear(I) == [clear |-> I, cipher |-> {}, priv |-> FALSE, stat |-> "absent",
                  pass |-> NoPassword, at |-> "none", rec |-> FALSE]

HasHeader(x) == x.stat \in {"not_started", "completed"}
Sealed(x)    == x.priv /\ x.stat = "completed" /\ x.clear = {}

Ends(X, code, how) == {[to |-> x, code |-> code, how |-> how] : x \in X}
Interrupted(X) == Ends(X, "err", "fault") \cup Ends(X, "none", "killed")

-----------------------------------------------------------------------------
(* EFS_create.                                                               *)

\* The states between the checks and the recorded status: the private
\* directory; the header; the copy through the mount, and its clean-up, which
\* leaves the header; the removal of the plaintext.
Made(x)      == [x EXCEPT !.priv = TRUE]
Keyed(x, pw) == [x EXCEPT !.priv = TRUE, !.stat = "not_started", !.pass = pw]
Copied(x, pw, mount) == {[Keyed(x, pw) EXCEPT !.cipher = C, !.at = mount] : C \in SUBSET x.clear}
Wiped(x, pw) == {[Keyed(x, pw) EXCEPT !.cipher = x.clear, !.clear = C] : C \in SUBSET x.clear}
HalfCreated(x, pw) ==
  {Made(x), [Keyed(x, pw) EXCEPT !.priv = FALSE],
   [Made(x) EXCEPT !.stat = IF @ = "absent" THEN "malformed" ELSE @]}
  \cup Copied(x, pw, "none") \cup Copied(x, pw, "P") \cup Wiped(x, pw)

Created(x, pw) == [x EXCEPT !.priv = TRUE, !.stat = "completed", !.pass = pw,
                            !.clear = {}, !.cipher = x.clear]

Create(x, pw) ==
  Interrupted({x}) \cup
  IF pw \in ShortPasswords \/ x.priv
  THEN Ends({x}, "err", "clean")
  ELSE Ends({Created(x, pw)}, "ok", "clean") \cup Interrupted(HalfCreated(x, pw))

-----------------------------------------------------------------------------
(* EFS_unlock, EFS_lock, EFS_change_password.                                *)

\* A mount anywhere counts as unlocked; a storage whose encryption has not
\* finished returns its status, 1.
Unlock(x, pw) ==
  LET open == [x EXCEPT !.at = "S"]
      fits == pw = x.pass /\ x.priv
  IN Interrupted({x}) \cup
     (IF pw \in ShortPasswords \/ ~HasHeader(x) THEN Ends({x}, "err", "clean")
      ELSE IF x.stat = "not_started"            THEN Ends({x}, "positive", "clean")
      ELSE IF x.at # "none"                     THEN Ends({x}, "ok", "clean")
      ELSE IF ~fits                             THEN Ends({x}, "err", "clean")
      ELSE Ends({open}, "ok", "clean") \cup Ends({open}, "none", "killed"))

\* Only a mount over the storage path is taken down; a token that cannot be
\* removed afterwards is an error all the same.
Locked(x) == [x EXCEPT !.at = IF @ = "S" THEN "none" ELSE @]
Lock(x)   == Ends({Locked(x)}, "ok", "clean") \cup Interrupted({x, Locked(x)})

Change(x, old, new) ==
  Interrupted({x}) \cup
  IF {old, new} \cap ShortPasswords = {} /\ HasHeader(x) /\ x.pass = old
  THEN Ends({[x EXCEPT !.pass = new]}, "ok", "clean")
  ELSE Ends({x}, "err", "clean")

-----------------------------------------------------------------------------
(* EFS_remove and EFS_recover_data_and_remove.                               *)

HalfRemoved(x) == {[x EXCEPT !.cipher = C] : C \in SUBSET x.cipher}
                    \cup {[x EXCEPT !.cipher = {}, !.priv = FALSE]}
\* Mutant: the key file stays.
Removed_KeepsKey(x) == [x EXCEPT !.cipher = {}, !.priv = FALSE]
Removed(x) == [x EXCEPT !.cipher = {}, !.priv = FALSE, !.stat = "absent",
                        !.pass = NoPassword]

\* A mounted storage is left alone and the call returns 0: what the code does,
\* against its own description of that 0 (see the run mounted_remove).  A key
\* file that is not there is an error, after the rest has gone.
Remove(x) ==
  Interrupted({x}) \cup
  IF ~x.priv THEN Ends({x}, "err", "clean")
  ELSE IF x.at # "none" THEN Ends({x}, "ok", "clean")
  ELSE Interrupted(HalfRemoved(x)) \cup
       IF x.stat = "absent"
       THEN Ends({[x EXCEPT !.cipher = {}, !.priv = FALSE]}, "err", "clean")
       ELSE Ends({Removed(x)}, "ok", "clean")

\* The copy through the recovery directory; when it fails, what lies in the
\* storage directory is removed and the recovery directory stays.
Gathered(x) == [x EXCEPT !.clear = @ \cup x.cipher]
Restored(x, mount) == {[x EXCEPT !.clear = C, !.rec = TRUE, !.at = mount] :
                          C \in SUBSET (x.clear \cup x.cipher)}
HalfRecovered(x) ==
  Restored(x, "none") \cup Restored(x, "R") \cup HalfRemoved(Gathered(x))

Recover(x, pw) ==
  LET admitted == pw \notin ShortPasswords /\ x.priv /\ x.at = "none" /\ ~x.rec
      opens    == HasHeader(x) /\ x.pass = pw
      collides == Dirs \cap x.clear \cap x.cipher # {}
  IN Interrupted({x}) \cup
     IF ~admitted THEN Ends({x}, "err", "clean")
     ELSE Interrupted({[x EXCEPT !.rec = TRUE]}) \cup
          IF ~opens THEN Ends({x}, "err", "clean")
          ELSE Interrupted(HalfRecovered(x)) \cup
               IF collides
               THEN Ends({[x EXCEPT !.clear = {}, !.rec = TRUE]}, "err", "clean")
               ELSE Ends({Removed(Gathered(x))}, "ok", "clean")

\* A call c = [op, pw, new] of the API on the storage x.
Outcomes(x, c) == CASE c.op = "create"  -> Create(x, c.pw)
                    [] c.op = "unlock"  -> Unlock(x, c.pw)
                    [] c.op = "lock"    -> Lock(x)
                    [] c.op = "change"  -> Change(x, c.pw, c.new)
                    [] c.op = "remove"  -> Remove(x)
                    [] c.op = "recover" -> Recover(x, c.pw)

=============================================================================
