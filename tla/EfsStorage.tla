------------------------------ MODULE EfsStorage ------------------------------
(***************************************************************************)
(* One encrypted file storage (EFS) of libefs and the processes that call  *)
(* the library on it: efs-server's listener thread, efs-tools, vold.  The  *)
(* library keeps no lock: what the processes share is the file system, the *)
(* kernel's mount table and the kernel keyring, so each system call (or    *)
(* group of calls between which nothing shared is read again) is one step. *)
(*                                                                         *)
(* Three paths matter, and each may be shadowed by an ecryptfs mount:      *)
(*   "S"  the storage path the applications use                            *)
(*   "P"  the private directory (.name) that holds the ciphertext          *)
(*   "R"  the recovery directory under /data/lost+found                    *)
(***************************************************************************)
EXTENDS Integers, Sequences, FiniteSets

CONSTANTS
  Procs,            \* processes that call the library
  Items,            \* files and directories a user may keep in the storage
  Dirs,             \* the items mkdir creates: making one twice is an error
  InitialItems,     \* the items present before the first call
  Passwords,        \* passwords a caller may pass
  ShortPasswords,   \* those shorter than MIN_PASSWD_LEN
  Keys,             \* master keys (fefek, fnek) /dev/urandom may yield, each once
  Ops,              \* the API calls made in this instance
  FaultKinds,       \* the system calls that may fail in this instance
  MaxFaults, MaxKills, MaxReboots,    \* bounds on what goes wrong
  AppsDuringCalls,  \* may applications write while a call is running?
  NoKey, Clear,     \* "P holds no such item" and "P holds it unencrypted"
  NoPassword        \* the password argument of calls that take none

ApiCalls == {"create", "unlock", "lock", "change", "remove", "recover"}
Points   == {"S", "P", "R"}

ASSUME ItemsAssumption == Dirs \subseteq Items /\ InitialItems \subseteq Items
ASSUME PasswordAssumption == /\ ShortPasswords \subseteq Passwords
                             /\ NoPassword \notin Passwords
ASSUME KeyAssumption == NoKey \notin Keys /\ Clear \notin Keys /\ NoKey # Clear
ASSUME OpsAssumption == Ops \subseteq ApiCalls
ASSUME BoundAssumption == /\ MaxFaults \in Nat /\ MaxKills \in Nat
                          /\ MaxReboots \in Nat /\ AppsDuringCalls \in BOOLEAN

VARIABLES
  plain,      \* items lying in the directory S itself, in the clear
  privDir,    \* does the directory P exist?
  enc,        \* enc[i]: the key under which P holds item i
  hdr,        \* the crypto header in the key file
  recDir,     \* does the directory R exist?
  mtab,       \* the ecryptfs lines of /proc/mounts, oldest first
  keyring,    \* <<key, half>>: the tokens in root's user keyring
  pc,         \* pc[p]: the library step p is about to take
  call,       \* call[p]: the API call p is in, with its arguments
  phase,      \* phase[p]: where in the call, and which error path
  hcopy,      \* hcopy[p]: p's local copy of the crypto header
  work,       \* work[p]: what is left of p's file list
  bad,        \* bad[p]: has a removal of this list failed?
  ret,        \* ret[p]: how p's last call returned
  data,       \* ghost: what the user stored and has not asked to destroy
  used,       \* ghost: master keys generated so far
  faults, kills, reboots    \* what has gone wrong so far

disk   == <<plain, privDir, enc, hdr, recDir>>
kernel == <<mtab, keyring>>
procs  == <<pc, call, phase, hcopy, work, bad, ret>>
ghosts == <<data, used>>
budget == <<faults, kills, reboots>>
vars   == <<disk, kernel, procs, ghosts, budget>>

Header == [key: Keys \cup {NoKey}, pass: Passwords \cup {NoPassword},
           stat: {"absent", "malformed", "not_started", "completed"}]
NoHeader == [key |-> NoKey, pass |-> NoPassword, stat |-> "absent"]
Readable(h) == h.stat \in {"not_started", "completed"}

Entry == [at: Points, key: Keys \cup {NoKey}, live: BOOLEAN]

CallArgs ==
  [op: Ops \cap {"lock", "remove"}, pw: {NoPassword}, new: {NoPassword}]
    \cup [op: Ops \cap {"create", "unlock", "recover"},
          pw: Passwords, new: {NoPassword}]
    \cup [op: Ops \cap {"change"}, pw: Passwords, new: Passwords]
NoCall == [op |-> "none", pw |-> NoPassword, new |-> NoPassword]

Steps == {"idle", "create", "mkpriv", "newhdr", "unlock", "change", "pwrite",
          "recover", "mkrec", "mcheck", "mopen", "mkeys", "mount", "list",
          "copy", "ucheck", "umount", "ukeys", "rlist", "rdel", "rmdir",
          "sread", "swrite", "rcheck", "unlink"}
Phases == {"forward", "nomount", "nocopy", "destroy"}
Codes  == {"none", "ok", "err", "positive"}

-----------------------------------------------------------------------------
(* Path resolution: what a path shows depends on the mounts over it.        *)

Mounts(pt)  == {n \in 1..Len(mtab) : mtab[n].at = pt}
Mounted(pt) == Mounts(pt) # {}
Top(pt)     == mtab[CHOOSE n \in Mounts(pt) : \A m \in Mounts(pt) : m <= n]

\* Is there an ecryptfs line whose device or mount point is pt?  Every line
\* has P as its device (get_mount_options compares both columns).
Listed(pt) == IF pt = "P" THEN 1..Len(mtab) ELSE Mounts(pt)

Exists(pt) == pt = "S" \/ (pt = "P" /\ privDir) \/ (pt = "R" /\ recDir)

Ciphertext == {i \in Items : enc[i] # NoKey}
Visible(pt) ==
  IF Mounted(pt) THEN IF Top(pt).live THEN Ciphertext ELSE {}
  ELSE IF pt = "S" THEN plain
  ELSE IF pt = "P" THEN Ciphertext ELSE {}

\* Item i is written, or removed, at path pt: the step on the disk.
CanPut(pt) == IF Mounted(pt) THEN Top(pt).live ELSE Exists(pt)
Put(pt, i) ==
  IF pt = "S" /\ ~Mounted(pt)
  THEN plain' = plain \cup {i} /\ UNCHANGED enc
  ELSE /\ enc' = [enc EXCEPT ![i] = IF Mounted(pt) THEN Top(pt).key ELSE Clear]
       /\ UNCHANGED plain
Drop(pt, i) ==
  IF pt = "S" /\ ~Mounted(pt)
  THEN plain' = plain \ {i} /\ UNCHANGED enc
  ELSE enc' = [enc EXCEPT ![i] = NoKey] /\ UNCHANGED plain

\* A directory whose mount has lost its ciphertext still opens, and is empty.
CanOpen(pt) == Mounted(pt) \/ Exists(pt)

\* The item can be opened and read at pt: through a mount, with its key.
CanRead(pt, i) ==
  i \in Visible(pt) /\ (Mounted(pt) => enc[i] = Top(pt).key)

-----------------------------------------------------------------------------
(* Control: how a step of process p continues.                              *)

Fault(kind) ==
  kind \in FaultKinds /\ faults < MaxFaults /\ faults' = faults + 1

Goto(p, step) == /\ pc' = [pc EXCEPT ![p] = step]
                 /\ UNCHANGED <<call, phase, hcopy, work, bad, ret>>

\* The API call returns code: its locals are gone.
Finish(p, code) ==
  /\ pc'    = [pc EXCEPT ![p] = "idle"]
  /\ ret'   = [ret EXCEPT ![p] = code]
  /\ phase' = [phase EXCEPT ![p] = "forward"]
  /\ hcopy' = [hcopy EXCEPT ![p] = NoHeader]
  /\ work'  = [work EXCEPT ![p] = {}]
  /\ bad'   = [bad EXCEPT ![p] = FALSE]
  /\ UNCHANGED call

\* p enters the phase f of its call, at the given step.
Enter(p, f, step) ==
  /\ pc'    = [pc EXCEPT ![p] = step]
  /\ phase' = [phase EXCEPT ![p] = f]
  /\ work'  = [work EXCEPT ![p] = {}]
  /\ bad'   = [bad EXCEPT ![p] = FALSE]
  /\ UNCHANGED <<call, hcopy, ret>>

Op(p) == call[p].op

\* Mutant: EFS_unlock passes the private directory as the mount point.
PointOf_Swapped == [create |-> "P", unlock |-> "P", lock |-> "S", recover |-> "R",
                    change |-> "S", remove |-> "S", none |-> "S"]
\* The path a call mounts P on, and unmounts.
PointOf == [create |-> "P", unlock |-> "S", lock |-> "S", recover |-> "R",
            change |-> "S", remove |-> "S", none |-> "S"]

\* The directory whose content a call removes, and the one it removes itself.
ContentOf(p) == CASE phase[p] = "forward" -> "S"
                  [] phase[p] = "nomount" -> "R"
                  [] phase[p] = "nocopy"  -> IF Op(p) = "create" THEN "P" ELSE "S"
                  [] phase[p] = "destroy" -> "P"
RootOf(p) == IF phase[p] \in {"forward", "nomount"} THEN "R" ELSE "P"

MountDone(p)   == IF Op(p) = "unlock" THEN Finish(p, "ok") ELSE Goto(p, "list")
\* Mutant: EFS_create and EFS_recover go on when the mount failed.
MountFailed_Ignored(p) == IF Op(p) \in {"create", "recover"} THEN Goto(p, "list")
                          ELSE Finish(p, "err")
MountFailed(p) == IF Op(p) = "recover" THEN Enter(p, "nomount", "rlist")
                  ELSE Finish(p, "err")
\* Mutant: encrypt_storage goes on when the unmount failed.
UmountDone_Ignored(p, ok) ==
  IF phase[p] = "nocopy"    THEN Enter(p, "nocopy", "rlist")
  ELSE IF Op(p) = "create"  THEN Enter(p, "forward", "rlist")
  ELSE IF ~ok               THEN Finish(p, "err")
  ELSE IF Op(p) = "recover" THEN Goto(p, "rmdir")
  ELSE Finish(p, "ok")
UmountDone(p, ok) ==
  IF phase[p] = "nocopy"    THEN Enter(p, "nocopy", "rlist")
  ELSE IF ~ok               THEN Finish(p, "err")
  ELSE IF Op(p) = "create"  THEN Enter(p, "forward", "rlist")
  ELSE IF Op(p) = "recover" THEN Goto(p, "rmdir")
  ELSE Finish(p, "ok")
\* Mutant: encrypt_storage ignores what remove_dir_content returns.
RemoveDone_Ignored(p, ok) ==
  IF phase[p] = "forward"       THEN Enter(p, "forward", "sread")
  ELSE IF ~ok                   THEN Finish(p, "err")
  ELSE IF phase[p] = "nocopy" /\ Op(p) = "recover" THEN Finish(p, "err")
  ELSE Goto(p, "rmdir")
RemoveDone(p, ok) ==
  IF ~ok                        THEN Finish(p, "err")
  ELSE IF phase[p] = "forward"  THEN Enter(p, "forward", "sread")
  ELSE IF phase[p] = "nocopy" /\ Op(p) = "recover" THEN Finish(p, "err")
  ELSE Goto(p, "rmdir")
RmdirDone(p, ok) ==
  IF ~ok                        THEN Finish(p, "err")
  ELSE IF phase[p] = "forward"  THEN Goto(p, "rcheck")
  ELSE IF phase[p] = "destroy"  THEN Goto(p, "unlink")
  ELSE Finish(p, "err")

-----------------------------------------------------------------------------
(* Entry of the API calls.                                                  *)

Init ==
  /\ plain = InitialItems /\ privDir = FALSE /\ recDir = FALSE
  /\ enc = [i \in Items |-> NoKey] /\ hdr = NoHeader
  /\ mtab = <<>> /\ keyring = {}
  /\ pc = [p \in Procs |-> "idle"] /\ call = [p \in Procs |-> NoCall]
  /\ phase = [p \in Procs |-> "forward"]
  /\ hcopy = [p \in Procs |-> NoHeader]
  /\ work = [p \in Procs |-> {}] /\ bad = [p \in Procs |-> FALSE]
  /\ ret = [p \in Procs |-> "none"]
  /\ data = InitialItems /\ used = {}
  /\ faults = 0 /\ kills = 0 /\ reboots = 0

FirstStep == [create |-> "create", unlock |-> "unlock", lock |-> "ucheck",
              change |-> "change", remove |-> "rcheck", recover |-> "recover"]

\* Bound: a creation starts only while a key is left for it to generate.
KeyLeft == LET creating == {q \in Procs : pc[q] \in {"create", "mkpriv", "newhdr"}}
           IN Cardinality(creating) < Cardinality(Keys \ used)

Start(p, c) ==
  /\ pc[p] = "idle" /\ (c.op = "create" => KeyLeft)
  /\ pc'   = [pc EXCEPT ![p] = FirstStep[c.op]]
  /\ call' = [call EXCEPT ![p] = c]
  /\ ret'  = [ret EXCEPT ![p] = "none"]
  /\ phase' = [phase EXCEPT ![p] = IF c.op = "remove" THEN "destroy" ELSE "forward"]
  /\ UNCHANGED <<hcopy, work, bad, disk, kernel, ghosts, budget>>

\* EFS_create: password length, no private directory yet, enough space.
CreateChecks(p) ==
  /\ pc[p] = "create"
  /\ \/ /\ call[p].pw \notin ShortPasswords /\ ~privDir
        /\ Goto(p, "mkpriv") /\ UNCHANGED faults
     \/ /\ call[p].pw \in ShortPasswords \/ privDir
        /\ Finish(p, "err") /\ UNCHANGED faults
     \/ Fault("space") /\ Finish(p, "err")
  /\ UNCHANGED <<disk, kernel, ghosts, kills, reboots>>

\* EFS_unlock: anything but COMPLETED is returned as it is, and
\* STORAGE_ENCRYPTION_NOT_STARTED is 1.
UnlockChecks(p) ==
  /\ pc[p] = "unlock"
  /\ \/ call[p].pw \in ShortPasswords /\ Finish(p, "err")
     \/ /\ call[p].pw \notin ShortPasswords
        /\ \/ hdr.stat = "completed"   /\ Goto(p, "mcheck")
           \/ hdr.stat = "not_started" /\ Finish(p, "positive")
           \/ ~Readable(hdr)           /\ Finish(p, "err")
  /\ UNCHANGED <<disk, kernel, ghosts, budget>>

\* EFS_recover_data_and_remove: P exists and is not listed as mounted.
RecoverChecks(p) ==
  /\ pc[p] = "recover"
  /\ \/ /\ call[p].pw \notin ShortPasswords /\ privDir /\ Listed("P") = {}
        /\ Goto(p, "mkrec") /\ UNCHANGED faults
     \/ /\ call[p].pw \in ShortPasswords \/ ~privDir \/ Listed("P") # {}
        /\ Finish(p, "err") /\ UNCHANGED faults
     \/ Fault("proc_recover") /\ Finish(p, "err")
  /\ UNCHANGED <<disk, kernel, ghosts, kills, reboots>>

MakeRecoveryDir(p) ==
  /\ pc[p] = "mkrec"
  /\ \/ ~recDir /\ recDir' = TRUE /\ Goto(p, "mcheck") /\ UNCHANGED faults
     \/ recDir /\ Finish(p, "err") /\ UNCHANGED <<recDir, faults>>
     \/ Fault("mkdir") /\ Finish(p, "err") /\ UNCHANGED recDir
  /\ UNCHANGED <<plain, privDir, enc, hdr, kernel, ghosts, kills, reboots>>

\* EFS_remove, called by a user or as the last part of a recovery.  A storage
\* that is mounted is left alone, and 0 is returned.  Past this point the user
\* who called remove has given up what lies in the private directory only; what
\* applications left in the clear at the storage path is not touched.
RemoveChecks(p) ==
  /\ pc[p] = "rcheck"
  /\ \/ ~privDir /\ Finish(p, "err") /\ UNCHANGED <<data, faults>>
     \/ Fault("proc_remove") /\ Finish(p, "err") /\ UNCHANGED data
     \/ /\ privDir /\ Listed("P") # {}
        /\ Finish(p, "ok") /\ UNCHANGED <<data, faults>>
     \/ /\ privDir /\ Listed("P") = {}
        /\ Enter(p, "destroy", "rlist") /\ UNCHANGED faults
        /\ data' = IF Op(p) = "remove" THEN data \cap plain ELSE data
  /\ UNCHANGED <<disk, kernel, used, kills, reboots>>

UnlinkKeyFile(p) ==
  /\ pc[p] = "unlink"
  /\ \/ /\ hdr.stat # "absent" /\ hdr' = NoHeader
        /\ Finish(p, "ok") /\ UNCHANGED faults
     \/ hdr.stat = "absent" /\ Finish(p, "err") /\ UNCHANGED <<hdr, faults>>
     \/ Fault("unlink") /\ Finish(p, "err") /\ UNCHANGED hdr
  /\ UNCHANGED <<plain, privDir, enc, recDir, kernel, ghosts, kills, reboots>>

-----------------------------------------------------------------------------
(* The crypto header: generate_crypt_info, EFS_set_status, change_passwd.   *)

\* A write that fails has already created the file (O_CREAT).
WriteFails(p) == /\ Fault("header") /\ Finish(p, "err")
                 /\ hdr' = IF hdr.stat = "absent"
                           THEN [NoHeader EXCEPT !.stat = "malformed"] ELSE hdr

\* Mutant: an existing private directory is no error (mkdir -p).
MakePrivateDir_Reuses(p) ==
  /\ pc[p] = "mkpriv"
  /\ \/ privDir' = TRUE /\ Goto(p, "newhdr") /\ UNCHANGED faults
     \/ Fault("mkdir") /\ Finish(p, "err") /\ UNCHANGED privDir
  /\ UNCHANGED <<plain, enc, hdr, recDir, kernel, ghosts, kills, reboots>>

\* mkdir is what keeps two creations apart.
MakePrivateDir(p) ==
  /\ pc[p] = "mkpriv"
  /\ \/ ~privDir /\ privDir' = TRUE /\ Goto(p, "newhdr") /\ UNCHANGED faults
     \/ privDir /\ Finish(p, "err") /\ UNCHANGED <<privDir, faults>>
     \/ Fault("mkdir") /\ Finish(p, "err") /\ UNCHANGED privDir
  /\ UNCHANGED <<plain, enc, hdr, recDir, kernel, ghosts, kills, reboots>>

WriteNewHeader(p) ==
  /\ pc[p] = "newhdr"
  /\ \/ \E k \in Keys \ used :
          /\ hdr' = [key |-> k, pass |-> call[p].pw, stat |-> "not_started"]
          /\ used' = used \cup {k}
          /\ Goto(p, "mcheck") /\ UNCHANGED faults
     \/ WriteFails(p) /\ UNCHANGED used
     \/ Fault("random") /\ Finish(p, "err") /\ UNCHANGED <<hdr, used>>
  /\ UNCHANGED <<plain, privDir, enc, recDir, kernel, data, kills, reboots>>

\* Mutant: the status recorded is STORAGE_ENCRYPTION_IN_PROGRESS.
ReadForStatus_InProgress(p) ==
  /\ pc[p] = "sread" /\ Readable(hdr)
  /\ hcopy' = [hcopy EXCEPT ![p] = [hdr EXCEPT !.stat = "in_progress"]]
  /\ pc' = [pc EXCEPT ![p] = "swrite"]
  /\ UNCHANGED <<call, phase, work, bad, ret, disk, kernel, ghosts, budget>>

\* read_crypto_header into the local copy, by the two read-modify-writes.
ReadForStatus(p) ==
  /\ pc[p] = "sread"
  /\ \/ /\ Readable(hdr)
        /\ hcopy' = [hcopy EXCEPT ![p] = [hdr EXCEPT !.stat = "completed"]]
        /\ pc' = [pc EXCEPT ![p] = "swrite"]
        /\ UNCHANGED <<call, phase, work, bad, ret>>
     \/ ~Readable(hdr) /\ Finish(p, "err")
  /\ UNCHANGED <<disk, kernel, ghosts, budget>>

\* Mutants: the old password is not checked; the header is encrypted with the
\* old password again; the status is reset.
ReadForChange_Unchecked(p) ==
  /\ pc[p] = "change" /\ Readable(hdr)
  /\ hcopy' = [hcopy EXCEPT ![p] = [hdr EXCEPT !.pass = call[p].new]]
  /\ pc' = [pc EXCEPT ![p] = "pwrite"]
  /\ UNCHANGED <<call, phase, work, bad, ret, disk, kernel, ghosts, budget>>
ReadForChange_OldKey(p) ==
  /\ pc[p] = "change" /\ Readable(hdr) /\ hdr.pass = call[p].pw
  /\ hcopy' = [hcopy EXCEPT ![p] = hdr]
  /\ pc' = [pc EXCEPT ![p] = "pwrite"]
  /\ UNCHANGED <<call, phase, work, bad, ret, disk, kernel, ghosts, budget>>
ReadForChange_NewHeader(p) ==
  /\ pc[p] = "change" /\ Readable(hdr) /\ hdr.pass = call[p].pw
  /\ hcopy' = [hcopy EXCEPT ![p] = [key |-> hdr.key, pass |-> call[p].new,
                                   stat |-> "not_started"]]
  /\ pc' = [pc EXCEPT ![p] = "pwrite"]
  /\ UNCHANGED <<call, phase, work, bad, ret, disk, kernel, ghosts, budget>>

ReadForChange(p) ==
  /\ pc[p] = "change"
  /\ \/ /\ {call[p].pw, call[p].new} \cap ShortPasswords = {}
        /\ Readable(hdr) /\ hdr.pass = call[p].pw
        /\ hcopy' = [hcopy EXCEPT ![p] = [hdr EXCEPT !.pass = call[p].new]]
        /\ pc' = [pc EXCEPT ![p] = "pwrite"]
        /\ UNCHANGED <<call, phase, work, bad, ret>>
     \/ /\ \/ {call[p].pw, call[p].new} \cap ShortPasswords # {}
           \/ ~Readable(hdr) \/ hdr.pass # call[p].pw
        /\ Finish(p, "err")
  /\ UNCHANGED <<disk, kernel, ghosts, budget>>

\* write_crypto_header of the local copy, whatever the file holds by now.
WriteBack(p) ==
  /\ pc[p] \in {"swrite", "pwrite"}
  /\ \/ /\ hdr' = hcopy[p]
        /\ Finish(p, "ok") /\ UNCHANGED faults
     \/ WriteFails(p)
  /\ UNCHANGED <<plain, privDir, enc, recDir, kernel, data, used, kills, reboots>>

-----------------------------------------------------------------------------
(* mount_ecryptfs.                                                          *)

\* P is already mounted somewhere: 0 is returned and nothing is mounted.  A
\* /proc/mounts that cannot be read counts as not mounted.
MountCheck(p) ==
  /\ pc[p] = "mcheck"
  /\ \/ Listed("P") # {} /\ MountDone(p) /\ UNCHANGED faults
     \/ Listed("P") = {} /\ Goto(p, "mopen") /\ UNCHANGED faults
     \/ Fault("proc_mount") /\ Goto(p, "mopen")
  /\ UNCHANGED <<disk, kernel, ghosts, kills, reboots>>

\* Mutant: the result of check_passwd is not looked at.
MountOpen_Unchecked(p) ==
  /\ pc[p] = "mopen" /\ Exists(PointOf[Op(p)]) /\ Readable(hdr)
  /\ hcopy' = [hcopy EXCEPT ![p] = hdr]
  /\ pc' = [pc EXCEPT ![p] = "mkeys"]
  /\ UNCHANGED <<call, phase, work, bad, ret, disk, kernel, ghosts, budget>>

\* stat the mount point, read the header, check_passwd: the master key.
MountOpen(p) ==
  /\ pc[p] = "mopen"
  /\ \/ /\ Exists(PointOf[Op(p)]) /\ Readable(hdr) /\ hdr.pass = call[p].pw
        /\ hcopy' = [hcopy EXCEPT ![p] = hdr]
        /\ pc' = [pc EXCEPT ![p] = "mkeys"]
        /\ UNCHANGED <<call, phase, work, bad, ret>>
     \/ /\ ~Exists(PointOf[Op(p)]) \/ ~Readable(hdr) \/ hdr.pass # call[p].pw
        /\ MountFailed(p)
  /\ UNCHANGED <<disk, kernel, ghosts, budget>>

\* fefek, then fnek, into the user keyring; a failure leaves what is there.
Tokens(k) == {<<k, "fefek">>, <<k, "fnek">>}
MountKeys(p) ==
  /\ pc[p] = "mkeys"
  /\ \/ /\ keyring' = keyring \cup Tokens(hcopy[p].key)
        /\ Goto(p, "mount") /\ UNCHANGED faults
     \/ Fault("keyring") /\ MountFailed(p) /\ UNCHANGED keyring
     \/ /\ Fault("keyring") /\ MountFailed(p)
        /\ keyring' = keyring \cup {<<hcopy[p].key, "fefek">>}
  /\ UNCHANGED <<disk, mtab, ghosts, kills, reboots>>

\* mount(2), then chown and chmod of the mount point.  The kernel wants both
\* tokens, and no ecryptfs below ecryptfs.
MountFs(p) ==
  LET pt == PointOf[Op(p)]
      possible == /\ Exists(pt) /\ privDir /\ ~Mounted("P")
                  /\ Tokens(hcopy[p].key) \subseteq keyring
      mounted  == mtab' = Append(mtab, [at |-> pt, key |-> hcopy[p].key, live |-> TRUE])
  IN /\ pc[p] = "mount"
     /\ \/ possible /\ mounted /\ MountDone(p) /\ UNCHANGED faults
        \/ ~possible /\ MountFailed(p) /\ UNCHANGED <<mtab, faults>>
        \/ Fault("mount") /\ MountFailed(p) /\ UNCHANGED mtab
        \/ possible /\ Fault("chown") /\ mounted /\ MountFailed(p)
     /\ UNCHANGED <<disk, keyring, ghosts, kills, reboots>>

-----------------------------------------------------------------------------
(* umount_ecryptfs.                                                         *)

UmountCheck(p) ==
  LET pt == PointOf[Op(p)] IN
  /\ pc[p] = "ucheck"
  /\ \/ Listed(pt) = {} /\ UmountDone(p, TRUE) /\ UNCHANGED faults
     \/ /\ Listed(pt) # {}
        /\ hcopy' = [hcopy EXCEPT ![p].key =
                       mtab[CHOOSE n \in Listed(pt) : \A m \in Listed(pt) : n <= m].key]
        /\ pc' = [pc EXCEPT ![p] = "umount"]
        /\ UNCHANGED <<call, phase, work, bad, ret, faults>>
     \/ Fault("proc_umount") /\ UmountDone(p, FALSE)
  /\ UNCHANGED <<disk, kernel, ghosts, kills, reboots>>

\* Five tries; EINVAL (not a mount point) ends them and counts as success.
Without(n) == [m \in 1..(Len(mtab) - 1) |-> IF m < n THEN mtab[m] ELSE mtab[m + 1]]
\* Mutant: running out of tries is not noticed.
Umount_GivesUp(p) ==
  /\ pc[p] = "umount"
  /\ \/ \E n \in Mounts(PointOf[Op(p)]) :
          /\ \A m \in Mounts(PointOf[Op(p)]) : m <= n
          /\ mtab' = Without(n) /\ UNCHANGED faults
     \/ ~Mounted(PointOf[Op(p)]) /\ UNCHANGED <<mtab, faults>>
     \/ Fault("umount") /\ UNCHANGED mtab
  /\ Goto(p, "ukeys")
  /\ UNCHANGED <<disk, keyring, ghosts, kills, reboots>>

Umount(p) ==
  LET pt == PointOf[Op(p)] IN
  /\ pc[p] = "umount"
  /\ \/ \E n \in Mounts(pt) : /\ \A m \in Mounts(pt) : m <= n
                              /\ mtab' = Without(n)
                              /\ Goto(p, "ukeys") /\ UNCHANGED faults
     \/ ~Mounted(pt) /\ Goto(p, "ukeys") /\ UNCHANGED <<mtab, faults>>
     \/ Fault("umount") /\ UmountDone(p, FALSE) /\ UNCHANGED mtab
  /\ UNCHANGED <<disk, keyring, ghosts, kills, reboots>>

\* Mutant: only the first of the two tokens is removed.
UmountKeys_First(p) ==
  /\ pc[p] = "ukeys"
  /\ keyring' = keyring \ {<<hcopy[p].key, "fefek">>} /\ UmountDone(p, TRUE)
  /\ UNCHANGED <<disk, mtab, ghosts, budget>>

\* fefek, then fnek: a token that is not found, or not unlinked, is an error
\* after the unmount, and leaves the tokens that follow.
UmountKeys(p) ==
  LET k == hcopy[p].key IN
  /\ pc[p] = "ukeys"
  /\ \/ /\ Tokens(k) \subseteq keyring
        /\ keyring' = keyring \ Tokens(k) /\ UmountDone(p, TRUE) /\ UNCHANGED faults
     \/ /\ <<k, "fefek">> \notin keyring
        /\ UmountDone(p, FALSE) /\ UNCHANGED <<keyring, faults>>
     \/ /\ <<k, "fefek">> \in keyring /\ <<k, "fnek">> \notin keyring
        /\ keyring' = keyring \ {<<k, "fefek">>} /\ UmountDone(p, FALSE)
        /\ UNCHANGED faults
     \/ Fault("token") /\ UmountDone(p, FALSE) /\ UNCHANGED keyring
     \/ /\ <<k, "fefek">> \in keyring /\ Fault("token")
        /\ keyring' = keyring \ {<<k, "fefek">>} /\ UmountDone(p, FALSE)
  /\ UNCHANGED <<disk, mtab, ghosts, kills, reboots>>

-----------------------------------------------------------------------------
(* copy_dir_content and remove_dir_content: a listing, then item by item.   *)

SourceOf(p) == IF Op(p) = "create" THEN "S" ELSE "R"
TargetOf(p) == IF Op(p) = "create" THEN "P" ELSE "S"

\* Mutant: the result of copy_dir_content is not looked at.
CopyFailed_Ignored(p) == Goto(p, "ucheck")

\* The copy failed: unmount and clean up, then return the error.
CopyFailed(p) == Enter(p, "nocopy", "ucheck")

ListForCopy(p) ==
  /\ pc[p] = "list"
  /\ \/ /\ CanOpen(SourceOf(p))
        /\ work' = [work EXCEPT ![p] = Visible(SourceOf(p))]
        /\ pc' = [pc EXCEPT ![p] = "copy"]
        /\ UNCHANGED <<call, phase, hcopy, bad, ret, faults>>
     \/ ~CanOpen(SourceOf(p)) /\ CopyFailed(p) /\ UNCHANGED faults
     \/ Fault("list") /\ CopyFailed(p)
  /\ UNCHANGED <<disk, kernel, ghosts, kills, reboots>>

\* create_dirs makes every directory before copy_files copies a file.  mkdir
\* refuses a directory that is there; open(O_CREAT) reuses a file that is.
CopyItem(p) ==
  /\ pc[p] = "copy" /\ work[p] # {}
  /\ \E i \in IF work[p] \cap Dirs # {} THEN work[p] \cap Dirs ELSE work[p] :
       LET possible == /\ CanPut(TargetOf(p)) /\ CanRead(SourceOf(p), i)
                       /\ i \in Dirs => i \notin Visible(TargetOf(p))
       IN \/ /\ possible /\ Put(TargetOf(p), i)
             /\ work' = [work EXCEPT ![p] = @ \ {i}]
             /\ UNCHANGED <<pc, call, phase, hcopy, bad, ret, faults>>
          \/ ~possible /\ CopyFailed(p) /\ UNCHANGED <<plain, enc, faults>>
          \/ Fault("copy") /\ CopyFailed(p) /\ UNCHANGED <<plain, enc>>
  /\ UNCHANGED <<privDir, hdr, recDir, kernel, ghosts, kills, reboots>>

CopyEnds(p) ==
  /\ pc[p] = "copy" /\ work[p] = {}
  /\ Goto(p, "ucheck")
  /\ UNCHANGED <<disk, kernel, ghosts, budget>>

\* Mutant: directories are not put on the list.
ListForRemoval_FilesOnly(p) ==
  /\ pc[p] = "rlist"
  /\ work' = [work EXCEPT ![p] = Visible(ContentOf(p)) \ Dirs]
  /\ pc' = [pc EXCEPT ![p] = "rdel"]
  /\ UNCHANGED <<call, phase, hcopy, bad, ret, disk, kernel, ghosts, budget>>

ListForRemoval(p) ==
  /\ pc[p] = "rlist"
  /\ \/ /\ CanOpen(ContentOf(p))
        /\ work' = [work EXCEPT ![p] = Visible(ContentOf(p))]
        /\ pc' = [pc EXCEPT ![p] = "rdel"]
        /\ UNCHANGED <<call, phase, hcopy, bad, ret, faults>>
     \/ ~CanOpen(ContentOf(p)) /\ RemoveDone(p, FALSE) /\ UNCHANGED faults
     \/ Fault("list") /\ RemoveDone(p, FALSE)
  /\ UNCHANGED <<disk, kernel, ghosts, kills, reboots>>

\* delete_files goes on after a failure and reports it; files come before
\* directories, which are not tried after a file has failed.
Files(I) == I \ Dirs
RemovalOver(p) == work[p] = {} \/ (bad[p] /\ Files(work[p]) = {})
\* Mutant: delete_files does not advance to the next node.
RemoveItem_Stays(p) ==
  /\ pc[p] = "rdel" /\ ~RemovalOver(p)
  /\ \E i \in work[p] : Drop(ContentOf(p), i)
  /\ UNCHANGED <<procs, privDir, hdr, recDir, kernel, ghosts, budget>>
RemoveItem(p) ==
  /\ pc[p] = "rdel" /\ ~RemovalOver(p)
  /\ \E i \in IF Files(work[p]) # {} THEN Files(work[p]) ELSE work[p] :
       /\ work' = [work EXCEPT ![p] = @ \ {i}]
       /\ \/ /\ i \in Visible(ContentOf(p)) /\ Drop(ContentOf(p), i)
             /\ UNCHANGED <<bad, faults>>
          \/ /\ i \notin Visible(ContentOf(p)) /\ bad' = [bad EXCEPT ![p] = TRUE]
             /\ UNCHANGED <<plain, enc, faults>>
          \/ /\ Fault("delete") /\ bad' = [bad EXCEPT ![p] = TRUE]
             /\ UNCHANGED <<plain, enc>>
  /\ UNCHANGED <<pc, call, phase, hcopy, ret, privDir, hdr, recDir, kernel,
                 ghosts, kills, reboots>>

RemovalEnds(p) ==
  /\ pc[p] = "rdel" /\ RemovalOver(p)
  /\ RemoveDone(p, ~bad[p])
  /\ UNCHANGED <<disk, kernel, ghosts, budget>>

\* remove(3) of the directory itself.  A mount of P elsewhere outlives P, with
\* nothing behind it.
RemoveRoot(p) ==
  LET root == RootOf(p)
      possible == /\ Exists(root) /\ ~Mounted(root)
                  /\ root = "P" => Ciphertext = {}
  IN /\ pc[p] = "rmdir"
     /\ \/ /\ possible /\ root = "P" /\ privDir' = FALSE
           /\ mtab' = [n \in 1..Len(mtab) |-> [mtab[n] EXCEPT !.live = FALSE]]
           /\ RmdirDone(p, TRUE) /\ UNCHANGED <<recDir, faults>>
        \/ /\ possible /\ root = "R" /\ recDir' = FALSE
           /\ RmdirDone(p, TRUE) /\ UNCHANGED <<privDir, mtab, faults>>
        \/ /\ ~possible
           /\ RmdirDone(p, FALSE) /\ UNCHANGED <<privDir, recDir, mtab, faults>>
        \/ /\ Fault("rmdir")
           /\ RmdirDone(p, FALSE) /\ UNCHANGED <<privDir, recDir, mtab>>
     /\ UNCHANGED <<plain, enc, hdr, keyring, ghosts, kills, reboots>>

-----------------------------------------------------------------------------
(* The environment.                                                         *)

\* The process dies in the middle of a call; what it did stays.
Kill(p) ==
  /\ pc[p] # "idle" /\ kills < MaxKills /\ kills' = kills + 1
  /\ Finish(p, "none")
  /\ UNCHANGED <<disk, kernel, ghosts, faults, reboots>>

Quiet == \A p \in Procs : pc[p] = "idle"

\* Mounts and keyring live in the kernel only; a call that is running dies.
Reboot ==
  /\ reboots < MaxReboots /\ reboots' = reboots + 1
  /\ \/ Quiet /\ UNCHANGED kills
     \/ ~Quiet /\ kills < MaxKills /\ kills' = kills + 1
  /\ mtab' = <<>> /\ keyring' = {}
  /\ pc' = [p \in Procs |-> "idle"] /\ call' = call
  /\ phase' = [p \in Procs |-> "forward"]
  /\ hcopy' = [p \in Procs |-> NoHeader]
  /\ work' = [p \in Procs |-> {}] /\ bad' = [p \in Procs |-> FALSE]
  /\ ret' = [p \in Procs |-> "none"]
  /\ UNCHANGED <<disk, ghosts, faults>>

\* An application stores a new item at S.
AppWrite(i) ==
  /\ i \notin data \cup Visible("S") /\ CanPut("S")
  /\ AppsDuringCalls \/ Quiet
  /\ Put("S", i)
  /\ data' = data \cup {i}
  /\ UNCHANGED <<privDir, hdr, recDir, kernel, procs, used, budget>>

Step(p) ==
  \/ CreateChecks(p) \/ MakePrivateDir(p) \/ WriteNewHeader(p)
  \/ UnlockChecks(p) \/ RecoverChecks(p) \/ MakeRecoveryDir(p)
  \/ RemoveChecks(p) \/ UnlinkKeyFile(p)
  \/ ReadForStatus(p) \/ ReadForChange(p) \/ WriteBack(p)
  \/ MountCheck(p) \/ MountOpen(p) \/ MountKeys(p) \/ MountFs(p)
  \/ UmountCheck(p) \/ Umount(p) \/ UmountKeys(p)
  \/ ListForCopy(p) \/ CopyItem(p) \/ CopyEnds(p)
  \/ ListForRemoval(p) \/ RemoveItem(p) \/ RemovalEnds(p) \/ RemoveRoot(p)

Next ==
  \/ \E p \in Procs : Step(p) \/ Kill(p) \/ \E c \in CallArgs : Start(p, c)
  \/ Reboot
  \/ \E i \in Items : AppWrite(i)

Spec == Init /\ [][Next]_vars
FairSpec == Spec /\ \A p \in Procs : WF_vars(Step(p))

-----------------------------------------------------------------------------
(* Properties.                                                              *)

\* Every variable stays in its set.
DiskTypeOK ==
  /\ plain \subseteq Items /\ privDir \in BOOLEAN /\ recDir \in BOOLEAN
  /\ enc \in [Items -> Keys \cup {NoKey, Clear}] /\ hdr \in Header
KernelTypeOK ==
  /\ mtab \in Seq(Entry)
  /\ keyring \subseteq (Keys \cup {NoKey}) \X {"fefek", "fnek"}
ProcsTypeOK ==
  /\ pc \in [Procs -> Steps] /\ call \in [Procs -> CallArgs \cup {NoCall}]
  /\ phase \in [Procs -> Phases] /\ hcopy \in [Procs -> Header]
  /\ work \in [Procs -> SUBSET Items] /\ bad \in [Procs -> BOOLEAN]
  /\ ret \in [Procs -> Codes]
GhostsTypeOK == data \subseteq Items /\ used \subseteq Keys
BudgetTypeOK == faults \in Nat /\ kills \in Nat /\ reboots \in Nat
TypeOK == DiskTypeOK /\ KernelTypeOK /\ ProcsTypeOK /\ GhostsTypeOK /\ BudgetTypeOK

\* The items the key file opens.
Decryptable == {i \in Items : Readable(hdr) /\ enc[i] = hdr.key}

\* No data is lost: each item the user stored and has not asked to destroy is
\* in the storage directory or in ciphertext whose key the key file holds.
Durable == data \subseteq plain \cup Decryptable

\* The library never keeps an item unencrypted in the private directory: a
\* copy into P goes through an ecryptfs mount.
NothingInClear == \A i \in Items : enc[i] # Clear

\* All ciphertext is under the master key of the key file, also while calls
\* run and after they failed: one password opens all of a storage or nothing.
OneKey == \A i \in Items : enc[i] \in {NoKey, hdr.key}

\* Calls that met no failure leave no residue: with no call running, no item
\* is both in the clear and in the ciphertext, the keyring holds exactly the
\* tokens of the mounts, and there is no recovery directory.
NoResidue ==
  Quiet /\ faults = 0 /\ kills = 0 =>
    /\ plain \cap Ciphertext \cap data = {}
    /\ keyring = UNION {Tokens(mtab[n].key) : n \in 1..Len(mtab)}
    /\ ~recDir

\* EFS_set_status declares the encryption complete only when nothing is left
\* in the clear and every item is in ciphertext the key file opens.
SealedOnlyWhenDone ==
  [][hdr.stat # "completed" /\ hdr'.stat = "completed" =>
       plain = {} /\ data \subseteq {i \in Items : enc[i] = hdr'.key}]_vars

\* remove_dir_content of EFS_create deletes a user's item from the storage only
\* when its ciphertext can be opened with the key file.
WipeOnlyEncrypted ==
  [][\A p \in Procs : pc[p] = "rdel" /\ Op(p) = "create" /\ pc'[p] = "rdel" =>
       (plain \ plain') \cap data \subseteq Decryptable]_vars

\* A mount appears only by a call whose own password opens the key file as it
\* is at that moment, and under the master key that is in it: a wrong password
\* mounts nothing, nor does one that was replaced since the call looked.
PasswordGate ==
  [][Len(mtab') > Len(mtab) =>
       \E p \in Procs : /\ pc[p] = "mount" /\ pc'[p] # "mount"
                        /\ Readable(hdr) /\ hdr.pass = call[p].pw
                        /\ mtab'[Len(mtab')].key = hdr.key]_vars

\* The call op of process p returns 0 in this step.
Returns0(p, op) == pc[p] # "idle" /\ pc'[p] = "idle" /\ ret'[p] = "ok" /\ Op(p) = op

\* What a return value of 0 promises.  create: everything is encrypted, closed
\* and gone from the storage directory.
CreateContract ==
  [][\A p \in Procs : Returns0(p, "create") =>
       plain' = {} /\ data' \subseteq Decryptable' /\ ~Mounted("P")'
         /\ hdr'.stat = "completed"]_vars
\* unlock: every item the key file opens can be read at the storage path.
UnlockContract ==
  [][\A p \in Procs : Returns0(p, "unlock") =>
       (Mounted("S") /\ \A i \in Decryptable : CanRead("S", i))']_vars
\* lock: no decrypted view of the storage is left at the storage path.
LockContract ==
  [][\A p \in Procs : Returns0(p, "lock") => ~Mounted("S")']_vars
\* change: the new password opens the same master key.
ChangeContract ==
  [][\A p \in Procs : Returns0(p, "change") =>
       hdr'.pass = call[p].new /\ hdr'.key = hdr.key]_vars
\* recover: every item is back in the clear, the ciphertext is gone.
RecoverContract ==
  [][\A p \in Procs : Returns0(p, "recover") => data' \subseteq plain' /\ ~privDir']_vars

\* remove, in the words of efs.c:378-382: "Remove an EFS [...] 0 on success".
RemoveContract ==
  [][\A p \in Procs : Returns0(p, "remove") => ~privDir' /\ hdr'.stat = "absent"]_vars

\* The password of a master key changes only by a change call that was given
\* the password in force.
PasswordKept ==
  [][hdr'.key = hdr.key /\ hdr'.pass # hdr.pass =>
       \E p \in Procs : pc[p] = "pwrite" /\ call[p].pw = hdr.pass]_vars

\* Once a storage is declared encrypted it stays so, as long as its key does.
CompletedStays ==
  [][hdr.stat = "completed" /\ hdr'.key = hdr.key => hdr'.stat = "completed"]_vars

\* A recovery starts to destroy the ciphertext only when everything that was
\* still recoverable lies in the clear.
DestroyOnlyRecovered ==
  [][\A p \in Procs :
       pc[p] = "rcheck" /\ Op(p) = "recover" /\ phase'[p] = "destroy" /\ Durable =>
         data \subseteq plain]_vars

\* Every call returns.
CallsReturn == \A p \in Procs : pc[p] # "idle" ~> pc[p] = "idle"

=============================================================================
