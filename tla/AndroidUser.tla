----------------------------- MODULE AndroidUser -----------------------------
(* The encryption of one Android user: the storages "data" (/data/user/N) and *)
(* "media" (/data/media/N), which the calls of android_user_encryption.c take *)
(* one after the other, with the framework stopped and started around them,   *)
(* and what init finds at boot.  A call of the storage API is one step, with  *)
(* the outcomes of EfsCalls.  One process calls at a time (efs-server).       *)
EXTENDS EfsCalls, Integers, Sequences

CONSTANTS
  Users, PrimaryUser,       \* the user is one of Users; the primary one is special
  UserOps,                  \* the calls made in this instance
  InitialItems,             \* what lies in each storage before the first call
  MaxMishaps, MaxReboots    \* bounds on what goes wrong

UserCalls == {"encrypt", "unlock", "unlock_init", "lock", "change", "decrypt",
              "remove", "status"}
Places == {"data", "media"}

ASSUME UserAssumption == /\ UserOps \subseteq UserCalls /\ InitialItems \subseteq Items
                         /\ MaxMishaps \in Nat /\ MaxReboots \in Nat

VARIABLES
  user,       \* the Android user
  st,         \* st[s]: the storage s
  framework,  \* are zygote and the class main running?
  prompt,     \* does the boot ask for the user's password (/data is a tmpfs)?
  bootPass,   \* the password of the header init copied to /mnt/secure
  pc,         \* the step of Program the call is at; 0: no call
  call,       \* the call, with its arguments
  got,        \* the status of "data" that a status call has read
  ret,        \* how the last call returned
  data,       \* ghost: data[s], what the user keeps in s
  began,      \* ghost: what the running call found
  troubled,   \* ghost: has a call that failed, or the primary user's lock,
              \* left anything behind?
  mishaps,    \* failed system calls, deaths of the caller and cut calls so far
  reboots     \* restarts of the device so far

boot   == <<prompt, bootPass>>
caller == <<pc, call, got, ret>>
ghosts == <<data, began, troubled>>
budget == <<mishaps, reboots>>
vars   == <<user, st, framework, boot, caller, ghosts, budget>>

Primary == user = PrimaryUser

UserArgs ==
  [op: UserOps \cap {"lock", "remove", "status"}, pw: {NoPassword}, new: {NoPassword}]
    \cup [op: UserOps \cap {"encrypt", "unlock", "unlock_init", "decrypt"},
          pw: Passwords, new: {NoPassword}]
    \cup [op: UserOps \cap {"change"}, pw: Passwords, new: Passwords]
NoCall == [op |-> "none", pw |-> NoPassword, new |-> NoPassword]

-----------------------------------------------------------------------------
(* The order of the steps of a call.                                         *)

Do(step)    == [do |-> step, on |-> "data"]
On(step, s) == [do |-> step, on |-> s]

\* Mutant: the media storage is forgotten.
UnlockBoth_DataOnly ==
  <<On("find", "data"), On("wipe", "data"), On("unlock", "data")>>
UnlockBoth == <<On("find", "data"),   On("wipe", "data"),  On("unlock", "data"),
                On("probe", "media"), On("wipe", "media"), On("unlock", "media")>>

Program ==
  CASE call.op = "encrypt" /\ ~Primary ->
         <<Do("stop"), On("create", "data"), On("create", "media")>>
           \o UnlockBoth \o <<Do("start")>>
    [] call.op = "encrypt" /\ Primary ->
         <<Do("measure"), On("create", "data"), On("create", "media"), Do("reboot")>>
    [] call.op = "unlock" /\ ~Primary      -> UnlockBoth
    [] call.op = "unlock_init" /\ ~Primary -> <<Do("stop")>> \o UnlockBoth \o <<Do("start")>>
    [] call.op \in {"unlock", "unlock_init"} /\ Primary ->
         <<Do("check"), Do("stop")>> \o UnlockBoth \o <<Do("start")>>
    [] call.op = "decrypt" /\ ~Primary ->
         <<Do("stop"), On("lock", "data"), On("recover", "data"),
           On("lock", "media"), On("recover", "media"), Do("start")>>
    [] call.op = "decrypt" /\ Primary ->
         <<On("lock", "data"), On("lock", "media"), On("recover", "data"),
           On("recover", "media"), Do("reboot")>>
    [] call.op = "lock" /\ Primary  -> <<On("miss", "data"), On("lock", "media")>>
    [] call.op = "lock" /\ ~Primary -> <<On("lock", "data"), On("lock", "media")>>
    [] call.op = "change" -> <<On("change", "data"), On("change", "media")>>
    [] call.op = "remove" -> <<On("remove", "data"), On("remove", "media")>>
    [] call.op = "status" -> <<On("status", "data"), On("status", "media")>>
    [] call.op = "none"   -> <<>>

Here(step) == pc # 0 /\ Program[pc].do = step
Place      == Program[pc].on

\* What a call that fails should leave as it was: everything but the files
\* lying in the storage directories, which an unlock removes first.
Found == [st |-> [s \in Places |-> [st[s] EXCEPT !.clear = {}]],
          framework |-> framework]
NotRunning == [st |-> <<>>, framework |-> TRUE]

\* The ghosts began and troubled, in every step.  The lock of the primary user
\* (LockMiss) returns 0 with "data" open; a RestartFramework that fails leaves
\* the services stopped.
Judge ==
  /\ began' = IF pc' = 0 THEN NotRunning ELSE IF pc = 0 THEN Found ELSE began
  /\ troubled' = \/ troubled
                 \/ Here("miss") /\ st["data"].at # "none"
                 \/ pc = 0 /\ framework /\ ~framework'
                 \/ /\ pc # 0 /\ pc' = 0 /\ ret' \in {"err", "none"}
                    /\ Found' # began

\* The call is over.
Return(code) == pc' = 0 /\ ret' = code /\ got' = "absent" /\ UNCHANGED call

GoTo(n) == pc' = n /\ UNCHANGED <<call, got, ret>>
\* Mutant: the call does not end after its last step.
Proceed_Past == GoTo(pc + 1)
Proceed == IF pc = Len(Program) THEN Return("ok") ELSE GoTo(pc + 1)

\* android_unlock_user_data returns 0 at once; an encrypt goes on behind it.
SkipUnlock == IF call.op = "encrypt" THEN GoTo(Len(Program)) ELSE Return("ok")

Mishap == mishaps < MaxMishaps /\ mishaps' = mishaps + 1
Fails  == Mishap /\ Return("err")
Dies   == Mishap /\ Return("none")

\* The state x is left in s; /data/lost+found/N serves both storages.
Leave(s, x) ==
  st' = [t \in Places |-> IF t = s THEN x ELSE [st[t] EXCEPT !.rec = x.rec]]

Unmounted == [s \in Places |-> [st[s] EXCEPT !.at = "none"]]

-----------------------------------------------------------------------------
(* init and the start of a call.                                             *)

\* android_check_user_encrypted: private directories and key files of both.
Detected == \A s \in Places : st[s].priv /\ st[s].stat # "absent"

Booted(found) ==
  /\ prompt' = found /\ framework' = TRUE
  /\ bootPass' = IF found /\ HasHeader(st["data"]) THEN st["data"].pass ELSE NoPassword

Init ==
  /\ user \in Users
  /\ st = [s \in Places |-> InTheClear(InitialItems)]
  /\ framework = TRUE /\ prompt = FALSE /\ bootPass = NoPassword
  /\ pc = 0 /\ call = NoCall /\ got = "absent" /\ ret = "none"
  /\ data = [s \in Places |-> InitialItems]
  /\ began = NotRunning /\ troubled = FALSE
  /\ mishaps = 0 /\ reboots = 0

\* While the boot asks for a password, that is the only call, or it is restarted
\* for another user (RestartFramework).
Start(c) ==
  /\ pc = 0 /\ (prompt <=> c.op = "unlock_init")
  /\ pc' = 1 /\ call' = c /\ ret' = "none"
  /\ UNCHANGED <<user, st, framework, boot, got, data, budget>> /\ Judge

-----------------------------------------------------------------------------
(* The steps.                                                                *)

EfsOps == {"create", "unlock", "lock", "change", "remove", "recover"}

\* A call of the storage API.  What is below 0 is returned; 1, the status of an
\* unfinished encryption, is not.  A lock is tried again for 30 seconds.
EfsCall ==
  /\ pc # 0 /\ Program[pc].do \in EfsOps
  /\ \E o \in Outcomes(st[Place], [op |-> Program[pc].do, pw |-> call.pw, new |-> call.new]) :
       /\ Leave(Place, o.to)
       /\ \/ /\ o.how = "clean" /\ UNCHANGED mishaps
             /\ IF o.code = "err" THEN Return("err") ELSE Proceed
          \/ o.how = "fault" /\ Fails
          \/ o.how = "fault" /\ call.op = "lock" /\ Mishap /\ UNCHANGED caller
          \/ o.how = "killed" /\ Dies
  /\ data' = IF Here("remove") /\ st[Place].priv /\ st[Place].at = "none"
             THEN [data EXCEPT ![Place] = {}] ELSE data
  /\ UNCHANGED <<user, framework, boot, reboots>> /\ Judge

\* remove_dir_content of the storage directory before the unlock.
Wipe ==
  /\ Here("wipe")
  /\ \E C \in SUBSET st[Place].clear :
       /\ Leave(Place, [st[Place] EXCEPT !.clear = C])
       /\ (C = {} /\ Proceed /\ UNCHANGED mishaps) \/ Fails \/ Dies
  /\ UNCHANGED <<user, framework, boot, data, reboots>> /\ Judge

\* EFS_lock of the primary user's /data/user/0, a link to the /data/data that
\* /proc/mounts lists: it finds nothing to unmount.
LockMiss ==
  /\ Here("miss")
  /\ \/ Proceed /\ UNCHANGED mishaps
     \/ Mishap /\ UNCHANGED caller
     \/ Fails
  /\ UNCHANGED <<user, st, framework, boot, data, reboots>> /\ Judge

\* Mutant: the private directory is not looked for.
FindStorage_Unchecked ==
  /\ Here("find")
  /\ IF st[Place].at # "none" THEN SkipUnlock ELSE Proceed
  /\ UNCHANGED <<user, st, framework, boot, data, budget>> /\ Judge
\* "data" must have a private directory; mounted anywhere, it counts as open.
FindStorage ==
  /\ Here("find")
  /\ IF ~st[Place].priv THEN Return("err")
     ELSE IF st[Place].at # "none" THEN SkipUnlock
     ELSE Proceed
  /\ UNCHANGED <<user, st, framework, boot, data, budget>> /\ Judge

\* "media" counts as open only when the storage path is a mount point.
ProbeStorage ==
  /\ Here("probe")
  /\ IF st[Place].at = "S" THEN SkipUnlock ELSE Proceed
  /\ UNCHANGED <<user, st, framework, boot, data, budget>> /\ Judge

\* access(2), then EFS_get_status.  The path keeps its trailing slash, so what
\* access is given is the storage itself (/data/user/0/.), which is there; a
\* header that cannot be read makes the call return the 0 access has left in ret.
StatusIs(code) == Return(code) /\ UNCHANGED mishaps
\* Mutant: the status of "data" is the answer.
ReadStatus_DataOnly ==
  /\ Here("status")
  /\ IF HasHeader(st[Place]) THEN StatusIs(st[Place].stat) ELSE StatusIs("ok")
  /\ UNCHANGED <<user, st, framework, boot, data, reboots>> /\ Judge
ReadStatus ==
  LET x == st[Place] IN
  /\ Here("status")
  /\ \/ ~HasHeader(x) /\ StatusIs("ok")
     \/ Mishap /\ Return("ok")
     \/ /\ HasHeader(x) /\ Place = "data"
        /\ got' = x.stat /\ pc' = pc + 1 /\ UNCHANGED <<call, ret, mishaps>>
     \/ /\ HasHeader(x) /\ Place = "media"
        /\ StatusIs(IF x.stat = got THEN got ELSE "err")
  /\ UNCHANGED <<user, st, framework, boot, data, reboots>> /\ Judge

\* get_dir_size of both storages, for the progress bar.
Measure ==
  /\ Here("measure")
  /\ (Proceed /\ UNCHANGED mishaps) \/ Fails
  /\ UNCHANGED <<user, st, framework, boot, data, reboots>> /\ Judge

\* The password against the header that init has copied.
CheckCopy ==
  /\ Here("check")
  /\ IF bootPass # NoPassword /\ call.pw = bootPass THEN Proceed ELSE Return("err")
  /\ UNCHANGED <<user, st, framework, boot, data, budget>> /\ Judge

StopFramework ==
  /\ Here("stop") /\ framework' = FALSE /\ Proceed
  /\ UNCHANGED <<user, st, boot, data, budget>> /\ Judge

\* Mutant: the services stay down.
StartFramework_Forgotten ==
  /\ Here("start") /\ prompt' = FALSE /\ Proceed
  /\ UNCHANGED <<user, st, framework, bootPass, data, budget>> /\ Judge
StartFramework ==
  /\ Here("start") /\ framework' = TRUE /\ prompt' = FALSE /\ Proceed
  /\ UNCHANGED <<user, st, bootPass, data, budget>> /\ Judge

\* android_reboot at the end of a call.
Restart ==
  /\ Here("reboot")
  /\ st' = Unmounted /\ Booted(Detected) /\ Return("ok")
  /\ UNCHANGED <<user, data, budget>> /\ Judge

-----------------------------------------------------------------------------
(* The environment.                                                          *)

\* The caller dies between two steps.
Kill ==
  /\ pc # 0 /\ Dies
  /\ UNCHANGED <<user, st, framework, boot, data, reboots>> /\ Judge

\* The device restarts.  Copying the header may fail, and then init does not
\* report the user as encrypted.
Reboot ==
  /\ reboots < MaxReboots /\ reboots' = reboots + 1
  /\ st' = Unmounted /\ Return("none")
  /\ \/ Booted(Detected) /\ IF pc = 0 THEN UNCHANGED mishaps ELSE Mishap
     \/ Booted(FALSE) /\ Mishap
  /\ UNCHANGED <<user, data>> /\ Judge

\* android_restart_framework: the boot goes on without the password, for
\* another user.  What lies in the closed "data" of an encrypted primary user is
\* removed; when that or the umount of the tmpfs fails, nothing is started.
RestartFramework ==
  /\ pc = 0 /\ prompt
  /\ \E C \in SUBSET st["data"].clear :
       /\ Primary \/ C = st["data"].clear
       /\ Leave("data", [st["data"] EXCEPT !.clear = C])
       /\ \/ /\ Primary => C = {}
             /\ framework' = TRUE /\ prompt' = FALSE /\ UNCHANGED mishaps
          \/ framework' = FALSE /\ UNCHANGED prompt /\ Mishap
  /\ UNCHANGED <<user, bootPass, caller, data, reboots>> /\ Judge

\* An application, or the framework for it, stores an item.  In a storage that
\* is locked it is not the user's: the next unlock throws it away.
AppWrite(s, i) ==
  /\ pc = 0 /\ framework /\ ~prompt
  /\ LET inside == st[s].at = "S" IN
       /\ i \notin (IF inside THEN st[s].cipher ELSE st[s].clear)
       /\ Leave(s, IF inside THEN [st[s] EXCEPT !.cipher = @ \cup {i}]
                   ELSE [st[s] EXCEPT !.clear = @ \cup {i}])
       /\ data' = IF inside \/ ~st[s].priv THEN [data EXCEPT ![s] = @ \cup {i}] ELSE data
  /\ UNCHANGED <<user, framework, boot, caller, budget>> /\ Judge

Step == \/ EfsCall \/ LockMiss \/ Wipe \/ FindStorage \/ ProbeStorage \/ ReadStatus \/ Measure
        \/ CheckCopy \/ StopFramework \/ StartFramework \/ Restart

Next == \/ Step \/ Kill \/ Reboot \/ RestartFramework
        \/ \E c \in UserArgs : Start(c)
        \/ \E s \in Places, i \in Items : AppWrite(s, i)

Spec == Init /\ [][Next]_vars

-----------------------------------------------------------------------------
(* Properties.                                                               *)

\* Every variable stays in its set.
TypeOK ==
  /\ user \in Users /\ st \in [Places -> Storage]
  /\ framework \in BOOLEAN /\ prompt \in BOOLEAN
  /\ bootPass \in Passwords \cup {NoPassword}
  /\ pc \in 0..10 /\ pc <= Len(Program) /\ call \in UserArgs \cup {NoCall}
  /\ got \in {"absent", "not_started", "completed"}
  /\ ret \in {"none", "ok", "err", "not_started", "completed"}
  /\ data \in [Places -> SUBSET Items] /\ troubled \in BOOLEAN
  /\ mishaps \in 0..MaxMishaps /\ reboots \in 0..MaxReboots

Open(s) == st[s].at = "S"

\* Both storages of a user are in the same condition, all clear or all sealed,
\* with one password, both open or both closed, and the framework runs: until
\* a call fails half-way, or the primary user is locked.  The framework of the
\* primary user stays down after an unlock of what is open already.
Lockstep ==
  pc = 0 /\ ~troubled =>
    /\ framework \/ Primary
    /\ \A s \in Places :
         /\ st[s].at \in {"none", "S"} /\ ~st[s].rec
         /\ st[s].stat = IF st[s].priv THEN "completed" ELSE "absent"
         /\ st[s].priv => data[s] \subseteq st[s].cipher
         /\ ~st[s].priv => data[s] \subseteq st[s].clear
    /\ st["data"].priv = st["media"].priv
    /\ st["data"].pass = st["media"].pass
    /\ st["data"].at = st["media"].at

\* What the user keeps can be read, or decrypted with the key file.
Safe(s) == data[s] \subseteq st[s].clear
                               \cup (IF HasHeader(st[s]) THEN st[s].cipher ELSE {})

\* The first call that fails half-way, dies or is cut off by a restart loses
\* nothing; only calls made after it can.
FirstFailureHarmless == [][~troubled => \A s \in Places : Safe(s)']_vars

Returns(op, code) == pc # 0 /\ pc' = 0 /\ call.op = op /\ ret' = code

\* encrypt_user_data returns 0: both storages are sealed; those of the primary
\* user will be found at the boot, those of another user are open and the
\* framework runs again.
EncryptContract ==
  [][Returns("encrypt", "ok") =>
       /\ \A s \in Places : Sealed(st'[s])
       /\ IF Primary THEN prompt' ELSE framework' /\ \A s \in Places : Open(s)']_vars

\* decrypt_user_data returns 0: nothing of the encryption is left, nothing is
\* mounted, and the framework runs.
DecryptContract ==
  [][Returns("decrypt", "ok") =>
       /\ \A s \in Places : st'[s] = InTheClear(st'[s].clear)
       /\ framework']_vars

\* unlock_user_data returns 0: both storages are open.
UnlockOpensBoth ==
  [][Returns("unlock", "ok") \/ Returns("unlock_init", "ok") =>
       \A s \in Places : Open(s)']_vars

\* get_encrypted_user_status whose reads succeed answers COMPLETED exactly when
\* both key files say so, at two different moments of its call: for no user
\* that is half encrypted, and for no user whose removal has come to a key file.
StatusTruthful ==
  [][pc # 0 /\ pc' = 0 /\ call.op = "status" /\ ret' # "none" /\ mishaps' = mishaps =>
       (ret' = "completed") = (\A s \in Places : st[s].stat = "completed")]_vars

=============================================================================
