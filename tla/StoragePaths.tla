----------------------------- MODULE StoragePaths -----------------------------
(* Several storages side by side: the paths key_store.c derives from the name *)
(* a caller gives, the mount table that is searched by name, and the lock of  *)
(* a user, which kills whoever has a file open below a storage and tries      *)
(* again for a while (process.c, android_lock_user_data).  A path is the      *)
(* sequence of its slashes and of the pieces between them.  One call at a     *)
(* time, as efs-server makes them; other programs open files meanwhile.       *)
EXTENDS Naturals, Sequences, FiniteSets, SequencesExt

CONSTANTS
  Storages,    \* the directories that may become storages
  Spellings,   \* the paths callers pass
  UserPaths,   \* what android_lock_user_data locks, one after the other
  Programs,    \* programs that open files
  Used,        \* the storages they open files in
  HashLen,     \* how much of a path the name of its key file is made from
  Attempts,    \* bound: how often an unmount fits into the thirty seconds
  MaxKeys,     \* bound: creations
  MaxOpens     \* bound: files opened during the lock of a user

Slash == "/"
LostFound == <<Slash, "data", Slash, "lost+found">>
\* A path without repeated, final or leading "./" pieces names one directory.
Plainly(p) == /\ p # <<>> /\ p[1] = Slash /\ p[Len(p)] # Slash
              /\ \A i \in 1..(Len(p) - 1) : p[i] = Slash => p[i + 1] # Slash
ASSUME PathsAssumption ==
  /\ (\A s \in Storages : Plainly(s)) /\ Used \subseteq Storages
  /\ HashLen \in Nat /\ Attempts \in Nat \ {0} /\ MaxKeys \in Nat /\ MaxOpens \in Nat

VARIABLES
  dirs,     \* the directories there are, without the ciphertext in them
  cipher,   \* cipher[d]: the key of the ciphertext in the private directory d; 0: no directory
  keyFile,  \* keyFile[n]: the key in the key file n; 0: no file
  mounts,   \* the ecryptfs lines of /proc/mounts
  made,     \* keys generated
  held,     \* held[q]: the file q has open
  killed,   \* programs that were sent SIGKILL and have not come back
  lock,     \* the lock of the user that is running
  opens,    \* files opened during the last lock of the user
  last      \* the last call that has returned

vars == <<dirs, cipher, keyFile, mounts, made, held, killed, lock, opens, last>>

-----------------------------------------------------------------------------
(* Paths.                                                                    *)

\* The directory a path leads to; "./" leads to "/", where the callers run.
Resolve(p) ==
  LET q == IF p # <<>> /\ p[1] = "." THEN Tail(p) ELSE p
      keep(i) == q[i] # Slash \/ (i < Len(q) /\ q[i + 1] # Slash)
      nth == SelectSeq([i \in 1..Len(q) |-> i], keep)
  IN IF Plainly(q) THEN q ELSE [i \in 1..Len(nth) |-> q[nth[i]]]

\* Mutant: the slashes at the end stay.
Stripped_Not(p) == p
Stripped(p) ==
  IF \A i \in 1..Len(p) : p[i] = Slash THEN <<>>
  ELSE SubSeq(p, 1, CHOOSE n \in 1..Len(p) : p[n] # Slash /\ \A i \in (n + 1)..Len(p) : p[i] = Slash)

\* The place of the last slash; a slash in front does not count.
LastSlash(p) ==
  LET at == {i \in 2..Len(p) : p[i] = Slash}
  IN IF at = {} THEN 0 ELSE CHOOSE i \in at : \A j \in at : j <= i

PrivatePath(p) ==
  SubSeq(p, 1, LastSlash(p)) \o <<".">> \o SubSeq(p, LastSlash(p) + 1, Len(p))

RecoveryPath(p) ==
  LostFound \o SubSeq(p, IF LastSlash(p) = 0 THEN 1 ELSE LastSlash(p), Len(p))

\* The digest that names the key file is one of the first bytes of the path.
\* Mutant: the digest of the last piece.
KeyName_Base(p) == SubSeq(p, LastSlash(p) + 1, Len(p))
KeyName(p) == SubSeq(p, 1, IF Len(p) < HashLen THEN Len(p) ELSE HashLen)

\* The names callers give, without the slashes at their end, and what is derived
\* from each: the directory it leads to, the private one as it is spelled and
\* where that leads, the recovery directory and the name of the key file.
UserSet == {UserPaths[i] : i \in 1..Len(UserPaths)}
Callers == Spellings \cup Storages \cup UserSet
ASSUME CallersAssumption == UserPaths # <<>> /\ UserPaths \in Seq(UserSet) /\ Callers \subseteq Seq(STRING)
Strip   == [p \in Callers |-> Stripped(p)]
Names   == {Stripped(p) : p \in Callers} \ {<<>>}
Of == [n \in Names |-> [dir |-> Resolve(n), hides |-> PrivatePath(n),
                        private |-> Resolve(PrivatePath(n)),
                        recovery |-> Resolve(RecoveryPath(n)), key |-> KeyName(n)]]

\* What the properties ask of the names.  No slash is repeated but at the end.
PlainNames   == \A p \in Callers : \A i \in 1..(Len(p) - 1), j \in 1..Len(p) :
                  p[i] = Slash /\ p[i + 1] = Slash /\ i < j => p[j] = Slash
\* The digest covers every path.
DigestCovers == \A n \in Names : Len(n) <= HashLen
\* The lock of a user names storages, with a slash at the end.
UserStorages == \A p \in UserSet : \E d \in Storages : p = d \o <<Slash>>
\* No storage lies in another one.
Apart        == \A s, t \in Storages : ~IsPrefix(s \o <<Slash>>, t)

Exists(d) == d \in dirs \/ (d \in DOMAIN cipher /\ cipher[d] # 0)

\* sanitize_storage_path: what it makes of a path, or a refusal.
Refused == <<>>
Sanitize(p) ==
  IF p = <<>> \/ p[1] # Slash \/ Strip[p] = <<>> \/ ~Exists(Of[Strip[p]].dir) THEN Refused
  ELSE Strip[p]

\* get_mount_options looks at both columns.
Lines(p) == {l \in mounts : l.dev = p \/ l.at = p}

\* pathMatchesMountPoint.
\* Mutant: any path that begins alike.
MatchesMountPoint_Prefix(f, p) == Len(p) > 1 /\ IsPrefix(p, f)
\* Mutant: the directory itself is not below the path.
MatchesMountPoint_Below(f, p) ==
  /\ Len(p) > 1 /\ IsPrefix(p, f) /\ Len(f) > Len(p)
  /\ p[Len(p)] = Slash \/ f[Len(p) + 1] = Slash
MatchesMountPoint(f, p) ==
  /\ Len(p) > 1 /\ IsPrefix(p, f)
  /\ p[Len(p)] = Slash \/ Len(f) = Len(p) \/ f[Len(p) + 1] = Slash

-----------------------------------------------------------------------------
(* The calls of efs.c, each as a whole.                                      *)

Idle   == [todo |-> <<>>, path |-> <<>>, step |-> "idle", tries |-> 0]
NoFile == [file |-> <<>>, in |-> <<>>, through |-> FALSE]
Quiet  == lock = Idle
Returns(op, d, code) == last' = [op |-> op, dir |-> d, code |-> code]
\* Of the other calls no property needs the code.
Returned(d) == Returns("other", d, "any")

HidingPlaces == {Of[s].private : s \in Storages}
KeyNames     == {Of[n].key : n \in Names}

Init ==
  /\ dirs = Storages \cup {LostFound}
  /\ cipher = [d \in HidingPlaces |-> 0] /\ keyFile = [n \in KeyNames |-> 0]
  /\ mounts = {} /\ made = 0
  /\ held = [q \in Programs |-> NoFile] /\ killed = {}
  /\ lock = Idle /\ opens = 0 /\ last = [op |-> "none", dir |-> <<>>, code |-> "ok"]

\* Every call begins with sanitize_storage_path; s is what that has made of the
\* caller's path.
RefusedCall ==
  /\ Returned(<<>>)
  /\ UNCHANGED <<dirs, cipher, keyFile, mounts, made>>

EFS_create(s) ==
  /\ IF Exists(Of[s].private) THEN UNCHANGED <<cipher, keyFile, made>>
     ELSE /\ made < MaxKeys /\ made' = made + 1
          /\ cipher' = [cipher EXCEPT ![Of[s].private] = made']
          /\ keyFile' = [keyFile EXCEPT ![Of[s].key] = made']
  /\ Returned(Of[s].dir) /\ UNCHANGED <<dirs, mounts>>

\* With the right password.
EFS_unlock(s) ==
  /\ mounts' = mounts \cup
       IF keyFile[Of[s].key] = 0 \/ Lines(Of[s].hides) # {} THEN {}
       ELSE {[dev |-> Of[s].hides, at |-> Of[s].dir, key |-> keyFile[Of[s].key]]}
  /\ Returned(Of[s].dir) /\ UNCHANGED <<dirs, cipher, keyFile, made>>

\* umount_ecryptfs of the path s: nothing to do, busy, or done.
Busy(d) == \E q \in Programs : held[q].in = d /\ held[q].through
Unmounts(s) ==
  IF Lines(s) = {} THEN "nothing" ELSE IF Busy(Of[s].dir) THEN "busy" ELSE "done"
Unmount(s) == mounts' = IF Unmounts(s) = "done" THEN {l \in mounts : l.at # Of[s].dir} ELSE mounts

EFS_lock(s) ==
  /\ Unmount(s) /\ Returns("lock", Of[s].dir, IF Unmounts(s) = "busy" THEN "err" ELSE "ok")
  /\ UNCHANGED <<dirs, cipher, keyFile, made>>

\* The directory EFS_remove takes for the private one, and the key file of s go.
\* The "private" directory of a storage in "/" is the storage.
Discard(s) ==
  /\ cipher' = [cipher EXCEPT ![Of[s].private] = 0]
  /\ dirs' = dirs \ {Of[s].private}
  /\ keyFile' = [keyFile EXCEPT ![Of[s].key] = 0]

\* Of a storage that is mounted EFS_remove removes nothing.
Destroyable(s) == Exists(Of[s].private) /\ Lines(Of[s].hides) = {}
EFS_remove(s) ==
  /\ IF Destroyable(s) THEN Discard(s) ELSE UNCHANGED <<dirs, cipher, keyFile>>
  /\ Returned(Of[s].dir) /\ UNCHANGED <<mounts, made>>

\* A copy that fails leaves the recovery directory, on which the next one fails.
Recoverable(s) == Destroyable(s) /\ ~Exists(Of[s].recovery) /\ keyFile[Of[s].key] # 0
EFS_recover_data_and_remove(s) ==
  /\ \/ ~Recoverable(s) /\ UNCHANGED <<dirs, cipher, keyFile>>
     \/ Recoverable(s) /\ Discard(s)
     \/ Recoverable(s) /\ dirs' = dirs \cup {Of[s].recovery} /\ UNCHANGED <<cipher, keyFile>>
  /\ Returned(Of[s].dir) /\ UNCHANGED <<mounts, made>>

Call(p) ==
  LET s == Sanitize(p) IN
  /\ Quiet /\ opens' = 0 /\ UNCHANGED <<held, killed, lock>>
  /\ IF s = Refused THEN RefusedCall
     ELSE \/ EFS_create(s) \/ EFS_unlock(s) \/ EFS_lock(s)
          \/ EFS_remove(s) \/ EFS_recover_data_and_remove(s)

-----------------------------------------------------------------------------
(* android_lock_user_data.                                                   *)

LockUser ==
  /\ Quiet
  /\ lock' = [todo |-> UserPaths, path |-> UserPaths[1], step |-> "kill", tries |-> 0]
  /\ opens' = 0
  /\ UNCHANGED <<dirs, cipher, keyFile, mounts, made, held, killed, last>>

\* killProcessesWithOpenFiles: whoever has a file, a map, its directory, root or
\* executable below the path.
Kill ==
  LET hit == {q \in Programs : held[q] # NoFile /\ MatchesMountPoint(held[q].file, lock.path)} IN
  /\ lock.step = "kill"
  /\ held' = [q \in Programs |-> IF q \in hit THEN NoFile ELSE held[q]]
  /\ killed' = killed \cup hit
  /\ lock' = [lock EXCEPT !.step = "umount"]
  /\ UNCHANGED <<dirs, cipher, keyFile, mounts, made, opens, last>>

\* EFS_lock strips the path where it lies, so the next search for holders is for
\* the stripped one.  The directories of a user are there.
LockNext == IF Len(lock.todo) = 1 THEN Idle
            ELSE [todo |-> Tail(lock.todo), path |-> lock.todo[2], step |-> "kill", tries |-> 0]
LockTry ==
  LET s == Sanitize(lock.path) IN
  /\ lock.step = "umount" /\ s # Refused /\ Unmount(s)
  /\ IF Unmounts(s) # "busy"
     THEN /\ lock' = LockNext
          /\ IF lock' = Idle THEN Returns("lock_user", Of[s].dir, "ok") ELSE UNCHANGED last
     ELSE IF lock.tries + 1 < Attempts
     THEN lock' = [lock EXCEPT !.path = s, !.step = "kill", !.tries = @ + 1] /\ UNCHANGED last
     ELSE lock' = Idle /\ Returns("lock_user", Of[s].dir, "err")
  /\ UNCHANGED <<dirs, cipher, keyFile, made, held, killed, opens>>

-----------------------------------------------------------------------------
(* The programs.                                                             *)

\* A file in a storage, or the directory itself: the first or the next file of a
\* program, which a killed one opens once it has been started again.
Open(q) ==
  /\ held[q] = NoFile /\ (Quiet \/ opens < MaxOpens)
  /\ opens' = IF Quiet THEN opens ELSE opens + 1
  /\ \E s \in Used, f \in {<<>>, <<Slash, "f">>} :
       held' = [held EXCEPT ![q] = [file |-> s \o f, in |-> s,
                                    through |-> \E l \in mounts : l.at = s]]
  /\ killed' = killed \ {q}
  /\ UNCHANGED <<dirs, cipher, keyFile, mounts, made, lock, last>>
Close(q) ==
  /\ held[q] # NoFile /\ held' = [held EXCEPT ![q] = NoFile]
  /\ UNCHANGED <<dirs, cipher, keyFile, mounts, made, killed, lock, opens, last>>

Next == \/ \E p \in Spellings : Call(p)
        \/ LockUser \/ Kill \/ LockTry
        \/ \E q \in Programs : Open(q) \/ Close(q)

Spec == Init /\ [][Next]_vars

-----------------------------------------------------------------------------
(* Properties.                                                               *)

\* What there is of a storage.
Opens(s) == LET k == cipher[Of[s].private] IN
  k # 0 /\ keyFile[Of[s].key] = k
View(s) == [hidden |-> cipher[Of[s].private] # 0, opens |-> Opens(s), open |-> {l \in mounts : l.at = s}]

\* The storage that is being worked on.
Target == IF lock # Idle THEN Of[Strip[lock.path]].dir ELSE last'.dir

\* A call on one storage leaves the ciphertext, the key and the mount of every
\* other one alone: the paths derived from two names never meet, though one is
\* the beginning of the other or both end alike.
NoInterference ==
  [][\A s \in Storages : s # Target => View(s)' = View(s)]_vars

\* A lock that returns 0 leaves nothing mounted where the caller's path leads, by
\* whatever spelling of it the storage was unlocked.
LockCloses ==
  last.op = "lock" /\ last.code = "ok" => \A l \in mounts : l.at # last.dir

\* The lock of a user kills only programs that have a file in a storage of that
\* user, not those of a user whose number begins with the same digits.
KillsOnlyHolders ==
  [][\A q \in killed' \ killed : held[q].in = Of[Strip[lock.path]].dir]_vars

\* The lock of a user gives up only when programs went on opening files: whoever
\* had one when it began is found by one of the searches, also by its directory.
GivesUpOnlyWhenOutrun ==
  last.op = "lock_user" /\ last.code = "err" /\ lock = Idle => opens > 0

=============================================================================
