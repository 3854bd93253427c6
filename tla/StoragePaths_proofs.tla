-------------------------- MODULE StoragePaths_proofs --------------------------
(* For every set of storages, callers, users and programs, every bound and   *)
(* every path: what the lock of a storage and of a user do, and that the     *)
(* paths derived from two names never meet.                                  *)
EXTENDS StoragePaths, SequenceFacts

-----------------------------------------------------------------------------
(* Paths.                                                                    *)

\* The provers do not know that a literal is a STRING.
Piece == STRING \cup {Slash, ".", "f"}
Path == Seq(Piece)

LEMMA PlainItems ==
  ASSUME NEW p \in Path, Plainly(p)
  PROVE  /\ Len(p) \in Nat /\ Len(p) > 1 /\ p # <<>> /\ p[1] = Slash /\ p[Len(p)] # Slash
         /\ 1 \in 1..Len(p) /\ Len(p) \in 1..Len(p) /\ \A i \in 1..Len(p) : p[i] \in Piece
         /\ \A i \in 1..Len(p) : p[i] = Slash => i + 1 \in 1..Len(p) /\ p[i + 1] # Slash
<1>1. Len(p) \in Nat /\ p # <<>> /\ p[1] = Slash /\ p[Len(p)] # Slash
      /\ \A i \in 1..(Len(p) - 1) : p[i] = Slash => p[i + 1] # Slash
  BY DEF Plainly, Path
<1>2. Len(p) > 0 /\ \A i \in 1..Len(p) : p[i] \in Piece
  BY <1>1 DEF Path
<1>3. Len(p) > 1
  BY <1>1, <1>2
<1>4. ASSUME NEW i \in 1..Len(p), p[i] = Slash
      PROVE  i + 1 \in 1..Len(p) /\ p[i + 1] # Slash
  <2>1. i # Len(p)
    BY <1>1, <1>4
  <2>2. i \in 1..(Len(p) - 1) /\ i + 1 \in 1..Len(p)
    BY <1>1, <2>1
  <2> QED BY <1>1, <1>4, <2>2
<1> QED BY <1>1, <1>2, <1>3, <1>4

LEMMA Beginning ==
  ASSUME NEW p \in Path, NEW n \in 0..Len(p)
  PROVE  /\ SubSeq(p, 1, n) \in Path /\ Len(SubSeq(p, 1, n)) = n
         /\ \A i \in 1..n : SubSeq(p, 1, n)[i] = p[i]
<1>1. n \in Int /\ 1 \in Int /\ Len(p) \in Nat /\ n \in Nat /\ \A i \in 1..n : p[i] \in Piece
  BY DEF Path
<1>2. /\ SubSeq(p, 1, n) \in Path
      /\ Len(SubSeq(p, 1, n)) = IF 1 <= n THEN n - 1 + 1 ELSE 0
      /\ \A i \in 1..(n - 1 + 1) : SubSeq(p, 1, n)[i] = p[1 + i - 1]
  BY <1>1, SubSeqProperties DEF Path
<1>3. n - 1 + 1 = n /\ (1 <= n \/ n = 0) /\ \A i \in 1..n : 1 + i - 1 = i
  BY <1>1
<1>4. Len(SubSeq(p, 1, n)) = n
  BY <1>1, <1>2, <1>3
<1> QED BY <1>2, <1>3, <1>4

LEMMA SamePath ==
  ASSUME NEW p \in Path, NEW q \in Path, Len(p) = Len(q), \A i \in 1..Len(p) : p[i] = q[i]
  PROVE  p = q
BY SeqEqual DEF Path

LEMMA JoinedPath ==
  ASSUME NEW p \in Path, NEW q \in Path
  PROVE  /\ p \o q \in Path /\ Len(p \o q) = Len(p) + Len(q)
         /\ \A i \in 1..Len(p) : (p \o q)[i] = p[i]
         /\ \A i \in 1..Len(q) : (p \o q)[Len(p) + i] = q[i]
<1>1. p \o q \in Path /\ Len(p \o q) = Len(p) + Len(q) /\ Len(p) \in Nat /\ Len(q) \in Nat
  BY DEF Path
<1>2. \A i \in 1..(Len(p) + Len(q)) :
        (p \o q)[i] = IF i <= Len(p) THEN p[i] ELSE q[i - Len(p)]
  BY DEF Path
<1>3. ASSUME NEW i \in 1..Len(p) PROVE (p \o q)[i] = p[i]
  BY <1>1, <1>2
<1>4. ASSUME NEW i \in 1..Len(q) PROVE (p \o q)[Len(p) + i] = q[i]
  <2>1. Len(p) + i \in 1..(Len(p) + Len(q)) /\ ~(Len(p) + i <= Len(p)) /\ (Len(p) + i) - Len(p) = i
    BY <1>1
  <2> QED BY <1>2, <2>1
<1> QED BY <1>1, <1>3, <1>4

\* A plain path with or without a slash at its end is stripped to itself ...
LEMMA StrippedTo ==
  ASSUME NEW d \in Path, Plainly(d), NEW p \in Path, Len(p) >= Len(d),
         \A i \in 1..Len(d) : p[i] = d[i], \A i \in (Len(d) + 1)..Len(p) : p[i] = Slash
  PROVE  Stripped(p) = d
<1> DEFINE n == Len(d)
<1> DEFINE LastPiece(k) == p[k] # Slash /\ \A i \in (k + 1)..Len(p) : p[i] = Slash
<1>1. n \in Nat /\ n \in 1..Len(p) /\ p[n] # Slash /\ Len(p) \in Nat
  BY PlainItems DEF Path
<1>2. LastPiece(n)
  BY <1>1
<1>3. ASSUME NEW k \in 1..Len(p), LastPiece(k) PROVE k = n
  <2>1. CASE k < n
    <3>1. n \in (k + 1)..Len(p)
      BY <1>1, <2>1
    <3> QED BY <1>1, <1>3, <3>1
  <2>2. CASE k > n
    <3>1. k \in (n + 1)..Len(p)
      BY <1>1, <2>2
    <3> QED BY <1>2, <1>3, <3>1
  <2> QED BY <1>1, <2>1, <2>2
<1>4. (CHOOSE k \in 1..Len(p) : LastPiece(k)) = n
  BY <1>1, <1>2, <1>3
<1>5. Stripped(p) = SubSeq(p, 1, n)
  BY <1>1, <1>4 DEF Stripped
<1>6. n \in 0..Len(p)
  BY <1>1
<1>7. SubSeq(p, 1, n) = d
  <2> DEFINE q == SubSeq(p, 1, n)
  <2>1. q \in Path /\ Len(q) = Len(d) /\ \A i \in 1..Len(d) : q[i] = p[i]
    BY <1>6, Beginning
  <2> HIDE DEF q
  <2>2. q = d
    BY <2>1, SamePath
  <2> QED BY <2>2 DEF q
<1> QED BY <1>5, <1>7

LEMMA StrippedPlain ==
  ASSUME NEW d \in Path, Plainly(d)
  PROVE  Stripped(d) = d
<1>1. Len(d) \in Nat /\ (Len(d) + 1)..Len(d) = {}
  BY DEF Path
<1> QED BY <1>1, StrippedTo

LEMMA StrippedSlash ==
  ASSUME NEW d \in Path, Plainly(d)
  PROVE  d \o <<Slash>> \in Path /\ Stripped(d \o <<Slash>>) = d
<1> DEFINE p == d \o <<Slash>>
<1>1. <<Slash>> \in Path /\ Len(<<Slash>>) = 1 /\ <<Slash>>[1] = Slash
  <2>1. Slash \in Piece
    BY DEF Piece
  <2> QED BY <2>1 DEF Path
<1>2. p \in Path /\ Len(p) = Len(d) + 1 /\ Len(d) \in Nat
      /\ (\A i \in 1..Len(d) : p[i] = d[i]) /\ p[Len(d) + 1] = Slash
  <2>1. 1 \in 1..1 /\ Len(d) \in Nat
    BY DEF Path
  <2> HIDE DEF p
  <2> QED BY <1>1, <2>1, JoinedPath DEF p
<1>3. Len(p) >= Len(d) /\ \A i \in (Len(d) + 1)..Len(p) : p[i] = Slash
  BY <1>2
<1> QED BY <1>2, <1>3, StrippedTo

LEMMA StrippedPath ==
  ASSUME NEW p \in Path
  PROVE  /\ Stripped(p) \in Path
         /\ Stripped(p) # <<>> =>
              \E k \in 1..Len(p) : p[k] # Slash /\ Stripped(p) = SubSeq(p, 1, k)
<1> DEFINE Pieces == {i \in 1..Len(p) : p[i] # Slash}
<1> DEFINE LastPiece(k) == p[k] # Slash /\ \A i \in (k + 1)..Len(p) : p[i] = Slash
<1>1. CASE \A i \in 1..Len(p) : p[i] = Slash
  BY <1>1 DEF Stripped, Path
<1>2. CASE ~\A i \in 1..Len(p) : p[i] = Slash
  <2>1. Len(p) \in Nat /\ Pieces \in SUBSET (1..Len(p)) /\ Pieces # {}
    BY <1>2 DEF Path
  <2>2. PICK n \in Pieces : \A m \in Pieces : m <= n
    <3> HIDE DEF Pieces
    <3> QED BY <2>1, MaxExists
  <2>3. n \in 1..Len(p) /\ LastPiece(n)
    BY <2>1, <2>2
  <2> DEFINE k == CHOOSE k \in 1..Len(p) : LastPiece(k)
  <2>4. k \in 1..Len(p) /\ p[k] # Slash /\ Stripped(p) = SubSeq(p, 1, k)
    BY <1>2, <2>3 DEF Stripped
  <2> HIDE DEF k
  <2>5. k \in 0..Len(p)
    BY <2>1, <2>4
  <2> QED BY <2>4, <2>5, Beginning
<1> QED BY <1>1, <1>2

\* ... and leads to itself.
LEMMA ResolvePlain ==
  ASSUME NEW d \in Path, Plainly(d)
  PROVE  Resolve(d) = d
<1>1. d # <<>> /\ d[1] = Slash
  BY PlainItems
<1>2. d[1] # "."
  BY <1>1 DEF Slash
<1> QED BY <1>2 DEF Resolve

-----------------------------------------------------------------------------
(* Names.                                                                    *)

LEMMA CallersPath == Callers \subseteq Path /\ Storages \subseteq Callers /\ Spellings \subseteq Callers
                     /\ UserSet \subseteq Callers
<1>1. Callers \subseteq Seq(STRING)
  BY CallersAssumption
<1>2. ASSUME NEW p \in Seq(STRING) PROVE p \in Path
  <2>1. p \in [1..Len(p) -> STRING] /\ Len(p) \in Nat
    OBVIOUS
  <2>2. p \in [1..Len(p) -> Piece]
    BY <2>1 DEF Piece
  <2> QED BY <2>1, <2>2, IsASeq DEF Path
<1> QED BY <1>1, <1>2 DEF Callers

\* A storage is its own name, and the directory that name leads to.
LEMMA StorageNames ==
  ASSUME NEW s \in Storages
  PROVE  /\ s \in Path /\ Plainly(s) /\ s # <<>> /\ s \in Callers /\ Strip[s] = s
         /\ s \in Names /\ Of[s].dir = s
<1>1. s \in Path /\ Plainly(s) /\ s \in Callers
  BY CallersPath, PathsAssumption
<1>2. s # <<>> /\ Stripped(s) = s /\ Resolve(s) = s
  BY <1>1, PlainItems, StrippedPlain, ResolvePlain
<1>3. Strip[s] = s /\ s \in Names
  BY <1>1, <1>2 DEF Strip, Names
<1> QED BY <1>1, <1>2, <1>3 DEF Of

LEMMA UserNames ==
  ASSUME UserStorages, NEW p \in UserSet
  PROVE  /\ p \in Path /\ p \in Callers /\ Strip[p] \in Storages
         /\ p = Strip[p] \o <<Slash>>
<1>1. p \in Path /\ p \in Callers
  BY CallersPath
<1>2. PICK d \in Storages : p = d \o <<Slash>>
  BY DEF UserStorages
<1>3. Stripped(p) = d
  BY <1>2, StorageNames, StrippedSlash
<1> QED BY <1>1, <1>2, <1>3 DEF Strip

\* What sanitize_storage_path returns is a name.
LEMMA SanitizeNames ==
  ASSUME NEW p \in Callers, Sanitize(p) # Refused
  PROVE  /\ Sanitize(p) = Strip[p] /\ Sanitize(p) \in Names
         /\ Sanitize(p) \in Path /\ Sanitize(p) # <<>>
         /\ PlainNames => Plainly(Sanitize(p))
<1>1. Sanitize(p) = Strip[p] /\ Strip[p] # <<>> /\ p # <<>> /\ p[1] = Slash
  BY DEF Sanitize
<1>2. Strip[p] = Stripped(p) /\ Strip[p] \in Path
  BY CallersPath, StrippedPath DEF Strip
<1>3. ASSUME PlainNames PROVE Plainly(Stripped(p))
  <2>1. p \in Path /\ Len(p) \in Nat
    BY CallersPath DEF Path
  <2>2. PICK k \in 1..Len(p) : p[k] # Slash /\ Stripped(p) = SubSeq(p, 1, k)
    BY <1>1, <1>2, <2>1, StrippedPath
  <2> DEFINE s == SubSeq(p, 1, k)
  <2>3. s \in Path /\ Len(s) = k /\ \A i \in 1..k : s[i] = p[i]
    <3>1. k \in 0..Len(p)
      BY <2>1
    <3> HIDE DEF s
    <3> QED BY <2>1, <3>1, Beginning DEF s
  <2> HIDE DEF s
  <2>4. 1 \in 1..k /\ k \in 1..k /\ k \in Nat
    BY <2>1
  <2>5. s # <<>> /\ s[1] = Slash /\ s[Len(s)] # Slash
    BY <1>1, <2>2, <2>3, <2>4
  <2>6. ASSUME NEW i \in 1..(Len(s) - 1), s[i] = Slash PROVE s[i + 1] # Slash
    <3>1. i \in 1..k /\ i + 1 \in 1..k /\ i \in 1..(Len(p) - 1) /\ i < k
      BY <2>1, <2>3, <2>4
    <3> QED BY <1>3, <2>2, <2>3, <2>6, <3>1 DEF PlainNames
  <2> QED BY <2>2, <2>5, <2>6 DEF Plainly, s
<1> QED BY <1>1, <1>2, <1>3 DEF Names

-----------------------------------------------------------------------------
(* What the programs hold, and how far the lock of a user has come.         *)

File == <<Slash, "f">>

\* A program has the directory of a storage open or the file in it.
HeldInv ==
  /\ DOMAIN held = Programs
  /\ \A q \in Programs :
       \/ held[q] = NoFile
       \/ held[q].in \in Used /\ held[q].file \in {held[q].in, held[q].in \o File}

LockStates == [todo : Seq(UserSet), path : UserSet \cup Storages \cup {<<>>},
               step : {"idle", "kill", "umount"}, tries : Nat]

\* From the second search on the path is the stripped one.
LockInv ==
  /\ lock \in LockStates
  /\ \/ lock = Idle
     \/ /\ lock.step # "idle" /\ lock.todo # <<>> /\ lock.path \in UserSet \cup Storages
        /\ lock.tries > 0 => lock.path \in Storages

LEMMA HeldInit == Init => HeldInv
BY DEF Init, HeldInv

LEMMA HeldStep == HeldInv /\ [Next]_vars => HeldInv'
<1> SUFFICES ASSUME HeldInv, [Next]_vars PROVE HeldInv'
  OBVIOUS
<1>1. ASSUME NEW p \in Spellings, Call(p) PROVE HeldInv'
  BY <1>1 DEF HeldInv, Call
<1>2. CASE LockUser
  BY <1>2 DEF HeldInv, LockUser
<1>3. CASE Kill
  BY <1>3 DEF HeldInv, Kill
<1>4. CASE LockTry
  BY <1>4 DEF HeldInv, LockTry
<1>5. ASSUME NEW q \in Programs, Open(q) PROVE HeldInv'
  <2>1. PICK s \in Used, f \in {<<>>, File} :
          held' = [held EXCEPT ![q] = [file |-> s \o f, in |-> s,
                                       through |-> \E l \in mounts : l.at = s]]
    BY <1>5 DEF Open, File
  <2>2. s \o <<>> = s
    BY StorageNames, PathsAssumption, ConcatEmptySeq DEF Path
  <2>3. s \o f \in {s, s \o File}
    BY <2>2
  <2>4. held'[q].in = s /\ held'[q].file = s \o f
    BY <2>1 DEF HeldInv
  <2>5. DOMAIN held' = Programs /\ \A r \in Programs : r # q => held'[r] = held[r]
    BY <2>1 DEF HeldInv
  <2> QED BY <2>3, <2>4, <2>5 DEF HeldInv
<1>6. ASSUME NEW q \in Programs, Close(q) PROVE HeldInv'
  BY <1>6 DEF HeldInv, Close
<1>7. CASE UNCHANGED vars
  BY <1>7 DEF HeldInv, vars
<1> QED BY <1>1, <1>2, <1>3, <1>4, <1>5, <1>6, <1>7 DEF Next

LEMMA LockInit == Init => LockInv
BY DEF Init, LockInv, LockStates, Idle

LEMMA UserTodo ==
  /\ UserPaths \in Seq(UserSet) /\ UserPaths # <<>> /\ UserPaths[1] \in UserSet
  /\ \A t \in Seq(UserSet) : t # <<>> /\ Len(t) # 1 =>
       Tail(t) \in Seq(UserSet) /\ Tail(t) # <<>> /\ t[2] \in UserSet
<1>1. UserPaths \in Seq(UserSet) /\ UserPaths # <<>>
  BY CallersAssumption
<1>2. ASSUME NEW t \in Seq(UserSet), t # <<>>
      PROVE  /\ t[1] \in UserSet
             /\ Len(t) # 1 => Tail(t) \in Seq(UserSet) /\ Tail(t) # <<>> /\ t[2] \in UserSet
  <2>1. Len(t) \in Nat /\ Len(t) > 0 /\ \A i \in 1..Len(t) : t[i] \in UserSet
    BY <1>2
  <2> DEFINE u == Tail(t)
  <2>2. u \in Seq(UserSet) /\ Len(u) = Len(t) - 1
    BY <1>2, HeadTailProperties
  <2> HIDE DEF u
  <2>3. Len(t) # 1 => u \in Seq(UserSet) /\ u # <<>> /\ t[2] \in UserSet
    BY <2>1, <2>2
  <2> QED BY <2>1, <2>3 DEF u
<1> QED BY <1>1, <1>2

LEMMA BeginsSearch ==
  ASSUME NEW t \in Seq(UserSet), t # <<>>, NEW p \in UserSet,
         lock' = [todo |-> t, path |-> p, step |-> "kill", tries |-> 0]
  PROVE  LockInv'
<1>1. lock' \in LockStates
  BY DEF LockStates
<1>2. lock'.todo = t /\ lock'.path = p /\ lock'.step = "kill" /\ lock'.tries = 0
  OBVIOUS
<1>3. lock'.step # "idle" /\ lock'.todo # <<>> /\ lock'.path \in UserSet \cup Storages /\ ~(lock'.tries > 0)
  BY <1>2
<1> QED BY <1>1, <1>3 DEF LockInv

LEMMA LockStep ==
  ASSUME UserStorages, LockInv, [Next]_vars
  PROVE  LockInv'
<1>1. ASSUME NEW p \in Spellings, Call(p) PROVE LockInv'
  BY <1>1 DEF LockInv, Call
<1>2. CASE LockUser
  <2>1. lock' = [todo |-> UserPaths, path |-> UserPaths[1], step |-> "kill", tries |-> 0]
    BY <1>2 DEF LockUser
  <2> QED BY <2>1, UserTodo, BeginsSearch
<1>3. CASE Kill
  <2>1. lock.step = "kill" /\ lock' = [lock EXCEPT !.step = "umount"]
    BY <1>3 DEF Kill
  <2> QED BY <2>1 DEF LockInv, LockStates, Idle
<1>4. CASE LockTry
  <2> DEFINE s == Sanitize(lock.path)
  <2>1. lock.step = "umount" /\ lock # Idle /\ s # Refused
    BY <1>4 DEF LockTry, Idle
  <2>2. lock \in LockStates /\ lock.todo # <<>> /\ lock.path \in UserSet \cup Storages
    BY <2>1 DEF LockInv
  <2>3. s \in Storages
    <3>1. lock.path \in Callers
      BY <2>2, CallersPath
    <3>2. s = Strip[lock.path]
      BY <2>1, <3>1, SanitizeNames
    <3> QED BY <2>2, <3>2, StorageNames, UserNames
  <2>4. CASE lock' = LockNext
    <3>1. CASE Len(lock.todo) = 1
      BY <2>4, <3>1 DEF LockNext, LockInv, LockStates, Idle
    <3>2. CASE Len(lock.todo) # 1
      <4>1. lock' = [todo |-> Tail(lock.todo), path |-> lock.todo[2], step |-> "kill", tries |-> 0]
        BY <2>4, <3>2 DEF LockNext
      <4>2. Tail(lock.todo) \in Seq(UserSet) /\ Tail(lock.todo) # <<>> /\ lock.todo[2] \in UserSet
        BY <2>2, <3>2, UserTodo DEF LockStates
      <4> HIDE DEF s
      <4>3. Tail(lock.todo) \in Seq(UserSet)
        BY <4>2
      <4> QED BY <4>1, <4>2, <4>3, BeginsSearch
    <3> QED BY <3>1, <3>2
  <2>5. CASE lock' = [lock EXCEPT !.path = s, !.step = "kill", !.tries = @ + 1]
    <3> HIDE DEF s
    <3>1. lock = [todo |-> lock.todo, path |-> lock.path, step |-> lock.step, tries |-> lock.tries]
          /\ lock.todo \in Seq(UserSet) /\ lock.tries \in Nat
      BY <2>2 DEF LockStates
    <3>2. lock' = [todo |-> lock.todo, path |-> s, step |-> "kill", tries |-> lock.tries + 1]
      BY <2>5, <3>1
    <3>3. lock' \in LockStates
      BY <2>3, <3>1, <3>2 DEF LockStates
    <3>4. lock'.todo = lock.todo /\ lock'.path = s /\ lock'.step = "kill"
      BY <3>2
    <3> QED BY <2>2, <2>3, <3>3, <3>4 DEF LockInv
  <2>6. CASE lock' = Idle
    BY <2>6 DEF LockInv, LockStates, Idle
  <2> QED BY <1>4, <2>4, <2>5, <2>6 DEF LockTry
<1>5. ASSUME NEW q \in Programs, Open(q) \/ Close(q) PROVE LockInv'
  BY <1>5 DEF LockInv, Open, Close
<1>6. CASE UNCHANGED vars
  BY <1>6 DEF LockInv, vars
<1> QED BY <1>1, <1>2, <1>3, <1>4, <1>5, <1>6 DEF Next

-----------------------------------------------------------------------------
(* Which files the search finds.                                             *)

LEMMA PrefixItems ==
  ASSUME NEW p \in Path, NEW f \in Path
  PROVE  IsPrefix(p, f) <=> Len(p) <= Len(f) /\ \A i \in 1..Len(p) : f[i] = p[i]
<1>1. Len(p) \in Nat /\ Len(f) \in Nat /\ Len(p) \in 0..Len(p)
  BY DEF Path
<1> DEFINE g == SubSeq(p, 1, Len(p))
<1> DEFINE h == SubSeq(f, 1, Len(p))
<1>2. g \in Path /\ Len(g) = Len(p) /\ \A i \in 1..Len(p) : g[i] = p[i]
  BY <1>1, Beginning
<1>3. CASE Len(p) <= Len(f)
  <2>1. Len(p) \in 0..Len(f)
    BY <1>1, <1>3
  <2>2. h \in Path /\ Len(h) = Len(p) /\ \A i \in 1..Len(p) : h[i] = f[i]
    BY <2>1, Beginning
  <2>3. IsPrefix(p, f) <=> g = h
    BY <1>3 DEF IsPrefix
  <2> HIDE DEF g, h
  <2>4. g = h <=> \A i \in 1..Len(p) : f[i] = p[i]
    BY <1>2, <2>2, SamePath
  <2> QED BY <1>3, <2>3, <2>4
<1>4. CASE ~(Len(p) <= Len(f))
  BY <1>4 DEF IsPrefix
<1> QED BY <1>3, <1>4

LEMMA FileItems ==
  ASSUME NEW s \in Path
  PROVE  /\ s \o File \in Path /\ Len(s \o File) = Len(s) + 2 /\ Len(s) \in Nat
         /\ \A i \in 1..Len(s) : (s \o File)[i] = s[i]
         /\ (s \o File)[Len(s) + 1] = Slash
<1>1. File \in Path /\ Len(File) = 2 /\ File[1] = Slash
  <2>1. Slash \in Piece /\ "f" \in Piece
    BY DEF Piece
  <2> QED BY <2>1 DEF Path, File
<1>2. 1 \in 1..2 /\ Len(s) \in Nat
  BY DEF Path
<1> HIDE DEF File
<1>3. 1 \in 1..Len(File)
  BY <1>1
<1>4. /\ s \o File \in Path /\ Len(s \o File) = Len(s) + Len(File)
      /\ \A i \in 1..Len(s) : (s \o File)[i] = s[i]
      /\ \A i \in 1..Len(File) : (s \o File)[Len(s) + i] = File[i]
  BY <1>1, JoinedPath
<1> QED BY <1>1, <1>2, <1>3, <1>4

LEMMA SlashItems ==
  ASSUME NEW s \in Path
  PROVE  /\ s \o <<Slash>> \in Path /\ Len(s \o <<Slash>>) = Len(s) + 1 /\ Len(s) \in Nat
         /\ \A i \in 1..Len(s) : (s \o <<Slash>>)[i] = s[i]
         /\ (s \o <<Slash>>)[Len(s) + 1] = Slash
<1> DEFINE e == <<Slash>>
<1>1. e \in Path /\ Len(e) = 1 /\ e[1] = Slash
  <2>1. Slash \in Piece
    BY DEF Piece
  <2> QED BY <2>1 DEF Path
<1>2. 1 \in 1..1 /\ Len(s) \in Nat
  BY DEF Path
<1> HIDE DEF e
<1>3. 1 \in 1..Len(e)
  BY <1>1
<1>4. /\ s \o e \in Path /\ Len(s \o e) = Len(s) + Len(e)
      /\ \A i \in 1..Len(s) : (s \o e)[i] = s[i]
      /\ \A i \in 1..Len(e) : (s \o e)[Len(s) + i] = e[i]
  BY <1>1, JoinedPath
<1>5. Len(s \o e) = Len(s) + 1 /\ (s \o e)[Len(s) + 1] = Slash
  BY <1>1, <1>3, <1>4
<1> QED BY <1>2, <1>4, <1>5 DEF e

\* The search for the stripped path finds whoever has the directory or the file open.
LEMMA FindsHolders ==
  ASSUME NEW d \in Storages, NEW f \in {d, d \o File}
  PROVE  MatchesMountPoint(f, d)
<1>1. d \in Path /\ Len(d) > 1 /\ Len(d) \in Nat
  BY StorageNames, PlainItems
<1>2. f \in Path /\ Len(d) <= Len(f) /\ (\A i \in 1..Len(d) : f[i] = d[i])
      /\ (Len(f) = Len(d) \/ f[Len(d) + 1] = Slash)
  <2>1. CASE f = d
    BY <1>1, <2>1
  <2>2. CASE f = d \o File
    <3>1. /\ f \in Path /\ Len(f) = Len(d) + 2 /\ f[Len(d) + 1] = Slash
          /\ \A i \in 1..Len(d) : f[i] = d[i]
      BY <1>1, <2>2, FileItems
    <3> QED BY <1>1, <3>1
  <2> QED BY <2>1, <2>2
<1>3. IsPrefix(d, f)
  BY <1>1, <1>2, PrefixItems
<1> QED BY <1>1, <1>2, <1>3 DEF MatchesMountPoint

\* Whoever the search finds has a file in the storage itself.
LEMMA FindsOnlyHolders ==
  ASSUME Apart, NEW d \in Storages, NEW p \in {d, d \o <<Slash>>},
         NEW s \in Storages, NEW f \in {s, s \o File}, MatchesMountPoint(f, p)
  PROVE  s = d
<1>1. d \in Path /\ Len(d) \in Nat /\ Len(d) \in 1..Len(d) /\ d[Len(d)] # Slash
      /\ s \in Path /\ Len(s) \in Nat
  BY StorageNames, PlainItems
<1>2. f \in Path /\ p \in Path /\ Len(f) \in Nat
  BY <1>1, FileItems, SlashItems DEF Path
<1>3. Len(p) <= Len(f) /\ \A i \in 1..Len(p) : f[i] = p[i]
  BY <1>2, PrefixItems DEF MatchesMountPoint
<1>4. /\ Len(d) <= Len(f) /\ \A i \in 1..Len(d) : f[i] = d[i]
      /\ Len(f) = Len(d) \/ (Len(f) > Len(d) /\ f[Len(d) + 1] = Slash)
  <2>1. CASE p = d
    <3>1. Len(f) = Len(d) \/ f[Len(d) + 1] = Slash
      BY <1>1, <2>1 DEF MatchesMountPoint
    <3>2. Len(d) <= Len(f) /\ \A i \in 1..Len(d) : f[i] = d[i]
      BY <1>3, <2>1
    <3>3. Len(f) = Len(d) \/ Len(f) > Len(d)
      BY <1>1, <1>2, <3>2
    <3> QED BY <3>1, <3>2, <3>3
  <2>2. CASE p = d \o <<Slash>>
    <3>1. Len(p) = Len(d) + 1 /\ p[Len(d) + 1] = Slash /\ \A i \in 1..Len(d) : p[i] = d[i]
      BY <1>1, <2>2, SlashItems
    <3>2. Len(d) + 1 \in 1..Len(p) /\ \A i \in 1..Len(d) : i \in 1..Len(p)
      BY <1>1, <3>1
    <3>3. f[Len(d) + 1] = Slash /\ \A i \in 1..Len(d) : f[i] = d[i]
      BY <1>3, <3>1, <3>2
    <3>4. Len(f) > Len(d)
      BY <1>1, <1>2, <1>3, <3>1
    <3> QED BY <1>1, <1>2, <3>3, <3>4
  <2> QED BY <2>1, <2>2
<1>5. ASSUME NEW u \in Storages, NEW v \in Storages, Len(u) + 1 <= Len(v),
             \A i \in 1..Len(u) : v[i] = u[i], v[Len(u) + 1] = Slash
      PROVE  FALSE
  <2> DEFINE w == u \o <<Slash>>
  <2>1. u \in Path /\ v \in Path
    BY StorageNames
  <2>2. w \in Path /\ Len(w) = Len(u) + 1 /\ Len(u) \in Nat /\ w[Len(u) + 1] = Slash
        /\ \A i \in 1..Len(u) : w[i] = u[i]
    BY <2>1, SlashItems
  <2> HIDE DEF w
  <2>3. \A i \in 1..Len(w) : v[i] = w[i]
    BY <1>5, <2>2
  <2>4. IsPrefix(w, v)
    BY <1>5, <2>1, <2>2, <2>3, PrefixItems
  <2> QED BY <2>4 DEF w, Apart
<1>6. CASE f = s
  <2>1. CASE Len(f) = Len(d)
    BY <1>1, <1>4, <1>6, <2>1, SamePath
  <2>2. CASE Len(f) > Len(d) /\ f[Len(d) + 1] = Slash
    BY <1>1, <1>4, <1>5, <1>6, <2>2
  <2> QED BY <1>4, <2>1, <2>2
<1>7. CASE f = s \o File
  <2>1. Len(f) = Len(s) + 2 /\ f[Len(s) + 1] = Slash /\ \A i \in 1..Len(s) : f[i] = s[i]
    BY <1>1, <1>7, FileItems
  <2>2. CASE Len(d) < Len(s)
    <3>1. Len(d) + 1 \in 1..Len(s) /\ Len(f) > Len(d) /\ \A i \in 1..Len(d) : s[i] = d[i]
      BY <1>1, <1>4, <2>1, <2>2
    <3>2. s[Len(d) + 1] = Slash
      BY <1>1, <1>4, <2>1, <3>1
    <3> QED BY <1>1, <1>5, <2>2, <3>1, <3>2
  <2>3. CASE Len(d) = Len(s)
    BY <1>1, <1>4, <2>1, <2>3, SamePath
  <2>4. CASE Len(d) > Len(s)
    <3>1. Len(s) + 1 \in 1..Len(d) /\ \A i \in 1..Len(s) : d[i] = s[i]
      BY <1>1, <1>4, <2>1, <2>4
    <3>2. d[Len(s) + 1] = Slash
      BY <1>4, <2>1, <3>1
    <3> QED BY <1>1, <1>5, <2>4, <3>1, <3>2
  <2> QED BY <1>1, <2>2, <2>3, <2>4
<1> QED BY <1>6, <1>7

-----------------------------------------------------------------------------
(* The lock of a storage and of a user.                                      *)

\* EFS_lock returns 0 only with nothing mounted where the caller's path leads: the
\* name it searches /proc/mounts for is the directory (key_store.c:106-152,
\* mount_utils.c:306-333).
THEOREM LockClosesCorrect ==
  ASSUME PlainNames
  PROVE  Spec => []LockCloses
<1>1. Init => LockCloses
  BY DEF Init, LockCloses
<1>2. LockCloses /\ [Next]_vars => LockCloses'
  <2> SUFFICES ASSUME LockCloses, [Next]_vars PROVE LockCloses'
    OBVIOUS
  <2>1. ASSUME NEW p \in Spellings, Call(p) PROVE LockCloses'
    <3> DEFINE s == Sanitize(p)
    <3>1. CASE s = Refused
      BY <2>1, <3>1 DEF Call, RefusedCall, Returned, Returns, LockCloses
    <3>2. CASE EFS_create(s) \/ EFS_unlock(s) \/ EFS_remove(s) \/ EFS_recover_data_and_remove(s)
      BY <3>2 DEF EFS_create, EFS_unlock, EFS_remove, EFS_recover_data_and_remove, Returned, Returns,
                  LockCloses
    <3>3. CASE s # Refused /\ EFS_lock(s)
      <4>1. s \in Path /\ Plainly(s) /\ s \in Names
        BY <3>3, SanitizeNames, CallersPath
      <4> HIDE DEF s
      <4>2. Of[s].dir = s
        BY <4>1, ResolvePlain DEF Of
      <4>3. CASE Unmounts(s) = "nothing"
        BY <3>3, <4>2, <4>3 DEF EFS_lock, Unmount, Unmounts, Lines, Returns, LockCloses
      <4>4. CASE Unmounts(s) = "busy"
        BY <3>3, <4>4 DEF EFS_lock, Returns, LockCloses
      <4>5. CASE Unmounts(s) = "done"
        BY <3>3, <4>5 DEF EFS_lock, Unmount, Returns, LockCloses
      <4> QED BY <4>3, <4>4, <4>5 DEF Unmounts
    <3> QED BY <2>1, <3>1, <3>2, <3>3 DEF Call
  <2>2. CASE LockUser
    BY <2>2 DEF LockUser, LockCloses
  <2>3. CASE Kill
    BY <2>3 DEF Kill, LockCloses
  <2>4. CASE LockTry
    <3>1. mounts' \subseteq mounts
      BY <2>4 DEF LockTry, Unmount
    <3>2. last' = last \/ last'.op = "lock_user"
      BY <2>4 DEF LockTry, Returns
    <3> QED BY <3>1, <3>2 DEF LockCloses
  <2>5. ASSUME NEW q \in Programs, Open(q) \/ Close(q) PROVE LockCloses'
    BY <2>5 DEF Open, Close, LockCloses
  <2>6. CASE UNCHANGED vars
    BY <2>6 DEF vars, LockCloses
  <2> QED BY <2>1, <2>2, <2>3, <2>4, <2>5, <2>6 DEF Next
<1> QED BY <1>1, <1>2, PTL DEF Spec

\* The lock of a user sends SIGKILL only to programs that have a file open in the
\* storage it is locking (process.c:61-74), if no storage lies in another one.
THEOREM KillsOnlyHoldersCorrect ==
  ASSUME UserStorages, Apart
  PROVE  Spec => KillsOnlyHolders
<1> DEFINE Struck == \A q \in killed' \ killed : held[q].in = Of[Strip[lock.path]].dir
<1>1. LockInv /\ HeldInv /\ [Next]_vars => [Struck]_vars
  <2> SUFFICES ASSUME LockInv, HeldInv, [Next]_vars, NEW q \in killed' \ killed
               PROVE  held[q].in = Of[Strip[lock.path]].dir
    OBVIOUS
  <2>1. Kill
    BY DEF Next, Call, LockUser, LockTry, Open, Close, vars
  <2>2. q \in Programs /\ held[q] # NoFile /\ MatchesMountPoint(held[q].file, lock.path)
    BY <2>1 DEF Kill
  <2>3. held[q].in \in Storages /\ held[q].file \in {held[q].in, held[q].in \o File}
    BY <2>2, PathsAssumption DEF HeldInv
  <2>4. lock.path \in UserSet \cup Storages
    BY <2>1 DEF Kill, LockInv, Idle
  <2>5. Strip[lock.path] \in Storages
        /\ lock.path \in {Strip[lock.path], Strip[lock.path] \o <<Slash>>}
    BY <2>4, StorageNames, UserNames
  <2>6. held[q].in = Strip[lock.path]
    BY <2>2, <2>3, <2>5, FindsOnlyHolders
  <2> QED BY <2>5, <2>6, StorageNames
<1>2. Spec => []LockInv
  BY LockInit, LockStep, PTL DEF Spec
<1>3. Spec => []HeldInv
  BY HeldInit, HeldStep, PTL DEF Spec
<1>4. Spec => [][Struck]_vars
  BY <1>1, <1>2, <1>3, PTL DEF Spec
<1> QED BY <1>4 DEF KillsOnlyHolders

\* After a search for the stripped path nobody has a file in the storage, unless
\* a program has opened one since.
SearchInv ==
  lock.step = "umount" /\ lock.path \in Storages /\ opens = 0 =>
    \A q \in Programs : held[q].in # lock.path

LEMMA SearchStep ==
  ASSUME UserStorages, opens \in Nat, LockInv, HeldInv, SearchInv, [Next]_vars
  PROVE  SearchInv'
<1>1. ASSUME NEW p \in Spellings, Call(p) PROVE SearchInv'
  BY <1>1 DEF SearchInv, Call, Quiet, Idle
<1>2. CASE LockUser
  BY <1>2 DEF SearchInv, LockUser
<1>3. CASE Kill
  <2> SUFFICES ASSUME lock.path \in Storages, NEW q \in Programs
               PROVE  held'[q].in # lock.path
    BY <1>3 DEF SearchInv, Kill, LockInv, LockStates
  <2>1. CASE held[q] = NoFile
    BY <1>3, <2>1, StorageNames DEF Kill, NoFile
  <2>2. CASE held[q] # NoFile /\ MatchesMountPoint(held[q].file, lock.path)
    BY <1>3, <2>2, StorageNames DEF Kill, NoFile
  <2>3. CASE held[q] # NoFile /\ ~MatchesMountPoint(held[q].file, lock.path)
    <3>1. held'[q] = held[q]
      BY <1>3, <2>3 DEF Kill
    <3>2. held[q].file \in {held[q].in, held[q].in \o File}
      BY <2>3 DEF HeldInv
    <3> QED BY <2>3, <3>1, <3>2, FindsHolders
  <2> QED BY <2>1, <2>2, <2>3
<1>4. CASE LockTry
  <2> DEFINE s == Sanitize(lock.path)
  <2>1. lock.step = "umount" /\ lock \in LockStates
    BY <1>4 DEF LockTry, LockInv
  <2>2. \/ lock' = LockNext \/ lock' = Idle
        \/ lock' = [lock EXCEPT !.path = s, !.step = "kill", !.tries = @ + 1]
    BY <1>4 DEF LockTry
  <2>3. LockNext.step # "umount" /\ Idle.step # "umount"
    BY DEF LockNext, Idle
  <2> HIDE DEF s
  <2>4. [lock EXCEPT !.path = s, !.step = "kill", !.tries = @ + 1].step # "umount"
    BY <2>1 DEF LockStates
  <2>5. lock'.step # "umount"
    BY <2>2, <2>3, <2>4, Zenon
  <2> QED BY <2>5 DEF SearchInv
<1>5. ASSUME NEW q \in Programs, Open(q) PROVE SearchInv'
  <2>1. CASE Quiet
    BY <1>5, <2>1 DEF Open, SearchInv, Quiet, Idle
  <2>2. CASE ~Quiet
    BY <1>5, <2>2 DEF Open, SearchInv
  <2> QED BY <2>1, <2>2
<1>6. ASSUME NEW q \in Programs, Close(q) PROVE SearchInv'
  BY <1>6, StorageNames DEF Close, SearchInv, HeldInv, NoFile
<1>7. CASE UNCHANGED vars
  BY <1>7 DEF SearchInv, vars
<1> QED BY <1>1, <1>2, <1>3, <1>4, <1>5, <1>6, <1>7 DEF Next

\* With time for a second attempt, the lock of a user gives up only when programs
\* went on opening files (android_user_encryption.c:447-450, 470-473).
THEOREM GivesUpOnlyWhenOutrunCorrect ==
  ASSUME UserStorages, Attempts > 1
  PROVE  Spec => []GivesUpOnlyWhenOutrun
<1> DEFINE Inv == opens \in Nat /\ LockInv /\ HeldInv /\ SearchInv /\ GivesUpOnlyWhenOutrun
<1>1. Init => Inv
  BY LockInit, HeldInit DEF Init, SearchInv, GivesUpOnlyWhenOutrun, Idle
<1>2. Inv /\ [Next]_vars => Inv'
  <2> SUFFICES ASSUME Inv, [Next]_vars PROVE opens' \in Nat /\ GivesUpOnlyWhenOutrun'
    BY LockStep, HeldStep, SearchStep
  <2>1. ASSUME NEW p \in Spellings, Call(p) PROVE opens' \in Nat /\ GivesUpOnlyWhenOutrun'
    BY <2>1 DEF Call, RefusedCall, EFS_create, EFS_unlock, EFS_lock, EFS_remove,
                EFS_recover_data_and_remove, Returned, Returns, GivesUpOnlyWhenOutrun
  <2>2. CASE LockUser
    BY <2>2 DEF LockUser, GivesUpOnlyWhenOutrun, Idle
  <2>3. CASE Kill
    <3>1. lock'.step = "umount" /\ opens' = opens
      BY <2>3 DEF Kill, LockInv, LockStates
    <3> QED BY <3>1 DEF GivesUpOnlyWhenOutrun, Idle
  <2>4. CASE LockTry
    <3>1. opens' = opens
      BY <2>4 DEF LockTry
    <3>2. CASE last'.op = "lock_user" /\ last'.code = "err" /\ lock' = Idle
      <4> DEFINE s == Sanitize(lock.path)
      <4>1. lock.step = "umount" /\ lock # Idle /\ s # Refused
        BY <2>4 DEF LockTry, Idle
      <4>2. Unmounts(s) = "busy" /\ ~(lock.tries + 1 < Attempts)
        <5>1. CASE Unmounts(s) # "busy"
          <6>1. last' = [op |-> "lock_user", dir |-> Of[s].dir, code |-> "ok"]
            BY <2>4, <3>2, <5>1 DEF LockTry, Returns
          <6> QED BY <3>2, <6>1
        <5>2. CASE Unmounts(s) = "busy" /\ lock.tries + 1 < Attempts
          <6>1. lock' = [lock EXCEPT !.path = s, !.step = "kill", !.tries = @ + 1]
            BY <2>4, <5>2 DEF LockTry
          <6> HIDE DEF s
          <6>2. lock'.step = "kill"
            BY <6>1 DEF LockInv, LockStates
          <6> QED BY <3>2, <6>2 DEF Idle
        <5> QED BY <5>1, <5>2
      <4>3. lock.tries \in Nat /\ lock.path \in Storages
        BY <4>1, <4>2, PathsAssumption DEF LockInv, LockStates
      <4>4. s = lock.path /\ Of[s].dir = lock.path
        BY <4>1, <4>3, StorageNames, SanitizeNames
      <4>5. \E q \in Programs : held[q].in = lock.path
        BY <4>2, <4>4 DEF Unmounts, Busy
      <4> QED BY <3>1, <4>1, <4>3, <4>5 DEF SearchInv, GivesUpOnlyWhenOutrun
    <3> QED BY <3>1, <3>2 DEF GivesUpOnlyWhenOutrun
  <2>5. ASSUME NEW q \in Programs, Open(q) \/ Close(q)
        PROVE  opens' \in Nat /\ GivesUpOnlyWhenOutrun'
    BY <2>5 DEF Open, Close, GivesUpOnlyWhenOutrun, Quiet
  <2>6. CASE UNCHANGED vars
    BY <2>6 DEF vars, GivesUpOnlyWhenOutrun
  <2> QED BY <2>1, <2>2, <2>3, <2>4, <2>5, <2>6 DEF Next
<1> QED BY <1>1, <1>2, PTL DEF Spec

-----------------------------------------------------------------------------
(* Where the ciphertext of a storage lies, and the name of its key file.    *)

LEMMA LastSlashItems ==
  ASSUME NEW p \in Path, Plainly(p)
  PROVE  /\ LastSlash(p) \in Nat /\ LastSlash(p) < Len(p)
         /\ LastSlash(p) = 0 \/ (LastSlash(p) \in 2..Len(p) /\ p[LastSlash(p)] = Slash)
         /\ \A i \in 2..Len(p) : p[i] = Slash => i <= LastSlash(p)
<1> DEFINE at == {i \in 2..Len(p) : p[i] = Slash}
<1>1. Len(p) \in Nat /\ Len(p) > 1 /\ p[Len(p)] # Slash
  BY PlainItems
<1>2. CASE at = {}
  BY <1>1, <1>2 DEF LastSlash
<1>3. CASE at # {}
  <2>1. at \in SUBSET (1..Len(p))
    BY <1>1
  <2>2. PICK n \in at : \A m \in at : m <= n
    <3> HIDE DEF at
    <3> QED BY <1>1, <1>3, <2>1, MaxExists
  <2> DEFINE a == CHOOSE i \in at : \A j \in at : j <= i
  <2>3. a \in at /\ \A j \in at : j <= a
    BY <2>2
  <2>4. LastSlash(p) = a
    BY <1>3 DEF LastSlash
  <2> HIDE DEF a
  <2>5. a \in 2..Len(p) /\ p[a] = Slash /\ a # Len(p) /\ \A i \in 2..Len(p) : p[i] = Slash => i <= a
    BY <1>1, <2>3
  <2> QED BY <1>1, <2>4, <2>5
<1> QED BY <1>2, <1>3

LEMMA PrivateItems ==
  ASSUME NEW p \in Path, Plainly(p), NEW a, a = LastSlash(p), NEW q, q = PrivatePath(p)
  PROVE  /\ q \in Path /\ Len(q) = Len(p) + 1
         /\ \A i \in 1..a : q[i] = p[i]
         /\ q[a + 1] = "."
         /\ \A i \in (a + 1)..Len(p) : q[i + 1] = p[i]
<1>1. a \in Nat /\ Len(p) \in Nat /\ a < Len(p) /\ a \in 0..Len(p) /\ \A i \in 1..Len(p) : p[i] \in Piece
  BY LastSlashItems, PlainItems
<1> DEFINE A == SubSeq(p, 1, a)
<1> DEFINE e == <<".">>
<1> DEFINE B == SubSeq(p, a + 1, Len(p))
<1>2. A \in Path /\ Len(A) = a /\ \A i \in 1..a : A[i] = p[i]
  BY <1>1, Beginning
<1>3. e \in Path /\ Len(e) = 1 /\ e[1] = "."
  <2>1. "." \in Piece
    BY DEF Piece
  <2> QED BY <2>1 DEF Path
<1>4. B \in Path /\ Len(B) = Len(p) - a /\ \A i \in 1..(Len(p) - a) : B[i] = p[a + i]
  <2>1. a + 1 \in Int /\ Len(p) \in Int /\ \A i \in (a + 1)..Len(p) : p[i] \in Piece
    BY <1>1
  <2>2. /\ B \in Seq(Piece)
        /\ Len(B) = IF a + 1 <= Len(p) THEN Len(p) - (a + 1) + 1 ELSE 0
        /\ \A i \in 1..(Len(p) - (a + 1) + 1) : B[i] = p[(a + 1) + i - 1]
    BY <2>1, SubSeqProperties
  <2>3. a + 1 <= Len(p) /\ Len(p) - (a + 1) + 1 = Len(p) - a
        /\ \A i \in 1..(Len(p) - a) : (a + 1) + i - 1 = a + i
    BY <1>1
  <2> HIDE DEF B
  <2> QED BY <2>2, <2>3 DEF Path
<1>5. q = A \o e \o B
  BY DEF PrivatePath
<1> HIDE DEF A, e, B
<1>6. /\ A \o e \in Path /\ Len(A \o e) = a + 1
      /\ (\A i \in 1..a : (A \o e)[i] = p[i]) /\ (A \o e)[a + 1] = "."
  <2>1. 1 \in 1..Len(e)
    BY <1>3
  <2>2. A \o e \in Path /\ Len(A \o e) = Len(A) + Len(e)
        /\ (\A i \in 1..Len(A) : (A \o e)[i] = A[i])
        /\ (\A i \in 1..Len(e) : (A \o e)[Len(A) + i] = e[i])
    BY <1>2, <1>3, JoinedPath
  <2> QED BY <1>1, <1>2, <1>3, <2>1, <2>2
<1> DEFINE C == A \o e
<1>7. /\ C \o B \in Path /\ Len(C \o B) = Len(C) + Len(B)
      /\ \A i \in 1..Len(C) : (C \o B)[i] = C[i]
      /\ \A i \in 1..Len(B) : (C \o B)[Len(C) + i] = B[i]
  BY <1>4, <1>6, JoinedPath
<1>8. q = C \o B
  BY <1>5
<1>9. C \in Path /\ Len(C) = a + 1 /\ (\A i \in 1..a : C[i] = p[i]) /\ C[a + 1] = "."
  BY <1>6
<1> HIDE DEF C
<1>10. q \in Path /\ Len(q) = Len(p) + 1
  BY <1>1, <1>4, <1>7, <1>8, <1>9
<1>11. (\A i \in 1..a : q[i] = p[i]) /\ q[a + 1] = "."
  <2>1. a + 1 \in 1..Len(C) /\ \A i \in 1..a : i \in 1..Len(C)
    BY <1>1, <1>9
  <2> QED BY <1>7, <1>8, <1>9, <2>1
<1>12. ASSUME NEW i \in (a + 1)..Len(p) PROVE q[i + 1] = p[i]
  <2> DEFINE j == i - a
  <2>1. j \in 1..(Len(p) - a) /\ (a + 1) + j = i + 1 /\ a + j = i
    BY <1>1
  <2> HIDE DEF j
  <2>2. j \in 1..Len(B) /\ Len(C) + j = i + 1
    BY <1>4, <1>9, <2>1
  <2>3. (C \o B)[Len(C) + j] = B[j] /\ B[j] = p[a + j]
    BY <1>4, <1>7, <2>1, <2>2
  <2> QED BY <1>8, <2>1, <2>2, <2>3
<1> QED BY <1>10, <1>11, <1>12

\* The private directory of a storage in "/" is the storage itself.
LEMMA PrivateAtRoot ==
  ASSUME NEW p \in Path, Plainly(p), LastSlash(p) = 0
  PROVE  Resolve(PrivatePath(p)) = p
<1> DEFINE q == PrivatePath(p)
<1>1. q \in Path /\ Len(q) = Len(p) + 1 /\ q[1] = "." /\ Len(p) \in Nat
      /\ \A i \in 1..Len(p) : q[i + 1] = p[i]
  <2>1. 0 + 1 = 1 /\ Len(p) \in Nat
    BY PlainItems
  <2> HIDE DEF q
  <2> QED BY <2>1, PrivateItems DEF q
<1> HIDE DEF q
<1>2. q # <<>>
  BY <1>1
<1> DEFINE t == Tail(q)
<1>3. t \in Path /\ Len(t) = Len(p) /\ \A i \in 1..Len(p) : t[i] = q[i + 1]
  <2>1. t \in Path /\ Len(t) = Len(q) - 1 /\ \A i \in 1..Len(t) : t[i] = q[i + 1]
    BY <1>1, <1>2, HeadTailProperties DEF Path
  <2> HIDE DEF t
  <2> QED BY <1>1, <2>1
<1>4. t = p
  <2> HIDE DEF t
  <2> QED BY <1>1, <1>3, SamePath
<1>5. Resolve(q) = p
  BY <1>1, <1>2, <1>4 DEF Resolve
<1> QED BY <1>5 DEF q

\* Of another one it is where it is spelled, with no slash behind the dot.
LEMMA PrivateBelow ==
  ASSUME NEW p \in Path, Plainly(p), NEW a, a = LastSlash(p), a # 0, NEW q, q = PrivatePath(p)
  PROVE  Resolve(q) = q /\ \A i \in (a + 1)..Len(q) : q[i] # Slash
<1>1. /\ a \in 2..Len(p) /\ a < Len(p) /\ p[a] = Slash /\ Len(p) \in Nat
      /\ \A i \in 2..Len(p) : p[i] = Slash => i <= a
  BY LastSlashItems, PlainItems
<1>2. /\ q \in Path /\ Len(q) = Len(p) + 1 /\ (\A i \in 1..a : q[i] = p[i]) /\ q[a + 1] = "."
      /\ \A i \in (a + 1)..Len(p) : q[i + 1] = p[i]
  BY PrivateItems
<1>3. ASSUME NEW i \in (a + 1)..Len(q) PROVE q[i] # Slash
  <2>1. CASE i = a + 1
    BY <1>2, <2>1 DEF Slash
  <2>2. CASE i # a + 1
    <3> DEFINE j == i - 1
    <3>1. j \in (a + 1)..Len(p) /\ j \in 2..Len(p) /\ i = j + 1 /\ ~(j <= a)
      BY <1>1, <1>2, <2>2
    <3> HIDE DEF j
    <3> QED BY <1>1, <1>2, <3>1
  <2> QED BY <2>1, <2>2
<1>4. ASSUME NEW i \in 1..(Len(q) - 1), q[i] = Slash PROVE q[i + 1] # Slash
  <2>1. i \in 1..a
    BY <1>1, <1>2, <1>3, <1>4
  <2>2. CASE i = a
    BY <1>2, <2>2 DEF Slash
  <2>3. CASE i # a
    <3>1. i + 1 \in 1..a /\ i \in 1..Len(p)
      BY <1>1, <2>1, <2>3
    <3>2. p[i] = Slash /\ q[i + 1] = p[i + 1]
      BY <1>2, <1>4, <2>1, <3>1
    <3> QED BY <3>1, <3>2, PlainItems
  <2> QED BY <2>2, <2>3
<1>5. q # <<>> /\ q[1] = Slash /\ q[Len(q)] # Slash
  <2>1. 1 \in 1..a /\ Len(q) \in (a + 1)..Len(q) /\ Len(q) > 0
    BY <1>1, <1>2
  <2>2. q[1] = Slash
    BY <1>2, <2>1, PlainItems
  <2>3. q # <<>>
    BY <1>2, <2>1
  <2> QED BY <1>3, <2>1, <2>2, <2>3
<1>6. Plainly(q)
  BY <1>4, <1>5 DEF Plainly
<1> QED BY <1>2, <1>3, <1>6, ResolvePlain

\* Two names never have one private directory.
LEMMA PrivateApart ==
  ASSUME NEW s \in Path, Plainly(s), NEW t \in Path, Plainly(t),
         Resolve(PrivatePath(s)) = Resolve(PrivatePath(t))
  PROVE  s = t
<1> DEFINE a == LastSlash(s)
<1> DEFINE b == LastSlash(t)
<1> DEFINE q == PrivatePath(s)
<1> DEFINE r == PrivatePath(t)
<1>1. /\ a \in Nat /\ b \in Nat /\ Len(s) \in Nat /\ Len(t) \in Nat /\ a < Len(s) /\ b < Len(t)
      /\ (a # 0 => a \in 2..Len(s) /\ s[a] = Slash) /\ (b # 0 => b \in 2..Len(t) /\ t[b] = Slash)
      /\ (\A i \in 2..Len(s) : s[i] = Slash => i <= a)
      /\ (\A i \in 2..Len(t) : t[i] = Slash => i <= b)
  BY LastSlashItems, PlainItems
<1>2. /\ Len(q) = Len(s) + 1 /\ (\A i \in 1..a : q[i] = s[i])
      /\ \A i \in (a + 1)..Len(s) : q[i + 1] = s[i]
  <2> HIDE DEF a, q
  <2> QED BY PrivateItems DEF a, q
<1>3. /\ Len(r) = Len(t) + 1 /\ (\A i \in 1..b : r[i] = t[i])
      /\ \A i \in (b + 1)..Len(t) : r[i + 1] = t[i]
  <2> HIDE DEF b, r
  <2> QED BY PrivateItems DEF b, r
<1>4. a = 0 => Resolve(q) = s
  BY PrivateAtRoot
<1>5. b = 0 => Resolve(r) = t
  BY PrivateAtRoot
<1>6. a # 0 => Resolve(q) = q /\ \A i \in (a + 1)..Len(q) : q[i] # Slash
  <2> HIDE DEF a, q
  <2> QED BY PrivateBelow DEF a, q
<1>7. b # 0 => Resolve(r) = r /\ \A i \in (b + 1)..Len(r) : r[i] # Slash
  <2> HIDE DEF b, r
  <2> QED BY PrivateBelow DEF b, r
<1>8. Resolve(q) = Resolve(r)
  OBVIOUS
<1> HIDE DEF a, b, q, r
<1>9. CASE a = 0 /\ b = 0
  BY <1>4, <1>5, <1>8, <1>9
<1>10. CASE a = 0 /\ b # 0
  <2>1. s = r
    BY <1>4, <1>7, <1>8, <1>10
  <2>2. b \in 1..b /\ b \in 2..Len(s) /\ s[b] = Slash
    BY <1>1, <1>3, <1>10, <2>1
  <2> QED BY <1>1, <1>10, <2>2
<1>11. CASE a # 0 /\ b = 0
  <2>1. t = q
    BY <1>5, <1>6, <1>8, <1>11
  <2>2. a \in 1..a /\ a \in 2..Len(t) /\ t[a] = Slash
    BY <1>1, <1>2, <1>11, <2>1
  <2> QED BY <1>1, <1>11, <2>2
<1>12. CASE a # 0 /\ b # 0
  <2>1. q = r
    BY <1>6, <1>7, <1>8, <1>12
  <2>2. Len(s) = Len(t)
    BY <1>1, <1>2, <1>3, <2>1
  <2>3. q[a] = Slash /\ r[b] = Slash
    <3>1. a \in 1..a /\ b \in 1..b
      BY <1>1, <1>12
    <3> QED BY <1>1, <1>2, <1>3, <1>12, <3>1
  <2>4. ~(a < b) /\ ~(b < a)
    <3>1. a < b => b \in (a + 1)..Len(q)
      BY <1>1, <1>2, <2>2
    <3>2. b < a => a \in (b + 1)..Len(r)
      BY <1>1, <1>3, <2>2
    <3> QED BY <1>6, <1>7, <1>12, <2>1, <2>3, <3>1, <3>2
  <2>5. a = b
    BY <1>1, <2>4
  <2>6. ASSUME NEW i \in 1..Len(s) PROVE s[i] = t[i]
    <3>1. CASE i \in 1..a
      BY <1>2, <1>3, <2>1, <2>5, <3>1
    <3>2. CASE i \in (a + 1)..Len(s)
      <4>1. i \in (b + 1)..Len(t)
        BY <2>2, <2>5, <3>2
      <4> QED BY <1>2, <1>3, <2>1, <3>2, <4>1
    <3>3. i \in 1..a \/ i \in (a + 1)..Len(s)
      BY <1>1
    <3> QED BY <3>1, <3>2, <3>3
  <2> QED BY <2>2, <2>6, SamePath
<1> QED BY <1>9, <1>10, <1>11, <1>12

LEMMA KeyApart ==
  ASSUME NEW s \in Path, NEW t \in Path, Len(s) <= HashLen, Len(t) <= HashLen, KeyName(s) = KeyName(t)
  PROVE  s = t
<1>1. ASSUME NEW p \in Path, Len(p) <= HashLen PROVE KeyName(p) = p
  <2>1. Len(p) \in Nat /\ HashLen \in Nat
    BY PathsAssumption DEF Path
  <2>2. KeyName(p) = SubSeq(p, 1, Len(p))
    BY <1>1, <2>1 DEF KeyName
  <2> QED BY <2>2, SubSeqFull DEF Path
<1> QED BY <1>1

\* Of another storage the directory, the private one and the key file are others.
LEMMA OtherPaths ==
  ASSUME PlainNames, DigestCovers, NEW s \in Storages, NEW p \in Callers, NEW t,
         t = Sanitize(p), t # Refused, s # Of[t].dir
  PROVE  /\ Of[t].dir = t /\ s # t
         /\ Of[t].private # Of[s].private /\ Of[s].private \in HidingPlaces
         /\ Of[t].key # Of[s].key /\ Of[s].key \in KeyNames
<1>1. t \in Path /\ Plainly(t) /\ t \in Names
  BY SanitizeNames
<1>2. s \in Path /\ Plainly(s) /\ s \in Names
  BY StorageNames
<1>3. Of[t].dir = t /\ s # t
  BY <1>1, ResolvePlain DEF Of
<1>4. Of[t].private = Resolve(PrivatePath(t)) /\ Of[s].private = Resolve(PrivatePath(s))
      /\ Of[t].key = KeyName(t) /\ Of[s].key = KeyName(s)
  BY <1>1, <1>2 DEF Of
<1>5. Of[t].private # Of[s].private
  BY <1>1, <1>2, <1>3, <1>4, PrivateApart
<1>6. Of[t].key # Of[s].key
  BY <1>1, <1>2, <1>3, <1>4, KeyApart DEF DigestCovers
<1> QED BY <1>2, <1>3, <1>5, <1>6 DEF HidingPlaces, KeyNames

StoreInv == DOMAIN cipher = HidingPlaces /\ DOMAIN keyFile = KeyNames

LEMMA StoreStep == StoreInv /\ [Next]_vars => StoreInv'
<1> SUFFICES ASSUME StoreInv, [Next]_vars PROVE StoreInv'
  OBVIOUS
<1>1. ASSUME NEW p \in Spellings, Call(p) PROVE StoreInv'
  BY <1>1 DEF Call, RefusedCall, EFS_create, EFS_unlock, EFS_lock, EFS_remove,
              EFS_recover_data_and_remove, Discard, StoreInv
<1>2. ASSUME UNCHANGED <<cipher, keyFile>> PROVE StoreInv'
  BY <1>2 DEF StoreInv
<1> QED BY <1>1, <1>2 DEF Next, LockUser, Kill, LockTry, Open, Close, vars

LEMMA SameView ==
  ASSUME NEW s, UNCHANGED <<cipher[Of[s].private], keyFile[Of[s].key], {l \in mounts : l.at = s}>>
  PROVE  View(s)' = View(s)
BY DEF View, Opens

\* A call on one storage touches nothing of another one, whatever their names have in
\* common (key_store.c:44-181), if no slash is repeated within a name and the digest
\* covers it.
THEOREM NoInterferenceCorrect ==
  ASSUME PlainNames, DigestCovers
  PROVE  Spec => NoInterference
<1> DEFINE Apt == \A s \in Storages : s # Target => View(s)' = View(s)
<1>1. StoreInv /\ [Next]_vars => [Apt]_vars
  <2> SUFFICES ASSUME StoreInv, [Next]_vars, NEW s \in Storages, s # Target
               PROVE  View(s)' = View(s)
    OBVIOUS
  <2>1. ASSUME NEW p \in Spellings, Call(p) PROVE View(s)' = View(s)
    <3> DEFINE t == Sanitize(p)
    <3>1. CASE t = Refused
      BY <2>1, <3>1, SameView DEF Call, RefusedCall
    <3>2. CASE t # Refused
      <4>1. Target = last'.dir
        BY <2>1 DEF Call, Quiet, Target
      <4>2. EFS_create(t) \/ EFS_unlock(t) \/ EFS_lock(t) \/ EFS_remove(t) \/ EFS_recover_data_and_remove(t)
        BY <2>1, <3>2 DEF Call
      <4>3. last'.dir = Of[t].dir
        BY <4>2 DEF EFS_create, EFS_unlock, EFS_lock, EFS_remove, EFS_recover_data_and_remove,
                    Returned, Returns
      <4>4. /\ Of[t].dir = t /\ s # t
            /\ Of[t].private # Of[s].private /\ Of[s].private \in DOMAIN cipher
            /\ Of[t].key # Of[s].key /\ Of[s].key \in DOMAIN keyFile
        BY <3>2, <4>1, <4>3, CallersPath, OtherPaths DEF StoreInv
      <4> HIDE DEF t
      <4>5. CASE EFS_create(t)
        BY <4>4, <4>5, SameView DEF EFS_create
      <4>6. CASE EFS_unlock(t)
        BY <4>4, <4>6, SameView DEF EFS_unlock
      <4>7. CASE EFS_lock(t)
        BY <4>4, <4>7, SameView DEF EFS_lock, Unmount
      <4>8. Discard(t) => UNCHANGED <<cipher[Of[s].private], keyFile[Of[s].key]>>
        BY <4>4 DEF Discard
      <4>9. CASE EFS_remove(t)
        BY <4>8, <4>9, SameView DEF EFS_remove
      <4>10. CASE EFS_recover_data_and_remove(t)
        BY <4>8, <4>10, SameView DEF EFS_recover_data_and_remove
      <4> QED BY <4>2, <4>5, <4>6, <4>7, <4>9, <4>10
    <3> QED BY <3>1, <3>2
  <2>2. CASE LockTry
    <3> DEFINE t == Sanitize(lock.path)
    <3>1. t # Refused /\ lock # Idle /\ Unmount(t) /\ UNCHANGED <<cipher, keyFile>>
      BY <2>2 DEF LockTry, Idle
    <3>2. t = Strip[lock.path]
      BY <3>1 DEF Sanitize
    <3>3. s # Of[t].dir
      BY <3>1, <3>2 DEF Target
    <3> HIDE DEF t
    <3> QED BY <3>1, <3>3, SameView DEF Unmount
  <2>3. ASSUME UNCHANGED <<cipher, keyFile, mounts>> PROVE View(s)' = View(s)
    BY <2>3, SameView
  <2> QED BY <2>1, <2>2, <2>3 DEF Next, LockUser, Kill, Open, Close, vars
<1>2. Init => StoreInv
  BY DEF Init, StoreInv
<1>3. Spec => []StoreInv
  BY <1>2, StoreStep, PTL DEF Spec
<1>4. Spec => [][Apt]_vars
  BY <1>1, <1>3, PTL DEF Spec
<1> QED BY <1>4 DEF NoInterference

=============================================================================
