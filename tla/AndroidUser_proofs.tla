------------------------- MODULE AndroidUser_proofs -------------------------
(* Both storages of a user stay in step, and what the calls promise when they *)
(* return 0: for any items and passwords, and any number of mishaps and       *)
(* restarts.                                                                  *)
EXTENDS AndroidUser, TLAPS

Codes == {"ok", "err", "none", "positive"}
Hows  == {"clean", "fault", "killed"}
Keys  == Passwords \cup {NoPassword}

-----------------------------------------------------------------------------
(* What a call of the storage API may leave.                                 *)

LEMMA InEnds ==
  ASSUME NEW X, NEW code, NEW how, NEW o \in Ends(X, code, how)
  PROVE  o.to \in X /\ o.code = code /\ o.how = how
BY DEF Ends

LEMMA InInterrupted ==
  ASSUME NEW X, NEW o \in Interrupted(X)
  PROVE  o.to \in X /\ o.code \in {"err", "none"} /\ o.how \in {"fault", "killed"}
BY InEnds DEF Interrupted

\* What holds of an outcome, whatever happens on the way: what the user keeps
\* can still be read or decrypted, but for a removal; the types; what is mounted
\* has a private directory; and what is in the clear afterwards was there or in
\* the private directory.
Reach(x) == x.clear \cup (IF HasHeader(x) THEN x.cipher ELSE {})
Sound(x, y, D, op) ==
  /\ op # "remove" /\ (x.priv => D \subseteq x.cipher /\ HasHeader(x)) /\ (~x.priv => D \subseteq x.clear)
       => D \subseteq Reach(y)
  /\ y \in Storage
  /\ (x.at # "none" => x.priv) => (y.at # "none" => y.priv)
  /\ op # "remove" => ((x.priv => D \subseteq x.cipher) /\ (~x.priv => D \subseteq x.clear)
                         => (~y.priv => D \subseteq y.clear))
  /\ op = "remove" /\ ~(x.priv /\ x.at = "none") => y = x
  /\ op = "unlock" => y.priv = x.priv

LEMMA SoundSame ==
  ASSUME NEW x \in Storage, NEW D, NEW op
  PROVE  Sound(x, x, D, op)
BY DEF Sound, Reach

\* Nothing is done: the call is refused, or fails or dies before it begins.
LEMMA NothingDone ==
  ASSUME NEW x \in Storage, NEW o,
         o \in Interrupted({x}) \/ o \in Ends({x}, "err", "clean")
  PROVE  /\ o.to = x /\ o.code \in Codes /\ o.how \in Hows
         /\ o.how = "clean" => o.code = "err"
         /\ o.code # "ok" /\ \A D, op : Sound(x, o.to, D, op)
<1>1. CASE o \in Interrupted({x})
  <2>1. o.to \in {x} /\ o.code \in {"err", "none"} /\ o.how \in {"fault", "killed"}
    BY <1>1, InInterrupted
  <2> QED BY <2>1, SoundSame DEF Codes, Hows
<1>2. CASE o \in Ends({x}, "err", "clean")
  <2>1. o.to \in {x} /\ o.code = "err" /\ o.how = "clean"
    BY <1>2, InEnds
  <2> QED BY <2>1, SoundSame DEF Codes, Hows
<1> QED BY <1>1, <1>2

LEMMA HalfCreatedSound ==
  ASSUME NEW x \in Storage, NEW pw \in Keys, NEW y \in HalfCreated(x, pw)
  PROVE  /\ y \in Storage /\ (y.priv \/ (y.at = x.at /\ y.clear = x.clear))
         /\ x.clear \subseteq Reach(y)
<1> DEFINE Fine == /\ y \in Storage /\ (y.priv \/ (y.at = x.at /\ y.clear = x.clear))
                   /\ x.clear \subseteq Reach(y)
<1>1. Made(x) \in Storage /\ Made(x).priv = TRUE /\ Made(x).clear = x.clear
  BY DEF Storage, Made
<1>2. /\ Keyed(x, pw) \in Storage /\ Keyed(x, pw).priv = TRUE
      /\ Keyed(x, pw).clear = x.clear /\ Keyed(x, pw).at = x.at /\ HasHeader(Keyed(x, pw))
  BY DEF Storage, Keys, Keyed, HasHeader
<1>3. x.clear \in SUBSET Items
  BY DEF Storage
<1>4. ASSUME y = Made(x) PROVE Fine
  BY <1>1, <1>4 DEF Reach
<1>5. ASSUME y = [Keyed(x, pw) EXCEPT !.priv = FALSE] PROVE Fine
  <2>1. y \in Storage /\ y.clear = x.clear /\ y.at = x.at
    BY <1>2, <1>5 DEF Storage
  <2> QED BY <2>1 DEF Reach
<1>6. ASSUME y = [Made(x) EXCEPT !.stat = IF @ = "absent" THEN "malformed" ELSE @] PROVE Fine
  <2>1. y \in Storage /\ y.clear = x.clear /\ y.priv
    BY <1>1, <1>6 DEF Storage
  <2> QED BY <2>1 DEF Reach
<1>7. ASSUME NEW m \in {"none", "P"}, y \in Copied(x, pw, m) PROVE Fine
  <2>1. PICK C \in SUBSET x.clear : y = [Keyed(x, pw) EXCEPT !.cipher = C, !.at = m]
    BY <1>7 DEF Copied
  <2>2. C \in SUBSET Items /\ m \in {"none", "S", "P", "R"}
    BY <1>3
  <2>3. y \in Storage /\ y.clear = x.clear /\ y.priv
    BY <1>2, <2>1, <2>2 DEF Storage
  <2> QED BY <2>3 DEF Reach
<1>8. ASSUME y \in Wiped(x, pw) PROVE Fine
  <2>1. PICK C \in SUBSET x.clear : y = [Keyed(x, pw) EXCEPT !.cipher = x.clear, !.clear = C]
    BY <1>8 DEF Wiped
  <2>2. C \in SUBSET Items
    BY <1>3
  <2>3. y \in Storage /\ y.cipher = x.clear /\ y.priv /\ HasHeader(y)
    BY <1>2, <1>3, <2>1, <2>2 DEF Storage, HasHeader
  <2> QED BY <2>3 DEF Reach
<1>9. \/ y = Made(x) \/ y = [Keyed(x, pw) EXCEPT !.priv = FALSE]
      \/ y = [Made(x) EXCEPT !.stat = IF @ = "absent" THEN "malformed" ELSE @]
      \/ y \in Copied(x, pw, "none") \/ y \in Copied(x, pw, "P") \/ y \in Wiped(x, pw)
  BY Zenon DEF HalfCreated
<1>10. Fine
  <2>1. (y \in Copied(x, pw, "none") => Fine) /\ (y \in Copied(x, pw, "P") => Fine)
    BY <1>7
  <2> HIDE DEF Fine
  <2> QED BY Zenon, <1>4, <1>5, <1>6, <1>8, <1>9, <2>1
<1> QED BY <1>10

LEMMA CreateSound ==
  ASSUME NEW x \in Storage, NEW pw \in Keys, NEW D, NEW o \in Create(x, pw)
  PROVE  /\ Sound(x, o.to, D, "create") /\ o.code \in Codes /\ o.how \in Hows
         /\ o.how = "clean" /\ o.code # "err" => o.to = Created(x, pw) /\ ~x.priv
<1>1. CASE o \in Interrupted({x}) \/ o \in Ends({x}, "err", "clean")
  BY <1>1, NothingDone
<1>2. CASE ~x.priv /\ o \in Ends({Created(x, pw)}, "ok", "clean")
  <2>1. o.to = Created(x, pw) /\ o.code = "ok" /\ o.how = "clean"
    BY <1>2, InEnds
  <2>2. /\ Created(x, pw) \in Storage /\ Created(x, pw).priv
        /\ Created(x, pw).cipher = x.clear /\ HasHeader(Created(x, pw))
    BY DEF Created, Storage, Keys, HasHeader
  <2> QED BY <1>2, <2>1, <2>2 DEF Sound, Reach, Codes, Hows
<1>3. CASE ~x.priv /\ o \in Interrupted(HalfCreated(x, pw))
  <2>1. o.to \in HalfCreated(x, pw) /\ o.code \in {"err", "none"} /\ o.how \in {"fault", "killed"}
    BY <1>3, InInterrupted
  <2> QED BY <1>3, <2>1, HalfCreatedSound DEF Sound, Codes, Hows
<1> QED BY <1>1, <1>2, <1>3 DEF Create

LEMMA UnlockSound ==
  ASSUME NEW x \in Storage, NEW pw \in Keys, NEW D, NEW o \in Unlock(x, pw)
  PROVE  /\ Sound(x, o.to, D, "unlock") /\ o.code \in Codes /\ o.how \in Hows
         /\ o.how = "clean" /\ o.code # "err" =>
               /\ HasHeader(x)
               /\ \/ (x.stat = "not_started" \/ x.at # "none") /\ o.to = x
                  \/ x.at = "none" /\ x.priv /\ o.to = [x EXCEPT !.at = "S"]
<1> DEFINE open == [x EXCEPT !.at = "S"]
<1>1. CASE o \in Interrupted({x}) \/ o \in Ends({x}, "err", "clean")
  BY <1>1, NothingDone
<1>2. CASE /\ HasHeader(x)
           /\ x.stat = "not_started" \/ x.at # "none"
           /\ o \in Ends({x}, "positive", "clean") \/ o \in Ends({x}, "ok", "clean")
  <2>1. o.to = x /\ o.code \in {"ok", "positive"} /\ o.how = "clean"
    BY <1>2, InEnds
  <2> QED BY <1>2, <2>1, SoundSame DEF Codes, Hows
<1>3. CASE /\ HasHeader(x) /\ x.at = "none" /\ x.priv
           /\ o \in Ends({open}, "ok", "clean") \/ o \in Ends({open}, "none", "killed")
  <2>1. o.to = open /\ o.code \in {"ok", "none"} /\ o.how \in {"clean", "killed"}
    BY <1>3, InEnds
  <2>2. open \in Storage /\ open.priv /\ open.priv = x.priv /\ open.clear = x.clear /\ open.cipher = x.cipher
        /\ open.stat = x.stat
    BY <1>3 DEF Storage
  <2> QED BY <1>3, <2>1, <2>2 DEF Sound, Reach, HasHeader, Codes, Hows
<1> QED BY <1>1, <1>2, <1>3 DEF Unlock

LEMMA LockSound ==
  ASSUME NEW x \in Storage, NEW D, NEW o \in Lock(x)
  PROVE  /\ Sound(x, o.to, D, "lock") /\ o.code \in Codes /\ o.how \in Hows
         /\ o.to \in {x, Locked(x)} /\ (o.how = "clean" => o.to = Locked(x))
<1>1. /\ o.to \in {x, Locked(x)} /\ o.code \in Codes /\ o.how \in Hows
      /\ o.how = "clean" => o.to = Locked(x)
  <2>1. CASE o \in Ends({Locked(x)}, "ok", "clean")
    BY <2>1, InEnds DEF Codes, Hows
  <2>2. CASE o \in Interrupted({x, Locked(x)})
    BY <2>2, InInterrupted DEF Codes, Hows
  <2> QED BY <2>1, <2>2 DEF Lock
<1>2. CASE o.to = x
  BY <1>1, <1>2, SoundSame
<1>3. CASE o.to = Locked(x)
  <2>1. /\ Locked(x) \in Storage /\ Locked(x).priv = x.priv /\ Locked(x).clear = x.clear
        /\ Locked(x).at \in {"none", x.at} /\ Locked(x).cipher = x.cipher /\ Locked(x).stat = x.stat
    BY DEF Storage, Locked
  <2> QED BY <1>1, <1>3, <2>1 DEF Sound, Reach, HasHeader, Codes, Hows
<1> QED BY <1>1, <1>2, <1>3

LEMMA ChangeSound ==
  ASSUME NEW x \in Storage, NEW old \in Keys, NEW new \in Keys, NEW D, NEW o \in Change(x, old, new)
  PROVE  /\ Sound(x, o.to, D, "change") /\ o.code \in Codes /\ o.how \in Hows
         /\ o.how = "clean" /\ o.code # "err" => o.to = [x EXCEPT !.pass = new]
<1> DEFINE y == [x EXCEPT !.pass = new]
<1>1. CASE o \in Interrupted({x}) \/ o \in Ends({x}, "err", "clean")
  BY <1>1, NothingDone
<1>2. CASE o \in Ends({y}, "ok", "clean")
  <2>1. o.to = y /\ o.code = "ok" /\ o.how = "clean"
    BY <1>2, InEnds
  <2>2. /\ y \in Storage /\ y.priv = x.priv /\ y.at = x.at /\ y.clear = x.clear
        /\ y.cipher = x.cipher /\ y.stat = x.stat
    BY DEF Storage, Keys
  <2> QED BY <2>1, <2>2 DEF Sound, Reach, HasHeader, Codes, Hows
<1> QED BY <1>1, <1>2 DEF Change

LEMMA HalfRemovedSound ==
  ASSUME NEW x \in Storage, NEW y \in HalfRemoved(x)
  PROVE  y \in Storage /\ y.at = x.at /\ y.clear = x.clear
<1>1. ASSUME NEW C \in SUBSET x.cipher, y = [x EXCEPT !.cipher = C]
      PROVE  y \in Storage /\ y.at = x.at /\ y.clear = x.clear
  BY <1>1 DEF Storage
<1>2. CASE y = [x EXCEPT !.cipher = {}, !.priv = FALSE]
  BY <1>2 DEF Storage
<1> QED BY <1>1, <1>2 DEF HalfRemoved

LEMMA RemovedIs ==
  ASSUME NEW x \in Storage
  PROVE  /\ Removed(x) \in Storage /\ Removed(x).at = x.at /\ Removed(x).clear = x.clear
         /\ ~Removed(x).priv /\ Removed(x).cipher = {} /\ Removed(x).stat = "absent"
         /\ Removed(x).pass = NoPassword /\ Removed(x).rec = x.rec
BY DEF Removed, Storage

LEMMA RemoveSound ==
  ASSUME NEW x \in Storage, NEW D, NEW o \in Remove(x)
  PROVE  /\ Sound(x, o.to, D, "remove") /\ o.code \in Codes /\ o.how \in Hows
         /\ o.how = "clean" /\ o.code # "err" =>
               /\ x.priv
               /\ \/ x.at # "none" /\ o.to = x
                  \/ x.at = "none" /\ o.to = Removed(x)
<1>1. CASE o \in Interrupted({x}) \/ o \in Ends({x}, "err", "clean")
  BY <1>1, NothingDone
<1>2. CASE x.priv /\ x.at # "none" /\ o \in Ends({x}, "ok", "clean")
  <2>1. o.to = x /\ o.code = "ok" /\ o.how = "clean"
    BY <1>2, InEnds
  <2> QED BY <1>2, <2>1, SoundSame DEF Codes, Hows
<1>3. CASE x.priv /\ x.at = "none" /\ o \in Interrupted(HalfRemoved(x))
  <2>1. o.to \in HalfRemoved(x) /\ o.code \in {"err", "none"} /\ o.how \in {"fault", "killed"}
    BY <1>3, InInterrupted
  <2> QED BY <1>3, <2>1, HalfRemovedSound DEF Sound, Codes, Hows
<1>4. CASE x.priv /\ x.at = "none" /\ o \in Ends({[x EXCEPT !.cipher = {}, !.priv = FALSE]}, "err", "clean")
  <2>1. o.to = [x EXCEPT !.cipher = {}, !.priv = FALSE] /\ o.code = "err" /\ o.how = "clean"
    BY <1>4, InEnds
  <2>2. o.to \in HalfRemoved(x)
    BY <2>1 DEF HalfRemoved
  <2> QED BY <1>4, <2>1, <2>2, HalfRemovedSound DEF Sound, Codes, Hows
<1>5. CASE x.priv /\ x.at = "none" /\ o \in Ends({Removed(x)}, "ok", "clean")
  <2>1. o.to = Removed(x) /\ o.code = "ok" /\ o.how = "clean"
    BY <1>5, InEnds
  <2> QED BY <1>5, <2>1, RemovedIs DEF Sound, Codes, Hows
<1> QED BY <1>1, <1>2, <1>3, <1>4, <1>5 DEF Remove

LEMMA HalfRecoveredSound ==
  ASSUME NEW x \in Storage, NEW y \in HalfRecovered(x), x.at = "none", x.priv = TRUE
  PROVE  /\ y \in Storage /\ (y.at # "none" => y.priv)
         /\ ~y.priv => x.clear \cup x.cipher \subseteq y.clear
         /\ HasHeader(x) => x.cipher \subseteq Reach(y)
<1>1. /\ Gathered(x) \in Storage /\ Gathered(x).at = x.at
      /\ Gathered(x).clear = x.clear \cup x.cipher
  BY DEF Storage, Gathered
<1>2. CASE y \in HalfRemoved(Gathered(x))
  <2>1. y \in Storage /\ y.at = x.at /\ y.clear = x.clear \cup x.cipher
    BY <1>1, <1>2, HalfRemovedSound
  <2> QED BY <2>1 DEF Reach
<1>3. ASSUME NEW m \in {"none", "R"}, y \in Restored(x, m)
      PROVE  y \in Storage /\ y.priv = TRUE /\ (HasHeader(x) => x.cipher \subseteq Reach(y))
  <2>1. PICK C \in SUBSET (x.clear \cup x.cipher) :
            y = [x EXCEPT !.clear = C, !.rec = TRUE, !.at = m]
    BY <1>3 DEF Restored
  <2>2. y \in Storage /\ y.priv = TRUE /\ y.stat = x.stat /\ y.cipher = x.cipher
    BY <2>1 DEF Storage
  <2> QED BY <2>2 DEF Reach, HasHeader
<1> QED BY <1>2, <1>3 DEF HalfRecovered

LEMMA RecoverSound ==
  ASSUME NEW x \in Storage, NEW pw \in Keys, NEW D, NEW o \in Recover(x, pw)
  PROVE  /\ Sound(x, o.to, D, "recover") /\ o.code \in Codes /\ o.how \in Hows
         /\ o.how = "clean" /\ o.code # "err" =>
               /\ x.priv /\ x.at = "none" /\ ~x.rec
               /\ o.to = Removed(Gathered(x))
<1> DEFINE ok == x.priv /\ x.at = "none" /\ ~x.rec
           all == Gathered(x)
           y == o.to
           Fine == /\ y \in Storage /\ (y.at # "none" => y.priv)
                   /\ ~y.priv => x.clear \cup x.cipher \subseteq y.clear
                   /\ HasHeader(x) => x.cipher \subseteq Reach(y)
<1>0. all \in Storage /\ all.at = x.at /\ all.clear = x.clear \cup x.cipher
  BY DEF Storage, Gathered
<1>1. CASE o \in Interrupted({x}) \/ o \in Ends({x}, "err", "clean")
  BY <1>1, NothingDone
<1>2. CASE ok /\ o \in Interrupted({[x EXCEPT !.rec = TRUE]})
  <2>1. y = [x EXCEPT !.rec = TRUE] /\ o.code \in {"err", "none"} /\ o.how \in {"fault", "killed"}
    <3> DEFINE z == [x EXCEPT !.rec = TRUE]
    <3> HIDE DEF z
    <3>1. o \in Interrupted({z})
      BY <1>2 DEF z
    <3>2. y = z /\ o.code \in {"err", "none"} /\ o.how \in {"fault", "killed"}
      BY <3>1, InInterrupted
    <3> QED BY <3>2 DEF z
  <2>2. Fine
    <3>1. /\ y \in Storage /\ y.priv /\ y.stat = x.stat /\ y.cipher = x.cipher
      BY <1>2, <2>1 DEF Storage
    <3> QED BY <3>1 DEF Reach, HasHeader
  <2> QED BY <1>2, <2>1, <2>2 DEF Sound, Codes, Hows
<1>3. CASE ok /\ o \in Interrupted(HalfRecovered(x))
  <2>1. y \in HalfRecovered(x) /\ o.code \in {"err", "none"} /\ o.how \in {"fault", "killed"}
    BY <1>3, InInterrupted
  <2>4. Fine
    BY <1>3, <2>1, HalfRecoveredSound
  <2> QED BY <1>3, <2>1, <2>4 DEF Sound, Codes, Hows
<1>4. CASE ok /\ o \in Ends({[x EXCEPT !.clear = {}, !.rec = TRUE]}, "err", "clean")
  <2>1. y = [x EXCEPT !.clear = {}, !.rec = TRUE] /\ o.code = "err" /\ o.how = "clean"
    BY <1>4, InEnds
  <2>2. Fine
    <3>1. /\ y \in Storage /\ y.priv /\ y.stat = x.stat /\ y.cipher = x.cipher
      BY <1>4, <2>1 DEF Storage
    <3> QED BY <3>1 DEF Reach, HasHeader
  <2> QED BY <1>4, <2>1, <2>2 DEF Sound, Codes, Hows
<1>5. CASE ok /\ o \in Ends({Removed(all)}, "ok", "clean")
  <2> HIDE DEF all
  <2>1. y = Removed(all) /\ o.code = "ok" /\ o.how = "clean"
    BY <1>5, InEnds
  <2>2. Fine
    BY <1>0, <1>5, <2>1, RemovedIs DEF Reach
  <2> QED BY <1>5, <2>1, <2>2 DEF Sound, Codes, Hows, all
<1> QED BY <1>1, <1>2, <1>3, <1>4, <1>5 DEF Recover

-----------------------------------------------------------------------------
(* The programs, row by row.                                                 *)

DoAt(n) == Program[n].do
OnAt(n) == Program[n].on
Size    == Len(Program)
Is(n, step, s) == DoAt(n) = step /\ OnAt(n) = s

LEMMA EncryptRows ==
  ASSUME call.op = "encrypt"
  PROVE  /\ ~Primary => /\ Size = 10 /\ Is(1, "stop", "data")
                        /\ Is(2, "create", "data") /\ Is(3, "create", "media")
                        /\ Is(4, "find", "data") /\ Is(5, "wipe", "data") /\ Is(6, "unlock", "data")
                        /\ Is(7, "probe", "media") /\ Is(8, "wipe", "media")
                        /\ Is(9, "unlock", "media") /\ Is(10, "start", "data")
         /\ Primary => /\ Size = 4 /\ Is(1, "measure", "data")
                       /\ Is(2, "create", "data") /\ Is(3, "create", "media")
                       /\ Is(4, "reboot", "data")
BY DEF Program, UnlockBoth, On, Do, Is, DoAt, OnAt, Size

LEMMA UnlockRows ==
  ASSUME call.op = "unlock", ~Primary
  PROVE  /\ Size = 6
         /\ Is(1, "find", "data") /\ Is(2, "wipe", "data") /\ Is(3, "unlock", "data")
         /\ Is(4, "probe", "media") /\ Is(5, "wipe", "media") /\ Is(6, "unlock", "media")
BY DEF Program, UnlockBoth, On, Do, Is, DoAt, OnAt, Size

LEMMA BootRows ==
  ASSUME call.op = "unlock_init", ~Primary
  PROVE  /\ Size = 8 /\ Is(1, "stop", "data")
         /\ Is(2, "find", "data") /\ Is(3, "wipe", "data") /\ Is(4, "unlock", "data")
         /\ Is(5, "probe", "media") /\ Is(6, "wipe", "media") /\ Is(7, "unlock", "media")
         /\ Is(8, "start", "data")
BY DEF Program, UnlockBoth, On, Do, Is, DoAt, OnAt, Size

LEMMA PrimaryRows ==
  ASSUME call.op \in {"unlock", "unlock_init"}, Primary
  PROVE  /\ Size = 9 /\ Is(1, "check", "data") /\ Is(2, "stop", "data")
         /\ Is(3, "find", "data") /\ Is(4, "wipe", "data") /\ Is(5, "unlock", "data")
         /\ Is(6, "probe", "media") /\ Is(7, "wipe", "media") /\ Is(8, "unlock", "media")
         /\ Is(9, "start", "data")
BY DEF Program, UnlockBoth, On, Do, Is, DoAt, OnAt, Size

LEMMA DecryptRows ==
  ASSUME call.op = "decrypt"
  PROVE  /\ ~Primary => /\ Size = 6 /\ Is(1, "stop", "data")
                        /\ Is(2, "lock", "data") /\ Is(3, "recover", "data")
                        /\ Is(4, "lock", "media") /\ Is(5, "recover", "media")
                        /\ Is(6, "start", "data")
         /\ Primary => /\ Size = 5 /\ Is(1, "lock", "data") /\ Is(2, "lock", "media")
                       /\ Is(3, "recover", "data") /\ Is(4, "recover", "media")
                       /\ Is(5, "reboot", "data")
BY DEF Program, On, Do, Is, DoAt, OnAt, Size

LEMMA ShortRows ==
  ASSUME call.op \in {"lock", "change", "remove", "status"}
  PROVE  /\ Size = 2
         /\ OnAt(1) = "data" /\ OnAt(2) = "media" /\ DoAt(2) = call.op
         /\ DoAt(1) = IF call.op = "lock" /\ Primary THEN "miss" ELSE call.op
BY DEF Program, On, Do, DoAt, OnAt, Size

\* The step the call is at, and the one after it.
Now(step, s)  == Is(pc, step, s)
Then(step, s) == pc < Size /\ Is(pc + 1, step, s)
Last          == pc = Size
Opening       == call.op \in {"encrypt", "unlock", "unlock_init"}

\* Which step follows which, and in which calls.
OpeningOrder ==
  /\ DoAt(pc) = "stop" =>
       /\ call.op = "encrypt" => ~Primary /\ Then("create", "data")
       /\ call.op \in {"unlock", "unlock_init"} => Then("find", "data")
       /\ call.op = "decrypt" => ~Primary /\ Then("lock", "data")
       /\ Opening \/ call.op = "decrypt"
       /\ call.op = "unlock" => Primary
  /\ DoAt(pc) = "measure" => call.op = "encrypt" /\ Primary /\ Then("create", "data")
  /\ DoAt(pc) = "check" => Opening /\ call.op # "encrypt" /\ Primary /\ Then("stop", "data")
  /\ Now("create", "data") => call.op = "encrypt" /\ Then("create", "media")
  /\ Now("create", "media") =>
       call.op = "encrypt" /\ IF Primary THEN Then("reboot", "data") ELSE Then("find", "data")
  /\ DoAt(pc) = "find" =>
       Now("find", "data") /\ Opening /\ (call.op = "encrypt" => ~Primary) /\ Then("wipe", "data")
  /\ Now("wipe", "data") => Opening /\ Then("unlock", "data")
  /\ Now("unlock", "data") => Opening /\ Then("probe", "media")
  /\ DoAt(pc) = "probe" => Now("probe", "media") /\ Opening /\ Then("wipe", "media")
  /\ Now("wipe", "media") => Opening /\ Then("unlock", "media")
  /\ Now("unlock", "media") =>
       Opening /\ IF call.op = "unlock" /\ ~Primary THEN Last ELSE Then("start", "data")
  /\ DoAt(pc) = "start" =>
       Last /\ (Opening \/ call.op = "decrypt") /\ (call.op \in {"encrypt", "decrypt"} => ~Primary)
  /\ DoAt(pc) = "reboot" => Last /\ Primary /\ call.op \in {"encrypt", "decrypt"}
OtherOrder ==
  /\ Now("lock", "data") =>
       \/ call.op = "decrypt" /\ ~Primary /\ Then("recover", "data")
       \/ call.op = "decrypt" /\ Primary /\ Then("lock", "media")
       \/ call.op = "lock" /\ ~Primary /\ Then("lock", "media")
  /\ Now("lock", "media") =>
       \/ call.op = "decrypt" /\ ~Primary /\ Then("recover", "media")
       \/ call.op = "decrypt" /\ Primary /\ Then("recover", "data")
       \/ call.op = "lock" /\ Last
  /\ Now("recover", "data") =>
       call.op = "decrypt" /\ IF Primary THEN Then("recover", "media") ELSE Then("lock", "media")
  /\ Now("recover", "media") =>
       call.op = "decrypt" /\ IF Primary THEN Then("reboot", "data") ELSE Then("start", "data")
  /\ DoAt(pc) = "miss" => call.op = "lock" /\ Primary /\ Then("lock", "media")
  /\ call.op = "lock" => DoAt(pc) \in {"lock", "miss"}
  /\ \A op \in {"change", "remove", "status"} :
       /\ Now(op, "data")  => call.op = op /\ Then(op, "media")
       /\ Now(op, "media") => call.op = op /\ Last
StepNames == EfsOps \cup {"stop", "measure", "check", "find", "wipe", "probe", "start",
                          "reboot", "miss", "status"}

LEMMA Order ==
  ASSUME call.op \in UserCalls, pc \in Nat, pc # 0, pc <= Size
  PROVE  /\ OpeningOrder /\ OtherOrder
         /\ Size \in 1..10
         /\ DoAt(pc) \in StepNames /\ OnAt(pc) \in Places
         /\ call.op = "encrypt" /\ ~Primary => Is(Size, "start", "data")
<1> USE DEF OpeningOrder, OtherOrder, Now, Then, Is, Last, Opening, StepNames, EfsOps, Places
<1>1. CASE call.op = "encrypt" /\ ~Primary
  <2>1. pc \in 1..10
    BY <1>1, EncryptRows
  <2> QED BY <1>1, <2>1, EncryptRows
<1>2. CASE call.op = "encrypt" /\ Primary
  <2>1. pc \in 1..4
    BY <1>2, EncryptRows
  <2> QED BY <1>2, <2>1, EncryptRows
<1>3. CASE call.op = "unlock" /\ ~Primary
  <2>1. pc \in 1..6
    BY <1>3, UnlockRows
  <2> QED BY <1>3, <2>1, UnlockRows
<1>4. CASE call.op = "unlock_init" /\ ~Primary
  <2>1. pc \in 1..8
    BY <1>4, BootRows
  <2> QED BY <1>4, <2>1, BootRows
<1>5. CASE call.op \in {"unlock", "unlock_init"} /\ Primary
  <2>1. pc \in 1..9
    BY <1>5, PrimaryRows
  <2> QED BY <1>5, <2>1, PrimaryRows
<1>6. CASE call.op = "decrypt"
  <2>1. CASE Primary
    <3>1. pc \in 1..5
      BY <1>6, <2>1, DecryptRows
    <3> QED BY <1>6, <2>1, <3>1, DecryptRows
  <2>2. CASE ~Primary
    <3>1. pc \in 1..6
      BY <1>6, <2>2, DecryptRows
    <3> QED BY <1>6, <2>2, <3>1, DecryptRows
  <2> QED BY <2>1, <2>2
<1>7. CASE call.op \in {"lock", "change", "remove", "status"}
  <2>1. pc \in 1..2
    BY <1>7, ShortRows
  <2> QED BY <1>7, <2>1, ShortRows
<1> QED BY <1>1, <1>2, <1>3, <1>4, <1>5, <1>6, <1>7 DEF UserCalls

-----------------------------------------------------------------------------
(* A call of the storage API, seen from its step.                            *)

Alike(x, y) == /\ y.clear = x.clear /\ y.cipher = x.cipher /\ y.priv = x.priv
               /\ y.stat = x.stat /\ y.rec = x.rec
Cleared(x)  == ~x.priv /\ x.cipher = {} /\ x.stat = "absent" /\ x.pass = NoPassword /\ x.at = "none"

\* The call op took x to y and returned no error, no system call having failed.
Worked(op, x, y, pw, new) ==
  /\ op = "create" =>
       /\ ~x.priv /\ y.priv /\ y.stat = "completed" /\ y.pass = pw
       /\ y.clear = {} /\ y.cipher = x.clear /\ y.at = x.at /\ y.rec = x.rec
  /\ op = "unlock" =>
       /\ HasHeader(x) /\ Alike(x, y) /\ y.pass = x.pass
       /\ \/ (x.stat = "not_started" \/ x.at # "none") /\ y.at = x.at
          \/ x.at = "none" /\ x.priv /\ y.at = "S"
  /\ op = "lock" => Alike(x, y) /\ y.pass = x.pass /\ y.at = IF x.at = "S" THEN "none" ELSE x.at
  /\ op = "change" => Alike(x, y) /\ y.pass = new /\ y.at = x.at
  /\ op = "remove" => /\ x.priv
                      /\ \/ x.at # "none" /\ y = x
                         \/ x.at = "none" /\ Cleared(y) /\ y.clear = x.clear /\ y.rec = x.rec
  /\ op = "recover" => /\ x.priv /\ x.at = "none" /\ ~x.rec /\ Cleared(y) /\ ~y.rec
                       /\ y.clear = x.clear \cup x.cipher

LEMMA CallSound ==
  ASSUME NEW x \in Storage, NEW op \in EfsOps, NEW pw \in Keys, NEW new \in Keys, NEW D,
         NEW o \in Outcomes(x, [op |-> op, pw |-> pw, new |-> new])
  PROVE  /\ Sound(x, o.to, D, op) /\ o.code \in Codes /\ o.how \in Hows
         /\ o.how = "clean" /\ o.code # "err" => Worked(op, x, o.to, pw, new)
         /\ op = "lock" => o.to = x \/ Worked(op, x, o.to, pw, new)
<1>1. CASE op = "create"
  <2>1. o \in Create(x, pw)
    BY <1>1 DEF Outcomes
  <2>2. o.to = Created(x, pw) /\ ~x.priv => Worked(op, x, o.to, pw, new)
    BY <1>1 DEF Worked, Created, Storage
  <2> QED BY <1>1, <2>1, <2>2, CreateSound
<1>2. CASE op = "unlock"
  <2>1. o \in Unlock(x, pw)
    BY <1>2 DEF Outcomes
  <2>2. /\ HasHeader(x)
        /\ \/ (x.stat = "not_started" \/ x.at # "none") /\ o.to = x
           \/ x.at = "none" /\ x.priv /\ o.to = [x EXCEPT !.at = "S"]
        => Worked(op, x, o.to, pw, new)
    BY <1>2 DEF Worked, Alike, Storage
  <2> QED BY <1>2, <2>1, <2>2, UnlockSound
<1>3. CASE op = "lock"
  <2>1. o \in Lock(x)
    BY <1>3 DEF Outcomes
  <2>2. o.to = Locked(x) => Worked(op, x, o.to, pw, new)
    BY <1>3 DEF Worked, Alike, Locked, Storage
  <2> QED BY <1>3, <2>1, <2>2, LockSound
<1>4. CASE op = "change"
  <2>1. o \in Change(x, pw, new)
    BY <1>4 DEF Outcomes
  <2>2. o.to = [x EXCEPT !.pass = new] => Worked(op, x, o.to, pw, new)
    BY <1>4 DEF Worked, Alike, Storage
  <2> QED BY <1>4, <2>1, <2>2, ChangeSound
<1>5. CASE op = "remove"
  <2>1. o \in Remove(x)
    BY <1>5 DEF Outcomes
  <2>2. x.priv /\ ((x.at # "none" /\ o.to = x) \/ (x.at = "none" /\ o.to = Removed(x)))
        => Worked(op, x, o.to, pw, new)
    BY <1>5, RemovedIs DEF Worked, Cleared
  <2> QED BY <1>5, <2>1, <2>2, RemoveSound
<1>6. CASE op = "recover"
  <2>1. o \in Recover(x, pw)
    BY <1>6 DEF Outcomes
  <2>2. /\ Gathered(x) \in Storage /\ Gathered(x).at = x.at /\ Gathered(x).rec = x.rec
        /\ Gathered(x).clear = x.clear \cup x.cipher
    BY DEF Gathered, Storage
  <2>3. x.priv /\ x.at = "none" /\ ~x.rec /\ o.to = Removed(Gathered(x))
        => Worked(op, x, o.to, pw, new)
    BY <1>6, <2>2, RemovedIs DEF Worked, Cleared
  <2> QED BY <1>6, <2>1, <2>3, RecoverSound
<1> QED BY <1>1, <1>2, <1>3, <1>4, <1>5, <1>6 DEF EfsOps

LEMMA Left ==
  ASSUME st \in [Places -> Storage], NEW s \in Places, NEW y \in Storage, Leave(s, y)
  PROVE  /\ st' \in [Places -> Storage] /\ st'[s] = y
         /\ \A t \in Places : /\ st'[t].rec = y.rec
                              /\ t # s => /\ st'[t].clear = st[t].clear /\ st'[t].cipher = st[t].cipher
                                          /\ st'[t].priv = st[t].priv /\ st'[t].stat = st[t].stat
                                          /\ st'[t].pass = st[t].pass /\ st'[t].at = st[t].at
                              /\ t # s /\ st[t].rec = y.rec => st'[t] = st[t]
<1>1. \A t \in Places : [st[t] EXCEPT !.rec = y.rec] \in Storage
  BY DEF Storage
<1>2. \A t \in Places : st'[t] = IF t = s THEN y ELSE [st[t] EXCEPT !.rec = y.rec]
  BY DEF Leave
<1>3. st' \in [Places -> Storage]
  BY <1>1 DEF Leave
<1>4. \A t \in Places : t # s => st'[t] = [st[t] EXCEPT !.rec = y.rec] /\ st[t] \in Storage
  BY <1>2
<1>5. st'[s] = y
  BY <1>2
<1>6. ASSUME NEW t \in Places, t # s
      PROVE  /\ st'[t].rec = y.rec
             /\ st'[t].clear = st[t].clear /\ st'[t].cipher = st[t].cipher
             /\ st'[t].priv = st[t].priv /\ st'[t].stat = st[t].stat
             /\ st'[t].pass = st[t].pass /\ st'[t].at = st[t].at
  BY <1>4, <1>6 DEF Storage
<1>7. ASSUME NEW t \in Places, t # s, st[t].rec = y.rec PROVE st'[t] = st[t]
  <2>1. [st[t] EXCEPT !.rec = y.rec] = st[t]
    BY <1>7, <1>4 DEF Storage
  <2> QED BY <1>4, <1>7, <2>1
<1> QED BY <1>3, <1>5, <1>6, <1>7

LEMMA ProgramSame ==
  ASSUME UNCHANGED <<user, call>>
  PROVE  Program' = Program
BY Zenon DEF Program, Primary

-----------------------------------------------------------------------------
(* The types, and that what is mounted has a private directory.              *)

Rets == {"none", "ok", "err", "not_started", "completed"}
CallerOK == /\ pc \in 0..10 /\ pc <= Size /\ call \in UserArgs \cup {NoCall}
            /\ got \in {"absent", "not_started", "completed"} /\ ret \in Rets
            /\ pc # 0 => call \in UserArgs
Stores == st \in [Places -> Storage] /\ \A s \in Places : st[s].at # "none" => st[s].priv
Types == /\ user \in Users /\ Stores /\ framework \in BOOLEAN /\ prompt \in BOOLEAN
         /\ bootPass \in Keys /\ CallerOK
         /\ data \in [Places -> SUBSET Items] /\ troubled \in BOOLEAN
         /\ mishaps \in 0..MaxMishaps /\ reboots \in 0..MaxReboots

LEMMA CallArgs ==
  ASSUME call \in UserArgs
  PROVE  call.op \in UserCalls /\ call.pw \in Keys /\ call.new \in Keys
BY UserAssumption DEF UserArgs, UserCalls, Keys

LEMMA AtStep ==
  ASSUME Types, pc # 0
  PROVE  /\ call.op \in UserCalls /\ call.pw \in Keys /\ call.new \in Keys
         /\ pc \in Nat /\ pc <= Size /\ OpeningOrder /\ OtherOrder
         /\ Size \in 1..10 /\ DoAt(pc) \in StepNames /\ OnAt(pc) \in Places
         /\ call.op = "encrypt" /\ ~Primary => Is(Size, "start", "data")
         /\ st[OnAt(pc)] \in Storage /\ st["data"] \in Storage /\ st["media"] \in Storage
<1>1. pc \in Nat /\ pc <= Size /\ call \in UserArgs
  BY DEF Types, CallerOK
<1>2. call.op \in UserCalls /\ call.pw \in Keys /\ call.new \in Keys
  BY <1>1, CallArgs
<1>3. /\ OpeningOrder /\ OtherOrder
      /\ Size \in 1..10 /\ DoAt(pc) \in StepNames /\ OnAt(pc) \in Places
      /\ call.op = "encrypt" /\ ~Primary => Is(Size, "start", "data")
  BY <1>1, <1>2, Order
<1>4. \A s \in Places : st[s] \in Storage
  BY DEF Types, Stores
<1> QED BY <1>1, <1>2, <1>3, <1>4 DEF Places

Moves == \/ Proceed \/ SkipUnlock \/ UNCHANGED caller
         \/ \E code \in Rets : Return(code)
         \/ /\ pc' = pc + 1 /\ pc # Size /\ UNCHANGED <<call, ret>>
            /\ got' \in {"absent", "not_started", "completed"}

\* Every step of a call ends it, goes on, or stays where it is.
LEMMA CallerMoves ==
  ASSUME Types, pc # 0, UNCHANGED user,
         Moves
  PROVE  CallerOK' /\ call' = call
<1>1. /\ pc \in Nat /\ Size \in 1..10 /\ pc <= Size /\ call \in UserArgs
      /\ got \in {"absent", "not_started", "completed"} /\ ret \in Rets
  BY AtStep DEF Types, CallerOK
<1>2. call' = call
  BY DEF Moves, Proceed, SkipUnlock, Return, GoTo, caller
<1>3. Size' = Size
  BY <1>2, ProgramSame DEF Size
<1>4. /\ pc' \in Nat /\ pc' <= Size
      /\ got' \in {"absent", "not_started", "completed"} /\ ret' \in Rets
  BY <1>1 DEF Moves, Proceed, SkipUnlock, Return, GoTo, caller, Size, Rets
<1> QED BY <1>1, <1>2, <1>3, <1>4 DEF CallerOK

LEMMA TypesInit == Init => Types
<1> SUFFICES ASSUME Init PROVE Types
  OBVIOUS
<1>1. InTheClear(InitialItems) \in Storage /\ InTheClear(InitialItems).at = "none"
  BY UserAssumption DEF InTheClear, Storage
<1>2. Stores
  BY <1>1 DEF Init, Stores
<1>3. Size = 0
  BY DEF Init, Program, NoCall, Size
<1>4. CallerOK
  BY <1>3 DEF Init, CallerOK, Rets
<1>5. data \in [Places -> SUBSET Items]
  BY UserAssumption DEF Init
<1>6. /\ user \in Users /\ framework = TRUE /\ prompt = FALSE /\ bootPass = NoPassword
      /\ troubled = FALSE /\ mishaps = 0 /\ reboots = 0
  BY DEF Init
<1>7. mishaps \in 0..MaxMishaps /\ reboots \in 0..MaxReboots
  BY <1>6, UserAssumption
<1> HIDE DEF Init
<1> QED BY Zenon, <1>2, <1>4, <1>5, <1>6, <1>7 DEF Types, Keys

LEMMA Lengths == call.op \in UserCalls => Size \in 1..10
<1> SUFFICES ASSUME call.op \in UserCalls PROVE Size \in 1..10
  OBVIOUS
<1>1. CASE call.op = "encrypt"
  BY <1>1, EncryptRows
<1>2. CASE call.op \in {"unlock", "unlock_init"}
  BY <1>2, UnlockRows, BootRows, PrimaryRows
<1>3. CASE call.op = "decrypt"
  BY <1>3, DecryptRows
<1>4. CASE call.op \in {"lock", "change", "remove", "status"}
  BY <1>4, ShortRows
<1> QED BY <1>1, <1>2, <1>3, <1>4 DEF UserCalls

LEMMA StartTypes ==
  ASSUME Types, NEW c \in UserArgs, Start(c)
  PROVE  Types'
<1>1. call' = c /\ c.op \in UserCalls
  BY UserAssumption DEF Start, UserArgs, UserCalls
<1>2. Size' \in 1..10
  <2>1. (call.op \in UserCalls => Size \in 1..10)'
    BY Lengths, PTL
  <2> QED BY <1>1, <2>1
<1>3. pc' = 1 /\ ret' = "none" /\ got' = got /\ UNCHANGED <<user, st, framework, boot, data, budget>>
  BY DEF Start
<1>4. CallerOK'
  BY <1>1, <1>2, <1>3 DEF CallerOK, Rets, Types
<1>5. troubled' \in BOOLEAN
  BY DEF Start, Judge, Types
<1> QED BY <1>3, <1>4, <1>5 DEF Types, Stores, boot, budget

\* A lock that failed, before its unmount or after it, is tried again.
Again(x, y, op) ==
  /\ UNCHANGED caller /\ call.op = "lock" /\ op = "lock"
  /\ y = x \/ Worked(op, x, y, call.pw, call.new)

\* What a step of the storage API does, when it leaves y in its storage.
Ran(y) ==
  LET x == st[OnAt(pc)]
      op == DoAt(pc)
  IN /\ op \in EfsOps /\ Leave(OnAt(pc), y)
     /\ \A D : Sound(x, y, D, op)
     /\ \/ Proceed /\ Worked(op, x, y, call.pw, call.new)
        \/ Return("err") \/ Return("none")
        \/ Again(x, y, op)
     /\ data' = IF op = "remove" /\ x.priv /\ x.at = "none"
                THEN [data EXCEPT ![OnAt(pc)] = {}] ELSE data
     /\ UNCHANGED <<user, framework, boot, reboots>> /\ Judge
     /\ mishaps' \in 0..MaxMishaps

LEMMA MishapBound ==
  ASSUME mishaps \in 0..MaxMishaps, Mishap \/ UNCHANGED mishaps
  PROVE  mishaps' \in 0..MaxMishaps
BY UserAssumption DEF Mishap

LEMMA EfsCallRan ==
  ASSUME Types, EfsCall
  PROVE  pc # 0 /\ \E y \in Storage : Ran(y)
<1> DEFINE s == OnAt(pc)
           op == DoAt(pc)
           x == st[s]
<1>1. pc # 0 /\ op \in EfsOps
  BY DEF EfsCall, DoAt
<1>2. PICK o \in Outcomes(x, [op |-> op, pw |-> call.pw, new |-> call.new]) :
          /\ Leave(s, o.to)
          /\ \/ /\ o.how = "clean" /\ UNCHANGED mishaps
                /\ IF o.code = "err" THEN Return("err") ELSE Proceed
             \/ o.how = "fault" /\ Fails
             \/ o.how = "fault" /\ call.op = "lock" /\ Mishap /\ UNCHANGED caller
             \/ o.how = "killed" /\ Dies
  BY DEF EfsCall, DoAt, OnAt, Place
<1>3. /\ call.pw \in Keys /\ call.new \in Keys
      /\ x \in Storage /\ OtherOrder /\ s \in Places
  BY <1>1, AtStep
<1>4. call.op = "lock" => op = "lock"
  BY <1>1, <1>3 DEF OtherOrder, EfsOps
<1>5. /\ \A D : Sound(x, o.to, D, op)
      /\ o.how = "clean" /\ o.code # "err" => Worked(op, x, o.to, call.pw, call.new)
      /\ op = "lock" => o.to = x \/ Worked(op, x, o.to, call.pw, call.new)
  <2> HIDE DEF op, x
  <2> QED BY <1>1, <1>2, <1>3, CallSound
<1>6. o.to \in Storage
  BY <1>5 DEF Sound
<1>7. \/ Proceed /\ Worked(op, x, o.to, call.pw, call.new)
      \/ Return("err") \/ Return("none")
      \/ Again(x, o.to, op)
  BY <1>2, <1>4, <1>5 DEF Fails, Dies, Again
<1>8. mishaps' \in 0..MaxMishaps
  BY <1>2, MishapBound DEF Types, Fails, Dies
<1>9. /\ data' = IF op = "remove" /\ x.priv /\ x.at = "none"
                 THEN [data EXCEPT ![s] = {}] ELSE data
      /\ UNCHANGED <<user, framework, boot, reboots>> /\ Judge
  BY <1>1 DEF EfsCall, Here, DoAt, OnAt, Place
<1>10. Ran(o.to)
  BY <1>1, <1>2, <1>5, <1>7, <1>8, <1>9 DEF Ran
<1> QED BY <1>1, <1>6, <1>10

LEMMA TypesKept ==
  ASSUME Types, Judge, UNCHANGED user, Stores', CallerOK',
         framework' \in BOOLEAN, prompt' \in BOOLEAN, bootPass' \in Keys,
         data' \in [Places -> SUBSET Items],
         mishaps' \in 0..MaxMishaps, reboots' \in 0..MaxReboots
  PROVE  Types'
<1>1. troubled' \in BOOLEAN
  BY DEF Judge, Types
<1> QED BY <1>1 DEF Types

LEMMA StoresKept ==
  ASSUME Types, NEW s \in Places, NEW y \in Storage, Leave(s, y),
         y.at # "none" => y.priv
  PROVE  Stores'
<1>1. /\ st' \in [Places -> Storage] /\ st'[s] = y
      /\ \A t \in Places : t # s => st'[t].priv = st[t].priv /\ st'[t].at = st[t].at
  BY Left DEF Types, Stores
<1> QED BY <1>1 DEF Stores, Types

LEMMA EfsCallTypes ==
  ASSUME Types, EfsCall
  PROVE  Types'
<1>1. PICK y \in Storage : Ran(y)
  BY EfsCallRan
<1>2. pc # 0 /\ OnAt(pc) \in Places /\ st[OnAt(pc)] \in Storage
  BY EfsCallRan, AtStep
<1>3. Stores'
  <2>1. Leave(OnAt(pc), y) /\ Sound(st[OnAt(pc)], y, {}, DoAt(pc))
    BY <1>1 DEF Ran
  <2>2. st[OnAt(pc)].at # "none" => st[OnAt(pc)].priv
    BY <1>2 DEF Types, Stores
  <2>3. y.at # "none" => y.priv
    BY <2>1, <2>2 DEF Sound
  <2> QED BY <1>2, <2>1, <2>3, StoresKept
<1>4. Moves /\ UNCHANGED user
  BY <1>1 DEF Ran, Again, Moves, Rets
<1>5. CallerOK'
  BY <1>2, <1>4, CallerMoves
<1>6. data' \in [Places -> SUBSET Items]
  BY <1>1, <1>2 DEF Ran, Types
<1>7. /\ UNCHANGED <<framework, boot, reboots>> /\ Judge
      /\ mishaps' \in 0..MaxMishaps
  BY <1>1 DEF Ran
<1> QED BY <1>3, <1>4, <1>5, <1>6, <1>7, TypesKept DEF Types, boot

LEMMA WipeRan ==
  ASSUME Types, Wipe
  PROVE  /\ pc # 0 /\ DoAt(pc) = "wipe" /\ UNCHANGED <<user, framework, boot, data, reboots>>
         /\ Judge /\ mishaps' \in 0..MaxMishaps
         /\ \E y \in Storage :
              /\ Leave(OnAt(pc), y) /\ y.clear \subseteq st[OnAt(pc)].clear
              /\ y.at = st[OnAt(pc)].at /\ y.priv = st[OnAt(pc)].priv
              /\ y.cipher = st[OnAt(pc)].cipher /\ y.stat = st[OnAt(pc)].stat
              /\ y.pass = st[OnAt(pc)].pass /\ y.rec = st[OnAt(pc)].rec
              /\ \/ y.clear = {} /\ Proceed
                 \/ Return("err") \/ Return("none")
<1>1. /\ pc # 0 /\ DoAt(pc) = "wipe" /\ UNCHANGED <<user, framework, boot, data, reboots>> /\ Judge
  BY DEF Wipe, Here, DoAt
<1>2. PICK C \in SUBSET st[OnAt(pc)].clear :
         /\ Leave(OnAt(pc), [st[OnAt(pc)] EXCEPT !.clear = C])
         /\ (C = {} /\ Proceed /\ UNCHANGED mishaps) \/ Fails \/ Dies
  BY DEF Wipe, OnAt, Place
<1>3. mishaps' \in 0..MaxMishaps
  BY <1>2, MishapBound DEF Types, Fails, Dies
<1> DEFINE x == st[OnAt(pc)]
           y == [x EXCEPT !.clear = C]
<1>4. x \in Storage
  BY <1>1, AtStep
<1>5. y \in Storage /\ y.clear = C /\ y.at = x.at /\ y.priv = x.priv /\ y.cipher = x.cipher
      /\ y.stat = x.stat /\ y.pass = x.pass /\ y.rec = x.rec
  BY <1>2, <1>4 DEF Storage
<1>6. Leave(OnAt(pc), y) /\ ((y.clear = {} /\ Proceed) \/ Return("err") \/ Return("none"))
  BY <1>2, <1>5 DEF Fails, Dies
<1> HIDE DEF y
<1> QED BY <1>1, <1>2, <1>3, <1>5, <1>6

LEMMA WipeTypes ==
  ASSUME Types, Wipe
  PROVE  Types'
<1>1. pc # 0 /\ UNCHANGED <<user, framework, boot, data, reboots>> /\ Judge
      /\ mishaps' \in 0..MaxMishaps
  BY WipeRan
<1>2. PICK y \in Storage : /\ Leave(OnAt(pc), y)
                           /\ y.at = st[OnAt(pc)].at /\ y.priv = st[OnAt(pc)].priv
                           /\ Proceed \/ Return("err") \/ Return("none")
  BY WipeRan
<1>3. OnAt(pc) \in Places
  BY <1>1, AtStep
<1>4. y.at # "none" => y.priv
  BY <1>2, <1>3 DEF Types, Stores
<1>5. Stores'
  BY <1>2, <1>3, <1>4, StoresKept
<1>6. Moves
  BY <1>2 DEF Moves, Rets
<1>7. CallerOK'
  BY <1>1, <1>6, CallerMoves
<1> QED BY <1>1, <1>5, <1>7, TypesKept DEF Types, boot

Quiet == \/ LockMiss \/ FindStorage \/ ProbeStorage \/ ReadStatus \/ Measure
         \/ CheckCopy \/ StopFramework \/ StartFramework \/ Kill

LEMMA QuietRan ==
  ASSUME Types, Quiet
  PROVE  /\ pc # 0 /\ UNCHANGED <<user, st, bootPass, data, reboots>> /\ Judge
         /\ framework' \in BOOLEAN /\ prompt' \in BOOLEAN /\ (prompt' => prompt)
         /\ mishaps' \in 0..MaxMishaps /\ Moves
<1>1. framework \in BOOLEAN /\ prompt \in BOOLEAN /\ mishaps \in 0..MaxMishaps
  BY DEF Types
<1>2. \A code \in Rets : Return(code) => Moves
  BY DEF Moves
<1>3. (Proceed \/ SkipUnlock \/ UNCHANGED caller \/ Return("ok") \/ Return("err") \/ Return("none")) => Moves
  BY DEF Moves, Rets
<1>4. CASE LockMiss
  <2>1. /\ pc # 0 /\ UNCHANGED <<user, st, framework, boot, data, reboots>> /\ Judge
        /\ Proceed \/ UNCHANGED caller \/ Return("err")
        /\ Mishap \/ UNCHANGED mishaps
    BY <1>4 DEF LockMiss, Here, Fails
  <2> QED BY <1>1, <1>3, <2>1, MishapBound DEF boot
<1>5. CASE FindStorage \/ ProbeStorage \/ CheckCopy
  <2>1. /\ pc # 0 /\ UNCHANGED <<user, st, framework, boot, data, budget>> /\ Judge
        /\ Proceed \/ SkipUnlock \/ Return("err")
    BY <1>5 DEF FindStorage, ProbeStorage, CheckCopy, Here
  <2> QED BY <1>1, <1>3, <2>1 DEF boot, budget
<1>6. CASE ReadStatus
  <2> DEFINE x == st[OnAt(pc)]
  <2>1. /\ pc # 0 /\ DoAt(pc) = "status" /\ UNCHANGED <<user, st, framework, boot, data, reboots>> /\ Judge
        /\ Mishap \/ UNCHANGED mishaps
        /\ \/ Return("ok")
           \/ /\ HasHeader(x) /\ OnAt(pc) = "data"
              /\ got' = x.stat /\ pc' = pc + 1 /\ UNCHANGED <<call, ret>>
           \/ HasHeader(x) /\ Return(IF x.stat = got THEN got ELSE "err")
    BY <1>6 DEF ReadStatus, Here, DoAt, OnAt, Place, StatusIs
  <2>2. Then("status", "media") \/ OnAt(pc) # "data"
    BY <2>1, AtStep DEF OtherOrder, Now, Is
  <2>3. pc \in Nat /\ Size \in 1..10
    BY <2>1, AtStep
  <2>4. HasHeader(x) => (IF x.stat = got THEN got ELSE "err") \in Rets
    BY DEF HasHeader, Rets
  <2>5. Moves
    <3>1. CASE Return("ok")
      BY <1>3, <3>1
    <3>2. CASE /\ HasHeader(x) /\ OnAt(pc) = "data"
               /\ got' = x.stat /\ pc' = pc + 1 /\ UNCHANGED <<call, ret>>
      BY <2>2, <2>3, <3>2 DEF Moves, HasHeader, Then
    <3>3. CASE HasHeader(x) /\ Return(IF x.stat = got THEN got ELSE "err")
      BY <1>2, <2>4, <3>3
    <3> QED BY <2>1, <3>1, <3>2, <3>3
  <2> QED BY <1>1, <2>1, <2>5, MishapBound DEF boot
<1>7. CASE Measure
  <2>1. /\ pc # 0 /\ UNCHANGED <<user, st, framework, boot, data, reboots>> /\ Judge
        /\ Proceed \/ Return("err")
        /\ Mishap \/ UNCHANGED mishaps
    BY <1>7 DEF Measure, Here, Fails
  <2> QED BY <1>1, <1>3, <2>1, MishapBound DEF boot
<1>8. CASE StopFramework
  BY <1>1, <1>3, <1>8 DEF StopFramework, Here, boot, budget
<1>9. CASE StartFramework
  BY <1>1, <1>3, <1>9 DEF StartFramework, Here, boot, budget
<1>10. CASE Kill
  <2>1. /\ pc # 0 /\ UNCHANGED <<user, st, framework, boot, data, reboots>> /\ Judge
        /\ Return("none") /\ Mishap
    BY <1>10 DEF Kill, Dies
  <2> QED BY <1>1, <1>3, <2>1, MishapBound DEF boot
<1> QED BY <1>4, <1>5, <1>6, <1>7, <1>8, <1>9, <1>10 DEF Quiet

LEMMA QuietTypes ==
  ASSUME Types, Quiet
  PROVE  Types'
<1>1. /\ pc # 0 /\ UNCHANGED <<user, st, bootPass, data, reboots>> /\ Judge
      /\ framework' \in BOOLEAN /\ prompt' \in BOOLEAN
      /\ mishaps' \in 0..MaxMishaps /\ Moves
  BY QuietRan
<1>2. CallerOK'
  BY <1>1, CallerMoves
<1>3. Stores'
  BY <1>1 DEF Types, Stores
<1> QED BY <1>1, <1>2, <1>3, TypesKept DEF Types

LEMMA UnmountedFields ==
  ASSUME Types, st' = Unmounted
  PROVE  /\ Stores'
         /\ \A s \in Places : /\ st'[s].at = "none" /\ st'[s].clear = st[s].clear
                              /\ st'[s].cipher = st[s].cipher /\ st'[s].priv = st[s].priv
                              /\ st'[s].stat = st[s].stat /\ st'[s].pass = st[s].pass
                              /\ st'[s].rec = st[s].rec
<1>1. \A s \in Places : st[s] \in Storage
  BY DEF Types, Stores
<1>2. \A s \in Places : /\ [st[s] EXCEPT !.at = "none"] \in Storage
                        /\ [st[s] EXCEPT !.at = "none"].at = "none"
  BY <1>1 DEF Storage
<1>3. \A s \in Places : st'[s] = [st[s] EXCEPT !.at = "none"]
  BY DEF Unmounted
<1>4. st' \in [Places -> Storage]
  BY <1>2 DEF Unmounted
<1> QED BY <1>1, <1>2, <1>3, <1>4 DEF Stores, Storage

\* A restart, at the end of a call or in the middle of anything.
LEMMA BootTypes ==
  ASSUME Types, Restart \/ Reboot
  PROVE  /\ Types' /\ st' = Unmounted /\ framework' = TRUE
         /\ UNCHANGED <<user, data, call>> /\ pc' = 0
<1>1. /\ st' = Unmounted /\ UNCHANGED <<user, data>> /\ Judge
      /\ \E code \in Rets : Return(code)
      /\ \E found \in BOOLEAN : Booted(found)
  <2>1. Detected \in BOOLEAN
    BY DEF Detected
  <2> QED BY <2>1 DEF Restart, Reboot, Rets
<1>2. mishaps' \in 0..MaxMishaps /\ reboots' \in 0..MaxReboots
  <2>1. Mishap \/ UNCHANGED mishaps
    BY DEF Restart, Reboot, budget
  <2>2. reboots' \in 0..MaxReboots
    <3>1. reboots \in 0..MaxReboots /\ MaxReboots \in Nat
      BY UserAssumption DEF Types
    <3>2. reboots' = reboots \/ (reboots < MaxReboots /\ reboots' = reboots + 1)
      BY DEF Restart, Reboot, budget
    <3> QED BY <3>1, <3>2
  <2> QED BY <2>1, <2>2, MishapBound DEF Types
<1>3. framework' = TRUE /\ prompt' \in BOOLEAN /\ bootPass' \in Keys
  <2>1. st["data"].pass \in Keys
    BY DEF Types, Stores, Storage, Places, Keys
  <2>2. st'["data"].pass \in Keys
    BY <1>1, <2>1, UnmountedFields DEF Places
  <2> QED BY <1>1, <2>1, <2>2 DEF Booted, Keys
<1>4. pc' = 0 /\ call' = call /\ ret' \in Rets /\ got' = "absent"
  BY <1>1 DEF Return
<1>5. Size' = Size
  BY <1>1, <1>4, ProgramSame DEF Size
<1>6. Size \in Nat
  <2>1. call = NoCall => Size = 0
    BY DEF Size, Program, NoCall
  <2> QED BY <2>1, CallArgs, Lengths DEF Types, CallerOK
<1>7. CallerOK'
  BY <1>4, <1>5, <1>6 DEF CallerOK, Types
<1> QED BY <1>1, <1>2, <1>3, <1>4, <1>7, UnmountedFields, TypesKept DEF Types

LEMMA AppWriteRan ==
  ASSUME Types, NEW s \in Places, NEW i \in Items, AppWrite(s, i)
  PROVE  /\ pc = 0 /\ framework /\ ~prompt /\ Judge
         /\ UNCHANGED <<user, framework, boot, caller, budget>>
         /\ \E y \in Storage :
              LET x == st[s] IN
              /\ Leave(s, y) /\ y.at = x.at /\ y.priv = x.priv /\ y.stat = x.stat
              /\ y.pass = x.pass /\ y.rec = x.rec
              /\ IF x.at = "S" THEN y.cipher = x.cipher \cup {i} /\ y.clear = x.clear
                 ELSE y.clear = x.clear \cup {i} /\ y.cipher = x.cipher
         /\ data' = IF st[s].at = "S" \/ ~st[s].priv
                    THEN [data EXCEPT ![s] = @ \cup {i}] ELSE data
<1> DEFINE x == st[s]
           y == IF x.at = "S" THEN [x EXCEPT !.cipher = @ \cup {i}]
                ELSE [x EXCEPT !.clear = @ \cup {i}]
<1>1. x \in Storage
  BY DEF Types, Stores
<1>2. /\ y \in Storage /\ y.at = x.at /\ y.priv = x.priv /\ y.stat = x.stat
      /\ y.pass = x.pass /\ y.rec = x.rec
      /\ IF x.at = "S" THEN y.cipher = x.cipher \cup {i} /\ y.clear = x.clear
         ELSE y.clear = x.clear \cup {i} /\ y.cipher = x.cipher
  BY <1>1 DEF Storage
<1>3. Leave(s, y)
  BY DEF AppWrite
<1>4. /\ pc = 0 /\ framework /\ ~prompt /\ Judge
      /\ UNCHANGED <<user, framework, boot, caller, budget>>
      /\ data' = IF st[s].at = "S" \/ ~st[s].priv
                 THEN [data EXCEPT ![s] = @ \cup {i}] ELSE data
  BY DEF AppWrite
<1> HIDE DEF y
<1> QED BY <1>2, <1>3, <1>4

LEMMA AppWriteTypes ==
  ASSUME Types, NEW s \in Places, NEW i \in Items, AppWrite(s, i)
  PROVE  Types'
<1>1. PICK y \in Storage : Leave(s, y) /\ y.at = st[s].at /\ y.priv = st[s].priv
  BY AppWriteRan
<1>2. Stores'
  BY <1>1, StoresKept DEF Types, Stores
<1>3. /\ UNCHANGED <<user, framework, boot, caller, budget>> /\ Judge
      /\ data' = IF st[s].at = "S" \/ ~st[s].priv
                 THEN [data EXCEPT ![s] = @ \cup {i}] ELSE data
  BY AppWriteRan
<1>4. data' \in [Places -> SUBSET Items]
  BY <1>3 DEF Types
<1>5. Size' = Size
  BY <1>3, ProgramSame DEF Size, caller
<1>6. CallerOK'
  BY <1>3, <1>5 DEF CallerOK, Types, caller
<1> QED BY <1>2, <1>3, <1>4, <1>6, TypesKept DEF Types, boot, budget

LEMMA OtherUserRan ==
  ASSUME Types, RestartFramework
  PROVE  /\ pc = 0 /\ prompt /\ UNCHANGED <<user, bootPass, caller, data, reboots>> /\ Judge
         /\ mishaps' \in 0..MaxMishaps
         /\ \/ framework' = TRUE /\ prompt' = FALSE
            \/ framework' = FALSE /\ prompt' = prompt
         /\ \E y \in Storage :
              LET x == st["data"] IN
              /\ Leave("data", y) /\ y.at = x.at /\ y.priv = x.priv /\ y.stat = x.stat
              /\ y.pass = x.pass /\ y.rec = x.rec /\ y.cipher = x.cipher
<1> DEFINE x == st["data"]
<1>1. PICK C \in SUBSET x.clear :
        /\ Leave("data", [x EXCEPT !.clear = C])
        /\ \/ framework' = TRUE /\ prompt' = FALSE /\ UNCHANGED mishaps
           \/ framework' = FALSE /\ UNCHANGED prompt /\ Mishap
  BY DEF RestartFramework
<1> DEFINE y == [x EXCEPT !.clear = C]
<1>2. x \in Storage
  BY DEF Types, Stores, Places
<1>3. /\ y \in Storage /\ y.at = x.at /\ y.priv = x.priv /\ y.stat = x.stat
      /\ y.pass = x.pass /\ y.rec = x.rec /\ y.cipher = x.cipher
  BY <1>2 DEF Storage
<1>4. mishaps' \in 0..MaxMishaps
  BY <1>1, MishapBound DEF Types
<1>5. pc = 0 /\ prompt /\ UNCHANGED <<user, bootPass, caller, data, reboots>> /\ Judge
  BY DEF RestartFramework
<1> HIDE DEF y
<1> QED BY <1>1, <1>3, <1>4, <1>5 DEF y

LEMMA OtherUserTypes ==
  ASSUME Types, RestartFramework
  PROVE  Types'
<1>1. PICK y \in Storage : Leave("data", y) /\ y.at = st["data"].at /\ y.priv = st["data"].priv
  BY OtherUserRan
<1>2. Stores'
  BY <1>1, StoresKept DEF Types, Stores, Places
<1>3. /\ UNCHANGED <<user, bootPass, caller, data, reboots>> /\ Judge
      /\ mishaps' \in 0..MaxMishaps /\ framework' \in BOOLEAN /\ prompt' \in BOOLEAN
  BY OtherUserRan DEF Types
<1>4. CallerOK'
  <2>1. Size' = Size
    BY <1>3, ProgramSame DEF Size, caller
  <2> QED BY <1>3, <2>1 DEF CallerOK, Types, caller
<1> QED BY <1>2, <1>3, <1>4, TypesKept DEF Types

LEMMA TypesNext ==
  ASSUME Types, [Next]_vars
  PROVE  Types'
<1>1. CASE EfsCall
  BY <1>1, EfsCallTypes
<1>2. CASE Wipe
  BY <1>2, WipeTypes
<1>3. CASE Quiet
  BY <1>3, QuietTypes
<1>4. CASE Restart \/ Reboot
  BY <1>4, BootTypes
<1>5. CASE \E c \in UserArgs : Start(c)
  BY <1>5, StartTypes
<1>6. CASE \E s \in Places, i \in Items : AppWrite(s, i)
  BY <1>6, AppWriteTypes
<1>7. CASE RestartFramework
  BY <1>7, OtherUserTypes
<1>8. CASE UNCHANGED vars
  <2>1. Size' = Size
    BY <1>8, ProgramSame DEF Size, vars, caller
  <2> QED BY <1>8, <2>1 DEF Types, Stores, CallerOK, vars, boot, caller, ghosts, budget
<1> QED BY <1>1, <1>2, <1>3, <1>4, <1>5, <1>6, <1>7, <1>8 DEF Next, Step, Quiet

\* Every variable of the model of a user stays in its set.
THEOREM UserTypeCorrect == Spec => []TypeOK
<1>1. Types => TypeOK
  BY DEF Types, Stores, CallerOK, Rets, Keys, TypeOK, Size
<1>2. Types /\ [Next]_vars => Types'
  BY TypesNext
<1> QED BY <1>1, <1>2, TypesInit, PTL DEF Spec

-----------------------------------------------------------------------------
(* While the boot asks for a password, the user is encrypted.                *)

Prompted == prompt => st["data"].priv /\ (pc # 0 => call.op = "unlock_init")

LEMMA PromptedNext ==
  ASSUME Types, Prompted, [Next]_vars
  PROVE  Prompted'
<1> USE DEF Prompted
<1>1. CASE EfsCall
  <2>1. PICK y \in Storage : Ran(y)
    BY <1>1, EfsCallRan
  <2>2. /\ pc # 0 /\ OnAt(pc) \in Places /\ OpeningOrder /\ OtherOrder
        /\ st[OnAt(pc)].priv \in BOOLEAN
    BY <1>1, EfsCallRan, AtStep DEF Storage
  <2>3. /\ DoAt(pc) \in EfsOps /\ Leave(OnAt(pc), y) /\ Sound(st[OnAt(pc)], y, {}, DoAt(pc))
        /\ Moves /\ UNCHANGED <<user, prompt>>
    BY <2>1 DEF Ran, Again, Moves, Rets, boot
  <2>4. call' = call
    BY <2>2, <2>3, CallerMoves
  <2>5. prompt => DoAt(pc) = "unlock"
    BY <2>2, <2>3 DEF OpeningOrder, OtherOrder, Now, Is, Places, EfsOps
  <2>6. DoAt(pc) = "unlock" => st'["data"].priv = st["data"].priv
    BY <2>2, <2>3, Left DEF Sound, Types, Stores, Places
  <2> QED BY <2>2, <2>3, <2>4, <2>5, <2>6
<1>2. CASE Wipe
  <2>1. pc # 0 /\ OnAt(pc) \in Places /\ UNCHANGED <<user, prompt>>
    BY <1>2, WipeRan, AtStep DEF boot
  <2>2. PICK y \in Storage : /\ Leave(OnAt(pc), y) /\ y.priv = st[OnAt(pc)].priv
                             /\ Proceed \/ Return("err") \/ Return("none")
    BY <1>2, WipeRan
  <2>3. call' = call
    BY <2>1, <2>2, CallerMoves DEF Moves, Rets
  <2>4. st'["data"].priv = st["data"].priv
    BY <2>1, <2>2, Left DEF Types, Stores, Places
  <2> QED BY <2>1, <2>3, <2>4
<1>3. CASE Quiet
  <2>1. pc # 0 /\ UNCHANGED <<user, st>> /\ (prompt' => prompt) /\ Moves
    BY <1>3, QuietRan
  <2>2. call' = call
    BY <2>1, CallerMoves
  <2> QED BY <2>1, <2>2
<1>4. CASE Restart \/ Reboot
  <2>1. st' = Unmounted /\ pc' = 0
    BY <1>4, BootTypes
  <2>2. prompt' => Detected
    BY <1>4 DEF Restart, Reboot, Booted
  <2>3. Detected => st["data"].priv
    BY DEF Detected, Places
  <2>4. st'["data"].priv = st["data"].priv
    BY <2>1, UnmountedFields DEF Places
  <2> QED BY <2>1, <2>2, <2>3, <2>4
<1>5. CASE \E c \in UserArgs : Start(c)
  BY <1>5 DEF Start, boot
<1>6. CASE \E s \in Places, i \in Items : AppWrite(s, i)
  BY <1>6 DEF AppWrite, boot
<1>7. CASE RestartFramework
  <2>1. PICK y \in Storage : Leave("data", y) /\ y.priv = st["data"].priv
    BY <1>7, OtherUserRan
  <2>2. st'["data"].priv = st["data"].priv
    BY <2>1, Left DEF Types, Stores, Places
  <2>3. pc = 0 /\ prompt /\ pc' = pc
    BY <1>7, OtherUserRan DEF caller
  <2> QED BY <2>2, <2>3
<1>8. CASE UNCHANGED vars
  BY <1>8 DEF vars, boot, caller
<1> QED BY <1>1, <1>2, <1>3, <1>4, <1>5, <1>6, <1>7, <1>8 DEF Next, Step, Quiet

-----------------------------------------------------------------------------
(* Both storages in step.                                                    *)

\* x is clear or sealed, open or closed, and holds the items D.
Shape(x)    == /\ x.at \in {"none", "S"} /\ ~x.rec
               /\ x.stat = IF x.priv THEN "completed" ELSE "absent"
Holds(x, D) == (x.priv => D \subseteq x.cipher) /\ (~x.priv => D \subseteq x.clear)

SameKeys(d, m) == d.priv = m.priv /\ d.pass = m.pass
Pair(d, m)     == SameKeys(d, m) /\ d.at = m.at
Closed(d, m)   == d.at = "none" /\ m.at = "none"

\* How the storages d and m stand before the step do on the storage on.
Stage(do, on, op, first, d, m, pw, new) ==
  /\ do \in {"stop", "measure", "check", "start", "reboot", "miss", "status"} => Pair(d, m)
  /\ op = "unlock_init" /\ do \in {"check", "stop", "find"} => Closed(d, m)
  /\ do = "create" /\ on = "data"  => Pair(d, m)
  /\ do = "create" /\ on = "media" => d.priv /\ d.pass = pw /\ d.at = "none" /\ ~m.priv
  /\ do = "find" => Pair(d, m) /\ (op = "encrypt" => Closed(d, m))
  /\ do \in {"wipe", "unlock"} /\ on = "data" => Pair(d, m) /\ Closed(d, m) /\ d.priv
  /\ do \in {"wipe", "unlock", "probe"} /\ on = "media" =>
       SameKeys(d, m) /\ d.priv /\ d.at = "S" /\ m.at = "none"
  /\ do = "lock" /\ on = "data"  => SameKeys(d, m) /\ d.at \in {"none", m.at}
  /\ do = "lock" /\ on = "media" =>
       IF op = "decrypt" /\ ~first THEN Cleared(d) ELSE SameKeys(d, m) /\ d.at = "none"
  /\ do = "recover" /\ on = "media" => Cleared(d)
  /\ do \in {"change", "remove"} /\ on = "data" => Pair(d, m)
  /\ do = "change" /\ on = "media" => d.priv = m.priv /\ d.at = m.at /\ d.pass = new
  /\ do = "remove" /\ on = "media" => IF m.at = "none" THEN Cleared(d) ELSE Pair(d, m)

StageNow == Stage(DoAt(pc), OnAt(pc), call.op, Primary, st["data"], st["media"], call.pw, call.new)

\* What the running call found: a failure that leaves it so is no trouble.
BeganWell ==
  /\ \A s \in Places : Shape(began.st[s]) /\ (began.st[s].priv => data[s] \subseteq began.st[s].cipher)
  /\ Pair(began.st["data"], began.st["media"])
  /\ began.framework \/ Primary
  /\ prompt => Closed(began.st["data"], began.st["media"])

Resting == /\ Pair(st["data"], st["media"])
           /\ framework \/ Primary
           /\ prompt => Closed(st["data"], st["media"])
Running == /\ BeganWell /\ StageNow
           /\ framework \/ Primary \/ call.op \in {"encrypt", "decrypt", "unlock_init"}
           /\ prompt => call.op = "unlock_init"
InStep == ~troubled =>
            /\ \A s \in Places : Shape(st[s]) /\ Holds(st[s], data[s])
            /\ IF pc = 0 THEN Resting ELSE Running

LEMMA WorkedShape ==
  ASSUME NEW x \in Storage, NEW y \in Storage, NEW op \in EfsOps, NEW pw, NEW new, NEW D,
         Shape(x), Holds(x, D), x.at # "none" => x.priv, Worked(op, x, y, pw, new)
  PROVE  /\ Shape(y)
         /\ Holds(y, IF op = "remove" /\ x.priv /\ x.at = "none" THEN {} ELSE D)
<1>1. CASE op = "create"
  BY <1>1 DEF Worked, Shape, Holds
<1>2. CASE op = "unlock"
  BY <1>2 DEF Worked, Shape, Holds, Alike, HasHeader
<1>3. CASE op = "lock" \/ op = "change"
  BY <1>3 DEF Worked, Shape, Holds, Alike
<1>4. CASE op = "remove"
  BY <1>4 DEF Worked, Shape, Holds, Cleared
<1>5. CASE op = "recover"
  BY <1>5 DEF Worked, Shape, Holds, Cleared
<1> QED BY <1>1, <1>2, <1>3, <1>4, <1>5 DEF EfsOps

\* The call is over with d and m a pair, or the next stage is reached.
Onward(d, m) ==
  /\ pc = Size => Pair(d, m)
  /\ pc # Size => Stage(DoAt(pc + 1), OnAt(pc + 1), call.op, Primary, d, m, call.pw, call.new)

LEMMA StageStep ==
  ASSUME Types, pc # 0, NEW y \in Storage, DoAt(pc) \in EfsOps, StageNow,
         \A s \in Places : Shape(st[s]),
         Worked(DoAt(pc), st[OnAt(pc)], y, call.pw, call.new)
  PROVE  IF OnAt(pc) = "data" THEN Onward(y, st["media"]) ELSE Onward(st["data"], y)
<1> DEFINE d == st["data"]
           m == st["media"]
<1>1. /\ OpeningOrder /\ OtherOrder /\ OnAt(pc) \in {"data", "media"}
      /\ pc \in Nat /\ Size \in Nat
  BY AtStep DEF Places
<1>2. Shape(d) /\ Shape(m)
  BY DEF Places
<1>3. /\ (d.at # "none" => d.priv) /\ (m.at # "none" => m.priv)
      /\ d.priv \in BOOLEAN /\ m.priv \in BOOLEAN /\ y.priv \in BOOLEAN
  BY DEF Types, Stores, Places, Storage
<1> HIDE DEF d, m
<1> USE DEF Then, Now, Is, Last
<1>4. ASSUME DoAt(pc) = "create", OnAt(pc) = "data" PROVE Onward(y, m)
  <2>1. Stage("create", "data", call.op, Primary, d, m, call.pw, call.new)
    BY <1>4 DEF StageNow, d, m
  <2>2. Worked("create", d, y, call.pw, call.new)
    BY <1>4 DEF d
  <2>3. y.priv /\ y.pass = call.pw /\ y.at = "none" /\ ~m.priv
    BY <1>2, <1>3, <2>1, <2>2 DEF Stage, Worked, Pair, SameKeys, Closed, Alike, Cleared, Shape, HasHeader
  <2>4. call.op = "encrypt" /\ Then("create", "media")
    BY <1>1, <1>4 DEF OpeningOrder, Opening
  <2>5. Stage("create", "media", call.op, Primary, y, m, call.pw, call.new)
    BY <2>3 DEF Stage
  <2> QED BY <1>1, <2>4, <2>5 DEF Onward
<1>5. ASSUME DoAt(pc) = "create", OnAt(pc) = "media" PROVE Onward(d, y)
  <2>1. Stage("create", "media", call.op, Primary, d, m, call.pw, call.new)
    BY <1>5 DEF StageNow, d, m
  <2>2. Worked("create", m, y, call.pw, call.new)
    BY <1>5 DEF m
  <2>3. Pair(d, y) /\ Closed(d, y)
    BY <1>2, <1>3, <2>1, <2>2 DEF Stage, Worked, Pair, SameKeys, Closed, Alike, Cleared, Shape, HasHeader
  <2>4. call.op = "encrypt" /\ (Then("reboot", "data") \/ Then("find", "data"))
    BY <1>1, <1>5 DEF OpeningOrder, Opening
  <2> QED BY <1>1, <2>3, <2>4 DEF Onward, Stage
<1>6. ASSUME DoAt(pc) = "unlock", OnAt(pc) = "data" PROVE Onward(y, m)
  <2>1. Stage("unlock", "data", call.op, Primary, d, m, call.pw, call.new)
    BY <1>6 DEF StageNow, d, m
  <2>2. Worked("unlock", d, y, call.pw, call.new)
    BY <1>6 DEF d
  <2>3. SameKeys(y, m) /\ y.priv /\ y.at = "S" /\ m.at = "none"
    BY <1>2, <1>3, <2>1, <2>2 DEF Stage, Worked, Pair, SameKeys, Closed, Alike, Cleared, Shape, HasHeader
  <2>4. Then("probe", "media")
    BY <1>1, <1>6 DEF OpeningOrder, Opening
  <2> QED BY <1>1, <2>3, <2>4 DEF Onward, Stage
<1>7. ASSUME DoAt(pc) = "unlock", OnAt(pc) = "media" PROVE Onward(d, y)
  <2>1. Stage("unlock", "media", call.op, Primary, d, m, call.pw, call.new)
    BY <1>7 DEF StageNow, d, m
  <2>2. Worked("unlock", m, y, call.pw, call.new)
    BY <1>7 DEF m
  <2>3. Pair(d, y)
    BY <1>2, <1>3, <2>1, <2>2 DEF Stage, Worked, Pair, SameKeys, Closed, Alike, Cleared, Shape, HasHeader
  <2>4. Last \/ Then("start", "data")
    BY <1>1, <1>7 DEF OpeningOrder, Opening
  <2> QED BY <1>1, <2>3, <2>4 DEF Onward, Stage
<1>8. ASSUME DoAt(pc) = "lock", OnAt(pc) = "data" PROVE Onward(y, m)
  <2>1. Stage("lock", "data", call.op, Primary, d, m, call.pw, call.new)
    BY <1>8 DEF StageNow, d, m
  <2>2. Worked("lock", d, y, call.pw, call.new)
    BY <1>8 DEF d
  <2>3. SameKeys(y, m) /\ y.at = "none"
    BY <1>2, <1>3, <2>1, <2>2 DEF Stage, Worked, Pair, SameKeys, Closed, Alike, Cleared, Shape, HasHeader
  <2>4. \/ Then("recover", "data")
        \/ (call.op = "decrypt" => Primary) /\ Then("lock", "media")
    BY <1>1, <1>8 DEF OtherOrder
  <2> QED BY <1>1, <2>3, <2>4 DEF Onward, Stage
<1>9. ASSUME DoAt(pc) = "lock", OnAt(pc) = "media" PROVE Onward(d, y)
  <2>1. Stage("lock", "media", call.op, Primary, d, m, call.pw, call.new)
    BY <1>9 DEF StageNow, d, m
  <2>2. Worked("lock", m, y, call.pw, call.new)
    BY <1>9 DEF m
  <2>3. /\ call.op = "decrypt" /\ ~Primary => Cleared(d)
        /\ ~(call.op = "decrypt" /\ ~Primary) => Pair(d, y)
    BY <1>2, <1>3, <2>1, <2>2 DEF Stage, Worked, Pair, SameKeys, Closed, Alike, Cleared, Shape, HasHeader
  <2>4. \/ call.op = "decrypt" /\ ~Primary /\ Then("recover", "media")
        \/ Then("recover", "data")
        \/ call.op = "lock" /\ Last
    BY <1>1, <1>9 DEF OtherOrder
  <2> QED BY <1>1, <2>3, <2>4 DEF Onward, Stage
<1>10. ASSUME DoAt(pc) = "recover", OnAt(pc) = "data" PROVE Onward(y, m)
  <2>1. Stage("recover", "data", call.op, Primary, d, m, call.pw, call.new)
    BY <1>10 DEF StageNow, d, m
  <2>2. Worked("recover", d, y, call.pw, call.new)
    BY <1>10 DEF d
  <2>3. Cleared(y)
    BY <1>2, <1>3, <2>1, <2>2 DEF Stage, Worked, Pair, SameKeys, Closed, Alike, Cleared, Shape, HasHeader
  <2>4. \/ Then("recover", "media")
        \/ call.op = "decrypt" /\ ~Primary /\ Then("lock", "media")
    BY <1>1, <1>10 DEF OtherOrder
  <2> QED BY <1>1, <2>3, <2>4 DEF Onward, Stage
<1>11. ASSUME DoAt(pc) = "recover", OnAt(pc) = "media" PROVE Onward(d, y)
  <2>1. Stage("recover", "media", call.op, Primary, d, m, call.pw, call.new)
    BY <1>11 DEF StageNow, d, m
  <2>2. Worked("recover", m, y, call.pw, call.new)
    BY <1>11 DEF m
  <2>3. Pair(d, y)
    BY <1>2, <1>3, <2>1, <2>2 DEF Stage, Worked, Pair, SameKeys, Closed, Alike, Cleared, Shape, HasHeader
  <2>4. call.op = "decrypt" /\ (Then("reboot", "data") \/ Then("start", "data"))
    BY <1>1, <1>11 DEF OtherOrder
  <2> QED BY <1>1, <2>3, <2>4 DEF Onward, Stage
<1>12. ASSUME DoAt(pc) = "change", OnAt(pc) = "data" PROVE Onward(y, m)
  <2>1. Stage("change", "data", call.op, Primary, d, m, call.pw, call.new)
    BY <1>12 DEF StageNow, d, m
  <2>2. Worked("change", d, y, call.pw, call.new)
    BY <1>12 DEF d
  <2>3. y.priv = m.priv /\ y.at = m.at /\ y.pass = call.new
    BY <1>2, <1>3, <2>1, <2>2 DEF Stage, Worked, Pair, SameKeys, Closed, Alike, Cleared, Shape, HasHeader
  <2>4. Then("change", "media")
    BY <1>1, <1>12 DEF OtherOrder
  <2> QED BY <1>1, <2>3, <2>4 DEF Onward, Stage
<1>13. ASSUME DoAt(pc) = "change", OnAt(pc) = "media" PROVE Onward(d, y)
  <2>1. Stage("change", "media", call.op, Primary, d, m, call.pw, call.new)
    BY <1>13 DEF StageNow, d, m
  <2>2. Worked("change", m, y, call.pw, call.new)
    BY <1>13 DEF m
  <2>3. Pair(d, y)
    BY <1>2, <1>3, <2>1, <2>2 DEF Stage, Worked, Pair, SameKeys, Closed, Alike, Cleared, Shape, HasHeader
  <2>4. Last
    BY <1>1, <1>13 DEF OtherOrder
  <2> QED BY <1>1, <2>3, <2>4 DEF Onward, Stage
<1>14. ASSUME DoAt(pc) = "remove", OnAt(pc) = "data" PROVE Onward(y, m)
  <2>1. Stage("remove", "data", call.op, Primary, d, m, call.pw, call.new)
    BY <1>14 DEF StageNow, d, m
  <2>2. Worked("remove", d, y, call.pw, call.new)
    BY <1>14 DEF d
  <2>3. IF m.at = "none" THEN Cleared(y) ELSE Pair(y, m)
    BY <1>2, <1>3, <2>1, <2>2 DEF Stage, Worked, Pair, SameKeys, Closed, Alike, Cleared, Shape, HasHeader
  <2>4. Then("remove", "media")
    BY <1>1, <1>14 DEF OtherOrder
  <2> QED BY <1>1, <2>3, <2>4 DEF Onward, Stage
<1>15. ASSUME DoAt(pc) = "remove", OnAt(pc) = "media" PROVE Onward(d, y)
  <2>1. Stage("remove", "media", call.op, Primary, d, m, call.pw, call.new)
    BY <1>15 DEF StageNow, d, m
  <2>2. Worked("remove", m, y, call.pw, call.new)
    BY <1>15 DEF m
  <2>3. Pair(d, y)
    BY <1>2, <1>3, <2>1, <2>2 DEF Stage, Worked, Pair, SameKeys, Closed, Alike, Cleared, Shape, HasHeader
  <2>4. Last
    BY <1>1, <1>15 DEF OtherOrder
  <2> QED BY <1>1, <2>3, <2>4 DEF Onward, Stage
<1> QED BY <1>1, <1>4, <1>5, <1>6, <1>7, <1>8, <1>9, <1>10, <1>11, <1>12, <1>13, <1>14, <1>15
        DEF EfsOps, d, m

LEMMA FoundIs ==
  Types => /\ Found.framework = framework
           /\ \A s \in Places : /\ Found.st[s].at = st[s].at /\ Found.st[s].priv = st[s].priv
                                /\ Found.st[s].cipher = st[s].cipher /\ Found.st[s].stat = st[s].stat
                                /\ Found.st[s].pass = st[s].pass /\ Found.st[s].rec = st[s].rec
<1> SUFFICES ASSUME Types
             PROVE  /\ Found.framework = framework
                    /\ \A s \in Places :
                         /\ Found.st[s].at = st[s].at /\ Found.st[s].priv = st[s].priv
                         /\ Found.st[s].cipher = st[s].cipher /\ Found.st[s].stat = st[s].stat
                         /\ Found.st[s].pass = st[s].pass /\ Found.st[s].rec = st[s].rec
  OBVIOUS
<1>1. Found.framework = framework /\ Found.st = [s \in Places |-> [st[s] EXCEPT !.clear = {}]]
  BY DEF Found
<1>2. \A s \in Places : Found.st[s] = [st[s] EXCEPT !.clear = {}] /\ st[s] \in Storage
  BY <1>1 DEF Types, Stores
<1> QED BY <1>1, <1>2 DEF Storage

LEMMA Arrives ==
  ASSUME UNCHANGED <<user, call>>, NEW n, pc' = n,
         Stage(DoAt(n), OnAt(n), call.op, Primary, st'["data"], st'["media"], call.pw, call.new)
  PROVE  StageNow'
<1>1. DoAt(pc)' = DoAt(n) /\ OnAt(pc)' = OnAt(n)
  BY ProgramSame DEF DoAt, OnAt
<1>2. Primary' = Primary
  BY DEF Primary
<1>3. StageNow' = Stage(DoAt(pc)', OnAt(pc)', call.op, Primary', st'["data"], st'["media"], call.pw, call.new)
  BY DEF StageNow, Stage, Pair, SameKeys, Closed, Cleared
<1> QED BY <1>1, <1>2, <1>3

\* A call that fails is no trouble if it leaves what it found.
LEMMA Ended ==
  ASSUME InStep, Types', Judge, pc # 0, pc' = 0, ret' \in {"err", "none"}, UNCHANGED user,
         prompt' => prompt \/ Closed(st'["data"], st'["media"]),
         ~troubled => \A s \in Places : /\ data'[s] \subseteq data[s]
                                        /\ ~st'[s].priv => data'[s] \subseteq st'[s].clear
  PROVE  InStep'
<1> SUFFICES ASSUME ~troubled'
             PROVE  (/\ \A s \in Places : Shape(st[s]) /\ Holds(st[s], data[s])
                     /\ Resting)'
  BY DEF InStep
<1>1. ~troubled /\ Found' = began
  BY DEF Judge
<1>2. /\ Found'.framework = framework'
      /\ \A s \in Places : /\ Found'.st[s].at = st'[s].at /\ Found'.st[s].priv = st'[s].priv
                           /\ Found'.st[s].cipher = st'[s].cipher /\ Found'.st[s].stat = st'[s].stat
                           /\ Found'.st[s].pass = st'[s].pass /\ Found'.st[s].rec = st'[s].rec
  <2>1. (Types => /\ Found.framework = framework
           /\ \A s \in Places : /\ Found.st[s].at = st[s].at /\ Found.st[s].priv = st[s].priv
                                /\ Found.st[s].cipher = st[s].cipher /\ Found.st[s].stat = st[s].stat
                                /\ Found.st[s].pass = st[s].pass /\ Found.st[s].rec = st[s].rec)'
    BY FoundIs, PTL
  <2> QED BY <2>1
<1>3. BeganWell
  BY <1>1 DEF InStep, Running
<1>4. ASSUME NEW s \in Places PROVE Shape(st'[s]) /\ Holds(st'[s], data'[s])
  BY <1>1, <1>2, <1>3 DEF BeganWell, Shape, Holds
<1>5. Pair(st'["data"], st'["media"]) /\ (framework' \/ Primary)
  BY <1>1, <1>2, <1>3 DEF BeganWell, Pair, SameKeys, Places
<1>6. prompt' => Closed(st'["data"], st'["media"])
  BY <1>1, <1>2, <1>3 DEF BeganWell, Closed, Places
<1> QED BY <1>4, <1>5, <1>6 DEF Resting, Primary

\* A call that goes on.
LEMMA Went ==
  ASSUME InStep, Judge, pc # 0, pc' # 0, UNCHANGED <<user, call, prompt>>,
         framework' = framework \/ call.op \in {"encrypt", "decrypt", "unlock_init"} \/ Primary,
         ~troubled /\ ~troubled' =>
           /\ StageNow'
           /\ \A s \in Places : /\ data'[s] \subseteq data[s]
                                /\ Shape(st'[s]) /\ Holds(st'[s], data'[s])
  PROVE  InStep'
<1> SUFFICES ASSUME ~troubled'
             PROVE  (/\ \A s \in Places : Shape(st[s]) /\ Holds(st[s], data[s])
                     /\ Running)'
  BY DEF InStep
<1>1. ~troubled /\ began' = began
  BY DEF Judge
<1>2. /\ StageNow' /\ Running
      /\ \A s \in Places : /\ data'[s] \subseteq data[s]
                           /\ Shape(st'[s]) /\ Holds(st'[s], data'[s])
  BY <1>1 DEF InStep
<1>3. BeganWell'
  BY <1>1, <1>2 DEF Running, BeganWell, Primary
<1> QED BY <1>2, <1>3 DEF Running, Primary

\* A call that ends with both storages in step.
LEMMA EndedWell ==
  ASSUME pc' = 0,
         ~troubled' => /\ Resting'
                       /\ \A s \in Places : Shape(st'[s]) /\ Holds(st'[s], data'[s])
  PROVE  InStep'
BY DEF InStep

LEMMA InStepInit == Init => InStep
<1> SUFFICES ASSUME Init PROVE InStep
  OBVIOUS
<1>1. \A s \in Places : st[s] = InTheClear(InitialItems) /\ data[s] = InitialItems
  BY DEF Init
<1>2. \A s \in Places : Shape(st[s]) /\ Holds(st[s], data[s])
  BY <1>1 DEF InTheClear, Shape, Holds
<1>3. pc = 0 /\ framework = TRUE /\ prompt = FALSE
  BY DEF Init
<1>4. Resting
  BY <1>1, <1>3 DEF Resting, Pair, SameKeys, Places
<1> QED BY <1>2, <1>3, <1>4 DEF InStep

LEMMA FirstStep ==
  call.op \in UserCalls /\ pc = 1 =>
    /\ DoAt(pc) \in {"stop", "measure", "check", "find", "lock", "miss", "change", "remove", "status"}
    /\ OnAt(pc) = "data" /\ (call.op = "encrypt" => DoAt(pc) # "find")
<1> SUFFICES ASSUME call.op \in UserCalls, pc = 1
             PROVE  /\ DoAt(1) \in {"stop", "measure", "check", "find", "lock", "miss", "change",
                                    "remove", "status"}
                    /\ OnAt(1) = "data" /\ (call.op = "encrypt" => DoAt(1) # "find")
  OBVIOUS
<1>1. CASE call.op = "encrypt"
  BY <1>1, EncryptRows DEF Is
<1>2. CASE call.op \in {"unlock", "unlock_init"}
  BY <1>2, UnlockRows, BootRows, PrimaryRows DEF Is
<1>3. CASE call.op = "decrypt"
  BY <1>3, DecryptRows DEF Is
<1>4. CASE call.op \in {"lock", "change", "remove", "status"}
  BY <1>4, ShortRows
<1> QED BY <1>1, <1>2, <1>3, <1>4 DEF UserCalls

LEMMA StartInStep ==
  ASSUME Types, InStep, NEW c \in UserArgs, Start(c)
  PROVE  InStep'
<1>1. /\ pc = 0 /\ pc' = 1 /\ call' = c /\ c.op \in UserCalls /\ (prompt <=> c.op = "unlock_init")
      /\ UNCHANGED <<user, st, framework, prompt, data>> /\ Judge
  BY UserAssumption DEF Start, UserArgs, UserCalls, boot
<1> SUFFICES ASSUME ~troubled'
             PROVE  (/\ \A s \in Places : Shape(st[s]) /\ Holds(st[s], data[s])
                     /\ Running)'
  BY <1>1 DEF InStep
<1>2. ~troubled /\ began' = Found
  BY <1>1 DEF Judge
<1>3. Resting /\ \A s \in Places : Shape(st[s]) /\ Holds(st[s], data[s])
  BY <1>1, <1>2 DEF InStep
<1>4. BeganWell'
  <2>1. /\ Found.framework = framework
        /\ \A s \in Places : /\ Found.st[s].at = st[s].at /\ Found.st[s].priv = st[s].priv
                             /\ Found.st[s].cipher = st[s].cipher /\ Found.st[s].stat = st[s].stat
                             /\ Found.st[s].pass = st[s].pass /\ Found.st[s].rec = st[s].rec
    BY FoundIs
  <2>2. \A s \in Places : Shape(Found.st[s]) /\ (Found.st[s].priv => data[s] \subseteq Found.st[s].cipher)
    BY <1>3, <2>1 DEF Shape, Holds
  <2>3. /\ Pair(Found.st["data"], Found.st["media"])
        /\ prompt => Closed(Found.st["data"], Found.st["media"])
    BY <1>3, <2>1 DEF Resting, Pair, SameKeys, Closed, Places
  <2> QED BY <1>1, <1>2, <1>3, <2>1, <2>2, <2>3 DEF BeganWell, Resting, Primary
<1>5. StageNow'
  <2>1. (call.op \in UserCalls /\ pc = 1 =>
           /\ DoAt(pc) \in {"stop", "measure", "check", "find", "lock", "miss", "change", "remove", "status"}
           /\ OnAt(pc) = "data" /\ (call.op = "encrypt" => DoAt(pc) # "find"))'
    BY FirstStep, PTL
  <2>2. Pair(st'["data"], st'["media"]) /\ (c.op = "unlock_init" => Closed(st'["data"], st'["media"]))
    BY <1>1, <1>3 DEF Resting
  <2>3. \A do \in {"stop", "measure", "check", "find", "lock", "miss", "change", "remove", "status"} :
          \A first : (c.op = "encrypt" => do # "find") =>
            Stage(do, "data", c.op, first, st'["data"], st'["media"], c.pw, c.new)
    BY <2>2 DEF Stage, Pair
  <2>4. StageNow' = Stage(DoAt(pc)', OnAt(pc)', c.op, Primary', st'["data"], st'["media"], c.pw, c.new)
    BY <1>1 DEF StageNow, Stage, Pair, SameKeys, Closed, Cleared
  <2> QED BY <1>1, <2>1, <2>3, <2>4
<1> QED BY <1>1, <1>3, <1>4, <1>5 DEF Running, Resting, Primary

LEMMA AppWriteInStep ==
  ASSUME Types, InStep, NEW s \in Places, NEW i \in Items, AppWrite(s, i)
  PROVE  InStep'
<1> DEFINE x == st[s]
<1>1. /\ pc = 0 /\ framework /\ ~prompt /\ Judge
      /\ UNCHANGED <<user, framework, boot, caller, budget>>
      /\ data' = IF x.at = "S" \/ ~x.priv THEN [data EXCEPT ![s] = @ \cup {i}] ELSE data
  BY AppWriteRan
<1>2. PICK y \in Storage :
        /\ Leave(s, y) /\ y.at = x.at /\ y.priv = x.priv /\ y.stat = x.stat
        /\ y.pass = x.pass /\ y.rec = x.rec
        /\ IF x.at = "S" THEN y.cipher = x.cipher \cup {i} /\ y.clear = x.clear
           ELSE y.clear = x.clear \cup {i} /\ y.cipher = x.cipher
  BY AppWriteRan
<1> SUFFICES ASSUME ~troubled'
             PROVE  (/\ \A t \in Places : Shape(st[t]) /\ Holds(st[t], data[t])
                     /\ Resting)'
  BY <1>1 DEF InStep, caller
<1>3. ~troubled
  BY DEF AppWrite, Judge
<1>4. Resting /\ \A t \in Places : Shape(st[t]) /\ Holds(st[t], data[t])
  BY <1>1, <1>3 DEF InStep
<1>5. /\ st'[s] = y
      /\ \A t \in Places : t # s =>
           /\ st'[t].clear = st[t].clear /\ st'[t].cipher = st[t].cipher
           /\ st'[t].priv = st[t].priv /\ st'[t].stat = st[t].stat
           /\ st'[t].pass = st[t].pass /\ st'[t].at = st[t].at /\ st'[t].rec = y.rec
  BY <1>2, Left DEF Types, Stores
<1>6. /\ data'[s] = IF x.at = "S" \/ ~x.priv THEN data[s] \cup {i} ELSE data[s]
      /\ \A t \in Places : t # s => data'[t] = data[t]
  BY <1>1 DEF Types
<1>7. Shape(y) /\ Holds(y, data'[s])
  <2>1. Shape(x) /\ Holds(x, data[s]) /\ (x.at # "none" => x.priv)
    BY <1>4 DEF Types, Stores
  <2> QED BY <1>2, <1>6, <2>1 DEF Shape, Holds
<1>8. ~y.rec
  BY <1>7 DEF Shape
<1>9. ASSUME NEW t \in Places, t # s PROVE Shape(st'[t]) /\ Holds(st'[t], data'[t])
  BY <1>4, <1>5, <1>6, <1>8, <1>9 DEF Shape, Holds
<1>10. \A t \in Places : st'[t].priv = st[t].priv /\ st'[t].pass = st[t].pass /\ st'[t].at = st[t].at
  BY <1>2, <1>5
<1>11. Resting'
  BY <1>1, <1>4, <1>10 DEF Resting, Pair, SameKeys, Places, Primary, boot
<1> QED BY <1>5, <1>7, <1>9, <1>11

LEMMA OtherUserInStep ==
  ASSUME Types, Prompted, InStep, RestartFramework
  PROVE  InStep'
<1> DEFINE x == st["data"]
<1>1. /\ pc = 0 /\ prompt /\ UNCHANGED <<user, caller, data>> /\ Judge
      /\ \/ framework' = TRUE /\ prompt' = FALSE
         \/ framework' = FALSE /\ prompt' = prompt
  BY OtherUserRan
<1>2. PICK y \in Storage :
        /\ Leave("data", y) /\ y.at = x.at /\ y.priv = x.priv /\ y.stat = x.stat
        /\ y.pass = x.pass /\ y.rec = x.rec /\ y.cipher = x.cipher
  BY OtherUserRan
<1> SUFFICES ASSUME ~troubled'
             PROVE  (/\ \A t \in Places : Shape(st[t]) /\ Holds(st[t], data[t])
                     /\ Resting)'
  BY <1>1 DEF InStep, caller
<1>3. ~troubled /\ ~(framework /\ ~framework')
  BY <1>1 DEF Judge
<1>4. Resting /\ \A t \in Places : Shape(st[t]) /\ Holds(st[t], data[t])
  BY <1>1, <1>3 DEF InStep
<1>5. /\ st'["data"] = y
      /\ \A t \in Places : t # "data" =>
           /\ st'[t].clear = st[t].clear /\ st'[t].cipher = st[t].cipher
           /\ st'[t].priv = st[t].priv /\ st'[t].stat = st[t].stat
           /\ st'[t].pass = st[t].pass /\ st'[t].at = st[t].at /\ st'[t].rec = y.rec
  BY <1>2, Left DEF Types, Stores, Places
<1>6. Shape(y) /\ Holds(y, data["data"]) /\ ~y.rec
  BY <1>1, <1>2, <1>4 DEF Prompted, Shape, Holds, Places
<1>7. ASSUME NEW t \in Places PROVE Shape(st'[t]) /\ Holds(st'[t], data'[t])
  BY <1>1, <1>4, <1>5, <1>6, <1>7 DEF Shape, Holds
<1>8. \A t \in Places : st'[t].priv = st[t].priv /\ st'[t].pass = st[t].pass /\ st'[t].at = st[t].at
  BY <1>2, <1>5
<1>9. Resting'
  BY <1>1, <1>3, <1>4, <1>8 DEF Resting, Pair, SameKeys, Closed, Places, Primary
<1> QED BY <1>7, <1>9

LEMMA BootInStep ==
  ASSUME Types, InStep, Restart \/ Reboot
  PROVE  InStep'
<1>1. /\ Types' /\ st' = Unmounted /\ framework' = TRUE /\ UNCHANGED <<user, data, call>> /\ pc' = 0
      /\ Judge
  BY BootTypes DEF Restart, Reboot
<1>2. \A s \in Places : /\ st'[s].at = "none" /\ st'[s].clear = st[s].clear
                        /\ st'[s].cipher = st[s].cipher /\ st'[s].priv = st[s].priv
                        /\ st'[s].stat = st[s].stat /\ st'[s].pass = st[s].pass
                        /\ st'[s].rec = st[s].rec
  BY <1>1, UnmountedFields
<1>3. Closed(st'["data"], st'["media"])
  BY <1>2 DEF Closed, Places
<1>4. CASE pc # 0 /\ Reboot
  <2>1. ret' = "none"
    BY <1>4 DEF Reboot, Return
  <2>2. ~troubled => \A s \in Places : ~st'[s].priv => data'[s] \subseteq st'[s].clear
    BY <1>1, <1>2 DEF InStep, Holds
  <2> QED BY <1>1, <1>3, <1>4, <2>1, <2>2, Ended
<1>5. CASE pc = 0 \/ Restart
  <2>1. ASSUME ~troubled'
        PROVE  /\ SameKeys(st["data"], st["media"])
               /\ \A s \in Places : Shape(st[s]) /\ Holds(st[s], data[s])
    <3>1. ~troubled
      BY <1>1, <2>1 DEF Judge
    <3>2. CASE pc = 0
      BY <3>1, <3>2 DEF InStep, Resting, Pair
    <3>3. CASE pc # 0 /\ Restart
      BY <3>1, <3>3 DEF InStep, Running, StageNow, Stage, Restart, Here, DoAt, Pair
    <3> QED BY <1>5, <3>2, <3>3 DEF Restart, Here
  <2>2. ASSUME ~troubled'
        PROVE  Resting' /\ \A s \in Places : Shape(st'[s]) /\ Holds(st'[s], data'[s])
    <3>1. \A s \in Places : Shape(st'[s]) /\ Holds(st'[s], data'[s])
      BY <1>1, <1>2, <2>1, <2>2 DEF Shape, Holds
    <3>2. Pair(st'["data"], st'["media"])
      BY <1>2, <2>1, <2>2 DEF Pair, SameKeys, Places
    <3> QED BY <1>1, <1>3, <3>1, <3>2 DEF Resting
  <2> QED BY <1>1, <2>2, EndedWell
<1> QED BY <1>4, <1>5

LEMMA WipeInStep ==
  ASSUME Types, InStep, Types', Wipe
  PROVE  InStep'
<1> DEFINE s == OnAt(pc)
           x == st[s]
<1>1. pc # 0 /\ DoAt(pc) = "wipe" /\ UNCHANGED <<user, framework, boot, data, reboots>> /\ Judge
  BY WipeRan
<1>2. PICK y \in Storage :
         /\ Leave(s, y) /\ y.at = x.at /\ y.priv = x.priv
         /\ y.cipher = x.cipher /\ y.stat = x.stat /\ y.pass = x.pass /\ y.rec = x.rec
         /\ Proceed \/ Return("err") \/ Return("none")
  BY WipeRan
<1>3. OpeningOrder /\ s \in Places /\ pc \in Nat /\ Size \in Nat
  BY <1>1, AtStep
<1>4. /\ st'[s] = y
      /\ \A t \in Places : t # s =>
           /\ st'[t].clear = st[t].clear /\ st'[t].cipher = st[t].cipher
           /\ st'[t].priv = st[t].priv /\ st'[t].stat = st[t].stat
           /\ st'[t].pass = st[t].pass /\ st'[t].at = st[t].at /\ st'[t].rec = y.rec
  BY <1>2, <1>3, Left DEF Types, Stores
<1>5. ~troubled => StageNow /\ Running /\ \A t \in Places : Shape(st[t]) /\ Holds(st[t], data[t])
  BY <1>1 DEF InStep, Running
<1>6. ~troubled => x.priv
  <2>1. s \in {"data", "media"}
    BY <1>3 DEF Places
  <2> QED BY <1>1, <1>5, <2>1 DEF StageNow, Stage, SameKeys
<1>7. \A t \in Places : st'[t].priv = st[t].priv /\ st'[t].pass = st[t].pass /\ st'[t].at = st[t].at
  BY <1>2, <1>4
<1>8. CASE Return("err") \/ Return("none")
  <2>1. pc' = 0 /\ ret' \in {"err", "none"}
    BY <1>8 DEF Return
  <2>2. ASSUME ~troubled, NEW t \in Places
        PROVE  data'[t] \subseteq data[t] /\ (~st'[t].priv => data'[t] \subseteq st'[t].clear)
    BY <1>1, <1>2, <1>4, <1>5, <1>6, <2>2 DEF Holds
  <2> QED BY <1>1, <2>1, <2>2, Ended DEF boot
<1>9. CASE Proceed
  <2>1. pc # Size /\ DoAt(pc + 1) = "unlock" /\ OnAt(pc + 1) = s
    BY <1>1, <1>3 DEF OpeningOrder, Now, Then, Is, Places
  <2>2. pc' = pc + 1 /\ UNCHANGED call
    BY <1>9, <2>1 DEF Proceed, GoTo, Size
  <2>3. ASSUME ~troubled PROVE StageNow'
    <3>1. Stage("wipe", s, call.op, Primary, st["data"], st["media"], call.pw, call.new)
      BY <1>1, <1>5, <2>3 DEF StageNow
    <3>2. Stage("unlock", s, call.op, Primary, st'["data"], st'["media"], call.pw, call.new)
      BY <1>7, <3>1 DEF Stage, Pair, SameKeys, Closed, Places
    <3> QED BY <1>1, <2>1, <2>2, <3>2, Arrives
  <2>4. ASSUME ~troubled, NEW t \in Places
        PROVE  data'[t] \subseteq data[t] /\ Shape(st'[t]) /\ Holds(st'[t], data'[t])
    <3>1. Shape(x) /\ Holds(x, data[s])
      BY <1>3, <1>5, <2>4
    <3>2. Shape(y) /\ Holds(y, data[s]) /\ ~y.rec
      BY <1>2, <1>6, <2>4, <3>1 DEF Shape, Holds
    <3> QED BY <1>1, <1>4, <1>5, <2>4, <3>2 DEF Shape, Holds
  <2>5. pc' # 0
    BY <1>3, <2>2
  <2> QED BY <1>1, <2>2, <2>3, <2>4, <2>5, Went DEF boot
<1> QED BY <1>2, <1>8, <1>9

LEMMA EfsCallInStep ==
  ASSUME Types, InStep, Types', EfsCall
  PROVE  InStep'
<1>1. PICK y \in Storage : Ran(y)
  BY EfsCallRan
<1> DEFINE s == OnAt(pc)
           x == st[s]
           op == DoAt(pc)
           gone == op = "remove" /\ x.priv /\ x.at = "none"
<1>2. /\ pc # 0 /\ OpeningOrder /\ OtherOrder /\ s \in Places /\ x \in Storage
      /\ pc \in Nat /\ Size \in Nat /\ call.op \in UserCalls
  BY EfsCallRan, AtStep
<1>3. /\ op \in EfsOps /\ Leave(s, y) /\ Judge
      /\ \A D : Sound(x, y, D, op)
      /\ \/ Proceed /\ Worked(op, x, y, call.pw, call.new)
         \/ Return("err") \/ Return("none")
         \/ Again(x, y, op)
      /\ data' = IF gone THEN [data EXCEPT ![s] = {}] ELSE data
      /\ UNCHANGED <<user, framework, prompt>>
  BY <1>1 DEF Ran, boot
<1>4. /\ st'[s] = y
      /\ \A t \in Places : t # s =>
           /\ st'[t].clear = st[t].clear /\ st'[t].priv = st[t].priv
           /\ y.rec = st[t].rec => st'[t] = st[t]
  BY <1>2, <1>3, Left DEF Types, Stores
<1>5. /\ data'[s] = IF gone THEN {} ELSE data[s]
      /\ \A t \in Places : (t # s => data'[t] = data[t]) /\ data'[t] \subseteq data[t]
  BY <1>2, <1>3 DEF Types
<1>6. ~troubled => StageNow /\ Running /\ \A t \in Places : Shape(st[t]) /\ Holds(st[t], data[t])
  BY <1>2 DEF InStep, Running
<1>7. x.at # "none" => x.priv
  BY <1>2 DEF Types, Stores
<1> HIDE DEF x, op, gone
<1>8. CASE Return("err") \/ Return("none")
  <2>1. pc' = 0 /\ ret' \in {"err", "none"}
    BY <1>8 DEF Return
  <2>2. ASSUME ~troubled PROVE ~y.priv => data'[s] \subseteq y.clear
    <3>1. Holds(x, data[s]) /\ Sound(x, y, data[s], op)
      BY <1>2, <1>3, <1>6, <2>2 DEF x
    <3> QED BY <1>5, <3>1 DEF Holds, Sound, gone
  <2>3. ASSUME ~troubled, NEW t \in Places PROVE ~st'[t].priv => data'[t] \subseteq st'[t].clear
    BY <1>4, <1>5, <1>6, <2>2, <2>3 DEF Holds
  <2> QED BY <1>2, <1>3, <1>5, <2>1, <2>3, Ended
<1>9. CASE Again(x, y, op)
  <2>1. pc' = pc /\ UNCHANGED call /\ op = "lock" /\ call.op = "lock"
    BY <1>9 DEF caller, Again
  <2>2. ~gone
    BY <2>1 DEF gone
  <2>3. ASSUME ~troubled PROVE Shape(y) /\ Holds(y, data'[s])
    <3>1. Shape(x) /\ Holds(x, data[s])
      BY <1>2, <1>6, <2>3 DEF x
    <3>2. CASE Worked(op, x, y, call.pw, call.new)
      BY <1>2, <1>3, <1>5, <1>7, <2>3, <3>1, <3>2, WorkedShape DEF gone
    <3> QED BY <1>5, <1>9, <2>2, <3>1, <3>2 DEF Again
  <2>4. ASSUME ~troubled, NEW t \in Places, t # s PROVE st'[t] = st[t]
    <3>1. ~y.rec /\ ~st[t].rec /\ y.rec \in BOOLEAN /\ st[t].rec \in BOOLEAN
      BY <1>6, <2>3, <2>4 DEF Shape, Types, Stores, Storage
    <3> QED BY <1>4, <2>4, <3>1
  <2>5. ASSUME ~troubled, NEW t \in Places PROVE Shape(st'[t]) /\ Holds(st'[t], data'[t])
    <3>1. CASE t = s
      BY <1>4, <2>3, <2>5, <3>1
    <3>2. CASE t # s
      BY <1>5, <1>6, <2>4, <2>5, <3>2
    <3> QED BY <3>1, <3>2
  <2>6. ASSUME ~troubled PROVE StageNow'
    <3>1. Stage("lock", s, call.op, Primary, st["data"], st["media"], call.pw, call.new)
      BY <1>6, <2>1, <2>6 DEF StageNow, op
    <3>2. SameKeys(x, y) /\ y.at \in {"none", x.at}
      BY <1>9, <2>1 DEF Again, Worked, Alike, SameKeys
    <3>3. Stage("lock", s, call.op, Primary, st'["data"], st'["media"], call.pw, call.new)
      <4>1. CASE s = "data"
        <5>1. st'["data"] = y /\ st'["media"] = st["media"] /\ x = st["data"]
          BY <1>4, <2>4, <2>6, <4>1 DEF Places, x
        <5> QED BY <3>1, <3>2, <4>1, <5>1 DEF Stage, SameKeys
      <4>2. CASE s = "media"
        <5>1. st'["media"] = y /\ st'["data"] = st["data"] /\ x = st["media"]
          BY <1>4, <2>4, <2>6, <4>2 DEF Places, x
        <5> QED BY <2>1, <3>1, <3>2, <4>2, <5>1 DEF Stage, SameKeys
      <4> QED BY <1>2, <4>1, <4>2 DEF Places
    <3> QED BY <1>3, <2>1, <3>3, Arrives DEF op
  <2> QED BY <1>2, <1>3, <1>5, <2>1, <2>5, <2>6, Went
<1>10. CASE Proceed /\ Worked(op, x, y, call.pw, call.new)
  <2>1. ASSUME ~troubled
        PROVE  Shape(y) /\ Holds(y, data'[s])
    <3>1. Shape(x) /\ Holds(x, data[s])
      BY <1>2, <1>6, <2>1 DEF x
    <3> QED BY <1>2, <1>3, <1>5, <1>7, <1>10, <3>1, WorkedShape DEF gone
  <2>2. ASSUME ~troubled, NEW t \in Places, t # s PROVE st'[t] = st[t]
    <3>1. ~y.rec /\ ~st[t].rec /\ y.rec \in BOOLEAN /\ st[t].rec \in BOOLEAN
      BY <1>6, <2>1, <2>2 DEF Shape, Types, Stores, Storage
    <3> QED BY <1>4, <2>2, <3>1
  <2>3. ASSUME ~troubled, NEW t \in Places
        PROVE  Shape(st'[t]) /\ Holds(st'[t], data'[t])
    <3>1. CASE t = s
      BY <1>4, <2>1, <2>3, <3>1
    <3>2. CASE t # s
      BY <1>5, <1>6, <2>2, <2>3, <3>2
    <3> QED BY <3>1, <3>2
  <2>4. ASSUME ~troubled PROVE Onward(st'["data"], st'["media"])
    <3>1. IF s = "data" THEN Onward(y, st["media"]) ELSE Onward(st["data"], y)
      BY <1>2, <1>3, <1>6, <1>10, <2>4, StageStep DEF x, op
    <3>2. CASE s = "data"
      BY <1>4, <2>2, <2>4, <3>1, <3>2 DEF Places
    <3>3. CASE s = "media"
      BY <1>4, <2>2, <2>4, <3>1, <3>3 DEF Places
    <3> QED BY <1>2, <3>2, <3>3 DEF Places
  <2>5. CASE pc = Size
    <3>1. pc' = 0
      BY <1>10, <2>5 DEF Proceed, Return, Size
    <3>2. ~troubled' => ~troubled
      BY <1>3 DEF Judge
    <3>3. call.op \notin {"encrypt", "decrypt", "unlock_init"}
      BY <1>2, <1>3, <2>5 DEF OpeningOrder, OtherOrder, Now, Then, Is, Last, EfsOps, Places, op
    <3>4. ASSUME ~troubled PROVE Resting'
      BY <1>3, <1>6, <2>4, <2>5, <3>3, <3>4 DEF Onward, Running, Resting, Primary
    <3> QED BY <2>3, <3>1, <3>2, <3>4, EndedWell
  <2>6. CASE pc # Size
    <3>1. pc' = pc + 1 /\ UNCHANGED call
      BY <1>10, <2>6 DEF Proceed, GoTo, Size
    <3>2. ~troubled => StageNow'
      BY <1>3, <2>4, <2>6, <3>1, Arrives DEF Onward
    <3>3. pc' # 0
      BY <1>2, <3>1
    <3> QED BY <1>2, <1>3, <1>5, <2>3, <3>1, <3>2, <3>3, Went
  <2> QED BY <2>5, <2>6
<1> QED BY <1>3, <1>8, <1>9, <1>10

\* A step that changes neither storage ends the call, or takes the next stage.
LEMMA QuietStep ==
  ASSUME Types, InStep, Types', pc # 0, Judge, UNCHANGED <<user, st, data>>,
         \/ Return("err") /\ UNCHANGED prompt
         \/ Return("none") /\ UNCHANGED prompt
         \/ /\ pc' = 0 /\ (~troubled /\ ~troubled' => Pair(st["data"], st["media"]))
            /\ ~troubled /\ ~troubled' => framework' \/ Primary
            /\ ~troubled /\ ~troubled' => (prompt' => Closed(st["data"], st["media"]))
         \/ /\ pc' \in Nat /\ pc' # 0 /\ UNCHANGED <<call, prompt>>
            /\ framework' = framework \/ call.op \in {"encrypt", "decrypt", "unlock_init"} \/ Primary
            /\ ~troubled /\ ~troubled' =>
                 Stage(DoAt(pc'), OnAt(pc'), call.op, Primary, st["data"], st["media"], call.pw, call.new)
  PROVE  InStep'
<1>1. ~troubled => \A t \in Places : Shape(st'[t]) /\ Holds(st'[t], data'[t]) /\ data'[t] \subseteq data[t]
  BY DEF InStep
<1>2. ~troubled' => ~troubled
  BY DEF Judge
<1>3. CASE (Return("err") \/ Return("none")) /\ UNCHANGED prompt
  <2>1. pc' = 0 /\ ret' \in {"err", "none"}
    BY <1>3 DEF Return
  <2> QED BY <1>1, <1>3, <2>1, Ended DEF Holds
<1>4. CASE /\ pc' = 0 /\ (~troubled /\ ~troubled' => Pair(st["data"], st["media"]))
           /\ ~troubled /\ ~troubled' => framework' \/ Primary
           /\ ~troubled /\ ~troubled' => (prompt' => Closed(st["data"], st["media"]))
  <2>1. ~troubled' => Resting'
    BY <1>2, <1>4 DEF Resting, Primary
  <2> QED BY <1>1, <1>2, <1>4, <2>1, EndedWell
<1>5. CASE /\ pc' \in Nat /\ pc' # 0 /\ UNCHANGED <<call, prompt>>
           /\ framework' = framework \/ call.op \in {"encrypt", "decrypt", "unlock_init"} \/ Primary
           /\ ~troubled /\ ~troubled' =>
                Stage(DoAt(pc'), OnAt(pc'), call.op, Primary, st["data"], st["media"], call.pw, call.new)
  <2>1. ASSUME ~troubled, ~troubled' PROVE StageNow'
    <3>1. PICK n : n = pc' /\ Stage(DoAt(n), OnAt(n), call.op, Primary, st["data"], st["media"], call.pw, call.new)
      BY <1>5, <2>1
    <3> QED BY <1>5, <3>1, Arrives
  <2> QED BY <1>1, <1>5, <2>1, Went
<1> QED BY <1>3, <1>4, <1>5

\* What Running says before a step that changes neither storage.
LEMMA Standing ==
  ASSUME Types, InStep, pc # 0, ~troubled
  PROVE  /\ framework \/ Primary \/ call.op \in {"encrypt", "decrypt", "unlock_init"}
         /\ prompt => call.op = "unlock_init"
         /\ Stage(DoAt(pc), OnAt(pc), call.op, Primary, st["data"], st["media"], call.pw, call.new)
BY DEF InStep, Running, StageNow

\* Proceed, at a step that is not the last one.
LEMMA ProceedsTo ==
  ASSUME Types, pc # 0, NEW step, NEW s, Then(step, s), Proceed
  PROVE  pc' = pc + 1 /\ pc' \in Nat /\ pc' # 0 /\ UNCHANGED call /\ DoAt(pc') = step /\ OnAt(pc') = s
<1>1. pc \in Nat /\ Size \in Nat
  BY AtStep
<1>2. pc # Size /\ DoAt(pc + 1) = step /\ OnAt(pc + 1) = s
  BY <1>1 DEF Then, Is
<1>3. pc' = pc + 1 /\ UNCHANGED call
  BY <1>2 DEF Proceed, GoTo, Size
<1> QED BY <1>1, <1>2, <1>3

LEMMA LockMissInStep ==
  ASSUME Types, InStep, Types', LockMiss
  PROVE  InStep'
<1>1. /\ pc # 0 /\ DoAt(pc) = "miss" /\ UNCHANGED <<user, st, framework, boot, data>> /\ Judge
      /\ Proceed \/ UNCHANGED caller \/ Return("err")
  BY DEF LockMiss, Here, DoAt, Fails
<1>2. call.op = "lock" /\ Primary /\ Then("lock", "media") /\ pc \in Nat
  BY <1>1, AtStep DEF OtherOrder
<1>3. ~troubled' => st["data"].at = "none"
  BY DEF LockMiss, Judge
<1>4. ~troubled => Pair(st["data"], st["media"])
  BY <1>1, Standing DEF Stage
<1>5. CASE Proceed
  <2>1. pc' \in Nat /\ pc' # 0 /\ UNCHANGED call /\ DoAt(pc') = "lock" /\ OnAt(pc') = "media"
    BY <1>1, <1>2, <1>5, ProceedsTo
  <2>2. ASSUME ~troubled, ~troubled'
        PROVE  Stage("lock", "media", call.op, Primary, st["data"], st["media"], call.pw, call.new)
    BY <1>2, <1>3, <1>4, <2>2 DEF Stage, Pair
  <2> QED BY <1>1, <2>1, <2>2, QuietStep DEF boot
<1>6. CASE UNCHANGED caller
  <2>1. pc' = pc /\ UNCHANGED call
    BY <1>6 DEF caller
  <2>2. ~troubled => Stage(DoAt(pc'), OnAt(pc'), call.op, Primary, st["data"], st["media"], call.pw, call.new)
    BY <1>1, <2>1, Standing
  <2> QED BY <1>1, <1>2, <2>1, <2>2, QuietStep DEF boot
<1>7. CASE Return("err")
  BY <1>1, <1>7, QuietStep DEF boot
<1> QED BY <1>1, <1>5, <1>6, <1>7

LEMMA FindInStep ==
  ASSUME Types, InStep, Types', FindStorage
  PROVE  InStep'
<1>1. /\ pc # 0 /\ DoAt(pc) = "find" /\ UNCHANGED <<user, st, framework, boot, data>> /\ Judge
      /\ IF ~st[OnAt(pc)].priv THEN Return("err")
         ELSE IF st[OnAt(pc)].at # "none" THEN SkipUnlock
         ELSE Proceed
  BY DEF FindStorage, Here, DoAt, OnAt, Place, budget
<1>2. OnAt(pc) = "data" /\ Opening /\ Then("wipe", "data")
  BY <1>1, AtStep DEF OpeningOrder, Now, Is
<1>3. ~troubled => /\ Pair(st["data"], st["media"])
                   /\ call.op \in {"encrypt", "unlock_init"} => Closed(st["data"], st["media"])
                   /\ framework \/ Primary \/ call.op \in {"encrypt", "decrypt", "unlock_init"}
                   /\ prompt => call.op = "unlock_init"
  BY <1>1, Standing DEF Stage
<1>4. CASE Return("err")
  BY <1>1, <1>4, QuietStep DEF boot
<1>5. CASE st["data"].at # "none" /\ SkipUnlock
  <2>1. ~troubled => call.op = "unlock"
    BY <1>2, <1>3, <1>5 DEF Closed, Opening
  <2>2. CASE call.op = "unlock"
    <3>1. pc' = 0
      BY <1>5, <2>2 DEF SkipUnlock, Return
    <3> QED BY <1>1, <1>3, <2>2, <3>1, QuietStep DEF boot
  <2>3. CASE troubled
    BY <1>1, <2>3 DEF InStep, Judge
  <2> QED BY <2>1, <2>2, <2>3
<1>6. CASE st["data"].priv /\ st["data"].at = "none" /\ Proceed
  <2>1. pc' \in Nat /\ pc' # 0 /\ UNCHANGED call /\ DoAt(pc') = "wipe" /\ OnAt(pc') = "data"
    BY <1>1, <1>2, <1>6, ProceedsTo
  <2>2. ~troubled => Stage("wipe", "data", call.op, Primary, st["data"], st["media"], call.pw, call.new)
    BY <1>3, <1>6 DEF Stage, Pair, Closed
  <2> QED BY <1>1, <2>1, <2>2, QuietStep DEF boot
<1> QED BY <1>1, <1>2, <1>4, <1>5, <1>6

LEMMA ProbeInStep ==
  ASSUME Types, InStep, Types', ProbeStorage
  PROVE  InStep'
<1>1. /\ pc # 0 /\ DoAt(pc) = "probe" /\ UNCHANGED <<user, st, framework, boot, data>> /\ Judge
      /\ IF st[OnAt(pc)].at = "S" THEN SkipUnlock ELSE Proceed
  BY DEF ProbeStorage, Here, DoAt, OnAt, Place, budget
<1>2. OnAt(pc) = "media" /\ Then("wipe", "media")
  BY <1>1, AtStep DEF OpeningOrder, Now, Is
<1>3. ~troubled =>
        /\ Stage("probe", "media", call.op, Primary, st["data"], st["media"], call.pw, call.new)
        /\ st["media"].at = "none"
  BY <1>1, <1>2, Standing DEF Stage
<1>4. CASE troubled
  BY <1>1, <1>4 DEF InStep, Judge
<1>5. CASE ~troubled
  <2>1. Proceed
    BY <1>1, <1>2, <1>3, <1>5
  <2>2. pc' \in Nat /\ pc' # 0 /\ UNCHANGED call /\ DoAt(pc') = "wipe" /\ OnAt(pc') = "media"
    BY <1>1, <1>2, <2>1, ProceedsTo
  <2>3. Stage("wipe", "media", call.op, Primary, st["data"], st["media"], call.pw, call.new)
    BY <1>3, <1>5 DEF Stage
  <2> QED BY <1>1, <2>2, <2>3, QuietStep DEF boot
<1> QED BY <1>4, <1>5

LEMMA StatusInStep ==
  ASSUME Types, InStep, Types', ReadStatus
  PROVE  InStep'
<1>1. /\ pc # 0 /\ DoAt(pc) = "status" /\ UNCHANGED <<user, st, framework, boot, data>> /\ Judge
      /\ \/ pc' = 0
         \/ OnAt(pc) = "data" /\ pc' = pc + 1 /\ UNCHANGED call
  BY DEF ReadStatus, Here, DoAt, OnAt, Place, StatusIs, Return
<1>2. call.op = "status" /\ (OnAt(pc) = "data" => Then("status", "media")) /\ pc \in Nat
  BY <1>1, AtStep DEF OtherOrder, Now, Is, Places
<1>3. ~troubled => /\ Pair(st["data"], st["media"]) /\ (framework \/ Primary)
                   /\ ~prompt
  BY <1>1, <1>2, Standing DEF Stage
<1>4. CASE pc' = 0
  BY <1>1, <1>3, <1>4, QuietStep DEF boot
<1>5. CASE OnAt(pc) = "data" /\ pc' = pc + 1 /\ UNCHANGED call
  <2>1. DoAt(pc') = "status" /\ OnAt(pc') = "media" /\ pc' \in Nat /\ pc' # 0
    BY <1>2, <1>5 DEF Then, Is
  <2>2. ~troubled => Stage("status", "media", call.op, Primary, st["data"], st["media"], call.pw, call.new)
    BY <1>2, <1>3 DEF Stage
  <2> QED BY <1>1, <1>5, <2>1, <2>2, QuietStep DEF boot
<1> QED BY <1>1, <1>4, <1>5

LEMMA MeasureInStep ==
  ASSUME Types, InStep, Types', Measure
  PROVE  InStep'
<1>1. /\ pc # 0 /\ DoAt(pc) = "measure" /\ UNCHANGED <<user, st, framework, boot, data>> /\ Judge
      /\ Proceed \/ Return("err")
  BY DEF Measure, Here, DoAt, Fails
<1>2. call.op = "encrypt" /\ Then("create", "data")
  BY <1>1, AtStep DEF OpeningOrder
<1>3. ~troubled => Stage("create", "data", call.op, Primary, st["data"], st["media"], call.pw, call.new)
  BY <1>1, Standing DEF Stage
<1>4. CASE Proceed
  <2>1. pc' \in Nat /\ pc' # 0 /\ UNCHANGED call /\ DoAt(pc') = "create" /\ OnAt(pc') = "data"
    BY <1>1, <1>2, <1>4, ProceedsTo
  <2> QED BY <1>1, <1>3, <2>1, QuietStep DEF boot
<1>5. CASE Return("err")
  BY <1>1, <1>5, QuietStep DEF boot
<1> QED BY <1>1, <1>4, <1>5

LEMMA CheckInStep ==
  ASSUME Types, InStep, Types', CheckCopy
  PROVE  InStep'
<1>1. /\ pc # 0 /\ DoAt(pc) = "check" /\ UNCHANGED <<user, st, framework, boot, data>> /\ Judge
      /\ Proceed \/ Return("err")
  BY DEF CheckCopy, Here, DoAt, budget
<1>2. Then("stop", "data")
  BY <1>1, AtStep DEF OpeningOrder
<1>3. ~troubled => Stage("stop", "data", call.op, Primary, st["data"], st["media"], call.pw, call.new)
  BY <1>1, Standing DEF Stage
<1>4. CASE Proceed
  <2>1. pc' \in Nat /\ pc' # 0 /\ UNCHANGED call /\ DoAt(pc') = "stop" /\ OnAt(pc') = "data"
    BY <1>1, <1>2, <1>4, ProceedsTo
  <2> QED BY <1>1, <1>3, <2>1, QuietStep DEF boot
<1>5. CASE Return("err")
  BY <1>1, <1>5, QuietStep DEF boot
<1> QED BY <1>1, <1>4, <1>5

LEMMA StopInStep ==
  ASSUME Types, InStep, Types', StopFramework
  PROVE  InStep'
<1>1. pc # 0 /\ DoAt(pc) = "stop" /\ UNCHANGED <<user, st, boot, data>> /\ Judge /\ Proceed
  BY DEF StopFramework, Here, DoAt
<1>2. /\ \/ call.op = "encrypt" /\ Then("create", "data")
         \/ call.op \in {"unlock", "unlock_init"} /\ Then("find", "data")
         \/ call.op = "decrypt" /\ Then("lock", "data")
      /\ call.op \in {"encrypt", "decrypt", "unlock_init"} \/ Primary
  BY <1>1, AtStep DEF OpeningOrder, Opening
<1>3. ~troubled => \A next \in {"create", "lock"} :
        Stage(next, "data", call.op, Primary, st["data"], st["media"], call.pw, call.new)
  BY <1>1, Standing DEF Stage, Pair
<1>4. ~troubled /\ call.op \in {"unlock", "unlock_init"} =>
        Stage("find", "data", call.op, Primary, st["data"], st["media"], call.pw, call.new)
  BY <1>1, Standing DEF Stage
<1>5. ASSUME NEW next \in {"create", "lock", "find"}, Then(next, "data"),
             next = "find" => call.op \in {"unlock", "unlock_init"}
      PROVE  InStep'
  <2>1. pc' \in Nat /\ pc' # 0 /\ UNCHANGED call /\ DoAt(pc') = next /\ OnAt(pc') = "data"
    BY <1>1, <1>5, ProceedsTo
  <2>2. ~troubled => Stage(next, "data", call.op, Primary, st["data"], st["media"], call.pw, call.new)
    BY <1>3, <1>4, <1>5
  <2> QED BY <1>1, <1>2, <2>1, <2>2, QuietStep DEF boot
<1> QED BY <1>2, <1>5

LEMMA StartFrameworkInStep ==
  ASSUME Types, InStep, Types', StartFramework
  PROVE  InStep'
<1>1. /\ pc # 0 /\ DoAt(pc) = "start" /\ UNCHANGED <<user, st, data>> /\ Judge /\ Proceed
      /\ framework' = TRUE /\ prompt' = FALSE
  BY DEF StartFramework, Here, DoAt
<1>2. Last
  BY <1>1, AtStep DEF OpeningOrder
<1>3. pc' = 0
  BY <1>1, <1>2 DEF Last, Proceed, Return, Size
<1>4. ~troubled => Pair(st["data"], st["media"])
  BY <1>1, Standing DEF Stage
<1> QED BY <1>1, <1>3, <1>4, QuietStep

LEMMA InStepNext ==
  ASSUME Types, Prompted, InStep, [Next]_vars
  PROVE  InStep'
<1>0. Types'
  BY TypesNext
<1>1. CASE EfsCall
  BY <1>0, <1>1, EfsCallInStep
<1>2. CASE Wipe
  BY <1>0, <1>2, WipeInStep
<1>3. CASE LockMiss
  BY <1>0, <1>3, LockMissInStep
<1>4. CASE FindStorage
  BY <1>0, <1>4, FindInStep
<1>5. CASE ProbeStorage
  BY <1>0, <1>5, ProbeInStep
<1>6. CASE ReadStatus
  BY <1>0, <1>6, StatusInStep
<1>7. CASE Measure
  BY <1>0, <1>7, MeasureInStep
<1>8. CASE CheckCopy
  BY <1>0, <1>8, CheckInStep
<1>9. CASE StopFramework
  BY <1>0, <1>9, StopInStep
<1>10. CASE StartFramework
  BY <1>0, <1>10, StartFrameworkInStep
<1>11. CASE Kill
  <2>1. pc # 0 /\ Return("none") /\ UNCHANGED <<user, st, boot, data>> /\ Judge
    BY <1>11 DEF Kill, Dies
  <2> QED BY <1>0, <2>1, QuietStep DEF boot
<1>12. CASE Restart \/ Reboot
  BY <1>12, BootInStep
<1>13. CASE \E c \in UserArgs : Start(c)
  BY <1>13, StartInStep
<1>14. CASE \E s \in Places, i \in Items : AppWrite(s, i)
  BY <1>14, AppWriteInStep
<1>15. CASE RestartFramework
  BY <1>15, OtherUserInStep
<1>16. CASE UNCHANGED vars
  <2>1. UNCHANGED <<user, st, framework, prompt, pc, call, data, began, troubled>>
    BY <1>16 DEF vars, boot, caller, ghosts
  <2>2. StageNow => StageNow'
    BY <2>1, Arrives DEF StageNow
  <2> QED BY <2>1, <2>2 DEF InStep, Resting, Running, BeganWell, Primary
<1> QED BY <1>1, <1>2, <1>3, <1>4, <1>5, <1>6, <1>7, <1>8, <1>9, <1>10, <1>11, <1>12, <1>13,
           <1>14, <1>15, <1>16 DEF Next, Step

\* The invariant of the two theorems that follow.
Steady == Types /\ Prompted /\ InStep

LEMMA SteadyNext ==
  /\ Init => Steady
  /\ Steady /\ [Next]_vars => Steady'
<1>1. Init => Prompted
  BY DEF Init, Prompted
<1> QED BY <1>1, TypesInit, InStepInit, TypesNext, PromptedNext, InStepNext DEF Steady

\* Both storages of a user are in the same condition, with one password, until
\* a call fails half-way or the primary user is locked.
THEOREM LockstepCorrect == Spec => []Lockstep
<1>1. InStep => Lockstep
  BY DEF InStep, Resting, Lockstep, Shape, Holds, Pair, SameKeys
<1>2. Steady => InStep
  BY DEF Steady
<1> QED BY <1>1, <1>2, SteadyNext, PTL DEF Spec

-----------------------------------------------------------------------------
(* The first failure loses nothing.                                          *)

LEMMA EfsCallSafe ==
  ASSUME Types, InStep, ~troubled, EfsCall, NEW t \in Places
  PROVE  data'[t] \subseteq Reach(st'[t])
<1>1. PICK y \in Storage : Ran(y)
  BY EfsCallRan
<1> DEFINE s == OnAt(pc)
           x == st[s]
           op == DoAt(pc)
           gone == op = "remove" /\ x.priv /\ x.at = "none"
<1>2. pc # 0 /\ s \in Places /\ x \in Storage
  BY EfsCallRan, AtStep
<1>3. /\ Leave(s, y) /\ Sound(x, y, data[s], op)
      /\ data' = IF gone THEN [data EXCEPT ![s] = {}] ELSE data
  BY <1>1 DEF Ran
<1>4. /\ st'[s] = y
      /\ t # s => /\ st'[t].clear = st[t].clear /\ st'[t].cipher = st[t].cipher
                  /\ st'[t].stat = st[t].stat
  BY <1>2, <1>3, Left DEF Types, Stores
<1>5. /\ data'[s] = IF gone THEN {} ELSE data[s]
      /\ t # s => data'[t] = data[t]
  BY <1>2, <1>3 DEF Types
<1>6. \A u \in Places : Shape(st[u]) /\ Holds(st[u], data[u]) /\ data[u] \subseteq Reach(st[u])
  BY DEF InStep, Shape, Holds, Reach, HasHeader
<1>7. data'[s] \subseteq Reach(y)
  <2>1. Shape(x) /\ Holds(x, data[s]) /\ data[s] \subseteq Reach(x)
    BY <1>2, <1>6
  <2> HIDE DEF x, op
  <2> QED BY <1>3, <1>5, <2>1 DEF Shape, Holds, Sound, HasHeader, gone
<1>8. t # s => Reach(st'[t]) = Reach(st[t])
  BY <1>4 DEF Reach, HasHeader
<1> QED BY <1>4, <1>5, <1>6, <1>7, <1>8

LEMMA WipeSafe ==
  ASSUME Types, InStep, ~troubled, Wipe, NEW t \in Places
  PROVE  data'[t] \subseteq Reach(st'[t])
<1> DEFINE s == OnAt(pc)
           x == st[s]
<1>1. pc # 0 /\ DoAt(pc) = "wipe" /\ data' = data
  BY WipeRan
<1>2. PICK y \in Storage : Leave(s, y) /\ y.cipher = x.cipher /\ y.stat = x.stat
  BY WipeRan
<1>3. s \in Places
  BY <1>1, AtStep
<1>4. /\ st'[s] = y
      /\ t # s => /\ st'[t].clear = st[t].clear /\ st'[t].cipher = st[t].cipher
                  /\ st'[t].stat = st[t].stat
  BY <1>2, <1>3, Left DEF Types, Stores
<1>5. \A u \in Places : Shape(st[u]) /\ Holds(st[u], data[u]) /\ data[u] \subseteq Reach(st[u])
  BY DEF InStep, Shape, Holds, Reach, HasHeader
<1>6. x.priv
  BY <1>1, <1>3, Standing DEF Stage, SameKeys, Places
<1>7. data[s] \subseteq Reach(y)
  BY <1>2, <1>3, <1>5, <1>6 DEF Shape, Holds, Reach, HasHeader
<1>8. t # s => Reach(st'[t]) = Reach(st[t])
  BY <1>4 DEF Reach, HasHeader
<1> QED BY <1>1, <1>4, <1>5, <1>7, <1>8

\* The first call that fails half-way, dies or is cut off by a restart loses
\* nothing of what the user keeps.
THEOREM FirstFailureCorrect == Spec => FirstFailureHarmless
<1>1. ASSUME Types, Prompted, InStep, Next, ~troubled
      PROVE  \A s \in Places : Safe(s)'
  <2> SUFFICES ASSUME NEW s \in Places PROVE data'[s] \subseteq Reach(st'[s])
    BY DEF Safe, Reach
  <2>1. \A t \in Places : data[t] \subseteq Reach(st[t])
    BY <1>1 DEF InStep, Shape, Holds, Reach, HasHeader
  <2>2. CASE EfsCall
    BY <1>1, <2>2, EfsCallSafe
  <2>3. CASE Wipe
    BY <1>1, <2>3, WipeSafe
  <2>4. CASE Quiet
    BY <1>1, <2>1, <2>4, QuietRan
  <2>5. CASE Restart \/ Reboot
    <3>1. /\ data' = data /\ st'[s].clear = st[s].clear
          /\ st'[s].cipher = st[s].cipher /\ st'[s].stat = st[s].stat
      BY <1>1, <2>5, BootTypes, UnmountedFields
    <3> QED BY <2>1, <3>1 DEF Reach, HasHeader
  <2>6. CASE \E c \in UserArgs : Start(c)
    BY <2>1, <2>6 DEF Start
  <2>7. CASE \E t \in Places, i \in Items : AppWrite(t, i)
    <3>1. InStep' /\ ~troubled'
      BY <1>1, <2>7, AppWriteInStep DEF AppWrite, Judge, Here
    <3>2. Shape(st'[s]) /\ Holds(st'[s], data'[s])
      BY <3>1 DEF InStep
    <3> QED BY <3>2 DEF Shape, Holds, Reach, HasHeader
  <2>8. CASE RestartFramework
    <3>1. PICK y \in Storage :
            /\ Leave("data", y) /\ y.priv = st["data"].priv
            /\ y.cipher = st["data"].cipher /\ y.stat = st["data"].stat
      BY <1>1, <2>8, OtherUserRan
    <3>2. /\ st'["data"] = y
          /\ s # "data" => /\ st'[s].clear = st[s].clear /\ st'[s].cipher = st[s].cipher
                           /\ st'[s].stat = st[s].stat
      BY <1>1, <3>1, Left DEF Types, Stores, Places
    <3>3. prompt /\ data' = data /\ Shape(st["data"]) /\ Holds(st["data"], data["data"])
      BY <1>1, <2>8, OtherUserRan DEF InStep, Places
    <3>4. s = "data" => data'[s] \subseteq Reach(st'[s])
      BY <1>1, <3>1, <3>2, <3>3 DEF Prompted, Shape, Holds, Reach, HasHeader
    <3>5. s # "data" => data'[s] \subseteq Reach(st'[s])
      BY <2>1, <3>2, <3>3 DEF Reach, HasHeader
    <3> QED BY <3>4, <3>5
  <2> QED BY <1>1, <2>2, <2>3, <2>4, <2>5, <2>6, <2>7, <2>8 DEF Next, Step, Quiet
<1>2. Steady /\ [Next]_vars => [~troubled => \A s \in Places : Safe(s)']_vars
  BY <1>1 DEF Steady
<1> QED BY <1>2, SteadyNext, PTL DEF Spec, FirstFailureHarmless

-----------------------------------------------------------------------------
(* What the calls promise when they return 0.                                *)

ButRec(x, y) == /\ y.clear = x.clear /\ y.cipher = x.cipher /\ y.priv = x.priv
                /\ y.stat = x.stat /\ y.pass = x.pass /\ y.at = x.at

\* What an encrypt or a decrypt has done to d and m before the step do on the
\* storage on, and what a status call has read.
Promised(do, on, op, first, d, m, read) ==
  /\ op = "encrypt" =>
       /\ do = "create" /\ on = "media" => Sealed(d) /\ d.at = "none"
       /\ do = "find" \/ (do \in {"wipe", "unlock"} /\ on = "data") =>
            Sealed(d) /\ Sealed(m) /\ Closed(d, m)
       /\ do \in {"probe", "wipe", "unlock"} /\ on = "media" =>
            Sealed(d) /\ Sealed(m) /\ d.at = "S" /\ m.at = "none"
       /\ do = "start" => Sealed(d) /\ Sealed(m) /\ d.at = "S" /\ m.at = "S"
       /\ do = "reboot" => Sealed(d) /\ Sealed(m)
  /\ op = "decrypt" =>
       /\ do = "lock" /\ on = "media" /\ ~first => Cleared(d)
       /\ do = "recover" /\ on = "media" => Cleared(d)
       /\ do \in {"start", "reboot"} => Cleared(d) /\ Cleared(m) /\ ~d.rec /\ ~m.rec
  /\ do = "status" /\ on = "media" => HasHeader(d) /\ read = d.stat

Pact == pc # 0 => Promised(DoAt(pc), OnAt(pc), call.op, Primary, st["data"], st["media"], got)
PactNext(d, m) ==
  pc # Size => Promised(DoAt(pc + 1), OnAt(pc + 1), call.op, Primary, d, m, got)

LEMMA PactStep ==
  ASSUME Types, Pact, pc # 0, NEW y \in Storage, DoAt(pc) \in EfsOps, Leave(OnAt(pc), y),
         Worked(DoAt(pc), st[OnAt(pc)], y, call.pw, call.new)
  PROVE  PactNext(st'["data"], st'["media"])
<1> DEFINE d == st["data"]
           m == st["media"]
           d2 == st'["data"]
           m2 == st'["media"]
<1>1. /\ OpeningOrder /\ OtherOrder /\ OnAt(pc) \in {"data", "media"}
      /\ pc \in Nat /\ Size \in Nat
  BY AtStep DEF Places
<1>2. /\ (d.at # "none" => d.priv) /\ (m.at # "none" => m.priv)
      /\ d.priv \in BOOLEAN /\ m.priv \in BOOLEAN /\ y.priv \in BOOLEAN
  BY DEF Types, Stores, Places, Storage
<1>3. d2.rec = y.rec /\ m2.rec = y.rec
  BY <1>1, Left DEF Types, Stores, Places
<1>4. st'[OnAt(pc)] = y /\ \A t \in Places : t # OnAt(pc) => ButRec(st[t], st'[t])
  BY <1>1, Left DEF Types, Stores, Places, ButRec
<1> HIDE DEF d, m
<1> USE DEF Then, Now, Is, Last
<1>5. ASSUME DoAt(pc) = "create", OnAt(pc) = "data" PROVE PactNext(d2, m2)
  <2>1. Promised("create", "data", call.op, Primary, d, m, got)
    BY <1>5 DEF Pact, d, m
  <2>2. Worked("create", d, y, call.pw, call.new) /\ d2 = y /\ ButRec(m, m2)
    BY <1>4, <1>5 DEF d, m, Places
  <2>3. Sealed(d2) /\ d2.at = "none"
    BY <1>2, <1>3, <1>4, <2>1, <2>2 DEF Promised, Worked, Closed, Alike, Cleared, ButRec, Sealed, HasHeader
  <2>4. call.op = "encrypt" /\ Then("create", "media")
    BY <1>1, <1>5 DEF OpeningOrder, Opening
  <2> QED BY <1>1, <2>3, <2>4 DEF PactNext, Promised
<1>6. ASSUME DoAt(pc) = "create", OnAt(pc) = "media" PROVE PactNext(d2, m2)
  <2>1. Promised("create", "media", call.op, Primary, d, m, got)
    BY <1>6 DEF Pact, d, m
  <2>2. Worked("create", m, y, call.pw, call.new) /\ m2 = y /\ ButRec(d, d2)
    BY <1>4, <1>6 DEF d, m, Places
  <2>3. call.op = "encrypt" /\ (Then("reboot", "data") \/ Then("find", "data"))
    BY <1>1, <1>6 DEF OpeningOrder, Opening
  <2>4. Sealed(d2) /\ Sealed(m2) /\ Closed(d2, m2)
    BY <1>2, <1>3, <1>4, <2>1, <2>2, <2>3 DEF Promised, Worked, Closed, ButRec, Sealed
  <2> QED BY <1>1, <2>3, <2>4 DEF PactNext, Promised
<1>7. ASSUME DoAt(pc) = "unlock", OnAt(pc) = "data" PROVE PactNext(d2, m2)
  <2>1. Promised("unlock", "data", call.op, Primary, d, m, got)
    BY <1>7 DEF Pact, d, m
  <2>2. Worked("unlock", d, y, call.pw, call.new) /\ d2 = y /\ ButRec(m, m2)
    BY <1>4, <1>7 DEF d, m, Places
  <2>3. call.op = "encrypt" => Sealed(d2) /\ Sealed(m2) /\ d2.at = "S" /\ m2.at = "none"
    BY <1>2, <1>3, <1>4, <2>1, <2>2 DEF Promised, Worked, Closed, Alike, Cleared, ButRec, Sealed, HasHeader
  <2>4. Opening /\ Then("probe", "media")
    BY <1>1, <1>7 DEF OpeningOrder, Opening
  <2> QED BY <1>1, <2>3, <2>4 DEF PactNext, Promised
<1>8. ASSUME DoAt(pc) = "unlock", OnAt(pc) = "media" PROVE PactNext(d2, m2)
  <2>1. Promised("unlock", "media", call.op, Primary, d, m, got)
    BY <1>8 DEF Pact, d, m
  <2>2. Worked("unlock", m, y, call.pw, call.new) /\ m2 = y /\ ButRec(d, d2)
    BY <1>4, <1>8 DEF d, m, Places
  <2>3. call.op = "encrypt" => Sealed(d2) /\ Sealed(m2) /\ d2.at = "S" /\ m2.at = "S"
    BY <1>2, <1>3, <1>4, <2>1, <2>2 DEF Promised, Worked, Closed, Alike, Cleared, ButRec, Sealed, HasHeader
  <2>4. Opening /\ (Last \/ Then("start", "data"))
    BY <1>1, <1>8 DEF OpeningOrder, Opening
  <2> QED BY <1>1, <2>3, <2>4 DEF PactNext, Promised, Opening
<1>9. ASSUME DoAt(pc) = "lock", OnAt(pc) = "data" PROVE PactNext(d2, m2)
  <2>1. Promised("lock", "data", call.op, Primary, d, m, got)
    BY <1>9 DEF Pact, d, m
  <2>2. Worked("lock", d, y, call.pw, call.new) /\ d2 = y /\ ButRec(m, m2)
    BY <1>4, <1>9 DEF d, m, Places
  <2>3. \/ Then("recover", "data")
        \/ call.op = "decrypt" /\ Primary /\ Then("lock", "media")
        \/ call.op = "lock" /\ Then("lock", "media")
    BY <1>1, <1>9 DEF OtherOrder
  <2> QED BY <1>1, <2>3 DEF PactNext, Promised
<1>10. ASSUME DoAt(pc) = "lock", OnAt(pc) = "media" PROVE PactNext(d2, m2)
  <2>1. Promised("lock", "media", call.op, Primary, d, m, got)
    BY <1>10 DEF Pact, d, m
  <2>2. Worked("lock", m, y, call.pw, call.new) /\ m2 = y /\ ButRec(d, d2)
    BY <1>4, <1>10 DEF d, m, Places
  <2>3. call.op = "decrypt" /\ ~Primary => Cleared(d2)
    BY <1>2, <1>3, <1>4, <2>1, <2>2 DEF Promised, Worked, Closed, Alike, Cleared, ButRec, Sealed, HasHeader
  <2>4. \/ call.op = "decrypt" /\ ~Primary /\ Then("recover", "media")
        \/ call.op = "decrypt" /\ Then("recover", "data")
        \/ call.op = "lock" /\ Last
    BY <1>1, <1>10 DEF OtherOrder
  <2> QED BY <1>1, <2>3, <2>4 DEF PactNext, Promised
<1>11. ASSUME DoAt(pc) = "recover", OnAt(pc) = "data" PROVE PactNext(d2, m2)
  <2>1. Promised("recover", "data", call.op, Primary, d, m, got)
    BY <1>11 DEF Pact, d, m
  <2>2. Worked("recover", d, y, call.pw, call.new) /\ d2 = y /\ ButRec(m, m2)
    BY <1>4, <1>11 DEF d, m, Places
  <2>3. Cleared(d2)
    BY <1>2, <1>3, <1>4, <2>1, <2>2 DEF Promised, Worked, Closed, Alike, Cleared, ButRec, Sealed, HasHeader
  <2>4. call.op = "decrypt" /\ (Then("recover", "media") \/ Then("lock", "media"))
    BY <1>1, <1>11 DEF OtherOrder
  <2> QED BY <1>1, <2>3, <2>4 DEF PactNext, Promised
<1>12. ASSUME DoAt(pc) = "recover", OnAt(pc) = "media" PROVE PactNext(d2, m2)
  <2>1. Promised("recover", "media", call.op, Primary, d, m, got)
    BY <1>12 DEF Pact, d, m
  <2>2. Worked("recover", m, y, call.pw, call.new) /\ m2 = y /\ ButRec(d, d2)
    BY <1>4, <1>12 DEF d, m, Places
  <2>3. call.op = "decrypt" /\ (Then("reboot", "data") \/ Then("start", "data"))
    BY <1>1, <1>12 DEF OtherOrder
  <2>4. Cleared(d2) /\ Cleared(m2) /\ ~d2.rec /\ ~m2.rec
    BY <1>3, <2>1, <2>2, <2>3 DEF Promised, Worked, Cleared, ButRec
  <2> QED BY <1>1, <2>3, <2>4 DEF PactNext, Promised
<1>13. ASSUME DoAt(pc) \in {"change", "remove"} PROVE PactNext(d2, m2)
  <2>1. call.op = DoAt(pc) /\ (Then(DoAt(pc), "media") \/ Last)
    BY <1>1, <1>13 DEF OtherOrder
  <2> QED BY <1>1, <1>13, <2>1 DEF PactNext, Promised
<1> QED BY <1>1, <1>5, <1>6, <1>7, <1>8, <1>9, <1>10, <1>11, <1>12, <1>13 DEF EfsOps

LEMMA PactArrives ==
  ASSUME UNCHANGED <<user, call>>, NEW n, pc' = n,
         Promised(DoAt(n), OnAt(n), call.op, Primary, st'["data"], st'["media"], got')
  PROVE  Pact'
<1>1. DoAt(pc)' = DoAt(n) /\ OnAt(pc)' = OnAt(n) /\ Primary' = Primary
  BY ProgramSame DEF DoAt, OnAt, Primary
<1>2. Promised(DoAt(pc), OnAt(pc), call.op, Primary, st["data"], st["media"], got)'
        = Promised(DoAt(pc)', OnAt(pc)', call.op, Primary', st'["data"], st'["media"], got')
  BY DEF Promised, Sealed, Closed, Cleared, HasHeader
<1> QED BY <1>1, <1>2 DEF Pact

LEMMA PactGoes ==
  ASSUME UNCHANGED user, Proceed, PactNext(st'["data"], st'["media"])
  PROVE  Pact'
<1>1. CASE pc = Size
  BY <1>1 DEF Proceed, Return, Pact, Size
<1>2. CASE pc # Size
  <2>1. pc' = pc + 1 /\ UNCHANGED <<call, got>>
    BY <1>2 DEF Proceed, GoTo, Size
  <2> QED BY <1>2, <2>1, PactArrives DEF PactNext
<1> QED BY <1>1, <1>2

LEMMA EfsCallPact ==
  ASSUME Types, Pact, EfsCall
  PROVE  Pact'
<1>1. PICK y \in Storage : Ran(y)
  BY EfsCallRan
<1> DEFINE s == OnAt(pc)
           x == st[s]
           op == DoAt(pc)
<1>2. pc # 0 /\ s \in Places
  BY EfsCallRan, AtStep
<1>3. /\ op \in EfsOps /\ Leave(s, y) /\ UNCHANGED user
      /\ \/ Proceed /\ Worked(op, x, y, call.pw, call.new)
         \/ Return("err") \/ Return("none")
         \/ Again(x, y, op)
  BY <1>1 DEF Ran
<1>4. CASE Proceed /\ Worked(op, x, y, call.pw, call.new)
  BY <1>2, <1>3, <1>4, PactStep, PactGoes
<1>5. CASE Return("err") \/ Return("none")
  BY <1>5 DEF Return, Pact
<1>6. CASE Again(x, y, op)
  <2>1. pc' = pc /\ UNCHANGED <<call, got>> /\ op = "lock" /\ call.op = "lock"
    BY <1>6 DEF caller, Again
  <2>2. Promised("lock", s, call.op, Primary, st'["data"], st'["media"], got)
    BY <2>1 DEF Promised
  <2> QED BY <1>3, <2>1, <2>2, PactArrives
<1> QED BY <1>3, <1>4, <1>5, <1>6

LEMMA WipePact ==
  ASSUME Types, Pact, Wipe
  PROVE  Pact'
<1> DEFINE s == OnAt(pc)
           x == st[s]
<1>1. pc # 0 /\ DoAt(pc) = "wipe" /\ UNCHANGED user
  BY WipeRan
<1>2. PICK y \in Storage :
         /\ Leave(s, y) /\ y.at = x.at /\ y.priv = x.priv
         /\ y.cipher = x.cipher /\ y.stat = x.stat
         /\ \/ y.clear = {} /\ Proceed
            \/ Return("err") \/ Return("none")
  BY WipeRan
<1>3. OpeningOrder /\ s \in {"data", "media"} /\ pc \in Nat
  BY <1>1, AtStep DEF Places
<1>4. Then("unlock", s)
  BY <1>1, <1>3 DEF OpeningOrder, Now, Is
<1>5. CASE y.clear = {} /\ Proceed
  <2>1. Promised("wipe", s, call.op, Primary, st["data"], st["media"], got)
    BY <1>1 DEF Pact
  <2>2. st'[s] = y /\ \A t \in Places : t # s => ButRec(st[t], st'[t])
    BY <1>2, <1>3, Left DEF Types, Stores, ButRec, Places
  <2>3. Promised("unlock", s, call.op, Primary, st'["data"], st'["media"], got)
    <3>1. CASE s = "data"
      BY <1>2, <1>5, <2>1, <2>2, <3>1 DEF Promised, Sealed, Closed, ButRec, Places
    <3>2. CASE s = "media"
      BY <1>2, <1>5, <2>1, <2>2, <3>2 DEF Promised, Sealed, Closed, ButRec, Places
    <3> QED BY <1>3, <3>1, <3>2
  <2> QED BY <1>1, <1>4, <1>5, <2>3, PactGoes DEF PactNext, Then, Is
<1>6. CASE Return("err") \/ Return("none")
  BY <1>6 DEF Return, Pact
<1> QED BY <1>2, <1>5, <1>6

LEMMA QuietPact ==
  ASSUME Types, Pact, Quiet
  PROVE  Pact'
<1>1. pc # 0 /\ UNCHANGED <<user, st>>
  BY QuietRan
<1>2. OpeningOrder /\ OtherOrder /\ pc \in Nat /\ Size \in Nat
  BY <1>1, AtStep
<1>3. Promised(DoAt(pc), OnAt(pc), call.op, Primary, st["data"], st["media"], got)
  BY <1>1 DEF Pact
<1>4. \A code : Return(code) => Pact'
  BY DEF Return, Pact
<1>5. ASSUME Proceed, NEW step, NEW s, Then(step, s),
             Promised(step, s, call.op, Primary, st["data"], st["media"], got)
      PROVE  Pact'
  BY <1>1, <1>5, PactGoes DEF PactNext, Then, Is
<1>6. CASE LockMiss
  <2>1. /\ DoAt(pc) = "miss"
        /\ Proceed \/ UNCHANGED caller \/ Return("err")
    BY <1>6 DEF LockMiss, Here, DoAt, Fails
  <2>2. call.op = "lock" /\ Then("lock", "media")
    BY <1>2, <2>1 DEF OtherOrder
  <2>3. Promised("lock", "media", call.op, Primary, st["data"], st["media"], got)
    BY <2>2 DEF Promised
  <2>4. UNCHANGED caller => Pact'
    BY <1>1, <1>3, PactArrives DEF caller
  <2> QED BY <1>4, <1>5, <2>1, <2>2, <2>3, <2>4
<1>7. CASE FindStorage
  <2>1. /\ DoAt(pc) = "find"
        /\ IF ~st[OnAt(pc)].priv THEN Return("err")
           ELSE IF st[OnAt(pc)].at # "none" THEN SkipUnlock
           ELSE Proceed
    BY <1>7 DEF FindStorage, Here, DoAt, OnAt, Place
  <2>2. OnAt(pc) = "data" /\ Opening /\ Then("wipe", "data")
    BY <1>2, <2>1 DEF OpeningOrder, Now, Is
  <2>3. call.op = "encrypt" => Sealed(st["data"]) /\ Sealed(st["media"]) /\ Closed(st["data"], st["media"])
    BY <1>3, <2>1 DEF Promised
  <2>4. Promised("wipe", "data", call.op, Primary, st["data"], st["media"], got)
    BY <2>2, <2>3 DEF Promised, Opening
  <2>5. CASE st["data"].at # "none" /\ SkipUnlock
    BY <1>4, <2>3, <2>5 DEF SkipUnlock, Closed
  <2> QED BY <1>4, <1>5, <2>1, <2>2, <2>4, <2>5
<1>8. CASE ProbeStorage
  <2>1. /\ DoAt(pc) = "probe"
        /\ IF st[OnAt(pc)].at = "S" THEN SkipUnlock ELSE Proceed
    BY <1>8 DEF ProbeStorage, Here, DoAt, OnAt, Place
  <2>2. OnAt(pc) = "media" /\ Opening /\ Then("wipe", "media")
    BY <1>2, <2>1 DEF OpeningOrder, Now, Is
  <2>3. call.op = "encrypt" => /\ Sealed(st["data"]) /\ Sealed(st["media"])
                               /\ st["data"].at = "S" /\ st["media"].at = "none"
    BY <1>3, <2>1, <2>2 DEF Promised
  <2>4. Promised("wipe", "media", call.op, Primary, st["data"], st["media"], got)
    BY <2>2, <2>3 DEF Promised, Opening
  <2>5. CASE st["media"].at = "S" /\ SkipUnlock
    BY <1>4, <2>3, <2>5 DEF SkipUnlock
  <2> QED BY <1>4, <1>5, <2>1, <2>2, <2>4, <2>5
<1>9. CASE ReadStatus
  <2>1. /\ DoAt(pc) = "status"
        /\ \/ pc' = 0
           \/ /\ HasHeader(st[OnAt(pc)]) /\ OnAt(pc) = "data" /\ got' = st[OnAt(pc)].stat
              /\ pc' = pc + 1 /\ UNCHANGED call
    BY <1>9 DEF ReadStatus, Here, DoAt, OnAt, Place, StatusIs, Return
  <2>2. CASE /\ HasHeader(st[OnAt(pc)]) /\ OnAt(pc) = "data" /\ got' = st[OnAt(pc)].stat
             /\ pc' = pc + 1 /\ UNCHANGED call
    <3>1. call.op = "status" /\ Then("status", "media")
      BY <1>2, <2>1, <2>2 DEF OtherOrder, Now, Is
    <3>2. Promised("status", "media", call.op, Primary, st'["data"], st'["media"], got')
      BY <1>1, <2>2, <3>1 DEF Promised
    <3> QED BY <1>1, <2>2, <3>1, <3>2, PactArrives DEF Then, Is
  <2> QED BY <2>1, <2>2 DEF Pact
<1>10. CASE Measure \/ CheckCopy \/ StopFramework
  <2>1. /\ DoAt(pc) \in {"measure", "check", "stop"}
        /\ Proceed \/ Return("err")
    BY <1>10 DEF Measure, CheckCopy, StopFramework, Here, DoAt, Fails
  <2>2. \/ Then("create", "data") \/ Then("lock", "data") \/ Then("stop", "data")
        \/ Then("find", "data") /\ call.op # "encrypt"
    BY <1>2, <2>1 DEF OpeningOrder, Opening
  <2>3. /\ \A step \in {"create", "lock", "stop"} :
             Promised(step, "data", call.op, Primary, st["data"], st["media"], got)
        /\ call.op # "encrypt" =>
             Promised("find", "data", call.op, Primary, st["data"], st["media"], got)
    BY DEF Promised
  <2> QED BY <1>4, <1>5, <2>1, <2>2, <2>3
<1>11. CASE StartFramework
  <2>1. DoAt(pc) = "start" /\ Proceed
    BY <1>11 DEF StartFramework, Here, DoAt
  <2>2. Last
    BY <1>2, <2>1 DEF OpeningOrder
  <2> QED BY <1>4, <2>1, <2>2 DEF Last, Proceed, Size
<1>12. CASE Kill
  BY <1>4, <1>12 DEF Kill, Dies
<1> QED BY <1>6, <1>7, <1>8, <1>9, <1>10, <1>11, <1>12 DEF Quiet

LEMMA StartPact ==
  ASSUME Types, NEW c \in UserArgs, Start(c)
  PROVE  Pact'
<1>1. pc' = 1 /\ call' = c /\ c.op \in UserCalls
  BY UserAssumption DEF Start, UserArgs, UserCalls
<1>2. (call.op \in UserCalls /\ pc = 1 =>
         /\ DoAt(pc) \in {"stop", "measure", "check", "find", "lock", "miss", "change", "remove", "status"}
         /\ OnAt(pc) = "data" /\ (call.op = "encrypt" => DoAt(pc) # "find"))'
  BY FirstStep, PTL
<1>3. ASSUME NEW do \in {"stop", "measure", "check", "find", "lock", "miss", "change", "remove", "status"},
             c.op = "encrypt" => do # "find", NEW first
      PROVE  Promised(do, "data", c.op, first, st'["data"], st'["media"], got')
  BY <1>3 DEF Promised
<1>4. Promised(DoAt(pc), OnAt(pc), call.op, Primary, st["data"], st["media"], got)'
        = Promised(DoAt(pc)', OnAt(pc)', c.op, Primary', st'["data"], st'["media"], got')
  BY <1>1 DEF Promised, Sealed, Closed, Cleared, HasHeader
<1> QED BY <1>1, <1>2, <1>3, <1>4 DEF Pact

LEMMA PactInvariant == Spec => [](Types /\ Pact)
<1>1. Init => Pact
  BY DEF Init, Pact
<1>2. ASSUME Types, Pact, [Next]_vars PROVE Pact'
  <2>1. CASE EfsCall
    BY <1>2, <2>1, EfsCallPact
  <2>2. CASE Wipe
    BY <1>2, <2>2, WipePact
  <2>3. CASE Quiet
    BY <1>2, <2>3, QuietPact
  <2>4. CASE Restart \/ Reboot
    BY <1>2, <2>4, BootTypes DEF Pact
  <2>5. CASE \E c \in UserArgs : Start(c)
    BY <1>2, <2>5, StartPact
  <2>6. CASE \E s \in Places, i \in Items : AppWrite(s, i)
    BY <2>6 DEF AppWrite, caller, Pact
  <2>7. CASE RestartFramework
    BY <2>7 DEF RestartFramework, caller, Pact
  <2>8. CASE UNCHANGED vars
    <3>1. UNCHANGED <<user, st, pc, call, got>>
      BY <2>8 DEF vars, caller
    <3> QED BY <1>2, <3>1, PactArrives DEF Pact
  <2> QED BY <1>2, <2>1, <2>2, <2>3, <2>4, <2>5, <2>6, <2>7, <2>8 DEF Next, Step, Quiet
<1>3. Types /\ Pact /\ [Next]_vars => Types' /\ Pact'
  BY <1>2, TypesNext
<1> QED BY <1>1, <1>3, TypesInit, PTL DEF Spec

\* An encrypt and a decrypt return 0 only from their last step.
LEMMA LastStep ==
  ASSUME Types, Next, pc # 0, pc' = 0, ret' = "ok", call.op \in {"encrypt", "decrypt"}
  PROVE  StartFramework \/ Restart
<1>1. OpeningOrder /\ OtherOrder /\ OnAt(pc) \in {"data", "media"} /\ pc \in Nat /\ Size \in Nat
  BY AtStep DEF Places
<1>2. \A code : Return(code) => code = "ok"
  BY DEF Return
<1>3. ASSUME Proceed PROVE Last
  BY <1>1, <1>3 DEF Proceed, GoTo, Last, Size
<1>4. Last => ~ \E step, s : Then(step, s)
  BY <1>1 DEF Last, Then
<1>5. CASE EfsCall
  <2>1. DoAt(pc) \in EfsOps /\ Last
    <3>1. PICK y \in Storage : Ran(y)
      BY <1>5, EfsCallRan
    <3> QED BY <1>2, <1>3, <3>1 DEF Ran, Again, caller
  <2> QED BY <1>1, <1>4, <2>1 DEF OpeningOrder, OtherOrder, Now, Is, EfsOps
<1>6. CASE Wipe
  <2>1. DoAt(pc) = "wipe" /\ Last
    BY <1>2, <1>3, <1>6, WipeRan
  <2> QED BY <1>1, <1>4, <2>1 DEF OpeningOrder, Now, Is
<1>7. CASE LockMiss \/ ReadStatus
  <2>1. DoAt(pc) \in {"miss", "status"}
    BY <1>7 DEF LockMiss, ReadStatus, Here, DoAt
  <2> QED BY <1>1, <2>1 DEF OtherOrder, Now, Is
<1>8. CASE FindStorage \/ ProbeStorage
  <2>1. /\ DoAt(pc) \in {"find", "probe"}
        /\ Proceed \/ SkipUnlock \/ Return("err")
    BY <1>8 DEF FindStorage, ProbeStorage, Here, DoAt
  <2>2. Opening /\ ~Last
    BY <1>1, <1>4, <2>1 DEF OpeningOrder
  <2>3. SkipUnlock /\ call.op = "encrypt"
    BY <1>2, <1>3, <2>1, <2>2 DEF Opening
  <2>4. pc' = Size
    BY <2>3 DEF SkipUnlock, GoTo, Size
  <2> QED BY <2>4, AtStep
<1>9. CASE Measure \/ CheckCopy \/ StopFramework
  <2>1. /\ DoAt(pc) \in {"measure", "check", "stop"}
        /\ Proceed \/ Return("err")
    BY <1>9 DEF Measure, CheckCopy, StopFramework, Here, DoAt, Fails
  <2> QED BY <1>1, <1>2, <1>3, <1>4, <2>1 DEF OpeningOrder, Opening
<1>10. CASE Kill \/ Reboot
  BY <1>2, <1>10 DEF Kill, Dies, Reboot
<1>11. CASE \/ \E c \in UserArgs : Start(c)
            \/ \E s \in Places, i \in Items : AppWrite(s, i)
            \/ RestartFramework
  BY <1>11 DEF Start, AppWrite, RestartFramework
<1> QED BY <1>5, <1>6, <1>7, <1>8, <1>9, <1>10, <1>11 DEF Next, Step

\* encrypt_user_data that returns 0 has sealed both storages; those of the
\* primary user are found at the boot, those of another user are open.
THEOREM EncryptContractCorrect == Spec => EncryptContract
<1>1. ASSUME Types, Pact, Next, Returns("encrypt", "ok")
      PROVE  /\ \A s \in Places : Sealed(st'[s])
             /\ IF Primary THEN prompt' ELSE framework' /\ \A s \in Places : Open(s)'
  <2>1. pc # 0 /\ call.op = "encrypt" /\ (StartFramework \/ Restart)
    BY <1>1, LastStep DEF Returns
  <2>2. OpeningOrder /\ Promised(DoAt(pc), OnAt(pc), "encrypt", Primary, st["data"], st["media"], got)
    BY <1>1, <2>1, AtStep DEF Pact
  <2>3. CASE StartFramework
    <3>1. DoAt(pc) = "start" /\ framework' = TRUE /\ st' = st /\ ~Primary
      BY <2>1, <2>2, <2>3 DEF StartFramework, Here, DoAt, OpeningOrder
    <3> QED BY <2>2, <3>1 DEF Promised, Open, Places
  <2>4. CASE Restart
    <3>1. DoAt(pc) = "reboot" /\ Primary /\ st' = Unmounted /\ prompt' = Detected
      BY <2>2, <2>4 DEF Restart, Here, DoAt, OpeningOrder, Booted
    <3>2. \A s \in Places : Sealed(st[s])
      BY <2>2, <3>1 DEF Promised, Places
    <3>3. Detected = TRUE
      BY <3>2 DEF Detected, Sealed
    <3> QED BY <1>1, <3>1, <3>2, <3>3, UnmountedFields DEF Sealed
  <2> QED BY <2>1, <2>3, <2>4
<1>2. Types /\ Pact /\ [Next]_vars =>
        [Returns("encrypt", "ok") =>
           /\ \A s \in Places : Sealed(st'[s])
           /\ IF Primary THEN prompt' ELSE framework' /\ \A s \in Places : Open(s)']_vars
  BY <1>1
<1> QED BY <1>2, PactInvariant, PTL DEF Spec, EncryptContract

LEMMA AllClear ==
  ASSUME NEW x \in Storage, Cleared(x), ~x.rec
  PROVE  x = InTheClear(x.clear)
BY DEF Storage, Cleared, InTheClear

\* decrypt_user_data that returns 0 has left nothing of the encryption.
THEOREM DecryptContractCorrect == Spec => DecryptContract
<1>1. ASSUME Types, Pact, Next, Returns("decrypt", "ok")
      PROVE  /\ \A s \in Places : st'[s] = InTheClear(st'[s].clear)
             /\ framework'
  <2>1. pc # 0 /\ call.op = "decrypt" /\ (StartFramework \/ Restart)
    BY <1>1, LastStep DEF Returns
  <2>2. /\ DoAt(pc) \in {"start", "reboot"} /\ framework' = TRUE
        /\ st' = st \/ st' = Unmounted
    BY <2>1 DEF StartFramework, Restart, Here, DoAt, Booted
  <2>3. Promised(DoAt(pc), OnAt(pc), "decrypt", Primary, st["data"], st["media"], got)
    BY <1>1, <2>1 DEF Pact
  <2>4. \A s \in Places : Cleared(st[s]) /\ ~st[s].rec
    BY <2>2, <2>3 DEF Promised, Places
  <2>5. \A s \in Places : Cleared(st'[s]) /\ ~st'[s].rec /\ st'[s] \in Storage
    BY <1>1, <2>2, <2>4, UnmountedFields DEF Cleared, Types, Stores
  <2> QED BY <2>2, <2>5, AllClear
<1>2. Types /\ Pact /\ [Next]_vars =>
        [Returns("decrypt", "ok") => /\ \A s \in Places : st'[s] = InTheClear(st'[s].clear)
                                     /\ framework']_vars
  BY <1>1
<1> QED BY <1>2, PactInvariant, PTL DEF Spec, DecryptContract

\* get_encrypted_user_status whose reads succeed answers COMPLETED exactly when
\* both key files say so.
THEOREM StatusTruthfulCorrect == Spec => StatusTruthful
<1> DEFINE Answer == pc # 0 /\ pc' = 0 /\ call.op = "status" /\ ret' # "none" /\ mishaps' = mishaps
           Truth == (ret' = "completed") = (\A s \in Places : st[s].stat = "completed")
<1>1. ASSUME Types, Pact, Next, Answer PROVE Truth
  <2>1. OpeningOrder /\ OtherOrder /\ DoAt(pc) \in StepNames /\ OnAt(pc) \in {"data", "media"}
        /\ mishaps \in Nat
    BY <1>1, UserAssumption, AtStep DEF Places, Types
  <2>2. DoAt(pc) = "status"
    BY <1>1, <2>1 DEF OpeningOrder, OtherOrder, Opening, Now, Is, StepNames, EfsOps
  <2>3. ReadStatus
    <3>1. \A step : Here(step) => step = "status"
      BY <2>2 DEF Here, DoAt
    <3>2. ~(Kill \/ Reboot)
      BY <1>1 DEF Kill, Dies, Reboot, Return
    <3>3. ~EfsCall
      BY <2>2 DEF EfsCall, DoAt, EfsOps
    <3> QED BY <1>1, <3>1, <3>2, <3>3 DEF Next, Step, LockMiss, Wipe, FindStorage, ProbeStorage, Measure,
               CheckCopy, StopFramework, StartFramework, Restart, Start, AppWrite, RestartFramework
  <2>4. ~Mishap
    BY <1>1, <2>1 DEF Mishap
  <2>5. pc \in Nat
    BY <1>1, AtStep
  <2>6. \/ ~HasHeader(st[OnAt(pc)]) /\ ret' = "ok"
        \/ /\ HasHeader(st[OnAt(pc)]) /\ OnAt(pc) = "media"
           /\ ret' = IF st[OnAt(pc)].stat = got THEN got ELSE "err"
    BY <1>1, <2>3, <2>4, <2>5 DEF ReadStatus, Here, OnAt, Place, StatusIs, Return
  <2>7. OnAt(pc) = "media" => HasHeader(st["data"]) /\ got = st["data"].stat
    BY <1>1, <2>2 DEF Pact, Promised
  <2> QED BY <2>1, <2>6, <2>7 DEF HasHeader, Places
<1>2. Types /\ Pact /\ [Next]_vars => [Answer => Truth]_vars
  BY <1>1
<1> QED BY <1>2, PactInvariant, PTL DEF Spec, StatusTruthful

=============================================================================
