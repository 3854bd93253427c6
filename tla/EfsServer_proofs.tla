-------------------------- MODULE EfsServer_proofs --------------------------
(* What the clients of efs-server are told is true, and what the framework is *)
(* told comes in order: for any number of threads, of edc processes, of       *)
(* commands and of deaths of the server.                                      *)
EXTENDS EfsServer, SequenceFacts

Commands == [n: Nat, form: Forms]
Answers  == [n: Nat, says: {"refused"} \cup Results]
Runs     == [n: Nat, link: Links, form: Forms]

\* The numbers of commands that wait on connection k, run, and are answered.
Nums(s)   == {e.n : e \in Elems(s)}
In(k)     == Nums(inbox[k])
RunOn(k)  == {r.n : r \in {s \in running : s.link = k}}
Out(k)    == Nums(outbox[k])
Held(k)   == In(k) \cup RunOn(k) \cup Out(k)
Increasing(s) == \A i, j \in 1..Len(s) : i < j => s[i].n < s[j].n

Types ==
  /\ link \in [Links -> {"none", "open", "left", "dropped"}]
  /\ inbox \in [Links -> Seq(Commands)] /\ outbox \in [Links -> Seq(Answers)]
  /\ running \subseteq Runs /\ waits \in [Clients -> Nat] /\ DOMAIN told = Clients
  /\ sent \in Nat /\ ran \in Seq({"no", "cut"} \cup Results) /\ Len(ran) = sent

\* Each number is on one connection only, and there the answers come before
\* the command that runs, and that one before those that wait.
Numbers ==
  /\ \A k \in Links : Held(k) \subseteq 1..sent
  /\ \A j, k \in Links : j # k => Held(j) \cap Held(k) = {}
Ordered == \A k \in Links :
  /\ \A m \in Out(k), n \in In(k) \cup RunOn(k) : m < n
  /\ \A m \in RunOn(k), n \in In(k) : m < n
  /\ Increasing(inbox[k])
OneRuns == \A r, s \in running : r = s
\* What is still to be carried out has not been.
Untouched == \A k \in Links : \A n \in In(k) \cup RunOn(k) : ran[n] = "no"
\* No two clients wait for one number.
Waiters ==
  /\ \A c \in Clients : waits[c] <= sent
  /\ \A c, d \in Clients : waits[c] = waits[d] /\ waits[c] # 0 => c = d

\* An answer tells what the library returned, unless nobody will read it.
Unread(k, i) ==
  \/ \E j \in 1..(i - 1) : outbox[k][j].n = outbox[k][i].n
  \/ \A c \in Clients : Link(c) = k => waits[c] # outbox[k][i].n
Truthful == \A k \in Links : \A i \in 1..Len(outbox[k]) :
  /\ outbox[k][i].says = "refused" => ran[outbox[k][i].n] = "no"
  /\ outbox[k][i].says \in Results =>
       ran[outbox[k][i].n] = outbox[k][i].says \/ Unread(k, i)

\* edc has a connection as long as it waits, and only its command is there.
OneShotAt(t) ==
  /\ (waits[t] # 0) = (link[t] \in {"open", "dropped"})
  /\ waits[t] # 0 => Held(t) \subseteq {waits[t]}
  /\ waits[t] = 0 => outbox[t] = <<>>
  /\ link[t] = "dropped" => In(t) \cup RunOn(t) = {}
  /\ link[t] = "none" => Held(t) = {}
OneShot == \A t \in Tools : OneShotAt(t)

\* The inductive invariant.
ServerInv == Types /\ Numbers /\ Ordered /\ OneRuns /\ Untouched /\ Waiters /\ Truthful /\ OneShot

-----------------------------------------------------------------------------
(* Queues.                                                                   *)

LEMMA LinkTypes == /\ \A c \in Clients : Link(c) \in Links
                   /\ \A t \in Tools : t \in Clients /\ t \in Links /\ Link(t) = t /\ t \notin Callers
                   /\ Java \in Links /\ \A c \in Callers : c \in Clients /\ Link(c) = Java
BY ClientAssumption DEF Clients, Links, Link

LEMMA EmptyNums == Elems(<<>>) = {} /\ Nums(<<>>) = {} /\ Increasing(<<>>)
BY DEF Elems, Nums, Increasing

LEMMA TailNums ==
  ASSUME NEW S, NEW s \in Seq(S), s # <<>>
  PROVE  /\ Head(s) \in S /\ Tail(s) \in Seq(S) /\ Len(Tail(s)) = Len(s) - 1 /\ Len(s) \in Nat \ {0}
         /\ Head(s) = s[1] /\ \A i \in 1..Len(Tail(s)) : Tail(s)[i] = s[i + 1] /\ i + 1 \in 1..Len(s)
         /\ Nums(s) = {Head(s).n} \cup Nums(Tail(s))
<1>1. Elems(s) = {Head(s)} \cup Elems(Tail(s)) /\ Head(s) \in S /\ Tail(s) \in Seq(S)
  BY TailElems
<1>2. Len(Tail(s)) = Len(s) - 1 /\ Head(s) = s[1] /\ Len(s) \in Nat \ {0}
  OBVIOUS
<1>3. \A i \in 1..Len(Tail(s)) : Tail(s)[i] = s[i + 1] /\ i + 1 \in 1..Len(s)
  OBVIOUS
<1> QED BY <1>1, <1>2, <1>3 DEF Nums

LEMMA AppendNums ==
  ASSUME NEW S, NEW s \in Seq(S), NEW e \in S
  PROVE  Nums(Append(s, e)) = Nums(s) \cup {e.n}
BY AppendElems DEF Nums

LEMMA ConcatNums ==
  ASSUME NEW S, NEW s \in Seq(S), NEW t \in Seq(S)
  PROVE  Nums(s \o t) = Nums(s) \cup Nums(t)
BY ConcatElems DEF Nums

LEMMA IncreasingTail ==
  ASSUME NEW s \in Seq(Commands), s # <<>>, Increasing(s)
  PROVE  Increasing(Tail(s)) /\ \A n \in Nums(Tail(s)) : Head(s).n < n
<1> DEFINE t == Tail(s)
<1>1. /\ Len(t) = Len(s) - 1 /\ Len(s) \in Nat \ {0} /\ Head(s) = s[1]
      /\ \A i \in 1..Len(t) : t[i] = s[i + 1] /\ i + 1 \in 1..Len(s)
  BY TailNums
<1>2. Increasing(t)
  <2> HIDE DEF t
  <2> SUFFICES ASSUME NEW i \in 1..Len(t), NEW j \in 1..Len(t), i < j PROVE t[i].n < t[j].n
    BY DEF Increasing
  <2>1. i + 1 < j + 1 /\ i + 1 \in 1..Len(s) /\ j + 1 \in 1..Len(s)
    BY <1>1
  <2>2. s[i + 1].n < s[j + 1].n
    BY <2>1 DEF Increasing
  <2> QED BY <1>1, <2>2
<1>3. \A n \in Nums(t) : Head(s).n < n
  <2> HIDE DEF t
  <2> SUFFICES ASSUME NEW i \in 1..Len(t) PROVE Head(s).n < t[i].n
    BY DEF Nums, Elems
  <2>1. 1 \in 1..Len(s) /\ i + 1 \in 1..Len(s) /\ 1 < i + 1
    BY <1>1
  <2>2. s[1].n < s[i + 1].n
    BY <2>1 DEF Increasing
  <2> QED BY <1>1, <2>2
<1> QED BY <1>2, <1>3

LEMMA IncreasingAppend ==
  ASSUME NEW s \in Seq(Commands), NEW e \in Commands, Increasing(s), \A n \in Nums(s) : n < e.n
  PROVE  Increasing(Append(s, e))
<1> DEFINE t == Append(s, e)
<1>1. Len(t) = Len(s) + 1 /\ t[Len(s) + 1] = e /\ \A i \in 1..Len(s) : t[i] = s[i]
  BY AppendElems
<1>2. Len(s) \in Nat
  OBVIOUS
<1> HIDE DEF t
<1> SUFFICES ASSUME NEW i \in 1..Len(t), NEW j \in 1..Len(t), i < j PROVE t[i].n < t[j].n
  BY DEF Increasing, t
<1>3. i \in 1..Len(s) /\ t[i] = s[i]
  BY <1>1, <1>2
<1>4. CASE j = Len(s) + 1
  <2>1. s[i].n \in Nums(s)
    BY <1>3 DEF Nums, Elems
  <2> QED BY <1>1, <1>3, <1>4, <2>1
<1>5. CASE j # Len(s) + 1
  <2>1. j \in 1..Len(s) /\ t[j] = s[j]
    BY <1>1, <1>2, <1>5
  <2> QED BY <1>3, <2>1 DEF Increasing
<1> QED BY <1>4, <1>5

LEMMA PendingIs == ASSUME NEW k \in Links PROVE Pending(k) = RunOn(k) \cup In(k)
BY DEF Pending, RunOn, In, Nums, Elems

-----------------------------------------------------------------------------
(* Steps that add no command and no answer.                                  *)

LEMMA InitServerInv == ASSUME Init PROVE ServerInv
<1>1. Types
  <2>1. <<>> \in Seq(Commands) /\ <<>> \in Seq(Answers) /\ <<>> \in Seq({"no", "cut"} \cup Results)
    OBVIOUS
  <2> QED BY <2>1 DEF Init, Types
<1>2. \A k \in Links : inbox[k] = <<>> /\ outbox[k] = <<>> /\ Len(outbox[k]) = 0
  BY DEF Init
<1>3. \A k \in Links : In(k) = {} /\ RunOn(k) = {} /\ Out(k) = {}
  BY <1>2, EmptyNums DEF Init, In, RunOn, Out
<1>4. Numbers /\ Ordered /\ OneRuns /\ Untouched
  BY <1>2, <1>3, EmptyNums DEF Init, Numbers, Held, Ordered, OneRuns, Untouched
<1>5. Waiters
  BY DEF Init, Waiters
<1>6. Truthful
  BY <1>2 DEF Truthful
<1>7. OneShot
  BY <1>2, <1>3, LinkTypes, ClientAssumption DEF Init, OneShot, OneShotAt, Held
<1> QED BY <1>1, <1>4, <1>5, <1>6, <1>7 DEF ServerInv

\* The queues only get shorter, and clients stop waiting.
LEMMA FewerKeeps ==
  ASSUME ServerInv, UNCHANGED <<inbox, running, sent, ran>>,
         \A k \in Links : \/ outbox'[k] = outbox[k]
                          \/ outbox'[k] = <<>>
                          \/ outbox[k] # <<>> /\ outbox'[k] = Tail(outbox[k]),
         \A c \in Clients : waits'[c] = waits[c] \/ waits'[c] = 0
  PROVE  /\ Numbers' /\ Ordered' /\ OneRuns' /\ Untouched' /\ Waiters'
         /\ \A k : In(k)' = In(k) /\ RunOn(k)' = RunOn(k)
         /\ \A k \in Links : Out(k)' \subseteq Out(k)
<1>1. \A k : In(k)' = In(k) /\ RunOn(k)' = RunOn(k)
  BY DEF In, RunOn
<1>2. \A k \in Links : Out(k)' \subseteq Out(k)
  <2> TAKE k \in Links
  <2>1. outbox[k] \in Seq(Answers)
    BY DEF ServerInv, Types
  <2>2. Out(k) = Nums(outbox[k]) /\ Out(k)' = Nums(outbox'[k])
    BY DEF Out
  <2>3. CASE outbox[k] # <<>> /\ outbox'[k] = Tail(outbox[k])
    BY <2>1, <2>2, <2>3, TailNums
  <2> QED BY <2>2, <2>3, EmptyNums
<1>3. Numbers'
  BY <1>1, <1>2 DEF ServerInv, Numbers, Held
<1>4. Ordered'
  BY <1>1, <1>2 DEF ServerInv, Ordered
<1>5. OneRuns' /\ Untouched'
  BY <1>1 DEF ServerInv, OneRuns, Untouched
<1>6. Waiters'
  <2>1. sent \in Nat
    BY DEF ServerInv, Types
  <2> QED BY <2>1 DEF ServerInv, Waiters
<1> QED BY <1>1, <1>2, <1>3, <1>4, <1>5, <1>6

\* No answer is taken from its place.
LEMMA TruthKept ==
  ASSUME ServerInv, ran' = ran,
         \A k \in Links : outbox'[k] = outbox[k] \/ outbox'[k] = <<>>,
         \A c \in Clients : waits'[c] = waits[c] \/ waits'[c] = 0
  PROVE  Truthful'
<1> SUFFICES ASSUME NEW k \in Links, NEW i \in 1..Len(outbox'[k])
             PROVE  /\ outbox'[k][i].says = "refused" => ran[outbox'[k][i].n] = "no"
                    /\ outbox'[k][i].says \in Results =>
                         ran[outbox'[k][i].n] = outbox'[k][i].says \/ Unread(k, i)'
  BY DEF Truthful
<1>1. outbox'[k] = outbox[k] /\ i \in 1..Len(outbox[k])
  <2>1. CASE outbox'[k] = <<>>
    BY <2>1
  <2>2. CASE outbox'[k] = outbox[k]
    BY <2>2
  <2> QED BY <2>1, <2>2
<1>3. outbox[k][i].n # 0
  <2>1. outbox[k][i].n \in Held(k)
    BY <1>1 DEF Held, Out, Nums, Elems
  <2>2. outbox[k][i].n \in 1..sent /\ sent \in Nat
    BY <2>1 DEF ServerInv, Types, Numbers
  <2> QED BY <2>2
<1>4. Unread(k, i) => Unread(k, i)'
  BY <1>1, <1>3 DEF Unread
<1> QED BY <1>1, <1>4 DEF ServerInv, Truthful

\* The three together.
LEMMA QuietKeeps ==
  ASSUME ServerInv, Types', OneShot', UNCHANGED <<inbox, running, sent, ran>>,
         \A k \in Links : outbox'[k] = outbox[k] \/ outbox'[k] = <<>>,
         \A c \in Clients : waits'[c] = waits[c] \/ waits'[c] = 0
  PROVE  ServerInv'
BY FewerKeeps, TruthKept DEF ServerInv

LEMMA StillKeeps ==
  ASSUME ServerInv, UNCHANGED <<running, ran, link, inbox, outbox, waits, told, sent>>
  PROVE  ServerInv'
<1>1. Types'
  BY DEF ServerInv, Types
<1>2. OneShot'
  BY DEF ServerInv, OneShot, OneShotAt, Held, In, RunOn, Out
<1> QED BY <1>1, <1>2, QuietKeeps

LEMMA TimeOutKeeps ==
  ASSUME ServerInv, NEW c \in Callers, TimeOut(c)
  PROVE  ServerInv'
<1>1. /\ UNCHANGED <<running, ran, link, inbox, outbox, sent>>
      /\ waits' = [waits EXCEPT ![c] = 0] /\ told' = [told EXCEPT ![c] = "failed"]
  BY DEF TimeOut, Ends, server, wires
<1>2. Types'
  BY <1>1 DEF ServerInv, Types
<1>3. \A d \in Clients : waits'[d] = waits[d] \/ waits'[d] = 0
  BY <1>1 DEF ServerInv, Types
<1>4. \A t \in Tools : waits'[t] = waits[t]
  BY <1>1, LinkTypes DEF ServerInv, Types
<1>5. OneShot'
  BY <1>1, <1>4 DEF ServerInv, OneShot, OneShotAt, Held, In, RunOn, Out
<1> QED BY <1>1, <1>2, <1>3, <1>5, QuietKeeps

LEMMA ReconnectKeeps ==
  ASSUME ServerInv, Reconnect
  PROVE  ServerInv'
<1>1. UNCHANGED <<running, ran, inbox, outbox, waits, told, sent>> /\ link' = [link EXCEPT ![Java] = "open"]
  BY DEF Reconnect, server, clients
<1>2. Types'
  BY <1>1 DEF ServerInv, Types
<1>3. \A t \in Tools : link'[t] = link[t]
  BY <1>1, LinkTypes, ClientAssumption DEF ServerInv, Types
<1>4. OneShot'
  BY <1>1, <1>3 DEF ServerInv, OneShot, OneShotAt, Held, In, RunOn, Out
<1> QED BY <1>1, <1>2, <1>4, QuietKeeps

LEMMA CloseKeeps ==
  ASSUME ServerInv, NEW k \in Links, Close(k)
  PROVE  ServerInv'
<1>1. /\ UNCHANGED <<running, ran, inbox, outbox, waits, told, sent>>
      /\ link' = [link EXCEPT ![k] = IF @ = "left" THEN "none" ELSE @]
      /\ running = {} /\ inbox[k] = <<>>
  BY DEF Close, clients, Idle
<1>2. Types'
  BY <1>1 DEF ServerInv, Types
<1>3. \A t \in Tools : \/ link'[t] = link[t]
                       \/ t = k /\ link[t] = "left" /\ link'[t] = "none"
  BY <1>1, LinkTypes DEF ServerInv, Types
<1>4. ASSUME NEW t \in Tools, t = k, link[t] = "left" PROVE waits[t] = 0 /\ Held(t)' = {}
  <2>1. waits[t] = 0 /\ outbox[t] = <<>>
    BY <1>4 DEF ServerInv, OneShot, OneShotAt
  <2>2. In(t)' = {} /\ RunOn(t)' = {} /\ Out(t)' = {}
    BY <1>1, <1>4, <2>1, EmptyNums DEF In, RunOn, Out
  <2> QED BY <2>1, <2>2 DEF Held
<1>5. \A t : Held(t)' = Held(t) /\ In(t)' = In(t) /\ RunOn(t)' = RunOn(t)
  BY <1>1 DEF Held, In, RunOn, Out
<1>6. OneShot'
  <2> SUFFICES ASSUME NEW t \in Tools PROVE OneShotAt(t)'
    BY DEF OneShot
  <2>1. CASE link'[t] = link[t]
    BY <1>1, <1>5, <2>1 DEF ServerInv, OneShot, OneShotAt
  <2>2. CASE t = k /\ link[t] = "left" /\ link'[t] = "none"
    BY <1>1, <1>4, <2>2 DEF ServerInv, OneShot, OneShotAt
  <2> QED BY <1>3, <2>1, <2>2
<1> QED BY <1>1, <1>2, <1>6, QuietKeeps

\* edc has its answer, or an EOF, or is interrupted.
LEMMA ToolLeavesKeeps ==
  ASSUME ServerInv, NEW t \in Tools, NEW what, Ends(t, what), UNCHANGED <<server, inbox, sent>>,
         waits[t] # 0, outbox' = [outbox EXCEPT ![t] = <<>>],
         link' = [link EXCEPT ![t] = IF @ = "dropped" THEN "none" ELSE "left"]
  PROVE  ServerInv'
<1>1. /\ UNCHANGED <<running, ran, inbox, sent>>
      /\ waits' = [waits EXCEPT ![t] = 0] /\ told' = [told EXCEPT ![t] = what]
  BY DEF Ends, server
<1>2. t \in Links /\ t \in Clients /\ <<>> \in Seq(Answers)
  BY LinkTypes
<1>3. Types'
  BY <1>1, <1>2 DEF ServerInv, Types
<1>4. /\ \A d \in Clients : d # t => waits'[d] = waits[d]
      /\ waits'[t] = 0 /\ outbox'[t] = <<>>
      /\ \A k \in Links : k # t => outbox'[k] = outbox[k] /\ link'[k] = link[k]
      /\ link'[t] = IF link[t] = "dropped" THEN "none" ELSE "left"
  BY <1>1, <1>2 DEF ServerInv, Types
<1>5. \A u : In(u)' = In(u) /\ RunOn(u)' = RunOn(u)
  BY <1>1 DEF In, RunOn
<1>6. OneShot'
  <2> SUFFICES ASSUME NEW u \in Tools PROVE OneShotAt(u)'
    BY DEF OneShot
  <2>1. CASE u # t
    <3>1. waits'[u] = waits[u] /\ outbox'[u] = outbox[u] /\ link'[u] = link[u]
      BY <1>4, <2>1, LinkTypes
    <3>2. Held(u)' = Held(u)
      BY <1>5, <3>1 DEF Held, Out
    <3> QED BY <1>5, <3>1, <3>2 DEF ServerInv, OneShot, OneShotAt
  <2>2. CASE u = t
    <3>1. Out(t)' = {}
      BY <1>4, EmptyNums DEF Out
    <3>2. link[t] = "dropped" => Held(t)' = {}
      BY <1>5, <3>1 DEF ServerInv, OneShot, OneShotAt, Held
    <3>3. link[t] # "dropped" => link'[t] = "left"
      BY <1>4
    <3>4. link[t] = "dropped" => link'[t] = "none"
      BY <1>4
    <3> QED BY <1>4, <2>2, <3>2, <3>3, <3>4 DEF OneShotAt
  <2> QED BY <2>1, <2>2
<1> QED BY <1>1, <1>3, <1>4, <1>6, QuietKeeps

LEMMA ToolEndsKeeps == ASSUME ServerInv, NEW t \in Tools, ToolEnds(t) PROVE ServerInv'
BY ToolLeavesKeeps DEF ToolEnds

LEMMA InterruptKeeps == ASSUME ServerInv, NEW t \in Tools, Interrupt(t) PROVE ServerInv'
<1>1. link' = [link EXCEPT ![t] = IF @ = "dropped" THEN "none" ELSE "left"]
  BY LinkTypes DEF Interrupt, ServerInv, Types
<1> QED BY <1>1, ToolLeavesKeeps DEF Interrupt

\* The connector reads an answer: the caller that waits for it waits no more,
\* so what comes after it under the same number is not for anybody.
LEMMA ReadAnswerMoves ==
  ASSUME ServerInv, ReadAnswer
  PROVE  LET a == Head(outbox[Java]) IN
         /\ UNCHANGED <<running, ran, inbox, link, sent>>
         /\ outbox[Java] # <<>> /\ outbox' = [outbox EXCEPT ![Java] = Tail(@)]
         /\ DOMAIN told' = Clients
         /\ waits' \in [Clients -> Nat]
         /\ \A c \in Clients : \/ waits'[c] = waits[c] /\ told'[c] = told[c]
                               \/ /\ c \in Callers /\ waits[c] = a.n /\ waits'[c] = 0
                                  /\ told'[c] = IF a.says = "refused" THEN "failed" ELSE a.says
         /\ \A c \in Callers : waits'[c] # a.n
<1> DEFINE a == Head(outbox[Java])
           for == {c \in Callers : waits[c] = a.n}
<1>1. /\ UNCHANGED <<running, ran, inbox, link, sent>>
      /\ outbox[Java] # <<>> /\ outbox' = [outbox EXCEPT ![Java] = Tail(@)]
  BY DEF ReadAnswer, server
<1>2. waits \in [Clients -> Nat] /\ DOMAIN told = Clients
  BY DEF ServerInv, Types
<1>3. a.n # 0
  <2>1. outbox[Java] \in Seq(Answers) /\ Java \in Links
    BY LinkTypes DEF ServerInv, Types
  <2>2. a.n \in Out(Java)
    BY <1>1, <2>1, TailNums DEF Out
  <2>3. a.n \in 1..sent /\ sent \in Nat
    BY <2>1, <2>2 DEF ServerInv, Numbers, Held, Types
  <2> QED BY <2>3
<1> HIDE DEF a
<1>4. CASE for = {} /\ UNCHANGED <<waits, told>>
  BY <1>1, <1>2, <1>4 DEF a
<1>5. CASE \E c \in for : Ends(c, IF a.says = "refused" THEN "failed" ELSE a.says)
  <2>1. PICK c \in for : Ends(c, IF a.says = "refused" THEN "failed" ELSE a.says)
    BY <1>5
  <2>2. c \in Callers /\ c \in Clients /\ waits[c] = a.n
    BY LinkTypes
  <2>3. /\ waits' = [waits EXCEPT ![c] = 0]
        /\ told' = [told EXCEPT ![c] = IF a.says = "refused" THEN "failed" ELSE a.says]
    BY <2>1 DEF Ends
  <2>4. \A d \in Callers : waits'[d] # a.n
    <3> TAKE d \in Callers
    <3>1. d = c \/ waits[d] # waits[c]
      BY <1>3, <2>2, LinkTypes DEF ServerInv, Waiters
    <3> QED BY <1>2, <1>3, <2>2, <2>3, <3>1, LinkTypes
  <2> QED BY <1>1, <1>2, <2>2, <2>3, <2>4 DEF a
<1> QED BY <1>4, <1>5 DEF ReadAnswer, clients, a

LEMMA ReadAnswerKeeps ==
  ASSUME ServerInv, ReadAnswer
  PROVE  ServerInv'
<1> DEFINE a == Head(outbox[Java])
           q == Tail(outbox[Java])
<1>1. /\ UNCHANGED <<running, ran, inbox, link, sent>>
      /\ outbox[Java] # <<>> /\ outbox' = [outbox EXCEPT ![Java] = q]
      /\ waits' \in [Clients -> Nat] /\ DOMAIN told' = Clients
      /\ \A c \in Clients : waits'[c] = waits[c] \/ (c \in Callers /\ waits'[c] = 0)
      /\ \A c \in Callers : waits'[c] # a.n
  BY ReadAnswerMoves
<1>2. /\ outbox[Java] \in Seq(Answers) /\ Java \in Links /\ Java \notin Tools
      /\ outbox \in [Links -> Seq(Answers)]
  BY LinkTypes, ClientAssumption DEF ServerInv, Types
<1>3. /\ q \in Seq(Answers) /\ Len(q) = Len(outbox[Java]) - 1 /\ Len(outbox[Java]) \in Nat \ {0}
      /\ a = outbox[Java][1]
      /\ \A i \in 1..Len(q) : q[i] = outbox[Java][i + 1] /\ i + 1 \in 1..Len(outbox[Java])
  BY <1>1, <1>2, TailNums
<1> HIDE DEF q, a
<1>4. outbox'[Java] = q /\ \A k \in Links : k # Java => outbox'[k] = outbox[k]
  BY <1>1, <1>2
<1>5. Types'
  BY <1>1, <1>2, <1>3 DEF ServerInv, Types
<1>6. /\ Numbers' /\ Ordered' /\ OneRuns' /\ Untouched' /\ Waiters'
      /\ \A k : In(k)' = In(k) /\ RunOn(k)' = RunOn(k)
  BY <1>1, <1>4, FewerKeeps DEF q
<1>7. OneShot'
  <2> SUFFICES ASSUME NEW t \in Tools PROVE OneShotAt(t)'
    BY DEF OneShot
  <2>1. waits'[t] = waits[t] /\ outbox'[t] = outbox[t] /\ link'[t] = link[t]
    BY <1>1, <1>2, <1>4, LinkTypes
  <2>2. Held(t)' = Held(t)
    BY <1>6, <2>1 DEF Held, Out
  <2> QED BY <1>6, <2>1, <2>2 DEF ServerInv, OneShot, OneShotAt
<1>8. Truthful'
  <2> SUFFICES ASSUME NEW k \in Links, NEW i \in 1..Len(outbox'[k])
               PROVE  /\ outbox'[k][i].says = "refused" => ran[outbox'[k][i].n] = "no"
                      /\ outbox'[k][i].says \in Results =>
                           ran[outbox'[k][i].n] = outbox'[k][i].says \/ Unread(k, i)'
    BY <1>1 DEF Truthful
  <2>0. ASSUME NEW n \in 1..sent, NEW c \in Clients, waits[c] # n PROVE waits'[c] # n
    BY <1>1, <2>0
  <2>1. CASE k # Java
    <3>1. outbox'[k] = outbox[k] /\ i \in 1..Len(outbox[k])
      BY <1>4, <2>1
    <3>2. outbox[k][i].n \in 1..sent
      BY <3>1 DEF ServerInv, Numbers, Held, Out, Nums, Elems
    <3>3. Unread(k, i) => Unread(k, i)'
      BY <2>0, <3>1, <3>2 DEF Unread
    <3> QED BY <3>1, <3>3 DEF ServerInv, Truthful
  <2>2. CASE k = Java
    <3>1. outbox'[k][i] = outbox[k][i + 1] /\ i + 1 \in 1..Len(outbox[k]) /\ i \in Nat
      BY <1>3, <1>4, <2>2
    <3>2. outbox[k][i + 1].n \in 1..sent
      BY <3>1 DEF ServerInv, Numbers, Held, Out, Nums, Elems
    <3>3. ASSUME Unread(k, i + 1) PROVE Unread(k, i)'
      <4>1. CASE \A c \in Clients : Link(c) = k => waits[c] # outbox[k][i + 1].n
        BY <2>0, <3>1, <3>2, <4>1 DEF Unread
      <4>2. CASE \E j \in 1..((i + 1) - 1) : outbox[k][j].n = outbox[k][i + 1].n
        <5>1. PICK j \in 1..i : outbox[k][j].n = outbox[k][i + 1].n
          BY <3>1, <4>2
        <5>2. CASE j = 1
          <6>1. outbox'[k][i].n = a.n
            BY <1>3, <2>2, <3>1, <5>1, <5>2
          <6>2. \A c \in Clients : Link(c) = k => c \in Callers
            BY <1>2, <2>2 DEF Link, Clients
          <6> QED BY <1>1, <6>1, <6>2 DEF Unread
        <5>3. CASE j # 1
          <6>1. j - 1 \in 1..(i - 1) /\ (j - 1) + 1 = j /\ j - 1 \in 1..Len(q)
            BY <1>3, <1>4, <2>2, <3>1, <5>3
          <6>2. outbox'[k][j - 1] = outbox[k][j]
            BY <1>3, <1>4, <2>2, <6>1
          <6> QED BY <3>1, <5>1, <6>1, <6>2 DEF Unread
        <5> QED BY <5>2, <5>3
      <4> QED BY <3>3, <4>1, <4>2 DEF Unread
    <3> QED BY <3>1, <3>3 DEF ServerInv, Truthful
  <2> QED BY <2>1, <2>2
<1> QED BY <1>5, <1>6, <1>7, <1>8 DEF ServerInv

-----------------------------------------------------------------------------
(* A command is sent.                                                        *)

\* An answered number is not that of a command still to be carried out.
LEMMA AnsweredIsOver ==
  ASSUME ServerInv, NEW k \in Links, NEW m \in Out(k), NEW j \in Links, NEW n \in In(j) \cup RunOn(j)
  PROVE  m # n
<1>1. m \in 1..sent /\ n \in 1..sent /\ sent \in Nat
  BY DEF ServerInv, Types, Numbers, Held
<1>2. CASE j = k
  BY <1>1, <1>2 DEF ServerInv, Ordered
<1>3. CASE j # k
  BY <1>3 DEF ServerInv, Numbers, Held
<1> QED BY <1>2, <1>3

LEMMA CommandKeeps ==
  ASSUME ServerInv, NEW c \in Clients, NEW form \in Forms, Command(c, Link(c), form), outbox' = outbox,
         \/ c \in Callers /\ link' = link
         \/ c \in Tools /\ link[c] = "none" /\ link' = [link EXCEPT ![c] = "open"]
  PROVE  ServerInv'
<1> DEFINE k == Link(c)
           n0 == sent + 1
           new == [n |-> n0, form |-> form]
<1>1. /\ waits[c] = 0 /\ inbox' = [inbox EXCEPT ![k] = Append(@, new)]
      /\ waits' = [waits EXCEPT ![c] = n0] /\ told' = [told EXCEPT ![c] = "none"]
      /\ sent' = n0 /\ ran' = Append(ran, "no") /\ running' = running
  BY DEF Command
<1>2. /\ sent \in Nat /\ n0 \in Nat /\ n0 # 0 /\ k \in Links /\ new \in Commands
      /\ inbox \in [Links -> Seq(Commands)] /\ waits \in [Clients -> Nat]
      /\ outbox \in [Links -> Seq(Answers)] /\ DOMAIN told = Clients
  <2>1. sent \in Nat /\ inbox \in [Links -> Seq(Commands)] /\ waits \in [Clients -> Nat]
        /\ outbox \in [Links -> Seq(Answers)] /\ DOMAIN told = Clients
    BY DEF ServerInv, Types
  <2>2. n0 \in Nat /\ n0 # 0
    BY <2>1
  <2>3. new \in Commands
    BY <2>2 DEF Commands
  <2>4. k \in Links
    BY LinkTypes
  <2> QED BY <2>1, <2>2, <2>3, <2>4
<1>3. /\ ran' \in Seq({"no", "cut"} \cup Results) /\ Len(ran') = n0
      /\ ran'[n0] = "no" /\ \A n \in 1..sent : ran'[n] = ran[n]
  <2>1. ran \in Seq({"no", "cut"} \cup Results) /\ Len(ran) = sent
    BY DEF ServerInv, Types
  <2> QED BY <1>1, <2>1, AppendElems
<1>4. inbox'[k] = Append(inbox[k], new) /\ \A j \in Links : j # k => inbox'[j] = inbox[j]
  BY <1>1, <1>2
<1>5. Append(inbox[k], new) \in Seq(Commands) /\ In(k)' = In(k) \cup {n0}
      /\ \A j \in Links : j # k => In(j)' = In(j)
  <2>1. inbox[k] \in Seq(Commands) /\ new.n = n0
    BY <1>2
  <2> HIDE DEF new
  <2>2. Nums(Append(inbox[k], new)) = Nums(inbox[k]) \cup {n0}
    BY <1>2, <2>1, AppendNums
  <2> QED BY <1>2, <1>4, <2>1, <2>2, AppendElems DEF In
<1>6. \A j : RunOn(j)' = RunOn(j) /\ Out(j)' = Out(j)
  BY <1>1 DEF RunOn, Out
<1>7. /\ \A d \in Clients : d # c => waits'[d] = waits[d]
      /\ waits'[c] = n0 /\ waits' \in [Clients -> Nat]
  BY <1>1, <1>2
<1>8. \A j \in Links : Held(j) \subseteq 1..sent
  BY DEF ServerInv, Numbers
<1> HIDE DEF new
<1>9. Types'
  <2>1. inbox' \in [Links -> Seq(Commands)]
    BY <1>1, <1>2, <1>5
  <2>2. link' \in [Links -> {"none", "open", "left", "dropped"}]
    BY LinkTypes DEF ServerInv, Types
  <2> QED BY <1>1, <1>2, <1>3, <1>7, <2>1, <2>2 DEF ServerInv, Types
<1>10. /\ \A j \in Links : j # k => Held(j)' = Held(j)
       /\ Held(k)' = Held(k) \cup {n0}
  BY <1>2, <1>5, <1>6 DEF Held
<1>11. n0 \notin 1..sent /\ 1..sent \subseteq 1..n0 /\ n0 \in 1..n0
  BY <1>2
<1>12. Numbers'
  <2>1. \A j \in Links : Held(j)' \subseteq 1..sent'
    BY <1>1, <1>8, <1>10, <1>11
  <2>2. \A i, j \in Links : i # j => Held(i)' \cap Held(j)' = {}
    BY <1>8, <1>10, <1>11 DEF ServerInv, Numbers
  <2> QED BY <2>1, <2>2 DEF Numbers
<1>13. Ordered'
  <2> SUFFICES ASSUME NEW j \in Links
               PROVE  /\ \A m \in Out(j), n \in In(j)' \cup RunOn(j) : m < n
                      /\ \A m \in RunOn(j), n \in In(j)' : m < n
                      /\ Increasing(inbox'[j])
    BY <1>6 DEF Ordered
  <2>1. /\ \A m \in Out(j), n \in In(j) \cup RunOn(j) : m < n
        /\ \A m \in RunOn(j), n \in In(j) : m < n
        /\ Increasing(inbox[j])
    BY DEF ServerInv, Ordered
  <2>2. \A m \in Held(j) : m < n0
    BY <1>2, <1>8
  <2>3. In(j)' \subseteq In(j) \cup {n0}
    BY <1>5
  <2>4. Increasing(inbox'[j])
    <3>1. CASE j = k
      <4>1. inbox[k] \in Seq(Commands) /\ new.n = n0 /\ \A n \in Nums(inbox[k]) : n < new.n
        BY <1>2, <2>2, <3>1 DEF Held, In, new
      <4> QED BY <1>2, <1>4, <2>1, <3>1, <4>1, IncreasingAppend
    <3>2. CASE j # k
      BY <1>4, <2>1, <3>2
    <3> QED BY <3>1, <3>2
  <2>5. \A m \in Out(j) \cup RunOn(j) : m < n0
    BY <2>2 DEF Held
  <2> QED BY <2>1, <2>3, <2>4, <2>5
<1>14. OneRuns'
  BY <1>1 DEF ServerInv, OneRuns
<1>15. Untouched'
  <2> SUFFICES ASSUME NEW j \in Links, NEW n \in In(j)' \cup RunOn(j)' PROVE ran'[n] = "no"
    BY DEF Untouched
  <2>1. n = n0 \/ n \in In(j) \cup RunOn(j)
    BY <1>5, <1>6
  <2>2. CASE n \in In(j) \cup RunOn(j)
    <3>1. n \in 1..sent
      BY <1>8, <2>2 DEF Held
    <3> QED BY <1>3, <2>2, <3>1 DEF ServerInv, Untouched
  <2> QED BY <1>3, <2>1, <2>2
<1>16. Waiters'
  <2>1. \A d \in Clients : waits'[d] <= sent'
    BY <1>1, <1>2, <1>7 DEF ServerInv, Waiters
  <2>2. \A d \in Clients : d # c => waits'[d] # n0
    BY <1>2, <1>7 DEF ServerInv, Waiters
  <2> QED BY <1>7, <2>1, <2>2 DEF ServerInv, Waiters
<1>17. Truthful'
  <2> SUFFICES ASSUME NEW j \in Links, NEW i \in 1..Len(outbox[j])
               PROVE  /\ outbox[j][i].says = "refused" => ran'[outbox[j][i].n] = "no"
                      /\ outbox[j][i].says \in Results =>
                           ran'[outbox[j][i].n] = outbox[j][i].says \/ Unread(j, i)'
    BY DEF Truthful
  <2>1. outbox[j][i].n \in 1..sent
    BY <1>8 DEF Held, Out, Nums, Elems
  <2>2. ran'[outbox[j][i].n] = ran[outbox[j][i].n]
    BY <1>3, <2>1
  <2>3. Unread(j, i) => Unread(j, i)'
    BY <1>7, <1>11, <2>1 DEF Unread
  <2> QED BY <2>2, <2>3 DEF ServerInv, Truthful
<1>18. OneShot'
  <2> SUFFICES ASSUME NEW t \in Tools PROVE OneShotAt(t)'
    BY DEF OneShot
  <2>1. t \in Links /\ t \in Clients /\ Link(t) = t /\ t # Java
    BY LinkTypes, ClientAssumption
  <2>2. OneShotAt(t)
    BY DEF ServerInv, OneShot
  <2>3. CASE t = c
    <3>1. link[c] = "none" /\ link' = [link EXCEPT ![c] = "open"]
      BY <2>3, LinkTypes
    <3>2. link'[t] = "open"
      BY <2>1, <2>3, <3>1 DEF ServerInv, Types
    <3>3. Held(t)' = {n0}
      BY <1>10, <2>1, <2>2, <2>3, <3>1 DEF OneShotAt
    <3> QED BY <1>2, <1>7, <2>3, <3>2, <3>3 DEF OneShotAt
  <2>4. CASE t # c
    <3>1. link'[t] = link[t] /\ waits'[t] = waits[t] /\ k # t
      BY <1>7, <2>1, <2>4, LinkTypes DEF ServerInv, Types, Clients
    <3>2. Held(t)' = Held(t) /\ In(t)' = In(t) /\ RunOn(t)' = RunOn(t)
      BY <1>5, <1>6, <1>10, <2>1, <3>1
    <3> QED BY <2>2, <3>1, <3>2 DEF OneShotAt
  <2> QED BY <2>3, <2>4
<1> QED BY <1>9, <1>12, <1>13, <1>14, <1>15, <1>16, <1>17, <1>18 DEF ServerInv

LEMMA ExecuteKeeps ==
  ASSUME ServerInv, NEW c \in Callers, NEW form \in Forms, Execute(c, form)
  PROVE  ServerInv'
BY CommandKeeps, LinkTypes DEF Execute

LEMMA RunToolKeeps ==
  ASSUME ServerInv, NEW t \in Tools, NEW form \in Forms, RunTool(t, form)
  PROVE  ServerInv'
BY CommandKeeps, LinkTypes DEF RunTool

-----------------------------------------------------------------------------
(* The server takes a command, answers it, dies.                             *)

\* Answers to a command of connection k that was there, at the end of what
\* the client has not read; none for a client that has left.
LEMMA AnsweringKeeps ==
  ASSUME ServerInv, NEW k \in Links, NEW bs \in Seq(Answers),
         outbox' = [outbox EXCEPT ![k] = @ \o bs], link[k] # "open" => bs = <<>>,
         UNCHANGED <<link, waits, sent>>,
         \A j \in Links : (In(j) \cup RunOn(j))' \subseteq In(j) \cup RunOn(j),
         Nums(bs) \subseteq In(k) \cup RunOn(k),
         \A j \in Links : \A n \in Out(j) : ran'[n] = ran[n],
         \A i \in 1..Len(bs) :
            /\ bs[i].says = "refused" => ran'[bs[i].n] = "no"
            /\ bs[i].says \in Results =>
                 ran'[bs[i].n] = bs[i].says \/ \E h \in 1..(i - 1) : bs[h].n = bs[i].n
  PROVE  /\ outbox' \in [Links -> Seq(Answers)] /\ Numbers' /\ Waiters' /\ Truthful' /\ OneShot'
         /\ Out(k)' = Out(k) \cup Nums(bs) /\ \A j \in Links : j # k => Out(j)' = Out(j)
<1>1. outbox \in [Links -> Seq(Answers)] /\ outbox[k] \in Seq(Answers)
  BY DEF ServerInv, Types
<1>2. outbox'[k] = outbox[k] \o bs /\ \A j \in Links : j # k => outbox'[j] = outbox[j]
  BY <1>1
<1>3. /\ outbox'[k] \in Seq(Answers) /\ Len(outbox'[k]) = Len(outbox[k]) + Len(bs)
      /\ \A i \in 1..Len(outbox[k]) : outbox'[k][i] = outbox[k][i]
      /\ \A i \in 1..Len(bs) : outbox'[k][Len(outbox[k]) + i] = bs[i]
      /\ Len(outbox[k]) \in Nat /\ Len(bs) \in Nat
  BY <1>1, <1>2, ConcatElems
<1>4. Out(k)' = Out(k) \cup Nums(bs) /\ \A j \in Links : j # k => Out(j)' = Out(j)
  BY <1>1, <1>2, ConcatNums DEF Out
<1>5. outbox' \in [Links -> Seq(Answers)]
  BY <1>1, <1>3
<1>6. \A j \in Links : Held(j)' \subseteq Held(j)
  <2> TAKE j \in Links
  <2>1. Out(j)' \subseteq Held(j)
    BY <1>4 DEF Held
  <2> QED BY <2>1 DEF Held
<1>7. Numbers'
  BY <1>6 DEF ServerInv, Numbers
<1>8. Waiters'
  BY DEF ServerInv, Waiters
<1>9. Truthful'
  <2> SUFFICES ASSUME NEW j \in Links, NEW i \in 1..Len(outbox'[j])
               PROVE  /\ outbox'[j][i].says = "refused" => ran'[outbox'[j][i].n] = "no"
                      /\ outbox'[j][i].says \in Results =>
                           ran'[outbox'[j][i].n] = outbox'[j][i].says \/ Unread(j, i)'
    BY DEF Truthful
  <2>1. CASE i \in 1..Len(outbox[j]) /\ \A h \in 1..i : outbox'[j][h] = outbox[j][h]
    <3>1. ran'[outbox[j][i].n] = ran[outbox[j][i].n]
      <4>1. outbox[j][i].n \in Out(j)
        BY <2>1 DEF Out, Nums, Elems
      <4> QED BY <4>1
    <3>2. i \in 1..i /\ \A h \in 1..(i - 1) : h \in 1..i
      BY <2>1
    <3>3. outbox'[j][i] = outbox[j][i] /\ \A h \in 1..(i - 1) : outbox'[j][h] = outbox[j][h]
      BY <2>1, <3>2
    <3>4. Unread(j, i) => Unread(j, i)'
      BY <3>3 DEF Unread
    <3> QED BY <2>1, <3>1, <3>3, <3>4 DEF ServerInv, Truthful
  <2>2. CASE j = k /\ i > Len(outbox[k])
    <3> DEFINE l == i - Len(outbox[k])
               len == Len(outbox[k])
    <3>1. l \in 1..Len(bs) /\ i = len + l /\ l \in Nat
      BY <1>3, <2>2
    <3>2. outbox'[j][i] = bs[l]
      BY <1>3, <2>2, <3>1
    <3>3. ASSUME NEW h \in 1..(l - 1), bs[h].n = bs[l].n PROVE Unread(j, i)'
      <4>1. h \in 1..Len(bs) /\ len + h \in 1..(i - 1)
        BY <1>3, <3>1
      <4>2. outbox'[j][len + h] = bs[h]
        BY <1>3, <2>2, <4>1
      <4>3. outbox'[j][len + h].n = outbox'[j][i].n
        BY <3>2, <3>3, <4>2
      <4> HIDE DEF len
      <4> QED BY <4>1, <4>3 DEF Unread
    <3> HIDE DEF l
    <3> QED BY <3>1, <3>2, <3>3
  <2>3. i \in 1..Len(outbox[j]) => \A h \in 1..i : h \in 1..Len(outbox[j])
    BY <1>1
  <2>4. CASE j = k
    BY <1>3, <2>1, <2>2, <2>3, <2>4
  <2>5. CASE j # k
    BY <1>2, <2>1, <2>5
  <2> QED BY <2>4, <2>5
<1>10. OneShot'
  <2> SUFFICES ASSUME NEW t \in Tools PROVE OneShotAt(t)'
    BY DEF OneShot
  <2>1. OneShotAt(t) /\ t \in Links
    BY LinkTypes DEF ServerInv, OneShot
  <2>2. waits[t] = 0 => outbox'[t] = <<>>
    <3>1. CASE t # k
      BY <1>2, <2>1, <3>1 DEF OneShotAt
    <3>2. CASE t = k
      <4>1. waits[t] = 0 => outbox'[t] = <<>> \o <<>>
        BY <1>2, <2>1, <3>2 DEF OneShotAt
      <4> QED BY <4>1
    <3> QED BY <3>1, <3>2
  <2> QED BY <1>6, <2>1, <2>2 DEF OneShotAt
<1> QED BY <1>4, <1>5, <1>7, <1>8, <1>9, <1>10

\* What sendMsg does, whether the client is there or not.
LEMMA AnswerAppends ==
  ASSUME ServerInv, NEW k \in Links, NEW as \in Seq(Answers), Answer(k, as)
  PROVE  \E bs \in Seq(Answers) : /\ bs = as \/ bs = <<>>
                                  /\ outbox' = [outbox EXCEPT ![k] = @ \o bs]
                                  /\ link[k] # "open" => bs = <<>>
<1>1. CASE link[k] = "open"
  BY <1>1 DEF Answer
<1>2. CASE link[k] # "open"
  <2>1. outbox' = outbox /\ outbox \in [Links -> Seq(Answers)]
    BY <1>2 DEF Answer, ServerInv, Types
  <2>2. outbox[k] \o <<>> = outbox[k] /\ <<>> \in Seq(Answers)
    BY <2>1
  <2>3. outbox' = [outbox EXCEPT ![k] = @ \o <<>>]
    BY <2>1, <2>2
  <2> QED BY <1>2, <2>2, <2>3
<1> QED BY <1>1, <1>2

LEMMA AcceptKeeps ==
  ASSUME ServerInv, NEW k \in Links, Accept(k)
  PROVE  ServerInv'
<1> DEFINE r == Head(inbox[k])
           rec == [n |-> r.n, link |-> k, form |-> r.form]
           as == CASE r.form = "good"    -> <<>>
                   [] r.form = "bad"     -> <<Says(r.n, "refused")>>
                   [] r.form = "unknown" -> <<Says(r.n, "refused"), Says(r.n, "zero")>>
<1>1. /\ UNCHANGED <<ran, link, waits, told, sent>> /\ running = {} /\ inbox[k] # <<>>
      /\ inbox' = [inbox EXCEPT ![k] = Tail(@)]
      /\ running' = IF r.form = "good" THEN {rec} ELSE {}
      /\ Answer(k, as)
  BY DEF Accept, Idle, clients
<1>2. inbox \in [Links -> Seq(Commands)] /\ inbox[k] \in Seq(Commands)
  BY DEF ServerInv, Types
<1>3. /\ r \in Commands /\ Tail(inbox[k]) \in Seq(Commands)
      /\ In(k) = {r.n} \cup Nums(Tail(inbox[k]))
  BY <1>1, <1>2, TailNums DEF In
<1>4. inbox'[k] = Tail(inbox[k]) /\ \A j \in Links : j # k => inbox'[j] = inbox[j]
  BY <1>1, <1>2
<1>5. In(k) = {r.n} \cup In(k)' /\ \A j \in Links : j # k => In(j)' = In(j)
  BY <1>3, <1>4 DEF In
<1>6. r.n \in Nat /\ r.form \in {"good", "bad", "unknown"}
  BY <1>3 DEF Commands, Forms
<1> HIDE DEF r
<1>7. /\ as \in Seq(Answers) /\ Nums(as) \subseteq {r.n} /\ (r.form = "good" => as = <<>>)
      /\ \A i \in 1..Len(as) : as[i].n = r.n /\ (as[i].says # "refused" => i = 2)
  <2>1. /\ Says(r.n, "refused") \in Answers /\ Says(r.n, "refused").n = r.n
        /\ Says(r.n, "zero") \in Answers /\ Says(r.n, "zero").n = r.n
        /\ Says(r.n, "refused").says = "refused"
    BY <1>6 DEF Says, Answers, Results
  <2>2. CASE r.form = "good"
    BY <2>2, EmptyNums
  <2>3. CASE r.form = "bad"
    <3> DEFINE x == Says(r.n, "refused")
    <3>1. as = <<x>>
      BY <2>3
    <3> HIDE DEF x, as
    <3>2. as \in Seq(Answers) /\ Len(as) = 1 /\ as[1] = x
      BY <2>1, <3>1 DEF x
    <3>3. 1 \in 1..Len(as) /\ \A i \in 1..Len(as) : i = 1
      BY <3>2
    <3>4. Elems(as) = {x}
      BY <3>2, <3>3 DEF Elems
    <3> QED BY <2>1, <2>3, <3>2, <3>3, <3>4 DEF Nums, x
  <2>4. CASE r.form = "unknown"
    <3> DEFINE x == Says(r.n, "refused")
               y == Says(r.n, "zero")
    <3>1. as = <<x, y>>
      BY <2>4
    <3> HIDE DEF x, y, as
    <3>2. as \in Seq(Answers) /\ Len(as) = 2 /\ as[1] = x /\ as[2] = y
      BY <2>1, <3>1 DEF x, y
    <3>3. \A i \in 1..Len(as) : i = 1 \/ i = 2
      BY <3>2
    <3> QED BY <2>1, <2>4, <3>2, <3>3 DEF Nums, Elems, x, y
  <2> QED BY <1>6, <2>2, <2>3, <2>4
<1> HIDE DEF as
<1>8. PICK bs \in Seq(Answers) : /\ bs = as \/ bs = <<>>
                                 /\ outbox' = [outbox EXCEPT ![k] = @ \o bs]
                                 /\ link[k] # "open" => bs = <<>>
  BY <1>1, <1>7, AnswerAppends
<1>9. /\ Nums(bs) \subseteq {r.n} /\ (r.form = "good" => Nums(bs) = {})
      /\ \A i \in 1..Len(bs) : bs[i].n = r.n /\ (bs[i].says # "refused" => i = 2)
  <2>1. CASE bs = as
    BY <1>7, <2>1, EmptyNums
  <2>2. CASE bs = <<>>
    BY <2>2, EmptyNums
  <2> QED BY <1>8, <2>1, <2>2
<1>10. /\ \A j \in Links : RunOn(j) = {} /\ (j # k => RunOn(j)' = {})
       /\ RunOn(k)' = IF r.form = "good" THEN {r.n} ELSE {}
  <2>1. rec.n = r.n /\ rec.link = k
    OBVIOUS
  <2>2. running' \subseteq {rec} /\ (r.form = "good" => running' = {rec}) /\ (r.form # "good" => running' = {})
    BY <1>1
  <2> HIDE DEF rec
  <2>3. \A j \in Links : RunOn(j) = {}
    BY <1>1 DEF RunOn
  <2>4. \A j \in Links : j # k => RunOn(j)' = {}
    BY <2>1, <2>2 DEF RunOn
  <2>5. CASE r.form = "good"
    <3>1. RunOn(k)' = {r.n}
      BY <2>1, <2>2, <2>5 DEF RunOn
    <3> QED BY <2>3, <2>4, <2>5, <3>1
  <2>6. CASE r.form # "good"
    <3>1. RunOn(k)' = {}
      BY <2>2, <2>6 DEF RunOn
    <3> QED BY <2>3, <2>4, <2>6, <3>1
  <2> QED BY <2>5, <2>6
<1>11. ran'[r.n] = "no"
  BY <1>1, <1>5 DEF ServerInv, Untouched
<1>12. /\ outbox' \in [Links -> Seq(Answers)] /\ Numbers' /\ Waiters' /\ Truthful' /\ OneShot'
       /\ Out(k)' = Out(k) \cup Nums(bs) /\ \A j \in Links : j # k => Out(j)' = Out(j)
  <2>1. \A j \in Links : (In(j) \cup RunOn(j))' \subseteq In(j) \cup RunOn(j)
    BY <1>5, <1>10
  <2>2. Nums(bs) \subseteq In(k) \cup RunOn(k)
    BY <1>5, <1>9
  <2>3. ASSUME NEW i \in 1..Len(bs)
        PROVE  /\ bs[i].says = "refused" => ran'[bs[i].n] = "no"
               /\ bs[i].says \in Results =>
                    ran'[bs[i].n] = bs[i].says \/ \E h \in 1..(i - 1) : bs[h].n = bs[i].n
    <3>1. ran'[bs[i].n] = "no"
      BY <1>9, <1>11
    <3>2. CASE i = 2
      <4>1. 1 \in 1..(i - 1) /\ 1 \in 1..Len(bs)
        BY <3>2
      <4>2. bs[1].n = bs[i].n
        BY <1>9, <4>1
      <4> QED BY <3>1, <4>1, <4>2
    <3>3. CASE i # 2
      BY <1>9, <3>1, <3>3 DEF Results
    <3> QED BY <3>2, <3>3
  <2> QED BY <1>1, <1>8, <2>1, <2>2, <2>3, AnsweringKeeps
<1>13. Types'
  <2>1. inbox' \in [Links -> Seq(Commands)]
    BY <1>1, <1>2, <1>3
  <2>2. rec \in Runs
    BY <1>3 DEF Runs, Commands
  <2> HIDE DEF rec
  <2> QED BY <1>1, <1>12, <2>1, <2>2 DEF ServerInv, Types
<1>14. Ordered'
  <2> SUFFICES ASSUME NEW j \in Links
               PROVE  /\ \A m \in Out(j)', n \in In(j)' \cup RunOn(j)' : m < n
                      /\ \A m \in RunOn(j)', n \in In(j)' : m < n
                      /\ Increasing(inbox'[j])
    BY DEF Ordered
  <2>1. /\ \A m \in Out(j), n \in In(j) : m < n /\ Increasing(inbox[j])
    BY DEF ServerInv, Ordered
  <2>2. CASE j # k
    BY <1>4, <1>5, <1>10, <1>12, <2>1, <2>2 DEF ServerInv, Ordered
  <2>3. CASE j = k
    <3>1. Increasing(inbox[k])
      BY DEF ServerInv, Ordered
    <3>2. Increasing(inbox'[k]) /\ \A n \in In(k)' : r.n < n
      BY <1>1, <1>2, <1>4, <3>1, IncreasingTail DEF In, r
    <3>3. \A m \in Out(k) : m < r.n /\ \A n \in In(k)' : m < n
      BY <1>5, <2>1, <2>3
    <3>4. RunOn(k)' \subseteq {r.n} /\ (RunOn(k)' = {} \/ Nums(bs) = {})
      BY <1>9, <1>10
    <3> QED BY <1>9, <1>12, <2>3, <3>2, <3>3, <3>4
  <2> QED BY <2>2, <2>3
<1>15. OneRuns'
  BY <1>1 DEF OneRuns
<1>16. Untouched'
  BY <1>1, <1>5, <1>10 DEF ServerInv, Untouched
<1> QED BY <1>12, <1>13, <1>14, <1>15, <1>16 DEF ServerInv

LEMMA CompleteKeeps ==
  ASSUME ServerInv, NEW r \in running, Complete(r)
  PROVE  ServerInv'
<1>1. PICK what \in Results : /\ ran' = [ran EXCEPT ![r.n] = what]
                              /\ Answer(r.link, <<Says(r.n, what)>>)
  BY DEF Complete
<1>2. /\ running' = running \ {r} /\ UNCHANGED <<link, inbox, waits, told, sent>>
  BY DEF Complete, clients
<1> DEFINE k == r.link
           x == Says(r.n, what)
<1>3. /\ r \in Runs /\ k \in Links /\ r.n \in Nat
  BY DEF ServerInv, Types, Runs
<1>4. r.n \in RunOn(k) /\ RunOn(k) = {r.n} /\ \A j \in Links : RunOn(j)' = {}
  BY <1>2 DEF ServerInv, OneRuns, RunOn
<1>5. x \in Answers /\ x.n = r.n /\ x.says = what
  BY <1>3 DEF Says, Answers
<1> HIDE DEF x, k
<1>6. <<x>> \in Seq(Answers) /\ Len(<<x>>) = 1 /\ <<x>>[1] = x /\ Nums(<<x>>) = {r.n}
  <2>1. <<x>> \in Seq(Answers) /\ Len(<<x>>) = 1 /\ <<x>>[1] = x
    BY <1>5
  <2>2. Elems(<<x>>) = {x}
    BY <2>1 DEF Elems
  <2> QED BY <1>5, <2>1, <2>2 DEF Nums
<1>7. PICK bs \in Seq(Answers) : /\ bs = <<x>> \/ bs = <<>>
                                 /\ outbox' = [outbox EXCEPT ![k] = @ \o bs]
                                 /\ link[k] # "open" => bs = <<>>
  BY <1>1, <1>3, <1>6, AnswerAppends DEF x, k
<1>8. Nums(bs) \subseteq {r.n} /\ \A i \in 1..Len(bs) : bs[i] = x
  <2>1. CASE bs = <<x>>
    BY <1>6, <2>1
  <2>2. CASE bs = <<>>
    BY <2>2, EmptyNums
  <2> QED BY <1>7, <2>1, <2>2
<1>9. r.n \in 1..sent /\ ran \in Seq({"no", "cut"} \cup Results) /\ Len(ran) = sent
  BY <1>3, <1>4 DEF ServerInv, Numbers, Held, Types
<1>10. /\ ran' \in Seq({"no", "cut"} \cup Results) /\ Len(ran') = sent
       /\ ran'[r.n] = what /\ \A n \in 1..sent : n # r.n => ran'[n] = ran[n]
  BY <1>1, <1>9
<1>11. \A j \in Links : In(j)' = In(j)
  BY <1>2 DEF In
<1>12. \A j \in Links : Held(j) \subseteq 1..sent
  BY DEF ServerInv, Numbers
<1>13. /\ outbox' \in [Links -> Seq(Answers)] /\ Numbers' /\ Waiters' /\ Truthful' /\ OneShot'
       /\ Out(k)' = Out(k) \cup Nums(bs) /\ \A j \in Links : j # k => Out(j)' = Out(j)
  <2>1. \A j \in Links : (In(j) \cup RunOn(j))' \subseteq In(j) \cup RunOn(j)
    BY <1>4, <1>11
  <2>2. Nums(bs) \subseteq In(k) \cup RunOn(k)
    BY <1>4, <1>8
  <2>3. ASSUME NEW j \in Links, NEW n \in Out(j) PROVE ran'[n] = ran[n]
    <3>1. n \in 1..sent
      BY <1>12 DEF Held
    <3>2. n # r.n
      BY <1>3, <1>4, AnsweredIsOver
    <3> QED BY <1>10, <3>1, <3>2
  <2>4. \A i \in 1..Len(bs) :
            /\ bs[i].says = "refused" => ran'[bs[i].n] = "no"
            /\ bs[i].says \in Results =>
                 ran'[bs[i].n] = bs[i].says \/ \E h \in 1..(i - 1) : bs[h].n = bs[i].n
    <3>1. what # "refused"
      BY DEF Results
    <3> QED BY <1>5, <1>8, <1>10, <3>1
  <2> QED BY <1>2, <1>3, <1>7, <2>1, <2>2, <2>3, <2>4, AnsweringKeeps
<1>14. Types'
  BY <1>2, <1>10, <1>13 DEF ServerInv, Types
<1>15. Ordered'
  <2> SUFFICES ASSUME NEW j \in Links PROVE \A m \in Out(j)', n \in In(j) : m < n
    BY <1>2, <1>4, <1>11 DEF Ordered, ServerInv
  <2>1. /\ \A m \in Out(j), n \in In(j) : m < n
        /\ \A m \in RunOn(j), n \in In(j) : m < n
    BY DEF ServerInv, Ordered
  <2> QED BY <1>4, <1>8, <1>13, <2>1
<1>16. OneRuns'
  BY <1>2 DEF ServerInv, OneRuns
<1>17. Untouched'
  <2> SUFFICES ASSUME NEW j \in Links, NEW n \in In(j) PROVE ran'[n] = "no"
    BY <1>4, <1>11 DEF Untouched
  <2>1. n \in 1..sent
    BY <1>12 DEF Held
  <2>2. n # r.n
    <3>1. CASE j = k
      <4>1. r.n < n
        BY <1>4, <3>1 DEF ServerInv, Ordered
      <4> QED BY <1>3, <4>1
    <3>2. CASE j # k
      BY <1>3, <1>4, <3>2 DEF ServerInv, Numbers, Held
    <3> QED BY <3>1, <3>2
  <2> QED BY <1>10, <2>1, <2>2 DEF ServerInv, Untouched
<1> QED BY <1>13, <1>14, <1>15, <1>16, <1>17 DEF ServerInv

LEMMA DieKeeps == ASSUME ServerInv, Die PROVE ServerInv'
<1> DEFINE cut == {r.n : r \in running}
           S == {"no", "cut"} \cup Results
<1>1. /\ running' = {} /\ ran' = [n \in 1..sent |-> IF n \in cut THEN "cut" ELSE ran[n]]
      /\ inbox' = [k \in Links |-> <<>>] /\ UNCHANGED <<outbox, waits, told, sent>>
      /\ link' = [k \in Links |-> CASE link[k] = "open" -> "dropped"
                                    [] link[k] = "left" -> "none"
                                    [] OTHER            -> link[k]]
  BY DEF Die, clients
<1>2. \A j : Out(j)' = Out(j) /\ RunOn(j)' = {}
  BY <1>1 DEF Out, RunOn
<1>3. \A j \in Links : In(j)' = {} /\ Increasing(inbox'[j])
  BY <1>1, EmptyNums DEF In
<1>4. ran \in Seq(S) /\ Len(ran) = sent /\ sent \in Nat /\ link \in [Links -> {"none", "open", "left", "dropped"}]
  BY DEF ServerInv, Types
<1>5. ran' \in Seq(S) /\ Len(ran') = sent
  <2>1. ran' \in [1..sent -> S]
    BY <1>1, <1>4
  <2> HIDE DEF S
  <2> QED BY <1>4, <2>1, SeqDef, LenProperties
<1>6. Types'
  <2>1. <<>> \in Seq(Commands)
    OBVIOUS
  <2>2. inbox' \in [Links -> Seq(Commands)]
    BY <1>1, <2>1
  <2>3. link' \in [Links -> {"none", "open", "left", "dropped"}]
    BY <1>1, <1>4
  <2>4. /\ outbox' \in [Links -> Seq(Answers)] /\ running' \subseteq Runs
        /\ waits' \in [Clients -> Nat] /\ DOMAIN told' = Clients /\ sent' \in Nat
    BY <1>1 DEF ServerInv, Types
  <2> QED BY <1>1, <1>5, <2>2, <2>3, <2>4 DEF Types
<1>7. \A j \in Links : Held(j)' \subseteq Held(j) /\ Held(j)' = Out(j)
  BY <1>2, <1>3 DEF Held
<1>8. Numbers' /\ Ordered' /\ OneRuns' /\ Untouched' /\ Waiters'
  BY <1>1, <1>2, <1>3, <1>7 DEF ServerInv, Numbers, Ordered, OneRuns, Untouched, Waiters
<1>9. Truthful'
  <2> SUFFICES ASSUME NEW j \in Links, NEW i \in 1..Len(outbox[j])
               PROVE  /\ outbox[j][i].says = "refused" => ran'[outbox[j][i].n] = "no"
                      /\ outbox[j][i].says \in Results =>
                           ran'[outbox[j][i].n] = outbox[j][i].says \/ Unread(j, i)'
    BY <1>1 DEF Truthful
  <2>1. outbox[j][i].n \in Out(j) /\ outbox[j][i].n \in 1..sent
    BY DEF ServerInv, Numbers, Held, Out, Nums, Elems
  <2>2. outbox[j][i].n \notin cut
    <3> SUFFICES ASSUME NEW r \in running PROVE outbox[j][i].n # r.n
      OBVIOUS
    <3>1. r.link \in Links /\ r.n \in RunOn(r.link)
      BY DEF ServerInv, Types, Runs, RunOn
    <3> QED BY <2>1, <3>1, AnsweredIsOver
  <2>3. ran'[outbox[j][i].n] = ran[outbox[j][i].n]
    BY <1>1, <2>1, <2>2
  <2>4. Unread(j, i) => Unread(j, i)'
    BY <1>1 DEF Unread
  <2> QED BY <2>3, <2>4 DEF ServerInv, Truthful
<1>10. OneShot'
  <2> SUFFICES ASSUME NEW t \in Tools PROVE OneShotAt(t)'
    BY DEF OneShot
  <2>1. OneShotAt(t) /\ t \in Links
    BY LinkTypes DEF ServerInv, OneShot
  <2>2. /\ link[t] = "open" => link'[t] = "dropped"
        /\ link[t] = "left" => link'[t] = "none"
        /\ link[t] \in {"none", "dropped"} => link'[t] = link[t]
        /\ link[t] \in {"none", "open", "left", "dropped"}
    BY <1>1, <1>4, <2>1
  <2>3. waits[t] = 0 => Out(t) = {}
    BY <2>1, EmptyNums DEF OneShotAt, Out
  <2>4. (waits[t] # 0) = (link'[t] \in {"open", "dropped"})
    BY <2>1, <2>2 DEF OneShotAt
  <2>5. link'[t] = "none" => Held(t)' = {}
    BY <1>7, <2>1, <2>3, <2>4
  <2> QED BY <1>1, <1>2, <1>3, <1>7, <2>1, <2>4, <2>5 DEF OneShotAt
<1> QED BY <1>6, <1>8, <1>9, <1>10 DEF ServerInv

-----------------------------------------------------------------------------
(* The theorems.                                                             *)

LEMMA ServerStepKeeps == ASSUME ServerInv, [Next]_vars PROVE ServerInv'
<1>1. CASE Select \/ Restart \/ UNCHANGED vars
  <2>1. UNCHANGED <<running, ran, link, inbox, outbox, waits, told, sent>>
    BY <1>1 DEF Select, Restart, vars, server, wires, clients
  <2> QED BY <2>1, StillKeeps
<1>2. ASSUME NEW k \in Links, Accept(k) \/ Close(k) PROVE ServerInv'
  BY <1>2, AcceptKeeps, CloseKeeps
<1>3. ASSUME NEW r \in running, Complete(r) PROVE ServerInv'
  BY <1>3, CompleteKeeps
<1>4. CASE Die \/ ReadAnswer \/ Reconnect
  BY <1>4, DieKeeps, ReadAnswerKeeps, ReconnectKeeps
<1>5. ASSUME NEW c \in Callers, TimeOut(c) \/ \E form \in Forms : Execute(c, form) PROVE ServerInv'
  BY <1>5, TimeOutKeeps, ExecuteKeeps
<1>6. ASSUME NEW t \in Tools,
             ToolEnds(t) \/ Interrupt(t) \/ \E form \in Forms : RunTool(t, form)
      PROVE  ServerInv'
  BY <1>6, ToolEndsKeeps, InterruptKeeps, RunToolKeeps
<1> QED BY <1>1, <1>2, <1>3, <1>4, <1>5, <1>6 DEF Next, Serve

\* Whoever stops waiting by this step has been told the truth.
LEMMA StepTellsTruth ==
  ASSUME ServerInv, Next, NEW c \in Clients, waits[c] # 0, waits'[c] = 0
  PROVE  /\ told'[c] \in Results => ran'[waits[c]] = told'[c]
         /\ told'[c] = "refused" =>
              ran'[waits[c]] = "no" /\ waits[c] \notin {r.n : r \in running'}
<1> USE DEF Results
<1>1. waits \in [Clients -> Nat] /\ DOMAIN told = Clients /\ sent \in Nat
  BY DEF ServerInv, Types
<1>2. CASE ReadAnswer
  <2> DEFINE a == Head(outbox[Java])
  <2>1. /\ ran' = ran /\ outbox[Java] # <<>> /\ c \in Callers /\ waits[c] = a.n
        /\ told'[c] = IF a.says = "refused" THEN "failed" ELSE a.says
    BY <1>2, ReadAnswerMoves
  <2>2. outbox[Java] \in Seq(Answers) /\ Java \in Links /\ Link(c) = Java
    BY <2>1, LinkTypes DEF ServerInv, Types
  <2>3. a = outbox[Java][1] /\ 1 \in 1..Len(outbox[Java]) /\ a \in Answers
    BY <2>1, <2>2
  <2> HIDE DEF a
  <2>4. ~Unread(Java, 1)
    BY <2>1, <2>2, <2>3 DEF Unread
  <2>5. a.says \in Results => ran[a.n] = a.says
    BY <2>2, <2>3, <2>4 DEF ServerInv, Truthful
  <2> QED BY <2>1, <2>5
<1>3. ASSUME NEW d, Ends(d, "failed") PROVE d = c => told'[c] = "failed"
  BY <1>1, <1>3 DEF Ends
<1>4. ASSUME NEW d, NEW what, Ends(d, what) PROVE d = c
  BY <1>1, <1>4 DEF Ends
<1>5. CASE \E d \in Callers : TimeOut(d)
  BY <1>3, <1>4, <1>5 DEF TimeOut
<1>6. CASE \E t \in Tools : Interrupt(t)
  BY <1>3, <1>4, <1>6 DEF Interrupt
<1>7. ASSUME NEW t \in Tools, ToolEnds(t)
      PROVE  /\ told'[c] \in Results => ran'[waits[c]] = told'[c]
             /\ told'[c] = "refused" =>
                  ran'[waits[c]] = "no" /\ waits[c] \notin {r.n : r \in running'}
  <2>1. PICK what : Ends(t, what) /\ ((outbox[t] # <<>> /\ what = Head(outbox[t]).says) \/ what = "failed")
    BY <1>7 DEF ToolEnds
  <2>2. t = c /\ told'[c] = what /\ ran' = ran /\ running' = running
    BY <1>1, <1>4, <1>7, <2>1 DEF Ends, ToolEnds, server
  <2>3. CASE outbox[t] # <<>> /\ what = Head(outbox[t]).says
    <3> DEFINE a == outbox[t][1]
    <3>1. t \in Links /\ Link(t) = t /\ outbox[t] \in Seq(Answers)
      BY LinkTypes DEF ServerInv, Types
    <3>2. 1 \in 1..Len(outbox[t]) /\ Head(outbox[t]) = a
      BY <2>3, <3>1
    <3>3. a.n \in Out(t)
      BY <3>2 DEF Out, Nums, Elems
    <3>4. waits[c] = a.n
      BY <2>2, <3>3 DEF ServerInv, OneShot, OneShotAt, Held
    <3>5. ~Unread(t, 1)
      BY <2>2, <3>1, <3>4 DEF Unread
    <3>6. /\ a.says = "refused" => ran[a.n] = "no"
          /\ a.says \in Results => ran[a.n] = a.says
      BY <3>1, <3>2, <3>5 DEF ServerInv, Truthful
    <3>7. ASSUME NEW r \in running PROVE a.n # r.n
      <4>1. r.link \in Links /\ r.n \in RunOn(r.link)
        BY DEF ServerInv, Types, Runs, RunOn
      <4> QED BY <3>1, <3>3, <4>1, AnsweredIsOver
    <3> HIDE DEF a
    <3> QED BY <2>2, <2>3, <3>2, <3>4, <3>6, <3>7
  <2> QED BY <2>1, <2>2, <2>3
<1>8. ASSUME NEW d, NEW k, NEW form, Command(d, k, form) PROVE FALSE
  <2>1. waits' = [waits EXCEPT ![d] = sent + 1] /\ sent + 1 # 0
    BY <1>1, <1>8 DEF Command
  <2> QED BY <1>1, <2>1
<1>9. CASE waits' = waits
  BY <1>9
<1> QED BY <1>2, <1>5, <1>6, <1>7, <1>8, <1>9
        DEF Next, Serve, Select, Accept, Close, Complete, Die, Restart, Reconnect,
            Execute, RunTool, clients

\* When a caller has its answer, no earlier command of its connection remains.
LEMMA StepInOrder ==
  ASSUME ServerInv, Next, NEW c \in Callers, told[c] = "none", told'[c] \in Results,
         NEW n \in Pending(Java)
  PROVE  n > waits[c]
<1> USE DEF Results
<1>1. DOMAIN told = Clients /\ c \in Clients /\ Java \in Links /\ c \notin Tools
  BY LinkTypes DEF ServerInv, Types
<1>2. CASE ReadAnswer
  <2> DEFINE a == Head(outbox[Java])
  <2>1. outbox[Java] # <<>> /\ waits[c] = a.n
    BY <1>1, <1>2, ReadAnswerMoves
  <2>2. outbox[Java] \in Seq(Answers)
    BY <1>1 DEF ServerInv, Types
  <2>3. a.n \in Out(Java)
    BY <2>1, <2>2, TailNums DEF Out
  <2>4. n \in In(Java) \cup RunOn(Java)
    BY <1>1, PendingIs
  <2>5. a.n < n /\ n \in 1..sent /\ a.n \in 1..sent /\ sent \in Nat
    BY <1>1, <2>3, <2>4 DEF ServerInv, Ordered, Numbers, Held, Types
  <2> HIDE DEF a
  <2> QED BY <2>1, <2>5
<1>3. ASSUME NEW d, NEW what, Ends(d, what), d \in Tools \/ what = "failed" PROVE FALSE
  BY <1>1, <1>3 DEF Ends
<1>4. ASSUME NEW d, NEW k, NEW form, Command(d, k, form) PROVE FALSE
  BY <1>1, <1>4 DEF Command
<1>5. CASE \E d \in Callers : TimeOut(d)
  BY <1>3, <1>5 DEF TimeOut
<1>6. CASE \E t \in Tools : ToolEnds(t) \/ Interrupt(t)
  BY <1>3, <1>6 DEF ToolEnds, Interrupt
<1>7. told' # told
  BY <1>1
<1> QED BY <1>2, <1>4, <1>5, <1>6, <1>7
        DEF Next, Serve, Select, Accept, Close, Complete, Die, Restart, Reconnect,
            Execute, RunTool, clients

LEMMA ServerInvariant == Spec => []ServerInv
<1>1. Init => ServerInv
  BY InitServerInv
<1>2. ServerInv /\ [Next]_vars => ServerInv'
  BY ServerStepKeeps
<1> QED BY <1>1, <1>2, PTL DEF Spec

\* A client is told about its own command, and the truth: a result is what the
\* library returned, and a refused command has not run and will not.
THEOREM AnswersTrueCorrect == Spec => AnswersTrue
<1>1. ServerInv /\ [Next]_vars =>
        [\A c \in Clients : waits[c] # 0 /\ waits'[c] = 0 =>
           /\ told'[c] \in Results => ran'[waits[c]] = told'[c]
           /\ told'[c] = "refused" =>
                ran'[waits[c]] = "no" /\ waits[c] \notin {r.n : r \in running'}]_vars
  BY StepTellsTruth
<1> QED BY <1>1, ServerInvariant, PTL DEF Spec, AnswersTrue

\* An answer reaches the framework only when nothing it sent before is still
\* to be carried out.
THEOREM InOrderCorrect == Spec => InOrder
<1>1. ServerInv /\ [Next]_vars =>
        [\A c \in Callers : told[c] = "none" /\ told'[c] \in Results =>
           \A n \in Pending(Java) : n > waits[c]]_vars
  BY StepInOrder
<1> QED BY <1>1, ServerInvariant, PTL DEF Spec, InOrder

=============================================================================
