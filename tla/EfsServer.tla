------------------------------ MODULE EfsServer ------------------------------
(***************************************************************************)
(* efs-server and those who send it commands: the threads of EFSService in *)
(* the Java framework, which share one connection, and edc processes, each *)
(* of which opens one for a single command.  The server has one thread and *)
(* answers a command when the library has returned; a Java caller gives up *)
(* waiting after a while, edc never does.  (The commands vold takes from   *)
(* the same callers, in the older integrations, go the same way.)          *)
(***************************************************************************)
EXTENDS Integers, Sequences

CONSTANTS
  Callers,      \* threads of the framework that call EFSService
  Tools,        \* edc processes
  Java,         \* the connection of EFSService
  MaxCommands,  \* bound on the commands sent
  MaxDeaths     \* bound on the deaths of the server

ASSUME ClientAssumption == Callers \cap Tools = {} /\ Java \notin Tools
ASSUME BoundAssumption == MaxCommands \in Nat /\ MaxDeaths \in Nat

Clients == Callers \cup Tools
Links   == Tools \cup {Java}
Link(c) == IF c \in Callers THEN Java ELSE c

\* A well-formed command; one without permission or with the wrong number of
\* arguments; one whose name the server does not know.
Forms == {"good", "bad", "unknown"}
\* What the library returns: 0, or anything else.
Results == {"zero", "error"}

VARIABLES
  up,       \* is the server running?
  link,     \* link[k]: connected, left by the client, dropped by the server
  inbox,    \* inbox[k]: commands the server has not read
  outbox,   \* outbox[k]: answers the client has not read
  round,    \* the connections the listener still has to look at
  running,  \* the commands handed to the library
  waits,    \* waits[c]: the number of the command c waits for, or 0
  told,     \* told[c]: how c's last command went, as far as c knows
  sent,     \* commands sent so far; the next one gets the next number
  ran,      \* ghost: what the library returned for each command
  deaths

server  == <<up, round, running, ran>>
wires   == <<link, inbox, outbox>>
clients == <<waits, told>>
vars    == <<server, wires, clients, sent, deaths>>

Init ==
  /\ up = TRUE /\ round = {} /\ running = {} /\ ran = <<>>
  /\ link = [k \in Links |-> IF k = Java THEN "open" ELSE "none"]
  /\ inbox = [k \in Links |-> <<>>] /\ outbox = [k \in Links |-> <<>>]
  /\ waits = [c \in Clients |-> 0] /\ told = [c \in Clients |-> "none"]
  /\ sent = 0 /\ deaths = 0

-----------------------------------------------------------------------------
(* The clients.                                                              *)

\* c hands its command to link k.  What the answer will say is told later.
Command(c, k, form) ==
  /\ sent < MaxCommands /\ waits[c] = 0
  /\ inbox' = [inbox EXCEPT ![k] = Append(@, [n |-> sent + 1, form |-> form])]
  /\ waits' = [waits EXCEPT ![c] = sent + 1] /\ told' = [told EXCEPT ![c] = "none"]
  /\ sent' = sent + 1 /\ ran' = Append(ran, "no")
  /\ UNCHANGED <<up, round, running, deaths>>

\* NativeDaemonConnector.execute: without a connection it throws at once,
\* which changes nothing.
Execute(c, form) ==
  link[Java] = "open" /\ Command(c, Java, form) /\ UNCHANGED <<link, outbox>>

\* edc connects, waiting for the socket with --wait, and writes its command.
RunTool(t, form) ==
  /\ up /\ link[t] = "none"
  /\ Command(t, t, form)
  /\ link' = [link EXCEPT ![t] = "open"] /\ UNCHANGED outbox

Ends(c, what) == /\ waits' = [waits EXCEPT ![c] = 0]
                 /\ told' = [told EXCEPT ![c] = what]

\* The connector takes an answer to the caller whose number it bears.  All a
\* caller learns from a 5xx, or a timeout, is OperationFailedInternalError.
ReadAnswer ==
  /\ outbox[Java] # <<>>
  /\ outbox' = [outbox EXCEPT ![Java] = Tail(@)]
  /\ LET a == Head(outbox[Java])  for == {c \in Callers : waits[c] = a.n} IN
       IF for = {} THEN UNCHANGED clients
       ELSE \E c \in for : Ends(c, IF a.says = "refused" THEN "failed" ELSE a.says)
  /\ UNCHANGED <<server, link, inbox, sent, deaths>>

TimeOut(c) ==
  /\ waits[c] # 0 /\ Ends(c, "failed")
  /\ UNCHANGED <<server, wires, sent, deaths>>

\* EOF: the connector opens a new connection once it has read the old one.
Reconnect ==
  /\ up /\ link[Java] = "dropped" /\ outbox[Java] = <<>>
  /\ link' = [link EXCEPT ![Java] = "open"]
  /\ UNCHANGED <<server, inbox, outbox, clients, sent, deaths>>

\* edc exits at the first answer, or when the server has gone.
ToolEnds(t) ==
  /\ waits[t] # 0
  /\ \/ outbox[t] # <<>> /\ Ends(t, Head(outbox[t]).says)
     \/ outbox[t] = <<>> /\ link[t] = "dropped" /\ Ends(t, "failed")
  /\ outbox' = [outbox EXCEPT ![t] = <<>>]
  /\ link' = [link EXCEPT ![t] = IF @ = "dropped" THEN "none" ELSE "left"]
  /\ UNCHANGED <<server, inbox, sent, deaths>>

\* edc is interrupted: its command stays where it is.
Interrupt(t) ==
  /\ waits[t] # 0 /\ link[t] = "open" /\ Ends(t, "failed")
  /\ link' = [link EXCEPT ![t] = "left"] /\ outbox' = [outbox EXCEPT ![t] = <<>>]
  /\ UNCHANGED <<server, inbox, sent, deaths>>

-----------------------------------------------------------------------------
(* The server.                                                               *)

\* sendMsg; a client that has left gets nothing.
Answer(k, answers) ==
  outbox' = IF link[k] = "open" THEN [outbox EXCEPT ![k] = @ \o answers] ELSE outbox
Says(n, what) == [n |-> n, says |-> what]

Idle == up /\ running = {}

\* One pass over the connections that have something to read, or have closed.
Select ==
  /\ Idle /\ round = {}
  /\ round' = {k \in Links : inbox[k] # <<>> \/ link[k] = "left"}
  /\ round' # {}
  /\ UNCHANGED <<up, running, ran, wires, clients, sent, deaths>>

\* Mutant: each command gets a thread of its own.
Accept_Threaded(k) ==
  LET r == Head(inbox[k]) IN
  /\ up /\ inbox[k] # <<>>
  /\ inbox' = [inbox EXCEPT ![k] = Tail(@)]
  /\ running' = running \cup {[n |-> r.n, link |-> k, form |-> r.form]}
  /\ UNCHANGED <<up, round, ran, link, outbox, clients, sent, deaths>>
\* Mutant: no return after a usage error.
Accept_FallsThrough(k) ==
  LET r == Head(inbox[k]) IN
  /\ Idle /\ k \in round /\ round' = round \ {k} /\ inbox[k] # <<>>
  /\ inbox' = [inbox EXCEPT ![k] = Tail(@)]
  /\ running' = {[n |-> r.n, link |-> k, form |-> r.form]}
  /\ Answer(k, IF r.form = "bad" THEN <<Says(r.n, "refused")>> ELSE <<>>)
  /\ UNCHANGED <<up, ran, link, clients, sent, deaths>>
\* Mutant: a command that is refused is not answered.
Accept_Silent(k) ==
  LET r == Head(inbox[k]) IN
  /\ Idle /\ k \in round /\ round' = round \ {k} /\ inbox[k] # <<>>
  /\ inbox' = [inbox EXCEPT ![k] = Tail(@)]
  /\ running' = IF r.form = "good" THEN {[n |-> r.n, link |-> k, form |-> r.form]} ELSE {}
  /\ UNCHANGED <<up, ran, link, outbox, clients, sent, deaths>>

\* runCommand: who sent it, the number of arguments, the name.  An unknown
\* name is refused and then falls through to the answer of a success.
Accept(k) ==
  LET r == Head(inbox[k]) IN
  /\ Idle /\ k \in round /\ round' = round \ {k} /\ inbox[k] # <<>>
  /\ inbox' = [inbox EXCEPT ![k] = Tail(@)]
  /\ running' = IF r.form = "good" THEN {[n |-> r.n, link |-> k, form |-> r.form]} ELSE {}
  /\ Answer(k, CASE r.form = "good"    -> <<>>
                 [] r.form = "bad"     -> <<Says(r.n, "refused")>>
                 [] r.form = "unknown" -> <<Says(r.n, "refused"), Says(r.n, "zero")>>)
  /\ UNCHANGED <<up, ran, link, clients, sent, deaths>>

\* The client has left and nothing remains to be read.
Close(k) ==
  /\ Idle /\ k \in round /\ round' = round \ {k} /\ inbox[k] = <<>>
  /\ link' = [link EXCEPT ![k] = IF @ = "left" THEN "none" ELSE @]
  /\ UNCHANGED <<up, running, ran, inbox, outbox, clients, sent, deaths>>

\* The library returns: 200 and its result, whatever that is.
Complete(r) ==
  /\ up /\ r \in running /\ running' = running \ {r}
  /\ \E what \in Results : /\ ran' = [ran EXCEPT ![r.n] = what]
                           /\ Answer(r.link, <<Says(r.n, what)>>)
  /\ UNCHANGED <<up, round, link, inbox, clients, sent, deaths>>

\* The server dies.  A call of the library may have had its effect; commands
\* not yet read are lost, answers that were sent are not.
Die ==
  /\ up /\ deaths < MaxDeaths /\ deaths' = deaths + 1
  /\ up' = FALSE /\ round' = {} /\ running' = {}
  /\ ran' = [n \in 1..sent |-> IF n \in {r.n : r \in running} THEN "cut" ELSE ran[n]]
  /\ inbox' = [k \in Links |-> <<>>]
  /\ link' = [k \in Links |-> CASE link[k] = "open" -> "dropped"
                                [] link[k] = "left" -> "none"
                                [] OTHER            -> link[k]]
  /\ UNCHANGED <<outbox, clients, sent>>
\* init starts it again.
Restart ==
  /\ ~up /\ up' = TRUE
  /\ UNCHANGED <<round, running, ran, wires, clients, sent, deaths>>

Serve == Select \/ (\E k \in Links : Accept(k) \/ Close(k)) \/ \E r \in running : Complete(r)

Next ==
  \/ Serve \/ Die \/ Restart \/ ReadAnswer \/ Reconnect
  \/ \E c \in Callers : TimeOut(c) \/ \E form \in Forms : Execute(c, form)
  \/ \E t \in Tools : ToolEnds(t) \/ Interrupt(t) \/ \E form \in Forms : RunTool(t, form)

Spec == Init /\ [][Next]_vars
\* The listener's thread goes on, library calls return (CallsReturn), edc reads.
FairSpec == Spec /\ WF_vars(Serve) /\ \A t \in Tools : WF_vars(ToolEnds(t))

-----------------------------------------------------------------------------
(* Properties.                                                               *)

\* What a client is told is about its own command and true: a result is what
\* the library returned for it, and a command that edc sees refused has not
\* been carried out, whatever timed out, was interrupted or came late before.
AnswersTrue ==
  [][\A c \in Clients : waits[c] # 0 /\ waits'[c] = 0 =>
       /\ told'[c] \in Results => ran'[waits[c]] = told'[c]
       /\ told'[c] = "refused" =>
            ran'[waits[c]] = "no" /\ waits[c] \notin {r.n : r \in running'}]_vars

\* Commands still to be carried out on connection k.
Pending(k) == {r.n : r \in {s \in running : s.link = k}}
                \cup {inbox[k][i].n : i \in 1..Len(inbox[k])}

\* When a caller has its answer, no earlier command of the framework is still
\* to come, timed out or not: an unlock that was given up cannot open the
\* storage behind a lock that has returned.
InOrder ==
  [][\A c \in Callers : told[c] = "none" /\ told'[c] \in Results =>
       \A n \in Pending(Java) : n > waits[c]]_vars

\* edc never gives up waiting, and it need not: it gets an answer or an EOF.
ToolReturns == \A t \in Tools : waits[t] # 0 ~> waits[t] = 0

=============================================================================
