------------------------------- MODULE KeyFile -------------------------------
(* The key file of one storage as the rest of the library relies on it, and   *)
(* as EfsStorage has it: a master key, the one password that opens it, and a  *)
(* status.  Processes read the whole of it, change one thing in their copy    *)
(* and write the whole of it back; a write may be cut off.                    *)
CONSTANTS
  Procs,                \* processes that work on the key file
  Keys, NoKey,          \* master keys; "no password opens this header"
  Passwords, NoPassword

VARIABLES
  hdr,    \* what the key file holds
  copy,   \* copy[p]: the header p is about to write
  call,   \* call[p]: what p was asked for: op, pw and new
  given   \* the passwords each master key has been given, as pairs

Statuses  == {"absent", "malformed", "not_started", "completed"}
NoHeader  == [key |-> NoKey, pass |-> NoPassword, stat |-> "absent"]
Malformed == [NoHeader EXCEPT !.stat = "malformed"]
Readable(h) == h.stat \in {"not_started", "completed"}

\* What a write of new over old may leave when it is cut off.  As long as both
\* are for the same key and password nothing but the status can differ.  Of two
\* that no password opens, earlier cuts may have left halves that belong together.
Torn(old, new) ==
  IF ~Readable(old) THEN {old, Malformed}
  ELSE {old, new, [new EXCEPT !.stat = old.stat]}
       \cup (IF new.key = old.key /\ new.pass = old.pass THEN {}
             ELSE {[key |-> NoKey, pass |-> NoPassword, stat |-> old.stat]})
       \cup (IF old.pass = NoPassword /\ new.pass = NoPassword
             THEN {[key |-> g[1], pass |-> g[2], stat |-> old.stat] : g \in given} ELSE {})

NoCall == [op |-> "none", pw |-> NoPassword, new |-> NoPassword]
Calls  == [op: {"none", "create", "change", "mount", "remove"},
           pw: Passwords \cup {NoPassword}, new: Passwords \cup {NoPassword}]

Init == /\ hdr = NoHeader
        /\ copy = [p \in Procs |-> NoHeader]
        /\ call = [p \in Procs |-> NoCall] /\ given = {}

\* A process that gives up, or is done, forgets its call.
Keeps(p) == \E c \in {call[p], NoCall} : call' = [call EXCEPT ![p] = c]
Take(p, h) == copy' = [copy EXCEPT ![p] = h] /\ UNCHANGED <<hdr, call>>
Gives(k, pw) == given' = given \cup {<<k, pw>>}

Ask(p) == /\ copy[p] = NoHeader /\ \E c \in Calls : call' = [call EXCEPT ![p] = c]
          /\ UNCHANGED <<hdr, copy, given>>

\* A new master key for the password of the call.
Generate(p) ==
  /\ call[p].op = "create"
  /\ \E k \in Keys : /\ Take(p, [key |-> k, pass |-> call[p].pw, stat |-> "not_started"])
                     /\ Gives(k, call[p].pw)
\* EFS_set_status.
ReadForStatus(p) ==
  /\ call[p].op = "create" /\ Readable(hdr)
  /\ Take(p, [hdr EXCEPT !.stat = "completed"]) /\ UNCHANGED given
\* change_passwd: the old password must be the one in force.
ReadForChange(p) ==
  /\ call[p].op = "change" /\ Readable(hdr) /\ hdr.pass = call[p].pw
  /\ Take(p, [hdr EXCEPT !.pass = call[p].new]) /\ Gives(hdr.key, call[p].new)
WriteBack(p) ==
  /\ copy[p] # NoHeader
  /\ copy' = [copy EXCEPT ![p] = NoHeader]
  /\ hdr' \in {copy[p]} \cup Torn(hdr, copy[p])
  /\ Keeps(p) /\ UNCHANGED given
Forget(p) == /\ copy' = [copy EXCEPT ![p] = NoHeader] /\ Keeps(p)
             /\ UNCHANGED <<hdr, given>>
Unlink(p) == /\ call[p].op = "remove" /\ hdr' = NoHeader /\ Keeps(p)
             /\ UNCHANGED <<copy, given>>

Next == \E p \in Procs :
          \/ Generate(p) \/ ReadForStatus(p) \/ ReadForChange(p)
          \/ WriteBack(p) \/ Forget(p) \/ Unlink(p) \/ Ask(p)

Spec == Init /\ [][Next]_<<hdr, copy, call, given>>

=============================================================================
