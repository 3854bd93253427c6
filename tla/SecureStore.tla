----------------------------- MODULE SecureStore -----------------------------
(* The storage as its callers see it: a call that was started takes effect   *)
(* in one step, when it returns, with one of the outcomes of EfsCalls;       *)
(* applications write at the storage path; the device restarts.              *)
EXTENDS EfsCalls

CONSTANTS Ops, InitialItems

VARIABLES
  st,     \* the storage
  call,   \* the last call started
  answer  \* the code it returned ("running": not yet) and how it went

NoCall == [op |-> "none", pw |-> NoPassword, new |-> NoPassword]
Args == [op: Ops \cap {"lock", "remove"}, pw: {NoPassword}, new: {NoPassword}]
          \cup [op: Ops \cap {"create", "unlock", "recover"}, pw: Passwords,
                new: {NoPassword}]
          \cup [op: Ops \cap {"change"}, pw: Passwords, new: Passwords]

Running == [code |-> "running", how |-> "clean"]
Init == /\ st = InTheClear(InitialItems) /\ call = NoCall
        /\ answer = [code |-> "none", how |-> "clean"]

Start(c) == /\ answer # Running
            /\ call' = c /\ answer' = Running /\ UNCHANGED st

Return == /\ answer = Running
          /\ \E o \in Outcomes(st, call) :
               st' = o.to /\ answer' = [code |-> o.code, how |-> o.how]
          /\ UNCHANGED call

\* Mounts are gone; a call that was running is gone with them.
Restart ==
  /\ \/ /\ answer # Running
        /\ st' = [st EXCEPT !.at = "none"]
        /\ answer' = [answer EXCEPT !.code = "none"]
     \/ /\ answer = Running
        /\ \E o \in {o \in Outcomes(st, call) : o.how = "killed"} :
             st' = [o.to EXCEPT !.at = "none"] /\ answer' = [code |-> o.code, how |-> o.how]
  /\ UNCHANGED call

AppWrite(i) ==
  /\ answer # Running
  /\ st' = IF st.at = "S" THEN [st EXCEPT !.cipher = @ \cup {i}]
           ELSE [st EXCEPT !.clear = @ \cup {i}]
  /\ UNCHANGED <<call, answer>>

Next == \/ \E c \in Args : Start(c)
        \/ Return \/ Restart
        \/ \E i \in Items : AppWrite(i)

Spec == Init /\ [][Next]_<<st, call, answer>>

=============================================================================
