---------------------------- MODULE MaskedWrite ----------------------------
(***************************************************************************)
(* What a caller of UPSB.CRMW is promised: a verified read-modify-write of *)
(* one port register.  Nothing is said about mailboxes, polls or attempts; *)
(* CioMailbox implements this specification.                               *)
(***************************************************************************)
CONSTANTS Ports, Bits, Calls, PowerOn, Late

VARIABLES
  present,  \* the controller answers
  port,     \* its port registers
  running,  \* a call is in progress
  call,     \* arguments of the running or last call
  result,   \* what the last call returned
  removed   \* the controller went away since that call began

vars == <<present, port, running, call, result, removed>>

Init ==
  /\ present \in BOOLEAN
  /\ port = [r \in Ports |-> PowerOn]
  /\ running = FALSE
  /\ call \in Calls
  /\ result = "none"
  /\ removed = FALSE

(* Does a register hold what the call asks for?                            *)
Holds(c) == port[c.reg] \cap c.mask = c.data

Begin(c) ==
  /\ ~running
  /\ call' = c
  /\ removed' = FALSE
  /\ \/ present /\ running' = TRUE /\ result' = "none"
     \/ ~present /\ running' = FALSE /\ result' = "failed"
  /\ UNCHANGED <<present, port>>

(* The controller changes the register of the call inside its mask, and    *)
(* any register in any way once it was removed under the call.             *)
Write ==
  /\ present
  /\ \/ /\ running
        /\ port' = [port EXCEPT ![call.reg] = (@ \ call.mask) \cup call.data]
     \/ /\ running /\ removed
        /\ \E v \in SUBSET Bits : port' = [port EXCEPT ![call.reg] = v]
     \* a command the driver gave up on, finished late
     \/ /\ Late /\ result # "ok"
        /\ \E r \in Ports, v \in SUBSET Bits : port' = [port EXCEPT ![r] = v]
  /\ UNCHANGED <<present, running, call, result, removed>>

(* One success is reported only while the register holds the data, unless  *)
(* the controller was removed during the call.                             *)
Return(r) ==
  /\ running
  /\ running' = FALSE
  /\ result' = r
  /\ r = "ok" => removed \/ Holds(call)
  /\ UNCHANGED <<present, port, call, removed>>

Remove ==
  /\ present /\ present' = FALSE /\ removed' = TRUE
  /\ UNCHANGED <<port, running, call, result>>

Insert ==
  /\ ~present /\ present' = TRUE
  /\ port' = [r \in Ports |-> PowerOn]
  /\ UNCHANGED <<running, call, result, removed>>

Next ==
  \/ \E c \in Calls : Begin(c)
  \/ Write
  \/ \E r \in {"ok", "failed"} : Return(r)
  \/ Remove \/ Insert

Spec == Init /\ [][Next]_vars
=============================================================================
