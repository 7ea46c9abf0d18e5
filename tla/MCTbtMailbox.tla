---------------------------- MODULE MCTbtMailbox ----------------------------
(* The Thunderbolt part of the DSDT: the hot-plug GPE, whose names this     *)
(* module has, and the command registers under the name Mail, with the same *)
(* limit of polls.  They share no state here.  A behaviour of MailSpec is   *)
(* one of the command registers, while the GPE stays as it is.              *)
EXTENDS TbtGpe

CONSTANTS Threads, Requests, Keeps
VARIABLES meth, mpc, mleft, seen, mpresent, p2tr, t2pr, gone

mailVars == <<meth, mpc, mleft, seen, mpresent, p2tr, t2pr, gone>>

Mail == INSTANCE TbtMailbox WITH pc <- mpc, left <- mleft, present <- mpresent

ASSUME WorldAssumption == Requests \in BOOLEAN /\ Keeps \in BOOLEAN

MailInit == Init /\ present /\ Mail!Init

\* The interpreter goes on with every method it has begun.
MailSpec ==
  /\ MailInit /\ [][Mail!Next /\ UNCHANGED vars]_<<vars, mailVars>>
  /\ \A t \in Threads : WF_mailVars(Mail!Step(t))

-----------------------------------------------------------------------------
(* The properties, as TbtMailbox defines and explains them: no valid        *)
(* command stays with a controller that has stayed, and every call returns. *)
NothingLeftValid == Mail!NothingLeftValid
CallsReturn      == Mail!CallsReturn
=============================================================================
