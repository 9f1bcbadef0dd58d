--------------------------- MODULE UnlockedCalls ---------------------------
(***************************************************************************)
(* What the tasks call without a lock besides the pause: the event table   *)
(* (Events) and the gate of the firmware confirmation (OtaConfirm).  They  *)
(* share no state and neither reads the other's, so a behaviour follows    *)
(* the calls of one of them.                                               *)
(***************************************************************************)
EXTENDS Events, OtaConfirm

VARIABLE called

callvars == <<eventvars, otavars, called>>

CallsInit == called \in {"events", "gate"} /\ EventsInit /\ OtaInit

EventsCall == called = "events" /\ EventsNext /\ UNCHANGED <<otavars, called>>
GateCall(A) == called = "gate" /\ A /\ UNCHANGED <<eventvars, called>>

CallsNext == EventsCall \/ GateCall(OtaNext)

\* The core task and loop() come round for ever, and a call of the gate that
\* began ends.
CallsSpec ==
  /\ CallsInit /\ [][CallsNext]_callvars
  /\ WF_callvars(GateCall(Check)) /\ WF_callvars(GateCall(Service))
  /\ \A r \in Requesters :
       WF_callvars(GateCall(RequestReads(r))) /\ WF_callvars(GateCall(RequestSets(r)))

\* The properties are those of Events and OtaConfirm.
=============================================================================
