----------------------------- MODULE PauseRace -----------------------------
(***************************************************************************)
(* setBatteryPause() taken apart.  The core task calls it for the stop     *)
(* button and the BMS reset and runs update_pause_state() every second;    *)
(* the web server and MQTT tasks call it from the other core.  Nothing     *)
(* locks the variables they share, so every access to one is a step.       *)
(***************************************************************************)
EXTENDS Integers

CONSTANTS
  Tasks,   \* the tasks that call setBatteryPause()
  Core     \* the one that also runs the one second sub-task

VARIABLES
  emulator_pause_request_ON, emulator_pause_status,
  equipment_stop_active, stop_event,
  current_low,
  pc,      \* where each task is in the call; "idle" outside
  pauses,  \* pause_battery of the call each task is in
  stops    \* equipment_stop of that call

shared == <<emulator_pause_request_ON, emulator_pause_status,
            equipment_stop_active, stop_event>>
vars == <<shared, current_low, pc, pauses, stops>>

PauseStatus == {"NORMAL", "PAUSING", "PAUSED", "RESUMING"}
Label == {"idle", "stop", "event", "request", "status", "check_paused",
          "set_paused", "check_normal", "set_normal"}

RaceTypeOK ==
  /\ emulator_pause_request_ON \in BOOLEAN /\ emulator_pause_status \in PauseStatus
  /\ equipment_stop_active \in BOOLEAN /\ stop_event \in BOOLEAN
  /\ current_low \in BOOLEAN
  /\ pc \in [Tasks -> Label]
  /\ pauses \in [Tasks -> BOOLEAN]
  /\ stops \in [Tasks -> {"UNCHANGED", "STOP", "RESUME"}]

Goto(t, label) == pc' = [pc EXCEPT ![t] = label]
At(t, label) == pc[t] = label

-----------------------------------------------------------------------------

\* The calls there are: stop, resume from a stop, pause, resume.
Call(t) ==
  /\ At(t, "idle")
  /\ \E call \in {<<TRUE, "STOP">>, <<FALSE, "RESUME">>,
                  <<TRUE, "UNCHANGED">>, <<FALSE, "UNCHANGED">>} :
       /\ pauses' = [pauses EXCEPT ![t] = call[1]]
       /\ stops' = [stops EXCEPT ![t] = call[2]]
  /\ Goto(t, "stop")
  /\ UNCHANGED <<shared, current_low>>

\* Only a change of the stop is acted on, and then its event follows.
HandleStop(t) ==
  /\ At(t, "stop")
  /\ IF (stops[t] = "STOP" /\ ~equipment_stop_active)
          \/ (stops[t] = "RESUME" /\ equipment_stop_active)
     THEN equipment_stop_active' = (stops[t] = "STOP") /\ Goto(t, "event")
     ELSE UNCHANGED equipment_stop_active /\ Goto(t, "request")
  /\ UNCHANGED <<emulator_pause_request_ON, emulator_pause_status, stop_event,
                 current_low, pauses, stops>>

HandleStopEvent(t) ==
  /\ At(t, "event")
  /\ stop_event' = (stops[t] = "STOP")
  /\ Goto(t, "request")
  /\ UNCHANGED <<emulator_pause_request_ON, emulator_pause_status,
                 equipment_stop_active, current_low, pauses, stops>>

SetRequest(t) ==
  /\ At(t, "request")
  /\ emulator_pause_request_ON' = pauses[t]
  /\ Goto(t, "status")
  /\ UNCHANGED <<emulator_pause_status, equipment_stop_active, stop_event,
                 current_low, pauses, stops>>

SetStatus(t) ==
  /\ At(t, "status")
  /\ emulator_pause_status' = IF pauses[t] THEN "PAUSING" ELSE "RESUMING"
  /\ Goto(t, "check_paused")
  /\ UNCHANGED <<emulator_pause_request_ON, equipment_stop_active, stop_event,
                 current_low, pauses, stops>>

(* update_pause_state(): each condition is read, then acted on. *)

OneSecond ==
  /\ At(Core, "idle") /\ Goto(Core, "check_paused")
  /\ UNCHANGED <<shared, current_low, pauses, stops>>

CheckPaused(t) ==
  /\ At(t, "check_paused")
  /\ Goto(t, IF emulator_pause_request_ON /\ emulator_pause_status = "PAUSING" /\ current_low
             THEN "set_paused" ELSE "check_normal")
  /\ UNCHANGED <<shared, current_low, pauses, stops>>

SetPaused(t) ==
  /\ At(t, "set_paused")
  /\ emulator_pause_status' = "PAUSED"
  /\ Goto(t, "check_normal")
  /\ UNCHANGED <<emulator_pause_request_ON, equipment_stop_active, stop_event,
                 current_low, pauses, stops>>

CheckNormal(t) ==
  /\ At(t, "check_normal")
  /\ Goto(t, IF ~emulator_pause_request_ON /\ emulator_pause_status = "RESUMING"
             THEN "set_normal" ELSE "idle")
  /\ UNCHANGED <<shared, current_low, pauses, stops>>

SetNormal(t) ==
  /\ At(t, "set_normal")
  /\ emulator_pause_status' = "NORMAL"
  /\ Goto(t, "idle")
  /\ UNCHANGED <<emulator_pause_request_ON, equipment_stop_active, stop_event,
                 current_low, pauses, stops>>

Proceed(t) ==
  \/ HandleStop(t) \/ HandleStopEvent(t) \/ SetRequest(t) \/ SetStatus(t)
  \/ CheckPaused(t) \/ SetPaused(t) \/ CheckNormal(t) \/ SetNormal(t)

CurrentChanges ==
  /\ current_low' = ~current_low
  /\ UNCHANGED <<shared, pc, pauses, stops>>

Init ==
  /\ emulator_pause_request_ON = FALSE /\ emulator_pause_status = "NORMAL"
  /\ equipment_stop_active = FALSE /\ stop_event = FALSE
  /\ current_low \in BOOLEAN
  /\ pc = [t \in Tasks |-> "idle"]
  /\ pauses = [t \in Tasks |-> FALSE]
  /\ stops = [t \in Tasks |-> "UNCHANGED"]

Next ==
  \/ \E t \in Tasks : Call(t) \/ Proceed(t)
  \/ OneSecond \/ CurrentChanges

Spec == Init /\ [][Next]_vars

-----------------------------------------------------------------------------
(* Properties. *)

Quiet == \A t \in Tasks : At(t, "idle")

\* With every call returned, the request and the status agree, so that a pause
\* that is requested can still reach PAUSED.
RaceCoherent ==
  Quiet => IF emulator_pause_request_ON THEN emulator_pause_status \in {"PAUSING", "PAUSED"}
           ELSE emulator_pause_status = "NORMAL"
=============================================================================
