------------------------------- MODULE Pause -------------------------------
(***************************************************************************)
(* The pause of the emulator: setBatteryPause() and everything that calls  *)
(* it (equipment stop, pause, resume, firmware update, restart), and the   *)
(* part of the one second sub-task that moves the pause on.  Each call is  *)
(* one step here; PauseRace takes the calls apart.                         *)
(***************************************************************************)
EXTENDS Integers

CONSTANTS
  RestartPaused,   \* restart after this long when paused  (5 s)
  RestartAlways    \* restart after this long in any case (10 s)

ASSUME RestartAssumption ==
  RestartPaused \in Nat /\ RestartAlways \in Nat /\ RestartPaused < RestartAlways

VARIABLES
  emulator_pause_status,
  emulator_pause_request_ON,
  emulator_pause_CAN_send_ON,
  allowed_to_send_CAN,
  equipment_stop_active,
  stored_equipment_stop,       \* the copy in flash
  stop_event,                  \* EVENT_EQUIPMENT_STOP is active: a FAULT
  power_allowed,               \* the power limits of the batteries are not zero
  current_low,                 \* every pack's current is below 1.8 A
  emulator_restart_request     \* age of the restart request, or NoRestart

pause == <<emulator_pause_status, emulator_pause_request_ON,
           emulator_pause_CAN_send_ON, allowed_to_send_CAN>>
stop == <<equipment_stop_active, stored_equipment_stop, stop_event>>
pvars == <<pause, stop, power_allowed, current_low, emulator_restart_request>>

PauseStatus == {"NORMAL", "PAUSING", "PAUSED", "RESUMING"}
NoRestart == -1

PauseTypeOK ==
  /\ emulator_pause_status \in PauseStatus
  /\ emulator_pause_request_ON \in BOOLEAN
  /\ emulator_pause_CAN_send_ON \in BOOLEAN
  /\ allowed_to_send_CAN \in BOOLEAN
  /\ equipment_stop_active \in BOOLEAN
  /\ stored_equipment_stop \in BOOLEAN
  /\ stop_event \in BOOLEAN
  /\ power_allowed \in BOOLEAN
  /\ current_low \in BOOLEAN
  /\ emulator_restart_request \in NoRestart..(RestartAlways + 1)

-----------------------------------------------------------------------------

\* Where update_pause_state() takes a status under a request.
Settled(status, request) ==
  IF request /\ status = "PAUSING" /\ current_low THEN "PAUSED"
  ELSE IF ~request /\ status = "RESUMING" THEN "NORMAL"
  ELSE status

MaySend(status, pauseCAN) == ~pauseCAN \/ status = "NORMAL"

update_pause_state ==
  LET status == Settled(emulator_pause_status, emulator_pause_request_ON)
  IN  /\ emulator_pause_status' = status
      /\ allowed_to_send_CAN' = MaySend(status, emulator_pause_CAN_send_ON)
      /\ UNCHANGED <<emulator_pause_request_ON, emulator_pause_CAN_send_ON>>

\* The first part of setBatteryPause(): only a change of state is acted on.
HandleStop(equipment_stop, store) ==
  \/ /\ equipment_stop = "STOP" /\ ~equipment_stop_active
     /\ equipment_stop_active' = TRUE /\ stop_event' = TRUE
     /\ stored_equipment_stop' = IF store THEN TRUE ELSE stored_equipment_stop
  \/ /\ equipment_stop = "RESUME" /\ equipment_stop_active
     /\ equipment_stop_active' = FALSE /\ stop_event' = FALSE
     /\ stored_equipment_stop' = IF store THEN FALSE ELSE stored_equipment_stop
  \/ /\ \/ equipment_stop = "UNCHANGED"
        \/ equipment_stop = "STOP" /\ equipment_stop_active
        \/ equipment_stop = "RESUME" /\ ~equipment_stop_active
     /\ UNCHANGED stop

\* Mutant: a pause only counts when nothing is paused or resuming.
setBatteryPauseOnce(pause_battery, pause_CAN, equipment_stop, store) ==
  LET status == IF ~pause_battery THEN "RESUMING"
                ELSE IF emulator_pause_status = "NORMAL" THEN "PAUSING" ELSE emulator_pause_status
      request == pause_battery /\ emulator_pause_status = "NORMAL"
  IN  /\ HandleStop(equipment_stop, store)
      /\ emulator_pause_request_ON' = request
      /\ emulator_pause_CAN_send_ON' = (pause_battery /\ pause_CAN)
      /\ emulator_pause_status' = Settled(status, request)
      /\ allowed_to_send_CAN' = MaySend(emulator_pause_status', emulator_pause_CAN_send_ON')
      /\ power_allowed' = (power_allowed /\ ~pause_battery)

setBatteryPause(pause_battery, pause_CAN, equipment_stop, store) ==
  LET status == IF pause_battery THEN "PAUSING" ELSE "RESUMING"
  IN  /\ HandleStop(equipment_stop, store)
      /\ emulator_pause_request_ON' = pause_battery
      /\ emulator_pause_CAN_send_ON' = (pause_battery /\ pause_CAN)
      /\ emulator_pause_status' = Settled(status, pause_battery)
      /\ allowed_to_send_CAN' = MaySend(emulator_pause_status', emulator_pause_CAN_send_ON')
      /\ power_allowed' = (power_allowed /\ ~pause_battery)

-----------------------------------------------------------------------------
(* The callers.  None of them asks for CAN to be paused.                   *)

\* Stop button pressed, /equipmentStop, the MQTT stop command.
EquipmentStop ==
  /\ setBatteryPause(TRUE, FALSE, "STOP", TRUE)
  /\ UNCHANGED <<current_low, emulator_restart_request>>

\* Stop button released or held long, /equipmentStop, the MQTT resume command.
EquipmentResume ==
  /\ setBatteryPause(FALSE, FALSE, "RESUME", TRUE)
  /\ UNCHANGED <<current_low, emulator_restart_request>>

\* /pause, the MQTT pause command, the start of a firmware update or BMS reset.
PauseRequest ==
  /\ setBatteryPause(TRUE, FALSE, "UNCHANGED", TRUE)
  /\ UNCHANGED <<current_low, emulator_restart_request>>

\* Mutant: the end of a pause ends the stop, too.
ResumeRequestEnds ==
  /\ setBatteryPause(FALSE, FALSE, "RESUME", TRUE)
  /\ UNCHANGED <<current_low, emulator_restart_request>>

\* /pause, a firmware update that failed, the end of a BMS reset.
ResumeRequest ==
  /\ setBatteryPause(FALSE, FALSE, "UNCHANGED", TRUE)
  /\ UNCHANGED <<current_low, emulator_restart_request>>

\* Web, MQTT, the Modbus inverter, the access point's settings page.
graceful_restart ==
  /\ setBatteryPause(TRUE, FALSE, "UNCHANGED", FALSE)
  /\ emulator_restart_request' = 0
  /\ UNCHANGED current_low

-----------------------------------------------------------------------------
(* The one second sub-task: update_pause_state, the limits as the battery  *)
(* reports them, zeroed by update_machineryprotection under a pause or a   *)
(* fault, update_restart_progress at the end.                              *)

StatusNow == Settled(emulator_pause_status, emulator_pause_request_ON)

RestartAge == IF emulator_restart_request \in {NoRestart, RestartAlways + 1}
              THEN emulator_restart_request ELSE emulator_restart_request + 1

\* Mutant: a restart waits for the pause however long it takes.
RestartDueWhenPaused == RestartAge > RestartPaused /\ StatusNow = "PAUSED"

RestartDue == \/ RestartAge > RestartPaused /\ StatusNow = "PAUSED"
              \/ RestartAge > RestartAlways

LimitsAllowed == ~emulator_pause_request_ON /\ ~stop_event

OneSecond ==
  /\ ~RestartDue
  /\ update_pause_state
  /\ power_allowed' \in {FALSE, LimitsAllowed}
  /\ emulator_restart_request' = RestartAge
  /\ UNCHANGED <<stop, current_low>>

\* Mutant: the stop is not read back from flash.
BootForgets ==
  /\ emulator_pause_status' = "NORMAL" /\ emulator_pause_request_ON' = FALSE
  /\ emulator_pause_CAN_send_ON' = FALSE /\ allowed_to_send_CAN' = TRUE
  /\ equipment_stop_active' = FALSE /\ stop_event' = FALSE
  /\ power_allowed' = FALSE /\ emulator_restart_request' = NoRestart
  /\ UNCHANGED <<stored_equipment_stop, current_low>>

\* RAM as the firmware initialises it; the stop comes back from flash.
Boot ==
  /\ emulator_pause_status' = "NORMAL" /\ emulator_pause_request_ON' = FALSE
  /\ emulator_pause_CAN_send_ON' = FALSE /\ allowed_to_send_CAN' = TRUE
  /\ equipment_stop_active' = stored_equipment_stop
  /\ stop_event' = stored_equipment_stop
  /\ power_allowed' = FALSE /\ emulator_restart_request' = NoRestart
  /\ UNCHANGED <<stored_equipment_stop, current_low>>

\* ESP.restart(), at the end of a one second pass that finds it due.
Restart == RestartDue /\ Boot

\* A power loss or a watchdog reset, at any moment.
PowerLoss == Boot

-----------------------------------------------------------------------------
(* The rest of the world. *)

\* The inverter and the load decide on the current.
CurrentChanges ==
  /\ current_low' = ~current_low
  /\ UNCHANGED <<pause, stop, power_allowed, emulator_restart_request>>

\* "Clear all events" on the web page also clears the one of an active stop.
reset_all_events ==
  /\ stop_event' = FALSE
  /\ UNCHANGED <<pause, equipment_stop_active, stored_equipment_stop,
                 power_allowed, current_low, emulator_restart_request>>

Calls == EquipmentStop \/ EquipmentResume \/ PauseRequest \/ ResumeRequest \/ graceful_restart

PauseInit ==
  /\ emulator_pause_status = "NORMAL" /\ emulator_pause_request_ON = FALSE
  /\ emulator_pause_CAN_send_ON = FALSE /\ allowed_to_send_CAN = TRUE
  /\ equipment_stop_active \in BOOLEAN
  /\ stored_equipment_stop = equipment_stop_active
  /\ stop_event = equipment_stop_active
  /\ power_allowed = FALSE
  /\ current_low \in BOOLEAN
  /\ emulator_restart_request = NoRestart

PauseNext ==
  \/ Calls \/ OneSecond \/ Restart \/ PowerLoss
  \/ CurrentChanges \/ reset_all_events

PauseSpec == PauseInit /\ [][PauseNext]_pvars

-----------------------------------------------------------------------------
(* Properties. *)

\* Between calls the request and the status agree: a pause that is requested
\* is under way or reached, one that is not is over.  The one second step can
\* only reach PAUSED or NORMAL from states this invariant allows.
PauseCoherent ==
  IF emulator_pause_request_ON THEN emulator_pause_status \in {"PAUSING", "PAUSED"}
  ELSE emulator_pause_status = "NORMAL"

\* While a pause is requested the power limits stay zero, although the battery
\* driver writes its own limits every second, and through any mix of calls.
NoPowerWhilePaused == emulator_pause_request_ON => ~power_allowed

\* An equipment stop outlives restarts and power losses: what runs and what is
\* in flash never differ, whichever caller ordered it.
StopSurvivesBoot == equipment_stop_active = stored_equipment_stop

\* A requested restart is carried out, current or not, unless it is requested
\* again and again.
RestartHappens ==
  \/ []<><<graceful_restart>>_pvars
  \/ (emulator_restart_request # NoRestart) ~> (emulator_restart_request = NoRestart)
=============================================================================
