--------------------------- MODULE EquipmentStop ---------------------------
(***************************************************************************)
(* The equipment stop across Pause and Contactors: the calls that set and  *)
(* end the stop, the events that make it a FAULT, the ten millisecond pass *)
(* that opens the contactors and the restart that ends it all.  The        *)
(* contactors read the pause and the fault through the substitution.  A    *)
(* history variable keeps what the users ordered, whatever became of it.   *)
(***************************************************************************)
EXTENDS Pause

CONSTANTS
  BootTime, NegativeTime, PrechargeTime, CompletedTime, EStopTimeout,
  MaxFaultTicks, MaxDelay, MaxWraps, Horizon, Pwm, Inverted, Extra,
  OtherFaults     \* whether ERROR events other than the stop's occur

ASSUME StopAssumption ==
  OtherFaults \in BOOLEAN /\ Pwm \in BOOLEAN /\ Inverted \in BOOLEAN

VARIABLES
  contactorStatus, negative_pin, precharge_pin, positive_pin, since,
  estop_open_wait_start_ms, timeSpentInFaultedMode, contactors_engaged,
  dc_bus_live, open_contactor_event, extra_pin, extra_engaged, pull_in_start,
  uptime, wraps, inverter_allows_contactor_closing, battery_detected, extra_allowed,
  other_fault,    \* an ERROR event other than the equipment stop's is active
  order           \* history: "given" from the call that stops to the one that
                  \* resumes, "opened" once the ladder was at rest since

C == INSTANCE Contactors
       WITH emulator_paused <- (emulator_pause_status = "PAUSED"),
            system_fault <- (stop_event \/ other_fault)

machine == <<contactorStatus, negative_pin, precharge_pin, positive_pin, since,
             estop_open_wait_start_ms, timeSpentInFaultedMode, contactors_engaged,
             dc_bus_live, open_contactor_event, extra_pin, extra_engaged,
             pull_in_start, uptime, wraps>>
permissions == <<inverter_allows_contactor_closing, battery_detected, extra_allowed>>
evars == <<pvars, machine, permissions, other_fault, order>>

-----------------------------------------------------------------------------

\* The main contactors are open and no closing sequence is under way.
AtRest == contactorStatus \in {"DISCONNECTED", "SHUTDOWN_REQUESTED"} /\ C!MainOpen

\* An order that stands is carried out when the ladder comes to rest.
OrderFollows == order' = IF order # "none" /\ AtRest' THEN "opened" ELSE order

\* One pass of handle_contactors().
Pass ==
  /\ UNCHANGED <<pvars, permissions, other_fault>>
  /\ \E d \in 1..MaxDelay : C!handle_contactors(d)
  /\ OrderFollows

\* A caller of setBatteryPause(), the one second sub-task, the current.
PauseStep ==
  /\ \/ EquipmentStop /\ order' = IF order = "none" THEN "given" ELSE order
     \/ EquipmentResume /\ order' = "none"
     \/ /\ PauseRequest \/ ResumeRequest \/ graceful_restart
           \/ OneSecond \/ CurrentChanges \/ reset_all_events
        /\ UNCHANGED order
  /\ UNCHANGED <<machine, permissions, other_fault>>

\* What the inverter, the batteries and the other safety checks write.
Others ==
  /\ inverter_allows_contactor_closing' \in BOOLEAN
  /\ battery_detected' \in {TRUE, battery_detected}
  /\ extra_allowed' \in [Extra -> BOOLEAN]
  /\ other_fault' \in {FALSE, OtherFaults}
  /\ UNCHANGED <<pvars, machine, order>>

\* ESP.restart() or a reset of the chip: the outputs fall back to what
\* init_contactors() drives.
Reboot ==
  /\ Restart \/ PowerLoss
  /\ contactorStatus' = "DISCONNECTED"
  /\ negative_pin' = C!Set(FALSE, "off") /\ positive_pin' = C!Set(FALSE, "off")
  /\ precharge_pin' = C!SetDigital(FALSE)
  /\ since' = [s \in C!Stamp |-> 0] /\ estop_open_wait_start_ms' = C!NotWaiting
  /\ timeSpentInFaultedMode' = 0 /\ open_contactor_event' = C!NoEvent
  /\ contactors_engaged' = 0 /\ dc_bus_live' = TRUE
  /\ extra_pin' = [e \in Extra |-> C!Set(FALSE, "off")]
  /\ extra_engaged' = [e \in Extra |-> FALSE] /\ pull_in_start' = [e \in Extra |-> 0]
  /\ uptime' = 0 /\ wraps' = 0
  /\ inverter_allows_contactor_closing' = TRUE /\ battery_detected' = FALSE
  /\ extra_allowed' = [e \in Extra |-> FALSE] /\ other_fault' = FALSE
  /\ OrderFollows

StopInit ==
  /\ PauseInit /\ other_fault = FALSE /\ C!Init
  /\ order = IF equipment_stop_active THEN "given" ELSE "none"

StopNext == Pass \/ PauseStep \/ Others \/ Reboot

StopSpec == StopInit /\ [][StopNext]_evars

\* The one second sub-task keeps running, up to the restart it carries out.
StopFairSpec == StopSpec /\ WF_evars((OneSecond /\ PauseStep) \/ (Restart /\ Reboot))

-----------------------------------------------------------------------------
(* Properties. *)

\* Once a stop that a user ordered has opened the contactors they stay open until
\* a user resumes: no restart or power loss, no pause or resume of another caller,
\* no clearing of the events, no fault that comes or goes and no permission of the
\* inverter closes one in between.
StopHolds == order = "opened" => AtRest
=============================================================================
