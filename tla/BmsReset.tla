------------------------------ MODULE BmsReset ------------------------------
(***************************************************************************)
(* The power cycle of the BMS: handle_BMSpower() in the 10 ms sub-task,    *)
(* start_bms_reset() from that sub-task and from the web and MQTT tasks,   *)
(* and the liveness counter the one second sub-task counts down meanwhile. *)
(*                                                                         *)
(* Time is in seconds; stamps are kept as ages, capped at Horizon, which   *)
(* exceeds every limit.  A pass reads millis() once, into currentTime, and *)
(* uses it later: a start from another task in between takes its stamps    *)
(* from a newer clock, and the unsigned differences wrap.                  *)
(***************************************************************************)
EXTENDS Integers

CONSTANTS
  Periodic, Remote,  \* periodic_bms_reset, remote_bms_reset
  DeferLowSoc,       \* periodic_bms_reset_defer_low_soc
  SkipBalancing,     \* periodic_bms_reset_skip_balancing
  Interval,          \* bms_reset_interval_ms()
  Duration,          \* user_set_bms_reset_duration_ms
  Warmup,            \* bmsWarmupDuration
  WaitLow, GiveUp,   \* 5000 and 10000 ms of waiting for the current
  StillAlive,        \* CAN_STILL_ALIVE
  Horizon            \* bound: ages are capped here

KeepaliveInterval == StillAlive - 1

ASSUME ResetConfigAssumption ==
  {Periodic, Remote, DeferLowSoc, SkipBalancing} \subseteq BOOLEAN

ASSUME ResetTimeAssumption ==
  /\ {Interval, Duration, Warmup, WaitLow, GiveUp} \subseteq 0..Horizon
  /\ Horizon \in Nat /\ StillAlive \in 2..Horizon

VARIABLES
  bms_reset_status,
  bms_power,              \* the BMS_POWER output
  lastPowerRemovalTime, lastCanKeepaliveTime, bmsPowerOnTime,   \* ages
  balancingPeriodSkipped,
  clock,                  \* currentTime of the pass in progress
  passed,                 \* what handle_BMSpower() last did in this second
  still_alive,            \* CAN_battery_still_alive
  missing_event,          \* EVENT_CAN_BATTERY_MISSING
  emulator_pause_request_ON,
  equipment_stop_active,
  current,                \* battery current, as the wait for the pause sees it
  soc_low, balancing,     \* what the verdict looks at
  contactor_control_enabled,   \* a setting, fixed at boot
  off_for,                \* history: the seconds the power has been off
  begun_full              \* history: the BMS was heard within the second when the reset began

stamps == <<lastPowerRemovalTime, lastCanKeepaliveTime, bmsPowerOnTime>>
inputs == <<equipment_stop_active, current, soc_low, balancing, contactor_control_enabled>>
history == <<off_for, begun_full>>
vars == <<bms_reset_status, bms_power, stamps, balancingPeriodSkipped, clock,
          passed, still_alive, missing_event, emulator_pause_request_ON, inputs, history>>

ResetTypeOK ==
  /\ bms_reset_status \in {"IDLE", "WAITING_FOR_PAUSE", "POWERED_OFF", "POWERING_ON"}
  /\ bms_power \in BOOLEAN
  /\ lastPowerRemovalTime \in 0..Horizon /\ lastCanKeepaliveTime \in 0..Horizon
  /\ bmsPowerOnTime \in 0..Horizon
  /\ balancingPeriodSkipped \in BOOLEAN
  /\ clock \in {"none", "now", "stale"}
  /\ passed \in {"no", "skipped", "ran"}
  /\ still_alive \in 0..StillAlive
  /\ missing_event \in BOOLEAN
  /\ emulator_pause_request_ON \in BOOLEAN
  /\ equipment_stop_active \in BOOLEAN
  /\ current \in {"zero", "low", "high"}
  /\ soc_low \in BOOLEAN /\ balancing \in BOOLEAN
  /\ off_for \in 0..Horizon /\ begun_full \in BOOLEAN
  /\ contactor_control_enabled \in BOOLEAN

-----------------------------------------------------------------------------
(* Helpers. *)

\* currentTime - stamp >= limit, in 32 unsigned bits: a stamp that is newer
\* than currentTime is almost 2^32 ms ago.
Elapsed(age, limit) == age >= limit \/ (clock = "stale" /\ age = 0)

needs_can_keepalive == Duration > KeepaliveInterval

\* Mutant: the counters are kept up from the first whole liveness window.
KeepaliveDueLate == needs_can_keepalive /\ Elapsed(lastCanKeepaliveTime, StillAlive + 1)

KeepaliveDue == needs_can_keepalive /\ Elapsed(lastCanKeepaliveTime, KeepaliveInterval)

refresh_can_alive == lastCanKeepaliveTime' = 0 /\ still_alive' = StillAlive

can_keepalive_tick ==
  IF KeepaliveDue THEN refresh_can_alive
  ELSE UNCHANGED <<lastCanKeepaliveTime, still_alive>>

verdict ==
  IF DeferLowSoc /\ soc_low THEN "Defer"
  ELSE IF SkipBalancing /\ ~balancingPeriodSkipped /\ balancing THEN "SkipPeriod"
  ELSE "Run"

\* Mutant: the removal is not stamped.
start_bms_resetUnstamped ==
  /\ lastCanKeepaliveTime' = 0 /\ UNCHANGED lastPowerRemovalTime
  /\ emulator_pause_request_ON' = TRUE
  /\ bms_power' = (bms_power /\ ~contactor_control_enabled)
  /\ bms_reset_status' = IF contactor_control_enabled THEN "POWERED_OFF" ELSE "WAITING_FOR_PAUSE"
  /\ begun_full' = (still_alive >= StillAlive - 1)

\* What start_bms_reset() does when no reset runs.
start_bms_reset ==
  /\ lastPowerRemovalTime' = 0 /\ lastCanKeepaliveTime' = 0
  /\ emulator_pause_request_ON' = TRUE
  /\ bms_power' = (bms_power /\ ~contactor_control_enabled)
  /\ bms_reset_status' = IF contactor_control_enabled THEN "POWERED_OFF" ELSE "WAITING_FOR_PAUSE"
  /\ begun_full' = (still_alive >= StillAlive - 1)

-----------------------------------------------------------------------------
(* handle_BMSpower(): it reads the clock, then acts on one state. *)

BeginPass ==
  /\ clock = "none"
  /\ ~equipment_stop_active /\ (Periodic \/ Remote)
  /\ clock' = "now"
  /\ UNCHANGED <<bms_reset_status, bms_power, stamps, balancingPeriodSkipped, passed,
                 still_alive, missing_event, emulator_pause_request_ON, inputs, history>>

\* An equipment stop, or no reset configured: nothing is done.
SkipPass ==
  /\ clock = "none"
  /\ equipment_stop_active \/ ~(Periodic \/ Remote)
  /\ passed' = "skipped"
  /\ UNCHANGED <<bms_reset_status, bms_power, stamps, balancingPeriodSkipped, clock,
                 still_alive, missing_event, emulator_pause_request_ON, inputs, history>>

PeriodDue == Periodic /\ Elapsed(lastPowerRemovalTime, Interval)

Idle ==
  /\ bms_reset_status = "IDLE"
  /\ ~(PeriodDue /\ verdict # "Defer")
  /\ UNCHANGED <<bms_reset_status, bms_power, stamps, balancingPeriodSkipped,
                 still_alive, emulator_pause_request_ON>>

\* Mutant: a skipped period does not use up the allowance.
SkipPeriodAgain ==
  /\ bms_reset_status = "IDLE" /\ PeriodDue /\ verdict = "SkipPeriod"
  /\ lastPowerRemovalTime' = 0
  /\ UNCHANGED <<bms_reset_status, bms_power, lastCanKeepaliveTime, bmsPowerOnTime,
                 balancingPeriodSkipped, still_alive, emulator_pause_request_ON>>

SkipPeriod ==
  /\ bms_reset_status = "IDLE" /\ PeriodDue /\ verdict = "SkipPeriod"
  /\ lastPowerRemovalTime' = 0 /\ balancingPeriodSkipped' = TRUE
  /\ UNCHANGED <<bms_reset_status, bms_power, lastCanKeepaliveTime, bmsPowerOnTime,
                 still_alive, emulator_pause_request_ON>>

RunPeriodic ==
  /\ bms_reset_status = "IDLE" /\ PeriodDue /\ verdict = "Run"
  /\ balancingPeriodSkipped' = FALSE
  /\ start_bms_reset
  /\ UNCHANGED <<bmsPowerOnTime, still_alive>>

SafeToCut == current = "zero" \/ (current = "low" /\ Elapsed(lastPowerRemovalTime, WaitLow))

CutPower ==
  /\ bms_reset_status = "WAITING_FOR_PAUSE" /\ SafeToCut
  /\ bms_power' = FALSE /\ lastPowerRemovalTime' = 0
  /\ bms_reset_status' = "POWERED_OFF"
  /\ UNCHANGED <<lastCanKeepaliveTime, bmsPowerOnTime, balancingPeriodSkipped,
                 still_alive, emulator_pause_request_ON>>

\* Still current after the wait: the reset is given up, the pause stays.
AbortReset ==
  /\ bms_reset_status = "WAITING_FOR_PAUSE" /\ ~SafeToCut
  /\ Elapsed(lastPowerRemovalTime, GiveUp)
  /\ bms_reset_status' = "IDLE"
  /\ UNCHANGED <<bms_power, stamps, balancingPeriodSkipped, still_alive,
                 emulator_pause_request_ON>>

WaitForPause ==
  /\ bms_reset_status = "WAITING_FOR_PAUSE"
  /\ ~SafeToCut /\ ~Elapsed(lastPowerRemovalTime, GiveUp)
  /\ UNCHANGED <<bms_reset_status, bms_power, stamps, balancingPeriodSkipped,
                 still_alive, emulator_pause_request_ON>>

StayOff ==
  /\ bms_reset_status = "POWERED_OFF" /\ ~Elapsed(lastPowerRemovalTime, Duration)
  /\ can_keepalive_tick
  /\ UNCHANGED <<bms_reset_status, bms_power, lastPowerRemovalTime, bmsPowerOnTime,
                 balancingPeriodSkipped, emulator_pause_request_ON>>

\* Mutant: the warm-up is over before the power is back.
PowerOnLate ==
  /\ bms_reset_status = "POWERED_OFF" /\ Elapsed(lastPowerRemovalTime, Duration)
  /\ bmsPowerOnTime' = 0
  /\ IF needs_can_keepalive THEN refresh_can_alive
     ELSE UNCHANGED <<lastCanKeepaliveTime, still_alive>>
  /\ bms_reset_status' = "POWERING_ON"
  /\ UNCHANGED <<bms_power, lastPowerRemovalTime, balancingPeriodSkipped,
                 emulator_pause_request_ON>>

PowerOn ==
  /\ bms_reset_status = "POWERED_OFF" /\ Elapsed(lastPowerRemovalTime, Duration)
  /\ bms_power' = TRUE /\ bmsPowerOnTime' = 0
  /\ IF needs_can_keepalive THEN refresh_can_alive
     ELSE UNCHANGED <<lastCanKeepaliveTime, still_alive>>
  /\ bms_reset_status' = "POWERING_ON"
  /\ UNCHANGED <<lastPowerRemovalTime, balancingPeriodSkipped, emulator_pause_request_ON>>

\* The tick that keeps the counter up runs in both branches.
WarmUp ==
  /\ bms_reset_status = "POWERING_ON" /\ bmsPowerOnTime < Warmup
  /\ can_keepalive_tick
  /\ UNCHANGED <<bms_reset_status, bms_power, lastPowerRemovalTime, bmsPowerOnTime,
                 balancingPeriodSkipped, emulator_pause_request_ON>>

Finish ==
  /\ bms_reset_status = "POWERING_ON" /\ bmsPowerOnTime >= Warmup
  /\ can_keepalive_tick
  /\ emulator_pause_request_ON' = FALSE
  /\ bms_reset_status' = "IDLE"
  /\ UNCHANGED <<bms_power, lastPowerRemovalTime, bmsPowerOnTime, balancingPeriodSkipped>>

handle_BMSpower ==
  /\ clock # "none" /\ clock' = "none" /\ passed' = "ran"
  /\ \/ RunPeriodic
     \/ /\ \/ Idle \/ SkipPeriod \/ CutPower \/ AbortReset \/ WaitForPause
           \/ StayOff \/ PowerOn \/ WarmUp \/ Finish
        /\ UNCHANGED begun_full
  /\ UNCHANGED <<missing_event, inputs, off_for>>

-----------------------------------------------------------------------------
(* The other actors. *)

\* start_bms_reset() in the web or MQTT task; the millisecond may have turned
\* since the pass in progress read its clock.
RemoteStart ==
  /\ Remote /\ bms_reset_status = "IDLE"
  /\ start_bms_reset
  /\ clock' \in IF clock = "none" THEN {"none"} ELSE {clock, "stale"}
  /\ UNCHANGED <<bmsPowerOnTime, balancingPeriodSkipped, passed, still_alive,
                 missing_event, inputs, off_for>>

Older(age) == IF age = Horizon THEN Horizon ELSE age + 1

\* The BMS sends as soon as it has had power for the warm-up.
Talking == bms_power /\ bmsPowerOnTime >= Warmup

\* The counter at the end of a second: every frame of the BMS has filled it.
AliveNow == IF Talking THEN StillAlive ELSE still_alive

\* A second goes by: check_can_component_alive() counts down and tells, and
\* the next frame may come before or after the next pass.
Second ==
  /\ passed # "no" /\ clock = "none"
  /\ passed' = "no"
  /\ missing_event' = (AliveNow = 0)
  /\ LET counted == IF AliveNow = 0 THEN 0 ELSE AliveNow - 1
     IN  still_alive' \in IF Talking THEN {counted, StillAlive} ELSE {counted}
  /\ lastPowerRemovalTime' = Older(lastPowerRemovalTime)
  /\ lastCanKeepaliveTime' = Older(lastCanKeepaliveTime)
  /\ bmsPowerOnTime' = Older(bmsPowerOnTime)
  /\ off_for' = IF bms_power THEN 0 ELSE Older(off_for)
  /\ UNCHANGED <<bms_reset_status, bms_power, balancingPeriodSkipped, clock,
                 emulator_pause_request_ON, inputs, begun_full>>

\* An equipment stop also pauses; its end also resumes.
EquipmentStop ==
  /\ equipment_stop_active' = ~equipment_stop_active
  /\ emulator_pause_request_ON' = equipment_stop_active'
  /\ UNCHANGED <<bms_reset_status, bms_power, stamps, balancingPeriodSkipped, clock,
                 passed, still_alive, missing_event, current, soc_low, balancing,
                 contactor_control_enabled, history>>

BatteryChanges ==
  /\ \/ current' \in {"zero", "low", "high"} /\ UNCHANGED <<soc_low, balancing>>
     \/ DeferLowSoc /\ soc_low' = ~soc_low /\ UNCHANGED <<current, balancing>>
     \/ SkipBalancing /\ balancing' = ~balancing /\ UNCHANGED <<current, soc_low>>
  /\ UNCHANGED <<bms_reset_status, bms_power, stamps, balancingPeriodSkipped, clock, passed,
                 still_alive, missing_event, emulator_pause_request_ON, equipment_stop_active,
                 contactor_control_enabled, history>>

ResetInit ==
  /\ bms_reset_status = "IDLE" /\ bms_power = TRUE
  /\ lastPowerRemovalTime = 0 /\ lastCanKeepaliveTime = 0 /\ bmsPowerOnTime = Horizon
  /\ balancingPeriodSkipped = FALSE
  /\ clock = "none" /\ passed = "no"
  /\ still_alive = StillAlive /\ missing_event = FALSE
  /\ emulator_pause_request_ON = FALSE /\ equipment_stop_active = FALSE
  /\ current = "high" /\ soc_low = FALSE /\ balancing = FALSE
  /\ off_for = 0 /\ begun_full = FALSE
  /\ contactor_control_enabled \in BOOLEAN

ResetNext ==
  \/ BeginPass \/ SkipPass \/ handle_BMSpower
  \/ RemoteStart \/ Second \/ EquipmentStop \/ BatteryChanges

ResetSpec == ResetInit /\ [][ResetNext]_vars

-----------------------------------------------------------------------------
(* Properties. *)

\* "Refreshing one second before the window closes keeps the counter from ever
\* reaching zero": a reset that keeps the BMS off for longer than its liveness window
\* does not raise EVENT_CAN_BATTERY_MISSING, which would be a FAULT: not while the
\* power is off and not while the BMS starts up, for any phase of the keepalive
\* against the one second check.  Two cases are outside of it: a second whose pass was
\* skipped for an equipment stop, and a reset that begins when the BMS has been silent
\* for longer than a second, as right after another reset: the start restarts the
\* interval of the keepalive but does not fill the counter.
AliveDuringReset ==
  [][~missing_event /\ missing_event'
       => ~needs_can_keepalive \/ passed = "skipped" \/ ~begun_full]_vars

\* Once cut, the power of the BMS stays off for the configured time, "we remove
\* power from the BMS_power pin for 30 seconds", unless a remote start overtook
\* the clock of the pass in progress.
OffLongEnough ==
  [][~bms_power /\ bms_power' /\ clock # "stale" => off_for >= Duration]_vars

\* The BMS gets its power back, but for an equipment stop.
PowerReturns == ~bms_power ~> (bms_power \/ equipment_stop_active)
=============================================================================
