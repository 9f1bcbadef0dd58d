----------------------------- MODULE Contactors -----------------------------
(***************************************************************************)
(* The GPIO contactor control of the emulator: handle_contactors() and the *)
(* handlers of the extra contactors of batteries 2 and 3, as they run in   *)
(* the 10 ms sub-task of the core loop with contactor_control_enabled.     *)
(*                                                                         *)
(* Time.  The code stores millis() stamps and reads unsigned differences.  *)
(* The model keeps the differences: each stamp is its age, capped at       *)
(* Horizon, which exceeds every limit an age is compared with.  A pass     *)
(* ages every stamp by the time since the last pass, 1..MaxDelay units.    *)
(* Only millis() itself is compared with an absolute value (the ten second *)
(* start-up window); it restarts from zero when the 32-bit counter wraps.  *)
(***************************************************************************)
EXTENDS Integers

CONSTANTS
  Extra,          \* the extra batteries that have a GPIO contactor
  Pwm,            \* pwm_contactor_control
  Inverted,       \* contactor_control_inverted_logic
  BootTime,       \* INTERVAL_10_S
  NegativeTime,   \* NEGATIVE_CONTACTOR_TIME_MS
  PrechargeTime,  \* precharge_time_ms
  CompletedTime,  \* PRECHARGE_COMPLETED_TIME_MS
  EStopTimeout,   \* ESTOP_OPEN_TIMEOUT_MS
  MaxFaultTicks,  \* MAX_ALLOWED_FAULT_TICKS
  MaxDelay,       \* bound: the longest time between two passes
  MaxWraps,       \* bound: how often millis() wraps in a behaviour
  Horizon         \* bound: ages are capped here

ASSUME ConfigAssumption == Pwm \in BOOLEAN /\ Inverted \in BOOLEAN

ASSUME TimeAssumption ==
  /\ BootTime \in Nat /\ MaxFaultTicks \in Nat /\ MaxWraps \in Nat
  /\ MaxDelay \in Nat \ {0}
  /\ {NegativeTime, PrechargeTime, CompletedTime, EStopTimeout} \subseteq Nat
  /\ Horizon \in Nat
  /\ \A t \in {NegativeTime, PrechargeTime, CompletedTime, EStopTimeout} : t < Horizon

VARIABLES
  contactorStatus,           \* State of the ladder
  negative_pin, precharge_pin, positive_pin,   \* what the three outputs drive
  since,                     \* ages of the ladder's three stamps
  estop_open_wait_start_ms,  \* age of the equipment stop wait, or NotWaiting
  timeSpentInFaultedMode,    \* passes in FAULT, capped one past the limit
  contactors_engaged,        \* system.status, told to inverters
  dc_bus_live,               \* system.status, told to inverters
  open_contactor_event,      \* data of EVENT_ERROR_OPEN_CONTACTOR, or NoEvent
  extra_pin, extra_engaged, pull_in_start,     \* per extra battery
  uptime, wraps,             \* millis() up to BootTime, and its wraps so far
  inverter_allows_contactor_closing, equipment_stop_active, system_fault,
  emulator_paused, battery_detected, extra_allowed   \* written by other parts

pins == <<negative_pin, precharge_pin, positive_pin>>
extras == <<extra_pin, extra_engaged, pull_in_start>>
inputs == <<inverter_allows_contactor_closing, equipment_stop_active,
            system_fault, emulator_paused, battery_detected, extra_allowed>>
control == <<contactorStatus, pins, since, estop_open_wait_start_ms,
             timeSpentInFaultedMode, contactors_engaged, dc_bus_live,
             open_contactor_event, extras>>
vars == <<control, uptime, wraps, inputs>>

State == {"DISCONNECTED", "START_PRECHARGE", "PRECHARGE", "POSITIVE",
          "PRECHARGE_OFF", "COMPLETED", "SHUTDOWN_REQUESTED"}
Stamp == {"prechargeStartTime", "negativeStartTime", "prechargeCompletedTime"}
Level == {"off", "full", "hold"}   \* undriven, full duty or HIGH, hold duty
NotWaiting == -1
NoEvent == -1

TypeOK ==
  /\ contactorStatus \in State
  /\ negative_pin \in Level /\ precharge_pin \in Level /\ positive_pin \in Level
  /\ since \in [Stamp -> 0..Horizon]
  /\ estop_open_wait_start_ms \in NotWaiting..Horizon
  /\ timeSpentInFaultedMode \in 0..(MaxFaultTicks + 1)
  /\ contactors_engaged \in 0..3
  /\ dc_bus_live \in BOOLEAN
  /\ open_contactor_event \in NoEvent..1
  /\ extra_pin \in [Extra -> Level]
  /\ extra_engaged \in [Extra -> BOOLEAN]
  /\ pull_in_start \in [Extra -> 0..Horizon]
  /\ uptime \in 0..BootTime /\ wraps \in 0..MaxWraps
  /\ inverter_allows_contactor_closing \in BOOLEAN
  /\ equipment_stop_active \in BOOLEAN /\ system_fault \in BOOLEAN
  /\ emulator_paused \in BOOLEAN /\ battery_detected \in BOOLEAN
  /\ extra_allowed \in [Extra -> BOOLEAN]

-----------------------------------------------------------------------------
(* Outputs. *)

\* set() without a duty: a digitalWrite, inverted for normally closed coils.
SetDigital(on) == IF on # Inverted THEN "full" ELSE "off"

\* set() with a duty: with PWM the duty is written and the inversion is lost.
Set(on, duty) == IF Pwm THEN duty ELSE SetDigital(on)

\* Whether the contactor behind an output conducts (the wiring, not the code).
Closed(level) == (level # "off") # Inverted

OpenMain ==
  /\ precharge_pin' = SetDigital(FALSE)
  /\ negative_pin' = Set(FALSE, "off")
  /\ positive_pin' = Set(FALSE, "off")

-----------------------------------------------------------------------------
(* Time. *)

Aged(age, d) == IF age + d > Horizon THEN Horizon ELSE age + d

\* The ages at this pass, before any stamp is taken.
Age(stamp, d) == Aged(since[stamp], d)

Keep(d) == since' = [s \in Stamp |-> Age(s, d)]
Take(stamp, d) == since' = [s \in Stamp |-> IF s = stamp THEN 0 ELSE Age(s, d)]

EStopAge(d) == IF estop_open_wait_start_ms = NotWaiting THEN NotWaiting
                                       ELSE Aged(estop_open_wait_start_ms, d)

Uptime(d) == IF uptime + d > BootTime THEN BootTime ELSE uptime + d

\* Mutants: a pause, or an equipment stop, freezes the ladder where it is.
StartedUnlessPaused(d) == Uptime(d) = BootTime /\ battery_detected /\ ~emulator_paused
StartedUnlessStopped(d) == Uptime(d) = BootTime /\ battery_detected /\ ~equipment_stop_active

\* Ten seconds of uptime and a battery heard: the ladder may run.
Started(d) == Uptime(d) = BootTime /\ battery_detected

-----------------------------------------------------------------------------
(* The opening part of every pass: time, the extra contactors, dc_bus_live *)
(* and the fault counter.                                                  *)

\* Mutant: the extra contactor only looks at its own permission.
JoinsAnyTime(e) == extra_allowed[e]

Joins(e) == contactorStatus = "COMPLETED" /\ extra_allowed[e]

PullInAge(e, d) == IF Joins(e) /\ ~extra_engaged[e] THEN 0
                                        ELSE Aged(pull_in_start[e], d)

ExtraDuty(e, d) == IF Pwm /\ PullInAge(e, d) >= CompletedTime THEN "hold" ELSE "full"

handle_extra_contactors(d) ==
  /\ extra_engaged' = [e \in Extra |-> Joins(e)]
  /\ pull_in_start' = [e \in Extra |-> PullInAge(e, d)]
  /\ extra_pin' = [e \in Extra |-> IF Joins(e) THEN Set(TRUE, ExtraDuty(e, d))
                                               ELSE Set(FALSE, "off")]

FaultTicks == IF ~system_fault THEN 0
              ELSE IF timeSpentInFaultedMode > MaxFaultTicks
                   THEN timeSpentInFaultedMode ELSE timeSpentInFaultedMode + 1

Prologue(d) ==
  /\ uptime' = Uptime(d)
  /\ handle_extra_contactors(d)
  /\ dc_bus_live' = (contactorStatus = "COMPLETED")
  /\ timeSpentInFaultedMode' = FaultTicks

\* Mutant: the COMPLETED pass returns before the fault check.
FaultLatchedInLadder ==
  \/ FaultTicks > MaxFaultTicks /\ contactorStatus # "COMPLETED"
  \/ contactorStatus = "SHUTDOWN_REQUESTED"

FaultLatched == FaultTicks > MaxFaultTicks \/ contactorStatus = "SHUTDOWN_REQUESTED"

-----------------------------------------------------------------------------
(* The rest of a pass: exactly one of the following. *)

\* Latched until a power cycle: everything open, every pass.
Shutdown(d) ==
  /\ FaultLatched
  /\ contactorStatus' = "SHUTDOWN_REQUESTED"
  /\ OpenMain
  /\ open_contactor_event' = 0
  /\ contactors_engaged' = 2
  /\ Keep(d) /\ estop_open_wait_start_ms' = EStopAge(d)

MayClose == inverter_allows_contactor_closing /\ ~equipment_stop_active

\* Mutant: contactors_engaged is not reset when the contactors open.
StayOpenKeepsEngaged(d) ==
  /\ ~FaultLatched /\ contactorStatus = "DISCONNECTED"
  /\ ~(MayClose /\ Started(d))
  /\ OpenMain
  /\ contactorStatus' = IF MayClose THEN "START_PRECHARGE" ELSE "DISCONNECTED"
  /\ Keep(d) /\ estop_open_wait_start_ms' = EStopAge(d)
  /\ UNCHANGED <<open_contactor_event, contactors_engaged>>

\* DISCONNECTED and not (yet) able to close the negative contactor.
StayOpen(d) ==
  /\ ~FaultLatched /\ contactorStatus = "DISCONNECTED"
  /\ ~(MayClose /\ Started(d))
  /\ OpenMain
  /\ contactors_engaged' = 0
  /\ contactorStatus' = IF MayClose THEN "START_PRECHARGE" ELSE "DISCONNECTED"
  /\ Keep(d) /\ estop_open_wait_start_ms' = EStopAge(d)
  /\ UNCHANGED open_contactor_event

\* Mutant: closing again does not first open what the last close left on.
CloseNegativeOnly(d) ==
  /\ ~FaultLatched /\ Started(d)
  /\ contactorStatus = "START_PRECHARGE" \/ (contactorStatus = "DISCONNECTED" /\ MayClose)
  /\ negative_pin' = Set(TRUE, "full")
  /\ Take("prechargeStartTime", d)
  /\ contactorStatus' = "PRECHARGE" /\ contactors_engaged' = 3
  /\ estop_open_wait_start_ms' = EStopAge(d)
  /\ UNCHANGED <<precharge_pin, positive_pin, open_contactor_event>>

\* From DISCONNECTED the pass falls through: everything open, then negative on.
CloseNegative(d) ==
  /\ ~FaultLatched /\ Started(d)
  /\ \/ contactorStatus = "START_PRECHARGE" /\ UNCHANGED <<precharge_pin, positive_pin>>
     \/ /\ contactorStatus = "DISCONNECTED" /\ MayClose
        /\ precharge_pin' = SetDigital(FALSE) /\ positive_pin' = Set(FALSE, "off")
  /\ negative_pin' = Set(TRUE, "full")
  /\ Take("prechargeStartTime", d)
  /\ contactorStatus' = "PRECHARGE" /\ contactors_engaged' = 3
  /\ estop_open_wait_start_ms' = EStopAge(d)
  /\ UNCHANGED open_contactor_event

ClosePrecharge(d) ==
  /\ ~FaultLatched /\ Started(d) /\ contactorStatus = "PRECHARGE"
  /\ Age("prechargeStartTime", d) >= NegativeTime
  /\ precharge_pin' = SetDigital(TRUE)
  /\ Take("negativeStartTime", d)
  /\ contactorStatus' = "POSITIVE" /\ contactors_engaged' = 3
  /\ estop_open_wait_start_ms' = EStopAge(d)
  /\ UNCHANGED <<negative_pin, positive_pin, open_contactor_event>>

\* Mutant: the precharge is timed from the negative contactor's stamp.
ClosePositiveWrongStamp(d) ==
  /\ ~FaultLatched /\ Started(d) /\ contactorStatus = "POSITIVE"
  /\ Age("prechargeStartTime", d) >= PrechargeTime
  /\ positive_pin' = Set(TRUE, "full")
  /\ Take("prechargeCompletedTime", d)
  /\ contactorStatus' = "PRECHARGE_OFF" /\ contactors_engaged' = 3
  /\ estop_open_wait_start_ms' = EStopAge(d)
  /\ UNCHANGED <<negative_pin, precharge_pin, open_contactor_event>>

ClosePositive(d) ==
  /\ ~FaultLatched /\ Started(d) /\ contactorStatus = "POSITIVE"
  /\ Age("negativeStartTime", d) >= PrechargeTime
  /\ positive_pin' = Set(TRUE, "full")
  /\ Take("prechargeCompletedTime", d)
  /\ contactorStatus' = "PRECHARGE_OFF" /\ contactors_engaged' = 3
  /\ estop_open_wait_start_ms' = EStopAge(d)
  /\ UNCHANGED <<negative_pin, precharge_pin, open_contactor_event>>

OpenPrecharge(d) ==
  /\ ~FaultLatched /\ Started(d) /\ contactorStatus = "PRECHARGE_OFF"
  /\ Age("prechargeCompletedTime", d) >= CompletedTime
  /\ precharge_pin' = SetDigital(FALSE)
  /\ negative_pin' = Set(TRUE, "hold") /\ positive_pin' = Set(TRUE, "hold")
  /\ contactorStatus' = "COMPLETED" /\ contactors_engaged' = 1
  /\ Keep(d) /\ estop_open_wait_start_ms' = EStopAge(d)
  /\ UNCHANGED open_contactor_event

\* The step of the ladder that is pending is not due yet.
StepDue(d) ==
  \/ contactorStatus = "START_PRECHARGE"
  \/ contactorStatus = "PRECHARGE" /\ Age("prechargeStartTime", d) >= NegativeTime
  \/ contactorStatus = "POSITIVE" /\ Age("negativeStartTime", d) >= PrechargeTime
  \/ contactorStatus = "PRECHARGE_OFF" /\ Age("prechargeCompletedTime", d) >= CompletedTime

LadderWaits(d) ==
  /\ ~FaultLatched
  /\ contactorStatus \in {"START_PRECHARGE", "PRECHARGE", "POSITIVE", "PRECHARGE_OFF"}
  /\ ~(Started(d) /\ StepDue(d))
  /\ Keep(d) /\ estop_open_wait_start_ms' = EStopAge(d)
  /\ UNCHANGED <<contactorStatus, pins, contactors_engaged, open_contactor_event>>

\* COMPLETED: the inverter's own request opens at once.
OpenForInverter(d) ==
  /\ ~FaultLatched /\ contactorStatus = "COMPLETED"
  /\ ~inverter_allows_contactor_closing
  /\ contactorStatus' = "DISCONNECTED"
  /\ Keep(d) /\ estop_open_wait_start_ms' = EStopAge(d)
  /\ UNCHANGED <<pins, contactors_engaged, open_contactor_event>>

\* COMPLETED: an equipment stop waits for the pause, a bounded time.
EStopWait(d) == IF estop_open_wait_start_ms = NotWaiting THEN 0 ELSE EStopAge(d)
\* Mutant: the wait for the pause has no limit.
EStopNeverTimesOut(d) == FALSE

EStopTimedOut(d) == EStopWait(d) > EStopTimeout

OpenForEStop(d) ==
  /\ ~FaultLatched /\ contactorStatus = "COMPLETED"
  /\ inverter_allows_contactor_closing /\ equipment_stop_active
  /\ emulator_paused \/ EStopTimedOut(d)
  /\ open_contactor_event' = IF EStopTimedOut(d) THEN 1 ELSE open_contactor_event
  /\ estop_open_wait_start_ms' = NotWaiting
  /\ contactorStatus' = "DISCONNECTED"
  /\ Keep(d)
  /\ UNCHANGED <<pins, contactors_engaged>>

HoldForEStop(d) ==
  /\ ~FaultLatched /\ contactorStatus = "COMPLETED"
  /\ inverter_allows_contactor_closing /\ equipment_stop_active
  /\ ~(emulator_paused \/ EStopTimedOut(d))
  /\ estop_open_wait_start_ms' = EStopWait(d)
  /\ Keep(d)
  /\ UNCHANGED <<contactorStatus, pins, contactors_engaged, open_contactor_event>>

StayClosed(d) ==
  /\ ~FaultLatched /\ contactorStatus = "COMPLETED" /\ MayClose
  /\ estop_open_wait_start_ms' = NotWaiting
  /\ Keep(d)
  /\ UNCHANGED <<contactorStatus, pins, contactors_engaged, open_contactor_event>>

handle_contactors(d) ==
  /\ Prologue(d)
  /\ \/ Shutdown(d) \/ StayOpen(d) \/ CloseNegative(d) \/ ClosePrecharge(d)
     \/ ClosePositive(d) \/ OpenPrecharge(d) \/ LadderWaits(d)
     \/ OpenForInverter(d) \/ OpenForEStop(d) \/ HoldForEStop(d) \/ StayClosed(d)
  /\ UNCHANGED <<wraps, inputs>>

-----------------------------------------------------------------------------
(* What other parts write between two passes: the inverter driver, the     *)
(* pause and event code, the battery's CAN handler and the check of the    *)
(* parallel packs.  battery_detected is set once and never cleared.        *)

SharedWrites ==
  /\ inverter_allows_contactor_closing' \in BOOLEAN
  /\ equipment_stop_active' \in BOOLEAN
  /\ system_fault' \in BOOLEAN
  /\ emulator_paused' \in BOOLEAN
  /\ battery_detected' \in {TRUE, battery_detected}
  /\ extra_allowed' \in [Extra -> BOOLEAN]
  /\ UNCHANGED <<control, uptime, wraps>>

MillisWraps ==
  /\ uptime = BootTime /\ wraps < MaxWraps
  /\ uptime' = 0 /\ wraps' = wraps + 1
  /\ UNCHANGED <<control, inputs>>

Environment == SharedWrites \/ MillisWraps

-----------------------------------------------------------------------------
\* The state after init_contactors(); an equipment stop may be left in flash.
Init ==
  /\ contactorStatus = "DISCONNECTED"
  /\ negative_pin = Set(FALSE, "off") /\ positive_pin = Set(FALSE, "off")
  /\ precharge_pin = SetDigital(FALSE)
  /\ since = [s \in Stamp |-> 0]
  /\ estop_open_wait_start_ms = NotWaiting
  /\ timeSpentInFaultedMode = 0
  /\ contactors_engaged = 0
  /\ dc_bus_live = TRUE
  /\ open_contactor_event = NoEvent
  /\ extra_pin = [e \in Extra |-> Set(FALSE, "off")]
  /\ extra_engaged = [e \in Extra |-> FALSE]
  /\ pull_in_start = [e \in Extra |-> 0]
  /\ uptime = 0 /\ wraps = 0
  /\ inverter_allows_contactor_closing = TRUE
  /\ equipment_stop_active \in BOOLEAN
  /\ system_fault = equipment_stop_active
  /\ emulator_paused = FALSE
  /\ battery_detected = FALSE
  /\ extra_allowed = [e \in Extra |-> FALSE]

Next == Environment \/ \E d \in 1..MaxDelay : handle_contactors(d)

Spec == Init /\ [][Next]_vars

-----------------------------------------------------------------------------
(* Properties. *)

MainOpen == ~Closed(negative_pin) /\ ~Closed(precharge_pin) /\ ~Closed(positive_pin)
MainClosed == Closed(negative_pin) /\ Closed(positive_pin) /\ ~Closed(precharge_pin)

\* The positive contactor, which carries the load, never conducts without the
\* negative one, and shares the bus with the precharge resistor only in the
\* step that ends the precharge: whatever revokes, restarts or resumes a
\* closing sequence, no path puts it on an unprecharged bus.
PositiveNeverAlone ==
  Closed(positive_pin) =>
    /\ Closed(negative_pin)
    /\ IF contactorStatus = "PRECHARGE_OFF" THEN Closed(precharge_pin)
       ELSE contactorStatus \in {"COMPLETED", "DISCONNECTED"} /\ ~Closed(precharge_pin)

\* Once the fault counter has passed its limit nothing conducts on the main
\* pack, for any fault that outlasts the allowance and from any ladder step.
FaultOpens == timeSpentInFaultedMode > MaxFaultTicks => MainOpen

\* The fault latch survives the fault, and every input that could reopen the
\* ladder: after it only a power cycle closes a contactor.
ShutdownIsFinal ==
  [][contactorStatus = "SHUTDOWN_REQUESTED" =>
       MainOpen' /\ contactorStatus' = "SHUTDOWN_REQUESTED"]_vars

\* dc_bus_live is computed before the pass moves the contactors, so it may be
\* stale after the pass that opens them, and only for that one: a pass that
\* starts with the bus not closed through both contactors withdraws it.
DcBusLiveForOnePass == [][~MainClosed => ~dc_bus_live']_control

\* Batteries 2 and 3 are handled before the main ladder: the pass after the
\* main pack left the bus takes them off it, and none joins a bus that the
\* main pack does not hold closed without its resistor.
ExtraFollowsMain ==
  [][~MainClosed => \A e \in Extra : ~Closed(extra_pin'[e])]_control

\* What contactors_engaged tells the inverters is true of the contactors:
\* 1 only while the pack is on the bus, 0 and 2 only while it is off.
EngagedTruthful ==
  /\ contactors_engaged = 1 => MainClosed
  /\ contactors_engaged \in {0, 2} => MainOpen

\* A healthy system that stays permitted ends with the contactors closed.
EventuallyClosed ==
  <>[](MayClose /\ ~system_fault /\ battery_detected)
    => <>[](contactorStatus \in {"COMPLETED", "SHUTDOWN_REQUESTED"})

\* An equipment stop that stays active always ends with the pack off the bus,
\* paused or not, whatever the inverter wants and wherever the ladder was.
EStopOpens == <>[]equipment_stop_active => <>[]~Closed(positive_pin)
=============================================================================
