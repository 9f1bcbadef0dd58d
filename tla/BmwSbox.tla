------------------------------ MODULE BmwSbox ------------------------------
(***************************************************************************)
(* The S-BOX of a BMW: a box with the contactors and the shunt, which the  *)
(* driver tells every ten milliseconds which relays to close, in a ladder  *)
(* of its own beside the one of handle_contactors().  The box obeys the    *)
(* last frame it was sent; what it does when frames stop is not modelled.  *)
(* Its measurements and the rest of the system change between two passes.  *)
(***************************************************************************)
EXTENDS Integers

CONSTANTS
  T1, T2, T3,             \* CONTACTOR_CONTROL_T1 to T3, in ticks
  MaxSboxFaultTicks,      \* MAX_ALLOWED_FAULT_TICKS
  MinimumInput,           \* MINIMUM_INPUT_VOLTAGE
  Inputs, Outputs         \* what the box may measure on its two sides, V

ASSUME SboxAssumption ==
  /\ {T1, T2, T3, MaxSboxFaultTicks} \subseteq Nat \ {0}
  /\ MinimumInput \in Nat /\ Inputs \subseteq Nat /\ Outputs \subseteq Nat
  /\ 0 \in Inputs /\ 0 \in Outputs

VARIABLES
  contactorStatus,
  relays, sent,                 \* the relays of SBOX_100, and of the last frame sent
  stage_age,                    \* since the stamp of the rung that is waited on
  timeSpentInFaultedMode,
  contactors_engaged, precharging, dc_bus_live,
  input, output,                \* measured_voltage_mV, measured_outvoltage_mV
  system_fault, battery_allows_contactor_closing,
  inverter_allows_contactor_closing, equipment_stop_active,
  precharged_for                \* history: how long the link has been precharged

sboxVars == <<contactorStatus, relays, sent, stage_age, timeSpentInFaultedMode,
              contactors_engaged, precharging, dc_bus_live, input, output, system_fault,
              battery_allows_contactor_closing, equipment_stop_active, precharged_for>>
measured == <<input, output, system_fault, battery_allows_contactor_closing,
              equipment_stop_active>>

Ladder == {"DISCONNECTED", "PRECHARGE", "NEGATIVE", "POSITIVE", "PRECHARGE_OFF",
           "COMPLETED", "SHUTDOWN_REQUESTED"}
Relays == {"precharge", "negative", "positive"}
Closed == {"negative", "positive"}
LongestStage == CHOOSE t \in {T1, T2, T3} : \A u \in {T1, T2, T3} : u <= t
Capped(n, limit) == IF n > limit THEN limit ELSE n

SboxTypeOK ==
  /\ contactorStatus \in Ladder
  /\ relays \subseteq Relays /\ sent \subseteq Relays
  /\ stage_age \in 0..LongestStage
  /\ timeSpentInFaultedMode \in 0..(MaxSboxFaultTicks + 1)
  /\ {contactors_engaged, precharging, dc_bus_live, system_fault, equipment_stop_active,
      battery_allows_contactor_closing, inverter_allows_contactor_closing} \subseteq BOOLEAN
  /\ input \in Inputs /\ output \in Outputs
  /\ precharged_for \in 0..T2

-----------------------------------------------------------------------------
(* One pass: the fault counter, the openings, then one rung. *)

FaultTicks ==
  IF system_fault THEN Capped(timeSpentInFaultedMode + 1, MaxSboxFaultTicks + 1) ELSE 0

Latched == contactorStatus = "SHUTDOWN_REQUESTED" \/ FaultTicks > MaxSboxFaultTicks

\* The frame is set to all open and, since the function returns, never sent.
Shutdown ==
  /\ Latched
  /\ contactorStatus' = "SHUTDOWN_REQUESTED"
  /\ relays' = IF FaultTicks > MaxSboxFaultTicks THEN {} ELSE relays
  /\ contactors_engaged' = FALSE /\ dc_bus_live' = FALSE
  /\ UNCHANGED <<sent, stage_age, precharging>>

MayStart ==
  /\ battery_allows_contactor_closing /\ inverter_allows_contactor_closing
  /\ ~equipment_stop_active /\ input > MinimumInput

StayOpen ==
  /\ contactorStatus = "DISCONNECTED" /\ ~MayStart
  /\ relays' = {} /\ sent' = {}
  /\ contactors_engaged' = FALSE /\ dc_bus_live' = FALSE
  /\ UNCHANGED <<contactorStatus, stage_age, precharging>>

ClosePrecharge ==
  /\ contactorStatus = "DISCONNECTED" /\ MayStart
  /\ contactorStatus' = "NEGATIVE" /\ stage_age' = 0
  /\ relays' = {"precharge"} /\ sent' = relays'
  /\ contactors_engaged' = FALSE /\ dc_bus_live' = FALSE
  /\ UNCHANGED precharging

\* Mutant: the stamp of the rung before is kept.
CloseNegativeUnstamped(age) ==
  /\ contactorStatus = "NEGATIVE" /\ age >= T1
  /\ contactorStatus' = "POSITIVE" /\ stage_age' = age
  /\ relays' = {"precharge", "negative"} /\ sent' = relays'
  /\ precharging' = TRUE
  /\ UNCHANGED <<contactors_engaged, dc_bus_live>>

CloseNegative(age) ==
  /\ contactorStatus = "NEGATIVE" /\ age >= T1
  /\ contactorStatus' = "POSITIVE" /\ stage_age' = 0
  /\ relays' = {"precharge", "negative"} /\ sent' = relays'
  /\ precharging' = TRUE
  /\ UNCHANGED <<contactors_engaged, dc_bus_live>>

LinkCharged == input * 99 < output * 100

\* Mutant: the bus is called live with the positive relay.
ClosePositiveLive(age) ==
  /\ contactorStatus = "POSITIVE" /\ age >= T2 /\ LinkCharged
  /\ contactorStatus' = "PRECHARGE_OFF" /\ stage_age' = 0
  /\ relays' = Relays /\ sent' = relays'
  /\ precharging' = FALSE /\ dc_bus_live' = TRUE
  /\ UNCHANGED contactors_engaged

ClosePositive(age) ==
  /\ contactorStatus = "POSITIVE" /\ age >= T2 /\ LinkCharged
  /\ contactorStatus' = "PRECHARGE_OFF" /\ stage_age' = 0
  /\ relays' = Relays /\ sent' = relays'
  /\ precharging' = FALSE
  /\ UNCHANGED <<contactors_engaged, dc_bus_live>>

OpenPrecharge(age) ==
  /\ contactorStatus = "PRECHARGE_OFF" /\ age >= T3
  /\ contactorStatus' = "COMPLETED" /\ stage_age' = age
  /\ relays' = Closed /\ sent' = relays'
  /\ contactors_engaged' = TRUE /\ dc_bus_live' = TRUE
  /\ UNCHANGED precharging

LadderWaits(age) ==
  /\ \/ contactorStatus = "NEGATIVE" /\ age < T1
     \/ contactorStatus = "POSITIVE" /\ ~(age >= T2 /\ LinkCharged)
     \/ contactorStatus = "PRECHARGE_OFF" /\ age < T3
  /\ stage_age' = age /\ sent' = relays
  /\ UNCHANGED <<contactorStatus, relays, contactors_engaged, precharging, dc_bus_live>>

\* Mutant: only the inverter opens what is closed.
RevokedByInverter == ~inverter_allows_contactor_closing

Revoked == ~inverter_allows_contactor_closing \/ equipment_stop_active

\* The pass that leaves COMPLETED sends the closed relays once more.
StayClosed ==
  /\ contactorStatus = "COMPLETED"
  /\ contactorStatus' = IF Revoked THEN "DISCONNECTED" ELSE "COMPLETED"
  /\ relays' = Closed /\ sent' = Closed
  /\ UNCHANGED <<stage_age, contactors_engaged, precharging, dc_bus_live>>

\* d ticks after the pass before.
transmit_can(d) ==
  LET age == Capped(stage_age + d, LongestStage)
  IN  /\ timeSpentInFaultedMode' = FaultTicks
      /\ \/ Shutdown
         \/ /\ ~Latched
            /\ \/ StayOpen \/ ClosePrecharge \/ CloseNegative(age) \/ ClosePositive(age)
               \/ OpenPrecharge(age) \/ LadderWaits(age) \/ StayClosed
      /\ precharged_for' =
           IF sent = {"precharge", "negative"} THEN Capped(precharged_for + d, T2) ELSE 0
      /\ UNCHANGED measured

\* The frames of the box, 0x210 and 0x220, the stop, the events, the battery.
SboxFrame ==
  /\ input' \in Inputs /\ output' \in Outputs
  /\ UNCHANGED <<system_fault, battery_allows_contactor_closing, equipment_stop_active>>

SystemChanges ==
  /\ \/ system_fault' = ~system_fault
        /\ UNCHANGED <<battery_allows_contactor_closing, equipment_stop_active>>
     \/ battery_allows_contactor_closing' = ~battery_allows_contactor_closing
        /\ UNCHANGED <<system_fault, equipment_stop_active>>
     \/ equipment_stop_active' = ~equipment_stop_active
        /\ UNCHANGED <<system_fault, battery_allows_contactor_closing>>
  /\ UNCHANGED <<input, output>>

SboxSurroundings ==
  /\ SboxFrame \/ SystemChanges
  /\ UNCHANGED <<contactorStatus, relays, sent, stage_age, timeSpentInFaultedMode,
                 contactors_engaged, precharging, dc_bus_live, precharged_for>>

\* dc_bus_live is true until somebody who drives contactors says otherwise.
SboxInit ==
  /\ contactorStatus = "DISCONNECTED" /\ relays = {} /\ sent = {}
  /\ stage_age = 0 /\ timeSpentInFaultedMode = 0 /\ precharged_for = 0
  /\ contactors_engaged = FALSE /\ precharging = FALSE /\ dc_bus_live = TRUE
  /\ input = 0 /\ output = 0 /\ system_fault = FALSE
  /\ battery_allows_contactor_closing = FALSE /\ equipment_stop_active = FALSE

SboxPass == \E d \in {0, 1} : transmit_can(d)

SboxNext == SboxPass \/ SboxSurroundings

-----------------------------------------------------------------------------
(* Properties; Inverters adds the inverter that gives the permission. *)

\* "Prevents engagement of the positive contactor if the precharge resistor is
\* faulty": the box is told to close the positive relay only after the link was
\* precharged for the whole of T2 and, as long as the battery side is measured,
\* up to 99 % of it.
PositiveAfterPrecharge ==
  [][SboxPass /\ "positive" \in sent' \ sent =>
       /\ precharged_for' >= T2
       /\ input > 0 => output * 100 > input * 99]_<<sboxVars, inverter_allows_contactor_closing>>

\* What inverters and batteries are told after a pass, that the bus is live, is
\* true of the relays the box was told to close, on every way in and out.
SboxTruthful ==
  [][SboxPass /\ (dc_bus_live' \/ contactors_engaged') => sent' = Closed
    ]_<<sboxVars, inverter_allows_contactor_closing>>

Box == INSTANCE PackSwitch
  WITH First <- "precharge", closed <- relays, engaged <- contactors_engaged,
       latched <- contactorStatus = "SHUTDOWN_REQUESTED"

\* The relays that the driver decides on are switched as Contactors switches its
\* own, the latched shutdown included, whose frame is not sent (see LatchOpens).
RelaysAreSwitched == Box!SwitchSpec

\* A stop or a withdrawn permission that stays opens the contactors wherever the
\* ladder was, or is overtaken by the latched shutdown (see LatchOpens), if the
\* link does charge, without which the rung POSITIVE never ends.
LinkCharges == contactorStatus = "POSITIVE" => LinkCharged
MustOpen == equipment_stop_active \/ ~inverter_allows_contactor_closing
RevokeOpens ==
  <>[](MustOpen /\ LinkCharges) => <>[](sent = {} \/ contactorStatus = "SHUTDOWN_REQUESTED")

\* "First check if we have any active errors, incase we do, turn off the
\* battery", "All open": once latched, the box has been told to open.
LatchOpens == contactorStatus = "SHUTDOWN_REQUESTED" => sent = {}
=============================================================================
