------------------------- MODULE PrechargeControl -------------------------
(***************************************************************************)
(* handle_precharge_control(): the PWM that charges the link through the   *)
(* precharge transformer and the contactor that disconnects the inverter   *)
(* meanwhile.  The core task runs it every ten milliseconds.  What it      *)
(* reads of the battery driver, the inverter, the stop and the events is   *)
(* here too, as plain data; MebBattery adds the driver that writes it.     *)
(***************************************************************************)
EXTENDS Integers

CONSTANTS
  MaxPrechargeTime,    \* precharge_max_precharge_time_before_fault, in ticks
  MaxPwmFreq,          \* Precharge_max_PWM_Freq, an unchecked uint16_t setting
  FreqModulus,         \* freq is a uint32_t; any modulus above its range will do
  PackVoltage,         \* the voltage of the battery, dV
  SystemStatus,        \* the statuses the events can give the system
  NormallyOpen,        \* precharge_inverter_normally_open_contactor
  LinkVoltages         \* what can be measured on the link, dV; 0 is not measured

DefaultFreq == 11000
MinFreq == 5000
Unread == 20000        \* UNREAD_EXTERNAL_VOLTAGE

ASSUME PrechargeAssumption ==
  /\ MaxPrechargeTime \in Nat \ {0}
  /\ {"ACTIVE", "FAULT"} \subseteq SystemStatus
  /\ MaxPwmFreq \in Nat /\ MaxPwmFreq < 65536 /\ NormallyOpen \in BOOLEAN
  /\ FreqModulus \in Nat /\ FreqModulus > 70000
  /\ PackVoltage \in Nat /\ LinkVoltages \subseteq Nat /\ 0 \in LinkVoltages

VARIABLES
  precharge_status,
  hia4v1,                  \* the PWM is on
  inverter_disconnect,     \* the output that takes the inverter off the link is driven
  freq,                    \* kept, like the next two, only while precharging:
  prev_external_voltage,   \* START sets all three before they are used again
  precharge_age,           \* currentMillis - prechargeStartTime
  start_precharging,       \* what the battery driver asks for
  BMS_voltage_intermediate_dV,   \* the link as the battery driver last copied it
  real_bms_status, battery_allows_contactor_closing,
  inverter_allows_contactor_closing, equipment_stop_active,
  system_status,
  battery_configured       \* battery # NULL; without one the hardware is tested

precharge == <<precharge_status, hia4v1, inverter_disconnect, freq,
               prev_external_voltage, precharge_age>>
bms == <<real_bms_status, battery_allows_contactor_closing>>
outside == <<inverter_allows_contactor_closing, equipment_stop_active>>

PrechargeStatus == {"IDLE", "START", "PRECHARGING", "COMPLETED", "FAILURE"}
BmsStatus == {"DISCONNECTED", "STANDBY", "ACTIVE", "FAULT"}

PrechargeTypeOK ==
  /\ precharge_status \in PrechargeStatus
  /\ hia4v1 \in BOOLEAN /\ inverter_disconnect \in BOOLEAN
  /\ freq \in 0..(FreqModulus - 1)
  /\ prev_external_voltage \in LinkVoltages \union {Unread}
  /\ precharge_age \in 0..MaxPrechargeTime
  /\ start_precharging \in BOOLEAN
  /\ BMS_voltage_intermediate_dV \in LinkVoltages
  /\ real_bms_status \in BmsStatus
  /\ battery_allows_contactor_closing \in BOOLEAN
  /\ inverter_allows_contactor_closing \in BOOLEAN
  /\ equipment_stop_active \in BOOLEAN
  /\ system_status \in SystemStatus
  /\ battery_configured \in BOOLEAN

-----------------------------------------------------------------------------

precharge_conditions_ok(bms_status) ==
  /\ inverter_allows_contactor_closing /\ ~equipment_stop_active
  /\ system_status = "ACTIVE"
  /\ bms_status \in {"STANDBY", "ACTIVE"}

Distance(a, b) == IF a > b THEN a - b ELSE b - a

\* The step of the frequency for a new reading, the clamp to the setting and,
\* last, the clamp to the fixed minimum.
NextFreq(f, target, external) ==
  LET gap == Distance(target, external)
      delta_freq == IF gap > 150 THEN 2000 ELSE IF gap > 80 THEN gap * 6 ELSE gap * 3
      moved == (IF target > external THEN f + delta_freq ELSE f - delta_freq) % FreqModulus
      capped == IF moved > MaxPwmFreq THEN MaxPwmFreq ELSE moved
  IN  IF capped < MinFreq THEN MinFreq ELSE capped

-----------------------------------------------------------------------------
(* One pass.  In test mode the request and a battery on standby are made up *)
(* first; both count for the pass itself.                                   *)

StartWanted == start_precharging \/ ~battery_configured
BmsNow == IF battery_configured THEN real_bms_status ELSE "STANDBY"

TestMode ==
  /\ start_precharging' = StartWanted
  /\ real_bms_status' = BmsNow

SwitchedOff == hia4v1' = FALSE /\ inverter_disconnect' = FALSE

StayFailed ==
  /\ precharge_status = "FAILURE"
  /\ SwitchedOff
  /\ UNCHANGED <<precharge_status, freq, prev_external_voltage, precharge_age,
                 start_precharging, real_bms_status, system_status>>

\* Mutant: the conditions are only looked at once the sequence runs.
StartSequenceUnchecked ==
  /\ precharge_status = "IDLE"
  /\ precharge_status' = IF StartWanted THEN "START" ELSE "IDLE"
  /\ TestMode
  /\ UNCHANGED <<hia4v1, inverter_disconnect, freq, prev_external_voltage,
                 precharge_age, system_status>>

StartSequence ==
  /\ precharge_status = "IDLE"
  /\ precharge_status' = IF StartWanted /\ precharge_conditions_ok(BmsNow) THEN "START" ELSE "IDLE"
  /\ TestMode
  /\ UNCHANGED <<hia4v1, inverter_disconnect, freq, prev_external_voltage,
                 precharge_age, system_status>>

BeginPrecharge ==
  /\ precharge_status = "START" /\ precharge_status' = "PRECHARGING"
  /\ hia4v1' = TRUE /\ inverter_disconnect' = TRUE
  /\ freq' = DefaultFreq /\ prev_external_voltage' = Unread /\ precharge_age' = 0
  /\ TestMode
  /\ UNCHANGED system_status

FollowLink ==
  LET external == BMS_voltage_intermediate_dV
  IN  IF external # prev_external_voltage /\ external # 0
      THEN prev_external_voltage' = external /\ freq' = NextFreq(freq, PackVoltage, external)
      ELSE UNCHANGED <<prev_external_voltage, freq>>

DropSequence == freq' = DefaultFreq /\ prev_external_voltage' = Unread /\ precharge_age' = 0

TimedOut(age) == age >= MaxPrechargeTime

Fails(age) == TimedOut(age) \/ BmsNow = "FAULT"

\* EVENT_AUTOMATIC_PRECHARGE_FAILURE is an ERROR, which makes the system FAULT.
FailPrecharge(age) ==
  /\ precharge_status = "PRECHARGING" /\ Fails(age)
  /\ precharge_status' = "FAILURE" /\ SwitchedOff
  /\ start_precharging' = FALSE /\ real_bms_status' = BmsNow /\ system_status' = "FAULT"
  /\ DropSequence

AbortPrecharge(age) ==
  /\ precharge_status = "PRECHARGING" /\ ~Fails(age)
  /\ ~precharge_conditions_ok(BmsNow)
  /\ precharge_status' = "IDLE" /\ SwitchedOff
  /\ TestMode /\ DropSequence
  /\ UNCHANGED system_status

CompletePrecharge(age) ==
  /\ precharge_status = "PRECHARGING" /\ ~Fails(age)
  /\ precharge_conditions_ok(BmsNow) /\ battery_allows_contactor_closing
  /\ precharge_status' = "COMPLETED" /\ SwitchedOff
  /\ TestMode /\ DropSequence
  /\ UNCHANGED system_status

KeepPrecharging(age) ==
  /\ precharge_status = "PRECHARGING" /\ ~Fails(age)
  /\ precharge_conditions_ok(BmsNow) /\ ~battery_allows_contactor_closing
  /\ precharge_age' = age
  /\ TestMode /\ FollowLink
  /\ UNCHANGED <<precharge_status, hia4v1, inverter_disconnect, system_status>>

\* Mutant: only the stop and the system end a completed precharge.
RearmsUnlessStandby ==
  equipment_stop_active \/ system_status # "ACTIVE" \/ ~inverter_allows_contactor_closing

Rearms ==
  \/ equipment_stop_active \/ system_status # "ACTIVE"
  \/ BmsNow = "STANDBY" \/ ~inverter_allows_contactor_closing

Rearm ==
  /\ precharge_status = "COMPLETED"
  /\ precharge_status' = IF Rearms THEN "IDLE" ELSE "COMPLETED"
  /\ TestMode
  /\ UNCHANGED <<hia4v1, inverter_disconnect, freq, prev_external_voltage,
                 precharge_age, system_status>>

\* d ticks after the pass before.
handle_precharge_control(d) ==
  LET age == IF precharge_age + d > MaxPrechargeTime THEN MaxPrechargeTime ELSE precharge_age + d
  IN  /\ \/ StayFailed \/ StartSequence \/ BeginPrecharge
         \/ FailPrecharge(age) \/ AbortPrecharge(age) \/ CompletePrecharge(age)
         \/ KeepPrecharging(age) \/ Rearm
      /\ UNCHANGED <<BMS_voltage_intermediate_dV, battery_allows_contactor_closing,
                     outside, battery_configured>>

PrechargePass == \E d \in {0, 1} : handle_precharge_control(d)

-----------------------------------------------------------------------------

\* init_precharge_control() drives both outputs low, which keeps an inverter off
\* the link when its contactor is a normally open one.
PrechargeInit ==
  /\ precharge_status = "IDLE" /\ hia4v1 = FALSE /\ inverter_disconnect = NormallyOpen
  /\ freq = DefaultFreq /\ prev_external_voltage = Unread /\ precharge_age = 0
  /\ start_precharging = FALSE /\ BMS_voltage_intermediate_dV = 0
  /\ real_bms_status = "DISCONNECTED" /\ battery_allows_contactor_closing = FALSE
  /\ inverter_allows_contactor_closing = TRUE
  /\ equipment_stop_active \in BOOLEAN
  /\ system_status = "ACTIVE"
  /\ battery_configured \in BOOLEAN

\* The inverter, the stop, the events of the rest of the system.
OutsideChanges ==
  /\ \/ /\ inverter_allows_contactor_closing' = ~inverter_allows_contactor_closing
        /\ UNCHANGED <<equipment_stop_active, system_status>>
     \/ /\ equipment_stop_active' = ~equipment_stop_active
        /\ UNCHANGED <<inverter_allows_contactor_closing, system_status>>
     \/ system_status' \in SystemStatus /\ UNCHANGED outside
  /\ UNCHANGED <<precharge, start_precharging, BMS_voltage_intermediate_dV, bms,
                 battery_configured>>

\* Any battery driver: MebBattery says what the one that uses this does.
AnyDriver ==
  /\ start_precharging' \in BOOLEAN /\ BMS_voltage_intermediate_dV' \in LinkVoltages
  /\ real_bms_status' \in BmsStatus /\ battery_allows_contactor_closing' \in BOOLEAN
  /\ UNCHANGED <<precharge, outside, system_status, battery_configured>>

PrechargeNext == PrechargePass \/ OutsideChanges \/ AnyDriver

prechargeVars == <<precharge, start_precharging, BMS_voltage_intermediate_dV, bms,
                   outside, system_status, battery_configured>>

PrechargeSpec == PrechargeInit /\ [][PrechargeNext]_prechargeVars

-----------------------------------------------------------------------------
(* Properties. *)

\* The PWM runs exactly while the status says PRECHARGING, with the inverter off
\* the link; no way out of the sequence, the failure, the abort or the end,
\* leaves either output behind.
OutputsMatchStatus ==
  /\ hia4v1 <=> precharge_status = "PRECHARGING"
  /\ precharge_status = "PRECHARGING" => inverter_disconnect
  /\ inverter_disconnect =>
       \/ precharge_status = "PRECHARGING"
       \/ NormallyOpen /\ precharge_status \in {"IDLE", "START"}

\* The uint32_t frequency never wraps, whatever ceiling the user has set, and
\* stays between the fixed minimum and the larger of ceiling and default.
FreqInRange ==
  /\ freq >= MinFreq
  /\ freq <= MaxPwmFreq \/ freq <= DefaultFreq

\* A reading at or above the voltage of the pack never raises the frequency.
FreqNeverOvershoots ==
  [][hia4v1 /\ hia4v1' /\ BMS_voltage_intermediate_dV >= PackVoltage
       => freq' <= freq]_prechargeVars
=============================================================================
