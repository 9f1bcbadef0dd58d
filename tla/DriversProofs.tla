---------------------------- MODULE DriversProofs ----------------------------
(***************************************************************************)
(* The automatic precharge and the drivers it runs beside.                 *)
(*                                                                         *)
(* For every ceiling of the frequency the settings can hold, every voltage *)
(* of the pack and every battery driver, the outputs of the automatic      *)
(* precharge match its status and its frequency stays in range.  For every *)
(* number of skipped frames and width of the frame counter, the sequence   *)
(* of a CHAdeMO vehicle stays away from a vehicle out of park, from power  *)
(* without a target, and from an unlocked live connector.  For every       *)
(* timeout of the MEB driver, its request for high voltage does not        *)
(* outlive the contact with the BMS; and all of it holds of the firmware   *)
(* with whichever driver the settings name.                                *)
(***************************************************************************)
EXTENDS Drivers, TLAPS

-----------------------------------------------------------------------------
(* The automatic precharge: handle_precharge_control.                      *)

PrechargeInv == PrechargeTypeOK /\ OutputsMatchStatus /\ FreqInRange

LEMMA PrechargeStarts == PrechargeInit => PrechargeInv
<1> SUFFICES ASSUME PrechargeInit PROVE PrechargeInv
  OBVIOUS
<1>1. freq \in 0..(FreqModulus - 1) /\ FreqInRange /\ precharge_age \in 0..MaxPrechargeTime
  BY PrechargeAssumption DEF PrechargeInit, FreqInRange, DefaultFreq, MinFreq
<1>2. /\ prev_external_voltage \in LinkVoltages \union {Unread}
      /\ BMS_voltage_intermediate_dV \in LinkVoltages /\ system_status \in SystemStatus
      /\ precharge_status \in PrechargeStatus /\ real_bms_status \in BmsStatus
  BY PrechargeAssumption DEF PrechargeInit, PrechargeStatus, BmsStatus
<1>3. /\ hia4v1 \in BOOLEAN /\ inverter_disconnect \in BOOLEAN /\ start_precharging \in BOOLEAN
      /\ battery_allows_contactor_closing \in BOOLEAN
      /\ inverter_allows_contactor_closing \in BOOLEAN
  <2>1. NormallyOpen \in BOOLEAN
    BY PrechargeAssumption
  <2> QED
    BY <2>1, Zenon DEF PrechargeInit
<1>5. PrechargeTypeOK
  BY <1>1, <1>2, <1>3 DEF PrechargeInit, PrechargeTypeOK
<1>4. OutputsMatchStatus
  <2>1. precharge_status # "PRECHARGING" /\ precharge_status \in {"IDLE", "START"}
    BY DEF PrechargeInit
  <2> QED
    BY <2>1, Zenon DEF PrechargeInit, OutputsMatchStatus
<1> QED
  BY <1>1, <1>4, <1>5 DEF PrechargeInv

-----------------------------------------------------------------------------
(* The frequency *)

Freqs == {f \in Nat : MinFreq <= f /\ f < 65536}
Steps == {d \in Nat : d <= 2000}

\* A value below the modulus is left as it is.
LEMMA NoWrap ==
  ASSUME NEW x \in Nat, x <= 70000 PROVE x % FreqModulus = x
<1>1. FreqModulus \in Nat \ {0} /\ x < FreqModulus
  BY PrechargeAssumption
<1> QED
  BY <1>1

\* The step is at most 2000 either way.
LEMMA StepBounded ==
  ASSUME NEW goal \in Nat, NEW external \in Nat
  PROVE  LET gap == Distance(goal, external)
         IN  (IF gap > 150 THEN 2000 ELSE IF gap > 80 THEN gap * 6 ELSE gap * 3) \in Steps
<1>1. Distance(goal, external) \in Nat
  BY DEF Distance
<1> QED
  BY <1>1 DEF Steps

\* Before the clamps: no wrap in either direction.
LEMMA FreqMoves ==
  ASSUME NEW f \in Freqs, NEW delta \in Steps
  PROVE  (f + delta) % FreqModulus = f + delta /\ (f - delta) % FreqModulus = f - delta
<1>1. f + delta \in Nat /\ f + delta <= 70000 /\ f - delta \in Nat /\ f - delta <= 70000
  BY DEF Freqs, Steps, MinFreq
<1> QED
  BY <1>1, NoWrap

LEMMA NextFreqBounded ==
  ASSUME NEW f \in Freqs, NEW goal \in Nat, NEW external \in Nat
  PROVE  /\ NextFreq(f, goal, external) \in Freqs
         /\ NextFreq(f, goal, external) <= MaxPwmFreq \/ NextFreq(f, goal, external) = MinFreq
         /\ external >= goal => NextFreq(f, goal, external) <= f
<1> DEFINE gap == Distance(goal, external)
           delta == IF gap > 150 THEN 2000 ELSE IF gap > 80 THEN gap * 6 ELSE gap * 3
           step == IF goal > external THEN f + delta ELSE f - delta
           moved == (IF goal > external THEN f + delta ELSE f - delta) % FreqModulus
           capped == IF moved > MaxPwmFreq THEN MaxPwmFreq ELSE moved
<1>1. delta \in Steps
  BY StepBounded
<1>2. moved = step
  BY <1>1, FreqMoves
<1>3. step \in Nat /\ (external >= goal => step <= f)
  BY <1>1 DEF Freqs, Steps, MinFreq
<1>4. NextFreq(f, goal, external) = IF capped < MinFreq THEN MinFreq ELSE capped
  BY DEF NextFreq
<1> HIDE DEF delta, moved, step
<1> QED
  BY <1>2, <1>3, <1>4, PrechargeAssumption DEF MinFreq, Freqs

-----------------------------------------------------------------------------
(* The steps *)

\* The frequency of a pass, wherever it comes from.
LEMMA FreqOfPass ==
  ASSUME PrechargeInv, NEW d \in {0, 1}, handle_precharge_control(d)
  PROVE  /\ freq' \in 0..(FreqModulus - 1) /\ FreqInRange'
         /\ prev_external_voltage' \in LinkVoltages \union {Unread}
<1>1. freq \in Freqs
  BY PrechargeAssumption DEF PrechargeInv, FreqInRange, PrechargeTypeOK, MinFreq, DefaultFreq, Freqs
<1>2. CASE freq' = freq /\ prev_external_voltage' = prev_external_voltage
  BY <1>2 DEF PrechargeInv, FreqInRange, PrechargeTypeOK
<1>3. CASE freq' = DefaultFreq /\ prev_external_voltage' = Unread
  BY <1>3, PrechargeAssumption DEF FreqInRange, DefaultFreq, MinFreq
<1>4. CASE FollowLink
  <2>1. BMS_voltage_intermediate_dV \in Nat /\ BMS_voltage_intermediate_dV \in LinkVoltages
    BY PrechargeAssumption DEF PrechargeInv, PrechargeTypeOK
  <2>2. CASE /\ freq' = NextFreq(freq, PackVoltage, BMS_voltage_intermediate_dV)
             /\ prev_external_voltage' = BMS_voltage_intermediate_dV
    <3>1. freq' \in Freqs /\ (freq' <= MaxPwmFreq \/ freq' = MinFreq)
      BY <1>1, <2>1, <2>2, NextFreqBounded, PrechargeAssumption
    <3> QED
      BY <2>1, <2>2, <3>1, PrechargeAssumption DEF FreqInRange, MinFreq, DefaultFreq, Freqs
  <2> QED
    BY <1>2, <1>4, <2>2 DEF FollowLink
<1> QED
  BY <1>2, <1>3, <1>4 DEF handle_precharge_control, StayFailed, StartSequence, BeginPrecharge,
     FailPrecharge, AbortPrecharge, CompletePrecharge, KeepPrecharging, Rearm, DropSequence

LEMMA PassKeepsInv ==
  ASSUME PrechargeInv, NEW d \in {0, 1}, handle_precharge_control(d)
  PROVE  PrechargeInv'
<1> DEFINE age == IF precharge_age + d > MaxPrechargeTime THEN MaxPrechargeTime ELSE precharge_age + d
<1>1. age \in 0..MaxPrechargeTime
  BY PrechargeAssumption DEF PrechargeInv, PrechargeTypeOK
<1>2. /\ StartWanted \in BOOLEAN /\ BmsNow \in BmsStatus
  BY DEF PrechargeInv, PrechargeTypeOK, StartWanted, BmsNow, BmsStatus
<1>3. \/ StayFailed \/ StartSequence \/ BeginPrecharge
      \/ FailPrecharge(age) \/ AbortPrecharge(age) \/ CompletePrecharge(age)
      \/ KeepPrecharging(age) \/ Rearm
  BY DEF handle_precharge_control
<1>4. UNCHANGED <<BMS_voltage_intermediate_dV, battery_allows_contactor_closing,
                  outside, battery_configured>>
  BY DEF handle_precharge_control
<1> HIDE DEF age
<1>5. precharge_status' \in PrechargeStatus /\ precharge_age' \in 0..MaxPrechargeTime
  BY <1>1, <1>3, PrechargeAssumption
     DEF PrechargeInv, PrechargeTypeOK, PrechargeStatus, DropSequence, StayFailed, StartSequence, BeginPrecharge, FailPrecharge,
     AbortPrecharge, CompletePrecharge, KeepPrecharging, Rearm
<1>6. hia4v1' \in BOOLEAN /\ inverter_disconnect' \in BOOLEAN
  BY <1>3 DEF PrechargeInv, PrechargeTypeOK, SwitchedOff, StayFailed, StartSequence, BeginPrecharge, FailPrecharge,
     AbortPrecharge, CompletePrecharge, KeepPrecharging, Rearm
<1>7. start_precharging' \in BOOLEAN /\ real_bms_status' \in BmsStatus
  BY <1>2, <1>3 DEF PrechargeInv, PrechargeTypeOK, TestMode, StayFailed, StartSequence, BeginPrecharge, FailPrecharge,
     AbortPrecharge, CompletePrecharge, KeepPrecharging, Rearm
<1>8. system_status' \in SystemStatus
  BY <1>3, PrechargeAssumption DEF PrechargeInv, PrechargeTypeOK, StayFailed, StartSequence, BeginPrecharge, FailPrecharge,
     AbortPrecharge, CompletePrecharge, KeepPrecharging, Rearm
<1>9. PrechargeTypeOK'
  BY <1>4, <1>5, <1>6, <1>7, <1>8, FreqOfPass DEF PrechargeInv, PrechargeTypeOK, outside
<1>10. OutputsMatchStatus'
  BY <1>3 DEF PrechargeInv, PrechargeTypeOK, OutputsMatchStatus, StayFailed, StartSequence,
     BeginPrecharge, FailPrecharge, AbortPrecharge, CompletePrecharge, KeepPrecharging, Rearm,
     SwitchedOff
<1> QED
  BY <1>9, <1>10, FreqOfPass DEF PrechargeInv

LEMMA PrechargeNextKeepsInv == PrechargeInv /\ [PrechargeNext]_prechargeVars => PrechargeInv'
<1> SUFFICES ASSUME PrechargeInv, [PrechargeNext]_prechargeVars PROVE PrechargeInv'
  OBVIOUS
<1>1. CASE PrechargePass
  BY <1>1, PassKeepsInv DEF PrechargePass
<1>2. CASE OutsideChanges
  BY <1>2 DEF OutsideChanges, PrechargeInv, PrechargeTypeOK, OutputsMatchStatus, FreqInRange,
     precharge, bms, outside
<1>3. CASE AnyDriver
  BY <1>3 DEF AnyDriver, PrechargeInv, PrechargeTypeOK, OutputsMatchStatus, FreqInRange,
     precharge, outside
<1>4. CASE UNCHANGED prechargeVars
  BY <1>4 DEF prechargeVars, PrechargeInv, PrechargeTypeOK, OutputsMatchStatus, FreqInRange,
     precharge, bms, outside
<1> QED
  BY <1>1, <1>2, <1>3, <1>4 DEF PrechargeNext

LEMMA PrechargeInductive == PrechargeSpec => []PrechargeInv
  BY PrechargeStarts, PrechargeNextKeepsInv, PTL DEF PrechargeSpec

-----------------------------------------------------------------------------

\* Whatever the battery driver does, the PWM runs and the inverter is off the
\* link exactly while the status is PRECHARGING.
THEOREM OutputsFollowStatus == PrechargeSpec => []OutputsMatchStatus
<1>1. PrechargeInv => OutputsMatchStatus
  BY DEF PrechargeInv
<1> QED
  BY <1>1, PrechargeInductive, PTL

\* Whatever ceiling the settings hold, the frequency stays in range.
THEOREM FreqStaysInRange == PrechargeSpec => []FreqInRange
<1>1. PrechargeInv => FreqInRange
  BY DEF PrechargeInv
<1> QED
  BY <1>1, PrechargeInductive, PTL

\* A link at the voltage of the pack or above never raises the frequency.
THEOREM NeverOvershoots == PrechargeSpec => FreqNeverOvershoots
<1> DEFINE Falls == hia4v1 /\ hia4v1' /\ BMS_voltage_intermediate_dV >= PackVoltage => freq' <= freq
<1>1. PrechargeInv /\ [PrechargeNext]_prechargeVars => [Falls]_prechargeVars
  <2> SUFFICES ASSUME PrechargeInv, PrechargeNext, hia4v1, hia4v1',
                      BMS_voltage_intermediate_dV >= PackVoltage
               PROVE  freq' <= freq
    OBVIOUS
  <2>1. /\ precharge_status = "PRECHARGING" /\ freq \in Freqs
        /\ BMS_voltage_intermediate_dV \in Nat
    BY PrechargeAssumption
       DEF PrechargeInv, OutputsMatchStatus, FreqInRange, PrechargeTypeOK, MinFreq, DefaultFreq, Freqs
  <2>2. CASE PrechargePass
    <3>1. FollowLink
      BY <2>1, <2>2 DEF PrechargePass, handle_precharge_control, StayFailed, StartSequence,
         BeginPrecharge, FailPrecharge, AbortPrecharge, CompletePrecharge, KeepPrecharging,
         Rearm, SwitchedOff
    <3>2. /\ freq \in Nat /\ PackVoltage \in Nat
          /\ NextFreq(freq, PackVoltage, BMS_voltage_intermediate_dV) <= freq
      BY <2>1, NextFreqBounded, PrechargeAssumption DEF Freqs
    <3> QED
      BY <3>1, <3>2 DEF FollowLink
  <2>3. CASE OutsideChanges \/ AnyDriver
    <3>1. freq' = freq /\ freq \in Nat
      BY <2>1, <2>3 DEF OutsideChanges, AnyDriver, precharge, Freqs
    <3> QED
      BY <3>1
  <2> QED
    BY <2>2, <2>3 DEF PrechargeNext
<1> QED
  BY <1>1, PrechargeInductive, PTL DEF PrechargeSpec, FreqNeverOvershoots

-----------------------------------------------------------------------------
(* The CHAdeMO driver.                                                     *)

ToTarget == {"EVSE_START", "EVSE_CONTACTORS_ENABLED", "POWERFLOW"}

\* From the lock in EV_ALLOWED on nothing but IDLE unlocks, and nobody arrives
\* there, or at CONNECTED, with d1 up but by a restart.
Lock ==
  /\ UnlockedIsDead
  /\ CHADEMO_Status = "EVSE_PREPARE" => pin_lock
  /\ CHADEMO_Status \in {"IDLE", "CONNECTED"} /\ pin10 => restarted

ChademoInv == ChademoTypeOK /\ ParkedWhileEngaged /\ PowerHasTarget /\ Lock

Flags == /\ pin2 \in BOOLEAN /\ pin10 \in BOOLEAN /\ pin_lock \in BOOLEAN
         /\ plug_inserted \in BOOLEAN /\ permits \in BOOLEAN /\ restarted \in BOOLEAN

LEMMA ChademoStarts == ChademoInit => ChademoInv
<1> SUFFICES ASSUME ChademoInit PROVE ChademoInv
  OBVIOUS
<1>1. /\ framecount \in 0..(FrameCountModulus - 1) /\ minimum \in Minimums
      /\ CHADEMO_Status \in CStatus /\ CHADEMO_Status = "IDLE"
      /\ CHADEMO_Status \notin Engaged /\ CHADEMO_Status \notin ToTarget
  BY ChademoAssumption DEF ChademoInit, Minimums, CStatus, Engaged, ToTarget
<1>2. ChademoTypeOK
  BY <1>1, Zenon DEF ChademoInit, ChademoTypeOK
<1>3. ParkedWhileEngaged /\ PowerHasTarget
  BY <1>1, Zenon DEF ParkedWhileEngaged, PowerHasTarget, ToTarget
<1>4. ~pin10 /\ CHADEMO_Status # "EVSE_PREPARE"
  BY <1>1, Zenon DEF ChademoInit
<1> QED
  BY <1>2, <1>3, <1>4, Zenon DEF ChademoInv, Lock, UnlockedIsDead

-----------------------------------------------------------------------------
(* One sequence, entered with a status that agrees with the session. *)

Agrees(st) ==
  /\ st \in CStatus
  /\ st \in ToTarget => target'
  /\ st = "EVSE_PREPARE" => pin_lock
  /\ st \in {"IDLE", "CONNECTED"} /\ pin10 => restarted

LEMMA SequenceKeeps ==
  ASSUME ChademoInv, NEW entered, Agrees(entered),
         target' \in BOOLEAN, enabled' \in BOOLEAN, shifter' \in BOOLEAN,
         NEW seen \in SUBSET Readings, NEW pin4 \in BOOLEAN,
         handle_chademo_sequence(entered, seen, pin4)
  PROVE  /\ CHADEMO_Status' \in CStatus /\ Flags'
         /\ ParkedWhileEngaged' /\ PowerHasTarget' /\ Lock'
<1> DEFINE st == Overridden(entered, pin4)
<1>1. /\ Agrees(st) /\ (st \in Engaged => ~shifter')
  BY DEF Agrees, Overridden, Engaged, ToTarget, CStatus
<1>2. /\ Flags
      /\ UnlockedIsDead
  BY DEF ChademoInv, ChademoTypeOK, Flags, Lock
<1>3. PICK pin7 \in BOOLEAN, ready \in {FALSE, permits} :
        \/ Idle(st, pin7) \/ Connected(st) \/ Wait(st) \/ EvAllowed(st)
        \/ EvsePrepare(st, seen) \/ EvseStart(st) \/ ContactorsEnabled(st, ready)
        \/ Powerflow(st, seen) \/ Stop(st, seen) \/ Fault(st)
  BY DEF handle_chademo_sequence
<1> HIDE DEF st
<1> USE <1>1, <1>2 DEF Agrees, CStatus, Preparing, Engaged, ToTarget, Flags, pins,
          ParkedWhileEngaged, PowerHasTarget, Lock, UnlockedIsDead
<1>4. CASE Idle(st, pin7)
  BY <1>4 DEF Idle
<1>5. CASE Connected(st)
  BY <1>5 DEF Connected
<1>6. CASE Wait(st)
  BY <1>6 DEF Wait
<1>7. CASE EvAllowed(st)
  BY <1>7 DEF EvAllowed
<1>8. CASE EvsePrepare(st, seen)
  BY <1>8 DEF EvsePrepare
<1>9. CASE EvseStart(st)
  BY <1>9 DEF EvseStart
<1>10. CASE ContactorsEnabled(st, ready)
  BY <1>10 DEF ContactorsEnabled
<1>11. CASE Powerflow(st, seen)
  BY <1>11 DEF Powerflow
<1>12. CASE Stop(st, seen)
  BY <1>12 DEF Stop
<1>13. CASE Fault(st)
  BY <1>13 DEF Fault
<1> QED
  BY <1>3, <1>4, <1>5, <1>6, <1>7, <1>8, <1>9, <1>10, <1>11, <1>12, <1>13

\* The rest of the type invariant.
LEMMA TypedAfter ==
  ASSUME CHADEMO_Status' \in CStatus, Flags', target' \in BOOLEAN, enabled' \in BOOLEAN,
         shifter' \in BOOLEAN, minimum' \in Minimums,
         framecount' \in 0..(FrameCountModulus - 1), vehicle_can_initialized' \in BOOLEAN
  PROVE  ChademoTypeOK'
  BY Zenon DEF ChademoTypeOK, Flags

LEMMA ChademoSteps == ChademoInv /\ [ChademoNext]_cvars => ChademoInv'
<1> SUFFICES ASSUME ChademoInv, [ChademoNext]_cvars PROVE ChademoInv'
  OBVIOUS
<1>1. /\ ChademoTypeOK /\ Flags /\ CHADEMO_Status \in CStatus
      /\ ParkedWhileEngaged /\ PowerHasTarget /\ Lock
      /\ target \in BOOLEAN /\ enabled \in BOOLEAN /\ shifter \in BOOLEAN
      /\ minimum \in Minimums /\ framecount \in 0..(FrameCountModulus - 1)
      /\ vehicle_can_initialized \in BOOLEAN
  BY DEF ChademoInv, ChademoTypeOK, Flags
<1>3. ASSUME NEW entered, Agrees(entered), NEW seen \in SUBSET Readings, NEW pin4 \in BOOLEAN,
             handle_chademo_sequence(entered, seen, pin4),
             target' \in BOOLEAN, enabled' \in BOOLEAN, shifter' \in BOOLEAN,
             minimum' \in Minimums, framecount' \in 0..(FrameCountModulus - 1),
             vehicle_can_initialized' \in BOOLEAN
      PROVE  ChademoInv'
  BY <1>3, SequenceKeeps, TypedAfter DEF ChademoInv
<1>4. NextCount \in 0..(FrameCountModulus - 1)
  BY <1>1, ChademoAssumption DEF NextCount
<1>5. ASSUME UNCHANGED <<session, pins, plug_inserted, permits, restarted>>,
             UNCHANGED CHADEMO_Status,
             minimum' \in Minimums, framecount' \in 0..(FrameCountModulus - 1),
             vehicle_can_initialized' \in BOOLEAN
      PROVE  ChademoInv'
  <2>1. ChademoTypeOK'
    BY <1>1, <1>5 DEF ChademoTypeOK, session, pins
  <2>2. ParkedWhileEngaged' /\ PowerHasTarget' /\ Lock'
    BY <1>1, <1>5 DEF ParkedWhileEngaged, PowerHasTarget, Lock, UnlockedIsDead, session, pins
  <2> QED
    BY <2>1, <2>2 DEF ChademoInv
<1>6. CASE Session102
  <2>1. CASE Skipped /\ UNCHANGED <<CHADEMO_Status, pins, plug_inserted, session, minimum,
                                    vehicle_can_initialized, permits, restarted>>
    BY <2>1, <1>1, <1>4, <1>5, <1>6 DEF Session102
  <2>2. CASE ~Skipped
    <3>1. PICK pin4 \in BOOLEAN, battery_fault \in BOOLEAN, pin4_again \in BOOLEAN :
            handle_chademo_sequence(Negotiating(AfterSession(pin4, battery_fault)),
                                    Readings, pin4_again)
      BY <2>2, <1>6 DEF Session102
    <3>2. /\ target' \in BOOLEAN /\ enabled' \in BOOLEAN /\ shifter' \in BOOLEAN
          /\ vehicle_can_initialized' \in BOOLEAN /\ minimum' = minimum /\ framecount' = NextCount
      BY <2>2, <1>6 DEF Session102
    <3>3. Agrees(Negotiating(AfterSession(pin4, battery_fault)))
      BY <1>1, <3>2 DEF Agrees, Negotiating, AfterSession, CStatus, Preparing, Engaged, ToTarget,
           PowerHasTarget, Lock
    <3> HIDE DEF AfterSession
    <3> QED
      BY <3>1, <3>2, <3>3, <1>1, <1>3, <1>4
  <2> QED
    BY <2>1, <2>2, <1>6 DEF Session102
<1>7. CASE Limits200
  <2>1. PICK pin4 \in BOOLEAN, now \in Readings :
          handle_chademo_sequence(
            Negotiating(IF now.volts <= minimum' /\ CHADEMO_Status \in Engaged
                        THEN "STOP" ELSE CHADEMO_Status), {now}, pin4)
    BY <1>7 DEF Limits200
  <2>2. Agrees(Negotiating(IF now.volts <= minimum' /\ CHADEMO_Status \in Engaged
                           THEN "STOP" ELSE CHADEMO_Status))
    BY <1>1, <1>7 DEF Limits200, session, Agrees, Negotiating, CStatus, Preparing, Engaged,
         ToTarget, PowerHasTarget, Lock
  <2> QED
    BY <2>1, <2>2, <1>1, <1>3, <1>7 DEF Limits200, session, frames
<1>8. CASE OtherVehicleFrame
  <2>1. Agrees(Negotiating(CHADEMO_Status))
    BY <1>1, <1>8 DEF OtherVehicleFrame, session, Agrees, Negotiating, CStatus, Preparing,
         Engaged, ToTarget, PowerHasTarget, Lock
  <2> QED
    BY <2>1, <1>1, <1>3, <1>8 DEF OtherVehicleFrame, session, frames
<1>9. CASE ChademoPass
  <2>1. Agrees(CHADEMO_Status)
    BY <1>1, <1>9 DEF ChademoPass, session, Agrees, ToTarget, PowerHasTarget, Lock
  <2> QED
    BY <2>1, <1>1, <1>3, <1>9 DEF ChademoPass, session, frames
<1>10. CASE SendStatus
  <2>1. ChademoTypeOK'
    BY <1>1, <1>10 DEF SendStatus, ChademoTypeOK, session, pins, frames, CStatus
  <2>2. ParkedWhileEngaged' /\ PowerHasTarget' /\ Lock'
    BY <1>1, <1>10 DEF SendStatus, ParkedWhileEngaged, PowerHasTarget, Lock, UnlockedIsDead,
         Engaged, session, pins
  <2> QED
    BY <2>1, <2>2 DEF ChademoInv
<1>11. CASE chademo_restart
  <2>1. ChademoTypeOK'
    BY <1>1, <1>11 DEF chademo_restart, ChademoTypeOK, session, pins, frames, CStatus
  <2>2. ParkedWhileEngaged' /\ PowerHasTarget' /\ Lock'
    BY <1>1, <1>11 DEF chademo_restart, ParkedWhileEngaged, PowerHasTarget, Lock, UnlockedIsDead,
         Engaged, session, pins
  <2> QED
    BY <2>1, <2>2 DEF ChademoInv
<1>12. CASE UNCHANGED cvars
  BY <1>1, <1>5, <1>12 DEF cvars, frames
<1> QED
  BY <1>6, <1>7, <1>8, <1>9, <1>10, <1>11, <1>12 DEF ChademoNext

LEMMA ChademoHolds == ChademoSpec => []ChademoInv
<1> QED
  BY ChademoStarts, ChademoSteps, PTL DEF ChademoSpec

\* The type invariant of the CHAdeMO driver: CHADEMO-BATTERY.cpp.
THEOREM ChademoTyped == ChademoSpec => []ChademoTypeOK
<1>1. ChademoInv => ChademoTypeOK
  BY DEF ChademoInv
<1> QED
  BY <1>1, ChademoHolds, PTL

\* "Vehicle is not parked, abort", whatever frame or pass comes first.
THEOREM ParkedWhenEngaged == ChademoSpec => []ParkedWhileEngaged
<1>1. ChademoInv => ParkedWhileEngaged
  BY DEF ChademoInv
<1> QED
  BY <1>1, ChademoHolds, PTL

\* The contactors are called for, and power flows, only to a target voltage.
THEOREM PowerToTarget == ChademoSpec => []PowerHasTarget
<1>1. ChademoInv => PowerHasTarget
  BY DEF ChademoInv
<1> QED
  BY <1>1, ChademoHolds, PTL

\* Without a restart by the user the connector is locked for as long as d1 is up.
THEOREM LiveIsLocked == ChademoSpec => []UnlockedIsDead
<1>1. ChademoInv => UnlockedIsDead
  BY DEF ChademoInv, Lock
<1> QED
  BY <1>1, ChademoHolds, PTL

\* The session as a whole: what the run checks, for every value of the constants.
THEOREM SessionIsSafe == ChademoSpec => []SessionSafe
<1> QED
  BY ChademoTyped, ParkedWhenEngaged, PowerToTarget, LiveIsLocked, PTL DEF SessionSafe

-----------------------------------------------------------------------------
(* The MEB driver, with the precharge it asks for.                         *)

\* A battery on standby has been heard since its contact was last given up.
StandbyIsHeard == real_bms_status = "STANDBY" => first_can_age # NoCan

MebIInv == MebInv /\ StandbyIsHeard

MebOnlyType ==
  /\ BMS_mode \in Modes
  /\ hv_requested \in BOOLEAN
  /\ can_age \in 0..BmsSilent /\ first_can_age \in NoCan..Settled
  /\ startup_bms_checked \in BOOLEAN /\ UserRequestBMSReset \in BOOLEAN
  /\ bms_reset_state \in ResetStates /\ bms_reset_age \in 0..LongestAge
  /\ pause \in BOOLEAN

LEMMA MebInvParts ==
  /\ MebInv <=> PrechargeInv /\ MebOnlyType /\ RequestNeedsContact
  /\ MebInv' <=> PrechargeInv' /\ MebOnlyType' /\ RequestNeedsContact'
BY DEF MebInv, MebTypeOK, PrechargeInv, MebOnlyType

\* The cap of the reset's clock is the longest of its four times.
LEMMA LongestIsLongest ==
  /\ LongestAge \in Nat
  /\ PauseTimeout <= LongestAge /\ HvOffTimeout <= LongestAge
  /\ SilenceTimeout <= LongestAge /\ SleepTime <= LongestAge
<1> DEFINE Ages == {PauseTimeout, HvOffTimeout, SilenceTimeout, SleepTime}
           Longest(n) == n \in Ages /\ \A m \in Ages : m <= n
<1>1. /\ PauseTimeout \in Nat /\ HvOffTimeout \in Nat
      /\ SilenceTimeout \in Nat /\ SleepTime \in Nat
  BY MebAssumption
<1>2. \E n : Longest(n)
  <2>1. PICK p \in {PauseTimeout, HvOffTimeout} : PauseTimeout <= p /\ HvOffTimeout <= p
    BY <1>1
  <2>2. PICK s \in {SilenceTimeout, SleepTime} : SilenceTimeout <= s /\ SleepTime <= s
    BY <1>1
  <2>3. CASE p <= s
    BY <1>1, <2>1, <2>2, <2>3
  <2>4. CASE s <= p
    BY <1>1, <2>1, <2>2, <2>4
  <2> QED
    BY <1>1, <2>1, <2>2, <2>3, <2>4
<1>3. LongestAge = CHOOSE n : Longest(n)
  BY DEF LongestAge
<1>4. Longest(LongestAge)
  BY <1>2, <1>3
<1> QED
  BY <1>1, <1>4

LEMMA MebStarts ==
  ASSUME MebInit
  PROVE  MebIInv /\ ~hv_requested
<1>1. PrechargeInv
  BY PrechargeStarts DEF MebInit
<1>2. MebOnlyType
  <2>1. /\ "INIT" \in Modes /\ 0 \in 0..BmsSilent /\ NoCan \in NoCan..Settled
        /\ "IDLE" \in ResetStates /\ 0 \in 0..LongestAge
    BY MebAssumption, LongestIsLongest DEF NoCan, ResetStates
  <2> QED
    BY <2>1 DEF MebInit, MebOnlyType
<1>3. ~hv_requested /\ real_bms_status # "STANDBY"
  BY DEF MebInit, PrechargeInit
<1> QED
  BY <1>1, <1>2, <1>3, MebInvParts DEF MebIInv, RequestNeedsContact, StandbyIsHeard

\* A frame: what Bms20 makes of the status, and what any frame shows.
LEMMA FramesKeep ==
  ASSUME MebIInv, Frames
  PROVE  MebIInv'
<1>1. PrechargeInv /\ MebOnlyType /\ RequestNeedsContact /\ StandbyIsHeard
  BY MebInvParts DEF MebIInv
<1>2. Heard => can_age' \in 0..BmsSilent /\ first_can_age' \in NoCan..Settled /\ first_can_age' # NoCan
  BY <1>1, MebAssumption DEF Heard, MebOnlyType, NoCan
<1>3. ASSUME NEW mode \in Modes, NEW link \in MebLinks, Bms20(mode, link)
      PROVE  MebIInv'
  <2>1. PrechargeInv'
    <3>1. StatusOf(mode) \in BmsStatus
      BY DEF StatusOf, BmsStatus
    <3>2. link \in LinkVoltages
      BY MebAssumption
    <3> QED
      BY <1>1, <1>3, <3>1, <3>2 DEF Bms20, PrechargeInv, PrechargeTypeOK, OutputsMatchStatus,
         FreqInRange, precharge, outside
  <2>2. MebOnlyType'
    BY <1>1, <1>2, <1>3 DEF Bms20, MebOnlyType
  <2>3. RequestNeedsContact' /\ StandbyIsHeard'
    BY <1>1, <1>2, <1>3 DEF Bms20, RequestNeedsContact, StandbyIsHeard, StatusOf
  <2> QED
    BY <2>1, <2>2, <2>3, MebInvParts DEF MebIInv
<1>4. CASE OtherFrame
  <2>1. PrechargeInv'
    BY <1>1, <1>4 DEF OtherFrame, prechargeVars, PrechargeInv, PrechargeTypeOK,
       OutputsMatchStatus, FreqInRange, precharge, bms, outside
  <2>2. MebOnlyType'
    BY <1>1, <1>2, <1>4 DEF OtherFrame, MebOnlyType, hv, reset
  <2>3. RequestNeedsContact' /\ StandbyIsHeard'
    BY <1>1, <1>2, <1>4 DEF OtherFrame, RequestNeedsContact, StandbyIsHeard, prechargeVars,
       bms, hv
  <2> QED
    BY <2>1, <2>2, <2>3, MebInvParts DEF MebIInv
<1> QED
  BY <1>3, <1>4 DEF Frames

\* The reset's own variables keep their types: every wait ends by its limit.
LEMMA ResetKeepsType ==
  ASSUME MebOnlyType, NEW d \in {0, 1}, handle_bms_reset(d)
  PROVE  /\ UserRequestBMSReset' \in BOOLEAN /\ pause' \in BOOLEAN
         /\ bms_reset_state' \in ResetStates /\ bms_reset_age' \in 0..LongestAge
<1>1. /\ bms_reset_age \in Nat /\ LongestAge \in Nat /\ 0 \in 0..LongestAge
      /\ UserRequestBMSReset \in BOOLEAN /\ pause \in BOOLEAN
      /\ bms_reset_state \in ResetStates
  BY LongestIsLongest DEF MebOnlyType
<1>2. CASE bms_reset_age' = 0
  BY <1>1, <1>2 DEF handle_bms_reset, StartReset, PauseReached, PauseNotReached, FallSilent,
     HoldQuiet, EndReset, WaitInReset, ResetStates
<1>3. CASE WaitInReset(d)
  <2>1. Late(d) \in Nat
    BY <1>1 DEF Late
  <2>2. \/ bms_reset_state = "IDLE" \/ Late(d) < PauseTimeout \/ Late(d) < HvOffTimeout
        \/ Late(d) < SilenceTimeout \/ Late(d) < SleepTime
    <3>1. Late(d) \in Nat /\ SilenceTimeout \in Nat
      BY <2>1, MebAssumption
    <3> QED
      BY <1>3, <3>1 DEF WaitInReset, Asleep
  <2>3. Late(d) \in 0..LongestAge
    <3>1. bms_reset_state = "IDLE" => Late(d) = 0
      BY DEF Late
    <3>2. /\ PauseTimeout \in Nat /\ HvOffTimeout \in Nat
          /\ SilenceTimeout \in Nat /\ SleepTime \in Nat
      BY MebAssumption
    <3> QED
      BY <2>1, <2>2, <3>1, <3>2, LongestIsLongest
  <2> QED
    BY <1>1, <1>3, <2>3 DEF WaitInReset
<1> QED
  BY <1>2, <1>3 DEF handle_bms_reset, StartReset, PauseReached, PauseNotReached, FallSilent,
     HoldQuiet, EndReset

\* One pass of transmit_can().  The request for HV is only kept or made for a
\* battery that is still in contact after what the pass has forgotten.
LEMMA TransmitKeeps ==
  ASSUME MebIInv, NEW d \in {0, 1}, NEW due \in BOOLEAN, transmit_can(d, due)
  PROVE  MebIInv'
<1>1. PrechargeInv /\ MebOnlyType /\ RequestNeedsContact /\ StandbyIsHeard
  BY MebInvParts DEF MebIInv
<1>2. /\ UserRequestBMSReset' \in BOOLEAN /\ pause' \in BOOLEAN
      /\ bms_reset_state' \in ResetStates /\ bms_reset_age' \in 0..LongestAge
  BY <1>1, ResetKeepsType DEF transmit_can
<1>3. can_age' \in 0..BmsSilent
  BY <1>1, MebAssumption DEF transmit_can, CanAge, MebOnlyType
<1>4. FirstAgeNow(d) \in NoCan..Settled
  BY <1>1, MebAssumption DEF FirstAgeNow, MebOnlyType, NoCan
<1>5. StatusNow(d) \in BmsStatus /\ LinkNow(d) \in LinkVoltages
  BY <1>1, PrechargeAssumption
     DEF StatusNow, LinkNow, BmsStatus, PrechargeInv, PrechargeTypeOK
<1>6. RequestedNow(d) \in BOOLEAN /\ AskForHv(d) \in BOOLEAN /\ WantsPrecharge(d) \in BOOLEAN
  BY <1>1, Zenon DEF RequestedNow, AskForHv, WantsPrecharge, MebOnlyType, AskForHvOff
<1>7. CASE bms_reset_tx_suppressed'
  <2>1. UNCHANGED <<bms, BMS_voltage_intermediate_dV, hv_requested, start_precharging,
                    first_can_age>>
    BY <1>7 DEF transmit_can
  <2>2. PrechargeInv'
    BY <1>1, <2>1 DEF transmit_can, PrechargeInv, PrechargeTypeOK, OutputsMatchStatus,
       FreqInRange, precharge, bms, outside
  <2>3. MebOnlyType'
    BY <1>1, <1>2, <1>3, <2>1 DEF transmit_can, MebOnlyType
  <2>4. RequestNeedsContact' /\ StandbyIsHeard'
    BY <1>1, <2>1 DEF RequestNeedsContact, StandbyIsHeard, bms
  <2> QED
    BY <2>2, <2>3, <2>4, MebInvParts DEF MebIInv
<1>8. CASE ~bms_reset_tx_suppressed'
  <2>1. /\ real_bms_status' = StatusNow(d) /\ first_can_age' = FirstAgeNow(d)
        /\ BMS_voltage_intermediate_dV' = LinkNow(d)
        /\ battery_allows_contactor_closing' =
             (battery_allows_contactor_closing /\ (ResetDone(d) \/ ~Forgotten(d)))
        /\ \/ HvRequest(d)
           \/ hv_requested' = RequestedNow(d) /\ start_precharging' = start_precharging
    BY <1>8 DEF transmit_can
  <2>2. start_precharging' \in BOOLEAN /\ hv_requested' \in BOOLEAN
        /\ battery_allows_contactor_closing' \in BOOLEAN
    <3>1. start_precharging \in BOOLEAN /\ battery_allows_contactor_closing \in BOOLEAN
      BY <1>1 DEF PrechargeInv, PrechargeTypeOK
    <3> QED
      BY <1>6, <2>1, <3>1, Zenon DEF HvRequest
  <2>3. PrechargeInv'
    BY <1>1, <1>5, <2>1, <2>2 DEF transmit_can, PrechargeInv, PrechargeTypeOK,
       OutputsMatchStatus, FreqInRange, precharge, outside
  <2>4. MebOnlyType'
    BY <1>1, <1>2, <1>3, <1>4, <2>1, <2>2 DEF transmit_can, MebOnlyType
  <2>5. StatusNow(d) = "STANDBY" => FirstAgeNow(d) # NoCan
    <3> SUFFICES ASSUME StatusNow(d) = "STANDBY" PROVE FirstAgeNow(d) # NoCan
      OBVIOUS
    <3>1. ~Forgotten(d) /\ real_bms_status = "STANDBY"
      BY DEF StatusNow
    <3>2. ~ResetDone(d) /\ ~LostCan(d) /\ first_can_age # NoCan
      BY <1>1, <3>1 DEF Forgotten, StandbyIsHeard
    <3>3. first_can_age \in 0..Settled /\ Settled \in Nat
      BY <1>1, <3>2, MebAssumption DEF MebOnlyType, NoCan
    <3> QED
      BY <3>2, <3>3 DEF FirstAgeNow, NoCan
  <2>6. hv_requested' => StatusNow(d) = "STANDBY"
    <3>1. RequestedNow(d) => StatusNow(d) = "STANDBY"
      BY <1>1 DEF RequestedNow, StatusNow, RequestNeedsContact
    <3>2. AskForHv(d) /\ StatusNow(d) # "ACTIVE" => StatusNow(d) = "STANDBY"
      BY DEF AskForHv
    <3> QED
      BY <2>1, <3>1, <3>2 DEF HvRequest
  <2>7. RequestNeedsContact' /\ StandbyIsHeard'
    BY <2>1, <2>5, <2>6 DEF RequestNeedsContact, StandbyIsHeard
  <2> QED
    BY <2>3, <2>4, <2>7, MebInvParts DEF MebIInv
<1> QED
  BY <1>7, <1>8

\* The precharge's own pass leaves a battery on standby as it is, and with a
\* battery configured makes none up.
LEMMA PrechargeKeepsMeb ==
  ASSUME MebIInv, battery_configured, MebPrecharge
  PROVE  MebIInv'
<1>1. PrechargeInv /\ MebOnlyType /\ RequestNeedsContact /\ StandbyIsHeard
  BY MebInvParts DEF MebIInv
<1>2. PICK d \in {0, 1} : handle_precharge_control(d)
  BY DEF MebPrecharge, PrechargePass
<1>3. PrechargeInv'
  BY <1>1, <1>2, PassKeepsInv
<1>4. real_bms_status' = real_bms_status
  BY <1>2 DEF handle_precharge_control, StayFailed, StartSequence, BeginPrecharge,
     FailPrecharge, AbortPrecharge, CompletePrecharge, KeepPrecharging, Rearm, TestMode, BmsNow
<1>5. UNCHANGED mebOnly
  BY DEF MebPrecharge
<1> QED
  BY <1>1, <1>3, <1>4, <1>5, MebInvParts
  DEF MebIInv, mebOnly, hv, contact, reset, MebOnlyType, RequestNeedsContact, StandbyIsHeard

LEMMA MebStepKeeps ==
  ASSUME MebIInv, battery_configured, MebNext
  PROVE  MebIInv' /\ battery_configured'
<1>1. PrechargeInv /\ MebOnlyType /\ RequestNeedsContact /\ StandbyIsHeard
  BY MebInvParts DEF MebIInv
<1>2. CASE MebPrecharge
  BY <1>2, PrechargeKeepsMeb DEF MebPrecharge, PrechargePass, handle_precharge_control
<1>3. CASE Frames
  BY <1>3, FramesKeep DEF Frames, Bms20, OtherFrame, prechargeVars
<1>4. CASE TransmitPass
  BY <1>4, TransmitKeeps DEF TransmitPass, transmit_can
<1>5. CASE reset_BMS
  <2>1. UNCHANGED prechargeVars
    BY <1>5 DEF reset_BMS
  <2>2. PrechargeInv'
    BY <1>1, <2>1, PrechargeNextKeepsInv
  <2>3. MebOnlyType' /\ RequestNeedsContact' /\ StandbyIsHeard'
    BY <1>1, <1>5 DEF reset_BMS, MebOnlyType, RequestNeedsContact, StandbyIsHeard,
       prechargeVars, bms, hv, contact
  <2> QED
    BY <2>1, <2>2, <2>3, MebInvParts DEF MebIInv, prechargeVars
<1>6. CASE MebReboot
  <2>2. freq' \in 0..(FreqModulus - 1) /\ FreqInRange' /\ precharge_age' \in 0..MaxPrechargeTime
    BY <1>6, PrechargeAssumption DEF MebReboot, FreqInRange, DefaultFreq, MinFreq
  <2>3. /\ prev_external_voltage' \in LinkVoltages \union {Unread}
        /\ BMS_voltage_intermediate_dV' \in LinkVoltages /\ system_status' \in SystemStatus
        /\ precharge_status' \in PrechargeStatus /\ real_bms_status' \in BmsStatus
        /\ NormallyOpen \in BOOLEAN
    BY <1>6, PrechargeAssumption DEF MebReboot, PrechargeStatus, BmsStatus
  <2>4. PrechargeTypeOK'
    BY <1>1, <1>6, <2>2, <2>3 DEF MebReboot, PrechargeTypeOK, PrechargeInv
  <2>5. OutputsMatchStatus'
    BY <1>6 DEF MebReboot, OutputsMatchStatus
  <2>6. MebOnlyType'
    <3>1. /\ "INIT" \in Modes /\ 0 \in 0..BmsSilent /\ NoCan \in NoCan..Settled
          /\ "IDLE" \in ResetStates /\ 0 \in 0..LongestAge
      BY MebAssumption, LongestIsLongest DEF NoCan, ResetStates
    <3> QED
      BY <1>6, <3>1 DEF MebReboot, MebOnlyType
  <2>7. RequestNeedsContact' /\ StandbyIsHeard' /\ battery_configured'
    BY <1>6 DEF MebReboot, RequestNeedsContact, StandbyIsHeard
  <2> QED
    BY <2>2, <2>4, <2>5, <2>6, <2>7, MebInvParts DEF MebIInv, PrechargeInv
<1>7. CASE MebOutside
  <2>1. PrechargeInv'
    BY <1>1, <1>7, PrechargeNextKeepsInv DEF MebOutside, PrechargeNext
  <2>2. UNCHANGED <<mebOnly, bms, battery_configured>>
    BY <1>7 DEF MebOutside, OutsideChanges
  <2> QED
    BY <1>1, <2>1, <2>2, MebInvParts
    DEF MebIInv, mebOnly, hv, contact, reset, bms, MebOnlyType, RequestNeedsContact, StandbyIsHeard
<1> QED
  BY <1>2, <1>3, <1>4, <1>5, <1>6, <1>7 DEF MebNext

LEMMA MebStutters ==
  ASSUME MebIInv, UNCHANGED mebVars
  PROVE  MebIInv'
<1>1. PrechargeInv'
  BY MebInvParts, PrechargeNextKeepsInv DEF MebIInv, mebVars
<1>2. MebOnlyType' /\ RequestNeedsContact' /\ StandbyIsHeard'
  BY MebInvParts DEF MebIInv, mebVars, mebOnly, hv, contact, reset, prechargeVars, bms,
     MebOnlyType, RequestNeedsContact, StandbyIsHeard
<1> QED
  BY <1>1, <1>2, MebInvParts DEF MebIInv

\* The MEB driver alone: its request for HV needs a battery on standby in
\* contact, for every timeout of its reset and of its contact.
THEOREM MebSafe == MebSpec => []MebInv
<1> DEFINE Inv == MebIInv /\ battery_configured
<1>1. MebAlone => Inv
  BY MebStarts DEF MebAlone
<1>2. Inv /\ [MebNext]_mebVars => Inv'
  BY MebStepKeeps, MebStutters DEF mebVars, prechargeVars
<1>3. Inv => MebInv
  BY DEF MebIInv
<1> HIDE DEF Inv
<1> QED
  BY <1>1, <1>2, <1>3, PTL DEF MebSpec

-----------------------------------------------------------------------------
(* The firmware, with the driver that the settings name.                   *)

DriversInv ==
  /\ MebInv /\ ChademoInv
  /\ driver = "MEB" => StandbyIsHeard /\ battery_configured
  /\ driver = "other" => ~hv_requested

LEMMA DriversStart == DriversInit => DriversInv
BY MebStarts, ChademoStarts DEF DriversInit, DriversInv, MebIInv

LEMMA DriversStep == DriversInv /\ [DriversNext]_dvars => DriversInv'
<1> SUFFICES ASSUME DriversInv, [DriversNext]_dvars PROVE DriversInv'
  OBVIOUS
<1>1. UNCHANGED cvars => ChademoInv'
  BY ChademoSteps DEF DriversInv
<1>2. CASE MebStep
  <2>1. MebIInv /\ battery_configured /\ driver = "MEB" /\ driver' = driver
    BY <1>2 DEF MebStep, create_battery, DriversInv, MebIInv
  <2> QED
    BY <1>1, <1>2, <2>1, MebStepKeeps DEF MebStep, DriversInv, MebIInv
<1>3. CASE OtherStep
  <2>1. driver = "other" /\ driver' = driver /\ ~hv_requested /\ UNCHANGED mebOnly
    BY <1>3 DEF OtherStep, create_battery, DriversInv
  <2>2. PrechargeInv'
    BY <1>3, MebInvParts, PrechargeNextKeepsInv DEF OtherStep, DriversInv
  <2>3. MebOnlyType' /\ RequestNeedsContact' /\ ~hv_requested'
    BY <2>1, MebInvParts DEF DriversInv, mebOnly, hv, contact, reset, MebOnlyType,
       RequestNeedsContact
  <2> QED
    BY <1>1, <1>3, <2>1, <2>2, <2>3, MebInvParts DEF OtherStep, DriversInv
<1>4. ASSUME UNCHANGED mebVars
      PROVE  MebInv' /\ (StandbyIsHeard /\ battery_configured => StandbyIsHeard' /\ battery_configured')
             /\ hv_requested' = hv_requested
  <2>1. PrechargeInv'
    BY <1>4, MebInvParts, PrechargeNextKeepsInv DEF DriversInv, mebVars
  <2>2. MebOnlyType' /\ RequestNeedsContact'
    BY <1>4, MebInvParts DEF DriversInv, mebVars, mebOnly, hv, contact, reset, prechargeVars,
       bms, MebOnlyType, RequestNeedsContact
  <2> QED
    BY <1>4, <2>1, <2>2, MebInvParts DEF mebVars, mebOnly, hv, contact, prechargeVars, bms,
       StandbyIsHeard
<1>5. CASE ChademoStep
  BY <1>4, <1>5, ChademoSteps DEF ChademoStep, create_battery, DriversInv
<1>6. CASE UNCHANGED dvars
  BY <1>1, <1>4, <1>6 DEF dvars, DriversInv
<1> QED
  BY <1>2, <1>3, <1>5, <1>6 DEF DriversNext

\* The inductive invariant of precharge and drivers together.
LEMMA DriversHold == DriversSpec => []DriversInv
BY DriversStart, DriversStep, PTL DEF DriversSpec

\* With any driver the outputs match the status of the precharge, the
\* frequency is in range, and no request for HV outlives its battery.
THEOREM DriversKeepMeb == DriversSpec => []MebInv
<1>1. DriversInv => MebInv
  BY DEF DriversInv
<1> QED
  BY <1>1, DriversHold, PTL

\* With any driver the CHAdeMO session is as safe as it is alone.
THEOREM DriversKeepSession == DriversSpec => []SessionSafe
<1>1. DriversInv => SessionSafe
  BY DEF DriversInv, ChademoInv, Lock, SessionSafe
<1> QED
  BY <1>1, DriversHold, PTL
=============================================================================
