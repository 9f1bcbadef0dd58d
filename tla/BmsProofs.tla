----------------------------- MODULE BmsProofs ------------------------------
(***************************************************************************)
(* The two resets of a BMS.                                                *)
(*                                                                         *)
(* The power cycle, for every configuration, every time and every length   *)
(* of the liveness window from two seconds on: its states and counters     *)
(* stay in range, the power stays off for the configured time, and a long  *)
(* reset that begins with a BMS that was heard is never taken for a lost   *)
(* one.                                                                    *)
(*                                                                         *)
(* The diagnostic layer, for every timeout, number of retries, length of   *)
(* the scan and of the pauses, as long as the pause for a tool is not the  *)
(* shorter one: it never holds the bus without a deadline, never waits for *)
(* two answers at once, and leaves a BMS alone after a reset.              *)
(***************************************************************************)
EXTENDS BmsResets, TLAPS

(* The power cycle. *)

\* The BMS has its power, and has had it for the warm-up, unless it is being reset;
\* it is without it in one state only, and then for as long as the stamp says.
PowerInv ==
  /\ bms_reset_status \in {"IDLE", "WAITING_FOR_PAUSE"} => Talking
  /\ ~bms_power => bms_reset_status = "POWERED_OFF" /\ lastPowerRemovalTime <= off_for

\* What the counter has lost since it was last full, the age of the keepalive has
\* gained: so it is not empty when the keepalive is not yet due.
CounterInv ==
  /\ begun_full /\ bms_reset_status = "WAITING_FOR_PAUSE" => still_alive >= StillAlive - 1
  /\ needs_can_keepalive /\ begun_full /\ ~Talking =>
       /\ still_alive + lastCanKeepaliveTime >= StillAlive - 1
       /\ passed = "ran" => still_alive >= 1

ResetIInv == ResetTypeOK /\ PowerInv /\ CounterInv

LEMMA TimesTyped ==
  /\ Interval \in 0..Horizon /\ Duration \in 0..Horizon /\ Warmup \in 0..Horizon
  /\ WaitLow \in 0..Horizon /\ GiveUp \in 0..Horizon
  /\ Horizon \in Nat /\ StillAlive \in 2..Horizon
  BY ResetTimeAssumption

LEMMA OlderTyped ==
  ASSUME NEW age \in 0..Horizon
  PROVE  /\ Older(age) \in 0..Horizon /\ Older(age) >= age
         /\ Older(age) = Horizon \/ Older(age) = age + 1
  BY TimesTyped DEF Older

LEMMA ResetStarts == ResetInit => ResetIInv
<1> SUFFICES ASSUME ResetInit PROVE ResetIInv
  OBVIOUS
<1>1. ResetTypeOK
  <2>1. /\ 0 \in 0..Horizon /\ Horizon \in 0..Horizon /\ StillAlive \in 0..StillAlive
    BY TimesTyped
  <2> QED
    BY <2>1, ZenonT(30) DEF ResetInit, ResetTypeOK
<1>2. Talking
  BY TimesTyped DEF ResetInit, Talking
<1>3. PowerInv
  BY <1>2 DEF ResetInit, PowerInv
<1>4. CounterInv
  BY DEF ResetInit, CounterInv
<1> QED
  BY <1>1, <1>3, <1>4 DEF ResetIInv

\* A start notes whether the BMS was heard.
LEMMA StartNotes ==
  ASSUME ResetTypeOK, start_bms_reset
  PROVE  begun_full' \in BOOLEAN /\ (begun_full' => still_alive >= StillAlive - 1)
<1>1. begun_full' = (still_alive >= StillAlive - 1)
  BY DEF start_bms_reset
<1>2. still_alive \in Int /\ StillAlive - 1 \in Int
  BY TimesTyped DEF ResetTypeOK
<1>3. begun_full' \in BOOLEAN
  BY <1>1, <1>2
<1>4. ASSUME begun_full' PROVE still_alive >= StillAlive - 1
  BY <1>1, <1>2, <1>4
<1> QED
  BY <1>3, <1>4

\* The tick that keeps the counter up: full, or untouched and not yet due.
LEMMA TickTyped ==
  ASSUME ResetTypeOK, can_keepalive_tick
  PROVE  /\ lastCanKeepaliveTime' \in 0..Horizon /\ still_alive' \in 0..StillAlive
         /\ \/ lastCanKeepaliveTime' = 0 /\ still_alive' = StillAlive
            \/ /\ UNCHANGED <<lastCanKeepaliveTime, still_alive>>
               /\ needs_can_keepalive => lastCanKeepaliveTime < StillAlive - 1
<1>1. 0 \in 0..Horizon /\ StillAlive \in 0..StillAlive
  BY TimesTyped
<1>2. lastCanKeepaliveTime \in 0..Horizon /\ still_alive \in 0..StillAlive
  BY DEF ResetTypeOK
<1>3. CASE KeepaliveDue
  BY <1>1, <1>3 DEF can_keepalive_tick, refresh_can_alive
<1>4. CASE ~KeepaliveDue
  BY <1>2, <1>4, TimesTyped
     DEF can_keepalive_tick, KeepaliveDue, Elapsed, KeepaliveInterval
<1> QED
  BY <1>3, <1>4

LEMMA PassTyped ==
  ASSUME ResetTypeOK, handle_BMSpower
  PROVE  ResetTypeOK'
<1>1. /\ clock' = "none" /\ passed' = "ran" /\ UNCHANGED <<missing_event, inputs, off_for>>
      /\ begun_full' \in BOOLEAN
  <2>1. CASE RunPeriodic
    BY <2>1, StartNotes DEF handle_BMSpower, RunPeriodic
  <2>2. CASE UNCHANGED begun_full
    BY <2>2 DEF handle_BMSpower, ResetTypeOK
  <2> QED
    BY <2>1, <2>2 DEF handle_BMSpower
<1>2. 0 \in 0..Horizon /\ StillAlive \in 0..StillAlive
  BY TimesTyped
<1>3. /\ bms_reset_status' \in {"IDLE", "WAITING_FOR_PAUSE", "POWERED_OFF", "POWERING_ON"}
      /\ bms_power' \in BOOLEAN /\ balancingPeriodSkipped' \in BOOLEAN
      /\ lastPowerRemovalTime' \in 0..Horizon /\ lastCanKeepaliveTime' \in 0..Horizon
      /\ bmsPowerOnTime' \in 0..Horizon /\ still_alive' \in 0..StillAlive
      /\ emulator_pause_request_ON' \in BOOLEAN
  <2>1. CASE RunPeriodic
    BY <1>2, <2>1 DEF RunPeriodic, start_bms_reset, ResetTypeOK
  <2>2. CASE Idle \/ SkipPeriod \/ CutPower \/ AbortReset \/ WaitForPause
    BY <1>2, <2>2 DEF Idle, SkipPeriod, CutPower, AbortReset, WaitForPause, stamps, ResetTypeOK
  <2>3. CASE StayOff \/ WarmUp \/ Finish
    <3>1. lastCanKeepaliveTime' \in 0..Horizon /\ still_alive' \in 0..StillAlive
      BY <2>3, TickTyped DEF StayOff, WarmUp, Finish
    <3> QED
      BY <2>3, <3>1 DEF StayOff, WarmUp, Finish, ResetTypeOK
  <2>4. CASE PowerOn
    BY <1>2, <2>4 DEF PowerOn, refresh_can_alive, ResetTypeOK
  <2> QED
    BY <2>1, <2>2, <2>3, <2>4 DEF handle_BMSpower
<1> QED
  BY <1>1, <1>3 DEF ResetTypeOK, inputs

LEMMA OthersTyped ==
  ASSUME ResetTypeOK,
         BeginPass \/ SkipPass \/ RemoteStart \/ EquipmentStop \/ BatteryChanges \/ UNCHANGED vars
  PROVE  ResetTypeOK'
<1>1. 0 \in 0..Horizon
  BY TimesTyped
<1>2. CASE BeginPass
  BY <1>2 DEF BeginPass, stamps, inputs, history, ResetTypeOK
<1>3. CASE SkipPass
  BY <1>3 DEF SkipPass, stamps, inputs, history, ResetTypeOK
<1>4. CASE RemoteStart
  <2>1. begun_full' \in BOOLEAN
    BY <1>4, StartNotes DEF RemoteStart
  <2> QED
    BY <1>1, <1>4, <2>1 DEF RemoteStart, start_bms_reset, inputs, ResetTypeOK
<1>5. CASE EquipmentStop
  BY <1>5 DEF EquipmentStop, stamps, history, ResetTypeOK
<1>6. CASE BatteryChanges
  <2>1. current' \in {"zero", "low", "high"} /\ soc_low' \in BOOLEAN /\ balancing' \in BOOLEAN
    BY <1>6, Zenon DEF BatteryChanges, ResetTypeOK
  <2> QED
    BY <1>6, <2>1 DEF BatteryChanges, stamps, history, ResetTypeOK
<1>7. CASE UNCHANGED vars
  BY <1>7 DEF vars, stamps, inputs, history, ResetTypeOK
<1> QED
  BY <1>2, <1>3, <1>4, <1>5, <1>6, <1>7

LEMMA SecondTyped ==
  ASSUME ResetTypeOK, Second
  PROVE  ResetTypeOK'
<1>1. /\ lastPowerRemovalTime' \in 0..Horizon /\ lastCanKeepaliveTime' \in 0..Horizon
      /\ bmsPowerOnTime' \in 0..Horizon
  BY OlderTyped DEF Second, ResetTypeOK
<1>2. off_for' \in 0..Horizon
  <2>1. Older(off_for) \in 0..Horizon /\ 0 \in 0..Horizon
    BY OlderTyped, TimesTyped DEF ResetTypeOK
  <2> QED
    BY <2>1 DEF Second
<1>3. still_alive' \in 0..StillAlive
  BY TimesTyped DEF Second, AliveNow, ResetTypeOK
<1>4. missing_event' \in BOOLEAN
  BY DEF Second
<1> QED
  BY <1>1, <1>2, <1>3, <1>4 DEF Second, inputs, ResetTypeOK

LEMMA ResetTypeKeeps ==
  ASSUME ResetTypeOK, [ResetNext]_vars
  PROVE  ResetTypeOK'
BY PassTyped, OthersTyped, SecondTyped DEF ResetNext

LEMMA PowerKeeps ==
  ASSUME ResetTypeOK, PowerInv, [ResetNext]_vars
  PROVE  /\ PowerInv'
         /\ ~bms_power /\ bms_power' /\ clock # "stale" => off_for >= Duration
<1>1. /\ lastPowerRemovalTime \in 0..Horizon /\ off_for \in 0..Horizon
      /\ bmsPowerOnTime \in 0..Horizon /\ bms_power \in BOOLEAN
      /\ Horizon \in Nat /\ Warmup \in 0..Horizon /\ Duration \in 0..Horizon
  BY TimesTyped DEF ResetTypeOK
<1>2. ASSUME start_bms_reset, bms_reset_status = "IDLE", UNCHANGED <<bmsPowerOnTime, off_for>>
      PROVE  PowerInv' /\ bms_power
  <2>1. bms_power /\ Talking
    BY <1>2 DEF PowerInv, Talking
  <2>2. CASE contactor_control_enabled
    BY <1>1, <1>2, <2>1, <2>2 DEF start_bms_reset, PowerInv
  <2>3. CASE ~contactor_control_enabled
    <3>1. bms_power'
      BY <1>2, <2>1, <2>3 DEF start_bms_reset
    <3> QED
      BY <1>2, <2>1, <3>1 DEF PowerInv, Talking
  <2> QED
    BY <2>2, <2>3
<1>3. CASE handle_BMSpower
  <2>1. off_for' = off_for
    BY <1>3 DEF handle_BMSpower
  <2>2. CASE RunPeriodic
    BY <1>2, <2>1, <2>2 DEF RunPeriodic
  <2>3. CASE Idle \/ SkipPeriod \/ AbortReset \/ WaitForPause
    BY <2>1, <2>3 DEF Idle, SkipPeriod, AbortReset, WaitForPause, stamps, PowerInv, Talking
  <2>4. CASE CutPower
    BY <1>1, <2>1, <2>4 DEF CutPower, PowerInv, Talking
  <2>5. CASE StayOff \/ WarmUp
    BY <2>1, <2>5 DEF StayOff, WarmUp, PowerInv, Talking
  <2>6. CASE PowerOn
    <3>1. PowerInv'
      BY <2>6 DEF PowerOn, PowerInv, Talking
    <3>2. clock # "stale" => lastPowerRemovalTime >= Duration
      BY <2>6 DEF PowerOn, Elapsed
    <3>3. ~bms_power => lastPowerRemovalTime <= off_for
      BY DEF PowerInv
    <3> QED
      BY <1>1, <3>1, <3>2, <3>3
  <2>7. CASE Finish
    BY <1>1, <2>1, <2>7 DEF Finish, PowerInv, Talking
  <2> QED
    BY <1>3, <2>2, <2>3, <2>4, <2>5, <2>6, <2>7 DEF handle_BMSpower
<1>4. CASE RemoteStart
  BY <1>2, <1>4 DEF RemoteStart
<1>5. CASE Second
  <2>1. /\ bms_reset_status' = bms_reset_status /\ bms_power' = bms_power
        /\ bmsPowerOnTime' = Older(bmsPowerOnTime)
        /\ lastPowerRemovalTime' = Older(lastPowerRemovalTime)
        /\ ~bms_power => off_for' = Older(off_for)
    BY <1>5 DEF Second
  <2>2. Talking => Talking'
    <3>1. Older(bmsPowerOnTime) \in 0..Horizon /\ Older(bmsPowerOnTime) >= bmsPowerOnTime
      BY <1>1, OlderTyped
    <3>2. bmsPowerOnTime >= Warmup => Older(bmsPowerOnTime) >= Warmup
      BY <1>1, <3>1
    <3> QED
      BY <2>1, <3>2 DEF Talking
  <2>3. lastPowerRemovalTime <= off_for => Older(lastPowerRemovalTime) <= Older(off_for)
    BY <1>1 DEF Older
  <2>4. ~bms_power' => bms_reset_status' = "POWERED_OFF" /\ lastPowerRemovalTime' <= off_for'
    BY <2>1, <2>3 DEF PowerInv
  <2>5. bms_reset_status' \in {"IDLE", "WAITING_FOR_PAUSE"} => Talking'
    BY <2>1, <2>2 DEF PowerInv
  <2> QED
    BY <2>1, <2>4, <2>5 DEF PowerInv
<1>6. CASE BeginPass \/ SkipPass \/ EquipmentStop \/ BatteryChanges \/ UNCHANGED vars
  <2>1. UNCHANGED <<bms_reset_status, bms_power, lastPowerRemovalTime, bmsPowerOnTime, off_for>>
    BY <1>6 DEF BeginPass, SkipPass, EquipmentStop, BatteryChanges, vars, stamps, history
  <2> QED
    BY <2>1 DEF PowerInv, Talking
<1> QED
  BY <1>3, <1>4, <1>5, <1>6 DEF ResetNext

LEMMA CounterKeeps ==
  ASSUME ResetTypeOK, PowerInv, CounterInv, [ResetNext]_vars
  PROVE  CounterInv'
<1>1. /\ lastCanKeepaliveTime \in 0..Horizon /\ still_alive \in 0..StillAlive
      /\ bmsPowerOnTime \in 0..Horizon /\ bms_power \in BOOLEAN
      /\ Horizon \in Nat /\ StillAlive \in 2..Horizon /\ Warmup \in 0..Horizon
  BY TimesTyped DEF ResetTypeOK
\* What holds of the counters after a step that leaves the BMS without its voice.
<1> DEFINE Kept == /\ still_alive' \in Nat /\ lastCanKeepaliveTime' \in Nat
                   /\ still_alive' + lastCanKeepaliveTime' >= StillAlive - 1
                   /\ still_alive' >= 1
<1>2. ASSUME start_bms_reset, bms_reset_status = "IDLE", UNCHANGED still_alive
      PROVE  CounterInv'
  <2>1. begun_full' => still_alive' >= StillAlive - 1
    BY <1>2, StartNotes
  <2>2. begun_full' => Kept
    BY <1>1, <1>2, <2>1 DEF start_bms_reset
  <2> QED
    BY <2>1, <2>2 DEF CounterInv
<1>3. CASE handle_BMSpower
  <2>1. CASE RunPeriodic
    BY <1>2, <2>1 DEF RunPeriodic
  <2>2. CASE /\ Idle \/ SkipPeriod \/ AbortReset \/ WaitForPause
             /\ UNCHANGED begun_full
    <3>1. Talking /\ Talking' /\ UNCHANGED still_alive
          /\ (bms_reset_status' = "WAITING_FOR_PAUSE" => bms_reset_status = "WAITING_FOR_PAUSE")
      BY <2>2 DEF Idle, SkipPeriod, AbortReset, WaitForPause, stamps, PowerInv, Talking
    <3> QED
      BY <2>2, <3>1 DEF CounterInv
  <2>3. CASE CutPower /\ UNCHANGED begun_full
    <3>1. /\ begun_full => still_alive >= StillAlive - 1
          /\ UNCHANGED <<still_alive, lastCanKeepaliveTime>>
          /\ bms_reset_status' # "WAITING_FOR_PAUSE"
      BY <2>3 DEF CutPower, CounterInv
    <3>2. begun_full => Kept
      BY <1>1, <3>1
    <3> QED
      BY <2>3, <3>1, <3>2 DEF CounterInv
  <2>4. CASE (StayOff \/ WarmUp \/ Finish) /\ UNCHANGED begun_full
    <3>1. /\ can_keepalive_tick /\ bms_reset_status' # "WAITING_FOR_PAUSE"
          /\ UNCHANGED <<bms_power, bmsPowerOnTime>>
      BY <2>4 DEF StayOff, WarmUp, Finish
    <3>2. needs_can_keepalive /\ begun_full /\ ~Talking =>
            still_alive + lastCanKeepaliveTime >= StillAlive - 1
      BY DEF CounterInv
    <3>3. needs_can_keepalive /\ begun_full /\ ~Talking => Kept
      <4>1. CASE lastCanKeepaliveTime' = 0 /\ still_alive' = StillAlive
        BY <1>1, <4>1
      <4>2. CASE /\ UNCHANGED <<lastCanKeepaliveTime, still_alive>>
                 /\ needs_can_keepalive => lastCanKeepaliveTime < StillAlive - 1
        BY <1>1, <3>2, <4>2
      <4> QED
        BY <3>1, <4>1, <4>2, TickTyped
    <3> QED
      BY <2>4, <3>1, <3>3 DEF CounterInv, Talking, needs_can_keepalive
  <2>5. CASE PowerOn /\ UNCHANGED begun_full
    <3>1. needs_can_keepalive => Kept
      BY <1>1, <2>5 DEF PowerOn, refresh_can_alive
    <3>2. bms_reset_status' # "WAITING_FOR_PAUSE"
      BY <2>5 DEF PowerOn
    <3> QED
      BY <3>1, <3>2 DEF CounterInv, needs_can_keepalive
  <2> QED
    BY <1>3, <2>1, <2>2, <2>3, <2>4, <2>5 DEF handle_BMSpower
<1>4. CASE RemoteStart
  BY <1>2, <1>4 DEF RemoteStart
<1>5. CASE Second
  <2>1. UNCHANGED <<bms_reset_status, begun_full>> /\ passed' = "no"
        /\ bms_power' = bms_power /\ bmsPowerOnTime' = Older(bmsPowerOnTime)
        /\ lastCanKeepaliveTime' = Older(lastCanKeepaliveTime)
    BY <1>5 DEF Second
  <2>2. CASE Talking
    <3>1. Talking'
      BY <1>1, <2>1, <2>2 DEF Talking, Older
    <3>2. still_alive' >= StillAlive - 1
      BY <1>1, <1>5, <2>2 DEF Second, AliveNow
    <3> QED
      BY <3>1, <3>2 DEF CounterInv
  <2>3. CASE ~Talking
    <3>1. bms_reset_status' # "WAITING_FOR_PAUSE"
      BY <2>1, <2>3 DEF PowerInv
    <3>2. still_alive' = IF still_alive = 0 THEN 0 ELSE still_alive - 1
      BY <1>5, <2>3 DEF Second, AliveNow
    <3>3. still_alive + lastCanKeepaliveTime >= StillAlive - 1
            => still_alive' + lastCanKeepaliveTime' >= StillAlive - 1
      BY <1>1, <2>1, <3>2 DEF Older
    <3> QED
      BY <2>1, <2>3, <3>1, <3>3 DEF CounterInv, needs_can_keepalive
  <2> QED
    BY <2>2, <2>3
<1>6. CASE BeginPass \/ SkipPass \/ EquipmentStop \/ BatteryChanges \/ UNCHANGED vars
  <2>1. /\ UNCHANGED <<bms_reset_status, bms_power, bmsPowerOnTime, begun_full,
                       still_alive, lastCanKeepaliveTime>>
        /\ passed' = "ran" => passed = "ran"
    BY <1>6 DEF BeginPass, SkipPass, EquipmentStop, BatteryChanges, vars, stamps, history
  <2> QED
    BY <2>1 DEF CounterInv, Talking, needs_can_keepalive
<1> QED
  BY <1>3, <1>4, <1>5, <1>6 DEF ResetNext

LEMMA ResetKeeps ==
  ASSUME ResetIInv, [ResetNext]_vars
  PROVE  /\ ResetIInv'
         /\ ~bms_power /\ bms_power' /\ clock # "stale" => off_for >= Duration
         /\ ~missing_event /\ missing_event'
              => ~needs_can_keepalive \/ passed = "skipped" \/ ~begun_full
<1>1. ResetIInv' /\ (~bms_power /\ bms_power' /\ clock # "stale" => off_for >= Duration)
  BY ResetTypeKeeps, PowerKeeps, CounterKeeps DEF ResetIInv
<1>2. ~missing_event /\ missing_event'
        => ~needs_can_keepalive \/ passed = "skipped" \/ ~begun_full
  <2>1. CASE Second
    <3>1. missing_event' = (AliveNow = 0) /\ passed # "no"
      BY <2>1 DEF Second
    <3>2. /\ StillAlive \in 2..Horizon /\ Horizon \in Nat /\ still_alive \in 0..StillAlive
          /\ passed \in {"no", "skipped", "ran"}
      BY TimesTyped DEF ResetIInv, ResetTypeOK
    <3>3. needs_can_keepalive /\ passed = "ran" /\ begun_full => AliveNow # 0
      BY <3>2 DEF ResetIInv, CounterInv, AliveNow
    <3> QED
      BY <3>1, <3>2, <3>3
  <2>2. CASE ~Second
    <3>1. missing_event' = missing_event
      BY <2>2 DEF ResetNext, BeginPass, SkipPass, handle_BMSpower, RemoteStart, EquipmentStop,
                  BatteryChanges, vars
    <3> QED
      BY <3>1
  <2> QED
    BY <2>1, <2>2
<1> QED
  BY <1>1, <1>2

LEMMA ResetInvariant == ResetSpec => []ResetIInv
<1>1. ResetIInv /\ [ResetNext]_vars => ResetIInv'
  BY ResetKeeps
<1> QED
  BY ResetStarts, <1>1, PTL DEF ResetSpec

\* The type invariant of the power cycle, with the wrapped differences of a start that
\* overtakes the pass in progress.
THEOREM ResetTyped == ResetSpec => []ResetTypeOK
<1>1. ResetIInv => ResetTypeOK
  BY DEF ResetIInv
<1> QED
  BY <1>1, ResetInvariant, PTL

\* Power that was cut comes back only after the configured time, unless a remote start
\* overtook the clock of the pass.
THEOREM StaysOff == ResetSpec => OffLongEnough
<1>1. ResetIInv /\ [ResetNext]_vars
        => [~bms_power /\ bms_power' /\ clock # "stale" => off_for >= Duration]_vars
  BY ResetKeeps
<1> QED
  BY <1>1, ResetInvariant, PTL DEF ResetSpec, OffLongEnough

\* A long reset that begins with a BMS that was heard raises no missing battery, for
\* every length of the reset, the warm-up and the liveness window.
THEOREM KeptAlive == ResetSpec => AliveDuringReset
<1>1. ResetIInv /\ [ResetNext]_vars
        => [~missing_event /\ missing_event'
              => ~needs_can_keepalive \/ passed = "skipped" \/ ~begun_full]_vars
  BY ResetKeeps
<1> QED
  BY <1>1, ResetInvariant, PTL DEF ResetSpec, AliveDuringReset

-----------------------------------------------------------------------------
(* The diagnostic layer. *)

ScanType == [pending : Pids \union {NoPid}, next : Pids \union {NoPid},
             index : 0..(ScanLength - 1), retries : 0..PidMaxRetries]

\* What is left of the pause reaches to the end of the quiet after a reset.
PauseCovers == since_reset + seq_pause_ticks >= PostResetPause

UdsInv == UdsTypeOK /\ StepHasDeadline /\ OneRequest /\ PauseCovers

Levels == {SequencePriority, PidScanPriority, CustomPriority}

LEMMA NumbersTyped ==
  /\ StepTimeout \in Nat \ {0} /\ PidTimeout \in Nat \ {0} /\ ScanLength \in Nat \ {0}
  /\ PostResetPause \in Nat \ {0} /\ MaxRetries \in Nat /\ PidMaxRetries \in Nat
  /\ Backoff \in Nat /\ Backoff >= PostResetPause
  BY UdsAssumption

LEMMA AdvancedTyped ==
  ASSUME NEW s \in ScanType
  PROVE  Advanced(s) \in ScanType /\ Advanced(s).pending = NoPid
<1>1. (s.index + 1) % ScanLength \in 0..(ScanLength - 1)
  BY NumbersTyped DEF ScanType
<1>2. 0 \in 0..PidMaxRetries
  BY NumbersTyped
<1> QED
  BY <1>1, <1>2 DEF ScanType, Advanced

LEMMA PidTimedOutTyped ==
  ASSUME NEW s \in ScanType
  PROVE  PidTimedOut(s) \in ScanType
<1>1. CASE s.retries + 1 < PidMaxRetries
  BY <1>1, NumbersTyped DEF ScanType, PidTimedOut
<1>2. CASE ~(s.retries + 1 < PidMaxRetries)
  BY <1>2, AdvancedTyped DEF PidTimedOut
<1> QED
  BY <1>1, <1>2

LEMMA UdsStarts == UdsInit => UdsInv
<1> SUFFICES ASSUME UdsInit PROVE UdsInv
  OBVIOUS
<1>1. scan \in ScanType
  BY NumbersTyped DEF UdsInit, ScanType
<1>2. /\ seq_retries \in 0..MaxRetries /\ uds_transaction_timeout \in Nat
      /\ seq_pause_ticks \in Nat /\ since_reset \in 0..PostResetPause /\ assembling \in 0..2
  BY NumbersTyped DEF UdsInit
<1>3. UdsTypeOK
  <2>1. scan \in [pending : Pids \union {NoPid}, next : Pids \union {NoPid},
                 index : 0..(ScanLength - 1), retries : 0..PidMaxRetries]
    BY <1>1 DEF ScanType
  <2>2. /\ seq_state = "IDLE" /\ pending_seq_state = "IDLE" /\ responder = "none"
        /\ identified = FALSE /\ seq_pause_level = PidScanPriority
    BY DEF UdsInit
  <2> QED
    BY <1>2, <2>1, <2>2 DEF UdsTypeOK
<1> QED
  BY <1>3, NumbersTyped DEF UdsInit, UdsInv, StepHasDeadline, OneRequest, PauseCovers

\* A step that is sent has a deadline and the bus to itself, and the pause is over.
LEMMA SendKeeps ==
  ASSUME UdsInv, NEW step \in Steps, NEW s \in ScanType, NEW ticks \in Nat,
         send_sequence_message(step, s, ticks)
  PROVE  /\ seq_state' \in Steps \union {"IDLE"} /\ seq_retries' \in 0..MaxRetries
         /\ uds_transaction_timeout' \in Nat
         /\ seq_state' # "IDLE" =>
              /\ seq_state' = step /\ uds_transaction_timeout' > 0
              /\ s.pending = NoPid /\ ticks = 0
         /\ s.pending = NoPid /\ ticks = 0 => seq_state' = step
<1>1. seq_pause_level \in Nat /\ SequencePriority = 0 /\ seq_retries \in 0..MaxRetries
  BY DEF UdsInv, UdsTypeOK, SequencePriority, PidScanPriority, CustomPriority
<1>2. step # "IDLE"
  BY DEF Steps
<1>3. Paused(SequencePriority, ticks) <=> ticks # 0
  BY <1>1 DEF Paused
<1>4. CASE s.pending = NoPid /\ ~Paused(SequencePriority, ticks)
  BY <1>2, <1>3, <1>4, NumbersTyped DEF send_sequence_message
<1>5. CASE ~(s.pending = NoPid /\ ~Paused(SequencePriority, ticks))
  BY <1>1, <1>3, <1>5 DEF send_sequence_message
<1> QED
  BY <1>4, <1>5

\* What happens on a free bus.
LEMMA FreeBusKeeps ==
  ASSUME UdsInv, NEW s \in ScanType, NEW ticks \in Nat, FreeBus(s, ticks)
  PROVE  /\ seq_state' \in Steps \union {"IDLE"} /\ seq_retries' \in 0..MaxRetries
         /\ pending_seq_state' \in Starts \union {"IDLE"}
         /\ scan' \in ScanType /\ uds_transaction_timeout' \in Nat
         /\ StepHasDeadline' /\ OneRequest'
         /\ seq_state' # "IDLE" => ticks = 0
         /\ pending_seq_state # "IDLE" /\ pending_seq_state' = "IDLE"
              => seq_state' = FirstStep(pending_seq_state) \/ scan'.pending # NoPid
<1>1. /\ seq_retries \in 0..MaxRetries /\ pending_seq_state \in Starts \union {"IDLE"}
  BY DEF UdsInv, UdsTypeOK
<1>2. CASE StartQueued(s, ticks)
  <2>1. FirstStep(pending_seq_state) \in Steps
    BY DEF FirstStep, Steps
  <2>2. send_sequence_message(FirstStep(pending_seq_state), s, ticks)
        /\ ticks = 0 /\ scan' = s /\ pending_seq_state' = "IDLE"
    BY <1>2 DEF StartQueued
  <2> QED
    BY <2>1, <2>2, SendKeeps DEF StepHasDeadline, OneRequest
<1>3. CASE ScanNext(s, ticks)
  <2> DEFINE pid == IF s.next = NoPid THEN s.index + 1 ELSE s.next
  <2>1. pid \in Pids
    BY NumbersTyped DEF ScanType, Pids, NoPid
  <2>2. scan' = [s EXCEPT !.next = pid, !.pending = pid]
    BY <1>3 DEF ScanNext
  <2>3. scan' \in ScanType
    BY <2>1, <2>2 DEF ScanType
  <2> QED
    BY <1>1, <1>3, <2>3, NumbersTyped DEF ScanNext, StepHasDeadline, OneRequest
<1>4. CASE SendNothing(s, ticks)
  BY <1>1, <1>4 DEF SendNothing, StepHasDeadline, OneRequest
<1>5. CASE /\ seq_state' = "IDLE" /\ uds_transaction_timeout' = 0 /\ scan' = s
           /\ UNCHANGED <<seq_retries, pending_seq_state>>
  BY <1>1, <1>5 DEF StepHasDeadline, OneRequest
<1> QED
  BY <1>2, <1>3, <1>4, <1>5 DEF FreeBus

LEMMA TickKeeps ==
  ASSUME UdsInv, transmit_uds_can
  PROVE  /\ UdsInv'
         /\ seq_state' # "IDLE" /\ seq_state' # seq_state => since_reset' >= PostResetPause
         /\ pending_seq_state # "IDLE" /\ pending_seq_state' = "IDLE"
              => seq_state' = FirstStep(pending_seq_state) \/ scan'.pending # NoPid
<1> DEFINE ticks == IF seq_pause_ticks > 0 THEN seq_pause_ticks - 1 ELSE 0
           expired == uds_transaction_timeout = 1 /\ seq_state = "IDLE" /\ scan.pending # NoPid
           s == IF expired THEN PidTimedOut(scan) ELSE scan
<1>1. /\ UdsTypeOK /\ scan \in ScanType /\ seq_pause_ticks \in Nat
      /\ since_reset \in 0..PostResetPause /\ uds_transaction_timeout \in Nat
      /\ seq_retries \in 0..MaxRetries /\ seq_pause_level \in Levels
      /\ assembling \in 0..2
  BY DEF UdsInv, UdsTypeOK, ScanType, Levels
<1>2. /\ seq_pause_ticks' = ticks /\ ticks \in Nat
      /\ since_reset' = IF since_reset < PostResetPause THEN since_reset + 1 ELSE since_reset
      /\ assembling' \in 0..2 /\ responder' \in Addresses \union {"none"}
      /\ seq_pause_level' = seq_pause_level /\ identified' = identified
  BY <1>1 DEF transmit_uds_can, UdsTypeOK
<1>3. /\ since_reset' \in 0..PostResetPause /\ PauseCovers'
      /\ ticks = 0 => since_reset' >= PostResetPause
  BY <1>1, <1>2, NumbersTyped DEF UdsInv, PauseCovers
<1>4. s \in ScanType
  BY <1>1, PidTimedOutTyped
<1>5. /\ seq_state' \in Steps \union {"IDLE"} /\ seq_retries' \in 0..MaxRetries
      /\ pending_seq_state' \in Starts \union {"IDLE"}
      /\ scan' \in ScanType /\ uds_transaction_timeout' \in Nat
      /\ StepHasDeadline' /\ OneRequest'
      /\ seq_state' # "IDLE" /\ seq_state' # seq_state => ticks = 0
      /\ pending_seq_state # "IDLE" /\ pending_seq_state' = "IDLE"
           => seq_state' = FirstStep(pending_seq_state) \/ scan'.pending # NoPid
  <2>1. CASE /\ InFlight
             /\ uds_transaction_timeout' =
                  IF uds_transaction_timeout > 0 THEN uds_transaction_timeout - 1 ELSE 0
             /\ UNCHANGED <<seq_state, seq_retries, pending_seq_state, scan>>
    BY <1>1, <2>1 DEF InFlight, UdsInv, UdsTypeOK, StepHasDeadline, OneRequest
  <2>2. CASE RetryStep(ticks) /\ UNCHANGED <<pending_seq_state, scan>>
    BY <1>1, <2>2, NumbersTyped DEF RetryStep, UdsInv, UdsTypeOK, StepHasDeadline, OneRequest
  <2>3. CASE FreeBus(s, ticks)
    BY <1>2, <1>4, <2>3, FreeBusKeeps
  <2> QED
    BY <2>1, <2>2, <2>3 DEF transmit_uds_can
<1>6. UdsTypeOK'
  BY <1>1, <1>2, <1>3, <1>5 DEF UdsTypeOK, ScanType, Levels
<1> QED
  BY <1>3, <1>5, <1>6 DEF UdsInv

LEMMA AnswerKeeps ==
  ASSUME UdsInv, NEW from \in Addresses, Answer(from)
  PROVE  /\ UdsInv'
         /\ seq_state' # "IDLE" /\ seq_state' # seq_state => since_reset' >= PostResetPause
<1>1. /\ UdsTypeOK /\ scan \in ScanType /\ seq_pause_ticks \in Nat
      /\ since_reset \in 0..PostResetPause
      /\ seq_retries \in 0..MaxRetries /\ seq_pause_level \in Levels
  BY DEF UdsInv, UdsTypeOK, ScanType, Levels
<1>2. assembling' \in 0..2 /\ responder' \in Addresses \union {"none"}
      /\ UNCHANGED <<pending_seq_state, identified>>
  BY DEF Answer
<1>3. CASE seq_state # "IDLE" /\ StepAnswered /\ UNCHANGED scan
  <2>1. /\ seq_pause_ticks' \in Nat /\ seq_pause_level' \in Levels
        /\ since_reset' \in 0..PostResetPause /\ PauseCovers'
    BY <1>1, <1>3, NumbersTyped DEF StepAnswered, UdsInv, PauseCovers, Levels
  <2>2. /\ seq_state' \in Steps \union {"IDLE"} /\ seq_retries' \in 0..MaxRetries
        /\ uds_transaction_timeout' \in Nat /\ StepHasDeadline' /\ OneRequest'
        /\ seq_state' # "IDLE" => since_reset' >= PostResetPause
    <3>1. CASE seq_state = "RESET_DIAG"
      <4>1. /\ send_sequence_message("RESET_SEND", scan, seq_pause_ticks)
            /\ since_reset' = since_reset
        BY <1>3, <3>1 DEF StepAnswered
      <4>2. "RESET_SEND" \in Steps
        BY DEF Steps
      <4> QED
        BY <1>1, <1>3, <4>1, <4>2, SendKeeps, NumbersTyped
           DEF StepHasDeadline, OneRequest, UdsInv, PauseCovers
    <3>2. CASE seq_state # "RESET_DIAG"
      BY <1>1, <1>3, <3>2 DEF StepAnswered, StepHasDeadline, OneRequest
    <3> QED
      BY <3>1, <3>2
  <2>3. UdsTypeOK'
    BY <1>1, <1>2, <1>3, <2>1, <2>2 DEF UdsTypeOK, ScanType, Levels
  <2> QED
    BY <2>1, <2>2, <2>3 DEF UdsInv
<1>4. CASE /\ seq_state = "IDLE" /\ scan.pending # NoPid /\ PidAnswered
           /\ uds_transaction_timeout' = 0
           /\ UNCHANGED <<seq_state, seq_retries, seq_pause_ticks, seq_pause_level, since_reset>>
  <2>1. scan' \in ScanType
    <3>1. Advanced(scan) \in ScanType
      BY <1>1, AdvancedTyped
    <3>2. [scan EXCEPT !.pending = NoPid, !.next = scan.pending, !.retries = 0] \in ScanType
      <4>1. scan.pending \in Pids \union {NoPid} /\ 0 \in 0..PidMaxRetries
        BY <1>1, NumbersTyped DEF ScanType
      <4> QED
        BY <1>1, <4>1 DEF ScanType
    <3>3. [pending |-> NoPid, next |-> 1, index |-> 0, retries |-> 0] \in ScanType
      BY NumbersTyped DEF ScanType, Pids
    <3> QED
      BY <1>4, <3>1, <3>2, <3>3 DEF PidAnswered
  <2>2. UdsTypeOK'
    BY <1>1, <1>2, <1>4, <2>1 DEF UdsTypeOK, ScanType
  <2> QED
    BY <1>4, <2>2 DEF UdsInv, StepHasDeadline, OneRequest, PauseCovers
<1> QED
  BY <1>3, <1>4 DEF Answer

\* Everything else sends nothing and leaves the queue as it is or fills it.
LEMMA OthersKeep ==
  ASSUME UdsInv,
         \/ \E from \in Addresses : StillWorking(from) \/ Stray(from) \/ Part(from)
         \/ ExternalTool \/ Identify \/ \E start \in Starts : start_sequence(start)
         \/ UNCHANGED uvars
  PROVE  /\ UdsInv' /\ seq_state' = seq_state
         /\ pending_seq_state' # "IDLE" \/ pending_seq_state' = pending_seq_state
<1>1. CASE \E from \in Addresses : StillWorking(from)
  BY <1>1, NumbersTyped
     DEF StillWorking, UdsInv, UdsTypeOK, StepHasDeadline, OneRequest, PauseCovers
<1>2. CASE \E from \in Addresses : Stray(from) \/ Part(from)
  BY <1>2 DEF Stray, Part, UdsInv, UdsTypeOK, StepHasDeadline, OneRequest, PauseCovers
<1>3. CASE ExternalTool
  BY <1>3, NumbersTyped
     DEF ExternalTool, UdsInv, UdsTypeOK, StepHasDeadline, OneRequest, PauseCovers
<1>4. CASE Identify
  <2>1. scan' \in ScanType /\ scan'.pending = NoPid
    <3>1. scan \in ScanType /\ 0 \in 0..(ScanLength - 1)
      BY NumbersTyped DEF UdsInv, UdsTypeOK, ScanType
    <3>2. scan' = [scan EXCEPT !.pending = NoPid, !.next = NoPid, !.index = 0]
      BY <1>4 DEF Identify
    <3> QED
      BY <3>1, <3>2 DEF ScanType
  <2>2. UdsTypeOK'
    BY <1>4, <2>1 DEF Identify, UdsInv, UdsTypeOK, ScanType, Addresses
  <2> QED
    BY <1>4, <2>1, <2>2 DEF Identify, UdsInv, StepHasDeadline, OneRequest, PauseCovers
<1>5. CASE \E start \in Starts : start_sequence(start)
  BY <1>5 DEF start_sequence, Starts, UdsInv, UdsTypeOK, StepHasDeadline, OneRequest, PauseCovers
<1>6. CASE UNCHANGED uvars
  BY <1>6 DEF uvars, UdsInv, UdsTypeOK, StepHasDeadline, OneRequest, PauseCovers
<1> QED
  BY <1>1, <1>2, <1>3, <1>4, <1>5, <1>6

LEMMA UdsKeeps ==
  ASSUME UdsInv, [UdsNext]_uvars
  PROVE  /\ UdsInv'
         /\ seq_state' # "IDLE" /\ seq_state' # seq_state => since_reset' >= PostResetPause
         /\ pending_seq_state # "IDLE" /\ pending_seq_state' = "IDLE"
              => seq_state' = FirstStep(pending_seq_state) \/ scan'.pending # NoPid
<1>1. CASE transmit_uds_can
  BY <1>1, TickKeeps
<1>2. CASE \E from \in Addresses : Answer(from)
  <2>1. pending_seq_state' = pending_seq_state
    BY <1>2 DEF Answer
  <2> QED
    BY <1>2, <2>1, AnswerKeeps
<1>3. CASE \/ \E from \in Addresses : StillWorking(from) \/ Stray(from) \/ Part(from)
           \/ ExternalTool \/ Identify \/ \E start \in Starts : start_sequence(start)
           \/ UNCHANGED uvars
  BY <1>3, OthersKeep
<1> QED
  BY <1>1, <1>2, <1>3 DEF UdsNext, UdsFrames

-----------------------------------------------------------------------------
LEMMA UdsInvariant == UdsSpec => []UdsInv
<1>1. UdsInv /\ [UdsNext]_uvars => UdsInv'
  BY UdsKeeps
<1> QED
  BY UdsStarts, <1>1, PTL DEF UdsSpec

\* The type invariant of the diagnostic layer.
THEOREM UdsTyped == UdsSpec => []UdsTypeOK
<1>1. UdsInv => UdsTypeOK
  BY DEF UdsInv
<1> QED
  BY <1>1, UdsInvariant, PTL

\* A step in flight always has a deadline.
THEOREM StepsHaveDeadlines == UdsSpec => []StepHasDeadline
<1>1. UdsInv => StepHasDeadline
  BY DEF UdsInv
<1> QED
  BY <1>1, UdsInvariant, PTL

\* A step and a PID request are never in flight at once.
THEOREM OneAtATime == UdsSpec => []OneRequest
<1>1. UdsInv => OneRequest
  BY DEF UdsInv
<1> QED
  BY <1>1, UdsInvariant, PTL

\* After an answered reset the BMS gets no step for the whole pause.
THEOREM ResetsKeepApart == UdsSpec => ResetsApart
<1>1. UdsInv /\ [UdsNext]_uvars =>
        [seq_state' # "IDLE" /\ seq_state' # seq_state => since_reset' >= PostResetPause]_uvars
  BY UdsKeeps
<1> QED
  BY <1>1, UdsInvariant, PTL DEF UdsSpec, ResetsApart

\* A sequence that leaves the queue is begun, or a PID request is in its way.
THEOREM QueuedIsSent == UdsSpec => TakenIsSent
<1>1. UdsInv /\ [UdsNext]_uvars =>
        [pending_seq_state # "IDLE" /\ pending_seq_state' = "IDLE"
           => seq_state' = FirstStep(pending_seq_state) \/ scan'.pending # NoPid]_uvars
  BY UdsKeeps
<1> QED
  BY <1>1, UdsInvariant, PTL DEF UdsSpec, TakenIsSent

-----------------------------------------------------------------------------
(* Both: an installation uses one of them, and the other stands still. *)

\* What is proved of either holds of an installation.
THEOREM ResetsAreEither == ResetsSpec => ResetSpec /\ UdsSpec
<1>1. ResetsInit => ResetInit /\ UdsInit
  BY DEF ResetsInit
<1>2. [ResetsNext]_rvars => [ResetNext]_vars /\ [UdsNext]_uvars
  BY DEF ResetsNext, ByPower, ByDiagnostics, rvars
<1> QED
  BY <1>1, <1>2, PTL DEF ResetsSpec, ResetSpec, UdsSpec

\* Neither reset leaves its states, and no diagnostic step is without a deadline or
\* on the bus with a second request.
THEOREM ResetsSafe == ResetsSpec => []ResetsInv
<1>1. ResetIInv /\ UdsInv => ResetsInv
  BY DEF ResetIInv, UdsInv, ResetsInv
<1> QED
  BY <1>1, ResetsAreEither, ResetInvariant, UdsInvariant, PTL
=============================================================================
