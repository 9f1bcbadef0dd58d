------------------------------ MODULE Limits ------------------------------
(***************************************************************************)
(* The power the inverter is allowed, from what the packs report to what   *)
(* the inverter reads: one pass of core_loop()'s one-second work.  Charge  *)
(* and discharge are limited by the same pass and do not meet: a behaviour *)
(* follows one of them, the variable direction.  Currents are left out:    *)
(* they are the powers at the voltage of the link, and so is the user's    *)
(* current limit, here a power.                                            *)
(*                                                                         *)
(* A reading's cells: "ceiling" (a cell at its maximum), "band" (within    *)
(* CELL_HYSTERESIS_MV below it), "ok", "floor" (a cell at its minimum) or  *)
(* "dead" (a cell below what a recovery charge may start from).            *)
(*                                                                         *)
(* Events and callers of other tasks change the system status and the      *)
(* pause during a pass too.  The unprimed variables are what holds up to   *)
(* the two decisions that read them first (the packs that join, and the    *)
(* stop of update_machineryprotection()); what is read after those reads   *)
(* the primed ones.                                                        *)
(***************************************************************************)
EXTENDS ParallelSafety

CONSTANTS
  MaxDesign, MinDesign,   \* the voltages a pack is designed for
  UserLimits,             \* user_set_voltage_limits_active
  UserTarget,             \* [direction -> the voltage the user stops at]
  Hysteresis,             \* HYSTERESIS_OFFSET_DV
  Cap,                    \* the user's current limit, as a power
  TaperBand,              \* charge_taper_band_pptt; 0 if the taper is off
  TaperFloor,             \* charge_taper_floor_W
  LowPass,                \* inverter_low_pass_filter
  FilterPercent,          \* the share of the new value in the filter (10)
  RecoveryPower,          \* MAX_CHARGEPOWER_RECOVERY_CHARGE_DA, as a power
  RecoveryTime            \* recovery_charge_max_time_ms in passes

Directions == {"charge", "discharge"}

ASSUME LimitsAssumption ==
  /\ \A r \in Readings \union {PowerOn} :
       r.watts \in Nat /\ r.cells \in {"ceiling", "band", "ok", "floor", "dead"}
  /\ MaxDesign \in Nat /\ MinDesign \in Nat /\ Hysteresis \in Nat
  /\ UserLimits \in BOOLEAN /\ UserTarget \in [Directions -> Nat]
  /\ Cap \in Nat /\ TaperBand \in 0..FullSoc /\ TaperFloor \in Nat
  /\ LowPass \in BOOLEAN /\ FilterPercent \in 1..100
  /\ RecoveryPower \in Nat /\ RecoveryTime \in Nat

VARIABLES
  direction,
  emulator_pause_request_ON,
  cell_blocked,   \* the packs whose charge latch of check_cell_voltages() is set
  user_blocked,   \* the latch of the user's voltage limit
  filtered,       \* the state of the low pass filter, Unset before its first pass
  recovery,       \* user_requests_forced_charging_recovery_mode
  recovered,      \* the passes since the recovery charge started
  limit           \* aggregate.max_charge_power_W, or max_discharge_power_W

requests == <<direction, emulator_pause_request_ON>>
latches == <<cell_blocked, user_blocked>>
lvars == <<packVars, requests, latches, filtered, recovery, recovered, limit>>

Unset == -1

LimitsTypeOK ==
  /\ PacksTypeOK
  /\ direction \in Directions /\ emulator_pause_request_ON \in BOOLEAN
  /\ cell_blocked \subseteq Packs /\ user_blocked \in BOOLEAN
  /\ filtered \in Unset..Cap
  /\ recovery \in BOOLEAN /\ recovered \in 0..RecoveryTime
  /\ limit \in 0..Cap

LimitsInit ==
  /\ PacksInit
  /\ direction \in Directions /\ emulator_pause_request_ON = FALSE
  /\ cell_blocked = {} /\ user_blocked = FALSE
  /\ filtered = Unset /\ recovery = FALSE /\ recovered = 0 /\ limit = 0

-----------------------------------------------------------------------------
(* update_machineryprotection() *)

Charging == direction = "charge"

\* The extra packs are looked at only once they are heard.
Looked(p) == p = 1 \/ p \in detected'

AtVoltageLimit(p) ==
  IF Charging THEN reading[p].voltage > MaxDesign ELSE reading[p].voltage < MinDesign

CellLatched(p) ==
  IF Looked(p)
  THEN reading[p].cells = "ceiling" \/ (reading[p].cells = "band" /\ p \in cell_blocked)
  ELSE p \in cell_blocked

AtCellLimit(p) ==
  IF Charging THEN p \in cell_blocked' ELSE reading[p].cells \in {"floor", "dead"}

PackWatts(p) == IF AtVoltageLimit(p) \/ AtCellLimit(p) THEN 0 ELSE reading[p].watts

ExtraWatts(p) ==
  CASE emulator_pause_request_ON' -> 0
    [] ~emulator_pause_request_ON' /\ Looked(p) -> PackWatts(p)
    [] OTHER -> reading[p].watts

UserWatches == UserLimits /\ reading[1].voltage > 0

UserLatched ==
  LET v == reading[1].voltage
      target == UserTarget[direction]
      reached == IF Charging THEN v >= target ELSE v <= target
      left == IF Charging THEN v < target - Hysteresis ELSE v > target + Hysteresis
  IN  IF UserWatches THEN reached \/ (user_blocked /\ ~left) ELSE user_blocked

\* Full, or empty: by the state of charge, or by the word of a BMS on the link.
Done ==
  LET end == IF Charging THEN FullSoc ELSE 0
  IN  /\ Charging \/ system_status' = "ACTIVE"
      /\ \/ RealSoc = end \/ ReportedSoc = end
         \/ \E p \in OnLink : reading[p].done

Stopped == emulator_pause_request_ON \/ system_status = "FAULT"

MainWatts ==
  IF Stopped \/ Done \/ (UserWatches /\ user_blocked') THEN 0 ELSE PackWatts(1)

RecoveryGoesOn ==
  /\ recovery /\ recovered < RecoveryTime
  /\ \A p \in {1} \union detected : reading[p].cells # "dead"

\* Mutant: every pass is the first one.
RecoveredStarts == 0

Recovered == IF RecoveryGoesOn THEN recovered + 1 ELSE 0

update_machineryprotection ==
  /\ detected' = detected \union {p \in Extra : reading[p] # PowerOn}
  /\ cell_blocked' = {p \in Packs : CellLatched(p)}
  /\ user_blocked' = UserLatched
  /\ recovery' = RecoveryGoesOn
  /\ recovered' = Recovered

-----------------------------------------------------------------------------
(* filter_charge_taper_soc(), filter_inverter_limits(), *)
(* update_aggregate_limits(): each works on what the one before it left   *)

\* Mutant: the float charge of the taper is for every state of charge.
TaperedFloats(watts) ==
  LET headroom == FullSoc - ReportedSoc
  IN  IF ~Charging \/ headroom > TaperBand \/ TaperBand = 0 THEN watts
      ELSE Higher((Lower(watts, Cap) * headroom) \div TaperBand, TaperFloor)

Tapered(watts) ==
  LET headroom == FullSoc - ReportedSoc
      base == Lower(watts, Cap)
      share == (base * headroom) \div TaperBand
  IN  CASE ~Charging \/ TaperBand = 0 -> watts
        [] Charging /\ TaperBand > 0 /\ headroom > TaperBand -> watts
        [] OTHER -> IF base > 0 /\ headroom > 0 THEN Higher(share, TaperFloor) ELSE share

Blend(new, old) == (new * FilterPercent + old * (100 - FilterPercent)) \div 100

\* What the filter is fed.
FilterInput == Lower(Tapered(MainWatts), Cap)

Filtered ==
  IF filtered = Unset \/ FilterInput <= filtered THEN FilterInput
  ELSE Blend(FilterInput, filtered)

Main == IF LowPass THEN filtered' ELSE Tapered(MainWatts)

\* Mutant: the inverter is told the limit of the main pack.
LinkLimitOfMain == Lower(Main, Cap)

LinkLimit ==
  LET main == Lower(Main, Cap)
  IN  Lower(main, Lower(IfJoined(2, ExtraWatts(2), main), IfJoined(3, ExtraWatts(3), main)))

Recovers == Charging /\ recovery' /\ ~emulator_pause_request_ON'

update_aggregate_limits ==
  limit' = IF Recovers THEN Lower(RecoveryPower, Cap) ELSE LinkLimit

\* One pass.  The drivers' update_values() publish the readings first; its own
\* checks, and other tasks, set and clear events while it goes on.
Pass ==
  /\ check_parallel_battery_safety
  /\ update_machineryprotection
  /\ system_status' \in SystemStatus /\ emulator_pause_request_ON' \in BOOLEAN
  /\ filtered' = IF LowPass THEN Filtered ELSE filtered
  /\ update_aggregate_limits
  /\ UNCHANGED <<reading, direction>>

Others == UNCHANGED <<direction, latches, filtered, recovered, limit>>

PauseChanges ==
  /\ emulator_pause_request_ON' = ~emulator_pause_request_ON
  /\ UNCHANGED <<packVars, recovery>> /\ Others

\* The web server's updateUseRecoveryMode.
RequestRecovery ==
  /\ Charging /\ recovery' = ~recovery
  /\ UNCHANGED <<packVars, emulator_pause_request_ON>> /\ Others

PacksMove ==
  /\ (\E p \in Packs : Report(p)) \/ StatusChanges
  /\ UNCHANGED <<emulator_pause_request_ON, recovery>> /\ Others

LimitsNext == Pass \/ PacksMove \/ PauseChanges \/ RequestRecovery

LimitsSpec == LimitsInit /\ [][LimitsNext]_lvars /\ WF_lvars(Pass)

-----------------------------------------------------------------------------
(* Properties *)

\* "Pause function is on OR we have a critical fault event active": where that is
\* found, the limit is 0 when the pass ends, no filter, extra pack or later event
\* on the way to the inverter brings the power back.  A fault lets the recovery
\* charge pass, as the code means it to, and so does a pause that ends within the
\* pass.  A fault raised later in the pass is found by the next.
StopReachesInverter ==
  [][limit' # 0 /\ Pass =>
       /\ emulator_pause_request_ON => recovery' /\ ~emulator_pause_request_ON'
       /\ system_status = "FAULT" => recovery']_lvars

\* The inverter is never allowed more than a pack of the link takes by its own
\* BMS, whichever pack it is; but for the floor of the taper, which stands in
\* for an allowance of the main pack that is not 0, and the recovery charge,
\* which is never given to a pack with a dead cell.
PacksRespected ==
  [][limit' # 0 /\ Pass => \A p \in OnLink :
       \/ limit' <= reading[p].watts
       \/ Charging /\ p = 1 /\ reading[p].watts > 0 /\ limit' <= TaperFloor
       \/ recovery' /\ reading[p].cells # "dead"]_lvars

\* A cell at its maximum stops the charge of the whole installation until it is
\* well below: a pack of the link in the band, having been at the ceiling, keeps
\* it stopped (the latch is there to avoid chatter at the knee).
CeilingHolds ==
  [][limit' # 0 /\ Charging /\ ~recovery' /\ Pass =>
       \A p \in OnLink :
         /\ reading[p].cells # "ceiling"
         /\ reading[p].cells = "band" => p \notin cell_blocked]_lvars

\* "So that charging does stop, which reporting the emptiest pack alone would
\* never do": one full pack on the link ends the charge for all.
FullPackStops ==
  [][limit' # 0 /\ Charging /\ ~recovery' /\ Pass =>
       \A p \in OnLink : reading[p].soc < FullSoc]_lvars

\* The filter runs after the safeties, "otherwise a safety block release would
\* expose a filter state that never saw the zero, skipping the ramp entirely":
\* from 0 the limit rises by the filter's share.
Released ==
  LowPass /\ filtered # Unset /\ limit = 0 /\ ~recovery' /\ Pass

\* The zero of an extra pack is folded in after it, though.
InverterRamps == [][limit' > Blend(Cap, 0) => ~Released]_lvars

\* The integer arithmetic of the filter stops the ramp short of its goal by less
\* than a watt for each time the share goes into the whole (9 W at 10 %).
RampNeverStalls ==
  [][LowPass /\ filtered # Unset /\ filtered' <= filtered /\ Pass
       => FilterInput - filtered <= 99 \div FilterPercent]_lvars

\* A recovery charge ends, if only by its time, unless the user keeps asking.
RecoveryEnds == <>[][~RequestRecovery]_lvars => <>[]~recovery

\* A pack that stays out of sync, or a fault that stays, separates the packs;
\* as long as both voltages are read.
PackSeparated ==
  \A p \in Extra :
    <>[](Checked(p) /\ (~InSync(p) \/ system_status = "FAULT")) => <>[](p \notin joined)
=============================================================================
