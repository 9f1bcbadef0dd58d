---------------------------- MODULE LimitsProofs ----------------------------
(***************************************************************************)
(* For every set of readings, every setting of the taper, of the filter    *)
(* and of the caps: a stop reaches the inverter, no pack on the link is    *)
(* asked for more than it allows, a cell at its ceiling stops the charge,  *)
(* and the ramp of the filter does not stall.                              *)
(***************************************************************************)
EXTENDS Limits, TLAPS

LEMMA LimitsStart == LimitsInit => LimitsTypeOK
<1> SUFFICES ASSUME LimitsInit PROVE LimitsTypeOK
  OBVIOUS
<1>1. PacksTypeOK
  BY PacksAssumption DEF LimitsInit, PacksInit, PacksTypeOK, Packs, SystemStatus
<1>2. /\ filtered \in Unset..Cap /\ recovered \in 0..RecoveryTime /\ limit \in 0..Cap
      /\ cell_blocked \subseteq Packs /\ direction \in Directions
  BY LimitsAssumption DEF LimitsInit, Unset
<1>3. emulator_pause_request_ON \in BOOLEAN /\ user_blocked \in BOOLEAN /\ recovery \in BOOLEAN
  BY DEF LimitsInit
<1> QED
  BY <1>1, <1>2, <1>3 DEF LimitsTypeOK

-----------------------------------------------------------------------------
(* Arithmetic *)

\* A share of a quantity, by integer division, is at most the quantity.
LEMMA ShareBounded ==
  ASSUME NEW a \in Nat, NEW part \in Nat, NEW whole \in Nat \ {0}, part <= whole
  PROVE  (a * part) \div whole \in 0..a
<1>1. a * part \in Nat /\ a * part <= a * whole
  OBVIOUS
<1> QED
  BY <1>1

\* The blend of the filter lies between the old value and the new one.
LEMMA BlendBetween ==
  ASSUME NEW new \in Nat, NEW old \in Nat, old < new
  PROVE  Blend(new, old) \in old..new
<1>1. FilterPercent \in Nat /\ 1 <= FilterPercent /\ FilterPercent <= 100
  BY LimitsAssumption
<1> QED
  BY <1>1 DEF Blend

\* It moves as soon as the new value is far enough above the old one.
LEMMA BlendMoves ==
  ASSUME NEW new \in Nat, NEW old \in Nat, new - old > 99 \div FilterPercent
  PROVE  Blend(new, old) > old
<1>1. FilterPercent \in Nat /\ 1 <= FilterPercent /\ FilterPercent <= 100
  BY LimitsAssumption
<1>2. new - old \in Nat
  <2>1. 99 \div FilterPercent \in Nat
    BY <1>1
  <2> QED
    BY <2>1
<1>3. (new - old) * FilterPercent >= 100
  BY <1>1, <1>2
<1>4. new * FilterPercent + old * (100 - FilterPercent) = 100 * old + (new - old) * FilterPercent
  BY <1>1
<1>5. (new - old) * FilterPercent \in Nat /\ 100 * old \in Nat
  BY <1>1, <1>2
<1> QED
  BY <1>3, <1>4, <1>5 DEF Blend

-----------------------------------------------------------------------------
(* What a pass works out *)

\* A reading is one the assumptions speak of.
LEMMA ReadingsTyped ==
  ASSUME LimitsTypeOK, NEW p \in Packs
  PROVE  /\ reading[p].voltage \in Nat /\ reading[p].soc \in 0..FullSoc
         /\ reading[p].watts \in Nat
  BY PacksAssumption, LimitsAssumption DEF LimitsTypeOK, PacksTypeOK

LEMMA LinkOfPacks ==
  ASSUME LimitsTypeOK, check_parallel_battery_safety
  PROVE  /\ joined' \subseteq detected /\ OnLink \subseteq Packs
         /\ out_of_sync' \in [Extra -> 0..OutOfSyncLimit]
<1>1. joined' \subseteq detected
  BY DEF check_parallel_battery_safety, Joins, Checked, LimitsTypeOK, PacksTypeOK
<1>2. ASSUME NEW p \in Extra PROVE OutOfSyncFor(p) \in 0..OutOfSyncLimit
  BY PacksAssumption DEF OutOfSyncFor, Lower, LimitsTypeOK, PacksTypeOK
<1> QED
  BY <1>1, <1>2 DEF check_parallel_battery_safety, LimitsTypeOK, PacksTypeOK, OnLink, Packs

LEMMA RealSocBounded ==
  ASSUME LimitsTypeOK, check_parallel_battery_safety
  PROVE  /\ RealSoc \in 0..FullSoc
         /\ (\E p \in OnLink : reading[p].soc = FullSoc) => RealSoc = FullSoc
<1> DEFINE blend == Higher(HighestSoc - BlendStart, 0)
           spread == HighestSoc - LowestSoc
           top == FullSoc - BlendStart
<1>1. /\ 1 \in Packs /\ FullSoc \in Nat /\ BlendStart \in Nat /\ top \in Nat \ {0}
      /\ Extra \subseteq {2, 3}
  BY PacksAssumption DEF Packs
<1>2. \A p \in OnLink : reading[p].soc \in 0..FullSoc
  BY LinkOfPacks, ReadingsTyped
<1>3. /\ LowestSoc \in 0..FullSoc /\ HighestSoc \in 0..FullSoc /\ LowestSoc <= HighestSoc
      /\ (\E p \in OnLink : reading[p].soc = FullSoc) => HighestSoc = FullSoc
  <2>1. OnLink \subseteq {1, 2, 3} /\ joined' \subseteq {2, 3} /\ 1 \in OnLink
    BY <1>1, LinkOfPacks DEF OnLink, LimitsTypeOK, PacksTypeOK
  <2> QED
    BY <1>1, <1>2, <2>1 DEF LowestSoc, HighestSoc, IfJoined, Lower, Higher, OnLink
<1>4. blend \in Nat /\ blend <= top /\ spread \in Nat /\ spread <= FullSoc - LowestSoc
  BY <1>1, <1>3 DEF Higher
<1>5. (spread * blend) \div top \in 0..spread
  BY <1>1, <1>4, ShareBounded
<1>6. HighestSoc = FullSoc => (spread * blend) \div top = spread
  <2>1. HighestSoc = FullSoc => blend = top
    BY <1>1 DEF Higher
  <2>2. (spread * top) \div top = spread
    BY <1>1, <1>4
  <2> QED
    BY <2>1, <2>2
<1>7. RealSoc = LowestSoc + (spread * blend) \div top
  BY DEF RealSoc
<1> HIDE DEF blend, spread, top
<1>8. RealSoc \in 0..FullSoc
  BY <1>1, <1>3, <1>4, <1>5, <1>7
<1>9. HighestSoc = FullSoc => RealSoc = FullSoc
  BY <1>1, <1>3, <1>6, <1>7 DEF spread
<1> QED
  BY <1>3, <1>8, <1>9

LEMMA ReportedSocBounded ==
  ASSUME LimitsTypeOK, check_parallel_battery_safety
  PROVE  ReportedSoc \in 0..FullSoc
<1> DEFINE low == SocWindow[1]
           high == SocWindow[2]
           part == Lower(Higher(RealSoc, low), high) - low
<1>1. low \in Nat /\ high \in Nat /\ low <= high /\ FullSoc \in Nat /\ RealSoc \in 0..FullSoc
  BY PacksAssumption, RealSocBounded
<1>2. CASE low = high
  BY <1>1, <1>2 DEF ReportedSoc
<1>3. CASE low # high
  <2>1. part \in Nat /\ high - low \in Nat \ {0} /\ part <= high - low
    BY <1>1, <1>3 DEF Lower, Higher
  <2>2. (FullSoc * part) \div (high - low) \in 0..FullSoc
    BY <1>1, <2>1, ShareBounded
  <2> QED
    BY <1>3, <2>2 DEF ReportedSoc
<1> QED
  BY <1>2, <1>3

\* The taper lowers, but for its floor, and leaves a zero a zero.
LEMMA TaperBounded ==
  ASSUME LimitsTypeOK, check_parallel_battery_safety, NEW watts \in Nat
  PROVE  /\ Tapered(watts) \in Nat
         /\ \/ Tapered(watts) <= watts
            \/ Charging /\ watts > 0 /\ Tapered(watts) <= TaperFloor
<1> DEFINE headroom == FullSoc - ReportedSoc
           base == Lower(watts, Cap)
           share == (base * headroom) \div TaperBand
<1>1. headroom \in Nat /\ base \in Nat /\ base <= watts /\ TaperBand \in Nat /\ TaperFloor \in Nat
  BY ReportedSocBounded, PacksAssumption, LimitsAssumption DEF Lower
<1>2. CASE ~Charging \/ TaperBand = 0 \/ headroom > TaperBand
  BY <1>1, <1>2 DEF Tapered
<1>3. CASE Charging /\ TaperBand > 0 /\ headroom <= TaperBand
  <2>1. share \in 0..base
    BY <1>1, <1>3, ShareBounded
  <2>2. Tapered(watts) = IF base > 0 /\ headroom > 0 THEN Higher(share, TaperFloor) ELSE share
    BY <1>1, <1>3 DEF Tapered
  <2> QED
    BY <1>1, <1>3, <2>1, <2>2 DEF Higher
<1> QED
  BY <1>1, <1>2, <1>3

-----------------------------------------------------------------------------
(* One pass *)

LEMMA MainBounded ==
  ASSUME LimitsTypeOK
  PROVE  MainWatts \in Nat /\ MainWatts <= reading[1].watts
<1>1. reading[1].watts \in Nat
  BY ReadingsTyped DEF Packs
<1> QED
  BY <1>1 DEF MainWatts, PackWatts

LEMMA ExtraBounded ==
  ASSUME LimitsTypeOK, Pass, NEW p \in Packs
  PROVE  ExtraWatts(p) \in Nat /\ ExtraWatts(p) <= reading[p].watts
<1>1. reading[p].watts \in Nat /\ emulator_pause_request_ON' \in BOOLEAN
  BY ReadingsTyped DEF Pass
<1>2. PackWatts(p) \in Nat /\ PackWatts(p) <= reading[p].watts
  BY <1>1 DEF PackWatts
<1> QED
  BY <1>1, <1>2 DEF ExtraWatts

\* What the filters hand on: no more than the taper of what the main pack
\* allows, and so not more than the pack's own figure or the floor.
LEMMA FiltersBounded ==
  ASSUME LimitsTypeOK, Pass
  PROVE  /\ filtered' \in Unset..Cap /\ Main \in Nat /\ Main <= Tapered(MainWatts)
         /\ FilterInput \in 0..Cap
         /\ MainWatts = 0 => Main = 0
         /\ Main <= reading[1].watts \/ (Charging /\ reading[1].watts > 0 /\ Main <= TaperFloor)
<1>1. /\ MainWatts \in Nat /\ MainWatts <= reading[1].watts /\ Tapered(MainWatts) \in Nat
      /\ \/ Tapered(MainWatts) <= MainWatts
         \/ Charging /\ MainWatts > 0 /\ Tapered(MainWatts) <= TaperFloor
      /\ reading[1].watts \in Nat
  BY MainBounded, TaperBounded, ReadingsTyped DEF Pass, Packs
<1>2. Cap \in Nat /\ TaperFloor \in Nat /\ LowPass \in BOOLEAN
  BY LimitsAssumption
<1>3. FilterInput \in 0..Cap /\ FilterInput <= Tapered(MainWatts)
  BY <1>1, <1>2 DEF FilterInput, Lower
<1>4. Filtered \in 0..FilterInput
  <2>1. filtered \in Unset..Cap
    BY DEF LimitsTypeOK
  <2>2. CASE filtered = Unset \/ FilterInput <= filtered
    BY <1>3, <2>2 DEF Filtered
  <2>3. CASE filtered # Unset /\ ~(FilterInput <= filtered)
    <3>1. filtered \in Nat /\ FilterInput \in Nat /\ filtered < FilterInput
      BY <1>2, <1>3, <2>1, <2>3 DEF Unset
    <3> QED
      BY <2>3, <3>1, BlendBetween DEF Filtered
  <2> QED
    BY <2>2, <2>3
<1>5. filtered' = IF LowPass THEN Filtered ELSE filtered
  BY DEF Pass
<1>6. Main = IF LowPass THEN Filtered ELSE Tapered(MainWatts)
  BY <1>5 DEF Main
<1>7. Main \in Nat /\ Main <= Tapered(MainWatts)
  BY <1>1, <1>2, <1>3, <1>4, <1>6
<1>8. filtered' \in Unset..Cap
  BY <1>2, <1>3, <1>4, <1>5 DEF LimitsTypeOK, Unset
<1> QED
  BY <1>1, <1>2, <1>3, <1>7, <1>8

\* The limit of the link is below what every pack on it gives.
LEMMA LinkBounded ==
  ASSUME LimitsTypeOK, Pass
  PROVE  /\ LinkLimit \in 0..Cap /\ LinkLimit <= Main
         /\ \A p \in joined' : LinkLimit <= ExtraWatts(p)
<1> DEFINE main == Lower(Main, Cap)
<1>1. main \in 0..Cap /\ main <= Main /\ Main \in Nat /\ Cap \in Nat
  BY FiltersBounded, LimitsAssumption DEF Lower
<1>2. /\ joined' \subseteq {2, 3}
      /\ \A p \in joined' : ExtraWatts(p) \in Nat
  BY LinkOfPacks, ExtraBounded, PacksAssumption DEF Pass, OnLink, LimitsTypeOK, PacksTypeOK
<1>3. LinkLimit = Lower(main, Lower(IfJoined(2, ExtraWatts(2), main),
                                    IfJoined(3, ExtraWatts(3), main)))
  BY DEF LinkLimit
<1> HIDE DEF main
<1> QED
  BY <1>1, <1>2, <1>3 DEF Lower, IfJoined

LEMMA PassKeepsType ==
  ASSUME LimitsTypeOK, Pass
  PROVE  LimitsTypeOK'
<1>1. PacksTypeOK'
  <2>1. detected \subseteq detected' /\ detected' \subseteq Extra
    BY DEF Pass, update_machineryprotection, LimitsTypeOK, PacksTypeOK
  <2> QED
    BY <2>1, LinkOfPacks DEF Pass, LimitsTypeOK, PacksTypeOK
<1>2. cell_blocked' \subseteq Packs /\ recovery' \in BOOLEAN
  BY DEF Pass, update_machineryprotection, RecoveryGoesOn
<1>3. user_blocked' \in BOOLEAN
  BY DEF Pass, update_machineryprotection, UserLatched, LimitsTypeOK
<1>4. recovered' \in 0..RecoveryTime
  BY LimitsAssumption
     DEF Pass, update_machineryprotection, Recovered, RecoveryGoesOn, LimitsTypeOK
<1>5. limit' \in 0..Cap
  BY LinkBounded, LimitsAssumption DEF Pass, update_aggregate_limits, Lower
<1> QED
  BY <1>1, <1>2, <1>3, <1>4, <1>5, FiltersBounded DEF Pass, LimitsTypeOK

LEMMA OthersKeepType ==
  ASSUME LimitsTypeOK, PacksMove \/ PauseChanges \/ RequestRecovery \/ UNCHANGED lvars
  PROVE  LimitsTypeOK'
<1>1. PacksTypeOK'
  <2>1. CASE \E p \in Packs : Report(p)
    BY <2>1 DEF Report, LimitsTypeOK, PacksTypeOK
  <2>2. CASE StatusChanges
    BY <2>2 DEF StatusChanges, LimitsTypeOK, PacksTypeOK
  <2>3. CASE UNCHANGED packVars
    BY <2>3 DEF packVars, LimitsTypeOK, PacksTypeOK
  <2> QED
    BY <2>1, <2>2, <2>3 DEF PacksMove, PauseChanges, RequestRecovery, lvars
<1>2. emulator_pause_request_ON' \in BOOLEAN /\ recovery' \in BOOLEAN
  BY DEF PacksMove, PauseChanges, RequestRecovery, lvars, requests, LimitsTypeOK
<1>3. UNCHANGED <<direction, cell_blocked, user_blocked, filtered, recovered, limit>>
  BY DEF PacksMove, PauseChanges, RequestRecovery, Others, lvars, requests, latches
<1> QED
  BY <1>1, <1>2, <1>3 DEF LimitsTypeOK

\* The types hold in every reachable state; they are the inductive invariant.
THEOREM LimitsTyped == LimitsSpec => []LimitsTypeOK
<1>1. LimitsTypeOK /\ [LimitsNext]_lvars => LimitsTypeOK'
  BY PassKeepsType, OthersKeepType DEF LimitsNext
<1> QED
  BY <1>1, LimitsStart, PTL DEF LimitsSpec

-----------------------------------------------------------------------------

\* A pause or a fault found by the pass stops the power of the inverter, but for
\* the recovery charge: no taper, filter, extra pack, setting or change of status
\* and pause in the rest of the pass brings it back.
THEOREM StopsReachInverter == LimitsSpec => StopReachesInverter
<1> DEFINE Step == limit' # 0 /\ Pass =>
             /\ emulator_pause_request_ON => recovery' /\ ~emulator_pause_request_ON'
             /\ system_status = "FAULT" => recovery'
<1>1. LimitsTypeOK => [Step]_lvars
  <2> SUFFICES ASSUME LimitsTypeOK, limit' # 0, Pass,
                      \/ emulator_pause_request_ON /\ ~(recovery' /\ ~emulator_pause_request_ON')
                      \/ system_status = "FAULT" /\ ~recovery'
               PROVE  FALSE
    OBVIOUS
  <2>1. MainWatts = 0
    BY DEF MainWatts, Stopped
  <2>2. LinkLimit = 0
    BY <2>1, FiltersBounded, LinkBounded, LimitsAssumption
  <2>3. ~Recovers
    BY DEF Recovers
  <2> QED
    BY <2>2, <2>3 DEF Pass, update_aggregate_limits
<1> QED
  BY <1>1, LimitsTyped, PTL DEF StopReachesInverter

\* The limit respects every pack on the link, for any number of packs.
THEOREM PacksAreRespected == LimitsSpec => PacksRespected
<1> DEFINE Step == limit' # 0 /\ Pass => \A p \in OnLink :
             \/ limit' <= reading[p].watts
             \/ Charging /\ p = 1 /\ reading[p].watts > 0 /\ limit' <= TaperFloor
             \/ recovery' /\ reading[p].cells # "dead"
<1>1. LimitsTypeOK => [Step]_lvars
  <2> SUFFICES ASSUME LimitsTypeOK, Pass, NEW p \in OnLink
               PROVE  \/ limit' <= reading[p].watts
                      \/ Charging /\ p = 1 /\ reading[p].watts > 0 /\ limit' <= TaperFloor
                      \/ recovery' /\ reading[p].cells # "dead"
    OBVIOUS
  <2>1. p \in {1} \union detected /\ p \in Packs
    BY LinkOfPacks DEF Pass, OnLink
  <2>2. CASE recovery'
    BY <2>1, <2>2 DEF Pass, update_machineryprotection, RecoveryGoesOn
  <2>3. CASE ~recovery'
    <3>1. limit' = LinkLimit
      BY <2>3 DEF Pass, update_aggregate_limits, Recovers
    <3>2. CASE p = 1
      <4>1. /\ LinkLimit \in Nat /\ LinkLimit <= Main /\ Main \in Nat
            /\ TaperFloor \in Nat /\ reading[1].watts \in Nat
        BY LinkBounded, FiltersBounded, LimitsAssumption, ReadingsTyped DEF Packs
      <4> QED
        BY <3>1, <3>2, <4>1, FiltersBounded
    <3>3. CASE p \in joined'
      <4>1. LinkLimit \in Nat /\ LinkLimit <= ExtraWatts(p)
        BY <3>3, LinkBounded, LimitsAssumption
      <4>2. ExtraWatts(p) \in Nat /\ ExtraWatts(p) <= reading[p].watts /\ reading[p].watts \in Nat
        BY <2>1, ExtraBounded, ReadingsTyped
      <4> QED
        BY <3>1, <4>1, <4>2
    <3> QED
      BY <3>2, <3>3 DEF OnLink
  <2> QED
    BY <2>2, <2>3
<1> QED
  BY <1>1, LimitsTyped, PTL DEF PacksRespected

\* A pack at its ceiling, or in the band since, keeps the charge stopped.
THEOREM CeilingsHold == LimitsSpec => CeilingHolds
<1> DEFINE Step == limit' # 0 /\ Charging /\ ~recovery' /\ Pass =>
             \A p \in OnLink :
               /\ reading[p].cells # "ceiling"
               /\ reading[p].cells = "band" => p \notin cell_blocked
<1>1. LimitsTypeOK => [Step]_lvars
  <2> SUFFICES ASSUME LimitsTypeOK, Charging, ~recovery', Pass, NEW p \in OnLink,
                      \/ reading[p].cells = "ceiling"
                      \/ reading[p].cells = "band" /\ p \in cell_blocked
               PROVE  limit' = 0
    OBVIOUS
  <2>1. p \in Packs /\ Looked(p)
    BY LinkOfPacks DEF Pass, OnLink, Looked, update_machineryprotection
  <2>2. p \in cell_blocked'
    BY <2>1 DEF Pass, update_machineryprotection, CellLatched
  <2>3. PackWatts(p) = 0
    BY <2>2 DEF PackWatts, AtCellLimit
  <2>4. CASE p = 1
    <3>1. MainWatts = 0
      BY <2>3, <2>4 DEF MainWatts
    <3> QED
      BY <3>1, FiltersBounded, LinkBounded, LimitsAssumption
         DEF Pass, update_aggregate_limits, Recovers
  <2>5. CASE p \in joined'
    <3>1. ExtraWatts(p) = 0
      BY <2>1, <2>3 DEF ExtraWatts, Pass
    <3> QED
      BY <2>5, <3>1, LinkBounded, LimitsAssumption DEF Pass, update_aggregate_limits, Recovers
  <2> QED
    BY <2>4, <2>5 DEF OnLink
<1> QED
  BY <1>1, LimitsTyped, PTL DEF CeilingHolds

\* The ramp goes on until it is closer than 99 \div FilterPercent to its goal.
THEOREM RampGoesOn == LimitsSpec => RampNeverStalls
<1> DEFINE Step == LowPass /\ filtered # Unset /\ filtered' <= filtered /\ Pass
             => FilterInput - filtered <= 99 \div FilterPercent
<1>1. LimitsTypeOK => [Step]_lvars
  <2> SUFFICES ASSUME LimitsTypeOK, LowPass, filtered # Unset, filtered' <= filtered, Pass,
                      ~(FilterInput - filtered <= 99 \div FilterPercent)
               PROVE  FALSE
    OBVIOUS
  <2>1. filtered \in Nat /\ FilterInput \in Nat
    BY FiltersBounded, LimitsAssumption DEF LimitsTypeOK, Unset
  <2>2. 99 \div FilterPercent \in Nat
    BY LimitsAssumption
  <2>3. FilterInput - filtered > 99 \div FilterPercent /\ filtered < FilterInput
    BY <2>1, <2>2
  <2>4. Blend(FilterInput, filtered) > filtered /\ Blend(FilterInput, filtered) \in Nat
    BY <2>1, <2>3, BlendMoves, BlendBetween
  <2>5. filtered' = Blend(FilterInput, filtered)
    BY <2>1, <2>3 DEF Pass, Filtered
  <2> QED
    BY <2>1, <2>4, <2>5
<1> QED
  BY <1>1, LimitsTyped, PTL DEF RampNeverStalls

\* One full pack on the link ends the charge, by the blend of the states of
\* charge.
THEOREM FullPacksStop == LimitsSpec => FullPackStops
<1> DEFINE Step == limit' # 0 /\ Charging /\ ~recovery' /\ Pass =>
             \A p \in OnLink : reading[p].soc < FullSoc
<1>1. LimitsTypeOK => [Step]_lvars
  <2> SUFFICES ASSUME LimitsTypeOK, Charging, ~recovery', Pass, NEW p \in OnLink,
                      ~(reading[p].soc < FullSoc)
               PROVE  limit' = 0
    OBVIOUS
  <2>1. reading[p].soc = FullSoc
    BY LinkOfPacks, ReadingsTyped, PacksAssumption DEF Pass
  <2>2. Done
    BY <2>1, RealSocBounded DEF Pass, Done
  <2>3. MainWatts = 0
    BY <2>2 DEF MainWatts
  <2> QED
    BY <2>3, FiltersBounded, LinkBounded, LimitsAssumption
       DEF Pass, update_aggregate_limits, Recovers
<1> QED
  BY <1>1, LimitsTyped, PTL DEF FullPackStops
=============================================================================
