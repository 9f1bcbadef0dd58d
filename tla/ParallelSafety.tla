-------------------------- MODULE ParallelSafety --------------------------
(***************************************************************************)
(* The packs on the DC link.  check_parallel_battery_safety() decides once *)
(* a second which extra pack may be on it, from the voltages of the packs  *)
(* and the system status, and update_aggregate_values() makes one state of *)
(* charge of those that are.  What a pack reports is a record of the set   *)
(* Readings: voltage (dV), soc, done (its BMS says full, or empty), watts  *)
(* (the power its BMS allows) and cells (see Limits).                      *)
(***************************************************************************)
EXTENDS Integers

CONSTANTS
  Extra,          \* the extra packs configured, of 2 and 3
  Readings,       \* what a pack on the bus may report
  PowerOn,        \* what a pack holds that has not been heard
  SyncBand,       \* the voltage difference tolerated (15 dV)
  OutOfSyncLimit, \* the seconds out of sync before a pack has to leave (10)
  FullSoc,        \* the highest state of charge (10000)
  BlendStart,     \* SOC_BLEND_START_PPTT
  SocWindow       \* min_percentage and max_percentage; <<0, FullSoc>> if scaling is off

ASSUME PacksAssumption ==
  /\ Extra \subseteq {2, 3}
  /\ PowerOn.voltage = 0
  /\ \A r \in Readings \union {PowerOn} : r.voltage \in Nat /\ r.soc \in 0..FullSoc
  /\ SyncBand \in Nat /\ OutOfSyncLimit \in Nat /\ FullSoc \in Nat
  /\ BlendStart \in 0..(FullSoc - 1)
  /\ SocWindow \in (0..FullSoc) \X (0..FullSoc) /\ SocWindow[1] <= SocWindow[2]

VARIABLES
  reading,       \* what the driver of each pack publishes
  system_status,
  detected,      \* the extra packs heard on the bus
  joined,        \* battery2_, battery3_allowed_contactor_closing
  out_of_sync    \* secondsOutOfVoltageSync of each extra pack

packVars == <<reading, system_status, detected, joined, out_of_sync>>

Packs == {1} \union Extra
SystemStatus == {"ACTIVE", "UPDATING", "FAULT"}

PacksTypeOK ==
  /\ reading \in [Packs -> Readings \union {PowerOn}]
  /\ system_status \in SystemStatus
  /\ joined \subseteq detected /\ detected \subseteq Extra
  /\ out_of_sync \in [Extra -> 0..OutOfSyncLimit]

PacksInit ==
  /\ reading = [p \in Packs |-> PowerOn]
  /\ system_status = "ACTIVE"
  /\ detected = {} /\ joined = {} /\ out_of_sync = [p \in Extra |-> 0]

-----------------------------------------------------------------------------
(* check_parallel_battery_safety() *)

Lower(a, b) == IF a <= b THEN a ELSE b
Higher(a, b) == IF a >= b THEN a ELSE b

Checked(p) ==
  p \in detected /\ reading[1].voltage # 0 /\ reading[p].voltage # 0

InSync(p) ==
  reading[1].voltage - reading[p].voltage \in -SyncBand..SyncBand

Joins(p) == Checked(p) /\ InSync(p) /\ system_status # "FAULT"

\* Mutant: a fault does not separate the packs.
LeavesOnlyOutOfSync(p) == Checked(p) /\ ~InSync(p) /\ out_of_sync[p] = OutOfSyncLimit

Leaves(p) ==
  /\ Checked(p)
  /\ IF InSync(p) THEN system_status = "FAULT" ELSE out_of_sync[p] = OutOfSyncLimit

OutOfSyncFor(p) ==
  CASE ~Checked(p) -> out_of_sync[p]
    [] Checked(p) /\ InSync(p) -> 0
    [] OTHER -> Lower(out_of_sync[p] + 1, OutOfSyncLimit)

check_parallel_battery_safety ==
  /\ joined' = (joined \ {p \in Extra : Leaves(p)}) \union {p \in Extra : Joins(p)}
  /\ out_of_sync' = [p \in Extra |-> OutOfSyncFor(p)]

-----------------------------------------------------------------------------
(* update_aggregate_values(): the emptiest pack of the link, blended into *)
(* the fullest near the top, then the window of the user                  *)

OnLink == {1} \union joined'

\* What an extra pack adds to a figure of the main pack: nothing off the link.
IfJoined(p, value, main) == IF p \in joined' THEN value ELSE main

LowestSoc ==
  LET main == reading[1].soc
  IN  Lower(main, Lower(IfJoined(2, reading[2].soc, main), IfJoined(3, reading[3].soc, main)))

HighestSoc ==
  LET main == reading[1].soc
  IN  Higher(main, Higher(IfJoined(2, reading[2].soc, main), IfJoined(3, reading[3].soc, main)))

RealSoc ==
  LET blend == Higher(HighestSoc - BlendStart, 0)
  IN  LowestSoc + ((HighestSoc - LowestSoc) * blend) \div (FullSoc - BlendStart)

ReportedSoc ==
  LET low == SocWindow[1]
      high == SocWindow[2]
  IN  IF low = high THEN 0
      ELSE (FullSoc * (Lower(Higher(RealSoc, low), high) - low)) \div (high - low)

-----------------------------------------------------------------------------
(* What changes between two passes: the packs report, events come and go. *)

Report(p) ==
  /\ \E r \in Readings : reading' = [reading EXCEPT ![p] = r]
  /\ UNCHANGED <<system_status, detected, joined, out_of_sync>>

StatusChanges ==
  /\ system_status' \in SystemStatus
  /\ UNCHANGED <<reading, detected, joined, out_of_sync>>
=============================================================================
