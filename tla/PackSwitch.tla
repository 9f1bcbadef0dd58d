----------------------------- MODULE PackSwitch -----------------------------
(***************************************************************************)
(* What a driver of a pack's contactors promises, whoever wires them: the  *)
(* pack goes onto the bus through the resistor and in one order, a closing *)
(* that has begun is completed or ends latched, what is on the bus leaves  *)
(* it all at once, and a latched driver is done.  Contactors and BmwSbox   *)
(* implement it.                                                           *)
(***************************************************************************)

CONSTANT First     \* the contactor that closes first: "negative" or "precharge"

VARIABLES
  closed,          \* the contactors that conduct
  engaged,         \* others are told that the pack is on the bus
  latched

switch == <<closed, engaged, latched>>

Charging == {"negative", "precharge"}
Bridged == {"negative", "precharge", "positive"}
OnBus == {"negative", "positive"}

SwitchInit == closed = {} /\ ~engaged /\ ~latched

\* A new closing begins with everything else open.
Begin ==
  /\ ~latched /\ closed \in {{}, OnBus}
  /\ closed' = {First} /\ ~engaged' /\ ~latched'

Precharge ==
  /\ ~latched /\ closed = {First}
  /\ closed' = Charging /\ UNCHANGED <<engaged, latched>>

Connect ==
  /\ ~latched /\ closed = Charging
  /\ closed' = Bridged /\ UNCHANGED <<engaged, latched>>

Complete ==
  /\ ~latched /\ closed = Bridged
  /\ closed' = OnBus /\ engaged' /\ ~latched'

Open ==
  /\ ~latched /\ closed = OnBus
  /\ closed' = {} /\ ~engaged' /\ ~latched'

Latch == closed' = {} /\ ~engaged' /\ latched'

SwitchNext == Begin \/ Precharge \/ Connect \/ Complete \/ Open \/ Latch

SwitchSpec == SwitchInit /\ [][SwitchNext]_switch
=============================================================================
