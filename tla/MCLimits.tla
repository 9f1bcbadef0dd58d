----------------------------- MODULE MCLimits -----------------------------
(* The readings of the run limits: one link of two packs and what tells the *)
(* rules apart.  4 W is what a healthy pack allows.                         *)
EXTENDS Limits

R(voltage, soc, watts, cells, done) ==
  [voltage |-> voltage, soc |-> soc, watts |-> watts, cells |-> cells, done |-> done]

MCPowerOn == R(0, 5, 0, "ceiling", FALSE)
MCReadings == {
  R(4, 5, 4, "ok", FALSE),          \* healthy
  R(4, 9, 2, "band", FALSE),        \* near the top: tapered, its cells in the band
  R(4, 10, 4, "ok", FALSE),         \* full by its state of charge only
  R(7, 5, 4, "ceiling", FALSE),     \* too high: pack and cell, out of sync
  R(2, 0, 0, "dead", TRUE)}         \* empty and dead, out of sync
MCWindow == <<0, 10>>
MCUserTarget == [charge |-> 7, discharge |-> 2]
=============================================================================
