-------------------------- MODULE ChademoBattery --------------------------
(***************************************************************************)
(* A CHAdeMO vehicle as the battery (V2X, EVSE_mode CHADEMO_DISCHARGE):     *)
(* the sequence of IEEE 2030.1.1 as the driver runs it, once for every      *)
(* frame of the vehicle and once for every pass of the core loop.  What a   *)
(* handler measures or reads from a pin is chosen when it does; the frames  *)
(* to the vehicle are left out but for the check that ends in FAULT.        *)
(***************************************************************************)
EXTENDS Integers

CONSTANTS
  SkippedFrames,        \* the frames 0x102 to skip at first (20)
  FrameCountModulus     \* framecount is a uint8_t (256)

ASSUME ChademoAssumption ==
  /\ SkippedFrames \in Nat /\ FrameCountModulus \in Nat
  /\ SkippedFrames < FrameCountModulus

VARIABLES
  CHADEMO_Status,
  pin2, pin10, pin_lock,       \* start signals d2 and d1, the connector's lock
  plug_inserted,               \* as last read in IDLE
  target,                      \* TargetBatteryVoltage is not zero
  enabled, shifter,            \* status flags of the last 0x102
  minimum,                     \* MinimumDischargeVoltage of the last 0x200
  framecount, vehicle_can_initialized,
  permits,                     \* battery_allows_contactor_closing
  restarted                    \* history: a restart was asked for with d1 up

session == <<target, enabled, shifter>>
frames == <<framecount, vehicle_can_initialized>>
pins == <<pin2, pin10, pin_lock>>
cvars == <<CHADEMO_Status, pins, plug_inserted, session, minimum, frames, permits, restarted>>

Preparing == {"CONNECTED", "INIT", "NEGOTIATE"}
Engaged == {"EV_ALLOWED", "EVSE_PREPARE", "EVSE_START",
            "EVSE_CONTACTORS_ENABLED", "POWERFLOW"}     \* >= CHADEMO_EV_ALLOWED
CStatus == {"FAULT", "STOP", "IDLE"} \union Preparing \union Engaged
\* What the shunt measures: a dead output, a residual voltage, a live output.
Readings == {[volts |-> 0, dead |-> TRUE], [volts |-> 15, dead |-> FALSE],
             [volts |-> 300, dead |-> FALSE]}
Minimums == {0, 260}

ChademoTypeOK ==
  /\ CHADEMO_Status \in CStatus
  /\ pin2 \in BOOLEAN /\ pin10 \in BOOLEAN /\ pin_lock \in BOOLEAN
  /\ plug_inserted \in BOOLEAN /\ target \in BOOLEAN
  /\ enabled \in BOOLEAN /\ shifter \in BOOLEAN
  /\ minimum \in Minimums /\ framecount \in 0..(FrameCountModulus - 1)
  /\ vehicle_can_initialized \in BOOLEAN /\ permits \in BOOLEAN
  /\ restarted \in BOOLEAN

-----------------------------------------------------------------------------
(* handle_chademo_sequence(), entered with the status st and the session as *)
(* the handler has just left them; pin4 and pin7 are what it reads, seen    *)
(* what the shunt may show it.                                              *)

\* Mutant: only a flow of power stops for the shifter.
OverriddenInPowerflow(st, pin4) ==
  IF (st = "POWERFLOW" /\ shifter') \/ (st \in Engaged /\ ~pin4) THEN "STOP" ELSE st

Overridden(st, pin4) ==
  IF st \in Engaged /\ (shifter' \/ ~pin4) THEN "STOP" ELSE st

Idle(st, pin7) ==
  /\ st = "IDLE"
  /\ CHADEMO_Status' = IF pin7 THEN "CONNECTED" ELSE "IDLE"
  /\ pin_lock' = FALSE /\ plug_inserted' = pin7
  /\ UNCHANGED <<pin2, pin10, permits, restarted>>

Connected(st) ==
  /\ st = "CONNECTED"
  /\ CHADEMO_Status' = IF plug_inserted THEN "INIT" ELSE "IDLE"
  /\ pin2' = (pin2 \/ plug_inserted)
  /\ UNCHANGED <<pin10, pin_lock, plug_inserted, permits, restarted>>

Wait(st) ==
  /\ st \in {"INIT", "NEGOTIATE"}
  /\ CHADEMO_Status' = st
  /\ UNCHANGED <<pins, plug_inserted, permits, restarted>>

EvAllowed(st) ==
  /\ st = "EV_ALLOWED"
  /\ CHADEMO_Status' = "EVSE_PREPARE" /\ pin_lock' = TRUE
  /\ UNCHANGED <<pin2, pin10, plug_inserted, permits, restarted>>

\* Without an isolated output d1 stays as it is, and so does the status.
EvsePrepare(st, seen) ==
  /\ st = "EVSE_PREPARE"
  /\ CHADEMO_Status' = IF enabled' THEN "EVSE_PREPARE" ELSE "STOP"
  /\ \E now \in seen : pin10' = (pin10 \/ (enabled' /\ now.volts < 20))
  /\ UNCHANGED <<pin2, pin_lock, plug_inserted, permits, restarted>>

EvseStart(st) ==
  /\ st = "EVSE_START"
  /\ CHADEMO_Status' = "EVSE_CONTACTORS_ENABLED" /\ permits' = TRUE
  /\ UNCHANGED <<pins, plug_inserted, restarted>>

\* ready: the contactors are closed and the vehicle calls itself compatible.
ContactorsEnabled(st, ready) ==
  /\ st = "EVSE_CONTACTORS_ENABLED"
  /\ CHADEMO_Status' = IF ready THEN "POWERFLOW" ELSE st
  /\ UNCHANGED <<pins, plug_inserted, permits, restarted>>

Powerflow(st, seen) ==
  /\ st = "POWERFLOW"
  /\ \E now \in seen : CHADEMO_Status' = IF now.volts <= minimum' THEN "STOP" ELSE st
  /\ UNCHANGED <<pins, plug_inserted, permits, restarted>>

Stop(st, seen) ==
  /\ st = "STOP"
  /\ \E now \in seen :
       IF now.dead
       THEN CHADEMO_Status' = "IDLE" /\ pin2' = FALSE /\ pin10' = FALSE /\ restarted' = FALSE
       ELSE CHADEMO_Status' = "STOP" /\ UNCHANGED <<pin2, pin10, restarted>>
  /\ UNCHANGED <<pin_lock, plug_inserted, permits>>

Fault(st) ==
  /\ st = "FAULT" /\ CHADEMO_Status' = "FAULT"
  /\ pin2' = FALSE /\ pin10' = FALSE /\ restarted' = FALSE
  /\ UNCHANGED <<pin_lock, plug_inserted, permits>>

handle_chademo_sequence(entered, seen, pin4) ==
  LET st == Overridden(entered, pin4)
  IN  \/ \E pin7 \in BOOLEAN : Idle(st, pin7)
      \/ Connected(st) \/ Wait(st) \/ EvAllowed(st) \/ EvsePrepare(st, seen) \/ EvseStart(st)
      \/ \E ready \in {FALSE, permits} : ContactorsEnabled(st, ready)
      \/ Powerflow(st, seen) \/ Stop(st, seen) \/ Fault(st)

-----------------------------------------------------------------------------
(* Frames of the vehicle. *)

\* process_vehicle_charging_session(): the status the frame leaves behind.
AfterSession(pin4, battery_fault) ==
  IF (CHADEMO_Status = "INIT" /\ pin4) \/ (enabled' /\ ~pin4) THEN "FAULT"
  ELSE IF battery_fault \/ (target /\ ~target') THEN "STOP"
  ELSE IF pin4 /\ CHADEMO_Status = "NEGOTIATE" THEN "EV_ALLOWED"
  ELSE IF pin4 /\ CHADEMO_Status = "EVSE_PREPARE" /\ ~target
            /\ target' /\ enabled' THEN "EVSE_START"
  ELSE CHADEMO_Status

\* The first frame after INIT starts the negotiation.
Negotiating(st) == IF st = "INIT" THEN "NEGOTIATE" ELSE st

NextCount == (framecount + 1) % FrameCountModulus
Skipped == vehicle_can_initialized /\ NextCount < SkippedFrames

\* 0x102 is the whole handler's last word while frames are skipped.
\* Each of the two functions it calls reads pin 4 itself.
Session102 ==
  /\ framecount' = NextCount
  /\ \/ /\ Skipped
        /\ UNCHANGED <<CHADEMO_Status, pins, plug_inserted, session, minimum,
                       vehicle_can_initialized, permits, restarted>>
     \/ /\ ~Skipped
        /\ vehicle_can_initialized' = TRUE
        /\ target' \in BOOLEAN
        /\ enabled' \in BOOLEAN /\ shifter' \in BOOLEAN
        /\ UNCHANGED minimum
        /\ \E pin4 \in BOOLEAN, battery_fault \in BOOLEAN, pin4_again \in BOOLEAN :
             handle_chademo_sequence(Negotiating(AfterSession(pin4, battery_fault)),
                                     Readings, pin4_again)

Limits200 ==
  /\ minimum' \in Minimums
  /\ UNCHANGED <<session, frames>>
  /\ \E pin4 \in BOOLEAN, now \in Readings :
       LET st == IF now.volts <= minimum' /\ CHADEMO_Status \in Engaged THEN "STOP" ELSE CHADEMO_Status
       IN  handle_chademo_sequence(Negotiating(st), {now}, pin4)

\* 0x100, 0x101, 0x110, 0x201, 0x202, 0x700: their data decides nothing here.
OtherVehicleFrame ==
  /\ UNCHANGED <<session, minimum, frames>>
  /\ \E pin4 \in BOOLEAN : handle_chademo_sequence(Negotiating(CHADEMO_Status), Readings, pin4)

-----------------------------------------------------------------------------

\* transmit_can(): a sequence and, every 100 ms after INIT, the status frame,
\* which may find that the target is above what the EVSE can supply.
ChademoPass ==
  /\ UNCHANGED <<session, minimum, frames>>
  /\ \E pin4 \in BOOLEAN : handle_chademo_sequence(CHADEMO_Status, Readings, pin4)

SendStatus ==
  /\ CHADEMO_Status \in {"NEGOTIATE"} \union Engaged /\ target
  /\ CHADEMO_Status' = "FAULT"
  /\ UNCHANGED <<pins, plug_inserted, session, minimum, frames, permits, restarted>>

\* The web page's "Restart" and "Stop" both call chademo_restart(), which
\* update_values() turns into the status IDLE.
chademo_restart ==
  /\ CHADEMO_Status' = "IDLE"
  /\ restarted' = (restarted \/ pin10)
  /\ UNCHANGED <<pins, plug_inserted, session, minimum, frames, permits>>

ChademoInit ==
  /\ CHADEMO_Status = "IDLE"
  /\ pin2 = FALSE /\ pin10 = FALSE /\ pin_lock = FALSE /\ plug_inserted = FALSE
  /\ target = FALSE /\ enabled = FALSE /\ shifter = FALSE
  /\ minimum = 0 /\ framecount = 0 /\ vehicle_can_initialized = FALSE
  /\ permits = FALSE /\ restarted = FALSE

ChademoNext ==
  \/ Session102 \/ Limits200 \/ OtherVehicleFrame
  \/ ChademoPass \/ SendStatus
  \/ chademo_restart

ChademoSpec == ChademoInit /\ [][ChademoNext]_cvars

-----------------------------------------------------------------------------
(* Properties. *)

\* "Vehicle is not parked, abort": after any frame and any pass, no status from
\* EV_ALLOWED on goes together with a vehicle that has said it left park.
ParkedWhileEngaged == CHADEMO_Status \in Engaged => ~shifter

\* Power flows, and the contactors are called for, only to a target: the frame
\* that takes the target back ends the session in the same handler.
PowerHasTarget ==
  CHADEMO_Status \in {"EVSE_START", "EVSE_CONTACTORS_ENABLED", "POWERFLOW"} => target

\* "This is where we can unlock connector": with d1 up the connector is locked,
\* unless a user has restarted the session while it was up.
UnlockedIsDead == pin10 /\ ~pin_lock => restarted

\* The session as a whole: parked and with a target while it is live, and locked.
SessionSafe == ChademoTypeOK /\ ParkedWhileEngaged /\ PowerHasTarget /\ UnlockedIsDead
=============================================================================
