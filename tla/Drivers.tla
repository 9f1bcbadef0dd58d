------------------------------ MODULE Drivers ------------------------------
(***************************************************************************)
(* setup_battery() makes the one driver the settings name.  The automatic  *)
(* precharge runs with the MEB driver, with a driver that is not modelled  *)
(* and may do anything, or with none, when it tests the hardware.  The     *)
(* CHAdeMO driver is followed without it: neither reads what the other     *)
(* writes but for the permission of the battery.                           *)
(***************************************************************************)
EXTENDS MebBattery, ChademoBattery

VARIABLE driver

dvars == <<mebVars, cvars, driver>>

DriversInit ==
  /\ driver \in {"MEB", "CHADEMO", "other"} /\ MebInit /\ ChademoInit
  /\ driver # "other" => battery_configured
  /\ driver = "CHADEMO" => ~equipment_stop_active     \* which it does not read

create_battery(type) == driver = type /\ UNCHANGED driver

MebStep == create_battery("MEB") /\ MebNext /\ UNCHANGED cvars
OtherStep == create_battery("other") /\ PrechargeNext /\ UNCHANGED <<mebOnly, cvars>>
ChademoStep == create_battery("CHADEMO") /\ ChademoNext /\ UNCHANGED mebVars

DriversNext == MebStep \/ OtherStep \/ ChademoStep

\* The core loop calls both handlers for ever, so that time passes in each, and
\* the 100 ms frame of the driver comes due again and again.
DriversFairness ==
  /\ WF_dvars(handle_precharge_control(1) /\ UNCHANGED <<mebOnly, cvars, driver>>)
  /\ WF_dvars(create_battery("MEB") /\ transmit_can(1, TRUE) /\ UNCHANGED cvars)

DriversSpec == DriversInit /\ [][DriversNext]_dvars /\ DriversFairness

=============================================================================
