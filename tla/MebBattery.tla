---------------------------- MODULE MebBattery ----------------------------
(***************************************************************************)
(* The part of the MEB driver (and of MQB Evo, the same code) that decides  *)
(* about high voltage: BMS_20 frames, the HV request every 100 ms, the loss *)
(* of CAN and the reset that lets the BMS fall asleep, with the automatic   *)
(* precharge it drives.  All of it runs in the core task; the inverter, the *)
(* stop, the pause and the web page act in between.  Times are in ticks;    *)
(* each handler counts the ticks since its own last pass.                   *)
(***************************************************************************)
EXTENDS PrechargeControl

CONSTANTS
  Modes,            \* the modes the BMS reports; modes 1, 3, 4 and 6 are HV_ACTIVE
  MebLinks,         \* what the BMS measures on the link
  CanTimeout,       \* 500 ms without a frame: the BMS is disconnected
  Settled,          \* 1 s of frames before the BMS is told anything
  PauseTimeout,     \* BMS_RESET_PAUSE_TIMEOUT_MS
  HvOffTimeout,     \* BMS_RESET_HV_OFF_TIMEOUT_MS
  BmsSilent,        \* BMS_RESET_BMS_SILENT_MS
  SilenceTimeout,   \* BMS_RESET_SILENCE_TIMEOUT_MS
  SleepTime         \* BMS_RESET_SLEEP_MS

ASSUME MebAssumption ==
  /\ Modes \subseteq {"HV_ACTIVE", "HV_OFF", "BALANCING", "ERROR", "INIT"}
  /\ {"HV_OFF", "INIT"} \subseteq Modes /\ MebLinks \subseteq LinkVoltages
  /\ {CanTimeout, Settled, PauseTimeout, HvOffTimeout,
      BmsSilent, SilenceTimeout, SleepTime} \subseteq Nat \ {0}
  /\ CanTimeout <= BmsSilent /\ BmsSilent <= SilenceTimeout

VARIABLES
  BMS_mode,
  hv_requested,
  can_age,                    \* since last_can_msg_timestamp
  first_can_age,              \* since first_can_msg_timestamp, or NoCan
  startup_bms_checked,
  UserRequestBMSReset,
  bms_reset_state, bms_reset_age,
  pause                       \* the pause that a reset asks for

hv == <<BMS_mode, hv_requested>>
contact == <<can_age, first_can_age, startup_bms_checked>>
reset == <<UserRequestBMSReset, bms_reset_state, bms_reset_age>>
mebOnly == <<hv, contact, reset, pause>>
mebVars == <<prechargeVars, mebOnly>>

NoCan == -1
ResetStates == {"IDLE", "WAIT_FOR_PAUSE", "REQUEST_HV_OFF", "SILENCE", "SLEEP_WAIT"}
LongestAge == CHOOSE n \in {PauseTimeout, HvOffTimeout, SilenceTimeout, SleepTime} :
                \A m \in {PauseTimeout, HvOffTimeout, SilenceTimeout, SleepTime} : m <= n

MebTypeOK ==
  /\ PrechargeTypeOK
  /\ BMS_mode \in Modes
  /\ hv_requested \in BOOLEAN
  /\ can_age \in 0..BmsSilent /\ first_can_age \in NoCan..Settled
  /\ startup_bms_checked \in BOOLEAN /\ UserRequestBMSReset \in BOOLEAN
  /\ bms_reset_state \in ResetStates /\ bms_reset_age \in 0..LongestAge
  /\ pause \in BOOLEAN

-----------------------------------------------------------------------------
(* Frames. *)

Heard ==
  /\ can_age' = 0
  /\ first_can_age' = IF first_can_age = NoCan THEN 0 ELSE first_can_age

\* A status other than a latched FAULT follows the mode.
StatusOf(mode) ==
  IF mode = "ERROR" \/ real_bms_status = "FAULT" THEN "FAULT"
  ELSE IF mode = "HV_ACTIVE" THEN "ACTIVE" ELSE "STANDBY"

\* BMS_20.  dc_bus_live, without contactor control, is BMS_mode = "HV_ACTIVE".
\* A request for HV survives the frames that report HV off or balancing.  The
\* copy of the link that update_values() makes every second is made at once.
Bms20(mode, link) ==
  /\ Heard
  /\ BMS_mode' = mode
  /\ startup_bms_checked' = TRUE
  /\ UserRequestBMSReset' = \/ UserRequestBMSReset
                            \/ (~startup_bms_checked /\ mode \notin {"INIT", "HV_OFF"})
  /\ real_bms_status' = StatusOf(mode)
  /\ battery_allows_contactor_closing' = (mode = "HV_ACTIVE")
  /\ hv_requested' = (hv_requested /\ mode \in {"HV_OFF", "BALANCING"})
  /\ BMS_voltage_intermediate_dV' = IF mode = "INIT" THEN BMS_voltage_intermediate_dV ELSE link
  /\ UNCHANGED <<precharge, start_precharging, outside, system_status, battery_configured,
                 bms_reset_state, bms_reset_age, pause>>

\* Every other frame, and a BMS_20 with a wrong CRC, only shows that the BMS is there.
OtherFrame ==
  /\ Heard
  /\ UNCHANGED <<prechargeVars, hv, startup_bms_checked, reset, pause>>

-----------------------------------------------------------------------------
(* handle_bms_reset(): one action per way through the switch. *)

Late(d) == IF bms_reset_state = "IDLE" THEN 0 ELSE bms_reset_age + d
CanAge(d) == IF can_age + d > BmsSilent THEN BmsSilent ELSE can_age + d

\* Only without a diagnostic request under way, which is not modelled here.
StartReset ==
  /\ bms_reset_state = "IDLE" /\ UserRequestBMSReset
  /\ UserRequestBMSReset' = FALSE
  /\ pause' = TRUE
  /\ bms_reset_state' = "WAIT_FOR_PAUSE" /\ bms_reset_age' = 0

\* The pause is reached once the current is low, however that comes about.
PauseReached ==
  /\ bms_reset_state = "WAIT_FOR_PAUSE"
  /\ bms_reset_state' = "REQUEST_HV_OFF" /\ bms_reset_age' = 0
  /\ UNCHANGED <<UserRequestBMSReset, pause>>

\* Mutant: the reset is given up without giving the power back.
PauseNotReachedStaysPaused(d) ==
  /\ bms_reset_state = "WAIT_FOR_PAUSE" /\ Late(d) >= PauseTimeout
  /\ bms_reset_state' = "IDLE" /\ bms_reset_age' = 0
  /\ UNCHANGED <<UserRequestBMSReset, pause>>

PauseNotReached(d) ==
  /\ bms_reset_state = "WAIT_FOR_PAUSE" /\ Late(d) >= PauseTimeout
  /\ pause' = FALSE
  /\ bms_reset_state' = "IDLE" /\ bms_reset_age' = 0
  /\ UNCHANGED UserRequestBMSReset

FallSilent(d) ==
  /\ bms_reset_state = "REQUEST_HV_OFF"
  /\ BMS_mode = "HV_OFF" \/ Late(d) >= HvOffTimeout
  /\ bms_reset_state' = "SILENCE" /\ bms_reset_age' = 0
  /\ UNCHANGED <<UserRequestBMSReset, pause>>

Asleep(d) == CanAge(d) >= BmsSilent \/ Late(d) >= SilenceTimeout

HoldQuiet(d) ==
  /\ bms_reset_state = "SILENCE" /\ Asleep(d)
  /\ bms_reset_state' = "SLEEP_WAIT" /\ bms_reset_age' = 0
  /\ UNCHANGED <<UserRequestBMSReset, pause>>

ResetDone(d) == bms_reset_state = "SLEEP_WAIT" /\ Late(d) >= SleepTime

EndReset(d) ==
  /\ ResetDone(d)
  /\ pause' = FALSE
  /\ bms_reset_state' = "IDLE" /\ bms_reset_age' = 0
  /\ UNCHANGED UserRequestBMSReset

WaitInReset(d) ==
  /\ \/ bms_reset_state = "IDLE"
     \/ bms_reset_state = "WAIT_FOR_PAUSE" /\ Late(d) < PauseTimeout
     \/ bms_reset_state = "REQUEST_HV_OFF" /\ BMS_mode # "HV_OFF" /\ Late(d) < HvOffTimeout
     \/ bms_reset_state = "SILENCE" /\ ~Asleep(d)
     \/ bms_reset_state = "SLEEP_WAIT" /\ Late(d) < SleepTime
  /\ bms_reset_age' = Late(d)
  /\ UNCHANGED <<UserRequestBMSReset, bms_reset_state, pause>>

handle_bms_reset(d) ==
  \/ StartReset \/ PauseReached \/ PauseNotReached(d) \/ FallSilent(d)
  \/ HoldQuiet(d) \/ EndReset(d) \/ WaitInReset(d)

bms_reset_tx_suppressed == bms_reset_state \in {"SILENCE", "SLEEP_WAIT"}

-----------------------------------------------------------------------------
(* The rest of transmit_can(), on what is left of the contact with the BMS *)
(* after the reset and after 500 ms without a frame.                       *)

LostCan(d) == ~ResetDone(d) /\ CanAge(d) >= CanTimeout

\* A BMS in FAULT stays as it is, and so does everything that was known of it.
Forgotten(d) == ResetDone(d) \/ (LostCan(d) /\ real_bms_status # "FAULT")

StatusNow(d) == IF Forgotten(d) THEN "DISCONNECTED" ELSE real_bms_status

LinkNow(d) == IF Forgotten(d) THEN 0 ELSE BMS_voltage_intermediate_dV

\* Mutant: the request outlives the loss of CAN.
RequestedNowIfLost(d) == hv_requested /\ ~ResetDone(d)

RequestedNow(d) == hv_requested /\ ~Forgotten(d)

FirstAgeNow(d) ==
  IF ResetDone(d) \/ LostCan(d) \/ first_can_age = NoCan THEN NoCan
  ELSE IF first_can_age + d > Settled THEN Settled ELSE first_can_age + d

\* The precharge is within 20 V.
Close(link) == PackVoltage > 200 /\ link > 0 /\ Distance(PackVoltage, link) < 200

AskForHv(d) ==
  /\ ~equipment_stop_active /\ inverter_allows_contactor_closing
  /\ \/ StatusNow(d) = "ACTIVE"
     \/ StatusNow(d) = "STANDBY" /\ (RequestedNow(d) \/ Close(LinkNow(d)))

AskForHvOff(d) ==
  /\ ~AskForHv(d)
  /\ \/ FirstAgeNow(d) = Settled /\ BMS_mode # "INIT"
     \/ equipment_stop_active \/ ~inverter_allows_contactor_closing

WantsPrecharge(d) ==
  /\ AskForHvOff(d)
  /\ system_status # "FAULT" /\ StatusNow(d) = "STANDBY" /\ ~equipment_stop_active

\* HVK_01, due every 100 ms: it asks for HV, for HV off, or for neither.
HvRequest(d) ==
  /\ hv_requested' = (RequestedNow(d) \/ (AskForHv(d) /\ StatusNow(d) # "ACTIVE"))
  /\ start_precharging' = (~AskForHv(d) /\ (start_precharging \/ WantsPrecharge(d)))

\* d ticks after the pass before; due: the HVK_01 frame is.
transmit_can(d, due) ==
  /\ handle_bms_reset(d)
  /\ can_age' = IF ResetDone(d) THEN 0 ELSE CanAge(d)
  /\ first_can_age' = IF bms_reset_tx_suppressed' THEN first_can_age ELSE FirstAgeNow(d)
  /\ IF bms_reset_tx_suppressed'
     THEN UNCHANGED <<bms, BMS_voltage_intermediate_dV, hv_requested, start_precharging>>
     ELSE /\ real_bms_status' = StatusNow(d)
          /\ battery_allows_contactor_closing' =
               (battery_allows_contactor_closing /\ (ResetDone(d) \/ ~Forgotten(d)))
          /\ BMS_voltage_intermediate_dV' = LinkNow(d)
          /\ \/ due /\ HvRequest(d)
             \/ ~due /\ hv_requested' = RequestedNow(d) /\ UNCHANGED start_precharging
  /\ UNCHANGED <<precharge, outside, system_status, battery_configured, BMS_mode,
                 startup_bms_checked>>

TransmitPass == \E d \in {0, 1}, due \in BOOLEAN : transmit_can(d, due)

-----------------------------------------------------------------------------
(* The others. *)

\* reset_BMS() of the web page, the end of the crash reset routine.
reset_BMS ==
  /\ UserRequestBMSReset' = TRUE
  /\ UNCHANGED <<prechargeVars, hv, contact, bms_reset_state, bms_reset_age, pause>>

\* A restart of the emulator; the BMS stays as it is.
MebReboot ==
  /\ precharge_status' = "IDLE" /\ hia4v1' = FALSE /\ inverter_disconnect' = NormallyOpen
  /\ freq' = DefaultFreq /\ prev_external_voltage' = Unread /\ precharge_age' = 0
  /\ start_precharging' = FALSE /\ BMS_voltage_intermediate_dV' = 0
  /\ real_bms_status' = "DISCONNECTED" /\ battery_allows_contactor_closing' = FALSE
  /\ inverter_allows_contactor_closing' = TRUE /\ system_status' = "ACTIVE"
  /\ BMS_mode' = "INIT" /\ hv_requested' = FALSE
  /\ can_age' = 0 /\ first_can_age' = NoCan
  /\ startup_bms_checked' = FALSE /\ UserRequestBMSReset' = FALSE
  /\ bms_reset_state' = "IDLE" /\ bms_reset_age' = 0
  /\ pause' = FALSE
  /\ UNCHANGED <<equipment_stop_active, battery_configured>>

\* What this driver does not decide about the precharge.
MebOutside == OutsideChanges /\ UNCHANGED mebOnly

MebPrecharge == PrechargePass /\ UNCHANGED mebOnly

MebInit ==
  /\ PrechargeInit
  /\ BMS_mode = "INIT" /\ hv_requested = FALSE
  /\ can_age = 0 /\ first_can_age = NoCan
  /\ startup_bms_checked = FALSE /\ UserRequestBMSReset = FALSE
  /\ bms_reset_state = "IDLE" /\ bms_reset_age = 0
  /\ pause = FALSE

Frames == (\E mode \in Modes, link \in MebLinks : Bms20(mode, link)) \/ OtherFrame

MebNext ==
  \/ MebPrecharge \/ Frames \/ TransmitPass
  \/ reset_BMS \/ MebReboot \/ MebOutside

MebAlone == MebInit /\ battery_configured

MebSpec == MebAlone /\ [][MebNext]_mebVars

-----------------------------------------------------------------------------
(* Properties. *)

\* "Reset the HV requested state so that we don't skip the precharge": a request
\* for HV is only on record while a BMS on standby is in contact.  It outlives
\* neither the loss of CAN nor a reset, a fault or the closing it asked for.
RequestNeedsContact ==
  hv_requested => real_bms_status = "STANDBY" /\ first_can_age # NoCan

\* The driver and the precharge it runs with: status, outputs, frequency and the
\* request agree after every frame and every pass.
MebInv == MebTypeOK /\ OutputsMatchStatus /\ FreqInRange /\ RequestNeedsContact

\* A reset comes to its end whatever the BMS does, also one that never stops
\* talking, and gives the power back that it has taken.
ResetEnds == bms_reset_state # "IDLE" ~> bms_reset_state = "IDLE" /\ ~pause

\* "... a sequence is never started that the next tick would abort - which would
\* otherwise toggle the inverter-disconnect contactor on every pass".
NoToggling ==
  <>[]~precharge_conditions_ok(real_bms_status) => <>[][UNCHANGED inverter_disconnect]_precharge

Willing ==
  /\ inverter_allows_contactor_closing /\ ~equipment_stop_active
  /\ system_status = "ACTIVE" /\ bms_reset_state = "IDLE"
  /\ real_bms_status = "STANDBY" /\ BMS_mode = "HV_OFF"
  /\ first_can_age # NoCan

\* While nothing is against it, a BMS that reports HV off is precharged or asked
\* for HV: driver and precharge do not end up waiting for each other, after
\* whatever stops, losses, faults and closings.
StartHappens ==
  <>[]Willing => []<>(precharge_status \in {"PRECHARGING", "FAILURE"} \/ hv_requested)

\* "Record that we've requested HV, so that we keep doing so even if the
\* precharge voltage wavers", but "reset the HV requested state so that we don't
\* skip the precharge": a driver that asks for HV off has no request left that
\* would bring the HV back without a precharge.
HvOffEndsRequest ==
  [][(\E d \in {0, 1} : AskForHvOff(d) /\ transmit_can(d, TRUE) /\ ~bms_reset_tx_suppressed')
       => ~hv_requested']_mebVars
=============================================================================
