---------------------------- MODULE PauseProofs ----------------------------
(***************************************************************************)
(* The safety properties of Pause, for every pair of restart times.  Their *)
(* conjunction with the type invariant is inductive: each part is kept by  *)
(* every call, by the one second sub-task and by a boot.  And of the       *)
(* composition with the contactors: what a stop has opened stays open      *)
(* through everything but a resume.                                        *)
(***************************************************************************)
EXTENDS EquipmentStop, TLAPS

PauseInv == PauseTypeOK /\ PauseCoherent /\ NoPowerWhilePaused /\ StopSurvivesBoot

\* A call settles at once: whatever it asks for, the status it leaves agrees
\* with the request and nothing is allowed to flow under a pause.
LEMMA CallKeepsPause ==
  ASSUME PauseInv, NEW pausing \in BOOLEAN, NEW pauseCAN \in BOOLEAN,
         NEW stopping, NEW store,
         setBatteryPause(pausing, pauseCAN, stopping, store)
  PROVE  /\ emulator_pause_status' \in PauseStatus
         /\ emulator_pause_request_ON' \in BOOLEAN
         /\ emulator_pause_CAN_send_ON' \in BOOLEAN
         /\ allowed_to_send_CAN' \in BOOLEAN
         /\ power_allowed' \in BOOLEAN
         /\ PauseCoherent'
         /\ NoPowerWhilePaused'
  BY DEF PauseInv, PauseTypeOK, setBatteryPause, Settled, MaySend, PauseStatus,
         PauseCoherent, NoPowerWhilePaused

\* The stop and its copy in flash move together when the caller stores it, and
\* not at all when it leaves the stop alone.
LEMMA CallKeepsStop ==
  ASSUME PauseInv, NEW stopping, NEW store \in BOOLEAN,
         HandleStop(stopping, store),
         store \/ stopping = "UNCHANGED"
  PROVE  /\ equipment_stop_active' \in BOOLEAN
         /\ stored_equipment_stop' \in BOOLEAN
         /\ stop_event' \in BOOLEAN
         /\ StopSurvivesBoot'
  BY DEF PauseInv, PauseTypeOK, HandleStop, StopSurvivesBoot, stop

LEMMA NoRestartInRange == NoRestart \in NoRestart..(RestartAlways + 1)
  BY RestartAssumption DEF NoRestart

LEMMA InitPause == PauseInit => PauseInv
<1> SUFFICES ASSUME PauseInit PROVE PauseInv
  OBVIOUS
<1>1. emulator_restart_request \in NoRestart..(RestartAlways + 1)
  BY NoRestartInRange DEF PauseInit
<1>2. /\ emulator_pause_request_ON \in BOOLEAN /\ emulator_pause_CAN_send_ON \in BOOLEAN
      /\ allowed_to_send_CAN \in BOOLEAN /\ power_allowed \in BOOLEAN
      /\ equipment_stop_active \in BOOLEAN /\ stored_equipment_stop \in BOOLEAN
      /\ stop_event \in BOOLEAN /\ current_low \in BOOLEAN
      /\ NoPowerWhilePaused /\ StopSurvivesBoot
  BY Zenon DEF PauseInit, NoPowerWhilePaused, StopSurvivesBoot
<1>3. emulator_pause_status \in PauseStatus /\ PauseCoherent
  BY DEF PauseInit, PauseStatus, PauseCoherent
<1> QED
  BY <1>1, <1>2, <1>3 DEF PauseInv, PauseTypeOK

LEMMA CallsKeepInv == PauseInv /\ Calls => PauseInv'
<1> SUFFICES ASSUME PauseInv, Calls PROVE PauseInv'
  OBVIOUS
<1>1. PICK pausing \in BOOLEAN, stopping \in {"STOP", "RESUME", "UNCHANGED"}, store \in BOOLEAN :
        /\ setBatteryPause(pausing, FALSE, stopping, store)
        /\ store \/ stopping = "UNCHANGED"
  <2>1. CASE EquipmentStop
    BY <2>1 DEF EquipmentStop
  <2>2. CASE EquipmentResume
    BY <2>2 DEF EquipmentResume
  <2>3. CASE PauseRequest
    BY <2>3 DEF PauseRequest
  <2>4. CASE ResumeRequest
    BY <2>4 DEF ResumeRequest
  <2>5. CASE graceful_restart
    BY <2>5 DEF graceful_restart
  <2> QED
    BY <2>1, <2>2, <2>3, <2>4, <2>5 DEF Calls
<1>2. current_low' \in BOOLEAN /\ emulator_restart_request' \in NoRestart..(RestartAlways + 1)
  <2>1. 0 \in NoRestart..(RestartAlways + 1)
    BY RestartAssumption DEF NoRestart
  <2>2. current_low' = current_low
    BY DEF Calls, EquipmentStop, EquipmentResume, PauseRequest, ResumeRequest, graceful_restart
  <2>3. emulator_restart_request' = 0 \/ emulator_restart_request' = emulator_restart_request
    BY DEF Calls, EquipmentStop, EquipmentResume, PauseRequest, ResumeRequest, graceful_restart
  <2> QED
    BY <2>1, <2>2, <2>3 DEF PauseInv, PauseTypeOK
<1>3. HandleStop(stopping, store)
  BY <1>1 DEF setBatteryPause
<1>4. /\ equipment_stop_active' \in BOOLEAN /\ stored_equipment_stop' \in BOOLEAN
      /\ stop_event' \in BOOLEAN /\ StopSurvivesBoot'
  BY <1>1, <1>3, CallKeepsStop
<1>5. /\ emulator_pause_status' \in PauseStatus /\ emulator_pause_request_ON' \in BOOLEAN
      /\ emulator_pause_CAN_send_ON' \in BOOLEAN /\ allowed_to_send_CAN' \in BOOLEAN
      /\ power_allowed' \in BOOLEAN /\ PauseCoherent' /\ NoPowerWhilePaused'
  BY <1>1, CallKeepsPause
<1> QED
  BY <1>2, <1>4, <1>5 DEF PauseInv, PauseTypeOK

\* The one second sub-task takes the pause on and writes the limits, which the
\* request still standing keeps at zero.
LEMMA SecondKeepsInv == PauseInv /\ OneSecond => PauseInv'
<1> SUFFICES ASSUME PauseInv, OneSecond PROVE PauseInv'
  OBVIOUS
<1>1. RestartAge \in NoRestart..(RestartAlways + 1)
  BY RestartAssumption DEF RestartAge, PauseInv, PauseTypeOK, NoRestart
<1>2. emulator_pause_status' \in PauseStatus /\ allowed_to_send_CAN' \in BOOLEAN /\ PauseCoherent'
  BY DEF OneSecond, update_pause_state, Settled, MaySend, PauseInv, PauseTypeOK,
         PauseStatus, PauseCoherent
<1>3. power_allowed' \in BOOLEAN /\ NoPowerWhilePaused'
  BY DEF OneSecond, update_pause_state, LimitsAllowed, PauseInv, PauseTypeOK, NoPowerWhilePaused
<1> QED
  BY <1>1, <1>2, <1>3 DEF OneSecond, update_pause_state, stop, PauseInv, PauseTypeOK, StopSurvivesBoot

LEMMA BootKeepsInv == PauseInv /\ Boot => PauseInv'
<1> SUFFICES ASSUME PauseInv, Boot PROVE PauseInv'
  OBVIOUS
<1>1. emulator_restart_request' \in NoRestart..(RestartAlways + 1)
  BY NoRestartInRange DEF Boot
<1>2. /\ emulator_pause_request_ON' \in BOOLEAN /\ emulator_pause_CAN_send_ON' \in BOOLEAN
      /\ allowed_to_send_CAN' \in BOOLEAN /\ power_allowed' \in BOOLEAN
      /\ equipment_stop_active' \in BOOLEAN /\ stored_equipment_stop' \in BOOLEAN
      /\ stop_event' \in BOOLEAN /\ current_low' \in BOOLEAN
      /\ NoPowerWhilePaused' /\ StopSurvivesBoot'
  BY Zenon DEF Boot, PauseInv, PauseTypeOK, NoPowerWhilePaused, StopSurvivesBoot
<1>3. emulator_pause_status' \in PauseStatus /\ PauseCoherent'
  BY DEF Boot, PauseStatus, PauseCoherent
<1> QED
  BY <1>1, <1>2, <1>3 DEF PauseInv, PauseTypeOK

LEMMA NextKeepsInv == PauseInv /\ [PauseNext]_pvars => PauseInv'
<1> SUFFICES ASSUME PauseInv, [PauseNext]_pvars PROVE PauseInv'
  OBVIOUS
<1>1. CASE Calls
  BY <1>1, CallsKeepInv
<1>2. CASE OneSecond
  BY <1>2, SecondKeepsInv
<1>3. CASE Restart \/ PowerLoss
  BY <1>3, BootKeepsInv DEF Restart, PowerLoss
<1>4. CASE CurrentChanges
  BY <1>4 DEF CurrentChanges, PauseInv, PauseTypeOK, PauseCoherent, NoPowerWhilePaused,
     StopSurvivesBoot, pause, stop
<1>5. CASE reset_all_events
  BY <1>5 DEF reset_all_events, PauseInv, PauseTypeOK, PauseCoherent, NoPowerWhilePaused,
     StopSurvivesBoot, pause
<1>6. CASE UNCHANGED pvars
  BY <1>6 DEF pvars, PauseInv, PauseTypeOK, PauseCoherent, NoPowerWhilePaused,
     StopSurvivesBoot, pause, stop
<1> QED
  BY <1>1, <1>2, <1>3, <1>4, <1>5, <1>6 DEF PauseNext

\* The inductive invariant holds in every reachable state of Pause.
THEOREM PauseInductive == PauseSpec => []PauseInv
  BY InitPause, NextKeepsInv, PTL DEF PauseSpec

\* Between calls the request and the status of the pause agree, through any
\* mix of callers, restarts and power losses.
THEOREM PauseStaysCoherent == PauseSpec => []PauseCoherent
<1>1. PauseInv => PauseCoherent
  BY DEF PauseInv
<1> QED
  BY <1>1, PauseInductive, PTL

\* The power limits stay zero while a pause is requested.
THEOREM PausedMeansNoPower == PauseSpec => []NoPowerWhilePaused
<1>1. PauseInv => NoPowerWhilePaused
  BY DEF PauseInv
<1> QED
  BY <1>1, PauseInductive, PTL

\* The equipment stop in RAM and the one in flash never differ.
THEOREM StopIsStored == PauseSpec => []StopSurvivesBoot
<1>1. PauseInv => StopSurvivesBoot
  BY DEF PauseInv
<1> QED
  BY <1>1, PauseInductive, PTL

\* The type invariant of Pause.
THEOREM PauseTyped == PauseSpec => []PauseTypeOK
<1>1. PauseInv => PauseTypeOK
  BY DEF PauseInv
<1> QED
  BY <1>1, PauseInductive, PTL

-----------------------------------------------------------------------------
(* EquipmentStop, with either option for the outputs but not both: with PWM *)
(* and normally closed coils together set() with a duty loses the inversion *)

OneDrive == ~(Pwm /\ Inverted)

\* An order that stands is the stop that runs, and what it has opened is at rest
\* because the ladder does not leave DISCONNECTED under a stop.
OrderInv ==
  /\ order # "none" => equipment_stop_active
  /\ order = "opened" => AtRest

StopInv == PauseInv /\ OrderInv

LEMMA DriveOpens ==
  ASSUME OneDrive
  PROVE  ~C!Closed(C!SetDigital(FALSE)) /\ ~C!Closed(C!Set(FALSE, "off"))
  BY StopAssumption DEF OneDrive, C!Closed, C!Set, C!SetDigital

LEMMA StopStarts == StopInit => StopInv
  BY InitPause DEF StopInit, StopInv, OrderInv

\* Every step is one of Pause, or leaves what Pause is about.
LEMMA StopStepsPause == [StopNext]_evars => [PauseNext]_pvars
  BY DEF StopNext, Pass, PauseStep, Others, Reboot, PauseNext, Calls, evars

\* Under a stop a pass leaves a ladder at rest where it is.
LEMMA PassStaysAtRest ==
  ASSUME OneDrive, equipment_stop_active, AtRest,
         NEW d \in 1..MaxDelay, C!handle_contactors(d)
  PROVE  AtRest'
<1>1. ~C!MayClose
  BY DEF C!MayClose
<1>2. C!Shutdown(d) \/ C!StayOpen(d)
  BY <1>1 DEF AtRest, C!handle_contactors, C!FaultLatched, C!Shutdown, C!StayOpen,
     C!CloseNegative, C!ClosePrecharge, C!ClosePositive, C!OpenPrecharge, C!LadderWaits,
     C!OpenForInverter, C!OpenForEStop, C!HoldForEStop, C!StayClosed
<1>3. contactorStatus' \in {"DISCONNECTED", "SHUTDOWN_REQUESTED"} /\ C!OpenMain
  BY <1>1, <1>2 DEF C!Shutdown, C!StayOpen
<1> QED
  BY <1>3, DriveOpens DEF AtRest, C!OpenMain, C!MainOpen, C!Closed

\* The order that stands is the stop that runs: only the call that resumes ends it.
LEMMA CallsKeepOrder ==
  ASSUME StopInv, PauseStep, order' # "none"
  PROVE  equipment_stop_active'
<1>1. CASE EquipmentStop
  <2>1. HandleStop("STOP", TRUE)
    BY <1>1 DEF EquipmentStop, setBatteryPause
  <2>2. \/ equipment_stop_active' = TRUE
        \/ equipment_stop_active /\ equipment_stop_active' = equipment_stop_active
    BY <2>1 DEF HandleStop, stop
  <2> QED
    BY <2>2
<1>2. CASE /\ PauseRequest \/ ResumeRequest \/ graceful_restart
              \/ OneSecond \/ CurrentChanges \/ reset_all_events
           /\ UNCHANGED order
  <2>1. UNCHANGED equipment_stop_active
    BY <1>2 DEF PauseRequest, ResumeRequest, graceful_restart, OneSecond, CurrentChanges,
       reset_all_events, setBatteryPause, HandleStop, stop
  <2> QED
    BY <1>2, <2>1 DEF StopInv, OrderInv
<1> QED
  BY <1>1, <1>2 DEF PauseStep

LEMMA StopSteps ==
  ASSUME OneDrive, StopInv, [StopNext]_evars
  PROVE  StopInv'
<1>1. PauseInv'
  BY StopStepsPause, NextKeepsInv DEF StopInv
<1>2. OrderInv'
  <2>1. CASE Pass
    <3>1. order' # "none" => equipment_stop_active'
      BY <2>1 DEF Pass, OrderFollows, pvars, stop, StopInv, OrderInv
    <3>2. ASSUME order' = "opened" PROVE AtRest'
      <4>1. CASE order = "opened"
        BY <2>1, <4>1, PassStaysAtRest DEF Pass, StopInv, OrderInv
      <4>2. CASE order # "opened"
        BY <2>1, <3>2, <4>2 DEF Pass, OrderFollows
      <4> QED
        BY <4>1, <4>2
    <3> QED
      BY <3>1, <3>2 DEF OrderInv
  <2>2. CASE PauseStep
    <3>1. order' = "opened" => order = "opened"
      BY <2>2 DEF PauseStep
    <3>2. AtRest => AtRest'
      BY <2>2 DEF PauseStep, machine, AtRest, C!MainOpen, C!Closed
    <3> QED
      BY <2>2, <3>1, <3>2, CallsKeepOrder DEF StopInv, OrderInv
  <2>3. CASE Others
    BY <2>3 DEF Others, pvars, stop, machine, AtRest, C!MainOpen, C!Closed, StopInv, OrderInv
  <2>4. CASE Reboot
    <3>1. AtRest'
      BY <2>4, DriveOpens DEF Reboot, AtRest, C!MainOpen, C!Closed
    <3>2. order' # "none" => equipment_stop_active'
      BY <2>4 DEF Reboot, Restart, PowerLoss, Boot, OrderFollows, StopInv, OrderInv,
         PauseInv, StopSurvivesBoot
    <3> QED
      BY <3>1, <3>2 DEF OrderInv
  <2>5. CASE UNCHANGED evars
    BY <2>5 DEF evars, pvars, stop, machine, AtRest, C!MainOpen, C!Closed, StopInv, OrderInv
  <2> QED
    BY <2>1, <2>2, <2>3, <2>4, <2>5 DEF StopNext
<1> QED
  BY <1>1, <1>2 DEF StopInv

\* For any times and delays: what a stop has opened no restart, power loss, other
\* caller, event or permission closes before a user resumes (setBatteryPause,
\* handle_contactors, the stop read back from flash).
THEOREM StopHoldsOpen ==
  ASSUME OneDrive
  PROVE  StopSpec => []StopHolds
<1>1. StopInv => StopHolds
  BY DEF StopInv, OrderInv, StopHolds
<1>2. StopInv /\ [StopNext]_evars => StopInv'
  BY StopSteps
<1> QED
  BY <1>1, <1>2, StopStarts, PTL DEF StopSpec
=============================================================================
