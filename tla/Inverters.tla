----------------------------- MODULE Inverters -----------------------------
(***************************************************************************)
(* How three inverter drivers turn what the inverter sends into            *)
(* inverter_allows_contactor_closing, and how its silence is noticed:      *)
(*   SOLAX    a handshake over CAN, replayed when the DC bus has dropped;  *)
(*   KOSTAL   requests over RS485, with a contactor test;                  *)
(*   SMA      an input pin, beside frames that only count as life.         *)
(* With KOSTAL the S-BOX may be the one that follows the permission; with  *)
(* the others whoever closes the contactors is free (OtherContactors).     *)
(* Handlers, passes and the serial stream all run in the core loop.        *)
(***************************************************************************)
EXTENDS BmwSbox

CONSTANTS
  CanStillAlive,          \* CAN_STILL_ALIVE, passes of one second
  StartupGrace,           \* INVERTER_STARTUP_GRACE_MS, passes
  FrameTimeout,           \* INTERVAL_2_S, passes
  TestTime,               \* the 5000 ms of a contactor test, passes
  InfoRequests            \* the 7 requests after which KOSTAL closes

ASSUME InverterAssumption ==
  {CanStillAlive, StartupGrace, FrameTimeout, TestTime, InfoRequests} \subseteq Nat \ {0}

VARIABLES
  inverter, contactor_mode, long_timeout, sbox_fitted,      \* settings
  CAN_inverter_still_alive, slow_start_counter,
  missing,                      \* EVENT_CAN_INVERTER_MISSING is active
  inverter_detected,
  uptime, silent,               \* passes since the start; history: since a frame
  state, bus_watch, frame_age,  \* SOLAX; the age of LastFrameTime
  asked,                        \* history: asked to close since the last withdrawal
  listening, info_sent,         \* KOSTAL; RX_allow and register_content_ok
  f2_startup_count, test_age

settings == <<inverter, contactor_mode, long_timeout, sbox_fitted>>
lifeVars == <<CAN_inverter_still_alive, slow_start_counter, missing, inverter_detected,
              uptime, silent>>
solaxVars == <<state, bus_watch, frame_age, asked>>
kostalVars == <<listening, info_sent, f2_startup_count, test_age>>
ivars == <<settings, lifeVars, solaxVars, kostalVars, inverter_allows_contactor_closing,
           sboxVars>>

\* The bus itself is left out: SOLAX reads it, the S-BOX and the others write it.
sboxOthers == <<contactorStatus, relays, sent, stage_age, timeSpentInFaultedMode,
                contactors_engaged, precharging, measured, precharged_for>>

NoTest == -1
Follows == contactor_mode = "NoWorkaround"
Refresh == IF inverter = "SMA" THEN 3 * CanStillAlive ELSE CanStillAlive
Slowness == IF long_timeout THEN 3 ELSE 1
Forgotten == 9 * CanStillAlive + 1     \* the bound of silent: beyond every patience

InverterTypeOK ==
  /\ inverter \in {"SOLAX", "KOSTAL", "SMA"}
  /\ contactor_mode \in {"NoWorkaround", "AlwaysClosed", "LockAfterFirstClose"}
  /\ {long_timeout, sbox_fitted, missing, inverter_detected, asked, listening, info_sent}
       \subseteq BOOLEAN
  /\ CAN_inverter_still_alive \in 0..Refresh /\ slow_start_counter \in 0..2
  /\ uptime \in 0..(StartupGrace + 1) /\ silent \in 0..Forgotten
  /\ state \in {"BATTERY_ANNOUNCE", "WAITING_FOR_CONTACTOR", "CONTACTOR_CLOSED"}
  /\ bus_watch \in {"WAIT_LIVE", "LIVE", "DROPPED"}
  /\ frame_age \in 0..FrameTimeout
  /\ f2_startup_count \in 0..(InfoRequests + 1)
  /\ test_age \in {NoTest} \cup 0..TestTime
  /\ SboxTypeOK

-----------------------------------------------------------------------------
(* Life: the pass of update_machineryprotection(), once a second. *)

\* Mutant: the grace lasts until the first frame, however long.
GracedUntilSeen == inverter = "SMA" /\ ~inverter_detected

Graced == inverter = "SMA" /\ uptime <= StartupGrace

MissingNow == IF CAN_inverter_still_alive = 0 THEN missing \/ ~Graced ELSE FALSE

\* One less, with the long timeout on every third pass only.
CountNow ==
  CAN_inverter_still_alive -
    (IF /\ CAN_inverter_still_alive > 0
        /\ long_timeout => slow_start_counter = 2
     THEN 1 ELSE 0)

CountLife ==
  /\ inverter_detected' = (inverter_detected \/ CAN_inverter_still_alive >= CanStillAlive)
  /\ missing' = MissingNow
  /\ CAN_inverter_still_alive' = CountNow
  /\ slow_start_counter' =
       IF long_timeout /\ CAN_inverter_still_alive > 0
       THEN (slow_start_counter + 1) % 3 ELSE slow_start_counter

CanFrame ==
  /\ CAN_inverter_still_alive' = Refresh /\ silent' = 0
  /\ UNCHANGED <<slow_start_counter, missing, inverter_detected, uptime>>

-----------------------------------------------------------------------------
(* SOLAX: map_can_frame_to_variable() and update_values(). *)

BusNext ==
  IF bus_watch = "WAIT_LIVE" /\ dc_bus_live THEN "LIVE"
  ELSE IF bus_watch = "LIVE" /\ ~dc_bus_live THEN "DROPPED" ELSE bus_watch

Announce ==
  /\ state = "BATTERY_ANNOUNCE"
  /\ UNCHANGED <<bus_watch, inverter_allows_contactor_closing>>

\* Mutant: the watch is not started anew.
WaitingKeepsWatch ==
  /\ state = "WAITING_FOR_CONTACTOR" /\ state' = "CONTACTOR_CLOSED"
  /\ UNCHANGED <<bus_watch, inverter_allows_contactor_closing>>

Waiting ==
  /\ state = "WAITING_FOR_CONTACTOR" /\ state' = "CONTACTOR_CLOSED"
  /\ bus_watch' = "WAIT_LIVE"
  /\ UNCHANGED inverter_allows_contactor_closing

\* payload: "close" and "open" are 0x02 0001 with byte 4 set or not, "poll" any
\* other frame of type 1 or 2.
Handshake(payload) ==
  LET opens == payload = "open" /\ Follows
      replays == bus_watch = "DROPPED" /\ dc_bus_live
  IN  \/ Announce /\ state' = IF payload = "close" THEN "WAITING_FOR_CONTACTOR" ELSE state
      \/ Waiting
      \/ /\ state = "CONTACTOR_CLOSED"
         /\ inverter_allows_contactor_closing' = ~opens
         /\ state' = IF opens \/ replays THEN "BATTERY_ANNOUNCE" ELSE state
         /\ bus_watch' = BusNext

\* The permission ends, or the handshake starts again without one.
Withdrawn ==
  /\ ~inverter_allows_contactor_closing'
  /\ inverter_allows_contactor_closing \/ state' = "BATTERY_ANNOUNCE"

map_can_frame_to_variable(payload) ==
  /\ inverter = "SOLAX" /\ frame_age' = 0
  /\ IF contactor_mode = "AlwaysClosed"
     THEN inverter_allows_contactor_closing' = TRUE /\ UNCHANGED <<state, bus_watch>>
     ELSE Handshake(payload)
  /\ asked' = ((asked \/ payload = "close") /\ ~Withdrawn)
  /\ CanFrame /\ UNCHANGED <<settings, kostalVars, sboxVars>>

\* A frame of another type, or any of an inverter that uses the pin.
OtherFrame ==
  /\ inverter \in {"SOLAX", "SMA"} /\ CanFrame
  /\ UNCHANGED <<settings, solaxVars, kostalVars, inverter_allows_contactor_closing, sboxVars>>

TimedOut(age) == age >= FrameTimeout /\ Follows

\* Mutant: the timeout leaves the state where it was.
SolaxUpdateKeepsState(age) ==
  /\ frame_age' = age /\ UNCHANGED <<state, bus_watch>>
  /\ inverter_allows_contactor_closing' =
       (inverter_allows_contactor_closing /\ ~TimedOut(age))
  /\ asked' = (asked /\ ~Withdrawn)

SolaxUpdate(age) ==
  /\ frame_age' = age /\ UNCHANGED bus_watch
  /\ inverter_allows_contactor_closing' =
       (inverter_allows_contactor_closing /\ ~TimedOut(age))
  /\ state' = IF TimedOut(age) THEN "BATTERY_ANNOUNCE" ELSE state
  /\ asked' = (asked /\ ~Withdrawn)

-----------------------------------------------------------------------------
(* KOSTAL *)

setInverterAllows(on) == inverter_allows_contactor_closing' = (on \/ ~Follows)

\* Mutant: the S-BOX is not asked about.
EnoughRequestsAnyShunt == f2_startup_count > InfoRequests

EnoughRequests == f2_startup_count > InfoRequests /\ ~sbox_fitted

KostalUpdate ==
  IF EnoughRequests THEN setInverterAllows(TRUE)
  ELSE UNCHANGED inverter_allows_contactor_closing

TestOver == test_age = TestTime

\* receive() ends a test before it looks at what was received.
EndTest ==
  /\ inverter = "KOSTAL" /\ TestOver
  /\ setInverterAllows(TRUE) /\ test_age' = NoTest
  /\ UNCHANGED <<settings, lifeVars, solaxVars, listening, info_sent, f2_startup_count, sboxVars>>

\* 5E 00 and 5E 04, the set state function.
SetState(request) ==
  /\ info_sent /\ setInverterAllows(request = "allow")
  /\ test_age' = IF request = "test" THEN 0 ELSE test_age
  /\ UNCHANGED <<info_sent, f2_startup_count>>

\* 44 a, the cyclic data.
CyclicData ==
  /\ info_sent /\ KostalUpdate
  /\ f2_startup_count' = Capped(f2_startup_count + 1, InfoRequests + 1)
  /\ UNCHANGED <<info_sent, test_age>>

\* 84 a, the battery info.
BatteryInfo ==
  /\ setInverterAllows(FALSE) /\ info_sent' = TRUE
  /\ UNCHANGED <<f2_startup_count, test_age>>

receive(request) ==
  /\ inverter = "KOSTAL" /\ listening /\ ~TestOver
  /\ CASE request \in {"allow", "test"} -> SetState(request)
       [] request = "cyclic"            -> CyclicData
       [] request = "info"              -> BatteryInfo
  /\ UNCHANGED <<settings, lifeVars, solaxVars, listening, sboxVars>>

-----------------------------------------------------------------------------
(* The passes, the pin, the other contactors. *)

CanSecond ==
  /\ CountLife
  /\ silent' = Capped(silent + 1, Forgotten)
  /\ uptime' = Capped(uptime + 1, StartupGrace + 1)
  /\ UNCHANGED kostalVars

\* A frame may have come at the moment of the pass before (d = 1) or just now;
\* and likewise a test may have been started.
Second(d) ==
  /\ \/ inverter = "SOLAX" /\ CanSecond /\ SolaxUpdate(Capped(frame_age + d, FrameTimeout))
     \/ inverter = "SMA" /\ CanSecond
        /\ UNCHANGED <<solaxVars, inverter_allows_contactor_closing>>
     \/ /\ inverter = "KOSTAL" /\ KostalUpdate
        /\ listening' \in {listening, TRUE}
        /\ test_age' = IF test_age = NoTest THEN NoTest ELSE Capped(test_age + d, TestTime)
        /\ UNCHANGED <<lifeVars, info_sent, f2_startup_count, solaxVars>>
  /\ UNCHANGED <<settings, sboxVars>>

\* The first pass after a CAN frame comes within a second of it, every other one
\* a second after the pass before.  (For KOSTAL, which counts neither, silent
\* stays 0 and d is free: its test may be polled for late.)
SecondPass == \E d \in {0, 1} : (d = 1 \/ silent = 0) /\ Second(d)

handle_contactors ==
  /\ inverter = "SMA"
  /\ inverter_allows_contactor_closing' \in BOOLEAN
  /\ UNCHANGED <<settings, lifeVars, solaxVars, kostalVars, sboxVars>>

OtherContactors ==
  /\ inverter = "SOLAX"
  /\ dc_bus_live' = ~dc_bus_live
  /\ UNCHANGED <<settings, lifeVars, solaxVars, kostalVars, inverter_allows_contactor_closing,
                 sboxOthers>>

InverterFrame ==
  \/ \E payload \in {"poll", "close", "open"} : map_can_frame_to_variable(payload)
  \/ OtherFrame
  \/ \E request \in {"allow", "test", "cyclic", "info"} : receive(request)

SboxStep ==
  /\ sbox_fitted /\ (SboxPass \/ SboxSurroundings)
  /\ UNCHANGED <<settings, lifeVars, solaxVars, kostalVars, inverter_allows_contactor_closing>>

\* setup() withdraws the permission unless the mode is AlwaysClosed, KOSTAL's
\* unless the mode is either of the two.
InvertersInit ==
  /\ inverter \in {"SOLAX", "KOSTAL", "SMA"}
  /\ contactor_mode \in {"NoWorkaround", "AlwaysClosed", "LockAfterFirstClose"}
  /\ inverter = "SMA" => Follows               \* which it does not read
  /\ long_timeout \in BOOLEAN /\ (long_timeout => inverter # "KOSTAL")
  /\ sbox_fitted \in BOOLEAN /\ (sbox_fitted => inverter = "KOSTAL" /\ Follows)
  /\ CAN_inverter_still_alive = CanStillAlive - 1 /\ slow_start_counter = 0
  /\ missing = FALSE /\ inverter_detected = FALSE /\ uptime = 0 /\ silent = 0
  /\ state = "BATTERY_ANNOUNCE" /\ bus_watch = "WAIT_LIVE" /\ frame_age = 0
  /\ asked = FALSE /\ listening = FALSE /\ info_sent = FALSE
  /\ f2_startup_count = 0 /\ test_age = NoTest
  /\ inverter_allows_contactor_closing =
       (contactor_mode = "AlwaysClosed"
        \/ (inverter = "KOSTAL" /\ ~Follows))
  /\ SboxInit

InvertersNext ==
  \/ SecondPass \/ InverterFrame \/ EndTest \/ handle_contactors \/ OtherContactors
  \/ SboxStep

\* The core loop goes on: seconds pass, receive() looks at its timer, and the
\* S-BOX, where there is one, gets its frames.
InvertersFairness ==
  /\ WF_ivars(Second(1)) /\ WF_ivars(EndTest)
  /\ WF_ivars(sbox_fitted /\ transmit_can(1)
              /\ UNCHANGED <<settings, lifeVars, solaxVars, kostalVars,
                             inverter_allows_contactor_closing>>)

InvertersSpec == InvertersInit /\ [][InvertersNext]_ivars /\ InvertersFairness

-----------------------------------------------------------------------------
(* Properties: those of BmwSbox, and *)

\* The loss of a CAN inverter is noticed after as many silent passes as its last
\* refresh promised, three times as many with the long timeout, whatever the
\* counter's phase and once the grace of a slow starter is over.
LossNoticed ==
  [][SecondPass /\ inverter # "KOSTAL" /\ silent >= Refresh * Slowness
       => missing' \/ (uptime <= StartupGrace /\ inverter = "SMA")]_ivars

\* "clear any previously raised missing-event regardless of which timeout mode
\* is active": the alarm stands only over a silence that earned it, also where
\* the counter starts at boot one below its refresh.
AlarmEarned ==
  [][SecondPass /\ missing' =>
       silent' >= IF long_timeout THEN 3 * CanStillAlive - 2 ELSE CanStillAlive]_ivars

\* "If not receiving any communication from the inverter, open contactors": in
\* the following mode no state of the handshake, a replay included, keeps the
\* permission over a silence.
SilentInverterOpens ==
  [][SecondPass /\ inverter = "SOLAX" /\ Follows /\ silent' > FrameTimeout
       => ~inverter_allows_contactor_closing']_ivars

\* "The inverter needs to allow first": after a boot, a timeout or an open
\* request SOLAX has the permission only if it asked for it again.
PermissionAsked ==
  inverter = "SOLAX" /\ contactor_mode # "AlwaysClosed"
    /\ inverter_allows_contactor_closing => asked

\* The counters, timers and states of the inverters, and the permission SOLAX has.
InverterInv == InverterTypeOK /\ PermissionAsked

\* "Keep contactors always closed", "then ignore opens": what the two modes have
\* given no request, timeout or test takes back.
LockHolds ==
  [][~Follows /\ inverter_allows_contactor_closing => inverter_allows_contactor_closing']_ivars

\* "Replay the handshake once the battery has closed its contactors": a drop that
\* SOLAX saw is not left pending once the bus is live for good.
ReplayHappens ==
  []<><<map_can_frame_to_variable("poll")>>_ivars /\ <>[]dc_bus_live
    => <>[](state # "CONTACTOR_CLOSED" \/ bus_watch # "DROPPED")

\* While a KOSTAL tests contactors that an S-BOX drives, its permission comes
\* back only by the inverter's word or by the end of the test.
TestHeld ==
  [][ /\ sbox_fitted /\ test_age # NoTest
      /\ ~inverter_allows_contactor_closing /\ inverter_allows_contactor_closing'
      => EndTest \/ receive("allow")]_ivars
=============================================================================
