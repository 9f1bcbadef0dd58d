--------------------------- MODULE InverterProofs ---------------------------
(***************************************************************************)
(* For every timing constant and every voltage the S-BOX may measure: what *)
(* the S-BOX reports is true of the relays, SOLAX has its permission only  *)
(* when it asked and loses it when it falls silent, the modes that lock    *)
(* the permission lock it, and the alarm of a lost CAN inverter comes when *)
(* its counter says, neither before nor after.                             *)
(***************************************************************************)
EXTENDS Inverters, TLAPS

\* Which settings go together.
SettingsInv ==
  /\ inverter \in {"SOLAX", "KOSTAL", "SMA"}
  /\ inverter = "SMA" => Follows
  /\ sbox_fitted => inverter = "KOSTAL" /\ Follows
  /\ long_timeout \in BOOLEAN

LEMMA SettingsHold == InvertersSpec => []SettingsInv
<1>1. InvertersInit => SettingsInv
  BY DEF InvertersInit, SettingsInv
<1>2. SettingsInv /\ [InvertersNext]_ivars => SettingsInv'
  <2> SUFFICES ASSUME SettingsInv, [InvertersNext]_ivars PROVE UNCHANGED settings
    BY DEF SettingsInv, settings, Follows
  <2>1. CASE SecondPass
    BY <2>1 DEF SecondPass, Second
  <2>2. CASE InverterFrame
    BY <2>2 DEF InverterFrame, map_can_frame_to_variable, OtherFrame, receive
  <2>3. CASE EndTest \/ handle_contactors \/ OtherContactors \/ SboxStep
    BY <2>3 DEF EndTest, handle_contactors, OtherContactors, SboxStep
  <2>4. CASE UNCHANGED ivars
    BY <2>4 DEF ivars
  <2> QED
    BY <2>1, <2>2, <2>3, <2>4 DEF InvertersNext
<1> QED
  BY <1>1, <1>2, PTL DEF InvertersSpec

\* The steps under which the permission, and what SOLAX keeps, do not move.
LEMMA Unmoved ==
  ASSUME OtherFrame \/ OtherContactors \/ SboxStep \/ UNCHANGED ivars
  PROVE  UNCHANGED <<solaxVars, inverter_allows_contactor_closing>>
  BY DEF OtherFrame, OtherContactors, SboxStep, ivars

-----------------------------------------------------------------------------
(* The locked modes and the test *)

LEMMA LockedSteps ==
  SettingsInv /\ [InvertersNext]_ivars
    => (~Follows /\ inverter_allows_contactor_closing => inverter_allows_contactor_closing')
<1> SUFFICES ASSUME SettingsInv, [InvertersNext]_ivars,
                    ~Follows, inverter_allows_contactor_closing
             PROVE  inverter_allows_contactor_closing'
  OBVIOUS
<1>1. inverter # "SMA"
  BY DEF SettingsInv
<1>2. CASE SecondPass
  <2>1. PICK d \in {0, 1} : Second(d)
    BY <1>2 DEF SecondPass
  <2>2. ~TimedOut(Capped(frame_age + d, FrameTimeout))
    BY DEF TimedOut
  <2> QED
    BY <1>1, <2>1, <2>2, Zenon DEF Second, SolaxUpdate, KostalUpdate, setInverterAllows
<1>3. ASSUME NEW payload \in {"poll", "close", "open"}, map_can_frame_to_variable(payload)
      PROVE  inverter_allows_contactor_closing'
  BY <1>3, Zenon DEF map_can_frame_to_variable, Handshake, Announce, Waiting
<1>4. ASSUME NEW request \in {"allow", "test", "cyclic", "info"}, receive(request)
      PROVE  inverter_allows_contactor_closing'
  <2>1. SetState(request) \/ CyclicData \/ BatteryInfo
    BY <1>4 DEF receive
  <2> QED
    BY <2>1, Zenon DEF SetState, CyclicData, BatteryInfo, KostalUpdate, setInverterAllows
<1>5. CASE EndTest
  BY <1>5, Zenon DEF EndTest, setInverterAllows
<1>6. CASE OtherFrame \/ OtherContactors \/ SboxStep \/ UNCHANGED ivars
  BY <1>6, Unmoved
<1>7. CASE handle_contactors
  BY <1>1, <1>7 DEF handle_contactors
<1> QED
  BY <1>2, <1>3, <1>4, <1>5, <1>6, <1>7 DEF InvertersNext, InverterFrame

\* Under AlwaysClosed and LockAfterFirstClose no request, timeout or test of the
\* inverter takes the permission back.
THEOREM ModesLock == InvertersSpec => LockHolds
<1> QED
  BY SettingsHold, LockedSteps, PTL DEF InvertersSpec, LockHolds

LEMMA TestSteps ==
  ASSUME SettingsInv, [InvertersNext]_ivars, sbox_fitted,
         ~inverter_allows_contactor_closing, inverter_allows_contactor_closing'
  PROVE  EndTest \/ receive("allow")
<1>1. inverter = "KOSTAL" /\ Follows
  BY DEF SettingsInv
<1>2. CASE SecondPass
  <2>1. ~EnoughRequests /\ KostalUpdate
    BY <1>1, <1>2 DEF SecondPass, Second, EnoughRequests
  <2> QED
    BY <2>1, Zenon DEF KostalUpdate
<1>3. ASSUME NEW request \in {"allow", "test", "cyclic", "info"}, receive(request)
      PROVE  receive("allow")
  <2>1. CASE request = "allow"
    BY <2>1, <1>3
  <2>2. CASE request \in {"test", "info"}
    <3>1. setInverterAllows(FALSE)
      BY <2>2, <1>3 DEF receive, SetState, BatteryInfo
    <3> QED
      BY <3>1, <1>1, Zenon DEF setInverterAllows
  <2>3. CASE request = "cyclic"
    <3>1. KostalUpdate /\ ~EnoughRequests
      BY <2>3, <1>3 DEF receive, CyclicData, EnoughRequests
    <3> QED
      BY <3>1, Zenon DEF KostalUpdate
  <2> QED
    BY <2>1, <2>2, <2>3
<1>4. CASE OtherFrame \/ OtherContactors \/ SboxStep \/ UNCHANGED ivars
  BY <1>4, Unmoved
<1>5. ASSUME NEW payload \in {"poll", "close", "open"}, map_can_frame_to_variable(payload)
      PROVE  FALSE
  BY <1>1, <1>5 DEF map_can_frame_to_variable
<1>6. ~handle_contactors
  BY <1>1 DEF handle_contactors
<1> QED
  BY <1>2, <1>3, <1>4, <1>5, <1>6 DEF InvertersNext, InverterFrame

\* Where an S-BOX drives the contactors, only the inverter or the end of the
\* test ends a contactor test.
THEOREM TestIsHeld == InvertersSpec => TestHeld
<1>1. SettingsInv /\ [InvertersNext]_ivars =>
        (/\ sbox_fitted /\ test_age # NoTest
         /\ ~inverter_allows_contactor_closing /\ inverter_allows_contactor_closing'
         => EndTest \/ receive("allow"))
  BY TestSteps
<1> QED
  BY <1>1, SettingsHold, PTL DEF InvertersSpec, TestHeld

-----------------------------------------------------------------------------
(* SOLAX *)

\* Past the announcement SOLAX has asked.
AskedInv ==
  inverter = "SOLAX" /\ contactor_mode # "AlwaysClosed" =>
    /\ inverter_allows_contactor_closing => asked
    /\ state # "BATTERY_ANNOUNCE" => asked

LEMMA AskedSteps == SettingsInv /\ AskedInv /\ [InvertersNext]_ivars => AskedInv'
<1> SUFFICES ASSUME SettingsInv, AskedInv, [InvertersNext]_ivars,
                    inverter' = "SOLAX", contactor_mode' # "AlwaysClosed"
             PROVE  /\ inverter_allows_contactor_closing' => asked'
                    /\ state' # "BATTERY_ANNOUNCE" => asked'
  BY DEF AskedInv
<1>1. UNCHANGED settings
  <2>1. CASE SecondPass \/ InverterFrame
    BY <2>1 DEF SecondPass, Second, InverterFrame, map_can_frame_to_variable, OtherFrame, receive
  <2>2. CASE EndTest \/ handle_contactors \/ OtherContactors \/ SboxStep
    BY <2>2 DEF EndTest, handle_contactors, OtherContactors, SboxStep
  <2> QED
    BY <2>1, <2>2 DEF InvertersNext, ivars
<1>2. /\ inverter = "SOLAX" /\ contactor_mode # "AlwaysClosed"
      /\ inverter_allows_contactor_closing => asked
      /\ state # "BATTERY_ANNOUNCE" => asked
  BY <1>1 DEF settings, AskedInv
<1>3. CASE SecondPass
  <2>1. PICK d \in {0, 1} : SolaxUpdate(Capped(frame_age + d, FrameTimeout))
    BY <1>2, <1>3 DEF SecondPass, Second
  <2> DEFINE over == TimedOut(Capped(frame_age + d, FrameTimeout))
  <2>2. /\ inverter_allows_contactor_closing' = (inverter_allows_contactor_closing /\ ~over)
        /\ state' = IF over THEN "BATTERY_ANNOUNCE" ELSE state
        /\ asked' = (asked /\ ~Withdrawn)
    BY <2>1 DEF SolaxUpdate
  <2> HIDE DEF over
  <2>3. CASE over
    BY <2>2, <2>3, Zenon
  <2>4. CASE ~over
    BY <1>2, <2>2, <2>4, Zenon DEF Withdrawn
  <2> QED
    BY <2>3, <2>4
<1>4. ASSUME NEW payload \in {"poll", "close", "open"}, map_can_frame_to_variable(payload)
      PROVE  /\ inverter_allows_contactor_closing' => asked'
             /\ state' # "BATTERY_ANNOUNCE" => asked'
  <2>1. Handshake(payload) /\ asked' = ((asked \/ payload = "close") /\ ~Withdrawn)
    BY <1>2, <1>4 DEF map_can_frame_to_variable
  <2>2. CASE Announce /\ state' = IF payload = "close" THEN "WAITING_FOR_CONTACTOR" ELSE state
    <3>1. CASE payload = "close"
      <4>1. state' = "WAITING_FOR_CONTACTOR" /\ asked' = ~Withdrawn
        BY <2>1, <2>2, <3>1
      <4>2. ~Withdrawn
        BY <2>2, <4>1 DEF Withdrawn, Announce
      <4> QED
        BY <4>1, <4>2
    <3>2. CASE payload # "close"
      BY <1>2, <2>1, <2>2, <3>2 DEF Announce, Withdrawn
    <3> QED
      BY <3>1, <3>2
  <2>3. CASE Waiting
    <3>1. asked /\ state' = "CONTACTOR_CLOSED"
      BY <1>2, <2>3 DEF Waiting
    <3>2. ~Withdrawn
      BY <2>3, <3>1 DEF Waiting, Withdrawn
    <3> QED
      BY <2>1, <3>1, <3>2
  <2>4. CASE /\ state = "CONTACTOR_CLOSED"
             /\ inverter_allows_contactor_closing' = ~(payload = "open" /\ Follows)
             /\ state' = IF (payload = "open" /\ Follows) \/ (bus_watch = "DROPPED" /\ dc_bus_live)
                         THEN "BATTERY_ANNOUNCE" ELSE state
    <3>1. asked
      BY <1>2, <2>4
    <3>2. CASE payload = "open" /\ Follows
      BY <2>4, <3>2
    <3>3. CASE ~(payload = "open" /\ Follows)
      <4>1. ~Withdrawn
        BY <2>4, <3>3 DEF Withdrawn
      <4> QED
        BY <2>1, <3>1, <4>1
    <3> QED
      BY <3>2, <3>3
  <2> QED
    BY <2>1, <2>2, <2>3, <2>4 DEF Handshake
<1>5. CASE OtherFrame \/ OtherContactors \/ SboxStep \/ UNCHANGED ivars
  BY <1>2, <1>5, Unmoved DEF solaxVars
<1>6. ~EndTest /\ ~handle_contactors
  BY <1>2 DEF EndTest, handle_contactors
<1>7. \A request \in {"allow", "test", "cyclic", "info"} : ~receive(request)
  BY <1>2 DEF receive
<1> QED
  BY <1>3, <1>4, <1>5, <1>6, <1>7 DEF InvertersNext, InverterFrame

\* "The inverter needs to allow first": SOLAX has the permission only if it asked
\* to close since the last withdrawal, its own or that of a timeout.
THEOREM PermissionIsAsked == InvertersSpec => []PermissionAsked
<1>1. InvertersInit => AskedInv
  <2> SUFFICES ASSUME InvertersInit, inverter = "SOLAX", contactor_mode # "AlwaysClosed"
               PROVE  ~inverter_allows_contactor_closing /\ state = "BATTERY_ANNOUNCE"
    BY DEF AskedInv
  <2>1. inverter # "KOSTAL" /\ state = "BATTERY_ANNOUNCE"
    BY DEF InvertersInit
  <2> QED
    BY <2>1, Zenon DEF InvertersInit
<1>2. AskedInv => PermissionAsked
  BY DEF AskedInv, PermissionAsked
<1> QED
  BY <1>1, <1>2, SettingsHold, AskedSteps, PTL DEF InvertersSpec

\* A frame is never younger than the silence allows.
AgeInv ==
  inverter = "SOLAX" =>
    /\ frame_age \in 0..FrameTimeout /\ silent \in 0..Forgotten
    /\ frame_age + 1 >= silent \/ frame_age = FrameTimeout

LEMMA SecondAges ==
  ASSUME AgeInv, inverter = "SOLAX", NEW d \in {0, 1}, d = 1 \/ silent = 0, Second(d)
  PROVE  /\ frame_age' = Capped(frame_age + d, FrameTimeout)
         /\ silent' = Capped(silent + 1, Forgotten)
         /\ frame_age' \in 0..FrameTimeout /\ silent' \in 0..Forgotten
         /\ frame_age' + 1 >= silent' \/ frame_age' = FrameTimeout
         /\ silent' > FrameTimeout => frame_age' >= FrameTimeout
<1>1. /\ frame_age' = Capped(frame_age + d, FrameTimeout)
      /\ silent' = Capped(silent + 1, Forgotten)
  BY DEF Second, CanSecond, SolaxUpdate
<1>2. /\ FrameTimeout \in Nat \ {0} /\ Forgotten \in Nat \ {0}
      /\ frame_age \in 0..FrameTimeout /\ silent \in 0..Forgotten
      /\ frame_age + 1 >= silent \/ frame_age = FrameTimeout
  BY InverterAssumption DEF AgeInv, Forgotten
<1> HIDE DEF Forgotten
<1>3. CASE d = 1
  BY <1>1, <1>2, <1>3 DEF Capped
<1>4. CASE d = 0
  BY <1>1, <1>2, <1>4 DEF Capped
<1> QED
  BY <1>1, <1>3, <1>4

LEMMA AgeSteps == SettingsInv /\ AgeInv /\ [InvertersNext]_ivars => AgeInv'
<1> SUFFICES ASSUME SettingsInv, AgeInv, [InvertersNext]_ivars, inverter' = "SOLAX"
             PROVE  /\ frame_age' \in 0..FrameTimeout /\ silent' \in 0..Forgotten
                    /\ frame_age' + 1 >= silent' \/ frame_age' = FrameTimeout
  BY DEF AgeInv, Forgotten
<1>1. inverter = "SOLAX"
  <2>1. CASE SecondPass \/ InverterFrame
    BY <2>1 DEF SecondPass, Second, InverterFrame, map_can_frame_to_variable, OtherFrame,
         receive, settings
  <2>2. CASE EndTest \/ handle_contactors \/ OtherContactors \/ SboxStep
    BY <2>2 DEF EndTest, handle_contactors, OtherContactors, SboxStep, settings
  <2> QED
    BY <2>1, <2>2 DEF InvertersNext, ivars, settings
<1>2. /\ FrameTimeout \in Nat \ {0} /\ Forgotten \in Nat
      /\ frame_age \in 0..FrameTimeout /\ silent \in 0..Forgotten
      /\ frame_age + 1 >= silent \/ frame_age = FrameTimeout
  BY <1>1, InverterAssumption DEF AgeInv, Forgotten
<1>3. CASE SecondPass
  BY <1>1, <1>3, SecondAges DEF SecondPass
<1>4. ASSUME NEW payload \in {"poll", "close", "open"}, map_can_frame_to_variable(payload)
      PROVE  frame_age' = 0 /\ silent' = 0
  BY <1>4 DEF map_can_frame_to_variable, CanFrame
<1>5. CASE OtherFrame
  BY <1>2, <1>5 DEF OtherFrame, CanFrame, solaxVars
<1>6. CASE OtherContactors \/ SboxStep \/ UNCHANGED ivars
  BY <1>2, <1>6 DEF OtherContactors, SboxStep, ivars, solaxVars, lifeVars
<1>7. ~EndTest /\ ~handle_contactors
  BY <1>1 DEF EndTest, handle_contactors
<1>8. \A request \in {"allow", "test", "cyclic", "info"} : ~receive(request)
  BY <1>1 DEF receive
<1> QED
  BY <1>2, <1>3, <1>4, <1>5, <1>6, <1>7, <1>8 DEF InvertersNext, InverterFrame

\* "If not receiving any communication from the inverter, open contactors": a
\* SOLAX that follows its inverter has no permission after a silence, whatever
\* state of the handshake it is in.
THEOREM SilenceWithdraws == InvertersSpec => SilentInverterOpens
<1>1. InvertersInit => AgeInv
  BY InverterAssumption DEF InvertersInit, AgeInv, Forgotten
<1>2. AgeInv /\ [InvertersNext]_ivars =>
        (SecondPass /\ inverter = "SOLAX" /\ Follows /\ silent' > FrameTimeout
           => ~inverter_allows_contactor_closing')
  <2> SUFFICES ASSUME AgeInv, inverter = "SOLAX", Follows, silent' > FrameTimeout,
                      NEW d \in {0, 1}, d = 1 \/ silent = 0, Second(d)
               PROVE  ~inverter_allows_contactor_closing'
    BY DEF SecondPass
  <2>1. TimedOut(Capped(frame_age + d, FrameTimeout))
    BY SecondAges DEF TimedOut
  <2>2. SolaxUpdate(Capped(frame_age + d, FrameTimeout))
    BY DEF Second
  <2> QED
    BY <2>1, <2>2, Zenon DEF SolaxUpdate
<1> QED
  BY <1>1, <1>2, SettingsHold, AgeSteps, PTL DEF InvertersSpec, SilentInverterOpens

-----------------------------------------------------------------------------
(* The S-BOX *)

Climbing == {"NEGATIVE", "POSITIVE", "PRECHARGE_OFF"}

\* A ladder that climbs has told nobody that it is done, and nobody but the
\* S-BOX writes the bus where there is one.
LadderInv ==
  /\ contactorStatus \in Climbing =>
       contactors_engaged = FALSE /\ dc_bus_live = FALSE /\ sbox_fitted

LEMMA LadderSteps ==
  ASSUME LadderInv, sbox_fitted, sbox_fitted', SboxPass
  PROVE  LadderInv'
<1> USE DEF LadderInv, Climbing
<1>1. PICK d \in {0, 1} : transmit_can(d)
  BY DEF SboxPass
<1> DEFINE age == Capped(stage_age + d, LongestStage)
<1>2. \/ Shutdown
      \/ StayOpen \/ ClosePrecharge \/ CloseNegative(age) \/ ClosePositive(age)
      \/ OpenPrecharge(age) \/ LadderWaits(age) \/ StayClosed
  BY <1>1 DEF transmit_can
<1> HIDE DEF age
<1>3. CASE Shutdown
  BY <1>3 DEF Shutdown
<1>4. CASE StayOpen
  BY <1>4 DEF StayOpen
<1>5. CASE ClosePrecharge
  BY <1>5 DEF ClosePrecharge
<1>6. CASE CloseNegative(age)
  BY <1>6 DEF CloseNegative
<1>7. CASE ClosePositive(age)
  BY <1>7 DEF ClosePositive
<1>8. CASE OpenPrecharge(age)
  BY <1>8 DEF OpenPrecharge
<1>9. CASE LadderWaits(age)
  BY <1>9 DEF LadderWaits
<1>10. CASE StayClosed
  BY <1>10 DEF StayClosed
<1> QED
  BY <1>2, <1>3, <1>4, <1>5, <1>6, <1>7, <1>8, <1>9, <1>10

LEMMA LadderHolds == SettingsInv /\ LadderInv /\ [InvertersNext]_ivars => LadderInv'
<1> SUFFICES ASSUME SettingsInv, LadderInv, [InvertersNext]_ivars PROVE LadderInv'
  OBVIOUS
<1>1. CASE SboxStep
  <2>1. sbox_fitted /\ sbox_fitted' /\ (SboxPass \/ SboxSurroundings)
    BY <1>1 DEF SboxStep, settings
  <2>2. CASE SboxSurroundings
    BY <2>1, <2>2 DEF SboxSurroundings, LadderInv
  <2> QED
    BY <2>1, <2>2, LadderSteps
<1>2. CASE OtherContactors
  BY <1>2 DEF OtherContactors, SettingsInv, LadderInv, sboxOthers, settings
<1>3. CASE SecondPass \/ InverterFrame \/ EndTest \/ handle_contactors \/ UNCHANGED ivars
  <2>1. UNCHANGED <<sboxVars, settings>>
    BY <1>3 DEF SecondPass, Second, InverterFrame, map_can_frame_to_variable, OtherFrame,
         receive, EndTest, handle_contactors, ivars
  <2> QED
    BY <2>1 DEF sboxVars, settings, LadderInv
<1> QED
  BY <1>1, <1>2, <1>3 DEF InvertersNext

\* What the inverters and batteries are told, that the bus is live and the
\* contactors engaged, is true of the relays that the S-BOX was told to close.
THEOREM SboxTellsTheTruth == InvertersSpec => SboxTruthful
<1>1. InvertersInit => LadderInv
  BY DEF InvertersInit, SboxInit, LadderInv, Climbing
<1>2. SettingsInv /\ LadderInv /\ [InvertersNext]_ivars =>
        (SboxPass /\ (dc_bus_live' \/ contactors_engaged') => sent' = Closed)
  <2> SUFFICES ASSUME LadderInv, [InvertersNext]_ivars, SboxPass,
                      dc_bus_live' \/ contactors_engaged'
               PROVE  sent' = Closed
    OBVIOUS
  <2> USE DEF LadderInv, Climbing
  <2>1. PICK d \in {0, 1} : transmit_can(d)
    BY DEF SboxPass
  <2> DEFINE age == Capped(stage_age + d, LongestStage)
  <2>2. OpenPrecharge(age) \/ StayClosed
    BY <2>1 DEF transmit_can, Shutdown, StayOpen, ClosePrecharge, CloseNegative, ClosePositive,
         LadderWaits
  <2> HIDE DEF age
  <2> QED
    BY <2>2 DEF OpenPrecharge, StayClosed
<1> QED
  BY <1>1, <1>2, SettingsHold, LadderHolds, PTL DEF InvertersSpec, SboxTruthful

-----------------------------------------------------------------------------
(* The loss of a CAN inverter *)

\* What is left of the counter, in passes, and what has been silent add up.
LifeInv ==
  IF inverter = "KOSTAL" THEN missing = FALSE
  ELSE /\ CAN_inverter_still_alive \in Nat /\ silent \in 0..Forgotten
       /\ slow_start_counter \in 0..2
       /\ CAN_inverter_still_alive = 0 \/ ~long_timeout => slow_start_counter = 0
       /\ LET left == CAN_inverter_still_alive * Slowness - slow_start_counter
          IN  /\ left + silent >= (CanStillAlive - 1) * Slowness
              /\ CAN_inverter_still_alive = 0 \/ left + silent <= Refresh * Slowness

Counts == /\ CanStillAlive \in Nat \ {0} /\ Forgotten = 9 * CanStillAlive + 1
          /\ Refresh \in {CanStillAlive, 3 * CanStillAlive}
          /\ Slowness = (IF long_timeout THEN 3 ELSE 1)

LEMMA CountsHold == Counts
  BY InverterAssumption DEF Counts, Forgotten, Refresh, Slowness

\* A pass of update_machineryprotection().
LEMMA PassCounts ==
  ASSUME LifeInv, SettingsInv, inverter # "KOSTAL", CanSecond, UNCHANGED settings
  PROVE  /\ LifeInv'
         /\ missing' => silent' >= IF long_timeout THEN 3 * CanStillAlive - 2 ELSE CanStillAlive
         /\ silent >= Refresh * Slowness => CAN_inverter_still_alive = 0
<1> DEFINE alive == CAN_inverter_still_alive
           left == alive * Slowness - slow_start_counter
<1>1. /\ alive \in Nat /\ silent \in 0..Forgotten /\ slow_start_counter \in 0..2
      /\ alive = 0 \/ ~long_timeout => slow_start_counter = 0
      /\ left + silent >= (CanStillAlive - 1) * Slowness
      /\ alive = 0 \/ left + silent <= Refresh * Slowness
      /\ inverter' = inverter /\ Refresh' = Refresh /\ Slowness' = Slowness
      /\ long_timeout' = long_timeout /\ long_timeout \in BOOLEAN
  BY DEF LifeInv, settings, Refresh, Slowness, SettingsInv
<1>2. /\ silent' = Capped(silent + 1, Forgotten) /\ Forgotten' = Forgotten
      /\ CAN_inverter_still_alive' = CountNow /\ missing' = MissingNow
      /\ slow_start_counter' =
           IF long_timeout /\ alive > 0 THEN (slow_start_counter + 1) % 3 ELSE slow_start_counter
  BY DEF CanSecond, CountLife, Forgotten
<1>3. missing' => alive = 0
  BY <1>2, Zenon DEF MissingNow
<1>4. CASE long_timeout
  <2>1. /\ Slowness = 3
        /\ left = 3 * alive - slow_start_counter
        /\ Refresh * Slowness \in {3 * CanStillAlive, 9 * CanStillAlive}
        /\ (CanStillAlive - 1) * Slowness = 3 * CanStillAlive - 3
    BY <1>1, <1>4, CountsHold DEF Counts
  <2>2. /\ CountNow = IF alive > 0 /\ slow_start_counter = 2 THEN alive - 1 ELSE alive
        /\ (slow_start_counter + 1) % 3 =
             IF slow_start_counter = 2 THEN 0 ELSE slow_start_counter + 1
    BY <1>1, <1>4 DEF CountNow
  <2> HIDE DEF left
  <2>3. /\ silent' \in 0..Forgotten /\ CAN_inverter_still_alive' \in Nat
        /\ slow_start_counter' \in 0..2
        /\ CAN_inverter_still_alive' = 0 => slow_start_counter' = 0
        /\ 3 * CAN_inverter_still_alive' - slow_start_counter' + silent' >= 3 * CanStillAlive - 3
        /\ CAN_inverter_still_alive' = 0
             \/ 3 * CAN_inverter_still_alive' - slow_start_counter' + silent' <= Refresh * Slowness
        /\ alive = 0 => silent' >= 3 * CanStillAlive - 2
        /\ silent >= Refresh * Slowness => alive = 0
    BY <1>1, <1>2, <1>4, <2>1, <2>2, CountsHold DEF Counts, Capped
  <2>4. LifeInv'
    BY <1>1, <1>2, <1>4, <2>1, <2>3 DEF LifeInv
  <2> QED
    BY <1>3, <1>4, <2>3, <2>4
<1>5. CASE ~long_timeout
  <2>1. /\ Slowness = 1 /\ left = alive /\ slow_start_counter = 0
        /\ Refresh * Slowness \in {CanStillAlive, 3 * CanStillAlive}
        /\ (CanStillAlive - 1) * Slowness = CanStillAlive - 1
    BY <1>1, <1>5, CountsHold DEF Counts
  <2>2. CountNow = IF alive > 0 THEN alive - 1 ELSE alive
    BY <1>1, <1>5 DEF CountNow
  <2> HIDE DEF left
  <2>3. /\ silent' \in 0..Forgotten /\ CAN_inverter_still_alive' \in Nat
        /\ slow_start_counter' = 0
        /\ CAN_inverter_still_alive' + silent' >= CanStillAlive - 1
        /\ CAN_inverter_still_alive' = 0
             \/ CAN_inverter_still_alive' + silent' <= Refresh * Slowness
        /\ alive = 0 => silent' >= CanStillAlive
        /\ silent >= Refresh * Slowness => alive = 0
    BY <1>1, <1>2, <1>5, <2>1, <2>2, CountsHold DEF Counts, Capped
  <2>4. LifeInv'
    BY <1>1, <1>2, <1>5, <2>1, <2>3 DEF LifeInv
  <2> QED
    BY <1>3, <1>5, <2>3, <2>4
<1> QED
  BY <1>1, <1>4, <1>5

LEMMA LifeSteps ==
  SettingsInv /\ SettingsInv' /\ LifeInv /\ [InvertersNext]_ivars => LifeInv'
<1> SUFFICES ASSUME SettingsInv, LifeInv, [InvertersNext]_ivars PROVE LifeInv'
  OBVIOUS
<1>1. ASSUME CanFrame, inverter # "KOSTAL", UNCHANGED settings PROVE LifeInv'
  <2>1. /\ CAN_inverter_still_alive' = Refresh /\ silent' = 0 /\ Refresh' = Refresh
        /\ Slowness' = Slowness /\ slow_start_counter' = slow_start_counter
        /\ slow_start_counter \in 0..2 /\ (~long_timeout => slow_start_counter = 0)
        /\ inverter' = inverter /\ long_timeout' = long_timeout /\ Forgotten' = Forgotten
    BY <1>1 DEF CanFrame, settings, Refresh, Slowness, Forgotten, LifeInv
  <2>2. CASE long_timeout
    BY <1>1, <2>1, <2>2, CountsHold DEF Counts, LifeInv
  <2>3. CASE ~long_timeout
    BY <1>1, <2>1, <2>3, CountsHold DEF Counts, LifeInv
  <2> QED
    BY <2>2, <2>3
<1>2. ASSUME UNCHANGED <<lifeVars, settings>> PROVE LifeInv'
  BY <1>2 DEF lifeVars, settings, LifeInv, Slowness, Refresh, Forgotten
<1>3. CASE SecondPass
  <2>1. PICK d \in {0, 1} : Second(d)
    BY <1>3 DEF SecondPass
  <2>2. CASE inverter = "KOSTAL"
    BY <2>1, <2>2, <1>2 DEF Second
  <2>3. CASE inverter # "KOSTAL"
    BY <2>1, <2>3, PassCounts DEF Second
  <2> QED
    BY <2>2, <2>3
<1>4. CASE \E payload \in {"poll", "close", "open"} : map_can_frame_to_variable(payload)
  BY <1>1, <1>4 DEF map_can_frame_to_variable
<1>5. CASE OtherFrame
  BY <1>1, <1>5 DEF OtherFrame
<1>6. CASE \E request \in {"allow", "test", "cyclic", "info"} : receive(request)
  BY <1>2, <1>6 DEF receive
<1>7. CASE EndTest \/ handle_contactors \/ OtherContactors \/ SboxStep \/ UNCHANGED ivars
  BY <1>2, <1>7 DEF EndTest, handle_contactors, OtherContactors, SboxStep, ivars
<1> QED
  BY <1>3, <1>4, <1>5, <1>6, <1>7 DEF InvertersNext, InverterFrame

LEMMA LifeHolds == InvertersSpec => []LifeInv
<1>1. InvertersInit => LifeInv
  <2> SUFFICES ASSUME InvertersInit PROVE LifeInv
    OBVIOUS
  <2>1. /\ CAN_inverter_still_alive = CanStillAlive - 1 /\ slow_start_counter = 0
        /\ silent = 0 /\ missing = FALSE /\ long_timeout \in BOOLEAN
    BY DEF InvertersInit
  <2>2. CASE long_timeout
    BY <2>1, <2>2, CountsHold DEF Counts, LifeInv
  <2>3. CASE ~long_timeout
    BY <2>1, <2>3, CountsHold DEF Counts, LifeInv
  <2> QED
    BY <2>2, <2>3
<1> QED
  BY <1>1, SettingsHold, LifeSteps, PTL DEF InvertersSpec

\* The alarm stands only over a silence as long as the counter promises, from
\* boot on and whatever the phase of the slow decrement.
THEOREM AlarmIsEarned == InvertersSpec => AlarmEarned
<1>1. SettingsInv /\ LifeInv /\ [InvertersNext]_ivars =>
        (SecondPass /\ missing' =>
           silent' >= IF long_timeout THEN 3 * CanStillAlive - 2 ELSE CanStillAlive)
  <2> SUFFICES ASSUME SettingsInv, LifeInv, missing', NEW d \in {0, 1}, Second(d)
               PROVE  silent' >= IF long_timeout THEN 3 * CanStillAlive - 2 ELSE CanStillAlive
    BY DEF SecondPass
  <2>1. inverter # "KOSTAL"
    BY DEF LifeInv, Second, lifeVars
  <2> QED
    BY <2>1, PassCounts DEF Second
<1> QED
  BY <1>1, SettingsHold, LifeHolds, PTL DEF InvertersSpec, AlarmEarned

\* A silence as long as the last refresh promised raises the alarm, the grace of
\* a slow starter apart.
THEOREM LossIsNoticed == InvertersSpec => LossNoticed
<1>1. SettingsInv /\ LifeInv /\ [InvertersNext]_ivars =>
        (SecondPass /\ inverter # "KOSTAL" /\ silent >= Refresh * Slowness
           => missing' \/ (uptime <= StartupGrace /\ inverter = "SMA"))
  <2> SUFFICES ASSUME SettingsInv, LifeInv, inverter # "KOSTAL",
                      silent >= Refresh * Slowness, NEW d \in {0, 1}, Second(d)
               PROVE  missing' \/ Graced
    BY DEF SecondPass, Graced
  <2>1. CAN_inverter_still_alive = 0
    BY PassCounts DEF Second
  <2>2. missing' = MissingNow
    BY DEF Second, CanSecond, CountLife
  <2> QED
    BY <2>1, <2>2, Zenon DEF MissingNow
<1> QED
  BY <1>1, SettingsHold, LifeHolds, PTL DEF InvertersSpec, LossNoticed

-----------------------------------------------------------------------------
(* The types *)

LifeTyped ==
  /\ missing \in BOOLEAN /\ inverter_detected \in BOOLEAN
  /\ CAN_inverter_still_alive \in 0..Refresh /\ slow_start_counter \in 0..2
  /\ uptime \in 0..(StartupGrace + 1) /\ silent \in 0..Forgotten

SolaxTyped ==
  /\ state \in {"BATTERY_ANNOUNCE", "WAITING_FOR_CONTACTOR", "CONTACTOR_CLOSED"}
  /\ bus_watch \in {"WAIT_LIVE", "LIVE", "DROPPED"}
  /\ frame_age \in 0..FrameTimeout /\ asked \in BOOLEAN

KostalTyped ==
  /\ listening \in BOOLEAN /\ info_sent \in BOOLEAN
  /\ f2_startup_count \in 0..(InfoRequests + 1)
  /\ test_age \in {NoTest} \cup 0..TestTime

SettingsTyped ==
  /\ contactor_mode \in {"NoWorkaround", "AlwaysClosed", "LockAfterFirstClose"}
  /\ sbox_fitted \in BOOLEAN

LEMMA TypesAre ==
  /\ InverterTypeOK <=>
       /\ inverter \in {"SOLAX", "KOSTAL", "SMA"} /\ long_timeout \in BOOLEAN
       /\ SettingsTyped /\ LifeTyped /\ SolaxTyped /\ KostalTyped /\ SboxTypeOK
  /\ InverterTypeOK' <=>
       /\ inverter' \in {"SOLAX", "KOSTAL", "SMA"} /\ long_timeout' \in BOOLEAN
       /\ SettingsTyped' /\ LifeTyped' /\ SolaxTyped' /\ KostalTyped' /\ SboxTypeOK'
  BY DEF InverterTypeOK, SettingsTyped, LifeTyped, SolaxTyped, KostalTyped, Refresh

LEMMA InverterTimes ==
  /\ CanStillAlive \in Nat \ {0} /\ StartupGrace \in Nat \ {0} /\ FrameTimeout \in Nat \ {0}
  /\ TestTime \in Nat \ {0} /\ InfoRequests \in Nat \ {0}
  /\ Forgotten \in Nat \ {0} /\ Refresh \in Nat \ {0} /\ Refresh >= CanStillAlive
  BY InverterAssumption DEF Forgotten, Refresh

LEMMA CappedTyped ==
  ASSUME NEW n \in Nat, NEW limit \in Nat
  PROVE  Capped(n, limit) \in 0..limit
  BY DEF Capped

LEMMA SettingsStay ==
  ASSUME [InvertersNext]_ivars
  PROVE  UNCHANGED settings
<1>1. CASE SecondPass \/ InverterFrame
  BY <1>1 DEF SecondPass, Second, InverterFrame, map_can_frame_to_variable, OtherFrame, receive
<1>2. CASE EndTest \/ handle_contactors \/ OtherContactors \/ SboxStep
  BY <1>2 DEF EndTest, handle_contactors, OtherContactors, SboxStep
<1> QED
  BY <1>1, <1>2 DEF InvertersNext, ivars

LEMMA LifeStaysTyped ==
  ASSUME LifeTyped, [InvertersNext]_ivars
  PROVE  LifeTyped'
<1>1. Refresh' = Refresh
  BY SettingsStay DEF settings, Refresh
<1>2. /\ missing \in BOOLEAN /\ inverter_detected \in BOOLEAN
      /\ CAN_inverter_still_alive \in 0..Refresh /\ slow_start_counter \in 0..2
      /\ uptime \in 0..(StartupGrace + 1) /\ silent \in 0..Forgotten
  BY DEF LifeTyped
<1>3. ASSUME CanSecond PROVE LifeTyped'
  <2>1. missing' \in BOOLEAN
    BY <1>2, <1>3, Zenon DEF CanSecond, CountLife, MissingNow
  <2>2. inverter_detected' \in BOOLEAN
    BY <1>2, <1>3, InverterTimes DEF CanSecond, CountLife
  <2>3. CAN_inverter_still_alive' \in 0..Refresh
    BY <1>2, <1>3, InverterTimes DEF CanSecond, CountLife, CountNow
  <2>4. slow_start_counter' \in 0..2
    BY <1>2, <1>3 DEF CanSecond, CountLife
  <2>5. uptime' \in 0..(StartupGrace + 1) /\ silent' \in 0..Forgotten
    BY <1>2, <1>3, InverterTimes, CappedTyped DEF CanSecond
  <2> QED
    BY <1>1, <2>1, <2>2, <2>3, <2>4, <2>5 DEF LifeTyped, Forgotten
<1>4. ASSUME CanFrame PROVE LifeTyped'
  <2>1. Refresh \in 0..Refresh /\ 0 \in 0..Forgotten
    BY InverterTimes
  <2> QED
    BY <1>1, <1>2, <1>4, <2>1 DEF CanFrame, LifeTyped, Forgotten
<1>5. ASSUME UNCHANGED lifeVars PROVE LifeTyped'
  BY <1>1, <1>2, <1>5 DEF lifeVars, LifeTyped, Forgotten
<1>6. CASE SecondPass
  BY <1>3, <1>5, <1>6 DEF SecondPass, Second
<1>7. CASE InverterFrame
  BY <1>4, <1>5, <1>7 DEF InverterFrame, map_can_frame_to_variable, OtherFrame, receive
<1>8. CASE EndTest \/ handle_contactors \/ OtherContactors \/ SboxStep \/ UNCHANGED ivars
  BY <1>5, <1>8 DEF EndTest, handle_contactors, OtherContactors, SboxStep, ivars
<1> QED
  BY <1>6, <1>7, <1>8 DEF InvertersNext

LEMMA SolaxStaysTyped ==
  ASSUME SolaxTyped, [InvertersNext]_ivars
  PROVE  SolaxTyped'
<1>1. /\ state \in {"BATTERY_ANNOUNCE", "WAITING_FOR_CONTACTOR", "CONTACTOR_CLOSED"}
      /\ bus_watch \in {"WAIT_LIVE", "LIVE", "DROPPED"}
      /\ frame_age \in 0..FrameTimeout /\ asked \in BOOLEAN
  BY DEF SolaxTyped
<1>2. ASSUME UNCHANGED solaxVars PROVE SolaxTyped'
  BY <1>1, <1>2 DEF solaxVars, SolaxTyped
<1>3. CASE SecondPass
  <2>1. PICK d \in {0, 1} : Second(d)
    BY <1>3 DEF SecondPass
  <2>2. CASE SolaxUpdate(Capped(frame_age + d, FrameTimeout))
    <3>1. Capped(frame_age + d, FrameTimeout) \in 0..FrameTimeout
      BY <1>1, InverterTimes, CappedTyped
    <3>2. asked' \in BOOLEAN
      BY <2>2, Zenon DEF SolaxUpdate
    <3> QED
      BY <1>1, <2>2, <3>1, <3>2 DEF SolaxUpdate, SolaxTyped
  <2> QED
    BY <1>2, <2>1, <2>2 DEF Second
<1>4. ASSUME NEW payload \in {"poll", "close", "open"}, map_can_frame_to_variable(payload)
      PROVE  SolaxTyped'
  <2>1. asked' \in BOOLEAN
    BY <1>4, Zenon DEF map_can_frame_to_variable
  <2>2. frame_age' \in 0..FrameTimeout
    BY <1>4, InverterTimes DEF map_can_frame_to_variable
  <2>3. /\ state' \in {"BATTERY_ANNOUNCE", "WAITING_FOR_CONTACTOR", "CONTACTOR_CLOSED"}
        /\ bus_watch' \in {"WAIT_LIVE", "LIVE", "DROPPED"}
    BY <1>1, <1>4 DEF map_can_frame_to_variable, Handshake, Announce, Waiting, BusNext
  <2> QED
    BY <2>1, <2>2, <2>3 DEF SolaxTyped
<1>5. CASE OtherFrame \/ OtherContactors \/ SboxStep \/ UNCHANGED ivars
  BY <1>2, <1>5, Unmoved
<1>6. CASE EndTest \/ handle_contactors
  BY <1>2, <1>6 DEF EndTest, handle_contactors
<1>7. CASE \E request \in {"allow", "test", "cyclic", "info"} : receive(request)
  BY <1>2, <1>7 DEF receive
<1> QED
  BY <1>3, <1>4, <1>5, <1>6, <1>7 DEF InvertersNext, InverterFrame

LEMMA KostalStaysTyped ==
  ASSUME KostalTyped, [InvertersNext]_ivars
  PROVE  KostalTyped'
<1>1. /\ listening \in BOOLEAN /\ info_sent \in BOOLEAN
      /\ f2_startup_count \in 0..(InfoRequests + 1)
      /\ test_age \in {NoTest} \cup 0..TestTime
  BY DEF KostalTyped
<1>2. ASSUME UNCHANGED kostalVars PROVE KostalTyped'
  BY <1>1, <1>2 DEF kostalVars, KostalTyped
<1>3. CASE SecondPass
  <2>1. PICK d \in {0, 1} : Second(d)
    BY <1>3 DEF SecondPass
  <2>2. CASE inverter = "KOSTAL"
    <3>1. test_age = NoTest \/ Capped(test_age + d, TestTime) \in 0..TestTime
      <4>1. test_age = NoTest \/ test_age + d \in Nat
        BY <1>1
      <4> QED
        BY <4>1, InverterTimes, CappedTyped
    <3> QED
      BY <1>1, <2>1, <2>2, <3>1 DEF Second, KostalTyped
  <2>3. CASE inverter # "KOSTAL"
    BY <1>2, <2>1, <2>3 DEF Second, CanSecond
  <2> QED
    BY <2>2, <2>3
<1>4. ASSUME NEW request \in {"allow", "test", "cyclic", "info"}, receive(request)
      PROVE  KostalTyped'
  <2>1. listening' = listening /\ (SetState(request) \/ CyclicData \/ BatteryInfo)
    BY <1>4 DEF receive
  <2>2. 0 \in 0..TestTime /\ Capped(f2_startup_count + 1, InfoRequests + 1) \in 0..(InfoRequests + 1)
    BY <1>1, InverterTimes, CappedTyped
  <2> QED
    BY <1>1, <2>1, <2>2 DEF SetState, CyclicData, BatteryInfo, KostalTyped
<1>5. CASE \/ \E payload \in {"poll", "close", "open"} : map_can_frame_to_variable(payload)
           \/ OtherFrame \/ handle_contactors \/ OtherContactors \/ SboxStep \/ UNCHANGED ivars
  BY <1>2, <1>5 DEF map_can_frame_to_variable, OtherFrame, handle_contactors, OtherContactors,
       SboxStep, ivars
<1>6. CASE EndTest
  BY <1>1, <1>6 DEF EndTest, KostalTyped
<1> QED
  BY <1>3, <1>4, <1>5, <1>6 DEF InvertersNext, InverterFrame

LEMMA PermissionStaysTyped ==
  ASSUME inverter_allows_contactor_closing \in BOOLEAN, [InvertersNext]_ivars
  PROVE  inverter_allows_contactor_closing' \in BOOLEAN
<1>1. ASSUME UNCHANGED inverter_allows_contactor_closing
      PROVE  inverter_allows_contactor_closing' \in BOOLEAN
  BY <1>1
<1>2. ASSUME NEW on \in BOOLEAN, setInverterAllows(on)
      PROVE  inverter_allows_contactor_closing' \in BOOLEAN
  BY <1>2, Zenon DEF setInverterAllows
<1>3. ASSUME KostalUpdate PROVE inverter_allows_contactor_closing' \in BOOLEAN
  BY <1>1, <1>2, <1>3 DEF KostalUpdate
<1>4. ASSUME NEW age, SolaxUpdate(age) PROVE inverter_allows_contactor_closing' \in BOOLEAN
  BY <1>4, Zenon DEF SolaxUpdate
<1>5. CASE SecondPass
  BY <1>3, <1>4, <1>5 DEF SecondPass, Second
<1>6. ASSUME NEW payload \in {"poll", "close", "open"}, map_can_frame_to_variable(payload)
      PROVE  inverter_allows_contactor_closing' \in BOOLEAN
  <2>1. ASSUME Handshake(payload) PROVE inverter_allows_contactor_closing' \in BOOLEAN
    BY <1>1, <2>1, Zenon DEF Handshake, Announce, Waiting
  <2> QED
    BY <1>6, <2>1 DEF map_can_frame_to_variable
<1>7. ASSUME NEW request \in {"allow", "test", "cyclic", "info"}, receive(request)
      PROVE  inverter_allows_contactor_closing' \in BOOLEAN
  <2>1. SetState(request) \/ CyclicData \/ BatteryInfo
    BY <1>7 DEF receive
  <2>2. (request = "allow") \in BOOLEAN
    OBVIOUS
  <2> QED
    BY <1>2, <1>3, <2>1, <2>2 DEF SetState, CyclicData, BatteryInfo
<1>8. CASE EndTest
  BY <1>2, <1>8 DEF EndTest
<1>9. CASE handle_contactors
  BY <1>9 DEF handle_contactors
<1>10. CASE OtherFrame \/ OtherContactors \/ SboxStep \/ UNCHANGED ivars
  BY <1>1, <1>10, Unmoved
<1> QED
  BY <1>5, <1>6, <1>7, <1>8, <1>9, <1>10 DEF InvertersNext, InverterFrame

LEMMA StagesTyped ==
  /\ T1 \in Nat \ {0} /\ T2 \in Nat \ {0} /\ T3 \in Nat \ {0}
  /\ MaxSboxFaultTicks \in Nat \ {0}
  /\ LongestStage \in Nat
  /\ LongestStage >= T1 /\ LongestStage >= T2 /\ LongestStage >= T3
<1>1. /\ T1 \in Nat \ {0} /\ T2 \in Nat \ {0} /\ T3 \in Nat \ {0}
      /\ MaxSboxFaultTicks \in Nat \ {0}
  BY SboxAssumption
<1>2. \E t \in {T1, T2, T3} : \A u \in {T1, T2, T3} : u <= t
  BY <1>1
<1>3. /\ LongestStage \in {T1, T2, T3}
      /\ \A u \in {T1, T2, T3} : u <= LongestStage
  BY <1>2, Zenon DEF LongestStage
<1> QED
  BY <1>1, <1>3

\* The S-BOX: the flags, the ladder and the frames, and what is counted and measured.
SboxFlags ==
  /\ contactors_engaged \in BOOLEAN /\ precharging \in BOOLEAN /\ dc_bus_live \in BOOLEAN
  /\ system_fault \in BOOLEAN /\ equipment_stop_active \in BOOLEAN
  /\ battery_allows_contactor_closing \in BOOLEAN

SboxNumbers ==
  /\ contactorStatus \in Ladder
  /\ relays \subseteq Relays /\ sent \subseteq Relays
  /\ stage_age \in 0..LongestStage
  /\ timeSpentInFaultedMode \in 0..(MaxSboxFaultTicks + 1)
  /\ input \in Inputs /\ output \in Outputs
  /\ precharged_for \in 0..T2

LEMMA SboxTypesAre ==
  /\ SboxTypeOK <=> /\ SboxFlags /\ SboxNumbers
                    /\ inverter_allows_contactor_closing \in BOOLEAN
  /\ SboxTypeOK' <=> /\ SboxFlags' /\ SboxNumbers'
                     /\ inverter_allows_contactor_closing' \in BOOLEAN
  BY DEF SboxTypeOK, SboxFlags, SboxNumbers

LEMMA SboxPassTyped ==
  ASSUME SboxFlags, SboxNumbers, SboxPass
  PROVE  SboxFlags' /\ SboxNumbers'
<1>1. PICK d \in {0, 1} : transmit_can(d)
  BY DEF SboxPass
<1> DEFINE age == Capped(stage_age + d, LongestStage)
<1>2. \/ Shutdown
      \/ StayOpen \/ ClosePrecharge \/ CloseNegative(age) \/ ClosePositive(age)
      \/ OpenPrecharge(age) \/ LadderWaits(age) \/ StayClosed
  BY <1>1 DEF transmit_can
<1>3. age \in 0..LongestStage /\ 0 \in 0..LongestStage
  BY StagesTyped, CappedTyped DEF SboxNumbers
<1> HIDE DEF age
<1>4. /\ timeSpentInFaultedMode' \in 0..(MaxSboxFaultTicks + 1)
      /\ precharged_for' \in 0..T2
  <2>1. /\ Capped(timeSpentInFaultedMode + 1, MaxSboxFaultTicks + 1) \in 0..(MaxSboxFaultTicks + 1)
        /\ Capped(precharged_for + d, T2) \in 0..T2 /\ 0 \in 0..T2
        /\ 0 \in 0..(MaxSboxFaultTicks + 1)
    <3>1. timeSpentInFaultedMode + 1 \in Nat /\ precharged_for + d \in Nat
      BY StagesTyped DEF SboxNumbers
    <3>2. MaxSboxFaultTicks + 1 \in Nat /\ T2 \in Nat
      BY StagesTyped
    <3>3. 0 \in 0..T2 /\ 0 \in 0..(MaxSboxFaultTicks + 1)
      BY <3>2
    <3> QED
      BY <3>1, <3>2, <3>3, CappedTyped
  <2> QED
    BY <1>1, <2>1 DEF transmit_can, FaultTicks
<1>5. UNCHANGED measured
  BY <1>1 DEF transmit_can
<1>6. /\ contactors_engaged' \in BOOLEAN /\ precharging' \in BOOLEAN /\ dc_bus_live' \in BOOLEAN
  BY <1>2 DEF SboxFlags, Shutdown, StayOpen, ClosePrecharge, CloseNegative, ClosePositive,
       OpenPrecharge, LadderWaits, StayClosed
<1>7. /\ contactorStatus' \in Ladder /\ stage_age' \in 0..LongestStage
      /\ relays' \subseteq Relays /\ sent' \subseteq Relays
  BY <1>2, <1>3 DEF SboxNumbers, Ladder, Relays, Closed, Shutdown, StayOpen, ClosePrecharge,
       CloseNegative, ClosePositive, OpenPrecharge, LadderWaits, StayClosed
<1> QED
  BY <1>4, <1>5, <1>6, <1>7 DEF measured, SboxFlags, SboxNumbers

LEMMA SboxStaysTyped ==
  ASSUME SboxFlags, SboxNumbers, [InvertersNext]_ivars
  PROVE  SboxFlags' /\ SboxNumbers'
<1>1. ASSUME UNCHANGED sboxVars PROVE SboxFlags' /\ SboxNumbers'
  BY <1>1 DEF sboxVars, SboxFlags, SboxNumbers
<1>2. CASE SboxStep
  <2>1. CASE SboxSurroundings
    <3>1. SboxNumbers'
      BY <2>1 DEF SboxSurroundings, SboxFrame, SystemChanges, SboxNumbers
    <3>2. SboxFlags'
      BY <2>1, Zenon DEF SboxSurroundings, SboxFrame, SystemChanges, SboxFlags
    <3> QED
      BY <3>1, <3>2
  <2> QED
    BY <1>2, <2>1, SboxPassTyped DEF SboxStep
<1>3. CASE OtherContactors
  BY <1>3 DEF OtherContactors, sboxOthers, measured, SboxFlags, SboxNumbers
<1>4. CASE SecondPass \/ InverterFrame \/ EndTest \/ handle_contactors \/ UNCHANGED ivars
  BY <1>1, <1>4 DEF SecondPass, Second, InverterFrame, map_can_frame_to_variable, OtherFrame,
       receive, EndTest, handle_contactors, ivars
<1> QED
  BY <1>2, <1>3, <1>4 DEF InvertersNext

LEMMA InverterTypeKeeps == InverterTypeOK /\ [InvertersNext]_ivars => InverterTypeOK'
<1> SUFFICES ASSUME InverterTypeOK, [InvertersNext]_ivars PROVE InverterTypeOK'
  OBVIOUS
<1>1. /\ inverter' = inverter /\ long_timeout' = long_timeout
      /\ (SettingsTyped => SettingsTyped')
  BY SettingsStay DEF settings, SettingsTyped
<1> QED
  BY <1>1, TypesAre, SboxTypesAre, LifeStaysTyped, SolaxStaysTyped, KostalStaysTyped,
     PermissionStaysTyped, SboxStaysTyped

LEMMA InverterTypeStarts == InvertersInit => InverterTypeOK
<1> SUFFICES ASSUME InvertersInit PROVE InverterTypeOK
  OBVIOUS
<1>1. SettingsTyped /\ inverter \in {"SOLAX", "KOSTAL", "SMA"} /\ long_timeout \in BOOLEAN
  BY DEF InvertersInit, SettingsTyped
<1>2. LifeTyped
  <2>1. missing \in BOOLEAN /\ inverter_detected \in BOOLEAN
    BY Zenon DEF InvertersInit
  <2>2. /\ CAN_inverter_still_alive = CanStillAlive - 1 /\ slow_start_counter = 0
        /\ uptime = 0 /\ silent = 0
    BY DEF InvertersInit
  <2>3. /\ CAN_inverter_still_alive \in 0..Refresh /\ slow_start_counter \in 0..2
        /\ uptime \in 0..(StartupGrace + 1) /\ silent \in 0..Forgotten
    BY <2>2, InverterTimes
  <2> QED
    BY <2>1, <2>3 DEF LifeTyped
<1>3. SolaxTyped
  <2>1. asked \in BOOLEAN
    BY Zenon DEF InvertersInit
  <2>2. state = "BATTERY_ANNOUNCE" /\ bus_watch = "WAIT_LIVE" /\ frame_age = 0
    BY DEF InvertersInit
  <2>3. frame_age \in 0..FrameTimeout
    BY <2>2, InverterTimes
  <2> QED
    BY <2>1, <2>2, <2>3 DEF SolaxTyped
<1>4. KostalTyped
  <2>1. listening \in BOOLEAN /\ info_sent \in BOOLEAN
    BY Zenon DEF InvertersInit
  <2>2. f2_startup_count = 0 /\ test_age = NoTest
    BY DEF InvertersInit
  <2>3. f2_startup_count \in 0..(InfoRequests + 1)
    BY <2>2, InverterTimes
  <2> QED
    BY <2>1, <2>2, <2>3 DEF KostalTyped
<1>5. inverter_allows_contactor_closing \in BOOLEAN
  <2>1. inverter_allows_contactor_closing =
          (contactor_mode = "AlwaysClosed" \/ (inverter = "KOSTAL" /\ ~Follows))
    BY DEF InvertersInit
  <2> QED
    BY <2>1, Zenon
<1>6. SboxFlags /\ SboxNumbers
  <2>1. SboxInit
    BY DEF InvertersInit
  <2>2. SboxFlags
    BY <2>1, Zenon DEF SboxInit, SboxFlags
  <2>3. 0 \in 0..LongestStage /\ 0 \in 0..(MaxSboxFaultTicks + 1) /\ 0 \in 0..T2
    BY StagesTyped
  <2>4. SboxNumbers
    BY <2>1, <2>3, SboxAssumption DEF SboxInit, SboxNumbers, Ladder
  <2> QED
    BY <2>2, <2>4
<1> QED
  BY <1>1, <1>2, <1>3, <1>4, <1>5, <1>6, TypesAre, SboxTypesAre

\* The counters, timers and states of the inverters and of the S-BOX stay in range, and
\* SOLAX has no permission it did not ask for.
THEOREM InverterIsSafe == InvertersSpec => []InverterInv
<1>1. InvertersSpec => []InverterTypeOK
  BY InverterTypeStarts, InverterTypeKeeps, PTL DEF InvertersSpec
<1>2. InverterTypeOK /\ PermissionAsked => InverterInv
  BY DEF InverterInv
<1> QED
  BY <1>1, <1>2, PermissionIsAsked, PTL

-----------------------------------------------------------------------------
(* The ladder of the S-BOX *)

\* What each rung has told the box, and that the link has been precharged since the
\* negative relay was closed.
RungInv ==
  /\ contactorStatus = "NEGATIVE" => relays = {"precharge"} /\ sent = relays
  /\ contactorStatus = "POSITIVE" =>
       /\ relays = {"precharge", "negative"} /\ sent = relays
       /\ precharged_for >= stage_age \/ precharged_for >= T2
  /\ contactorStatus = "PRECHARGE_OFF" => relays = Relays /\ sent = relays
  /\ contactorStatus = "COMPLETED" => sent = Closed

LEMMA RungPass ==
  ASSUME SboxNumbers, RungInv, SboxPass
  PROVE  /\ RungInv'
         /\ "positive" \in sent' \ sent =>
              precharged_for' >= T2 /\ (input > 0 => output * 100 > input * 99)
<1>1. PICK d \in {0, 1} : transmit_can(d)
  BY DEF SboxPass
<1> DEFINE age == Capped(stage_age + d, LongestStage)
           longer == Capped(precharged_for + d, T2)
<1>2. \/ Shutdown
      \/ StayOpen \/ ClosePrecharge \/ CloseNegative(age) \/ ClosePositive(age)
      \/ OpenPrecharge(age) \/ LadderWaits(age) \/ StayClosed
  BY <1>1 DEF transmit_can
<1>3. sent = {"precharge", "negative"} => precharged_for' = longer
  BY <1>1 DEF transmit_can
<1>4. /\ stage_age \in Nat /\ precharged_for \in Nat /\ T2 \in Nat /\ LongestStage \in Nat
      /\ LongestStage >= T2 /\ age \in Nat /\ longer \in Nat
  BY StagesTyped DEF SboxNumbers, Capped
<1>5. precharged_for >= stage_age \/ precharged_for >= T2
        => /\ longer >= age \/ longer >= T2
           /\ age >= T2 => longer >= T2
  BY <1>4 DEF Capped
<1>6. precharged_for' \in Nat /\ 0 \in Nat
  BY <1>1, <1>4 DEF transmit_can
<1> HIDE DEF age, longer
<1>7. CASE Shutdown
  BY <1>7 DEF Shutdown, RungInv
<1>8. CASE StayOpen
  BY <1>8 DEF StayOpen, RungInv
<1>9. CASE ClosePrecharge
  BY <1>9 DEF ClosePrecharge, RungInv
<1>10. CASE CloseNegative(age)
  <2>1. /\ contactorStatus' = "POSITIVE" /\ stage_age' = 0
        /\ relays' = {"precharge", "negative"} /\ sent' = relays'
    BY <1>10 DEF CloseNegative
  <2>2. precharged_for' >= 0
    BY <1>6
  <2> QED
    BY <2>1, <2>2 DEF RungInv
<1>11. CASE ClosePositive(age)
  <2>1. /\ contactorStatus' = "PRECHARGE_OFF" /\ relays' = Relays /\ sent' = relays'
        /\ contactorStatus = "POSITIVE" /\ age >= T2 /\ LinkCharged
    BY <1>11 DEF ClosePositive
  <2>2. precharged_for' >= T2
    BY <2>1, <1>3, <1>5 DEF RungInv
  <2>3. output * 100 > input * 99
    <3>1. input \in Nat /\ output \in Nat
      BY SboxAssumption DEF SboxNumbers
    <3> QED
      BY <2>1, <3>1 DEF LinkCharged
  <2> QED
    BY <2>1, <2>2, <2>3 DEF RungInv
<1>12. CASE OpenPrecharge(age)
  BY <1>12 DEF OpenPrecharge, RungInv, Relays, Closed
<1>13. CASE LadderWaits(age)
  <2>1. UNCHANGED <<contactorStatus, relays>> /\ sent' = relays /\ stage_age' = age
    BY <1>13 DEF LadderWaits
  <2>2. sent' = sent
    BY <1>13, <2>1 DEF LadderWaits, RungInv
  <2>3. contactorStatus = "POSITIVE" => precharged_for' >= age \/ precharged_for' >= T2
    BY <1>3, <1>5 DEF RungInv
  <2>4. RungInv'
    BY <2>1, <2>2, <2>3 DEF RungInv
  <2> QED
    BY <2>2, <2>4
<1>14. CASE StayClosed
  BY <1>14 DEF StayClosed, RungInv
<1> QED
  BY <1>2, <1>7, <1>8, <1>9, <1>10, <1>11, <1>12, <1>13, <1>14

LEMMA RungSteps == InverterTypeOK /\ RungInv /\ [InvertersNext]_ivars => RungInv'
<1> SUFFICES ASSUME InverterTypeOK, RungInv, [InvertersNext]_ivars PROVE RungInv'
  OBVIOUS
<1>1. ASSUME UNCHANGED <<contactorStatus, relays, sent, stage_age, precharged_for>>
      PROVE  RungInv'
  BY <1>1 DEF RungInv
<1>2. CASE SboxStep
  BY <1>1, <1>2, TypesAre, SboxTypesAre, RungPass DEF SboxStep, SboxSurroundings
<1>3. CASE OtherContactors
  BY <1>1, <1>3 DEF OtherContactors, sboxOthers
<1>4. CASE SecondPass \/ InverterFrame \/ EndTest \/ handle_contactors \/ UNCHANGED ivars
  <2>1. UNCHANGED sboxVars
    BY <1>4 DEF SecondPass, Second, InverterFrame, map_can_frame_to_variable, OtherFrame,
         receive, EndTest, handle_contactors, ivars
  <2> QED
    BY <1>1, <2>1 DEF sboxVars
<1> QED
  BY <1>2, <1>3, <1>4 DEF InvertersNext

\* "Prevents engagement of the positive contactor if the precharge resistor is faulty":
\* the positive relay is closed after a precharge of the whole of T2 and, while the
\* battery side is measured, of a link that has charged.
THEOREM PrechargedBeforeClosed == InvertersSpec => PositiveAfterPrecharge
<1>1. InvertersInit => RungInv
  BY DEF InvertersInit, SboxInit, RungInv
<1>2. InverterTypeOK /\ RungInv /\ [InvertersNext]_ivars =>
        (SboxPass /\ "positive" \in sent' \ sent =>
           /\ precharged_for' >= T2
           /\ input > 0 => output * 100 > input * 99)
  BY TypesAre, SboxTypesAre, RungPass
<1> QED
  BY <1>1, <1>2, InverterTypeStarts, InverterTypeKeeps, RungSteps, PTL
     DEF InvertersSpec, PositiveAfterPrecharge

-----------------------------------------------------------------------------
(* The S-BOX implements the switch of a pack. *)

LEMMA SameRelays ==
  /\ Box!Charging = {"precharge", "negative"}
  /\ Box!Bridged = Relays /\ Box!OnBus = Closed
BY DEF Box!Charging, Box!Bridged, Box!OnBus, Relays, Closed

\* The state of the switch behind each rung.
BoxInv ==
  /\ contactorStatus = "DISCONNECTED" =>
       \/ relays = {} /\ contactors_engaged = FALSE
       \/ relays = Box!OnBus
  /\ contactorStatus \in Climbing => contactors_engaged = FALSE
  /\ contactorStatus = "NEGATIVE" => relays = {"precharge"}
  /\ contactorStatus = "POSITIVE" => relays = Box!Charging
  /\ contactorStatus = "PRECHARGE_OFF" => relays = Box!Bridged
  /\ contactorStatus = "COMPLETED" => relays = Box!OnBus /\ contactors_engaged = TRUE
  /\ contactorStatus = "SHUTDOWN_REQUESTED" => relays = {} /\ contactors_engaged = FALSE

\* Every pass is a step of the switch, or none.
LEMMA BoxPass ==
  ASSUME BoxInv, SboxPass
  PROVE  BoxInv' /\ [Box!SwitchNext]_Box!switch
<1> USE SameRelays DEF BoxInv, Climbing, Box!SwitchNext, Box!switch
<1>1. PICK d \in {0, 1} : transmit_can(d)
  BY DEF SboxPass
<1> DEFINE age == Capped(stage_age + d, LongestStage)
<1>2. \/ Shutdown
      \/ ~Latched /\ \/ StayOpen \/ ClosePrecharge \/ CloseNegative(age) \/ ClosePositive(age)
                     \/ OpenPrecharge(age) \/ LadderWaits(age) \/ StayClosed
  BY <1>1 DEF transmit_can
<1> HIDE DEF age
<1>3. CASE Shutdown
  BY <1>3 DEF Shutdown, Latched, Box!Latch
<1>4. CASE StayOpen
  <2>1. relays' = {} /\ contactors_engaged' = FALSE /\ contactorStatus' = contactorStatus
        /\ contactorStatus = "DISCONNECTED"
    BY <1>4 DEF StayOpen
  <2>2. BoxInv'
    BY <2>1
  <2>3. CASE relays = {} /\ contactors_engaged = FALSE
    BY <2>1, <2>3, <1>4 DEF StayOpen
  <2>4. CASE relays = Box!OnBus
    BY <2>1, <2>4 DEF Box!Open
  <2> QED
    BY <2>1, <2>2, <2>3, <2>4
<1>5. CASE ClosePrecharge
  BY <1>5 DEF ClosePrecharge, Box!Begin
<1>6. CASE CloseNegative(age)
  BY <1>6 DEF CloseNegative, Box!Precharge
<1>7. CASE ClosePositive(age)
  BY <1>7 DEF ClosePositive, Box!Connect
<1>8. CASE OpenPrecharge(age)
  BY <1>8 DEF OpenPrecharge, Box!Complete
<1>9. CASE LadderWaits(age)
  BY <1>9 DEF LadderWaits
<1>10. CASE StayClosed
  BY <1>10 DEF StayClosed
<1> QED
  BY <1>2, <1>3, <1>4, <1>5, <1>6, <1>7, <1>8, <1>9, <1>10

LEMMA BoxSteps ==
  BoxInv /\ [InvertersNext]_ivars => BoxInv' /\ [Box!SwitchNext]_Box!switch
<1> SUFFICES ASSUME BoxInv, [InvertersNext]_ivars
             PROVE  BoxInv' /\ [Box!SwitchNext]_Box!switch
  OBVIOUS
<1>1. ASSUME UNCHANGED <<contactorStatus, relays, contactors_engaged>>
      PROVE  BoxInv' /\ [Box!SwitchNext]_Box!switch
  BY <1>1 DEF BoxInv, Box!switch, Box!OnBus, Box!Charging, Box!Bridged
<1>2. CASE SboxStep
  BY <1>1, <1>2, BoxPass DEF SboxStep, SboxSurroundings
<1>3. CASE OtherContactors
  BY <1>1, <1>3 DEF OtherContactors, sboxOthers
<1>4. CASE SecondPass \/ InverterFrame \/ EndTest \/ handle_contactors \/ UNCHANGED ivars
  <2>1. UNCHANGED sboxVars
    BY <1>4 DEF SecondPass, Second, InverterFrame, map_can_frame_to_variable, OtherFrame,
         receive, EndTest, handle_contactors, ivars
  <2> QED
    BY <1>1, <2>1 DEF sboxVars
<1> QED
  BY <1>2, <1>3, <1>4 DEF InvertersNext

\* The relays the S-BOX driver decides on implement the switch that Contactors
\* implements: one order, through the resistor, completed or latched, opened all at
\* once and never after the latch.  What it sends does not: see LatchOpens.
THEOREM SboxImplementsSwitch == InvertersSpec => RelaysAreSwitched
<1>1. InvertersInit => BoxInv /\ Box!SwitchInit
  BY DEF InvertersInit, SboxInit, BoxInv, Climbing, Box!SwitchInit
<1> QED
  BY <1>1, BoxSteps, PTL DEF InvertersSpec, RelaysAreSwitched, Box!SwitchSpec
=============================================================================
