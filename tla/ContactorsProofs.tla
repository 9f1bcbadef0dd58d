-------------------------- MODULE ContactorsProofs --------------------------
(***************************************************************************)
(* The safety properties of Contactors and ContactorTiming, for every set  *)
(* of extra batteries and every value of the times, with either wiring but *)
(* not both options that change how an output is driven: with PWM and      *)
(* normally closed coils together the properties are false, because set()  *)
(* with a duty loses the inversion.                                        *)
(***************************************************************************)
EXTENDS ContactorTiming, TLAPS

\* The configurations the theorems are about.
OneDrive == ~(Pwm /\ Inverted)

(* What each step of the ladder knows of the outputs and of the status it  *)
(* reports.  DISCONNECTED is the one state with two cases: the pass that   *)
(* gives the request to open leaves the outputs to the next pass.          *)
LadderInv ==
  /\ contactorStatus = "DISCONNECTED" =>
       \/ contactors_engaged = 0 /\ MainOpen
       \/ contactors_engaged = 1 /\ MainClosed
  /\ contactorStatus = "START_PRECHARGE" => contactors_engaged = 0 /\ MainOpen
  /\ contactorStatus = "PRECHARGE" =>
       /\ contactors_engaged = 3
       /\ Closed(negative_pin) /\ ~Closed(precharge_pin) /\ ~Closed(positive_pin)
  /\ contactorStatus = "POSITIVE" =>
       /\ contactors_engaged = 3
       /\ Closed(negative_pin) /\ Closed(precharge_pin) /\ ~Closed(positive_pin)
  /\ contactorStatus = "PRECHARGE_OFF" =>
       /\ contactors_engaged = 3
       /\ Closed(negative_pin) /\ Closed(precharge_pin) /\ Closed(positive_pin)
  /\ contactorStatus = "COMPLETED" => contactors_engaged = 1 /\ MainClosed
  /\ contactorStatus = "SHUTDOWN_REQUESTED" => contactors_engaged = 2 /\ MainOpen

LatchInv == timeSpentInFaultedMode > MaxFaultTicks => contactorStatus = "SHUTDOWN_REQUESTED"

IInv == TypeOK /\ LadderInv /\ LatchInv

-----------------------------------------------------------------------------
(* Outputs and ages. *)

LEMMA DriveCloses ==
  ASSUME OneDrive
  PROVE  /\ ~Closed(SetDigital(FALSE)) /\ Closed(SetDigital(TRUE))
         /\ ~Closed(Set(FALSE, "off"))
         /\ Closed(Set(TRUE, "full")) /\ Closed(Set(TRUE, "hold"))
BY ConfigAssumption DEF OneDrive, Closed, Set, SetDigital

LEMMA DriveType ==
  /\ \A on \in BOOLEAN : SetDigital(on) \in Level
  /\ \A on \in BOOLEAN : \A duty \in Level : Set(on, duty) \in Level
BY DEF Set, SetDigital, Level

LEMMA AgedType ==
  ASSUME NEW age \in 0..Horizon, NEW d \in 1..MaxDelay
  PROVE  Aged(age, d) \in 0..Horizon
BY TimeAssumption DEF Aged

LEMMA SinceType ==
  ASSUME TypeOK, NEW d \in 1..MaxDelay
  PROVE  /\ Keep(d) => since' \in [Stamp -> 0..Horizon]
         /\ \A s \in Stamp : Take(s, d) => since' \in [Stamp -> 0..Horizon]
<1>1. \A s \in Stamp : Age(s, d) \in 0..Horizon
  BY AgedType DEF TypeOK, Age
<1>2. 0 \in 0..Horizon
  BY TimeAssumption
<1> QED
  BY <1>1, <1>2 DEF Keep, Take

LEMMA EStopAgeType ==
  ASSUME TypeOK, NEW d \in 1..MaxDelay
  PROVE  EStopAge(d) \in NotWaiting..Horizon
<1>1. CASE estop_open_wait_start_ms = NotWaiting
  BY <1>1, TimeAssumption DEF EStopAge, NotWaiting
<1>2. CASE estop_open_wait_start_ms \in 0..Horizon
  BY <1>2, AgedType, TimeAssumption DEF EStopAge, NotWaiting
<1> QED
  BY <1>1, <1>2 DEF TypeOK, NotWaiting

LEMMA PrologueType ==
  ASSUME TypeOK, NEW d \in 1..MaxDelay, Prologue(d)
  PROVE  /\ uptime' \in 0..BootTime
         /\ dc_bus_live' \in BOOLEAN
         /\ timeSpentInFaultedMode' \in 0..(MaxFaultTicks + 1)
         /\ extra_pin' \in [Extra -> Level]
         /\ extra_engaged' \in [Extra -> BOOLEAN]
         /\ pull_in_start' \in [Extra -> 0..Horizon]
<1>1. uptime' \in 0..BootTime
  BY TimeAssumption DEF TypeOK, Prologue, Uptime
<1>2. timeSpentInFaultedMode' \in 0..(MaxFaultTicks + 1)
  BY TimeAssumption DEF TypeOK, Prologue, FaultTicks
<1>3. \A e \in Extra : PullInAge(e, d) \in 0..Horizon
  BY AgedType, TimeAssumption DEF TypeOK, PullInAge
<1>4. \A e \in Extra : ExtraDuty(e, d) \in Level
  BY DEF ExtraDuty, Level
<1>5. /\ extra_engaged' \in [Extra -> BOOLEAN]
      /\ pull_in_start' \in [Extra -> 0..Horizon]
  BY <1>3 DEF Prologue, handle_extra_contactors, Joins, TypeOK
<1>6. extra_pin' \in [Extra -> Level]
  <2>1. "off" \in Level
    BY DEF Level
  <2> QED
    BY <2>1, <1>4, DriveType DEF Prologue, handle_extra_contactors
<1> QED
  BY <1>1, <1>2, <1>5, <1>6 DEF Prologue

-----------------------------------------------------------------------------
(* The invariant holds initially. *)

LEMMA InitIInv ==
  ASSUME OneDrive, Init
  PROVE  IInv
<1>1. TypeOK
  <2>1. /\ negative_pin \in Level /\ precharge_pin \in Level /\ positive_pin \in Level
        /\ extra_pin \in [Extra -> Level]
    BY DEF Init, Set, SetDigital, Level
  <2>2. since \in [Stamp -> 0..Horizon] /\ pull_in_start \in [Extra -> 0..Horizon]
    BY TimeAssumption DEF Init
  <2>3. /\ equipment_stop_active \in BOOLEAN /\ system_fault \in BOOLEAN
        /\ extra_engaged \in [Extra -> BOOLEAN] /\ extra_allowed \in [Extra -> BOOLEAN]
        /\ dc_bus_live \in BOOLEAN /\ inverter_allows_contactor_closing \in BOOLEAN
        /\ emulator_paused \in BOOLEAN /\ battery_detected \in BOOLEAN
    BY DEF Init
  <2>4. /\ estop_open_wait_start_ms \in -1..Horizon /\ open_contactor_event \in -1..1
        /\ timeSpentInFaultedMode \in 0..(MaxFaultTicks + 1)
        /\ contactors_engaged \in 0..3
        /\ uptime \in 0..BootTime /\ wraps \in 0..MaxWraps
    BY TimeAssumption DEF Init, NotWaiting, NoEvent
  <2>5. contactorStatus \in State
    BY DEF Init, State
  <2> QED
    BY <2>1, <2>2, <2>3, <2>4, <2>5 DEF TypeOK, NotWaiting, NoEvent
<1>2. LadderInv
  BY DriveCloses DEF Init, LadderInv, MainOpen
<1>3. LatchInv
  BY TimeAssumption DEF Init, LatchInv
<1> QED
  BY <1>1, <1>2, <1>3 DEF IInv

-----------------------------------------------------------------------------
(* A pass keeps the types. *)

LEMMA PassType ==
  ASSUME TypeOK, NEW d \in 1..MaxDelay, handle_contactors(d)
  PROVE  TypeOK'
<1> USE DEF State, NotWaiting, NoEvent
<1>1. /\ SetDigital(FALSE) \in Level /\ SetDigital(TRUE) \in Level
      /\ Set(FALSE, "off") \in Level
      /\ Set(TRUE, "full") \in Level /\ Set(TRUE, "hold") \in Level
  BY DriveType DEF Level
<1>2. /\ uptime' \in 0..BootTime
      /\ dc_bus_live' \in BOOLEAN
      /\ timeSpentInFaultedMode' \in 0..(MaxFaultTicks + 1)
      /\ extra_pin' \in [Extra -> Level]
      /\ extra_engaged' \in [Extra -> BOOLEAN]
      /\ pull_in_start' \in [Extra -> 0..Horizon]
  BY PrologueType DEF handle_contactors
<1>3. /\ wraps' \in 0..MaxWraps
      /\ inverter_allows_contactor_closing' \in BOOLEAN
      /\ equipment_stop_active' \in BOOLEAN /\ system_fault' \in BOOLEAN
      /\ emulator_paused' \in BOOLEAN /\ battery_detected' \in BOOLEAN
      /\ extra_allowed' \in [Extra -> BOOLEAN]
  BY DEF handle_contactors, inputs, TypeOK
<1>4. /\ Keep(d) => since' \in [Stamp -> 0..Horizon]
      /\ \A s \in Stamp : Take(s, d) => since' \in [Stamp -> 0..Horizon]
  BY SinceType
<1>5. EStopAge(d) \in -1..Horizon
  BY EStopAgeType
<1> DEFINE Driven == /\ contactorStatus' \in State
                     /\ negative_pin' \in Level /\ precharge_pin' \in Level
                     /\ positive_pin' \in Level
                     /\ since' \in [Stamp -> 0..Horizon]
                     /\ estop_open_wait_start_ms' \in -1..Horizon
                     /\ contactors_engaged' \in 0..3
                     /\ open_contactor_event' \in -1..1
<1>6. ASSUME Driven PROVE TypeOK'
  BY <1>2, <1>3, <1>6 DEF TypeOK
<1>7. Driven
  <2> USE DEF TypeOK
  <2>1. CASE Shutdown(d)
    BY <2>1, <1>1, <1>4, <1>5 DEF Shutdown, OpenMain, Set, SetDigital, Level
  <2>2. CASE StayOpen(d)
    BY <2>2, <1>1, <1>4, <1>5 DEF StayOpen, OpenMain, Set, SetDigital, Level
  <2>3. CASE CloseNegative(d)
    <3>1. /\ precharge_pin' \in Level /\ positive_pin' \in Level
          /\ negative_pin' \in Level
      BY <2>3 DEF CloseNegative, Set, SetDigital, Level
    <3>2. since' \in [Stamp -> 0..Horizon]
      BY <2>3, <1>4 DEF CloseNegative, Stamp
    <3>3. /\ contactorStatus' \in State /\ contactors_engaged' \in 0..3
          /\ open_contactor_event' \in -1..1
      BY <2>3 DEF CloseNegative
    <3>4. estop_open_wait_start_ms' \in -1..Horizon
      BY <2>3, <1>5 DEF CloseNegative
    <3> QED
      BY <3>1, <3>2, <3>3, <3>4
  <2>4. CASE ClosePrecharge(d)
    BY <2>4, <1>1, <1>4, <1>5 DEF ClosePrecharge, Stamp, Set, SetDigital, Level
  <2>5. CASE ClosePositive(d)
    BY <2>5, <1>1, <1>4, <1>5 DEF ClosePositive, Stamp, Set, SetDigital, Level
  <2>6. CASE OpenPrecharge(d)
    BY <2>6, <1>1, <1>4, <1>5 DEF OpenPrecharge, Set, SetDigital, Level
  <2>7. CASE LadderWaits(d)
    BY <2>7, <1>4, <1>5 DEF LadderWaits, pins
  <2>8. CASE OpenForInverter(d)
    BY <2>8, <1>4, <1>5 DEF OpenForInverter, pins
  <2>9. CASE OpenForEStop(d)
    BY <2>9, <1>4, TimeAssumption DEF OpenForEStop, pins
  <2>10. CASE HoldForEStop(d)
    BY <2>10, <1>4, <1>5, TimeAssumption DEF HoldForEStop, EStopWait, pins
  <2>11. CASE StayClosed(d)
    BY <2>11, <1>4, TimeAssumption DEF StayClosed, pins
  <2> QED
    BY <2>1, <2>2, <2>3, <2>4, <2>5, <2>6, <2>7, <2>8, <2>9, <2>10, <2>11
    DEF handle_contactors
<1> QED
  BY <1>6, <1>7

-----------------------------------------------------------------------------
(* A pass keeps the ladder's invariant and sets the latch with its counter. *)

LEMMA PassLadder ==
  ASSUME OneDrive, TypeOK, LadderInv, NEW d \in 1..MaxDelay, handle_contactors(d)
  PROVE  LadderInv'
<1> USE DriveCloses DEF LadderInv, MainOpen, MainClosed
<1>1. CASE Shutdown(d)
  BY <1>1 DEF Shutdown, OpenMain
<1>2. CASE StayOpen(d)
  BY <1>2 DEF StayOpen, OpenMain
<1>3. CASE CloseNegative(d)
  BY <1>3 DEF CloseNegative
<1>4. CASE ClosePrecharge(d)
  BY <1>4 DEF ClosePrecharge
<1>5. CASE ClosePositive(d)
  BY <1>5 DEF ClosePositive
<1>6. CASE OpenPrecharge(d)
  BY <1>6 DEF OpenPrecharge
<1>7. CASE LadderWaits(d)
  BY <1>7 DEF LadderWaits, pins
<1>8. CASE OpenForInverter(d)
  BY <1>8 DEF OpenForInverter, pins
<1>9. CASE OpenForEStop(d)
  BY <1>9 DEF OpenForEStop, pins
<1>10. CASE HoldForEStop(d)
  BY <1>10 DEF HoldForEStop, pins
<1>11. CASE StayClosed(d)
  BY <1>11 DEF StayClosed, pins
<1> QED
  BY <1>1, <1>2, <1>3, <1>4, <1>5, <1>6, <1>7, <1>8, <1>9, <1>10, <1>11
  DEF handle_contactors

LEMMA PassLatch ==
  ASSUME TypeOK, NEW d \in 1..MaxDelay, handle_contactors(d)
  PROVE  LatchInv'
<1>1. CASE FaultLatched
  <2>1. contactorStatus' = "SHUTDOWN_REQUESTED"
    BY <1>1 DEF handle_contactors, Shutdown, StayOpen, CloseNegative, ClosePrecharge,
                ClosePositive, OpenPrecharge, LadderWaits, OpenForInverter,
                OpenForEStop, HoldForEStop, StayClosed
  <2> QED
    BY <2>1 DEF LatchInv
<1>2. CASE ~FaultLatched
  <2>1. ~(FaultTicks > MaxFaultTicks)
    BY <1>2 DEF FaultLatched
  <2> QED
    BY <2>1 DEF LatchInv, handle_contactors, Prologue
<1> QED
  BY <1>1, <1>2

\* No other part writes what the pass owns.
LEMMA EnvironmentFrame ==
  ASSUME Environment
  PROVE  UNCHANGED control
BY DEF Environment, SharedWrites, MillisWraps

LEMMA EnvironmentType ==
  ASSUME TypeOK, Environment
  PROVE  TypeOK'
<1> USE DEF TypeOK, control, pins, extras, inputs
<1>1. CASE SharedWrites
  BY <1>1 DEF SharedWrites
<1>2. CASE MillisWraps
  BY <1>2, TimeAssumption DEF MillisWraps
<1> QED
  BY <1>1, <1>2 DEF Environment

LEMMA StepIInv ==
  ASSUME OneDrive, IInv, [Next]_vars
  PROVE  IInv'
<1> USE DEF IInv
<1>1. ASSUME NEW d \in 1..MaxDelay, handle_contactors(d) PROVE IInv'
  BY <1>1, PassType, PassLadder, PassLatch
<1>2. CASE Environment
  <2>1. TypeOK'
    BY <1>2, EnvironmentType
  <2>2. LadderInv' /\ LatchInv'
    BY <1>2, EnvironmentFrame
    DEF control, pins, LadderInv, LatchInv, MainOpen, MainClosed
  <2> QED
    BY <2>1, <2>2
<1>3. CASE UNCHANGED vars
  BY <1>3 DEF vars, control, pins, extras, inputs, TypeOK, LadderInv, LatchInv,
              MainOpen, MainClosed
<1> QED
  BY <1>1, <1>2, <1>3 DEF Next

\* The inductive invariant of the contactor control.
THEOREM Inductive ==
  ASSUME OneDrive
  PROVE  Spec => []IInv
<1>1. Init => IInv
  BY InitIInv
<1>2. IInv /\ [Next]_vars => IInv'
  BY StepIInv
<1> QED
  BY <1>1, <1>2, PTL DEF Spec

-----------------------------------------------------------------------------
(* The properties. *)

\* Every variable keeps its type: the counter that counts faults and the ages
\* stay within their caps whatever the passes' delays.
THEOREM TypeCorrect ==
  ASSUME OneDrive
  PROVE  Spec => []TypeOK
<1>1. IInv => TypeOK
  BY DEF IInv
<1> QED
  BY <1>1, Inductive, PTL

\* The positive contactor never conducts alone (handle_contactors).
THEOREM PositiveSafe ==
  ASSUME OneDrive
  PROVE  Spec => []PositiveNeverAlone
<1>1. IInv => PositiveNeverAlone
  BY DEF IInv, TypeOK, State, LadderInv, PositiveNeverAlone, MainOpen, MainClosed
<1> QED
  BY <1>1, Inductive, PTL

\* A fault that outlasts the allowance opens every main contactor.
THEOREM FaultSafe ==
  ASSUME OneDrive
  PROVE  Spec => []FaultOpens
<1>1. IInv => FaultOpens
  BY DEF IInv, LatchInv, LadderInv, FaultOpens
<1> QED
  BY <1>1, Inductive, PTL

\* What the inverters are told of the contactors is true of them.
THEOREM EngagedSafe ==
  ASSUME OneDrive
  PROVE  Spec => []EngagedTruthful
<1>1. IInv => EngagedTruthful
  BY DEF IInv, TypeOK, State, LadderInv, EngagedTruthful, MainOpen, MainClosed
<1> QED
  BY <1>1, Inductive, PTL

\* The fault latch is final: no step leaves it and nothing closes after it.
THEOREM ShutdownFinal ==
  ASSUME OneDrive
  PROVE  Spec => ShutdownIsFinal
<1> DEFINE Final == contactorStatus = "SHUTDOWN_REQUESTED" =>
                      MainOpen' /\ contactorStatus' = "SHUTDOWN_REQUESTED"
<1>1. ASSUME IInv, IInv', [Next]_vars
      PROVE  [Final]_vars
  <2>1. ASSUME NEW d \in 1..MaxDelay, handle_contactors(d),
               contactorStatus = "SHUTDOWN_REQUESTED"
        PROVE  contactorStatus' = "SHUTDOWN_REQUESTED"
    BY <2>1 DEF handle_contactors, FaultLatched, Shutdown, StayOpen, CloseNegative,
                ClosePrecharge, ClosePositive, OpenPrecharge, LadderWaits,
                OpenForInverter, OpenForEStop, HoldForEStop, StayClosed
  <2>2. CASE Environment
    BY <2>2, <1>1, EnvironmentFrame DEF control, pins, IInv, LadderInv, MainOpen
  <2> QED
    BY <1>1, <2>1, <2>2 DEF Next, IInv, LadderInv
<1> QED
  BY <1>1, Inductive, PTL DEF Spec, ShutdownIsFinal

\* A pass that finds the main contactors not closed is not in COMPLETED.
LEMMA NotClosedNotCompleted ==
  ASSUME IInv, ~MainClosed
  PROVE  contactorStatus # "COMPLETED"
BY DEF IInv, LadderInv

\* dc_bus_live outlives the closed contactors by one pass at most.
THEOREM DcBusLiveSafe ==
  ASSUME OneDrive
  PROVE  Spec => DcBusLiveForOnePass
<1>1. ASSUME IInv, [Next]_vars
      PROVE  [~MainClosed => ~dc_bus_live']_control
  <2>1. ASSUME NEW d \in 1..MaxDelay, handle_contactors(d), ~MainClosed
        PROVE  ~dc_bus_live'
    BY <1>1, <2>1, NotClosedNotCompleted DEF handle_contactors, Prologue
  <2>2. CASE Environment
    BY <2>2, EnvironmentFrame
  <2>3. CASE UNCHANGED vars
    BY <2>3 DEF vars
  <2> QED
    BY <1>1, <2>1, <2>2, <2>3 DEF Next
<1> QED
  BY <1>1, Inductive, PTL DEF Spec, DcBusLiveForOnePass

\* The extra batteries leave with the main pack, one pass later at most.
THEOREM ExtraSafe ==
  ASSUME OneDrive
  PROVE  Spec => ExtraFollowsMain
<1>1. ASSUME IInv, [Next]_vars
      PROVE  [~MainClosed => \A e \in Extra : ~Closed(extra_pin'[e])]_control
  <2>1. ASSUME NEW d \in 1..MaxDelay, handle_contactors(d), ~MainClosed,
               NEW e \in Extra
        PROVE  ~Closed(extra_pin'[e])
    <3>1. ~Joins(e)
      BY <1>1, <2>1, NotClosedNotCompleted DEF Joins
    <3>2. extra_pin'[e] = Set(FALSE, "off")
      BY <2>1, <3>1 DEF handle_contactors, Prologue, handle_extra_contactors
    <3> QED
      BY <3>2, DriveCloses
  <2>2. CASE Environment
    BY <2>2, EnvironmentFrame
  <2>3. CASE UNCHANGED vars
    BY <2>3 DEF vars
  <2> QED
    BY <1>1, <2>1, <2>2, <2>3 DEF Next
<1> QED
  BY <1>1, Inductive, PTL DEF Spec, ExtraFollowsMain

-----------------------------------------------------------------------------
(* The observed clocks.  They only watch: ContactorTiming is Contactors.   *)

\* The time of start-up windows that a wrap of millis() has cost so far.
Lost == wraps * BootTime + uptime - BootTime

\* A clock that stops at LastTick has shown this much.
AtLeast(clock, time) == clock >= time \/ clock = LastTick

\* What the clocks of the coils have shown when the ladder's stamps say so.
ClosedFor ==
  /\ contactorStatus = "PRECHARGE" =>
       AtLeast(negative_for, since["prechargeStartTime"])
  /\ contactorStatus = "POSITIVE" =>
       /\ AtLeast(negative_for, NegativeTime + since["negativeStartTime"])
       /\ AtLeast(precharge_for, since["negativeStartTime"])

\* What they can have shown at most: the step's limit is exceeded only while
\* the start-up window holds the ladder up.
ResistorFor ==
  /\ contactorStatus \in {"PRECHARGE", "POSITIVE", "PRECHARGE_OFF"} =>
       battery_detected /\ Lost >= 0
  /\ contactorStatus \notin {"POSITIVE", "PRECHARGE_OFF"} => precharge_for = 0
  /\ contactorStatus = "POSITIVE" =>
       /\ \/ since["negativeStartTime"] = Horizon
          \/ precharge_for <= since["negativeStartTime"]
       /\ precharge_for <= PrechargeTime + Lost
  /\ contactorStatus = "PRECHARGE_OFF" =>
       /\ \/ since["prechargeCompletedTime"] = Horizon
          \/ precharge_for <= PrechargeTime + MaxDelay + Lost
                                + since["prechargeCompletedTime"]
       /\ precharge_for <= PrechargeTime + MaxDelay + CompletedTime + Lost

\* A closed pack that sees a stop is timing it; the wait may be older, from a
\* stop that ended before the inverter's own request opened the pack.
StoppedFor ==
  /\ stopped_for <= EStopTimeout + MaxDelay
  /\ contactorStatus = "COMPLETED" /\ stopped_for # NotWaiting =>
       /\ estop_open_wait_start_ms # NotWaiting
       /\ stopped_for <= estop_open_wait_start_ms
       /\ estop_open_wait_start_ms <= EStopTimeout

ClocksOK ==
  /\ negative_for \in 0..LastTick /\ precharge_for \in 0..LastTick
  /\ stopped_for \in NotWaiting..LastTick

TimedInv == IInv /\ ClocksOK /\ ClosedFor /\ ResistorFor /\ StoppedFor

-----------------------------------------------------------------------------

LEMMA TickedType ==
  ASSUME NEW clock \in 0..LastTick, NEW d \in 1..MaxDelay
  PROVE  /\ Ticked(clock, d) \in 0..LastTick
         /\ Ticked(clock, d) <= clock + d
         /\ Ticked(clock, d) = clock + d \/ Ticked(clock, d) = LastTick
BY LastTickAssumption, TimeAssumption DEF Ticked

\* A clock keeps up with an age that it runs ahead of by a fixed time.
LEMMA TickedKeepsUp ==
  ASSUME NEW clock \in 0..LastTick, NEW d \in 1..MaxDelay, NEW age \in 0..Horizon,
         NEW ahead \in Nat, AtLeast(clock, ahead + age)
  PROVE  AtLeast(Ticked(clock, d), ahead + Aged(age, d))
BY LastTickAssumption, TimeAssumption DEF Ticked, Aged, AtLeast

LEMMA ClocksType ==
  ASSUME ClocksOK, NEW d \in 1..MaxDelay, Observe(d)
  PROVE  ClocksOK'
<1>1. stopped_for # NotWaiting => stopped_for \in 0..LastTick
  BY LastTickAssumption DEF ClocksOK, NotWaiting
<1>2. 0 \in 0..LastTick /\ 0..LastTick \subseteq NotWaiting..LastTick
      /\ NotWaiting \in NotWaiting..LastTick
  BY LastTickAssumption DEF NotWaiting
<1> QED
  BY <1>1, <1>2, TickedType DEF ClocksOK, Observe

\* A pass only adds to the time lost, and the pass that the start-up window
\* holds up adds all of it.
LEMMA LostGrows ==
  ASSUME TypeOK, NEW d \in 1..MaxDelay, handle_contactors(d)
  PROVE  /\ Lost \in Int /\ Lost' \in Int
         /\ Lost' >= Lost
         /\ Uptime(d) # BootTime => Lost' = Lost + d
         /\ Uptime(d) = BootTime => Lost' >= 0
<1>1. wraps \in Nat /\ BootTime \in Nat /\ wraps * BootTime \in Nat
  BY TimeAssumption DEF TypeOK
<1>2. wraps' = wraps /\ uptime' = Uptime(d) /\ uptime \in 0..BootTime
  BY DEF handle_contactors, Prologue, TypeOK
<1>3. /\ Uptime(d) \in 0..BootTime /\ Uptime(d) >= uptime
      /\ Uptime(d) # BootTime => Uptime(d) = uptime + d
  BY <1>1, <1>2, TimeAssumption DEF Uptime
<1> DEFINE W == wraps * BootTime
<1>4. Lost = W + uptime - BootTime /\ Lost' = W + Uptime(d) - BootTime
  BY <1>2 DEF Lost
<1> HIDE DEF W
<1>5. W \in Nat
  BY <1>1 DEF W
<1> QED
  BY <1>1, <1>2, <1>3, <1>4, <1>5

LEMMA LostType ==
  ASSUME TypeOK
  PROVE  Lost \in Int
BY TimeAssumption DEF TypeOK, Lost

\* The time lost to start-up windows is bounded by the wraps there were.
LEMMA LostBounded ==
  ASSUME TypeOK
  PROVE  Lost <= MaxWraps * BootTime
<1>1. /\ wraps \in 0..MaxWraps /\ uptime \in 0..BootTime
      /\ MaxWraps \in Nat /\ BootTime \in Nat
  BY TimeAssumption DEF TypeOK
<1>2. wraps * BootTime <= MaxWraps * BootTime
  BY <1>1
<1> QED
  BY <1>1, <1>2 DEF Lost

-----------------------------------------------------------------------------
(* A pass keeps what the clocks have shown at least ... *)

LEMMA PassClosedFor ==
  ASSUME OneDrive, IInv, ClocksOK, ClosedFor, ResistorFor,
         NEW d \in 1..MaxDelay, handle_contactors(d), Observe(d)
  PROVE  ClosedFor'
<1>1. /\ since \in [Stamp -> 0..Horizon]
      /\ negative_for \in 0..LastTick /\ precharge_for \in 0..LastTick
      /\ {"prechargeStartTime", "negativeStartTime", "prechargeCompletedTime"} = Stamp
  BY DEF IInv, TypeOK, ClocksOK, Stamp
<1>2. LadderInv'
  BY PassLadder DEF IInv
<1>3. ClocksOK'
  BY ClocksType
<1>4. CASE CloseNegative(d)
  <2>1. contactorStatus' = "PRECHARGE" /\ since'["prechargeStartTime"] = 0
    BY <1>1, <1>4, TimeAssumption DEF CloseNegative, Take
  <2> QED
    BY <2>1, <1>3 DEF ClosedFor, ClocksOK, AtLeast
<1>5. CASE ClosePrecharge(d)
  <2>1. contactorStatus' = "POSITIVE" /\ since'["negativeStartTime"] = 0
    BY <1>1, <1>5, TimeAssumption DEF ClosePrecharge, Take
  <2>2. Closed(negative_pin) /\ Closed(negative_pin')
    BY <1>2, <1>5, <2>1 DEF ClosePrecharge, IInv, LadderInv
  <2>3. negative_for' = Ticked(negative_for, d)
    BY <2>2, <1>5 DEF Observe, ClosePrecharge
  <2>4. AtLeast(negative_for, 0 + since["prechargeStartTime"])
    BY <1>1, <1>5 DEF ClosedFor, ClosePrecharge
  <2>5. AtLeast(Ticked(negative_for, d), 0 + Age("prechargeStartTime", d))
    BY <1>1, <2>4, TickedKeepsUp DEF Age
  <2>6. Age("prechargeStartTime", d) \in 0..Horizon
    BY <1>1, AgedType DEF Age
  <2>7. AtLeast(negative_for', NegativeTime + 0)
    BY <1>5, <2>3, <2>5, <2>6, <1>1, TickedType, TimeAssumption DEF ClosePrecharge, AtLeast
  <2> QED
    BY <2>1, <2>7, <1>3 DEF ClosedFor, ClocksOK, AtLeast
<1>6. CASE LadderWaits(d)
  <2>1. /\ contactorStatus' = contactorStatus
        /\ \A s \in Stamp : since'[s] = Aged(since[s], d)
    BY <1>6 DEF LadderWaits, Keep, Age
  <2>2. ASSUME contactorStatus = "PRECHARGE"
        PROVE  AtLeast(negative_for', since'["prechargeStartTime"])
    <3>1. negative_for' = Ticked(negative_for, d)
      BY <2>1, <2>2, <1>2 DEF Observe, IInv, LadderInv
    <3>2. AtLeast(negative_for, 0 + since["prechargeStartTime"])
      BY <1>1, <2>2 DEF ClosedFor
    <3>3. AtLeast(Ticked(negative_for, d), 0 + Aged(since["prechargeStartTime"], d))
      BY <1>1, <3>2, TickedKeepsUp
    <3>4. Aged(since["prechargeStartTime"], d) \in 0..Horizon
      BY <1>1, AgedType
    <3> QED
      BY <1>1, <2>1, <3>1, <3>3, <3>4
  <2>3. ASSUME contactorStatus = "POSITIVE"
        PROVE  /\ AtLeast(negative_for', NegativeTime + since'["negativeStartTime"])
               /\ AtLeast(precharge_for', since'["negativeStartTime"])
    <3>1. /\ negative_for' = Ticked(negative_for, d)
          /\ precharge_for' = Ticked(precharge_for, d)
      BY <2>1, <2>3, <1>2 DEF Observe, IInv, LadderInv
    <3>2. /\ AtLeast(negative_for, NegativeTime + since["negativeStartTime"])
          /\ AtLeast(precharge_for, 0 + since["negativeStartTime"])
      BY <1>1, <2>3 DEF ClosedFor
    <3>3. /\ AtLeast(Ticked(negative_for, d), NegativeTime + Aged(since["negativeStartTime"], d))
          /\ AtLeast(Ticked(precharge_for, d), 0 + Aged(since["negativeStartTime"], d))
      BY <1>1, <3>2, TickedKeepsUp, TimeAssumption
    <3>4. Aged(since["negativeStartTime"], d) \in 0..Horizon
      BY <1>1, AgedType
    <3> QED
      BY <1>1, <2>1, <3>1, <3>3, <3>4
  <2> QED
    BY <2>1, <2>2, <2>3 DEF ClosedFor
<1>7. CASE contactorStatus' \notin {"PRECHARGE", "POSITIVE"}
  BY <1>7 DEF ClosedFor
<1> QED
  BY <1>4, <1>5, <1>6, <1>7
  DEF handle_contactors, Shutdown, StayOpen, ClosePositive, OpenPrecharge,
      OpenForInverter, OpenForEStop, HoldForEStop, StayClosed

-----------------------------------------------------------------------------
(* ... and at most. *)

LEMMA PassResistorFor ==
  ASSUME OneDrive, IInv, ClocksOK, ResistorFor,
         NEW d \in 1..MaxDelay, handle_contactors(d), Observe(d)
  PROVE  ResistorFor'
<1>1. /\ since \in [Stamp -> 0..Horizon]
      /\ {"prechargeStartTime", "negativeStartTime", "prechargeCompletedTime"} = Stamp
      /\ battery_detected' = battery_detected
  BY DEF IInv, TypeOK, Stamp, handle_contactors, inputs
<1>2. precharge_for \in Nat /\ Lost \in Int
  BY LastTickAssumption, LostType DEF ClocksOK, IInv
<1>3. PICK lost \in Int : /\ lost = Lost' /\ lost >= Lost
                          /\ Uptime(d) # BootTime => lost = Lost + d
                          /\ Uptime(d) = BootTime => lost >= 0
  BY LostGrows DEF IInv
<1>4. PICK shown \in Nat : /\ shown = precharge_for'
                           /\ shown = 0 \/ shown <= precharge_for + d
                           /\ ~Closed(precharge_pin') => shown = 0
  BY ClocksType, TickedType, LastTickAssumption DEF Observe, ClocksOK
<1>5. /\ BootTime \in Nat /\ PrechargeTime \in Nat /\ CompletedTime \in Nat
      /\ PrechargeTime < Horizon /\ CompletedTime < Horizon
      /\ MaxDelay \in Nat /\ Horizon \in Nat /\ d \in Nat /\ d <= MaxDelay
  BY TimeAssumption
<1>6. lost >= Lost /\ (shown = 0 \/ shown <= precharge_for + d)
  BY <1>3, <1>4
<1>7. contactorStatus' \notin {"POSITIVE", "PRECHARGE_OFF"} => shown = 0
  BY <1>4, PassType, PassLadder DEF LadderInv, IInv, TypeOK, State, MainOpen, MainClosed
<1>8. CASE CloseNegative(d)
  BY <1>1, <1>3, <1>4, <1>7, <1>8 DEF CloseNegative, Started, ResistorFor
<1>9. CASE ClosePrecharge(d)
  <2>1. contactorStatus' = "POSITIVE" /\ since'["negativeStartTime"] = 0
    BY <1>1, <1>9 DEF ClosePrecharge, Take
  <2>2. shown = 0
    BY <1>4, <1>9 DEF ClosePrecharge, IInv, LadderInv, Observe
  <2>3. lost >= 0 /\ battery_detected'
    BY <1>1, <1>3, <1>9 DEF ClosePrecharge, Started
  <2>4. shown <= 0 /\ shown <= PrechargeTime + lost
    BY <2>2, <2>3, <1>5
  <2> QED
    BY <1>3, <1>4, <2>1, <2>3, <2>4 DEF ResistorFor
<1>10. CASE ClosePositive(d)
  <2>1. contactorStatus' = "PRECHARGE_OFF" /\ since'["prechargeCompletedTime"] = 0
    BY <1>1, <1>10 DEF ClosePositive, Take
  <2>2. precharge_for <= PrechargeTime + Lost
    BY <1>10 DEF ClosePositive, ResistorFor
  <2>3. lost >= 0 /\ battery_detected'
    BY <1>1, <1>3, <1>10 DEF ClosePositive, Started
  <2>4. /\ shown <= PrechargeTime + MaxDelay + lost + 0
        /\ shown <= PrechargeTime + MaxDelay + CompletedTime + lost
    BY <2>2, <2>3, <1>2, <1>5, <1>6
  <2> QED
    BY <1>3, <1>4, <2>1, <2>3, <2>4 DEF ResistorFor
<1>11. CASE LadderWaits(d)
  <2>1. /\ contactorStatus' = contactorStatus
        /\ contactorStatus \in {"START_PRECHARGE", "PRECHARGE", "POSITIVE", "PRECHARGE_OFF"}
        /\ ~(Started(d) /\ StepDue(d))
    BY <1>11 DEF LadderWaits
  <2>2. ASSUME NEW s \in Stamp
        PROVE  /\ since[s] \in Nat /\ since'[s] = Age(s, d) /\ Age(s, d) \in Nat
               /\ \/ Age(s, d) = Horizon
                  \/ since[s] # Horizon /\ Age(s, d) = since[s] + d
    <3>1. since[s] \in 0..Horizon /\ Age(s, d) = Aged(since[s], d)
      BY <1>1 DEF Age
    <3>2. since'[s] = Age(s, d)
      BY <1>11 DEF LadderWaits, Keep
    <3> QED
      BY <3>1, <3>2, <1>5 DEF Aged
  <2>3. CASE contactorStatus \in {"START_PRECHARGE", "PRECHARGE"}
    BY <2>1, <2>3, <1>1, <1>2, <1>3, <1>4, <1>7 DEF ResistorFor
  <2>4. CASE contactorStatus \in {"POSITIVE", "PRECHARGE_OFF"}
    <3>1. battery_detected /\ battery_detected' /\ Lost >= 0 /\ lost >= 0
      BY <1>1, <1>2, <1>3, <2>4 DEF ResistorFor
    <3>2. \/ Started(d)
          \/ lost = Lost + d
      BY <3>1, <1>3 DEF Started
    <3>3. CASE contactorStatus = "POSITIVE"
      <4> DEFINE old == since["negativeStartTime"]
                 age == Age("negativeStartTime", d)
      <4>1. /\ old \in Nat /\ age \in Nat /\ since'["negativeStartTime"] = age
            /\ age = Horizon \/ (old # Horizon /\ age = old + d)
        BY <2>2, <1>1
      <4>2. Started(d) => age < PrechargeTime
        BY <2>1, <3>3, <4>1, <1>5 DEF StepDue
      <4>3. /\ old = Horizon \/ precharge_for <= old
            /\ precharge_for <= PrechargeTime + Lost
        BY <3>3 DEF ResistorFor
      <4> HIDE DEF old, age
      <4>4. age = Horizon \/ shown <= age
        BY <4>1, <4>3, <1>2, <1>4, <1>5
      <4>5. shown <= PrechargeTime + lost
        BY <3>1, <3>2, <4>1, <4>2, <4>3, <4>4, <1>2, <1>4, <1>5
      <4> QED
        BY <2>1, <3>1, <3>3, <4>1, <4>4, <4>5, <1>3, <1>4 DEF ResistorFor
    <3>4. CASE contactorStatus = "PRECHARGE_OFF"
      <4> DEFINE old == since["prechargeCompletedTime"]
                 age == Age("prechargeCompletedTime", d)
      <4>1. /\ old \in Nat /\ age \in Nat /\ since'["prechargeCompletedTime"] = age
            /\ age = Horizon \/ (old # Horizon /\ age = old + d)
        BY <2>2, <1>1
      <4>2. Started(d) => age < CompletedTime
        BY <2>1, <3>4, <4>1, <1>5 DEF StepDue
      <4>3. /\ \/ old = Horizon
               \/ precharge_for <= PrechargeTime + MaxDelay + Lost + old
            /\ precharge_for <= PrechargeTime + MaxDelay + CompletedTime + Lost
        BY <3>4 DEF ResistorFor
      <4> HIDE DEF old, age
      <4>4. age = Horizon \/ shown <= PrechargeTime + MaxDelay + lost + age
        <5>1. age # Horizon => precharge_for + d <= PrechargeTime + MaxDelay + Lost + age
          BY <4>1, <4>3, <1>2, <1>5
        <5>2. CASE shown = 0
          BY <5>2, <3>1, <4>1, <1>5
        <5>3. CASE shown <= precharge_for + d
          BY <5>1, <5>3, <4>1, <1>2, <1>5, <1>6
        <5> QED
          BY <5>2, <5>3, <1>4
      <4>5. shown <= PrechargeTime + MaxDelay + CompletedTime + lost
        BY <3>1, <3>2, <4>1, <4>2, <4>3, <4>4, <1>2, <1>4, <1>5
      <4> QED
        BY <2>1, <3>1, <3>4, <4>1, <4>4, <4>5, <1>3, <1>4 DEF ResistorFor
    <3> QED
      BY <2>4, <3>3, <3>4
  <2> QED
    BY <2>1, <2>3, <2>4
<1>12. CASE contactorStatus' \notin {"PRECHARGE", "POSITIVE", "PRECHARGE_OFF"}
  BY <1>4, <1>7, <1>12 DEF ResistorFor
<1> QED
  BY <1>8, <1>9, <1>10, <1>11, <1>12
  DEF handle_contactors, Shutdown, StayOpen, OpenPrecharge,
      OpenForInverter, OpenForEStop, HoldForEStop, StayClosed

-----------------------------------------------------------------------------
(* A pass keeps the wait for the equipment stop bounded. *)

LEMMA PassStoppedFor ==
  ASSUME IInv, ClocksOK, StoppedFor,
         NEW d \in 1..MaxDelay, handle_contactors(d), Observe(d)
  PROVE  StoppedFor'
<1>1. /\ stopped_for \in -1..LastTick /\ LastTick \in Nat
      /\ estop_open_wait_start_ms \in -1..Horizon /\ Horizon \in Nat
      /\ EStopTimeout \in Nat /\ EStopTimeout < Horizon
      /\ MaxDelay \in Nat /\ d \in Nat /\ d <= MaxDelay
  BY TimeAssumption, LastTickAssumption DEF IInv, TypeOK, ClocksOK, NotWaiting
<1>2. PICK seen \in Int :
        /\ seen = stopped_for'
        /\ \/ seen = -1
           \/ /\ contactorStatus = "COMPLETED" /\ ~MayClose
              /\ inverter_allows_contactor_closing
              /\ \/ stopped_for = -1 /\ seen = 0
                 \/ stopped_for # -1 /\ seen <= stopped_for + d
  <2>1. stopped_for # -1 =>
          stopped_for \in 0..LastTick /\ Ticked(stopped_for, d) <= stopped_for + d
    BY <1>1, TickedType
  <2> QED
    BY <1>1, <2>1, ClocksType DEF Observe, ClocksOK, NotWaiting
<1>3. CASE seen = -1
  BY <1>1, <1>2, <1>3 DEF StoppedFor, NotWaiting
<1>4. CASE seen # -1
  <2>1. stopped_for # -1 =>
          /\ estop_open_wait_start_ms # -1
          /\ stopped_for <= estop_open_wait_start_ms
          /\ estop_open_wait_start_ms <= EStopTimeout
    BY <1>2, <1>4 DEF StoppedFor, NotWaiting
  <2>2. seen <= EStopTimeout + d
    BY <1>1, <1>2, <1>4, <2>1
  <2>3. CASE HoldForEStop(d)
    <3>1. /\ ~(EStopWait(d) > EStopTimeout)
          /\ estop_open_wait_start_ms' = EStopWait(d)
      BY <2>3 DEF HoldForEStop, EStopTimedOut
    <3>2. CASE estop_open_wait_start_ms = -1
      <4>1. seen = 0 /\ EStopWait(d) = 0
        BY <1>2, <1>4, <2>1, <3>2 DEF EStopWait, NotWaiting
      <4> QED
        BY <1>1, <1>2, <3>1, <4>1 DEF StoppedFor, NotWaiting
    <3>3. CASE estop_open_wait_start_ms # -1
      <4>1. PICK age \in Nat : /\ age = Aged(estop_open_wait_start_ms, d)
                               /\ age = Horizon \/ age = estop_open_wait_start_ms + d
        BY <1>1, <3>3 DEF Aged
      <4>2. EStopWait(d) = age
        BY <3>3, <4>1 DEF EStopWait, EStopAge, NotWaiting
      <4>3. age <= EStopTimeout /\ age = estop_open_wait_start_ms + d
        BY <1>1, <3>1, <4>1, <4>2
      <4>4. seen <= age
        BY <1>1, <1>2, <1>4, <2>1, <3>3, <4>3
      <4>5. age # -1 /\ seen <= EStopTimeout + MaxDelay
        BY <1>1, <4>1, <4>3, <4>4
      <4> QED
        BY <1>2, <3>1, <4>2, <4>3, <4>4, <4>5 DEF StoppedFor, NotWaiting
    <3> QED
      BY <3>2, <3>3
  <2>4. CASE contactorStatus' # "COMPLETED"
    <3>1. seen <= EStopTimeout + MaxDelay
      BY <1>1, <2>2
    <3> QED
      BY <1>2, <2>4, <3>1 DEF StoppedFor
  <2>5. contactorStatus' # "COMPLETED" \/ HoldForEStop(d)
    BY <1>2, <1>4
    DEF handle_contactors, Shutdown, StayOpen, CloseNegative, ClosePrecharge,
        ClosePositive, OpenPrecharge, LadderWaits, OpenForInverter, OpenForEStop,
        StayClosed
  <2> QED
    BY <2>3, <2>4, <2>5
<1> QED
  BY <1>3, <1>4

-----------------------------------------------------------------------------
(* The invariant of the observed contactor control. *)

\* Observing takes no part in the steps.
LEMMA TimedStepIsStep ==
  ASSUME [TimedNext]_<<vars, clocks>>
  PROVE  [Next]_vars
BY DEF TimedNext, Next

LEMMA InitTimedInv ==
  ASSUME OneDrive, TimedInit
  PROVE  TimedInv
<1>1. IInv
  BY InitIInv DEF TimedInit
<1>2. ClocksOK
  BY LastTickAssumption DEF TimedInit, ClocksOK, NotWaiting
<1>3. ClosedFor /\ ResistorFor
  BY DEF TimedInit, Init, ClosedFor, ResistorFor
<1>4. StoppedFor
  BY TimeAssumption DEF TimedInit, StoppedFor, NotWaiting
<1> QED
  BY <1>1, <1>2, <1>3, <1>4 DEF TimedInv

LEMMA WrapKeepsLost ==
  ASSUME TypeOK, MillisWraps
  PROVE  Lost' = Lost
<1> DEFINE W == wraps * BootTime
<1>1. /\ wraps \in Nat /\ BootTime \in Nat /\ W \in Nat
      /\ uptime = BootTime /\ uptime' = 0 /\ wraps' = wraps + 1
  BY TimeAssumption DEF MillisWraps, TypeOK
<1>2. (wraps + 1) * BootTime = W + BootTime
  BY <1>1
<1>3. Lost = W + BootTime - BootTime /\ Lost' = W + BootTime + 0 - BootTime
  BY <1>1, <1>2 DEF Lost
<1> HIDE DEF W
<1> QED
  BY <1>1, <1>3

LEMMA StepTimedInv ==
  ASSUME OneDrive, TimedInv, [TimedNext]_<<vars, clocks>>
  PROVE  TimedInv'
<1> USE DEF TimedInv
<1>1. IInv'
  BY TimedStepIsStep, StepIInv
<1>2. ASSUME NEW d \in 1..MaxDelay, handle_contactors(d), Observe(d)
      PROVE  ClocksOK' /\ ClosedFor' /\ ResistorFor' /\ StoppedFor'
  BY <1>2, ClocksType, PassClosedFor, PassResistorFor, PassStoppedFor
<1>3. ASSUME UNCHANGED clocks, UNCHANGED control, Lost' = Lost,
             battery_detected' \in {TRUE, battery_detected}
      PROVE  ClocksOK' /\ ClosedFor' /\ ResistorFor' /\ StoppedFor'
  BY <1>3 DEF clocks, control, ClocksOK, ClosedFor, AtLeast, ResistorFor, StoppedFor
<1>4. CASE Environment /\ UNCHANGED clocks
  <2>1. UNCHANGED clocks /\ UNCHANGED control
    BY <1>4, EnvironmentFrame
  <2>2. battery_detected' \in {TRUE, battery_detected}
    BY <1>4 DEF Environment, SharedWrites, MillisWraps, inputs
  <2>3. Lost' = Lost
    <3>1. CASE SharedWrites
      BY <3>1 DEF SharedWrites, Lost
    <3>2. CASE MillisWraps
      BY <3>2, WrapKeepsLost DEF IInv
    <3> QED
      BY <1>4, <3>1, <3>2 DEF Environment
  <2> QED
    BY <1>1, <1>3, <2>1, <2>2, <2>3
<1>5. CASE UNCHANGED <<vars, clocks>>
  <2>1. /\ UNCHANGED clocks /\ UNCHANGED control
        /\ battery_detected' = battery_detected /\ Lost' = Lost
    BY <1>5 DEF vars, inputs, Lost
  <2> QED
    BY <1>1, <1>3, <2>1
<1> QED
  BY <1>1, <1>2, <1>4, <1>5 DEF TimedNext

\* The inductive invariant of the contactor control with its clocks.
THEOREM TimedInductive ==
  ASSUME OneDrive
  PROVE  TimedSpec => []TimedInv
<1>1. TimedInit => TimedInv
  BY InitTimedInv
<1>2. TimedInv /\ [TimedNext]_<<vars, clocks>> => TimedInv'
  BY StepTimedInv
<1> QED
  BY <1>1, <1>2, PTL DEF TimedSpec

\* The clocks only observe: what holds of every behaviour of Contactors holds
\* of every behaviour that is watched with them.
THEOREM TimedImplementsContactors == TimedSpec => Spec
<1>1. TimedInit => Init
  BY DEF TimedInit
<1>2. [TimedNext]_<<vars, clocks>> => [Next]_vars
  BY TimedStepIsStep
<1> QED
  BY <1>1, <1>2, PTL DEF TimedSpec, Spec

\* The precharge resistor is never left energised beyond the two times of the
\* ladder, a late pass and the start-up windows, and a closed pack never sees
\* an equipment stop for longer than its timeout and one late pass.
THEOREM TimingSafe ==
  ASSUME OneDrive
  PROVE  TimedSpec => []TimingInv
<1>1. ASSUME TimedInv PROVE TimingInv
  <2>1. TimingTypeOK
    BY <1>1 DEF TimedInv, IInv, ClocksOK, TimingTypeOK
  <2>2. EStopBounded
    BY <1>1 DEF TimedInv, StoppedFor, EStopBounded
  <2>3. ResistorBounded
    <3> DEFINE Windows == MaxWraps * BootTime
    <3>1. /\ Lost \in Int /\ Lost <= Windows /\ Windows \in Nat
          /\ ResistorLimit = PrechargeTime + CompletedTime + MaxDelay + Windows
      BY <1>1, LostType, LostBounded, TimeAssumption DEF TimedInv, IInv, ResistorLimit
    <3>2. /\ precharge_for \in Nat /\ PrechargeTime \in Nat
          /\ CompletedTime \in Nat /\ MaxDelay \in Nat
      BY <1>1, TimeAssumption, LastTickAssumption DEF TimedInv, ClocksOK
    <3> HIDE DEF Windows
    <3>3. \/ precharge_for = 0
          \/ precharge_for <= PrechargeTime + Lost
          \/ precharge_for <= PrechargeTime + MaxDelay + CompletedTime + Lost
      BY <1>1 DEF TimedInv, ResistorFor
    <3> QED
      BY <3>1, <3>2, <3>3 DEF ResistorBounded
  <2> QED
    BY <2>1, <2>2, <2>3 DEF TimingInv
<1> QED
  BY <1>1, TimedInductive, PTL

\* The positive contactor closes only after the resistor has really charged
\* the bus for its time and the negative contactor was seated for its own.
THEOREM PrechargedSafe ==
  ASSUME OneDrive
  PROVE  TimedSpec => PrechargedBeforePositive
<1> DEFINE Charged == ~Closed(positive_pin) /\ Closed(positive_pin') =>
                        /\ precharge_for' >= PrechargeTime
                        /\ negative_for' >= NegativeTime + PrechargeTime
<1>1. ASSUME TimedInv, TimedInv', [TimedNext]_<<vars, clocks>>
      PROVE  [Charged]_<<vars, clocks>>
  <2>1. ASSUME NEW d \in 1..MaxDelay, handle_contactors(d), Observe(d),
               ~Closed(positive_pin), Closed(positive_pin')
        PROVE  /\ precharge_for' >= PrechargeTime
               /\ negative_for' >= NegativeTime + PrechargeTime
    <3>1. ClosePositive(d)
      <4>1. contactorStatus' \in {"PRECHARGE_OFF", "COMPLETED", "DISCONNECTED"}
        BY <1>1, <2>1 DEF TimedInv, IInv, TypeOK, State, LadderInv, MainOpen
      <4>2. contactorStatus \notin {"PRECHARGE_OFF", "COMPLETED"}
        BY <1>1, <2>1 DEF TimedInv, IInv, LadderInv, MainClosed
      <4>3. contactorStatus' = "DISCONNECTED" => positive_pin' = Set(FALSE, "off")
        BY <4>2, <2>1
        DEF handle_contactors, Shutdown, StayOpen, OpenMain, CloseNegative,
            ClosePrecharge, ClosePositive, OpenPrecharge, LadderWaits,
            OpenForInverter, OpenForEStop, HoldForEStop, StayClosed
      <4> QED
        BY <2>1, <4>1, <4>2, <4>3, DriveCloses
        DEF handle_contactors, Shutdown, StayOpen, CloseNegative,
            ClosePrecharge, OpenPrecharge, LadderWaits,
            OpenForInverter, OpenForEStop, HoldForEStop, StayClosed
    <3> DEFINE age == since["negativeStartTime"]
               then == Aged(age, d)
    <3>2. /\ age \in 0..Horizon
          /\ negative_for \in 0..LastTick /\ precharge_for \in 0..LastTick
          /\ AtLeast(negative_for, NegativeTime + age)
          /\ AtLeast(precharge_for, 0 + age)
          /\ then >= PrechargeTime
      BY <1>1, <3>1 DEF TimedInv, IInv, TypeOK, Stamp, ClocksOK, ClosedFor, ClosePositive, Age
    <3>3. /\ negative_for' = Ticked(negative_for, d)
          /\ precharge_for' = Ticked(precharge_for, d)
      BY <1>1, <3>1, <2>1 DEF ClosePositive, Observe, TimedInv, IInv, LadderInv
    <3>4. AtLeast(Ticked(negative_for, d), NegativeTime + then)
      BY <3>2, TickedKeepsUp, TimeAssumption
    <3>5. AtLeast(Ticked(precharge_for, d), 0 + then)
      BY <3>2, TickedKeepsUp
    <3>6. then \in 0..Horizon
      BY <3>2, AgedType
    <3> HIDE DEF then, age
    <3>7. /\ Ticked(negative_for, d) >= NegativeTime + PrechargeTime
          /\ Ticked(precharge_for, d) >= PrechargeTime
      <4>1. LastTick >= NegativeTime + PrechargeTime
        BY ClocksReachLimits
      <4> QED
        BY <3>2, <3>4, <3>5, <3>6, <4>1, TickedType, TimeAssumption, LastTickAssumption DEF AtLeast
    <3> QED
      BY <3>3, <3>7
  <2>2. CASE Environment
    BY <2>2, EnvironmentFrame DEF control, pins
  <2> QED
    BY <1>1, <2>1, <2>2 DEF TimedNext
<1> QED
  BY <1>1, TimedInductive, PTL DEF TimedSpec, PrechargedBeforePositive

-----------------------------------------------------------------------------
(* The ladder implements the switch of a pack. *)

\* The contactors that conduct, in the words of PackSwitch.
Conducts ==
  /\ MainContacts = {} <=> MainOpen
  /\ MainContacts = Main!OnBus <=> MainClosed
  /\ MainContacts = {"negative"} <=>
       Closed(negative_pin) /\ ~Closed(precharge_pin) /\ ~Closed(positive_pin)
  /\ MainContacts = Main!Charging <=>
       Closed(negative_pin) /\ Closed(precharge_pin) /\ ~Closed(positive_pin)
  /\ MainContacts = Main!Bridged <=>
       Closed(negative_pin) /\ Closed(precharge_pin) /\ Closed(positive_pin)

LEMMA SetsOfThree ==
  ASSUME NEW n \in BOOLEAN, NEW r \in BOOLEAN, NEW p \in BOOLEAN,
         NEW S, S \subseteq {"negative", "precharge", "positive"},
         "negative" \in S <=> n, "precharge" \in S <=> r, "positive" \in S <=> p
  PROVE  /\ S = {} <=> ~n /\ ~r /\ ~p
         /\ S = {"negative", "positive"} <=> n /\ p /\ ~r
         /\ S = {"negative"} <=> n /\ ~r /\ ~p
         /\ S = {"negative", "precharge"} <=> n /\ r /\ ~p
         /\ S = {"negative", "precharge", "positive"} <=> n /\ r /\ p
<1>1. ASSUME NEW X, X \subseteq {"negative", "precharge", "positive"}
      PROVE  S = X <=> /\ "negative" \in X <=> n
                       /\ "precharge" \in X <=> r
                       /\ "positive" \in X <=> p
  <2>1. SUFFICES ASSUME /\ "negative" \in X <=> n
                        /\ "precharge" \in X <=> r
                        /\ "positive" \in X <=> p
                 PROVE  S = X
    OBVIOUS
  <2>2. \A c : c \in S <=> c \in X
    BY <1>1, <2>1
  <2> QED
    BY <2>2
<1>2. S = {} <=> ~n /\ ~r /\ ~p
  BY <1>1
<1>3. S = {"negative", "positive"} <=> n /\ p /\ ~r
  <2> DEFINE X == {"negative", "positive"}
  <2>1. X \subseteq {"negative", "precharge", "positive"}
    OBVIOUS
  <2>2. "negative" \in X /\ "positive" \in X /\ "precharge" \notin X
    OBVIOUS
  <2> HIDE DEF X
  <2>3. S = X <=> n /\ p /\ ~r
    BY <1>1, <2>1, <2>2
  <2> QED
    BY <2>3 DEF X
<1>4. S = {"negative"} <=> n /\ ~r /\ ~p
  BY <1>1
<1>5. S = {"negative", "precharge"} <=> n /\ r /\ ~p
  BY <1>1
<1>6. S = {"negative", "precharge", "positive"} <=> n /\ r /\ p
  BY <1>1
<1> QED
  BY <1>2, <1>3, <1>4, <1>5, <1>6

LEMMA ContactsConduct == Conducts /\ Conducts'
<1>1. /\ MainContacts \subseteq {"negative", "precharge", "positive"}
      /\ "negative" \in MainContacts <=> Closed(negative_pin)
      /\ "precharge" \in MainContacts <=> Closed(precharge_pin)
      /\ "positive" \in MainContacts <=> Closed(positive_pin)
  BY DEF MainContacts, Output
<1>2. /\ MainContacts' \subseteq {"negative", "precharge", "positive"}
      /\ "negative" \in MainContacts' <=> Closed(negative_pin')
      /\ "precharge" \in MainContacts' <=> Closed(precharge_pin')
      /\ "positive" \in MainContacts' <=> Closed(positive_pin')
  BY DEF MainContacts, Output
<1>3. \A level : Closed(level) \in BOOLEAN
  BY DEF Closed
<1>4. Conducts
  BY <1>1, <1>3, SetsOfThree
  DEF Conducts, MainOpen, MainClosed, Main!OnBus, Main!Charging, Main!Bridged
<1>5. Conducts'
  BY <1>2, <1>3, SetsOfThree
  DEF Conducts, MainOpen, MainClosed, Main!OnBus, Main!Charging, Main!Bridged
<1> QED
  BY <1>4, <1>5

\* The switch behind the rungs: a state of PackSwitch for each.
SwitchInv ==
  /\ contactorStatus \in {"DISCONNECTED", "START_PRECHARGE"} =>
       \/ contactors_engaged # 1 /\ MainContacts = {}
       \/ contactorStatus = "DISCONNECTED" /\ contactors_engaged = 1 /\ MainContacts = Main!OnBus
  /\ contactorStatus \in {"PRECHARGE", "POSITIVE", "PRECHARGE_OFF"} => contactors_engaged # 1
  /\ contactorStatus = "PRECHARGE" => MainContacts = {"negative"}
  /\ contactorStatus = "POSITIVE" => MainContacts = Main!Charging
  /\ contactorStatus = "PRECHARGE_OFF" => MainContacts = Main!Bridged
  /\ contactorStatus = "COMPLETED" => contactors_engaged = 1 /\ MainContacts = Main!OnBus
  /\ contactorStatus = "SHUTDOWN_REQUESTED" => contactors_engaged # 1 /\ MainContacts = {}

LEMMA SwitchFollows ==
  /\ LadderInv => SwitchInv
  /\ LadderInv' => SwitchInv'
<1>1. LadderInv => SwitchInv
  BY ContactsConduct DEF LadderInv, SwitchInv, Conducts
<1>2. LadderInv' => SwitchInv'
  BY ContactsConduct DEF LadderInv, SwitchInv, Conducts
<1> QED
  BY <1>1, <1>2

\* A pass is a step of the switch, or none.
LEMMA PassSwitches ==
  ASSUME SwitchInv, SwitchInv', NEW d \in 1..MaxDelay, handle_contactors(d)
  PROVE  [Main!SwitchNext]_Main!switch
<1> USE DEF SwitchInv, Main!SwitchNext, Main!switch
<1>1. CASE Shutdown(d)
  BY <1>1 DEF Shutdown, Main!Latch
<1>2. CASE StayOpen(d)
  BY <1>2 DEF StayOpen, Main!Open
<1>3. CASE CloseNegative(d)
  BY <1>3 DEF CloseNegative, Main!Begin
<1>4. CASE ClosePrecharge(d)
  BY <1>4 DEF ClosePrecharge, Main!Precharge
<1>5. CASE ClosePositive(d)
  BY <1>5 DEF ClosePositive, Main!Connect
<1>6. CASE OpenPrecharge(d)
  BY <1>6 DEF OpenPrecharge, Main!Complete
<1>7. CASE LadderWaits(d)
  BY <1>7 DEF LadderWaits, pins, MainContacts, Output
<1>8. CASE OpenForInverter(d)
  BY <1>8 DEF OpenForInverter, pins
<1>9. CASE OpenForEStop(d)
  BY <1>9 DEF OpenForEStop, pins
<1>10. CASE HoldForEStop(d)
  BY <1>10 DEF HoldForEStop, pins
<1>11. CASE StayClosed(d)
  BY <1>11 DEF StayClosed, pins
<1> QED
  BY <1>1, <1>2, <1>3, <1>4, <1>5, <1>6, <1>7, <1>8, <1>9, <1>10, <1>11
  DEF handle_contactors

\* The outputs and what they tell implement the switch of a pack: one order, through
\* the resistor, completed or latched, opened all at once and never after the latch.
THEOREM LadderImplementsSwitch ==
  ASSUME OneDrive
  PROVE  TimedSpec => ImplementsSwitch
<1>1. TimedInit => Main!SwitchInit
  <2> SUFFICES ASSUME TimedInit PROVE Main!SwitchInit
    OBVIOUS
  <2>1. MainOpen
    BY DriveCloses DEF TimedInit, Init, MainOpen
  <2>2. MainContacts = {}
    BY <2>1, ContactsConduct DEF Conducts
  <2> QED
    BY <2>2 DEF TimedInit, Init, Main!SwitchInit
<1>2. ASSUME TimedInv, TimedInv', [TimedNext]_<<vars, clocks>>
      PROVE  [Main!SwitchNext]_Main!switch
  <2>1. ASSUME NEW d \in 1..MaxDelay, handle_contactors(d)
        PROVE  [Main!SwitchNext]_Main!switch
    BY <1>2, <2>1, PassSwitches, SwitchFollows DEF TimedInv, IInv
  <2>2. CASE UNCHANGED control
    BY <2>2 DEF control, pins, Main!switch, MainContacts, Output
  <2> QED
    BY <1>2, <2>1, <2>2, EnvironmentFrame DEF TimedNext, vars
<1> QED
  BY <1>1, <1>2, TimedInductive, PTL DEF TimedSpec, ImplementsSwitch, Main!SwitchSpec
=============================================================================
