--------------------------- MODULE ContactorTiming ---------------------------
(***************************************************************************)
(* Contactors observed with clocks of its own: how long the coils have     *)
(* really been conducting and how long an equipment stop has really been   *)
(* seen by closed contactors.  The clocks are history variables: they are  *)
(* taken from the outputs, not from the stamps the code keeps, and the     *)
(* steps of Contactors do not read them.                                   *)
(***************************************************************************)
EXTENDS Contactors

CONSTANT LastTick   \* bound: the clocks stop here, past every limit stated

\* What the resistor may be energised for: the two times of the ladder, one
\* late pass, and the start-up window each time millis() wraps on it.
ResistorLimit == PrechargeTime + CompletedTime + MaxDelay + MaxWraps * BootTime

ASSUME LastTickAssumption == LastTick \in Nat

ASSUME ClocksReachLimits ==
  /\ LastTick >= NegativeTime + PrechargeTime
  /\ LastTick > ResistorLimit /\ LastTick > EStopTimeout + MaxDelay

VARIABLES
  negative_for,    \* how long the negative contactor has conducted
  precharge_for,   \* how long the precharge resistor has conducted
  stopped_for      \* how long the closed pack has seen the equipment stop

clocks == <<negative_for, precharge_for, stopped_for>>

TimingTypeOK ==
  /\ TypeOK
  /\ negative_for \in 0..LastTick /\ precharge_for \in 0..LastTick
  /\ stopped_for \in NotWaiting..LastTick

Ticked(clock, d) == IF clock + d > LastTick THEN LastTick ELSE clock + d

\* The pass leaves DISCONNECTED by opening everything first.
Observe(d) ==
  /\ negative_for' = IF Closed(negative_pin) /\ Closed(negative_pin') /\ contactorStatus # "DISCONNECTED"
                     THEN Ticked(negative_for, d) ELSE 0
  /\ precharge_for' = IF Closed(precharge_pin) /\ Closed(precharge_pin')
                      THEN Ticked(precharge_for, d) ELSE 0
  /\ stopped_for' = IF contactorStatus # "COMPLETED" \/ MayClose \/ ~inverter_allows_contactor_closing
                    THEN NotWaiting
                    ELSE IF stopped_for = NotWaiting THEN 0 ELSE Ticked(stopped_for, d)

TimedInit == Init /\ negative_for = 0 /\ precharge_for = 0 /\ stopped_for = NotWaiting

TimedNext ==
  \/ Environment /\ UNCHANGED clocks
  \/ \E d \in 1..MaxDelay : handle_contactors(d) /\ Observe(d)

TimedSpec == TimedInit /\ [][TimedNext]_<<vars, clocks>>

\* The core task is released every millisecond and fed by a task watchdog.
TimedFairSpec ==
  TimedSpec /\ WF_<<vars, clocks>>(\E d \in 1..MaxDelay : handle_contactors(d) /\ Observe(d))

-----------------------------------------------------------------------------

\* The positive contactor closes only on a bus that has really been charged
\* through the resistor for the configured time, with the negative contactor
\* seated for its own time before that, however late the passes come.
PrechargedBeforePositive ==
  [][~Closed(positive_pin) /\ Closed(positive_pin') =>
       /\ precharge_for' >= PrechargeTime
       /\ negative_for' >= NegativeTime + PrechargeTime]_<<vars, clocks>>

\* The resistor is never left energised for longer.
ResistorBounded == precharge_for <= ResistorLimit

\* Closed contactors never see an equipment stop for longer than the timeout
\* and one late pass.
EStopBounded == stopped_for <= EStopTimeout + MaxDelay

\* What the times of the ladder and of the stop amount to, at any time.
TimingInv == TimingTypeOK /\ ResistorBounded /\ EStopBounded

-----------------------------------------------------------------------------
(* The ladder implements the switch of a pack. *)

Output == [negative |-> negative_pin, precharge |-> precharge_pin, positive |-> positive_pin]

MainContacts == {c \in {"negative", "precharge", "positive"} : Closed(Output[c])}

Main == INSTANCE PackSwitch
  WITH First <- "negative", closed <- MainContacts, engaged <- contactors_engaged = 1,
       latched <- contactorStatus = "SHUTDOWN_REQUESTED"

\* Seen through its outputs and what it tells, the ladder closes a pack in one
\* order and through the resistor, completes what it has begun or latches, opens
\* all at once and never closes after the latch.
ImplementsSwitch == Main!SwitchSpec
=============================================================================
