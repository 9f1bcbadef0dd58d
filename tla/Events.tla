------------------------------- MODULE Events -------------------------------
(***************************************************************************)
(* The event table: set_event(), clear_event() and reset_all_events(), as  *)
(* several tasks call them without a lock, and the system status they      *)
(* derive from it.  Every access to a shared variable is a step.           *)
(*                                                                         *)
(* Calls that overlap can lose each other's level.  Two history variables  *)
(* say when one may be lost: from an overlap up to the end of the next     *)
(* call that had the table to itself and works the level out anew.         *)
(***************************************************************************)
EXTENDS Integers

CONSTANTS
  Tasks,       \* the tasks that set and clear events
  LastEvent,   \* events are 1..LastEvent, in the order of the table
  Errors,      \* those of EVENT_LEVEL_ERROR
  Updates,     \* those of EVENT_LEVEL_UPDATE; the others stand for the rest
  Downgraded,  \* OFFGRID_DOWNGRADED_EVENTS
  Offgrid,     \* user_selected_inverter_offgrid
  Recovery     \* whether the user uses the forced recovery charge

Event == 1..LastEvent

ASSUME EventsAssumption ==
  /\ Tasks # {} /\ LastEvent \in Nat \ {0}
  /\ Errors \cup Updates \cup Downgraded \subseteq Event
  /\ Errors \cap Updates = {} /\ Offgrid \in BOOLEAN /\ Recovery \in BOOLEAN

VARIABLES
  state,           \* of each event
  level,           \* events.level
  system_status,
  user_requests_forced_charging_recovery_mode,
  pc, call,        \* where each task is, and what it was called for
  event, next,     \* the event it sets or clears, the entry its loop is at
  found,           \* the level it read or computed
  alone,           \* history: no call has overlapped with the last to begin
  overlapped       \* history: two calls have overlapped since the level was made good

table == <<state, level, system_status>>
locals == <<pc, call, event, next, found>>
history == <<alone, overlapped>>
eventvars == <<table, user_requests_forced_charging_recovery_mode, locals, history>>

(* The levels: what is below UPDATE makes no difference to the status. *)
Ordinary == 0
Update == 1
Error == 2

effective_level(e) ==
  IF Offgrid /\ e \in Downgraded THEN Ordinary
  ELSE IF e \in Errors THEN Error ELSE IF e \in Updates THEN Update ELSE Ordinary

Higher(a, b) == IF a > b THEN a ELSE b

Active(e) == state[e] \in {"ACTIVE", "ACTIVE_LATCHED"}

EventsTypeOK ==
  /\ state \in [Event -> {"INACTIVE", "ACTIVE", "ACTIVE_LATCHED"}]
  /\ level \in {Ordinary, Update, Error}
  /\ system_status \in {"ACTIVE", "UPDATING", "FAULT"}
  /\ user_requests_forced_charging_recovery_mode \in BOOLEAN
  /\ pc \in [Tasks -> {"idle", "mark", "raise", "raised", "check", "scan", "scanned",
                       "wipe", "wiped", "read", "status"}]
  /\ call \in [Tasks -> {"set", "latch", "clear", "reset"}]
  /\ event \in [Tasks -> Event]
  /\ next \in [Tasks -> 1..(LastEvent + 1)]
  /\ found \in [Tasks -> {Ordinary, Update, Error}]
  /\ alone \in BOOLEAN /\ overlapped \in BOOLEAN

At(t, label) == pc[t] = label
Goto(t, label) == pc' = [pc EXCEPT ![t] = label]
Find(t, l) == found' = [found EXCEPT ![t] = l]
Advance(t) == next' = [next EXCEPT ![t] = @ + 1]

\* A call returns; its locals end with it.
Return(t) ==
  /\ Goto(t, "idle")
  /\ call' = [call EXCEPT ![t] = "set"] /\ event' = [event EXCEPT ![t] = 1]
  /\ next' = [next EXCEPT ![t] = 1] /\ Find(t, Ordinary)

Quiet == \A t \in Tasks : At(t, "idle")

\* An ERROR event is one for which the system must stop: those that the user's
\* choice of an off-grid system has not downgraded.
Stops(e) == e \in Errors /\ (e \in Downgraded => ~Offgrid)

\* What makes the level good whatever it was: a scan of the table, its reset, and
\* the event that no other is above.
WorksOut(t) == call[t] \in {"clear", "reset"} \/ Stops(event[t])

-----------------------------------------------------------------------------

\* Where the call of a task begins.
Entry(what) ==
  IF what = "clear" THEN "check" ELSE IF what = "reset" THEN "wipe" ELSE "mark"

Begin(t) ==
  /\ At(t, "idle")
  /\ \E what \in {"set", "latch", "clear", "reset"}, e \in Event :
       /\ call' = [call EXCEPT ![t] = what]
       /\ event' = [event EXCEPT ![t] = e]
       /\ Goto(t, Entry(what))
  /\ alone' = Quiet /\ overlapped' = (overlapped \/ ~Quiet)
  /\ UNCHANGED <<table, user_requests_forced_charging_recovery_mode, next, found>>

(* set_event_internal() *)

\* Mutant: an event that is set already is left at that.
MarkOnce(t) ==
  /\ At(t, "mark")
  /\ state' = [state EXCEPT ![event[t]] = IF call[t] = "latch" THEN "ACTIVE_LATCHED" ELSE "ACTIVE"]
  /\ Goto(t, IF Active(event[t]) THEN "read" ELSE "raise")
  /\ UNCHANGED <<level, system_status, user_requests_forced_charging_recovery_mode,
                 call, event, next, found, history>>

Mark(t) ==
  /\ At(t, "mark")
  /\ state' = [state EXCEPT ![event[t]] = IF call[t] = "latch" THEN "ACTIVE_LATCHED" ELSE "ACTIVE"]
  /\ Goto(t, "raise")
  /\ UNCHANGED <<level, system_status, user_requests_forced_charging_recovery_mode,
                 call, event, next, found, history>>

Raise(t) ==
  /\ At(t, "raise")
  /\ Find(t, Higher(level, effective_level(event[t]))) /\ Goto(t, "raised")
  /\ UNCHANGED <<table, user_requests_forced_charging_recovery_mode, call, event, next, history>>

Store(t) ==
  /\ At(t, "raised") \/ At(t, "scanned")
  /\ level' = found[t] /\ Goto(t, "read")
  /\ UNCHANGED <<state, system_status, user_requests_forced_charging_recovery_mode,
                 call, event, next, found, history>>

(* clear_event(): a latched event stays. *)

Clear(t) ==
  /\ At(t, "check")
  /\ \/ /\ state[event[t]] = "ACTIVE"
        /\ state' = [state EXCEPT ![event[t]] = "INACTIVE"] /\ Goto(t, "scan")
        /\ UNCHANGED <<call, event, next, found>>
     \/ state[event[t]] # "ACTIVE" /\ Return(t) /\ UNCHANGED state
  /\ UNCHANGED <<level, system_status, user_requests_forced_charging_recovery_mode, history>>

\* update_event_level(), one entry at a time.
Scan(t) ==
  /\ At(t, "scan") /\ next[t] \in Event
  /\ Find(t, IF Active(next[t]) THEN Higher(effective_level(next[t]), found[t]) ELSE found[t])
  /\ Advance(t)
  /\ Goto(t, IF next[t] = LastEvent THEN "scanned" ELSE "scan")
  /\ UNCHANGED <<table, user_requests_forced_charging_recovery_mode, call, event, history>>

(* reset_all_events() *)

Wipe(t) ==
  /\ At(t, "wipe") /\ next[t] \in Event
  /\ state' = [state EXCEPT ![next[t]] = "INACTIVE"]
  /\ Advance(t)
  /\ Goto(t, IF next[t] = LastEvent THEN "wiped" ELSE "wipe")
  /\ UNCHANGED <<level, system_status, user_requests_forced_charging_recovery_mode,
                 call, event, found, history>>

\* Mutant: the level is left for the next event to work out.
WipeLevelKept(t) ==
  /\ At(t, "wiped") /\ Goto(t, "read")
  /\ UNCHANGED <<table, user_requests_forced_charging_recovery_mode, call, event, next, found, history>>

WipeLevel(t) ==
  /\ At(t, "wiped")
  /\ level' = Ordinary /\ Goto(t, "read")
  /\ UNCHANGED <<state, system_status, user_requests_forced_charging_recovery_mode,
                 call, event, next, found, history>>

(* update_bms_status() *)

ReadLevel(t) ==
  /\ At(t, "read")
  /\ Find(t, level) /\ Goto(t, "status")
  /\ UNCHANGED <<table, user_requests_forced_charging_recovery_mode, call, event, next, history>>

WriteStatus(t) ==
  /\ At(t, "status")
  /\ system_status' =
       IF found[t] = Update THEN "UPDATING"
       ELSE IF found[t] = Error /\ ~user_requests_forced_charging_recovery_mode THEN "FAULT"
       ELSE "ACTIVE"
  /\ Return(t)
  /\ overlapped' = (overlapped /\ ~(alone /\ WorksOut(t)))
  /\ UNCHANGED <<state, level, user_requests_forced_charging_recovery_mode, alone>>

-----------------------------------------------------------------------------

\* The web page turns the recovery mode on and off, the one second sub-task
\* ends it: each writes the flag; the event the sub-task then sets is a call.
RecoveryChanges ==
  /\ Recovery
  /\ user_requests_forced_charging_recovery_mode' = ~user_requests_forced_charging_recovery_mode
  /\ UNCHANGED <<table, locals, history>>

EventsInit ==
  /\ state = [e \in Event |-> "INACTIVE"] /\ level = Ordinary /\ system_status = "ACTIVE"
  /\ user_requests_forced_charging_recovery_mode = FALSE
  /\ pc = [t \in Tasks |-> "idle"] /\ call = [t \in Tasks |-> "set"]
  /\ event = [t \in Tasks |-> 1] /\ next = [t \in Tasks |-> 1]
  /\ found = [t \in Tasks |-> Ordinary]
  /\ alone = TRUE /\ overlapped = FALSE

EventsNext ==
  \/ \E t \in Tasks : Begin(t) \/ Mark(t) \/ Raise(t) \/ Store(t) \/ Clear(t) \/ Scan(t)
                        \/ Wipe(t) \/ WipeLevel(t) \/ ReadLevel(t) \/ WriteStatus(t)
  \/ RecoveryChanges

EventsSpec == EventsInit /\ [][EventsNext]_eventvars

-----------------------------------------------------------------------------
(* Properties. *)

\* When the last call under way returns from update_bms_status(), an active ERROR
\* event has the system in FAULT, unless the recovery charge masks it: for any
\* interleaving of the tasks before, once a call that works the level out has had
\* the table to itself.  A level that was lost under an overlap is lost no longer
\* than that, and a repeated set_event() of the fault itself is such a call.
FaultShown ==
  [][/\ Quiet' /\ ~overlapped' /\ (\E t \in Tasks : At(t, "status"))
     /\ ~user_requests_forced_charging_recovery_mode
     /\ (\E e \in Event : Active(e) /\ Stops(e))'
     => system_status' = "FAULT"]_eventvars

\* With every call returned and no overlap left to make good, FAULT has an active
\* ERROR event to show for it: the last one that ends releases the contactors and
\* the limits, also after overlaps that left FAULT behind without its event.
FaultEnds ==
  Quiet /\ ~overlapped /\ system_status = "FAULT" => \E e \in Event : Active(e) /\ Stops(e)

\* No call leaves the table, its level or the status in a state of its own.
EventsInv == EventsTypeOK /\ FaultEnds

\* "Update event level, only upwards": the level that set_event() stores is never
\* below the one that is there.
OnlyUpwards ==
  [][\A t \in Tasks : At(t, "raised") /\ ~At(t, "raised")' => level' >= level]_eventvars
=============================================================================
