---------------------------- MODULE EventsProofs ----------------------------
(***************************************************************************)
(* For every table of events, every choice of an off-grid system and any   *)
(* number of tasks: the level is that of the highest active event, and the *)
(* system status follows it, but from an overlap of two calls up to the    *)
(* end of the next call that has the table to itself and works it out.     *)
(***************************************************************************)
EXTENDS Events, TLAPS

Steps(t) == \/ Begin(t) \/ Mark(t) \/ Raise(t) \/ Store(t) \/ Clear(t) \/ Scan(t)
            \/ Wipe(t) \/ WipeLevel(t) \/ ReadLevel(t) \/ WriteStatus(t)

Levels == {Ordinary, Update, Error}

LEMMA LevelType ==
  /\ \A e \in Event : effective_level(e) \in Levels
  /\ \A a, b \in Levels : Higher(a, b) \in Levels
  /\ Ordinary \in Levels /\ Error \in Levels /\ Levels \subseteq Nat
BY DEF effective_level, Levels, Higher, Ordinary, Update, Error

\* The events that stop the system are those whose level counts as ERROR.
LEMMA StopsAreErrors ==
  ASSUME NEW e \in Event
  PROVE  Stops(e) <=> effective_level(e) = Error
BY EventsAssumption DEF Stops, effective_level, Ordinary, Update, Error

-----------------------------------------------------------------------------
(* The types: for any number of tasks. *)

LEMMA TypedStart == EventsInit => EventsTypeOK
<1> SUFFICES ASSUME EventsInit PROVE EventsTypeOK
  OBVIOUS
<1>1. 1 \in Event /\ 1 \in 1..(LastEvent + 1)
  BY EventsAssumption DEF Event
<1> QED
  BY <1>1 DEF EventsInit, EventsTypeOK

LEMMA TypedStep == EventsTypeOK /\ [EventsNext]_eventvars => EventsTypeOK'
<1> SUFFICES ASSUME EventsTypeOK, [EventsNext]_eventvars PROVE EventsTypeOK'
  OBVIOUS
<1> USE DEF EventsTypeOK, At, Goto, Find, Return, table, locals, history
<1>0. 1 \in Event /\ 1 \in 1..(LastEvent + 1)
  BY EventsAssumption DEF Event
<1>1. ASSUME NEW t \in Tasks, Begin(t) PROVE EventsTypeOK'
  <2>1. \A what : Entry(what) \in {"check", "wipe", "mark"}
    BY DEF Entry
  <2> QED
    BY <1>1, <2>1 DEF Begin, Quiet
<1>2. ASSUME NEW t \in Tasks, Mark(t) PROVE EventsTypeOK'
  BY <1>2 DEF Mark
<1>3. ASSUME NEW t \in Tasks, Raise(t) PROVE EventsTypeOK'
  BY <1>3, LevelType DEF Raise, Levels
<1>4. ASSUME NEW t \in Tasks, Store(t) PROVE EventsTypeOK'
  BY <1>4 DEF Store
<1>5. ASSUME NEW t \in Tasks, Clear(t) PROVE EventsTypeOK'
  BY <1>0, <1>5 DEF Clear
<1>6. ASSUME NEW t \in Tasks, next[t] \in Event PROVE next[t] + 1 \in 1..(LastEvent + 1)
  BY <1>6, EventsAssumption DEF Event
<1>7. ASSUME NEW t \in Tasks, Scan(t) PROVE EventsTypeOK'
  BY <1>6, <1>7, LevelType DEF Scan, Advance, Levels
<1>8. ASSUME NEW t \in Tasks, Wipe(t) PROVE EventsTypeOK'
  BY <1>6, <1>8 DEF Wipe, Advance
<1>9. ASSUME NEW t \in Tasks, WipeLevel(t) PROVE EventsTypeOK'
  BY <1>9 DEF WipeLevel
<1>10. ASSUME NEW t \in Tasks, ReadLevel(t) PROVE EventsTypeOK'
  BY <1>10 DEF ReadLevel
<1>11. ASSUME NEW t \in Tasks, WriteStatus(t) PROVE EventsTypeOK'
  BY <1>0, <1>11 DEF WriteStatus
<1>12. CASE RecoveryChanges
  BY <1>12 DEF RecoveryChanges
<1>13. CASE UNCHANGED eventvars
  BY <1>13 DEF eventvars
<1> QED
  BY <1>1, <1>2, <1>3, <1>4, <1>5, <1>7, <1>8, <1>9, <1>10, <1>11, <1>12, <1>13 DEF EventsNext

\* Whatever the tasks do to each other, no index leaves the table and no level
\* or status is one that the code does not know.
THEOREM EventsTyped == EventsSpec => []EventsTypeOK
BY TypedStart, TypedStep, PTL DEF EventsSpec

-----------------------------------------------------------------------------
(* What the call of a task has worked out, at each of its steps.           *)

\* No active event among these is above the level, and the level has an active
\* event to show for it.
Covers(events, l) == \A e \in events : Active(e) => effective_level(e) <= l
Backed(l) == l = Ordinary \/ \E e \in Event : Active(e) /\ effective_level(e) = l
IsTop(l) == Covers(Event, l) /\ Backed(l)

Before(t) == {e \in Event : e < next[t]}

\* True of a call that has the table to itself, whatever the level was before.
RunInv(t) ==
  /\ pc[t] \in {"idle", "mark", "check"} => next[t] = 1 /\ found[t] = Ordinary
  /\ pc[t] \in {"mark", "raise", "raised"} => call[t] \in {"set", "latch"}
  /\ pc[t] \in {"raise", "raised"} => Active(event[t])
  /\ pc[t] = "raised" => effective_level(event[t]) <= found[t]
  /\ pc[t] = "scan" => Covers(Before(t), found[t]) /\ Backed(found[t])
  /\ pc[t] = "scanned" => IsTop(found[t])
  /\ pc[t] = "wipe" => \A e \in Before(t) : ~Active(e)
  /\ pc[t] = "wiped" => \A e \in Event : ~Active(e)
  /\ pc[t] \in {"read", "status"} /\ WorksOut(t) => IsTop(level)
  /\ pc[t] = "status" => found[t] = level

\* True of it as well when nothing had been lost when it began.
LevelInv(t) ==
  /\ pc[t] \in {"idle", "mark", "check", "read", "status"} => IsTop(level)
  /\ pc[t] \in {"idle", "mark", "check"} /\ system_status = "FAULT" => level = Error
  /\ pc[t] = "raise" => Covers(Event \ {event[t]}, level) /\ Backed(level)
  /\ pc[t] = "raised" => IsTop(found[t])

\* A call that begins has done nothing yet.
LEMMA BeginRuns ==
  ASSUME EventsTypeOK, NEW t \in Tasks, RunInv(t), Begin(t)
  PROVE  RunInv(t)' /\ (LevelInv(t) => LevelInv(t)')
<1> USE DEF EventsTypeOK, At, Goto, Find, table
<1>1. /\ pc[t] = "idle" /\ pc'[t] \in {"mark", "check", "wipe"}
      /\ UNCHANGED <<state, level, system_status>> /\ next'[t] = 1 /\ found'[t] = Ordinary
      /\ pc'[t] = "mark" => call'[t] \in {"set", "latch"}
  BY DEF Begin, Entry, RunInv
<1>2. \A e \in Before(t)' : FALSE
  BY <1>1, EventsAssumption DEF Before, Event
<1>3. RunInv(t)'
  BY <1>1, <1>2 DEF RunInv
<1>4. ASSUME LevelInv(t) PROVE LevelInv(t)'
  <2>1. IsTop(level) /\ (system_status = "FAULT" => level = Error)
    BY <1>1, <1>4 DEF LevelInv
  <2>2. IsTop(level)'
    BY <1>1, <2>1 DEF IsTop, Covers, Backed, Active
  <2> QED
    BY <1>1, <2>1, <2>2 DEF LevelInv
<1> QED
  BY <1>3, <1>4

\* set_event(): the event is active, and the level goes up to it and no further.
LEMMA SetRuns ==
  ASSUME EventsTypeOK, NEW t \in Tasks, RunInv(t), Mark(t) \/ Raise(t)
  PROVE  RunInv(t)' /\ (LevelInv(t) => LevelInv(t)')
<1> USE DEF EventsTypeOK, At, Goto, Find, table
<1> DEFINE e == event[t]
<1>1. CASE Mark(t)
  <2>1. /\ pc[t] = "mark" /\ pc'[t] = "raise" /\ event'[t] = e /\ level' = level /\ e \in Event
        /\ \A f \in Event \ {e} : state'[f] = state[f]
        /\ state'[e] \in {"ACTIVE", "ACTIVE_LATCHED"} /\ call'[t] = call[t]
    BY <1>1 DEF Mark
  <2>2. Active(e)' /\ \A f \in Event : Active(f) => Active(f)'
    BY <2>1 DEF Active
  <2>3. RunInv(t)'
    BY <2>1, <2>2 DEF RunInv
  <2>4. ASSUME LevelInv(t) PROVE LevelInv(t)'
    <3>1. \A f \in Event \ {e} : Active(f)' => Active(f)
      BY <2>1 DEF Active
    <3>2. Covers(Event \ {e}, level) /\ Backed(level)
      BY <2>1, <2>4 DEF LevelInv, IsTop, Covers
    <3>3. Backed(level)'
      BY <2>1, <2>2, <3>2 DEF Backed
    <3>4. Covers(Event \ {event[t]}, level)'
      BY <2>1, <3>1, <3>2 DEF Covers
    <3> QED
      BY <2>1, <3>3, <3>4 DEF LevelInv
  <2> QED
    BY <2>3, <2>4
<1>2. CASE Raise(t)
  <2> DEFINE top == Higher(level, effective_level(e))
  <2>1. /\ pc[t] = "raise" /\ pc'[t] = "raised" /\ found'[t] = top /\ e \in Event
        /\ state' = state /\ event'[t] = e /\ call'[t] = call[t] /\ Active(e)
    BY <1>2 DEF Raise, RunInv
  <2>2. /\ \A f \in Event : effective_level(f) \in Nat
        /\ level \in Nat
    BY LevelType DEF Levels, Ordinary, Update, Error
  <2>3. effective_level(e) <= top /\ level <= top /\ top \in Nat
    BY <2>1, <2>2 DEF Higher
  <2>4. RunInv(t)'
    BY <2>1, <2>3 DEF RunInv, Active
  <2>5. ASSUME LevelInv(t) PROVE LevelInv(t)'
    <3>1. Covers(Event \ {e}, level) /\ Backed(level)
      BY <2>1, <2>5 DEF LevelInv
    <3>2. Covers(Event, top)
      BY <2>1, <2>2, <2>3, <3>1 DEF Covers
    <3>3. Backed(top)
      BY <2>1, <3>1 DEF Backed, Higher
    <3>4. IsTop(found[t])'
      BY <2>1, <3>2, <3>3 DEF IsTop, Covers, Backed, Active
    <3> QED
      BY <2>1, <3>4 DEF LevelInv
  <2> QED
    BY <2>4, <2>5
<1> QED
  BY <1>1, <1>2

\* The level is written: that of a call which works it out is the top.
LEMMA StoreRuns ==
  ASSUME EventsTypeOK, NEW t \in Tasks, RunInv(t), Store(t)
  PROVE  RunInv(t)' /\ (LevelInv(t) => LevelInv(t)')
<1> USE DEF EventsTypeOK, At, Goto, Find, table
<1>1. /\ pc[t] \in {"raised", "scanned"} /\ pc'[t] = "read" /\ level' = found[t]
      /\ state' = state /\ UNCHANGED <<call, event>> /\ found[t] \in Levels
  BY DEF Store, Levels
<1>2. ASSUME WorksOut(t) PROVE IsTop(found[t])
  <2>1. CASE pc[t] = "scanned"
    BY <2>1 DEF RunInv
  <2>2. CASE pc[t] = "raised"
    <3>1. Active(event[t]) /\ effective_level(event[t]) = Error /\ Error <= found[t]
      BY <1>2, <2>2, StopsAreErrors DEF RunInv, WorksOut
    <3>2. found[t] = Error
      BY <1>1, <3>1 DEF Levels, Ordinary, Update, Error
    <3>3. \A e \in Event : effective_level(e) <= Error
      BY LevelType DEF Levels, Ordinary, Update, Error
    <3> QED
      BY <3>1, <3>2, <3>3 DEF IsTop, Covers, Backed
  <2> QED
    BY <1>1, <2>1, <2>2
<1>3. ASSUME IsTop(found[t]) PROVE IsTop(level)'
  BY <1>1, <1>3 DEF IsTop, Covers, Backed, Active
<1>4. RunInv(t)'
  BY <1>1, <1>2, <1>3 DEF RunInv, WorksOut
<1>5. ASSUME LevelInv(t) PROVE LevelInv(t)'
  <2>1. IsTop(found[t])
    BY <1>1, <1>5 DEF RunInv, LevelInv
  <2> QED
    BY <1>1, <1>3, <2>1 DEF LevelInv
<1> QED
  BY <1>4, <1>5

\* It is read back, and shown.
LEMMA ShowRuns ==
  ASSUME EventsTypeOK, NEW t \in Tasks, RunInv(t), ReadLevel(t) \/ WriteStatus(t)
  PROVE  RunInv(t)' /\ (LevelInv(t) \/ (WriteStatus(t) /\ WorksOut(t)) => LevelInv(t)')
<1> USE DEF EventsTypeOK, At, Goto, Find, Return, table
<1>1. level' = level /\ state' = state
  BY DEF ReadLevel, WriteStatus
<1>2. ASSUME IsTop(level) PROVE IsTop(level)'
  BY <1>1, <1>2 DEF IsTop, Covers, Backed, Active
<1>3. CASE ReadLevel(t)
  <2>1. /\ pc[t] = "read" /\ pc'[t] = "status" /\ found'[t] = level /\ UNCHANGED <<call, event>>
    BY <1>3 DEF ReadLevel
  <2>2. RunInv(t)'
    BY <1>1, <1>2, <2>1 DEF RunInv, WorksOut
  <2>3. ~WriteStatus(t)
    BY <2>1 DEF WriteStatus
  <2>4. ASSUME LevelInv(t) PROVE LevelInv(t)'
    BY <1>2, <2>1, <2>4 DEF LevelInv
  <2> QED
    BY <2>2, <2>3, <2>4
<1>4. CASE WriteStatus(t)
  <2>1. /\ pc[t] = "status" /\ pc'[t] = "idle" /\ next'[t] = 1 /\ found'[t] = Ordinary
        /\ system_status' = "FAULT" => found[t] = Error
    BY <1>4 DEF WriteStatus
  <2>2. RunInv(t)'
    BY <2>1 DEF RunInv
  <2>3. ASSUME LevelInv(t) \/ WorksOut(t) PROVE LevelInv(t)'
    <3>1. IsTop(level) /\ found[t] = level
      BY <2>1, <2>3 DEF LevelInv, RunInv
    <3> QED
      BY <1>1, <1>2, <2>1, <3>1 DEF LevelInv
  <2> QED
    BY <2>2, <2>3
<1> QED
  BY <1>3, <1>4

\* clear_event(): the event goes, and the scan finds the top of those that stay.
LEMMA ClearRuns ==
  ASSUME EventsTypeOK, NEW t \in Tasks, RunInv(t), Clear(t) \/ Scan(t)
  PROVE  RunInv(t)' /\ (LevelInv(t) => LevelInv(t)')
<1> USE DEF EventsTypeOK, At, Goto, Find, Return, table
<1>1. CASE Clear(t)
  <2>1. pc[t] = "check" /\ next[t] = 1 /\ found[t] = Ordinary
    BY <1>1 DEF Clear, RunInv
  <2>2. CASE state[event[t]] = "ACTIVE"
    <3>1. pc'[t] = "scan" /\ next'[t] = 1 /\ found'[t] = Ordinary
      BY <1>1, <2>1, <2>2 DEF Clear
    <3>2. \A e \in Before(t)' : FALSE
      BY <3>1, EventsAssumption DEF Before, Event
    <3>3. Covers(Before(t), found[t])' /\ Backed(found[t])'
      BY <3>1, <3>2 DEF Covers, Backed
    <3> QED
      BY <3>1, <3>3 DEF RunInv, LevelInv
  <2>3. CASE state[event[t]] # "ACTIVE"
    <3>1. /\ pc'[t] = "idle" /\ next'[t] = 1 /\ found'[t] = Ordinary
          /\ UNCHANGED <<state, level, system_status>>
      BY <1>1, <2>3 DEF Clear
    <3>2. ASSUME IsTop(level) PROVE IsTop(level)'
      BY <3>1, <3>2 DEF IsTop, Covers, Backed, Active
    <3> QED
      BY <2>1, <3>1, <3>2 DEF RunInv, LevelInv
  <2> QED
    BY <2>2, <2>3
<1>2. CASE Scan(t)
  <2> DEFINE n == next[t]
             top == IF Active(n) THEN Higher(effective_level(n), found[t]) ELSE found[t]
  <2>1. /\ n \in Event /\ found'[t] = top /\ next'[t] = n + 1 /\ state' = state
        /\ pc'[t] = IF n = LastEvent THEN "scanned" ELSE "scan"
        /\ Covers(Before(t), found[t]) /\ Backed(found[t])
    BY <1>2 DEF Scan, Advance, RunInv
  <2>2. /\ \A e \in Event : effective_level(e) \in Nat
        /\ found[t] \in Nat
    BY LevelType DEF Levels, Ordinary, Update, Error
  <2>3. Backed(top)
    BY <2>1 DEF Backed, Higher
  <2>4. \A e \in Event : e < n + 1 /\ Active(e) => effective_level(e) <= top
    <3> SUFFICES ASSUME NEW e \in Event, e < n + 1, Active(e) PROVE effective_level(e) <= top
      OBVIOUS
    <3>1. CASE e = n
      BY <2>1, <2>2, <3>1 DEF Higher
    <3>2. CASE e < n
      <4>1. effective_level(e) <= found[t]
        BY <2>1, <3>2 DEF Covers, Before
      <4>2. found[t] <= top
        BY <2>1, <2>2 DEF Higher
      <4>3. top \in Nat
        BY <2>1, <2>2 DEF Higher
      <4> QED
        BY <2>2, <4>1, <4>2, <4>3
    <3> QED
      BY <2>1, <3>1, <3>2, EventsAssumption DEF Event
  <2> HIDE DEF top
  <2>5. Covers(Before(t), found[t])' /\ Backed(found[t])'
    BY <2>1, <2>3, <2>4 DEF Covers, Before, Backed, Active
  <2>6. n = LastEvent => IsTop(found[t])'
    <3>1. n = LastEvent => \A e \in Event : e < n + 1
      BY EventsAssumption DEF Event
    <3>2. n = LastEvent => Covers(Event, top)
      BY <2>4, <3>1 DEF Covers
    <3> QED
      BY <2>1, <2>3, <3>2 DEF IsTop, Covers, Backed, Active
  <2> QED
    BY <2>1, <2>5, <2>6 DEF RunInv, LevelInv
<1> QED
  BY <1>1, <1>2

\* reset_all_events(): nothing is active, and nothing is the level.
LEMMA WipeRuns ==
  ASSUME EventsTypeOK, NEW t \in Tasks, RunInv(t), Wipe(t) \/ WipeLevel(t)
  PROVE  RunInv(t)' /\ LevelInv(t)'
<1> USE DEF EventsTypeOK, At, Goto
<1>1. CASE Wipe(t)
  <2> DEFINE n == next[t]
  <2>1. /\ n \in Event /\ next'[t] = n + 1
        /\ state' = [state EXCEPT ![n] = "INACTIVE"]
        /\ pc'[t] = IF n = LastEvent THEN "wiped" ELSE "wipe"
        /\ \A e \in Before(t) : ~Active(e)
    BY <1>1 DEF Wipe, Advance, RunInv
  <2>2. \A e \in Event : e < n + 1 => ~Active(e)'
    <3> SUFFICES ASSUME NEW e \in Event, e < n + 1 PROVE ~Active(e)'
      OBVIOUS
    <3>1. CASE e = n
      BY <2>1, <3>1 DEF Active
    <3>2. CASE e # n
      <4>1. e < n
        BY <2>1, <3>2, EventsAssumption DEF Event
      <4> QED
        BY <2>1, <3>2, <4>1 DEF Active, Before
    <3> QED
      BY <3>1, <3>2
  <2>3. \A e \in Before(t)' : ~Active(e)'
    BY <2>1, <2>2 DEF Before
  <2>4. n = LastEvent => \A e \in Event : ~Active(e)'
    BY <2>2, EventsAssumption DEF Event
  <2> QED
    BY <2>1, <2>3, <2>4 DEF RunInv, LevelInv
<1>2. CASE WipeLevel(t)
  <2>1. pc'[t] = "read" /\ level' = Ordinary /\ state' = state /\ \A e \in Event : ~Active(e)
    BY <1>2 DEF WipeLevel, RunInv
  <2>2. IsTop(level)'
    BY <2>1 DEF IsTop, Covers, Backed, Active
  <2> QED
    BY <2>1, <2>2 DEF RunInv, LevelInv
<1> QED
  BY <1>1, <1>2

-----------------------------------------------------------------------------
(* The tasks together.                                                     *)

Owner(t) == \A u \in Tasks \ {t} : At(u, "idle")

\* A call that no other has overlapped with is the only one; what is not marked
\* as overlapped is as its calls leave it.
TasksInv ==
  /\ EventsTypeOK
  /\ alone \/ overlapped
  /\ \A t \in Tasks : At(t, "idle") => RunInv(t)
  /\ alone => \A t \in Tasks : RunInv(t) /\ (At(t, "idle") \/ Owner(t))
  /\ ~overlapped => \A t \in Tasks : Owner(t) => LevelInv(t)

LEMMA TasksStart == EventsInit => TasksInv
<1> SUFFICES ASSUME EventsInit PROVE TasksInv
  OBVIOUS
<1>1. EventsTypeOK
  BY TypedStart
<1>2. \A t \in Tasks : pc[t] = "idle" /\ next[t] = 1 /\ found[t] = Ordinary
  BY DEF EventsInit
<1>3. level = Ordinary /\ system_status = "ACTIVE" /\ alone = TRUE /\ overlapped = FALSE
      /\ \A e \in Event : ~Active(e)
  BY DEF EventsInit, Active
<1>4. IsTop(level)
  BY <1>3 DEF IsTop, Covers, Backed
<1>5. \A t \in Tasks : RunInv(t) /\ LevelInv(t)
  BY <1>2, <1>3, <1>4 DEF RunInv, LevelInv
<1> QED
  BY <1>1, <1>2, <1>3, <1>5 DEF TasksInv, At

\* A step of one task leaves the locals of the others.
LEMMA OthersStay ==
  ASSUME EventsTypeOK, NEW t \in Tasks, Steps(t), NEW u \in Tasks \ {t}
  PROVE  /\ pc'[u] = pc[u] /\ next'[u] = next[u] /\ found'[u] = found[u]
         /\ call'[u] = call[u] /\ event'[u] = event[u]
<1> USE DEF EventsTypeOK, Goto, Find, Advance, Return, table
<1>1. CASE Begin(t)
  BY <1>1 DEF Begin
<1>2. CASE Mark(t) \/ Raise(t) \/ Store(t)
  BY <1>2 DEF Mark, Raise, Store
<1>3. CASE Clear(t) \/ Scan(t)
  BY <1>3 DEF Clear, Scan
<1>4. CASE Wipe(t) \/ WipeLevel(t)
  BY <1>4 DEF Wipe, WipeLevel
<1>5. CASE ReadLevel(t) \/ WriteStatus(t)
  BY <1>5 DEF ReadLevel, WriteStatus
<1> QED
  BY <1>1, <1>2, <1>3, <1>4, <1>5 DEF Steps

\* A task that returns leaves its locals as a call finds them.
LEMMA ReturnsIdle ==
  ASSUME EventsTypeOK, NEW t \in Tasks, Steps(t), pc'[t] = "idle"
  PROVE  RunInv(t)'
<1> USE DEF EventsTypeOK, At, Goto, Find, Return
<1>1. CASE Clear(t) \/ WriteStatus(t)
  <2>1. next'[t] = 1 /\ found'[t] = Ordinary
    BY <1>1 DEF Clear, WriteStatus
  <2> QED
    BY <2>1 DEF RunInv
<1>2. CASE Begin(t)
  BY <1>2 DEF Begin, Entry
<1>3. CASE Mark(t) \/ Raise(t) \/ Store(t) \/ Scan(t)
  BY <1>3 DEF Mark, Raise, Store, Scan
<1>4. CASE Wipe(t) \/ WipeLevel(t) \/ ReadLevel(t)
  BY <1>4 DEF Wipe, WipeLevel, ReadLevel
<1> QED
  BY <1>1, <1>2, <1>3, <1>4 DEF Steps

\* What the two history variables say after a step.
LEMMA HistorySteps ==
  ASSUME EventsTypeOK, NEW t \in Tasks, Steps(t)
  PROVE  \/ Begin(t) /\ alone' = Quiet /\ overlapped' = (overlapped \/ ~Quiet)
         \/ /\ ~At(t, "idle") /\ alone' = alone
            /\ \/ overlapped' = overlapped
               \/ WriteStatus(t) /\ WorksOut(t) /\ alone /\ ~overlapped'
<1>1. CASE Begin(t)
  BY <1>1 DEF Begin
<1>2. CASE Mark(t) \/ Raise(t) \/ Store(t)
  BY <1>2 DEF Mark, Raise, Store, At, history
<1>3. CASE Clear(t) \/ Scan(t) \/ Wipe(t) \/ WipeLevel(t) \/ ReadLevel(t)
  BY <1>3 DEF Clear, Scan, Wipe, WipeLevel, ReadLevel, At, history
<1>4. CASE WriteStatus(t)
  BY <1>4 DEF WriteStatus, At, EventsTypeOK
<1> QED
  BY <1>1, <1>2, <1>3, <1>4 DEF Steps

\* The step of a call that has the table to itself.
LEMMA OwnStep ==
  ASSUME EventsTypeOK, NEW t \in Tasks, Steps(t), RunInv(t)
  PROVE  RunInv(t)' /\ (LevelInv(t) \/ (WriteStatus(t) /\ WorksOut(t)) => LevelInv(t)')
<1>1. CASE Begin(t)
  BY <1>1, BeginRuns DEF Begin, WriteStatus, At
<1>2. CASE Mark(t) \/ Raise(t)
  BY <1>2, SetRuns DEF Mark, Raise, WriteStatus, At
<1>3. CASE Store(t)
  BY <1>3, StoreRuns DEF Store, WriteStatus, At
<1>4. CASE ReadLevel(t) \/ WriteStatus(t)
  BY <1>4, ShowRuns
<1>5. CASE Clear(t) \/ Scan(t)
  BY <1>5, ClearRuns DEF Clear, Scan, WriteStatus, At
<1>6. CASE Wipe(t) \/ WipeLevel(t)
  BY <1>6, WipeRuns
<1> QED
  BY <1>1, <1>2, <1>3, <1>4, <1>5, <1>6 DEF Steps

LEMMA TaskKeeps ==
  ASSUME TasksInv, NEW t \in Tasks, Steps(t)
  PROVE  TasksInv'
<1>1. EventsTypeOK /\ EventsTypeOK'
  BY TypedStep DEF TasksInv, EventsNext, Steps
<1>2. \A u \in Tasks \ {t} : At(u, "idle") => At(u, "idle")' /\ RunInv(u)'
  <2> SUFFICES ASSUME NEW u \in Tasks \ {t}, At(u, "idle")
               PROVE  At(u, "idle")' /\ RunInv(u)'
    OBVIOUS
  <2>1. pc[u] = "idle" /\ next[u] = 1 /\ found[u] = Ordinary
    BY DEF TasksInv, At, RunInv
  <2> QED
    BY <1>1, <2>1, OthersStay DEF At, RunInv
<1>3. \A u \in Tasks \ {t} : At(u, "idle")' => At(u, "idle")
  BY <1>1, OthersStay DEF At
<1>4. At(t, "idle")' => RunInv(t)'
  BY <1>1, ReturnsIdle DEF At
<1>5. ASSUME RunInv(t), Owner(t)
      PROVE  /\ \A u \in Tasks : RunInv(u)' /\ (At(u, "idle") \/ Owner(u))'
             /\ LevelInv(t) \/ (WriteStatus(t) /\ WorksOut(t))
                  => \A u \in Tasks : Owner(u)' => LevelInv(u)'
  <2>1. RunInv(t)' /\ (LevelInv(t) \/ (WriteStatus(t) /\ WorksOut(t)) => LevelInv(t)')
    BY <1>1, <1>5, OwnStep
  <2>2. \A u \in Tasks \ {t} : At(u, "idle")' /\ RunInv(u)'
    BY <1>2, <1>5 DEF Owner
  <2>3. ASSUME LevelInv(t)', NEW u \in Tasks \ {t}, Owner(u)' PROVE LevelInv(u)'
    <3>1. pc'[t] = "idle" /\ pc'[u] = "idle"
      BY <2>2, <2>3 DEF Owner, At
    <3>2. IsTop(level)' /\ (system_status' = "FAULT" => level' = Error)
      BY <2>3, <3>1 DEF LevelInv
    <3> QED
      BY <3>1, <3>2 DEF LevelInv
  <2>4. Owner(t)'
    BY <2>2 DEF Owner
  <2> QED
    BY <2>1, <2>2, <2>3, <2>4
<1>6. CASE Begin(t) /\ alone' = Quiet /\ overlapped' = (overlapped \/ ~Quiet)
  <2>1. alone' \/ overlapped'
    BY <1>6
  <2>2. Quiet => RunInv(t) /\ Owner(t) /\ (~overlapped => LevelInv(t))
    BY DEF Quiet, Owner, TasksInv
  <2> QED
    BY <1>1, <1>2, <1>3, <1>4, <1>5, <1>6, <2>1, <2>2 DEF TasksInv
<1>7. CASE /\ ~At(t, "idle") /\ alone' = alone
           /\ \/ overlapped' = overlapped
              \/ WriteStatus(t) /\ WorksOut(t) /\ alone /\ ~overlapped'
  <2>1. alone' \/ overlapped'
    BY <1>7 DEF TasksInv
  <2>2. alone => RunInv(t) /\ Owner(t) /\ (~overlapped => LevelInv(t))
    BY <1>7 DEF TasksInv
  <2>3. ~overlapped' => alone /\ (LevelInv(t) \/ (WriteStatus(t) /\ WorksOut(t)))
    BY <1>7, <2>2 DEF TasksInv
  <2> QED
    BY <1>1, <1>2, <1>3, <1>4, <1>5, <1>7, <2>1, <2>2, <2>3 DEF TasksInv
<1> QED
  BY <1>1, <1>6, <1>7, HistorySteps

LEMMA TasksStep == TasksInv /\ [EventsNext]_eventvars => TasksInv'
<1> SUFFICES ASSUME TasksInv, [EventsNext]_eventvars PROVE TasksInv'
  OBVIOUS
<1>1. CASE \E t \in Tasks : Steps(t)
  BY <1>1, TaskKeeps
<1>2. CASE RecoveryChanges \/ UNCHANGED eventvars
  <2>1. EventsTypeOK'
    BY TypedStep DEF TasksInv
  <2>2. UNCHANGED <<state, level, system_status, pc, call, event, next, found, alone, overlapped>>
    BY <1>2 DEF RecoveryChanges, eventvars, table, locals, history
  <2> QED
    BY <2>1, <2>2 DEF TasksInv, At, Owner, RunInv, LevelInv, IsTop, Covers, Backed, Active,
                      Before, WorksOut
<1> QED
  BY <1>1, <1>2 DEF EventsNext, Steps

LEMMA TasksHold == EventsSpec => []TasksInv
BY TasksStart, TasksStep, PTL DEF EventsSpec

-----------------------------------------------------------------------------

\* For any number of tasks: a system in FAULT has an active ERROR event to show
\* for it whenever no call is under way and no overlap is left to make good
\* (update_event_level, reset_all_events).
THEOREM EventsSafe == EventsSpec => []EventsInv
<1>1. ASSUME TasksInv
      PROVE  EventsInv
  <2> SUFFICES ASSUME Quiet, ~overlapped, system_status = "FAULT"
               PROVE  \E e \in Event : Active(e) /\ Stops(e)
    BY <1>1 DEF EventsInv, FaultEnds, TasksInv
  <2>1. PICK t \in Tasks : TRUE
    BY EventsAssumption
  <2>2. LevelInv(t) /\ pc[t] = "idle"
    BY <1>1, <2>1 DEF TasksInv, Owner, Quiet, At
  <2>3. level = Error /\ Backed(level)
    BY <2>2 DEF LevelInv, IsTop
  <2>4. PICK e \in Event : Active(e) /\ effective_level(e) = Error
    BY <2>3 DEF Backed, Ordinary, Error
  <2> QED
    BY <2>4, StopsAreErrors
<1> QED
  BY <1>1, TasksHold, PTL

\* For any number of tasks: the last call to return has the system in FAULT for
\* as long as an event that must stop it is active, once a call that works the
\* level out has had the table to itself (update_bms_status).
THEOREM FaultsAreShown == EventsSpec => FaultShown
<1> DEFINE Shown == /\ Quiet' /\ ~overlapped' /\ (\E t \in Tasks : At(t, "status"))
                    /\ ~user_requests_forced_charging_recovery_mode
                    /\ (\E e \in Event : Active(e) /\ Stops(e))'
                    => system_status' = "FAULT"
<1>1. ASSUME TasksInv, [EventsNext]_eventvars
      PROVE  [Shown]_eventvars
  <2> SUFFICES ASSUME EventsNext, Quiet', ~overlapped', NEW t \in Tasks, At(t, "status"),
                      ~user_requests_forced_charging_recovery_mode,
                      (\E e \in Event : Active(e) /\ Stops(e))'
               PROVE  system_status' = "FAULT"
    BY <1>1
  <2>1. Steps(t)
    <3>1. ~RecoveryChanges
      BY DEF RecoveryChanges, locals, Quiet, At
    <3>2. PICK u \in Tasks : Steps(u)
      BY <3>1 DEF EventsNext, Steps
    <3>3. u = t
      BY <1>1, <3>2, OthersStay DEF Quiet, At, TasksInv
    <3> QED
      BY <3>2, <3>3
  <2>2. WriteStatus(t)
    BY <2>1 DEF Steps, At, Begin, Mark, Raise, Store, Clear, Scan, Wipe, WipeLevel, ReadLevel
  <2>3. alone /\ (~overlapped \/ WorksOut(t))
    BY <1>1, <2>2 DEF WriteStatus, TasksInv
  <2>4. RunInv(t) /\ Owner(t)
    BY <1>1, <2>3 DEF TasksInv, At
  <2>5. found[t] = level /\ IsTop(level) /\ state' = state
    BY <1>1, <2>2, <2>3, <2>4 DEF WriteStatus, At, RunInv, LevelInv, TasksInv
  <2>6. PICK e \in Event : Active(e) /\ Stops(e)
    BY <2>5 DEF Active, Stops
  <2>7. Error <= level
    BY <2>5, <2>6, StopsAreErrors DEF IsTop, Covers
  <2>8. level = Error
    BY <1>1, <2>7 DEF TasksInv, EventsTypeOK, Ordinary, Update, Error
  <2> QED
    BY <2>2, <2>5, <2>8 DEF WriteStatus, Error, Update
<1> QED
  BY <1>1, TasksHold, PTL DEF EventsSpec, FaultShown
=============================================================================
