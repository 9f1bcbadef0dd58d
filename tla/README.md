# Battery-Emulator in TLA+

Battery-Emulator is firmware for an ESP32 that sits between an electric vehicle
battery and a solar inverter. It decodes the battery's CAN traffic into a shared
data layer, encodes that data layer for the inverter, and drives the contactors
that connect the high-voltage pack to the inverter. This directory holds a formal
model of the part of the firmware that decides: over those contactors and the
precharge before they close, over the power the inverter is allowed, over what the
system does when something stops, pauses, fails, falls silent or restarts, and of the
battery and inverter drivers that are state machines and not tables: TLA+
modules translated from the source, TLC configurations that check them on small
instances, and theorems with proofs checked by TLAPS.

Paths below are relative to `src/Software/src/` unless they begin with `Software.cpp`
(`src/Software/Software.cpp`) or `test/` (`src/test/`).

## 1. The system

### Tasks

| Task | Core | Period | What it runs |
|---|---|---|---|
| `core_loop` | its own | 1 ms, task watchdog | reception, a 10 ms sub-task (stop button, contactors, precharge), a 1 s sub-task (pause state, battery values, safety, inverter values, restart), transmitters |
| web server callbacks | WiFi core | events | pause, stop, restart, clear events, settings, BMS reset, firmware update |
| `mqtt_loop` | WiFi core | events | publication, and the same commands as the web page |
| `connectivity_loop`, `loop()` | WiFi core, main | polling | connections; `loop()` writes the confirmation of a new firmware image |

The 10 ms and the 1 s sub-task never run in the same iteration (`loopPhase`), and
each is one uninterrupted piece of the core task. The tasks share plain C++
globals; nothing on the paths modelled here takes a lock.

### Components

| Component | State | Operations | Talks to | What makes it correct |
|---|---|---|---|---|
| GPIO contactor control (`communication/contactorcontrol`) | ladder state, three outputs, three stamps, equipment-stop wait, fault counter, `contactors_engaged`, `dc_bus_live`, extra contactors | `handle_contactors()` every 10 ms | reads the permission of the inverter, the stop, the system status, the pause, the detection of the battery; tells inverters and batteries | no contactor order that hurts the pack; a lasting fault opens; the latch is final; a stop opens, in bounded time; what it tells is true; a permitted system ends closed |
| BMS power reset (same file) | reset state, power output, three ages, skipped period | `handle_BMSpower()` at the head of every contactor pass, `start_bms_reset()` from core, web, MQTT | starts and ends a pause; refills the liveness counter | power off for the configured time and then back; no false missing-battery fault; never suppressed for ever |
| Pause, stop and restart (`devboard/safety/safety.cpp`) | request, status, CAN flags, stop, its copy in flash, restart time | `setBatteryPause()`, `update_pause_state()`, `graceful_restart()`, `update_restart_progress()` | called by button, web, MQTT, inverter, BMS reset; sets the stop's event | request and status agree; no power while paused; a stop survives a reset; a restart happens |
| Machinery protection (same file) | liveness counters, timers, limits | `update_machineryprotection()` every second | sets events, zeroes limits | each hazard raises its event and only then |
| Events (`devboard/utils/events.cpp`) | state per event, level, system status | `set_event()`, `set_event_latched()`, `clear_event()`, `reset_all_events()` | every component, every task | FAULT exactly while an ERROR event is active |
| Firmware confirmation (`devboard/utils/ota_confirm_gate.cpp`) | two flags | check, request, take | core task, restart callers, `loop()` | confirmed when earned, always and only |
| Parallel battery safety (`devboard/safety/parallel_safety.cpp`) | seconds out of sync, permissions | every second per extra pack | contactors, aggregate, events | a pack that is out of step, or a fault, leaves the link |
| Automatic precharge (`communication/precharge_control`) | five states, PWM, its time | every 10 ms | battery driver, inverter, events | outputs follow the state; ends by voltage, time or withdrawal; no toggling |
| Equipment stop button | debounced level | every 10 ms | `setBatteryPause()` | one call per real press |
| MEB driver (`battery/MEB-BATTERY.cpp`) | mode, high voltage request, ages of CAN, reset phases | BMS_20, other frames, 100 ms transmission | precharge, pause, contactors | a request has a BMS in contact; a reset ends and gives the power back |
| CHAdeMO driver (`battery/CHADEMO-BATTERY.cpp`) | session status, d1, d2, lock, flags of the vehicle | frames, core loop, web page | contactors | live means parked, with a target, and locked |
| Diagnostic layer (`battery/UdsCanBattery.cpp`, used by nine drivers) | step, queue, PID scan, pauses | frames, 100 ms transmission, web page | BMS of the driver | one request at a time, always with a deadline; resets keep apart; the scan goes on |
| Other battery drivers (about fifty) | decoded values | frames, `update_values()` | data layer, events, liveness counters | per protocol |
| Solax, Kostal, SMA inverters (`inverter`) | handshake, contactor test, liveness | frames, serial requests, every second | permission to close | silence withdraws the permission; a handshake is replayed; a test is not cut short |
| Other inverter drivers (about twenty) | encoded values | frames, Modbus | data layer, restart | per protocol |
| BMW S-BOX (`shunt/BMW-SBOX.cpp`) | a ladder of its own, relays, measurements | every 10 ms | permissions, events | the positive relay closes on a charged link; what it tells is true; a revoked permission opens |
| Limits and aggregate (`Software.cpp`, `devboard/safety`, `datalayer/battery_aggregate.cpp`) | latches, filter, recovery charge, blended state of charge | every second | inverter | no zero is lost between a pack, a safety and the inverter |
| Settings (`communication/nvm`) | flash | load at boot, store | everything | what was stored comes back |
| Web, MQTT, WiFi, ESP-NOW, display, LED, SD card, chargers, other shunts, pump, HAL, vendored libraries | | input and output | | |

`PROJECT.json` lists every component with its sources, what is modelled of it, and
why the rest is not.

### What is hard here

* Three tasks write the pause, the stop, the events and the reset state without
  locks.
* The ladder of the contactors reads its permissions at some rungs only, takes
  stamps that outlive the state they were taken in, and compares 32-bit clocks.
* A stop is at the same time a stop, a pause, an ERROR event, a value in flash and
  an input of the contactors; these parts move at different times.
* The limit of the inverter is rewritten several times a second by functions that
  each rely on the order of the others: drivers, cell and user latches, pause and
  fault, recovery charge, taper, filter, aggregation.
* Precharge and driver wait for each other, over values the other copied a pass ago.
* Handshakes are sampled: an inverter's driver learns of the bus, the silence and the
  permission at three different moments.
* The reset of the BMS silences the battery on purpose, while another sub-task
  counts down to a fault because the battery is silent.

The `hazards` of `PROJECT.json` place each of these at its line, with the property
that covers it or the reason why none does.

## 2. The modules

| Module | Models | Composition |
|---|---|---|
| `Contactors` | `handle_contactors()` and the extra contactors | |
| `PackSwitch` | what a driver of contactors promises: abstract, no code of its own | |
| `ContactorTiming` | the same as `Contactors`, observed by clocks that are not the code's | EXTENDS `Contactors`, INSTANCE `PackSwitch` |
| `Pause` | `setBatteryPause()` and its callers, the 1 s sub-task, restart, boot, power loss | |
| `PauseRace` | `setBatteryPause()` and `update_pause_state()`, access by access | |
| `EquipmentStop` | the pause, the events and the contactors together | EXTENDS `Pause`, INSTANCE `Contactors` |
| `BmsReset` | `handle_BMSpower()`, `start_bms_reset()`, the liveness counter | |
| `UdsBattery` | the diagnostic layer of nine drivers, with the MG driver's reset | |
| `BmsResets` | the two ways of resetting a BMS | EXTENDS `BmsReset`, `UdsBattery` |
| `PrechargeControl` | `handle_precharge_control()` under a driver that may do anything | |
| `MebBattery` | the MEB driver: HV request, loss of CAN, reset of the BMS | EXTENDS `PrechargeControl` |
| `ChademoBattery` | the V2X session of the CHAdeMO driver | |
| `Drivers` | the driver that `setup_battery()` makes | EXTENDS `MebBattery`, `ChademoBattery` |
| `ParallelSafety` | `check_parallel_battery_safety()`, the packs that count, the reported state of charge | |
| `Limits`, `MCLimits` | the limits of one pass, from the packs to the inverter; the instance for TLC | EXTENDS `ParallelSafety` |
| `BmwSbox` | the ladder of the S-BOX | INSTANCE `PackSwitch` |
| `Inverters` | Solax, Kostal and SMA: permission and liveness | EXTENDS `BmwSbox` |
| `Events` | the event table, access by access | |
| `OtaConfirm` | the confirmation gate, access by access | |
| `UnlockedCalls` | the two parts that several tasks call without a lock | EXTENDS `Events`, `OtaConfirm` |
| `ContactorsProofs`, `PauseProofs`, `BmsProofs`, `DriversProofs`, `LimitsProofs`, `InverterProofs`, `EventsProofs`, `OtaProofs` | the theorems of section 4 | each EXTENDS TLAPS and `ContactorTiming`, `EquipmentStop`, `BmsResets`, `Drivers`, `Limits`, `Inverters`, `Events`, `OtaConfirm` |

Every module defines its type invariant (`TypeOK`, or the same with a prefix where
modules are composed). Times are ages in all of them: a stamp `t` of the code is
kept as `millis() - t`, capped where nothing distinguishes larger ages any more.

### Contactors

One step, `handle_contactors(d)`, is one whole pass, `d` units of time after the
last one. It is the conjunction of what every pass does (`Prologue`: time, the extra
contactors, `dc_bus_live`, the fault counter, in the code's order, all computed from
the state before the transition) and exactly one of eleven disjuncts, one per way
through the rest of the function. The disjunct `CloseNegative` from `DISCONNECTED`
is the fall-through of the code: a pass may go from `DISCONNECTED` through
`START_PRECHARGE` to `PRECHARGE` at once.

The code only uses unsigned differences of stamps, which are ages as long as nobody
waits 49.7 days. The one absolute comparison, the ten-second start-up window, is kept
as `uptime`, and `MillisWraps` sends it back to zero. An output is `off`, `full` or
`hold`; `Set` and `SetDigital` say what the two forms of `set()` write for each
configuration, and `Closed` what the contactor behind the output does. The variables
read from other parts change arbitrarily between two passes (`SharedWrites`).

`PackSwitch` is what that amounts to for an observer of the outputs: a pack is closed in one
order and through its resistor, a closing that has begun is completed or ends latched,
what is on the bus leaves it all at once, others are told that it is there only while it is,
and after the latch nothing closes. `ContactorTiming` maps the outputs and
`contactors_engaged` to it (`ImplementsSwitch`), `BmwSbox` its `relays`, which close
in another order (`RelaysAreSwitched`).

`handle_contactors()` begins with `handle_BMSpower()`. The two share no variable but
the pause, so the reset has a module of its own and appears here as a possible cause
of a change of `emulator_paused`.

### Pause, EquipmentStop and PauseRace

In `Pause` each call of `setBatteryPause()` is one step, with all it does: the
stop with its event and its flash copy, the request, the status, the immediate
`update_pause_state()`, the zeroed limits. The callers are the actions
`EquipmentStop`, `EquipmentResume`, `PauseRequest`, `ResumeRequest` and
`graceful_restart`. `OneSecond` is the 1 s sub-task in its order; `power_allowed`
after it may be false for any other reason or true where the code allows it.
`Restart` ends a pass in which the restart is due, `PowerLoss` happens at any time.

`EquipmentStop` instantiates `Contactors` with
`emulator_paused <- (emulator_pause_status = "PAUSED")` and
`system_fault <- (stop_event \/ other_fault)`, which is how the code connects them: the
stop's event is an ERROR event, an ERROR event makes the status FAULT, and the pass
reads the status. A `Reboot` falls back to what `init_contactors()` drives. `order` is
a history variable and knows nothing of the code's flags: it follows what the users order
(`EquipmentStop`, `EquipmentResume`) and when the ladder has come to rest since.

`PauseRace` takes `setBatteryPause()` and `update_pause_state()` apart: every read
of a condition and every write is a step of the task that makes it.

### BmsReset, UdsBattery, BmsResets

`BmsReset` counts whole seconds, one `Second` per run of the liveness check, with any
number of passes in between and at least one. A pass is two steps, because the code
reads `millis()` at its head and compares later: `BeginPass` reads the clock,
`handle_BMSpower` acts. A `RemoteStart` in between may take its stamp from a newer
millisecond; `clock = "stale"` then stands for the unsigned difference that wraps. The
battery refills the liveness counter by its frames whenever it has had power for the
warm-up. `contactor_control_enabled` is a setting that is fixed at boot: the initial
state chooses it. `off_for` and `begun_full` are history variables: how long the
power has really been off, and whether the BMS had been heard within a second when
the reset began.

`UdsBattery` has one action per handler: `transmit_uds_can` every 100 ms (the pause
runs down, a time-out is handled, a free bus is used for the queued sequence or the
next PID of the scan), the frames that answer a step or a PID, reject it, ask for
patience, begin an answer of several frames, come from another address or from a tool
on the bus, and the sequences the web page queues. ISO-TP is reduced to whether an
answer is being assembled and for how long. `since_reset` is a history variable. The two
kinds of reset share nothing; `BmsResets` follows an installation with either.

### PrechargeControl, MebBattery, ChademoBattery, Drivers

`handle_precharge_control` has one action per way through its switch, each a whole
tick: the withdrawal that is looked for first, START with its two kinds of return,
PRECHARGING with time-out, completion or the next frequency, and the failure that
stays. The PWM's frequency is computed as in the code, modulo the width of a
`uint32_t` (`FreqModulus` is any modulus above the range, so that a wrap would show).
On its own the module's driver publishes anything (`Driver`); `MebBattery` replaces
it by the driver that really starts the precharge: `Bms20` frames, other frames, the
100 ms transmission with the HV request, the five phases of a BMS reset and the
silence that begins or ends them. `transmit_can(d, due)` is a pass of the driver `d`
ticks later in which the 100 ms frame is due or not.

`ChademoBattery` keeps what the vehicle said last (target, enabled, shifter, minimum)
and the pins; what a pass measures is chosen when it measures (`Readings`), and a pin that
two functions read is chosen twice. A frame handler stores what the frame says, sets the
status by it (`AfterSession`, `Negotiating`) and runs the state machine after that, as the
code does, so the state machine's overrides have the last word. `framecount` wraps at `FrameCountModulus`, as the
`uint8_t` does. `restarted` is a history variable.

`Drivers` lets the initial state choose the driver, with the precharge running under
the MEB driver, under any other, or under none.

### ParallelSafety, Limits

`Pass` is the one-second work in its order: `check_parallel_battery_safety()`
decides which packs are on the link, the drivers have written their limits (`reading`),
the cell and user latches, full and empty packs, pause and fault zero them, the recovery
charge overrides, the current limit caps, the taper scales, the low-pass filter smooths, and
`update_aggregate_limits()` takes the lowest of the packs on the link. Charge and discharge take
the same way and do not meet, so a behaviour follows one `direction`. Powers and
states of charge are small integers, the arithmetic is the code's integer arithmetic
(division truncates).

The system status and the pause may change while a pass goes on: its own later checks set
and clear events, and other tasks call. What holds up to the decision of safety.cpp:388 is
the unprimed variable; what is read after it (the status of line 452, the pause of lines
539 and 565 and of the recovery charge) is the primed one. A change after the last of these
reads is the same as one after the pass, a change before the first as one before it.

### BmwSbox, Inverters

A pass of `BmwSbox` writes `relays` and sends them: `sent` is the last frame on the
bus, which is what the box obeys. `Inverters` adds the permission: for SOLAX the
states of the handshake and the watch over the bus (`Waiting`, `ContactorClosed`,
`SolaxUpdate`), for KOSTAL the requests, the test and its end, for SMA the pin. The liveness
counter, shared by all CAN inverters, is `CAN_inverter_still_alive` with the decrement
`CountNow`, which runs on every third pass with the long time-out; `silent` is a
history variable. The S-BOX follows the permission where one is fitted, otherwise
`OtherContactors` may do anything.

### Events and OtaConfirm

Both are modelled access by access, since what they get wrong or right is decided
there. In `Events`, levels below UPDATE are one value: the status does not tell them
apart. A call is `set`, `latch`, `clear` or `reset`; `clear` walks the table entry by
entry, `reset` wipes it entry by entry. Any number of tasks is in its calls at once, and
overlapping calls do lose each other's level (`race_events`). Two history variables say how
long that may matter. `alone` is true of a call that no other has overlapped with so far;
`overlapped` is true from the moment two calls overlap until a call that was alone from its
beginning to its end returns, and is one that works the level out: a clear, which scans, a
reset, which zeroes, or a set of an event that stops the system, which no other is above. The properties
speak of the times when `overlapped` is false.

In `OtaConfirm` the three functions of the gate are two or three steps each, with the flag
they read and the flag they write. `UnlockedCalls` lets the initial state choose the part
whose calls a behaviour follows, since the two share nothing.

## 3. The runs

Runs that must pass:

| Run | Module, distinct states | Shows |
|---|---|---|
| `contactors` | `ContactorTiming`, 181 792 | the ladder implements `PackSwitch` (`ImplementsSwitch`), `FaultOpens`, `EngagedTruthful`, `ExtraFollowsMain`, on clocks of its own `PrechargedBeforePositive` and `TimingInv` (resistor and stop are bounded in time), and that the ladder ends where it should: `EventuallyClosed`, `EStopOpens` |
| `stop` | `EquipmentStop`, 106 200 | request and status agree (`PauseCoherent`), the stop outlives a reset (`StopSurvivesBoot`), a restart happens (`RestartHappens`), and contactors that a stop has opened stay open through restarts, power losses, pauses, resumes of a pause, events and permissions until a user resumes (`StopHolds`) |
| `bms` | `BmsResets`, 209 618 | a reset by power: `AliveDuringReset`, `OffLongEnough`, `PowerReturns`, `ResetNotSuppressed`; by diagnostics: `ResetsApart`, `StepsEnd`, `ScanGoesOn`; both: `ResetsInv` (a deadline for every step, one request at a time) |
| `unlocked` | `UnlockedCalls`, 1 525 951 | under every interleaving of two tasks, event table: a stopping event shows as FAULT (`FaultShown`) and FAULT has an event behind it (`EventsInv`), but from an overlap to the next call that has the table to itself and works the level out; confirmation gate, with the checker and the writer: `Earned` and `Confirmed` |
| `drivers` | `Drivers`, 136 958 | outputs, frequency and request agree (`MebInv`); the reset ends (`ResetEnds`); no pass after pass toggling (`NoToggling`); a BMS that may start is precharged or asked for HV (`StartHappens`); a CHAdeMO session is parked, has a target and is locked (`SessionSafe`) |
| `limits` | `MCLimits`, 58 710 | no zero is lost on the way to the inverter (`StopReachesInverter`), no pack is asked for more than it allows (`PacksRespected`), a recovery charge ends (`RecoveryEnds`), a pack out of step leaves (`PackSeparated`) |
| `inverters` | `Inverters`, 56 185 | a silence is noticed (`LossNoticed`), a permission was asked for (`InverterInv`), the handshake is replayed (`ReplayHappens`), a test is not cut short (`TestHeld`), the S-BOX precharges before it closes (`PositiveAfterPrecharge`), tells the truth (`SboxTruthful`) and opens when it has to (`RevokeOpens`) |

Runs in which TLC must find a violation, each a disagreement between the code and
what its own comments say (the `findings` quote them):

| Run | Property | What happens |
|---|---|---|
| `race_pause` | `RaceCoherent` | the core task's resume sets the request off; a pause of the web task then completes; the core task writes its status: the request is on, the status RESUMING, and no later second makes it PAUSED |
| `race_events` | `OnlyUpwards` | one task has read the level for a lower event when another raises an ERROR event and stores its level; the first stores what it had worked out, below it, and the system is ACTIVE under an active ERROR event |
| `precharge_skipped` | `HvOffEndsRequest` | a stop, a withdrawn permission or a FAULT makes the MEB driver ask for HV off, and the BMS reports it off, but `hv_requested` stays; the next start asks for HV at once, without the precharge |
| `limits_ramp` | `InverterRamps` | the zero of a second pack is folded in after the filter, so its release jumps to the full limit |
| `sbox_open` | `LatchOpens` | the latched shutdown writes the opening frame and returns before `transmit_can_frame()`, in that pass and every later one |

`PauseCoherent` holds where a call is one step and `RaceCoherent`, the same statement,
fails where it is not: that is the precise content of the missing lock. In the event table
`FaultShown` and `EventsInv` say how far the harm of `race_events` goes: it lasts until the first call
that works the level out undisturbed, and no call leaves more of it behind.

Every property of a passing run has a mutant in `PROJECT.json`: an alternative
definition, beside the original in its module, that changes the code the way a
plausible bug would (a dropped guard, a wrong stamp, a missing reset) and that the
property rejects under the same configuration.

### Bounds

* `contactors`: one extra battery; the times are 1 or 2 units and passes come 1 or 2
  units apart, so that each timer can be met exactly, overrun by a late pass, and
  found not yet due; `Horizon` 3 exceeds every limit (`TimeAssumption` requires it,
  TLC checks it), so ages above it are indistinguishable; `LastTick` 10 exceeds
  `ResistorLimit` (8) and the other limits stated on the clocks (`ClocksReachLimits`); one wrap of
  `millis()`, enough to strike at every rung of the ladder; a fault limit of 1 tick, so that
  both a fault that ends in time and one that does not occur. The run has PWM on; `stop` has it off.
* `stop`: no extra battery; restart after 1 or 2 seconds; a ladder of one unit per rung, so that a stop
  falls into each of them and a resumed system is closed again; a fault limit of 3 ticks and a wait of 2, so
  that the contactors open by the pause, by the time-out and by the latch. Nothing in `Pause` is bounded but the restart's age.
* `bms`: a period of 4 s, an off time of 5 s that outlasts the liveness window of 4 s
  and so needs the keepalive, which is refreshed every second; waits of 1 and 2 s; a warm-up
  of 2 s, in which the BMS is silent long enough for a second reset to begin with a counter
  that is no longer full. For the diagnostics: a step waits 2 ticks and is
  repeated once, a PID is repeated twice, a scan has two PIDs, so that it goes on and comes
  round; both pauses are 2 ticks, equal as in the code (50 and 50).
* `unlocked`, `race_events`: two ERROR events, one of them downgraded off-grid, and an UPDATE event: one
  of each kind the level computation tells apart, and two that can cover each other. Two tasks, the
  fewest that overlap; the mutant of `FaultShown`, a repeated `set_event()` that leaves the level alone, is harmless with one
  task and found with two. For the gate two requesters beside the checker and the writer.
* `race_pause`: two tasks.
* `drivers`: link voltages of 0 (not measured), just below the pack and far above it, so
  that the frequency goes both ways and ends; a precharge of 1 tick, CAN lost after 2,
  every phase of the reset 1 or 2 ticks, in the order the code's constants have; a frame counter that wraps
  at 5 with 2 frames to skip, so that a second skip is seen. Readings of the shunt: dead, residual, live.
* `limits`: two packs, a healthy one and packs near the top, full, too high and dead, each
  of which another rule stops; a cap (3) below and a taper floor (1) above what some of them allow; half
  shares in the filter so that a ramp has a step between its ends.
* `inverters`: time-outs of 1 to 2 passes, a grace (4) longer than the time-out (2) and
  shorter than its threefold; a link at 0, 99 and 100 % of the input (the threshold is exact at 99 %).

### Fairness

`core_loop` is released every millisecond by `vTaskDelayUntil` and resets the board
through the task watchdog when it does not come round, so what it calls is called
again and again. Weak fairness of: a pass (`TimedFairSpec`, `StopFairSpec`,
`LimitsSpec`), the one second sub-task (`StopFairSpec`, `InvertersFairness`), the reset's pass
and the diagnostics' `transmit_uds_can` (`ResetsSpec`), the precharge and the MEB driver's 100 ms
transmission (`DriversFairness`), the S-BOX's frame and `receive()` of the Kostal driver, which looks at its timer
(`InvertersFairness`), and the check of the confirmation (`CallsSpec`).
`ResetsSpec` asks strong fairness of `Second`: passes enable it and disable it in
turn, and real time does not stop for them. `loop()` polls for ever, and a call that
has begun ends: weak fairness of the steps of `OtaConfirm` (`CallsSpec`). No fairness is asked of
callers, of the inverter, of a battery, of a vehicle or of the current; the liveness
properties are conditional on what they finally do (`<>[]equipment_stop_active`,
`<>[]MayClose`, `<>[]Willing`, `<>[]MustOpen`), never on the order in which they get there.
`RevokeOpens` also needs a link that charges: the rung POSITIVE has no time-out of its own.

## 4. What is proved

Every theorem holds for all values of the constants the named assumptions admit. TLC
evaluates the assumptions in the passing runs. Every safety invariant and every action
property that a passing run checks is a theorem; none of them is inductive by itself:
each says what is true of outputs or statuses at a moment, and what they become depends
on something it does not speak of. The strengthenings are:

* `ContactorsProofs`, the ladder: `IInv == TypeOK /\ LadderInv /\ LatchInv` ties outputs and
  `contactors_engaged` to every rung and the fault counter to the latched state. The
  subtle rung is `DISCONNECTED`, which the pass that leaves `COMPLETED` enters
  without touching an output: there the contactors are open and disengaged, or still
  closed and engaged. `InitIInv`, `PassType`, `PassLadder`, `PassLatch` and
  `EnvironmentFrame` are the lemmas, `Inductive` puts them together. From it follow
  `PositiveSafe`, `FaultSafe`, `EngagedSafe` and the action properties `ShutdownFinal`,
  `DcBusLiveSafe`, `ExtraSafe`. `OneDrive`, that normally closed contactors and PWM
  are not both enabled, is needed: with both, `set()` writes the duty and loses the
  inversion, an output that is `off` conducts, and `FaultOpens` is false.
* `ContactorsProofs`, the times: `TimedImplementsContactors` shows that the clocks only
  observe, so that the theorems above hold of `ContactorTiming` too. `TimedInv` adds to `IInv`
  what the clocks of the coils have shown by the time the stamps of a rung say so:
  at least (`ClosedFor`, for `PrechargedSafe`) and at most (`ResistorFor`, `StoppedFor`,
  for `TimingSafe`). The upper bound of the resistor needs a budget: a wrap of
  `millis()` puts the ladder back into the start-up window, where it neither climbs
  nor opens, so `Lost`, the window's time spent since the first one, is added to each
  rung's limit and is never more than `MaxWraps * BootTime`. `StoppedFor` needs only
  that the wait is not younger than the stop: an older wait opens sooner.
* `ContactorsProofs` and `InverterProofs`, the refinement: `LadderImplementsSwitch` and
  `SboxImplementsSwitch`. `SwitchInv` and `BoxInv` name the state of the switch behind each rung, and each
  way through a pass is an action of `PackSwitch` or none. For the S-BOX this is true of what the
  driver decides (`relays`) and false of what it sends (`sent`): the run `sbox_open`.
* `PauseProofs`: `PauseInv`, the type invariant with coherence, zero power and the
  stored stop, is kept by each caller, the one second step and a boot. For the
  composition, `StopInv` adds `OrderInv`: an order that stands is the stop that runs, and what
  it has opened is at rest. Each half needs the other: the ladder does not leave
  `DISCONNECTED` because `equipment_stop_active` holds (`PassStaysAtRest`), and that holds after a boot because
  the stored stop is the running one (`StopSurvivesBoot`). `StopHoldsOpen` follows, under `OneDrive`.
* `BmsProofs`, the power: `PowerInv` says which state has the output off and that the stamp
  of the removal is never older than the removal (`StaysOff`). `CounterInv` is the
  argument of the keepalive: what the liveness counter has lost since it was last
  full, the age of the keepalive has gained, so the two add up to a full window, and the
  pass in each second, which refills when the age is one second less, comes before the counter is
  empty (`KeptAlive`). It starts to hold when the reset begins with a counter that is full but for a second,
  which is why `AliveDuringReset` asks for `begun_full`.
* `BmsProofs`, the diagnostics: `UdsInv` adds `PauseCovers`, that the pause in force covers
  what is left of the time after a reset. It needs the assumption that the back-off for a
  tool is not shorter than the pause after a reset, because a tool's pause
  replaces the one in force. `ResetsAreEither`: an installation behaves as the power
  cycle and as the diagnostic layer, so `ResetsSafe` and the rest follow for `BmsResets`.
* `DriversProofs`, the precharge: `PrechargeInv`, type, outputs and frequency together. That
  `freq` never wraps is arithmetic: the step down is at most 2000 below a value of at
  least `MinFreq`, so the difference is positive before the clamps, and the ceiling,
  which may lie below the minimum, is applied first.
* `DriversProofs`, the MEB driver: `MebIInv` adds `StandbyIsHeard` to what the run checks. A
  request is only made on standby, and every path that gives the contact up (the loss of CAN, the
  end of a reset) takes the battery off standby in the same step. `MebSafe` is the driver alone,
  `DriversKeepMeb` and `DriversKeepSession` whichever driver runs.
* `DriversProofs`, CHAdeMO: `ChademoInv` adds to the session's three parts what keeps the lock:
  in which statuses d1 may be up. `SessionIsSafe` is what the run checks.
* `LimitsProofs`: `LimitsTypeOK` is inductive; the action properties follow from
  lemmas on what each stage does to a limit (`ShareBounded`, `BlendBetween`,
  `RealSocBounded`, `TaperBounded`, `MainBounded`, `LinkBounded`): a stage maps zero to zero and
  never exceeds its input but for the floor of the taper, so a zero at any stage is a
  zero at the end.
* `InverterProofs`: one small invariant per theorem: `SettingsInv` (the settings never
  change), `AskedInv` (which states of the handshake imply a request), `AgeInv` (silence and the
  age of the last frame move together), `LadderInv` (relays and statuses by rung of the S-BOX), and
  `LifeInv`: the counter, converted into passes, and the silence add up to the
  last refresh, which gives both that no alarm is early (`AlarmIsEarned`) and that none is late
  (`LossIsNoticed`). `RungInv` says what each rung has told the box and that the link has been charging
  for as long as the stamp of the rung (`PrechargedBeforeClosed`); `InverterIsSafe` puts the
  types together, group by group of variables.
* `EventsProofs`, for any number of tasks. `RunInv` and `LevelInv` say at every point of a call what
  the locals and the stored level are worth: the level is that of the highest active event
  (`IsTop`) except from the store of an event to the store of its level, the scan
  has covered the entries before `next` and its result has an active event behind it, and a
  FAULT outlives its event only until the call that ended it returns. `TasksInv` says whose call they hold of: of
  one that is alone (`RunInv`), and with the level that it found only if no overlap is left to
  make good (`LevelInv`). A call that begins while another is under way ends both at once, and `OwnStep`
  shows that a call which works the level out restores the second from the first. `EventsSafe` and
  `FaultsAreShown` follow.
* `OtaProofs`: `OtaInv`, that whoever is past a check has found what it checks for,
  for any number of requesters.

Proved and not checked by a run of their own any more: `PositiveNeverAlone`,
`RelaysAreSwitched`, `ShutdownIsFinal`,
`DcBusLiveForOnePass`, `NoPowerWhilePaused`, `FreqNeverOvershoots`, `CeilingHolds`,
`FullPackStops`, `RampNeverStalls`, `AlarmEarned`, `SilentInverterOpens`, `LockHolds`,
`TakenIsSent`, and the type invariants `PauseTypeOK`, `OtaTypeOK`, `LimitsTypeOK`. TLC agreed with each
of them on the instances of section 3 before it was proved; a run that checks a property checks it with its
mutant, and these are the ones the proofs make dispensable.

Only model-checked, because fairness and ENABLED are beyond the proof system: the
liveness properties `EventuallyClosed`, `EStopOpens`, `RestartHappens`, `PowerReturns`,
`ResetNotSuppressed`, `StepsEnd`, `ScanGoesOn`, `Confirmed`, `ResetEnds`, `NoToggling`,
`StartHappens`, `RecoveryEnds`, `PackSeparated`, `RevokeOpens` and `ReplayHappens`. The
properties of the five runs that end in a violation are false, and have no theorem.

## 5. Behaviours the models show that no run is about

Contactors, pause and events:

* A stop that is pressed while the ladder waits or runs is overtaken by three closing
  contactors; only `COMPLETED` then starts to wait and opens them. A fault in the
  start-up window or during the ladder likewise does not keep them from closing; they open
  when the fault counter runs out (`FaultOpens`).
* When the inverter withdraws its permission during the wait of an equipment stop, the
  start of the wait stays behind, and a later stop takes it for its own and opens under
  load at once. `TimingInv` bounds the wait from above only.
* The stop is an ERROR event, so it counts as a fault: after `MAX_ALLOWED_FAULT_TICKS`
  passes the stop that comm_contactorcontrol.cpp:261 calls recoverable is the latched shutdown.
* Normally closed contactors with PWM: `set()` loses the inversion (`OneDrive`).
* A boot with a stored stop, and every plain resume, leave a stop without its pause.
  Contactors that are closed then wait for the timeout.
* A restart lets the contactors fall open at whatever current flows after ten seconds.
* A latching stop switch that is released while the power is off leaves the stored stop
  in force until it is pressed and released again.
* A stop and a resume in two tasks can leave the stop's event without the stop.
* The race of `race_events` has a second form: `clear_event()` scans the table, another task raises an
  ERROR event, and the first stores the level of its scan. And an event that is set once and not again leaves
  the wrong status standing for as long as no other call works the level out.
* A FAULT that is raised in a one-second pass after safety.cpp:388 zeroes the limits of the next pass
  only; `StopReachesInverter` speaks of what the pass finds there.
* `set_event()` on a latched event makes it an ordinary one, which the next clear ends.
* Switching the recovery charge off on the web page does not recompute the status.
* The confirmation of an image can be taken twice; the second write is harmless.

Resets of a BMS:

* A remote reset during a stop cuts the power, and the pass that would restore it is
  skipped for as long as the stop lasts (`PowerReturns` excepts the stop).
* A reset of the BMS that is given up leaves the emulator paused; the end of an
  equipment stop during a reset ends the pause of the reset.
* A reset that begins when the BMS has been silent for more than a second (after another
  reset, whose warm-up it has not finished, or on a weak bus) raises the missing battery that
  the keepalive is there to prevent: `start_bms_reset()` restarts the keepalive's
  interval without filling the counter. `AliveDuringReset` excepts it (`~begun_full`);
  without the exception TLC finds it in 18 states.
* A remote start inside a pass of the reset state machine can make the power
  come back at once (`OffLongEnough` excepts `clock = "stale"`).
* Diagnostics: a sequence that is taken while a PID waits for its retry is lost; negative
  answers count as success; "response pending" prolongs a step without limit
  (`StepsEnd` excepts it); an invalid serial number is asked for for ever; a pause of
  another task may come between the reads and writes of a pass.

Drivers:

* MEB: the resume at the end of a reset also lifts a user's pause; HV_OFF need not have been
  sent in a reset that finds the mode at 0 already; the voltage of the link that starts a precharge may be that of the last frame
  before the loss of CAN; the silence of a reset keeps the loss of CAN from being handled. A failure of the
  precharge is latched until a reboot. The latched FAULT of a BMS is lifted by the end of a reset alone.
* CHAdeMO: the web page's Stop button calls `chademo_restart()`, which unlocks the
  connector with d1 up (`SessionSafe` excepts it); `framecount` wraps, so frames are skipped
  again after 256; a target that arrives before EVSE_PREPARE is not seen as new.

Limits and inverters:

* The taper's floor may be more than the BMS allows (`PacksRespected` excepts it).
* A pack keeps its permission while its voltage, or the main pack's, is not read: the
  check of the packs returns first, under a FAULT as well (`PackSeparated` excepts it).
* Kostal: a test without an S-BOX is cut short by the count of information requests, and
  the driver has no time-out of its own for the permission. Solax ignores an
  open request before the handshake has got to waiting for the contactors.
* S-BOX: with no voltage on its battery side any output passes for precharged.

## 6. What is not modelled

About fifty battery drivers and twenty inverter drivers, the chargers and the other
shunts: they decode and encode fields of frames, most of the lines of the repository,
and keep no control state that the parts above depend on but what is an arbitrary input
here. Web pages and their settings, MQTT publication, network, display, logs (input and
output only); the vendored libraries, the largest files of all; the flash library and
ESP-IDF (flash is a variable that keeps its value). The models therefore cover a small
share of the lines: those in which something is decided over several steps.

Within the modelled parts: timestamps, counts and texts of events; the muting of CAN
events, contactor pins and PWM frequencies of the contactors; temperatures, state of
health and the other checks of the machinery protection that only raise an event; sums
and scaled capacities of the aggregate, which are arithmetic without state; currents
(they are the powers at the link's voltage).

`pause_CAN` of `setBatteryPause()` is a parameter in the model and no caller passes it,
so `allowed_to_send_CAN` stays true: that branch is dormant in the code as well.

## 7. Plan

Written, checked and proved: the modules above. Left, in this order:

1. The safety half of `PackSeparated`: how long a pack that is out of step stays on the
   link, counted by a clock of its own.
2. The refinement of `Contactors`' arbitrary `extra_allowed` by `ParallelSafety`, and of its
   permission by `Inverters`.
3. The debounced button, the handshakes of further inverters (SMA's enable line, the
   remote limits that expire), the resets of other battery drivers.
4. Temperatures and the muting of CAN events, the capacities, the settings.
