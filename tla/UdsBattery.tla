----------------------------- MODULE UdsBattery -----------------------------
(***************************************************************************)
(* The diagnostic (UDS) layer nine drivers are built on, with the steps of  *)
(* the MG driver: a scan that reads one PID after the other, sequences of   *)
(* steps that the web page queues (a reset of the BMS in two steps, a DTC   *)
(* read in one), retries, and pauses, one of them for a diagnostic tool on  *)
(* the bus.  A tick is 100 ms.  Requests fit in one CAN frame; an answer    *)
(* may take several, which the ISO-TP layer assembles.                      *)
(***************************************************************************)
EXTENDS Integers

CONSTANTS
  StepTimeout, PidTimeout,     \* ticks without an answer (10 to 50, and 2)
  MaxRetries,                  \* of a step (2)
  PidMaxRetries,               \* UDS_PID_MAX_RETRIES (10)
  ScanLength,                  \* the PIDs in a scan list
  Backoff,                     \* UDS_EXTERNAL_TOOL_BACKOFF_TICKS (50)
  PostResetPause               \* MG_UDS_POST_RESET_PAUSE (50)

ASSUME UdsAssumption ==
  /\ {StepTimeout, PidTimeout, ScanLength, PostResetPause} \subseteq Nat \ {0}
  /\ MaxRetries \in Nat /\ PidMaxRetries \in Nat
  /\ Backoff \in Nat /\ Backoff >= PostResetPause

VARIABLES
  seq_state, seq_retries,      \* the step in flight
  pending_seq_state,           \* the sequence that is queued
  scan,                        \* pending_pid, next_pid, pid_scan_index, pid_retries
  uds_transaction_timeout,
  seq_pause_ticks, seq_pause_level,
  responder,                   \* uds_current_response_address
  identified,                  \* uds_address is the BMS's own, no longer 0x7DF
  assembling,                  \* ticks an unfinished answer may still live
  since_reset                  \* history: ticks since a reset was answered

uvars == <<seq_state, seq_retries, pending_seq_state, scan, uds_transaction_timeout,
           seq_pause_ticks, seq_pause_level, responder, identified, assembling, since_reset>>

Steps == {"RESET_DIAG", "RESET_SEND", "READ_DTC"}
Starts == {"RESET_START", "READ_DTC_START"}
Addresses == {"bms", "other"}           \* within the range of response IDs
SequencePriority == 0                   \* UdsPriority; a pause names the highest
PidScanPriority == 1                    \* one it stops
CustomPriority == 2
NoPid == 0
Pids == 1..ScanLength

UdsTypeOK ==
  /\ seq_state \in Steps \union {"IDLE"} /\ seq_retries \in 0..MaxRetries
  /\ pending_seq_state \in Starts \union {"IDLE"}
  /\ scan \in [pending : Pids \union {NoPid}, next : Pids \union {NoPid},
               index : 0..(ScanLength - 1), retries : 0..PidMaxRetries]
  /\ uds_transaction_timeout \in Nat /\ seq_pause_ticks \in Nat
  /\ seq_pause_level \in {SequencePriority, PidScanPriority, CustomPriority}
  /\ responder \in Addresses \union {"none"} /\ identified \in BOOLEAN
  /\ assembling \in 0..2 /\ since_reset \in 0..PostResetPause

Paused(priority, ticks) == ticks > 0 /\ priority <= seq_pause_level

-----------------------------------------------------------------------------
(* Sending *)

\* Mutant: a step does not look for a PID request in flight.
SendOverPid(step, s, ticks) ==
  IF ~Paused(SequencePriority, ticks)
  THEN seq_state' = step /\ seq_retries' = 0 /\ uds_transaction_timeout' = StepTimeout
  ELSE seq_state' = "IDLE" /\ uds_transaction_timeout' = 0 /\ UNCHANGED seq_retries

\* The step is dropped, and with it the rest of its sequence, when a PID is
\* being asked for or a pause stops it.
send_sequence_message(step, s, ticks) ==
  IF s.pending = NoPid /\ ~Paused(SequencePriority, ticks)
  THEN seq_state' = step /\ seq_retries' = 0 /\ uds_transaction_timeout' = StepTimeout
  ELSE seq_state' = "IDLE" /\ uds_transaction_timeout' = 0 /\ UNCHANGED seq_retries

FirstStep(start) == IF start = "RESET_START" THEN "RESET_DIAG" ELSE "READ_DTC"

StartQueued(s, ticks) ==
  /\ pending_seq_state # "IDLE" /\ ticks = 0
  /\ pending_seq_state' = "IDLE"
  /\ send_sequence_message(FirstStep(pending_seq_state), s, ticks)
  /\ scan' = s

ScanNext(s, ticks) ==
  /\ pending_seq_state = "IDLE" /\ ~Paused(PidScanPriority, ticks)
  /\ LET pid == IF s.next = NoPid THEN s.index + 1 ELSE s.next
     IN  scan' = [s EXCEPT !.next = pid, !.pending = pid]
  /\ seq_state' = "IDLE" /\ uds_transaction_timeout' = PidTimeout
  /\ UNCHANGED <<seq_retries, pending_seq_state>>

SendNothing(s, ticks) ==
  /\ IF pending_seq_state = "IDLE" THEN Paused(PidScanPriority, ticks) ELSE ticks > 0
  /\ UNCHANGED <<seq_retries, pending_seq_state>>
  /\ seq_state' = "IDLE" /\ uds_transaction_timeout' = 0 /\ scan' = s

-----------------------------------------------------------------------------
(* transmit_uds_can(), every 100 ms *)

Advanced(s) ==
  [pending |-> NoPid, next |-> NoPid, index |-> (s.index + 1) % ScanLength, retries |-> 0]

\* Mutant: a PID that nobody answers is asked for for ever.
PidTimedOutForEver(s) == s

\* The request stays pending while it has retries left.
PidTimedOut(s) ==
  IF s.retries + 1 < PidMaxRetries THEN [s EXCEPT !.retries = @ + 1] ELSE Advanced(s)

\* Mutant: the retries of a step are not counted.
RetryStepUncounted(ticks) ==
  /\ seq_state # "IDLE" /\ uds_transaction_timeout = 1
  /\ seq_retries < MaxRetries /\ ~Paused(SequencePriority, ticks)
  /\ uds_transaction_timeout' = StepTimeout
  /\ UNCHANGED <<seq_state, seq_retries>>

RetryStep(ticks) ==
  /\ seq_state # "IDLE" /\ uds_transaction_timeout = 1
  /\ seq_retries < MaxRetries /\ ~Paused(SequencePriority, ticks)
  /\ uds_transaction_timeout' = StepTimeout /\ seq_retries' = seq_retries + 1
  /\ UNCHANGED seq_state

\* A step without a deadline would hold the bus as well.
InFlight ==
  uds_transaction_timeout > 1 \/ (uds_transaction_timeout = 0 /\ seq_state # "IDLE")

Expires(ticks) ==
  /\ ~InFlight
  /\ seq_state # "IDLE" => seq_retries >= MaxRetries \/ Paused(SequencePriority, ticks)

\* What the bus is used for when no request is in flight any more.
FreeBus(s, ticks) ==
  \/ assembling' > 0 /\ seq_state' = "IDLE" /\ uds_transaction_timeout' = 0 /\ scan' = s
     /\ UNCHANGED <<seq_retries, pending_seq_state>>
  \/ assembling' = 0 /\ (StartQueued(s, ticks) \/ ScanNext(s, ticks) \/ SendNothing(s, ticks))

transmit_uds_can ==
  LET ticks == IF seq_pause_ticks > 0 THEN seq_pause_ticks - 1 ELSE 0
      pid_expired == uds_transaction_timeout = 1 /\ seq_state = "IDLE" /\ scan.pending # NoPid
  IN  /\ seq_pause_ticks' = ticks
      /\ assembling' \in IF assembling = 2 THEN {0, 1} ELSE {0}
      /\ since_reset' = IF since_reset < PostResetPause THEN since_reset + 1 ELSE since_reset
      /\ responder' = IF uds_transaction_timeout = 1 THEN "none" ELSE responder
      /\ \/ /\ InFlight
            /\ uds_transaction_timeout' =
                 IF uds_transaction_timeout > 0 THEN uds_transaction_timeout - 1 ELSE 0
            /\ UNCHANGED <<seq_state, seq_retries, pending_seq_state, scan>>
         \/ RetryStep(ticks) /\ UNCHANGED <<pending_seq_state, scan>>
         \/ Expires(ticks) /\ FreeBus(IF pid_expired THEN PidTimedOut(scan) ELSE scan, ticks)
      /\ UNCHANGED <<seq_pause_level, identified>>

-----------------------------------------------------------------------------
(* handle_incoming_uds_can_frame() *)

Accepted(from) == responder \in {"none", from}

\* Mutant: no pause after a reset.
StepAnsweredNoPause ==
  /\ IF seq_state = "RESET_DIAG" THEN send_sequence_message("RESET_SEND", scan, seq_pause_ticks)
     ELSE seq_state' = "IDLE" /\ uds_transaction_timeout' = 0 /\ UNCHANGED seq_retries
  /\ since_reset' = IF seq_state = "RESET_SEND" THEN 0 ELSE since_reset
  /\ UNCHANGED <<seq_pause_ticks, seq_pause_level>>

\* Any final answer, a refusal as well, takes the sequence one step further.
StepAnswered ==
  /\ IF seq_state = "RESET_DIAG" THEN send_sequence_message("RESET_SEND", scan, seq_pause_ticks)
     ELSE seq_state' = "IDLE" /\ uds_transaction_timeout' = 0 /\ UNCHANGED seq_retries
  /\ IF seq_state = "RESET_SEND"
     THEN seq_pause_ticks' = PostResetPause /\ seq_pause_level' = SequencePriority /\ since_reset' = 0
     ELSE UNCHANGED <<seq_pause_ticks, seq_pause_level, since_reset>>

\* handle_pid(): the scan goes on, asks for the same PID again (a serial number
\* that is not valid yet), or begins a new list at its first PID.
PidAnswered ==
  scan' \in {Advanced(scan), [scan EXCEPT !.pending = NoPid, !.next = scan.pending, !.retries = 0],
            [pending |-> NoPid, next |-> 1, index |-> 0, retries |-> 0]}

\* The answer the step or the PID waits for; the request is finished.
Answer(from) ==
  /\ Accepted(from) /\ assembling' = 0 /\ responder' = "none"
  /\ \/ seq_state # "IDLE" /\ StepAnswered /\ UNCHANGED scan
     \/ seq_state = "IDLE" /\ scan.pending # NoPid /\ PidAnswered /\ uds_transaction_timeout' = 0
        /\ UNCHANGED <<seq_state, seq_retries, seq_pause_ticks, seq_pause_level, since_reset>>
  /\ UNCHANGED <<pending_seq_state, identified>>

\* ResponsePending: a step waits once more, a PID request goes on waiting.
StillWorking(from) ==
  /\ Accepted(from) /\ seq_state # "IDLE"
  /\ uds_transaction_timeout' = StepTimeout /\ responder' = from /\ assembling' = 0
  /\ UNCHANGED <<seq_state, seq_retries, pending_seq_state, scan, seq_pause_ticks,
                 seq_pause_level, identified, since_reset>>

\* A complete message that answers nothing in flight.
Stray(from) ==
  /\ Accepted(from) /\ assembling' = 0
  /\ responder' = IF seq_state = "IDLE" /\ scan.pending = NoPid THEN "none" ELSE from
  /\ UNCHANGED <<seq_state, seq_retries, pending_seq_state, scan, uds_transaction_timeout,
                 seq_pause_ticks, seq_pause_level, identified, since_reset>>

\* A frame of an answer that is not complete yet.
Part(from) ==
  /\ Accepted(from) /\ assembling' = 2 /\ responder' = from
  /\ UNCHANGED <<seq_state, seq_retries, pending_seq_state, scan, uds_transaction_timeout,
                 seq_pause_ticks, seq_pause_level, identified, since_reset>>

\* A request of somebody else.
ExternalTool ==
  /\ seq_pause_ticks' = Backoff /\ seq_pause_level' = CustomPriority
  /\ UNCHANGED <<seq_state, seq_retries, pending_seq_state, scan, uds_transaction_timeout,
                 responder, identified, assembling, since_reset>>

\* The first frame of the BMS sets the layer up for its address and then, but
\* for a step, finds nothing in flight.
Identify ==
  /\ ~identified /\ identified' = TRUE
  /\ scan' = [scan EXCEPT !.pending = NoPid, !.next = NoPid, !.index = 0]
  /\ \/ ~Accepted("bms") /\ assembling' = 0 /\ UNCHANGED responder
     \/ Accepted("bms") /\ assembling' = 2 /\ responder' = "bms"
     \/ /\ Accepted("bms") /\ assembling' = 0
        /\ responder' = IF seq_state = "IDLE" THEN "none" ELSE "bms"
  /\ UNCHANGED <<seq_state, seq_retries, pending_seq_state, uds_transaction_timeout,
                 seq_pause_ticks, seq_pause_level, since_reset>>

\* read_DTC() and reset_BMS() of the web page.
start_sequence(start) ==
  /\ pending_seq_state = "IDLE" /\ pending_seq_state' = start
  /\ UNCHANGED <<seq_state, seq_retries, scan, uds_transaction_timeout, seq_pause_ticks,
                 seq_pause_level, responder, identified, assembling, since_reset>>

UdsInit ==
  /\ seq_state = "IDLE" /\ seq_retries = 0 /\ pending_seq_state = "IDLE"
  /\ scan = [pending |-> NoPid, next |-> NoPid, index |-> 0, retries |-> 0]
  /\ uds_transaction_timeout = 0 /\ seq_pause_ticks = 0 /\ seq_pause_level = PidScanPriority
  /\ responder = "none" /\ identified = FALSE /\ assembling = 0
  /\ since_reset = PostResetPause

UdsFrames == \E from \in Addresses : Answer(from) \/ StillWorking(from) \/ Stray(from) \/ Part(from)

UdsNext ==
  \/ transmit_uds_can \/ UdsFrames \/ ExternalTool \/ Identify
  \/ \E start \in Starts : start_sequence(start)

UdsSpec == UdsInit /\ [][UdsNext]_uvars

-----------------------------------------------------------------------------
(* Properties *)

\* "hold the bus so PID scanning doesn't get in the way": a step in flight, and
\* with it the bus, always has a deadline, whatever answers, pauses and
\* unfinished messages come in between; without one the layer would be silent for ever.
StepHasDeadline == seq_state # "IDLE" => uds_transaction_timeout > 0

\* A step and a PID request are never in flight at once: the answer to the PID
\* would go to the step, and one timeout serve both.
OneRequest == seq_state = "IDLE" \/ scan.pending = NoPid

\* start_sequence() "queues a new UDS sequence": when it is taken from the queue
\* its first step is sent, unless a PID request has retries left, which is the
\* one way the layer loses it without a word.
TakenIsSent ==
  [][pending_seq_state # "IDLE" /\ pending_seq_state' = "IDLE"
       => seq_state' = FirstStep(pending_seq_state) \/ scan'.pending # NoPid]_uvars

\* "Pause for a while (to avoid sending any more resets)": after an answered reset
\* no step is sent before the pause is over, whether queued, retried or next in line.
ResetsApart ==
  [][seq_state' # "IDLE" /\ seq_state' # seq_state => since_reset' >= PostResetPause]_uvars

\* Every step ends, answered or given up, once the BMS no longer asks for more
\* time and the page for more sequences.
StepsEnd ==
  <>[][~(\E from \in Addresses : StillWorking(from)) /\ pending_seq_state' \in {pending_seq_state, "IDLE"}]_uvars
    => <>[](seq_state = "IDLE")
=============================================================================
