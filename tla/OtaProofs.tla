----------------------------- MODULE OtaProofs -----------------------------
(***************************************************************************)
(* For any number of tasks that restart the system: an image is confirmed  *)
(* only when it has earned it.                                             *)
(***************************************************************************)
EXTENDS OtaConfirm, TLAPS

Deserved == survived \/ requested

\* Whoever is past the check, and whatever has been passed on, has earned it.
OtaInv ==
  /\ OtaTypeOK
  /\ checker = "set" => Deserved
  /\ \A r \in Requesters : requester[r] # "idle" => requested
  /\ confirmation_owed \/ confirmation_taken \/ writer # "read" => Deserved
  /\ written > 0 => Deserved

LEMMA OtaStarts == OtaInit => OtaInv
<1> SUFFICES ASSUME OtaInit PROVE OtaInv
  OBVIOUS
<1>1. /\ requester \in [Requesters -> {"idle", "read", "set"}] /\ written \in 0..2
      /\ checker \in {"read", "set"} /\ writer \in {"read", "clear", "take", "write"}
      /\ checker # "set" /\ ~(written > 0) /\ \A r \in Requesters : requester[r] = "idle"
  BY DEF OtaInit
<1>2. OtaTypeOK
  BY <1>1, Zenon DEF OtaInit, OtaTypeOK
<1>3. ~(confirmation_owed \/ confirmation_taken \/ writer # "read")
  BY Zenon DEF OtaInit
<1> QED
  BY <1>1, <1>2, <1>3, Zenon DEF OtaInv

LEMMA RequesterSteps ==
  ASSUME OtaInv, NEW r \in Requesters,
         Request(r) \/ RequestReads(r) \/ RequestSets(r)
  PROVE  OtaInv'
<1>1. requester' \in [Requesters -> {"idle", "read", "set"}]
  BY DEF OtaInv, OtaTypeOK, Request, RequestReads, RequestSets
<1>2. requested' /\ (requested => requested')
  BY DEF OtaInv, OtaTypeOK, Request, RequestReads, RequestSets
<1>3. OtaTypeOK'
  BY <1>1 DEF OtaInv, OtaTypeOK, Request, RequestReads, RequestSets, flags
<1> QED
  BY <1>2, <1>3 DEF OtaInv, Deserved

LEMMA OtaSteps == OtaInv /\ [OtaNext]_otavars => OtaInv'
<1> SUFFICES ASSUME OtaInv, [OtaNext]_otavars PROVE OtaInv'
  OBVIOUS
<1> USE DEF OtaInv, OtaTypeOK, Deserved, flags
<1>1. CASE CheckReads
  BY <1>1 DEF CheckReads
<1>2. CASE CheckSets
  BY <1>2 DEF CheckSets
<1>3. CASE TakeReads
  BY <1>3 DEF TakeReads
<1>4. CASE TakeClears
  BY <1>4 DEF TakeClears
<1>5. CASE TakeTakes
  BY <1>5 DEF TakeTakes
<1>6. CASE Writes
  <2>1. written' \in 0..2 /\ Deserved
    BY <1>6 DEF Writes
  <2> QED
    BY <1>6, <2>1 DEF Writes
<1>7. CASE Survives
  BY <1>7 DEF Survives
<1>8. ASSUME NEW r \in Requesters, Request(r) \/ RequestReads(r) \/ RequestSets(r)
      PROVE  OtaInv'
  BY <1>8, RequesterSteps
<1>9. CASE UNCHANGED otavars
  BY <1>9 DEF otavars
<1> QED
  BY <1>1, <1>2, <1>3, <1>4, <1>5, <1>6, <1>7, <1>8, <1>9 DEF OtaNext, Check, Service

LEMMA OtaHolds == OtaSpec => []OtaInv
<1> QED
  BY OtaStarts, OtaSteps, PTL DEF OtaSpec

\* The type invariant of the confirmation gate: ota_confirm_gate.cpp.
THEOREM OtaTyped == OtaSpec => []OtaTypeOK
<1>1. OtaInv => OtaTypeOK
  BY DEF OtaInv
<1> QED
  BY <1>1, OtaHolds, PTL

\* mark_ota_image_valid() is called only for an image that has survived its
\* first minute or was running when a restart was requested, whichever of the
\* core task, the requesters and the main task is where in the gate.
THEOREM OnlyEarned == OtaSpec => []Earned
<1>1. OtaInv => Earned
  BY DEF OtaInv, Earned, Deserved
<1> QED
  BY <1>1, OtaHolds, PTL
=============================================================================
