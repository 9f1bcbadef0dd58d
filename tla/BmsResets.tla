----------------------------- MODULE BmsResets -----------------------------
(***************************************************************************)
(* The two ways in which the emulator resets a BMS: by its power            *)
(* (BmsReset), or by diagnostic requests of the driver (UdsBattery).  They  *)
(* share no state, so an installation is followed with the one it uses.     *)
(***************************************************************************)
EXTENDS BmsReset, UdsBattery

VARIABLE by

rvars == <<vars, uvars, by>>

ResetsInit ==
  /\ by \in {"power", "diagnostics"} /\ ResetInit /\ UdsInit
  /\ by = "diagnostics" => contactor_control_enabled   \* which it does not read

ByPower(A) == by = "power" /\ A /\ UNCHANGED <<uvars, by>>
ByDiagnostics(A) == by = "diagnostics" /\ A /\ UNCHANGED <<vars, by>>

ResetsNext == ByPower(ResetNext) \/ ByDiagnostics(UdsNext)

\* The 10 ms sub-task keeps running, the seconds keep coming, and transmit_can()
\* of the driver runs in every pass of the core loop.
ResetsSpec ==
  /\ ResetsInit /\ [][ResetsNext]_rvars
  /\ WF_rvars(ByPower(BeginPass \/ SkipPass)) /\ WF_rvars(ByPower(handle_BMSpower))
  /\ SF_rvars(ByPower(Second)) /\ WF_rvars(ByDiagnostics(transmit_uds_can))

-----------------------------------------------------------------------------
(* Properties: those of BmsReset and UdsBattery, and *)

\* Neither reset leaves its states: the one of the power with its stamps and
\* counters, the one of the diagnostics with a deadline for the step it waits for
\* and never two requests on the bus.
ResetsInv == ResetTypeOK /\ UdsTypeOK /\ StepHasDeadline /\ OneRequest

\* A pack that reports balancing more or less permanently "cannot suppress the
\* reset indefinitely": with the other guards out of the way resets keep coming.
ResetNotSuppressed ==
  (by = "power" /\ <>[](~soc_low /\ ~equipment_stop_active)) => []<>(bms_reset_status # "IDLE")

\* The PID scan comes round, also with a BMS that never answers, once nobody queues
\* sequences or uses a tool, messages are complete and no PID is asked for again.
ScanGoesOn ==
  (/\ by = "diagnostics"
   /\ <>[][\/ transmit_uds_can
           \/ \E from \in Addresses :
                Stray(from) \/ (Answer(from) /\ scan'.next = NoPid)]_uvars)
    => []<>(scan.index = 0) /\ []<>(scan.index # 0)
=============================================================================
