------------------------------- MODULE Formats -------------------------------
(***************************************************************************)
(* The two ways data is put into a form for the host: packets (Encoding)   *)
(* and formatted text (Printf).  They share no state.                      *)
(***************************************************************************)
EXTENDS Encoding, Printf

CONSTANT Once     \* bound: only one packet or text

FormatsInit == EncodeInit /\ PrintInit

\* Nothing was recorded or printed yet.
Fresh == EncodeInit /\ printing = "idle" /\ full = <<>>

FormatsNext ==
  \/ /\ Once => Fresh
     /\ \/ \E r \in PacketRecord : RecordEvent(r) /\ UNCHANGED printVars
        \/ \E f \in Format :
             (SEGGER_RTT_printf(f) \/ SEGGER_SYSVIEW_PrintfTarget(f)) /\ UNCHANGED rec
  \/ PrintStep /\ UNCHANGED rec

FormatsSpec == FormatsInit /\ [][FormatsNext]_<<printVars, rec>>

=============================================================================
