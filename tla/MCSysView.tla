------------------------------ MODULE MCSysView ------------------------------
(* Model-checking instance of SysView. *)
EXTENDS SysView

CONSTANTS task0, isr0, task1, A, B, idle

MCCoreOf == [c \in Ctx |-> IF c = task1 THEN 1 ELSE 0]
MCSizeOf == [k \in Packet |-> IF k = "SYNC" THEN 2 ELSE 1]

=============================================================================
