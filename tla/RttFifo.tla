------------------------------- MODULE RttFifo -------------------------------
(***************************************************************************)
(* What an RTT channel promises: a bounded queue of bytes.  A writer       *)
(* offers some bytes that fit and appends them at once, a reader removes   *)
(* some of the oldest.  How many bytes of a call are offered at a time     *)
(* (all, a part, none) is the channel's mode and not visible here.         *)
(***************************************************************************)
EXTENDS Naturals, Sequences

CONSTANTS Byte,      \* the bytes that are sent
          Capacity   \* most bytes the channel holds

VARIABLES queue,     \* the unread bytes
          offered    \* bytes the writer is about to append

vars == <<queue, offered>>

Init == queue = <<>> /\ offered = <<>>

Offer ==
  /\ offered = <<>>
  /\ offered' \in Seq(Byte) /\ offered' # <<>>
  /\ Len(queue) + Len(offered') <= Capacity
  /\ UNCHANGED queue

Put ==
  /\ offered # <<>>
  /\ queue'   = queue \o offered
  /\ offered' = <<>>

Get ==
  /\ \E n \in 1 .. Len(queue) : queue' = SubSeq(queue, n + 1, Len(queue))
  /\ UNCHANGED offered

Next == Offer \/ Put \/ Get

Spec == Init /\ [][Next]_vars

=============================================================================
