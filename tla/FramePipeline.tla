---------------------------- MODULE FramePipeline ----------------------------
(***************************************************************************)
(* What the frame slots of a FrameAdmin are for: at most Depth frames are  *)
(* in flight, a frame is never in flight twice, frames leave in the order  *)
(* they entered, and each of them does leave.                              *)
(***************************************************************************)
EXTENDS Naturals, Sequences

CONSTANTS Depth, Frames

VARIABLE inflight

Init == inflight = <<>>

Enter(f) ==
  /\ Len(inflight) < Depth
  /\ \A k \in 1 .. Len(inflight) : inflight[k] # f
  /\ inflight' = Append(inflight, f)

Leave ==
  /\ inflight # <<>>
  /\ inflight' = Tail(inflight)

Next == Leave \/ \E f \in Frames : Enter(f)

Spec == Init /\ [][Next]_inflight /\ WF_inflight(Leave)

=============================================================================
