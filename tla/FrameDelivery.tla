---------------------------- MODULE FrameDelivery ----------------------------
(***************************************************************************)
(* What the receiver promises its decoder, whatever the network does: the  *)
(* frames handed to vpx_codec_decode are frames the sender produced, in    *)
(* increasing id order, each decoded once. The first is a key frame, and   *)
(* every later one is a key frame or the frame right after the previous    *)
(* one, so each non-key frame's reference has been decoded. Frames may be  *)
(* skipped (lost ones), and nothing says that any frame is delivered.      *)
(*                                                                         *)
(* The sender's frame plan (type of every frame id) and the frames it has  *)
(* produced are the environment: they change only by Produce.              *)
(***************************************************************************)
EXTENDS Naturals, Sequences, SequencesExt

CONSTANTS FrameIds,    \* 0..MaxFrames-1
          FrameTypes   \* {"KEY", "NONKEY"}

VARIABLES plan,        \* frame id -> [frame_type, frag_cnt] chosen by the sender
          produced,    \* frame ids the sender has encoded
          delivered    \* ids of the frames handed to the decoder, in order

vars == <<plan, produced, delivered>>

\* Frame f may follow what was delivered so far.
MayFollow(f) ==
    IF delivered = <<>>
    THEN plan[f].frame_type = "KEY"
    ELSE /\ f > Last(delivered)
         /\ plan[f].frame_type = "KEY" \/ f = Last(delivered) + 1

Init ==
    /\ plan \in [FrameIds -> [frame_type : FrameTypes, frag_cnt : Nat]]
    /\ produced = {}
    /\ delivered = <<>>

Produce ==
    /\ produced' \in {produced \cup {f} : f \in FrameIds \ produced}
    /\ UNCHANGED <<plan, delivered>>

Deliver ==
    \E f \in produced :
        /\ MayFollow(f)
        /\ delivered' = Append(delivered, f)
        /\ UNCHANGED <<plan, produced>>

Next == Produce \/ Deliver

Spec == Init /\ [][Next]_vars
=============================================================================
