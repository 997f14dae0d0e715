--------------------------- MODULE ReceiverPipeline ---------------------------
(***************************************************************************)
(* The receiver (module Decoder: main thread and decode worker) fed by a   *)
(* sender it cannot distinguish from the real one: the sender encodes      *)
(* frames 0..MaxFrames-1, frame 0 a key frame and every later one key or   *)
(* not (a forced key frame), each cut into 1..MaxFragCnt fragments. That   *)
(* frame plan is chosen in Init and fixed. The network delivers any        *)
(* fragment of a frame the sender has produced, in any order, any number   *)
(* of times (retransmissions, duplicates) or never (loss).                 *)
(***************************************************************************)
EXTENDS Naturals, Sequences, FiniteSets, TLC

CONSTANTS MaxFrames, MaxFragCnt, LazyLevel

VARIABLES plan,   \* frame id -> [frame_type, frag_cnt] as the sender encoded it
          produced, \* frames the sender has encoded so far
          next_frame, frame_buf, rx_pc, rx_fault, shared_queue, local_queue,
          worker, decoded, acks

D == INSTANCE Decoder

receiver_vars == <<next_frame, frame_buf, rx_pc, rx_fault, shared_queue,
                   local_queue, worker, decoded>>
vars == <<plan, produced, receiver_vars, acks>>

\* The datagrams of the frames encoded so far (send_ts is not looked at by
\* the receiver beyond echoing it, so every copy carries 0).
Sent == {[frame_id |-> i, frame_type |-> plan[i].frame_type,
          frag_id |-> g, frag_cnt |-> plan[i].frag_cnt, send_ts |-> 0] :
           i \in produced, g \in 0..(MaxFragCnt - 1)}
SentDatagrams == {d \in Sent : d.frag_id < d.frag_cnt}

----------------------------------------------------------------------------
Init ==
    /\ plan \in [D!FrameIds -> [frame_type : D!FrameTypes, frag_cnt : 1..MaxFragCnt]]
    /\ plan[0].frame_type = "KEY"
    /\ produced = {}
    /\ D!Init

\* The sender encodes its next frame (frames are produced in id order).
Encode ==
    /\ Cardinality(produced) < MaxFrames
    /\ produced' = produced \cup {Cardinality(produced)}
    /\ UNCHANGED <<plan, receiver_vars, acks>>

\* The receiver's recv() returns some fragment of a produced frame; `acks`
\* collects the ACKs it sent (the sender side is not modelled here).
Receive ==
    \E d \in SentDatagrams :
        /\ D!receive(d)
        /\ UNCHANGED <<plan, produced>>

ConsumeNext == D!consume_next_frame /\ UNCHANGED <<plan, produced>>
ConsumeDone == D!loop_done /\ UNCHANGED <<plan, produced>>
WorkerWait == D!worker_wait /\ UNCHANGED <<plan, produced>>
WorkerWake == D!worker_spurious_wake /\ UNCHANGED <<plan, produced>>
WorkerDrain == D!worker_drain /\ UNCHANGED <<plan, produced>>
WorkerDecode == D!worker_decode /\ UNCHANGED <<plan, produced>>

Next ==
    \/ Encode \/ Receive \/ ConsumeNext \/ ConsumeDone
    \/ WorkerWait \/ WorkerWake \/ WorkerDrain \/ WorkerDecode

\* Both receiver threads are scheduled by the OS: a thread that can run
\* eventually runs. Delivery gets no fairness (datagrams may be lost).
Fairness ==
    /\ WF_vars(ConsumeNext) /\ WF_vars(ConsumeDone)
    /\ WF_vars(WorkerWait) /\ WF_vars(WorkerDrain) /\ WF_vars(WorkerDecode)

Spec == Init /\ [][Next]_vars
FairSpec == Spec /\ Fairness

----------------------------------------------------------------------------
TypeOK ==
    /\ produced \subseteq D!FrameIds
    /\ next_frame \in 0..MaxFrames
    /\ DOMAIN frame_buf \subseteq D!FrameIds
    /\ \A i \in DOMAIN frame_buf : frame_buf[i] \in D!Frames
    /\ rx_pc \in {"recv", "loop"} /\ rx_fault \in BOOLEAN
    /\ shared_queue \in Seq(D!QueuedFrames)
    /\ local_queue \in Seq(D!QueuedFrames)
    /\ worker \in {"check", "sleep", "decode", "off"}
    \* each frame is decoded at most once: no more than MaxFrames in all
    /\ decoded \in Seq(D!QueuedFrames) /\ Len(decoded) <= MaxFrames

\* The refinement mapping: the abstract decoder's input is the worker's
\* history of decoded frame ids.
DecodedIds == [i \in 1..Len(decoded) |-> decoded[i].id]

FD == INSTANCE FrameDelivery WITH FrameIds <- D!FrameIds, FrameTypes <- D!FrameTypes,
                                  delivered <- DecodedIds

\* The receiver implements FrameDelivery: the worker decodes produced
\* frames in increasing id order, each once, starting with a key frame,
\* and every frame is a key frame or follows the one decoded just before.
\* This needs next_frame_complete to skip ahead only to complete key
\* frames, clean_up_to to drop every frame below the new next_frame_ (so
\* no frame is consumed twice or after a later one), consume_next_frame to
\* hand frames over in id order, and the worker to drain shared_queue_ in
\* FIFO order.
ImplementsFrameDelivery == FD!Spec

\* Every frame handed to the worker is eventually decoded: no wakeup is lost
\* between consume_next_frame's cv_.notify_one and the worker's cv_.wait.
HandedOffFrameDecoded ==
    \A id \in D!FrameIds :
        (\E i \in 1..Len(shared_queue) : shared_queue[i].id = id)
            ~> (\E i \in 1..Len(decoded) : decoded[i].id = id)

\* A key frame the receiver holds complete is never waited behind forever:
\* without any further datagram, next_frame eventually moves past it
\* (consumed in order, or skipped to by next_frame_complete).
KeyFrameUnblocks ==
    \A id \in D!FrameIds :
        (id \in DOMAIN frame_buf /\ frame_buf[id].frame_type = "KEY" /\ D!Complete(id))
            ~> (next_frame > id)
=============================================================================
