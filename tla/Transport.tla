------------------------------ MODULE Transport ------------------------------
(***************************************************************************)
(* One video_sender and one video_receiver over UDP after the ConfigMsg    *)
(* handshake. The sender is module Encoder, the receiver module Decoder.   *)
(* The network may lose and reorder datagrams and ACKs: `net` and `acks`   *)
(* are sets of messages in flight and any of them may be dropped. The      *)
(* receiver still sees duplicate datagrams and the sender duplicate ACKs:  *)
(* a retransmission whose original also arrives. The sender's clock       *)
(* advances in ticks up to MaxTime.                                        *)
(***************************************************************************)
EXTENDS Naturals, Sequences, FiniteSets, TLC

CONSTANTS MaxFrames, MaxFragCnt, MaxNumRtx, MaxUnackedUs, NoRtt, LazyLevel,
          MaxTime       \* last value of the clock

\* The receiver runs with --lazy 2 (NO_DECODE_DISPLAY): no worker thread.
\* The worker and its hand-off are checked in module ReceiverPipeline.
ASSUME LazyLevel = 2

VARIABLES frame_id, send_buf, unacked, ewma_rtt, out_active, tx_fault, sends,
          abandoned,
          net, now,
          next_frame, frame_buf, rx_pc, rx_fault, shared_queue, local_queue,
          worker, decoded, acks

E == INSTANCE Encoder
D == INSTANCE Decoder

sender_vars == <<frame_id, send_buf, unacked, ewma_rtt, out_active, tx_fault, sends,
                abandoned>>
receiver_vars == <<next_frame, frame_buf, rx_pc, rx_fault, shared_queue,
                   local_queue, worker, decoded>>
vars == <<sender_vars, receiver_vars, net, acks, now>>

----------------------------------------------------------------------------
Init == E!Init /\ D!Init /\ now = 0

\* Sender callbacks, run by Poller::poll one at a time.
FrameTimer == E!compress_frame /\ UNCHANGED <<receiver_vars, acks>>

SocketWritable == E!send_datagrams /\ UNCHANGED <<receiver_vars, acks>>

\* The In callback's loop handles each ACK that arrived in turn.
SocketReadable ==
    \E a \in acks :
        /\ acks' = acks \ {a}
        /\ E!handle_ack(a)
        /\ UNCHANGED receiver_vars

\* The receiver's blocking recv() returns a datagram from the network.
Receive ==
    \E d \in net :
        /\ net' = net \ {d}
        /\ D!receive(d)
        /\ UNCHANGED <<sender_vars, now>>

ConsumeNext == D!consume_next_frame /\ UNCHANGED <<sender_vars, net, now>>
ConsumeDone == D!loop_done /\ UNCHANGED <<sender_vars, net, now>>


\* The network drops a datagram or an ACK.
LoseDatagram ==
    \E d \in net : net' = net \ {d} /\ UNCHANGED <<sender_vars, receiver_vars, acks, now>>
LoseAck ==
    \E a \in acks : acks' = acks \ {a} /\ UNCHANGED <<sender_vars, receiver_vars, net, now>>

Tick ==
    /\ now < MaxTime
    /\ now' = now + 1
    /\ UNCHANGED <<sender_vars, receiver_vars, net, acks>>

Next ==
    \/ FrameTimer \/ SocketWritable \/ SocketReadable
    \/ Receive \/ ConsumeNext \/ ConsumeDone
    \/ LoseDatagram \/ LoseAck \/ Tick

Spec == Init /\ [][Next]_vars

----------------------------------------------------------------------------
TypeOK ==
    /\ frame_id \in 0..MaxFrames
    /\ send_buf \in Seq(E!SenderDatagrams)
    /\ DOMAIN unacked \subseteq E!SeqNums
    /\ \A s \in DOMAIN unacked : unacked[s] \in E!SenderDatagrams
    /\ ewma_rtt \in {NoRtt} \cup 0..MaxTime
    /\ out_active \in BOOLEAN /\ tx_fault \in BOOLEAN
    /\ sends \in [E!SeqNums -> Nat]
    /\ abandoned \in 0..MaxFrames
    /\ now \in 0..MaxTime
    /\ next_frame \in 0..MaxFrames
    /\ DOMAIN frame_buf \subseteq D!FrameIds
    /\ \A i \in DOMAIN frame_buf : frame_buf[i] \in D!Frames
    /\ rx_pc \in {"recv", "loop"} /\ rx_fault \in BOOLEAN
    /\ shared_queue \in Seq(D!QueuedFrames)
    /\ local_queue \in Seq(D!QueuedFrames)
    /\ worker \in {"check", "sleep", "decode", "off"}
    /\ decoded \in Seq(D!QueuedFrames)

\* Frame::validate_datagram never throws: every datagram of a frame id
\* carries the same type and frag_cnt, even across forced key frames,
\* retransmissions and duplicates.
FrameHeadersAgree == ~rx_fault

\* add_unacked never throws "datagram already exists in unacked": a first
\* transmission is never of a SeqNum that is already unacked.
UnackedKeysFresh == ~tx_fault

\* The sender implements SenderTransmission: the Out callback puts on the
\* wire only fragments of frames compress_frame has produced, each at most
\* 1 + MAX_NUM_RTX times, and never one of a frame that an encode_frame
\* give-up abandoned. The backward sweeps of later ACKs and the datagrams
\* still in send_buf_ at the give-up are where this could fail.
ST == INSTANCE SenderTransmission WITH SeqNums <- E!SeqNums, produced <- frame_id

ImplementsSenderTransmission == ST!Spec

=============================================================================
