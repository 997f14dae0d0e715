------------------------------- MODULE Encoder -------------------------------
(***************************************************************************)
(* The sender: class Encoder (src/src/app/encoder.cc) together with the    *)
(* three socket and timer callbacks of video_sender.cc that drive it.      *)
(*                                                                         *)
(* The codec is abstracted to what the transport sees of its output: a     *)
(* frame of 1..MaxFragCnt fragments (the byte split is module Packetizer), *)
(* KEY when it is the first frame or a key frame was forced, else NONKEY   *)
(* (the encoder runs with kf_mode = VPX_KF_DISABLED). Payload bytes and    *)
(* the statistics are left out. Time is the integer clock `now`.           *)
(***************************************************************************)
EXTENDS Naturals, Sequences, SequencesExt, FiniteSets, TLC

CONSTANTS MaxFrames,     \* frames the fps timer produces in a behaviour
          MaxFragCnt,    \* most fragments one encoded frame is cut into
          MaxNumRtx,     \* Encoder::MAX_NUM_RTX
          MaxUnackedUs,  \* Encoder::MAX_UNACKED_US, in ticks of `now`
          NoRtt          \* model value: ewma_rtt_us_ is nullopt

ASSUME /\ MaxFrames \in Nat \ {0}
       /\ MaxFragCnt \in Nat \ {0}
       /\ MaxNumRtx \in Nat
       /\ MaxUnackedUs \in Nat

VARIABLES frame_id,    \* Encoder::frame_id_
          send_buf,    \* Encoder::send_buf_ (deque, front = index 1)
          unacked,     \* Encoder::unacked_ : SeqNum -> Datagram
          ewma_rtt,    \* Encoder::ewma_rtt_us_, as the floor of the double
          out_active,  \* the Poller::Out interest of udp_sock is active
          tx_fault,    \* add_unacked threw "datagram already exists"
          sends,       \* history: transmissions of each SeqNum so far
          abandoned,   \* history: the frame of the last give-up (0 if none)
          net,         \* datagrams in flight from sender to receiver
          now          \* timestamp_us()

FrameIds == 0..(MaxFrames - 1)
SeqNums == FrameIds \X (0..(MaxFragCnt - 1))
FrameTypes == {"KEY", "NONKEY"}
Times == Nat

\* A datagram as the sender keeps it (protocol.hh struct Datagram); the
\* spec's data model bounds num_rtx by MAX_NUM_RTX.
SenderDatagrams ==
    [frame_id : FrameIds, frame_type : FrameTypes, frag_id : 0..(MaxFragCnt - 1),
     frag_cnt : 1..MaxFragCnt, send_ts : Times, num_rtx : 0..MaxNumRtx,
     last_send_ts : Times]

\* What serialize_to_string puts on the wire: num_rtx and last_send_ts are
\* not serialised (payload bytes are abstracted away).
Wire(d) == [frame_id |-> d.frame_id, frame_type |-> d.frame_type,
            frag_id |-> d.frag_id, frag_cnt |-> d.frag_cnt, send_ts |-> d.send_ts]

SeqNum(d) == <<d.frame_id, d.frag_id>>

\* std::pair ordering of SeqNum, the key order of std::map unacked_.
SeqLess(a, b) == a[1] < b[1] \/ (a[1] = b[1] /\ a[2] < b[2])

NoEntries == [s \in {} |-> 0]

\* ewma_rtt_us_ = ALPHA * rtt + (1 - ALPHA) * ewma lies between the sample
\* and the previous value; its floor (all the `>` test against an integer
\* needs) is any integer between the two floors.
RttUpdate(sample) ==
    IF ewma_rtt = NoRtt THEN {sample}
    ELSE IF sample <= ewma_rtt THEN sample..ewma_rtt ELSE ewma_rtt..sample

sender_vars == <<frame_id, send_buf, unacked, ewma_rtt, out_active, tx_fault, sends,
                abandoned>>

----------------------------------------------------------------------------
Init ==
    /\ frame_id = 0
    /\ send_buf = <<>>
    /\ unacked = NoEntries
    /\ ewma_rtt = NoRtt
    \* register_event(udp_sock, Poller::Out, ...) leaves the Out flag active
    /\ out_active = TRUE
    /\ tx_fault = FALSE
    /\ sends = [s \in SeqNums |-> 0]
    /\ abandoned = 0
    /\ net = {}

\* The smallest key of unacked_ (unacked_.cbegin()).
FirstUnacked == CHOOSE s \in DOMAIN unacked :
                    \A t \in DOMAIN unacked : s = t \/ SeqLess(s, t)

\* encode_frame: give up on the backlog once the first unacked datagram was
\* first sent more than MAX_UNACKED_US ago.
GiveUp == /\ DOMAIN unacked # {}
          /\ now - unacked[FirstUnacked].send_ts > MaxUnackedUs

\* Mutant: frame_id_ reset to 0 with the rest of the transport state when
\* the backlog is given up.
NextFrameIdResetOnGiveUp == IF GiveUp THEN 0 ELSE frame_id + 1

\* frame_id_++ at the end of compress_frame.
NextFrameId == frame_id + 1

\* Mutant: the give-up clears unacked_ but leaves send_buf_ as it is.
KeptOnGiveUp(buf) == buf

\* encode_frame's clean-up of send_buf_ when it gives up.
ClearedOnGiveUp(buf) == IF GiveUp THEN <<>> ELSE buf

\* The codec's frame type: the first frame of a VP9 stream is a key frame,
\* VPX_EFLAG_FORCE_KF forces one, and kf_mode = VPX_KF_DISABLED keeps the
\* encoder from placing any other.
EncodedType == IF GiveUp \/ frame_id = 0 THEN "KEY" ELSE "NONKEY"

\* Datagram(frame_id, frame_type, frag_id, frag_cnt, payload): send_ts,
\* num_rtx and last_send_ts keep their default 0.
NewDatagram(fid, type, g, n) ==
    [frame_id |-> fid, frame_type |-> type, frag_id |-> g, frag_cnt |-> n,
     send_ts |-> 0, num_rtx |-> 0, last_send_ts |-> 0]

\* The fps timer callback: compress_frame (encode_frame, which clears
\* send_buf and unacked when it gives up; packetize_encoded_frame, which
\* appends the n fragments; frame_id_++), then activate Out since send_buf
\* is not empty.
compress_frame ==
    /\ ~tx_fault
    /\ frame_id < MaxFrames
    /\ \E n \in 1..MaxFragCnt :
         LET frags == [i \in 1..n |-> NewDatagram(frame_id, EncodedType, i - 1, n)]
         IN /\ send_buf' = ClearedOnGiveUp(send_buf) \o frags
            /\ unacked' = IF GiveUp THEN NoEntries ELSE unacked
    /\ frame_id' = NextFrameId
    /\ out_active' = TRUE
    /\ abandoned' = IF GiveUp THEN frame_id ELSE abandoned
    /\ UNCHANGED <<ewma_rtt, tx_fault, sends, net, now>>

\* Encoder::add_unacked for the first transmissions of one Out callback:
\* unacked_.emplace fails, and add_unacked throws, when the key is already
\* in unacked_ or was added earlier in the same callback.
AddUnackedFails(keys, n) == keys \cap DOMAIN unacked # {} \/ Cardinality(keys) < n

\* The entry add_unacked stores: the datagram with last_send_ts = send_ts.
UnackedEntry(d) == [d EXCEPT !.last_send_ts = d.send_ts]

\* The Out callback: send from the front of send_buf until EWOULDBLOCK
\* (after k datagrams) or until it is empty. Each sent datagram is stamped
\* with now; a first transmission (num_rtx = 0) moves into unacked
\* (add_unacked, which throws on an existing key). On EWOULDBLOCK the
\* front's send_ts is reset to 0. Out is deactivated once send_buf is empty.
send_datagrams ==
    /\ ~tx_fault
    /\ out_active
    /\ \E k \in 0..Len(send_buf) :
         LET sent == [i \in 1..k |-> [send_buf[i] EXCEPT !.send_ts = now]]
             firsts == {i \in 1..k : sent[i].num_rtx = 0}
             added == {SeqNum(sent[i]) : i \in firsts}
             entry(s) == UnackedEntry(sent[CHOOSE j \in firsts : SeqNum(sent[j]) = s])
             rest == SubSeq(send_buf, k + 1, Len(send_buf))
         IN /\ net' = net \cup {Wire(sent[i]) : i \in 1..k}
            /\ tx_fault' = AddUnackedFails(added, Cardinality(firsts))
            /\ unacked' = [s \in DOMAIN unacked \cup added |->
                             IF s \in added THEN entry(s) ELSE unacked[s]]
            /\ send_buf' = IF rest = <<>> THEN rest
                           ELSE [rest EXCEPT ![1].send_ts = 0]
            /\ out_active' = (rest # <<>>)
            /\ sends' = [s \in SeqNums |->
                           sends[s] + Cardinality({i \in 1..k : SeqNum(sent[i]) = s})]
    /\ UNCHANGED <<frame_id, ewma_rtt, abandoned, now>>

\* Mutant: the sweep's cap test off by one (num_rtx <= MAX_NUM_RTX).
RtxDueInclusive(s, k, rtt) ==
    /\ SeqLess(s, k)
    /\ unacked[s].num_rtx <= MaxNumRtx
    /\ unacked[s].num_rtx = 0 \/ now - unacked[s].last_send_ts > rtt

\* The backward sweep's test for an entry s below the acked key k: skip it
\* after MAX_NUM_RTX retransmissions, else retransmit it if it never was or
\* if it was last sent more than ewma_rtt_us_ ago.
RtxDue(s, k, rtt) ==
    /\ SeqLess(s, k)
    /\ unacked[s].num_rtx < MaxNumRtx
    /\ unacked[s].num_rtx = 0 \/ now - unacked[s].last_send_ts > rtt

\* num_rtx++ and last_send_ts = curr_ts on an entry being retransmitted.
Retransmitted(d) == [d EXCEPT !.num_rtx = @ + 1, !.last_send_ts = now]

\* Mutant: the copy is taken before num_rtx++ and last_send_ts = curr_ts.
RtxCopiesBeforeBump(due, entries) ==
    LET order == SetToSortSeq(due, SeqLess)
    IN [i \in 1..Len(order) |-> unacked[order[i]]]

\* send_buf_.emplace_front(datagram) for each due entry, largest key first:
\* the copies (of the updated entries) end up in ascending key order.
RtxCopies(due, entries) ==
    LET order == SetToSortSeq(due, SeqLess)
    IN [i \in 1..Len(order) |-> entries[order[i]]]

\* The In callback activates Out when send_buf is not empty after handle_ack.
ArmOut(buf) == out_active \/ buf # <<>>

\* The In callback for one AckMsg a: handle_ack, then ArmOut. handle_ack
\* first takes the RTT sample now - a.send_ts; a stale ACK stops there.
\* Otherwise every due entry below the acked key is updated and copied to
\* the front of send_buf, and the acked entry is erased.
handle_ack(a) ==
    /\ ~tx_fault
    /\ \E rtt \in RttUpdate(now - a.send_ts) :
         LET k == <<a.frame_id, a.frag_id>>
             due == {s \in DOMAIN unacked : RtxDue(s, k, rtt)}
             bumped == [s \in DOMAIN unacked |->
                          IF s \in due THEN Retransmitted(unacked[s]) ELSE unacked[s]]
         IN /\ ewma_rtt' = rtt
            /\ IF k \in DOMAIN unacked
               THEN /\ send_buf' = RtxCopies(due, bumped) \o send_buf
                    /\ unacked' = [s \in DOMAIN unacked \ {k} |-> bumped[s]]
               ELSE UNCHANGED <<send_buf, unacked>>
            /\ out_active' = ArmOut(send_buf')
    /\ UNCHANGED <<frame_id, tx_fault, sends, abandoned, net, now>>
=============================================================================
