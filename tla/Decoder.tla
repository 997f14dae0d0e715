------------------------------- MODULE Decoder -------------------------------
(***************************************************************************)
(* The receiver: classes Frame and Decoder (src/src/app/decoder.cc) and    *)
(* the main loop of video_receiver.cc, plus the decode worker thread.      *)
(*                                                                         *)
(* Main thread: receive a datagram, send its ACK, add_datagram, then       *)
(*   while (next_frame_complete()) consume_next_frame();                   *)
(* Worker thread: wait on cv_ until shared_queue_ is not empty, move it    *)
(*   into a local queue under mtx_, then decode the local frames in order. *)
(* A Frame keeps its header and the set of fragment ids it holds (payload  *)
(* bytes and frame_size_ are abstracted away). The codec and display are   *)
(* left out: decoding a frame appends it to the history `decoded`.         *)
(***************************************************************************)
EXTENDS Naturals, Sequences, SequencesExt, FiniteSets, TLC

CONSTANTS MaxFrames, MaxFragCnt,
          LazyLevel    \* Decoder::LazyLevel: 0 DECODE_DISPLAY, 1 DECODE_ONLY,
                       \* 2 NO_DECODE_DISPLAY (the constructor rejects others)

ASSUME LazyLevel \in 0..2

DecodeOnly == 1

VARIABLES next_frame,    \* Decoder::next_frame_
          frame_buf,     \* Decoder::frame_buf_ : frame id -> Frame
          rx_pc,         \* main thread: "recv" or in the consume "loop"
          rx_fault,      \* an exception ended the receiver's main thread
          shared_queue,  \* Decoder::shared_queue_ (guarded by mtx_)
          local_queue,   \* worker_main's local_queue
          worker,        \* worker thread: "check" the cv_ predicate under
                         \* mtx_, "sleep" in cv_.wait, "decode", or "off"
          decoded,       \* history: frames the worker decoded, in order
          acks           \* AckMsgs in flight from receiver to sender

FrameIds == 0..(MaxFrames - 1)
FrameTypes == {"KEY", "NONKEY"}

\* A Frame: frame_type, frag_cnt = frags_.size(), and the fragment ids
\* whose slot in frags_ holds a datagram.
Frames == [frame_type : FrameTypes, frag_cnt : 1..MaxFragCnt,
           frags : SUBSET (0..(MaxFragCnt - 1))]

\* What the worker gets through shared_queue_ (a moved Frame, reduced to
\* the id and type the decode order depends on).
QueuedFrames == [id : FrameIds, frame_type : FrameTypes]

\* AckMsg(datagram): echoes frame_id, frag_id and send_ts.
AckOf(d) == [frame_id |-> d.frame_id, frag_id |-> d.frag_id, send_ts |-> d.send_ts]

\* The worker thread reaches its loop: the constructor spawns it only if
\* lazy_level <= DECODE_ONLY, and worker_main then sets up the VP9 context
\* (and the display under DECODE_DISPLAY) before the loop.
SpawnsWorker == LazyLevel <= DecodeOnly

receiver_vars == <<next_frame, frame_buf, rx_pc, rx_fault, shared_queue,
                   local_queue, worker, decoded>>

----------------------------------------------------------------------------
Init ==
    /\ next_frame = 0
    /\ frame_buf = [i \in {} |-> 0]
    /\ rx_pc = "recv"
    /\ rx_fault = FALSE
    /\ shared_queue = <<>>
    /\ local_queue = <<>>
    /\ worker = IF SpawnsWorker THEN "check" ELSE "off"
    /\ decoded = <<>>
    /\ acks = {}

\* Frame::validate_datagram
Compatible(fr, d) ==
    /\ d.frame_type = fr.frame_type
    /\ d.frag_id < fr.frag_cnt
    /\ d.frag_cnt = fr.frag_cnt

\* Frame::insert_frag after validation: fill the slot of fragment g unless
\* it already holds a datagram (null_frags_ then counts one less).
insert_frag(fr, g) == [fr EXCEPT !.frags = @ \cup {g}]

\* Decoder::add_datagram: drop datagrams of frames before next_frame_,
\* create the Frame from the first datagram of a frame, then insert_frag,
\* which throws on a datagram that disagrees with the Frame's header and
\* ignores a fragment it already holds.
add_datagram(d) ==
    IF d.frame_id < next_frame
    THEN UNCHANGED <<frame_buf, rx_fault>>
    ELSE LET fr == IF d.frame_id \in DOMAIN frame_buf
                   THEN frame_buf[d.frame_id]
                   ELSE [frame_type |-> d.frame_type, frag_cnt |-> d.frag_cnt,
                         frags |-> {}]
         IN IF Compatible(fr, d)
            THEN /\ frame_buf' = (d.frame_id :> insert_frag(fr, d.frag_id))
                                   @@ frame_buf
                 /\ UNCHANGED rx_fault
            ELSE /\ rx_fault' = TRUE
                 /\ UNCHANGED frame_buf

\* One iteration of the main loop up to the consume loop: parse the
\* datagram d, send AckMsg(d) (which echoes frame_id, frag_id and
\* send_ts), add_datagram(d).
receive(d) ==
    /\ ~rx_fault
    /\ rx_pc = "recv"
    /\ acks' = acks \cup {AckOf(d)}
    /\ add_datagram(d)
    /\ rx_pc' = "loop"
    /\ UNCHANGED <<next_frame, shared_queue, local_queue, worker, decoded>>

\* Frame::complete: null_frags_ == 0
Complete(id) ==
    /\ id \in DOMAIN frame_buf
    /\ frame_buf[id].frag_cnt - Cardinality(frame_buf[id].frags) = 0

\* Mutant: the reverse scan accepts any complete frame, key or not.
KeyTargetsAnyType == {id \in DOMAIN frame_buf : Complete(id)}

\* Complete key frames next_frame_complete may skip ahead to.
KeyTargets == {id \in DOMAIN frame_buf :
                 frame_buf[id].frame_type = "KEY" /\ Complete(id)}

\* Mutant: next_frame_complete without the skip-ahead scan.
next_frame_complete_no_skip == Complete(next_frame)

\* next_frame_complete() returns true
next_frame_complete == Complete(next_frame) \/ KeyTargets # {}

\* The frame consume_next_frame then takes: next_frame_ itself, or the
\* highest complete key frame found by the reverse scan of frame_buf_,
\* after advance_next_frame moved next_frame_ to it.
ConsumeTarget ==
    IF Complete(next_frame) THEN next_frame ELSE Max(KeyTargets)

\* Mutant: clean_up_to keeps the frame just below the frontier.
CleanUpToKeepsLast(frontier) ==
    [i \in {j \in DOMAIN frame_buf : j >= frontier - 1} |-> frame_buf[i]]

\* clean_up_to(frontier): erase every Frame below frontier.
CleanUpTo(frontier) ==
    [i \in {j \in DOMAIN frame_buf : j >= frontier} |-> frame_buf[i]]

\* Mutant: cv_.notify_one() left out.
NotifyDropped(w) == w

\* cv_.notify_one(): wakes the worker if it sleeps in cv_.wait.
Notify(w) == IF w = "sleep" THEN "check" ELSE w

\* next_frame_complete() returned true, then consume_next_frame(): below
\* DECODE_ONLY the frame moves onto shared_queue_ under mtx_ and cv_ is
\* notified (waking a sleeping worker); otherwise only the log line is
\* written. Then advance_next_frame(): next_frame_ + 1 and clean-up.
consume_next_frame ==
    /\ ~rx_fault
    /\ rx_pc = "loop"
    /\ next_frame_complete
    /\ LET id == ConsumeTarget
       IN /\ next_frame' = id + 1
          /\ frame_buf' = CleanUpTo(id + 1)
          /\ IF LazyLevel <= DecodeOnly
             THEN /\ shared_queue' = Append(shared_queue,
                          [id |-> id, frame_type |-> frame_buf[id].frame_type])
                  /\ worker' = Notify(worker)
             ELSE UNCHANGED <<shared_queue, worker>>
    /\ UNCHANGED <<rx_pc, rx_fault, local_queue, decoded, acks>>

\* next_frame_complete() returned false: back to the blocking recv().
loop_done ==
    /\ ~rx_fault
    /\ rx_pc = "loop"
    /\ ~next_frame_complete
    /\ rx_pc' = "recv"
    /\ UNCHANGED <<next_frame, frame_buf, rx_fault, shared_queue, local_queue,
                   worker, decoded, acks>>

----------------------------------------------------------------------------
(* The worker thread (worker_main).                                        *)

\* cv_.wait(lock, pred) with the predicate false: sleep, releasing mtx_.
worker_wait ==
    /\ worker = "check"
    /\ shared_queue = <<>>
    /\ worker' = "sleep"
    /\ UNCHANGED <<next_frame, frame_buf, rx_pc, rx_fault, shared_queue,
                   local_queue, decoded, acks>>

\* A spurious wakeup of cv_.wait: re-check the predicate.
worker_spurious_wake ==
    /\ worker = "sleep"
    /\ worker' = "check"
    /\ UNCHANGED <<next_frame, frame_buf, rx_pc, rx_fault, shared_queue,
                   local_queue, decoded, acks>>

\* The predicate holds: move all of shared_queue_ into the (empty) local
\* queue under mtx_, then release it.
worker_drain ==
    /\ worker = "check"
    /\ shared_queue # <<>>
    /\ local_queue' = local_queue \o shared_queue
    /\ shared_queue' = <<>>
    /\ worker' = "decode"
    /\ UNCHANGED <<next_frame, frame_buf, rx_pc, rx_fault, decoded, acks>>

\* Mutant: local_queue.pop_front() left out.
PopFrontDropped(q) == q

\* local_queue.pop_front() after the frame is decoded.
PopFront(q) == Tail(q)

\* decode_frame (and the log line and display) for the front of the local
\* queue, then pop it; once it is empty go back to the top of the loop.
worker_decode ==
    /\ worker = "decode"
    /\ local_queue # <<>>
    /\ decoded' = Append(decoded, Head(local_queue))
    /\ local_queue' = PopFront(local_queue)
    /\ worker' = IF local_queue' = <<>> THEN "check" ELSE "decode"
    /\ UNCHANGED <<next_frame, frame_buf, rx_pc, rx_fault, shared_queue, acks>>
=============================================================================
