------------------------------- MODULE Poller -------------------------------
(***************************************************************************)
(* The sender's event loop: class Poller (src/src/util/poller.cc) and the  *)
(* four callbacks video_sender.cc registers on it. poll() snapshots the    *)
(* active interests, blocks in ::poll until one of them is ready, then     *)
(* runs the callback of every (fd, flag) that came back in revents, in an  *)
(* unspecified order (roster_ and active_events_ are unordered_maps).      *)
(* The encoder is reduced to what the loop depends on: the number of       *)
(* datagrams in send_buf. An ACK may put 0..MaxRtx retransmissions into    *)
(* it (the choice module Encoder makes exactly); a frame 1..MaxFragCnt     *)
(* datagrams. The kernel side is readiness: the fps and stats timers       *)
(* expire, ACKs arrive, the socket's send buffer fills and drains.         *)
(***************************************************************************)
EXTENDS Naturals, Sequences, FiniteSets, TLC

CONSTANTS MaxFrames,   \* frames the fps timer produces in a behaviour
          MaxFragCnt,  \* most datagrams in one frame
          MaxAcks,     \* messages that arrive on udp_sock in a behaviour
          MaxRtx       \* most retransmissions one ACK schedules

VARIABLES roster,     \* Poller::roster_: fd -> registered flags
          active,     \* Poller::active_events_: fd -> active flags
          nreg,       \* register_event calls main has made so far
          pending,    \* (fd, flag) pairs of this poll's revents not yet run
          buf,        \* Len(Encoder::send_buf_)
          writable,   \* udp_sock's send buffer has room for a datagram
          fps_due,    \* fps_timer has expired and not been read
          stats_due,  \* stats_timer has expired and not been read
          inbox,      \* messages queued on udp_sock: "ack" or "other"
          frames,     \* frames compressed so far
          arrived     \* messages that have arrived on udp_sock so far

vars == <<roster, active, nreg, pending, buf, writable, fps_due, stats_due,
          inbox, frames, arrived>>
env == <<writable, fps_due, stats_due, inbox, frames, arrived>>

Fds == {"fps_timer", "udp_sock", "stats_timer"}
Flags == {"In", "Out"}

\* The register_event calls of video_sender's main, in program order.
Registrations == << <<"fps_timer", "In">>, <<"udp_sock", "Out">>,
                    <<"udp_sock", "In">>, <<"stats_timer", "In">> >>

\* The kernel's readiness of each event.
Ready(fd, f) ==
    CASE fd = "fps_timer" -> fps_due
      [] fd = "stats_timer" -> stats_due
      [] f = "In" -> inbox # <<>>
      [] OTHER -> writable

----------------------------------------------------------------------------
Init ==
    /\ roster = [fd \in {} |-> {}]
    /\ active = [fd \in {} |-> {}]
    /\ nreg = 0
    /\ pending = {}
    /\ buf = 0
    /\ writable = TRUE
    /\ fps_due = FALSE
    /\ stats_due = FALSE
    /\ inbox = <<>>
    /\ frames = 0
    /\ arrived = 0

\* Poller::register_event(fd, flag, callback): a new fd gets the flag as
\* its only registered and active event; a known fd adds it to both (the
\* same event twice would throw).
register_event ==
    /\ nreg < Len(Registrations)
    /\ LET fd == Registrations[nreg + 1][1]
           f == Registrations[nreg + 1][2]
       IN IF fd \notin DOMAIN roster
          THEN /\ roster' = (fd :> {f}) @@ roster
               /\ active' = (fd :> {f}) @@ active
          ELSE /\ f \notin roster[fd]
               /\ roster' = [roster EXCEPT ![fd] = @ \cup {f}]
               /\ active' = [active EXCEPT ![fd] = @ \cup {f}]
    /\ nreg' = nreg + 1
    /\ UNCHANGED <<pending, buf, env>>

\* Mutant: the Out callback deactivates Out whatever is left in send_buf.
DeactivateAlways(a, n) == [a EXCEPT !["udp_sock"] = @ \ {"Out"}]

\* Poller::activate(udp_sock, Out) when n datagrams are buffered and n > 0.
ActivateIfBuffered(a, n) ==
    IF n > 0 THEN [a EXCEPT !["udp_sock"] = @ \cup {"Out"}] ELSE a

\* Poller::deactivate(udp_sock, Out) when send_buf is empty.
DeactivateIfEmpty(a, n) ==
    IF n = 0 THEN [a EXCEPT !["udp_sock"] = @ \ {"Out"}] ELSE a

\* Mutant: every pollfd asks for both POLLIN and POLLOUT.
RequestedAll(a) == {p \in Fds \X Flags : p[1] \in DOMAIN a}

\* The events poll() asks ::poll for: fds_to_poll, each fd with a non-zero
\* active_events_ mask and the flags in it.
Requested(a) == {p \in Fds \X Flags : p[1] \in DOMAIN a /\ p[2] \in a[p[1]]}

\* Poller::poll: once main is in its loop and no callback of the previous
\* round is left, ::poll(-1) returns when some active event is ready; the
\* events it reports are the round's callbacks.
poll ==
    /\ nreg = Len(Registrations)
    /\ pending = {}
    /\ LET revents == {p \in Requested(active) : Ready(p[1], p[2])}
       IN /\ revents # {}
          /\ pending' = revents
    /\ UNCHANGED <<roster, active, nreg, buf, env>>

\* Len(send_buf_) after encode_frame's give-up check: a give-up clears
\* send_buf_ (with unacked_, which this module does not track), so it may
\* happen in any state; otherwise send_buf_ is kept.
KeptAfterGiveUp(n, giveup) == IF giveup THEN 0 ELSE n

\* The fps timer callback: read the expirations; compress_frame may give
\* up (clearing send_buf), then packetizes a frame of n datagrams into
\* send_buf; Out is activated since send_buf is not empty.
on_fps_timer ==
    /\ <<"fps_timer", "In">> \in pending
    /\ pending' = pending \ {<<"fps_timer", "In">>}
    /\ \E n \in 1..MaxFragCnt, giveup \in BOOLEAN :
         LET len == KeptAfterGiveUp(buf, giveup) + n
         IN /\ buf' = len
            /\ active' = ActivateIfBuffered(active, len)
    /\ fps_due' = FALSE
    /\ frames' = frames + 1
    /\ UNCHANGED <<roster, nreg, writable, stats_due, inbox, arrived>>

\* The Out callback: send from the front of send_buf while the socket takes
\* datagrams (it took at least one if it was writable), stop at
\* EWOULDBLOCK, deactivate Out once send_buf is empty.
on_udp_out ==
    /\ <<"udp_sock", "Out">> \in pending
    /\ pending' = pending \ {<<"udp_sock", "Out">>}
    /\ \E k \in (IF writable /\ buf > 0 THEN 1 ELSE 0)..buf :
         /\ buf' = buf - k
         /\ writable' = (writable /\ k = buf)
         /\ active' = DeactivateIfEmpty(active, buf - k)
    /\ UNCHANGED <<roster, nreg, fps_due, stats_due, inbox, frames, arrived>>

\* The In callback: recv until EWOULDBLOCK; each ACK goes to handle_ack,
\* which may schedule retransmissions, after which Out is activated if
\* send_buf is not empty; the first message that is not an ACK makes the
\* callback return, leaving the rest queued.
on_udp_in ==
    /\ <<"udp_sock", "In">> \in pending
    /\ pending' = pending \ {<<"udp_sock", "In">>}
    /\ LET acks == IF \A i \in 1..Len(inbox) : inbox[i] = "ack"
                   THEN Len(inbox)
                   ELSE CHOOSE j \in 0..Len(inbox) :
                          inbox[j + 1] # "ack" /\ \A i \in 1..j : inbox[i] = "ack"
           taken == IF acks = Len(inbox) THEN acks ELSE acks + 1
       IN /\ inbox' = SubSeq(inbox, taken + 1, Len(inbox))
          /\ \E r \in 0..(MaxRtx * acks) :
               /\ buf' = buf + r
               /\ active' = IF acks > 0 THEN ActivateIfBuffered(active, buf + r)
                            ELSE active
    /\ UNCHANGED <<roster, nreg, writable, fps_due, stats_due, frames, arrived>>

\* The stats timer callback: read the expirations (never 0 after POLLIN on
\* the blocking timerfd) and print the statistics.
on_stats_timer ==
    /\ <<"stats_timer", "In">> \in pending
    /\ pending' = pending \ {<<"stats_timer", "In">>}
    /\ stats_due' = FALSE
    /\ UNCHANGED <<roster, active, nreg, buf, writable, fps_due, inbox, frames, arrived>>

----------------------------------------------------------------------------
(* The kernel.                                                             *)

FpsExpire ==
    /\ ~fps_due /\ frames < MaxFrames
    /\ fps_due' = TRUE
    /\ UNCHANGED <<roster, active, nreg, pending, buf, writable, stats_due, inbox,
                   frames, arrived>>

StatsExpire ==
    /\ ~stats_due
    /\ stats_due' = TRUE
    /\ UNCHANGED <<roster, active, nreg, pending, buf, writable, fps_due, inbox,
                   frames, arrived>>

\* An ACK, or another message (a duplicated ConfigMsg), arrives.
Arrive ==
    /\ arrived < MaxAcks
    /\ \E m \in {"ack", "other"} : inbox' = Append(inbox, m)
    /\ arrived' = arrived + 1
    /\ UNCHANGED <<roster, active, nreg, pending, buf, writable, fps_due, stats_due,
                   frames>>

\* The NIC drains the socket's send buffer.
Drain ==
    /\ ~writable
    /\ writable' = TRUE
    /\ UNCHANGED <<roster, active, nreg, pending, buf, fps_due, stats_due, inbox,
                   frames, arrived>>

Next ==
    \/ register_event \/ poll
    \/ on_fps_timer \/ on_udp_out \/ on_udp_in \/ on_stats_timer
    \/ FpsExpire \/ StatsExpire \/ Arrive \/ Drain

\* The sender's single thread keeps running (poll and every callback it
\* owes), and the NIC keeps draining the send buffer. Timers and ACKs get
\* no fairness: nothing below depends on more frames or ACKs arriving.
Fairness ==
    /\ WF_vars(register_event) /\ WF_vars(poll)
    /\ WF_vars(on_fps_timer) /\ WF_vars(on_udp_out) /\ WF_vars(on_udp_in)
    /\ WF_vars(on_stats_timer) /\ WF_vars(Drain)

Spec == Init /\ [][Next]_vars
FairSpec == Spec /\ Fairness

----------------------------------------------------------------------------
TypeOK ==
    /\ DOMAIN roster \subseteq Fds /\ DOMAIN active = DOMAIN roster
    /\ \A fd \in DOMAIN active : active[fd] \subseteq roster[fd]
    /\ nreg \in 0..Len(Registrations)
    \* every reported event has a callback in roster_ to run
    /\ \A p \in pending : p[1] \in DOMAIN roster /\ p[2] \in roster[p[1]]
    /\ buf \in Nat /\ writable \in BOOLEAN
    /\ fps_due \in BOOLEAN /\ stats_due \in BOOLEAN
    /\ inbox \in Seq({"ack", "other"})
    /\ frames \in 0..MaxFrames /\ arrived \in 0..MaxAcks

\* No datagram is left behind in send_buf: whatever the fps timer and the
\* ACKs put there, and however poll orders the callbacks, the Out callback
\* eventually sends it all (the activate/deactivate calls of the three
\* udp_sock-related callbacks keep Out active while anything is buffered).
SendBufDrains == (buf > 0) ~> (buf = 0)
=============================================================================
