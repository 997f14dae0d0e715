------------------------------ MODULE Handshake ------------------------------
(***************************************************************************)
(* Session start-up (src/src/app/video_sender.cc, video_receiver.cc). The  *)
(* receiver connects its UDP socket to the sender's address and sends one  *)
(* ConfigMsg, then blocks in recv() for datagrams. The sender binds its    *)
(* port and blocks in recv_config_msg, which reads datagrams until one     *)
(* parses as a ConfigMsg. It then connects to that datagram's source,      *)
(* builds the Encoder and arms the fps timer with period                   *)
(* BILLION / frame_rate ns, and its event loop starts. Other hosts may     *)
(* send anything to the bound port, e.g. ACKs of an earlier session. Bytes *)
(* are built and parsed by module WireCodec. The network may lose          *)
(* datagrams. A datagram sent to the port before bind() is dropped, and    *)
(* the ICMP error may reach the receiver's connected socket. The receiver  *)
(* takes the frame rate it requests from its --fps argument (strict_stoi   *)
(* and narrow_cast of module Conversion); a bad argument ends it before it *)
(* sends anything.                                                         *)
(***************************************************************************)
EXTENDS Naturals, Sequences, SequencesExt, FiniteSets

CONSTANTS FpsArgs,         \* the receiver's --fps option: [arg, value], where
                           \* arg is the string given or NoArg, and value is
                           \* the rate the user means (NoValue if none)
          StrayMsgs,       \* byte strings other hosts send to the sender's port
          MaxStray,        \* most stray datagrams in a behaviour
          Width, Height,   \* the receiver's width and height arguments
          NoValue,         \* model value: no frame rate requested, no timer armed
          NoArg            \* model value: --fps not given

VARIABLES fps,        \* the receiver's --fps option (fixed for a behaviour)
          s_pc,       \* sender: "bind", "wait" (recv_config_msg), "streaming", "crashed"
          r_pc,       \* receiver: "config" (before the send), "recv", "crashed"
          net,        \* datagrams in flight to the sender's port: [src, bytes]
          rcvbuf,     \* datagrams queued on the sender's bound socket
          refused,    \* an ECONNREFUSED is pending on the receiver's socket
          requested,  \* frame_rate of the ConfigMsg the receiver sent
          peer,       \* address the sender connected udp_sock to
          interval,   \* tv_nsec of the fps timer's period once armed
          strays      \* stray datagrams sent so far

vars == <<fps, s_pc, r_pc, net, rcvbuf, refused, requested, peer, interval, strays>>

W == INSTANCE WireCodec WITH U32Vals <- {0}, U16Vals <- {0}, TypeBytes <- {},
                             Payloads <- {}, msg <- [kind |-> "none"], wire <- <<>>

C == INSTANCE Conversion

BILLION == 1000 * 1000 * 1000
None == "none"

----------------------------------------------------------------------------
(* The code.                                                               *)

\* Mutant: ConfigMsg(width, frame_rate, height, ...), two u16 arguments swapped.
ConfigForSwapped(fr) == [kind |-> "config", width |-> Width, height |-> fr,
                         frame_rate |-> Height, target_bitrate |-> 0]

\* The ConfigMsg the receiver builds from its arguments (target_bitrate
\* defaults to 0 without --cbr).
ConfigFor(fr) == [kind |-> "config", width |-> Width, height |-> Height,
                  frame_rate |-> fr, target_bitrate |-> 0]

\* The frame_rate main takes from its options: 30 without --fps, else
\* narrow_cast<uint16_t>(strict_stoi(optarg)), which may throw.
FpsOption(arg) ==
    IF arg = NoArg THEN C!Value(30) ELSE C!narrow_cast_u16(C!strict_stoi(arg))

\* FpsOption of each argument the receiver may be started with (a
\* constant, so that TLC computes it once).
ParsedFps == [f \in FpsArgs |-> FpsOption(f.arg)]

\* frame_interval's tv_nsec: BILLION / frame_rate in unsigned arithmetic.
FrameInterval(fr) == BILLION \div fr

\* Timerfd::set_time: check_syscall(timerfd_settime(...)) throws unless
\* each tv_nsec is in 0..999999999 (EINVAL otherwise).
ValidTimespec(ns) == 0 <= ns /\ ns < BILLION

\* Mutant: the type test compares with Msg::Type::ACK, as the In callback's does.
IgnoredWrongType(r) == r.outcome = "rejected" \/ r.msg.kind # "ack"

\* recv_config_msg's `continue`: nullptr (unparseable or unknown tag) or a
\* message whose type is not CONFIG.
Ignored(r) == r.outcome = "rejected" \/ r.msg.kind # "config"

Init ==
    /\ fps \in FpsArgs
    /\ s_pc = "bind"
    /\ r_pc = "config"
    /\ net = {}
    /\ rcvbuf = <<>>
    /\ refused = FALSE
    /\ requested = NoValue
    /\ peer = None
    /\ interval = NoValue
    /\ strays = 0

\* video_sender: udp_sock.bind({"0", port}).
Bind ==
    /\ s_pc = "bind"
    /\ s_pc' = "wait"
    /\ UNCHANGED <<fps, r_pc, net, rcvbuf, refused, requested, peer, interval, strays>>

\* video_receiver: parse the options; if that throws, exit. Otherwise
\* connect to the sender, send ConfigMsg once, build the Decoder and enter
\* the main loop's recv().
ReceiverStart ==
    /\ r_pc = "config"
    /\ LET fr == ParsedFps[fps]
       IN IF fr.thrown
          THEN r_pc' = "crashed" /\ UNCHANGED <<net, requested>>
          ELSE /\ net' = net \cup {[src |-> "receiver",
                                    bytes |-> W!SerializeConfig(ConfigFor(fr.val))]}
               /\ requested' = fr.val
               /\ r_pc' = "recv"
    /\ UNCHANGED <<fps, s_pc, rcvbuf, refused, peer, interval, strays>>

\* The receiver's recv() reports the pending ICMP error: check_bytes_received
\* throws unix_error and the receiver exits.
ReceiverRefused ==
    /\ r_pc = "recv" /\ refused
    /\ r_pc' = "crashed"
    /\ UNCHANGED <<fps, s_pc, net, rcvbuf, refused, requested, peer, interval, strays>>

\* The rest of video_sender's set-up once the peer is known: connect,
\* non-blocking socket, YUV4MPEG and Encoder (whose g_timebase.den is
\* frame_rate: vpx_codec_enc_init fails on 0 and check_call throws),
\* then fps_timer.set_time(frame_interval, frame_interval).
StartStream(fr, src) ==
    /\ peer' = src
    /\ IF fr # 0 /\ ValidTimespec(FrameInterval(fr))
       THEN /\ s_pc' = "streaming"
            /\ interval' = FrameInterval(fr)
       ELSE /\ s_pc' = "crashed"
            /\ UNCHANGED interval

\* One iteration of recv_config_msg: recvfrom the next datagram and parse
\* it as a Msg. An out_of_range from the parse escapes main. A datagram
\* that is not a ConfigMsg is skipped. A ConfigMsg ends the wait.
SenderRecv ==
    /\ s_pc = "wait"
    /\ rcvbuf # <<>>
    /\ rcvbuf' = Tail(rcvbuf)
    /\ LET m == Head(rcvbuf)
           r == W!ParseMsg(m.bytes)
       IN CASE r.outcome = "thrown" -> s_pc' = "crashed" /\ UNCHANGED <<peer, interval>>
            [] Ignored(r) -> UNCHANGED <<s_pc, peer, interval>>
               \* dynamic_pointer_cast<ConfigMsg> succeeds
            [] r.msg.kind = "config" -> StartStream(r.msg.frame_rate, m.src)
            [] OTHER -> UNCHANGED <<s_pc, peer, interval>>
    /\ UNCHANGED <<fps, r_pc, net, refused, requested, strays>>

----------------------------------------------------------------------------
(* The network.                                                            *)

\* Another host sends a datagram to the sender's port.
StraySend ==
    /\ strays < MaxStray
    /\ \E b \in StrayMsgs : net' = net \cup {[src |-> "stray", bytes |-> b]}
    /\ strays' = strays + 1
    /\ UNCHANGED <<fps, s_pc, r_pc, rcvbuf, refused, requested, peer, interval>>

\* A datagram reaches the sender's host. Before bind() nothing listens on
\* the port: it is dropped, and the ICMP port-unreachable may come back
\* to the receiver's connected socket.
Deliver ==
    \E m \in net :
        /\ net' = net \ {m}
        /\ IF s_pc = "bind"
           THEN /\ \E icmp \in BOOLEAN : refused' = (refused \/ (icmp /\ m.src = "receiver"))
                /\ UNCHANGED rcvbuf
           ELSE /\ rcvbuf' = Append(rcvbuf, m)
                /\ UNCHANGED refused
        /\ UNCHANGED <<fps, s_pc, r_pc, requested, peer, interval, strays>>

Lose ==
    \E m \in net :
        /\ net' = net \ {m}
        /\ UNCHANGED <<fps, s_pc, r_pc, rcvbuf, refused, requested, peer, interval, strays>>

Next ==
    \/ Bind \/ ReceiverStart \/ ReceiverRefused \/ SenderRecv
    \/ StraySend \/ Deliver \/ Lose

\* Each program's thread runs while it can; nothing is assumed of the
\* network (a datagram may be lost) or of other hosts.
Fairness == WF_vars(Bind) /\ WF_vars(ReceiverStart) /\ WF_vars(SenderRecv)

Spec == Init /\ [][Next]_vars
FairSpec == Spec /\ Fairness

----------------------------------------------------------------------------
TypeOK ==
    /\ fps \in FpsArgs
    /\ s_pc \in {"bind", "wait", "streaming", "crashed"}
    /\ r_pc \in {"config", "recv", "crashed"}
    /\ \A m \in net \cup Range(rcvbuf) : m.src \in {"receiver", "stray"}
    /\ refused \in BOOLEAN
    /\ requested = NoValue \/ requested \in 0..65535
    /\ peer \in {"receiver", "stray", None}
    /\ \/ interval = NoValue
       \/ interval \in Nat /\ 0 < interval /\ interval < BILLION
    /\ strays \in 0..MaxStray

\* The sender streams to the receiver that asked, at the rate its user
\* asked for: once the fps timer is armed, udp_sock is connected to the
\* ConfigMsg's source and the period is BILLION / the number given as
\* --fps (30 without it), whatever stray datagrams came first. An --fps
\* that is not a number, or that does not fit the u16 frame_rate, must
\* stop the receiver (strict_stoi, narrow_cast) rather than reach the
\* sender as some other rate.
StreamsToRequester ==
    s_pc = "streaming" =>
        /\ peer = "receiver"
        /\ fps.value # NoValue /\ fps.value > 0
        /\ interval = FrameInterval(fps.value)

\* A ConfigMsg that the spec's data model allows (frame_rate > 0) and that
\* reaches the sender's bound socket starts the stream: recv_config_msg
\* skips whatever is queued before it, and the set-up arms the fps timer.
ConfigStartsStream ==
    (/\ requested \notin {NoValue, 0}
     /\ \E i \in 1..Len(rcvbuf) : rcvbuf[i].src = "receiver")
        ~> (s_pc = "streaming")
=============================================================================
