---------------------------- MODULE MCDecodeBuffer ----------------------------
(* Workloads for DecodeBuffer. Every max_payload up to 6 with every frame  *)
(* size up to 24 bytes covers each remainder of size mod max_payload, the   *)
(* multiples of max_payload and of max_payload + 1 included. At the default *)
(* MTU (max_payload 1455) the frames sit around the 1 MB decode buffer.    *)
EXTENDS DecodeBuffer

SmallWorkloads == {[mp |-> m, size |-> s] : m \in 1..6, s \in 1..24}

\* Just below and just above MAX_DECODING_BUF, and 2911 = 2 * 1455 + 1,
\* whose last payload is max_payload + 1 bytes.
MCWorkloads ==
    SmallWorkloads \cup {[mp |-> 1455, size |-> s] : s \in {2911, 999999, 1000001}}

\* A frame of exactly MAX_DECODING_BUF bytes.
ExactWorkload == {[mp |-> 1455, size |-> MAX_DECODING_BUF]}
====
