-------------------------- MODULE SenderTransmission --------------------------
(***************************************************************************)
(* What the sender promises about the datagrams it puts on the wire,       *)
(* whatever the network and the ACKs do. It transmits only fragments of    *)
(* frames it has already encoded. It transmits each fragment at most       *)
(* 1 + MAX_NUM_RTX times: the original and up to MAX_NUM_RTX               *)
(* retransmissions. When it encodes a frame it may give up the backlog.    *)
(* Every earlier frame is then abandoned, and none of its fragments is     *)
(* transmitted again.                                                      *)
(*                                                                         *)
(* A fragment is a pair <<frame id, fragment id>>.                         *)
(***************************************************************************)
EXTENDS Naturals

CONSTANTS SeqNums,     \* the fragments <<frame id, fragment id>> there can be
          MaxNumRtx    \* retransmissions allowed per fragment

VARIABLES produced,    \* number of frames encoded so far (ids 0..produced-1)
          abandoned,   \* frames with an id below this one were given up
          sends        \* fragment -> number of times it was transmitted

vars == <<produced, abandoned, sends>>

\* A fragment the sender may still transmit.
Live(s) == abandoned <= s[1] /\ s[1] < produced

Init ==
    /\ produced = 0
    /\ abandoned = 0
    /\ sends = [s \in SeqNums |-> 0]

\* A frame is encoded, possibly after giving up every frame before it.
Encode ==
    /\ produced' = produced + 1
    /\ abandoned' \in {abandoned, produced}
    /\ UNCHANGED sends

\* One batch of transmissions. It sends only live fragments, and none of
\* them beyond its budget.
Transmit ==
    /\ sends' # sends
    /\ \A s \in SeqNums :
         \/ sends'[s] = sends[s]
         \/ /\ sends'[s] > sends[s]
            /\ Live(s)
            /\ sends'[s] <= 1 + MaxNumRtx
    /\ UNCHANGED <<produced, abandoned>>

Next == Encode \/ Transmit

Spec == Init /\ [][Next]_vars
=============================================================================
