----------------------------- MODULE MCHandshake -----------------------------
(* Handshake with byte-string constants TLC's configuration files cannot   *)
(* hold: stray datagrams are an AckMsg of an earlier session, a datagram   *)
(* with the Invalid tag 0, and an empty datagram.                          *)
EXTENDS Handshake

StaleAck == W!SerializeAck([kind |-> "ack", frame_id |-> 7, frag_id |-> 1, send_ts |-> 9])

MCStrayMsgs == {StaleAck, <<0>>, <<>>}

\* --fps arguments and the rate each one means: none (30), plain numbers
\* at both ends of the u16 range and 0, a sign and a leading blank that
\* std::stoi accepts, numbers outside the u16 range, and strings that are
\* no number.
MCFpsArgs ==
    { [arg |-> NoArg, value |-> 30],
      [arg |-> <<"6", "5", "5", "3", "5">>, value |-> 65535],
      [arg |-> <<"0">>, value |-> 0],
      [arg |-> <<"+", "7">>, value |-> 7],
      [arg |-> <<" ", "7">>, value |-> 7],
      [arg |-> <<"6", "5", "5", "6", "6">>, value |-> 65566],
      [arg |-> <<"-", "1">>, value |-> -1],
      [arg |-> <<"3", "0", "x">>, value |-> NoValue],
      [arg |-> <<>>, value |-> NoValue] }

\* --fps 1, a rate the spec's data model allows.
MCFpsOne == { [arg |-> <<"1">>, value |-> 1] }
====
