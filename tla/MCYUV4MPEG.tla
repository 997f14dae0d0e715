----------------------------- MODULE MCYUV4MPEG -----------------------------
(* Input files for YUV4MPEG, written by the YUV4MPEG2 format rather than  *)
(* by the reader: "YUV4MPEG2", a header line of space-separated tokens,    *)
(* then per frame a "FRAME" line (tags allowed) and the Y plane of W*H     *)
(* bytes and the U and V planes of ceil(W/2)*ceil(H/2) bytes each (4:2:0). *)
(* Plane bytes include "\n" and "F", which a text read would trip on.      *)
EXTENDS YUV4MPEG

Digit(n) == C!Digits[n + 1]
Text(w, h) == <<" ", "W", Digit(w), " ", "H", Digit(h)>>

\* Headers of a file for Width x Height: minimal, with a 4:2:0 colour space
\* and extra tokens the reader ignores, and with a trailing blank.
GoodHeaders ==
    { Text(Width, Height),
      Text(Width, Height) \o <<" ", "C", "4", "2", "0", "j", "p", "e", "g", " ", "I", "p">>,
      <<" ", "F", "3", "0", ":", "1">> \o Text(Width, Height) \o <<" ">> }
FrameTags == { <<>>, <<" ", "I", "p">> }

ChromaSize == ((Width + 1) \div 2) * ((Height + 1) \div 2)
FrameSize == Width * Height + 2 * ChromaSize
Palette == << <<"a", "b">>, <<"\n", "F">>, <<"c", " ">>, <<"F", "\n">> >>
Frame(k) == [i \in 1..FrameSize |-> Palette[k][(i % 2) + 1]]

Encode(magic, hdr, tag, n) ==
    magic \o hdr \o <<"\n">>
      \o FlattenSeq([k \in 1..n |-> <<"F", "R", "A", "M", "E">> \o tag \o <<"\n">> \o Frame(k)])

Video(magic, hdr, tag, n, valid) ==
    [frames |-> [k \in 1..n |-> Frame(k)], bytes |-> Encode(magic, hdr, tag, n), valid |-> valid]

Truncated(v) == [v EXCEPT !.bytes = SubSeq(@, 1, Len(@) - 1), !.valid = FALSE]

MCVideos ==
    { Video(Magic, h, t, n, TRUE) : h \in GoodHeaders, t \in FrameTags, n \in 1..4 }
    \cup { Video(Magic, Text(Width + 1, Height), <<>>, 1, FALSE),
           Video(Magic, Text(Width, Height) \o <<" ", "C", "4", "4", "4">>, <<>>, 1, FALSE),
           Video(<<"Y", "U", "V", "4", "M", "P", "E", "G", "1">>, Text(Width, Height), <<>>, 1, FALSE),
           Video(Magic, Text(Width, Height), <<>>, 0, FALSE),
           Truncated(Video(Magic, Text(Width, Height), <<>>, 2, TRUE)) }
====
