------------------------------ MODULE YUV4MPEG ------------------------------
(***************************************************************************)
(* The sender's video input (src/src/video/yuv4mpeg.cc) over the           *)
(* FileDescriptor reads it uses (src/src/util/file_descriptor.cc). The     *)
(* constructor checks the YUV4MPEG2 magic and the header line's W, H and C *)
(* tokens. Each fps-timer callback of video_sender reads num_exp frames    *)
(* with read_frame and compresses the last one. read_frame reads the       *)
(* "FRAME" line with getline, then the Y, U and V planes with readn. At    *)
(* the end of the file (loop mode, the sender's default) it rewinds with   *)
(* reset_offset, skips the header line and reads "FRAME" again.            *)
(*                                                                         *)
(* The file is a sequence of bytes, each a one-character string. The       *)
(* offset and FileDescriptor::eof_ are the state that read_frame's calls   *)
(* share. Reads of a regular file return min(requested, remaining) bytes.  *)
(***************************************************************************)
EXTENDS Naturals, Sequences, SequencesExt

CONSTANTS Width, Height,  \* display_width_, display_height_ (from the ConfigMsg)
          Loop,           \* loop_ (video_sender uses the default, TRUE)
          Videos,         \* input files: [magic, header, frames, bytes, valid]
          MaxExp,         \* most timer expirations one read_expirations returns
          None            \* model value: no frame compressed yet

VARIABLES video,    \* the input file (fixed for a behaviour)
          pc,       \* "open" (constructor), "running", "thrown" (process exits)
          pos,      \* the file offset
          eof,      \* FileDescriptor::eof_
          raw_img,  \* planes in raw_img, Y then U then V
          encoded,  \* the raw image handed to the last compress_frame
          ref       \* history: the frame of the file the callback should
                    \* have read last, counted in the file's frame order

vars == <<video, pc, pos, eof, raw_img, encoded, ref>>

File == video.bytes

----------------------------------------------------------------------------
(* The code.                                                               *)

\* YUV4MPEG::y_size and uv_size (RawImage has the same).
y_size == Width * Height
uv_size == (Width * Height) \div 4

\* One getline: read(1) until a "\n" or a read of 0 bytes. eof_ is sticky:
\* once set, the loop ends after the next read whatever it returned. The
\* result is the line, the new offset and eof_.
RECURSIVE GetlineFrom(_, _, _, _)
GetlineFrom(f, p, e, acc) ==
    LET atEnd == p >= Len(f)
        c     == IF atEnd THEN <<>> ELSE <<f[p + 1]>>
        p2    == IF atEnd THEN p ELSE p + 1
        e2    == e \/ atEnd
    IN IF e2 \/ c = <<"\n">>
       THEN [line |-> acc, pos |-> p2, eof |-> e2]
       ELSE GetlineFrom(f, p2, e2, acc \o c)

getline(f, p, e) == GetlineFrom(f, p, e, <<>>)

\* readn(n) without allow_partial_read: n bytes, or "unexpected EOF" thrown
\* after the read that returns 0 has set eof_; n = 0 throws at once.
readn(f, p, n, e) ==
    CASE n = 0 -> [thrown |-> TRUE, data |-> <<>>, pos |-> p, eof |-> e]
      [] p + n <= Len(f) ->
            [thrown |-> FALSE, data |-> SubSeq(f, p + 1, p + n), pos |-> p + n, eof |-> e]
      [] OTHER -> [thrown |-> TRUE, data |-> <<>>, pos |-> Len(f), eof |-> TRUE]

\* Mutant: reset_offset seeks back but leaves eof_ set.
ResetOffsetKeepsEof == [pos |-> 0, eof |-> TRUE]

\* reset_offset: seek(0, SEEK_SET) and eof_ = false.
reset_offset == [pos |-> 0, eof |-> FALSE]

\* split(str, " "): a token per separator, "" between two separators, no
\* token after a trailing separator.
RECURSIVE SplitFrom(_, _, _)
SplitFrom(s, sep, p) ==
    IF p > Len(s) THEN <<>>
    ELSE LET rest == SubSeq(s, p, Len(s))
             i    == SelectInSeq(rest, LAMBDA c : c = sep)
         IN IF i = 0 THEN <<rest>>
            ELSE <<SubSeq(rest, 1, i - 1)>> \o SplitFrom(s, sep, p + i)

split(s, sep) == SplitFrom(s, sep, 1)

\* strict_stoi, shared with the programs' option parsing.
C == INSTANCE Conversion

\* string::substr(0, n): at most the first n characters.
Prefix(s, n) == IF Len(s) <= n THEN s ELSE SubSeq(s, 1, n)

\* The constructor's check of one header token.
TokenOK(t) ==
    CASE t = <<>> -> TRUE
      [] t[1] = "W" -> C!strict_stoi(Tail(t)) = C!Value(Width)
      [] t[1] = "H" -> C!strict_stoi(Tail(t)) = C!Value(Height)
      [] t[1] = "C" -> Prefix(t, 4) = <<"C", "4", "2", "0">>
      [] OTHER -> TRUE

Magic == <<"Y", "U", "V", "4", "M", "P", "E", "G", "2">>

\* read_frame's test frame_header.substr(0, 5) == "FRAME".
IsFrameHeader(l) == Prefix(l, 5) = <<"F", "R", "A", "M", "E">>

\* RawImage::copy_y_from, copy_u_from and copy_v_from: each checks that its
\* plane has y_size() or uv_size() bytes (readn returned exactly that) and
\* memcpys it into raw_img.
CopyPlanes(y, u, v) == y \o u \o v

\* YUV4MPEG::read_frame from offset s.pos with eof_ s.eof. out is "frame"
\* (true returned), "end" (false returned) or "thrown".
read_frame(f, s) ==
    LET h      == getline(f, s.pos, s.eof)
        rewind == h.eof /\ h.line = <<>>
        skip   == getline(f, reset_offset.pos, reset_offset.eof)
        h2     == IF rewind THEN getline(f, skip.pos, skip.eof) ELSE h
        y      == readn(f, h2.pos, y_size, h2.eof)
        u      == readn(f, y.pos, uv_size, y.eof)
        v      == readn(f, u.pos, uv_size, u.eof)
        \* the state where the first throw leaves the file descriptor
        stop   == CASE y.thrown -> y [] u.thrown -> u [] OTHER -> v
    IN CASE rewind /\ ~Loop -> [s EXCEPT !.pos = h.pos, !.eof = h.eof, !.out = "end"]
         [] ~IsFrameHeader(h2.line) ->
               [s EXCEPT !.pos = h2.pos, !.eof = h2.eof, !.out = "thrown"]
         [] y.thrown \/ u.thrown \/ v.thrown ->
               [s EXCEPT !.pos = stop.pos, !.eof = stop.eof, !.out = "thrown"]
         [] OTHER -> [pos |-> v.pos, eof |-> v.eof, out |-> "frame",
                      img |-> CopyPlanes(y.data, u.data, v.data)]

\* Mutant: the callback reads one frame whatever num_exp is.
ReadFramesOnce(f, s, k) == read_frame(f, s)

\* The fps callback's loop: read_frame num_exp times, stopping at a throw.
RECURSIVE ReadFrames(_, _, _)
ReadFrames(f, s, k) ==
    IF k = 0 \/ s.out # "frame" THEN s ELSE ReadFrames(f, read_frame(f, s), k - 1)

\* Timerfd::read_expirations after poll reported the blocking fps_timer
\* readable: the 8-byte count of expirations since the last read, at
\* least 1 (narrow_cast to unsigned int never throws at these counts).
read_expirations == 1..MaxExp

Init ==
    /\ video \in Videos
    /\ pc = "open"
    /\ pos = 0
    /\ eof = FALSE
    /\ raw_img = None
    /\ encoded = None
    /\ ref = 0

\* The YUV4MPEG constructor: readn the magic, getline the header, check
\* its tokens. Any failure throws out of main.
Open ==
    /\ pc = "open"
    /\ LET m  == readn(File, 0, Len(Magic), FALSE)
           hd == getline(File, m.pos, m.eof)
       IN IF ~m.thrown /\ m.data = Magic
             /\ \A i \in 1..Len(split(hd.line, " ")) : TokenOK(split(hd.line, " ")[i])
          THEN pc' = "running" /\ pos' = hd.pos /\ eof' = hd.eof
          ELSE pc' = "thrown" /\ UNCHANGED <<pos, eof>>
    /\ UNCHANGED <<video, raw_img, encoded, ref>>

\* The fps timer's callback in video_sender: read num_exp frames, then
\* compress_frame(raw_img). false from read_frame throws "Reached the end
\* of video input".
on_fps_timer ==
    /\ pc = "running"
    /\ \E num_exp \in read_expirations :
         LET r == ReadFrames(File, [pos |-> pos, eof |-> eof, out |-> "frame",
                                    img |-> raw_img], num_exp)
         IN /\ pos' = r.pos
            /\ eof' = r.eof
            /\ raw_img' = r.img
            /\ IF r.out = "frame"
               THEN /\ encoded' = r.img
                    /\ ref' = ((ref + num_exp - 1) % Len(video.frames)) + 1
                    /\ UNCHANGED pc
               ELSE pc' = "thrown" /\ UNCHANGED <<encoded, ref>>
    /\ UNCHANGED video

Next == Open \/ on_fps_timer

Spec == Init /\ [][Next]_vars

----------------------------------------------------------------------------
TypeOK ==
    /\ video \in Videos
    /\ pc \in {"open", "running", "thrown"}
    /\ pos \in 0..Len(File)
    /\ eof \in BOOLEAN
    /\ ref \in 0..Len(video.frames)

\* The sender never dies reading a well-formed file: the rewind at the end
\* of the file (eof_ from getline, reset_offset, skipping the header line)
\* always lands on a "FRAME" line, however many frames each callback reads.
ValidInputNeverFails ==
    pc = "thrown" => ~video.valid

\* Each compressed image is the file's frame that a reader of the file in
\* a loop, num_exp frames per callback, reaches: planes are read whole and
\* in order, and the loop wraps from the last frame to the first.
EncodesFileCyclically ==
    encoded # None => encoded = video.frames[ref]
=============================================================================
