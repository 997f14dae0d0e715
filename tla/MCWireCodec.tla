----------------------------- MODULE MCWireCodec -----------------------------
(* Values for WireCodec: multi-byte values whose bytes all differ, the    *)
(* largest value TLC represents, and an empty and a two-byte payload.     *)
EXTENDS WireCodec

MCU32Vals == {0, 16909060, 2147483647}   \* 0x01020304, 2^31 - 1
MCU16Vals == {1, 258}                    \* 0x0102
MCTypeBytes == {0, 1, 2}                 \* UNKNOWN, KEY, NONKEY
MCPayloads == {<<>>, <<7, 9>>}
=============================================================================
