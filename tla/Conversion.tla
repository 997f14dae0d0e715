------------------------------ MODULE Conversion ------------------------------
(***************************************************************************)
(* The number conversions of src/src/util/conversion.{cc,hh} that both     *)
(* programs apply to their command lines and the sender to the YUV4MPEG2   *)
(* header: strict_stoi (std::stoi, then a check that it used the whole     *)
(* string) and narrow_cast (a static_cast that throws when it changes the  *)
(* value). A string is a sequence of one-character strings. A conversion   *)
(* yields [thrown |-> FALSE, val |-> the value] or Thrown (an exception    *)
(* escaped). Strings are at most 9 characters long, so the int arithmetic  *)
(* of std::stoi never leaves TLC's integers.                               *)
(***************************************************************************)
EXTENDS Integers, Sequences, SequencesExt

Digits == <<"0", "1", "2", "3", "4", "5", "6", "7", "8", "9">>
DigitValue(c) == CHOOSE d \in 0..9 : Digits[d + 1] = c

\* The value of a run of decimal digits, most significant first.
RECURSIVE DecimalValue(_)
DecimalValue(ds) ==
    IF ds = <<>> THEN 0 ELSE 10 * DecimalValue(Front(ds)) + DigitValue(Last(ds))

\* isspace() in the "C" locale (vertical tab left out).
Blanks == {" ", "\t", "\n", "\r", "\f"}

INT_MAX == 2147483647

Value(v) == [thrown |-> FALSE, val |-> v]
Thrown == [thrown |-> TRUE, val |-> 0]

\* Length of the longest run of characters in `chars` from index p + 1 on.
RunFrom(s, p, chars) ==
    CHOOSE k \in 0..(Len(s) - p) :
        /\ \A i \in 1..k : s[p + i] \in chars
        /\ p + k = Len(s) \/ s[p + k + 1] \notin chars

\* std::stoi(str, &pos, 10), i.e. strtol: leading blanks, an optional sign,
\* then the longest run of digits. No digit throws invalid_argument and a
\* value outside int throws out_of_range. `pos` is the index after the
\* last digit.
stoi(s) ==
    LET b    == RunFrom(s, 0, Blanks)
        sign == IF b < Len(s) /\ s[b + 1] \in {"+", "-"} THEN s[b + 1] ELSE ""
        p    == IF sign = "" THEN b ELSE b + 1
        n    == RunFrom(s, p, Range(Digits))
        mag  == DecimalValue(SubSeq(s, p + 1, p + n))
        v    == IF sign = "-" THEN -mag ELSE mag
    IN IF n = 0 \/ v > INT_MAX \/ v < -INT_MAX - 1
       THEN [thrown |-> TRUE, val |-> 0, pos |-> 0]
       ELSE [thrown |-> FALSE, val |-> v, pos |-> p + n]

\* Mutant: strict_stoi without the check that stoi used the whole string.
strict_stoi_prefix(s) ==
    LET r == stoi(s) IN IF r.thrown THEN Thrown ELSE Value(r.val)

\* strict_stoi: throws unless stoi consumed every character.
strict_stoi(s) ==
    LET r == stoi(s) IN IF r.thrown \/ r.pos # Len(s) THEN Thrown ELSE Value(r.val)

\* Mutant: narrow_cast<uint16_t> as a plain static_cast (no check).
narrow_cast_u16_unchecked(r) ==
    IF r.thrown THEN r ELSE Value(r.val % 65536)

\* narrow_cast<uint16_t>(int s): t = static_cast<uint16_t>(s), the value
\* modulo 2^16; throws when static_cast<int>(t) != s.
narrow_cast_u16(r) ==
    IF r.thrown \/ r.val % 65536 # r.val THEN Thrown ELSE r
=============================================================================
