-------------------------------- MODULE Utf8 --------------------------------
(***************************************************************************)
(* utils/IntToUTF8String.cpp: the bytes that stand for a code point.       *)
(*                                                                         *)
(* The function does nothing but shift, mask and combine bits, so an int   *)
(* is the set of the numbers of its bits that are one: an exclusive or is  *)
(* a symmetric difference, 0x3F is 0..5, and a comparison with 2^k asks    *)
(* for the bits from k on.                                                 *)
(***************************************************************************)
EXTENDS Integers, Sequences

CONSTANT Bits   \* of an int; the highest is its sign

(* There are ints past the plane that the function is for. *)
ASSUME BitsAssumption == Bits \in Nat /\ Bits > 16

Word == SUBSET (0 .. Bits - 1)

VARIABLES
    convertMe,   \* the argument
    out          \* the string returned, or <<>>: the function has not returned

-----------------------------------------------------------------------------

Xor(x, y) == (x \ y) \cup (y \ x)

ShiftRight(x, n) == {i - n : i \in {j \in x : j >= n}}

(* bitset<8> *)
Byte(x) == x \cap 0 .. 7

(* Mutant: the second mask is not applied. *)
Continuation_KeepsBit6(x) == Byte(x \cup {7})

(* (x | 0x80) & ~0x40 *)
Continuation(x) == Byte((x \cup {7}) \ {6})

BlankByte == {5}

IntToUTF8String(c) ==
    CASE c # {} /\ c \subseteq 0 .. 6 -> <<Byte(c)>>
      [] c \subseteq 0 .. 10 /\ ~(c \subseteq 0 .. 6) ->
           << Byte(Xor(ShiftRight(c, 6), {6, 7})), Continuation(Xor(c, 6 .. 15)) >>
      [] c \subseteq 0 .. 15 /\ ~(c \subseteq 0 .. 10) ->
           << Byte(ShiftRight(Xor(c, 0 .. 11 \cup 18 .. 23), 12) \cup {5, 6, 7}),
              Continuation(ShiftRight(Xor(c, 0 .. 5 \cup 12 .. 23), 6)),
              Continuation(Xor(c, 6 .. 19)) >>
      [] OTHER -> <<BlankByte>>

Return == out = <<>> /\ out' = IntToUTF8String(convertMe) /\ UNCHANGED convertMe

Utf8Init == convertMe \in Word /\ out = <<>>

Utf8Spec == Utf8Init /\ [][Return]_<<convertMe, out>>

-----------------------------------------------------------------------------
(* Properties *)

IsTail(b) == 7 \in b /\ 6 \notin b

(* What a byte of which the low n bits count adds at bit k. *)
Adds(b, n, k) == {i + k : i \in b \cap 0 .. (n - 1)}

(* The table of RFC 3629, read from the bytes to the code point: s is the  *)
(* shortest form that stands for c.                                        *)
Encodes(s, c) ==
    \/ Len(s) = 1 /\ 7 \notin s[1] /\ c = s[1]
    \/ /\ Len(s) = 2
       /\ {6, 7} \subseteq s[1] /\ 5 \notin s[1] /\ IsTail(s[2])
       /\ c = Adds(s[1], 5, 6) \cup Adds(s[2], 6, 0)
       /\ ~(c \subseteq 0 .. 6)
    \/ /\ Len(s) = 3
       /\ {5, 6, 7} \subseteq s[1] /\ 4 \notin s[1] /\ IsTail(s[2]) /\ IsTail(s[3])
       /\ c = Adds(s[1], 4, 12) \cup Adds(s[2], 6, 6) \cup Adds(s[3], 6, 0)
       /\ ~(c \subseteq 0 .. 10)

(* Every code point of the plane is written in the shortest form that      *)
(* reads back as itself, at the limits of each range and between them,     *)
(* though the code splits it with exclusive ors that set bits it then      *)
(* shifts or cuts away; 0, and every int outside, is a blank.  Surrogates  *)
(* are written like any other.  (IntToUTF8String.cpp:14-87)                *)
Utf8RoundTrip ==
    out # <<>> =>
        /\ \A i \in DOMAIN out : out[i] \subseteq 0 .. 7
        /\ IF convertMe # {} /\ convertMe \subseteq 0 .. 15
             THEN Encodes(out, convertMe)
             ELSE out = <<BlankByte>>
=============================================================================
