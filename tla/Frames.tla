------------------------------- MODULE Frames -------------------------------
(***************************************************************************)
(* The numbers that leave the program as text: the length in front of a    *)
(* chat message (Network/Chat_Message.h) and the size in front of a        *)
(* serialized object (Network/TCP_Session.h), each from the side that      *)
(* writes it to the side that reads it.                                    *)
(*                                                                         *)
(* A character is what the conversions tell apart: the value of a digit,   *)
(* or one of the four below.                                               *)
(***************************************************************************)
EXTENDS Integers, Sequences

CONSTANTS
    header_length, max_body_length,   \* of chat_message
    HEADER_SIZE,                      \* of TCP_Session
    PeerCharacters,                   \* bound: those a peer makes headers of
    MaxSize                           \* bound: lengths and sizes are 0 .. MaxSize

Space == 16
Minus == 17
Plus == 18
Junk == 19
Character == 0 .. 19

(* base to the power k *)
Power(base) == LET P[k \in Nat] == IF k = 0 THEN 1 ELSE base * P[k - 1] IN P

(* A length that chat_message allows fits the header it is printed into. *)
ASSUME HeaderAssumption ==
    /\ header_length \in Nat \ {0} /\ HEADER_SIZE \in Nat \ {0}
    /\ max_body_length \in Nat /\ max_body_length < Power(10)[header_length]
    /\ PeerCharacters \subseteq Character
    /\ MaxSize \in Nat

Size == 0 .. MaxSize

VARIABLES
    kind,     \* "none", or what the header stands in front of
    sent,     \* the length or size the sender means; 0: a header is made up
    header,   \* the characters on their way
    read      \* what the reader makes of them, or NotRead

frames == <<kind, sent, header, read>>

NotRead == [ok |-> FALSE, length |-> -1]

-----------------------------------------------------------------------------
(* The library's conversions *)

(* External: v without its k last digits *)
Rest(v, base) == LET R[k \in Nat] == IF k = 0 THEN v ELSE R[k - 1] \div base IN R

(* External: the number of digits of v, of which 0 has one *)
Width(v, base) ==
    CHOOSE w \in 1 .. v + 1 :
        Rest(v, base)[w] = 0 /\ (w = 1 \/ Rest(v, base)[w - 1] # 0)

(* External: sprintf("%*d") and an ostream with setw and hex.  Spaces stand *)
(* for the digits that are missing; more than width digits are all written. *)
Padded(v, base, width) ==
    LET w == Width(v, base)
        all == IF w > width THEN w ELSE width
    IN  [i \in 1 .. all |-> IF all - i < w THEN Rest(v, base)[all - i] % base ELSE Space]

(* External: what each prefix of digits stands for *)
Values(digits, base) ==
    LET V[i \in 0 .. Len(digits)] == IF i = 0 THEN 0 ELSE V[i - 1] * base + digits[i] IN V

(* External: how many of the first characters of s are in C *)
Leading(s, C) ==
    CHOOSE k \in 0 .. Len(s) :
        (\A i \in 1 .. k : s[i] \in C) /\ (k < Len(s) => s[k + 1] \notin C)

(* External: what atoi and an istream find in a header: behind leading     *)
(* spaces and a sign, the digits up to the first other character.          *)
Scan(h, base) ==
    LET text == SubSeq(h, Leading(h, {Space}) + 1, Len(h))
        signed == text # <<>> /\ text[1] \in {Plus, Minus}
        number == IF signed THEN Tail(text) ELSE text
        digits == SubSeq(number, 1, Leading(number, 0 .. base - 1))
        v == Values(digits, base)[Len(digits)]
    IN  [found |-> digits # <<>>, value |-> IF signed /\ text[1] = Minus THEN -v ELSE v]

-----------------------------------------------------------------------------
(* chat_message *)

(* body_length(new_length) *)
body_length(new_length) ==
    IF new_length > max_body_length THEN max_body_length ELSE new_length

(* sprintf, of which memcpy takes the first header_length characters. *)
encode_header(body) == SubSeq(Padded(body, 10, header_length), 1, header_length)

(* Mutant: the length is compared as an int. *)
decode_header_Signed(h) ==
    LET v == Scan(h, 10).value
    IN  IF v <= max_body_length THEN [ok |-> TRUE, length |-> v]
                                ELSE [ok |-> FALSE, length |-> 0]

(* body_length_ is a size_t, so that a negative number is a huge one; what *)
(* atoi makes nothing of is 0.                                             *)
decode_header(h) ==
    LET v == Scan(h, 10).value
    IN  IF v \in 0 .. max_body_length THEN [ok |-> TRUE, length |-> v]
                                      ELSE [ok |-> FALSE, length |-> 0]

-----------------------------------------------------------------------------
(* TCP_Session::async_data_write and handle_read_header *)

(* Nothing is written: the session ends. *)
Refused == <<>>

(* Mutant: the header is cut to its size, as encode_header does. *)
DataHeader_Cut(size) == SubSeq(Padded(size, 16, HEADER_SIZE), 1, HEADER_SIZE)

(* A header of any other length than HEADER_SIZE is not sent. *)
DataHeader(size) ==
    LET h == Padded(size, 16, HEADER_SIZE)
    IN  IF Len(h) # HEADER_SIZE THEN Refused ELSE h

(* inbound_data_size, or the error the handler is called with.  It is a    *)
(* size_t too: a negative size stands for one of nearly 2^64.              *)
ReadHeader(h) ==
    LET s == Scan(h, 16)
    IN  IF s.found THEN [ok |-> TRUE, length |-> s.value]
                   ELSE [ok |-> FALSE, length |-> 0]

-----------------------------------------------------------------------------

FramesInit == kind = "none" /\ sent = 0 /\ header = <<>> /\ read = NotRead

Sends(k, n, h) ==
    kind = "none" /\ kind' = k /\ sent' = n /\ header' = h /\ UNCHANGED read

SendChat(length) == Sends("chat", body_length(length), encode_header(body_length(length)))

SendData(size) == Sends("data", size, DataHeader(size))

(* A peer may send any characters where a header is expected. *)
PeerSends ==
    \/ \E h \in [1 .. header_length -> PeerCharacters] : Sends("peer's chat", 0, h)
    \/ \E h \in [1 .. HEADER_SIZE -> PeerCharacters] : Sends("peer's data", 0, h)

Reads(kinds, r) ==
    kind \in kinds /\ read = NotRead /\ read' = r /\ UNCHANGED <<kind, sent, header>>

ReadChat == Reads({"chat", "peer's chat"}, decode_header(header))

ReadData == header # Refused /\ Reads({"data", "peer's data"}, ReadHeader(header))

FramesNext ==
    \/ \E n \in Size : SendChat(n) \/ SendData(n)
    \/ PeerSends
    \/ ReadChat
    \/ ReadData

FramesSpec == FramesInit /\ [][FramesNext]_frames

-----------------------------------------------------------------------------
(* Properties *)

(* A chat message of any length is sent with a header the other side reads *)
(* as the number of bytes that follow; and whatever header comes, one that *)
(* is taken announces no more than data_ has room for, a negative one or   *)
(* one without a number included.  (Chat_Message.h:58-85)                  *)
ChatFrames ==
    kind \in {"chat", "peer's chat"} /\ read # NotRead =>
        /\ kind = "chat" => read = [ok |-> TRUE, length |-> sent]
        /\ read.length \in 0 .. max_body_length

(* The size in front of a serialized object reads back as itself, or the   *)
(* object is not sent; it is sent whenever its size fits the header.       *)
(* (TCP_Session.h:97-107 and 140-151)                                      *)
DataFrames ==
    kind = "data" =>
        IF header = Refused
          THEN sent >= Power(16)[HEADER_SIZE]
          ELSE read = NotRead \/ read = [ok |-> TRUE, length |-> sent]
=============================================================================
