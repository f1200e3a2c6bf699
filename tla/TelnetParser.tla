---------------------------- MODULE TelnetParser ----------------------------
(***************************************************************************)
(* TelnetClient::ProcessTelnetProtocol: the bytes a telnet server sends,   *)
(* in whatever chunks TCP delivers them, and what comes out: text for the  *)
(* application and calls of the option handlers, which module              *)
(* TelnetOptions models.  Bytes that the parser does not look at are       *)
(* abstracted to Plain; a byte that is none of the commands means nothing  *)
(* behind an IAC.                                                          *)
(*                                                                         *)
(* The server writes what RFC 854, 855 and 856 let it write: tokens, each  *)
(* encoded to a few bytes by its own idea of the connection.  The parser   *)
(* does not take all of them apart again: a data byte of 255 is dropped, a *)
(* 255 in a subnegotiation has the rest of it read as text, and a NUL cuts *)
(* the text of its chunk short, a data byte or the NUL behind a carriage   *)
(* return that the client no longer strips.  The properties name these     *)
(* losses, and say that there are no others.                               *)
(***************************************************************************)
EXTENDS Integers, SequencesExt

CONSTANTS
    Plain,         \* bytes without a meaning, a line feed among them
    Width,         \* 2^8: size of suboptions, and what suboptionCount wraps at
    OptionByte,    \* codes that may follow WILL, WONT, DO and DONT
    Payload,       \* what the server may put into a subnegotiation
    MaxTokens,     \* tokens the server sends on a connection
    MaxConnects    \* connections in a behaviour

Verb == {"WILL", "WONT", "DO", "DONT"}
(* "GA" stands for every command of two bytes. *)
Special == Verb \cup {"IAC", "SB", "SE", "GA", "CR", "NUL"}
Byte == Plain \cup Special

ASSUME ParserAssumption ==
    /\ "LF" \in Plain /\ Plain \cap Special = {}
    /\ OptionByte \subseteq Byte
    /\ Payload \subseteq Seq(Byte)
    /\ Width \in Nat \ {0}
    /\ {MaxTokens, MaxConnects} \subseteq Nat

(* The option's code is 0. *)
OPTION_BINARY == "NUL"

(* What the client keeps of OPTION_BINARY on the server's side, and its     *)
(* handler's acceptRemote, FALSE without one.                               *)
Binary == [acceptRemote : BOOLEAN, requestedDo : BOOLEAN, stateIsDo : BOOLEAN,
           doResponse : 0..2]

(* currentState is STATE_...; `data' is the text of the chunk so far, `calls' *)
(* the handler calls it has made.                                             *)
State == {"DATA", "CR", "IAC", "SB", "IAC_SB"} \cup Verb
Call == [verb : Verb, option : Byte] \cup [verb : {"SB"}, suboption : Seq(Byte)]

Parser == [currentState : State, suboptionCount : 0..(Width - 1),
           suboptions : [0..(Width - 1) -> Byte],
           binary : Binary, data : Seq(Byte), calls : Seq(Call)]

VARIABLES
    parser,     \* a Parser
    received,   \* text given to the application on this connection
    wire,       \* external: bytes on their way
    sent,       \* external: the tokens sent on this connection
    agreed,     \* history: no carriage return was encoded against the client
    stale,      \* history: this connection began in the middle of a command
    connects

vars == <<parser, received, wire, sent, agreed, stale, connects>>

-----------------------------------------------------------------------------
(* OPTION_BINARY, as TelnetOptions has it for any option: the answer to a   *)
(* request, or a new one, and a second answer that repeats the state.       *)

Answered(n, repeated) ==
    IF n > 1 /\ repeated THEN n - 2 ELSE IF n > 0 THEN n - 1 ELSE 0

ProcessWill(o) ==
    LET n == Answered(o.doResponse, o.stateIsDo)
        new == n = 0 /\ ~o.requestedDo
    IN  [o EXCEPT !.doResponse = IF new /\ ~o.acceptRemote THEN 1 ELSE n,
                  !.requestedDo = @ \/ (new /\ o.acceptRemote),
                  !.stateIsDo = TRUE]

ProcessWont(o) ==
    LET n == Answered(o.doResponse, ~o.stateIsDo)
    IN  [o EXCEPT !.doResponse = n, !.requestedDo = @ /\ n # 0, !.stateIsDo = FALSE]

-----------------------------------------------------------------------------
(* The parser. *)

Calling(p, call) ==
    [p EXCEPT !.calls = Append(@, call), !.currentState = "DATA"]

(* case STATE_DATA. *)
DataByte(p, b) ==
    IF b = "IAC"
      THEN [p EXCEPT !.currentState = "IAC"]
      ELSE [p EXCEPT !.currentState = IF b = "CR" /\ ~p.binary.requestedDo
                                           THEN "CR" ELSE "DATA",
                     !.data = Append(@, b)]

(* Mutant: a subnegotiation goes on behind the one before it. *)
IacByte_KeepsCount(p, b) ==
    [p EXCEPT !.currentState = IF b \in Verb \cup {"SB"} THEN b ELSE "DATA"]

(* case STATE_IAC: a doubled IAC is taken for a command without a meaning. *)
IacByte(p, b) ==
    [p EXCEPT !.currentState = IF b \in Verb \cup {"SB"} THEN b ELSE "DATA",
              !.suboptionCount = IF b = "SB" THEN 0 ELSE @]

(* Mutant: suboptionCount is an int. *)
SuboptionByte_Int(p, b) ==
    IF b = "IAC"
      THEN [p EXCEPT !.currentState = "IAC_SB"]
      ELSE [p EXCEPT !.suboptions[p.suboptionCount] = b, !.suboptionCount = @ + 1]

(* case STATE_SB. *)
SuboptionByte(p, b) ==
    IF b = "IAC"
      THEN [p EXCEPT !.currentState = "IAC_SB"]
      ELSE [p EXCEPT !.suboptions[p.suboptionCount] = b,
                     !.suboptionCount = (@ + 1) % Width]

(* The option code behind a verb.  ProcessDo and ProcessDont leave the      *)
(* server's side alone.                                                     *)
OptionCode(p, b) ==
    LET q == Calling(p, [verb |-> p.currentState, option |-> b])
    IN  CASE b = OPTION_BINARY /\ p.currentState = "WILL" -> [q EXCEPT !.binary = ProcessWill(@)]
          [] b = OPTION_BINARY /\ p.currentState = "WONT" -> [q EXCEPT !.binary = ProcessWont(@)]
          [] OTHER -> q

Suboption(p) == [i \in 1..p.suboptionCount |-> p.suboptions[i - 1]]

(* One turn of the loop. *)
ParseByte(p, b) ==
    CASE p.currentState = "DATA" -> DataByte(p, b)
      [] p.currentState = "CR" -> IF b = "NUL" THEN p ELSE DataByte(p, b)
      [] p.currentState = "IAC" -> IacByte(p, b)
      [] p.currentState \in Verb -> OptionCode(p, b)
      [] p.currentState = "SB" -> SuboptionByte(p, b)
      [] p.currentState = "IAC_SB" ->
            IF b = "SE" THEN Calling(p, [verb |-> "SB", suboption |-> Suboption(p)])
                        ELSE [p EXCEPT !.currentState = "DATA"]

(* Mutant: the state after a carriage return does not outlive the chunk. *)
ProcessTelnetProtocol_ForgetsCR(p, chunk) ==
    FoldLeft(ParseByte, [p EXCEPT !.currentState = IF @ = "CR" THEN "DATA" ELSE @], chunk)

ProcessTelnetProtocol(p, chunk) == FoldLeft(ParseByte, p, chunk)

(* The text is handed on as a C string: it ends at its first NUL. *)
CString(data) ==
    LET i == SelectInSeq(data, LAMBDA b : b = "NUL")
    IN  IF i = 0 THEN data ELSE SubSeq(data, 1, i - 1)

(* HandleRead, or a read_some of ReadUntil, gets the next n bytes. *)
HandleRead(n) ==
    LET p == ProcessTelnetProtocol(parser, SubSeq(wire, 1, n))
    IN  /\ parser' = [p EXCEPT !.data = <<>>]
        /\ received' = received \o CString(p.data)
        /\ wire' = SubSeq(wire, n + 1, Len(wire))
        /\ UNCHANGED <<sent, agreed, stale, connects>>

(* Connect has cleared the option and calls RequestWill and RequestDo, as   *)
(* the handler wants it; both count the answer in doResponse.               *)
Requests ==
    {o \in Binary : ~o.stateIsDo /\ o.doResponse \in IF o.requestedDo THEN {1, 2} ELSE {0, 1}}

(* Connect, after the last connection was lost with what was under way.    *)
(* Of the parser's own state it clears nothing.                            *)
Connect ==
    /\ connects < MaxConnects
    /\ connects' = connects + 1
    /\ stale' = (parser.currentState \notin {"DATA", "CR"})
    /\ \E binary \in Requests :
         parser' = [parser EXCEPT !.calls = <<>>, !.binary = binary]
    /\ received' = <<>> /\ wire' = <<>> /\ sent' = <<>>
    /\ agreed' = TRUE

-----------------------------------------------------------------------------
(* External: the server. *)

(* A carriage return is encoded by the state of the server's own side of    *)
(* TRANSMIT-BINARY, which the client does not see, and the server not the   *)
(* client's.                                                                *)
Token ==
    [kind : {"data"}, byte : Plain \cup {"IAC", "NUL"}]
        \cup [kind : {"return"}, mode : {"NVT", "BINARY"}] \cup [kind : {"newline", "signal"}]
        \cup [kind : {"command"}, verb : Verb, option : OptionByte]
        \cup [kind : {"suboption"}, payload : Payload]

Escaped(b) == IF b = "IAC" THEN <<"IAC", "IAC">> ELSE <<b>>

Escape(q) == FlattenSeq([i \in DOMAIN q |-> Escaped(q[i])])

Encode(t) ==
    CASE t.kind = "data" -> Escaped(t.byte)
      [] t.kind = "return" -> IF t.mode = "NVT" THEN <<"CR", "NUL">> ELSE <<"CR">>
      [] t.kind = "newline" -> <<"CR", "LF">>
      [] t.kind = "signal" -> <<"IAC", "GA">>
      [] t.kind = "command" -> <<"IAC", t.verb, t.option>>
      [] t.kind = "suboption" -> <<"IAC", "SB">> \o Escape(t.payload) \o <<"IAC", "SE">>

(* The client strips the NUL of this token when it comes to read it: then   *)
(* it will not have asked for BINARY.                                       *)
Agrees(t) ==
    t.kind = "return" /\ t.mode = "NVT" =>
        ~ProcessTelnetProtocol(parser, wire).binary.requestedDo

ServerSends(t) ==
    /\ Len(sent) < MaxTokens
    /\ sent' = Append(sent, t)
    /\ wire' = wire \o Encode(t)
    /\ agreed' = (agreed /\ Agrees(t))
    /\ UNCHANGED <<parser, received, stale, connects>>

-----------------------------------------------------------------------------

(* The constructor.  It leaves suboptions and suboptionCount as they are:   *)
(* neither is read before it is written.                                    *)
Init ==
    /\ \E binary \in Requests :
         parser = [currentState |-> "DATA", suboptionCount |-> 0,
                   suboptions |-> [i \in 0..(Width - 1) |-> "NUL"],
                   binary |-> binary, data |-> <<>>, calls |-> <<>>]
    /\ received = <<>> /\ wire = <<>> /\ sent = <<>>
    /\ agreed = TRUE
    /\ stale = FALSE
    /\ connects = 1

Next ==
    \/ \E n \in 1..Len(wire) : HandleRead(n)
    \/ Connect
    \/ \E t \in Token : ServerSends(t)

Spec == Init /\ [][Next]_vars

-----------------------------------------------------------------------------
(* Properties *)

(* No input leads the parser to a state it has no case for, or its index   *)
(* past the end of suboptions, and doResponse counts no further than the   *)
(* requests of Connect.                                                    *)
TypeOK ==
    /\ parser \in Parser /\ parser.data = <<>>
    /\ received \in Seq(Byte)
    /\ wire \in Seq(Byte)
    /\ sent \in Seq(Token)
    /\ {agreed, stale} \subseteq BOOLEAN

(* All that was sent has been read, on a connection that did not begin in  *)
(* the middle of the last one's command.                                   *)
AllRead == wire = <<>> /\ ~stale

(* Text of a token, by RFC 854. *)
Text(t) ==
    CASE t.kind = "data" -> <<t.byte>>
      [] t.kind = "return" -> <<"CR">>
      [] t.kind = "newline" -> <<"CR", "LF">>
      [] OTHER -> <<>>

Texts(s) == FlattenSeq([i \in DOMAIN s |-> Text(s[i])])

(* A subnegotiation with a byte of 255 is given up at that byte, and what   *)
(* is behind it is read as text.                                            *)
Abandoned(t) == t.kind = "suboption" /\ "IAC" \in Range(t.payload)

(* What ProcessTelnetProtocol spoils the text with: a data byte of 255,     *)
(* which it drops, a NUL, which hides the rest of its chunk, and the rest   *)
(* of an abandoned subnegotiation.                                          *)
Spoils(t) == Abandoned(t) \/ (t.kind = "data" /\ t.byte \in {"IAC", "NUL"})

(* The application gets the text the server sent, without the commands     *)
(* between, however TCP cuts the stream: in a command, between a carriage  *)
(* return and the NUL behind it, or anywhere else; and whatever becomes of *)
(* BINARY meanwhile.  Three things lose text, and no others: a byte that   *)
(* spoils it, a NUL behind a carriage return that is not stripped because  *)
(* the client has asked for BINARY and the server is not there yet         *)
(* (agreed), and a state left from the last connection (AllRead).          *)
TextIntact ==
    AllRead /\ agreed /\ (\A i \in DOMAIN sent : ~Spoils(sent[i])) =>
        received = Texts(sent)

Command(t) ==
    IF t.kind \in {"command", "suboption"} /\ ~Abandoned(t) THEN <<t>> ELSE <<>>

(* What the handlers have to hear of: every command but the subnegotiations *)
(* that are abandoned.                                                      *)
Commands(s) == FlattenSeq([i \in DOMAIN s |-> Command(s[i])])

(* A handler is called with the option of the command; for a subnegotiation *)
(* with its bytes, if suboptions can hold them.                             *)
Handles(call, t) ==
    IF t.kind = "command"
      THEN call = [verb |-> t.verb, option |-> t.option]
      ELSE /\ call.verb = "SB"
           /\ Len(t.payload) < Width => call.suboption = t.payload

(* Every command is handled once and in order, whatever text is between     *)
(* them, and nothing else is: a subnegotiation that is abandoned calls      *)
(* nobody, is the only one lost, and what is behind it is understood again. *)
CommandsIntact ==
    AllRead =>
        /\ Len(parser.calls) = Len(Commands(sent))
        /\ \A i \in DOMAIN Commands(sent) : Handles(parser.calls[i], Commands(sent)[i])
=============================================================================
