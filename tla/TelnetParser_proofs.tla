------------------------- MODULE TelnetParser_proofs -------------------------
(***************************************************************************)
(* What the parser makes of the server's stream, for any array size, any   *)
(* payloads, any state of BINARY and any number of tokens, wherever TCP    *)
(* cuts the stream: all of the commands but those it abandons, and all of  *)
(* the text but for the losses that TextIntact names.  What the parser     *)
(* does to a chunk is a fold, and that is where the module begins.         *)
(***************************************************************************)
EXTENDS TelnetParser, SequenceLemmas

-----------------------------------------------------------------------------
(* The fold over a chunk: f says what it makes of each part of it. *)

Iterates(f, p, q, n) ==
    f = [s \in SUBSET (1..n) |->
            IF s = {} THEN p ELSE ParseByte(f[s \ {Max(s)}], q[Max(s)])]

LEMMA Iteration ==
    ASSUME NEW p, NEW q, NEW n \in Nat
    PROVE  \E f : Iterates(f, p, q, n)
<1> DEFINE S == {k \in Nat : \E f : Iterates(f, p, q, k)}
<1>1. 0 \in S
    <2> DEFINE f == [s \in SUBSET (1..0) |-> p]
    <2>1. \A s \in SUBSET (1..0) : s = {}
        OBVIOUS
    <2>2. Iterates(f, p, q, 0)
        BY <2>1 DEF Iterates
    <2> QED BY <2>2
<1>2. ASSUME NEW n1 \in Nat, n1 \in S PROVE n1 + 1 \in S
    <2>1. PICK f : Iterates(f, p, q, n1)
        BY <1>2
    <2> DEFINE m == n1 + 1
               g == [s \in SUBSET (1..m) |->
                        IF m \in s THEN ParseByte(f[s \ {m}], q[m]) ELSE f[s]]
    <2>2. /\ m \in Nat /\ 1..m \subseteq Int /\ \A y \in 1..m : m >= y
          /\ \A y \in 1..m : y # m => y \in 1..n1
          /\ 1..n1 \subseteq 1..m /\ m \notin 1..n1
        OBVIOUS
    <2> HIDE DEF m
    <2>3. ASSUME NEW s \in SUBSET (1..m)
          PROVE  g[s] = IF s = {} THEN p ELSE ParseByte(g[s \ {Max(s)}], q[Max(s)])
        <3>1. CASE m \in s
            <4>1. Max(s) = m
                BY <2>2, <3>1, MaxIs
            <4>2. s \ {m} \in SUBSET (1..m) /\ m \notin s \ {m} /\ s # {}
                BY <3>1
            <4>3. g[s] = ParseByte(f[s \ {m}], q[m]) /\ g[s \ {m}] = f[s \ {m}]
                BY <3>1, <4>2
            <4> HIDE DEF g
            <4> QED BY <4>1, <4>2, <4>3
        <3>2. CASE m \notin s
            <4>1. s \in SUBSET (1..n1)
                BY <2>2, <3>2
            <4>2. f[s] = IF s = {} THEN p ELSE ParseByte(f[s \ {Max(s)}], q[Max(s)])
                BY <2>1, <4>1 DEF Iterates
            <4>3. s \ {Max(s)} \in SUBSET (1..m) /\ m \notin s \ {Max(s)}
                BY <3>2
            <4>4. g[s] = f[s] /\ g[s \ {Max(s)}] = f[s \ {Max(s)}]
                BY <3>2, <4>3
            <4> HIDE DEF g
            <4> QED BY <4>2, <4>4
        <3> QED BY <3>1, <3>2
    <2>4. Iterates(g, p, q, m)
        <3>1. g = [s \in SUBSET (1..m) |-> g[s]]
            OBVIOUS
        <3> HIDE DEF g
        <3> QED BY <2>3, <3>1 DEF Iterates
    <2> HIDE DEF g
    <2> QED BY <2>2, <2>4 DEF m
<1>3. n \in S
    <2> HIDE DEF S
    <2> QED BY <1>1, <1>2, Induction
<1> QED BY <1>3

LEMMA FoldIterates ==
    ASSUME NEW p, NEW q \in Seq(Byte)
    PROVE  \E f : Iterates(f, p, q, Len(q)) /\ ProcessTelnetProtocol(p, q) = f[1..Len(q)]
<1> DEFINE n == Len(q)
           f == CHOOSE f : Iterates(f, p, q, n)
<1>1. DOMAIN q = 1..n /\ n \in Nat
    OBVIOUS
<1>2. Iterates(f, p, q, n)
    BY <1>1, Iteration
<1>3. ProcessTelnetProtocol(p, q) = f[1..n]
    BY <1>1 DEF ProcessTelnetProtocol, FoldLeft, MapThenFoldSet, Iterates
<1> QED BY <1>2, <1>3

(* Only the bytes it has read matter. *)
LEMMA IterationsAgree ==
    ASSUME NEW p, NEW q, NEW r, NEW n \in Nat, NEW m \in Nat, NEW f, NEW g,
           Iterates(f, p, q, n), Iterates(g, p, r, m),
           NEW k \in Nat, k <= n, k <= m, Same(q, r, k)
    PROVE  f[1..k] = g[1..k]
<1> DEFINE S == {j \in Nat : j <= k => f[1..j] = g[1..j]}
<1>1. 0 \in S
    <2>1. 1..0 = {} /\ {} \in SUBSET (1..n) /\ {} \in SUBSET (1..m)
        OBVIOUS
    <2>2. f[{}] = p /\ g[{}] = p
        BY <2>1 DEF Iterates
    <2> QED BY <2>1, <2>2
<1>2. ASSUME NEW j \in Nat, j \in S PROVE j + 1 \in S
    <2> SUFFICES ASSUME j + 1 <= k PROVE f[1..(j + 1)] = g[1..(j + 1)]
        OBVIOUS
    <2> DEFINE s == 1..(j + 1)
    <2>1. /\ s \in SUBSET Int /\ j + 1 \in s /\ \A y \in s : j + 1 >= y
          /\ s # {} /\ s \ {j + 1} = 1..j
        BY Upto
    <2>6. s \in SUBSET (1..n) /\ s \in SUBSET (1..m) /\ j + 1 \in 1..k
        OBVIOUS
    <2> HIDE DEF s
    <2>2. Max(s) = j + 1
        BY <2>1, MaxIs
    <2>3. f[s] = ParseByte(f[s \ {Max(s)}], q[Max(s)])
        BY <2>1, <2>6 DEF Iterates
    <2>4. g[s] = ParseByte(g[s \ {Max(s)}], r[Max(s)])
        BY <2>1, <2>6 DEF Iterates
    <2>5. f[1..j] = g[1..j] /\ q[j + 1] = r[j + 1]
        BY <1>2, <2>6 DEF Same
    <2> QED BY <2>1, <2>2, <2>3, <2>4, <2>5 DEF s
<1>3. k \in S
    <2> HIDE DEF S
    <2> QED BY <1>1, <1>2, Induction
<1> QED BY <1>3

LEMMA ParseNothing ==
    ASSUME NEW p
    PROVE  ProcessTelnetProtocol(p, <<>>) = p
<1>1. <<>> \in Seq(Byte) /\ Len(<<>>) = 0
    OBVIOUS
<1>2. PICK f : Iterates(f, p, <<>>, 0) /\ ProcessTelnetProtocol(p, <<>>) = f[1..0]
    BY <1>1, FoldIterates
<1>3. 1..0 = {} /\ {} \in SUBSET (1..0)
    OBVIOUS
<1> QED BY <1>2, <1>3 DEF Iterates

LEMMA ParseAppend ==
    ASSUME NEW p, NEW q \in Seq(Byte), NEW b \in Byte
    PROVE  ProcessTelnetProtocol(p, Append(q, b)) = ParseByte(ProcessTelnetProtocol(p, q), b)
<1> DEFINE n == Len(q)
           r == Append(q, b)
           s == 1..(n + 1)
<1>1. /\ n \in Nat /\ n + 1 \in Nat
      /\ r \in Seq(Byte) /\ Len(r) = n + 1 /\ \A i \in 1..n : q[i] = r[i]
      /\ r[n + 1] = b
    BY AppendProperties
<1>2. PICK f : Iterates(f, p, q, n) /\ ProcessTelnetProtocol(p, q) = f[1..n]
    BY FoldIterates
<1>3. PICK g : Iterates(g, p, r, n + 1) /\ ProcessTelnetProtocol(p, r) = g[s]
    BY <1>1, FoldIterates
<1> HIDE DEF r, n
<1>4. /\ s \in SUBSET Int /\ n + 1 \in s /\ \A y \in s : n + 1 >= y
      /\ s # {} /\ s \ {n + 1} = 1..n
    BY <1>1, Upto
<1> HIDE DEF s
<1>5. Max(s) = n + 1
    BY <1>4, MaxIs
<1>6. g[s] = ParseByte(g[s \ {Max(s)}], r[Max(s)])
    BY <1>3, <1>4 DEF Iterates, s
<1>7. f[1..n] = g[1..n]
    <2>1. n <= n /\ n <= n + 1
        BY <1>1
    <2>2. Iterates(f, p, q, n) /\ Iterates(g, p, r, n + 1)
        BY <1>2, <1>3
    <2>3. n \in Nat /\ n + 1 \in Nat /\ Same(q, r, n)
        BY <1>1 DEF Same
    <2> QED BY <2>1, <2>2, <2>3, IterationsAgree
<1>8. ProcessTelnetProtocol(p, r) = ParseByte(ProcessTelnetProtocol(p, q), b)
    BY <1>1, <1>2, <1>3, <1>4, <1>5, <1>6, <1>7
<1> QED BY <1>8 DEF r

LEMMA ParseConcat ==
    ASSUME NEW p, NEW q \in Seq(Byte), NEW r \in Seq(Byte)
    PROVE  ProcessTelnetProtocol(p, q \o r)
               = ProcessTelnetProtocol(ProcessTelnetProtocol(p, q), r)
<1> DEFINE S == {r1 \in Seq(Byte) :
                    ProcessTelnetProtocol(p, q \o r1)
                        = ProcessTelnetProtocol(ProcessTelnetProtocol(p, q), r1)}
<1>1. <<>> \in S
    <2>1. <<>> \in Seq(Byte) /\ q \o <<>> = q
        BY ConcatEmptySeq
    <2> QED BY <2>1, ParseNothing
<1>2. ASSUME NEW r1 \in Seq(Byte), NEW b \in Byte, r1 \in S
      PROVE  Append(r1, b) \in S
    <2>1. Append(r1, b) \in Seq(Byte) /\ q \o r1 \in Seq(Byte)
        OBVIOUS
    <2>2. q \o Append(r1, b) = Append(q \o r1, b)
        BY ConcatAppend
    <2> DEFINE P(s) == ProcessTelnetProtocol(p, s)
    <2>3. P(q \o r1) = ProcessTelnetProtocol(P(q), r1)
        BY <1>2
    <2>4. P(Append(q \o r1, b)) = ParseByte(P(q \o r1), b)
        BY <2>1, ParseAppend
    <2>5. ProcessTelnetProtocol(P(q), Append(r1, b)) = ParseByte(ProcessTelnetProtocol(P(q), r1), b)
        BY ParseAppend
    <2>6. P(q \o Append(r1, b)) = ProcessTelnetProtocol(P(q), Append(r1, b))
        BY <2>2, <2>3, <2>4, <2>5
    <2> QED BY <2>1, <2>6
<1>3. Seq(Byte) \subseteq S
    <2> HIDE DEF S
    <2> QED BY <1>1, <1>2, SeqInduction
<1> QED BY <1>3

(* Chunks of one, two and three bytes. *)
LEMMA ParseOne ==
    ASSUME NEW p, NEW a \in Byte
    PROVE  ProcessTelnetProtocol(p, <<a>>) = ParseByte(p, a)
<1>1. <<>> \in Seq(Byte) /\ <<a>> = Append(<<>>, a)
    OBVIOUS
<1>2. ProcessTelnetProtocol(p, Append(<<>>, a)) = ParseByte(ProcessTelnetProtocol(p, <<>>), a)
    BY <1>1, ParseAppend
<1> QED BY <1>1, <1>2, ParseNothing, Zenon

LEMMA ParseTwo ==
    ASSUME NEW p, NEW a \in Byte, NEW b \in Byte
    PROVE  ProcessTelnetProtocol(p, <<a, b>>) = ParseByte(ParseByte(p, a), b)
<1> DEFINE q == <<a>>
<1>1. q \in Seq(Byte) /\ <<a, b>> = Append(q, b)
    OBVIOUS
<1>2. ProcessTelnetProtocol(p, q) = ParseByte(p, a)
    BY ParseOne
<1> HIDE DEF q
<1>3. ProcessTelnetProtocol(p, Append(q, b)) = ParseByte(ProcessTelnetProtocol(p, q), b)
    BY <1>1, ParseAppend
<1> QED BY <1>1, <1>2, <1>3, Zenon

LEMMA ParseThree ==
    ASSUME NEW p, NEW a \in Byte, NEW b \in Byte, NEW c \in Byte
    PROVE  ProcessTelnetProtocol(p, <<a, b, c>>) = ParseByte(ParseByte(ParseByte(p, a), b), c)
<1> DEFINE q == <<a, b>>
<1>1. q \in Seq(Byte) /\ <<a, b, c>> = Append(q, c)
    OBVIOUS
<1>2. ProcessTelnetProtocol(p, q) = ParseByte(ParseByte(p, a), b)
    BY ParseTwo
<1> HIDE DEF q
<1>3. ProcessTelnetProtocol(p, Append(q, c)) = ParseByte(ProcessTelnetProtocol(p, q), c)
    BY <1>1, ParseAppend
<1> QED BY <1>1, <1>2, <1>3, Zenon

-----------------------------------------------------------------------------
(* One byte.  The parser keeps its type, and the text of the chunk so far   *)
(* is written to and never read.                                            *)

Before(p, d) == [p EXCEPT !.data = d \o p.data]

LEMMA ParserFields ==
    ASSUME NEW p \in Parser
    PROVE  /\ p.currentState \in State /\ p.suboptionCount \in 0..(Width - 1)
           /\ p.suboptions \in [0..(Width - 1) -> Byte] /\ p.binary \in Binary
           /\ p.data \in Seq(Byte) /\ p.calls \in Seq(Call)
           /\ p = [currentState |-> p.currentState, suboptionCount |-> p.suboptionCount,
                   suboptions |-> p.suboptions, binary |-> p.binary, data |-> p.data,
                   calls |-> p.calls]
BY DEF Parser

LEMMA DataByteType ==
    ASSUME NEW p \in Parser, NEW b \in Byte
    PROVE  DataByte(p, b) \in Parser
<1>1. Append(p.data, b) \in Seq(Byte)
    BY ParserFields
<1> QED BY <1>1 DEF DataByte, Parser, State

LEMMA IacByteType ==
    ASSUME NEW p \in Parser, NEW b \in Byte
    PROVE  IacByte(p, b) \in Parser
<1>1. 0 \in 0..(Width - 1)
    BY ParserAssumption
<1> QED BY <1>1 DEF IacByte, Parser, State

LEMMA CallingType ==
    ASSUME NEW p \in Parser, NEW c \in Call
    PROVE  Calling(p, c) \in Parser
<1>1. Append(p.calls, c) \in Seq(Call)
    BY ParserFields
<1> QED BY <1>1 DEF Calling, Parser, State

(* The answer counter stays within the two requests of Connect. *)
LEMMA BinaryType ==
    ASSUME NEW o \in Binary
    PROVE  ProcessWill(o) \in Binary /\ ProcessWont(o) \in Binary
<1>1. /\ o.acceptRemote \in BOOLEAN /\ o.requestedDo \in BOOLEAN /\ o.stateIsDo \in BOOLEAN
      /\ o.doResponse \in 0..2
    BY DEF Binary
<1>2. \A repeated \in BOOLEAN : Answered(o.doResponse, repeated) \in 0..2
    BY <1>1 DEF Answered
<1>3. ProcessWill(o) \in Binary
    <2> DEFINE n == Answered(o.doResponse, o.stateIsDo)
               new == n = 0 /\ ~o.requestedDo
               m == IF new /\ ~o.acceptRemote THEN 1 ELSE n
               wanted == o.requestedDo \/ (new /\ o.acceptRemote)
    <2>1. m \in 0..2
        BY <1>1, <1>2
    <2>2. wanted \in BOOLEAN
        BY <1>1
    <2>3. ProcessWill(o) = [o EXCEPT !.doResponse = m, !.requestedDo = wanted, !.stateIsDo = TRUE]
        BY DEF ProcessWill
    <2> HIDE DEF m, wanted
    <2> QED BY <2>1, <2>2, <2>3 DEF Binary
<1>4. ProcessWont(o) \in Binary
    <2> DEFINE n == Answered(o.doResponse, ~o.stateIsDo)
               wanted == o.requestedDo /\ n # 0
    <2>1. n \in 0..2
        <3>1. (~o.stateIsDo) \in BOOLEAN
            OBVIOUS
        <3> QED BY <1>2, <3>1
    <2>2. wanted \in BOOLEAN
        OBVIOUS
    <2>3. ProcessWont(o) = [o EXCEPT !.doResponse = n, !.requestedDo = wanted, !.stateIsDo = FALSE]
        BY DEF ProcessWont
    <2> HIDE DEF n, wanted
    <2> QED BY <2>1, <2>2, <2>3 DEF Binary
<1> QED BY <1>3, <1>4

(* An option code calls a handler; it may change what is kept of BINARY. *)
LEMMA OptionCodeIs ==
    ASSUME NEW p \in Parser, p.currentState \in Verb, NEW b \in Byte
    PROVE  LET c == [verb |-> p.currentState, option |-> b]
               q == OptionCode(p, b)
           IN  /\ c \in Call /\ q \in Parser
               /\ q.data = p.data /\ q.calls = Append(p.calls, c) /\ q.currentState = "DATA"
<1> DEFINE c == [verb |-> p.currentState, option |-> b]
           r == Calling(p, c)
<1>1. c \in Call
    BY DEF Call
<1> HIDE DEF c
<1>2. r \in Parser
    BY <1>1, CallingType
<1>3. r.data = p.data /\ r.calls = Append(p.calls, c) /\ r.currentState = "DATA"
    BY DEF Calling, Parser
<1>4. r.binary \in Binary
    BY <1>2, ParserFields
<1>5. OptionCode(p, b) \in {r, [r EXCEPT !.binary = ProcessWill(r.binary)],
                               [r EXCEPT !.binary = ProcessWont(r.binary)]}
    BY DEF OptionCode, r, c
<1> HIDE DEF r
<1>6. ASSUME NEW o \in Binary
      PROVE  LET q == [r EXCEPT !.binary = o]
             IN  q \in Parser /\ q.data = r.data /\ q.calls = r.calls
                 /\ q.currentState = r.currentState
    BY <1>2 DEF Parser
<1>7. CASE OptionCode(p, b) = r
    BY <1>1, <1>2, <1>3, <1>7 DEF c
<1>8. CASE OptionCode(p, b) = [r EXCEPT !.binary = ProcessWill(r.binary)]
    <2>1. ProcessWill(r.binary) \in Binary
        BY <1>4, BinaryType
    <2> QED BY <1>1, <1>3, <1>6, <1>8, <2>1 DEF c
<1>9. CASE OptionCode(p, b) = [r EXCEPT !.binary = ProcessWont(r.binary)]
    <2>1. ProcessWont(r.binary) \in Binary
        BY <1>4, BinaryType
    <2> QED BY <1>1, <1>3, <1>6, <1>9, <2>1 DEF c
<1> QED BY <1>5, <1>7, <1>8, <1>9

LEMMA SuboptionByteType ==
    ASSUME NEW p \in Parser, NEW b \in Byte
    PROVE  SuboptionByte(p, b) \in Parser
<1>1. (p.suboptionCount + 1) % Width \in 0..(Width - 1)
    <2>1. p.suboptionCount + 1 \in Int /\ Width \in Nat /\ Width > 0
        BY ParserAssumption, ParserFields
    <2> QED BY <2>1
<1>2. [p.suboptions EXCEPT ![p.suboptionCount] = b] \in [0..(Width - 1) -> Byte]
    BY ParserFields
<1> QED BY <1>1, <1>2 DEF SuboptionByte, Parser, State

LEMMA SuboptionType ==
    ASSUME NEW p \in Parser
    PROVE  Suboption(p) \in Seq(Byte) /\ Len(Suboption(p)) = p.suboptionCount
<1>1. p.suboptionCount \in Nat /\ p.suboptionCount <= Width - 1
    BY ParserAssumption, ParserFields
<1>2. \A i \in 1..p.suboptionCount : i - 1 \in 0..(Width - 1)
    BY <1>1, ParserAssumption
<1>3. \A i \in 1..p.suboptionCount : p.suboptions[i - 1] \in Byte
    BY <1>2, ParserFields
<1> QED BY <1>1, <1>3 DEF Suboption

LEMMA ParseByteType ==
    ASSUME NEW p \in Parser, NEW b \in Byte
    PROVE  ParseByte(p, b) \in Parser
<1>1. CASE p.currentState = "DATA"
    BY <1>1, DataByteType DEF ParseByte, Verb
<1>2. CASE p.currentState = "CR"
    <2>1. ParseByte(p, b) = IF b = "NUL" THEN p ELSE DataByte(p, b)
        BY <1>2 DEF ParseByte, Verb
    <2> QED BY <2>1, DataByteType
<1>3. CASE p.currentState = "IAC"
    BY <1>3, IacByteType DEF ParseByte, Verb
<1>4. CASE p.currentState \in Verb
    <2>1. ParseByte(p, b) = OptionCode(p, b)
        BY <1>4 DEF ParseByte, Verb
    <2> QED BY <1>4, <2>1, OptionCodeIs
<1>5. CASE p.currentState = "SB"
    BY <1>5, SuboptionByteType DEF ParseByte, Verb
<1>6. CASE p.currentState = "IAC_SB"
    <2>1. [verb |-> "SB", suboption |-> Suboption(p)] \in Call
        BY SuboptionType DEF Call
    <2>2. [p EXCEPT !.currentState = "DATA"] \in Parser
        BY DEF Parser, State
    <2>3. ParseByte(p, b) = IF b = "SE" THEN Calling(p, [verb |-> "SB", suboption |-> Suboption(p)])
                                        ELSE [p EXCEPT !.currentState = "DATA"]
        BY <1>6 DEF ParseByte, Verb
    <2> QED BY <2>1, <2>2, <2>3, CallingType
<1> QED BY <1>1, <1>2, <1>3, <1>4, <1>5, <1>6, ParserFields DEF State

LEMMA BeforeType ==
    ASSUME NEW p \in Parser, NEW d \in Seq(Byte)
    PROVE  /\ Before(p, d) \in Parser
           /\ Before(p, d).currentState = p.currentState
           /\ Before(p, d).suboptionCount = p.suboptionCount
           /\ Before(p, d).suboptions = p.suboptions
           /\ Before(p, d).binary = p.binary
           /\ Before(p, d).data = d \o p.data
           /\ Before(p, d).calls = p.calls
<1>1. d \o p.data \in Seq(Byte)
    BY ParserFields
<1> QED BY <1>1 DEF Before, Parser

LEMMA DataByteBefore ==
    ASSUME NEW p \in Parser, NEW d \in Seq(Byte), NEW b \in Byte
    PROVE  DataByte(Before(p, d), b) = Before(DataByte(p, b), d)
<1>1. d \o Append(p.data, b) = Append(d \o p.data, b)
    BY ParserFields, ConcatAppend
<1> QED BY <1>1 DEF DataByte, Before, Parser

LEMMA OptionCodeBefore ==
    ASSUME NEW p \in Parser, p.currentState \in Verb, NEW d \in Seq(Byte), NEW b \in Byte
    PROVE  OptionCode(Before(p, d), b) = Before(OptionCode(p, b), d)
<1> DEFINE c == [verb |-> p.currentState, option |-> b]
           q == Before(p, d)
           r == Calling(p, c)
           s == Calling(q, c)
<1>1. q.currentState = p.currentState /\ c \in Call
    BY BeforeType DEF Call
<1>2. s = Before(r, d)
    BY <1>1 DEF Calling, Before, Parser
<1>3. r \in Parser
    BY <1>1, CallingType
<1>4. /\ OptionCode(p, b) = CASE b = OPTION_BINARY /\ p.currentState = "WILL" ->
                                    [r EXCEPT !.binary = ProcessWill(r.binary)]
                              [] b = OPTION_BINARY /\ p.currentState = "WONT" ->
                                    [r EXCEPT !.binary = ProcessWont(r.binary)]
                              [] OTHER -> r
      /\ OptionCode(q, b) = CASE b = OPTION_BINARY /\ p.currentState = "WILL" ->
                                    [s EXCEPT !.binary = ProcessWill(s.binary)]
                              [] b = OPTION_BINARY /\ p.currentState = "WONT" ->
                                    [s EXCEPT !.binary = ProcessWont(s.binary)]
                              [] OTHER -> s
    BY <1>1 DEF OptionCode
<1> HIDE DEF r, s
<1>5. s.binary = r.binary
    BY <1>2, <1>3, BeforeType
<1>6. ASSUME NEW o PROVE [s EXCEPT !.binary = o] = Before([r EXCEPT !.binary = o], d)
    BY <1>2, <1>3 DEF Before, Parser
<1>7. CASE b = OPTION_BINARY /\ p.currentState = "WILL"
    BY <1>4, <1>5, <1>6, <1>7
<1>8. CASE b = OPTION_BINARY /\ p.currentState = "WONT"
    BY <1>4, <1>5, <1>6, <1>8
<1>9. CASE ~(b = OPTION_BINARY /\ p.currentState \in {"WILL", "WONT"})
    BY <1>2, <1>4, <1>9
<1> QED BY <1>7, <1>8, <1>9

LEMMA ParseByteBefore ==
    ASSUME NEW p \in Parser, NEW d \in Seq(Byte), NEW b \in Byte
    PROVE  ParseByte(Before(p, d), b) = Before(ParseByte(p, b), d)
<1> DEFINE q == Before(p, d)
<1>1. /\ q.currentState = p.currentState /\ q.suboptionCount = p.suboptionCount
      /\ q.suboptions = p.suboptions /\ q.calls = p.calls /\ p.currentState \in State
    BY BeforeType, ParserFields
<1>2. CASE p.currentState = "DATA"
    <2>1. ParseByte(q, b) = DataByte(q, b) /\ ParseByte(p, b) = DataByte(p, b)
        BY <1>1, <1>2 DEF ParseByte, Verb
    <2> QED BY <2>1, DataByteBefore
<1>3. CASE p.currentState = "CR"
    <2>1. /\ ParseByte(q, b) = IF b = "NUL" THEN q ELSE DataByte(q, b)
          /\ ParseByte(p, b) = IF b = "NUL" THEN p ELSE DataByte(p, b)
        BY <1>1, <1>3 DEF ParseByte, Verb
    <2> QED BY <2>1, DataByteBefore
<1>4. CASE p.currentState = "IAC"
    <2>1. ParseByte(q, b) = IacByte(q, b) /\ ParseByte(p, b) = IacByte(p, b)
        BY <1>1, <1>4 DEF ParseByte, Verb
    <2>2. IacByte(q, b) = Before(IacByte(p, b), d)
        BY DEF IacByte, Before, Parser
    <2> QED BY <2>1, <2>2
<1>5. ASSUME NEW c \in Call PROVE Calling(q, c) = Before(Calling(p, c), d)
    BY DEF Calling, Before, Parser
<1>6. CASE p.currentState \in Verb
    <2>1. ParseByte(q, b) = OptionCode(q, b) /\ ParseByte(p, b) = OptionCode(p, b)
        BY <1>1, <1>6 DEF ParseByte, Verb
    <2> QED BY <1>6, <2>1, OptionCodeBefore
<1>7. CASE p.currentState = "SB"
    <2>1. ParseByte(q, b) = SuboptionByte(q, b) /\ ParseByte(p, b) = SuboptionByte(p, b)
        BY <1>1, <1>7 DEF ParseByte, Verb
    <2>2. SuboptionByte(q, b) = Before(SuboptionByte(p, b), d)
        BY DEF SuboptionByte, Before, Parser
    <2> QED BY <2>1, <2>2
<1>8. CASE p.currentState = "IAC_SB"
    <2> DEFINE c == [verb |-> "SB", suboption |-> Suboption(p)]
    <2>1. c \in Call
        BY SuboptionType DEF Call
    <2>2. Suboption(q) = Suboption(p)
        BY <1>1 DEF Suboption
    <2>3. /\ ParseByte(q, b) = IF b = "SE" THEN Calling(q, c) ELSE [q EXCEPT !.currentState = "DATA"]
          /\ ParseByte(p, b) = IF b = "SE" THEN Calling(p, c) ELSE [p EXCEPT !.currentState = "DATA"]
        BY <1>1, <1>8, <2>2 DEF ParseByte, Verb
    <2>4. [q EXCEPT !.currentState = "DATA"] = Before([p EXCEPT !.currentState = "DATA"], d)
        BY DEF Before, Parser
    <2> QED BY <1>5, <2>1, <2>3, <2>4
<1> QED BY <1>1, <1>2, <1>3, <1>4, <1>6, <1>7, <1>8 DEF State

LEMMA ParseType ==
    ASSUME NEW p \in Parser, NEW q \in Seq(Byte)
    PROVE  ProcessTelnetProtocol(p, q) \in Parser
<1> DEFINE P(r) == ProcessTelnetProtocol(p, r)
           S == {r \in Seq(Byte) : P(r) \in Parser}
<1>1. <<>> \in S
    BY ParseNothing
<1>2. ASSUME NEW r \in Seq(Byte), NEW b \in Byte, r \in S
      PROVE  Append(r, b) \in S
    <2>1. P(Append(r, b)) = ParseByte(P(r), b)
        BY ParseAppend
    <2>2. ParseByte(P(r), b) \in Parser
        BY <1>2, ParseByteType
    <2> HIDE DEF P
    <2> QED BY <1>2, <2>1, <2>2
<1>3. Seq(Byte) \subseteq S
    <2> HIDE DEF S
    <2> QED BY <1>1, <1>2, SeqInduction
<1> QED BY <1>3

(* Reading behind some text is reading, and putting the text in front. *)
LEMMA ParseBefore ==
    ASSUME NEW p \in Parser, NEW d \in Seq(Byte), NEW q \in Seq(Byte)
    PROVE  ProcessTelnetProtocol(Before(p, d), q) = Before(ProcessTelnetProtocol(p, q), d)
<1> DEFINE P(r) == ProcessTelnetProtocol(p, r)
           B(r) == ProcessTelnetProtocol(Before(p, d), r)
           S == {r \in Seq(Byte) : B(r) = Before(P(r), d)}
<1>1. <<>> \in S
    BY ParseNothing
<1>2. ASSUME NEW r \in Seq(Byte), NEW b \in Byte, r \in S
      PROVE  Append(r, b) \in S
    <2>1. P(Append(r, b)) = ParseByte(P(r), b) /\ B(Append(r, b)) = ParseByte(B(r), b)
        BY ParseAppend
    <2>2. P(r) \in Parser
        BY ParseType
    <2> HIDE DEF P, B
    <2>3. ParseByte(Before(P(r), d), b) = Before(ParseByte(P(r), b), d)
        BY <2>2, ParseByteBefore
    <2> QED BY <1>2, <2>1, <2>3
<1>3. Seq(Byte) \subseteq S
    <2> HIDE DEF S
    <2> QED BY <1>1, <1>2, SeqInduction
<1> QED BY <1>3

-----------------------------------------------------------------------------
(* One token, read where no command is under way. *)

Between == {"DATA", "CR"}

LEMMA Bytes ==
    /\ Plain \subseteq Byte /\ Verb \subseteq Byte
    /\ "IAC" \in Byte /\ "SB" \in Byte /\ "SE" \in Byte /\ "GA" \in Byte
    /\ "CR" \in Byte /\ "NUL" \in Byte /\ "LF" \in Byte /\ "LF" \in Plain
    /\ Plain \cap Special = {}
    /\ OptionByte \subseteq Byte /\ Payload \subseteq Seq(Byte)
    /\ "IAC" \notin Verb /\ "SB" \notin Verb /\ "GA" \notin Verb /\ "SE" \notin Verb
BY ParserAssumption DEF Byte, Special, Verb

LEMMA TokenCases ==
    ASSUME NEW t \in Token
    PROVE  \/ t.kind = "data" /\ t.byte \in Plain \cup {"IAC", "NUL"}
           \/ t.kind = "return" /\ t.mode \in {"NVT", "BINARY"}
           \/ t.kind = "newline"
           \/ t.kind = "signal"
           \/ t.kind = "command" /\ t.verb \in Verb /\ t.option \in OptionByte
           \/ t.kind = "suboption" /\ t.payload \in Payload
BY DEF Token

LEMMA ReadData ==
    ASSUME NEW p \in Parser, p.currentState \in Between,
           NEW b \in Byte, b # "IAC", b # "NUL"
    PROVE  LET e == ParseByte(p, b)
           IN  /\ e \in Parser /\ e.calls = p.calls
               /\ e.data = Append(p.data, b)
               /\ e.currentState = IF b = "CR" /\ ~p.binary.requestedDo THEN "CR" ELSE "DATA"
<1>1. ParseByte(p, b) = DataByte(p, b)
    BY DEF ParseByte, Between, Verb
<1>2. DataByte(p, b) \in Parser
    BY DataByteType
<1> QED BY <1>1, <1>2 DEF DataByte, Parser

LEMMA ReadIac ==
    ASSUME NEW p \in Parser, p.currentState \in Between
    PROVE  LET e == ParseByte(p, "IAC")
           IN  e \in Parser /\ e.calls = p.calls /\ e.data = p.data /\ e.currentState = "IAC"
<1>1. ParseByte(p, "IAC") = DataByte(p, "IAC")
    BY DEF ParseByte, Between, Verb
<1>2. DataByte(p, "IAC") \in Parser
    BY Bytes, DataByteType
<1> QED BY <1>1, <1>2 DEF DataByte, Parser

LEMMA ReadBehindIac ==
    ASSUME NEW p \in Parser, p.currentState = "IAC", NEW b \in Byte
    PROVE  LET e == ParseByte(p, b)
           IN  /\ e \in Parser /\ e.calls = p.calls /\ e.data = p.data
               /\ e.currentState = IF b \in Verb \cup {"SB"} THEN b ELSE "DATA"
               /\ b = "SB" => e.suboptionCount = 0
<1>1. ParseByte(p, b) = IacByte(p, b)
    BY DEF ParseByte, Verb
<1>2. IacByte(p, b) \in Parser
    BY IacByteType
<1> QED BY <1>1, <1>2 DEF IacByte, Parser

LEMMA ReadOption ==
    ASSUME NEW p \in Parser, p.currentState \in Verb, NEW b \in Byte
    PROVE  LET e == ParseByte(p, b)
           IN  /\ e \in Parser /\ e.data = p.data /\ e.currentState = "DATA"
               /\ e.calls = Append(p.calls, [verb |-> p.currentState, option |-> b])
<1>1. ParseByte(p, b) = OptionCode(p, b)
    BY DEF ParseByte, Verb
<1> QED BY <1>1, OptionCodeIs

(* A 255 that was doubled, or any other byte: no command begins. *)
LEMMA ReadEscaped ==
    ASSUME NEW p \in Parser, p.currentState \in Between, NEW b \in Byte
    PROVE  LET e == ProcessTelnetProtocol(p, Escaped(b))
           IN  /\ Escaped(b) \in Seq(Byte)
               /\ e \in Parser /\ e.calls = p.calls /\ e.currentState \in Between
<1>1. CASE b = "IAC"
    <2> DEFINE x == ParseByte(p, "IAC")
               y == ParseByte(x, "IAC")
    <2>1. Escaped(b) = <<"IAC", "IAC">> /\ Escaped(b) \in Seq(Byte)
        BY <1>1, Bytes DEF Escaped
    <2>2. x \in Parser /\ x.calls = p.calls /\ x.currentState = "IAC"
        BY ReadIac
    <2>3. ProcessTelnetProtocol(p, Escaped(b)) = y
        BY <2>1, Bytes, ParseTwo
    <2> HIDE DEF x
    <2>4. y \in Parser /\ y.calls = x.calls /\ y.currentState = "DATA"
        BY <2>2, Bytes, ReadBehindIac
    <2> HIDE DEF y
    <2> QED BY <2>1, <2>2, <2>3, <2>4 DEF Between
<1>2. CASE b # "IAC"
    <2>1. Escaped(b) = <<b>> /\ Escaped(b) \in Seq(Byte)
        BY <1>2 DEF Escaped
    <2>2. ProcessTelnetProtocol(p, Escaped(b)) = ParseByte(p, b)
        BY <2>1, ParseOne
    <2>3. CASE ParseByte(p, b) = p
        BY <2>1, <2>2, <2>3
    <2>4. CASE ParseByte(p, b) = DataByte(p, b)
        <3>1. DataByte(p, b) \in Parser
            BY DataByteType
        <3>2. DataByte(p, b).calls = p.calls /\ DataByte(p, b).currentState \in Between
            BY <1>2 DEF DataByte, Parser, Between
        <3> QED BY <2>1, <2>2, <2>4, <3>1, <3>2
    <2> QED BY <2>3, <2>4 DEF ParseByte, Between, Verb
<1> QED BY <1>1, <1>2

-----------------------------------------------------------------------------
(* A subnegotiation. *)

LEMMA EscapeAppend ==
    ASSUME NEW q \in Seq(Byte)
    PROVE  /\ Escape(q) \in Seq(Byte)
           /\ \A b \in Byte : Escape(Append(q, b)) = Escape(q) \o Escaped(b)
<1> DEFINE F == [b \in Byte |-> Escaped(b)]
<1>1. F \in [Byte -> Seq(Byte)]
    <2>1. \A b \in Byte : Escaped(b) \in Seq(Byte)
        BY Bytes DEF Escaped
    <2> QED BY <2>1
<1>2. ASSUME NEW r \in Seq(Byte) PROVE Escape(r) = FlatMap(F, r)
    <2>1. \A i \in DOMAIN r : r[i] \in Byte
        OBVIOUS
    <2> QED BY <2>1 DEF Escape, FlatMap, Each
<1>3. \A b \in Byte : F[b] = Escaped(b) /\ Append(q, b) \in Seq(Byte)
    OBVIOUS
<1> HIDE DEF F
<1>4. FlatMap(F, q) \in Seq(Byte)
    BY <1>1, FlatMapType
<1>5. \A b \in Byte : FlatMap(F, Append(q, b)) = FlatMap(F, q) \o F[b]
    BY <1>1, FlatMapAppend
<1> QED BY <1>2, <1>3, <1>4, <1>5

LEMMA EscapeNothing == Escape(<<>>) = <<>>
<1>1. DOMAIN <<>> = {}
    OBVIOUS
<1>2. [i \in DOMAIN <<>> |-> Escaped(<<>>[i])] = <<>>
    BY <1>1
<1> QED BY <1>2, FlattenNothing DEF Escape

LEMMA RangeAppend ==
    ASSUME NEW q \in Seq(Byte), NEW b \in Byte
    PROVE  Range(Append(q, b)) = Range(q) \cup {b}
<1> DEFINE r == Append(q, b)
<1>1. /\ DOMAIN r = 1..(Len(q) + 1) /\ DOMAIN q = 1..Len(q) /\ Len(q) \in Nat
      /\ r[Len(q) + 1] = b /\ \A i \in 1..Len(q) : r[i] = q[i]
    BY AppendProperties
<1>2. /\ 1..(Len(q) + 1) = 1..Len(q) \cup {Len(q) + 1}
    BY <1>1
<1> HIDE DEF r
<1>3. Range(r) = Range(q) \cup {b}
    BY <1>1, <1>2 DEF Range
<1> QED BY <1>3 DEF r

LEMMA Small ==
    ASSUME NEW a \in Nat, NEW w \in Nat, a < w
    PROVE  a % w = a
OBVIOUS

(* y holds the payload s, if its array can. *)
Holds(y, s) ==
    Len(s) < Width => /\ y.suboptionCount = Len(s)
                      /\ \A i \in 1..Len(s) : y.suboptions[i - 1] = s[i]

LEMMA ReadSuboptionByte ==
    ASSUME NEW x \in Parser, x.currentState = "SB", NEW r \in Seq(Byte), Holds(x, r),
           NEW b \in Byte, b # "IAC"
    PROVE  LET y == ParseByte(x, b)
           IN  /\ y.data = x.data /\ y.calls = x.calls /\ y.currentState = "SB"
               /\ Holds(y, Append(r, b))
<1> DEFINE y == ParseByte(x, b)
           s == Append(r, b)
<1>1. Width \in Nat /\ Width > 0
    BY ParserAssumption
<1>2. /\ Len(s) = Len(r) + 1 /\ Len(r) \in Nat /\ s[Len(r) + 1] = b
      /\ \A i \in 1..Len(r) : s[i] = r[i]
    BY AppendProperties
<1>3. y = SuboptionByte(x, b)
    BY DEF ParseByte, Verb
<1> HIDE DEF y, s
<1>4. /\ y.data = x.data /\ y.calls = x.calls /\ y.currentState = "SB"
      /\ y.suboptionCount = (x.suboptionCount + 1) % Width
      /\ y.suboptions = [x.suboptions EXCEPT ![x.suboptionCount] = b]
    BY <1>3 DEF SuboptionByte, Parser
<1>5. ASSUME Len(s) < Width
      PROVE  /\ y.suboptionCount = Len(s)
             /\ \A i \in 1..Len(s) : y.suboptions[i - 1] = s[i]
    <2>1. Len(r) < Width /\ Len(r) + 1 < Width
        BY <1>1, <1>2, <1>5
    <2>2. x.suboptionCount = Len(r) /\ \A i \in 1..Len(r) : x.suboptions[i - 1] = r[i]
        BY <2>1 DEF Holds
    <2>3. y.suboptionCount = Len(s)
        <3>1. (Len(r) + 1) % Width = Len(r) + 1
            <4>1. Len(r) + 1 \in Nat
                BY <1>2
            <4> QED BY <1>1, <2>1, <4>1, Small
        <3> QED BY <1>2, <1>4, <2>2, <3>1
    <2>4. ASSUME NEW i \in 1..Len(s)
          PROVE  y.suboptions[i - 1] = s[i]
        <3>1. x.suboptions \in [0..(Width - 1) -> Byte]
            BY ParserFields
        <3>2. CASE i = Len(r) + 1
            <4>1. i - 1 = Len(r) /\ Len(r) \in 0..(Width - 1)
                BY <1>1, <1>2, <2>1, <3>2
            <4>2. y.suboptions[Len(r)] = b
                BY <1>4, <2>2, <3>1, <4>1
            <4>3. s[i] = b
                BY <1>2, <3>2
            <4> QED BY <4>1, <4>2, <4>3
        <3>3. CASE i # Len(r) + 1
            <4>1. i \in 1..Len(r) /\ i - 1 \in 0..(Width - 1) /\ i - 1 # Len(r)
                BY <1>1, <1>2, <2>1, <3>3
            <4>2. y.suboptions[i - 1] = x.suboptions[i - 1]
                BY <1>4, <2>2, <3>1, <4>1
            <4> QED BY <1>2, <2>2, <4>1, <4>2
        <3> QED BY <3>2, <3>3
    <2> QED BY <2>3, <2>4
<1>6. Holds(y, s)
    BY <1>5 DEF Holds
<1> QED BY <1>4, <1>6 DEF y, s

(* The payload so far: held, or given up at a byte of 255, and what is       *)
(* behind it read as text.                                                   *)
Reads(p, e, q) ==
    /\ e \in Parser /\ e.calls = p.calls
    /\ "IAC" \in Range(q) => e.currentState \in Between
    /\ "IAC" \notin Range(q) => e.currentState = "SB" /\ e.data = p.data /\ Holds(e, q)

LEMMA ReadPayloadByte ==
    ASSUME NEW p \in Parser, NEW x, NEW r \in Seq(Byte), Reads(p, x, r), NEW b \in Byte
    PROVE  Reads(p, ProcessTelnetProtocol(x, Escaped(b)), Append(r, b))
<1> DEFINE y == ProcessTelnetProtocol(x, Escaped(b))
           s == Append(r, b)
<1>1. x \in Parser /\ x.calls = p.calls
    BY DEF Reads
<1>2. Range(s) = Range(r) \cup {b}
    BY RangeAppend
<1>3. CASE "IAC" \in Range(r)
    <2>1. x.currentState \in Between
        BY <1>3 DEF Reads
    <2>2. y \in Parser /\ y.calls = x.calls /\ y.currentState \in Between
        BY <1>1, <2>1, ReadEscaped
    <2> HIDE DEF y, s
    <2>3. Reads(p, y, s)
        BY <1>1, <1>2, <1>3, <2>2 DEF Reads
    <2> QED BY <2>3 DEF y, s
<1>4. CASE "IAC" \notin Range(r)
    <2>1. x.currentState = "SB" /\ x.data = p.data /\ Holds(x, r)
        BY <1>4 DEF Reads
    <2>2. CASE b = "IAC"
        <3> DEFINE u == [x EXCEPT !.currentState = "IAC_SB"]
                   v == [u EXCEPT !.currentState = "DATA"]
        <3>1. Escaped(b) = <<"IAC", "IAC">>
            BY <2>2 DEF Escaped
        <3>2. y = ParseByte(ParseByte(x, "IAC"), "IAC")
            BY <3>1, Bytes, ParseTwo
        <3>3. ParseByte(x, "IAC") = u
            BY <2>1 DEF ParseByte, SuboptionByte, Verb
        <3>4. u \in Parser /\ u.currentState = "IAC_SB" /\ u.calls = x.calls
            BY <1>1 DEF Parser, State
        <3> HIDE DEF u
        <3>5. ParseByte(u, "IAC") = v
            BY <3>4 DEF ParseByte, Verb
        <3>6. v \in Parser /\ v.currentState = "DATA" /\ v.calls = u.calls
            BY <3>4 DEF Parser, State
        <3>7. y = v
            BY <3>2, <3>3, <3>5
        <3> HIDE DEF v, y, s
        <3>8. Reads(p, y, s)
            BY <1>1, <1>2, <2>2, <3>4, <3>6, <3>7 DEF Reads, Between
        <3> QED BY <3>8 DEF y, s
    <2>3. CASE b # "IAC"
        <3>1. Escaped(b) = <<b>>
            BY <2>3 DEF Escaped
        <3>2. y = ParseByte(x, b)
            BY <3>1, ParseOne
        <3>3. ParseByte(x, b) \in Parser
            BY <1>1, ParseByteType
        <3>4. /\ y.data = x.data /\ y.calls = x.calls /\ y.currentState = "SB"
              /\ Holds(y, s)
            BY <1>1, <2>1, <2>3, <3>2, ReadSuboptionByte
        <3> HIDE DEF y, s
        <3>5. "IAC" \notin Range(s)
            BY <1>2, <1>4, <2>3
        <3>6. Reads(p, y, s)
            BY <1>1, <2>1, <3>2, <3>3, <3>4, <3>5 DEF Reads
        <3> QED BY <3>6 DEF y, s
    <2> QED BY <2>2, <2>3
<1> QED BY <1>3, <1>4

LEMMA ReadPayload ==
    ASSUME NEW p \in Parser, p.currentState = "SB", p.suboptionCount = 0,
           NEW q \in Seq(Byte)
    PROVE  Reads(p, ProcessTelnetProtocol(p, Escape(q)), q)
<1> DEFINE P(r) == ProcessTelnetProtocol(p, Escape(r))
           S == {r \in Seq(Byte) : Reads(p, P(r), r)}
<1>1. <<>> \in S
    <2>1. P(<<>>) = p
        BY EscapeNothing, ParseNothing
    <2>2. "IAC" \notin Range(<<>>)
        BY DEF Range
    <2>3. Holds(p, <<>>)
        BY DEF Holds
    <2>4. Reads(p, p, <<>>)
        BY <2>2, <2>3 DEF Reads
    <2> QED BY <2>1, <2>4
<1>2. ASSUME NEW r \in Seq(Byte), NEW b \in Byte, r \in S
      PROVE  Append(r, b) \in S
    <2>1. Escape(r) \in Seq(Byte) /\ Escape(Append(r, b)) = Escape(r) \o Escaped(b)
        BY EscapeAppend
    <2>2. Escaped(b) \in Seq(Byte)
        BY Bytes DEF Escaped
    <2>3. P(Append(r, b)) = ProcessTelnetProtocol(P(r), Escaped(b))
        BY <2>1, <2>2, ParseConcat
    <2>4. Reads(p, P(r), r)
        BY <1>2
    <2> HIDE DEF P
    <2>5. Reads(p, P(Append(r, b)), Append(r, b))
        BY <2>3, <2>4, ReadPayloadByte
    <2> QED BY <2>5
<1>3. q \in S
    <2> HIDE DEF S
    <2>1. Seq(Byte) \subseteq S
        BY <1>1, <1>2, SeqInduction
    <2> QED BY <2>1
<1> QED BY <1>3

-----------------------------------------------------------------------------
(* What becomes of each token. *)

(* The text of t is not lost on p. *)
Clean(p, t) ==
    /\ ~Spoils(t)
    /\ t.kind = "return" /\ t.mode = "NVT" => ~p.binary.requestedDo

(* e is p after a token: its text has come out, and its command was handled. *)
Takes(p, e, t) ==
    /\ e \in Parser /\ e.currentState \in Between
    /\ Clean(p, t) => e.data = p.data \o Text(t)
    /\ \/ Command(t) = <<>> /\ e.calls = p.calls
       \/ /\ Command(t) = <<t>>
          /\ \E c \in Call : e.calls = Append(p.calls, c) /\ Handles(c, t)

NulFree(s) == \A i \in 1..Len(s) : s[i] # "NUL"

LEMMA TextType ==
    ASSUME NEW t \in Token
    PROVE  Text(t) \in Seq(Byte) /\ (~Spoils(t) => NulFree(Text(t)))
<1>1. ASSUME NEW b \in Byte
      PROVE  <<b>> \in Seq(Byte) /\ (b # "NUL" => NulFree(<<b>>))
    <2>1. Len(<<b>>) = 1 /\ \A i \in 1..1 : <<b>>[i] = b
        OBVIOUS
    <2> QED BY <2>1 DEF NulFree
<1>2. CASE t.kind = "data"
    <2>1. Text(t) = <<t.byte>> /\ t.byte \in Byte
        BY <1>2, TokenCases, Bytes DEF Text
    <2>2. ~Spoils(t) => t.byte # "NUL"
        BY <1>2 DEF Spoils
    <2> QED BY <1>1, <2>1, <2>2
<1>3. CASE t.kind = "return"
    <2>1. Text(t) = <<"CR">>
        BY <1>3 DEF Text
    <2> QED BY <1>1, <2>1, Bytes
<1>4. CASE t.kind = "newline"
    <2>1. Text(t) = <<"CR", "LF">>
        BY <1>4 DEF Text
    <2>2. Text(t) \in Seq(Byte)
        BY <2>1, Bytes
    <2>3. \A i \in 1..2 : <<"CR", "LF">>[i] # "NUL"
        OBVIOUS
    <2>4. Len(<<"CR", "LF">>) = 2
        OBVIOUS
    <2> QED BY <2>1, <2>2, <2>3, <2>4 DEF NulFree
<1>5. CASE t.kind \in {"signal", "command", "suboption"}
    <2>1. Text(t) = <<>>
        BY <1>5 DEF Text
    <2> QED BY <2>1 DEF NulFree
<1> QED BY <1>2, <1>3, <1>4, <1>5, TokenCases

LEMMA TakesData ==
    ASSUME NEW p \in Parser, p.currentState \in Between, NEW t \in Token, t.kind = "data"
    PROVE  Encode(t) \in Seq(Byte) /\ Takes(p, ProcessTelnetProtocol(p, Encode(t)), t)
<1> DEFINE e == ProcessTelnetProtocol(p, Encode(t))
<1>1. /\ Command(t) = <<>> /\ Text(t) = <<t.byte>> /\ Encode(t) = Escaped(t.byte)
      /\ t.byte \in Byte /\ (Spoils(t) <=> t.byte \in {"IAC", "NUL"})
    BY TokenCases, Bytes DEF Command, Text, Encode, Spoils, Abandoned
<1>2. Encode(t) \in Seq(Byte) /\ e \in Parser /\ e.calls = p.calls /\ e.currentState \in Between
    BY <1>1, ReadEscaped
<1>3. ASSUME Clean(p, t) PROVE e.data = p.data \o Text(t)
    <2>1. t.byte # "IAC" /\ t.byte # "NUL"
        BY <1>1, <1>3 DEF Clean
    <2>2. e = ParseByte(p, t.byte)
        <3>1. Encode(t) = <<t.byte>>
            BY <1>1, <2>1 DEF Escaped
        <3> QED BY <1>1, <3>1, ParseOne
    <2>3. ParseByte(p, t.byte).data = Append(p.data, t.byte)
        BY <1>1, <2>1, ReadData
    <2>4. p.data \o Text(t) = Append(p.data, t.byte)
        BY <1>1, ParserFields, Associative
    <2> QED BY <2>2, <2>3, <2>4
<1> HIDE DEF e
<1>4. Takes(p, e, t)
    BY <1>1, <1>2, <1>3 DEF Takes
<1> QED BY <1>2, <1>4 DEF e

LEMMA TakesReturn ==
    ASSUME NEW p \in Parser, p.currentState \in Between, NEW t \in Token, t.kind = "return"
    PROVE  Encode(t) \in Seq(Byte) /\ Takes(p, ProcessTelnetProtocol(p, Encode(t)), t)
<1> DEFINE e == ProcessTelnetProtocol(p, Encode(t))
           x == ParseByte(p, "CR")
           y == ParseByte(x, "NUL")
<1>1. Command(t) = <<>> /\ Text(t) = <<"CR">>
    BY DEF Command, Text
<1>2. /\ x \in Parser /\ x.calls = p.calls /\ x.data = Append(p.data, "CR")
      /\ x.currentState = IF ~p.binary.requestedDo THEN "CR" ELSE "DATA"
    BY Bytes, ReadData
<1>3. p.data \o Text(t) = Append(p.data, "CR")
    BY <1>1, Bytes, ParserFields, Associative
<1>4. CASE t.mode = "NVT"
    <2>1. Encode(t) = <<"CR", "NUL">> /\ Encode(t) \in Seq(Byte)
        BY <1>4, Bytes DEF Encode
    <2>2. e = y
        BY <2>1, Bytes, ParseTwo
    <2>3. y \in Parser /\ y.calls = x.calls /\ y.currentState \in Between
        <3>1. x.currentState \in Between
            BY <1>2 DEF Between
        <3>2. Escaped("NUL") = <<"NUL">>
            BY DEF Escaped
        <3>3. ProcessTelnetProtocol(x, Escaped("NUL")) = y
            BY <3>2, Bytes, ParseOne
        <3> HIDE DEF x, y
        <3> QED BY <1>2, <3>1, <3>3, Bytes, ReadEscaped
    <2>4. ASSUME Clean(p, t) PROVE y = x
        <3>1. x.currentState = "CR"
            BY <1>2, <1>4, <2>4 DEF Clean
        <3> QED BY <3>1 DEF ParseByte, Verb
    <2> HIDE DEF x, y, e
    <2>5. Takes(p, e, t)
        BY <1>1, <1>2, <1>3, <2>2, <2>3, <2>4 DEF Takes
    <2> QED BY <2>1, <2>5 DEF e
<1>5. CASE t.mode # "NVT"
    <2>1. Encode(t) = <<"CR">> /\ Encode(t) \in Seq(Byte)
        BY <1>5, Bytes DEF Encode
    <2>2. e = x
        BY <2>1, Bytes, ParseOne
    <2>3. x.currentState \in Between
        BY <1>2 DEF Between
    <2> HIDE DEF x, y, e
    <2>4. Takes(p, e, t)
        BY <1>1, <1>2, <1>3, <2>2, <2>3 DEF Takes
    <2> QED BY <2>1, <2>4 DEF e
<1> QED BY <1>4, <1>5

LEMMA TakesNewline ==
    ASSUME NEW p \in Parser, p.currentState \in Between, NEW t \in Token, t.kind = "newline"
    PROVE  Encode(t) \in Seq(Byte) /\ Takes(p, ProcessTelnetProtocol(p, Encode(t)), t)
<1> DEFINE x == ParseByte(p, "CR")
           y == ParseByte(x, "LF")
<1>1. Encode(t) = <<"CR", "LF">> /\ Text(t) = <<"CR", "LF">> /\ Command(t) = <<>>
    BY DEF Encode, Text, Command
<1>2. x \in Parser /\ x.calls = p.calls /\ x.data = Append(p.data, "CR")
      /\ x.currentState \in Between
    BY Bytes, ReadData DEF Between
<1>3. ProcessTelnetProtocol(p, Encode(t)) = y
    BY <1>1, Bytes, ParseTwo
<1> HIDE DEF x
<1>4. y \in Parser /\ y.calls = x.calls /\ y.data = Append(x.data, "LF")
      /\ y.currentState \in Between
    <2>1. "LF" # "CR" /\ "LF" # "IAC" /\ "LF" # "NUL" /\ "LF" \in Byte
        BY Bytes
    <2> QED BY <1>2, <2>1, ReadData DEF Between
<1>5. p.data \o Text(t) = Append(Append(p.data, "CR"), "LF")
    <2>1. p.data \in Seq(Byte) /\ "CR" \in Byte /\ "LF" \in Byte
        BY Bytes, ParserFields
    <2>2. p.data \o <<"CR", "LF">> = Append(Append(p.data, "CR"), "LF")
        BY <2>1, ConcatTwo
    <2> QED BY <1>1, <2>2
<1>6. Encode(t) \in Seq(Byte)
    BY <1>1, Bytes
<1> HIDE DEF y
<1> QED BY <1>1, <1>2, <1>3, <1>4, <1>5, <1>6 DEF Takes

LEMMA TakesSignal ==
    ASSUME NEW p \in Parser, p.currentState \in Between, NEW t \in Token, t.kind = "signal"
    PROVE  Encode(t) \in Seq(Byte) /\ Takes(p, ProcessTelnetProtocol(p, Encode(t)), t)
<1> DEFINE x == ParseByte(p, "IAC")
           y == ParseByte(x, "GA")
<1>1. Encode(t) = <<"IAC", "GA">> /\ Text(t) = <<>> /\ Command(t) = <<>>
    BY DEF Encode, Text, Command
<1>2. x \in Parser /\ x.calls = p.calls /\ x.data = p.data /\ x.currentState = "IAC"
    BY ReadIac
<1>3. ProcessTelnetProtocol(p, Encode(t)) = y
    BY <1>1, Bytes, ParseTwo
<1> HIDE DEF x
<1>4. y \in Parser /\ y.calls = x.calls /\ y.data = x.data /\ y.currentState = "DATA"
    BY <1>2, Bytes, ReadBehindIac
<1> HIDE DEF y
<1>5. p.data \o Text(t) = p.data
    BY <1>1, ParserFields, ConcatEmptySeq
<1>6. Encode(t) \in Seq(Byte)
    BY <1>1, Bytes
<1> QED BY <1>1, <1>2, <1>3, <1>4, <1>5, <1>6 DEF Takes, Between

LEMMA TakesCommand ==
    ASSUME NEW p \in Parser, p.currentState \in Between, NEW t \in Token, t.kind = "command"
    PROVE  Encode(t) \in Seq(Byte) /\ Takes(p, ProcessTelnetProtocol(p, Encode(t)), t)
<1> DEFINE x == ParseByte(p, "IAC")
           y == ParseByte(x, t.verb)
           z == ParseByte(y, t.option)
           c == [verb |-> t.verb, option |-> t.option]
<1>1. /\ Encode(t) = <<"IAC", t.verb, t.option>> /\ Text(t) = <<>> /\ Command(t) = <<t>>
      /\ t.verb \in Verb /\ t.verb \in Byte /\ t.option \in Byte
    BY TokenCases, Bytes DEF Encode, Text, Command, Abandoned
<1>2. x \in Parser /\ x.calls = p.calls /\ x.data = p.data /\ x.currentState = "IAC"
    BY ReadIac
<1>3. ProcessTelnetProtocol(p, Encode(t)) = z
    BY <1>1, Bytes, ParseThree
<1> HIDE DEF x
<1>4. y \in Parser /\ y.calls = x.calls /\ y.data = x.data /\ y.currentState = t.verb
    BY <1>1, <1>2, ReadBehindIac
<1> HIDE DEF y
<1>5. z \in Parser /\ z.data = y.data /\ z.currentState = "DATA"
      /\ z.calls = Append(y.calls, c)
    BY <1>1, <1>4, ReadOption
<1> HIDE DEF z
<1>6. c \in Call /\ Handles(c, t)
    BY <1>1 DEF Call, Handles
<1> HIDE DEF c
<1>7. p.data \o Text(t) = p.data
    BY <1>1, ParserFields, ConcatEmptySeq
<1>8. Encode(t) \in Seq(Byte)
    BY <1>1, Bytes
<1> QED BY <1>1, <1>2, <1>3, <1>4, <1>5, <1>6, <1>7, <1>8 DEF Takes, Between

(* The end of a subnegotiation that was not given up. *)
LEMMA ReadEnd ==
    ASSUME NEW y \in Parser, y.currentState = "SB"
    PROVE  LET z == ParseByte(ParseByte(y, "IAC"), "SE")
               c == [verb |-> "SB", suboption |-> Suboption(y)]
           IN  /\ z \in Parser /\ z.data = y.data /\ z.currentState = "DATA"
               /\ c \in Call /\ z.calls = Append(y.calls, c)
<1> DEFINE u == [y EXCEPT !.currentState = "IAC_SB"]
           z == ParseByte(ParseByte(y, "IAC"), "SE")
           c == [verb |-> "SB", suboption |-> Suboption(y)]
<1>1. ParseByte(y, "IAC") = u
    BY DEF ParseByte, SuboptionByte, Verb
<1>2. /\ u \in Parser /\ u.currentState = "IAC_SB" /\ u.data = y.data
      /\ u.calls = y.calls /\ u.suboptions = y.suboptions
      /\ u.suboptionCount = y.suboptionCount
    BY DEF Parser, State
<1> HIDE DEF u
<1>3. Suboption(u) = Suboption(y)
    BY <1>2 DEF Suboption
<1>4. z = Calling(u, c)
    BY <1>1, <1>2, <1>3 DEF ParseByte, Verb
<1>5. c \in Call
    BY SuboptionType DEF Call
<1> HIDE DEF c, z
<1>6. z \in Parser
    BY <1>2, <1>4, <1>5, CallingType
<1>7. z.data = u.data /\ z.currentState = "DATA" /\ z.calls = Append(u.calls, c)
    BY <1>2, <1>4 DEF Calling, Parser
<1> QED BY <1>2, <1>5, <1>6, <1>7 DEF z, c

LEMMA TakesSuboption ==
    ASSUME NEW p \in Parser, p.currentState \in Between, NEW t \in Token, t.kind = "suboption"
    PROVE  Encode(t) \in Seq(Byte) /\ Takes(p, ProcessTelnetProtocol(p, Encode(t)), t)
<1> DEFINE q == Escape(t.payload)
           A == <<"IAC", "SB">>
           B == <<"IAC", "SE">>
           w == ParseByte(p, "IAC")
           x == ParseByte(w, "SB")
           y == ProcessTelnetProtocol(x, q)
           z == ParseByte(ParseByte(y, "IAC"), "SE")
           c == [verb |-> "SB", suboption |-> Suboption(y)]
<1>1. /\ Encode(t) = (A \o q) \o B /\ Text(t) = <<>>
      /\ t.payload \in Seq(Byte) /\ q \in Seq(Byte)
    <2>1. Encode(t) = <<"IAC", "SB">> \o Escape(t.payload) \o <<"IAC", "SE">>
        BY DEF Encode
    <2>2. t.payload \in Seq(Byte)
        BY TokenCases, Bytes
    <2>3. q \in Seq(Byte)
        BY <2>2, EscapeAppend
    <2>4. Text(t) = <<>>
        BY DEF Text
    <2> QED BY <2>1, <2>2, <2>3, <2>4
<1>2. A \in Seq(Byte) /\ B \in Seq(Byte)
    BY Bytes
<1>3. w \in Parser /\ w.calls = p.calls /\ w.data = p.data /\ w.currentState = "IAC"
    BY ReadIac
<1>4. ProcessTelnetProtocol(p, A) = x
    BY Bytes, ParseTwo
<1>5. ProcessTelnetProtocol(y, B) = z
    BY Bytes, ParseTwo
<1> HIDE DEF w, A, B
<1>6. x \in Parser /\ x.calls = w.calls /\ x.data = w.data
      /\ x.currentState = "SB" /\ x.suboptionCount = 0
    BY <1>3, Bytes, ReadBehindIac
<1> HIDE DEF x
<1>7. Reads(x, y, t.payload)
    BY <1>1, <1>6, ReadPayload
<1>8. ProcessTelnetProtocol(p, Encode(t)) = z
    <2> HIDE DEF q
    <2>1. A \o q \in Seq(Byte)
        BY <1>1, <1>2, Associative
    <2>2. ProcessTelnetProtocol(p, A \o q) = y
        BY <1>1, <1>2, <1>4, ParseConcat
    <2> HIDE DEF y, z
    <2>3. ProcessTelnetProtocol(p, (A \o q) \o B)
              = ProcessTelnetProtocol(ProcessTelnetProtocol(p, A \o q), B)
        BY <1>2, <2>1, ParseConcat
    <2> QED BY <1>1, <1>5, <2>2, <2>3
<1>9. Encode(t) \in Seq(Byte)
    <2> HIDE DEF q
    <2> QED BY <1>1, <1>2, Associative
<1> HIDE DEF y
<1>10. Abandoned(t) <=> "IAC" \in Range(t.payload)
    BY DEF Abandoned
<1>11. CASE Abandoned(t)
    <2>1. y \in Parser /\ y.currentState \in Between /\ y.calls = x.calls
        BY <1>7, <1>10, <1>11 DEF Reads
    <2> DEFINE u == ParseByte(y, "IAC")
    <2>2. u \in Parser /\ u.currentState = "IAC" /\ u.calls = y.calls
        BY <2>1, ReadIac
    <2> HIDE DEF u
    <2>3. ParseByte(u, "SE").currentState = "DATA" /\ ParseByte(u, "SE").calls = u.calls
          /\ ParseByte(u, "SE") \in Parser
        BY <2>2, Bytes, ReadBehindIac
    <2>4. z = ParseByte(u, "SE")
        BY DEF u
    <2>5. Command(t) = <<>> /\ Spoils(t)
        BY <1>11 DEF Command, Spoils
    <2> HIDE DEF z
    <2>6. Takes(p, z, t)
        BY <1>3, <1>6, <2>1, <2>2, <2>3, <2>4, <2>5 DEF Takes, Clean, Between
    <2> QED BY <1>8, <1>9, <2>6
<1>12. CASE ~Abandoned(t)
    <2>1. y \in Parser /\ y.currentState = "SB" /\ y.calls = x.calls /\ y.data = x.data
          /\ Holds(y, t.payload)
        BY <1>7, <1>10, <1>12 DEF Reads
    <2>2. /\ z \in Parser /\ z.data = y.data /\ z.currentState = "DATA"
          /\ c \in Call /\ z.calls = Append(y.calls, c)
        BY <2>1, ReadEnd
    <2>3. Handles(c, t)
        <3>1. Suboption(y) \in Seq(Byte) /\ Len(Suboption(y)) = y.suboptionCount
            BY <2>1, SuboptionType
        <3>2. ASSUME Len(t.payload) < Width PROVE Suboption(y) = t.payload
            <4>1. y.suboptionCount = Len(t.payload)
                  /\ \A i \in 1..Len(t.payload) : y.suboptions[i - 1] = t.payload[i]
                BY <2>1, <3>2 DEF Holds
            <4>2. \A i \in 1..Len(t.payload) : Suboption(y)[i] = t.payload[i]
                BY <4>1 DEF Suboption
            <4> QED BY <1>1, <3>1, <4>1, <4>2, SeqEqual
        <3>3. c.verb = "SB" /\ c.suboption = Suboption(y)
            OBVIOUS
        <3> QED BY <3>2, <3>3 DEF Handles
    <2>4. Command(t) = <<t>>
        BY <1>12 DEF Command
    <2>5. p.data \o Text(t) = p.data
        BY <1>1, ParserFields, ConcatEmptySeq
    <2> HIDE DEF c, z
    <2>6. Takes(p, z, t)
        BY <1>3, <1>6, <2>1, <2>2, <2>3, <2>4, <2>5 DEF Takes, Between
    <2> QED BY <1>8, <1>9, <2>6
<1> QED BY <1>11, <1>12

LEMMA TakesToken ==
    ASSUME NEW p \in Parser, p.currentState \in Between, NEW t \in Token
    PROVE  Encode(t) \in Seq(Byte) /\ Takes(p, ProcessTelnetProtocol(p, Encode(t)), t)
BY TokenCases, TakesData, TakesReturn, TakesNewline, TakesSignal, TakesCommand, TakesSuboption

-----------------------------------------------------------------------------
(* The text and the commands of what was sent. *)

LEMMA TextsAppend ==
    ASSUME NEW s \in Seq(Token)
    PROVE  /\ Texts(s) \in Seq(Byte)
           /\ \A t \in Token : Texts(Append(s, t)) = Texts(s) \o Text(t)
<1> DEFINE F == [t \in Token |-> Text(t)]
<1>1. F \in [Token -> Seq(Byte)]
    BY TextType
<1>2. ASSUME NEW r \in Seq(Token) PROVE Texts(r) = FlatMap(F, r)
    <2>1. \A i \in DOMAIN r : r[i] \in Token
        OBVIOUS
    <2> QED BY <2>1 DEF Texts, FlatMap, Each
<1>3. \A t \in Token : F[t] = Text(t) /\ Append(s, t) \in Seq(Token)
    OBVIOUS
<1> HIDE DEF F
<1>4. FlatMap(F, s) \in Seq(Byte)
    BY <1>1, FlatMapType
<1>5. \A t \in Token : FlatMap(F, Append(s, t)) = FlatMap(F, s) \o F[t]
    BY <1>1, FlatMapAppend
<1> QED BY <1>2, <1>3, <1>4, <1>5

LEMMA CommandsAppend ==
    ASSUME NEW s \in Seq(Token)
    PROVE  /\ Commands(s) \in Seq(Token)
           /\ \A t \in Token : Commands(Append(s, t)) = Commands(s) \o Command(t)
<1> DEFINE F == [t \in Token |-> Command(t)]
<1>1. F \in [Token -> Seq(Token)]
    <2>1. \A t \in Token : Command(t) \in Seq(Token)
        BY DEF Command
    <2> QED BY <2>1
<1>2. ASSUME NEW r \in Seq(Token) PROVE Commands(r) = FlatMap(F, r)
    <2>1. \A i \in DOMAIN r : r[i] \in Token
        OBVIOUS
    <2> QED BY <2>1 DEF Commands, FlatMap, Each
<1>3. \A t \in Token : F[t] = Command(t) /\ Append(s, t) \in Seq(Token)
    OBVIOUS
<1> HIDE DEF F
<1>4. FlatMap(F, s) \in Seq(Token)
    BY <1>1, FlatMapType
<1>5. \A t \in Token : FlatMap(F, Append(s, t)) = FlatMap(F, s) \o F[t]
    BY <1>1, FlatMapAppend
<1> QED BY <1>2, <1>3, <1>4, <1>5

(* No text was lost to a byte. *)
Unspoilt(s) == \A i \in DOMAIN s : ~Spoils(s[i])

LEMMA UnspoiltAppend ==
    ASSUME NEW s \in Seq(Token), NEW t \in Token, Unspoilt(Append(s, t))
    PROVE  Unspoilt(s) /\ ~Spoils(t)
<1> DEFINE r == Append(s, t)
<1>1. /\ DOMAIN r = 1..(Len(s) + 1) /\ DOMAIN s = 1..Len(s) /\ Len(s) \in Nat
      /\ r[Len(s) + 1] = t /\ \A i \in 1..Len(s) : r[i] = s[i]
    BY AppendProperties
<1>2. Len(s) + 1 \in 1..(Len(s) + 1) /\ 1..Len(s) \subseteq 1..(Len(s) + 1)
    BY <1>1
<1>3. \A i \in DOMAIN r : ~Spoils(r[i])
    BY DEF Unspoilt
<1> HIDE DEF r
<1> QED BY <1>1, <1>2, <1>3 DEF Unspoilt

LEMMA NothingSent == Texts(<<>>) = <<>> /\ Commands(<<>>) = <<>>
<1>1. DOMAIN <<>> = {}
    OBVIOUS
<1>2. [i \in DOMAIN <<>> |-> Text(<<>>[i])] = <<>> /\ [i \in DOMAIN <<>> |-> Command(<<>>[i])] = <<>>
    BY <1>1
<1> QED BY <1>2, FlattenNothing DEF Texts, Commands

-----------------------------------------------------------------------------
(* What is given to the application is all of the text, if no NUL is in it. *)

LEMMA CStringType ==
    ASSUME NEW d \in Seq(Byte)
    PROVE  CString(d) \in Seq(Byte) /\ (NulFree(d) => CString(d) = d)
<1> DEFINE I == {i \in 1..Len(d) : d[i] = "NUL"}
           k == SelectInSeq(d, LAMBDA b : b = "NUL")
<1>1. k = IF I # {} THEN Min(I) ELSE 0
    BY DEF SelectInSeq
<1>2. CString(d) = IF k = 0 THEN d ELSE SubSeq(d, 1, k - 1)
    BY DEF CString
<1>3. NulFree(d) => I = {}
    BY DEF NulFree
<1>4. ASSUME I # {} PROVE k \in 1..Len(d)
    <2>1. I \in SUBSET Nat
        OBVIOUS
    <2>2. Min(I) \in I
        BY <1>4, <2>1, MinNat
    <2> QED BY <1>1, <1>4, <2>2
<1> HIDE DEF k
<1>5. ASSUME I # {} PROVE CString(d) \in Seq(Byte)
    <2>1. k \in Nat /\ k # 0 /\ k - 1 \in Nat /\ k - 1 <= Len(d)
        BY <1>4, <1>5
    <2>2. SubSeq(d, 1, k - 1) \in Seq(Byte)
        BY <2>1
    <2> QED BY <1>2, <2>1, <2>2
<1>6. I = {} => CString(d) = d
    BY <1>1, <1>2
<1> QED BY <1>3, <1>5, <1>6

LEMMA BytesAssociative ==
    \A q, r, s \in Seq(Byte) : (q \o r) \o s = q \o (r \o s)
BY Associative

LEMMA NulFreeConcat ==
    ASSUME NEW q \in Seq(Byte), NEW r \in Seq(Byte)
    PROVE  NulFree(q \o r) <=> NulFree(q) /\ NulFree(r)
<1> DEFINE s == q \o r
<1>1. /\ Len(s) = Len(q) + Len(r) /\ Len(q) \in Nat /\ Len(r) \in Nat
      /\ \A i \in 1..Len(s) : s[i] = IF i <= Len(q) THEN q[i] ELSE r[i - Len(q)]
    OBVIOUS
<1> HIDE DEF s
<1>2. ASSUME NulFree(s) PROVE NulFree(q) /\ NulFree(r)
    <2>1. ASSUME NEW i \in 1..Len(q) PROVE q[i] # "NUL"
        <3>1. i \in 1..Len(s) /\ i <= Len(q)
            BY <1>1
        <3> QED BY <1>1, <1>2, <3>1 DEF NulFree
    <2>2. ASSUME NEW i \in 1..Len(r) PROVE r[i] # "NUL"
        <3>1. i + Len(q) \in 1..Len(s) /\ ~(i + Len(q) <= Len(q)) /\ (i + Len(q)) - Len(q) = i
            BY <1>1
        <3> QED BY <1>1, <1>2, <3>1 DEF NulFree
    <2> QED BY <2>1, <2>2 DEF NulFree
<1>3. ASSUME NulFree(q), NulFree(r) PROVE NulFree(s)
    <2>1. ASSUME NEW i \in 1..Len(s) PROVE s[i] # "NUL"
        <3>1. CASE i <= Len(q)
            BY <1>1, <1>3, <3>1 DEF NulFree
        <3>2. CASE ~(i <= Len(q))
            <4>1. i - Len(q) \in 1..Len(r)
                BY <1>1, <3>2
            <4> QED BY <1>1, <1>3, <3>2, <4>1 DEF NulFree
        <3> QED BY <3>1, <3>2
    <2> QED BY <2>1 DEF NulFree
<1> QED BY <1>2, <1>3 DEF s

(* Each call is the one its command asks for. *)
Matches(calls, cs) ==
    /\ Len(calls) = Len(cs)
    /\ \A i \in 1..Len(cs) : Handles(calls[i], cs[i])

LEMMA MatchesAppend ==
    ASSUME NEW calls \in Seq(Call), NEW cs \in Seq(Token), Matches(calls, cs),
           NEW c \in Call, NEW t \in Token, Handles(c, t)
    PROVE  Matches(Append(calls, c), Append(cs, t))
<1> DEFINE q == Append(calls, c)
           r == Append(cs, t)
<1>1. /\ Len(q) = Len(calls) + 1 /\ q[Len(calls) + 1] = c
      /\ \A i \in 1..Len(calls) : q[i] = calls[i]
      /\ Len(r) = Len(cs) + 1 /\ r[Len(cs) + 1] = t
      /\ \A i \in 1..Len(cs) : r[i] = cs[i]
      /\ Len(cs) \in Nat
    BY AppendProperties
<1>2. Len(calls) = Len(cs) /\ \A i \in 1..Len(cs) : Handles(calls[i], cs[i])
    BY DEF Matches
<1> HIDE DEF q, r
<1>3. ASSUME NEW i \in 1..Len(r) PROVE Handles(q[i], r[i])
    <2>1. i = Len(cs) + 1 \/ i \in 1..Len(cs)
        BY <1>1
    <2> QED BY <1>1, <1>2, <2>1
<1>4. Len(q) = Len(r)
    BY <1>1, <1>2
<1>5. Matches(q, r)
    BY <1>3, <1>4 DEF Matches
<1> QED BY <1>5 DEF q, r

-----------------------------------------------------------------------------
(* The invariant.  Once p has read the bytes w that are on their way, it is *)
(* between two tokens and the handlers have been called for the commands of *)
(* s; and, unless text was lost, the application has r and the text p then  *)
(* holds, and that is the text of s.  What TCP has delivered and what it    *)
(* has not makes no difference.  With a the client has not been sent a NUL  *)
(* that it does not strip.                                                  *)
Decodes(p, r, w, s, a) ==
    LET End == ProcessTelnetProtocol(p, w)
    IN  /\ End.currentState \in Between
        /\ Matches(End.calls, Commands(s))
        /\ a /\ Unspoilt(s) => r \o End.data = Texts(s) /\ NulFree(End.data)

(* A connection begins between two tokens. *)
LEMMA DecodesNothing ==
    ASSUME NEW p \in Parser, p.currentState \in Between, p.data = <<>>, p.calls = <<>>, NEW a
    PROVE  Decodes(p, <<>>, <<>>, <<>>, a)
<1>1. ProcessTelnetProtocol(p, <<>>) = p
    BY ParseNothing
<1>2. <<>> \o <<>> = <<>> /\ NulFree(<<>>) /\ Matches(<<>>, <<>>)
    <2>1. <<>> \in Seq(Byte) /\ Len(<<>>) = 0 /\ 1..0 = {}
        OBVIOUS
    <2>2. <<>> \o <<>> = <<>>
        BY <2>1, ConcatEmptySeq
    <2> QED BY <2>1, <2>2 DEF NulFree, Matches
<1> QED BY <1>1, <1>2, NothingSent DEF Decodes

(* The server sends a token; with c its carriage return is one the client   *)
(* will understand.                                                         *)
LEMMA DecodesSent ==
    ASSUME NEW p \in Parser, NEW r \in Seq(Byte), NEW w \in Seq(Byte),
           NEW s \in Seq(Token), NEW t \in Token, NEW a, NEW c,
           c => (t.kind = "return" /\ t.mode = "NVT"
                     => ~ProcessTelnetProtocol(p, w).binary.requestedDo),
           Decodes(p, r, w, s, a)
    PROVE  Decodes(p, r, w \o Encode(t), Append(s, t), a /\ c)
<1> DEFINE e == ProcessTelnetProtocol(p, w)
           f == ProcessTelnetProtocol(e, Encode(t))
           ok == (a /\ c) /\ Unspoilt(Append(s, t))
<1>1. e \in Parser
    BY ParseType
<1>2. /\ e.currentState \in Between /\ Matches(e.calls, Commands(s))
      /\ a /\ Unspoilt(s) => r \o e.data = Texts(s) /\ NulFree(e.data)
      /\ c => (t.kind = "return" /\ t.mode = "NVT" => ~e.binary.requestedDo)
    BY DEF Decodes
<1> HIDE DEF e
<1>3. Encode(t) \in Seq(Byte) /\ Takes(e, f, t)
    BY <1>1, <1>2, TakesToken
<1>4. ProcessTelnetProtocol(p, w \o Encode(t)) = f
    BY <1>3, ParseConcat DEF e
<1> HIDE DEF f
<1>5. /\ Text(t) \in Seq(Byte) /\ (~Spoils(t) => NulFree(Text(t)))
      /\ e.data \in Seq(Byte) /\ e.calls \in Seq(Call)
    BY <1>1, TextType, ParserFields
<1>6. ASSUME ok PROVE r \o f.data = Texts(Append(s, t)) /\ NulFree(f.data)
    <2>1. Unspoilt(s) /\ ~Spoils(t) /\ a /\ c
        BY <1>6, UnspoiltAppend
    <2>2. r \o e.data = Texts(s) /\ NulFree(e.data)
        BY <1>2, <2>1
    <2>3. f.data = e.data \o Text(t)
        BY <1>2, <1>3, <2>1 DEF Takes, Clean
    <2>4. (r \o e.data) \o Text(t) = r \o (e.data \o Text(t))
        BY <1>5, BytesAssociative
    <2>5. r \o f.data = Texts(Append(s, t))
        BY <2>2, <2>3, <2>4, TextsAppend
    <2>6. NulFree(f.data)
        BY <1>5, <2>1, <2>2, <2>3, NulFreeConcat
    <2> QED BY <2>5, <2>6
<1>7. f.currentState \in Between
    BY <1>3 DEF Takes
<1>8. Matches(f.calls, Commands(Append(s, t)))
    <2>1. Commands(s) \in Seq(Token) /\ Commands(Append(s, t)) = Commands(s) \o Command(t)
        BY CommandsAppend
    <2>2. CASE Command(t) = <<>> /\ f.calls = e.calls
        <3>1. Commands(s) \o <<>> = Commands(s)
            BY <2>1, ConcatEmptySeq
        <3> QED BY <1>2, <2>1, <2>2, <3>1
    <2>3. ASSUME Command(t) = <<t>>, NEW d \in Call, f.calls = Append(e.calls, d), Handles(d, t)
          PROVE  Matches(f.calls, Commands(Append(s, t)))
        <3>1. Commands(s) \o <<t>> = Append(Commands(s), t)
            BY <2>1, Associative
        <3>2. Matches(Append(e.calls, d), Append(Commands(s), t))
            BY <1>2, <1>5, <2>1, <2>3, MatchesAppend
        <3> QED BY <2>1, <2>3, <3>1, <3>2
    <2> QED BY <1>3, <2>2, <2>3 DEF Takes
<1> QED BY <1>4, <1>6, <1>7, <1>8 DEF Decodes

(* The bytes b are read, and their text is given to the application. *)
LEMMA DecodesRead ==
    ASSUME NEW p \in Parser, NEW r \in Seq(Byte), NEW b \in Seq(Byte),
           NEW w \in Seq(Byte), NEW s, NEW a, NEW q,
           q = ProcessTelnetProtocol(p, b), Decodes(p, r, b \o w, s, a)
    PROVE  Decodes([q EXCEPT !.data = <<>>], r \o CString(q.data), w, s, a)
<1> DEFINE c == [q EXCEPT !.data = <<>>]
           e == ProcessTelnetProtocol(q, w)
           f == ProcessTelnetProtocol(c, w)
           ok == a /\ Unspoilt(s)
<1>1. q \in Parser /\ q.data \in Seq(Byte)
    BY ParseType, ParserFields
<1>2. c \in Parser /\ Before(c, q.data) = q
    <2>1. <<>> \in Seq(Byte) /\ q.data \o <<>> = q.data
        BY <1>1, ConcatEmptySeq
    <2> QED BY <1>1, <2>1 DEF Parser, Before
<1> HIDE DEF c
<1>3. f \in Parser /\ e = Before(f, q.data)
    <2>1. f \in Parser
        BY <1>2, ParseType
    <2>2. ProcessTelnetProtocol(Before(c, q.data), w) = Before(f, q.data)
        BY <1>1, <1>2, ParseBefore
    <2> QED BY <1>2, <2>1, <2>2
<1>4. ProcessTelnetProtocol(p, b \o w) = e
    BY ParseConcat
<1> HIDE DEF e, f
<1>5. /\ e.currentState = f.currentState /\ e.data = q.data \o f.data /\ e.calls = f.calls
      /\ f.data \in Seq(Byte)
    BY <1>1, <1>3, BeforeType, ParserFields
<1>6. /\ e.currentState \in Between /\ Matches(e.calls, Commands(s))
      /\ ok => r \o e.data = Texts(s) /\ NulFree(e.data)
    BY <1>4 DEF Decodes
<1>7. ASSUME ok PROVE (r \o CString(q.data)) \o f.data = Texts(s) /\ NulFree(f.data)
    <2>1. NulFree(q.data) /\ NulFree(f.data)
        BY <1>1, <1>5, <1>6, <1>7, NulFreeConcat
    <2>2. CString(q.data) = q.data
        BY <1>1, <2>1, CStringType
    <2>3. (r \o q.data) \o f.data = r \o (q.data \o f.data)
        BY <1>1, <1>5, BytesAssociative
    <2> QED BY <1>5, <1>6, <1>7, <2>1, <2>2, <2>3
<1>8. Decodes(c, r \o CString(q.data), w, s, a)
    BY <1>5, <1>6, <1>7 DEF Decodes, f
<1> QED BY <1>8 DEF c

LEMMA EncodeType ==
    ASSUME NEW t \in Token, parser \in Parser
    PROVE  Encode(t) \in Seq(Byte)
<1> DEFINE p == [parser EXCEPT !.currentState = "DATA"]
<1>1. p \in Parser /\ p.currentState \in Between
    BY DEF Parser, State, Between
<1> HIDE DEF p
<1> QED BY <1>1, TakesToken

-----------------------------------------------------------------------------

(* Nothing is said of a connection that began within a command: it is read  *)
(* as that command's rest.                                                  *)
Decoded == ~stale => Decodes(parser, received, wire, sent, agreed)

IInv == TypeOK /\ Decoded

LEMMA InitIInv == Init => IInv
<1> SUFFICES ASSUME Init PROVE IInv
    OBVIOUS
<1>1. parser \in Parser
    <2>1. PICK binary \in Requests :
             parser = [currentState |-> "DATA", suboptionCount |-> 0,
                       suboptions |-> [i \in 0..(Width - 1) |-> "NUL"],
                       binary |-> binary, data |-> <<>>, calls |-> <<>>]
        BY DEF Init
    <2>2. 0 \in 0..(Width - 1) /\ binary \in Binary
        BY ParserAssumption DEF Requests
    <2>3. [i \in 0..(Width - 1) |-> "NUL"] \in [0..(Width - 1) -> Byte]
        BY Bytes
    <2>4. <<>> \in Seq(Byte) /\ <<>> \in Seq(Call)
        OBVIOUS
    <2> QED BY <2>1, <2>2, <2>3, <2>4 DEF Parser, State
<1>2. parser.currentState \in Between /\ parser.data = <<>> /\ parser.calls = <<>>
    BY DEF Init, Between
<1>3. received = <<>> /\ wire = <<>> /\ sent = <<>> /\ agreed = TRUE /\ stale = FALSE
    BY DEF Init
<1>4. TypeOK
    <2>1. <<>> \in Seq(Byte) /\ <<>> \in Seq(Token)
        OBVIOUS
    <2> QED BY <1>1, <1>2, <1>3, <2>1 DEF TypeOK
<1>5. Decodes(parser, received, wire, sent, agreed)
    BY <1>1, <1>2, <1>3, DecodesNothing
<1> QED BY <1>4, <1>5 DEF IInv, Decoded

LEMMA HandleReadIInv ==
    ASSUME IInv, NEW n \in 1..Len(wire), HandleRead(n)
    PROVE  IInv'
<1> DEFINE a == SubSeq(wire, 1, n)
           b == SubSeq(wire, n + 1, Len(wire))
           q == ProcessTelnetProtocol(parser, a)
           c == [q EXCEPT !.data = <<>>]
<1>1. /\ wire \in Seq(Byte) /\ parser \in Parser /\ received \in Seq(Byte) /\ sent \in Seq(Token)
      /\ {agreed, stale} \subseteq BOOLEAN
    BY DEF IInv, TypeOK
<1>2. a \in Seq(Byte) /\ b \in Seq(Byte) /\ wire = a \o b
    BY <1>1
<1>3. /\ parser' = c /\ received' = received \o CString(q.data) /\ wire' = b
      /\ sent' = sent /\ agreed' = agreed /\ stale' = stale
    BY DEF HandleRead
<1> HIDE DEF a, b
<1>4. q \in Parser
    BY <1>1, <1>2, ParseType
<1>5. q.data \in Seq(Byte)
    BY <1>4, ParserFields
<1>6. TypeOK'
    <2>1. c \in Parser /\ c.data = <<>>
        <3>1. <<>> \in Seq(Byte)
            OBVIOUS
        <3> HIDE DEF q
        <3> QED BY <1>4, <3>1 DEF Parser
    <2>2. received \o CString(q.data) \in Seq(Byte)
        BY <1>1, <1>5, CStringType, ConcatProperties
    <2> HIDE DEF c
    <2> QED BY <1>1, <1>2, <1>3, <2>1, <2>2 DEF TypeOK
<1>7. ASSUME ~stale PROVE Decodes(c, received \o CString(q.data), b, sent, agreed)
    <2>1. Decodes(parser, received, a \o b, sent, agreed)
        BY <1>2, <1>7 DEF IInv, Decoded
    <2> QED BY <1>1, <1>2, <2>1, DecodesRead
<1> HIDE DEF c, q
<1> QED BY <1>3, <1>6, <1>7 DEF IInv, Decoded

LEMMA ConnectIInv ==
    ASSUME IInv, Connect
    PROVE  IInv'
<1>1. parser \in Parser /\ parser.data = <<>>
    BY DEF IInv, TypeOK
<1>2. PICK binary \in Requests : parser' = [parser EXCEPT !.calls = <<>>, !.binary = binary]
    BY DEF Connect
<1>3. /\ received' = <<>> /\ wire' = <<>> /\ sent' = <<>> /\ agreed' = TRUE
      /\ stale' = (parser.currentState \notin Between)
    BY DEF Connect, Between
<1>4. /\ parser' \in Parser /\ parser'.data = <<>> /\ parser'.calls = <<>>
      /\ parser'.currentState = parser.currentState
    <2>1. <<>> \in Seq(Call) /\ binary \in Binary
        BY DEF Requests
    <2> QED BY <1>1, <1>2, <2>1 DEF Parser
<1>5. TypeOK'
    <2>1. <<>> \in Seq(Byte) /\ <<>> \in Seq(Token)
        OBVIOUS
    <2> QED BY <1>3, <1>4, <2>1 DEF TypeOK
<1>6. ASSUME ~stale' PROVE Decodes(parser', received', wire', sent', agreed')
    <2>1. parser'.currentState \in Between
        BY <1>3, <1>4, <1>6
    <2> QED BY <1>3, <1>4, <2>1, DecodesNothing
<1> QED BY <1>5, <1>6 DEF IInv, Decoded

LEMMA ServerSendsIInv ==
    ASSUME IInv, NEW t \in Token, ServerSends(t)
    PROVE  IInv'
<1>1. /\ wire \in Seq(Byte) /\ parser \in Parser /\ parser.data = <<>>
      /\ received \in Seq(Byte) /\ sent \in Seq(Token)
      /\ {agreed, stale} \subseteq BOOLEAN
    BY DEF IInv, TypeOK
<1>2. /\ parser' = parser /\ received' = received /\ stale' = stale
      /\ wire' = wire \o Encode(t) /\ sent' = Append(sent, t)
      /\ agreed' = (agreed /\ Agrees(t))
    BY DEF ServerSends
<1>3. TypeOK'
    <2>1. wire \o Encode(t) \in Seq(Byte)
        BY <1>1, EncodeType, ConcatProperties
    <2>2. Append(sent, t) \in Seq(Token)
        BY <1>1
    <2>3. agreed' \in BOOLEAN
        BY <1>2
    <2> QED BY <1>1, <1>2, <2>1, <2>2, <2>3 DEF TypeOK
<1>4. ASSUME ~stale
      PROVE  Decodes(parser, received, wire \o Encode(t), Append(sent, t), agreed /\ Agrees(t))
    <2>1. Decodes(parser, received, wire, sent, agreed)
        BY <1>4 DEF IInv, Decoded
    <2>2. Agrees(t) => (t.kind = "return" /\ t.mode = "NVT"
                            => ~ProcessTelnetProtocol(parser, wire).binary.requestedDo)
        BY DEF Agrees
    <2> QED BY <1>1, <2>1, <2>2, DecodesSent
<1> QED BY <1>2, <1>3, <1>4 DEF IInv, Decoded

LEMMA NextIInv == IInv /\ [Next]_vars => IInv'
<1> SUFFICES ASSUME IInv, [Next]_vars PROVE IInv'
    OBVIOUS
<1>1. CASE \E n \in 1..Len(wire) : HandleRead(n)
    BY <1>1, HandleReadIInv
<1>2. CASE Connect
    BY <1>2, ConnectIInv
<1>3. CASE \E t \in Token : ServerSends(t)
    BY <1>3, ServerSendsIInv
<1>4. CASE UNCHANGED vars
    BY <1>4 DEF vars, IInv, TypeOK, Decoded
<1> QED BY <1>1, <1>2, <1>3, <1>4 DEF Next

(* In every state the bytes that are still on their way complete the        *)
(* decoding of what the server has sent, however ProcessTelnetProtocol has  *)
(* had the stream cut for it so far.                                        *)
THEOREM ParserInvariant == Spec => []IInv
<1> QED BY InitIInv, NextIInv, PTL DEF Spec

(* ProcessTelnetProtocol stays within its states, and suboptionCount within *)
(* the array suboptions, whatever bytes come on whatever connection.        *)
THEOREM ParserTypeOK == Spec => []TypeOK
<1>1. IInv => TypeOK
    BY DEF IInv
<1> QED BY <1>1, ParserInvariant, PTL

LEMMA ReadIsDecoded ==
    ASSUME IInv, AllRead
    PROVE  /\ Matches(parser.calls, Commands(sent))
           /\ agreed /\ Unspoilt(sent) => received = Texts(sent)
<1>1. /\ wire = <<>> /\ parser \in Parser /\ parser.data = <<>> /\ received \in Seq(Byte)
      /\ Decodes(parser, received, wire, sent, agreed)
    BY DEF IInv, TypeOK, Decoded, AllRead
<1>2. ProcessTelnetProtocol(parser, wire) = parser
    BY <1>1, ParseNothing
<1>3. received \o <<>> = received
    BY <1>1, ConcatEmptySeq
<1> QED BY <1>1, <1>2, <1>3 DEF Decodes

(* HandleRead gives the application the text the server sent, all of it and *)
(* nothing else, for every way to cut the stream into reads and for every   *)
(* course BINARY takes, but for the losses that TextIntact excepts: a data  *)
(* byte of 255, a NUL that is not stripped, a 255 in a subnegotiation, and  *)
(* a connection that begins in the middle of a command.                     *)
THEOREM TextIsIntact == Spec => []TextIntact
<1>1. IInv => TextIntact
    BY ReadIsDecoded DEF TextIntact, Unspoilt
<1> QED BY <1>1, ParserInvariant, PTL

(* ProcessTelnetProtocol calls a handler for every command the server sent  *)
(* but the subnegotiations with a byte of 255 in them, once and in order,   *)
(* with its option or with its payload if it fits; and for nothing else.    *)
(* Text that was lost between the commands does not disturb them.           *)
THEOREM CommandsAreIntact == Spec => []CommandsIntact
<1>1. IInv => CommandsIntact
    <2>1. ASSUME IInv, AllRead PROVE CommandsIntact
        <3>1. Matches(parser.calls, Commands(sent))
            BY <2>1, ReadIsDecoded
        <3>2. DOMAIN Commands(sent) = 1..Len(Commands(sent))
            <4>1. sent \in Seq(Token)
                BY <2>1 DEF IInv, TypeOK
            <4>2. Commands(sent) \in Seq(Token)
                BY <4>1, CommandsAppend
            <4> QED BY <4>2
        <3> QED BY <3>1, <3>2 DEF Matches, CommandsIntact
    <2> QED BY <2>1 DEF CommandsIntact
<1> QED BY <1>1, ParserInvariant, PTL
=============================================================================
