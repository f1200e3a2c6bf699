------------------------ MODULE TelnetOptions_proofs ------------------------
(***************************************************************************)
(* What TelnetOptions does for any options, any handlers and any number of *)
(* connections and requests: client and server agree.                      *)
(***************************************************************************)
EXTENDS TelnetOptions, FiniteSetTheorems, SequenceTheorems, TLAPS

-----------------------------------------------------------------------------
(* What a channel carries about one option on one side: the "on" and "off"  *)
(* commands, in their order.  f says where each of them is.                 *)

Negotiates(c, s, o) == c.kind # "SB" /\ c.side = s /\ c.option = o

Places(f, q, s, o, p) ==
    /\ f \in [1..Len(p) -> 1..Len(q)]
    /\ \A i, j \in 1..Len(p) : i < j => f[i] < f[j]
    /\ \A i \in 1..Len(p) : q[f[i]] = Cmd(p[i], s, o)
    /\ \A j \in 1..Len(q) : Negotiates(q[j], s, o) => \E i \in 1..Len(p) : f[i] = j

Carries(q, s, o, p) == \E f \in [1..Len(p) -> 1..Len(q)] : Places(f, q, s, o, p)

Turn == {"on", "off"}

LEMMA EmptyCarries ==
    ASSUME NEW s \in Side, NEW o \in Option
    PROVE  Carries(<<>>, s, o, <<>>)
<1> DEFINE f == [i \in 1..0 |-> 0]
<1>1. Places(f, <<>>, s, o, <<>>)
    BY DEF Places
<1> QED BY <1>1 DEF Carries, Places

LEMMA CarriesEmpty ==
    ASSUME NEW s, NEW o, NEW p \in Seq(Turn), Carries(<<>>, s, o, p)
    PROVE  p = <<>>
<1>1. PICK f : Places(f, <<>>, s, o, p)
    BY DEF Carries
<1>2. Len(p) \in Nat
    OBVIOUS
<1>3. ~(1 \in 1..Len(p))
    <2>1. ASSUME 1 \in 1..Len(p) PROVE FALSE
        <3>1. f[1] \in 1..0
            BY <1>1, <2>1 DEF Places
        <3> QED BY <3>1
    <2> QED BY <2>1
<1>4. Len(p) = 0
    BY <1>2, <1>3
<1> QED BY <1>4, EmptySeq

(* A command about something else changes nothing. *)
LEMMA CarriesOther ==
    ASSUME NEW q \in Seq(Command), NEW s, NEW o, NEW p \in Seq(Turn),
           Carries(q, s, o, p),
           NEW c \in Command, ~Negotiates(c, s, o)
    PROVE  Carries(Append(q, c), s, o, p)
<1>1. PICK f : Places(f, q, s, o, p)
    BY DEF Carries
<1> DEFINE Q == Append(q, c)
<1>2. /\ Len(q) \in Nat /\ Len(Q) = Len(q) + 1
      /\ \A j \in 1..Len(q) : Q[j] = q[j]
      /\ Q[Len(q) + 1] = c
    BY AppendProperties
<1> HIDE DEF Q
<1>3. /\ f \in [1..Len(p) -> 1..Len(q)]
      /\ \A i \in 1..Len(p) : f[i] \in 1..Len(q)
      /\ 1..Len(q) \subseteq 1..(Len(q) + 1)
    <2>1. f \in [1..Len(p) -> 1..Len(q)]
        BY <1>1 DEF Places
    <2>2. 1..Len(q) \subseteq 1..(Len(q) + 1)
        BY <1>2
    <2> QED BY <2>1, <2>2
<1>4. \A i \in 1..Len(p) : Q[f[i]] = Cmd(p[i], s, o)
    BY <1>1, <1>2, <1>3 DEF Places
<1>5. ASSUME NEW j \in 1..(Len(q) + 1), Negotiates(Q[j], s, o)
      PROVE  \E i \in 1..Len(p) : f[i] = j
    <2>1. j # Len(q) + 1
        BY <1>2, <1>5
    <2>2. j \in 1..Len(q)
        BY <1>2, <2>1
    <2> QED BY <1>1, <1>2, <1>5, <2>2 DEF Places
<1>6. \A i, j \in 1..Len(p) : i < j => f[i] < f[j]
    BY <1>1 DEF Places
<1>7. f \in [1..Len(p) -> 1..Len(Q)]
    BY <1>2, <1>3
<1>8. \A j \in 1..Len(Q) : Negotiates(Q[j], s, o) => \E i \in 1..Len(p) : f[i] = j
    BY <1>2, <1>5
<1>9. Places(f, Q, s, o, p)
    BY <1>4, <1>6, <1>7, <1>8 DEF Places
<1> QED BY <1>9 DEF Carries, Places, Q

LEMMA CarriesAppend ==
    ASSUME NEW q \in Seq(Command), NEW s \in Side, NEW o \in Option, NEW p \in Seq(Turn),
           Carries(q, s, o, p), NEW k \in Turn
    PROVE  Carries(Append(q, Cmd(k, s, o)), s, o, Append(p, k))
<1>1. PICK f : Places(f, q, s, o, p)
    BY DEF Carries
<1> DEFINE c == Cmd(k, s, o)
           Q == Append(q, c)
           P == Append(p, k)
           g == [i \in 1..(Len(p) + 1) |-> IF i = Len(p) + 1 THEN Len(q) + 1 ELSE f[i]]
<1>2. /\ c \in Command /\ Len(q) \in Nat /\ Len(p) \in Nat
    BY DEF Command, Cmd, Turn
<1> HIDE DEF c
<1>3. /\ Len(Q) = Len(q) + 1
      /\ \A j \in 1..Len(q) : Q[j] = q[j]
      /\ Q[Len(q) + 1] = c
    BY <1>2
<1>4. /\ Len(P) = Len(p) + 1
      /\ \A j \in 1..Len(p) : P[j] = p[j]
      /\ P[Len(p) + 1] = k
    BY <1>2
<1> HIDE DEF Q, P
<1>5. \A i \in 1..Len(p) : f[i] \in 1..Len(q) /\ q[f[i]] = Cmd(p[i], s, o)
    BY <1>1 DEF Places
<1>6. \A i \in 1..(Len(p) + 1) : i = Len(p) + 1 \/ i \in 1..Len(p)
    BY <1>2
<1>7. /\ g[Len(p) + 1] = Len(q) + 1
      /\ \A i \in 1..Len(p) : g[i] = f[i]
    BY <1>2
<1>8. g \in [1..(Len(p) + 1) -> 1..(Len(q) + 1)]
    BY <1>2, <1>5, <1>6
<1> HIDE DEF g
<1>9. ASSUME NEW i \in 1..(Len(p) + 1), NEW j \in 1..(Len(p) + 1), i < j
      PROVE  g[i] < g[j]
    <2>1. i \in 1..Len(p) /\ g[i] = f[i] /\ f[i] \in 1..Len(q)
        BY <1>2, <1>5, <1>7, <1>9
    <2>2. CASE j = Len(p) + 1
        BY <1>2, <1>7, <2>1, <2>2
    <2>3. CASE j \in 1..Len(p)
        BY <1>1, <1>7, <1>9, <2>1, <2>3 DEF Places
    <2> QED BY <1>6, <2>2, <2>3
<1>10. ASSUME NEW i \in 1..(Len(p) + 1)
       PROVE  Q[g[i]] = Cmd(P[i], s, o)
    <2>1. CASE i = Len(p) + 1
        BY <1>3, <1>4, <1>7, <2>1 DEF c
    <2>2. CASE i \in 1..Len(p)
        BY <1>3, <1>4, <1>5, <1>7, <2>2
    <2> QED BY <1>6, <2>1, <2>2
<1>11. ASSUME NEW j \in 1..(Len(q) + 1), Negotiates(Q[j], s, o)
       PROVE  \E i \in 1..(Len(p) + 1) : g[i] = j
    <2>1. CASE j = Len(q) + 1
        <3>1. Len(p) + 1 \in 1..(Len(p) + 1)
            BY <1>2
        <3> QED BY <1>7, <2>1, <3>1
    <2>2. CASE j # Len(q) + 1
        <3>1. j \in 1..Len(q)
            BY <1>2, <2>2
        <3>2. PICK i \in 1..Len(p) : f[i] = j
            BY <1>1, <1>3, <1>11, <3>1 DEF Places
        <3>3. i \in 1..(Len(p) + 1)
            BY <1>2
        <3> QED BY <1>7, <3>2, <3>3
    <2> QED BY <2>1, <2>2
<1>12. Places(g, Q, s, o, P)
    BY <1>3, <1>4, <1>8, <1>9, <1>10, <1>11 DEF Places
<1> QED BY <1>12 DEF Carries, Places, Q, P, c

(* The channel is read from the front. *)
LEMMA TailOfChannel ==
    ASSUME NEW q \in Seq(Command), q # <<>>
    PROVE  /\ Len(q) \in Nat /\ Len(q) >= 1 /\ Head(q) = q[1] /\ Head(q) \in Command
           /\ Tail(q) \in Seq(Command) /\ Len(Tail(q)) = Len(q) - 1
           /\ \A j \in 1..(Len(q) - 1) : Tail(q)[j] = q[j + 1]
<1>1. Len(q) \in Nat /\ Len(q) # 0
    BY EmptySeq
<1> QED BY <1>1, HeadTailProperties

LEMMA CarriesTailOther ==
    ASSUME NEW q \in Seq(Command), q # <<>>, NEW s, NEW o, NEW p \in Seq(Turn),
           Carries(q, s, o, p), ~Negotiates(Head(q), s, o)
    PROVE  Carries(Tail(q), s, o, p)
<1>1. PICK f : Places(f, q, s, o, p)
    BY DEF Carries
<1> DEFINE T == Tail(q)
           g == [i \in 1..Len(p) |-> f[i] - 1]
<1>2. /\ Len(q) \in Nat /\ Len(q) >= 1 /\ Head(q) = q[1]
      /\ Len(T) = Len(q) - 1
      /\ \A j \in 1..(Len(q) - 1) : T[j] = q[j + 1]
    BY TailOfChannel
<1>3. ASSUME NEW i \in 1..Len(p)
      PROVE  f[i] \in 2..Len(q) /\ q[f[i]] = Cmd(p[i], s, o)
    <2>1. f[i] \in 1..Len(q) /\ q[f[i]] = Cmd(p[i], s, o)
        BY <1>1 DEF Places
    <2>2. p[i] \in Turn
        OBVIOUS
    <2>3. Negotiates(q[f[i]], s, o)
        BY <2>1, <2>2 DEF Negotiates, Cmd, Turn
    <2>4. f[i] # 1
        BY <1>2, <2>3
    <2> QED BY <1>2, <2>1, <2>4
<1>4. \A i \in 1..Len(p) : g[i] = f[i] - 1 /\ g[i] \in 1..(Len(q) - 1)
    BY <1>2, <1>3
<1>5. g \in [1..Len(p) -> 1..(Len(q) - 1)]
    BY <1>4
<1> HIDE DEF g, T
<1>6. ASSUME NEW i \in 1..Len(p), NEW j \in 1..Len(p), i < j
      PROVE  g[i] < g[j]
    <2>1. f[i] < f[j]
        BY <1>1, <1>6 DEF Places
    <2>2. f[i] \in 2..Len(q) /\ f[j] \in 2..Len(q)
        BY <1>3
    <2> QED BY <1>4, <2>1, <2>2
<1>7. ASSUME NEW i \in 1..Len(p)
      PROVE  T[g[i]] = Cmd(p[i], s, o)
    <2>1. T[g[i]] = q[g[i] + 1]
        BY <1>2, <1>4
    <2>2. g[i] + 1 = f[i]
        BY <1>3, <1>4
    <2> QED BY <1>3, <2>1, <2>2
<1>8. ASSUME NEW j \in 1..(Len(q) - 1), Negotiates(T[j], s, o)
      PROVE  \E i \in 1..Len(p) : g[i] = j
    <2>1. j + 1 \in 1..Len(q) /\ j \in Int
        BY <1>2
    <2>2. Negotiates(q[j + 1], s, o)
        BY <1>2, <1>8
    <2>3. PICK i \in 1..Len(p) : f[i] = j + 1
        BY <1>1, <2>1, <2>2 DEF Places
    <2>4. g[i] = j
        BY <1>4, <2>1, <2>3
    <2> QED BY <2>4
<1>9. Places(g, T, s, o, p)
    <2>1. g \in [1..Len(p) -> 1..Len(T)]
        BY <1>2, <1>5
    <2>2. \A j \in 1..Len(T) : Negotiates(T[j], s, o) => \E i \in 1..Len(p) : g[i] = j
        BY <1>2, <1>8
    <2> QED BY <1>6, <1>7, <2>1, <2>2 DEF Places
<1> QED BY <1>9 DEF Carries, Places, T

LEMMA CarriesTail ==
    ASSUME NEW q \in Seq(Command), q # <<>>, NEW s, NEW o, NEW p \in Seq(Turn),
           Carries(q, s, o, p), Negotiates(Head(q), s, o)
    PROVE  /\ p # <<>> /\ Head(q).kind = Head(p)
           /\ Carries(Tail(q), s, o, Tail(p))
<1>1. PICK f : Places(f, q, s, o, p)
    BY DEF Carries
<1> DEFINE T == Tail(q)
           P == Tail(p)
           g == [i \in 1..(Len(p) - 1) |-> f[i + 1] - 1]
<1>2. /\ Len(q) \in Nat /\ Len(q) >= 1 /\ Head(q) = q[1]
      /\ Len(T) = Len(q) - 1
      /\ \A j \in 1..(Len(q) - 1) : T[j] = q[j + 1]
    BY TailOfChannel
<1>3. \A i \in 1..Len(p) : f[i] \in 1..Len(q) /\ q[f[i]] = Cmd(p[i], s, o)
    BY <1>1 DEF Places
<1>4. PICK k \in 1..Len(p) : f[k] = 1
    <2>1. 1 \in 1..Len(q)
        BY <1>2
    <2> QED BY <1>1, <1>2, <2>1 DEF Places
<1>5. Len(p) \in Nat /\ Len(p) >= 1 /\ 1 \in 1..Len(p)
    BY <1>4
<1>6. f[1] = 1
    <2>1. ASSUME 1 < k PROVE FALSE
        <3>1. f[1] < f[k] /\ f[1] \in 1..Len(q)
            BY <1>1, <1>5, <2>1 DEF Places
        <3> QED BY <1>2, <1>4, <3>1
    <2>2. k = 1
        BY <2>1
    <2> QED BY <1>4, <2>2
<1>7. p # <<>> /\ p[1] \in Turn
    BY <1>5
<1>8. Head(p) = p[1] /\ Len(P) = Len(p) - 1 /\ \A i \in 1..(Len(p) - 1) : P[i] = p[i + 1]
    BY <1>7, HeadTailProperties
<1>9. Head(q).kind = Head(p)
    <2>1. q[f[1]] = Cmd(p[1], s, o)
        BY <1>3, <1>5
    <2>2. Head(q) = Cmd(p[1], s, o)
        BY <1>2, <1>6, <2>1
    <2> QED BY <1>8, <2>2 DEF Cmd
<1>10. ASSUME NEW i \in 1..(Len(p) - 1)
       PROVE  /\ i \in 1..Len(p) /\ i + 1 \in 1..Len(p)
              /\ f[i + 1] \in 2..Len(q) /\ g[i] = f[i + 1] - 1 /\ g[i] \in 1..(Len(q) - 1)
    <2>1. i + 1 \in 1..Len(p) /\ i \in 1..Len(p) /\ 1 < i + 1
        BY <1>5
    <2>2. f[1] < f[i + 1] /\ f[i + 1] \in 1..Len(q)
        BY <1>1, <1>5, <2>1 DEF Places
    <2>3. f[i + 1] \in 2..Len(q)
        BY <1>2, <1>6, <2>2
    <2> QED BY <1>2, <2>1, <2>3
<1>11. g \in [1..(Len(p) - 1) -> 1..(Len(q) - 1)]
    BY <1>10
<1> HIDE DEF g, T, P
<1>12. ASSUME NEW i \in 1..(Len(p) - 1), NEW j \in 1..(Len(p) - 1), i < j
       PROVE  g[i] < g[j]
    <2>1. f[i + 1] \in 2..Len(q) /\ f[j + 1] \in 2..Len(q)
        BY <1>10
    <2>2. i + 1 \in 1..Len(p) /\ j + 1 \in 1..Len(p) /\ i + 1 < j + 1
        BY <1>5, <1>12
    <2>3. f[i + 1] < f[j + 1]
        BY <1>1, <2>2 DEF Places
    <2>4. g[i] = f[i + 1] - 1 /\ g[j] = f[j + 1] - 1
        BY <1>10
    <2> QED BY <2>1, <2>3, <2>4
<1>13. ASSUME NEW i \in 1..(Len(p) - 1)
       PROVE  T[g[i]] = Cmd(P[i], s, o)
    <2>1. T[g[i]] = q[g[i] + 1]
        BY <1>2, <1>10
    <2>2. g[i] + 1 = f[i + 1]
        <3>1. f[i + 1] \in 2..Len(q) /\ g[i] = f[i + 1] - 1
            BY <1>10
        <3> QED BY <1>2, <3>1
    <2>3. q[f[i + 1]] = Cmd(p[i + 1], s, o)
        BY <1>3, <1>10
    <2> QED BY <1>8, <2>1, <2>2, <2>3
<1>14. ASSUME NEW j \in 1..(Len(q) - 1), Negotiates(T[j], s, o)
       PROVE  \E i \in 1..(Len(p) - 1) : g[i] = j
    <2>1. j + 1 \in 1..Len(q) /\ j \in 1..(Len(q) - 1) /\ j >= 1 /\ j \in Int
        BY <1>2
    <2>2. Negotiates(q[j + 1], s, o)
        BY <1>2, <1>14
    <2>3. PICK k2 \in 1..Len(p) : f[k2] = j + 1
        BY <1>1, <2>1, <2>2 DEF Places
    <2>4. k2 # 1
        BY <1>6, <2>1, <2>3
    <2>5. k2 - 1 \in 1..(Len(p) - 1) /\ (k2 - 1) + 1 = k2
        BY <1>5, <2>4
    <2>6. g[k2 - 1] = f[(k2 - 1) + 1] - 1
        BY <1>10, <2>5
    <2>7. g[k2 - 1] = j
        BY <2>1, <2>3, <2>5, <2>6
    <2> QED BY <2>5, <2>7
<1>15. Places(g, T, s, o, P)
    <2>1. Len(T) = Len(q) - 1 /\ Len(P) = Len(p) - 1
        BY <1>2, <1>8
    <2>2. g \in [1..Len(P) -> 1..Len(T)]
        BY <1>11, <2>1
    <2>3. \A j \in 1..Len(T) : Negotiates(T[j], s, o) => \E i \in 1..Len(P) : g[i] = j
        BY <1>14, <2>1
    <2>4. \A i, j \in 1..Len(P) : i < j => g[i] < g[j]
        BY <1>12, <2>1
    <2>5. \A i \in 1..Len(P) : T[g[i]] = Cmd(P[i], s, o)
        BY <1>13, <2>1
    <2> QED BY <2>2, <2>3, <2>4, <2>5 DEF Places
<1> QED BY <1>7, <1>9, <1>15 DEF Carries, Places, T, P

(* A channel that carries nothing, or only "on", holds no refusal. *)
LEMMA NoRefusal ==
    ASSUME NEW q \in Seq(Command), NEW s \in Side, NEW o \in Option,
           NEW p \in Seq(Turn), p = <<>> \/ p = <<"on">>, Carries(q, s, o, p)
    PROVE  \A j \in 1..Len(q) : q[j] # Cmd("off", s, o)
<1> SUFFICES ASSUME NEW j \in 1..Len(q), q[j] = Cmd("off", s, o)
             PROVE  FALSE
    OBVIOUS
<1>1. PICK f : Places(f, q, s, o, p)
    BY DEF Carries
<1>2. Negotiates(q[j], s, o)
    BY DEF Negotiates, Cmd
<1>3. PICK i \in 1..Len(p) : f[i] = j
    BY <1>1, <1>2 DEF Places
<1>4. q[j] = Cmd(p[i], s, o)
    BY <1>1, <1>3 DEF Places
<1>5. p[i] = "on"
    <2>1. CASE p = <<>>
        BY <1>3, <2>1
    <2>2. CASE p = <<"on">>
        BY <1>3, <2>2
    <2> QED BY <2>1, <2>2
<1> QED BY <1>4, <1>5 DEF Cmd

LEMMA CarriesNothing ==
    ASSUME NEW q \in Seq(Command), NEW s, NEW o, Carries(q, s, o, <<>>)
    PROVE  \A j \in 1..Len(q) : ~Negotiates(q[j], s, o)
BY DEF Carries, Places

LEMMA NothingIsAll ==
    ASSUME NEW q \in Seq(Command), NEW s, NEW o, NEW p \in Seq(Turn),
           Carries(q, s, o, p), \A j \in 1..Len(q) : ~Negotiates(q[j], s, o)
    PROVE  p = <<>>
<1>1. PICK f : Places(f, q, s, o, p)
    BY DEF Carries
<1>2. ~(1 \in 1..Len(p))
    <2>1. ASSUME 1 \in 1..Len(p) PROVE FALSE
        <3>1. f[1] \in 1..Len(q) /\ q[f[1]] = Cmd(p[1], s, o) /\ p[1] \in Turn
            BY <1>1, <2>1 DEF Places
        <3> QED BY <3>1 DEF Negotiates, Cmd, Turn
    <2> QED BY <2>1
<1>3. Len(p) \in Nat
    OBVIOUS
<1>4. Len(p) = 0
    BY <1>2, <1>3
<1> QED BY <1>4, EmptySeq

(* A channel that was given commands about one option and side carries what *)
(* it carried about the others.                                             *)
Elsewhere(q, r, s, o) ==
    \A t \in Side, u \in Option, p \in Seq(Turn) :
        <<t, u>> # <<s, o>> /\ Carries(q, t, u, p) => Carries(r, t, u, p)

LEMMA AppendElsewhere ==
    ASSUME NEW q \in Seq(Command), NEW k \in {"on", "off", "SB"}, NEW s \in Side, NEW o \in Option
    PROVE  Elsewhere(q, Append(q, Cmd(k, s, o)), s, o)
<1> SUFFICES ASSUME NEW t \in Side, NEW u \in Option, NEW p \in Seq(Turn),
                    <<t, u>> # <<s, o>>, Carries(q, t, u, p)
             PROVE  Carries(Append(q, Cmd(k, s, o)), t, u, p)
    BY DEF Elsewhere
<1>1. Cmd(k, s, o) \in Command /\ ~Negotiates(Cmd(k, s, o), t, u)
    BY DEF Cmd, Command, Negotiates
<1> QED BY <1>1, CarriesOther

LEMMA TailElsewhere ==
    ASSUME NEW q \in Seq(Command), q # <<>>,
           NEW s, NEW o, Head(q).side = s, Head(q).option = o
    PROVE  Elsewhere(q, Tail(q), s, o)
<1> SUFFICES ASSUME NEW t \in Side, NEW u \in Option, NEW p \in Seq(Turn),
                    <<t, u>> # <<s, o>>, Carries(q, t, u, p)
             PROVE  Carries(Tail(q), t, u, p)
    BY DEF Elsewhere
<1>1. ~Negotiates(Head(q), t, u)
    BY DEF Negotiates
<1> QED BY <1>1, CarriesTailOther

-----------------------------------------------------------------------------
(* Subnegotiations on a channel. *)

(* No refusal of the option is the last word about it. *)
Reopened(q, s, o) ==
    \A i \in 1..Len(q) : q[i] = Cmd("off", s, o) =>
        \E k \in (i + 1)..Len(q) : q[k] = Cmd("on", s, o)

Follows(q) ==
    \A s \in Side, o \in Option, i, j \in 1..Len(q) :
        i < j /\ q[i] = Cmd("off", s, o) /\ q[j] = Cmd("SB", s, o)
            => \E k \in (i + 1)..(j - 1) : q[k] = Cmd("on", s, o)

LEMMA FollowsIsFollows ==
    ASSUME toServer \in Seq(Command)
    PROVE  SubnegotiationFollows <=> Follows(toServer)
<1> DEFINE q == toServer
<1>1. DOMAIN q = 1..Len(q) /\ \A i \in 1..Len(q) : q[i] \in Command
    OBVIOUS
<1>2. ASSUME SubnegotiationFollows,
             NEW s \in Side, NEW o \in Option, NEW i \in 1..Len(q), NEW j \in 1..Len(q),
             i < j, q[i] = Cmd("off", s, o), q[j] = Cmd("SB", s, o)
      PROVE  \E k \in (i + 1)..(j - 1) : q[k] = Cmd("on", s, o)
    <2>1. /\ <<q[i].kind, q[j].kind>> = <<"off", "SB">>
          /\ <<q[i].side, q[i].option>> = <<q[j].side, q[j].option>>
        BY <1>2 DEF Cmd
    <2>2. PICK k \in (i + 1)..(j - 1) : q[k] = [q[i] EXCEPT !.kind = "on"]
        BY <1>1, <1>2, <2>1 DEF SubnegotiationFollows
    <2>3. q[k] = Cmd("on", s, o)
        BY <1>2, <2>2 DEF Cmd
    <2> QED BY <2>3
<1>3. ASSUME Follows(q), NEW i \in 1..Len(q), NEW j \in 1..Len(q), i < j,
             <<q[i].kind, q[j].kind>> = <<"off", "SB">>,
             <<q[i].side, q[i].option>> = <<q[j].side, q[j].option>>
      PROVE  \E k \in (i + 1)..(j - 1) : q[k] = [q[i] EXCEPT !.kind = "on"]
    <2>1. PICK s \in Side, o \in Option : q[i] = Cmd("off", s, o)
        BY <1>1, <1>3 DEF Command, Cmd
    <2>2. q[j] = Cmd("SB", s, o)
        BY <1>1, <1>3, <2>1 DEF Command, Cmd
    <2>3. PICK k \in (i + 1)..(j - 1) : q[k] = Cmd("on", s, o)
        BY <1>3, <2>1, <2>2 DEF Follows
    <2>4. q[k] = [q[i] EXCEPT !.kind = "on"]
        BY <2>1, <2>3 DEF Cmd
    <2> QED BY <2>4
<1>4. ASSUME Follows(q) PROVE SubnegotiationFollows
    BY <1>1, <1>3, <1>4 DEF SubnegotiationFollows
<1>5. ASSUME SubnegotiationFollows PROVE Follows(q)
    BY <1>2, <1>5 DEF Follows
<1> QED BY <1>4, <1>5

LEMMA FollowsEmpty == Follows(<<>>)
BY DEF Follows

LEMMA FollowsAppend ==
    ASSUME NEW q \in Seq(Command), Follows(q), NEW c \in Command,
           \A s \in Side, o \in Option : c = Cmd("SB", s, o) => Reopened(q, s, o)
    PROVE  Follows(Append(q, c))
<1> DEFINE Q == Append(q, c)
<1>1. /\ Len(q) \in Nat /\ Len(Q) = Len(q) + 1
      /\ \A j \in 1..Len(q) : Q[j] = q[j]
      /\ Q[Len(q) + 1] = c
    OBVIOUS
<1> HIDE DEF Q
<1> SUFFICES ASSUME NEW s \in Side, NEW o \in Option, NEW i \in 1..Len(Q), NEW j \in 1..Len(Q),
                    i < j, Q[i] = Cmd("off", s, o), Q[j] = Cmd("SB", s, o)
             PROVE  \E k \in (i + 1)..(j - 1) : Q[k] = Cmd("on", s, o)
    BY DEF Follows, Q
<1>2. i \in 1..Len(q) /\ i \in Int /\ j \in Int /\ q[i] = Cmd("off", s, o)
    BY <1>1
<1>3. CASE j \in 1..Len(q)
    <2>1. q[j] = Cmd("SB", s, o)
        BY <1>1, <1>3
    <2>2. PICK k \in (i + 1)..(j - 1) : q[k] = Cmd("on", s, o)
        BY <1>2, <1>3, <2>1 DEF Follows
    <2>3. k \in 1..Len(q)
        BY <1>1, <1>2, <1>3
    <2> QED BY <1>1, <2>2, <2>3
<1>4. CASE j = Len(q) + 1
    <2>1. Reopened(q, s, o)
        BY <1>1, <1>4
    <2>2. PICK k \in (i + 1)..Len(q) : q[k] = Cmd("on", s, o)
        BY <1>2, <2>1 DEF Reopened
    <2>3. k \in 1..Len(q) /\ k \in (i + 1)..(j - 1)
        BY <1>1, <1>2, <1>4
    <2> QED BY <1>1, <2>2, <2>3
<1> QED BY <1>1, <1>3, <1>4

LEMMA FollowsTail ==
    ASSUME NEW q \in Seq(Command), q # <<>>, Follows(q)
    PROVE  Follows(Tail(q))
<1> DEFINE T == Tail(q)
<1>1. /\ Len(q) \in Nat /\ Len(q) >= 1 /\ Len(T) = Len(q) - 1
      /\ \A j \in 1..(Len(q) - 1) : T[j] = q[j + 1]
    BY TailOfChannel
<1> HIDE DEF T
<1> SUFFICES ASSUME NEW s \in Side, NEW o \in Option, NEW i \in 1..Len(T), NEW j \in 1..Len(T),
                    i < j, T[i] = Cmd("off", s, o), T[j] = Cmd("SB", s, o)
             PROVE  \E k \in (i + 1)..(j - 1) : T[k] = Cmd("on", s, o)
    BY DEF Follows, T
<1>2. /\ i + 1 \in 1..Len(q) /\ j + 1 \in 1..Len(q) /\ i + 1 < j + 1
      /\ q[i + 1] = Cmd("off", s, o) /\ q[j + 1] = Cmd("SB", s, o)
    BY <1>1
<1>3. PICK k \in ((i + 1) + 1)..((j + 1) - 1) : q[k] = Cmd("on", s, o)
    BY <1>2 DEF Follows
<1>4. k - 1 \in (i + 1)..(j - 1) /\ k - 1 \in 1..(Len(q) - 1) /\ (k - 1) + 1 = k
    BY <1>1, <1>2
<1>5. T[k - 1] = Cmd("on", s, o)
    BY <1>1, <1>3, <1>4
<1> QED BY <1>4, <1>5

LEMMA ReopenedWithout ==
    ASSUME NEW q, NEW s, NEW o, \A j \in 1..Len(q) : q[j] # Cmd("off", s, o)
    PROVE  Reopened(q, s, o)
BY DEF Reopened

LEMMA ReopenedByOn ==
    ASSUME NEW q \in Seq(Command), NEW s \in Side, NEW o \in Option
    PROVE  Reopened(Append(q, Cmd("on", s, o)), s, o)
<1> DEFINE c == Cmd("on", s, o)
           Q == Append(q, c)
<1>1. c \in Command
    BY DEF Cmd, Command
<1>2. c # Cmd("off", s, o)
    BY DEF Cmd
<1> HIDE DEF c
<1>3. Len(q) \in Nat /\ Len(Q) = Len(q) + 1 /\ Q[Len(q) + 1] = c
    BY <1>1
<1> HIDE DEF Q
<1>4. ASSUME NEW i \in 1..Len(Q), Q[i] = Cmd("off", s, o)
      PROVE  \E k \in (i + 1)..Len(Q) : Q[k] = c
    <2>1. i # Len(q) + 1
        BY <1>2, <1>3, <1>4
    <2>2. Len(q) + 1 \in (i + 1)..Len(Q)
        BY <1>3, <2>1
    <2> QED BY <1>3, <2>2
<1> QED BY <1>4 DEF Reopened, Q, c

-----------------------------------------------------------------------------
(* What client and server may think of an option on a side, with what is    *)
(* under way to the server (out) and to the client (in).                    *)

(* The client does not want it. *)
Refused(sv, out, in) ==
    \/ sv = "NO" /\ out = <<>> /\ in = <<>>
    \/ sv = "NO" /\ out = <<"off">> /\ in = <<>>
    \/ sv = "NO" /\ out = <<>> /\ in = <<"on">>
    \/ sv = "WANTYES" /\ out = <<>> /\ in = <<"on">>
    \/ sv = "WANTYES" /\ out = <<>> /\ in = <<"on", "on">>
    \/ sv = "WANTYES" /\ out = <<"off">> /\ in = <<"on">>
    \/ sv = "WANTYES" /\ out = <<"off">> /\ in = <<>>
    \/ sv = "WANTYES" /\ out = <<"off", "off">> /\ in = <<>>
    \/ sv = "WANTNO" /\ out = <<"off">> /\ in = <<>>

(* The client asked for it, and the answer is to come. *)
Asked(sv, out, in) ==
    \/ sv = "NO" /\ out = <<"on">> /\ in = <<>>
    \/ sv = "NO" /\ out = <<>> /\ in = <<"off">>
    \/ sv = "WANTNO" /\ out = <<>> /\ in = <<"on", "off">>
    \/ sv = "WANTYES" /\ out = <<"on">> /\ in = <<"on">>
    \/ sv = "WANTYES" /\ out = <<>> /\ in = <<"off", "on">>
    \/ sv = "YES" /\ out = <<>> /\ in = <<"on">>

(* The client has it on. *)
Granted(sv, out, in) ==
    \/ sv = "WANTNO" /\ out = <<>> /\ in = <<"off">>
    \/ sv = "WANTYES" /\ out = <<"on">> /\ in = <<>>
    \/ sv = "WANTYES" /\ out = <<"off", "on">> /\ in = <<>>
    \/ sv = "YES" /\ out = <<>> /\ in = <<>>

Agrees(st, rq, sv, out, in) ==
    \/ ~rq /\ Refused(sv, out, in)
    \/ rq /\ Asked(sv, out, in)
    \/ rq /\ st /\ Granted(sv, out, in)

(* What the client's counter says: 2 only for a request that is not         *)
(* answered, and 1 for an option it refused although the state bit is set.  *)
Counter(n, st, rq) ==
    /\ n \in 0..2
    /\ n = 2 => rq /\ ~st
    /\ st /\ ~rq => n = 1

LEMMA ShortSequences ==
    ASSUME NEW k, NEW l
    PROVE  /\ Append(<<>>, k) = <<k>> /\ Append(<<k>>, l) = <<k, l>>
           /\ Tail(<<k>>) = <<>> /\ Tail(<<k, l>>) = <<l>>
           /\ Head(<<k>>) = k /\ Head(<<k, l>>) = k
           /\ <<k>> # <<>> /\ <<k, l>> # <<>> /\ <<k>> # <<k, l>>
<1>1. Append(<<k>>, l) = <<k, l>>
    <2> DEFINE A == Append(<<k>>, l)
               B == <<k, l>>
    <2>1. A \in Seq({k, l}) /\ Len(A) = 2 /\ A[1] = k /\ A[2] = l
        OBVIOUS
    <2>2. B \in Seq({k, l}) /\ Len(B) = 2 /\ B[1] = k /\ B[2] = l
        OBVIOUS
    <2> HIDE DEF A, B
    <2>3. \A i \in 1..Len(A) : A[i] = B[i]
        BY <2>1, <2>2
    <2>4. A = B
        BY <2>1, <2>2, <2>3, SeqEqual
    <2> QED BY <2>4 DEF A, B
<1>2. Append(<<>>, k) = <<k>>
    OBVIOUS
<1>3. Tail(<<k>>) = <<>>
    OBVIOUS
<1>4. Tail(<<k, l>>) = <<l>>
    OBVIOUS
<1>5. Head(<<k>>) = k /\ Head(<<k, l>>) = k
    OBVIOUS
<1>6. <<k>> # <<>> /\ <<k, l>> # <<>> /\ <<k>> # <<k, l>>
    OBVIOUS
<1> QED BY <1>1, <1>2, <1>3, <1>4, <1>5, <1>6

LEMMA Shapes ==
    /\ Tail(<<"on">>) = <<>> /\ Tail(<<"off">>) = <<>>
    /\ Tail(<<"on", "on">>) = <<"on">> /\ Tail(<<"on", "off">>) = <<"off">>
    /\ Tail(<<"off", "on">>) = <<"on">> /\ Tail(<<"off", "off">>) = <<"off">>
    /\ Head(<<"on">>) = "on" /\ Head(<<"off">>) = "off"
    /\ Head(<<"on", "on">>) = "on" /\ Head(<<"on", "off">>) = "on"
    /\ Head(<<"off", "on">>) = "off" /\ Head(<<"off", "off">>) = "off"
    /\ Append(<<>>, "on") = <<"on">> /\ Append(<<>>, "off") = <<"off">>
    /\ Append(<<"on">>, "on") = <<"on", "on">> /\ Append(<<"on">>, "off") = <<"on", "off">>
    /\ Append(<<"off">>, "on") = <<"off", "on">> /\ Append(<<"off">>, "off") = <<"off", "off">>
    /\ <<"on">> # <<>> /\ <<"off">> # <<>> /\ <<"on", "on">> # <<>> /\ <<"on", "off">> # <<>>
    /\ <<"off", "on">> # <<>> /\ <<"off", "off">> # <<>>
BY ShortSequences, Zenon

(* The client's answer to "on". *)
LEMMA ClientOn ==
    ASSUME NEW st \in BOOLEAN, NEW rq \in BOOLEAN, NEW n, Counter(n, st, rq),
           NEW sv, NEW out, NEW in, Agrees(st, rq, sv, out, in),
           in # <<>>, Head(in) = "on"
    PROVE  LET m == Answered(n, st)
           IN  /\ m \in 0..2
               /\ ~rq => m = 0
               /\ rq => Counter(m, TRUE, TRUE) /\ Agrees(TRUE, TRUE, sv, out, Tail(in))
               /\ ~rq => /\ Agrees(TRUE, TRUE, sv, Append(out, "on"), Tail(in))
                         /\ Agrees(TRUE, FALSE, sv, Append(out, "off"), Tail(in))
<1>1. n \in 0..2 /\ Answered(n, st) \in 0..2
    BY DEF Counter, Answered
<1>2. ASSUME ~rq
      PROVE  Answered(n, st) = 0
    BY <1>1, <1>2 DEF Counter, Answered
<1>3. ASSUME rq
      PROVE  Counter(Answered(n, st), TRUE, TRUE)
    BY <1>1, <1>3 DEF Counter, Answered
<1>4. ASSUME rq
      PROVE  Agrees(TRUE, TRUE, sv, out, Tail(in))
    BY <1>4, Shapes, Zenon DEF Agrees, Asked, Granted
<1>5. ASSUME ~rq
      PROVE  Refused(sv, out, in)
    BY <1>5 DEF Agrees
<1>6. ASSUME ~rq
      PROVE  Agrees(TRUE, TRUE, sv, Append(out, "on"), Tail(in))
    BY <1>5, <1>6, Shapes, Zenon DEF Agrees, Asked, Granted, Refused
<1>7. ASSUME ~rq
      PROVE  Agrees(TRUE, FALSE, sv, Append(out, "off"), Tail(in))
    BY <1>5, <1>7, Shapes, Zenon DEF Agrees, Refused
<1> QED BY <1>1, <1>2, <1>3, <1>4, <1>6, <1>7

(* The client's answer to "off". *)
LEMMA NeverRefused ==
    ASSUME NEW sv, NEW out, NEW in, Refused(sv, out, in), in # <<>>
    PROVE  Head(in) # "off"
BY Shapes, Zenon DEF Refused

LEMMA ClientOff ==
    ASSUME NEW st, NEW rq, NEW sv, NEW out, NEW in, Agrees(st, rq, sv, out, in),
           in # <<>>, Head(in) = "off"
    PROVE  Agrees(FALSE, FALSE, sv, Append(out, "off"), Tail(in))
<1>1. ~Refused(sv, out, in)
    BY NeverRefused
<1> QED BY <1>1, Shapes, Zenon DEF Agrees, Asked, Granted, Refused

(* What the server makes of "on" and of "off". *)
LEMMA ServerOn ==
    ASSUME NEW st \in BOOLEAN, NEW rq \in BOOLEAN,
           NEW sv, NEW out, NEW in, Agrees(st, rq, sv, out, in),
           out # <<>>, Head(out) = "on"
    PROVE  /\ sv = "NO" \/ sv = "WANTYES"
           /\ sv = "NO" => /\ Agrees(st, rq, "YES", Tail(out), Append(in, "on"))
                           /\ Agrees(st, rq, "NO", Tail(out), Append(in, "off"))
           /\ sv = "WANTYES" => Agrees(st, rq, "YES", Tail(out), in)
<1>1. rq
    BY Shapes, Zenon DEF Agrees, Refused
<1>2. sv = "NO" \/ sv = "WANTYES"
    BY <1>1, Shapes, Zenon DEF Agrees, Asked, Granted
<1>3. ASSUME sv = "NO"
      PROVE  Agrees(st, rq, "YES", Tail(out), Append(in, "on"))
    BY <1>1, <1>3, Shapes, Zenon DEF Agrees, Asked, Granted
<1>4. ASSUME sv = "NO"
      PROVE  Agrees(st, rq, "NO", Tail(out), Append(in, "off"))
    BY <1>1, <1>4, Shapes, Zenon DEF Agrees, Asked, Granted
<1>5. ASSUME sv = "WANTYES"
      PROVE  Agrees(st, rq, "YES", Tail(out), in)
    BY <1>1, <1>5, Shapes, Zenon DEF Agrees, Asked, Granted
<1> QED BY <1>2, <1>3, <1>4, <1>5

LEMMA ServerOff ==
    ASSUME NEW st \in BOOLEAN, NEW rq \in BOOLEAN,
           NEW sv, NEW out, NEW in, Agrees(st, rq, sv, out, in),
           out # <<>>, Head(out) = "off"
    PROVE  sv # "YES" /\ Agrees(st, rq, "NO", Tail(out), in)
<1>1. sv # "YES"
    BY Shapes, Zenon DEF Agrees, Asked, Granted, Refused
<1>2. Agrees(st, rq, "NO", Tail(out), in)
    BY Shapes, Zenon DEF Agrees, Asked, Granted, Refused
<1> QED BY <1>1, <1>2

(* What the server asks for. *)
LEMMA ServerRequests ==
    ASSUME NEW st \in BOOLEAN, NEW rq \in BOOLEAN,
           NEW sv, NEW out, NEW in, Agrees(st, rq, sv, out, in)
    PROVE  /\ sv = "NO" => Agrees(st, rq, "WANTYES", out, Append(in, "on"))
           /\ sv = "YES" => Agrees(st, rq, "WANTNO", out, Append(in, "off"))
<1>1. ASSUME sv = "NO"
      PROVE  Agrees(st, rq, "WANTYES", out, Append(in, "on"))
    BY <1>1, Shapes, Zenon DEF Agrees, Asked, Granted, Refused
<1>2. ASSUME sv = "YES"
      PROVE  Agrees(st, rq, "WANTNO", out, Append(in, "off"))
    BY <1>2, Shapes, Zenon DEF Agrees, Asked, Granted, Refused
<1> QED BY <1>1, <1>2

-----------------------------------------------------------------------------
(* The inductive invariant: for every option and side apart, with q the     *)
(* channel to the server, r the one to the client, st and rq the client's   *)
(* bits and sv the server's status.                                         *)

Phrase ==
    {<<>>, <<"on">>, <<"off">>, <<"on", "on">>, <<"on", "off">>, <<"off", "on">>, <<"off", "off">>}

Talk(q, r, st, rq, sv, s, o) ==
    \E out, in \in Phrase :
        Carries(q, s, o, out) /\ Carries(r, s, o, in) /\ Agrees(st, rq, sv, out, in)

(* A subnegotiation on its way to the client is about an option that the    *)
(* server has on, and the client has said nothing since.                    *)
Speech(q, r, sv, s, o) ==
    \A j \in 1..Len(r) : r[j] = Cmd("SB", s, o) =>
        /\ sv \in {"YES", "WANTNO"}
        /\ Carries(q, s, o, <<>>)
        /\ \A i \in 1..(j - 1) : r[i] # Cmd("off", s, o)

Pair(q, r, st, rq, sv, s, o) == Talk(q, r, st, rq, sv, s, o) /\ Speech(q, r, sv, s, o)

Pairs ==
    \A o \in Option, s \in Side :
        Pair(toServer, toClient, state[o][s], requested[o][s], server[o][s], s, o)

Counters ==
    \A o \in Option, s \in Side : Counter(response[o][s], state[o][s], requested[o][s])

(* FlagsFollow, side by side. *)
FlagsTrue ==
    connected =>
        \A o \in Option, s \in Side :
            optionHandlers[o] # NoHandler /\ flag[o][s] # "unset" =>
                (flag[o][s] = "up" <=> On(o, s))

IInv ==
    /\ TypeOK
    /\ Counters
    /\ connected => Pairs
    /\ ~connected => Quiet
    /\ FlagsTrue
    /\ Follows(toServer)

LEMMA Phrases ==
    /\ Phrase \subseteq Seq(Turn)
    /\ \A st, rq, sv, out, in : Agrees(st, rq, sv, out, in) => out \in Phrase /\ in \in Phrase
<1>1. Phrase \subseteq Seq(Turn)
    BY DEF Phrase, Turn
<1>2. ASSUME NEW st, NEW rq, NEW sv, NEW out, NEW in, Agrees(st, rq, sv, out, in)
      PROVE  out \in Phrase /\ in \in Phrase
    BY <1>2, Zenon DEF Agrees, Asked, Granted, Refused, Phrase
<1> QED BY <1>1, <1>2

(* Where a request may be refused or a subnegotiation is under way, nothing *)
(* and no refusal is on its way to the server.                              *)
LEMMA Silences ==
    ASSUME NEW st \in BOOLEAN, NEW rq \in BOOLEAN, NEW sv, NEW out, NEW in,
           Agrees(st, rq, sv, out, in)
    PROVE  /\ rq /\ in # <<>> => out = <<>> \/ out = <<"on">>
           /\ sv = "YES" => out = <<>> /\ (in = <<>> \/ in = <<"on">>)
           /\ sv \in {"YES", "WANTNO"} /\ out = <<>> => rq
<1>1. rq /\ in # <<>> => out = <<>> \/ out = <<"on">>
    BY Zenon DEF Agrees, Asked, Granted
<1>2. sv = "YES" => out = <<>> /\ (in = <<>> \/ in = <<"on">>)
    BY Zenon DEF Agrees, Asked, Granted, Refused
<1>3. sv \in {"YES", "WANTNO"} /\ out = <<>> => rq
    BY Shapes, Zenon DEF Agrees, Refused
<1> QED BY <1>1, <1>2, <1>3

-----------------------------------------------------------------------------
(* What the client sends. *)

(* q2 is q, or q with a subnegotiation that no refusal comes right before.  *)
Said(q, q2, s, o) ==
    q2 = q \/ (q2 = Append(q, Cmd("SB", s, o)) /\ Reopened(q, s, o))

LEMMA Commands ==
    \A s \in Side, o \in Option, k \in {"on", "off", "SB"} : Cmd(k, s, o) \in Command
BY DEF Command, Cmd

LEMMA ConcatCommand ==
    ASSUME NEW q \in Seq(Command)
    PROVE  /\ q \o <<>> = q
           /\ \A c \in Command : q \o <<c>> = Append(q, c) /\ Append(q, c) \in Seq(Command)
<1>1. q \o <<>> = q
    BY ConcatEmptySeq
<1>2. ASSUME NEW c \in Command
      PROVE  q \o <<c>> = Append(q, c) /\ Append(q, c) \in Seq(Command)
    BY AppendIsConcat
<1> QED BY <1>1, <1>2

LEMMA Associative ==
    ASSUME NEW S
    PROVE  \A p, q, r \in Seq(S) : (p \o q) \o r = p \o (q \o r) /\ p \o q \in Seq(S)
<1>1. \A p, q, r \in Seq(S) : (p \o q) \o r = p \o (q \o r)
    BY ConcatAssociative, SMTT(30)
<1>2. \A p, q \in Seq(S) : p \o q \in Seq(S)
    BY ConcatProperties
<1> QED BY <1>1, <1>2

AtOnce(q, A, B, C) == q \o ((A \o B) \o C)
OneByOne(q, A, B, C) == ((q \o A) \o B) \o C

LEMMA ThreeParts ==
    ASSUME NEW q, NEW A, NEW B, NEW C, {q, A, B, C} \subseteq Seq(Command)
    PROVE  AtOnce(q, A, B, C) = OneByOne(q, A, B, C)
<1> DEFINE S == Seq(Command)
           Joined(x, y) == x \o y
<1>1. \A s, t, u \in S : /\ Joined(Joined(s, t), u) = Joined(s, Joined(t, u))
                         /\ Joined(s, t) \in S
    BY Associative
<1>2. q \in S /\ A \in S /\ B \in S /\ C \in S
    OBVIOUS
<1> HIDE DEF S, Joined
<1>3. Joined(q, Joined(Joined(A, B), C)) = Joined(Joined(Joined(q, A), B), C)
    <2>1. Joined(A, B) \in S
        BY <1>1, <1>2
    <2>2. Joined(q, Joined(Joined(A, B), C)) = Joined(Joined(q, Joined(A, B)), C)
        BY <1>1, <1>2, <2>1
    <2>3. Joined(q, Joined(A, B)) = Joined(Joined(q, A), B)
        BY <1>1, <1>2
    <2> QED BY <2>2, <2>3
<1> QED BY <1>3 DEF Joined, AtOnce, OneByOne

LEMMA SaidKeeps ==
    ASSUME NEW q \in Seq(Command), NEW q2, NEW s \in Side, NEW o \in Option, Said(q, q2, s, o)
    PROVE  /\ q2 \in Seq(Command)
           /\ \A t \in Side, u \in Option, p \in Seq(Turn) :
                Carries(q, t, u, p) => Carries(q2, t, u, p)
           /\ Follows(q) => Follows(q2)
<1> DEFINE c == Cmd("SB", s, o)
<1>1. c \in Command
    BY Commands
<1>2. CASE q2 = q
    BY <1>2
<1>3. CASE q2 = Append(q, c) /\ Reopened(q, s, o)
    <2>1. \A t \in Side, u \in Option : ~Negotiates(c, t, u)
        BY DEF Negotiates, Cmd
    <2>2. \A t \in Side, u \in Option : c = Cmd("SB", t, u) => t = s /\ u = o
        BY DEF Cmd
    <2>3. Append(q, c) \in Seq(Command)
        BY <1>1
    <2> HIDE DEF c
    <2>4. ASSUME NEW t \in Side, NEW u \in Option, NEW p \in Seq(Turn), Carries(q, t, u, p)
          PROVE  Carries(Append(q, c), t, u, p)
        BY <1>1, <2>1, <2>4, CarriesOther
    <2>5. ASSUME Follows(q)
          PROVE  Follows(Append(q, c))
        BY <1>1, <1>3, <2>2, <2>5, FollowsAppend
    <2> QED BY <1>3, <2>3, <2>4, <2>5
<1> QED BY <1>2, <1>3 DEF Said

LEMMA TurnFollows ==
    ASSUME NEW q \in Seq(Command), Follows(q), NEW k \in Turn, NEW s \in Side, NEW o \in Option
    PROVE  Follows(Append(q, Cmd(k, s, o)))
<1> DEFINE c == Cmd(k, s, o)
<1>1. c \in Command /\ \A t \in Side, u \in Option : c # Cmd("SB", t, u)
    BY DEF Cmd, Command, Turn
<1> HIDE DEF c
<1>2. Follows(Append(q, c))
    BY <1>1, FollowsAppend
<1> QED BY <1>2 DEF c

-----------------------------------------------------------------------------
(* What is kept for the other options and sides. *)

LEMMA ElsewhereItself ==
    ASSUME NEW q, NEW s, NEW o
    PROVE  Elsewhere(q, q, s, o)
BY DEF Elsewhere

LEMMA TalkElsewhere ==
    ASSUME NEW q, NEW r, NEW q2, NEW r2, NEW st, NEW rq, NEW sv,
           NEW s, NEW o, NEW t \in Side, NEW u \in Option, <<t, u>> # <<s, o>>,
           Elsewhere(q, q2, s, o), Elsewhere(r, r2, s, o),
           Talk(q, r, st, rq, sv, t, u)
    PROVE  Talk(q2, r2, st, rq, sv, t, u)
<1>1. PICK out \in Phrase, in \in Phrase :
         Carries(q, t, u, out) /\ Carries(r, t, u, in) /\ Agrees(st, rq, sv, out, in)
    BY DEF Talk
<1>2. out \in Seq(Turn) /\ in \in Seq(Turn)
    BY Phrases
<1>3. Carries(q2, t, u, out) /\ Carries(r2, t, u, in)
    BY <1>1, <1>2 DEF Elsewhere
<1> QED BY <1>1, <1>3 DEF Talk

LEMMA SpeechKept ==
    ASSUME NEW q, NEW q2, NEW r, NEW sv, NEW t, NEW u, Speech(q, r, sv, t, u),
           sv \in {"YES", "WANTNO"} /\ Carries(q, t, u, <<>>) => Carries(q2, t, u, <<>>)
    PROVE  Speech(q2, r, sv, t, u)
BY DEF Speech

LEMMA SpeechAppend ==
    ASSUME NEW q, NEW r \in Seq(Command), NEW sv, NEW t, NEW u, Speech(q, r, sv, t, u),
           NEW c \in Command, c # Cmd("SB", t, u)
    PROVE  Speech(q, Append(r, c), sv, t, u)
<1> DEFINE R == Append(r, c)
<1>1. /\ Len(r) \in Nat /\ Len(R) = Len(r) + 1
      /\ \A j \in 1..Len(r) : R[j] = r[j]
      /\ R[Len(r) + 1] = c
    OBVIOUS
<1> HIDE DEF R
<1>2. ASSUME NEW j \in 1..Len(R), R[j] = Cmd("SB", t, u)
      PROVE  /\ sv \in {"YES", "WANTNO"}
             /\ Carries(q, t, u, <<>>)
             /\ \A i \in 1..(j - 1) : R[i] # Cmd("off", t, u)
    <2>1. j \in 1..Len(r) /\ r[j] = Cmd("SB", t, u)
        BY <1>1, <1>2
    <2>2. /\ sv \in {"YES", "WANTNO"}
          /\ Carries(q, t, u, <<>>)
          /\ \A i \in 1..(j - 1) : r[i] # Cmd("off", t, u)
        BY <2>1 DEF Speech
    <2>3. \A i \in 1..(j - 1) : R[i] = r[i]
        BY <1>1, <2>1
    <2> QED BY <2>2, <2>3
<1> QED BY <1>2 DEF Speech, R

LEMMA SpeechTail ==
    ASSUME NEW q, NEW r \in Seq(Command), r # <<>>, NEW sv, NEW t, NEW u,
           Speech(q, r, sv, t, u)
    PROVE  /\ Speech(q, Tail(r), sv, t, u)
           /\ Head(r) = Cmd("off", t, u) =>
                \A j \in 1..Len(Tail(r)) : Tail(r)[j] # Cmd("SB", t, u)
           /\ Head(r) = Cmd("SB", t, u) => sv \in {"YES", "WANTNO"} /\ Carries(q, t, u, <<>>)
<1> DEFINE T == Tail(r)
<1>1. /\ Len(r) \in Nat /\ Len(r) >= 1 /\ Head(r) = r[1] /\ Len(T) = Len(r) - 1
      /\ \A j \in 1..(Len(r) - 1) : T[j] = r[j + 1]
    BY TailOfChannel
<1> HIDE DEF T
<1>2. ASSUME NEW j \in 1..Len(T), T[j] = Cmd("SB", t, u)
      PROVE  /\ sv \in {"YES", "WANTNO"}
             /\ Carries(q, t, u, <<>>)
             /\ Head(r) # Cmd("off", t, u)
             /\ \A i \in 1..(j - 1) : T[i] # Cmd("off", t, u)
    <2>1. j + 1 \in 1..Len(r) /\ r[j + 1] = Cmd("SB", t, u)
        BY <1>1, <1>2
    <2>2. /\ sv \in {"YES", "WANTNO"}
          /\ Carries(q, t, u, <<>>)
          /\ \A i \in 1..((j + 1) - 1) : r[i] # Cmd("off", t, u)
        BY <2>1 DEF Speech
    <2>3. 1 \in 1..((j + 1) - 1)
        BY <1>2
    <2>4. ASSUME NEW i \in 1..(j - 1)
          PROVE  T[i] # Cmd("off", t, u)
        <3>1. i + 1 \in 1..((j + 1) - 1) /\ i \in 1..(Len(r) - 1)
            BY <1>1, <1>2
        <3> QED BY <1>1, <2>2, <3>1
    <2> QED BY <1>1, <2>2, <2>3, <2>4
<1>3. Speech(q, T, sv, t, u)
    BY <1>2 DEF Speech
<1>4. 1 \in 1..Len(r)
    BY <1>1
<1>5. Head(r) = Cmd("SB", t, u) => sv \in {"YES", "WANTNO"} /\ Carries(q, t, u, <<>>)
    BY <1>1, <1>4 DEF Speech
<1> QED BY <1>2, <1>3, <1>5 DEF T

LEMMA ReadElsewhere ==
    ASSUME NEW q \in Seq(Command), NEW q2, NEW r \in Seq(Command), r # <<>>,
           NEW st, NEW rq, NEW sv,
           NEW s, NEW o, Head(r).side = s, Head(r).option = o, Elsewhere(q, q2, s, o),
           NEW t \in Side, NEW u \in Option, <<t, u>> # <<s, o>>,
           Pair(q, r, st, rq, sv, t, u)
    PROVE  Pair(q2, Tail(r), st, rq, sv, t, u)
<1>1. Talk(q2, Tail(r), st, rq, sv, t, u)
    BY TailElsewhere, TalkElsewhere DEF Pair
<1>2. Speech(q, Tail(r), sv, t, u)
    BY SpeechTail DEF Pair
<1>3. Carries(q, t, u, <<>>) => Carries(q2, t, u, <<>>)
    BY EmptySeq DEF Elsewhere
<1>4. Speech(q2, Tail(r), sv, t, u)
    BY <1>2, <1>3, SpeechKept
<1> QED BY <1>1, <1>4 DEF Pair

LEMMA WrittenElsewhere ==
    ASSUME NEW q \in Seq(Command), NEW q2, NEW r \in Seq(Command), NEW r2,
           NEW st, NEW rq, NEW sv,
           NEW s \in Side, NEW o \in Option, Elsewhere(q, q2, s, o),
           NEW k \in {"on", "off", "SB"}, r2 = r \/ r2 = Append(r, Cmd(k, s, o)),
           NEW t \in Side, NEW u \in Option, <<t, u>> # <<s, o>>,
           Pair(q, r, st, rq, sv, t, u)
    PROVE  Pair(q2, r2, st, rq, sv, t, u)
<1>1. Elsewhere(r, r2, s, o)
    BY ElsewhereItself, AppendElsewhere
<1>2. Talk(q2, r2, st, rq, sv, t, u)
    BY <1>1, TalkElsewhere DEF Pair
<1>3. Cmd(k, s, o) \in Command /\ Cmd(k, s, o) # Cmd("SB", t, u)
    BY DEF Cmd, Command
<1>4. Speech(q, Append(r, Cmd(k, s, o)), sv, t, u)
    BY <1>3, SpeechAppend DEF Pair
<1>5. Speech(q, r2, sv, t, u)
    BY <1>4 DEF Pair
<1>6. Carries(q, t, u, <<>>) => Carries(q2, t, u, <<>>)
    BY EmptySeq DEF Elsewhere
<1>7. Speech(q2, r2, sv, t, u)
    BY <1>5, <1>6, SpeechKept
<1> QED BY <1>2, <1>7 DEF Pair

-----------------------------------------------------------------------------
(* What the client makes of a command. *)

LEMMA CarriesSame ==
    ASSUME NEW q \in Seq(Command), NEW s, NEW o, NEW p \in Seq(Turn),
           Carries(q, s, o, p), Carries(q, s, o, <<>>)
    PROVE  p = <<>>
BY CarriesNothing, NothingIsAll

LEMMA TailCarries ==
    ASSUME NEW r \in Seq(Command), r # <<>>, NEW k \in Turn, NEW s \in Side, NEW o \in Option,
           Head(r) = Cmd(k, s, o), NEW p \in Seq(Turn), Carries(r, s, o, p)
    PROVE  p # <<>> /\ Head(p) = k /\ Carries(Tail(r), s, o, Tail(p))
<1>1. Negotiates(Head(r), s, o) /\ Head(r).kind = k
    BY DEF Negotiates, Cmd, Turn
<1> QED BY <1>1, CarriesTail

LEMMA ClientReadsOn ==
    ASSUME NEW q \in Seq(Command), NEW r \in Seq(Command), r # <<>>,
           NEW s \in Side, NEW o \in Option, Head(r) = Cmd("on", s, o),
           NEW st \in BOOLEAN, NEW rq \in BOOLEAN, NEW n, Counter(n, st, rq), NEW sv,
           Pair(q, r, st, rq, sv, s, o)
    PROVE  /\ rq => Reopened(q, s, o) /\ Pair(q, Tail(r), TRUE, TRUE, sv, s, o)
           /\ ~rq => /\ Pair(Append(q, Cmd("on", s, o)), Tail(r), TRUE, TRUE, sv, s, o)
                     /\ Pair(Append(q, Cmd("off", s, o)), Tail(r), TRUE, FALSE, sv, s, o)
<1>1. PICK out \in Phrase, in \in Phrase :
         Carries(q, s, o, out) /\ Carries(r, s, o, in) /\ Agrees(st, rq, sv, out, in)
    BY DEF Pair, Talk
<1>2. out \in Seq(Turn) /\ in \in Seq(Turn)
    BY Phrases
<1>3. "on" \in Turn /\ "off" \in Turn
    BY DEF Turn
<1>4. in # <<>> /\ Head(in) = "on" /\ Carries(Tail(r), s, o, Tail(in))
    BY <1>1, <1>2, <1>3, TailCarries
<1>5. /\ rq => Agrees(TRUE, TRUE, sv, out, Tail(in))
      /\ ~rq => /\ Agrees(TRUE, TRUE, sv, Append(out, "on"), Tail(in))
                /\ Agrees(TRUE, FALSE, sv, Append(out, "off"), Tail(in))
    BY <1>1, <1>4, ClientOn
<1>6. Speech(q, Tail(r), sv, s, o)
    BY SpeechTail DEF Pair
<1>7. ASSUME rq
      PROVE  Reopened(q, s, o) /\ Pair(q, Tail(r), TRUE, TRUE, sv, s, o)
    <2>1. out = <<>> \/ out = <<"on">>
        BY <1>1, <1>4, <1>7, Silences
    <2>2. Reopened(q, s, o)
        BY <1>1, <1>2, <2>1, NoRefusal, ReopenedWithout
    <2>3. Talk(q, Tail(r), TRUE, TRUE, sv, s, o)
        <3>1. Agrees(TRUE, TRUE, sv, out, Tail(in))
            BY <1>5, <1>7
        <3>2. out \in Phrase /\ Tail(in) \in Phrase
            BY <3>1, Phrases
        <3> QED BY <1>1, <1>4, <3>1, <3>2 DEF Talk
    <2> QED BY <1>6, <2>2, <2>3 DEF Pair
<1>8. ASSUME ~rq
      PROVE  /\ Pair(Append(q, Cmd("on", s, o)), Tail(r), TRUE, TRUE, sv, s, o)
             /\ Pair(Append(q, Cmd("off", s, o)), Tail(r), TRUE, FALSE, sv, s, o)
    <2>1. ~(sv \in {"YES", "WANTNO"} /\ Carries(q, s, o, <<>>))
        BY <1>1, <1>2, <1>8, CarriesSame, Silences
    <2>2. /\ Speech(Append(q, Cmd("on", s, o)), Tail(r), sv, s, o)
          /\ Speech(Append(q, Cmd("off", s, o)), Tail(r), sv, s, o)
        BY <1>6, <2>1, SpeechKept
    <2>3. Talk(Append(q, Cmd("on", s, o)), Tail(r), TRUE, TRUE, sv, s, o)
        <3>1. Agrees(TRUE, TRUE, sv, Append(out, "on"), Tail(in))
            BY <1>5, <1>8
        <3>2. Append(out, "on") \in Phrase /\ Tail(in) \in Phrase
            BY <3>1, Phrases
        <3>3. Carries(Append(q, Cmd("on", s, o)), s, o, Append(out, "on"))
            BY <1>1, <1>2, <1>3, CarriesAppend
        <3> QED BY <1>4, <3>1, <3>2, <3>3 DEF Talk
    <2>4. Talk(Append(q, Cmd("off", s, o)), Tail(r), TRUE, FALSE, sv, s, o)
        <3>1. Agrees(TRUE, FALSE, sv, Append(out, "off"), Tail(in))
            BY <1>5, <1>8
        <3>2. Append(out, "off") \in Phrase /\ Tail(in) \in Phrase
            BY <3>1, Phrases
        <3>3. Carries(Append(q, Cmd("off", s, o)), s, o, Append(out, "off"))
            BY <1>1, <1>2, <1>3, CarriesAppend
        <3> QED BY <1>4, <3>1, <3>2, <3>3 DEF Talk
    <2> QED BY <2>2, <2>3, <2>4 DEF Pair
<1> QED BY <1>7, <1>8

LEMMA ClientReadsOff ==
    ASSUME NEW q \in Seq(Command), NEW r \in Seq(Command), r # <<>>,
           NEW s \in Side, NEW o \in Option, Head(r) = Cmd("off", s, o),
           NEW st, NEW rq, NEW sv,
           Pair(q, r, st, rq, sv, s, o)
    PROVE  Pair(Append(q, Cmd("off", s, o)), Tail(r), FALSE, FALSE, sv, s, o)
<1>1. PICK out \in Phrase, in \in Phrase :
         Carries(q, s, o, out) /\ Carries(r, s, o, in) /\ Agrees(st, rq, sv, out, in)
    BY DEF Pair, Talk
<1>2. out \in Seq(Turn) /\ in \in Seq(Turn) /\ "off" \in Turn
    BY Phrases DEF Turn
<1>3. in # <<>> /\ Head(in) = "off" /\ Carries(Tail(r), s, o, Tail(in))
    BY <1>1, <1>2, TailCarries
<1>4. Agrees(FALSE, FALSE, sv, Append(out, "off"), Tail(in))
    BY <1>1, <1>3, ClientOff
<1>5. Append(out, "off") \in Phrase /\ Tail(in) \in Phrase
    BY <1>4, Phrases
<1>6. Carries(Append(q, Cmd("off", s, o)), s, o, Append(out, "off"))
    BY <1>1, <1>2, CarriesAppend
<1>7. Talk(Append(q, Cmd("off", s, o)), Tail(r), FALSE, FALSE, sv, s, o)
    BY <1>3, <1>4, <1>5, <1>6 DEF Talk
<1>8. \A j \in 1..Len(Tail(r)) : Tail(r)[j] # Cmd("SB", s, o)
    BY SpeechTail DEF Pair
<1>9. Speech(Append(q, Cmd("off", s, o)), Tail(r), sv, s, o)
    BY <1>8 DEF Speech
<1> QED BY <1>4, <1>7, <1>9 DEF Pair

LEMMA PairSaid ==
    ASSUME NEW q \in Seq(Command), NEW Q, NEW r, NEW st, NEW rq, NEW sv,
           NEW s \in Side, NEW o \in Option, Said(q, Q, s, o),
           NEW t \in Side, NEW u \in Option, Pair(q, r, st, rq, sv, t, u)
    PROVE  Pair(Q, r, st, rq, sv, t, u)
<1>1. \A p \in Seq(Turn) : Carries(q, t, u, p) => Carries(Q, t, u, p)
    BY SaidKeeps
<1>2. PICK out \in Phrase, in \in Phrase :
         Carries(q, t, u, out) /\ Carries(r, t, u, in) /\ Agrees(st, rq, sv, out, in)
    BY DEF Pair, Talk
<1>3. Carries(Q, t, u, out)
    BY <1>1, <1>2, Phrases
<1>4. Talk(Q, r, st, rq, sv, t, u)
    BY <1>2, <1>3 DEF Talk
<1>5. Carries(q, t, u, <<>>) => Carries(Q, t, u, <<>>)
    BY <1>1, EmptySeq
<1>6. Speech(Q, r, sv, t, u)
    BY <1>5, SpeechKept DEF Pair
<1> QED BY <1>4, <1>6 DEF Pair

LEMMA ClientReadsSB ==
    ASSUME NEW q \in Seq(Command), NEW r \in Seq(Command), r # <<>>,
           NEW s \in Side, NEW o \in Option, Head(r) = Cmd("SB", s, o),
           NEW st, NEW rq, NEW sv, Pair(q, r, st, rq, sv, s, o)
    PROVE  Reopened(q, s, o) /\ Pair(q, Tail(r), st, rq, sv, s, o)
<1>1. Carries(q, s, o, <<>>) /\ Speech(q, Tail(r), sv, s, o)
    BY SpeechTail DEF Pair
<1>2. Reopened(q, s, o)
    BY <1>1, EmptySeq, NoRefusal, ReopenedWithout
<1>3. ~Negotiates(Head(r), s, o)
    BY DEF Negotiates, Cmd
<1>4. PICK out \in Phrase, in \in Phrase :
         Carries(q, s, o, out) /\ Carries(r, s, o, in) /\ Agrees(st, rq, sv, out, in)
    BY DEF Pair, Talk
<1>5. Carries(Tail(r), s, o, in)
    BY <1>3, <1>4, CarriesTailOther, Phrases
<1>6. Talk(q, Tail(r), st, rq, sv, s, o)
    BY <1>4, <1>5 DEF Talk
<1> QED BY <1>1, <1>2, <1>6 DEF Pair

-----------------------------------------------------------------------------
(* What the server makes of a command, and what it asks for. *)

(* While the server has the client's word to hear, it has said nothing.     *)
LEMMA NoSpeech ==
    ASSUME NEW q \in Seq(Command), q # <<>>, NEW r \in Seq(Command),
           NEW k \in Turn, NEW s \in Side, NEW o \in Option, Head(q) = Cmd(k, s, o),
           NEW sv, Speech(q, r, sv, s, o)
    PROVE  \A q2, sv2 :
             /\ Speech(q2, r, sv2, s, o)
             /\ \A l \in Turn : Speech(q2, Append(r, Cmd(l, s, o)), sv2, s, o)
<1>1. ASSUME Carries(q, s, o, <<>>) PROVE FALSE
    BY <1>1, TailCarries, EmptySeq
<1>2. \A j \in 1..Len(r) : r[j] # Cmd("SB", s, o)
    BY <1>1 DEF Speech
<1> SUFFICES ASSUME NEW q2, NEW sv2
             PROVE  /\ Speech(q2, r, sv2, s, o)
                    /\ \A l \in Turn : Speech(q2, Append(r, Cmd(l, s, o)), sv2, s, o)
    OBVIOUS
<1>3. Speech(q2, r, sv2, s, o)
    BY <1>2 DEF Speech
<1>4. ASSUME NEW l \in Turn
      PROVE  Speech(q2, Append(r, Cmd(l, s, o)), sv2, s, o)
    <2>1. Cmd(l, s, o) \in Command /\ Cmd(l, s, o) # Cmd("SB", s, o)
        BY DEF Cmd, Command, Turn
    <2> QED BY <1>3, <2>1, SpeechAppend
<1> QED BY <1>3, <1>4

LEMMA TalkOf ==
    ASSUME NEW q, NEW r, NEW st, NEW rq, NEW sv, NEW s, NEW o, NEW out, NEW in,
           Carries(q, s, o, out), Carries(r, s, o, in), Agrees(st, rq, sv, out, in)
    PROVE  Talk(q, r, st, rq, sv, s, o)
BY Phrases DEF Talk

LEMMA ServerReadsOn ==
    ASSUME NEW q \in Seq(Command), q # <<>>, NEW r \in Seq(Command),
           NEW s \in Side, NEW o \in Option, Head(q) = Cmd("on", s, o),
           NEW st \in BOOLEAN, NEW rq \in BOOLEAN, NEW sv, Pair(q, r, st, rq, sv, s, o)
    PROVE  /\ sv = "NO" \/ sv = "WANTYES"
           /\ sv = "NO" =>
                /\ Pair(Tail(q), Append(r, Cmd("on", s, o)), st, rq, "YES", s, o)
                /\ Pair(Tail(q), Append(r, Cmd("off", s, o)), st, rq, "NO", s, o)
           /\ sv = "WANTYES" => Pair(Tail(q), r, st, rq, "YES", s, o)
<1>1. PICK out \in Phrase, in \in Phrase :
         Carries(q, s, o, out) /\ Carries(r, s, o, in) /\ Agrees(st, rq, sv, out, in)
    BY DEF Pair, Talk
<1>2. out \in Seq(Turn) /\ in \in Seq(Turn) /\ "on" \in Turn /\ "off" \in Turn
    BY Phrases DEF Turn
<1>3. out # <<>> /\ Head(out) = "on" /\ Carries(Tail(q), s, o, Tail(out))
    BY <1>1, <1>2, TailCarries
<1>4. /\ sv = "NO" \/ sv = "WANTYES"
      /\ sv = "NO" => /\ Agrees(st, rq, "YES", Tail(out), Append(in, "on"))
                      /\ Agrees(st, rq, "NO", Tail(out), Append(in, "off"))
      /\ sv = "WANTYES" => Agrees(st, rq, "YES", Tail(out), in)
    BY <1>1, <1>3, ServerOn
<1>5. /\ Carries(Append(r, Cmd("on", s, o)), s, o, Append(in, "on"))
      /\ Carries(Append(r, Cmd("off", s, o)), s, o, Append(in, "off"))
    BY <1>1, <1>2, CarriesAppend
<1>6. \A q2, sv2 :
        /\ Speech(q2, r, sv2, s, o)
        /\ \A l \in Turn : Speech(q2, Append(r, Cmd(l, s, o)), sv2, s, o)
    BY <1>2, NoSpeech DEF Pair
<1>7. ASSUME sv = "NO"
      PROVE  /\ Pair(Tail(q), Append(r, Cmd("on", s, o)), st, rq, "YES", s, o)
             /\ Pair(Tail(q), Append(r, Cmd("off", s, o)), st, rq, "NO", s, o)
    <2>1. Talk(Tail(q), Append(r, Cmd("on", s, o)), st, rq, "YES", s, o)
        BY <1>3, <1>4, <1>5, <1>7, TalkOf
    <2>2. Talk(Tail(q), Append(r, Cmd("off", s, o)), st, rq, "NO", s, o)
        BY <1>3, <1>4, <1>5, <1>7, TalkOf
    <2> QED BY <1>2, <1>6, <2>1, <2>2 DEF Pair
<1>8. ASSUME sv = "WANTYES"
      PROVE  Pair(Tail(q), r, st, rq, "YES", s, o)
    <2>1. Talk(Tail(q), r, st, rq, "YES", s, o)
        BY <1>1, <1>3, <1>4, <1>8, TalkOf
    <2> QED BY <1>6, <2>1 DEF Pair
<1> QED BY <1>4, <1>7, <1>8

LEMMA ServerReadsOff ==
    ASSUME NEW q \in Seq(Command), q # <<>>, NEW r \in Seq(Command),
           NEW s \in Side, NEW o \in Option, Head(q) = Cmd("off", s, o),
           NEW st \in BOOLEAN, NEW rq \in BOOLEAN, NEW sv, Pair(q, r, st, rq, sv, s, o)
    PROVE  sv # "YES" /\ Pair(Tail(q), r, st, rq, "NO", s, o)
<1>1. PICK out \in Phrase, in \in Phrase :
         Carries(q, s, o, out) /\ Carries(r, s, o, in) /\ Agrees(st, rq, sv, out, in)
    BY DEF Pair, Talk
<1>2. out \in Seq(Turn) /\ "off" \in Turn
    BY Phrases DEF Turn
<1>3. out # <<>> /\ Head(out) = "off" /\ Carries(Tail(q), s, o, Tail(out))
    BY <1>1, <1>2, TailCarries
<1>4. sv # "YES" /\ Agrees(st, rq, "NO", Tail(out), in)
    BY <1>1, <1>3, ServerOff
<1>5. Talk(Tail(q), r, st, rq, "NO", s, o)
    BY <1>1, <1>3, <1>4, TalkOf
<1>6. Speech(Tail(q), r, "NO", s, o)
    BY <1>2, NoSpeech DEF Pair
<1> QED BY <1>4, <1>5, <1>6 DEF Pair

LEMMA ServerReadsSB ==
    ASSUME NEW q \in Seq(Command), q # <<>>, NEW r,
           NEW s \in Side, NEW o \in Option, Head(q) = Cmd("SB", s, o),
           NEW st, NEW rq, NEW sv, Pair(q, r, st, rq, sv, s, o)
    PROVE  Pair(Tail(q), r, st, rq, sv, s, o)
<1>1. PICK out \in Phrase, in \in Phrase :
         Carries(q, s, o, out) /\ Carries(r, s, o, in) /\ Agrees(st, rq, sv, out, in)
    BY DEF Pair, Talk
<1>2. ~Negotiates(Head(q), s, o)
    BY DEF Negotiates, Cmd
<1>3. Carries(Tail(q), s, o, out)
    BY <1>1, <1>2, CarriesTailOther, Phrases
<1>4. Talk(Tail(q), r, st, rq, sv, s, o)
    BY <1>1, <1>3, TalkOf
<1>5. Carries(q, s, o, <<>>) => Carries(Tail(q), s, o, <<>>)
    BY <1>2, CarriesTailOther, EmptySeq
<1>6. Speech(Tail(q), r, sv, s, o)
    BY <1>5, SpeechKept DEF Pair
<1> QED BY <1>4, <1>6 DEF Pair

LEMMA ServerWants ==
    ASSUME NEW q \in Seq(Command), NEW r \in Seq(Command), NEW s \in Side, NEW o \in Option,
           NEW st \in BOOLEAN, NEW rq \in BOOLEAN, NEW sv, Pair(q, r, st, rq, sv, s, o)
    PROVE  /\ sv = "NO" => Pair(q, Append(r, Cmd("on", s, o)), st, rq, "WANTYES", s, o)
           /\ sv = "YES" => /\ Pair(q, Append(r, Cmd("off", s, o)), st, rq, "WANTNO", s, o)
                            /\ Pair(q, Append(r, Cmd("SB", s, o)), st, rq, "YES", s, o)
<1>1. PICK out \in Phrase, in \in Phrase :
         Carries(q, s, o, out) /\ Carries(r, s, o, in) /\ Agrees(st, rq, sv, out, in)
    BY DEF Pair, Talk
<1>2. in \in Seq(Turn) /\ out \in Seq(Turn) /\ "on" \in Turn /\ "off" \in Turn
    BY Phrases DEF Turn
<1>3. \A k \in Turn : Carries(Append(r, Cmd(k, s, o)), s, o, Append(in, k))
    BY <1>1, <1>2, CarriesAppend
<1>4. \A k \in Turn : Cmd(k, s, o) \in Command /\ Cmd(k, s, o) # Cmd("SB", s, o)
    BY DEF Cmd, Command, Turn
<1>5. ASSUME sv = "NO"
      PROVE  Pair(q, Append(r, Cmd("on", s, o)), st, rq, "WANTYES", s, o)
    <2>1. Agrees(st, rq, "WANTYES", out, Append(in, "on"))
        BY <1>1, <1>5, ServerRequests
    <2>2. Talk(q, Append(r, Cmd("on", s, o)), st, rq, "WANTYES", s, o)
        BY <1>1, <1>2, <1>3, <2>1, TalkOf
    <2>3. Speech(q, r, "WANTYES", s, o)
        BY <1>5 DEF Pair, Speech
    <2>4. Speech(q, Append(r, Cmd("on", s, o)), "WANTYES", s, o)
        BY <1>2, <1>4, <2>3, SpeechAppend
    <2> QED BY <2>2, <2>4 DEF Pair
<1>6. ASSUME sv = "YES"
      PROVE  Pair(q, Append(r, Cmd("off", s, o)), st, rq, "WANTNO", s, o)
    <2>1. Agrees(st, rq, "WANTNO", out, Append(in, "off"))
        BY <1>1, <1>6, ServerRequests
    <2>2. Talk(q, Append(r, Cmd("off", s, o)), st, rq, "WANTNO", s, o)
        BY <1>1, <1>2, <1>3, <2>1, TalkOf
    <2>3. Speech(q, r, "WANTNO", s, o)
        BY DEF Pair, Speech
    <2>4. Speech(q, Append(r, Cmd("off", s, o)), "WANTNO", s, o)
        BY <1>2, <1>4, <2>3, SpeechAppend
    <2> QED BY <2>2, <2>4 DEF Pair
<1>7. ASSUME sv = "YES"
      PROVE  Pair(q, Append(r, Cmd("SB", s, o)), st, rq, "YES", s, o)
    <2> DEFINE c == Cmd("SB", s, o)
               R == Append(r, c)
    <2>1. c \in Command /\ ~Negotiates(c, s, o)
        BY Commands DEF Negotiates, Cmd
    <2> HIDE DEF c
    <2>2. Carries(R, s, o, in)
        BY <1>1, <1>2, <2>1, CarriesOther
    <2>3. out = <<>> /\ (in = <<>> \/ in = <<"on">>)
        BY <1>1, <1>7, Silences
    <2>4. \A j \in 1..Len(r) : r[j] # Cmd("off", s, o)
        BY <1>1, <1>2, <2>3, NoRefusal
    <2>5. Len(r) \in Nat /\ Len(R) = Len(r) + 1 /\ \A j \in 1..Len(r) : R[j] = r[j]
        BY <2>1
    <2> HIDE DEF R
    <2>6. Talk(q, R, st, rq, "YES", s, o)
        BY <1>1, <1>7, <2>2, TalkOf
    <2>7. ASSUME NEW j \in 1..Len(R), NEW i \in 1..(j - 1)
          PROVE  R[i] # Cmd("off", s, o)
        <3>1. i \in 1..Len(r)
            BY <2>5
        <3> QED BY <2>4, <2>5, <3>1
    <2>8. Speech(q, R, "YES", s, o)
        BY <1>1, <2>3, <2>7 DEF Speech
    <2>9. Pair(q, R, st, rq, "YES", s, o)
        BY <2>6, <2>8 DEF Pair
    <2> QED BY <2>9 DEF R, c
<1> QED BY <1>5, <1>6, <1>7

-----------------------------------------------------------------------------
(* The requests of a new connection. *)

LEMMA FiniteRequests ==
    ASSUME NEW S \in SUBSET Command, \A c \in S : c.kind = "on"
    PROVE  IsFiniteSet(S)
<1> DEFINE f == [c \in S |-> IF c.side = "local" THEN c.option ELSE c.option + 256]
<1>1. ASSUME NEW c \in S
      PROVE  /\ c.option \in 0..255 /\ (c.side = "local" \/ c.side = "remote")
             /\ c = Cmd("on", c.side, c.option)
    BY <1>1, OptionAssumption DEF Command, Cmd, Side
<1>2. \A c \in S : f[c] \in 0..511
    BY <1>1
<1>3. f \in [S -> 0..511]
    BY <1>2
<1>7. \A c \in S : f[c] = IF c.side = "local" THEN c.option ELSE c.option + 256
    OBVIOUS
<1> HIDE DEF f
<1>4. ASSUME NEW c \in S, NEW d \in S, f[c] = f[d]
      PROVE  c = d
    <2> DEFINE m == c.option
               n == d.option
    <2>1. m \in 0..255 /\ n \in 0..255
        BY <1>1
    <2>2. /\ f[c] = IF c.side = "local" THEN m ELSE m + 256
          /\ f[d] = IF d.side = "local" THEN n ELSE n + 256
        BY <1>7
    <2>3. /\ c.side = "local" \/ c.side = "remote"
          /\ d.side = "local" \/ d.side = "remote"
        BY <1>1
    <2> HIDE DEF m, n
    <2>4. m = n /\ (c.side = "local" <=> d.side = "local")
        <3>1. CASE c.side = "local" /\ d.side = "local"
            BY <1>4, <2>2, <3>1
        <3>2. CASE c.side # "local" /\ d.side # "local"
            <4>1. m + 256 = n + 256
                BY <1>4, <2>2, <3>2
            <4> QED BY <2>1, <3>2, <4>1
        <3>3. CASE c.side = "local" /\ d.side # "local"
            <4>1. m = n + 256
                BY <1>4, <2>2, <3>3
            <4>2. m \in Int /\ m <= 255 /\ n \in Int /\ 0 <= n
                BY <2>1
            <4> QED BY <4>1, <4>2
        <3>4. CASE c.side # "local" /\ d.side = "local"
            <4>1. m + 256 = n
                BY <1>4, <2>2, <3>4
            <4> QED BY <2>1, <4>1
        <3> QED BY <3>1, <3>2, <3>3, <3>4
    <2>5. c.option = d.option /\ c.side = d.side
        BY <2>3, <2>4 DEF m, n
    <2>6. c = Cmd("on", c.side, c.option) /\ d = Cmd("on", d.side, d.option)
        BY <1>1
    <2> QED BY <2>5, <2>6
<1>5. f \in Injection(S, 0..511)
    BY <1>3, <1>4 DEF Injection, IsInjective
<1>6. PICK k \in Int : k = 511
    OBVIOUS
<1>8. f \in Injection(S, 0..k)
    BY <1>5, <1>6
<1>9. IsFiniteSet(0..k)
    <2>1. 0 \in Int
        OBVIOUS
    <2> QED BY <2>1, FS_Interval, Zenon
<1> QED BY <1>8, <1>9, FS_Injection

LEMMA Requested ==
    ASSUME NEW S \in SUBSET Command, \A c \in S : c.kind = "on", NEW q \in InOrder(S)
    PROVE  /\ q \in Seq(Command) /\ Follows(q)
           /\ \A s \in Side, o \in Option :
                /\ Cmd("on", s, o) \in S => Carries(q, s, o, <<"on">>)
                /\ Cmd("on", s, o) \notin S => Carries(q, s, o, <<>>)
<1>1. /\ q \in [1..Cardinality(S) -> S] /\ Range(q) = S
      /\ \A i, j \in DOMAIN q : i < j => Before(q[i], q[j])
    BY DEF InOrder
<1>2. Cardinality(S) \in Nat
    BY FiniteRequests, FS_CardinalityType
<1>3. q \in [1..Cardinality(S) -> Command]
    BY <1>1
<1>4. q \in Seq(Command) /\ Len(q) = Cardinality(S) /\ DOMAIN q = 1..Len(q)
    BY <1>2, <1>3
<1>5. \A j \in 1..Len(q) : q[j] \in S /\ q[j].kind = "on"
    BY <1>1, <1>4
<1>6. Follows(q)
    BY <1>5 DEF Follows, Cmd
<1>7. ASSUME NEW i \in 1..Len(q), NEW j \in 1..Len(q), q[i] = q[j]
      PROVE  i = j
    <2>1. ASSUME NEW k \in 1..Len(q), NEW l \in 1..Len(q), k < l
          PROVE  q[k] # q[l]
        <3>1. Before(q[k], q[l])
            BY <1>1, <1>4, <2>1
        <3>2. q[k].option \in 0..255
            BY <1>5, OptionAssumption DEF Command
        <3>3. ~(q[k].option < q[k].option)
            <4> DEFINE x == q[k].option
            <4>1. x \in Option /\ Option \subseteq Int
                BY <1>5, OptionAssumption DEF Command
            <4> HIDE DEF x
            <4>2. ~(x < x)
                BY <4>1
            <4> QED BY <4>2 DEF x
        <3>4. ~(q[k].side = "local" /\ q[k].side = "remote")
            OBVIOUS
        <3>5. ~Before(q[k], q[k])
            BY <3>3, <3>4, Zenon DEF Before
        <3> QED BY <3>1, <3>5
    <2> QED BY <1>4, <1>7, <2>1
<1>8. ASSUME NEW s \in Side, NEW o \in Option, NEW j \in 1..Len(q), Negotiates(q[j], s, o)
      PROVE  q[j] = Cmd("on", s, o)
    BY <1>5, <1>8 DEF Negotiates, Cmd, Command
<1>9. ASSUME NEW s \in Side, NEW o \in Option, Cmd("on", s, o) \notin S
      PROVE  Carries(q, s, o, <<>>)
    <2> DEFINE f == [i \in 1..0 |-> 0]
    <2>1. \A j \in 1..Len(q) : ~Negotiates(q[j], s, o)
        BY <1>5, <1>8, <1>9
    <2>2. Places(f, q, s, o, <<>>)
        BY <2>1 DEF Places
    <2> QED BY <2>2 DEF Carries, Places
<1>10. ASSUME NEW s \in Side, NEW o \in Option, Cmd("on", s, o) \in S
       PROVE  Carries(q, s, o, <<"on">>)
    <2>1. PICK k \in 1..Len(q) : q[k] = Cmd("on", s, o)
        BY <1>1, <1>4, <1>10 DEF Range
    <2> DEFINE f == [i \in 1..1 |-> k]
               p == <<"on">>
    <2>2. Len(p) = 1 /\ p[1] = "on" /\ \A i \in 1..1 : i = 1
        OBVIOUS
    <2>3. \A i \in 1..1 : f[i] = k
        OBVIOUS
    <2>4. f \in [1..1 -> 1..Len(q)]
        OBVIOUS
    <2> HIDE DEF f, p
    <2>5. \A i \in 1..1 : q[f[i]] = Cmd(p[i], s, o)
        BY <2>1, <2>2, <2>3
    <2>6. ASSUME NEW j \in 1..Len(q), Negotiates(q[j], s, o)
          PROVE  \E i \in 1..1 : f[i] = j
        <3>1. q[j] = q[k]
            BY <1>8, <2>1, <2>6
        <3>2. j = k
            BY <1>7, <3>1
        <3> QED BY <2>3, <3>2
    <2>7. \A i, j \in 1..1 : i < j => f[i] < f[j]
        BY <2>2
    <2>8. Places(f, q, s, o, p)
        BY <2>2, <2>4, <2>5, <2>6, <2>7 DEF Places
    <2> QED BY <2>8 DEF Carries, Places, p
<1> QED BY <1>4, <1>6, <1>9, <1>10

-----------------------------------------------------------------------------
(* The invariant's steps. *)

(* Only the entry of one option and side may differ. *)
SameElsewhere(f, g, s, o) ==
    \A u \in Option, t \in Side : <<t, u>> # <<s, o>> => g[u][t] = f[u][t]

Put(f, s, o, v) == [f EXCEPT ![o][s] = v]

LEMMA SetOne ==
    ASSUME NEW V, NEW f \in PerOption(V), NEW s \in Side, NEW o \in Option, NEW v \in V
    PROVE  /\ Put(f, s, o, v) \in PerOption(V)
           /\ Put(f, s, o, v)[o][s] = v
           /\ SameElsewhere(f, Put(f, s, o, v), s, o)
<1> DEFINE g == [f EXCEPT ![o][s] = v]
<1>1. g \in PerOption(V)
    BY DEF PerOption
<1>2. g[o][s] = v
    BY DEF PerOption
<1>3. ASSUME NEW u \in Option, NEW t \in Side, <<t, u>> # <<s, o>>
      PROVE  g[u][t] = f[u][t]
    <2>1. CASE u = o
        BY <1>3, <2>1 DEF PerOption
    <2>2. CASE u # o
        BY <2>2 DEF PerOption
    <2> QED BY <2>1, <2>2
<1>4. SameElsewhere(f, g, s, o)
    BY <1>3 DEF SameElsewhere
<1> QED BY <1>1, <1>2, <1>4 DEF Put

LEMMA SetBit ==
    ASSUME NEW f \in PerOption(BOOLEAN), NEW s \in Side, NEW o \in Option
    PROVE  /\ Put(f, s, o, TRUE) \in PerOption(BOOLEAN)
           /\ Put(f, s, o, FALSE) \in PerOption(BOOLEAN)
           /\ Put(f, s, o, TRUE)[o][s]
           /\ ~Put(f, s, o, FALSE)[o][s]
           /\ SameElsewhere(f, Put(f, s, o, TRUE), s, o)
           /\ SameElsewhere(f, Put(f, s, o, FALSE), s, o)
<1>1. /\ [f EXCEPT ![o][s] = TRUE] \in PerOption(BOOLEAN)
      /\ [f EXCEPT ![o][s] = TRUE][o][s]
    BY DEF PerOption
<1>2. /\ [f EXCEPT ![o][s] = FALSE] \in PerOption(BOOLEAN)
      /\ ~[f EXCEPT ![o][s] = FALSE][o][s]
    BY DEF PerOption
<1>3. ASSUME NEW u \in Option, NEW t \in Side, <<t, u>> # <<s, o>>
      PROVE  /\ [f EXCEPT ![o][s] = TRUE][u][t] = f[u][t]
             /\ [f EXCEPT ![o][s] = FALSE][u][t] = f[u][t]
    <2>1. CASE u = o
        BY <1>3, <2>1 DEF PerOption
    <2>2. CASE u # o
        BY <2>2 DEF PerOption
    <2> QED BY <2>1, <2>2
<1> QED BY <1>1, <1>2, <1>3 DEF Put, SameElsewhere

LEMMA SameItself ==
    ASSUME NEW f, NEW s, NEW o
    PROVE  SameElsewhere(f, f, s, o)
BY DEF SameElsewhere

(* What a command may do to the option and the side it is about. *)
LEMMA ClientStep ==
    ASSUME IInv, connected, toClient # <<>>,
           NEW s \in Side, NEW o \in Option, Head(toClient).side = s, Head(toClient).option = o,
           toClient' = Tail(toClient), UNCHANGED <<optionHandlers, server, connected>>,
           NEW base \in Seq(Command), Said(base, toServer', s, o),
           Elsewhere(toServer, base, s, o), Follows(base),
           {state', requested'} \subseteq PerOption(BOOLEAN),
           SameElsewhere(state, state', s, o), SameElsewhere(requested, requested', s, o),
           SameElsewhere(response, response', s, o), SameElsewhere(flag, flag', s, o),
           response' \in PerOption(0..2), flag' \in PerOption({"up", "down", "unset"}),
           Counter(response'[o][s], state'[o][s], requested'[o][s]),
           Pair(base, Tail(toClient), state'[o][s], requested'[o][s], server[o][s], s, o),
           optionHandlers[o] # NoHandler /\ flag'[o][s] # "unset" =>
               (flag'[o][s] = "up" <=> state'[o][s] /\ requested'[o][s])
    PROVE  IInv'
<1>1. TypeOK /\ Counters /\ Pairs /\ FlagsTrue /\ Follows(toServer)
    BY DEF IInv
<1>2. toServer \in Seq(Command) /\ toClient \in Seq(Command)
    BY <1>1 DEF TypeOK
<1>3. /\ toServer' \in Seq(Command) /\ Follows(toServer')
      /\ \A t \in Side, u \in Option, p \in Seq(Turn) :
            Carries(base, t, u, p) => Carries(toServer', t, u, p)
    BY SaidKeeps
<1>4. toClient' \in Seq(Command)
    BY <1>2, TailOfChannel
<1>5. TypeOK'
    BY <1>1, <1>3, <1>4 DEF TypeOK
<1>6. ASSUME NEW u \in Option, NEW t \in Side
      PROVE  /\ Counter(response'[u][t], state'[u][t], requested'[u][t])
             /\ Pair(toServer', toClient', state'[u][t], requested'[u][t], server'[u][t], t, u)
             /\ optionHandlers'[u] # NoHandler /\ flag'[u][t] # "unset" =>
                    (flag'[u][t] = "up" <=> state'[u][t] /\ requested'[u][t])
    <2>1. CASE <<t, u>> = <<s, o>>
        <3>1. t = s /\ u = o
            BY <2>1
        <3>2. Pair(toServer', Tail(toClient), state'[o][s], requested'[o][s], server[o][s], s, o)
            BY PairSaid
        <3> QED BY <3>1, <3>2
    <2>2. CASE <<t, u>> # <<s, o>>
        <3>1. /\ state'[u][t] = state[u][t] /\ requested'[u][t] = requested[u][t]
              /\ response'[u][t] = response[u][t] /\ flag'[u][t] = flag[u][t]
            BY <2>2 DEF SameElsewhere
        <3>2. Pair(toServer, toClient, state[u][t], requested[u][t], server[u][t], t, u)
            BY <1>1 DEF Pairs
        <3>3. Pair(base, Tail(toClient), state[u][t], requested[u][t], server[u][t], t, u)
            BY <1>2, <2>2, <3>2, ReadElsewhere
        <3>4. Pair(toServer', Tail(toClient), state[u][t], requested[u][t], server[u][t], t, u)
            BY <3>3, PairSaid
        <3>5. Counter(response[u][t], state[u][t], requested[u][t])
            BY <1>1 DEF Counters
        <3>6. optionHandlers[u] # NoHandler /\ flag[u][t] # "unset" =>
                    (flag[u][t] = "up" <=> state[u][t] /\ requested[u][t])
            BY <1>1 DEF FlagsTrue, On
        <3> QED BY <3>1, <3>4, <3>5, <3>6
    <2> QED BY <2>1, <2>2
<1>7. Counters'
    BY <1>6 DEF Counters
<1>8. Pairs'
    BY <1>6 DEF Pairs
<1>9. FlagsTrue'
    BY <1>6 DEF FlagsTrue, On
<1>10. Follows(toServer)'
    BY <1>3
<1> QED BY <1>5, <1>7, <1>8, <1>9, <1>10 DEF IInv

LEMMA FlagIsSet ==
    ASSUME flag \in PerOption({"up", "down", "unset"}),
           NEW s \in Side, NEW o \in Option, NEW v \in {"up", "down", "unset"}, SetFlag(s, o, v)
    PROVE  /\ flag' \in PerOption({"up", "down", "unset"})
           /\ SameElsewhere(flag, flag', s, o)
           /\ optionHandlers[o] # NoHandler => flag'[o][s] = v
<1>1. CASE optionHandlers[o] = NoHandler
    <2>1. flag' = flag
        BY <1>1 DEF SetFlag
    <2> QED BY <1>1, <2>1, SameItself
<1>2. CASE optionHandlers[o] # NoHandler
    <2>1. flag' = Put(flag, s, o, v)
        BY <1>2 DEF SetFlag, Put
    <2> QED BY <2>1, SetOne
<1> QED BY <1>1, <1>2

LEMMA TurnOnStep ==
    ASSUME IInv, connected, toClient # <<>>, NEW s \in Side, NEW o \in Option,
           Head(toClient) = Cmd("on", s, o), TurnOn(s, o),
           toClient' = Tail(toClient), UNCHANGED <<optionHandlers, server, connected>>
    PROVE  IInv'
<1> DEFINE q == toServer
           n == Answered(response[o][s], state[o][s])
           new == n = 0 /\ ~requested[o][s]
           accepted == new /\ Accepts(s, o)
           refused == new /\ ~Accepts(s, o)
           wanted == requested[o][s] \/ accepted
           n2 == IF refused THEN n + 1 ELSE n
           on == Cmd("on", s, o)
           off == Cmd("off", s, o)
           sb == Cmd("SB", s, o)
           A == When(accepted, "on", s, o)
           B == When(refused, "off", s, o)
           C == When(wanted /\ Speaks(o, Start(s)), "SB", s, o)
           base == IF accepted THEN Append(q, on) ELSE IF refused THEN Append(q, off) ELSE q
<1>1. TypeOK /\ Counters /\ Pairs /\ FlagsTrue /\ Follows(q)
    BY DEF IInv
<1>2. /\ q \in Seq(Command) /\ toClient \in Seq(Command)
      /\ {state, requested} \subseteq PerOption(BOOLEAN) /\ response \in PerOption(0..2)
      /\ flag \in PerOption({"up", "down", "unset"})
    BY <1>1 DEF TypeOK
<1>3. state[o][s] \in BOOLEAN /\ requested[o][s] \in BOOLEAN
    BY <1>2 DEF PerOption
<1>4. Counter(response[o][s], state[o][s], requested[o][s])
    BY <1>1 DEF Counters
<1>5. Pair(q, toClient, state[o][s], requested[o][s], server[o][s], s, o)
    BY <1>1 DEF Pairs
<1>6. Head(toClient).side = s /\ Head(toClient).option = o
    BY DEF Cmd
<1>7. /\ response' = Put(response, s, o, n2)
      /\ requested' = Put(requested, s, o, wanted)
      /\ state' = Put(state, s, o, TRUE)
      /\ IF wanted THEN SetFlag(s, o, "up") ELSE UNCHANGED flag
      /\ toServer' = q \o ((A \o B) \o C)
    BY DEF TurnOn, Raise, Put, Reply
<1>8. on \in Command /\ off \in Command /\ sb \in Command
    BY Commands
<1>9. /\ n \in 0..2
      /\ ~requested[o][s] => n = 0
      /\ requested[o][s] => Counter(n, TRUE, TRUE)
    <2>1. PICK out \in Phrase, in \in Phrase :
            /\ Carries(q, s, o, out) /\ Carries(toClient, s, o, in)
            /\ Agrees(state[o][s], requested[o][s], server[o][s], out, in)
        BY <1>5 DEF Pair, Talk
    <2>2. in # <<>> /\ Head(in) = "on"
        <3>1. "on" \in Turn
            BY DEF Turn
        <3> QED BY <1>2, <2>1, <3>1, Phrases, TailCarries
    <2> QED BY <1>3, <1>4, <2>1, <2>2, ClientOn
<1>10. /\ requested[o][s] => Reopened(q, s, o) /\ Pair(q, Tail(toClient), TRUE, TRUE, server[o][s], s, o)
       /\ ~requested[o][s] => /\ Pair(Append(q, on), Tail(toClient), TRUE, TRUE, server[o][s], s, o)
                              /\ Pair(Append(q, off), Tail(toClient), TRUE, FALSE, server[o][s], s, o)
    BY <1>2, <1>3, <1>4, <1>5, ClientReadsOn
<1>11. /\ Elsewhere(q, Append(q, on), s, o) /\ Elsewhere(q, Append(q, off), s, o) /\ Elsewhere(q, q, s, o)
       /\ Follows(Append(q, on)) /\ Follows(Append(q, off))
    <2>1. "on" \in Turn /\ "off" \in Turn
        BY DEF Turn
    <2> QED BY <1>1, <1>2, <2>1, AppendElsewhere, ElsewhereItself, TurnFollows
<1>12. /\ Append(q, on) \in Seq(Command) /\ Append(q, off) \in Seq(Command)
       /\ Reopened(Append(q, on), s, o)
    BY <1>2, <1>8, ConcatCommand, ReopenedByOn
<1>13. /\ A = IF accepted THEN <<on>> ELSE <<>>
       /\ B = IF refused THEN <<off>> ELSE <<>>
       /\ C = <<>> \/ (wanted /\ C = <<sb>>)
    BY DEF When
<1>14. /\ wanted <=> requested[o][s] \/ Accepts(s, o)
       /\ accepted <=> ~requested[o][s] /\ Accepts(s, o)
       /\ refused <=> ~requested[o][s] /\ ~Accepts(s, o)
    BY <1>9, SMTT(30)
<1>15. state' \in PerOption(BOOLEAN) /\ state'[o][s] /\ SameElsewhere(state, state', s, o)
    BY <1>2, <1>7, SetBit
<1>16. /\ requested' \in PerOption(BOOLEAN) /\ (requested'[o][s] <=> wanted)
       /\ SameElsewhere(requested, requested', s, o)
    <2>1. CASE wanted
        <3>1. requested' = Put(requested, s, o, TRUE)
            BY <1>7, <2>1
        <3> QED BY <1>2, <2>1, <3>1, SetBit
    <2>2. CASE ~wanted
        <3>1. requested' = Put(requested, s, o, FALSE)
            BY <1>7, <2>2
        <3> QED BY <1>2, <2>2, <3>1, SetBit
    <2> QED BY <2>1, <2>2
<1>17. n2 \in 0..2 /\ Counter(n2, state'[o][s], requested'[o][s])
    <2>1. CASE requested[o][s]
        <3>1. n2 = n /\ requested'[o][s]
            BY <1>14, <1>16, <2>1
        <3> QED BY <1>9, <1>15, <2>1, <3>1 DEF Counter
    <2>2. CASE ~requested[o][s] /\ Accepts(s, o)
        <3>1. n2 = 0 /\ requested'[o][s]
            BY <1>9, <1>14, <1>16, <2>2
        <3> QED BY <1>15, <3>1 DEF Counter
    <2>3. CASE ~requested[o][s] /\ ~Accepts(s, o)
        <3>1. n2 = 1 /\ ~requested'[o][s]
            BY <1>9, <1>14, <1>16, <2>3
        <3> QED BY <1>15, <3>1 DEF Counter
    <2> QED BY <2>1, <2>2, <2>3
<1> HIDE DEF n2
<1>18. /\ response' \in PerOption(0..2) /\ response'[o][s] = n2
       /\ SameElsewhere(response, response', s, o)
    <2> DEFINE V == 0..2
    <2>1. response \in PerOption(V) /\ n2 \in V /\ response' = Put(response, s, o, n2)
        BY <1>2, <1>7, <1>17
    <2> HIDE DEF V
    <2>2. response' \in PerOption(V) /\ response'[o][s] = n2 /\ SameElsewhere(response, response', s, o)
        BY <2>1, SetOne
    <2> QED BY <2>2, SMTT(30) DEF V
<1>19. /\ flag' \in PerOption({"up", "down", "unset"}) /\ SameElsewhere(flag, flag', s, o)
       /\ optionHandlers[o] # NoHandler /\ flag'[o][s] # "unset" =>
               (flag'[o][s] = "up" <=> wanted)
    <2>1. CASE wanted
        <3>1. SetFlag(s, o, "up")
            BY <1>7, <2>1
        <3> QED BY <1>2, <2>1, <3>1, FlagIsSet
    <2>2. CASE ~wanted
        <3>1. flag' = flag
            BY <1>7, <2>2
        <3>2. ~requested[o][s]
            BY <2>2
        <3>3. optionHandlers[o] # NoHandler /\ flag[o][s] # "unset" => flag[o][s] # "up"
            BY <1>1, <3>2 DEF FlagsTrue, On, IInv
        <3> QED BY <1>2, <2>2, <3>1, <3>3, SameItself, SMTT(30)
    <2> QED BY <2>1, <2>2
<1> HIDE DEF on, off, sb, A, B, C, n
<1>20. /\ base \in Seq(Command) /\ Elsewhere(q, base, s, o) /\ Follows(base)
       /\ wanted => Reopened(base, s, o)
       /\ Pair(base, Tail(toClient), state'[o][s], requested'[o][s], server[o][s], s, o)
       /\ (q \o A) \o B = base
    <2>1. CASE requested[o][s]
        <3>1. base = q /\ A = <<>> /\ B = <<>>
            BY <1>13, <1>14, <2>1
        <3>2. (state'[o][s] = TRUE) /\ (requested'[o][s] = TRUE)
            BY <1>14, <1>15, <1>16, <2>1 DEF PerOption
        <3>3. (q \o A) \o B = base
            BY <1>2, <3>1, ConcatCommand
        <3>4. Pair(base, Tail(toClient), state'[o][s], requested'[o][s], server[o][s], s, o)
            BY <1>10, <2>1, <3>1, <3>2
        <3> QED BY <1>1, <1>2, <1>10, <1>11, <2>1, <3>1, <3>3, <3>4
    <2>2. CASE ~requested[o][s] /\ Accepts(s, o)
        <3>1. base = Append(q, on) /\ A = <<on>> /\ B = <<>>
            BY <1>13, <1>14, <2>2
        <3>2. (state'[o][s] = TRUE) /\ (requested'[o][s] = TRUE)
            BY <1>14, <1>15, <1>16, <2>2 DEF PerOption
        <3>3. (q \o A) \o B = base
            BY <1>2, <1>8, <1>12, <3>1, ConcatCommand
        <3>4. Pair(base, Tail(toClient), state'[o][s], requested'[o][s], server[o][s], s, o)
            BY <1>10, <2>2, <3>1, <3>2
        <3> QED BY <1>11, <1>12, <3>1, <3>3, <3>4
    <2>3. CASE ~requested[o][s] /\ ~Accepts(s, o)
        <3>1. base = Append(q, off) /\ A = <<>> /\ B = <<off>> /\ ~wanted
            BY <1>13, <1>14, <2>3
        <3>2. (state'[o][s] = TRUE) /\ (requested'[o][s] = FALSE)
            BY <1>14, <1>15, <1>16, <2>3 DEF PerOption
        <3>3. (q \o A) \o B = base
            BY <1>2, <1>8, <3>1, ConcatCommand
        <3>4. Pair(base, Tail(toClient), state'[o][s], requested'[o][s], server[o][s], s, o)
            BY <1>10, <2>3, <3>1, <3>2
        <3> QED BY <1>11, <1>12, <3>1, <3>3, <3>4
    <2> QED BY <2>1, <2>2, <2>3
<1> HIDE DEF base
<1>21. Said(base, toServer', s, o)
    <2>1. A \in Seq(Command) /\ B \in Seq(Command) /\ C \in Seq(Command)
        <3>1. <<>> \in Seq(Command) /\ <<on>> \in Seq(Command) /\ <<off>> \in Seq(Command) /\ <<sb>> \in Seq(Command)
            BY <1>8
        <3>2. /\ A = <<>> \/ A = <<on>>
              /\ B = <<>> \/ B = <<off>>
              /\ C = <<>> \/ C = <<sb>>
            BY <1>13
        <3> QED BY <3>1, <3>2
    <2>2. toServer' = base \o C
        <3>1. AtOnce(q, A, B, C) = OneByOne(q, A, B, C)
            BY <1>2, <2>1, ThreeParts
        <3>2. toServer' = AtOnce(q, A, B, C)
            BY <1>7 DEF AtOnce
        <3>3. OneByOne(q, A, B, C) = base \o C
            BY <1>20 DEF OneByOne
        <3> QED BY <3>1, <3>2, <3>3
    <2>3. CASE C = <<>>
        BY <1>20, <2>2, <2>3, ConcatCommand DEF Said
    <2>4. CASE wanted /\ C = <<sb>>
        <3>1. toServer' = Append(base, sb)
            BY <1>8, <1>20, <2>2, <2>4, ConcatCommand
        <3> QED BY <1>20, <2>4, <3>1 DEF Said, sb
    <2> QED BY <1>13, <2>3, <2>4
<1> HIDE DEF wanted
<1>22. Counter(response'[o][s], state'[o][s], requested'[o][s])
    BY <1>17, <1>18
<1>23. optionHandlers[o] # NoHandler /\ flag'[o][s] # "unset" =>
               (flag'[o][s] = "up" <=> state'[o][s] /\ requested'[o][s])
    BY <1>15, <1>16, <1>19
<1>24. {state', requested'} \subseteq PerOption(BOOLEAN)
    BY <1>15, <1>16
<1> QED BY <1>6, <1>15, <1>16, <1>18, <1>19, <1>20, <1>21, <1>22, <1>23, <1>24, ClientStep

LEMMA TurnOffStep ==
    ASSUME IInv, connected, toClient # <<>>, NEW s \in Side, NEW o \in Option,
           Head(toClient) = Cmd("off", s, o), TurnOff(s, o),
           toClient' = Tail(toClient), UNCHANGED <<optionHandlers, server, connected>>
    PROVE  IInv'
<1> DEFINE q == toServer
           off == Cmd("off", s, o)
           base == Append(q, off)
<1>1. TypeOK /\ Counters /\ Pairs /\ Follows(q)
    BY DEF IInv
<1>2. /\ q \in Seq(Command) /\ toClient \in Seq(Command)
      /\ {state, requested} \subseteq PerOption(BOOLEAN) /\ response \in PerOption(0..2)
      /\ flag \in PerOption({"up", "down", "unset"})
    BY <1>1 DEF TypeOK
<1>3. state[o][s] \in BOOLEAN /\ requested[o][s] \in BOOLEAN
    BY <1>2 DEF PerOption
<1>4. Counter(response[o][s], state[o][s], requested[o][s])
    BY <1>1 DEF Counters
<1>5. Pair(q, toClient, state[o][s], requested[o][s], server[o][s], s, o)
    BY <1>1 DEF Pairs
<1>6. Head(toClient).side = s /\ Head(toClient).option = o
    BY DEF Cmd
<1>7. /\ requested[o][s] /\ Answered(response[o][s], ~state[o][s]) = 0
      /\ Pair(base, Tail(toClient), FALSE, FALSE, server[o][s], s, o)
    <2>1. Pair(base, Tail(toClient), FALSE, FALSE, server[o][s], s, o)
        BY <1>2, <1>5, ClientReadsOff
    <2>3. requested[o][s]
        <3>1. PICK out \in Phrase, in \in Phrase :
                /\ Carries(q, s, o, out) /\ Carries(toClient, s, o, in)
                /\ Agrees(state[o][s], requested[o][s], server[o][s], out, in)
            BY <1>5 DEF Pair, Talk
        <3>2. in \in Seq(Turn) /\ "off" \in Turn
            BY Phrases DEF Turn
        <3>3. in # <<>> /\ Head(in) = "off"
            BY <1>2, <3>1, <3>2, TailCarries
        <3>4. ~Refused(server[o][s], out, in)
            BY <3>3, NeverRefused
        <3> QED BY <3>1, <3>4 DEF Agrees
    <2>2. Answered(response[o][s], ~state[o][s]) = 0
        BY <1>4, <2>3 DEF Answered, Counter
    <2> QED BY <2>1, <2>2, <2>3
<1>8. off \in Command
    BY Commands
<1>9. /\ response' = Put(response, s, o, 0)
      /\ requested' = Put(requested, s, o, FALSE)
      /\ state' = Put(state, s, o, FALSE)
      /\ SetFlag(s, o, "down")
      /\ toServer' = q \o <<off>>
    BY <1>7 DEF TurnOff, Put, When
<1>10. /\ Elsewhere(q, base, s, o) /\ Follows(base) /\ base \in Seq(Command)
       /\ toServer' = base
    <2>1. "off" \in Turn
        BY DEF Turn
    <2>2. Elsewhere(q, base, s, o)
        BY <1>2, AppendElsewhere
    <2>3. Follows(base)
        BY <1>1, <1>2, <2>1, TurnFollows
    <2>4. base \in Seq(Command) /\ q \o <<off>> = base
        BY <1>2, <1>8, ConcatCommand
    <2> QED BY <1>9, <2>2, <2>3, <2>4
<1>11. Said(base, toServer', s, o)
    BY <1>10 DEF Said
<1>12. /\ state' \in PerOption(BOOLEAN) /\ ~state'[o][s] /\ SameElsewhere(state, state', s, o)
       /\ requested' \in PerOption(BOOLEAN) /\ ~requested'[o][s]
       /\ SameElsewhere(requested, requested', s, o)
    BY <1>2, <1>9, SetBit
<1>13. state'[o][s] = FALSE /\ requested'[o][s] = FALSE
    BY <1>12 DEF PerOption
<1> HIDE DEF base
<1>14. Pair(base, Tail(toClient), state'[o][s], requested'[o][s], server[o][s], s, o)
    BY <1>7, <1>13
<1>15. /\ response' \in PerOption(0..2) /\ response'[o][s] = 0
       /\ SameElsewhere(response, response', s, o)
    <2> DEFINE V == 0..2
    <2>1. response \in PerOption(V) /\ 0 \in V /\ response' = Put(response, s, o, 0)
        BY <1>2, <1>9
    <2> HIDE DEF V
    <2>2. response' \in PerOption(V) /\ response'[o][s] = 0 /\ SameElsewhere(response, response', s, o)
        BY <2>1, SetOne
    <2> QED BY <2>2 DEF V
<1>16. Counter(response'[o][s], state'[o][s], requested'[o][s])
    BY <1>12, <1>15 DEF Counter
<1>17. /\ flag' \in PerOption({"up", "down", "unset"}) /\ SameElsewhere(flag, flag', s, o)
       /\ optionHandlers[o] # NoHandler => flag'[o][s] = "down"
    BY <1>2, <1>9, FlagIsSet
<1>18. optionHandlers[o] # NoHandler /\ flag'[o][s] # "unset" =>
               (flag'[o][s] = "up" <=> state'[o][s] /\ requested'[o][s])
    BY <1>12, <1>17
<1>19. {state', requested'} \subseteq PerOption(BOOLEAN)
    BY <1>12
<1> QED BY <1>6, <1>10, <1>11, <1>12, <1>14, <1>15, <1>16, <1>17, <1>18, <1>19, ClientStep

LEMMA SuboptionStep ==
    ASSUME IInv, connected, toClient # <<>>, NEW s \in Side, NEW o \in Option,
           Head(toClient) = Cmd("SB", s, o), ProcessSuboption(s, o),
           toClient' = Tail(toClient), UNCHANGED <<optionHandlers, server, connected>>
    PROVE  IInv'
<1> DEFINE q == toServer
           sb == Cmd("SB", s, o)
<1>1. TypeOK /\ Counters /\ Pairs /\ FlagsTrue /\ Follows(q)
    BY DEF IInv
<1>2. /\ q \in Seq(Command) /\ toClient \in Seq(Command)
      /\ {state, requested} \subseteq PerOption(BOOLEAN) /\ response \in PerOption(0..2)
      /\ flag \in PerOption({"up", "down", "unset"})
    BY <1>1 DEF TypeOK
<1>3. Counter(response[o][s], state[o][s], requested[o][s])
    BY <1>1 DEF Counters
<1>4. Pair(q, toClient, state[o][s], requested[o][s], server[o][s], s, o)
    BY <1>1 DEF Pairs
<1>5. Head(toClient).side = s /\ Head(toClient).option = o
    BY DEF Cmd
<1>6. Reopened(q, s, o) /\ Pair(q, Tail(toClient), state[o][s], requested[o][s], server[o][s], s, o)
    BY <1>2, <1>4, ClientReadsSB
<1>7. sb \in Command
    BY Commands
<1>8. toServer' = q \/ toServer' = Append(q, sb)
    <2>1. toServer' = q \o <<>> \/ toServer' = q \o <<sb>>
        BY DEF ProcessSuboption, When
    <2> QED BY <1>2, <1>7, <2>1, ConcatCommand
<1>9. Said(q, toServer', s, o)
    BY <1>6, <1>8 DEF Said
<1>10. UNCHANGED <<flag, state, requested, response>>
    BY DEF ProcessSuboption
<1>11. /\ Elsewhere(q, q, s, o)
       /\ SameElsewhere(state, state', s, o) /\ SameElsewhere(requested, requested', s, o)
       /\ SameElsewhere(response, response', s, o) /\ SameElsewhere(flag, flag', s, o)
    BY <1>10, ElsewhereItself, SameItself
<1>12. optionHandlers[o] # NoHandler /\ flag'[o][s] # "unset" =>
               (flag'[o][s] = "up" <=> state'[o][s] /\ requested'[o][s])
    BY <1>1, <1>10 DEF FlagsTrue, On
<1>13. /\ {state', requested'} \subseteq PerOption(BOOLEAN) /\ response' \in PerOption(0..2)
       /\ flag' \in PerOption({"up", "down", "unset"})
       /\ Counter(response'[o][s], state'[o][s], requested'[o][s])
       /\ Pair(q, Tail(toClient), state'[o][s], requested'[o][s], server[o][s], s, o)
    BY <1>2, <1>3, <1>6, <1>10
<1> QED BY <1>1, <1>2, <1>5, <1>9, <1>11, <1>12, <1>13, ClientStep

LEMMA ProcessCommandStep ==
    ASSUME IInv, ProcessCommand
    PROVE  IInv'
<1> DEFINE c == Head(toClient)
           s == c.side
           o == c.option
<1>1. /\ connected /\ toClient # <<>> /\ toClient' = Tail(toClient)
      /\ UNCHANGED <<optionHandlers, server, connected>>
    BY DEF ProcessCommand
<1>2. toClient \in Seq(Command)
    BY DEF IInv, TypeOK
<1>3. c \in Command
    BY <1>1, <1>2, TailOfChannel
<1>4. s \in Side /\ o \in Option /\ c = Cmd(c.kind, s, o)
    BY <1>3 DEF Command, Cmd
<1>5. \/ c.kind = "on" /\ TurnOn(s, o)
      \/ c.kind = "off" /\ TurnOff(s, o)
      \/ c.kind = "SB" /\ ProcessSuboption(s, o)
    BY DEF ProcessCommand, ProcessWill, ProcessDo, ProcessWont, ProcessDont
<1>6. CASE c.kind = "on" /\ TurnOn(s, o)
    <2>1. c = Cmd("on", s, o)
        BY <1>4, <1>6
    <2> HIDE DEF s, o
    <2> QED BY <1>1, <1>4, <1>6, <2>1, TurnOnStep
<1>7. CASE c.kind = "off" /\ TurnOff(s, o)
    <2>1. c = Cmd("off", s, o)
        BY <1>4, <1>7
    <2> HIDE DEF s, o
    <2> QED BY <1>1, <1>4, <1>7, <2>1, TurnOffStep
<1>8. CASE c.kind = "SB" /\ ProcessSuboption(s, o)
    <2>1. c = Cmd("SB", s, o)
        BY <1>4, <1>8
    <2> HIDE DEF s, o
    <2> QED BY <1>1, <1>4, <1>8, <2>1, SuboptionStep
<1> QED BY <1>5, <1>6, <1>7, <1>8

(* What the server may do about one option and side. *)
LEMMA ServerStep ==
    ASSUME IInv, connected, UNCHANGED <<clientVars, connected>>,
           NEW s \in Side, NEW o \in Option, NEW k \in {"on", "off", "SB"},
           server' \in PerOption(Status), SameElsewhere(server, server', s, o),
           toServer' \in Seq(Command), Elsewhere(toServer, toServer', s, o), Follows(toServer'),
           toClient' = toClient \/ toClient' = Append(toClient, Cmd(k, s, o)),
           Pair(toServer', toClient', state[o][s], requested[o][s], server'[o][s], s, o)
    PROVE  IInv'
<1>1. TypeOK /\ Counters /\ Pairs /\ FlagsTrue
    BY DEF IInv
<1>2. toServer \in Seq(Command) /\ toClient \in Seq(Command)
    BY <1>1 DEF TypeOK
<1>3. UNCHANGED <<optionHandlers, flag, state, requested, response, connected>>
    BY DEF clientVars
<1>4. toClient' \in Seq(Command)
    <2>1. Append(toClient, Cmd(k, s, o)) \in Seq(Command)
        BY <1>2, Commands, ConcatCommand
    <2> QED BY <1>2, <2>1
<1>5. TypeOK'
    BY <1>1, <1>3, <1>4 DEF TypeOK
<1>6. Counters' /\ FlagsTrue'
    BY <1>1, <1>3 DEF Counters, FlagsTrue, On
<1>7. ASSUME NEW u \in Option, NEW t \in Side
      PROVE  Pair(toServer', toClient', state[u][t], requested[u][t], server'[u][t], t, u)
    <2>1. CASE <<t, u>> = <<s, o>>
        BY <2>1
    <2>2. CASE <<t, u>> # <<s, o>>
        <3>1. server'[u][t] = server[u][t]
            BY <2>2 DEF SameElsewhere
        <3>2. Pair(toServer, toClient, state[u][t], requested[u][t], server[u][t], t, u)
            BY <1>1 DEF Pairs
        <3>3. Pair(toServer', toClient', state[u][t], requested[u][t], server[u][t], t, u)
            BY <1>2, <2>2, <3>2, WrittenElsewhere
        <3> QED BY <3>1, <3>3
    <2> QED BY <2>1, <2>2
<1>8. Pairs'
    BY <1>3, <1>7 DEF Pairs
<1>9. Follows(toServer)'
    OBVIOUS
<1>10. connected'
    BY <1>3
<1> QED BY <1>5, <1>6, <1>8, <1>9, <1>10 DEF IInv

LEMMA ServerReceivesStep ==
    ASSUME IInv, ServerReceives
    PROVE  IInv'
<1> DEFINE q == toServer
           r == toClient
           c == Head(toServer)
           s == c.side
           o == c.option
           was == server[o][s]
           Becomes(status, reply) ==
               /\ server' = Put(server, s, o, status)
               /\ toClient' = toClient \o reply
<1>1. TypeOK /\ Counters /\ Pairs /\ Follows(q)
    BY DEF IInv, ServerReceives
<1>2. /\ q \in Seq(Command) /\ r \in Seq(Command) /\ server \in PerOption(Status)
      /\ {state, requested} \subseteq PerOption(BOOLEAN)
    BY <1>1, SMTT(30) DEF TypeOK
<1>3. connected /\ q # <<>> /\ toServer' = Tail(q) /\ UNCHANGED <<clientVars, connected>>
    BY DEF ServerReceives
<1>4. c \in Command /\ Tail(q) \in Seq(Command) /\ Follows(Tail(q))
    BY <1>1, <1>2, <1>3, TailOfChannel, FollowsTail
<1>5. s \in Side /\ o \in Option /\ c = Cmd(c.kind, s, o) /\ c.kind \in {"on", "off", "SB"}
    BY <1>4 DEF Command, Cmd
<1>6. state[o][s] \in BOOLEAN /\ requested[o][s] \in BOOLEAN /\ was \in Status
    BY <1>2, <1>5 DEF PerOption
<1>7. Pair(q, r, state[o][s], requested[o][s], was, s, o)
    BY <1>1, <1>5 DEF Pairs
<1>8. Elsewhere(q, Tail(q), s, o)
    BY <1>2, <1>3, TailElsewhere, SMTT(30)
<1>9. \/ c.kind = "on" /\ was = "NO" /\ Becomes("YES", <<Cmd("on", s, o)>>)
      \/ c.kind = "on" /\ was = "NO" /\ Becomes("NO", <<Cmd("off", s, o)>>)
      \/ c.kind = "on" /\ was = "WANTYES" /\ Becomes("YES", <<>>)
      \/ c.kind = "on" /\ was = "WANTNO" /\ Becomes("NO", <<>>)
      \/ c.kind = "off" /\ was = "YES" /\ Becomes("NO", <<Cmd("off", s, o)>>)
      \/ c.kind = "off" /\ was # "YES" /\ was # "NO" /\ Becomes("NO", <<>>)
      \/ c.kind = "SB" /\ Becomes(was, <<>>)
      \/ c.kind = "on" /\ was = "YES" /\ Becomes(was, <<>>)
      \/ c.kind = "off" /\ was = "NO" /\ Becomes(was, <<>>)
    BY DEF ServerReceives, Put
<1> HIDE DEF s, o, Becomes
<1>10. ASSUME NEW status \in Status, NEW k \in {"on", "off", "SB"},
              server' = Put(server, s, o, status),
              toClient' = r \/ toClient' = Append(r, Cmd(k, s, o)),
              Pair(Tail(q), toClient', state[o][s], requested[o][s], status, s, o)
       PROVE  IInv'
    <2>1. /\ server' \in PerOption(Status) /\ server'[o][s] = status
          /\ SameElsewhere(server, server', s, o)
        BY <1>2, <1>5, <1>10, SetOne
    <2> QED BY <1>3, <1>4, <1>5, <1>8, <1>10, <2>1, ServerStep
<1>11. /\ {"YES", "NO"} \subseteq Status
       /\ Cmd("on", s, o) \in Command /\ Cmd("off", s, o) \in Command
    BY <1>5, Commands DEF Status
<1>12. /\ \A status : Becomes(status, <<>>) => server' = Put(server, s, o, status) /\ toClient' = r
       /\ \A status : Becomes(status, <<Cmd("on", s, o)>>) =>
            server' = Put(server, s, o, status) /\ toClient' = Append(r, Cmd("on", s, o))
       /\ \A status : Becomes(status, <<Cmd("off", s, o)>>) =>
            server' = Put(server, s, o, status) /\ toClient' = Append(r, Cmd("off", s, o))
    BY <1>2, <1>11, ConcatCommand DEF Becomes
<1>13. CASE c.kind = "on"
    <2>1. c = Cmd("on", s, o)
        BY <1>5, <1>13
    <2>2. /\ was = "NO" \/ was = "WANTYES"
          /\ was = "NO" =>
                /\ Pair(Tail(q), Append(r, Cmd("on", s, o)), state[o][s], requested[o][s], "YES", s, o)
                /\ Pair(Tail(q), Append(r, Cmd("off", s, o)), state[o][s], requested[o][s], "NO", s, o)
          /\ was = "WANTYES" => Pair(Tail(q), r, state[o][s], requested[o][s], "YES", s, o)
        BY <1>2, <1>3, <1>5, <1>6, <1>7, <2>1, ServerReadsOn
    <2>3. CASE was = "NO" /\ Becomes("YES", <<Cmd("on", s, o)>>)
        BY <1>10, <1>11, <1>12, <2>2, <2>3
    <2>4. CASE was = "NO" /\ Becomes("NO", <<Cmd("off", s, o)>>)
        BY <1>10, <1>11, <1>12, <2>2, <2>4
    <2>5. CASE was = "WANTYES" /\ Becomes("YES", <<>>)
        BY <1>10, <1>11, <1>12, <2>2, <2>5
    <2> QED BY <1>9, <1>13, <2>2, <2>3, <2>4, <2>5
<1>14. CASE c.kind = "off"
    <2>1. c = Cmd("off", s, o)
        BY <1>5, <1>14
    <2>2. was # "YES" /\ Pair(Tail(q), r, state[o][s], requested[o][s], "NO", s, o)
        BY <1>2, <1>3, <1>5, <1>6, <1>7, <2>1, ServerReadsOff
    <2>3. Becomes("NO", <<>>)
        BY <1>9, <1>14, <2>2
    <2> QED BY <1>10, <1>11, <1>12, <2>2, <2>3
<1>15. CASE c.kind = "SB"
    <2>1. c = Cmd("SB", s, o)
        BY <1>5, <1>15
    <2>2. Pair(Tail(q), r, state[o][s], requested[o][s], was, s, o)
        BY <1>2, <1>3, <1>5, <1>7, <2>1, ServerReadsSB
    <2>3. Becomes(was, <<>>)
        BY <1>9, <1>15
    <2> QED BY <1>6, <1>10, <1>12, <2>2, <2>3
<1> QED BY <1>5, <1>13, <1>14, <1>15, SMTT(30)

LEMMA ServerAsksStep ==
    ASSUME IInv, NEW o \in Option, NEW s \in Side, ServerAsks(o, s)
    PROVE  IInv'
<1> DEFINE q == toServer
           r == toClient
           was == server[o][s]
<1>1. TypeOK /\ Counters /\ Pairs /\ Follows(q)
    BY DEF IInv, ServerAsks
<1>2. /\ q \in Seq(Command) /\ r \in Seq(Command) /\ server \in PerOption(Status)
      /\ {state, requested} \subseteq PerOption(BOOLEAN)
    BY <1>1 DEF TypeOK
<1>3. connected /\ toServer' = q /\ UNCHANGED <<clientVars, connected>>
    BY DEF ServerAsks
<1>4. state[o][s] \in BOOLEAN /\ requested[o][s] \in BOOLEAN
    BY <1>2 DEF PerOption
<1>5. Pair(q, r, state[o][s], requested[o][s], was, s, o)
    BY <1>1 DEF Pairs
<1>6. Elsewhere(q, q, s, o)
    BY ElsewhereItself
<1>7. /\ was = "NO" => Pair(q, Append(r, Cmd("on", s, o)), state[o][s], requested[o][s], "WANTYES", s, o)
      /\ was = "YES" =>
            /\ Pair(q, Append(r, Cmd("off", s, o)), state[o][s], requested[o][s], "WANTNO", s, o)
            /\ Pair(q, Append(r, Cmd("SB", s, o)), state[o][s], requested[o][s], "YES", s, o)
    BY <1>2, <1>4, <1>5, ServerWants
<1>8. ASSUME NEW status \in Status, NEW k \in {"on", "off", "SB"},
             server' \in PerOption(Status), server'[o][s] = status,
             SameElsewhere(server, server', s, o),
             toClient' = Append(r, Cmd(k, s, o)),
             Pair(q, Append(r, Cmd(k, s, o)), state[o][s], requested[o][s], status, s, o)
      PROVE  IInv'
    BY <1>1, <1>2, <1>3, <1>6, <1>8, ServerStep
<1>9. {"YES", "WANTYES", "WANTNO"} \subseteq Status
    BY DEF Status
<1>10. CASE /\ was = "NO" /\ server' = [server EXCEPT ![o][s] = "WANTYES"]
            /\ toClient' = Append(r, Cmd("on", s, o))
    <2>1. server' = Put(server, s, o, "WANTYES")
        BY <1>10 DEF Put
    <2>2. /\ server' \in PerOption(Status) /\ server'[o][s] = "WANTYES"
          /\ SameElsewhere(server, server', s, o)
        BY <1>2, <1>9, <2>1, SetOne
    <2> QED BY <1>7, <1>8, <1>9, <1>10, <2>2
<1>11. CASE /\ was = "YES" /\ server' = [server EXCEPT ![o][s] = "WANTNO"]
            /\ toClient' = Append(r, Cmd("off", s, o))
    <2>1. server' = Put(server, s, o, "WANTNO")
        BY <1>11 DEF Put
    <2>2. /\ server' \in PerOption(Status) /\ server'[o][s] = "WANTNO"
          /\ SameElsewhere(server, server', s, o)
        BY <1>2, <1>9, <2>1, SetOne
    <2> QED BY <1>7, <1>8, <1>9, <1>11, <2>2
<1>12. CASE was = "YES" /\ server' = server /\ toClient' = Append(r, Cmd("SB", s, o))
    <2>1. /\ server' \in PerOption(Status) /\ server'[o][s] = "YES"
          /\ SameElsewhere(server, server', s, o)
        BY <1>2, <1>12, SameItself
    <2> QED BY <1>7, <1>8, <1>9, <1>12, <2>1
<1> QED BY <1>10, <1>11, <1>12 DEF ServerAsks

LEMMA HowMany ==
    ASSUME optionHandlers \in [Option -> TelnetOptionHandler \cup {NoHandler}], NEW o \in Option
    PROVE  /\ Cardinality(Requests(o)) \in 0..2
           /\ Cardinality(Requests(o)) = 2 => Asks(o, "remote")
<1> DEFINE R == Requests(o)
           a == Cmd("on", "local", o)
           b == Cmd("on", "remote", o)
<1>1. ASSUME NEW c \in R
      PROVE  (c = a \/ c = b) /\ Asks(o, c.side)
    BY DEF Requests, Command, Cmd, Side
<1>2. b \in R => Asks(o, "remote")
    BY DEF Requests, Cmd
<1> HIDE DEF R, a, b
<1>3. R \in SUBSET ({a} \cup {b})
    BY <1>1
<1>4. IsFiniteSet({a}) /\ Cardinality({a}) = 1
    BY FS_Singleton
<1>5. /\ IsFiniteSet({a} \cup {b})
      /\ Cardinality({a} \cup {b}) = IF b \in {a} THEN Cardinality({a}) ELSE Cardinality({a}) + 1
    BY <1>4, FS_AddElement
<1>6. Cardinality({a} \cup {b}) \in 1..2
    BY <1>4, <1>5
<1>7. IsFiniteSet(R) /\ Cardinality(R) <= Cardinality({a} \cup {b}) /\ Cardinality(R) \in Nat
    BY <1>3, <1>5, FS_Subset, FS_CardinalityType
<1>8. Cardinality(R) \in 0..2
    BY <1>6, <1>7
<1>9. ASSUME Cardinality(R) = 2
      PROVE  Asks(o, "remote")
    <2>1. ASSUME b \notin R PROVE FALSE
        <3>1. R \in SUBSET {a}
            BY <1>3, <2>1
        <3>2. Cardinality(R) <= 1
            BY <1>4, <3>1, FS_Subset
        <3> QED BY <1>9, <3>2
    <2> QED BY <1>2, <2>1
<1> QED BY <1>8, <1>9 DEF R

LEMMA ConnectStep ==
    ASSUME IInv, Connect
    PROVE  IInv'
<1> DEFINE S == UNION {Requests(o) : o \in Option}
<1>1. TypeOK /\ Quiet
    BY DEF IInv, Connect
<1>2. /\ optionHandlers \in [Option -> TelnetOptionHandler \cup {NoHandler}]
      /\ flag \in PerOption({"up", "down", "unset"})
    BY <1>1 DEF TypeOK
<1>3. /\ connected' = TRUE /\ server' = Everywhere("NO") /\ state' = Everywhere(FALSE)
      /\ flag' = [o \in Option |-> IF optionHandlers[o] = NoHandler THEN flag[o]
                                   ELSE [s \in Side |-> "down"]]
      /\ response' = [o \in Option |-> [s \in Side |-> Awaited(o, s)]]
      /\ requested' = [o \in Option |-> [s \in Side |-> Asks(o, s)]]
      /\ toServer' \in InOrder(S)
      /\ optionHandlers' = optionHandlers /\ toClient' = <<>>
    BY <1>1 DEF Connect, Quiet
<1>4. /\ S \in SUBSET Command /\ \A c \in S : c.kind = "on"
      /\ \A s \in Side, o \in Option : Cmd("on", s, o) \in S <=> Asks(o, s)
    <2>1. \A o \in Option : \A c \in Requests(o) : /\ c \in Command /\ c.kind = "on"
                                               /\ c.option = o /\ Asks(o, c.side)
        BY DEF Requests
    <2>2. ASSUME NEW s \in Side, NEW o \in Option
          PROVE  Cmd("on", s, o) \in S <=> Asks(o, s)
        <3>1. Cmd("on", s, o).option = o /\ Cmd("on", s, o).side = s /\ Cmd("on", s, o).kind = "on"
            BY DEF Cmd
        <3>2. Cmd("on", s, o) \in Command
            BY Commands
        <3>3. Asks(o, s) => Cmd("on", s, o) \in Requests(o)
            BY <3>1, <3>2 DEF Requests
        <3> QED BY <2>1, <3>1, <3>3
    <2> QED BY <2>1, <2>2
<1> HIDE DEF S
<1>5. /\ toServer' \in Seq(Command) /\ Follows(toServer')
      /\ \A s \in Side, o \in Option :
            /\ Asks(o, s) => Carries(toServer', s, o, <<"on">>)
            /\ ~Asks(o, s) => Carries(toServer', s, o, <<>>)
    BY <1>3, <1>4, Requested
<1>6. ASSUME NEW o \in Option, NEW s \in Side
      PROVE  /\ state'[o][s] = FALSE /\ server'[o][s] = "NO"
             /\ requested'[o][s] = Asks(o, s) /\ requested'[o][s] \in BOOLEAN
             /\ response'[o][s] = Awaited(o, s)
             /\ optionHandlers[o] # NoHandler => flag'[o][s] = "down"
    BY <1>3 DEF Everywhere, Asks
<1>7. ASSUME NEW o \in Option, NEW s \in Side
      PROVE  Awaited(o, s) \in 0..2 /\ Counter(Awaited(o, s), state'[o][s], requested'[o][s])
    <2>1. ~state'[o][s] /\ (Asks(o, s) => requested'[o][s])
        BY <1>6, Zenon
    <2>2. Awaited(o, s) \in 0..2 /\ (Awaited(o, s) = 2 => Asks(o, s))
        <3>1. CASE s = "local"
            <4>1. Awaited(o, s) = 0
                BY <3>1 DEF Awaited
            <4> QED BY <4>1
        <3>2. CASE s = "remote"
            <4>1. Awaited(o, s) = Cardinality(Requests(o))
                BY <3>2 DEF Awaited
            <4>2. Cardinality(Requests(o)) \in 0..2
                BY <1>2, HowMany
            <4>3. Cardinality(Requests(o)) = 2 => Asks(o, "remote")
                BY <1>2, HowMany
            <4> QED BY <3>2, <4>1, <4>2, <4>3
        <3> QED BY <3>1, <3>2 DEF Side
    <2> QED BY <2>1, <2>2, Zenon DEF Counter
<1>8. Counters'
    BY <1>6, <1>7 DEF Counters
<1>9. TypeOK'
    <2>1. flag' \in PerOption({"up", "down", "unset"})
        BY <1>2, <1>3 DEF PerOption
    <2>2. state' \in PerOption(BOOLEAN) /\ server' \in PerOption(Status)
        BY <1>3 DEF PerOption, Everywhere, Status
    <2>3. requested' \in PerOption(BOOLEAN)
        BY <1>3 DEF PerOption, Asks
    <2>4. response' \in PerOption(0..2)
        <3> DEFINE V == 0..2
        <3>1. \A o \in Option, s \in Side : Awaited(o, s) \in V
            BY <1>7
        <3> HIDE DEF V
        <3>2. response' \in PerOption(V)
            BY <1>3, <3>1 DEF PerOption
        <3> QED BY <3>2 DEF V
    <2>5. toClient' \in Seq(Command)
        BY <1>3, EmptySeq
    <2> QED BY <1>2, <1>3, <1>5, <2>1, <2>2, <2>3, <2>4, <2>5 DEF TypeOK
<1>10. ASSUME NEW o \in Option, NEW s \in Side
       PROVE  Pair(toServer', toClient', state'[o][s], requested'[o][s], server'[o][s], s, o)
    <2>1. Carries(<<>>, s, o, <<>>)
        BY EmptyCarries
    <2>2. Speech(toServer', <<>>, "NO", s, o)
        BY DEF Speech
    <2>3. CASE Asks(o, s)
        <3>1. requested'[o][s] = TRUE
            BY <1>6, <2>3
        <3>2. Agrees(FALSE, TRUE, "NO", <<"on">>, <<>>)
            BY DEF Agrees, Asked
        <3>3. Talk(toServer', <<>>, FALSE, TRUE, "NO", s, o)
            BY <1>5, <2>1, <2>3, <3>2, TalkOf
        <3> QED BY <1>3, <1>6, <2>2, <3>1, <3>3 DEF Pair
    <2>4. CASE ~Asks(o, s)
        <3>1. requested'[o][s] = FALSE
            BY <1>6, <2>4
        <3>2. Agrees(FALSE, FALSE, "NO", <<>>, <<>>)
            BY DEF Agrees, Refused
        <3>3. Talk(toServer', <<>>, FALSE, FALSE, "NO", s, o)
            BY <1>5, <2>1, <2>4, <3>2, TalkOf
        <3> QED BY <1>3, <1>6, <2>2, <3>1, <3>3 DEF Pair
    <2> QED BY <2>3, <2>4
<1>11. Pairs'
    BY <1>10 DEF Pairs
<1>12. FlagsTrue'
    BY <1>3, <1>6 DEF FlagsTrue, On
<1> QED BY <1>3, <1>5, <1>8, <1>9, <1>11, <1>12 DEF IInv

LEMMA AddOptionHandlerStep ==
    ASSUME IInv, NEW o \in Option, NEW h \in Handlers, AddOptionHandler(o, h)
    PROVE  IInv'
<1>1. TypeOK
    BY DEF IInv
<1>2. /\ optionHandlers \in [Option -> TelnetOptionHandler \cup {NoHandler}]
      /\ flag \in PerOption({"up", "down", "unset"})
    BY <1>1 DEF TypeOK
<1>3. /\ optionHandlers' = [optionHandlers EXCEPT ![o] = h]
      /\ flag' = [flag EXCEPT ![o] = [s \in Side |-> "unset"]]
      /\ UNCHANGED <<state, requested, response, toServer, toClient, server, connected>>
    BY DEF AddOptionHandler
<1>4. h \in TelnetOptionHandler
    BY OptionAssumption
<1>5. TypeOK'
    <2>1. optionHandlers' \in [Option -> TelnetOptionHandler \cup {NoHandler}]
        BY <1>2, <1>3, <1>4
    <2>2. flag' \in PerOption({"up", "down", "unset"})
        BY <1>2, <1>3 DEF PerOption
    <2> QED BY <1>1, <1>3, <2>1, <2>2 DEF TypeOK
<1>6. ASSUME connected, NEW u \in Option, NEW s \in Side,
             optionHandlers'[u] # NoHandler, flag'[u][s] # "unset"
      PROVE  flag'[u][s] = "up" <=> On(u, s)
    <2>1. u # o
        BY <1>2, <1>3, <1>6 DEF PerOption
    <2>2. optionHandlers'[u] = optionHandlers[u] /\ flag'[u] = flag[u]
        BY <1>2, <1>3, <2>1 DEF PerOption
    <2> QED BY <1>6, <2>2 DEF IInv, FlagsTrue
<1>7. FlagsTrue'
    BY <1>3, <1>6 DEF FlagsTrue, On
<1>8. Counters' /\ (connected => Pairs)' /\ (~connected => Quiet)' /\ Follows(toServer)'
    BY <1>3 DEF IInv, Counters, Pairs, Quiet
<1> QED BY <1>5, <1>7, <1>8 DEF IInv

LEMMA DisconnectStep ==
    ASSUME IInv, Disconnect
    PROVE  IInv'
<1>1. /\ connected' = FALSE /\ toServer' = <<>> /\ toClient' = <<>>
      /\ UNCHANGED <<optionHandlers, flag, state, requested, response, server>>
    BY DEF Disconnect, clientVars
<1>2. TypeOK'
    BY <1>1, EmptySeq DEF IInv, TypeOK
<1>3. Counters' /\ Quiet' /\ FlagsTrue'
    BY <1>1 DEF IInv, Counters, Quiet, FlagsTrue
<1>4. Follows(toServer')
    BY <1>1, FollowsEmpty
<1> QED BY <1>1, <1>2, <1>3, <1>4 DEF IInv

LEMMA InitInv == Init => IInv
<1> SUFFICES ASSUME Init PROVE IInv
    OBVIOUS
<1>1. \A o \in Option : DefaultHandler(o) \in TelnetOptionHandler \cup {NoHandler}
    <2>1. {DefaultEchoHandler, SuppressGAOptionHandler, TerminalTypeOptionVT102Handler} \subseteq TelnetOptionHandler
        BY DEF DefaultEchoHandler, SuppressGAOptionHandler, TerminalTypeOptionVT102Handler,
               TelnetOptionHandler, Side, Callback
    <2>2. ASSUME NEW o \in Option
          PROVE  \/ DefaultHandler(o) = DefaultEchoHandler
                 \/ DefaultHandler(o) = SuppressGAOptionHandler
                 \/ DefaultHandler(o) = TerminalTypeOptionVT102Handler
                 \/ DefaultHandler(o) = NoHandler
        BY DEF DefaultHandler, OPTION_ECHO, OPTION_SUPPRESS_GO_AHEAD, OPTION_TERMINAL_TYPE
    <2> QED BY <2>1, <2>2
<1>2. TypeOK
    <2>1. optionHandlers \in [Option -> TelnetOptionHandler \cup {NoHandler}]
        BY <1>1 DEF Init
    <2>2. /\ flag \in PerOption({"up", "down", "unset"}) /\ {state, requested} \subseteq PerOption(BOOLEAN)
          /\ response \in PerOption(0..2) /\ server \in PerOption(Status)
        BY DEF Init, PerOption, Everywhere, Status
    <2>3. toServer \in Seq(Command) /\ toClient \in Seq(Command) /\ connected \in BOOLEAN
        BY EmptySeq DEF Init
    <2> QED BY <2>1, <2>2, <2>3 DEF TypeOK
<1>3. Counters
    BY DEF Init, Counters, Counter, Everywhere
<1>4. ~connected /\ Quiet
    BY DEF Init, Quiet
<1>5. FlagsTrue
    BY <1>4 DEF FlagsTrue
<1>6. Follows(toServer)
    BY <1>4, FollowsEmpty DEF Quiet
<1> QED BY <1>2, <1>3, <1>4, <1>5, <1>6 DEF IInv

LEMMA NextInv == IInv /\ [Next]_vars => IInv'
<1> SUFFICES ASSUME IInv, [Next]_vars
             PROVE  IInv'
    OBVIOUS
<1>1. CASE Connect
    BY <1>1, ConnectStep
<1>2. CASE ProcessCommand
    BY <1>2, ProcessCommandStep
<1>3. CASE \E o \in Option, h \in Handlers : AddOptionHandler(o, h)
    BY <1>3, AddOptionHandlerStep
<1>4. CASE ServerReceives
    BY <1>4, ServerReceivesStep
<1>5. CASE \E o \in Option, s \in Side : ServerAsks(o, s)
    BY <1>5, ServerAsksStep
<1>6. CASE Disconnect
    BY <1>6, DisconnectStep
<1>7. CASE UNCHANGED vars
    BY <1>7 DEF vars, clientVars, IInv, TypeOK, Counters, Pairs, Quiet, FlagsTrue, On
<1> QED BY <1>1, <1>2, <1>3, <1>4, <1>5, <1>6, <1>7 DEF Next

-----------------------------------------------------------------------------
(* For any options, handlers and bounds, with client and server talking at  *)
(* the same time and any number of connections one after another, the       *)
(* client's two state machines (ProcessWill and ProcessWont, ProcessDo and   *)
(* ProcessDont) and the server stay in one of the states of Refused, Asked  *)
(* and Granted for each option and side, and no refusal comes right before  *)
(* a subnegotiation of its option.                                          *)
THEOREM OptionsInvariant == Spec => []IInv
BY InitInv, NextInv, PTL DEF Spec

(* The counters willResponse and doResponse never leave 0..2, so that a     *)
(* char is wide enough for them, and every variable has its type.           *)
THEOREM OptionsTypeOK == Spec => []TypeOK
<1>1. IInv => TypeOK
    BY DEF IInv
<1> QED BY <1>1, OptionsInvariant, PTL

(* With nothing under way, client and server agree about every option of    *)
(* either side, whatever crossed and whatever the last connection left.     *)
THEOREM ClientServerAgree == Spec => []Agreement
<1>1. ASSUME IInv, connected, Quiet, NEW o \in Option, NEW s \in Side
      PROVE  server[o][s] = IF On(o, s) THEN "YES" ELSE "NO"
    <2>1. PICK out, in \in Phrase :
              /\ Carries(<<>>, s, o, out) /\ Carries(<<>>, s, o, in)
              /\ Agrees(state[o][s], requested[o][s], server[o][s], out, in)
        BY <1>1 DEF IInv, Pairs, Pair, Talk, Quiet
    <2>2. out = <<>> /\ in = <<>>
        BY <2>1, Phrases, CarriesEmpty
    <2>3. \/ ~requested[o][s] /\ server[o][s] = "NO"
          \/ requested[o][s] /\ state[o][s] /\ server[o][s] = "YES"
        BY <2>1, <2>2, Shapes, Zenon DEF Agrees, Asked, Granted, Refused
    <2> QED BY <2>3 DEF On
<1>2. IInv => Agreement
    BY <1>1 DEF Agreement
<1> QED BY <1>2, OptionsInvariant, PTL

(* A handler that has been told anything since it was added has been told   *)
(* the truth: SetDo and SetDont keep its doFlag in step with the option on  *)
(* the server's side, SetWill and SetWont its willFlag with the client's.   *)
THEOREM FlagsAreTrue == Spec => []FlagsFollow
<1>1. IInv => FlagsFollow
    BY DEF IInv, FlagsTrue, FlagsFollow, Tells, doFlag, willFlag, Side
<1> QED BY <1>1, OptionsInvariant, PTL

(* A subnegotiation of an option goes out behind the answer that grants it, *)
(* never behind a refusal.                                                  *)
THEOREM SubnegotiationInOrder == Spec => []SubnegotiationFollows
<1>1. IInv => SubnegotiationFollows
    BY FollowsIsFollows DEF IInv, TypeOK
<1> QED BY <1>1, OptionsInvariant, PTL
=============================================================================
