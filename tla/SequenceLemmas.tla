--------------------------- MODULE SequenceLemmas ---------------------------
(***************************************************************************)
(* Facts about numbers and sequences that several components' proofs need. *)
(* The induction theorems of the library have an operator as a parameter;  *)
(* here the formula is the set of what satisfies it.                       *)
(***************************************************************************)
EXTENDS Integers, SequencesExt, FiniteSetTheorems, SequenceTheorems,
        WellFoundedInduction, TLAPS

-----------------------------------------------------------------------------
(* Induction *)

LEMMA Least ==
    ASSUME NEW T \in SUBSET Nat, T # {}
    PROVE  \E x \in T : \A y \in T : x <= y
<1>1. PICK x \in T : \A y \in T : ~(<<y, x>> \in OpToRel(<, Nat))
    BY NatLessThanWellFounded, WFMin
<1>2. ASSUME NEW y \in T PROVE x <= y
    <2>1. x \in Nat /\ y \in Nat
        OBVIOUS
    <2>2. ASSUME y < x PROVE FALSE
        <3>1. <<y, x>> \in OpToRel(<, Nat)
            BY <2>1, <2>2 DEF OpToRel
        <3> QED BY <1>1, <3>1
    <2> QED BY <2>1, <2>2
<1> QED BY <1>2

LEMMA MinNat ==
    ASSUME NEW I \in SUBSET Nat, I # {}
    PROVE  Min(I) \in I /\ \A j \in I : Min(I) <= j
<1>1. \E x \in I : \A y \in I : x <= y
    BY Least
<1> QED BY <1>1 DEF Min

LEMMA Induction ==
    ASSUME NEW S, 0 \in S, \A n \in Nat : n \in S => n + 1 \in S
    PROVE  Nat \subseteq S
<1> DEFINE T == Nat \ S
<1>1. ASSUME T # {} PROVE FALSE
    <2>1. PICK x \in T : \A y \in T : x <= y
        BY <1>1, Least
    <2>2. x # 0 /\ x \in Nat
        OBVIOUS
    <2>3. x - 1 \in Nat /\ (x - 1) + 1 = x /\ ~(x <= x - 1)
        BY <2>2
    <2>4. x - 1 \in S
        BY <2>1, <2>3
    <2> QED BY <2>3, <2>4
<1> QED BY <1>1

(* For sequences: S holds the empty one, and with a sequence all that are   *)
(* one longer.                                                              *)
LEMMA SeqInduction ==
    ASSUME NEW A, NEW S, <<>> \in S,
           \A q \in Seq(A), a \in A : q \in S => Append(q, a) \in S
    PROVE  Seq(A) \subseteq S
<1> DEFINE T == {n \in Nat : \A q \in Seq(A) : Len(q) = n => q \in S}
<1>1. 0 \in T
    <2>1. \A q \in Seq(A) : Len(q) = 0 => q = <<>>
        BY EmptySeq
    <2> QED BY <2>1
<1>2. ASSUME NEW n \in Nat, n \in T PROVE n + 1 \in T
    <2>1. ASSUME NEW q \in Seq(A), Len(q) = n + 1
          PROVE  q \in S
        <3> DEFINE f == SubSeq(q, 1, n)
        <3>1. q # <<>>
            <4>1. Len(<<>>) = 0
                OBVIOUS
            <4> QED BY <2>1, <4>1
        <3>2. /\ f \in Seq(A) /\ Len(f) = n /\ q[n + 1] \in A
              /\ \A i \in 1..n : f[i] = q[i]
            BY <2>1
        <3> HIDE DEF f
        <3>3. /\ Append(f, q[n + 1]) \in Seq(A)
              /\ Len(Append(f, q[n + 1])) = n + 1
              /\ \A i \in 1..n : Append(f, q[n + 1])[i] = f[i]
              /\ Append(f, q[n + 1])[n + 1] = q[n + 1]
            BY <3>2, AppendProperties
        <3>4. \A i \in 1..(n + 1) : i = n + 1 \/ i \in 1..n
            OBVIOUS
        <3>5. \A i \in 1..(n + 1) : Append(f, q[n + 1])[i] = q[i]
            BY <3>2, <3>3, <3>4
        <3>6. Append(f, q[n + 1]) = q
            BY <2>1, <3>3, <3>5, SeqEqual
        <3>7. f \in S
            BY <1>2, <3>2
        <3> QED BY <3>2, <3>6, <3>7
    <2> QED BY <2>1
<1> HIDE DEF T
<1>3. Nat \subseteq T
    BY <1>1, <1>2, Induction
<1>4. ASSUME NEW q \in Seq(A) PROVE q \in S
    <2>1. Len(q) \in T
        BY <1>3
    <2> QED BY <2>1 DEF T
<1> QED BY <1>4

(* Recursion: what a definition f[i \in D] == IF i = 0 THEN .. ELSE .. that  *)
(* calls f[i - 1] chooses does exist.                                      *)

(* f begins with v and goes on with F. *)
Unfolds(f, F, v, D) ==
    f = [i \in D |-> IF i = 0 THEN v ELSE F[<<i - 1, f[i - 1]>>]]

(* As far as n. *)
Follows(f, F, v, n) == f[0] = v /\ \A i \in 1..n : f[i] = F[<<i - 1, f[i - 1]>>]

LEMMA UnfoldsFromTo ==
    ASSUME NEW F, NEW v, NEW f, NEW n \in Nat, Unfolds(f, F, v, 0..n)
    PROVE  Follows(f, F, v, n)
<1>1. 0 \in 0..n /\ \A i \in 1..n : i \in 0..n /\ i # 0
    OBVIOUS
<1>2. \A i \in 0..n : f[i] = IF i = 0 THEN v ELSE F[<<i - 1, f[i - 1]>>]
    BY DEF Unfolds
<1> QED BY <1>1, <1>2 DEF Follows

LEMMA UnfoldsOnce ==
    ASSUME NEW F, NEW v, NEW n \in Nat, NEW f, NEW g,
           Follows(f, F, v, n), Follows(g, F, v, n)
    PROVE  f[n] = g[n]
<1> DEFINE T == {k \in Nat : k \in 0..n => f[k] = g[k]}
<1>1. 0 \in T
    BY DEF Follows
<1>2. ASSUME NEW k \in Nat, k \in T PROVE k + 1 \in T
    <2>1. CASE k + 1 \in 1..n
        <3>1. (k + 1) - 1 = k /\ k \in 0..n
            BY <2>1
        <3>2. f[k + 1] = F[<<k, f[k]>>] /\ g[k + 1] = F[<<k, g[k]>>]
            BY <2>1, <3>1 DEF Follows
        <3> QED BY <1>2, <3>1, <3>2
    <2>2. CASE k + 1 \notin 1..n
        <3>1. k + 1 \notin 0..n
            BY <2>2
        <3> QED BY <3>1
    <2> QED BY <2>1, <2>2
<1> HIDE DEF T
<1>3. Nat \subseteq T
    BY <1>1, <1>2, Induction
<1> QED BY <1>3 DEF T

LEMMA RecursionUpto ==
    ASSUME NEW S, NEW v \in S, NEW F \in [Nat \X S -> S]
    PROVE  \A n \in Nat : \E f \in [0..n -> S] : Unfolds(f, F, v, 0..n)
<1> DEFINE Good(f, n) == f \in [0..n -> S] /\ Unfolds(f, F, v, 0..n)
           T == {n \in Nat : \E f : Good(f, n)}
<1>1. 0 \in T
    <2> DEFINE f == [i \in 0..0 |-> v]
    <2>1. Good(f, 0)
        BY DEF Unfolds
    <2> QED BY <2>1
<1>3. ASSUME NEW n \in Nat, n \in T PROVE n + 1 \in T
    <2>1. PICK f : Good(f, n)
        BY <1>3
    <2> DEFINE g == [i \in 0..(n + 1) |-> IF i = n + 1 THEN F[<<n, f[n]>>] ELSE f[i]]
    <2>2. Good(g, n + 1)
        <3>1. /\ \A i \in 0..(n + 1) : i = n + 1 \/ i \in 0..n
              /\ \A i \in 0..n : i # n + 1 /\ (i # 0 => i - 1 \in 0..n /\ i - 1 # n + 1)
              /\ \A i \in 0..n : i \in 0..(n + 1)
              /\ n \in 0..n /\ n + 1 # 0 /\ (n + 1) - 1 = n /\ n # n + 1
              /\ n + 1 \in 0..(n + 1)
            OBVIOUS
        <3>2. f[n] \in S /\ F[<<n, f[n]>>] \in S
            BY <2>1, <3>1 DEF Follows
        <3>3. g \in [0..(n + 1) -> S]
            BY <2>1, <3>1, <3>2
        <3>4. \A i \in 0..n : f[i] = IF i = 0 THEN v ELSE F[<<i - 1, f[i - 1]>>]
            BY <2>1 DEF Unfolds
        <3>5. g[n + 1] = F[<<n, f[n]>>] /\ \A i \in 0..n : g[i] = f[i]
            BY <3>1
        <3> HIDE DEF g
        <3>6. ASSUME NEW i \in 0..(n + 1)
              PROVE  g[i] = IF i = 0 THEN v ELSE F[<<i - 1, g[i - 1]>>]
            <4>1. CASE i = n + 1
                BY <3>1, <3>5, <4>1
            <4>2. CASE i \in 0..n
                BY <3>1, <3>4, <3>5, <4>2
            <4> QED BY <3>1, <4>1, <4>2
        <3> QED BY <3>3, <3>6 DEF Unfolds
    <2> HIDE DEF Good
    <2> QED BY <2>2
<1> HIDE DEF T
<1>4. Nat \subseteq T
    BY <1>1, <1>3, Induction
<1> QED BY <1>4 DEF T

LEMMA Recursion ==
    ASSUME NEW S, NEW v \in S, NEW F \in [Nat \X S -> S]
    PROVE  \E f \in [Nat -> S] : Unfolds(f, F, v, Nat)
<1> DEFINE A(n) == CHOOSE f \in [0..n -> S] : Unfolds(f, F, v, 0..n)
           f == [n \in Nat |-> A(n)[n]]
<1>1. \A n \in Nat : A(n) \in [0..n -> S] /\ Unfolds(A(n), F, v, 0..n)
    BY RecursionUpto
<1> HIDE DEF A
<1>2. \A n \in Nat : Follows(A(n), F, v, n)
    BY <1>1, UnfoldsFromTo
<1>3. f \in [Nat -> S]
    <2>1. \A n \in Nat : n \in 0..n
        OBVIOUS
    <2> QED BY <1>1, <2>1
<1>4. f[0] = v
    BY <1>2 DEF Follows
<1>5. ASSUME NEW n \in Nat PROVE f[n + 1] = F[<<n, f[n]>>]
    <2>1. Follows(A(n + 1), F, v, n)
        <3>1. \A i \in 1..n : i \in 1..(n + 1)
            OBVIOUS
        <3> QED BY <1>2, <3>1 DEF Follows
    <2>2. A(n + 1)[n] = A(n)[n]
        BY <1>2, <2>1, UnfoldsOnce
    <2>3. n + 1 \in 1..(n + 1) /\ (n + 1) - 1 = n
        OBVIOUS
    <2>4. A(n + 1)[n + 1] = F[<<n, A(n + 1)[n]>>]
        BY <1>2, <2>3 DEF Follows
    <2> QED BY <2>2, <2>4
<1> HIDE DEF f
<1>6. \A i \in Nat : i = 0 \/ (i - 1 \in Nat /\ (i - 1) + 1 = i)
    OBVIOUS
<1>7. \A i \in Nat : f[i] = IF i = 0 THEN v ELSE F[<<i - 1, f[i - 1]>>]
    BY <1>4, <1>5, <1>6
<1>8. Unfolds(f, F, v, Nat)
    BY <1>3, <1>7 DEF Unfolds
<1> QED BY <1>3, <1>8

(* Ranges, and the greatest of a range. *)

LEMMA Upto ==
    ASSUME NEW k \in Nat
    PROVE  /\ 1..(k + 1) \in SUBSET Int /\ k + 1 \in 1..(k + 1) /\ 1..(k + 1) # {}
           /\ \A y \in 1..(k + 1) : k + 1 >= y
           /\ (1..(k + 1)) \ {k + 1} = 1..k
           /\ 1..k \subseteq 1..(k + 1)
<1>1. \A y \in 1..(k + 1) : y # k + 1 => y \in 1..k
    OBVIOUS
<1>2. k + 1 \notin 1..k /\ 1..k \subseteq 1..(k + 1)
    OBVIOUS
<1>3. (1..(k + 1)) \ {k + 1} = 1..k
    BY <1>1, <1>2
<1> QED BY <1>2, <1>3

LEMMA MaxIs ==
    ASSUME NEW s \in SUBSET Int, NEW m \in s, \A y \in s : m >= y
    PROVE  Max(s) = m
<1>1. \E x \in s : \A y \in s : x >= y
    OBVIOUS
<1>2. Max(s) \in s /\ \A y \in s : Max(s) >= y
    BY <1>1 DEF Max
<1>3. Max(s) >= m /\ m >= Max(s) /\ m \in Int /\ Max(s) \in Int
    BY <1>2
<1> QED BY <1>3

-----------------------------------------------------------------------------
(* Parts of sequences. *)

(* q and r begin with the same k elements. *)
Same(q, r, k) == \A i \in 1..k : q[i] = r[i]

LEMMA Associative ==
    ASSUME NEW S
    PROVE  /\ \A q, r, s \in Seq(S) : (q \o r) \o s = q \o (r \o s) /\ q \o r \in Seq(S)
           /\ \A q \in Seq(S), e \in S : Append(q, e) = q \o <<e>> /\ <<e>> \in Seq(S)
<1>1. \A q, r, s \in Seq(S) : (q \o r) \o s = q \o (r \o s)
    BY ConcatAssociative
<1>2. \A q, r \in Seq(S) : q \o r \in Seq(S)
    BY ConcatProperties
<1>3. \A q \in Seq(S), e \in S : Append(q, e) = q \o <<e>>
    BY AppendIsConcat
<1>4. \A e \in S : <<e>> \in Seq(S)
    OBVIOUS
<1> QED BY <1>1, <1>2, <1>3, <1>4

LEMMA ConcatAppend ==
    ASSUME NEW S, NEW q \in Seq(S), NEW r \in Seq(S), NEW e \in S
    PROVE  q \o Append(r, e) = Append(q \o r, e)
<1> DEFINE s == <<e>>
<1>1. s \in Seq(S) /\ q \o r \in Seq(S)
    BY Associative
<1>2. Append(r, e) = r \o s /\ Append(q \o r, e) = (q \o r) \o s
    BY <1>1, Associative
<1> HIDE DEF s
<1>3. (q \o r) \o s = q \o (r \o s)
    BY <1>1, Associative
<1> QED BY <1>2, <1>3

LEMMA TwoElements ==
    ASSUME NEW S, NEW a \in S, NEW b \in S
    PROVE  <<a>> \in Seq(S) /\ Append(<<a>>, b) = <<a, b>>
<1> DEFINE A == Append(<<a>>, b)
           B == <<a, b>>
<1>1. A \in Seq(S) /\ Len(A) = 2 /\ A[1] = a /\ A[2] = b
    OBVIOUS
<1>2. B \in Seq(S) /\ Len(B) = 2 /\ B[1] = a /\ B[2] = b
    OBVIOUS
<1>3. <<a>> \in Seq(S)
    OBVIOUS
<1> HIDE DEF A, B
<1>4. \A i \in 1..Len(A) : A[i] = B[i]
    BY <1>1, <1>2
<1>5. A = B
    BY <1>1, <1>2, <1>4, SeqEqual
<1> QED BY <1>3, <1>5 DEF A, B

LEMMA ConcatTwo ==
    ASSUME NEW S, NEW q \in Seq(S), NEW a \in S, NEW b \in S
    PROVE  q \o <<a, b>> = Append(Append(q, a), b)
<1> DEFINE s == <<a>>
<1>1. s \in Seq(S) /\ Append(s, b) = <<a, b>>
    BY TwoElements
<1>2. Append(q, a) = q \o s
    BY Associative
<1> HIDE DEF s
<1>3. q \o Append(s, b) = Append(q \o s, b)
    <2>1. \A x \in Seq(S), y \in Seq(S), e \in S : x \o Append(y, e) = Append(x \o y, e)
        BY ConcatAppend
    <2> QED BY <1>1, <2>1
<1> QED BY <1>1, <1>2, <1>3

(* What RemoveAt leaves at each place. *)
LEMMA RemoveAtElements ==
    ASSUME NEW S, NEW s \in Seq(S), NEW k \in 1..Len(s)
    PROVE  /\ RemoveAt(s, k) \in Seq(S)
           /\ Len(RemoveAt(s, k)) = Len(s) - 1
           /\ \A i \in 1..(Len(s) - 1) :
                 RemoveAt(s, k)[i] = IF i < k THEN s[i] ELSE s[i + 1]
<1> DEFINE l == SubSeq(s, 1, k - 1)
           r == SubSeq(s, k + 1, Len(s))
<1>1. /\ l \in Seq(S) /\ Len(l) = k - 1
      /\ \A i \in 1..(k - 1) : l[i] = s[i]
    OBVIOUS
<1>2. /\ r \in Seq(S) /\ Len(r) = Len(s) - k
      /\ \A i \in 1..(Len(s) - k) : r[i] = s[k + i]
    OBVIOUS
<1>3. RemoveAt(s, k) = l \o r
    BY DEF RemoveAt
<1> HIDE DEF l, r
<1>4. /\ l \o r \in Seq(S) /\ Len(l \o r) = Len(s) - 1
      /\ \A i \in 1..(Len(s) - 1) :
            (l \o r)[i] = IF i =< Len(l) THEN l[i] ELSE r[i - Len(l)]
    <2>1. Len(l) + Len(r) = Len(s) - 1
        BY <1>1, <1>2
    <2>2. l \in Seq(S) /\ r \in Seq(S)
        BY <1>1, <1>2
    <2>3. l \o r \in Seq(S)
        BY <2>2, ConcatProperties, Zenon
    <2>4. Len(l \o r) = Len(l) + Len(r)
        BY <2>2, ConcatProperties, Zenon
    <2>5. \A i \in 1..(Len(l) + Len(r)) :
             (l \o r)[i] = IF i =< Len(l) THEN l[i] ELSE r[i - Len(l)]
        BY <2>2, ConcatProperties, Zenon
    <2> QED BY <2>1, <2>3, <2>4, <2>5
<1>5. ASSUME NEW i \in 1..(Len(s) - 1)
      PROVE  (l \o r)[i] = IF i < k THEN s[i] ELSE s[i + 1]
    <2>1. CASE i < k
        BY <1>1, <1>4, <2>1
    <2>2. CASE ~(i < k)
        <3>1. i - (k - 1) \in 1..(Len(s) - k) /\ k + (i - (k - 1)) = i + 1
            BY <2>2
        <3> QED BY <1>1, <1>2, <1>4, <2>2, <3>1
    <2> QED BY <2>1, <2>2
<1> QED BY <1>3, <1>4, <1>5

LEMMA PrefixOfConcat ==
    ASSUME NEW S, NEW q \in Seq(S), NEW r \in Seq(S)
    PROVE  IsPrefix(q, q \o r)
<1>1. /\ q \o r \in Seq(S) /\ Len(q \o r) = Len(q) + Len(r)
      /\ Len(q) \in Nat /\ Len(r) \in Nat
      /\ \A i \in 1..Len(q) : (q \o r)[i] = q[i]
    OBVIOUS
<1> DEFINE s == q \o r
<1> HIDE DEF s
<1>2. s \in Seq(S) /\ Len(q) <= Len(s) /\ \A i \in 1..Len(q) : s[i] = q[i]
    BY <1>1 DEF s
<1> DEFINE a == SubSeq(q, 1, Len(q))
           b == SubSeq(s, 1, Len(q))
<1>3. a \in Seq(S) /\ Len(a) = Len(q) /\ \A i \in 1..Len(q) : a[i] = q[i]
    BY <1>1
<1>4. b \in Seq(S) /\ Len(b) = Len(q) /\ \A i \in 1..Len(q) : b[i] = s[i]
    BY <1>1, <1>2
<1> HIDE DEF a, b
<1>5. a = b
    BY <1>2, <1>3, <1>4, SeqEqual
<1>6. IsPrefix(q, s)
    BY <1>2, <1>5 DEF IsPrefix, a, b
<1> QED BY <1>6 DEF s

LEMMA TailOfCons ==
    ASSUME NEW S, NEW e \in S, NEW q \in Seq(S)
    PROVE  Tail(<<e>> \o q) = q
<1> DEFINE s == <<e>> \o q
<1>1. /\ s \in Seq(S) /\ Len(s) = Len(q) + 1 /\ Len(q) \in Nat
      /\ \A i \in 1..Len(q) : s[i + 1] = q[i]
    OBVIOUS
<1> HIDE DEF s
<1>2. Tail(s) \in Seq(S) /\ Len(Tail(s)) = Len(q) /\ \A i \in 1..Len(q) : Tail(s)[i] = q[i]
    BY <1>1
<1>3. Tail(s) = q
    BY <1>2, SeqEqual
<1> QED BY <1>3 DEF s

-----------------------------------------------------------------------------
(* Sequences that are put together from others. *)

Flattens(f, q, n) == f = [i \in 1..n |-> IF i = 1 THEN q[i] ELSE f[i - 1] \o q[i]]

LEMMA Flattening ==
    ASSUME NEW q, NEW n \in Nat
    PROVE  \E f : Flattens(f, q, n)
<1> DEFINE S == {k \in Nat : \E f : Flattens(f, q, k)}
<1>1. 0 \in S
    <2> DEFINE f == [i \in 1..0 |-> q]
    <2>1. \A i \in 1..0 : FALSE
        OBVIOUS
    <2>2. Flattens(f, q, 0)
        BY <2>1 DEF Flattens
    <2> QED BY <2>2
<1>2. ASSUME NEW k \in Nat, k \in S PROVE k + 1 \in S
    <2>1. PICK f : Flattens(f, q, k)
        BY <1>2
    <2> DEFINE v == IF k = 0 THEN q[1] ELSE f[k] \o q[k + 1]
               g == [i \in 1..(k + 1) |-> IF i = k + 1 THEN v ELSE f[i]]
    <2>2. ASSUME NEW i \in 1..(k + 1)
          PROVE  g[i] = IF i = 1 THEN q[i] ELSE g[i - 1] \o q[i]
        <3>1. CASE i = k + 1
            <4>1. CASE k = 0
                BY <3>1, <4>1
            <4>2. CASE k # 0
                <5>1. i # 1 /\ i - 1 = k /\ k \in 1..(k + 1) /\ k # k + 1
                    BY <3>1, <4>2
                <5>2. g[k] = f[k] /\ g[i] = v /\ v = f[k] \o q[i]
                    BY <3>1, <4>2, <5>1
                <5> HIDE DEF g, v
                <5> QED BY <5>1, <5>2
            <4> QED BY <4>1, <4>2
        <3>2. CASE i # k + 1
            <4>1. i \in 1..k /\ g[i] = f[i]
                BY <3>2
            <4>2. f[i] = IF i = 1 THEN q[i] ELSE f[i - 1] \o q[i]
                BY <2>1, <4>1 DEF Flattens
            <4>3. i # 1 => i - 1 \in 1..(k + 1) /\ i - 1 # k + 1
                BY <4>1
            <4>4. i # 1 => g[i - 1] = f[i - 1]
                BY <4>3
            <4> HIDE DEF g
            <4> QED BY <4>1, <4>2, <4>4
        <3> QED BY <3>1, <3>2
    <2>3. g = [i \in 1..(k + 1) |-> g[i]]
        OBVIOUS
    <2> HIDE DEF g
    <2>4. Flattens(g, q, k + 1)
        BY <2>2, <2>3 DEF Flattens
    <2> QED BY <2>4
<1>3. n \in S
    <2> HIDE DEF S
    <2> QED BY <1>1, <1>2, Induction
<1> QED BY <1>3

LEMMA FlattenIs ==
    ASSUME NEW q, Len(q) \in Nat, Len(q) # 0
    PROVE  \E f : Flattens(f, q, Len(q)) /\ FlattenSeq(q) = f[Len(q)]
<1> DEFINE f == CHOOSE f : Flattens(f, q, Len(q))
<1>1. Flattens(f, q, Len(q))
    BY Flattening
<1>2. FlattenSeq(q) = f[Len(q)]
    BY DEF FlattenSeq, Flattens
<1> QED BY <1>1, <1>2

LEMMA FlatteningsAgree ==
    ASSUME NEW q, NEW r, NEW n \in Nat, NEW m \in Nat, NEW f, NEW g,
           Flattens(f, q, n), Flattens(g, r, m),
           NEW k \in Nat, k # 0, k <= n, k <= m, Same(q, r, k)
    PROVE  f[k] = g[k]
<1> DEFINE S == {j \in Nat : j # 0 /\ j <= k => f[j] = g[j]}
<1>1. 0 \in S
    OBVIOUS
<1>2. ASSUME NEW j \in Nat, j \in S PROVE j + 1 \in S
    <2> SUFFICES ASSUME j + 1 <= k PROVE f[j + 1] = g[j + 1]
        OBVIOUS
    <2>1. j + 1 \in 1..n /\ j + 1 \in 1..m /\ j + 1 \in 1..k
        OBVIOUS
    <2>2. q[j + 1] = r[j + 1]
        BY <2>1 DEF Same
    <2>3. /\ f[j + 1] = IF j + 1 = 1 THEN q[j + 1] ELSE f[(j + 1) - 1] \o q[j + 1]
          /\ g[j + 1] = IF j + 1 = 1 THEN r[j + 1] ELSE g[(j + 1) - 1] \o r[j + 1]
        BY <2>1 DEF Flattens
    <2>4. CASE j = 0
        BY <2>2, <2>3, <2>4
    <2>5. CASE j # 0
        <3>1. f[j] = g[j] /\ (j + 1) - 1 = j /\ j + 1 # 1
            BY <1>2, <2>5
        <3> QED BY <2>2, <2>3, <3>1
    <2> QED BY <2>4, <2>5
<1>3. k \in S
    <2> HIDE DEF S
    <2> QED BY <1>1, <1>2, Induction
<1> QED BY <1>3

LEMMA FlattenNothing == FlattenSeq(<<>>) = <<>>
<1>1. Len(<<>>) = 0
    OBVIOUS
<1> QED BY <1>1 DEF FlattenSeq

LEMMA FlattenAppend ==
    ASSUME NEW B, NEW q \in Seq(Seq(B)), NEW x \in Seq(B)
    PROVE  FlattenSeq(Append(q, x)) = FlattenSeq(q) \o x
<1> DEFINE n == Len(q)
           r == Append(q, x)
<1>1. /\ n \in Nat /\ Len(r) = n + 1 /\ r[n + 1] = x /\ n + 1 \in Nat /\ n + 1 # 0
      /\ Same(q, r, n)
    <2>1. /\ Len(r) = n + 1 /\ r[n + 1] = x
          /\ \A i \in 1..n : r[i] = q[i]
        BY AppendProperties
    <2>2. n \in Nat
        OBVIOUS
    <2> HIDE DEF r, n
    <2> QED BY <2>1, <2>2 DEF Same
<1>2. n = 0 => q = <<>>
    BY EmptySeq
<1> HIDE DEF r
<1>3. PICK g : Flattens(g, r, n + 1) /\ FlattenSeq(r) = g[n + 1]
    BY <1>1, FlattenIs
<1>4. /\ n + 1 \in 1..(n + 1) /\ (n + 1) - 1 = n
      /\ n # 0 => n + 1 # 1
    BY <1>1
<1>5. g[n + 1] = IF n + 1 = 1 THEN r[n + 1] ELSE g[(n + 1) - 1] \o r[n + 1]
    BY <1>3, <1>4 DEF Flattens
<1>6. CASE n = 0
    <2>1. FlattenSeq(q) = <<>> /\ <<>> \o x = x
        BY <1>2, <1>6, FlattenNothing, ConcatEmptySeq
    <2>2. FlattenSeq(r) = x
        BY <1>1, <1>3, <1>5, <1>6
    <2> QED BY <2>1, <2>2 DEF r
<1>7. CASE n # 0
    <2>1. PICK f : Flattens(f, q, n) /\ FlattenSeq(q) = f[n]
        BY <1>1, <1>7, FlattenIs
    <2>2. n <= n /\ n <= n + 1
        BY <1>1
    <2>3. f[n] = g[n]
        <3>1. Flattens(f, q, n) /\ Flattens(g, r, n + 1)
            BY <1>3, <2>1
        <3> HIDE DEF n
        <3> QED BY <1>1, <1>7, <2>2, <3>1, FlatteningsAgree
    <2>4. FlattenSeq(r) = g[n] \o x
        BY <1>1, <1>3, <1>4, <1>5, <1>7
    <2> QED BY <2>1, <2>3, <2>4 DEF r
<1> QED BY <1>6, <1>7

LEMMA FlattenType ==
    ASSUME NEW B, NEW q \in Seq(Seq(B))
    PROVE  FlattenSeq(q) \in Seq(B)
<1> DEFINE S == {r \in Seq(Seq(B)) : FlattenSeq(r) \in Seq(B)}
<1>1. <<>> \in S
    <2>1. <<>> \in Seq(Seq(B)) /\ <<>> \in Seq(B)
        OBVIOUS
    <2>2. FlattenSeq(<<>>) \in Seq(B)
        BY <2>1, FlattenNothing
    <2> QED BY <2>1, <2>2
<1>2. ASSUME NEW r \in Seq(Seq(B)), NEW x \in Seq(B), r \in S
      PROVE  Append(r, x) \in S
    <2>1. FlattenSeq(Append(r, x)) = FlattenSeq(r) \o x
        BY FlattenAppend
    <2>2. FlattenSeq(r) \o x \in Seq(B)
        <3>1. FlattenSeq(r) \in Seq(B)
            BY <1>2
        <3> QED BY <3>1, Associative
    <2>3. FlattenSeq(Append(r, x)) \in Seq(B)
        BY <2>1, <2>2
    <2>4. Append(r, x) \in Seq(Seq(B))
        BY AppendProperties
    <2> QED BY <2>3, <2>4
<1>3. Seq(Seq(B)) \subseteq S
    <2> HIDE DEF S
    <2> QED BY <1>1, <1>2, SeqInduction
<1> QED BY <1>3

(* What F makes of the elements of s, each and joined. *)
Each(F, s) == [i \in DOMAIN s |-> F[s[i]]]

FlatMap(F, s) == FlattenSeq(Each(F, s))

LEMMA EachType ==
    ASSUME NEW A, NEW B, NEW F \in [A -> Seq(B)], NEW s \in Seq(A)
    PROVE  /\ Each(F, s) \in Seq(Seq(B)) /\ Len(Each(F, s)) = Len(s)
           /\ \A i \in 1..Len(s) : Each(F, s)[i] = F[s[i]]
<1>1. DOMAIN s = 1..Len(s) /\ Len(s) \in Nat /\ \A i \in 1..Len(s) : s[i] \in A
    OBVIOUS
<1>2. \A i \in 1..Len(s) : F[s[i]] \in Seq(B)
    BY <1>1
<1> QED BY <1>1, <1>2 DEF Each

LEMMA FlatMapType ==
    ASSUME NEW A, NEW B, NEW F \in [A -> Seq(B)], NEW s \in Seq(A)
    PROVE  FlatMap(F, s) \in Seq(B)
<1>1. Each(F, s) \in Seq(Seq(B))
    BY EachType
<1> QED BY <1>1, FlattenType DEF FlatMap

LEMMA FlatMapAppend ==
    ASSUME NEW A, NEW B, NEW F \in [A -> Seq(B)], NEW s \in Seq(A), NEW a \in A
    PROVE  FlatMap(F, Append(s, a)) = FlatMap(F, s) \o F[a]
<1> DEFINE r == Append(s, a)
           M == Each(F, s)
           N == Each(F, r)
           e == F[a]
<1>1. /\ r \in Seq(A) /\ Len(r) = Len(s) + 1 /\ r[Len(s) + 1] = a /\ Len(s) \in Nat
      /\ \A i \in 1..Len(s) : r[i] = s[i]
    BY AppendProperties
<1> HIDE DEF r
<1>2. /\ M \in Seq(Seq(B)) /\ Len(M) = Len(s) /\ \A i \in 1..Len(s) : M[i] = F[s[i]]
      /\ N \in Seq(Seq(B)) /\ Len(N) = Len(r) /\ \A i \in 1..Len(r) : N[i] = F[r[i]]
    BY <1>1, EachType
<1>3. e \in Seq(B)
    OBVIOUS
<1>4. FlatMap(F, s) = FlattenSeq(M) /\ FlatMap(F, r) = FlattenSeq(N)
    BY DEF FlatMap
<1> HIDE DEF M, N
<1> DEFINE Q == Append(M, e)
<1>5. /\ Q \in Seq(Seq(B)) /\ Len(Q) = Len(M) + 1 /\ Q[Len(M) + 1] = e
      /\ \A i \in 1..Len(M) : Q[i] = M[i]
    BY <1>2, <1>3, AppendProperties
<1> HIDE DEF Q
<1>6. ASSUME NEW i \in 1..Len(Q) PROVE Q[i] = N[i]
    <2>1. CASE i = Len(s) + 1
        BY <1>1, <1>2, <1>5, <2>1
    <2>2. CASE i # Len(s) + 1
        <3>1. i \in 1..Len(s) /\ i \in 1..Len(r)
            BY <1>1, <1>2, <1>5, <2>2
        <3> QED BY <1>1, <1>2, <1>5, <3>1
    <2> QED BY <2>1, <2>2
<1>7. Len(Q) = Len(N)
    BY <1>1, <1>2, <1>5
<1>8. Q = N
    BY <1>2, <1>5, <1>6, <1>7, SeqEqual
<1>9. FlattenSeq(Append(M, e)) = FlattenSeq(M) \o e
    BY <1>2, <1>3, FlattenAppend
<1> QED BY <1>4, <1>8, <1>9 DEF Q, r
=============================================================================
