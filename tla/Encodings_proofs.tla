-------------------------- MODULE Encodings_proofs --------------------------
(***************************************************************************)
(* That what the program writes as bytes is read as what it stood for:     *)
(* code points (Utf8), and the numbers in headers (Frames).                *)
(***************************************************************************)
EXTENDS Utf8, Frames, SequenceLemmas

-----------------------------------------------------------------------------
(* Code points *)

(* What lies within a mask passes it. *)
LEMMA LowBits ==
    ASSUME NEW x, NEW y, x \subseteq y
    PROVE  x \cap y = x
OBVIOUS

(* One byte. *)
LEMMA OneByte ==
    ASSUME NEW c, c # {}, c \subseteq 0 .. 6
    PROVE  LET s == IntToUTF8String(c)
           IN  Encodes(s, c) /\ \A i \in DOMAIN s : s[i] \subseteq 0 .. 7
<1>1. c \subseteq 0 .. 7 /\ 7 \notin c
    <2>1. \A i \in 0 .. 6 : i \in 0 .. 7 /\ i # 7
        OBVIOUS
    <2> QED BY <2>1
<1>2. Byte(c) = c
    BY <1>1, LowBits DEF Byte
<1>3. IntToUTF8String(c) = <<c>>
    BY <1>2 DEF IntToUTF8String
<1>4. Encodes(<<c>>, c)
    BY <1>1 DEF Encodes
<1>5. DOMAIN <<c>> = {1} /\ <<c>>[1] = c
    OBVIOUS
<1> QED BY <1>1, <1>3, <1>4, <1>5

LEMMA ShiftNothing ==
    ASSUME NEW c \in SUBSET Nat
    PROVE  ShiftRight(c, 0) = c
<1>1. \A i \in c : i - 0 = i /\ i >= 0
    OBVIOUS
<1> QED BY <1>1 DEF ShiftRight

(* A byte with the mask of a continuation keeps the six lowest bits. *)
LEMMA ContinuationIs ==
    ASSUME NEW x
    PROVE  /\ Continuation(x) \subseteq 0 .. 7
           /\ IsTail(Continuation(x))
           /\ Continuation(x) \cap 0 .. 5 = x \cap 0 .. 5
BY DEF Continuation, Byte, IsTail

(* A byte counts for the bits of c that were shifted into it. *)
LEMMA AddsShifted ==
    ASSUME NEW c \in SUBSET Int, NEW b, NEW n \in Nat, NEW k \in Nat,
           b \cap 0 .. (n - 1) = ShiftRight(c, k) \cap 0 .. (n - 1)
    PROVE  Adds(b, n, k) = c \cap k .. (k + n - 1)
<1>1. ASSUME NEW i \in Adds(b, n, k) PROVE i \in c \cap k .. (k + n - 1)
    <2>1. PICK j \in ShiftRight(c, k) \cap 0 .. (n - 1) : i = j + k
        BY <1>1 DEF Adds
    <2>2. PICK m \in c : j = m - k /\ m >= k
        BY DEF ShiftRight
    <2> QED BY <2>1, <2>2
<1>2. ASSUME NEW i \in c \cap k .. (k + n - 1) PROVE i \in Adds(b, n, k)
    <2>1. i - k \in 0 .. (n - 1) /\ (i - k) + k = i /\ i >= k
        OBVIOUS
    <2>2. i - k \in ShiftRight(c, k)
        BY <2>1 DEF ShiftRight
    <2>3. i - k \in b \cap 0 .. (n - 1)
        BY <2>1, <2>2
    <2> QED BY <2>1, <2>3 DEF Adds
<1> QED BY <1>1, <1>2

LEMMA TwoBytes ==
    ASSUME NEW c, c \subseteq 0 .. 10, ~(c \subseteq 0 .. 6)
    PROVE  LET s == IntToUTF8String(c)
           IN  Encodes(s, c) /\ \A i \in DOMAIN s : s[i] \subseteq 0 .. 7
<1> DEFINE a == Byte(Xor(ShiftRight(c, 6), {6, 7}))
           b == Continuation(Xor(c, 6 .. 15))
           s == IntToUTF8String(c)
<1>1. s = <<a, b>>
    BY DEF IntToUTF8String
<1>2. ShiftRight(c, 6) \subseteq 0 .. 4
    BY DEF ShiftRight
<1>3. /\ a \subseteq 0 .. 7 /\ {6, 7} \subseteq a /\ 5 \notin a
      /\ a \cap 0 .. 4 = ShiftRight(c, 6) \cap 0 .. 4
    BY <1>2 DEF Byte, Xor
<1>4. c \in SUBSET Int /\ c \in SUBSET Nat /\ 4 = 5 - 1 /\ 5 = 6 - 1 /\ 10 = 6 + 5 - 1 /\ 5 = 0 + 6 - 1
    OBVIOUS
<1>5. Adds(a, 5, 6) = c \cap 6 .. 10
    BY <1>3, <1>4, AddsShifted
<1>6. ShiftRight(c, 0) = c
    BY <1>4, ShiftNothing
<1>7. Xor(c, 6 .. 15) \cap 0 .. 5 = c \cap 0 .. 5
    BY DEF Xor
<1>8. b \subseteq 0 .. 7 /\ IsTail(b) /\ b \cap 0 .. 5 = c \cap 0 .. 5
    BY <1>7, ContinuationIs
<1>9. Adds(b, 6, 0) = c \cap 0 .. 5
    BY <1>4, <1>6, <1>8, AddsShifted
<1> HIDE DEF a, b
<1>10. c = Adds(a, 5, 6) \cup Adds(b, 6, 0)
    <2>1. \A i \in 0 .. 10 : i \in 6 .. 10 \/ i \in 0 .. 5
        OBVIOUS
    <2> QED BY <1>5, <1>9, <2>1
<1>11. Encodes(<<a, b>>, c)
    BY <1>3, <1>8, <1>10 DEF Encodes
<1>12. \A i \in DOMAIN <<a, b>> : <<a, b>>[i] \subseteq 0 .. 7
    <2>1. DOMAIN <<a, b>> = {1, 2} /\ <<a, b>>[1] = a /\ <<a, b>>[2] = b
        OBVIOUS
    <2> QED BY <1>3, <1>8, <2>1
<1> QED BY <1>1, <1>11, <1>12

LEMMA ThreeBytes ==
    ASSUME NEW c, c \subseteq 0 .. 15, ~(c \subseteq 0 .. 10)
    PROVE  LET s == IntToUTF8String(c)
           IN  Encodes(s, c) /\ \A i \in DOMAIN s : s[i] \subseteq 0 .. 7
<1> DEFINE a == Byte(ShiftRight(Xor(c, 0 .. 11 \cup 18 .. 23), 12) \cup {5, 6, 7})
           m == ShiftRight(Xor(c, 0 .. 5 \cup 12 .. 23), 6)
           b == Continuation(m)
           d == Continuation(Xor(c, 6 .. 19))
           s == IntToUTF8String(c)
<1>1. s = <<a, b, d>>
    <2>1. ~(c \subseteq 0 .. 6)
        <3>1. \A i \in 0 .. 6 : i \in 0 .. 10
            OBVIOUS
        <3> QED BY <3>1
    <2> QED BY <2>1 DEF IntToUTF8String
<1>2. /\ c \in SUBSET Int /\ c \in SUBSET Nat
      /\ 3 = 4 - 1 /\ 15 = 12 + 4 - 1 /\ 5 = 6 - 1 /\ 11 = 6 + 6 - 1 /\ 5 = 0 + 6 - 1
    OBVIOUS
<1>3. /\ a \subseteq 0 .. 7 /\ {5, 6, 7} \subseteq a /\ 4 \notin a
      /\ a \cap 0 .. 3 = ShiftRight(c, 12) \cap 0 .. 3
    <2> DEFINE x == Xor(c, 0 .. 11 \cup 18 .. 23)
               y == ShiftRight(x, 12)
    <2>1. \A i \in Int : i \in 12 .. 17 => (i \in x <=> i \in c)
        BY DEF Xor
    <2>2. \A i \in x : i \in Int
        BY <1>2 DEF Xor
    <2> HIDE DEF x
    <2>3. \A i \in 0 .. 4 : (i \in y <=> i + 12 \in x) /\ i + 12 \in 12 .. 17
        BY <2>2 DEF ShiftRight
    <2>4. \A i \in 0 .. 4 : i \in ShiftRight(c, 12) <=> i + 12 \in c
        BY <1>2 DEF ShiftRight
    <2>5. 4 + 12 \notin c
        OBVIOUS
    <2>6. \A i \in 0 .. 4 : i \in y <=> i \in ShiftRight(c, 12)
        BY <2>1, <2>3, <2>4
    <2>7. 4 \notin y /\ \A i \in 0 .. 3 : i \in y <=> i \in ShiftRight(c, 12)
        BY <2>4, <2>5, <2>6
    <2>8. a = Byte(y \cup {5, 6, 7})
        BY DEF y, x
    <2> HIDE DEF y, a
    <2>9. a = (y \cup {5, 6, 7}) \cap 0 .. 7
        BY <2>8 DEF Byte
    <2>10. /\ \A i \in 0 .. 3 : i \in 0 .. 7 /\ i \notin {5, 6, 7}
           /\ 5 \in 0 .. 7 /\ 6 \in 0 .. 7 /\ 7 \in 0 .. 7 /\ 4 \notin {5, 6, 7}
        OBVIOUS
    <2>11. a \cap 0 .. 3 = ShiftRight(c, 12) \cap 0 .. 3
        BY <2>7, <2>9, <2>10
    <2> QED BY <2>7, <2>9, <2>10, <2>11
<1> HIDE DEF a
<1>4. Adds(a, 4, 12) = c \cap 12 .. 15
    BY <1>2, <1>3, AddsShifted
<1>5. m \cap 0 .. 5 = ShiftRight(c, 6) \cap 0 .. 5
    <2> DEFINE x == Xor(c, 0 .. 5 \cup 12 .. 23)
    <2>1. \A i \in Int : i \in 6 .. 11 => (i \in x <=> i \in c)
        BY DEF Xor
    <2>2. \A i \in x : i \in Int
        BY <1>2 DEF Xor
    <2> HIDE DEF x
    <2>3. \A i \in 0 .. 5 : (i \in ShiftRight(x, 6) <=> i + 6 \in x) /\ i + 6 \in 6 .. 11
        BY <2>2 DEF ShiftRight
    <2>4. \A i \in 0 .. 5 : i \in ShiftRight(c, 6) <=> i + 6 \in c
        BY <1>2 DEF ShiftRight
    <2>5. \A i \in 0 .. 5 : i \in ShiftRight(x, 6) <=> i \in ShiftRight(c, 6)
        BY <2>1, <2>3, <2>4
    <2> QED BY <2>5 DEF x
<1> HIDE DEF m
<1>6. b \subseteq 0 .. 7 /\ IsTail(b) /\ b \cap 0 .. 5 = ShiftRight(c, 6) \cap 0 .. 5
    BY <1>5, ContinuationIs
<1>7. Adds(b, 6, 6) = c \cap 6 .. 11
    BY <1>2, <1>6, AddsShifted
<1>8. ShiftRight(c, 0) = c
    BY <1>2, ShiftNothing
<1>9. Xor(c, 6 .. 19) \cap 0 .. 5 = c \cap 0 .. 5
    BY DEF Xor
<1>10. d \subseteq 0 .. 7 /\ IsTail(d) /\ d \cap 0 .. 5 = c \cap 0 .. 5
    BY <1>9, ContinuationIs
<1>11. Adds(d, 6, 0) = c \cap 0 .. 5
    BY <1>2, <1>8, <1>10, AddsShifted
<1> HIDE DEF a, b, d
<1>12. c = Adds(a, 4, 12) \cup Adds(b, 6, 6) \cup Adds(d, 6, 0)
    <2>1. \A i \in 0 .. 15 : i \in 12 .. 15 \/ i \in 6 .. 11 \/ i \in 0 .. 5
        OBVIOUS
    <2> QED BY <1>4, <1>7, <1>11, <2>1
<1>13. Encodes(<<a, b, d>>, c)
    BY <1>3, <1>6, <1>10, <1>12 DEF Encodes
<1>14. \A i \in DOMAIN <<a, b, d>> : <<a, b, d>>[i] \subseteq 0 .. 7
    <2>1. /\ DOMAIN <<a, b, d>> = {1, 2, 3}
          /\ <<a, b, d>>[1] = a /\ <<a, b, d>>[2] = b /\ <<a, b, d>>[3] = d
        OBVIOUS
    <2> QED BY <1>3, <1>6, <1>10, <2>1
<1> QED BY <1>1, <1>13, <1>14

(* Outside the plane there is one answer. *)
LEMMA OtherIsBlank ==
    ASSUME NEW c, ~(c # {} /\ c \subseteq 0 .. 15)
    PROVE  IntToUTF8String(c) = <<BlankByte>>
<1>1. \A i : (i \in 0 .. 6 => i \in 0 .. 10) /\ (i \in 0 .. 10 => i \in 0 .. 15)
    OBVIOUS
<1>2. ~(c \subseteq 0 .. 6 /\ c # {}) /\ ~(c \subseteq 0 .. 10 /\ ~(c \subseteq 0 .. 6))
    BY <1>1
<1>3. ~(c \subseteq 0 .. 15 /\ ~(c \subseteq 0 .. 10))
    BY <1>1
<1> QED BY <1>2, <1>3 DEF IntToUTF8String

LEMMA Returned ==
    ASSUME NEW c
    PROVE  LET s == IntToUTF8String(c)
           IN  /\ \A i \in DOMAIN s : s[i] \subseteq 0 .. 7
               /\ IF c # {} /\ c \subseteq 0 .. 15 THEN Encodes(s, c) ELSE s = <<BlankByte>>
<1>1. CASE ~(c # {} /\ c \subseteq 0 .. 15)
    <2>1. DOMAIN <<BlankByte>> = {1} /\ <<BlankByte>>[1] \subseteq 0 .. 7
        BY DEF BlankByte
    <2> QED BY <1>1, <2>1, OtherIsBlank
<1>2. CASE c # {} /\ c \subseteq 0 .. 15
    BY <1>2, OneByte, TwoBytes, ThreeBytes
<1> QED BY <1>1, <1>2

(* Whatever int IntToUTF8String is given, of any width: a code point of the *)
(* plane comes out in the shortest form that stands for it, and all else as *)
(* a blank.                                                                 *)
THEOREM Utf8Correct == Utf8Spec => []Utf8RoundTrip
<1>1. Utf8Init => Utf8RoundTrip
    BY DEF Utf8Init, Utf8RoundTrip
<1>2. Utf8RoundTrip /\ [Return]_<<convertMe, out>> => Utf8RoundTrip'
    BY Returned DEF Utf8RoundTrip, Return
<1> QED BY <1>1, <1>2, PTL DEF Utf8Spec

(* The bytes of a code point of the plane are those of no other one.        *)
THEOREM Utf8Unambiguous ==
    \A c, d \in SUBSET (0 .. 15) :
        c # {} /\ d # {} /\ IntToUTF8String(c) = IntToUTF8String(d) => c = d
<1>1. ASSUME NEW s, NEW c, NEW d, Encodes(s, c), Encodes(s, d)
      PROVE  c = d
    BY <1>1 DEF Encodes
<1>2. ASSUME NEW c \in SUBSET (0 .. 15), c # {} PROVE Encodes(IntToUTF8String(c), c)
    BY <1>2, Returned
<1> QED BY <1>1, <1>2

-----------------------------------------------------------------------------
(* Headers *)

Base == {10, 16}

LEMMA PowerIs ==
    ASSUME NEW base \in Base
    PROVE  /\ Power(base) \in [Nat -> Nat]
           /\ Power(base)[0] = 1
           /\ \A k \in Nat : Power(base)[k + 1] = base * Power(base)[k]
<1> DEFINE F == [p \in Nat \X Nat |-> base * p[2]]
           Is(P) == P = [k \in Nat |-> IF k = 0 THEN 1 ELSE base * P[k - 1]]
<1>1. F \in [Nat \X Nat -> Nat] /\ \A i, x \in Nat : F[<<i, x>>] = base * x
    BY DEF Base
<1> HIDE DEF F
<1>2. PICK f \in [Nat -> Nat] : Unfolds(f, F, 1, Nat)
    BY <1>1, Recursion
<1>3. f = [k \in Nat |-> IF k = 0 THEN 1 ELSE F[<<k - 1, f[k - 1]>>]]
    BY <1>2 DEF Unfolds
<1>4. ASSUME NEW k \in Nat, k # 0 PROVE F[<<k - 1, f[k - 1]>>] = base * f[k - 1]
    <2>1. k - 1 \in Nat
        BY <1>4
    <2> QED BY <1>1, <1>2, <2>1
<1>5. Is(f)
    BY <1>3, <1>4
<1>6. Power(base) = CHOOSE P : Is(P)
    BY DEF Power
<1> HIDE DEF Is
<1>7. Is(Power(base))
    BY <1>5, <1>6
<1>8. \A k \in Nat : /\ k + 1 \in Nat /\ k + 1 # 0 /\ (k + 1) - 1 = k
    OBVIOUS
<1>9. Power(base)[0] = 1 /\ \A k \in Nat : Power(base)[k + 1] = base * Power(base)[k]
    BY <1>7, <1>8 DEF Is
<1>10. \A k \in Nat : Power(base)[k] \in Nat
    <2> DEFINE T == {k \in Nat : Power(base)[k] \in Nat}
    <2>1. 0 \in T
        BY <1>9
    <2>2. \A k \in Nat : k \in T => k + 1 \in T
        BY <1>9 DEF Base
    <2> HIDE DEF T
    <2>3. Nat \subseteq T
        BY <2>1, <2>2, Induction
    <2> QED BY <2>3 DEF T
<1>11. Power(base) = [k \in Nat |-> Power(base)[k]]
    BY <1>7 DEF Is
<1> QED BY <1>9, <1>10, <1>11

LEMMA RestIs ==
    ASSUME NEW base \in Base, NEW v \in Nat
    PROVE  /\ Rest(v, base) \in [Nat -> Nat]
           /\ Rest(v, base)[0] = v
           /\ \A k \in Nat : Rest(v, base)[k + 1] = Rest(v, base)[k] \div base
<1> DEFINE F == [p \in Nat \X Nat |-> p[2] \div base]
           Is(R) == R = [k \in Nat |-> IF k = 0 THEN v ELSE R[k - 1] \div base]
<1>1. F \in [Nat \X Nat -> Nat] /\ \A i, x \in Nat : F[<<i, x>>] = x \div base
    <2>1. \A x \in Nat : x \div 10 \in Nat /\ x \div 16 \in Nat
        OBVIOUS
    <2>2. \A x \in Nat : x \div base \in Nat
        BY <2>1 DEF Base
    <2> QED BY <2>2
<1> HIDE DEF F
<1>2. PICK f \in [Nat -> Nat] : Unfolds(f, F, v, Nat)
    BY <1>1, Recursion
<1>3. f = [k \in Nat |-> IF k = 0 THEN v ELSE F[<<k - 1, f[k - 1]>>]]
    BY <1>2 DEF Unfolds
<1>4. ASSUME NEW k \in Nat, k # 0 PROVE F[<<k - 1, f[k - 1]>>] = f[k - 1] \div base
    <2>1. k - 1 \in Nat
        BY <1>4
    <2> QED BY <1>1, <1>2, <2>1
<1>5. Is(f)
    BY <1>3, <1>4
<1>6. Rest(v, base) = CHOOSE R : Is(R)
    BY DEF Rest
<1> HIDE DEF Is
<1>7. Is(Rest(v, base))
    BY <1>5, <1>6
<1>8. \A k \in Nat : /\ k + 1 \in Nat /\ k + 1 # 0 /\ (k + 1) - 1 = k
    OBVIOUS
<1>9. Rest(v, base)[0] = v /\ \A k \in Nat : Rest(v, base)[k + 1] = Rest(v, base)[k] \div base
    BY <1>7, <1>8 DEF Is
<1>10. \A k \in Nat : Rest(v, base)[k] \in Nat
    <2> DEFINE T == {k \in Nat : Rest(v, base)[k] \in Nat}
    <2>1. 0 \in T
        BY <1>9
    <2>2. \A x \in Nat : x \div 10 \in Nat /\ x \div 16 \in Nat
        OBVIOUS
    <2>3. \A k \in Nat : k \in T => k + 1 \in T
        BY <1>9, <2>2 DEF Base
    <2> HIDE DEF T
    <2>4. Nat \subseteq T
        BY <2>1, <2>3, Induction
    <2> QED BY <2>4 DEF T
<1>11. Rest(v, base) = [k \in Nat |-> Rest(v, base)[k]]
    BY <1>7 DEF Is
<1> QED BY <1>9, <1>10, <1>11

LEMMA Division ==
    ASSUME NEW base \in Base, NEW x \in Nat
    PROVE  /\ x \div base \in Nat /\ x % base \in 0..(base - 1)
           /\ (x \div base) * base + (x % base) = x
           /\ x # 0 => x \div base < x
           /\ 0 \div base = 0
           /\ \A y \in Nat : x \div base < y <=> x < base * y
<1>1. CASE base = 10
    <2>1. /\ x \div 10 \in Nat /\ x % 10 \in 0..9
          /\ (x \div 10) * 10 + (x % 10) = x
          /\ x # 0 => x \div 10 < x
          /\ 0 \div 10 = 0
          /\ \A y \in Nat : x \div 10 < y <=> x < 10 * y
        OBVIOUS
    <2> QED BY <1>1, <2>1
<1>2. CASE base = 16
    <2>1. /\ x \div 16 \in Nat /\ x % 16 \in 0..15
          /\ (x \div 16) * 16 + (x % 16) = x
          /\ x # 0 => x \div 16 < x
          /\ 0 \div 16 = 0
          /\ \A y \in Nat : x \div 16 < y <=> x < 16 * y
        OBVIOUS
    <2> QED BY <1>2, <2>1
<1> QED BY <1>1, <1>2 DEF Base

(* Each division takes something away, until nothing is left. *)
LEMMA RestEnds ==
    ASSUME NEW base \in Base, NEW v \in Nat
    PROVE  /\ \A k \in Nat : Rest(v, base)[k] = 0 \/ Rest(v, base)[k] + k <= v
           /\ \A k, n \in Nat : k <= n /\ Rest(v, base)[k] = 0 => Rest(v, base)[n] = 0
<1> DEFINE R == Rest(v, base)
<1>1. R \in [Nat -> Nat] /\ R[0] = v /\ \A k \in Nat : R[k + 1] = R[k] \div base
    BY RestIs
<1> HIDE DEF R
<1>2. \A k \in Nat : R[k] \in Nat
    BY <1>1
<1>3. \A k \in Nat : R[k] = 0 \/ R[k] + k <= v
    <2> DEFINE T == {k \in Nat : R[k] = 0 \/ R[k] + k <= v}
    <2>1. 0 \in T
        BY <1>1
    <2>2. ASSUME NEW k \in Nat, k \in T PROVE k + 1 \in T
        <3>1. R[k + 1] = R[k] \div base /\ R[k + 1] \in Nat /\ R[k] \in Nat
            BY <1>1, <1>2
        <3>2. CASE R[k] = 0
            BY <3>1, <3>2, Division
        <3>3. CASE R[k] # 0
            <4>1. R[k + 1] < R[k] /\ R[k] + k <= v
                BY <2>2, <3>1, <3>3, Division
            <4> QED BY <3>1, <4>1
        <3> QED BY <3>2, <3>3
    <2> HIDE DEF T
    <2>3. Nat \subseteq T
        BY <2>1, <2>2, Induction
    <2> QED BY <2>3 DEF T
<1>4. ASSUME NEW k \in Nat, R[k] = 0 PROVE \A n \in Nat : k <= n => R[n] = 0
    <2> DEFINE T == {n \in Nat : k <= n => R[n] = 0}
    <2>1. 0 \in T
        BY <1>4
    <2>2. ASSUME NEW n \in Nat, n \in T PROVE n + 1 \in T
        <3>1. CASE k <= n
            BY <1>1, <2>2, <3>1, Division
        <3>2. CASE ~(k <= n)
            <4>1. k <= n + 1 => k = n + 1
                BY <3>2
            <4> QED BY <1>4, <4>1
        <3> QED BY <3>1, <3>2
    <2> HIDE DEF T
    <2>3. Nat \subseteq T
        BY <2>1, <2>2, Induction
    <2> QED BY <2>3 DEF T
<1> QED BY <1>3, <1>4 DEF R

LEMMA RestShift ==
    ASSUME NEW base \in Base, NEW v \in Nat, NEW k \in Nat
    PROVE  Rest(v, base)[k + 1] = Rest(v \div base, base)[k]
<1> DEFINE R == Rest(v, base)
           Q == Rest(v \div base, base)
           T == {n \in Nat : R[n + 1] = Q[n]}
<1>1. /\ R[0] = v /\ \A n \in Nat : R[n + 1] = R[n] \div base
      /\ Q[0] = v \div base /\ \A n \in Nat : Q[n + 1] = Q[n] \div base
    BY RestIs, Division
<1> HIDE DEF R, Q
<1>2. 0 \in T
    BY <1>1
<1>3. \A n \in Nat : n \in T => n + 1 \in T
    BY <1>1
<1> HIDE DEF T
<1>4. Nat \subseteq T
    BY <1>2, <1>3, Induction
<1> QED BY <1>4 DEF T, R, Q

(* k digits are enough for what is below the k-th power. *)
LEMMA RestPower ==
    ASSUME NEW base \in Base
    PROVE  \A k, v \in Nat : Rest(v, base)[k] = 0 <=> v < Power(base)[k]
<1> DEFINE T == {k \in Nat : \A v \in Nat : Rest(v, base)[k] = 0 <=> v < Power(base)[k]}
<1>1. 0 \in T
    <2>1. \A v \in Nat : v = 0 <=> v < 1
        OBVIOUS
    <2> QED BY <2>1, RestIs, PowerIs
<1>2. ASSUME NEW k \in Nat, k \in T PROVE k + 1 \in T
    <2>1. ASSUME NEW v \in Nat
          PROVE  Rest(v, base)[k + 1] = 0 <=> v < Power(base)[k + 1]
        <3>1. v \div base \in Nat /\ Power(base)[k] \in Nat
            BY Division, PowerIs
        <3>2. v \div base < Power(base)[k] <=> v < base * Power(base)[k]
            BY <3>1, Division
        <3>3. Rest(v, base)[k + 1] = Rest(v \div base, base)[k]
            BY RestShift
        <3>4. Rest(v \div base, base)[k] = 0 <=> v \div base < Power(base)[k]
            BY <1>2, <3>1
        <3>5. Power(base)[k + 1] = base * Power(base)[k]
            BY PowerIs
        <3> QED BY <3>2, <3>3, <3>4, <3>5
    <2> QED BY <2>1
<1> HIDE DEF T
<1>3. Nat \subseteq T
    BY <1>1, <1>2, Induction
<1> QED BY <1>3 DEF T

LEMMA WidthIs ==
    ASSUME NEW base \in Base, NEW v \in Nat
    PROVE  LET w == Width(v, base)
           IN  /\ w \in Nat \ {0} /\ Rest(v, base)[w] = 0
               /\ \A n \in Nat \ {0} : w <= n <=> v < Power(base)[n]
<1> DEFINE R == Rest(v, base)
           w == Width(v, base)
           I == {k \in 1..(v + 1) : R[k] = 0}
<1>1. v + 1 \in I
    <2>1. R[v + 1] = 0 \/ R[v + 1] + (v + 1) <= v
        BY RestEnds
    <2>2. R[v + 1] \in Nat
        BY RestIs
    <2> QED BY <2>1, <2>2
<1>2. PICK x \in I : \A y \in I : x <= y
    <2>1. I \in SUBSET Nat
        OBVIOUS
    <2> QED BY <1>1, <2>1, Least
<1>3. w \in 1..(v + 1) /\ R[w] = 0 /\ (w = 1 \/ R[w - 1] # 0)
    <2>1. x \in 1..(v + 1) /\ R[x] = 0
        BY <1>2
    <2>2. x = 1 \/ R[x - 1] # 0
        <3>1. x # 1 => x - 1 \in 1..(v + 1) /\ ~(x <= x - 1)
            BY <2>1
        <3> QED BY <1>2, <3>1
    <2> HIDE DEF R
    <2>3. w = CHOOSE n \in 1..(v + 1) : R[n] = 0 /\ (n = 1 \/ R[n - 1] # 0)
        BY DEF Width, R
    <2> QED BY <2>1, <2>2, <2>3
<1> HIDE DEF I, w
<1>4. ASSUME NEW n \in Nat \ {0} PROVE w <= n <=> v < Power(base)[n]
    <2>1. w \in Nat \ {0} /\ w - 1 \in Nat
        BY <1>3
    <2>2. R[n] = 0 <=> v < Power(base)[n]
        BY RestPower
    <2>3. w <= n => R[n] = 0
        BY <1>3, <2>1, RestEnds
    <2>4. ~(w <= n) => w # 1 /\ n <= w - 1
        BY <2>1
    <2>5. R[n] = 0 => w <= n
        BY <1>3, <2>1, <2>4, RestEnds
    <2> QED BY <2>2, <2>3, <2>5
<1>5. w \in Nat \ {0}
    BY <1>3
<1> QED BY <1>3, <1>4, <1>5 DEF w

(* A number in a header: the digits of v behind spaces. *)
Digits(v, base) == [i \in 1..Width(v, base) |-> Rest(v, base)[Width(v, base) - i] % base]

LEMMA TableIsSeq ==
    ASSUME NEW S, NEW n \in Nat, NEW f \in [1..n -> S]
    PROVE  f \in Seq(S) /\ Len(f) = n /\ DOMAIN f = 1..n
OBVIOUS

LEMMA DigitsIs ==
    ASSUME NEW base \in Base, NEW v \in Nat
    PROVE  /\ Digits(v, base) \in [1..Width(v, base) -> 0..(base - 1)]
           /\ Digits(v, base) \in Seq(0..(base - 1))
           /\ Len(Digits(v, base)) = Width(v, base)
           /\ DOMAIN Digits(v, base) = 1..Width(v, base)
<1> DEFINE w == Width(v, base)
<1>1. w \in Nat
    BY WidthIs
<1> HIDE DEF w
<1>2. \A i \in 1..w : w - i \in Nat
    BY <1>1
<1>3. \A i \in 1..w : Rest(v, base)[w - i] \in Nat
    BY <1>2, RestIs
<1>4. \A i \in 1..w : Rest(v, base)[w - i] % base \in 0..(base - 1)
    BY <1>3, Division
<1>5. Digits(v, base) = [i \in 1..w |-> Rest(v, base)[w - i] % base]
    BY DEF Digits, w
<1>6. Digits(v, base) \in [1..w -> 0..(base - 1)]
    BY <1>4, <1>5
<1> HIDE DEF Digits
<1>7. Digits(v, base) \in Seq(0..(base - 1)) /\ Len(Digits(v, base)) = w
    BY <1>1, <1>6, TableIsSeq
<1> QED BY <1>5, <1>6, <1>7 DEF w

LEMMA ValuesIs ==
    ASSUME NEW base \in Base, NEW d \in Seq(Nat)
    PROVE  /\ Values(d, base)[0] = 0
           /\ \A i \in 1..Len(d) : Values(d, base)[i] = Values(d, base)[i - 1] * base + d[i]
<1> DEFINE F == [p \in Nat \X Nat |-> p[2] * base + (IF p[1] + 1 \in 1..Len(d) THEN d[p[1] + 1] ELSE 0)]
           n == Len(d)
           Is(V) == V = [i \in 0..n |-> IF i = 0 THEN 0 ELSE V[i - 1] * base + d[i]]
<1>1. n \in Nat /\ n = Len(d)
    OBVIOUS
<1>2. ASSUME NEW i \in Nat, NEW x \in Nat
      PROVE  x * base + (IF i + 1 \in 1..n THEN d[i + 1] ELSE 0) \in Nat
    <2>1. i + 1 \in 1..n => d[i + 1] \in Nat
        OBVIOUS
    <2>2. x * base \in Nat
        BY DEF Base
    <2> QED BY <2>1, <2>2
<1>3. /\ F \in [Nat \X Nat -> Nat]
      /\ \A i, x \in Nat : i + 1 \in 1..n => F[<<i, x>>] = x * base + d[i + 1]
    BY <1>2
<1> HIDE DEF F, n
<1>4. PICK f \in [0..n -> Nat] : Unfolds(f, F, 0, 0..n)
    BY <1>1, <1>3, RecursionUpto
<1>5. f = [i \in 0..n |-> IF i = 0 THEN 0 ELSE F[<<i - 1, f[i - 1]>>]]
    BY <1>4 DEF Unfolds
<1>6. ASSUME NEW i \in 0..n, i # 0 PROVE F[<<i - 1, f[i - 1]>>] = f[i - 1] * base + d[i]
    <2>1. i - 1 \in Nat /\ i - 1 \in 0..n /\ (i - 1) + 1 = i /\ i \in 1..n
        BY <1>1, <1>6
    <2>2. f[i - 1] \in Nat
        BY <1>4, <2>1
    <2> QED BY <1>3, <2>1, <2>2
<1>7. Is(f)
    BY <1>5, <1>6
<1>8. Values(d, base) = CHOOSE V : Is(V)
    BY <1>1 DEF Values
<1> HIDE DEF Is
<1>9. Is(Values(d, base))
    BY <1>7, <1>8
<1>10. 0 \in 0..n /\ \A i \in 1..n : i \in 0..n /\ i # 0
    BY <1>1
<1> QED BY <1>1, <1>9, <1>10 DEF Is

(* Reading is the inverse of writing: i digits are what is left of v when  *)
(* the others are cut off.                                                 *)
LEMMA ValuesOfDigits ==
    ASSUME NEW base \in Base, NEW v \in Nat
    PROVE  Values(Digits(v, base), base)[Width(v, base)] = v
<1> DEFINE w == Width(v, base)
           d == Digits(v, base)
           R == Rest(v, base)
           V == Values(d, base)
           T == {i \in Nat : i \in 0..w => V[i] = R[w - i]}
<1>1. w \in Nat /\ R[w] = 0 /\ R[0] = v
    BY WidthIs, RestIs
<1>2. d \in Seq(Nat)
    <2>1. d \in [1..w -> 0..(base - 1)]
        BY DigitsIs
    <2>2. \A x \in 0..(base - 1) : x \in Nat
        BY DEF Base
    <2> QED BY <1>1, <2>1, <2>2
<1>3. Len(d) = w /\ \A i \in 1..w : d[i] = R[w - i] % base
    BY DigitsIs DEF Digits
<1>4. V[0] = 0 /\ \A i \in 1..w : V[i] = V[i - 1] * base + d[i]
    BY <1>2, <1>3, ValuesIs
<1>5. \A k \in Nat : R[k] \in Nat /\ R[k + 1] = R[k] \div base
    BY RestIs
<1> HIDE DEF w, d, R, V
<1>6. 0 \in T
    BY <1>1, <1>4
<1>7. ASSUME NEW i \in Nat, i \in T, i + 1 \in 0..w PROVE V[i + 1] = R[w - (i + 1)]
    <2> DEFINE k == w - (i + 1)
    <2>1. k \in Nat /\ k + 1 = w - i /\ i \in 0..w /\ i + 1 \in 1..w /\ (i + 1) - 1 = i
        BY <1>1, <1>7
    <2> HIDE DEF k
    <2>2. V[i] = R[k] \div base
        BY <1>5, <1>7, <2>1
    <2>3. V[i + 1] = V[i] * base + (R[k] % base)
        BY <1>3, <1>4, <2>1 DEF k
    <2>4. (R[k] \div base) * base + (R[k] % base) = R[k]
        BY <1>5, <2>1, Division
    <2> QED BY <2>2, <2>3, <2>4 DEF k
<1>8. \A i \in Nat : i \in T => i + 1 \in T
    BY <1>7
<1> HIDE DEF T
<1>9. Nat \subseteq T
    BY <1>6, <1>8, Induction
<1>10. w \in T /\ w \in 0..w /\ w - w = 0
    BY <1>1, <1>9
<1>11. V[w] = v
    BY <1>1, <1>10 DEF T
<1> QED BY <1>11 DEF w, d, V

(* The first k characters of s are in C, and no more. *)
Leads(s, C, k) == (\A i \in 1..k : s[i] \in C) /\ (k < Len(s) => s[k + 1] \notin C)

LEMMA LeadingIs ==
    ASSUME NEW X, NEW s \in Seq(X), NEW C, NEW n \in 0..Len(s), Leads(s, C, n)
    PROVE  Leading(s, C) = n
<1> DEFINE Is(k) == Leads(s, C, k)
           m == CHOOSE k \in 0..Len(s) : Is(k)
<1>1. Len(s) \in Nat
    OBVIOUS
<1>2. Is(n)
    OBVIOUS
<1>3. Leading(s, C) = m
    BY DEF Leading, Leads
<1> HIDE DEF Is
<1>4. m \in 0..Len(s) /\ Is(m)
    BY <1>2
<1> HIDE DEF m
<1>5. ~(m < n)
    <2>1. m < n => m + 1 \in 1..n /\ m < Len(s)
        BY <1>1, <1>4
    <2> QED BY <1>4, <2>1 DEF Is, Leads
<1>6. ~(n < m)
    <2>1. n < m => n + 1 \in 1..m /\ n < Len(s)
        BY <1>1, <1>4
    <2> QED BY <1>4, <2>1 DEF Is, Leads
<1> QED BY <1>1, <1>3, <1>4, <1>5, <1>6

(* What is scanned of the digits d behind n spaces. *)
LEMMA ScanIs ==
    ASSUME NEW base \in Base, NEW d \in Seq(Int), Len(d) # 0,
           \A i \in 1..Len(d) : d[i] \in 0..(base - 1),
           NEW h \in Seq(Int), NEW n \in Nat, Len(h) = n + Len(d),
           \A i \in 1..n : h[i] = Space,
           \A i \in 1..Len(d) : h[n + i] = d[i]
    PROVE  Scan(h, base) = [found |-> TRUE, value |-> Values(d, base)[Len(d)]]
<1>1. Len(d) \in Nat \ {0} /\ d[1] \in 0..(base - 1)
    OBVIOUS
<1>2. d # <<>>
    <2>1. Len(<<>>) = 0
        OBVIOUS
    <2> QED BY <2>1
<1>3. Space \notin 0..(base - 1) /\ Plus \notin 0..(base - 1) /\ Minus \notin 0..(base - 1)
    BY DEF Base, Space, Plus, Minus
<1>4. Leading(h, {Space}) = n
    <2>1. n \in 0..Len(h) /\ h[n + 1] = d[1]
        BY <1>1
    <2>2. Leads(h, {Space}, n)
        BY <1>1, <1>3, <2>1 DEF Leads
    <2> QED BY <2>1, <2>2, LeadingIs
<1>5. SubSeq(h, n + 1, Len(h)) = d
    <2> DEFINE t == SubSeq(h, n + 1, Len(h))
    <2>1. n + 1 \in 1..(Len(h) + 1)
        BY <1>1
    <2>2. Len(t) = Len(d) /\ t \in Seq(Int) /\ \A i \in 1..Len(d) : t[i] = h[n + i]
        BY <1>1
    <2> HIDE DEF t
    <2>3. \A i \in 1..Len(d) : t[i] = d[i]
        BY <2>2
    <2> QED BY <2>2, <2>3, SeqEqual DEF t
<1>6. ~(d[1] \in {Plus, Minus})
    BY <1>1, <1>3
<1>7. Leading(d, 0..(base - 1)) = Len(d)
    <2>1. Len(d) \in 0..Len(d) /\ Leads(d, 0..(base - 1), Len(d))
        BY <1>1 DEF Leads
    <2> QED BY <2>1, LeadingIs
<1>8. SubSeq(d, 1, Len(d)) = d
    OBVIOUS
<1> HIDE DEF Base
<1> QED BY <1>2, <1>4, <1>5, <1>6, <1>7, <1>8 DEF Scan

(* A number that fits is written into exactly the width asked for, one    *)
(* that does not fit into more; and it is read as itself.                  *)
LEMMA PaddedIs ==
    ASSUME NEW base \in Base, NEW v \in Nat, NEW width \in Nat \ {0}
    PROVE  LET h == Padded(v, base, width)
           IN  /\ h \in Seq(Int)
               /\ Len(h) = width <=> v < Power(base)[width]
               /\ Len(h) # width => Len(h) > width
               /\ Scan(h, base) = [found |-> TRUE, value |-> v]
<1> DEFINE w == Width(v, base)
           all == IF w > width THEN w ELSE width
           h == Padded(v, base, width)
           d == Digits(v, base)
           n == all - w
<1>1. w \in Nat \ {0} /\ (w <= width <=> v < Power(base)[width])
    BY WidthIs
<1>2. h = [i \in 1..all |-> IF all - i < w THEN Rest(v, base)[all - i] % base ELSE Space]
    BY DEF Padded
<1>3. d = [i \in 1..w |-> Rest(v, base)[w - i] % base]
    BY DEF Digits
<1>4. /\ d \in [1..w -> 0..(base - 1)] /\ Len(d) = w
      /\ \A i \in 1..w : d[i] \in 0..(base - 1)
    BY DigitsIs
<1>5. Values(d, base)[Len(d)] = v
    BY <1>4, ValuesOfDigits
<1> HIDE DEF w, d, h
<1>6. all \in Nat \ {0} /\ all >= w /\ n \in Nat /\ all = n + w
    BY <1>1
<1>7. \A i \in 1..w : d[i] \in Int
    BY <1>4 DEF Base
<1>8. \A i \in 1..n : i \in 1..all /\ ~(all - i < w)
    BY <1>1, <1>6
<1>9. \A i \in 1..w : n + i \in 1..all /\ all - (n + i) < w /\ all - (n + i) = w - i
    BY <1>1, <1>6
<1>10. \A i \in 1..all : i \in 1..n \/ (i - n \in 1..w /\ n + (i - n) = i)
    BY <1>1, <1>6
<1> HIDE DEF all, n
<1>11. \A i \in 1..n : h[i] = Space
    BY <1>2, <1>8
<1>12. \A i \in 1..w : h[n + i] = d[i]
    BY <1>2, <1>3, <1>9
<1>13. \A i \in 1..all : h[i] \in Int
    BY <1>7, <1>10, <1>11, <1>12 DEF Space
<1>14. h \in Seq(Int) /\ Len(h) = all
    <2>1. h \in [1..all -> Int]
        BY <1>2, <1>13
    <2> QED BY <1>6, <2>1, TableIsSeq
<1>15. d \in Seq(Int)
    <2>1. d \in [1..w -> Int]
        BY <1>4, <1>7
    <2> QED BY <1>1, <2>1, TableIsSeq
<1>16. Scan(h, base) = [found |-> TRUE, value |-> v]
    <2>1. Len(d) # 0 /\ Len(h) = n + Len(d)
        BY <1>1, <1>4, <1>6, <1>14
    <2> QED BY <1>4, <1>5, <1>6, <1>11, <1>12, <1>14, <1>15, <2>1, ScanIs
<1>17. (all = width <=> w <= width) /\ (all # width => all > width)
    BY <1>1 DEF all
<1> QED BY <1>1, <1>14, <1>16, <1>17 DEF h

(* The readers, by the number that is found. *)
LEMMA DecodeHeaderIs ==
    ASSUME NEW h
    PROVE  /\ Scan(h, 10).value \in 0..max_body_length =>
                decode_header(h) = [ok |-> TRUE, length |-> Scan(h, 10).value]
           /\ Scan(h, 10).value \notin 0..max_body_length =>
                decode_header(h) = [ok |-> FALSE, length |-> 0]
BY DEF decode_header

LEMMA DecodeHeaderFits ==
    ASSUME NEW h
    PROVE  decode_header(h).length \in 0..max_body_length
<1> DEFINE v == Scan(h, 10).value
           r == decode_header(h)
<1>1. v \in 0..max_body_length => r = [ok |-> TRUE, length |-> v]
    BY DecodeHeaderIs
<1>2. v \notin 0..max_body_length => r = [ok |-> FALSE, length |-> 0]
    BY DecodeHeaderIs
<1>3. 0 \in 0..max_body_length
    BY HeaderAssumption
<1> HIDE DEF v, r
<1>4. r.length \in 0..max_body_length
    BY <1>1, <1>2, <1>3
<1> QED BY <1>4 DEF r

LEMMA ReadHeaderIs ==
    ASSUME NEW h, Scan(h, 16).found
    PROVE  ReadHeader(h) = [ok |-> TRUE, length |-> Scan(h, 16).value]
BY DEF ReadHeader

(* A length that chat_message allows is read as it was written. *)
LEMMA ChatHeaderReads ==
    ASSUME NEW body \in 0..max_body_length
    PROVE  decode_header(encode_header(body)) = [ok |-> TRUE, length |-> body]
<1> DEFINE h == Padded(body, 10, header_length)
<1>1. body \in Nat /\ header_length \in Nat \ {0} /\ 10 \in Base
    BY HeaderAssumption DEF Base
<1>2. body < Power(10)[header_length]
    <2>1. Power(10)[header_length] \in Nat
        BY <1>1, PowerIs
    <2> QED BY <1>1, <2>1, HeaderAssumption
<1>3. h \in Seq(Int) /\ Len(h) = header_length /\ Scan(h, 10) = [found |-> TRUE, value |-> body]
    BY <1>1, <1>2, PaddedIs
<1> HIDE DEF h
<1>4. SubSeq(h, 1, header_length) = h
    BY <1>3
<1>5. encode_header(body) = h
    BY <1>4 DEF encode_header, h
<1>6. Scan(h, 10).value = body
    BY <1>3
<1> QED BY <1>5, <1>6, DecodeHeaderIs

(* A size is refused only if it has too many digits. *)
LEMMA DataHeaderReads ==
    ASSUME NEW size \in Nat
    PROVE  LET h == DataHeader(size)
           IN  IF h = Refused
                 THEN size >= Power(16)[HEADER_SIZE]
                 ELSE ReadHeader(h) = [ok |-> TRUE, length |-> size]
<1> DEFINE h == Padded(size, 16, HEADER_SIZE)
<1>1. HEADER_SIZE \in Nat \ {0} /\ 16 \in Base
    BY HeaderAssumption DEF Base
<1>2. Power(16)[HEADER_SIZE] \in Nat
    BY <1>1, PowerIs
<1>3. /\ h \in Seq(Int) /\ (Len(h) = HEADER_SIZE <=> size < Power(16)[HEADER_SIZE])
      /\ Scan(h, 16) = [found |-> TRUE, value |-> size]
    BY <1>1, PaddedIs
<1>4. DataHeader(size) = IF Len(h) # HEADER_SIZE THEN Refused ELSE h
    BY DEF DataHeader
<1> HIDE DEF h
<1>5. CASE Len(h) # HEADER_SIZE
    BY <1>2, <1>3, <1>4, <1>5
<1>6. CASE Len(h) = HEADER_SIZE
    <2>1. h # Refused
        <3>1. Len(<<>>) = 0
            OBVIOUS
        <3> QED BY <1>1, <1>6, <3>1 DEF Refused
    <2>2. ReadHeader(h) = [ok |-> TRUE, length |-> size]
        <3>1. Scan(h, 16).found /\ Scan(h, 16).value = size
            BY <1>3
        <3> QED BY <3>1, ReadHeaderIs
    <2> QED BY <1>4, <1>6, <2>1, <2>2
<1> QED BY <1>5, <1>6

-----------------------------------------------------------------------------
(* The headers on their way: what stands in front of a message or object is *)
(* what its sender wrote there.                                            *)
Written ==
    /\ kind = "chat" => sent \in 0..max_body_length /\ header = encode_header(sent)
    /\ kind = "data" => sent \in Nat /\ header = DataHeader(sent)
    /\ kind = "none" => read = NotRead

FramesInv == Written /\ ChatFrames /\ DataFrames

LEMMA FramesInitially == FramesInit => FramesInv
BY DEF FramesInit, FramesInv, Written, ChatFrames, DataFrames, NotRead

LEMMA BodyFits == \A n \in Nat : body_length(n) \in 0..max_body_length
BY HeaderAssumption DEF body_length

LEMMA FramesStep == FramesInv /\ [FramesNext]_frames => FramesInv'
<1> SUFFICES ASSUME FramesInv, [FramesNext]_frames PROVE FramesInv'
    OBVIOUS
<1> USE DEF FramesInv
<1>0. Size \subseteq Nat
    BY HeaderAssumption DEF Size
<1>1. ASSUME NEW n \in Size, SendChat(n) PROVE FramesInv'
    <2>1. kind' = "chat" /\ sent' = body_length(n) /\ header' = encode_header(body_length(n))
        BY <1>1 DEF SendChat, Sends
    <2>2. read' = NotRead
        BY <1>1 DEF SendChat, Sends, Written
    <2>3. body_length(n) \in 0..max_body_length
        BY <1>0, BodyFits
    <2> QED BY <2>1, <2>2, <2>3 DEF Written, ChatFrames, DataFrames
<1>2. ASSUME NEW n \in Size, SendData(n) PROVE FramesInv'
    <2>1. kind' = "data" /\ sent' = n /\ header' = DataHeader(n) /\ n \in Nat
        BY <1>0, <1>2 DEF SendData, Sends
    <2>2. read' = NotRead
        BY <1>2 DEF SendData, Sends, Written
    <2>3. header' = Refused => sent' >= Power(16)[HEADER_SIZE]
        BY <2>1, DataHeaderReads
    <2> QED BY <2>1, <2>2, <2>3 DEF Written, ChatFrames, DataFrames
<1>3. CASE PeerSends
    <2>1. kind' \in {"peer's chat", "peer's data"} /\ read' = NotRead
        BY <1>3 DEF PeerSends, Sends, Written
    <2> QED BY <2>1 DEF Written, ChatFrames, DataFrames
<1>4. CASE ReadChat
    <2>1. /\ kind \in {"chat", "peer's chat"} /\ read' = decode_header(header)
          /\ UNCHANGED <<kind, sent, header>>
        BY <1>4 DEF ReadChat, Reads
    <2>2. read'.length \in 0..max_body_length
        BY <2>1, DecodeHeaderFits
    <2>3. kind = "chat" => read' = [ok |-> TRUE, length |-> sent]
        BY <2>1, ChatHeaderReads DEF Written
    <2> QED BY <2>1, <2>2, <2>3 DEF Written, ChatFrames, DataFrames
<1>5. CASE ReadData
    <2>1. /\ kind \in {"data", "peer's data"} /\ header # Refused
          /\ read' = ReadHeader(header) /\ UNCHANGED <<kind, sent, header>>
        BY <1>5 DEF ReadData, Reads
    <2>2. kind = "data" => read' = [ok |-> TRUE, length |-> sent]
        BY <2>1, DataHeaderReads DEF Written
    <2> QED BY <2>1, <2>2 DEF Written, ChatFrames, DataFrames
<1>6. CASE UNCHANGED frames
    BY <1>6 DEF frames, Written, ChatFrames, DataFrames
<1> QED BY <1>1, <1>2, <1>3, <1>4, <1>5, <1>6 DEF FramesNext

(* A chat message of any length is announced to the other side as it is,    *)
(* and no header makes a receiver expect more than its buffer holds: for   *)
(* any size of header and buffer that chat_message could have been given.  *)
THEOREM ChatFramesCorrect == FramesSpec => []ChatFrames
<1>1. FramesInv => ChatFrames
    BY DEF FramesInv
<1> QED BY <1>1, FramesInitially, FramesStep, PTL DEF FramesSpec

(* An object of any size is either announced as it is or not sent, and the  *)
(* latter only where its size has more digits than the header, of any size. *)
THEOREM DataFramesCorrect == FramesSpec => []DataFrames
<1>1. FramesInv => DataFrames
    BY DEF FramesInv
<1> QED BY <1>1, FramesInitially, FramesStep, PTL DEF FramesSpec
=============================================================================
