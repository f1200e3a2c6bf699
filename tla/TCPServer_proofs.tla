-------------------------- MODULE TCPServer_proofs --------------------------
(***************************************************************************)
(* What the user list is for any connections and names under every order   *)
(* of calls, and what TCPServer, which extends it, does for any number of  *)
(* sessions, names and input.                                              *)
(***************************************************************************)
EXTENDS TCPServer, SequenceLemmas

-----------------------------------------------------------------------------
(* The user list: the facts and theorems of UserDB. *)

(* find() returns the first entry of the connection, or end(). *)
LEMMA FindFirst ==
    ASSUME UsersTypeOK, NEW c
    PROVE  /\ find(c) \in 0..Len(m_users)
           /\ find(c) # end => m_users[find(c)].connection = c
           /\ find(c) = end => \A i \in DOMAIN m_users : m_users[i].connection # c
           /\ \A i \in DOMAIN m_users :
                 m_users[i].connection = c => find(c) # end /\ find(c) =< i
<1> DEFINE I == {i \in 1..Len(m_users) : m_users[i].connection = c}
<1>1. find(c) = IF I # {} THEN Min(I) ELSE 0
    BY DEF find, SelectInSeq
<1>2. I \subseteq Nat /\ DOMAIN m_users = 1..Len(m_users)
    BY DEF UsersTypeOK
<1>3. I # {} => Min(I) \in I /\ \A j \in I : Min(I) =< j
    BY <1>2, MinNat
<1>4. Len(m_users) \in Nat
    BY DEF UsersTypeOK
<1>5. CASE I # {}
    <2>1. find(c) \in I /\ find(c) \in 1..Len(m_users) /\ find(c) # 0
        BY <1>1, <1>3, <1>5
    <2>2. m_users[find(c)].connection = c
        BY <2>1
    <2>3. \A i \in DOMAIN m_users : m_users[i].connection = c => find(c) =< i
        BY <1>1, <1>2, <1>3, <1>5
    <2>4. find(c) \in 0..Len(m_users)
        BY <1>4, <2>1
    <2> QED BY <2>1, <2>2, <2>3, <2>4 DEF end
<1>6. CASE I = {}
    BY <1>1, <1>2, <1>4, <1>6 DEF end
<1> QED BY <1>5, <1>6

-----------------------------------------------------------------------------

LEMMA AddUserType ==
    ASSUME UsersTypeOK, NEW c \in Connection, NEW n \in Name, AddUser(c, n)
    PROVE  UsersTypeOK'
<1>1. [connection |-> c, name |-> n, screen |-> Blank] \in User
    BY DEF User
<1>2. CASE ~HasUser(n) /\ IsValidName(n)
    BY <1>1, <1>2 DEF UsersTypeOK, AddUser
<1>3. CASE ~(~HasUser(n) /\ IsValidName(n))
    BY <1>3 DEF UsersTypeOK, AddUser
<1> QED BY <1>2, <1>3

LEMMA RegisterType ==
    ASSUME UsersTypeOK, NEW c \in Connection, NEW n \in Name, Register(c, n)
    PROVE  UsersTypeOK'
BY AddUserType DEF Register, UsersTypeOK

LEMMA DeleteUserType ==
    ASSUME UsersTypeOK, NEW c \in Connection, DeleteUser(c)
    PROVE  UsersTypeOK'
<1>1. find(c) \in 0..Len(m_users) /\ Len(m_users) \in Nat
    BY FindFirst DEF UsersTypeOK
<1>2. find(c) # end => RemoveAt(m_users, find(c)) \in Seq(User)
    BY <1>1, RemoveAtElements DEF UsersTypeOK, end
<1> QED BY <1>2 DEF UsersTypeOK, DeleteUser

(* The list holds users: whatever is registered and deleted, in any order. *)
THEOREM UsersTypeCorrect == UserDBSpec => []UsersTypeOK
<1>1. UserDBInit => UsersTypeOK
    BY DEF UserDBInit, UsersTypeOK
<1>2. UsersTypeOK /\ [UserDBNext]_m_users => UsersTypeOK'
    <2> SUFFICES ASSUME UsersTypeOK, [UserDBNext]_m_users PROVE UsersTypeOK'
        OBVIOUS
    <2>1. ASSUME NEW c \in Connection, NEW n \in Name, Register(c, n)
          PROVE  UsersTypeOK'
        BY <2>1, RegisterType
    <2>2. ASSUME NEW c \in Connection, DeleteUser(c)
          PROVE  UsersTypeOK'
        BY <2>2, DeleteUserType
    <2>3. CASE UNCHANGED m_users
        BY <2>3 DEF UsersTypeOK
    <2> QED BY <2>1, <2>2, <2>3 DEF UserDBNext
<1> QED BY <1>1, <1>2, PTL DEF UserDBSpec

-----------------------------------------------------------------------------

LEMMA AddUserUnique ==
    ASSUME UsersTypeOK, UniqueNames,
           NEW c \in Connection, NEW n \in Name, AddUser(c, n)
    PROVE  UniqueNames'
<1> DEFINE u == [connection |-> c, name |-> n, screen |-> Blank]
<1>1. CASE ~HasUser(n) /\ IsValidName(n)
    <2>1. m_users' = Append(m_users, u) /\ u \in User
        BY <1>1 DEF AddUser, User
    <2>2. /\ DOMAIN m_users' = 1..(Len(m_users) + 1) /\ DOMAIN m_users = 1..Len(m_users)
          /\ m_users'[Len(m_users) + 1] = u
          /\ \A i \in DOMAIN m_users : m_users'[i] = m_users[i]
        BY <2>1 DEF UsersTypeOK
    <2>3. u.name = n /\ \A i \in DOMAIN m_users : m_users[i].name # n
        BY <1>1 DEF HasUser
    <2>4. \A i \in DOMAIN m_users' : i \in DOMAIN m_users \/ i = Len(m_users) + 1
        BY <2>2 DEF UsersTypeOK
    <2> HIDE DEF u
    <2> QED BY <2>2, <2>3, <2>4 DEF UniqueNames
<1>2. CASE ~(~HasUser(n) /\ IsValidName(n))
    BY <1>2 DEF AddUser, UniqueNames
<1> QED BY <1>1, <1>2

LEMMA RegisterUnique ==
    ASSUME UsersTypeOK, UniqueNames,
           NEW c \in Connection, NEW n \in Name, Register(c, n)
    PROVE  UniqueNames'
BY AddUserUnique DEF Register, UniqueNames

LEMMA DeleteUserUnique ==
    ASSUME UsersTypeOK, UniqueNames, NEW c \in Connection, DeleteUser(c)
    PROVE  UniqueNames'
<1>1. CASE find(c) = end
    BY <1>1 DEF DeleteUser, UniqueNames
<1>2. CASE find(c) # end
    <2> DEFINE k == find(c)
    <2>1. k \in 1..Len(m_users) /\ Len(m_users) \in Nat
        BY <1>2, FindFirst DEF end, UsersTypeOK
    <2>2. m_users' = RemoveAt(m_users, k)
        BY <1>2 DEF DeleteUser
    <2> HIDE DEF k
    <2>3. /\ DOMAIN m_users' = 1..(Len(m_users) - 1)
          /\ \A i \in DOMAIN m_users' :
                m_users'[i] = m_users[IF i < k THEN i ELSE i + 1]
        <3>1. /\ m_users' \in Seq(User) /\ Len(m_users') = Len(m_users) - 1
              /\ \A i \in 1..(Len(m_users) - 1) :
                    m_users'[i] = IF i < k THEN m_users[i] ELSE m_users[i + 1]
            BY <2>1, <2>2, RemoveAtElements DEF UsersTypeOK
        <3> QED BY <3>1
    <2>4. SUFFICES ASSUME NEW i \in DOMAIN m_users', NEW j \in DOMAIN m_users',
                          m_users'[i].name = m_users'[j].name
                   PROVE  i = j
        BY DEF UniqueNames
    <2> DEFINE old(m) == IF m < k THEN m ELSE m + 1
    <2>5. old(i) \in DOMAIN m_users /\ old(j) \in DOMAIN m_users
        BY <2>1, <2>3 DEF UsersTypeOK
    <2>6. old(i) = old(j)
        BY <2>3, <2>4, <2>5 DEF UniqueNames
    <2> QED BY <2>1, <2>3, <2>6
<1> QED BY <1>1, <1>2

(* No username is ever held twice. *)
THEOREM UniqueNamesCorrect == UserDBSpec => []UniqueNames
<1>1. UserDBInit => UniqueNames
    BY DEF UserDBInit, UniqueNames
<1>2. UsersTypeOK /\ UniqueNames /\ [UserDBNext]_m_users => UniqueNames'
    <2> SUFFICES ASSUME UsersTypeOK, UniqueNames, [UserDBNext]_m_users
                 PROVE  UniqueNames'
        OBVIOUS
    <2>1. ASSUME NEW c \in Connection, NEW n \in Name, Register(c, n)
          PROVE  UniqueNames'
        BY <2>1, RegisterUnique
    <2>2. ASSUME NEW c \in Connection, DeleteUser(c)
          PROVE  UniqueNames'
        BY <2>2, DeleteUserUnique
    <2>3. CASE UNCHANGED m_users
        BY <2>3 DEF UniqueNames
    <2> QED BY <2>1, <2>2, <2>3 DEF UserDBNext
<1> QED BY <1>1, <1>2, UsersTypeCorrect, PTL DEF UserDBSpec

-----------------------------------------------------------------------------
(* The entries of one connection. *)

LEMMA EntryType ==
    ASSUME NEW u \in User, NEW c
    PROVE  /\ Entry(u, c) \in Seq(User)
           /\ u.connection = c => Entry(u, c) = <<u>>
           /\ u.connection # c => Entry(u, c) = <<>>
BY DEF Entry

LEMMA EntriesAppend ==
    ASSUME NEW s \in Seq(User), NEW c
    PROVE  /\ EntriesOf(s, c) \in Seq(User)
           /\ \A u \in User : EntriesOf(Append(s, u), c) = EntriesOf(s, c) \o Entry(u, c)
<1> DEFINE F == [u \in User |-> Entry(u, c)]
<1>1. F \in [User -> Seq(User)]
    BY EntryType
<1>2. ASSUME NEW r \in Seq(User) PROVE EntriesOf(r, c) = FlatMap(F, r)
    <2>1. \A i \in DOMAIN r : r[i] \in User
        OBVIOUS
    <2> QED BY <2>1 DEF EntriesOf, FlatMap, Each
<1>3. \A u \in User : F[u] = Entry(u, c) /\ Append(s, u) \in Seq(User)
    OBVIOUS
<1> HIDE DEF F
<1>4. FlatMap(F, s) \in Seq(User)
    BY <1>1, FlatMapType
<1>5. \A u \in User : FlatMap(F, Append(s, u)) = FlatMap(F, s) \o F[u]
    BY <1>1, FlatMapAppend
<1> QED BY <1>2, <1>3, <1>4, <1>5

LEMMA NoEntries ==
    ASSUME NEW c
    PROVE  EntriesOf(<<>>, c) = <<>>
<1>1. DOMAIN <<>> = {}
    OBVIOUS
<1>2. [i \in DOMAIN <<>> |-> Entry(<<>>[i], c)] = <<>>
    BY <1>1
<1> QED BY <1>2, FlattenNothing DEF EntriesOf

LEMMA UsersAssociative ==
    \A q, r, s \in Seq(User) : (q \o r) \o s = q \o (r \o s)
BY Associative

LEMMA EntriesConcat ==
    ASSUME NEW s \in Seq(User), NEW t \in Seq(User), NEW c
    PROVE  EntriesOf(s \o t, c) = EntriesOf(s, c) \o EntriesOf(t, c)
<1> DEFINE S == {r \in Seq(User) : EntriesOf(s \o r, c) = EntriesOf(s, c) \o EntriesOf(r, c)}
<1>1. <<>> \in S
    <2>1. s \o <<>> = s /\ EntriesOf(s, c) \o <<>> = EntriesOf(s, c)
        BY EntriesAppend, ConcatEmptySeq
    <2>2. EntriesOf(<<>>, c) = <<>> /\ <<>> \in Seq(User)
        BY NoEntries
    <2> QED BY <2>1, <2>2
<1>2. ASSUME NEW r \in Seq(User), NEW u \in User, r \in S
      PROVE  Append(r, u) \in S
    <2>1. s \o Append(r, u) = Append(s \o r, u) /\ s \o r \in Seq(User)
        BY ConcatAppend, ConcatProperties
    <2>2. /\ EntriesOf(Append(s \o r, u), c) = EntriesOf(s \o r, c) \o Entry(u, c)
          /\ EntriesOf(Append(r, u), c) = EntriesOf(r, c) \o Entry(u, c)
        BY <2>1, EntriesAppend
    <2>3. (EntriesOf(s, c) \o EntriesOf(r, c)) \o Entry(u, c)
              = EntriesOf(s, c) \o (EntriesOf(r, c) \o Entry(u, c))
        <3>1. /\ EntriesOf(s, c) \in Seq(User) /\ EntriesOf(r, c) \in Seq(User)
              /\ Entry(u, c) \in Seq(User)
            BY EntriesAppend, EntryType
        <3> QED BY <3>1, UsersAssociative, SMTT(30)
    <2>4. Append(r, u) \in Seq(User)
        OBVIOUS
    <2> QED BY <1>2, <2>1, <2>2, <2>3, <2>4
<1>3. Seq(User) \subseteq S
    <2> HIDE DEF S
    <2> QED BY <1>1, <1>2, SeqInduction
<1> QED BY <1>3

LEMMA NoneOf ==
    ASSUME NEW s \in Seq(User), NEW c, \A i \in 1..Len(s) : s[i].connection # c
    PROVE  EntriesOf(s, c) = <<>>
<1> DEFINE S == {r \in Seq(User) :
                    (\A i \in 1..Len(r) : r[i].connection # c) => EntriesOf(r, c) = <<>>}
<1>1. <<>> \in S
    BY NoEntries
<1>2. ASSUME NEW r \in Seq(User), NEW u \in User, r \in S
      PROVE  Append(r, u) \in S
    <2> DEFINE t == Append(r, u)
    <2>1. /\ t \in Seq(User) /\ Len(t) = Len(r) + 1 /\ t[Len(r) + 1] = u
          /\ \A i \in 1..Len(r) : t[i] = r[i]
          /\ Len(r) \in Nat
        BY AppendProperties
    <2>2. EntriesOf(t, c) = EntriesOf(r, c) \o Entry(u, c)
        BY EntriesAppend
    <2> HIDE DEF t
    <2>3. ASSUME \A i \in 1..Len(t) : t[i].connection # c PROVE EntriesOf(t, c) = <<>>
        <3>1. Len(r) + 1 \in 1..Len(t) /\ \A i \in 1..Len(r) : i \in 1..Len(t)
            BY <2>1
        <3>2. u.connection # c /\ \A i \in 1..Len(r) : r[i].connection # c
            BY <2>1, <2>3, <3>1
        <3>3. EntriesOf(r, c) = <<>> /\ Entry(u, c) = <<>>
            BY <1>2, <3>2, EntryType
        <3> QED BY <2>2, <3>3
    <2> QED BY <2>1, <2>3 DEF t
<1>3. Seq(User) \subseteq S
    <2> HIDE DEF S
    <2> QED BY <1>1, <1>2, SeqInduction
<1> QED BY <1>3

(* What a call for c may do to the list. *)
OwnOnly(c) ==
    /\ \A d \in Connection \ {c} : EntriesOf(m_users', d) = EntriesOf(m_users, d)
    /\ \/ IsPrefix(EntriesOf(m_users, c), EntriesOf(m_users', c))
       \/ EntriesOf(m_users', c) = Tail(EntriesOf(m_users, c))

LEMMA RegisterOwn ==
    ASSUME UsersTypeOK, NEW c \in Connection, NEW n \in Name, Register(c, n)
    PROVE  UNCHANGED m_users \/ OwnOnly(c)
<1> DEFINE u == [connection |-> c, name |-> n, screen |-> Blank]
<1>1. u \in User /\ u.connection = c /\ m_users \in Seq(User)
    BY DEF User, UsersTypeOK
<1>2. m_users' = m_users \/ m_users' = Append(m_users, u)
    BY DEF Register, AddUser
<1> HIDE DEF u
<1>3. ASSUME m_users' = Append(m_users, u) PROVE OwnOnly(c)
    <2>1. ASSUME NEW d PROVE EntriesOf(m_users', d) = EntriesOf(m_users, d) \o Entry(u, d)
        BY <1>1, <1>3, EntriesAppend
    <2>2. ASSUME NEW d \in Connection \ {c} PROVE EntriesOf(m_users', d) = EntriesOf(m_users, d)
        <3>1. Entry(u, d) = <<>>
            BY <1>1, EntryType
        <3>2. EntriesOf(m_users, d) \o <<>> = EntriesOf(m_users, d)
            BY <1>1, EntriesAppend, ConcatEmptySeq
        <3> QED BY <2>1, <3>1, <3>2
    <2>3. IsPrefix(EntriesOf(m_users, c), EntriesOf(m_users, c) \o Entry(u, c))
        BY <1>1, EntriesAppend, EntryType, PrefixOfConcat
    <2> QED BY <2>1, <2>2, <2>3 DEF OwnOnly
<1> QED BY <1>2, <1>3

LEMMA DeleteUserOwn ==
    ASSUME UsersTypeOK, NEW c \in Connection, DeleteUser(c)
    PROVE  UNCHANGED m_users \/ OwnOnly(c)
<1> DEFINE k == find(c)
           l == SubSeq(m_users, 1, k - 1)
           r == SubSeq(m_users, k + 1, Len(m_users))
           u == m_users[k]
<1>1. CASE k = end
    BY <1>1 DEF DeleteUser
<1>2. CASE k # end
    <2>1. m_users \in Seq(User)
        BY DEF UsersTypeOK
    <2>2. /\ k \in 1..Len(m_users) /\ m_users[k].connection = c
          /\ \A i \in 1..Len(m_users) : m_users[i].connection = c => k <= i
        BY <1>2, <2>1, FindFirst DEF end
    <2>3. m_users' = l \o r
        BY <1>2 DEF DeleteUser, RemoveAt
    <2> HIDE DEF k
    <2>4. /\ l \in Seq(User) /\ r \in Seq(User) /\ u \in User /\ u.connection = c
          /\ Len(l) = k - 1 /\ \A i \in 1..(k - 1) : l[i] = m_users[i]
        BY <2>1, <2>2
    <2>5. m_users = Append(l, u) \o r
        <3>1. k \in Int /\ 1 <= k /\ k <= Len(m_users)
            BY <2>1, <2>2
        <3>2. Append(l, u) = SubSeq(m_users, 1, k)
            BY <2>1, <2>2, <2>4
        <3>3. SubSeq(m_users, 1, k) \o r = m_users
            BY <2>1, <3>1
        <3> QED BY <3>2, <3>3
    <2> HIDE DEF l, r, u
    <2>6. ASSUME NEW d
          PROVE  /\ EntriesOf(m_users', d) = EntriesOf(l, d) \o EntriesOf(r, d)
                 /\ EntriesOf(m_users, d) = (EntriesOf(l, d) \o Entry(u, d)) \o EntriesOf(r, d)
        <3>1. Append(l, u) \in Seq(User)
            BY <2>4
        <3>2. EntriesOf(Append(l, u), d) = EntriesOf(l, d) \o Entry(u, d)
            BY <2>4, EntriesAppend
        <3>3. EntriesOf(Append(l, u) \o r, d) = EntriesOf(Append(l, u), d) \o EntriesOf(r, d)
            BY <2>4, <3>1, EntriesConcat
        <3>4. EntriesOf(l \o r, d) = EntriesOf(l, d) \o EntriesOf(r, d)
            BY <2>4, EntriesConcat
        <3> QED BY <2>3, <2>5, <3>2, <3>3, <3>4
    <2>7. ASSUME NEW d \in Connection \ {c} PROVE EntriesOf(m_users', d) = EntriesOf(m_users, d)
        <3>1. Entry(u, d) = <<>>
            BY <2>4, EntryType
        <3>2. EntriesOf(l, d) \o <<>> = EntriesOf(l, d)
            BY <2>4, EntriesAppend, ConcatEmptySeq
        <3> QED BY <2>6, <3>1, <3>2
    <2>8. EntriesOf(m_users', c) = Tail(EntriesOf(m_users, c))
        <3>1. EntriesOf(l, c) = <<>>
            <4>1. ASSUME NEW i \in 1..Len(l) PROVE l[i].connection # c
                <5>1. i \in 1..(k - 1) /\ i \in 1..Len(m_users) /\ ~(k <= i) /\ l[i] = m_users[i]
                    BY <2>1, <2>2, <2>4
                <5> QED BY <2>2, <5>1
            <4> QED BY <2>4, <4>1, NoneOf
        <3>2. Entry(u, c) = <<u>>
            BY <2>4, EntryType
        <3> DEFINE R == EntriesOf(r, c)
        <3>3. R \in Seq(User)
            BY <2>4, EntriesAppend
        <3>4. EntriesOf(m_users', c) = <<>> \o R /\ EntriesOf(m_users, c) = (<<>> \o <<u>>) \o R
            BY <2>6, <3>1, <3>2
        <3> HIDE DEF R
        <3>5. <<>> \o R = R
            BY <3>3, ConcatEmptySeq
        <3>6. <<>> \o <<u>> = <<u>>
            OBVIOUS
        <3>7. Tail(<<u>> \o R) = R
            BY <2>4, <3>3, TailOfCons
        <3> QED BY <3>4, <3>5, <3>6, <3>7
    <2> QED BY <2>7, <2>8 DEF OwnOnly
<1> QED BY <1>1, <1>2

(* Register and DeleteUser leave other connections' entries alone, and a    *)
(* connection's own entries go in the order they came.                      *)
THEOREM OwnEntriesCorrect == UserDBSpec => OwnEntriesOnly
<1>1. UsersTypeOK /\ [UserDBNext]_m_users => UNCHANGED m_users \/ \E c \in Connection : OwnOnly(c)
    <2> SUFFICES ASSUME UsersTypeOK, UserDBNext
                 PROVE  UNCHANGED m_users \/ \E c \in Connection : OwnOnly(c)
        OBVIOUS
    <2>1. ASSUME NEW c \in Connection, NEW n \in Name, Register(c, n)
          PROVE  UNCHANGED m_users \/ OwnOnly(c)
        BY <2>1, RegisterOwn
    <2>2. ASSUME NEW c \in Connection, DeleteUser(c)
          PROVE  UNCHANGED m_users \/ OwnOnly(c)
        BY <2>2, DeleteUserOwn
    <2> QED BY <2>1, <2>2 DEF UserDBNext
<1>2. UsersTypeOK /\ [UserDBNext]_m_users
        => [\E c \in Connection :
               /\ \A d \in Connection \ {c} : EntriesOf(m_users', d) = EntriesOf(m_users, d)
               /\ \/ IsPrefix(EntriesOf(m_users, c), EntriesOf(m_users', c))
                  \/ EntriesOf(m_users', c) = Tail(EntriesOf(m_users, c))]_m_users
    BY <1>1 DEF OwnOnly
<1> QED BY <1>2, UsersTypeCorrect, PTL DEF UserDBSpec, OwnEntriesOnly

-----------------------------------------------------------------------------
(* The operators on one session's state. *)

LEMMA NewSessionType ==
    ASSUME NEW life \in {"free", "accepting", "accepted", "failed", "open"}
    PROVE  NewSession(life) \in SessionState
<1>1. NoOps \in [Handler -> [Status -> Nat]]
    BY DEF NoOps
<1>2. <<>> \in Seq(Token) /\ Blank \in Screen
    BY DEF Screen
<1> HIDE DEF Screen
<1> QED BY <1>1, <1>2 DEF NewSession, SessionState

(* Nothing pends on a session that does not exist, or not yet. *)
LEMMA NewSessionIdle ==
    ASSUME NEW life
    PROVE  ~Pending(NewSession(life))
BY DEF Pending, NewSession, NoOps, Handler, Status

LEMMA OpsType ==
    ASSUME NEW s \in SessionState, NEW ops \in [Handler -> [Status -> Nat]]
    PROVE  [s EXCEPT !.ops = ops] \in SessionState
BY DEF SessionState

LEMMA StartType ==
    ASSUME NEW s \in SessionState, NEW h \in Handler, NEW st \in Status
    PROVE  Start(s, h, st) \in SessionState
<1> DEFINE ops == [s.ops EXCEPT ![h][st] = @ + 1]
<1>1. s.ops \in [Handler -> [Status -> Nat]]
    BY DEF SessionState
<1>2. ops \in [Handler -> [Status -> Nat]]
    BY <1>1
<1>3. Start(s, h, st) = [s EXCEPT !.ops = ops]
    BY DEF Start
<1> HIDE DEF ops
<1> QED BY <1>2, <1>3, OpsType

LEMMA FinishType ==
    ASSUME NEW s \in SessionState, NEW h \in Handler, NEW st \in Status,
           s.ops[h][st] > 0
    PROVE  Finish(s, h, st) \in SessionState
<1> DEFINE ops == [s.ops EXCEPT ![h][st] = @ - 1]
<1>1. s.ops \in [Handler -> [Status -> Nat]]
    BY DEF SessionState
<1>2. s.ops[h][st] - 1 \in Nat
    BY <1>1
<1>3. ops \in [Handler -> [Status -> Nat]]
    BY <1>1, <1>2
<1>4. Finish(s, h, st) = [s EXCEPT !.ops = ops]
    BY DEF Finish
<1> HIDE DEF ops
<1> QED BY <1>3, <1>4, OpsType

LEMMA CompleteType ==
    ASSUME NEW s \in SessionState, NEW h \in Handler, NEW st \in Status,
           s.ops[h]["wait"] > 0
    PROVE  Complete(s, h, st) \in SessionState
BY FinishType, StartType DEF Complete, Status

LEMMA CancelType ==
    ASSUME NEW s \in SessionState
    PROVE  cancel(s) \in SessionState
<1> DEFINE ops == [h \in Handler |-> [st \in Status |->
                     CASE st = "wait"  -> 0
                       [] st = "ok"    -> s.ops[h]["ok"]
                       [] st = "error" -> s.ops[h]["error"] + s.ops[h]["wait"]]]
<1>1. s.ops \in [Handler -> [Status -> Nat]]
    BY DEF SessionState
<1>2. ASSUME NEW h \in Handler, NEW st \in Status
      PROVE  (CASE st = "wait"  -> 0
                [] st = "ok"    -> s.ops[h]["ok"]
                [] st = "error" -> s.ops[h]["error"] + s.ops[h]["wait"]) \in Nat
    BY <1>1 DEF Status
<1>3. ops \in [Handler -> [Status -> Nat]]
    BY <1>2
<1>4. cancel(s) = [s EXCEPT !.ops = ops]
    BY DEF cancel
<1> HIDE DEF ops
<1> QED BY <1>3, <1>4, OpsType

LEMMA FirstWordIndex ==
    ASSUME NEW raw \in Seq(Token)
    PROVE  FirstWord(raw) \in 0..Len(raw)
<1> DEFINE I == {i \in 1..Len(raw) : raw[i] # CRLF}
<1>1. FirstWord(raw) = IF I # {} THEN Min(I) ELSE 0
    BY DEF FirstWord, SelectInSeq
<1>2. I \subseteq Nat
    OBVIOUS
<1>3. I # {} => Min(I) \in I
    BY <1>2, MinNat
<1> QED BY <1>1, <1>3

LEMMA ExtractType ==
    ASSUME NEW s \in SessionState
    PROVE  Extract(s) \in SessionState
<1> DEFINE raw == s.raw_line_command
           rest == IF FirstWord(raw) = 0 THEN <<>>
                   ELSE SubSeq(raw, FirstWord(raw) + 1, Len(raw))
<1>1. raw \in Seq(Token)
    BY DEF SessionState
<1>2. FirstWord(raw) \in 0..Len(raw)
    BY <1>1, FirstWordIndex
<1> HIDE DEF raw
<1>3. rest \in Seq(Token)
    BY <1>1, <1>2
<1>4. Extract(s) = [s EXCEPT !.raw_line_command = rest]
    BY DEF Extract, raw
<1> HIDE DEF rest
<1> QED BY <1>3, <1>4 DEF SessionState

LEMMA AsyncType ==
    ASSUME NEW s \in SessionState
    PROVE  /\ async_read_until(s) \in SessionState
           /\ \A h \in Handler : \A text : async_write(s, h, text) \in SessionState
BY StartType DEF async_read_until, async_write, Handler, Status

(* None of them touches the socket's state, the life or the username; an    *)
(* operation that is started pends; only a cancel makes errors.             *)

Errored(s) == \E h \in Handler : s.ops[h]["error"] > 0

SameSession(s, t) ==
    /\ t.life = s.life /\ t.peer = s.peer /\ t.shut = s.shut
    /\ t.username = s.username

LEMMA StartFrame ==
    ASSUME NEW s \in SessionState, NEW h \in Handler, NEW st \in Status
    PROVE  /\ SameSession(s, Start(s, h, st))
           /\ Pending(Start(s, h, st))
           /\ st # "error" /\ Errored(Start(s, h, st)) => Errored(s)
<1>1. s.ops \in [Handler -> [Status -> Nat]]
    BY DEF SessionState
<1>2. Start(s, h, st).ops = [s.ops EXCEPT ![h][st] = @ + 1]
    BY DEF Start, SessionState
<1>3. SameSession(s, Start(s, h, st))
    BY DEF SameSession, Start, SessionState
<1>4. Start(s, h, st).ops[h][st] = s.ops[h][st] + 1 /\ s.ops[h][st] \in Nat
    BY <1>1, <1>2
<1>5. Pending(Start(s, h, st))
    BY <1>4 DEF Pending
<1>6. ASSUME st # "error", NEW g \in Handler
      PROVE  Start(s, h, st).ops[g]["error"] = s.ops[g]["error"]
    BY <1>1, <1>2, <1>6 DEF Status
<1> QED BY <1>3, <1>5, <1>6 DEF Errored

LEMMA FinishFrame ==
    ASSUME NEW s \in SessionState, NEW h \in Handler, NEW st \in Status,
           s.ops[h][st] > 0
    PROVE  /\ SameSession(s, Finish(s, h, st))
           /\ Errored(Finish(s, h, st)) => Errored(s)
           /\ Finish(s, h, st).raw_line_command = s.raw_line_command
<1>1. s.ops \in [Handler -> [Status -> Nat]]
    BY DEF SessionState
<1>2. Finish(s, h, st).ops = [s.ops EXCEPT ![h][st] = @ - 1]
    BY DEF Finish, SessionState
<1>3. SameSession(s, Finish(s, h, st)) /\ Finish(s, h, st).raw_line_command = s.raw_line_command
    BY DEF SameSession, Finish, SessionState
<1>4. ASSUME NEW g \in Handler, Finish(s, h, st).ops[g]["error"] > 0
      PROVE  s.ops[g]["error"] > 0
    <2>1. CASE g = h /\ st = "error"
        BY <2>1
    <2>2. CASE ~(g = h /\ st = "error")
        BY <1>1, <1>2, <1>4, <2>2 DEF Status
    <2> QED BY <2>1, <2>2
<1> QED BY <1>3, <1>4 DEF Errored

LEMMA CancelFrame ==
    ASSUME NEW s \in SessionState
    PROVE  SameSession(s, cancel(s))
BY DEF SameSession, cancel, SessionState

LEMMA ExtractFrame ==
    ASSUME NEW s \in SessionState
    PROVE  SameSession(s, Extract(s)) /\ (Errored(Extract(s)) => Errored(s))
BY DEF SameSession, Extract, SessionState, Errored

LEMMA AsyncFrame ==
    ASSUME NEW s \in SessionState
    PROVE  /\ LET t == async_read_until(s)
              IN  SameSession(s, t) /\ Pending(t) /\ (Errored(t) => Errored(s))
           /\ \A h \in Handler : \A text :
                LET t == async_write(s, h, text)
                IN  SameSession(s, t) /\ Pending(t) /\ (Errored(t) => Errored(s))
<1>1. /\ "initMode" \in Handler
      /\ {"ok", "wait"} \subseteq Status /\ "ok" # "error" /\ "wait" # "error"
    BY DEF Handler, Status
<1> QED BY <1>1, StartFrame DEF async_read_until, async_write

(* The session initMode works on. *)
LEMMA RequestedOK ==
    ASSUME NEW a \in Connection, session[a] \in SessionState,
           session[a].ops["initMode"]["ok"] > 0
    PROVE  /\ Requested(a) \in SessionState
           /\ SameSession(session[a], Requested(a))
           /\ Errored(Requested(a)) => Errored(session[a])
<1>1. "initMode" \in Handler /\ "ok" \in Status
    BY DEF Handler, Status
<1> DEFINE s == Finish(session[a], "initMode", "ok")
<1>2. s \in SessionState /\ SameSession(session[a], s) /\ (Errored(s) => Errored(session[a]))
    BY <1>1, FinishType, FinishFrame
<1>3. Requested(a) = Extract(s)
    BY DEF Requested
<1> HIDE DEF s
<1> QED BY <1>2, <1>3, ExtractType, ExtractFrame DEF SameSession

-----------------------------------------------------------------------------
(* The inductive invariant. *)

Owns(users, a, n) == \E i \in DOMAIN users : users[i].connection = a /\ users[i].name = n

SessionInv(a) ==
    /\ session[a].life # "open" =>
          /\ ~Pending(session[a])
          /\ a \notin tcp_participants
          /\ registering # a
          /\ session[a].username = NoName
    /\ session[a].life = "open" => a \in tcp_participants \/ Dead(session[a])
    /\ a \in tcp_participants => Pending(session[a]) \/ registering = a
    /\ Errored(session[a]) => Dead(session[a])
    /\ session[a].username # NoName => Owns(m_users, a, session[a].username)

NamesGiven == \A i \in DOMAIN m_users : m_users[i].name # NoName

IInv ==
    /\ TypeOK
    /\ UniqueNames
    /\ NamesGiven
    /\ \A a \in Connection : SessionInv(a)

LEMMA UserFound ==
    ASSUME IInv, NEW a \in Connection, HasUser(session[a].username)
    PROVE  find(a) # end
<1>1. session[a].username # NoName
    BY DEF IInv, NamesGiven, HasUser
<1>2. Owns(m_users, a, session[a].username)
    BY <1>1 DEF IInv, SessionInv
<1>3. UsersTypeOK
    BY DEF IInv, TypeOK
<1> QED BY <1>2, <1>3, FindFirst DEF Owns

(* WriteScreen finds the user it looks for, and writes. *)
LEMMA ScreenShown ==
    ASSUME IInv, NEW a \in Connection, NEW s \in SessionState,
           s.username = session[a].username
    PROVE  (IF HasUser(s.username) THEN ReturnScreen(a) ELSE s.screen) \in Screen
<1>1. ASSUME HasUser(s.username)
      PROVE  ReturnScreen(a) \in Screen
    <2>1. UsersTypeOK
        BY DEF IInv, TypeOK
    <2>2. find(a) \in DOMAIN m_users
        BY <1>1, <2>1, UserFound, FindFirst DEF end, UsersTypeOK
    <2>3. m_users[find(a)] \in User
        BY <2>1, <2>2 DEF UsersTypeOK
    <2> QED BY <2>3 DEF ReturnScreen, User, Screen
<1>2. s.screen \in Screen
    BY DEF SessionState
<1> QED BY <1>1, <1>2

LEMMA WriteScreenOK ==
    ASSUME IInv, NEW a \in Connection, NEW s \in SessionState,
           s.username = session[a].username
    PROVE  /\ WriteScreen(a, s) \in SessionState
           /\ SameSession(s, WriteScreen(a, s))
           /\ Pending(WriteScreen(a, s))
           /\ Errored(WriteScreen(a, s)) => Errored(s)
<1> DEFINE shown == IF HasUser(s.username) THEN ReturnScreen(a) ELSE s.screen
           t == [s EXCEPT !.screen = shown]
<1>1. shown \in Screen
    BY ScreenShown
<1> HIDE DEF shown
<1>2. t \in SessionState /\ SameSession(s, t) /\ t.ops = s.ops
    BY <1>1 DEF SessionState, SameSession
<1>3. Errored(t) => Errored(s)
    BY <1>2 DEF Errored
<1>4. WriteScreen(a, s) = async_write(t, "startSession", shown)
    BY DEF WriteScreen, shown
<1> HIDE DEF t
<1>5. "startSession" \in Handler
    BY DEF Handler
<1> QED BY <1>2, <1>3, <1>4, <1>5, AsyncType, AsyncFrame DEF SameSession

(* The list of users only grows under the server's calls. *)
UsersGrow ==
    /\ UsersTypeOK' /\ UniqueNames' /\ NamesGiven'
    /\ \A i \in DOMAIN m_users : i \in DOMAIN m_users' /\ m_users'[i] = m_users[i]

LEMMA UnchangedUsersGrow ==
    ASSUME IInv, UNCHANGED m_users
    PROVE  UsersGrow
BY DEF IInv, TypeOK, UsersTypeOK, UniqueNames, NamesGiven, UsersGrow

LEMMA OwnsKept ==
    ASSUME UsersGrow, NEW a, NEW n, Owns(m_users, a, n)
    PROVE  Owns(m_users', a, n)
BY DEF UsersGrow, Owns

(* A session that the step does not touch. *)
LEMMA OthersKept ==
    ASSUME IInv, UsersGrow, NEW b \in Connection,
           session'[b] = session[b],
           b \in tcp_participants' <=> b \in tcp_participants,
           registering' = b <=> registering = b
    PROVE  SessionInv(b)'
<1>1. SessionInv(b)
    BY DEF IInv
<1>2. session[b].username # NoName => Owns(m_users', b, session[b].username)
    BY <1>1, OwnsKept DEF SessionInv
<1> QED BY <1>1, <1>2 DEF SessionInv

(* A handler that leaves its session as s, served or dead. *)
LEMMA HandlerKept ==
    ASSUME IInv, UsersGrow, NEW a \in Connection, NEW s \in SessionState,
           session[a].life = "open",
           tcp_participants' \subseteq Connection,
           tcp_participants' \ {a} = tcp_participants \ {a},
           \A b \in Connection \ {a} : registering' # b /\ registering # b,
           s.life = "open",
           a \in tcp_participants' => Pending(s) \/ registering' = a,
           a \notin tcp_participants' => Dead(s),
           Errored(s) => Dead(s),
           s.username # NoName => Owns(m_users', a, s.username),
           Return(a, s)
    PROVE  /\ session' \in [Connection -> SessionState]
           /\ \A b \in Connection : SessionInv(b)'
<1>1. session \in [Connection -> SessionState]
    BY DEF IInv, TypeOK
<1> DEFINE t == IF a \in tcp_participants' \/ registering' = a \/ Pending(s)
                  THEN s ELSE NewSession("free")
<1>2. session' = [session EXCEPT ![a] = t]
    BY DEF Return
<1>3. t \in SessionState
    BY NewSessionType
<1>4. session' \in [Connection -> SessionState]
    BY <1>1, <1>2, <1>3
<1>5. ASSUME NEW b \in Connection, b # a
      PROVE  SessionInv(b)'
    <2>1. session'[b] = session[b]
        BY <1>1, <1>2, <1>5
    <2> QED BY <1>5, <2>1, OthersKept
<1>6. SessionInv(a)'
    <2>1. session'[a] = t
        BY <1>1, <1>2
    <2>2. CASE a \in tcp_participants' \/ registering' = a \/ Pending(s)
        <3>1. session'[a] = s
            BY <2>1, <2>2
        <3> HIDE DEF t
        <3> QED BY <3>1 DEF SessionInv
    <2>3. CASE ~(a \in tcp_participants' \/ registering' = a \/ Pending(s))
        <3>1. session'[a] = NewSession("free")
            BY <2>1, <2>3
        <3>2. /\ NewSession("free").life = "free"
              /\ NewSession("free").username = NoName
              /\ ~Errored(NewSession("free"))
            BY DEF NewSession, Errored, NoOps, Status
        <3> HIDE DEF t
        <3> QED BY <2>3, <3>1, <3>2, NewSessionIdle DEF SessionInv
    <2> QED BY <2>2, <2>3
<1> QED BY <1>4, <1>5, <1>6

-----------------------------------------------------------------------------
(* Every action preserves the invariant. *)

LEMMA InitInv == Init => IInv
<1> SUFFICES ASSUME Init PROVE IInv
    OBVIOUS
<1>1. PICK c \in Connection : session =
         [b \in Connection |-> NewSession(IF c = b THEN "accepting" ELSE "free")]
    BY DEF Init
<1>2. UsersTypeOK /\ UniqueNames /\ NamesGiven /\ m_users = <<>>
    BY DEF Init, UserDBInit, UsersTypeOK, UniqueNames, NamesGiven
<1>3. TypeOK
    BY <1>1, <1>2, NewSessionType DEF Init, TypeOK
<1>4. ASSUME NEW a \in Connection
      PROVE  SessionInv(a)
    <2>1. session[a] = NewSession(IF c = a THEN "accepting" ELSE "free")
        BY <1>1
    <2>2. /\ session[a].life # "open" /\ session[a].username = NoName
          /\ ~Errored(session[a])
        BY <2>1 DEF NewSession, Errored, NoOps, Status
    <2>3. ~Pending(session[a])
        BY <2>1, NewSessionIdle
    <2> QED BY <2>2, <2>3, ServerAssumption DEF Init, SessionInv
<1> QED BY <1>2, <1>3, <1>4 DEF IInv

(* What a handler may assume when it is called. *)
LEMMA Called ==
    ASSUME IInv, NEW a \in Connection, NEW h \in Handler, NEW st \in Status,
           Calls(a, h, st)
    PROVE  /\ session[a] \in SessionState
           /\ session[a].life = "open"
           /\ session[a].ops[h][st] > 0
           /\ registering = NoSession /\ NoSession \notin Connection
           /\ a \notin tcp_participants => Dead(session[a])
           /\ Errored(session[a]) => Dead(session[a])
           /\ session[a].username # NoName => Owns(m_users, a, session[a].username)
BY ServerAssumption DEF IInv, TypeOK, Calls, IoThreadFree, SessionInv, Pending

(* A handler that goes on: the pool and the socket as they were, and a new  *)
(* operation under way.                                                     *)
LEMMA ContinueInv ==
    ASSUME IInv, NEW a \in Connection, NEW h \in Handler, NEW st \in Status,
           Calls(a, h, st),
           NEW s \in SessionState,
           SameSession(session[a], s), Pending(s),
           Errored(s) => Errored(session[a]),
           UNCHANGED <<tcp_participants, m_users, serverVars>>,
           Return(a, s)
    PROVE  IInv'
<1>1. /\ s.life = "open" /\ s.username = session[a].username
      /\ Dead(session[a]) => Dead(s)
    BY Called DEF SameSession, Dead
<1>2. UNCHANGED <<tcp_participants, m_users, registering, usernameAttempt, server, signalled>>
    BY DEF serverVars
<1>3. UsersGrow
    BY <1>2, UnchangedUsersGrow
<1>4. s.username # NoName => Owns(m_users', a, s.username)
    BY <1>1, <1>2, Called
<1>5. tcp_participants \subseteq Connection
    BY DEF IInv, TypeOK
<1>6. session' \in [Connection -> SessionState] /\ \A b \in Connection : SessionInv(b)'
    BY <1>1, <1>2, <1>3, <1>4, <1>5, Called, HandlerKept
<1> QED BY <1>2, <1>3, <1>6 DEF IInv, TypeOK, UsersGrow

(* A handler that called end(). *)
LEMMA LeaveInv ==
    ASSUME IInv, NEW a \in Connection, NEW h \in Handler, NEW st \in Status,
           Calls(a, h, st),
           NEW s \in SessionState,
           s.life = "open", s.username = session[a].username, Dead(s),
           leave(a),
           UNCHANGED <<m_users, serverVars>>,
           Return(a, s)
    PROVE  IInv'
<1>1. /\ tcp_participants' = tcp_participants \ {a}
      /\ UNCHANGED <<m_users, registering, usernameAttempt, server, signalled>>
    BY DEF serverVars, leave
<1>2. UsersGrow
    BY <1>1, UnchangedUsersGrow
<1>3. s.username # NoName => Owns(m_users', a, s.username)
    BY <1>1, Called
<1>4. tcp_participants' \subseteq Connection
    BY <1>1 DEF IInv, TypeOK
<1>5. tcp_participants' \ {a} = tcp_participants \ {a} /\ a \notin tcp_participants'
    BY <1>1
<1>6. session' \in [Connection -> SessionState] /\ \A b \in Connection : SessionInv(b)'
    BY <1>1, <1>2, <1>3, <1>4, <1>5, Called, HandlerKept
<1> QED BY <1>1, <1>2, <1>4, <1>6 DEF IInv, TypeOK, UsersGrow

LEMMA StartSessionInv ==
    ASSUME IInv, NEW a \in Connection, startSession(a)
    PROVE  IInv'
<1> DEFINE f == Finish(session[a], "startSession", "ok")
           s == async_read_until(f)
<1>1. /\ "startSession" \in Handler /\ "ok" \in Status
      /\ Calls(a, "startSession", "ok") /\ Return(a, s)
      /\ UNCHANGED <<tcp_participants, m_users, serverVars>>
    BY DEF startSession, Handler, Status
<1>2. f \in SessionState /\ SameSession(session[a], f) /\ (Errored(f) => Errored(session[a]))
    BY <1>1, Called, FinishType, FinishFrame
<1> HIDE DEF f
<1>3. s \in SessionState /\ SameSession(f, s) /\ Pending(s) /\ (Errored(s) => Errored(f))
    BY <1>2, AsyncType, AsyncFrame
<1> HIDE DEF s
<1>4. SameSession(session[a], s)
    BY <1>2, <1>3 DEF SameSession
<1> QED BY <1>1, <1>2, <1>3, <1>4, ContinueInv

LEMMA EndOnErrorInv ==
    ASSUME IInv, NEW a \in Connection, NEW h \in Handler, EndOnError(a, h)
    PROVE  IInv'
<1> DEFINE f == Finish(session[a], h, "error")
           s == cancel(f)
<1>1. /\ "error" \in Status
      /\ Calls(a, h, "error") /\ leave(a) /\ Return(a, s)
      /\ UNCHANGED <<m_users, serverVars>>
    BY DEF EndOnError, end_session, Status
<1>2. f \in SessionState /\ SameSession(session[a], f)
    BY <1>1, Called, FinishType, FinishFrame
<1>3. Dead(session[a])
    BY <1>1, Called DEF Errored
<1> HIDE DEF f
<1>4. s \in SessionState /\ SameSession(f, s)
    BY <1>2, CancelType, CancelFrame
<1> HIDE DEF s
<1>5. s.life = "open" /\ s.username = session[a].username /\ Dead(s)
    BY <1>1, <1>2, <1>3, <1>4, Called DEF SameSession, Dead
<1> QED BY <1>1, <1>4, <1>5, LeaveInv

LEMMA QuitInv ==
    ASSUME IInv, NEW a \in Connection, initMode_quit(a)
    PROVE  IInv'
<1> DEFINE r == Requested(a)
           d == [r EXCEPT !.shut = TRUE]
           c == cancel(d)
           s == WriteScreen(a, c)
<1>1. /\ "initMode" \in Handler /\ "ok" \in Status
      /\ Calls(a, "initMode", "ok") /\ leave(a) /\ Return(a, s)
      /\ UNCHANGED <<m_users, serverVars>>
    BY DEF initMode_quit, initMode_is, Handler, Status
<1>2. r \in SessionState /\ SameSession(session[a], r)
    BY <1>1, Called, RequestedOK
<1> HIDE DEF r
<1>3. /\ d \in SessionState /\ d.shut
      /\ d.life = r.life /\ d.username = r.username
    BY <1>2 DEF SessionState
<1> HIDE DEF d
<1>4. c \in SessionState /\ SameSession(d, c)
    BY <1>3, CancelType, CancelFrame
<1> HIDE DEF c
<1>5. c.username = session[a].username /\ c.life = "open" /\ c.shut
    BY <1>1, <1>2, <1>3, <1>4, Called DEF SameSession
<1>6. s \in SessionState /\ SameSession(c, s)
    BY <1>4, <1>5, WriteScreenOK
<1> HIDE DEF s
<1>7. s.life = "open" /\ s.username = session[a].username /\ Dead(s)
    BY <1>5, <1>6 DEF SameSession, Dead
<1> QED BY <1>1, <1>6, <1>7, LeaveInv

LEMMA LoginInv ==
    ASSUME IInv, NEW a \in Connection, initMode_login(a)
    PROVE  IInv'
<1> DEFINE r == Requested(a)
           l == [r EXCEPT !.logins = @ + 1]
           w == async_write(l, "startSession", "login_MSG")
           s == WriteScreen(a, w)
<1>1. /\ {"initMode", "startSession"} \subseteq Handler /\ "ok" \in Status
      /\ Calls(a, "initMode", "ok") /\ Return(a, s)
      /\ UNCHANGED <<tcp_participants, m_users, serverVars>>
    BY DEF initMode_login, initMode_is, Handler, Status
<1>2. r \in SessionState /\ SameSession(session[a], r) /\ (Errored(r) => Errored(session[a]))
    BY <1>1, Called, RequestedOK
<1> HIDE DEF r
<1>3. l \in SessionState /\ SameSession(r, l) /\ l.ops = r.ops
    <2>1. r.logins + 1 \in Nat
        BY <1>2 DEF SessionState
    <2>2. l \in SessionState
        BY <1>2, <2>1 DEF SessionState
    <2>3. /\ l.life = r.life /\ l.peer = r.peer /\ l.shut = r.shut
          /\ l.username = r.username /\ l.ops = r.ops
        BY <1>2 DEF SessionState
    <2> QED BY <2>2, <2>3 DEF SameSession
<1>4. Errored(l) => Errored(r)
    BY <1>3 DEF Errored
<1> HIDE DEF l
<1>5. w \in SessionState /\ SameSession(l, w) /\ (Errored(w) => Errored(l))
    BY <1>1, <1>3, AsyncType, AsyncFrame
<1> HIDE DEF w
<1>6. w.username = session[a].username
    BY <1>2, <1>3, <1>5 DEF SameSession
<1>7. s \in SessionState /\ SameSession(w, s) /\ Pending(s) /\ (Errored(s) => Errored(w))
    BY <1>5, <1>6, WriteScreenOK
<1> HIDE DEF s
<1>8. SameSession(session[a], s)
    BY <1>2, <1>3, <1>5, <1>7 DEF SameSession
<1>9. Errored(s) => Errored(session[a])
    BY <1>2, <1>4, <1>5, <1>7
<1> QED BY <1>1, <1>7, <1>8, <1>9, ContinueInv

LEMMA RegisterModeInv ==
    ASSUME IInv, NEW a \in Connection, initMode_register(a)
    PROVE  IInv'
<1> DEFINE r == Requested(a)
           s == async_write(r, "registration", "Username: ")
<1>1. /\ {"initMode", "registration"} \subseteq Handler /\ "ok" \in Status
      /\ Calls(a, "initMode", "ok") /\ Return(a, s)
      /\ UNCHANGED <<tcp_participants, m_users, serverVars>>
    BY DEF initMode_register, initMode_is, Handler, Status
<1>2. r \in SessionState /\ SameSession(session[a], r) /\ (Errored(r) => Errored(session[a]))
    BY <1>1, Called, RequestedOK
<1> HIDE DEF r
<1>3. s \in SessionState /\ SameSession(r, s) /\ Pending(s) /\ (Errored(s) => Errored(r))
    BY <1>1, <1>2, AsyncType, AsyncFrame
<1> HIDE DEF s
<1>4. SameSession(session[a], s)
    BY <1>2, <1>3 DEF SameSession
<1> QED BY <1>1, <1>2, <1>3, <1>4, ContinueInv

LEMMA OtherModeInv ==
    ASSUME IInv, NEW a \in Connection, initMode_other(a)
    PROVE  IInv'
<1> DEFINE r == Requested(a)
           s == WriteScreen(a, r)
<1>1. /\ "initMode" \in Handler /\ "ok" \in Status
      /\ Calls(a, "initMode", "ok") /\ Return(a, s)
      /\ UNCHANGED <<tcp_participants, m_users, serverVars>>
    BY DEF initMode_other, initMode_is, Handler, Status
<1>2. r \in SessionState /\ SameSession(session[a], r) /\ (Errored(r) => Errored(session[a]))
    BY <1>1, Called, RequestedOK
<1> HIDE DEF r
<1>3. r.username = session[a].username
    BY <1>2 DEF SameSession
<1>4. s \in SessionState /\ SameSession(r, s) /\ Pending(s) /\ (Errored(s) => Errored(r))
    BY <1>2, <1>3, WriteScreenOK
<1> HIDE DEF s
<1>5. SameSession(session[a], s)
    BY <1>2, <1>4 DEF SameSession
<1> QED BY <1>1, <1>2, <1>4, <1>5, ContinueInv

LEMMA RegistrationInv ==
    ASSUME IInv, NEW a \in Connection, registration(a)
    PROVE  IInv'
<1> DEFINE s == Finish(session[a], "registration", "ok")
<1>1. /\ "registration" \in Handler /\ "ok" \in Status
      /\ Calls(a, "registration", "ok") /\ Return(a, s)
      /\ registering' = a /\ usernameAttempt' = NoName
      /\ UNCHANGED <<tcp_participants, m_users, server, signalled>>
    BY DEF registration, Handler, Status
<1>2. s \in SessionState /\ SameSession(session[a], s) /\ (Errored(s) => Errored(session[a]))
    BY <1>1, Called, FinishType, FinishFrame
<1> HIDE DEF s
<1>3. /\ s.life = "open" /\ s.username = session[a].username
      /\ Dead(session[a]) => Dead(s)
    BY <1>1, <1>2, Called DEF SameSession, Dead
<1>4. UsersGrow
    BY <1>1, UnchangedUsersGrow
<1>5. s.username # NoName => Owns(m_users', a, s.username)
    BY <1>1, <1>3, Called
<1>6. tcp_participants \subseteq Connection
    BY DEF IInv, TypeOK
<1>7. session' \in [Connection -> SessionState] /\ \A b \in Connection : SessionInv(b)'
    BY <1>1, <1>2, <1>3, <1>4, <1>5, <1>6, Called, HandlerKept
<1> QED BY <1>1, <1>4, <1>7 DEF IInv, TypeOK, UsersGrow

(* Register gives a new name to its caller and keeps all the others. *)
LEMMA RegisterGrows ==
    ASSUME IInv, NEW a \in Connection, NEW n \in Name \cup {NoName}, Register(a, n)
    PROVE  /\ UsersGrow
           /\ Accepts(n) => n # NoName /\ Owns(m_users', a, n)
<1>0. UsersTypeOK /\ UniqueNames /\ NamesGiven
    BY DEF IInv, TypeOK
<1>1. CASE ~Accepts(n)
    <2>1. UNCHANGED m_users
        BY <1>1 DEF Register
    <2> QED BY <1>1, <2>1, UnchangedUsersGrow
<1>2. CASE Accepts(n)
    <2> DEFINE u == [connection |-> a, name |-> n, screen |-> Blank]
    <2>1. n # NoName /\ n \in Name
        BY <1>2 DEF Accepts, IsValidName, NoName
    <2>2. AddUser(a, n) /\ m_users' = Append(m_users, u)
        BY <1>2 DEF Accepts, Register, AddUser
    <2>3. UsersTypeOK' /\ UniqueNames'
        BY <1>0, <2>1, <2>2, AddUserType, AddUserUnique
    <2>4. u \in User /\ u.name = n /\ u.connection = a
        BY <2>1 DEF User
    <2> HIDE DEF u
    <2>5. /\ Len(m_users) \in Nat
          /\ DOMAIN m_users = 1..Len(m_users)
          /\ DOMAIN m_users' = 1..(Len(m_users) + 1)
          /\ m_users'[Len(m_users) + 1] = u
          /\ \A i \in DOMAIN m_users : m_users'[i] = m_users[i]
        BY <1>0, <2>2, <2>4 DEF UsersTypeOK
    <2>6. \A i \in DOMAIN m_users' : i \in DOMAIN m_users \/ i = Len(m_users) + 1
        BY <2>5
    <2>7. NamesGiven'
        BY <1>0, <2>1, <2>4, <2>5, <2>6 DEF NamesGiven
    <2>8. Owns(m_users', a, n)
        BY <2>4, <2>5 DEF Owns
    <2>9. \A i \in DOMAIN m_users : i \in DOMAIN m_users' /\ m_users'[i] = m_users[i]
        BY <2>5
    <2> QED BY <2>1, <2>3, <2>7, <2>8, <2>9 DEF UsersGrow
<1> QED BY <1>1, <1>2

LEMMA RegistrationLineInv ==
    ASSUME IInv, NEW a \in Connection, registration_line(a)
    PROVE  IInv'
<1>1. /\ registering = a
      /\ UNCHANGED <<tcp_participants, server, signalled>>
    BY DEF registration_line
<1>2. PICK line \in Name \cup {NoName} :
        LET name == IF line = NoName THEN usernameAttempt ELSE line
        IN  /\ Register(a, name)
            /\ IF Accepts(name)
                 THEN /\ registering' = NoSession
                      /\ usernameAttempt' = NoName
                      /\ Return(a, async_write([session[a] EXCEPT !.username = name],
                                               "startSession", "Thank you"))
                 ELSE /\ usernameAttempt' = name
                      /\ UNCHANGED <<registering, session>>
    BY DEF registration_line
<1> DEFINE name == IF line = NoName THEN usernameAttempt ELSE line
<1>3. name \in Name \cup {NoName}
    BY DEF IInv, TypeOK
<1>4. Register(a, name)
    BY <1>2
<1>5. UsersGrow /\ (Accepts(name) => name # NoName /\ Owns(m_users', a, name))
    <2> HIDE DEF name
    <2> QED BY <1>3, <1>4, RegisterGrows
<1>6. CASE ~Accepts(name)
    <2>1. usernameAttempt' = name /\ UNCHANGED <<registering, session>>
        BY <1>2, <1>6
    <2> HIDE DEF name
    <2>2. \A b \in Connection : SessionInv(b)'
        BY <1>1, <1>5, <2>1, OthersKept
    <2> QED BY <1>1, <1>3, <1>5, <2>1, <2>2 DEF IInv, TypeOK, UsersGrow
<1>7. CASE Accepts(name)
    <2> DEFINE r == [session[a] EXCEPT !.username = name]
               s == async_write(r, "startSession", "Thank you")
    <2>1. registering' = NoSession /\ usernameAttempt' = NoName /\ Return(a, s)
        BY <1>2, <1>7
    <2> HIDE DEF name
    <2>2. /\ session[a] \in SessionState
          /\ SessionInv(a) /\ session[a].life = "open"
          /\ tcp_participants \subseteq Connection
        BY <1>1 DEF IInv, TypeOK, SessionInv
    <2>3. /\ r \in SessionState /\ r.username = name /\ r.life = "open"
          /\ r.shut = session[a].shut /\ r.peer = session[a].peer
          /\ r.ops = session[a].ops
        BY <1>3, <2>2 DEF SessionState
    <2>4. (Errored(r) => Errored(session[a])) /\ (Dead(session[a]) => Dead(r))
        BY <2>3 DEF Errored, Dead
    <2> HIDE DEF r
    <2>5. "startSession" \in Handler
        BY DEF Handler
    <2>6. s \in SessionState /\ SameSession(r, s) /\ Pending(s) /\ (Errored(s) => Errored(r))
        BY <2>3, <2>5, AsyncType, AsyncFrame
    <2> HIDE DEF s
    <2>7. s.life = "open" /\ s.username = name /\ (Dead(r) => Dead(s))
        BY <2>3, <2>6 DEF SameSession, Dead
    <2>8. s.username # NoName => Owns(m_users', a, s.username)
        BY <1>5, <1>7, <2>7
    <2>9. a \notin tcp_participants' => Dead(s)
        BY <1>1, <2>2, <2>4, <2>7 DEF SessionInv
    <2>10. Errored(s) => Dead(s)
        BY <2>2, <2>4, <2>6, <2>7 DEF SessionInv
    <2>11. \A b \in Connection \ {a} : registering' # b /\ registering # b
        BY <1>1, <2>1, ServerAssumption
    <2>12. session' \in [Connection -> SessionState] /\ \A b \in Connection : SessionInv(b)'
        BY <1>1, <1>5, <2>1, <2>2, <2>6, <2>7, <2>8, <2>9, <2>10, <2>11, HandlerKept
    <2> QED BY <1>1, <1>5, <2>1, <2>12 DEF IInv, TypeOK, UsersGrow
<1> QED BY <1>6, <1>7

(* The server goes down, or a signal arrives, or nothing happens: no session *)
(* changes.                                                                  *)
LEMMA SessionsUnchangedInv ==
    ASSUME IInv,
           UNCHANGED <<session, tcp_participants, m_users, registering, usernameAttempt>>,
           server' \in {"up", "down"}, signalled' \in BOOLEAN
    PROVE  IInv'
<1>1. UsersGrow
    BY UnchangedUsersGrow
<1>2. \A b \in Connection : SessionInv(b)'
    BY <1>1, OthersKept
<1> QED BY <1>1, <1>2 DEF IInv, TypeOK, UsersGrow

LEMMA ThrowInv ==
    ASSUME IInv, Throw
    PROVE  IInv'
BY SessionsUnchangedInv DEF Throw, ServerDown, IInv, TypeOK

(* A session changes outside every handler: s is what becomes of it. *)
LEMMA SocketInv ==
    ASSUME IInv, NEW a \in Connection, NEW s \in SessionState,
           session' = [session EXCEPT ![a] = s],
           UNCHANGED <<tcp_participants, m_users, serverVars>>,
           s.username = session[a].username,
           s.life = "open" <=> session[a].life = "open",
           Pending(s) <=> Pending(session[a]),
           Dead(session[a]) => Dead(s),
           Errored(s) => Errored(session[a]) \/ Dead(s)
    PROVE  IInv'
<1>1. /\ UNCHANGED <<tcp_participants, m_users, registering, usernameAttempt, server, signalled>>
      /\ session \in [Connection -> SessionState]
    BY DEF serverVars, IInv, TypeOK
<1>2. session' \in [Connection -> SessionState] /\ session'[a] = s
      /\ \A b \in Connection \ {a} : session'[b] = session[b]
    BY <1>1
<1>3. UsersGrow
    BY <1>1, UnchangedUsersGrow
<1>4. SessionInv(a)
    BY DEF IInv
<1>5. SessionInv(a)'
    BY <1>1, <1>2, <1>4 DEF SessionInv
<1>6. ASSUME NEW b \in Connection, b # a
      PROVE  SessionInv(b)'
    BY <1>1, <1>2, <1>3, <1>6, OthersKept
<1>7. \A b \in Connection : SessionInv(b)'
    BY <1>5, <1>6
<1> QED BY <1>1, <1>2, <1>3, <1>7 DEF IInv, TypeOK, UsersGrow

(* An operation completes; s is the session with what the operation brought. *)
LEMMA CompletesInv ==
    ASSUME IInv, NEW a \in Connection, NEW h \in Handler, NEW st \in {"ok", "error"},
           NEW s \in SessionState,
           SameSession(session[a], s), s.ops = session[a].ops,
           st = "error" => Dead(session[a]),
           Completes(a, h, st, s)
    PROVE  IInv'
<1> DEFINE f == Finish(s, h, "wait")
           c == Start(f, h, st)
<1>1. /\ session' = [session EXCEPT ![a] = c]
      /\ session[a].ops[h]["wait"] > 0
      /\ UNCHANGED <<tcp_participants, m_users, serverVars>>
      /\ {"wait", "ok", "error"} \subseteq Status
    BY DEF Completes, Complete, Status
<1>2. f \in SessionState /\ SameSession(s, f) /\ (Errored(f) => Errored(s))
    BY <1>1, FinishType, FinishFrame
<1> HIDE DEF f
<1>3. /\ c \in SessionState /\ SameSession(f, c) /\ Pending(c)
      /\ st # "error" /\ Errored(c) => Errored(f)
    BY <1>1, <1>2, StartType, StartFrame
<1> HIDE DEF c
<1>4. c.username = session[a].username /\ c.life = session[a].life
      /\ (Dead(session[a]) <=> Dead(c))
    BY <1>2, <1>3 DEF SameSession, Dead
<1>5. Errored(c) => Errored(session[a]) \/ Dead(c)
    BY <1>2, <1>3, <1>4 DEF Errored
<1>6. Pending(session[a])
    BY <1>1 DEF Pending
<1> QED BY <1>1, <1>3, <1>4, <1>5, <1>6, SocketInv

LEMMA BuffersType ==
    ASSUME NEW s \in SessionState, NEW raw \in Buffers(s)
    PROVE  raw \in Seq(Token)
<1> DEFINE input == {c \in SeqOf(Word \cup {CRLF}, MaxChunk) : HasLine(c)}
<1>1. input \subseteq Seq(Token)
    <2>1. Word \cup {CRLF} \subseteq Token
        BY ServerAssumption DEF Token
    <2>2. MaxChunk \in Nat
        BY ServerAssumption
    <2>3. ASSUME NEW c \in SeqOf(Word \cup {CRLF}, MaxChunk)
          PROVE  c \in Seq(Token)
        <3>1. PICK m \in 0..MaxChunk : c \in [1..m -> Word \cup {CRLF}]
            BY <2>3 DEF SeqOf
        <3> QED BY <2>1, <2>2, <3>1
    <2> QED BY <2>3
<1>2. raw \in input \/ \E c \in input : raw = s.raw_line_command \o c
    BY DEF Buffers
<1>3. s.raw_line_command \in Seq(Token)
    BY DEF SessionState
<1> HIDE DEF input
<1>4. ASSUME NEW c \in input, raw = s.raw_line_command \o c
      PROVE  raw \in Seq(Token)
    <2>1. c \in Seq(Token)
        BY <1>1
    <2> QED BY <1>3, <1>4, <2>1, ConcatProperties
<1> QED BY <1>1, <1>2, <1>4

LEMMA ReactorInv ==
    ASSUME IInv, NEW a \in Connection, Reactor(a)
    PROVE  IInv'
<1>1. session[a] \in SessionState /\ SameSession(session[a], session[a])
    BY DEF IInv, TypeOK, SameSession
<1>2. Writer \subseteq Handler /\ "initMode" \in Handler
    BY DEF Writer, Handler
<1>3. ASSUME NEW h \in Writer, WriteSucceeds(a, h)
      PROVE  IInv'
    <2>1. h \in Handler /\ Completes(a, h, "ok", session[a])
        BY <1>2, <1>3 DEF WriteSucceeds
    <2> QED BY <1>1, <2>1, CompletesInv
<1>4. ASSUME NEW h \in Handler, OperationFails(a, h)
      PROVE  IInv'
    BY <1>1, <1>4, CompletesInv DEF OperationFails
<1>5. ASSUME ReadSucceeds(a)
      PROVE  IInv'
    <2>1. PICK raw \in Buffers(session[a]) :
            Completes(a, "initMode", "ok",
                      [session[a] EXCEPT !.raw_line_command = raw, !.reads = @ + 1])
        BY <1>5 DEF ReadSucceeds
    <2> DEFINE s == [session[a] EXCEPT !.raw_line_command = raw, !.reads = @ + 1]
    <2>2. raw \in Seq(Token)
        BY <1>1, BuffersType
    <2>3. session[a].reads + 1 \in Nat
        BY <1>1 DEF SessionState
    <2>4. s \in SessionState
        BY <1>1, <2>2, <2>3 DEF SessionState
    <2>5. /\ s.life = session[a].life /\ s.peer = session[a].peer
          /\ s.shut = session[a].shut /\ s.username = session[a].username
          /\ s.ops = session[a].ops
        BY <1>1 DEF SessionState
    <2>6. SameSession(session[a], s)
        BY <2>5 DEF SameSession
    <2>7. Completes(a, "initMode", "ok", s)
        BY <2>1
    <2> HIDE DEF s
    <2> QED BY <1>2, <2>4, <2>5, <2>6, <2>7, CompletesInv
<1> QED BY <1>3, <1>4, <1>5 DEF Reactor

LEMMA ConnectsInv ==
    ASSUME IInv, NEW a \in Connection, Connects(a)
    PROVE  IInv'
<1>1. PICK life \in {"accepted", "failed"} : session' = [session EXCEPT ![a].life = life]
    BY DEF Connects
<1> DEFINE s == [session[a] EXCEPT !.life = life]
<1>2. session \in [Connection -> SessionState] /\ session[a] \in SessionState
    BY DEF IInv, TypeOK
<1>3. session' = [session EXCEPT ![a] = s]
    BY <1>1, <1>2
<1>4. /\ s \in SessionState /\ s.life # "open" /\ s.username = session[a].username
      /\ s.ops = session[a].ops /\ s.shut = session[a].shut /\ s.peer = session[a].peer
    BY <1>2 DEF SessionState
<1> HIDE DEF s
<1>5. session[a].life # "open" /\ UNCHANGED <<tcp_participants, m_users, serverVars>>
    BY DEF Connects
<1> QED BY <1>3, <1>4, <1>5, SocketInv DEF Pending, Errored, Dead

LEMMA PeerLeavesInv ==
    ASSUME IInv, NEW a \in Connection, PeerLeaves(a)
    PROVE  IInv'
<1>1. PICK gone \in {"closed", "reset"} : session' = [session EXCEPT ![a].peer = gone]
    BY DEF PeerLeaves
<1> DEFINE s == [session[a] EXCEPT !.peer = gone]
<1>2. session \in [Connection -> SessionState] /\ session[a] \in SessionState
    BY DEF IInv, TypeOK
<1>3. session' = [session EXCEPT ![a] = s]
    BY <1>1, <1>2
<1>4. /\ s \in SessionState /\ s.life = session[a].life /\ s.username = session[a].username
      /\ s.ops = session[a].ops /\ Dead(s)
    BY <1>2 DEF SessionState, Dead
<1> HIDE DEF s
<1>5. UNCHANGED <<tcp_participants, m_users, serverVars>>
    BY DEF PeerLeaves
<1> QED BY <1>3, <1>4, <1>5, SocketInv DEF Pending, Errored

LEMMA HandleConnectionInv ==
    ASSUME IInv, NEW a \in Connection, NEW b \in Connection, handle_connection(a, b)
    PROVE  IInv'
<1>1. /\ session \in [Connection -> SessionState] /\ tcp_participants \subseteq Connection
      /\ session[b].life = "free" /\ a # b /\ session[a].life \in {"accepted", "failed"}
      /\ UNCHANGED <<m_users, registering, usernameAttempt, server, signalled>>
      /\ registering = NoSession /\ NoSession \notin Connection
    BY ServerAssumption DEF IInv, TypeOK, handle_connection, free, serverVars, IoThreadFree
<1>2. SessionInv(a) /\ SessionInv(b) /\ session[a] \in SessionState
    BY <1>1 DEF IInv
<1>3. UsersGrow
    BY <1>1, UnchangedUsersGrow
<1> DEFINE n(life) == NewSession(life)
<1>4. \A life \in {"free", "accepting"} :
         /\ n(life) \in SessionState /\ n(life).life # "open" /\ ~Pending(n(life))
         /\ n(life).username = NoName /\ ~Errored(n(life))
    <2> TAKE life \in {"free", "accepting"}
    <2>1. n(life).life = life /\ n(life).username = NoName /\ ~Errored(n(life))
        BY DEF NewSession, Errored, NoOps, Status
    <2> QED BY <2>1, NewSessionType, NewSessionIdle
<1> HIDE DEF n
<1>5. CASE /\ join(a)
           /\ session' = [session EXCEPT ![a] = Started(@), ![b] = n("accepting")]
    <2> DEFINE o == [session[a] EXCEPT !.life = "open", !.screen = "menu"]
               s == async_write(o, "startSession", "menu")
    <2>1. tcp_participants' = tcp_participants \cup {a}
        BY <1>5 DEF join
    <2>2. /\ o \in SessionState /\ o.life = "open" /\ o.username = session[a].username
          /\ o.ops = session[a].ops
        BY <1>2 DEF SessionState, Screen
    <2>3. ~Errored(o)
        <3>1. session[a].ops \in [Handler -> [Status -> Nat]]
            BY <1>2 DEF SessionState
        <3>2. ~Pending(session[a])
            BY <1>1, <1>2 DEF SessionInv
        <3> QED BY <2>2, <3>1, <3>2 DEF Errored, Pending, Status
    <2>4. Started(session[a]) = s
        BY DEF Started
    <2> HIDE DEF o
    <2>5. "startSession" \in Handler
        BY DEF Handler
    <2>6. s \in SessionState /\ SameSession(o, s) /\ Pending(s) /\ ~Errored(s)
        BY <2>2, <2>3, <2>5, AsyncType, AsyncFrame
    <2> HIDE DEF s
    <2>7. s.life = "open" /\ s.username = NoName
        BY <1>1, <1>2, <2>2, <2>6 DEF SameSession, SessionInv
    <2>8. /\ session' = [session EXCEPT ![a] = s, ![b] = n("accepting")]
          /\ session' \in [Connection -> SessionState]
          /\ session'[a] = s /\ session'[b] = n("accepting")
          /\ \A c \in Connection \ {a, b} : session'[c] = session[c]
        BY <1>1, <1>4, <1>5, <2>4, <2>6
    <2>9. SessionInv(a)'
        BY <1>1, <2>1, <2>6, <2>7, <2>8 DEF SessionInv
    <2>10. SessionInv(b)'
        BY <1>1, <1>2, <1>4, <2>1, <2>8 DEF SessionInv
    <2>11. ASSUME NEW c \in Connection, c # a, c # b
           PROVE  SessionInv(c)'
        BY <1>1, <1>3, <2>1, <2>8, <2>11, OthersKept
    <2>12. \A c \in Connection : SessionInv(c)'
        BY <2>9, <2>10, <2>11
    <2> QED BY <1>1, <1>3, <2>1, <2>8, <2>12 DEF IInv, TypeOK, UsersGrow
<1>6. CASE /\ session' = [session EXCEPT ![a] = n("free"), ![b] = n("accepting")]
           /\ UNCHANGED tcp_participants
    <2>1. /\ session' \in [Connection -> SessionState]
          /\ session'[a] = n("free") /\ session'[b] = n("accepting")
          /\ \A c \in Connection \ {a, b} : session'[c] = session[c]
        BY <1>1, <1>4, <1>6
    <2>2. SessionInv(a)'
        BY <1>1, <1>2, <1>4, <1>6, <2>1 DEF SessionInv
    <2>3. SessionInv(b)'
        BY <1>1, <1>2, <1>4, <1>6, <2>1 DEF SessionInv
    <2>4. ASSUME NEW c \in Connection, c # a, c # b
          PROVE  SessionInv(c)'
        BY <1>1, <1>3, <1>6, <2>1, <2>4, OthersKept
    <2>5. \A c \in Connection : SessionInv(c)'
        BY <2>2, <2>3, <2>4
    <2> QED BY <1>1, <1>3, <1>6, <2>1, <2>5 DEF IInv, TypeOK, UsersGrow
<1> QED BY <1>5, <1>6 DEF handle_connection, n

LEMMA NextInv == IInv /\ [Next]_vars => IInv'
<1> SUFFICES ASSUME IInv, [Next]_vars PROVE IInv'
    OBVIOUS
<1>1. ASSUME NEW a \in Connection, Handlers(a)
      PROVE  IInv'
    <2>1. ASSUME initMode_quit_throws(a)
          PROVE  IInv'
        BY <2>1, ThrowInv DEF initMode_quit_throws
    <2> QED BY <1>1, <2>1, StartSessionInv, EndOnErrorInv, QuitInv, LoginInv,
               RegisterModeInv, OtherModeInv, RegistrationInv DEF Handlers
<1>2. ASSUME NEW a \in Connection, registration_throws(a) \/ handle_connection_throws(a)
      PROVE  IInv'
    BY <1>2, ThrowInv DEF registration_throws, handle_connection_throws
<1>3. ASSUME HandleSignal \/ Signal \/ Exited \/ UNCHANGED vars
      PROVE  IInv'
    <2>1. /\ UNCHANGED <<session, tcp_participants, m_users, registering, usernameAttempt>>
          /\ server' \in {"up", "down"} /\ signalled' \in BOOLEAN
        BY <1>3 DEF HandleSignal, ServerDown, Signal, Exited, vars, serverVars, IInv, TypeOK
    <2> QED BY <2>1, SessionsUnchangedInv
<1> QED BY <1>1, <1>2, <1>3, RegistrationLineInv, HandleConnectionInv, ReactorInv,
           ConnectsInv, PeerLeavesInv DEF Next

THEOREM InvariantHolds == Spec => []IInv
BY InitInv, NextInv, PTL DEF Spec

-----------------------------------------------------------------------------
(* What follows from it. *)

(* Every variable keeps its type: no operation count falls below zero, and  *)
(* the buffers hold tokens only.                                            *)
THEOREM TypeCorrect == Spec => []TypeOK
<1>1. IInv => TypeOK
    BY DEF IInv
<1> QED BY <1>1, InvariantHolds, PTL

(* ReturnScreen never dereferences end(), however often addresses are used  *)
(* again and whatever users earlier sessions left behind.                   *)
THEOREM ScreenIsSafe == Spec => []ReturnScreenSafe
<1>1. IInv => ReturnScreenSafe
    BY UserFound DEF ReturnScreenSafe
<1> QED BY <1>1, InvariantHolds, PTL

(* Two sessions never carry one username. *)
THEOREM UsernamesDistinct == Spec => []DistinctUsernames
<1>1. ASSUME IInv, NEW a \in Connection, NEW b \in Connection,
             session[a].username = session[b].username,
             session[a].username # NoName
      PROVE  a = b
    <2>1. Owns(m_users, a, session[a].username) /\ Owns(m_users, b, session[a].username)
        BY <1>1 DEF IInv, SessionInv
    <2> QED BY <1>1, <2>1 DEF IInv, UniqueNames, Owns
<1>2. IInv => DistinctUsernames
    BY <1>1 DEF DistinctUsernames
<1> QED BY <1>2, InvariantHolds, PTL

(* No session in the pool is ever left with nothing to wake it. *)
THEOREM PoolIsServed == Spec => []PoolServed
<1>1. IInv => PoolServed
    BY DEF IInv, TypeOK, SessionInv, PoolServed
<1> QED BY <1>1, InvariantHolds, PTL

(* A session out of the pool has lost its socket. *)
THEOREM DetachedDead == Spec => []DetachedIsDead
<1>1. IInv => DetachedIsDead
    BY DEF IInv, SessionInv, DetachedIsDead
<1> QED BY <1>1, InvariantHolds, PTL

-----------------------------------------------------------------------------
(* The life cycle of a connection: each step of the server is one of        *)
(* ConnLifecycle's, or moves nothing.                                       *)

LcStep == [Lifecycle!LifecycleNext]_(Lifecycle!lvars)

LEMMA PlaceType ==
    ASSUME TypeOK, NEW a \in Connection
    PROVE  /\ Place(a) \in {"free", "accepting", "serving", "closing"}
           /\ Place(a) = "free" <=> session[a].life = "free"
           /\ Place(a) = "accepting" <=> session[a].life \in {"accepting", "accepted", "failed"}
           /\ Place(a) = "serving" <=> session[a].life = "open" /\ a \in tcp_participants
           /\ Place(a) = "closing" <=> session[a].life = "open" /\ a \notin tcp_participants
<1>1. session[a].life \in {"free", "accepting", "accepted", "failed", "open"}
    BY DEF TypeOK, SessionState
<1> QED BY <1>1 DEF Place

(* Nothing moves. *)
LEMMA Stutters ==
    ASSUME server' = server, \A b \in Connection : Place(b)' = Place(b)
    PROVE  LcStep
BY Zenon DEF LcStep, Lifecycle!lvars

(* One place moves, while the server runs. *)
LEMMA MovesOne ==
    ASSUME NEW a \in Connection,
           server = "up", server' = "up",
           \A b \in Connection \ {a} : Place(b)' = Place(b),
           \/ Place(a)' = Place(a)
           \/ Place(a) = "serving" /\ Place(a)' \in {"closing", "free"}
           \/ Place(a) = "closing" /\ Place(a)' = "free"
    PROVE  LcStep
<1> DEFINE slot == [b \in Connection |-> Place(b)]
<1>1. CASE Place(a)' = Place(a)
    BY <1>1, Stutters
<1>2. slot' = [slot EXCEPT ![a] = Place(a)']
    OBVIOUS
<1>3. CASE Place(a) = "serving" /\ Place(a)' \in {"closing", "free"}
    <2>1. Lifecycle!Drop(a)
        BY <1>2, <1>3 DEF Lifecycle!Drop
    <2> QED BY <2>1 DEF LcStep, Lifecycle!LifecycleNext
<1>4. CASE Place(a) = "closing" /\ Place(a)' = "free"
    <2>1. Lifecycle!Free(a)
        BY <1>2, <1>4 DEF Lifecycle!Free
    <2> QED BY <2>1 DEF LcStep, Lifecycle!LifecycleNext
<1> QED BY <1>1, <1>3, <1>4

(* The server stops. *)
LEMMA Stops ==
    ASSUME server = "up", server' = "down",
           UNCHANGED <<session, tcp_participants>>
    PROVE  LcStep
<1>1. \A b \in Connection : Place(b)' = Place(b)
    BY DEF Place
<1>2. Lifecycle!Stop
    BY <1>1 DEF Lifecycle!Stop
<1> QED BY <1>2 DEF LcStep, Lifecycle!LifecycleNext

(* A session that the step leaves alone stays in its place. *)
LEMMA PlaceKept ==
    ASSUME NEW b, session'[b].life = session[b].life,
           b \in tcp_participants' <=> b \in tcp_participants
    PROVE  Place(b)' = Place(b)
BY DEF Place

(* A handler runs: it keeps its session open, or ends it. *)
LEMMA HandlerMoves ==
    ASSUME IInv, NEW a \in Connection, NEW s,
           server = "up", server' = server,
           session[a].life = "open", s.life = "open",
           tcp_participants' \ {a} = tcp_participants \ {a},
           a \in tcp_participants' => a \in tcp_participants,
           Return(a, s)
    PROVE  LcStep
<1>1. session \in [Connection -> SessionState] /\ TypeOK
    BY DEF IInv, TypeOK
<1>2. session'[a] = s \/ (session'[a] = NewSession("free") /\ a \notin tcp_participants')
    BY <1>1 DEF Return
<1>3. NewSession("free").life = "free"
    BY DEF NewSession
<1>4. ASSUME NEW b \in Connection \ {a}
      PROVE  Place(b)' = Place(b)
    <2>1. session'[b] = session[b]
        BY <1>1 DEF Return
    <2> QED BY <2>1, PlaceKept
<1>5. Place(a) \in {"serving", "closing"} /\ (Place(a) = "serving" <=> a \in tcp_participants)
    BY <1>1, PlaceType
<1>6. CASE session'[a] = s
    <2>1. /\ Place(a)' \in {"serving", "closing"}
          /\ Place(a)' = "serving" <=> a \in tcp_participants'
        BY <1>6 DEF Place
    <2> QED BY <1>4, <1>5, <2>1, MovesOne
<1>7. CASE session'[a] = NewSession("free")
    <2>1. Place(a)' = "free"
        BY <1>3, <1>7 DEF Place
    <2> QED BY <1>4, <1>5, <2>1, MovesOne
<1> QED BY <1>2, <1>6, <1>7

-----------------------------------------------------------------------------
(* How the operators on a session count its operations. *)

(* t is s with n operations more, and no registration() newly due. *)
Counts(s, t, n) == Ops(t) = Ops(s) + n /\ t.logins = s.logins
NoNewDue(s, t) == t.ops["registration"]["ok"] <= s.ops["registration"]["ok"]

LEMMA CountTypes ==
    ASSUME NEW s \in SessionState
    PROVE  /\ s.ops \in [Handler -> [Status -> Nat]]
           /\ Ops(s) \in Nat /\ s.logins \in Nat
           /\ \A h \in Handler : OpsOf(s, h) \in Nat
           /\ \A h \in Handler, st \in Status : s.ops[h][st] \in Nat
<1>1. s.ops \in [Handler -> [Status -> Nat]] /\ s.logins \in Nat
    BY DEF SessionState
<1>2. \A h \in Handler, st \in Status : s.ops[h][st] \in Nat
    BY <1>1
<1>3. \A h \in Handler : OpsOf(s, h) \in Nat
    BY <1>2 DEF OpsOf, Status
<1>4. Ops(s) \in Nat
    BY <1>3 DEF Ops, Handler
<1> QED BY <1>1, <1>2, <1>3, <1>4

(* One count of one handler changes by n. *)
LEMMA CountOne ==
    ASSUME NEW s \in SessionState, NEW t, NEW h \in Handler, NEW st \in Status, NEW n \in Int,
           t.ops = [s.ops EXCEPT ![h][st] = @ + n], t.logins = s.logins
    PROVE  Counts(s, t, n)
<1>1. /\ s.ops \in [Handler -> [Status -> Nat]]
      /\ \A g \in Handler : OpsOf(s, g) \in Nat
      /\ \A g \in Handler, u \in Status : s.ops[g][u] \in Nat
    BY CountTypes
<1>2. \A g \in Handler, u \in Status :
         t.ops[g][u] = IF g = h /\ u = st THEN s.ops[g][u] + n ELSE s.ops[g][u]
    BY <1>1
<1>3. OpsOf(t, h) = OpsOf(s, h) + n
    <2>1. \A u \in Status : t.ops[h][u] = IF u = st THEN s.ops[h][u] + n ELSE s.ops[h][u]
        BY <1>2
    <2>2. \A u \in Status : s.ops[h][u] \in Nat
        BY <1>1
    <2> QED BY <2>1, <2>2 DEF OpsOf, Status
<1>4. ASSUME NEW g \in Handler, g # h
      PROVE  OpsOf(t, g) = OpsOf(s, g)
    BY <1>2, <1>4 DEF OpsOf, Status
<1>5. Ops(t) = Ops(s) + n
    BY <1>1, <1>3, <1>4 DEF Ops, Handler
<1> QED BY <1>5 DEF Counts

LEMMA StartCount ==
    ASSUME NEW s \in SessionState, NEW h \in Handler, NEW st \in Status
    PROVE  /\ Counts(s, Start(s, h, st), 1)
           /\ <<h, st>> # <<"registration", "ok">> => NoNewDue(s, Start(s, h, st))
<1>1. /\ Start(s, h, st).ops = [s.ops EXCEPT ![h][st] = @ + 1]
      /\ Start(s, h, st).logins = s.logins
    BY DEF Start, SessionState
<1>2. Counts(s, Start(s, h, st), 1)
    BY <1>1, CountOne
<1>3. ASSUME <<h, st>> # <<"registration", "ok">>
      PROVE  Start(s, h, st).ops["registration"]["ok"] = s.ops["registration"]["ok"]
    BY <1>1, <1>3, CountTypes DEF Handler, Status
<1>4. s.ops["registration"]["ok"] \in Nat
    BY CountTypes DEF Handler, Status
<1> QED BY <1>2, <1>3, <1>4 DEF NoNewDue

LEMMA FinishCount ==
    ASSUME NEW s \in SessionState, NEW h \in Handler, NEW st \in Status
    PROVE  Counts(s, Finish(s, h, st), -1) /\ NoNewDue(s, Finish(s, h, st))
<1>1. /\ s.ops \in [Handler -> [Status -> Nat]]
      /\ \A g \in Handler, u \in Status : s.ops[g][u] \in Nat
    BY CountTypes
<1>2. s.ops[h][st] - 1 = s.ops[h][st] + (-1)
    BY <1>1
<1>3. /\ Finish(s, h, st).ops = [s.ops EXCEPT ![h][st] = @ - 1]
      /\ Finish(s, h, st).logins = s.logins
    BY DEF Finish, SessionState
<1>4. Finish(s, h, st).ops = [s.ops EXCEPT ![h][st] = @ + (-1)]
    BY <1>2, <1>3
<1>5. Counts(s, Finish(s, h, st), -1)
    BY <1>3, <1>4, CountOne
<1>6. Finish(s, h, st).ops["registration"]["ok"] <= s.ops["registration"]["ok"]
    <2>1. "registration" \in Handler /\ "ok" \in Status
        BY DEF Handler, Status
    <2>2. CASE h = "registration" /\ st = "ok"
        BY <1>1, <1>3, <2>1, <2>2
    <2>3. CASE ~(h = "registration" /\ st = "ok")
        <3>1. Finish(s, h, st).ops["registration"]["ok"] = s.ops["registration"]["ok"]
            BY <1>1, <1>3, <2>1, <2>3
        <3> QED BY <1>1, <2>1, <3>1
    <2> QED BY <2>2, <2>3
<1> QED BY <1>5, <1>6 DEF NoNewDue

LEMMA CancelCount ==
    ASSUME NEW s \in SessionState
    PROVE  Counts(s, cancel(s), 0) /\ NoNewDue(s, cancel(s))
<1>1. \A h \in Handler, st \in Status : s.ops[h][st] \in Nat
    BY CountTypes
<1>2. cancel(s).logins = s.logins
    BY DEF cancel, SessionState
<1>3. ASSUME NEW h \in Handler
      PROVE  /\ cancel(s).ops[h]["wait"] = 0
             /\ cancel(s).ops[h]["ok"] = s.ops[h]["ok"]
             /\ cancel(s).ops[h]["error"] = s.ops[h]["error"] + s.ops[h]["wait"]
    BY DEF cancel, SessionState, Status
<1>4. ASSUME NEW h \in Handler
      PROVE  OpsOf(cancel(s), h) = OpsOf(s, h) /\ OpsOf(s, h) \in Nat
    <2>1. s.ops[h]["wait"] \in Nat /\ s.ops[h]["ok"] \in Nat /\ s.ops[h]["error"] \in Nat
        BY <1>1 DEF Status
    <2> QED BY <1>3, <2>1 DEF OpsOf
<1>5. Ops(cancel(s)) = Ops(s) + 0
    BY <1>4 DEF Ops, Handler
<1>6. cancel(s).ops["registration"]["ok"] <= s.ops["registration"]["ok"]
    BY <1>1, <1>3 DEF Handler, Status
<1> QED BY <1>2, <1>5, <1>6 DEF Counts, NoNewDue

LEMMA CountsAdd ==
    ASSUME NEW s \in SessionState, NEW t \in SessionState, NEW u \in SessionState,
           NEW m \in Int, NEW n \in Int,
           Counts(s, t, m), NoNewDue(s, t), Counts(t, u, n), NoNewDue(t, u)
    PROVE  Counts(s, u, m + n) /\ NoNewDue(s, u)
<1>1. Ops(s) \in Nat /\ Ops(t) = Ops(s) + m /\ Ops(u) = Ops(t) + n
    BY CountTypes DEF Counts
<1>2. Ops(u) = Ops(s) + (m + n)
    BY <1>1
<1>3. /\ s.ops["registration"]["ok"] \in Nat /\ t.ops["registration"]["ok"] \in Nat
      /\ u.ops["registration"]["ok"] \in Nat
    BY CountTypes DEF Handler, Status
<1>4. NoNewDue(s, u)
    BY <1>3 DEF NoNewDue
<1>5. u.logins = s.logins
    BY DEF Counts
<1> QED BY <1>2, <1>4, <1>5 DEF Counts

(* A session with the same operations and logins. *)
LEMMA CountsSame ==
    ASSUME NEW s \in SessionState, NEW t, t.ops = s.ops, t.logins = s.logins
    PROVE  Counts(s, t, 0) /\ NoNewDue(s, t)
<1>1. Ops(t) = Ops(s) /\ Ops(s) \in Nat /\ s.ops["registration"]["ok"] \in Nat
    BY CountTypes DEF Ops, OpsOf, Handler, Status
<1> QED BY <1>1 DEF Counts, NoNewDue

(* Every write in initMode and in registration() adds one operation, and    *)
(* none of them makes registration() due: the text it follows is not blank. *)
LEMMA AsyncCount ==
    ASSUME NEW s \in SessionState
    PROVE  /\ Counts(s, async_read_until(s), 1) /\ NoNewDue(s, async_read_until(s))
           /\ \A text : /\ Counts(s, async_write(s, "startSession", text), 1)
                         /\ NoNewDue(s, async_write(s, "startSession", text))
           /\ \A text : text # Blank =>
                 /\ Counts(s, async_write(s, "registration", text), 1)
                 /\ NoNewDue(s, async_write(s, "registration", text))
<1>1. /\ {"startSession", "initMode", "registration"} \subseteq Handler
      /\ {"ok", "wait"} \subseteq Status
    BY DEF Handler, Status
<1>2. Counts(s, async_read_until(s), 1) /\ NoNewDue(s, async_read_until(s))
    BY <1>1, StartCount DEF async_read_until
<1>3. ASSUME NEW text
      PROVE  /\ Counts(s, async_write(s, "startSession", text), 1)
             /\ NoNewDue(s, async_write(s, "startSession", text))
    BY <1>1, StartCount DEF async_write
<1>4. ASSUME NEW text, text # Blank
      PROVE  /\ Counts(s, async_write(s, "registration", text), 1)
             /\ NoNewDue(s, async_write(s, "registration", text))
    BY <1>1, <1>4, StartCount DEF async_write
<1> QED BY <1>2, <1>3, <1>4

LEMMA RequestedCount ==
    ASSUME NEW a \in Connection, session[a] \in SessionState,
           session[a].ops["initMode"]["ok"] > 0
    PROVE  Counts(session[a], Requested(a), -1) /\ NoNewDue(session[a], Requested(a))
<1> DEFINE f == Finish(session[a], "initMode", "ok")
<1>1. f \in SessionState /\ Counts(session[a], f, -1) /\ NoNewDue(session[a], f)
    BY FinishType, FinishCount DEF Handler, Status
<1>2. Requested(a) = Extract(f)
    BY DEF Requested
<1> HIDE DEF f
<1>3. Extract(f).ops = f.ops /\ Extract(f).logins = f.logins
    BY <1>1 DEF Extract, SessionState
<1>4. Extract(f) \in SessionState /\ Counts(f, Extract(f), 0) /\ NoNewDue(f, Extract(f))
    BY <1>1, <1>3, ExtractType, CountsSame
<1>5. Counts(session[a], Extract(f), -1 + 0) /\ NoNewDue(session[a], Extract(f))
    BY <1>1, <1>4, CountsAdd
<1> QED BY <1>2, <1>5

LEMMA WriteScreenCount ==
    ASSUME IInv, NEW a \in Connection, NEW s \in SessionState,
           s.username = session[a].username
    PROVE  Counts(s, WriteScreen(a, s), 1) /\ NoNewDue(s, WriteScreen(a, s))
<1> DEFINE shown == IF HasUser(s.username) THEN ReturnScreen(a) ELSE s.screen
           t == [s EXCEPT !.screen = shown]
<1>1. shown \in Screen
    BY ScreenShown
<1>2. WriteScreen(a, s) = async_write(t, "startSession", shown)
    BY DEF WriteScreen
<1> HIDE DEF shown
<1>3. t \in SessionState /\ t.ops = s.ops /\ t.logins = s.logins
    BY <1>1 DEF SessionState
<1> HIDE DEF t
<1>4. Counts(s, t, 0) /\ NoNewDue(s, t)
    BY <1>3, CountsSame
<1>5. async_write(t, "startSession", shown) \in SessionState
    BY <1>3, AsyncType DEF Handler
<1>6. /\ Counts(t, async_write(t, "startSession", shown), 1)
      /\ NoNewDue(t, async_write(t, "startSession", shown))
    BY <1>3, AsyncCount
<1>7. /\ Counts(s, async_write(t, "startSession", shown), 0 + 1)
      /\ NoNewDue(s, async_write(t, "startSession", shown))
    BY <1>3, <1>4, <1>5, <1>6, CountsAdd
<1> QED BY <1>2, <1>7

-----------------------------------------------------------------------------
(* The invariant: a session has one chain, and one more for each "login" it *)
(* obeyed; one that was shut down with a single chain has no registration() *)
(* due, so that the blocking reads never meet a socket that "quit" shut.    *)

Held(a) == IF registering = a THEN 1 ELSE 0

Fits(s, n) ==
    /\ Ops(s) + n <= 1 + s.logins
    /\ s.shut /\ s.logins = 0 => s.ops["registration"]["ok"] = 0 /\ n = 0

ChainInv == \A a \in Connection : Fits(session[a], Held(a))

CInv == IInv /\ ChainInv

LEMMA NewSessionFits ==
    ASSUME NEW life
    PROVE  Fits(NewSession(life), 0)
<1>1. /\ Ops(NewSession(life)) = 0
      /\ NewSession(life).logins = 0 /\ ~NewSession(life).shut
    BY DEF Ops, OpsOf, NewSession, NoOps, Handler, Status
<1> QED BY <1>1 DEF Fits

(* A session that has no operations. *)
LEMMA IdleCount ==
    ASSUME NEW s \in SessionState, ~Pending(s)
    PROVE  Ops(s) = 0 /\ s.ops["registration"]["ok"] = 0
<1>1. \A h \in Handler, st \in Status : s.ops[h][st] = 0
    BY CountTypes DEF Pending
<1> QED BY <1>1 DEF Ops, OpsOf, Handler, Status

(* A step that touches one session, and not the thread. *)
LEMMA OneTouched ==
    ASSUME CInv, NEW a \in Connection, NEW t,
           session' = [session EXCEPT ![a] = t],
           registering' = registering,
           Fits(t, Held(a))
    PROVE  ChainInv'
<1>1. session \in [Connection -> SessionState]
    BY DEF CInv, IInv, TypeOK
<1>2. ASSUME NEW b \in Connection, b # a
      PROVE  Fits(session'[b], Held(b)')
    <2>1. session'[b] = session[b] /\ Held(b)' = Held(b)
        BY <1>1, <1>2 DEF Held
    <2> QED BY <2>1 DEF CInv, ChainInv
<1>3. session'[a] = t /\ Held(a)' = Held(a)
    BY <1>1 DEF Held
<1> QED BY <1>2, <1>3 DEF ChainInv

(* What a handler that runs to its end does: s is the session it leaves. *)
Ran(a, s) ==
    /\ server = "up" /\ server' = server
    /\ session[a].life = "open" /\ s.life = "open"
    /\ tcp_participants' \ {a} = tcp_participants \ {a}
    /\ a \in tcp_participants' => a \in tcp_participants
    /\ \A b \in Connection \ {a} : registering # b /\ registering' # b
    /\ Return(a, s)
    /\ Fits(s, Held(a)')

LEMMA RanKeeps ==
    ASSUME CInv, NEW a \in Connection, NEW s \in SessionState, Ran(a, s)
    PROVE  ChainInv'
<1>1. session \in [Connection -> SessionState]
    BY DEF CInv, IInv, TypeOK
<1>2. ASSUME NEW b \in Connection, b # a
      PROVE  Fits(session'[b], Held(b)')
    <2>1. session'[b] = session[b]
        BY <1>1, <1>2 DEF Ran, Return
    <2>2. Held(b)' = Held(b)
        BY <1>2 DEF Ran, Held
    <2> QED BY <2>1, <2>2 DEF CInv, ChainInv
<1>3. Fits(session'[a], Held(a)')
    <2>1. CASE session'[a] = s
        BY <2>1 DEF Ran
    <2>2. CASE session'[a] = NewSession("free") /\ registering' # a
        BY <2>2, NewSessionFits DEF Held
    <2> QED BY <1>1, <2>1, <2>2 DEF Ran, Return
<1> QED BY <1>2, <1>3 DEF ChainInv

LEMMA CInit == Init => CInv
<1> SUFFICES ASSUME Init PROVE CInv
    OBVIOUS
<1>1. PICK c \in Connection : session =
         [b \in Connection |-> NewSession(IF c = b THEN "accepting" ELSE "free")]
    BY DEF Init
<1>2. \A b \in Connection : Held(b) = 0
    BY ServerAssumption DEF Init, Held
<1>3. ChainInv
    BY <1>1, <1>2, NewSessionFits DEF ChainInv
<1> QED BY <1>3, InitInv DEF CInv

-----------------------------------------------------------------------------
(* Every handler fits. *)

(* A handler that is called: its operation is one of its session's chains. *)
LEMMA CalledFits ==
    ASSUME CInv, NEW a \in Connection, NEW h \in Handler, NEW st \in Status,
           Calls(a, h, st)
    PROVE  /\ Ops(session[a]) <= 1 + session[a].logins
           /\ session[a].shut /\ session[a].logins = 0 =>
                  session[a].ops["registration"]["ok"] = 0
           /\ server = "up" /\ registering = NoSession
           /\ \A b \in Connection : registering # b
           /\ IInv
<1>1. /\ registering = NoSession /\ server = "up" /\ IInv
      /\ \A b \in Connection : registering # b
    BY ServerAssumption DEF CInv, Calls, IoThreadFree
<1>2. Fits(session[a], 0)
    BY <1>1 DEF CInv, ChainInv, Held
<1>3. Ops(session[a]) \in Nat /\ session[a].logins \in Nat
    BY <1>1, CountTypes DEF IInv, TypeOK
<1> QED BY <1>1, <1>2, <1>3 DEF Fits

(* A handler that ends with as many operations as it found, its own         *)
(* included, or fewer.                                                      *)
LEMMA CountFits ==
    ASSUME CInv, NEW a \in Connection, NEW h \in Handler, NEW st \in Status,
           Calls(a, h, st),
           NEW s \in SessionState, NEW n \in {-1, 0},
           Counts(session[a], s, n), NoNewDue(session[a], s), s.shut = session[a].shut
    PROVE  Fits(s, 0)
<1>1. session[a] \in SessionState
    BY DEF CInv, IInv, TypeOK
<1>2. /\ Ops(session[a]) \in Nat /\ session[a].logins \in Nat
      /\ s.ops["registration"]["ok"] \in Nat
    BY <1>1, CountTypes DEF Handler, Status
<1>3. Ops(s) + 0 <= 1 + s.logins
    <2>1. Ops(s) = Ops(session[a]) + n /\ s.logins = session[a].logins
        BY DEF Counts
    <2>2. Ops(session[a]) <= 1 + session[a].logins
        BY CalledFits
    <2> QED BY <1>2, <2>1, <2>2
<1>4. ASSUME s.shut, s.logins = 0
      PROVE  s.ops["registration"]["ok"] = 0
    <2>1. session[a].ops["registration"]["ok"] = 0
        BY <1>4, CalledFits DEF Counts
    <2> QED BY <1>2, <2>1 DEF NoNewDue
<1> QED BY <1>3, <1>4 DEF Fits

(* The handler has the session to itself if nobody asked to log in. *)
LEMMA OnlyOne ==
    ASSUME CInv, NEW a \in Connection, Calls(a, "initMode", "ok"),
           session[a].logins = 0
    PROVE  session[a].ops["registration"]["ok"] = 0
<1>1. "initMode" \in Handler /\ "ok" \in Status
    BY DEF Handler, Status
<1>2. session[a] \in SessionState
    BY DEF CInv, IInv, TypeOK
<1>3. Ops(session[a]) <= 1
    <2>1. Ops(session[a]) <= 1 + session[a].logins /\ Ops(session[a]) \in Nat
        BY <1>1, <1>2, CalledFits, CountTypes
    <2> QED BY <2>1
<1>4. \A h \in Handler, st \in Status : session[a].ops[h][st] \in Nat
    BY <1>2, CountTypes
<1>5. OpsOf(session[a], "initMode") >= 1 /\ OpsOf(session[a], "initMode") \in Nat
    BY <1>1, <1>4 DEF OpsOf, Status, Calls
<1>6. OpsOf(session[a], "startSession") \in Nat
    BY <1>2, CountTypes DEF Handler
<1>7. OpsOf(session[a], "registration") \in Nat
    BY <1>2, CountTypes DEF Handler
<1>8. OpsOf(session[a], "registration") = 0
    BY <1>3, <1>5, <1>6, <1>7 DEF Ops
<1>9. /\ session[a].ops["registration"]["wait"] \in Nat
      /\ session[a].ops["registration"]["ok"] \in Nat
      /\ session[a].ops["registration"]["error"] \in Nat
    BY <1>4 DEF Handler, Status
<1>10. OpsOf(session[a], "registration") =
          session[a].ops["registration"]["wait"] + session[a].ops["registration"]["ok"]
          + session[a].ops["registration"]["error"]
    BY DEF OpsOf
<1> QED BY <1>8, <1>9, <1>10

(* The handlers that keep the pool as it is. *)
LEMMA ContinueRan ==
    ASSUME CInv, NEW a \in Connection, NEW h \in Handler, NEW st \in Status,
           Calls(a, h, st),
           NEW s \in SessionState,
           s.life = session[a].life, Fits(s, 0),
           UNCHANGED <<tcp_participants, m_users, serverVars>>,
           Return(a, s)
    PROVE  Ran(a, s)
<1>1. UNCHANGED <<tcp_participants, registering, server>>
    BY DEF serverVars
<1>2. /\ server = "up" /\ session[a].life = "open"
      /\ \A b \in Connection : registering # b
    BY CalledFits, Called
<1> QED BY <1>1, <1>2 DEF Ran, Held

(* The handlers that leave it. *)
LEMMA LeaveRan ==
    ASSUME CInv, NEW a \in Connection, NEW h \in Handler, NEW st \in Status,
           Calls(a, h, st),
           NEW s \in SessionState,
           s.life = session[a].life, Fits(s, 0),
           leave(a), UNCHANGED <<m_users, serverVars>>,
           Return(a, s)
    PROVE  Ran(a, s)
<1>1. UNCHANGED <<registering, server>> /\ tcp_participants' = tcp_participants \ {a}
    BY DEF serverVars, leave
<1>2. /\ server = "up" /\ session[a].life = "open"
      /\ \A b \in Connection : registering # b
    BY CalledFits, Called
<1> QED BY <1>1, <1>2 DEF Ran, Held

LEMMA StartSessionRan ==
    ASSUME CInv, NEW a \in Connection, startSession(a)
    PROVE  \E s \in SessionState : Ran(a, s)
<1> DEFINE f == Finish(session[a], "startSession", "ok")
           s == async_read_until(f)
<1>1. /\ "startSession" \in Handler /\ "ok" \in Status
      /\ Calls(a, "startSession", "ok") /\ Return(a, s)
      /\ UNCHANGED <<tcp_participants, m_users, serverVars>>
      /\ IInv /\ session[a] \in SessionState
      /\ session[a].ops["startSession"]["ok"] > 0
    BY DEF startSession, Handler, Status, CInv, IInv, TypeOK, Calls
<1>2. /\ f \in SessionState /\ SameSession(session[a], f)
      /\ Counts(session[a], f, -1) /\ NoNewDue(session[a], f)
    BY <1>1, FinishType, FinishFrame, FinishCount
<1> HIDE DEF f
<1>3. /\ s \in SessionState /\ SameSession(f, s)
      /\ Counts(f, s, 1) /\ NoNewDue(f, s)
    BY <1>2, AsyncType, AsyncFrame, AsyncCount
<1> HIDE DEF s
<1>4. Counts(session[a], s, -1 + 1) /\ NoNewDue(session[a], s)
    BY <1>1, <1>2, <1>3, CountsAdd
<1>5. s.life = session[a].life /\ s.shut = session[a].shut
    BY <1>2, <1>3 DEF SameSession
<1>6. -1 + 1 = 0
    OBVIOUS
<1>7. Fits(s, 0)
    BY <1>1, <1>3, <1>4, <1>5, <1>6, CountFits
<1> QED BY <1>1, <1>3, <1>5, <1>7, ContinueRan

LEMMA EndOnErrorRan ==
    ASSUME CInv, NEW a \in Connection, NEW h \in Handler, EndOnError(a, h)
    PROVE  \E s \in SessionState : Ran(a, s)
<1> DEFINE f == Finish(session[a], h, "error")
           s == cancel(f)
<1>1. /\ "error" \in Status
      /\ Calls(a, h, "error") /\ leave(a) /\ Return(a, s)
      /\ UNCHANGED <<m_users, serverVars>>
      /\ session[a] \in SessionState /\ session[a].ops[h]["error"] > 0
    BY DEF EndOnError, end_session, Status, CInv, IInv, TypeOK, Calls
<1>2. /\ f \in SessionState /\ SameSession(session[a], f)
      /\ Counts(session[a], f, -1) /\ NoNewDue(session[a], f)
    BY <1>1, FinishType, FinishFrame, FinishCount
<1> HIDE DEF f
<1>3. /\ s \in SessionState /\ SameSession(f, s)
      /\ Counts(f, s, 0) /\ NoNewDue(f, s)
    BY <1>2, CancelType, CancelFrame, CancelCount
<1> HIDE DEF s
<1>4. Counts(session[a], s, -1 + 0) /\ NoNewDue(session[a], s)
    BY <1>1, <1>2, <1>3, CountsAdd
<1>5. s.life = session[a].life /\ s.shut = session[a].shut
    BY <1>2, <1>3 DEF SameSession
<1>6. -1 + 0 = -1
    OBVIOUS
<1>7. Fits(s, 0)
    BY <1>1, <1>3, <1>4, <1>5, <1>6, CountFits
<1> QED BY <1>1, <1>3, <1>5, <1>7, LeaveRan

LEMMA RegisterModeRan ==
    ASSUME CInv, NEW a \in Connection, initMode_register(a)
    PROVE  \E s \in SessionState : Ran(a, s)
<1> DEFINE r == Requested(a)
           s == async_write(r, "registration", "Username: ")
<1>1. /\ {"initMode", "registration"} \subseteq Handler /\ "ok" \in Status
      /\ Calls(a, "initMode", "ok") /\ Return(a, s)
      /\ UNCHANGED <<tcp_participants, m_users, serverVars>>
      /\ session[a] \in SessionState /\ session[a].ops["initMode"]["ok"] > 0
    BY DEF initMode_register, initMode_is, Handler, Status, CInv, IInv, TypeOK, Calls
<1>2. /\ r \in SessionState /\ SameSession(session[a], r)
      /\ Counts(session[a], r, -1) /\ NoNewDue(session[a], r)
    BY <1>1, RequestedOK, RequestedCount
<1> HIDE DEF r
<1>3. "Username: " # Blank
    BY DEF Blank
<1>4. /\ s \in SessionState /\ SameSession(r, s)
      /\ Counts(r, s, 1) /\ NoNewDue(r, s)
    BY <1>1, <1>2, <1>3, AsyncType, AsyncFrame, AsyncCount
<1> HIDE DEF s
<1>5. Counts(session[a], s, -1 + 1) /\ NoNewDue(session[a], s)
    BY <1>1, <1>2, <1>4, CountsAdd
<1>6. s.life = session[a].life /\ s.shut = session[a].shut
    BY <1>2, <1>4 DEF SameSession
<1>7. -1 + 1 = 0
    OBVIOUS
<1>8. Fits(s, 0)
    BY <1>1, <1>4, <1>5, <1>6, <1>7, CountFits
<1> QED BY <1>1, <1>4, <1>6, <1>8, ContinueRan

LEMMA OtherModeRan ==
    ASSUME CInv, NEW a \in Connection, initMode_other(a)
    PROVE  \E s \in SessionState : Ran(a, s)
<1> DEFINE r == Requested(a)
           s == WriteScreen(a, r)
<1>1. /\ "initMode" \in Handler /\ "ok" \in Status
      /\ Calls(a, "initMode", "ok") /\ Return(a, s)
      /\ UNCHANGED <<tcp_participants, m_users, serverVars>>
      /\ session[a] \in SessionState /\ session[a].ops["initMode"]["ok"] > 0
    BY DEF initMode_other, initMode_is, Handler, Status, CInv, IInv, TypeOK, Calls
<1>2. /\ r \in SessionState /\ SameSession(session[a], r)
      /\ Counts(session[a], r, -1) /\ NoNewDue(session[a], r)
    BY <1>1, RequestedOK, RequestedCount
<1> HIDE DEF r
<1>3. IInv /\ r.username = session[a].username
    BY <1>2 DEF SameSession, CInv
<1>4. /\ s \in SessionState /\ SameSession(r, s)
      /\ Counts(r, s, 1) /\ NoNewDue(r, s)
    BY <1>2, <1>3, WriteScreenOK, WriteScreenCount
<1> HIDE DEF s
<1>5. Counts(session[a], s, -1 + 1) /\ NoNewDue(session[a], s)
    BY <1>1, <1>2, <1>4, CountsAdd
<1>6. s.life = session[a].life /\ s.shut = session[a].shut
    BY <1>2, <1>4 DEF SameSession
<1>7. -1 + 1 = 0
    OBVIOUS
<1>8. Fits(s, 0)
    BY <1>1, <1>4, <1>5, <1>6, <1>7, CountFits
<1> QED BY <1>1, <1>4, <1>6, <1>8, ContinueRan

(* "quit" shuts the socket: a session with one chain has no registration()  *)
(* due then, for this handler was its chain.                                *)
LEMMA QuitRan ==
    ASSUME CInv, NEW a \in Connection, initMode_quit(a)
    PROVE  \E s \in SessionState : Ran(a, s)
<1> DEFINE r == Requested(a)
           d == [r EXCEPT !.shut = TRUE]
           c == cancel(d)
           s == WriteScreen(a, c)
<1>1. /\ "initMode" \in Handler /\ "ok" \in Status
      /\ Calls(a, "initMode", "ok") /\ leave(a) /\ Return(a, s)
      /\ UNCHANGED <<m_users, serverVars>>
      /\ session[a] \in SessionState /\ session[a].ops["initMode"]["ok"] > 0
    BY DEF initMode_quit, initMode_is, Handler, Status, CInv, IInv, TypeOK, Calls
<1>2. /\ r \in SessionState /\ SameSession(session[a], r)
      /\ Counts(session[a], r, -1) /\ NoNewDue(session[a], r)
    BY <1>1, RequestedOK, RequestedCount
<1> HIDE DEF r
<1>3. /\ d \in SessionState /\ d.ops = r.ops /\ d.logins = r.logins
      /\ d.life = r.life /\ d.username = r.username
    BY <1>2 DEF SessionState
<1> HIDE DEF d
<1>4. Counts(r, d, 0) /\ NoNewDue(r, d)
    BY <1>2, <1>3, CountsSame
<1>5. Counts(session[a], d, -1 + 0) /\ NoNewDue(session[a], d)
    BY <1>1, <1>2, <1>3, <1>4, CountsAdd
<1>6. /\ c \in SessionState /\ SameSession(d, c)
      /\ Counts(d, c, 0) /\ NoNewDue(d, c)
    BY <1>3, CancelType, CancelFrame, CancelCount
<1> HIDE DEF c
<1>7. Counts(session[a], c, -1 + 0 + 0) /\ NoNewDue(session[a], c)
    BY <1>1, <1>3, <1>5, <1>6, CountsAdd
<1>8. IInv /\ c.username = session[a].username
    BY <1>2, <1>3, <1>6 DEF SameSession, CInv
<1>9. /\ s \in SessionState /\ SameSession(c, s)
      /\ Counts(c, s, 1) /\ NoNewDue(c, s)
    BY <1>6, <1>8, WriteScreenOK, WriteScreenCount
<1> HIDE DEF s
<1>10. Counts(session[a], s, -1 + 0 + 0 + 1) /\ NoNewDue(session[a], s)
    BY <1>1, <1>6, <1>7, <1>9, CountsAdd
<1>11. s.life = session[a].life
    BY <1>2, <1>3, <1>6, <1>9 DEF SameSession
<1>12. Fits(s, 0)
    <2>1. /\ Ops(session[a]) \in Nat /\ session[a].logins \in Nat
          /\ s.ops["registration"]["ok"] \in Nat
        BY <1>1, <1>9, CountTypes DEF Handler, Status
    <2>2. Ops(session[a]) <= 1 + session[a].logins
        BY <1>1, CalledFits
    <2>3. Ops(s) = Ops(session[a]) + (-1 + 0 + 0 + 1) /\ s.logins = session[a].logins
        BY <1>10 DEF Counts
    <2>4. Ops(s) + 0 <= 1 + s.logins
        BY <2>1, <2>2, <2>3
    <2>5. ASSUME s.logins = 0
          PROVE  s.ops["registration"]["ok"] = 0
        <3>1. session[a].ops["registration"]["ok"] = 0
            BY <1>1, <2>3, <2>5, OnlyOne
        <3> QED BY <1>10, <2>1, <3>1 DEF NoNewDue
    <2> QED BY <2>4, <2>5 DEF Fits
<1> QED BY <1>1, <1>9, <1>11, <1>12, LeaveRan

(* "login" adds a chain, and is the only mode that does. *)
LEMMA LoginRan ==
    ASSUME CInv, NEW a \in Connection, initMode_login(a)
    PROVE  \E s \in SessionState : Ran(a, s)
<1> DEFINE r == Requested(a)
           l == [r EXCEPT !.logins = @ + 1]
           w == async_write(l, "startSession", "login_MSG")
           s == WriteScreen(a, w)
<1>1. /\ {"initMode", "startSession"} \subseteq Handler /\ "ok" \in Status
      /\ Calls(a, "initMode", "ok") /\ Return(a, s)
      /\ UNCHANGED <<tcp_participants, m_users, serverVars>>
      /\ session[a] \in SessionState /\ session[a].ops["initMode"]["ok"] > 0
    BY DEF initMode_login, initMode_is, Handler, Status, CInv, IInv, TypeOK, Calls
<1>2. /\ r \in SessionState /\ SameSession(session[a], r)
      /\ Counts(session[a], r, -1)
    BY <1>1, RequestedOK, RequestedCount
<1> HIDE DEF r
<1>3. /\ l \in SessionState /\ l.logins = r.logins + 1 /\ l.ops = r.ops
      /\ l.life = r.life /\ l.username = r.username
    <2>1. r.logins + 1 \in Nat
        BY <1>2 DEF SessionState
    <2>2. l \in SessionState
        BY <1>2, <2>1 DEF SessionState
    <2> QED BY <1>2, <2>2 DEF SessionState
<1>4. Ops(l) = Ops(r)
    BY <1>3 DEF Ops, OpsOf
<1> HIDE DEF l
<1>5. w \in SessionState /\ SameSession(l, w) /\ Counts(l, w, 1)
    BY <1>1, <1>3, AsyncType, AsyncFrame, AsyncCount
<1> HIDE DEF w
<1>6. IInv /\ w.username = session[a].username
    BY <1>2, <1>3, <1>5 DEF SameSession, CInv
<1>7. s \in SessionState /\ SameSession(w, s) /\ Counts(w, s, 1)
    BY <1>5, <1>6, WriteScreenOK, WriteScreenCount
<1> HIDE DEF s
<1>8. s.life = session[a].life
    BY <1>2, <1>3, <1>5, <1>7 DEF SameSession
<1>9. Fits(s, 0)
    <2>1. Ops(session[a]) \in Nat /\ session[a].logins \in Nat
        BY <1>1, CountTypes
    <2>2. Ops(session[a]) <= 1 + session[a].logins
        BY <1>1, CalledFits
    <2>3. /\ Ops(s) = Ops(w) + 1 /\ Ops(w) = Ops(l) + 1 /\ Ops(r) = Ops(session[a]) + (-1)
          /\ s.logins = w.logins /\ w.logins = l.logins /\ r.logins = session[a].logins
        BY <1>2, <1>5, <1>7 DEF Counts
    <2>4. Ops(s) + 0 <= 1 + s.logins /\ s.logins # 0
        BY <1>3, <1>4, <2>1, <2>2, <2>3
    <2> QED BY <2>4 DEF Fits
<1> QED BY <1>1, <1>7, <1>8, <1>9, ContinueRan

(* registration() takes the thread in place of its operation. *)
LEMMA RegistrationRan ==
    ASSUME CInv, NEW a \in Connection, registration(a)
    PROVE  \E s \in SessionState : Ran(a, s)
<1> DEFINE s == Finish(session[a], "registration", "ok")
<1>1. /\ "registration" \in Handler /\ "ok" \in Status
      /\ Calls(a, "registration", "ok") /\ Return(a, s)
      /\ registering' = a /\ UNCHANGED <<tcp_participants, server>>
      /\ IInv /\ session[a] \in SessionState
      /\ session[a].ops["registration"]["ok"] > 0
    BY DEF registration, Handler, Status, CInv, IInv, TypeOK, Calls
<1>2. /\ s \in SessionState /\ SameSession(session[a], s)
      /\ Counts(session[a], s, -1)
    BY <1>1, FinishType, FinishFrame, FinishCount
<1> HIDE DEF s
<1>3. /\ Ops(session[a]) <= 1 + session[a].logins
      /\ session[a].shut /\ session[a].logins = 0 =>
             session[a].ops["registration"]["ok"] = 0
      /\ server = "up" /\ session[a].life = "open"
      /\ \A b \in Connection : registering # b
    BY <1>1, Called, CalledFits
<1>4. /\ Ops(session[a]) \in Nat /\ session[a].logins \in Nat
      /\ session[a].ops["registration"]["ok"] \in Nat
    BY <1>1, CountTypes
<1>5. Ops(s) = Ops(session[a]) + (-1) /\ s.logins = session[a].logins
    BY <1>2 DEF Counts
<1>6. Ops(s) + 1 <= 1 + s.logins
    BY <1>3, <1>4, <1>5
<1>7. ~(s.shut /\ s.logins = 0)
    <2>1. session[a].ops["registration"]["ok"] # 0
        BY <1>1, <1>4
    <2> QED BY <1>2, <1>3, <1>5, <2>1 DEF SameSession
<1>8. Fits(s, 1)
    BY <1>6, <1>7 DEF Fits
<1>9. s.life = "open" /\ Held(a)' = 1
    BY <1>1, <1>2, <1>3 DEF SameSession, Held
<1> QED BY <1>1, <1>2, <1>3, <1>8, <1>9 DEF Ran

(* registration() gives the thread back with one write under way, or goes   *)
(* round its loop.                                                          *)
LEMMA RegistrationLineRan ==
    ASSUME CInv, NEW a \in Connection, registration_line(a)
    PROVE  \/ \E s \in SessionState : Ran(a, s)
           \/ UNCHANGED <<session, tcp_participants, registering, server>>
<1>1. /\ registering = a /\ server = "up" /\ ~session[a].shut
      /\ UNCHANGED <<tcp_participants, server>>
      /\ session[a] \in SessionState
    BY DEF registration_line, CInv, IInv, TypeOK
<1>2. PICK line \in Name \cup {NoName} :
        LET name == IF line = NoName THEN usernameAttempt ELSE line
        IN  /\ Register(a, name)
            /\ IF Accepts(name)
                 THEN /\ registering' = NoSession
                      /\ usernameAttempt' = NoName
                      /\ Return(a, async_write([session[a] EXCEPT !.username = name],
                                               "startSession", "Thank you"))
                 ELSE /\ usernameAttempt' = name
                      /\ UNCHANGED <<registering, session>>
    BY DEF registration_line
<1> DEFINE name == IF line = NoName THEN usernameAttempt ELSE line
           r == [session[a] EXCEPT !.username = name]
           s == async_write(r, "startSession", "Thank you")
<1>3. name \in Name \cup {NoName}
    BY DEF CInv, IInv, TypeOK
<1>4. CASE ~Accepts(name)
    BY <1>1, <1>2, <1>4
<1>5. CASE Accepts(name)
    <2>1. registering' = NoSession /\ Return(a, s)
        BY <1>2, <1>5
    <2> HIDE DEF name
    <2>2. /\ r \in SessionState /\ r.ops = session[a].ops /\ r.logins = session[a].logins
          /\ r.life = session[a].life /\ r.shut = session[a].shut
        BY <1>1, <1>3 DEF SessionState
    <2> HIDE DEF r
    <2>3. Counts(session[a], r, 0)
        BY <1>1, <2>2, CountsSame
    <2>4. /\ s \in SessionState /\ SameSession(r, s) /\ Counts(r, s, 1)
        BY <2>2, AsyncType, AsyncFrame, AsyncCount DEF Handler
    <2> HIDE DEF s
    <2>5. session[a].life = "open" /\ Fits(session[a], 1)
        BY <1>1 DEF CInv, IInv, SessionInv, ChainInv, Held
    <2>6. s.life = "open" /\ ~s.shut
        BY <1>1, <2>2, <2>4, <2>5 DEF SameSession
    <2>7. Ops(session[a]) \in Nat /\ session[a].logins \in Nat
        BY <1>1, CountTypes
    <2>8. /\ Ops(s) = Ops(r) + 1 /\ Ops(r) = Ops(session[a]) + 0
          /\ s.logins = session[a].logins
        BY <2>3, <2>4 DEF Counts
    <2>9. Ops(s) + 0 <= 1 + s.logins
        BY <2>5, <2>7, <2>8 DEF Fits
    <2>10. Fits(s, 0) /\ Held(a)' = 0
        BY <2>1, <2>6, <2>9, ServerAssumption DEF Fits, Held
    <2>11. \A b \in Connection \ {a} : registering # b /\ registering' # b
        BY <1>1, <2>1, ServerAssumption
    <2>12. Ran(a, s)
        BY <1>1, <2>1, <2>5, <2>6, <2>10, <2>11 DEF Ran
    <2> QED BY <2>4, <2>12
<1> QED BY <1>4, <1>5

LEMMA HandlersRan ==
    ASSUME CInv, NEW a \in Connection, Handlers(a)
    PROVE  initMode_quit_throws(a) \/ \E s \in SessionState : Ran(a, s)
BY StartSessionRan, EndOnErrorRan, QuitRan, LoginRan, RegisterModeRan, OtherModeRan,
   RegistrationRan DEF Handlers

-----------------------------------------------------------------------------
(* The rest of the system touches one session, and none of its counts but   *)
(* to move an operation from `wait' to where it completed.                  *)

LEMMA CompletesFits ==
    ASSUME CInv, NEW a \in Connection, NEW h \in Handler, NEW st \in {"ok", "error"},
           NEW s \in SessionState,
           SameSession(session[a], s), s.ops = session[a].ops, s.logins = session[a].logins,
           st = "ok" => ~session[a].shut,
           Completes(a, h, st, s)
    PROVE  ChainInv' /\ Complete(s, h, st).life = session[a].life
<1> DEFINE f == Finish(s, h, "wait")
           c == Start(f, h, st)
<1>1. /\ session' = [session EXCEPT ![a] = c] /\ registering' = registering
      /\ session[a].ops[h]["wait"] > 0 /\ Complete(s, h, st) = c
      /\ {"wait", "ok", "error"} \subseteq Status /\ session[a] \in SessionState
    BY DEF Completes, Complete, Status, serverVars, CInv, IInv, TypeOK
<1>2. f \in SessionState /\ SameSession(s, f) /\ Counts(s, f, -1) /\ NoNewDue(s, f)
    BY <1>1, FinishType, FinishFrame, FinishCount
<1> HIDE DEF f
<1>3. /\ c \in SessionState /\ SameSession(f, c) /\ Counts(f, c, 1)
      /\ st # "ok" => NoNewDue(f, c)
    BY <1>1, <1>2, StartType, StartFrame, StartCount
<1> HIDE DEF c
<1>4. c.life = session[a].life /\ c.shut = session[a].shut
    BY <1>2, <1>3 DEF SameSession
<1>5. Fits(session[a], Held(a)) /\ Held(a) \in {0, 1}
    BY DEF CInv, ChainInv, Held
<1>6. Ops(session[a]) \in Nat /\ Ops(s) = Ops(session[a])
    BY <1>1, CountTypes DEF Ops, OpsOf
<1>7. Ops(c) = Ops(session[a]) /\ c.logins = session[a].logins
    BY <1>2, <1>3, <1>6 DEF Counts
<1>8. ASSUME c.shut, c.logins = 0
      PROVE  c.ops["registration"]["ok"] = 0 /\ Held(a) = 0
    <2>1. session[a].ops["registration"]["ok"] = 0 /\ Held(a) = 0
        BY <1>4, <1>5, <1>7, <1>8 DEF Fits
    <2>2. st # "ok"
        BY <1>4, <1>8
    <2>3. Counts(s, c, -1 + 1) /\ NoNewDue(s, c)
        BY <1>2, <1>3, <2>2, CountsAdd
    <2>4. c.ops["registration"]["ok"] \in Nat
        BY <1>3, CountTypes DEF Handler, Status
    <2> QED BY <2>1, <2>3, <2>4 DEF NoNewDue
<1>9. Ops(c) + Held(a) <= 1 + c.logins
    BY <1>5, <1>7 DEF Fits
<1>10. Fits(c, Held(a))
    BY <1>8, <1>9 DEF Fits
<1> QED BY <1>1, <1>4, <1>10, OneTouched

LEMMA ReactorFits ==
    ASSUME CInv, NEW a \in Connection, Reactor(a)
    PROVE  /\ ChainInv'
           /\ UNCHANGED <<tcp_participants, server>>
           /\ \A b \in Connection : session'[b].life = session[b].life
<1>1. /\ session[a] \in SessionState /\ SameSession(session[a], session[a])
      /\ session \in [Connection -> SessionState]
    BY DEF CInv, IInv, TypeOK, SameSession
<1>2. ASSUME NEW h \in Handler, NEW st \in {"ok", "error"}, NEW s \in SessionState,
             SameSession(session[a], s), s.ops = session[a].ops,
             s.logins = session[a].logins,
             st = "ok" => ~session[a].shut,
             Completes(a, h, st, s)
      PROVE  /\ ChainInv'
             /\ UNCHANGED <<tcp_participants, server>>
             /\ \A b \in Connection : session'[b].life = session[b].life
    <2>1. ChainInv' /\ Complete(s, h, st).life = session[a].life
        BY <1>2, CompletesFits
    <2>2. /\ session' = [session EXCEPT ![a] = Complete(s, h, st)]
          /\ UNCHANGED <<tcp_participants, server>>
        BY <1>2 DEF Completes, serverVars
    <2> QED BY <1>1, <2>1, <2>2
<1>3. Writer \subseteq Handler /\ "initMode" \in Handler
    BY DEF Writer, Handler
<1>4. ASSUME NEW h \in Writer, WriteSucceeds(a, h)
      PROVE  h \in Handler /\ ~session[a].shut /\ Completes(a, h, "ok", session[a])
    BY <1>3, <1>4 DEF WriteSucceeds
<1>5. ASSUME ReadSucceeds(a)
      PROVE  \E s \in SessionState :
                /\ SameSession(session[a], s) /\ s.ops = session[a].ops
                /\ s.logins = session[a].logins /\ ~session[a].shut
                /\ Completes(a, "initMode", "ok", s)
    <2>1. PICK raw \in Buffers(session[a]) :
            Completes(a, "initMode", "ok",
                      [session[a] EXCEPT !.raw_line_command = raw, !.reads = @ + 1])
        BY <1>5 DEF ReadSucceeds
    <2> DEFINE s == [session[a] EXCEPT !.raw_line_command = raw, !.reads = @ + 1]
    <2>2. raw \in Seq(Token)
        BY <1>1, BuffersType
    <2>3. session[a].reads + 1 \in Nat
        BY <1>1 DEF SessionState
    <2>4. s \in SessionState
        BY <1>1, <2>2, <2>3 DEF SessionState
    <2>5. /\ s.life = session[a].life /\ s.peer = session[a].peer
          /\ s.shut = session[a].shut /\ s.username = session[a].username
          /\ s.ops = session[a].ops /\ s.logins = session[a].logins
        BY <1>1 DEF SessionState
    <2>6. SameSession(session[a], s)
        BY <2>5 DEF SameSession
    <2>7. ~session[a].shut /\ Completes(a, "initMode", "ok", s)
        BY <1>5, <2>1 DEF ReadSucceeds
    <2> HIDE DEF s
    <2> QED BY <2>4, <2>5, <2>6, <2>7
<1>6. ASSUME NEW h \in Handler, OperationFails(a, h)
      PROVE  Completes(a, h, "error", session[a])
    BY <1>6 DEF OperationFails
<1> QED BY <1>1, <1>2, <1>3, <1>4, <1>5, <1>6 DEF Reactor

(* Nothing but the life or the peer of one session changes. *)
LEMMA SocketFits ==
    ASSUME CInv, NEW a \in Connection, NEW t,
           session' = [session EXCEPT ![a] = t],
           t.ops = session[a].ops, t.logins = session[a].logins, t.shut = session[a].shut,
           UNCHANGED <<tcp_participants, m_users, serverVars>>,
           \/ t.life = session[a].life
           \/ {t.life, session[a].life} \subseteq {"accepting", "accepted", "failed"}
    PROVE  ChainInv' /\ LcStep
<1>1. /\ session \in [Connection -> SessionState] /\ TypeOK
      /\ UNCHANGED <<tcp_participants, registering, server>>
    BY DEF CInv, IInv, TypeOK, serverVars
<1>2. Fits(session[a], Held(a))
    BY DEF CInv, ChainInv
<1>3. Fits(t, Held(a))
    BY <1>2 DEF Fits, Ops, OpsOf
<1>4. ChainInv'
    BY <1>1, <1>3, OneTouched
<1>5. ASSUME NEW b \in Connection
      PROVE  Place(b)' = Place(b)
    <2>1. CASE session'[b].life = session[b].life
        BY <1>1, <2>1, PlaceKept
    <2>2. CASE session'[b].life # session[b].life
        <3>1. {session'[b].life, session[b].life} \subseteq {"accepting", "accepted", "failed"}
            BY <1>1, <2>2
        <3> QED BY <3>1 DEF Place
    <2> QED BY <2>1, <2>2
<1> QED BY <1>1, <1>4, <1>5, Stutters

LEMMA ConnectsFits ==
    ASSUME CInv, NEW a \in Connection, Connects(a)
    PROVE  ChainInv' /\ LcStep
<1>1. PICK life \in {"accepted", "failed"} : session' = [session EXCEPT ![a].life = life]
    BY DEF Connects
<1> DEFINE t == [session[a] EXCEPT !.life = life]
<1>2. session[a] \in SessionState /\ session[a].life = "accepting"
    BY DEF CInv, IInv, TypeOK, Connects
<1>3. session' = [session EXCEPT ![a] = t]
    BY <1>1
<1>4. /\ t.life = life /\ t.ops = session[a].ops
      /\ t.logins = session[a].logins /\ t.shut = session[a].shut
    BY <1>2 DEF SessionState
<1> HIDE DEF t
<1> QED BY <1>2, <1>3, <1>4, SocketFits DEF Connects

LEMMA PeerLeavesFits ==
    ASSUME CInv, NEW a \in Connection, PeerLeaves(a)
    PROVE  ChainInv' /\ LcStep
<1>1. PICK gone \in {"closed", "reset"} : session' = [session EXCEPT ![a].peer = gone]
    BY DEF PeerLeaves
<1> DEFINE t == [session[a] EXCEPT !.peer = gone]
<1>2. session[a] \in SessionState
    BY DEF CInv, IInv, TypeOK
<1>3. session' = [session EXCEPT ![a] = t]
    BY <1>1
<1>4. /\ t.life = session[a].life /\ t.ops = session[a].ops
      /\ t.logins = session[a].logins /\ t.shut = session[a].shut
    BY <1>2 DEF SessionState
<1> HIDE DEF t
<1> QED BY <1>3, <1>4, SocketFits DEF PeerLeaves

(* Another object starts to wait in the step that takes, or gives up, a     *)
(* connection; a session starts with one write.                             *)
LEMMA HandleConnectionFits ==
    ASSUME CInv, NEW a \in Connection, NEW b \in Connection, handle_connection(a, b)
    PROVE  ChainInv' /\ LcStep
<1>1. /\ session \in [Connection -> SessionState] /\ TypeOK
      /\ session[b].life = "free" /\ a # b /\ session[a].life \in {"accepted", "failed"}
      /\ UNCHANGED <<registering, server>> /\ server = "up"
      /\ b \notin tcp_participants
    BY DEF CInv, IInv, SessionInv, TypeOK, handle_connection, free, serverVars, IoThreadFree
<1>2. SessionInv(a) /\ session[a] \in SessionState
    BY <1>1 DEF CInv, IInv
<1>3. \A c \in Connection : Held(c)' = Held(c)
    BY <1>1 DEF Held
<1>4. Held(a) = 0 /\ Held(b) = 0
    BY <1>1 DEF CInv, IInv, SessionInv, Held
<1> DEFINE n(life) == NewSession(life)
<1>5. \A life \in {"free", "accepting"} : Fits(n(life), 0) /\ n(life).life = life
    BY NewSessionFits DEF NewSession
<1> HIDE DEF n
<1>6. ASSUME NEW t, NEW taken \in {"serving", "free"},
             session' = [session EXCEPT ![a] = t, ![b] = n("accepting")],
             tcp_participants' \ {a} = tcp_participants \ {a},
             Fits(t, 0), Place(a)' = taken
      PROVE  ChainInv' /\ LcStep
    <2>1. /\ session'[a] = t /\ session'[b] = n("accepting")
          /\ \A c \in Connection \ {a, b} : session'[c] = session[c]
        BY <1>1, <1>6
    <2>2. ChainInv'
        BY <1>3, <1>4, <1>5, <1>6, <2>1 DEF CInv, ChainInv
    <2>3. \A c \in Connection \ {a, b} : Place(c)' = Place(c)
        BY <1>6, <2>1, PlaceKept
    <2>4. Place(a) = "accepting" /\ Place(b) = "free" /\ Place(b)' = "accepting"
        BY <1>1, <1>5, <2>1 DEF Place
    <2> DEFINE slot == [c \in Connection |-> Place(c)]
    <2>5. slot' = [slot EXCEPT ![a] = taken, ![b] = "accepting"]
        BY <1>1, <1>6, <2>3, <2>4
    <2>6. Lifecycle!Accept(a, b)
        BY <1>1, <2>4, <2>5 DEF Lifecycle!Accept
    <2>7. LcStep
        BY <2>6 DEF LcStep, Lifecycle!LifecycleNext
    <2> QED BY <2>2, <2>7
<1>7. CASE /\ join(a)
           /\ session' = [session EXCEPT ![a] = Started(@), ![b] = n("accepting")]
    <2> DEFINE o == [session[a] EXCEPT !.life = "open", !.screen = "menu"]
               s == async_write(o, "startSession", "menu")
    <2>1. tcp_participants' = tcp_participants \cup {a}
        BY <1>7 DEF join
    <2>2. /\ o \in SessionState /\ o.life = "open"
          /\ o.ops = session[a].ops /\ o.logins = session[a].logins
        BY <1>2 DEF SessionState, Screen
    <2>3. Ops(o) = 0 /\ o.ops["registration"]["ok"] = 0
        <3>1. ~Pending(session[a])
            BY <1>1, <1>2 DEF SessionInv
        <3> QED BY <1>2, <2>2, <3>1, IdleCount DEF Ops, OpsOf
    <2>4. Started(session[a]) = s
        BY DEF Started
    <2> HIDE DEF o
    <2>5. /\ s \in SessionState /\ SameSession(o, s)
          /\ Counts(o, s, 1) /\ NoNewDue(o, s)
        BY <2>2, AsyncType, AsyncFrame, AsyncCount DEF Handler
    <2> HIDE DEF s
    <2>6. s.logins \in Nat /\ s.ops["registration"]["ok"] \in Nat
        BY <2>5, CountTypes DEF Handler, Status
    <2>7. Ops(s) = 1
        BY <2>3, <2>5 DEF Counts
    <2>8. s.ops["registration"]["ok"] = 0
        BY <2>3, <2>5, <2>6 DEF NoNewDue
    <2>9. Fits(s, 0)
        BY <2>6, <2>7, <2>8 DEF Fits
    <2>10. session' = [session EXCEPT ![a] = s, ![b] = n("accepting")]
        BY <1>1, <1>7, <2>4
    <2>11. Place(a)' = "serving"
        <3>1. session'[a] = s /\ s.life = "open"
            BY <1>1, <2>2, <2>5, <2>10 DEF SameSession
        <3> QED BY <2>1, <3>1 DEF Place
    <2> QED BY <1>6, <2>1, <2>9, <2>10, <2>11
<1>8. CASE /\ session' = [session EXCEPT ![a] = n("free"), ![b] = n("accepting")]
           /\ UNCHANGED tcp_participants
    <2>1. Place(a)' = "free"
        BY <1>1, <1>5, <1>8 DEF Place
    <2> QED BY <1>5, <1>6, <1>8, <2>1
<1> QED BY <1>7, <1>8 DEF handle_connection, n

(* An exception, or a signal that is taken, stops the server and moves      *)
(* nobody.                                                                  *)
LEMMA StopsFits ==
    ASSUME CInv, server = "up", ServerDown, UNCHANGED <<session, tcp_participants>>
    PROVE  ChainInv' /\ LcStep
<1>1. /\ server' = "down" /\ registering' = registering
    BY DEF ServerDown
<1>2. ChainInv'
    BY <1>1 DEF CInv, ChainInv, Held
<1> QED BY <1>1, <1>2, Stops

-----------------------------------------------------------------------------
(* All steps together. *)

(* What may take the server down, other than a signal. *)
Doomed(a) ==
    /\ session[a].life \in {"accepted", "open"}
    /\ session[a].peer # "open" \/ (session[a].shut /\ session[a].logins > 0)

(* A call that throws: on a connection that its peer, or another chain of   *)
(* the session, took away.                                                  *)
LEMMA ThrowsDoomed ==
    ASSUME CInv, NEW a \in Connection,
           \/ initMode_quit_throws(a)
           \/ registration_throws(a)
           \/ handle_connection_throws(a)
    PROVE  server = "up" /\ Throw /\ Doomed(a)
<1>1. CASE initMode_quit_throws(a)
    <2>1. /\ Calls(a, "initMode", "ok") /\ Throw /\ session[a].peer # "open"
          /\ "initMode" \in Handler /\ "ok" \in Status /\ IInv
        BY <1>1 DEF initMode_quit_throws, initMode_is, Handler, Status, CInv
    <2>2. session[a].life = "open" /\ server = "up"
        BY <2>1, Called, CalledFits
    <2> QED BY <2>1, <2>2 DEF Doomed
<1>2. CASE registration_throws(a)
    <2>1. /\ server = "up" /\ registering = a /\ Dead(session[a]) /\ Throw
          /\ session[a] \in SessionState
        BY <1>2 DEF registration_throws, CInv, IInv, TypeOK
    <2>2. session[a].life = "open" /\ Fits(session[a], 1)
        BY <2>1 DEF CInv, IInv, SessionInv, ChainInv, Held
    <2>3. session[a].logins \in Nat
        BY <2>1, CountTypes
    <2>4. session[a].shut => session[a].logins > 0
        BY <2>2, <2>3 DEF Fits
    <2> QED BY <2>1, <2>2, <2>4 DEF Dead, Doomed
<1>3. CASE handle_connection_throws(a)
    BY <1>3 DEF handle_connection_throws, IoThreadFree, Doomed
<1> QED BY <1>1, <1>2, <1>3

LEMMA StepFits ==
    ASSUME CInv, [Next]_vars
    PROVE  /\ ChainInv' /\ LcStep
           /\ server' # server => signalled \/ \E a \in Connection : Doomed(a)
<1> DEFINE Goal ==
        /\ ChainInv' /\ LcStep
        /\ server' # server => signalled \/ \E a \in Connection : Doomed(a)
<1>1. ASSUME NEW a \in Connection,
             \/ initMode_quit_throws(a)
             \/ registration_throws(a)
             \/ handle_connection_throws(a)
      PROVE  Goal
    <2>1. server = "up" /\ Throw /\ Doomed(a)
        BY <1>1, ThrowsDoomed
    <2> QED BY <2>1, StopsFits DEF Throw
<1>2. ASSUME UNCHANGED <<session, tcp_participants, registering, server>>
      PROVE  Goal
    <2>1. ChainInv'
        BY <1>2 DEF CInv, ChainInv, Held
    <2>2. \A b \in Connection : Place(b)' = Place(b)
        BY <1>2, PlaceKept
    <2> QED BY <1>2, <2>1, <2>2, Stutters
<1>3. ASSUME NEW a \in Connection, Handlers(a) \/ registration_line(a),
             ~initMode_quit_throws(a),
             ~UNCHANGED <<session, tcp_participants, registering, server>>
      PROVE  Goal
    <2>1. PICK s \in SessionState : Ran(a, s)
        BY <1>3, HandlersRan, RegistrationLineRan
    <2>2. ChainInv' /\ server' = server
        BY <2>1, RanKeeps DEF Ran
    <2>3. LcStep
        BY <2>1, HandlerMoves DEF Ran, CInv
    <2> QED BY <2>2, <2>3
<1>4. ASSUME NEW a \in Connection, Reactor(a)
      PROVE  Goal
    <2>1. /\ ChainInv' /\ UNCHANGED <<tcp_participants, server>>
          /\ \A b \in Connection : session'[b].life = session[b].life
        BY <1>4, ReactorFits
    <2>2. \A b \in Connection : Place(b)' = Place(b)
        BY <2>1, PlaceKept
    <2> QED BY <2>1, <2>2, Stutters
<1>5. ASSUME NEW a \in Connection, Connects(a) \/ PeerLeaves(a)
      PROVE  Goal
    <2>1. server' = server
        BY <1>5 DEF Connects, PeerLeaves, serverVars
    <2> QED BY <1>5, <2>1, ConnectsFits, PeerLeavesFits
<1>6. ASSUME NEW a \in Connection, NEW b \in Connection, handle_connection(a, b)
      PROVE  Goal
    <2>1. server' = server
        BY <1>6 DEF handle_connection, serverVars
    <2> QED BY <1>6, <2>1, HandleConnectionFits
<1>7. ASSUME HandleSignal
      PROVE  Goal
    <2>1. server = "up" /\ signalled
        BY <1>7 DEF HandleSignal, IoThreadFree
    <2> QED BY <1>7, <2>1, StopsFits DEF HandleSignal
<1>8. ASSUME Signal \/ Exited \/ UNCHANGED vars
      PROVE  UNCHANGED <<session, tcp_participants, registering, server>>
    BY <1>8 DEF Signal, Exited, vars, serverVars
<1>9. Goal
    <2> HIDE DEF Goal
    <2> QED BY <1>1, <1>2, <1>3, <1>4, <1>5, <1>6, <1>7, <1>8 DEF Next
<1> QED BY <1>9

(* The chains never break, on top of TCPServer_proofs' invariant. *)
THEOREM ChainsHold == Spec => []CInv
<1>1. CInv /\ [Next]_vars => CInv'
    <2> SUFFICES ASSUME CInv, [Next]_vars PROVE CInv'
        OBVIOUS
    <2>1. ChainInv'
        BY StepFits
    <2> QED BY <2>1, NextInv DEF CInv
<1> QED BY <1>1, CInit, PTL DEF Spec

(* A session has one chain of handlers, plus one for each "login". *)
THEOREM ChainsBounded == Spec => []OneChain
<1>1. CInv => OneChain
    BY DEF CInv, ChainInv, Fits, Held, OneChain, Chains
<1> QED BY <1>1, ChainsHold, PTL

(* Only a signal, or a call that throws on a connection that was taken      *)
(* away, stops the server: never a session that is alive and alone.         *)
THEOREM ServerOutlives == Spec => ServerSurvives
<1>1. CInv /\ [Next]_vars =>
        [server' # server =>
            \/ signalled
            \/ \E a \in Connection :
                 /\ session[a].life \in {"accepted", "open"}
                 /\ \/ session[a].peer # "open"
                    \/ session[a].shut /\ session[a].logins > 0]_vars
    BY StepFits DEF Doomed
<1> QED BY <1>1, ChainsHold, PTL DEF Spec, ServerSurvives

(* The server implements ConnLifecycle: one object always waits for the     *)
(* next connection, a connection that left service never comes back, and no *)
(* object in the pool is freed.                                             *)
THEOREM ImplementsLifecycle == Spec => LifecycleSpec
<1>1. Init => Lifecycle!LifecycleInit
    <2> SUFFICES ASSUME Init PROVE Lifecycle!LifecycleInit
        OBVIOUS
    <2>1. PICK c \in Connection : session =
             [b \in Connection |-> NewSession(IF c = b THEN "accepting" ELSE "free")]
        BY DEF Init
    <2>2. \A b \in Connection : Place(b) = IF b = c THEN "accepting" ELSE "free"
        BY <2>1 DEF Place, NewSession
    <2>3. server = "up"
        BY DEF Init
    <2> QED BY <2>2, <2>3 DEF Lifecycle!LifecycleInit
<1>2. CInv /\ [Next]_vars => [Lifecycle!LifecycleNext]_(Lifecycle!lvars)
    BY StepFits DEF LcStep
<1> QED BY <1>1, <1>2, ChainsHold, PTL DEF Spec, LifecycleSpec, Lifecycle!LifecycleSpec
=============================================================================
