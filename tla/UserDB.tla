------------------------------- MODULE UserDB -------------------------------
(***************************************************************************)
(* The list of registered users: class UserDatabase (Accounting/UserDB.h,  *)
(* UserDB.cpp) and its only client, AccountRegistration::Register.         *)
(*                                                                         *)
(* m_users is a static std::list<User>, so it is a sequence here and an    *)
(* iterator is an index; 0 is the iterator end().  A TCP_Participant* is a *)
(* member of Connection: the address of a session object, which outlives   *)
(* the object.  A name is abstracted to what IsValidName looks at.         *)
(***************************************************************************)
EXTENDS Integers, SequencesExt

CONSTANTS
    Connection,  \* addresses a TCP_Session object may have
    Name         \* what a peer may type as a username

ASSUME NameAssumption ==
    Name \subseteq [id : Nat, size : Nat, alpha : BOOLEAN, clean : BOOLEAN]

(* A default constructed std::string. *)
NoName == [id |-> 0, size |-> 0, alpha |-> FALSE, clean |-> TRUE]

(* The string "". *)
Blank == "blank"

(* What a session has in its member `screen': the banner and the menu, or  *)
(* the text kept with a registered user, which is Blank and never changes. *)
Screen == {Blank, "menu"}

User == [connection : Connection, name : Name, screen : {Blank}]

VARIABLE m_users

-----------------------------------------------------------------------------

end == 0

find(c) == SelectInSeq(m_users, LAMBDA u : u.connection = c)

(* Mutant: the loop stops one element early. *)
HasUser_SkipsLast(n) == \E i \in 1..(Len(m_users) - 1) : m_users[i].name = n

HasUser(n) == \E i \in DOMAIN m_users : m_users[i].name = n

IsValidName(n) ==
    /\ n.clean
    /\ n.size \in 3..16
    /\ n.alpha

(* find() is dereferenced without a test against end(). *)
ReturnScreen(c) == m_users[find(c)].screen

(* Mutant: User's constructor starts the screen with the menu. *)
AddUser_Menu(c, n) ==
    m_users' = IF ~HasUser(n) /\ IsValidName(n)
                 THEN Append(m_users, [connection |-> c, name |-> n, screen |-> "menu"])
                 ELSE m_users

AddUser(c, n) ==
    m_users' = IF ~HasUser(n) /\ IsValidName(n)
                 THEN Append(m_users, [connection |-> c, name |-> n, screen |-> Blank])
                 ELSE m_users

(* Mutant: without the test against end() the last user goes instead. *)
DeleteUser_AtEnd(c) ==
    m_users' = IF m_users # <<>>
                 THEN RemoveAt(m_users, IF find(c) # end THEN find(c) ELSE Len(m_users))
                 ELSE m_users

DeleteUser(c) ==
    m_users' = IF find(c) # end THEN RemoveAt(m_users, find(c)) ELSE m_users

(* AccountRegistration::Register: success does not look at what AddUser    *)
(* returned.                                                               *)
Accepts(n) == IsValidName(n) /\ ~HasUser(n)

Register(c, n) ==
    IF Accepts(n) THEN AddUser(c, n) ELSE UNCHANGED m_users

-----------------------------------------------------------------------------

UserDBInit == m_users = <<>>

UserDBNext ==
    \E c \in Connection :
        \/ \E n \in Name : Register(c, n)
        \/ DeleteUser(c)

UserDBSpec == UserDBInit /\ [][UserDBNext]_m_users

-----------------------------------------------------------------------------

UsersTypeOK == m_users \in Seq(User)

(* A username belongs to one user at most, whatever the order in which     *)
(* sessions register and are deleted: HasUser and AddUser are called       *)
(* separately by Register, and nothing else guards the list.               *)
UniqueNames ==
    \A i, j \in DOMAIN m_users : m_users[i].name = m_users[j].name => i = j

Entry(u, c) == IF u.connection = c THEN <<u>> ELSE <<>>

(* The users of c, in the order of the list. *)
EntriesOf(users, c) == FlattenSeq([i \in DOMAIN users |-> Entry(users[i], c)])

(* A call made for one connection leaves every other connection's entries  *)
(* alone, and its own entries go in the order they came: AddUser appends,  *)
(* DeleteUser erases the entry that find() would return, the oldest.       *)
OwnEntriesOnly ==
    [][\E c \in Connection :
        /\ \A d \in Connection \ {c} : EntriesOf(m_users', d) = EntriesOf(m_users, d)
        /\ \/ IsPrefix(EntriesOf(m_users, c), EntriesOf(m_users', c))
           \/ EntriesOf(m_users', c) = Tail(EntriesOf(m_users, c))]_m_users

=============================================================================
