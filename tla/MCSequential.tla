---------------------------- MODULE MCSequential ----------------------------
(* The parts of the server that only one thread ever calls, in one run: the *)
(* user list, IntToUTF8String and the headers.  They share nothing, and a   *)
(* behaviour is one of UserDBSpec, of Utf8Spec or of FramesSpec.  The names *)
(* are on both sides of every test of IsValidName: 2, 3, 16 and 17          *)
(* characters, a digit first, a space inside.                               *)
EXTENDS UserDB, Utf8, Frames

Named(id, size, alpha, clean) ==
    [id |-> id, size |-> size, alpha |-> alpha, clean |-> clean]

MCName == { Named(1, 3, TRUE, TRUE), Named(2, 15, TRUE, TRUE),
            Named(3, 16, TRUE, TRUE), Named(4, 16, TRUE, TRUE),
            Named(5, 2, TRUE, TRUE), Named(6, 17, TRUE, TRUE),
            Named(7, 8, FALSE, TRUE), Named(8, 8, TRUE, FALSE) }

utf8 == <<convertMe, out>>

NoUsers == m_users = <<>>
NoInt == convertMe = {} /\ out = <<>>
NoHeader == kind = "none"

Init == UserDBInit /\ Utf8Init /\ FramesInit

Next ==
    \/ NoInt /\ NoHeader /\ UserDBNext /\ UNCHANGED <<utf8, frames>>
    \/ NoUsers /\ NoHeader /\ Return /\ UNCHANGED <<m_users, frames>>
    \/ NoUsers /\ NoInt /\ FramesNext /\ UNCHANGED <<m_users, utf8>>

Spec == Init /\ [][Next]_<<m_users, utf8, frames>>
=============================================================================
