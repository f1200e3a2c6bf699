---------------------------- MODULE MCTCPServer ----------------------------
(* TCPServer on a few session addresses and one username.  A blank line    *)
(* stands for every name that IsValidName refuses.                        *)
EXTENDS TCPServer, TLC

Named(id, size) == [id |-> id, size |-> size, alpha |-> TRUE, clean |-> TRUE]

OneName == {Named(1, 3)}

Addresses == Permutations(Connection)
=============================================================================
