--------------------------- MODULE MCAtpResponder ---------------------------
(* Small instances of AtpResponder. *)
EXTENDS AtpResponder, TLC

CONSTANTS s1, s2

X(id, s, xo, ask, resp, eof) ==
    [id |-> id, sock |-> s, xo |-> xo, ask |-> ask, resp |-> resp, eof |-> eof]

(* An execute-once transaction of two segments. *)
TxnsXo == {X(1, s1, TRUE, 2, 2, FALSE)}

(* Transactions with two sockets, for fewer rcbs: one execute-once, the other   *)
(* at-least-once and answered by fewer segments than it asks for.               *)
TxnsPool == {X(1, s1, TRUE, 1, 1, FALSE), X(2, s2, FALSE, 2, 1, TRUE)}

RcbSymmetry == Permutations(Rcb)
=============================================================================
