--------------------------- MODULE MCAtpRequester ---------------------------
(* Small instances of AtpRequester. *)
EXTENDS AtpRequester, TLC

CONSTANTS s1, s2

R(id, s, k, xo, retry, ask, resp) ==
    [id |-> id, sock |-> s, kind |-> k, xo |-> xo, retry |-> retry, ask |-> ask, resp |-> resp]

(* An execute-once request with a process waiting and an at-least-once one    *)
(* without, each for two segments; the second is answered by one.             *)
ReqsMixed == {R(1, s1, "REQ", TRUE, 1, 2, 2), R(2, s1, "NW", FALSE, 0, 2, 1)}

(* Three requests of two sockets, for fewer tcbs. *)
ReqsPool == {R(1, s1, "REQ", FALSE, 0, 1, 1), R(2, s1, "NOTE", TRUE, Infinite, 1, 1),
             R(3, s2, "REQ", FALSE, 0, 1, 1)}

(* Two blocking requests of one socket. *)
ReqsBlocking == {R(1, s1, "REQ", FALSE, 1, 2, 2), R(2, s1, "REQ", TRUE, 0, 1, 1)}

(* One execute-once request. *)
ReqsRelease == {R(1, s1, "REQ", TRUE, 1, 2, 1)}

TransSymmetry == Permutations(Trans)
=============================================================================
