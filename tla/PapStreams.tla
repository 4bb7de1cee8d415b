----------------------------- MODULE PapStreams -----------------------------
(***************************************************************************)
(* What a PAP connection promises the two processes: each end writes a     *)
(* stream of items that the other end takes in order, none twice and none  *)
(* left out; and an end is told that the other's stream is over only when  *)
(* it has taken all of it.                                                 *)
(***************************************************************************)
EXTENDS Naturals

CONSTANTS
    End,        \* the two ends
    Peer        \* the other end of each

VARIABLES
    out,        \* how many items the end has written
    in,         \* how many items of the other end it has taken
    fin,        \* it will write no more
    told        \* it has been told that the other end's stream is over

vars == <<out, in, fin, told>>

Init ==
    /\ out = [e \in End |-> 0]
    /\ in = [e \in End |-> 0]
    /\ fin = [e \in End |-> FALSE]
    /\ told = [e \in End |-> FALSE]

Write(e) ==
    /\ ~fin[e]
    /\ out' = [out EXCEPT ![e] = @ + 1]
    /\ UNCHANGED <<in, fin, told>>

Finish(e) ==
    /\ fin' = [fin EXCEPT ![e] = TRUE]
    /\ UNCHANGED <<out, in, told>>

Read(e) ==
    /\ in[e] < out[Peer[e]]
    /\ in' = [in EXCEPT ![e] = @ + 1]
    /\ UNCHANGED <<out, fin, told>>

ReadEnd(e) ==
    /\ fin[Peer[e]] /\ in[e] = out[Peer[e]]
    /\ told' = [told EXCEPT ![e] = TRUE]
    /\ UNCHANGED <<out, in, fin>>

Next == \E e \in End : Write(e) \/ Finish(e) \/ Read(e) \/ ReadEnd(e)

Spec == Init /\ [][Next]_vars
=============================================================================
