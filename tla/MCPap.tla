------------------------------- MODULE MCPap --------------------------------
(* Instances of Pap for TLC. *)
EXTENDS Pap

(* The client writes and the server reads, in a place where the last session   *)
(* wrote: as a printer is used.                                                *)
Printing == [readers |-> {Server}, writers |-> {Client}, writes |-> 1, ignorers |-> {},
             signalled |-> {}, reused |-> {Server}, dry |-> {}, short |-> {},
             mortal |-> {}]

(* Printing with a client that crashes; interrupted; with a server short of     *)
(* message blocks; and a server that only ends what its client ignores.         *)
MCUses ==
    {[Printing EXCEPT !.writes = 2, !.mortal = {Client}],
     [Printing EXCEPT !.signalled = {Client}],
     [Printing EXCEPT !.dry = {Server}, !.short = {Server}],
     [Printing EXCEPT !.readers = {}, !.writers = {Server}, !.writes = 0,
                      !.ignorers = {Client}, !.short = {Server}]}
=============================================================================
