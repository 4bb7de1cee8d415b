----------------------------- MODULE MCBufCache -----------------------------
(* Instances of BufCache for TLC. *)
EXTENDS BufCache, TLC

CONSTANTS raw, super, data

(* The device read as a whole (raw) and the superblock in it; and a block that  *)
(* is read ahead with either of them.                                           *)
MCCovers == (raw :> {0, 1}) @@ (super :> {1}) @@ (data :> {2})

MCAhead == (raw :> data) @@ (super :> data) @@ (data :> None)

(* Under these processes do not wait only for each other. *)
ASSUME MCAssumption == AheadEnds /\ EnoughBuffers

MCSymmetry == Permutations(Proc) \cup Permutations(Buf)
=============================================================================
