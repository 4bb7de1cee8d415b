----------------------------- MODULE ByteLocks ------------------------------
(***************************************************************************)
(* What record locking promises: each process has a read lock, a write     *)
(* lock or none on each byte of each file, a lock is granted on all its    *)
(* bytes at once or on none, and a write lock excludes the locks of others.*)
(* FileLock, the implementation by lists of ranges, is shown to be one.    *)
(***************************************************************************)
EXTENDS Naturals

CONSTANTS
    Proc,       \* the processes
    File,       \* the files
    MaxEnd      \* the end of every file: its bytes are 0 .. MaxEnd - 1

VARIABLE holds  \* what each process has on each byte of each file

Byte == 0 .. MaxEnd - 1
Hold == {"none", "F_RDLCK", "F_WRLCK"}

Init == holds = [p \in Proc |-> [f \in File |-> [b \in Byte |-> "none"]]]

(* Only p's locks on f change. *)
Only(p, f) ==
    /\ holds' \in [Proc -> [File -> [Byte -> Hold]]]
    /\ \A q \in Proc, g \in File : q # p \/ g # f => holds'[q][g] = holds[q][g]

(* Those on the bytes from lo up to hi become h, the others stay. *)
Change(p, f, lo, hi, h) ==
    \A b \in Byte : holds'[p][f][b] = IF lo <= b /\ b < hi THEN h ELSE holds[p][f][b]

Compatible(g, h) == g = "none" \/ (g = "F_RDLCK" /\ h = "F_RDLCK")

Acquire(p, f, lo, hi, h) ==
    /\ \A q \in Proc \ {p} : \A b \in lo .. hi - 1 : Compatible(holds[q][f][b], h)
    /\ Change(p, f, lo, hi, h)

Release(p, f, lo, hi) == Change(p, f, lo, hi, "none")

Next ==
    \E p \in Proc, f \in File :
        /\ Only(p, f)
        /\ \E lo \in Byte, hi \in 1 .. MaxEnd :
             \/ Release(p, f, lo, hi)
             \/ \E h \in {"F_RDLCK", "F_WRLCK"} : Acquire(p, f, lo, hi, h)

Spec == Init /\ [][Next]_holds
=============================================================================
