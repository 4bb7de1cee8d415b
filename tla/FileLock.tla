------------------------------ MODULE FileLock ------------------------------
(***************************************************************************)
(* Record locking, src/sys/COMMON/os/flock.c: fcntl(F_SETLK, F_SETLKW,     *)
(* F_GETLK) and the cleanup at a close.  The locks of a file are a list of *)
(* ranges ordered by their start, on which a process works with two scans: *)
(* blocked looks for a lock in the way and for the place to begin, flckadj *)
(* splits, shrinks, joins and deletes the ranges the process has.  Who is  *)
(* blocked sleeps on the lock in its way, after deadflck has followed the  *)
(* chain of sleepers to see whether that would be for ever.                *)
(*                                                                         *)
(* The kernel is not preempted and only the sleep gives up the processor,  *)
(* so a call is one action up to its sleep or its return, and one from its *)
(* wakeup on.  A range is the bytes from start up to end; MaxEnd is        *)
(* MAXEND, the end that a length of zero means.                            *)
(***************************************************************************)
EXTENDS Naturals, Sequences, FiniteSets, SequencesExt

(* An operator called Faulty... is what a plausible bug would make of the        *)
(* definition after it, as in AtpStream.                                         *)

CONSTANTS
    Proc,       \* the processes
    Readers,    \* those that ask for read locks too
    File,       \* the files they all have open, for reading and writing
    MaxEnd,     \* bound: the files have the bytes 0 .. MaxEnd - 1
    MaxFids,    \* flckinfo.fils: how many files may have locks at a time
    Left,       \* how many records the rest of the system may leave on frlock,
                \* which all files and sleepers share; a call takes at most two
    None        \* no process, no request

ASSUME ConstantAssumption ==
    /\ Readers \subseteq Proc
    /\ MaxEnd \in Nat \ {0}
    /\ MaxFids \in Nat /\ Left \subseteq 0 .. 2
    /\ None \notin Proc

VARIABLES
    fids,       \* the files with a struct flino
    refcnt,     \* its fl_refcnt
    locks,      \* its fl_flck: the locks on the file
    sleeplck    \* sleeplcks: what each process in SLEEP, or not yet back, asks for

vars == <<fids, refcnt, locks, sleeplck>>

LockType == {"F_RDLCK", "F_WRLCK"}
Ld   == {d \in [pid : Proc, type : LockType \cup {"F_UNLCK"},
                start : 0 .. MaxEnd - 1, end : 1 .. MaxEnd] : d.start < d.end}
Lock == [pid : Proc, type : LockType, start : 0 .. MaxEnd - 1, end : 1 .. MaxEnd,
         sleepers : SUBSET Proc]

(* A sleeper: the file, the lock it wants and blkpid, the owner of the lock   *)
(* in its way when it went to sleep.                                          *)
Sleeper == [file : File, ld : Ld, blkpid : Proc]

ASSUME NoneAssumption == None \notin Sleeper

Init ==
    /\ fids = {}
    /\ refcnt = [f \in File |-> 0]
    /\ locks = [f \in File |-> <<>>]
    /\ sleeplck = [p \in Proc |-> None]

-----------------------------------------------------------------------------
(* blocked: the first lock in the way of ld, and the lock after which to go on. *)

Conflicts(k, ld) ==
    /\ k.pid # ld.pid
    /\ ld.start < k.end /\ ld.end > k.start
    /\ k.type = "F_WRLCK" \/ ld.type = "F_WRLCK"

Touches(k, ld) == k.pid = ld.pid /\ ld.start <= k.end /\ ld.end >= k.start

(* Where the first scan stops: at a lock that does not begin before ld, or at  *)
(* one of the same process that touches it.                                    *)
FirstScan(q, ld) ==
    Min({i \in DOMAIN q : q[i].start >= ld.start \/ Touches(q[i], ld)} \cup {Len(q) + 1})

FaultyFound(q, ld) == {i \in DOMAIN q : Conflicts(q[i], ld) /\ q[i].start >= ld.start}

(* {i} when q[i] is found to be in the way, {} when none is.  The second scan  *)
(* gives up at a lock that begins behind ld.                                   *)
Found(q, ld) ==
    {i \in DOMAIN q :
        /\ Conflicts(q[i], ld)
        /\ \A j \in 1 .. i - 1 : /\ ~Conflicts(q[j], ld)
                                 /\ j >= FirstScan(q, ld) => q[j].start <= ld.end}

FaultyInsrt(q, ld) == LET m == FirstScan(q, ld) IN IF m \in DOMAIN q THEN m ELSE m - 1

(* The lock to begin at, 0 for the head of the list. *)
Insrt(q, ld) ==
    LET m == FirstScan(q, ld)
    IN  IF m \in DOMAIN q /\ q[m].start < ld.start THEN m ELSE m - 1

-----------------------------------------------------------------------------
(* flckadj.  A walk a is its state: q the list, i the lock it is at (flp), ins *)
(* the lock to insert after (insrtp, 0 for none), ld what is to be set, free   *)
(* the records left, woken the sleepers it has woken.  stop ends the loop; the *)
(* result is "set" if ld is yet to be inserted, "done" if not, or "ENOSPC".    *)

Stop(a, r) == [a EXCEPT !.stop = TRUE, !.result = r]

(* delflck: delete the lock it is at. *)
Delflck(a) == [a EXCEPT !.q = RemoveAt(@, a.i), !.free = @ + 1,
                        !.woken = @ \cup a.q[a.i].sleepers]

(* With insrtp taken back to the lock before: if it was this one, or anyway. *)
Delete(a)     == [Delflck(a) EXCEPT !.ins = IF @ = a.i THEN a.i - 1 ELSE @]
DeleteBack(a) == [Delflck(a) EXCEPT !.ins = a.i - 1]

FaultyShrink(a) ==
    [a EXCEPT !.q[a.i].end = a.ld.start, !.ins = a.i, !.i = @ + 1]

(* Cut off what the lock has from the start of ld on. *)
Shrink(a) ==
    [a EXCEPT !.q[a.i].end = a.ld.start, !.q[a.i].sleepers = {},
              !.woken = @ \cup a.q[a.i].sleepers, !.ins = a.i, !.i = @ + 1]

(* The last of the locks from i on that begin before start, at least i. *)
RunEnd(q, i, start) ==
    Max({i} \cup {k \in i .. Len(q) : \A j \in i .. k : q[j].start < start})

(* insflck *)
Insflck(a, i, k) == [a EXCEPT !.q = InsertAt(@, i + 1, k), !.free = @ - 1]

(* Insert the piece of the lock that lies behind ld. *)
Piece(a) ==
    LET k == a.q[a.i]
    IN  Insflck(a, RunEnd(a.q, a.i, a.ld.start), [k EXCEPT !.start = a.ld.end, !.sleepers = {}])

(* The lock it is at is the process's own.  The cases are regflck's regions.  *)
Adjust(a) ==
    LET k      == a.q[a.i]
        ld     == a.ld
        same   == k.type = ld.type
        within == ld.start >= k.start /\ ld.end <= k.end
    IN  CASE ld.end < k.start ->                               \* S_BEFORE|E_BEFORE
               Stop(a, "set")
          [] ld.end = k.start ->                               \* S_BEFORE|E_START
               IF same THEN Stop(Delete([a EXCEPT !.ld.end = k.end]), "set") ELSE Stop(a, "set")
          [] within /\ same ->                                 \* nothing to do
               Stop(a, "done")
          [] ld.start < k.start /\ ld.end = k.end /\ same ->   \* S_BEFORE|E_END
               Stop(Delete(a), "set")
          [] ld.start < k.start /\ ld.end >= k.end /\ ~(ld.end = k.end /\ same) ->
               Delete(a)                                       \* S_BEFORE|E_END, E_AFTER
          [] ld.start = k.start /\ ld.end >= k.end /\ ~(within /\ same) ->
               DeleteBack(a)                                   \* S_START|E_END, E_AFTER
          [] ld.start < k.start /\ ld.end > k.start /\ ld.end < k.end ->   \* S_BEFORE|E_MIDDLE
               IF same THEN Stop(Delete([a EXCEPT !.ld.end = k.end]), "set")
               ELSE IF a.free = 0 THEN Stop(a, "ENOSPC") ELSE Stop(Delete(Piece(a)), "set")
          [] within /\ ~same /\ ld.end < k.end ->              \* S_START, S_MIDDLE|E_MIDDLE
               IF a.free = 0 THEN Stop(a, "ENOSPC")
               ELSE IF ld.start = k.start THEN Stop(DeleteBack(Piece(a)), "set")
                                          ELSE Stop(Shrink(Piece(a)), "set")
          [] within /\ ~same /\ ld.start > k.start /\ ld.end = k.end ->    \* S_MIDDLE|E_END
               Shrink(a)
          [] k.start < ld.start /\ ld.start <= k.end /\ ld.end > k.end ->  \* S_MIDDLE, S_END|E_AFTER
               IF same THEN DeleteBack([a EXCEPT !.ld.start = k.start]) ELSE Shrink(a)
          [] ld.start > k.end ->                               \* S_AFTER|E_AFTER
               [a EXCEPT !.ins = a.i, !.i = @ + 1]

(* One turn of the loop.  A lock of another process only says when to stop. *)
Turn(a) ==
    IF a.stop \/ a.i > Len(a.q) THEN a
    ELSE IF a.q[a.i].pid = a.ld.pid THEN Adjust(a)
    ELSE IF a.q[a.i].start > a.ld.end THEN Stop(a, "set")
    ELSE [a EXCEPT !.i = @ + 1]

(* The walk from lock ins of q, with free records. *)
Begins(q, ins, ld, free) ==
    [q |-> q, i |-> Max({1, ins}), ins |-> ins, ld |-> ld, free |-> free,
     woken |-> {}, stop |-> FALSE, result |-> "set"]

(* What it leaves.  No turn comes back to a lock, so Len(q) of them are enough. *)
Flckadj(q, ins, ld, free) ==
    LET walk[n \in 0 .. Len(q)] ==
            IF n = 0 THEN Begins(q, ins, ld, free) ELSE Turn(walk[n - 1])
        a  == walk[Len(q)]
        at == IF a.ins = 0 THEN 0 ELSE RunEnd(a.q, a.ins, a.ld.start)
        new == [pid |-> ld.pid, type |-> ld.type, start |-> a.ld.start, end |-> a.ld.end,
                sleepers |-> {}]
    IN  IF a.result # "set" \/ ld.type = "F_UNLCK" THEN a
        ELSE IF a.free = 0 THEN Stop(a, "ENOSPC")
        ELSE Insflck(a, at, new)

-----------------------------------------------------------------------------
(* setflck.  slp are the sleepers it sees, refs the references to the files.  *)

FaultyDeadflck(p, x, slp) == x = p \/ (slp[x] # None /\ slp[x].blkpid = p)

(* deadflck: following the sleepers' blkpid from x leads to p.  (Every set that *)
(* holds x and, with each sleeper, who blocks it, holds p.)                     *)
Deadflck(p, x, slp) ==
    \A S \in SUBSET Proc :
        x \in S /\ (\A y \in S : slp[y] # None => slp[y].blkpid \in S) => p \in S

FaultyFreefid(f, ref, q) ==
    /\ refcnt' = [refcnt EXCEPT ![f] = IF ref = 0 THEN 0 ELSE ref - 1]
    /\ fids' = IF ref <= 1 THEN fids \ {f} ELSE fids \cup {f}

(* freefid of f, when it has ref references and the locks q. *)
Freefid(f, ref, q) ==
    /\ refcnt' = [refcnt EXCEPT ![f] = ref - 1]
    /\ fids' = IF ref - 1 = 0 /\ q = <<>> THEN fids \ {f} ELSE fids \cup {f}

(* A lock or an unlock that nothing is in the way of. *)
Set(f, ld, ins, slp, ref) ==
    \E free \in Left :
        LET q == Flckadj(locks[f], ins, ld, free).q
        IN  /\ locks' = [locks EXCEPT ![f] = q]
            /\ Freefid(f, ref, q)
            /\ sleeplck' = slp

(* A lock is asked for: it is set; or refused, because the caller will not     *)
(* sleep (EACCES, when it may not want to) or must not (EDEADLK), or for want  *)
(* of a record (ENOSPC); or the caller sleeps on the lock in its way.          *)
Ask(f, ld, setlk, slp, ref) ==
    LET q == locks[f]
    IN  \/ /\ Found(q, ld) = {}
           /\ Set(f, ld, Insrt(q, ld), slp, ref)
        \/ \E i \in Found(q, ld) :
             /\ setlk \/ Deadflck(ld.pid, q[i].pid, slp) \/ 0 \in Left
             /\ Freefid(f, ref, q)
             /\ sleeplck' = slp
             /\ UNCHANGED locks
        \/ \E i \in Found(q, ld) :
             /\ ~Deadflck(ld.pid, q[i].pid, slp)
             /\ locks' = [locks EXCEPT ![f][i].sleepers = @ \cup {ld.pid}]
             /\ sleeplck' = [slp EXCEPT ![ld.pid] =
                               [file |-> f, ld |-> ld, blkpid |-> q[i].pid]]
             /\ refcnt' = [refcnt EXCEPT ![f] = ref]
             /\ fids' = fids \cup {f}

-----------------------------------------------------------------------------
(* A process is at a system call, not in SLEEP.  *)
Running(p) == sleeplck[p] = None

FaultySetLock(f, ld) ==
    /\ Running(ld.pid)
    /\ ld.type # "F_UNLCK"
    /\ ld.type = "F_RDLCK" => ld.pid \in Readers
    /\ f \in fids \/ Cardinality(fids) < MaxFids
    /\ Ask(f, ld, TRUE, sleeplck, refcnt[f])

(* F_SETLK and F_SETLKW of a lock, with a file identifier found or allocated.  *)
(* (Without one the call returns EMFILE and changes nothing, and an unlock of  *)
(* a file that has none returns at once.)                                      *)
SetLock(f, ld) ==
    /\ Running(ld.pid)
    /\ ld.type # "F_UNLCK"
    /\ ld.type = "F_RDLCK" => ld.pid \in Readers
    /\ f \in fids \/ Cardinality(fids) < MaxFids
    /\ Ask(f, ld, TRUE, sleeplck, refcnt[f] + 1)

Unlock(f, ld) ==
    /\ Running(ld.pid)
    /\ ld.type = "F_UNLCK"
    /\ f \in fids
    /\ Set(f, ld, IF locks[f] = <<>> THEN 0 ELSE 1, sleeplck, refcnt[f] + 1)

(* The SLEEP of p is over: it asks again. *)
Asleep(p) == \E f \in File : \E i \in DOMAIN locks[f] : p \in locks[f][i].sleepers

Resume(p) ==
    /\ sleeplck[p] # None /\ ~Asleep(p)
    /\ LET e == sleeplck[p]
       IN  Ask(e.file, e.ld, FALSE, [sleeplck EXCEPT ![p] = None], refcnt[e.file])

(* A signal ends it, or comes before p has run again: EINTR. *)
Interrupt(p) ==
    /\ sleeplck[p] # None
    /\ LET f == sleeplck[p].file
       IN  /\ locks' = [locks EXCEPT ![f] = [i \in DOMAIN @ |->
                          [locks[f][i] EXCEPT !.sleepers = @ \ {p}]]]
           /\ Freefid(f, refcnt[f], locks[f])
    /\ sleeplck' = [sleeplck EXCEPT ![p] = None]

(* The locks of q that are not p's. *)
Others(q, p) ==
    LET others[n \in 0 .. Len(q)] ==
            IF n = 0 THEN <<>>
            ELSE IF q[n].pid = p THEN others[n - 1] ELSE Append(others[n - 1], q[n])
    IN  others[Len(q)]

(* cleanlocks: a close of f by p, of whichever descriptor. *)
Cleanlocks(p, f) ==
    LET left == Others(locks[f], p)
    IN  /\ Running(p)
        /\ f \in fids
        /\ locks' = [locks EXCEPT ![f] = left]
        /\ Freefid(f, refcnt[f] + 1, left)
        /\ UNCHANGED sleeplck

Next ==
    \/ \E f \in File, ld \in Ld : SetLock(f, ld) \/ Unlock(f, ld)
    \/ \E p \in Proc : Resume(p) \/ Interrupt(p)
    \/ \E p \in Proc, f \in File : Cleanlocks(p, f)

Spec == Init /\ [][Next]_vars

-----------------------------------------------------------------------------
(* Properties. *)

TypeOK ==
    /\ fids \subseteq File
    /\ refcnt \in [File -> Nat]
    /\ locks \in [File -> Seq(Lock)]
    /\ sleeplck \in [Proc -> Sleeper \cup {None}]

(* The locks of a file are in the order of their start, as every scan of the   *)
(* list assumes, and those of one process neither overlap nor could be joined. *)
ListOrdered ==
    \A f \in File : \A i, j \in DOMAIN locks[f] :
        i < j => LET k == locks[f][i]
                     m == locks[f][j]
                 IN  /\ k.start <= m.start
                     /\ k.pid = m.pid => k.end < m.start \/ (k.end = m.start /\ k.type # m.type)

(* Nobody sleeps on a lock that is not, or is no longer, in its way: whatever  *)
(* a split, a cut or a change of type made of it, its sleepers were woken.     *)
NoLostWakeup ==
    \A f \in File : \A i \in DOMAIN locks[f] : \A p \in locks[f][i].sleepers :
        /\ sleeplck[p] # None /\ sleeplck[p].file = f
        /\ Conflicts(locks[f][i], sleeplck[p].ld)

(* The processes of no set of sleepers wait only for one another: one sleeps   *)
(* on a lock of a process outside and is woken when that goes.  (A sleeper     *)
(* with several locks in its way is checked against the first, and against the *)
(* next when it is woken, so it may be in a circle before it is told.)         *)
NoDeadlock ==
    \A S \in SUBSET {p \in Proc : Asleep(p)} : S # {} =>
        \E f \in File : \E i \in DOMAIN locks[f] :
            locks[f][i].sleepers \cap S # {} /\ locks[f][i].pid \notin S

(* The chains of sleepers that deadflck follows have an end, those that have   *)
(* been woken and are not yet back among them: the kernel never loops there.   *)
ChainsEnd ==
    \A S \in SUBSET {p \in Proc : sleeplck[p] # None} : S # {} =>
        \E p \in S : sleeplck[p].blkpid \notin S

(* A file keeps its identifier while it has locks or someone sleeps in setflck *)
(* with it.                                                                    *)
FidKept ==
    \A f \in File :
        /\ locks[f] # <<>> => f \in fids
        /\ Cardinality({p \in Proc : sleeplck[p] # None /\ sleeplck[p].file = f}) <= refcnt[f]
        /\ refcnt[f] > 0 => f \in fids

(* "blocked checks whether a new lock (lckdat) would be blocked by a previously *)
(* set lock owned by another process" (flock.c): so no two processes have       *)
(* locks in conflict.                                                          *)
NoConflict ==
    \A f \in File : \A i, j \in DOMAIN locks[f] : ~Conflicts(locks[f][i], locks[f][j])

(* What the list says of each byte. *)
Holds == [p \in Proc |-> [f \in File |-> [b \in 0 .. MaxEnd - 1 |->
            LET own == {i \in DOMAIN locks[f] : /\ locks[f][i].pid = p
                                                /\ locks[f][i].start <= b /\ b < locks[f][i].end}
            IN  IF own = {} THEN "none" ELSE locks[f][Min(own)].type]]]

Abstract == INSTANCE ByteLocks WITH holds <- Holds

(* The lists implement locks on bytes: a call gives a process exactly the bytes *)
(* it asks for, and never if another's are in the way, and takes from nobody    *)
(* else; one that fails for want of records may lose bytes it asked to change.  *)
ByteLocking == Abstract!Spec
=============================================================================
