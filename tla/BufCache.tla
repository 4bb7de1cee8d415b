------------------------------ MODULE BufCache ------------------------------
(***************************************************************************)
(* The cache of disk blocks, src/sys/COMMON/os/vfs_bio.c.  A process gets  *)
(* a block with bread, breada or getblk: a buffer that is its own (B_BUSY) *)
(* until it gives it back, perhaps to be written, now or when the buffer   *)
(* is wanted for another block.                                            *)
(*                                                                         *)
(* Blocks are of different sizes and may overlap: a mounted file system    *)
(* and its device read as a whole share the cache.  A block is named by    *)
(* where it begins and how long it is; that two blocks begin at the same   *)
(* place and differ in length is left out.                                 *)
(*                                                                         *)
(* Granularity.  The kernel is not preempted: a process runs (cpu) until   *)
(* it sleeps or goes back to its caller.  Between any two of its actions   *)
(* there may be an interrupt, biodone.  Where the code runs at spl6, or    *)
(* touches nothing that biodone touches, an action is several statements.  *)
(* The driver's strategy routine queues the request and does not sleep.    *)
(***************************************************************************)
EXTENDS Naturals, FiniteSets

CONSTANTS
    Proc,       \* the processes
    Buf,        \* the buffers, all of the largest size
    Block,      \* the blocks
    Sector,     \* what blocks are made of
    Covers,     \* the sectors of each block
    Ahead,      \* the block that is read ahead with a block, or None
    Update,     \* the blocks that are read, changed and written back
    Fifo,       \* the blocks of FIFOs: what was read of them is no longer wanted
    None,       \* no process, buffer or block
    Free        \* the channel &bfreelist[0]

ASSUME ConstantAssumption ==
    /\ Covers \in [Block -> SUBSET Sector]
    /\ Ahead \in [Block -> Block \cup {None}]
    /\ Update \subseteq Block /\ Fifo \subseteq Block
    /\ None \notin Proc \cup Buf \cup Block
    /\ Free \notin Buf \cup {None}

(* An operator called Faulty... is what a plausible bug would make of the        *)
(* definition after it.                                                          *)

VARIABLES
    buf,        \* struct buf of each buffer
    wantfree,   \* B_WANTED of bfreelist[0]: some process waits for any buffer
    proc,       \* where each process is in the cache's operations
    cpu,        \* the process that runs in the kernel, if it has not slept since
    disk        \* whether a sector of the disk holds what was written last

vars == <<buf, wantfree, proc, cpu, disk>>

(* blk: None when the buffer has no vnode or is B_INVAL, for then no search      *)
(* finds it.  len: b_bcount is not 0.  io: what it is queued for at the driver.  *)
(* cur: which of its sectors hold what was written last.                         *)
Buffer == [blk : Block \cup {None}, len : BOOLEAN, busy : BOOLEAN, wanted : BOOLEAN,
           done : BOOLEAN, error : BOOLEAN, delwri : BOOLEAN, async : BOOLEAN,
           io : {"none", "read", "write"}, cur : SUBSET Sector]

(* new: what was written last.  old: not yet, a buffer has it.  lost: and it     *)
(* never will, for it was given up with the buffer that had it.                  *)
Contents == [Sector -> {"new", "old", "lost"}]

(* bp: the buffer it has or will have; first: breada's, while it gets the other; *)
(* ep: the other buffer that it writes; chan: what it sleeps for.                *)
Process == [at : {"idle", "getblk", "newbuf", "realloc", "drop", "got", "ahead", "last",
                  "read", "hold", "write", "flush", "flushing"},
            op : {"none", "bread", "breada", "getblk", "geteblk", "blkflush"},
            blk : Block \cup {None}, ra : BOOLEAN, bp : Buf \cup {None},
            first : Buf \cup {None}, ep : Buf \cup {None}, chan : Buf \cup {Free, None}]

Empty == [blk |-> None, len |-> FALSE, busy |-> FALSE, wanted |-> FALSE, done |-> FALSE,
          error |-> FALSE, delwri |-> FALSE, async |-> FALSE, io |-> "none", cur |-> {}]

Idle == [at |-> "idle", op |-> "none", blk |-> None, ra |-> FALSE, bp |-> None,
         first |-> None, ep |-> None, chan |-> None]

Init ==
    /\ buf = [b \in Buf |-> Empty]
    /\ wantfree = FALSE
    /\ proc = [p \in Proc |-> Idle]
    /\ cpu = None
    /\ disk = [s \in Sector |-> "new"]

-----------------------------------------------------------------------------
(* The disk when S, which some buffer has, is so. *)
Become(S, how) == [s \in Sector |-> IF s \in S THEN how ELSE disk[s]]

Newest(S) == {s \in Sector \cap S : disk[s] = "new"}

(* The block that a process is after. *)
Target(p) == IF proc[p].ra THEN Ahead[proc[p].blk] ELSE proc[p].blk

FaultyOverlaps(x, y) == x = y

Overlaps(x, y) == Covers[x] \cap Covers[y] # {}

(* incore, and the search of getblk. *)
Maps(b, k) == buf[b].blk = k
Incore(k)  == \E b \in Buf : Maps(b, k)

FaultyClash(b, k) == buf[b].blk # None /\ Overlaps(buf[b].blk, k)

(* The search of brealloc and blkflush.  A buffer without a length has not got   *)
(* its block yet: whoever gets it looks for the others.                          *)
Clash(b, k) == buf[b].blk # None /\ buf[b].len /\ Overlaps(buf[b].blk, k)

Runs(p, at) == cpu \in {None, p} /\ proc[p].at = at /\ proc[p].chan = None

Goes(p, r) == proc' = [proc EXCEPT ![p] = r] /\ cpu' = p

Sleeps(p, at, chan) ==
    proc' = [proc EXCEPT ![p].at = at, ![p].chan = chan] /\ cpu' = None

FaultyWriting(r) == [r EXCEPT !.done = FALSE, !.error = FALSE, !.delwri = FALSE,
                              !.io = "write"]

(* A buffer on its way to the driver, in bwrite (after notavail) and in bread. *)
Writing(r) == [r EXCEPT !.done = FALSE, !.error = FALSE, !.delwri = FALSE, !.busy = TRUE,
                        !.io = "write"]
Reading(r) == [r EXCEPT !.io = "read"]
Async(r)   == [r EXCEPT !.async = TRUE]

(* brelse: the buffer, and the processes it wakes up.  One that has no block, or *)
(* loses it by an error, is as good as empty: what takes it clears its flags.    *)
Freed(r) == IF r.error \/ r.blk = None THEN Empty
            ELSE [r EXCEPT !.wanted = FALSE, !.busy = FALSE, !.async = FALSE]

FaultyWoken(q, b) ==
    IF q.chan = b /\ buf[b].wanted THEN [q EXCEPT !.chan = None] ELSE q

Woken(q, b) ==
    IF (q.chan = b /\ buf[b].wanted) \/ (q.chan = Free /\ wantfree)
    THEN [q EXCEPT !.chan = None] ELSE q

(* p gives back b, which has become r, and goes on as q. *)
Brelse(p, b, r, q) ==
    /\ buf' = [buf EXCEPT ![b] = Freed(r)]
    /\ wantfree' = FALSE
    /\ proc' = [x \in Proc |-> IF x = p THEN q ELSE Woken(proc[x], b)]
    /\ cpu' = IF q.at \in {"idle", "hold"} THEN None ELSE p

-----------------------------------------------------------------------------
(* A process begins an operation. *)

Begin(p, op, k) ==
    /\ Runs(p, "idle")
    /\ k = None <=> op = "geteblk"
    /\ op = "breada" => Ahead[k] # None
    /\ Goes(p, [Idle EXCEPT !.op = op, !.blk = k,
                            !.at = CASE op = "geteblk" -> "newbuf"
                                     [] op = "blkflush" -> "flush"
                                     [] op = "breada" /\ Incore(k) -> "ahead"
                                     [] OTHER -> "getblk"])
    /\ UNCHANGED <<buf, wantfree, disk>>

(* getblk: the block is there and in use... *)
GetblkSleep(p) ==
    /\ Runs(p, "getblk")
    /\ \E b \in Buf : /\ Maps(b, Target(p)) /\ buf[b].busy
                      /\ buf' = [buf EXCEPT ![b].wanted = TRUE]
                      /\ Sleeps(p, "getblk", b)
    /\ UNCHANGED <<wantfree, disk>>

(* ... or it is taken... *)
GetblkHit(p) ==
    /\ Runs(p, "getblk")
    /\ \E b \in Buf : /\ Maps(b, Target(p)) /\ ~buf[b].busy
                      /\ buf' = [buf EXCEPT ![b].busy = TRUE]
                      /\ Goes(p, [proc[p] EXCEPT !.bp = b, !.at = "got"])
    /\ UNCHANGED <<wantfree, disk>>

(* ... or it is not there. *)
GetblkMiss(p) ==
    /\ Runs(p, "getblk") /\ ~Incore(Target(p))
    /\ Goes(p, [proc[p] EXCEPT !.at = "newbuf"])
    /\ UNCHANGED <<buf, wantfree, disk>>

(* getnewbuf.  In which order free buffers are taken is left out. *)
NewbufSleep(p) ==
    /\ Runs(p, "newbuf") /\ \A b \in Buf : buf[b].busy
    /\ wantfree' = TRUE
    /\ Sleeps(p, "newbuf", Free)
    /\ UNCHANGED <<buf, disk>>

NewbufWrite(p) ==
    /\ Runs(p, "newbuf")
    /\ \E b \in Buf : /\ ~buf[b].busy /\ buf[b].delwri
                      /\ buf' = [buf EXCEPT ![b] = Async(Writing(@))]
    /\ Goes(p, proc[p])
    /\ UNCHANGED <<wantfree, disk>>

FaultyTakable(b) == ~buf[b].busy

Takable(b) == ~buf[b].busy /\ ~buf[b].delwri

(* The buffer is put where getblk finds it; geteblk's is found by nobody. *)
NewbufTake(p) ==
    /\ Runs(p, "newbuf")
    /\ \E b \in Buf :
        /\ Takable(b)
        /\ IF proc[p].op = "geteblk"
           THEN /\ buf' = [buf EXCEPT ![b] = [Empty EXCEPT !.busy = TRUE, !.len = TRUE]]
                /\ proc' = [proc EXCEPT ![p].bp = b, ![p].at = "hold"]
                /\ cpu' = None
           ELSE /\ buf' = [buf EXCEPT ![b] = [Empty EXCEPT !.busy = TRUE,
                                                           !.blk = Target(p)]]
                /\ Goes(p, [proc[p] EXCEPT !.bp = b, !.at = "realloc"])
    /\ UNCHANGED <<wantfree, disk>>

(* brealloc: "a disk block must be mapped by at most one buffer": what overlaps  *)
(* the new one is waited for, written, or made invalid.                          *)
ReallocSleep(p) ==
    /\ Runs(p, "realloc")
    /\ \E b \in Buf \ {proc[p].bp} :
        /\ Clash(b, Target(p)) /\ buf[b].busy
        /\ buf' = [buf EXCEPT ![b].wanted = TRUE]
        /\ Sleeps(p, "realloc", b)
    /\ UNCHANGED <<wantfree, disk>>

ReallocWrite(p) ==
    /\ Runs(p, "realloc")
    /\ \E b \in Buf \ {proc[p].bp} :
        /\ Clash(b, Target(p)) /\ ~buf[b].busy /\ buf[b].delwri
        /\ buf' = [buf EXCEPT ![b] = Writing(@)]
        /\ proc' = [proc EXCEPT ![p].at = "drop", ![p].ep = b, ![p].chan = b]
        /\ cpu' = None
    /\ UNCHANGED <<wantfree, disk>>

Dropped(p) ==
    LET b == proc[p].ep
    IN  /\ Runs(p, "drop") /\ buf[b].done
        /\ Brelse(p, b, buf[b], [proc[p] EXCEPT !.at = "realloc", !.ep = None])
        /\ UNCHANGED disk

ReallocInval(p) ==
    /\ Runs(p, "realloc")
    /\ \E b \in Buf \ {proc[p].bp} :
        /\ Clash(b, Target(p)) /\ ~buf[b].busy /\ ~buf[b].delwri
        /\ Brelse(p, b, [buf[b] EXCEPT !.blk = None], proc[p])
    /\ UNCHANGED disk

ReallocDone(p) ==
    /\ Runs(p, "realloc")
    /\ \A b \in Buf \ {proc[p].bp} : ~Clash(b, Target(p))
    /\ buf' = [buf EXCEPT ![proc[p].bp].len = TRUE]
    /\ Goes(p, [proc[p] EXCEPT !.at = "got"])
    /\ UNCHANGED <<wantfree, disk>>

-----------------------------------------------------------------------------
(* bread, breada and getblk with the buffer. *)

Got(p) ==
    LET q == proc[p]
        b == q.bp
    IN  /\ Runs(p, "got") /\ ~q.ra
        /\ buf' = [buf EXCEPT ![b] = IF @.done \/ q.op = "getblk" THEN @ ELSE Reading(@)]
        /\ IF q.op = "breada"
           THEN Goes(p, [q EXCEPT !.at = "ahead"])
           ELSE /\ proc' = [proc EXCEPT ![p].at = IF buf[b].done \/ q.op = "getblk"
                                                  THEN "hold" ELSE "read",
                                        ![p].chan = IF buf[b].done \/ q.op = "getblk"
                                                    THEN None ELSE b]
                /\ cpu' = None
        /\ UNCHANGED <<wantfree, disk>>

(* breada: the block to be read ahead, unless it is there. *)
ReadAhead(p) ==
    LET q == proc[p]
        k == Ahead[q.blk]
    IN  /\ Runs(p, "ahead")
        /\ Goes(p, [q EXCEPT !.at = IF Incore(k) THEN "last" ELSE "getblk", !.ra = ~Incore(k),
                             !.first = q.bp, !.bp = None])
        /\ UNCHANGED <<buf, wantfree, disk>>

GotAhead(p) ==
    LET q == proc[p]
        r == [q EXCEPT !.at = "last", !.ra = FALSE, !.bp = None]
        b == q.bp
    IN  /\ Runs(p, "got") /\ q.ra
        /\ IF buf[b].done
           THEN Brelse(p, b, buf[b], r)
           ELSE /\ buf' = [buf EXCEPT ![b] = Async(Reading(@))]
                /\ Goes(p, r)
                /\ UNCHANGED wantfree
        /\ UNCHANGED disk

(* A block that was there is read again, the other one is waited for. *)
Last(p) ==
    LET q == [proc[p] EXCEPT !.first = None, !.bp = proc[p].first, !.op = "bread"]
    IN  /\ Runs(p, "last")
        /\ Goes(p, [q EXCEPT !.at = IF q.bp = None THEN "getblk" ELSE "read"])
        /\ UNCHANGED <<buf, wantfree, disk>>

(* biowait. *)
ReadDone(p) ==
    /\ Runs(p, "read") /\ buf[proc[p].bp].done
    /\ proc' = [proc EXCEPT ![p].at = "hold"]
    /\ cpu' = None
    /\ UNCHANGED <<buf, wantfree, disk>>

ReadSleep(p) ==
    /\ Runs(p, "read") /\ ~buf[proc[p].bp].done
    /\ Sleeps(p, "read", proc[p].bp)
    /\ UNCHANGED <<buf, wantfree, disk>>

(* The caller is done with what it read... *)
Release(p) ==
    LET q == proc[p]
    IN  /\ Runs(p, "hold") /\ q.op # "getblk"
        /\ Brelse(p, q.bp, buf[q.bp], Idle)
        /\ UNCHANGED disk

(* ... or has read a block of a FIFO to its end: it need not be written. *)
Emptied(p) ==
    LET q == proc[p]
        b == q.bp
    IN  /\ Runs(p, "hold") /\ q.op = "bread" /\ q.blk \in Fifo /\ ~buf[b].error
        /\ Brelse(p, b, [buf[b] EXCEPT !.delwri = FALSE], Idle)
        /\ disk' = IF buf[b].delwri THEN Become(buf[b].cur, "lost") ELSE disk

(* The caller has written on the buffer: no other copy is what was written last. *)
Alone(b) == Covers[buf[b].blk]
Written(b) == [x \in Buf |-> [buf[x] EXCEPT !.cur = IF x = b THEN Alone(b)
                                                    ELSE @ \ Alone(b)]]

Writes(p) ==
    LET q == proc[p]
    IN  /\ Runs(p, "hold")
        /\ \/ q.op = "getblk"
           \/ q.op = "bread" /\ q.blk \in Update /\ ~buf[q.bp].error

Bdwrite(p) ==
    LET b == proc[p].bp
    IN  /\ Writes(p)
        /\ buf' = [Written(b) EXCEPT ![b] = Freed([@ EXCEPT !.delwri = TRUE,
                                                             !.done = TRUE])]
        /\ wantfree' = FALSE
        /\ proc' = [x \in Proc |-> IF x = p THEN Idle ELSE Woken(proc[x], b)]
        /\ cpu' = None
        /\ disk' = Become(Alone(b), "old")

Bwrite(p) ==
    LET b == proc[p].bp
    IN  /\ Writes(p)
        /\ buf' = [Written(b) EXCEPT ![b] = Writing(@)]
        /\ Sleeps(p, "write", b)
        /\ disk' = Become(Alone(b), "old")
        /\ UNCHANGED wantfree

Bawrite(p) ==
    LET b == proc[p].bp
    IN  /\ Writes(p)
        /\ buf' = [Written(b) EXCEPT ![b] = Async(Writing(@))]
        /\ proc' = [proc EXCEPT ![p] = Idle]
        /\ cpu' = None
        /\ disk' = Become(Alone(b), "old")
        /\ UNCHANGED wantfree

WriteDone(p) ==
    LET b == proc[p].bp
    IN  /\ Runs(p, "write") /\ buf[b].done
        /\ Brelse(p, b, buf[b], Idle)
        /\ UNCHANGED disk

-----------------------------------------------------------------------------
(* blkflush: the blocks that overlap it are waited for, and written. *)

FlushSleep(p) ==
    /\ Runs(p, "flush")
    /\ \E b \in Buf : /\ Clash(b, Target(p)) /\ buf[b].busy
                      /\ buf' = [buf EXCEPT ![b].wanted = TRUE]
                      /\ Sleeps(p, "flush", b)
    /\ UNCHANGED <<wantfree, disk>>

FlushWrite(p) ==
    /\ Runs(p, "flush")
    /\ \E b \in Buf : /\ Clash(b, Target(p)) /\ ~buf[b].busy /\ buf[b].delwri
                      /\ buf' = [buf EXCEPT ![b] = Writing(@)]
                      /\ proc' = [proc EXCEPT ![p].at = "flushing", ![p].ep = b,
                                              ![p].chan = b]
    /\ cpu' = None
    /\ UNCHANGED <<wantfree, disk>>

Flushed(p) ==
    LET b == proc[p].ep
    IN  /\ Runs(p, "flushing") /\ buf[b].done
        /\ Brelse(p, b, buf[b], [proc[p] EXCEPT !.at = "flush", !.ep = None])
        /\ UNCHANGED disk

FlushDone(p) ==
    /\ Runs(p, "flush")
    /\ \A b \in Buf : Clash(b, Target(p)) => ~buf[b].busy /\ ~buf[b].delwri
    /\ proc' = [proc EXCEPT ![p] = Idle]
    /\ cpu' = None
    /\ UNCHANGED <<buf, wantfree, disk>>

(* bflush, for sync: what waits to be written is written. *)
Started(b) == IF ~buf[b].busy /\ buf[b].delwri THEN Async(Writing(buf[b])) ELSE buf[b]

Bflush ==
    /\ cpu = None /\ \E b \in Buf : Started(b) # buf[b]
    /\ buf' = [b \in Buf |-> Started(b)]
    /\ UNCHANGED <<wantfree, proc, cpu, disk>>

(* The last close of the device: bflush and binval. *)
Close ==
    /\ cpu = None /\ \A p \in Proc : proc[p].at = "idle"
    /\ \E b \in Buf : buf[b].blk # None
    /\ buf' = [b \in Buf |-> IF Started(b).done THEN [buf[b] EXCEPT !.blk = None]
                             ELSE Started(b)]
    /\ UNCHANGED <<wantfree, proc, cpu, disk>>

(* biodone, for a request that may have failed.  put: the sectors written.  What *)
(* a write that fails has not put on the disk is given up: brelse lets the buffer *)
(* go, whoever wrote it, and if nobody waits for the write nobody is told.       *)
Ends(b, error, put) ==
    LET k == Covers[buf[b].blk]
        r == [buf[b] EXCEPT !.io = "none", !.done = TRUE, !.error = error,
                            !.cur = IF buf[b].io = "write" THEN @
                                    ELSE IF error THEN {} ELSE Newest(k)]
    IN  /\ IF buf[b].async
           THEN /\ buf' = [buf EXCEPT ![b] = Freed(r)]
                /\ wantfree' = FALSE
                /\ proc' = [q \in Proc |-> Woken(proc[q], b)]
           ELSE /\ buf' = [buf EXCEPT ![b] = [r EXCEPT !.wanted = FALSE]]
                /\ proc' = [q \in Proc |-> IF proc[q].chan # b THEN proc[q]
                                           ELSE [proc[q] EXCEPT !.chan = None]]
                /\ UNCHANGED wantfree
        /\ disk' = [s \in Sector |->
                        CASE s \in put \cap r.cur    -> "new"
                          [] s \in put \ r.cur       -> "old"
                          [] s \in (k \ put) \cap r.cur
                             /\ buf[b].io = "write"  -> "lost"
                          [] OTHER                   -> disk[s]]
        /\ UNCHANGED cpu

Biodone(b) ==
    /\ buf[b].io # "none"
    /\ \E error \in BOOLEAN, put \in SUBSET Sector :
        /\ put \subseteq Covers[buf[b].blk]
        /\ buf[b].io = "read" => put = {}
        /\ buf[b].io = "write" /\ ~error => put = Covers[buf[b].blk]
        /\ Ends(b, error, put)

-----------------------------------------------------------------------------
Step(p) ==
    \/ GetblkSleep(p) \/ GetblkMiss(p) \/ GetblkHit(p)
    \/ NewbufSleep(p) \/ NewbufWrite(p) \/ NewbufTake(p)
    \/ ReallocSleep(p) \/ ReallocWrite(p) \/ Dropped(p) \/ ReallocInval(p) \/ ReallocDone(p)
    \/ Got(p) \/ ReadAhead(p) \/ GotAhead(p) \/ Last(p) \/ ReadDone(p) \/ ReadSleep(p)
    \/ Release(p) \/ Emptied(p) \/ Bdwrite(p) \/ Bwrite(p) \/ Bawrite(p) \/ WriteDone(p)
    \/ FlushSleep(p) \/ FlushWrite(p) \/ Flushed(p) \/ FlushDone(p)

Next ==
    \/ \E p \in Proc : \/ Step(p)
                       \/ \E op \in {"bread", "breada", "getblk", "geteblk", "blkflush"},
                             k \in Block \cup {None} : Begin(p, op, k)
    \/ \E b \in Buf : Biodone(b)
    \/ Bflush \/ Close

Spec == Init /\ [][Next]_vars

-----------------------------------------------------------------------------
(* Properties. *)

TypeOK ==
    /\ buf \in [Buf -> Buffer]
    /\ \A b \in Buf : buf[b].io # "none" => buf[b].busy
    /\ wantfree \in BOOLEAN
    /\ proc \in [Proc -> Process]
    /\ cpu \in Proc \cup {None}
    /\ disk \in Contents

(* "A disk block must be mapped by at most one buffer at any point in time":    *)
(* no two buffers that have got their blocks share a sector.                    *)
MappedOnce ==
    \A b, c \in Buf :
        /\ b # c /\ buf[b].len /\ buf[c].len
        /\ None \notin {buf[b].blk, buf[c].blk}
        => Covers[buf[b].blk] \cap Covers[buf[c].blk] = {}

(* Whoever reads a block, from the disk or the cache, gets of each sector what   *)
(* was written last, through whichever block it was written; unless that was     *)
(* given up, because a write of it failed or because it was read from a FIFO.    *)
Current ==
    \A b \in Buf : buf[b].blk # None /\ buf[b].done /\ ~buf[b].error =>
        \A s \in Covers[buf[b].blk] \ buf[b].cur : disk[s] = "lost"

(* Who sleeps will be woken up: the buffer is in use and known to be wanted, or *)
(* at the driver; and there is no buffer to be had when one is waited for.      *)
NoLostWakeup ==
    \A p \in Proc :
        LET c == proc[p].chan
        IN  /\ c \in Buf => buf[c].busy /\ (buf[c].wanted \/ buf[c].io # "none")
            /\ c = Free => wantfree /\ \A b \in Buf : buf[b].busy

(* "Care must be taken to avoid deadlocking when two buffer are trying to get   *)
(* the same set of disk blocks": no processes wait only for each other, each    *)
(* for a buffer that others of them have, or for any buffer when they have all. *)
Has(p)       == {proc[p].bp, proc[p].first, proc[p].ep} \ {None}
WaitsFor(p)  == IF proc[p].chan = Free THEN Buf ELSE {proc[p].chan}
Stuck(b, S)  == buf[b].io = "none" /\ \A q \in Proc : b \in Has(q) => q \in S

NoDeadlock ==
    \A S \in (SUBSET Proc) \ {{}} :
        \E p \in S : proc[p].chan = None \/ \E b \in WaitsFor(p) : ~Stuck(b, S)

(* Of any blocks, one is not read ahead with, or with what overlaps none of      *)
(* them: there is no circle of blocks each read ahead with the one before.       *)
AheadEnds ==
    \A T \in (SUBSET Block) \ {{}} :
        \E k \in T : \/ Ahead[k] = None
                     \/ \A j \in T : j # Ahead[k] /\ ~Overlaps(j, Ahead[k])

(* With what is read ahead, nothing is read ahead.                               *)
OneAhead ==
    \A k, j \in Block : None \notin {Ahead[k], Ahead[j]} =>
        j # Ahead[k] /\ ~Overlaps(j, Ahead[k])

(* A process has two buffers at most, and one that waits for any buffer has one. *)
EnoughBuffers ==
    /\ IsFiniteSet(Proc) /\ IsFiniteSet(Buf)
    /\ \/ 2 * Cardinality(Proc) <= Cardinality(Buf)
       \/ OneAhead /\ Cardinality(Proc) < Cardinality(Buf)
=============================================================================
