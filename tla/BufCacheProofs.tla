--------------------------- MODULE BufCacheProofs ---------------------------
(***************************************************************************)
(* For any numbers of processes, buffers and blocks: the cache's state has *)
(* its type, no sector of the disk is mapped by two buffers, no wakeup and *)
(* no buffer is lost, and whoever reads gets what was written last.        *)
(*                                                                         *)
(* MappedOnce can only break where brealloc ends its search.  That it does *)
(* not rests on the new buffer still being the one that getblk entered for *)
(* the block, whatever happened while brealloc slept: a buffer that a      *)
(* process has, under any of the three names, is nobody else's (HeldOnce), *)
(* busy, and never left to the driver to give back (Mine).                 *)
(***************************************************************************)
EXTENDS BufCache, FiniteSetTheorems, TLAPS

(* What is so of a process and the buffers it has. *)
Mine(p) ==
    LET q == proc[p]
    IN  /\ q.at = "idle" => Has(p) = {}
        /\ q.at # "idle" => q.op # "none"
        /\ q.op \notin {"none", "geteblk"} => q.blk \in Block
        /\ q.op = "breada" => Ahead[q.blk] \in Block
        /\ q.at \in {"ahead", "last"} => q.op = "breada" /\ ~q.ra
        /\ q.ra => q.op = "breada"
        /\ q.at \in {"realloc", "drop", "got", "read", "hold", "write"} => q.bp \in Buf
        /\ q.at \in {"drop", "flushing"} => q.ep \in Buf
        /\ q.at \notin {"drop", "flushing"} => q.ep = None
        /\ q.bp # None => q.bp # q.first /\ q.bp # q.ep
        /\ q.first # None => q.first # q.ep
        /\ \A b \in Has(p) : /\ buf[b].busy /\ ~buf[b].async
                             /\ q.op # "geteblk" => buf[b].blk \in Block
        /\ q.at \in {"realloc", "drop"} => buf[q.bp].blk = Target(p)
        /\ q.at \in {"realloc", "drop", "got", "hold"} => buf[q.bp].io = "none"

HeldOnce == \A p, q \in Proc : p # q => Has(p) \cap Has(q) = {}

(* What the driver works on, or gives back, is in use. *)
AtDriver ==
    \A b \in Buf : /\ buf[b].done => buf[b].io = "none"
                   /\ buf[b].async => buf[b].busy

IInv ==
    /\ TypeOK
    /\ AtDriver
    /\ \A p \in Proc : Mine(p)
    /\ HeldOnce
    /\ MappedOnce

Points == {"idle", "getblk", "newbuf", "realloc", "drop", "got", "ahead", "last", "read",
           "hold", "write", "flush", "flushing"}

(* A process as the others see it, whether or not it sleeps. *)
SameBut(q) ==
    /\ proc'[q].at = proc[q].at /\ proc'[q].op = proc[q].op /\ proc'[q].blk = proc[q].blk
    /\ proc'[q].ra = proc[q].ra /\ proc'[q].bp = proc[q].bp
    /\ proc'[q].first = proc[q].first /\ proc'[q].ep = proc[q].ep

(* A buffer as the process that has it sees it. *)
Kept(b) ==
    /\ buf'[b].busy = buf[b].busy /\ buf'[b].async = buf[b].async
    /\ buf'[b].blk = buf[b].blk /\ buf'[b].io \in {"none", buf[b].io}

(* A buffer that is mapped was so before. *)
NotMapped(b) ==
    \/ buf'[b].blk = None
    \/ ~buf'[b].len
    \/ buf'[b].blk = buf[b].blk /\ buf[b].len

-----------------------------------------------------------------------------
(* What a process has is kept by what it does not do. *)
LEMMA MineKept ==
    ASSUME NEW q \in Proc, Mine(q), SameBut(q), \A b \in Has(q) : b \in Buf /\ Kept(b)
    PROVE  Mine(q)'
<1>1. Has(q)' = Has(q) /\ Target(q)' = Target(q)
  BY DEF Has, Target, SameBut
<1>2. proc[q].at \in {"realloc", "drop", "got", "hold"} => proc[q].bp \in Has(q)
  BY ConstantAssumption DEF Mine, Has
<1> QED
  BY <1>1, <1>2 DEF Mine, SameBut, Kept

(* No two buffers come to map a sector if none comes to map what it did not. *)
LEMMA NoneMapped ==
    ASSUME MappedOnce, \A b \in Buf : NotMapped(b)
    PROVE  MappedOnce'
  BY DEF MappedOnce, NotMapped

(* What a process has is a buffer, busy and not to be given back by the driver. *)
LEMMA HasBusy ==
    ASSUME IInv, NEW q \in Proc, NEW b \in Has(q)
    PROVE  b \in Buf /\ buf[b].busy /\ ~buf[b].async
<1>1. proc[q] \in Process
  BY DEF IInv, TypeOK
<1>2. b \in Buf
  BY <1>1 DEF Process, Has
<1>3. Mine(q)
  BY DEF IInv
<1> QED
  BY <1>2, <1>3 DEF Mine

(* A step of a process changes the process, the buffers it has, and buffers that *)
(* nobody has.                                                                   *)
LEMMA StepKept ==
    ASSUME IInv, NEW p \in Proc, TypeOK', AtDriver', Mine(p)',
           \A q \in Proc \ {p} : SameBut(q),
           \A b \in Buf : Kept(b) \/ b \in Has(p) \/ ~buf[b].busy,
           \A b \in Has(p)' : b \in Has(p) \/ ~buf[b].busy,
           MappedOnce'
    PROVE  IInv'
<1>1. \A q \in Proc \ {p} : Has(q)' = Has(q)
  BY DEF Has, SameBut
<1>2. \A q \in Proc : \A b \in Has(q) : b \in Buf /\ buf[b].busy
  BY HasBusy
<1>3. \A q \in Proc \ {p} : Mine(q)'
  <2> SUFFICES ASSUME NEW q \in Proc \ {p} PROVE Mine(q)'
    OBVIOUS
  <2>1. \A b \in Has(q) : b \in Buf /\ Kept(b)
    BY <1>2 DEF IInv, HeldOnce
  <2> QED
    BY <2>1, MineKept DEF IInv
<1>4. HeldOnce'
  <2> SUFFICES ASSUME NEW q \in Proc, NEW r \in Proc, q # r
               PROVE  (Has(q) \cap Has(r))' = {}
    BY DEF HeldOnce
  <2>1. (Has(q) \cap Has(r))' = Has(q)' \cap Has(r)'
    OBVIOUS
  <2>2. Has(q) \cap Has(r) = {}
    BY DEF IInv, HeldOnce
  <2> QED
    BY <1>1, <1>2, <2>1, <2>2
<1> QED
  BY <1>3, <1>4 DEF IInv, AtDriver

(* A step of no process leaves alone the buffers that processes have. *)
LEMMA OutsideKept ==
    ASSUME IInv, TypeOK', AtDriver', MappedOnce',
           \A q \in Proc : SameBut(q),
           \A b \in Buf : Kept(b) \/ ~buf[b].busy \/ buf[b].async
    PROVE  IInv'
<1>1. \A q \in Proc : Has(q)' = Has(q)
  BY DEF Has, SameBut
<1>2. \A q \in Proc : \A b \in Has(q) : b \in Buf /\ Kept(b)
  BY HasBusy
<1>3. \A q \in Proc : Mine(q)'
  BY <1>2, MineKept DEF IInv
<1>4. HeldOnce'
  BY <1>1 DEF IInv, HeldOnce
<1> QED
  BY <1>3, <1>4 DEF IInv, AtDriver

-----------------------------------------------------------------------------
(* What is done to a buffer. *)

LEMMA WantedRec ==
    ASSUME NEW r \in Buffer, NEW w \in BOOLEAN
    PROVE  LET x == [r EXCEPT !.wanted = w]
           IN  /\ x \in Buffer
               /\ x.busy = r.busy /\ x.async = r.async /\ x.blk = r.blk /\ x.io = r.io
               /\ x.len = r.len /\ x.done = r.done
  BY DEF Buffer

LEMMA WritingRec ==
    ASSUME NEW r \in Buffer
    PROVE  /\ Writing(r) \in Buffer
           /\ Writing(r).busy /\ Writing(r).async = r.async /\ Writing(r).blk = r.blk
           /\ ~Writing(r).done /\ Writing(r).len = r.len
  BY DEF Buffer, Writing

LEMMA ReadingRec ==
    ASSUME NEW r \in Buffer
    PROVE  /\ Reading(r) \in Buffer
           /\ Reading(r).busy = r.busy /\ Reading(r).async = r.async
           /\ Reading(r).blk = r.blk /\ Reading(r).done = r.done /\ Reading(r).len = r.len
  BY DEF Buffer, Reading

LEMMA AsyncRec ==
    ASSUME NEW r \in Buffer
    PROVE  /\ Async(r) \in Buffer
           /\ Async(r).busy = r.busy /\ Async(r).async /\ Async(r).blk = r.blk
           /\ Async(r).done = r.done /\ Async(r).len = r.len /\ Async(r).io = r.io
  BY DEF Buffer, Async

LEMMA FreedRec ==
    ASSUME NEW r \in Buffer
    PROVE  /\ Freed(r) \in Buffer
           /\ Freed(r).blk \in {r.blk, None}
           /\ Freed(r).done => r.done
           /\ Freed(r).blk # None => Freed(r).len = r.len
           /\ Freed(r).io \in {r.io, "none"}
           /\ Freed(r).busy = FALSE /\ Freed(r).async = FALSE
<1>1. CASE r.error \/ r.blk = None
  BY <1>1 DEF Buffer, Freed, Empty
<1>2. CASE ~r.error /\ r.blk # None
  BY <1>2 DEF Buffer, Freed
<1> QED
  BY <1>1, <1>2

(* A buffer that is marked as wanted. *)
LEMMA WantedKept ==
    ASSUME IInv, NEW b \in Buf, NEW w \in BOOLEAN, buf' = [buf EXCEPT ![b].wanted = w]
    PROVE  /\ buf' \in [Buf -> Buffer]
           /\ \A x \in Buf : /\ Kept(x) /\ NotMapped(x)
                             /\ buf'[x].io = buf[x].io /\ buf'[x].done = buf[x].done
<1>1. buf \in [Buf -> Buffer]
  BY DEF IInv, TypeOK
<1>2. buf' = [buf EXCEPT ![b] = [buf[b] EXCEPT !.wanted = w]]
  OBVIOUS
<1>3. buf[b] \in Buffer
  BY <1>1
<1> DEFINE r == [buf[b] EXCEPT !.wanted = w]
<1>4. /\ r \in Buffer
      /\ r.busy = buf[b].busy /\ r.async = buf[b].async /\ r.blk = buf[b].blk
      /\ r.io = buf[b].io /\ r.len = buf[b].len /\ r.done = buf[b].done
  BY <1>3, WantedRec
<1>5. buf' = [buf EXCEPT ![b] = r]
  BY <1>2
<1> HIDE DEF r
<1>6. buf' \in [Buf -> Buffer] /\ \A x \in Buf : buf'[x] = IF x = b THEN r ELSE buf[x]
  BY <1>1, <1>4, <1>5
<1>7. ASSUME NEW x \in Buf
      PROVE  /\ Kept(x) /\ NotMapped(x)
             /\ buf'[x].io = buf[x].io /\ buf'[x].done = buf[x].done
  <2>1. CASE x = b
    BY <1>4, <1>6, <2>1 DEF Kept, NotMapped
  <2>2. CASE x # b
    BY <1>6, <2>2 DEF Kept, NotMapped
  <2> QED
    BY <2>1, <2>2
<1> QED
  BY <1>6, <1>7

-----------------------------------------------------------------------------
(* One buffer changes, or one process. *)

LEMMA BufStep ==
    ASSUME IInv, NEW b \in Buf, NEW r \in Buffer, buf' = [buf EXCEPT ![b] = r],
           r.done => r.io = "none", r.io # "none" => r.busy, r.async => r.busy
    PROVE  /\ buf' \in [Buf -> Buffer] /\ buf'[b] = r
           /\ \A x \in Buf \ {b} : Kept(x) /\ NotMapped(x) /\ buf'[x] = buf[x]
           /\ \A x \in Buf : buf'[x].io # "none" => buf'[x].busy
           /\ AtDriver'
<1>1. buf \in [Buf -> Buffer] /\ AtDriver /\ \A x \in Buf : buf[x].io # "none" => buf[x].busy
  BY DEF IInv, TypeOK, AtDriver
<1>2. buf' \in [Buf -> Buffer] /\ \A x \in Buf : buf'[x] = IF x = b THEN r ELSE buf[x]
  BY <1>1
<1>3. \A x \in Buf \ {b} : Kept(x) /\ NotMapped(x) /\ buf'[x] = buf[x]
  BY <1>2 DEF Kept, NotMapped
<1> QED
  BY <1>1, <1>2, <1>3 DEF AtDriver

LEMMA ProcStep ==
    ASSUME IInv, NEW p \in Proc, NEW q \in Process, proc' = [proc EXCEPT ![p] = q]
    PROVE  /\ proc' \in [Proc -> Process] /\ proc'[p] = q
           /\ \A x \in Proc \ {p} : SameBut(x)
<1>1. proc \in [Proc -> Process]
  BY DEF IInv, TypeOK
<1>2. proc' \in [Proc -> Process] /\ \A x \in Proc : proc'[x] = IF x = p THEN q ELSE proc[x]
  BY <1>1
<1> QED
  BY <1>2 DEF SameBut

(* A process that goes on with the same names for the same buffers. *)
LEMMA MineAt ==
    ASSUME IInv, NEW p \in Proc, proc'[p].at # "idle",
           proc'[p].op = proc[p].op, proc'[p].blk = proc[p].blk, proc'[p].ra = proc[p].ra,
           proc'[p].bp = proc[p].bp, proc'[p].first = proc[p].first,
           proc'[p].ep = proc[p].ep,
           proc[p].at # "idle",
           \A b \in Has(p) : /\ buf'[b].busy = buf[b].busy /\ buf'[b].async = buf[b].async
                             /\ buf'[b].blk = buf[b].blk,
           proc'[p].at \in {"ahead", "last"} => proc[p].op = "breada" /\ ~proc[p].ra,
           proc'[p].at \in {"realloc", "drop", "got", "read", "hold", "write"} =>
                proc[p].bp \in Buf,
           proc'[p].at \in {"drop", "flushing"} <=> proc[p].at \in {"drop", "flushing"},
           proc'[p].at \in {"realloc", "drop"} => proc[p].at \in {"realloc", "drop"},
           proc'[p].at \in {"realloc", "drop", "got", "hold"} =>
                buf'[proc[p].bp].io = "none"
    PROVE  Mine(p)'
<1>1. Mine(p)
  BY DEF IInv
<1>2. Has(p)' = Has(p) /\ Target(p)' = Target(p)
  BY DEF Has, Target
<1>3. proc[p].at \in {"realloc", "drop"} => proc[p].bp \in Has(p)
  BY <1>1, ConstantAssumption DEF Mine, Has
<1> QED
  BY <1>1, <1>2, <1>3 DEF Mine

-----------------------------------------------------------------------------
(* The steps. *)

(* A process that goes to sleep for a buffer that it marks as wanted. *)
LEMMA SleepKeeps ==
    ASSUME IInv, NEW p \in Proc, NEW at, proc[p].at = at,
           NEW b \in Buf, buf' = [buf EXCEPT ![b].wanted = TRUE],
           Sleeps(p, at, b), UNCHANGED <<wantfree, disk>>
    PROVE  IInv'
<1>1. proc \in [Proc -> Process] /\ proc[p] \in Process
  BY DEF IInv, TypeOK
<1>2. proc' = [proc EXCEPT ![p] = [proc[p] EXCEPT !.at = at, !.chan = b]]
  BY DEF Sleeps
<1>3. /\ [proc[p] EXCEPT !.at = at, !.chan = b] \in Process
      /\ LET q == [proc[p] EXCEPT !.at = at, !.chan = b]
         IN  /\ q.at = at /\ q.op = proc[p].op /\ q.blk = proc[p].blk /\ q.ra = proc[p].ra
             /\ q.bp = proc[p].bp /\ q.first = proc[p].first /\ q.ep = proc[p].ep
  BY <1>1 DEF Process
<1>4. proc' \in [Proc -> Process] /\ \A q \in Proc : SameBut(q)
  BY <1>1, <1>2, <1>3 DEF SameBut
<1>5. cpu' = None
  BY DEF Sleeps
<1>6. TypeOK'
  BY <1>4, <1>5, WantedKept DEF IInv, TypeOK, Kept
<1>7. AtDriver'
  BY WantedKept DEF IInv, AtDriver, Kept
<1> QED
  BY <1>4, <1>6, <1>7, WantedKept, NoneMapped, OutsideKept DEF IInv

LEMMA GetblkSleepKeeps ==
    ASSUME IInv, NEW p \in Proc, GetblkSleep(p) PROVE IInv'
  BY SleepKeeps DEF GetblkSleep, Runs

(* A process at another place, asleep or not. *)
MovedTo(q, at, c) == [q EXCEPT !.at = at, !.chan = c]

LEMMA MovedRec ==
    ASSUME NEW q \in Process, NEW at \in Points, NEW c \in Buf \cup {Free, None}
    PROVE  /\ MovedTo(q, at, c) \in Process
           /\ MovedTo(q, at, c).at = at /\ MovedTo(q, at, c).op = q.op
           /\ MovedTo(q, at, c).blk = q.blk /\ MovedTo(q, at, c).ra = q.ra
           /\ MovedTo(q, at, c).bp = q.bp /\ MovedTo(q, at, c).first = q.first
           /\ MovedTo(q, at, c).ep = q.ep
<1>1. MovedTo(q, at, c) \in Process
  BY DEF MovedTo, Process, Points
<1> QED
  BY <1>1 DEF MovedTo, Process

(* A process that changes no buffer and only goes from one place to another. *)
MovesTo(p, at) ==
    /\ proc' \in [Proc -> Process] /\ \A x \in Proc \ {p} : SameBut(x)
    /\ proc'[p].at = at /\ proc'[p].op = proc[p].op /\ proc'[p].blk = proc[p].blk
    /\ proc'[p].ra = proc[p].ra /\ proc'[p].bp = proc[p].bp
    /\ proc'[p].first = proc[p].first /\ proc'[p].ep = proc[p].ep

LEMMA MovesProc ==
    ASSUME IInv, NEW p \in Proc, NEW at \in Points, NEW c \in Buf \cup {Free, None},
           \/ proc' = [proc EXCEPT ![p] = [proc[p] EXCEPT !.at = at]]
           \/ proc' = [proc EXCEPT ![p] = [proc[p] EXCEPT !.at = at, !.chan = c]]
    PROVE  MovesTo(p, at)
<1>1. proc[p] \in Process
  BY DEF IInv, TypeOK
<1> DEFINE q == [proc[p] EXCEPT !.at = at]
           r == MovedTo(proc[p], at, c)
<1>2. /\ q \in Process
      /\ q.at = at /\ q.op = proc[p].op /\ q.blk = proc[p].blk /\ q.ra = proc[p].ra
      /\ q.bp = proc[p].bp /\ q.first = proc[p].first /\ q.ep = proc[p].ep
  BY <1>1 DEF Process, Points
<1>3. /\ r \in Process
      /\ r.at = at /\ r.op = proc[p].op /\ r.blk = proc[p].blk /\ r.ra = proc[p].ra
      /\ r.bp = proc[p].bp /\ r.first = proc[p].first /\ r.ep = proc[p].ep
  BY <1>1, MovedRec
<1>4. proc' = [proc EXCEPT ![p] = q] \/ proc' = [proc EXCEPT ![p] = r]
  BY DEF MovedTo
<1> HIDE DEF q, r
<1> QED
  BY <1>2, <1>3, <1>4, ProcStep DEF MovesTo

LEMMA MoveKeeps ==
    ASSUME IInv, NEW p \in Proc, NEW at, MovesTo(p, at),
           cpu' \in Proc \cup {None}, wantfree' \in BOOLEAN, buf' = buf, disk' = disk,
           proc[p].at \notin {"idle", "drop", "flushing"},
           at \in {"newbuf", "read", "hold"},
           at # "newbuf" => proc[p].bp \in Buf,
           at = "hold" => buf[proc[p].bp].io = "none"
    PROVE  IInv'
<1>4. \A x \in Buf : Kept(x) /\ NotMapped(x)
  BY DEF Kept, NotMapped
<1>5. TypeOK' /\ AtDriver'
  BY DEF IInv, TypeOK, AtDriver, MovesTo
<1>6. Mine(p)'
  BY MineAt DEF MovesTo
<1>7. Has(p)' = Has(p)
  BY DEF Has, MovesTo
<1> QED
  BY <1>4, <1>5, <1>6, <1>7, NoneMapped, StepKept DEF IInv, MovesTo

LEMMA MovesKeep ==
    ASSUME IInv, NEW p \in Proc,
           \/ GetblkMiss(p) \/ NewbufSleep(p) \/ ReadDone(p) \/ ReadSleep(p)
    PROVE  IInv'
<1>1. /\ wantfree \in BOOLEAN /\ Mine(p) /\ proc[p].bp \in Buf \cup {None}
      /\ AtDriver /\ proc \in [Proc -> Process]
  <2>1. proc[p] \in Process
    BY DEF IInv, TypeOK
  <2> QED
    BY <2>1 DEF IInv, TypeOK, Process
<1>2. CASE GetblkMiss(p)
  <2>1. MovesTo(p, "newbuf")
    <3>1. proc' = [proc EXCEPT ![p] = [proc[p] EXCEPT !.at = "newbuf"]]
      BY <1>2 DEF GetblkMiss, Goes
    <3> QED
      BY <3>1, MovesProc DEF Points
  <2> QED
    BY <1>1, <1>2, <2>1, MoveKeeps DEF GetblkMiss, Goes, Runs
<1>3. CASE NewbufSleep(p)
  <2>1. MovesTo(p, "newbuf")
    <3>1. proc' = [proc EXCEPT ![p] = [proc[p] EXCEPT !.at = "newbuf", !.chan = Free]]
      BY <1>1, <1>3 DEF NewbufSleep, Sleeps
    <3> QED
      BY <3>1, MovesProc DEF Points
  <2> QED
    BY <1>1, <1>3, <2>1, MoveKeeps DEF NewbufSleep, Sleeps, Runs
<1>4. CASE ReadDone(p)
  <2>1. MovesTo(p, "hold")
    <3>1. proc' = [proc EXCEPT ![p] = [proc[p] EXCEPT !.at = "hold"]]
      BY <1>1, <1>4 DEF ReadDone
    <3> QED
      BY <3>1, MovesProc DEF Points
  <2>2. proc[p].bp \in Buf
    BY <1>1, <1>4 DEF ReadDone, Runs, Mine
  <2>3. buf[proc[p].bp].io = "none"
    BY <1>1, <1>4, <2>2 DEF ReadDone, AtDriver
  <2> QED
    BY <1>1, <1>4, <2>1, <2>2, <2>3, MoveKeeps DEF ReadDone, Runs
<1>5. CASE ReadSleep(p)
  <2>2. proc[p].bp \in Buf
    BY <1>1, <1>5 DEF ReadSleep, Runs, Mine
  <2>1. MovesTo(p, "read")
    <3>1. proc' = [proc EXCEPT ![p] = [proc[p] EXCEPT !.at = "read", !.chan = proc[p].bp]]
      BY <1>1, <1>5 DEF ReadSleep, Sleeps
    <3> QED
      BY <2>2, <3>1, MovesProc DEF Points
  <2> QED
    BY <1>1, <1>5, <2>1, <2>2, MoveKeeps DEF ReadSleep, Sleeps, Runs
<1> QED
  BY <1>2, <1>3, <1>4, <1>5

LEMMA SleepsKeep ==
    ASSUME IInv, NEW p \in Proc, ReallocSleep(p) \/ FlushSleep(p) PROVE IInv'
<1>1. CASE ReallocSleep(p)
  BY <1>1, SleepKeeps DEF ReallocSleep, Runs
<1>2. CASE FlushSleep(p)
  BY <1>2, SleepKeeps DEF FlushSleep, Runs
<1> QED
  BY <1>1, <1>2

(* A process whose names for buffers become fewer, or change places. *)
LEMMA NamesKeep ==
    ASSUME IInv, NEW p \in Proc, NEW q \in Process, proc' = [proc EXCEPT ![p] = q],
           cpu' \in Proc \cup {None}, UNCHANGED <<buf, wantfree, disk>>,
           Has(p)' \subseteq Has(p), Mine(p)'
    PROVE  IInv'
<1>1. proc' \in [Proc -> Process] /\ \A x \in Proc \ {p} : SameBut(x)
  BY ProcStep
<1>2. \A x \in Buf : Kept(x) /\ NotMapped(x)
  BY DEF Kept, NotMapped
<1>3. TypeOK' /\ AtDriver'
  BY <1>1 DEF IInv, TypeOK, AtDriver
<1> QED
  BY <1>1, <1>2, <1>3, NoneMapped, StepKept DEF IInv

(* A process that is through, and one that begins. *)
LEMMA IdleRec ==
    /\ Idle \in Process
    /\ Idle.at = "idle" /\ Idle.op = "none" /\ Idle.ra = FALSE
    /\ Idle.bp = None /\ Idle.first = None /\ Idle.ep = None
  BY DEF Idle, Process

LEMMA IdleMine ==
    ASSUME NEW p \in Proc, proc'[p] = Idle PROVE Has(p)' = {} /\ Mine(p)'
<1>1. Has(p)' = {}
  BY IdleRec DEF Has
<1> QED
  BY <1>1, IdleRec DEF Mine

LEMMA NamesSteps ==
    ASSUME IInv, NEW p \in Proc, FlushDone(p) \/ ReadAhead(p) \/ Last(p)
    PROVE  IInv'
<1>1. /\ proc \in [Proc -> Process] /\ proc[p] \in Process /\ Mine(p)
      /\ cpu \in Proc \cup {None}
  BY DEF IInv, TypeOK
<1>2. CASE FlushDone(p)
  <2>1. proc' = [proc EXCEPT ![p] = Idle] /\ proc'[p] = Idle
    BY <1>1, <1>2 DEF FlushDone
  <2>2. cpu' \in Proc \cup {None} /\ UNCHANGED <<buf, wantfree, disk>>
    BY <1>2 DEF FlushDone
  <2> QED
    BY <2>1, <2>2, IdleRec, IdleMine, NamesKeep
<1>3. CASE ReadAhead(p)
  <2> DEFINE k == Ahead[proc[p].blk]
             r == [proc[p] EXCEPT !.at = IF Incore(k) THEN "last" ELSE "getblk",
                                  !.ra = ~Incore(k), !.first = proc[p].bp, !.bp = None]
  <2>1. /\ r \in Process
        /\ r.at = (IF Incore(k) THEN "last" ELSE "getblk") /\ r.ra = ~Incore(k)
        /\ r.op = proc[p].op /\ r.blk = proc[p].blk /\ r.first = proc[p].bp
        /\ r.bp = None /\ r.ep = proc[p].ep
    <3> DEFINE i == Incore(k)
    <3>1. i \in BOOLEAN
      BY DEF Incore, Maps
    <3> HIDE DEF i
    <3> QED
      BY <1>1, <3>1, ZenonT(40) DEF Process
  <2>2. proc' = [proc EXCEPT ![p] = r] /\ cpu' = p /\ UNCHANGED <<buf, wantfree, disk>>
    BY <1>3 DEF ReadAhead, Goes
  <2>3. proc[p].at = "ahead"
    BY <1>3 DEF ReadAhead, Runs
  <2> HIDE DEF r
  <2>4. proc'[p] = r
    BY <1>1, <2>2
  <2>5. Has(p)' \subseteq Has(p)
    BY <2>1, <2>4 DEF Has
  <2>6. Mine(p)'
    BY <1>1, <2>1, <2>2, <2>3, <2>4, <2>5 DEF Mine
  <2> QED
    BY <2>1, <2>2, <2>5, <2>6, NamesKeep
<1>4. CASE Last(p)
  <2> DEFINE f == proc[p].first
             q == [proc[p] EXCEPT !.first = None, !.bp = f, !.op = "bread"]
             r == [q EXCEPT !.at = IF q.bp = None THEN "getblk" ELSE "read"]
  <2>1. /\ r \in Process
        /\ r.at = (IF f = None THEN "getblk" ELSE "read") /\ r.ra = proc[p].ra
        /\ r.op = "bread" /\ r.blk = proc[p].blk /\ r.first = None
        /\ r.bp = f /\ r.ep = proc[p].ep
    BY <1>1 DEF Process
  <2>2. proc' = [proc EXCEPT ![p] = r] /\ cpu' = p /\ UNCHANGED <<buf, wantfree, disk>>
    BY <1>4 DEF Last, Goes
  <2>3. proc[p].at = "last" /\ f \in Buf \cup {None}
    BY <1>1, <1>4 DEF Last, Runs, Process
  <2> HIDE DEF r
  <2>4. proc'[p] = r
    BY <1>1, <2>2
  <2>5. Has(p)' \subseteq Has(p)
    BY <2>1, <2>4 DEF Has
  <2>6. Mine(p)'
    BY <1>1, <2>1, <2>2, <2>3, <2>4, <2>5 DEF Mine
  <2> QED
    BY <2>1, <2>2, <2>5, <2>6, NamesKeep
<1> QED
  BY <1>2, <1>3, <1>4

LEMMA BeginKeeps ==
    ASSUME IInv, NEW p \in Proc, NEW k \in Block \cup {None},
           NEW op \in {"bread", "breada", "getblk", "geteblk", "blkflush"}, Begin(p, op, k)
    PROVE  IInv'
<1>1. proc \in [Proc -> Process]
  BY DEF IInv, TypeOK
<1> DEFINE at == CASE op = "geteblk" -> "newbuf"
                   [] op = "blkflush" -> "flush"
                   [] op = "breada" /\ Incore(k) -> "ahead"
                   [] OTHER -> "getblk"
           r == [Idle EXCEPT !.op = op, !.blk = k, !.at = at]
<1>2. /\ at \in {"newbuf", "flush", "ahead", "getblk"}
      /\ at = "ahead" => op = "breada"
  OBVIOUS
<1> HIDE DEF at
<1>3. /\ r \in Process
      /\ r.at = at /\ r.op = op /\ r.blk = k /\ r.ra = FALSE
      /\ r.bp = None /\ r.first = None /\ r.ep = None
  BY <1>2 DEF Process, Idle
<1>4. proc' = [proc EXCEPT ![p] = r] /\ cpu' = p /\ UNCHANGED <<buf, wantfree, disk>>
  BY DEF Begin, Goes, at
<1> HIDE DEF r
<1>5. proc'[p] = r
  BY <1>1, <1>4
<1>6. Has(p)' = {}
  BY <1>3, <1>5 DEF Has
<1>7. /\ k = None => op = "geteblk"
      /\ op = "breada" => Ahead[k] \in Block
  BY ConstantAssumption DEF Begin
<1>8. Mine(p)'
  BY <1>2, <1>3, <1>5, <1>6, <1>7 DEF Mine
<1> QED
  BY <1>3, <1>4, <1>6, <1>8, NamesKeep
-----------------------------------------------------------------------------
(* The steps that change one buffer: b, which becomes r. *)

Others(b) ==
    \A x \in Buf \ {b} : /\ Kept(x) /\ NotMapped(x)
                         /\ buf'[x].done = buf[x].done /\ buf'[x].io = buf[x].io

LEMMA OneBuf ==
    ASSUME IInv, NEW b \in Buf, NEW r \in Buffer, buf' = [buf EXCEPT ![b] = r]
    PROVE  buf' \in [Buf -> Buffer] /\ buf'[b] = r /\ Others(b)
<1>1. buf \in [Buf -> Buffer]
  BY DEF IInv, TypeOK
<1>2. buf' \in [Buf -> Buffer] /\ \A x \in Buf : buf'[x] = IF x = b THEN r ELSE buf[x]
  BY <1>1
<1> QED
  BY <1>2 DEF Kept, NotMapped, Others

LEMMA OneChanges ==
    ASSUME IInv, NEW p \in Proc, NEW b \in Buf, NEW r \in Buffer,
           buf' \in [Buf -> Buffer], buf'[b] = r, Others(b),
           r.done => r.io = "none", r.io # "none" => r.busy, r.async => r.busy,
           NotMapped(b), b \in Has(p) \/ ~buf[b].busy,
           proc' \in [Proc -> Process], \A x \in Proc \ {p} : SameBut(x),
           cpu' \in Proc \cup {None}, wantfree' \in BOOLEAN, disk' \in Contents,
           Has(p)' \subseteq Has(p) \cup {b}, Mine(p)'
    PROVE  IInv'
<1>1. AtDriver'
  <2> SUFFICES ASSUME NEW x \in Buf
               PROVE  /\ buf'[x].done => buf'[x].io = "none"
                      /\ buf'[x].async => buf'[x].busy
    BY DEF AtDriver
  <2>1. CASE x = b
    BY <2>1
  <2>2. CASE x # b
    BY <2>2 DEF IInv, AtDriver, Others, Kept
  <2> QED
    BY <2>1, <2>2
<1>2. \A x \in Buf : buf'[x].io # "none" => buf'[x].busy
  <2> SUFFICES ASSUME NEW x \in Buf PROVE buf'[x].io # "none" => buf'[x].busy
    OBVIOUS
  <2>1. CASE x = b
    BY <2>1
  <2>2. CASE x # b
    BY <2>2 DEF IInv, TypeOK, Others, Kept
  <2> QED
    BY <2>1, <2>2
<1>3. TypeOK'
  BY <1>2 DEF TypeOK
<1>4. MappedOnce'
  BY NoneMapped DEF IInv, Others
<1>5. \A x \in Buf : Kept(x) \/ x \in Has(p) \/ ~buf[x].busy
  BY DEF Others
<1>6. \A x \in Has(p)' : x \in Has(p) \/ ~buf[x].busy
  OBVIOUS
<1> QED
  BY <1>1, <1>3, <1>4, <1>5, <1>6, StepKept

(* What is so of the buffers that a process has keeps while another one changes. *)
LEMMA HasKept ==
    ASSUME IInv, NEW p \in Proc, NEW b \in Buf, Others(b)
    PROVE  \A x \in Has(p) \ {b} :
               /\ x \in Buf /\ buf'[x].busy /\ ~buf'[x].async /\ buf'[x].blk = buf[x].blk
               /\ proc[p].op # "geteblk" => buf'[x].blk \in Block
               /\ buf[x].io = "none" => buf'[x].io = "none"
<1>1. Mine(p)
  BY DEF IInv
<1> QED
  BY <1>1, HasBusy DEF Mine, Others, Kept

LEMMA TypeFacts ==
    ASSUME IInv
    PROVE  /\ buf \in [Buf -> Buffer] /\ proc \in [Proc -> Process]
           /\ wantfree \in BOOLEAN /\ cpu \in Proc \cup {None} /\ disk \in Contents
           /\ \A b \in Buf : /\ buf[b] \in Buffer
                             /\ ~buf[b].busy => buf[b].io = "none" /\ ~buf[b].async
                             /\ buf[b].done => buf[b].io = "none"
           /\ \A p \in Proc : proc[p] \in Process /\ Mine(p)
  BY DEF IInv, TypeOK, AtDriver

LEMMA BecomeType ==
    ASSUME IInv, NEW S, NEW how \in {"new", "old", "lost"}
    PROVE  Become(S, how) \in Contents
  BY TypeFacts DEF Become, Contents

(* A process takes a free buffer, for the block it wants or to write it. *)
LEMMA MineTakes ==
    ASSUME IInv, NEW p \in Proc, NEW b \in Buf, ~buf[b].busy, Others(b),
           buf'[b].busy, ~buf'[b].async, proc[p].op # "geteblk" => buf'[b].blk \in Block,
           proc[p].at # "idle", proc'[p].op = proc[p].op, proc'[p].blk = proc[p].blk,
           proc'[p].ra = proc[p].ra, proc'[p].first = proc[p].first,
           \/ /\ proc'[p].bp = b /\ proc'[p].ep = proc[p].ep
              /\ proc[p].at \notin {"drop", "flushing"}
              /\ proc'[p].at \in {"got", "realloc", "hold"} /\ buf'[b].io = "none"
              /\ proc'[p].at = "realloc" => buf'[b].blk = Target(p)
           \/ /\ proc'[p].bp = proc[p].bp /\ proc'[p].ep = b
              /\ \/ proc[p].at = "realloc" /\ proc'[p].at = "drop"
                 \/ proc'[p].at = "flushing"
    PROVE  Has(p)' \subseteq Has(p) \cup {b} /\ Mine(p)'
<1>1. Mine(p)
  BY DEF IInv
<1>2. Has(p)' \subseteq Has(p) \cup {b} /\ b \notin Has(p)
  BY HasBusy DEF Has
<1>3. Target(p)' = Target(p)
  BY DEF Target
<1>4. \A x \in Has(p)' : /\ buf'[x].busy /\ ~buf'[x].async
                         /\ proc[p].op # "geteblk" => buf'[x].blk \in Block
  <2>1. \A x \in Has(p)' \ {b} : x \in Has(p) \ {b}
    BY <1>2
  <2> QED
    BY <2>1, HasKept
<1>5. b \notin {None, proc[p].first, proc[p].bp, proc[p].ep}
  BY <1>2, ConstantAssumption DEF Has
<1>6. /\ proc[p].op # "none"
      /\ proc[p].op \notin {"none", "geteblk"} => proc[p].blk \in Block
      /\ proc[p].op = "breada" => Ahead[proc[p].blk] \in Block
      /\ proc[p].ra => proc[p].op = "breada"
      /\ proc[p].at \notin {"drop", "flushing"} => proc[p].ep = None
      /\ proc[p].bp # None => proc[p].bp # proc[p].first
      /\ proc[p].at = "realloc" => proc[p].bp \in Buf
  BY <1>1 DEF Mine
<1>7. Mine(p)'
  <2>1. CASE proc'[p].bp = b
    <3>1. /\ proc'[p].bp = b /\ proc'[p].ep = None
          /\ proc'[p].at \in {"got", "realloc", "hold"} /\ buf'[b].io = "none"
          /\ proc'[p].at = "realloc" => buf'[b].blk = Target(p)
      BY <1>5, <1>6, <2>1
    <3> QED
      BY <1>3, <1>4, <1>5, <1>6, <3>1 DEF Mine
  <2>2. CASE proc'[p].bp # b /\ proc'[p].at = "flushing"
    <3>1. proc'[p].bp = proc[p].bp /\ proc'[p].ep = b
      BY <2>2
    <3> QED
      BY <1>4, <1>5, <1>6, <2>2, <3>1 DEF Mine
  <2>3. CASE proc'[p].bp # b /\ proc'[p].at # "flushing"
    <3>1. /\ proc'[p].bp = proc[p].bp /\ proc'[p].ep = b
          /\ proc[p].at = "realloc" /\ proc'[p].at = "drop"
      BY <2>3
    <3>2. proc[p].bp \in Has(p) \ {b} /\ proc[p].bp \in Buf
      BY <1>2, <1>6, <3>1, ConstantAssumption DEF Has
    <3>3. buf[proc[p].bp].blk = Target(p) /\ buf[proc[p].bp].io = "none"
      BY <1>1, <3>1 DEF Mine
    <3>4. buf'[proc[p].bp].blk = Target(p) /\ buf'[proc[p].bp].io = "none"
      BY <3>2, <3>3, HasKept
    <3> QED
      BY <1>3, <1>4, <1>5, <1>6, <3>1, <3>2, <3>4 DEF Mine
  <2> QED
    BY <2>1, <2>2, <2>3
<1> QED
  BY <1>2, <1>7

LEMMA TakeKeeps ==
    ASSUME IInv, NEW p \in Proc, NEW b \in Buf, NEW r \in Buffer, NEW q \in Process,
           ~buf[b].busy, buf' = [buf EXCEPT ![b] = r], proc' = [proc EXCEPT ![p] = q],
           cpu' \in Proc \cup {None}, wantfree' = wantfree, disk' = disk,
           r.busy, ~r.async, r.done => r.io = "none",
           proc[p].op # "geteblk" => r.blk \in Block,
           r.blk = None \/ ~r.len \/ (r.blk = buf[b].blk /\ r.len = buf[b].len),
           proc[p].at # "idle", q.op = proc[p].op, q.blk = proc[p].blk,
           q.ra = proc[p].ra, q.first = proc[p].first,
           \/ /\ q.bp = b /\ q.ep = proc[p].ep
              /\ proc[p].at \notin {"drop", "flushing"}
              /\ q.at \in {"got", "realloc", "hold"} /\ r.io = "none"
              /\ q.at = "realloc" => r.blk = Target(p)
           \/ /\ q.bp = proc[p].bp /\ q.ep = b
              /\ \/ proc[p].at = "realloc" /\ q.at = "drop"
                 \/ q.at = "flushing"
    PROVE  IInv'
<1>1. buf' \in [Buf -> Buffer] /\ buf'[b] = r /\ Others(b)
  BY OneBuf
<1>2. proc' \in [Proc -> Process] /\ proc'[p] = q /\ \A x \in Proc \ {p} : SameBut(x)
  BY ProcStep
<1>3. Has(p)' \subseteq Has(p) \cup {b} /\ Mine(p)'
  BY <1>1, <1>2, MineTakes
<1>4. NotMapped(b)
  BY <1>1 DEF NotMapped
<1>5. wantfree' \in BOOLEAN /\ disk' \in Contents
  BY TypeFacts
<1> QED
  BY <1>1, <1>2, <1>3, <1>4, <1>5, OneChanges

LEMMA GetblkHitKeeps ==
    ASSUME IInv, NEW p \in Proc, GetblkHit(p) PROVE IInv'
<1>1. PICK b \in Buf : /\ Maps(b, Target(p)) /\ ~buf[b].busy
                       /\ buf' = [buf EXCEPT ![b].busy = TRUE]
                       /\ Goes(p, [proc[p] EXCEPT !.bp = b, !.at = "got"])
  BY DEF GetblkHit
<1> DEFINE r == [buf[b] EXCEPT !.busy = TRUE]
           q == [proc[p] EXCEPT !.bp = b, !.at = "got"]
<1>2. /\ r \in Buffer
      /\ r.busy /\ r.async = buf[b].async /\ r.blk = buf[b].blk /\ r.io = buf[b].io
      /\ r.done = buf[b].done /\ r.len = buf[b].len
  BY TypeFacts DEF Buffer
<1>3. /\ q \in Process
      /\ q.at = "got" /\ q.op = proc[p].op /\ q.blk = proc[p].blk /\ q.ra = proc[p].ra
      /\ q.bp = b /\ q.first = proc[p].first /\ q.ep = proc[p].ep
  BY TypeFacts DEF Process
<1>4. buf' = [buf EXCEPT ![b] = r] /\ proc' = [proc EXCEPT ![p] = q] /\ cpu' = p
  BY <1>1 DEF Goes
<1> HIDE DEF r, q
<1>5. proc[p].at = "getblk" /\ buf[b].blk = Target(p) /\ ~buf[b].busy /\ Mine(p)
  BY <1>1, TypeFacts DEF GetblkHit, Runs, Maps
<1>6. proc[p].op # "geteblk" => Target(p) \in Block
  BY <1>5 DEF Mine, Target
<1>7. buf[b].io = "none" /\ ~buf[b].async
  BY <1>5, TypeFacts
<1>8. wantfree' = wantfree /\ disk' = disk
  BY DEF GetblkHit
<1> QED
  BY <1>2, <1>3, <1>4, <1>5, <1>6, <1>7, <1>8, TakeKeeps, ZenonT(40)

LEMMA NewbufTakeKeeps ==
    ASSUME IInv, NEW p \in Proc, NewbufTake(p) PROVE IInv'
<1> DEFINE e == [Empty EXCEPT !.busy = TRUE, !.len = TRUE]
           k == [Empty EXCEPT !.busy = TRUE, !.blk = Target(p)]
<1>1. PICK b \in Buf :
        /\ Takable(b)
        /\ IF proc[p].op = "geteblk"
           THEN /\ buf' = [buf EXCEPT ![b] = e]
                /\ proc' = [proc EXCEPT ![p].bp = b, ![p].at = "hold"]
                /\ cpu' = None
           ELSE /\ buf' = [buf EXCEPT ![b] = k]
                /\ Goes(p, [proc[p] EXCEPT !.bp = b, !.at = "realloc"])
  BY DEF NewbufTake
<1>2. ~buf[b].busy /\ proc[p].at = "newbuf" /\ wantfree' = wantfree /\ disk' = disk
  BY <1>1 DEF Takable, NewbufTake, Runs
<1>3. /\ e \in Buffer
      /\ e.busy /\ e.async = FALSE /\ e.done = FALSE /\ e.blk = None /\ e.io = "none"
  BY DEF Empty, Buffer
<1>4. CASE proc[p].op = "geteblk"
  <2> DEFINE q == [proc[p] EXCEPT !.bp = b, !.at = "hold"]
  <2>1. /\ q \in Process
        /\ q.at = "hold" /\ q.op = proc[p].op /\ q.blk = proc[p].blk
        /\ q.ra = proc[p].ra /\ q.bp = b /\ q.first = proc[p].first
        /\ q.ep = proc[p].ep
    BY TypeFacts DEF Process
  <2>2. buf' = [buf EXCEPT ![b] = e] /\ cpu' = None /\ proc' = [proc EXCEPT ![p] = q]
    BY <1>1, <1>4, TypeFacts
  <2> HIDE DEF e, q
  <2> QED
    BY <1>2, <1>3, <1>4, <2>1, <2>2, TakeKeeps
<1>5. CASE proc[p].op # "geteblk"
  <2> DEFINE q == [proc[p] EXCEPT !.bp = b, !.at = "realloc"]
  <2>1. /\ q \in Process
        /\ q.at = "realloc" /\ q.op = proc[p].op /\ q.blk = proc[p].blk
        /\ q.ra = proc[p].ra /\ q.bp = b /\ q.first = proc[p].first
        /\ q.ep = proc[p].ep
    BY TypeFacts DEF Process
  <2>2. buf' = [buf EXCEPT ![b] = k] /\ cpu' = p /\ proc' = [proc EXCEPT ![p] = q]
    BY <1>1, <1>5 DEF Goes
  <2>3. Target(p) \in Block
    BY <1>2, <1>5, TypeFacts DEF Mine, Target
  <2>4. /\ k \in Buffer
        /\ k.busy /\ k.async = FALSE /\ k.done = FALSE /\ k.len = FALSE
        /\ k.blk = Target(p) /\ k.io = "none"
    BY <2>3 DEF Empty, Buffer
  <2> HIDE DEF k, q
  <2> QED
    BY <1>2, <1>5, <2>1, <2>2, <2>3, <2>4, TakeKeeps
<1> QED
  BY <1>4, <1>5

(* A delayed write in the way is written, and waited for. *)
LEMMA WriteKeeps ==
    ASSUME IInv, NEW p \in Proc, NEW b \in Buf, Clash(b, Target(p)), ~buf[b].busy,
           buf' = [buf EXCEPT ![b] = Writing(@)], NEW at,
           \/ proc[p].at = "realloc" /\ at = "drop"
           \/ proc[p].at = "flush" /\ at = "flushing",
           proc' = [proc EXCEPT ![p].at = at, ![p].ep = b, ![p].chan = b],
           cpu' = None, wantfree' = wantfree, disk' = disk
    PROVE  IInv'
<1> DEFINE q == [proc[p] EXCEPT !.at = at, !.ep = b, !.chan = b]
           r == Writing(buf[b])
<1>1. /\ q \in Process
      /\ q.at = at /\ q.op = proc[p].op /\ q.blk = proc[p].blk /\ q.ra = proc[p].ra
      /\ q.bp = proc[p].bp /\ q.first = proc[p].first /\ q.ep = b
  BY TypeFacts DEF Process
<1>2. proc' = [proc EXCEPT ![p] = q]
  OBVIOUS
<1>3. buf' = [buf EXCEPT ![b] = r]
  OBVIOUS
<1>4. /\ r \in Buffer
      /\ r.busy /\ ~r.async /\ ~r.done
      /\ r.blk = buf[b].blk /\ r.len = buf[b].len
  BY TypeFacts, WritingRec
<1> HIDE DEF q, r
<1>5. buf[b].blk \in Block
  BY TypeFacts DEF Clash, Buffer
<1>6. cpu' \in Proc \cup {None}
  OBVIOUS
<1>7. /\ proc[p].at # "idle"
      /\ \/ proc[p].at = "realloc" /\ q.at = "drop"
         \/ q.at = "flushing"
  BY <1>1
<1> QED
  BY <1>1, <1>2, <1>3, <1>4, <1>5, <1>6, <1>7, TakeKeeps, ZenonT(40)

LEMMA ReallocWriteKeeps ==
    ASSUME IInv, NEW p \in Proc, ReallocWrite(p) \/ FlushWrite(p) PROVE IInv'
<1>1. CASE ReallocWrite(p)
  BY <1>1, WriteKeeps DEF ReallocWrite, Runs
<1>2. CASE FlushWrite(p)
  BY <1>2, WriteKeeps DEF FlushWrite, Runs
<1> QED
  BY <1>1, <1>2

(* A delayed write in the way of a new buffer is started. *)
LEMMA NewbufWriteKeeps ==
    ASSUME IInv, NEW p \in Proc, NewbufWrite(p) PROVE IInv'
<1>1. PICK b \in Buf : /\ ~buf[b].busy /\ buf[b].delwri
                       /\ buf' = [buf EXCEPT ![b] = Async(Writing(@))]
  BY DEF NewbufWrite
<1> DEFINE r == Async(Writing(buf[b]))
<1>2. /\ r \in Buffer
      /\ r.busy /\ r.async /\ ~r.done /\ r.blk = buf[b].blk /\ r.len = buf[b].len
  BY TypeFacts, WritingRec, AsyncRec
<1>3. buf' = [buf EXCEPT ![b] = r]
  BY <1>1
<1> HIDE DEF r
<1>4. buf' \in [Buf -> Buffer] /\ buf'[b] = r /\ Others(b)
  BY <1>2, <1>3, OneBuf
<1>5. proc' = proc /\ cpu' = p /\ wantfree' = wantfree /\ disk' = disk
  BY TypeFacts DEF NewbufWrite, Goes
<1>6. \A x \in Proc : SameBut(x)
  BY <1>5 DEF SameBut
<1>7. Has(p)' = Has(p) /\ b \notin Has(p)
  BY <1>1, <1>5, HasBusy DEF Has
<1>8. Mine(p)'
  BY <1>4, <1>6, <1>7, HasBusy, MineKept DEF IInv, Others
<1>9. NotMapped(b)
  BY <1>2, <1>4 DEF NotMapped
<1>10. /\ proc' \in [Proc -> Process] /\ cpu' \in Proc \cup {None}
       /\ wantfree' \in BOOLEAN /\ disk' \in Contents
  BY <1>5, TypeFacts
<1> QED
  BY <1>1, <1>2, <1>4, <1>6, <1>7, <1>8, <1>9, <1>10, OneChanges

(* A process goes on with its buffer, which it may have given to the driver. *)
LEMMA OwnKeeps ==
    ASSUME IInv, NEW p \in Proc, NEW b \in Buf, NEW r \in Buffer, NEW at,
           b = proc[p].bp, buf' \in [Buf -> Buffer], buf'[b] = r, Others(b),
           r.busy, ~r.async, r.done => r.io = "none", r.blk = buf[b].blk,
           r.len = buf[b].len, MovesTo(p, at),
           proc[p].at \notin {"idle", "drop", "flushing"},
           at \in {"ahead", "read", "hold", "write"},
           at = "ahead" => proc[p].op = "breada" /\ ~proc[p].ra,
           at = "hold" => r.io = "none",
           cpu' \in Proc \cup {None}, wantfree' \in BOOLEAN, disk' \in Contents
    PROVE  IInv'
<1>1. b \in Has(p)
  BY ConstantAssumption DEF Has
<1>2. Has(p)' = Has(p)
  BY DEF Has, MovesTo
<1>3. \A x \in Has(p) : /\ buf'[x].busy = buf[x].busy /\ buf'[x].async = buf[x].async
                        /\ buf'[x].blk = buf[x].blk
  <2> SUFFICES ASSUME NEW x \in Has(p)
               PROVE  /\ buf'[x].busy = buf[x].busy /\ buf'[x].async = buf[x].async
                      /\ buf'[x].blk = buf[x].blk
    OBVIOUS
  <2>1. x \in Buf /\ buf[x].busy /\ ~buf[x].async
    BY HasBusy
  <2>2. CASE x = b
    <3>1. buf[b] \in Buffer
      BY TypeFacts
    <3> QED
      BY <2>1, <2>2, <3>1 DEF Buffer
  <2>3. CASE x # b
    BY <2>1, <2>3 DEF Others, Kept
  <2> QED
    BY <2>2, <2>3
<1>4. Mine(p)'
  BY <1>3, MineAt DEF MovesTo
<1>5. NotMapped(b)
  BY DEF NotMapped
<1>6. proc' \in [Proc -> Process] /\ \A x \in Proc \ {p} : SameBut(x)
  BY DEF MovesTo
<1> QED
  BY <1>1, <1>2, <1>4, <1>5, <1>6, OneChanges

LEMMA GotKeeps ==
    ASSUME IInv, NEW p \in Proc, Got(p) PROVE IInv'
<1> DEFINE q == proc[p]
           b == q.bp
           keep == buf[b].done \/ q.op = "getblk"
           r == IF keep THEN buf[b] ELSE Reading(buf[b])
           at == IF q.op = "breada" THEN "ahead" ELSE IF keep THEN "hold" ELSE "read"
<1>1. /\ Mine(p) /\ q \in Process /\ q.at = "got" /\ ~q.ra /\ q.chan = None
      /\ cpu' \in Proc \cup {None} /\ wantfree' = wantfree /\ disk' = disk
  BY TypeFacts DEF Got, Runs, Goes
<1>2. b \in Buf /\ buf[b].io = "none"
  BY <1>1 DEF Mine
<1>3. b \in Has(p)
  BY <1>2, ConstantAssumption DEF Has
<1>4. buf[b] \in Buffer /\ buf[b].busy /\ ~buf[b].async
  BY <1>2, <1>3, TypeFacts, HasBusy
<1>5. /\ r \in Buffer /\ r.busy /\ ~r.async
      /\ r.done => r.io = "none"
      /\ r.blk = buf[b].blk /\ r.len = buf[b].len
      /\ keep => r.io = "none"
  <2>1. CASE keep
    BY <1>2, <1>4, <2>1
  <2>2. CASE ~keep
    BY <1>4, <2>2, ReadingRec
  <2> QED
    BY <2>1, <2>2
<1>6. buf' = [buf EXCEPT ![b] = r]
  BY <1>1 DEF Got
<1>7. MovesTo(p, at)
  <2>1. at \in Points
    BY DEF Points
  <2>2. CASE q.op = "breada"
    <3>1. proc' = [proc EXCEPT ![p] = [proc[p] EXCEPT !.at = "ahead"]]
      BY <2>2 DEF Got, Goes
    <3> QED
      BY <2>1, <2>2, <3>1, MovesProc
  <2>3. CASE q.op # "breada" /\ keep
    <3>1. proc' = [proc EXCEPT ![p] = [proc[p] EXCEPT !.at = "hold", !.chan = None]]
      BY <2>3, TypeFacts DEF Got
    <3> QED
      BY <2>1, <2>3, <3>1, MovesProc
  <2>4. CASE q.op # "breada" /\ ~keep
    <3>1. proc' = [proc EXCEPT ![p] = [proc[p] EXCEPT !.at = "read", !.chan = b]]
      BY <2>4, TypeFacts DEF Got
    <3> QED
      BY <1>2, <2>1, <2>4, <3>1, MovesProc
  <2> QED
    BY <2>2, <2>3, <2>4
<1>8. /\ at \in {"ahead", "read", "hold", "write"}
      /\ at = "ahead" => q.op = "breada" /\ ~q.ra
      /\ at = "hold" => keep
  BY <1>1
<1> HIDE DEF r, keep, at
<1>9. buf' \in [Buf -> Buffer] /\ buf'[b] = r /\ Others(b)
  BY <1>2, <1>5, <1>6, OneBuf
<1>10. wantfree' \in BOOLEAN /\ disk' \in Contents
  BY <1>1, TypeFacts
<1>11. /\ r.done => r.io = "none"
       /\ at = "hold" => r.io = "none"
       /\ proc[p].at \notin {"idle", "drop", "flushing"}
  BY <1>1, <1>5, <1>8
<1> QED
  BY <1>1, <1>2, <1>5, <1>7, <1>8, <1>9, <1>10, <1>11, OwnKeeps

-----------------------------------------------------------------------------
(* The steps that give a buffer up. *)

(* A process that has the buffer no longer under any name. *)
LEMMA MineGives ==
    ASSUME IInv, NEW p \in Proc, NEW b \in Buf, Others(b),
           b \notin Has(p)', Has(p)' \subseteq Has(p),
           proc'[p].op = proc[p].op, proc'[p].blk = proc[p].blk,
           proc'[p].first = proc[p].first,
           \/ /\ proc[p].at = "got" /\ proc[p].ra /\ proc'[p].at = "last"
              /\ proc'[p].bp = None /\ proc'[p].ep = proc[p].ep /\ proc'[p].ra = FALSE
           \/ /\ proc[p].at = "drop" /\ proc'[p].at = "realloc"
              /\ proc'[p].bp = proc[p].bp /\ proc'[p].ep = None /\ proc'[p].ra = proc[p].ra
           \/ /\ proc[p].at = "flushing" /\ proc'[p].at = "flush"
              /\ proc'[p].bp = proc[p].bp /\ proc'[p].ep = None /\ proc'[p].ra = proc[p].ra
    PROVE  Mine(p)'
<1>1. Mine(p)
  BY DEF IInv
<1>2. \A x \in Has(p)' : /\ buf'[x].busy /\ ~buf'[x].async
                         /\ proc[p].op # "geteblk" => buf'[x].blk \in Block
  <2>1. \A x \in Has(p)' : x \in Has(p) \ {b}
    OBVIOUS
  <2> QED
    BY <2>1, HasKept
<1>3. /\ proc[p].op # "none"
      /\ proc[p].op \notin {"none", "geteblk"} => proc[p].blk \in Block
      /\ proc[p].op = "breada" => Ahead[proc[p].blk] \in Block
      /\ proc[p].ra => proc[p].op = "breada"
      /\ proc[p].at \notin {"drop", "flushing"} => proc[p].ep = None
      /\ proc[p].bp # None => proc[p].bp # proc[p].first
      /\ proc[p].at = "drop" => proc[p].bp \in Buf
  BY <1>1 DEF Mine
<1>4. CASE proc[p].at = "got"
  <2>1. /\ proc[p].ra /\ proc'[p].at = "last"
        /\ proc'[p].bp = None /\ proc'[p].ep = None /\ proc'[p].ra = FALSE
    BY <1>3, <1>4
  <2> QED
    BY <1>2, <1>3, <2>1 DEF Mine
<1>5. CASE proc[p].at = "drop"
  <2>1. /\ proc'[p].at = "realloc" /\ proc'[p].bp = proc[p].bp
        /\ proc'[p].ep = None /\ proc'[p].ra = proc[p].ra
    BY <1>5
  <2>2. proc[p].bp \in Has(p) \ {b} /\ proc[p].bp \in Buf
    BY <1>3, <1>5, <2>1, ConstantAssumption DEF Has
  <2>3. buf[proc[p].bp].blk = Target(p) /\ buf[proc[p].bp].io = "none"
    BY <1>1, <1>5 DEF Mine
  <2>4. buf'[proc[p].bp].blk = Target(p) /\ buf'[proc[p].bp].io = "none"
    BY <2>2, <2>3, HasKept
  <2>5. Target(p)' = Target(p)
    BY <2>1 DEF Target
  <2> QED
    BY <1>2, <1>3, <2>1, <2>2, <2>4, <2>5, ConstantAssumption DEF Mine
<1>6. CASE proc[p].at = "flushing"
  <2>1. /\ proc'[p].at = "flush" /\ proc'[p].bp = proc[p].bp
        /\ proc'[p].ep = None /\ proc'[p].ra = proc[p].ra
    BY <1>6
  <2> QED
    BY <1>2, <1>3, <2>1, ConstantAssumption DEF Mine
<1> QED
  BY <1>4, <1>5, <1>6

LEMMA WokenRec ==
    ASSUME NEW q \in Process, NEW b \in Buf
    PROVE  /\ Woken(q, b) \in Process
           /\ Woken(q, b).at = q.at /\ Woken(q, b).op = q.op /\ Woken(q, b).blk = q.blk
           /\ Woken(q, b).ra = q.ra /\ Woken(q, b).bp = q.bp
           /\ Woken(q, b).first = q.first /\ Woken(q, b).ep = q.ep
<1>1. CASE Woken(q, b) = q
  BY <1>1
<1>2. CASE Woken(q, b) = [q EXCEPT !.chan = None]
  BY <1>2 DEF Process
<1> QED
  BY <1>1, <1>2 DEF Woken

LEMMA BrelseProc ==
    ASSUME IInv, NEW p \in Proc, NEW b \in Buf, NEW q \in Process,
           proc' = [x \in Proc |-> IF x = p THEN q ELSE Woken(proc[x], b)]
    PROVE  /\ proc' \in [Proc -> Process] /\ proc'[p] = q
           /\ \A x \in Proc \ {p} : SameBut(x)
<1>1. \A x \in Proc : proc[x] \in Process
  BY TypeFacts
<1>2. \A x \in Proc \ {p} : proc'[x] = Woken(proc[x], b)
  OBVIOUS
<1>3. proc' \in [Proc -> Process] /\ proc'[p] = q
  BY <1>1, WokenRec
<1> QED
  BY <1>1, <1>2, <1>3, WokenRec DEF SameBut

(* brelse by p of b, which has become r. *)
LEMMA BrelseKeeps ==
    ASSUME IInv, NEW p \in Proc, NEW b \in Buf, NEW r \in Buffer,
           buf' \in [Buf -> Buffer], buf'[b] = Freed(r), Others(b),
           r.io = "none", r.len = buf[b].len, r.blk \in {buf[b].blk, None},
           b \in Has(p) \/ ~buf[b].busy,
           proc' \in [Proc -> Process], \A x \in Proc \ {p} : SameBut(x),
           Has(p)' \subseteq Has(p), Mine(p)',
           cpu' \in Proc \cup {None}, wantfree' \in BOOLEAN, disk' \in Contents
    PROVE  IInv'
<1> DEFINE f == Freed(r)
<1>1. /\ f \in Buffer /\ f.blk \in {r.blk, None}
      /\ f.blk # None => f.len = r.len
      /\ f.io = "none" /\ f.async = FALSE
  BY FreedRec
<1>2. buf'[b] = f
  OBVIOUS
<1> HIDE DEF f
<1>3. NotMapped(b)
  BY <1>1, <1>2 DEF NotMapped
<1>4. /\ f.done => f.io = "none"
      /\ f.io # "none" => f.busy
      /\ f.async => f.busy
  BY <1>1
<1>5. Has(p)' \subseteq Has(p) \cup {b}
  OBVIOUS
<1> QED
  BY <1>1, <1>2, <1>3, <1>4, <1>5, OneChanges

LEMMA ReleaseKeeps ==
    ASSUME IInv, NEW p \in Proc, Release(p) \/ Emptied(p) \/ WriteDone(p) PROVE IInv'
<1> DEFINE b == proc[p].bp
           r == IF Emptied(p) THEN [buf[b] EXCEPT !.delwri = FALSE] ELSE buf[b]
<1>1. /\ proc[p].at \in {"hold", "write"}
      /\ proc[p].at = "write" => buf[b].done
      /\ Brelse(p, b, r, Idle)
      /\ disk' = disk \/ disk' = Become(buf[b].cur, "lost")
  BY DEF Release, Emptied, WriteDone, Runs
<1>2. Mine(p) /\ b \in Buf
  BY <1>1, TypeFacts DEF Mine
<1>3. buf[b] \in Buffer /\ buf[b].io = "none"
  BY <1>1, <1>2, TypeFacts DEF Mine
<1>4. b \in Has(p)
  BY <1>2, ConstantAssumption DEF Has
<1>5. /\ buf' = [buf EXCEPT ![b] = Freed(r)]
      /\ proc' = [x \in Proc |-> IF x = p THEN Idle ELSE Woken(proc[x], b)]
      /\ cpu' \in Proc \cup {None} /\ wantfree' = FALSE
  BY <1>1 DEF Brelse
<1>10. r \in Buffer /\ r.io = "none" /\ r.len = buf[b].len /\ r.blk = buf[b].blk
  BY <1>3 DEF Buffer
<1> HIDE DEF b, r
<1>6. buf' \in [Buf -> Buffer] /\ buf'[b] = Freed(r) /\ Others(b)
  BY <1>2, <1>5, <1>10, FreedRec, OneBuf
<1>7. /\ proc' \in [Proc -> Process] /\ proc'[p] = Idle
      /\ \A x \in Proc \ {p} : SameBut(x)
  BY <1>2, <1>5, IdleRec, BrelseProc
<1>8. Has(p)' = {} /\ Mine(p)'
  BY <1>7, IdleMine
<1>9. wantfree' \in BOOLEAN /\ disk' \in Contents
  BY <1>1, <1>5, TypeFacts, BecomeType
<1> QED
  BY <1>2, <1>4, <1>5, <1>6, <1>7, <1>8, <1>9, <1>10, BrelseKeeps

LEMMA DroppedKeeps ==
    ASSUME IInv, NEW p \in Proc, Dropped(p) \/ Flushed(p) PROVE IInv'
<1> DEFINE b == proc[p].ep
           to == IF proc[p].at = "drop" THEN "realloc" ELSE "flush"
           q == [proc[p] EXCEPT !.at = to, !.ep = None]
<1>1. /\ proc[p].at \in {"drop", "flushing"} /\ buf[b].done
      /\ Brelse(p, b, buf[b], q) /\ disk' = disk
  BY DEF Dropped, Flushed, Runs
<1>2. Mine(p) /\ b \in Buf
  BY <1>1, TypeFacts DEF Mine
<1>3. buf[b] \in Buffer /\ buf[b].io = "none"
  BY <1>1, <1>2, TypeFacts
<1>4. b \in Has(p) /\ b # proc[p].bp /\ b # proc[p].first
  BY <1>2, ConstantAssumption DEF Has, Mine
<1>5. /\ q \in Process
      /\ q.at = to /\ q.op = proc[p].op /\ q.blk = proc[p].blk /\ q.ra = proc[p].ra
      /\ q.bp = proc[p].bp /\ q.first = proc[p].first /\ q.ep = None
  BY TypeFacts, ZenonT(40) DEF Process
<1>6. /\ buf' = [buf EXCEPT ![b] = Freed(buf[b])]
      /\ proc' = [x \in Proc |-> IF x = p THEN q ELSE Woken(proc[x], b)]
      /\ cpu' \in Proc \cup {None} /\ wantfree' = FALSE /\ disk' = disk
  BY <1>1 DEF Brelse
<1> HIDE DEF b, q
<1>7. buf' \in [Buf -> Buffer] /\ buf'[b] = Freed(buf[b]) /\ Others(b)
  BY <1>2, <1>3, <1>6, FreedRec, OneBuf
<1>8. /\ proc' \in [Proc -> Process] /\ proc'[p] = q
      /\ \A x \in Proc \ {p} : SameBut(x)
  BY <1>2, <1>5, <1>6, BrelseProc
<1>9. Has(p)' \subseteq Has(p) /\ b \notin Has(p)'
  BY <1>2, <1>4, <1>5, <1>8, ConstantAssumption DEF Has
<1>10. Mine(p)'
  BY <1>1, <1>2, <1>5, <1>7, <1>8, <1>9, MineGives
<1>11. wantfree' \in BOOLEAN /\ disk' \in Contents
  BY <1>6, TypeFacts
<1> QED
  BY <1>2, <1>3, <1>4, <1>6, <1>7, <1>8, <1>9, <1>10, <1>11, BrelseKeeps

(* A free buffer in the way of the new one is made invalid. *)
LEMMA ReallocInvalKeeps ==
    ASSUME IInv, NEW p \in Proc, ReallocInval(p) PROVE IInv'
<1>1. PICK b \in Buf :
        /\ ~buf[b].busy /\ Brelse(p, b, [buf[b] EXCEPT !.blk = None], proc[p])
        /\ disk' = disk
  BY DEF ReallocInval
<1> DEFINE r == [buf[b] EXCEPT !.blk = None]
           q == proc[p]
<1>2. buf[b].io = "none" /\ q \in Process
  BY <1>1, TypeFacts
<1>3. r \in Buffer /\ r.blk = None /\ r.len = buf[b].len /\ r.io = "none"
  BY <1>2, TypeFacts DEF Buffer
<1>4. /\ buf' = [buf EXCEPT ![b] = Freed(r)]
      /\ proc' = [x \in Proc |-> IF x = p THEN q ELSE Woken(proc[x], b)]
      /\ cpu' \in Proc \cup {None} /\ wantfree' = FALSE /\ disk' = disk
  BY <1>1 DEF Brelse
<1> HIDE DEF r
<1>5. buf' \in [Buf -> Buffer] /\ buf'[b] = Freed(r) /\ Others(b)
  BY <1>3, <1>4, FreedRec, OneBuf
<1>6. /\ proc' \in [Proc -> Process] /\ proc'[p] = q
      /\ \A x \in Proc \ {p} : SameBut(x)
  BY <1>2, <1>4, BrelseProc
<1>7. SameBut(p)
  BY <1>6 DEF SameBut
<1>8. Has(p)' = Has(p) /\ b \notin Has(p)
  BY <1>1, <1>7, HasBusy DEF Has, SameBut
<1>9. Mine(p)'
  BY <1>5, <1>7, <1>8, HasBusy, MineKept DEF IInv, Others
<1>10. wantfree' \in BOOLEAN /\ disk' \in Contents
  BY <1>4, TypeFacts
<1> QED
  BY <1>1, <1>3, <1>4, <1>5, <1>6, <1>8, <1>9, <1>10, BrelseKeeps

(* The block read ahead is given back, or left to the driver to give back. *)
LEMMA GotAheadKeeps ==
    ASSUME IInv, NEW p \in Proc, GotAhead(p) PROVE IInv'
<1> DEFINE b == proc[p].bp
           q == [proc[p] EXCEPT !.at = "last", !.ra = FALSE, !.bp = None]
           r == Async(Reading(buf[b]))
<1>1. /\ proc[p].at = "got" /\ proc[p].ra
      /\ IF buf[b].done
         THEN Brelse(p, b, buf[b], q)
         ELSE /\ buf' = [buf EXCEPT ![b] = Async(Reading(@))]
              /\ Goes(p, q)
              /\ UNCHANGED wantfree
      /\ disk' = disk
  BY DEF GotAhead, Runs
<1>2. Mine(p) /\ b \in Buf
  BY <1>1, TypeFacts DEF Mine
<1>3. buf[b] \in Buffer /\ buf[b].io = "none"
  BY <1>1, <1>2, TypeFacts DEF Mine
<1>4. b \in Has(p) /\ b # proc[p].ep /\ b # proc[p].first
  BY <1>2, ConstantAssumption DEF Has, Mine
<1>5. /\ q \in Process
      /\ q.at = "last" /\ q.op = proc[p].op /\ q.blk = proc[p].blk /\ q.ra = FALSE
      /\ q.bp = None /\ q.first = proc[p].first /\ q.ep = proc[p].ep
  BY TypeFacts DEF Process
<1>6. r \in Buffer /\ r.done = buf[b].done /\ r.blk = buf[b].blk /\ r.len = buf[b].len
  BY <1>3, ReadingRec, AsyncRec
<1>7. r.busy
  <2>1. buf[b].busy
    BY <1>4, HasBusy
  <2> QED
    BY <1>3, <2>1, ReadingRec, AsyncRec
<1>8. CASE buf[b].done
  <2>1. /\ buf' = [buf EXCEPT ![b] = Freed(buf[b])]
        /\ proc' = [x \in Proc |-> IF x = p THEN q ELSE Woken(proc[x], b)]
        /\ cpu' \in Proc \cup {None} /\ wantfree' = FALSE /\ disk' = disk
    BY <1>1, <1>8 DEF Brelse
  <2> HIDE DEF b, q
  <2>2. buf' \in [Buf -> Buffer] /\ buf'[b] = Freed(buf[b]) /\ Others(b)
    BY <1>2, <1>3, <2>1, FreedRec, OneBuf
  <2>3. /\ proc' \in [Proc -> Process] /\ proc'[p] = q
        /\ \A x \in Proc \ {p} : SameBut(x)
    BY <1>2, <1>5, <2>1, BrelseProc
  <2>4. Has(p)' \subseteq Has(p) /\ b \notin Has(p)'
    BY <1>2, <1>4, <1>5, <2>3, ConstantAssumption DEF Has
  <2>5. Mine(p)'
    BY <1>1, <1>2, <1>5, <2>2, <2>3, <2>4, MineGives
  <2>6. wantfree' \in BOOLEAN /\ disk' \in Contents
    BY <2>1, TypeFacts
  <2> QED
    BY <1>2, <1>3, <1>4, <2>1, <2>2, <2>3, <2>4, <2>5, <2>6, BrelseKeeps
<1>9. CASE ~buf[b].done
  <2>1. /\ buf' = [buf EXCEPT ![b] = r] /\ proc' = [proc EXCEPT ![p] = q] /\ cpu' = p
        /\ wantfree' = wantfree /\ disk' = disk
    BY <1>1, <1>9 DEF Goes
  <2> HIDE DEF b, q, r
  <2>2. buf' \in [Buf -> Buffer] /\ buf'[b] = r /\ Others(b)
    BY <1>2, <1>6, <2>1, OneBuf
  <2>3. /\ proc' \in [Proc -> Process] /\ proc'[p] = q
        /\ \A x \in Proc \ {p} : SameBut(x)
    BY <1>5, <2>1, ProcStep
  <2>4. Has(p)' \subseteq Has(p) \cup {b} /\ Has(p)' \subseteq Has(p) /\ b \notin Has(p)'
    BY <1>2, <1>4, <1>5, <2>3, ConstantAssumption DEF Has
  <2>5. Mine(p)'
    BY <1>1, <1>2, <1>5, <2>2, <2>3, <2>4, MineGives
  <2>6. NotMapped(b)
    BY <1>6, <2>2 DEF NotMapped
  <2>7. /\ wantfree' \in BOOLEAN /\ disk' \in Contents /\ cpu' \in Proc \cup {None}
        /\ ~r.done
    BY <1>6, <1>9, <2>1, TypeFacts
  <2> QED
    BY <1>2, <1>4, <1>6, <1>7, <2>2, <2>3, <2>4, <2>5, <2>6, <2>7, OneChanges
<1> QED
  BY <1>8, <1>9

-----------------------------------------------------------------------------
(* The steps of a process that has written on its buffer. *)

LEMMA WrittenBuf ==
    ASSUME IInv, NEW b \in Buf, buf[b].blk \in Block
    PROVE  /\ Written(b) \in [Buf -> Buffer]
           /\ \A x \in Buf : /\ Written(b)[x].blk = buf[x].blk
                             /\ Written(b)[x].len = buf[x].len
                             /\ Written(b)[x].busy = buf[x].busy
                             /\ Written(b)[x].done = buf[x].done
                             /\ Written(b)[x].async = buf[x].async
                             /\ Written(b)[x].io = buf[x].io
<1>1. Alone(b) \subseteq Sector
  BY ConstantAssumption DEF Alone
<1> SUFFICES ASSUME NEW x \in Buf
             PROVE  /\ Written(b)[x] \in Buffer
                    /\ Written(b)[x].blk = buf[x].blk
                    /\ Written(b)[x].len = buf[x].len
                    /\ Written(b)[x].busy = buf[x].busy
                    /\ Written(b)[x].done = buf[x].done
                    /\ Written(b)[x].async = buf[x].async
                    /\ Written(b)[x].io = buf[x].io
  BY DEF Written
<1> DEFINE c == IF x = b THEN Alone(b) ELSE buf[x].cur \ Alone(b)
<1>2. buf[x] \in Buffer
  BY TypeFacts
<1>3. Written(b)[x] = [buf[x] EXCEPT !.cur = c]
  BY DEF Written
<1>4. c \in SUBSET Sector
  BY <1>1, <1>2 DEF Buffer
<1> HIDE DEF c
<1> QED
  BY <1>2, <1>3, <1>4 DEF Buffer

LEMMA WrittenStep ==
    ASSUME IInv, NEW b \in Buf, buf[b].blk \in Block, NEW r \in Buffer,
           buf' = [Written(b) EXCEPT ![b] = r]
    PROVE  buf' \in [Buf -> Buffer] /\ buf'[b] = r /\ Others(b)
<1> DEFINE w == Written(b)
<1>1. w \in [Buf -> Buffer]
  BY WrittenBuf
<1>2. buf' = [w EXCEPT ![b] = r]
  OBVIOUS
<1>3. \A x \in Buf : /\ w[x].blk = buf[x].blk /\ w[x].len = buf[x].len
                     /\ w[x].busy = buf[x].busy /\ w[x].done = buf[x].done
                     /\ w[x].async = buf[x].async /\ w[x].io = buf[x].io
  BY WrittenBuf
<1> HIDE DEF w
<1>4. buf' \in [Buf -> Buffer] /\ \A x \in Buf : buf'[x] = IF x = b THEN r ELSE w[x]
  BY <1>1, <1>2
<1>5. \A x \in Buf \ {b} : buf'[x] = w[x] /\ buf[x] \in Buffer
  BY <1>4, TypeFacts
<1> QED
  BY <1>3, <1>4, <1>5 DEF Others, Kept, NotMapped, Buffer

(* A process that writes has its buffer to itself, and it is for a block. *)
LEMMA WriterHas ==
    ASSUME IInv, NEW p \in Proc, Writes(p)
    PROVE  LET b == proc[p].bp
           IN  /\ b \in Buf /\ b \in Has(p) /\ proc[p].at = "hold"
               /\ buf[b].blk \in Block /\ buf[b].io = "none" /\ ~buf[b].async /\ buf[b].busy
<1>1. proc[p].at = "hold" /\ proc[p].op \in {"getblk", "bread"}
  BY DEF Writes, Runs
<1>2. Mine(p)
  BY DEF IInv
<1>3. proc[p].bp \in Buf /\ buf[proc[p].bp].io = "none"
  BY <1>1, <1>2 DEF Mine
<1>4. proc[p].bp \in Has(p)
  BY <1>3, ConstantAssumption DEF Has
<1> QED
  BY <1>1, <1>2, <1>3, <1>4 DEF Mine

LEMMA BwriteKeeps ==
    ASSUME IInv, NEW p \in Proc, Bwrite(p) PROVE IInv'
<1> DEFINE b == proc[p].bp
           w == Written(b)[b]
           r == Writing(w)
<1>1. /\ b \in Buf /\ b \in Has(p) /\ proc[p].at = "hold"
      /\ buf[b].blk \in Block /\ ~buf[b].async
  BY WriterHas DEF Bwrite
<1>2. /\ w \in Buffer /\ w.blk = buf[b].blk /\ w.len = buf[b].len /\ w.async = buf[b].async
  BY <1>1, WrittenBuf
<1>3. /\ r \in Buffer /\ r.busy /\ ~r.async /\ ~r.done
      /\ r.blk = buf[b].blk /\ r.len = buf[b].len
  BY <1>1, <1>2, WritingRec
<1>4. /\ buf' = [Written(b) EXCEPT ![b] = r]
      /\ cpu' = None /\ wantfree' = wantfree /\ disk' = Become(Alone(b), "old")
  BY DEF Bwrite, Sleeps
<1>5. MovesTo(p, "write")
  <2>1. proc' = [proc EXCEPT ![p] = [proc[p] EXCEPT !.at = "write", !.chan = b]]
    BY DEF Bwrite, Sleeps
  <2> QED
    BY <1>1, <2>1, MovesProc DEF Points
<1> HIDE DEF r, w
<1>6. buf' \in [Buf -> Buffer] /\ buf'[b] = r /\ Others(b)
  BY <1>1, <1>3, <1>4, WrittenStep
<1>7. cpu' \in Proc \cup {None} /\ wantfree' \in BOOLEAN /\ disk' \in Contents
  BY <1>4, TypeFacts, BecomeType
<1> QED
  BY <1>1, <1>3, <1>5, <1>6, <1>7, OwnKeeps

LEMMA BawriteKeeps ==
    ASSUME IInv, NEW p \in Proc, Bawrite(p) PROVE IInv'
<1> DEFINE b == proc[p].bp
           w == Written(b)[b]
           r == Async(Writing(w))
<1>1. b \in Buf /\ b \in Has(p) /\ buf[b].blk \in Block
  BY WriterHas DEF Bawrite
<1>2. /\ w \in Buffer /\ w.blk = buf[b].blk /\ w.len = buf[b].len
  BY <1>1, WrittenBuf
<1>3. /\ r \in Buffer /\ r.busy /\ ~r.done
      /\ r.blk = buf[b].blk /\ r.len = buf[b].len
  BY <1>2, WritingRec, AsyncRec
<1>4. /\ buf' = [Written(b) EXCEPT ![b] = r] /\ proc' = [proc EXCEPT ![p] = Idle]
      /\ cpu' = None /\ wantfree' = wantfree /\ disk' = Become(Alone(b), "old")
  BY DEF Bawrite
<1> HIDE DEF b, r, w
<1>5. buf' \in [Buf -> Buffer] /\ buf'[b] = r /\ Others(b)
  BY <1>1, <1>3, <1>4, WrittenStep
<1>6. /\ proc' \in [Proc -> Process] /\ proc'[p] = Idle
      /\ \A x \in Proc \ {p} : SameBut(x)
  BY <1>4, IdleRec, ProcStep
<1>7. Has(p)' = {} /\ Mine(p)'
  BY <1>6, IdleMine
<1>8. cpu' \in Proc \cup {None} /\ wantfree' \in BOOLEAN /\ disk' \in Contents
  BY <1>4, TypeFacts, BecomeType
<1>9. NotMapped(b)
  BY <1>3, <1>5 DEF NotMapped
<1> QED
  BY <1>1, <1>3, <1>5, <1>6, <1>7, <1>8, <1>9, OneChanges

LEMMA BdwriteKeeps ==
    ASSUME IInv, NEW p \in Proc, Bdwrite(p) PROVE IInv'
<1> DEFINE b == proc[p].bp
           w == Written(b)[b]
           r == [w EXCEPT !.delwri = TRUE, !.done = TRUE]
<1>1. b \in Buf /\ b \in Has(p) /\ buf[b].blk \in Block /\ buf[b].io = "none"
  BY WriterHas DEF Bdwrite
<1>2. w \in Buffer /\ w.blk = buf[b].blk /\ w.len = buf[b].len /\ w.io = buf[b].io
  BY <1>1, WrittenBuf
<1>3. r \in Buffer /\ r.blk = w.blk /\ r.len = w.len /\ r.io = w.io
  BY <1>2 DEF Buffer
<1>4. /\ buf' = [Written(b) EXCEPT ![b] = Freed(r)]
      /\ proc' = [x \in Proc |-> IF x = p THEN Idle ELSE Woken(proc[x], b)]
      /\ cpu' = None /\ wantfree' = FALSE /\ disk' = Become(Alone(b), "old")
  BY DEF Bdwrite
<1> HIDE DEF b, r, w
<1>5. buf' \in [Buf -> Buffer] /\ buf'[b] = Freed(r) /\ Others(b)
  BY <1>1, <1>3, <1>4, FreedRec, WrittenStep
<1>6. /\ proc' \in [Proc -> Process] /\ proc'[p] = Idle
      /\ \A x \in Proc \ {p} : SameBut(x)
  BY <1>1, <1>4, IdleRec, BrelseProc
<1>7. Has(p)' = {} /\ Mine(p)'
  BY <1>6, IdleMine
<1>8. cpu' \in Proc \cup {None} /\ wantfree' \in BOOLEAN /\ disk' \in Contents
  BY <1>4, TypeFacts, BecomeType
<1>9. r.io = "none" /\ r.len = buf[b].len /\ r.blk \in {buf[b].blk, None}
  BY <1>1, <1>2, <1>3
<1> QED
  BY <1>1, <1>3, <1>5, <1>6, <1>7, <1>8, <1>9, BrelseKeeps

-----------------------------------------------------------------------------
(* brealloc ends its search: no other buffer maps a sector of the new one, which *)
(* is still the one that getblk entered for the block.                           *)
LEMMA ReallocDoneKeeps ==
    ASSUME IInv, NEW p \in Proc, ReallocDone(p) PROVE IInv'
<1> DEFINE b == proc[p].bp
           r == [buf[b] EXCEPT !.len = TRUE]
<1>1. /\ proc[p].at = "realloc" /\ Mine(p)
      /\ \A x \in Buf \ {b} : ~Clash(x, Target(p))
      /\ buf' = [buf EXCEPT ![b].len = TRUE]
      /\ proc' = [proc EXCEPT ![p] = [proc[p] EXCEPT !.at = "got"]]
      /\ cpu' = p /\ wantfree' = wantfree /\ disk' = disk
  BY TypeFacts DEF ReallocDone, Runs, Goes
<1>2. b \in Buf /\ buf[b].blk = Target(p) /\ buf[b].io = "none"
  BY <1>1 DEF Mine
<1>3. b \in Has(p)
  BY <1>2, ConstantAssumption DEF Has
<1>4. buf[b] \in Buffer /\ buf[b].busy /\ ~buf[b].async
  BY <1>2, <1>3, HasBusy, TypeFacts
<1>5. /\ r \in Buffer /\ r.busy = buf[b].busy /\ r.async = buf[b].async
      /\ r.blk = buf[b].blk /\ r.io = buf[b].io /\ r.done = buf[b].done /\ r.len = TRUE
  BY <1>4 DEF Buffer
<1>6. buf' = [buf EXCEPT ![b] = r]
  BY <1>1
<1>7. MovesTo(p, "got")
  BY <1>1, MovesProc DEF Points
<1> HIDE DEF r
<1>8. buf' \in [Buf -> Buffer] /\ buf'[b] = r /\ Others(b)
  BY <1>2, <1>5, <1>6, OneBuf
<1>9. \A x \in Buf \ {b} : buf'[x] = buf[x]
  BY <1>6, TypeFacts
<1>10. MappedOnce'
  <2> SUFFICES ASSUME NEW c \in Buf, NEW d \in Buf, c # d, buf'[c].len, buf'[d].len,
                      None \notin {buf'[c].blk, buf'[d].blk}
               PROVE  Covers[buf'[c].blk] \cap Covers[buf'[d].blk] = {}
    BY DEF MappedOnce
  <2>1. CASE c # b /\ d # b
    BY <1>9, <2>1 DEF IInv, MappedOnce
  <2>2. CASE c = b
    BY <1>1, <1>2, <1>5, <1>8, <1>9, <2>2 DEF Clash, Overlaps
  <2>3. CASE d = b
    BY <1>1, <1>2, <1>5, <1>8, <1>9, <2>3 DEF Clash, Overlaps
  <2> QED
    BY <2>1, <2>2, <2>3
<1>11. \A x \in Buf : Kept(x)
  <2>1. Kept(b)
    BY <1>5, <1>8 DEF Kept
  <2> QED
    BY <1>9, <2>1 DEF Kept
<1>12. Mine(p)'
  <2>1. buf'[b].io = "none"
    BY <1>2, <1>5, <1>8
  <2>2. \A x \in Has(p) : /\ buf'[x].busy = buf[x].busy /\ buf'[x].async = buf[x].async
                          /\ buf'[x].blk = buf[x].blk
    BY <1>11, HasBusy DEF Kept
  <2> QED
    BY <1>1, <1>2, <1>7, <2>1, <2>2, MineAt DEF MovesTo
<1>13. TypeOK' /\ AtDriver'
  <2>1. \A x \in Buf : buf'[x].io # "none" => buf'[x].busy
    <3>1. \A x \in Buf \ {b} : buf'[x].io # "none" => buf'[x].busy
      BY <1>9, TypeFacts
    <3> QED
      BY <1>2, <1>5, <1>8, <3>1
  <2>2. AtDriver'
    <3>1. \A x \in Buf \ {b} : /\ buf'[x].done => buf'[x].io = "none"
                               /\ buf'[x].async => buf'[x].busy
      BY <1>9, TypeFacts
    <3> QED
      BY <1>2, <1>4, <1>5, <1>8, <3>1 DEF AtDriver
  <2> QED
    BY <1>1, <1>7, <1>8, <2>1, <2>2, TypeFacts DEF TypeOK, MovesTo
<1>14. Has(p)' = Has(p)
  BY <1>7 DEF Has, MovesTo
<1> QED
  BY <1>7, <1>10, <1>11, <1>12, <1>13, <1>14, StepKept DEF MovesTo

-----------------------------------------------------------------------------
(* The steps of no process. *)

LEMMA StartedRec ==
    ASSUME IInv, NEW b \in Buf
    PROVE  /\ Started(b) \in Buffer
           /\ Started(b).blk = buf[b].blk /\ Started(b).len = buf[b].len
           /\ Started(b).done => Started(b) = buf[b]
           /\ Started(b).done => Started(b).io = "none"
           /\ Started(b).io # "none" => Started(b).busy
           /\ Started(b).async => Started(b).busy
           /\ buf[b].busy => Started(b) = buf[b]
<1>1. CASE Started(b) = buf[b]
  <2>1. \A x \in Buf : /\ buf[x].async => buf[x].busy
                       /\ buf[x].io # "none" => buf[x].busy
    BY DEF IInv, AtDriver, TypeOK
  <2> QED
    BY <1>1, <2>1, TypeFacts
<1>2. CASE ~buf[b].busy /\ Started(b) = Async(Writing(buf[b]))
  <2> DEFINE w == Writing(buf[b])
             r == Async(w)
  <2>1. w \in Buffer /\ w.busy /\ ~w.done /\ w.blk = buf[b].blk /\ w.len = buf[b].len
    BY TypeFacts, WritingRec
  <2> HIDE DEF w
  <2>2. r \in Buffer /\ r.busy = w.busy /\ r.done = w.done /\ r.blk = w.blk /\ r.len = w.len
    BY <2>1, AsyncRec
  <2>3. Started(b) = r
    BY <1>2 DEF w
  <2> HIDE DEF r
  <2> QED
    BY <1>2, <2>1, <2>2, <2>3
<1> QED
  BY <1>1, <1>2 DEF Started

LEMMA BflushKeeps ==
    ASSUME IInv, Bflush PROVE IInv'
<1>1. /\ \A x \in Buf : buf'[x] = Started(x)
      /\ buf' = [x \in Buf |-> Started(x)]
      /\ wantfree' = wantfree /\ proc' = proc /\ cpu' = cpu /\ disk' = disk
  BY DEF Bflush
<1>2. buf' \in [Buf -> Buffer]
  BY <1>1, StartedRec
<1>3. TypeOK'
  BY <1>1, <1>2, StartedRec, TypeFacts DEF TypeOK
<1>4. AtDriver'
  BY <1>1, StartedRec DEF AtDriver
<1>5. \A x \in Buf : NotMapped(x)
  <2>1. \A x \in Buf : buf'[x].blk = buf[x].blk /\ buf'[x].len = buf[x].len
    BY <1>1, StartedRec
  <2> QED
    BY <2>1 DEF NotMapped
<1>6. \A q \in Proc : SameBut(q)
  BY <1>1 DEF SameBut
<1>7. \A x \in Buf : Kept(x) \/ ~buf[x].busy
  BY <1>1, StartedRec DEF Kept
<1> QED
  BY <1>3, <1>4, <1>5, <1>6, <1>7, NoneMapped, OutsideKept DEF IInv

(* Nobody has a buffer when the device is closed. *)
LEMMA CloseKeeps ==
    ASSUME IInv, Close PROVE IInv'
<1> DEFINE R(x) == IF Started(x).done THEN [buf[x] EXCEPT !.blk = None] ELSE Started(x)
<1>1. /\ buf' = [x \in Buf |-> R(x)]
      /\ \A p \in Proc : proc[p].at = "idle"
      /\ wantfree' = wantfree /\ proc' = proc /\ cpu' = cpu /\ disk' = disk
  BY DEF Close
<1>2. ASSUME NEW x \in Buf
      PROVE  /\ R(x) \in Buffer
             /\ R(x).done => R(x).io = "none"
             /\ R(x).io # "none" => R(x).busy
             /\ R(x).async => R(x).busy
             /\ R(x).len = buf[x].len /\ R(x).blk \in {None, buf[x].blk}
  <2>1. CASE Started(x).done
    <3> DEFINE r == [buf[x] EXCEPT !.blk = None]
    <3>1. buf[x] \in Buffer /\ Started(x) = buf[x]
      BY <2>1, StartedRec, TypeFacts
    <3>2. /\ r \in Buffer /\ r.done = buf[x].done /\ r.io = buf[x].io
          /\ r.busy = buf[x].busy /\ r.async = buf[x].async /\ r.len = buf[x].len
          /\ r.blk = None
      BY <3>1 DEF Buffer
    <3>3. R(x) = r
      BY <2>1
    <3> HIDE DEF r, R
    <3> QED
      BY <3>1, <3>2, <3>3, StartedRec
  <2>2. CASE ~Started(x).done
    BY <2>2, StartedRec
  <2> QED
    BY <2>1, <2>2
<1> HIDE DEF R
<1>3. buf' \in [Buf -> Buffer] /\ \A x \in Buf : buf'[x] = R(x)
  BY <1>1, <1>2
<1>4. TypeOK'
  BY <1>1, <1>2, <1>3, TypeFacts DEF TypeOK
<1>5. AtDriver'
  BY <1>2, <1>3 DEF AtDriver
<1>6. \A x \in Buf : NotMapped(x)
  <2>1. \A x \in Buf : buf'[x].len = buf[x].len /\ buf'[x].blk \in {None, buf[x].blk}
    BY <1>2, <1>3
  <2> QED
    BY <2>1 DEF NotMapped
<1>7. \A q \in Proc : Has(q) = {} /\ Has(q)' = {}
  <2>1. \A q \in Proc : Mine(q)
    BY DEF IInv
  <2>2. \A q \in Proc : Has(q) = {}
    BY <1>1, <2>1 DEF Mine
  <2>3. \A q \in Proc : Has(q)' = Has(q)
    BY <1>1 DEF Has
  <2> QED
    BY <2>2, <2>3
<1>8. \A q \in Proc : SameBut(q)
  BY <1>1 DEF SameBut
<1>9. \A q \in Proc : Mine(q)'
  BY <1>7, <1>8, MineKept DEF IInv
<1>10. HeldOnce'
  BY <1>7 DEF HeldOnce
<1> QED
  BY <1>4, <1>5, <1>6, <1>9, <1>10, NoneMapped DEF IInv

(* The driver is done with a buffer, which it may give back. *)
(* The buffer that the driver has done with, and the disk. *)
Ended(b, error, cur) ==
    [buf[b] EXCEPT !.io = "none", !.done = TRUE, !.error = error, !.cur = cur]

LEMMA BiodoneFacts ==
    ASSUME IInv, NEW b \in Buf, Biodone(b)
    PROVE  \E error \in BOOLEAN, cur \in SUBSET Sector :
              /\ IF buf[b].async
                 THEN /\ buf' = [buf EXCEPT ![b] = Freed(Ended(b, error, cur))]
                      /\ wantfree' = FALSE
                      /\ proc' = [q \in Proc |-> Woken(proc[q], b)]
                 ELSE /\ buf' = [buf EXCEPT ![b] =
                                    [Ended(b, error, cur) EXCEPT !.wanted = FALSE]]
                      /\ proc' = [q \in Proc |-> IF proc[q].chan # b THEN proc[q]
                                                 ELSE [proc[q] EXCEPT !.chan = None]]
                      /\ UNCHANGED wantfree
              /\ cur = IF buf[b].io = "write" THEN buf[b].cur
                       ELSE IF error THEN {} ELSE Newest(Covers[buf[b].blk])
              /\ disk' \in Contents /\ cpu' = cpu
              /\ \A t \in Sector :
                    /\ buf[b].io = "read" \/ t \notin Covers[buf[b].blk] => disk'[t] = disk[t]
                    /\ buf[b].io = "write" /\ t \in Covers[buf[b].blk] \cap cur =>
                          disk'[t] # "old"
<1> DEFINE k == Covers[buf[b].blk]
<1>1. PICK error \in BOOLEAN, put \in SUBSET Sector :
          /\ put \subseteq k /\ (buf[b].io = "read" => put = {}) /\ Ends(b, error, put)
  BY DEF Biodone
<1> DEFINE cur == IF buf[b].io = "write" THEN buf[b].cur
                  ELSE IF error THEN {} ELSE Newest(k)
           D(s) == CASE s \in put \cap cur    -> "new"
                     [] s \in put \ cur       -> "old"
                     [] s \in (k \ put) \cap cur /\ buf[b].io = "write" -> "lost"
                     [] OTHER                 -> disk[s]
<1>2. buf[b] \in Buffer /\ buf[b].io # "none" /\ disk \in Contents
  BY TypeFacts DEF Biodone
<1>3. cur \in SUBSET Sector
  BY <1>2 DEF Newest, Contents, Buffer
<1>4. Ended(b, error, cur) =
          [buf[b] EXCEPT !.io = "none", !.done = TRUE, !.error = error,
                         !.cur = IF buf[b].io = "write" THEN @
                                 ELSE IF error THEN {} ELSE Newest(k)]
      /\ Ended(b, error, cur).cur = cur
  BY <1>2 DEF Ended, Buffer
<1>5. disk' = [s \in Sector |-> D(s)] /\ cpu' = cpu
  BY <1>1, <1>4 DEF Ends
<1>6. \A s \in Sector : D(s) \in {"new", "old", "lost"}
  BY <1>2 DEF Contents
<1>7. disk' \in Contents
  BY <1>5, <1>6 DEF Contents
<1>8. ASSUME NEW t \in Sector
      PROVE  /\ buf[b].io = "read" \/ t \notin k => disk'[t] = disk[t]
             /\ buf[b].io = "write" /\ t \in k \cap cur => disk'[t] # "old"
  <2>1. disk'[t] = D(t)
    BY <1>5
  <2>2. buf[b].io = "read" \/ t \notin k => D(t) = disk[t]
    BY <1>1
  <2>3. buf[b].io = "write" /\ t \in k \cap cur => D(t) # "old"
    BY <1>1
  <2> HIDE DEF D, cur, k
  <2> QED
    BY <2>1, <2>2, <2>3
<1>9. IF buf[b].async
      THEN /\ buf' = [buf EXCEPT ![b] = Freed(Ended(b, error, cur))]
           /\ wantfree' = FALSE
           /\ proc' = [q \in Proc |-> Woken(proc[q], b)]
      ELSE /\ buf' = [buf EXCEPT ![b] = [Ended(b, error, cur) EXCEPT !.wanted = FALSE]]
           /\ proc' = [q \in Proc |-> IF proc[q].chan # b THEN proc[q]
                                      ELSE [proc[q] EXCEPT !.chan = None]]
           /\ UNCHANGED wantfree
  BY <1>1, <1>4 DEF Ends
<1> HIDE DEF D
<1> QED
  BY <1>3, <1>5, <1>7, <1>8, <1>9

LEMMA BiodoneKeeps ==
    ASSUME IInv, NEW b \in Buf, Biodone(b) PROVE IInv'
<1>1. buf[b].io # "none" /\ buf[b] \in Buffer
  BY TypeFacts DEF Biodone
<1>2. PICK error \in BOOLEAN, cur \in SUBSET Sector :
        /\ IF buf[b].async
           THEN /\ buf' = [buf EXCEPT ![b] = Freed(Ended(b, error, cur))]
                /\ wantfree' = FALSE
                /\ proc' = [q \in Proc |-> Woken(proc[q], b)]
           ELSE /\ buf' = [buf EXCEPT ![b] =
                              [Ended(b, error, cur) EXCEPT !.wanted = FALSE]]
                /\ proc' = [q \in Proc |-> IF proc[q].chan # b THEN proc[q]
                                           ELSE [proc[q] EXCEPT !.chan = None]]
                /\ UNCHANGED wantfree
        /\ disk' \in Contents /\ cpu' = cpu
  BY BiodoneFacts
<1> DEFINE e == Ended(b, error, cur)
           f == IF buf[b].async THEN Freed(e) ELSE [e EXCEPT !.wanted = FALSE]
<1>4. disk' \in Contents /\ cpu' = cpu
  BY <1>2
<1>6. /\ e \in Buffer /\ e.io = "none" /\ e.done = TRUE /\ e.blk = buf[b].blk
      /\ e.len = buf[b].len /\ e.busy = buf[b].busy /\ e.async = buf[b].async
  BY <1>1 DEF Buffer, Ended
<1>7. /\ buf' = [buf EXCEPT ![b] = f]
      /\ wantfree' \in BOOLEAN
      /\ \/ proc' = [q \in Proc |-> Woken(proc[q], b)]
         \/ proc' = [q \in Proc |-> IF proc[q].chan # b THEN proc[q]
                                    ELSE [proc[q] EXCEPT !.chan = None]]
  BY <1>2, TypeFacts
<1> HIDE DEF e
<1>8. /\ f \in Buffer /\ f.io = "none" /\ f.blk \in {buf[b].blk, None}
      /\ f.blk # None => f.len = buf[b].len
      /\ buf[b].async => f.async = FALSE
      /\ ~buf[b].async => /\ f.busy = buf[b].busy /\ f.async = buf[b].async
                          /\ f.blk = buf[b].blk
  <2>1. CASE buf[b].async
    BY <1>6, <2>1, FreedRec
  <2>2. CASE ~buf[b].async
    BY <1>6, <2>2, WantedRec
  <2> QED
    BY <2>1, <2>2
<1> HIDE DEF f
<1>9. buf' \in [Buf -> Buffer] /\ buf'[b] = f /\ Others(b)
  BY <1>7, <1>8, OneBuf
<1>10. proc' \in [Proc -> Process] /\ \A q \in Proc : SameBut(q)
  <2>1. CASE proc' = [q \in Proc |-> Woken(proc[q], b)]
    BY <2>1, TypeFacts, WokenRec DEF SameBut
  <2>2. CASE proc' = [q \in Proc |-> IF proc[q].chan # b THEN proc[q]
                                     ELSE [proc[q] EXCEPT !.chan = None]]
    <3>1. ASSUME NEW q \in Proc
          PROVE  proc'[q] \in Process /\ SameBut(q)
      <4>1. CASE proc'[q] = proc[q]
        BY <4>1, TypeFacts DEF SameBut
      <4>2. CASE proc'[q] = [proc[q] EXCEPT !.chan = None]
        <5>1. proc[q] \in Process
          BY TypeFacts
        <5> QED
          BY <4>2, <5>1 DEF SameBut, Process
      <4> QED
        BY <2>2, <4>1, <4>2
    <3> QED
      BY <2>2, <3>1
  <2> QED
    BY <1>7, <2>1, <2>2
<1>11. \A x \in Buf \ {b} : /\ buf'[x].io # "none" => buf'[x].busy
                            /\ buf'[x].done => buf'[x].io = "none"
                            /\ buf'[x].async => buf'[x].busy
  BY <1>7, TypeFacts
<1>12. buf'[b].io = "none" /\ (buf'[b].async => buf'[b].busy)
  BY <1>1, <1>8, <1>9, TypeFacts
<1>13. TypeOK' /\ AtDriver'
  BY <1>4, <1>7, <1>9, <1>10, <1>11, <1>12, TypeFacts DEF TypeOK, AtDriver
<1>14. \A x \in Buf : NotMapped(x)
  <2>1. NotMapped(b)
    BY <1>8, <1>9 DEF NotMapped
  <2> QED
    BY <1>9, <2>1 DEF Others
<1>15. \A x \in Buf : Kept(x) \/ ~buf[x].busy \/ buf[x].async
  <2>1. ~buf[b].async => Kept(b)
    BY <1>8, <1>9 DEF Kept
  <2> QED
    BY <1>9, <2>1 DEF Others
<1> QED
  BY <1>10, <1>13, <1>14, <1>15, NoneMapped, OutsideKept DEF IInv

-----------------------------------------------------------------------------
LEMMA InitInv == Init => IInv
<1> SUFFICES ASSUME Init PROVE IInv
  OBVIOUS
<1>1. Empty \in Buffer
  BY DEF Empty, Buffer
<1>2. /\ \A b \in Buf : buf[b] = Empty
      /\ \A p \in Proc : proc[p] = Idle
      /\ buf \in [Buf -> Buffer] /\ proc \in [Proc -> Process]
      /\ wantfree = FALSE /\ cpu = None /\ disk \in Contents
  BY <1>1, IdleRec DEF Init, Contents
<1>3. Empty.io = "none" /\ Empty.async = FALSE /\ Empty.blk = None
  BY DEF Empty
<1>4. TypeOK /\ AtDriver /\ MappedOnce
  BY <1>2, <1>3 DEF TypeOK, AtDriver, MappedOnce
<1>5. \A p \in Proc : Has(p) = {}
  BY <1>2, IdleRec DEF Has
<1>6. \A p \in Proc : Mine(p)
  BY <1>2, <1>5, IdleRec DEF Mine
<1> QED
  BY <1>4, <1>5, <1>6 DEF IInv, HeldOnce

LEMMA InductiveStep == IInv /\ [Next]_vars => IInv'
<1> SUFFICES ASSUME IInv, [Next]_vars PROVE IInv'
  OBVIOUS
<1>1. ASSUME NEW p \in Proc, Step(p) PROVE IInv'
  BY <1>1, GetblkSleepKeeps, MovesKeep, GetblkHitKeeps, NewbufWriteKeeps, NewbufTakeKeeps,
     SleepsKeep, ReallocWriteKeeps, DroppedKeeps, ReallocInvalKeeps, ReallocDoneKeeps,
     GotKeeps, NamesSteps, GotAheadKeeps, ReleaseKeeps, BdwriteKeeps, BwriteKeeps,
     BawriteKeeps DEF Step
<1>2. ASSUME NEW p \in Proc, NEW k \in Block \cup {None},
             NEW op \in {"bread", "breada", "getblk", "geteblk", "blkflush"},
             Begin(p, op, k)
      PROVE  IInv'
  BY <1>2, BeginKeeps
<1>3. ASSUME NEW b \in Buf, Biodone(b) PROVE IInv'
  BY <1>3, BiodoneKeeps
<1>4. CASE Bflush \/ Close
  BY <1>4, BflushKeeps, CloseKeeps
<1>5. CASE UNCHANGED vars
  <2>1. \A x \in Buf : Kept(x) /\ NotMapped(x)
    BY <1>5 DEF vars, Kept, NotMapped
  <2>2. \A q \in Proc : SameBut(q)
    BY <1>5 DEF vars, SameBut
  <2>3. TypeOK' /\ AtDriver'
    BY <1>5 DEF vars, IInv, TypeOK, AtDriver
  <2> QED
    BY <2>1, <2>2, <2>3, NoneMapped, OutsideKept DEF IInv
<1> QED
  BY <1>1, <1>2, <1>3, <1>4, <1>5 DEF Next

LEMMA Inductive == Spec => []IInv
BY InitInv, InductiveStep, PTL DEF Spec

(* The cache's state has its type, and what the driver works on is in use: no    *)
(* process takes a buffer that a request of getblk, bflush or bread is under way *)
(* for (notavail before strategy, brelse only after biowait).                    *)
THEOREM TypeCorrect == Spec => []TypeOK
<1>1. IInv => TypeOK
  BY DEF IInv
<1> QED
  BY <1>1, Inductive, PTL

(* "A disk block must be mapped by at most one buffer at any point in time"      *)
(* (brealloc): whatever processes do while brealloc sleeps for a buffer in the   *)
(* way or writes it.                                                             *)
THEOREM MapsOnce == Spec => []MappedOnce
<1>1. IInv => MappedOnce
  BY DEF IInv
<1> QED
  BY <1>1, Inductive, PTL

(* A buffer is never two processes': getblk, brealloc, breada's second buffer    *)
(* and the buffers that are written in passing never meet.                       *)
THEOREM NeverShared == Spec => []HeldOnce
<1>1. IInv => HeldOnce
  BY DEF IInv
<1> QED
  BY <1>1, Inductive, PTL
-----------------------------------------------------------------------------
(***************************************************************************)
(* No wakeup is lost, no buffer is lost, and nobody reads old data.        *)
(*                                                                         *)
(* Wakes: what a process sleeps for is in use, and is marked as wanted or  *)
(* is the process's own and with the driver.  That biowait does not sleep  *)
(* on a buffer that nothing is under way for rests on Expects: what is     *)
(* waited for by biowait has been read or was given to the driver.         *)
(*                                                                         *)
(* AllSound: what of each buffer agrees with the disk.  A sector that the  *)
(* disk has not got as it was last written, and that no failed write and   *)
(* no reader of a FIFO gave up, is in a buffer that waits to be written    *)
(* (Owed), so the search of brealloc finds that buffer before a block that *)
(* covers the sector is read.                                              *)
(***************************************************************************)

(* A buffer that biowait may be called for. *)
Going(b) == buf[b].done \/ buf[b].io # "none"

Dozes(p) ==
    LET q == proc[p]
    IN  /\ q.at = "idle" => q.chan = None
        /\ q.chan \in Buf => /\ buf[q.chan].busy
                             /\ \/ buf[q.chan].wanted
                                \/ q.chan \in Has(p) /\ buf[q.chan].io # "none"
        /\ q.chan = Free => wantfree /\ \A b \in Buf : buf[b].busy

Expects(p) ==
    LET q == proc[p]
    IN  /\ q.at = "read" \/ (q.at = "ahead" /\ q.bp # None) => Going(q.bp)
        /\ q.first # None => Going(q.first)

Wakes == \A p \in Proc : Dozes(p) /\ Expects(p)

(* Found by the search for overlapping blocks; not yet on the disk. *)
Mapped(b) == buf[b].blk # None /\ buf[b].len
Dirty(b)  == buf[b].delwri \/ buf[b].io = "write"

Sound(b) ==
    LET r == buf[b]
    IN  /\ Dirty(b) => Mapped(b) /\ r.cur = Covers[r.blk]
        /\ r.delwri => r.done /\ ~r.error
        /\ r.io # "none" => Mapped(b)
        /\ r.done => r.len
        /\ r.blk # None /\ r.done /\ ~r.error =>
              \A s \in Covers[r.blk] \ r.cur : disk[s] = "lost"
        /\ Mapped(b) /\ ~r.done /\ r.io # "write" =>
              \A s \in Covers[r.blk] : disk[s] # "old"
        /\ r.blk # None /\ ~r.busy => r.len /\ ~r.error

Owed == \A s \in Sector : disk[s] = "old" =>
            \E b \in Buf : Dirty(b) /\ s \in Covers[buf[b].blk]

(* A buffer in use is some process's, or the driver will give it back. *)
NoneLost == \A b \in Buf : buf[b].busy =>
                (buf[b].async /\ buf[b].io # "none") \/ \E p \in Proc : b \in Has(p)

(* Which names a process uses where, and what of its buffers is filled in. *)
Fills(p) ==
    LET q == proc[p]
    IN  /\ q.op = "geteblk" => q.at \in {"newbuf", "hold"}
        /\ q.at = "read" => q.op # "getblk"
        /\ q.at \in {"idle", "getblk", "newbuf", "last", "flush", "flushing"} => q.bp = None
        /\ q.first # None => q.ra \/ q.at = "last"
        /\ q.ra => q.at \in {"getblk", "newbuf", "realloc", "drop", "got"}
        /\ q.at \in {"realloc", "drop"} => ~buf[q.bp].len
        /\ \A b \in Has(p) : (q.at \in {"realloc", "drop"} /\ b = q.bp) \/ buf[b].len
        /\ q.at \in {"realloc", "drop", "got"} \/ (q.at = "hold" /\ q.op = "getblk") =>
              ~buf[q.bp].error

Sounds == \A b \in Buf : Sound(b)

AllSound == Sounds /\ Owed /\ NoneLost /\ \A p \in Proc : Fills(p)

-----------------------------------------------------------------------------
(* How a step may leave a buffer and a process. *)

(* But for being wanted the buffer is as it was. *)
Like(b) ==
    /\ buf'[b].blk = buf[b].blk /\ buf'[b].len = buf[b].len
    /\ buf'[b].busy = buf[b].busy /\ (buf[b].wanted => buf'[b].wanted)
    /\ buf'[b].done = buf[b].done /\ buf'[b].error = buf[b].error
    /\ buf'[b].delwri = buf[b].delwri /\ buf'[b].async = buf[b].async
    /\ buf'[b].io = buf[b].io /\ buf'[b].cur = buf[b].cur

(* Nobody who sleeps for it, or counts on it, has to be woken. *)
Gentle(b) ==
    buf[b].busy => /\ buf'[b].busy
                   /\ buf[b].wanted => buf'[b].wanted
                   /\ buf[b].io # "none" => buf'[b].io # "none"
                   /\ Going(b) => buf'[b].done \/ buf'[b].io # "none"

LEMMA LikeGentle == ASSUME NEW b \in Buf, Like(b) PROVE Gentle(b)
  BY DEF Like, Gentle, Going

(* A process that the step leaves alone. *)
LEMMA StillWaits ==
    ASSUME IInv, NEW q \in Proc, Dozes(q), proc'[q] = proc[q],
           wantfree => wantfree', \A x \in Buf : Gentle(x)
    PROVE  Dozes(q)'
<1>1. Has(q)' = Has(q)
  BY DEF Has
<1> QED
  BY <1>1 DEF Dozes, Gentle

LEMMA StillExpects ==
    ASSUME IInv, NEW q \in Proc, Expects(q), SameBut(q), \A x \in Has(q) : Gentle(x)
    PROVE  Expects(q)'
<1>1. \A x \in Has(q) : x \in Buf /\ buf[x].busy
  BY HasBusy
<1>2. proc[q].at = "read" => proc[q].bp # None
  BY ConstantAssumption DEF IInv, Mine
<1>3. \A x \in {proc[q].bp, proc[q].first} : x # None => x \in Has(q)
  BY DEF Has
<1> QED
  BY <1>1, <1>2, <1>3 DEF Expects, SameBut, Gentle, Going

LEMMA OthersWake ==
    ASSUME IInv, Wakes, NEW p \in Proc, \A x \in Proc \ {p} : proc'[x] = proc[x],
           wantfree => wantfree', \A x \in Buf : Gentle(x), Dozes(p)', Expects(p)'
    PROVE  Wakes'
<1>1. ASSUME NEW q \in Proc \ {p} PROVE Dozes(q)' /\ Expects(q)'
  <2>1. SameBut(q) /\ \A x \in Has(q) : Gentle(x)
    BY HasBusy DEF SameBut
  <2> QED
    BY <2>1, StillWaits, StillExpects DEF Wakes
<1> QED
  BY <1>1 DEF Wakes

(* A process that sleeps for nothing. *)
LEMMA Awake ==
    ASSUME NEW p \in Proc, proc'[p].chan = None PROVE Dozes(p)'
  BY ConstantAssumption DEF Dozes

(* Whoever is not the one who gives b back, and does not have it. *)
LEMMA WokenWakes ==
    ASSUME IInv, Wakes, NEW q \in Proc, NEW b \in Buf, b \notin Has(q),
           proc'[q] = Woken(proc[q], b), \A x \in Buf \ {b} : Gentle(x)
    PROVE  Dozes(q)' /\ Expects(q)'
<1>1. proc[q] \in Process /\ SameBut(q)
  BY TypeFacts, WokenRec DEF SameBut
<1>2. Has(q)' = Has(q) /\ \A x \in Has(q) : x \in Buf \ {b}
  BY <1>1, HasBusy DEF Has, SameBut
<1>3. Expects(q)'
  BY <1>1, <1>2, StillExpects DEF Wakes
<1>4. CASE proc'[q].chan = None
  BY <1>3, <1>4, Awake
<1>5. CASE proc'[q] = proc[q] /\ ~(proc[q].chan = b /\ buf[b].wanted)
                              /\ ~(proc[q].chan = Free /\ wantfree)
  <2>1. Dozes(q)
    BY DEF Wakes
  <2>2. proc[q].chan # b
    BY <1>5, <2>1 DEF Dozes
  <2>3. proc[q].chan # Free
    BY <1>5, <2>1 DEF Dozes
  <2>4. proc[q].chan \in Buf => Gentle(proc[q].chan)
    BY <2>2
  <2> QED
    BY <1>2, <1>3, <1>5, <2>1, <2>3, <2>4 DEF Dozes, Gentle
<1> QED
  BY <1>1, <1>4, <1>5 DEF Woken, Process
-----------------------------------------------------------------------------
(* What a step of a process has to show for the buffers to stay sound. *)

LEMMA LikeSound ==
    ASSUME NEW b \in Buf, Sound(b), Like(b), disk' = disk
    PROVE  Sound(b)' /\ (Dirty(b)' <=> Dirty(b))
  BY DEF Sound, Like, Dirty, Mapped

(* A process that keeps its names, and whose buffers are as filled in as before. *)
LEMMA FillsKept ==
    ASSUME NEW q \in Proc, Fills(q), SameBut(q),
           \A x \in Has(q) : /\ buf'[x].len = buf[x].len
                             /\ buf'[x].error = buf[x].error \/ buf[x].io # "none",
           Mine(q)
    PROVE  Fills(q)'
<1>1. Has(q)' = Has(q)
  BY DEF Has, SameBut
<1>2. proc[q].at \in {"realloc", "drop", "got", "hold"} =>
          proc[q].bp \in Has(q) /\ buf[proc[q].bp].io = "none"
  BY ConstantAssumption DEF Mine, Has
<1>3. proc[q].at \in {"realloc", "drop"} => ~buf[proc[q].bp].len
  BY DEF Fills
<1>4. \A x \in Has(q) : (proc[q].at \in {"realloc", "drop"} /\ x = proc[q].bp) \/ buf[x].len
  BY DEF Fills
<1>5. proc[q].at \in {"realloc", "drop", "got"} \/ (proc[q].at = "hold" /\ proc[q].op = "getblk")
        => ~buf[proc[q].bp].error
  BY DEF Fills
<1> QED
  BY <1>1, <1>2, <1>3, <1>4, <1>5 DEF Fills, SameBut

(* Sectors not on the disk stay where they wait to be written. *)
LEMMA OwedKept ==
    ASSUME AllSound, disk' = disk,
           \A x \in Buf : Dirty(x) => Dirty(x)' /\ buf'[x].blk = buf[x].blk
    PROVE  Owed'
<1> SUFFICES ASSUME NEW s \in Sector, disk[s] = "old"
             PROVE  \E x \in Buf : Dirty(x)' /\ s \in Covers[buf'[x].blk]
  BY DEF Owed
<1>1. PICK x \in Buf : Dirty(x) /\ s \in Covers[buf[x].blk]
  BY DEF AllSound, Owed
<1> QED
  BY <1>1

(* A buffer that the step leaves alone is not lost, unless p lets go of it. *)
LEMMA FoundKept ==
    ASSUME AllSound, NEW p \in Proc, \A x \in Proc \ {p} : SameBut(x),
           NEW x \in Buf, buf'[x].busy, buf[x].busy, x \in Has(p) => x \in Has(p)',
           buf'[x].async = buf[x].async, buf'[x].io = buf[x].io
    PROVE  (buf'[x].async /\ buf'[x].io # "none") \/ \E q \in Proc : x \in Has(q)'
<1>1. (buf[x].async /\ buf[x].io # "none") \/ \E q \in Proc : x \in Has(q)
  BY DEF AllSound, NoneLost
<1>2. CASE buf[x].async /\ buf[x].io # "none"
  BY <1>2
<1>3. ASSUME NEW q \in Proc, x \in Has(q) PROVE x \in Has(q)'
  BY <1>3 DEF Has, SameBut
<1> QED
  BY <1>1, <1>2, <1>3

(* One buffer changes, by a step of p. *)
LEMMA StepSound ==
    ASSUME IInv, AllSound, NEW p \in Proc, NEW b \in Buf,
           \A x \in Buf \ {b} : Like(x), b \in Has(p) \/ ~buf[b].busy,
           disk' = disk, \A x \in Proc \ {p} : SameBut(x), Sound(b)',
           Dirty(b) => Dirty(b)' /\ buf'[b].blk = buf[b].blk,
           Has(p) \ {b} \subseteq Has(p)',
           buf'[b].busy => (buf'[b].async /\ buf'[b].io # "none") \/ b \in Has(p)',
           Fills(p)'
    PROVE  AllSound'
<1>1. Sounds'
  BY LikeSound DEF AllSound, Sounds
<1>2. Owed'
  <2>1. \A x \in Buf \ {b} : Dirty(x) => Dirty(x)' /\ buf'[x].blk = buf[x].blk
    BY LikeSound DEF AllSound, Sounds, Like
  <2> QED
    BY <2>1, OwedKept
<1>3. NoneLost'
  BY FoundKept DEF NoneLost, Like
<1>4. ASSUME NEW q \in Proc \ {p} PROVE Fills(q)'
  <2>1. b \notin Has(q)
    BY HasBusy DEF IInv, HeldOnce
  <2>2. \A x \in Has(q) : x \in Buf \ {b}
    BY <2>1, HasBusy
  <2> QED
    BY <2>2, FillsKept DEF Like, AllSound, IInv
<1> QED
  BY <1>1, <1>2, <1>3, <1>4 DEF AllSound

(* No buffer changes but for being wanted. *)
LEMMA PlainSound ==
    ASSUME IInv, AllSound, NEW p \in Proc, \A x \in Buf : Like(x), disk' = disk,
           \A x \in Proc \ {p} : SameBut(x), Has(p) \subseteq Has(p)', Fills(p)'
    PROVE  AllSound'
<1>1. Sounds'
  BY LikeSound DEF AllSound, Sounds
<1>2. Owed'
  <2>1. \A x \in Buf : Dirty(x) => Dirty(x)' /\ buf'[x].blk = buf[x].blk
    BY LikeSound DEF AllSound, Sounds, Like
  <2> QED
    BY <2>1, OwedKept
<1>3. NoneLost'
  BY FoundKept DEF NoneLost, Like
<1>4. ASSUME NEW q \in Proc \ {p} PROVE Fills(q)'
  <2>1. \A x \in Has(q) : x \in Buf
    BY HasBusy
  <2> QED
    BY <2>1, FillsKept DEF Like, AllSound, IInv
<1> QED
  BY <1>1, <1>2, <1>3, <1>4 DEF AllSound

-----------------------------------------------------------------------------
(* The steps that leave the buffers alone. *)

LEMMA SameLike == ASSUME NEW x \in Buf, buf'[x] = buf[x] PROVE Like(x) /\ Gentle(x)
  BY LikeGentle DEF Like

(* To sleep for a buffer that is marked as wanted. *)
LEMMA SleepWell ==
    ASSUME IInv, Wakes, AllSound, NEW p \in Proc, NEW at \in {"getblk", "realloc", "flush"},
           proc[p].at = at, NEW b \in Buf, buf[b].busy,
           buf' = [buf EXCEPT ![b].wanted = TRUE], Sleeps(p, at, b),
           UNCHANGED <<wantfree, disk>>
    PROVE  Wakes' /\ AllSound'
<1>1. proc[p] \in Process /\ buf[b] \in Buffer
  BY TypeFacts
<1>2. \A x \in Buf : Like(x)
  <2>1. ASSUME NEW x \in Buf \ {b} PROVE Like(x)
    BY <2>1, TypeFacts, SameLike
  <2>2. buf'[b] = [buf[b] EXCEPT !.wanted = TRUE]
    BY TypeFacts
  <2> DEFINE r == [buf[b] EXCEPT !.wanted = TRUE]
  <2>3. /\ r.blk = buf[b].blk /\ r.len = buf[b].len /\ r.busy = buf[b].busy /\ r.wanted
        /\ r.done = buf[b].done /\ r.error = buf[b].error /\ r.delwri = buf[b].delwri
        /\ r.async = buf[b].async /\ r.io = buf[b].io /\ r.cur = buf[b].cur
    BY <1>1 DEF Buffer
  <2> HIDE DEF r
  <2>4. buf'[b] = r
    BY <2>2 DEF r
  <2>5. Like(b)
    BY <2>3, <2>4 DEF Like
  <2> QED
    BY <2>1, <2>5
<1>3. buf'[b].wanted
  BY <1>1, TypeFacts DEF Buffer
<1>4. /\ proc'[p].chan = b /\ SameBut(p)
      /\ \A x \in Proc \ {p} : proc'[x] = proc[x] /\ SameBut(x)
  BY <1>1, TypeFacts DEF Sleeps, SameBut, Process
<1>5. Dozes(p)'
  BY <1>2, <1>3, <1>4, ConstantAssumption DEF Dozes, SameBut, Like
<1>6. Expects(p)'
  BY <1>2, <1>4, HasBusy, LikeGentle, StillExpects DEF Wakes
<1>7. Wakes'
  BY <1>2, <1>4, <1>5, <1>6, LikeGentle, OthersWake
<1>8. Has(p)' = Has(p)
  BY <1>4 DEF Has, SameBut
<1>9. Fills(p)'
  BY <1>2, <1>4, HasBusy, FillsKept DEF AllSound, IInv, Like
<1> QED
  BY <1>2, <1>4, <1>7, <1>8, <1>9, PlainSound

LEMMA SleepsWell ==
    ASSUME IInv, Wakes, AllSound, NEW p \in Proc, GetblkSleep(p) \/ ReallocSleep(p) \/ FlushSleep(p)
    PROVE  Wakes' /\ AllSound'
<1>1. CASE GetblkSleep(p)
  BY <1>1, SleepWell DEF GetblkSleep, Runs
<1>2. CASE ReallocSleep(p)
  BY <1>2, SleepWell DEF ReallocSleep, Runs
<1>3. CASE FlushSleep(p)
  BY <1>3, SleepWell DEF FlushSleep, Runs
<1> QED
  BY <1>1, <1>2, <1>3

(* A process goes on, or to sleep, and changes no buffer. *)
LEMMA GoWell ==
    ASSUME IInv, Wakes, AllSound, NEW p \in Proc, NEW q, proc' = [proc EXCEPT ![p] = q],
           buf' = buf, disk' = disk, wantfree => wantfree', Has(p) \subseteq Has(p)',
           Dozes(p)', Expects(p)', Fills(p)'
    PROVE  Wakes' /\ AllSound'
<1>1. \A x \in Buf : Like(x) /\ Gentle(x)
  BY SameLike
<1>2. \A x \in Proc \ {p} : proc'[x] = proc[x] /\ SameBut(x)
  BY TypeFacts DEF SameBut
<1> QED
  BY <1>1, <1>2, OthersWake, PlainSound
LEMMA BeginWell ==
    ASSUME IInv, Wakes, AllSound, NEW p \in Proc, NEW k \in Block \cup {None},
           NEW op \in {"bread", "breada", "getblk", "geteblk", "blkflush"}, Begin(p, op, k)
    PROVE  Wakes' /\ AllSound'
<1> DEFINE at == CASE op = "geteblk" -> "newbuf"
                   [] op = "blkflush" -> "flush"
                   [] op = "breada" /\ Incore(k) -> "ahead"
                   [] OTHER -> "getblk"
           q == [Idle EXCEPT !.op = op, !.blk = k, !.at = at]
<1>1. /\ proc[p].at = "idle" /\ proc' = [proc EXCEPT ![p] = q]
      /\ buf' = buf /\ disk' = disk /\ wantfree' = wantfree
  BY DEF Begin, Runs, Goes
<1>2. /\ at \in {"newbuf", "flush", "ahead", "getblk"}
      /\ op = "geteblk" => at = "newbuf"
  OBVIOUS
<1> HIDE DEF at
<1>3. /\ q.at = at /\ q.op = op /\ q.bp = None /\ q.first = None /\ q.ep = None
      /\ q.chan = None /\ q.ra = FALSE
  BY DEF Idle
<1> HIDE DEF q
<1>4. proc'[p] = q
  BY <1>1, TypeFacts
<1>5. Has(p) = {} /\ Has(p)' = {}
  BY <1>1, <1>3, <1>4, TypeFacts DEF Mine, Has
<1>6. Dozes(p)' /\ Expects(p)'
  BY <1>2, <1>3, <1>4, Awake DEF Expects
<1>7. Fills(p)'
  BY <1>2, <1>3, <1>4, <1>5 DEF Fills
<1> QED
  BY <1>1, <1>5, <1>6, <1>7, GoWell

(* What a process knows of its names where it goes on from. *)
LEMMA NamesAt ==
    ASSUME IInv, AllSound, NEW p \in Proc
    PROVE  /\ proc[p] \in Process /\ Mine(p) /\ Fills(p)
           /\ proc[p].at \in {"ahead", "hold", "read", "write", "flush", "flushing"} =>
                 proc[p].first = None /\ ~proc[p].ra
           /\ proc[p].at \notin {"drop", "flushing"} => proc[p].ep = None
           /\ proc[p].at \in {"realloc", "drop", "got", "read", "hold", "write"} =>
                 proc[p].bp \in Buf /\ proc[p].bp \in Has(p)
  BY TypeFacts, ConstantAssumption DEF AllSound, Fills, Mine, Has

LEMMA MissWell ==
    ASSUME IInv, Wakes, AllSound, NEW p \in Proc, GetblkMiss(p) \/ NewbufSleep(p)
    PROVE  Wakes' /\ AllSound'
<1>1. /\ proc[p].at \in {"getblk", "newbuf"} /\ proc[p].chan = None
      /\ buf' = buf /\ disk' = disk
  BY DEF GetblkMiss, NewbufSleep, Runs
<1>2. PICK c \in {None, Free} :
        /\ proc' = [proc EXCEPT ![p] = [proc[p] EXCEPT !.at = "newbuf", !.chan = c]]
        /\ c = None => wantfree' = wantfree
        /\ c = Free => wantfree' = TRUE /\ \A b \in Buf : buf[b].busy
  <2>1. CASE GetblkMiss(p)
    <3>1. [proc[p] EXCEPT !.at = "newbuf"] = [proc[p] EXCEPT !.at = "newbuf", !.chan = None]
      BY <1>1, TypeFacts DEF Process
    <3>2. proc' = [proc EXCEPT ![p] = [proc[p] EXCEPT !.at = "newbuf"]] /\ wantfree' = wantfree
      BY <2>1 DEF GetblkMiss, Goes
    <3> QED
      BY <3>1, <3>2, ConstantAssumption
  <2>2. CASE NewbufSleep(p)
    BY <2>2, ConstantAssumption DEF NewbufSleep, Sleeps
  <2> QED
    BY <2>1, <2>2
<1> DEFINE q == [proc[p] EXCEPT !.at = "newbuf", !.chan = c]
<1>3. /\ q.at = "newbuf" /\ q.chan = c /\ q.op = proc[p].op /\ q.bp = proc[p].bp
      /\ q.first = proc[p].first /\ q.ep = proc[p].ep /\ q.ra = proc[p].ra
  BY TypeFacts DEF Process
<1>4. proc'[p] = q
  BY <1>2, TypeFacts
<1>5. wantfree => wantfree'
  BY <1>2
<1>6. proc' = [proc EXCEPT ![p] = q]
  BY <1>2
<1> HIDE DEF q
<1>7. Has(p)' = Has(p)
  BY <1>3, <1>4 DEF Has
<1>8. Dozes(p)'
  BY <1>1, <1>2, <1>3, <1>4, ConstantAssumption DEF Dozes
<1>9. Expects(p)'
  BY <1>1, <1>3, <1>4 DEF Wakes, Expects, Going
<1>10. Fills(p)'
  BY <1>1, <1>3, <1>4, <1>7, NamesAt DEF Fills
<1> QED
  BY <1>1, <1>5, <1>6, <1>7, <1>8, <1>9, <1>10, GoWell

LEMMA ReadAheadWell ==
    ASSUME IInv, Wakes, AllSound, NEW p \in Proc, ReadAhead(p)
    PROVE  Wakes' /\ AllSound'
<1> DEFINE in == Incore(Ahead[proc[p].blk])
           q == [proc[p] EXCEPT !.at = IF in THEN "last" ELSE "getblk", !.ra = ~in,
                                !.first = proc[p].bp, !.bp = None]
<1>1. /\ proc[p].at = "ahead" /\ proc[p].chan = None
      /\ proc' = [proc EXCEPT ![p] = q]
      /\ buf' = buf /\ disk' = disk /\ wantfree' = wantfree
  BY DEF ReadAhead, Runs, Goes
<1> HIDE DEF in
<1>2. /\ q.at = IF in THEN "last" ELSE "getblk"
      /\ q.chan = proc[p].chan /\ q.op = proc[p].op /\ q.bp = None
      /\ q.first = proc[p].bp /\ q.ep = proc[p].ep /\ q.ra = ~in
  BY TypeFacts DEF Process
<1> HIDE DEF q
<1>3. proc'[p] = q
  BY <1>1, TypeFacts
<1>4. Has(p)' = Has(p)
  BY <1>1, <1>2, <1>3, NamesAt DEF Has
<1>5. Dozes(p)'
  BY <1>1, <1>2, <1>3, Awake
<1>6. Expects(p)'
  BY <1>1, <1>2, <1>3 DEF Wakes, Expects, Going
<1>7. Fills(p)'
  BY <1>1, <1>2, <1>3, <1>4, NamesAt DEF Fills
<1> QED
  BY <1>1, <1>4, <1>5, <1>6, <1>7, GoWell

LEMMA LastWell ==
    ASSUME IInv, Wakes, AllSound, NEW p \in Proc, Last(p)
    PROVE  Wakes' /\ AllSound'
<1> DEFINE at == IF proc[p].first = None THEN "getblk" ELSE "read"
           r == [proc[p] EXCEPT !.first = None, !.bp = proc[p].first, !.op = "bread"]
           q == [r EXCEPT !.at = IF r.bp = None THEN "getblk" ELSE "read"]
<1>1. /\ proc[p].at = "last" /\ proc[p].chan = None
      /\ proc' = [proc EXCEPT ![p] = q]
      /\ buf' = buf /\ disk' = disk /\ wantfree' = wantfree
  BY DEF Last, Runs, Goes
<1>2. /\ q.at = at
      /\ q.chan = proc[p].chan /\ q.op = "bread" /\ q.bp = proc[p].first
      /\ q.first = None /\ q.ep = proc[p].ep /\ q.ra = proc[p].ra
  BY TypeFacts DEF Process
<1> HIDE DEF q, r
<1>3. proc'[p] = q
  BY <1>1, TypeFacts
<1>4. Has(p)' = Has(p) /\ ~proc[p].ra
  BY <1>1, <1>2, <1>3, NamesAt DEF Has, Fills, Mine
<1>5. Dozes(p)'
  BY <1>1, <1>2, <1>3, Awake
<1>6. Expects(p)'
  BY <1>1, <1>2, <1>3 DEF Wakes, Expects, Going
<1>7. Fills(p)'
  BY <1>1, <1>2, <1>3, <1>4, NamesAt DEF Fills
<1> QED
  BY <1>1, <1>4, <1>5, <1>6, <1>7, GoWell

(* biowait: the block has been read, or the driver has it. *)
LEMMA ReadWell ==
    ASSUME IInv, Wakes, AllSound, NEW p \in Proc, ReadDone(p) \/ ReadSleep(p)
    PROVE  Wakes' /\ AllSound'
<1> DEFINE b == proc[p].bp
<1>1. /\ proc[p].at = "read" /\ proc[p].chan = None /\ b \in Buf /\ b \in Has(p)
      /\ buf' = buf /\ disk' = disk /\ wantfree' = wantfree
  BY NamesAt DEF ReadDone, ReadSleep, Runs
<1>2. PICK at \in {"hold", "read"}, c \in {None, b} :
        /\ proc' = [proc EXCEPT ![p] = [proc[p] EXCEPT !.at = at, !.chan = c]]
        /\ c = b => ~buf[b].done
        /\ at = "hold" => c = None
  <2>1. CASE ReadDone(p)
    <3>1. proc[p] = [proc[p] EXCEPT !.chan = None]
      BY <1>1, TypeFacts DEF Process
    <3>2. None # b
      BY <1>1, ConstantAssumption
    <3> QED
      BY <2>1, <3>1, <3>2 DEF ReadDone
  <2>2. CASE ReadSleep(p)
    BY <2>2, <1>1, ConstantAssumption DEF ReadSleep, Sleeps
  <2> QED
    BY <2>1, <2>2
<1> DEFINE q == [proc[p] EXCEPT !.at = at, !.chan = c]
<1>3. /\ q.at = at /\ q.chan = c /\ q.op = proc[p].op /\ q.bp = proc[p].bp
      /\ q.first = proc[p].first /\ q.ep = proc[p].ep /\ q.ra = proc[p].ra
  BY TypeFacts DEF Process
<1>4. proc' = [proc EXCEPT ![p] = q]
  BY <1>2
<1> HIDE DEF q
<1>5. proc'[p] = q
  BY <1>4, TypeFacts
<1>6. Has(p)' = Has(p)
  BY <1>3, <1>5 DEF Has
<1>7. Expects(p)'
  BY <1>1, <1>3, <1>5 DEF Wakes, Expects, Going
<1>8. Dozes(p)'
  <2>1. CASE c = None
    BY <1>3, <1>5, <2>1, Awake
  <2>2. CASE c = b
    <3>1. buf[b].busy /\ buf[b].io # "none"
      BY <1>1, <1>2, <2>2, HasBusy DEF Wakes, Expects, Going
    <3>2. b # Free /\ b # None
      BY <1>1, ConstantAssumption
    <3> QED
      BY <1>1, <1>2, <1>3, <1>5, <1>6, <2>2, <3>1, <3>2 DEF Dozes
  <2> QED
    BY <2>1, <2>2
<1>9. Fills(p)'
  BY <1>1, <1>3, <1>5, <1>6, NamesAt DEF Fills
<1> QED
  BY <1>1, <1>4, <1>6, <1>7, <1>8, <1>9, GoWell

LEMMA FlushDoneWell ==
    ASSUME IInv, Wakes, AllSound, NEW p \in Proc, FlushDone(p)
    PROVE  Wakes' /\ AllSound'
<1>1. /\ proc[p].at = "flush" /\ proc' = [proc EXCEPT ![p] = Idle]
      /\ buf' = buf /\ disk' = disk /\ wantfree' = wantfree
  BY DEF FlushDone, Runs
<1>2. proc'[p] = Idle
  BY <1>1, TypeFacts
<1>3. Has(p) = {}
  BY <1>1, NamesAt DEF Has, Fills
<1>4. Has(p)' = {} /\ Dozes(p)' /\ Expects(p)' /\ Fills(p)'
  BY <1>2, Awake DEF Idle, Has, Expects, Fills
<1> QED
  BY <1>1, <1>3, <1>4, GoWell
-----------------------------------------------------------------------------
(* The steps that change one buffer. *)

(* What the operations on a buffer make of each of its fields. *)
LEMMA WritingAll ==
    ASSUME NEW r \in Buffer
    PROVE  LET w == Writing(r)
           IN  /\ w.blk = r.blk /\ w.len = r.len /\ w.busy /\ w.wanted = r.wanted
               /\ ~w.done /\ ~w.error /\ ~w.delwri /\ w.async = r.async
               /\ w.io = "write" /\ w.cur = r.cur
  BY DEF Writing, Buffer

LEMMA ReadingAll ==
    ASSUME NEW r \in Buffer
    PROVE  LET w == Reading(r)
           IN  /\ w.blk = r.blk /\ w.len = r.len /\ w.busy = r.busy /\ w.wanted = r.wanted
               /\ w.done = r.done /\ w.error = r.error /\ w.delwri = r.delwri
               /\ w.async = r.async /\ w.io = "read" /\ w.cur = r.cur
  BY DEF Reading, Buffer

LEMMA AsyncAll ==
    ASSUME NEW r \in Buffer
    PROVE  LET w == Async(r)
           IN  /\ w.blk = r.blk /\ w.len = r.len /\ w.busy = r.busy /\ w.wanted = r.wanted
               /\ w.done = r.done /\ w.error = r.error /\ w.delwri = r.delwri
               /\ w.async /\ w.io = r.io /\ w.cur = r.cur
  BY DEF Async, Buffer

LEMMA FreedAll ==
    ASSUME NEW r \in Buffer
    PROVE  /\ Freed(r).blk = (IF r.error THEN None ELSE r.blk)
           /\ ~Freed(r).busy /\ ~Freed(r).async
           /\ Freed(r).blk # None =>
                 /\ Freed(r).len = r.len /\ Freed(r).done = r.done
                 /\ Freed(r).error = r.error /\ Freed(r).delwri = r.delwri
                 /\ Freed(r).io = r.io /\ Freed(r).cur = r.cur
           /\ Freed(r).blk = None =>
                 /\ ~Freed(r).len /\ ~Freed(r).done /\ ~Freed(r).delwri
                 /\ Freed(r).io = "none"
<1>1. CASE r.error \/ r.blk = None
  BY <1>1 DEF Buffer, Freed, Empty
<1>2. CASE ~r.error /\ r.blk # None
  BY <1>2 DEF Buffer, Freed
<1> QED
  BY <1>1, <1>2

LEMMA OneLike ==
    ASSUME IInv, NEW b \in Buf, NEW r, buf' = [buf EXCEPT ![b] = r]
    PROVE  buf'[b] = r /\ \A x \in Buf \ {b} : Like(x) /\ Gentle(x) /\ buf'[x] = buf[x]
  BY TypeFacts, SameLike

(* b was free or is p's. *)
LEMMA ChangeWell ==
    ASSUME IInv, Wakes, AllSound, NEW p \in Proc, NEW b \in Buf, NEW q,
           \A x \in Buf \ {b} : Like(x), Gentle(b), b \in Has(p) \/ ~buf[b].busy,
           proc' = [proc EXCEPT ![p] = q], disk' = disk, wantfree' = wantfree,
           Sound(b)', Dirty(b) => Dirty(b)' /\ buf'[b].blk = buf[b].blk,
           Has(p) \ {b} \subseteq Has(p)',
           buf'[b].busy => (buf'[b].async /\ buf'[b].io # "none") \/ b \in Has(p)',
           Dozes(p)', Expects(p)', Fills(p)'
    PROVE  Wakes' /\ AllSound'
<1>1. \A x \in Proc \ {p} : proc'[x] = proc[x] /\ SameBut(x)
  BY TypeFacts DEF SameBut
<1>2. \A x \in Buf : Gentle(x)
  BY LikeGentle
<1> QED
  BY <1>1, <1>2, OthersWake, StepSound

(* b was free or is p's, and is given back. *)
LEMMA GiveWell ==
    ASSUME IInv, Wakes, AllSound, NEW p \in Proc, NEW b \in Buf, NEW q,
           \A x \in Buf \ {b} : Like(x), b \in Has(p) \/ ~buf[b].busy,
           proc' = [x \in Proc |-> IF x = p THEN q ELSE Woken(proc[x], b)], disk' = disk,
           Sound(b)', Dirty(b) => Dirty(b)' /\ buf'[b].blk = buf[b].blk,
           Has(p) \ {b} \subseteq Has(p)', ~buf'[b].busy,
           Dozes(p)', Expects(p)', Fills(p)'
    PROVE  Wakes' /\ AllSound'
<1>1. \A x \in Proc \ {p} : proc'[x] = Woken(proc[x], b) /\ b \notin Has(x)
  BY HasBusy DEF IInv, HeldOnce
<1>2. \A x \in Proc \ {p} : SameBut(x)
  BY <1>1, TypeFacts, WokenRec DEF SameBut
<1>3. Wakes'
  BY <1>1, LikeGentle, WokenWakes DEF Wakes
<1> QED
  BY <1>2, <1>3, StepSound

(* The first of breada's buffers, while it gets the other. *)
LEMMA FirstGoes ==
    ASSUME IInv, Wakes, NEW p \in Proc, NEW b \in Buf, \A x \in Buf \ {b} : Gentle(x),
           proc[p].first # b \/ Gentle(b), proc'[p].first \in {proc[p].first, None},
           proc'[p].at \notin {"read", "ahead"}
    PROVE  Expects(p)'
<1>1. proc[p].first # None => proc[p].first \in Has(p)
  BY DEF Has
<1>2. proc[p].first # None => proc[p].first \in Buf /\ buf[proc[p].first].busy
  BY <1>1, HasBusy
<1> QED
  BY <1>1, <1>2 DEF Wakes, Expects, Gentle, Going

LEMMA GetblkHitWell ==
    ASSUME IInv, Wakes, AllSound, NEW p \in Proc, GetblkHit(p)
    PROVE  Wakes' /\ AllSound'
<1>1. PICK b \in Buf : /\ Maps(b, Target(p)) /\ ~buf[b].busy
                       /\ buf' = [buf EXCEPT ![b].busy = TRUE]
                       /\ Goes(p, [proc[p] EXCEPT !.bp = b, !.at = "got"])
  BY DEF GetblkHit
<1> DEFINE r == [buf[b] EXCEPT !.busy = TRUE]
           q == [proc[p] EXCEPT !.bp = b, !.at = "got"]
<1>2. /\ r.busy /\ r.async = buf[b].async /\ r.blk = buf[b].blk /\ r.io = buf[b].io
      /\ r.done = buf[b].done /\ r.len = buf[b].len /\ r.error = buf[b].error
      /\ r.delwri = buf[b].delwri /\ r.cur = buf[b].cur
  BY TypeFacts DEF Buffer
<1>3. /\ q.at = "got" /\ q.op = proc[p].op /\ q.ra = proc[p].ra /\ q.chan = proc[p].chan
      /\ q.bp = b /\ q.first = proc[p].first /\ q.ep = proc[p].ep
  BY TypeFacts DEF Process
<1>4. /\ buf' = [buf EXCEPT ![b] = r] /\ proc' = [proc EXCEPT ![p] = q]
      /\ disk' = disk /\ wantfree' = wantfree
      /\ proc[p].at = "getblk" /\ proc[p].chan = None
  BY <1>1 DEF GetblkHit, Goes, Runs
<1> HIDE DEF r, q
<1>5. /\ buf'[b] = r /\ proc'[p] = q
      /\ \A x \in Buf \ {b} : Like(x) /\ Gentle(x)
  BY <1>4, TypeFacts, OneLike
<1>6. Gentle(b)
  BY <1>1 DEF Gentle
<1>7. Sound(b) /\ Fills(p) /\ Mine(p)
  BY NamesAt DEF AllSound, Sounds
<1>8. buf[b].blk # None
  <2>1. proc[p].op \notin {"none", "geteblk"}
    BY <1>4, <1>7 DEF Fills, Mine
  <2>2. Target(p) \in Block
    BY <1>7, <2>1 DEF Mine, Target
  <2> QED
    BY <1>1, <2>2, ConstantAssumption DEF Maps
<1>9. Sound(b)' /\ (Dirty(b) => Dirty(b)')
  BY <1>1, <1>2, <1>4, <1>5, <1>7, <1>8 DEF Sound, Dirty, Mapped
<1>10. Has(p)' \subseteq Has(p) \cup {b} /\ Has(p) \subseteq Has(p)' /\ b \in Has(p)'
  BY <1>3, <1>4, <1>5, <1>7, ConstantAssumption DEF Has, Fills
<1>11. Dozes(p)'
  BY <1>3, <1>4, <1>5, Awake
<1>12. Expects(p)'
  BY <1>3, <1>5, <1>6, FirstGoes
<1>13. Fills(p)'
  <2>1. b \notin Has(p) /\ \A x \in Has(p) : x \in Buf /\ buf[x].len
    BY <1>1, <1>4, <1>7, HasBusy DEF Fills
  <2>2. \A x \in Has(p)' : buf'[x].len
    BY <1>1, <1>2, <1>5, <1>7, <1>8, <1>10, <2>1 DEF Sound, Like
  <2>3. ~buf'[b].error
    BY <1>1, <1>2, <1>5, <1>7, <1>8 DEF Sound
  <2> QED
    BY <1>3, <1>4, <1>5, <1>7, <2>2, <2>3 DEF Fills
<1> QED
  BY <1>1, <1>2, <1>4, <1>5, <1>6, <1>9, <1>10, <1>11, <1>12, <1>13, ChangeWell

(* Nothing of a free buffer that does not wait to be written is needed. *)
LEMMA TakableClean ==
    ASSUME IInv, NEW b \in Buf, Takable(b) PROVE ~buf[b].busy /\ ~Dirty(b) /\ Gentle(b)
  BY TypeFacts DEF Takable, Dirty, Gentle

LEMMA NewbufTakeWell ==
    ASSUME IInv, Wakes, AllSound, NEW p \in Proc, NewbufTake(p)
    PROVE  Wakes' /\ AllSound'
<1> DEFINE e == [Empty EXCEPT !.busy = TRUE, !.len = TRUE]
           k == [Empty EXCEPT !.busy = TRUE, !.blk = Target(p)]
<1>1. PICK b \in Buf :
        /\ Takable(b)
        /\ IF proc[p].op = "geteblk"
           THEN /\ buf' = [buf EXCEPT ![b] = e]
                /\ proc' = [proc EXCEPT ![p].bp = b, ![p].at = "hold"]
                /\ cpu' = None
           ELSE /\ buf' = [buf EXCEPT ![b] = k]
                /\ Goes(p, [proc[p] EXCEPT !.bp = b, !.at = "realloc"])
  BY DEF NewbufTake
<1> DEFINE r  == IF proc[p].op = "geteblk" THEN e ELSE k
           at == IF proc[p].op = "geteblk" THEN "hold" ELSE "realloc"
           q  == [proc[p] EXCEPT !.bp = b, !.at = at]
<1>2. /\ proc[p].at = "newbuf" /\ proc[p].chan = None
      /\ buf' = [buf EXCEPT ![b] = r] /\ proc' = [proc EXCEPT ![p] = q]
      /\ disk' = disk /\ wantfree' = wantfree
  BY <1>1, TypeFacts DEF NewbufTake, Goes, Runs
<1>3. /\ q.at = at /\ q.op = proc[p].op /\ q.ra = proc[p].ra /\ q.chan = proc[p].chan
      /\ q.bp = b /\ q.first = proc[p].first /\ q.ep = proc[p].ep
  BY TypeFacts DEF Process
<1>4. /\ r.busy /\ ~r.done /\ ~r.error /\ ~r.delwri /\ ~r.async /\ r.io = "none"
      /\ at = "hold" => r.blk = None /\ r.len
      /\ at = "realloc" => ~r.len
      /\ at = "hold" <=> proc[p].op = "geteblk"
      /\ at \in {"hold", "realloc"}
  BY DEF Empty
<1> HIDE DEF r, q, at, e, k
<1>5. /\ buf'[b] = r /\ proc'[p] = q
      /\ \A x \in Buf \ {b} : Like(x) /\ Gentle(x)
  BY <1>2, TypeFacts, OneLike
<1>6. ~buf[b].busy /\ ~Dirty(b) /\ Gentle(b) /\ Fills(p) /\ Mine(p)
  BY <1>1, TakableClean, NamesAt
<1>7. Sound(b)'
  BY <1>4, <1>5 DEF Sound, Dirty, Mapped
<1>8. Has(p)' \subseteq Has(p) \cup {b} /\ Has(p) \subseteq Has(p)' /\ b \in Has(p)'
  BY <1>2, <1>3, <1>5, <1>6, ConstantAssumption DEF Has, Fills
<1>9. Dozes(p)'
  BY <1>2, <1>3, <1>5, Awake
<1>10. Expects(p)'
  BY <1>3, <1>4, <1>5, <1>6, FirstGoes
<1>11. Fills(p)'
  <2>1. b \notin Has(p) /\ \A x \in Has(p) : x \in Buf /\ buf[x].len
    BY <1>2, <1>6, HasBusy DEF Fills
  <2>2. \A x \in Has(p)' \ {b} : buf'[x].len
    BY <1>5, <1>8, <2>1 DEF Like
  <2>3. proc[p].op = "geteblk" => proc[p].op # "breada" /\ ~proc[p].ra
    BY <1>6 DEF Mine
  <2>4. proc[p].op = "geteblk" => proc[p].first = None
    BY <1>2, <1>6, <2>3 DEF Fills
  <2> QED
    BY <1>2, <1>3, <1>4, <1>5, <1>6, <2>2, <2>3, <2>4 DEF Fills
<1> QED
  BY <1>2, <1>4, <1>5, <1>6, <1>7, <1>8, <1>9, <1>10, <1>11, ChangeWell
(* What waited to be written is on its way. *)
LEMMA WritingSound ==
    ASSUME NEW b \in Buf, Sound(b), buf[b].delwri, disk' = disk,
           buf'[b].blk = buf[b].blk, buf'[b].len = buf[b].len, buf'[b].busy, ~buf'[b].done,
           ~buf'[b].delwri, buf'[b].io = "write", buf'[b].cur = buf[b].cur
    PROVE  Sound(b)' /\ Dirty(b)' /\ buf'[b].len
  BY DEF Sound, Dirty, Mapped

LEMMA NewbufWriteWell ==
    ASSUME IInv, Wakes, AllSound, NEW p \in Proc, NewbufWrite(p)
    PROVE  Wakes' /\ AllSound'
<1>1. PICK b \in Buf : /\ ~buf[b].busy /\ buf[b].delwri
                       /\ buf' = [buf EXCEPT ![b] = Async(Writing(@))]
  BY DEF NewbufWrite
<1> DEFINE r == Async(Writing(buf[b]))
           q == proc[p]
<1>2. /\ r.blk = buf[b].blk /\ r.len = buf[b].len /\ r.busy /\ ~r.done /\ ~r.delwri
      /\ r.async /\ r.io = "write" /\ r.cur = buf[b].cur
  BY TypeFacts, WritingRec, WritingAll, AsyncAll
<1>3. /\ buf' = [buf EXCEPT ![b] = r] /\ proc' = [proc EXCEPT ![p] = q]
      /\ disk' = disk /\ wantfree' = wantfree
      /\ proc[p].at = "newbuf" /\ proc[p].chan = None
  BY <1>1 DEF NewbufWrite, Goes, Runs
<1> HIDE DEF r
<1>4. /\ buf'[b] = r /\ proc'[p] = proc[p]
      /\ \A x \in Buf \ {b} : Like(x) /\ Gentle(x)
  BY <1>3, TypeFacts, OneLike
<1>5. Sound(b)' /\ Dirty(b)' /\ Gentle(b)
  BY <1>1, <1>2, <1>3, <1>4, WritingSound DEF AllSound, Sounds, Gentle
<1>6. SameBut(p) /\ Has(p)' = Has(p) /\ b \notin Has(p)
  BY <1>1, <1>4, HasBusy DEF SameBut, Has
<1>7. Dozes(p)'
  BY <1>3, <1>4, Awake
<1>8. Expects(p)'
  BY <1>3, <1>4, <1>5, FirstGoes
<1>9. Fills(p)'
  BY <1>4, <1>6, HasBusy, NamesAt, FillsKept DEF Like
<1> QED
  BY <1>1, <1>2, <1>3, <1>4, <1>5, <1>6, <1>7, <1>8, <1>9, ChangeWell

(* A process writes another buffer and sleeps until that is done. *)
LEMMA StartWell ==
    ASSUME IInv, Wakes, AllSound, NEW p \in Proc, NEW b \in Buf, ~buf[b].busy,
           buf[b].delwri, buf' = [buf EXCEPT ![b] = Writing(@)],
           NEW at \in {"drop", "flushing"},
           proc' = [proc EXCEPT ![p].at = at, ![p].ep = b, ![p].chan = b],
           proc[p].at = IF at = "drop" THEN "realloc" ELSE "flush",
           UNCHANGED <<wantfree, disk>>
    PROVE  Wakes' /\ AllSound'
<1> DEFINE r == Writing(buf[b])
           q == [proc[p] EXCEPT !.at = at, !.ep = b, !.chan = b]
<1>2. /\ r.blk = buf[b].blk /\ r.len = buf[b].len /\ r.busy /\ ~r.done /\ ~r.delwri
      /\ r.io = "write" /\ r.cur = buf[b].cur
  BY TypeFacts, WritingAll
<1>3. /\ q.at = at /\ q.op = proc[p].op /\ q.ra = proc[p].ra /\ q.chan = b
      /\ q.bp = proc[p].bp /\ q.first = proc[p].first /\ q.ep = b
  BY TypeFacts DEF Process
<1>4. buf' = [buf EXCEPT ![b] = r] /\ proc' = [proc EXCEPT ![p] = q]
  OBVIOUS
<1> HIDE DEF r, q
<1>5. /\ buf'[b] = r /\ proc'[p] = q
      /\ \A x \in Buf \ {b} : Like(x) /\ Gentle(x)
  BY <1>4, TypeFacts, OneLike
<1>6. Sound(b)' /\ Dirty(b)' /\ Gentle(b) /\ buf'[b].len
  BY <1>2, <1>5, WritingSound DEF AllSound, Sounds, Gentle
<1>7. Has(p)' = Has(p) \cup {b} /\ b \notin Has(p) /\ b # None
  BY <1>3, <1>5, HasBusy, NamesAt, ConstantAssumption DEF Has
<1>8. Dozes(p)'
  BY <1>2, <1>3, <1>5, <1>7, ConstantAssumption DEF Dozes
<1>9. Expects(p)'
  BY <1>3, <1>5, <1>6, FirstGoes
<1>10. Fills(p)'
  <2>1. \A x \in Has(p) : Like(x)
    BY <1>5, <1>7, HasBusy
  <2>2. \A x \in Has(p)' : (at = "drop" /\ x = proc[p].bp) \/ buf'[x].len
    BY <1>6, <1>7, <2>1, NamesAt DEF Fills, Like
  <2>3. at = "drop" => ~buf'[proc[p].bp].len /\ ~buf'[proc[p].bp].error
    BY <2>1, NamesAt DEF Fills, Like
  <2>4. /\ proc'[p].at = at /\ proc'[p].op = proc[p].op /\ proc'[p].bp = proc[p].bp
        /\ proc'[p].first = proc[p].first /\ proc'[p].ra = proc[p].ra
    BY <1>3, <1>5
  <2>5. /\ proc[p].op # "geteblk"
        /\ proc[p].first # None => proc[p].ra
        /\ proc[p].ra => at = "drop"
        /\ at = "flushing" => proc[p].bp = None
    BY NamesAt DEF Fills
  <2> QED
    BY <2>2, <2>3, <2>4, <2>5 DEF Fills
<1> QED
  BY <1>2, <1>4, <1>5, <1>6, <1>7, <1>8, <1>9, <1>10, ChangeWell

LEMMA StartsWell ==
    ASSUME IInv, Wakes, AllSound, NEW p \in Proc, ReallocWrite(p) \/ FlushWrite(p)
    PROVE  Wakes' /\ AllSound'
<1>1. CASE ReallocWrite(p)
  BY <1>1, StartWell DEF ReallocWrite, Runs
<1>2. CASE FlushWrite(p)
  BY <1>2, StartWell DEF FlushWrite, Runs
<1> QED
  BY <1>1, <1>2
-----------------------------------------------------------------------------
(* The steps that give a buffer back. *)

LEMMA FreedSound ==
    ASSUME NEW b \in Buf, Sound(b), buf[b] \in Buffer, buf[b].io = "none", buf[b].len,
           disk' = disk, buf'[b] = Freed(buf[b])
    PROVE  /\ Sound(b)' /\ ~buf'[b].busy
           /\ Dirty(b) => Dirty(b)' /\ buf'[b].blk = buf[b].blk
  BY FreedAll DEF Sound, Dirty, Mapped

(* p gives back, as it is, a buffer that it has. *)
LEMMA BackWell ==
    ASSUME IInv, Wakes, AllSound, NEW p \in Proc, NEW b \in Has(p), NEW q,
           Brelse(p, b, buf[b], q), disk' = disk, buf[b].io = "none", buf[b].len,
           Has(p) \ {b} \subseteq Has(p)', q.chan = None, Expects(p)', Fills(p)'
    PROVE  Wakes' /\ AllSound'
<1>1. b \in Buf
  BY HasBusy
<1>2. /\ buf' = [buf EXCEPT ![b] = Freed(buf[b])]
      /\ proc' = [x \in Proc |-> IF x = p THEN q ELSE Woken(proc[x], b)]
  BY DEF Brelse
<1>3. buf'[b] = Freed(buf[b]) /\ \A x \in Buf \ {b} : Like(x)
  BY <1>1, <1>2, OneLike
<1>4. /\ Sound(b)' /\ ~buf'[b].busy
      /\ Dirty(b) => Dirty(b)' /\ buf'[b].blk = buf[b].blk
  BY <1>1, <1>2, <1>3, TypeFacts, FreedSound DEF AllSound, Sounds
<1>5. Dozes(p)'
  BY <1>2, Awake
<1> QED
  BY <1>1, <1>2, <1>3, <1>4, <1>5, GiveWell

LEMMA IdleWell ==
    ASSUME IInv, Wakes, AllSound, NEW p \in Proc,
           \/ Release(p) \/ WriteDone(p)
           \/ Emptied(p) /\ ~buf[proc[p].bp].delwri
    PROVE  Wakes' /\ AllSound'
<1> DEFINE b == proc[p].bp
<1>1. proc[p].at \in {"hold", "write"} /\ disk' = disk
  BY DEF Release, Emptied, WriteDone, Runs
<1>2. b \in Has(p) /\ Has(p) \ {b} = {} /\ buf[b].len
  BY <1>1, NamesAt DEF Has, Fills
<1>6. Brelse(p, b, buf[b], Idle)
  <2>1. CASE Emptied(p) /\ ~buf[b].delwri
    <3>1. buf[b] \in Buffer
      BY <1>2, HasBusy, TypeFacts
    <3>2. [buf[b] EXCEPT !.delwri = FALSE] = buf[b]
      BY <2>1, <3>1 DEF Buffer
    <3> QED
      BY <2>1, <3>2 DEF Emptied
  <2> QED
    BY <2>1 DEF Release, WriteDone
<1>3. buf[b].io = "none"
  <2>1. CASE Release(p) \/ Emptied(p)
    BY <2>1, NamesAt DEF Release, Emptied, Runs, Mine
  <2>2. CASE WriteDone(p)
    BY <2>2, <1>2, HasBusy DEF WriteDone, IInv, AtDriver
  <2> QED
    BY <2>1, <2>2
<1>4. proc'[p] = Idle
  BY <1>6 DEF Brelse
<1>5. Idle.chan = None /\ Expects(p)' /\ Fills(p)'
  BY <1>4 DEF Idle, Has, Expects, Fills
<1> QED
  BY <1>1, <1>2, <1>3, <1>5, <1>6, BackWell

(* What becomes of the sectors of one block is nothing to the others. *)
LEMMA ElsewhereSound ==
    ASSUME IInv, NEW b \in Buf, Mapped(b), NEW x \in Buf \ {b}, Sound(x), Like(x),
           \A t \in Sector : t \notin Covers[buf[b].blk] => disk'[t] = disk[t]
    PROVE  Sound(x)' /\ (Dirty(x)' <=> Dirty(x))
<1>1. Mapped(x) => \A t \in Covers[buf[x].blk] : disk'[t] = disk[t]
  <2> SUFFICES ASSUME Mapped(x), NEW t \in Covers[buf[x].blk] PROVE disk'[t] = disk[t]
    OBVIOUS
  <2>1. Covers[buf[x].blk] \cap Covers[buf[b].blk] = {}
    BY DEF IInv, MappedOnce, Mapped
  <2>2. t \in Sector
    BY TypeFacts, ConstantAssumption DEF Mapped, Buffer
  <2> QED
    BY <2>1, <2>2
<1>2. buf[x].blk # None /\ buf[x].done => Mapped(x)
  BY DEF Sound, Mapped
<1> QED
  BY <1>1, <1>2 DEF Sound, Like, Dirty, Mapped

(* The block of a FIFO that waited to be written is given up: it is still valid. *)
LEMMA EmptiedWell ==
    ASSUME IInv, Wakes, AllSound, NEW p \in Proc, Emptied(p) PROVE Wakes' /\ AllSound'
<1>0. PICK b : b = proc[p].bp
  OBVIOUS
<1> DEFINE r == [buf[b] EXCEPT !.delwri = FALSE]
<1>1. CASE ~buf[b].delwri
  BY <1>0, <1>1, IdleWell
<1>2. CASE buf[b].delwri
  <2>1. /\ proc[p].at = "hold" /\ proc[p].op = "bread" /\ ~buf[b].error
        /\ Brelse(p, b, r, Idle) /\ disk' = Become(buf[b].cur, "lost")
    BY <1>0, <1>2 DEF Emptied, Runs
  <2>2. b \in Has(p) /\ Has(p) \ {b} = {} /\ buf[b].io = "none"
    BY <1>0, <2>1, NamesAt DEF Has, Mine
  <2>3. b \in Buf /\ buf[b] \in Buffer /\ Sound(b)
    BY <2>2, HasBusy, TypeFacts DEF AllSound, Sounds
  <2>4. Mapped(b) /\ buf[b].cur = Covers[buf[b].blk] /\ buf[b].done
    BY <1>2, <2>3 DEF Sound, Dirty
  <2>5. /\ r \in Buffer /\ r.blk = buf[b].blk /\ r.len = buf[b].len /\ ~r.delwri
        /\ r.done = buf[b].done /\ r.error = buf[b].error /\ r.io = buf[b].io
        /\ r.cur = buf[b].cur
    BY <2>3 DEF Buffer
  <2>6. /\ buf' = [buf EXCEPT ![b] = Freed(r)]
        /\ proc' = [x \in Proc |-> IF x = p THEN Idle ELSE Woken(proc[x], b)]
    BY <2>1 DEF Brelse
  <2> HIDE DEF r
  <2>7. /\ buf'[b] = Freed(r)
        /\ \A x \in Buf \ {b} : Like(x) /\ Gentle(x) /\ buf'[x] = buf[x]
    BY <2>3, <2>6, OneLike
  <2>8. /\ buf'[b].blk = buf[b].blk /\ buf'[b].len /\ ~buf'[b].busy /\ ~buf'[b].delwri
        /\ buf'[b].done /\ ~buf'[b].error /\ buf'[b].io = "none"
        /\ buf'[b].cur = Covers[buf[b].blk]
    <3>1. r.blk # None /\ ~r.error
      BY <2>1, <2>4, <2>5 DEF Mapped
    <3>2. Freed(r).blk = r.blk /\ Freed(r).blk # None /\ ~Freed(r).busy
      BY <2>5, <3>1, FreedAll
    <3>3. /\ Freed(r).len = r.len /\ Freed(r).delwri = r.delwri /\ Freed(r).done = r.done
          /\ Freed(r).error = r.error /\ Freed(r).io = r.io /\ Freed(r).cur = r.cur
      BY <2>5, <3>2, FreedAll
    <3> QED
      BY <2>1, <2>2, <2>4, <2>5, <2>7, <3>2, <3>3 DEF Mapped
  <2>9. Sound(b)'
    BY <2>4, <2>8 DEF Sound, Dirty, Mapped
  <2>10. \A t \in Sector : disk'[t] = IF t \in Covers[buf[b].blk] THEN "lost" ELSE disk[t]
    BY <2>1, <2>4 DEF Become
  <2>11. \A x \in Buf \ {b} : Sound(x)' /\ (Dirty(x)' <=> Dirty(x))
    BY <2>3, <2>4, <2>7, <2>10, ElsewhereSound DEF AllSound, Sounds
  <2>12. Owed'
    <3> SUFFICES ASSUME NEW t \in Sector, disk'[t] = "old"
                 PROVE  \E x \in Buf : Dirty(x)' /\ t \in Covers[buf'[x].blk]
      BY DEF Owed
    <3>1. t \notin Covers[buf[b].blk] /\ disk[t] = "old"
      BY <2>10
    <3>2. PICK x \in Buf : Dirty(x) /\ t \in Covers[buf[x].blk]
      BY <3>1 DEF AllSound, Owed
    <3>3. x # b /\ buf'[x] = buf[x]
      BY <2>7, <3>1, <3>2
    <3> QED
      BY <2>11, <3>2, <3>3
  <2>13. proc'[p] = Idle /\ \A x \in Proc \ {p} : proc'[x] = Woken(proc[x], b)
    BY <2>6
  <2>14. \A x \in Proc \ {p} : SameBut(x)
    BY <2>3, <2>13, TypeFacts, WokenRec DEF SameBut
  <2>15. Dozes(p)' /\ Expects(p)' /\ Fills(p)'
    BY <2>13, Awake DEF Idle, Has, Expects, Fills
  <2>16. \A q \in Proc \ {p} : b \notin Has(q)
    BY <2>2 DEF IInv, HeldOnce
  <2>17. Wakes'
    BY <2>3, <2>7, <2>13, <2>15, <2>16, WokenWakes DEF Wakes
  <2>18. NoneLost'
    <3>1. \A x \in Buf \ {b} : x \notin Has(p)
      BY <2>2
    <3> QED
      BY <2>7, <2>8, <2>14, <3>1, FoundKept DEF NoneLost, Like
  <2>19. ASSUME NEW q \in Proc \ {p} PROVE Fills(q)'
    <3>1. \A x \in Has(q) : x \in Buf \ {b}
      BY <2>16, HasBusy
    <3> QED
      BY <2>7, <2>14, <3>1, FillsKept DEF Like, AllSound, IInv
  <2> QED
    BY <2>9, <2>11, <2>12, <2>15, <2>17, <2>18, <2>19 DEF AllSound, Sounds
<1> QED
  BY <1>1, <1>2

(* The other buffer has been written. *)
LEMMA DroppedWell ==
    ASSUME IInv, Wakes, AllSound, NEW p \in Proc, Dropped(p) \/ Flushed(p)
    PROVE  Wakes' /\ AllSound'
<1> DEFINE b  == proc[p].ep
           at == IF proc[p].at = "drop" THEN "realloc" ELSE "flush"
           q  == [proc[p] EXCEPT !.at = at, !.ep = None]
<1>1. /\ proc[p].at \in {"drop", "flushing"} /\ proc[p].chan = None /\ buf[b].done
      /\ Brelse(p, b, buf[b], q) /\ disk' = disk
  BY DEF Dropped, Flushed, Runs
<1>2. /\ q.at = at /\ q.op = proc[p].op /\ q.ra = proc[p].ra /\ q.chan = None
      /\ q.bp = proc[p].bp /\ q.first = proc[p].first /\ q.ep = None
  BY <1>1, TypeFacts DEF Process
<1> HIDE DEF q
<1>3. b \in Has(p) /\ b \in Buf /\ b # proc[p].bp /\ b # proc[p].first
  BY <1>1, NamesAt, ConstantAssumption DEF Has, Mine
<1>4. buf[b].io = "none" /\ buf[b].len
  BY <1>1, <1>3 DEF IInv, AtDriver, AllSound, Sounds, Sound
<1>5. /\ proc'[p] = q /\ buf' = [buf EXCEPT ![b] = Freed(buf[b])]
  BY <1>1 DEF Brelse
<1>6. \A x \in Buf \ {b} : Like(x) /\ Gentle(x)
  BY <1>3, <1>5, OneLike
<1>7. Has(p)' = Has(p) \ {b}
  BY <1>2, <1>3, <1>5 DEF Has
<1>8. Expects(p)'
  BY <1>2, <1>3, <1>5, <1>6, FirstGoes
<1>9. Fills(p)'
  <2>1. \A x \in Has(p)' : x \in Has(p) /\ Like(x)
    BY <1>6, <1>7, HasBusy
  <2>2. proc[p].at = "drop" => Like(proc[p].bp)
    BY <1>3, <1>6, NamesAt
  <2>3. /\ \A x \in Has(p) : (proc[p].at = "drop" /\ x = proc[p].bp) \/ buf[x].len
        /\ proc[p].at = "drop" => ~buf[proc[p].bp].len /\ ~buf[proc[p].bp].error
        /\ proc[p].op # "geteblk"
        /\ proc[p].first # None => proc[p].ra
        /\ proc[p].ra => proc[p].at = "drop"
        /\ proc[p].at = "flushing" => proc[p].bp = None
    BY <1>1, NamesAt DEF Fills
  <2>4. /\ \A x \in Has(p)' : (at = "realloc" /\ x = proc[p].bp) \/ buf'[x].len
        /\ at = "realloc" => ~buf'[proc[p].bp].len /\ ~buf'[proc[p].bp].error
    BY <1>1, <2>1, <2>2, <2>3 DEF Like
  <2>5. /\ proc'[p].at = at /\ proc'[p].op = proc[p].op /\ proc'[p].bp = proc[p].bp
        /\ proc'[p].first = proc[p].first /\ proc'[p].ra = proc[p].ra
    BY <1>2, <1>5
  <2> QED
    BY <1>1, <2>3, <2>4, <2>5 DEF Fills
<1> QED
  BY <1>1, <1>2, <1>3, <1>4, <1>7, <1>8, <1>9, BackWell

(* A block that overlaps the new one, and is on the disk, is forgotten. *)
LEMMA ReallocInvalWell ==
    ASSUME IInv, Wakes, AllSound, NEW p \in Proc, ReallocInval(p)
    PROVE  Wakes' /\ AllSound'
<1>1. PICK b \in Buf : /\ ~buf[b].busy /\ ~buf[b].delwri
                       /\ Brelse(p, b, [buf[b] EXCEPT !.blk = None], proc[p])
                       /\ disk' = disk
  BY DEF ReallocInval
<1> DEFINE s == [buf[b] EXCEPT !.blk = None]
           r == Freed(s)
<1>2. s \in Buffer /\ s.len = buf[b].len /\ s.done = buf[b].done
      /\ s.delwri = buf[b].delwri /\ s.io = buf[b].io /\ s.blk = None
  BY TypeFacts DEF Buffer
<1>3. r.blk = None /\ ~r.len /\ ~r.busy /\ ~r.done /\ ~r.delwri /\ r.io = "none"
  <2> HIDE DEF s
  <2> QED
    BY <1>2, FreedAll
<1>4. /\ buf' = [buf EXCEPT ![b] = r] /\ disk' = disk
      /\ proc' = [x \in Proc |-> IF x = p THEN proc[p] ELSE Woken(proc[x], b)]
      /\ proc[p].at = "realloc" /\ proc[p].chan = None
  BY <1>1 DEF ReallocInval, Brelse, Runs
<1> HIDE DEF s, r
<1>5. /\ buf'[b] = r /\ proc'[p] = proc[p]
      /\ \A x \in Buf \ {b} : Like(x) /\ Gentle(x)
  BY <1>4, OneLike
<1>6. ~Dirty(b) /\ Gentle(b) /\ Sound(b)
  BY <1>1, TypeFacts DEF Dirty, Gentle, AllSound, Sounds
<1>7. Sound(b)'
  BY <1>1, <1>3, <1>5, <1>6, TypeFacts DEF Sound, Dirty, Mapped
<1>8. SameBut(p) /\ Has(p)' = Has(p) /\ b \notin Has(p)
  BY <1>1, <1>5, HasBusy DEF SameBut, Has
<1>9. Dozes(p)' /\ Expects(p)'
  BY <1>4, <1>5, <1>6, Awake, FirstGoes
<1>10. Fills(p)'
  BY <1>5, <1>8, HasBusy, NamesAt, FillsKept DEF Like
<1> QED
  BY <1>1, <1>3, <1>4, <1>5, <1>6, <1>7, <1>8, <1>9, <1>10, GiveWell
-----------------------------------------------------------------------------
(* A buffer gets its block. *)

(* What overlaps the block is on the disk: no buffer has anything newer. *)
LEMMA ReallocDoneWell ==
    ASSUME IInv, Wakes, AllSound, NEW p \in Proc, ReallocDone(p)
    PROVE  Wakes' /\ AllSound'
<1>0. PICK b : b = proc[p].bp
  OBVIOUS
<1> DEFINE r == [buf[b] EXCEPT !.len = TRUE]
           q == [proc[p] EXCEPT !.at = "got"]
<1>1. /\ proc[p].at = "realloc" /\ proc[p].chan = None
      /\ \A x \in Buf \ {b} : ~Clash(x, Target(p))
      /\ buf' = [buf EXCEPT ![b] = r] /\ proc' = [proc EXCEPT ![p] = q]
      /\ disk' = disk /\ wantfree' = wantfree
  BY <1>0 DEF ReallocDone, Goes, Runs
<1>2. /\ b \in Buf /\ b \in Has(p) /\ buf[b].io = "none" /\ buf[b].blk = Target(p)
      /\ ~buf[b].len /\ ~buf[b].error /\ buf[b].busy /\ ~buf[b].done
      /\ Sound(b) /\ ~buf[b].delwri
  BY <1>0, <1>1, NamesAt, HasBusy DEF Mine, Fills, AllSound, Sounds, Sound
<1>3. \A s \in Covers[Target(p)] : disk[s] # "old"
  <2> SUFFICES ASSUME NEW s \in Covers[Target(p)], disk[s] = "old" PROVE FALSE
    OBVIOUS
  <2>1. proc[p].op \notin {"none", "geteblk"}
    BY <1>1, NamesAt DEF Mine, Fills
  <2>2. Target(p) \in Block
    BY <2>1, NamesAt DEF Mine, Target
  <2>3. s \in Sector
    BY <2>2, ConstantAssumption
  <2>4. PICK x \in Buf : Dirty(x) /\ s \in Covers[buf[x].blk]
    BY <2>3 DEF AllSound, Owed
  <2>5. Mapped(x)
    BY <2>4 DEF AllSound, Sounds, Sound
  <2>6. x # b
    BY <1>2, <2>5 DEF Mapped
  <2> QED
    BY <1>1, <2>4, <2>5, <2>6 DEF Clash, Overlaps, Mapped
<1>4. /\ r.blk = buf[b].blk /\ r.len /\ r.busy = buf[b].busy /\ r.wanted = buf[b].wanted
      /\ r.done = buf[b].done /\ r.error = buf[b].error /\ r.delwri = buf[b].delwri
      /\ r.async = buf[b].async /\ r.io = buf[b].io /\ r.cur = buf[b].cur
  BY <1>2, TypeFacts DEF Buffer
<1>5. /\ q.at = "got" /\ q.op = proc[p].op /\ q.ra = proc[p].ra /\ q.chan = proc[p].chan
      /\ q.bp = proc[p].bp /\ q.first = proc[p].first /\ q.ep = proc[p].ep
  BY TypeFacts DEF Process
<1> HIDE DEF r, q
<1>6. /\ buf'[b] = r /\ proc'[p] = q
      /\ \A x \in Buf \ {b} : Like(x) /\ Gentle(x)
  BY <1>1, <1>2, TypeFacts, OneLike
<1>7. Gentle(b)
  BY <1>4, <1>6 DEF Gentle, Going
<1>8. Sound(b)' /\ ~Dirty(b)
  BY <1>1, <1>2, <1>3, <1>4, <1>6 DEF Sound, Dirty, Mapped
<1>9. Has(p)' = Has(p)
  BY <1>5, <1>6 DEF Has
<1>10. Dozes(p)' /\ Expects(p)'
  BY <1>1, <1>2, <1>5, <1>6, <1>7, Awake, FirstGoes
<1>11. Fills(p)'
  <2>1. \A x \in Has(p) \ {b} : buf'[x].len
    BY <1>0, <1>1, <1>6, <1>9, NamesAt, HasBusy DEF Fills, Like
  <2>2. \A x \in Has(p)' : buf'[x].len
    BY <1>4, <1>6, <1>9, <2>1
  <2> QED
    BY <1>0, <1>1, <1>2, <1>4, <1>5, <1>6, <2>2, NamesAt DEF Fills
<1> QED
  BY <1>1, <1>2, <1>6, <1>7, <1>8, <1>9, <1>10, <1>11, ChangeWell

(* What is read has its place on the disk, where it is as it was last written. *)
LEMMA ReadingSound ==
    ASSUME NEW b \in Buf, Sound(b), Mapped(b), ~buf[b].done, buf[b].io = "none", disk' = disk,
           buf'[b].blk = buf[b].blk, buf'[b].len = buf[b].len, buf'[b].busy,
           ~buf'[b].done, buf'[b].error = buf[b].error, buf'[b].delwri = buf[b].delwri,
           buf'[b].io = "read", buf'[b].cur = buf[b].cur
    PROVE  Sound(b)' /\ (Dirty(b) => Dirty(b)')
  BY DEF Sound, Dirty, Mapped

(* What is so of the buffer that getblk returns. *)
LEMMA GotFacts ==
    ASSUME IInv, AllSound, NEW p \in Proc, proc[p].at = "got"
    PROVE  LET b == proc[p].bp
           IN  /\ b \in Buf /\ b \in Has(p) /\ b # proc[p].first /\ buf[b] \in Buffer
               /\ buf[b].io = "none" /\ buf[b].busy /\ ~buf[b].async /\ ~buf[b].error
               /\ Sound(b) /\ Mapped(b) /\ proc[p].op # "geteblk"
<1>1. proc[p].bp \in Buf /\ proc[p].bp \in Has(p) /\ proc[p].bp # None
  BY NamesAt, ConstantAssumption
<1>2. /\ proc[p].op # "geteblk" /\ ~buf[proc[p].bp].error /\ buf[proc[p].bp].len
      /\ proc[p].bp # proc[p].first /\ buf[proc[p].bp].io = "none"
  BY <1>1, NamesAt DEF Fills, Mine
<1>3. buf[proc[p].bp].blk # None
  BY <1>1, <1>2, NamesAt, ConstantAssumption DEF Mine
<1> QED
  BY <1>1, <1>2, <1>3, HasBusy, TypeFacts DEF AllSound, Sounds, Mapped
LEMMA GotWell ==
    ASSUME IInv, Wakes, AllSound, NEW p \in Proc, Got(p)
    PROVE  Wakes' /\ AllSound'
<1>0. PICK b : b = proc[p].bp
  OBVIOUS
<1>1. /\ proc[p].at = "got" /\ proc[p].chan = None /\ ~proc[p].ra
      /\ disk' = disk /\ wantfree' = wantfree
  BY DEF Got, Runs
<1>2. /\ b \in Buf /\ b \in Has(p) /\ buf[b] \in Buffer
      /\ buf[b].io = "none" /\ buf[b].busy /\ ~buf[b].error
      /\ Sound(b) /\ Mapped(b) /\ proc[p].op # "geteblk" /\ proc[p].first = None
  BY <1>0, <1>1, GotFacts, NamesAt DEF Fills
<1> DEFINE have == buf[b].done \/ proc[p].op = "getblk"
           r  == IF have THEN buf[b] ELSE Reading(buf[b])
           at == IF proc[p].op = "breada" THEN "ahead" ELSE IF have THEN "hold" ELSE "read"
           c  == IF at = "read" THEN b ELSE None
           q  == [proc[p] EXCEPT !.at = at, !.chan = c]
<1>3. buf' = [buf EXCEPT ![b] = r]
  BY <1>0 DEF Got
<1>4. proc' = [proc EXCEPT ![p] = q]
  <2>1. CASE proc[p].op = "breada"
    <3>1. [proc[p] EXCEPT !.at = "ahead"] = [proc[p] EXCEPT !.at = "ahead", !.chan = None]
      BY <1>1, TypeFacts DEF Process
    <3>2. proc' = [proc EXCEPT ![p] = [proc[p] EXCEPT !.at = "ahead"]]
      BY <2>1 DEF Got, Goes
    <3> QED
      BY <2>1, <3>1, <3>2
  <2>2. CASE proc[p].op # "breada" /\ have
    <3>1. proc' = [proc EXCEPT ![p] = [proc[p] EXCEPT !.at = "hold", !.chan = None]]
      BY <1>0, <2>2 DEF Got
    <3> QED
      BY <2>2, <3>1
  <2>3. CASE proc[p].op # "breada" /\ ~have
    <3>1. proc' = [proc EXCEPT ![p] = [proc[p] EXCEPT !.at = "read", !.chan = b]]
      BY <1>0, <2>3 DEF Got
    <3> QED
      BY <2>3, <3>1
  <2> QED
    BY <2>1, <2>2, <2>3
<1>5. /\ q.at = at /\ q.op = proc[p].op /\ q.ra = proc[p].ra /\ q.chan = c
      /\ q.bp = proc[p].bp /\ q.first = proc[p].first /\ q.ep = proc[p].ep
  BY TypeFacts DEF Process
<1>6. /\ r.blk = buf[b].blk /\ r.len = buf[b].len /\ r.busy = buf[b].busy
      /\ r.wanted = buf[b].wanted /\ r.done = buf[b].done /\ r.error = buf[b].error
      /\ r.delwri = buf[b].delwri /\ r.cur = buf[b].cur
      /\ r = buf[b] \/ (~buf[b].done /\ r.io = "read")
      /\ at \in {"ahead", "hold", "read"}
      /\ at = "read" => proc[p].op # "getblk"
      /\ at = "read" \/ (at = "ahead" /\ ~buf[b].done) => r.io = "read"
      /\ c = IF at = "read" THEN b ELSE None
  BY <1>2, ReadingAll
<1> HIDE DEF q, r, at, c, have
<1>7. /\ buf'[b] = r /\ proc'[p] = q
      /\ \A x \in Buf \ {b} : Like(x) /\ Gentle(x)
  BY <1>2, <1>3, <1>4, TypeFacts, OneLike
<1>8. Gentle(b)
  BY <1>2, <1>6, <1>7 DEF Gentle, Going
<1>9. Sound(b)' /\ (Dirty(b) => Dirty(b)')
  <2>1. CASE r = buf[b]
    BY <1>1, <1>2, <1>7, <2>1, SameLike, LikeSound
  <2>2. CASE ~buf[b].done /\ r.io = "read"
    BY <1>1, <1>2, <1>6, <1>7, <2>2, ReadingSound
  <2> QED
    BY <1>6, <2>1, <2>2
<1>10. Has(p)' = Has(p)
  BY <1>5, <1>7 DEF Has
<1>11. Dozes(p)'
  <2>1. CASE at = "read"
    <3>1. b # None /\ b # Free
      BY <1>2, ConstantAssumption
    <3>2. proc'[p].chan = b /\ proc'[p].at = "read" /\ buf'[b].busy /\ buf'[b].io = "read"
      BY <1>2, <1>5, <1>6, <1>7, <2>1
    <3> QED
      BY <1>2, <1>10, <3>1, <3>2 DEF Dozes
  <2>2. CASE at # "read"
    BY <1>5, <1>6, <1>7, <2>2, Awake
  <2> QED
    BY <2>1, <2>2
<1>12. Expects(p)'
  BY <1>0, <1>2, <1>5, <1>6, <1>7 DEF Expects, Going
<1>13. Fills(p)'
  <2>1. \A x \in Has(p) : buf[x].len
    BY <1>1, NamesAt DEF Fills
  <2>2. \A x \in Has(p)' : buf'[x].len
    BY <1>2, <1>6, <1>7, <1>10, <2>1, HasBusy DEF Like, Mapped
  <2>3. /\ proc'[p].at \in {"ahead", "hold", "read"} /\ proc'[p].op = proc[p].op
        /\ proc'[p].at = "read" => proc[p].op # "getblk"
        /\ proc'[p].first = None /\ ~proc'[p].ra /\ proc'[p].bp = b /\ ~buf'[b].error
    BY <1>0, <1>1, <1>2, <1>5, <1>6, <1>7
  <2> QED
    BY <1>2, <2>2, <2>3 DEF Fills
<1> QED
  BY <1>1, <1>2, <1>4, <1>6, <1>7, <1>8, <1>9, <1>10, <1>11, <1>12, <1>13, ChangeWell

LEMMA GotAheadWell ==
    ASSUME IInv, Wakes, AllSound, NEW p \in Proc, GotAhead(p)
    PROVE  Wakes' /\ AllSound'
<1>0. PICK b : b = proc[p].bp
  OBVIOUS
<1> DEFINE q == [proc[p] EXCEPT !.at = "last", !.ra = FALSE, !.bp = None]
           r == Async(Reading(buf[b]))
<1>1. proc[p].at = "got" /\ proc[p].chan = None
  BY DEF GotAhead, Runs
<1>2. /\ b \in Buf /\ b \in Has(p) /\ b # proc[p].first /\ buf[b] \in Buffer
      /\ buf[b].io = "none" /\ buf[b].busy /\ ~buf[b].error
      /\ Sound(b) /\ Mapped(b) /\ proc[p].op # "geteblk" /\ proc[p].ep = None
  BY <1>0, <1>1, GotFacts, NamesAt
<1>3. /\ q.at = "last" /\ q.op = proc[p].op /\ ~q.ra /\ q.chan = None
      /\ q.bp = None /\ q.first = proc[p].first /\ q.ep = proc[p].ep
  BY <1>1, TypeFacts DEF Process
<1> HIDE DEF q
<1>4. proc'[p] = q
  BY TypeFacts DEF GotAhead, Brelse, Goes, q
<1>5. PICK s : buf' = [buf EXCEPT ![b] = s]
  BY <1>0 DEF GotAhead, Brelse
<1>6. \A x \in Buf \ {b} : Like(x) /\ Gentle(x)
  BY <1>2, <1>5, OneLike
<1>7. Has(p)' = Has(p) \ {b}
  BY <1>0, <1>2, <1>3, <1>4 DEF Has
<1>8. Expects(p)'
  BY <1>2, <1>3, <1>4, <1>6, FirstGoes
<1>9. Fills(p)'
  <2>1. \A x \in Has(p)' : buf'[x].len
    BY <1>1, <1>6, <1>7, NamesAt, HasBusy DEF Fills, Like
  <2> QED
    BY <1>2, <1>3, <1>4, <2>1 DEF Fills
<1>10. CASE buf[b].done
  <2>1. Brelse(p, b, buf[b], q) /\ disk' = disk
    BY <1>0, <1>10 DEF GotAhead, q
  <2> QED
    BY <1>2, <1>3, <1>7, <1>8, <1>9, <2>1, BackWell DEF Mapped
<1>11. CASE ~buf[b].done
  <2>1. /\ buf' = [buf EXCEPT ![b] = r] /\ proc' = [proc EXCEPT ![p] = q]
        /\ disk' = disk /\ wantfree' = wantfree
    <3>1. /\ buf' = [buf EXCEPT ![b] = Async(Reading(@))] /\ Goes(p, q)
          /\ UNCHANGED wantfree /\ disk' = disk
      BY <1>0, <1>11 DEF GotAhead, q
    <3> QED
      BY <3>1 DEF Goes
  <2>2. /\ r.blk = buf[b].blk /\ r.len = buf[b].len /\ r.busy = buf[b].busy
        /\ r.wanted = buf[b].wanted /\ r.done = buf[b].done /\ r.error = buf[b].error
        /\ r.delwri = buf[b].delwri /\ r.cur = buf[b].cur /\ r.io = "read" /\ r.async
    <3> DEFINE w == Reading(buf[b])
    <3>1. /\ w \in Buffer /\ w.blk = buf[b].blk /\ w.len = buf[b].len /\ w.busy = buf[b].busy
          /\ w.wanted = buf[b].wanted /\ w.done = buf[b].done /\ w.error = buf[b].error
          /\ w.delwri = buf[b].delwri /\ w.cur = buf[b].cur /\ w.io = "read"
      BY <1>2, ReadingRec, ReadingAll
    <3> HIDE DEF w
    <3>2. LET a == Async(w)
          IN  /\ a.blk = w.blk /\ a.len = w.len /\ a.busy = w.busy /\ a.wanted = w.wanted
              /\ a.done = w.done /\ a.error = w.error /\ a.delwri = w.delwri
              /\ a.async /\ a.io = w.io /\ a.cur = w.cur
      BY <3>1, AsyncAll
    <3>3. r = Async(w)
      BY DEF w
    <3> QED
      BY <3>1, <3>2, <3>3
  <2> HIDE DEF r
  <2>3. buf'[b] = r
    BY <1>2, <2>1, TypeFacts
  <2>4. Gentle(b)
    BY <2>2, <2>3 DEF Gentle, Going
  <2>5. Sound(b)' /\ (Dirty(b) => Dirty(b)')
    BY <1>2, <1>11, <2>1, <2>2, <2>3, ReadingSound
  <2>6. Dozes(p)'
    BY <1>3, <1>4, Awake
  <2> QED
    BY <1>2, <1>6, <1>7, <1>8, <1>9, <2>1, <2>2, <2>3, <2>4, <2>5, <2>6, ChangeWell
<1> QED
  BY <1>10, <1>11
-----------------------------------------------------------------------------
(* The steps of a process that has written on its buffer. *)

(* But for what is the same as was written last, the buffer is as it was. *)
Outdated(x, S) ==
    /\ buf'[x].blk = buf[x].blk /\ buf'[x].len = buf[x].len
    /\ buf'[x].busy = buf[x].busy /\ buf'[x].wanted = buf[x].wanted
    /\ buf'[x].done = buf[x].done /\ buf'[x].error = buf[x].error
    /\ buf'[x].delwri = buf[x].delwri /\ buf'[x].async = buf[x].async
    /\ buf'[x].io = buf[x].io /\ buf'[x].cur = buf[x].cur \ S

LEMMA WrittenAll ==
    ASSUME IInv, NEW b \in Buf, buf[b].blk \in Block, NEW x \in Buf
    PROVE  LET w == Written(b)[x]
           IN  /\ w \in Buffer
               /\ w.blk = buf[x].blk /\ w.len = buf[x].len
               /\ w.busy = buf[x].busy /\ w.wanted = buf[x].wanted
               /\ w.done = buf[x].done /\ w.error = buf[x].error
               /\ w.delwri = buf[x].delwri /\ w.async = buf[x].async
               /\ w.io = buf[x].io
               /\ w.cur = IF x = b THEN Covers[buf[b].blk] ELSE buf[x].cur \ Covers[buf[b].blk]
<1> DEFINE c == IF x = b THEN Alone(b) ELSE buf[x].cur \ Alone(b)
<1>1. buf[x] \in Buffer /\ Written(b)[x] \in Buffer
  BY TypeFacts, WrittenBuf
<1>2. Written(b)[x] = [buf[x] EXCEPT !.cur = c]
  BY DEF Written
<1>3. c = IF x = b THEN Covers[buf[b].blk] ELSE buf[x].cur \ Covers[buf[b].blk]
  BY DEF Alone
<1> HIDE DEF c
<1> QED
  BY <1>1, <1>2, <1>3 DEF Buffer

(* The others that have a block have other sectors. *)
LEMMA OutdatedSound ==
    ASSUME IInv, NEW b \in Buf, Mapped(b), NEW x \in Buf \ {b}, Sound(x),
           Outdated(x, Covers[buf[b].blk]), disk' = Become(Covers[buf[b].blk], "old")
    PROVE  Sound(x)' /\ (Dirty(x)' <=> Dirty(x)) /\ Gentle(x)
<1>1. Mapped(x) => Covers[buf[x].blk] \cap Covers[buf[b].blk] = {}
  BY DEF IInv, MappedOnce, Mapped
<1>2. Mapped(x) <=> Mapped(x)'
  BY DEF Mapped, Outdated
<1>3. Gentle(x)
  BY DEF Gentle, Going, Outdated
<1>4. Dirty(x)' <=> Dirty(x)
  BY DEF Dirty, Outdated
<1>5. buf[x].blk # None /\ buf[x].done => Mapped(x)
  BY DEF Sound, Mapped
<1>6. Mapped(x) => \A s \in Covers[buf[x].blk] : disk'[s] = disk[s]
  <2> SUFFICES ASSUME Mapped(x), NEW s \in Covers[buf[x].blk] PROVE disk'[s] = disk[s]
    OBVIOUS
  <2>1. s \in Sector /\ s \notin Covers[buf[b].blk]
    BY <1>1, TypeFacts, ConstantAssumption DEF Mapped, Buffer
  <2> QED
    BY <2>1 DEF Become
<1>7. Mapped(x) => buf'[x].cur = buf[x].cur \ Covers[buf[b].blk]
  BY DEF Outdated
<1> QED
  BY <1>1, <1>2, <1>3, <1>4, <1>5, <1>6, <1>7 DEF Sound, Outdated

(* What is so of the buffer that is written. *)
LEMMA WriterFacts ==
    ASSUME IInv, AllSound, NEW p \in Proc, Writes(p)
    PROVE  LET b == proc[p].bp
           IN  /\ b \in Buf /\ b \in Has(p) /\ Has(p) \ {b} = {} /\ proc[p].at = "hold"
               /\ buf[b].blk \in Block /\ Mapped(b) /\ buf[b].io = "none"
               /\ buf[b].busy /\ ~buf[b].async /\ ~buf[b].error
<1>1. ~buf[proc[p].bp].error
  BY NamesAt DEF Writes, Runs, Fills
<1>2. proc[p].at = "hold"
  BY DEF Writes, Runs
<1>3. buf[proc[p].bp].len
  BY <1>2, NamesAt DEF Fills
<1>4. Has(p) \ {proc[p].bp} = {}
  BY <1>2, NamesAt DEF Has
<1> QED
  BY <1>1, <1>3, <1>4, WriterHas, ConstantAssumption DEF Mapped

(* What was written will be written to the disk, and nobody else has it. *)
LEMMA WrittenSound ==
    ASSUME IInv, AllSound, NEW p \in Proc, Writes(p), NEW b, b = proc[p].bp,
           \A x \in Buf \ {b} : Outdated(x, Covers[buf[b].blk]),
           disk' = Become(Covers[buf[b].blk], "old"),
           \A x \in Proc \ {p} : SameBut(x), Fills(p)',
           buf'[b].blk = buf[b].blk, buf'[b].len, ~buf'[b].error,
           buf'[b].cur = Covers[buf[b].blk],
           (buf'[b].delwri /\ buf'[b].done /\ buf'[b].io = "none")
                \/ (buf'[b].io = "write" /\ ~buf'[b].delwri /\ ~buf'[b].done),
           buf'[b].busy => (buf'[b].async /\ buf'[b].io # "none") \/ b \in Has(p)'
    PROVE  AllSound'
<1>1. /\ b \in Buf /\ b \in Has(p) /\ Has(p) \ {b} = {} /\ Mapped(b)
      /\ buf[b].blk \in Block
  BY WriterFacts
<1>2. \A x \in Buf \ {b} : Sound(x)' /\ (Dirty(x)' <=> Dirty(x))
  BY <1>1, OutdatedSound DEF AllSound, Sounds
<1>3. Sound(b)' /\ Dirty(b)'
  BY <1>1 DEF Sound, Dirty, Mapped
<1>4. Owed'
  <2> SUFFICES ASSUME NEW s \in Sector, disk'[s] = "old"
               PROVE  \E x \in Buf : Dirty(x)' /\ s \in Covers[buf'[x].blk]
    BY DEF Owed
  <2>1. CASE s \in Covers[buf[b].blk]
    BY <1>1, <1>3, <2>1
  <2>2. CASE s \notin Covers[buf[b].blk]
    <3>0. disk[s] = "old"
      BY <2>2 DEF Become
    <3>1. PICK x \in Buf : Dirty(x) /\ s \in Covers[buf[x].blk]
      BY <3>0 DEF AllSound, Owed
    <3> QED
      BY <1>1, <1>2, <1>3, <3>1 DEF Outdated
  <2> QED
    BY <2>1, <2>2
<1>5. NoneLost'
  <2>1. \A x \in Buf \ {b} : x \notin Has(p)
    BY <1>1
  <2> QED
    BY <2>1, FoundKept DEF NoneLost, Outdated
<1>6. ASSUME NEW q \in Proc \ {p} PROVE Fills(q)'
  <2>1. \A x \in Has(q) : x \in Buf \ {b}
    BY <1>1, HasBusy DEF IInv, HeldOnce
  <2> QED
    BY <2>1, FillsKept DEF Outdated, AllSound, IInv
<1> QED
  BY <1>2, <1>3, <1>4, <1>5, <1>6 DEF AllSound, Sounds
(* A buffer that has been written on, and what is then done to it. *)
LEMMA WrittenThen ==
    ASSUME IInv, NEW b \in Buf, buf[b].blk \in Block, NEW r,
           buf' = [Written(b) EXCEPT ![b] = r]
    PROVE  buf'[b] = r /\ \A x \in Buf \ {b} : Outdated(x, Covers[buf[b].blk])
<1>1. Written(b) \in [Buf -> Buffer]
  BY WrittenBuf
<1>2. buf'[b] = r /\ \A x \in Buf \ {b} : buf'[x] = Written(b)[x]
  BY <1>1
<1>3. ASSUME NEW x \in Buf \ {b} PROVE Outdated(x, Covers[buf[b].blk])
  <2> DEFINE w == Written(b)[x]
  <2>1. /\ w.blk = buf[x].blk /\ w.len = buf[x].len
        /\ w.busy = buf[x].busy /\ w.wanted = buf[x].wanted
        /\ w.done = buf[x].done /\ w.error = buf[x].error
        /\ w.delwri = buf[x].delwri /\ w.async = buf[x].async
        /\ w.io = buf[x].io /\ w.cur = buf[x].cur \ Covers[buf[b].blk]
    BY WrittenAll, ZenonT(40)
  <2>2. buf'[x] = w
    BY <1>2
  <2> HIDE DEF w
  <2> QED
    BY <2>1, <2>2 DEF Outdated
<1> QED
  BY <1>2, <1>3

LEMMA BwritesWell ==
    ASSUME IInv, Wakes, AllSound, NEW p \in Proc, Bwrite(p) \/ Bawrite(p)
    PROVE  Wakes' /\ AllSound'
<1>0. PICK b : b = proc[p].bp
  OBVIOUS
<1> DEFINE w == Written(b)[b]
           v == Writing(w)
           r == IF Bwrite(p) THEN v ELSE Async(v)
           q == IF Bwrite(p) THEN [proc[p] EXCEPT !.at = "write", !.chan = b] ELSE Idle
<1>1. /\ Writes(p) /\ wantfree' = wantfree /\ disk' = Become(Covers[buf[b].blk], "old")
      /\ buf' = [Written(b) EXCEPT ![b] = r] /\ proc' = [proc EXCEPT ![p] = q]
  BY <1>0 DEF Bwrite, Bawrite, Sleeps, Alone
<1>2. /\ b \in Buf /\ b \in Has(p) /\ Has(p) \ {b} = {} /\ proc[p].at = "hold"
      /\ buf[b].blk \in Block /\ Mapped(b) /\ buf[b].io = "none"
  BY <1>0, <1>1, WriterFacts
<1>3. /\ w \in Buffer /\ w.blk = buf[b].blk /\ w.len = buf[b].len
      /\ w.wanted = buf[b].wanted /\ w.cur = Covers[buf[b].blk]
  BY <1>2, WrittenAll
<1> HIDE DEF w
<1>4. /\ v \in Buffer /\ v.blk = buf[b].blk /\ v.len = buf[b].len /\ v.busy
      /\ v.wanted = buf[b].wanted /\ v.cur = Covers[buf[b].blk] /\ v.io = "write"
      /\ ~v.delwri /\ ~v.done /\ ~v.error
  BY <1>3, WritingRec, WritingAll
<1> HIDE DEF v
<1>5. /\ r.blk = buf[b].blk /\ r.len = buf[b].len /\ r.busy
      /\ r.wanted = buf[b].wanted /\ r.cur = Covers[buf[b].blk] /\ r.io = "write"
      /\ ~r.delwri /\ ~r.done /\ ~r.error
      /\ ~Bwrite(p) => r.async
  BY <1>4, AsyncAll
<1>6. CASE Bwrite(p)
  <2>1. /\ q.at = "write" /\ q.op = proc[p].op /\ q.ra = proc[p].ra /\ q.chan = b
        /\ q.bp = proc[p].bp /\ q.first = proc[p].first /\ q.ep = proc[p].ep
    BY <1>6, TypeFacts DEF Process
  <2> HIDE DEF q, r
  <2>2. buf'[b] = r /\ \A x \in Buf \ {b} : Outdated(x, Covers[buf[b].blk])
    BY <1>1, <1>2, WrittenThen
  <2>3. proc'[p] = q /\ \A x \in Proc \ {p} : proc'[x] = proc[x] /\ SameBut(x)
    BY <1>1, TypeFacts DEF SameBut
  <2>4. Has(p)' = Has(p)
    BY <2>1, <2>3 DEF Has
  <2>5. Fills(p)'
    <3>1. \A x \in Has(p)' : buf'[x].len
      BY <1>2, <1>5, <2>2, <2>4 DEF Mapped
    <3>2. /\ proc'[p].at = "write" /\ proc'[p].first = None /\ ~proc'[p].ra
          /\ proc'[p].op # "geteblk"
      BY <1>1, <1>2, <2>1, <2>3, NamesAt DEF Writes
    <3> QED
      BY <3>1, <3>2 DEF Fills
  <2>6. AllSound'
    <3>1. /\ buf'[b].blk = buf[b].blk /\ buf'[b].len /\ ~buf'[b].error
          /\ buf'[b].cur = Covers[buf[b].blk]
          /\ buf'[b].io = "write" /\ ~buf'[b].delwri /\ ~buf'[b].done
          /\ b \in Has(p)'
      BY <1>2, <1>5, <2>2, <2>4 DEF Mapped
    <3> QED
      BY <1>0, <1>1, <2>2, <2>3, <2>5, <3>1, WrittenSound
  <2>7. \A x \in Buf : Gentle(x)
    <3>1. Gentle(b)
      BY <1>5, <2>2 DEF Gentle
    <3> QED
      BY <1>1, <1>2, <2>2, <3>1, OutdatedSound DEF AllSound, Sounds
  <2>8. Dozes(p)' /\ Expects(p)'
    BY <1>2, <1>5, <2>1, <2>2, <2>3, <2>4, NamesAt, ConstantAssumption DEF Dozes, Expects
  <2>9. Wakes'
    BY <1>1, <2>3, <2>7, <2>8, OthersWake
  <2> QED
    BY <2>6, <2>9
<1>7. CASE ~Bwrite(p)
  <2>1. q = Idle
    BY <1>7
  <2> HIDE DEF q, r
  <2>2. buf'[b] = r /\ \A x \in Buf \ {b} : Outdated(x, Covers[buf[b].blk])
    BY <1>1, <1>2, WrittenThen
  <2>3. proc'[p] = Idle /\ \A x \in Proc \ {p} : proc'[x] = proc[x] /\ SameBut(x)
    BY <1>1, <2>1, TypeFacts DEF SameBut
  <2>4. Has(p)' = {} /\ Dozes(p)' /\ Expects(p)' /\ Fills(p)'
    BY <2>3, Awake DEF Idle, Has, Expects, Fills
  <2>5. AllSound'
    <3>1. /\ buf'[b].blk = buf[b].blk /\ buf'[b].len /\ ~buf'[b].error
          /\ buf'[b].cur = Covers[buf[b].blk]
          /\ buf'[b].io = "write" /\ ~buf'[b].delwri /\ ~buf'[b].done
          /\ buf'[b].async
      BY <1>2, <1>5, <1>7, <2>2 DEF Mapped
    <3> QED
      BY <1>0, <1>1, <2>2, <2>3, <2>4, <3>1, WrittenSound
  <2>6. \A x \in Buf : Gentle(x)
    <3>1. Gentle(b)
      BY <1>5, <2>2 DEF Gentle
    <3> QED
      BY <1>1, <1>2, <2>2, <3>1, OutdatedSound DEF AllSound, Sounds
  <2>7. Wakes'
    BY <1>1, <2>3, <2>4, <2>6, OthersWake
  <2> QED
    BY <2>5, <2>7
<1> QED
  BY <1>6, <1>7

LEMMA BdwriteWell ==
    ASSUME IInv, Wakes, AllSound, NEW p \in Proc, Bdwrite(p)
    PROVE  Wakes' /\ AllSound'
<1>0. PICK b : b = proc[p].bp
  OBVIOUS
<1> DEFINE w == Written(b)[b]
           v == [w EXCEPT !.delwri = TRUE, !.done = TRUE]
           r == Freed(v)
<1>1. /\ Writes(p) /\ disk' = Become(Covers[buf[b].blk], "old")
      /\ buf' = [Written(b) EXCEPT ![b] = r]
      /\ proc' = [x \in Proc |-> IF x = p THEN Idle ELSE Woken(proc[x], b)]
  BY <1>0 DEF Bdwrite, Alone
<1>2. /\ b \in Buf /\ b \in Has(p) /\ buf[b].blk \in Block /\ Mapped(b)
      /\ buf[b].io = "none" /\ ~buf[b].error
  BY <1>0, <1>1, WriterFacts
<1>3. /\ w \in Buffer /\ w.blk = buf[b].blk /\ w.len = buf[b].len
      /\ w.io = "none" /\ ~w.error /\ w.cur = Covers[buf[b].blk]
  BY <1>2, WrittenAll
<1> HIDE DEF w
<1>4. /\ v \in Buffer /\ v.blk = buf[b].blk /\ v.len = buf[b].len
      /\ v.cur = Covers[buf[b].blk] /\ v.io = "none"
      /\ v.delwri /\ v.done /\ ~v.error
  BY <1>3 DEF Buffer
<1> HIDE DEF v
<1>5. /\ r.blk = buf[b].blk /\ r.len = buf[b].len /\ ~r.busy
      /\ r.cur = Covers[buf[b].blk] /\ r.io = "none"
      /\ r.delwri /\ r.done /\ ~r.error
  <2>1. v.blk # None /\ ~v.error
    BY <1>2, <1>4 DEF Mapped
  <2>2. r.blk = v.blk /\ r.blk # None /\ ~r.busy
    BY <1>4, <2>1, FreedAll
  <2>3. /\ r.len = v.len /\ r.delwri = v.delwri /\ r.done = v.done
        /\ r.error = v.error /\ r.io = v.io /\ r.cur = v.cur
    BY <1>4, <2>2, FreedAll
  <2> HIDE DEF r
  <2> QED
    BY <1>4, <2>1, <2>2, <2>3
<1> HIDE DEF r
<1>6. buf'[b] = r /\ \A x \in Buf \ {b} : Outdated(x, Covers[buf[b].blk])
  BY <1>1, <1>2, WrittenThen
<1>7. proc'[p] = Idle /\ \A x \in Proc \ {p} : proc'[x] = Woken(proc[x], b)
  BY <1>1
<1>8. \A x \in Proc \ {p} : SameBut(x)
  BY <1>2, <1>7, TypeFacts, WokenRec DEF SameBut
<1>9. Has(p)' = {} /\ Dozes(p)' /\ Expects(p)' /\ Fills(p)'
  BY <1>7, Awake DEF Idle, Has, Expects, Fills
<1>10. AllSound'
  BY <1>0, <1>1, <1>2, <1>5, <1>6, <1>8, <1>9, WrittenSound DEF Mapped
<1>11. \A x \in Buf \ {b} : Gentle(x)
  BY <1>1, <1>2, <1>6, OutdatedSound DEF AllSound, Sounds
<1>12. \A x \in Proc \ {p} : b \notin Has(x)
  BY <1>2 DEF IInv, HeldOnce
<1>13. Wakes'
  BY <1>2, <1>7, <1>9, <1>11, <1>12, WokenWakes DEF Wakes
<1> QED
  BY <1>10, <1>13
-----------------------------------------------------------------------------
(* The steps of no process. *)

(* Only buffers that nobody uses change. *)
LEMMA OutsideWell ==
    ASSUME IInv, Wakes, AllSound, proc' = proc, disk' = disk, wantfree' = wantfree,
           \A x \in Buf : \/ Like(x)
                          \/ /\ ~buf[x].busy
                             /\ Sound(x)'
                             /\ Dirty(x) => Dirty(x)' /\ buf'[x].blk = buf[x].blk
                             /\ buf'[x].busy => buf'[x].async /\ buf'[x].io # "none"
    PROVE  Wakes' /\ AllSound'
<1>1. \A x \in Buf : Gentle(x)
  BY LikeGentle DEF Gentle
<1>2. \A q \in Proc : SameBut(q) /\ Has(q)' = Has(q)
  BY DEF SameBut, Has
<1>3. \A q \in Proc : \A x \in Has(q) : x \in Buf /\ Like(x)
  BY HasBusy
<1>4. Wakes'
  <2> SUFFICES ASSUME NEW q \in Proc PROVE Dozes(q)' /\ Expects(q)'
    BY DEF Wakes
  <2>1. Expects(q)'
    BY <1>1, <1>2, <1>3, StillExpects DEF Wakes
  <2>2. Dozes(q)'
    BY <1>1, StillWaits DEF Wakes
  <2> QED
    BY <2>1, <2>2
<1>5. Sounds'
  BY LikeSound DEF AllSound, Sounds
<1>6. Owed'
  <2>1. \A x \in Buf : Dirty(x) => Dirty(x)' /\ buf'[x].blk = buf[x].blk
    BY LikeSound DEF AllSound, Sounds, Like
  <2> QED
    BY <2>1, OwedKept
<1>7. NoneLost'
  <2> SUFFICES ASSUME NEW x \in Buf, buf'[x].busy
               PROVE  (buf'[x].async /\ buf'[x].io # "none") \/ \E q \in Proc : x \in Has(q)'
    BY DEF NoneLost
  <2>1. CASE Like(x)
    BY <1>2, <2>1 DEF Like, AllSound, NoneLost
  <2>2. CASE ~Like(x)
    BY <2>2
  <2> QED
    BY <2>1, <2>2
<1>8. \A q \in Proc : Fills(q)'
  BY <1>2, <1>3, FillsKept DEF Like, AllSound, IInv
<1> QED
  BY <1>4, <1>5, <1>6, <1>7, <1>8 DEF AllSound

(* A buffer that bflush starts to write, or leaves alone. *)
LEMMA StartedWell ==
    ASSUME IInv, AllSound, NEW x \in Buf, buf'[x] = Started(x), disk' = disk
    PROVE  \/ Like(x)
           \/ /\ ~buf[x].busy
              /\ Sound(x)'
              /\ Dirty(x) => Dirty(x)' /\ buf'[x].blk = buf[x].blk
              /\ buf'[x].busy => buf'[x].async /\ buf'[x].io # "none"
<1>1. CASE Started(x) = buf[x]
  BY <1>1, SameLike
<1>2. CASE ~buf[x].busy /\ buf[x].delwri /\ Started(x) = Async(Writing(buf[x]))
  <2> DEFINE w == Writing(buf[x])
             r == Async(w)
  <2>1. /\ w \in Buffer /\ w.blk = buf[x].blk /\ w.len = buf[x].len /\ w.busy
        /\ ~w.done /\ ~w.delwri /\ w.io = "write" /\ w.cur = buf[x].cur
    BY TypeFacts, WritingRec, WritingAll
  <2> HIDE DEF w
  <2>2. /\ r.blk = w.blk /\ r.len = w.len /\ r.busy = w.busy /\ r.async
        /\ r.done = w.done /\ r.delwri = w.delwri /\ r.io = w.io /\ r.cur = w.cur
    BY <2>1, AsyncAll
  <2>3. buf'[x] = r
    BY <1>2 DEF w
  <2> HIDE DEF r
  <2>4. Sound(x)' /\ Dirty(x)'
    BY <1>2, <2>1, <2>2, <2>3, WritingSound DEF AllSound, Sounds
  <2> QED
    BY <1>2, <2>1, <2>2, <2>3, <2>4
<1> QED
  BY <1>1, <1>2 DEF Started

LEMMA BflushWell ==
    ASSUME IInv, Wakes, AllSound, Bflush PROVE Wakes' /\ AllSound'
<1>1. /\ \A x \in Buf : buf'[x] = Started(x)
      /\ wantfree' = wantfree /\ proc' = proc /\ disk' = disk
  BY DEF Bflush
<1> QED
  BY <1>1, StartedWell, OutsideWell

(* What the last close forgets is on the disk, and nobody uses it. *)
LEMMA CloseWell ==
    ASSUME IInv, Wakes, AllSound, Close PROVE Wakes' /\ AllSound'
<1>1. /\ \A x \in Buf : buf'[x] = IF Started(x).done THEN [buf[x] EXCEPT !.blk = None]
                                  ELSE Started(x)
      /\ \A p \in Proc : proc[p].at = "idle"
      /\ wantfree' = wantfree /\ proc' = proc /\ disk' = disk
  BY DEF Close
<1>2. \A x \in Buf : buf[x].busy => buf[x].io # "none"
  BY <1>1, TypeFacts DEF AllSound, NoneLost, Mine
<1>3. ASSUME NEW x \in Buf
      PROVE  \/ Like(x)
             \/ /\ ~buf[x].busy
                /\ Sound(x)'
                /\ Dirty(x) => Dirty(x)' /\ buf'[x].blk = buf[x].blk
                /\ buf'[x].busy => buf'[x].async /\ buf'[x].io # "none"
  <2>1. CASE ~Started(x).done
    BY <1>1, <2>1, StartedWell
  <2>2. CASE Started(x).done
    <3> DEFINE r == [buf[x] EXCEPT !.blk = None]
    <3>1. Started(x) = buf[x] /\ buf[x].done /\ buf[x].io = "none"
      BY <2>2, StartedRec, TypeFacts
    <3>2. ~buf[x].busy
      BY <1>2, <3>1
    <3>3. ~buf[x].delwri
      <4>1. SUFFICES ASSUME buf[x].delwri PROVE FALSE
        OBVIOUS
      <4>2. Started(x) = Async(Writing(buf[x]))
        BY <3>2, <4>1 DEF Started
      <4> DEFINE w == Writing(buf[x])
      <4>3. w \in Buffer /\ ~w.done
        BY TypeFacts, WritingRec
      <4> HIDE DEF w
      <4>4. ~Async(w).done
        BY <4>3, AsyncRec
      <4> QED
        BY <2>2, <4>2, <4>4 DEF w
    <3>4. /\ r.blk = None /\ r.len = buf[x].len /\ r.busy = buf[x].busy
          /\ r.done = buf[x].done /\ r.delwri = buf[x].delwri /\ r.io = buf[x].io
      BY TypeFacts DEF Buffer
    <3>5. buf'[x] = r
      BY <1>1, <2>2
    <3> HIDE DEF r
    <3>6. Sound(x)' /\ ~Dirty(x)
      BY <3>1, <3>3, <3>4, <3>5 DEF AllSound, Sounds, Sound, Dirty, Mapped
    <3> QED
      BY <3>2, <3>4, <3>5, <3>6
  <2> QED
    BY <2>1, <2>2
<1> QED
  BY <1>1, <1>3, OutsideWell
(* What a process expects of its buffers needs less than Gentle says. *)
LEMMA ExpectsKept ==
    ASSUME NEW q \in Proc, Expects(q), SameBut(q), Mine(q),
           \A x \in Has(q) : Going(x) => buf'[x].done \/ buf'[x].io # "none"
    PROVE  Expects(q)'
<1>1. proc[q].at = "read" => proc[q].bp # None
  BY ConstantAssumption DEF Mine
<1>2. \A x \in {proc[q].bp, proc[q].first} : x # None => x \in Has(q)
  BY DEF Has
<1> QED
  BY <1>1, <1>2 DEF Expects, SameBut, Going

(* What biodone of b leaves of the disk, and of b, which then holds cur. *)
DiskAfter(b, error, cur) ==
    /\ cur = IF buf[b].io = "write" THEN buf[b].cur
             ELSE IF error THEN {} ELSE Newest(Covers[buf[b].blk])
    /\ \A t \in Sector :
          /\ buf[b].io = "read" \/ t \notin Covers[buf[b].blk] => disk'[t] = disk[t]
          /\ buf[b].io = "write" /\ t \in Covers[buf[b].blk] \cap cur => disk'[t] # "old"

BufAfter(b, error, cur) ==
    /\ buf'[b].busy = ~buf[b].async /\ buf'[b].io = "none"
    /\ ~buf[b].async => buf'[b].blk = buf[b].blk
    /\ buf[b].async => buf'[b].blk = (IF error THEN None ELSE buf[b].blk)
    /\ buf'[b].blk # None =>
          /\ buf'[b].len = buf[b].len /\ buf'[b].done /\ buf'[b].error = error
          /\ buf'[b].cur = cur
    /\ buf'[b].blk = None => ~buf'[b].done
    /\ buf[b].delwri \/ ~buf'[b].delwri

(* The driver has done with b: what it has read is what was written last, unless *)
(* that was given up, and what it has not written, if it fails, is.              *)
LEMMA DoneSound ==
    ASSUME IInv, AllSound, NEW b \in Buf, buf[b].io # "none",
           \A x \in Buf \ {b} : Like(x), \A q \in Proc : SameBut(q), disk' \in Contents,
           NEW error \in BOOLEAN, NEW cur, DiskAfter(b, error, cur), BufAfter(b, error, cur)
    PROVE  AllSound'
<1> USE DEF DiskAfter, BufAfter
<1>1. buf[b].busy /\ ~buf[b].done /\ buf[b] \in Buffer /\ Sound(b)
  BY TypeFacts DEF AllSound, Sounds
<1>2. Mapped(b) /\ ~buf[b].delwri /\ buf[b].blk \in Block
  BY <1>1 DEF Sound, Mapped, Buffer
<1>3. \A t \in Covers[buf[b].blk] :
          /\ t \in Sector /\ disk'[t] \in {"new", "lost"}
          /\ error \/ t \in cur \/ disk'[t] = "lost"
          /\ disk[t] \in {"new", "old", "lost"}
  <2> SUFFICES ASSUME NEW t \in Covers[buf[b].blk]
               PROVE  /\ t \in Sector /\ disk'[t] \in {"new", "lost"}
                      /\ error \/ t \in cur \/ disk'[t] = "lost"
                      /\ disk[t] \in {"new", "old", "lost"}
    OBVIOUS
  <2>1. t \in Sector
    BY <1>2, ConstantAssumption
  <2>2. disk[t] \in {"new", "old", "lost"} /\ disk'[t] \in {"new", "old", "lost"}
    BY <2>1, TypeFacts DEF Contents
  <2>3. CASE buf[b].io = "write"
    <3>1. cur = Covers[buf[b].blk]
      BY <1>1, <2>3 DEF Sound, Dirty
    <3> QED
      BY <2>1, <2>2, <2>3, <3>1
  <2>4. CASE buf[b].io = "read"
    <3>1. disk'[t] = disk[t] /\ disk[t] # "old"
      BY <1>1, <1>2, <2>1, <2>4 DEF Sound
    <3>2. ~error /\ disk[t] = "new" => t \in cur
      BY <2>1, <2>4 DEF Newest
    <3> QED
      BY <2>1, <2>2, <3>1, <3>2
  <2> QED
    BY <1>1, <2>3, <2>4 DEF Buffer
<1>8. Sound(b)' /\ ~Dirty(b)'
  BY <1>2, <1>3 DEF Sound, Dirty, Mapped
<1>4. ASSUME NEW x \in Buf \ {b} PROVE Sound(x)' /\ (Dirty(x)' <=> Dirty(x))
  BY <1>2, ElsewhereSound DEF AllSound, Sounds
<1>5. Owed'
  <2> SUFFICES ASSUME NEW s \in Sector, disk'[s] = "old"
               PROVE  \E x \in Buf : Dirty(x)' /\ s \in Covers[buf'[x].blk]
    BY DEF Owed
  <2>1. s \notin Covers[buf[b].blk] /\ disk[s] = "old"
    BY <1>3
  <2>2. PICK x \in Buf : Dirty(x) /\ s \in Covers[buf[x].blk]
    BY <2>1 DEF AllSound, Owed
  <2>3. x # b
    BY <2>1, <2>2
  <2> QED
    BY <1>4, <2>2, <2>3 DEF Like
<1>6. NoneLost'
  <2>1. \A q \in Proc : Has(q)' = Has(q)
    BY DEF Has, SameBut
  <2>2. ASSUME NEW x \in Buf, buf'[x].busy
        PROVE  (buf'[x].async /\ buf'[x].io # "none") \/ \E q \in Proc : x \in Has(q)'
    <3>1. CASE x = b
      BY <1>1, <2>1, <2>2, <3>1 DEF AllSound, NoneLost
    <3>2. CASE x # b
      BY <2>1, <2>2, <3>2 DEF AllSound, NoneLost, Like
    <3> QED
      BY <3>1, <3>2
  <2> QED
    BY <2>2 DEF NoneLost
<1>7. ASSUME NEW q \in Proc PROVE Fills(q)'
  <2>1. \A x \in Has(q) : x \in Buf /\ ~buf[x].async
    BY HasBusy
  <2>2. ASSUME NEW x \in Has(q)
        PROVE  /\ buf'[x].len = buf[x].len
               /\ buf'[x].error = buf[x].error \/ buf[x].io # "none"
    <3>1. CASE x = b
      BY <1>2, <2>1, <3>1 DEF Mapped
    <3>2. CASE x # b
      BY <2>1, <3>2 DEF Like
    <3> QED
      BY <3>1, <3>2
  <2> QED
    BY <2>2, FillsKept DEF AllSound, IInv
<1> QED
  BY <1>4, <1>5, <1>6, <1>7, <1>8 DEF AllSound, Sounds

LEMMA BiodoneWell ==
    ASSUME IInv, Wakes, AllSound, NEW b \in Buf, Biodone(b)
    PROVE  Wakes' /\ AllSound'
<1>1. buf[b].io # "none" /\ buf[b] \in Buffer /\ buf[b].busy
  BY TypeFacts DEF Biodone
<1>2. PICK error \in BOOLEAN, cur \in SUBSET Sector :
        /\ IF buf[b].async
           THEN /\ buf' = [buf EXCEPT ![b] = Freed(Ended(b, error, cur))]
                /\ wantfree' = FALSE
                /\ proc' = [q \in Proc |-> Woken(proc[q], b)]
           ELSE /\ buf' = [buf EXCEPT ![b] =
                              [Ended(b, error, cur) EXCEPT !.wanted = FALSE]]
                /\ proc' = [q \in Proc |-> IF proc[q].chan # b THEN proc[q]
                                           ELSE [proc[q] EXCEPT !.chan = None]]
                /\ UNCHANGED wantfree
        /\ cur = IF buf[b].io = "write" THEN buf[b].cur
                 ELSE IF error THEN {} ELSE Newest(Covers[buf[b].blk])
        /\ disk' \in Contents /\ cpu' = cpu
        /\ \A t \in Sector :
              /\ buf[b].io = "read" \/ t \notin Covers[buf[b].blk] => disk'[t] = disk[t]
              /\ buf[b].io = "write" /\ t \in Covers[buf[b].blk] \cap cur =>
                    disk'[t] # "old"
  BY BiodoneFacts
<1> DEFINE e == Ended(b, error, cur)
           f == IF buf[b].async THEN Freed(e) ELSE [e EXCEPT !.wanted = FALSE]
<1>5. /\ buf' = [buf EXCEPT ![b] = f]
      /\ buf[b].async => proc' = [q \in Proc |-> Woken(proc[q], b)]
      /\ ~buf[b].async =>
            /\ proc' = [q \in Proc |-> IF proc[q].chan # b THEN proc[q]
                                       ELSE [proc[q] EXCEPT !.chan = None]]
            /\ wantfree' = wantfree
  BY <1>2
<1>6. /\ e \in Buffer /\ e.io = "none" /\ e.done /\ e.blk = buf[b].blk
      /\ e.len = buf[b].len /\ e.busy /\ e.async = buf[b].async /\ e.error = error
      /\ e.delwri = buf[b].delwri /\ e.cur = cur
  BY <1>1 DEF Buffer, Ended
<1> HIDE DEF e
<1>7. /\ f.io = "none" /\ f.busy = ~buf[b].async
      /\ buf[b].delwri \/ ~f.delwri
      /\ ~buf[b].async => f.blk = buf[b].blk /\ f.done
      /\ buf[b].async => f.blk = (IF error THEN None ELSE buf[b].blk)
      /\ f.blk # None => f.len = buf[b].len /\ f.done /\ f.error = error /\ f.cur = cur
  <2>1. CASE buf[b].async
    <3>1. f = Freed(e)
      BY <2>1
    <3>2. f \in Buffer
      BY <1>6, <3>1, FreedRec
    <3> HIDE DEF f
    <3>3. f.blk = (IF e.error THEN None ELSE e.blk) /\ ~f.busy
      BY <1>6, <3>1, FreedAll
    <3>4. f.blk # None => /\ f.len = e.len /\ f.done = e.done /\ f.error = e.error
                          /\ f.delwri = e.delwri /\ f.io = e.io /\ f.cur = e.cur
      BY <1>6, <3>1, FreedAll
    <3>5. f.blk = None => ~f.delwri /\ f.io = "none"
      BY <1>6, <3>1, FreedAll
    <3> QED
      BY <1>1, <1>6, <2>1, <3>2, <3>3, <3>4, <3>5 DEF Buffer
  <2>2. CASE ~buf[b].async
    BY <1>1, <1>6, <2>2 DEF Buffer
  <2> QED
    BY <2>1, <2>2
<1>13. f.blk = None => ~f.done
  <2>1. CASE buf[b].async
    BY <1>6, <2>1, FreedAll
  <2>2. CASE ~buf[b].async
    <3>1. buf[b].blk # None
      BY <1>1 DEF AllSound, Sounds, Sound, Mapped
    <3> QED
      BY <1>7, <2>2, <3>1
  <2> QED
    BY <2>1, <2>2
<1> HIDE DEF f
<1>8. buf'[b] = f /\ \A x \in Buf \ {b} : Like(x) /\ Gentle(x)
  BY <1>5, OneLike
<1>9. \A q \in Proc : SameBut(q)
  <2> SUFFICES ASSUME NEW q \in Proc PROVE SameBut(q)
    OBVIOUS
  <2>1. CASE proc'[q] = proc[q]
    BY <2>1 DEF SameBut
  <2>2. CASE proc'[q] = [proc[q] EXCEPT !.chan = None]
    BY <2>2, TypeFacts DEF SameBut, Process
  <2> QED
    BY <1>5, <2>1, <2>2 DEF Woken
<1>10. AllSound'
  <2>1. BufAfter(b, error, cur)
    BY <1>7, <1>8, <1>13 DEF BufAfter
  <2>2. disk' \in Contents /\ DiskAfter(b, error, cur)
    BY <1>2 DEF DiskAfter
  <2>3. \A x \in Buf \ {b} : Like(x)
    BY <1>8
  <2> QED
    BY <1>1, <1>9, <2>1, <2>2, <2>3, DoneSound
<1>11. ASSUME NEW q \in Proc, buf[b].async PROVE Dozes(q)' /\ Expects(q)'
  <2>1. b \notin Has(q)
    BY <1>11, HasBusy
  <2> QED
    BY <1>5, <1>8, <1>11, <2>1, WokenWakes
<1>12. ASSUME NEW q \in Proc, ~buf[b].async PROVE Dozes(q)' /\ Expects(q)'
  <2>1. \A x \in Has(q) : x \in Buf /\ (Going(x) => buf'[x].done \/ buf'[x].io # "none")
    BY <1>7, <1>8, HasBusy DEF Gentle
  <2>2. Expects(q)'
    BY <1>9, <2>1, ExpectsKept DEF Wakes, IInv
  <2>3. CASE proc[q].chan = b
    <3>1. proc'[q] = [proc[q] EXCEPT !.chan = None]
      BY <1>5, <1>12, <2>3
    <3>2. proc'[q].chan = None
      BY <3>1, TypeFacts DEF Process
    <3> QED
      BY <2>2, <3>2, Awake
  <2>4. CASE proc[q].chan # b
    <3>1. proc'[q] = proc[q] /\ wantfree' = wantfree
      BY <1>5, <1>12, <2>4
    <3>2. \A x \in Buf : buf'[x].busy = buf[x].busy \/ buf'[x].busy
      BY <1>7, <1>8, <1>12 DEF Like
    <3>3. proc[q].chan \in Buf => Like(proc[q].chan)
      BY <1>8, <2>4
    <3>4. Has(q)' = Has(q)
      BY <3>1 DEF Has
    <3>5. Dozes(q)
      BY DEF Wakes
    <3> QED
      BY <2>2, <3>1, <3>2, <3>3, <3>4, <3>5 DEF Dozes, Like
  <2> QED
    BY <2>3, <2>4
<1> QED
  BY <1>10, <1>11, <1>12 DEF Wakes
-----------------------------------------------------------------------------
LEMMA InitWell == Init => Wakes /\ AllSound
<1> SUFFICES ASSUME Init PROVE Wakes /\ AllSound
  OBVIOUS
<1>1. \A b \in Buf : buf[b] = Empty
  BY DEF Init
<1>2. \A p \in Proc : proc[p] = Idle
  BY DEF Init
<1>3. \A b \in Buf : Sound(b)
  BY <1>1 DEF Sound, Dirty, Mapped, Empty
<1>4. \A s \in Sector : disk[s] = "new"
  BY DEF Init
<1>5. Owed
  BY <1>4 DEF Owed
<1>6. NoneLost
  BY <1>1 DEF NoneLost, Empty
<1>7. ASSUME NEW p \in Proc PROVE Fills(p) /\ Dozes(p) /\ Expects(p)
  <2>1. Has(p) = {}
    BY <1>2 DEF Has, Idle
  <2>2. Fills(p)
    BY <1>2, <2>1 DEF Fills, Idle
  <2>3. Dozes(p)
    BY <1>2, ConstantAssumption DEF Dozes, Idle
  <2>4. Expects(p)
    BY <1>2 DEF Expects, Idle
  <2> QED
    BY <2>2, <2>3, <2>4
<1> QED
  BY <1>3, <1>5, <1>6, <1>7 DEF Wakes, AllSound, Sounds

LEMMA WellStep == IInv /\ Wakes /\ AllSound /\ [Next]_vars => Wakes' /\ AllSound'
<1> SUFFICES ASSUME IInv, Wakes, AllSound, [Next]_vars PROVE Wakes' /\ AllSound'
  OBVIOUS
<1>1. ASSUME NEW p \in Proc, Step(p) PROVE Wakes' /\ AllSound'
  BY <1>1, SleepsWell, MissWell, GetblkHitWell, NewbufWriteWell, NewbufTakeWell, StartsWell,
     DroppedWell, ReallocInvalWell, ReallocDoneWell, GotWell, ReadAheadWell, GotAheadWell,
     LastWell, ReadWell, IdleWell, EmptiedWell, BdwriteWell, BwritesWell, FlushDoneWell DEF Step
<1>2. ASSUME NEW p \in Proc, NEW k \in Block \cup {None},
             NEW op \in {"bread", "breada", "getblk", "geteblk", "blkflush"},
             Begin(p, op, k)
      PROVE  Wakes' /\ AllSound'
  BY <1>2, BeginWell
<1>3. ASSUME NEW b \in Buf, Biodone(b) PROVE Wakes' /\ AllSound'
  BY <1>3, BiodoneWell
<1>4. CASE Bflush \/ Close
  BY <1>4, BflushWell, CloseWell
<1>5. CASE UNCHANGED vars
  <2>1. \A x \in Buf : Like(x)
    BY <1>5, SameLike DEF vars
  <2> QED
    BY <1>5, <2>1, OutsideWell DEF vars
<1> QED
  BY <1>1, <1>2, <1>3, <1>4, <1>5 DEF Next

LEMMA InductiveWell == Spec => [](IInv /\ Wakes /\ AllSound)
BY InitInv, InductiveStep, InitWell, WellStep, PTL DEF Spec

(* Who sleeps for a buffer will be woken up: it is in use, and is wanted or at   *)
(* the driver, when getblk, brealloc or biowait sleeps for it and as long as the *)
(* process sleeps; who sleeps for any buffer does so while none is free.         *)
THEOREM WakeupNotLost == Spec => []NoLostWakeup
<1>1. Wakes => NoLostWakeup
  BY DEF Wakes, Dozes, NoLostWakeup
<1> QED
  BY <1>1, InductiveWell, PTL

(* A buffer that is valid has what was written last, whoever wrote it and        *)
(* through whichever block, but for sectors whose last contents were given up by *)
(* a write that failed or with a FIFO: brealloc has written what overlapped it,  *)
(* and forgotten the rest, before the block was read.                            *)
THEOREM ReadsCurrent == Spec => []Current
<1>1. AllSound => Current
  BY DEF AllSound, Sounds, Sound, Current
<1> QED
  BY <1>1, InductiveWell, PTL

(* No buffer is lost: one in use is some process's, which goes on to give it     *)
(* back, or is at the driver, and biodone gives it back.                         *)
THEOREM NoBufferLost == Spec => []NoneLost
<1>1. AllSound => NoneLost
  BY DEF AllSound
<1> QED
  BY <1>1, InductiveWell, PTL

(* What the disk has not got as it was last written is in a buffer that waits to *)
(* be written or is being written, unless a write of it has failed or it was     *)
(* read from a FIFO: nothing else that processes do makes the cache forget it.   *)
THEOREM NothingForgotten == Spec => []Owed
<1>1. AllSound => Owed
  BY DEF AllSound
<1> QED
  BY <1>1, InductiveWell, PTL

-----------------------------------------------------------------------------
(***************************************************************************)
(* Processes never wait only for each other, if no blocks are read ahead   *)
(* in a circle and there are two buffers for each process; or one and one  *)
(* to spare, if nothing is read ahead with what is read ahead.             *)
(*                                                                         *)
(* Aware: what a process sleeps for is what it was when it went to sleep   *)
(* (Awaits), and breada's first buffer is that of the block it was called  *)
(* with (Names).  A process that is in biowait waits for the driver, so    *)
(* those that wait for each other only are in getblk, brealloc, blkflush   *)
(* or getnewbuf.  If none is in getnewbuf, what they wait for is, in the   *)
(* end, the first buffer of one that reads ahead and waits as well: its    *)
(* blocks would make a circle.  If one is, they have all the buffers; but  *)
(* it has one at most, and the others two: two only if what they read      *)
(* ahead overlaps what another one reads ahead with (OneAhead).            *)
(***************************************************************************)

Awaits(p) ==
    LET q == proc[p]
        c == q.chan
    IN  c # None =>
            \/ c = Free /\ q.at = "newbuf"
            \/ /\ c \in Buf
               /\ q.at \in {"getblk", "realloc", "drop", "read", "write", "flush", "flushing"}
               /\ q.at = "getblk" => Maps(c, Target(p))
               /\ q.at \in {"realloc", "flush"} => Clash(c, Target(p))
               /\ q.at \in {"drop", "read", "write", "flushing"} => buf[c].io # "none"

Names(p) ==
    LET q == proc[p]
    IN  /\ q.at = "got" => Maps(q.bp, Target(p))
        /\ q.at = "ahead" /\ q.bp # None => Maps(q.bp, q.blk)
        /\ q.first # None => Maps(q.first, q.blk)

Aware == \A p \in Proc : Awaits(p) /\ Names(p)

(* Some processes that wait only for each other. *)
Waiting(S) ==
    /\ S \in (SUBSET Proc) \ {{}}
    /\ \A p \in S : proc[p].chan # None /\ \A b \in WaitsFor(p) : Stuck(b, S)

(* None of them is in biowait, and who reads ahead is on its way to its buffer. *)
LEMMA WaitingAt ==
    ASSUME IInv, Wakes, AllSound, Aware, NEW S, Waiting(S), NEW p \in S
    PROVE  /\ p \in Proc /\ proc[p].ep = None
           /\ \/ proc[p].chan = Free /\ proc[p].at = "newbuf"
              \/ proc[p].chan \in Buf /\ proc[p].at = "getblk" /\ Maps(proc[p].chan, Target(p))
              \/ /\ proc[p].chan \in Buf /\ proc[p].at \in {"realloc", "flush"}
                 /\ Clash(proc[p].chan, Target(p))
           /\ proc[p].at # "realloc" => proc[p].bp = None
           /\ proc[p].at = "realloc" => ~buf[proc[p].bp].len
           /\ proc[p].first # None => /\ proc[p].ra /\ Maps(proc[p].first, proc[p].blk)
                                      /\ proc[p].blk \in Block /\ Ahead[proc[p].blk] \in Block
<1>1. /\ p \in Proc /\ proc[p].chan # None
      /\ \A b \in WaitsFor(p) : Stuck(b, S)
  BY DEF Waiting
<1>2. Awaits(p) /\ Names(p) /\ Mine(p) /\ Fills(p)
  BY <1>1, NamesAt DEF Aware
<1>3. proc[p].chan \in Buf => Stuck(proc[p].chan, S)
  BY <1>1, ConstantAssumption DEF WaitsFor
<1>4. \/ proc[p].chan = Free /\ proc[p].at = "newbuf"
      \/ proc[p].chan \in Buf /\ proc[p].at = "getblk" /\ Maps(proc[p].chan, Target(p))
      \/ /\ proc[p].chan \in Buf /\ proc[p].at \in {"realloc", "flush"}
         /\ Clash(proc[p].chan, Target(p))
  BY <1>1, <1>2, <1>3 DEF Awaits, Stuck
<1> QED
  BY <1>1, <1>2, <1>4 DEF Mine, Fills, Names

(* What they wait for some of them have, as a first buffer or to put a block in. *)
LEMMA WaitingHas ==
    ASSUME IInv, Wakes, AllSound, Aware, NEW S, Waiting(S), NEW p \in S, NEW b \in WaitsFor(p)
    PROVE  b \in Buf /\ \E q \in S : \/ proc[q].first = b
                                     \/ proc[q].at = "realloc" /\ proc[q].bp = b
<1>1. Stuck(b, S) /\ p \in Proc
  BY DEF Waiting
<1>2. b \in Buf /\ buf[b].busy
  <2>1. Dozes(p)
    BY <1>1 DEF Wakes
  <2>2. proc[p].chan = Free \/ proc[p].chan \in Buf
    BY WaitingAt
  <2> QED
    BY <2>1, <2>2, ConstantAssumption DEF Dozes, WaitsFor
<1>3. PICK q \in Proc : b \in Has(q)
  BY <1>1, <1>2 DEF AllSound, NoneLost, Stuck
<1>4. q \in S
  BY <1>1, <1>3 DEF Stuck
<1> QED
  BY <1>2, <1>3, <1>4, WaitingAt DEF Has

(* Who waits for an overlapping block waits for another one's first buffer. *)
LEMMA WaitsFirst ==
    ASSUME IInv, Wakes, AllSound, Aware, NEW S, Waiting(S), NEW q \in S,
           proc[q].at \in {"realloc", "flush"}
    PROVE  \E r \in S : proc[r].first # None /\ Overlaps(proc[r].blk, Target(q))
<1>1. proc[q].chan \in Buf /\ Clash(proc[q].chan, Target(q))
  BY WaitingAt
<1>2. proc[q].chan \in WaitsFor(q)
  BY <1>1, ConstantAssumption DEF WaitsFor
<1>3. PICK r \in S : \/ proc[r].first = proc[q].chan
                     \/ proc[r].at = "realloc" /\ proc[r].bp = proc[q].chan
  BY <1>2, WaitingHas
<1>4. proc[r].first = proc[q].chan
  BY <1>1, <1>3, WaitingAt DEF Clash
<1>5. proc[r].first # None
  BY <1>1, <1>4, ConstantAssumption
<1>6. Maps(proc[r].first, proc[r].blk)
  BY <1>5, WaitingAt
<1> QED
  BY <1>1, <1>4, <1>5, <1>6 DEF Clash, Maps

(* While none waits for any buffer, who reads ahead waits for a block that       *)
(* overlaps the one it reads ahead and that another one reads ahead with.        *)
LEMMA WaitsOverlap ==
    ASSUME IInv, Wakes, AllSound, Aware, NEW S, Waiting(S), NEW p \in S,
           \A q \in S : proc[q].chan # Free
    PROVE  \E q \in S : /\ proc[q].first # None
                        /\ \/ proc[q].blk = Target(p)
                           \/ Overlaps(proc[q].blk, Target(p))
<1>1. CASE proc[p].at \in {"realloc", "flush"}
  BY <1>1, WaitsFirst
<1>2. CASE proc[p].at = "getblk"
  <2>1. proc[p].chan \in Buf /\ Maps(proc[p].chan, Target(p))
    BY <1>2, WaitingAt
  <2>2. proc[p].chan \in WaitsFor(p)
    BY <2>1, ConstantAssumption DEF WaitsFor
  <2>3. PICK q \in S : \/ proc[q].first = proc[p].chan
                       \/ proc[q].at = "realloc" /\ proc[q].bp = proc[p].chan
    BY <2>2, WaitingHas
  <2>4. CASE proc[q].first = proc[p].chan
    <3>1. proc[q].first # None
      BY <2>1, <2>4, ConstantAssumption
    <3>2. Maps(proc[q].first, proc[q].blk)
      BY <3>1, WaitingAt
    <3> QED
      BY <2>1, <2>4, <3>1, <3>2 DEF Maps
  <2>5. CASE proc[q].at = "realloc" /\ proc[q].bp = proc[p].chan
    <3>1. Maps(proc[q].bp, Target(q))
      BY <2>5, WaitingAt DEF IInv, Mine, Maps
    <3>2. Target(q) = Target(p)
      BY <2>1, <2>5, <3>1 DEF Maps
    <3> QED
      BY <2>5, <3>2, WaitsFirst
  <2> QED
    BY <2>3, <2>4, <2>5
<1> QED
  BY <1>1, <1>2, WaitingAt

LEMMA FewImages ==
    ASSUME NEW S, IsFiniteSet(S), NEW f, f = [x \in S |-> f[x]]
    PROVE  LET T == {f[x] : x \in S}
           IN  IsFiniteSet(T) /\ Cardinality(T) <= Cardinality(S)
<1> DEFINE T == {f[x] : x \in S}
<1>1. f \in Surjection(S, T)
  BY DEF Surjection
<1> HIDE DEF T
<1>2. IsFiniteSet(T) /\ Cardinality(T) <= Cardinality(S)
  BY <1>1, FS_Surjection
<1> QED
  BY <1>2 DEF T

(* Not all buffers are taken by processes of which one waits for a buffer. *)
LEMMA NotAllTaken ==
    ASSUME IsFiniteSet(Proc), IsFiniteSet(Buf), 2 * Cardinality(Proc) <= Cardinality(Buf),
           NEW p \in Proc, proc[p].bp = None,
           \A b \in Buf : \E q \in Proc : b = proc[q].first \/ b = proc[q].bp
    PROVE  FALSE
<1> DEFINE P == Proc \ {p}
           f == [q \in P |-> proc[q].bp]
           g == [q \in Proc |-> proc[q].first]
           F == {f[q] : q \in P}
           G == {g[q] : q \in Proc}
<1>1. IsFiniteSet(Proc) /\ IsFiniteSet(Buf)
      /\ Cardinality(Proc) \in Nat /\ Cardinality(Buf) \in Nat
  BY FS_CardinalityType
<1>2. IsFiniteSet(P) /\ Cardinality(P) = Cardinality(Proc) - 1
  BY <1>1, FS_RemoveElement
<1>3. f = [q \in P |-> f[q]] /\ g = [q \in Proc |-> g[q]]
  OBVIOUS
<1>4. Buf \subseteq F \cup G
  <2> SUFFICES ASSUME NEW b \in Buf PROVE b \in F \cup G
    OBVIOUS
  <2>1. PICK q \in Proc : b = proc[q].first \/ b = proc[q].bp
    OBVIOUS
  <2>2. CASE b = proc[q].first
    BY <2>2
  <2>3. CASE b = proc[q].bp
    <3>1. q # p
      BY <2>3, ConstantAssumption
    <3> QED
      BY <2>3, <3>1
  <2> QED
    BY <2>1, <2>2, <2>3
<1> HIDE DEF f, g
<1>5. IsFiniteSet(F) /\ Cardinality(F) <= Cardinality(P)
  BY <1>2, <1>3, FewImages
<1>6. IsFiniteSet(G) /\ Cardinality(G) <= Cardinality(Proc)
  BY <1>1, <1>3, FewImages
<1> HIDE DEF P, F, G
<1>7. /\ IsFiniteSet(F \cup G) /\ Cardinality(F) \in Nat /\ Cardinality(G) \in Nat
      /\ Cardinality(F \cup G) = Cardinality(F) + Cardinality(G) - Cardinality(F \cap G)
  BY <1>5, <1>6, FS_Union, FS_CardinalityType
<1>8. Cardinality(F \cap G) \in Nat
  BY <1>5, FS_Intersection, FS_CardinalityType
<1>9. Cardinality(Buf) <= Cardinality(F \cup G)
  BY <1>4, <1>7, FS_Subset
<1>10. 2 * Cardinality(Proc) <= Cardinality(Buf)
  OBVIOUS
<1>11. Cardinality(F \cup G) \in Nat
  BY <1>7, FS_CardinalityType
<1> DEFINE nf == Cardinality(F)
           ng == Cardinality(G)
           ni == Cardinality(F \cap G)
           nu == Cardinality(F \cup G)
           np == Cardinality(Proc)
           nb == Cardinality(Buf)
<1>12. /\ nf \in Nat /\ ng \in Nat /\ ni \in Nat /\ nu \in Nat /\ np \in Nat /\ nb \in Nat
       /\ nf <= np - 1 /\ ng <= np /\ nu = nf + ng - ni /\ nb <= nu /\ 2 * np <= nb
  BY <1>1, <1>2, <1>5, <1>6, <1>7, <1>8, <1>9, <1>10, <1>11
<1> HIDE DEF nf, ng, ni, nu, np, nb
<1> QED
  BY <1>12

(* Nor by processes that have one at most, if they are fewer. *)
LEMMA OneEach ==
    ASSUME IsFiniteSet(Proc), IsFiniteSet(Buf), Cardinality(Proc) < Cardinality(Buf),
           \A b \in Buf : \E q \in Proc : /\ b \in {proc[q].first, proc[q].bp}
                                          /\ None \in {proc[q].first, proc[q].bp}
    PROVE  FALSE
<1> DEFINE f == [q \in Proc |-> IF proc[q].first = None THEN proc[q].bp ELSE proc[q].first]
           F == {f[q] : q \in Proc}
<1>1. Cardinality(Proc) \in Nat /\ Cardinality(Buf) \in Nat
  BY FS_CardinalityType
<1>2. f = [q \in Proc |-> f[q]]
  OBVIOUS
<1>3. Buf \subseteq F
  BY ConstantAssumption
<1> HIDE DEF f
<1>4. IsFiniteSet(F) /\ Cardinality(F) <= Cardinality(Proc)
  BY <1>2, FewImages
<1> HIDE DEF F
<1>5. Cardinality(Buf) <= Cardinality(F) /\ Cardinality(F) \in Nat
  BY <1>3, <1>4, FS_Subset, FS_CardinalityType
<1> QED
  BY <1>1, <1>4, <1>5

LEMMA NobodyStuck ==
    ASSUME IInv, Wakes, AllSound, Aware, AheadEnds, EnoughBuffers
    PROVE  NoDeadlock
<1> SUFFICES ASSUME NEW S, Waiting(S) PROVE FALSE
  BY DEF NoDeadlock, Waiting
<1>1. PICK p \in S : p \in Proc
  BY DEF Waiting
<1>2. CASE \E q \in S : proc[q].chan = Free
  <2>1. PICK q \in S : proc[q].chan = Free
    BY <1>2
  <2>2. WaitsFor(q) = Buf /\ q \in Proc /\ proc[q].bp = None
    BY <2>1, WaitingAt, ConstantAssumption DEF WaitsFor
  <2>3. \A b \in Buf : \E r \in Proc : b = proc[r].first \/ b = proc[r].bp
    BY <2>2, WaitingHas, WaitingAt
  <2>4. CASE 2 * Cardinality(Proc) <= Cardinality(Buf)
    BY <2>2, <2>3, <2>4, NotAllTaken DEF EnoughBuffers
  <2>5. CASE OneAhead /\ Cardinality(Proc) < Cardinality(Buf)
    <3>1. ASSUME NEW r \in S, proc[r].first # None, proc[r].at = "realloc"
          PROVE  FALSE
      <4>1. PICK s \in S : proc[s].first # None /\ Overlaps(proc[s].blk, Target(r))
        BY <3>1, WaitsFirst
      <4>2. /\ proc[r].blk \in Block /\ Ahead[proc[r].blk] \in Block
            /\ proc[s].blk \in Block /\ Ahead[proc[s].blk] \in Block
            /\ Target(r) = Ahead[proc[r].blk]
        BY <3>1, <4>1, WaitingAt DEF Target
      <4> QED
        BY <2>5, <4>1, <4>2, ConstantAssumption DEF OneAhead
    <3>2. \A b \in Buf : \E r \in Proc : /\ b \in {proc[r].first, proc[r].bp}
                                         /\ None \in {proc[r].first, proc[r].bp}
      <4> SUFFICES ASSUME NEW b \in Buf
                   PROVE  \E r \in Proc : /\ b \in {proc[r].first, proc[r].bp}
                                          /\ None \in {proc[r].first, proc[r].bp}
        OBVIOUS
      <4>1. PICK r \in S : proc[r].first = b \/ (proc[r].at = "realloc" /\ proc[r].bp = b)
        BY <2>2, WaitingHas
      <4> QED
        BY <3>1, <4>1, WaitingAt
    <3> QED
      BY <2>5, <3>2, OneEach DEF EnoughBuffers
  <2> QED
    BY <2>4, <2>5 DEF EnoughBuffers
<1>3. CASE \A q \in S : proc[q].chan # Free
  <2> DEFINE R == {q \in S : proc[q].first # None}
             T == {proc[q].blk : q \in R}
  <2>1. T \in SUBSET Block
    BY WaitingAt
  <2>2. PICK q \in R : TRUE
    BY <1>1, <1>3, WaitsOverlap
  <2>3. T # {}
    BY <2>2
  <2>4. PICK k \in T : \/ Ahead[k] = None
                       \/ \A j \in T : j # Ahead[k] /\ ~Overlaps(j, Ahead[k])
    BY <2>1, <2>3 DEF AheadEnds
  <2>5. PICK r \in R : proc[r].blk = k
    BY <2>4
  <2>6. Target(r) = Ahead[k] /\ Ahead[k] # None
    BY <2>5, WaitingAt, ConstantAssumption DEF Target
  <2>7. PICK s \in S : /\ proc[s].first # None
                       /\ \/ proc[s].blk = Target(r)
                          \/ Overlaps(proc[s].blk, Target(r))
    BY <1>3, <2>5, WaitsOverlap
  <2>8. proc[s].blk \in T
    BY <2>7
  <2> QED
    BY <2>4, <2>6, <2>7, <2>8
<1> QED
  BY <1>2, <1>3
-----------------------------------------------------------------------------
(* That processes stay aware: what a step leaves to those that did not take it. *)

Steady(b) ==
    buf[b].busy => /\ buf'[b].blk = buf[b].blk
                   /\ buf[b].len => buf'[b].len
                   /\ buf[b].io # "none" => buf'[b].io # "none"

LEMMA LikeSteady == ASSUME NEW b \in Buf, Like(b) PROVE Steady(b)
  BY DEF Like, Steady

LEMMA FreeSteady == ASSUME NEW b \in Buf, ~buf[b].busy PROVE Steady(b)
  BY DEF Steady

LEMMA OtherAware ==
    ASSUME IInv, Wakes, Aware, NEW q \in Proc, SameBut(q),
           proc'[q].chan \in {proc[q].chan, None},
           \A x \in Has(q) : buf'[x].blk = buf[x].blk,
           proc[q].chan \in Buf => Steady(proc[q].chan) \/ proc'[q].chan = None
    PROVE  Awaits(q)' /\ Names(q)'
<1>1. Awaits(q) /\ Names(q) /\ Mine(q) /\ Dozes(q)
  BY TypeFacts DEF Aware, Wakes
<1>2. Target(q)' = Target(q)
  BY DEF Target, SameBut
<1>3. Awaits(q)'
  <2>1. CASE proc'[q].chan = None
    BY <2>1 DEF Awaits
  <2>2. CASE proc'[q].chan # None /\ proc[q].chan = Free
    BY <1>1, <2>2, ConstantAssumption DEF Awaits, SameBut
  <2>3. CASE proc'[q].chan # None /\ proc[q].chan # Free
    <3> DEFINE c == proc[q].chan
    <3>1. proc'[q].chan = c /\ c \in Buf /\ Steady(c)
      BY <1>1, <2>3 DEF Awaits
    <3>2. buf[c].busy
      BY <1>1, <3>1 DEF Dozes
    <3>3. /\ buf'[c].blk = buf[c].blk /\ (buf[c].len => buf'[c].len)
          /\ buf[c].io # "none" => buf'[c].io # "none"
      BY <3>1, <3>2 DEF Steady
    <3>4. /\ Maps(c, Target(q)) => buf'[c].blk = Target(q)
          /\ Clash(c, Target(q)) => /\ buf'[c].blk # None /\ buf'[c].len
                                    /\ Overlaps(buf'[c].blk, Target(q))
      BY <3>3 DEF Maps, Clash
    <3>5. /\ c \in Buf
          /\ proc[q].at \in {"getblk", "realloc", "drop", "read", "write", "flush", "flushing"}
          /\ proc[q].at = "getblk" => Maps(c, Target(q))
          /\ proc[q].at \in {"realloc", "flush"} => Clash(c, Target(q))
          /\ proc[q].at \in {"drop", "read", "write", "flushing"} => buf[c].io # "none"
      BY <1>1, <2>3, <3>1, ConstantAssumption DEF Awaits
    <3> QED
      BY <1>2, <3>1, <3>3, <3>4, <3>5 DEF Awaits, SameBut, Maps, Clash, Overlaps
  <2> QED
    BY <2>1, <2>2, <2>3
<1>4. Names(q)'
  <2>1. /\ proc[q].at = "got" => proc[q].bp \in Has(q)
        /\ proc[q].bp # None => proc[q].bp \in Has(q)
        /\ proc[q].first # None => proc[q].first \in Has(q)
    BY <1>1, ConstantAssumption DEF Has, Mine
  <2> QED
    BY <1>1, <1>2, <2>1 DEF Names, SameBut, Maps
<1> QED
  BY <1>3, <1>4

(* A step of p that takes from nobody. *)
LEMMA GoesAware ==
    ASSUME IInv, Wakes, Aware, NEW p \in Proc, NEW q, proc' = [proc EXCEPT ![p] = q],
           \A x \in Buf : Steady(x), Awaits(p)', Names(p)'
    PROVE  Aware'
<1>1. ASSUME NEW x \in Proc \ {p} PROVE Awaits(x)' /\ Names(x)'
  <2>1. proc'[x] = proc[x]
    BY TypeFacts
  <2>2. SameBut(x)
    BY <2>1 DEF SameBut
  <2>3. \A b \in Has(x) : buf'[b].blk = buf[b].blk
    BY HasBusy DEF Steady
  <2> QED
    BY <2>1, <2>2, <2>3, OtherAware
<1> QED
  BY <1>1 DEF Aware

(* A step of p that gives b back. *)
LEMMA GivesAware ==
    ASSUME IInv, Wakes, Aware, NEW p \in Proc, NEW q, NEW b \in Buf,
           proc' = [x \in Proc |-> IF x = p THEN q ELSE Woken(proc[x], b)],
           b \in Has(p) \/ ~buf[b].busy,
           \A x \in Buf \ {b} : Steady(x), Awaits(p)', Names(p)'
    PROVE  Aware'
<1>1. ASSUME NEW x \in Proc \ {p} PROVE Awaits(x)' /\ Names(x)'
  <2>1. proc'[x] = Woken(proc[x], b) /\ proc[x] \in Process /\ b \notin Has(x)
    BY TypeFacts, HasBusy DEF IInv, HeldOnce
  <2>2. SameBut(x)
    BY <2>1, WokenRec DEF SameBut
  <2>3. \A c \in Has(x) : buf'[c].blk = buf[c].blk
    BY <2>1, HasBusy DEF Steady
  <2>4. proc'[x].chan \in {proc[x].chan, None}
    BY <2>1 DEF Woken, Process
  <2>5. proc[x].chan = b => proc'[x].chan = None
    BY <2>1 DEF Woken, Process, Wakes, Dozes
  <2> QED
    BY <2>2, <2>3, <2>4, <2>5, OtherAware
<1> QED
  BY <1>1 DEF Aware

LEMMA AwakeAware ==
    ASSUME NEW p \in Proc, proc'[p].chan = None PROVE Awaits(p)'
  BY DEF Awaits

(* Its names for blocks stay right. *)
LEMMA NamesStay ==
    ASSUME IInv, Aware, NEW p \in Proc, NEW b, \A x \in Buf \ {b} : Steady(x),
           proc[p].first # b, proc'[p].blk = proc[p].blk,
           proc'[p].first \in {proc[p].first, None}, proc'[p].at \notin {"got", "ahead"}
    PROVE  Names(p)'
<1>1. proc[p].first # None => proc[p].first \in Has(p)
  BY DEF Has
<1>2. proc[p].first # None => Maps(proc[p].first, proc[p].blk) /\ Steady(proc[p].first)
                              /\ buf[proc[p].first].busy
  BY <1>1, HasBusy DEF Aware, Names
<1> QED
  BY <1>2 DEF Names, Maps, Steady

-----------------------------------------------------------------------------
(* A process that sleeps for a buffer that it marks as wanted. *)

LEMMA SleepAware ==
    ASSUME IInv, Wakes, Aware, NEW p \in Proc, NEW at \in {"getblk", "realloc", "flush"},
           proc[p].at = at, NEW b \in Buf, buf' = [buf EXCEPT ![b].wanted = TRUE],
           proc' = [proc EXCEPT ![p].at = at, ![p].chan = b],
           at = "getblk" => Maps(b, Target(p)), at # "getblk" => Clash(b, Target(p))
    PROVE  Aware'
<1>1. \A x \in Buf : /\ buf'[x].blk = buf[x].blk /\ buf'[x].len = buf[x].len
                     /\ buf'[x].io = buf[x].io
  <2>1. buf' = [buf EXCEPT ![b] = [buf[b] EXCEPT !.wanted = TRUE]] /\ buf[b] \in Buffer
    BY TypeFacts
  <2>2. LET r == [buf[b] EXCEPT !.wanted = TRUE]
        IN  r.blk = buf[b].blk /\ r.len = buf[b].len /\ r.io = buf[b].io
    BY <2>1, WantedRec
  <2> DEFINE r == [buf[b] EXCEPT !.wanted = TRUE]
  <2>3. buf' = [buf EXCEPT ![b] = r]
    BY <2>1
  <2> HIDE DEF r
  <2>4. \A x \in Buf : buf'[x] = IF x = b THEN r ELSE buf[x]
    BY <2>3, TypeFacts
  <2> QED
    BY <2>2, <2>4 DEF r
<1>2. \A x \in Buf : Steady(x)
  BY <1>1 DEF Steady
<1> DEFINE q == [proc[p] EXCEPT !.at = at, !.chan = b]
<1>3. /\ proc' = [proc EXCEPT ![p] = q] /\ q.at = at /\ q.chan = b /\ q.blk = proc[p].blk
      /\ q.ra = proc[p].ra /\ q.bp = proc[p].bp /\ q.first = proc[p].first
  BY TypeFacts DEF Process
<1> HIDE DEF q
<1>4. proc'[p] = q
  BY <1>3, TypeFacts
<1>5. Target(p)' = Target(p)
  BY <1>3, <1>4 DEF Target
<1>6. Awaits(p)'
  BY <1>1, <1>3, <1>4, <1>5 DEF Awaits, Maps, Clash, Overlaps
<1>7. Names(p)'
  <2>1. \A x \in Buf \ {None} : Steady(x)
    BY <1>2
  <2>2. CASE proc[p].first = None
    BY <1>3, <1>4, <2>2 DEF Names
  <2>3. CASE proc[p].first # None
    BY <1>3, <1>4, <2>1, <2>3, NamesStay
  <2> QED
    BY <2>2, <2>3
<1> QED
  BY <1>2, <1>3, <1>6, <1>7, GoesAware

LEMMA SleepsAware ==
    ASSUME IInv, Wakes, Aware, NEW p \in Proc,
           GetblkSleep(p) \/ ReallocSleep(p) \/ FlushSleep(p)
    PROVE  Aware'
<1>1. CASE GetblkSleep(p)
  <2>1. PICK b \in Buf : Maps(b, Target(p)) /\ buf' = [buf EXCEPT ![b].wanted = TRUE]
                         /\ Sleeps(p, "getblk", b)
    BY <1>1 DEF GetblkSleep
  <2> QED
    BY <1>1, <2>1, SleepAware DEF GetblkSleep, Runs, Sleeps
<1>2. CASE ReallocSleep(p)
  <2>1. PICK b \in Buf : Clash(b, Target(p)) /\ buf' = [buf EXCEPT ![b].wanted = TRUE]
                         /\ Sleeps(p, "realloc", b)
    BY <1>2 DEF ReallocSleep
  <2> QED
    BY <1>2, <2>1, SleepAware DEF ReallocSleep, Runs, Sleeps
<1>3. CASE FlushSleep(p)
  <2>1. PICK b \in Buf : Clash(b, Target(p)) /\ buf' = [buf EXCEPT ![b].wanted = TRUE]
                         /\ Sleeps(p, "flush", b)
    BY <1>3 DEF FlushSleep
  <2> QED
    BY <1>3, <2>1, SleepAware DEF FlushSleep, Runs, Sleeps
<1> QED
  BY <1>1, <1>2, <1>3

-----------------------------------------------------------------------------
(* A process that changes no buffer. *)

LEMMA KeepsAware ==
    ASSUME IInv, Wakes, Aware, NEW p \in Proc, NEW q, proc' = [proc EXCEPT ![p] = q],
           buf' = buf, Awaits(p)', Names(p)'
    PROVE  Aware'
  BY GoesAware DEF Steady

LEMMA MovesAware ==
    ASSUME IInv, Wakes, AllSound, Aware, NEW p \in Proc,
           GetblkMiss(p) \/ NewbufSleep(p) \/ ReadDone(p) \/ ReadSleep(p) \/ FlushDone(p)
    PROVE  Aware'
<1>1. buf' = buf /\ proc[p] \in Process /\ \A x \in Buf : Steady(x)
  BY TypeFacts DEF GetblkMiss, NewbufSleep, ReadDone, ReadSleep, FlushDone, Steady
<1>2. ASSUME NEW q \in Process, proc' = [proc EXCEPT ![p] = q], q.blk = proc[p].blk,
             q.first = proc[p].first, q.at \notin {"got", "ahead"}
      PROVE  Names(p)' /\ proc'[p] = q
  <2>1. proc'[p] = q
    BY <1>2, TypeFacts
  <2>2. CASE proc[p].first = None
    BY <1>2, <2>1, <2>2 DEF Names
  <2>3. CASE proc[p].first # None
    BY <1>1, <1>2, <2>1, <2>3, NamesStay
  <2> QED
    BY <2>1, <2>2, <2>3
<1>3. CASE GetblkMiss(p)
  <2> DEFINE q == [proc[p] EXCEPT !.at = "newbuf"]
  <2>1. /\ proc' = [proc EXCEPT ![p] = q] /\ q \in Process /\ q.blk = proc[p].blk
        /\ q.first = proc[p].first /\ q.at = "newbuf" /\ q.chan = None
    BY <1>1, <1>3 DEF GetblkMiss, Runs, Goes, Process
  <2> HIDE DEF q
  <2>2. Names(p)' /\ Awaits(p)'
    BY <1>2, <2>1, AwakeAware
  <2> QED
    BY <1>1, <2>1, <2>2, KeepsAware
<1>4. CASE NewbufSleep(p)
  <2> DEFINE q == [proc[p] EXCEPT !.at = "newbuf", !.chan = Free]
  <2>1. /\ proc' = [proc EXCEPT ![p] = q] /\ q \in Process /\ q.blk = proc[p].blk
        /\ q.first = proc[p].first /\ q.at = "newbuf" /\ q.chan = Free
    BY <1>1, <1>4 DEF NewbufSleep, Sleeps, Process
  <2> HIDE DEF q
  <2>2. Names(p)' /\ proc'[p] = q
    BY <1>2, <2>1
  <2>3. Awaits(p)'
    BY <2>1, <2>2 DEF Awaits
  <2> QED
    BY <1>1, <2>1, <2>2, <2>3, KeepsAware
<1>5. CASE ReadDone(p)
  <2> DEFINE q == [proc[p] EXCEPT !.at = "hold"]
  <2>1. /\ proc' = [proc EXCEPT ![p] = q] /\ q \in Process /\ q.blk = proc[p].blk
        /\ q.first = proc[p].first /\ q.at = "hold" /\ q.chan = None
    BY <1>1, <1>5 DEF ReadDone, Runs, Process
  <2> HIDE DEF q
  <2>2. Names(p)' /\ Awaits(p)'
    BY <1>2, <2>1, AwakeAware
  <2> QED
    BY <1>1, <2>1, <2>2, KeepsAware
<1>6. CASE ReadSleep(p)
  <2> DEFINE b == proc[p].bp
             q == [proc[p] EXCEPT !.at = "read", !.chan = b]
  <2>1. /\ b \in Buf /\ proc[p].at = "read" /\ ~buf[b].done
    BY <1>6, NamesAt DEF ReadSleep, Runs
  <2>2. buf[b].io # "none"
    BY <2>1 DEF Wakes, Expects, Going
  <2>3. /\ proc' = [proc EXCEPT ![p] = q] /\ q \in Process /\ q.blk = proc[p].blk
        /\ q.first = proc[p].first /\ q.at = "read" /\ q.chan = b
    BY <1>1, <1>6, <2>1 DEF ReadSleep, Sleeps, Process
  <2> HIDE DEF q
  <2>4. Names(p)' /\ proc'[p] = q
    BY <1>2, <2>3
  <2>5. Awaits(p)'
    BY <1>1, <2>1, <2>2, <2>3, <2>4 DEF Awaits
  <2> QED
    BY <1>1, <2>3, <2>4, <2>5, KeepsAware
<1>7. CASE FlushDone(p)
  <2>1. proc' = [proc EXCEPT ![p] = Idle] /\ proc'[p] = Idle
    BY <1>7, TypeFacts DEF FlushDone
  <2>2. Names(p)' /\ Awaits(p)'
    BY <2>1, ConstantAssumption DEF Names, Awaits, Idle
  <2> QED
    BY <1>1, <2>1, <2>2, KeepsAware
<1> QED
  BY <1>3, <1>4, <1>5, <1>6, <1>7

LEMMA BeginAware ==
    ASSUME IInv, Wakes, Aware, NEW p \in Proc, NEW op, NEW k, Begin(p, op, k)
    PROVE  Aware'
<1> DEFINE at == CASE op = "geteblk" -> "newbuf"
                   [] op = "blkflush" -> "flush"
                   [] op = "breada" /\ Incore(k) -> "ahead"
                   [] OTHER -> "getblk"
           q == [Idle EXCEPT !.op = op, !.blk = k, !.at = at]
<1>1. proc' = [proc EXCEPT ![p] = q] /\ buf' = buf
  BY DEF Begin, Goes
<1>2. at # "got"
  OBVIOUS
<1> HIDE DEF at
<1>3. q.at = at /\ q.bp = None /\ q.first = None /\ q.chan = None
  BY DEF Idle
<1>4. proc'[p] = q
  BY <1>1, TypeFacts
<1> HIDE DEF q
<1>5. Names(p)' /\ Awaits(p)'
  BY <1>2, <1>3, <1>4 DEF Names, Awaits
<1> QED
  BY <1>1, <1>5, KeepsAware

LEMMA AheadAware ==
    ASSUME IInv, Wakes, AllSound, Aware, NEW p \in Proc, ReadAhead(p) \/ Last(p)
    PROVE  Aware'
<1>1. proc[p] \in Process /\ proc[p].chan = None /\ Names(p) /\ buf' = buf
  BY TypeFacts DEF ReadAhead, Last, Runs, Aware
<1>2. CASE ReadAhead(p)
  <2> DEFINE k  == Ahead[proc[p].blk]
             at == IF Incore(k) THEN "last" ELSE "getblk"
             ra == ~Incore(k)
             q  == [proc[p] EXCEPT !.at = at, !.ra = ra, !.first = proc[p].bp, !.bp = None]
  <2>1. proc' = [proc EXCEPT ![p] = q] /\ proc[p].at = "ahead" /\ at \in {"last", "getblk"}
    BY <1>2 DEF ReadAhead, Goes, Runs
  <2> HIDE DEF at, ra
  <2>2. q.at = at /\ q.first = proc[p].bp /\ q.blk = proc[p].blk /\ q.chan = None
    BY <1>1 DEF Process
  <2> HIDE DEF q
  <2>3. proc'[p] = q
    BY <2>1, TypeFacts
  <2>4. Names(p)' /\ Awaits(p)'
    BY <1>1, <2>1, <2>2, <2>3 DEF Names, Awaits, Maps
  <2> QED
    BY <1>1, <2>1, <2>4, KeepsAware
<1>3. CASE Last(p)
  <2> DEFINE s  == [proc[p] EXCEPT !.first = None, !.bp = proc[p].first, !.op = "bread"]
             at == IF s.bp = None THEN "getblk" ELSE "read"
             q  == [s EXCEPT !.at = at]
  <2>1. proc' = [proc EXCEPT ![p] = q] /\ at \in {"read", "getblk"}
    BY <1>3 DEF Last, Goes
  <2>2. s.first = None /\ s.chan = None
    BY <1>1 DEF Process
  <2> HIDE DEF at
  <2>3. q.at = at /\ q.first = None /\ q.chan = None
    BY <1>1, <2>2 DEF Process
  <2> HIDE DEF q
  <2>4. proc'[p] = q
    BY <2>1, TypeFacts
  <2>5. Names(p)' /\ Awaits(p)'
    BY <2>1, <2>3, <2>4 DEF Names, Awaits
  <2> QED
    BY <1>1, <2>1, <2>5, KeepsAware
<1> QED
  BY <1>2, <1>3
-----------------------------------------------------------------------------
(* The steps that change one buffer. *)

LEMMA OneSteady ==
    ASSUME IInv, NEW b \in Buf, NEW r, buf' = [buf EXCEPT ![b] = r]
    PROVE  /\ buf'[b] = r /\ \A x \in Buf \ {b} : Steady(x)
           /\ ~buf[b].busy => Steady(b)
           /\ /\ r.blk = buf[b].blk /\ (buf[b].len => r.len)
              /\ buf[b].io # "none" => r.io # "none"
              => Steady(b)
<1>1. buf'[b] = r /\ \A x \in Buf \ {b} : buf'[x] = buf[x]
  BY TypeFacts
<1> QED
  BY <1>1 DEF Steady

LEMMA HitAware ==
    ASSUME IInv, Wakes, Aware, NEW p \in Proc, GetblkHit(p) PROVE Aware'
<1>1. PICK b \in Buf : /\ Maps(b, Target(p)) /\ ~buf[b].busy
                       /\ buf' = [buf EXCEPT ![b].busy = TRUE]
                       /\ Goes(p, [proc[p] EXCEPT !.bp = b, !.at = "got"])
  BY DEF GetblkHit
<1> DEFINE q == [proc[p] EXCEPT !.bp = b, !.at = "got"]
           r == [buf[b] EXCEPT !.busy = TRUE]
<1>2. proc' = [proc EXCEPT ![p] = q] /\ buf' = [buf EXCEPT ![b] = r]
  BY <1>1 DEF Goes
<1>3. /\ q.at = "got" /\ q.bp = b /\ q.blk = proc[p].blk /\ q.ra = proc[p].ra
      /\ q.first = proc[p].first /\ q.chan = None
  BY TypeFacts DEF GetblkHit, Runs, Process
<1>4. r.blk = buf[b].blk
  BY TypeFacts DEF Buffer
<1> HIDE DEF q, r
<1>5. proc'[p] = q /\ buf'[b] = r /\ \A x \in Buf : Steady(x)
  BY <1>1, <1>2, TypeFacts, OneSteady
<1>6. Target(p)' = Target(p)
  BY <1>3, <1>5 DEF Target
<1>7. proc[p].first # None => /\ Maps(proc[p].first, proc[p].blk)
                              /\ buf'[proc[p].first].blk = buf[proc[p].first].blk
  <2>1. proc[p].first # None => proc[p].first \in Has(p)
    BY DEF Has
  <2> QED
    BY <1>5, <2>1, HasBusy DEF Aware, Names, Steady
<1>8. Names(p)' /\ Awaits(p)'
  BY <1>1, <1>3, <1>4, <1>5, <1>6, <1>7 DEF Names, Awaits, Maps
<1> QED
  BY <1>2, <1>5, <1>8, GoesAware

(* p goes to at with the same first buffer or none, after a step that takes from *)
(* nobody.                                                                       *)
LEMMA OnAware ==
    ASSUME IInv, Wakes, Aware, NEW p \in Proc, NEW q, proc' = [proc EXCEPT ![p] = q],
           \A x \in Buf : Steady(x), q.blk = proc[p].blk, q.first \in {proc[p].first, None},
           q.at \notin {"got", "ahead"}, Awaits(p)'
    PROVE  Aware'
<1>1. proc'[p] = q
  BY TypeFacts
<1>2. CASE proc[p].first = None
  <2>1. Names(p)'
    BY <1>1, <1>2 DEF Names
  <2> QED
    BY <2>1, GoesAware
<1>3. CASE proc[p].first # None
  <2>1. Names(p)'
    BY <1>1, <1>3, NamesStay
  <2> QED
    BY <2>1, GoesAware
<1> QED
  BY <1>2, <1>3

LEMMA NewbufAware ==
    ASSUME IInv, Wakes, Aware, NEW p \in Proc, NewbufWrite(p) \/ NewbufTake(p) PROVE Aware'
<1>1. proc[p] \in Process /\ proc[p].at = "newbuf" /\ proc[p].chan = None
  BY TypeFacts DEF NewbufWrite, NewbufTake, Runs
<1>2. CASE NewbufWrite(p)
  <2>1. PICK b \in Buf : ~buf[b].busy /\ buf' = [buf EXCEPT ![b] = Async(Writing(@))]
    BY <1>2 DEF NewbufWrite
  <2>2. \A x \in Buf : Steady(x)
    BY <2>1, OneSteady
  <2>3. proc' = [proc EXCEPT ![p] = proc[p]]
    BY <1>2 DEF NewbufWrite, Goes
  <2>4. Awaits(p)'
    BY <1>1, <2>3, TypeFacts, AwakeAware
  <2> QED
    BY <1>1, <2>2, <2>3, <2>4, OnAware
<1>3. CASE NewbufTake(p)
  <2>1. PICK b \in Buf : /\ Takable(b)
                         /\ IF proc[p].op = "geteblk"
                            THEN /\ buf' = [buf EXCEPT ![b] = [Empty EXCEPT !.busy = TRUE,
                                                                            !.len = TRUE]]
                                 /\ proc' = [proc EXCEPT ![p].bp = b, ![p].at = "hold"]
                            ELSE /\ buf' = [buf EXCEPT ![b] = [Empty EXCEPT !.busy = TRUE,
                                                                            !.blk = Target(p)]]
                                 /\ proc' = [proc EXCEPT ![p] = [proc[p] EXCEPT !.bp = b,
                                                                        !.at = "realloc"]]
    BY <1>3 DEF NewbufTake, Goes
  <2> DEFINE at == IF proc[p].op = "geteblk" THEN "hold" ELSE "realloc"
             q == [proc[p] EXCEPT !.bp = b, !.at = at]
  <2>2. \A x \in Buf : Steady(x)
    BY <2>1, OneSteady DEF Takable
  <2>3. proc' = [proc EXCEPT ![p] = q] /\ at \in {"hold", "realloc"}
    BY <2>1
  <2> HIDE DEF at
  <2>4. q.at = at /\ q.blk = proc[p].blk /\ q.first = proc[p].first /\ q.chan = None
    BY <1>1 DEF Process
  <2> HIDE DEF q
  <2>5. Awaits(p)'
    BY <2>3, <2>4, TypeFacts, AwakeAware
  <2> QED
    BY <2>2, <2>3, <2>4, <2>5, OnAware
<1> QED
  BY <1>2, <1>3

LEMMA WritesAware ==
    ASSUME IInv, Wakes, Aware, NEW p \in Proc, ReallocWrite(p) \/ FlushWrite(p) PROVE Aware'
<1> DEFINE at == IF proc[p].at = "realloc" THEN "drop" ELSE "flushing"
<1>1. /\ proc[p] \in Process /\ proc[p].at \in {"realloc", "flush"}
      /\ \E b \in Buf : /\ ~buf[b].busy /\ buf' = [buf EXCEPT ![b] = Writing(@)]
                        /\ proc' = [proc EXCEPT ![p].at = at, ![p].ep = b, ![p].chan = b]
  BY TypeFacts DEF ReallocWrite, FlushWrite, Runs
<1>2. PICK b \in Buf : /\ ~buf[b].busy /\ buf' = [buf EXCEPT ![b] = Writing(buf[b])]
                       /\ proc' = [proc EXCEPT ![p].at = at, ![p].ep = b, ![p].chan = b]
  BY <1>1
<1> DEFINE q == [proc[p] EXCEPT !.at = at, !.ep = b, !.chan = b]
<1>3. proc' = [proc EXCEPT ![p] = q] /\ at \in {"drop", "flushing"}
  BY <1>2
<1> HIDE DEF at
<1>4. q.at = at /\ q.blk = proc[p].blk /\ q.first = proc[p].first /\ q.chan = b
  BY <1>1 DEF Process
<1> HIDE DEF q
<1>5. \A x \in Buf : Steady(x)
  BY <1>2, OneSteady
<1>6. buf'[b].io = "write" /\ proc'[p] = q
  BY <1>2, <1>3, TypeFacts DEF Writing, Buffer
<1>7. Awaits(p)'
  BY <1>3, <1>4, <1>6 DEF Awaits
<1> QED
  BY <1>3, <1>4, <1>5, <1>7, OnAware

LEMMA ReallocDoneAware ==
    ASSUME IInv, Wakes, Aware, NEW p \in Proc, ReallocDone(p) PROVE Aware'
<1> DEFINE b == proc[p].bp
           q == [proc[p] EXCEPT !.at = "got"]
           r == [buf[b] EXCEPT !.len = TRUE]
<1>1. /\ proc[p] \in Process /\ proc[p].at = "realloc" /\ proc[p].chan = None
      /\ proc' = [proc EXCEPT ![p] = q] /\ buf' = [buf EXCEPT ![b] = r]
  BY TypeFacts DEF ReallocDone, Runs, Goes
<1>2. b \in Buf /\ Maps(b, Target(p)) /\ buf[b] \in Buffer
  BY <1>1, TypeFacts DEF Mine, Maps
<1>3. q.at = "got" /\ q.bp = b /\ q.blk = proc[p].blk /\ q.ra = proc[p].ra
      /\ q.first = proc[p].first /\ q.chan = None
  BY <1>1 DEF Process
<1>4. r.blk = buf[b].blk /\ r.len /\ r.io = buf[b].io
  BY <1>2 DEF Buffer
<1> HIDE DEF q, r
<1>5. proc'[p] = q /\ buf'[b] = r /\ \A x \in Buf : Steady(x)
  <2>1. buf'[b] = r /\ \A x \in Buf \ {b} : Steady(x)
    BY <1>1, <1>2, OneSteady
  <2>2. Steady(b)
    BY <1>4, <2>1 DEF Steady
  <2> QED
    BY <1>1, <2>1, <2>2, TypeFacts
<1>6. Target(p)' = Target(p)
  BY <1>3, <1>5 DEF Target
<1>7. proc[p].first # None => /\ Maps(proc[p].first, proc[p].blk)
                              /\ buf'[proc[p].first].blk = buf[proc[p].first].blk
  <2>1. proc[p].first # None => proc[p].first \in Has(p)
    BY DEF Has
  <2> QED
    BY <1>5, <2>1, HasBusy DEF Aware, Names, Steady
<1>8. Names(p)' /\ Awaits(p)'
  BY <1>2, <1>3, <1>4, <1>5, <1>6, <1>7 DEF Names, Awaits, Maps
<1> QED
  BY <1>1, <1>5, <1>8, GoesAware

LEMMA GotAware ==
    ASSUME IInv, Wakes, Aware, NEW p \in Proc, Got(p) PROVE Aware'
<1> DEFINE b  == proc[p].bp
           r  == IF buf[b].done \/ proc[p].op = "getblk" THEN buf[b] ELSE Reading(buf[b])
           at == IF proc[p].op = "breada" THEN "ahead"
                 ELSE IF buf[b].done \/ proc[p].op = "getblk" THEN "hold" ELSE "read"
           c  == IF proc[p].op = "breada" \/ buf[b].done \/ proc[p].op = "getblk"
                 THEN None ELSE b
           q  == [proc[p] EXCEPT !.at = at, !.chan = c]
<1>1. /\ proc[p] \in Process /\ proc[p].at = "got" /\ proc[p].chan = None /\ ~proc[p].ra
      /\ buf' = [buf EXCEPT ![b] = r]
  BY TypeFacts DEF Got, Runs
<1>2. b \in Buf /\ Maps(b, proc[p].blk) /\ buf[b] \in Buffer /\ Names(p)
  BY <1>1, TypeFacts DEF Mine, Aware, Names, Target
<1>3. proc' = [proc EXCEPT ![p] = q]
  <2>1. CASE proc[p].op = "breada"
    <3>1. proc' = [proc EXCEPT ![p] = [proc[p] EXCEPT !.at = "ahead"]]
      BY <2>1 DEF Got, Goes
    <3>2. q = [proc[p] EXCEPT !.at = "ahead"]
      BY <1>1, <2>1 DEF Process
    <3> QED
      BY <3>1, <3>2
  <2>2. CASE proc[p].op # "breada"
    BY <2>2 DEF Got
  <2> QED
    BY <2>1, <2>2
<1>4. /\ r.blk = buf[b].blk /\ r.len = buf[b].len /\ (buf[b].io # "none" => r.io # "none")
      /\ c # None => r.io # "none" /\ at = "read" /\ c = b
  BY <1>2 DEF Buffer, Reading
<1>5. at \in {"ahead", "hold", "read"}
  OBVIOUS
<1> HIDE DEF at, c, r
<1>6. q.at = at /\ q.bp = b /\ q.blk = proc[p].blk /\ q.first = proc[p].first /\ q.chan = c
  BY <1>1 DEF Process
<1> HIDE DEF q
<1>7. proc'[p] = q /\ buf'[b] = r /\ \A x \in Buf : Steady(x)
  BY <1>1, <1>2, <1>3, <1>4, TypeFacts, OneSteady
<1>8. Awaits(p)'
  BY <1>2, <1>4, <1>6, <1>7 DEF Awaits
<1>9. proc[p].first # None => /\ Maps(proc[p].first, proc[p].blk)
                              /\ buf'[proc[p].first].blk = buf[proc[p].first].blk
  <2>1. proc[p].first # None => proc[p].first \in Has(p)
    BY DEF Has
  <2> QED
    BY <1>2, <1>7, <2>1, HasBusy DEF Names, Steady
<1>10. Names(p)'
  BY <1>2, <1>4, <1>5, <1>6, <1>7, <1>9 DEF Names, Maps
<1> QED
  BY <1>3, <1>7, <1>8, <1>10, GoesAware
-----------------------------------------------------------------------------
(* The steps of a process that gives a buffer back, or leaves it to the driver. *)

(* b, which was p's or free, is given back, and p goes on as q. *)
LEMMA BackAware ==
    ASSUME IInv, Wakes, Aware, NEW p \in Proc, NEW b \in Buf, NEW r, NEW q,
           Brelse(p, b, r, q), b \in Has(p) \/ ~buf[b].busy, q.chan = None,
           \/ q.first = None
           \/ q.blk = proc[p].blk /\ q.first = proc[p].first /\ b # proc[p].first,
           q.at \notin {"got", "ahead"}
    PROVE  Aware'
<1>1. /\ buf' = [buf EXCEPT ![b] = Freed(r)]
      /\ proc' = [x \in Proc |-> IF x = p THEN q ELSE Woken(proc[x], b)]
  BY DEF Brelse
<1>2. proc'[p] = q /\ \A x \in Buf \ {b} : Steady(x)
  BY <1>1, OneSteady
<1>3. Awaits(p)'
  BY <1>2, AwakeAware
<1>4. Names(p)'
  <2>1. CASE q.first = None
    BY <1>2, <2>1 DEF Names
  <2>2. CASE q.first # None
    BY <1>2, <2>2, NamesStay
  <2> QED
    BY <2>1, <2>2
<1> QED
  BY <1>1, <1>2, <1>3, <1>4, GivesAware

LEMMA GivenAware ==
    ASSUME IInv, Wakes, AllSound, Aware, NEW p \in Proc,
           \/ Release(p) \/ Emptied(p) \/ WriteDone(p)
           \/ Dropped(p) \/ Flushed(p) \/ ReallocInval(p)
    PROVE  Aware'
<1>1. proc[p] \in Process /\ Mine(p)
  BY TypeFacts
<1>2. CASE Release(p) \/ Emptied(p) \/ WriteDone(p)
  <2>1. PICK r : proc[p].at \in {"hold", "write"} /\ Brelse(p, proc[p].bp, r, Idle)
    BY <1>2 DEF Release, Emptied, WriteDone, Runs
  <2>2. proc[p].bp \in Has(p) /\ proc[p].bp \in Buf
    BY <2>1, NamesAt
  <2>3. Idle.chan = None /\ Idle.first = None /\ Idle.at = "idle"
    BY DEF Idle
  <2> QED
    BY <2>1, <2>2, <2>3, BackAware
<1>3. CASE Dropped(p) \/ Flushed(p)
  <2> DEFINE b  == proc[p].ep
             at == IF proc[p].at = "drop" THEN "realloc" ELSE "flush"
             q  == [proc[p] EXCEPT !.at = at, !.ep = None]
  <2>1. /\ proc[p].at \in {"drop", "flushing"} /\ proc[p].chan = None
        /\ Brelse(p, b, buf[b], q)
    BY <1>3 DEF Dropped, Flushed, Runs
  <2>2. at \in {"realloc", "flush"}
    OBVIOUS
  <2>3. q.at = at /\ q.chan = None /\ q.blk = proc[p].blk /\ q.first = proc[p].first
    BY <1>1, <2>1 DEF Process
  <2> HIDE DEF q
  <2>4. b \in Has(p) /\ b \in Buf /\ b # proc[p].first
    BY <1>1, <2>1, NamesAt, ConstantAssumption DEF Has, Mine
  <2> QED
    BY <2>1, <2>2, <2>3, <2>4, BackAware
<1>4. CASE ReallocInval(p)
  <2>1. PICK b \in Buf : ~buf[b].busy /\ Brelse(p, b, [buf[b] EXCEPT !.blk = None], proc[p])
    BY <1>4 DEF ReallocInval
  <2>2. proc[p].at = "realloc" /\ proc[p].chan = None
    BY <1>4 DEF ReallocInval, Runs
  <2>3. b # proc[p].first
    BY <2>1, HasBusy, ConstantAssumption DEF Has
  <2> QED
    BY <2>1, <2>2, <2>3, BackAware
<1> QED
  BY <1>2, <1>3, <1>4

LEMMA GotAheadAware ==
    ASSUME IInv, Wakes, AllSound, Aware, NEW p \in Proc, GotAhead(p) PROVE Aware'
<1> DEFINE b == proc[p].bp
           q == [proc[p] EXCEPT !.at = "last", !.ra = FALSE, !.bp = None]
<1>1. proc[p] \in Process /\ proc[p].at = "got" /\ proc[p].chan = None
  BY TypeFacts DEF GotAhead, Runs
<1>2. b \in Has(p) /\ b \in Buf /\ b # proc[p].first
  BY <1>1, NamesAt, ConstantAssumption DEF Mine
<1>3. q.at = "last" /\ q.chan = None /\ q.blk = proc[p].blk /\ q.first = proc[p].first
  BY <1>1 DEF Process
<1>4. CASE buf[b].done
  <2>1. Brelse(p, b, buf[b], q)
    BY <1>4 DEF GotAhead
  <2> HIDE DEF q
  <2> QED
    BY <1>2, <1>3, <2>1, BackAware
<1>5. CASE ~buf[b].done
  <2>1. buf' = [buf EXCEPT ![b] = Async(Reading(buf[b]))] /\ proc' = [proc EXCEPT ![p] = q]
    BY <1>5 DEF GotAhead, Goes
  <2>2. buf[b] \in Buffer
    BY <1>2, TypeFacts
  <2>3. /\ Async(Reading(buf[b])).blk = buf[b].blk /\ Async(Reading(buf[b])).len = buf[b].len
        /\ Async(Reading(buf[b])).io = "read"
    BY <2>2 DEF Buffer, Async, Reading
  <2> HIDE DEF q
  <2>4. \A x \in Buf : Steady(x)
    BY <1>2, <2>1, <2>3, OneSteady
  <2>5. Awaits(p)'
    BY <1>3, <2>1, TypeFacts, AwakeAware
  <2> QED
    BY <1>3, <2>1, <2>4, <2>5, OnAware
<1> QED
  BY <1>4, <1>5

(* What a process that has written on its buffer does to the buffers. *)
LEMMA WrittenSteady ==
    ASSUME IInv, NEW b \in Buf, buf[b].blk \in Block, NEW r,
           buf' = [Written(b) EXCEPT ![b] = r]
    PROVE  buf'[b] = r /\ \A x \in Buf \ {b} : Steady(x)
<1> DEFINE w == Written(b)
<1>1. /\ w \in [Buf -> Buffer]
      /\ \A x \in Buf : /\ w[x].blk = buf[x].blk /\ w[x].len = buf[x].len
                        /\ w[x].io = buf[x].io
  BY WrittenBuf
<1>2. buf' = [w EXCEPT ![b] = r]
  OBVIOUS
<1> HIDE DEF w
<1>3. buf'[b] = r /\ \A x \in Buf \ {b} : buf'[x] = w[x]
  BY <1>1, <1>2
<1> QED
  BY <1>1, <1>3 DEF Steady

LEMMA WritersAware ==
    ASSUME IInv, Wakes, AllSound, Aware, NEW p \in Proc, Bwrite(p) \/ Bawrite(p) \/ Bdwrite(p)
    PROVE  Aware'
<1> DEFINE b == proc[p].bp
<1>1. Writes(p)
  BY DEF Bwrite, Bawrite, Bdwrite
<1>2. /\ b \in Buf /\ b \in Has(p) /\ proc[p].at = "hold" /\ buf[b].blk \in Block
      /\ proc[p] \in Process
  BY <1>1, WriterHas, TypeFacts
<1>3. Idle.chan = None /\ Idle.first = None /\ Idle.at = "idle"
  BY DEF Idle
<1>4. Written(b) \in [Buf -> Buffer] /\ Written(b)[b].blk = buf[b].blk
      /\ Written(b)[b].len = buf[b].len
  BY <1>2, WrittenBuf
<1> DEFINE w == Written(b)[b]
<1>5. w \in Buffer
  BY <1>2, <1>4
<1>6. CASE Bwrite(p) \/ Bawrite(p)
  <2> DEFINE r == IF Bwrite(p) THEN Writing(w) ELSE Async(Writing(w))
             q == IF Bwrite(p) THEN [proc[p] EXCEPT !.at = "write", !.chan = b] ELSE Idle
  <2>1. buf' = [Written(b) EXCEPT ![b] = r] /\ proc' = [proc EXCEPT ![p] = q]
    <3>1. CASE Bwrite(p)
      BY <3>1 DEF Bwrite, Sleeps
    <3>2. CASE ~Bwrite(p)
      BY <1>6, <3>2 DEF Bawrite
    <3> QED
      BY <3>1, <3>2
  <2>2. r.blk = buf[b].blk /\ r.len = buf[b].len /\ r.io = "write"
    <3> HIDE DEF w
    <3>1. r \in {Writing(w), Async(Writing(w))}
      OBVIOUS
    <3>2. Writing(w) \in Buffer /\ Writing(w).blk = w.blk /\ Writing(w).len = w.len
          /\ Writing(w).io = "write"
      BY <1>5, WritingRec DEF Writing, Buffer
    <3> HIDE DEF r
    <3> QED
      BY <1>4, <3>1, <3>2, AsyncRec DEF w
  <2>3. /\ q.at \in {"write", "idle"} /\ q.chan \in {b, None}
        /\ q.first \in {proc[p].first, None}
        /\ q.chan = b => q.at = "write"
        /\ q.first = None \/ q.blk = proc[p].blk
    <3> DEFINE s == [proc[p] EXCEPT !.at = "write", !.chan = b]
    <3>1. s.at = "write" /\ s.chan = b /\ s.first = proc[p].first /\ s.blk = proc[p].blk
      BY <1>2 DEF Process
    <3>2. q = s \/ q = Idle
      OBVIOUS
    <3>3. b # None
      BY <1>2, ConstantAssumption
    <3> HIDE DEF s, q
    <3> QED
      BY <1>3, <3>1, <3>2, <3>3
  <2> HIDE DEF q, r
  <2>4. buf'[b] = r /\ \A x \in Buf \ {b} : Steady(x)
    BY <1>2, <2>1, WrittenSteady
  <2>5. \A x \in Buf : Steady(x)
    BY <2>2, <2>4 DEF Steady
  <2>6. proc'[p] = q
    BY <2>1, TypeFacts
  <2>7. Awaits(p)'
    BY <1>2, <2>2, <2>3, <2>4, <2>6 DEF Awaits
  <2>8. Names(p)'
    <3>1. proc[p].first = None
      BY <1>2, NamesAt
    <3> QED
      BY <2>3, <2>6, <3>1 DEF Names
  <2> QED
    BY <2>1, <2>5, <2>7, <2>8, GoesAware
<1>7. CASE Bdwrite(p)
  <2>1. PICK r : buf' = [Written(b) EXCEPT ![b] = r]
    BY <1>7 DEF Bdwrite
  <2>2. proc' = [x \in Proc |-> IF x = p THEN Idle ELSE Woken(proc[x], b)]
    BY <1>7 DEF Bdwrite
  <2>3. \A x \in Buf \ {b} : Steady(x)
    BY <1>2, <2>1, WrittenSteady
  <2>4. proc'[p] = Idle
    BY <2>2
  <2>5. Awaits(p)' /\ Names(p)'
    BY <1>3, <2>4 DEF Awaits, Names
  <2> QED
    BY <1>2, <2>2, <2>3, <2>5, GivesAware
<1> QED
  BY <1>6, <1>7, <1>1

-----------------------------------------------------------------------------
(* The steps of no process. *)

LEMMA OutsideAware ==
    ASSUME IInv, Wakes, Aware, Bflush \/ Close \/ UNCHANGED vars PROVE Aware'
<1>1. proc' = proc
  BY DEF Bflush, Close, vars
<1> SUFFICES ASSUME NEW q \in Proc PROVE Awaits(q)' /\ Names(q)'
  BY DEF Aware
<1>2. SameBut(q) /\ proc'[q].chan = proc[q].chan
  BY <1>1 DEF SameBut
<1>3. CASE Bflush \/ UNCHANGED vars
  <2>1. \A x \in Buf : buf[x].busy => buf'[x] = buf[x]
    BY <1>3 DEF Bflush, Started, vars
  <2>2. \A x \in Has(q) : buf'[x].blk = buf[x].blk
    BY <2>1, HasBusy
  <2>3. \A x \in Buf : Steady(x)
    BY <2>1 DEF Steady
  <2> QED
    BY <1>2, <2>2, <2>3, OtherAware
<1>4. CASE Close
  <2>1. proc[q].at = "idle"
    BY <1>4 DEF Close
  <2>2. Has(q) = {} /\ proc[q].chan = None
    BY <2>1, TypeFacts DEF Mine, Wakes, Dozes
  <2> QED
    BY <1>2, <2>2, OtherAware, ConstantAssumption
<1> QED
  BY <1>3, <1>4

LEMMA BiodoneAware ==
    ASSUME IInv, Wakes, Aware, NEW b \in Buf, Biodone(b) PROVE Aware'
<1>1. buf[b] \in Buffer /\ buf[b].io # "none"
  BY TypeFacts DEF Biodone
<1>2. PICK error \in BOOLEAN, cur \in SUBSET Sector :
          IF buf[b].async
          THEN /\ buf' = [buf EXCEPT ![b] = Freed(Ended(b, error, cur))]
               /\ proc' = [q \in Proc |-> Woken(proc[q], b)]
          ELSE /\ buf' = [buf EXCEPT ![b] = [Ended(b, error, cur) EXCEPT !.wanted = FALSE]]
               /\ proc' = [q \in Proc |-> IF proc[q].chan # b THEN proc[q]
                                          ELSE [proc[q] EXCEPT !.chan = None]]
  BY BiodoneFacts
<1> DEFINE r == Ended(b, error, cur)
           s == IF buf[b].async THEN Freed(r) ELSE [r EXCEPT !.wanted = FALSE]
<1>3. /\ buf' = [buf EXCEPT ![b] = s]
      /\ ~buf[b].async => s.blk = buf[b].blk
  <2>1. r \in Buffer /\ r.blk = buf[b].blk
    BY <1>1 DEF Buffer, Ended
  <2>2. [r EXCEPT !.wanted = FALSE].blk = r.blk
    BY <2>1, WantedRec
  <2>3. buf' = [buf EXCEPT ![b] = s]
    BY <1>2
  <2> QED
    BY <2>1, <2>2, <2>3
<1>4. IF buf[b].async THEN proc' = [q \in Proc |-> Woken(proc[q], b)]
      ELSE proc' = [q \in Proc |-> IF proc[q].chan # b THEN proc[q]
                                   ELSE [proc[q] EXCEPT !.chan = None]]
  BY <1>2
<1> HIDE DEF r, s
<1>5. buf'[b] = s /\ \A x \in Buf \ {b} : Steady(x)
  BY <1>3, OneSteady
<1> SUFFICES ASSUME NEW q \in Proc PROVE Awaits(q)' /\ Names(q)'
  BY DEF Aware
<1>6. proc[q] \in Process
  BY TypeFacts
<1>7. \A x \in Has(q) : buf'[x].blk = buf[x].blk
  <2> SUFFICES ASSUME NEW x \in Has(q) PROVE buf'[x].blk = buf[x].blk
    OBVIOUS
  <2>1. x \in Buf /\ buf[x].busy /\ ~buf[x].async
    BY HasBusy
  <2> QED
    BY <1>3, <1>5, <2>1 DEF Steady
<1>8. CASE buf[b].async
  <2>1. proc'[q] = Woken(proc[q], b) /\ b \notin Has(q)
    BY <1>4, <1>8, HasBusy
  <2>2. SameBut(q) /\ proc'[q].chan \in {proc[q].chan, None}
    BY <1>6, <2>1, WokenRec DEF SameBut, Woken, Process
  <2>3. proc[q].chan = b => proc'[q].chan = None
    BY <1>6, <2>1 DEF Woken, Process, Wakes, Dozes
  <2> QED
    BY <1>5, <1>7, <2>2, <2>3, OtherAware
<1>9. CASE ~buf[b].async
  <2>1. proc'[q] = IF proc[q].chan # b THEN proc[q] ELSE [proc[q] EXCEPT !.chan = None]
    BY <1>4, <1>9
  <2>2. SameBut(q) /\ proc'[q].chan \in {proc[q].chan, None}
    BY <1>6, <2>1 DEF SameBut, Process
  <2>3. proc[q].chan = b => proc'[q].chan = None
    BY <1>6, <2>1 DEF Process
  <2> QED
    BY <1>5, <1>7, <2>2, <2>3, OtherAware
<1> QED
  BY <1>8, <1>9

-----------------------------------------------------------------------------
LEMMA AwareStep == IInv /\ Wakes /\ AllSound /\ Aware /\ [Next]_vars => Aware'
<1> SUFFICES ASSUME IInv, Wakes, AllSound, Aware, [Next]_vars PROVE Aware'
  OBVIOUS
<1>1. ASSUME NEW p \in Proc, Step(p) PROVE Aware'
  BY <1>1, SleepsAware, MovesAware, HitAware, NewbufAware, WritesAware, GivenAware,
     ReallocDoneAware, GotAware, AheadAware, GotAheadAware, WritersAware DEF Step
<1>2. ASSUME NEW p \in Proc, NEW k \in Block \cup {None},
             NEW op \in {"bread", "breada", "getblk", "geteblk", "blkflush"},
             Begin(p, op, k)
      PROVE  Aware'
  BY <1>2, BeginAware
<1>3. ASSUME NEW b \in Buf, Biodone(b) PROVE Aware'
  BY <1>3, BiodoneAware
<1>4. CASE Bflush \/ Close \/ UNCHANGED vars
  BY <1>4, OutsideAware
<1> QED
  BY <1>1, <1>2, <1>3, <1>4 DEF Next

LEMMA InitAware == Init => Aware
<1> SUFFICES ASSUME Init, NEW p \in Proc PROVE Awaits(p) /\ Names(p)
  BY DEF Aware
<1>1. proc[p] = Idle
  BY DEF Init
<1> QED
  BY <1>1 DEF Awaits, Names, Idle

(* If no blocks are read ahead in a circle, and there are two buffers for each   *)
(* process (or one to spare, if nothing is read ahead with what is read ahead),  *)
(* no processes wait only for each other: not getblk and brealloc for buffers of *)
(* those who wait too, nor getnewbuf for any buffer when all are in the hands of *)
(* such.                                                                         *)
THEOREM NeverDeadlocked ==
    ASSUME AheadEnds, EnoughBuffers
    PROVE  Spec => []NoDeadlock
<1>1. Spec => []Aware
  BY InductiveWell, AwareStep, InitAware, PTL DEF Spec
<1>2. IInv /\ Wakes /\ AllSound /\ Aware => NoDeadlock
  BY NobodyStuck
<1> QED
  BY <1>1, <1>2, InductiveWell, PTL
=============================================================================
