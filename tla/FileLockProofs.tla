--------------------------- MODULE FileLockProofs ---------------------------
(***************************************************************************)
(* Proofs about FileLock, for any number of processes, files and locks.    *)
(* The chains of sleepers that deadflck follows end.  What flckadj leaves  *)
(* of a list, however long, is a list of locks that cover something, each  *)
(* of them one that was there or one without sleepers: from that follow    *)
(* the types, that nobody sleeps on a lock that is not in its way, that    *)
(* the identifiers of files are kept, and that no sleepers wait only for   *)
(* one another.  Where at most one process asks for read locks, the walk   *)
(* of flckadj keeps the list in order, and changes the bytes of its own    *)
(* range to its own type and no others: so the lists stay ordered, no two  *)
(* locks conflict, and locking byte by byte (ByteLocks) is implemented.    *)
(***************************************************************************)
EXTENDS FileLock, SequenceTheorems, WellFoundedInduction, FiniteSetTheorems, TLAPS

(* What the sleepers' list says of each process: at most one entry, its own.  *)
OwnEntry ==
    /\ sleeplck = [p \in Proc |-> sleeplck[p]]
    /\ \A p \in Proc : sleeplck[p] # None => sleeplck[p].ld.pid = p

(* The chains of slp end. *)
Ends(slp) ==
    \A S \in SUBSET {p \in Proc : slp[p] # None} : S # {} => \E p \in S : slp[p].blkpid \notin S

(* A process leaves the list. *)
LEMMA LeaveEnds ==
  ASSUME NEW slp, slp = [p \in Proc |-> slp[p]], Ends(slp), NEW x \in Proc
  PROVE  Ends([slp EXCEPT ![x] = None])
<1> DEFINE new == [slp EXCEPT ![x] = None]
<1> SUFFICES ASSUME NEW S \in SUBSET {p \in Proc : new[p] # None}, S # {}
             PROVE  \E p \in S : new[p].blkpid \notin S
  BY DEF Ends
<1>1. \A p \in S : p \in Proc /\ p # x /\ new[p] = slp[p]
  OBVIOUS
<1>2. S \in SUBSET {p \in Proc : slp[p] # None}
  BY <1>1
<1> QED BY <1>1, <1>2 DEF Ends

(* A process that is not on it enters it, blocked by one from which deadflck    *)
(* does not lead back to it.  A set of sleepers blocked only among themselves   *)
(* would hold it and its blocker; the part of the set that the chain of the     *)
(* blocker stays in would have been such a set before.                          *)
LEMMA EnterEnds ==
  ASSUME NEW slp, slp = [p \in Proc |-> slp[p]], Ends(slp), NEW x \in Proc, slp[x] = None,
         NEW e, ~Deadflck(x, e.blkpid, slp)
  PROVE  Ends([slp EXCEPT ![x] = e])
<1> DEFINE new == [slp EXCEPT ![x] = e]
<1> SUFFICES ASSUME NEW S \in SUBSET {p \in Proc : new[p] # None}, S # {},
                    \A p \in S : new[p].blkpid \in S
             PROVE  FALSE
  BY DEF Ends
<1>1. \A p \in S : p \in Proc /\ (p # x => new[p] = slp[p] /\ slp[p] # None)
  OBVIOUS
<1>2. x \in S
  <2>1. SUFFICES ASSUME x \notin S PROVE FALSE
    OBVIOUS
  <2>2. S \in SUBSET {p \in Proc : slp[p] # None} /\ \A p \in S : slp[p].blkpid \in S
    BY <1>1, <2>1
  <2> QED BY <2>2 DEF Ends
<1>3. e.blkpid \in S
  <2>1. new[x] = e
    OBVIOUS
  <2> QED BY <1>2, <2>1
<1>4. PICK U \in SUBSET Proc : /\ e.blkpid \in U /\ x \notin U
                               /\ \A y \in U : slp[y] # None => slp[y].blkpid \in U
  BY DEF Deadflck
<1> DEFINE V == S \cap U
<1>5. V \in SUBSET {p \in Proc : slp[p] # None} /\ V # {}
  BY <1>1, <1>3, <1>4
<1>6. \A p \in V : slp[p].blkpid \in V
  BY <1>1, <1>4
<1> QED BY <1>5, <1>6 DEF Ends

(* A call, with the sleepers it sees, may end or put the caller to sleep. *)
LEMMA AskEnds ==
  ASSUME NEW slp, slp = [p \in Proc |-> slp[p]], Ends(slp),
         \A p \in Proc : slp[p] # None => slp[p].ld.pid = p,
         NEW f, NEW ld, ld.pid \in Proc, slp[ld.pid] = None, NEW setlk, NEW ref,
         Ask(f, ld, setlk, slp, ref)
  PROVE  ChainsEnd' /\ OwnEntry'
<1>1. CASE sleeplck' = slp
  BY <1>1 DEF ChainsEnd, OwnEntry, Ends
<1>2. ASSUME NEW i \in Found(locks[f], ld), ~Deadflck(ld.pid, locks[f][i].pid, slp),
             sleeplck' = [slp EXCEPT ![ld.pid] = [file |-> f, ld |-> ld,
                                                  blkpid |-> locks[f][i].pid]]
      PROVE  ChainsEnd' /\ OwnEntry'
  <2> DEFINE e == [file |-> f, ld |-> ld, blkpid |-> locks[f][i].pid]
  <2>1. e.blkpid = locks[f][i].pid /\ e.ld = ld
    OBVIOUS
  <2> HIDE DEF e
  <2>2. ~Deadflck(ld.pid, e.blkpid, slp)
    BY <1>2, <2>1
  <2>3. Ends([slp EXCEPT ![ld.pid] = e])
    BY <2>2, EnterEnds
  <2>4. sleeplck' = [slp EXCEPT ![ld.pid] = e]
    BY <1>2 DEF e
  <2>5. ChainsEnd'
    BY <2>3, <2>4 DEF ChainsEnd, Ends
  <2>6. OwnEntry'
    BY <2>1, <2>4 DEF OwnEntry
  <2> QED BY <2>5, <2>6
<1> QED BY <1>1, <1>2 DEF Ask, Set

(* deadflck always comes to an end: in no reachable state is there a circle in  *)
(* what the sleepers, and those woken but not yet back, are recorded to be      *)
(* blocked by.                                                                  *)
THEOREM DeadlockChecked == Spec => []ChainsEnd
<1>1. Init => ChainsEnd /\ OwnEntry
  BY DEF Init, ChainsEnd, OwnEntry
<1>2. ChainsEnd /\ OwnEntry /\ [Next]_vars => (ChainsEnd /\ OwnEntry)'
  <2> SUFFICES ASSUME ChainsEnd, OwnEntry, [Next]_vars PROVE (ChainsEnd /\ OwnEntry)'
    OBVIOUS
  <2>1. /\ sleeplck = [p \in Proc |-> sleeplck[p]]
        /\ Ends(sleeplck)
        /\ \A p \in Proc : sleeplck[p] # None => sleeplck[p].ld.pid = p
    BY DEF OwnEntry, ChainsEnd, Ends
  <2>2. ASSUME NEW f \in File, NEW ld \in Ld, SetLock(f, ld) PROVE (ChainsEnd /\ OwnEntry)'
    <3>1. ld.pid \in Proc
      BY DEF Ld
    <3>2. sleeplck[ld.pid] = None /\ Ask(f, ld, TRUE, sleeplck, refcnt[f] + 1)
      BY <2>2 DEF SetLock, Running
    <3> QED BY <2>1, <3>1, <3>2, AskEnds
  <2>3. ASSUME NEW p \in Proc, Resume(p) PROVE (ChainsEnd /\ OwnEntry)'
    <3> DEFINE e   == sleeplck[p]
               slp == [sleeplck EXCEPT ![p] = None]
    <3>1. e.ld.pid = p
      BY <2>1, <2>3 DEF Resume
    <3>2. Ends(slp)
      BY <2>1, LeaveEnds
    <3>3. /\ slp = [x \in Proc |-> slp[x]] /\ slp[p] = None
          /\ \A x \in Proc : slp[x] # None => slp[x].ld.pid = x
      BY <2>1
    <3>4. Ask(e.file, e.ld, FALSE, slp, refcnt[e.file])
      BY <2>3 DEF Resume
    <3> HIDE DEF e, slp
    <3>5. e.ld.pid \in Proc /\ slp[e.ld.pid] = None
      BY <3>1, <3>3
    <3> QED BY <3>2, <3>3, <3>4, <3>5, AskEnds
  <2>4. ASSUME NEW p \in Proc, Interrupt(p) PROVE (ChainsEnd /\ OwnEntry)'
    <3>1. sleeplck' = [sleeplck EXCEPT ![p] = None]
      BY <2>4 DEF Interrupt
    <3>2. Ends([sleeplck EXCEPT ![p] = None])
      BY <2>1, LeaveEnds
    <3> QED BY <2>1, <3>1, <3>2 DEF ChainsEnd, OwnEntry, Ends
  <2>5. CASE sleeplck' = sleeplck
    BY <2>5 DEF ChainsEnd, OwnEntry
  <2>6. ASSUME NEW f \in File, NEW ld \in Ld, Unlock(f, ld) PROVE sleeplck' = sleeplck
    BY <2>6 DEF Unlock, Set
  <2>7. ASSUME NEW p \in Proc, NEW f \in File, Cleanlocks(p, f) PROVE sleeplck' = sleeplck
    BY <2>7 DEF Cleanlocks
  <2> QED BY <2>2, <2>3, <2>4, <2>5, <2>6, <2>7 DEF Next, vars
<1> QED BY <1>1, <1>2, PTL DEF Spec
-----------------------------------------------------------------------------
(* Natural numbers: least and greatest elements, and induction.             *)

Below == {r \in Nat \X Nat : r[1] < r[2]}

LEMMA BelowWF == IsWellFoundedOn(Below, Nat)
<1>1. OpToRel(<, Nat) = Below
  BY DEF OpToRel, Below
<1> QED
  BY <1>1, NatLessThanWellFounded, Zenon

LEMMA Least ==
  ASSUME NEW T \in SUBSET Nat, T # {}
  PROVE  \E x \in T : \A y \in T : x <= y
<1>1. PICK x \in T : \A y \in T : <<y, x>> \notin Below
  BY WFMin, BelowWF
<1>2. ASSUME NEW y \in T PROVE x <= y
  <2>1. x \in Nat /\ y \in Nat
    OBVIOUS
  <2>2. ~ (y < x)
    BY <1>1, <2>1 DEF Below
  <2> QED
    BY <2>1, <2>2
<1> QED
  BY <1>2

(* What 0 is, and with each number the next one is, every number is. *)
LEMMA Induct ==
  ASSUME NEW T, 0 \in T, \A n \in Nat : n \in T => n + 1 \in T
  PROVE  Nat \subseteq T
<1> SUFFICES ASSUME Nat \ T # {} PROVE FALSE
  OBVIOUS
<1>1. PICK x \in Nat \ T : \A y \in Nat \ T : x <= y
  BY Least
<1>2. x # 0 /\ x - 1 \in Nat /\ x - 1 + 1 = x
  OBVIOUS
<1>3. x - 1 \in T
  BY <1>1, <1>2
<1> QED
  BY <1>2, <1>3

LEMMA MinIn ==
  ASSUME NEW S \in SUBSET Nat, S # {}
  PROVE  Min(S) \in S /\ \A y \in S : Min(S) <= y
<1>1. \E x \in S : \A y \in S : x <= y
  BY Least
<1> QED
  BY <1>1 DEF Min

LEMMA MaxIn ==
  ASSUME NEW n \in Nat, NEW S \in SUBSET (0 .. n), S # {}
  PROVE  Max(S) \in S /\ \A y \in S : y <= Max(S)
<1> DEFINE T == {t \in Nat : n - t \in S}
<1>1. T # {}
  <2>1. PICK x \in S : TRUE
    OBVIOUS
  <2>2. n - x \in Nat /\ n - (n - x) = x
    BY <2>1
  <2> QED
    BY <2>2
<1>2. PICK t \in T : \A u \in T : t <= u
  BY <1>1, Least
<1>3. n - t \in S
  BY <1>2
<1>4. ASSUME NEW y \in S PROVE n - t >= y
  <2>1. n - y \in T
    OBVIOUS
  <2> QED
    BY <1>2, <2>1
<1>5. \E x \in S : \A y \in S : x >= y
  BY <1>3, <1>4
<1>6. Max(S) \in S /\ \A y \in S : Max(S) >= y
  BY <1>5 DEF Max
<1> QED
  BY <1>6
-----------------------------------------------------------------------------
(* Lists with a lock more, or one less. *)

LEMMA Inserted ==
  ASSUME NEW S, NEW q \in Seq(S), NEW n \in 0 .. Len(q), NEW e \in S
  PROVE  /\ InsertAt(q, n + 1, e) \in Seq(S) /\ Len(InsertAt(q, n + 1, e)) = Len(q) + 1
         /\ \A j \in 1 .. n : InsertAt(q, n + 1, e)[j] = q[j]
<1> DEFINE u == SubSeq(q, 1, n)
           v == SubSeq(q, n + 1, Len(q))
<1>1. Len(q) \in Nat /\ n \in Int /\ n + 1 \in Int /\ \A i \in 1 .. Len(q) : q[i] \in S
  OBVIOUS
<1>2. u \in Seq(S) /\ Len(u) = n /\ \A j \in 1 .. n : u[j] = q[j]
  <2>1. \A i \in 1 .. n : q[i] \in S
    BY <1>1
  <2> QED
    BY <1>1, <2>1, SubSeqProperties
<1>3. v \in Seq(S) /\ Len(v) = Len(q) - n
  <2>1. \A i \in n + 1 .. Len(q) : q[i] \in S
    BY <1>1
  <2> QED
    BY <1>1, <2>1, SubSeqProperties
<1>4. InsertAt(q, n + 1, e) = u \o <<e>> \o v
  <2>1. InsertAt(q, n + 1, e) = SubSeq(q, 1, (n + 1) - 1) \o <<e>> \o SubSeq(q, n + 1, Len(q))
    BY Zenon DEF InsertAt
  <2>2. (n + 1) - 1 = n
    BY <1>1
  <2> QED
    BY <2>1, <2>2, Zenon
<1> HIDE DEF u, v
<1>5. <<e>> \in Seq(S) /\ Len(<<e>>) = 1
  OBVIOUS
<1>6. /\ u \o <<e>> \in Seq(S) /\ Len(u \o <<e>>) = Len(u) + Len(<<e>>)
      /\ \A j \in 1 .. Len(u) + Len(<<e>>) :
           (u \o <<e>>)[j] = IF j <= Len(u) THEN u[j] ELSE <<e>>[j - Len(u)]
  BY <1>2, <1>5, ConcatProperties, Zenon
<1> DEFINE w == u \o <<e>>
<1>7. w \in Seq(S) /\ Len(w) = n + 1 /\ \A j \in 1 .. n : w[j] = q[j]
  BY <1>1, <1>2, <1>5, <1>6
<1>8. InsertAt(q, n + 1, e) = w \o v
  BY <1>4
<1> HIDE DEF w
<1>9. /\ w \o v \in Seq(S) /\ Len(w \o v) = Len(w) + Len(v)
      /\ \A j \in 1 .. Len(w) + Len(v) :
           (w \o v)[j] = IF j <= Len(w) THEN w[j] ELSE v[j - Len(w)]
  BY <1>3, <1>7, ConcatProperties, Zenon
<1>10. Len(w) + Len(v) = Len(q) + 1
  BY <1>1, <1>3, <1>7
<1>11. \A j \in 1 .. n : (w \o v)[j] = q[j]
  BY <1>1, <1>3, <1>7, <1>9
<1> QED
  BY <1>8, <1>9, <1>10, <1>11, Zenon

LEMMA Removed ==
  ASSUME NEW S, NEW q \in Seq(S), NEW n \in 1 .. Len(q)
  PROVE  RemoveAt(q, n) \in Seq(S) /\ Len(RemoveAt(q, n)) = Len(q) - 1
<1> DEFINE u == SubSeq(q, 1, n - 1)
           v == SubSeq(q, n + 1, Len(q))
<1>1. Len(q) \in Nat /\ n \in Int /\ n - 1 \in Int /\ n + 1 \in Int
      /\ \A i \in 1 .. Len(q) : q[i] \in S
  OBVIOUS
<1>2. u \in Seq(S) /\ Len(u) = n - 1
  <2>1. \A i \in 1 .. n - 1 : q[i] \in S
    BY <1>1
  <2> QED
    BY <1>1, <2>1, SubSeqProperties
<1>3. v \in Seq(S) /\ Len(v) = Len(q) - n
  <2>1. \A i \in n + 1 .. Len(q) : q[i] \in S
    BY <1>1
  <2> QED
    BY <1>1, <2>1, SubSeqProperties
<1>4. RemoveAt(q, n) = u \o v
  BY Zenon DEF RemoveAt
<1> HIDE DEF u, v
<1>5. u \o v \in Seq(S) /\ Len(u \o v) = Len(u) + Len(v)
  BY <1>2, <1>3, ConcatProperties, Zenon
<1> QED
  BY <1>1, <1>2, <1>3, <1>4, <1>5

LEMMA Changed ==
  ASSUME NEW S, NEW q \in Seq(S), NEW n \in 1 .. Len(q), NEW e \in S
  PROVE  [q EXCEPT ![n] = e] \in Seq(S) /\ Len([q EXCEPT ![n] = e]) = Len(q)
BY ExceptSeq

-----------------------------------------------------------------------------
(* The walk of flckadj and the list without a process's locks are functions    *)
(* defined by recursion: they exist for every length.                          *)

LEMMA WalkExists ==
  ASSUME NEW b, NEW N \in Nat
  PROVE  \E g : g = [n \in 0 .. N |-> IF n = 0 THEN b ELSE Turn(g[n - 1])]
<1> DEFINE T == {m \in Nat : \E g : g = [n \in 0 .. m |-> IF n = 0 THEN b ELSE Turn(g[n - 1])]}
<1>1. 0 \in T
  <2> DEFINE g == [n \in 0 .. 0 |-> b]
  <2>1. g = [n \in 0 .. 0 |-> IF n = 0 THEN b ELSE Turn(g[n - 1])]
    OBVIOUS
  <2> QED
    BY <2>1
<1>2. ASSUME NEW m \in Nat, m \in T PROVE m + 1 \in T
  <2>1. PICK g : g = [n \in 0 .. m |-> IF n = 0 THEN b ELSE Turn(g[n - 1])]
    BY <1>2
  <2> DEFINE h == [n \in 0 .. m + 1 |-> IF n = m + 1 THEN Turn(g[m]) ELSE g[n]]
  <2>2. ASSUME NEW n \in 0 .. m + 1
        PROVE  h[n] = IF n = 0 THEN b ELSE Turn(h[n - 1])
    <3>1. CASE n = m + 1
      <4>1. h[n] = Turn(g[m]) /\ n - 1 = m /\ n # 0 /\ h[m] = g[m]
        BY <3>1
      <4> HIDE DEF h
      <4> QED
        BY <4>1
    <3>2. CASE n # m + 1
      <4>1. n \in 0 .. m /\ h[n] = g[n]
        BY <3>2
      <4>2. n # 0 => n - 1 \in 0 .. m + 1 /\ n - 1 # m + 1 /\ h[n - 1] = g[n - 1]
        BY <4>1
      <4>3. g[n] = IF n = 0 THEN b ELSE Turn(g[n - 1])
        BY <2>1, <4>1
      <4> HIDE DEF h
      <4> QED
        BY <4>1, <4>2, <4>3
    <3> QED
      BY <3>1, <3>2
  <2>3. h = [n \in 0 .. m + 1 |-> h[n]]
    OBVIOUS
  <2> HIDE DEF h
  <2>4. h = [n \in 0 .. m + 1 |-> IF n = 0 THEN b ELSE Turn(h[n - 1])]
    BY <2>2, <2>3, Zenon
  <2> QED
    BY <2>4
<1>3. N \in T
  <2> HIDE DEF T
  <2> QED
    BY <1>1, <1>2, Induct
<1> QED
  BY <1>3
-----------------------------------------------------------------------------
(* What flckadj leaves of a list.  A lock covers at least one byte, and one    *)
(* that was not on the list before has no sleepers.                            *)

Good     == {k \in Lock : k.start < k.end}
Fresh(K) == K \cup {k \in Good : k.sleepers = {}}

(* The states of its walk over a list of locks of K. *)
Walks(K) ==
    {a \in [q : Seq(Fresh(K)), i : Nat \ {0}, ins : Nat, ld : Ld, free : Nat,
            woken : SUBSET Proc, stop : BOOLEAN, result : {"set", "done", "ENOSPC"}] :
        a.ins <= a.i /\ a.ins <= Len(a.q)}

LEMMA FreshGood ==
  ASSUME NEW K \in SUBSET Good
  PROVE  Fresh(K) \subseteq Good
BY DEF Fresh

LEMMA RunEndIn ==
  ASSUME NEW S, NEW q \in Seq(S), NEW i \in 1 .. Len(q), NEW start
  PROVE  RunEnd(q, i, start) \in i .. Len(q)
<1> DEFINE R == {i} \cup {k \in i .. Len(q) : \A j \in i .. k : q[j].start < start}
<1>1. Len(q) \in Nat /\ R \in SUBSET (0 .. Len(q)) /\ R # {} /\ R \subseteq i .. Len(q)
  OBVIOUS
<1>2. RunEnd(q, i, start) = Max(R)
  BY DEF RunEnd
<1> HIDE DEF R
<1>3. Max(R) \in R
  BY <1>1, MaxIn
<1> QED
  BY <1>1, <1>2, <1>3

LEMMA InsrtIn ==
  ASSUME NEW S, NEW q \in Seq(S), NEW ld
  PROVE  Insrt(q, ld) \in 0 .. Len(q)
<1> DEFINE R == {i \in DOMAIN q : q[i].start >= ld.start \/ Touches(q[i], ld)} \cup {Len(q) + 1}
<1>1. Len(q) \in Nat /\ R \in SUBSET Nat /\ R # {} /\ R \subseteq 1 .. Len(q) + 1
      /\ DOMAIN q = 1 .. Len(q)
  OBVIOUS
<1>2. FirstScan(q, ld) = Min(R)
  BY DEF FirstScan
<1> HIDE DEF R
<1>3. FirstScan(q, ld) \in 1 .. Len(q) + 1
  BY <1>1, <1>2, MinIn
<1>4. \/ Insrt(q, ld) = FirstScan(q, ld) /\ FirstScan(q, ld) \in DOMAIN q
      \/ Insrt(q, ld) = FirstScan(q, ld) - 1
  BY DEF Insrt
<1> QED
  BY <1>1, <1>3, <1>4

LEMMA BeginsWalks ==
  ASSUME NEW K \in SUBSET Good, NEW q \in Seq(K), NEW ins \in 0 .. Len(q), NEW ld \in Ld,
         NEW free \in Nat
  PROVE  Begins(q, ins, ld, free) \in Walks(K)
<1>1. Len(q) \in Nat /\ ins \in Nat /\ ins <= Len(q)
  OBVIOUS
<1>2. Max({1, ins}) \in Nat \ {0} /\ ins <= Max({1, ins})
  <2>1. {1, ins} \in SUBSET (0 .. ins + 1) /\ {1, ins} # {} /\ ins + 1 \in Nat
    BY <1>1
  <2> DEFINE m == Max({1, ins})
  <2>2. m \in {1, ins} /\ 1 <= m /\ ins <= m
    BY <2>1, MaxIn
  <2> HIDE DEF m
  <2>3. m \in Nat \ {0} /\ ins <= m
    BY <1>1, <2>2
  <2> QED
    BY <2>3 DEF m
<1>3. q \in Seq(Fresh(K))
  <2>1. K \subseteq Fresh(K)
    BY DEF Fresh
  <2> QED
    BY <2>1
<1> QED
  BY <1>1, <1>2, <1>3 DEF Begins, Walks

-----------------------------------------------------------------------------
(* What one turn does keeps the walk one of these. *)

LEMMA StopWalks ==
  ASSUME NEW K \in SUBSET Good, NEW a \in Walks(K), NEW r \in {"set", "done", "ENOSPC"}
  PROVE  Stop(a, r) \in Walks(K)
BY DEF Stop, Walks

LEMMA NextWalks ==
  ASSUME NEW K \in SUBSET Good, NEW a \in Walks(K), a.i <= Len(a.q)
  PROVE  /\ [a EXCEPT !.i = @ + 1] \in Walks(K)
         /\ [a EXCEPT !.ins = a.i, !.i = @ + 1] \in Walks(K)
<1>1. /\ a.i \in Nat \ {0} /\ a.i + 1 \in Nat \ {0} /\ a.i <= a.i + 1
      /\ a.ins \in Nat /\ a.ins <= a.i + 1
  BY DEF Walks
<1>2. [a EXCEPT !.i = @ + 1] \in Walks(K)
  BY <1>1 DEF Walks
<1>3. [a EXCEPT !.ins = a.i, !.i = @ + 1] \in Walks(K)
  BY <1>1 DEF Walks
<1> QED
  BY <1>2, <1>3

LEMMA WalkAt ==
  ASSUME NEW K \in SUBSET Good, NEW a \in Walks(K), a.i <= Len(a.q)
  PROVE  /\ a.q \in Seq(Fresh(K)) /\ a.i \in 1 .. Len(a.q)
         /\ Len(a.q) \in Nat /\ a.q[a.i] \in Good
<1>1. a.q \in Seq(Fresh(K)) /\ a.i \in Nat \ {0} /\ Len(a.q) \in Nat
  BY DEF Walks
<1>2. a.i \in 1 .. Len(a.q)
  BY <1>1
<1>3. a.q[a.i] \in Fresh(K)
  BY <1>1, <1>2, ElementOfSeq
<1> QED
  BY <1>1, <1>2, <1>3, FreshGood

LEMMA DeleteWalks ==
  ASSUME NEW K \in SUBSET Good, NEW a \in Walks(K), a.i <= Len(a.q)
  PROVE  Delete(a) \in Walks(K) /\ DeleteBack(a) \in Walks(K)
<1>1. /\ a.q \in Seq(Fresh(K)) /\ a.i \in 1 .. Len(a.q)
      /\ Len(a.q) \in Nat /\ a.q[a.i].sleepers \in SUBSET Proc
  BY WalkAt DEF Good, Lock
<1> DEFINE r == RemoveAt(a.q, a.i)
           d == Delflck(a)
<1>2. r \in Seq(Fresh(K)) /\ Len(r) = Len(a.q) - 1
  BY <1>1, Removed
<1>3. d = [a EXCEPT !.q = r, !.free = @ + 1, !.woken = @ \cup a.q[a.i].sleepers]
  BY DEF Delflck, Walks
<1> HIDE DEF r, d
<1> DEFINE u == a.woken \cup a.q[a.i].sleepers
<1>4. /\ u \in SUBSET Proc /\ a.free + 1 \in Nat
      /\ d = [a EXCEPT !.q = r, !.free = a.free + 1, !.woken = u]
  BY <1>1, <1>3 DEF Walks
<1> HIDE DEF u
<1>5. /\ d \in [q : Seq(Fresh(K)), i : Nat \ {0}, ins : Nat, ld : Ld, free : Nat,
            woken : SUBSET Proc, stop : BOOLEAN, result : {"set", "done", "ENOSPC"}]
      /\ d.q = r /\ d.i = a.i /\ d.ins = a.ins
  BY <1>2, <1>4 DEF Walks
<1>6. a.i \in Nat \ {0} /\ a.ins \in Nat /\ a.ins <= a.i /\ a.ins <= Len(a.q)
  BY DEF Walks
<1>7. Delete(a) = [d EXCEPT !.ins = IF @ = a.i THEN a.i - 1 ELSE @]
  BY DEF Delete, d
<1>8. DeleteBack(a) = [d EXCEPT !.ins = a.i - 1]
  BY DEF DeleteBack, d
<1>9. Len(r) \in Nat /\ a.i - 1 \in Nat /\ a.i - 1 <= Len(r) /\ a.i - 1 <= a.i
      /\ (a.ins # a.i => a.ins <= Len(r))
  BY <1>1, <1>2, <1>6
<1>10. DeleteBack(a) \in Walks(K)
  BY <1>5, <1>6, <1>8, <1>9 DEF Walks
<1>11. Delete(a) \in Walks(K)
  <2>1. CASE a.ins = a.i
    <3>1. Delete(a) = DeleteBack(a)
      BY <1>5, <1>7, <1>8, <2>1
    <3> QED
      BY <1>10, <3>1
  <2>2. CASE a.ins # a.i
    <3>1. Delete(a) = d
      BY <1>5, <1>7, <2>2
    <3> QED
      BY <1>5, <1>6, <1>9, <2>2, <3>1 DEF Walks
  <2> QED
    BY <2>1, <2>2
<1> QED
  BY <1>10, <1>11
-----------------------------------------------------------------------------
LEMMA InsflckWalks ==
  ASSUME NEW K \in SUBSET Good, NEW a \in Walks(K), a.free # 0,
         NEW n \in 0 .. Len(a.q), NEW k \in Fresh(K)
  PROVE  /\ Insflck(a, n, k) \in Walks(K) /\ Insflck(a, n, k).i = a.i
         /\ Len(Insflck(a, n, k).q) = Len(a.q) + 1 /\ Insflck(a, n, k).ld = a.ld
         /\ \A j \in 1 .. n : Insflck(a, n, k).q[j] = a.q[j]
<1> DEFINE r == InsertAt(a.q, n + 1, k)
           d == Insflck(a, n, k)
<1>1. a.q \in Seq(Fresh(K)) /\ Len(a.q) \in Nat /\ a.free - 1 \in Nat
      /\ a.ins \in Nat /\ a.ins <= Len(a.q)
  BY DEF Walks
<1>2. r \in Seq(Fresh(K)) /\ Len(r) = Len(a.q) + 1 /\ \A j \in 1 .. n : r[j] = a.q[j]
  BY <1>1, Inserted
<1>3. d = [a EXCEPT !.q = r, !.free = a.free - 1]
  BY DEF Insflck, Walks
<1> HIDE DEF r, d
<1>4. a.ins <= Len(r)
  BY <1>1, <1>2
<1>5. d \in Walks(K) /\ d.i = a.i /\ d.q = r /\ d.ld = a.ld
  BY <1>1, <1>2, <1>3, <1>4 DEF Walks
<1> QED
  BY <1>2, <1>5 DEF d

LEMMA PieceWalks ==
  ASSUME NEW K \in SUBSET Good, NEW a \in Walks(K), a.i <= Len(a.q), a.free # 0,
         a.ld.end < a.q[a.i].end
  PROVE  /\ Piece(a) \in Walks(K) /\ Piece(a).i = a.i /\ Piece(a).i <= Len(Piece(a).q)
         /\ Piece(a).q[a.i] = a.q[a.i] /\ Piece(a).ld = a.ld
<1> DEFINE k == a.q[a.i]
           n == RunEnd(a.q, a.i, a.ld.start)
           e == [k EXCEPT !.start = a.ld.end, !.sleepers = {}]
<1>1. /\ a.q \in Seq(Fresh(K)) /\ a.i \in 1 .. Len(a.q)
      /\ Len(a.q) \in Nat /\ k \in Good
  BY WalkAt
<1>2. n \in a.i .. Len(a.q)
  BY <1>1, RunEndIn
<1>3. a.ld \in Ld
  BY DEF Walks
<1>4. Piece(a) = Insflck(a, n, e)
  BY DEF Piece
<1>5. a.ld.end < k.end
  OBVIOUS
<1> HIDE DEF k, n
<1>6. e \in Good /\ e.sleepers = {}
  <2>1. k \in Lock /\ k.end \in 1 .. MaxEnd
    BY <1>1 DEF Good, Lock
  <2>2. a.ld.end \in 1 .. MaxEnd
    BY <1>3 DEF Ld
  <2>3. a.ld.end \in 0 .. MaxEnd - 1
    BY <1>5, <2>1, <2>2, ConstantAssumption
  <2>4. e \in Lock /\ e.start = a.ld.end /\ e.end = k.end /\ e.sleepers = {}
    BY <2>1, <2>3 DEF Lock
  <2> QED
    BY <1>5, <2>4 DEF Good
<1> HIDE DEF e
<1>7. e \in Fresh(K) /\ n \in 0 .. Len(a.q) /\ a.i \in 1 .. n
  BY <1>1, <1>2, <1>6 DEF Fresh
<1> QED
  BY <1>1, <1>4, <1>7, InsflckWalks

LEMMA ShrinkWalks ==
  ASSUME NEW K \in SUBSET Good, NEW a \in Walks(K), a.i <= Len(a.q),
         a.q[a.i].start < a.ld.start
  PROVE  Shrink(a) \in Walks(K)
<1> DEFINE k == a.q[a.i]
           e == [k EXCEPT !.end = a.ld.start, !.sleepers = {}]
           r == [a.q EXCEPT ![a.i] = e]
           u == a.woken \cup k.sleepers
<1>1. /\ a.q \in Seq(Fresh(K)) /\ a.i \in 1 .. Len(a.q)
      /\ Len(a.q) \in Nat /\ k \in Good
  BY WalkAt
<1>2. a.ld \in Ld /\ a.woken \in SUBSET Proc
  BY DEF Walks
<1>3. e \in Good /\ e.sleepers = {}
  <2>1. k.start < a.ld.start
    OBVIOUS
  <2> HIDE DEF k
  <2>2. k \in Lock /\ k.start \in 0 .. MaxEnd - 1
    BY <1>1 DEF Good, Lock
  <2>3. a.ld.start \in 0 .. MaxEnd - 1
    BY <1>2 DEF Ld
  <2>4. a.ld.start \in 1 .. MaxEnd
    BY <2>1, <2>2, <2>3, ConstantAssumption
  <2>5. e \in Lock /\ e.end = a.ld.start /\ e.start = k.start /\ e.sleepers = {}
    BY <2>2, <2>4 DEF Lock
  <2> QED
    BY <2>1, <2>5 DEF Good
<1>4. u \in SUBSET Proc
  <2>1. k.sleepers \in SUBSET Proc
    BY <1>1 DEF Good, Lock
  <2> HIDE DEF k
  <2> QED
    BY <1>2, <2>1
<1>5. Shrink(a) = [a EXCEPT !.q = r, !.woken = u, !.ins = a.i, !.i = a.i + 1]
  <2> DEFINE k1 == [k EXCEPT !.end = a.ld.start]
             r1 == [a.q EXCEPT ![a.i] = k1]
             a1 == [a EXCEPT !.q = r1]
  <2>1. e = [k1 EXCEPT !.sleepers = {}]
    OBVIOUS
  <2>2. r1[a.i] = k1 /\ [r1 EXCEPT ![a.i] = e] = r
    BY <1>1
  <2>3. a1.q = r1 /\ DOMAIN a1 = DOMAIN a /\ [a EXCEPT !.q[a.i].end = a.ld.start] = a1
    BY DEF Walks
  <2>4. Shrink(a) = [a1 EXCEPT !.q[a.i].sleepers = {}, !.woken = u, !.ins = a.i, !.i = a.i + 1]
    BY <2>3 DEF Shrink, Walks
  <2>5. Shrink(a) = [a1 EXCEPT !.q = r, !.woken = u, !.ins = a.i, !.i = a.i + 1]
    <3> HIDE DEF a1, u, r, e, r1, k1
    <3> QED
      BY <2>1, <2>2, <2>3, <2>4
  <2> HIDE DEF u, r, e
  <2> QED
    BY <2>5 DEF Walks
<1> HIDE DEF u, e
<1>6. r \in Seq(Fresh(K)) /\ Len(r) = Len(a.q)
  <2>1. e \in Fresh(K)
    BY <1>3 DEF Fresh
  <2> QED
    BY <1>1, <2>1, Changed
<1> HIDE DEF r
<1>7. a.i \in Nat /\ a.i + 1 \in Nat \ {0} /\ a.i <= Len(a.q) /\ a.i <= a.i + 1
  BY <1>1
<1> QED
  BY <1>4, <1>5, <1>6, <1>7 DEF Walks

(* The range to be set grows by that of a lock it touches. *)
LEMMA WidenWalks ==
  ASSUME NEW K \in SUBSET Good, NEW a \in Walks(K), NEW k \in Good
  PROVE  /\ a.ld.start < k.end => /\ [a EXCEPT !.ld.end = k.end] \in Walks(K)
                                  /\ [a EXCEPT !.ld.end = k.end].i = a.i
                                  /\ [a EXCEPT !.ld.end = k.end].q = a.q
         /\ k.start < a.ld.end => /\ [a EXCEPT !.ld.start = k.start] \in Walks(K)
                                  /\ [a EXCEPT !.ld.start = k.start].i = a.i
                                  /\ [a EXCEPT !.ld.start = k.start].q = a.q
<1>1. a.ld \in Ld /\ k.start \in 0 .. MaxEnd - 1 /\ k.end \in 1 .. MaxEnd
  BY DEF Walks, Good, Lock
<1>2. ASSUME a.ld.start < k.end
      PROVE  /\ [a EXCEPT !.ld.end = k.end] \in Walks(K)
             /\ [a EXCEPT !.ld.end = k.end].i = a.i /\ [a EXCEPT !.ld.end = k.end].q = a.q
  <2> DEFINE l == [a.ld EXCEPT !.end = k.end]
  <2>1. l \in Ld
    BY <1>1, <1>2 DEF Ld
  <2>2. [a EXCEPT !.ld.end = k.end] = [a EXCEPT !.ld = l]
    BY DEF Walks
  <2> HIDE DEF l
  <2> QED
    BY <2>1, <2>2 DEF Walks
<1>3. ASSUME k.start < a.ld.end
      PROVE  /\ [a EXCEPT !.ld.start = k.start] \in Walks(K)
             /\ [a EXCEPT !.ld.start = k.start].i = a.i /\ [a EXCEPT !.ld.start = k.start].q = a.q
  <2> DEFINE l == [a.ld EXCEPT !.start = k.start]
  <2>1. l \in Ld
    BY <1>1, <1>3 DEF Ld
  <2>2. [a EXCEPT !.ld.start = k.start] = [a EXCEPT !.ld = l]
    BY DEF Walks
  <2> HIDE DEF l
  <2> QED
    BY <2>1, <2>2 DEF Walks
<1> QED
  BY <1>2, <1>3
-----------------------------------------------------------------------------
LEMMA AdjustWalks ==
  ASSUME NEW K \in SUBSET Good, NEW a \in Walks(K), a.i <= Len(a.q)
  PROVE  Adjust(a) \in Walks(K)
<1> DEFINE k      == a.q[a.i]
           ld     == a.ld
           same   == k.type = ld.type
           within == ld.start >= k.start /\ ld.end <= k.end
           longer == [a EXCEPT !.ld.end = k.end]
           back   == [a EXCEPT !.ld.start = k.start]
<1>1. k \in Good
  BY WalkAt
<1>2. ld \in Ld
  BY DEF Walks
<1>3. /\ k.start \in Int /\ k.end \in Int /\ ld.start \in Int /\ ld.end \in Int
      /\ k.start < k.end /\ ld.start < ld.end
  <2> HIDE DEF k, ld
  <2>1. k.start \in 0 .. MaxEnd - 1 /\ k.end \in 1 .. MaxEnd /\ k.start < k.end
    BY <1>1 DEF Good, Lock
  <2>2. ld.start \in 0 .. MaxEnd - 1 /\ ld.end \in 1 .. MaxEnd /\ ld.start < ld.end
    BY <1>2 DEF Ld
  <2> QED
    BY <2>1, <2>2
<1>4. Delete(a) \in Walks(K) /\ DeleteBack(a) \in Walks(K)
  BY DeleteWalks
<1>5. ld.start < k.end => Stop(Delete(longer), "set") \in Walks(K)
  <2> SUFFICES ASSUME ld.start < k.end PROVE Stop(Delete(longer), "set") \in Walks(K)
    OBVIOUS
  <2>1. longer \in Walks(K) /\ longer.i = a.i /\ longer.q = a.q
    BY <1>1, WidenWalks
  <2> HIDE DEF longer
  <2> QED
    BY <2>1, DeleteWalks, StopWalks
<1>6. k.start < ld.end => DeleteBack(back) \in Walks(K)
  <2> SUFFICES ASSUME k.start < ld.end PROVE DeleteBack(back) \in Walks(K)
    OBVIOUS
  <2>1. back \in Walks(K) /\ back.i = a.i /\ back.q = a.q
    BY <1>1, WidenWalks
  <2> HIDE DEF back
  <2> QED
    BY <2>1, DeleteWalks
<1>7. ASSUME a.free # 0, ld.end < k.end
      PROVE  /\ Delete(Piece(a)) \in Walks(K) /\ DeleteBack(Piece(a)) \in Walks(K)
             /\ k.start < ld.start => Shrink(Piece(a)) \in Walks(K)
  <2> DEFINE d == Piece(a)
  <2>1. d \in Walks(K) /\ d.i = a.i /\ d.i <= Len(d.q) /\ d.q[a.i] = k /\ d.ld = ld
    BY <1>7, PieceWalks
  <2> HIDE DEF d, k, ld
  <2>2. Delete(d) \in Walks(K) /\ DeleteBack(d) \in Walks(K)
    BY <2>1, DeleteWalks
  <2>3. ASSUME k.start < ld.start PROVE Shrink(d) \in Walks(K)
    BY <2>1, <2>3, ShrinkWalks
  <2> QED
    BY <2>2, <2>3 DEF d
<1>8. k.start < ld.start => Shrink(a) \in Walks(K)
  BY ShrinkWalks
<1>9. [a EXCEPT !.ins = a.i, !.i = @ + 1] \in Walks(K)
  BY NextWalks
<1>10. \A b \in Walks(K) : \A r \in {"set", "done", "ENOSPC"} : Stop(b, r) \in Walks(K)
  BY StopWalks
<1> DEFINE next == [a EXCEPT !.ins = a.i, !.i = @ + 1]
<1>11. Adjust(a) =
         CASE ld.end < k.start -> Stop(a, "set")
           [] ld.end = k.start -> IF same THEN Stop(Delete(longer), "set") ELSE Stop(a, "set")
           [] within /\ same -> Stop(a, "done")
           [] ld.start < k.start /\ ld.end = k.end /\ same -> Stop(Delete(a), "set")
           [] ld.start < k.start /\ ld.end >= k.end /\ ~(ld.end = k.end /\ same) -> Delete(a)
           [] ld.start = k.start /\ ld.end >= k.end /\ ~(within /\ same) -> DeleteBack(a)
           [] ld.start < k.start /\ ld.end > k.start /\ ld.end < k.end ->
                IF same THEN Stop(Delete(longer), "set")
                ELSE IF a.free = 0 THEN Stop(a, "ENOSPC") ELSE Stop(Delete(Piece(a)), "set")
           [] within /\ ~same /\ ld.end < k.end ->
                IF a.free = 0 THEN Stop(a, "ENOSPC")
                ELSE IF ld.start = k.start THEN Stop(DeleteBack(Piece(a)), "set")
                                           ELSE Stop(Shrink(Piece(a)), "set")
           [] within /\ ~same /\ ld.start > k.start /\ ld.end = k.end -> Shrink(a)
           [] k.start < ld.start /\ ld.start <= k.end /\ ld.end > k.end ->
                IF same THEN DeleteBack(back) ELSE Shrink(a)
           [] ld.start > k.end -> next
  BY Zenon DEF Adjust
<1> HIDE DEF longer, back, next
<1>12. next \in Walks(K)
  BY <1>9 DEF next
<1> HIDE DEF k, ld
<1> QED
  BY <1>3, <1>4, <1>5, <1>6, <1>7, <1>8, <1>10, <1>11, <1>12

LEMMA TurnWalks ==
  ASSUME NEW K \in SUBSET Good, NEW a \in Walks(K)
  PROVE  Turn(a) \in Walks(K)
<1>1. a.i \in Nat /\ Len(a.q) \in Nat
  BY DEF Walks
<1>2. CASE a.stop \/ a.i > Len(a.q)
  BY <1>2 DEF Turn
<1>3. CASE ~(a.stop \/ a.i > Len(a.q))
  <2>1. a.i <= Len(a.q)
    BY <1>1, <1>3
  <2> DEFINE n == [a EXCEPT !.i = @ + 1]
  <2>2. /\ Adjust(a) \in Walks(K) /\ Stop(a, "set") \in Walks(K)
        /\ n \in Walks(K)
    BY <2>1, AdjustWalks, StopWalks, NextWalks
  <2>3. Turn(a) \in {Adjust(a), Stop(a, "set"), n}
    BY <1>3 DEF Turn
  <2> QED
    BY <2>2, <2>3
<1> QED
  BY <1>2, <1>3
-----------------------------------------------------------------------------
(* The list flckadj leaves, and the one cleanlocks leaves. *)

LEMMA WalkWalks ==
  ASSUME NEW K \in SUBSET Good, NEW b \in Walks(K), NEW N \in Nat, NEW g,
         g = [n \in 0 .. N |-> IF n = 0 THEN b ELSE Turn(g[n - 1])]
  PROVE  g[N] \in Walks(K)
<1> DEFINE T == {n \in Nat : n <= N => g[n] \in Walks(K)}
<1>1. 0 \in T
  <2>1. 0 \in 0 .. N
    OBVIOUS
  <2>2. g[0] = b
    BY <2>1, Zenon
  <2> QED
    BY <2>2
<1>2. ASSUME NEW n \in Nat, n \in T PROVE n + 1 \in T
  <2> SUFFICES ASSUME n + 1 <= N PROVE g[n + 1] \in Walks(K)
    OBVIOUS
  <2>1. n + 1 \in 0 .. N /\ n + 1 # 0 /\ (n + 1) - 1 = n /\ n <= N
    OBVIOUS
  <2>2. g[n + 1] = Turn(g[n])
    <3>1. g[n + 1] = IF n + 1 = 0 THEN b ELSE Turn(g[(n + 1) - 1])
      BY <2>1, Zenon
    <3> QED
      BY <2>1, <3>1
  <2>3. g[n] \in Walks(K)
    BY <1>2, <2>1
  <2> QED
    BY <2>2, <2>3, TurnWalks
<1>3. N \in T
  <2> HIDE DEF T
  <2> QED
    BY <1>1, <1>2, Induct
<1> QED
  BY <1>3

LEMMA FlckadjList ==
  ASSUME NEW K \in SUBSET Good, NEW q \in Seq(K), NEW ins \in 0 .. Len(q), NEW ld \in Ld,
         NEW free \in Nat
  PROVE  Flckadj(q, ins, ld, free).q \in Seq(Fresh(K))
<1> DEFINE b == Begins(q, ins, ld, free)
           w == CHOOSE w : w = [n \in 0 .. Len(q) |-> IF n = 0 THEN b ELSE Turn(w[n - 1])]
           a == w[Len(q)]
           at == IF a.ins = 0 THEN 0 ELSE RunEnd(a.q, a.ins, a.ld.start)
           new == [pid |-> ld.pid, type |-> ld.type, start |-> a.ld.start, end |-> a.ld.end,
                   sleepers |-> {}]
<1>1. Len(q) \in Nat
  OBVIOUS
<1>2. w = [n \in 0 .. Len(q) |-> IF n = 0 THEN b ELSE Turn(w[n - 1])]
  <2> HIDE DEF b
  <2>1. PICK g : g = [n \in 0 .. Len(q) |-> IF n = 0 THEN b ELSE Turn(g[n - 1])]
    BY <1>1, WalkExists, ZenonT(40)
  <2> QED
    BY <2>1
<1>3. Flckadj(q, ins, ld, free) =
        IF a.result # "set" \/ ld.type = "F_UNLCK" THEN a
        ELSE IF a.free = 0 THEN Stop(a, "ENOSPC")
        ELSE Insflck(a, at, new)
  BY Zenon DEF Flckadj
<1>4. a \in Walks(K)
  <2>1. b \in Walks(K)
    BY BeginsWalks
  <2> HIDE DEF b, w
  <2> QED
    BY <1>1, <1>2, <2>1, WalkWalks
<1> HIDE DEF a, w
<1>5. a.q \in Seq(Fresh(K)) /\ Len(a.q) \in Nat /\ a.ld \in Ld /\ a.ins \in Nat /\ a.ins <= Len(a.q)
  BY <1>4 DEF Walks
<1>6. at \in 0 .. Len(a.q)
  <2>1. CASE a.ins = 0
    BY <1>5, <2>1
  <2>2. CASE a.ins # 0
    <3>1. a.ins \in 1 .. Len(a.q)
      BY <1>5, <2>2
    <3>2. RunEnd(a.q, a.ins, a.ld.start) \in a.ins .. Len(a.q)
      BY <1>5, <3>1, RunEndIn
    <3> QED
      BY <2>2, <3>1, <3>2
  <2> QED
    BY <2>1, <2>2
<1>7. ld.type # "F_UNLCK" => new \in Fresh(K)
  <2> SUFFICES ASSUME ld.type # "F_UNLCK" PROVE new \in Fresh(K)
    OBVIOUS
  <2>1. new \in Lock /\ new.start < new.end /\ new.sleepers = {}
    BY <1>5 DEF Ld, Lock
  <2> HIDE DEF new
  <2> QED
    BY <2>1 DEF Fresh, Good
<1> HIDE DEF at, new
<1>8. ASSUME ld.type # "F_UNLCK", a.free # 0 PROVE Insflck(a, at, new) \in Walks(K)
  BY <1>4, <1>6, <1>7, <1>8, InsflckWalks
<1>9. Stop(a, "ENOSPC") \in Walks(K)
  BY <1>4, StopWalks
<1>10. Flckadj(q, ins, ld, free) \in Walks(K)
  BY <1>3, <1>4, <1>8, <1>9
<1> QED
  BY <1>10 DEF Walks

LEMMA OthersExists ==
  ASSUME NEW S, NEW q \in Seq(S), NEW p
  PROVE  \E o : /\ o = [n \in 0 .. Len(q) |-> IF n = 0 THEN <<>>
                                             ELSE IF q[n].pid = p THEN o[n - 1]
                                             ELSE Append(o[n - 1], q[n])]
                /\ Others(q, p) = o[Len(q)]
<1> DEFINE o == CHOOSE o : o = [n \in 0 .. Len(q) |-> IF n = 0 THEN <<>>
                                  ELSE IF q[n].pid = p THEN o[n - 1]
                                  ELSE Append(o[n - 1], q[n])]
<1>1. Len(q) \in Nat
  OBVIOUS
<1>2. o = [n \in 0 .. Len(q) |-> IF n = 0 THEN <<>>
                                 ELSE IF q[n].pid = p THEN o[n - 1]
                                 ELSE Append(o[n - 1], q[n])]
  <2> DEFINE Step(n, x) == IF q[n].pid = p THEN x ELSE Append(x, q[n])
             E == {m \in Nat : \E g : g = [n \in 0 .. m |-> IF n = 0 THEN <<>>
                                                           ELSE Step(n, g[n - 1])]}
  <2> HIDE DEF Step
  <2>1. 0 \in E
    <3> DEFINE g == [n \in 0 .. 0 |-> <<>>]
    <3>1. g = [n \in 0 .. 0 |-> IF n = 0 THEN <<>> ELSE Step(n, g[n - 1])]
      OBVIOUS
    <3> QED
      BY <3>1
  <2>2. ASSUME NEW m \in Nat, m \in E PROVE m + 1 \in E
    <3>1. PICK g : g = [n \in 0 .. m |-> IF n = 0 THEN <<>> ELSE Step(n, g[n - 1])]
      BY <2>2
    <3> DEFINE h == [n \in 0 .. m + 1 |-> IF n = m + 1 THEN Step(n, g[m]) ELSE g[n]]
    <3>2. ASSUME NEW n \in 0 .. m + 1
          PROVE  h[n] = IF n = 0 THEN <<>> ELSE Step(n, h[n - 1])
      <4>1. CASE n = m + 1
        <5>1. h[n] = Step(n, g[m]) /\ n - 1 = m /\ n # 0 /\ h[m] = g[m]
          BY <4>1
        <5> HIDE DEF h
        <5> QED
          BY <5>1
      <4>2. CASE n # m + 1
        <5>1. n \in 0 .. m /\ h[n] = g[n]
          BY <4>2
        <5>2. n # 0 => n - 1 \in 0 .. m + 1 /\ n - 1 # m + 1 /\ h[n - 1] = g[n - 1]
          BY <5>1
        <5>3. g[n] = IF n = 0 THEN <<>> ELSE Step(n, g[n - 1])
          BY <3>1, <5>1
        <5> HIDE DEF h
        <5> QED
          BY <5>1, <5>2, <5>3
      <4> QED
        BY <4>1, <4>2
    <3>3. h = [n \in 0 .. m + 1 |-> h[n]]
      OBVIOUS
    <3> HIDE DEF h
    <3>4. h = [n \in 0 .. m + 1 |-> IF n = 0 THEN <<>> ELSE Step(n, h[n - 1])]
      BY <3>2, <3>3, Zenon
    <3> QED
      BY <3>4
  <2>3. Len(q) \in E
    <3> HIDE DEF E
    <3> QED
      BY <1>1, <2>1, <2>2, Induct
  <2>4. PICK g : g = [n \in 0 .. Len(q) |-> IF n = 0 THEN <<>> ELSE Step(n, g[n - 1])]
    BY <2>3
  <2> QED
    BY <2>4, Zenon DEF Step
<1>3. Others(q, p) = o[Len(q)]
  BY Zenon DEF Others
<1> HIDE DEF o
<1> QED
  BY <1>2, <1>3

LEMMA OthersList ==
  ASSUME NEW S, NEW q \in Seq(S), NEW p
  PROVE  Others(q, p) \in Seq(S)
<1>1. Len(q) \in Nat /\ \A n \in 1 .. Len(q) : q[n] \in S
  OBVIOUS
<1>2. PICK o : /\ o = [n \in 0 .. Len(q) |-> IF n = 0 THEN <<>>
                                            ELSE IF q[n].pid = p THEN o[n - 1]
                                            ELSE Append(o[n - 1], q[n])]
               /\ Others(q, p) = o[Len(q)]
  BY OthersExists
<1>3. Others(q, p) = o[Len(q)]
  BY <1>2
<1> DEFINE T == {n \in Nat : n <= Len(q) => o[n] \in Seq(S)}
<1>4. 0 \in T
  <2>1. 0 \in 0 .. Len(q)
    BY <1>1
  <2>2. o[0] = <<>>
    BY <1>2, <2>1, Zenon
  <2>3. <<>> \in Seq(S)
    OBVIOUS
  <2> QED
    BY <2>2, <2>3, Zenon
<1>5. ASSUME NEW n \in Nat, n \in T PROVE n + 1 \in T
  <2> SUFFICES ASSUME n + 1 <= Len(q) PROVE o[n + 1] \in Seq(S)
    OBVIOUS
  <2>1. n + 1 \in 0 .. Len(q) /\ n + 1 \in 1 .. Len(q) /\ n + 1 # 0 /\ (n + 1) - 1 = n
        /\ n <= Len(q)
    BY <1>1
  <2>2. o[n] \in Seq(S) /\ q[n + 1] \in S
    BY <1>1, <1>5, <2>1
  <2>3. o[n + 1] = IF q[n + 1].pid = p THEN o[n] ELSE Append(o[n], q[n + 1])
    <3>1. o[n + 1] = IF n + 1 = 0 THEN <<>>
                     ELSE IF q[n + 1].pid = p THEN o[(n + 1) - 1]
                     ELSE Append(o[(n + 1) - 1], q[n + 1])
      BY <1>2, <2>1, Zenon
    <3> QED
      BY <2>1, <3>1
  <2>4. Append(o[n], q[n + 1]) \in Seq(S)
    BY <2>2, AppendProperties
  <2> QED
    BY <2>2, <2>3, <2>4
<1>6. Len(q) \in T
  <2> HIDE DEF T
  <2> QED
    BY <1>1, <1>4, <1>5, Induct
<1> QED
  BY <1>1, <1>3, <1>6
-----------------------------------------------------------------------------
(* The inductive invariant: a lock covers something, a process is on the list  *)
(* for its own call, nobody sleeps on a lock that is not in its way or is not  *)
(* of the process it is recorded to be blocked by, and each sleeper counts in  *)
(* the references of its file.                                                 *)

On(slp, f) == {p \in Proc : slp[p] # None /\ slp[p].file = f}

Counted == \A f \in File : IsFiniteSet(On(sleeplck, f))

Whole == locks \in [File -> Seq(Good)]

(* The sleepers on the locks q of f, as slp lists them, have them in their way. *)
InWay(slp, f, q) ==
    \A i \in DOMAIN q : \A p \in q[i].sleepers :
        /\ slp[p] # None /\ slp[p].file = f
        /\ Conflicts(q[i], slp[p].ld) /\ slp[p].blkpid = q[i].pid

Blocking == \A f \in File : InWay(sleeplck, f, locks[f])

SInv == TypeOK /\ Whole /\ OwnEntry /\ Blocking /\ FidKept /\ Counted

(* What a process finds that has come to setflck for f with ref references to  *)
(* it, its own among them, and is itself not among the sleepers slp.           *)
Asking(f, slp, ref) ==
    /\ fids \subseteq File /\ refcnt \in [File -> Nat] /\ Whole
    /\ slp \in [Proc -> Sleeper \cup {None}]
    /\ \A p \in Proc : slp[p] # None => slp[p].ld.pid = p
    /\ \A g \in File : g # f => InWay(slp, g, locks[g])
    /\ \A g \in File : /\ locks[g] # <<>> => g \in fids
                       /\ refcnt[g] > 0 => g \in fids
                       /\ IsFiniteSet(On(slp, g))
                       /\ Cardinality(On(slp, g)) <= IF g = f THEN ref - 1 ELSE refcnt[g]
    /\ ref \in Nat \ {0}

LEMMA LockIn ==
  ASSUME Whole, NEW f \in File
  PROVE  /\ locks[f] \in Seq(Range(locks[f])) /\ Range(locks[f]) \in SUBSET Good
         /\ DOMAIN locks[f] = 1 .. Len(locks[f]) /\ Len(locks[f]) \in Nat
         /\ \A i \in DOMAIN locks[f] : locks[f][i] \in Good /\ locks[f][i] \in Lock
<1>1. locks[f] \in Seq(Good)
  BY DEF Whole
<1> DEFINE q == locks[f]
<1> HIDE DEF q
<1>2. q \in Seq(Good)
  BY <1>1 DEF q
<1>3. /\ DOMAIN q = 1 .. Len(q) /\ Len(q) \in Nat /\ \A i \in DOMAIN q : q[i] \in Good
      /\ q = [i \in DOMAIN q |-> q[i]]
  BY <1>2
<1>4. q \in Seq(Range(q)) /\ Range(q) \in SUBSET Good
  BY <1>3 DEF Range
<1> QED
  BY <1>3, <1>4 DEF q, Good

(* A call that ends: the file is let go of. *)
LEMMA EndKeeps ==
  ASSUME NEW f \in File, NEW slp, NEW ref, Asking(f, slp, ref),
         NEW q \in Seq(Good), InWay(slp, f, q), NEW r, r = <<>> <=> q = <<>>,
         locks' = [locks EXCEPT ![f] = q], Freefid(f, ref, r), sleeplck' = slp
  PROVE  SInv'
<1> USE DEF Asking
<1>1. ref \in Nat /\ ref - 1 \in Nat /\ ref # 0
  OBVIOUS
<1>2. Whole'
  BY DEF Whole
<1>3. OwnEntry'
  BY DEF OwnEntry
<1>4. refcnt' = [refcnt EXCEPT ![f] = ref - 1] /\ fids' \subseteq File /\ fids \ {f} \subseteq fids'
      /\ (f \in fids' \/ (ref - 1 = 0 /\ q = <<>>))
  BY DEF Freefid
<1>5. TypeOK'
  <2>1. locks' \in [File -> Seq(Lock)]
    <3>1. Good \subseteq Lock
      BY DEF Good
    <3>2. Seq(Good) \subseteq Seq(Lock)
      BY <3>1
    <3> QED
      BY <1>2, <3>2 DEF Whole
  <2>2. refcnt' \in [File -> Nat]
    BY <1>1, <1>4
  <2> QED
    BY <1>4, <2>1, <2>2 DEF TypeOK
<1>6. \A g \in File : On(sleeplck, g)' = On(slp, g)
  BY DEF On
<1>7. Counted'
  BY <1>6 DEF Counted
<1>8. FidKept'
  <2> SUFFICES ASSUME NEW g \in File
               PROVE  /\ locks'[g] # <<>> => g \in fids'
                      /\ Cardinality(On(slp, g)) <= refcnt'[g]
                      /\ refcnt'[g] > 0 => g \in fids'
    BY <1>6 DEF FidKept, On
  <2>1. CASE g = f
    <3>1. locks'[g] = q /\ refcnt'[g] = ref - 1
      BY <1>4, <2>1 DEF Whole
    <3> QED
      BY <1>1, <1>4, <2>1, <3>1
  <2>2. CASE g # f
    <3>1. locks'[g] = locks[g] /\ refcnt'[g] = refcnt[g] /\ (g \in fids => g \in fids')
      BY <1>4, <2>2
    <3> QED
      BY <2>2, <3>1
  <2> QED
    BY <2>1, <2>2
<1>9. Blocking'
  <2> SUFFICES ASSUME NEW g \in File, NEW i \in DOMAIN (locks'[g]),
                      NEW p \in (locks'[g][i]).sleepers
               PROVE  /\ slp[p] # None /\ slp[p].file = g
                      /\ Conflicts(locks'[g][i], slp[p].ld) /\ slp[p].blkpid = locks'[g][i].pid
    BY DEF Blocking, InWay
  <2>1. CASE g = f
    <3>1. locks'[g] = q
      BY <2>1 DEF Whole
    <3> QED
      BY <2>1, <3>1 DEF InWay
  <2>2. CASE g # f
    <3>1. locks'[g] = locks[g]
      BY <2>2
    <3> QED
      BY <2>2, <3>1 DEF InWay
  <2> QED
    BY <2>1, <2>2
<1> QED
  BY <1>2, <1>3, <1>5, <1>7, <1>8, <1>9 DEF SInv

(* A call that sleeps on the lock in its way. *)
LEMMA SleepKeeps ==
  ASSUME NEW f \in File, NEW ld \in Ld, NEW slp, NEW ref, Asking(f, slp, ref),
         InWay(slp, f, locks[f]), slp[ld.pid] = None, NEW i \in Found(locks[f], ld),
         locks' = [locks EXCEPT ![f][i].sleepers = @ \cup {ld.pid}],
         sleeplck' = [slp EXCEPT ![ld.pid] =
                        [file |-> f, ld |-> ld, blkpid |-> locks[f][i].pid]],
         refcnt' = [refcnt EXCEPT ![f] = ref],
         fids' = fids \cup {f}
  PROVE  SInv'
<1> DEFINE p == ld.pid
           q == locks[f]
           k == [q[i] EXCEPT !.sleepers = @ \cup {p}]
           e == [file |-> f, ld |-> ld, blkpid |-> q[i].pid]
<1>1. p \in Proc /\ ref \in Nat \ {0} /\ slp \in [Proc -> Sleeper \cup {None}]
  BY DEF Asking, Ld
<1>2. i \in 1 .. Len(q) /\ q \in Seq(Good) /\ q[i] \in Good /\ i \in DOMAIN q
      /\ Conflicts(q[i], ld)
  BY LockIn DEF Asking, Found, Whole
<1>3. /\ k \in Good /\ k.sleepers = q[i].sleepers \cup {p} /\ k.pid = q[i].pid
      /\ \A l : Conflicts(k, l) <=> Conflicts(q[i], l)
  <2> HIDE DEF q
  <2> QED
    BY <1>1, <1>2 DEF Good, Lock, Conflicts
<1>4. e \in Sleeper /\ e # None /\ e.file = f /\ e.ld = ld /\ e.blkpid = q[i].pid
  <2>1. q[i].pid \in Proc
    BY <1>2 DEF Good, Lock
  <2>2. e \in Sleeper /\ e.file = f /\ e.ld = ld /\ e.blkpid = q[i].pid
    BY <2>1 DEF Sleeper
  <2> QED
    BY <2>2, NoneAssumption
<1>5. locks' = [locks EXCEPT ![f] = [q EXCEPT ![i] = k]]
  BY <1>2 DEF Asking, Whole
<1> HIDE DEF k, e
<1>6. sleeplck' = [slp EXCEPT ![p] = e]
  BY DEF e
<1>7. [q EXCEPT ![i] = k] \in Seq(Good)
  BY <1>2, <1>3, Changed
<1>8. Whole'
  BY <1>5, <1>7 DEF Asking, Whole
<1> HIDE DEF p
<1>9. OwnEntry'
  <2>1. e.ld.pid = p
    BY <1>4 DEF p
  <2> QED
    BY <1>1, <1>6, <2>1 DEF OwnEntry, Asking
<1>10. TypeOK'
  <2>1. locks' \in [File -> Seq(Lock)]
    <3>1. Good \subseteq Lock
      BY DEF Good
    <3>2. Seq(Good) \subseteq Seq(Lock)
      BY <3>1
    <3> QED
      BY <1>8, <3>2 DEF Whole
  <2>2. sleeplck' \in [Proc -> Sleeper \cup {None}]
    BY <1>1, <1>4, <1>6
  <2>3. fids' \subseteq File /\ refcnt' \in [File -> Nat]
    BY <1>1 DEF Asking
  <2> QED
    BY <2>1, <2>2, <2>3, Zenon DEF TypeOK
<1>11. On(sleeplck, f)' = On(slp, f) \cup {p}
  BY <1>1, <1>4, <1>6 DEF On
<1>12. \A g \in File : g # f => On(sleeplck, g)' = On(slp, g)
  <2>1. slp[p] = None
    BY DEF p
  <2> QED
    BY <1>1, <1>4, <1>6, <2>1 DEF On
<1>13. /\ IsFiniteSet(On(slp, f) \cup {p})
       /\ Cardinality(On(slp, f) \cup {p}) \in Nat
       /\ Cardinality(On(slp, f) \cup {p}) <= ref
  <2>1. /\ IsFiniteSet(On(slp, f)) /\ Cardinality(On(slp, f)) <= ref - 1
    BY DEF Asking
  <2> DEFINE c == Cardinality(On(slp, f))
             d == Cardinality(On(slp, f) \cup {p})
  <2>2. /\ IsFiniteSet(On(slp, f) \cup {p}) /\ d = IF p \in On(slp, f) THEN c ELSE c + 1
    BY <2>1, FS_AddElement
  <2>3. c \in Nat /\ d \in Nat
    BY <2>1, <2>2, FS_CardinalityType
  <2>4. c <= ref - 1
    BY <2>1
  <2> HIDE DEF c, d
  <2>5. d <= ref
    BY <1>1, <2>2, <2>3, <2>4
  <2> QED
    BY <2>2, <2>3, <2>5 DEF d
<1>14. Counted'
  BY <1>11, <1>12, <1>13 DEF Counted, Asking
<1>15. FidKept'
  <2> SUFFICES ASSUME NEW g \in File
               PROVE  /\ locks'[g] # <<>> => g \in fids'
                      /\ Cardinality(On(sleeplck, g)') <= refcnt'[g]
                      /\ refcnt'[g] > 0 => g \in fids'
    BY DEF FidKept, On
  <2>1. CASE g = f
    BY <1>11, <1>13, <2>1 DEF Asking
  <2>2. CASE g # f
    <3>1. locks'[g] = locks[g] /\ refcnt'[g] = refcnt[g] /\ (g \in fids => g \in fids')
      BY <1>5, <2>2 DEF Asking, Whole
    <3>2. On(sleeplck, g)' = On(slp, g)
      BY <1>12, <2>2
    <3> QED
      BY <2>2, <3>1, <3>2 DEF Asking
  <2> QED
    BY <2>1, <2>2
<1>16. Blocking'
  <2> SUFFICES ASSUME NEW g \in File, NEW j \in DOMAIN (locks'[g]),
                      NEW x \in (locks'[g][j]).sleepers
               PROVE  /\ sleeplck'[x] # None /\ sleeplck'[x].file = g
                      /\ Conflicts(locks'[g][j], sleeplck'[x].ld)
                      /\ sleeplck'[x].blkpid = locks'[g][j].pid
    BY DEF Blocking, InWay
  <2>1. CASE x = p /\ g = f /\ j = i
    <3>1. locks'[g][j] = k /\ sleeplck'[x] = e
      BY <1>1, <1>2, <1>5, <1>6, <2>1 DEF Asking, Whole
    <3> QED
      BY <1>2, <1>3, <1>4, <2>1, <3>1
  <2>2. CASE ~(x = p /\ g = f /\ j = i)
    <3>1. /\ DOMAIN (locks'[g]) = DOMAIN locks[g]
          /\ \A l : Conflicts(locks'[g][j], l) <=> Conflicts(locks[g][j], l)
          /\ x \in locks[g][j].sleepers /\ locks'[g][j].pid = locks[g][j].pid
      <4>1. CASE g = f /\ j = i
        <5>1. locks'[g] = [q EXCEPT ![i] = k] /\ locks'[g][j] = k
          BY <1>2, <1>5, <4>1 DEF Asking, Whole
        <5> QED
          BY <1>3, <2>2, <4>1, <5>1
      <4>2. CASE ~(g = f /\ j = i)
        <5>1. DOMAIN (locks'[g]) = DOMAIN locks[g] /\ locks'[g][j] = locks[g][j]
          BY <1>2, <1>5, <4>2 DEF Asking, Whole
        <5> QED
          BY <5>1
      <4> QED
        BY <4>1, <4>2
    <3>2. /\ slp[x] # None /\ slp[x].file = g /\ Conflicts(locks[g][j], slp[x].ld)
          /\ slp[x].blkpid = locks[g][j].pid
      BY <3>1 DEF Asking, InWay
    <3>3. x # p
      BY <3>2 DEF p
    <3>4. x \in Proc /\ sleeplck'[x] = slp[x]
      <4>1. locks[g][j] \in Lock
        BY <3>1, LockIn DEF Asking
      <4> QED
        BY <1>1, <1>6, <3>1, <3>3, <4>1 DEF Lock
    <3> QED
      BY <3>1, <3>2, <3>4
  <2> QED
    BY <2>1, <2>2
<1> QED
  BY <1>8, <1>9, <1>10, <1>14, <1>15, <1>16 DEF SInv
-----------------------------------------------------------------------------
(* The invariant is kept by each operation. *)

LEMMA SetKeeps ==
  ASSUME NEW f \in File, NEW ld \in Ld, NEW ins \in 0 .. Len(locks[f]), NEW slp, NEW ref,
         Asking(f, slp, ref), InWay(slp, f, locks[f]), Set(f, ld, ins, slp, ref)
  PROVE  SInv'
<1> DEFINE K == Range(locks[f])
<1>1. PICK free \in Left : LET q == Flckadj(locks[f], ins, ld, free).q
                           IN  /\ locks' = [locks EXCEPT ![f] = q]
                               /\ Freefid(f, ref, q)
                               /\ sleeplck' = slp
  BY DEF Set
<1> DEFINE q == Flckadj(locks[f], ins, ld, free).q
<1>2. free \in Nat
  BY ConstantAssumption
<1>3. K \in SUBSET Good /\ locks[f] \in Seq(K)
  BY LockIn DEF Asking
<1>4. locks' = [locks EXCEPT ![f] = q] /\ Freefid(f, ref, q) /\ sleeplck' = slp
  BY <1>1
<1> HIDE DEF K
<1>5. q \in Seq(Fresh(K))
  BY <1>2, <1>3, FlckadjList
<1> HIDE DEF q
<1>6. q \in Seq(Good)
  <2>1. Fresh(K) \subseteq Good
    BY <1>3, FreshGood
  <2> QED
    BY <1>5, <2>1
<1>7. InWay(slp, f, q)
  <2> SUFFICES ASSUME NEW i \in DOMAIN q, NEW p \in q[i].sleepers
               PROVE  /\ slp[p] # None /\ slp[p].file = f
                      /\ Conflicts(q[i], slp[p].ld) /\ slp[p].blkpid = q[i].pid
    BY DEF InWay
  <2>1. i \in 1 .. Len(q)
    BY <1>6
  <2>2. q[i] \in Fresh(K)
    BY <1>5, <2>1, ElementOfSeq
  <2>3. PICK j \in DOMAIN locks[f] : q[i] = locks[f][j]
    BY <2>2 DEF Fresh, Range, K
  <2> QED
    BY <2>3 DEF InWay
<1> QED
  BY <1>4, <1>6, <1>7, EndKeeps

LEMMA AskKeeps ==
  ASSUME NEW f \in File, NEW ld \in Ld, NEW setlk, NEW slp, NEW ref,
         Asking(f, slp, ref), InWay(slp, f, locks[f]), slp[ld.pid] = None,
         Ask(f, ld, setlk, slp, ref)
  PROVE  SInv'
<1>1. locks[f] \in Seq(Good)
  BY DEF Asking, Whole
<1>2. CASE Set(f, ld, Insrt(locks[f], ld), slp, ref)
  <2>1. Insrt(locks[f], ld) \in 0 .. Len(locks[f])
    BY <1>1, InsrtIn
  <2> QED
    BY <1>2, <2>1, SetKeeps
<1>3. CASE Freefid(f, ref, locks[f]) /\ sleeplck' = slp /\ UNCHANGED locks
  <2>1. locks' = [locks EXCEPT ![f] = locks[f]]
    BY <1>3 DEF Asking, Whole
  <2> QED
    BY <1>1, <1>3, <2>1, EndKeeps
<1>4. ASSUME NEW i \in Found(locks[f], ld),
             locks' = [locks EXCEPT ![f][i].sleepers = @ \cup {ld.pid}],
             sleeplck' = [slp EXCEPT ![ld.pid] =
                            [file |-> f, ld |-> ld, blkpid |-> locks[f][i].pid]],
             refcnt' = [refcnt EXCEPT ![f] = ref],
             fids' = fids \cup {f}
      PROVE  SInv'
  BY <1>4, SleepKeeps
<1> QED
  BY <1>2, <1>3, <1>4 DEF Ask

(* Whoever comes with a reference of its own finds things in order. *)
LEMMA Comes ==
  ASSUME SInv, NEW f \in File
  PROVE  Asking(f, sleeplck, refcnt[f] + 1) /\ InWay(sleeplck, f, locks[f])
<1>1. refcnt[f] \in Nat
  BY DEF SInv, TypeOK
<1>2. \A g \in File : InWay(sleeplck, g, locks[g])
  BY DEF SInv, Blocking
<1>3. refcnt[f] + 1 \in Nat \ {0} /\ (refcnt[f] + 1) - 1 = refcnt[f]
  BY <1>1
<1>4. \A p \in Proc : sleeplck[p] # None => sleeplck[p].ld.pid = p
  BY DEF SInv, OwnEntry
<1>5. \A g \in File : /\ locks[g] # <<>> => g \in fids
                      /\ refcnt[g] > 0 => g \in fids
                      /\ IsFiniteSet(On(sleeplck, g))
                      /\ Cardinality(On(sleeplck, g)) <= refcnt[g]
  BY DEF SInv, FidKept, Counted, On
<1>6. \A g \in File :
        Cardinality(On(sleeplck, g)) <= IF g = f THEN (refcnt[f] + 1) - 1 ELSE refcnt[g]
  BY <1>3, <1>5
<1>7. InWay(sleeplck, f, locks[f]) /\ \A g \in File : g # f => InWay(sleeplck, g, locks[g])
  BY <1>2
<1>8. /\ fids \subseteq File /\ refcnt \in [File -> Nat] /\ Whole
      /\ sleeplck \in [Proc -> Sleeper \cup {None}]
  BY DEF SInv, TypeOK
<1>9. Asking(f, sleeplck, refcnt[f] + 1)
  BY <1>3, <1>4, <1>5, <1>6, <1>7, <1>8, Zenon DEF Asking
<1> QED
  BY <1>7, <1>9

(* So does who was asleep, with the reference it kept. *)
LEMMA ComesBack ==
  ASSUME SInv, NEW p \in Proc, sleeplck[p] # None
  PROVE  LET e   == sleeplck[p]
             slp == [sleeplck EXCEPT ![p] = None]
         IN  /\ e.file \in File /\ e.ld \in Ld /\ e.ld.pid = p /\ slp[p] = None
             /\ Asking(e.file, slp, refcnt[e.file])
             /\ \A g \in File : \A i \in DOMAIN locks[g] : \A x \in locks[g][i].sleepers :
                  x # p => /\ slp[x] # None /\ slp[x].file = g
                           /\ Conflicts(locks[g][i], slp[x].ld) /\ slp[x].blkpid = locks[g][i].pid
<1> DEFINE e   == sleeplck[p]
           slp == [sleeplck EXCEPT ![p] = None]
<1>1. sleeplck \in [Proc -> Sleeper \cup {None}] /\ e \in Sleeper
  BY DEF SInv, TypeOK
<1>2. e.file \in File /\ e.ld \in Ld /\ e.ld.pid = p /\ slp[p] = None
  BY <1>1 DEF Sleeper, SInv, OwnEntry
<1>3. slp \in [Proc -> Sleeper \cup {None}]
  BY <1>1
<1>4. \A x \in Proc : x # p => slp[x] = sleeplck[x]
  BY <1>1
<1> HIDE DEF slp
<1>5. ASSUME NEW g \in File, NEW i \in DOMAIN locks[g], NEW x \in locks[g][i].sleepers
      PROVE  /\ sleeplck[x] # None /\ sleeplck[x].file = g
             /\ Conflicts(locks[g][i], sleeplck[x].ld) /\ x \in Proc
             /\ sleeplck[x].blkpid = locks[g][i].pid
  <2>1. locks[g][i] \in Lock
    BY LockIn DEF SInv
  <2> QED
    BY <2>1 DEF SInv, Blocking, InWay, Lock
<1>6. ASSUME NEW g \in File, NEW i \in DOMAIN locks[g], NEW x \in locks[g][i].sleepers, x # p
      PROVE  /\ slp[x] # None /\ slp[x].file = g
             /\ Conflicts(locks[g][i], slp[x].ld) /\ slp[x].blkpid = locks[g][i].pid
  BY <1>4, <1>5, <1>6
<1>7. \A g \in File : g # e.file => InWay(slp, g, locks[g])
  BY <1>5, <1>6 DEF InWay
<1>8. \A g \in File : g # e.file => On(slp, g) = On(sleeplck, g)
  BY <1>2, <1>4 DEF On
<1>9. On(slp, e.file) = On(sleeplck, e.file) \ {p} /\ p \in On(sleeplck, e.file)
  BY <1>2, <1>4 DEF On
<1>10. \A g \in File : /\ locks[g] # <<>> => g \in fids
                       /\ refcnt[g] > 0 => g \in fids
                       /\ IsFiniteSet(On(sleeplck, g))
                       /\ Cardinality(On(sleeplck, g)) <= refcnt[g]
                       /\ refcnt[g] \in Nat
  BY DEF SInv, FidKept, Counted, On, TypeOK
<1>11. /\ IsFiniteSet(On(slp, e.file)) /\ refcnt[e.file] \in Nat \ {0}
       /\ Cardinality(On(slp, e.file)) <= refcnt[e.file] - 1
  <2> DEFINE c == Cardinality(On(sleeplck, e.file))
             d == Cardinality(On(slp, e.file))
  <2>1. IsFiniteSet(On(slp, e.file)) /\ d = c - 1
    BY <1>2, <1>9, <1>10, FS_RemoveElement
  <2>2. c \in Nat /\ d \in Nat
    BY <1>2, <1>10, <2>1, FS_CardinalityType
  <2>3. refcnt[e.file] \in Nat /\ c <= refcnt[e.file]
    BY <1>2, <1>10
  <2> HIDE DEF c, d
  <2>4. refcnt[e.file] \in Nat \ {0} /\ d <= refcnt[e.file] - 1
    BY <2>1, <2>2, <2>3
  <2> QED
    BY <2>1, <2>4 DEF d
<1>12. \A x \in Proc : slp[x] # None => slp[x].ld.pid = x
  BY <1>2, <1>4 DEF SInv, OwnEntry
<1>13. Asking(e.file, slp, refcnt[e.file])
  <2>1. ASSUME NEW g \in File
        PROVE  /\ locks[g] # <<>> => g \in fids
               /\ refcnt[g] > 0 => g \in fids
               /\ IsFiniteSet(On(slp, g))
               /\ Cardinality(On(slp, g)) <= IF g = e.file THEN refcnt[e.file] - 1 ELSE refcnt[g]
    BY <1>8, <1>10, <1>11
  <2> HIDE DEF e
  <2> QED
    BY <1>3, <1>7, <1>11, <1>12, <2>1 DEF Asking, SInv, TypeOK
<1> QED
  BY <1>2, <1>6, <1>13, Zenon DEF slp
LEMMA InterruptKeeps ==
  ASSUME SInv, NEW p \in Proc, Interrupt(p)
  PROVE  SInv'
<1> DEFINE f   == sleeplck[p].file
           slp == [sleeplck EXCEPT ![p] = None]
           q   == [i \in DOMAIN locks[f] |-> [locks[f][i] EXCEPT !.sleepers = @ \ {p}]]
<1>1. /\ f \in File /\ slp[p] = None /\ Asking(f, slp, refcnt[f])
      /\ \A g \in File : \A i \in DOMAIN locks[g] : \A x \in locks[g][i].sleepers :
           x # p => /\ slp[x] # None /\ slp[x].file = g
                    /\ Conflicts(locks[g][i], slp[x].ld) /\ slp[x].blkpid = locks[g][i].pid
  BY ComesBack DEF Interrupt
<1>2. locks' = [locks EXCEPT ![f] = q] /\ Freefid(f, refcnt[f], locks[f]) /\ sleeplck' = slp
  BY <1>1 DEF Interrupt, Asking, Whole
<1> HIDE DEF f, slp
<1>3. /\ DOMAIN locks[f] = 1 .. Len(locks[f]) /\ Len(locks[f]) \in Nat
      /\ \A i \in DOMAIN locks[f] : locks[f][i] \in Good
  BY <1>1, LockIn DEF Asking
<1>4. ASSUME NEW i \in DOMAIN locks[f]
      PROVE  /\ q[i] \in Good /\ q[i].sleepers = locks[f][i].sleepers \ {p}
             /\ q[i].pid = locks[f][i].pid
             /\ \A l : Conflicts(q[i], l) <=> Conflicts(locks[f][i], l)
  <2>1. q[i] = [locks[f][i] EXCEPT !.sleepers = @ \ {p}] /\ locks[f][i] \in Good
    BY <1>3
  <2> HIDE DEF q
  <2> QED
    BY <2>1 DEF Good, Lock, Conflicts
<1>5. DOMAIN q = DOMAIN locks[f] /\ q = [i \in 1 .. Len(locks[f]) |-> q[i]]
  BY <1>3
<1> HIDE DEF q
<1>6. q \in Seq(Good) /\ Len(q) = Len(locks[f])
  <2>1. q \in [1 .. Len(locks[f]) -> Good]
    BY <1>3, <1>4, <1>5
  <2> QED
    BY <1>3, <2>1
<1>7. locks[f] = <<>> <=> q = <<>>
  <2>1. locks[f] \in Seq(Good)
    BY <1>1 DEF Asking, Whole
  <2> QED
    BY <1>6, <2>1, EmptySeq
<1>8. InWay(slp, f, q)
  <2> SUFFICES ASSUME NEW i \in DOMAIN q, NEW x \in q[i].sleepers
               PROVE  /\ slp[x] # None /\ slp[x].file = f
                      /\ Conflicts(q[i], slp[x].ld) /\ slp[x].blkpid = q[i].pid
    BY DEF InWay
  <2>1. i \in DOMAIN locks[f] /\ x \in locks[f][i].sleepers /\ x # p
    BY <1>4, <1>5
  <2> QED
    BY <1>1, <1>4, <2>1
<1> QED
  BY <1>1, <1>2, <1>6, <1>7, <1>8, EndKeeps

LEMMA CleanlocksKeeps ==
  ASSUME SInv, NEW p \in Proc, NEW f \in File, Cleanlocks(p, f)
  PROVE  SInv'
<1> DEFINE K == Range(locks[f])
           q == Others(locks[f], p)
<1>1. Asking(f, sleeplck, refcnt[f] + 1) /\ InWay(sleeplck, f, locks[f])
  BY Comes
<1>2. locks' = [locks EXCEPT ![f] = q] /\ Freefid(f, refcnt[f] + 1, q) /\ sleeplck' = sleeplck
  BY DEF Cleanlocks
<1>3. K \in SUBSET Good /\ locks[f] \in Seq(K)
  BY LockIn DEF SInv
<1>4. q \in Seq(K)
  BY <1>3, OthersList
<1> HIDE DEF q
<1>5. InWay(sleeplck, f, q)
  <2> SUFFICES ASSUME NEW i \in DOMAIN q, NEW x \in q[i].sleepers
               PROVE  /\ sleeplck[x] # None /\ sleeplck[x].file = f
                      /\ Conflicts(q[i], sleeplck[x].ld) /\ sleeplck[x].blkpid = q[i].pid
    BY DEF InWay
  <2>1. q[i] \in K
    <3>1. i \in 1 .. Len(q)
      BY <1>4
    <3> QED
      BY <1>4, <3>1, ElementOfSeq
  <2>2. PICK j \in DOMAIN locks[f] : q[i] = locks[f][j]
    BY <2>1 DEF Range
  <2> QED
    BY <1>1, <2>2 DEF InWay
<1>6. q \in Seq(Good)
  <2> HIDE DEF K
  <2> QED
    BY <1>3, <1>4
<1>7. q = <<>> <=> q = <<>>
  OBVIOUS
<1> HIDE DEF K
<1> QED
  BY <1>1, <1>2, <1>5, <1>6, <1>7, EndKeeps

LEMMA SInvInit == Init => SInv
<1> SUFFICES ASSUME Init PROVE SInv
  OBVIOUS
<1>1. \A f \in File : locks[f] = <<>> /\ refcnt[f] = 0 /\ On(sleeplck, f) = {}
  BY DEF Init, On
<1>2. TypeOK /\ Whole
  <2>1. <<>> \in Seq(Lock) /\ <<>> \in Seq(Good)
    OBVIOUS
  <2> QED
    BY <2>1 DEF Init, TypeOK, Whole
<1>3. OwnEntry
  BY DEF Init, OwnEntry
<1>4. Blocking
  BY <1>1 DEF Blocking, InWay
<1>5. Counted
  BY <1>1, FS_EmptySet DEF Counted
<1>6. FidKept
  <2> SUFFICES ASSUME NEW f \in File
               PROVE  /\ locks[f] # <<>> => f \in fids
                      /\ Cardinality(On(sleeplck, f)) <= refcnt[f]
                      /\ refcnt[f] > 0 => f \in fids
    BY DEF FidKept, On
  <2>1. Cardinality(On(sleeplck, f)) = 0
    BY <1>1, FS_EmptySet
  <2> QED
    BY <1>1, <2>1
<1> QED
  BY <1>2, <1>3, <1>4, <1>5, <1>6 DEF SInv

LEMMA SInvNext == SInv /\ [Next]_vars => SInv'
<1> SUFFICES ASSUME SInv, [Next]_vars PROVE SInv'
  OBVIOUS
<1>1. ASSUME NEW f \in File, NEW ld \in Ld, SetLock(f, ld) PROVE SInv'
  <2>1. Asking(f, sleeplck, refcnt[f] + 1) /\ InWay(sleeplck, f, locks[f])
    BY Comes
  <2>2. sleeplck[ld.pid] = None /\ Ask(f, ld, TRUE, sleeplck, refcnt[f] + 1)
    BY <1>1 DEF SetLock, Running
  <2> QED
    BY <2>1, <2>2, AskKeeps
<1>2. ASSUME NEW f \in File, NEW ld \in Ld, Unlock(f, ld) PROVE SInv'
  <2>1. Asking(f, sleeplck, refcnt[f] + 1) /\ InWay(sleeplck, f, locks[f])
    BY Comes
  <2>2. locks[f] \in Seq(Good)
    BY DEF SInv, Whole
  <2>3. (IF locks[f] = <<>> THEN 0 ELSE 1) \in 0 .. Len(locks[f])
    BY <2>2, EmptySeq
  <2>4. Set(f, ld, IF locks[f] = <<>> THEN 0 ELSE 1, sleeplck, refcnt[f] + 1)
    BY <1>2 DEF Unlock
  <2> QED
    BY <2>1, <2>3, <2>4, SetKeeps
<1>3. ASSUME NEW p \in Proc, Resume(p) PROVE SInv'
  <2> DEFINE e   == sleeplck[p]
             slp == [sleeplck EXCEPT ![p] = None]
  <2>1. /\ e.file \in File /\ e.ld \in Ld /\ e.ld.pid = p /\ slp[p] = None
        /\ Asking(e.file, slp, refcnt[e.file])
        /\ \A g \in File : \A i \in DOMAIN locks[g] : \A x \in locks[g][i].sleepers :
             x # p => /\ slp[x] # None /\ slp[x].file = g
                      /\ Conflicts(locks[g][i], slp[x].ld) /\ slp[x].blkpid = locks[g][i].pid
    BY <1>3, ComesBack DEF Resume
  <2>2. ~Asleep(p) /\ Ask(e.file, e.ld, FALSE, slp, refcnt[e.file])
    BY <1>3 DEF Resume
  <2> HIDE DEF e, slp
  <2>3. InWay(slp, e.file, locks[e.file])
    BY <2>1, <2>2 DEF InWay, Asleep
  <2> QED
    BY <2>1, <2>2, <2>3, AskKeeps
<1>4. ASSUME NEW p \in Proc, Interrupt(p) PROVE SInv'
  BY <1>4, InterruptKeeps
<1>5. ASSUME NEW p \in Proc, NEW f \in File, Cleanlocks(p, f) PROVE SInv'
  BY <1>5, CleanlocksKeeps
<1>6. CASE UNCHANGED vars
  <2>1. fids' = fids /\ refcnt' = refcnt /\ locks' = locks /\ sleeplck' = sleeplck
    BY <1>6 DEF vars
  <2>2. TypeOK' /\ Whole' /\ OwnEntry'
    BY <2>1 DEF SInv, TypeOK, Whole, OwnEntry
  <2>3. Blocking'
    BY <2>1 DEF SInv, Blocking, InWay
  <2>4. FidKept' /\ Counted'
    BY <2>1 DEF SInv, FidKept, Counted, On
  <2> QED
    BY <2>2, <2>3, <2>4 DEF SInv
<1> QED
  BY <1>1, <1>2, <1>3, <1>4, <1>5, <1>6 DEF Next

LEMMA SInvAlways == Spec => []SInv
BY SInvInit, SInvNext, PTL DEF Spec

(* The locks of every file stay well formed whatever flckadj cuts, splits and   *)
(* joins, and nothing it reaches is outside its list.                           *)
THEOREM LockTyped == Spec => []TypeOK
<1>1. SInv => TypeOK
  BY DEF SInv
<1> QED
  BY <1>1, SInvAlways, PTL

(* Whoever sleeps, sleeps on a lock that is in its way: what a split, a cut or  *)
(* a change of type leaves of a lock never keeps the sleepers it had.           *)
THEOREM LockSleepersWoken == Spec => []NoLostWakeup
<1>1. SInv => NoLostWakeup
  BY DEF SInv, Blocking, InWay, NoLostWakeup
<1> QED
  BY <1>1, SInvAlways, PTL

(* A file's identifier outlives its locks and its sleepers, and its references  *)
(* count at least the sleepers: freefid never lets go of one that is in use.    *)
THEOREM FileIdKept == Spec => []FidKept
<1>1. SInv => FidKept
  BY DEF SInv
<1> QED
  BY <1>1, SInvAlways, PTL

(* Of any set of sleepers one sleeps on a lock of a process outside the set:    *)
(* the end that a chain of the list has is an end of the waiting itself, since  *)
(* the lock a sleeper is on is still of the process deadflck looked at.         *)
THEOREM LockNoDeadlock == Spec => []NoDeadlock
<1>1. SInv /\ ChainsEnd => NoDeadlock
  <2> SUFFICES ASSUME SInv, ChainsEnd, NEW S \in SUBSET {p \in Proc : Asleep(p)}, S # {}
               PROVE  \E f \in File : \E i \in DOMAIN locks[f] :
                        locks[f][i].sleepers \cap S # {} /\ locks[f][i].pid \notin S
    BY DEF NoDeadlock
  <2>1. \A f \in File : \A i \in DOMAIN locks[f] : \A p \in locks[f][i].sleepers :
          sleeplck[p] # None /\ sleeplck[p].blkpid = locks[f][i].pid
    BY DEF SInv, Blocking, InWay
  <2>2. S \in SUBSET {p \in Proc : sleeplck[p] # None}
    BY <2>1 DEF Asleep
  <2>3. PICK p \in S : sleeplck[p].blkpid \notin S
    BY <2>2 DEF ChainsEnd
  <2>4. PICK f \in File : \E i \in DOMAIN locks[f] : p \in locks[f][i].sleepers
    BY DEF Asleep
  <2>5. PICK i \in DOMAIN locks[f] : p \in locks[f][i].sleepers
    BY <2>4
  <2> QED
    BY <2>1, <2>3, <2>5
<1> QED
  BY <1>1, SInvAlways, DeadlockChecked, PTL
-----------------------------------------------------------------------------
(* Where at most one process asks for read locks, the locks on a file are in   *)
(* order and apart, and what flckadj does to them is what ByteLocks allows.    *)

SoleReader == \A r, s \in Readers : r = s

(* One lock before another, with no byte in common and not to be joined. *)
Apart(k, m) ==
    /\ k.end <= m.start
    /\ k.pid = m.pid /\ k.end = m.start => k.type # m.type

Sorted(q) == \A i, j \in DOMAIN q : i < j => Apart(q[i], q[j])

(* A lock, or a request, and a byte. *)
Covers(k, b) == k.start <= b /\ b < k.end

(* p has a lock of type t on the byte. *)
Has(q, p, b, t) == \E j \in DOMAIN q : q[j].pid = p /\ q[j].type = t /\ Covers(q[j], b)

(* All of list q but its n-th is in r, and what of r is not is at n or e. *)
LEMMA InsertedAll ==
  ASSUME NEW S, NEW q \in Seq(S), NEW n \in 0 .. Len(q), NEW e \in S
  PROVE  /\ InsertAt(q, n + 1, e) \in Seq(S) /\ Len(InsertAt(q, n + 1, e)) = Len(q) + 1
         /\ \A j \in 1 .. n : InsertAt(q, n + 1, e)[j] = q[j]
         /\ InsertAt(q, n + 1, e)[n + 1] = e
         /\ \A j \in n + 2 .. Len(q) + 1 : InsertAt(q, n + 1, e)[j] = q[j - 1]
<1> DEFINE u == SubSeq(q, 1, n)
           v == SubSeq(q, n + 1, Len(q))
<1>1. Len(q) \in Nat /\ n \in Int /\ n + 1 \in Int /\ \A i \in 1 .. Len(q) : q[i] \in S
  OBVIOUS
<1>2. u \in Seq(S) /\ Len(u) = n /\ \A j \in 1 .. n : u[j] = q[j]
  <2>1. \A i \in 1 .. n : q[i] \in S
    BY <1>1
  <2> QED
    BY <1>1, <2>1, SubSeqProperties
<1>3. v \in Seq(S) /\ Len(v) = Len(q) - n /\ \A j \in 1 .. Len(q) - n : v[j] = q[j + n]
  <2>1. \A i \in n + 1 .. Len(q) : q[i] \in S
    BY <1>1
  <2>2. /\ v \in Seq(S)
        /\ Len(v) = IF n + 1 <= Len(q) THEN Len(q) - (n + 1) + 1 ELSE 0
        /\ \A i \in 1 .. Len(q) - (n + 1) + 1 : v[i] = q[n + 1 + i - 1]
    BY <1>1, <2>1, SubSeqProperties
  <2> HIDE DEF v
  <2> QED
    BY <1>1, <2>2
<1>4. InsertAt(q, n + 1, e) = u \o <<e>> \o v
  <2>1. InsertAt(q, n + 1, e) = SubSeq(q, 1, (n + 1) - 1) \o <<e>> \o SubSeq(q, n + 1, Len(q))
    BY Zenon DEF InsertAt
  <2>2. (n + 1) - 1 = n
    BY <1>1
  <2> QED
    BY <2>1, <2>2, Zenon
<1> HIDE DEF u, v
<1>5. <<e>> \in Seq(S) /\ Len(<<e>>) = 1 /\ <<e>>[1] = e
  OBVIOUS
<1>6. /\ u \o <<e>> \in Seq(S) /\ Len(u \o <<e>>) = Len(u) + Len(<<e>>)
      /\ \A j \in 1 .. Len(u) + Len(<<e>>) :
           (u \o <<e>>)[j] = IF j <= Len(u) THEN u[j] ELSE <<e>>[j - Len(u)]
  BY <1>2, <1>5, ConcatProperties, Zenon
<1> DEFINE w == u \o <<e>>
<1>7. /\ w \in Seq(S) /\ Len(w) = n + 1 /\ w[n + 1] = e
      /\ \A j \in 1 .. n : w[j] = q[j]
  BY <1>1, <1>2, <1>5, <1>6
<1>8. InsertAt(q, n + 1, e) = w \o v
  BY <1>4
<1> HIDE DEF w
<1>9. /\ w \o v \in Seq(S) /\ Len(w \o v) = Len(w) + Len(v)
      /\ \A j \in 1 .. Len(w) + Len(v) :
           (w \o v)[j] = IF j <= Len(w) THEN w[j] ELSE v[j - Len(w)]
  BY <1>3, <1>7, ConcatProperties, Zenon
<1>10. Len(w) + Len(v) = Len(q) + 1
  BY <1>1, <1>3, <1>7
<1>11. \A j \in 1 .. n : (w \o v)[j] = q[j]
  BY <1>1, <1>3, <1>7, <1>9
<1>12. (w \o v)[n + 1] = e
  BY <1>1, <1>3, <1>7, <1>9
<1>13. \A j \in n + 2 .. Len(q) + 1 : (w \o v)[j] = q[j - 1]
  <2> SUFFICES ASSUME NEW j \in n + 2 .. Len(q) + 1 PROVE (w \o v)[j] = q[j - 1]
    OBVIOUS
  <2>1. j \in 1 .. Len(w) + Len(v) /\ ~(j <= Len(w)) /\ j - Len(w) \in 1 .. Len(q) - n
        /\ (j - Len(w)) + n = j - 1
    BY <1>1, <1>7, <1>10
  <2>2. (w \o v)[j] = v[j - Len(w)]
    BY <1>9, <2>1
  <2>3. v[j - Len(w)] = q[(j - Len(w)) + n]
    BY <1>3, <2>1
  <2> QED
    BY <2>1, <2>2, <2>3
<1> QED
  BY <1>8, <1>9, <1>10, <1>11, <1>12, <1>13, Zenon

LEMMA RemovedAll ==
  ASSUME NEW S, NEW q \in Seq(S), NEW n \in 1 .. Len(q)
  PROVE  /\ RemoveAt(q, n) \in Seq(S) /\ Len(RemoveAt(q, n)) = Len(q) - 1
         /\ \A j \in 1 .. n - 1 : RemoveAt(q, n)[j] = q[j]
         /\ \A j \in n .. Len(q) - 1 : RemoveAt(q, n)[j] = q[j + 1]
<1> DEFINE u == SubSeq(q, 1, n - 1)
           v == SubSeq(q, n + 1, Len(q))
<1>1. Len(q) \in Nat /\ n \in Int /\ n - 1 \in Int /\ n + 1 \in Int
      /\ \A i \in 1 .. Len(q) : q[i] \in S
  OBVIOUS
<1>2. u \in Seq(S) /\ Len(u) = n - 1 /\ \A j \in 1 .. n - 1 : u[j] = q[j]
  <2>1. \A i \in 1 .. n - 1 : q[i] \in S
    BY <1>1
  <2> QED
    BY <1>1, <2>1, SubSeqProperties
<1>3. v \in Seq(S) /\ Len(v) = Len(q) - n /\ \A j \in 1 .. Len(q) - n : v[j] = q[j + n]
  <2>1. \A i \in n + 1 .. Len(q) : q[i] \in S
    BY <1>1
  <2>2. /\ v \in Seq(S)
        /\ Len(v) = IF n + 1 <= Len(q) THEN Len(q) - (n + 1) + 1 ELSE 0
        /\ \A i \in 1 .. Len(q) - (n + 1) + 1 : v[i] = q[n + 1 + i - 1]
    BY <1>1, <2>1, SubSeqProperties
  <2> HIDE DEF v
  <2> QED
    BY <1>1, <2>2
<1>4. RemoveAt(q, n) = u \o v
  BY Zenon DEF RemoveAt
<1> HIDE DEF u, v
<1>5. /\ u \o v \in Seq(S) /\ Len(u \o v) = Len(u) + Len(v)
      /\ \A j \in 1 .. Len(u) + Len(v) :
           (u \o v)[j] = IF j <= Len(u) THEN u[j] ELSE v[j - Len(u)]
  BY <1>2, <1>3, ConcatProperties, Zenon
<1>6. Len(u) + Len(v) = Len(q) - 1
  BY <1>1, <1>2, <1>3
<1>7. \A j \in 1 .. n - 1 : (u \o v)[j] = q[j]
  BY <1>1, <1>2, <1>3, <1>5
<1>8. \A j \in n .. Len(q) - 1 : (u \o v)[j] = q[j + 1]
  <2> SUFFICES ASSUME NEW j \in n .. Len(q) - 1 PROVE (u \o v)[j] = q[j + 1]
    OBVIOUS
  <2>1. j \in 1 .. Len(u) + Len(v) /\ ~(j <= Len(u)) /\ j - Len(u) \in 1 .. Len(q) - n
        /\ (j - Len(u)) + n = j + 1
    BY <1>1, <1>2, <1>6
  <2>2. (u \o v)[j] = v[j - Len(u)]
    BY <1>5, <2>1
  <2>3. v[j - Len(u)] = q[(j - Len(u)) + n]
    BY <1>3, <2>1
  <2> QED
    BY <2>1, <2>2, <2>3
<1> QED
  BY <1>4, <1>5, <1>6, <1>7, <1>8, Zenon

(* k's own bytes, or some of them. *)
PartOf(e, k) == e.pid = k.pid /\ e.type = k.type /\ k.start <= e.start /\ e.end <= k.end

(* r is q with n locks in place of its i-th, each a part of it. *)
Spliced(q, r, i, n) ==
    /\ Len(r) = (Len(q) - 1) + n
    /\ \A j \in 1 .. i - 1 : r[j] = q[j]
    /\ \A j \in i .. (i + n) - 1 : PartOf(r[j], q[i])
    /\ \A j, m \in i .. (i + n) - 1 : j < m => r[j].end < r[m].start
    /\ \A j \in i + n .. Len(r) : r[j] = q[(j + 1) - n]

LEMMA GoodRange ==
  ASSUME NEW k \in Good
  PROVE  /\ k.start \in Int /\ k.end \in Int /\ k.start < k.end
         /\ 0 <= k.start /\ k.end <= MaxEnd /\ k.pid \in Proc /\ k.type \in LockType
<1>1. k.start \in 0 .. MaxEnd - 1 /\ k.end \in 1 .. MaxEnd /\ k.start < k.end
      /\ k.pid \in Proc /\ k.type \in LockType
  BY DEF Good, Lock
<1> QED
  BY <1>1, ConstantAssumption

LEMMA GoodAt ==
  ASSUME NEW q \in Seq(Good)
  PROVE  /\ Len(q) \in Nat /\ DOMAIN q = 1 .. Len(q)
         /\ \A j \in 1 .. Len(q) : /\ q[j] \in Good /\ q[j].start \in Int /\ q[j].end \in Int
                                   /\ q[j].start < q[j].end
                                   /\ q[j].pid \in Proc /\ q[j].type \in LockType
<1>1. Len(q) \in Nat /\ DOMAIN q = 1 .. Len(q) /\ \A j \in 1 .. Len(q) : q[j] \in Good
  BY ElementOfSeq
<1> QED
  BY <1>1, GoodRange

LEMMA SplicedSorted ==
  ASSUME NEW q \in Seq(Good), NEW r \in Seq(Good), NEW i \in 1 .. Len(q), NEW n \in 0 .. 2,
         Spliced(q, r, i, n), Sorted(q)
  PROVE  Sorted(r)
<1> DEFINE Orig(j) == IF j < i THEN j ELSE IF j < i + n THEN i ELSE (j + 1) - n
<1>1. /\ Len(q) \in Nat /\ DOMAIN q = 1 .. Len(q)
      /\ \A j \in 1 .. Len(q) : q[j].start \in Int /\ q[j].end \in Int /\ q[j].start < q[j].end
      /\ Len(r) \in Nat /\ DOMAIN r = 1 .. Len(r)
      /\ \A j \in 1 .. Len(r) : r[j].start \in Int /\ r[j].end \in Int /\ r[j].start < r[j].end
  BY GoodAt
<1>2. Len(r) = (Len(q) - 1) + n
  BY DEF Spliced
<1>3. ASSUME NEW j \in 1 .. Len(r)
      PROVE  Orig(j) \in 1 .. Len(q) /\ PartOf(r[j], q[Orig(j)])
  <2>1. CASE j < i
    <3>1. Orig(j) = j /\ r[j] = q[j] /\ j \in 1 .. Len(q)
      BY <1>1, <2>1, SMTT(60) DEF Spliced
    <3>2. PartOf(q[j], q[j])
      BY <1>1, <3>1 DEF PartOf
    <3> HIDE DEF Orig
    <3> QED
      BY <3>1, <3>2
  <2>2. CASE ~(j < i) /\ j < i + n
    <3>1. Orig(j) = i /\ j \in i .. (i + n) - 1
      BY <1>1, <2>2
    <3> QED
      BY <3>1 DEF Spliced
  <2>3. CASE ~(j < i) /\ ~(j < i + n)
    <3>1. Orig(j) = (j + 1) - n /\ j \in i + n .. Len(r) /\ (j + 1) - n \in 1 .. Len(q)
      BY <1>1, <1>2, <2>3
    <3>2. r[j] = q[(j + 1) - n]
      BY <3>1 DEF Spliced
    <3>3. \A e \in 1 .. Len(q) : PartOf(q[e], q[e])
      BY <1>1 DEF PartOf
    <3> HIDE DEF Orig
    <3> QED
      BY <3>1, <3>2, <3>3
  <2> QED
    BY <2>1, <2>2, <2>3
<1> SUFFICES ASSUME NEW j \in 1 .. Len(r), NEW m \in 1 .. Len(r), j < m
             PROVE  Apart(r[j], r[m])
  BY <1>1 DEF Sorted
<1>4. CASE Orig(j) < Orig(m)
  <2>1. Apart(q[Orig(j)], q[Orig(m)])
    BY <1>1, <1>3, <1>4 DEF Sorted
  <2>2. PICK x \in 1 .. Len(q), y \in 1 .. Len(q) :
               PartOf(r[j], q[x]) /\ PartOf(r[m], q[y]) /\ Apart(q[x], q[y])
    BY <1>3, <2>1
  <2>3. /\ q[x].end \in Int /\ q[y].start \in Int /\ r[j].end \in Int /\ r[m].start \in Int
    BY <1>1
  <2>4. r[j].end <= q[x].end /\ q[x].end <= q[y].start /\ q[y].start <= r[m].start
    BY <2>2 DEF Apart, PartOf
  <2>5. r[j].end <= r[m].start /\ (r[j].end = r[m].start => q[x].end = q[y].start)
    BY <2>3, <2>4
  <2> QED
    BY <2>2, <2>5 DEF Apart, PartOf
<1>5. CASE ~(Orig(j) < Orig(m))
  <2>1. j \in i .. (i + n) - 1 /\ m \in i .. (i + n) - 1
    BY <1>1, <1>5
  <2>2. r[j].end < r[m].start
    BY <2>1 DEF Spliced
  <2> QED
    BY <1>1, <2>2 DEF Apart
<1> QED
  BY <1>4, <1>5

(* What is lost of q in r are bytes of the i-th lock that no part of it covers. *)
LEMMA SplicedHas ==
  ASSUME NEW q \in Seq(Good), NEW r \in Seq(Good), NEW i \in 1 .. Len(q), NEW n \in 0 .. 2,
         Spliced(q, r, i, n), NEW p, NEW b \in Int, NEW t
  PROVE  /\ Has(r, p, b, t) => Has(q, p, b, t)
         /\ Has(q, p, b, t) /\ ~Has(r, p, b, t) =>
              /\ p = q[i].pid /\ t = q[i].type /\ Covers(q[i], b)
              /\ \A j \in i .. (i + n) - 1 : ~Covers(r[j], b)
<1>1. /\ Len(q) \in Nat /\ DOMAIN q = 1 .. Len(q)
      /\ \A j \in 1 .. Len(q) : q[j].start \in Int /\ q[j].end \in Int
      /\ Len(r) \in Nat /\ DOMAIN r = 1 .. Len(r)
      /\ \A j \in 1 .. Len(r) : r[j].start \in Int /\ r[j].end \in Int
  BY GoodAt
<1>2. Len(r) = (Len(q) - 1) + n
  BY DEF Spliced
<1>3. ASSUME Has(r, p, b, t) PROVE Has(q, p, b, t)
  <2>1. PICK j \in 1 .. Len(r) : r[j].pid = p /\ r[j].type = t /\ Covers(r[j], b)
    BY <1>1, <1>3 DEF Has
  <2>2. CASE j < i
    <3>1. r[j] = q[j] /\ j \in 1 .. Len(q)
      BY <1>1, <2>2 DEF Spliced
    <3> QED
      BY <1>1, <2>1, <3>1 DEF Has
  <2>3. CASE ~(j < i) /\ j < i + n
    <3>1. PartOf(r[j], q[i])
      BY <1>1, <2>3 DEF Spliced
    <3>2. q[i].pid = p /\ q[i].type = t /\ Covers(q[i], b)
      BY <1>1, <2>1, <3>1 DEF PartOf, Covers
    <3> QED
      BY <1>1, <3>2 DEF Has
  <2>4. CASE ~(j < i) /\ ~(j < i + n)
    <3>1. (j + 1) - n \in 1 .. Len(q) /\ r[j] = q[(j + 1) - n]
      BY <1>1, <1>2, <2>4 DEF Spliced
    <3> QED
      BY <1>1, <2>1, <3>1 DEF Has
  <2> QED
    BY <2>2, <2>3, <2>4
<1>4. ASSUME Has(q, p, b, t), ~Has(r, p, b, t)
      PROVE  /\ p = q[i].pid /\ t = q[i].type /\ Covers(q[i], b)
             /\ \A j \in i .. (i + n) - 1 : ~Covers(r[j], b)
  <2>1. PICK j \in 1 .. Len(q) : q[j].pid = p /\ q[j].type = t /\ Covers(q[j], b)
    BY <1>1, <1>4 DEF Has
  <2>2. ~(j < i)
    <3> SUFFICES ASSUME j < i PROVE FALSE
      OBVIOUS
    <3>1. j \in 1 .. Len(r) /\ r[j] = q[j]
      BY <1>1, <1>2 DEF Spliced
    <3> QED
      BY <1>1, <1>4, <2>1, <3>1 DEF Has
  <2>3. ~(j > i)
    <3> SUFFICES ASSUME j > i PROVE FALSE
      OBVIOUS
    <3> DEFINE m == (j - 1) + n
    <3>1. m \in i + n .. Len(r) /\ m \in 1 .. Len(r) /\ (m + 1) - n = j
      BY <1>1, <1>2
    <3> HIDE DEF m
    <3>2. r[m] = q[j]
      BY <3>1 DEF Spliced
    <3> QED
      BY <1>1, <1>4, <2>1, <3>1, <3>2 DEF Has
  <2>4. j = i
    BY <1>1, <2>2, <2>3
  <2>5. ASSUME NEW m \in i .. (i + n) - 1, Covers(r[m], b) PROVE FALSE
    <3>1. m \in 1 .. Len(r) /\ PartOf(r[m], q[i])
      BY <1>1, <1>2 DEF Spliced
    <3>2. r[m].pid = p /\ r[m].type = t
      BY <2>1, <2>4, <3>1 DEF PartOf
    <3> QED
      BY <1>1, <1>4, <2>5, <3>1, <3>2 DEF Has
  <2> QED
    BY <2>1, <2>4, <2>5
<1> QED
  BY <1>3, <1>4
-----------------------------------------------------------------------------
(* What holds of a walk a on the way, and at its end, that sets d in the       *)
(* list q.                                                                     *)

Before(k, ld) == k.end <= ld.start /\ (k.end = ld.start => k.type # ld.type)
After(k, ld)  == ld.end <= k.start /\ (k.start = ld.end => k.type # ld.type)

(* The locks of other processes have no byte of ld. *)
Clear(q, ld) ==
    \A j \in DOMAIN q : q[j].pid # ld.pid => q[j].end <= ld.start \/ ld.end <= q[j].start

(* The range has grown, if it has, and then there is a record for it. *)
Asked(d, a) ==
    /\ a.ld.pid = d.pid /\ a.ld.type = d.type
    /\ a.ld.start <= d.start /\ d.end <= a.ld.end
    /\ a.free = 0 => a.ld.start = d.start /\ a.ld.end = d.end

(* The process has lost of q what it is to have again, or has asked to lose,   *)
(* and the others nothing; and the range has grown by what it had of the type. *)
Unharmed(q, d, a) ==
    /\ \A x \in Proc, b \in Int, t \in LockType :
         /\ Has(a.q, x, b, t) => Has(q, x, b, t)
         /\ Has(q, x, b, t) /\ ~Has(a.q, x, b, t) =>
              x = d.pid /\ Covers(a.ld, b) /\ (Covers(d, b) \/ t = d.type)
    /\ \A b \in Int : Covers(a.ld, b) /\ ~Covers(d, b) => Has(q, d.pid, b, d.type)

(* insrtp is a lock that begins before the range, if any does. *)
Placed(d, a) ==
    d.type # "F_UNLCK" =>
        IF a.ins = 0 THEN \A j \in DOMAIN a.q : a.ld.start <= a.q[j].start
        ELSE a.q[a.ins].start < a.ld.start

(* What the process has behind it is before the range. *)
Passed(d, a) ==
    \A j \in DOMAIN a.q : j < a.i /\ a.q[j].pid = d.pid => Before(a.q[j], a.ld)

(* Until it stops, what is lost lies before the locks ahead of it. *)
Goes(q, d, a) ==
    ~a.stop =>
        /\ a.result = "set" /\ a.ld.end = d.end
        /\ a.ld.start = d.start \/ \A j \in DOMAIN a.q : j >= a.i => d.start <= a.q[j].start
        /\ \A b \in Int, t \in LockType : Has(q, d.pid, b, t) /\ ~Has(a.q, d.pid, b, t) =>
             \A j \in DOMAIN a.q : j >= a.i => b < a.q[j].start

(* When it stops, nothing the process has is in the range; or one lock covers  *)
(* it; or it has lost the first bytes of it, up to c.                          *)
Ended(q, d, a) ==
    a.stop =>
        /\ a.result = "set" =>
             \A j \in DOMAIN a.q : j >= a.i /\ a.q[j].pid = d.pid => After(a.q[j], a.ld)
        /\ a.result = "done" =>
             \E j \in DOMAIN a.q : /\ a.q[j].pid = d.pid /\ a.q[j].type = d.type
                                   /\ a.q[j].start <= a.ld.start /\ a.ld.end <= a.q[j].end
        /\ a.result = "ENOSPC" =>
             /\ a.ld.start = d.start /\ a.ld.end = d.end
             /\ \E c \in d.start .. d.end : \A b \in Int, t \in LockType :
                  /\ Has(q, d.pid, b, t) /\ ~Has(a.q, d.pid, b, t) => b < c
                  /\ d.start <= b /\ b < c => ~Has(a.q, d.pid, b, t)

Sane(q, d, a) ==
    /\ Asked(d, a)
    /\ Sorted(a.q)
    /\ d.type # "F_UNLCK" => Clear(a.q, a.ld)
    /\ Unharmed(q, d, a) /\ Placed(d, a) /\ Passed(d, a)
    /\ Goes(q, d, a) /\ Ended(q, d, a)

LEMMA LdRange ==
  ASSUME NEW d \in Ld
  PROVE  /\ d.start \in Int /\ d.end \in Int /\ d.start < d.end
         /\ 0 <= d.start /\ d.end <= MaxEnd /\ d.pid \in Proc
         /\ d.type \in LockType \cup {"F_UNLCK"}
<1>1. d.start \in 0 .. MaxEnd - 1 /\ d.end \in 1 .. MaxEnd /\ d.start < d.end
      /\ d.pid \in Proc /\ d.type \in LockType \cup {"F_UNLCK"}
  BY DEF Ld
<1> QED
  BY <1>1, ConstantAssumption

LEMMA WalkFacts ==
  ASSUME NEW K \in SUBSET Good, NEW a \in Walks(K)
  PROVE  /\ a.q \in Seq(Good) /\ Len(a.q) \in Nat /\ DOMAIN a.q = 1 .. Len(a.q)
         /\ a.i \in Nat \ {0} /\ a.ins \in Nat /\ a.ins <= a.i /\ a.ins <= Len(a.q)
         /\ a.ld \in Ld /\ a.ld.start \in Int /\ a.ld.end \in Int /\ a.ld.start < a.ld.end
         /\ a.free \in Nat /\ a.stop \in BOOLEAN /\ a.result \in {"set", "done", "ENOSPC"}
         /\ \A j \in 1 .. Len(a.q) : /\ a.q[j] \in Good /\ a.q[j].start \in Int
                                     /\ a.q[j].end \in Int /\ a.q[j].start < a.q[j].end
                                     /\ a.q[j].pid \in Proc /\ a.q[j].type \in LockType
<1>1. /\ a.q \in Seq(Fresh(K)) /\ a.ld \in Ld
      /\ a.i \in Nat \ {0} /\ a.ins \in Nat /\ a.ins <= a.i /\ a.ins <= Len(a.q)
      /\ a.free \in Nat /\ a.stop \in BOOLEAN /\ a.result \in {"set", "done", "ENOSPC"}
  BY DEF Walks
<1>2. a.q \in Seq(Good)
  <2>1. Fresh(K) \subseteq Good
    BY FreshGood
  <2> QED
    BY <1>1, <2>1
<1>3. a.ld.start \in Int /\ a.ld.end \in Int /\ a.ld.start < a.ld.end
  BY <1>1, LdRange
<1> QED
  BY <1>1, <1>2, <1>3, GoodAt

(* The lock it is at, the process's own, is replaced by parts of it, and what  *)
(* they leave of it the range covers, which may have grown over it.            *)
Carved(a, z, n) ==
    LET k == a.q[a.i]
    IN  /\ Spliced(a.q, z.q, a.i, n)
        /\ z.ld.pid = a.ld.pid /\ z.ld.type = a.ld.type
        /\ \/ z.ld.start = a.ld.start /\ z.ld.end = a.ld.end
           \/ /\ z.ld.start = k.start /\ z.ld.end = a.ld.end /\ k.type = a.ld.type
              /\ k.start < a.ld.start /\ a.ld.start <= k.end /\ k.end < a.ld.end
           \/ /\ z.ld.start = a.ld.start /\ z.ld.end = k.end /\ k.type = a.ld.type
              /\ a.ld.start < k.start /\ k.start <= a.ld.end /\ a.ld.end <= k.end
        /\ \A b \in Int : Covers(k, b) /\ ~Covers(z.ld, b) =>
             \E j \in a.i .. (a.i + n) - 1 : Covers(z.q[j], b)

LEMMA CarvedKeeps ==
  ASSUME NEW K \in SUBSET Good, NEW q, NEW d \in Ld, NEW a \in Walks(K), Sane(q, d, a), ~a.stop,
         a.i <= Len(a.q), a.q[a.i].pid = d.pid,
         NEW z \in Walks(K), NEW n \in 0 .. 2, Carved(a, z, n)
  PROVE  /\ Sorted(z.q)
         /\ d.type # "F_UNLCK" => Clear(z.q, z.ld)
         /\ Unharmed(q, d, z)
         /\ \A b \in Int, t \in LockType : Has(q, d.pid, b, t) /\ ~Has(z.q, d.pid, b, t) =>
              \A j \in a.i + 1 .. Len(a.q) : b < a.q[j].start
         /\ \A j \in 1 .. a.i - 1 : z.q[j].pid = d.pid => Before(z.q[j], z.ld)
<1> DEFINE k == a.q[a.i]
           i == a.i
<1>1. /\ a.q \in Seq(Good) /\ Len(a.q) \in Nat /\ DOMAIN a.q = 1 .. Len(a.q) /\ i \in 1 .. Len(a.q)
      /\ a.ld.start \in Int /\ a.ld.end \in Int /\ a.ld.start < a.ld.end
      /\ \A j \in 1 .. Len(a.q) : /\ a.q[j].start \in Int /\ a.q[j].end \in Int
                                  /\ a.q[j].start < a.q[j].end
                                  /\ a.q[j].pid \in Proc /\ a.q[j].type \in LockType
  BY WalkFacts
<1>2. /\ z.q \in Seq(Good) /\ Len(z.q) \in Nat /\ DOMAIN z.q = 1 .. Len(z.q)
      /\ z.ld.start \in Int /\ z.ld.end \in Int /\ z.ld.start < z.ld.end
      /\ \A j \in 1 .. Len(z.q) : /\ z.q[j].start \in Int /\ z.q[j].end \in Int
                                  /\ z.q[j].start < z.q[j].end
  BY WalkFacts
<1>3. d.start \in Int /\ d.end \in Int /\ d.start < d.end
  BY LdRange
<1>4. /\ Asked(d, a) /\ Sorted(a.q) /\ Unharmed(q, d, a) /\ Goes(q, d, a)
      /\ d.type # "F_UNLCK" => Clear(a.q, a.ld)
  BY DEF Sane
<1>5. Spliced(a.q, z.q, i, n)
  BY DEF Carved
<1>6. Sorted(z.q)
  BY <1>1, <1>2, <1>4, <1>5, SplicedSorted
<1>7. /\ k.start \in Int /\ k.end \in Int /\ k.start < k.end /\ k.pid = d.pid
      /\ k.type \in LockType /\ d.pid \in Proc
  BY <1>1
<1>8. /\ \/ z.ld.start = a.ld.start /\ z.ld.end = a.ld.end
         \/ /\ z.ld.start = k.start /\ z.ld.end = a.ld.end /\ k.type = d.type
            /\ k.start < a.ld.start /\ a.ld.start <= k.end /\ k.end < a.ld.end
         \/ /\ z.ld.start = a.ld.start /\ z.ld.end = k.end /\ k.type = d.type
            /\ a.ld.start < k.start /\ k.start <= a.ld.end /\ a.ld.end <= k.end
      /\ \A b \in Int : Covers(k, b) /\ ~Covers(z.ld, b) =>
           \E j \in i .. (i + n) - 1 : Covers(z.q[j], b)
      /\ z.ld.pid = d.pid /\ z.ld.type = d.type
  BY <1>4 DEF Carved, Asked
<1>9. /\ a.ld.end = d.end /\ a.ld.start <= d.start /\ a.ld.pid = d.pid
      /\ a.ld.start = d.start \/ d.start <= k.start
  BY <1>1, <1>4 DEF Goes, Asked
<1>10. ASSUME NEW b \in Int, Covers(a.ld, b) PROVE Covers(z.ld, b)
  <2> HIDE DEF k
  <2> QED
    BY <1>1, <1>2, <1>7, <1>8, <1>10 DEF Covers
<1>11. ASSUME NEW x \in Proc, NEW b \in Int, NEW t \in LockType
       PROVE  /\ Has(z.q, x, b, t) => Has(a.q, x, b, t)
              /\ Has(a.q, x, b, t) /\ ~Has(z.q, x, b, t) =>
                   /\ x = d.pid /\ t = k.type /\ Covers(k, b)
                   /\ \A j \in i .. (i + n) - 1 : ~Covers(z.q[j], b)
  <2>1. /\ Has(z.q, x, b, t) => Has(a.q, x, b, t)
        /\ Has(a.q, x, b, t) /\ ~Has(z.q, x, b, t) =>
             /\ x = k.pid /\ t = k.type /\ Covers(k, b)
             /\ \A j \in i .. (i + n) - 1 : ~Covers(z.q[j], b)
    <3>1. /\ a.q \in Seq(Good) /\ z.q \in Seq(Good) /\ i \in 1 .. Len(a.q)
          /\ Spliced(a.q, z.q, i, n)
      BY <1>1, <1>2, <1>5
    <3> HIDE DEF i
    <3>2. /\ Has(z.q, x, b, t) => Has(a.q, x, b, t)
          /\ Has(a.q, x, b, t) /\ ~Has(z.q, x, b, t) =>
               /\ x = a.q[i].pid /\ t = a.q[i].type /\ Covers(a.q[i], b)
               /\ \A j \in i .. (i + n) - 1 : ~Covers(z.q[j], b)
      BY <3>1, SplicedHas, SMTT(60)
    <3> QED
      BY <3>2 DEF i
  <2> HIDE DEF k, i
  <2> QED
    BY <1>7, <2>1
<1> HIDE DEF k, i
<1>12. Unharmed(q, d, z)
  <2>1. ASSUME NEW x \in Proc, NEW b \in Int, NEW t \in LockType, Has(z.q, x, b, t)
        PROVE  Has(q, x, b, t)
    BY <1>4, <1>11, <2>1 DEF Unharmed
  <2>2. ASSUME NEW x \in Proc, NEW b \in Int, NEW t \in LockType,
               Has(q, x, b, t), ~Has(z.q, x, b, t)
        PROVE  x = d.pid /\ Covers(z.ld, b) /\ (Covers(d, b) \/ t = d.type)
    <3>1. CASE ~Has(a.q, x, b, t)
      BY <1>4, <1>10, <2>2, <3>1 DEF Unharmed
    <3>2. CASE Has(a.q, x, b, t)
      <4>1. x = d.pid /\ t = k.type /\ Covers(k, b) /\ Covers(z.ld, b)
        BY <1>8, <1>11, <2>2, <3>2
      <4>2. CASE k.type = d.type
        BY <4>1, <4>2
      <4>3. CASE k.type # d.type
        <5>1. z.ld.start = a.ld.start /\ z.ld.end = a.ld.end
          BY <1>8, <4>3
        <5>2. Covers(d, b)
          BY <1>1, <1>3, <1>7, <1>9, <4>1, <5>1 DEF Covers
        <5> QED
          BY <4>1, <5>2
      <4> QED
        BY <4>2, <4>3
    <3> QED
      BY <3>1, <3>2
  <2>3. ASSUME NEW b \in Int, Covers(z.ld, b), ~Covers(d, b) PROVE Has(q, d.pid, b, d.type)
    <3>1. CASE Covers(a.ld, b)
      BY <1>4, <2>3, <3>1 DEF Unharmed
    <3>2. CASE ~Covers(a.ld, b)
      <4>1. Covers(k, b) /\ k.type = d.type
        BY <1>1, <1>2, <1>7, <1>8, <2>3, <3>2 DEF Covers
      <4>2. Has(a.q, d.pid, b, d.type)
        BY <1>1, <1>7, <4>1 DEF Has, k, i
      <4> QED
        BY <1>4, <1>7, <4>1, <4>2 DEF Unharmed
    <3> QED
      BY <3>1, <3>2
  <2> QED
    BY <2>1, <2>2, <2>3 DEF Unharmed
<1>13. ASSUME d.type # "F_UNLCK" PROVE Clear(z.q, z.ld)
  <2> SUFFICES ASSUME NEW j \in 1 .. Len(z.q), z.q[j].pid # d.pid
               PROVE  z.q[j].end <= z.ld.start \/ z.ld.end <= z.q[j].start
    BY <1>2, <1>8 DEF Clear
  <2>1. PICK m \in 1 .. Len(a.q) : z.q[j] = a.q[m] /\ m # i
    <3>1. CASE j < i
      <4>1. j \in 1 .. i - 1 /\ j \in 1 .. Len(a.q) /\ j # i
        BY <1>1, <3>1
      <4>2. z.q[j] = a.q[j]
        BY <1>5, <4>1 DEF Spliced
      <4> QED
        BY <4>1, <4>2
    <3>2. CASE ~(j < i) /\ j < i + n
      <4>1. j \in i .. (i + n) - 1
        BY <1>1, <3>2
      <4>2. z.q[j].pid = k.pid
        BY <1>5, <4>1 DEF Spliced, PartOf, k, i
      <4> QED
        BY <1>7, <4>2
    <3>3. CASE ~(j < i) /\ ~(j < i + n)
      <4>1. /\ Len(z.q) = (Len(a.q) - 1) + n
            /\ j \in i + n .. Len(z.q)
        BY <1>1, <1>5, <3>3 DEF Spliced
      <4>2. (j + 1) - n \in 1 .. Len(a.q) /\ (j + 1) - n # i
        BY <1>1, <4>1
      <4>3. z.q[j] = a.q[(j + 1) - n]
        BY <1>5, <4>1 DEF Spliced
      <4> QED
        BY <4>2, <4>3
    <3> QED
      BY <3>1, <3>2, <3>3
  <2> DEFINE o == a.q[m]
  <2>2. o.end <= a.ld.start \/ a.ld.end <= o.start
    BY <1>1, <1>4, <1>9, <1>13, <2>1 DEF Clear
  <2>3. o.end <= k.start \/ k.end <= o.start
    <3>1. (m < i => Apart(a.q[m], a.q[i])) /\ (i < m => Apart(a.q[i], a.q[m]))
      BY <1>1, <1>4, <2>1 DEF Sorted
    <3>2. m < i \/ i < m
      BY <1>1, <2>1
    <3> QED
      BY <3>1, <3>2 DEF Apart, k, i
  <2>4. o.start \in Int /\ o.end \in Int /\ o.start < o.end /\ z.q[j] = o
    BY <1>1, <2>1
  <2> HIDE DEF o
  <2> QED
    BY <1>1, <1>2, <1>7, <1>8, <2>2, <2>3, <2>4, SMTT(60)
<1>14. ASSUME NEW b \in Int, NEW t \in LockType, Has(q, d.pid, b, t), ~Has(z.q, d.pid, b, t),
              NEW j \in i + 1 .. Len(a.q)
       PROVE  b < a.q[j].start
  <2>0. j \in 1 .. Len(a.q) /\ i < j /\ j >= i
    BY <1>1
  <2>1. CASE ~Has(a.q, d.pid, b, t)
    <3>1. j >= a.i
      BY <2>0 DEF i
    <3> QED
      BY <1>1, <1>4, <1>14, <2>0, <2>1, <3>1 DEF Goes
  <2>2. CASE Has(a.q, d.pid, b, t)
    <3>1. Covers(k, b)
      BY <1>7, <1>11, <1>14, <2>2
    <3>2. k.end <= a.q[j].start
      BY <1>1, <1>4, <2>0 DEF Sorted, Apart, k, i
    <3>3. a.q[j].start \in Int
      BY <1>1, <2>0
    <3> QED
      BY <1>7, <3>1, <3>2, <3>3 DEF Covers
  <2> QED
    BY <2>1, <2>2
<1>15. ASSUME NEW j \in 1 .. i - 1, z.q[j].pid = d.pid
       PROVE  Before(z.q[j], z.ld)
  <2>1. j \in 1 .. Len(a.q) /\ j < i /\ z.q[j] = a.q[j]
    BY <1>1, <1>5 DEF Spliced
  <2>2. Before(a.q[j], a.ld)
    <3>1. j < a.i /\ j \in DOMAIN a.q
      BY <1>1, <2>1 DEF i
    <3> QED
      BY <1>15, <2>1, <3>1 DEF Sane, Passed
  <2>3. Apart(a.q[j], k)
    BY <1>1, <1>4, <2>1 DEF Sorted, k, i
  <2>4. a.ld.type = d.type /\ z.ld.type = d.type /\ a.q[j].pid = k.pid
        /\ a.q[j].end \in Int
    BY <1>1, <1>4, <1>7, <1>8, <1>15, <2>1 DEF Asked
  <2> QED
    BY <1>1, <1>2, <1>7, <1>8, <2>1, <2>2, <2>3, <2>4 DEF Before, Apart
<1> QED
  BY <1>6, <1>12, <1>13, <1>14, <1>15 DEF i

(* insrtp after the lock it is at is gone, or the end of it is left. *)
LEMMA CarvedPlaced ==
  ASSUME NEW K \in SUBSET Good, NEW q, NEW d \in Ld, NEW a \in Walks(K), Sane(q, d, a),
         a.i <= Len(a.q), NEW z \in Walks(K), NEW n \in 0 .. 1, Spliced(a.q, z.q, a.i, n),
         Sorted(z.q),
         \/ /\ z.ins = a.i - 1 /\ z.ld.start = a.q[a.i].start
         \/ /\ z.ins = IF a.ins = a.i THEN a.i - 1 ELSE a.ins
            /\ z.ld.start = a.ld.start /\ a.ld.start < a.q[a.i].start
  PROVE  Placed(d, z)
<1> DEFINE k == a.q[a.i]
           i == a.i
<1>1. /\ Len(a.q) \in Nat /\ DOMAIN a.q = 1 .. Len(a.q) /\ i \in 1 .. Len(a.q)
      /\ a.ins \in Nat /\ a.ins <= i /\ a.ld.start \in Int
      /\ \A j \in 1 .. Len(a.q) : /\ a.q[j].start \in Int /\ a.q[j].end \in Int
                                  /\ a.q[j].start < a.q[j].end
  BY WalkFacts
<1>2. /\ Len(z.q) \in Nat /\ DOMAIN z.q = 1 .. Len(z.q) /\ z.ld.start \in Int
      /\ z.ins \in Nat /\ z.ins <= Len(z.q)
      /\ \A j \in 1 .. Len(z.q) : /\ z.q[j].start \in Int /\ z.q[j].end \in Int
                                  /\ z.q[j].start < z.q[j].end
  BY WalkFacts
<1>3. \A j, m \in 1 .. Len(a.q) : j < m => a.q[j].start < a.q[m].start
  <2> SUFFICES ASSUME NEW j \in 1 .. Len(a.q), NEW m \in 1 .. Len(a.q), j < m
               PROVE  a.q[j].start < a.q[m].start
    OBVIOUS
  <2>1. a.q[j].end <= a.q[m].start
    BY <1>1 DEF Sane, Sorted, Apart
  <2> QED
    BY <1>1, <2>1, SMTT(60)
<1>4. \A j, m \in 1 .. Len(z.q) : j < m => z.q[j].start < z.q[m].start
  <2> SUFFICES ASSUME NEW j \in 1 .. Len(z.q), NEW m \in 1 .. Len(z.q), j < m
               PROVE  z.q[j].start < z.q[m].start
    OBVIOUS
  <2>1. z.q[j].end <= z.q[m].start
    BY <1>2 DEF Sorted, Apart
  <2> QED
    BY <1>2, <2>1, SMTT(60)
<1>5. k.start \in Int /\ z.ld.start <= k.start /\ Spliced(a.q, z.q, i, n)
  BY <1>1
<1>6. ASSUME NEW j \in i .. Len(z.q) PROVE z.ld.start <= z.q[j].start
  <2>1. j \in 1 .. Len(z.q) /\ Len(z.q) = (Len(a.q) - 1) + n
    BY <1>1, <1>2, <1>5 DEF Spliced
  <2>2. CASE j < i + n
    <3>1. j \in i .. (i + n) - 1
      BY <1>1, <2>2
    <3>2. k.start <= z.q[j].start
      BY <1>5, <3>1 DEF Spliced, PartOf, k, i
    <3> QED
      BY <1>2, <1>5, <2>1, <3>2
  <2>3. CASE ~(j < i + n)
    <3> DEFINE m == (j + 1) - n
    <3>1. j \in i + n .. Len(z.q) /\ m \in 1 .. Len(a.q) /\ i < m
      BY <1>1, <2>1, <2>3
    <3>2. z.q[j] = a.q[m]
      BY <1>5, <3>1 DEF Spliced
    <3>3. k.start < a.q[m].start
      BY <1>1, <1>3, <3>1 DEF k, i
    <3> HIDE DEF m
    <3>4. a.q[m].start \in Int
      BY <1>1, <3>1
    <3> QED
      BY <1>2, <1>5, <3>2, <3>3, <3>4
  <2> QED
    BY <2>2, <2>3
<1> SUFFICES ASSUME d.type # "F_UNLCK"
             PROVE  IF z.ins = 0 THEN \A j \in 1 .. Len(z.q) : z.ld.start <= z.q[j].start
                    ELSE z.q[z.ins].start < z.ld.start
  BY <1>2 DEF Placed
<1>7. IF a.ins = 0 THEN \A j \in 1 .. Len(a.q) : a.ld.start <= a.q[j].start
      ELSE a.q[a.ins].start < a.ld.start
  BY <1>1 DEF Sane, Placed
<1>8. \A j \in 1 .. i - 1 : z.q[j] = a.q[j]
  BY <1>5 DEF Spliced
<1>9. CASE z.ins = i - 1 /\ z.ld.start = k.start
  <2>1. CASE i = 1
    BY <1>6, <1>9, <2>1
  <2>2. CASE i # 1
    <3>1. i - 1 \in 1 .. i - 1 /\ i - 1 \in 1 .. Len(a.q) /\ i - 1 < i /\ z.ins # 0
      BY <1>1, <1>9, <2>2
    <3>2. z.q[z.ins] = a.q[i - 1]
      BY <1>8, <1>9, <3>1
    <3>3. a.q[i - 1].start < k.start
      BY <1>1, <1>3, <3>1 DEF k, i
    <3> QED
      BY <1>9, <3>1, <3>2, <3>3
  <2> QED
    BY <2>1, <2>2
<1>10. CASE /\ z.ins = IF a.ins = i THEN i - 1 ELSE a.ins
            /\ z.ld.start = a.ld.start /\ a.ld.start < k.start
  <2>1. CASE a.ins = 0
    <3>1. z.ins = 0
      BY <1>1, <1>10, <2>1
    <3>2. ASSUME NEW j \in 1 .. Len(z.q) PROVE z.ld.start <= z.q[j].start
      <4>1. CASE j < i
        <5>1. j \in 1 .. i - 1 /\ j \in 1 .. Len(a.q)
          BY <1>1, <4>1
        <5> QED
          BY <1>7, <1>8, <1>10, <2>1, <5>1
      <4>2. CASE ~(j < i)
        <5>1. j \in i .. Len(z.q)
          BY <1>1, <1>2, <4>2
        <5> QED
          BY <1>6, <5>1
      <4> QED
        BY <4>1, <4>2
    <3> QED
      BY <3>1, <3>2
  <2>2. CASE a.ins # 0
    <3>1. a.ins \in 1 .. Len(a.q) /\ a.q[a.ins].start < a.ld.start
      BY <1>1, <1>7, <2>2
    <3>2. a.ins # i
      <4> SUFFICES ASSUME a.ins = i PROVE FALSE
        OBVIOUS
      <4>1. k.start < a.ld.start
        BY <3>1 DEF k, i
      <4> QED
        BY <1>1, <1>5, <1>10, <4>1
    <3>3. a.ins \in 1 .. i - 1 /\ z.ins = a.ins
      BY <1>1, <1>10, <3>1, <3>2
    <3> QED
      BY <1>8, <1>10, <2>2, <3>1, <3>3
  <2> QED
    BY <2>1, <2>2
<1> QED
  BY <1>9, <1>10

(* A turn stops the walk or brings it nearer to the end of its list. *)
Nearer(a, z) == z.stop \/ Len(z.q) - z.i = (Len(a.q) - a.i) - 1

(* What a walk knows of the lock it is at, when it is the process's own. *)
LEMMA AtOwn ==
  ASSUME NEW K \in SUBSET Good, NEW q, NEW d \in Ld, NEW a \in Walks(K), Sane(q, d, a), ~a.stop,
         a.i <= Len(a.q), a.q[a.i].pid = d.pid
  PROVE  /\ Len(a.q) \in Nat /\ DOMAIN a.q = 1 .. Len(a.q) /\ a.i \in 1 .. Len(a.q)
         /\ a.ld.start \in Int /\ a.ld.end \in Int /\ a.ld.start < a.ld.end
         /\ d.start \in Int /\ d.end \in Int /\ d.start < d.end
         /\ a.q[a.i].start \in Int /\ a.q[a.i].end \in Int /\ a.q[a.i].start < a.q[a.i].end
         /\ a.ld.pid = d.pid /\ a.ld.type = d.type /\ a.result = "set"
         /\ a.ld.start <= d.start /\ a.ld.end = d.end
         /\ a.ld.start = d.start \/ d.start <= a.q[a.i].start
         /\ a.free = 0 => a.ld.start = d.start /\ a.ld.end = d.end
         /\ a.free \in Nat /\ a.ins \in Nat
<1>1. /\ Len(a.q) \in Nat /\ DOMAIN a.q = 1 .. Len(a.q) /\ a.i \in 1 .. Len(a.q)
      /\ a.ld.start \in Int /\ a.ld.end \in Int /\ a.ld.start < a.ld.end
      /\ a.free \in Nat /\ a.ins \in Nat
      /\ a.q[a.i].start \in Int /\ a.q[a.i].end \in Int /\ a.q[a.i].start < a.q[a.i].end
  BY WalkFacts
<1>2. d.start \in Int /\ d.end \in Int /\ d.start < d.end
  BY LdRange
<1>3. /\ a.ld.pid = d.pid /\ a.ld.type = d.type
      /\ a.ld.start <= d.start
      /\ a.free = 0 => a.ld.start = d.start /\ a.ld.end = d.end
  BY DEF Sane, Asked
<1>4. /\ a.result = "set" /\ a.ld.end = d.end
      /\ a.ld.start = d.start \/ \A j \in 1 .. Len(a.q) : j >= a.i => d.start <= a.q[j].start
  BY <1>1 DEF Sane, Goes
<1>5. a.ld.start = d.start \/ d.start <= a.q[a.i].start
  BY <1>1, <1>4
<1> QED
  BY <1>1, <1>2, <1>3, <1>4, <1>5

(* And of the locks around it.                                                 *)
LEMMA AtOthers ==
  ASSUME NEW K \in SUBSET Good, NEW q, NEW d \in Ld, NEW a \in Walks(K), Sane(q, d, a), ~a.stop,
         a.i <= Len(a.q), a.q[a.i].pid = d.pid
  PROVE  /\ \A j \in a.i + 1 .. Len(a.q) :
              /\ j \in 1 .. Len(a.q) /\ Apart(a.q[a.i], a.q[j])
              /\ a.q[j].start \in Int /\ a.q[j].end \in Int /\ a.q[j].start < a.q[j].end
              /\ a.q[a.i].end <= a.q[j].start
              /\ a.ld.start = d.start \/ d.start <= a.q[j].start
         /\ \A j \in 1 .. a.i - 1 : /\ a.q[j].pid = d.pid => Before(a.q[j], a.ld)
                                    /\ j \in 1 .. Len(a.q)
<1>1. /\ Len(a.q) \in Nat /\ DOMAIN a.q = 1 .. Len(a.q) /\ a.i \in 1 .. Len(a.q)
      /\ \A j \in 1 .. Len(a.q) : /\ a.q[j].start \in Int /\ a.q[j].end \in Int
                                  /\ a.q[j].start < a.q[j].end
  BY WalkFacts
<1>2. a.ld.start = d.start \/ \A j \in 1 .. Len(a.q) : j >= a.i => d.start <= a.q[j].start
  BY <1>1 DEF Sane, Goes
<1>3. ASSUME NEW j \in a.i + 1 .. Len(a.q)
      PROVE  /\ j \in 1 .. Len(a.q) /\ Apart(a.q[a.i], a.q[j])
             /\ a.q[j].start \in Int /\ a.q[j].end \in Int /\ a.q[j].start < a.q[j].end
             /\ a.q[a.i].end <= a.q[j].start
             /\ a.ld.start = d.start \/ d.start <= a.q[j].start
  <2>1. j \in 1 .. Len(a.q) /\ a.i < j /\ j >= a.i
    BY <1>1
  <2>2. Apart(a.q[a.i], a.q[j])
    BY <1>1, <2>1 DEF Sane, Sorted
  <2> QED
    BY <1>1, <1>2, <2>1, <2>2 DEF Apart
<1>4. ASSUME NEW j \in 1 .. a.i - 1
      PROVE  j \in 1 .. Len(a.q) /\ (a.q[j].pid = d.pid => Before(a.q[j], a.ld))
  <2>1. j \in 1 .. Len(a.q) /\ j < a.i
    BY <1>1
  <2> QED
    BY <1>1, <2>1 DEF Sane, Passed
<1> QED
  BY <1>3, <1>4

(* So a turn keeps the invariant when what it leaves of the lock behind it is   *)
(* before the range, and, if it stops, what it leaves ahead is after it.        *)
LEMMA CarvedSane ==
  ASSUME NEW K \in SUBSET Good, NEW q, NEW d \in Ld, NEW a \in Walks(K), Sane(q, d, a), ~a.stop,
         a.i <= Len(a.q), a.q[a.i].pid = d.pid,
         NEW z \in Walks(K), NEW n \in 0 .. 2, Carved(a, z, n), Asked(d, z),
         n # 2 => Placed(d, z) \/ z.ins = a.i, n = 2 => z.ins = a.i,
         z.ins = a.i => z.q[a.i].start < z.ld.start, z.result = "set",
         z.i \in a.i .. a.i + n,
         \A j \in a.i .. z.i - 1 : Before(z.q[j], z.ld),
         z.stop => /\ \A j \in z.i .. (a.i + n) - 1 : After(z.q[j], z.ld)
                   /\ \A j \in a.i + 1 .. Len(a.q) : a.q[j].pid = d.pid => After(a.q[j], z.ld),
         ~z.stop => z.i = a.i + n /\ z.ld.end = a.ld.end
  PROVE  Sane(q, d, z) /\ Nearer(a, z)
<1> DEFINE k == a.q[a.i]
           i == a.i
<1>1. /\ Len(a.q) \in Nat /\ DOMAIN a.q = 1 .. Len(a.q) /\ i \in 1 .. Len(a.q)
      /\ a.ld.start \in Int /\ a.ld.end \in Int /\ a.ld.start < a.ld.end
      /\ d.start \in Int /\ d.end \in Int /\ d.start < d.end
      /\ k.start \in Int /\ k.end \in Int /\ k.start < k.end
      /\ a.ld.start <= d.start /\ a.ld.end = d.end
  BY AtOwn
<1>2. \A j \in i + 1 .. Len(a.q) :
        /\ j \in 1 .. Len(a.q) /\ k.end <= a.q[j].start /\ a.q[j].start \in Int
        /\ a.ld.start = d.start \/ d.start <= a.q[j].start
  BY AtOthers
<1>3. /\ Len(z.q) \in Nat /\ DOMAIN z.q = 1 .. Len(z.q)
      /\ z.i \in Nat /\ z.ld.start \in Int /\ z.ld.end \in Int
  BY WalkFacts
<1>4. /\ Len(z.q) = (Len(a.q) - 1) + n
      /\ \A j \in 1 .. i - 1 : z.q[j] = a.q[j]
      /\ \A j \in i + n .. Len(z.q) : z.q[j] = a.q[(j + 1) - n]
  BY DEF Carved, Spliced
<1>5. /\ Sorted(z.q)
      /\ d.type # "F_UNLCK" => Clear(z.q, z.ld)
      /\ Unharmed(q, d, z)
      /\ \A b \in Int, t \in LockType : Has(q, d.pid, b, t) /\ ~Has(z.q, d.pid, b, t) =>
           \A j \in i + 1 .. Len(a.q) : b < a.q[j].start
      /\ \A j \in 1 .. i - 1 : z.q[j].pid = d.pid => Before(z.q[j], z.ld)
  BY CarvedKeeps
<1>6. ASSUME NEW j \in 1 .. Len(z.q), j >= i + n
      PROVE  (j + 1) - n \in i + 1 .. Len(a.q) /\ z.q[j] = a.q[(j + 1) - n]
  <2>1. j \in i + n .. Len(z.q) /\ (j + 1) - n \in i + 1 .. Len(a.q)
    BY <1>1, <1>3, <1>4, <1>6
  <2> QED
    BY <1>4, <2>1
<1>7. Placed(d, z)
  <2>1. CASE z.ins = a.i
    <3>1. z.ins # 0
      BY <1>1, <2>1
    <3> QED
      BY <2>1, <3>1 DEF Placed
  <2>2. CASE z.ins # a.i
    BY <2>2
  <2> QED
    BY <2>1, <2>2
<1>8. Passed(d, z)
  <2> SUFFICES ASSUME NEW j \in 1 .. Len(z.q), j < z.i, z.q[j].pid = d.pid
               PROVE  Before(z.q[j], z.ld)
    BY <1>3 DEF Passed
  <2>1. j \in 1 .. i - 1 \/ j \in i .. z.i - 1
    <3>1. j \in Int /\ 1 <= j /\ j < z.i
      BY <1>3
    <3>2. i \in Int /\ z.i \in Int
      BY <1>1, <1>3
    <3> HIDE DEF k, i
    <3> QED
      BY <3>1, <3>2
  <2>2. CASE j \in 1 .. i - 1
    BY <1>5, <2>2
  <2>3. CASE j \in i .. z.i - 1
    BY <2>3
  <2> QED
    BY <2>1, <2>2, <2>3
<1>9. Goes(q, d, z)
  <2> SUFFICES ASSUME ~z.stop PROVE Goes(q, d, z)
    BY DEF Goes
  <2>1. z.i = i + n /\ z.ld.end = d.end /\ z.result = "set"
    BY <1>1
  <2>2. z.ld.start = d.start \/ \A j \in 1 .. Len(z.q) : j >= z.i => d.start <= z.q[j].start
    <3> SUFFICES ASSUME z.ld.start # d.start, NEW j \in 1 .. Len(z.q), j >= z.i
                 PROVE  d.start <= z.q[j].start
      OBVIOUS
    <3> DEFINE m == (j + 1) - n
    <3>1. m \in i + 1 .. Len(a.q) /\ z.q[j] = a.q[m]
      BY <1>6, <2>1
    <3> HIDE DEF m
    <3>2. /\ k.end <= a.q[m].start /\ a.q[m].start \in Int
          /\ a.ld.start = d.start \/ d.start <= a.q[m].start
      BY <1>2, <3>1
    <3>3. CASE a.ld.start # d.start
      BY <3>1, <3>2, <3>3
    <3>4. CASE a.ld.start = d.start
      <4>1. a.ld.start <= k.end
        BY <3>4 DEF Carved
      <4> HIDE DEF k
      <4> QED
        BY <1>1, <3>1, <3>2, <3>4, <4>1, SMTT(60)
    <3> QED
      BY <3>3, <3>4
  <2>3. ASSUME NEW b \in Int, NEW t \in LockType, Has(q, d.pid, b, t), ~Has(z.q, d.pid, b, t),
               NEW j \in 1 .. Len(z.q), j >= z.i
        PROVE  b < z.q[j].start
    <3>1. (j + 1) - n \in i + 1 .. Len(a.q) /\ z.q[j] = a.q[(j + 1) - n]
      BY <1>6, <2>1, <2>3
    <3> QED
      BY <1>5, <2>3, <3>1
  <2> QED
    BY <1>3, <2>1, <2>2, <2>3 DEF Goes
<1>10. Ended(q, d, z)
  <2> SUFFICES ASSUME z.stop, NEW j \in 1 .. Len(z.q), j >= z.i, z.q[j].pid = d.pid
               PROVE  After(z.q[j], z.ld)
    BY <1>3 DEF Ended
  <2>1. CASE j < i + n
    <3>1. j \in z.i .. (a.i + n) - 1
      BY <1>1, <1>3, <2>1
    <3> QED
      BY <3>1
  <2>2. CASE ~(j < i + n)
    <3>1. (j + 1) - n \in i + 1 .. Len(a.q) /\ z.q[j] = a.q[(j + 1) - n]
      BY <1>1, <1>6, <2>2
    <3> QED
      BY <3>1
  <2> QED
    BY <2>1, <2>2
<1>11. Nearer(a, z)
  <2> SUFFICES ASSUME ~z.stop PROVE Len(z.q) - z.i = (Len(a.q) - a.i) - 1
    BY DEF Nearer
  <2>1. z.i = i + n /\ Len(z.q) = (Len(a.q) - 1) + n
    BY <1>4
  <2> QED
    BY <1>1, <2>1
<1> QED
  BY <1>5, <1>7, <1>8, <1>9, <1>10, <1>11 DEF Sane

(* The cases of Adjust.  The lock is in the range: it goes. *)
LEMMA DropSane ==
  ASSUME NEW K \in SUBSET Good, NEW q, NEW d \in Ld, NEW a \in Walks(K), Sane(q, d, a), ~a.stop,
         a.i <= Len(a.q), a.q[a.i].pid = d.pid, NEW z \in Walks(K),
         z.q = RemoveAt(a.q, a.i), z.i = a.i, z.free = a.free + 1, z.result = "set",
         z.ld.pid = a.ld.pid, z.ld.type = a.ld.type,
         \/ z.ins = a.i - 1 /\ z.ld.start = a.q[a.i].start
         \/ /\ z.ins = IF a.ins = a.i THEN a.i - 1 ELSE a.ins
            /\ z.ld.start = a.ld.start /\ a.ld.start < a.q[a.i].start,
         \/ /\ z.ld.start = a.ld.start /\ z.ld.end = a.ld.end
            /\ a.ld.start <= a.q[a.i].start /\ a.q[a.i].end <= a.ld.end
         \/ /\ z.ld.start = a.q[a.i].start /\ z.ld.end = a.ld.end
            /\ a.q[a.i].type = a.ld.type
            /\ a.q[a.i].start < a.ld.start /\ a.ld.start <= a.q[a.i].end
            /\ a.q[a.i].end < a.ld.end
         \/ /\ z.ld.start = a.ld.start /\ z.ld.end = a.q[a.i].end /\ z.stop
            /\ a.q[a.i].type = a.ld.type
            /\ a.ld.start < a.q[a.i].start /\ a.q[a.i].start <= a.ld.end
            /\ a.ld.end <= a.q[a.i].end,
         z.stop => z.ld.end = a.q[a.i].end /\ a.q[a.i].type = a.ld.type
  PROVE  Sane(q, d, z) /\ Nearer(a, z)
<1> DEFINE k == a.q[a.i]
<1>1. /\ Len(a.q) \in Nat /\ DOMAIN a.q = 1 .. Len(a.q) /\ a.i \in 1 .. Len(a.q)
      /\ a.ld.start \in Int /\ a.ld.end \in Int /\ a.ld.start < a.ld.end
      /\ d.start \in Int /\ d.end \in Int /\ d.start < d.end
      /\ k.start \in Int /\ k.end \in Int /\ k.start < k.end
      /\ a.ld.pid = d.pid /\ a.ld.type = d.type
      /\ a.ld.start <= d.start /\ a.ld.end = d.end /\ a.free \in Nat
  BY AtOwn, SMTT(60)
<1>2. /\ Len(z.q) = Len(a.q) - 1
      /\ \A j \in 1 .. a.i - 1 : z.q[j] = a.q[j]
      /\ \A j \in a.i .. Len(a.q) - 1 : z.q[j] = a.q[j + 1]
  <2>1. a.q \in Seq(Good)
    BY WalkFacts
  <2>2. /\ Len(RemoveAt(a.q, a.i)) = Len(a.q) - 1
        /\ \A j \in 1 .. a.i - 1 : RemoveAt(a.q, a.i)[j] = a.q[j]
        /\ \A j \in a.i .. Len(a.q) - 1 : RemoveAt(a.q, a.i)[j] = a.q[j + 1]
    BY <1>1, <2>1, RemovedAll
  <2> QED
    BY <2>2
<1>3. Spliced(a.q, z.q, a.i, 0)
  <2>1. Len(z.q) = (Len(a.q) - 1) + 0
    BY <1>1, <1>2
  <2>2. a.i .. (a.i + 0) - 1 = {}
    BY <1>1
  <2>3. ASSUME NEW j \in a.i + 0 .. Len(z.q) PROVE z.q[j] = a.q[(j + 1) - 0]
    <3>1. j \in a.i .. Len(a.q) - 1 /\ (j + 1) - 0 = j + 1
      BY <1>1, <1>2
    <3> QED
      BY <1>2, <3>1
  <2> QED
    BY <1>2, <2>1, <2>2, <2>3 DEF Spliced
<1>4. Carved(a, z, 0)
  <2>1. ASSUME NEW b \in Int, Covers(k, b) PROVE Covers(z.ld, b)
    <3>1. z.ld.start <= k.start /\ k.end <= z.ld.end /\ z.ld.start \in Int /\ z.ld.end \in Int
      BY <1>1, SMTT(60)
    <3> HIDE DEF k
    <3> QED
      BY <1>1, <2>1, <3>1, SMTT(60) DEF Covers
  <2>2. \/ z.ld.start = a.ld.start /\ z.ld.end = a.ld.end
        \/ /\ z.ld.start = k.start /\ z.ld.end = a.ld.end /\ k.type = a.ld.type
           /\ k.start < a.ld.start /\ a.ld.start <= k.end /\ k.end < a.ld.end
        \/ /\ z.ld.start = a.ld.start /\ z.ld.end = k.end /\ k.type = a.ld.type
           /\ a.ld.start < k.start /\ k.start <= a.ld.end /\ a.ld.end <= k.end
    OBVIOUS
  <2> QED
    BY <1>3, <2>1, <2>2 DEF Carved
<1>5. Asked(d, z)
  <2>1. z.free # 0
    BY <1>1
  <2> HIDE DEF k
  <2>2. z.ld.start <= d.start /\ d.end <= z.ld.end
    BY <1>1 DEF k
  <2> QED
    BY <1>1, <2>1, <2>2 DEF Asked
<1>6. 0 \in 0 .. 1 /\ 0 \in 0 .. 2
  OBVIOUS
<1>7. Placed(d, z)
  <2>1. Sorted(z.q)
    BY <1>4, <1>6, CarvedKeeps
  <2> QED
    BY <1>3, <1>6, <2>1, CarvedPlaced
<1>8. z.ins # a.i
  <2>1. a.ins \in Nat /\ a.i - 1 # a.i
    BY <1>1, WalkFacts
  <2> QED
    BY <2>1
<1>9. z.i \in a.i .. a.i + 0 /\ a.i .. z.i - 1 = {} /\ z.i .. (a.i + 0) - 1 = {} /\ z.i = a.i + 0
  BY <1>1
<1>10. ASSUME z.stop, NEW j \in a.i + 1 .. Len(a.q), a.q[j].pid = d.pid PROVE After(a.q[j], z.ld)
  <2>1. Apart(k, a.q[j]) /\ z.ld.end = k.end /\ k.type = d.type /\ z.ld.type = d.type
    BY <1>1, <1>10, AtOthers
  <2> QED
    BY <1>10, <2>1 DEF Apart, After
<1>11. ~z.stop => z.ld.end = a.ld.end
  OBVIOUS
<1>12. /\ 0 # 2 => Placed(d, z) \/ z.ins = a.i
       /\ 0 = 2 => z.ins = a.i
       /\ z.ins = a.i => z.q[a.i].start < z.ld.start
       /\ \A j \in a.i .. z.i - 1 : Before(z.q[j], z.ld)
       /\ z.stop => /\ \A j \in z.i .. (a.i + 0) - 1 : After(z.q[j], z.ld)
                    /\ \A j \in a.i + 1 .. Len(a.q) : a.q[j].pid = d.pid => After(a.q[j], z.ld)
       /\ ~z.stop => z.i = a.i + 0 /\ z.ld.end = a.ld.end
  BY <1>7, <1>8, <1>9, <1>10, <1>11
<1> HIDE DEF k
<1> QED
  BY <1>4, <1>5, <1>6, <1>9, <1>12, CarvedSane

(* The end of the lock, or the lock but for its end, is in the range and of    *)
(* another type: it is cut off.                                                *)
LEMMA CutSane ==
  ASSUME NEW K \in SUBSET Good, NEW q, NEW d \in Ld, NEW a \in Walks(K), Sane(q, d, a), ~a.stop,
         a.i <= Len(a.q), a.q[a.i].pid = d.pid, NEW z \in Walks(K),
         Len(z.q) = Len(a.q), \A j \in 1 .. Len(a.q) : j # a.i => z.q[j] = a.q[j],
         z.q[a.i].pid = a.q[a.i].pid, z.q[a.i].type = a.q[a.i].type, z.result = "set",
         z.ld = a.ld, a.q[a.i].type # a.ld.type,
         \/ /\ z.q[a.i].start = a.q[a.i].start /\ z.q[a.i].end = a.ld.start
            /\ z.i = a.i + 1 /\ z.ins = a.i /\ z.free = a.free /\ ~z.stop
            /\ a.q[a.i].start < a.ld.start /\ a.ld.start <= a.q[a.i].end
            /\ a.q[a.i].end <= a.ld.end
         \/ /\ z.q[a.i].start = a.ld.end /\ z.q[a.i].end = a.q[a.i].end
            /\ z.i = a.i /\ z.free # 0 /\ z.stop
            /\ a.ld.start <= a.q[a.i].start
            /\ a.q[a.i].start < a.ld.end /\ a.ld.end < a.q[a.i].end
            /\ \/ z.ins = a.i - 1 /\ z.ld.start = a.q[a.i].start
               \/ /\ z.ins = IF a.ins = a.i THEN a.i - 1 ELSE a.ins
                  /\ a.ld.start < a.q[a.i].start
  PROVE  Sane(q, d, z) /\ Nearer(a, z)
<1> DEFINE k == a.q[a.i]
           e == z.q[a.i]
<1>1. /\ Len(a.q) \in Nat /\ DOMAIN a.q = 1 .. Len(a.q) /\ a.i \in 1 .. Len(a.q)
      /\ a.ld.start \in Int /\ a.ld.end \in Int /\ a.ld.start < a.ld.end
      /\ d.start \in Int /\ d.end \in Int /\ d.start < d.end
      /\ k.start \in Int /\ k.end \in Int /\ k.start < k.end
      /\ a.ld.pid = d.pid /\ a.ld.type = d.type
      /\ a.ld.start <= d.start /\ a.ld.end = d.end /\ a.free \in Nat
  BY AtOwn, SMTT(60)
<1>2. /\ e.pid = k.pid /\ e.type = k.type /\ k.type # a.ld.type
      /\ \/ /\ e.start = k.start /\ e.end = a.ld.start
            /\ z.i = a.i + 1 /\ z.ins = a.i /\ z.free = a.free /\ ~z.stop
            /\ k.start < a.ld.start /\ a.ld.start <= k.end /\ k.end <= a.ld.end
         \/ /\ e.start = a.ld.end /\ e.end = k.end
            /\ z.i = a.i /\ z.free # 0 /\ z.stop
            /\ a.ld.start <= k.start /\ k.start < a.ld.end /\ a.ld.end < k.end
  OBVIOUS
<1>3. a.i .. (a.i + 1) - 1 = {a.i}
  BY <1>1
<1>4. PartOf(e, k)
  <2> HIDE DEF k, e
  <2> QED
    BY <1>1, <1>2 DEF PartOf
<1>5. Spliced(a.q, z.q, a.i, 1)
  <2>1. Len(z.q) = (Len(a.q) - 1) + 1
    BY <1>1
  <2>2. ASSUME NEW j \in 1 .. a.i - 1 PROVE z.q[j] = a.q[j]
    <3>1. j \in 1 .. Len(a.q) /\ j # a.i
      BY <1>1
    <3> QED
      BY <3>1
  <2>3. ASSUME NEW j \in a.i + 1 .. Len(z.q) PROVE z.q[j] = a.q[(j + 1) - 1]
    <3>1. j \in 1 .. Len(a.q) /\ j # a.i /\ (j + 1) - 1 = j
      BY <1>1
    <3> QED
      BY <3>1
  <2>4. \A j, m \in a.i .. (a.i + 1) - 1 : j < m => z.q[j].end < z.q[m].start
    BY <1>1, <1>3
  <2>5. \A j \in a.i .. (a.i + 1) - 1 : PartOf(z.q[j], a.q[a.i])
    BY <1>3, <1>4
  <2> QED
    BY <2>1, <2>2, <2>3, <2>4, <2>5 DEF Spliced
<1>6. Carved(a, z, 1)
  <2>1. ASSUME NEW b \in Int, Covers(k, b), ~Covers(z.ld, b) PROVE Covers(e, b)
    <3> HIDE DEF k, e
    <3> QED
      BY <1>1, <1>2, <2>1 DEF Covers
  <2> QED
    BY <1>3, <1>5, <2>1 DEF Carved
<1>7. Asked(d, z)
  <2>1. a.free = 0 => a.ld.start = d.start /\ a.ld.end = d.end
    BY AtOwn, SMTT(60)
  <2> QED
    BY <1>1, <2>1 DEF Asked
<1>8. 1 \in 0 .. 1 /\ 1 \in 0 .. 2 /\ 1 # 2
  OBVIOUS
<1>9. z.ins = a.i \/ Placed(d, z)
  <2>1. Sorted(z.q)
    BY <1>6, <1>8, CarvedKeeps
  <2> QED
    BY <1>5, <1>8, <2>1, CarvedPlaced
<1>10. z.ins = a.i => e.start < z.ld.start
  <2>1. a.ins \in Nat /\ a.i - 1 # a.i
    BY <1>1, WalkFacts
  <2> QED
    BY <2>1
<1>11. z.i \in a.i .. a.i + 1
  BY <1>1
<1>12. ASSUME NEW j \in a.i .. z.i - 1 PROVE Before(z.q[j], z.ld)
  <2>1. j = a.i /\ z.i = a.i + 1
    BY <1>1
  <2>2. e.end = a.ld.start
    BY <1>1, <2>1
  <2>3. Before(e, a.ld)
    BY <1>1, <1>2, <2>2 DEF Before
  <2> QED
    BY <2>1, <2>3
<1>13. ASSUME z.stop PROVE \A j \in z.i .. (a.i + 1) - 1 : After(z.q[j], z.ld)
  <2> SUFFICES ASSUME NEW j \in z.i .. (a.i + 1) - 1 PROVE After(z.q[j], z.ld)
    OBVIOUS
  <2>1. j = a.i /\ e.start = a.ld.end
    BY <1>1, <1>13
  <2> QED
    BY <1>1, <2>1 DEF After
<1>14. ASSUME z.stop, NEW j \in a.i + 1 .. Len(a.q), a.q[j].pid = d.pid PROVE After(a.q[j], z.ld)
  <2>1. k.end <= a.q[j].start /\ a.q[j].start \in Int
    BY <1>14, AtOthers
  <2>2. a.ld.end < k.end
    BY <1>14
  <2> HIDE DEF k
  <2> QED
    BY <1>1, <2>1, <2>2, SMTT(60) DEF After
<1>15. /\ 1 # 2 => Placed(d, z) \/ z.ins = a.i
       /\ 1 = 2 => z.ins = a.i
       /\ z.ins = a.i => z.q[a.i].start < z.ld.start
       /\ \A j \in a.i .. z.i - 1 : Before(z.q[j], z.ld)
       /\ z.stop => /\ \A j \in z.i .. (a.i + 1) - 1 : After(z.q[j], z.ld)
                    /\ \A j \in a.i + 1 .. Len(a.q) : a.q[j].pid = d.pid => After(a.q[j], z.ld)
       /\ ~z.stop => z.i = a.i + 1 /\ z.ld.end = a.ld.end
  BY <1>8, <1>9, <1>10, <1>12, <1>13, <1>14
<1> HIDE DEF k, e
<1> QED
  BY <1>6, <1>7, <1>8, <1>11, <1>15, CarvedSane

(* The range is inside the lock, of another type: a part of it is left before  *)
(* and one after.                                                              *)
LEMMA SplitSane ==
  ASSUME NEW K \in SUBSET Good, NEW q, NEW d \in Ld, NEW a \in Walks(K), Sane(q, d, a), ~a.stop,
         a.i <= Len(a.q), a.q[a.i].pid = d.pid, NEW z \in Walks(K),
         Len(z.q) = Len(a.q) + 1, \A j \in 1 .. a.i - 1 : z.q[j] = a.q[j],
         \A j \in a.i + 2 .. Len(z.q) : z.q[j] = a.q[j - 1],
         \A j \in {a.i, a.i + 1} : z.q[j].pid = a.q[a.i].pid /\ z.q[j].type = a.q[a.i].type,
         z.q[a.i].start = a.q[a.i].start, z.q[a.i].end = a.ld.start,
         z.q[a.i + 1].start = a.ld.end, z.q[a.i + 1].end = a.q[a.i].end,
         z.i = a.i + 1, z.ins = a.i, z.stop, z.result = "set",
         z.ld = a.ld, a.q[a.i].type # a.ld.type,
         a.q[a.i].start < a.ld.start, a.ld.end < a.q[a.i].end
  PROVE  Sane(q, d, z) /\ Nearer(a, z)
<1> DEFINE k == a.q[a.i]
           e == z.q[a.i]
           m == z.q[a.i + 1]
<1>1. /\ Len(a.q) \in Nat /\ DOMAIN a.q = 1 .. Len(a.q) /\ a.i \in 1 .. Len(a.q)
      /\ a.ld.start \in Int /\ a.ld.end \in Int /\ a.ld.start < a.ld.end
      /\ d.start \in Int /\ d.end \in Int /\ d.start < d.end
      /\ k.start \in Int /\ k.end \in Int /\ k.start < k.end
      /\ a.ld.pid = d.pid /\ a.ld.type = d.type
      /\ a.ld.start <= d.start /\ a.ld.end = d.end
      /\ a.ld.start = d.start \/ d.start <= k.start
  BY AtOwn
<1>2. /\ e.pid = k.pid /\ e.type = k.type /\ m.pid = k.pid /\ m.type = k.type
      /\ k.type # a.ld.type /\ e.start = k.start /\ e.end = a.ld.start
      /\ m.start = a.ld.end /\ m.end = k.end /\ k.start < a.ld.start /\ a.ld.end < k.end
  OBVIOUS
<1>3. a.i .. (a.i + 2) - 1 = {a.i, a.i + 1}
  <2>1. a.i \in Int
    BY <1>1
  <2> DEFINE x == a.i
  <2> HIDE DEF x
  <2>2. \A y \in Int : y .. (y + 2) - 1 = {y, y + 1}
    OBVIOUS
  <2> QED
    BY <2>1, <2>2
<1>4. PartOf(e, k) /\ PartOf(m, k) /\ e.end < m.start
  <2> HIDE DEF k, e, m
  <2>1. e.pid = k.pid /\ e.type = k.type /\ k.start <= e.start /\ e.end <= k.end
    <3>1. k.start <= e.start
      BY <1>1, <1>2
    <3>2. e.end <= k.end
      BY <1>1, <1>2
    <3> QED
      BY <1>2, <3>1, <3>2
  <2>2. m.pid = k.pid /\ m.type = k.type /\ k.start <= m.start /\ m.end <= k.end
    <3>1. k.start <= m.start
      BY <1>1, <1>2
    <3>2. m.end <= k.end
      BY <1>1, <1>2
    <3> QED
      BY <1>2, <3>1, <3>2
  <2>3. e.end < m.start
    BY <1>1, <1>2
  <2> QED
    BY <2>1, <2>2, <2>3 DEF PartOf
<1>5. Spliced(a.q, z.q, a.i, 2)
  <2>1. Len(z.q) = (Len(a.q) - 1) + 2
    BY <1>1
  <2>2. ASSUME NEW j \in a.i + 2 .. Len(z.q) PROVE z.q[j] = a.q[(j + 1) - 2]
    <3>1. (j + 1) - 2 = j - 1
      BY <1>1
    <3> QED
      BY <3>1
  <2>3. ASSUME NEW j \in a.i .. (a.i + 2) - 1, NEW h \in a.i .. (a.i + 2) - 1, j < h
        PROVE  z.q[j].end < z.q[h].start
    <3>1. j = a.i /\ h = a.i + 1
      <4> HIDE DEF k, e, m
      <4>1. a.i \in Int /\ j \in {a.i, a.i + 1} /\ h \in {a.i, a.i + 1} /\ j < h
        BY <1>1, <1>3, <2>3, SMTT(60)
      <4> QED
        BY <4>1
    <3> QED
      BY <1>4, <3>1
  <2>4. \A j \in a.i .. (a.i + 2) - 1 : PartOf(z.q[j], a.q[a.i])
    BY <1>3, <1>4
  <2> QED
    BY <2>1, <2>2, <2>3, <2>4 DEF Spliced
<1>6. Carved(a, z, 2)
  <2>1. ASSUME NEW b \in Int, Covers(k, b), ~Covers(z.ld, b) PROVE Covers(e, b) \/ Covers(m, b)
    <3> HIDE DEF k, e, m
    <3> QED
      BY <1>1, <1>2, <2>1 DEF Covers
  <2> QED
    BY <1>3, <1>5, <2>1 DEF Carved
<1>7. Asked(d, z)
  <2>1. a.ld.start = d.start
    <3> HIDE DEF k
    <3> QED
      BY <1>1, <1>2
  <2> QED
    BY <1>1, <2>1 DEF Asked
<1>8. 2 \in 0 .. 2 /\ z.i \in a.i .. a.i + 2
  BY <1>1
<1>9. ASSUME NEW j \in a.i .. z.i - 1 PROVE Before(z.q[j], z.ld)
  <2>1. j = a.i
    BY <1>1
  <2>2. Before(e, a.ld)
    BY <1>1, <1>2 DEF Before
  <2> QED
    BY <2>1, <2>2
<1>10. ASSUME NEW j \in z.i .. (a.i + 2) - 1 PROVE After(z.q[j], z.ld)
  <2>1. j = a.i + 1
    BY <1>1
  <2> QED
    BY <1>1, <1>2, <2>1 DEF After
<1>11. ASSUME NEW j \in a.i + 1 .. Len(a.q), a.q[j].pid = d.pid PROVE After(a.q[j], z.ld)
  <2>1. k.end <= a.q[j].start /\ a.q[j].start \in Int
    BY <1>11, AtOthers
  <2> HIDE DEF k
  <2> QED
    BY <1>1, <1>2, <2>1, SMTT(60) DEF After
<1>12. /\ 2 # 2 => Placed(d, z) \/ z.ins = a.i
       /\ 2 = 2 => z.ins = a.i
       /\ z.ins = a.i => z.q[a.i].start < z.ld.start
       /\ \A j \in a.i .. z.i - 1 : Before(z.q[j], z.ld)
       /\ z.stop => /\ \A j \in z.i .. (a.i + 2) - 1 : After(z.q[j], z.ld)
                    /\ \A j \in a.i + 1 .. Len(a.q) : a.q[j].pid = d.pid => After(a.q[j], z.ld)
       /\ ~z.stop => z.i = a.i + 2 /\ z.ld.end = a.ld.end
  BY <1>2, <1>9, <1>10, <1>11
<1> HIDE DEF k, e, m
<1> QED
  BY <1>6, <1>7, <1>8, <1>12, CarvedSane

(* The walk stops where it is: the lock lies behind the range, covers it, or   *)
(* would have to be split when there is no record.                             *)
LEMMA HaltSane ==
  ASSUME NEW K \in SUBSET Good, NEW q, NEW d \in Ld, NEW a \in Walks(K), Sane(q, d, a), ~a.stop,
         a.i <= Len(a.q), NEW z, z.stop,
         z.q = a.q, z.i = a.i, z.ins = a.ins, z.ld = a.ld, z.free = a.free,
         \/ /\ z.result = "set" /\ a.ld.end <= a.q[a.i].start
            /\ a.ld.end = a.q[a.i].start => a.q[a.i].type # d.type
         \/ /\ z.result = "done" /\ a.q[a.i].pid = d.pid /\ a.q[a.i].type = d.type
            /\ a.q[a.i].start <= a.ld.start /\ a.ld.end <= a.q[a.i].end
         \/ /\ z.result = "ENOSPC" /\ a.free = 0 /\ a.q[a.i].start < a.ld.end
  PROVE  Sane(q, d, z) /\ Nearer(a, z)
<1> DEFINE k == a.q[a.i]
<1>1. /\ Len(a.q) \in Nat /\ DOMAIN a.q = 1 .. Len(a.q) /\ a.i \in 1 .. Len(a.q)
      /\ a.ld.start \in Int /\ a.ld.end \in Int /\ a.ld.start < a.ld.end
      /\ k.start \in Int /\ k.end \in Int /\ k.start < k.end
  BY WalkFacts
<1>2. \A j \in 1 .. Len(a.q) : /\ a.q[j].start \in Int /\ a.q[j].end \in Int
                               /\ a.q[j].start < a.q[j].end
  BY WalkFacts
<1>3. d.start \in Int /\ d.end \in Int /\ d.start < d.end
  BY LdRange
<1>4. ASSUME NEW j \in 1 .. Len(a.q), j > a.i PROVE k.end <= a.q[j].start
  BY <1>1, <1>4 DEF Sane, Sorted, Apart
<1>5. /\ Asked(d, z) /\ Sorted(z.q) /\ (d.type # "F_UNLCK" => Clear(z.q, z.ld))
      /\ Unharmed(q, d, z) /\ Placed(d, z) /\ Passed(d, z) /\ Goes(q, d, z) /\ Nearer(a, z)
  BY DEF Sane, Asked, Unharmed, Placed, Passed, Goes, Nearer
<1>6. Ended(q, d, z)
  <2>1. CASE /\ z.result = "set" /\ a.ld.end <= k.start
             /\ a.ld.end = k.start => k.type # d.type
    <3> SUFFICES ASSUME NEW j \in 1 .. Len(a.q), j >= a.i PROVE After(a.q[j], a.ld)
      BY <1>1, <2>1 DEF Ended
    <3>1. a.ld.type = d.type
      BY DEF Sane, Asked
    <3>2. CASE j = a.i
      BY <1>1, <2>1, <3>1, <3>2 DEF After
    <3>3. CASE j # a.i
      <4>1. k.end <= a.q[j].start /\ a.q[j].start \in Int
        BY <1>1, <1>2, <1>4, <3>3
      <4> HIDE DEF k
      <4> QED
        BY <1>1, <2>1, <4>1 DEF After
    <3> QED
      BY <3>2, <3>3
  <2>2. CASE /\ z.result = "done" /\ k.pid = d.pid /\ k.type = d.type
             /\ k.start <= a.ld.start /\ a.ld.end <= k.end
    BY <1>1, <2>2 DEF Ended
  <2>3. CASE z.result = "ENOSPC" /\ a.free = 0 /\ k.start < a.ld.end
    <3>1. a.ld.start = d.start /\ a.ld.end = d.end
      BY <2>3 DEF Sane, Asked
    <3> DEFINE c == IF k.start < d.start THEN d.start ELSE k.start
    <3>2. c \in d.start .. d.end
      <4> HIDE DEF k
      <4> QED
        BY <1>1, <1>3, <2>3, <3>1
    <3>3. ASSUME NEW b \in Int, NEW t \in LockType, Has(q, d.pid, b, t), ~Has(a.q, d.pid, b, t)
          PROVE  b < c
      <4>1. b < k.start
        BY <1>1, <3>3 DEF Sane, Goes
      <4> HIDE DEF k
      <4> QED
        BY <1>1, <1>3, <4>1
    <3>4. ASSUME NEW b \in Int, NEW t \in LockType, d.start <= b, b < c, Has(a.q, d.pid, b, t)
          PROVE  FALSE
      <4>1. PICK j \in 1 .. Len(a.q) : a.q[j].pid = d.pid /\ a.q[j].start <= b /\ b < a.q[j].end
        BY <1>1, <3>4 DEF Has, Covers
      <4>2. a.q[j].start \in Int /\ a.q[j].end \in Int
        BY <1>2
      <4>3. CASE j < a.i
        <5>1. a.q[j].end <= a.ld.start
          BY <1>1, <4>1, <4>3 DEF Sane, Passed, Before
        <5> QED
          BY <1>3, <3>1, <3>4, <4>1, <4>2, <5>1
      <4>4. CASE ~(j < a.i)
        <5>1. k.start <= a.q[j].start
          <6>1. CASE j = a.i
            BY <1>1, <6>1
          <6>2. CASE j # a.i
            <7>1. k.end <= a.q[j].start
              BY <1>1, <1>4, <4>4, <6>2
            <7> HIDE DEF k
            <7> QED
              BY <1>1, <4>2, <7>1
          <6> QED
            BY <6>1, <6>2
        <5> HIDE DEF k
        <5> QED
          BY <1>1, <1>3, <3>4, <4>1, <4>2, <5>1
      <4> QED
        BY <4>3, <4>4
    <3> HIDE DEF c
    <3>5. \E x \in d.start .. d.end : \A b \in Int, t \in LockType :
            /\ Has(q, d.pid, b, t) /\ ~Has(a.q, d.pid, b, t) => b < x
            /\ d.start <= b /\ b < x => ~Has(a.q, d.pid, b, t)
      BY <3>2, <3>3, <3>4
    <3> QED
      BY <2>3, <3>1, <3>5 DEF Ended
  <2> QED
    BY <2>1, <2>2, <2>3
<1> QED
  BY <1>5, <1>6 DEF Sane

(* The walk goes past a lock of another process, or one before the range. *)
LEMMA StepSane ==
  ASSUME NEW K \in SUBSET Good, NEW q, NEW d \in Ld, NEW a \in Walks(K), Sane(q, d, a), ~a.stop,
         a.i <= Len(a.q), NEW z, ~z.stop, z.result = a.result,
         z.q = a.q, z.i = a.i + 1, z.ld = a.ld, z.free = a.free,
         \/ a.q[a.i].pid # d.pid /\ z.ins = a.ins
         \/ z.ins = a.i /\ a.q[a.i].end < a.ld.start
  PROVE  Sane(q, d, z) /\ Nearer(a, z)
<1> DEFINE k == a.q[a.i]
<1>1. /\ Len(a.q) \in Nat /\ DOMAIN a.q = 1 .. Len(a.q) /\ a.i \in 1 .. Len(a.q)
      /\ a.ld.start \in Int /\ a.ld.end \in Int /\ a.ld.start < a.ld.end
      /\ k.start \in Int /\ k.end \in Int /\ k.start < k.end
  BY WalkFacts
<1>2. /\ Asked(d, z) /\ Sorted(z.q) /\ (d.type # "F_UNLCK" => Clear(z.q, z.ld))
      /\ Unharmed(q, d, z) /\ Ended(q, d, z)
  BY DEF Sane, Asked, Unharmed, Ended
<1>3. Placed(d, z)
  <2>1. CASE k.pid # d.pid /\ z.ins = a.ins
    BY <2>1 DEF Sane, Placed
  <2>2. CASE z.ins = a.i /\ k.end < a.ld.start
    <3>1. k.start < a.ld.start /\ z.ins # 0
      <4> HIDE DEF k
      <4> QED
        BY <1>1, <2>2
    <3> QED
      BY <2>2, <3>1 DEF Placed
  <2> QED
    BY <2>1, <2>2
<1>4. Passed(d, z)
  <2> SUFFICES ASSUME NEW j \in 1 .. Len(a.q), j < a.i + 1, a.q[j].pid = d.pid
               PROVE  Before(a.q[j], a.ld)
    BY <1>1 DEF Passed
  <2>1. CASE j < a.i
    BY <1>1, <2>1 DEF Sane, Passed
  <2>2. CASE ~(j < a.i)
    <3>1. j = a.i
      BY <1>1, <2>2
    <3>2. k.end < a.ld.start
      BY <3>1
    <3>3. Before(k, a.ld)
      <4> HIDE DEF k
      <4> QED
        BY <1>1, <3>2 DEF Before
    <3> QED
      BY <3>1, <3>3
  <2> QED
    BY <2>1, <2>2
<1>5. Goes(q, d, z)
  <2>1. \A j \in DOMAIN a.q : j >= a.i + 1 => j >= a.i
    BY <1>1
  <2> QED
    BY <2>1 DEF Sane, Goes
<1>6. Nearer(a, z)
  BY <1>1 DEF Nearer
<1> QED
  BY <1>2, <1>3, <1>4, <1>5, <1>6 DEF Sane
-----------------------------------------------------------------------------
(* What each of the steps that a turn is made of changes. *)

LEMMA StopFields ==
  ASSUME NEW K \in SUBSET Good, NEW a \in Walks(K), NEW r \in {"set", "done", "ENOSPC"},
         NEW z, z = Stop(a, r)
  PROVE  /\ z \in Walks(K) /\ z.stop /\ z.result = r
         /\ z.q = a.q /\ z.i = a.i /\ z.ins = a.ins /\ z.ld = a.ld /\ z.free = a.free
BY DEF Stop, Walks

LEMMA DeleteFields ==
  ASSUME NEW K \in SUBSET Good, NEW a \in Walks(K), a.i <= Len(a.q)
  PROVE  /\ Delete(a).q = RemoveAt(a.q, a.i) /\ Delete(a).i = a.i
         /\ Delete(a).ins = IF a.ins = a.i THEN a.i - 1 ELSE a.ins
         /\ Delete(a).ld = a.ld /\ Delete(a).free = a.free + 1
         /\ Delete(a).stop = a.stop /\ Delete(a).result = a.result
         /\ DeleteBack(a).q = RemoveAt(a.q, a.i) /\ DeleteBack(a).i = a.i
         /\ DeleteBack(a).ins = a.i - 1
         /\ DeleteBack(a).ld = a.ld /\ DeleteBack(a).free = a.free + 1
         /\ DeleteBack(a).stop = a.stop /\ DeleteBack(a).result = a.result
<1> DEFINE r == RemoveAt(a.q, a.i)
           u == a.woken \cup a.q[a.i].sleepers
           f == a.free + 1
           d == [a EXCEPT !.q = r, !.free = f, !.woken = u]
<1>1. Delflck(a) = d
  BY DEF Delflck, Walks
<1> HIDE DEF r, u, f
<1>2. /\ d.q = r /\ d.free = f /\ d.i = a.i /\ d.ins = a.ins /\ d.ld = a.ld
      /\ d.stop = a.stop /\ d.result = a.result
      /\ DOMAIN d = DOMAIN a /\ "ins" \in DOMAIN d
  BY DEF Walks
<1> DEFINE x == [d EXCEPT !.ins = IF @ = a.i THEN a.i - 1 ELSE @]
           y == [d EXCEPT !.ins = a.i - 1]
<1>3. Delete(a) = x /\ DeleteBack(a) = y
  BY <1>1, Zenon DEF Delete, DeleteBack
<1> HIDE DEF d
<1>4. /\ x.q = r /\ x.i = a.i /\ x.ins = (IF a.ins = a.i THEN a.i - 1 ELSE a.ins)
      /\ x.ld = a.ld /\ x.free = f /\ x.stop = a.stop /\ x.result = a.result
  BY <1>2
<1>5. /\ y.q = r /\ y.i = a.i /\ y.ins = a.i - 1
      /\ y.ld = a.ld /\ y.free = f /\ y.stop = a.stop /\ y.result = a.result
  BY <1>2
<1> HIDE DEF x, y
<1> QED
  BY <1>3, <1>4, <1>5 DEF r, f

(* What the lock it is at becomes, when its end is cut off. *)
LEMMA ShrinkFields ==
  ASSUME NEW K \in SUBSET Good, NEW a \in Walks(K), a.i <= Len(a.q)
  PROVE  /\ Len(Shrink(a).q) = Len(a.q)
         /\ \A j \in 1 .. Len(a.q) : j # a.i => Shrink(a).q[j] = a.q[j]
         /\ Shrink(a).q[a.i].pid = a.q[a.i].pid /\ Shrink(a).q[a.i].type = a.q[a.i].type
         /\ Shrink(a).q[a.i].start = a.q[a.i].start /\ Shrink(a).q[a.i].end = a.ld.start
         /\ Shrink(a).i = a.i + 1 /\ Shrink(a).ins = a.i
         /\ Shrink(a).ld = a.ld /\ Shrink(a).free = a.free
         /\ Shrink(a).stop = a.stop /\ Shrink(a).result = a.result
<1> DEFINE k == a.q[a.i]
           e == [k EXCEPT !.end = a.ld.start, !.sleepers = {}]
           r == [a.q EXCEPT ![a.i] = e]
           u == a.woken \cup k.sleepers
           z == [a EXCEPT !.q = r, !.woken = u, !.ins = a.i, !.i = a.i + 1]
<1>1. /\ a.q \in Seq(Fresh(K)) /\ a.i \in 1 .. Len(a.q)
      /\ Len(a.q) \in Nat /\ k \in Good
  BY WalkAt
<1>2. Shrink(a) = z
  <2> DEFINE k1 == [k EXCEPT !.end = a.ld.start]
             r1 == [a.q EXCEPT ![a.i] = k1]
             a1 == [a EXCEPT !.q = r1]
  <2>1. e = [k1 EXCEPT !.sleepers = {}]
    OBVIOUS
  <2>2. r1[a.i] = k1 /\ [r1 EXCEPT ![a.i] = e] = r
    BY <1>1
  <2>3. a1.q = r1 /\ DOMAIN a1 = DOMAIN a /\ [a EXCEPT !.q[a.i].end = a.ld.start] = a1
    BY DEF Walks
  <2>4. Shrink(a) = [a1 EXCEPT !.q[a.i].sleepers = {}, !.woken = u, !.ins = a.i, !.i = a.i + 1]
    BY <2>3 DEF Shrink, Walks
  <2>5. Shrink(a) = [a1 EXCEPT !.q = r, !.woken = u, !.ins = a.i, !.i = a.i + 1]
    <3> HIDE DEF a1, u, r, e, r1, k1
    <3> QED
      BY <2>1, <2>2, <2>3, <2>4
  <2> HIDE DEF u, r, e
  <2> QED
    BY <2>5 DEF Walks
<1>3. /\ e.pid = k.pid /\ e.type = k.type /\ e.start = k.start /\ e.end = a.ld.start
  <2> HIDE DEF k
  <2> QED
    BY <1>1 DEF Good, Lock
<1> HIDE DEF e
<1>4. /\ Len(r) = Len(a.q) /\ r[a.i] = e
      /\ \A j \in 1 .. Len(a.q) : j # a.i => r[j] = a.q[j]
  <2>1. DOMAIN a.q = 1 .. Len(a.q) /\ DOMAIN r = DOMAIN a.q
    BY <1>1
  <2>2. Len(r) = Len(a.q)
    BY <1>1, <2>1
  <2> QED
    BY <1>1, <2>1, <2>2
<1> HIDE DEF r, u
<1>5. /\ z.q = r /\ z.i = a.i + 1 /\ z.ins = a.i /\ z.ld = a.ld /\ z.free = a.free
      /\ z.stop = a.stop /\ z.result = a.result
  BY DEF Walks
<1> HIDE DEF z
<1> QED
  BY <1>2, <1>3, <1>4, <1>5

(* The piece behind the range comes right after the lock: those that follow    *)
(* begin at its end or later.                                                  *)
LEMMA PieceFields ==
  ASSUME NEW K \in SUBSET Good, NEW a \in Walks(K), a.i <= Len(a.q), a.free # 0,
         Sorted(a.q), a.ld.end < a.q[a.i].end
  PROVE  /\ Len(Piece(a).q) = Len(a.q) + 1
         /\ \A j \in 1 .. a.i : Piece(a).q[j] = a.q[j]
         /\ \A j \in a.i + 2 .. Len(a.q) + 1 : Piece(a).q[j] = a.q[j - 1]
         /\ Piece(a).q[a.i + 1].pid = a.q[a.i].pid
         /\ Piece(a).q[a.i + 1].type = a.q[a.i].type
         /\ Piece(a).q[a.i + 1].start = a.ld.end
         /\ Piece(a).q[a.i + 1].end = a.q[a.i].end
         /\ Piece(a).i = a.i /\ Piece(a).ins = a.ins
         /\ Piece(a).ld = a.ld /\ Piece(a).free = a.free - 1
         /\ Piece(a).stop = a.stop /\ Piece(a).result = a.result
<1> DEFINE k == a.q[a.i]
           n == RunEnd(a.q, a.i, a.ld.start)
           e == [k EXCEPT !.start = a.ld.end, !.sleepers = {}]
           R == {a.i} \cup {m \in a.i .. Len(a.q) : \A j \in a.i .. m : a.q[j].start < a.ld.start}
           r == InsertAt(a.q, a.i + 1, e)
           z == [a EXCEPT !.q = r, !.free = a.free - 1]
<1>1. /\ a.q \in Seq(Fresh(K)) /\ a.i \in 1 .. Len(a.q)
      /\ Len(a.q) \in Nat /\ k \in Good
  BY WalkAt
<1>2. /\ DOMAIN a.q = 1 .. Len(a.q) /\ k.end \in Int
      /\ a.ld.start \in Int /\ a.ld.end \in Int /\ a.ld.start < a.ld.end
      /\ \A j \in 1 .. Len(a.q) : a.q[j].start \in Int
  BY WalkFacts
<1>3. R = {a.i}
  <2> SUFFICES ASSUME NEW m \in a.i .. Len(a.q), m # a.i, a.q[m].start < a.ld.start PROVE FALSE
    <3>1. \A m \in R : m = a.i \/ (m \in a.i .. Len(a.q) /\ a.q[m].start < a.ld.start)
      BY <1>1
    <3> QED
      BY <3>1
  <2>1. m \in 1 .. Len(a.q) /\ a.i < m
    BY <1>1
  <2>2. k.end <= a.q[m].start
    BY <1>1, <1>2, <2>1 DEF Sorted, Apart
  <2>3. a.ld.end < k.end /\ a.q[m].start \in Int
    BY <1>2, <2>1
  <2> HIDE DEF k
  <2> QED
    BY <1>2, <2>2, <2>3
<1>4. n = a.i
  <2>1. n = Max(R)
    BY DEF RunEnd
  <2>2. R \in SUBSET (0 .. Len(a.q)) /\ R # {}
    BY <1>1, <1>3
  <2> HIDE DEF R
  <2>3. Max(R) \in R
    BY <1>1, <2>2, MaxIn
  <2> QED
    BY <1>3, <2>1, <2>3
<1>5. Piece(a) = z
  <2>1. Piece(a) = Insflck(a, n, e)
    BY DEF Piece
  <2> HIDE DEF e, n
  <2> QED
    BY <1>4, <2>1 DEF Insflck, Walks
<1>6. e.pid = k.pid /\ e.type = k.type /\ e.start = a.ld.end /\ e.end = k.end
  <2> HIDE DEF k
  <2> QED
    BY <1>1 DEF Good, Lock
<1>7. e \in Fresh(K)
  <2>1. a.ld.end < k.end /\ a.ld.end \in 0 .. MaxEnd - 1
    <3>1. k.end \in 1 .. MaxEnd /\ a.ld.end \in 1 .. MaxEnd /\ a.ld.end < k.end
      BY <1>1 DEF Good, Lock, Walks, Ld
    <3> HIDE DEF k
    <3> QED
      BY <3>1, ConstantAssumption
  <2> HIDE DEF k
  <2>2. e \in Lock /\ e.sleepers = {} /\ e.start = a.ld.end /\ e.end = k.end
    BY <1>1, <2>1 DEF Good, Lock
  <2> HIDE DEF e
  <2> QED
    BY <2>1, <2>2 DEF Fresh, Good
<1> HIDE DEF e
<1>8. /\ Len(r) = Len(a.q) + 1
      /\ \A j \in 1 .. a.i : r[j] = a.q[j]
      /\ r[a.i + 1] = e
      /\ \A j \in a.i + 2 .. Len(a.q) + 1 : r[j] = a.q[j - 1]
  <2>1. a.i \in 0 .. Len(a.q)
    BY <1>1
  <2> DEFINE S == Fresh(K)
             q == a.q
             i == a.i
  <2>2. q \in Seq(S) /\ i \in 0 .. Len(q) /\ e \in S
    BY <1>1, <1>7, <2>1
  <2> HIDE DEF S, q, i
  <2>3. /\ Len(InsertAt(q, i + 1, e)) = Len(q) + 1
        /\ \A j \in 1 .. i : InsertAt(q, i + 1, e)[j] = q[j]
        /\ InsertAt(q, i + 1, e)[i + 1] = e
        /\ \A j \in i + 2 .. Len(q) + 1 : InsertAt(q, i + 1, e)[j] = q[j - 1]
    BY <2>2, InsertedAll, SMTT(60)
  <2> QED
    BY <2>3 DEF q, i
<1> HIDE DEF r
<1>9. /\ z.q = r /\ z.i = a.i /\ z.ins = a.ins /\ z.ld = a.ld /\ z.free = a.free - 1
      /\ z.stop = a.stop /\ z.result = a.result
  BY DEF Walks
<1> HIDE DEF z
<1> QED
  BY <1>5, <1>6, <1>8, <1>9
-----------------------------------------------------------------------------
LEMMA AdjustDrops ==
  ASSUME NEW K \in SUBSET Good, NEW q, NEW d \in Ld, NEW a \in Walks(K), Sane(q, d, a), ~a.stop,
         a.i <= Len(a.q), a.q[a.i].pid = d.pid
  PROVE  LET k      == a.q[a.i]
             longer == [a EXCEPT !.ld.end = k.end]
             back   == [a EXCEPT !.ld.start = k.start]
             Ok(z)  == Sane(q, d, z) /\ Nearer(a, z)
         IN  /\ a.ld.start < k.start /\ k.end <= a.ld.end => Ok(Delete(a))
             /\ a.ld.start = k.start /\ k.end <= a.ld.end => Ok(DeleteBack(a))
             /\ k.type = a.ld.type =>
                  /\ a.ld.start < k.start /\ a.ld.end = k.end => Ok(Stop(Delete(a), "set"))
                  /\ a.ld.start < k.start /\ k.start <= a.ld.end /\ a.ld.end <= k.end =>
                       Ok(Stop(Delete(longer), "set"))
                  /\ k.start < a.ld.start /\ a.ld.start <= k.end /\ k.end < a.ld.end =>
                       Ok(DeleteBack(back))
<1> DEFINE k      == a.q[a.i]
           longer == [a EXCEPT !.ld.end = k.end]
           back   == [a EXCEPT !.ld.start = k.start]
<1>1. k \in Good /\ k.start \in Int /\ k.end \in Int /\ k.start < k.end
      /\ a.ld.start \in Int /\ a.ld.end \in Int /\ a.ld.start < a.ld.end /\ a.result = "set"
      /\ a.stop = FALSE
  BY WalkAt, AtOwn DEF Walks
<1>2. ASSUME a.ld.start < k.start, k.end <= a.ld.end
      PROVE  Sane(q, d, Delete(a)) /\ Nearer(a, Delete(a))
  <2> DEFINE z == Delete(a)
  <2>1. /\ z \in Walks(K) /\ z.q = RemoveAt(a.q, a.i) /\ z.i = a.i
        /\ z.ins = IF a.ins = a.i THEN a.i - 1 ELSE a.ins
        /\ z.ld = a.ld /\ z.free = a.free + 1 /\ ~z.stop /\ z.result = "set"
    BY <1>1, DeleteWalks, DeleteFields
  <2> HIDE DEF z
  <2>2. a.ld.start <= k.start
    BY <1>1, <1>2
  <2>3. Sane(q, d, z) /\ Nearer(a, z)
    BY <1>2, <2>1, <2>2, DropSane
  <2> QED
    BY <2>3 DEF z
<1>3. ASSUME a.ld.start = k.start, k.end <= a.ld.end
      PROVE  Sane(q, d, DeleteBack(a)) /\ Nearer(a, DeleteBack(a))
  <2> DEFINE z == DeleteBack(a)
  <2>1. /\ z \in Walks(K) /\ z.q = RemoveAt(a.q, a.i) /\ z.i = a.i /\ z.ins = a.i - 1
        /\ z.ld = a.ld /\ z.free = a.free + 1 /\ ~z.stop /\ z.result = "set"
    BY <1>1, DeleteWalks, DeleteFields
  <2> HIDE DEF z
  <2>2. a.ld.start <= k.start
    BY <1>1, <1>3
  <2>3. Sane(q, d, z) /\ Nearer(a, z)
    BY <1>3, <2>1, <2>2, DropSane
  <2> QED
    BY <2>3 DEF z
<1>4. ASSUME k.type = a.ld.type, a.ld.start < k.start, a.ld.end = k.end
      PROVE  Sane(q, d, Stop(Delete(a), "set")) /\ Nearer(a, Stop(Delete(a), "set"))
  <2> DEFINE z == Stop(Delete(a), "set")
  <2>1. Delete(a) \in Walks(K)
    BY DeleteWalks
  <2>2. /\ z \in Walks(K) /\ z.q = RemoveAt(a.q, a.i) /\ z.i = a.i
        /\ z.ins = IF a.ins = a.i THEN a.i - 1 ELSE a.ins
        /\ z.ld = a.ld /\ z.free = a.free + 1 /\ z.stop /\ z.result = "set"
    <3> DEFINE w == Delete(a)
    <3>1. /\ w.q = RemoveAt(a.q, a.i) /\ w.i = a.i
          /\ w.ins = IF a.ins = a.i THEN a.i - 1 ELSE a.ins
          /\ w.ld = a.ld /\ w.free = a.free + 1
      BY DeleteFields
    <3> HIDE DEF w
    <3>2. w \in Walks(K)
      BY <2>1 DEF w
    <3>3. z = Stop(w, "set")
      BY DEF w
    <3> HIDE DEF z
    <3>4. /\ z \in Walks(K) /\ z.stop /\ z.result = "set" /\ z.q = w.q /\ z.i = w.i
          /\ z.ins = w.ins /\ z.ld = w.ld /\ z.free = w.free
      BY <3>2, <3>3, StopFields
    <3> QED
      BY <3>1, <3>4
  <2> HIDE DEF z
  <2>3. a.ld.start <= k.start /\ k.end <= a.ld.end
    BY <1>1, <1>4
  <2>4. Sane(q, d, z) /\ Nearer(a, z)
    BY <1>4, <2>2, <2>3, DropSane
  <2> QED
    BY <2>4 DEF z
<1>5. ASSUME k.type = a.ld.type, a.ld.start < k.start, k.start <= a.ld.end, a.ld.end <= k.end
      PROVE  Sane(q, d, Stop(Delete(longer), "set")) /\ Nearer(a, Stop(Delete(longer), "set"))
  <2> DEFINE z == Stop(Delete(longer), "set")
  <2>1. a.ld.start < k.end
    <3> HIDE DEF k
    <3> QED
      BY <1>1, <1>5
  <2>2. longer \in Walks(K) /\ longer.i = a.i /\ longer.q = a.q
    BY <1>1, <2>1, WidenWalks
  <2>3. /\ longer.ld.pid = a.ld.pid /\ longer.ld.type = a.ld.type
        /\ longer.ld.start = a.ld.start /\ longer.ld.end = k.end
        /\ longer.ins = a.ins /\ longer.free = a.free
    <3> DEFINE l == [a.ld EXCEPT !.end = k.end]
    <3>1. a.ld \in [pid : Proc, type : LockType \cup {"F_UNLCK"},
                    start : 0 .. MaxEnd - 1, end : 1 .. MaxEnd]
      BY DEF Walks, Ld
    <3>2. l.pid = a.ld.pid /\ l.type = a.ld.type /\ l.start = a.ld.start /\ l.end = k.end
      BY <3>1
    <3>3. longer = [a EXCEPT !.ld = l]
      BY DEF Walks
    <3> HIDE DEF l, longer
    <3> QED
      BY <3>2, <3>3 DEF Walks
  <2> HIDE DEF longer
  <2>4. Delete(longer) \in Walks(K)
    BY <2>2, DeleteWalks
  <2>5. /\ Delete(longer).q = RemoveAt(a.q, a.i) /\ Delete(longer).i = a.i
        /\ Delete(longer).ins = IF a.ins = a.i THEN a.i - 1 ELSE a.ins
        /\ Delete(longer).ld = longer.ld /\ Delete(longer).free = a.free + 1
    BY <2>2, <2>3, DeleteFields
  <2>6. /\ z \in Walks(K) /\ z.q = RemoveAt(a.q, a.i) /\ z.i = a.i
        /\ z.ins = IF a.ins = a.i THEN a.i - 1 ELSE a.ins
        /\ z.ld = longer.ld /\ z.free = a.free + 1 /\ z.stop /\ z.result = "set"
    <3> DEFINE w == Delete(longer)
    <3>1. z = Stop(w, "set")
      BY DEF w
    <3> HIDE DEF w, z
    <3>2. w \in Walks(K)
      BY <2>4 DEF w
    <3>3. /\ z \in Walks(K) /\ z.stop /\ z.result = "set" /\ z.q = w.q /\ z.i = w.i
          /\ z.ins = w.ins /\ z.ld = w.ld /\ z.free = w.free
      BY <3>1, <3>2, StopFields
    <3> QED
      BY <2>5, <3>3 DEF w
  <2> HIDE DEF z
  <2>7. Sane(q, d, z) /\ Nearer(a, z)
    BY <1>5, <2>3, <2>6, DropSane
  <2> QED
    BY <2>7 DEF z
<1>6. ASSUME k.type = a.ld.type, k.start < a.ld.start, a.ld.start <= k.end, k.end < a.ld.end
      PROVE  Sane(q, d, DeleteBack(back)) /\ Nearer(a, DeleteBack(back))
  <2> DEFINE z == DeleteBack(back)
  <2>1. k.start < a.ld.end
    <3> HIDE DEF k
    <3> QED
      BY <1>1, <1>6
  <2>2. back \in Walks(K) /\ back.i = a.i /\ back.q = a.q
    BY <1>1, <2>1, WidenWalks
  <2>3. /\ back.ld.pid = a.ld.pid /\ back.ld.type = a.ld.type
        /\ back.ld.start = k.start /\ back.ld.end = a.ld.end
        /\ back.free = a.free /\ back.stop = a.stop /\ back.result = a.result
    <3> DEFINE l == [a.ld EXCEPT !.start = k.start]
    <3>1. a.ld \in [pid : Proc, type : LockType \cup {"F_UNLCK"},
                    start : 0 .. MaxEnd - 1, end : 1 .. MaxEnd]
      BY DEF Walks, Ld
    <3>2. l.pid = a.ld.pid /\ l.type = a.ld.type /\ l.start = k.start /\ l.end = a.ld.end
      BY <3>1
    <3>3. back = [a EXCEPT !.ld = l]
      BY DEF Walks
    <3> HIDE DEF l, back
    <3> QED
      BY <3>2, <3>3 DEF Walks
  <2> HIDE DEF back
  <2>4. /\ z \in Walks(K) /\ z.q = RemoveAt(a.q, a.i) /\ z.i = a.i /\ z.ins = a.i - 1
        /\ z.ld = back.ld /\ z.free = a.free + 1 /\ ~z.stop /\ z.result = "set"
    BY <1>1, <2>2, <2>3, DeleteWalks, DeleteFields
  <2> HIDE DEF z
  <2>5. Sane(q, d, z) /\ Nearer(a, z)
    BY <1>6, <2>3, <2>4, DropSane
  <2> QED
    BY <2>5 DEF z
<1> QED
  BY <1>2, <1>3, <1>4, <1>5, <1>6

(* A lock of another type that reaches behind the range: its end stays, as a   *)
(* lock of its own.                                                            *)
LEMMA RestSane ==
  ASSUME NEW K \in SUBSET Good, NEW q, NEW d \in Ld, NEW a \in Walks(K), Sane(q, d, a), ~a.stop,
         a.i <= Len(a.q), a.q[a.i].pid = d.pid, a.free # 0, a.q[a.i].type # a.ld.type,
         a.q[a.i].start < a.ld.end, a.ld.end < a.q[a.i].end,
         NEW w \in Walks(K), NEW z, z = Stop(w, "set"),
         \/ w = Delete(Piece(a)) /\ a.ld.start < a.q[a.i].start
         \/ w = DeleteBack(Piece(a)) /\ a.ld.start = a.q[a.i].start
  PROVE  Sane(q, d, z) /\ Nearer(a, z)
<1> DEFINE p == Piece(a)
<1>1. Sorted(a.q)
  BY DEF Sane
<1>2. /\ Len(a.q) \in Nat /\ DOMAIN a.q = 1 .. Len(a.q) /\ a.i \in 1 .. Len(a.q)
      /\ a.ld.start \in Int /\ a.q[a.i].start \in Int /\ a.free \in Nat
  BY AtOwn
<1>3. /\ Len(p.q) = Len(a.q) + 1
      /\ \A j \in 1 .. a.i : p.q[j] = a.q[j]
      /\ \A j \in a.i + 2 .. Len(a.q) + 1 : p.q[j] = a.q[j - 1]
      /\ p.q[a.i + 1].pid = a.q[a.i].pid /\ p.q[a.i + 1].type = a.q[a.i].type
      /\ p.q[a.i + 1].start = a.ld.end /\ p.q[a.i + 1].end = a.q[a.i].end
      /\ p.i = a.i /\ p.ins = a.ins /\ p.ld = a.ld /\ p.free = a.free - 1
  BY <1>1, PieceFields
<1>4. p \in Walks(K)
  BY PieceWalks
<1> HIDE DEF p
<1>5. p.i <= Len(p.q) /\ a.i \in 1 .. Len(p.q)
  BY <1>2, <1>3
<1>6. /\ w.q = RemoveAt(p.q, a.i) /\ w.i = a.i /\ w.free = a.free /\ w.ld = a.ld
      /\ \/ w.ins = (IF a.ins = a.i THEN a.i - 1 ELSE a.ins) /\ a.ld.start < a.q[a.i].start
         \/ w.ins = a.i - 1 /\ a.ld.start = a.q[a.i].start
  <2>1. (a.free - 1) + 1 = a.free
    BY <1>2
  <2> DEFINE x == Delete(p)
             y == DeleteBack(p)
  <2>2. /\ x.q = RemoveAt(p.q, p.i) /\ x.i = p.i /\ x.free = p.free + 1 /\ x.ld = p.ld
        /\ x.ins = IF p.ins = p.i THEN p.i - 1 ELSE p.ins
    BY <1>4, <1>5, DeleteFields
  <2>3. /\ y.q = RemoveAt(p.q, p.i) /\ y.i = p.i /\ y.free = p.free + 1 /\ y.ld = p.ld
        /\ y.ins = p.i - 1
    BY <1>4, <1>5, DeleteFields
  <2>4. (w = x /\ a.ld.start < a.q[a.i].start) \/ (w = y /\ a.ld.start = a.q[a.i].start)
    BY DEF p
  <2> HIDE DEF x, y
  <2>5. CASE w = x /\ a.ld.start < a.q[a.i].start
    BY <1>3, <2>1, <2>2, <2>5
  <2>6. CASE w = y /\ a.ld.start = a.q[a.i].start
    BY <1>3, <2>1, <2>3, <2>6
  <2> QED
    BY <2>4, <2>5, <2>6
<1>7. /\ Len(w.q) = Len(p.q) - 1
      /\ \A j \in 1 .. a.i - 1 : w.q[j] = p.q[j]
      /\ \A j \in a.i .. Len(p.q) - 1 : w.q[j] = p.q[j + 1]
  <2>1. p.q \in Seq(Good)
    BY <1>4, WalkFacts
  <2> DEFINE r == p.q
             n == a.i
  <2>2. r \in Seq(Good) /\ n \in 1 .. Len(r)
    BY <1>5, <2>1
  <2> HIDE DEF r, n
  <2>3. /\ Len(RemoveAt(r, n)) = Len(r) - 1
        /\ \A j \in 1 .. n - 1 : RemoveAt(r, n)[j] = r[j]
        /\ \A j \in n .. Len(r) - 1 : RemoveAt(r, n)[j] = r[j + 1]
    BY <2>2, RemovedAll
  <2> QED
    BY <1>6, <2>3 DEF r, n
<1>8. /\ z \in Walks(K) /\ z.stop /\ z.result = "set"
      /\ z.q = w.q /\ z.i = w.i /\ z.ins = w.ins /\ z.ld = w.ld /\ z.free = w.free
  BY StopFields
<1>9. Len(z.q) = Len(a.q)
  BY <1>2, <1>3, <1>7, <1>8
<1>10. ASSUME NEW j \in 1 .. Len(a.q), j # a.i PROVE z.q[j] = a.q[j]
  <2>1. CASE j < a.i
    <3>1. j \in 1 .. a.i - 1 /\ j \in 1 .. a.i
      BY <1>2, <2>1
    <3> QED
      BY <1>3, <1>7, <1>8, <3>1
  <2>2. CASE ~(j < a.i)
    <3>1. j \in a.i .. Len(p.q) - 1 /\ j + 1 \in a.i + 2 .. Len(a.q) + 1 /\ (j + 1) - 1 = j
      BY <1>2, <1>3, <1>10, <2>2
    <3> QED
      BY <1>3, <1>7, <1>8, <3>1
  <2> QED
    BY <2>1, <2>2
<1>11. z.q[a.i] = p.q[a.i + 1]
  <2>1. a.i \in a.i .. Len(p.q) - 1
    BY <1>2, <1>3
  <2> QED
    BY <1>7, <1>8, <2>1
<1>12. /\ z.q[a.i].pid = a.q[a.i].pid /\ z.q[a.i].type = a.q[a.i].type
       /\ z.q[a.i].start = a.ld.end /\ z.q[a.i].end = a.q[a.i].end
       /\ z.i = a.i /\ z.free # 0 /\ z.ld = a.ld /\ a.ld.start <= a.q[a.i].start
  <2>1. a.ld.start <= a.q[a.i].start
    BY <1>2
  <2>2. z.i = a.i /\ z.free = a.free /\ z.ld = a.ld
    BY <1>6, <1>8
  <2> QED
    BY <1>3, <1>11, <2>1, <2>2, Zenon
<1>13. \/ z.ins = a.i - 1 /\ z.ld.start = a.q[a.i].start
       \/ /\ z.ins = IF a.ins = a.i THEN a.i - 1 ELSE a.ins
          /\ a.ld.start < a.q[a.i].start
  BY <1>6, <1>8, <1>12
<1> QED
  BY <1>8, <1>9, <1>10, <1>12, <1>13, CutSane

LEMMA AdjustCuts ==
  ASSUME NEW K \in SUBSET Good, NEW q, NEW d \in Ld, NEW a \in Walks(K), Sane(q, d, a), ~a.stop,
         a.i <= Len(a.q), a.q[a.i].pid = d.pid, a.q[a.i].type # a.ld.type
  PROVE  LET k     == a.q[a.i]
             Ok(z) == Sane(q, d, z) /\ Nearer(a, z)
         IN  /\ k.start < a.ld.start /\ a.ld.start <= k.end /\ k.end <= a.ld.end => Ok(Shrink(a))
             /\ a.free # 0 /\ k.start < a.ld.end /\ a.ld.end < k.end =>
                  /\ a.ld.start < k.start => Ok(Stop(Delete(Piece(a)), "set"))
                  /\ a.ld.start = k.start => Ok(Stop(DeleteBack(Piece(a)), "set"))
                  /\ k.start < a.ld.start => Ok(Stop(Shrink(Piece(a)), "set"))
<1> DEFINE k == a.q[a.i]
<1>1. /\ Len(a.q) \in Nat /\ DOMAIN a.q = 1 .. Len(a.q) /\ a.i \in 1 .. Len(a.q)
      /\ a.ld.start \in Int /\ a.ld.end \in Int /\ a.ld.start < a.ld.end
      /\ k.start \in Int /\ k.end \in Int /\ a.free \in Nat /\ a.result = "set"
      /\ a.stop = FALSE /\ Sorted(a.q)
  BY AtOwn DEF Walks, Sane
<1>2. ASSUME k.start < a.ld.start, a.ld.start <= k.end, k.end <= a.ld.end
      PROVE  Sane(q, d, Shrink(a)) /\ Nearer(a, Shrink(a))
  <2> DEFINE z == Shrink(a)
  <2>1. z \in Walks(K)
    BY <1>2, ShrinkWalks
  <2>2. /\ Len(z.q) = Len(a.q) /\ \A j \in 1 .. Len(a.q) : j # a.i => z.q[j] = a.q[j]
        /\ z.q[a.i].pid = k.pid /\ z.q[a.i].type = k.type
        /\ z.q[a.i].start = k.start /\ z.q[a.i].end = a.ld.start
        /\ z.i = a.i + 1 /\ z.ins = a.i /\ z.ld = a.ld /\ z.free = a.free
        /\ ~z.stop /\ z.result = "set"
    BY <1>1, ShrinkFields
  <2> HIDE DEF z
  <2>3. Sane(q, d, z) /\ Nearer(a, z)
    BY <1>2, <2>1, <2>2, CutSane
  <2> QED
    BY <2>3 DEF z
<1>3. ASSUME a.free # 0, k.start < a.ld.end, a.ld.end < k.end
      PROVE  Piece(a) \in Walks(K)
  BY <1>3, PieceWalks
<1>4. ASSUME a.free # 0, k.start < a.ld.end, a.ld.end < k.end
      PROVE  /\ Delete(Piece(a)) \in Walks(K) /\ DeleteBack(Piece(a)) \in Walks(K)
             /\ k.start < a.ld.start => Shrink(Piece(a)) \in Walks(K)
  <2> DEFINE p == Piece(a)
  <2>1. p \in Walks(K) /\ p.i <= Len(p.q) /\ p.i = a.i /\ p.q[a.i] = k /\ p.ld = a.ld
    BY <1>4, PieceWalks
  <2> HIDE DEF p, k
  <2>2. Delete(p) \in Walks(K) /\ DeleteBack(p) \in Walks(K)
    BY <2>1, DeleteWalks
  <2>3. ASSUME k.start < a.ld.start PROVE Shrink(p) \in Walks(K)
    BY <2>1, <2>3, ShrinkWalks
  <2> QED
    BY <2>2, <2>3 DEF p
<1>5. ASSUME a.free # 0, k.start < a.ld.end, a.ld.end < k.end, a.ld.start < k.start
      PROVE  Sane(q, d, Stop(Delete(Piece(a)), "set")) /\ Nearer(a, Stop(Delete(Piece(a)), "set"))
  <2> DEFINE w == Delete(Piece(a))
             z == Stop(w, "set")
  <2>1. w \in Walks(K) /\ w = Delete(Piece(a)) /\ z = Stop(w, "set")
    BY <1>4, <1>5
  <2> HIDE DEF w, z
  <2>2. Sane(q, d, z) /\ Nearer(a, z)
    BY <1>5, <2>1, RestSane
  <2> QED
    BY <2>2 DEF w, z
<1>6. ASSUME a.free # 0, k.start < a.ld.end, a.ld.end < k.end, a.ld.start = k.start
      PROVE  /\ Sane(q, d, Stop(DeleteBack(Piece(a)), "set"))
             /\ Nearer(a, Stop(DeleteBack(Piece(a)), "set"))
  <2> DEFINE w == DeleteBack(Piece(a))
             z == Stop(w, "set")
  <2>1. w \in Walks(K) /\ w = DeleteBack(Piece(a)) /\ z = Stop(w, "set")
    BY <1>4, <1>6
  <2> HIDE DEF w, z
  <2>2. Sane(q, d, z) /\ Nearer(a, z)
    BY <1>6, <2>1, RestSane
  <2> QED
    BY <2>2 DEF w, z
<1>7. ASSUME a.free # 0, k.start < a.ld.end, a.ld.end < k.end, k.start < a.ld.start
      PROVE  Sane(q, d, Stop(Shrink(Piece(a)), "set")) /\ Nearer(a, Stop(Shrink(Piece(a)), "set"))
  <2> DEFINE p == Piece(a)
             w == Shrink(p)
             z == Stop(w, "set")
  <2>1. p \in Walks(K) /\ p.i <= Len(p.q) /\ w \in Walks(K) /\ z = Stop(w, "set")
    BY <1>4, <1>7, PieceWalks
  <2>2. /\ Len(p.q) = Len(a.q) + 1
        /\ \A j \in 1 .. a.i : p.q[j] = a.q[j]
        /\ \A j \in a.i + 2 .. Len(a.q) + 1 : p.q[j] = a.q[j - 1]
        /\ p.q[a.i + 1].pid = k.pid /\ p.q[a.i + 1].type = k.type
        /\ p.q[a.i + 1].start = a.ld.end /\ p.q[a.i + 1].end = k.end
        /\ p.i = a.i /\ p.ld = a.ld
    BY <1>1, <1>7, PieceFields
  <2> HIDE DEF p
  <2>3. /\ Len(w.q) = Len(p.q) /\ \A j \in 1 .. Len(p.q) : j # p.i => w.q[j] = p.q[j]
        /\ w.q[p.i].pid = p.q[p.i].pid /\ w.q[p.i].type = p.q[p.i].type
        /\ w.q[p.i].start = p.q[p.i].start /\ w.q[p.i].end = p.ld.start
        /\ w.i = p.i + 1 /\ w.ins = p.i /\ w.ld = p.ld
    BY <2>1, ShrinkFields
  <2> HIDE DEF w, z
  <2>4. /\ z \in Walks(K) /\ z.stop /\ z.result = "set"
        /\ z.q = w.q /\ z.i = w.i /\ z.ins = w.ins /\ z.ld = w.ld
    BY <2>1, StopFields
  <2>5. p.q[a.i] = k /\ a.i # a.i + 1 /\ a.i + 1 \in 1 .. Len(p.q)
    <3>1. a.i \in 1 .. a.i
      BY <1>1
    <3> QED
      BY <1>1, <2>2, <3>1, SMTT(60)
  <2>6. Len(z.q) = Len(a.q) + 1
    BY <2>2, <2>3, <2>4
  <2>7. ASSUME NEW j \in 1 .. a.i - 1 PROVE z.q[j] = a.q[j]
    <3>1. j \in 1 .. a.i /\ j \in 1 .. Len(p.q) /\ j # a.i
      BY <1>1, <2>2
    <3> QED
      BY <2>2, <2>3, <2>4, <3>1
  <2>8. ASSUME NEW j \in a.i + 2 .. Len(z.q) PROVE z.q[j] = a.q[j - 1]
    <3>1. j \in a.i + 2 .. Len(a.q) + 1 /\ j \in 1 .. Len(p.q) /\ j # a.i
      BY <1>1, <2>2, <2>6
    <3> QED
      BY <2>2, <2>3, <2>4, <3>1
  <2>9. /\ z.q[a.i].pid = k.pid /\ z.q[a.i].type = k.type
        /\ z.q[a.i].start = k.start /\ z.q[a.i].end = a.ld.start
        /\ z.q[a.i + 1] = p.q[a.i + 1]
        /\ z.i = a.i + 1 /\ z.ins = a.i /\ z.ld = a.ld
    BY <2>2, <2>3, <2>4, <2>5
  <2>10. /\ \A j \in {a.i, a.i + 1} : z.q[j].pid = k.pid /\ z.q[j].type = k.type
         /\ z.q[a.i + 1].start = a.ld.end /\ z.q[a.i + 1].end = k.end
    BY <2>2, <2>9
  <2>11. Sane(q, d, z) /\ Nearer(a, z)
    BY <1>7, <2>4, <2>6, <2>7, <2>8, <2>9, <2>10, SplitSane
  <2> QED
    BY <2>11 DEF p, w, z
<1> QED
  BY <1>2, <1>5, <1>6, <1>7

(* So a turn keeps the invariant, and stops the walk or brings it nearer to    *)
(* the end of the list.                                                        *)
LEMMA AdjustSane ==
  ASSUME NEW K \in SUBSET Good, NEW q, NEW d \in Ld, NEW a \in Walks(K), Sane(q, d, a), ~a.stop,
         a.i <= Len(a.q), a.q[a.i].pid = d.pid
  PROVE  Sane(q, d, Adjust(a)) /\ Nearer(a, Adjust(a))
<1> DEFINE k      == a.q[a.i]
           ld     == a.ld
           same   == k.type = ld.type
           within == ld.start >= k.start /\ ld.end <= k.end
           longer == [a EXCEPT !.ld.end = k.end]
           back   == [a EXCEPT !.ld.start = k.start]
           next   == [a EXCEPT !.ins = a.i, !.i = @ + 1]
           Ok(z)  == Sane(q, d, z) /\ Nearer(a, z)
<1>1. /\ k.start \in Int /\ k.end \in Int /\ ld.start \in Int /\ ld.end \in Int
      /\ k.start < k.end /\ ld.start < ld.end /\ ld.type = d.type /\ a.stop = FALSE
  BY AtOwn DEF Walks
<1>2. /\ ld.start < k.start /\ k.end <= ld.end => Ok(Delete(a))
      /\ ld.start = k.start /\ k.end <= ld.end => Ok(DeleteBack(a))
      /\ same => /\ ld.start < k.start /\ ld.end = k.end => Ok(Stop(Delete(a), "set"))
                 /\ ld.start < k.start /\ k.start <= ld.end /\ ld.end <= k.end =>
                      Ok(Stop(Delete(longer), "set"))
                 /\ k.start < ld.start /\ ld.start <= k.end /\ k.end < ld.end =>
                      Ok(DeleteBack(back))
  BY AdjustDrops
<1>3. ~same => /\ k.start < ld.start /\ ld.start <= k.end /\ k.end <= ld.end => Ok(Shrink(a))
               /\ a.free # 0 /\ k.start < ld.end /\ ld.end < k.end =>
                    /\ ld.start < k.start => Ok(Stop(Delete(Piece(a)), "set"))
                    /\ ld.start = k.start => Ok(Stop(DeleteBack(Piece(a)), "set"))
                    /\ k.start < ld.start => Ok(Stop(Shrink(Piece(a)), "set"))
  BY AdjustCuts
<1>4. ld.end < k.start \/ (ld.end = k.start /\ ~same) => Ok(Stop(a, "set"))
  <2> SUFFICES ASSUME ld.end < k.start \/ (ld.end = k.start /\ ~same) PROVE Ok(Stop(a, "set"))
    OBVIOUS
  <2> DEFINE z == Stop(a, "set")
  <2>1. z = Stop(a, "set")
    OBVIOUS
  <2> HIDE DEF z
  <2>2. /\ z.stop /\ z.result = "set"
        /\ z.q = a.q /\ z.i = a.i /\ z.ins = a.ins /\ z.ld = a.ld /\ z.free = a.free
    BY <2>1, StopFields
  <2>3. ld.end <= k.start /\ (ld.end = k.start => k.type # d.type)
    BY <1>1
  <2>4. Ok(z)
    BY <2>2, <2>3, HaltSane
  <2> QED
    BY <2>1, <2>4
<1>5. within /\ same => Ok(Stop(a, "done"))
  <2> SUFFICES ASSUME within, same PROVE Ok(Stop(a, "done"))
    OBVIOUS
  <2> DEFINE z == Stop(a, "done")
  <2>1. z = Stop(a, "done")
    OBVIOUS
  <2> HIDE DEF z
  <2>2. /\ z.stop /\ z.result = "done"
        /\ z.q = a.q /\ z.i = a.i /\ z.ins = a.ins /\ z.ld = a.ld /\ z.free = a.free
    BY <2>1, StopFields
  <2>3. k.type = d.type /\ k.start <= ld.start /\ ld.end <= k.end
    BY <1>1
  <2>4. Ok(z)
    BY <2>2, <2>3, HaltSane
  <2> QED
    BY <2>1, <2>4
<1>6. a.free = 0 /\ k.start < ld.end => Ok(Stop(a, "ENOSPC"))
  <2> SUFFICES ASSUME a.free = 0, k.start < ld.end PROVE Ok(Stop(a, "ENOSPC"))
    OBVIOUS
  <2> DEFINE z == Stop(a, "ENOSPC")
  <2>1. z = Stop(a, "ENOSPC")
    OBVIOUS
  <2> HIDE DEF z
  <2>2. /\ z.stop /\ z.result = "ENOSPC"
        /\ z.q = a.q /\ z.i = a.i /\ z.ins = a.ins /\ z.ld = a.ld /\ z.free = a.free
    BY <2>1, StopFields
  <2>3. Ok(z)
    BY <2>2, HaltSane
  <2> QED
    BY <2>1, <2>3
<1>7. k.end < ld.start => Ok(next)
  <2> SUFFICES ASSUME k.end < ld.start PROVE Ok(next)
    OBVIOUS
  <2>1. /\ ~next.stop /\ next.result = a.result /\ next.q = a.q /\ next.i = a.i + 1
        /\ next.ld = a.ld /\ next.free = a.free /\ next.ins = a.i
    BY <1>1 DEF Walks
  <2> HIDE DEF next
  <2> QED
    BY <2>1, StepSane
<1>8. Adjust(a) =
        CASE ld.end < k.start -> Stop(a, "set")
          [] ld.end = k.start -> IF same THEN Stop(Delete(longer), "set") ELSE Stop(a, "set")
          [] within /\ same -> Stop(a, "done")
          [] ld.start < k.start /\ ld.end = k.end /\ same -> Stop(Delete(a), "set")
          [] ld.start < k.start /\ ld.end >= k.end /\ ~(ld.end = k.end /\ same) -> Delete(a)
          [] ld.start = k.start /\ ld.end >= k.end /\ ~(within /\ same) -> DeleteBack(a)
          [] ld.start < k.start /\ ld.end > k.start /\ ld.end < k.end ->
               IF same THEN Stop(Delete(longer), "set")
               ELSE IF a.free = 0 THEN Stop(a, "ENOSPC") ELSE Stop(Delete(Piece(a)), "set")
          [] within /\ ~same /\ ld.end < k.end ->
               IF a.free = 0 THEN Stop(a, "ENOSPC")
               ELSE IF ld.start = k.start THEN Stop(DeleteBack(Piece(a)), "set")
                                          ELSE Stop(Shrink(Piece(a)), "set")
          [] within /\ ~same /\ ld.start > k.start /\ ld.end = k.end -> Shrink(a)
          [] k.start < ld.start /\ ld.start <= k.end /\ ld.end > k.end ->
               IF same THEN DeleteBack(back) ELSE Shrink(a)
          [] ld.start > k.end -> next
  BY Zenon DEF Adjust
<1> HIDE DEF longer, back, next, k, ld, Ok
<1>9. Ok(Adjust(a))
  BY <1>1, <1>2, <1>3, <1>4, <1>5, <1>6, <1>7, <1>8
<1> QED
  BY <1>9 DEF Ok

LEMMA TurnSane ==
  ASSUME NEW K \in SUBSET Good, NEW q, NEW d \in Ld, NEW a \in Walks(K), Sane(q, d, a)
  PROVE  /\ Sane(q, d, Turn(a))
         /\ a.stop \/ a.i > Len(a.q) => Turn(a) = a
         /\ ~(a.stop \/ a.i > Len(a.q)) => Nearer(a, Turn(a))
<1>1. a.i \in Nat /\ Len(a.q) \in Nat /\ a.ld.end \in Int /\ a.ld.pid = d.pid /\ a.stop \in BOOLEAN
  BY WalkFacts DEF Sane, Asked
<1>2. CASE a.stop \/ a.i > Len(a.q)
  BY <1>2 DEF Turn
<1>3. CASE ~(a.stop \/ a.i > Len(a.q))
  <2>1. a.i <= Len(a.q) /\ ~a.stop /\ a.stop = FALSE
    BY <1>1, <1>3
  <2> DEFINE k == a.q[a.i]
             n == [a EXCEPT !.i = @ + 1]
  <2>2. Turn(a) = IF k.pid = d.pid THEN Adjust(a)
                  ELSE IF k.start > a.ld.end THEN Stop(a, "set") ELSE n
    BY <1>1, <1>3, Zenon DEF Turn
  <2>3. CASE k.pid = d.pid
    BY <2>1, <2>2, <2>3, <1>3, AdjustSane
  <2>4. CASE k.pid # d.pid /\ k.start > a.ld.end
    <3> DEFINE z == Stop(a, "set")
    <3>1. z = Stop(a, "set") /\ Turn(a) = z
      BY <2>2, <2>4
    <3> HIDE DEF z
    <3>2. /\ z.stop /\ z.result = "set"
          /\ z.q = a.q /\ z.i = a.i /\ z.ins = a.ins /\ z.ld = a.ld /\ z.free = a.free
      BY <3>1, StopFields
    <3>3. k.start \in Int
      BY <1>1, <2>1, WalkFacts
    <3>4. a.ld.end <= k.start /\ a.ld.end # k.start
      BY <1>1, <2>4, <3>3
    <3>5. Sane(q, d, z) /\ Nearer(a, z)
      BY <2>1, <3>2, <3>4, HaltSane
    <3> QED
      BY <1>3, <3>1, <3>5
  <2>5. CASE k.pid # d.pid /\ ~(k.start > a.ld.end)
    <3>1. Turn(a) = n
      BY <2>2, <2>5
    <3>2. /\ ~n.stop /\ n.result = a.result /\ n.q = a.q /\ n.i = a.i + 1
          /\ n.ld = a.ld /\ n.free = a.free /\ n.ins = a.ins
      BY <2>1 DEF Walks
    <3> HIDE DEF n
    <3>3. Sane(q, d, n) /\ Nearer(a, n)
      BY <2>1, <2>5, <3>2, StepSane
    <3> QED
      BY <1>3, <3>1, <3>3
  <2> QED
    BY <2>3, <2>4, <2>5
<1> QED
  BY <1>2, <1>3

(* Nothing is left of the list, or the walk has stopped, after as many turns   *)
(* as the list had locks.                                                      *)
Over(a) == a.stop \/ a.i > Len(a.q)

LEMMA WalkSane ==
  ASSUME NEW K \in SUBSET Good, NEW q, NEW d \in Ld, NEW b \in Walks(K), Sane(q, d, b),
         NEW N \in Nat, Len(b.q) = N, NEW g,
         g = [n \in 0 .. N |-> IF n = 0 THEN b ELSE Turn(g[n - 1])]
  PROVE  g[N] \in Walks(K) /\ Sane(q, d, g[N]) /\ Over(g[N])
<1> DEFINE Ahead(a) == Len(a.q) - a.i
           P(n) == /\ g[n] \in Walks(K) /\ Sane(q, d, g[n])
                   /\ Over(g[n]) \/ Ahead(g[n]) <= (N - n) - 1
           T == {n \in Nat : n <= N => P(n)}
<1>1. 0 \in T
  <2>1. 0 \in 0 .. N
    OBVIOUS
  <2>2. g[0] = b
    BY <2>1, Zenon
  <2>3. b.i \in Nat \ {0}
    BY WalkFacts
  <2>4. Ahead(b) <= (N - 0) - 1
    BY <2>3
  <2> HIDE DEF Ahead
  <2> QED
    BY <2>2, <2>4
<1>2. ASSUME NEW n \in Nat, n \in T PROVE n + 1 \in T
  <2> SUFFICES ASSUME n + 1 <= N PROVE P(n + 1)
    OBVIOUS
  <2>1. n + 1 \in 0 .. N /\ n + 1 # 0 /\ (n + 1) - 1 = n /\ n <= N
    OBVIOUS
  <2>2. g[n + 1] = Turn(g[n])
    <3>1. g[n + 1] = IF n + 1 = 0 THEN b ELSE Turn(g[(n + 1) - 1])
      BY <2>1, Zenon
    <3> QED
      BY <2>1, <3>1
  <2> DEFINE a == g[n]
             z == g[n + 1]
  <2>3. a \in Walks(K) /\ Sane(q, d, a) /\ (Over(a) \/ Ahead(a) <= (N - n) - 1)
    BY <1>2, <2>1
  <2>4. z = Turn(a)
    BY <2>2
  <2> HIDE DEF a, z
  <2>5. z \in Walks(K) /\ Sane(q, d, z)
    BY <2>3, <2>4, TurnWalks, TurnSane
  <2>6. Over(z) \/ Ahead(z) <= (N - (n + 1)) - 1
    <3>1. CASE Over(a)
      <4>1. z = a
        BY <2>3, <2>4, <3>1, TurnSane DEF Over
      <4> QED
        BY <3>1, <4>1
    <3>2. CASE ~Over(a)
      <4>1. Nearer(a, z)
        BY <2>3, <2>4, <3>2, TurnSane DEF Over
      <4>2. /\ Len(a.q) \in Nat /\ a.i \in Nat
            /\ Len(z.q) \in Nat /\ z.i \in Nat
        BY <2>3, <2>5, WalkFacts
      <4>3. Ahead(a) <= (N - n) - 1
        BY <2>3, <3>2
      <4> QED
        BY <4>1, <4>2, <4>3 DEF Nearer, Over
    <3> QED
      BY <3>1, <3>2
  <2> HIDE DEF Ahead
  <2> QED
    BY <2>5, <2>6 DEF z
<1>3. N \in T
  <2> HIDE DEF T
  <2> QED
    BY <1>1, <1>2, Induct
<1>4. P(N)
  BY <1>3
<1>5. Over(g[N])
  <2> DEFINE a == g[N]
  <2>1. a \in Walks(K) /\ (Over(a) \/ Ahead(a) <= (N - N) - 1)
    BY <1>4
  <2> HIDE DEF a
  <2>2. Len(a.q) \in Nat /\ a.i \in Nat
    BY <2>1, WalkFacts
  <2>3. Over(a)
    BY <2>1, <2>2 DEF Over
  <2> QED
    BY <2>3 DEF a
<1> QED
  BY <1>4, <1>5
-----------------------------------------------------------------------------
(* Where the walk begins. *)

LEMMA ScanFirst ==
  ASSUME NEW q \in Seq(Good), NEW ld
  PROVE  /\ FirstScan(q, ld) \in 1 .. Len(q) + 1
         /\ \A j \in 1 .. Len(q) : j < FirstScan(q, ld) => ~(q[j].start >= ld.start) /\ ~Touches(q[j], ld)
         /\ FirstScan(q, ld) \in 1 .. Len(q) =>
              \/ q[FirstScan(q, ld)].start >= ld.start
              \/ Touches(q[FirstScan(q, ld)], ld)
<1> DEFINE R == {i \in DOMAIN q : q[i].start >= ld.start \/ Touches(q[i], ld)} \cup {Len(q) + 1}
           m == FirstScan(q, ld)
<1>1. /\ Len(q) \in Nat /\ R \in SUBSET Nat /\ R # {} /\ R \subseteq 1 .. Len(q) + 1
      /\ DOMAIN q = 1 .. Len(q)
      /\ \A j \in 1 .. Len(q) : q[j].start >= ld.start \/ Touches(q[j], ld) => j \in R
      /\ \A j \in R : j \in 1 .. Len(q) => q[j].start >= ld.start \/ Touches(q[j], ld)
  BY GoodAt
<1>2. m = Min(R)
  BY DEF FirstScan
<1> HIDE DEF R, m
<1>3. m \in R /\ \A y \in R : m <= y
  BY <1>1, <1>2, MinIn
<1>4. ASSUME NEW j \in 1 .. Len(q), j < m
      PROVE  ~(q[j].start >= ld.start) /\ ~Touches(q[j], ld)
  <2>1. j \notin R
    BY <1>1, <1>3, <1>4
  <2> QED
    BY <1>1, <2>1
<1> QED
  BY <1>1, <1>3, <1>4 DEF m

LEMMA BeginSane ==
  ASSUME NEW q \in Seq(Good), Sorted(q), NEW d \in Ld, NEW free \in Nat, NEW ins \in 0 .. Len(q),
         \/ d.type = "F_UNLCK" /\ ins <= 1
         \/ ins = Insrt(q, d) /\ Clear(q, d)
  PROVE  Sane(q, d, Begins(q, ins, d, free))
<1> DEFINE a == Begins(q, ins, d, free)
<1>1. /\ Len(q) \in Nat /\ DOMAIN q = 1 .. Len(q) /\ ins \in Nat
      /\ \A j \in 1 .. Len(q) : q[j].start \in Int /\ q[j].end \in Int /\ q[j].start < q[j].end
      /\ d.start \in Int /\ d.end \in Int /\ d.start < d.end
  BY GoodAt, LdRange
<1>2. /\ a.q = q /\ a.ld = d /\ a.ins = ins /\ a.free = free /\ a.stop = FALSE /\ a.result = "set"
      /\ a.i = Max({1, ins})
  BY DEF Begins
<1>3. a.i \in {1, ins} /\ 1 <= a.i /\ ins <= a.i
  <2>1. {1, ins} \in SUBSET (0 .. ins + 1) /\ {1, ins} # {} /\ ins + 1 \in Nat
    BY <1>1
  <2> DEFINE m == Max({1, ins})
  <2>2. m \in {1, ins} /\ 1 <= m /\ ins <= m
    BY <2>1, MaxIn
  <2> HIDE DEF m
  <2> QED
    BY <1>2, <2>2 DEF m
<1> HIDE DEF a
<1>4. Asked(d, a) /\ Unharmed(q, d, a) /\ Goes(q, d, a) /\ Ended(q, d, a)
  <2>1. Asked(d, a)
    BY <1>1, <1>2 DEF Asked
  <2>2. Unharmed(q, d, a)
    BY <1>2 DEF Unharmed
  <2>3. Goes(q, d, a)
    BY <1>2 DEF Goes
  <2> QED
    BY <1>2, <2>1, <2>2, <2>3 DEF Ended
<1>5. ASSUME d.type = "F_UNLCK", ins <= 1 PROVE Sane(q, d, a)
  <2>1. a.i = 1
    BY <1>1, <1>3, <1>5
  <2>2. Placed(d, a) /\ Passed(d, a)
    BY <1>1, <1>2, <1>5, <2>1 DEF Placed, Passed
  <2> QED
    BY <1>2, <1>4, <1>5, <2>2 DEF Sane
<1>6. ASSUME ins = Insrt(q, d), Clear(q, d) PROVE Sane(q, d, a)
  <2> DEFINE m == FirstScan(q, d)
  <2>1. /\ m \in 1 .. Len(q) + 1
        /\ \A j \in 1 .. Len(q) : j < m => ~(q[j].start >= d.start) /\ ~Touches(q[j], d)
        /\ m \in 1 .. Len(q) => q[m].start >= d.start \/ Touches(q[m], d)
    BY ScanFirst
  <2>2. ins = IF m \in DOMAIN q /\ q[m].start < d.start THEN m ELSE m - 1
    BY <1>6 DEF Insrt
  <2> HIDE DEF m
  <2>3. ins # 0 => q[ins].start < d.start
    <3>1. CASE m \in DOMAIN q /\ q[m].start < d.start
      BY <2>2, <3>1
    <3>2. CASE ~(m \in DOMAIN q /\ q[m].start < d.start) /\ m # 1
      <4>1. ins = m - 1 /\ m - 1 \in 1 .. Len(q) /\ m - 1 < m
        BY <1>1, <2>1, <2>2, <3>2
      <4>2. ~(q[m - 1].start >= d.start) /\ q[m - 1].start \in Int
        BY <1>1, <2>1, <4>1
      <4> QED
        BY <1>1, <4>1, <4>2
    <3>3. CASE ~(m \in DOMAIN q /\ q[m].start < d.start) /\ m = 1
      BY <2>2, <3>3
    <3> QED
      BY <3>1, <3>2, <3>3
  <2>4. ASSUME ins = 0, NEW j \in 1 .. Len(q) PROVE d.start <= q[j].start
    <3>1. m = 1 /\ ~(m \in DOMAIN q /\ q[m].start < d.start)
      BY <1>1, <2>1, <2>2, <2>4
    <3>2. 1 \in 1 .. Len(q) /\ d.start <= q[1].start
      BY <1>1, <3>1
    <3>3. CASE j = 1
      BY <3>2, <3>3
    <3>4. CASE j # 1
      <4>1. 1 < j
        BY <1>1, <3>4
      <4>2. q[1].end <= q[j].start
        BY <1>1, <3>2, <4>1 DEF Sorted, Apart
      <4> QED
        BY <1>1, <3>2, <4>2
    <3> QED
      BY <3>3, <3>4
  <2>5. Placed(d, a)
    BY <1>1, <1>2, <2>3, <2>4 DEF Placed
  <2>6. Passed(d, a)
    <3> SUFFICES ASSUME NEW j \in 1 .. Len(q), j < a.i, q[j].pid = d.pid PROVE Before(q[j], d)
      BY <1>1, <1>2 DEF Passed
    <3>1. j < m
      <4>1. ins <= m
        BY <1>1, <2>1, <2>2
      <4> QED
        BY <1>1, <1>3, <2>1, <4>1
    <3>2. ~(q[j].start >= d.start) /\ ~Touches(q[j], d)
      BY <2>1, <3>1
    <3>3. q[j].end < d.start
      BY <1>1, <3>2 DEF Touches
    <3> QED
      BY <1>1, <3>3 DEF Before
  <2> QED
    BY <1>2, <1>4, <1>6, <2>5, <2>6 DEF Sane
<1> QED
  BY <1>5, <1>6 DEF a
-----------------------------------------------------------------------------
(* Where the new lock goes. *)

LEMMA InsertedGood ==
  ASSUME NEW q \in Seq(Good), NEW n \in 0 .. Len(q), NEW e \in Good
  PROVE  /\ InsertAt(q, n + 1, e) \in Seq(Good) /\ Len(InsertAt(q, n + 1, e)) = Len(q) + 1
         /\ \A j \in 1 .. n : InsertAt(q, n + 1, e)[j] = q[j]
         /\ InsertAt(q, n + 1, e)[n + 1] = e
         /\ \A j \in n + 2 .. Len(q) + 1 : InsertAt(q, n + 1, e)[j] = q[j - 1]
<1> DEFINE S == Good
<1>1. q \in Seq(S) /\ e \in S
  OBVIOUS
<1> HIDE DEF S
<1>2. /\ InsertAt(q, n + 1, e) \in Seq(S) /\ Len(InsertAt(q, n + 1, e)) = Len(q) + 1
      /\ \A j \in 1 .. n : InsertAt(q, n + 1, e)[j] = q[j]
      /\ InsertAt(q, n + 1, e)[n + 1] = e
      /\ \A j \in n + 2 .. Len(q) + 1 : InsertAt(q, n + 1, e)[j] = q[j - 1]
  BY <1>1, InsertedAll, SMTT(60)
<1> QED
  BY <1>2 DEF S

LEMMA InsertSorted ==
  ASSUME NEW q \in Seq(Good), Sorted(q), NEW n \in 0 .. Len(q), NEW e \in Good,
         \A j \in 1 .. n : Apart(q[j], e), \A j \in n + 1 .. Len(q) : Apart(e, q[j])
  PROVE  Sorted(InsertAt(q, n + 1, e))
<1> DEFINE r == InsertAt(q, n + 1, e)
<1>1. /\ r \in Seq(Good) /\ Len(r) = Len(q) + 1
      /\ \A j \in 1 .. n : r[j] = q[j]
      /\ r[n + 1] = e
      /\ \A j \in n + 2 .. Len(q) + 1 : r[j] = q[j - 1]
  BY InsertedGood
<1> HIDE DEF r
<1>2. Len(q) \in Nat /\ DOMAIN q = 1 .. Len(q) /\ DOMAIN r = 1 .. Len(q) + 1 /\ n \in Nat /\ n <= Len(q)
  BY <1>1, GoodAt
<1>3. \A i, j \in 1 .. Len(q) : i < j => Apart(q[i], q[j])
  BY <1>2 DEF Sorted
<1>4. ASSUME NEW i \in 1 .. Len(q) + 1, NEW j \in 1 .. Len(q) + 1, i < j
      PROVE  Apart(r[i], r[j])
  <2>1. CASE j <= n
    <3>1. i \in 1 .. n /\ j \in 1 .. n /\ i \in 1 .. Len(q) /\ j \in 1 .. Len(q)
      BY <1>2, <1>4, <2>1
    <3> QED
      BY <1>1, <1>3, <1>4, <3>1
  <2>2. CASE j = n + 1
    <3>1. i \in 1 .. n
      BY <1>2, <1>4, <2>2
    <3> QED
      BY <1>1, <2>2, <3>1
  <2>3. CASE j > n + 1 /\ i <= n
    <3>1. i \in 1 .. n /\ j \in n + 2 .. Len(q) + 1 /\ i \in 1 .. Len(q) /\ j - 1 \in 1 .. Len(q)
          /\ i < j - 1
      BY <1>2, <1>4, <2>3
    <3> QED
      BY <1>1, <1>3, <3>1
  <2>4. CASE j > n + 1 /\ i = n + 1
    <3>1. j \in n + 2 .. Len(q) + 1 /\ j - 1 \in n + 1 .. Len(q)
      BY <1>2, <1>4, <2>4
    <3> QED
      BY <1>1, <2>4, <3>1
  <2>5. CASE i > n + 1
    <3>1. /\ i \in n + 2 .. Len(q) + 1 /\ j \in n + 2 .. Len(q) + 1
          /\ i - 1 \in 1 .. Len(q) /\ j - 1 \in 1 .. Len(q) /\ i - 1 < j - 1
      BY <1>2, <1>4, <2>5
    <3> QED
      BY <1>1, <1>3, <3>1
  <2> QED
    BY <1>2, <2>1, <2>2, <2>3, <2>4, <2>5
<1> QED
  BY <1>2, <1>4 DEF Sorted, r

LEMMA InsertHas ==
  ASSUME NEW q \in Seq(Good), NEW n \in 0 .. Len(q), NEW e \in Good, NEW x, NEW b, NEW t
  PROVE  Has(InsertAt(q, n + 1, e), x, b, t) <=>
           Has(q, x, b, t) \/ (e.pid = x /\ e.type = t /\ Covers(e, b))
<1> DEFINE r == InsertAt(q, n + 1, e)
           Is(k) == k.pid = x /\ k.type = t /\ Covers(k, b)
<1>1. /\ r \in Seq(Good) /\ Len(r) = Len(q) + 1
      /\ \A j \in 1 .. n : r[j] = q[j]
      /\ r[n + 1] = e
      /\ \A j \in n + 2 .. Len(q) + 1 : r[j] = q[j - 1]
  BY InsertedGood
<1> HIDE DEF r
<1>2. Len(q) \in Nat /\ DOMAIN q = 1 .. Len(q) /\ DOMAIN r = 1 .. Len(q) + 1 /\ n \in Nat /\ n <= Len(q)
  BY <1>1, GoodAt
<1>3. (\A j \in DOMAIN q : \E i \in DOMAIN r : r[i] = q[j]) /\ \E i \in DOMAIN r : r[i] = e
  <2>1. ASSUME NEW j \in 1 .. Len(q) PROVE \E i \in DOMAIN r : r[i] = q[j]
    <3>1. CASE j <= n
      BY <1>1, <1>2, <3>1, SMTT(60)
    <3>2. CASE j > n
      <4>1. j + 1 \in n + 2 .. Len(q) + 1 /\ j + 1 \in DOMAIN r /\ (j + 1) - 1 = j
        BY <1>2, <3>2
      <4> QED
        BY <1>1, <4>1
    <3> QED
      BY <1>2, <3>1, <3>2
  <2> QED
    BY <1>1, <1>2, <2>1, SMTT(60)
<1>4. \A i \in DOMAIN r : r[i] = e \/ \E j \in DOMAIN q : r[i] = q[j]
  <2> SUFFICES ASSUME NEW i \in 1 .. Len(q) + 1, i # n + 1 PROVE \E j \in DOMAIN q : r[i] = q[j]
    BY <1>1, <1>2
  <2>1. CASE i <= n
    BY <1>1, <1>2, <2>1
  <2>2. CASE i > n
    <3>1. i \in n + 2 .. Len(q) + 1 /\ i - 1 \in DOMAIN q
      BY <1>2, <2>2
    <3> QED
      BY <1>1, <3>1
  <2> QED
    BY <1>2, <2>1, <2>2
<1>5. (\E i \in DOMAIN r : Is(r[i])) <=> (\E j \in DOMAIN q : Is(q[j])) \/ Is(e)
  <2> HIDE DEF Is
  <2> QED
    BY <1>3, <1>4
<1> QED
  BY <1>5 DEF Has, r

LEMMA RunEndAt ==
  ASSUME NEW q \in Seq(Good), NEW i \in 1 .. Len(q), NEW start \in Int, q[i].start < start
  PROVE  /\ RunEnd(q, i, start) \in i .. Len(q)
         /\ \A j \in i .. RunEnd(q, i, start) : q[j].start < start
         /\ RunEnd(q, i, start) < Len(q) => start <= q[RunEnd(q, i, start) + 1].start
<1> DEFINE R == {i} \cup {k \in i .. Len(q) : \A j \in i .. k : q[j].start < start}
           n == RunEnd(q, i, start)
<1>1. Len(q) \in Nat /\ \A j \in 1 .. Len(q) : q[j].start \in Int
  BY GoodAt
<1>2. /\ R \in SUBSET (0 .. Len(q)) /\ R # {} /\ R \subseteq i .. Len(q)
      /\ \A k \in R : \A j \in i .. k : q[j].start < start
      /\ \A k \in i .. Len(q) : (\A j \in i .. k : q[j].start < start) => k \in R
  BY <1>1
<1>3. n = Max(R)
  BY DEF RunEnd
<1> HIDE DEF R, n
<1>4. n \in R /\ \A y \in R : y <= n
  BY <1>1, <1>2, <1>3, MaxIn
<1>5. ASSUME n < Len(q) PROVE start <= q[n + 1].start
  <2>1. n \in Int /\ i <= n /\ n + 1 \in i .. Len(q) /\ n + 1 \in 1 .. Len(q) /\ ~(n + 1 <= n)
    BY <1>1, <1>2, <1>4, <1>5
  <2>2. n + 1 \notin R
    BY <1>4, <2>1
  <2>3. PICK j \in i .. n + 1 : ~(q[j].start < start)
    BY <1>2, <2>1, <2>2
  <2>4. j = n + 1
    <3>1. j \in i .. n \/ j = n + 1
      BY <2>1
    <3> QED
      BY <1>2, <1>4, <2>3, <3>1
  <2> QED
    BY <1>1, <2>1, <2>3, <2>4
<1> QED
  BY <1>2, <1>4, <1>5 DEF n
-----------------------------------------------------------------------------
(* What the walk, and flckadj, leave. *)

(* On the bytes from lo up to hi p has h, if that is a lock, and nothing else; *)
(* the rest is as it was.                                                      *)
Turned(q, r, p, lo, hi, h) ==
    \A x \in Proc, b \in Int, t \in LockType :
        Has(r, x, b, t) <=> IF x = p /\ lo <= b /\ b < hi THEN t = h ELSE Has(q, x, b, t)

(* d has been set; or the process has lost the first of its bytes, or none.    *)
Outcome(q, r, d) ==
    \/ Turned(q, r, d.pid, d.start, d.end, d.type)
    \/ \E c \in d.start .. d.end : Turned(q, r, d.pid, d.start, c, "F_UNLCK")

LEMMA HasOne ==
  ASSUME NEW q \in Seq(Good), Sorted(q), NEW p, NEW b \in Int, NEW t, NEW u,
         Has(q, p, b, t), Has(q, p, b, u)
  PROVE  t = u
<1>1. /\ DOMAIN q = 1 .. Len(q) /\ Len(q) \in Nat
      /\ \A j \in 1 .. Len(q) : q[j].start \in Int /\ q[j].end \in Int
  BY GoodAt
<1>2. PICK i \in 1 .. Len(q) : q[i].pid = p /\ q[i].type = t /\ Covers(q[i], b)
  BY <1>1 DEF Has
<1>3. PICK j \in 1 .. Len(q) : q[j].pid = p /\ q[j].type = u /\ Covers(q[j], b)
  BY <1>1 DEF Has
<1>4. ~(i < j)
  <2> SUFFICES ASSUME i < j PROVE FALSE
    OBVIOUS
  <2>1. q[i].end <= q[j].start
    BY <1>1 DEF Sorted, Apart
  <2> QED
    BY <1>1, <1>2, <1>3, <2>1 DEF Covers
<1>5. ~(j < i)
  <2> SUFFICES ASSUME j < i PROVE FALSE
    OBVIOUS
  <2>1. q[j].end <= q[i].start
    BY <1>1 DEF Sorted, Apart
  <2> QED
    BY <1>1, <1>2, <1>3, <2>1 DEF Covers
<1>6. i = j
  BY <1>1, <1>4, <1>5
<1> QED
  BY <1>2, <1>3, <1>6

LEMMA Settled ==
  ASSUME NEW K \in SUBSET Good, NEW q, NEW d \in Ld, NEW a \in Walks(K), Sane(q, d, a),
         Over(a), a.result = "set"
  PROVE  /\ \A j \in 1 .. Len(a.q) : a.q[j].pid = d.pid => Before(a.q[j], a.ld) \/ After(a.q[j], a.ld)
         /\ \A b \in Int, t \in LockType : Covers(a.ld, b) => ~Has(a.q, d.pid, b, t)
<1>1. /\ Len(a.q) \in Nat /\ DOMAIN a.q = 1 .. Len(a.q) /\ a.i \in Nat
      /\ a.ld.start \in Int /\ a.ld.end \in Int
      /\ \A j \in 1 .. Len(a.q) : a.q[j].start \in Int /\ a.q[j].end \in Int
  BY WalkFacts
<1>2. ASSUME NEW j \in 1 .. Len(a.q), a.q[j].pid = d.pid
      PROVE  Before(a.q[j], a.ld) \/ After(a.q[j], a.ld)
  <2>1. CASE j < a.i
    BY <1>1, <1>2, <2>1 DEF Sane, Passed
  <2>2. CASE ~(j < a.i)
    <3>1. a.stop /\ j >= a.i
      BY <1>1, <2>2 DEF Over
    <3> QED
      BY <1>1, <1>2, <3>1 DEF Sane, Ended
  <2> QED
    BY <2>1, <2>2
<1>3. ASSUME NEW b \in Int, NEW t \in LockType, Covers(a.ld, b), Has(a.q, d.pid, b, t) PROVE FALSE
  <2>1. PICK j \in 1 .. Len(a.q) : a.q[j].pid = d.pid /\ Covers(a.q[j], b)
    BY <1>1, <1>3 DEF Has
  <2>2. a.q[j].end <= a.ld.start \/ a.ld.end <= a.q[j].start
    BY <1>2, <2>1 DEF Before, After
  <2> QED
    BY <1>1, <1>3, <2>1, <2>2 DEF Covers
<1> QED
  BY <1>2, <1>3

(* The walk alone, when nothing is to be inserted or there is no record. *)
LEMMA WalkedBytes ==
  ASSUME NEW K \in SUBSET Good, NEW q \in Seq(Good), Sorted(q), NEW d \in Ld,
         NEW a \in Walks(K), Sane(q, d, a), Over(a),
         a.result # "set" \/ d.type = "F_UNLCK" \/ a.free = 0
  PROVE  Outcome(q, a.q, d)
<1>1. /\ a.q \in Seq(Good) /\ Len(a.q) \in Nat /\ DOMAIN a.q = 1 .. Len(a.q)
      /\ a.ld.start \in Int /\ a.ld.end \in Int /\ a.result \in {"set", "done", "ENOSPC"}
      /\ \A j \in 1 .. Len(a.q) : /\ a.q[j].start \in Int /\ a.q[j].end \in Int
                                  /\ a.q[j].type \in LockType
  BY WalkFacts
<1>2. /\ d.start \in Int /\ d.end \in Int /\ d.start < d.end /\ d.pid \in Proc
  BY LdRange
<1>3. /\ a.ld.start <= d.start /\ d.end <= a.ld.end
      /\ a.free = 0 => a.ld.start = d.start /\ a.ld.end = d.end
      /\ Sorted(a.q)
  BY DEF Sane, Asked
<1>4. /\ \A x \in Proc, b \in Int, t \in LockType :
           /\ Has(a.q, x, b, t) => Has(q, x, b, t)
           /\ Has(q, x, b, t) /\ ~Has(a.q, x, b, t) =>
                x = d.pid /\ Covers(a.ld, b) /\ (Covers(d, b) \/ t = d.type)
  BY DEF Sane, Unharmed
<1>5. a.result # "set" => a.stop
  BY DEF Sane, Goes
<1>6. ASSUME NEW b \in Int, Covers(d, b) PROVE Covers(a.ld, b)
  BY <1>1, <1>2, <1>3, <1>6 DEF Covers
<1>7. CASE a.result = "set" /\ d.type = "F_UNLCK"
  <2> SUFFICES ASSUME NEW x \in Proc, NEW b \in Int, NEW t \in LockType
               PROVE  Has(a.q, x, b, t) <=>
                        IF x = d.pid /\ d.start <= b /\ b < d.end THEN t = d.type ELSE Has(q, x, b, t)
    BY DEF Outcome, Turned
  <2>1. t # d.type
    BY <1>7 DEF LockType
  <2>2. Covers(a.ld, b) => ~Has(a.q, d.pid, b, t)
    BY <1>7, Settled
  <2>3. Covers(d, b) <=> d.start <= b /\ b < d.end
    BY DEF Covers
  <2> QED
    BY <1>4, <1>6, <2>1, <2>2, <2>3
<1>8. CASE a.result = "set" /\ a.free = 0
  <2> SUFFICES Turned(q, a.q, d.pid, d.start, d.end, "F_UNLCK")
    <3>1. d.end \in d.start .. d.end
      BY <1>2
    <3> QED
      BY <3>1 DEF Outcome
  <2> SUFFICES ASSUME NEW x \in Proc, NEW b \in Int, NEW t \in LockType
               PROVE  Has(a.q, x, b, t) <=>
                        IF x = d.pid /\ d.start <= b /\ b < d.end THEN t = "F_UNLCK" ELSE Has(q, x, b, t)
    BY DEF Turned
  <2>1. t # "F_UNLCK"
    BY DEF LockType
  <2>2. Covers(a.ld, b) => ~Has(a.q, d.pid, b, t)
    BY <1>8, Settled
  <2>3. /\ Covers(d, b) <=> d.start <= b /\ b < d.end
        /\ Covers(a.ld, b) <=> Covers(d, b)
    BY <1>3, <1>8 DEF Covers
  <2> QED
    BY <1>4, <2>1, <2>2, <2>3
<1>9. CASE a.result = "done"
  <2>1. PICK j \in 1 .. Len(a.q) : /\ a.q[j].pid = d.pid /\ a.q[j].type = d.type
                                   /\ a.q[j].start <= a.ld.start /\ a.ld.end <= a.q[j].end
    BY <1>1, <1>5, <1>9 DEF Sane, Ended
  <2>2. d.type \in LockType
    BY <1>1, <2>1
  <2>3. ASSUME NEW b \in Int, Covers(a.ld, b) PROVE Has(a.q, d.pid, b, d.type)
    <3>1. Covers(a.q[j], b)
      BY <1>1, <2>1, <2>3 DEF Covers
    <3> QED
      BY <1>1, <2>1, <3>1 DEF Has
  <2> SUFFICES ASSUME NEW x \in Proc, NEW b \in Int, NEW t \in LockType
               PROVE  Has(a.q, x, b, t) <=>
                        IF x = d.pid /\ d.start <= b /\ b < d.end THEN t = d.type ELSE Has(q, x, b, t)
    BY DEF Outcome, Turned
  <2>4. Covers(d, b) <=> d.start <= b /\ b < d.end
    BY DEF Covers
  <2>5. Covers(a.ld, b) /\ Has(a.q, d.pid, b, t) => t = d.type
    BY <1>1, <1>3, <2>3, HasOne
  <2>6. Covers(d, b) => Has(a.q, d.pid, b, d.type) /\ (Has(a.q, d.pid, b, t) => t = d.type)
    BY <1>6, <2>3, <2>5
  <2>7. ~Covers(d, b) => (Has(q, x, b, t) <=> Has(a.q, x, b, t))
    BY <1>4, <2>3
  <2>8. x # d.pid => (Has(q, x, b, t) <=> Has(a.q, x, b, t))
    BY <1>4
  <2> QED
    BY <2>4, <2>6, <2>7, <2>8
<1>10. CASE a.result = "ENOSPC"
  <2>1. /\ a.ld.start = d.start /\ a.ld.end = d.end
        /\ \E c \in d.start .. d.end : \A b \in Int, t \in LockType :
             /\ Has(q, d.pid, b, t) /\ ~Has(a.q, d.pid, b, t) => b < c
             /\ d.start <= b /\ b < c => ~Has(a.q, d.pid, b, t)
    BY <1>5, <1>10 DEF Sane, Ended
  <2>2. PICK c \in d.start .. d.end : \A b \in Int, t \in LockType :
             /\ Has(q, d.pid, b, t) /\ ~Has(a.q, d.pid, b, t) => b < c
             /\ d.start <= b /\ b < c => ~Has(a.q, d.pid, b, t)
    BY <2>1
  <2> SUFFICES ASSUME NEW x \in Proc, NEW b \in Int, NEW t \in LockType
               PROVE  Has(a.q, x, b, t) <=>
                        IF x = d.pid /\ d.start <= b /\ b < c THEN t = "F_UNLCK" ELSE Has(q, x, b, t)
    BY DEF Outcome, Turned
  <2>3. t # "F_UNLCK"
    BY DEF LockType
  <2>4. Covers(a.ld, b) => d.start <= b
    BY <2>1 DEF Covers
  <2> QED
    BY <1>4, <2>2, <2>3, <2>4
<1> QED
  BY <1>1, <1>7, <1>8, <1>9, <1>10

(* The insertion. *)
LEMMA InsertedBytes ==
  ASSUME NEW K \in SUBSET Good, NEW q \in Seq(Good), Sorted(q), NEW d \in Ld,
         NEW a \in Walks(K), Sane(q, d, a), Over(a), a.result = "set", d.type # "F_UNLCK",
         NEW at, at = IF a.ins = 0 THEN 0 ELSE RunEnd(a.q, a.ins, a.ld.start),
         NEW e \in Good, e.pid = d.pid, e.type = d.type, e.start = a.ld.start, e.end = a.ld.end
  PROVE  /\ at \in 0 .. Len(a.q)
         /\ Sorted(InsertAt(a.q, at + 1, e))
         /\ Outcome(q, InsertAt(a.q, at + 1, e), d)
<1>1. /\ a.q \in Seq(Good) /\ Len(a.q) \in Nat /\ DOMAIN a.q = 1 .. Len(a.q)
      /\ a.ld.start \in Int /\ a.ld.end \in Int /\ a.ld.start < a.ld.end
      /\ a.ins \in Nat /\ a.ins <= Len(a.q)
      /\ \A j \in 1 .. Len(a.q) : /\ a.q[j].start \in Int /\ a.q[j].end \in Int
                                  /\ a.q[j].start < a.q[j].end
  BY WalkFacts
<1>2. /\ d.start \in Int /\ d.end \in Int /\ d.start < d.end /\ d.pid \in Proc
      /\ d.type \in LockType
  BY LdRange
<1>3. /\ a.ld.start <= d.start /\ d.end <= a.ld.end /\ Sorted(a.q)
      /\ a.ld.pid = d.pid /\ a.ld.type = d.type
      /\ \A j \in 1 .. Len(a.q) : a.q[j].pid # d.pid =>
           a.q[j].end <= a.ld.start \/ a.ld.end <= a.q[j].start
      /\ IF a.ins = 0 THEN \A j \in 1 .. Len(a.q) : a.ld.start <= a.q[j].start
         ELSE a.q[a.ins].start < a.ld.start
  BY <1>1 DEF Sane, Asked, Clear, Placed
<1>4. ASSUME NEW j \in 1 .. Len(a.q)
      PROVE  /\ a.q[j].start < a.ld.start => Apart(a.q[j], e)
             /\ a.ld.start <= a.q[j].start => Apart(e, a.q[j])
  <2>1. /\ a.q[j].start \in Int /\ a.q[j].end \in Int /\ a.q[j].start < a.q[j].end
    BY <1>1
  <2>2. CASE a.q[j].pid # d.pid
    <3>1. a.q[j].end <= a.ld.start \/ a.ld.end <= a.q[j].start
      BY <1>3, <2>2
    <3> QED
      BY <1>1, <2>1, <2>2, <3>1 DEF Apart
  <2>3. CASE a.q[j].pid = d.pid
    <3>1. Before(a.q[j], a.ld) \/ After(a.q[j], a.ld)
      BY <2>3, Settled
    <3> QED
      BY <1>1, <1>3, <2>1, <3>1 DEF Apart, Before, After
  <2> QED
    BY <2>2, <2>3
<1>5. \A i, j \in 1 .. Len(a.q) : i < j => a.q[i].start < a.q[j].start
  <2> SUFFICES ASSUME NEW i \in 1 .. Len(a.q), NEW j \in 1 .. Len(a.q), i < j
               PROVE  a.q[i].start < a.q[j].start
    OBVIOUS
  <2>1. a.q[i].end <= a.q[j].start
    BY <1>1, <1>3 DEF Sorted, Apart
  <2> QED
    BY <1>1, <2>1
<1>6. /\ at \in 0 .. Len(a.q)
      /\ \A j \in 1 .. at : a.q[j].start < a.ld.start
      /\ \A j \in at + 1 .. Len(a.q) : a.ld.start <= a.q[j].start
  <2>1. CASE a.ins = 0
    <3>1. at = 0 /\ 1 .. at = {} /\ at + 1 .. Len(a.q) = 1 .. Len(a.q)
      BY <1>1, <2>1
    <3> QED
      BY <1>1, <1>3, <2>1, <3>1
  <2>2. CASE a.ins # 0
    <3>1. a.ins \in 1 .. Len(a.q) /\ a.q[a.ins].start < a.ld.start
      BY <1>1, <1>3, <2>2
    <3>2. /\ at \in a.ins .. Len(a.q)
          /\ \A j \in a.ins .. at : a.q[j].start < a.ld.start
          /\ at < Len(a.q) => a.ld.start <= a.q[at + 1].start
      <4> DEFINE r == a.q
                 i == a.ins
                 s == a.ld.start
      <4>1. r \in Seq(Good) /\ i \in 1 .. Len(r) /\ s \in Int /\ r[i].start < s /\ at = RunEnd(r, i, s)
        BY <1>1, <2>2, <3>1
      <4> HIDE DEF r, i, s
      <4>2. /\ at \in i .. Len(r)
            /\ \A j \in i .. at : r[j].start < s
            /\ at < Len(r) => s <= r[at + 1].start
        BY <4>1, RunEndAt
      <4> QED
        BY <4>2 DEF r, i, s
    <3>3. ASSUME NEW j \in 1 .. at PROVE a.q[j].start < a.ld.start
      <4>1. CASE j < a.ins
        <5>1. j \in 1 .. Len(a.q) /\ a.q[j].start < a.q[a.ins].start
          BY <1>1, <1>5, <3>1, <4>1
        <5>2. a.q[j].start \in Int /\ a.q[a.ins].start \in Int
          BY <1>1, <3>1, <5>1
        <5> QED
          BY <1>1, <3>1, <5>1, <5>2
      <4>2. CASE ~(j < a.ins)
        <5>1. j \in a.ins .. at
          BY <1>1, <3>1, <3>2, <4>2
        <5> QED
          BY <3>2, <5>1
      <4> QED
        BY <4>1, <4>2
    <3>4. ASSUME NEW j \in at + 1 .. Len(a.q) PROVE a.ld.start <= a.q[j].start
      <4>1. at < Len(a.q) /\ at + 1 \in 1 .. Len(a.q) /\ j \in 1 .. Len(a.q)
        BY <1>1, <3>1, <3>2
      <4>2. a.ld.start <= a.q[at + 1].start
        BY <3>2, <4>1
      <4>3. j = at + 1 \/ a.q[at + 1].start < a.q[j].start
        BY <1>5, <4>1
      <4> QED
        BY <1>1, <4>1, <4>2, <4>3
    <3> QED
      BY <1>1, <3>1, <3>2, <3>3, <3>4
  <2> QED
    BY <2>1, <2>2
<1> HIDE DEF Good
<1>7. /\ \A j \in 1 .. at : Apart(a.q[j], e)
      /\ \A j \in at + 1 .. Len(a.q) : Apart(e, a.q[j])
  <2>1. (\A j \in 1 .. at : j \in 1 .. Len(a.q)) /\ \A j \in at + 1 .. Len(a.q) : j \in 1 .. Len(a.q)
    BY <1>1, <1>6
  <2> QED
    BY <1>4, <1>6, <2>1
<1> DEFINE r == InsertAt(a.q, at + 1, e)
<1>8. Sorted(r)
  <2> DEFINE c == a.q
  <2>1. /\ c \in Seq(Good) /\ Sorted(c) /\ at \in 0 .. Len(c)
        /\ (\A j \in 1 .. at : Apart(c[j], e)) /\ \A j \in at + 1 .. Len(c) : Apart(e, c[j])
    BY <1>1, <1>3, <1>6, <1>7
  <2> HIDE DEF c
  <2>2. Sorted(InsertAt(c, at + 1, e))
    BY <2>1, InsertSorted
  <2> QED
    BY <2>2 DEF c
<1>9. \A x, b, t : Has(r, x, b, t) <=>
        Has(a.q, x, b, t) \/ (d.pid = x /\ d.type = t /\ Covers(a.ld, b))
  <2> SUFFICES ASSUME NEW x, NEW b, NEW t
               PROVE  Has(r, x, b, t) <=>
                        Has(a.q, x, b, t) \/ (d.pid = x /\ d.type = t /\ Covers(a.ld, b))
    OBVIOUS
  <2> DEFINE c == a.q
  <2>1. c \in Seq(Good) /\ at \in 0 .. Len(c)
    BY <1>1, <1>6
  <2> HIDE DEF c
  <2>2. Has(InsertAt(c, at + 1, e), x, b, t) <=>
          Has(c, x, b, t) \/ (e.pid = x /\ e.type = t /\ Covers(e, b))
    BY <2>1, InsertHas
  <2>3. Covers(e, b) <=> Covers(a.ld, b)
    BY DEF Covers
  <2> QED
    BY <2>2, <2>3 DEF c
<1> HIDE DEF r
<1>10. Outcome(q, r, d)
  <2> SUFFICES ASSUME NEW x \in Proc, NEW b \in Int, NEW t \in LockType
               PROVE  Has(r, x, b, t) <=>
                        IF x = d.pid /\ d.start <= b /\ b < d.end THEN t = d.type ELSE Has(q, x, b, t)
    BY DEF Outcome, Turned
  <2>1. /\ Has(a.q, x, b, t) => Has(q, x, b, t)
        /\ Has(q, x, b, t) /\ ~Has(a.q, x, b, t) =>
             x = d.pid /\ Covers(a.ld, b) /\ (Covers(d, b) \/ t = d.type)
        /\ Covers(a.ld, b) /\ ~Covers(d, b) => Has(q, d.pid, b, d.type)
    BY DEF Sane, Unharmed
  <2>2. Covers(a.ld, b) => ~Has(a.q, d.pid, b, t)
    BY Settled
  <2>3. /\ Covers(d, b) <=> d.start <= b /\ b < d.end
        /\ Covers(d, b) => Covers(a.ld, b)
    BY <1>1, <1>2, <1>3 DEF Covers
  <2>4. Has(q, d.pid, b, t) /\ Has(q, d.pid, b, d.type) => t = d.type
    BY HasOne
  <2>5. CASE x # d.pid
    BY <1>9, <2>1, <2>5
  <2>6. CASE x = d.pid /\ Covers(d, b)
    BY <1>9, <2>2, <2>3, <2>6
  <2>7. CASE x = d.pid /\ ~Covers(d, b) /\ Covers(a.ld, b)
    BY <1>9, <2>1, <2>2, <2>3, <2>4, <2>7
  <2>8. CASE x = d.pid /\ ~Covers(d, b) /\ ~Covers(a.ld, b)
    BY <1>9, <2>1, <2>3, <2>8
  <2> QED
    BY <2>5, <2>6, <2>7, <2>8
<1> QED
  BY <1>6, <1>8, <1>10 DEF r

LEMMA FlckadjBytes ==
  ASSUME NEW q \in Seq(Good), Sorted(q), NEW ins \in 0 .. Len(q), NEW ld \in Ld,
         NEW free \in Nat,
         \/ ld.type = "F_UNLCK" /\ ins <= 1
         \/ ins = Insrt(q, ld) /\ Clear(q, ld)
  PROVE  /\ Flckadj(q, ins, ld, free).q \in Seq(Good)
         /\ Sorted(Flckadj(q, ins, ld, free).q)
         /\ Outcome(q, Flckadj(q, ins, ld, free).q, ld)
<1> DEFINE b == Begins(q, ins, ld, free)
           w == CHOOSE w : w = [n \in 0 .. Len(q) |-> IF n = 0 THEN b ELSE Turn(w[n - 1])]
           a == w[Len(q)]
           at == IF a.ins = 0 THEN 0 ELSE RunEnd(a.q, a.ins, a.ld.start)
           new == [pid |-> ld.pid, type |-> ld.type, start |-> a.ld.start, end |-> a.ld.end,
                   sleepers |-> {}]
           r == Flckadj(q, ins, ld, free)
           K == Good
<1>1. Len(q) \in Nat
  OBVIOUS
<1>2. w = [n \in 0 .. Len(q) |-> IF n = 0 THEN b ELSE Turn(w[n - 1])]
  <2> HIDE DEF b
  <2>1. PICK g : g = [n \in 0 .. Len(q) |-> IF n = 0 THEN b ELSE Turn(g[n - 1])]
    BY <1>1, WalkExists, ZenonT(40)
  <2> QED
    BY <2>1
<1>3. r = IF a.result # "set" \/ ld.type = "F_UNLCK" THEN a
          ELSE IF a.free = 0 THEN Stop(a, "ENOSPC")
          ELSE Insflck(a, at, new)
  BY Zenon DEF Flckadj
<1>4. K \in SUBSET Good /\ q \in Seq(K)
  OBVIOUS
<1> HIDE DEF K
<1>5. a \in Walks(K) /\ Sane(q, ld, a) /\ Over(a)
  <2>1. b \in Walks(K)
    BY <1>4, BeginsWalks
  <2>2. Sane(q, ld, b)
    BY BeginSane
  <2>3. Len(b.q) = Len(q)
    BY DEF Begins
  <2> HIDE DEF b, w, at, new, r
  <2>4. w[Len(q)] \in Walks(K) /\ Sane(q, ld, w[Len(q)]) /\ Over(w[Len(q)])
    <3> DEFINE N == Len(q)
    <3>1. w = [n \in 0 .. N |-> IF n = 0 THEN b ELSE Turn(w[n - 1])]
      BY <1>2
    <3>2. N \in Nat /\ Len(b.q) = N
      BY <1>1, <2>3
    <3>3. K \in SUBSET Good
      BY <1>4
    <3> HIDE DEF N, a
    <3>4. w[N] \in Walks(K) /\ Sane(q, ld, w[N]) /\ Over(w[N])
      BY <2>1, <2>2, <3>1, <3>2, <3>3, WalkSane, SMTT(60)
    <3> QED
      BY <3>4 DEF N
  <2> QED
    BY <2>4
<1> HIDE DEF a, w
<1>6. r.q \in Seq(Good)
  <2>1. r.q \in Seq(Fresh(K))
    BY <1>4, FlckadjList
  <2>2. Fresh(K) \subseteq Good
    BY <1>4, FreshGood
  <2> HIDE DEF r
  <2> QED
    BY <2>1, <2>2
<1>7. Sorted(a.q)
  BY <1>5 DEF Sane
<1>8. CASE a.result # "set" \/ ld.type = "F_UNLCK"
  <2>1. r = a
    BY <1>3, <1>8
  <2>2. Outcome(q, a.q, ld)
    BY <1>4, <1>5, <1>8, WalkedBytes
  <2> QED
    BY <1>6, <1>7, <2>1, <2>2
<1>9. CASE a.result = "set" /\ ld.type # "F_UNLCK" /\ a.free = 0
  <2>1. r.q = a.q
    <3>1. r = Stop(a, "ENOSPC")
      BY <1>3, <1>9
    <3> HIDE DEF r
    <3> QED
      BY <1>4, <1>5, <3>1, StopFields
  <2>2. Outcome(q, a.q, ld)
    BY <1>4, <1>5, <1>9, WalkedBytes
  <2> QED
    BY <1>6, <1>7, <2>1, <2>2
<1>10. CASE a.result = "set" /\ ld.type # "F_UNLCK" /\ a.free # 0
  <2>1. r = Insflck(a, at, new)
    BY <1>3, <1>10
  <2>2. a.ld \in Ld
    BY <1>4, <1>5, WalkFacts
  <2>3. /\ new \in Good /\ new.pid = ld.pid /\ new.type = ld.type
        /\ new.start = a.ld.start /\ new.end = a.ld.end
    BY <1>10, <2>2 DEF Good, Ld, Lock
  <2> HIDE DEF new
  <2>4. at = IF a.ins = 0 THEN 0 ELSE RunEnd(a.q, a.ins, a.ld.start)
    OBVIOUS
  <2> HIDE DEF at
  <2>5. /\ at \in 0 .. Len(a.q)
        /\ Sorted(InsertAt(a.q, at + 1, new))
        /\ Outcome(q, InsertAt(a.q, at + 1, new), ld)
    BY <1>4, <1>5, <1>10, <2>3, <2>4, InsertedBytes
  <2>6. r.q = InsertAt(a.q, at + 1, new)
    BY <1>5, <2>1 DEF Insflck, Walks
  <2> HIDE DEF r
  <2>7. Sorted(r.q) /\ Outcome(q, r.q, ld)
    BY <2>5, <2>6
  <2> QED
    BY <1>6, <2>7 DEF r
<1> QED
  BY <1>8, <1>9, <1>10
-----------------------------------------------------------------------------
(* In a sorted list blocked finds the first lock in the way, if there is one.  *)

LEMMA FoundFirst ==
  ASSUME NEW q \in Seq(Good), Sorted(q), NEW ld \in Ld, NEW i \in 1 .. Len(q), Conflicts(q[i], ld)
  PROVE  Found(q, ld) # {}
<1>1. /\ Len(q) \in Nat /\ DOMAIN q = 1 .. Len(q)
      /\ \A j \in 1 .. Len(q) : q[j].start \in Int /\ q[j].end \in Int /\ q[j].start < q[j].end
      /\ ld.start \in Int /\ ld.end \in Int
  BY GoodAt, LdRange
<1> DEFINE T == {j \in 1 .. Len(q) : Conflicts(q[j], ld)}
<1>2. T \in SUBSET Nat /\ T # {}
  BY <1>1
<1>3. PICK m \in T : \A j \in T : m <= j
  BY <1>2, Least
<1>4. m \in 1 .. Len(q) /\ Conflicts(q[m], ld)
  OBVIOUS
<1>5. ASSUME NEW j \in 1 .. m - 1
      PROVE  ~Conflicts(q[j], ld) /\ q[j].start <= ld.end
  <2>1. j \in 1 .. Len(q) /\ j < m /\ ~(m <= j)
    BY <1>1, <1>4
  <2>2. j \notin T
    BY <1>3, <2>1
  <2>3. q[j].end <= q[m].start
    BY <1>1, <1>4, <2>1 DEF Sorted, Apart
  <2>4. q[m].start < ld.end
    BY <1>1, <1>4 DEF Conflicts
  <2> QED
    BY <1>1, <1>4, <2>1, <2>2, <2>3, <2>4
<1>6. m \in Found(q, ld)
  BY <1>1, <1>4, <1>5 DEF Found
<1> QED
  BY <1>6

(* Only processes that may have read locks. *)
Reading(q) == \A j \in DOMAIN q : q[j].type = "F_RDLCK" => q[j].pid \in Readers

(* Where two read locks are one process's, nothing overlaps what may be set. *)
LEMMA NothingInWay ==
  ASSUME SoleReader, NEW q \in Seq(Good), Sorted(q), Reading(q), NEW ld \in Ld,
         ld.type \in LockType, ld.type = "F_RDLCK" => ld.pid \in Readers, Found(q, ld) = {}
  PROVE  Clear(q, ld)
<1>1. /\ Len(q) \in Nat /\ DOMAIN q = 1 .. Len(q)
      /\ \A j \in 1 .. Len(q) : /\ q[j].start \in Int /\ q[j].end \in Int
                                /\ q[j].type \in LockType
      /\ ld.start \in Int /\ ld.end \in Int
  BY GoodAt, LdRange
<1> SUFFICES ASSUME NEW j \in 1 .. Len(q), q[j].pid # ld.pid
             PROVE  q[j].end <= ld.start \/ ld.end <= q[j].start
  BY <1>1 DEF Clear
<1>2. ~Conflicts(q[j], ld)
  BY FoundFirst
<1>3. q[j].type = "F_WRLCK" \/ ld.type = "F_WRLCK"
  BY <1>1 DEF LockType, Reading, SoleReader
<1> QED
  BY <1>1, <1>2, <1>3 DEF Conflicts
-----------------------------------------------------------------------------
(* The list cleanlocks leaves. *)

(* It has the locks of the others, in their order. *)
LEMMA OthersKeeps ==
  ASSUME NEW q \in Seq(Good), Sorted(q), NEW p
  PROVE  /\ Others(q, p) \in Seq(Good) /\ Sorted(Others(q, p))
         /\ \A x, b, t : Has(Others(q, p), x, b, t) <=> x # p /\ Has(q, x, b, t)
<1>1. Len(q) \in Nat /\ DOMAIN q = 1 .. Len(q) /\ \A n \in 1 .. Len(q) : q[n] \in Good
  BY GoodAt
<1>2. PICK o : /\ o = [n \in 0 .. Len(q) |-> IF n = 0 THEN <<>>
                                            ELSE IF q[n].pid = p THEN o[n - 1]
                                            ELSE Append(o[n - 1], q[n])]
               /\ Others(q, p) = o[Len(q)]
  BY OthersExists
<1> DEFINE Of(r, n) == /\ r \in Seq(Good) /\ Sorted(r)
                       /\ \A i \in 1 .. Len(r) : \E j \in 1 .. n : r[i] = q[j] /\ q[j].pid # p
                       /\ \A j \in 1 .. n : q[j].pid # p => \E i \in 1 .. Len(r) : r[i] = q[j]
           T == {n \in Nat : n <= Len(q) => Of(o[n], n)}
<1>3. 0 \in T
  <2>1. 0 \in 0 .. Len(q)
    BY <1>1
  <2>2. o[0] = <<>>
    BY <1>2, <2>1, Zenon
  <2>3. Of(<<>>, 0)
    BY DEF Sorted
  <2> HIDE DEF Of
  <2> QED
    BY <2>2, <2>3
<1>4. ASSUME NEW n \in Nat, n \in T PROVE n + 1 \in T
  <2> SUFFICES ASSUME n + 1 <= Len(q) PROVE Of(o[n + 1], n + 1)
    BY SMTT(60)
  <2>1. n + 1 \in 0 .. Len(q) /\ n + 1 \in 1 .. Len(q) /\ n + 1 # 0 /\ (n + 1) - 1 = n
        /\ n <= Len(q)
    BY <1>1
  <2> DEFINE r == o[n]
             z == o[n + 1]
             k == q[n + 1]
  <2>2. z = IF k.pid = p THEN r ELSE Append(r, k)
    <3>1. z = IF n + 1 = 0 THEN <<>>
              ELSE IF q[n + 1].pid = p THEN o[(n + 1) - 1]
              ELSE Append(o[(n + 1) - 1], q[n + 1])
      BY <1>2, <2>1, Zenon
    <3> QED
      BY <2>1, <3>1
  <2>3. Of(r, n) /\ k \in Good /\ k = q[n + 1]
    BY <1>1, <1>4, <2>1
  <2> HIDE DEF r, z, k
  <2>4. \A j \in 1 .. n : j \in 1 .. n + 1 /\ j \in 1 .. Len(q) /\ j < n + 1
    BY <1>1, <2>1
  <2>5. \A j \in 1 .. n + 1 : j \in 1 .. n \/ j = n + 1
    OBVIOUS
  <2>6. CASE k.pid = p
    <3>1. z = r
      BY <2>2, <2>6
    <3> QED
      BY <2>3, <2>4, <2>5, <2>6, <3>1 DEF z
  <2>7. CASE k.pid # p
    <3>1. z = Append(r, k)
      BY <2>2, <2>7
    <3>2. /\ z \in Seq(Good) /\ Len(z) = Len(r) + 1 /\ z[Len(r) + 1] = k /\ Len(r) \in Nat
          /\ \A i \in 1 .. Len(r) : z[i] = r[i]
      BY <2>3, <3>1, AppendProperties
    <3>3. DOMAIN z = 1 .. Len(r) + 1 /\ DOMAIN r = 1 .. Len(r)
          /\ \A i \in 1 .. Len(r) + 1 : i \in 1 .. Len(r) \/ i = Len(r) + 1
      BY <2>3, <3>2, GoodAt
    <3>4. \A i \in 1 .. Len(r) : Apart(r[i], k)
      <4> SUFFICES ASSUME NEW i \in 1 .. Len(r) PROVE Apart(r[i], k)
        OBVIOUS
      <4>1. PICK j \in 1 .. n : r[i] = q[j]
        BY <2>3
      <4> QED
        BY <1>1, <2>1, <2>3, <2>4, <4>1 DEF Sorted
    <3>5. Sorted(z)
      <4> SUFFICES ASSUME NEW i \in 1 .. Len(r) + 1, NEW j \in 1 .. Len(r) + 1, i < j
                   PROVE  Apart(z[i], z[j])
        BY <3>3 DEF Sorted
      <4>1. i \in 1 .. Len(r)
        BY <3>2
      <4>2. CASE j \in 1 .. Len(r)
        BY <2>3, <3>2, <3>3, <4>1, <4>2 DEF Sorted
      <4>3. CASE j = Len(r) + 1
        BY <3>2, <3>4, <4>1, <4>3
      <4> QED
        BY <3>3, <4>2, <4>3
    <3>6. \A i \in 1 .. Len(z) : \E j \in 1 .. n + 1 : z[i] = q[j] /\ q[j].pid # p
      <4> SUFFICES ASSUME NEW i \in 1 .. Len(r) + 1
                   PROVE  \E j \in 1 .. n + 1 : z[i] = q[j] /\ q[j].pid # p
        BY <3>2
      <4>1. CASE i \in 1 .. Len(r)
        BY <2>3, <2>4, <3>2, <4>1
      <4>2. CASE i = Len(r) + 1
        BY <2>3, <2>7, <3>2, <4>2
      <4> QED
        BY <3>3, <4>1, <4>2
    <3>7. \A j \in 1 .. n + 1 : q[j].pid # p => \E i \in 1 .. Len(z) : z[i] = q[j]
      <4> SUFFICES ASSUME NEW j \in 1 .. n + 1, q[j].pid # p
                   PROVE  \E i \in 1 .. Len(z) : z[i] = q[j]
        OBVIOUS
      <4>1. CASE j \in 1 .. n
        <5>1. PICK i \in 1 .. Len(r) : r[i] = q[j]
          BY <2>3, <4>1
        <5>2. i \in 1 .. Len(z)
          BY <3>2
        <5> QED
          BY <3>2, <5>1, <5>2
      <4>2. CASE j = n + 1
        <5>1. Len(r) + 1 \in 1 .. Len(z)
          BY <3>2
        <5> QED
          BY <2>3, <3>2, <4>2, <5>1
      <4> QED
        BY <2>5, <4>1, <4>2
    <3> QED
      BY <3>2, <3>5, <3>6, <3>7 DEF z
  <2> QED
    BY <2>6, <2>7
<1>5. Len(q) \in T
  <2> HIDE DEF T
  <2> QED
    BY <1>1, <1>3, <1>4, Induct
<1> DEFINE r == Others(q, p)
<1>6. Of(r, Len(q))
  <2>1. r = o[Len(q)] /\ Len(q) <= Len(q)
    BY <1>1, <1>2
  <2> HIDE DEF Of, r
  <2> QED
    BY <1>5, <2>1
<1> HIDE DEF r
<1>7. DOMAIN r = 1 .. Len(r)
  BY <1>6, GoodAt
<1>8. ASSUME NEW x, NEW b, NEW t
      PROVE  Has(r, x, b, t) <=> x # p /\ Has(q, x, b, t)
  <2> DEFINE Is(k) == k.pid = x /\ k.type = t /\ Covers(k, b)
  <2>1. ASSUME NEW i \in 1 .. Len(r), Is(r[i])
        PROVE  x # p /\ \E j \in 1 .. Len(q) : Is(q[j])
    <3>1. PICK j \in 1 .. Len(q) : r[i] = q[j] /\ q[j].pid # p
      BY <1>6
    <3> QED
      BY <2>1, <3>1
  <2>2. ASSUME x # p, NEW j \in 1 .. Len(q), Is(q[j])
        PROVE  \E i \in 1 .. Len(r) : Is(r[i])
    <3>1. PICK i \in 1 .. Len(r) : r[i] = q[j]
      BY <1>6, <2>2
    <3> QED
      BY <2>2, <3>1
  <2> QED
    BY <1>1, <1>7, <2>1, <2>2 DEF Has
<1> QED
  BY <1>6, <1>8 DEF r
-----------------------------------------------------------------------------
(* Who sleeps on a lock says nothing about its bytes. *)

Same(q, r) == \A x \in Proc, b \in Int, t \in LockType : Has(q, x, b, t) <=> Has(r, x, b, t)

LEMMA Relabelled ==
  ASSUME NEW q \in Seq(Good), NEW r \in Seq(Good), Len(r) = Len(q), Sorted(q),
         \A j \in 1 .. Len(q) : /\ r[j].pid = q[j].pid /\ r[j].type = q[j].type
                                /\ r[j].start = q[j].start /\ r[j].end = q[j].end
  PROVE  Sorted(r) /\ Same(q, r)
<1>1. DOMAIN q = 1 .. Len(q) /\ DOMAIN r = 1 .. Len(q)
  BY GoodAt
<1>2. Sorted(r)
  BY <1>1 DEF Sorted, Apart
<1>3. Same(q, r)
  BY <1>1 DEF Same, Has, Covers
<1> QED
  BY <1>2, <1>3

(* Reading is about bytes. *)
LEMMA ReadingHas ==
  ASSUME NEW q \in Seq(Good)
  PROVE  Reading(q) <=> \A x \in Proc, b \in Int : Has(q, x, b, "F_RDLCK") => x \in Readers
<1>1. /\ DOMAIN q = 1 .. Len(q)
      /\ \A j \in 1 .. Len(q) : /\ q[j].start \in Int /\ q[j].end \in Int
                                /\ q[j].start < q[j].end /\ q[j].pid \in Proc
  BY GoodAt
<1>2. ASSUME Reading(q), NEW x \in Proc, NEW b \in Int, Has(q, x, b, "F_RDLCK") PROVE x \in Readers
  BY <1>2 DEF Reading, Has
<1>3. ASSUME \A x \in Proc, b \in Int : Has(q, x, b, "F_RDLCK") => x \in Readers,
             NEW j \in 1 .. Len(q), q[j].type = "F_RDLCK"
      PROVE  q[j].pid \in Readers
  <2>1. Covers(q[j], q[j].start) /\ q[j].start \in Int /\ q[j].pid \in Proc
    BY <1>1 DEF Covers
  <2>2. Has(q, q[j].pid, q[j].start, "F_RDLCK")
    BY <1>1, <1>3, <2>1 DEF Has
  <2> QED
    BY <1>3, <2>1, <2>2
<1> QED
  BY <1>1, <1>2, <1>3 DEF Reading
-----------------------------------------------------------------------------
(* The inductive invariant of the lists, and what a step does to the bytes.    *)

Wanted(ld) == ld.type \in LockType /\ (ld.type = "F_RDLCK" => ld.pid \in Readers)

InOrder == \A f \in File : Sorted(locks[f]) /\ Reading(locks[f])

OInv == InOrder /\ \A p \in Proc : sleeplck[p] # None => Wanted(sleeplck[p].ld)

(* What a call for ld may make of the list q. *)
Moved(q, r, ld) == Outcome(q, r, ld) /\ (ld.type # "F_UNLCK" => Wanted(ld) /\ Clear(q, ld))

Effect(f, ld) ==
    /\ \A g \in File : g # f => locks'[g] = locks[g]
    /\ Sorted(locks'[f])
    /\ Same(locks[f], locks'[f]) \/ Moved(locks[f], locks'[f], ld)

LEMMA MovedReading ==
  ASSUME NEW q \in Seq(Good), NEW r \in Seq(Good), Reading(q), NEW ld \in Ld,
         Same(q, r) \/ Moved(q, r, ld)
  PROVE  Reading(r)
<1> SUFFICES ASSUME NEW x \in Proc, NEW b \in Int, Has(r, x, b, "F_RDLCK") PROVE x \in Readers
  BY ReadingHas
<1>1. "F_RDLCK" \in LockType /\ "F_RDLCK" # "F_UNLCK"
  BY DEF LockType
<1>2. Has(q, x, b, "F_RDLCK") => x \in Readers
  BY ReadingHas
<1>3. CASE Same(q, r)
  BY <1>1, <1>2, <1>3 DEF Same
<1>4. CASE Turned(q, r, ld.pid, ld.start, ld.end, ld.type) /\ (ld.type # "F_UNLCK" => Wanted(ld))
  <2>1. IF x = ld.pid /\ ld.start <= b /\ b < ld.end THEN ld.type = "F_RDLCK"
        ELSE Has(q, x, b, "F_RDLCK")
    BY <1>1, <1>4 DEF Turned
  <2> QED
    BY <1>1, <1>2, <1>4, <2>1 DEF Wanted
<1>5. CASE \E c \in ld.start .. ld.end : Turned(q, r, ld.pid, ld.start, c, "F_UNLCK")
  <2>1. PICK c \in ld.start .. ld.end : Turned(q, r, ld.pid, ld.start, c, "F_UNLCK")
    BY <1>5
  <2>2. Has(q, x, b, "F_RDLCK")
    BY <1>1, <2>1 DEF Turned
  <2> QED
    BY <1>2, <2>2
<1> QED
  BY <1>3, <1>4, <1>5 DEF Moved, Outcome

(* So the lists stay in order. *)
LEMMA EffectOrder ==
  ASSUME Whole, Whole', InOrder, NEW f \in File, NEW ld \in Ld, Effect(f, ld)
  PROVE  InOrder'
<1> SUFFICES ASSUME NEW g \in File PROVE Sorted(locks'[g]) /\ Reading(locks'[g])
  BY DEF InOrder
<1>1. CASE g # f
  BY <1>1 DEF Effect, InOrder
<1>2. CASE g = f
  <2>1. locks[f] \in Seq(Good) /\ locks'[f] \in Seq(Good) /\ Reading(locks[f])
    BY DEF Whole, InOrder
  <2>2. Same(locks[f], locks'[f]) \/ Moved(locks[f], locks'[f], ld)
    BY DEF Effect
  <2>3. Reading(locks'[f])
    <3> DEFINE q == locks[f]
               r == locks'[f]
    <3>1. q \in Seq(Good) /\ r \in Seq(Good) /\ Reading(q) /\ (Same(q, r) \/ Moved(q, r, ld))
      BY <2>1, <2>2
    <3> HIDE DEF q, r
    <3>2. Reading(r)
      BY <3>1, MovedReading
    <3> QED
      BY <3>2 DEF r
  <2> QED
    BY <1>2, <2>3 DEF Effect
<1> QED
  BY <1>1, <1>2

LEMMA SetEffect ==
  ASSUME Whole, InOrder, NEW f \in File, NEW ld \in Ld, NEW ins \in 0 .. Len(locks[f]),
         \/ ld.type = "F_UNLCK" /\ ins <= 1
         \/ ins = Insrt(locks[f], ld) /\ Clear(locks[f], ld) /\ Wanted(ld),
         NEW slp, NEW ref, Set(f, ld, ins, slp, ref)
  PROVE  Effect(f, ld) /\ sleeplck' = slp
<1>1. PICK free \in Left : LET q == Flckadj(locks[f], ins, ld, free).q
                           IN  /\ locks' = [locks EXCEPT ![f] = q]
                               /\ Freefid(f, ref, q)
                               /\ sleeplck' = slp
  BY DEF Set
<1>2. free \in Nat
  BY ConstantAssumption
<1>3. locks \in [File -> Seq(Good)] /\ Sorted(locks[f])
  BY DEF Whole, InOrder
<1>4. PICK q : q = locks[f]
  OBVIOUS
<1>5. q \in Seq(Good) /\ Sorted(q) /\ ins \in 0 .. Len(q)
  BY <1>3, <1>4
<1>6. \/ ld.type = "F_UNLCK" /\ ins <= 1
      \/ ins = Insrt(q, ld) /\ Clear(q, ld)
  BY <1>4
<1>7. PICK r : r = Flckadj(q, ins, ld, free).q
  OBVIOUS
<1>8. Sorted(r) /\ Outcome(q, r, ld)
  BY <1>2, <1>5, <1>6, <1>7, FlckadjBytes
<1>9. locks' = [locks EXCEPT ![f] = r] /\ sleeplck' = slp
  BY <1>1, <1>4, <1>7
<1>10. locks'[f] = r /\ \A g \in File : g # f => locks'[g] = locks[g]
  BY <1>3, <1>9
<1>11. ld.type # "F_UNLCK" => Wanted(ld) /\ Clear(q, ld)
  BY <1>4
<1>12. Moved(q, r, ld)
  BY <1>8, <1>11 DEF Moved
<1> QED
  BY <1>4, <1>8, <1>9, <1>10, <1>12 DEF Effect

(* A call changes the bytes as it may or, if it sleeps or is refused, not.     *)
LEMMA AskEffect ==
  ASSUME SoleReader, Whole, InOrder, NEW f \in File, NEW ld \in Ld, Wanted(ld),
         NEW setlk, NEW slp, NEW ref, Ask(f, ld, setlk, slp, ref), Whole'
  PROVE  /\ Effect(f, ld)
         /\ \/ sleeplck' = slp
            \/ \E k : sleeplck' = [slp EXCEPT ![ld.pid] = [file |-> f, ld |-> ld, blkpid |-> k]]
<1>1. locks \in [File -> Seq(Good)] /\ locks' \in [File -> Seq(Good)]
      /\ Sorted(locks[f]) /\ Reading(locks[f])
  BY DEF Whole, InOrder
<1>2. CASE Found(locks[f], ld) = {} /\ Set(f, ld, Insrt(locks[f], ld), slp, ref)
  <2>1. Clear(locks[f], ld)
    <3>1. PICK q : q = locks[f]
      OBVIOUS
    <3>2. q \in Seq(Good) /\ Sorted(q) /\ Reading(q) /\ Found(q, ld) = {}
      BY <1>1, <1>2, <3>1
    <3>3. Clear(q, ld)
      BY <3>2, NothingInWay DEF Wanted
    <3> QED
      BY <3>1, <3>3
  <2>2. Insrt(locks[f], ld) \in 0 .. Len(locks[f])
    BY <1>1, InsrtIn
  <2>3. PICK ins \in 0 .. Len(locks[f]) : ins = Insrt(locks[f], ld)
    BY <2>2
  <2>4. Set(f, ld, ins, slp, ref)
    BY <1>2, <2>3
  <2>5. ins = Insrt(locks[f], ld) /\ Clear(locks[f], ld) /\ Wanted(ld)
    BY <2>1, <2>3
  <2> QED
    BY <2>4, <2>5, SetEffect
<1>3. CASE sleeplck' = slp /\ UNCHANGED locks
  BY <1>1, <1>3 DEF Effect, Same
<1>4. ASSUME NEW i \in Found(locks[f], ld),
             locks' = [locks EXCEPT ![f][i].sleepers = @ \cup {ld.pid}],
             sleeplck' = [slp EXCEPT ![ld.pid] =
                            [file |-> f, ld |-> ld, blkpid |-> locks[f][i].pid]]
      PROVE  /\ Effect(f, ld)
             /\ \E k : sleeplck' = [slp EXCEPT ![ld.pid] = [file |-> f, ld |-> ld, blkpid |-> k]]
  <2>1. PICK q : q = locks[f]
    OBVIOUS
  <2>2. q \in Seq(Good) /\ Sorted(q)
    BY <1>1, <2>1
  <2>3. /\ Len(q) \in Nat /\ DOMAIN q = 1 .. Len(q) /\ \A j \in 1 .. Len(q) : q[j] \in Good
    BY <2>2, GoodAt
  <2>4. i \in 1 .. Len(q)
    BY <2>1, <2>3 DEF Found
  <2>5. PICK e : e = [q[i] EXCEPT !.sleepers = @ \cup {ld.pid}]
    OBVIOUS
  <2>6. e.pid = q[i].pid /\ e.type = q[i].type /\ e.start = q[i].start /\ e.end = q[i].end
    BY <2>3, <2>4, <2>5 DEF Good, Lock
  <2>7. PICK r : r = [q EXCEPT ![i] = e]
    OBVIOUS
  <2>8. locks' = [locks EXCEPT ![f] = r]
    BY <1>1, <1>4, <2>1, <2>5, <2>7
  <2>9. locks'[f] = r /\ \A g \in File : g # f => locks'[g] = locks[g]
    BY <1>1, <2>8
  <2>10. r \in Seq(Good)
    BY <1>1, <2>9
  <2>11. Len(r) = Len(q)
    <3>1. DOMAIN r = 1 .. Len(q)
      BY <2>3, <2>7
    <3> QED
      BY <2>3, <2>10, <3>1
  <2>12. \A j \in 1 .. Len(q) : /\ r[j].pid = q[j].pid /\ r[j].type = q[j].type
                                /\ r[j].start = q[j].start /\ r[j].end = q[j].end
    BY <2>3, <2>4, <2>6, <2>7
  <2>13. Sorted(r) /\ Same(q, r)
    BY <2>2, <2>10, <2>11, <2>12, Relabelled
  <2>14. Effect(f, ld)
    BY <2>1, <2>9, <2>13 DEF Effect
  <2> QED
    BY <1>4, <2>14
<1> QED
  BY <1>2, <1>3, <1>4 DEF Ask

LEMMA InterruptEffect ==
  ASSUME Whole, InOrder, NEW p \in Proc, Interrupt(p), sleeplck[p].file \in File,
         NEW ld \in Ld, Whole'
  PROVE  Effect(sleeplck[p].file, ld)
<1>1. PICK f \in File : f = sleeplck[p].file
  OBVIOUS
<1>2. locks \in [File -> Seq(Good)] /\ locks' \in [File -> Seq(Good)] /\ Sorted(locks[f])
  BY DEF Whole, InOrder
<1>3. PICK q : q = locks[f]
  OBVIOUS
<1>4. q \in Seq(Good) /\ Sorted(q)
  BY <1>2, <1>3
<1>5. Len(q) \in Nat /\ DOMAIN q = 1 .. Len(q) /\ \A j \in 1 .. Len(q) : q[j] \in Good
  BY <1>4, GoodAt
<1>6. PICK r : r = [i \in DOMAIN q |-> [q[i] EXCEPT !.sleepers = @ \ {p}]]
  OBVIOUS
<1>7. locks' = [locks EXCEPT ![f] = r]
  BY <1>1, <1>2, <1>3, <1>6 DEF Interrupt
<1>8. locks'[f] = r /\ \A g \in File : g # f => locks'[g] = locks[g]
  BY <1>2, <1>7
<1>9. r \in Seq(Good)
  BY <1>2, <1>8
<1>10. Len(r) = Len(q)
  <2>1. DOMAIN r = 1 .. Len(q)
    BY <1>5, <1>6
  <2> QED
    BY <1>5, <1>9, <2>1
<1>11. ASSUME NEW j \in 1 .. Len(q)
       PROVE  /\ r[j].pid = q[j].pid /\ r[j].type = q[j].type
              /\ r[j].start = q[j].start /\ r[j].end = q[j].end
  <2>1. r[j] = [q[j] EXCEPT !.sleepers = @ \ {p}] /\ q[j] \in Good
    BY <1>5, <1>6
  <2> QED
    BY <2>1 DEF Good, Lock
<1>12. Sorted(r) /\ Same(q, r)
  BY <1>4, <1>9, <1>10, <1>11, Relabelled
<1> QED
  BY <1>1, <1>3, <1>8, <1>12 DEF Effect

LEMMA CleanEffect ==
  ASSUME Whole, InOrder, NEW p \in Proc, NEW f \in File, Cleanlocks(p, f)
  PROVE  \E ld \in Ld : Effect(f, ld)
<1>1. locks \in [File -> Seq(Good)] /\ Sorted(locks[f])
  BY DEF Whole, InOrder
<1>2. PICK q : q = locks[f]
  OBVIOUS
<1>3. q \in Seq(Good) /\ Sorted(q)
  BY <1>1, <1>2
<1>4. PICK r : r = Others(q, p)
  OBVIOUS
<1>5. locks' = [locks EXCEPT ![f] = r]
  BY <1>2, <1>4 DEF Cleanlocks
<1>6. locks'[f] = r /\ \A g \in File : g # f => locks'[g] = locks[g]
  BY <1>1, <1>5
<1>7. Sorted(r) /\ \A x, b, t : Has(r, x, b, t) <=> x # p /\ Has(q, x, b, t)
  BY <1>3, <1>4, OthersKeeps
<1> DEFINE ld == [pid |-> p, type |-> "F_UNLCK", start |-> 0, end |-> MaxEnd]
<1>8. ld \in Ld
  <2>1. 0 \in 0 .. MaxEnd - 1 /\ MaxEnd \in 1 .. MaxEnd /\ 0 < MaxEnd
    BY ConstantAssumption
  <2> QED
    BY <2>1 DEF Ld
<1>9. ld.pid = p /\ ld.type = "F_UNLCK" /\ ld.start = 0 /\ ld.end = MaxEnd
  OBVIOUS
<1> HIDE DEF ld
<1>10. Turned(q, r, p, 0, MaxEnd, "F_UNLCK")
  <2> SUFFICES ASSUME NEW x \in Proc, NEW b \in Int, NEW t \in LockType
               PROVE  Has(r, x, b, t) <=>
                        IF x = p /\ 0 <= b /\ b < MaxEnd THEN t = "F_UNLCK" ELSE Has(q, x, b, t)
    BY DEF Turned
  <2>1. t # "F_UNLCK"
    BY DEF LockType
  <2>2. Has(q, x, b, t) => 0 <= b /\ b < MaxEnd
    <3> SUFFICES ASSUME Has(q, x, b, t) PROVE 0 <= b /\ b < MaxEnd
      OBVIOUS
    <3>1. PICK j \in 1 .. Len(q) : Covers(q[j], b)
      BY <1>3, GoodAt DEF Has
    <3>2. q[j] \in Good
      BY <1>3, GoodAt
    <3>3. /\ q[j].start \in Int /\ q[j].end \in Int
          /\ 0 <= q[j].start /\ q[j].end <= MaxEnd
      BY <3>2, GoodRange
    <3> QED
      BY <3>1, <3>3, ConstantAssumption DEF Covers
  <2> QED
    BY <1>7, <2>1, <2>2
<1>11. Moved(q, r, ld)
  BY <1>9, <1>10 DEF Moved, Outcome
<1> QED
  BY <1>2, <1>6, <1>7, <1>8, <1>11 DEF Effect

LEMMA StepEffect ==
  ASSUME SoleReader, SInv, SInv', OInv, Next
  PROVE  OInv' /\ \E f \in File, ld \in Ld : Effect(f, ld)
<1>1. /\ Whole /\ Whole' /\ InOrder
      /\ sleeplck \in [Proc -> Sleeper \cup {None}] /\ sleeplck' \in [Proc -> Sleeper \cup {None}]
      /\ \A p \in Proc : sleeplck[p] # None => Wanted(sleeplck[p].ld)
  BY DEF SInv, OInv, TypeOK
<1>2. ASSUME NEW f \in File, NEW ld \in Ld, Effect(f, ld)
      PROVE  InOrder'
  BY <1>1, <1>2, EffectOrder
<1>3. ASSUME NEW f \in File, NEW ld \in Ld, Wanted(ld), NEW setlk, NEW slp, NEW ref,
             Ask(f, ld, setlk, slp, ref), DOMAIN slp = Proc,
             \A p \in Proc : slp[p] = sleeplck[p] \/ slp[p] = None
      PROVE  Effect(f, ld) /\ OInv'
  <2>1. /\ Effect(f, ld)
        /\ \/ sleeplck' = slp
           \/ \E k : sleeplck' = [slp EXCEPT ![ld.pid] = [file |-> f, ld |-> ld, blkpid |-> k]]
    BY <1>1, <1>3, AskEffect
  <2>2. ASSUME NEW p \in Proc, sleeplck'[p] # None PROVE Wanted(sleeplck'[p].ld)
    <3>1. CASE sleeplck' = slp
      BY <1>1, <1>3, <2>2, <3>1
    <3>2. CASE \E k : sleeplck' = [slp EXCEPT ![ld.pid] = [file |-> f, ld |-> ld, blkpid |-> k]]
      <4>1. PICK k : sleeplck' = [slp EXCEPT ![ld.pid] = [file |-> f, ld |-> ld, blkpid |-> k]]
        BY <3>2
      <4>2. CASE p = ld.pid
        <5>1. sleeplck'[p].ld = ld
          BY <1>3, <4>1, <4>2
        <5> QED
          BY <1>3, <5>1
      <4>3. CASE p # ld.pid
        <5>1. sleeplck'[p] = slp[p]
          BY <1>3, <4>1, <4>3
        <5> QED
          BY <1>1, <1>3, <2>2, <5>1
      <4> QED
        BY <4>2, <4>3
    <3> QED
      BY <2>1, <3>1, <3>2
  <2>3. InOrder'
    BY <1>2, <2>1
  <2> QED
    BY <2>1, <2>2, <2>3 DEF OInv
<1>4. ASSUME NEW f \in File, NEW ld \in Ld, SetLock(f, ld) PROVE Effect(f, ld) /\ OInv'
  <2>1. Wanted(ld)
    <3>1. ld.type \in LockType \cup {"F_UNLCK"}
      BY LdRange
    <3> QED
      BY <1>4, <3>1 DEF SetLock, Wanted
  <2>2. Ask(f, ld, TRUE, sleeplck, refcnt[f] + 1)
    BY <1>4 DEF SetLock
  <2> QED
    BY <1>1, <1>3, <2>1, <2>2
<1>5. ASSUME NEW f \in File, NEW ld \in Ld, Unlock(f, ld) PROVE Effect(f, ld) /\ OInv'
  <2>1. PICK ins : ins = IF locks[f] = <<>> THEN 0 ELSE 1
    OBVIOUS
  <2>2. locks[f] \in Seq(Good)
    BY <1>1 DEF Whole
  <2>3. ins \in 0 .. Len(locks[f]) /\ ins <= 1
    BY <2>1, <2>2, EmptySeq
  <2>4. Set(f, ld, ins, sleeplck, refcnt[f] + 1) /\ ld.type = "F_UNLCK"
    BY <1>5, <2>1 DEF Unlock
  <2>5. Effect(f, ld) /\ sleeplck' = sleeplck
    BY <1>1, <2>3, <2>4, SetEffect
  <2> QED
    BY <1>1, <1>2, <2>5 DEF OInv
<1>6. ASSUME NEW p \in Proc, Resume(p)
      PROVE  OInv' /\ \E f \in File, ld \in Ld : Effect(f, ld)
  <2>1. PICK slp : slp = [sleeplck EXCEPT ![p] = None]
    OBVIOUS
  <2>2. PICK e : e = sleeplck[p]
    OBVIOUS
  <2>3. e.file \in File /\ e.ld \in Ld
    BY <1>1, <1>6, <2>2 DEF Sleeper, Resume
  <2>4. Ask(e.file, e.ld, FALSE, slp, refcnt[e.file])
    BY <1>6, <2>1, <2>2 DEF Resume
  <2>5. Wanted(e.ld)
    BY <1>1, <1>6, <2>2 DEF Resume
  <2>6. DOMAIN slp = Proc /\ \A x \in Proc : slp[x] = sleeplck[x] \/ slp[x] = None
    BY <1>1, <2>1
  <2>7. Effect(e.file, e.ld) /\ OInv'
    BY <1>3, <2>3, <2>4, <2>5, <2>6
  <2> QED
    BY <2>3, <2>7
<1>7. ASSUME NEW p \in Proc, Interrupt(p)
      PROVE  OInv' /\ \E f \in File, ld \in Ld : Effect(f, ld)
  <2>1. sleeplck[p] # None /\ sleeplck' = [sleeplck EXCEPT ![p] = None]
    BY <1>7 DEF Interrupt
  <2>2. sleeplck[p].file \in File /\ sleeplck[p].ld \in Ld
    BY <1>1, <2>1 DEF Sleeper
  <2>3. Effect(sleeplck[p].file, sleeplck[p].ld)
    BY <1>1, <1>7, <2>2, InterruptEffect
  <2>4. \A x \in Proc : sleeplck'[x] # None => Wanted(sleeplck'[x].ld)
    BY <1>1, <2>1
  <2> QED
    BY <1>2, <2>2, <2>3, <2>4 DEF OInv
<1>8. ASSUME NEW p \in Proc, NEW f \in File, Cleanlocks(p, f)
      PROVE  OInv' /\ \E ld \in Ld : Effect(f, ld)
  <2>1. PICK ld \in Ld : Effect(f, ld)
    BY <1>1, <1>8, CleanEffect
  <2>2. sleeplck' = sleeplck
    BY <1>8 DEF Cleanlocks
  <2> QED
    BY <1>1, <1>2, <2>1, <2>2 DEF OInv
<1> QED
  BY <1>4, <1>5, <1>6, <1>7, <1>8 DEF Next

LEMMA OInvInit == Init => OInv
<1> SUFFICES ASSUME Init PROVE OInv
  OBVIOUS
<1>1. \A f \in File : Sorted(locks[f]) /\ Reading(locks[f])
  BY DEF Init, Sorted, Reading
<1>2. \A p \in Proc : sleeplck[p] = None
  BY DEF Init
<1> QED
  BY <1>1, <1>2 DEF OInv, InOrder

LEMMA OInvNext == ASSUME SoleReader PROVE SInv /\ SInv' /\ OInv /\ [Next]_vars => OInv'
<1>1. ASSUME SInv, SInv', OInv, Next PROVE OInv'
  BY <1>1, StepEffect
<1>2. ASSUME OInv, UNCHANGED vars PROVE OInv'
  BY <1>2 DEF OInv, InOrder, vars
<1> QED
  BY <1>1, <1>2

LEMMA OInvAlways == ASSUME SoleReader PROVE Spec => []OInv
<1>1. SInv /\ SInv' /\ OInv /\ [Next]_vars => OInv'
  BY OInvNext
<1> QED
  BY <1>1, OInvInit, SInvAlways, PTL DEF Spec

(* Where no two processes ask for read locks, the locks of a file stay in the  *)
(* order of their start and those of one process apart, whatever flckadj cuts, *)
(* splits and joins, and however long the list.                                *)
THEOREM LocksOrdered == ASSUME SoleReader PROVE Spec => []ListOrdered
<1>1. SInv /\ OInv => ListOrdered
  <2> SUFFICES ASSUME SInv, OInv, NEW f \in File, NEW i \in DOMAIN locks[f],
                      NEW j \in DOMAIN locks[f], i < j
               PROVE  LET k == locks[f][i]
                          m == locks[f][j]
                      IN  /\ k.start <= m.start
                          /\ k.pid = m.pid => k.end < m.start \/ (k.end = m.start /\ k.type # m.type)
    BY DEF ListOrdered
  <2>1. PICK k \in Good, m \in Good : k = locks[f][i] /\ m = locks[f][j]
    BY LockIn DEF SInv
  <2>2. Apart(k, m)
    BY <2>1 DEF OInv, InOrder, Sorted
  <2>3. /\ k.start \in Int /\ k.end \in Int /\ k.start < k.end
        /\ m.start \in Int
    BY GoodRange
  <2>4. /\ k.start <= m.start
        /\ k.pid = m.pid => k.end < m.start \/ (k.end = m.start /\ k.type # m.type)
    BY <2>2, <2>3 DEF Apart
  <2> QED
    BY <2>1, <2>4
<1> QED
  BY <1>1, SInvAlways, OInvAlways, PTL

(* And there no two locks are in conflict: it takes two readers for blocked to  *)
(* give up its scan too early.                                                 *)
THEOREM LocksExclude == ASSUME SoleReader PROVE Spec => []NoConflict
<1>1. SInv /\ OInv => NoConflict
  <2> SUFFICES ASSUME SInv, OInv, NEW f \in File, NEW i \in DOMAIN locks[f],
                      NEW j \in DOMAIN locks[f], Conflicts(locks[f][i], locks[f][j])
               PROVE  FALSE
    BY DEF NoConflict
  <2>1. PICK k \in Good, m \in Good : k = locks[f][i] /\ m = locks[f][j]
    BY LockIn DEF SInv
  <2>2. DOMAIN locks[f] = 1 .. Len(locks[f]) /\ Len(locks[f]) \in Nat
    BY LockIn DEF SInv
  <2>3. i < j \/ j < i \/ k = m
    BY <2>1, <2>2
  <2>4. k = m \/ Apart(k, m) \/ Apart(m, k)
    BY <2>1, <2>3 DEF OInv, InOrder, Sorted
  <2>5. /\ k.start \in Int /\ k.end \in Int /\ m.start \in Int /\ m.end \in Int
    BY GoodRange
  <2> QED
    BY <2>1, <2>4, <2>5 DEF Conflicts, Apart
<1> QED
  BY <1>1, SInvAlways, OInvAlways, PTL
-----------------------------------------------------------------------------
(* The lists implement locks on bytes. *)

(* What list q says of byte b and process p. *)
At(q, p, b) ==
    LET own == {i \in DOMAIN q : q[i].pid = p /\ q[i].start <= b /\ b < q[i].end}
    IN  IF own = {} THEN "none" ELSE q[Min(own)].type

LEMMA AtHas ==
  ASSUME NEW q \in Seq(Good), Sorted(q), NEW p, NEW b \in Int
  PROVE  /\ At(q, p, b) \in LockType \cup {"none"}
         /\ \A t \in LockType : At(q, p, b) = t <=> Has(q, p, b, t)
<1>1. /\ Len(q) \in Nat /\ DOMAIN q = 1 .. Len(q)
      /\ \A j \in 1 .. Len(q) : q[j].type \in LockType
  BY GoodAt
<1> DEFINE own == {i \in DOMAIN q : q[i].pid = p /\ q[i].start <= b /\ b < q[i].end}
<1>2. At(q, p, b) = IF own = {} THEN "none" ELSE q[Min(own)].type
  BY DEF At
<1>3. \A i \in 1 .. Len(q) : i \in own <=> q[i].pid = p /\ Covers(q[i], b)
  BY <1>1 DEF Covers
<1>4. own \in SUBSET Nat /\ own \subseteq 1 .. Len(q)
  BY <1>1
<1> HIDE DEF own
<1>5. \A t \in LockType : Has(q, p, b, t) <=> \E i \in own : q[i].type = t
  BY <1>1, <1>3, <1>4 DEF Has
<1>6. CASE own = {}
  BY <1>2, <1>5, <1>6 DEF LockType
<1>7. CASE own # {}
  <2>1. PICK m \in own : At(q, p, b) = q[m].type
    BY <1>2, <1>4, <1>7, MinIn
  <2>2. q[m].type \in LockType /\ Has(q, p, b, q[m].type)
    BY <1>1, <1>4, <1>5, <2>1
  <2>3. \A t \in LockType : Has(q, p, b, t) => t = q[m].type
    BY <2>2, HasOne
  <2> QED
    BY <2>1, <2>2, <2>3
<1> QED
  BY <1>6, <1>7

(* The same bytes, the same locks on them. *)
LEMMA AtSame ==
  ASSUME NEW q \in Seq(Good), Sorted(q), NEW r \in Seq(Good), Sorted(r), NEW p, NEW b \in Int,
         \A t \in LockType : Has(r, p, b, t) <=> Has(q, p, b, t)
  PROVE  At(r, p, b) = At(q, p, b)
<1>1. /\ At(q, p, b) \in LockType \cup {"none"}
      /\ \A t \in LockType : At(q, p, b) = t <=> Has(q, p, b, t)
  BY AtHas
<1>2. /\ At(r, p, b) \in LockType \cup {"none"}
      /\ \A t \in LockType : At(r, p, b) = t <=> Has(r, p, b, t)
  BY AtHas
<1>3. "none" \notin LockType
  BY DEF LockType
<1> QED
  BY <1>1, <1>2, <1>3

HoldsOf(L) == [p \in Proc |-> [f \in File |-> [b \in 0 .. MaxEnd - 1 |-> At(L[f], p, b)]]]

LEMMA HoldsAt == Holds = HoldsOf(locks)
BY DEF Holds, HoldsOf, At

(* Some bytes turned, as the abstract Change says. *)
LEMMA TurnedAt ==
  ASSUME NEW q \in Seq(Good), Sorted(q), NEW r \in Seq(Good), Sorted(r), NEW p \in Proc,
         NEW lo \in Int, NEW hi \in Int, NEW h \in LockType \cup {"F_UNLCK"},
         Turned(q, r, p, lo, hi, h), NEW x \in Proc, NEW b \in Int
  PROVE  At(r, x, b) = IF x = p /\ lo <= b /\ b < hi
                       THEN IF h = "F_UNLCK" THEN "none" ELSE h
                       ELSE At(q, x, b)
<1>1. CASE x = p /\ lo <= b /\ b < hi
  <2>1. \A t \in LockType : Has(r, x, b, t) <=> t = h
    BY <1>1 DEF Turned
  <2>2. /\ At(r, x, b) \in LockType \cup {"none"}
        /\ \A t \in LockType : At(r, x, b) = t <=> Has(r, x, b, t)
    BY AtHas
  <2>3. "F_UNLCK" \notin LockType
    BY DEF LockType
  <2> QED
    BY <1>1, <2>1, <2>2, <2>3
<1>2. CASE ~(x = p /\ lo <= b /\ b < hi)
  <2>1. \A t \in LockType : Has(r, x, b, t) <=> Has(q, x, b, t)
    BY <1>2 DEF Turned
  <2>2. At(r, x, b) = At(q, x, b)
    BY <2>1, AtSame
  <2> QED
    BY <1>2, <2>2
<1> QED
  BY <1>1, <1>2

(* The abstract step: what a call for ld makes of the bytes. *)
LEMMA ByteStep ==
  ASSUME SInv, SInv', InOrder, InOrder', NEW f \in File, NEW ld \in Ld, Effect(f, ld)
  PROVE  Abstract!Next \/ UNCHANGED Holds
<1> DEFINE B == 0 .. MaxEnd - 1
<1>1. PICK q : q = locks[f]
  OBVIOUS
<1>2. PICK r : r = locks'[f]
  OBVIOUS
<1>3. /\ q \in Seq(Good) /\ Sorted(q) /\ r \in Seq(Good) /\ Sorted(r)
      /\ Same(q, r) \/ Moved(q, r, ld)
      /\ \A g \in File : g # f => locks'[g] = locks[g]
  BY <1>1, <1>2 DEF SInv, Whole, InOrder, Effect
<1>4. PICK H : H = Holds
  OBVIOUS
<1>5. PICK N : N = Holds'
  OBVIOUS
<1>6. H = HoldsOf(locks) /\ N = HoldsOf(locks')
  <2>1. Holds' = HoldsOf(locks')
    BY DEF Holds, HoldsOf, At
  <2> QED
    BY <1>4, <1>5, <2>1, HoldsAt
<1>7. /\ \A x \in Proc, g \in File, b \in B :
           H[x][g][b] = At(locks[g], x, b) /\ N[x][g][b] = At(locks'[g], x, b)
      /\ H \in [Proc -> [File -> [B -> {"none"} \cup LockType]]]
      /\ N \in [Proc -> [File -> [B -> {"none"} \cup LockType]]]
  <2>1. \A x \in Proc, g \in File, b \in B :
          /\ At(locks[g], x, b) \in {"none"} \cup LockType
          /\ At(locks'[g], x, b) \in {"none"} \cup LockType
    <3> SUFFICES ASSUME NEW x \in Proc, NEW g \in File, NEW b \in B
                 PROVE  /\ At(locks[g], x, b) \in {"none"} \cup LockType
                        /\ At(locks'[g], x, b) \in {"none"} \cup LockType
      OBVIOUS
    <3>1. b \in Int
      BY ConstantAssumption
    <3>2. PICK c \in Seq(Good), d \in Seq(Good) :
                 c = locks[g] /\ d = locks'[g] /\ Sorted(c) /\ Sorted(d)
      BY DEF SInv, Whole, InOrder
    <3>3. At(c, x, b) \in {"none"} \cup LockType /\ At(d, x, b) \in {"none"} \cup LockType
      BY <3>1, <3>2, AtHas
    <3> QED
      BY <3>2, <3>3
  <2> QED
    BY <1>6, <2>1 DEF HoldsOf
<1>8. \A x \in Proc, g \in File : g # f => N[x][g] = H[x][g]
  BY <1>3, <1>6 DEF HoldsOf
<1>9. ASSUME NEW x \in Proc, \A b \in B : At(r, x, b) = At(q, x, b)
      PROVE  N[x][f] = H[x][f]
  BY <1>1, <1>2, <1>6, <1>9 DEF HoldsOf
<1>10. ASSUME \A x \in Proc, b \in B : At(r, x, b) = At(q, x, b) PROVE UNCHANGED Holds
  <2>1. \A x \in Proc, g \in File : N[x][g] = H[x][g]
    BY <1>8, <1>9, <1>10
  <2>2. N = H
    BY <1>6, <2>1 DEF HoldsOf
  <2> QED
    BY <1>4, <1>5, <2>2
<1>11. CASE Same(q, r)
  <2>1. ASSUME NEW x \in Proc, NEW b \in B PROVE At(r, x, b) = At(q, x, b)
    <3>1. b \in Int /\ \A t \in LockType : Has(r, x, b, t) <=> Has(q, x, b, t)
      BY <1>11, ConstantAssumption DEF Same
    <3> QED
      BY <1>3, <3>1, AtSame
  <2> QED
    BY <1>10, <2>1
<1>12. ASSUME NEW lo \in B, NEW hi \in 1 .. MaxEnd, NEW h \in LockType \cup {"F_UNLCK"},
              Turned(q, r, ld.pid, lo, hi, h),
              h # "F_UNLCK" => \A x \in Proc \ {ld.pid}, b \in lo .. hi - 1 : At(q, x, b) = "none"
       PROVE  Abstract!Next
  <2>1. ld.pid \in Proc /\ lo \in Int /\ hi \in Int
    BY LdRange, ConstantAssumption
  <2>2. \A x \in Proc, b \in B :
          At(r, x, b) = IF x = ld.pid /\ lo <= b /\ b < hi
                        THEN IF h = "F_UNLCK" THEN "none" ELSE h
                        ELSE At(q, x, b)
    <3> SUFFICES ASSUME NEW x \in Proc, NEW b \in B
                 PROVE  At(r, x, b) = IF x = ld.pid /\ lo <= b /\ b < hi
                                      THEN IF h = "F_UNLCK" THEN "none" ELSE h
                                      ELSE At(q, x, b)
      OBVIOUS
    <3>1. b \in Int
      BY ConstantAssumption
    <3> QED
      BY <1>3, <1>12, <2>1, <3>1, TurnedAt
  <2>3. Abstract!Only(ld.pid, f)
    <3>1. ASSUME NEW x \in Proc, x # ld.pid PROVE N[x][f] = H[x][f]
      BY <1>9, <2>2, <3>1
    <3>2. \A x \in Proc, g \in File : x # ld.pid \/ g # f => N[x][g] = H[x][g]
      BY <1>8, <3>1
    <3>3. N \in [Proc -> [File -> [B -> {"none", "F_RDLCK", "F_WRLCK"}]]]
      <4>1. {"none"} \cup LockType = {"none", "F_RDLCK", "F_WRLCK"}
        BY DEF LockType
      <4> QED
        BY <1>7, <4>1
    <3> QED
      BY <1>4, <1>5, <3>2, <3>3 DEF Abstract!Only, Abstract!Byte, Abstract!Hold
  <2>4. \A b \in B : N[ld.pid][f][b] = IF lo <= b /\ b < hi
                                       THEN IF h = "F_UNLCK" THEN "none" ELSE h
                                       ELSE H[ld.pid][f][b]
    BY <1>1, <1>2, <1>7, <2>1, <2>2
  <2>5. Abstract!Change(ld.pid, f, lo, hi, IF h = "F_UNLCK" THEN "none" ELSE h)
    BY <1>4, <1>5, <2>4 DEF Abstract!Change, Abstract!Byte
  <2>6. CASE h = "F_UNLCK"
    <3>1. Abstract!Release(ld.pid, f, lo, hi)
      BY <2>5, <2>6 DEF Abstract!Release
    <3> QED
      BY <2>1, <2>3, <3>1 DEF Abstract!Next, Abstract!Byte
  <2>7. CASE h # "F_UNLCK"
    <3>1. \A x \in Proc \ {ld.pid} : \A b \in lo .. hi - 1 : H[x][f][b] = "none"
      <4> SUFFICES ASSUME NEW x \in Proc \ {ld.pid}, NEW b \in lo .. hi - 1
                   PROVE  H[x][f][b] = "none"
        OBVIOUS
      <4>1. b \in B
        BY ConstantAssumption
      <4>2. At(q, x, b) = "none"
        BY <1>12, <2>7
      <4>3. H[x][f][b] = At(q, x, b)
        BY <1>1, <1>7, <4>1
      <4> QED
        BY <4>2, <4>3
    <3>2. Abstract!Acquire(ld.pid, f, lo, hi, h)
      BY <1>4, <2>5, <2>7, <3>1 DEF Abstract!Acquire, Abstract!Compatible
    <3>3. h \in {"F_RDLCK", "F_WRLCK"}
      BY <2>7 DEF LockType
    <3> QED
      BY <2>1, <2>3, <3>2, <3>3 DEF Abstract!Next, Abstract!Byte
  <2> QED
    BY <2>6, <2>7
<1>13. CASE Moved(q, r, ld)
  <2>1. /\ ld.start \in B /\ ld.end \in 1 .. MaxEnd /\ ld.type \in LockType \cup {"F_UNLCK"}
        /\ ld.start \in Int /\ ld.end \in Int
    BY LdRange DEF Ld
  <2>2. ASSUME ld.type # "F_UNLCK", NEW x \in Proc \ {ld.pid}, NEW b \in ld.start .. ld.end - 1
        PROVE  At(q, x, b) = "none"
    <3>1. Clear(q, ld) /\ b \in Int
      BY <1>13, <2>1, <2>2 DEF Moved
    <3>2. ASSUME NEW t \in LockType, Has(q, x, b, t) PROVE FALSE
      <4>1. PICK j \in 1 .. Len(q) : q[j].pid = x /\ Covers(q[j], b)
        BY <1>3, <3>2, GoodAt DEF Has
      <4>2. q[j].start \in Int /\ q[j].end \in Int /\ j \in DOMAIN q
        BY <1>3, GoodAt
      <4>3. q[j].end <= ld.start \/ ld.end <= q[j].start
        BY <3>1, <4>1, <4>2 DEF Clear
      <4> QED
        BY <2>1, <4>1, <4>2, <4>3 DEF Covers
    <3>3. /\ At(q, x, b) \in LockType \cup {"none"}
          /\ \A t \in LockType : At(q, x, b) = t <=> Has(q, x, b, t)
      BY <1>3, <3>1, AtHas
    <3> QED
      BY <3>2, <3>3
  <2>3. CASE Turned(q, r, ld.pid, ld.start, ld.end, ld.type)
    BY <1>12, <2>1, <2>2, <2>3
  <2>4. CASE \E c \in ld.start .. ld.end : Turned(q, r, ld.pid, ld.start, c, "F_UNLCK")
    <3>1. PICK c \in ld.start .. ld.end : Turned(q, r, ld.pid, ld.start, c, "F_UNLCK")
      BY <2>4
    <3>2. CASE c = ld.start
      <4>1. ASSUME NEW x \in Proc, NEW b \in B PROVE At(r, x, b) = At(q, x, b)
        <5>1. b \in Int /\ ~(ld.start <= b /\ b < c)
          BY <2>1, <3>2, ConstantAssumption
        <5>2. \A t \in LockType : Has(r, x, b, t) <=> Has(q, x, b, t)
          BY <3>1, <5>1 DEF Turned
        <5> QED
          BY <1>3, <5>1, <5>2, AtSame
      <4> QED
        BY <1>10, <4>1
    <3>3. CASE c # ld.start
      <4>1. c \in 1 .. MaxEnd
        BY <2>1, <3>3, ConstantAssumption
      <4> QED
        BY <1>12, <2>1, <3>1, <4>1
    <3> QED
      BY <3>2, <3>3
  <2> QED
    BY <1>13, <2>3, <2>4 DEF Moved, Outcome
<1> QED
  BY <1>3, <1>11, <1>13

(* Where no two processes ask for read locks, the lists implement locks on the *)
(* bytes: a call gives a process what it asked for where no other has any, or  *)
(* takes from that process alone, of the bytes it asked to change.             *)
THEOREM BytesLocked == ASSUME SoleReader PROVE Spec => ByteLocking
<1>1. Init => Abstract!Init
  <2> SUFFICES ASSUME Init PROVE Abstract!Init
    OBVIOUS
  <2>1. Holds = HoldsOf(locks)
    BY HoldsAt
  <2>2. \A f \in File : locks[f] = <<>>
    BY DEF Init
  <2>3. \A p \in Proc, b \in 0 .. MaxEnd - 1 : At(<<>>, p, b) = "none"
    BY DEF At
  <2> QED
    BY <2>1, <2>2, <2>3 DEF HoldsOf, Abstract!Init, Abstract!Byte
<1>2. SInv /\ SInv' /\ OInv /\ OInv' /\ [Next]_vars => [Abstract!Next]_Holds
  <2> SUFFICES ASSUME SInv, SInv', OInv, OInv', [Next]_vars PROVE Abstract!Next \/ UNCHANGED Holds
    OBVIOUS
  <2>1. CASE Next
    <3>1. PICK f \in File, ld \in Ld : Effect(f, ld)
      BY <2>1, StepEffect
    <3> QED
      BY <3>1, ByteStep DEF OInv
  <2>2. CASE UNCHANGED vars
    BY <2>2 DEF vars, Holds
  <2> QED
    BY <2>1, <2>2
<1> QED
  BY <1>1, <1>2, SInvAlways, OInvAlways, PTL DEF Spec, ByteLocking, Abstract!Spec
=============================================================================
