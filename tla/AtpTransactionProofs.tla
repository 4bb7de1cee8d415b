------------------------ MODULE AtpTransactionProofs ------------------------
(***************************************************************************)
(* Theorems about the transactions of AtpRequester, for any number of      *)
(* sockets, tcbs and requests: that its lists and timers agree with the    *)
(* states of the tcbs, that ids are not given twice, that a reply is       *)
(* whole, and that SET_FINISH is not left pending.                         *)
(*                                                                         *)
(* The inductive invariant IInv says of each tcb alone (Sound) which       *)
(* timers run, where the segments of the response are, and what is left of *)
(* the ioctl; and between the tcbs and the process: who owns a tcb         *)
(* (Owners), that a request the process has the id of is pending (Linked), *)
(* and what the commands on a queue may name (Commanded).  A cancel frees  *)
(* a tcb in any state without taking it off the send list.  That it is not *)
(* on the list then is Walked: the walk has sent the list before it comes  *)
(* to the commands, and what it adds to the list there, the process can    *)
(* have named in no command that is on the queue already.                  *)
(*                                                                         *)
(* A step changes one tcb that stays pending (Keeps), ends one (Ends),     *)
(* takes one, closes a socket, or touches no tcb.                          *)
(***************************************************************************)
EXTENDS AtpRequesterProofs

Pending   == Trans \ transFree
Known     == {"open", "polling", "cancelling"}    \* the process has the id
Owned     == {"ISSUE", "POLL", "CANCEL"}
Wanted(r) == 0 .. r.resp - 1

(* The timers n and d of a tcb c in use. *)
Timed(c, n, d) ==
    /\ n = IF c.state = "TIMEOUT" THEN 1 ELSE 0
    /\ d \in {0, 1}
    /\ d = 1 => c.state = "BUILD" /\ c.kept = {}
    /\ c.state = "BUILD" /\ c.xmt = "ioctl" => d = 1

(* Its segments: each is missing, or received, or tacked together at the end; *)
(* those missing are asked for.                                               *)
Gathered(c) ==
    /\ c.rcv \subseteq Wanted(c.req)
    /\ Wanted(c.req) \subseteq c.rcv \cup c.kept \cup c.bitmap
    /\ c.bitmap \subseteq c.hdr
    /\ c.bitmap # {} => c.kept = {}
    /\ c.state \in {"TIMEOUT", "REQUEST"} => c.bitmap # {} /\ c.xmt = "ioctl"
    /\ c.state \in {"BUILD", "DONE", "RELEASE"} => c.bitmap = {}
    /\ c.state \in {"DONE", "RELEASE"} => c.kept = Wanted(c.req)
    /\ c.req.kind = "REQ" => c.xmt = "ioctl"

Sound(c, n, d) == c.req \in Req /\ c.queue = c.req.sock /\ Timed(c, n, d) /\ Gathered(c)

Tracked ==
    \A t \in Trans :
        IF t \in transFree THEN tcb[t] = FreeTcb /\ reqTimer[t] = 0 /\ doneTimer[t] = 0
                           ELSE Sound(tcb[t], reqTimer[t], doneTimer[t])

(* A socket that is not open holds no tcb and has no command. *)
Gone == \A s \in Sock : life[s] # "open" => TransWait(s) = {} /\ wq[s] = <<>>

(* The request of a tcb is its only one: a process waits for it, or has its id. *)
Owner(t) ==
    LET r == tcb[t].req
    IN  /\ r.kind = "REQ" => proc[r] = "issuing"
        /\ r.kind # "REQ" => proc[r] \in Known /\ tidOf[r] = tcb[t].tid
        /\ \A u \in Pending : tcb[u].req = r => u = t

Owners == \A t \in Pending : Owner(t)
Linked == \A r \in Req : proc[r] \in Known => \E t \in Pending : tcb[t].req = r

(* A command on the queue of s that concerns a transaction is the only one of *)
(* its request: to issue it, or naming it by its id.                          *)
Doing(op) == IF op = "ISSUE" THEN "issuing" ELSE IF op = "POLL" THEN "polling" ELSE "cancelling"

Commanding(s, i) ==
    LET m == wq[s][i]
    IN  m.op \in Owned =>
          /\ m.req.sock = s /\ proc[m.req] = Doing(m.op)
          /\ m.op = "ISSUE" => \A t \in Pending : tcb[t].req # m.req
          /\ m.op # "ISSUE" => m.tid = tidOf[m.req]
          /\ \A j \in 1 .. Len(wq[s]) : wq[s][j].op \in Owned /\ wq[s][j].req = m.req => i = j

Commanded == \A s \in Sock : \A i \in 1 .. Len(wq[s]) : Commanding(s, i)

(* At the commands of s, no transaction that one of them names is yet to send. *)
Walking(s, i) ==
    LET m == wq[s][i]
    IN  m.op \in {"POLL", "CANCEL"} =>
          \A t \in Pending : tcb[t].req = m.req => ~OnList(transSnd[s], t)

Walked == \A s \in Sock : srv[s] = "ioctl" => \A i \in 1 .. Len(wq[s]) : Walking(s, i)

(* SendListExact of one socket. *)
Listed(s) ==
    /\ Distinct(transSnd[s])
    /\ \A t \in Trans : OnList(transSnd[s], t) =>
          t \in TransWait(s) /\ tcb[t].state \in {"REQUEST", "RELEASE"}
    /\ \A t \in TransWait(s) : tcb[t].state = "REQUEST" => OnList(transSnd[s], t)

Lists == \A s \in Sock : life[s] = "open" => Listed(s)

IInv == /\ Tracked /\ Lists
        /\ Gone /\ Owners /\ Linked /\ Commanded /\ Walked
        /\ UniqueTids /\ FinishPending /\ WholeReply

(* q is p, or what is left of p without its first element. *)
Rest(q, p) == \E k \in {0, 1} : /\ Len(q) = Len(p) - k
                                /\ \A i \in 1 .. Len(q) : q[i] = p[i + k]

(* The send list of s changes for t only. *)
OthersListed(s, t) ==
    /\ \A x \in Sock \ {s} : transSnd'[x] = transSnd[x]
    /\ Distinct(transSnd'[s])
    /\ \A u \in Trans \ {t} : OnList(transSnd'[s], u) <=> OnList(transSnd[s], u)

(* t stays pending and becomes c. *)
Keeps(t, c) ==
    /\ tcb' = [tcb EXCEPT ![t] = c]
    /\ c.req = tcb[t].req /\ c.queue = tcb[t].queue /\ c.tid = tcb[t].tid
    /\ Sound(c, reqTimer'[t], doneTimer'[t])
    /\ \A u \in Trans \ {t} : reqTimer'[u] = reqTimer[u] /\ doneTimer'[u] = doneTimer[u]
    /\ OthersListed(c.queue, t)
    /\ OnList(transSnd'[c.queue], t) => c.state \in {"REQUEST", "RELEASE"}
    /\ c.state = "REQUEST" => OnList(transSnd'[c.queue], t)
    /\ UNCHANGED <<life, wq, srv, transFree, finish, proc, tidOf, result>>

(* The process learns the outcome of r, with the whole response if it is ok. *)
Told(r) == \E o \in Final, got \in SUBSET Seg :
             Reply(r, o, got) /\ (o = "ok" => got = Wanted(r))

(* No command is left that concerns r. *)
Unnamed(r) == \A x \in Sock : /\ Rest(wq'[x], wq[x])
                              /\ \A i \in 1 .. Len(wq'[x]) :
                                   wq'[x][i].op \in Owned => wq'[x][i].req # r

(* t goes back to the pool, and the process learns what became of its request. *)
Ends(t) ==
    LET r == tcb[t].req
        s == tcb[t].queue
    IN  /\ tcb' = [tcb EXCEPT ![t] = FreeTcb]
        /\ transFree' = transFree \cup {t}
        /\ finish' = [finish EXCEPT ![s] = @ /\ TransWait(s) # {t}]
        /\ reqTimer'[t] = 0 /\ doneTimer'[t] = 0
        /\ \A u \in Trans \ {t} : reqTimer'[u] = reqTimer[u] /\ doneTimer'[u] = doneTimer[u]
        /\ Told(r) /\ Unnamed(r)
        /\ OthersListed(s, t) /\ ~OnList(transSnd'[s], t)
        /\ UNCHANGED <<life, srv>>

-----------------------------------------------------------------------------
(* What the parts of IInv say of a pending transaction. *)

LEMMA PendingFacts ==
  ASSUME TypeOK, IInv, NEW t \in Pending
  PROVE  /\ t \in Trans /\ t \notin transFree
         /\ tcb[t] \in Tcb /\ Sound(tcb[t], reqTimer[t], doneTimer[t])
         /\ tcb[t].req \in Req /\ tcb[t].queue \in Sock /\ tcb[t].queue = tcb[t].req.sock
         /\ t \in TransWait(tcb[t].queue)
         /\ life[tcb[t].queue] = "open" /\ Listed(tcb[t].queue)
<1>1. t \in Trans /\ t \notin transFree
  BY DEF Pending
<1>2. tcb[t] \in Tcb /\ Sound(tcb[t], reqTimer[t], doneTimer[t])
  BY <1>1 DEF TypeOK, IInv, Tracked
<1>3. tcb[t].req \in Req /\ tcb[t].queue \in Sock /\ tcb[t].queue = tcb[t].req.sock
  BY <1>2, RequestType DEF Sound
<1>4. t \in TransWait(tcb[t].queue)
  BY <1>1 DEF TransWait
<1>5. life[tcb[t].queue] = "open"
  BY <1>3, <1>4 DEF IInv, Gone
<1> QED BY <1>1, <1>2, <1>3, <1>4, <1>5 DEF IInv, Lists

LEMMA KeepsInv ==
  ASSUME TypeOK, IInv, TypeOK', NEW t \in Pending, NEW c, Keeps(t, c),
         srv[tcb[t].queue] # "ioctl"
  PROVE  IInv'
<1> DEFINE s == tcb[t].queue
<1>1. /\ t \in Trans /\ t \notin transFree /\ s \in Sock /\ c.queue = s
      /\ life[s] = "open" /\ t \in TransWait(s)
  BY PendingFacts DEF Keeps
<1>2. Pending' = Pending
  BY DEF Keeps, Pending
<1>3. /\ tcb'[t] = c
      /\ \A u \in Trans \ {t} : tcb'[u] = tcb[u]
      /\ \A u \in Trans : tcb'[u].req = tcb[u].req /\ tcb'[u].queue = tcb[u].queue
                            /\ tcb'[u].tid = tcb[u].tid
  BY <1>1 DEF Keeps, TypeOK
<1>4. \A x : TransWait(x)' = TransWait(x)
  BY <1>3 DEF Keeps, TransWait
<1>5. Tracked'
  BY <1>1, <1>3 DEF Keeps, IInv, Tracked
<1>6. Gone'
  BY <1>4 DEF Keeps, IInv, Gone
<1>7. Owners'
  <2> SUFFICES ASSUME NEW u \in Pending PROVE Owner(u)'
    BY <1>2 DEF Owners
  <2>1. Owner(u)
    BY DEF IInv, Owners
  <2>2. u \in Trans /\ \A v \in Pending : v \in Trans
    BY DEF Pending
  <2> QED BY <1>2, <1>3, <2>1, <2>2 DEF Owner, Keeps
<1>8. Linked'
  BY <1>2, <1>3 DEF Keeps, IInv, Linked, Pending
<1>9. Commanded'
  <2> SUFFICES ASSUME NEW x \in Sock, NEW i \in 1 .. Len(wq[x]) PROVE Commanding(x, i)'
    BY DEF Commanded, Keeps
  <2>1. Commanding(x, i)
    BY DEF IInv, Commanded
  <2> QED BY <1>2, <1>3, <2>1 DEF Commanding, Keeps, Pending
<1>10. Walked'
  <2> SUFFICES ASSUME NEW x \in Sock, srv[x] = "ioctl", NEW i \in 1 .. Len(wq[x])
               PROVE  Walking(x, i)'
    BY DEF Walked, Keeps
  <2>1. Walking(x, i)
    BY DEF IInv, Walked
  <2>2. transSnd'[x] = transSnd[x]
    BY <1>1 DEF Keeps, OthersListed
  <2> QED BY <1>2, <1>3, <2>1, <2>2 DEF Walking, Keeps, Pending
<1>11. Lists'
  <2> SUFFICES ASSUME NEW x \in Sock, life[x] = "open" PROVE Listed(x)'
    BY DEF Lists, Keeps
  <2>1. Listed(x)
    BY DEF IInv, Lists
  <2>2. CASE x # s
    <3>1. transSnd'[x] = transSnd[x]
      BY <1>1, <2>2 DEF Keeps, OthersListed
    <3>2. t \notin TransWait(x) /\ TransWait(x) \subseteq Trans
      BY <2>2 DEF TransWait
    <3> QED BY <1>3, <1>4, <2>1, <3>1, <3>2 DEF Listed
  <2>3. CASE x = s
    <3>1. /\ Distinct(transSnd'[s])
          /\ \A u \in Trans \ {t} : OnList(transSnd'[s], u) <=> OnList(transSnd[s], u)
          /\ OnList(transSnd'[s], t) => c.state \in {"REQUEST", "RELEASE"}
          /\ c.state = "REQUEST" => OnList(transSnd'[s], t)
      BY <1>1 DEF Keeps, OthersListed
    <3>2. TransWait(s) \subseteq Trans
      BY DEF TransWait
    <3> QED BY <1>1, <1>3, <1>4, <2>1, <2>3, <3>1, <3>2 DEF Listed
  <2> QED BY <2>2, <2>3
<1>12. UniqueTids'
  <2>1. transFree' = transFree /\ UniqueTids
    BY DEF Keeps, IInv
  <2> QED BY <1>3, <2>1 DEF UniqueTids
<1>13. FinishPending' /\ WholeReply'
  BY <1>4 DEF Keeps, IInv, FinishPending, WholeReply
<1> QED BY <1>5, <1>6, <1>7, <1>8, <1>9, <1>10, <1>11, <1>12, <1>13 DEF IInv

LEMMA EndsInv ==
  ASSUME TypeOK, IInv, TypeOK', NEW t \in Pending, Ends(t)
  PROVE  IInv'
<1> DEFINE r == tcb[t].req
           s == tcb[t].queue
<1>1. /\ t \in Trans /\ t \notin transFree /\ s \in Sock /\ r \in Req
      /\ life[s] = "open" /\ t \in TransWait(s)
  BY PendingFacts
<1>2. Pending' = Pending \ {t}
  BY DEF Ends, Pending
<1>3. /\ tcb'[t] = FreeTcb
      /\ \A u \in Trans \ {t} : tcb'[u] = tcb[u]
  BY <1>1 DEF Ends, TypeOK
<1>4. \A x : TransWait(x)' = TransWait(x) \ {t}
  BY <1>1, <1>3 DEF Ends, TransWait
<1>5. PICK o \in Final, got \in SUBSET Seg : Reply(r, o, got) /\ (o = "ok" => got = Wanted(r))
  BY DEF Ends, Told
<1>6. /\ proc'[r] = o /\ proc'[r] \notin Known /\ result'[r] = got
      /\ \A q \in Req \ {r} : proc'[q] = proc[q] /\ tidOf'[q] = tidOf[q]
                                /\ result'[q] = result[q]
  BY <1>1, <1>5 DEF Reply, Final, Known, TypeOK
<1>7. \A u \in Pending \ {t} : tcb[u].req \in Req \ {r} /\ u \in Trans
  <2> SUFFICES ASSUME NEW u \in Pending \ {t} PROVE tcb[u].req # r
    BY PendingFacts
  <2> QED BY DEF IInv, Owners, Owner
<1>8. Tracked'
  BY <1>1, <1>3 DEF Ends, IInv, Tracked
<1>9. Gone'
  <2> SUFFICES ASSUME NEW x \in Sock, life[x] # "open"
               PROVE  TransWait(x)' = {} /\ wq'[x] = <<>>
    BY DEF Gone, Ends
  <2>1. TransWait(x) = {} /\ wq[x] = <<>>
    BY DEF IInv, Gone
  <2>2. Rest(wq'[x], <<>>) /\ wq'[x] \in Seq(Command)
    BY <2>1 DEF Ends, Unnamed, TypeOK
  <2>3. wq'[x] = <<>>
    BY <2>2 DEF Rest
  <2> QED BY <1>4, <2>1, <2>3
<1>10. Owners'
  <2> SUFFICES ASSUME NEW u \in Pending \ {t} PROVE Owner(u)'
    BY <1>2 DEF Owners
  <2>1. Owner(u) /\ u # t
    BY DEF IInv, Owners
  <2> QED BY <1>2, <1>3, <1>6, <1>7, <2>1 DEF Owner
<1>11. Linked'
  <2> SUFFICES ASSUME NEW q \in Req \ {r}, proc[q] \in Known
               PROVE  \E u \in Pending' : tcb'[u].req = q
    BY <1>6 DEF Linked
  <2>1. PICK u \in Pending : tcb[u].req = q
    BY DEF IInv, Linked
  <2>2. u \in Pending \ {t} /\ u \in Trans \ {t}
    BY <2>1 DEF Pending
  <2> QED BY <1>2, <1>3, <2>1, <2>2
<1>12. \A x \in Sock : \E k \in {0, 1} : \A i \in 1 .. Len(wq'[x]) :
         i + k \in 1 .. Len(wq[x]) /\ wq'[x][i] = wq[x][i + k]
  <2> SUFFICES ASSUME NEW x \in Sock
               PROVE  \E k \in {0, 1} : \A i \in 1 .. Len(wq'[x]) :
                        i + k \in 1 .. Len(wq[x]) /\ wq'[x][i] = wq[x][i + k]
    OBVIOUS
  <2>1. wq[x] \in Seq(Command) /\ wq'[x] \in Seq(Command) /\ Rest(wq'[x], wq[x])
    BY DEF TypeOK, Ends, Unnamed
  <2>2. PICK k \in {0, 1} : /\ Len(wq'[x]) = Len(wq[x]) - k
                            /\ \A i \in 1 .. Len(wq'[x]) : wq'[x][i] = wq[x][i + k]
    BY <2>1 DEF Rest
  <2>3. \A i \in 1 .. Len(wq'[x]) : i + k \in 1 .. Len(wq[x])
    BY <2>1, <2>2
  <2> QED BY <2>2, <2>3
<1>13. Commanded'
  <2> SUFFICES ASSUME NEW x \in Sock, NEW i \in 1 .. Len(wq'[x]) PROVE Commanding(x, i)'
    BY DEF Commanded
  <2>1. PICK k \in {0, 1} : \A j \in 1 .. Len(wq'[x]) :
          j + k \in 1 .. Len(wq[x]) /\ wq'[x][j] = wq[x][j + k]
    BY <1>12
  <2>2. Commanding(x, i + k)
    BY <2>1 DEF IInv, Commanded
  <2>3. wq'[x][i].op \in Owned => wq'[x][i].req # r
    BY DEF Ends, Unnamed
  <2>4. wq'[x][i].op \in Owned => wq'[x][i].req \in Req
    <3>1. wq'[x] \in Seq(Command)
      BY DEF TypeOK
    <3>2. wq'[x][i] \in Command
      BY <3>1
    <3> QED BY <3>2 DEF Command, Owned, ControlOp
  <2>5. wq'[x][i] = wq[x][i + k] /\ i \in Nat
    BY <2>1
  <2>6. ASSUME wq'[x][i].op \in Owned, NEW j \in 1 .. Len(wq'[x]),
               wq'[x][j].op \in Owned, wq'[x][j].req = wq'[x][i].req
        PROVE  i = j
    <3>1. j + k \in 1 .. Len(wq[x]) /\ wq'[x][j] = wq[x][j + k] /\ j \in Nat
      BY <2>1
    <3>2. i + k = j + k
      BY <2>2, <2>5, <2>6, <3>1 DEF Commanding
    <3> QED BY <2>5, <3>1, <3>2
  <2>7. \A u \in Pending' : tcb'[u].req = tcb[u].req
    BY <1>2, <1>3, <1>7
  <2> HIDE DEF r
  <2> QED BY <1>2, <1>6, <2>2, <2>3, <2>4, <2>5, <2>6, <2>7 DEF Commanding, Owned
<1>14. Walked'
  <2> SUFFICES ASSUME NEW x \in Sock, srv[x] = "ioctl", NEW i \in 1 .. Len(wq'[x])
               PROVE  Walking(x, i)'
    BY DEF Walked, Ends
  <2>1. PICK k \in {0, 1} : i + k \in 1 .. Len(wq[x]) /\ wq'[x][i] = wq[x][i + k]
    BY <1>12
  <2>2. Walking(x, i + k)
    BY <2>1 DEF IInv, Walked
  <2>3. \A u \in Pending \ {t} : OnList(transSnd'[x], u) <=> OnList(transSnd[x], u)
    BY <1>1, <1>7 DEF Ends, OthersListed
  <2> QED BY <1>2, <1>3, <1>7, <2>1, <2>2, <2>3 DEF Walking
<1>15. Lists'
  <2> SUFFICES ASSUME NEW x \in Sock, life[x] = "open" PROVE Listed(x)'
    BY DEF Lists, Ends
  <2>1. Listed(x) /\ TransWait(x) \subseteq Trans
    BY DEF IInv, Lists, TransWait
  <2>2. CASE x # s
    <3>1. transSnd'[x] = transSnd[x]
      BY <1>1, <2>2 DEF Ends, OthersListed
    <3>2. t \notin TransWait(x)
      BY <2>2 DEF TransWait
    <3> QED BY <1>3, <1>4, <2>1, <3>1, <3>2 DEF Listed
  <2>3. CASE x = s
    <3>1. /\ Distinct(transSnd'[s]) /\ ~OnList(transSnd'[s], t)
          /\ \A u \in Trans \ {t} : OnList(transSnd'[s], u) <=> OnList(transSnd[s], u)
      BY <1>1 DEF Ends, OthersListed
    <3> QED BY <1>1, <1>3, <1>4, <2>1, <2>3, <3>1 DEF Listed
  <2> QED BY <2>2, <2>3
<1>16. UniqueTids'
  <2>1. \A u \in Trans : u \notin transFree' => u \notin transFree /\ u # t
    BY DEF Ends
  <2> QED BY <1>3, <2>1 DEF IInv, UniqueTids
<1>17. FinishPending'
  <2> SUFFICES ASSUME NEW x \in Sock, finish'[x] PROVE TransWait(x)' # {}
    BY DEF FinishPending
  <2>1. CASE x = s
    <3>1. TransWait(s) # {t}
      BY <1>1, <2>1 DEF Ends, TypeOK
    <3> QED BY <1>1, <1>4, <2>1, <3>1
  <2>2. CASE x # s
    <3>1. finish[x] /\ t \notin TransWait(x)
      BY <1>1, <2>2 DEF Ends, TypeOK, TransWait
    <3> QED BY <1>4, <3>1 DEF IInv, FinishPending
  <2> QED BY <2>1, <2>2
<1>18. WholeReply'
  BY <1>5, <1>6 DEF IInv, WholeReply, Wanted
<1> QED BY <1>8, <1>9, <1>10, <1>11, <1>13, <1>14, <1>15, <1>16, <1>17, <1>18 DEF IInv

-----------------------------------------------------------------------------
(* The parts that the steps share. *)

LEMMA SameRest == \A S : \A q \in Seq(S) : Rest(q, q)
  BY DEF Rest

LEMMA TailRest ==
  ASSUME NEW S, NEW q \in Seq(S), q # <<>>
  PROVE  /\ Rest(Tail(q), q) /\ Len(Tail(q)) = Len(q) - 1
         /\ \A i \in 1 .. Len(Tail(q)) : i + 1 \in 1 .. Len(q) /\ Tail(q)[i] = q[i + 1]
<1>1. /\ Len(Tail(q)) = Len(q) - 1 /\ Len(q) \in Nat /\ 1 \in {0, 1}
      /\ \A i \in 1 .. Len(Tail(q)) : Tail(q)[i] = q[i + 1]
  OBVIOUS
<1> QED BY <1>1 DEF Rest

(* No command on a queue concerns a request for which a process waits. *)
LEMMA NoCommandFor ==
  ASSUME TypeOK, IInv, NEW t \in Pending, tcb[t].req.kind = "REQ", wq' = wq
  PROVE  Unnamed(tcb[t].req)
<1>1. \A x \in Sock : Rest(wq'[x], wq[x])
  BY SameRest DEF TypeOK
<1>2. ASSUME NEW x \in Sock, NEW i \in 1 .. Len(wq[x]), wq[x][i].op \in Owned,
             wq[x][i].req = tcb[t].req
      PROVE  FALSE
  <2>1. Commanding(x, i) /\ Owner(t)
    BY DEF IInv, Commanded, Owners
  <2> QED BY <1>2, <2>1 DEF Commanding, Owner, Doing, Owned
<1> QED BY <1>1, <1>2 DEF Unnamed

(* A tcb whose whole response is in, before atp_x_done. *)
Complete(c) ==
    /\ c.rcv = Wanted(c.req) /\ c.kept = {} /\ c.bitmap = {}
    /\ c.state \in {"TIMEOUT", "FAILED", "BUILD"}
    /\ c.state = "TIMEOUT" => c.xmt = "ioctl"
    /\ c.req.kind = "REQ" => c.xmt = "ioctl"

(* The callouts f as the caller of atp_x_done or atp_free for t has left them. *)
Stopped(f, timer, t) ==
    /\ f \in [Trans -> Nat] /\ f[t] = 0
    /\ \A u \in Trans \ {t} : f[u] = timer[u]

(* The send lists snd, off which t has been taken. *)
TakenOff(snd, t) ==
    LET s == tcb[t].queue
    IN  /\ snd \in [Sock -> Seq(Trans)]
        /\ \A x \in Sock \ {s} : snd[x] = transSnd[x]
        /\ Distinct(snd[s]) /\ ~OnList(snd[s], t)
        /\ \A u \in Trans \ {t} : OnList(snd[s], u) <=> OnList(transSnd[s], u)

(* The callouts that atp_free for t may find. *)
Stoppable(reqs, dones, t) ==
    /\ reqs \in [Trans -> Nat] /\ dones \in [Trans -> Nat]
    /\ reqs[t] \in {0, 1}
    /\ dones[t] = 0 \/ (tcb[t].state = "BUILD" /\ dones[t] = 1)
    /\ \A u \in Trans \ {t} : reqs[u] = reqTimer[u] /\ dones[u] = doneTimer[u]

(* atp_free with the reply ends a transaction. *)
LEMMA FreeEnds ==
  ASSUME TypeOK, IInv, NEW t \in Pending, NEW reqs, NEW dones, Stoppable(reqs, dones, t),
         AtpFree(t, reqs, dones), Told(tcb[t].req), Unnamed(tcb[t].req),
         TakenOff(transSnd', t), UNCHANGED <<life, srv>>
  PROVE  Ends(t)
<1>1. t \in Trans
  BY DEF Pending
<1>2. reqTimer'[t] = 0 /\ \A u \in Trans \ {t} : reqTimer'[u] = reqTimer[u]
  BY <1>1 DEF AtpFree, Stoppable, Untimeout
<1>3. doneTimer'[t] = 0 /\ \A u \in Trans \ {t} : doneTimer'[u] = doneTimer[u]
  BY <1>1 DEF AtpFree, Stoppable, Untimeout
<1>4. OthersListed(tcb[t].queue, t) /\ ~OnList(transSnd'[tcb[t].queue], t)
  BY DEF TakenOff, OthersListed
<1> QED BY <1>2, <1>3, <1>4 DEF AtpFree, Ends

LEMMA DoneStep ==
  ASSUME TypeOK, IInv, NEW t \in Pending, NEW c \in Tcb, Complete(c),
         c.req = tcb[t].req, c.queue = tcb[t].queue, c.tid = tcb[t].tid,
         NEW reqs, NEW dones, NEW snd,
         Stopped(reqs, reqTimer, t), Stopped(dones, doneTimer, t), TakenOff(snd, t),
         AtpXDone(t, c, reqs, dones, snd), UNCHANGED <<life, wq, srv>>
  PROVE  Ends(t) \/ \E d \in Tcb : Keeps(t, d)
<1> DEFINE s      == tcb[t].queue
           dones1 == [dones EXCEPT ![t] = Untimeout(@)]
           run    == LeadingRun(c.rcv)
           c1     == [c EXCEPT !.kept = run, !.rcv = @ \ run]
<1>1. /\ t \in Trans /\ s \in Sock /\ c.req \in Req /\ c.queue = c.req.sock
      /\ tcb[t] \in Tcb /\ 0 \in {0, 1} /\ 1 \in {0, 1}
  BY PendingFacts
<1>2. Stopped(dones1, doneTimer, t)
  BY <1>1 DEF Stopped, Untimeout
<1>3. run = Wanted(c.req)
  <2>1. c.req.resp \in 1 .. 8
    BY <1>1, RequestAssumption
  <2>2. c.rcv = 0 .. c.req.resp - 1
    BY DEF Complete, Wanted
  <2>3. \A i \in c.rcv : \A j \in Seg : j < i => j \in c.rcv
    BY <2>1, <2>2 DEF Seg
  <2> QED BY <2>3 DEF LeadingRun, Complete
<1>4. run \in SUBSET Seg
  BY DEF LeadingRun, Tcb
<1>5. /\ c1 \in Tcb /\ c1.req = c.req /\ c1.queue = c.queue /\ c1.tid = c.tid
      /\ c1.state = c.state /\ c1.xmt = c.xmt /\ c1.bitmap = {} /\ c1.hdr = c.hdr
      /\ c1.kept = Wanted(c.req) /\ c1.rcv = {}
  BY <1>3, <1>4 DEF Complete, Tcb
<1>6. transSnd' = snd => OthersListed(s, t) /\ ~OnList(transSnd'[s], t)
  BY DEF TakenOff, OthersListed
<1> HIDE DEF dones1, run, c1, s
<1>7. CASE /\ tcb' = [tcb EXCEPT ![t] = [c EXCEPT !.state = "BUILD"]]
           /\ doneTimer' = [dones1 EXCEPT ![t] = @ + 1]
           /\ reqTimer' = reqs
           /\ transSnd' = snd
           /\ NoFree
           /\ UNCHANGED <<enab, procVars>>
  <2> DEFINE d == [c EXCEPT !.state = "BUILD"]
  <2>1. /\ d \in Tcb /\ d.req = c.req /\ d.queue = c.queue /\ d.tid = c.tid
        /\ d.state = "BUILD" /\ d.xmt = c.xmt /\ d.bitmap = {} /\ d.hdr = c.hdr
        /\ d.kept = {} /\ d.rcv = Wanted(c.req)
    BY DEF Complete, Tcb, TransState
  <2>2. tcb' = [tcb EXCEPT ![t] = d]
    BY <1>7
  <2> HIDE DEF d
  <2>3. /\ doneTimer'[t] = 1 /\ \A u \in Trans \ {t} : doneTimer'[u] = doneTimer[u]
        /\ reqTimer'[t] = 0 /\ \A u \in Trans \ {t} : reqTimer'[u] = reqTimer[u]
    BY <1>1, <1>2, <1>7 DEF Stopped
  <2>4. Timed(d, reqTimer'[t], doneTimer'[t])
    BY <1>1, <2>1, <2>3 DEF Timed
  <2>5. Gathered(d)
    BY <2>1 DEF Gathered, Complete
  <2>6. OthersListed(d.queue, t) /\ ~OnList(transSnd'[d.queue], t)
    BY <1>6, <1>7, <2>1 DEF s
  <2> QED BY <1>1, <1>7, <2>1, <2>2, <2>3, <2>4, <2>5, <2>6 DEF Keeps, Sound, NoFree, procVars, s
<1>8. CASE /\ tcb' = [tcb EXCEPT ![t] = [c1 EXCEPT !.state = "RELEASE"]]
           /\ transSnd' = IF c.state = "TIMEOUT"
                          THEN [snd EXCEPT ![c.queue] = Append(@, t)] ELSE snd
           /\ reqTimer' = reqs
           /\ doneTimer' = dones1
           /\ NoFree
           /\ UNCHANGED procVars
  <2> DEFINE d == [c1 EXCEPT !.state = "RELEASE"]
  <2>1. /\ d \in Tcb /\ d.req = c.req /\ d.queue = c.queue /\ d.tid = c.tid
        /\ d.state = "RELEASE" /\ d.xmt = c.xmt /\ d.bitmap = {}
        /\ d.kept = Wanted(c.req) /\ d.rcv = {}
    BY <1>5 DEF Tcb, TransState
  <2>2. tcb' = [tcb EXCEPT ![t] = d]
    BY <1>8
  <2> HIDE DEF d
  <2>3. /\ doneTimer'[t] = 0 /\ \A u \in Trans \ {t} : doneTimer'[u] = doneTimer[u]
        /\ reqTimer'[t] = 0 /\ \A u \in Trans \ {t} : reqTimer'[u] = reqTimer[u]
    BY <1>1, <1>2, <1>8 DEF Stopped
  <2>4. Timed(d, reqTimer'[t], doneTimer'[t])
    BY <1>1, <2>1, <2>3 DEF Timed
  <2>5. Gathered(d)
    BY <2>1 DEF Gathered, Complete
  <2>6. OthersListed(s, t)
    <3>1. snd[s] \in Seq(Trans) /\ Distinct(snd[s]) /\ ~OnList(snd[s], t)
      BY <1>1 DEF TakenOff, s
    <3>2. /\ Distinct(Append(snd[s], t))
          /\ \A u : u # t => (OnList(Append(snd[s], t), u) <=> OnList(snd[s], u))
      BY <1>1, <3>1, AppendOthers
    <3>3. \A x \in Sock : transSnd'[x] = snd[x]
                            \/ (x = s /\ transSnd'[x] = Append(snd[s], t))
      BY <1>1, <1>8 DEF TakenOff, s
    <3> QED BY <1>1, <3>1, <3>2, <3>3 DEF OthersListed, TakenOff, s
  <2> QED BY <1>1, <1>8, <2>1, <2>2, <2>3, <2>4, <2>5, <2>6 DEF Keeps, Sound, NoFree, procVars, s
<1>9. CASE /\ c.req.kind = "REQ"
           /\ Reply(c.req, "ok", run)
           /\ transSnd' = snd
           /\ AtpFree(t, reqs, dones1)
  <2>1. "ok" \in Final
    BY DEF Final
  <2>2. Told(tcb[t].req)
    BY <1>3, <1>4, <1>9, <2>1 DEF Told
  <2>3. Unnamed(tcb[t].req)
    BY <1>9, NoCommandFor
  <2>4. TakenOff(transSnd', t)
    BY <1>9
  <2>5. Stoppable(reqs, dones1, t)
    BY <1>2 DEF Stopped, Stoppable
  <2> QED BY <1>9, <2>2, <2>3, <2>4, <2>5, FreeEnds
<1>10. CASE /\ c.xmt = "ioctl" => c.req.kind \in {"NW", "NOTE"}
            /\ tcb' = [tcb EXCEPT ![t] = IF c.xmt = "ioctl" THEN Finished(c1, "DONE") ELSE c1]
            /\ reqTimer' = reqs
            /\ doneTimer' = dones1
            /\ transSnd' = snd
            /\ NoFree
            /\ UNCHANGED <<enab, procVars>>
  <2> DEFINE d == IF c.xmt = "ioctl" THEN Finished(c1, "DONE") ELSE c1
  <2>1. /\ d \in Tcb /\ d.req = c.req /\ d.queue = c.queue /\ d.tid = c.tid
        /\ d.state \in {"DONE", "FAILED", "BUILD"} /\ d.xmt # "ioctl"
        /\ d.bitmap = {} /\ d.kept = Wanted(c.req) /\ d.rcv = {}
    BY <1>5 DEF Finished, Complete, Tcb, TransState
  <2>2. tcb' = [tcb EXCEPT ![t] = d]
    BY <1>10
  <2>3. c.req.kind # "REQ"
    BY <1>10 DEF Complete
  <2> HIDE DEF d
  <2>4. /\ doneTimer'[t] = 0 /\ \A u \in Trans \ {t} : doneTimer'[u] = doneTimer[u]
        /\ reqTimer'[t] = 0 /\ \A u \in Trans \ {t} : reqTimer'[u] = reqTimer[u]
    BY <1>1, <1>2, <1>10 DEF Stopped
  <2>5. Timed(d, reqTimer'[t], doneTimer'[t])
    BY <1>1, <2>1, <2>4 DEF Timed
  <2>6. Gathered(d)
    BY <2>1, <2>3 DEF Gathered
  <2>7. OthersListed(d.queue, t) /\ ~OnList(transSnd'[d.queue], t)
    BY <1>6, <1>10, <2>1 DEF s
  <2> QED BY <1>1, <1>10, <2>1, <2>2, <2>4, <2>5, <2>6, <2>7 DEF Keeps, Sound, NoFree, procVars, s
<1> QED BY <1>7, <1>8, <1>9, <1>10 DEF AtpXDone, dones1, run, c1

-----------------------------------------------------------------------------
(* The steps that change or end a transaction. *)

(* A transaction that is not on the send list needs not be taken off it. *)
LEMMA TakenOffNone ==
  ASSUME TypeOK, IInv, NEW t \in Pending, ~OnList(transSnd[tcb[t].queue], t)
  PROVE  TakenOff(transSnd, t)
  BY PendingFacts DEF TakenOff, Listed, TypeOK

LEMMA TakenOffList ==
  ASSUME TypeOK, IInv, NEW t \in Pending
  PROVE  TakenOff([transSnd EXCEPT ![tcb[t].queue] = Without(@, t)], t)
<1> DEFINE s == tcb[t].queue
           w == Without(transSnd[s], t)
<1>1. s \in Sock /\ t \in Trans /\ Distinct(transSnd[s]) /\ transSnd[s] \in Seq(Trans)
  BY PendingFacts DEF Listed, TypeOK
<1>2. /\ w \in Seq(Trans) /\ Distinct(w) /\ ~OnList(w, t)
      /\ \A u : u # t => (OnList(w, u) <=> OnList(transSnd[s], u))
  BY <1>1, WithoutType, WithoutOthers
<1> HIDE DEF w
<1>3. transSnd \in [Sock -> Seq(Trans)]
  BY DEF TypeOK
<1>4. TakenOff([transSnd EXCEPT ![s] = w], t)
  BY <1>1, <1>2, <1>3 DEF TakenOff
<1> QED BY <1>4 DEF w

(* A transaction is on the send list only to send. *)
LEMMA NotListed ==
  ASSUME TypeOK, IInv, NEW t \in Pending, tcb[t].state \notin {"REQUEST", "RELEASE"}
  PROVE  TakenOff(transSnd, t)
<1>1. ~OnList(transSnd[tcb[t].queue], t)
  BY PendingFacts DEF Listed
<1> QED BY <1>1, TakenOffNone

(* atp_send, for a segment received and for a retry. *)
LEMMA SendStep ==
  ASSUME TypeOK, IInv, NEW t \in Pending, NEW c \in Tcb, Gathered(c),
         c.req = tcb[t].req, c.queue = tcb[t].queue, c.tid = tcb[t].tid,
         c.state = tcb[t].state, c.state \in {"TIMEOUT", "REQUEST", "FAILED"},
         AtpSend(t, c), Stopped(reqTimer', reqTimer, t),
         UNCHANGED <<life, wq, srv, transFree, finish, doneTimer, procVars>>
  PROVE  \E d \in Tcb : Keeps(t, d)
<1> DEFINE s == tcb[t].queue
<1>1. /\ t \in Trans /\ s \in Sock /\ c.req \in Req /\ c.queue = c.req.sock
      /\ Listed(s) /\ t \in TransWait(s)
  BY PendingFacts
<1>2. doneTimer[t] = 0
  BY PendingFacts DEF Sound, Timed
<1>3. transSnd \in [Sock -> Seq(Trans)] /\ transSnd[s] \in Seq(Trans)
  BY <1>1 DEF TypeOK
<1>4. reqTimer'[t] = 0 /\ \A u \in Trans \ {t} : reqTimer'[u] = reqTimer[u]
  BY DEF Stopped
<1> HIDE DEF s
<1>5. CASE c.state = "TIMEOUT"
  <2> DEFINE d == [c EXCEPT !.state = "REQUEST"]
  <2>1. /\ d \in Tcb /\ d.req = c.req /\ d.queue = c.queue /\ d.tid = c.tid
        /\ d.state = "REQUEST" /\ d.xmt = c.xmt /\ d.bitmap = c.bitmap /\ d.hdr = c.hdr
        /\ d.kept = c.kept /\ d.rcv = c.rcv
    BY DEF Tcb, TransState
  <2>2. /\ tcb' = [tcb EXCEPT ![t] = d]
        /\ transSnd' = [transSnd EXCEPT ![s] = Append(@, t)]
    BY <1>5 DEF AtpSend, s
  <2> HIDE DEF d
  <2>3. Timed(d, reqTimer'[t], doneTimer'[t])
    BY <1>2, <1>4, <2>1 DEF Timed
  <2>4. Gathered(d)
    BY <1>5, <2>1 DEF Gathered
  <2>5. ~OnList(transSnd[s], t)
    BY <1>1, <1>5 DEF Listed
  <2>6. /\ transSnd'[s] = Append(transSnd[s], t)
        /\ \A x \in Sock \ {s} : transSnd'[x] = transSnd[x]
    BY <1>1, <1>3, <2>2
  <2>7. OthersListed(s, t) /\ OnList(transSnd'[s], t)
    BY <1>1, <1>3, <2>5, <2>6, AppendOthers DEF OthersListed, Listed
  <2> QED BY <1>1, <1>4, <2>1, <2>2, <2>3, <2>4, <2>7 DEF Keeps, Sound, procVars, s
<1>6. CASE c.state # "TIMEOUT"
  <2>1. tcb' = [tcb EXCEPT ![t] = c] /\ transSnd' = transSnd
    BY <1>6 DEF AtpSend
  <2>2. Timed(c, reqTimer'[t], doneTimer'[t])
    BY <1>2, <1>4, <1>6 DEF Timed
  <2>3. OthersListed(s, t) /\ (OnList(transSnd'[s], t) <=> c.state = "REQUEST")
    BY <1>1, <1>6, <2>1 DEF OthersListed, Listed
  <2> QED BY <1>1, <1>4, <2>1, <2>2, <2>3 DEF Keeps, Sound, procVars, s
<1> QED BY <1>5, <1>6

(* What a segment received makes of the bitmap and of the segments held. *)
LEMMA Received ==
  ASSUME NEW c \in Tcb, c.req \in Req, Gathered(c), NEW g \in c.bitmap, NEW eom \in BOOLEAN,
         g < c.req.resp, eom => g = c.req.resp - 1
  PROVE  LET b  == IF eom THEN {h \in c.bitmap : h < g} ELSE c.bitmap \ {g}
             c1 == [c EXCEPT !.bitmap = b, !.rcv = @ \cup {g}]
         IN  /\ c1.rcv \subseteq Wanted(c.req)
             /\ Wanted(c.req) \subseteq c1.rcv \cup b
             /\ b \subseteq c.hdr
<1> DEFINE b  == IF eom THEN {h \in c.bitmap : h < g} ELSE c.bitmap \ {g}
           c1 == [c EXCEPT !.bitmap = b, !.rcv = @ \cup {g}]
<1>1. c.req.resp \in Nat /\ g \in 0 .. 7 /\ c.kept = {}
  BY RequestAssumption DEF Gathered, Tcb, Seg
<1>2. c1.rcv = c.rcv \cup {g}
  BY DEF Tcb
<1>3. g \in Wanted(c.req)
  BY <1>1 DEF Wanted
<1>4. \A h \in Wanted(c.req) : h \in c.rcv \/ h = g \/ h \in b
  BY <1>1 DEF Gathered, Wanted
<1>5. b \subseteq c.bitmap
  OBVIOUS
<1> HIDE DEF b, c1
<1>6. c1.rcv \subseteq Wanted(c.req) /\ Wanted(c.req) \subseteq c1.rcv \cup b /\ b \subseteq c.hdr
  BY <1>2, <1>3, <1>4, <1>5 DEF Gathered
<1> QED BY <1>6 DEF b, c1

LEMMA ReceiveStep ==
  ASSUME TypeOK, IInv, NEW t \in Trans, NEW g \in Seg, NEW eom \in BOOLEAN, NEW sts \in BOOLEAN,
         RecvResponse(t, g, eom, sts)
  PROVE  /\ t \in Pending /\ srv[tcb[t].queue] # "ioctl"
         /\ Ends(t) \/ \E d \in Tcb : Keeps(t, d)
<1> DEFINE c      == tcb[t]
           b      == IF eom THEN {h \in c.bitmap : h < g} ELSE c.bitmap \ {g}
           c1     == [c EXCEPT !.bitmap = b, !.rcv = @ \cup {g}]
           calmed == [reqTimer EXCEPT ![t] = Untimeout(@)]
           off    == [transSnd EXCEPT ![c.queue] = Without(@, t)]
<1>1. t \in Pending
  BY DEF RecvResponse, Pending
<1>2. /\ c \in Tcb /\ c.req \in Req /\ c.queue \in Sock /\ c.queue = c.req.sock
      /\ Timed(c, reqTimer[t], doneTimer[t]) /\ Gathered(c) /\ Listed(c.queue)
      /\ t \in TransWait(c.queue)
  BY <1>1, PendingFacts DEF Sound
<1>3. /\ Quiet /\ g < c.req.resp /\ (eom => g = c.req.resp - 1) /\ g \in c.bitmap
      /\ UNCHANGED <<life, wq, srv>>
  BY DEF RecvResponse
<1>4. srv[c.queue] # "ioctl"
  BY <1>2, <1>3 DEF Quiet
<1>5. c.state \in {"TIMEOUT", "REQUEST", "FAILED"} /\ c.kept = {} /\ doneTimer[t] = 0
  BY <1>2, <1>3 DEF Gathered, Timed, Tcb, TransState
<1>6. /\ c1 \in Tcb /\ [c1 EXCEPT !.state = "TIMEOUT"] \in Tcb
  <2>1. c1 = [c EXCEPT !.bitmap = IF eom THEN {h \in @ : h < g} ELSE @ \ {g},
                       !.rcv = @ \cup {g}]
    BY <1>2 DEF Tcb
  <2> QED BY <1>2, <2>1, ReceivedType
<1>7. /\ c1.req = c.req /\ c1.queue = c.queue /\ c1.tid = c.tid /\ c1.state = c.state
      /\ c1.xmt = c.xmt /\ c1.kept = {} /\ c1.hdr = c.hdr /\ c1.bitmap = b
  BY <1>2, <1>5 DEF Tcb
<1>8. /\ c1.rcv \subseteq Wanted(c.req) /\ Wanted(c.req) \subseteq c1.rcv \cup b /\ b \subseteq c.hdr
  BY <1>2, <1>3, Received
<1>9. Stopped(calmed, reqTimer, t) /\ Stopped(doneTimer, doneTimer, t)
  BY <1>2, <1>5 DEF Stopped, Timed, Untimeout, TypeOK
<1>10. /\ \/ /\ c1.bitmap = {}
             /\ IF c.state = "REQUEST"
                THEN AtpXDone(t, [c1 EXCEPT !.state = "TIMEOUT"], calmed, doneTimer, off)
                ELSE AtpXDone(t, c1, calmed, doneTimer, transSnd)
          \/ /\ c1.bitmap # {} /\ sts
             /\ reqTimer' = calmed
             /\ AtpSend(t, c1)
             /\ NoFree
             /\ UNCHANGED <<doneTimer, procVars>>
          \/ /\ c1.bitmap # {} /\ ~sts
             /\ tcb' = [tcb EXCEPT ![t] = c1]
             /\ NoFree
             /\ UNCHANGED <<transSnd, reqTimer, doneTimer, enab, procVars>>
  <2>1. c1 = [c EXCEPT !.bitmap = IF eom THEN {h \in @ : h < g} ELSE @ \ {g},
                       !.rcv = @ \cup {g}]
    BY <1>2 DEF Tcb
  <2> HIDE DEF c1
  <2> QED BY <2>1 DEF RecvResponse
<1> HIDE DEF c1, calmed, b, off
<1>11. CASE c1.bitmap = {} /\ c.state = "REQUEST"
  <2> DEFINE c2 == [c1 EXCEPT !.state = "TIMEOUT"]
  <2>1. /\ c2.req = c.req /\ c2.queue = c.queue /\ c2.tid = c.tid /\ c2.state = "TIMEOUT"
        /\ c2.xmt = c.xmt /\ c2.kept = {} /\ c2.bitmap = {} /\ c2.rcv = c1.rcv
    BY <1>6, <1>7, <1>11 DEF Tcb
  <2> HIDE DEF c2
  <2>2. Complete(c2)
    <3>1. c1.rcv = Wanted(c.req)
      BY <1>7, <1>8, <1>11
    <3>2. c.xmt = "ioctl"
      BY <1>2, <1>11 DEF Gathered
    <3> QED BY <2>1, <3>1, <3>2 DEF Complete
  <2>3. TakenOff(off, t)
    BY <1>1, TakenOffList DEF off
  <2>4. AtpXDone(t, c2, calmed, doneTimer, off) /\ c2 \in Tcb
    BY <1>6, <1>10, <1>11 DEF c2
  <2>5. Ends(t) \/ \E d \in Tcb : Keeps(t, d)
    BY <1>1, <1>3, <1>9, <2>1, <2>2, <2>3, <2>4, DoneStep
  <2> QED BY <1>1, <1>4, <2>5
<1>12. CASE c1.bitmap = {} /\ c.state # "REQUEST"
  <2>1. Complete(c1)
    BY <1>2, <1>5, <1>7, <1>8, <1>12 DEF Complete, Gathered
  <2>2. TakenOff(transSnd, t)
    BY <1>1, <1>5, <1>12, NotListed
  <2>3. AtpXDone(t, c1, calmed, doneTimer, transSnd)
    BY <1>10, <1>12
  <2>4. Ends(t) \/ \E d \in Tcb : Keeps(t, d)
    BY <1>1, <1>3, <1>6, <1>7, <1>9, <2>1, <2>2, <2>3, DoneStep
  <2> QED BY <1>1, <1>4, <2>4
<1>13. CASE c1.bitmap # {}
  <2>1. Gathered(c1)
    BY <1>2, <1>5, <1>7, <1>8, <1>13 DEF Gathered
  <2>2. CASE reqTimer' = calmed /\ AtpSend(t, c1) /\ NoFree /\ UNCHANGED <<doneTimer, procVars>>
    <3>1. \E d \in Tcb : Keeps(t, d)
      BY <1>1, <1>3, <1>5, <1>6, <1>7, <1>9, <2>1, <2>2, SendStep DEF NoFree
    <3> QED BY <1>1, <1>4, <3>1
  <2>3. CASE /\ tcb' = [tcb EXCEPT ![t] = c1]
             /\ NoFree
             /\ UNCHANGED <<transSnd, reqTimer, doneTimer, enab, procVars>>
    <3>1. Timed(c1, reqTimer'[t], doneTimer'[t])
      BY <1>2, <1>5, <1>7, <2>3 DEF Timed
    <3>2. OthersListed(c.queue, t)
      BY <1>2, <2>3 DEF OthersListed, Listed
    <3>3. /\ OnList(transSnd'[c.queue], t) => c1.state \in {"REQUEST", "RELEASE"}
          /\ c1.state = "REQUEST" => OnList(transSnd'[c.queue], t)
      BY <1>1, <1>2, <1>7, <2>3 DEF Listed
    <3>4. Keeps(t, c1)
      BY <1>2, <1>3, <1>7, <2>1, <2>3, <3>1, <3>2, <3>3 DEF Keeps, Sound, NoFree, procVars
    <3> QED BY <1>1, <1>4, <1>6, <3>4
  <2> QED BY <1>10, <1>13, <2>2, <2>3
<1> QED BY <1>11, <1>12, <1>13

(* A timeout finds the transaction it was set for. *)
LEMMA ReqTimeoutStep ==
  ASSUME TypeOK, IInv, NEW t \in Trans, ReqTimeout(t)
  PROVE  /\ t \in Pending /\ srv[tcb[t].queue] # "ioctl"
         /\ Ends(t) \/ \E d \in Tcb : Keeps(t, d)
<1> DEFINE c     == tcb[t]
           fired == [reqTimer EXCEPT ![t] = @ - 1]
<1>1. t \in Pending /\ reqTimer[t] > 0
  BY DEF ReqTimeout, IInv, Tracked, Pending
<1>2. /\ c \in Tcb /\ c.req \in Req /\ c.queue \in Sock /\ c.queue = c.req.sock
      /\ Timed(c, reqTimer[t], doneTimer[t]) /\ Gathered(c) /\ Listed(c.queue)
  BY <1>1, PendingFacts DEF Sound
<1>3. Quiet /\ UNCHANGED <<life, wq, srv>>
  BY DEF ReqTimeout, Idle
<1>4. srv[c.queue] # "ioctl"
  BY <1>2, <1>3 DEF Quiet
<1>5. c.state = "TIMEOUT" /\ reqTimer[t] = 1 /\ doneTimer[t] = 0
  BY <1>1, <1>2 DEF Timed
<1>6. Stopped(fired, reqTimer, t) /\ doneTimer \in [Trans -> Nat]
  BY <1>5 DEF Stopped, TypeOK
<1>7. TakenOff(transSnd, t)
  BY <1>1, <1>5, NotListed
<1> HIDE DEF fired
<1>8. CASE /\ c.req.kind = "REQ"
           /\ Reply(c.req, "timedout", {})
           /\ AtpFree(t, fired, doneTimer)
           /\ UNCHANGED transSnd
  <2>1. "timedout" \in Final /\ {} \in SUBSET Seg
    BY DEF Final
  <2>2. Told(c.req)
    BY <1>8, <2>1 DEF Told
  <2>3. Unnamed(c.req)
    BY <1>1, <1>3, <1>8, NoCommandFor
  <2>4. TakenOff(transSnd', t)
    BY <1>7, <1>8
  <2>5. Stoppable(fired, doneTimer, t)
    BY <1>5, <1>6 DEF Stopped, Stoppable
  <2>6. Ends(t)
    BY <1>1, <1>3, <1>8, <2>2, <2>3, <2>4, <2>5, FreeEnds
  <2> QED BY <1>1, <1>4, <2>6
<1>9. CASE /\ c.req.kind # "REQ"
           /\ tcb' = [tcb EXCEPT ![t] = Finished(c, "FAILED")]
           /\ reqTimer' = fired
           /\ NoFree
           /\ UNCHANGED <<transSnd, doneTimer, enab, procVars>>
  <2> DEFINE d == Finished(c, "FAILED")
  <2>1. /\ d \in Tcb /\ d.req = c.req /\ d.queue = c.queue /\ d.tid = c.tid
        /\ d.state = "FAILED" /\ d.bitmap = c.bitmap /\ d.hdr = c.hdr
        /\ d.kept = c.kept /\ d.rcv = c.rcv
    BY <1>2 DEF Finished, Tcb, TransState
  <2>2. tcb' = [tcb EXCEPT ![t] = d]
    BY <1>9
  <2> HIDE DEF d
  <2>3. Timed(d, reqTimer'[t], doneTimer'[t])
    BY <1>5, <1>6, <1>9, <2>1 DEF Timed, Stopped
  <2>4. Gathered(d)
    BY <1>2, <1>9, <2>1 DEF Gathered
  <2>5. OthersListed(c.queue, t) /\ ~OnList(transSnd'[c.queue], t)
    BY <1>7, <1>9 DEF TakenOff, OthersListed
  <2>6. \A u \in Trans \ {t} : reqTimer'[u] = reqTimer[u] /\ doneTimer'[u] = doneTimer[u]
    BY <1>6, <1>9 DEF Stopped
  <2>7. Keeps(t, d)
    BY <1>2, <1>3, <1>9, <2>1, <2>2, <2>3, <2>4, <2>5, <2>6 DEF Keeps, Sound, NoFree, procVars
  <2> QED BY <1>1, <1>4, <2>1, <2>7
<1>10. CASE /\ c.retry > 0
            /\ AtpSend(t, Retry(c))
            /\ reqTimer' = fired
            /\ NoFree
            /\ UNCHANGED <<doneTimer, procVars>>
  <2> DEFINE d == Retry(c)
  <2>1. d \in Tcb
    BY <1>2, <1>10, RetriedType DEF Retry
  <2>2. /\ d.req = c.req /\ d.queue = c.queue /\ d.tid = c.tid /\ d.state = c.state
        /\ d.xmt = c.xmt /\ d.bitmap = c.bitmap /\ d.hdr = c.bitmap
        /\ d.kept = c.kept /\ d.rcv = c.rcv
    BY <1>2 DEF Retry, Tcb
  <2>3. AtpSend(t, d)
    BY <1>10
  <2> HIDE DEF d
  <2>4. Gathered(d)
    BY <1>2, <2>2 DEF Gathered
  <2>5. \E e \in Tcb : Keeps(t, e)
    BY <1>1, <1>3, <1>5, <1>6, <1>10, <2>1, <2>2, <2>3, <2>4, SendStep DEF NoFree
  <2> QED BY <1>1, <1>4, <2>5
<1> QED BY <1>8, <1>9, <1>10 DEF ReqTimeout, fired

LEMMA DoneTimeoutStep ==
  ASSUME TypeOK, IInv, NEW t \in Trans, DoneTimeout(t)
  PROVE  /\ t \in Pending /\ srv[tcb[t].queue] # "ioctl"
         /\ Ends(t) \/ \E d \in Tcb : Keeps(t, d)
<1> DEFINE c     == tcb[t]
           fired == [doneTimer EXCEPT ![t] = @ - 1]
<1>1. t \in Pending /\ doneTimer[t] > 0
  BY DEF DoneTimeout, IInv, Tracked, Pending
<1>2. /\ c \in Tcb /\ c.req \in Req /\ c.queue \in Sock
      /\ Timed(c, reqTimer[t], doneTimer[t]) /\ Gathered(c)
  BY <1>1, PendingFacts DEF Sound
<1>3. Quiet /\ UNCHANGED <<life, wq, srv>>
  BY DEF DoneTimeout, Idle
<1>4. srv[c.queue] # "ioctl"
  BY <1>2, <1>3 DEF Quiet
<1>5. c.state = "BUILD" /\ c.kept = {} /\ reqTimer[t] = 0 /\ doneTimer[t] = 1
  BY <1>1, <1>2 DEF Timed
<1>6. Stopped(fired, doneTimer, t) /\ Stopped(reqTimer, reqTimer, t)
  BY <1>5 DEF Stopped, TypeOK
<1>7. TakenOff(transSnd, t)
  BY <1>1, <1>5, NotListed
<1>8. Complete(c)
  BY <1>2, <1>5 DEF Complete, Gathered
<1>9. AtpXDone(t, c, reqTimer, fired, transSnd)
  BY DEF DoneTimeout
<1> HIDE DEF fired
<1>10. Ends(t) \/ \E d \in Tcb : Keeps(t, d)
  BY <1>1, <1>2, <1>3, <1>6, <1>7, <1>8, <1>9, DoneStep
<1> QED BY <1>1, <1>4, <1>10

(* What is sent is the first of the list, and then off it. *)
LEMMA SendStepHead ==
  ASSUME TypeOK, IInv, NEW s \in Sock, SendRequest(s) \/ SendRelease(s)
  PROVE  LET t == Head(transSnd[s])
         IN  /\ t \in Pending /\ srv[tcb[t].queue] # "ioctl"
             /\ Ends(t) \/ \E d \in Tcb : Keeps(t, d)
<1> DEFINE t == Head(transSnd[s])
           c == tcb[t]
<1>1. /\ srv[s] = "send" /\ transSnd[s] # <<>> /\ t \in TransWait(s)
      /\ transSnd' = [transSnd EXCEPT ![s] = Without(@, t)]
      /\ UNCHANGED <<life, wq, srv>>
  BY DEF SendRequest, SendRelease, Sending, strVars
<1>2. t \in Pending /\ c.queue = s
  BY <1>1 DEF TransWait, Pending
<1>3. /\ c \in Tcb /\ c.req \in Req /\ c.queue = c.req.sock
      /\ Timed(c, reqTimer[t], doneTimer[t]) /\ Gathered(c) /\ Listed(s) /\ t \in Trans
  BY <1>2, PendingFacts DEF Sound
<1>4. c.state \in {"REQUEST", "RELEASE"}
  <2>1. OnList(transSnd[s], t)
    BY <1>1, HeadOnList DEF TypeOK
  <2> QED BY <1>3, <2>1 DEF Listed
<1>5. TakenOff(transSnd', t)
  BY <1>1, <1>2, TakenOffList
<1>6. OthersListed(s, t) /\ ~OnList(transSnd'[s], t)
  BY <1>2, <1>5 DEF TakenOff, OthersListed
<1>7. reqTimer[t] = 0 /\ doneTimer[t] = 0
  BY <1>3, <1>4 DEF Timed
<1>8. srv[c.queue] # "ioctl"
  BY <1>1, <1>2
<1>9. CASE SendRequest(s)
  <2> DEFINE d == [c EXCEPT !.state = "TIMEOUT", !.sent = TRUE]
  <2>1. c.state = "REQUEST"
    BY <1>4, <1>9 DEF SendRequest, Releasing
  <2>2. /\ d \in Tcb /\ d.req = c.req /\ d.queue = c.queue /\ d.tid = c.tid
        /\ d.state = "TIMEOUT" /\ d.xmt = c.xmt /\ d.bitmap = c.bitmap /\ d.hdr = c.hdr
        /\ d.kept = c.kept /\ d.rcv = c.rcv
    BY <1>3 DEF Tcb, TransState
  <2>3. tcb' = [tcb EXCEPT ![t] = d]
    BY <1>3, <1>9 DEF SendRequest, TypeOK, Tcb
  <2>4. /\ reqTimer' = [reqTimer EXCEPT ![t] = @ + 1]
        /\ UNCHANGED <<doneTimer, transFree, finish, proc, tidOf, result>>
    BY <1>9 DEF SendRequest, procVars
  <2> HIDE DEF d
  <2>5. reqTimer'[t] = 1 /\ \A u \in Trans \ {t} : reqTimer'[u] = reqTimer[u]
    BY <1>3, <1>7, <2>4 DEF TypeOK
  <2>6. Timed(d, reqTimer'[t], doneTimer'[t])
    BY <1>7, <2>2, <2>4, <2>5 DEF Timed
  <2>7. Gathered(d)
    BY <1>3, <2>1, <2>2 DEF Gathered
  <2>8. Keeps(t, d)
    BY <1>1, <1>2, <1>3, <1>6, <2>2, <2>3, <2>4, <2>5, <2>6, <2>7 DEF Keeps, Sound
  <2> QED BY <1>2, <1>8, <2>2, <2>8
<1>10. CASE SendRelease(s)
  <2>1. c.state = "RELEASE"
    BY <1>10 DEF SendRelease, Releasing
  <2>2. CASE c.req.kind = "REQ" /\ Reply(c.req, "ok", c.kept) /\ AtpFree(t, reqTimer, doneTimer)
    <3>1. "ok" \in Final /\ c.kept \in SUBSET Seg /\ c.kept = Wanted(c.req)
      BY <1>3, <2>1 DEF Final, Tcb, Gathered
    <3>2. Told(c.req)
      BY <2>2, <3>1 DEF Told
    <3>3. Unnamed(c.req)
      BY <1>1, <1>2, <2>2, NoCommandFor
    <3>4. Stoppable(reqTimer, doneTimer, t)
      BY <1>7 DEF Stoppable, TypeOK
    <3>5. Ends(t)
      BY <1>1, <1>2, <1>5, <2>2, <3>2, <3>3, <3>4, FreeEnds
    <3> QED BY <1>2, <1>8, <3>5
  <2>3. CASE /\ c.req.kind # "REQ"
             /\ tcb' = [tcb EXCEPT ![t] = Finished(c, "DONE")]
             /\ NoFree
             /\ UNCHANGED <<reqTimer, doneTimer, enab, procVars>>
    <3> DEFINE d == Finished(c, "DONE")
    <3>1. /\ d \in Tcb /\ d.req = c.req /\ d.queue = c.queue /\ d.tid = c.tid
          /\ d.state = "DONE" /\ d.xmt = "data" /\ d.bitmap = c.bitmap /\ d.hdr = c.hdr
          /\ d.kept = c.kept /\ d.rcv = c.rcv
      BY <1>3 DEF Finished, Tcb, TransState
    <3>2. tcb' = [tcb EXCEPT ![t] = d]
      BY <2>3
    <3> HIDE DEF d
    <3>3. Timed(d, reqTimer'[t], doneTimer'[t])
      BY <1>7, <2>3, <3>1 DEF Timed
    <3>4. Gathered(d)
      BY <1>3, <2>1, <2>3, <3>1 DEF Gathered
    <3>5. Keeps(t, d)
      BY <1>1, <1>2, <1>3, <1>6, <2>3, <3>1, <3>2, <3>3, <3>4 DEF Keeps, Sound, NoFree, procVars
    <3> QED BY <1>2, <1>8, <3>1, <3>5
  <2> QED BY <1>10, <2>2, <2>3 DEF SendRelease
<1> QED BY <1>9, <1>10

(* The transaction that a poll or a cancel names is that of its request: ids    *)
(* are not given twice, and a request stays pending while the process has its   *)
(* id.                                                                          *)
LEMMA NamedOwn ==
  ASSUME TypeOK, IInv, NEW s \in Sock, NEW t \in Trans, NEW op \in {"POLL", "CANCEL"},
         At(s, op), Named(s, t)
  PROVE  /\ t \in Pending /\ tcb[t].queue = s /\ tcb[t].req = Head(wq[s]).req
         /\ ~OnList(transSnd[s], t)
         /\ \A x \in Sock : \A i \in 1 .. Len(wq[x]) :
              wq[x][i].op \in Owned /\ wq[x][i].req = tcb[t].req => x = s /\ i = 1
<1> DEFINE m == wq[s][1]
           r == m.req
<1>1. /\ wq[s] \in Seq(Command) /\ wq[s] # <<>> /\ srv[s] = "ioctl" /\ Head(wq[s]).op = op
  BY DEF At, TypeOK
<1>2. 1 \in 1 .. Len(wq[s]) /\ Head(wq[s]) = m
  BY <1>1
<1>3. m \in Command /\ m.op = op
  BY <1>1, <1>2
<1>4. r \in Req /\ m.op \in Owned
  BY <1>3 DEF Command, ControlOp, Owned
<1>5. Commanding(s, 1) /\ Walking(s, 1)
  BY <1>1, <1>2 DEF IInv, Commanded, Walked
<1>6. r.sock = s /\ proc[r] = Doing(op) /\ m.tid = tidOf[r]
  BY <1>3, <1>4, <1>5 DEF Commanding
<1>7. proc[r] \in Known /\ proc[r] # "issuing"
  BY <1>6 DEF Doing, Known
<1>8. PICK u \in Pending : tcb[u].req = r
  BY <1>4, <1>7 DEF IInv, Linked
<1>9. tidOf[r] = tcb[u].tid
  BY <1>7, <1>8 DEF IInv, Owners, Owner
<1>10. /\ u \in Trans /\ u \notin transFree /\ tcb[u].queue = s
       /\ t \notin transFree /\ tcb[t].queue = s /\ tcb[t].tid = m.tid
  BY <1>2, <1>6, <1>8, PendingFacts DEF Named, TransWait
<1>11. t = u
  BY <1>6, <1>9, <1>10 DEF IInv, UniqueTids
<1>12. t \in Pending /\ tcb[t].req = r
  BY <1>8, <1>11
<1>13. ~OnList(transSnd[s], t)
  BY <1>3, <1>5, <1>12 DEF Walking
<1>14. ASSUME NEW x \in Sock, NEW i \in 1 .. Len(wq[x]), wq[x][i].op \in Owned,
              wq[x][i].req = r
       PROVE  x = s /\ i = 1
  <2>1. Commanding(x, i)
    BY DEF IInv, Commanded
  <2>2. x = s
    BY <1>6, <1>14, <2>1 DEF Commanding
  <2> QED BY <1>2, <1>4, <1>5, <1>14, <2>2 DEF Commanding
<1> QED BY <1>2, <1>10, <1>12, <1>13, <1>14

LEMMA TakeStep ==
  ASSUME TypeOK, IInv, NEW s \in Sock, NEW t \in Trans, PollDone(s, t) \/ CancelRequest(s, t)
  PROVE  t \in Pending /\ Ends(t)
<1> DEFINE c == tcb[t]
<1>1. /\ Named(s, t) /\ AtpFree(t, reqTimer, doneTimer) /\ TakeCommand(s)
      /\ UNCHANGED <<life, transSnd, srv>>
      /\ At(s, "POLL") \/ At(s, "CANCEL")
  BY DEF PollDone, CancelRequest
<1>2. /\ t \in Pending /\ c.queue = s /\ c.req = Head(wq[s]).req
      /\ ~OnList(transSnd[s], t)
      /\ \A x \in Sock : \A i \in 1 .. Len(wq[x]) :
           wq[x][i].op \in Owned /\ wq[x][i].req = c.req => x = s /\ i = 1
  BY <1>1, NamedOwn
<1>3. c \in Tcb /\ Timed(c, reqTimer[t], doneTimer[t]) /\ Gathered(c)
  BY <1>2, PendingFacts DEF Sound
<1>4. TakenOff(transSnd, t) /\ transSnd' = transSnd
  BY <1>1, <1>2, TakenOffNone
<1>5. TakenOff(transSnd', t)
  BY <1>4
<1>6. Stoppable(reqTimer, doneTimer, t)
  BY <1>3 DEF Timed, Stoppable, TypeOK
<1>7. /\ wq[s] \in Seq(Command) /\ wq[s] # <<>> /\ wq'[s] = Tail(wq[s])
      /\ \A x \in Sock \ {s} : wq'[x] = wq[x]
  BY <1>1 DEF At, TakeCommand, TypeOK
<1>8. \A x \in Sock : Rest(wq'[x], wq[x])
  <2>1. Rest(wq'[s], wq[s])
    BY <1>7, TailRest
  <2>2. \A x \in Sock \ {s} : Rest(wq'[x], wq[x])
    BY <1>7, SameRest DEF TypeOK
  <2> QED BY <2>1, <2>2
<1>9. Unnamed(c.req)
  <2> SUFFICES ASSUME NEW x \in Sock, NEW i \in 1 .. Len(wq'[x]), wq'[x][i].op \in Owned,
                      wq'[x][i].req = c.req
               PROVE  FALSE
    BY <1>8 DEF Unnamed
  <2>1. CASE x # s
    BY <1>2, <1>7, <2>1
  <2>2. CASE x = s
    <3>1. i + 1 \in 1 .. Len(wq[s]) /\ wq'[s][i] = wq[s][i + 1]
      BY <1>7, <2>2, TailRest
    <3>2. i + 1 = 1 /\ i \in 1 .. Len(wq'[x])
      BY <1>2, <2>2, <3>1
    <3> QED BY <3>2
  <2> QED BY <2>1, <2>2
<1>10. Told(c.req)
  <2>1. CASE Reply(c.req, "timedout", {}) \/ Reply(c.req, "cancelled", {})
    <3>1. {} \in SUBSET Seg /\ "timedout" \in Final /\ "cancelled" \in Final
      BY DEF Final
    <3> QED BY <2>1, <3>1 DEF Told
  <2>2. CASE c.state = "DONE" /\ Reply(c.req, "ok", c.kept)
    <3>1. c.kept \in SUBSET Seg /\ c.kept = Wanted(c.req) /\ "ok" \in Final
      BY <1>3, <2>2 DEF Gathered, Tcb, Final
    <3> QED BY <2>2, <3>1 DEF Told
  <2> QED BY <1>2, <2>1, <2>2 DEF PollDone, CancelRequest
<1>11. Ends(t)
  BY <1>1, <1>2, <1>5, <1>6, <1>9, <1>10, FreeEnds
<1> QED BY <1>2, <1>11

-----------------------------------------------------------------------------
(* The steps that change no transaction. *)

(* A command that concerns a transaction names a request. *)
LEMMA CommandRequest ==
  ASSUME TypeOK, NEW s \in Sock, NEW i \in 1 .. Len(wq[s]), wq[s][i].op \in Owned
  PROVE  wq[s][i].req \in Req
<1>1. wq[s][i] \in Command
  BY DEF TypeOK
<1> QED BY <1>1 DEF Command, ControlOp, Owned

(* What the walk and the queues do by themselves. *)
LEMMA QuietStep ==
  ASSUME TypeOK, IInv,
         UNCHANGED <<wq, transFree, tcb, transSnd, finish, timeVars, procVars>>,
         \A s \in Sock : life'[s] = life[s] \/ (life[s] # "open" /\ life'[s] # "open"),
         \A s \in Sock : srv'[s] = "ioctl" => srv[s] = "ioctl" \/ transSnd[s] = <<>>
  PROVE  IInv'
<1>1. /\ wq' = wq /\ transFree' = transFree /\ tcb' = tcb /\ transSnd' = transSnd
      /\ finish' = finish /\ reqTimer' = reqTimer /\ doneTimer' = doneTimer
      /\ proc' = proc /\ tidOf' = tidOf /\ result' = result
  BY DEF timeVars, procVars
<1>2. Pending' = Pending /\ \A x : TransWait(x)' = TransWait(x)
  BY <1>1 DEF Pending, TransWait
<1>3. Tracked' /\ Owners' /\ Linked' /\ UniqueTids' /\ FinishPending' /\ WholeReply'
  BY <1>1, <1>2 DEF IInv, Tracked, Owners, Owner, Linked, UniqueTids, FinishPending, WholeReply
<1>4. Gone'
  BY <1>1, <1>2 DEF IInv, Gone
<1>5. Lists'
  BY <1>1, <1>2 DEF IInv, Lists, Listed
<1>6. Commanded'
  BY <1>1, <1>2 DEF IInv, Commanded, Commanding
<1>7. Walked'
  <2> SUFFICES ASSUME NEW s \in Sock, srv'[s] = "ioctl", NEW i \in 1 .. Len(wq[s])
               PROVE  Walking(s, i)'
    BY <1>1 DEF Walked
  <2>1. CASE srv[s] = "ioctl"
    <3>1. Walking(s, i)
      BY <2>1 DEF IInv, Walked
    <3> QED BY <1>1, <1>2, <3>1 DEF Walking
  <2>2. CASE transSnd[s] = <<>>
    BY <1>1, <2>2, EmptyList DEF Walking
  <2> QED BY <2>1, <2>2
<1> QED BY <1>3, <1>4, <1>5, <1>6, <1>7 DEF IInv

(* Only the process's command reaches a queue, and only from outside a walk. *)
LEMMA PutStep ==
  ASSUME TypeOK, IInv, NEW s \in Sock, NEW m \in Command, PutQ(s, m),
         UNCHANGED <<transFree, tcb, transSnd, finish, timeVars, tidOf, result>>,
         \/ m.op \notin Owned /\ proc' = proc
         \/ /\ m.op \in Owned /\ m.req.sock = s /\ m.tid = tidOf[m.req]
            /\ proc[m.req] = IF m.op = "ISSUE" THEN "idle" ELSE "open"
            /\ proc' = [proc EXCEPT ![m.req] = Doing(m.op)]
  PROVE  IInv'
<1> DEFINE r == m.req
<1>1. /\ transFree' = transFree /\ tcb' = tcb /\ transSnd' = transSnd /\ finish' = finish
      /\ reqTimer' = reqTimer /\ doneTimer' = doneTimer /\ tidOf' = tidOf /\ result' = result
      /\ life' = life /\ srv' = srv /\ Quiet /\ life[s] = "open"
  BY DEF timeVars, PutQ, Idle
<1>2. Pending' = Pending /\ \A x : TransWait(x)' = TransWait(x)
  BY <1>1 DEF Pending, TransWait
<1>3. m.op \in Owned => r \in Req
  BY DEF Command, Owned, ControlOp
<1>4. \A q \in Req : \/ proc'[q] = proc[q]
                     \/ /\ m.op \in Owned /\ q = r /\ proc[q] \in {"idle", "open"}
                        /\ (m.op = "ISSUE" <=> proc[q] = "idle")
                        /\ proc'[q] = Doing(m.op)
  BY <1>3 DEF TypeOK
<1>5. m.op \in Owned => proc[r] \in {"idle", "open"} /\ (m.op = "ISSUE" <=> proc[r] = "idle")
  OBVIOUS
<1>6. \A op \in Owned : /\ Doing(op) \in {"issuing", "polling", "cancelling"}
                        /\ (op = "ISSUE" <=> Doing(op) = "issuing")
  BY DEF Doing, Owned
<1>7. Tracked' /\ UniqueTids' /\ FinishPending'
  BY <1>1, <1>2 DEF IInv, Tracked, UniqueTids, FinishPending
<1>8. WholeReply'
  BY <1>1, <1>4, <1>6 DEF IInv, WholeReply
<1>9. Lists'
  BY <1>1, <1>2 DEF IInv, Lists, Listed
<1>10. Gone'
  BY <1>1, <1>2 DEF IInv, Gone, PutQ, TypeOK
<1>11. Owners'
  <2> SUFFICES ASSUME NEW t \in Pending PROVE Owner(t)'
    BY <1>2 DEF Owners
  <2>1. Owner(t) /\ tcb[t].req \in Req
    BY PendingFacts DEF IInv, Owners
  <2> HIDE DEF r
  <2> QED BY <1>1, <1>2, <1>4, <1>6, <2>1 DEF Owner, Known
<1>12. Linked'
  <2> SUFFICES ASSUME NEW q \in Req, proc'[q] \in Known PROVE \E t \in Pending : tcb[t].req = q
    BY <1>1, <1>2 DEF Linked
  <2>1. proc[q] \in Known
    BY <1>4, <1>6 DEF Known
  <2> QED BY <2>1 DEF IInv, Linked
<1>13. m.op = "ISSUE" => \A t \in Pending : tcb[t].req # r
  BY <1>5 DEF IInv, Owners, Owner, Known, Owned
<1>14. \A x \in Sock : \A i \in 1 .. Len(wq[x]) :
         wq[x][i].op \in Owned /\ m.op \in Owned => wq[x][i].req # r
  <2> SUFFICES ASSUME NEW x \in Sock, NEW i \in 1 .. Len(wq[x]), wq[x][i].op \in Owned,
                      m.op \in Owned, wq[x][i].req = r
               PROVE  FALSE
    OBVIOUS
  <2>1. Commanding(x, i)
    BY DEF IInv, Commanded
  <2> HIDE DEF r
  <2> QED BY <1>5, <1>6, <2>1 DEF Commanding
<1>15. /\ \A x \in Sock \ {s} : wq'[x] = wq[x]
       /\ Len(wq'[s]) = Len(wq[s]) + 1 /\ Len(wq[s]) \in Nat
       /\ wq'[s][Len(wq[s]) + 1] = m
       /\ \A i \in 1 .. Len(wq[s]) : wq'[s][i] = wq[s][i]
  BY DEF PutQ, TypeOK
<1>16. \A i \in 1 .. Len(wq'[s]) : i \in 1 .. Len(wq[s]) \/ i = Len(wq[s]) + 1
  BY <1>15
<1>17. ASSUME NEW x \in Sock, NEW i \in 1 .. Len(wq[x]) PROVE Commanding(x, i)'
  <2>1. Commanding(x, i) /\ wq'[x][i] = wq[x][i]
    BY <1>15 DEF IInv, Commanded
  <2>2. ASSUME wq[x][i].op \in Owned
        PROVE  /\ wq[x][i].req # r \/ m.op \notin Owned
               /\ proc'[wq[x][i].req] = proc[wq[x][i].req]
               /\ \A j \in 1 .. Len(wq'[x]) :
                    wq'[x][j].op \in Owned /\ wq'[x][j].req = wq[x][i].req => i = j
    <3>1. wq[x][i].req \in Req
      BY <2>2, CommandRequest
    <3>2. wq[x][i].req # r \/ m.op \notin Owned
      BY <1>14, <2>2
    <3>3. proc'[wq[x][i].req] = proc[wq[x][i].req]
      BY <1>4, <3>1, <3>2
    <3>4. ASSUME NEW j \in 1 .. Len(wq'[x]), wq'[x][j].op \in Owned,
                 wq'[x][j].req = wq[x][i].req
          PROVE  i = j
      <4>1. j \in 1 .. Len(wq[x]) /\ wq'[x][j] = wq[x][j]
        BY <1>15, <1>16, <3>2, <3>4
      <4> QED BY <2>1, <2>2, <3>4, <4>1 DEF Commanding
    <3> QED BY <3>2, <3>3, <3>4
  <2> HIDE DEF r
  <2> QED BY <1>1, <1>2, <2>1, <2>2 DEF Commanding
<1>18. ASSUME NEW i \in 1 .. Len(wq'[s]), i = Len(wq[s]) + 1 PROVE Commanding(s, i)'
  <2>1. wq'[s][i] = m
    BY <1>15, <1>18
  <2>2. ASSUME m.op \in Owned
        PROVE  /\ r.sock = s /\ proc'[r] = Doing(m.op) /\ m.tid = tidOf[r]
               /\ \A j \in 1 .. Len(wq'[s]) :
                    wq'[s][j].op \in Owned /\ wq'[s][j].req = r => i = j
    <3>1. \A j \in 1 .. Len(wq'[s]) : wq'[s][j].op \in Owned /\ wq'[s][j].req = r => i = j
      BY <1>14, <1>15, <1>16, <1>18, <2>2
    <3> QED BY <1>3, <2>2, <3>1 DEF TypeOK
  <2> HIDE DEF r
  <2>3. m.req = r
    BY DEF r
  <2> QED BY <1>1, <1>2, <1>13, <2>1, <2>2, <2>3 DEF Commanding
<1>19. Commanded'
  <2> SUFFICES ASSUME NEW x \in Sock, NEW i \in 1 .. Len(wq'[x]) PROVE Commanding(x, i)'
    BY DEF Commanded
  <2>1. CASE x # s
    BY <1>15, <1>17, <2>1
  <2>2. CASE x = s
    BY <1>16, <1>17, <1>18, <2>2
  <2> QED BY <2>1, <2>2
<1>20. Walked'
  BY <1>1 DEF Walked, Quiet
<1> QED BY <1>7, <1>8, <1>9, <1>10, <1>11, <1>12, <1>19, <1>20 DEF IInv

LEMMA ForgetStep ==
  ASSUME TypeOK, IInv, NEW r \in Req, Forget(r)
  PROVE  IInv'
<1>1. /\ transFree' = transFree /\ tcb' = tcb /\ transSnd' = transSnd /\ finish' = finish
      /\ reqTimer' = reqTimer /\ doneTimer' = doneTimer
      /\ life' = life /\ srv' = srv /\ wq' = wq /\ Quiet
  BY DEF Forget, poolVars, timeVars, strVars, Idle
<1>2. /\ proc[r] \in Final /\ proc'[r] = "idle"
      /\ \A q \in Req \ {r} : proc'[q] = proc[q] /\ tidOf'[q] = tidOf[q] /\ result'[q] = result[q]
  BY DEF Forget, Reply, TypeOK
<1>3. Pending' = Pending /\ \A x : TransWait(x)' = TransWait(x)
  BY <1>1 DEF Pending, TransWait
<1>4. \A t \in Pending : tcb[t].req \in Req \ {r}
  <2> SUFFICES ASSUME NEW t \in Pending PROVE tcb[t].req # r
    BY PendingFacts
  <2> QED BY <1>2 DEF IInv, Owners, Owner, Known, Final
<1>5. \A s \in Sock : \A i \in 1 .. Len(wq[s]) :
        wq[s][i].op \in Owned => wq[s][i].req \in Req \ {r}
  <2> SUFFICES ASSUME NEW s \in Sock, NEW i \in 1 .. Len(wq[s]), wq[s][i].op \in Owned
               PROVE  wq[s][i].req # r
    BY CommandRequest
  <2>1. Commanding(s, i)
    BY DEF IInv, Commanded
  <2> QED BY <1>2, <2>1 DEF Commanding, Doing, Final
<1>6. Tracked' /\ UniqueTids' /\ FinishPending'
  BY <1>1, <1>3 DEF IInv, Tracked, UniqueTids, FinishPending
<1>7. Lists' /\ Gone'
  BY <1>1, <1>3 DEF IInv, Lists, Listed, Gone
<1>8. Owners'
  BY <1>1, <1>2, <1>3, <1>4 DEF IInv, Owners, Owner
<1>9. Linked'
  BY <1>1, <1>2, <1>3 DEF IInv, Linked, Known
<1>10. Commanded'
  <2> SUFFICES ASSUME NEW s \in Sock, NEW i \in 1 .. Len(wq[s]) PROVE Commanding(s, i)'
    BY <1>1 DEF Commanded
  <2>1. Commanding(s, i) /\ (wq[s][i].op \in Owned => wq[s][i].req \in Req \ {r})
    BY <1>5 DEF IInv, Commanded
  <2> QED BY <1>1, <1>2, <1>3, <2>1 DEF Commanding
<1>11. Walked'
  BY <1>1 DEF Walked, Quiet
<1>12. WholeReply'
  BY <1>2 DEF IInv, WholeReply
<1> QED BY <1>6, <1>7, <1>8, <1>9, <1>10, <1>11, <1>12 DEF IInv

(* A command that is answered without a change to a transaction. *)
LEMMA AnswerStep ==
  ASSUME TypeOK, IInv, NEW s \in Sock, SetFinish(s) \/ Refuse(s) \/ PollAgain(s)
  PROVE  IInv'
<1> DEFINE m == wq[s][1]
<1>1. /\ transFree' = transFree /\ tcb' = tcb /\ transSnd' = transSnd
      /\ reqTimer' = reqTimer /\ doneTimer' = doneTimer /\ tidOf' = tidOf /\ result' = result
      /\ life' = life /\ srv' = srv /\ wq[s] # <<>> /\ TakeCommand(s)
  BY DEF SetFinish, Refuse, PollAgain, poolVars, timeVars, procVars, At
<1>2. Pending' = Pending /\ \A x : TransWait(x)' = TransWait(x)
  BY <1>1 DEF Pending, TransWait
<1>3. /\ \A x \in Sock \ {s} : wq'[x] = wq[x]
      /\ 1 \in 1 .. Len(wq[s]) /\ Head(wq[s]) = m
      /\ \A i \in 1 .. Len(wq'[s]) : /\ i \in Nat \ {0} /\ i + 1 \in 1 .. Len(wq[s])
                                     /\ wq'[s][i] = wq[s][i + 1]
  <2>1. wq[s] \in Seq(Command) /\ wq'[s] = Tail(wq[s]) /\ \A x \in Sock \ {s} : wq'[x] = wq[x]
    BY <1>1 DEF TakeCommand, TypeOK
  <2> QED BY <1>1, <2>1, TailRest
<1>4. Commanding(s, 1)
  BY <1>3 DEF IInv, Commanded
<1>5. \/ proc' = proc
      \/ /\ m.op = "POLL" /\ m.req \in Req /\ proc[m.req] = "polling"
         /\ proc' = [proc EXCEPT ![m.req] = "open"]
  <2>1. CASE SetFinish(s) \/ Refuse(s)
    BY <2>1 DEF SetFinish, Refuse, procVars
  <2>2. CASE PollAgain(s)
    <3>1. m.op = "POLL" /\ proc' = [proc EXCEPT ![m.req] = "open"]
      BY <1>3, <2>2 DEF PollAgain, At
    <3>2. m.req \in Req
      BY <1>3, <3>1, CommandRequest DEF Owned
    <3> QED BY <1>4, <3>1, <3>2 DEF Commanding, Doing, Owned
  <2> QED BY <2>1, <2>2
<1>6. \A q \in Req : \/ proc'[q] = proc[q]
                     \/ /\ m.op = "POLL" /\ q = m.req
                        /\ proc[q] = "polling" /\ proc'[q] = "open"
  BY <1>5 DEF TypeOK
<1> HIDE DEF m
<1>7. Tracked' /\ UniqueTids'
  BY <1>1, <1>2 DEF IInv, Tracked, UniqueTids
<1>8. FinishPending'
  <2>1. finish' = finish \/ finish' = [finish EXCEPT ![s] = TransWait(s) # {}]
    BY DEF SetFinish, Refuse, PollAgain, poolVars
  <2> QED BY <1>2, <2>1 DEF IInv, FinishPending, TypeOK
<1>9. WholeReply'
  BY <1>1, <1>6 DEF IInv, WholeReply
<1>10. Lists'
  BY <1>1, <1>2 DEF IInv, Lists, Listed
<1>11. Gone'
  <2>1. life[s] = "open"
    BY <1>1 DEF IInv, Gone
  <2> QED BY <1>1, <1>2, <1>3, <2>1 DEF IInv, Gone
<1>12. Owners'
  <2> SUFFICES ASSUME NEW t \in Pending PROVE Owner(t)'
    BY <1>2 DEF Owners
  <2>1. Owner(t) /\ tcb[t].req \in Req
    BY PendingFacts DEF IInv, Owners
  <2> QED BY <1>1, <1>2, <1>6, <2>1 DEF Owner, Known
<1>13. Linked'
  <2> SUFFICES ASSUME NEW q \in Req, proc'[q] \in Known PROVE \E t \in Pending : tcb[t].req = q
    BY <1>1, <1>2 DEF Linked
  <2>1. proc[q] \in Known
    BY <1>6 DEF Known
  <2> QED BY <2>1 DEF IInv, Linked
<1>14. \A x \in Sock : \A i \in 1 .. Len(wq[x]) :
         wq[x][i].op \in Owned /\ (x # s \/ i # 1) /\ m.op = "POLL" => wq[x][i].req # m.req
  <2> SUFFICES ASSUME NEW x \in Sock, NEW i \in 1 .. Len(wq[x]), wq[x][i].op \in Owned,
                      x # s \/ i # 1, m.op = "POLL", wq[x][i].req = m.req
               PROVE  FALSE
    OBVIOUS
  <2>1. Commanding(x, i)
    BY DEF IInv, Commanded
  <2>2. m.op \in Owned /\ wq[s][1] = m
    BY DEF Owned, m
  <2> QED BY <1>3, <1>4, <2>1, <2>2 DEF Commanding
<1>15. ASSUME NEW x \in Sock, NEW i \in 1 .. Len(wq[x]), wq[x][i].op \in Owned, x # s \/ i # 1
       PROVE  proc'[wq[x][i].req] = proc[wq[x][i].req]
  BY <1>6, <1>14, <1>15, CommandRequest
<1>16. Commanded'
  <2> SUFFICES ASSUME NEW x \in Sock, NEW i \in 1 .. Len(wq'[x]) PROVE Commanding(x, i)'
    BY DEF Commanded
  <2>1. CASE x # s
    <3>1. Commanding(x, i) /\ wq'[x] = wq[x]
      BY <1>3, <2>1 DEF IInv, Commanded
    <3>2. wq[x][i].op \in Owned => proc'[wq[x][i].req] = proc[wq[x][i].req]
      BY <1>15, <2>1, <3>1
    <3> QED BY <1>1, <1>2, <3>1, <3>2 DEF Commanding
  <2>2. CASE x = s
    <3>1. /\ i + 1 \in 1 .. Len(wq[s]) /\ wq'[s][i] = wq[s][i + 1] /\ i + 1 # 1
          /\ Commanding(s, i + 1)
      BY <1>3, <2>2 DEF IInv, Commanded
    <3>2. wq[s][i + 1].op \in Owned => proc'[wq[s][i + 1].req] = proc[wq[s][i + 1].req]
      BY <1>15, <3>1
    <3>3. ASSUME wq'[s][i].op \in Owned, NEW j \in 1 .. Len(wq'[s]), wq'[s][j].op \in Owned,
                 wq'[s][j].req = wq'[s][i].req
          PROVE  i = j
      <4>1. j \in Nat /\ j + 1 \in 1 .. Len(wq[s]) /\ wq'[s][j] = wq[s][j + 1]
        BY <1>3
      <4>2. i + 1 = j + 1
        BY <3>1, <3>3, <4>1 DEF Commanding
      <4> QED BY <1>3, <2>2, <4>1, <4>2
    <3> QED BY <1>1, <1>2, <2>2, <3>1, <3>2, <3>3 DEF Commanding
  <2> QED BY <2>1, <2>2
<1>17. Walked'
  <2> SUFFICES ASSUME NEW x \in Sock, srv[x] = "ioctl", NEW i \in 1 .. Len(wq'[x])
               PROVE  Walking(x, i)'
    BY <1>1 DEF Walked
  <2>1. PICK j \in 1 .. Len(wq[x]) : wq'[x][i] = wq[x][j]
    BY <1>3
  <2>2. Walking(x, j)
    BY DEF IInv, Walked
  <2> QED BY <1>1, <1>2, <2>1, <2>2 DEF Walking
<1> QED BY <1>7, <1>8, <1>9, <1>10, <1>11, <1>12, <1>13, <1>16, <1>17 DEF IInv

(* A request takes a tcb, with an id that no other of its socket has, and is put *)
(* on the send list; no command behind it on the queue is of that request.      *)
LEMMA IssueStep ==
  ASSUME TypeOK, IInv, TypeOK', NEW s \in Sock, NEW t \in Trans, IssueRequest(s, t)
  PROVE  IInv'
<1> DEFINE m == wq[s][1]
           r == m.req
<1>1. /\ t \in transFree /\ transFree' = transFree \ {t} /\ wq[s] # <<>>
      /\ srv[s] = "ioctl" /\ TakeCommand(s) /\ Head(wq[s]).op = "ISSUE"
      /\ finish' = finish /\ reqTimer' = reqTimer /\ doneTimer' = doneTimer
      /\ life' = life /\ srv' = srv /\ result' = result
  BY DEF IssueRequest, At, timeVars
<1>2. /\ \A x \in Sock \ {s} : wq'[x] = wq[x]
      /\ 1 \in 1 .. Len(wq[s]) /\ Head(wq[s]) = m
      /\ \A i \in 1 .. Len(wq'[s]) : /\ i \in Nat \ {0} /\ i + 1 \in 1 .. Len(wq[s])
                                     /\ wq'[s][i] = wq[s][i + 1]
  <2>1. wq[s] \in Seq(Command) /\ wq'[s] = Tail(wq[s]) /\ \A x \in Sock \ {s} : wq'[x] = wq[x]
    BY <1>1 DEF TakeCommand, TypeOK
  <2> QED BY <1>1, <2>1, TailRest
<1>3. /\ m.op = "ISSUE" /\ r \in Req /\ r.sock = s /\ proc[r] = "issuing"
      /\ \A u \in Pending : tcb[u].req # r
  <2>1. m.op = "ISSUE" /\ "ISSUE" \in Owned
    BY <1>1, <1>2 DEF Owned
  <2>2. r \in Req
    BY <1>2, <2>1, CommandRequest
  <2>3. Commanding(s, 1)
    BY <1>2 DEF IInv, Commanded
  <2> QED BY <2>1, <2>2, <2>3 DEF Commanding, Doing
<1>4. PICK i \in NextTid(s) :
        /\ AtpSend(t, [req |-> r, queue |-> s, state |-> "TIMEOUT", tid |-> i,
                       retry |-> r.retry, bitmap |-> 0 .. r.ask - 1,
                       hdr |-> 0 .. r.ask - 1, rcv |-> {}, kept |-> {},
                       xmt |-> "ioctl", sent |-> FALSE])
        /\ IF r.kind = "REQ" THEN UNCHANGED <<proc, tidOf>>
           ELSE /\ proc' = [proc EXCEPT ![r] = "open"]
                /\ tidOf' = [tidOf EXCEPT ![r] = i]
  BY <1>2 DEF IssueRequest
<1>5. i \in Tid /\ \A u \in TransWait(s) : tcb[u].tid # i
  BY DEF NextTid, UsedTids
<1> DEFINE c == [req |-> r, queue |-> s, state |-> "TIMEOUT", tid |-> i,
                 retry |-> r.retry, bitmap |-> 0 .. r.ask - 1,
                 hdr |-> 0 .. r.ask - 1, rcv |-> {}, kept |-> {},
                 xmt |-> "ioctl", sent |-> FALSE]
           d == [c EXCEPT !.state = "REQUEST"]
<1>6. /\ d.req = r /\ d.queue = s /\ d.state = "REQUEST" /\ d.tid = i /\ d.xmt = "ioctl"
      /\ d.bitmap = 0 .. r.ask - 1 /\ d.hdr = 0 .. r.ask - 1 /\ d.rcv = {} /\ d.kept = {}
  OBVIOUS
<1>7. /\ tcb' = [tcb EXCEPT ![t] = d]
      /\ transSnd' = [transSnd EXCEPT ![s] = Append(@, t)]
  BY <1>4 DEF AtpSend
<1> HIDE DEF c, d, r, m
<1>8. tcb'[t] = d /\ \A u \in Trans \ {t} : tcb'[u] = tcb[u]
  BY <1>7 DEF TypeOK
<1>9. /\ \A q \in Req \ {r} : proc'[q] = proc[q] /\ tidOf'[q] = tidOf[q]
      /\ r.kind = "REQ" => proc'[r] = "issuing"
      /\ r.kind # "REQ" => proc'[r] = "open" /\ tidOf'[r] = i
  BY <1>3, <1>4 DEF TypeOK
<1>10. Pending' = Pending \cup {t} /\ t \notin Pending /\ Pending \subseteq Trans \ {t}
  BY <1>1 DEF Pending
<1>11. /\ TransWait(s)' = TransWait(s) \cup {t} /\ t \notin TransWait(s)
       /\ \A x \in Sock \ {s} : TransWait(x)' = TransWait(x)
       /\ \A x \in Sock : TransWait(x) \subseteq Trans \ {t}
  BY <1>1, <1>6, <1>8 DEF TransWait
<1>12. life[s] = "open" /\ Listed(s)
  BY <1>1 DEF IInv, Gone, Lists
<1>13. transSnd[s] \in Seq(Trans) /\ Distinct(transSnd[s]) /\ ~OnList(transSnd[s], t)
  BY <1>11, <1>12 DEF TypeOK, Listed
<1>14. /\ Distinct(transSnd'[s]) /\ OnList(transSnd'[s], t)
       /\ \A u : u # t => (OnList(transSnd'[s], u) <=> OnList(transSnd[s], u))
       /\ \A x \in Sock \ {s} : transSnd'[x] = transSnd[x]
  <2>1. transSnd'[s] = Append(transSnd[s], t)
    BY <1>7 DEF TypeOK
  <2>2. \A x \in Sock \ {s} : transSnd'[x] = transSnd[x]
    BY <1>7 DEF TypeOK
  <2> QED BY <1>13, <2>1, <2>2, AppendOthers
<1>15. Tracked'
  <2>1. reqTimer[t] = 0 /\ doneTimer[t] = 0
    BY <1>1 DEF IInv, Tracked
  <2>2. r.resp \in 1 .. 8 /\ r.ask \in 1 .. 8 /\ r.resp <= r.ask
    BY <1>3, RequestAssumption, ConstantAssumption
  <2>3. Wanted(r) \subseteq d.bitmap /\ d.bitmap # {}
    <3>1. 0 .. r.resp - 1 \subseteq 0 .. r.ask - 1 /\ 0 \in 0 .. r.ask - 1
      BY <2>2
    <3> QED BY <1>6, <3>1 DEF Wanted
  <2>4. Gathered(d)
    BY <1>6, <2>3 DEF Gathered
  <2>5. Sound(d, reqTimer'[t], doneTimer'[t])
    BY <1>1, <1>3, <1>6, <2>1, <2>4 DEF Sound, Timed
  <2> QED BY <1>1, <1>8, <2>5 DEF IInv, Tracked
<1>16. Lists'
  <2> SUFFICES ASSUME NEW x \in Sock, life[x] = "open" PROVE Listed(x)'
    BY <1>1 DEF Lists
  <2>1. Listed(x)
    BY DEF IInv, Lists
  <2>2. CASE x # s
    <3>1. transSnd'[x] = transSnd[x] /\ TransWait(x)' = TransWait(x)
      BY <1>11, <1>14, <2>2
    <3>2. t \notin TransWait(x) /\ TransWait(x) \subseteq Trans
      BY <1>11
    <3> QED BY <1>8, <2>1, <3>1, <3>2 DEF Listed
  <2>3. CASE x = s
    BY <1>6, <1>8, <1>11, <1>14, <2>1, <2>3 DEF Listed
  <2> QED BY <2>2, <2>3
<1>17. Gone'
  BY <1>1, <1>2, <1>11, <1>12 DEF IInv, Gone
<1>18. Owners'
  <2>1. Owner(t)'
    BY <1>3, <1>6, <1>8, <1>9, <1>10 DEF Owner, Known
  <2>2. ASSUME NEW u \in Pending PROVE Owner(u)'
    <3>1. Owner(u) /\ tcb[u].req \in Req \ {r} /\ tcb'[u] = tcb[u]
      BY <1>3, <1>8, <1>10, PendingFacts DEF IInv, Owners
    <3> QED BY <1>6, <1>8, <1>9, <1>10, <3>1 DEF Owner
  <2> QED BY <1>10, <2>1, <2>2 DEF Owners
<1>19. Linked'
  <2> SUFFICES ASSUME NEW q \in Req, proc'[q] \in Known PROVE \E u \in Pending' : tcb'[u].req = q
    BY DEF Linked
  <2>1. CASE q = r
    BY <1>6, <1>8, <1>10, <2>1
  <2>2. CASE q # r
    <3>1. PICK u \in Pending : tcb[u].req = q
      BY <1>9, <2>2 DEF IInv, Linked
    <3> QED BY <1>8, <1>10, <3>1
  <2> QED BY <2>1, <2>2
<1>20. ASSUME NEW x \in Sock, NEW j \in 1 .. Len(wq[x]), wq[x][j].op \in Owned, x # s \/ j # 1
       PROVE  wq[x][j].req \in Req \ {r}
  <2>1. wq[x][j].req \in Req
    BY <1>20, CommandRequest
  <2>2. ASSUME wq[x][j].req = r PROVE FALSE
    <3>1. Commanding(x, j) /\ Commanding(s, 1)
      BY <1>2 DEF IInv, Commanded
    <3>2. m.op \in Owned /\ wq[s][1] = m /\ m.req = r
      BY <1>3 DEF Owned, m, r
    <3> QED BY <1>2, <1>3, <1>20, <2>2, <3>1, <3>2 DEF Commanding
  <2> QED BY <2>1, <2>2
<1>21. ASSUME NEW x \in Sock, NEW k \in 1 .. Len(wq'[x])
       PROVE  \E j \in 1 .. Len(wq[x]) :
                wq'[x][k] = wq[x][j] /\ (x # s \/ j # 1) /\ j = IF x = s THEN k + 1 ELSE k
  BY <1>2
<1>22. Commanded'
  <2> SUFFICES ASSUME NEW x \in Sock, NEW k \in 1 .. Len(wq'[x]) PROVE Commanding(x, k)'
    BY DEF Commanded
  <2>1. PICK j \in 1 .. Len(wq[x]) :
          wq'[x][k] = wq[x][j] /\ (x # s \/ j # 1) /\ j = IF x = s THEN k + 1 ELSE k
    BY <1>21
  <2>2. Commanding(x, j)
    BY DEF IInv, Commanded
  <2>3. wq[x][j].op \in Owned => wq[x][j].req \in Req \ {r}
    BY <1>20, <2>1
  <2>4. ASSUME wq'[x][k].op \in Owned, NEW n \in 1 .. Len(wq'[x]), wq'[x][n].op \in Owned,
               wq'[x][n].req = wq'[x][k].req
        PROVE  k = n
    <3>1. PICK h \in 1 .. Len(wq[x]) :
            wq'[x][n] = wq[x][h] /\ h = IF x = s THEN n + 1 ELSE n
      BY <1>21
    <3>2. j = h
      BY <2>1, <2>2, <2>4, <3>1 DEF Commanding
    <3>3. k \in Nat /\ n \in Nat
      OBVIOUS
    <3> QED BY <2>1, <3>1, <3>2, <3>3
  <2>5. wq[x][j].op \in Owned => \A u \in Pending' : u = t \/ (u \in Pending /\ tcb'[u] = tcb[u])
    BY <1>8, <1>10
  <2> QED BY <1>6, <1>8, <1>9, <2>1, <2>2, <2>3, <2>4, <2>5 DEF Commanding
<1>23. Walked'
  <2> SUFFICES ASSUME NEW x \in Sock, srv[x] = "ioctl", NEW k \in 1 .. Len(wq'[x])
               PROVE  Walking(x, k)'
    BY <1>1 DEF Walked
  <2>1. PICK j \in 1 .. Len(wq[x]) :
          wq'[x][k] = wq[x][j] /\ (x # s \/ j # 1) /\ j = IF x = s THEN k + 1 ELSE k
    BY <1>21
  <2>2. Walking(x, j)
    BY DEF IInv, Walked
  <2>3. wq[x][j].op \in {"POLL", "CANCEL"} => wq[x][j].req # r
    BY <1>20, <2>1 DEF Owned
  <2>4. \A u \in Pending : /\ OnList(transSnd'[x], u) <=> OnList(transSnd[x], u)
                           /\ tcb'[u] = tcb[u]
    BY <1>8, <1>10, <1>14
  <2> QED BY <1>6, <1>8, <1>10, <2>1, <2>2, <2>3, <2>4 DEF Walking
<1>24. UniqueTids'
  <2>1. ASSUME NEW u \in Trans \ {t}, u \notin transFree, tcb[u].queue = s PROVE tcb[u].tid # i
    BY <1>5, <2>1 DEF TransWait
  <2> QED BY <1>1, <1>6, <1>8, <2>1 DEF IInv, UniqueTids
<1>25. FinishPending'
  BY <1>1, <1>11 DEF IInv, FinishPending
<1>26. WholeReply'
  BY <1>1, <1>3, <1>9 DEF IInv, WholeReply
<1> QED BY <1>15, <1>16, <1>17, <1>18, <1>19, <1>22, <1>23, <1>24, <1>25, <1>26 DEF IInv

(* atp_close gives every tcb of the socket back, and its process forgets its *)
(* requests; atp_open finds no tcb and no command of its own.                *)
LEMMA CloseStep ==
  ASSUME TypeOK, IInv, NEW s \in Sock, AtpClose(s)
  PROVE  IInv'
<1> DEFINE own == TransWait(s)
<1>1. /\ Quiet /\ life[s] = "open"
      /\ life' = [life EXCEPT ![s] = IF own # {} /\ s \in transWaiting
                                     THEN "closing" ELSE "closed"]
      /\ wq' = [wq EXCEPT ![s] = <<>>] /\ transFree' = transFree \cup own
      /\ finish' = [finish EXCEPT ![s] = FALSE]
      /\ transSnd' = transSnd /\ srv' = srv
  BY DEF AtpClose, CloseQueues, Idle
<1>2. /\ \A t \in Trans : t \in own =>
           tcb'[t] = FreeTcb /\ reqTimer'[t] = Untimeout(Untimeout(reqTimer[t]))
      /\ \A t \in Trans : t \in own /\ tcb[t].state = "BUILD" =>
           doneTimer'[t] = Untimeout(doneTimer[t])
      /\ \A t \in Trans : t \in own /\ tcb[t].state # "BUILD" => doneTimer'[t] = doneTimer[t]
      /\ \A t \in Trans : t \notin own =>
           tcb'[t] = tcb[t] /\ reqTimer'[t] = reqTimer[t] /\ doneTimer'[t] = doneTimer[t]
  BY DEF AtpClose
<1>3. /\ \A r \in Req : r.sock = s => proc'[r] = "idle"
      /\ \A r \in Req : r.sock # s =>
           proc'[r] = proc[r] /\ tidOf'[r] = tidOf[r] /\ result'[r] = result[r]
  BY DEF AtpClose
<1>4. /\ \A t \in Trans : t \in own <=> (t \notin transFree /\ tcb[t].queue = s)
      /\ own \subseteq Trans
  BY DEF TransWait
<1> HIDE DEF own
<1>5. Pending' = Pending \ own
  BY <1>1, <1>4 DEF Pending
<1>6. /\ \A t \in Pending \ own : /\ t \in Trans /\ tcb'[t] = tcb[t]
                                  /\ tcb[t].req \in Req /\ tcb[t].req.sock # s
      /\ \A t \in Pending : tcb[t].req \in Req /\ (t \in own <=> tcb[t].req.sock = s)
  <2> SUFFICES ASSUME NEW t \in Pending
               PROVE  /\ t \in Trans /\ (t \notin own => tcb'[t] = tcb[t])
                      /\ tcb[t].req \in Req /\ (t \in own <=> tcb[t].req.sock = s)
    OBVIOUS
  <2> QED BY <1>2, <1>4, PendingFacts
<1>7. /\ TransWait(s)' = {}
      /\ \A x \in Sock \ {s} : TransWait(x)' = TransWait(x)
  BY <1>1, <1>2, <1>4 DEF TransWait
<1>8. /\ wq'[s] = <<>> /\ life'[s] # "open" /\ finish'[s] = FALSE
      /\ \A x \in Sock \ {s} : wq'[x] = wq[x] /\ life'[x] = life[x] /\ finish'[x] = finish[x]
  BY <1>1 DEF TypeOK
<1>9. Tracked'
  <2> SUFFICES ASSUME NEW t \in Trans
               PROVE  IF t \in transFree' THEN tcb'[t] = FreeTcb /\ reqTimer'[t] = 0 /\ doneTimer'[t] = 0
                      ELSE Sound(tcb'[t], reqTimer'[t], doneTimer'[t])
    BY DEF Tracked
  <2>1. IF t \in transFree THEN tcb[t] = FreeTcb /\ reqTimer[t] = 0 /\ doneTimer[t] = 0
        ELSE Sound(tcb[t], reqTimer[t], doneTimer[t])
    BY DEF IInv, Tracked
  <2>2. CASE t \notin own
    BY <1>1, <1>2, <2>1, <2>2
  <2>3. CASE t \in own
    <3>1. Timed(tcb[t], reqTimer[t], doneTimer[t])
      BY <1>4, <2>1, <2>3 DEF Sound
    <3>2. reqTimer'[t] = 0 /\ doneTimer'[t] = 0
      BY <1>2, <2>3, <3>1 DEF Timed, Untimeout
    <3> QED BY <1>1, <1>2, <2>3, <3>2
  <2> QED BY <2>2, <2>3
<1>10. Lists'
  <2> SUFFICES ASSUME NEW x \in Sock, life'[x] = "open" PROVE Listed(x)'
    BY DEF Lists
  <2>1. x # s /\ Listed(x) /\ TransWait(x)' = TransWait(x)
    BY <1>7, <1>8 DEF IInv, Lists
  <2>2. \A t \in TransWait(x) : t \in Trans /\ tcb'[t] = tcb[t]
    BY <1>2, <1>4, <2>1 DEF TransWait
  <2> QED BY <1>1, <2>1, <2>2 DEF Listed
<1>11. Gone'
  BY <1>7, <1>8 DEF IInv, Gone
<1>12. Owners'
  <2> SUFFICES ASSUME NEW t \in Pending \ own PROVE Owner(t)'
    BY <1>5 DEF Owners
  <2>1. Owner(t)
    BY DEF IInv, Owners
  <2> QED BY <1>3, <1>5, <1>6, <2>1 DEF Owner
<1>13. Linked'
  <2> SUFFICES ASSUME NEW r \in Req, proc'[r] \in Known
               PROVE  \E t \in Pending \ own : tcb'[t].req = r
    BY <1>5 DEF Linked
  <2>1. r.sock # s /\ proc[r] \in Known
    BY <1>3 DEF Known
  <2>2. PICK t \in Pending : tcb[t].req = r
    BY <2>1 DEF IInv, Linked
  <2> QED BY <1>6, <2>1, <2>2
<1>14. Commanded'
  <2> SUFFICES ASSUME NEW x \in Sock, NEW i \in 1 .. Len(wq'[x]) PROVE Commanding(x, i)'
    BY DEF Commanded
  <2>1. x # s /\ wq'[x] = wq[x] /\ i \in 1 .. Len(wq[x])
    BY <1>8
  <2>2. Commanding(x, i) /\ (wq[x][i].op \in Owned => wq[x][i].req \in Req)
    BY <2>1, CommandRequest DEF IInv, Commanded
  <2> QED BY <1>3, <1>5, <1>6, <2>1, <2>2 DEF Commanding
<1>15. Walked'
  BY <1>1 DEF Walked, Quiet
<1>16. UniqueTids'
  BY <1>1, <1>2, <1>4 DEF IInv, UniqueTids, FreeTcb
<1>17. FinishPending'
  BY <1>7, <1>8 DEF IInv, FinishPending
<1>18. WholeReply'
  BY <1>3 DEF IInv, WholeReply
<1> QED BY <1>9, <1>10, <1>11, <1>12, <1>13, <1>14, <1>15, <1>16, <1>17, <1>18 DEF IInv

LEMMA OpenStep ==
  ASSUME TypeOK, IInv, NEW s \in Sock, AtpOpen(s)
  PROVE  IInv'
<1>1. /\ transFree' = transFree /\ tcb' = tcb /\ finish' = finish
      /\ reqTimer' = reqTimer /\ doneTimer' = doneTimer
      /\ proc' = proc /\ tidOf' = tidOf /\ result' = result
      /\ wq' = wq /\ srv' = srv /\ Quiet /\ life[s] = "closed"
      /\ life' = [life EXCEPT ![s] = "open"] /\ transSnd' = [transSnd EXCEPT ![s] = <<>>]
  BY DEF AtpOpen, Attaches, Idle, timeVars, procVars
<1>2. Pending' = Pending /\ \A x : TransWait(x)' = TransWait(x)
  BY <1>1 DEF Pending, TransWait
<1>3. /\ TransWait(s) = {}
      /\ transSnd'[s] = <<>>
      /\ \A x \in Sock \ {s} : life'[x] = life[x] /\ transSnd'[x] = transSnd[x]
  BY <1>1 DEF IInv, Gone, TypeOK
<1>4. Tracked' /\ Owners' /\ Linked' /\ UniqueTids' /\ FinishPending' /\ WholeReply'
  BY <1>1, <1>2 DEF IInv, Tracked, Owners, Owner, Linked, UniqueTids, FinishPending, WholeReply
<1>5. Lists'
  <2> SUFFICES ASSUME NEW x \in Sock, life'[x] = "open" PROVE Listed(x)'
    BY DEF Lists
  <2>1. CASE x # s
    BY <1>1, <1>2, <1>3, <2>1 DEF IInv, Lists, Listed
  <2>2. CASE x = s
    <3>1. Distinct(transSnd'[s]) /\ \A u : ~OnList(transSnd'[s], u)
      BY <1>3 DEF Distinct, OnList
    <3> QED BY <1>2, <1>3, <2>2, <3>1 DEF Listed
  <2> QED BY <2>1, <2>2
<1>6. Gone'
  BY <1>1, <1>2, <1>3 DEF IInv, Gone
<1>7. Commanded'
  BY <1>1, <1>2 DEF IInv, Commanded, Commanding
<1>8. Walked'
  BY <1>1 DEF Walked, Quiet
<1> QED BY <1>4, <1>5, <1>6, <1>7, <1>8 DEF IInv

-----------------------------------------------------------------------------
(* IInv is inductive. *)

LEMMA InitInv == Init => IInv
<1> SUFFICES ASSUME Init PROVE IInv
  OBVIOUS
<1>1. Pending = {} /\ \A x : TransWait(x) = {}
  BY DEF Init, Pending, TransWait
<1>2. /\ \A s \in Sock : transSnd[s] = <<>> /\ wq[s] = <<>> /\ srv[s] = "off"
      /\ \A r \in Req : proc[r] = "idle"
  BY DEF Init, StreamInit
<1>3. Tracked /\ UniqueTids /\ FinishPending
  BY DEF Init, Tracked, UniqueTids, FinishPending
<1>4. Lists
  BY <1>1, <1>2 DEF Lists, Listed, Distinct, OnList
<1>5. Gone /\ Owners /\ Linked /\ Commanded /\ Walked /\ WholeReply
  BY <1>1, <1>2 DEF Gone, Owners, Linked, Known, Commanded, Walked, WholeReply
<1> QED BY <1>3, <1>4, <1>5 DEF IInv

LEMMA ProcessStep ==
  ASSUME TypeOK, IInv,
         \/ \E r \in Req : Issue(r) \/ Poll(r) \/ Cancel(r) \/ Forget(r)
         \/ \E s \in Sock, op \in Controls : Control(s, op)
  PROVE  IInv'
<1>1. ASSUME NEW r \in Req, Issue(r) \/ Poll(r) \/ Cancel(r) PROVE IInv'
  <2>1. PICK op \in Owned :
          /\ PutQ(r.sock, [op |-> op, req |-> r, tid |-> tidOf[r]])
          /\ UNCHANGED <<transFree, tcb, transSnd, finish, timeVars, tidOf, result>>
          /\ proc[r] = IF op = "ISSUE" THEN "idle" ELSE "open"
          /\ proc' = [proc EXCEPT ![r] = Doing(op)]
    BY <1>1 DEF Issue, Poll, Cancel, ProcCommand, Give, poolVars, Doing, Owned
  <2> DEFINE m == [op |-> op, req |-> r, tid |-> tidOf[r]]
  <2>2. tidOf[r] \in Tid /\ r.sock \in Sock
    BY RequestType DEF TypeOK
  <2>3. m \in Command /\ m.op = op /\ m.req = r /\ m.tid = tidOf[r]
    BY <2>2 DEF Command, Owned
  <2> HIDE DEF m
  <2> QED BY <2>1, <2>2, <2>3, PutStep DEF m
<1>2. ASSUME NEW r \in Req, Forget(r) PROVE IInv'
  BY <1>2, ForgetStep
<1>3. ASSUME NEW s \in Sock, NEW op \in Controls, Control(s, op) PROVE IInv'
  <2>1. op \in ControlOp
    BY ConstantAssumption
  <2>2. [op |-> op] \in Command /\ [op |-> op].op \notin Owned
    BY <2>1 DEF Command, ControlOp, Owned
  <2>3. /\ PutQ(s, [op |-> op]) /\ proc' = proc
        /\ UNCHANGED <<transFree, tcb, transSnd, finish, timeVars, tidOf, result>>
    BY <1>3 DEF Control, Give, poolVars
  <2> QED BY <2>2, <2>3, PutStep
<1> QED BY <1>1, <1>2, <1>3

LEMMA ServeStep ==
  ASSUME TypeOK, IInv, NEW s \in Sock,
         \/ Fill(s) \/ Drain(s) \/ Start(s) \/ Wwake(s) \/ Detach(s)
         \/ SendBlocked(s) \/ SendNoSpace(s) \/ SendDangling(s) \/ SendDone(s)
         \/ Empty(s) \/ CommandBlocked(s) \/ IssueNoTrans(s) \/ IssueNoSpace(s)
  PROVE  IInv'
<1>1. CASE Fill(s) \/ Drain(s) \/ Start(s) \/ Wwake(s) \/ Detach(s)
  <2>1. UNCHANGED <<wq, transFree, tcb, transSnd, finish, timeVars, procVars>>
    BY <1>1 DEF Fill, Fills, Drain, Drains, Start, RunQueue, Wwake, Wakes, Detach, Detaches,
                poolVars, strVars
  <2>2. \A x \in Sock : life'[x] = life[x] \/ (life[x] # "open" /\ life'[x] # "open")
    BY <1>1 DEF Fill, Fills, Drain, Drains, Start, RunQueue, Wwake, Wakes, Detach, Detaches,
                TypeOK
  <2>3. \A x \in Sock : srv'[x] = "ioctl" => srv[x] = "ioctl"
    BY <1>1 DEF Fill, Fills, Drain, Drains, Start, RunQueue, Wwake, Wakes, Detach, Detaches,
                TypeOK, strVars
  <2> QED BY <2>1, <2>2, <2>3, QuietStep
<1>2. CASE SendBlocked(s) \/ SendNoSpace(s) \/ SendDangling(s) \/ SendDone(s)
  <2>1. UNCHANGED <<life, wq, transFree, tcb, transSnd, finish, timeVars, procVars>>
    BY <1>2 DEF SendBlocked, SendNoSpace, SendDangling, SendDone, poolVars
  <2>2. \A x \in Sock : srv'[x] = "ioctl" => srv[x] = "ioctl" \/ transSnd[x] = <<>>
    BY <1>2 DEF SendBlocked, Blocked, SendNoSpace, MemWait, SendDangling, SendDone, TypeOK
  <2> QED BY <2>1, <2>2, QuietStep
<1>3. CASE Empty(s) \/ CommandBlocked(s) \/ IssueNoTrans(s) \/ IssueNoSpace(s)
  <2>1. UNCHANGED <<life, wq, transFree, tcb, transSnd, finish, timeVars, procVars>>
    BY <1>3 DEF Empty, NoCommand, CommandBlocked, IssueNoTrans, IssueNoSpace, PutBack, poolVars
  <2>2. \A x \in Sock : srv'[x] = "ioctl" => srv[x] = "ioctl"
    BY <1>3 DEF Empty, NoCommand, CommandBlocked, Blocked, IssueNoTrans, IssueNoSpace, MemWait,
                TypeOK
  <2> QED BY <2>1, <2>2, QuietStep
<1> QED BY <1>1, <1>2, <1>3

LEMMA TransactionStep ==
  ASSUME TypeOK, IInv, TypeOK', NEW t \in Trans,
         \/ ReqTimeout(t) \/ DoneTimeout(t)
         \/ \E g \in Seg, eom, sts \in BOOLEAN : RecvResponse(t, g, eom, sts)
  PROVE  IInv'
<1>1. /\ t \in Pending /\ srv[tcb[t].queue] # "ioctl"
      /\ Ends(t) \/ \E d \in Tcb : Keeps(t, d)
  BY ReqTimeoutStep, DoneTimeoutStep, ReceiveStep
<1> QED BY <1>1, EndsInv, KeepsInv

LEMMA NextInv == TypeOK /\ IInv /\ TypeOK' /\ [Next]_vars => IInv'
<1> SUFFICES ASSUME TypeOK, IInv, TypeOK', [Next]_vars PROVE IInv'
  OBVIOUS
<1>1. CASE UNCHANGED vars
  BY <1>1, QuietStep DEF vars, poolVars, strVars
<1>2. CASE \/ \E r \in Req : Issue(r) \/ Poll(r) \/ Cancel(r) \/ Forget(r)
           \/ \E s \in Sock, op \in Controls : Control(s, op)
  BY <1>2, ProcessStep
<1>3. ASSUME NEW s \in Sock,
             \/ Fill(s) \/ Drain(s) \/ Start(s) \/ Wwake(s) \/ Detach(s)
             \/ AtpClose(s) \/ AtpOpen(s)
      PROVE  IInv'
  BY <1>3, ServeStep, CloseStep, OpenStep
<1>4. ASSUME NEW s \in Sock, Walk(s) PROVE IInv'
  <2>1. CASE \/ SendBlocked(s) \/ SendNoSpace(s) \/ SendDangling(s) \/ SendDone(s)
             \/ Empty(s) \/ CommandBlocked(s) \/ IssueNoTrans(s) \/ IssueNoSpace(s)
    BY <2>1, ServeStep
  <2>2. CASE SendRelease(s) \/ SendRequest(s)
    BY <2>2, SendStepHead, EndsInv, KeepsInv
  <2>3. CASE PollAgain(s) \/ SetFinish(s) \/ Refuse(s)
    BY <2>3, AnswerStep
  <2>4. ASSUME NEW t \in Trans, IssueRequest(s, t) PROVE IInv'
    BY <2>4, IssueStep
  <2>5. ASSUME NEW t \in Trans, PollDone(s, t) \/ CancelRequest(s, t) PROVE IInv'
    BY <2>5, TakeStep, EndsInv
  <2> QED BY <1>4, <2>1, <2>2, <2>3, <2>4, <2>5 DEF Walk
<1>5. ASSUME NEW t \in Trans,
             \/ ReqTimeout(t) \/ DoneTimeout(t)
             \/ \E g \in Seg, eom, sts \in BOOLEAN : RecvResponse(t, g, eom, sts)
      PROVE  IInv'
  BY <1>5, TransactionStep
<1> QED BY <1>1, <1>2, <1>3, <1>4, <1>5 DEF Next

LEMMA Inductive == Spec => []IInv
<1>1. Init => IInv
  BY InitInv
<1>2. TypeOK /\ IInv /\ TypeOK' /\ [Next]_vars => IInv'
  BY NextInv
<1> QED BY <1>1, <1>2, TypeCorrect, PTL DEF Spec

-----------------------------------------------------------------------------
(* What it says of the system. *)

(* The send list of an open socket holds exactly the transactions of it that   *)
(* wait to send a request, and some that wait to send a release, each once:    *)
(* never a tcb that a timeout, a poll or a cancel has given back meanwhile.    *)
THEOREM SendListsExact == Spec => []SendListExact
<1>1. IInv => SendListExact
  BY DEF IInv, Lists, Listed, Distinct, SendListExact
<1> QED BY <1>1, Inductive, PTL

(* A transaction has its request timer once while it waits for replies, and no *)
(* timeout is left on the callout list for a tcb that has gone back.           *)
THEOREM TimersAreExact == Spec => []TimersExact
<1>1. IInv => TimersExact
  <2> SUFFICES ASSUME IInv, NEW t \in Trans
               PROVE  /\ reqTimer[t] = IF t \notin transFree /\ tcb[t].state = "TIMEOUT" THEN 1 ELSE 0
                      /\ doneTimer[t] \in {0, 1}
                      /\ doneTimer[t] = 1 => t \notin transFree /\ tcb[t].state = "BUILD"
                      /\ tcb[t].state = "BUILD" /\ tcb[t].xmt = "ioctl" => doneTimer[t] = 1
    BY DEF TimersExact
  <2>1. CASE t \in transFree
    BY <2>1 DEF IInv, Tracked, FreeTcb
  <2>2. CASE t \notin transFree
    BY <2>2 DEF IInv, Tracked, Sound, Timed
  <2> QED BY <2>1, <2>2
<1> QED BY <1>1, Inductive, PTL

(* No two pending transactions of a socket have the same id, wherever atp_tid  *)
(* started to look for one and however often the ids wrapped around.           *)
THEOREM TidsUnique == Spec => []UniqueTids
<1>1. IInv => UniqueTids
  BY DEF IInv
<1> QED BY <1>1, Inductive, PTL

(* A process that is told its request succeeded has been given every segment   *)
(* of the response, whatever was lost, repeated or out of order, and whether   *)
(* it waited for the reply or polls for it.                                    *)
THEOREM RepliesWhole == Spec => []WholeReply
<1>1. IInv => WholeReply
  BY DEF IInv
<1> QED BY <1>1, Inductive, PTL

(* The packet of a request on its way out asks for each segment that is still  *)
(* missing.                                                                    *)
THEOREM MissingAskedFor == Spec => []AsksForMissing
<1>1. IInv => AsksForMissing
  <2> SUFFICES ASSUME IInv, NEW t \in Trans, tcb[t].state = "REQUEST"
               PROVE  tcb[t].bitmap \subseteq tcb[t].hdr
    BY DEF AsksForMissing
  <2>1. t \notin transFree
    BY DEF IInv, Tracked, FreeTcb
  <2> QED BY <2>1 DEF IInv, Tracked, Sound, Gathered
<1> QED BY <1>1, Inductive, PTL

(* A SET_FINISH that has not been acknowledged has a transaction to wait for.  *)
THEOREM FinishIsPending == Spec => []FinishPending
<1>1. IInv => FinishPending
  BY DEF IInv
<1> QED BY <1>1, Inductive, PTL
=============================================================================
