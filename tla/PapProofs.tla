----------------------------- MODULE PapProofs ------------------------------
(***************************************************************************)
(* Proofs about Pap: its invariants, and that a connection carries the two *)
(* streams of PapStreams, for any use of it, any number of segments,       *)
(* GET_REQUESTs and sequence numbers, and any number of items.             *)
(*                                                                         *)
(* The inductive invariant IInv says of each end (Local) that its queues   *)
(* are in order, and of each request where it is: that there is one while  *)
(* its end reads (Asking), what its number is beside what the other end    *)
(* expects (Numbered), and which items are in its response (Carried).      *)
(* FreshTaken follows from Numbered: the number of a request that was      *)
(* never answered is the one the other end expects.  That what is read is  *)
(* what was written follows from Carried: between the items written and    *)
(* those read are those in the response or in pap_rcv; and when ATP forgot *)
(* a response its request is dropped, so that nothing is read twice.       *)
(*                                                                         *)
(* There is a lemma ...Keeps for each action, or for a few alike.  It says *)
(* that the action keeps IInv and is Onward: the other end is as it was,   *)
(* and an end that writes no more does not begin to again.  A step changes *)
(* a request, or the session or the queues at one end of it; BothEnds      *)
(* collects what is to be shown of the two, and the lemmas ...Frame are    *)
(* for the parts of the invariant that a step does not touch.              *)
(***************************************************************************)
EXTENDS Pap, TLAPS

(* The queues of an end and what TypeOK says of them. *)
Queues == [wq : Seq(Command), wen : BOOLEAN, rq : Seq(1 .. MaxSeq),
           ren : BOOLEAN, again : BOOLEAN, hup : BOOLEAN]

(* What an end keeps as a reader and as a writer. *)
SameReader(r, p) ==
    /\ r.read = p.read /\ r.rcv = p.rcv /\ r.eof = p.eof
    /\ r.send_count = p.send_count /\ r.read_ignore = p.read_ignore
SameWriter(r, p) ==
    r.request = p.request /\ r.rcv_count = p.rcv_count /\ r.eof_sent = p.eof_sent
SameHdr(r, p)    == r.hdr = p.hdr /\ r.timer = p.timer
SameSupply(r, p) == r.request_count = p.request_count /\ r.req_timer = p.req_timer
Same(r, p) == SameReader(r, p) /\ SameWriter(r, p) /\ SameHdr(r, p)

(* The steps of an end change nothing at the other. *)
Others(e) ==
    \A x \in End \ {e} :
        /\ pap'[x] = pap[x] /\ str'[x] = str[x] /\ phase'[x] = phase[x]
        /\ tmo'[x] = tmo[x] /\ ign'[x] = ign[x]

-----------------------------------------------------------------------------
(* The inductive invariant. *)

(* Once the close has begun nothing is left that the stream head or the timeout *)
(* could do to the session.                                                     *)
Quiet(e) == phase[e] # "open" => str[e].wq = <<>> /\ ~pap[e].timer /\ ~tmo[e]

(* Commands are those the end is used for, and an end that has only a part of   *)
(* its header gets the rest first.                                              *)
Commands(e) ==
    /\ \A i \in DOMAIN str[e].wq : /\ str[e].wq[i].op = "READ" => e \in use.readers
                                   /\ str[e].wq[i].op = "READ_IGNORE" => e \in use.ignorers
    /\ pap[e].hdr = "part" /\ str[e].wq # <<>> => Head(str[e].wq).op = "SETHDR"

(* An end that is closing without having begun it was hung up, and nobody waits *)
(* for a command any more, or the other end has begun.                          *)
HungUp(e) ==
    /\ creq[e] # "none" => phase[e] # "open"
    /\ pap[e].closing /\ phase[e] = "open" => str[e].hup \/ phase[Peer[e]] # "open"
    /\ str[e].hup => ~Waiting(e)

(* Primed, for one end. *)
Supplied(e) == Alive(e) => pap[e].request_count > 0 \/ pap[e].req_timer \/ str[e].ren

(* What NoStall says of the queues q and the session p of an end. *)
Attended(q, p) ==
    q.wq # <<>> /\ ~q.wen /\ ~q.again =>
        \/ Head(q.wq).op = "READ" /\ p.read
        \/ /\ Head(q.wq).op \in Writing /\ p.request = 0 /\ p.hdr # "none"
           /\ q.rq = <<>> \/ q.ren

(* What is so of an end whatever the requests are. *)
Local(e) ==
    /\ Quiet(e)
    /\ Commands(e)
    /\ HungUp(e)
    /\ Supplied(e)
    /\ phase[e] = "open" => Attended(str[e], pap[e])

(* An end has one request out while it reads, or ignores what it reads. *)
Asking(e) ==
    /\ pap[e].read => e \in use.readers /\ dreq[e].st # "none"
    /\ pap[e].read_ignore => e \in use.ignorers /\ (dreq[e].st # "none" \/ ign[e])
    /\ dreq[e].st # "none" => pap[e].read \/ pap[e].read_ignore
    /\ ign[e] => pap[e].read_ignore /\ dreq[e].st = "none"

(* Where the request of e is: still to be taken, with the number the other end  *)
(* expects; on its read queue; being answered; or answered.                     *)
Numbered(e) ==
    LET w == Peer[e]
        d == dreq[e]
        p == pap[w]
    IN  /\ Alive(e) /\ d.st = "none" => pap[e].send_count = p.rcv_count
        /\ Alive(e) /\ d.st # "none" => pap[e].send_count = NextSend(d.seq)
        /\ d.st = "sent" /\ ~d.again => p.rcv_count = d.seq
        /\ d.again \/ d.st = "done" => p.rcv_count = NextRcv(d.seq)
        /\ d.again => d.st \in {"sent", "lost"} \/ ~Alive(e)
        /\ d.st # "taken" => str[w].rq = <<>>
        /\ d.st # "taken" /\ phase[w] = "open" => p.request = 0
        /\ d.st = "lost" /\ phase[w] = "open" => d.again
        /\ d.st = "taken" =>
             \/ str[w].rq = <<d.seq>> /\ p.request = 0 /\ p.rcv_count = d.seq
             \/ str[w].rq = <<>> /\ p.request # 0 /\ p.rcv_count = NextRcv(d.seq)
             \/ str[w].rq = <<>> /\ phase[w] \notin {"open", "eof"}
        /\ d.st = "taken" => ~d.again
        /\ phase[w] = "eof" => d.st = "taken" /\ p.request # 0

(* q are the items of a stream that follow the first n; its last may be the end *)
(* of the stream.  The last item of the stream up to there has number Upto.     *)
Continues(q, n) ==
    \A i \in DOMAIN q : q[i] = [d |-> n + i, eof |-> FALSE] \/ (i = Len(q) /\ q[i] = Eof)
Ended(q)   == q # <<>> /\ q[Len(q)] = Eof
Upto(q, n) == IF Ended(q) THEN n + Len(q) - 1 ELSE n + Len(q)

(* The end will write no more. *)
Fin(e) == pap[e].eof_sent \/ phase[e] # "open"

(* What the other end has written is what has been read, what is there to be    *)
(* read or what is in the response under way.  Of the items in a response that  *)
(* ATP forgot nothing is said: they are not sent again and never read.          *)
Carried(e) ==
    LET w == Peer[e]
        d == dreq[e]
        q == pap[e].rcv
    IN  /\ d.st # "none" => q = <<>> /\ ~pap[e].eof
        /\ d.st \notin {"taken", "done"} => d.segs = <<>>
        /\ d.again => d.st \in {"sent", "lost"}
        /\ Continues(q, in[e]) /\ Continues(d.segs, in[e])
        /\ d.st = "none" => out[w] = Upto(q, in[e])
        /\ d.st \in {"taken", "done"} => out[w] = Upto(d.segs, in[e])
        /\ d.st = "sent" /\ ~d.again => out[w] = in[e]
        /\ Ended(q) \/ Ended(d.segs) => Fin(w)
        /\ Ended(d.segs) => d.st = "done"
        /\ pap[e].eof => Fin(w) /\ out[w] = in[e]

(* Nothing is said of what ends have that are gone, and only of the items that   *)
(* are read and not ignored.                                                    *)
OneRequest == \A e \in End : Alive(e) => Asking(e)
Sequenced  == \A e \in End : Alive(Peer[e]) => Numbered(e)
Carries    == \A e \in End : e \in use.readers /\ Alive(e) => Carried(e)

IInv ==
    /\ TypeOK
    /\ \A e \in End : Local(e)
    /\ OneRequest
    /\ Sequenced
    /\ Carries

(* An end only goes on towards its close. *)
Later(e) ==
    /\ phase'[e] = "open" => phase[e] = "open"
    /\ phase'[e] = "eof" => phase[e] = "eof"
    /\ Alive(e)' => Alive(e)
    /\ Fin(e) => Fin(e)'

(* Nor does a step of an end let it write again, or change whether the other may. *)
Onward(e) == Others(e) /\ (Fin(e) => Fin(e)')

-----------------------------------------------------------------------------
(* The two ends, the counters and the types. *)

LEMMA TheEnds ==
    ASSUME NEW e \in End
    PROVE  /\ Peer[e] \in End /\ Peer[e] # e /\ Peer[Peer[e]] = e
           /\ \A x \in End : x = e \/ x = Peer[e]
  BY ConstantAssumption DEF End, Peer

LEMMA NextCount ==
    ASSUME NEW n \in 1 .. MaxSeq
    PROVE  NextSend(n) \in 1 .. MaxSeq /\ NextRcv(n) = NextSend(n) /\ NextRcv(n) # n
  BY ConstantAssumption DEF NextSend, NextRcv

LEMMA Types ==
    ASSUME TypeOK
    PROVE  /\ pap \in [End -> PapState] /\ str \in [End -> Queues] /\ dreq \in [End -> Request]
           /\ \A e \in End : pap[e] \in PapState /\ str[e] \in Queues /\ dreq[e] \in Request
  BY DEF TypeOK, Queues

-----------------------------------------------------------------------------
(* What the steps do to a session. *)

LEMMA OneSession ==
    ASSUME TypeOK, NEW e \in End, NEW r \in PapState, pap' = [pap EXCEPT ![e] = r]
    PROVE  /\ pap' \in [End -> PapState] /\ pap'[e] = r
           /\ \A x \in End \ {e} : pap'[x] = pap[x]
  BY DEF TypeOK

LEMMA OneQueue ==
    ASSUME TypeOK, NEW e \in End, NEW q \in Queues, str' = [str EXCEPT ![e] = q]
    PROVE  /\ str' \in [End -> Queues] /\ str'[e] = q
           /\ \A x \in End \ {e} : str'[x] = str[x]
  BY DEF TypeOK, Queues

(* However many GET_REQUESTs can be issued, the session is p otherwise, and one   *)
(* is out or will be.                                                           *)
LEMMA PrimeDoes ==
    ASSUME TypeOK, NEW e \in End, NEW p \in PapState, Prime(e, p)
    PROVE  /\ pap' \in [End -> PapState]
           /\ \A x \in End \ {e} : pap'[x] = pap[x]
           /\ Same(pap'[e], p) /\ pap'[e].closing = p.closing
           /\ pap'[e].request_count > 0 \/ pap'[e].req_timer
<1>1. PICK g \in IF e \in use.dry THEN p.request_count .. NRequests ELSE {NRequests} :
        pap' = [pap EXCEPT ![e] = [p EXCEPT !.request_count = g, !.req_timer = @ \/ g = 0]]
  BY DEF Prime
<1>2. g \in 0 .. NRequests
  BY ConstantAssumption DEF PapState
<1> DEFINE t == p.req_timer \/ g = 0
           r == [p EXCEPT !.request_count = g, !.req_timer = t]
<1>3. t \in BOOLEAN /\ (g > 0 \/ t)
  BY <1>2
<1> HIDE DEF t
<1>4. /\ r \in PapState /\ Same(r, p) /\ r.closing = p.closing
      /\ r.request_count = g /\ r.req_timer = t
  BY <1>2, <1>3 DEF PapState, Same, SameReader, SameWriter, SameHdr
<1>5. pap' = [pap EXCEPT ![e] = r]
  BY <1>1 DEF t
<1> HIDE DEF r
<1> QED
  BY <1>3, <1>4, <1>5, OneSession

LEMMA GotDoes ==
    ASSUME TypeOK, NEW e \in End, Gets(e)
    PROVE  Got(e) \in PapState /\ Same(Got(e), pap[e]) /\ Got(e).closing = pap[e].closing
<1>1. pap[e] \in PapState /\ pap[e].request_count > 0
  BY Types DEF Gets
<1>2. pap[e].request_count - 1 \in 0 .. NRequests
  BY <1>1, ConstantAssumption DEF PapState
<1> QED
  BY <1>1, <1>2 DEF PapState, Same, SameReader, SameWriter, SameHdr, Got

(* Queues of commands. *)
LEMMA TailDoes ==
    ASSUME NEW S, NEW q \in Seq(S), q # <<>>
    PROVE  /\ q[1] \in S /\ Head(q) = q[1]
           /\ Tail(q) \in Seq(S) /\ Len(Tail(q)) = Len(q) - 1 /\ Len(q) \in Nat \ {0}
           /\ Len(q) > 1 <=> Tail(q) # <<>>
           /\ \A i \in 1 .. Len(q) - 1 : Tail(q)[i] = q[i + 1]
<1>1. Len(q) > 0
  OBVIOUS
<1>2. Tail(q) \in Seq(S) /\ Len(Tail(q)) = Len(q) - 1
  BY <1>1
<1>3. ASSUME NEW t \in Seq(S) PROVE Len(t) = 0 <=> t = <<>>
  OBVIOUS
<1>4. /\ q[1] \in S /\ Head(q) = q[1] /\ Len(q) \in Nat \ {0}
      /\ \A i \in 1 .. Len(q) - 1 : Tail(q)[i] = q[i + 1]
  BY <1>1
<1>5. Len(q) > 1 <=> Tail(q) # <<>>
  <2>1. Len(Tail(q)) = 0 <=> Tail(q) = <<>>
    BY <1>2, <1>3
  <2> QED
    BY <1>2, <1>4, <2>1
<1> QED
  BY <1>2, <1>4, <1>5

(* A command is answered, or put back. *)
LEMMA ServedDoes ==
    ASSUME TypeOK, NEW e \in End, str[e].wq # <<>>
    PROVE  /\ Served(e) \in Queues
           /\ Served(e).wq = Tail(str[e].wq) /\ (Served(e).wen <=> Tail(str[e].wq) # <<>>)
           /\ Served(e).rq = str[e].rq /\ Served(e).ren = str[e].ren
           /\ Served(e).again = str[e].again /\ Served(e).hup = str[e].hup
<1>1. str[e] \in Queues /\ str[e].wq \in Seq(Command)
  BY Types DEF Queues
<1> DEFINE w == Len(str[e].wq) > 1
           q == Tail(str[e].wq)
<1>2. w \in BOOLEAN /\ (w <=> q # <<>>) /\ q \in Seq(Command)
  BY <1>1, TailDoes
<1>3. Served(e) = [str[e] EXCEPT !.wq = q, !.wen = w]
  BY DEF Served
<1> HIDE DEF w, q
<1>4. LET s == [str[e] EXCEPT !.wq = q, !.wen = w]
      IN  /\ s \in Queues /\ s.wq = q /\ s.wen = w /\ s.rq = str[e].rq
          /\ s.ren = str[e].ren /\ s.again = str[e].again /\ s.hup = str[e].hup
  BY <1>1, <1>2 DEF Queues
<1>5. q = Tail(str[e].wq)
  BY DEF q
<1> QED
  BY <1>2, <1>3, <1>4, <1>5

LEMMA HeldDoes ==
    ASSUME TypeOK, NEW e \in End
    PROVE  /\ Held(e) \in Queues /\ HeldForSpace(e) \in Queues
           /\ Held(e).wq = str[e].wq /\ ~Held(e).wen /\ Held(e).rq = str[e].rq
           /\ Held(e).ren = str[e].ren /\ Held(e).again = str[e].again
           /\ Held(e).hup = str[e].hup
           /\ HeldForSpace(e).wq = str[e].wq /\ ~HeldForSpace(e).wen
           /\ HeldForSpace(e).rq = str[e].rq /\ HeldForSpace(e).ren = str[e].ren
           /\ HeldForSpace(e).again /\ HeldForSpace(e).hup = str[e].hup
<1>1. str[e] \in Queues
  BY Types
<1>2. LET h == Held(e)
      IN  /\ h \in Queues
          /\ h.wq = str[e].wq /\ ~h.wen /\ h.rq = str[e].rq
          /\ h.ren = str[e].ren /\ h.again = str[e].again /\ h.hup = str[e].hup
  BY <1>1 DEF Held, Queues
<1>3. LET h == HeldForSpace(e)
      IN  /\ h \in Queues
          /\ h.wq = Held(e).wq /\ h.wen = Held(e).wen /\ h.rq = Held(e).rq
          /\ h.ren = Held(e).ren /\ h.again /\ h.hup = Held(e).hup
  BY <1>2 DEF HeldForSpace, Queues
<1> QED
  BY <1>2, <1>3

(* q with its read side enabled. *)
LEMMA RenDoes ==
    ASSUME NEW q \in Queues, NEW ren \in BOOLEAN
    PROVE  LET r == [q EXCEPT !.ren = ren]
           IN  /\ r \in Queues /\ r.wq = q.wq /\ r.wen = q.wen /\ r.rq = q.rq
               /\ (r.ren <=> ren) /\ r.again = q.again /\ r.hup = q.hup
  BY DEF Queues

LEMMA AppendDoes ==
    ASSUME NEW S, NEW q \in Seq(S), NEW c \in S
    PROVE  LET w == Append(q, c)
           IN  /\ w \in Seq(S) /\ w # <<>> /\ Len(w) = Len(q) + 1
               /\ \A i \in 1 .. Len(q) : w[i] = q[i]
               /\ w[Len(q) + 1] = c
               /\ Head(w) = IF q = <<>> THEN c ELSE Head(q)
<1> DEFINE w == Append(q, c)
<1>1. /\ w \in Seq(S) /\ Len(w) = Len(q) + 1 /\ Len(q) \in Nat
      /\ \A i \in 1 .. Len(q) : w[i] = q[i]
      /\ w[Len(q) + 1] = c
  OBVIOUS
<1> HIDE DEF w
<1>2. w # <<>> /\ Head(w) = w[1]
  BY <1>1
<1>3. CASE q = <<>>
  BY <1>1, <1>2, <1>3 DEF w
<1>4. CASE q # <<>>
  <2>1. Len(q) > 0 /\ Head(q) = q[1]
    BY <1>4
  <2> QED
    BY <1>1, <1>2, <1>4, <2>1 DEF w
<1> QED
  BY <1>3, <1>4

(* Nobody waits for the commands any more; the commands are the same. *)
LEMMA AbandonedDoes ==
    ASSUME NEW q \in Seq(Command)
    PROVE  LET w == Abandoned(q)
           IN  /\ w \in Seq(Command) /\ DOMAIN w = DOMAIN q
               /\ \A i \in DOMAIN w : w[i].op = q[i].op /\ ~w[i].live
               /\ w # <<>> => q # <<>>
               /\ w # <<>> => Head(w).op = Head(q).op
<1> DEFINE w == Abandoned(q)
<1>1. ASSUME NEW c \in Command
      PROVE  LET a == [c EXCEPT !.live = FALSE] IN a \in Command /\ a.op = c.op /\ ~a.live
  BY DEF Command
<1>2. \A i \in 1 .. Len(q) : q[i] \in Command
  OBVIOUS
<1>3. /\ w = [i \in 1 .. Len(q) |-> [q[i] EXCEPT !.live = FALSE]]
      /\ DOMAIN q = 1 .. Len(q) /\ Len(q) \in Nat
  BY DEF Abandoned
<1>4. ASSUME NEW i \in 1 .. Len(q)
      PROVE  w[i] \in Command /\ w[i].op = q[i].op /\ ~w[i].live
  <2>1. q[i] \in Command
    BY <1>2
  <2>2. w[i] = [q[i] EXCEPT !.live = FALSE]
    BY <1>3
  <2> HIDE DEF w
  <2> QED
    BY <1>1, <2>1, <2>2
<1>5. w \in Seq(Command) /\ Len(w) = Len(q)
  <2>1. w \in [1 .. Len(q) -> Command]
    BY <1>3, <1>4
  <2> HIDE DEF w
  <2> QED
    BY <1>3, <2>1
<1> HIDE DEF w
<1>6. w # <<>> => Len(w) > 0 /\ Head(w) = w[1]
  BY <1>5
<1>7. Len(q) > 0 => q # <<>> /\ Head(q) = q[1]
  OBVIOUS
<1>8. w # <<>> => q # <<>> /\ Head(w).op = Head(q).op
  BY <1>4, <1>5, <1>6, <1>7
<1> QED
  BY <1>3, <1>4, <1>5, <1>8 DEF w

LEMMA HearsDoes ==
    ASSUME TypeOK, NEW e \in End, Hears(e)
    PROVE  /\ tmo' \in [End -> BOOLEAN]
           /\ tmo'[e] => tmo[e] \/ pap[e].timer
           /\ \A x \in End \ {e} : tmo'[x] = tmo[x]
<1> DEFINE t == tmo[e] \/ pap[e].timer
<1>1. t \in BOOLEAN /\ tmo' = [tmo EXCEPT ![e] = t]
  BY DEF Hears
<1> HIDE DEF t
<1>2. /\ tmo' \in [End -> BOOLEAN] /\ tmo'[e] = t
      /\ \A x \in End \ {e} : tmo'[x] = tmo[x]
  BY <1>1 DEF TypeOK
<1> QED
  BY <1>2 DEF t

-----------------------------------------------------------------------------
(* Items of a stream. *)

LEMMA EofIsNone ==
    ASSUME NEW n \in Nat
    PROVE  /\ Eof \in Item /\ [d |-> n, eof |-> FALSE] \in Item
           /\ [d |-> n, eof |-> FALSE] # Eof
<1> DEFINE i == [d |-> n, eof |-> FALSE]
<1>1. Eof \in Item /\ i \in Item /\ Eof.eof /\ ~i.eof
  BY DEF Eof, Item
<1> HIDE DEF i
<1>2. i # Eof
  BY <1>1
<1> QED
  BY <1>1, <1>2 DEF i

LEMMA EmptyStream ==
    ASSUME NEW n \in Nat
    PROVE  Continues(<<>>, n) /\ ~Ended(<<>>) /\ Upto(<<>>, n) = n
  BY DEF Continues, Ended, Upto

LEMMA StreamAppend ==
    ASSUME NEW q \in Seq(Item), NEW n \in Nat, Continues(q, n), ~Ended(q),
           NEW i \in Item, i = Eof \/ i = [d |-> Upto(q, n) + 1, eof |-> FALSE]
    PROVE  /\ Append(q, i) \in Seq(Item) /\ Continues(Append(q, i), n)
           /\ Ended(Append(q, i)) <=> i = Eof
           /\ Upto(Append(q, i), n) = IF i = Eof THEN Upto(q, n) ELSE Upto(q, n) + 1
<1> DEFINE w == Append(q, i)
<1>1. /\ w \in Seq(Item) /\ w # <<>> /\ Len(w) = Len(q) + 1 /\ Len(q) \in Nat
      /\ \A k \in 1 .. Len(q) : w[k] = q[k]
      /\ w[Len(q) + 1] = i
  BY AppendDoes
<1>2. Upto(q, n) = n + Len(q)
  BY DEF Upto
<1> HIDE DEF w
<1>0. DOMAIN q = 1 .. Len(q) /\ DOMAIN w = 1 .. Len(w)
  BY <1>1
<1>3. \A k \in 1 .. Len(q) : q[k] = [d |-> n + k, eof |-> FALSE]
  <2> SUFFICES ASSUME NEW k \in 1 .. Len(q), k = Len(q), q[k] = Eof PROVE FALSE
    BY <1>0 DEF Continues
  <2>1. q # <<>>
    OBVIOUS
  <2> QED
    BY <2>1 DEF Ended
<1>4. Continues(w, n)
  <2> SUFFICES ASSUME NEW k \in 1 .. Len(w)
               PROVE  w[k] = [d |-> n + k, eof |-> FALSE] \/ (k = Len(w) /\ w[k] = Eof)
    BY <1>0 DEF Continues
  <2>1. CASE k \in 1 .. Len(q)
    BY <1>1, <1>3, <2>1
  <2>2. CASE k = Len(q) + 1
    <3>1. n + k = Upto(q, n) + 1 /\ k = Len(w) /\ w[k] = i
      BY <1>1, <1>2, <2>2
    <3> QED
      BY <3>1
  <2> QED
    BY <1>1, <2>1, <2>2
<1>5. Ended(w) <=> i = Eof
  BY <1>1 DEF Ended
<1>6. Upto(w, n) = IF i = Eof THEN Upto(q, n) ELSE Upto(q, n) + 1
  BY <1>1, <1>2, <1>5 DEF Upto
<1> QED
  BY <1>1, <1>4, <1>5, <1>6 DEF w

LEMMA StreamTail ==
    ASSUME NEW q \in Seq(Item), NEW n \in Nat, Continues(q, n), q # <<>>
    PROVE  \/ Head(q) = Eof /\ Ended(q) /\ Upto(q, n) = n
           \/ /\ Head(q) = [d |-> n + 1, eof |-> FALSE]
              /\ Continues(Tail(q), n + 1) /\ Upto(Tail(q), n + 1) = Upto(q, n)
              /\ Ended(Tail(q)) => Ended(q)
<1> DEFINE t == Tail(q)
<1>1. /\ Head(q) = q[1] /\ t \in Seq(Item) /\ Len(t) = Len(q) - 1 /\ Len(q) \in Nat \ {0}
      /\ Len(q) > 1 <=> t # <<>>
      /\ \A i \in 1 .. Len(q) - 1 : t[i] = q[i + 1]
  BY TailDoes
<1> HIDE DEF t
<1>2. \A k \in 1 .. Len(q) :
          q[k] = [d |-> n + k, eof |-> FALSE] \/ (k = Len(q) /\ q[k] = Eof)
  <2>1. DOMAIN q = 1 .. Len(q)
    BY <1>1
  <2> QED
    BY <2>1 DEF Continues
<1>3. CASE q[1] = Eof
  <2>1. Len(q) = 1
    <3>1. 1 \in 1 .. Len(q) /\ n + 1 \in Nat
      BY <1>1
    <3> QED
      BY <1>2, <1>3, <3>1, EofIsNone
  <2> QED
    BY <1>1, <1>3, <2>1 DEF Ended, Upto
<1>4. CASE q[1] # Eof
  <2>1. q[1] = [d |-> n + 1, eof |-> FALSE]
    BY <1>1, <1>2, <1>4
  <2>2. Continues(t, n + 1)
    <3> SUFFICES ASSUME NEW k \in 1 .. Len(t)
                 PROVE  \/ t[k] = [d |-> (n + 1) + k, eof |-> FALSE]
                        \/ k = Len(t) /\ t[k] = Eof
      <4>1. DOMAIN t = 1 .. Len(t)
        BY <1>1
      <4> QED
        BY <4>1 DEF Continues
    <3>1. k + 1 \in 1 .. Len(q) /\ t[k] = q[k + 1] /\ (k + 1 = Len(q) <=> k = Len(t))
      BY <1>1
    <3>2. n + (k + 1) = (n + 1) + k
      OBVIOUS
    <3> QED
      BY <1>2, <3>1, <3>2
  <2>3. Ended(t) <=> Ended(q)
    <3>1. CASE t = <<>>
      <4>1. Len(q) = 1
        BY <1>1, <3>1
      <4> QED
        BY <1>4, <3>1, <4>1 DEF Ended
    <3>2. CASE t # <<>>
      <4>1. Len(q) > 1 /\ Len(t) \in 1 .. Len(q) - 1 /\ Len(t) + 1 = Len(q)
        BY <1>1, <3>2
      <4>2. t[Len(t)] = q[Len(q)]
        BY <1>1, <4>1
      <4> QED
        BY <3>2, <4>2 DEF Ended
    <3> QED
      BY <3>1, <3>2
  <2>4. Upto(t, n + 1) = Upto(q, n)
    BY <1>1, <2>3 DEF Upto
  <2> QED
    BY <1>1, <2>1, <2>2, <2>3, <2>4 DEF t
<1> QED
  BY <1>3, <1>4

-----------------------------------------------------------------------------
(* What is kept by steps that do not concern it. *)

LEMMA Assemble ==
    ASSUME IInv, NEW e \in End, TypeOK', Others(e), use' = use,
           phase'[e] = "open" => phase[e] = "open", Fin(e) => Fin(e)',
           \A x \in End : creq'[x] # "none" => creq[x] # "none" \/ phase'[x] # "open",
           Local(e)', OneRequest', Sequenced', Carries'
    PROVE  IInv' /\ Onward(e)
<1>1. ASSUME NEW x \in End \ {e} PROVE Local(x)'
  <2>1. Local(x)
    BY DEF IInv
  <2>2. /\ pap'[x] = pap[x] /\ str'[x] = str[x] /\ phase'[x] = phase[x] /\ tmo'[x] = tmo[x]
        /\ Waiting(x)' <=> Waiting(x)
        /\ Alive(x)' <=> Alive(x)
    BY DEF Others, Waiting, Alive
  <2>3. Quiet(x)' /\ Commands(x)' /\ Supplied(x)'
    BY <2>1, <2>2 DEF Local, Quiet, Commands, Supplied
  <2>4. phase'[x] = "open" => Attended(str[x], pap[x])'
    BY <2>1, <2>2 DEF Local, Attended
  <2>5. HungUp(x)'
    <3>1. Peer[x] = e
      BY TheEnds
    <3> QED
      BY <2>1, <2>2, <3>1 DEF Local, HungUp
  <2> QED
    BY <2>3, <2>4, <2>5 DEF Local
<1> QED
  BY <1>1 DEF IInv, Onward

LEMMA AskingFrame ==
    ASSUME IInv, NEW x \in End, use' = use, ign'[x] = ign[x],
           dreq'[x].st = "none" <=> dreq[x].st = "none",
           pap'[x].read <=> pap[x].read, pap'[x].read_ignore <=> pap[x].read_ignore,
           Alive(x)' => Alive(x)
    PROVE  Alive(x)' => Asking(x)'
  BY DEF IInv, OneRequest, Asking

LEMMA NumberedFrame ==
    ASSUME IInv, NEW x \in End, NEW w \in End, w = Peer[x], Alive(x)' => Alive(x), Later(w),
           dreq'[x].st = dreq[x].st, dreq'[x].seq = dreq[x].seq,
           dreq'[x].again <=> dreq[x].again,
           Alive(x)' => pap'[x].send_count = pap[x].send_count, str'[w].rq = str[w].rq,
           pap'[w].request = pap[w].request, pap'[w].rcv_count = pap[w].rcv_count
    PROVE  Alive(w)' => Numbered(x)'
<1> SUFFICES ASSUME Alive(w)' PROVE Numbered(x)'
  OBVIOUS
<1>1. Alive(w) /\ Numbered(x)
  BY DEF IInv, Sequenced, Later
<1>2. /\ phase'[w] = "open" => phase[w] = "open"
      /\ phase'[w] = "eof" => phase[w] = "eof"
  BY DEF Later
<1> QED
  BY <1>1, <1>2 DEF Numbered

LEMMA CarriedFrame ==
    ASSUME IInv, NEW x \in End, NEW w \in End, w = Peer[x], Alive(x)' => Alive(x),
           Fin(w) => Fin(w)', use' = use, dreq'[x] = dreq[x], pap'[x].rcv = pap[x].rcv,
           pap'[x].eof <=> pap[x].eof, in'[x] = in[x], out'[w] = out[w]
    PROVE  x \in use.readers /\ Alive(x)' => Carried(x)'
<1> SUFFICES ASSUME x \in use.readers, Alive(x)' PROVE Carried(x)'
  OBVIOUS
<1>1. Carried(x)
  BY DEF IInv, Carries
<1> QED
  BY <1>1 DEF Carried

(* It is enough to look at an end and its peer. *)
LEMMA BothEnds ==
    ASSUME NEW e \in End, NEW w \in End, w = Peer[e], use' = use,
           Alive(e)' => Asking(e)', Alive(w)' => Asking(w)',
           Alive(w)' => Numbered(e)', Alive(e)' => Numbered(w)',
           e \in use.readers /\ Alive(e)' => Carried(e)',
           w \in use.readers /\ Alive(w)' => Carried(w)'
    PROVE  OneRequest' /\ Sequenced' /\ Carries'
<1>1. Peer[w] = e /\ \A x \in End : x = e \/ x = w
  BY TheEnds
<1>2. OneRequest'
  BY <1>1 DEF OneRequest
<1>3. Sequenced'
  BY <1>1 DEF Sequenced
<1>4. Carries'
  BY <1>1 DEF Carries
<1> QED
  BY <1>2, <1>3, <1>4

LEMMA LaterOther ==
    ASSUME NEW e \in End, NEW x \in End \ {e}, Others(e)
    PROVE  Later(x)
  BY DEF Others, Later, Fin, Alive

LEMMA FrameKeeps ==
    ASSUME IInv, NEW e \in End, Others(e), Later(e), UNCHANGED <<dreq, in, out, use>>,
           SameReader(pap'[e], pap[e]), SameWriter(pap'[e], pap[e]),
           str'[e].rq = str[e].rq, ign'[e] = ign[e]
    PROVE  OneRequest' /\ Sequenced' /\ Carries' /\ (Fin(e) => Fin(e)')
<1>1. PICK w \in End \ {e} : w = Peer[e] /\ Peer[w] = e
  BY TheEnds
<1>2. \A x \in End : /\ SameReader(pap'[x], pap[x]) /\ SameWriter(pap'[x], pap[x])
                     /\ str'[x].rq = str[x].rq /\ ign'[x] = ign[x] /\ Later(x)
  BY LaterOther DEF Others, SameReader, SameWriter
<1>3. (Alive(e)' => Asking(e)') /\ (Alive(w)' => Asking(w)')
  BY <1>2, AskingFrame DEF SameReader, Later
<1>4. (Alive(w)' => Numbered(e)') /\ (Alive(e)' => Numbered(w)')
  BY <1>1, <1>2, NumberedFrame DEF SameReader, SameWriter, Later
<1>5. /\ e \in use.readers /\ Alive(e)' => Carried(e)'
      /\ w \in use.readers /\ Alive(w)' => Carried(w)'
  BY <1>1, <1>2, CarriedFrame DEF SameReader, Later
<1> QED
  BY <1>1, <1>3, <1>4, <1>5, BothEnds DEF Later

-----------------------------------------------------------------------------
(* The steps.  First those that only do something to the queues of an end. *)

LEMMA QueueKeeps ==
    ASSUME IInv, NEW e \in End, NEW q \in Queues, str' = [str EXCEPT ![e] = q],
           UNCHANGED <<pap, phase, tmo, ign, dreq, creq, out, in, told, use>>,
           q.rq = str[e].rq, q.hup = str[e].hup, str[e].ren => q.ren,
           phase[e] # "open" => q.wq = <<>>,
           \A i \in DOMAIN q.wq : /\ q.wq[i].op = "READ" => e \in use.readers
                                  /\ q.wq[i].op = "READ_IGNORE" => e \in use.ignorers
                                  /\ q.wq[i].live => ~str[e].hup,
           pap[e].hdr = "part" /\ q.wq # <<>> => Head(q.wq).op = "SETHDR",
           phase[e] = "open" => Attended(q, pap[e])
    PROVE  IInv' /\ Onward(e)
<1>1. str' \in [End -> Queues] /\ str'[e] = q /\ \A x \in End \ {e} : str'[x] = str[x]
  BY OneQueue DEF IInv
<1>2. TypeOK'
  BY <1>1 DEF IInv, TypeOK, Queues
<1>3. Others(e)
  BY <1>1 DEF Others
<1>4. OneRequest' /\ Sequenced' /\ Carries' /\ (Fin(e) => Fin(e)')
  BY <1>1, <1>3, FrameKeeps DEF Later, Fin, Alive, SameReader, SameWriter
<1>5. Local(e)
  BY DEF IInv
<1>6. Quiet(e)' /\ Commands(e)' /\ Supplied(e)'
  BY <1>1, <1>5 DEF Local, Quiet, Commands, Supplied, Alive
<1>7. HungUp(e)'
  BY <1>1, <1>5 DEF Local, HungUp, Waiting
<1>8. Local(e)'
  BY <1>1, <1>6, <1>7 DEF Local, Attended
<1> QED
  BY <1>2, <1>3, <1>4, <1>8, Assemble

(* An end with something on its write queue is open. *)
LEMMA AtOpen ==
    ASSUME IInv, NEW e \in End, NEW ops, At(e, ops)
    PROVE  /\ phase[e] = "open" /\ Alive(e) /\ str[e].wen /\ str[e].wq # <<>>
           /\ Head(str[e].wq).op \in ops
           /\ str[e] \in Queues /\ pap[e] \in PapState /\ dreq[e] \in Request
           /\ str[e].wq \in Seq(Command) /\ str[e].wq[1] = Head(str[e].wq)
           /\ Local(e) /\ Asking(e)
<1>1. str[e].wq # <<>> /\ Local(e) /\ Alive(e)
  BY DEF At, IInv
<1>2. str[e] \in Queues /\ pap[e] \in PapState /\ dreq[e] \in Request
  BY Types DEF IInv
<1>3. str[e].wq \in Seq(Command)
  BY <1>2 DEF Queues
<1> QED
  BY <1>1, <1>2, <1>3, TailDoes DEF At, Local, Quiet, IInv, OneRequest

(* What is left on the queue are commands that were there. *)
LEMMA TailCommands ==
    ASSUME IInv, NEW e \in End, NEW ops, At(e, ops)
    PROVE  LET q == Tail(str[e].wq)
           IN  \A i \in DOMAIN q : /\ q[i].op = "READ" => e \in use.readers
                                   /\ q[i].op = "READ_IGNORE" => e \in use.ignorers
                                   /\ q[i].live => ~str[e].hup
<1> DEFINE q == Tail(str[e].wq)
<1>1. str[e].wq \in Seq(Command) /\ str[e].wq # <<>> /\ Local(e)
  BY AtOpen
<1>2. /\ q \in Seq(Command) /\ Len(q) = Len(str[e].wq) - 1 /\ Len(str[e].wq) \in Nat
      /\ \A i \in 1 .. Len(str[e].wq) - 1 : q[i] = str[e].wq[i + 1]
  BY <1>1, TailDoes
<1>3. ASSUME NEW i \in DOMAIN q PROVE i + 1 \in DOMAIN str[e].wq /\ q[i] = str[e].wq[i + 1]
  BY <1>1, <1>2
<1> QED
  BY <1>1, <1>3 DEF Local, Commands, HungUp, Waiting

LEMMA SameCommands ==
    ASSUME IInv, NEW e \in End
    PROVE  \A i \in DOMAIN str[e].wq :
                /\ str[e].wq[i].op = "READ" => e \in use.readers
                /\ str[e].wq[i].op = "READ_IGNORE" => e \in use.ignorers
                /\ str[e].wq[i].live => ~str[e].hup
  BY DEF IInv, Local, Commands, HungUp, Waiting

(* A command that is put back, where it may be. *)
LEMMA PutBackKeeps ==
    ASSUME IInv, NEW e \in End, NEW q \in Queues, str' = [str EXCEPT ![e] = q],
           UNCHANGED <<pap, phase, tmo, ign, dreq, creq, out, in, told, use>>,
           q.wq = str[e].wq, q.rq = str[e].rq, q.hup = str[e].hup, str[e].ren => q.ren,
           phase[e] = "open" => Attended(q, pap[e])
    PROVE  IInv' /\ Onward(e)
<1>1. Local(e)
  BY DEF IInv
<1> QED
  BY <1>1, QueueKeeps, SameCommands DEF Local, Quiet, Commands

LEMMA WaitsKeep ==
    ASSUME IInv, NEW e \in End,
           \/ NoCommand(e) \/ SetHdrBlocked(e) \/ ReadBlocked(e) \/ ReadWaits(e)
           \/ WriteWaits(e) \/ WriteBlocked(e) \/ Again(e) \/ ReqTimeout(e)
    PROVE  IInv' /\ Onward(e)
<1>1. /\ str[e] \in Queues /\ TypeOK
      /\ phase[e] = "open" => Attended(str[e], pap[e])
  BY Types DEF IInv, Local
<1>2. CASE NoCommand(e)
  BY <1>1, <1>2, HeldDoes, PutBackKeeps DEF NoCommand, Attended
<1>3. CASE SetHdrBlocked(e)
  <2>1. PICK ren \in {str[e].ren, TRUE} :
            str' = [str EXCEPT ![e] = [HeldForSpace(e) EXCEPT !.ren = ren]]
    BY <1>3 DEF SetHdrBlocked
  <2>2. ren \in BOOLEAN /\ HeldForSpace(e) \in Queues /\ (str[e].ren => ren)
    BY <1>1, <2>1, HeldDoes DEF Queues
  <2> DEFINE q == [HeldForSpace(e) EXCEPT !.ren = ren]
  <2>3. /\ q \in Queues /\ q.wq = str[e].wq /\ q.rq = str[e].rq /\ q.hup = str[e].hup
        /\ q.again /\ (q.ren <=> ren)
    BY <1>1, <2>2, HeldDoes, RenDoes
  <2>4. str' = [str EXCEPT ![e] = q]
    BY <2>1
  <2> HIDE DEF q
  <2> QED
    BY <1>3, <2>2, <2>3, <2>4, PutBackKeeps DEF SetHdrBlocked, Attended
<1>4. CASE ReadBlocked(e)
  BY <1>1, <1>4, HeldDoes, PutBackKeeps DEF ReadBlocked, Attended
<1>5. CASE ReadWaits(e)
  <2>1. Head(str[e].wq).op = "READ" /\ pap[e].read
    BY <1>5 DEF ReadWaits, At
  <2> QED
    BY <1>1, <1>5, <2>1, HeldDoes, PutBackKeeps DEF ReadWaits, Attended
<1>6. CASE WriteWaits(e)
  <2>1. Head(str[e].wq).op \in Writing /\ pap[e].request = 0 /\ pap[e].hdr # "none"
    BY <1>6 DEF WriteWaits, At, RefusesWrite
  <2> DEFINE q == [Held(e) EXCEPT !.ren = TRUE]
  <2>2. /\ q \in Queues /\ q.wq = str[e].wq /\ q.rq = str[e].rq /\ q.hup = str[e].hup
        /\ q.ren
    <3>1. Held(e) \in Queues /\ TRUE \in BOOLEAN
      BY <1>1, HeldDoes
    <3> QED
      BY <1>1, <3>1, HeldDoes DEF Queues
  <2>3. str' = [str EXCEPT ![e] = q]
    BY <1>6 DEF WriteWaits
  <2> HIDE DEF q
  <2> QED
    BY <1>6, <2>1, <2>2, <2>3, PutBackKeeps DEF WriteWaits, Attended
<1>7. CASE WriteBlocked(e)
  <2> DEFINE q == [HeldForSpace(e) EXCEPT !.ren = TRUE]
  <2>1. /\ q \in Queues /\ q.wq = str[e].wq /\ q.rq = str[e].rq /\ q.hup = str[e].hup
        /\ q.ren /\ q.again
    <3>1. HeldForSpace(e) \in Queues /\ TRUE \in BOOLEAN
      BY <1>1, HeldDoes
    <3> QED
      BY <1>1, <3>1, HeldDoes DEF Queues
  <2>2. str' = [str EXCEPT ![e] = q] \/ str' = [str EXCEPT ![e] = HeldForSpace(e)]
    BY <1>7 DEF WriteBlocked
  <2> HIDE DEF q
  <2>3. UNCHANGED <<pap, phase, tmo, ign, dreq, creq, out, in, told, use>>
    BY <1>7 DEF WriteBlocked
  <2>4. CASE str' = [str EXCEPT ![e] = q]
    BY <2>1, <2>3, <2>4, PutBackKeeps DEF Attended
  <2>5. CASE str' = [str EXCEPT ![e] = HeldForSpace(e)]
    BY <1>1, <2>3, <2>5, HeldDoes, PutBackKeeps DEF Attended
  <2> QED
    BY <2>2, <2>4, <2>5
<1>8. CASE Again(e)
  <2> DEFINE q == [str[e] EXCEPT !.again = FALSE, !.wen = TRUE]
  <2>1. /\ q \in Queues /\ q.wq = str[e].wq /\ q.rq = str[e].rq /\ q.hup = str[e].hup
        /\ q.ren = str[e].ren /\ q.wen
    BY <1>1 DEF Queues
  <2>2. str' = [str EXCEPT ![e] = q]
    BY <1>8 DEF Again
  <2> HIDE DEF q
  <2> QED
    BY <1>8, <2>1, <2>2, PutBackKeeps DEF Again, Attended
<1>9. CASE ReqTimeout(e)
  <2> DEFINE q == [str[e] EXCEPT !.ren = TRUE]
  <2>1. /\ q \in Queues /\ q.wq = str[e].wq /\ q.rq = str[e].rq /\ q.hup = str[e].hup
        /\ q.ren /\ q.wen = str[e].wen /\ q.again = str[e].again
    BY <1>1, RenDoes
  <2>2. str' = [str EXCEPT ![e] = q]
    BY <1>9 DEF ReqTimeout
  <2> HIDE DEF q
  <2>3. phase[e] = "open" => Attended(q, pap[e])
    BY <1>1, <2>1 DEF Attended
  <2> QED
    BY <1>9, <2>1, <2>2, <2>3, PutBackKeeps DEF ReqTimeout
<1> QED
  BY <1>2, <1>3, <1>4, <1>5, <1>6, <1>7, <1>8, <1>9

(* A command other than SETHDR that is answered leaves its end in order. *)
LEMMA AnsweredLocal ==
    ASSUME IInv, NEW e \in End, NEW ops, At(e, ops), "SETHDR" \notin ops,
           str'[e] = Served(e), UNCHANGED <<phase, tmo, creq, use>>,
           SameHdr(pap'[e], pap[e]), SameSupply(pap'[e], pap[e]),
           pap'[e].closing = pap[e].closing
    PROVE  Local(e)'
<1>1. /\ phase[e] = "open" /\ str[e].wq # <<>> /\ Head(str[e].wq).op \in ops /\ Local(e)
      /\ TypeOK
  BY AtOpen DEF IInv
<1>2. /\ Served(e).wq = Tail(str[e].wq) /\ (Served(e).wen <=> Tail(str[e].wq) # <<>>)
      /\ Served(e).ren = str[e].ren /\ Served(e).hup = str[e].hup
  BY <1>1, ServedDoes
<1>3. pap[e].hdr # "part"
  BY <1>1 DEF Local, Commands
<1>4. Commands(e)'
  BY <1>2, <1>3, TailCommands DEF Commands, SameHdr
<1>5. HungUp(e)'
  BY <1>1, <1>2, TailCommands DEF HungUp, Local, Waiting
<1>6. Supplied(e)'
  BY <1>1, <1>2 DEF Supplied, Local, SameSupply, Alive
<1> QED
  BY <1>1, <1>2, <1>4, <1>5, <1>6 DEF Local, Quiet, Attended

LEMMA RefusedKeeps ==
    ASSUME IInv, NEW e \in End, Refused(e)
    PROVE  IInv' /\ Onward(e)
<1>1. At(e, Op \ {"SETHDR"})
  BY DEF Refused, At, Op, Writing
<1>2. /\ str' = [str EXCEPT ![e] = Served(e)]
      /\ UNCHANGED <<pap, phase, tmo, ign, dreq, creq, out, in, told, use>>
  BY DEF Refused
<1>3. str[e].wq # <<>> /\ TypeOK
  BY <1>1, AtOpen DEF IInv
<1>4. /\ str' \in [End -> Queues] /\ str'[e] = Served(e)
      /\ \A x \in End \ {e} : str'[x] = str[x]
  BY <1>2, <1>3, OneQueue, ServedDoes
<1>5. TypeOK'
  BY <1>2, <1>3, <1>4 DEF TypeOK, Queues
<1>6. Others(e)
  BY <1>2, <1>4 DEF Others
<1>7. Local(e)'
  BY <1>1, <1>2, <1>4, AnsweredLocal DEF SameHdr, SameSupply
<1>8. OneRequest' /\ Sequenced' /\ Carries' /\ (Fin(e) => Fin(e)')
  BY <1>2, <1>3, <1>4, <1>6, ServedDoes, FrameKeeps
     DEF Later, Fin, Alive, SameReader, SameWriter
<1> QED
  BY <1>2, <1>5, <1>6, <1>7, <1>8, Assemble

LEMMA InterruptKeeps ==
    ASSUME IInv, NEW e \in End, Interrupt(e)
    PROVE  IInv' /\ Onward(e)
<1> DEFINE w == Abandoned(str[e].wq)
           q == [str[e] EXCEPT !.wq = w]
<1>1. /\ TypeOK /\ str[e] \in Queues /\ str[e].wq \in Seq(Command)
      /\ Local(e)
  BY Types DEF IInv, Queues
<1>2. /\ w \in Seq(Command) /\ DOMAIN w = DOMAIN str[e].wq
      /\ \A i \in DOMAIN w : w[i].op = str[e].wq[i].op /\ ~w[i].live
      /\ w # <<>> => str[e].wq # <<>>
      /\ w # <<>> => Head(w).op = Head(str[e].wq).op
  BY <1>1, AbandonedDoes
<1> HIDE DEF w
<1>3. /\ q \in Queues /\ q.wq = w /\ q.rq = str[e].rq /\ q.hup = str[e].hup
      /\ q.ren = str[e].ren /\ q.wen = str[e].wen /\ q.again = str[e].again
  BY <1>1, <1>2 DEF Queues
<1>4. str' = [str EXCEPT ![e] = q]
  BY DEF Interrupt, w
<1>5. phase[e] # "open" => w = <<>>
  BY <1>1, <1>2 DEF Local, Quiet
<1> HIDE DEF q
<1>6. phase[e] = "open" => Attended(q, pap[e])
  BY <1>1, <1>2, <1>3 DEF Local, Attended
<1>7. UNCHANGED <<pap, phase, tmo, ign, dreq, creq, out, in, told, use>>
  BY DEF Interrupt
<1>8. /\ \A i \in DOMAIN w : /\ w[i].op = "READ" => e \in use.readers
                             /\ w[i].op = "READ_IGNORE" => e \in use.ignorers
                             /\ w[i].live => ~str[e].hup
      /\ pap[e].hdr = "part" /\ w # <<>> => Head(w).op = "SETHDR"
  BY <1>1, <1>2, SameCommands DEF Local, Commands
<1> QED
  BY <1>3, <1>4, <1>5, <1>6, <1>7, <1>8, QueueKeeps

LEMMA IssueKeeps ==
    ASSUME IInv, NEW e \in End, NEW op \in Op, Issue(e, op)
    PROVE  IInv' /\ Onward(e)
<1> DEFINE c == [op |-> op, live |-> TRUE]
           w == Append(str[e].wq, c)
           n == str[e].wen \/ str[e].wq = <<>>
           q == [str[e] EXCEPT !.wq = w, !.wen = n]
<1>1. /\ TypeOK /\ str[e] \in Queues /\ str[e].wq \in Seq(Command)
      /\ Local(e)
  BY Types DEF IInv, Queues
<1>2. c \in Command /\ c.op = op /\ n \in BOOLEAN
  BY <1>1 DEF Command, Queues
<1>3. /\ w \in Seq(Command) /\ w # <<>> /\ Len(w) = Len(str[e].wq) + 1
      /\ \A i \in 1 .. Len(str[e].wq) : w[i] = str[e].wq[i]
      /\ w[Len(str[e].wq) + 1] = c
      /\ Head(w) = IF str[e].wq = <<>> THEN c ELSE Head(str[e].wq)
  BY <1>1, <1>2, AppendDoes
<1>4. str' = [str EXCEPT ![e] = q]
  BY DEF Issue
<1>5. (n <=> str[e].wen \/ str[e].wq = <<>>)
  OBVIOUS
<1> HIDE DEF c, w, n
<1>6. /\ q \in Queues /\ q.wq = w /\ q.rq = str[e].rq /\ q.hup = str[e].hup
      /\ q.ren = str[e].ren /\ (q.wen <=> n) /\ q.again = str[e].again
  BY <1>1, <1>2, <1>3 DEF Queues
<1> HIDE DEF q
<1>7. phase[e] = "open" => Attended(q, pap[e])
  BY <1>1, <1>3, <1>5, <1>6 DEF Local, Attended
<1>8. /\ phase[e] = "open" /\ ~str[e].hup
      /\ op = "READ" => e \in use.readers
      /\ op = "READ_IGNORE" => e \in use.ignorers
      /\ op # "SETHDR" => pap[e].hdr # "part" \/ str[e].wq # <<>>
      /\ UNCHANGED <<pap, phase, tmo, ign, dreq, creq, out, in, told, use>>
  BY DEF Issue, Setting
<1>9. ASSUME NEW i \in DOMAIN w
      PROVE  /\ w[i].op = "READ" => e \in use.readers
             /\ w[i].op = "READ_IGNORE" => e \in use.ignorers
  <2>1. i \in 1 .. Len(str[e].wq) \/ i = Len(str[e].wq) + 1
    BY <1>1, <1>3
  <2> QED
    BY <1>1, <1>2, <1>3, <1>8, <2>1, SameCommands
<1>10. pap[e].hdr = "part" => Head(w).op = "SETHDR"
  BY <1>1, <1>2, <1>3, <1>8 DEF Local, Commands
<1> QED
  BY <1>4, <1>6, <1>7, <1>8, <1>9, <1>10, QueueKeeps

-----------------------------------------------------------------------------
(* Steps that leave the streams alone. *)

(* What comes from the network or from a callout leaves an end in order if it   *)
(* enables the write queue when it takes from a command what it waits for.      *)
LEMMA HeardLocal ==
    ASSUME IInv, NEW e \in End, UNCHANGED <<phase, use>>, creq'[e] = creq[e],
           tmo'[e] => tmo[e] \/ pap[e].timer, SameHdr(pap'[e], pap[e]), Supplied(e)',
           pap'[e].closing => pap[e].closing \/ phase[Peer[e]] # "open",
           str'[e].wq = str[e].wq, str'[e].again = str[e].again, str'[e].hup = str[e].hup,
           str[e].wen => str'[e].wen,
           \/ str'[e].wen
           \/ /\ pap[e].read => pap'[e].read
              /\ pap'[e].request = pap[e].request
              /\ str'[e].ren \/ (str'[e].ren = str[e].ren /\ str'[e].rq = str[e].rq)
    PROVE  Local(e)'
<1>1. Local(e)
  BY DEF IInv
<1>2. Quiet(e)'
  BY <1>1 DEF Local, Quiet, SameHdr
<1>3. Commands(e)'
  BY <1>1 DEF Local, Commands, SameHdr
<1>4. HungUp(e)'
  BY <1>1 DEF Local, HungUp, Waiting
<1>5. (phase[e] = "open" => Attended(str[e], pap[e]))'
  BY <1>1 DEF Local, Attended, SameHdr
<1> QED
  BY <1>2, <1>3, <1>4, <1>5 DEF Local

(* A step of the network that concerns neither stream. *)
LEMMA HeardKeeps ==
    ASSUME IInv, NEW e \in End, NEW p \in PapState, Prime(e, p), Same(p, pap[e]),
           p.closing = pap[e].closing, Hears(e) \/ UNCHANGED tmo,
           UNCHANGED <<str, phase, ign, dreq, creq, out, in, told, use>>
    PROVE  IInv' /\ Onward(e)
<1>1. TypeOK
  BY DEF IInv
<1>2. /\ pap' \in [End -> PapState] /\ \A x \in End \ {e} : pap'[x] = pap[x]
      /\ Same(pap'[e], p) /\ pap'[e].closing = p.closing
      /\ pap'[e].request_count > 0 \/ pap'[e].req_timer
  BY <1>1, PrimeDoes
<1>3. /\ tmo' \in [End -> BOOLEAN]
      /\ tmo'[e] => tmo[e] \/ pap[e].timer
      /\ \A x \in End \ {e} : tmo'[x] = tmo[x]
  BY <1>1, HearsDoes DEF TypeOK
<1>4. TypeOK'
  BY <1>1, <1>2, <1>3 DEF TypeOK
<1>5. Others(e)
  BY <1>2, <1>3 DEF Others
<1>6. Same(pap'[e], pap[e])
  BY <1>2 DEF Same, SameReader, SameWriter, SameHdr
<1>7. Local(e)'
  BY <1>2, <1>3, <1>6, HeardLocal DEF Same, SameReader, SameWriter, Supplied
<1>8. OneRequest' /\ Sequenced' /\ Carries' /\ (Fin(e) => Fin(e)')
  BY <1>5, <1>6, FrameKeeps DEF Later, Fin, Alive, Same, SameWriter
<1> QED
  BY <1>4, <1>5, <1>7, <1>8, Assemble

LEMMA TicklesKeep ==
    ASSUME IInv, NEW e \in End, GetTickle(e) \/ TickleIssued(e) \/ FinishAck(e)
    PROVE  IInv' /\ Onward(e)
<1>1. TypeOK /\ pap[e] \in PapState
  BY Types DEF IInv
<1>2. CASE GetTickle(e)
  BY <1>1, <1>2, GotDoes, HeardKeeps DEF GetTickle
<1>3. CASE TickleIssued(e)
  <2> DEFINE p == [pap[e] EXCEPT !.tickle = "on"]
  <2>1. p \in PapState /\ Same(p, pap[e]) /\ p.closing = pap[e].closing
    BY <1>1 DEF PapState, Same, SameReader, SameWriter, SameHdr
  <2>2. Prime(e, p)
    BY <1>3 DEF TickleIssued
  <2> HIDE DEF p
  <2> QED
    BY <1>3, <2>1, <2>2, HeardKeeps DEF TickleIssued
<1>4. CASE FinishAck(e)
  <2> DEFINE p == [pap[e] EXCEPT !.ending = FALSE]
  <2>1. p \in PapState /\ Same(p, pap[e]) /\ p.closing = pap[e].closing
    BY <1>1 DEF PapState, Same, SameReader, SameWriter, SameHdr
  <2>2. Prime(e, p)
    BY <1>4 DEF FinishAck
  <2> HIDE DEF p
  <2> QED
    BY <1>4, <2>1, <2>2, HeardKeeps DEF FinishAck
<1> QED
  BY <1>2, <1>3, <1>4

(* Who hears that the other end closes knows that it has begun to. *)
LEMMA GetCloseKeeps ==
    ASSUME IInv, NEW e \in End, GetClose(e)
    PROVE  IInv' /\ Onward(e)
<1>1. /\ TypeOK /\ str[e] \in Queues /\ Local(e)
      /\ Peer[e] \in End /\ Peer[e] # e
  BY Types, TheEnds DEF IInv
<1>2. phase[Peer[e]] # "open"
  <2>1. HungUp(Peer[e])
    BY <1>1 DEF IInv, Local
  <2> QED
    BY <2>1 DEF HungUp, GetClose
<1>3. /\ Got(e) \in PapState /\ Same(Got(e), pap[e]) /\ Got(e).closing = pap[e].closing
  BY <1>1, GotDoes DEF GetClose
<1>4. PICK p \in PapState : Prime(e, p) /\ Same(p, pap[e])
  <2> DEFINE p == [Got(e) EXCEPT !.error = "ETIMEDOUT", !.closing = TRUE, !.ending = FALSE]
  <2>1. p \in PapState /\ Same(p, Got(e))
    BY <1>3 DEF PapState, Same, SameReader, SameWriter, SameHdr
  <2>2. Prime(e, p) \/ Prime(e, Got(e))
    BY DEF GetClose
  <2> HIDE DEF p
  <2> QED
    BY <1>3, <2>1, <2>2 DEF Same, SameReader, SameWriter, SameHdr
<1>5. /\ pap' \in [End -> PapState] /\ \A x \in End \ {e} : pap'[x] = pap[x]
      /\ Same(pap'[e], p)
      /\ pap'[e].request_count > 0 \/ pap'[e].req_timer
  BY <1>1, <1>4, PrimeDoes
<1>6. /\ tmo' \in [End -> BOOLEAN]
      /\ tmo'[e] => tmo[e] \/ pap[e].timer
      /\ \A x \in End \ {e} : tmo'[x] = tmo[x]
  BY <1>1, HearsDoes DEF GetClose
<1>7. /\ str' \in [End -> Queues] /\ \A x \in End \ {e} : str'[x] = str[x]
      /\ str'[e].wq = str[e].wq /\ str'[e].again = str[e].again
      /\ str'[e].hup = str[e].hup /\ str'[e].rq = str[e].rq /\ str'[e].ren = str[e].ren
      /\ str[e].wen => str'[e].wen
  <2> DEFINE q == [str[e] EXCEPT !.wen = TRUE]
  <2>1. /\ q \in Queues /\ q.wq = str[e].wq /\ q.again = str[e].again /\ q.hup = str[e].hup
        /\ q.rq = str[e].rq /\ q.ren = str[e].ren /\ q.wen
    BY <1>1 DEF Queues
  <2>2. str' = str \/ str' = [str EXCEPT ![e] = q]
    BY DEF GetClose
  <2> HIDE DEF q
  <2>3. CASE str' = str
    BY <1>1, <2>3, Types
  <2>4. CASE str' = [str EXCEPT ![e] = q]
    BY <1>1, <2>1, <2>4, OneQueue
  <2> QED
    BY <2>2, <2>3, <2>4
<1>8. /\ creq' \in [End -> {"none", "sent", "answered", "lost"}] /\ creq'[e] = creq[e]
      /\ \A x \in End : creq'[x] # "none" => creq[x] # "none" \/ phase'[x] # "open"
      /\ UNCHANGED <<phase, ign, dreq, out, in, told, use>>
  <2>1. /\ UNCHANGED <<phase, ign, dreq, out, in, told, use>>
        /\ \/ creq' = [creq EXCEPT ![Peer[e]] = "answered"]
           \/ creq' = [creq EXCEPT ![Peer[e]] = "lost"]
    BY DEF GetClose
  <2>2. /\ creq' \in [End -> {"none", "sent", "answered", "lost"}]
        /\ \A x \in End \ {Peer[e]} : creq'[x] = creq[x]
    BY <1>1, <2>1 DEF TypeOK
  <2> QED
    BY <1>1, <1>2, <2>1, <2>2
<1>9. TypeOK'
  BY <1>1, <1>5, <1>6, <1>7, <1>8 DEF TypeOK, Queues
<1>10. Others(e)
  BY <1>5, <1>6, <1>7, <1>8 DEF Others
<1>11. Same(pap'[e], pap[e])
  BY <1>4, <1>5 DEF Same, SameReader, SameWriter, SameHdr
<1>12. Local(e)'
  BY <1>2, <1>5, <1>6, <1>7, <1>8, <1>11, HeardLocal
     DEF Same, SameReader, SameWriter, Supplied
<1>13. OneRequest' /\ Sequenced' /\ Carries' /\ (Fin(e) => Fin(e)')
  BY <1>7, <1>8, <1>10, <1>11, FrameKeeps DEF Later, Fin, Alive, Same, SameWriter
<1> QED
  BY <1>8, <1>9, <1>10, <1>12, <1>13, Assemble

LEMMA SetHdrKeeps ==
    ASSUME IInv, NEW e \in End, SetHdr(e)
    PROVE  IInv' /\ Onward(e)
<1>1. /\ TypeOK /\ phase[e] = "open" /\ str[e].wq # <<>> /\ Local(e)
      /\ pap[e] \in PapState /\ At(e, {"SETHDR"})
  BY AtOpen DEF IInv, SetHdr
<1>2. /\ Served(e) \in Queues
      /\ Served(e).wq = Tail(str[e].wq) /\ (Served(e).wen <=> Tail(str[e].wq) # <<>>)
      /\ Served(e).rq = str[e].rq /\ Served(e).hup = str[e].hup
  BY <1>1, ServedDoes
<1> DEFINE q == [Served(e) EXCEPT !.ren = TRUE]
           k == IF pap[e].tickle = "off" THEN "asked" ELSE pap[e].tickle
           p == [pap[e] EXCEPT !.hdr = "full", !.timer = TRUE, !.tickle = k]
<1>3. /\ q \in Queues /\ q.wq = Served(e).wq /\ (q.wen <=> Served(e).wen)
      /\ q.rq = Served(e).rq /\ q.hup = Served(e).hup /\ q.ren
  BY <1>2 DEF Queues
<1>4. k \in {"off", "asked", "on"}
  BY <1>1 DEF PapState
<1>5. str' = [str EXCEPT ![e] = q] /\ pap' = [pap EXCEPT ![e] = p]
  BY DEF SetHdr
<1> HIDE DEF q, k
<1>6. /\ p \in PapState /\ SameReader(p, pap[e]) /\ SameWriter(p, pap[e])
      /\ p.hdr = "full" /\ p.closing = pap[e].closing
  BY <1>1, <1>4 DEF PapState, SameReader, SameWriter
<1> HIDE DEF p
<1>7. /\ pap' \in [End -> PapState] /\ pap'[e] = p
      /\ \A x \in End \ {e} : pap'[x] = pap[x]
  BY <1>1, <1>5, <1>6, OneSession
<1>8. /\ str' \in [End -> Queues] /\ str'[e] = q
      /\ \A x \in End \ {e} : str'[x] = str[x]
  BY <1>1, <1>3, <1>5, OneQueue
<1>9. /\ tmo' \in [End -> BOOLEAN] /\ \A x \in End \ {e} : tmo'[x] = tmo[x]
      /\ UNCHANGED <<phase, ign, dreq, creq, out, in, told, use>>
  <2>1. tmo' = [tmo EXCEPT ![e] = tmo[e] \/ ~pap[e].timer]
    BY DEF SetHdr
  <2>2. (tmo[e] \/ ~pap[e].timer) \in BOOLEAN
    OBVIOUS
  <2> QED
    BY <1>1, <2>1, <2>2 DEF TypeOK, SetHdr
<1>10. TypeOK'
  BY <1>1, <1>7, <1>8, <1>9 DEF TypeOK, Queues
<1>11. Others(e)
  BY <1>7, <1>8, <1>9 DEF Others
<1>12. /\ str'[e].wq = Tail(str[e].wq) /\ str'[e].hup = str[e].hup
       /\ pap'[e].hdr = "full" /\ pap'[e].closing = pap[e].closing
       /\ (str'[e].wen <=> str'[e].wq # <<>>) /\ str'[e].ren
  BY <1>2, <1>3, <1>6, <1>7, <1>8
<1>13. \A i \in DOMAIN str'[e].wq : /\ str'[e].wq[i].op = "READ" => e \in use.readers
                                    /\ str'[e].wq[i].op = "READ_IGNORE" => e \in use.ignorers
                                    /\ str'[e].wq[i].live => ~str[e].hup
  BY <1>1, <1>12, TailCommands
<1>14. Commands(e)' /\ HungUp(e)'
  BY <1>1, <1>9, <1>12, <1>13 DEF Commands, HungUp, Local, Waiting
<1>15. Local(e)'
  BY <1>1, <1>9, <1>12, <1>14
     DEF Local, Quiet, Supplied, Attended
<1>16. OneRequest' /\ Sequenced' /\ Carries' /\ (Fin(e) => Fin(e)')
  BY <1>2, <1>3, <1>6, <1>7, <1>8, <1>9, <1>11, FrameKeeps
     DEF Later, Fin, Alive, SameWriter
<1> QED
  BY <1>9, <1>10, <1>11, <1>15, <1>16, Assemble

-----------------------------------------------------------------------------
(* The close. *)

LEMMA PapTimeoutKeeps ==
    ASSUME IInv, NEW e \in End, PapTimeout(e)
    PROVE  IInv' /\ Onward(e)
<1>1. /\ TypeOK /\ str[e] \in Queues /\ str[e].wq \in Seq(Command) /\ Local(e)
      /\ pap[e] \in PapState
  BY Types DEF IInv, Queues
<1> DEFINE w == Abandoned(str[e].wq)
           q == [str[e] EXCEPT !.hup = TRUE, !.wq = w]
           p == [pap[e] EXCEPT !.closing = TRUE]
<1>2. str' = [str EXCEPT ![e] = q] /\ pap' = [pap EXCEPT ![e] = p]
  BY DEF PapTimeout
<1>3. /\ w \in Seq(Command) /\ DOMAIN w = DOMAIN str[e].wq
      /\ \A i \in DOMAIN w : w[i].op = str[e].wq[i].op /\ ~w[i].live
      /\ w # <<>> => str[e].wq # <<>>
      /\ w # <<>> => Head(w).op = Head(str[e].wq).op
  BY <1>1, AbandonedDoes
<1> HIDE DEF w
<1>4. /\ q \in Queues /\ q.wq = w /\ q.rq = str[e].rq /\ q.hup
      /\ q.ren = str[e].ren /\ q.wen = str[e].wen /\ q.again = str[e].again
  BY <1>1, <1>3 DEF Queues
<1>5. p \in PapState /\ Same(p, pap[e]) /\ SameSupply(p, pap[e])
  BY <1>1 DEF PapState, Same, SameReader, SameWriter, SameHdr, SameSupply
<1> HIDE DEF q, p
<1>6. /\ pap' \in [End -> PapState] /\ pap'[e] = p
      /\ \A x \in End \ {e} : pap'[x] = pap[x]
  BY <1>1, <1>2, <1>5, OneSession
<1>7. /\ str' \in [End -> Queues] /\ str'[e] = q
      /\ \A x \in End \ {e} : str'[x] = str[x]
  BY <1>1, <1>2, <1>4, OneQueue
<1>8. /\ tmo' \in [End -> BOOLEAN] /\ ~tmo'[e] /\ \A x \in End \ {e} : tmo'[x] = tmo[x]
      /\ UNCHANGED <<phase, ign, dreq, creq, out, in, told, use>>
  BY <1>1 DEF TypeOK, PapTimeout
<1>9. TypeOK'
  BY <1>1, <1>6, <1>7, <1>8 DEF TypeOK, Queues
<1>10. Others(e)
  BY <1>6, <1>7, <1>8 DEF Others
<1>11. Quiet(e)' /\ Commands(e)'
  BY <1>1, <1>3, <1>4, <1>5, <1>6, <1>7, <1>8, SameCommands
     DEF Local, Quiet, Commands, Same, SameHdr
<1>12. HungUp(e)' /\ Supplied(e)'
  BY <1>1, <1>3, <1>4, <1>5, <1>6, <1>7, <1>8
     DEF Local, HungUp, Waiting, Supplied, SameSupply, Alive
<1>13. (phase[e] = "open" => Attended(str[e], pap[e]))'
  BY <1>1, <1>3, <1>4, <1>5, <1>6, <1>7, <1>8
     DEF Local, Attended, Same, SameReader, SameWriter, SameHdr
<1>14. OneRequest' /\ Sequenced' /\ Carries' /\ (Fin(e) => Fin(e)')
  BY <1>4, <1>5, <1>6, <1>7, <1>8, <1>10, FrameKeeps
     DEF Later, Fin, Alive, Same, SameWriter
<1> QED
  BY <1>8, <1>9, <1>10, <1>11, <1>12, <1>13, <1>14, Assemble DEF Local

(* The session goes on to the next phase of its close. *)
LEMMA PhaseKeeps ==
    ASSUME IInv, NEW e \in End, NEW p \in PapState, pap' = [pap EXCEPT ![e] = p],
           Same(p, pap[e]), SameSupply(p, pap[e]),
           Alive(e), phase[e] \notin {"open", "eof"},
           NEW how \in {"finish", "ending", "closing"}, phase' = [phase EXCEPT ![e] = how],
           creq' \in {creq, [creq EXCEPT ![e] = "sent"]},
           UNCHANGED <<str, tmo, ign, dreq, out, in, told, use>>
    PROVE  IInv' /\ Onward(e)
<1>1. TypeOK /\ Local(e)
  BY DEF IInv
<1>2. /\ pap' \in [End -> PapState] /\ pap'[e] = p
      /\ \A x \in End \ {e} : pap'[x] = pap[x]
  BY <1>1, OneSession
<1>3. /\ phase' \in [End -> {"open", "eof", "tickle", "finish", "ending", "closing",
                             "closed", "dead"}]
      /\ phase'[e] = how /\ \A x \in End \ {e} : phase'[x] = phase[x]
  BY <1>1 DEF TypeOK
<1>4. /\ creq' \in [End -> {"none", "sent", "answered", "lost"}]
      /\ \A x \in End : creq'[x] # "none" => creq[x] # "none" \/ phase'[x] # "open"
  BY <1>1, <1>3 DEF TypeOK
<1>5. TypeOK'
  BY <1>1, <1>2, <1>3, <1>4 DEF TypeOK
<1>6. Others(e)
  BY <1>2, <1>3 DEF Others
<1>7. Local(e)'
  BY <1>1, <1>2, <1>3
     DEF Local, Quiet, Commands, HungUp, Waiting, Supplied, Alive, Same, SameHdr, SameSupply
<1>8. OneRequest' /\ Sequenced' /\ Carries' /\ (Fin(e) => Fin(e)')
  BY <1>2, <1>3, <1>6, FrameKeeps DEF Later, Fin, Alive, Same
<1> QED
  BY <1>3, <1>4, <1>5, <1>6, <1>7, <1>8, Assemble

LEMMA CloseFinishKeeps ==
    ASSUME IInv, NEW e \in End, CloseFinish(e)
    PROVE  IInv' /\ Onward(e)
<1> DEFINE p == [pap[e] EXCEPT !.ending = TRUE]
<1>1. pap[e] \in PapState
  BY Types DEF IInv
<1>2. p \in PapState /\ Same(p, pap[e]) /\ SameSupply(p, pap[e])
  BY <1>1 DEF PapState, Same, SameReader, SameWriter, SameHdr, SameSupply
<1>3. pap' = [pap EXCEPT ![e] = p]
  BY DEF CloseFinish
<1> HIDE DEF p
<1> QED
  BY <1>2, <1>3, PhaseKeeps DEF CloseFinish, Alive

(* With the write queue flushed there is no more to keep in order, and the      *)
(* requests that wait are left to ATP.                                          *)
LEMMA CloseKeeps ==
    ASSUME IInv, NEW e \in End, Close(e)
    PROVE  IInv' /\ Onward(e)
<1>1. /\ TypeOK /\ str[e] \in Queues /\ Local(e) /\ pap[e] \in PapState
      /\ phase[e] = "open"
  BY Types DEF IInv, Close
<1> DEFINE q == [str[e] EXCEPT !.wq = <<>>, !.rq = <<>>]
           p == [pap[e] EXCEPT !.timer = FALSE]
<1>2. PICK w \in End \ {e} : w = Peer[e] /\ Peer[w] = e
  BY TheEnds
<1>3. str' = [str EXCEPT ![e] = q] /\ pap' = [pap EXCEPT ![e] = p]
  BY DEF Close
<1>4. /\ q \in Queues /\ q.wq = <<>> /\ q.rq = <<>> /\ q.hup = str[e].hup
      /\ q.ren = str[e].ren
  <2>1. <<>> \in Seq(Command) /\ <<>> \in Seq(1 .. MaxSeq)
    OBVIOUS
  <2> QED
    BY <1>1, <2>1 DEF Queues
<1>5. /\ p \in PapState /\ SameReader(p, pap[e]) /\ SameWriter(p, pap[e]) /\ ~p.timer
      /\ SameSupply(p, pap[e])
  BY <1>1 DEF PapState, SameReader, SameWriter, SameSupply
<1> HIDE DEF q, p
<1>6. /\ pap' \in [End -> PapState] /\ pap'[e] = p
      /\ \A x \in End \ {e} : pap'[x] = pap[x]
  BY <1>1, <1>3, <1>5, OneSession
<1>7. /\ str' \in [End -> Queues] /\ str'[e] = q
      /\ \A x \in End \ {e} : str'[x] = str[x]
  BY <1>1, <1>3, <1>4, OneQueue
<1>8. /\ tmo' \in [End -> BOOLEAN] /\ ~tmo'[e] /\ \A x \in End \ {e} : tmo'[x] = tmo[x]
      /\ UNCHANGED <<ign, dreq, creq, out, in, told, use>>
  BY <1>1 DEF TypeOK, Close
<1>9. /\ phase' \in [End -> {"open", "eof", "tickle", "finish", "ending", "closing",
                             "closed", "dead"}]
      /\ phase'[e] \in {"eof", "tickle"}
      /\ phase'[e] = "eof" => pap[e].request # 0
      /\ \A x \in End \ {e} : phase'[x] = phase[x]
  BY <1>1 DEF TypeOK, Close
<1>10. TypeOK'
  BY <1>1, <1>6, <1>7, <1>8, <1>9 DEF TypeOK, Queues
<1>11. Others(e)
  BY <1>6, <1>7, <1>8, <1>9 DEF Others
<1>12. Local(e)'
  BY <1>1, <1>4, <1>5, <1>6, <1>7, <1>8, <1>9
     DEF Local, Quiet, Commands, HungUp, Waiting, Supplied, Alive, SameSupply
<1>13. /\ Alive(e) /\ Fin(e)' /\ (Alive(w)' <=> Alive(w)) /\ Later(w)
       /\ SameReader(pap'[e], pap[e]) /\ SameWriter(pap'[e], pap[e])
  BY <1>1, <1>5, <1>6, <1>9, <1>11, LaterOther DEF Fin, Alive, Others
<1>14. (Alive(e)' => Asking(e)') /\ (Alive(w)' => Asking(w)')
  BY <1>8, <1>11, <1>13, AskingFrame DEF SameReader, Others
<1>15. Alive(w)' => Numbered(e)'
  BY <1>2, <1>6, <1>7, <1>8, <1>13, NumberedFrame DEF SameReader
<1>16. Alive(e)' => Numbered(w)'
  <2>1. Numbered(w)
    BY <1>2, <1>13 DEF IInv, Sequenced
  <2> QED
    BY <1>1, <1>2, <1>4, <1>6, <1>7, <1>8, <1>9, <1>13, <2>1 DEF Numbered, SameWriter
<1>17. /\ e \in use.readers /\ Alive(e)' => Carried(e)'
       /\ w \in use.readers /\ Alive(w)' => Carried(w)'
  <2>1. (Fin(w) => Fin(w)') /\ (Fin(e) => Fin(e)')
    BY <1>6, <1>9, <1>13 DEF Fin
  <2>2. (e \in use.readers => Carried(e)) /\ (w \in use.readers /\ Alive(w) => Carried(w))
    BY <1>2, <1>13 DEF IInv, Carries
  <2> QED
    BY <1>2, <1>6, <1>8, <1>13, <2>1, <2>2 DEF Carried, SameReader
<1> QED
  BY <1>2, <1>8, <1>9, <1>10, <1>11, <1>12, <1>13, <1>14, <1>15, <1>16, <1>17, Assemble, BothEnds

(* A session that is gone says nothing of the other end. *)
LEMMA EndsKeeps ==
    ASSUME IInv, NEW e \in End, NEW how \in {"closed", "dead"}, Ends(e, how),
           UNCHANGED <<dreq, creq, out, in, told, use>>
    PROVE  IInv' /\ Onward(e)
<1>1. TypeOK /\ pap[e] \in PapState
  BY Types DEF IInv
<1>2. PICK w \in End \ {e} : w = Peer[e] /\ Peer[w] = e
  BY TheEnds
<1>3. Opened(pap[e].sent) \in PapState /\ ~Opened(pap[e].sent).timer
  <2>1. 1 \in 1 .. MaxSeq /\ NRequests \in 0 .. NRequests /\ 0 \in 0 .. Segs
    BY ConstantAssumption
  <2>2. <<>> \in Seq(Item) /\ pap[e].sent \in BOOLEAN
    BY <1>1 DEF PapState
  <2> QED
    BY <2>1, <2>2 DEF Opened, PapState
<1>4. NoQueues \in Queues /\ NoQueues.wq = <<>> /\ ~NoQueues.hup
  <2>1. <<>> \in Seq(Command) /\ <<>> \in Seq(1 .. MaxSeq)
    OBVIOUS
  <2> QED
    BY <2>1 DEF NoQueues, Queues
<1>5. /\ pap' \in [End -> PapState] /\ ~pap'[e].timer
      /\ \A x \in End \ {e} : pap'[x] = pap[x]
  BY <1>1, <1>3, OneSession DEF Ends
<1>6. /\ str' \in [End -> Queues] /\ str'[e] = NoQueues
      /\ \A x \in End \ {e} : str'[x] = str[x]
  BY <1>1, <1>4, OneQueue DEF Ends
<1>7. /\ phase' \in [End -> {"open", "eof", "tickle", "finish", "ending", "closing",
                             "closed", "dead"}]
      /\ phase'[e] = how /\ \A x \in End \ {e} : phase'[x] = phase[x]
      /\ tmo' \in [End -> BOOLEAN] /\ ~tmo'[e] /\ \A x \in End \ {e} : tmo'[x] = tmo[x]
      /\ ign' \in [End -> BOOLEAN] /\ \A x \in End \ {e} : ign'[x] = ign[x]
  BY <1>1 DEF TypeOK, Ends
<1>8. TypeOK'
  BY <1>1, <1>5, <1>6, <1>7 DEF TypeOK, Queues
<1>9. Others(e)
  BY <1>5, <1>6, <1>7 DEF Others
<1>10. ~Alive(e)' /\ Fin(e)' /\ Later(w)
  BY <1>7, <1>9, LaterOther DEF Alive, Fin
<1>11. Local(e)'
  BY <1>4, <1>5, <1>6, <1>7, <1>10
     DEF Local, Quiet, Commands, HungUp, Waiting, Supplied
<1>12. Alive(w)' => Asking(w)'
  BY <1>9, <1>10, AskingFrame DEF Others, Later
<1>13. Alive(w)' => Numbered(e)'
  BY <1>2, <1>9, <1>10, NumberedFrame DEF Others
<1>14. w \in use.readers /\ Alive(w)' => Carried(w)'
  BY <1>2, <1>9, <1>10, CarriedFrame DEF Others, Later
<1> QED
  BY <1>2, <1>7, <1>8, <1>9, <1>10, <1>11, <1>12, <1>13, <1>14, Assemble, BothEnds

LEMMA LastStepsKeep ==
    ASSUME IInv, NEW e \in End, Crash(e) \/ CloseTickle(e) \/ CloseConn(e) \/ Closed(e)
    PROVE  IInv' /\ Onward(e)
<1>1. pap[e] \in PapState
  BY Types DEF IInv
<1>2. CASE Crash(e)
  BY <1>2, EndsKeeps DEF Crash
<1>3. CASE Closed(e)
  BY <1>3, EndsKeeps DEF Closed
<1>4. CASE CloseTickle(e) /\ pap[e].hdr # "none" /\ ~pap[e].closing
  <2> DEFINE k == IF pap[e].tickle = "on" THEN "off" ELSE pap[e].tickle
             p == [pap[e] EXCEPT !.tickle = k]
  <2>1. k \in {"off", "asked", "on"}
    BY <1>1 DEF PapState
  <2>2. pap' = [pap EXCEPT ![e] = p]
    BY <1>4 DEF CloseTickle
  <2> HIDE DEF k
  <2>3. p \in PapState /\ Same(p, pap[e]) /\ SameSupply(p, pap[e])
    BY <1>1, <2>1 DEF PapState, Same, SameReader, SameWriter, SameHdr, SameSupply
  <2> HIDE DEF p
  <2> QED
    BY <1>4, <2>2, <2>3, PhaseKeeps DEF CloseTickle, Alive
<1>5. CASE CloseTickle(e) /\ (pap[e].hdr = "none" \/ pap[e].closing)
  BY <1>5, EndsKeeps DEF CloseTickle
<1>6. CASE CloseConn(e) /\ ~pap[e].closing /\ pap[e].hdr = "full"
  <2> DEFINE p == [pap[e] EXCEPT !.closing = TRUE]
  <2>1. p \in PapState /\ Same(p, pap[e]) /\ SameSupply(p, pap[e])
    BY <1>1 DEF PapState, Same, SameReader, SameWriter, SameHdr, SameSupply
  <2>2. pap' = [pap EXCEPT ![e] = p]
    BY <1>6 DEF CloseConn
  <2> HIDE DEF p
  <2> QED
    BY <1>6, <2>1, <2>2, PhaseKeeps DEF CloseConn, Alive
<1>7. CASE CloseConn(e) /\ (pap[e].closing \/ pap[e].hdr # "full")
  BY <1>7, EndsKeeps DEF CloseConn
<1> QED
  BY <1>2, <1>3, <1>4, <1>5, <1>6, <1>7

-----------------------------------------------------------------------------
(* The response. *)

(* A segment goes into the response to w, which is the next item of e's stream  *)
(* or its end.                                                                  *)
LEMMA RespondDoes ==
    ASSUME IInv, NEW e \in End, NEW w \in End \ {e}, w = Peer[e], Peer[w] = e,
           NEW i \in Item, NEW last \in BOOLEAN, Respond(e, i, last),
           dreq[w].st = "taken", use' = use, in' = in, pap'[w] = pap[w],
           Alive(w)' => Alive(w), Fin(e) => Fin(e)',
           \/ i = Eof /\ out'[e] = out[e] /\ last /\ Fin(e)'
           \/ i = [d |-> out[e] + 1, eof |-> FALSE] /\ out'[e] = out[e] + 1
    PROVE  /\ dreq' \in [End -> Request] /\ dreq'[e] = dreq[e]
           /\ dreq'[w].st = IF last THEN "done" ELSE "taken"
           /\ dreq'[w].seq = dreq[w].seq /\ (dreq'[w].again <=> dreq[w].again)
           /\ w \in use.readers /\ Alive(w)' => Carried(w)'
<1>1. TypeOK /\ dreq[w] \in Request /\ pap[w] \in PapState
  BY Types DEF IInv
<1>2. dreq[w].segs \in Seq(Item) /\ in[w] \in Nat /\ out[e] \in Nat
  BY <1>1 DEF TypeOK, Request
<1> DEFINE s == Append(dreq[w].segs, i)
           t == IF last THEN "done" ELSE "taken"
           d == [dreq[w] EXCEPT !.segs = s, !.st = t]
<1>3. s \in Seq(Item)
  BY <1>2
<1>4. t \in {"taken", "done"} /\ (last <=> t = "done")
  OBVIOUS
<1>5. dreq' = [dreq EXCEPT ![w] = d]
  BY DEF Respond
<1>6. t = IF last THEN "done" ELSE "taken"
  OBVIOUS
<1>7. w \in use.readers /\ Alive(w) => Carried(w)
  BY DEF IInv, Carries
<1>8. w \in use.readers /\ Alive(w) =>
          /\ Continues(s, in[w]) /\ (Ended(s) <=> i = Eof)
          /\ out'[e] = Upto(s, in[w])
  <2> SUFFICES ASSUME w \in use.readers, Alive(w)
               PROVE  /\ Continues(s, in[w]) /\ (Ended(s) <=> i = Eof)
                      /\ out'[e] = Upto(s, in[w])
    OBVIOUS
  <2>1. /\ Continues(dreq[w].segs, in[w]) /\ ~Ended(dreq[w].segs)
        /\ out[e] = Upto(dreq[w].segs, in[w])
    BY <1>7 DEF Carried
  <2>2. i = [d |-> out[e] + 1, eof |-> FALSE] => i # Eof
    BY <1>2, EofIsNone
  <2>3. i = Eof \/ i = [d |-> Upto(dreq[w].segs, in[w]) + 1, eof |-> FALSE]
    BY <2>1
  <2>4. /\ Continues(s, in[w]) /\ (Ended(s) <=> i = Eof)
        /\ Upto(s, in[w]) = IF i = Eof THEN Upto(dreq[w].segs, in[w])
                                       ELSE Upto(dreq[w].segs, in[w]) + 1
    BY <1>2, <2>1, <2>3, StreamAppend
  <2> QED
    BY <2>1, <2>2, <2>4
<1> HIDE DEF s, t
<1>9. /\ d \in Request /\ d.segs = s /\ d.st = t /\ d.seq = dreq[w].seq
      /\ (d.again <=> dreq[w].again)
  BY <1>1, <1>3, <1>4 DEF Request
<1> HIDE DEF d
<1>10. /\ dreq' \in [End -> Request] /\ dreq'[w] = d /\ dreq'[e] = dreq[e]
  BY <1>1, <1>5, <1>9 DEF TypeOK
<1>11. w \in use.readers /\ Alive(w)' => Carried(w)'
  <2> SUFFICES ASSUME w \in use.readers, Alive(w) PROVE Carried(w)'
    OBVIOUS
  <2>1. Carried(w)
    BY <1>7
  <2>2. i = Eof => t = "done" /\ Fin(e)'
    <3>1. i = [d |-> out[e] + 1, eof |-> FALSE] => i # Eof
      BY <1>2, EofIsNone
    <3> QED
      BY <1>4, <3>1
  <2>3. pap[w].rcv = <<>> /\ ~dreq[w].again /\ ~pap[w].eof
    BY <2>1 DEF Carried
  <2> QED
    BY <1>4, <1>8, <1>9, <1>10, <2>1, <2>2, <2>3 DEF Carried
<1> QED
  BY <1>6, <1>9, <1>10, <1>11

LEMMA CloseEofKeeps ==
    ASSUME IInv, NEW e \in End, CloseEof(e)
    PROVE  IInv' /\ Onward(e)
<1>1. TypeOK /\ Local(e) /\ phase[e] = "eof" /\ Alive(e)
  BY DEF IInv, CloseEof, Alive
<1>2. PICK w \in End \ {e} : w = Peer[e] /\ Peer[w] = e
  BY TheEnds
<1>3. /\ phase' \in [End -> {"open", "eof", "tickle", "finish", "ending", "closing",
                             "closed", "dead"}]
      /\ phase'[e] = "tickle" /\ \A x \in End \ {e} : phase'[x] = phase[x]
      /\ UNCHANGED <<pap, str, tmo, ign, creq, out, in, told, use>>
  BY <1>1 DEF TypeOK, CloseEof
<1>4. Numbered(w) /\ dreq[w].st = "taken"
  BY <1>1, <1>2 DEF IInv, Sequenced, Numbered
<1>5. Others(e) /\ Alive(e)' /\ Fin(e)' /\ (Alive(w)' <=> Alive(w)) /\ Later(w)
  BY <1>3, LaterOther DEF Others, Alive, Fin
<1>6. /\ dreq' \in [End -> Request] /\ dreq'[e] = dreq[e]
      /\ dreq'[w].st = "done" /\ dreq'[w].seq = dreq[w].seq
      /\ dreq'[w].again <=> dreq[w].again
      /\ w \in use.readers /\ Alive(w)' => Carried(w)'
  <2>1. Respond(e, Eof, TRUE) /\ TRUE \in BOOLEAN /\ Eof \in Item
    BY EofIsNone DEF CloseEof
  <2> QED
    BY <1>2, <1>3, <1>4, <1>5, <2>1, RespondDoes
<1>7. TypeOK'
  BY <1>1, <1>3, <1>6 DEF TypeOK
<1>8. Local(e)'
  BY <1>1, <1>3 DEF Local, Quiet, Commands, HungUp, Waiting, Supplied, Alive
<1>9. (Alive(e)' => Asking(e)') /\ (Alive(w)' => Asking(w)')
  BY <1>1, <1>3, <1>4, <1>5, <1>6, AskingFrame
<1>10. Alive(w)' => Numbered(e)'
  BY <1>1, <1>2, <1>3, <1>5, <1>6, NumberedFrame
<1>11. Alive(e)' => Numbered(w)'
  BY <1>1, <1>2, <1>3, <1>4, <1>5, <1>6 DEF Numbered
<1>12. e \in use.readers /\ Alive(e)' => Carried(e)'
  BY <1>1, <1>2, <1>3, <1>5, <1>6, CarriedFrame DEF Later
<1> QED
  BY <1>2, <1>3, <1>5, <1>6, <1>7, <1>8, <1>9, <1>10, <1>11, <1>12, Assemble, BothEnds

LEMMA WriteKeeps ==
    ASSUME IInv, NEW e \in End, Write(e)
    PROVE  IInv' /\ Onward(e)
<1>1. /\ phase[e] = "open" /\ Alive(e) /\ str[e].wq # <<>> /\ pap[e] \in PapState
      /\ TypeOK /\ At(e, Writing) /\ ~RefusesWrite(pap[e]) /\ pap[e].request # 0
  BY AtOpen DEF IInv, Write
<1>2. PICK w \in End \ {e} : w = Peer[e] /\ Peer[w] = e
  BY TheEnds
<1> DEFINE op   == Head(str[e].wq).op
           left == IF op = "WRITE" THEN pap[e].request - 1 ELSE 0
           err  == IF op = "WRITE_EOF" THEN "ESHUTDOWN" ELSE pap[e].error
           eof  == op = "WRITE_EOF"
           last == left = 0
           i    == IF op = "WRITE_EOF" THEN Eof ELSE [d |-> out[e] + 1, eof |-> FALSE]
           p    == [pap[e] EXCEPT !.request = left, !.sent = TRUE, !.error = err,
                                  !.eof_sent = eof]
<1>3. /\ left \in 0 .. Segs /\ err \in {"none", "ETIMEDOUT", "ESHUTDOWN"}
      /\ eof \in BOOLEAN /\ last \in BOOLEAN /\ (last <=> left = 0) /\ (eof => last)
  BY <1>1, ConstantAssumption DEF PapState
<1>4. /\ str' = [str EXCEPT ![e] = Served(e)] /\ pap' = [pap EXCEPT ![e] = p]
      /\ Respond(e, i, last)
      /\ UNCHANGED <<phase, tmo, ign, creq, in, told, use>>
      /\ out' = [out EXCEPT ![e] = IF eof THEN out[e] ELSE out[e] + 1]
  BY DEF Write
<1>5. /\ i \in Item
      /\ (eof /\ i = Eof) \/ (~eof /\ i = [d |-> out[e] + 1, eof |-> FALSE])
  BY <1>1, EofIsNone DEF TypeOK
<1> HIDE DEF op, left, err, eof, last, i
<1>6. /\ p \in PapState /\ SameReader(p, pap[e]) /\ SameHdr(p, pap[e])
      /\ SameSupply(p, pap[e]) /\ p.closing = pap[e].closing /\ p.request = left
      /\ p.rcv_count = pap[e].rcv_count /\ p.eof_sent = eof
  BY <1>1, <1>3 DEF PapState, SameReader, SameHdr, SameSupply
<1> HIDE DEF p
<1>7. /\ pap' \in [End -> PapState] /\ pap'[e] = p
      /\ \A x \in End \ {e} : pap'[x] = pap[x]
  BY <1>1, <1>4, <1>6, OneSession
<1>8. /\ str' \in [End -> Queues] /\ str'[e] = Served(e) /\ Served(e).rq = str[e].rq
      /\ \A x \in End \ {e} : str'[x] = str[x]
  BY <1>1, <1>4, OneQueue, ServedDoes
<1>9. /\ out' \in [End -> Nat] /\ out'[e] = IF eof THEN out[e] ELSE out[e] + 1
      /\ \A x \in End \ {e} : out'[x] = out[x]
  BY <1>1, <1>4 DEF TypeOK
<1>10. /\ Others(e) /\ Alive(e)' /\ (Alive(w)' <=> Alive(w)) /\ Later(w)
       /\ Fin(e) => Fin(e)'
       /\ eof => Fin(e)'
  BY <1>1, <1>4, <1>6, <1>7, <1>8, LaterOther DEF Others, Alive, Fin, RefusesWrite
<1>11. Numbered(w) /\ dreq[w].st = "taken"
  BY <1>1, <1>2 DEF IInv, Sequenced, Numbered
<1>12. /\ dreq' \in [End -> Request] /\ dreq'[e] = dreq[e]
       /\ dreq'[w].st = IF last THEN "done" ELSE "taken"
       /\ dreq'[w].seq = dreq[w].seq /\ (dreq'[w].again <=> dreq[w].again)
       /\ w \in use.readers /\ Alive(w)' => Carried(w)'
  BY <1>2, <1>3, <1>4, <1>5, <1>7, <1>9, <1>10, <1>11, RespondDoes
<1>13. TypeOK'
  BY <1>1, <1>4, <1>7, <1>8, <1>9, <1>12 DEF TypeOK, Queues
<1>14. Local(e)'
  <2>1. "SETHDR" \notin Writing
    BY DEF Writing
  <2> QED
    BY <1>1, <1>4, <1>6, <1>7, <1>8, <2>1, AnsweredLocal
<1>15. (Alive(e)' => Asking(e)') /\ (Alive(w)' => Asking(w)')
  BY <1>1, <1>4, <1>6, <1>7, <1>10, <1>11, <1>12, AskingFrame DEF SameReader
<1>16. Alive(w)' => Numbered(e)'
  BY <1>1, <1>2, <1>6, <1>7, <1>8, <1>10, <1>12, NumberedFrame DEF SameReader
<1>17. Alive(e)' => Numbered(w)'
  BY <1>1, <1>2, <1>3, <1>4, <1>6, <1>7, <1>8, <1>10, <1>11, <1>12 DEF Numbered
<1>18. e \in use.readers /\ Alive(e)' => Carried(e)'
  BY <1>1, <1>2, <1>4, <1>6, <1>7, <1>9, <1>10, <1>12, CarriedFrame DEF SameReader, Later
<1> QED
  BY <1>2, <1>4, <1>10, <1>12, <1>13, <1>14, <1>15, <1>16, <1>17, <1>18, Assemble, BothEnds

(* A response that ATP forgot is asked for again, with its old number. *)
LEMMA RcbExpireKeeps ==
    ASSUME IInv, NEW e \in End, RcbExpire(e)
    PROVE  IInv' /\ Onward(e)
<1>1. TypeOK /\ dreq[e] \in Request /\ dreq[e].st = "done"
  BY Types DEF IInv, RcbExpire
<1>2. PICK w \in End \ {e} : w = Peer[e] /\ Peer[w] = e
  BY TheEnds
<1> DEFINE t == IF Alive(e) THEN "sent" ELSE "none"
           d == [dreq[e] EXCEPT !.st = t, !.segs = <<>>, !.again = TRUE]
<1>3. /\ dreq' = [dreq EXCEPT ![e] = d] /\ t \in {"sent", "none"}
      /\ Alive(e) <=> t = "sent"
      /\ UNCHANGED <<pap, str, phase, tmo, ign, creq, out, in, told, use>>
  BY DEF RcbExpire
<1> HIDE DEF t
<1>4. /\ d \in Request /\ d.st = t /\ d.segs = <<>> /\ d.again /\ d.seq = dreq[e].seq
  <2>1. <<>> \in Seq(Item)
    OBVIOUS
  <2> QED
    BY <1>1, <1>3, <2>1 DEF Request
<1> HIDE DEF d
<1>5. dreq' \in [End -> Request] /\ dreq'[e] = d /\ dreq'[w] = dreq[w]
  BY <1>1, <1>3, <1>4 DEF TypeOK
<1>6. TypeOK'
  BY <1>1, <1>3, <1>5 DEF TypeOK
<1>7. Others(e) /\ Later(e) /\ Later(w) /\ (Alive(e)' <=> Alive(e))
  BY <1>3, LaterOther DEF Others, Alive, Later, Fin
<1>8. Local(e)'
  BY <1>3 DEF IInv, Local, Quiet, Commands, HungUp, Waiting, Supplied, Alive
<1>9. Alive(e)' => Asking(e)'
  BY <1>1, <1>3, <1>4, <1>5, <1>7 DEF IInv, OneRequest, Asking
<1>10. Alive(w)' => Asking(w)'
  BY <1>3, <1>5, <1>7, AskingFrame DEF Later
<1>11. Alive(w)' => Numbered(e)'
  BY <1>1, <1>2, <1>3, <1>4, <1>5, <1>7 DEF IInv, Sequenced, Numbered, Later
<1>12. Alive(e)' => Numbered(w)'
  BY <1>2, <1>3, <1>5, <1>7, NumberedFrame DEF Later
<1>13. e \in use.readers /\ Alive(e)' => Carried(e)'
  <2> SUFFICES ASSUME e \in use.readers, Alive(e) PROVE Carried(e)'
    BY <1>3, <1>7
  <2>1. Carried(e) /\ in[e] \in Nat
    BY <1>1 DEF IInv, Carries, TypeOK
  <2>2. Fin(w)' <=> Fin(w)
    BY <1>3 DEF Fin
  <2> QED
    BY <1>1, <1>2, <1>3, <1>4, <1>5, <2>1, <2>2, EmptyStream DEF Carried
<1>14. w \in use.readers /\ Alive(w)' => Carried(w)'
  BY <1>2, <1>3, <1>5, <1>7, CarriedFrame DEF Later, Fin
<1> QED
  BY <1>2, <1>3, <1>6, <1>7, <1>8, <1>9, <1>10, <1>11, <1>12, <1>13, <1>14,
     Assemble, BothEnds DEF Later

-----------------------------------------------------------------------------
(* The request. *)

LEMMA GetDataKeeps ==
    ASSUME IInv, NEW e \in End, GetData(e)
    PROVE  IInv' /\ Onward(e)
<1>1. /\ TypeOK /\ str[e] \in Queues /\ pap[e] \in PapState /\ Alive(e)
  BY Types DEF IInv, GetData, Gets
<1>2. PICK w \in End \ {e} : w = Peer[e] /\ Peer[w] = e
  BY TheEnds
<1>3. /\ dreq[w].st = "sent" /\ dreq[w] \in Request
      /\ UNCHANGED <<phase, ign, creq, out, in, told, use>>
      /\ Numbered(w)
      /\ str[e].rq = <<>> /\ (phase[e] = "open" => pap[e].request = 0)
  BY <1>1, <1>2, Types DEF GetData, IInv, Sequenced, Numbered
<1>4. /\ pap' \in [End -> PapState] /\ \A x \in End \ {e} : pap'[x] = pap[x]
      /\ Same(pap'[e], pap[e]) /\ pap'[e].closing = pap[e].closing
      /\ pap'[e].request_count > 0 \/ pap'[e].req_timer
  <2>1. /\ Got(e) \in PapState /\ Same(Got(e), pap[e])
        /\ Got(e).closing = pap[e].closing /\ Prime(e, Got(e))
    BY <1>1, GotDoes DEF GetData
  <2>2. /\ pap' \in [End -> PapState] /\ \A x \in End \ {e} : pap'[x] = pap[x]
        /\ Same(pap'[e], Got(e)) /\ pap'[e].closing = Got(e).closing
        /\ pap'[e].request_count > 0 \/ pap'[e].req_timer
    BY <1>1, <2>1, PrimeDoes
  <2> QED
    BY <2>1, <2>2 DEF Same, SameReader, SameWriter, SameHdr
<1>5. /\ tmo' \in [End -> BOOLEAN]
      /\ tmo'[e] => tmo[e] \/ pap[e].timer
      /\ \A x \in End \ {e} : tmo'[x] = tmo[x]
  BY <1>1, HearsDoes DEF GetData
<1>6. PICK t \in {"none", "sent", "taken", "lost"}, q \in Queues :
          /\ dreq' = [dreq EXCEPT ![w].st = t] /\ str' = [str EXCEPT ![e] = q]
          /\ q.wq = str[e].wq /\ q.wen = str[e].wen /\ q.again = str[e].again
          /\ q.hup = str[e].hup
          /\ \/ q.rq = <<>> /\ q.ren = str[e].ren /\ t = "sent"
             \/ q.rq = <<>> /\ q.ren = str[e].ren /\ t = "none" /\ ~Alive(w)
             \/ /\ q.rq = <<>> /\ q.ren = str[e].ren /\ t = "lost"
                /\ phase[e] = "open" => dreq[w].seq # pap[e].rcv_count
             \/ /\ q.rq = <<dreq[w].seq>> /\ q.ren /\ t = "taken"
                /\ dreq[w].seq = pap[e].rcv_count /\ pap[e].request = 0
  <2> DEFINE busy == pap[e].ending \/ pap[e].closing
  <2>1. str = [str EXCEPT ![e] = str[e]]
    BY <1>1 DEF TypeOK
  <2>2. CASE busy
    <3> DEFINE t == IF Alive(w) THEN dreq[w].st ELSE "none"
    <3>1. dreq' = [dreq EXCEPT ![w].st = t] /\ str' = str
      BY <1>2, <2>2 DEF GetData
    <3>2. t \in {"none", "sent"} /\ (t = "none" => ~Alive(w))
      BY <1>3
    <3> HIDE DEF t
    <3> QED
      BY <1>1, <1>3, <2>1, <3>1, <3>2
  <2>3. CASE ~busy /\ IsNext(pap[e], dreq[w])
    <3>1. dreq[w].seq \in 1 .. MaxSeq /\ dreq[w].seq = pap[e].rcv_count /\ pap[e].request = 0
      BY <1>3, <2>3 DEF IsNext, Request
    <3> DEFINE r == <<dreq[w].seq>>
               q == [str[e] EXCEPT !.rq = r, !.ren = TRUE]
    <3>2. /\ dreq' = [dreq EXCEPT ![w].st = "taken"]
          /\ str' = [str EXCEPT ![e].rq = Append(str[e].rq, dreq[w].seq), ![e].ren = TRUE]
      BY <1>2, <2>3 DEF GetData
    <3>3. r = Append(str[e].rq, dreq[w].seq) /\ r \in Seq(1 .. MaxSeq)
      BY <1>3, <3>1
    <3> HIDE DEF r
    <3>4. str' = [str EXCEPT ![e] = q]
      BY <3>2, <3>3
    <3>5. /\ q \in Queues /\ q.wq = str[e].wq /\ q.wen = str[e].wen /\ q.again = str[e].again
          /\ q.hup = str[e].hup /\ q.rq = r /\ q.ren
      BY <1>1, <3>3 DEF Queues
    <3> HIDE DEF q
    <3> QED
      BY <3>1, <3>2, <3>4, <3>5 DEF r
  <2>4. CASE ~busy /\ ~IsNext(pap[e], dreq[w])
    <3>1. dreq' = [dreq EXCEPT ![w].st = "lost"] /\ str' = str
      BY <1>2, <2>4 DEF GetData
    <3>2. phase[e] = "open" => dreq[w].seq # pap[e].rcv_count
      BY <1>3, <2>4 DEF IsNext
    <3> QED
      BY <1>1, <1>3, <2>1, <3>1, <3>2
  <2> QED
    BY <2>2, <2>3, <2>4
<1>7. /\ dreq' \in [End -> Request] /\ dreq'[e] = dreq[e]
      /\ dreq'[w].st = t /\ dreq'[w].seq = dreq[w].seq /\ dreq'[w].segs = dreq[w].segs
      /\ dreq'[w].again <=> dreq[w].again
  <2> DEFINE d == [dreq[w] EXCEPT !.st = t]
  <2>1. /\ d \in Request /\ d.st = t /\ d.seq = dreq[w].seq /\ d.segs = dreq[w].segs
        /\ d.again <=> dreq[w].again
    BY <1>3 DEF Request
  <2>2. dreq' = [dreq EXCEPT ![w] = d]
    BY <1>6
  <2> HIDE DEF d
  <2> QED
    BY <1>1, <2>1, <2>2 DEF TypeOK
<1>8. str' \in [End -> Queues] /\ str'[e] = q /\ \A x \in End \ {e} : str'[x] = str[x]
  BY <1>1, <1>6, OneQueue
<1>9. TypeOK'
  BY <1>1, <1>3, <1>4, <1>5, <1>7, <1>8 DEF TypeOK, Queues
<1>10. Others(e) /\ Later(e) /\ Later(w) /\ (Alive(w)' <=> Alive(w))
  BY <1>3, <1>4, <1>5, <1>8, LaterOther
     DEF Others, Alive, Later, Fin, Same, SameWriter
<1>11. Local(e)'
  <2>1. Supplied(e)'
    BY <1>4 DEF Supplied
  <2>2. str'[e].ren \/ (str'[e].ren = str[e].ren /\ str'[e].rq = str[e].rq)
    BY <1>3, <1>6, <1>8
  <2> QED
    BY <1>3, <1>4, <1>5, <1>6, <1>8, <2>1, <2>2, HeardLocal
       DEF Same, SameReader, SameWriter
<1>12. Alive(e)' => Asking(e)'
  BY <1>3, <1>4, <1>7, <1>10, AskingFrame DEF Same, SameReader, Later
<1>13. Alive(w)' => Asking(w)'
  <2>1. t # "none" \/ ~Alive(w)
    BY <1>6
  <2> QED
    BY <1>3, <1>4, <1>7, <1>10, <2>1, AskingFrame
<1>14. Alive(w)' => Numbered(e)'
  BY <1>2, <1>4, <1>7, <1>8, <1>10, NumberedFrame DEF Same, SameReader, Later
<1>15. Alive(e)' => Numbered(w)'
  <2>1. NextRcv(dreq[w].seq) # dreq[w].seq
    BY <1>3, NextCount DEF Request
  <2>2. /\ pap'[e].request = pap[e].request /\ pap'[e].rcv_count = pap[e].rcv_count
        /\ pap'[w] = pap[w] /\ str'[e].rq = q.rq /\ phase' = phase
        /\ t = "none" => ~Alive(w)
        /\ dreq[w].again => dreq[w].seq # pap[e].rcv_count
    BY <1>2, <1>3, <1>4, <1>6, <1>8, <2>1 DEF Same, SameWriter, Numbered
  <2>3. t # "none" => dreq[w].st # "none"
    BY <1>3
  <2> QED
    BY <1>2, <1>3, <1>6, <1>7, <1>10, <2>1, <2>2 DEF Numbered
<1>16. e \in use.readers /\ Alive(e)' => Carried(e)'
  BY <1>2, <1>3, <1>4, <1>7, <1>10, CarriedFrame DEF Same, SameReader, Later
<1>17. w \in use.readers /\ Alive(w)' => Carried(w)'
  <2> SUFFICES ASSUME w \in use.readers, Alive(w) PROVE Carried(w)'
    BY <1>3, <1>10
  <2>1. Carried(w) /\ in[w] \in Nat
    BY <1>1 DEF IInv, Carries, TypeOK
  <2>2. Fin(e) => Fin(e)'
    BY <1>10 DEF Later
  <2>3. dreq[w].segs = <<>> /\ (t = "taken" => ~dreq[w].again)
    <3>1. NextRcv(dreq[w].seq) # dreq[w].seq
      BY <1>3, NextCount DEF Request
    <3> QED
      BY <1>2, <1>3, <1>6, <2>1, <3>1 DEF Carried, Numbered
  <2> QED
    BY <1>2, <1>3, <1>4, <1>6, <1>7, <2>1, <2>2, <2>3, EmptyStream DEF Carried
<1> QED
  BY <1>2, <1>3, <1>9, <1>10, <1>11, <1>12, <1>13, <1>14, <1>15, <1>16, <1>17,
     Assemble, BothEnds DEF Later

(* pap_rsrvc takes the request that waits, or finds none that it may take. *)
LEMMA RsrvcKeeps ==
    ASSUME IInv, NEW e \in End, Rsrvc(e)
    PROVE  IInv' /\ Onward(e)
<1>1. /\ TypeOK /\ str[e] \in Queues /\ pap[e] \in PapState /\ Alive(e) /\ Local(e)
  BY Types DEF IInv, Rsrvc
<1>2. PICK w \in End \ {e} : w = Peer[e] /\ Peer[w] = e
  BY TheEnds
<1>3. UNCHANGED <<phase, tmo, ign, dreq, creq, out, in, told, use>> /\ Numbered(w)
  BY <1>1, <1>2 DEF Rsrvc, IInv, Sequenced
<1>4. dreq[w] \in Request /\ Segs # 0 /\ Segs \in 0 .. Segs
  BY Types, ConstantAssumption DEF IInv
<1>5. PICK p \in PapState, q \in Queues :
          /\ Prime(e, p) /\ str' = [str EXCEPT ![e] = q]
          /\ SameReader(p, pap[e]) /\ SameHdr(p, pap[e]) /\ p.closing = pap[e].closing
          /\ p.eof_sent = pap[e].eof_sent
          /\ q.wq = str[e].wq /\ q.again = str[e].again /\ q.hup = str[e].hup
          /\ str[e].wen => q.wen
          /\ \/ /\ str[e].rq # <<>> /\ pap[e].request = 0 /\ q.rq = <<>> /\ q.wen
                /\ p.request = Segs /\ p.rcv_count = NextRcv(pap[e].rcv_count)
             \/ /\ str[e].rq = <<>> \/ pap[e].request # 0 \/ pap[e].hdr # "full"
                /\ q.rq = str[e].rq
                /\ p.request = pap[e].request /\ p.rcv_count = pap[e].rcv_count
  <2> DEFINE n == NextRcv(pap[e].rcv_count)
             p1 == [pap[e] EXCEPT !.req_timer = FALSE]
             p2 == [p1 EXCEPT !.rcv_count = n, !.request = Segs]
             q1 == [str[e] EXCEPT !.ren = FALSE]
             q2 == [str[e] EXCEPT !.ren = FALSE, !.rq = <<>>, !.wen = TRUE]
  <2>1. n \in 1 .. MaxSeq /\ <<>> \in Seq(1 .. MaxSeq)
    BY <1>1, NextCount DEF PapState
  <2>2. \/ /\ str[e].rq # <<>> /\ Takes(e)
           /\ Prime(e, p2) /\ str' = [str EXCEPT ![e] = q2]
        \/ /\ ~(str[e].rq # <<>> /\ Takes(e))
           /\ Prime(e, p1) /\ str' = [str EXCEPT ![e] = q1]
    <3>1. CASE str[e].rq # <<>> /\ Takes(e)
      BY <3>1 DEF Rsrvc
    <3>2. CASE ~(str[e].rq # <<>> /\ Takes(e))
      BY <3>2 DEF Rsrvc
    <3> QED
      BY <3>1, <3>2
  <2>3. n = NextRcv(pap[e].rcv_count)
    OBVIOUS
  <2> HIDE DEF n
  <2>4. /\ p1 \in PapState /\ SameReader(p1, pap[e]) /\ SameHdr(p1, pap[e])
        /\ p1.closing = pap[e].closing /\ p1.eof_sent = pap[e].eof_sent
        /\ p1.request = pap[e].request /\ p1.rcv_count = pap[e].rcv_count
    BY <1>1 DEF PapState, SameReader, SameHdr
  <2> HIDE DEF p1
  <2>5. /\ p2 \in PapState /\ SameReader(p2, p1) /\ SameHdr(p2, p1)
        /\ p2.closing = p1.closing /\ p2.eof_sent = p1.eof_sent
        /\ p2.request = Segs /\ p2.rcv_count = n
    BY <1>4, <2>1, <2>4 DEF PapState, SameReader, SameHdr
  <2>6. /\ q1 \in Queues /\ q1.wq = str[e].wq /\ q1.again = str[e].again
        /\ q1.hup = str[e].hup /\ q1.wen = str[e].wen /\ q1.rq = str[e].rq
    BY <1>1 DEF Queues
  <2>7. /\ q2 \in Queues /\ q2.wq = str[e].wq /\ q2.again = str[e].again
        /\ q2.hup = str[e].hup /\ q2.wen /\ q2.rq = <<>>
    BY <1>1, <2>1 DEF Queues
  <2> HIDE DEF p2, q1, q2
  <2>8. CASE str[e].rq # <<>> /\ Takes(e) /\ Prime(e, p2) /\ str' = [str EXCEPT ![e] = q2]
    <3>1. /\ SameReader(p2, pap[e]) /\ SameHdr(p2, pap[e]) /\ p2.closing = pap[e].closing
          /\ p2.eof_sent = pap[e].eof_sent
      BY <2>4, <2>5 DEF SameReader, SameHdr
    <3>2. pap[e].request = 0
      BY <2>8 DEF Takes
    <3> QED
      BY <2>3, <2>5, <2>7, <2>8, <3>1, <3>2
  <2>9. CASE /\ ~(str[e].rq # <<>> /\ Takes(e))
             /\ Prime(e, p1) /\ str' = [str EXCEPT ![e] = q1]
    BY <2>4, <2>6, <2>9 DEF Takes
  <2> QED
    BY <2>2, <2>8, <2>9
<1>6. /\ pap' \in [End -> PapState] /\ \A x \in End \ {e} : pap'[x] = pap[x]
      /\ Same(pap'[e], p) /\ pap'[e].closing = p.closing
      /\ pap'[e].request_count > 0 \/ pap'[e].req_timer
  BY <1>1, <1>5, PrimeDoes
<1>7. str' \in [End -> Queues] /\ str'[e] = q /\ \A x \in End \ {e} : str'[x] = str[x]
  BY <1>1, <1>5, OneQueue
<1>8. TypeOK'
  BY <1>1, <1>3, <1>6, <1>7 DEF TypeOK, Queues
<1>9. SameReader(pap'[e], pap[e]) /\ SameHdr(pap'[e], pap[e])
  BY <1>5, <1>6 DEF Same, SameReader, SameHdr
<1>10. Others(e) /\ Later(e) /\ Later(w)
  BY <1>3, <1>5, <1>6, <1>7, LaterOther DEF Others, Alive, Later, Fin, Same, SameWriter
<1>11. Local(e)'
  <2>1. Quiet(e)' /\ Commands(e)' /\ HungUp(e)' /\ Supplied(e)'
    BY <1>1, <1>3, <1>5, <1>6, <1>7, <1>9
       DEF Local, Quiet, Commands, HungUp, Waiting, Supplied, SameHdr
  <2>2. phase[e] = "open" => Attended(str'[e], pap'[e])
    <3> SUFFICES ASSUME phase[e] = "open", q.wq # <<>>, ~q.wen, ~q.again
                 PROVE  Attended(str'[e], pap'[e])
      BY <1>7 DEF Attended
    <3>1. /\ Attended(str[e], pap[e]) /\ ~str[e].wen
          /\ pap[e].hdr = "part" => Head(str[e].wq).op = "SETHDR"
      BY <1>1, <1>5 DEF Local, Commands
    <3>2. Head(str[e].wq).op \in Writing => Head(str[e].wq).op # "SETHDR"
      BY DEF Writing
    <3>3. str[e].rq = <<>> \/ pap[e].request # 0 \/ pap[e].hdr # "full"
      BY <1>5
    <3>4. q.rq = str[e].rq /\ pap'[e].request = pap[e].request
      BY <1>5, <1>6 DEF Same, SameWriter
    <3>5. pap[e].hdr \in {"none", "part", "full"}
      BY <1>1 DEF PapState
    <3> QED
      BY <1>5, <1>7, <1>9, <3>1, <3>2, <3>3, <3>4, <3>5 DEF Attended, SameReader, SameHdr
  <2> QED
    BY <1>3, <2>1, <2>2 DEF Local
<1>12. (Alive(e)' => Asking(e)') /\ (Alive(w)' => Asking(w)')
  BY <1>3, <1>6, <1>9, <1>10, AskingFrame DEF SameReader, Later
<1>13. Alive(w)' => Numbered(e)'
  BY <1>2, <1>3, <1>6, <1>7, <1>9, <1>10, NumberedFrame DEF SameReader, Later
<1>14. Alive(e)' => Numbered(w)'
  <2>1. /\ pap'[e].request = p.request /\ pap'[e].rcv_count = p.rcv_count
        /\ pap'[w] = pap[w] /\ str'[e].rq = q.rq /\ phase' = phase /\ dreq' = dreq
    BY <1>3, <1>6, <1>7 DEF Same, SameWriter
  <2>2. CASE q.rq = str[e].rq /\ p.request = pap[e].request /\ p.rcv_count = pap[e].rcv_count
    BY <1>2, <1>7, <1>10, <2>1, <2>2, NumberedFrame DEF Later
  <2>3. CASE /\ str[e].rq # <<>> /\ q.rq = <<>>
             /\ p.request = Segs /\ p.rcv_count = NextRcv(pap[e].rcv_count)
    <3>1. /\ dreq[w].st = "taken" /\ ~dreq[w].again
          /\ pap[e].rcv_count = dreq[w].seq
      BY <1>2, <1>3, <2>3 DEF Numbered
    <3>2. pap[w].send_count = NextSend(dreq[w].seq) \/ ~Alive(w)
      BY <1>3, <3>1 DEF Numbered
    <3> QED
      BY <1>2, <1>3, <1>4, <2>1, <2>3, <3>1, <3>2 DEF Numbered, Alive
  <2> QED
    BY <1>5, <2>2, <2>3
<1>15. /\ e \in use.readers /\ Alive(e)' => Carried(e)'
       /\ w \in use.readers /\ Alive(w)' => Carried(w)'
  BY <1>2, <1>3, <1>6, <1>9, <1>10, CarriedFrame DEF SameReader, Later
<1> QED
  BY <1>2, <1>3, <1>8, <1>10, <1>11, <1>12, <1>13, <1>14, <1>15, Assemble, BothEnds
     DEF Later

-----------------------------------------------------------------------------
(* Reading. *)

(* A request is only sent when there is none. *)
LEMMA SendDoes ==
    ASSUME IInv, NEW e \in End, NEW w \in End \ {e}, w = Peer[e], Peer[w] = e,
           NEW p \in PapState, Send(e, p), Alive(e), dreq[e].st = "none",
           p.send_count = pap[e].send_count, SameWriter(p, pap[e]), SameHdr(p, pap[e]),
           SameSupply(p, pap[e]), p.closing = pap[e].closing,
           e \in use.readers => pap[e].rcv = <<>> /\ p.rcv = <<>> /\ ~p.eof,
           str'[w] = str[w], str'[e].rq = str[e].rq,
           UNCHANGED <<phase, tmo, creq, out, in, told, use>>
    PROVE  /\ pap' \in [End -> PapState] /\ \A x \in End \ {e} : pap'[x] = pap[x]
           /\ dreq' \in [End -> Request] /\ dreq'[w] = dreq[w] /\ dreq'[e].st = "sent"
           /\ pap'[e].read <=> p.read
           /\ pap'[e].read_ignore <=> p.read_ignore
           /\ SameHdr(pap'[e], pap[e]) /\ SameSupply(pap'[e], pap[e])
           /\ pap'[e].closing = pap[e].closing /\ SameWriter(pap'[e], pap[e])
           /\ Alive(w)' => Numbered(e)'
           /\ Alive(e)' => Numbered(w)'
           /\ e \in use.readers /\ Alive(e)' => Carried(e)'
<1>1. TypeOK /\ pap[e] \in PapState
  BY Types DEF IInv
<1> DEFINE n == NextSend(p.send_count)
           r == [p EXCEPT !.send_count = n]
           d == [st |-> "sent", seq |-> p.send_count, segs |-> <<>>, again |-> FALSE]
<1>2. n \in 1 .. MaxSeq /\ p.send_count \in 1 .. MaxSeq
  BY NextCount DEF PapState
<1>3. pap' = [pap EXCEPT ![e] = r] /\ dreq' = [dreq EXCEPT ![e] = d]
  BY DEF Send
<1>4. n = NextSend(p.send_count)
  OBVIOUS
<1> HIDE DEF n
<1>5. /\ r \in PapState /\ SameWriter(r, p) /\ SameHdr(r, p) /\ SameSupply(r, p)
      /\ r.closing = p.closing /\ r.read = p.read /\ r.read_ignore = p.read_ignore
      /\ r.rcv = p.rcv /\ r.eof = p.eof /\ r.send_count = n
  BY <1>2 DEF PapState, SameWriter, SameHdr, SameSupply
<1>6. /\ d \in Request /\ d.st = "sent" /\ d.seq = p.send_count /\ d.segs = <<>> /\ ~d.again
  <2>1. <<>> \in Seq(Item)
    OBVIOUS
  <2> QED
    BY <1>2, <2>1 DEF Request
<1> HIDE DEF r, d
<1>7. pap' \in [End -> PapState] /\ pap'[e] = r /\ \A x \in End \ {e} : pap'[x] = pap[x]
  BY <1>1, <1>3, <1>5, OneSession
<1>8. dreq' \in [End -> Request] /\ dreq'[e] = d /\ dreq'[w] = dreq[w]
  BY <1>1, <1>3, <1>6 DEF TypeOK
<1>9. /\ SameHdr(pap'[e], pap[e]) /\ SameSupply(pap'[e], pap[e])
      /\ pap'[e].closing = pap[e].closing /\ SameWriter(pap'[e], pap[e])
  BY <1>5, <1>7 DEF SameWriter, SameHdr, SameSupply
<1>10. Later(e) /\ Later(w) /\ (Alive(e)' <=> Alive(e)) /\ (Alive(w)' <=> Alive(w))
  BY <1>7, <1>9 DEF Later, Alive, Fin, SameWriter
<1>11. Alive(w)' => Numbered(e)'
  <2> SUFFICES ASSUME Alive(w) PROVE Numbered(e)'
    BY <1>10
  <2>1. Numbered(e)
    BY DEF IInv, Sequenced
  <2>2. /\ pap'[w] = pap[w] /\ pap[w].rcv_count = p.send_count
        /\ pap'[e].send_count = NextSend(p.send_count)
    BY <1>4, <1>5, <1>7, <2>1 DEF Numbered
  <2> QED
    BY <1>6, <1>8, <1>10, <2>1, <2>2 DEF Numbered
<1>12. Alive(e)' => Numbered(w)'
  BY <1>7, <1>8, <1>9, <1>10, NumberedFrame DEF SameWriter
<1>13. e \in use.readers /\ Alive(e)' => Carried(e)'
  <2> SUFFICES ASSUME e \in use.readers PROVE Carried(e)'
    OBVIOUS
  <2>1. Carried(e) /\ in[e] \in Nat
    BY <1>1 DEF IInv, Carries, TypeOK
  <2>2. pap'[e].rcv = <<>> /\ ~pap'[e].eof /\ out[w] = in[e]
    BY <1>5, <1>7, <2>1, EmptyStream DEF Carried
  <2> QED
    BY <1>6, <1>8, <2>1, <2>2, EmptyStream DEF Carried
<1> QED
  BY <1>5, <1>6, <1>7, <1>8, <1>9, <1>11, <1>12, <1>13

(* An end either reads or ignores what comes. *)
LEMMA OneUse ==
    ASSUME IInv, NEW e \in End
    PROVE  ~(e \in use.readers /\ e \in use.ignorers)
  BY ConstantAssumption DEF IInv, TypeOK, Use

LEMMA ReadIgnoreKeeps ==
    ASSUME IInv, NEW e \in End, ReadIgnore(e)
    PROVE  IInv' /\ Onward(e)
<1>1. /\ TypeOK /\ pap[e] \in PapState /\ Alive(e) /\ str[e].wq # <<>> /\ Asking(e)
      /\ At(e, {"READ_IGNORE"}) /\ Local(e) /\ str[e].wq \in Seq(Command)
      /\ str[e].wq[1] = Head(str[e].wq) /\ Head(str[e].wq).op = "READ_IGNORE"
  BY AtOpen DEF IInv, ReadIgnore
<1>2. PICK w \in End \ {e} : w = Peer[e] /\ Peer[w] = e
  BY TheEnds
<1>3. e \in use.ignorers /\ e \notin use.readers
  <2>1. 1 \in DOMAIN str[e].wq
    BY <1>1
  <2> QED
    BY <1>1, <2>1, OneUse DEF Local, Commands
<1>4. UNCHANGED <<phase, tmo, creq, out, in, told, use>> /\ str' = [str EXCEPT ![e] = Served(e)]
  BY DEF ReadIgnore
<1>5. /\ str' \in [End -> Queues] /\ str'[e] = Served(e) /\ str'[e].rq = str[e].rq
      /\ \A x \in End \ {e} : str'[x] = str[x]
  BY <1>1, <1>4, OneQueue, ServedDoes
<1> DEFINE p == [pap[e] EXCEPT !.read_ignore = TRUE]
<1>6. /\ p \in PapState /\ SameWriter(p, pap[e]) /\ SameHdr(p, pap[e])
      /\ SameSupply(p, pap[e]) /\ p.closing = pap[e].closing /\ p.rcv = pap[e].rcv
      /\ p.eof = pap[e].eof /\ p.send_count = pap[e].send_count /\ p.read = pap[e].read
      /\ p.read_ignore
  BY <1>1 DEF PapState, SameWriter, SameHdr, SameSupply
<1> HIDE DEF p
<1>7. ~pap[e].read
  BY <1>1, <1>3 DEF Asking
<1>8. (Alive(e)' <=> Alive(e)) /\ (Alive(w)' <=> Alive(w))
  BY <1>4 DEF Alive
<1>9. /\ pap' \in [End -> PapState] /\ \A x \in End \ {e} : pap'[x] = pap[x]
      /\ dreq' \in [End -> Request] /\ dreq'[w] = dreq[w]
      /\ ign' \in [End -> BOOLEAN] /\ ign'[w] = ign[w]
      /\ SameHdr(pap'[e], pap[e]) /\ SameSupply(pap'[e], pap[e])
      /\ pap'[e].closing = pap[e].closing /\ SameWriter(pap'[e], pap[e])
      /\ Asking(e)'
      /\ Alive(w)' => Numbered(e)'
      /\ Alive(e)' => Numbered(w)'
  <2>1. CASE UNCHANGED <<pap, dreq, ign>>
    <3>1. Later(e) /\ Later(w)
      BY <1>4, <2>1 DEF Later, Fin, Alive
    <3>2. (Alive(w)' => Numbered(e)') /\ (Alive(e)' => Numbered(w)')
      BY <1>2, <1>5, <2>1, <3>1, NumberedFrame DEF Later
    <3>3. Asking(e)'
      BY <1>1, <1>4, <2>1 DEF Asking
    <3> QED
      BY <1>1, <2>1, <3>2, <3>3 DEF TypeOK, SameHdr, SameSupply, SameWriter
  <2>2. CASE ~pap[e].read_ignore /\ Send(e, p) /\ ign' = ign
    <3>1. dreq[e].st = "none" /\ ~ign[e]
      BY <1>1, <1>7, <2>2 DEF Asking
    <3>2. /\ pap' \in [End -> PapState] /\ \A x \in End \ {e} : pap'[x] = pap[x]
          /\ dreq' \in [End -> Request] /\ dreq'[w] = dreq[w] /\ dreq'[e].st = "sent"
          /\ pap'[e].read <=> p.read
          /\ pap'[e].read_ignore <=> p.read_ignore
          /\ SameHdr(pap'[e], pap[e]) /\ SameSupply(pap'[e], pap[e])
          /\ pap'[e].closing = pap[e].closing /\ SameWriter(pap'[e], pap[e])
          /\ Alive(w)' => Numbered(e)'
          /\ Alive(e)' => Numbered(w)'
      BY <1>1, <1>2, <1>3, <1>4, <1>5, <1>6, <2>2, <3>1, SendDoes
    <3>3. Asking(e)'
      BY <1>3, <1>4, <1>6, <1>7, <2>2, <3>1, <3>2 DEF Asking
    <3> QED
      BY <1>1, <2>2, <3>2, <3>3 DEF TypeOK
  <2>3. CASE /\ ~pap[e].read_ignore /\ pap' = [pap EXCEPT ![e] = p]
             /\ ign' = [ign EXCEPT ![e] = TRUE] /\ dreq' = dreq
    <3>1. dreq[e].st = "none"
      BY <1>1, <1>7, <2>3 DEF Asking
    <3>2. pap' \in [End -> PapState] /\ pap'[e] = p /\ \A x \in End \ {e} : pap'[x] = pap[x]
      BY <1>1, <1>6, <2>3, OneSession
    <3>3. ign' \in [End -> BOOLEAN] /\ ign'[e] /\ ign'[w] = ign[w]
      BY <1>1, <2>3 DEF TypeOK
    <3>4. Asking(e)'
      BY <1>3, <1>4, <1>6, <1>7, <2>3, <3>1, <3>2, <3>3 DEF Asking
    <3>5. Later(e) /\ Later(w)
      BY <1>4, <1>6, <3>2 DEF Later, Fin, Alive, SameWriter
    <3>6. (Alive(w)' => Numbered(e)') /\ (Alive(e)' => Numbered(w)')
      BY <1>2, <1>5, <1>6, <2>3, <3>2, <3>5, NumberedFrame DEF Later, SameWriter
    <3> QED
      BY <1>1, <1>6, <2>3, <3>2, <3>3, <3>4, <3>6 DEF TypeOK
  <2> QED
    BY <2>1, <2>2, <2>3 DEF ReadIgnore, p
<1>10. TypeOK'
  BY <1>1, <1>4, <1>5, <1>9 DEF TypeOK, Queues
<1>11. Others(e) /\ Later(w) /\ (Fin(e) => Fin(e)')
  <2>1. \A x \in End \ {e} : x = w
    BY <1>2, TheEnds
  <2>2. Others(e)
    BY <1>4, <1>5, <1>9, <2>1 DEF Others
  <2> QED
    BY <1>4, <1>9, <2>2, LaterOther DEF Fin, SameWriter
<1>12. Local(e)'
  BY <1>1, <1>4, <1>5, <1>9, AnsweredLocal
<1>13. Alive(w)' => Asking(w)'
  BY <1>4, <1>8, <1>9, AskingFrame
<1>14. w \in use.readers /\ Alive(w)' => Carried(w)'
  BY <1>2, <1>4, <1>8, <1>9, <1>11, CarriedFrame
<1> QED
  BY <1>2, <1>3, <1>4, <1>9, <1>10, <1>11, <1>12, <1>13, <1>14, Assemble, BothEnds

LEMMA IgnoreTimeoutKeeps ==
    ASSUME IInv, NEW e \in End, IgnoreTimeout(e)
    PROVE  IInv' /\ Onward(e)
<1>1. /\ TypeOK /\ pap[e] \in PapState /\ Alive(e) /\ Local(e)
      /\ pap[e].read_ignore /\ dreq[e].st = "none" /\ e \in use.ignorers
      /\ ~pap[e].read
  BY Types DEF IInv, OneRequest, Asking, IgnoreTimeout
<1>2. PICK w \in End \ {e} : w = Peer[e] /\ Peer[w] = e
  BY TheEnds
<1>3. /\ UNCHANGED <<str, phase, tmo, creq, out, in, told, use>>
      /\ ign' = [ign EXCEPT ![e] = FALSE]
  BY DEF IgnoreTimeout
<1> DEFINE p == [pap[e] EXCEPT !.read_ignore = TRUE]
<1>4. /\ p \in PapState /\ SameWriter(p, pap[e]) /\ SameHdr(p, pap[e])
      /\ SameSupply(p, pap[e]) /\ p.closing = pap[e].closing
      /\ p.send_count = pap[e].send_count /\ ~p.read /\ p.read_ignore
  BY <1>1 DEF PapState, SameWriter, SameHdr, SameSupply
<1>5. Send(e, p)
  BY DEF IgnoreTimeout
<1> HIDE DEF p
<1>6. e \notin use.readers
  BY <1>1, OneUse
<1>7. /\ pap' \in [End -> PapState] /\ \A x \in End \ {e} : pap'[x] = pap[x]
      /\ dreq' \in [End -> Request] /\ dreq'[w] = dreq[w] /\ dreq'[e].st = "sent"
      /\ pap'[e].read <=> p.read
      /\ pap'[e].read_ignore <=> p.read_ignore
      /\ SameHdr(pap'[e], pap[e]) /\ SameSupply(pap'[e], pap[e])
      /\ pap'[e].closing = pap[e].closing /\ SameWriter(pap'[e], pap[e])
      /\ Alive(w)' => Numbered(e)'
      /\ Alive(e)' => Numbered(w)'
  BY <1>1, <1>2, <1>3, <1>4, <1>5, <1>6, SendDoes
<1>8. ign' \in [End -> BOOLEAN] /\ ~ign'[e] /\ \A x \in End \ {e} : ign'[x] = ign[x]
  BY <1>1, <1>3 DEF TypeOK
<1>9. TypeOK'
  BY <1>1, <1>3, <1>7, <1>8 DEF TypeOK
<1>10. Others(e)
  BY <1>3, <1>7, <1>8 DEF Others
<1>11. Local(e)'
  <2>1. Supplied(e)'
    BY <1>1, <1>3, <1>7 DEF Local, Supplied, SameSupply, Alive
  <2> QED
    BY <1>1, <1>3, <1>7, <2>1, HeardLocal DEF SameWriter
<1>12. Asking(e)'
  BY <1>1, <1>3, <1>4, <1>7, <1>8 DEF Asking
<1>13. Alive(w)' => Asking(w)'
  BY <1>3, <1>7, <1>8, AskingFrame DEF Alive
<1>14. (Fin(e) => Fin(e)') /\ (Alive(w)' <=> Alive(w))
  BY <1>3, <1>7 DEF Fin, SameWriter, Alive
<1>15. w \in use.readers /\ Alive(w)' => Carried(w)'
  BY <1>2, <1>3, <1>7, <1>14, CarriedFrame
<1> QED
  BY <1>2, <1>3, <1>6, <1>7, <1>9, <1>10, <1>11, <1>12, <1>13, <1>14, <1>15, Assemble, BothEnds

LEMMA ReadAsksKeeps ==
    ASSUME IInv, NEW e \in End, ReadAsks(e)
    PROVE  IInv' /\ Onward(e)
<1>1. /\ TypeOK /\ pap[e] \in PapState /\ Alive(e) /\ Local(e) /\ Asking(e)
      /\ phase[e] = "open" /\ str[e].wq # <<>> /\ str[e].wq \in Seq(Command)
      /\ str[e].wq[1] = Head(str[e].wq) /\ Head(str[e].wq).op = "READ"
      /\ ~pap[e].eof /\ ~pap[e].read /\ pap[e].rcv = <<>>
  <2>1. At(e, {"READ"})
    BY DEF ReadAsks, Asks
  <2> QED
    BY <2>1, AtOpen DEF IInv, ReadAsks, Asks
<1>2. PICK w \in End \ {e} : w = Peer[e] /\ Peer[w] = e
  BY TheEnds
<1>3. /\ UNCHANGED <<phase, tmo, ign, creq, out, in, told, use>>
      /\ str' = [str EXCEPT ![e] = Held(e)]
  BY DEF ReadAsks
<1>4. /\ Held(e).wq = str[e].wq /\ Held(e).rq = str[e].rq /\ Held(e).hup = str[e].hup
      /\ Held(e).ren = str[e].ren
      /\ str' \in [End -> Queues] /\ str'[e] = Held(e)
      /\ \A x \in End \ {e} : str'[x] = str[x]
  BY <1>1, <1>3, HeldDoes, OneQueue
<1>5. e \in use.readers /\ e \notin use.ignorers
  <2>1. 1 \in DOMAIN str[e].wq
    BY <1>1
  <2> QED
    BY <1>1, <2>1, OneUse DEF Local, Commands
<1>6. dreq[e].st = "none" /\ ~pap[e].read_ignore /\ ~ign[e]
  BY <1>1, <1>5 DEF Asking
<1> DEFINE p == [pap[e] EXCEPT !.read = TRUE]
<1>7. /\ p \in PapState /\ SameWriter(p, pap[e]) /\ SameHdr(p, pap[e])
      /\ SameSupply(p, pap[e]) /\ p.closing = pap[e].closing
      /\ p.send_count = pap[e].send_count /\ p.read /\ ~p.read_ignore
      /\ p.rcv = <<>> /\ ~p.eof
  BY <1>1, <1>6 DEF PapState, SameWriter, SameHdr, SameSupply
<1>8. Send(e, p)
  BY DEF ReadAsks
<1> HIDE DEF p
<1>9. /\ pap' \in [End -> PapState] /\ \A x \in End \ {e} : pap'[x] = pap[x]
      /\ dreq' \in [End -> Request] /\ dreq'[w] = dreq[w] /\ dreq'[e].st = "sent"
      /\ pap'[e].read <=> p.read
      /\ pap'[e].read_ignore <=> p.read_ignore
      /\ SameHdr(pap'[e], pap[e]) /\ SameSupply(pap'[e], pap[e])
      /\ pap'[e].closing = pap[e].closing /\ SameWriter(pap'[e], pap[e])
      /\ Alive(w)' => Numbered(e)'
      /\ Alive(e)' => Numbered(w)'
      /\ e \in use.readers /\ Alive(e)' => Carried(e)'
  BY <1>1, <1>2, <1>3, <1>4, <1>6, <1>7, <1>8, SendDoes
<1>10. TypeOK'
  BY <1>1, <1>3, <1>4, <1>9 DEF TypeOK, Queues
<1>11. Others(e)
  BY <1>3, <1>4, <1>9 DEF Others
<1>12. Local(e)'
  <2>1. Quiet(e)' /\ Commands(e)' /\ HungUp(e)' /\ Supplied(e)'
    BY <1>1, <1>3, <1>4, <1>9
       DEF Local, Quiet, Commands, HungUp, Waiting, Supplied, SameHdr, SameSupply, Alive
  <2>2. Attended(str'[e], pap'[e])
    BY <1>1, <1>4, <1>7, <1>9 DEF Attended
  <2> QED
    BY <2>1, <2>2 DEF Local
<1>13. Asking(e)'
  BY <1>3, <1>5, <1>6, <1>7, <1>9 DEF Asking
<1>14. (Fin(e) => Fin(e)') /\ (Alive(w)' <=> Alive(w))
  BY <1>3, <1>9 DEF Fin, SameWriter, Alive
<1>15. Alive(w)' => Asking(w)'
  BY <1>3, <1>9, <1>14, AskingFrame
<1>16. w \in use.readers /\ Alive(w)' => Carried(w)'
  BY <1>2, <1>3, <1>9, <1>14, CarriedFrame
<1> QED
  BY <1>2, <1>3, <1>9, <1>10, <1>11, <1>12, <1>13, <1>14, <1>15, <1>16, Assemble, BothEnds

(* A READ that is answered takes the next item, if it takes one, or the end.    *)
LEMMA ReadAnsweredKeeps ==
    ASSUME IInv, NEW e \in End, ReadAnswered(e)
    PROVE  IInv' /\ Onward(e)
<1>1. /\ TypeOK /\ pap[e] \in PapState /\ Alive(e) /\ Local(e) /\ Asking(e)
      /\ phase[e] = "open" /\ str[e].wq # <<>> /\ str[e].wq \in Seq(Command)
      /\ str[e].wq[1] = Head(str[e].wq) /\ Head(str[e].wq).op = "READ"
      /\ Head(str[e].wq) \in Command /\ At(e, {"READ"})
  <2>1. At(e, {"READ"})
    BY DEF ReadAnswered
  <2> QED
    BY <2>1, AtOpen, TailDoes DEF IInv
<1>2. PICK w \in End \ {e} : w = Peer[e] /\ Peer[w] = e
  BY TheEnds
<1>3. /\ UNCHANGED <<phase, tmo, ign, dreq, creq, out, use>>
      /\ str' = [str EXCEPT ![e] = Served(e)]
  BY DEF ReadAnswered
<1>4. /\ str'[e].rq = str[e].rq
      /\ str' \in [End -> Queues] /\ str'[e] = Served(e)
      /\ \A x \in End \ {e} : str'[x] = str[x]
  BY <1>1, <1>3, ServedDoes, OneQueue
<1>5. e \in use.readers
  <2>1. 1 \in DOMAIN str[e].wq
    BY <1>1
  <2> QED
    BY <1>1, <2>1 DEF Local, Commands
<1>6. Carried(e) /\ in[e] \in Nat /\ pap[e].rcv \in Seq(Item)
  BY <1>1, <1>5 DEF IInv, Carries, TypeOK, PapState
<1>7. told' \in [End -> BOOLEAN]
  <2> DEFINE t == told[e] \/ Head(str[e].wq).live
  <2>1. t \in BOOLEAN
    OBVIOUS
  <2>2. told' = told \/ told' = [told EXCEPT ![e] = t]
    BY DEF ReadAnswered, Tells
  <2> HIDE DEF t
  <2> QED
    BY <1>1, <2>1, <2>2 DEF TypeOK
<1>8. PICK p \in PapState, n \in Nat :
          /\ pap' = [pap EXCEPT ![e] = p] /\ in' = [in EXCEPT ![e] = n]
          /\ SameWriter(p, pap[e]) /\ SameHdr(p, pap[e])
          /\ SameSupply(p, pap[e]) /\ p.closing = pap[e].closing
          /\ p.send_count = pap[e].send_count
          /\ p.read <=> pap[e].read
          /\ p.read_ignore <=> pap[e].read_ignore
          /\ \/ p.rcv = pap[e].rcv /\ (p.eof <=> pap[e].eof) /\ n = in[e]
             \/ /\ pap[e].rcv # <<>> /\ ~pap[e].eof
                /\ \/ Head(pap[e].rcv) = Eof /\ p.rcv = <<>> /\ p.eof /\ n = in[e]
                   \/ /\ Head(pap[e].rcv) = [d |-> in[e] + 1, eof |-> FALSE]
                      /\ p.rcv = Tail(pap[e].rcv) /\ ~p.eof /\ n = in[e] + 1
  <2>1. pap = [pap EXCEPT ![e] = pap[e]] /\ in = [in EXCEPT ![e] = in[e]]
    BY <1>1 DEF TypeOK
  <2>2. CASE UNCHANGED <<pap, in>>
    BY <1>1, <1>6, <2>1, <2>2 DEF SameWriter, SameHdr, SameSupply
  <2>3. CASE pap' = [pap EXCEPT ![e].error = "none"] /\ in' = in
    <3> DEFINE p == [pap[e] EXCEPT !.error = "none"]
    <3>1. pap' = [pap EXCEPT ![e] = p]
      BY <2>3
    <3>2. /\ p \in PapState /\ SameWriter(p, pap[e]) /\ SameHdr(p, pap[e])
          /\ SameSupply(p, pap[e]) /\ p.closing = pap[e].closing
          /\ p.send_count = pap[e].send_count /\ p.read = pap[e].read
          /\ p.read_ignore = pap[e].read_ignore
          /\ p.rcv = pap[e].rcv /\ p.eof = pap[e].eof
      BY <1>1 DEF PapState, SameWriter, SameHdr, SameSupply
    <3> HIDE DEF p
    <3> QED
      BY <1>6, <2>1, <2>3, <3>1, <3>2
  <2>4. CASE /\ ~pap[e].eof /\ pap[e].rcv # <<>>
             /\ pap' = [pap EXCEPT ![e].eof = Head(pap[e].rcv).eof,
                                   ![e].rcv = IF Head(pap[e].rcv).eof THEN <<>> ELSE Tail(@)]
             /\ in' = [in EXCEPT ![e] = IF Head(pap[e].rcv).d = 0 THEN @
                                        ELSE Head(pap[e].rcv).d]
    <3> DEFINE i == Head(pap[e].rcv)
               f == i.eof
               r == IF i.eof THEN <<>> ELSE Tail(pap[e].rcv)
               n == IF i.d = 0 THEN in[e] ELSE i.d
               p == [pap[e] EXCEPT !.eof = f, !.rcv = r]
    <3>1. Continues(pap[e].rcv, in[e])
      BY <1>6 DEF Carried
    <3>2. i = Eof \/ i = [d |-> in[e] + 1, eof |-> FALSE]
      BY <1>6, <2>4, <3>1, StreamTail
    <3>3. pap' = [pap EXCEPT ![e] = p] /\ in' = [in EXCEPT ![e] = n]
      BY <2>4
    <3>4. /\ r \in Seq(Item) /\ f \in BOOLEAN /\ n \in Nat
          /\ \/ i = Eof /\ r = <<>> /\ f /\ n = in[e]
             \/ /\ i = [d |-> in[e] + 1, eof |-> FALSE]
                /\ r = Tail(pap[e].rcv) /\ ~f /\ n = in[e] + 1
      <4>1. Tail(pap[e].rcv) \in Seq(Item) /\ <<>> \in Seq(Item)
        BY <1>6, <2>4, TailDoes
      <4>2. f \in BOOLEAN
        <5>1. Head(pap[e].rcv) \in Item
          BY <1>6, <2>4, TailDoes
        <5> QED
          BY <5>1 DEF Item
      <4>3. CASE i = Eof
        <5>1. i.d = 0 /\ i.eof
          BY <4>3 DEF Eof
        <5> QED
          BY <1>6, <4>1, <4>2, <4>3, <5>1
      <4>4. CASE i = [d |-> in[e] + 1, eof |-> FALSE]
        <5>1. i.d = in[e] + 1 /\ ~i.eof /\ in[e] + 1 \in Nat /\ in[e] + 1 # 0
          BY <1>6, <4>4
        <5> QED
          BY <4>1, <4>2, <4>4, <5>1
      <4> QED
        BY <3>2, <4>3, <4>4
    <3>5. i = Head(pap[e].rcv)
      OBVIOUS
    <3> HIDE DEF i, f, r, n
    <3>6. /\ p \in PapState /\ SameWriter(p, pap[e]) /\ SameHdr(p, pap[e])
          /\ SameSupply(p, pap[e]) /\ p.closing = pap[e].closing
          /\ p.send_count = pap[e].send_count
          /\ p.read <=> pap[e].read
          /\ p.read_ignore <=> pap[e].read_ignore
          /\ p.rcv = r /\ (p.eof <=> f)
      BY <1>1, <3>4 DEF PapState, SameWriter, SameHdr, SameSupply
    <3> HIDE DEF p
    <3>7. \/ p.rcv = pap[e].rcv /\ (p.eof <=> pap[e].eof) /\ n = in[e]
          \/ /\ pap[e].rcv # <<>> /\ ~pap[e].eof
             /\ \/ Head(pap[e].rcv) = Eof /\ p.rcv = <<>> /\ p.eof /\ n = in[e]
                \/ /\ Head(pap[e].rcv) = [d |-> in[e] + 1, eof |-> FALSE]
                   /\ p.rcv = Tail(pap[e].rcv) /\ ~p.eof /\ n = in[e] + 1
      BY <2>4, <3>4, <3>5, <3>6
    <3>8. n \in Nat
      BY <3>4
    <3> QED
      BY <3>3, <3>6, <3>7, <3>8
  <2> QED
    BY <2>2, <2>3, <2>4 DEF ReadAnswered
<1>9. pap' \in [End -> PapState] /\ pap'[e] = p /\ \A x \in End \ {e} : pap'[x] = pap[x]
  BY <1>1, <1>8, OneSession
<1>10. in' \in [End -> Nat] /\ in'[e] = n /\ \A x \in End \ {e} : in'[x] = in[x]
  BY <1>1, <1>8 DEF TypeOK
<1>11. TypeOK'
  BY <1>1, <1>3, <1>4, <1>7, <1>9, <1>10 DEF TypeOK, Queues
<1>12. Others(e) /\ Later(e) /\ Later(w)
  BY <1>3, <1>4, <1>8, <1>9, LaterOther DEF Others, Later, Fin, Alive, SameWriter
<1>13. Local(e)'
  BY <1>1, <1>3, <1>4, <1>8, <1>9, AnsweredLocal
<1>14. (Alive(e)' => Asking(e)') /\ (Alive(w)' => Asking(w)')
  BY <1>3, <1>8, <1>9, <1>12, AskingFrame DEF Later
<1>15. (Alive(w)' => Numbered(e)') /\ (Alive(e)' => Numbered(w)')
  BY <1>2, <1>3, <1>4, <1>8, <1>9, <1>12, NumberedFrame DEF Later, SameWriter
<1>16. w \in use.readers /\ Alive(w)' => Carried(w)'
  BY <1>2, <1>3, <1>9, <1>10, <1>12, CarriedFrame DEF Later
<1>17. e \in use.readers /\ Alive(e)' => Carried(e)'
  <2>1. Fin(w)' <=> Fin(w)
    BY <1>3, <1>9 DEF Fin
  <2>2. CASE p.rcv = pap[e].rcv /\ (p.eof <=> pap[e].eof) /\ n = in[e]
    BY <1>2, <1>3, <1>6, <1>9, <1>10, <2>1, <2>2 DEF Carried
  <2>3. CASE pap[e].rcv # <<>>
    <3>1. /\ dreq[e].st = "none" /\ dreq[e].segs = <<>> /\ ~dreq[e].again
          /\ Continues(pap[e].rcv, in[e]) /\ out[w] = Upto(pap[e].rcv, in[e])
          /\ Ended(pap[e].rcv) => Fin(w)
          /\ pap[e].eof => Fin(w) /\ out[w] = in[e]
      BY <1>2, <1>6, <2>3 DEF Carried
    <3>2. CASE Head(pap[e].rcv) = Eof /\ p.rcv = <<>> /\ p.eof /\ n = in[e]
      <4>1. Ended(pap[e].rcv) /\ Upto(pap[e].rcv, in[e]) = in[e]
        <5>1. [d |-> in[e] + 1, eof |-> FALSE] # Eof
          BY <1>6, EofIsNone
        <5> QED
          BY <1>6, <2>3, <3>1, <3>2, <5>1, StreamTail
      <4> QED
        BY <1>2, <1>3, <1>6, <1>9, <1>10, <2>1, <3>1, <3>2, <4>1, EmptyStream DEF Carried
    <3>3. CASE /\ Head(pap[e].rcv) = [d |-> in[e] + 1, eof |-> FALSE]
               /\ p.rcv = Tail(pap[e].rcv) /\ ~p.eof /\ n = in[e] + 1
      <4>1. /\ Continues(p.rcv, n) /\ Upto(p.rcv, n) = Upto(pap[e].rcv, in[e])
            /\ Ended(p.rcv) => Ended(pap[e].rcv)
        <5>1. [d |-> in[e] + 1, eof |-> FALSE] # Eof
          BY <1>6, EofIsNone
        <5> QED
          BY <1>6, <2>3, <3>1, <3>3, <5>1, StreamTail
      <4> QED
        BY <1>2, <1>3, <1>6, <1>9, <1>10, <2>1, <3>1, <3>3, <4>1, EmptyStream DEF Carried
    <3>4. CASE p.rcv = pap[e].rcv /\ (p.eof <=> pap[e].eof) /\ n = in[e]
      BY <2>2, <3>4
    <3> QED
      BY <1>8, <3>2, <3>3, <3>4
  <2> QED
    BY <1>8, <2>2, <2>3
<1> QED
  BY <1>2, <1>3, <1>11, <1>12, <1>13, <1>14, <1>15, <1>16, <1>17, Assemble, BothEnds
     DEF Later

LEMMA GetResponseKeeps ==
    ASSUME IInv, NEW e \in End, GetResponse(e)
    PROVE  IInv' /\ Onward(e)
<1>1. /\ TypeOK /\ pap[e] \in PapState /\ str[e] \in Queues /\ dreq[e] \in Request
      /\ Alive(e) /\ Asking(e) /\ dreq[e].st = "done" /\ dreq[e].segs \in Seq(Item)
      /\ Hears(e)
  BY Types DEF IInv, OneRequest, GetResponse, Request
<1>2. PICK w \in End \ {e} : w = Peer[e] /\ Peer[w] = e
  BY TheEnds
<1>3. UNCHANGED <<phase, creq, out, in, told, use>>
  BY DEF GetResponse
<1> DEFINE d == [dreq[e] EXCEPT !.st = "none", !.segs = <<>>, !.again = FALSE]
<1>4. dreq' = [dreq EXCEPT ![e] = d]
  BY DEF GetResponse
<1>5. d \in Request /\ d.st = "none" /\ d.segs = <<>> /\ ~d.again /\ d.seq = dreq[e].seq
  <2>1. <<>> \in Seq(Item)
    OBVIOUS
  <2> QED
    BY <1>1, <2>1 DEF Request
<1> HIDE DEF d
<1>6. dreq' \in [End -> Request] /\ dreq'[e] = d /\ dreq'[w] = dreq[w]
  BY <1>1, <1>4, <1>5 DEF TypeOK
<1>7. /\ tmo' \in [End -> BOOLEAN]
      /\ tmo'[e] => tmo[e] \/ pap[e].timer
      /\ \A x \in End \ {e} : tmo'[x] = tmo[x]
  BY <1>1, HearsDoes
<1>8. PICK p \in PapState, q \in Queues, g \in BOOLEAN :
          /\ Prime(e, p) /\ str' = [str EXCEPT ![e] = q] /\ ign' = [ign EXCEPT ![e] = g]
          /\ SameWriter(p, pap[e]) /\ SameHdr(p, pap[e]) /\ p.closing = pap[e].closing
          /\ p.send_count = pap[e].send_count /\ p.eof = pap[e].eof
          /\ p.read_ignore <=> pap[e].read_ignore
          /\ q.wq = str[e].wq /\ q.rq = str[e].rq /\ q.ren = str[e].ren
          /\ q.again = str[e].again /\ q.hup = str[e].hup
          /\ str[e].wen => q.wen
          /\ \/ pap[e].read_ignore /\ g /\ (p.read <=> pap[e].read)
             \/ ~pap[e].read_ignore /\ g = ign[e] /\ q.wen /\ ~p.read /\ p.rcv = dreq[e].segs
  <2>1. str = [str EXCEPT ![e] = str[e]] /\ ign = [ign EXCEPT ![e] = ign[e]]
        /\ ign[e] \in BOOLEAN
    BY <1>1 DEF TypeOK
  <2>2. CASE pap[e].read_ignore
    <3>1. Prime(e, pap[e]) /\ ign' = [ign EXCEPT ![e] = TRUE] /\ str' = str
      BY <2>2 DEF GetResponse
    <3> QED
      BY <1>1, <2>1, <2>2, <3>1 DEF SameWriter, SameHdr
  <2>3. CASE ~pap[e].read_ignore
    <3>1. pap[e].read
      BY <1>1, <2>3 DEF Asking
    <3> DEFINE p == [pap[e] EXCEPT !.rcv = dreq[e].segs, !.read = FALSE, !.error = "none"]
               q == [str[e] EXCEPT !.wen = TRUE]
    <3>2. Prime(e, p) /\ str' = [str EXCEPT ![e] = q] /\ ign' = ign
      BY <2>3, <3>1 DEF GetResponse
    <3>3. /\ p \in PapState /\ SameWriter(p, pap[e]) /\ SameHdr(p, pap[e])
          /\ p.closing = pap[e].closing
          /\ p.send_count = pap[e].send_count /\ p.eof = pap[e].eof
          /\ p.read_ignore = pap[e].read_ignore /\ ~p.read /\ p.rcv = dreq[e].segs
      BY <1>1 DEF PapState, SameWriter, SameHdr
    <3>4. /\ q \in Queues /\ q.wq = str[e].wq /\ q.rq = str[e].rq /\ q.ren = str[e].ren
          /\ q.again = str[e].again /\ q.hup = str[e].hup /\ q.wen
      BY <1>1 DEF Queues
    <3> HIDE DEF p, q
    <3> QED
      BY <2>1, <2>3, <3>2, <3>3, <3>4
  <2> QED
    BY <2>2, <2>3
<1>9. /\ pap' \in [End -> PapState] /\ \A x \in End \ {e} : pap'[x] = pap[x]
      /\ Same(pap'[e], p) /\ pap'[e].closing = p.closing
      /\ pap'[e].request_count > 0 \/ pap'[e].req_timer
  BY <1>1, <1>8, PrimeDoes
<1>10. str' \in [End -> Queues] /\ str'[e] = q /\ \A x \in End \ {e} : str'[x] = str[x]
  BY <1>1, <1>8, OneQueue
<1>11. ign' \in [End -> BOOLEAN] /\ ign'[e] = g /\ \A x \in End \ {e} : ign'[x] = ign[x]
  BY <1>1, <1>8 DEF TypeOK
<1>12. TypeOK'
  BY <1>1, <1>3, <1>6, <1>7, <1>9, <1>10, <1>11 DEF TypeOK, Queues
<1>13. SameWriter(pap'[e], pap[e]) /\ SameHdr(pap'[e], pap[e])
  BY <1>8, <1>9 DEF Same, SameWriter, SameHdr
<1>14. Others(e) /\ Later(e) /\ Later(w)
  BY <1>3, <1>7, <1>9, <1>10, <1>11, <1>13, LaterOther
     DEF Others, Later, Fin, Alive, SameWriter
<1>15. Local(e)'
  <2>1. Supplied(e)'
    BY <1>9 DEF Supplied
  <2>2. q.wen \/ (pap[e].read => pap'[e].read)
    BY <1>8, <1>9 DEF Same, SameReader
  <2> QED
    BY <1>3, <1>7, <1>8, <1>9, <1>10, <1>13, <2>1, <2>2, HeardLocal DEF SameWriter
<1>16. Asking(e)'
  <2>1. (pap'[e].read <=> p.read) /\ (pap'[e].read_ignore <=> p.read_ignore)
    BY <1>9 DEF Same, SameReader
  <2>2. ~p.read
    BY <1>1, <1>8, OneUse DEF Asking
  <2>3. pap[e].read_ignore => e \in use.ignorers
    BY <1>1 DEF Asking
  <2>4. ~pap[e].read_ignore => ~ign[e]
    BY <1>1 DEF Asking
  <2> QED
    BY <1>3, <1>5, <1>6, <1>8, <1>11, <2>1, <2>2, <2>3, <2>4 DEF Asking
<1>17. Alive(w)' => Asking(w)'
  BY <1>3, <1>6, <1>9, <1>11, <1>14, AskingFrame DEF Later
<1>18. Alive(w)' => Numbered(e)'
  <2> SUFFICES ASSUME Alive(w) PROVE Numbered(e)'
    BY <1>14 DEF Later
  <2>1. Numbered(e)
    BY <1>2 DEF IInv, Sequenced
  <2>2. NextSend(dreq[e].seq) = NextRcv(dreq[e].seq)
    BY <1>1, NextCount DEF Request
  <2>3. /\ pap'[e].send_count = pap[e].send_count /\ pap'[w] = pap[w] /\ str'[w] = str[w]
        /\ phase' = phase
    BY <1>3, <1>8, <1>9, <1>10 DEF Same, SameReader
  <2> QED
    BY <1>1, <1>2, <1>5, <1>6, <1>14, <2>1, <2>2, <2>3 DEF Numbered, Later
<1>19. Alive(e)' => Numbered(w)'
  BY <1>2, <1>6, <1>8, <1>9, <1>10, <1>13, <1>14, NumberedFrame DEF Later, SameWriter
<1>20. e \in use.readers /\ Alive(e)' => Carried(e)'
  <2> SUFFICES ASSUME e \in use.readers PROVE Carried(e)'
    OBVIOUS
  <2>1. Carried(e) /\ in[e] \in Nat
    BY <1>1 DEF IInv, Carries, TypeOK
  <2>2. ~pap[e].read_ignore
    BY <1>1, OneUse DEF Asking
  <2>3. pap'[e].rcv = dreq[e].segs /\ pap'[e].eof = pap[e].eof
    BY <1>8, <1>9, <2>2 DEF Same, SameReader
  <2>4. Fin(w)' <=> Fin(w)
    BY <1>3, <1>9 DEF Fin
  <2> QED
    BY <1>1, <1>2, <1>3, <1>5, <1>6, <2>1, <2>3, <2>4, EmptyStream DEF Carried
<1>21. w \in use.readers /\ Alive(w)' => Carried(w)'
  BY <1>2, <1>3, <1>6, <1>9, <1>14, CarriedFrame DEF Later
<1> QED
  BY <1>2, <1>3, <1>12, <1>14, <1>15, <1>16, <1>17, <1>18, <1>19, <1>20, <1>21,
     Assemble, BothEnds DEF Later

-----------------------------------------------------------------------------
(* The invariant. *)

(* A session as it is opened, with the header the library has set. *)
LEMMA OpenedDoes ==
    ASSUME NEW s \in BOOLEAN, NEW h \in {"none", "part"}
    PROVE  LET p == [Opened(s) EXCEPT !.hdr = h]
           IN  /\ p \in PapState /\ p.hdr = h /\ ~p.timer /\ ~p.closing /\ ~p.read
               /\ ~p.read_ignore /\ p.rcv = <<>> /\ ~p.eof /\ p.send_count = 1
               /\ p.rcv_count = 1 /\ p.request = 0 /\ p.request_count = NRequests
<1>1. 1 \in 1 .. MaxSeq /\ NRequests \in 0 .. NRequests /\ 0 \in 0 .. Segs
  BY ConstantAssumption
<1>2. <<>> \in Seq(Item)
  OBVIOUS
<1> DEFINE o == Opened(s)
<1>3. /\ o \in PapState /\ ~o.timer /\ ~o.closing /\ ~o.read
      /\ ~o.read_ignore /\ o.rcv = <<>> /\ ~o.eof /\ o.send_count = 1
      /\ o.rcv_count = 1 /\ o.request = 0 /\ o.request_count = NRequests
  BY <1>1, <1>2 DEF Opened, PapState
<1> HIDE DEF o
<1>4. LET p == [o EXCEPT !.hdr = h]
      IN  /\ p \in PapState /\ p.hdr = h /\ ~p.timer /\ ~p.closing /\ ~p.read
          /\ ~p.read_ignore /\ p.rcv = <<>> /\ ~p.eof /\ p.send_count = 1
          /\ p.rcv_count = 1 /\ p.request = 0 /\ p.request_count = NRequests
  BY <1>3 DEF PapState
<1> QED
  BY <1>4 DEF o

LEMMA InitHolds ==
    ASSUME Init
    PROVE  IInv
<1>1. \A e \in End : /\ pap[e] \in PapState /\ ~pap[e].timer /\ ~pap[e].closing
                     /\ ~pap[e].read /\ ~pap[e].read_ignore /\ pap[e].rcv = <<>>
                     /\ ~pap[e].eof /\ pap[e].send_count = 1 /\ pap[e].rcv_count = 1
                     /\ pap[e].request = 0 /\ pap[e].request_count = NRequests
  <2> SUFFICES ASSUME NEW e \in End
               PROVE  /\ pap[e] \in PapState /\ ~pap[e].timer /\ ~pap[e].closing
                      /\ ~pap[e].read /\ ~pap[e].read_ignore /\ pap[e].rcv = <<>>
                      /\ ~pap[e].eof /\ pap[e].send_count = 1 /\ pap[e].rcv_count = 1
                      /\ pap[e].request = 0 /\ pap[e].request_count = NRequests
    OBVIOUS
  <2> DEFINE s == e \in use.reused
             h == IF e = Client THEN "part" ELSE "none"
  <2>1. s \in BOOLEAN /\ h \in {"none", "part"}
    OBVIOUS
  <2>2. pap[e] = [Opened(s) EXCEPT !.hdr = h]
    BY DEF Init
  <2> HIDE DEF s, h
  <2> DEFINE p == [Opened(s) EXCEPT !.hdr = h]
  <2>3. /\ p \in PapState /\ ~p.timer /\ ~p.closing /\ ~p.read
        /\ ~p.read_ignore /\ p.rcv = <<>> /\ ~p.eof /\ p.send_count = 1
        /\ p.rcv_count = 1 /\ p.request = 0 /\ p.request_count = NRequests
    BY <2>1, OpenedDoes
  <2>4. pap[e] = p
    BY <2>2
  <2> HIDE DEF p
  <2> QED
    BY <2>3, <2>4
<1>2. /\ NoQueues \in Queues /\ NoQueues.wq = <<>> /\ NoQueues.rq = <<>> /\ ~NoQueues.hup
      /\ <<>> \in Seq(Item)
  <2>1. <<>> \in Seq(Command) /\ <<>> \in Seq(1 .. MaxSeq) /\ <<>> \in Seq(Item)
    OBVIOUS
  <2> QED
    BY <2>1 DEF NoQueues, Queues
<1>3. \A e \in End : /\ dreq[e] \in Request /\ dreq[e].st = "none" /\ dreq[e].segs = <<>>
                     /\ ~dreq[e].again
  BY <1>2, ConstantAssumption DEF Init, Request
<1>4. TypeOK
  <2>1. pap \in [End -> PapState]
    BY <1>1 DEF Init
  <2>2. str \in [End -> Queues] /\ dreq \in [End -> Request]
    BY <1>2, <1>3 DEF Init
  <2> QED
    BY <2>1, <2>2 DEF Init, TypeOK, Queues
<1>5. NRequests > 0
  BY ConstantAssumption
<1>6. ASSUME NEW e \in End PROVE Local(e)
  BY <1>1, <1>2, <1>5
     DEF Init, Local, Quiet, Commands, HungUp, Waiting, Supplied, Attended
<1>7. OneRequest
  BY <1>1, <1>3 DEF Init, OneRequest, Asking
<1>8. Sequenced
  <2> SUFFICES ASSUME NEW e \in End PROVE Numbered(e)
    BY DEF Sequenced
  <2>1. Peer[e] \in End
    BY TheEnds
  <2> QED
    BY <1>1, <1>2, <1>3, <2>1 DEF Init, Numbered
<1>9. Carries
  <2> SUFFICES ASSUME NEW e \in End PROVE Carried(e)
    BY DEF Carries
  <2>1. Peer[e] \in End
    BY TheEnds
  <2>2. in[e] = 0 /\ out[Peer[e]] = 0
    BY <2>1 DEF Init
  <2> QED
    BY <1>1, <1>3, <2>1, <2>2, EmptyStream DEF Carried
<1> QED
  BY <1>4, <1>6, <1>7, <1>8, <1>9 DEF IInv

(* A step that neither writes nor answers a READ. *)
Silent(e) ==
    \/ GetData(e) \/ GetTickle(e) \/ GetClose(e) \/ TickleIssued(e) \/ GetResponse(e)
    \/ RcbExpire(e) \/ Rsrvc(e) \/ ReqTimeout(e) \/ IgnoreTimeout(e)
    \/ NoCommand(e) \/ SetHdr(e) \/ ReadIgnore(e) \/ ReadAsks(e) \/ ReadWaits(e)
    \/ Refused(e) \/ WriteWaits(e)
    \/ SetHdrBlocked(e) \/ ReadBlocked(e) \/ WriteBlocked(e) \/ Again(e)
    \/ \E op \in Op : Issue(e, op)
    \/ Interrupt(e) \/ PapTimeout(e) \/ Crash(e)
    \/ Close(e) \/ CloseEof(e) \/ CloseTickle(e) \/ CloseFinish(e) \/ FinishAck(e)
    \/ CloseConn(e) \/ Closed(e)

LEMMA SilentKeeps ==
    ASSUME IInv, NEW e \in End, Silent(e)
    PROVE  IInv' /\ Onward(e) /\ UNCHANGED <<out, in, told>>
<1>1. CASE GetData(e)
  BY <1>1, GetDataKeeps DEF GetData
<1>2. CASE GetTickle(e) \/ TickleIssued(e) \/ FinishAck(e)
  BY <1>2, TicklesKeep DEF GetTickle, TickleIssued, FinishAck
<1>3. CASE GetClose(e)
  BY <1>3, GetCloseKeeps DEF GetClose
<1>4. CASE GetResponse(e)
  BY <1>4, GetResponseKeeps DEF GetResponse
<1>5. CASE RcbExpire(e)
  BY <1>5, RcbExpireKeeps DEF RcbExpire
<1>6. CASE Rsrvc(e)
  BY <1>6, RsrvcKeeps DEF Rsrvc
<1>7. CASE IgnoreTimeout(e)
  BY <1>7, IgnoreTimeoutKeeps DEF IgnoreTimeout
<1>8. CASE \/ NoCommand(e) \/ SetHdrBlocked(e) \/ ReadBlocked(e) \/ ReadWaits(e)
           \/ WriteWaits(e) \/ WriteBlocked(e) \/ Again(e) \/ ReqTimeout(e)
  BY <1>8, WaitsKeep DEF NoCommand, SetHdrBlocked, ReadBlocked, ReadWaits, WriteWaits,
                         WriteBlocked, Again, ReqTimeout
<1>9. CASE SetHdr(e)
  BY <1>9, SetHdrKeeps DEF SetHdr
<1>10. CASE ReadIgnore(e)
  BY <1>10, ReadIgnoreKeeps DEF ReadIgnore
<1>11. CASE ReadAsks(e)
  BY <1>11, ReadAsksKeeps DEF ReadAsks
<1>12. CASE Refused(e)
  BY <1>12, RefusedKeeps DEF Refused
<1>13. CASE \E op \in Op : Issue(e, op)
  BY <1>13, IssueKeeps DEF Issue
<1>14. CASE Interrupt(e)
  BY <1>14, InterruptKeeps DEF Interrupt
<1>15. CASE PapTimeout(e)
  BY <1>15, PapTimeoutKeeps DEF PapTimeout
<1>16. CASE Close(e)
  BY <1>16, CloseKeeps DEF Close
<1>17. CASE CloseEof(e)
  BY <1>17, CloseEofKeeps DEF CloseEof
<1>18. CASE CloseFinish(e)
  BY <1>18, CloseFinishKeeps DEF CloseFinish
<1>19. CASE Crash(e) \/ CloseTickle(e) \/ CloseConn(e) \/ Closed(e)
  BY <1>19, LastStepsKeep DEF Crash, CloseTickle, CloseConn, Closed
<1> QED
  BY <1>1, <1>2, <1>3, <1>4, <1>5, <1>6, <1>7, <1>8, <1>9, <1>10, <1>11, <1>12, <1>13,
     <1>14, <1>15, <1>16, <1>17, <1>18, <1>19 DEF Silent

LEMMA NextKeeps ==
    ASSUME IInv, [Next]_vars
    PROVE  IInv'
<1>1. CASE UNCHANGED vars
  <2>1. TypeOK' /\ \A e \in End : Alive(e)' <=> Alive(e)
    BY <1>1 DEF vars, IInv, TypeOK, Alive
  <2>2. ASSUME NEW e \in End PROVE Local(e)'
    <3>1. Local(e)
      BY DEF IInv
    <3> QED
      BY <1>1, <3>1 DEF vars, Local, Quiet, Commands, HungUp, Waiting, Supplied, Attended,
                        Alive
  <2>3. OneRequest'
    BY <1>1 DEF vars, IInv, OneRequest, Asking, Alive
  <2>4. Sequenced'
    BY <1>1 DEF vars, IInv, Sequenced, Numbered, Alive
  <2>5. Carries'
    BY <1>1 DEF vars, IInv, Carries, Carried, Alive, Fin
  <2> QED
    BY <2>1, <2>2, <2>3, <2>4, <2>5 DEF IInv
<1>2. CASE Next
  <2>1. PICK e \in End : Silent(e) \/ Write(e) \/ ReadAnswered(e)
    BY <1>2 DEF Next, Serve, Silent
  <2> QED
    BY <2>1, SilentKeeps, WriteKeeps, ReadAnsweredKeeps
<1> QED
  BY <1>1, <1>2

(* IInv holds in every reachable state, whatever the connection is used for.    *)
LEMMA Inductive == Spec => []IInv
<1>1. Init => IInv
  BY InitHolds
<1>2. IInv /\ [Next]_vars => IInv'
  BY NextKeeps
<1> QED
  BY <1>1, <1>2, PTL DEF Spec

-----------------------------------------------------------------------------
(* The invariants of Pap. *)

(* Both ends, their queues and their requests keep to their types, however many *)
(* items are written and however often the sequence numbers wrap.               *)
THEOREM TypeCorrect == Spec => []TypeOK
<1>1. IInv => TypeOK
  BY DEF IInv
<1> QED
  BY <1>1, Inductive, PTL

(* A command at the head of an open session's write queue is a write that no    *)
(* request waits for, or a READ whose request is under way, or the queue is     *)
(* enabled or will be by a callout or by the queue downstream.  A READ's        *)
(* request was dropped by an open end only if it had been answered before:      *)
(* that READ, and no other command, is forgotten.                               *)
THEOREM NeverStalls == Spec => []NoStall
<1>1. IInv => NoStall
  <2> SUFFICES ASSUME IInv PROVE NoStall
    OBVIOUS
  <2> SUFFICES ASSUME NEW e \in End, phase[e] = "open"
               PROVE  /\ str[e].wq # <<>> /\ ~str[e].wen /\ ~str[e].again =>
                          \/ Head(str[e].wq).op = "READ" /\ pap[e].read
                          \/ Head(str[e].wq).op \in Writing /\ pap[e].request = 0
                               /\ (str[e].rq = <<>> \/ str[e].ren)
                      /\ pap[e].read \/ pap[e].read_ignore =>
                           \/ dreq[e].st \in {"sent", "taken", "done"}
                           \/ ign[e] \/ Swallowed(e)
    BY DEF NoStall
  <2>1. Attended(str[e], pap[e])
    BY DEF IInv, Local
  <2>2. Asking(e)
    BY DEF IInv, OneRequest, Alive
  <2>3. dreq[e].st \in {"none", "sent", "taken", "lost", "done"}
    BY DEF IInv, TypeOK, Request
  <2>4. dreq[e].st = "lost" => Swallowed(e)
    <3> SUFFICES ASSUME dreq[e].st = "lost", phase[Peer[e]] = "open"
                 PROVE  dreq[e].again
      BY DEF Swallowed
    <3>1. Numbered(e)
      BY DEF IInv, Sequenced, Alive
    <3> QED
      BY <3>1 DEF Numbered
  <2>5. pap[e].read \/ pap[e].read_ignore =>
            dreq[e].st \in {"sent", "taken", "done"} \/ ign[e] \/ Swallowed(e)
    BY <2>2, <2>3, <2>4 DEF Asking
  <2> QED
    BY <2>1, <2>5 DEF Attended
<1> QED
  BY <1>1, Inductive, PTL

(* A session never runs out of GET_REQUESTs with ATP for good: it has one, or   *)
(* pap_rsrvc will run and issue it.                                             *)
THEOREM AlwaysPrimed == Spec => []Primed
<1>1. IInv => Primed
  BY DEF IInv, Local, Supplied, Primed
<1> QED
  BY <1>1, Inductive, PTL

(* A request that pap_rputq drops as bogus is one that was answered before: the *)
(* two counters cannot come apart, whatever is lost, repeated or wraps.         *)
THEOREM NoFreshDropped == Spec => []FreshTaken
<1>1. IInv => FreshTaken
  <2> SUFFICES ASSUME IInv, NEW e \in End, dreq[e].st = "lost", phase[Peer[e]] = "open"
               PROVE  dreq[e].again
    BY DEF FreshTaken
  <2>1. Numbered(e)
    BY DEF IInv, Sequenced, Alive
  <2> QED
    BY <2>1 DEF Numbered
<1> QED
  BY <1>1, Inductive, PTL

(* pap_timeout never finds a session that has begun to close: it would hang up  *)
(* a stream that is no longer the session's.                                    *)
THEOREM TimeoutDies == Spec => []TimerDies
<1>1. IInv => TimerDies
  BY DEF IInv, Local, Quiet, TimerDies
<1> QED
  BY <1>1, Inductive, PTL

-----------------------------------------------------------------------------
(* The refinement. *)

LEMMA UptoAtLeast ==
    ASSUME NEW q \in Seq(Item), NEW n \in Nat
    PROVE  Upto(q, n) \in Nat /\ Upto(q, n) >= n
<1>1. Len(q) \in Nat /\ (q # <<>> => Len(q) > 0)
  OBVIOUS
<1> QED
  BY <1>1 DEF Upto, Ended

(* fin of PapStreams is Fin. *)
LEMMA FinIs ==
    [e \in End |-> pap[e].eof_sent \/ phase[e] # "open"] = [e \in End |-> Fin(e)]
  BY DEF Fin

LEMMA SilentRefines ==
    ASSUME NEW e \in End, Onward(e), UNCHANGED <<out, in, told>>
    PROVE  [Abstract!Next]_Abstract!vars
<1> DEFINE f == [x \in End |-> Fin(x)]
<1>1. \A x \in End \ {e} : Fin(x)' = Fin(x)
  BY DEF Onward, Others, Fin
<1>2. CASE Fin(e)'
  <2>1. f' = [f EXCEPT ![e] = TRUE]
    <3>1. Fin(e)' = TRUE
      BY <1>2 DEF Fin
    <3> QED
      BY <1>1, <3>1
  <2> QED
    BY <2>1 DEF Fin, Abstract!Next, Abstract!Finish
<1>3. CASE ~Fin(e)'
  <2>1. f' = f
    <3>1. ~Fin(e)
      BY <1>3 DEF Onward
    <3>2. Fin(e)' = Fin(e)
      BY <1>3, <3>1 DEF Fin
    <3> QED
      BY <1>1, <3>2
  <2> QED
    BY <2>1 DEF Fin, Abstract!vars
<1> QED
  BY <1>2, <1>3

LEMMA WriteRefines ==
    ASSUME IInv, NEW e \in End, Write(e)
    PROVE  [Abstract!Next]_Abstract!vars
<1>1. Onward(e) /\ UNCHANGED <<in, told>> /\ ~RefusesWrite(pap[e])
  BY WriteKeeps DEF Write
<1>2. CASE out' = out
  BY <1>1, <1>2, SilentRefines
<1>3. CASE out' # out
  <2>1. /\ Head(str[e].wq).op # "WRITE_EOF" /\ out' = [out EXCEPT ![e] = @ + 1]
        /\ phase' = phase /\ phase[e] = "open" /\ pap[e] \in PapState
        /\ TypeOK
    <3>1. At(e, Writing)
      BY DEF Write
    <3>2. out = [out EXCEPT ![e] = out[e]]
      BY DEF IInv, TypeOK
    <3> QED
      BY <1>3, <3>1, <3>2, AtOpen DEF Write, IInv
  <2> DEFINE f == [x \in End |-> Fin(x)]
  <2>2. ~Fin(e) /\ ~Fin(e)'
    <3>1. ~pap[e].eof_sent
      BY <1>1 DEF RefusesWrite
    <3>2. ~pap'[e].eof_sent
      BY <2>1 DEF Write, TypeOK, PapState
    <3> QED
      BY <2>1, <3>1, <3>2 DEF Fin
  <2>3. f' = f
    BY <1>1, <2>2 DEF Onward, Others, Fin
  <2>4. ~f[e]
    BY <2>2
  <2> QED
    BY <1>1, <2>1, <2>3, <2>4 DEF Fin, Abstract!Next, Abstract!Write
<1> QED
  BY <1>2, <1>3

(* 0 bytes are read at the end of the other end's stream only, unless nobody is *)
(* there to read them; and otherwise the next item.                             *)
LEMMA ReadRefines ==
    ASSUME IInv, NEW e \in End, ReadAnswered(e)
    PROVE  [Abstract!Next]_Abstract!vars
<1> DEFINE p == pap[e]
           i == Head(pap[e].rcv)
           f == [x \in End |-> Fin(x)]
<1>1. /\ TypeOK /\ p \in PapState /\ Alive(e) /\ Local(e) /\ Asking(e)
      /\ phase[e] = "open" /\ str[e].wq # <<>> /\ str[e].wq \in Seq(Command)
      /\ str[e].wq[1] = Head(str[e].wq) /\ Head(str[e].wq).op = "READ"
      /\ 1 \in DOMAIN str[e].wq
  <2>1. At(e, {"READ"})
    BY DEF ReadAnswered
  <2> QED
    BY <2>1, AtOpen, TailDoes DEF IInv
<1>2. PICK w \in End \ {e} : w = Peer[e]
  BY TheEnds
<1>3. e \in use.readers /\ e \notin use.ignorers
  BY <1>1, OneUse DEF Local, Commands
<1>4. /\ Carried(e) /\ in[e] \in Nat /\ out[w] \in Nat /\ p.rcv \in Seq(Item)
      /\ told \in [End -> BOOLEAN]
  BY <1>1, <1>3 DEF IInv, Carries, TypeOK, PapState
<1>5. out' = out /\ phase' = phase
  BY DEF ReadAnswered
<1>6. f' = f
  <2>1. \A x \in End : pap'[x].eof_sent = pap[x].eof_sent
    <3>1. Onward(e)
      BY ReadAnsweredKeeps
    <3>2. pap'[e].eof_sent = pap[e].eof_sent
      <4>1. \/ pap' = pap \/ pap' = [pap EXCEPT ![e].error = "none"]
            \/ pap' = [pap EXCEPT ![e].eof = i.eof,
                                  ![e].rcv = IF i.eof THEN <<>> ELSE Tail(@)]
        BY DEF ReadAnswered
      <4> DEFINE z == i.eof
                 r == IF i.eof THEN <<>> ELSE Tail(p.rcv)
      <4>2. \/ pap' = pap \/ pap' = [pap EXCEPT ![e] = [p EXCEPT !.error = "none"]]
            \/ pap' = [pap EXCEPT ![e] = [p EXCEPT !.eof = z, !.rcv = r]]
        BY <4>1
      <4> HIDE DEF z, r
      <4>3. /\ [p EXCEPT !.error = "none"].eof_sent = p.eof_sent
            /\ [p EXCEPT !.eof = z, !.rcv = r].eof_sent = p.eof_sent
        BY <1>1 DEF PapState
      <4> QED
        BY <1>1, <4>2, <4>3 DEF TypeOK
    <3> QED
      BY <3>1, <3>2 DEF Onward, Others
  <2>2. \A x \in End : Fin(x)' = Fin(x)
    BY <1>5, <2>1 DEF Fin
  <2> QED
    BY <2>2
<1>7. f[w] <=> Fin(w)
  OBVIOUS
<1>8. CASE in' = in /\ told' = told
  BY <1>5, <1>6, <1>8 DEF Fin, Abstract!vars
<1>9. CASE in' = in /\ Tells(e) /\ (Head(str[e].wq).live => Fin(w) /\ in[e] = out[w])
  <2>1. CASE Head(str[e].wq).live
    <3>1. told' = [told EXCEPT ![e] = TRUE]
      BY <1>9, <2>1 DEF Tells
    <3> QED
      BY <1>2, <1>5, <1>6, <1>7, <1>9, <2>1, <3>1 DEF Fin, Abstract!Next, Abstract!ReadEnd
  <2>2. CASE ~Head(str[e].wq).live
    <3>1. told' = told
      BY <1>4, <1>9, <2>2 DEF Tells
    <3> QED
      BY <1>8, <1>9, <3>1
  <2> QED
    BY <2>1, <2>2
<1>10. CASE p.eof /\ Tells(e) /\ in' = in
  BY <1>2, <1>4, <1>9, <1>10 DEF Carried
<1>11. CASE p.rcv = <<>> /\ p.closing /\ ~p.read /\ Tells(e) /\ in' = in
  <2> SUFFICES ASSUME Head(str[e].wq).live PROVE Fin(w) /\ in[e] = out[w]
    BY <1>9, <1>11
  <2>1. ~str[e].hup
    BY <1>1 DEF Local, HungUp, Waiting
  <2>2. Fin(w)
    BY <1>1, <1>2, <1>11, <2>1 DEF Local, HungUp, Fin
  <2>3. dreq[e].st = "none"
    BY <1>1, <1>3, <1>11 DEF Asking
  <2> QED
    BY <1>2, <1>4, <1>11, <2>2, <2>3, EmptyStream DEF Carried
<1>12. CASE /\ p.rcv # <<>> /\ ~p.eof
            /\ in' = [in EXCEPT ![e] = IF i.d = 0 THEN @ ELSE i.d]
            /\ IF i.d = 0 THEN Tells(e) ELSE UNCHANGED told
  <2>1. Continues(p.rcv, in[e]) /\ out[w] = Upto(p.rcv, in[e]) /\ (Ended(p.rcv) => Fin(w))
    BY <1>2, <1>4, <1>12 DEF Carried
  <2>2. \/ i = Eof /\ Ended(p.rcv) /\ out[w] = in[e]
        \/ i = [d |-> in[e] + 1, eof |-> FALSE] /\ in[e] < out[w]
    <3>1. CASE i = Eof /\ Ended(p.rcv) /\ Upto(p.rcv, in[e]) = in[e]
      BY <2>1, <3>1
    <3>2. CASE /\ i = [d |-> in[e] + 1, eof |-> FALSE]
               /\ Upto(Tail(p.rcv), in[e] + 1) = Upto(p.rcv, in[e])
      <4>1. Tail(p.rcv) \in Seq(Item) /\ in[e] + 1 \in Nat
        BY <1>4, <1>12, TailDoes
      <4>2. out[w] >= in[e] + 1
        BY <2>1, <3>2, <4>1, UptoAtLeast
      <4> QED
        BY <1>4, <3>2, <4>2
    <3> QED
      BY <1>4, <1>12, <2>1, <3>1, <3>2, StreamTail
  <2>3. CASE i = Eof /\ Ended(p.rcv) /\ out[w] = in[e]
    <3>1. i.d = 0
      BY <2>3 DEF Eof
    <3>2. in' = in /\ Tells(e)
      BY <1>1, <1>12, <3>1 DEF TypeOK
    <3> QED
      BY <1>9, <2>1, <2>3, <3>2
  <2>4. CASE i = [d |-> in[e] + 1, eof |-> FALSE] /\ in[e] < out[w]
    <3>1. i.d = in[e] + 1 /\ i.d # 0
      BY <1>4, <2>4
    <3>2. in' = [in EXCEPT ![e] = in[e] + 1] /\ told' = told
      BY <1>12, <3>1
    <3> QED
      BY <1>2, <1>5, <1>6, <2>4, <3>2 DEF Fin, Abstract!Next, Abstract!Read
  <2> QED
    BY <2>2, <2>3, <2>4
<1> QED
  BY <1>8, <1>10, <1>11, <1>12 DEF ReadAnswered

(* The connection implements the two streams of PapStreams: every step of Pap   *)
(* is a step of theirs or changes nothing of them.  What is read is what was    *)
(* written, in order and once, through lost responses and numbers that wrap,    *)
(* and 0 bytes are read only at the end of what the other end wrote.            *)
THEOREM CarriesStreams == Spec => Streams
<1>1. Init => Abstract!Init
  <2> SUFFICES ASSUME Init PROVE Abstract!Init
    OBVIOUS
  <2>1. \A e \in End : pap[e].eof_sent = FALSE /\ phase[e] = "open"
    BY DEF Init, Opened
  <2>2. \A e \in End : Fin(e) = FALSE
    BY <2>1 DEF Fin
  <2> QED
    BY <2>2, FinIs DEF Init, Abstract!Init
<1>2. IInv /\ [Next]_vars => [Abstract!Next]_Abstract!vars
  <2> SUFFICES ASSUME IInv, [Next]_vars PROVE [Abstract!Next]_Abstract!vars
    OBVIOUS
  <2>1. CASE UNCHANGED vars
    BY <2>1 DEF vars, Abstract!vars
  <2>2. CASE Next
    <3>1. PICK e \in End : Silent(e) \/ Write(e) \/ ReadAnswered(e)
      BY <2>2 DEF Next, Serve, Silent
    <3> QED
      BY <3>1, SilentKeeps, SilentRefines, WriteRefines, ReadRefines
  <2> QED
    BY <2>1, <2>2
<1> QED
  BY <1>1, <1>2, Inductive, PTL DEF Spec, Streams, Abstract!Spec
=============================================================================
