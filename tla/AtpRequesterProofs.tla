------------------------- MODULE AtpRequesterProofs -------------------------
(***************************************************************************)
(* Theorems about AtpRequester, for any number of sockets, transaction     *)
(* control blocks and requests: its type invariant, that no wakeup for a   *)
(* tcb is lost, and that no socket with work to do is forgotten.           *)
(***************************************************************************)
EXTENDS AtpRequester, AtpStreamProofs

-----------------------------------------------------------------------------
(* Helpers of the model. *)

(* Appending a tcb to one of the lists leaves lists. *)
LEMMA AppendAtType ==
  ASSUME NEW f \in [Sock -> Seq(Trans)], NEW s, NEW t \in Trans
  PROVE  [f EXCEPT ![s] = Append(@, t)] \in [Sock -> Seq(Trans)]
<1>1. CASE s \in Sock
  <2>1. Append(f[s], t) \in Seq(Trans)
    BY <1>1
  <2> QED BY <2>1
<1>2. CASE s \notin Sock
  BY <1>2
<1> QED BY <1>1, <1>2

(* A free tcb, and what finishing one makes of it, are tcbs. *)
LEMMA FreeTcbType == FreeTcb \in Tcb
  BY ConstantAssumption DEF FreeTcb, Tcb, TransState, Tid, Seg

LEMMA FinishedType ==
  ASSUME NEW c \in Tcb, NEW state \in TransState
  PROVE  Finished(c, state) \in Tcb
  BY DEF Finished, Tcb

(* A tcb whose request has been sent is a tcb. *)
LEMMA SentType ==
  ASSUME NEW c \in Tcb
  PROVE  [c EXCEPT !.state = "TIMEOUT", !.sent = TRUE] \in Tcb
  BY DEF Tcb, TransState

(* So is one that is retried, and one that has received a segment. *)
LEMMA RetriedType ==
  ASSUME NEW c \in Tcb, c.retry > 0
  PROVE  [c EXCEPT !.hdr = c.bitmap, !.retry = IF @ = Infinite THEN @ ELSE @ - 1] \in Tcb
<1>1. c.retry \in Nat
  BY DEF Tcb
<1>2. (IF c.retry = Infinite THEN c.retry ELSE c.retry - 1) \in Nat
  BY <1>1
<1> QED BY <1>2 DEF Tcb

LEMMA ReceivedType ==
  ASSUME NEW c \in Tcb, NEW g \in Seg, NEW eom \in BOOLEAN
  PROVE  LET c1 == [c EXCEPT !.bitmap = IF eom THEN {b \in @ : b < g} ELSE @ \ {g},
                             !.rcv = @ \cup {g}]
         IN  c1 \in Tcb /\ [c1 EXCEPT !.state = "TIMEOUT"] \in Tcb
<1> DEFINE c1 == [c EXCEPT !.bitmap = IF eom THEN {b \in @ : b < g} ELSE @ \ {g},
                           !.rcv = @ \cup {g}]
<1>1. /\ (IF eom THEN {b \in c.bitmap : b < g} ELSE c.bitmap \ {g}) \in SUBSET Seg
      /\ c.rcv \cup {g} \in SUBSET Seg
  BY DEF Tcb
<1>2. c1 \in Tcb
  BY <1>1 DEF Tcb
<1>3. [c1 EXCEPT !.state = "TIMEOUT"] \in Tcb
  <2> HIDE DEF c1
  <2> QED BY <1>2 DEF Tcb, TransState
<1> QED BY <1>2, <1>3

(* A request has a socket and segments within the protocol's eight. *)
LEMMA RequestType ==
  ASSUME NEW r \in Req
  PROVE  /\ r.sock \in Sock /\ r.kind \in Kind /\ r.xo \in BOOLEAN /\ r.retry \in Nat
         /\ 0 .. r.ask - 1 \in SUBSET Seg
  BY RequestAssumption DEF Seg

-----------------------------------------------------------------------------
(* The shared parts of the actions keep the types. *)

LEMMA AtpFreeType ==
  ASSUME TypeOK, NEW t \in Trans, NEW reqs \in [Trans -> Nat], NEW dones \in [Trans -> Nat],
         AtpFree(t, reqs, dones)
  PROVE  /\ reqTimer' \in [Trans -> Nat]
         /\ doneTimer' \in [Trans -> Nat]
         /\ finish' \in [Sock -> BOOLEAN]
         /\ tcb' \in [Trans -> Tcb]
         /\ transFree' \subseteq Trans
         /\ transWaiting' \subseteq Sock
         /\ enab' \in [Sock -> BOOLEAN]
<1>1. reqTimer' \in [Trans -> Nat] /\ doneTimer' \in [Trans -> Nat]
  BY UntimeoutType DEF AtpFree
<1>2. finish' \in [Sock -> BOOLEAN]
  BY DEF AtpFree, TypeOK
<1>3. tcb' \in [Trans -> Tcb]
  BY FreeTcbType DEF AtpFree, TypeOK
<1>4. transFree' \subseteq Trans /\ transWaiting' \subseteq Sock
  BY DEF AtpFree, WakeWaiting, TypeOK
<1>5. enab' \in [Sock -> BOOLEAN]
  BY DEF AtpFree, WakeWaiting, TypeOK
<1> QED BY <1>1, <1>2, <1>3, <1>4, <1>5

LEMMA AtpSendType ==
  ASSUME TypeOK, NEW t \in Trans, NEW c \in Tcb, AtpSend(t, c)
  PROVE  /\ tcb' \in [Trans -> Tcb]
         /\ transSnd' \in [Sock -> Seq(Trans)]
         /\ enab' \in [Sock -> BOOLEAN]
<1>1. [c EXCEPT !.state = "REQUEST"] \in Tcb
  BY DEF Tcb, TransState
<1>2. tcb' \in [Trans -> Tcb]
  BY <1>1 DEF AtpSend, TypeOK
<1>3. transSnd' \in [Sock -> Seq(Trans)]
  <2>1. transSnd \in [Sock -> Seq(Trans)]
    BY DEF TypeOK
  <2>2. [transSnd EXCEPT ![c.queue] = Append(@, t)] \in [Sock -> Seq(Trans)]
    BY <2>1, AppendAtType
  <2> QED BY <2>1, <2>2 DEF AtpSend
<1>4. enab' \in [Sock -> BOOLEAN]
  BY DEF AtpSend, TypeOK
<1> QED BY <1>2, <1>3, <1>4

LEMMA ReplyType ==
  ASSUME TypeOK, NEW r, NEW o \in ProcState, NEW got \in SUBSET Seg, Reply(r, o, got)
  PROVE  /\ proc' \in [Req -> ProcState]
         /\ tidOf' \in [Req -> Tid]
         /\ result' \in [Req -> SUBSET Seg]
<1>1. 0 \in Tid
  BY ConstantAssumption DEF Tid
<1>2. proc' \in [Req -> ProcState]
  BY DEF Reply, TypeOK
<1>3. tidOf' \in [Req -> Tid]
  BY <1>1 DEF Reply, TypeOK
<1>4. result' \in [Req -> SUBSET Seg]
  BY DEF Reply, TypeOK
<1> QED BY <1>2, <1>3, <1>4

LEMMA AtpXDoneType ==
  ASSUME TypeOK, NEW t \in Trans, NEW c \in Tcb, NEW reqs \in [Trans -> Nat],
         NEW dones \in [Trans -> Nat], NEW snd \in [Sock -> Seq(Trans)],
         AtpXDone(t, c, reqs, dones, snd)
  PROVE  /\ reqTimer' \in [Trans -> Nat]
         /\ doneTimer' \in [Trans -> Nat]
         /\ finish' \in [Sock -> BOOLEAN]
         /\ tcb' \in [Trans -> Tcb]
         /\ transFree' \subseteq Trans
         /\ transWaiting' \subseteq Sock
         /\ transSnd' \in [Sock -> Seq(Trans)]
         /\ enab' \in [Sock -> BOOLEAN]
         /\ proc' \in [Req -> ProcState]
         /\ tidOf' \in [Req -> Tid]
         /\ result' \in [Req -> SUBSET Seg]
<1> DEFINE dones1 == [dones EXCEPT ![t] = Untimeout(@)]
           run    == LeadingRun(c.rcv)
           c1     == [c EXCEPT !.kept = run, !.rcv = @ \ run]
<1>1. dones1 \in [Trans -> Nat]
  BY UntimeoutType
<1>2. run \in SUBSET Seg
  BY DEF LeadingRun, Tcb
<1>3. c1 \in Tcb
  BY <1>2 DEF Tcb
<1> HIDE DEF dones1, run, c1
<1>4. CASE /\ tcb' = [tcb EXCEPT ![t] = [c EXCEPT !.state = "BUILD"]]
           /\ doneTimer' = [dones1 EXCEPT ![t] = @ + 1]
           /\ reqTimer' = reqs
           /\ transSnd' = snd
           /\ NoFree
           /\ UNCHANGED <<enab, procVars>>
  <2>1. [c EXCEPT !.state = "BUILD"] \in Tcb
    BY DEF Tcb, TransState
  <2> QED BY <1>1, <1>4, <2>1 DEF NoFree, procVars, TypeOK
<1>5. CASE /\ tcb' = [tcb EXCEPT ![t] = [c1 EXCEPT !.state = "RELEASE"]]
           /\ transSnd' = IF c.state = "TIMEOUT"
                          THEN [snd EXCEPT ![c.queue] = Append(@, t)] ELSE snd
           /\ enab' = [enab EXCEPT ![c.queue] = TRUE]
           /\ reqTimer' = reqs
           /\ doneTimer' = dones1
           /\ NoFree
           /\ UNCHANGED procVars
  <2>1. [c1 EXCEPT !.state = "RELEASE"] \in Tcb
    BY <1>3 DEF Tcb, TransState
  <2>2. transSnd' \in [Sock -> Seq(Trans)]
    BY <1>5, AppendAtType
  <2>3. enab' \in [Sock -> BOOLEAN] /\ tcb' \in [Trans -> Tcb]
    BY <1>5, <2>1 DEF TypeOK
  <2> QED BY <1>1, <1>5, <2>2, <2>3 DEF NoFree, procVars, TypeOK
<1>6. CASE /\ Reply(c.req, "ok", run)
           /\ transSnd' = snd
           /\ AtpFree(t, reqs, dones1)
  <2>1. "ok" \in ProcState
    BY DEF ProcState
  <2> QED BY <1>1, <1>2, <1>6, <2>1, AtpFreeType, ReplyType
<1>7. CASE /\ tcb' = [tcb EXCEPT ![t] = IF c.xmt = "ioctl" THEN Finished(c1, "DONE") ELSE c1]
           /\ reqTimer' = reqs
           /\ doneTimer' = dones1
           /\ transSnd' = snd
           /\ NoFree
           /\ UNCHANGED <<enab, procVars>>
  <2>1. Finished(c1, "DONE") \in Tcb
    BY <1>3, FinishedType DEF TransState
  <2> QED BY <1>1, <1>3, <1>7, <2>1 DEF NoFree, procVars, TypeOK
<1> QED BY <1>4, <1>5, <1>6, <1>7 DEF AtpXDone, dones1, run, c1

(* A command of these three kinds names a request and an id. *)
LEMMA HeadCommand ==
  ASSUME TypeOK, NEW s \in Sock, NEW op \in {"ISSUE", "POLL", "CANCEL"}, At(s, op)
  PROVE  Head(wq[s]).req \in Req /\ Head(wq[s]).tid \in Tid
<1>1. wq[s] \in Seq(Command) /\ wq[s] # <<>>
  BY DEF TypeOK, At
<1>2. Head(wq[s]) \in Command
  BY <1>1
<1> QED BY <1>2 DEF At, Command, ControlOp

(* Taking a command, or putting it back, leaves queues of commands. *)
LEMMA TakeCommandType ==
  ASSUME TypeOK, NEW s \in Sock, wq[s] # <<>>, TakeCommand(s)
  PROVE  wq' \in [Sock -> Seq(Command)] /\ wantr' \in [Sock -> BOOLEAN]
<1>1. wq[s] \in Seq(Command)
  BY DEF TypeOK
<1>2. Tail(wq[s]) \in Seq(Command)
  BY <1>1
<1> QED BY <1>2 DEF TakeCommand, TypeOK

(* The first transaction to send is a tcb. *)
LEMMA SendingType ==
  ASSUME TypeOK, NEW s \in Sock, transSnd[s] # <<>>
  PROVE  /\ Head(transSnd[s]) \in Trans
         /\ \A t \in Trans : [transSnd EXCEPT ![s] = Without(@, t)] \in [Sock -> Seq(Trans)]
<1>1. transSnd \in [Sock -> Seq(Trans)] /\ transSnd[s] \in Seq(Trans)
  BY DEF TypeOK
<1>2. \A t \in Trans : Without(transSnd[s], t) \in Seq(Trans)
  BY <1>1, WithoutType
<1> QED BY <1>1, <1>2

-----------------------------------------------------------------------------
(* Type correctness. *)

LEMMA InitType == Init => TypeOK
<1> SUFFICES ASSUME Init PROVE TypeOK
  OBVIOUS
<1>1. 0 \in Tid
  BY ConstantAssumption DEF Tid
<1>2. tcb \in [Trans -> Tcb]
  BY FreeTcbType DEF Init
<1>3. wq \in [Sock -> Seq(Command)] /\ transSnd \in [Sock -> Seq(Trans)]
  BY DEF Init, StreamInit
<1> QED BY <1>1, <1>2, <1>3 DEF Init, StreamInit, TypeOK, ProcState

LEMMA GiveType ==
  ASSUME TypeOK, NEW s \in Sock, NEW m \in Command, Give(s, m), proc' \in [Req -> ProcState]
  PROVE  TypeOK'
<1>1. wq[s] \in Seq(Command)
  BY DEF TypeOK
<1>2. Append(wq[s], m) \in Seq(Command)
  BY <1>1
<1>3. wq' \in [Sock -> Seq(Command)]
  BY <1>2 DEF Give, PutQ, TypeOK
<1> QED BY <1>3 DEF Give, PutQ, TypeOK, poolVars, timeVars

LEMMA ProcCommandType ==
  ASSUME TypeOK, NEW r \in Req, NEW from, NEW op \in {"ISSUE", "POLL", "CANCEL"},
         NEW to \in ProcState, ProcCommand(r, from, op, to)
  PROVE  TypeOK'
<1>1. [op |-> op, req |-> r, tid |-> tidOf[r]] \in Command
  BY DEF Command, TypeOK
<1>2. proc' \in [Req -> ProcState]
  BY DEF ProcCommand, TypeOK
<1> QED BY <1>1, <1>2, GiveType, RequestType DEF ProcCommand

(* The steps of the process, of the queue downstream and of the callouts that *)
(* touch no transaction.                                                      *)
LEMMA OutsideType ==
  ASSUME TypeOK
  PROVE  /\ \A r \in Req : Issue(r) \/ Poll(r) \/ Cancel(r) \/ Forget(r) => TypeOK'
         /\ \A s \in Sock : \A op \in Controls : Control(s, op) => TypeOK'
         /\ \A s \in Sock : Fill(s) \/ Drain(s) \/ Start(s) \/ Wwake(s) \/ Detach(s)
                              \/ AtpOpen(s) => TypeOK'
<1>1. ASSUME NEW r \in Req, Issue(r) \/ Poll(r) \/ Cancel(r) PROVE TypeOK'
  <2>1. {"issuing", "polling", "cancelling"} \subseteq ProcState
    BY DEF ProcState
  <2> QED BY <1>1, <2>1, ProcCommandType DEF Issue, Poll, Cancel
<1>2. ASSUME NEW r \in Req, Forget(r) PROVE TypeOK'
  <2>1. "idle" \in ProcState
    BY DEF ProcState
  <2>2. /\ proc' \in [Req -> ProcState]
        /\ tidOf' \in [Req -> Tid]
        /\ result' \in [Req -> SUBSET Seg]
    BY <1>2, <2>1, ReplyType DEF Forget
  <2> QED BY <1>2, <2>2 DEF Forget, TypeOK, poolVars, timeVars, strVars
<1>3. ASSUME NEW s \in Sock, NEW op \in Controls, Control(s, op) PROVE TypeOK'
  <2>1. [op |-> op] \in Command
    BY ConstantAssumption DEF Command
  <2>2. proc' \in [Req -> ProcState]
    BY <1>3 DEF Control, TypeOK
  <2> QED BY <1>3, <2>1, <2>2, GiveType DEF Control
<1>4. ASSUME NEW s \in Sock, Fill(s) \/ Drain(s) PROVE TypeOK'
  BY <1>4 DEF Fill, Fills, Drain, Drains, TypeOK, poolVars, timeVars, procVars
<1>5. ASSUME NEW s \in Sock, Start(s) \/ Wwake(s) \/ Detach(s) PROVE TypeOK'
  BY <1>5 DEF Start, RunQueue, Wwake, Wakes, Detach, Detaches, TypeOK, poolVars, timeVars,
              strVars, procVars
<1>6. ASSUME NEW s \in Sock, AtpOpen(s) PROVE TypeOK'
  <2>1. 0 \in Tid
    BY ConstantAssumption DEF Tid
  <2>2. transSnd' \in [Sock -> Seq(Trans)] /\ lastTid' \in [Sock -> Tid]
    BY <1>6, <2>1 DEF AtpOpen, Attaches, TypeOK
  <2> QED BY <1>6, <2>2 DEF AtpOpen, Attaches, TypeOK, timeVars, procVars
<1> QED BY <1>1, <1>2, <1>3, <1>4, <1>5, <1>6

(* The send loop of atp_wsrvc. *)
LEMMA SendLoopType ==
  ASSUME TypeOK, NEW s \in Sock,
         \/ SendBlocked(s) \/ SendNoSpace(s) \/ SendRelease(s) \/ SendRequest(s)
         \/ SendDangling(s) \/ SendDone(s)
  PROVE  TypeOK'
<1>1. CASE SendBlocked(s) \/ SendNoSpace(s) \/ SendDangling(s) \/ SendDone(s)
  BY <1>1 DEF SendBlocked, SendNoSpace, SendDangling, SendDone, Blocked, MemWait, TypeOK,
              poolVars, timeVars, procVars
<1>2. CASE SendRelease(s)
  <2> DEFINE t == Head(transSnd[s])
             c == tcb[t]
  <2>1. t \in Trans /\ c \in Tcb
    BY <1>2, SendingType DEF SendRelease, Sending, TypeOK
  <2>2. transSnd' \in [Sock -> Seq(Trans)]
    BY <1>2, <2>1, SendingType DEF SendRelease, Sending
  <2>3. CASE Reply(c.req, "ok", c.kept) /\ AtpFree(t, reqTimer, doneTimer)
    <3>1. "ok" \in ProcState /\ c.kept \in SUBSET Seg
      BY <2>1 DEF ProcState, Tcb
    <3>2. /\ proc' \in [Req -> ProcState]
          /\ tidOf' \in [Req -> Tid]
          /\ result' \in [Req -> SUBSET Seg]
      BY <2>3, <3>1, ReplyType
    <3>3. reqTimer \in [Trans -> Nat] /\ doneTimer \in [Trans -> Nat]
      BY DEF TypeOK
    <3>4. /\ reqTimer' \in [Trans -> Nat]
          /\ doneTimer' \in [Trans -> Nat]
          /\ finish' \in [Sock -> BOOLEAN]
          /\ tcb' \in [Trans -> Tcb]
          /\ transFree' \subseteq Trans
          /\ transWaiting' \subseteq Sock
          /\ enab' \in [Sock -> BOOLEAN]
      BY <2>1, <2>3, <3>3, AtpFreeType
    <3> QED BY <1>2, <2>2, <3>2, <3>4 DEF SendRelease, TypeOK
  <2>4. CASE /\ tcb' = [tcb EXCEPT ![t] = Finished(c, "DONE")]
             /\ NoFree
             /\ UNCHANGED <<reqTimer, doneTimer, enab, procVars>>
    <3>1. Finished(c, "DONE") \in Tcb
      BY <2>1, FinishedType DEF TransState
    <3> QED BY <1>2, <2>2, <2>4, <3>1 DEF SendRelease, NoFree, TypeOK, procVars
  <2> QED BY <1>2, <2>3, <2>4 DEF SendRelease
<1>3. CASE SendRequest(s)
  <2> DEFINE t == Head(transSnd[s])
  <2>1. t \in Trans
    BY <1>3, SendingType DEF SendRequest, Sending
  <2>2. transSnd' \in [Sock -> Seq(Trans)]
    BY <1>3, <2>1, SendingType DEF SendRequest, Sending
  <2>3. tcb' = [tcb EXCEPT ![t] = [@ EXCEPT !.state = "TIMEOUT", !.sent = TRUE]]
    BY <1>3, <2>1 DEF SendRequest, TypeOK, Tcb
  <2>4. [tcb[t] EXCEPT !.state = "TIMEOUT", !.sent = TRUE] \in Tcb
    BY <2>1, SentType DEF TypeOK
  <2>5. tcb' \in [Trans -> Tcb]
    BY <2>3, <2>4 DEF TypeOK
  <2>6. reqTimer' \in [Trans -> Nat]
    <3>1. reqTimer \in [Trans -> Nat]
      BY DEF TypeOK
    <3>2. reqTimer' = [reqTimer EXCEPT ![t] = @ + 1]
      BY <1>3 DEF SendRequest
    <3> HIDE DEF t
    <3> QED BY <2>1, <3>1, <3>2
  <2> QED BY <1>3, <2>2, <2>5, <2>6 DEF SendRequest, TypeOK, strVars, procVars
<1> QED BY <1>1, <1>2, <1>3

(* A step that has replied and freed a tcb keeps the types of what both change. *)
LEMMA ReplyFreeType ==
  ASSUME TypeOK, NEW t \in Trans, NEW r, NEW o \in ProcState, NEW got \in SUBSET Seg,
         NEW reqs \in [Trans -> Nat], Reply(r, o, got), AtpFree(t, reqs, doneTimer)
  PROVE  /\ reqTimer' \in [Trans -> Nat]
         /\ doneTimer' \in [Trans -> Nat]
         /\ finish' \in [Sock -> BOOLEAN]
         /\ tcb' \in [Trans -> Tcb]
         /\ transFree' \subseteq Trans
         /\ transWaiting' \subseteq Sock
         /\ enab' \in [Sock -> BOOLEAN]
         /\ proc' \in [Req -> ProcState]
         /\ tidOf' \in [Req -> Tid]
         /\ result' \in [Req -> SUBSET Seg]
<1>1. doneTimer \in [Trans -> Nat]
  BY DEF TypeOK
<1> QED BY <1>1, ReplyType, AtpFreeType

(* The ioctl loop of atp_wsrvc. *)
LEMMA CommandType ==
  ASSUME TypeOK, NEW s \in Sock,
         \/ Empty(s) \/ CommandBlocked(s) \/ IssueNoTrans(s) \/ IssueNoSpace(s)
         \/ PollAgain(s) \/ SetFinish(s) \/ Refuse(s)
         \/ \E t \in Trans : IssueRequest(s, t) \/ PollDone(s, t) \/ CancelRequest(s, t)
  PROVE  TypeOK'
<1>1. CASE Empty(s) \/ CommandBlocked(s) \/ IssueNoTrans(s)
  BY <1>1 DEF Empty, NoCommand, CommandBlocked, IssueNoTrans, Blocked, PutBack, TypeOK,
              poolVars, timeVars, procVars
<1>2. CASE IssueNoSpace(s)
  BY <1>2 DEF IssueNoSpace, MemWait, PutBack, WakeWaiting, TypeOK, timeVars, procVars
<1>3. CASE SetFinish(s) \/ Refuse(s)
  <2>1. wq' \in [Sock -> Seq(Command)] /\ wantr' \in [Sock -> BOOLEAN]
    BY <1>3, TakeCommandType DEF SetFinish, Refuse, At
  <2> QED BY <1>3, <2>1 DEF SetFinish, Refuse, TypeOK, poolVars, timeVars, procVars
<1>4. CASE PollAgain(s)
  <2>1. wq' \in [Sock -> Seq(Command)] /\ wantr' \in [Sock -> BOOLEAN]
    BY <1>4, TakeCommandType DEF PollAgain, At
  <2>2. proc' \in [Req -> ProcState]
    BY <1>4 DEF PollAgain, TypeOK, ProcState
  <2> QED BY <1>4, <2>1, <2>2 DEF PollAgain, TypeOK, poolVars, timeVars
<1>5. ASSUME NEW t \in Trans, IssueRequest(s, t) PROVE TypeOK'
  <2> DEFINE r == Head(wq[s]).req
  <2>1. r \in Req
    BY <1>5, HeadCommand DEF IssueRequest
  <2>2. wq' \in [Sock -> Seq(Command)] /\ wantr' \in [Sock -> BOOLEAN]
    BY <1>5, TakeCommandType DEF IssueRequest, At
  <2> HIDE DEF r
  <2>3. PICK i \in NextTid(s) :
             /\ lastTid' = [lastTid EXCEPT ![s] = i]
             /\ AtpSend(t, [req |-> r, queue |-> s, state |-> "TIMEOUT", tid |-> i,
                            retry |-> r.retry, bitmap |-> 0 .. r.ask - 1,
                            hdr |-> 0 .. r.ask - 1, rcv |-> {}, kept |-> {},
                            xmt |-> "ioctl", sent |-> FALSE])
             /\ IF r.kind = "REQ" THEN UNCHANGED <<proc, tidOf>>
                ELSE /\ proc' = [proc EXCEPT ![r] = "open"]
                     /\ tidOf' = [tidOf EXCEPT ![r] = i]
    BY <1>5 DEF IssueRequest, r
  <2>4. i \in Tid
    BY DEF NextTid
  <2> DEFINE c == [req |-> r, queue |-> s, state |-> "TIMEOUT", tid |-> i,
                   retry |-> r.retry, bitmap |-> 0 .. r.ask - 1,
                   hdr |-> 0 .. r.ask - 1, rcv |-> {}, kept |-> {},
                   xmt |-> "ioctl", sent |-> FALSE]
  <2>5. c \in Tcb
    BY <2>1, <2>4, RequestType DEF Tcb, TransState
  <2>6. AtpSend(t, c)
    BY <2>3
  <2> HIDE DEF c
  <2>7. /\ tcb' \in [Trans -> Tcb]
        /\ transSnd' \in [Sock -> Seq(Trans)]
        /\ enab' \in [Sock -> BOOLEAN]
    BY <2>5, <2>6, AtpSendType
  <2>8. proc' \in [Req -> ProcState] /\ tidOf' \in [Req -> Tid] /\ lastTid' \in [Sock -> Tid]
    BY <2>3, <2>4 DEF TypeOK, ProcState
  <2> QED BY <1>5, <2>2, <2>7, <2>8 DEF IssueRequest, TypeOK, timeVars
<1>6. ASSUME NEW t \in Trans, PollDone(s, t) PROVE TypeOK'
  <2>1. wq' \in [Sock -> Seq(Command)] /\ wantr' \in [Sock -> BOOLEAN]
    BY <1>6, TakeCommandType DEF PollDone, At
  <2>2. /\ {} \in SUBSET Seg /\ tcb[t].kept \in SUBSET Seg
        /\ "ok" \in ProcState /\ "timedout" \in ProcState /\ reqTimer \in [Trans -> Nat]
    BY DEF TypeOK, Tcb, ProcState
  <2>3. /\ reqTimer' \in [Trans -> Nat]
        /\ doneTimer' \in [Trans -> Nat]
        /\ finish' \in [Sock -> BOOLEAN]
        /\ tcb' \in [Trans -> Tcb]
        /\ transFree' \subseteq Trans
        /\ transWaiting' \subseteq Sock
        /\ enab' \in [Sock -> BOOLEAN]
        /\ proc' \in [Req -> ProcState]
        /\ tidOf' \in [Req -> Tid]
        /\ result' \in [Req -> SUBSET Seg]
    <3>1. CASE tcb[t].state = "FAILED"
      BY <1>6, <2>2, <3>1, ReplyFreeType DEF PollDone
    <3>2. CASE tcb[t].state # "FAILED"
      BY <1>6, <2>2, <3>2, ReplyFreeType DEF PollDone
    <3> QED BY <3>1, <3>2
  <2> QED BY <1>6, <2>1, <2>3 DEF PollDone, TypeOK
<1>7. ASSUME NEW t \in Trans, CancelRequest(s, t) PROVE TypeOK'
  <2>1. wq' \in [Sock -> Seq(Command)] /\ wantr' \in [Sock -> BOOLEAN]
    BY <1>7, TakeCommandType DEF CancelRequest, At
  <2>2. {} \in SUBSET Seg /\ "cancelled" \in ProcState /\ reqTimer \in [Trans -> Nat]
    BY DEF TypeOK, ProcState
  <2>3. /\ reqTimer' \in [Trans -> Nat]
        /\ doneTimer' \in [Trans -> Nat]
        /\ finish' \in [Sock -> BOOLEAN]
        /\ tcb' \in [Trans -> Tcb]
        /\ transFree' \subseteq Trans
        /\ transWaiting' \subseteq Sock
        /\ enab' \in [Sock -> BOOLEAN]
        /\ proc' \in [Req -> ProcState]
        /\ tidOf' \in [Req -> Tid]
        /\ result' \in [Req -> SUBSET Seg]
    BY <1>7, <2>2, ReplyFreeType DEF CancelRequest
  <2> QED BY <1>7, <2>1, <2>3 DEF CancelRequest, TypeOK
<1> QED BY <1>1, <1>2, <1>3, <1>4, <1>5, <1>6, <1>7

(* The responses and the callouts. *)
LEMMA TimerType ==
  ASSUME TypeOK, NEW t \in Trans, ReqTimeout(t) \/ DoneTimeout(t)
  PROVE  TypeOK'
<1> DEFINE c == tcb[t]
<1>1. c \in Tcb /\ reqTimer \in [Trans -> Nat] /\ doneTimer \in [Trans -> Nat]
      /\ transSnd \in [Sock -> Seq(Trans)]
  BY DEF TypeOK
<1>2. CASE ReqTimeout(t)
  <2> DEFINE fired == [reqTimer EXCEPT ![t] = @ - 1]
  <2>1. fired \in [Trans -> Nat]
    BY <1>1, <1>2 DEF ReqTimeout, Retry
  <2>2. CASE /\ Reply(c.req, "timedout", {})
             /\ AtpFree(t, fired, doneTimer)
             /\ UNCHANGED transSnd
    <3> HIDE DEF fired
    <3>1. {} \in SUBSET Seg /\ "timedout" \in ProcState
      BY DEF ProcState
    <3>2. /\ reqTimer' \in [Trans -> Nat]
          /\ doneTimer' \in [Trans -> Nat]
          /\ finish' \in [Sock -> BOOLEAN]
          /\ tcb' \in [Trans -> Tcb]
          /\ transFree' \subseteq Trans
          /\ transWaiting' \subseteq Sock
          /\ enab' \in [Sock -> BOOLEAN]
          /\ proc' \in [Req -> ProcState]
          /\ tidOf' \in [Req -> Tid]
          /\ result' \in [Req -> SUBSET Seg]
      BY <2>1, <2>2, <3>1, ReplyFreeType
    <3> QED BY <1>2, <2>2, <3>2 DEF ReqTimeout, Retry, TypeOK
  <2>3. CASE /\ tcb' = [tcb EXCEPT ![t] = Finished(c, "FAILED")]
             /\ reqTimer' = fired
             /\ NoFree
             /\ UNCHANGED <<transSnd, doneTimer, enab, procVars>>
    <3> HIDE DEF fired
    <3>1. Finished(c, "FAILED") \in Tcb
      BY <1>1, FinishedType DEF TransState
    <3> QED BY <1>2, <2>1, <2>3, <3>1 DEF ReqTimeout, Retry, NoFree, TypeOK, procVars
  <2>4. CASE /\ c.retry > 0
             /\ AtpSend(t, [c EXCEPT !.hdr = c.bitmap,
                                     !.retry = IF @ = Infinite THEN @ ELSE @ - 1])
             /\ reqTimer' = fired
             /\ NoFree
             /\ UNCHANGED <<doneTimer, procVars>>
    <3> HIDE DEF fired
    <3>1. [c EXCEPT !.hdr = c.bitmap, !.retry = IF @ = Infinite THEN @ ELSE @ - 1] \in Tcb
      BY <1>1, <2>4, RetriedType
    <3>2. /\ tcb' \in [Trans -> Tcb]
          /\ transSnd' \in [Sock -> Seq(Trans)]
          /\ enab' \in [Sock -> BOOLEAN]
      BY <2>4, <3>1, AtpSendType
    <3> QED BY <1>2, <2>1, <2>4, <3>2 DEF ReqTimeout, Retry, NoFree, TypeOK, procVars
  <2> QED BY <1>2, <2>2, <2>3, <2>4 DEF ReqTimeout, Retry
<1>3. CASE DoneTimeout(t)
  <2> DEFINE fired == [doneTimer EXCEPT ![t] = @ - 1]
  <2>1. fired \in [Trans -> Nat]
    BY <1>1, <1>3 DEF DoneTimeout
  <2>2. AtpXDone(t, c, reqTimer, fired, transSnd)
    BY <1>3 DEF DoneTimeout
  <2> HIDE DEF fired, c
  <2>3. /\ reqTimer' \in [Trans -> Nat]
        /\ doneTimer' \in [Trans -> Nat]
        /\ finish' \in [Sock -> BOOLEAN]
        /\ tcb' \in [Trans -> Tcb]
        /\ transFree' \subseteq Trans
        /\ transWaiting' \subseteq Sock
        /\ transSnd' \in [Sock -> Seq(Trans)]
        /\ enab' \in [Sock -> BOOLEAN]
        /\ proc' \in [Req -> ProcState]
        /\ tidOf' \in [Req -> Tid]
        /\ result' \in [Req -> SUBSET Seg]
    BY <1>1, <2>1, <2>2, AtpXDoneType
  <2> QED BY <1>3, <2>3 DEF DoneTimeout, TypeOK
<1> QED BY <1>2, <1>3

LEMMA ResponseType ==
  ASSUME TypeOK, NEW t \in Trans, NEW g \in Seg, NEW eom \in BOOLEAN, NEW sts \in BOOLEAN,
         RecvResponse(t, g, eom, sts)
  PROVE  TypeOK'
<1> DEFINE c      == tcb[t]
           c1     == [c EXCEPT !.bitmap = IF eom THEN {b \in @ : b < g} ELSE @ \ {g},
                               !.rcv = @ \cup {g}]
           calmed == [reqTimer EXCEPT ![t] = Untimeout(@)]
           less   == [transSnd EXCEPT ![c.queue] = Without(@, t)]
<1>1. c \in Tcb /\ reqTimer \in [Trans -> Nat] /\ doneTimer \in [Trans -> Nat]
      /\ transSnd \in [Sock -> Seq(Trans)]
  BY DEF TypeOK
<1>2. c1 \in Tcb
  BY <1>1, ReceivedType
<1>3. [c1 EXCEPT !.state = "TIMEOUT"] \in Tcb
  BY <1>1, ReceivedType
<1>4. calmed \in [Trans -> Nat]
  BY <1>1, UntimeoutType
<1>5. less \in [Sock -> Seq(Trans)]
  <2> HIDE DEF c
  <2>1. \A s \in Sock : Without(transSnd[s], t) \in Seq(Trans)
    BY <1>1, WithoutType
  <2> QED BY <1>1, <2>1
<1>6. /\ reqTimer' \in [Trans -> Nat]
      /\ doneTimer' \in [Trans -> Nat]
      /\ finish' \in [Sock -> BOOLEAN]
      /\ tcb' \in [Trans -> Tcb]
      /\ transFree' \subseteq Trans
      /\ transWaiting' \subseteq Sock
      /\ transSnd' \in [Sock -> Seq(Trans)]
      /\ enab' \in [Sock -> BOOLEAN]
      /\ proc' \in [Req -> ProcState]
      /\ tidOf' \in [Req -> Tid]
      /\ result' \in [Req -> SUBSET Seg]
  <2>1. CASE AtpXDone(t, [c1 EXCEPT !.state = "TIMEOUT"], calmed, doneTimer, less)
    <3> HIDE DEF c1, calmed, less
    <3> QED BY <1>1, <1>3, <1>4, <1>5, <2>1, AtpXDoneType
  <2>2. CASE AtpXDone(t, c1, calmed, doneTimer, transSnd)
    <3> HIDE DEF c1, calmed
    <3> QED BY <1>1, <1>2, <1>4, <2>2, AtpXDoneType
  <2>3. CASE /\ reqTimer' = calmed
             /\ AtpSend(t, c1)
             /\ NoFree
             /\ UNCHANGED <<doneTimer, procVars>>
    <3> HIDE DEF c1, calmed
    <3>1. /\ tcb' \in [Trans -> Tcb]
          /\ transSnd' \in [Sock -> Seq(Trans)]
          /\ enab' \in [Sock -> BOOLEAN]
      BY <1>2, <2>3, AtpSendType
    <3> QED BY <1>4, <2>3, <3>1 DEF NoFree, TypeOK, procVars
  <2>4. CASE /\ tcb' = [tcb EXCEPT ![t] = c1]
             /\ NoFree
             /\ UNCHANGED <<transSnd, reqTimer, doneTimer, enab, procVars>>
    <3> HIDE DEF c1
    <3> QED BY <1>2, <2>4 DEF NoFree, TypeOK, procVars
  <2> QED BY <2>1, <2>2, <2>3, <2>4 DEF RecvResponse
<1> QED BY <1>6 DEF RecvResponse, TypeOK

LEMMA CloseType ==
  ASSUME TypeOK, NEW s \in Sock, AtpClose(s)
  PROVE  TypeOK'
<1> DEFINE own == TransWait(s)
<1>1. own \subseteq Trans
  BY DEF TransWait
<1> HIDE DEF own
<1>2. tcb' \in [Trans -> Tcb] /\ transFree' \subseteq Trans
  BY <1>1, FreeTcbType DEF AtpClose, TypeOK, own
<1>3. reqTimer' \in [Trans -> Nat] /\ doneTimer' \in [Trans -> Nat]
  BY UntimeoutType DEF AtpClose, TypeOK
<1>4. transWaiting' \subseteq Sock /\ enab' \in [Sock -> BOOLEAN]
  <2>1. transWaiting' = IF own = {} THEN transWaiting \ {s} ELSE {}
    BY DEF AtpClose, own
  <2> QED BY <2>1 DEF AtpClose, CloseQueues, TypeOK
<1>5. life' \in [Sock -> {"open", "closing", "closed"}]
  BY DEF AtpClose, CloseQueues, TypeOK
<1>6. mwait' \in [Sock -> BOOLEAN] /\ finish' \in [Sock -> BOOLEAN]
  BY DEF AtpClose, CloseQueues, TypeOK
<1>7. wq' \in [Sock -> Seq(Command)]
  BY DEF AtpClose, CloseQueues, TypeOK
<1>8. /\ proc' \in [Req -> ProcState]
      /\ tidOf' \in [Req -> Tid]
      /\ result' \in [Req -> SUBSET Seg]
  <2>1. 0 \in Tid /\ "idle" \in ProcState
    BY ConstantAssumption DEF Tid, ProcState
  <2> QED BY <2>1 DEF AtpClose, CloseQueues, TypeOK
<1> QED BY <1>2, <1>3, <1>4, <1>5, <1>6, <1>7, <1>8 DEF AtpClose, CloseQueues, TypeOK

(* Every variable keeps to its type, for any number of sockets and tcbs. *)
THEOREM TypeCorrect == Spec => []TypeOK
<1>1. Init => TypeOK
  BY InitType
<1>2. TypeOK /\ [Next]_vars => TypeOK'
  <2> SUFFICES ASSUME TypeOK, [Next]_vars PROVE TypeOK'
    OBVIOUS
  <2>1. CASE UNCHANGED vars
    BY <2>1 DEF vars, poolVars, timeVars, strVars, procVars, TypeOK
  <2>2. CASE \E r \in Req : Issue(r) \/ Poll(r) \/ Cancel(r) \/ Forget(r)
    BY <2>2, OutsideType
  <2>3. ASSUME NEW s \in Sock,
               \/ \E op \in Controls : Control(s, op)
               \/ Fill(s) \/ Drain(s) \/ Start(s) \/ Wwake(s) \/ Detach(s) \/ AtpOpen(s)
        PROVE  TypeOK'
    BY <2>3, OutsideType
  <2>4. ASSUME NEW s \in Sock, Walk(s) PROVE TypeOK'
    BY <2>4, SendLoopType, CommandType DEF Walk
  <2>5. ASSUME NEW s \in Sock, AtpClose(s) PROVE TypeOK'
    BY <2>5, CloseType
  <2>6. ASSUME NEW t \in Trans, ReqTimeout(t) \/ DoneTimeout(t) PROVE TypeOK'
    BY <2>6, TimerType
  <2>7. ASSUME NEW t \in Trans, NEW g \in Seg, NEW eom \in BOOLEAN, NEW sts \in BOOLEAN,
               RecvResponse(t, g, eom, sts)
        PROVE  TypeOK'
    BY <2>7, ResponseType
  <2> QED BY <2>1, <2>2, <2>3, <2>4, <2>5, <2>6, <2>7 DEF Next
<1> QED BY <1>1, <1>2, PTL DEF Spec

-----------------------------------------------------------------------------
(* Scheduling. *)

(* A service procedure that has passed its send loop and has something to send *)
(* again will run again.                                                       *)
SendsAgain == \A s \in Sock : srv[s] = "ioctl" /\ transSnd[s] # <<>> => enab[s]

(* A write queue that does not ask to be enabled by putq has commands on it. *)
WantsCommands == \A s \in Sock :
    life[s] = "open" /\ srv[s] \in {"off", "send"} /\ ~wantr[s] => wq[s] # <<>>

(* A socket that is not open has no commands. *)
ClosedEmpty == \A s \in Sock : life[s] # "open" => wq[s] = <<>>

SchedInv == NoStall /\ SendsAgain /\ WantsCommands /\ ClosedEmpty

(* A step that forgets no socket: what was enabled stays so, who waits for a *)
(* tcb waits on or is enabled, and who gets something to send is enabled.    *)
Forgets(s) ==
    \/ enab[s] /\ ~enab'[s]
    \/ s \in transWaiting /\ s \notin transWaiting' /\ ~enab'[s]
    \/ transSnd[s] = <<>> /\ transSnd'[s] # <<>> /\ ~enab'[s]
ForgetsNone == \A s \in Sock : ~Forgets(s)

LEMMA WakeForgetsNone ==
  ASSUME WakeWaiting
  PROVE  \A s \in Sock : (enab[s] \/ s \in transWaiting) => enab'[s]
  BY DEF WakeWaiting

(* A step that forgets no socket and serves no queue, or serves one in the *)
(* ioctl loop, keeps every socket that has work to do scheduled.           *)
LEMMA ForgetsNoneInv ==
  ASSUME TypeOK, SchedInv, ForgetsNone, UNCHANGED <<life, mwait, full, wantw, srv>>,
         \/ UNCHANGED <<wq, wantr>>
         \/ \E s \in Sock : srv[s] = "ioctl" /\ wq[s] # <<>> /\ TakeCommand(s)
  PROVE  SchedInv'
<1>1. NoStall'
  <2> SUFFICES ASSUME NEW s \in Sock, life[s] = "open", srv[s] = "off",
                      transSnd'[s] # <<>> \/ wq'[s] # <<>>
               PROVE  enab'[s] \/ mwait[s] \/ s \in transWaiting' \/ (full[s] /\ wantw[s])
    BY DEF NoStall
  <2>1. wq'[s] = wq[s]
    BY DEF TakeCommand, TypeOK
  <2>2. CASE transSnd[s] # <<>> \/ wq[s] # <<>>
    BY <2>2 DEF SchedInv, NoStall, ForgetsNone, Forgets
  <2>3. CASE transSnd[s] = <<>> /\ wq[s] = <<>>
    BY <2>1, <2>3 DEF ForgetsNone, Forgets
  <2> QED BY <2>2, <2>3
<1>2. SendsAgain'
  BY DEF SchedInv, SendsAgain, ForgetsNone, Forgets
<1>3. WantsCommands'
  <2> SUFFICES ASSUME NEW s \in Sock, life[s] = "open", srv[s] \in {"off", "send"}, ~wantr'[s]
               PROVE  wq'[s] # <<>>
    BY DEF WantsCommands
  <2>1. wq'[s] = wq[s] /\ wantr'[s] = wantr[s]
    BY DEF TakeCommand, TypeOK
  <2> QED BY <2>1 DEF SchedInv, WantsCommands
<1>4. ClosedEmpty'
  <2> SUFFICES ASSUME NEW s \in Sock, life[s] # "open"
               PROVE  wq'[s] = <<>>
    BY DEF ClosedEmpty
  <2>1. wq[s] = <<>>
    BY DEF SchedInv, ClosedEmpty
  <2>2. wq'[s] = wq[s]
    BY <2>1 DEF TakeCommand, TypeOK
  <2> QED BY <2>1, <2>2
<1> QED BY <1>1, <1>2, <1>3, <1>4 DEF SchedInv

LEMMA WithoutEmpty == \A e : Without(<<>>, e) = <<>>
  BY DEF Without

LEMMA AtpSendForgetsNone ==
  ASSUME TypeOK, NEW t \in Trans, NEW c \in Tcb, AtpSend(t, c), NoFree
  PROVE  ForgetsNone
<1>1. /\ enab \in [Sock -> BOOLEAN] /\ transSnd \in [Sock -> Seq(Trans)]
  BY DEF TypeOK
<1>2. \A s \in Sock : transSnd'[s] # transSnd[s] => enab'[s]
  BY <1>1 DEF AtpSend
<1>3. \A s \in Sock : enab[s] => enab'[s]
  BY <1>1 DEF AtpSend
<1> QED BY <1>2, <1>3 DEF ForgetsNone, Forgets, NoFree

LEMMA AtpXDoneForgetsNone ==
  ASSUME TypeOK, NEW t \in Trans, NEW c \in Tcb, NEW reqs, NEW dones,
         NEW snd \in [Sock -> Seq(Trans)],
         \A s \in Sock : transSnd[s] = <<>> => snd[s] = <<>>,
         AtpXDone(t, c, reqs, dones, snd)
  PROVE  ForgetsNone
<1>1. enab \in [Sock -> BOOLEAN]
  BY DEF TypeOK
<1>2. CASE transSnd' = snd /\ NoFree /\ UNCHANGED enab
  BY <1>2 DEF ForgetsNone, Forgets, NoFree
<1>3. CASE /\ transSnd' = IF c.state = "TIMEOUT"
                          THEN [snd EXCEPT ![c.queue] = Append(@, t)] ELSE snd
           /\ enab' = [enab EXCEPT ![c.queue] = TRUE]
           /\ NoFree
  <2>1. \A s \in Sock : enab[s] \/ s = c.queue => enab'[s]
    BY <1>1, <1>3
  <2>2. \A s \in Sock : s # c.queue => transSnd'[s] = snd[s]
    BY <1>3
  <2> QED BY <1>3, <2>1, <2>2 DEF ForgetsNone, Forgets, NoFree
<1>4. CASE transSnd' = snd /\ WakeWaiting
  BY <1>4, WakeForgetsNone DEF ForgetsNone, Forgets
<1> QED BY <1>2, <1>3, <1>4 DEF AtpXDone, AtpFree

LEMMA TransactionForgetsNone ==
  ASSUME TypeOK, NEW t \in Trans,
         \/ ReqTimeout(t) \/ DoneTimeout(t)
         \/ \E g \in Seg, eom, sts \in BOOLEAN : RecvResponse(t, g, eom, sts)
  PROVE  ForgetsNone
<1>1. /\ tcb[t] \in Tcb /\ transSnd \in [Sock -> Seq(Trans)]
      /\ doneTimer \in [Trans -> Nat]
  BY DEF TypeOK
<1>2. CASE ReqTimeout(t)
  <2>1. CASE WakeWaiting /\ UNCHANGED transSnd
    BY <2>1, WakeForgetsNone DEF ForgetsNone, Forgets
  <2>2. CASE NoFree /\ UNCHANGED <<transSnd, enab>>
    BY <2>2 DEF ForgetsNone, Forgets, NoFree
  <2>3. CASE /\ tcb[t].retry > 0
             /\ AtpSend(t, [tcb[t] EXCEPT !.hdr = tcb[t].bitmap,
                                          !.retry = IF @ = Infinite THEN @ ELSE @ - 1])
             /\ NoFree
    <3> DEFINE c == [tcb[t] EXCEPT !.hdr = tcb[t].bitmap,
                                   !.retry = IF @ = Infinite THEN @ ELSE @ - 1]
    <3>1. c \in Tcb
      BY <1>1, <2>3, RetriedType
    <3> HIDE DEF c
    <3>2. AtpSend(t, c)
      BY <2>3 DEF c
    <3> QED BY <2>3, <3>1, <3>2, AtpSendForgetsNone
  <2> QED BY <1>2, <2>1, <2>2, <2>3 DEF ReqTimeout, Retry, AtpFree
<1>3. CASE DoneTimeout(t)
  BY <1>1, <1>3, AtpXDoneForgetsNone DEF DoneTimeout
<1>4. ASSUME NEW g \in Seg, NEW eom \in BOOLEAN, NEW sts \in BOOLEAN,
             RecvResponse(t, g, eom, sts)
      PROVE  ForgetsNone
  <2> DEFINE c      == tcb[t]
             c1     == [c EXCEPT !.bitmap = IF eom THEN {b \in @ : b < g} ELSE @ \ {g},
                                 !.rcv = @ \cup {g}]
             c2     == [c1 EXCEPT !.state = "TIMEOUT"]
             calmed == [reqTimer EXCEPT ![t] = Untimeout(@)]
             less   == [transSnd EXCEPT ![c.queue] = Without(@, t)]
  <2>1. c1 \in Tcb /\ c2 \in Tcb
    BY <1>1, ReceivedType
  <2>2. less \in [Sock -> Seq(Trans)] /\ \A s \in Sock : transSnd[s] = <<>> => less[s] = <<>>
    <3>1. \A s \in Sock : Without(transSnd[s], t) \in Seq(Trans)
      BY <1>1, WithoutType
    <3> HIDE DEF c
    <3> QED BY <1>1, <3>1, WithoutEmpty
  <2>3. CASE AtpXDone(t, c2, calmed, doneTimer, less)
    <3> HIDE DEF c2, calmed, less
    <3> QED BY <2>1, <2>2, <2>3, AtpXDoneForgetsNone
  <2>4. CASE AtpXDone(t, c1, calmed, doneTimer, transSnd)
    <3> HIDE DEF c1, calmed
    <3> QED BY <1>1, <2>1, <2>4, AtpXDoneForgetsNone
  <2>5. CASE AtpSend(t, c1) /\ NoFree
    <3> HIDE DEF c1
    <3> QED BY <2>1, <2>5, AtpSendForgetsNone
  <2>6. CASE NoFree /\ UNCHANGED <<transSnd, enab>>
    BY <2>6 DEF ForgetsNone, Forgets, NoFree
  <2> QED BY <1>4, <2>3, <2>4, <2>5, <2>6 DEF RecvResponse
<1> QED BY <1>2, <1>3, <1>4

(* The steps of the service procedure that forget no socket. *)
LEMMA ServiceForgetsNone ==
  ASSUME TypeOK, NEW s \in Sock,
         \/ SendRelease(s) \/ SendRequest(s)
         \/ PollAgain(s) \/ SetFinish(s) \/ Refuse(s)
         \/ \E t \in Trans : IssueRequest(s, t) \/ PollDone(s, t) \/ CancelRequest(s, t)
  PROVE  ForgetsNone
<1>1. CASE SendRelease(s) \/ SendRequest(s)
  <2> DEFINE t == Head(transSnd[s])
  <2>1. \A x \in Sock : transSnd[x] = <<>> => transSnd'[x] = <<>>
    <3> HIDE DEF t
    <3>1. transSnd \in [Sock -> Seq(Trans)]
      BY DEF TypeOK
    <3>2. transSnd' = [transSnd EXCEPT ![s] = Without(@, t)]
      BY <1>1 DEF SendRelease, SendRequest, t
    <3> QED BY <3>1, <3>2, WithoutEmpty
  <2>2. WakeWaiting \/ UNCHANGED <<transWaiting, enab>>
    BY <1>1 DEF SendRelease, SendRequest, AtpFree, NoFree, strVars
  <2> QED BY <2>1, <2>2, WakeForgetsNone DEF ForgetsNone, Forgets
<1>2. CASE PollAgain(s) \/ SetFinish(s) \/ Refuse(s)
  BY <1>2 DEF PollAgain, SetFinish, Refuse, ForgetsNone, Forgets, poolVars
<1>3. ASSUME NEW t \in Trans, PollDone(s, t) \/ CancelRequest(s, t) PROVE ForgetsNone
  <2>1. WakeWaiting /\ UNCHANGED transSnd
    BY <1>3 DEF PollDone, CancelRequest, AtpFree
  <2> QED BY <2>1, WakeForgetsNone DEF ForgetsNone, Forgets
<1>4. ASSUME NEW t \in Trans, IssueRequest(s, t) PROVE ForgetsNone
  <2>1. PICK c : AtpSend(t, c)
    BY <1>4 DEF IssueRequest
  <2>2. enab \in [Sock -> BOOLEAN] /\ transSnd \in [Sock -> Seq(Trans)]
    BY DEF TypeOK
  <2>3. \A x \in Sock : enab[x] \/ transSnd'[x] # transSnd[x] => enab'[x]
    BY <2>1, <2>2 DEF AtpSend
  <2> QED BY <1>4, <2>3 DEF IssueRequest, ForgetsNone, Forgets
<1> QED BY <1>1, <1>2, <1>3, <1>4

LEMMA SchedInit == Init => SchedInv
  BY DEF Init, StreamInit, SchedInv, NoStall, SendsAgain, WantsCommands, ClosedEmpty

(* A command that is put on the write queue. *)
LEMMA GiveSched ==
  ASSUME TypeOK, SchedInv, NEW s \in Sock, NEW m, Give(s, m)
  PROVE  SchedInv'
<1>1. /\ life' = life /\ srv' = srv /\ wantr' = wantr /\ mwait' = mwait /\ full' = full
      /\ wantw' = wantw /\ transWaiting' = transWaiting /\ transSnd' = transSnd
      /\ life[s] = "open" /\ srv[s] = "off"
  BY DEF Give, PutQ, Idle, Quiet, poolVars
<1>2. /\ \A x \in Sock : enab'[x] = (enab[x] \/ (x = s /\ wantr[s]))
      /\ \A x \in Sock : x # s => wq'[x] = wq[x]
  BY DEF Give, PutQ, TypeOK
<1>3. wq'[s] # <<>>
  <2>1. wq'[s] = Append(wq[s], m)
    BY DEF Give, PutQ, TypeOK
  <2>2. wq[s] \in Seq(Command)
    BY DEF TypeOK
  <2> QED BY <2>1, <2>2
<1>4. NoStall'
  <2> SUFFICES ASSUME NEW x \in Sock, life[x] = "open", srv[x] = "off",
                      transSnd[x] # <<>> \/ wq'[x] # <<>>
               PROVE  enab'[x] \/ mwait[x] \/ x \in transWaiting \/ (full[x] /\ wantw[x])
    BY <1>1 DEF NoStall
  <2>1. CASE x = s /\ wantr[s]
    BY <1>2, <2>1
  <2>2. CASE x = s /\ ~wantr[s]
    BY <1>1, <1>2, <2>2 DEF SchedInv, NoStall, WantsCommands
  <2>3. CASE x # s
    BY <1>2, <2>3 DEF SchedInv, NoStall
  <2> QED BY <2>1, <2>2, <2>3
<1>5. SendsAgain'
  BY <1>1, <1>2 DEF SchedInv, SendsAgain
<1>6. WantsCommands' /\ ClosedEmpty'
  BY <1>1, <1>2, <1>3 DEF SchedInv, WantsCommands, ClosedEmpty
<1> QED BY <1>4, <1>5, <1>6 DEF SchedInv

(* The steps that begin or end a service, and those that schedule one. *)
LEMMA ServiceSched ==
  ASSUME TypeOK, SchedInv, NEW s \in Sock,
         \/ Start(s) \/ SendBlocked(s) \/ SendNoSpace(s) \/ SendDangling(s) \/ SendDone(s)
         \/ Empty(s) \/ CommandBlocked(s) \/ IssueNoTrans(s) \/ IssueNoSpace(s)
         \/ Fill(s) \/ Drain(s) \/ Wwake(s) \/ Detach(s)
  PROVE  SchedInv'
<1> USE DEF SchedInv, NoStall, SendsAgain, WantsCommands, ClosedEmpty
<1>0. /\ enab \in [Sock -> BOOLEAN] /\ mwait \in [Sock -> BOOLEAN]
      /\ wantr \in [Sock -> BOOLEAN] /\ full \in [Sock -> BOOLEAN]
      /\ wantw \in [Sock -> BOOLEAN]
      /\ srv \in [Sock -> {"off", "send", "ioctl", "panic"}]
      /\ life \in [Sock -> {"open", "closing", "closed"}]
  BY DEF TypeOK
<1>1. CASE Start(s)
  BY <1>0, <1>1 DEF Start, RunQueue, Quiet, poolVars
<1>2. CASE SendBlocked(s)
  BY <1>0, <1>2 DEF SendBlocked, Blocked, poolVars
<1>3. CASE SendNoSpace(s)
  <2>1. /\ mwait' = [mwait EXCEPT ![s] = TRUE] /\ srv' = [srv EXCEPT ![s] = "off"]
        /\ UNCHANGED <<life, transSnd, transWaiting, wq, enab, wantr, full, wantw>>
        /\ srv[s] = "send"
    BY <1>3 DEF SendNoSpace, MemWait, Sending, poolVars
  <2> QED BY <1>0, <2>1
<1>4. CASE SendDangling(s) \/ SendDone(s)
  BY <1>0, <1>4 DEF SendDangling, SendDone, poolVars
<1>5. CASE Empty(s)
  BY <1>0, <1>5 DEF Empty, NoCommand, poolVars
<1>6. CASE CommandBlocked(s)
  BY <1>0, <1>6 DEF CommandBlocked, Blocked, PutBack, At, poolVars
<1>7. CASE IssueNoTrans(s)
  BY <1>0, <1>7 DEF IssueNoTrans, PutBack, At
<1>8. CASE IssueNoSpace(s)
  BY <1>0, <1>8 DEF IssueNoSpace, MemWait, PutBack, At, WakeWaiting
<1>9. CASE Fill(s) \/ Drain(s)
  BY <1>0, <1>9 DEF Fill, Fills, Drain, Drains, poolVars
<1>10. CASE Wwake(s) \/ Detach(s)
  BY <1>0, <1>10 DEF Wwake, Wakes, Detach, Detaches, poolVars, strVars
<1> QED BY <1>1, <1>2, <1>3, <1>4, <1>5, <1>6, <1>7, <1>8, <1>9, <1>10

LEMMA CloseOpenSched ==
  ASSUME TypeOK, SchedInv, NEW s \in Sock, AtpClose(s) \/ AtpOpen(s)
  PROVE  SchedInv'
<1> USE DEF SchedInv, NoStall, SendsAgain, WantsCommands, ClosedEmpty
<1>1. CASE AtpClose(s)
  <2>1. /\ srv' = srv /\ wantr' = wantr /\ full' = full /\ wantw' = wantw
        /\ transSnd' = transSnd
        /\ \A x \in Sock : ~enab[x] /\ srv[x] = "off"
    BY <1>1 DEF AtpClose, CloseQueues, Idle, Quiet
  <2>2. /\ life'[s] # "open" /\ wq'[s] = <<>>
        /\ \A x \in Sock : x # s => /\ life'[x] = life[x] /\ wq'[x] = wq[x]
                                    /\ mwait'[x] = mwait[x]
    BY <1>1 DEF AtpClose, CloseQueues, TypeOK
  <2>3. \A x \in Sock : x # s /\ x \in transWaiting => x \in transWaiting' \/ enab'[x]
    <3> DEFINE own == TransWait(s)
    <3> HIDE DEF own
    <3>1. /\ transWaiting' = IF own = {} THEN transWaiting \ {s} ELSE {}
          /\ enab' = [x \in Sock |-> x \in (IF own = {} THEN {} ELSE transWaiting)]
      BY <1>1 DEF AtpClose, CloseQueues, own
    <3> QED BY <3>1
  <2> QED BY <2>1, <2>2, <2>3
<1>2. CASE AtpOpen(s)
  <2>1. /\ enab' = enab /\ srv' = srv /\ mwait' = mwait /\ wq' = wq /\ full' = full
        /\ wantw' = wantw /\ transWaiting' = transWaiting
        /\ wq[s] = <<>> /\ srv[s] = "off"
    BY <1>2 DEF AtpOpen, Attaches, Idle, Quiet
  <2>2. /\ transSnd'[s] = <<>> /\ wantr'[s]
        /\ \A x \in Sock : x # s => /\ life'[x] = life[x] /\ wantr'[x] = wantr[x]
                                    /\ transSnd'[x] = transSnd[x]
    BY <1>2 DEF AtpOpen, Attaches, TypeOK
  <2>3. life'[s] = "open"
    BY <1>2 DEF AtpOpen, Attaches, TypeOK
  <2> QED BY <2>1, <2>2, <2>3
<1> QED BY <1>1, <1>2

LEMMA SchedStep == TypeOK /\ SchedInv /\ [Next]_vars => SchedInv'
<1> SUFFICES ASSUME TypeOK, SchedInv, [Next]_vars PROVE SchedInv'
  OBVIOUS
<1>1. CASE UNCHANGED vars
  BY <1>1 DEF vars, poolVars, timeVars, strVars, SchedInv, NoStall, SendsAgain, WantsCommands,
              ClosedEmpty
<1>2. ASSUME NEW r \in Req, Issue(r) \/ Poll(r) \/ Cancel(r) PROVE SchedInv'
  <2>1. \E m : Give(r.sock, m)
    BY <1>2 DEF Issue, Poll, Cancel, ProcCommand
  <2> QED BY <2>1, GiveSched, RequestType
<1>3. ASSUME NEW r \in Req, Forget(r) PROVE SchedInv'
  <2>1. ForgetsNone
    BY <1>3 DEF Forget, ForgetsNone, Forgets, poolVars, strVars
  <2> QED BY <1>3, <2>1, ForgetsNoneInv DEF Forget, strVars
<1>4. ASSUME NEW s \in Sock, NEW op \in Controls, Control(s, op) PROVE SchedInv'
  BY <1>4, GiveSched DEF Control
<1>5. ASSUME NEW s \in Sock,
             Fill(s) \/ Drain(s) \/ Start(s) \/ Wwake(s) \/ AtpClose(s) \/ Detach(s) \/ AtpOpen(s)
      PROVE  SchedInv'
  BY <1>5, ServiceSched, CloseOpenSched
<1>6. ASSUME NEW s \in Sock, Walk(s) PROVE SchedInv'
  <2>1. CASE \/ SendBlocked(s) \/ SendNoSpace(s) \/ SendDangling(s) \/ SendDone(s)
             \/ Empty(s) \/ CommandBlocked(s) \/ IssueNoTrans(s) \/ IssueNoSpace(s)
    BY <2>1, ServiceSched
  <2>2. CASE SendRelease(s) \/ SendRequest(s)
    <3>1. UNCHANGED <<life, mwait, wq, wantr, full, wantw, srv>>
      BY <2>2 DEF SendRelease, SendRequest, strVars
    <3> QED BY <2>2, <3>1, ServiceForgetsNone, ForgetsNoneInv
  <2>3. CASE \/ PollAgain(s) \/ SetFinish(s) \/ Refuse(s)
             \/ \E t \in Trans : IssueRequest(s, t) \/ PollDone(s, t) \/ CancelRequest(s, t)
    <3>1. /\ UNCHANGED <<life, mwait, full, wantw, srv>>
          /\ srv[s] = "ioctl" /\ wq[s] # <<>> /\ TakeCommand(s)
      BY <2>3 DEF PollAgain, SetFinish, Refuse, IssueRequest, PollDone,
                  CancelRequest, At
    <3> QED BY <2>3, <3>1, ServiceForgetsNone, ForgetsNoneInv
  <2> QED BY <1>6, <2>1, <2>2, <2>3 DEF Walk
<1>7. ASSUME NEW t \in Trans,
             \/ ReqTimeout(t) \/ DoneTimeout(t)
             \/ \E g \in Seg, eom, sts \in BOOLEAN : RecvResponse(t, g, eom, sts)
      PROVE  SchedInv'
  <2>1. UNCHANGED <<life, mwait, wq, wantr, full, wantw, srv>>
    BY <1>7 DEF ReqTimeout, DoneTimeout, RecvResponse
  <2> QED BY <1>7, <2>1, TransactionForgetsNone, ForgetsNoneInv
<1> QED BY <1>1, <1>2, <1>3, <1>4, <1>5, <1>6, <1>7 DEF Next

(* No open socket with something to send or a command to serve is forgotten:   *)
(* it is scheduled, or waits for memory, for a tcb or for the queue downstream. *)
THEOREM NeverStalls == Spec => []NoStall
<1>1. Init => SchedInv
  BY SchedInit
<1>2. TypeOK /\ SchedInv /\ [Next]_vars => SchedInv'
  BY SchedStep
<1>3. SchedInv => NoStall
  BY DEF SchedInv
<1> QED BY <1>1, <1>2, <1>3, TypeCorrect, PTL DEF Spec

-----------------------------------------------------------------------------
(* The pool. *)

(* An atp_free, and a step that takes nothing from the pool, keep the sockets *)
(* from waiting for what there is.                                            *)
LEMMA FreeWakes ==
  ASSUME NoLostWakeup, WakeWaiting \/ NoFree \/ UNCHANGED <<transFree, transWaiting>>
  PROVE  NoLostWakeup'
  BY DEF NoLostWakeup, WakeWaiting, NoFree

(* A socket waits for a tcb only while there is none, however many sockets     *)
(* share the pool: the wakeup of atp_trans_free reaches every one that waits.  *)
THEOREM WakeupNotLost == Spec => []NoLostWakeup
<1>1. Init => NoLostWakeup
  BY DEF Init, NoLostWakeup
<1>2. NoLostWakeup /\ [Next]_vars => NoLostWakeup'
  <2> SUFFICES ASSUME NoLostWakeup, [Next]_vars PROVE NoLostWakeup'
    OBVIOUS
  <2>1. CASE UNCHANGED vars
    BY <2>1, FreeWakes DEF vars, poolVars
  <2>2. ASSUME NEW r \in Req, Issue(r) \/ Poll(r) \/ Cancel(r) \/ Forget(r)
        PROVE  NoLostWakeup'
    BY <2>2, FreeWakes DEF Issue, Poll, Cancel, Forget, ProcCommand, Give, poolVars
  <2>3. ASSUME NEW s \in Sock,
               \/ \E op \in Controls : Control(s, op)
               \/ Fill(s) \/ Drain(s) \/ Start(s) \/ Wwake(s) \/ Detach(s) \/ AtpOpen(s)
        PROVE  NoLostWakeup'
    BY <2>3, FreeWakes DEF Control, Give, Fill, Drain, Start, Wwake, Detach, AtpOpen, poolVars
  <2>4. ASSUME NEW s \in Sock,
               \/ SendBlocked(s) \/ SendNoSpace(s) \/ SendRelease(s) \/ SendRequest(s)
               \/ SendDangling(s) \/ SendDone(s)
        PROVE  NoLostWakeup'
    BY <2>4, FreeWakes DEF SendBlocked, SendNoSpace, SendRelease, SendRequest, SendDangling,
                           SendDone, AtpFree, poolVars
  <2>5. ASSUME NEW s \in Sock,
               \/ Empty(s) \/ CommandBlocked(s) \/ IssueNoSpace(s)
               \/ PollAgain(s) \/ SetFinish(s) \/ Refuse(s)
               \/ \E t \in Trans : PollDone(s, t) \/ CancelRequest(s, t)
        PROVE  NoLostWakeup'
    BY <2>5, FreeWakes DEF Empty, CommandBlocked, IssueNoSpace, PollAgain,
                           SetFinish, Refuse, PollDone, CancelRequest, AtpFree, poolVars
  <2>6. ASSUME NEW s \in Sock, IssueNoTrans(s) PROVE NoLostWakeup'
    BY <2>6 DEF IssueNoTrans, NoLostWakeup
  <2>7. ASSUME NEW s \in Sock, NEW t \in Trans, IssueRequest(s, t) PROVE NoLostWakeup'
    BY <2>7 DEF IssueRequest, NoLostWakeup
  <2>8. ASSUME NEW s \in Sock, AtpClose(s) PROVE NoLostWakeup'
    BY <2>8 DEF AtpClose, NoLostWakeup
  <2>9. ASSUME NEW t \in Trans, ReqTimeout(t) \/ DoneTimeout(t) PROVE NoLostWakeup'
    BY <2>9, FreeWakes DEF ReqTimeout, DoneTimeout, AtpXDone, AtpFree
  <2>10. ASSUME NEW t \in Trans, NEW g \in Seg, NEW eom \in BOOLEAN, NEW sts \in BOOLEAN,
                RecvResponse(t, g, eom, sts)
         PROVE  NoLostWakeup'
    BY <2>10, FreeWakes DEF RecvResponse, AtpXDone, AtpFree
  <2> QED BY <2>1, <2>2, <2>3, <2>4, <2>5, <2>6, <2>7, <2>8, <2>9, <2>10 DEF Next, Walk
<1> QED BY <1>1, <1>2, PTL DEF Spec
=============================================================================
