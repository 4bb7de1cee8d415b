---------------------------- MODULE AtpRequester ----------------------------
(***************************************************************************)
(* The requesting side of the AppleTalk Transaction Protocol streams       *)
(* module, src/appletalk/at/atp.  An open ATP socket (struct atp_state)    *)
(* turns the ISSUE_REQUEST ioctls of its process into transactions.  Each  *)
(* holds a transaction control block (struct atp_trans, tcb) taken from a  *)
(* pool that all the sockets share, is sent and retried by a timer until   *)
(* all its response segments are in, and is then acknowledged, noted or    *)
(* left for a poll.  An execute-once transaction sends a release first.    *)
(***************************************************************************)
EXTENDS AtpStream, FiniteSets

CONSTANTS
    Trans,      \* the transaction control blocks (NATP_TRANS of them)
    Req,        \* the requests processes issue: records, see RequestAssumption
    None,       \* no socket, no request
    TidMod,     \* transaction ids are taken modulo this (2^16 in the code)
    Infinite,   \* ATP_INFINITE_RETRIES (0xffffffff in the code)
    NoSpace,    \* the allocations the environment may refuse, see Allocation
    Controls,   \* the commands without a transaction that processes give
    Closing     \* whether sockets are closed and opened again

Tid        == 0 .. TidMod - 1
Seg        == 0 .. 7                                \* response sequence numbers
Kind       == {"REQ", "NW", "NOTE"}                 \* the three ISSUE_REQUEST forms
ControlOp  == {"SET_FINISH", "EINVAL", "OTHER"}
Allocation == {"result", "release", "copy", "dup"}  \* the calls that may return NULL

(* A request asks for segments 0 .. ask-1 and its responder answers with   *)
(* segments 0 .. resp-1.                                                   *)
ASSUME RequestAssumption ==
    Req \subseteq [id : Nat, sock : Sock, kind : Kind, xo : BOOLEAN, retry : Nat,
                   ask : 1 .. 8, resp : 1 .. 8]
ASSUME ConstantAssumption ==
    /\ TidMod \in Nat \ {0}
    /\ Infinite \in Nat
    /\ MaxQueue \in Nat
    /\ NoSpace \subseteq Allocation
    /\ Controls \subseteq ControlOp
    /\ Closing \in BOOLEAN
    /\ None \notin Req \cup Sock
    /\ \A r \in Req : r.resp <= r.ask

VARIABLES
    transFree,     \* atp_trans_free_list
    tcb,           \* the transaction control blocks
    transSnd,      \* atp_trans_snd of each socket
    transWaiting,  \* atp_state_trans_waiting: the sockets that wait for a tcb
    lastTid,       \* atp_lasttid
    finish,        \* whether atp_finish holds a SET_FINISH to be acknowledged
    reqTimer,      \* entries atp_req_timeout(trp) on the callout list
    doneTimer,     \* entries atp_x_done(trp) on the callout list
    proc,          \* what the process knows of each of its requests
    tidOf,         \* the transaction id an acknowledgement gave it
    result         \* the segments a successful reply handed to it

poolVars == <<transFree, tcb, transSnd, transWaiting, lastTid, finish>>
timeVars == <<reqTimer, doneTimer>>
procVars == <<proc, tidOf, result>>
vars     == <<life, mwait, poolVars, timeVars, strVars, procVars>>

TransState == {"TIMEOUT", "REQUEST", "RELEASE", "DONE", "FAILED", "BUILD"}

(* xmt says what tr_xmt points to: the ioctl, the data block behind it (the  *)
(* request packet, or the results) once the ioctl block is gone, or nothing. *)
(* hdr is the bitmap in the request packet itself, kept the segments tacked  *)
(* to tr_xmt, sent whether the request has reached the wire.                 *)
Tcb == [req : Req \cup {None}, queue : Sock \cup {None}, state : TransState, tid : Tid,
        retry : Nat, bitmap : SUBSET Seg, hdr : SUBSET Seg, rcv : SUBSET Seg,
        kept : SUBSET Seg, xmt : {"ioctl", "data", "none"}, sent : BOOLEAN]

(* atp_trans_alloc and the issue code set every field of a tcb they take, so *)
(* what atp_free leaves in one is not kept.                                  *)
FreeTcb == [req |-> None, queue |-> None, state |-> "TIMEOUT", tid |-> 0, retry |-> 0,
            bitmap |-> {}, hdr |-> {}, rcv |-> {}, kept |-> {}, xmt |-> "none",
            sent |-> FALSE]

Command == [op : {"ISSUE", "POLL", "CANCEL"}, req : Req, tid : Tid]
           \cup [op : ControlOp]

ProcState == {"idle", "issuing", "open", "polling", "cancelling",
              "ok", "timedout", "cancelled"}
Final     == {"ok", "timedout", "cancelled"}

(* atp_trans_wait of a socket: the tcbs it holds. *)
TransWait(s) == {t \in Trans \ transFree : tcb[t].queue = s}

Init ==
    /\ StreamInit
    /\ transFree = Trans
    /\ tcb = [t \in Trans |-> FreeTcb]
    /\ transSnd = [s \in Sock |-> <<>>]
    /\ transWaiting = {}
    /\ lastTid = [s \in Sock |-> 0]
    /\ finish = [s \in Sock |-> FALSE]
    /\ reqTimer = [t \in Trans |-> 0]
    /\ doneTimer = [t \in Trans |-> 0]
    /\ proc = [r \in Req |-> "idle"]
    /\ tidOf = [r \in Req |-> 0]
    /\ result = [r \in Req |-> {}]

-----------------------------------------------------------------------------
(* Helpers. *)

FaultyNextTid(s) == {(lastTid[s] + 1) % TidMod}

(* The ids atp_tid finds free: the first after the last one used, cyclically, *)
(* that no pending transaction of the socket holds.                           *)
Distance(s, i) == (i + TidMod - lastTid[s] - 1) % TidMod
UsedTids(s)    == {tcb[t].tid : t \in TransWait(s)}
NextTid(s)     == {i \in Tid \ UsedTids(s) :
                     \A j \in Tid : Distance(s, j) < Distance(s, i) => j \in UsedTids(s)}

FaultyLeadingRun(rcv) == {i \in rcv : \A j \in Seg : j <= i + 1 => j \in rcv}

(* atp_x_done tacks tr_rcv[0], tr_rcv[1], ... up to the first that is missing. *)
LeadingRun(rcv) == {i \in rcv : \A j \in Seg : j < i => j \in rcv}

FaultyWakeWaiting == UNCHANGED <<transWaiting, enab>>

(* qenable of every socket on the wait list, which is emptied. *)
WakeWaiting ==
    /\ transWaiting' = {}
    /\ enab' = [s \in Sock |-> enab[s] \/ s \in transWaiting]

(* atp_free of t, with the callout lists the caller has reached: its timers  *)
(* go, a pending SET_FINISH is acknowledged when t was the socket's last,    *)
(* and the sockets that wait for a tcb are scheduled.                        *)
AtpFree(t, reqs, dones) ==
    LET s == tcb[t].queue
    IN  /\ reqTimer' = [reqs EXCEPT ![t] = Untimeout(@)]
        /\ doneTimer' = IF tcb[t].state = "BUILD"
                        THEN [dones EXCEPT ![t] = Untimeout(@)] ELSE dones
        /\ finish' = [finish EXCEPT ![s] = @ /\ TransWait(s) # {t}]
        /\ tcb' = [tcb EXCEPT ![t] = FreeTcb]
        /\ transFree' = transFree \cup {t}
        /\ WakeWaiting

(* The caller of AtpFree keeps the tcbs and wakes no one. *)
NoFree == UNCHANGED <<transFree, transWaiting, finish>>

FaultyAtpSend(t, c) ==
    /\ tcb' = [tcb EXCEPT ![t] = [c EXCEPT !.state = "REQUEST"]]
    /\ transSnd' = [transSnd EXCEPT ![c.queue] = Append(@, t)]
    /\ enab' = [enab EXCEPT ![c.queue] = TRUE]

(* atp_send of t, whose control block has become c. *)
AtpSend(t, c) ==
    IF c.state = "TIMEOUT"
    THEN /\ tcb' = [tcb EXCEPT ![t] = [c EXCEPT !.state = "REQUEST"]]
         /\ transSnd' = [transSnd EXCEPT ![c.queue] = Append(@, t)]
         /\ enab' = [enab EXCEPT ![c.queue] = TRUE]
    ELSE /\ tcb' = [tcb EXCEPT ![t] = c]
         /\ UNCHANGED <<transSnd, enab>>

(* The reply to a request: the process learns the outcome o, and on success *)
(* gets the segments in got.                                                *)
Reply(r, o, got) ==
    /\ proc' = [proc EXCEPT ![r] = o]
    /\ tidOf' = [tidOf EXCEPT ![r] = 0]
    /\ result' = [result EXCEPT ![r] = got]

(* A finished NW or NOTE transaction drops the ioctl block; only the data it *)
(* carried stays, for a poll.                                                *)
Finished(c, state) == [c EXCEPT !.state = state, !.xmt = "data"]

(* atp_x_done of t: its control block is c, the callouts and send lists are  *)
(* those the caller has reached.  Without space for the buffer map it comes  *)
(* back after HZ/8.  With it the segments are tacked to tr_xmt, and then an  *)
(* execute-once transaction goes to the release, another is reported.  When  *)
(* tr_xmt is no longer an ioctl (a failed transaction whose last response is *)
(* late) the command read from it matches nothing.                           *)
AtpXDone(t, c, reqs, dones, snd) ==
    LET dones1 == [dones EXCEPT ![t] = Untimeout(@)]
        run    == LeadingRun(c.rcv)
        c1     == [c EXCEPT !.kept = run, !.rcv = @ \ run]
    IN  \/ /\ "result" \in NoSpace
           /\ tcb' = [tcb EXCEPT ![t] = [c EXCEPT !.state = "BUILD"]]
           /\ doneTimer' = [dones1 EXCEPT ![t] = @ + 1]
           /\ reqTimer' = reqs
           /\ transSnd' = snd
           /\ NoFree
           /\ UNCHANGED <<enab, procVars>>
        \/ /\ c.req.xo
           /\ tcb' = [tcb EXCEPT ![t] = [c1 EXCEPT !.state = "RELEASE"]]
           /\ transSnd' = IF c.state = "TIMEOUT"
                          THEN [snd EXCEPT ![c.queue] = Append(@, t)] ELSE snd
           /\ enab' = [enab EXCEPT ![c.queue] = TRUE]
           /\ reqTimer' = reqs
           /\ doneTimer' = dones1
           /\ NoFree
           /\ UNCHANGED procVars
        \/ /\ ~c.req.xo /\ c.xmt = "ioctl" /\ c.req.kind = "REQ"
           /\ Reply(c.req, "ok", run)
           /\ transSnd' = snd
           /\ AtpFree(t, reqs, dones1)
        \/ /\ ~c.req.xo /\ (c.xmt = "ioctl" => c.req.kind \in {"NW", "NOTE"})
           /\ tcb' = [tcb EXCEPT ![t] = IF c.xmt = "ioctl" THEN Finished(c1, "DONE") ELSE c1]
           /\ reqTimer' = reqs
           /\ doneTimer' = dones1
           /\ transSnd' = snd
           /\ NoFree
           /\ UNCHANGED <<enab, procVars>>

-----------------------------------------------------------------------------
(* The process, or PAP: a command reaches the write queue. *)

Give(s, m) ==
    /\ PutQ(s, m)
    /\ UNCHANGED <<poolVars, timeVars, tidOf, result>>

ProcCommand(r, from, op, to) ==
    /\ proc[r] = from
    /\ proc' = [proc EXCEPT ![r] = to]
    /\ Give(r.sock, [op |-> op, req |-> r, tid |-> tidOf[r]])

Issue(r)  == ProcCommand(r, "idle", "ISSUE", "issuing")
Poll(r)   == ProcCommand(r, "open", "POLL", "polling")
Cancel(r) == ProcCommand(r, "open", "CANCEL", "cancelling")

(* Commands that do not concern a transaction: one that fails its checks or   *)
(* names no transaction, one that ATP does not know, and SET_FINISH.          *)
Control(s, op) == Give(s, [op |-> op]) /\ UNCHANGED proc

(* The process has seen the outcome; the request may be made again. *)
Forget(r) ==
    /\ Idle
    /\ proc[r] \in Final
    /\ Reply(r, "idle", {})
    /\ UNCHANGED <<life, mwait, poolVars, timeVars, strVars>>

-----------------------------------------------------------------------------
(* The streams system. *)

Fill(s)  == Fills(s) /\ UNCHANGED <<poolVars, timeVars, procVars>>
Drain(s) == Drains(s) /\ UNCHANGED <<poolVars, timeVars, procVars>>
Start(s) == RunQueue(s) /\ UNCHANGED <<poolVars, timeVars, procVars>>
Wwake(s) == Wakes(s) /\ UNCHANGED <<poolVars, timeVars, procVars>>

-----------------------------------------------------------------------------
(* The send loop of atp_wsrvc. *)

(* The first transaction to send, when it still is a transaction of s. *)
Sending(s)   == /\ srv[s] = "send" /\ transSnd[s] # <<>>
                /\ Head(transSnd[s]) \in TransWait(s)
Releasing(s) == tcb[Head(transSnd[s])].state = "RELEASE"

SendBlocked(s) ==
    /\ srv[s] = "send" /\ transSnd[s] # <<>>
    /\ Blocked(s)
    /\ UNCHANGED <<life, mwait, poolVars, timeVars, procVars, wq, enab, wantr, full>>

SendNoSpace(s) ==
    /\ Sending(s) /\ ~full[s]
    /\ (IF Releasing(s) THEN "release" ELSE "copy") \in NoSpace
    /\ MemWait(s)
    /\ UNCHANGED <<life, poolVars, timeVars, procVars, wq, enab, wantr, full, wantw>>

(* A release is sent and the transaction reported: a blocking one is        *)
(* acknowledged and freed, another is left for a poll.                      *)
SendRelease(s) ==
    LET t == Head(transSnd[s])
        c == tcb[t]
    IN  /\ Sending(s) /\ ~full[s] /\ Releasing(s)
        /\ transSnd' = [transSnd EXCEPT ![s] = Without(@, t)]
        /\ IF c.req.kind = "REQ"
           THEN /\ Reply(c.req, "ok", c.kept)
                /\ AtpFree(t, reqTimer, doneTimer)
           ELSE /\ tcb' = [tcb EXCEPT ![t] = Finished(c, "DONE")]
                /\ NoFree
                /\ UNCHANGED <<reqTimer, doneTimer, enab, procVars>>
        /\ UNCHANGED <<life, lastTid, mwait, wq, wantr, full, wantw, srv>>

(* A request is sent and its timer set. *)
SendRequest(s) ==
    LET t == Head(transSnd[s])
    IN  /\ Sending(s) /\ ~full[s] /\ ~Releasing(s)
        /\ tcb' = [tcb EXCEPT ![t].state = "TIMEOUT", ![t].sent = TRUE]
        /\ reqTimer' = [reqTimer EXCEPT ![t] = @ + 1]
        /\ transSnd' = [transSnd EXCEPT ![s] = Without(@, t)]
        /\ UNCHANGED <<life, transFree, transWaiting, lastTid, finish, mwait, doneTimer,
                       strVars, procVars>>

(* The first on the list is a tcb that was freed (its tr_xmt is null) or that  *)
(* another socket has taken.  What the kernel does from here on is undefined:  *)
(* the model stops.                                                            *)
SendDangling(s) ==
    /\ srv[s] = "send" /\ transSnd[s] # <<>> /\ ~full[s]
    /\ Head(transSnd[s]) \notin TransWait(s)
    /\ srv' = [srv EXCEPT ![s] = "panic"]
    /\ UNCHANGED <<life, mwait, poolVars, timeVars, procVars, wq, enab, wantr, full, wantw>>

(* All sent (and a socket that answers no requests has no replies to send). *)
SendDone(s) ==
    /\ srv[s] = "send" /\ transSnd[s] = <<>>
    /\ srv' = [srv EXCEPT ![s] = "ioctl"]
    /\ UNCHANGED <<life, mwait, poolVars, timeVars, procVars, wq, enab, wantr, full, wantw>>

-----------------------------------------------------------------------------
(* The ioctl loop of atp_wsrvc. *)

Empty(s) == NoCommand(s) /\ UNCHANGED <<poolVars, timeVars, procVars>>

CommandBlocked(s) ==
    /\ At(s, "ISSUE") \/ At(s, "OTHER")
    /\ PutBack(s)
    /\ Blocked(s)
    /\ UNCHANGED <<life, mwait, poolVars, timeVars, procVars, enab, full>>

(* atp_trans_alloc finds no tcb and puts the socket on the wait list. *)
IssueNoTrans(s) ==
    /\ At(s, "ISSUE") /\ ~full[s]
    /\ transFree = {}
    /\ transWaiting' = transWaiting \cup {s}
    /\ PutBack(s)
    /\ srv' = [srv EXCEPT ![s] = "off"]
    /\ UNCHANGED <<life, mwait, transFree, tcb, transSnd, lastTid, finish, timeVars, procVars,
                   enab, full, wantw>>

(* dupb fails for the acknowledgement of a no-wait request: the tcb just     *)
(* allocated goes back with atp_trans_free.                                  *)
IssueNoSpace(s) ==
    /\ At(s, "ISSUE") /\ ~full[s]
    /\ transFree # {}
    /\ "dup" \in NoSpace /\ Head(wq[s]).req.kind # "REQ"
    /\ PutBack(s)
    /\ WakeWaiting
    /\ MemWait(s)
    /\ UNCHANGED <<life, transFree, tcb, transSnd, lastTid, finish, timeVars, procVars,
                   full, wantw>>

(* A request gets tcb t and an id; a no-wait one is acknowledged with the id *)
(* at once.  It is put on the lists of pending and of sendable transactions. *)
IssueRequest(s, t) ==
    LET r == Head(wq[s]).req
    IN  /\ At(s, "ISSUE") /\ ~full[s]
        /\ t \in transFree
        /\ transFree' = transFree \ {t}
        /\ TakeCommand(s)
        /\ \E i \in NextTid(s) :
             /\ lastTid' = [lastTid EXCEPT ![s] = i]
             /\ AtpSend(t, [req |-> r, queue |-> s, state |-> "TIMEOUT", tid |-> i,
                            retry |-> r.retry, bitmap |-> 0 .. r.ask - 1,
                            hdr |-> 0 .. r.ask - 1, rcv |-> {}, kept |-> {},
                            xmt |-> "ioctl", sent |-> FALSE])
             /\ IF r.kind = "REQ" THEN UNCHANGED <<proc, tidOf>>
                ELSE /\ proc' = [proc EXCEPT ![r] = "open"]
                     /\ tidOf' = [tidOf EXCEPT ![r] = i]
        /\ UNCHANGED <<life, mwait, transWaiting, finish, timeVars, full, wantw, srv, result>>

(* The pending transaction of the socket a poll or a cancel names. *)
Named(s, t) == t \in TransWait(s) /\ tcb[t].tid = Head(wq[s]).tid

(* A poll takes the outcome of a finished transaction. *)
PollDone(s, t) ==
    LET r == Head(wq[s]).req
    IN  /\ At(s, "POLL") /\ Named(s, t)
        /\ tcb[t].state \in {"DONE", "FAILED"}
        /\ IF tcb[t].state = "FAILED" THEN Reply(r, "timedout", {})
                                      ELSE Reply(r, "ok", tcb[t].kept)
        /\ AtpFree(t, reqTimer, doneTimer)
        /\ TakeCommand(s)
        /\ UNCHANGED <<life, transSnd, lastTid, mwait, full, wantw, srv>>

(* EAGAIN: it is not finished, or there is none of that id. *)
PollAgain(s) ==
    LET r == Head(wq[s]).req
    IN  /\ At(s, "POLL")
        /\ \A t \in Trans : Named(s, t) => tcb[t].state \notin {"DONE", "FAILED"}
        /\ proc' = [proc EXCEPT ![r] = "open"]
        /\ TakeCommand(s)
        /\ UNCHANGED <<life, mwait, poolVars, timeVars, enab, full, wantw, srv, tidOf, result>>

CancelRequest(s, t) ==
    /\ At(s, "CANCEL") /\ Named(s, t)
    /\ Reply(Head(wq[s]).req, "cancelled", {})
    /\ AtpFree(t, reqTimer, doneTimer)
    /\ TakeCommand(s)
    /\ UNCHANGED <<life, transSnd, lastTid, mwait, full, wantw, srv>>

FaultySetFinish(s) ==
    /\ At(s, "SET_FINISH")
    /\ finish' = [finish EXCEPT ![s] = TRUE]
    /\ TakeCommand(s)
    /\ UNCHANGED <<life, mwait, transFree, tcb, transSnd, transWaiting, lastTid, timeVars,
                   procVars, enab, full, wantw, srv>>

(* SET_FINISH is acknowledged at once, or by the atp_free of the last        *)
(* transaction.                                                              *)
SetFinish(s) ==
    /\ At(s, "SET_FINISH")
    /\ finish' = [finish EXCEPT ![s] = TransWait(s) # {}]
    /\ TakeCommand(s)
    /\ UNCHANGED <<life, mwait, transFree, tcb, transSnd, transWaiting, lastTid, timeVars,
                   procVars, enab, full, wantw, srv>>

(* A command that fails its checks is refused, and so is a cancel that names  *)
(* no pending transaction (ENOENT); an unknown command is passed on.          *)
Refuse(s) ==
    /\ At(s, "EINVAL") \/ (At(s, "OTHER") /\ ~full[s])
    /\ TakeCommand(s)
    /\ UNCHANGED <<life, mwait, poolVars, timeVars, procVars, enab, full, wantw, srv>>

-----------------------------------------------------------------------------
(* atp_rsrvc: response segment g of pending transaction t.  A response that   *)
(* matches no transaction, or is not wanted, is dropped and changes nothing.  *)
(* The end of message is on the last segment; a response as long as the       *)
(* request asks for may end without it.  The network loses, repeats and       *)
(* reorders segments, so any may come at any time once the request is out.    *)

RecvResponse(t, g, eom, sts) ==
    LET c      == tcb[t]
        c1     == [c EXCEPT !.bitmap = IF eom THEN {b \in @ : b < g} ELSE @ \ {g},
                            !.rcv = @ \cup {g}]
        calmed == [reqTimer EXCEPT ![t] = Untimeout(@)]
    IN  /\ Quiet
        /\ t \notin transFree /\ c.sent
        /\ g < c.req.resp
        /\ eom => g = c.req.resp - 1
        /\ g = c.req.resp - 1 => eom \/ c.req.resp = c.req.ask
        /\ g \in c.bitmap /\ g \notin c.rcv
        /\ \/ /\ c1.bitmap = {}
              /\ IF c.state = "REQUEST"
                 THEN AtpXDone(t, [c1 EXCEPT !.state = "TIMEOUT"], calmed, doneTimer,
                               [transSnd EXCEPT ![c.queue] = Without(@, t)])
                 ELSE AtpXDone(t, c1, calmed, doneTimer, transSnd)
           \/ /\ c1.bitmap # {} /\ sts
              /\ reqTimer' = calmed
              /\ AtpSend(t, c1)
              /\ NoFree
              /\ UNCHANGED <<doneTimer, procVars>>
           \/ /\ c1.bitmap # {} /\ ~sts
              /\ tcb' = [tcb EXCEPT ![t] = c1]
              /\ NoFree
              /\ UNCHANGED <<transSnd, reqTimer, doneTimer, enab, procVars>>
        /\ UNCHANGED <<life, lastTid, mwait, wq, wantr, full, wantw, srv>>

-----------------------------------------------------------------------------
(* Timeouts. *)

FaultyRetry(c) ==
    [c EXCEPT !.hdr = c.rcv, !.retry = IF @ = Infinite THEN @ ELSE @ - 1]

(* The packet is to ask for what is still missing. *)
Retry(c) == [c EXCEPT !.hdr = c.bitmap, !.retry = IF @ = Infinite THEN @ ELSE @ - 1]

(* atp_req_timeout: retry, asking for what is still missing; when no retry is *)
(* left a blocking request gets ETIMEDOUT, another waits for a poll.          *)
ReqTimeout(t) ==
    LET c     == tcb[t]
        fired == [reqTimer EXCEPT ![t] = @ - 1]
    IN  /\ Idle
        /\ reqTimer[t] > 0
        /\ \/ /\ c.retry = 0 /\ c.req.kind = "REQ"
              /\ Reply(c.req, "timedout", {})
              /\ AtpFree(t, fired, doneTimer)
              /\ UNCHANGED transSnd
           \/ /\ c.retry = 0 /\ c.req.kind # "REQ"
              /\ tcb' = [tcb EXCEPT ![t] = Finished(c, "FAILED")]
              /\ reqTimer' = fired
              /\ NoFree
              /\ UNCHANGED <<transSnd, doneTimer, enab, procVars>>
           \/ /\ c.retry > 0
              /\ AtpSend(t, Retry(c))
              /\ reqTimer' = fired
              /\ NoFree
              /\ UNCHANGED <<doneTimer, procVars>>
        /\ UNCHANGED <<life, lastTid, mwait, wq, wantr, full, wantw, srv>>

(* atp_x_done again, HZ/8 after it found no space. *)
DoneTimeout(t) ==
    /\ Idle
    /\ doneTimer[t] > 0
    /\ AtpXDone(t, tcb[t], reqTimer, [doneTimer EXCEPT ![t] = @ - 1], transSnd)
    /\ UNCHANGED <<life, lastTid, mwait, wq, wantr, full, wantw, srv>>

-----------------------------------------------------------------------------
(* atp_close frees what the socket holds and takes it off the wait list, but  *)
(* leaves atp_trans_snd to the next atp_open.  Its atp_free enables the       *)
(* sockets that wait for a tcb, the one being closed among them.              *)

AtpClose(s) ==
    LET own == TransWait(s)
    IN  /\ Closing
        /\ CloseQueues(s, IF own = {} THEN {} ELSE transWaiting)
        /\ transFree' = transFree \cup own
        /\ tcb' = [t \in Trans |-> IF t \in own THEN FreeTcb ELSE tcb[t]]
        /\ reqTimer' = [t \in Trans |-> IF t \in own THEN Untimeout(Untimeout(reqTimer[t]))
                                        ELSE reqTimer[t]]
        /\ doneTimer' = [t \in Trans |-> IF t \in own /\ tcb[t].state = "BUILD"
                                         THEN Untimeout(doneTimer[t]) ELSE doneTimer[t]]
        /\ transWaiting' = IF own = {} THEN transWaiting \ {s} ELSE {}
        /\ finish' = [finish EXCEPT ![s] = FALSE]
        /\ proc' = [r \in Req |-> IF r.sock = s THEN "idle" ELSE proc[r]]
        /\ tidOf' = [r \in Req |-> IF r.sock = s THEN 0 ELSE tidOf[r]]
        /\ result' = [r \in Req |-> IF r.sock = s THEN {} ELSE result[r]]
        /\ UNCHANGED <<transSnd, lastTid>>

Detach(s) == Detaches(s) /\ UNCHANGED <<poolVars, timeVars, procVars>>

FaultyAtpOpen(s) ==
    /\ Attaches(s)
    /\ lastTid' = [lastTid EXCEPT ![s] = 0]
    /\ UNCHANGED <<transFree, tcb, transSnd, transWaiting, finish, timeVars, procVars>>

AtpOpen(s) ==
    /\ Attaches(s)
    /\ transSnd' = [transSnd EXCEPT ![s] = <<>>]
    /\ lastTid' = [lastTid EXCEPT ![s] = 0]
    /\ UNCHANGED <<transFree, tcb, transWaiting, finish, timeVars, procVars>>

-----------------------------------------------------------------------------
(* One step of atp_wsrvc. *)
Walk(s) ==
    \/ SendBlocked(s) \/ SendNoSpace(s) \/ SendRelease(s) \/ SendRequest(s)
    \/ SendDangling(s) \/ SendDone(s)
    \/ Empty(s) \/ CommandBlocked(s) \/ IssueNoTrans(s) \/ IssueNoSpace(s)
    \/ PollAgain(s) \/ SetFinish(s) \/ Refuse(s)
    \/ \E t \in Trans : IssueRequest(s, t) \/ PollDone(s, t) \/ CancelRequest(s, t)

Next ==
    \/ \E r \in Req : Issue(r) \/ Poll(r) \/ Cancel(r) \/ Forget(r)
    \/ \E s \in Sock :
         \/ \E op \in Controls : Control(s, op)
         \/ Fill(s) \/ Drain(s)
         \/ Start(s) \/ Walk(s)
         \/ Wwake(s) \/ AtpClose(s) \/ Detach(s) \/ AtpOpen(s)
    \/ \E t \in Trans :
         \/ ReqTimeout(t) \/ DoneTimeout(t)
         \/ \E g \in Seg, eom, sts \in BOOLEAN : RecvResponse(t, g, eom, sts)

Spec == Init /\ [][Next]_vars

-----------------------------------------------------------------------------
(* Fairness: the run list is served and a service procedure goes on; callouts *)
(* fire; memory asked for again and again is granted in the end; and the      *)
(* congestion downstream does not come back for ever.                         *)
Fairness ==
    /\ \A s \in Sock :
         /\ SF_vars(Start(s)) /\ WF_vars(Walk(s)) /\ SF_vars(Wwake(s))
         /\ SF_vars(SendRelease(s)) /\ SF_vars(SendRequest(s))
         /\ SF_vars(\E t \in Trans : IssueRequest(s, t))
         /\ WF_vars(Drain(s)) /\ <>[](~full[s])
    /\ \A t \in Trans :
         /\ SF_vars(ReqTimeout(t))
         /\ SF_vars(DoneTimeout(t) /\ tcb'[t].state # "BUILD")

FairSpec == Spec /\ Fairness
-----------------------------------------------------------------------------
(* Properties. *)

TypeOK ==
    /\ life \in [Sock -> {"open", "closing", "closed"}]
    /\ transFree \subseteq Trans
    /\ tcb \in [Trans -> Tcb]
    /\ transSnd \in [Sock -> Seq(Trans)]
    /\ transWaiting \subseteq Sock
    /\ lastTid \in [Sock -> Tid]
    /\ finish \in [Sock -> BOOLEAN]
    /\ mwait \in [Sock -> BOOLEAN]
    /\ reqTimer \in [Trans -> Nat]
    /\ doneTimer \in [Trans -> Nat]
    /\ wq \in [Sock -> Seq(Command)]
    /\ enab \in [Sock -> BOOLEAN]
    /\ wantr \in [Sock -> BOOLEAN]
    /\ full \in [Sock -> BOOLEAN]
    /\ wantw \in [Sock -> BOOLEAN]
    /\ srv \in [Sock -> {"off", "send", "ioctl", "panic"}]
    /\ proc \in [Req -> ProcState]
    /\ tidOf \in [Req -> Tid]
    /\ result \in [Req -> SUBSET Seg]

(* While its socket is open, a tcb is on the send list at most once, and then *)
(* it is a pending transaction of that socket that waits to send a request or *)
(* a release; and one that waits to send a request is on the list.  atp_free  *)
(* takes a tcb off atp_trans_wait only, so a poll or a cancel of a queued one *)
(* would leave the list pointing into the free pool.                          *)
SendListExact ==
    \A s \in Sock : life[s] = "open" =>
        /\ \A i, j \in 1 .. Len(transSnd[s]) :
              transSnd[s][i] = transSnd[s][j] => i = j
        /\ \A t \in Trans : OnList(transSnd[s], t) =>
              t \in TransWait(s) /\ tcb[t].state \in {"REQUEST", "RELEASE"}
        /\ \A t \in TransWait(s) : tcb[t].state = "REQUEST" => OnList(transSnd[s], t)

(* The request timer runs exactly while a transaction waits for its replies,  *)
(* once; the timer of atp_x_done only in TRANS_BUILD; and no timeout is left  *)
(* for a tcb that has gone back to the pool, though each path that ends a     *)
(* transaction cancels its own timers.                                        *)
TimersExact ==
    \A t \in Trans :
        /\ reqTimer[t] = IF t \notin transFree /\ tcb[t].state = "TIMEOUT" THEN 1 ELSE 0
        /\ doneTimer[t] \in {0, 1}
        /\ doneTimer[t] = 1 => t \notin transFree /\ tcb[t].state = "BUILD"
        /\ tcb[t].state = "BUILD" /\ tcb[t].xmt = "ioctl" => doneTimer[t] = 1

(* No socket stays on the wait list while there is a tcb to be had: the       *)
(* wakeup of atp_trans_free is never lost.                                    *)
NoLostWakeup == transWaiting # {} => transFree = {}

(* An open socket with something to send or a command to serve, and not being *)
(* served, has something that will have it served: it is on the run list, or  *)
(* waits for memory, for a tcb, or for the queue downstream to drain.         *)
NoStall ==
    \A s \in Sock :
        life[s] = "open" /\ srv[s] = "off" /\ (transSnd[s] # <<>> \/ wq[s] # <<>>) =>
            enab[s] \/ mwait[s] \/ s \in transWaiting \/ (full[s] /\ wantw[s])

(* The pending transactions of a socket have different ids, after the ids     *)
(* have wrapped around as before: a response is never given to another.       *)
UniqueTids ==
    \A t, u \in Trans : t \notin transFree /\ u \notin transFree /\ t # u
                          /\ tcb[t].queue = tcb[u].queue => tcb[t].tid # tcb[u].tid

(* A reply reported as complete is whole and in order: all the segments of    *)
(* the response, whatever was lost, repeated or out of order on the way.      *)
WholeReply == \A r \in Req : proc[r] = "ok" => result[r] = 0 .. r.resp - 1

(* A request to be sent asks for every segment that is still missing, though  *)
(* only the timer refreshes the bitmap in the packet.                         *)
AsksForMissing == \A t \in Trans : tcb[t].state = "REQUEST" => tcb[t].bitmap \subseteq tcb[t].hdr

(* SET_FINISH is left pending only while a transaction is, so that some       *)
(* atp_free will acknowledge it.                                              *)
FinishPending == \A s \in Sock : finish[s] => TransWait(s) # {}

(* TRANS_RELEASE is "waiting to send a release": the transaction is on the    *)
(* list of transactions waiting to send (atp.inc.h).                          *)
ReleaseQueued ==
    \A s \in Sock : life[s] = "open" =>
        \A t \in TransWait(s) : tcb[t].state = "RELEASE" => OnList(transSnd[s], t)

(* A blocking request with a bounded number of retries is answered.           *)
Answered == \A r \in Req :
    r.kind = "REQ" /\ r.retry # Infinite => (proc[r] = "issuing" ~> proc[r] # "issuing")
=============================================================================
