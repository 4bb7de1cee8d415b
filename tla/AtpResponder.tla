---------------------------- MODULE AtpResponder ----------------------------
(***************************************************************************)
(* The responding side of the ATP streams module, src/appletalk/at/atp.    *)
(* A process that wants requests gives a socket reply control blocks       *)
(* (struct atp_rcb, rcb, of a pool that all the sockets share) with        *)
(* GET_REQUEST: to wait for one, or to be asked for later (no-wait).  A    *)
(* request that arrives takes one, the process sends the segments of its   *)
(* response, and the rcb repeats those the requester asks for again.  An   *)
(* at-least-once rcb is freed once all has been sent, an execute-once rcb  *)
(* by the release of the requester or, if that is lost, by a timer.        *)
(*                                                                         *)
(* The requester (and the network, which may lose, repeat and reorder) is  *)
(* reduced to the requests and releases that can reach the socket: missing *)
(* is what it has not heard yet, asks the bitmaps it may have sent.  The   *)
(* requests issued on the same socket are AtpRequester's; here the socket  *)
(* issues none.                                                            *)
(***************************************************************************)
EXTENDS AtpStream, Integers, FiniteSets

CONSTANTS
    Rcb,        \* the reply control blocks (NATP_RCB of them)
    Txn,        \* the transactions remote sockets have with ours: records,
                \* each a requesting socket and a transaction id of its
    None,       \* no socket, no transaction
    MaxWait,    \* ATP_MAXWAIT (10 in the code)
    MaxDrift,   \* bound: how far atp_nwait goes below zero
    MaxTimer,   \* bound: entries of the timer of one rcb on the callout list
    NoSpace,    \* the allocations the environment may refuse, see Allocation
    Commands,   \* those processes use of GetOp, POLL and SET_FINISH
    Repeat,     \* whether processes send segments again (after a signal)
    Closing     \* whether sockets are closed and opened again

Seg        == 0 .. 7
GetOp      == {"GET", "GET_NW", "GET_NOTE"}
Allocation == {"copy", "note"}          \* the calls that may return NULL

(* A transaction asks the socket sock for segments 0 .. ask-1; its response   *)
(* is segments 0 .. resp-1, the last sent with SEND_RESPONSE_EOF when eof.    *)
ASSUME TxnAssumption ==
    /\ Txn \subseteq [id : Nat, sock : Sock, xo : BOOLEAN, ask : 1 .. 8, resp : 1 .. 8,
                      eof : BOOLEAN]
    /\ \A x \in Txn : x.resp <= x.ask /\ (~x.eof => x.resp = x.ask)
ASSUME ConstantAssumption ==
    /\ MaxWait \in Nat /\ MaxDrift \in Nat /\ MaxTimer \in Nat /\ MaxQueue \in Nat
    /\ NoSpace \subseteq Allocation
    /\ Commands \subseteq GetOp \cup {"POLL", "SET_FINISH"}
    /\ Repeat \in BOOLEAN /\ Closing \in BOOLEAN
    /\ None \notin Txn \cup Sock

VARIABLES
    rcbFree,     \* atp_rcb_free_list
    rcb,         \* the reply control blocks
    unattached,  \* atp_unattached of each socket: rcbs waiting for requests
    repWait,     \* atp_rep_wait of each socket: rcbs with replies to send
    rcbWaiting,  \* atp_state_rcb_waiting: the sockets that wait for an rcb
    nwait,       \* atp_nwait
    finish,      \* whether atp_finish holds a SET_FINISH to be acknowledged
    rcbTimer,    \* entries atp_rcb_timer(rcbp) on the callout list
    clearTimer,  \* entries atp_clear(rcbp) on the callout list
    todo,        \* the segments a process that has got a request is yet to send
    wire,        \* the segments sent to each requester that it still wants
    missing,     \* the segments each requester has not heard and wants
    asks         \* the bitmaps of the requests it may have sent

rcbVars  == <<rcbFree, rcb, unattached, repWait, rcbWaiting, nwait, finish>>
timeVars == <<rcbTimer, clearTimer>>
peerVars == <<wire, missing, asks>>
vars     == <<life, mwait, strVars, rcbVars, timeVars, todo, peerVars>>

RcbState  == {"FREE", "IOCTL", "NW", "FULL", "RESPONDING", "RESPONSE_FULL", "LOST"}

(* xmt are the segments rc_xmt holds, snd the flags rc_snd, sent (which the   *)
(* code does not keep) the segments sent since the request came.  A LOST rcb  *)
(* is neither free nor on a list of its socket.                               *)
RcbRecord == [queue : Sock \cup {None}, state : RcbState, txn : Txn \cup {None},
              bitmap : SUBSET Seg, notSent : SUBSET Seg, xmt : SUBSET Seg,
              snd : SUBSET Seg, sent : SUBSET Seg, note : BOOLEAN]

(* atp_rcb_free clears rc_snd only where rc_xmt was set, and rc_note not at    *)
(* all; the rest of a free rcb is set by whoever allocates it.                 *)
Freed(c) == [queue |-> None, state |-> "FREE", txn |-> None, bitmap |-> {}, notSent |-> {},
             xmt |-> {}, snd |-> c.snd \ c.xmt, sent |-> {}, note |-> c.note]

NewRcb == [queue |-> None, state |-> "FREE", txn |-> None, bitmap |-> {}, notSent |-> {},
           xmt |-> {}, snd |-> {}, sent |-> {}, note |-> FALSE]

Command == [op : GetOp \cup {"POLL", "SET_FINISH"}]
           \cup [op : {"SEND"}, txn : Txn, seg : Seg]
           \cup [op : {"RELEASE"}, txn : Txn]

Init ==
    /\ StreamInit
    /\ rcbFree = Rcb
    /\ rcb = [c \in Rcb |-> NewRcb]
    /\ unattached = [s \in Sock |-> <<>>]
    /\ repWait = [s \in Sock |-> <<>>]
    /\ rcbWaiting = {}
    /\ nwait = [s \in Sock |-> 0]
    /\ finish = [s \in Sock |-> FALSE]
    /\ rcbTimer = [c \in Rcb |-> 0]
    /\ clearTimer = [c \in Rcb |-> 0]
    /\ todo = [x \in Txn |-> {}]
    /\ wire = [x \in Txn |-> {}]
    /\ missing = [x \in Txn |-> 0 .. x.ask - 1]
    /\ asks = [x \in Txn |-> {0 .. x.ask - 1}]

-----------------------------------------------------------------------------
(* Helpers. *)

(* atp_rcb of a socket: the rcbs of the requests in progress. *)
Active(s) == {c \in Rcb : rcb[c].queue = s /\ rcb[c].state \in {"RESPONDING", "RESPONSE_FULL"}}

(* The rcbs in a state on atp_unattached, and the first of them, if any. *)
Waiting(s, state)      == {c \in Rcb : OnList(unattached[s], c) /\ rcb[c].state = state}
FirstWaiting(s, state) ==
    LET q == unattached[s]
    IN  {c \in Waiting(s, state) :
           \E i \in 1 .. Len(q) : q[i] = c /\ \A j \in 1 .. i - 1 : rcb[q[j]].state # state}

FaultyWakeWaiting == UNCHANGED <<rcbWaiting, enab>>

(* qenable of every socket on the wait list, which is emptied. *)
WakeWaiting ==
    /\ rcbWaiting' = {}
    /\ enab' = [s \in Sock |-> enab[s] \/ s \in rcbWaiting]

(* atp_rcb_free of c, with the timers the caller has reached: it goes from     *)
(* atp_rep_wait and from atp_unattached or atp_rcb, one entry of its timer goes, *)
(* a pending SET_FINISH is acknowledged when c was the last request in progress, *)
(* and the sockets that wait for an rcb are scheduled.                           *)
RcbFree(c, timers) ==
    LET s       == rcb[c].queue
        waiting == OnList(unattached[s], c)
    IN  /\ repWait' = [repWait EXCEPT ![s] = Without(@, c)]
        /\ unattached' = [unattached EXCEPT ![s] = Without(@, c)]
        /\ clearTimer' = IF rcb[c].state = "FULL"
                         THEN [clearTimer EXCEPT ![c] = Untimeout(@)] ELSE clearTimer
        /\ rcbTimer' = IF waiting THEN timers ELSE [timers EXCEPT ![c] = Untimeout(@)]
        /\ finish' = [finish EXCEPT ![s] = @ /\ Active(s) \ {c} # {}]
        /\ rcb' = [rcb EXCEPT ![c] = Freed(@)]
        /\ rcbFree' = rcbFree \cup {c}
        /\ WakeWaiting

FaultyQueueReplyTwice(s, c) ==
    /\ repWait' = [repWait EXCEPT ![s] = Append(@, c)]
    /\ enab' = [enab EXCEPT ![s] = TRUE]

FaultyQueueReplyOnce(s, c) ==
    IF OnList(repWait[s], c) \/ rcb[c].notSent = {} THEN UNCHANGED <<repWait, enab>>
    ELSE /\ repWait' = [repWait EXCEPT ![s] = Append(@, c)]
         /\ enab' = [enab EXCEPT ![s] = TRUE]

(* Put c on the list of replies to send, unless it is on it, and schedule.    *)
QueueReply(s, c) ==
    IF OnList(repWait[s], c) THEN UNCHANGED <<repWait, enab>>
    ELSE /\ repWait' = [repWait EXCEPT ![s] = Append(@, c)]
         /\ enab' = [enab EXCEPT ![s] = TRUE]

FaultyAtpReply(s, c, b) ==
    LET again == rcb[c].xmt \cap b
    IN  /\ rcb' = [rcb EXCEPT ![c].bitmap = b, ![c].xmt = @ \ b, ![c].snd = @ \cup again]
        /\ IF again = {} THEN UNCHANGED <<repWait, enab>> ELSE QueueReply(s, c)

(* atp_reply for the bitmap b of a repeated request: send what it asks for     *)
(* again, give up what it does not ask for.                                    *)
AtpReply(s, c, b) ==
    LET again == rcb[c].xmt \cap b
    IN  /\ rcb' = [rcb EXCEPT ![c].bitmap = b, ![c].xmt = again, ![c].snd = @ \cup again]
        /\ IF again = {} THEN UNCHANGED <<repWait, enab>> ELSE QueueReply(s, c)

(* The rcb record c when it holds request x with bitmap b. *)
Holding(c, state, x, b) ==
    [c EXCEPT !.state = state, !.txn = x, !.bitmap = b, !.notSent = b]

(* A process has got request x. *)
Deliver(x) == todo' = [todo EXCEPT ![x] = 0 .. x.resp - 1]

-----------------------------------------------------------------------------
(* The process: commands reach the write queue. *)

Give(s, m) ==
    /\ PutQ(s, m)
    /\ UNCHANGED <<rcbVars, timeVars, peerVars>>

(* GET_REQUEST, GET_POLL and SET_FINISH *)
Ask(s, op) == Give(s, [op |-> op]) /\ UNCHANGED todo

(* It sends the segments of a response in order. *)
Respond(x) ==
    \E g \in todo[x] :
        /\ \A h \in todo[x] : g <= h
        /\ todo' = [todo EXCEPT ![x] = @ \ {g}]
        /\ Give(x.sock, [op |-> "SEND", txn |-> x, seg |-> g])

(* It sends one again: the ioctl was interrupted by a signal, so the process    *)
(* does not know that ATP has it.                                               *)
RespondAgain(x) ==
    \E g \in 0 .. x.resp - 1 :
        /\ Repeat
        /\ g \notin todo[x]
        /\ Give(x.sock, [op |-> "SEND", txn |-> x, seg |-> g])
        /\ UNCHANGED todo

(* It gives a request up. *)
GiveUp(x) ==
    /\ todo[x] # {}
    /\ todo' = [todo EXCEPT ![x] = {}]
    /\ Give(x.sock, [op |-> "RELEASE", txn |-> x])

-----------------------------------------------------------------------------
(* The requester and the network (external). *)

(* A segment that was sent is heard.  Behind the end of message nothing is     *)
(* wanted.                                                                     *)
Hear(x, g) ==
    LET left == IF x.eof /\ g = x.resp - 1 THEN {h \in missing[x] : h < g}
                                           ELSE missing[x] \ {g}
    IN  /\ g \in wire[x]
        /\ missing' = [missing EXCEPT ![x] = left]
        /\ wire' = [wire EXCEPT ![x] = @ \cap left]
        /\ asks' = [asks EXCEPT ![x] = @ \cup ({left} \ {{}})]
        /\ UNCHANGED <<life, mwait, strVars, rcbVars, timeVars, todo>>

(* The transaction x has ended, by its release or because that has not come    *)
(* for 30 seconds: no message of it is under way any more.                     *)
Ended(x) ==
    /\ asks' = [asks EXCEPT ![x] = {}]
    /\ wire' = [wire EXCEPT ![x] = {}]
    /\ UNCHANGED missing

-----------------------------------------------------------------------------
(* atp_rsrvc. *)

Arrives(s) == Quiet /\ life[s] = "open"

(* A request that is in progress is answered again. *)
RequestAgain(x, b) ==
    /\ Arrives(x.sock)
    /\ \E c \in Active(x.sock) :
         /\ rcb[c].txn = x
         /\ AtpReply(x.sock, c, b)
         /\ rcbTimer' = [rcbTimer EXCEPT ![c] = Untimeout(@)]
    /\ UNCHANGED <<life, mwait, wq, wantr, full, wantw, srv, rcbFree, unattached, rcbWaiting,
                   nwait, finish, clearTimer, todo, peerVars>>

FaultyNotActive(x) == \A c \in Active(x.sock) : rcb[c].notSent = {}

NotActive(x) == \A c \in Active(x.sock) : rcb[c].txn # x

(* A new request for which a process is waiting. *)
RequestTaken(x, b) ==
    LET s == x.sock
    IN  /\ Arrives(s) /\ NotActive(x)
        /\ \E c \in FirstWaiting(s, "IOCTL") :
             /\ rcb' = [rcb EXCEPT ![c] = Holding(@, "RESPONDING", x, b)]
             /\ unattached' = [unattached EXCEPT ![s] = Without(@, c)]
        /\ Deliver(x)
        /\ UNCHANGED <<life, mwait, strVars, rcbFree, repWait, rcbWaiting, nwait, finish,
                       timeVars, peerVars>>

(* One that is held for a poll already: its timer starts again, and a note    *)
(* that could not be sent is.                                                 *)
RequestHeld(x) ==
    /\ Arrives(x.sock) /\ NotActive(x)
    /\ Waiting(x.sock, "IOCTL") = {}
    /\ \E c \in Waiting(x.sock, "FULL") :
         /\ rcb[c].txn = x
         /\ clearTimer' = [clearTimer EXCEPT ![c] = Untimeout(@) + 1]
         /\ \E noted \in {TRUE} \cup (IF "note" \in NoSpace THEN {FALSE} ELSE {}) :
              rcb' = [rcb EXCEPT ![c].note = @ /\ ~noted]
    /\ UNCHANGED <<life, mwait, strVars, rcbFree, unattached, repWait, rcbWaiting, nwait, finish,
                   rcbTimer, todo, peerVars>>

(* A new one that a no-wait rcb holds for a poll, for one second.  The code    *)
(* looks for rc_note through a null pointer, so the note of the rcb stays.     *)
RequestHold(x, b) ==
    LET s == x.sock
    IN  /\ Arrives(s) /\ NotActive(x)
        /\ Waiting(s, "IOCTL") = {}
        /\ \A f \in Waiting(s, "FULL") : rcb[f].txn # x
        /\ \E c \in FirstWaiting(s, "NW") :
             /\ rcb' = [rcb EXCEPT ![c] = Holding(@, "FULL", x, b)]
             /\ clearTimer' = [clearTimer EXCEPT ![c] = @ + 1]
        /\ UNCHANGED <<life, mwait, strVars, rcbFree, unattached, repWait, rcbWaiting, nwait,
                       finish, rcbTimer, todo, peerVars>>

(* The release of an execute-once transaction, sent when nothing is missing. *)
RecvRelease(x) ==
    /\ Arrives(x.sock)
    /\ x.xo /\ missing[x] = {}
    /\ \E c \in Active(x.sock) : rcb[c].txn = x /\ RcbFree(c, rcbTimer)
    /\ Ended(x)
    /\ UNCHANGED <<life, mwait, wq, wantr, full, wantw, srv, nwait, todo>>

-----------------------------------------------------------------------------
(* Timeouts. *)

(* atp_rcb_timer frees the rcb whatever it is used for by now.  One that is    *)
(* free would be put on atp_rcb_free_list a second time: that corrupts the     *)
(* list, and nothing is said of what follows.                                  *)
RcbTimeout(c) ==
    /\ Idle
    /\ rcbTimer[c] > 0
    /\ \/ /\ c \notin rcbFree
          /\ RcbFree(c, [rcbTimer EXCEPT ![c] = @ - 1])
          /\ IF rcb[c].txn = None THEN UNCHANGED peerVars ELSE Ended(rcb[c].txn)
          /\ UNCHANGED srv
       \/ /\ c \in rcbFree
          /\ srv' = [s \in Sock |-> "panic"]
          /\ rcbTimer' = [rcbTimer EXCEPT ![c] = @ - 1]
          /\ UNCHANGED <<enab, rcbFree, rcb, unattached, repWait, rcbWaiting, finish, clearTimer,
                         peerVars>>
    /\ UNCHANGED <<life, mwait, wq, wantr, full, wantw, nwait, todo>>

(* atp_clear: a request held for a second is dropped. *)
ClearTimeout(c) ==
    /\ Idle
    /\ clearTimer[c] > 0
    /\ clearTimer' = [clearTimer EXCEPT ![c] = @ - 1]
    /\ rcb' = IF rcb[c].state = "FULL" THEN [rcb EXCEPT ![c].state = "NW"] ELSE rcb
    /\ UNCHANGED <<life, mwait, strVars, rcbFree, unattached, repWait, rcbWaiting, nwait, finish,
                   rcbTimer, todo, peerVars>>

-----------------------------------------------------------------------------
(* The streams system. *)

Fill(s)  == Fills(s) /\ UNCHANGED <<rcbVars, timeVars, todo, peerVars>>
Drain(s) == Drains(s) /\ UNCHANGED <<rcbVars, timeVars, todo, peerVars>>
Start(s) == RunQueue(s) /\ UNCHANGED <<rcbVars, timeVars, todo, peerVars>>
Wwake(s) == Wakes(s) /\ UNCHANGED <<rcbVars, timeVars, todo, peerVars>>

-----------------------------------------------------------------------------
(* The reply loop of atp_wsrvc (the send loop before it has nothing to do). *)

(* The first rcb with replies to send has segments flagged; the first is next. *)
Replying(s)  == srv[s] = "send" /\ repWait[s] # <<>> /\ rcb[Head(repWait[s])].snd # {}
NextReply(c) == CHOOSE g \in rcb[c].snd : \A h \in rcb[c].snd : g <= h

ReplyBlocked(s) ==
    /\ Replying(s)
    /\ Blocked(s)
    /\ UNCHANGED <<life, mwait, wq, enab, wantr, full, rcbVars, timeVars, todo, peerVars>>

(* copymsg returns NULL: for want of memory, or because there is no reply to copy. *)
ReplyNoSpace(s) ==
    LET c == Head(repWait[s])
    IN  /\ Replying(s) /\ ~full[s]
        /\ "copy" \in NoSpace \/ NextReply(c) \notin rcb[c].xmt
        /\ MemWait(s)
        /\ UNCHANGED <<life, wq, enab, wantr, full, wantw, rcbVars, timeVars, todo, peerVars>>

ReplySegment(s) ==
    LET c == Head(repWait[s])
        g == NextReply(c)
    IN  /\ Replying(s) /\ ~full[s]
        /\ g \in rcb[c].xmt
        /\ rcb' = [rcb EXCEPT ![c].snd = @ \ {g}, ![c].notSent = @ \ {g}, ![c].sent = @ \cup {g}]
        /\ wire' = [wire EXCEPT ![rcb[c].txn] = @ \cup ({g} \cap missing[rcb[c].txn])]
        /\ UNCHANGED <<life, mwait, strVars, rcbFree, unattached, repWait, rcbWaiting, nwait,
                       finish, timeVars, todo, missing, asks>>

(* All flagged replies of the rcb are sent.  If they complete the response, an *)
(* execute-once rcb waits for its release, another is freed.                   *)
ReplyDone(s) ==
    LET c == Head(repWait[s])
        x == rcb[c].txn
    IN  /\ srv[s] = "send" /\ repWait[s] # <<>> /\ rcb[c].snd = {}
        /\ rcbTimer[c] < MaxTimer
        /\ \/ /\ rcb[c].notSent = {} /\ ~x.xo
              /\ RcbFree(c, rcbTimer)
           \/ /\ rcb[c].notSent = {} => x.xo
              /\ repWait' = [repWait EXCEPT ![s] = Tail(@)]
              /\ rcbTimer' = IF rcb[c].notSent = {} THEN [rcbTimer EXCEPT ![c] = @ + 1]
                                                    ELSE rcbTimer
              /\ UNCHANGED <<unattached, clearTimer, finish, rcb, rcbFree, rcbWaiting, enab>>
        /\ UNCHANGED <<life, mwait, wq, wantr, full, wantw, srv, nwait, todo, peerVars>>

RepliesDone(s) ==
    /\ srv[s] = "send" /\ repWait[s] = <<>>
    /\ srv' = [srv EXCEPT ![s] = "ioctl"]
    /\ UNCHANGED <<life, mwait, wq, enab, wantr, full, wantw, rcbVars, timeVars, todo, peerVars>>

-----------------------------------------------------------------------------
(* The ioctl loop of atp_wsrvc. *)

Empty(s) == NoCommand(s) /\ UNCHANGED <<rcbVars, timeVars, todo, peerVars>>

AtGet(s) == \E op \in GetOp : At(s, op)

(* atp_rcb_alloc finds no rcb and puts the socket on the wait list. *)
GetNoRcb(s) ==
    /\ AtGet(s)
    /\ rcbFree = {}
    /\ rcbWaiting' = rcbWaiting \cup {s}
    /\ PutBack(s)
    /\ srv' = [srv EXCEPT ![s] = "off"]
    /\ UNCHANGED <<life, mwait, enab, full, wantw, rcbFree, rcb, unattached, repWait, nwait,
                   finish, timeVars, todo, peerVars>>

(* An rcb taken from the pool for s, in this state and with this rc_note. *)
AllocRcb(s, c, state, note) ==
    /\ c \in rcbFree
    /\ rcbFree' = rcbFree \ {c}
    /\ rcb' = [rcb EXCEPT ![c].queue = s, ![c].state = state, ![c].note = note]
    /\ UNCHANGED rcbWaiting

(* EAGAIN: the socket has its limit of no-wait rcbs.  The rcb just allocated  *)
(* is not given back.                                                         *)
GetTooMany(s, c) ==
    /\ At(s, "GET_NW") \/ At(s, "GET_NOTE")
    /\ nwait[s] >= MaxWait
    /\ AllocRcb(s, c, "LOST", rcb[c].note)
    /\ TakeCommand(s)
    /\ UNCHANGED <<life, mwait, enab, full, wantw, srv, unattached, repWait, nwait, finish,
                   timeVars, todo, peerVars>>

GetNoWait(s, c) ==
    /\ At(s, "GET_NW") \/ At(s, "GET_NOTE")
    /\ nwait[s] < MaxWait
    /\ AllocRcb(s, c, "NW", At(s, "GET_NOTE"))
    /\ unattached' = [unattached EXCEPT ![s] = Append(@, c)]
    /\ nwait' = [nwait EXCEPT ![s] = @ + 1]
    /\ TakeCommand(s)
    /\ UNCHANGED <<life, mwait, enab, full, wantw, srv, repWait, finish, timeVars, todo, peerVars>>

(* A request is held already: the process gets it, and the new rcb takes the  *)
(* place of the one that held it.  Only the latter is counted, off.           *)
GetHeld(s, c) ==
    /\ At(s, "GET")
    /\ nwait[s] > 0 - MaxDrift
    /\ c \in rcbFree
    /\ rcbFree' = rcbFree \ {c}
    /\ \E f \in FirstWaiting(s, "FULL") :
         /\ rcb' = [rcb EXCEPT ![c].queue = s, ![c].state = "NW", ![f].state = "RESPONDING"]
         /\ unattached' = [unattached EXCEPT ![s] = Without(Append(@, c), f)]
         /\ clearTimer' = [clearTimer EXCEPT ![f] = Untimeout(@)]
         /\ Deliver(rcb[f].txn)
    /\ nwait' = [nwait EXCEPT ![s] = @ - 1]
    /\ TakeCommand(s)
    /\ UNCHANGED <<life, mwait, enab, full, wantw, srv, repWait, rcbWaiting, finish, rcbTimer,
                   peerVars>>

FaultyGetWait(s, c) ==
    /\ At(s, "GET")
    /\ AllocRcb(s, c, "IOCTL", rcb[c].note)
    /\ unattached' = [unattached EXCEPT ![s] = Append(@, c)]
    /\ TakeCommand(s)
    /\ UNCHANGED <<life, mwait, enab, full, wantw, srv, repWait, nwait, finish, timeVars, todo,
                   peerVars>>

GetWait(s, c) ==
    /\ At(s, "GET") /\ Waiting(s, "FULL") = {}
    /\ AllocRcb(s, c, "IOCTL", rcb[c].note)
    /\ unattached' = [unattached EXCEPT ![s] = Append(@, c)]
    /\ TakeCommand(s)
    /\ UNCHANGED <<life, mwait, enab, full, wantw, srv, repWait, nwait, finish, timeVars, todo,
                   peerVars>>

(* A poll gets a request that is held. *)
PollTake(s) ==
    /\ At(s, "POLL")
    /\ nwait[s] > 0 - MaxDrift
    /\ \E f \in FirstWaiting(s, "FULL") :
         /\ rcb' = [rcb EXCEPT ![f].state = "RESPONDING"]
         /\ unattached' = [unattached EXCEPT ![s] = Without(@, f)]
         /\ clearTimer' = [clearTimer EXCEPT ![f] = Untimeout(@)]
         /\ Deliver(rcb[f].txn)
    /\ nwait' = [nwait EXCEPT ![s] = @ - 1]
    /\ TakeCommand(s)
    /\ UNCHANGED <<life, mwait, enab, full, wantw, srv, rcbFree, repWait, rcbWaiting, finish,
                   rcbTimer, peerVars>>

(* EAGAIN *)
PollEmpty(s) ==
    /\ At(s, "POLL") /\ Waiting(s, "FULL") = {}
    /\ TakeCommand(s)
    /\ UNCHANGED <<life, mwait, enab, full, wantw, srv, rcbVars, timeVars, todo, peerVars>>

(* The rcb a segment of a response, or a release, is for. *)
Named(s, c) == c \in Active(s) /\ rcb[c].txn = Head(wq[s]).txn

(* The segment is wanted, and the response not complete. *)
Accepts(c, g) == rcb[c].state = "RESPONDING" /\ g \in rcb[c].bitmap

SendResponse(s, c) ==
    LET m    == Head(wq[s])
        last == m.seg = 7 \/ (m.txn.eof /\ m.seg = m.txn.resp - 1)
    IN  /\ At(s, "SEND") /\ Named(s, c) /\ Accepts(c, m.seg)
        /\ rcb' = [rcb EXCEPT
             ![c].state = IF last THEN "RESPONSE_FULL" ELSE @,
             ![c].notSent = IF last THEN {h \in @ : h <= m.seg} ELSE @,
             ![c].xmt = @ \cup {m.seg},
             ![c].snd = @ \cup {m.seg}]
        /\ QueueReply(s, c)
        /\ TakeCommand(s)
        /\ UNCHANGED <<life, mwait, full, wantw, srv, rcbFree, unattached, rcbWaiting, nwait,
                       finish, timeVars, todo, peerVars>>

(* ENOENT, for a segment and for a release *)
NoSuchRequest(s) ==
    /\ \/ /\ At(s, "SEND")
          /\ \A c \in Rcb : Named(s, c) => ~Accepts(c, Head(wq[s]).seg)
       \/ At(s, "RELEASE") /\ \A c \in Rcb : ~Named(s, c)
    /\ TakeCommand(s)
    /\ UNCHANGED <<life, mwait, enab, full, wantw, srv, rcbVars, timeVars, todo, peerVars>>

ReleaseResponse(s, c) ==
    /\ At(s, "RELEASE") /\ Named(s, c)
    /\ RcbFree(c, rcbTimer)
    /\ TakeCommand(s)
    /\ UNCHANGED <<life, mwait, full, wantw, srv, nwait, todo, peerVars>>

FaultySetFinish(s) ==
    /\ At(s, "SET_FINISH")
    /\ finish' = [finish EXCEPT ![s] = TRUE]
    /\ TakeCommand(s)
    /\ UNCHANGED <<life, mwait, enab, full, wantw, srv, rcbFree, rcb, unattached, repWait,
                   rcbWaiting, nwait, timeVars, todo, peerVars>>

SetFinish(s) ==
    /\ At(s, "SET_FINISH")
    /\ finish' = [finish EXCEPT ![s] = Active(s) # {}]
    /\ TakeCommand(s)
    /\ UNCHANGED <<life, mwait, enab, full, wantw, srv, rcbFree, rcb, unattached, repWait,
                   rcbWaiting, nwait, timeVars, todo, peerVars>>

-----------------------------------------------------------------------------
(* atp_close frees the rcbs on the lists of the socket. *)

AtpClose(s) ==
    LET own == Active(s) \cup {c \in Rcb : OnList(unattached[s], c)}
    IN  /\ Closing
        /\ CloseQueues(s, IF own = {} THEN {} ELSE rcbWaiting)
        /\ rcb' = [c \in Rcb |-> IF c \in own THEN Freed(rcb[c]) ELSE rcb[c]]
        /\ rcbFree' = rcbFree \cup own
        /\ unattached' = [unattached EXCEPT ![s] = <<>>]
        /\ repWait' = [repWait EXCEPT ![s] = <<>>]
        /\ rcbTimer' = [c \in Rcb |-> IF c \in Active(s) THEN Untimeout(rcbTimer[c])
                                                         ELSE rcbTimer[c]]
        /\ clearTimer' = [c \in Rcb |-> IF c \in own /\ rcb[c].state = "FULL"
                                        THEN Untimeout(clearTimer[c]) ELSE clearTimer[c]]
        /\ rcbWaiting' = IF own = {} THEN rcbWaiting \ {s} ELSE {}
        /\ finish' = [finish EXCEPT ![s] = FALSE]
        /\ todo' = [x \in Txn |-> IF x.sock = s THEN {} ELSE todo[x]]
        /\ UNCHANGED <<nwait, peerVars>>

Detach(s) == Detaches(s) /\ UNCHANGED <<rcbVars, timeVars, todo, peerVars>>

AtpOpen(s) ==
    /\ Attaches(s)
    /\ nwait' = [nwait EXCEPT ![s] = 0]
    /\ UNCHANGED <<rcbFree, rcb, unattached, repWait, rcbWaiting, finish, timeVars, todo,
                   peerVars>>

-----------------------------------------------------------------------------
Walk(s) ==
    \/ ReplyBlocked(s) \/ ReplyNoSpace(s) \/ ReplySegment(s) \/ ReplyDone(s) \/ RepliesDone(s)
    \/ Empty(s) \/ GetNoRcb(s) \/ PollTake(s) \/ PollEmpty(s) \/ NoSuchRequest(s) \/ SetFinish(s)
    \/ \E c \in Rcb : \/ GetTooMany(s, c) \/ GetNoWait(s, c) \/ GetHeld(s, c) \/ GetWait(s, c)
                      \/ SendResponse(s, c) \/ ReleaseResponse(s, c)

Next ==
    \/ \E x \in Txn :
         \/ Respond(x) \/ RespondAgain(x) \/ GiveUp(x)
         \/ \E g \in Seg : Hear(x, g)
         \/ \E b \in asks[x] : RequestAgain(x, b) \/ RequestTaken(x, b) \/ RequestHold(x, b)
         \/ RequestHeld(x) \/ RecvRelease(x)
    \/ \E s \in Sock :
         \/ \E op \in Commands : Ask(s, op)
         \/ Fill(s) \/ Drain(s) \/ Start(s) \/ Walk(s) \/ Wwake(s)
         \/ AtpClose(s) \/ Detach(s) \/ AtpOpen(s)
    \/ \E c \in Rcb : RcbTimeout(c) \/ ClearTimeout(c)

Spec == Init /\ [][Next]_vars

-----------------------------------------------------------------------------
(* Properties. *)

TypeOK ==
    /\ life \in [Sock -> {"open", "closing", "closed"}]
    /\ rcbFree \subseteq Rcb
    /\ rcb \in [Rcb -> RcbRecord]
    /\ unattached \in [Sock -> Seq(Rcb)]
    /\ repWait \in [Sock -> Seq(Rcb)]
    /\ rcbWaiting \subseteq Sock
    /\ nwait \in [Sock -> Int]
    /\ finish \in [Sock -> BOOLEAN]
    /\ mwait \in [Sock -> BOOLEAN]
    /\ rcbTimer \in [Rcb -> Nat]
    /\ clearTimer \in [Rcb -> Nat]
    /\ wq \in [Sock -> Seq(Command)]
    /\ enab \in [Sock -> BOOLEAN]
    /\ wantr \in [Sock -> BOOLEAN]
    /\ full \in [Sock -> BOOLEAN]
    /\ wantw \in [Sock -> BOOLEAN]
    /\ srv \in [Sock -> {"off", "send", "ioctl", "panic"}]
    /\ todo \in [Txn -> SUBSET Seg]
    /\ wire \in [Txn -> SUBSET Seg]
    /\ missing \in [Txn -> SUBSET Seg]
    /\ asks \in [Txn -> SUBSET SUBSET Seg]

(* No two rcbs hold the same request, so that while one does, a repetition of  *)
(* the request is never given to a process as a new one.                       *)
NoTwins ==
    \A c, d \in Rcb :
        c # d /\ rcb[c].state \in {"FULL", "RESPONDING", "RESPONSE_FULL"}
              /\ rcb[d].state \in {"FULL", "RESPONDING", "RESPONSE_FULL"}
            => rcb[c].txn # rcb[d].txn

(* No process waits in GET_REQUEST while a request is held for a poll.        *)
NoneOverlooked == \A s \in Sock : Waiting(s, "IOCTL") = {} \/ Waiting(s, "FULL") = {}

(* A segment that was sent and that the requester has not heard is kept, to be *)
(* sent again when it is asked for, until the whole rcb goes.                  *)
HeldUntilHeard ==
    \A s \in Sock : \A c \in Active(s) :
        rcb[c].sent \cap missing[rcb[c].txn] \subseteq rcb[c].xmt

(* A request whose response has been sent whole and is not to be sent again    *)
(* has the timer running that frees the rcb should the release be lost, and a   *)
(* request held for a poll the one that drops it, once: no rcb is kept for      *)
(* ever, and no request is dropped before its time.                             *)
TimersRun ==
    \A c \in Rcb :
        /\ c \in Active(rcb[c].queue) /\ rcb[c].notSent = {}
              /\ ~OnList(repWait[rcb[c].queue], c) => rcb[c].txn.xo /\ rcbTimer[c] > 0
        /\ clearTimer[c] = IF rcb[c].state = "FULL" THEN 1 ELSE 0

(* "The rcb timer just frees the rcb, this happens when we missed a release     *)
(* for XO" (atp_misc.c): it runs only for an execute-once request in progress   *)
(* that has had its whole response sent.                                        *)
NoStaleTimer ==
    \A c \in Rcb : rcbTimer[c] > 0 =>
        c \in Active(rcb[c].queue) /\ rcb[c].txn.xo /\ rcb[c].notSent = {}

(* On the list of replies to send are requests in progress of that socket,    *)
(* each once, and each that has a reply to send is.                           *)
ReplyListExact ==
    \A s \in Sock :
        /\ \A i, j \in 1 .. Len(repWait[s]) : repWait[s][i] = repWait[s][j] => i = j
        /\ \A i \in 1 .. Len(repWait[s]) : repWait[s][i] \in Active(s)
        /\ \A c \in Active(s) : rcb[c].snd \cap rcb[c].xmt # {} => OnList(repWait[s], c)

(* No socket stays on the wait list while there is an rcb to be had. *)
NoLostWakeup == rcbWaiting # {} => rcbFree = {}

(* An open socket with a reply to send or a command to serve, and not being   *)
(* served, has something that will have it served.                            *)
NoStall ==
    \A s \in Sock :
        life[s] = "open" /\ srv[s] = "off" /\ (repWait[s] # <<>> \/ wq[s] # <<>>) =>
            enab[s] \/ mwait[s] \/ s \in rcbWaiting \/ (full[s] /\ wantw[s])

(* SET_FINISH is left pending only while a request is in progress. *)
FinishPending == \A s \in Sock : finish[s] => Active(s) # {}

(* rc_snd are the "replys actually to be sent" (atp.inc.h): each is there.    *)
SendsHeldReplies ==
    \A s \in Sock : \A i \in 1 .. Len(repWait[s]) :
        rcb[repWait[s][i]].snd \subseteq rcb[repWait[s][i]].xmt
=============================================================================
