----------------------------- MODULE AtpStream ------------------------------
(***************************************************************************)
(* What the two sides of the ATP streams module (AtpRequester and          *)
(* AtpResponder) share: the write queue of a socket with the commands on   *)
(* it, the queue downstream, and when the write service procedure          *)
(* atp_wsrvc runs (src/sys/COMMON/os/stream.c and streamio.c,              *)
(* src/appletalk/at/atp).                                                  *)
(*                                                                         *)
(* Granularity.  The kernel is not preempted, and the clock runs no        *)
(* timeout while a stream service procedure runs (PAGING/os/clock.c:116    *)
(* tests queueflag, which stream.c:runqueues sets).  A timeout and one     *)
(* iteration of atp_rsrvc are therefore single actions.  atp_wsrvc is a    *)
(* walk of several steps, because what it asks of the streams system       *)
(* (canput, allocb, copymsg, dupb) may be answered differently each time:  *)
(* srv says where it is, and while it runs nothing else of ATP does.       *)
(*                                                                         *)
(* Commands are M_IOCTL messages.  The stream head has one of its own      *)
(* outstanding at a time, but a signal makes it give up waiting and leaves *)
(* the command with ATP, and PAP, pushed on an ATP stream, sends any       *)
(* number of them: so several commands of a socket may be in progress.     *)
(***************************************************************************)
EXTENDS Naturals, Sequences

(* An operator called Faulty... is what a plausible bug would make of the        *)
(* definition after it.  No action uses it; it is there to be put in place of    *)
(* the definition, to see that the properties would notice.                      *)

CONSTANTS
    Sock,       \* the atp_state structures
    MaxQueue,   \* bound: commands waiting on one write queue
    Congested   \* the sockets whose queue downstream may fill

VARIABLES
    life,       \* of each socket: open, closed, or closing (see CloseQueues)
    mwait,      \* atp_mwait, set exactly while atp_wwake is on the callout list
    wq,         \* the commands on the write queue
    enab,       \* its QENAB flag: it is on the run list
    wantr,      \* its QWANTR flag: a putq enables it
    full,       \* QFULL of the queue downstream
    wantw,      \* QWANTW of the queue downstream: its draining enables us
    srv         \* where atp_wsrvc is: not running, sending, or at the ioctls

strVars == <<wq, enab, wantr, full, wantw, srv>>

StreamInit ==
    /\ life = [s \in Sock |-> "open"]
    /\ mwait = [s \in Sock |-> FALSE]
    /\ wq = [s \in Sock |-> <<>>]
    /\ enab = [s \in Sock |-> FALSE]
    /\ wantr = [s \in Sock |-> TRUE]
    /\ full = [s \in Sock |-> FALSE]
    /\ wantw = [s \in Sock |-> FALSE]
    /\ srv = [s \in Sock |-> "off"]

(* No service procedure runs, so the next one may. *)
Quiet == \A s \in Sock : srv[s] = "off"

(* No stream is being closed either, so timeouts and processes may run: the  *)
(* kernel closes a stream without giving up the processor, at splstr.        *)
Idle == Quiet /\ \A s \in Sock : life[s] # "closing"

(* Interrupts reach the streams: always, but in a close only while it has   *)
(* the run list served.                                                     *)
Interruptible == ~Quiet \/ Idle \/ \E s \in Sock : enab[s]

FaultyUntimeoutNone(n)  == n
FaultyUntimeoutBlind(n) == n - 1

(* untimeout takes the first matching entry off the callout list, if any. *)
Untimeout(n) == IF n > 0 THEN n - 1 ELSE 0

(* Whether e is on the list q. *)
OnList(q, e) == \E i \in 1 .. Len(q) : q[i] = e

(* ATP_Q_REMOVE: q without its member e, wherever it stands. *)
Without(q, e) ==
    IF OnList(q, e)
    THEN LET i == CHOOSE j \in 1 .. Len(q) : q[j] = e
         IN  [j \in 1 .. Len(q) - 1 |-> IF j < i THEN q[j] ELSE q[j + 1]]
    ELSE q

-----------------------------------------------------------------------------
(* The queues. *)

(* putq of a command, by way of atp_wputq. *)
PutQ(s, m) ==
    /\ Idle /\ life[s] = "open"
    /\ Len(wq[s]) < MaxQueue
    /\ wq' = [wq EXCEPT ![s] = Append(@, m)]
    /\ enab' = [enab EXCEPT ![s] = @ \/ wantr[s]]
    /\ UNCHANGED <<life, mwait, wantr, full, wantw, srv>>

(* The queue downstream fills, and drains: getq back-enables who wanted it. *)
Fills(s) ==
    /\ Interruptible /\ s \in Congested /\ ~full[s]
    /\ full' = [full EXCEPT ![s] = TRUE]
    /\ UNCHANGED <<life, mwait, wq, enab, wantr, wantw, srv>>

FaultyDrains(s) ==
    /\ Interruptible /\ full[s]
    /\ full' = [full EXCEPT ![s] = FALSE]
    /\ wantw' = [wantw EXCEPT ![s] = FALSE]
    /\ UNCHANGED <<life, mwait, wq, enab, wantr, srv>>

Drains(s) ==
    /\ Interruptible /\ full[s]
    /\ full' = [full EXCEPT ![s] = FALSE]
    /\ wantw' = [wantw EXCEPT ![s] = FALSE]
    /\ enab' = [enab EXCEPT ![s] = @ \/ (wantw[s] /\ life[s] # "closed")]
    /\ UNCHANGED <<life, mwait, wq, wantr, srv>>

(* queuerun takes the socket's write queue off the run list. *)
RunQueue(s) ==
    /\ Quiet /\ life[s] # "closed" /\ enab[s]
    /\ srv' = [srv EXCEPT ![s] = "send"]
    /\ enab' = [enab EXCEPT ![s] = FALSE]
    /\ UNCHANGED <<life, mwait, wq, wantr, full, wantw>>

(* atp_wwake *)
Wakes(s) ==
    /\ Idle
    /\ mwait[s]
    /\ enab' = [enab EXCEPT ![s] = TRUE]
    /\ mwait' = [mwait EXCEPT ![s] = FALSE]
    /\ UNCHANGED <<life, wq, wantr, full, wantw, srv>>

-----------------------------------------------------------------------------
(* Parts of atp_wsrvc. *)

FaultyBlocked(s) == full[s] /\ srv' = [srv EXCEPT ![s] = "off"] /\ UNCHANGED wantw

(* canput fails: return and wait for the back-enable. *)
Blocked(s) ==
    /\ full[s]
    /\ wantw' = [wantw EXCEPT ![s] = TRUE]
    /\ srv' = [srv EXCEPT ![s] = "off"]

FaultyMemWait(s) == srv' = [srv EXCEPT ![s] = "off"] /\ UNCHANGED mwait

(* No message block: return and come back by atp_wwake. *)
MemWait(s) ==
    /\ mwait' = [mwait EXCEPT ![s] = TRUE]
    /\ srv' = [srv EXCEPT ![s] = "off"]

(* The first command on the queue, when atp_wsrvc has come to the commands.   *)
(* getq takes it and clears QWANTR; putbq puts it back, leaving QWANTR clear. *)
At(s, op) == srv[s] = "ioctl" /\ wq[s] # <<>> /\ Head(wq[s]).op = op

TakeCommand(s) ==
    /\ wq' = [wq EXCEPT ![s] = Tail(@)]
    /\ wantr' = [wantr EXCEPT ![s] = FALSE]

PutBack(s) ==
    /\ wantr' = [wantr EXCEPT ![s] = FALSE]
    /\ UNCHANGED wq

(* No command left: getq sets QWANTR and atp_wsrvc returns. *)
NoCommand(s) ==
    /\ srv[s] = "ioctl" /\ wq[s] = <<>>
    /\ wantr' = [wantr EXCEPT ![s] = TRUE]
    /\ srv' = [srv EXCEPT ![s] = "off"]
    /\ UNCHANGED <<life, mwait, wq, enab, full, wantw>>

-----------------------------------------------------------------------------
(* Close, from qdetach (os/streamio.c), at splstr.  The enabled service       *)
(* procedures have run before.  What atp_close frees enables the sockets in   *)
(* woken; if the socket is one of them, qdetach has the run list served       *)
(* before the queue goes ("closing").  The queues are flushed.                *)

CloseQueues(s, woken) ==
    /\ Idle /\ life[s] = "open"
    /\ \A x \in Sock : ~enab[x]
    /\ enab' = [x \in Sock |-> x \in woken]
    /\ life' = [life EXCEPT ![s] = IF s \in woken THEN "closing" ELSE "closed"]
    /\ mwait' = [mwait EXCEPT ![s] = FALSE]
    /\ wq' = [wq EXCEPT ![s] = <<>>]
    /\ UNCHANGED <<wantr, full, wantw, srv>>

Detaches(s) ==
    /\ Quiet /\ life[s] = "closing" /\ \A x \in Sock : ~enab[x]
    /\ life' = [life EXCEPT ![s] = "closed"]
    /\ UNCHANGED <<mwait, strVars>>

Attaches(s) ==
    /\ Idle /\ life[s] = "closed"
    /\ life' = [life EXCEPT ![s] = "open"]
    /\ wantr' = [wantr EXCEPT ![s] = TRUE]
    /\ UNCHANGED <<mwait, wq, enab, full, wantw, srv>>
=============================================================================
