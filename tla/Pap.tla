-------------------------------- MODULE Pap ---------------------------------
(***************************************************************************)
(* A PAP connection, src/appletalk/at/pap/at_pap.c: the streams module at  *)
(* either end, pushed on an ATP socket.  Data go one way when the other    *)
(* end asks for them: a READ issues an ATP request SEND_DATA with the next *)
(* sequence number, the WRITEs of the other end are the segments of its    *)
(* response, and the response is delivered whole.  Each end keeps          *)
(* GET_REQUESTs with ATP to hear of the other's requests, sends it         *)
(* tickles, and takes a long silence for its death.                        *)
(*                                                                         *)
(* ATP and the network are what at_pap.c asks of them: a request is        *)
(* repeated until it is answered, and handed over when a GET_REQUEST       *)
(* waits; a response is delivered whole or not at all.  ATP remembers a    *)
(* response for 30 seconds, then (RcbExpire) a repeated request is handed  *)
(* over once more.                                                         *)
(*                                                                         *)
(* Granularity.  The kernel is not preempted: a message handled by         *)
(* pap_rputq, a run of pap_rsrvc, a command in pap_wsrvc, a callout and    *)
(* the code between two sleeps of pap_close are each one action.           *)
(***************************************************************************)
EXTENDS Naturals, Sequences, FiniteSets

(* An operator called Faulty... is what a plausible bug would make of the        *)
(* definition after it, as in AtpStream.                                         *)

CONSTANTS
    Client, Server,     \* the end that opened the connection, and the other
    Uses,               \* what the two ends may be used for and run into: see Use
    MaxQueue,           \* bound: commands on a write queue; a process awaits one,
                        \* more than one have been left there by signals
    Segs,               \* the segments of a response (at most 8)
    MaxSeq,             \* the last sequence number (0xffff)
    NRequests           \* NPAPREQUESTS

End  == {Client, Server}
Peer == [e \in End |-> IF e = Client THEN Server ELSE Client]

(* The ends whose process reads, writes (and how many items at most), or may    *)
(* ask for READ_IGNORE; that may be interrupted; whose place was used by a      *)
(* session that wrote; that may have no message block for a GET_REQUEST; that   *)
(* may have none for a command or be congested downstream; and that may crash.  *)
Use == {u \in [readers : SUBSET End, writers : SUBSET End, writes : Nat,
               ignorers : SUBSET End, signalled : SUBSET End, reused : SUBSET End,
               dry : SUBSET End, short : SUBSET End, mortal : SUBSET End] :
            u.readers \cap u.ignorers = {}}

ASSUME ConstantAssumption ==
    /\ Client # Server
    /\ Uses \subseteq Use
    /\ {MaxQueue, Segs, NRequests} \subseteq Nat \ {0}
    /\ MaxSeq \in Nat \ {0, 1}

VARIABLES
    pap,        \* struct pap_state of each end
    str,        \* its queues: the commands and the requests on them, whether they
                \* are enabled, and whether a callout or the queue downstream will
                \* enable the write queue again; and whether it was hung up
    phase,      \* where the end is on its way to be closed
    tmo,        \* pap_timeout is on the callout list
    ign,        \* pap_read_ignore is on the callout list
    dreq,       \* its SEND_DATA request, in ATP and the network, with its response
    creq,       \* its CLOSE_CONN request
    out,        \* how many items its process has written
    in,         \* how many items of the other end were taken by READs
    told,       \* its process has read 0 bytes
    use         \* the use of this connection; it does not change

vars == <<pap, str, phase, tmo, ign, dreq, creq, out, in, told, use>>

Op == {"SETHDR", "READ", "READ_IGNORE", "WRITE", "WRITE_FLUSH", "WRITE_EOF"}
Writing == {"WRITE", "WRITE_FLUSH", "WRITE_EOF"}

(* A segment of a response: an item, 0 for none, and whether it ends the stream. *)
Item == [d : Nat, eof : BOOLEAN]
Eof  == [d |-> 0, eof |-> TRUE]

(* Of pap_hdr only how much of the other end's address it knows is kept.      *)
(* request is the number of segments left in the bitmap pap_request, whose    *)
(* lowest is sent next.                                                       *)
PapState ==
    [hdr : {"none", "part", "full"}, request : 0 .. Segs, read : BOOLEAN, rcv : Seq(Item),
     eof : BOOLEAN, eof_sent : BOOLEAN, sent : BOOLEAN,
     error : {"none", "ETIMEDOUT", "ESHUTDOWN"}, timer : BOOLEAN, closing : BOOLEAN,
     ending : BOOLEAN, send_count : 1 .. MaxSeq, rcv_count : 1 .. MaxSeq,
     request_count : 0 .. NRequests, req_timer : BOOLEAN, read_ignore : BOOLEAN,
     tickle : {"off", "asked", "on"}]

(* live: the process still waits for the command. *)
Command == [op : Op, live : BOOLEAN]

(* A request is on its way, was taken by the other end and gets its response, *)
(* was dropped there without an answer, or has all its response.  again: ATP  *)
(* has forgotten that response.                                               *)
Request == [st : {"none", "sent", "taken", "lost", "done"}, seq : 1 .. MaxSeq,
            segs : Seq(Item), again : BOOLEAN]

(* A session as pap_open leaves it.  It does not reset pap_sent: that is what   *)
(* the last session in the same place left.                                     *)
Opened(sent) ==
    [hdr |-> "none", request |-> 0, read |-> FALSE, rcv |-> <<>>, eof |-> FALSE,
     eof_sent |-> FALSE, sent |-> sent, error |-> "none", timer |-> FALSE,
     closing |-> FALSE, ending |-> FALSE, send_count |-> 1, rcv_count |-> 1,
     request_count |-> NRequests, req_timer |-> FALSE, read_ignore |-> FALSE,
     tickle |-> "off"]

NoQueues == [wq |-> <<>>, wen |-> FALSE, rq |-> <<>>, ren |-> FALSE,
             again |-> FALSE, hup |-> FALSE]

(* The ends as the library leaves them before the connection is open: the       *)
(* client has set a header without the server's address.                        *)
Init ==
    /\ use \in Uses
    /\ pap = [e \in End |-> [Opened(e \in use.reused) EXCEPT
                               !.hdr = IF e = Client THEN "part" ELSE "none"]]
    /\ str = [e \in End |-> NoQueues]
    /\ phase = [e \in End |-> "open"]
    /\ tmo = [e \in End |-> FALSE]
    /\ ign = [e \in End |-> FALSE]
    /\ dreq = [e \in End |-> [st |-> "none", seq |-> 1, segs |-> <<>>, again |-> FALSE]]
    /\ creq = [e \in End |-> "none"]
    /\ out = [e \in End |-> 0]
    /\ in = [e \in End |-> 0]
    /\ told = [e \in End |-> FALSE]

(* The end is there to take what comes from the network. *)
Alive(e) == phase[e] \notin {"closed", "dead"}

Waiting(e) == \E i \in DOMAIN str[e].wq : str[e].wq[i].live

(* pap_send_count and pap_rcv_count skip 0, which says that a request has no   *)
(* number, when they wrap.                                                     *)
FaultyNextSend(n) == (n + 1) % (MaxSeq + 1)

NextSend(n) == IF n = MaxSeq THEN 1 ELSE n + 1

FaultyNextRcv(n) == IF n = MaxSeq THEN 0 ELSE n + 1

NextRcv(n) == IF n = MaxSeq THEN 1 ELSE n + 1

-----------------------------------------------------------------------------
(* pap_rputq. *)

FaultyPrime(e, p) ==
    \E g \in IF e \in use.dry THEN p.request_count .. NRequests ELSE {NRequests} :
        pap' = [pap EXCEPT ![e] = [p EXCEPT !.request_count = g]]

(* The end has become p; then the GET_REQUESTs it is short of go to ATP, as   *)
(* many as there are message blocks for.                                      *)
Prime(e, p) ==
    \E g \in IF e \in use.dry THEN p.request_count .. NRequests ELSE {NRequests} :
        pap' = [pap EXCEPT ![e] = [p EXCEPT !.request_count = g, !.req_timer = @ \/ g = 0]]

FaultyHears(e) == tmo' = [tmo EXCEPT ![e] = FALSE]

(* Something came from the other end: the timeout starts again. *)
Hears(e) == tmo' = [tmo EXCEPT ![e] = @ \/ pap[e].timer]

(* A GET_REQUEST comes back with a request. *)
Gets(e) == Alive(e) /\ pap[e].request_count > 0
Got(e)  == [pap[e] EXCEPT !.request_count = @ - 1]

FaultyIsNext(p, d) == p.request = 0

IsNext(p, d) == p.request = 0 /\ d.seq \in {0, p.rcv_count}

(* SEND_DATA: released while closing (to be repeated later), put on the read    *)
(* queue when it is the next, and otherwise dropped: ATP is not told and        *)
(* keeps the request as one that is being answered.                             *)
GetData(e) ==
    LET d == dreq[Peer[e]]
        busy == pap[e].ending \/ pap[e].closing
    IN  /\ Gets(e) /\ d.st = "sent"
        /\ Hears(e)
        /\ Prime(e, Got(e))
        /\ \/ /\ busy
              /\ dreq' = [dreq EXCEPT ![Peer[e]].st = IF Alive(Peer[e]) THEN @ ELSE "none"]
              /\ UNCHANGED str
           \/ /\ ~busy /\ IsNext(pap[e], d)
              /\ dreq' = [dreq EXCEPT ![Peer[e]].st = "taken"]
              /\ str' = [str EXCEPT ![e].rq = Append(@, d.seq), ![e].ren = TRUE]
           \/ /\ ~busy /\ ~IsNext(pap[e], d)
              /\ dreq' = [dreq EXCEPT ![Peer[e]].st = "lost"]
              /\ UNCHANGED str
        /\ UNCHANGED <<phase, ign, creq, out, in, told, use>>

GetTickle(e) ==
    /\ Gets(e) /\ Alive(Peer[e]) /\ pap[Peer[e]].tickle = "on"
    /\ Hears(e)
    /\ Prime(e, Got(e))
    /\ UNCHANGED <<str, phase, ign, dreq, creq, out, in, told, use>>

(* CLOSE_CONN: answered if it is for this session.  The process that waits in  *)
(* pap_close goes on.                                                          *)
GetClose(e) ==
    /\ Gets(e) /\ creq[Peer[e]] = "sent"
    /\ Hears(e)
    /\ IF pap[e].hdr = "full"
       THEN /\ Prime(e, [Got(e) EXCEPT !.error = "ETIMEDOUT", !.closing = TRUE,
                                       !.ending = FALSE])
            /\ creq' = [creq EXCEPT ![Peer[e]] = "answered"]
            /\ str' = [str EXCEPT ![e].wen = TRUE]
       ELSE /\ Prime(e, Got(e))
            /\ creq' = [creq EXCEPT ![Peer[e]] = "lost"]
            /\ UNCHANGED str
    /\ UNCHANGED <<phase, ign, dreq, out, in, told, use>>

(* ATP says which transaction the tickle is. *)
TickleIssued(e) ==
    /\ Alive(e) /\ pap[e].tickle = "asked"
    /\ Prime(e, [pap[e] EXCEPT !.tickle = "on"])
    /\ UNCHANGED <<str, phase, tmo, ign, dreq, creq, out, in, told, use>>

(* The response to SEND_DATA. *)
GetResponse(e) ==
    LET d == dreq[e]
    IN  /\ Alive(e) /\ d.st = "done"
        /\ Hears(e)
        /\ dreq' = [dreq EXCEPT ![e].st = "none", ![e].segs = <<>>, ![e].again = FALSE]
        /\ IF pap[e].read_ignore
           THEN /\ Prime(e, pap[e])
                /\ ign' = [ign EXCEPT ![e] = TRUE]
                /\ UNCHANGED str
           ELSE /\ Prime(e, IF pap[e].read
                            THEN [pap[e] EXCEPT !.rcv = d.segs, !.read = FALSE,
                                                !.error = "none"]
                            ELSE pap[e])
                /\ str' = [str EXCEPT ![e].wen = @ \/ pap[e].read]
                /\ UNCHANGED ign
        /\ UNCHANGED <<phase, creq, out, in, told, use>>

(* ATP lets the response to a request go that was never heard whole. *)
RcbExpire(e) ==
    /\ dreq[e].st = "done"
    /\ dreq' = [dreq EXCEPT ![e].st = IF Alive(e) THEN "sent" ELSE "none",
                            ![e].segs = <<>>, ![e].again = TRUE]
    /\ UNCHANGED <<pap, str, phase, tmo, ign, creq, out, in, told, use>>

-----------------------------------------------------------------------------
(* pap_rsrvc: the request on the read queue becomes the one that WRITEs        *)
(* answer.  (It checks again that the request is the next and of this session; *)
(* the other end has no more than one under way.)                              *)

Takes(e) == pap[e].request = 0 /\ pap[e].hdr = "full"

Rsrvc(e) ==
    LET p == [pap[e] EXCEPT !.req_timer = FALSE]
    IN  /\ Alive(e) /\ str[e].ren
        /\ IF str[e].rq # <<>> /\ Takes(e)
           THEN /\ Prime(e, [p EXCEPT !.rcv_count = NextRcv(@), !.request = Segs])
                /\ str' = [str EXCEPT ![e].ren = FALSE, ![e].rq = <<>>, ![e].wen = TRUE]
           ELSE /\ Prime(e, p)
                /\ str' = [str EXCEPT ![e].ren = FALSE]
        /\ UNCHANGED <<phase, tmo, ign, dreq, creq, out, in, told, use>>

(* The callout that brings it back when no GET_REQUEST could be had. *)
ReqTimeout(e) ==
    /\ Alive(e) /\ pap[e].req_timer /\ ~str[e].ren
    /\ str' = [str EXCEPT ![e].ren = TRUE]
    /\ UNCHANGED <<pap, phase, tmo, ign, dreq, creq, out, in, told, use>>

-----------------------------------------------------------------------------
(* pap_wsrvc, a command at a time.  Served: the command is answered and the   *)
(* next one looked at.  Held: it is put back at the head of the queue and     *)
(* pap_wsrvc returns.                                                         *)

At(e, ops) == Alive(e) /\ str[e].wen /\ str[e].wq # <<>> /\ Head(str[e].wq).op \in ops

Served(e) == [str[e] EXCEPT !.wq = Tail(@), !.wen = Len(str[e].wq) > 1]
Held(e)   == [str[e] EXCEPT !.wen = FALSE]

FaultyHeldForSpace(e) == Held(e)

(* No message block, or no room downstream: a callout or the queue downstream  *)
(* enables the queue again.                                                    *)
HeldForSpace(e) == [Held(e) EXCEPT !.again = TRUE]

(* No command: getq sets QWANTR. *)
NoCommand(e) ==
    /\ Alive(e) /\ str[e].wen /\ str[e].wq = <<>>
    /\ str' = [str EXCEPT ![e] = Held(e)]
    /\ UNCHANGED <<pap, phase, tmo, ign, dreq, creq, out, in, told, use>>

(* The first full header starts the tickling and the connection timeout. *)
SetHdr(e) ==
    /\ At(e, {"SETHDR"})
    /\ pap' = [pap EXCEPT ![e].hdr = "full", ![e].timer = TRUE,
                          ![e].tickle = IF @ = "off" THEN "asked" ELSE @]
    /\ tmo' = [tmo EXCEPT ![e] = @ \/ ~pap[e].timer]
    /\ str' = [str EXCEPT ![e] = [Served(e) EXCEPT !.ren = TRUE]]
    /\ UNCHANGED <<phase, ign, dreq, creq, out, in, told, use>>

(* canput and allocb may fail before or after the read side is enabled. *)
SetHdrBlocked(e) ==
    /\ At(e, {"SETHDR"}) /\ e \in use.short
    /\ \E ren \in {str[e].ren, TRUE} :
         str' = [str EXCEPT ![e] = [HeldForSpace(e) EXCEPT !.ren = ren]]
    /\ UNCHANGED <<pap, phase, tmo, ign, dreq, creq, out, in, told, use>>

(* A SEND_DATA request with the next sequence number. *)
Send(e, p) ==
    /\ dreq' = [dreq EXCEPT ![e] = [st |-> "sent", seq |-> p.send_count, segs |-> <<>>,
                                    again |-> FALSE]]
    /\ pap' = [pap EXCEPT ![e] = [p EXCEPT !.send_count = NextSend(@)]]

(* READ_IGNORE: ask for data and throw it away from now on.  Without space the *)
(* request follows by pap_read_ignore's callout.                               *)
ReadIgnore(e) ==
    LET p == [pap[e] EXCEPT !.read_ignore = TRUE]
    IN  /\ At(e, {"READ_IGNORE"}) /\ pap[e].hdr # "none"
        /\ str' = [str EXCEPT ![e] = Served(e)]
        /\ IF pap[e].eof \/ pap[e].read_ignore \/ pap[e].closing
           THEN UNCHANGED <<pap, dreq, ign>>
           ELSE \/ Send(e, p) /\ UNCHANGED ign
                \/ /\ e \in use.short
                   /\ pap' = [pap EXCEPT ![e] = p]
                   /\ ign' = [ign EXCEPT ![e] = TRUE]
                   /\ UNCHANGED dreq
        /\ UNCHANGED <<phase, tmo, creq, out, in, told, use>>

(* pap_read_ignore as a callout; without space it comes back. *)
IgnoreTimeout(e) ==
    /\ Alive(e) /\ ign[e] /\ pap[e].hdr # "none"
    /\ ign' = [ign EXCEPT ![e] = FALSE]
    /\ Send(e, [pap[e] EXCEPT !.read_ignore = TRUE])
    /\ UNCHANGED <<str, phase, tmo, creq, out, in, told, use>>

(* The answer to a READ that says 0 bytes: who waits for it takes it for the end. *)
Tells(e) == told' = [told EXCEPT ![e] = @ \/ Head(str[e].wq).live]

(* READ of what is there: the end, an error that is told once, an item of the   *)
(* response that came, or the end because the connection is closing.            *)
ReadAnswered(e) ==
    LET p == pap[e]
        i == Head(p.rcv)
    IN  /\ At(e, {"READ"})
        /\ str' = [str EXCEPT ![e] = Served(e)]
        /\ \/ p.hdr = "none" /\ UNCHANGED <<pap, in, told>>
           \/ p.hdr # "none" /\ p.eof /\ Tells(e) /\ UNCHANGED <<pap, in>>
           \/ /\ p.hdr # "none" /\ ~p.eof /\ ~p.read /\ p.error # "none"
              /\ pap' = [pap EXCEPT ![e].error = "none"]
              /\ UNCHANGED <<in, told>>
           \/ /\ p.hdr # "none" /\ ~p.eof /\ ~p.read /\ p.error = "none" /\ p.rcv # <<>>
              /\ pap' = [pap EXCEPT ![e].eof = i.eof,
                                    ![e].rcv = IF i.eof THEN <<>> ELSE Tail(@)]
              /\ in' = [in EXCEPT ![e] = IF i.d = 0 THEN @ ELSE i.d]
              /\ IF i.d = 0 THEN Tells(e) ELSE UNCHANGED told
           \/ /\ p.hdr # "none" /\ ~p.eof /\ ~p.read /\ p.error = "none" /\ p.rcv = <<>>
              /\ p.closing /\ Tells(e)
              /\ UNCHANGED <<pap, in>>
        /\ UNCHANGED <<phase, tmo, ign, dreq, creq, out, use>>

(* READ has to ask for data. *)
Asks(e) ==
    LET p == pap[e]
    IN  /\ At(e, {"READ"}) /\ p.hdr # "none" /\ ~p.eof /\ ~p.read
        /\ p.error = "none" /\ p.rcv = <<>> /\ ~p.closing

ReadAsks(e) ==
    /\ Asks(e)
    /\ Send(e, [pap[e] EXCEPT !.read = TRUE])
    /\ str' = [str EXCEPT ![e] = Held(e)]
    /\ UNCHANGED <<phase, tmo, ign, creq, out, in, told, use>>

ReadBlocked(e) ==
    /\ Asks(e) /\ e \in use.short
    /\ str' = [str EXCEPT ![e] = HeldForSpace(e)]
    /\ UNCHANGED <<pap, phase, tmo, ign, dreq, creq, out, in, told, use>>

ReadWaits(e) ==
    /\ At(e, {"READ"}) /\ pap[e].hdr # "none" /\ ~pap[e].eof /\ pap[e].read
    /\ str' = [str EXCEPT ![e] = Held(e)]
    /\ UNCHANGED <<pap, phase, tmo, ign, dreq, creq, out, in, told, use>>

RefusesWrite(p) == p.hdr = "none" \/ p.closing \/ p.eof_sent

Refused(e) ==
    /\ \/ At(e, Writing) /\ RefusesWrite(pap[e])
       \/ At(e, {"READ_IGNORE"}) /\ pap[e].hdr = "none"
    /\ str' = [str EXCEPT ![e] = Served(e)]
    /\ UNCHANGED <<pap, phase, tmo, ign, dreq, creq, out, in, told, use>>

(* Nobody asks for data; pap_rsrvc looks for a request that waits. *)
WriteWaits(e) ==
    /\ At(e, Writing) /\ ~RefusesWrite(pap[e]) /\ pap[e].request = 0
    /\ str' = [str EXCEPT ![e] = [Held(e) EXCEPT !.ren = TRUE]]
    /\ UNCHANGED <<pap, phase, tmo, ign, dreq, creq, out, in, told, use>>

(* No room downstream, or no message block. *)
WriteBlocked(e) ==
    /\ At(e, Writing) /\ ~RefusesWrite(pap[e]) /\ e \in use.short
    /\ \/ str' = [str EXCEPT ![e] = [HeldForSpace(e) EXCEPT !.ren = TRUE]]
       \/ pap[e].request # 0 /\ str' = [str EXCEPT ![e] = HeldForSpace(e)]
    /\ UNCHANGED <<pap, phase, tmo, ign, dreq, creq, out, in, told, use>>

(* The next segment of the response to the other end, the last if it is all it *)
(* has room for or it is to be flushed.                                        *)
Respond(e, item, last) ==
    dreq' = [dreq EXCEPT ![Peer[e]].segs = Append(@, item),
                         ![Peer[e]].st = IF last THEN "done" ELSE @]

Write(e) ==
    LET op   == Head(str[e].wq).op
        left == IF op = "WRITE" THEN pap[e].request - 1 ELSE 0
    IN  /\ At(e, Writing) /\ ~RefusesWrite(pap[e]) /\ pap[e].request # 0
        /\ str' = [str EXCEPT ![e] = Served(e)]
        /\ Respond(e, IF op = "WRITE_EOF" THEN Eof ELSE [d |-> out[e] + 1, eof |-> FALSE],
                   left = 0)
        /\ pap' = [pap EXCEPT ![e].request = left, ![e].sent = TRUE,
                       ![e].error = IF op = "WRITE_EOF" THEN "ESHUTDOWN" ELSE @,
                       ![e].eof_sent = (op = "WRITE_EOF")]
        /\ out' = [out EXCEPT ![e] = IF op = "WRITE_EOF" THEN @ ELSE @ + 1]
        /\ UNCHANGED <<phase, tmo, ign, creq, in, told, use>>

Again(e) ==
    /\ Alive(e) /\ str[e].again
    /\ str' = [str EXCEPT ![e].again = FALSE, ![e].wen = TRUE]
    /\ UNCHANGED <<pap, phase, tmo, ign, dreq, creq, out, in, told, use>>

-----------------------------------------------------------------------------
(* The process and the stream head. *)

Writes(e) == Cardinality({i \in DOMAIN str[e].wq : str[e].wq[i].op \in Writing \ {"WRITE_EOF"}})
Setting(e) == \E i \in DOMAIN str[e].wq : str[e].wq[i].op = "SETHDR"

(* The library sets the full header before the process can use the client's end. *)
Issue(e, op) ==
    /\ phase[e] = "open" /\ ~str[e].hup /\ ~Waiting(e) /\ Len(str[e].wq) < MaxQueue
    /\ op = "SETHDR" => pap[e].hdr # "full" /\ ~Setting(e)
    /\ op # "SETHDR" => pap[e].hdr # "part" \/ Setting(e)
    /\ op = "READ" => e \in use.readers
    /\ op = "READ_IGNORE" => e \in use.ignorers
    /\ op \in Writing => e \in use.writers
    /\ op \in {"WRITE", "WRITE_FLUSH"} => out[e] + Writes(e) < use.writes
    /\ str' = [str EXCEPT ![e].wq = Append(@, [op |-> op, live |-> TRUE]),
                          ![e].wen = @ \/ str[e].wq = <<>>]
    /\ UNCHANGED <<pap, phase, tmo, ign, dreq, creq, out, in, told, use>>

Abandoned(q) == [i \in DOMAIN q |-> [q[i] EXCEPT !.live = FALSE]]

(* A signal: the process gives up waiting, and the command stays. *)
Interrupt(e) ==
    /\ e \in use.signalled /\ Waiting(e)
    /\ str' = [str EXCEPT ![e].wq = Abandoned(@)]
    /\ UNCHANGED <<pap, phase, tmo, ign, dreq, creq, out, in, told, use>>

(* pap_timeout: nothing was heard for long, and the stream is hung up. *)
PapTimeout(e) ==
    /\ Alive(e) /\ tmo[e]
    /\ tmo' = [tmo EXCEPT ![e] = FALSE]
    /\ pap' = [pap EXCEPT ![e].closing = TRUE]
    /\ str' = [str EXCEPT ![e].hup = TRUE, ![e].wq = Abandoned(@)]
    /\ UNCHANGED <<phase, ign, dreq, creq, out, in, told, use>>

(* The session is gone, and with it what it had. *)
Ends(e, how) ==
    /\ phase' = [phase EXCEPT ![e] = how]
    /\ pap' = [pap EXCEPT ![e] = Opened(pap[e].sent)]
    /\ str' = [str EXCEPT ![e] = NoQueues]
    /\ tmo' = [tmo EXCEPT ![e] = FALSE]
    /\ ign' = [ign EXCEPT ![e] = FALSE]

Crash(e) ==
    /\ e \in use.mortal /\ Alive(e)
    /\ Ends(e, "dead")
    /\ UNCHANGED <<dreq, creq, out, in, told, use>>

-----------------------------------------------------------------------------
(* pap_close: the phases are its sleeps, those for want of a message block    *)
(* among them.                                                                *)

FaultyClose(e) ==
    /\ phase[e] = "open" /\ ~Waiting(e) /\ ~str[e].wen /\ ~str[e].ren
    /\ tmo' = [tmo EXCEPT ![e] = FALSE]
    /\ str' = [str EXCEPT ![e].wq = <<>>, ![e].rq = <<>>]
    /\ phase' = [phase EXCEPT ![e] = IF pap[e].sent /\ ~pap[e].eof_sent /\ pap[e].request # 0
                                     THEN "eof" ELSE "tickle"]
    /\ UNCHANGED <<pap, ign, dreq, creq, out, in, told, use>>

(* The timeout is cancelled and the queues are flushed.  (untimeout of          *)
(* pap_read_ignore names the other queue and cancels nothing.)  If it has       *)
(* written and the other end asks for data, an EOF ends the response.           *)
Close(e) ==
    /\ phase[e] = "open" /\ ~Waiting(e) /\ ~str[e].wen /\ ~str[e].ren
    /\ pap' = [pap EXCEPT ![e].timer = FALSE]
    /\ tmo' = [tmo EXCEPT ![e] = FALSE]
    /\ str' = [str EXCEPT ![e].wq = <<>>, ![e].rq = <<>>]
    /\ phase' = [phase EXCEPT ![e] = IF pap[e].sent /\ ~pap[e].eof_sent /\ pap[e].request # 0
                                     THEN "eof" ELSE "tickle"]
    /\ UNCHANGED <<ign, dreq, creq, out, in, told, use>>

CloseEof(e) ==
    /\ phase[e] = "eof"
    /\ Respond(e, Eof, TRUE)
    /\ phase' = [phase EXCEPT ![e] = "tickle"]
    /\ UNCHANGED <<pap, str, tmo, ign, creq, out, in, told, use>>

(* The tickles are cancelled, if ATP has said which transaction that is. *)
CloseTickle(e) ==
    /\ phase[e] = "tickle"
    /\ IF pap[e].hdr # "none" /\ ~pap[e].closing
       THEN /\ pap' = [pap EXCEPT ![e].tickle = IF @ = "on" THEN "off" ELSE @]
            /\ phase' = [phase EXCEPT ![e] = "finish"]
            /\ UNCHANGED <<str, tmo, ign>>
       ELSE Ends(e, "closed")
    /\ UNCHANGED <<dreq, creq, out, in, told, use>>

CloseFinish(e) ==
    /\ phase[e] = "finish"
    /\ pap' = [pap EXCEPT ![e].ending = TRUE]
    /\ phase' = [phase EXCEPT ![e] = "ending"]
    /\ UNCHANGED <<str, tmo, ign, dreq, creq, out, in, told, use>>

(* ATP has nothing of the socket in progress: it answers SET_FINISH. *)
Finished(e) ==
    /\ dreq[e].st = "none" /\ pap[e].tickle = "off"
    /\ dreq[Peer[e]].st \in {"none", "sent"}

FinishAck(e) ==
    /\ phase[e] = "ending" /\ pap[e].ending /\ Finished(e)
    /\ Prime(e, [pap[e] EXCEPT !.ending = FALSE])
    /\ UNCHANGED <<str, phase, tmo, ign, dreq, creq, out, in, told, use>>

(* Then, or after four minutes, CLOSE_CONN is sent, if that has not been done  *)
(* by the other end.                                                           *)
CloseConn(e) ==
    /\ phase[e] = "ending" /\ (pap[e].ending => ~Finished(e))
    /\ IF ~pap[e].closing /\ pap[e].hdr = "full"
       THEN /\ pap' = [pap EXCEPT ![e].closing = TRUE]
            /\ creq' = [creq EXCEPT ![e] = "sent"]
            /\ phase' = [phase EXCEPT ![e] = "closing"]
            /\ UNCHANGED <<str, tmo, ign>>
       ELSE Ends(e, "closed") /\ UNCHANGED creq
    /\ UNCHANGED <<dreq, out, in, told, use>>

(* It sleeps two seconds at most, or until it is answered. *)
Closed(e) ==
    /\ phase[e] = "closing"
    /\ Ends(e, "closed")
    /\ UNCHANGED <<dreq, creq, out, in, told, use>>

-----------------------------------------------------------------------------
Serve(e) ==
    \/ NoCommand(e) \/ SetHdr(e) \/ ReadIgnore(e) \/ ReadAnswered(e) \/ ReadAsks(e)
    \/ ReadWaits(e) \/ Refused(e) \/ WriteWaits(e) \/ Write(e)

Next == \E e \in End :
    \/ GetData(e) \/ GetTickle(e) \/ GetClose(e) \/ TickleIssued(e) \/ GetResponse(e)
    \/ RcbExpire(e) \/ Rsrvc(e) \/ ReqTimeout(e) \/ IgnoreTimeout(e)
    \/ Serve(e) \/ SetHdrBlocked(e) \/ ReadBlocked(e) \/ WriteBlocked(e) \/ Again(e)
    \/ \E op \in Op : Issue(e, op)
    \/ Interrupt(e) \/ PapTimeout(e) \/ Crash(e)
    \/ Close(e) \/ CloseEof(e) \/ CloseTickle(e) \/ CloseFinish(e) \/ FinishAck(e)
    \/ CloseConn(e) \/ Closed(e)

Spec == Init /\ [][Next]_vars

(* Nothing comes from the other end any more. *)
Gone(e) == ~Alive(Peer[e]) /\ creq[Peer[e]] # "sent" /\ dreq[Peer[e]].st # "sent"

(* The run list is served, callouts fire, and memory and congestion do not     *)
(* stand in the way of the same command for ever.  The timeout is only said to *)
(* fire when nothing comes to start it again.                                  *)
FairSpec ==
    /\ Spec
    /\ \A e \in End : /\ SF_vars(SetHdr(e)) /\ WF_vars(Serve(e) \/ Again(e))
                      /\ WF_vars(Gone(e) /\ PapTimeout(e))

-----------------------------------------------------------------------------
(* Properties. *)

TypeOK ==
    /\ pap \in [End -> PapState]
    /\ str \in [End -> [wq : Seq(Command), wen : BOOLEAN, rq : Seq(1 .. MaxSeq),
                        ren : BOOLEAN, again : BOOLEAN, hup : BOOLEAN]]
    /\ phase \in [End -> {"open", "eof", "tickle", "finish", "ending", "closing",
                          "closed", "dead"}]
    /\ tmo \in [End -> BOOLEAN] /\ ign \in [End -> BOOLEAN]
    /\ dreq \in [End -> Request]
    /\ creq \in [End -> {"none", "sent", "answered", "lost"}]
    /\ use \in Uses /\ out \in [End -> Nat] /\ in \in [End -> Nat] /\ told \in [End -> BOOLEAN]

(* The other end dropped the request, and nothing will come of it: the code      *)
(* releases such a request elsewhere, but not here.  Either that end is closing  *)
(* or gone, which CommandEnds is about; or the request was answered and ATP      *)
(* forgot the response before it was heard whole.                                *)
Swallowed(e) == dreq[e].st = "lost" /\ (dreq[e].again \/ phase[Peer[e]] # "open")

(* A command that waits at the head of the write queue of an open session       *)
(* waits for something that will come to it: a callout or room downstream, the  *)
(* response to a request that is repeated, or answered by the other end, until  *)
(* it comes, or a request that is not already there.  And who ignores what      *)
(* comes has such a request out, or will have.  The one exception is a defect:  *)
(* a READ whose request was swallowed waits for ever, with both ends alive.     *)
NoStall ==
    \A e \in End : phase[e] = "open" =>
        /\ str[e].wq # <<>> /\ ~str[e].wen /\ ~str[e].again =>
             \/ Head(str[e].wq).op = "READ" /\ pap[e].read
             \/ Head(str[e].wq).op \in Writing /\ pap[e].request = 0
                  /\ (str[e].rq = <<>> \/ str[e].ren)
        /\ pap[e].read \/ pap[e].read_ignore =>
             dreq[e].st \in {"sent", "taken", "done"} \/ ign[e] \/ Swallowed(e)

(* A session that is there hears of the other end's requests: a GET_REQUEST is  *)
(* with ATP, or there will be one once there is a message block for it.         *)
Primed ==
    \A e \in End : Alive(e) => pap[e].request_count > 0 \/ pap[e].req_timer \/ str[e].ren

(* "a bogus one (or one that has been wandering the internet a while)": only    *)
(* such a request is dropped.  One that was never answered is always the next,  *)
(* whatever the sequence numbers have wrapped to.                               *)
FreshTaken ==
    \A e \in End : dreq[e].st = "lost" /\ phase[Peer[e]] = "open" => dreq[e].again

(* pap_timeout is off the callout list once the close has begun: the session   *)
(* and its queue go without being hung up in other hands.                      *)
TimerDies == \A e \in End : phase[e] \notin {"open", "dead"} => ~tmo[e]

(* The connection carries two streams. *)
Abstract == INSTANCE PapStreams WITH
    fin <- [e \in End |-> pap[e].eof_sent \/ phase[e] # "open"]

(* What is read is what was written, in order and once, through lost responses  *)
(* and sequence numbers that wrap; and 0 bytes are read only when all was read  *)
(* that the other end wrote before it closed.                                   *)
Streams == Abstract!Spec

(* When the other end is gone, closed or crashed, no command waits for ever:    *)
(* it is answered, or the stream is hung up.                                    *)
CommandEnds == \A e \in End : Gone(e) /\ Waiting(e) ~> ~Waiting(e)
=============================================================================
