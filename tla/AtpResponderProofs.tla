------------------------- MODULE AtpResponderProofs -------------------------
(***************************************************************************)
(* Theorems about AtpResponder, for any number of sockets, reply control   *)
(* blocks and transactions: its type invariant, that no wakeup for an rcb  *)
(* is lost and that no socket with work to do is forgotten.                *)
(* AtpReplyProofs goes on with the requests and their replies.             *)
(***************************************************************************)
EXTENDS AtpResponder, AtpStreamProofs

-----------------------------------------------------------------------------
(* Helpers of the model. *)

(* A transaction has a socket and segments within the protocol's eight. *)
LEMMA TxnType ==
  ASSUME NEW x \in Txn
  PROVE  /\ x.sock \in Sock /\ x.xo \in BOOLEAN /\ x.eof \in BOOLEAN
         /\ x.ask \in 1 .. 8 /\ x.resp \in 1 .. 8
         /\ 0 .. x.ask - 1 \in SUBSET Seg /\ 0 .. x.resp - 1 \in SUBSET Seg
  BY TxnAssumption DEF Seg

(* What atp_rcb_free leaves is an rcb. *)
LEMMA FreedType == \A r \in RcbRecord : Freed(r) \in RcbRecord
  BY DEF Freed, RcbRecord, RcbState

(* An rcb that is given away keeps to its type, as does one that takes a request. *)
LEMMA AllocatedType ==
  ASSUME NEW r \in RcbRecord
  PROVE  /\ \A s \in Sock, state \in RcbState, note \in BOOLEAN :
              [r EXCEPT !.queue = s, !.state = state, !.note = note] \in RcbRecord
         /\ \A s \in Sock, state \in RcbState :
              [r EXCEPT !.queue = s, !.state = state] \in RcbRecord
         /\ \A state \in RcbState : [r EXCEPT !.state = state] \in RcbRecord
         /\ \A note \in BOOLEAN : [r EXCEPT !.note = note] \in RcbRecord
  BY DEF RcbRecord

LEMMA HoldingType ==
  ASSUME NEW r \in RcbRecord, NEW state \in RcbState, NEW x \in Txn, NEW b \in SUBSET Seg
  PROVE  Holding(r, state, x, b) \in RcbRecord
  BY DEF Holding, RcbRecord

(* An rcb from which segments are dropped, sent, or taken to be sent. *)
LEMMA RepliesType ==
  ASSUME NEW r \in RcbRecord
  PROVE  /\ \A b, y, d \in SUBSET Seg :
              [r EXCEPT !.bitmap = b, !.xmt = y, !.snd = d] \in RcbRecord
         /\ \A n, y, d \in SUBSET Seg :
              [r EXCEPT !.snd = d, !.notSent = n, !.sent = y] \in RcbRecord
         /\ \A n, y, d \in SUBSET Seg, state \in RcbState :
              [r EXCEPT !.state = state, !.notSent = n, !.xmt = y, !.snd = d] \in RcbRecord
  BY DEF RcbRecord

-----------------------------------------------------------------------------
(* The shared parts of the actions keep the types. *)

LEMMA RcbFreeType ==
  ASSUME TypeOK, NEW c \in Rcb, NEW timers \in [Rcb -> Nat], RcbFree(c, timers)
  PROVE  /\ rcbFree' \subseteq Rcb /\ rcb' \in [Rcb -> RcbRecord]
         /\ unattached' \in [Sock -> Seq(Rcb)] /\ repWait' \in [Sock -> Seq(Rcb)]
         /\ rcbWaiting' \subseteq Sock /\ finish' \in [Sock -> BOOLEAN]
         /\ rcbTimer' \in [Rcb -> Nat] /\ clearTimer' \in [Rcb -> Nat]
         /\ enab' \in [Sock -> BOOLEAN]
<1> DEFINE s == rcb[c].queue
<1>1. rcbFree' \subseteq Rcb /\ rcbWaiting' \subseteq Sock /\ enab' \in [Sock -> BOOLEAN]
  BY DEF RcbFree, WakeWaiting, TypeOK
<1>2. rcb' \in [Rcb -> RcbRecord]
  BY FreedType DEF RcbFree, TypeOK
<1>3. finish' \in [Sock -> BOOLEAN]
  BY DEF RcbFree, TypeOK
<1>4. rcbTimer' \in [Rcb -> Nat] /\ clearTimer' \in [Rcb -> Nat]
  BY UntimeoutType DEF RcbFree, TypeOK
<1>5. /\ unattached \in [Sock -> Seq(Rcb)] /\ repWait \in [Sock -> Seq(Rcb)]
      /\ unattached' = [unattached EXCEPT ![s] = Without(@, c)]
      /\ repWait' = [repWait EXCEPT ![s] = Without(@, c)]
  BY DEF RcbFree, TypeOK
<1>6. ASSUME NEW f \in [Sock -> Seq(Rcb)]
      PROVE  [f EXCEPT ![s] = Without(@, c)] \in [Sock -> Seq(Rcb)]
  <2>1. s \in Sock => Without(f[s], c) \in Seq(Rcb)
    BY WithoutType
  <2> QED BY <2>1
<1> QED BY <1>1, <1>2, <1>3, <1>4, <1>5, <1>6

LEMMA QueueReplyType ==
  ASSUME TypeOK, NEW s \in Sock, NEW c \in Rcb, QueueReply(s, c)
  PROVE  repWait' \in [Sock -> Seq(Rcb)] /\ enab' \in [Sock -> BOOLEAN]
<1>1. Append(repWait[s], c) \in Seq(Rcb)
  BY AppendOthers DEF TypeOK
<1> QED BY <1>1 DEF QueueReply, TypeOK

(* Taking a command, or putting it back, leaves queues of commands. *)
LEMMA TakeCommandType ==
  ASSUME TypeOK, NEW s \in Sock, wq[s] # <<>>, TakeCommand(s)
  PROVE  wq' \in [Sock -> Seq(Command)] /\ wantr' \in [Sock -> BOOLEAN]
<1>1. wq[s] \in Seq(Command)
  BY DEF TypeOK
<1>2. Tail(wq[s]) \in Seq(Command)
  BY <1>1
<1> QED BY <1>2 DEF TakeCommand, TypeOK

(* The command at the head of a queue; a segment names its transaction. *)
LEMMA HeadCommand ==
  ASSUME TypeOK, NEW s \in Sock, wq[s] # <<>>
  PROVE  /\ Head(wq[s]) \in Command
         /\ Head(wq[s]).op = "SEND" => Head(wq[s]).txn \in Txn /\ Head(wq[s]).seg \in Seg
<1>1. wq[s] \in Seq(Command)
  BY DEF TypeOK
<1>2. Head(wq[s]) \in Command
  BY <1>1
<1> QED BY <1>2 DEF Command, GetOp

-----------------------------------------------------------------------------
(* Type correctness. *)

LEMMA InitType == Init => TypeOK
<1> SUFFICES ASSUME Init PROVE TypeOK
  OBVIOUS
<1>1. NewRcb \in RcbRecord
  BY DEF NewRcb, RcbRecord, RcbState
<1>2. \A x \in Txn : 0 .. x.ask - 1 \in SUBSET Seg
  BY TxnType
<1>3. missing \in [Txn -> SUBSET Seg] /\ asks \in [Txn -> SUBSET SUBSET Seg]
  BY <1>2 DEF Init
<1>4. /\ wq \in [Sock -> Seq(Command)] /\ unattached \in [Sock -> Seq(Rcb)]
      /\ repWait \in [Sock -> Seq(Rcb)] /\ rcb \in [Rcb -> RcbRecord]
  BY <1>1 DEF Init, StreamInit
<1> QED BY <1>3, <1>4 DEF Init, StreamInit, TypeOK

LEMMA GiveType ==
  ASSUME TypeOK, NEW s \in Sock, NEW m \in Command, Give(s, m), todo' \in [Txn -> SUBSET Seg]
  PROVE  TypeOK'
<1>1. wq[s] \in Seq(Command)
  BY DEF TypeOK
<1>2. Append(wq[s], m) \in Seq(Command)
  BY <1>1
<1>3. wq' \in [Sock -> Seq(Command)]
  BY <1>2 DEF Give, PutQ, TypeOK
<1> QED BY <1>3 DEF Give, PutQ, TypeOK, rcbVars, timeVars, peerVars

LEMMA ProcessType ==
  ASSUME TypeOK
  PROVE  /\ \A s \in Sock : \A op \in Commands : Ask(s, op) => TypeOK'
         /\ \A x \in Txn : Respond(x) \/ RespondAgain(x) \/ GiveUp(x) => TypeOK'
<1>1. ASSUME NEW s \in Sock, NEW op \in Commands, Ask(s, op) PROVE TypeOK'
  <2>1. [op |-> op] \in Command
    BY ConstantAssumption DEF Command
  <2>2. todo' \in [Txn -> SUBSET Seg]
    BY <1>1 DEF Ask, TypeOK
  <2> QED BY <1>1, <2>1, <2>2, GiveType DEF Ask
<1>2. ASSUME NEW x \in Txn, Respond(x) \/ RespondAgain(x) PROVE TypeOK'
  <2>1. todo[x] \in SUBSET Seg /\ 0 .. x.resp - 1 \in SUBSET Seg /\ x.sock \in Sock
    BY TxnType DEF TypeOK
  <2>2. todo' \in [Txn -> SUBSET Seg]
    <3>1. \A g : [todo EXCEPT ![x] = @ \ {g}] \in [Txn -> SUBSET Seg]
      BY DEF TypeOK
    <3>2. CASE Respond(x)
      BY <3>1, <3>2, Zenon DEF Respond
    <3>3. CASE RespondAgain(x)
      BY <3>3 DEF RespondAgain, TypeOK
    <3> QED BY <1>2, <3>2, <3>3
  <2>3. \E g \in Seg : Give(x.sock, [op |-> "SEND", txn |-> x, seg |-> g])
    <3>1. CASE Respond(x)
      BY <3>1, <2>1, Zenon DEF Respond
    <3>2. CASE RespondAgain(x)
      BY <3>2, <2>1, Zenon DEF RespondAgain
    <3> QED BY <1>2, <3>1, <3>2
  <2>4. \A g \in Seg : [op |-> "SEND", txn |-> x, seg |-> g] \in Command
    BY DEF Command
  <2> QED BY <2>1, <2>2, <2>3, <2>4, GiveType
<1>3. ASSUME NEW x \in Txn, GiveUp(x) PROVE TypeOK'
  <2>1. [op |-> "RELEASE", txn |-> x] \in Command
    BY DEF Command
  <2>2. todo' \in [Txn -> SUBSET Seg]
    BY <1>3 DEF GiveUp, TypeOK
  <2> QED BY <1>3, <2>1, <2>2, GiveType, TxnType DEF GiveUp
<1> QED BY <1>1, <1>2, <1>3

(* What the requester hears, and the end of its transaction. *)
LEMMA EndedType ==
  ASSUME TypeOK, NEW x \in Txn, Ended(x)
  PROVE  /\ wire' \in [Txn -> SUBSET Seg] /\ missing' \in [Txn -> SUBSET Seg]
         /\ asks' \in [Txn -> SUBSET SUBSET Seg]
  BY DEF Ended, TypeOK

LEMMA HearType ==
  ASSUME TypeOK, NEW x \in Txn, NEW g \in Seg, Hear(x, g)
  PROVE  TypeOK'
<1> DEFINE left == IF x.eof /\ g = x.resp - 1 THEN {h \in missing[x] : h < g}
                                              ELSE missing[x] \ {g}
<1>1. left \in SUBSET Seg
  BY DEF TypeOK
<1> HIDE DEF left
<1>2. /\ missing' = [missing EXCEPT ![x] = left]
      /\ wire' = [wire EXCEPT ![x] = @ \cap left]
      /\ asks' = [asks EXCEPT ![x] = @ \cup ({left} \ {{}})]
      /\ UNCHANGED <<life, mwait, strVars, rcbVars, timeVars, todo>>
  BY DEF Hear, left
<1>3. missing' \in [Txn -> SUBSET Seg] /\ wire' \in [Txn -> SUBSET Seg]
  BY <1>1, <1>2 DEF TypeOK
<1>4. asks' \in [Txn -> SUBSET SUBSET Seg]
  BY <1>1, <1>2 DEF TypeOK
<1> QED BY <1>2, <1>3, <1>4 DEF TypeOK, strVars, rcbVars, timeVars

(* Requests that arrive. *)
LEMMA DeliverType ==
  ASSUME TypeOK, NEW x, Deliver(x)
  PROVE  todo' \in [Txn -> SUBSET Seg]
<1>1. x \in Txn => 0 .. x.resp - 1 \in SUBSET Seg
  BY TxnType
<1> QED BY <1>1 DEF Deliver, TypeOK

LEMMA AgainType ==
  ASSUME TypeOK, NEW x \in Txn, NEW b \in asks[x], RequestAgain(x, b)
  PROVE  TypeOK'
<1>1. b \in SUBSET Seg /\ x.sock \in Sock
  BY TxnType DEF TypeOK
<1>2. PICK c \in Rcb : /\ AtpReply(x.sock, c, b)
                       /\ rcbTimer' = [rcbTimer EXCEPT ![c] = Untimeout(@)]
  BY DEF RequestAgain, Active
<1>3. rcb' \in [Rcb -> RcbRecord]
  <2>1. rcb[c] \in RcbRecord
    BY DEF TypeOK
  <2>2. rcb[c].xmt \cap b \in SUBSET Seg /\ rcb[c].snd \cup (rcb[c].xmt \cap b) \in SUBSET Seg
    BY <1>1, <2>1 DEF RcbRecord
  <2> DEFINE r == [rcb[c] EXCEPT !.bitmap = b, !.xmt = rcb[c].xmt \cap b,
                                 !.snd = rcb[c].snd \cup (rcb[c].xmt \cap b)]
  <2>3. r \in RcbRecord
    BY <1>1, <2>1, <2>2, RepliesType
  <2>4. rcb' = [rcb EXCEPT ![c] = r]
    BY <1>2 DEF AtpReply
  <2> HIDE DEF r
  <2> QED BY <2>3, <2>4 DEF TypeOK
<1>4. repWait' \in [Sock -> Seq(Rcb)] /\ enab' \in [Sock -> BOOLEAN]
  BY <1>1, <1>2, QueueReplyType DEF AtpReply, TypeOK
<1>5. rcbTimer' \in [Rcb -> Nat]
  BY <1>2, UntimeoutType DEF TypeOK
<1> QED BY <1>3, <1>4, <1>5 DEF RequestAgain, TypeOK, peerVars

LEMMA TakenType ==
  ASSUME TypeOK, NEW x \in Txn, NEW b \in asks[x], RequestTaken(x, b)
  PROVE  TypeOK'
<1>1. b \in SUBSET Seg /\ x.sock \in Sock
  BY TxnType DEF TypeOK
<1>2. PICK c \in Rcb : /\ rcb' = [rcb EXCEPT ![c] = Holding(@, "RESPONDING", x, b)]
                       /\ unattached' = [unattached EXCEPT ![x.sock] = Without(@, c)]
  BY DEF RequestTaken, FirstWaiting, Waiting
<1>3. rcb' \in [Rcb -> RcbRecord]
  BY <1>1, <1>2, HoldingType DEF TypeOK, RcbState
<1>4. unattached' \in [Sock -> Seq(Rcb)]
  BY <1>1, <1>2, WithoutType DEF TypeOK
<1>5. todo' \in [Txn -> SUBSET Seg]
  BY DeliverType DEF RequestTaken
<1> QED BY <1>3, <1>4, <1>5 DEF RequestTaken, TypeOK, peerVars, timeVars, strVars

LEMMA HeldType ==
  ASSUME TypeOK, NEW x \in Txn, RequestHeld(x)
  PROVE  TypeOK'
<1>1. PICK c \in Rcb, noted \in BOOLEAN :
             /\ clearTimer' = [clearTimer EXCEPT ![c] = Untimeout(@) + 1]
             /\ rcb' = [rcb EXCEPT ![c].note = @ /\ ~noted]
  BY DEF RequestHeld, Waiting
<1>2. rcb[c] \in RcbRecord /\ (rcb[c].note /\ ~noted) \in BOOLEAN
  BY DEF TypeOK, RcbRecord
<1> DEFINE r == [rcb[c] EXCEPT !.note = rcb[c].note /\ ~noted]
<1>3. r \in RcbRecord
  BY <1>2 DEF RcbRecord
<1>4. rcb' = [rcb EXCEPT ![c] = r]
  BY <1>1
<1> HIDE DEF r
<1>5. rcb' \in [Rcb -> RcbRecord]
  BY <1>3, <1>4 DEF TypeOK
<1>6. clearTimer' \in [Rcb -> Nat]
  <2>1. Untimeout(clearTimer[c]) + 1 \in Nat
    BY UntimeoutType DEF TypeOK
  <2> QED BY <1>1, <2>1 DEF TypeOK
<1> QED BY <1>5, <1>6 DEF RequestHeld, TypeOK, peerVars, strVars

LEMMA HoldType ==
  ASSUME TypeOK, NEW x \in Txn, NEW b \in asks[x], RequestHold(x, b)
  PROVE  TypeOK'
<1>1. b \in SUBSET Seg
  BY DEF TypeOK
<1>2. PICK c \in Rcb : /\ rcb' = [rcb EXCEPT ![c] = Holding(@, "FULL", x, b)]
                       /\ clearTimer' = [clearTimer EXCEPT ![c] = @ + 1]
  BY DEF RequestHold, FirstWaiting, Waiting
<1>3. rcb' \in [Rcb -> RcbRecord]
  BY <1>1, <1>2, HoldingType DEF TypeOK, RcbState
<1>4. clearTimer' \in [Rcb -> Nat]
  BY <1>2 DEF TypeOK
<1> QED BY <1>3, <1>4 DEF RequestHold, TypeOK, peerVars, strVars

LEMMA ReleaseType ==
  ASSUME TypeOK, NEW x \in Txn, RecvRelease(x)
  PROVE  TypeOK'
<1>1. PICK c \in Rcb : RcbFree(c, rcbTimer)
  BY DEF RecvRelease, Active
<1>2. rcbTimer \in [Rcb -> Nat] /\ Ended(x)
  BY DEF TypeOK, RecvRelease
<1> QED BY <1>1, <1>2, RcbFreeType, EndedType DEF RecvRelease, TypeOK

-----------------------------------------------------------------------------
(* Timeouts, and the streams system. *)

LEMMA TimeoutType ==
  ASSUME TypeOK, NEW c \in Rcb, RcbTimeout(c)
  PROVE  TypeOK'
<1> DEFINE timers == [rcbTimer EXCEPT ![c] = @ - 1]
<1>1. timers \in [Rcb -> Nat]
  BY DEF RcbTimeout, TypeOK
<1>2. CASE c \notin rcbFree
  <2>1. RcbFree(c, timers) /\ UNCHANGED srv
    BY <1>2 DEF RcbTimeout
  <2>2. /\ wire' \in [Txn -> SUBSET Seg] /\ missing' \in [Txn -> SUBSET Seg]
        /\ asks' \in [Txn -> SUBSET SUBSET Seg]
    <3>1. CASE rcb[c].txn = None
      BY <1>2, <3>1 DEF RcbTimeout, peerVars, TypeOK
    <3>2. CASE rcb[c].txn # None
      <4>1. rcb[c].txn \in Txn /\ Ended(rcb[c].txn)
        BY <1>2, <3>2 DEF RcbTimeout, TypeOK, RcbRecord
      <4> QED BY <4>1, EndedType
    <3> QED BY <3>1, <3>2
  <2> HIDE DEF timers
  <2> QED BY <1>1, <2>1, <2>2, RcbFreeType DEF RcbTimeout, TypeOK
<1>3. CASE c \in rcbFree
  <2>1. rcbTimer' = timers /\ srv' = [s \in Sock |-> "panic"]
    BY <1>3 DEF RcbTimeout
  <2> HIDE DEF timers
  <2> QED BY <1>1, <1>3, <2>1 DEF RcbTimeout, TypeOK, peerVars
<1> QED BY <1>2, <1>3

LEMMA ClearType ==
  ASSUME TypeOK, NEW c \in Rcb, ClearTimeout(c)
  PROVE  TypeOK'
<1>1. clearTimer' \in [Rcb -> Nat]
  BY DEF ClearTimeout, TypeOK
<1>2. rcb' \in [Rcb -> RcbRecord]
  <2>1. rcb[c] \in RcbRecord
    BY DEF TypeOK
  <2> DEFINE r == [rcb[c] EXCEPT !.state = "NW"]
  <2>2. r \in RcbRecord
    BY <2>1, AllocatedType DEF RcbState
  <2>3. rcb' = rcb \/ rcb' = [rcb EXCEPT ![c] = r]
    BY DEF ClearTimeout
  <2> HIDE DEF r
  <2> QED BY <2>2, <2>3 DEF TypeOK
<1> QED BY <1>1, <1>2 DEF ClearTimeout, TypeOK, peerVars, strVars

LEMMA StreamType ==
  ASSUME TypeOK, NEW s \in Sock,
         Fill(s) \/ Drain(s) \/ Start(s) \/ Wwake(s) \/ Detach(s) \/ AtpOpen(s)
  PROVE  TypeOK'
<1> USE DEF TypeOK, rcbVars, timeVars, peerVars
<1>1. CASE Fill(s) \/ Drain(s)
  BY <1>1 DEF Fill, Fills, Drain, Drains
<1>2. CASE Start(s) \/ Wwake(s)
  BY <1>2 DEF Start, RunQueue, Wwake, Wakes
<1>3. CASE Detach(s)
  BY <1>3 DEF Detach, Detaches, strVars
<1>4. CASE AtpOpen(s)
  BY <1>4 DEF AtpOpen, Attaches
<1> QED BY <1>1, <1>2, <1>3, <1>4

-----------------------------------------------------------------------------
(* The service procedure. *)

LEMMA ReplyLoopType ==
  ASSUME TypeOK, NEW s \in Sock,
         ReplyBlocked(s) \/ ReplyNoSpace(s) \/ ReplyDone(s) \/ RepliesDone(s)
  PROVE  TypeOK'
<1>1. CASE ReplyBlocked(s) \/ ReplyNoSpace(s) \/ RepliesDone(s)
  BY <1>1 DEF ReplyBlocked, ReplyNoSpace, RepliesDone, Blocked, MemWait, TypeOK, rcbVars,
              timeVars, peerVars
<1>2. CASE ReplyDone(s)
  <2>1. repWait[s] \in Seq(Rcb) /\ repWait[s] # <<>>
    BY <1>2 DEF ReplyDone, TypeOK
  <2>2. Head(repWait[s]) \in Rcb /\ Tail(repWait[s]) \in Seq(Rcb)
    BY <2>1
  <2>3. PICK c \in Rcb :
          \/ RcbFree(c, rcbTimer)
          \/ /\ repWait' = [repWait EXCEPT ![s] = Tail(@)]
             /\ rcbTimer' = rcbTimer \/ rcbTimer' = [rcbTimer EXCEPT ![c] = @ + 1]
             /\ UNCHANGED <<unattached, clearTimer, finish, rcb, rcbFree, rcbWaiting, enab>>
    BY <1>2, <2>2 DEF ReplyDone
  <2>4. CASE RcbFree(c, rcbTimer)
    <3>1. rcbTimer \in [Rcb -> Nat]
      BY DEF TypeOK
    <3> QED BY <1>2, <2>4, <3>1, RcbFreeType DEF ReplyDone, TypeOK, peerVars
  <2>5. CASE /\ repWait' = [repWait EXCEPT ![s] = Tail(@)]
             /\ rcbTimer' = rcbTimer \/ rcbTimer' = [rcbTimer EXCEPT ![c] = @ + 1]
             /\ UNCHANGED <<unattached, clearTimer, finish, rcb, rcbFree, rcbWaiting, enab>>
    <3>1. repWait' \in [Sock -> Seq(Rcb)]
      BY <2>2, <2>5 DEF TypeOK
    <3>2. rcbTimer' \in [Rcb -> Nat]
      <4>1. rcbTimer[c] + 1 \in Nat
        BY DEF TypeOK
      <4> QED BY <2>5, <4>1 DEF TypeOK
    <3> QED BY <1>2, <2>5, <3>1, <3>2 DEF ReplyDone, TypeOK, peerVars
  <2> QED BY <2>3, <2>4, <2>5
<1> QED BY <1>1, <1>2

LEMMA SegmentType ==
  ASSUME TypeOK, NEW s \in Sock, ReplySegment(s)
  PROVE  TypeOK'
<1> DEFINE c == Head(repWait[s])
           g == NextReply(c)
           r == [rcb[c] EXCEPT !.snd = @ \ {g}, !.notSent = @ \ {g}, !.sent = @ \cup {g}]
<1>1. c \in Rcb
  <2>1. repWait[s] \in Seq(Rcb) /\ repWait[s] # <<>>
    BY DEF ReplySegment, Replying, TypeOK
  <2> QED BY <2>1
<1>2. rcb[c] \in RcbRecord
  BY <1>1 DEF TypeOK
<1>3. g \in Seg
  BY <1>2 DEF ReplySegment, RcbRecord
<1>4. /\ rcb[c].snd \ {g} \in SUBSET Seg /\ rcb[c].notSent \ {g} \in SUBSET Seg
      /\ rcb[c].sent \cup {g} \in SUBSET Seg
  BY <1>2, <1>3 DEF RcbRecord
<1>5. [rcb[c] EXCEPT !.snd = rcb[c].snd \ {g}, !.notSent = rcb[c].notSent \ {g},
                     !.sent = rcb[c].sent \cup {g}] \in RcbRecord
  <2> HIDE DEF c, g
  <2> QED BY <1>2, <1>4, RepliesType
<1>6. r \in RcbRecord
  BY <1>5
<1>7. rcb' = [rcb EXCEPT ![c] = r]
  BY DEF ReplySegment
<1>8. /\ wire' = [wire EXCEPT ![rcb[c].txn] = @ \cup ({g} \cap missing[rcb[c].txn])]
      /\ UNCHANGED <<life, mwait, strVars, rcbFree, unattached, repWait, rcbWaiting, nwait,
                     finish, timeVars, todo, missing, asks>>
  BY DEF ReplySegment
<1> HIDE DEF c, g, r
<1>9. rcb' \in [Rcb -> RcbRecord]
  BY <1>6, <1>7 DEF TypeOK
<1>10. wire' \in [Txn -> SUBSET Seg]
  BY <1>3, <1>8 DEF TypeOK
<1> QED BY <1>8, <1>9, <1>10 DEF TypeOK, strVars, timeVars

(* The commands that change no rcb. *)
LEMMA PlainCommandType ==
  ASSUME TypeOK, NEW s \in Sock,
         Empty(s) \/ GetNoRcb(s) \/ PollEmpty(s) \/ NoSuchRequest(s) \/ SetFinish(s)
  PROVE  TypeOK'
<1>1. CASE Empty(s)
  BY <1>1 DEF Empty, NoCommand, TypeOK, rcbVars, timeVars, peerVars
<1>2. CASE GetNoRcb(s)
  BY <1>2 DEF GetNoRcb, PutBack, TypeOK, timeVars, peerVars
<1>3. CASE PollEmpty(s) \/ NoSuchRequest(s) \/ SetFinish(s)
  <2>1. wq[s] # <<>> /\ TakeCommand(s)
    BY <1>3 DEF PollEmpty, NoSuchRequest, SetFinish, At
  <2>2. wq' \in [Sock -> Seq(Command)] /\ wantr' \in [Sock -> BOOLEAN]
    BY <2>1, TakeCommandType
  <2>3. CASE PollEmpty(s) \/ NoSuchRequest(s)
    BY <2>2, <2>3 DEF PollEmpty, NoSuchRequest, TypeOK, rcbVars, timeVars, peerVars
  <2>4. CASE SetFinish(s)
    BY <2>2, <2>4 DEF SetFinish, TypeOK, timeVars, peerVars
  <2> QED BY <1>3, <2>3, <2>4
<1> QED BY <1>1, <1>2, <1>3

LEMMA AllocRcbType ==
  ASSUME TypeOK, NEW s \in Sock, NEW c \in Rcb, NEW state \in RcbState, NEW note \in BOOLEAN,
         AllocRcb(s, c, state, note)
  PROVE  /\ rcb' \in [Rcb -> RcbRecord] /\ rcbFree' \subseteq Rcb /\ rcbWaiting' = rcbWaiting
<1> DEFINE r == [rcb[c] EXCEPT !.queue = s, !.state = state, !.note = note]
<1>1. r \in RcbRecord
  BY AllocatedType DEF TypeOK
<1>2. rcb' = [rcb EXCEPT ![c] = r] /\ rcbFree' = rcbFree \ {c} /\ rcbWaiting' = rcbWaiting
  BY DEF AllocRcb
<1> HIDE DEF r
<1> QED BY <1>1, <1>2 DEF TypeOK

(* GET_REQUEST that takes an rcb and no request. *)
LEMMA GetType ==
  ASSUME TypeOK, NEW s \in Sock, NEW c \in Rcb,
         GetTooMany(s, c) \/ GetNoWait(s, c) \/ GetWait(s, c)
  PROVE  TypeOK'
<1>1. wq[s] # <<>> /\ TakeCommand(s)
  BY DEF GetTooMany, GetNoWait, GetWait, At
<1>2. wq' \in [Sock -> Seq(Command)] /\ wantr' \in [Sock -> BOOLEAN]
  BY <1>1, TakeCommandType
<1>3. rcb[c].note \in BOOLEAN /\ At(s, "GET_NOTE") \in BOOLEAN
  BY DEF TypeOK, RcbRecord, At
<1>4. rcb' \in [Rcb -> RcbRecord] /\ rcbFree' \subseteq Rcb /\ rcbWaiting' = rcbWaiting
  BY <1>3, AllocRcbType DEF GetTooMany, GetNoWait, GetWait, RcbState
<1>5. /\ unattached' = unattached \/ unattached' = [unattached EXCEPT ![s] = Append(@, c)]
      /\ nwait' = nwait \/ nwait' = [nwait EXCEPT ![s] = @ + 1]
      /\ UNCHANGED <<life, mwait, enab, full, wantw, srv, repWait, finish, timeVars, todo,
                     peerVars>>
  BY DEF GetTooMany, GetNoWait, GetWait
<1>6. unattached' \in [Sock -> Seq(Rcb)]
  <2>1. Append(unattached[s], c) \in Seq(Rcb)
    BY AppendOthers DEF TypeOK
  <2> QED BY <1>5, <2>1 DEF TypeOK
<1>7. nwait' \in [Sock -> Int]
  BY <1>5 DEF TypeOK
<1> QED BY <1>2, <1>4, <1>5, <1>6, <1>7 DEF TypeOK, timeVars, peerVars

(* GET_REQUEST and GET_POLL that get a request that is held. *)
LEMMA TakeHeldType ==
  ASSUME TypeOK, NEW s \in Sock, PollTake(s) \/ \E c \in Rcb : GetHeld(s, c)
  PROVE  TypeOK'
<1>1. wq[s] # <<>> /\ TakeCommand(s)
  BY DEF PollTake, GetHeld, At
<1>2. wq' \in [Sock -> Seq(Command)] /\ wantr' \in [Sock -> BOOLEAN]
  BY <1>1, TakeCommandType
<1>3. /\ nwait' = [nwait EXCEPT ![s] = @ - 1]
      /\ UNCHANGED <<life, mwait, enab, full, wantw, srv, repWait, rcbWaiting, finish, rcbTimer,
                     peerVars>>
      /\ rcbFree' \subseteq Rcb
  BY DEF PollTake, GetHeld, TypeOK
<1>4. PICK f \in Rcb :
        /\ clearTimer' = [clearTimer EXCEPT ![f] = Untimeout(@)]
        /\ Deliver(rcb[f].txn)
        /\ \/ /\ rcb' = [rcb EXCEPT ![f].state = "RESPONDING"]
              /\ unattached' = [unattached EXCEPT ![s] = Without(@, f)]
           \/ \E c \in Rcb :
                /\ rcb' = [rcb EXCEPT ![c].queue = s, ![c].state = "NW",
                                      ![f].state = "RESPONDING"]
                /\ unattached' = [unattached EXCEPT ![s] = Without(Append(@, c), f)]
  <2>1. FirstWaiting(s, "FULL") \subseteq Rcb
    BY DEF FirstWaiting, Waiting
  <2> QED BY <2>1, Zenon DEF PollTake, GetHeld
<1>5. clearTimer' \in [Rcb -> Nat] /\ todo' \in [Txn -> SUBSET Seg]
  BY <1>4, UntimeoutType, DeliverType DEF TypeOK
<1>6. nwait' \in [Sock -> Int]
  BY <1>3 DEF TypeOK
<1>7. unattached' \in [Sock -> Seq(Rcb)]
  <2>1. unattached[s] \in Seq(Rcb) /\ \A c \in Rcb : Append(unattached[s], c) \in Seq(Rcb)
    BY AppendOthers DEF TypeOK
  <2>2. /\ Without(unattached[s], f) \in Seq(Rcb)
        /\ \A c \in Rcb : Without(Append(unattached[s], c), f) \in Seq(Rcb)
    BY <2>1, WithoutType
  <2>3. CASE unattached' = [unattached EXCEPT ![s] = Without(@, f)]
    BY <2>2, <2>3 DEF TypeOK
  <2>4. ASSUME NEW c \in Rcb, unattached' = [unattached EXCEPT ![s] = Without(Append(@, c), f)]
        PROVE  unattached' \in [Sock -> Seq(Rcb)]
    BY <2>2, <2>4 DEF TypeOK
  <2> QED BY <1>4, <2>3, <2>4
<1>8. rcb' \in [Rcb -> RcbRecord]
  <2>1. ASSUME NEW q \in [Rcb -> RcbRecord], NEW c \in Rcb
        PROVE  /\ [q EXCEPT ![c].state = "RESPONDING"] \in [Rcb -> RcbRecord]
               /\ [q EXCEPT ![c].queue = s, ![c].state = "NW"] \in [Rcb -> RcbRecord]
    <3> DEFINE r == [q[c] EXCEPT !.state = "RESPONDING"]
               n == [q[c] EXCEPT !.queue = s, !.state = "NW"]
    <3>1. r \in RcbRecord /\ n \in RcbRecord
      BY AllocatedType DEF RcbState
    <3>2. /\ [q EXCEPT ![c].state = "RESPONDING"] = [q EXCEPT ![c] = r]
          /\ [q EXCEPT ![c].queue = s, ![c].state = "NW"] = [q EXCEPT ![c] = n]
      BY Zenon
    <3> HIDE DEF r, n
    <3> QED BY <3>1, <3>2
  <2>2. rcb \in [Rcb -> RcbRecord]
    BY DEF TypeOK
  <2>3. CASE rcb' = [rcb EXCEPT ![f].state = "RESPONDING"]
    BY <2>1, <2>2, <2>3
  <2>4. ASSUME NEW c \in Rcb,
               rcb' = [rcb EXCEPT ![c].queue = s, ![c].state = "NW", ![f].state = "RESPONDING"]
        PROVE  rcb' \in [Rcb -> RcbRecord]
    <3> DEFINE q == [rcb EXCEPT ![c].queue = s, ![c].state = "NW"]
    <3>1. q \in [Rcb -> RcbRecord]
      BY <2>1, <2>2
    <3>2. rcb' = [q EXCEPT ![f].state = "RESPONDING"]
      BY <2>4, Zenon
    <3> HIDE DEF q
    <3> QED BY <2>1, <3>1, <3>2
  <2> QED BY <1>4, <2>3, <2>4
<1> QED BY <1>2, <1>3, <1>5, <1>6, <1>7, <1>8 DEF TypeOK, peerVars

LEMMA ResponseType ==
  ASSUME TypeOK, NEW s \in Sock, NEW c \in Rcb, SendResponse(s, c)
  PROVE  TypeOK'
<1> DEFINE m    == Head(wq[s])
           last == m.seg = 7 \/ (m.txn.eof /\ m.seg = m.txn.resp - 1)
           r    == [rcb[c] EXCEPT !.state = IF last THEN "RESPONSE_FULL" ELSE @,
                                  !.notSent = IF last THEN {h \in @ : h <= m.seg} ELSE @,
                                  !.xmt = @ \cup {m.seg}, !.snd = @ \cup {m.seg}]
<1>1. wq[s] # <<>> /\ TakeCommand(s) /\ m.op = "SEND"
  BY DEF SendResponse, At
<1>2. wq' \in [Sock -> Seq(Command)] /\ wantr' \in [Sock -> BOOLEAN]
  BY <1>1, TakeCommandType
<1>3. m.seg \in Seg
  BY <1>1, HeadCommand
<1>4. rcb[c] \in RcbRecord
  BY DEF TypeOK
<1>5. r \in RcbRecord
  <2> HIDE DEF m, last
  <2> QED BY <1>3, <1>4 DEF RcbRecord, RcbState
<1>6. rcb' = [rcb EXCEPT ![c] = r]
  BY Zenon DEF SendResponse
<1>7. rcb' \in [Rcb -> RcbRecord]
  <2> HIDE DEF r
  <2> QED BY <1>5, <1>6 DEF TypeOK
<1>8. repWait' \in [Sock -> Seq(Rcb)] /\ enab' \in [Sock -> BOOLEAN]
  BY QueueReplyType DEF SendResponse
<1>9. UNCHANGED <<life, mwait, full, wantw, srv, rcbFree, unattached, rcbWaiting, nwait,
                  finish, timeVars, todo, peerVars>>
  BY DEF SendResponse
<1> HIDE DEF m, last, r
<1> QED BY <1>2, <1>7, <1>8, <1>9 DEF TypeOK, timeVars, peerVars

LEMMA ReleaseResponseType ==
  ASSUME TypeOK, NEW s \in Sock, NEW c \in Rcb, ReleaseResponse(s, c)
  PROVE  TypeOK'
<1>1. wq[s] # <<>> /\ TakeCommand(s) /\ RcbFree(c, rcbTimer) /\ rcbTimer \in [Rcb -> Nat]
  BY DEF ReleaseResponse, At, TypeOK
<1>2. wq' \in [Sock -> Seq(Command)] /\ wantr' \in [Sock -> BOOLEAN]
  BY <1>1, TakeCommandType
<1> QED BY <1>1, <1>2, RcbFreeType DEF ReleaseResponse, TypeOK, peerVars

LEMMA CloseType ==
  ASSUME TypeOK, NEW s \in Sock, AtpClose(s)
  PROVE  TypeOK'
<1> DEFINE own == Active(s) \cup {c \in Rcb : OnList(unattached[s], c)}
<1>1. own \subseteq Rcb
  BY DEF Active
<1>2. /\ rcb' = [c \in Rcb |-> IF c \in own THEN Freed(rcb[c]) ELSE rcb[c]]
      /\ rcbFree' = rcbFree \cup own
      /\ rcbWaiting' = IF own = {} THEN rcbWaiting \ {s} ELSE {}
  BY DEF AtpClose
<1>3. rcb' \in [Rcb -> RcbRecord] /\ rcbFree' \subseteq Rcb /\ rcbWaiting' \subseteq Sock
  <2> HIDE DEF own
  <2> QED BY <1>1, <1>2, FreedType DEF TypeOK
<1>4. rcbTimer' \in [Rcb -> Nat] /\ clearTimer' \in [Rcb -> Nat]
  BY UntimeoutType DEF AtpClose, TypeOK
<1>5. <<>> \in Seq(Rcb) /\ <<>> \in Seq(Command)
  OBVIOUS
<1>6. unattached' \in [Sock -> Seq(Rcb)] /\ repWait' \in [Sock -> Seq(Rcb)]
  BY <1>5 DEF AtpClose, TypeOK
<1>7. todo' \in [Txn -> SUBSET Seg] /\ finish' \in [Sock -> BOOLEAN]
  BY DEF AtpClose, TypeOK
<1>8. \E woken : CloseQueues(s, woken)
  BY DEF AtpClose
<1>9. /\ enab' \in [Sock -> BOOLEAN] /\ life' \in [Sock -> {"open", "closing", "closed"}]
      /\ mwait' \in [Sock -> BOOLEAN] /\ wq' \in [Sock -> Seq(Command)]
      /\ UNCHANGED <<wantr, full, wantw, srv>>
  BY <1>5, <1>8 DEF CloseQueues, TypeOK
<1> QED BY <1>3, <1>4, <1>6, <1>7, <1>9 DEF AtpClose, TypeOK, peerVars

(* Every variable keeps its type, with any number of sockets and rcbs.  It is    *)
(* what every other proof here rests on.                                         *)
THEOREM TypeCorrect == Spec => []TypeOK
<1>1. Init => TypeOK
  BY InitType
<1>2. TypeOK /\ [Next]_vars => TypeOK'
  <2> SUFFICES ASSUME TypeOK, [Next]_vars PROVE TypeOK'
    OBVIOUS
  <2>1. CASE UNCHANGED vars
    BY <2>1 DEF vars, strVars, rcbVars, timeVars, peerVars, TypeOK
  <2>2. ASSUME NEW x \in Txn,
               \/ Respond(x) \/ RespondAgain(x) \/ GiveUp(x)
               \/ \E g \in Seg : Hear(x, g)
        PROVE  TypeOK'
    BY <2>2, ProcessType, HearType
  <2>3. ASSUME NEW x \in Txn,
               \/ \E b \in asks[x] : RequestAgain(x, b) \/ RequestTaken(x, b) \/ RequestHold(x, b)
               \/ RequestHeld(x) \/ RecvRelease(x)
        PROVE  TypeOK'
    BY <2>3, AgainType, TakenType, HoldType, HeldType, ReleaseType
  <2>4. ASSUME NEW s \in Sock,
               \/ \E op \in Commands : Ask(s, op)
               \/ Fill(s) \/ Drain(s) \/ Start(s) \/ Wwake(s)
               \/ AtpClose(s) \/ Detach(s) \/ AtpOpen(s)
        PROVE  TypeOK'
    BY <2>4, ProcessType, StreamType, CloseType
  <2>5. ASSUME NEW s \in Sock, Walk(s) PROVE TypeOK'
    BY <2>5, ReplyLoopType, SegmentType, PlainCommandType, GetType, TakeHeldType, ResponseType,
       ReleaseResponseType DEF Walk
  <2>6. ASSUME NEW c \in Rcb, RcbTimeout(c) \/ ClearTimeout(c) PROVE TypeOK'
    BY <2>6, TimeoutType, ClearType
  <2> QED BY <2>1, <2>2, <2>3, <2>4, <2>5, <2>6 DEF Next
<1> QED BY <1>1, <1>2, PTL DEF Spec

-----------------------------------------------------------------------------
(* Scheduling. *)

(* A service procedure that has passed its reply loop and has a reply to send *)
(* will run again.                                                            *)
RepliesAgain == \A s \in Sock : srv[s] = "ioctl" /\ repWait[s] # <<>> => enab[s]

(* A write queue that does not ask to be enabled by putq has commands on it. *)
WantsCommands == \A s \in Sock :
    life[s] = "open" /\ srv[s] \in {"off", "send"} /\ ~wantr[s] => wq[s] # <<>>

(* A socket that is not open has no commands, and no replies to send. *)
ClosedEmpty == \A s \in Sock : life[s] # "open" => wq[s] = <<>> /\ repWait[s] = <<>>

SchedInv == NoStall /\ RepliesAgain /\ WantsCommands /\ ClosedEmpty

(* A step that forgets no socket: what was enabled stays so, who waits for an  *)
(* rcb waits on or is enabled, and who gets something to send is open and      *)
(* enabled.                                                                    *)
Forgets(s) ==
    \/ enab[s] /\ ~enab'[s]
    \/ s \in rcbWaiting /\ s \notin rcbWaiting' /\ ~enab'[s]
    \/ repWait[s] = <<>> /\ repWait'[s] # <<>> /\ (~enab'[s] \/ life[s] # "open")
ForgetsNone == \A s \in Sock : ~Forgets(s)

(* A step that forgets no socket and serves no queue, or serves one in the *)
(* ioctl loop, keeps every socket that has work to do scheduled.           *)
LEMMA ForgetsNoneInv ==
  ASSUME TypeOK, SchedInv, ForgetsNone, UNCHANGED <<life, mwait, full, wantw, srv>>,
         \/ UNCHANGED <<wq, wantr>>
         \/ \E s \in Sock : srv[s] = "ioctl" /\ wq[s] # <<>> /\ TakeCommand(s)
  PROVE  SchedInv'
<1>1. NoStall'
  <2> SUFFICES ASSUME NEW s \in Sock, life[s] = "open", srv[s] = "off",
                      repWait'[s] # <<>> \/ wq'[s] # <<>>
               PROVE  enab'[s] \/ mwait[s] \/ s \in rcbWaiting' \/ (full[s] /\ wantw[s])
    BY DEF NoStall
  <2>1. wq'[s] = wq[s]
    BY DEF TakeCommand, TypeOK
  <2>2. CASE repWait[s] # <<>> \/ wq[s] # <<>>
    BY <2>2 DEF SchedInv, NoStall, ForgetsNone, Forgets
  <2>3. CASE repWait[s] = <<>> /\ wq[s] = <<>>
    BY <2>1, <2>3 DEF ForgetsNone, Forgets
  <2> QED BY <2>2, <2>3
<1>2. RepliesAgain'
  BY DEF SchedInv, RepliesAgain, ForgetsNone, Forgets
<1>3. WantsCommands'
  <2> SUFFICES ASSUME NEW s \in Sock, life[s] = "open", srv[s] \in {"off", "send"}, ~wantr'[s]
               PROVE  wq'[s] # <<>>
    BY DEF WantsCommands
  <2>1. wq'[s] = wq[s] /\ wantr'[s] = wantr[s]
    BY DEF TakeCommand, TypeOK
  <2> QED BY <2>1 DEF SchedInv, WantsCommands
<1>4. ClosedEmpty'
  <2> SUFFICES ASSUME NEW s \in Sock, life[s] # "open"
               PROVE  wq'[s] = <<>> /\ repWait'[s] = <<>>
    BY DEF ClosedEmpty
  <2>1. wq[s] = <<>> /\ repWait[s] = <<>>
    BY DEF SchedInv, ClosedEmpty
  <2>2. wq'[s] = wq[s]
    BY <2>1 DEF TakeCommand, TypeOK
  <2>3. repWait'[s] = <<>>
    BY <2>1 DEF ForgetsNone, Forgets
  <2> QED BY <2>1, <2>2, <2>3
<1> QED BY <1>1, <1>2, <1>3, <1>4 DEF SchedInv

LEMMA WithoutEmpty == \A e : Without(<<>>, e) = <<>>
  BY WithoutNone, EmptyList

(* An rcb that is freed wakes those who wait for one, and gives none a reply. *)
LEMMA FreeForgetsNone ==
  ASSUME TypeOK, NEW c \in Rcb, NEW timers, RcbFree(c, timers)
  PROVE  ForgetsNone
<1>1. repWait \in [Sock -> Seq(Rcb)]
  BY DEF TypeOK
<1>2. \E s : repWait' = [repWait EXCEPT ![s] = Without(@, c)]
  BY DEF RcbFree
<1>3. \A s \in Sock : repWait[s] = <<>> => repWait'[s] = <<>>
  BY <1>1, <1>2, WithoutEmpty
<1>4. \A s \in Sock : (enab[s] \/ s \in rcbWaiting) => enab'[s]
  BY DEF RcbFree, WakeWaiting
<1> QED BY <1>3, <1>4 DEF ForgetsNone, Forgets

(* A reply that is queued enables its socket. *)
LEMMA QueueForgetsNone ==
  ASSUME TypeOK, NEW s \in Sock, NEW c \in Rcb, life[s] = "open",
         QueueReply(s, c) \/ UNCHANGED <<repWait, enab>>, UNCHANGED rcbWaiting
  PROVE  ForgetsNone
<1>1. enab \in [Sock -> BOOLEAN] /\ repWait \in [Sock -> Seq(Rcb)]
  BY DEF TypeOK
<1>2. \A x \in Sock : /\ enab[x] => enab'[x]
                      /\ repWait'[x] # repWait[x] => x = s /\ enab'[x]
  BY <1>1 DEF QueueReply
<1> QED BY <1>2 DEF ForgetsNone, Forgets

(* The arrivals and timeouts that forget no socket. *)
LEMMA ArrivalForgetsNone ==
  ASSUME TypeOK, NEW x \in Txn,
         \/ \E b \in asks[x] : RequestAgain(x, b) \/ RequestTaken(x, b) \/ RequestHold(x, b)
         \/ RequestHeld(x) \/ RecvRelease(x) \/ \E g \in Seg : Hear(x, g)
  PROVE  ForgetsNone
<1>1. ASSUME NEW b \in asks[x], RequestAgain(x, b) PROVE ForgetsNone
  <2>1. x.sock \in Sock /\ life[x.sock] = "open" /\ UNCHANGED rcbWaiting
    BY <1>1, TxnType DEF RequestAgain, Arrives
  <2>2. \E c \in Rcb : QueueReply(x.sock, c) \/ UNCHANGED <<repWait, enab>>
    BY <1>1 DEF RequestAgain, AtpReply, Active
  <2> QED BY <2>1, <2>2, QueueForgetsNone
<1>2. ASSUME NEW b \in asks[x], RequestTaken(x, b) \/ RequestHold(x, b) PROVE ForgetsNone
  BY <1>2 DEF RequestTaken, RequestHold, strVars, ForgetsNone, Forgets
<1>3. CASE RequestHeld(x)
  BY <1>3 DEF RequestHeld, strVars, ForgetsNone, Forgets
<1>4. CASE RecvRelease(x)
  BY <1>4, FreeForgetsNone DEF RecvRelease, Active
<1>5. ASSUME NEW g \in Seg, Hear(x, g) PROVE ForgetsNone
  BY <1>5 DEF Hear, strVars, rcbVars, ForgetsNone, Forgets
<1> QED BY <1>1, <1>2, <1>3, <1>4, <1>5

(* The steps of the service procedure that forget no socket. *)
LEMMA ReplyForgetsNone ==
  ASSUME TypeOK, NEW s \in Sock, ReplySegment(s) \/ ReplyDone(s)
  PROVE  ForgetsNone
<1>1. CASE ReplySegment(s)
  BY <1>1 DEF ReplySegment, strVars, ForgetsNone, Forgets
<1>2. CASE ReplyDone(s)
  <2>1. repWait \in [Sock -> Seq(Rcb)] /\ repWait[s] \in Seq(Rcb) /\ repWait[s] # <<>>
    BY <1>2 DEF ReplyDone, TypeOK
  <2>2. Head(repWait[s]) \in Rcb
    BY <2>1
  <2>3. \/ \E c \in Rcb : RcbFree(c, rcbTimer)
        \/ /\ repWait' = [repWait EXCEPT ![s] = Tail(@)]
           /\ UNCHANGED <<rcbWaiting, enab>>
    BY <1>2, <2>2 DEF ReplyDone
  <2>4. CASE /\ repWait' = [repWait EXCEPT ![s] = Tail(@)]
             /\ UNCHANGED <<rcbWaiting, enab>>
    <3>1. \A y \in Sock : repWait[y] = <<>> => repWait'[y] = <<>>
      BY <2>1, <2>4
    <3> QED BY <2>4, <3>1 DEF ForgetsNone, Forgets
  <2> QED BY <2>3, <2>4, FreeForgetsNone
<1> QED BY <1>1, <1>2

LEMMA CommandForgetsNone ==
  ASSUME TypeOK, SchedInv, NEW s \in Sock,
         \/ PollTake(s) \/ PollEmpty(s) \/ NoSuchRequest(s) \/ SetFinish(s)
         \/ \E c \in Rcb : \/ GetTooMany(s, c) \/ GetNoWait(s, c) \/ GetHeld(s, c)
                           \/ GetWait(s, c) \/ SendResponse(s, c) \/ ReleaseResponse(s, c)
  PROVE  ForgetsNone
<1>1. CASE PollTake(s) \/ PollEmpty(s) \/ NoSuchRequest(s) \/ SetFinish(s)
  BY <1>1 DEF PollTake, PollEmpty, NoSuchRequest, SetFinish, rcbVars, ForgetsNone, Forgets
<1>2. ASSUME NEW c \in Rcb,
             GetTooMany(s, c) \/ GetNoWait(s, c) \/ GetHeld(s, c) \/ GetWait(s, c)
      PROVE  ForgetsNone
  BY <1>2 DEF GetTooMany, GetNoWait, GetHeld, GetWait, AllocRcb, ForgetsNone, Forgets
<1>3. ASSUME NEW c \in Rcb, SendResponse(s, c) PROVE ForgetsNone
  <2>1. life[s] = "open"
    BY <1>3 DEF SendResponse, At, SchedInv, ClosedEmpty
  <2> QED BY <1>3, <2>1, QueueForgetsNone DEF SendResponse
<1>4. ASSUME NEW c \in Rcb, ReleaseResponse(s, c) PROVE ForgetsNone
  BY <1>4, FreeForgetsNone DEF ReleaseResponse
<1> QED BY <1>1, <1>2, <1>3, <1>4

LEMMA SchedInit == Init => SchedInv
  BY DEF Init, StreamInit, SchedInv, NoStall, RepliesAgain, WantsCommands, ClosedEmpty

(* A command that is put on the write queue. *)
LEMMA GiveSched ==
  ASSUME TypeOK, SchedInv, NEW s \in Sock, NEW m, Give(s, m)
  PROVE  SchedInv'
<1>1. /\ life' = life /\ srv' = srv /\ wantr' = wantr /\ mwait' = mwait /\ full' = full
      /\ wantw' = wantw /\ rcbWaiting' = rcbWaiting /\ repWait' = repWait
      /\ life[s] = "open" /\ srv[s] = "off"
  BY DEF Give, PutQ, Idle, Quiet, rcbVars
<1>2. /\ \A x \in Sock : enab'[x] = (enab[x] \/ (x = s /\ wantr[s]))
      /\ \A x \in Sock : x # s => wq'[x] = wq[x]
  BY DEF Give, PutQ, TypeOK
<1>3. wq'[s] # <<>>
  <2>1. wq'[s] = Append(wq[s], m)
    BY DEF Give, PutQ, TypeOK
  <2>2. wq[s] \in Seq(Command)
    BY DEF TypeOK
  <2> QED BY <2>1, <2>2
<1>4. NoStall'
  <2> SUFFICES ASSUME NEW x \in Sock, life[x] = "open", srv[x] = "off",
                      repWait[x] # <<>> \/ wq'[x] # <<>>
               PROVE  enab'[x] \/ mwait[x] \/ x \in rcbWaiting \/ (full[x] /\ wantw[x])
    BY <1>1 DEF NoStall
  <2>1. CASE x = s /\ wantr[s]
    BY <1>2, <2>1
  <2>2. CASE x = s /\ ~wantr[s]
    BY <1>1, <1>2, <2>2 DEF SchedInv, NoStall, WantsCommands
  <2>3. CASE x # s
    BY <1>2, <2>3 DEF SchedInv, NoStall
  <2> QED BY <2>1, <2>2, <2>3
<1>5. RepliesAgain'
  BY <1>1, <1>2 DEF SchedInv, RepliesAgain
<1>6. WantsCommands' /\ ClosedEmpty'
  BY <1>1, <1>2, <1>3 DEF SchedInv, WantsCommands, ClosedEmpty
<1> QED BY <1>4, <1>5, <1>6 DEF SchedInv

(* The steps that begin or end a service, and those that schedule one. *)
LEMMA ServiceSched ==
  ASSUME TypeOK, SchedInv, NEW s \in Sock,
         \/ Start(s) \/ ReplyBlocked(s) \/ ReplyNoSpace(s) \/ RepliesDone(s)
         \/ Empty(s) \/ GetNoRcb(s) \/ Fill(s) \/ Drain(s) \/ Wwake(s) \/ Detach(s)
  PROVE  SchedInv'
<1> USE DEF SchedInv, NoStall, RepliesAgain, WantsCommands, ClosedEmpty
<1>0. /\ enab \in [Sock -> BOOLEAN] /\ mwait \in [Sock -> BOOLEAN]
      /\ wantr \in [Sock -> BOOLEAN] /\ full \in [Sock -> BOOLEAN]
      /\ wantw \in [Sock -> BOOLEAN]
      /\ srv \in [Sock -> {"off", "send", "ioctl", "panic"}]
      /\ life \in [Sock -> {"open", "closing", "closed"}]
  BY DEF TypeOK
<1>1. CASE Start(s)
  BY <1>0, <1>1 DEF Start, RunQueue, Quiet, rcbVars
<1>2. CASE ReplyBlocked(s)
  BY <1>0, <1>2 DEF ReplyBlocked, Replying, Blocked, rcbVars
<1>3. CASE ReplyNoSpace(s)
  <2>1. /\ mwait' = [mwait EXCEPT ![s] = TRUE] /\ srv' = [srv EXCEPT ![s] = "off"]
        /\ UNCHANGED <<life, repWait, rcbWaiting, wq, enab, wantr, full, wantw>>
        /\ srv[s] = "send"
    BY <1>3 DEF ReplyNoSpace, MemWait, Replying, rcbVars
  <2> QED BY <1>0, <2>1
<1>4. CASE RepliesDone(s)
  BY <1>0, <1>4 DEF RepliesDone, rcbVars
<1>5. CASE Empty(s)
  BY <1>0, <1>5 DEF Empty, NoCommand, rcbVars
<1>6. CASE GetNoRcb(s)
  BY <1>0, <1>6 DEF GetNoRcb, PutBack, AtGet, At
<1>7. CASE Fill(s) \/ Drain(s)
  BY <1>0, <1>7 DEF Fill, Fills, Drain, Drains, rcbVars
<1>8. CASE Wwake(s) \/ Detach(s)
  BY <1>0, <1>8 DEF Wwake, Wakes, Detach, Detaches, rcbVars, strVars
<1> QED BY <1>1, <1>2, <1>3, <1>4, <1>5, <1>6, <1>7, <1>8

LEMMA CloseOpenSched ==
  ASSUME TypeOK, SchedInv, NEW s \in Sock, AtpClose(s) \/ AtpOpen(s)
  PROVE  SchedInv'
<1> USE DEF SchedInv, NoStall, RepliesAgain, WantsCommands, ClosedEmpty
<1>1. CASE AtpClose(s)
  <2>1. /\ srv' = srv /\ wantr' = wantr /\ full' = full /\ wantw' = wantw
        /\ \A x \in Sock : ~enab[x] /\ srv[x] = "off"
    BY <1>1 DEF AtpClose, CloseQueues, Idle, Quiet
  <2>2. /\ life'[s] # "open" /\ wq'[s] = <<>> /\ repWait'[s] = <<>>
        /\ \A x \in Sock : x # s => /\ life'[x] = life[x] /\ wq'[x] = wq[x]
                                    /\ mwait'[x] = mwait[x] /\ repWait'[x] = repWait[x]
    BY <1>1 DEF AtpClose, CloseQueues, TypeOK
  <2>3. \A x \in Sock : x # s /\ x \in rcbWaiting => x \in rcbWaiting' \/ enab'[x]
    <3> DEFINE own == Active(s) \cup {c \in Rcb : OnList(unattached[s], c)}
    <3> HIDE DEF own
    <3>1. /\ rcbWaiting' = IF own = {} THEN rcbWaiting \ {s} ELSE {}
          /\ enab' = [x \in Sock |-> x \in (IF own = {} THEN {} ELSE rcbWaiting)]
      BY <1>1 DEF AtpClose, CloseQueues, own
    <3> QED BY <3>1
  <2> QED BY <2>1, <2>2, <2>3
<1>2. CASE AtpOpen(s)
  <2>1. /\ enab' = enab /\ srv' = srv /\ mwait' = mwait /\ wq' = wq /\ full' = full
        /\ wantw' = wantw /\ rcbWaiting' = rcbWaiting /\ repWait' = repWait
        /\ wq[s] = <<>> /\ repWait[s] = <<>> /\ srv[s] = "off"
    BY <1>2 DEF AtpOpen, Attaches, Idle, Quiet
  <2>2. /\ wantr'[s]
        /\ \A x \in Sock : x # s => life'[x] = life[x] /\ wantr'[x] = wantr[x]
    BY <1>2 DEF AtpOpen, Attaches, TypeOK
  <2>3. life'[s] = "open"
    BY <1>2 DEF AtpOpen, Attaches, TypeOK
  <2> QED BY <2>1, <2>2, <2>3
<1> QED BY <1>1, <1>2

LEMMA TimeoutSched ==
  ASSUME TypeOK, SchedInv, NEW c \in Rcb, RcbTimeout(c) \/ ClearTimeout(c)
  PROVE  SchedInv'
<1>1. CASE ClearTimeout(c)
  <2>1. ForgetsNone
    BY <1>1 DEF ClearTimeout, strVars, ForgetsNone, Forgets
  <2> QED BY <1>1, <2>1, ForgetsNoneInv DEF ClearTimeout, strVars
<1>2. CASE RcbTimeout(c) /\ c \notin rcbFree
  <2>1. ForgetsNone
    BY <1>2, FreeForgetsNone DEF RcbTimeout
  <2> QED BY <1>2, <2>1, ForgetsNoneInv DEF RcbTimeout
<1>3. CASE RcbTimeout(c) /\ c \in rcbFree
  <2>1. srv' = [s \in Sock |-> "panic"] /\ UNCHANGED <<life, wq, repWait>>
    BY <1>3 DEF RcbTimeout
  <2> QED BY <2>1 DEF SchedInv, NoStall, RepliesAgain, WantsCommands, ClosedEmpty
<1> QED BY <1>1, <1>2, <1>3

LEMMA SchedStep == TypeOK /\ SchedInv /\ [Next]_vars => SchedInv'
<1> SUFFICES ASSUME TypeOK, SchedInv, [Next]_vars PROVE SchedInv'
  OBVIOUS
<1>1. CASE UNCHANGED vars
  BY <1>1 DEF vars, rcbVars, strVars, SchedInv, NoStall, RepliesAgain, WantsCommands,
              ClosedEmpty
<1>2. ASSUME NEW x \in Txn, Respond(x) \/ RespondAgain(x) \/ GiveUp(x) PROVE SchedInv'
  <2>1. \E m : Give(x.sock, m)
    BY <1>2, Zenon DEF Respond, RespondAgain, GiveUp
  <2> QED BY <2>1, GiveSched, TxnType
<1>3. ASSUME NEW x \in Txn,
             \/ \E b \in asks[x] : RequestAgain(x, b) \/ RequestTaken(x, b) \/ RequestHold(x, b)
             \/ RequestHeld(x) \/ RecvRelease(x) \/ \E g \in Seg : Hear(x, g)
      PROVE  SchedInv'
  <2>1. UNCHANGED <<life, mwait, wq, wantr, full, wantw, srv>>
    BY <1>3 DEF RequestAgain, RequestTaken, RequestHold, RequestHeld, RecvRelease, Hear, strVars
  <2> QED BY <1>3, <2>1, ArrivalForgetsNone, ForgetsNoneInv
<1>4. ASSUME NEW s \in Sock, NEW op \in Commands, Ask(s, op) PROVE SchedInv'
  BY <1>4, GiveSched DEF Ask
<1>5. ASSUME NEW s \in Sock,
             Fill(s) \/ Drain(s) \/ Start(s) \/ Wwake(s) \/ AtpClose(s) \/ Detach(s) \/ AtpOpen(s)
      PROVE  SchedInv'
  BY <1>5, ServiceSched, CloseOpenSched
<1>6. ASSUME NEW s \in Sock, Walk(s) PROVE SchedInv'
  <2>1. CASE \/ ReplyBlocked(s) \/ ReplyNoSpace(s) \/ RepliesDone(s)
             \/ Empty(s) \/ GetNoRcb(s)
    BY <2>1, ServiceSched
  <2>2. CASE ReplySegment(s) \/ ReplyDone(s)
    <3>1. UNCHANGED <<life, mwait, wq, wantr, full, wantw, srv>>
      BY <2>2 DEF ReplySegment, ReplyDone, strVars
    <3> QED BY <2>2, <3>1, ReplyForgetsNone, ForgetsNoneInv
  <2>3. CASE \/ PollTake(s) \/ PollEmpty(s) \/ NoSuchRequest(s) \/ SetFinish(s)
             \/ \E c \in Rcb : \/ GetTooMany(s, c) \/ GetNoWait(s, c) \/ GetHeld(s, c)
                               \/ GetWait(s, c) \/ SendResponse(s, c) \/ ReleaseResponse(s, c)
    <3>1. /\ UNCHANGED <<life, mwait, full, wantw, srv>>
          /\ srv[s] = "ioctl" /\ wq[s] # <<>> /\ TakeCommand(s)
      BY <2>3 DEF PollTake, PollEmpty, NoSuchRequest, SetFinish, GetTooMany, GetNoWait, GetHeld,
                  GetWait, SendResponse, ReleaseResponse, At
    <3> QED BY <2>3, <3>1, CommandForgetsNone, ForgetsNoneInv
  <2> QED BY <1>6, <2>1, <2>2, <2>3 DEF Walk
<1>7. ASSUME NEW c \in Rcb, RcbTimeout(c) \/ ClearTimeout(c) PROVE SchedInv'
  BY <1>7, TimeoutSched
<1> QED BY <1>1, <1>2, <1>3, <1>4, <1>5, <1>6, <1>7 DEF Next

(* No open socket with a reply to send or a command to serve is forgotten: it is *)
(* scheduled, or waits for memory, for an rcb or for the queue downstream.       *)
THEOREM NeverStalls == Spec => []NoStall
<1>1. Init => SchedInv
  BY SchedInit
<1>2. TypeOK /\ SchedInv /\ [Next]_vars => SchedInv'
  BY SchedStep
<1>3. SchedInv => NoStall
  BY DEF SchedInv
<1> QED BY <1>1, <1>2, <1>3, TypeCorrect, PTL DEF Spec

-----------------------------------------------------------------------------
(* The pool. *)

(* An rcb that is freed, and a step that takes none, keep the sockets from *)
(* waiting for what there is.                                              *)
LEMMA FreeWakes ==
  ASSUME NoLostWakeup, WakeWaiting \/ UNCHANGED <<rcbFree, rcbWaiting>>
  PROVE  NoLostWakeup'
  BY DEF NoLostWakeup, WakeWaiting

(* A socket waits for an rcb only while there is none, however many sockets   *)
(* share the pool: the wakeup of atp_rcb_free reaches every one that waits.   *)
THEOREM WakeupNotLost == Spec => []NoLostWakeup
<1>1. Init => NoLostWakeup
  BY DEF Init, NoLostWakeup
<1>2. NoLostWakeup /\ [Next]_vars => NoLostWakeup'
  <2> SUFFICES ASSUME NoLostWakeup, [Next]_vars PROVE NoLostWakeup'
    OBVIOUS
  <2>1. CASE UNCHANGED vars
    BY <2>1, FreeWakes DEF vars, rcbVars
  <2>2. ASSUME NEW x \in Txn,
               \/ Respond(x) \/ RespondAgain(x) \/ GiveUp(x) \/ \E g \in Seg : Hear(x, g)
               \/ \E b \in asks[x] : RequestAgain(x, b) \/ RequestTaken(x, b) \/ RequestHold(x, b)
               \/ RequestHeld(x) \/ RecvRelease(x)
        PROVE  NoLostWakeup'
    <3>1. CASE Respond(x) \/ RespondAgain(x) \/ GiveUp(x) \/ \E g \in Seg : Hear(x, g)
      BY <3>1, FreeWakes DEF Respond, RespondAgain, GiveUp, Give, Hear, rcbVars
    <3>2. CASE \/ \E b \in asks[x] :
                    RequestAgain(x, b) \/ RequestTaken(x, b) \/ RequestHold(x, b)
               \/ RequestHeld(x)
      BY <3>2, FreeWakes DEF RequestAgain, RequestTaken, RequestHold, RequestHeld
    <3>3. CASE RecvRelease(x)
      BY <3>3, FreeWakes DEF RecvRelease, RcbFree
    <3> QED BY <2>2, <3>1, <3>2, <3>3
  <2>3. ASSUME NEW s \in Sock,
               \/ \E op \in Commands : Ask(s, op)
               \/ Fill(s) \/ Drain(s) \/ Start(s) \/ Wwake(s) \/ Detach(s) \/ AtpOpen(s)
        PROVE  NoLostWakeup'
    BY <2>3, FreeWakes DEF Ask, Give, Fill, Drain, Start, Wwake, Detach, AtpOpen, rcbVars
  <2>4. ASSUME NEW s \in Sock,
               \/ ReplyBlocked(s) \/ ReplyNoSpace(s) \/ ReplySegment(s) \/ ReplyDone(s)
               \/ RepliesDone(s) \/ Empty(s) \/ PollTake(s) \/ PollEmpty(s) \/ NoSuchRequest(s)
               \/ SetFinish(s) \/ \E c \in Rcb : ReleaseResponse(s, c) \/ SendResponse(s, c)
        PROVE  NoLostWakeup'
    BY <2>4, FreeWakes DEF ReplyBlocked, ReplyNoSpace, ReplySegment, ReplyDone, RepliesDone,
                           Empty, PollTake, PollEmpty, NoSuchRequest, SetFinish,
                           ReleaseResponse, SendResponse, RcbFree, rcbVars
  <2>5. ASSUME NEW s \in Sock, GetNoRcb(s) PROVE NoLostWakeup'
    BY <2>5 DEF GetNoRcb, NoLostWakeup
  <2>6. ASSUME NEW s \in Sock, NEW c \in Rcb,
               GetTooMany(s, c) \/ GetNoWait(s, c) \/ GetHeld(s, c) \/ GetWait(s, c)
        PROVE  NoLostWakeup'
    BY <2>6 DEF GetTooMany, GetNoWait, GetHeld, GetWait, AllocRcb, NoLostWakeup
  <2>7. ASSUME NEW s \in Sock, AtpClose(s) PROVE NoLostWakeup'
    BY <2>7 DEF AtpClose, NoLostWakeup
  <2>8. ASSUME NEW c \in Rcb, RcbTimeout(c) \/ ClearTimeout(c) PROVE NoLostWakeup'
    BY <2>8, FreeWakes DEF RcbTimeout, ClearTimeout, RcbFree
  <2> QED BY <2>1, <2>2, <2>3, <2>4, <2>5, <2>6, <2>7, <2>8 DEF Next, Walk
<1> QED BY <1>1, <1>2, PTL DEF Spec
=============================================================================
