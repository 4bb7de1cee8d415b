--------------------------- MODULE AtpReplyProofs ---------------------------
(***************************************************************************)
(* Theorems about the requests AtpResponder answers, for any number of     *)
(* sockets, reply control blocks and transactions: no request is given to  *)
(* two processes or kept from one that waits, what the requester has not   *)
(* heard is kept for it, every rcb that is in use has what will free it,   *)
(* and the list of replies to send is exact.                               *)
(*                                                                         *)
(* None of these is inductive.  The invariant says of each rcb what it     *)
(* holds in each state and where it is listed, of each two rcbs that they  *)
(* do not hold the same request, and of each requester what the bitmaps of *)
(* its requests have to do with the segments it misses.                    *)
(***************************************************************************)
EXTENDS AtpResponderProofs

-----------------------------------------------------------------------------
(* The inductive invariant. *)

Unattached == {"IOCTL", "NW", "FULL"}
InProgress == {"RESPONDING", "RESPONSE_FULL"}
Holds      == {"FULL"} \cup InProgress

(* The segments a requester misses, or asks for in every request it may have  *)
(* under way: no request to come can tell the responder that it has them.     *)
Needed(x) == {g \in Seg : g \in missing[x] \/ (asks[x] # {} /\ \A b \in asks[x] : g \in b)}

(* What an rcb is in its state, with the timer of a request that is held. *)
Own(c) ==
    /\ c \in rcbFree <=> rcb[c].state = "FREE"
    /\ rcb[c].state # "FREE" => rcb[c].queue \in Sock
    /\ rcb[c].state \notin InProgress => rcb[c].xmt = {} /\ rcb[c].sent = {}
    /\ rcb[c].state \in Holds => rcb[c].txn \in Txn /\ rcb[c].txn.sock = rcb[c].queue
    /\ rcb[c].state = "FULL" => rcb[c].notSent # {}
    /\ clearTimer[c] = IF rcb[c].state = "FULL" THEN 1 ELSE 0

(* What is needed and was sent is kept; what is needed of the response and was *)
(* not sent is yet to be.                                                      *)
Kept(c) == rcb[c].state \in Holds => \A x \in Txn : x = rcb[c].txn =>
    \A g \in Needed(x) :
        /\ g \in rcb[c].sent => g \in rcb[c].xmt
        /\ g < x.resp => g \in rcb[c].notSent \cup rcb[c].sent

(* The lists it is on, and what waits for a request that has been answered. *)
Placed(c) == \A s \in Sock :
    /\ OnList(unattached[s], c) <=> rcb[c].queue = s /\ rcb[c].state \in Unattached
    /\ OnList(repWait[s], c) => c \in Active(s)
    /\ c \in Active(s) /\ rcb[c].snd \cap rcb[c].xmt # {} => OnList(repWait[s], c)
    /\ c \in Active(s) /\ rcb[c].notSent = {} /\ ~OnList(repWait[s], c) =>
           rcb[c].txn.xo /\ rcbTimer[c] > 0

Good(c) == Own(c) /\ Kept(c) /\ Placed(c)

(* Two rcbs do not hold the same request, nor does one wait while the other *)
(* of the same socket holds one.                                            *)
Apart(c, d) ==
    /\ rcb[c].state \in Holds /\ rcb[d].state \in Holds => rcb[c].txn # rcb[d].txn
    /\ rcb[c].state = "IOCTL" /\ rcb[d].state = "FULL" => rcb[c].queue # rcb[d].queue

(* Every request under way asks for what is missing, all of them for one       *)
(* segment of the response at least, and what is missing is of the response or *)
(* goes when its end is heard.                                                 *)
Peer(x) ==
    /\ \A b \in asks[x] : missing[x] \subseteq b
    /\ asks[x] # {} => \E g \in 0 .. x.resp - 1 : \A b \in asks[x] : g \in b
    /\ missing[x] \subseteq 0 .. x.resp - 1 \/ (x.eof /\ x.resp - 1 \in missing[x])

RcbsGood  == \A c \in Rcb : Good(c)
RcbsApart == \A c, d \in Rcb : c # d => Apart(c, d)
Peers     == \A x \in Txn : Peer(x)
Distincts == \A s \in Sock : Distinct(unattached[s]) /\ Distinct(repWait[s])

IInv == RcbsGood /\ RcbsApart /\ Peers /\ Distincts /\ FinishPending

-----------------------------------------------------------------------------
(* What the properties need of it. *)

(* The rcbs waiting in a state are those of the socket in the state. *)
LEMMA WaitingStates ==
  ASSUME RcbsGood, NEW s \in Sock, NEW state \in Unattached
  PROVE  Waiting(s, state) = {c \in Rcb : rcb[c].queue = s /\ rcb[c].state = state}
  BY DEF Waiting, RcbsGood, Good, Placed

LEMMA IInvImplies ==
  ASSUME TypeOK, IInv
  PROVE  NoTwins /\ NoneOverlooked /\ HeldUntilHeard /\ TimersRun /\ ReplyListExact
         /\ FinishPending
<1>1. NoTwins
  BY DEF IInv, RcbsApart, Apart, Holds, InProgress, NoTwins
<1>2. NoneOverlooked
  <2> SUFFICES ASSUME NEW s \in Sock, NEW c \in Waiting(s, "IOCTL"), NEW d \in Waiting(s, "FULL")
               PROVE  FALSE
    BY DEF NoneOverlooked
  <2>1. /\ c \in Rcb /\ rcb[c].queue = s /\ rcb[c].state = "IOCTL"
        /\ d \in Rcb /\ rcb[d].queue = s /\ rcb[d].state = "FULL"
    BY WaitingStates DEF IInv, Unattached
  <2> QED BY <2>1 DEF IInv, RcbsApart, Apart
<1>3. HeldUntilHeard
  <2> SUFFICES ASSUME NEW s \in Sock, NEW c \in Active(s), NEW g \in rcb[c].sent,
                      g \in missing[rcb[c].txn]
               PROVE  g \in rcb[c].xmt
    BY DEF HeldUntilHeard
  <2>1. c \in Rcb /\ rcb[c].state \in Holds /\ Own(c) /\ Kept(c)
    BY DEF Active, Holds, InProgress, IInv, RcbsGood, Good
  <2>2. rcb[c].txn \in Txn
    BY <2>1 DEF Own
  <2>3. g \in Needed(rcb[c].txn)
    BY <2>2 DEF Needed, TypeOK
  <2> QED BY <2>1, <2>2, <2>3 DEF Kept
<1>4. TimersRun
  <2> SUFFICES ASSUME NEW c \in Rcb
               PROVE  /\ c \in Active(rcb[c].queue) /\ rcb[c].notSent = {}
                            /\ ~OnList(repWait[rcb[c].queue], c) =>
                          rcb[c].txn.xo /\ rcbTimer[c] > 0
                      /\ clearTimer[c] = IF rcb[c].state = "FULL" THEN 1 ELSE 0
    BY DEF TimersRun
  <2>1. Own(c) /\ Placed(c)
    BY DEF IInv, RcbsGood, Good
  <2>2. c \in Active(rcb[c].queue) => rcb[c].queue \in Sock
    BY <2>1 DEF Own, Active
  <2>3. clearTimer[c] = IF rcb[c].state = "FULL" THEN 1 ELSE 0
    BY <2>1 DEF Own
  <2> QED BY <2>1, <2>2, <2>3 DEF Placed
<1>5. ReplyListExact
  <2> SUFFICES ASSUME NEW s \in Sock
               PROVE  /\ \A i, j \in 1 .. Len(repWait[s]) : repWait[s][i] = repWait[s][j] => i = j
                      /\ \A i \in 1 .. Len(repWait[s]) : repWait[s][i] \in Active(s)
                      /\ \A c \in Active(s) :
                           rcb[c].snd \cap rcb[c].xmt # {} => OnList(repWait[s], c)
    BY DEF ReplyListExact
  <2>1. \A i, j \in 1 .. Len(repWait[s]) : repWait[s][i] = repWait[s][j] => i = j
    BY DEF IInv, Distincts, Distinct
  <2>2. \A c \in Rcb : Placed(c)
    BY DEF IInv, RcbsGood, Good
  <2>3. ASSUME NEW i \in 1 .. Len(repWait[s]) PROVE repWait[s][i] \in Active(s)
    <3>1. repWait[s] \in Seq(Rcb)
      BY DEF TypeOK
    <3>2. repWait[s][i] \in Rcb /\ OnList(repWait[s], repWait[s][i])
      BY <3>1 DEF OnList
    <3> QED BY <2>2, <3>2 DEF Placed
  <2>4. \A c \in Active(s) : rcb[c].snd \cap rcb[c].xmt # {} => OnList(repWait[s], c)
    BY <2>2 DEF Placed, Active
  <2> QED BY <2>1, <2>3, <2>4
<1> QED BY <1>1, <1>2, <1>3, <1>4, <1>5 DEF IInv

LEMMA IInvInit == TypeOK /\ Init => IInv
<1> SUFFICES ASSUME TypeOK, Init PROVE IInv
  OBVIOUS
<1>1. \A c \in Rcb : rcb[c] = NewRcb
  BY DEF Init
<1>2. \A s \in Sock : Active(s) = {}
  BY <1>1 DEF Active, NewRcb
<1>3. RcbsGood
  <2> SUFFICES ASSUME NEW c \in Rcb PROVE Good(c)
    BY DEF RcbsGood
  <2>1. Own(c) /\ Kept(c)
    BY <1>1 DEF Init, NewRcb, Own, Kept, Holds, InProgress
  <2>2. \A s \in Sock : ~OnList(unattached[s], c) /\ ~OnList(repWait[s], c)
    BY EmptyList DEF Init
  <2> QED BY <1>1, <1>2, <2>1, <2>2 DEF Good, Placed, NewRcb, Unattached
<1>4. RcbsApart
  BY <1>1 DEF RcbsApart, Apart, NewRcb, Holds, InProgress
<1>5. Peers
  <2> SUFFICES ASSUME NEW x \in Txn PROVE Peer(x)
    BY DEF Peers
  <2>1. missing[x] = 0 .. x.ask - 1 /\ asks[x] = {0 .. x.ask - 1}
    BY DEF Init
  <2>2. /\ x.ask \in 1 .. 8 /\ x.resp \in 1 .. 8 /\ x.resp <= x.ask
        /\ x.eof \in BOOLEAN /\ (~x.eof => x.resp = x.ask)
    BY TxnAssumption
  <2>3. 0 \in 0 .. x.resp - 1 /\ 0 \in 0 .. x.ask - 1 /\ x.resp - 1 \in 0 .. x.ask - 1
    BY <2>2
  <2> QED BY <2>1, <2>2, <2>3 DEF Peer
<1>6. Distincts
  BY EmptyList DEF Init, Distincts
<1>7. FinishPending
  BY DEF Init, FinishPending
<1> QED BY <1>3, <1>4, <1>5, <1>6, <1>7 DEF IInv

-----------------------------------------------------------------------------
(* Steps that leave rcbs alone. *)

Same(d) ==
    /\ rcb'[d] = rcb[d] /\ (d \in rcbFree' <=> d \in rcbFree)
    /\ clearTimer'[d] = clearTimer[d] /\ rcbTimer'[d] = rcbTimer[d]
    /\ \A s \in Sock : /\ OnList(unattached'[s], d) <=> OnList(unattached[s], d)
                       /\ OnList(repWait'[s], d) <=> OnList(repWait[s], d)

(* No requester comes to need more. *)
NeedsNoMore == \A x \in Txn : Needed(x)' \subseteq Needed(x)

LEMMA SameGood ==
  ASSUME NEW d \in Rcb, Good(d), Same(d), NeedsNoMore
  PROVE  Good(d)'
<1>1. Own(d)'
  BY DEF Good, Same, Own
<1>2. Kept(d)'
  BY DEF Good, Same, Kept, NeedsNoMore
<1>3. \A s \in Sock : d \in Active(s)' <=> d \in Active(s)
  BY DEF Same, Active
<1>4. Placed(d)'
  BY <1>3 DEF Good, Same, Placed
<1> QED BY <1>1, <1>2, <1>4 DEF Good

(* The rest of the invariant survives a step that changes the rcbs of C, if   *)
(* these keep to it.                                                          *)
LEMMA OthersSame ==
  ASSUME IInv, NEW C \in SUBSET Rcb, NeedsNoMore,
         \A d \in Rcb \ C : Same(d),
         \A c \in C : Good(c)',
         \A c \in C : \A d \in Rcb : c # d => Apart(c, d)' /\ Apart(d, c)'
  PROVE  RcbsGood' /\ RcbsApart'
<1>1. RcbsGood'
  BY SameGood DEF IInv, RcbsGood
<1>2. RcbsApart'
  <2> SUFFICES ASSUME NEW c \in Rcb, NEW d \in Rcb, c # d PROVE Apart(c, d)'
    BY DEF RcbsApart
  <2>1. CASE c \in C \/ d \in C
    BY <2>1
  <2>2. CASE c \notin C /\ d \notin C
    <3>1. rcb'[c] = rcb[c] /\ rcb'[d] = rcb[d] /\ Apart(c, d)
      BY <2>2 DEF Same, IInv, RcbsApart
    <3> QED BY <3>1 DEF Apart
  <2> QED BY <2>1, <2>2
<1> QED BY <1>1, <1>2

LEMMA OneOther ==
  ASSUME IInv, NEW c \in Rcb, NeedsNoMore,
         \A d \in Rcb \ {c} : Same(d),
         Good(c)',
         \A d \in Rcb : c # d => Apart(c, d)' /\ Apart(d, c)'
  PROVE  RcbsGood' /\ RcbsApart'
<1>1. {c} \in SUBSET Rcb
  OBVIOUS
<1>2. \A e \in {c} : Good(e)'
  OBVIOUS
<1>3. \A e \in {c} : \A d \in Rcb : e # d => Apart(e, d)' /\ Apart(d, e)'
  OBVIOUS
<1> QED BY <1>1, <1>2, <1>3, OthersSame

LEMMA NeedsSame ==
  ASSUME UNCHANGED peerVars
  PROVE  NeedsNoMore /\ (Peers => Peers')
  BY DEF peerVars, NeedsNoMore, Needed, Peers, Peer

(* A request in progress stays so: a SET_FINISH may stay pending. *)
LEMMA FinishKept ==
  ASSUME FinishPending, UNCHANGED finish, \A s \in Sock : Active(s) \subseteq Active(s)'
  PROVE  FinishPending'
  BY DEF FinishPending

-----------------------------------------------------------------------------
(* The requester. *)

LEMMA HearPeer ==
  ASSUME TypeOK, Peers, NEW x \in Txn, NEW g \in Seg, Hear(x, g)
  PROVE  NeedsNoMore /\ Peers'
<1> DEFINE left == IF x.eof /\ g = x.resp - 1 THEN {h \in missing[x] : h < g}
                                              ELSE missing[x] \ {g}
<1>1. left \subseteq missing[x] /\ g \notin left
  BY DEF TypeOK, Seg
<1>2. left \subseteq 0 .. x.resp - 1 \/ (x.eof /\ x.resp - 1 \in left)
  <2>1. missing[x] \subseteq 0 .. x.resp - 1 \/ (x.eof /\ x.resp - 1 \in missing[x])
    BY DEF Peers, Peer
  <2>2. x.resp \in 1 .. 8 /\ missing[x] \subseteq Seg
    BY TxnType DEF TypeOK
  <2> QED BY <2>1, <2>2 DEF Seg
<1> HIDE DEF left
<1>3. /\ missing' = [missing EXCEPT ![x] = left]
      /\ asks' = [asks EXCEPT ![x] = @ \cup ({left} \ {{}})]
  BY DEF Hear, left
<1>4. /\ missing'[x] = left /\ asks'[x] = asks[x] \cup ({left} \ {{}})
      /\ \A y \in Txn : y # x => missing'[y] = missing[y] /\ asks'[y] = asks[y]
  BY <1>3 DEF TypeOK
<1>5. NeedsNoMore
  <2> SUFFICES ASSUME NEW y \in Txn, NEW h \in Seg,
                      h \in missing'[y] \/ (asks'[y] # {} /\ \A b \in asks'[y] : h \in b)
               PROVE  h \in missing[y] \/ (asks[y] # {} /\ \A b \in asks[y] : h \in b)
    BY DEF NeedsNoMore, Needed
  <2>1. CASE y # x
    BY <1>4, <2>1
  <2>2. CASE y = x
    BY <1>1, <1>4, <2>2
  <2> QED BY <2>1, <2>2
<1>6. Peers'
  <2> SUFFICES ASSUME NEW y \in Txn PROVE Peer(y)'
    BY DEF Peers
  <2>1. CASE y # x
    BY <1>4, <2>1 DEF Peers, Peer
  <2>2. CASE y = x
    <3>1. Peer(x)
      BY DEF Peers
    <3>2. \A b \in asks'[x] : missing'[x] \subseteq b
      BY <1>1, <1>4, <3>1 DEF Peer
    <3>3. asks'[x] # {} => \E h \in 0 .. x.resp - 1 : \A b \in asks'[x] : h \in b
      <4>1. CASE left = {}
        BY <1>4, <3>1, <4>1 DEF Peer
      <4>2. CASE left # {}
        <5>1. x.resp \in 1 .. 8
          BY TxnType
        <5>2. PICK h \in 0 .. x.resp - 1 : h \in left
          BY <1>2, <4>2, <5>1
        <5> QED BY <1>4, <3>2, <5>2
      <4> QED BY <4>1, <4>2
    <3> QED BY <1>2, <1>4, <2>2, <3>2, <3>3 DEF Peer
  <2> QED BY <2>1, <2>2
<1> QED BY <1>5, <1>6

LEMMA EndedPeer ==
  ASSUME TypeOK, Peers, NEW x \in Txn, Ended(x)
  PROVE  NeedsNoMore /\ Peers'
<1>1. missing' = missing /\ asks' = [asks EXCEPT ![x] = {}]
  BY DEF Ended
<1>2. \A y \in Txn : asks'[y] = {} \/ asks'[y] = asks[y]
  BY <1>1 DEF TypeOK
<1>3. NeedsNoMore
  BY <1>1, <1>2 DEF NeedsNoMore, Needed
<1>4. Peers'
  BY <1>1, <1>2 DEF Peers, Peer
<1> QED BY <1>3, <1>4

-----------------------------------------------------------------------------
(* What may become of one rcb. *)

(* One that holds no request, and waits for none, is no other's concern. *)
LEMMA IdleApart ==
  ASSUME NEW c \in Rcb, rcb'[c].state \notin Holds \cup {"IOCTL"}
  PROVE  \A d \in Rcb : Apart(c, d)' /\ Apart(d, c)'
  BY DEF Apart, Holds

(* One whose request is in progress has it for itself if it had it before. *)
LEMMA HolderApart ==
  ASSUME RcbsApart, NEW c \in Rcb, rcb[c].state \in Holds, rcb'[c].state \in InProgress,
         rcb'[c].txn = rcb[c].txn
  PROVE  \A d \in Rcb : c # d /\ rcb'[d] = rcb[d] => Apart(c, d)' /\ Apart(d, c)'
<1> SUFFICES ASSUME NEW d \in Rcb, c # d, rcb'[d] = rcb[d] PROVE Apart(c, d)' /\ Apart(d, c)'
  OBVIOUS
<1>1. Apart(c, d) /\ Apart(d, c)
  BY DEF RcbsApart
<1> QED BY <1>1 DEF Apart, InProgress

(* One that is freed, with its timers and its place on the lists. *)
LEMMA FreedGood ==
  ASSUME NEW c \in Rcb, rcb'[c].state = "FREE", c \in rcbFree', clearTimer'[c] = 0,
         rcb'[c].xmt = {}, rcb'[c].sent = {},
         \A s \in Sock : ~OnList(unattached'[s], c) /\ ~OnList(repWait'[s], c)
  PROVE  Good(c)'
  BY DEF Good, Own, Kept, Placed, Active, Holds, InProgress, Unattached

(* The lists of one socket without c. *)
LEMMA ListsWithout ==
  ASSUME NEW q \in [Sock -> Seq(Rcb)], NEW s \in Sock, NEW c,
         \A y \in Sock : Distinct(q[y])
  PROVE  LET w == [q EXCEPT ![s] = Without(@, c)]
         IN  /\ \A y \in Sock : Distinct(w[y])
             /\ ~OnList(w[s], c)
             /\ \A y \in Sock : y # s => w[y] = q[y]
             /\ \A y \in Sock : \A d : d # c => (OnList(w[y], d) <=> OnList(q[y], d))
<1> DEFINE w == [q EXCEPT ![s] = Without(@, c)]
<1>1. w[s] = Without(q[s], c) /\ \A y \in Sock : y # s => w[y] = q[y]
  OBVIOUS
<1>2. q[s] \in Seq(Rcb)
  OBVIOUS
<1>3. /\ Distinct(w[s]) /\ ~OnList(w[s], c)
      /\ \A d : d # c => (OnList(w[s], d) <=> OnList(q[s], d))
  BY <1>1, <1>2, WithoutOthers
<1> HIDE DEF w
<1> QED BY <1>1, <1>3 DEF w

LEMMA ListsAppend ==
  ASSUME NEW q \in [Sock -> Seq(Rcb)], NEW s \in Sock, NEW c \in Rcb,
         \A y \in Sock : Distinct(q[y]), ~OnList(q[s], c)
  PROVE  LET w == [q EXCEPT ![s] = Append(@, c)]
         IN  /\ \A y \in Sock : Distinct(w[y])
             /\ OnList(w[s], c)
             /\ \A y \in Sock : y # s => w[y] = q[y]
             /\ \A y \in Sock : \A d : d # c => (OnList(w[y], d) <=> OnList(q[y], d))
<1> DEFINE w == [q EXCEPT ![s] = Append(@, c)]
<1>1. w[s] = Append(q[s], c) /\ \A y \in Sock : y # s => w[y] = q[y]
  OBVIOUS
<1>2. q[s] \in Seq(Rcb)
  OBVIOUS
<1>3. /\ Distinct(w[s]) /\ OnList(w[s], c)
      /\ \A d : d # c => (OnList(w[s], d) <=> OnList(q[s], d))
  BY <1>1, <1>2, AppendOthers
<1> HIDE DEF w
<1> QED BY <1>1, <1>3 DEF w

(* An rcb that is freed. *)
LEMMA FreeInv ==
  ASSUME TypeOK, IInv, NEW c \in Rcb, rcb[c].state # "FREE", NEW timers,
         timers \in [Rcb -> Nat], \A d \in Rcb : d # c => timers[d] = rcbTimer[d],
         RcbFree(c, timers), NeedsNoMore, Peers'
  PROVE  IInv'
<1> DEFINE s == rcb[c].queue
<1>1. Good(c)
  BY DEF IInv, RcbsGood
<1>2. s \in Sock
  BY <1>1 DEF Good, Own
<1>3. /\ repWait' = [repWait EXCEPT ![s] = Without(@, c)]
      /\ unattached' = [unattached EXCEPT ![s] = Without(@, c)]
      /\ rcbFree' = rcbFree \cup {c}
      /\ rcb' = [rcb EXCEPT ![c] = Freed(@)]
      /\ clearTimer' = IF rcb[c].state = "FULL"
                       THEN [clearTimer EXCEPT ![c] = Untimeout(@)] ELSE clearTimer
      /\ finish' = [finish EXCEPT ![s] = @ /\ Active(s) \ {c} # {}]
      /\ rcbTimer' = timers \/ rcbTimer' = [timers EXCEPT ![c] = Untimeout(@)]
  BY DEF RcbFree
<1> HIDE DEF s
<1>4. /\ repWait \in [Sock -> Seq(Rcb)] /\ unattached \in [Sock -> Seq(Rcb)]
      /\ \A y \in Sock : Distinct(repWait[y]) /\ Distinct(unattached[y])
  BY DEF TypeOK, IInv, Distincts
<1>5. /\ \A y \in Sock : Distinct(repWait'[y])
      /\ ~OnList(repWait'[s], c) /\ \A y \in Sock : y # s => repWait'[y] = repWait[y]
      /\ \A y \in Sock, d \in Rcb : d # c => (OnList(repWait'[y], d) <=> OnList(repWait[y], d))
  BY <1>2, <1>3, <1>4, ListsWithout
<1>6. /\ \A y \in Sock : Distinct(unattached'[y])
      /\ ~OnList(unattached'[s], c) /\ \A y \in Sock : y # s => unattached'[y] = unattached[y]
      /\ \A y \in Sock, d \in Rcb :
           d # c => (OnList(unattached'[y], d) <=> OnList(unattached[y], d))
  BY <1>2, <1>3, <1>4, ListsWithout
<1>7. \A d \in Rcb \ {c} : Same(d)
  <2> SUFFICES ASSUME NEW d \in Rcb, d # c PROVE Same(d)
    OBVIOUS
  <2>1. rcb'[d] = rcb[d] /\ (d \in rcbFree' <=> d \in rcbFree)
    BY <1>3 DEF TypeOK
  <2>2. clearTimer'[d] = clearTimer[d] /\ rcbTimer'[d] = rcbTimer[d]
    BY <1>3 DEF TypeOK
  <2> QED BY <1>5, <1>6, <2>1, <2>2 DEF Same
<1>8. rcb'[c] = Freed(rcb[c])
  BY <1>3 DEF TypeOK
<1>9. clearTimer'[c] = 0
  <2>1. clearTimer[c] = IF rcb[c].state = "FULL" THEN 1 ELSE 0
    BY <1>1 DEF Good, Own
  <2> QED BY <1>3, <2>1 DEF TypeOK, Untimeout
<1>10. \A y \in Sock : ~OnList(unattached'[y], c) /\ ~OnList(repWait'[y], c)
  <2>1. \A y \in Sock : y # s => ~OnList(unattached[y], c) /\ ~OnList(repWait[y], c)
    BY <1>1 DEF Good, Placed, Active, s
  <2> QED BY <1>5, <1>6, <2>1
<1>11. Good(c)'
  <2>1. rcb'[c].state = "FREE" /\ rcb'[c].xmt = {} /\ rcb'[c].sent = {}
    BY <1>8 DEF Freed
  <2> QED BY <1>3, <1>9, <1>10, <2>1, FreedGood
<1>12. \A d \in Rcb : Apart(c, d)' /\ Apart(d, c)'
  <2>1. rcb'[c].state \notin Holds \cup {"IOCTL"}
    BY <1>8 DEF Freed, Holds, InProgress
  <2> QED BY <2>1, IdleApart
<1>13. RcbsGood' /\ RcbsApart'
  BY <1>7, <1>11, <1>12, OneOther
<1>14. FinishPending'
  <2> SUFFICES ASSUME NEW y \in Sock, finish'[y] PROVE Active(y)' # {}
    BY DEF FinishPending
  <2>1. Active(y) \ {c} \subseteq Active(y)'
    BY <1>7 DEF Same, Active
  <2>2. CASE y = s
    BY <1>2, <1>3, <2>1, <2>2 DEF TypeOK
  <2>3. CASE y # s
    <3>1. c \notin Active(y)
      BY <2>3 DEF Active, s
    <3>2. finish[y]
      BY <1>3, <2>3 DEF TypeOK
    <3> QED BY <2>1, <3>1, <3>2 DEF IInv, FinishPending
  <2> QED BY <2>2, <2>3
<1>15. Distincts'
  BY <1>5, <1>6 DEF Distincts
<1> QED BY <1>13, <1>14, <1>15 DEF IInv

(* The three that free an rcb of a request in progress, and the timer. *)
LEMMA ActiveInUse ==
  ASSUME TypeOK, NEW s \in Sock, NEW c \in Active(s), RcbFree(c, rcbTimer),
         IInv, NeedsNoMore, Peers'
  PROVE  IInv'
<1>1. c \in Rcb /\ rcb[c].state # "FREE"
  BY DEF Active
<1>2. rcbTimer \in [Rcb -> Nat]
  BY DEF TypeOK
<1> QED BY <1>1, <1>2, FreeInv

-----------------------------------------------------------------------------
(* Requests that arrive. *)

(* A reply that is queued is on the list, once, and no other is moved. *)
LEMMA QueueReplyLists ==
  ASSUME TypeOK, Distincts, NEW s \in Sock, NEW c \in Rcb, QueueReply(s, c)
  PROVE  /\ \A y \in Sock : Distinct(repWait'[y])
         /\ OnList(repWait'[s], c)
         /\ \A y \in Sock : y # s => repWait'[y] = repWait[y]
         /\ \A y \in Sock : \A d : d # c => (OnList(repWait'[y], d) <=> OnList(repWait[y], d))
<1>1. repWait \in [Sock -> Seq(Rcb)] /\ \A y \in Sock : Distinct(repWait[y])
  BY DEF TypeOK, Distincts
<1>2. CASE OnList(repWait[s], c)
  BY <1>1, <1>2 DEF QueueReply
<1>3. CASE ~OnList(repWait[s], c)
  <2>1. repWait' = [repWait EXCEPT ![s] = Append(@, c)]
    BY <1>3 DEF QueueReply
  <2> QED BY <1>1, <1>3, <2>1, ListsAppend
<1> QED BY <1>2, <1>3

(* What a request under way asks for. *)
LEMMA AskedFor ==
  ASSUME TypeOK, Peers, NEW x \in Txn, NEW b \in asks[x]
  PROVE  /\ b \in SUBSET Seg /\ Needed(x) \subseteq b
         /\ \E g \in Needed(x) : g \in 0 .. x.resp - 1
<1>1. Peer(x) /\ b \in SUBSET Seg
  BY DEF Peers, TypeOK
<1>2. Needed(x) \subseteq b
  BY <1>1 DEF Needed, Peer
<1>3. PICK g \in 0 .. x.resp - 1 : \A a \in asks[x] : g \in a
  BY <1>1 DEF Peer
<1>4. g \in Needed(x)
  BY <1>1, <1>3 DEF Needed
<1> QED BY <1>1, <1>2, <1>3, <1>4

LEMMA AgainInv ==
  ASSUME TypeOK, IInv, NEW x \in Txn, NEW b \in asks[x], RequestAgain(x, b)
  PROVE  IInv'
<1> DEFINE s == x.sock
<1>1. PICK c \in Active(s) : /\ rcb[c].txn = x
                             /\ AtpReply(s, c, b)
                             /\ rcbTimer' = [rcbTimer EXCEPT ![c] = Untimeout(@)]
  BY DEF RequestAgain
<1>2. UNCHANGED <<rcbFree, unattached, finish, clearTimer, peerVars>>
  BY DEF RequestAgain
<1> DEFINE again == rcb[c].xmt \cap b
<1>3. s \in Sock /\ c \in Rcb /\ rcb[c] \in RcbRecord /\ rcb[c].queue = s
  BY TxnType DEF Active, TypeOK
<1>4. /\ \A d \in Rcb : d # c => rcb'[d] = rcb[d]
      /\ rcb'[c].state = rcb[c].state /\ rcb'[c].queue = rcb[c].queue
      /\ rcb'[c].txn = rcb[c].txn /\ rcb'[c].notSent = rcb[c].notSent
      /\ rcb'[c].sent = rcb[c].sent /\ rcb'[c].xmt = again
  BY <1>1, <1>3 DEF AtpReply, TypeOK, RcbRecord
<1>5. IF again = {} THEN repWait' = repWait ELSE QueueReply(s, c)
  BY <1>1 DEF AtpReply
<1> HIDE DEF s, again
<1>6. NeedsNoMore /\ Peers'
  BY <1>2, NeedsSame DEF IInv
<1>7. /\ \A y \in Sock : Distinct(repWait'[y])
      /\ again # {} => OnList(repWait'[s], c)
      /\ again = {} => repWait' = repWait
      /\ \A y \in Sock : y # s => repWait'[y] = repWait[y]
      /\ \A y \in Sock : \A d : d # c => (OnList(repWait'[y], d) <=> OnList(repWait[y], d))
  <2>1. Distincts
    BY DEF IInv
  <2>2. CASE again = {}
    BY <1>5, <2>1, <2>2 DEF Distincts
  <2>3. CASE again # {}
    BY <1>3, <1>5, <2>1, <2>3, QueueReplyLists
  <2> QED BY <2>2, <2>3
<1>8. \A d \in Rcb \ {c} : Same(d)
  BY <1>1, <1>2, <1>4, <1>7 DEF Same, TypeOK
<1>9. Good(c) /\ rcb[c].state \in InProgress
  BY <1>1, <1>3 DEF IInv, RcbsGood, Active, InProgress
<1>10. Needed(x) \subseteq b /\ \E g \in Needed(x) : g \in 0 .. x.resp - 1
  BY AskedFor DEF IInv
<1>11. Own(c)'
  BY <1>2, <1>4, <1>9 DEF Good, Own
<1>12. Kept(c)'
  <2> SUFFICES ASSUME NEW g, g \in Needed(x)
               PROVE  /\ g \in rcb'[c].sent => g \in rcb'[c].xmt
                      /\ g < x.resp => g \in rcb'[c].notSent \cup rcb'[c].sent
    BY <1>1, <1>4, <1>6 DEF Kept, NeedsNoMore
  <2>1. /\ g \in rcb[c].sent => g \in rcb[c].xmt
        /\ g < x.resp => g \in rcb[c].notSent \cup rcb[c].sent
    BY <1>1, <1>9 DEF Good, Kept, Holds
  <2> QED BY <1>4, <1>10, <2>1 DEF again
<1>13. Placed(c)'
  <2>1. \A y \in Sock : c \in Active(y)' <=> y = s
    BY <1>3, <1>4, <1>9 DEF Active, InProgress
  <2>2. \A y \in Sock : OnList(unattached'[y], c) <=>
                            rcb'[c].queue = y /\ rcb'[c].state \in Unattached
    BY <1>2, <1>4, <1>9 DEF Good, Placed
  <2>3. \A y \in Sock : OnList(repWait'[y], c) => c \in Active(y)'
    <3>1. \A y \in Sock : OnList(repWait[y], c) => y = s
      BY <1>3, <1>9 DEF Good, Placed, Active
    <3> QED BY <1>7, <2>1, <3>1
  <2>4. rcb'[c].snd \cap rcb'[c].xmt # {} => OnList(repWait'[s], c)
    BY <1>4, <1>7
  <2>5. rcb'[c].notSent = {} => OnList(repWait'[s], c)
    <3>1. PICK g \in Needed(x) : g \in 0 .. x.resp - 1
      BY <1>10
    <3>2. g < x.resp
      BY <3>1, TxnType
    <3>3. rcb[c].notSent = {} => g \in rcb[c].xmt
      BY <1>1, <1>9, <3>2 DEF Good, Kept, Holds
    <3> QED BY <1>4, <1>7, <1>10, <3>1, <3>3 DEF again
  <2> QED BY <2>1, <2>2, <2>3, <2>4, <2>5 DEF Placed
<1>14. \A d \in Rcb : c # d => Apart(c, d)' /\ Apart(d, c)'
  BY <1>3, <1>4, <1>9, HolderApart DEF IInv, Holds
<1>15. RcbsGood' /\ RcbsApart'
  BY <1>3, <1>6, <1>8, <1>11, <1>12, <1>13, <1>14, OneOther DEF Good
<1>16. FinishPending'
  <2>1. \A y \in Sock : Active(y) \subseteq Active(y)'
    BY <1>4 DEF Active
  <2> QED BY <1>2, <2>1, FinishKept DEF IInv
<1>17. Distincts'
  BY <1>2, <1>7 DEF IInv, Distincts
<1> QED BY <1>6, <1>15, <1>16, <1>17 DEF IInv

(* The first rcb that waits in a state is one of the socket. *)
LEMMA FirstIsWaiting ==
  ASSUME IInv, NEW s \in Sock, NEW state \in Unattached, NEW c \in FirstWaiting(s, state)
  PROVE  /\ c \in Rcb /\ rcb[c].queue = s /\ rcb[c].state = state /\ Good(c)
         /\ c \in Waiting(s, state)
  BY WaitingStates DEF FirstWaiting, IInv, RcbsGood

(* A request that an rcb may take is held by none. *)
LEMMA HeldByNone ==
  ASSUME TypeOK, IInv, NEW x \in Txn, NotActive(x),
         Waiting(x.sock, "IOCTL") # {} \/ \A f \in Waiting(x.sock, "FULL") : rcb[f].txn # x
  PROVE  \A d \in Rcb : rcb[d].state \in Holds => rcb[d].txn # x
<1> SUFFICES ASSUME NEW d \in Rcb, rcb[d].state \in Holds, rcb[d].txn = x PROVE FALSE
  OBVIOUS
<1>1. rcb[d].queue = x.sock /\ x.sock \in Sock
  BY TxnType DEF IInv, RcbsGood, Good, Own
<1>2. rcb[d].state = "FULL"
  BY <1>1 DEF NotActive, Active, Holds, InProgress
<1>3. d \in Waiting(x.sock, "FULL")
  BY <1>1, <1>2, WaitingStates DEF IInv, Unattached
<1>4. NoneOverlooked
  BY IInvImplies
<1> QED BY <1>1, <1>3, <1>4 DEF NoneOverlooked

(* An rcb that has just taken a request lacks nothing of what is needed. *)
LEMMA HoldingKept ==
  ASSUME TypeOK, Peers, NeedsNoMore, NEW x \in Txn, NEW b \in asks[x], NEW c \in Rcb,
         rcb'[c].txn = x, rcb'[c].notSent = b, rcb'[c].sent = {}
  PROVE  Kept(c)' /\ rcb'[c].notSent # {}
<1>1. Needed(x) \subseteq b /\ b # {}
  BY AskedFor
<1> QED BY <1>1 DEF Kept, NeedsNoMore

LEMMA TakenInv ==
  ASSUME TypeOK, IInv, NEW x \in Txn, NEW b \in asks[x], RequestTaken(x, b)
  PROVE  IInv'
<1> DEFINE s == x.sock
<1>1. PICK c \in FirstWaiting(s, "IOCTL") :
               /\ rcb' = [rcb EXCEPT ![c] = Holding(@, "RESPONDING", x, b)]
               /\ unattached' = [unattached EXCEPT ![s] = Without(@, c)]
  BY DEF RequestTaken
<1>2. /\ UNCHANGED <<rcbFree, repWait, finish, timeVars, peerVars>>
      /\ NotActive(x)
  BY DEF RequestTaken
<1>3. s \in Sock
  BY TxnType
<1>4. c \in Rcb /\ rcb[c].queue = s /\ rcb[c].state = "IOCTL" /\ Good(c)
      /\ Waiting(s, "IOCTL") # {}
  <2>1. "IOCTL" \in Unattached
    BY DEF Unattached
  <2> QED BY <1>3, <2>1, FirstIsWaiting
<1>5. \A d \in Rcb : rcb[d].state \in Holds => rcb[d].txn # x
  BY <1>2, <1>4, HeldByNone
<1> HIDE DEF s
<1>6. /\ \A d \in Rcb : d # c => rcb'[d] = rcb[d]
      /\ rcb'[c] = Holding(rcb[c], "RESPONDING", x, b) /\ rcb[c] \in RcbRecord
  BY <1>1, <1>4 DEF TypeOK
<1>7. /\ rcb'[c].state = "RESPONDING" /\ rcb'[c].txn = x /\ rcb'[c].notSent = b
      /\ rcb'[c].queue = s /\ rcb'[c].xmt = {} /\ rcb'[c].sent = {}
  BY <1>4, <1>6 DEF Holding, RcbRecord, Good, Own, InProgress
<1>8. NeedsNoMore /\ Peers'
  BY <1>2, NeedsSame DEF IInv
<1>9. /\ \A y \in Sock : Distinct(unattached'[y])
      /\ ~OnList(unattached'[s], c) /\ \A y \in Sock : y # s => unattached'[y] = unattached[y]
      /\ \A y \in Sock : \A d :
           d # c => (OnList(unattached'[y], d) <=> OnList(unattached[y], d))
  <2>1. unattached \in [Sock -> Seq(Rcb)] /\ \A y \in Sock : Distinct(unattached[y])
    BY DEF TypeOK, IInv, Distincts
  <2> QED BY <1>1, <1>3, <2>1, ListsWithout
<1>10. \A d \in Rcb \ {c} : Same(d)
  BY <1>2, <1>6, <1>9 DEF Same, timeVars
<1>11. Own(c)'
  BY <1>2, <1>3, <1>4, <1>7 DEF Good, Own, timeVars, InProgress, s
<1>12. Kept(c)' /\ rcb'[c].notSent # {}
  BY <1>4, <1>7, <1>8, HoldingKept DEF IInv
<1>13. Placed(c)'
  <2>1. \A y \in Sock : ~OnList(unattached'[y], c) /\ ~OnList(repWait'[y], c)
    <3>1. \A y \in Sock : y # s => ~OnList(unattached[y], c)
      BY <1>4 DEF Good, Placed
    <3>2. \A y \in Sock : ~OnList(repWait[y], c)
      BY <1>4 DEF Good, Placed, Active
    <3> QED BY <1>2, <1>9, <3>1, <3>2
  <2> QED BY <1>7, <1>12, <2>1 DEF Placed, Unattached
<1>14. \A d \in Rcb : c # d => Apart(c, d)' /\ Apart(d, c)'
  BY <1>5, <1>6, <1>7 DEF Apart
<1>15. RcbsGood' /\ RcbsApart'
  BY <1>4, <1>8, <1>10, <1>11, <1>12, <1>13, <1>14, OneOther DEF Good
<1>16. FinishPending'
  <2>1. \A y \in Sock : Active(y) \subseteq Active(y)'
    BY <1>4, <1>6 DEF Active
  <2> QED BY <1>2, <2>1, FinishKept DEF IInv
<1>17. Distincts'
  BY <1>2, <1>9 DEF IInv, Distincts
<1> QED BY <1>8, <1>15, <1>16, <1>17 DEF IInv

LEMMA HoldInv ==
  ASSUME TypeOK, IInv, NEW x \in Txn, NEW b \in asks[x], RequestHold(x, b)
  PROVE  IInv'
<1> DEFINE s == x.sock
<1>1. PICK c \in FirstWaiting(s, "NW") :
               /\ rcb' = [rcb EXCEPT ![c] = Holding(@, "FULL", x, b)]
               /\ clearTimer' = [clearTimer EXCEPT ![c] = @ + 1]
  BY DEF RequestHold
<1>2. /\ UNCHANGED <<rcbFree, unattached, repWait, finish, rcbTimer, peerVars>>
      /\ NotActive(x) /\ Waiting(s, "IOCTL") = {}
      /\ \A f \in Waiting(s, "FULL") : rcb[f].txn # x
  BY DEF RequestHold
<1>3. s \in Sock
  BY TxnType
<1>4. c \in Rcb /\ rcb[c].queue = s /\ rcb[c].state = "NW" /\ Good(c)
  <2>1. "NW" \in Unattached
    BY DEF Unattached
  <2> QED BY <1>3, <2>1, FirstIsWaiting
<1>5. \A d \in Rcb : rcb[d].state \in Holds => rcb[d].txn # x
  BY <1>2, HeldByNone
<1>6. \A d \in Rcb : rcb[d].queue = s => rcb[d].state # "IOCTL"
  BY <1>2, <1>3, WaitingStates DEF Unattached, IInv
<1> HIDE DEF s
<1>7. /\ \A d \in Rcb : d # c => rcb'[d] = rcb[d] /\ clearTimer'[d] = clearTimer[d]
      /\ rcb'[c] = Holding(rcb[c], "FULL", x, b) /\ rcb[c] \in RcbRecord
      /\ clearTimer'[c] = clearTimer[c] + 1
  BY <1>1, <1>4 DEF TypeOK
<1>8. /\ rcb'[c].state = "FULL" /\ rcb'[c].txn = x /\ rcb'[c].notSent = b
      /\ rcb'[c].queue = s /\ rcb'[c].xmt = {} /\ rcb'[c].sent = {} /\ clearTimer'[c] = 1
  BY <1>4, <1>7 DEF Holding, RcbRecord, Good, Own, InProgress
<1>9. NeedsNoMore /\ Peers'
  BY <1>2, NeedsSame DEF IInv
<1>10. \A d \in Rcb \ {c} : Same(d)
  BY <1>2, <1>7 DEF Same
<1>11. Kept(c)' /\ rcb'[c].notSent # {}
  BY <1>4, <1>8, <1>9, HoldingKept DEF IInv
<1>12. Own(c)'
  BY <1>2, <1>3, <1>4, <1>8, <1>11 DEF Good, Own, s
<1>13. Placed(c)'
  <2>1. \A y \in Sock : OnList(unattached'[y], c) <=> y = s
    BY <1>2, <1>4 DEF Good, Placed, Unattached
  <2>2. \A y \in Sock : ~OnList(repWait'[y], c)
    BY <1>2, <1>4 DEF Good, Placed, Active
  <2>3. \A y \in Sock : c \notin Active(y)'
    BY <1>8 DEF Active
  <2> QED BY <1>8, <2>1, <2>2, <2>3 DEF Placed, Unattached
<1>14. \A d \in Rcb : c # d => Apart(c, d)' /\ Apart(d, c)'
  BY <1>5, <1>6, <1>7, <1>8 DEF Apart
<1>15. RcbsGood' /\ RcbsApart'
  BY <1>4, <1>9, <1>10, <1>11, <1>12, <1>13, <1>14, OneOther DEF Good
<1>16. FinishPending'
  <2>1. \A y \in Sock : Active(y) \subseteq Active(y)'
    BY <1>4, <1>7 DEF Active
  <2> QED BY <1>2, <2>1, FinishKept DEF IInv
<1>17. Distincts'
  BY <1>2 DEF IInv, Distincts
<1> QED BY <1>9, <1>15, <1>16, <1>17 DEF IInv

LEMMA HeldInv ==
  ASSUME TypeOK, IInv, NEW x \in Txn, RequestHeld(x)
  PROVE  IInv'
<1> DEFINE s == x.sock
<1>1. PICK c \in Waiting(s, "FULL") :
               /\ clearTimer' = [clearTimer EXCEPT ![c] = Untimeout(@) + 1]
               /\ \E note : rcb' = [rcb EXCEPT ![c].note = note]
  BY DEF RequestHeld
<1>2. UNCHANGED <<rcbFree, unattached, repWait, finish, rcbTimer, peerVars>>
  BY DEF RequestHeld
<1>3. c \in Rcb /\ rcb[c].state = "FULL" /\ Good(c)
  BY DEF Waiting, IInv, RcbsGood
<1> HIDE DEF s
<1>4. /\ \A d \in Rcb : d # c => rcb'[d] = rcb[d] /\ clearTimer'[d] = clearTimer[d]
      /\ clearTimer'[c] = Untimeout(clearTimer[c]) + 1
  BY <1>1, <1>3 DEF TypeOK
<1>5. /\ rcb'[c].state = rcb[c].state /\ rcb'[c].txn = rcb[c].txn
      /\ rcb'[c].notSent = rcb[c].notSent /\ rcb'[c].queue = rcb[c].queue
      /\ rcb'[c].xmt = rcb[c].xmt /\ rcb'[c].sent = rcb[c].sent
  BY <1>1, <1>3 DEF TypeOK, RcbRecord
<1>6. clearTimer'[c] = clearTimer[c]
  BY <1>3, <1>4 DEF Good, Own, Untimeout
<1>7. NeedsNoMore /\ Peers'
  BY <1>2, NeedsSame DEF IInv
<1>8. \A d \in Rcb \ {c} : Same(d)
  BY <1>2, <1>4 DEF Same
<1>9. Own(c)'
  BY <1>2, <1>3, <1>5, <1>6 DEF Good, Own
<1>10. Kept(c)'
  BY <1>3, <1>5, <1>7 DEF Good, Kept, NeedsNoMore
<1>11. Placed(c)'
  <2>1. \A y \in Sock : c \notin Active(y) /\ c \notin Active(y)'
    BY <1>3, <1>5 DEF Active
  <2> QED BY <1>2, <1>3, <1>5, <2>1 DEF Good, Placed
<1>12. \A d \in Rcb : c # d => Apart(c, d)' /\ Apart(d, c)'
  <2> SUFFICES ASSUME NEW d \in Rcb, c # d PROVE Apart(c, d)' /\ Apart(d, c)'
    OBVIOUS
  <2>1. Apart(c, d) /\ Apart(d, c)
    BY <1>3 DEF IInv, RcbsApart
  <2> QED BY <1>4, <1>5, <2>1 DEF Apart
<1>13. RcbsGood' /\ RcbsApart'
  BY <1>3, <1>7, <1>8, <1>9, <1>10, <1>11, <1>12, OneOther DEF Good
<1>14. FinishPending'
  <2>1. \A y \in Sock : Active(y) \subseteq Active(y)'
    BY <1>4, <1>5 DEF Active
  <2> QED BY <1>2, <2>1, FinishKept DEF IInv
<1>15. Distincts'
  BY <1>2 DEF IInv, Distincts
<1> QED BY <1>7, <1>13, <1>14, <1>15 DEF IInv

LEMMA ReleaseInv ==
  ASSUME TypeOK, IInv, NEW x \in Txn, RecvRelease(x)
  PROVE  IInv'
<1>1. x.sock \in Sock /\ \E c \in Active(x.sock) : RcbFree(c, rcbTimer)
  BY TxnType DEF RecvRelease
<1>2. NeedsNoMore /\ Peers'
  BY EndedPeer DEF RecvRelease, IInv
<1> QED BY <1>1, <1>2, ActiveInUse

-----------------------------------------------------------------------------
(* Timeouts. *)

LEMMA RcbTimeoutInv ==
  ASSUME TypeOK, IInv, NEW c \in Rcb, RcbTimeout(c)
  PROVE  IInv'
<1> DEFINE timers == [rcbTimer EXCEPT ![c] = @ - 1]
<1>1. timers \in [Rcb -> Nat] /\ \A d \in Rcb : d # c => timers[d] = rcbTimer[d]
  BY DEF RcbTimeout, TypeOK
<1>2. Good(c)
  BY DEF IInv, RcbsGood
<1>3. CASE c \notin rcbFree
  <2>1. RcbFree(c, timers) /\ rcb[c].state # "FREE"
    BY <1>2, <1>3 DEF RcbTimeout, Good, Own
  <2>2. NeedsNoMore /\ Peers'
    <3>1. CASE rcb[c].txn = None
      BY <1>3, <3>1, NeedsSame DEF RcbTimeout, IInv
    <3>2. CASE rcb[c].txn # None
      <4>1. rcb[c].txn \in Txn /\ Ended(rcb[c].txn)
        BY <1>3, <3>2 DEF RcbTimeout, TypeOK, RcbRecord
      <4> QED BY <4>1, EndedPeer DEF IInv
    <3> QED BY <3>1, <3>2
  <2> HIDE DEF timers
  <2> QED BY <1>1, <2>1, <2>2, FreeInv
<1>4. CASE c \in rcbFree
  <2>1. /\ rcbTimer' = timers
        /\ UNCHANGED <<rcbFree, rcb, unattached, repWait, finish, clearTimer, peerVars>>
    BY <1>4 DEF RcbTimeout
  <2> HIDE DEF timers
  <2>2. NeedsNoMore /\ Peers'
    BY <2>1, NeedsSame DEF IInv
  <2>3. \A d \in Rcb \ {c} : Same(d)
    BY <1>1, <2>1 DEF Same
  <2>4. rcb[c].state = "FREE"
    BY <1>2, <1>4 DEF Good, Own
  <2>5. Own(c)' /\ Kept(c)'
    BY <1>2, <2>1, <2>4 DEF Good, Own, Kept, Holds, InProgress
  <2>6. Placed(c)'
    <3>1. \A y \in Sock : c \notin Active(y) /\ c \notin Active(y)'
      BY <2>1, <2>4 DEF Active
    <3> QED BY <1>2, <2>1, <3>1 DEF Good, Placed
  <2>7. rcb'[c].state \notin Holds \cup {"IOCTL"}
    BY <2>1, <2>4 DEF Holds, InProgress
  <2>8. RcbsGood' /\ RcbsApart'
    BY <2>2, <2>3, <2>5, <2>6, <2>7, IdleApart, OneOther DEF Good
  <2>9. FinishPending'
    BY <2>1, FinishKept DEF IInv, Active
  <2>10. Distincts'
    BY <2>1 DEF IInv, Distincts
  <2> QED BY <2>2, <2>8, <2>9, <2>10 DEF IInv
<1> QED BY <1>3, <1>4

LEMMA ClearInv ==
  ASSUME TypeOK, IInv, NEW c \in Rcb, ClearTimeout(c)
  PROVE  IInv'
<1>1. Good(c) /\ rcb[c].state = "FULL" /\ clearTimer[c] = 1
  BY DEF IInv, RcbsGood, Good, Own, ClearTimeout
<1>2. /\ rcb' = [rcb EXCEPT ![c].state = "NW"]
      /\ clearTimer' = [clearTimer EXCEPT ![c] = @ - 1]
      /\ UNCHANGED <<rcbFree, unattached, repWait, finish, rcbTimer, peerVars>>
  BY <1>1 DEF ClearTimeout
<1>3. /\ \A d \in Rcb : d # c => rcb'[d] = rcb[d] /\ clearTimer'[d] = clearTimer[d]
      /\ clearTimer'[c] = 0
  BY <1>1, <1>2 DEF TypeOK
<1>4. /\ rcb'[c].state = "NW" /\ rcb'[c].queue = rcb[c].queue
      /\ rcb'[c].xmt = rcb[c].xmt /\ rcb'[c].sent = rcb[c].sent
  BY <1>2 DEF TypeOK, RcbRecord
<1>5. NeedsNoMore /\ Peers'
  BY <1>2, NeedsSame DEF IInv
<1>6. \A d \in Rcb \ {c} : Same(d)
  BY <1>2, <1>3 DEF Same
<1>7. Own(c)' /\ Kept(c)'
  BY <1>1, <1>2, <1>3, <1>4 DEF Good, Own, Kept, Holds, InProgress
<1>8. Placed(c)'
  <2>1. \A y \in Sock : c \notin Active(y) /\ c \notin Active(y)'
    BY <1>1, <1>4 DEF Active
  <2>2. rcb[c].state \in Unattached /\ rcb'[c].state \in Unattached
    BY <1>1, <1>4 DEF Unattached
  <2> QED BY <1>1, <1>2, <1>4, <2>1, <2>2 DEF Good, Placed
<1>9. rcb'[c].state \notin Holds \cup {"IOCTL"}
  BY <1>4 DEF Holds, InProgress
<1>10. RcbsGood' /\ RcbsApart'
  BY <1>5, <1>6, <1>7, <1>8, <1>9, IdleApart, OneOther DEF Good
<1>11. FinishPending'
  <2>1. \A y \in Sock : Active(y) \subseteq Active(y)'
    BY <1>1, <1>3 DEF Active
  <2> QED BY <1>2, <2>1, FinishKept DEF IInv
<1>12. Distincts'
  BY <1>2 DEF IInv, Distincts
<1> QED BY <1>5, <1>10, <1>11, <1>12 DEF IInv

-----------------------------------------------------------------------------
(* The reply loop. *)

(* The first rcb with replies to send. *)
LEMMA FirstReply ==
  ASSUME TypeOK, IInv, NEW s \in Sock, repWait[s] # <<>>
  PROVE  LET c == Head(repWait[s])
         IN  /\ c \in Active(s) /\ c \in Rcb /\ Good(c) /\ rcb[c].queue = s
             /\ rcb[c].state \in InProgress /\ rcb[c].txn \in Txn /\ rcb[c] \in RcbRecord
<1> DEFINE c == Head(repWait[s])
<1>1. c \in Rcb /\ OnList(repWait[s], c)
  <2>1. repWait[s] \in Seq(Rcb)
    BY DEF TypeOK
  <2> QED BY <2>1, HeadOnList
<1>2. Good(c)
  BY <1>1 DEF IInv, RcbsGood
<1>3. c \in Active(s)
  BY <1>1, <1>2 DEF Good, Placed
<1> HIDE DEF c
<1>4. rcb[c].queue = s /\ rcb[c].state \in InProgress
  BY <1>3 DEF Active, InProgress
<1>5. rcb[c].txn \in Txn /\ rcb[c] \in RcbRecord
  BY <1>1, <1>2, <1>4 DEF Good, Own, Holds, TypeOK
<1> QED BY <1>1, <1>2, <1>3, <1>4, <1>5 DEF c

LEMMA SegmentInv ==
  ASSUME TypeOK, IInv, NEW s \in Sock, ReplySegment(s)
  PROVE  IInv'
<1>0. PICK c, g : c = Head(repWait[s]) /\ g = NextReply(c)
  OBVIOUS
<1>1. /\ g \in rcb[c].xmt
      /\ rcb' = [rcb EXCEPT ![c].snd = @ \ {g}, ![c].notSent = @ \ {g}, ![c].sent = @ \cup {g}]
      /\ UNCHANGED <<rcbFree, unattached, repWait, finish, timeVars, missing, asks>>
      /\ repWait[s] # <<>>
  BY <1>0 DEF ReplySegment, Replying
<1>2. /\ c \in Rcb /\ Good(c) /\ rcb[c].queue = s /\ rcb[c].state \in InProgress
      /\ rcb[c].txn \in Txn /\ rcb[c] \in RcbRecord
  BY <1>0, <1>1, FirstReply
<1>3. OnList(repWait[s], c)
  <2>1. repWait[s] \in Seq(Rcb)
    BY DEF TypeOK
  <2> QED BY <1>0, <1>1, <2>1, HeadOnList
<1>4. /\ \A d \in Rcb : d # c => rcb'[d] = rcb[d]
      /\ rcb'[c].state = rcb[c].state /\ rcb'[c].txn = rcb[c].txn
      /\ rcb'[c].queue = rcb[c].queue /\ rcb'[c].xmt = rcb[c].xmt
      /\ rcb'[c].notSent = rcb[c].notSent \ {g} /\ rcb'[c].sent = rcb[c].sent \cup {g}
  BY <1>1, <1>2 DEF TypeOK, RcbRecord
<1>5. NeedsNoMore /\ Peers'
  BY <1>1 DEF NeedsNoMore, Needed, Peers, Peer, IInv
<1>6. \A d \in Rcb \ {c} : Same(d)
  BY <1>1, <1>4 DEF Same, timeVars
<1>7. Own(c)'
  BY <1>1, <1>2, <1>4 DEF Good, Own, timeVars, InProgress
<1>8. Kept(c)'
  <2> SUFFICES ASSUME NEW x \in Txn, x = rcb[c].txn, NEW h \in Needed(x)
               PROVE  /\ h \in rcb'[c].sent => h \in rcb'[c].xmt
                      /\ h < x.resp => h \in rcb'[c].notSent \cup rcb'[c].sent
    BY <1>4, <1>5 DEF Kept, NeedsNoMore
  <2>1. /\ h \in rcb[c].sent => h \in rcb[c].xmt
        /\ h < x.resp => h \in rcb[c].notSent \cup rcb[c].sent
    BY <1>2 DEF Good, Kept, Holds
  <2> QED BY <1>1, <1>4, <2>1
<1>9. Placed(c)'
  <2>1. \A y \in Sock : c \in Active(y)' <=> y = s
    BY <1>2, <1>4 DEF Active, InProgress
  <2>2. \A y \in Sock : OnList(repWait[y], c) => y = s
    BY <1>2 DEF Good, Placed, Active
  <2> QED BY <1>1, <1>2, <1>3, <1>4, <2>1, <2>2 DEF Good, Placed
<1>10. \A d \in Rcb : c # d => Apart(c, d)' /\ Apart(d, c)'
  BY <1>2, <1>4, HolderApart DEF IInv, Holds
<1>11. RcbsGood' /\ RcbsApart'
  BY <1>2, <1>5, <1>6, <1>7, <1>8, <1>9, <1>10, OneOther DEF Good
<1>12. FinishPending'
  <2>1. \A y \in Sock : Active(y) \subseteq Active(y)'
    BY <1>4 DEF Active
  <2> QED BY <1>1, <2>1, FinishKept DEF IInv
<1>13. Distincts'
  BY <1>1 DEF IInv, Distincts
<1> QED BY <1>5, <1>11, <1>12, <1>13 DEF IInv

LEMMA ReplyDoneInv ==
  ASSUME TypeOK, IInv, NEW s \in Sock, ReplyDone(s)
  PROVE  IInv'
<1>0. PICK c, x : c = Head(repWait[s]) /\ x = rcb[c].txn
  OBVIOUS
<1>1. repWait[s] # <<>> /\ rcb[c].snd = {} /\ UNCHANGED peerVars
  BY <1>0 DEF ReplyDone
<1>2. /\ c \in Rcb /\ Good(c) /\ rcb[c].queue = s /\ rcb[c].state \in InProgress
      /\ x \in Txn /\ c \in Active(s)
  BY <1>0, <1>1, FirstReply
<1>3. NeedsNoMore /\ Peers'
  BY <1>1, NeedsSame DEF IInv
<1>4. CASE RcbFree(c, rcbTimer)
  BY <1>2, <1>3, <1>4, ActiveInUse
<1>5. CASE /\ rcb[c].notSent = {} => x.xo
           /\ repWait' = [repWait EXCEPT ![s] = Tail(@)]
           /\ rcbTimer' = IF rcb[c].notSent = {} THEN [rcbTimer EXCEPT ![c] = @ + 1]
                                                 ELSE rcbTimer
           /\ UNCHANGED <<unattached, clearTimer, finish, rcb, rcbFree>>
  <2>1. repWait[s] \in Seq(Rcb) /\ Distinct(repWait[s])
    BY DEF TypeOK, IInv, Distincts
  <2>2. /\ Distinct(Tail(repWait[s])) /\ ~OnList(Tail(repWait[s]), c)
        /\ \A d : d # c => (OnList(Tail(repWait[s]), d) <=> OnList(repWait[s], d))
    BY <1>0, <1>1, <2>1, TailOthers
  <2>3. /\ repWait'[s] = Tail(repWait[s])
        /\ \A y \in Sock : y # s => repWait'[y] = repWait[y]
        /\ \A d \in Rcb : d # c => rcbTimer'[d] = rcbTimer[d]
        /\ rcb[c].notSent = {} => rcbTimer'[c] > 0
    BY <1>2, <1>5 DEF TypeOK
  <2>4. \A d \in Rcb \ {c} : Same(d)
    BY <1>5, <2>2, <2>3 DEF Same
  <2>5. Own(c)' /\ Kept(c)'
    BY <1>2, <1>3, <1>5 DEF Good, Own, Kept, NeedsNoMore
  <2>6. Placed(c)'
    <3>1. \A y \in Sock : c \in Active(y)' <=> y = s
      BY <1>2, <1>5 DEF Active, InProgress
    <3>2. \A y \in Sock : ~OnList(repWait'[y], c)
      BY <1>2, <2>2, <2>3 DEF Good, Placed, Active
    <3> QED BY <1>1, <1>2, <1>0, <1>5, <2>3, <3>1, <3>2 DEF Good, Placed
  <2>7. \A d \in Rcb : c # d => Apart(c, d)' /\ Apart(d, c)'
    BY <1>2, <1>5 DEF IInv, RcbsApart, Apart
  <2>8. RcbsGood' /\ RcbsApart'
    BY <1>2, <1>3, <2>4, <2>5, <2>6, <2>7, OneOther DEF Good
  <2>9. FinishPending'
    BY <1>5, FinishKept DEF IInv, Active
  <2>10. Distincts'
    BY <1>5, <2>2, <2>3 DEF IInv, Distincts
  <2> QED BY <1>3, <2>8, <2>9, <2>10 DEF IInv
<1> QED BY <1>0, <1>4, <1>5 DEF ReplyDone

-----------------------------------------------------------------------------
(* The commands. *)

(* An rcb that is free is on no list. *)
LEMMA FreeNowhere ==
  ASSUME IInv, NEW c \in rcbFree, c \in Rcb
  PROVE  /\ Good(c) /\ rcb[c].state = "FREE" /\ rcb[c].xmt = {} /\ rcb[c].sent = {}
         /\ clearTimer[c] = 0
         /\ \A s \in Sock : /\ ~OnList(unattached[s], c) /\ ~OnList(repWait[s], c)
                            /\ c \notin Active(s)
<1>1. Good(c) /\ rcb[c].state = "FREE" /\ \A s \in Sock : c \notin Active(s)
  BY DEF IInv, RcbsGood, Good, Own, Active
<1> QED BY <1>1 DEF Good, Own, Placed, InProgress, Unattached

(* One that is taken to wait on its socket's list, or is lost. *)
LEMMA AllocatedGood ==
  ASSUME NEW c \in Rcb, NEW s \in Sock, rcb'[c].state \in {"IOCTL", "NW", "LOST"},
         rcb'[c].queue = s, rcb'[c].xmt = {}, rcb'[c].sent = {}, c \notin rcbFree',
         clearTimer'[c] = 0,
         \A y \in Sock : /\ OnList(unattached'[y], c) <=> y = s /\ rcb'[c].state # "LOST"
                         /\ ~OnList(repWait'[y], c)
  PROVE  Good(c)'
<1>1. \A y \in Sock : c \notin Active(y)'
  BY DEF Active
<1>2. Own(c)' /\ Kept(c)'
  BY DEF Own, Kept, Holds, InProgress
<1>3. Placed(c)'
  BY <1>1 DEF Placed, Unattached
<1> QED BY <1>2, <1>3 DEF Good

LEMMA GetInv ==
  ASSUME TypeOK, IInv, NEW s \in Sock, NEW c \in Rcb,
         GetTooMany(s, c) \/ GetNoWait(s, c) \/ GetWait(s, c)
  PROVE  IInv'
<1>1. PICK state, note :
        /\ rcb' = [rcb EXCEPT ![c].queue = s, ![c].state = state, ![c].note = note]
        /\ \/ state = "LOST" /\ UNCHANGED unattached
           \/ /\ state = "NW" \/ (state = "IOCTL" /\ Waiting(s, "FULL") = {})
              /\ unattached' = [unattached EXCEPT ![s] = Append(@, c)]
  BY DEF GetTooMany, GetNoWait, GetWait, AllocRcb
<1>2. /\ c \in rcbFree /\ rcbFree' = rcbFree \ {c}
      /\ UNCHANGED <<repWait, finish, timeVars, peerVars>>
  BY DEF GetTooMany, GetNoWait, GetWait, AllocRcb
<1>3. /\ rcb[c].state = "FREE" /\ rcb[c].xmt = {} /\ rcb[c].sent = {} /\ clearTimer[c] = 0
      /\ \A y \in Sock : ~OnList(unattached[y], c) /\ ~OnList(repWait[y], c)
  BY <1>2, FreeNowhere
<1>4. /\ \A d \in Rcb : d # c => rcb'[d] = rcb[d]
      /\ rcb'[c].state = state /\ rcb'[c].queue = s
      /\ rcb'[c].xmt = {} /\ rcb'[c].sent = {}
  BY <1>1, <1>3 DEF TypeOK, RcbRecord
<1>5. NeedsNoMore /\ Peers'
  BY <1>2, NeedsSame DEF IInv
<1>6. /\ \A y \in Sock : Distinct(unattached'[y])
      /\ \A y \in Sock : OnList(unattached'[y], c) <=> y = s /\ state # "LOST"
      /\ \A y \in Sock : \A d \in Rcb :
           d # c => (OnList(unattached'[y], d) <=> OnList(unattached[y], d))
  <2>1. unattached \in [Sock -> Seq(Rcb)] /\ \A y \in Sock : Distinct(unattached[y])
    BY DEF TypeOK, IInv, Distincts
  <2>2. CASE state = "LOST" /\ UNCHANGED unattached
    BY <1>3, <2>1, <2>2
  <2>3. CASE state # "LOST" /\ unattached' = [unattached EXCEPT ![s] = Append(@, c)]
    <3>1. /\ \A y \in Sock : Distinct(unattached'[y])
          /\ OnList(unattached'[s], c)
          /\ \A y \in Sock : y # s => unattached'[y] = unattached[y]
          /\ \A y \in Sock : \A d : d # c => (OnList(unattached'[y], d)
                                               <=> OnList(unattached[y], d))
      BY <1>3, <2>1, <2>3, ListsAppend
    <3> QED BY <1>3, <2>3, <3>1
  <2> QED BY <1>1, <2>2, <2>3
<1>7. \A d \in Rcb \ {c} : Same(d)
  BY <1>2, <1>4, <1>6 DEF Same, timeVars
<1>8. Good(c)'
  <2>1. rcb'[c].state \in {"IOCTL", "NW", "LOST"} /\ c \notin rcbFree' /\ clearTimer'[c] = 0
    BY <1>1, <1>2, <1>3, <1>4 DEF timeVars
  <2>2. \A y \in Sock : /\ OnList(unattached'[y], c) <=> y = s /\ rcb'[c].state # "LOST"
                        /\ ~OnList(repWait'[y], c)
    BY <1>2, <1>3, <1>4, <1>6
  <2> QED BY <1>4, <2>1, <2>2, AllocatedGood
<1>9. \A d \in Rcb : c # d => Apart(c, d)' /\ Apart(d, c)'
  <2>1. CASE state \in {"LOST", "NW"}
    <3>1. rcb'[c].state \notin Holds \cup {"IOCTL"}
      BY <1>4, <2>1 DEF Holds, InProgress
    <3> QED BY <3>1, IdleApart
  <2>2. CASE state = "IOCTL" /\ Waiting(s, "FULL") = {}
    <3>1. \A d \in Rcb : rcb[d].state = "FULL" => rcb[d].queue # s
      BY <2>2, WaitingStates DEF IInv, Unattached
    <3> QED BY <1>4, <2>2, <3>1 DEF Apart, Holds, InProgress
  <2> QED BY <1>1, <2>1, <2>2
<1>10. RcbsGood' /\ RcbsApart'
  BY <1>5, <1>7, <1>8, <1>9, OneOther
<1>11. FinishPending'
  <2>1. \A y \in Sock : Active(y) \subseteq Active(y)'
    BY <1>3, <1>4 DEF Active
  <2> QED BY <1>2, <2>1, FinishKept DEF IInv
<1>12. Distincts'
  BY <1>2, <1>6 DEF IInv, Distincts
<1> QED BY <1>5, <1>10, <1>11, <1>12 DEF IInv

(* An rcb whose request a process has got from it. *)
LEMMA GotGood ==
  ASSUME TypeOK, NEW s \in Sock, NEW f \in Rcb, Good(f), NeedsNoMore,
         rcb[f].state = "FULL", rcb[f].queue = s, f \notin rcbFree',
         rcb'[f] = [rcb[f] EXCEPT !.state = "RESPONDING"], clearTimer'[f] = 0,
         \A y \in Sock : ~OnList(unattached'[y], f), UNCHANGED repWait
  PROVE  Good(f)'
<1>1. /\ rcb'[f].state = "RESPONDING" /\ rcb'[f].queue = s /\ rcb'[f].txn = rcb[f].txn
      /\ rcb'[f].notSent = rcb[f].notSent /\ rcb'[f].xmt = rcb[f].xmt
      /\ rcb'[f].sent = rcb[f].sent
  BY DEF TypeOK, RcbRecord
<1>2. rcb[f].notSent # {} /\ rcb[f].xmt = {} /\ \A y \in Sock : ~OnList(repWait[y], f)
  BY DEF Good, Own, Placed, Active, InProgress
<1>3. Own(f)'
  BY <1>1 DEF Good, Own, InProgress, Holds
<1>4. Kept(f)'
  BY <1>1 DEF Good, Kept, NeedsNoMore, Holds
<1>5. Placed(f)'
  BY <1>1, <1>2 DEF Placed, Unattached
<1> QED BY <1>3, <1>4, <1>5 DEF Good

LEMMA PollTakeInv ==
  ASSUME TypeOK, IInv, NEW s \in Sock, PollTake(s)
  PROVE  IInv'
<1>1. PICK f \in FirstWaiting(s, "FULL") :
        /\ rcb' = [rcb EXCEPT ![f].state = "RESPONDING"]
        /\ unattached' = [unattached EXCEPT ![s] = Without(@, f)]
        /\ clearTimer' = [clearTimer EXCEPT ![f] = Untimeout(@)]
  BY DEF PollTake
<1>2. UNCHANGED <<rcbFree, repWait, finish, rcbTimer, peerVars>>
  BY DEF PollTake
<1>3. f \in Rcb /\ rcb[f].queue = s /\ rcb[f].state = "FULL" /\ Good(f)
  <2>1. "FULL" \in Unattached
    BY DEF Unattached
  <2> QED BY <2>1, FirstIsWaiting
<1>4. f \notin rcbFree /\ clearTimer[f] = 1 /\ \A y \in Sock : y # s => ~OnList(unattached[y], f)
  BY <1>3 DEF Good, Own, Placed
<1>5. /\ \A d \in Rcb : d # f => rcb'[d] = rcb[d] /\ clearTimer'[d] = clearTimer[d]
      /\ rcb'[f] = [rcb[f] EXCEPT !.state = "RESPONDING"] /\ rcb[f] \in RcbRecord
      /\ clearTimer'[f] = 0
  BY <1>1, <1>3, <1>4 DEF TypeOK, Untimeout
<1>6. rcb'[f].state = "RESPONDING" /\ rcb'[f].txn = rcb[f].txn
  BY <1>5 DEF RcbRecord
<1>7. NeedsNoMore /\ Peers'
  BY <1>2, NeedsSame DEF IInv
<1>8. /\ \A y \in Sock : Distinct(unattached'[y])
      /\ ~OnList(unattached'[s], f) /\ \A y \in Sock : y # s => unattached'[y] = unattached[y]
      /\ \A y \in Sock : \A d :
           d # f => (OnList(unattached'[y], d) <=> OnList(unattached[y], d))
  <2>1. unattached \in [Sock -> Seq(Rcb)] /\ \A y \in Sock : Distinct(unattached[y])
    BY DEF TypeOK, IInv, Distincts
  <2> QED BY <1>1, <2>1, ListsWithout
<1>9. \A d \in Rcb \ {f} : Same(d)
  BY <1>2, <1>5, <1>8 DEF Same
<1>10. Good(f)'
  <2>1. \A y \in Sock : ~OnList(unattached'[y], f)
    BY <1>4, <1>8
  <2> QED BY <1>2, <1>3, <1>4, <1>5, <1>7, <2>1, GotGood
<1>11. \A d \in Rcb : f # d => Apart(f, d)' /\ Apart(d, f)'
  <2>1. rcb[f].state \in Holds /\ rcb'[f].state \in InProgress
    BY <1>3, <1>6 DEF Holds, InProgress
  <2> QED BY <1>3, <1>5, <1>6, <2>1, HolderApart DEF IInv
<1>12. RcbsGood' /\ RcbsApart'
  BY <1>3, <1>7, <1>9, <1>10, <1>11, OneOther
<1>13. FinishPending'
  <2>1. \A y \in Sock : Active(y) \subseteq Active(y)'
    BY <1>3, <1>5 DEF Active
  <2> QED BY <1>2, <2>1, FinishKept DEF IInv
<1>14. Distincts'
  BY <1>2, <1>8 DEF IInv, Distincts
<1> QED BY <1>7, <1>12, <1>13, <1>14 DEF IInv

LEMMA GetHeldInv ==
  ASSUME TypeOK, IInv, NEW s \in Sock, NEW c \in Rcb, GetHeld(s, c)
  PROVE  IInv'
<1>1. PICK f \in FirstWaiting(s, "FULL") :
        /\ rcb' = [rcb EXCEPT ![c].queue = s, ![c].state = "NW", ![f].state = "RESPONDING"]
        /\ unattached' = [unattached EXCEPT ![s] = Without(Append(@, c), f)]
        /\ clearTimer' = [clearTimer EXCEPT ![f] = Untimeout(@)]
  BY DEF GetHeld
<1>2. /\ c \in rcbFree /\ rcbFree' = rcbFree \ {c}
      /\ UNCHANGED <<repWait, finish, rcbTimer, peerVars>>
  BY DEF GetHeld
<1>3. f \in Rcb /\ rcb[f].queue = s /\ rcb[f].state = "FULL" /\ Good(f)
  <2>1. "FULL" \in Unattached
    BY DEF Unattached
  <2> QED BY <2>1, FirstIsWaiting
<1>4. /\ f \notin rcbFree /\ clearTimer[f] = 1
      /\ \A y \in Sock : y # s => ~OnList(unattached[y], f)
  BY <1>3 DEF Good, Own, Placed
<1>5. /\ rcb[c].state = "FREE" /\ rcb[c].xmt = {} /\ rcb[c].sent = {} /\ clearTimer[c] = 0
      /\ \A y \in Sock : ~OnList(unattached[y], c) /\ ~OnList(repWait[y], c)
  BY <1>2, FreeNowhere
<1>6. c # f
  BY <1>3, <1>5
<1>7. /\ \A d \in Rcb : d # f /\ d # c => rcb'[d] = rcb[d]
      /\ \A d \in Rcb : d # f => clearTimer'[d] = clearTimer[d]
      /\ rcb'[f] = [rcb[f] EXCEPT !.state = "RESPONDING"]
      /\ rcb'[c] = [rcb[c] EXCEPT !.queue = s, !.state = "NW"]
      /\ rcb[f] \in RcbRecord /\ rcb[c] \in RcbRecord
      /\ clearTimer'[f] = 0
  <2>1. rcb \in [Rcb -> RcbRecord] /\ rcb[f] \in RcbRecord /\ rcb[c] \in RcbRecord
    BY <1>3 DEF TypeOK
  <2>2. /\ \A d \in Rcb : d # f => clearTimer'[d] = clearTimer[d]
        /\ clearTimer'[f] = 0
    BY <1>1, <1>3, <1>4 DEF TypeOK, Untimeout
  <2>3. /\ \A d \in Rcb : d # f /\ d # c => rcb'[d] = rcb[d]
        /\ rcb'[f] = [rcb[f] EXCEPT !.state = "RESPONDING"]
    BY <1>1, <1>3, <1>6, <2>1
  <2>4. rcb'[c] = [rcb[c] EXCEPT !.queue = s, !.state = "NW"]
    BY <1>1, <1>6, <2>1
  <2> QED BY <2>1, <2>2, <2>3, <2>4
<1>8. /\ rcb'[f].state = "RESPONDING" /\ rcb'[f].txn = rcb[f].txn
      /\ rcb'[c].state = "NW" /\ rcb'[c].queue = s /\ rcb'[c].xmt = {} /\ rcb'[c].sent = {}
  BY <1>5, <1>7 DEF RcbRecord
<1>9. NeedsNoMore /\ Peers'
  BY <1>2, NeedsSame DEF IInv
<1>10. /\ \A y \in Sock : Distinct(unattached'[y])
       /\ ~OnList(unattached'[s], f) /\ OnList(unattached'[s], c)
       /\ \A y \in Sock : y # s => unattached'[y] = unattached[y]
       /\ \A y \in Sock : \A d :
            d # f /\ d # c => (OnList(unattached'[y], d) <=> OnList(unattached[y], d))
  <2>1. /\ unattached \in [Sock -> Seq(Rcb)] /\ unattached[s] \in Seq(Rcb)
        /\ \A y \in Sock : Distinct(unattached[y])
    BY DEF TypeOK, IInv, Distincts
  <2> DEFINE q == Append(unattached[s], c)
  <2>2. /\ q \in Seq(Rcb) /\ Distinct(q) /\ OnList(q, c)
        /\ \A d : d # c => (OnList(q, d) <=> OnList(unattached[s], d))
    BY <1>5, <2>1, AppendOthers
  <2>3. unattached'[s] = Without(q, f) /\ \A y \in Sock : y # s => unattached'[y] = unattached[y]
    BY <1>1, <2>1
  <2> HIDE DEF q
  <2>4. /\ Distinct(Without(q, f)) /\ ~OnList(Without(q, f), f)
        /\ \A d : d # f => (OnList(Without(q, f), d) <=> OnList(q, d))
    BY <2>2, WithoutOthers
  <2> QED BY <1>6, <2>1, <2>2, <2>3, <2>4
<1>11. \A d \in Rcb \ {c, f} : Same(d)
  BY <1>2, <1>7, <1>10 DEF Same
<1>12. Good(f)'
  <2>1. \A y \in Sock : ~OnList(unattached'[y], f)
    BY <1>4, <1>10
  <2>2. f \notin rcbFree'
    BY <1>2, <1>4
  <2> QED BY <1>2, <1>3, <1>7, <1>9, <2>1, <2>2, GotGood
<1>13. Good(c)'
  <2>1. \A y \in Sock : /\ OnList(unattached'[y], c) <=> y = s
                        /\ ~OnList(repWait'[y], c)
    BY <1>2, <1>5, <1>10
  <2>2. clearTimer'[c] = 0 /\ c \notin rcbFree'
    BY <1>2, <1>5, <1>6, <1>7
  <2> QED BY <1>8, <2>1, <2>2, AllocatedGood
<1>14. \A d \in Rcb : Apart(c, d)' /\ Apart(d, c)'
  <2>1. rcb'[c].state \notin Holds \cup {"IOCTL"}
    BY <1>8 DEF Holds, InProgress
  <2> QED BY <2>1, IdleApart
<1>15. \A d \in Rcb : f # d => Apart(f, d)' /\ Apart(d, f)'
  <2>1. rcb[f].state \in Holds /\ rcb'[f].state \in InProgress
    BY <1>3, <1>8 DEF Holds, InProgress
  <2> QED BY <1>3, <1>7, <1>8, <1>14, <2>1, HolderApart DEF IInv
<1>16. RcbsGood' /\ RcbsApart'
  <2>1. {c, f} \in SUBSET Rcb /\ \A e \in {c, f} : Good(e)'
    BY <1>3, <1>12, <1>13
  <2>2. \A e \in {c, f} : \A d \in Rcb : e # d => Apart(e, d)' /\ Apart(d, e)'
    BY <1>14, <1>15
  <2> QED BY <1>9, <1>11, <2>1, <2>2, OthersSame
<1>17. FinishPending'
  <2>1. \A y \in Sock : Active(y) \subseteq Active(y)'
    BY <1>3, <1>5, <1>7 DEF Active
  <2> QED BY <1>2, <2>1, FinishKept DEF IInv
<1>18. Distincts'
  BY <1>2, <1>10 DEF IInv, Distincts
<1> QED BY <1>9, <1>16, <1>17, <1>18 DEF IInv

LEMMA SendResponseInv ==
  ASSUME TypeOK, IInv, NEW s \in Sock, NEW c \in Rcb, SendResponse(s, c)
  PROVE  IInv'
<1>0. PICK m : m = Head(wq[s])
  OBVIOUS
<1> DEFINE last == m.seg = 7 \/ (m.txn.eof /\ m.seg = m.txn.resp - 1)
<1>1. /\ wq[s] # <<>> /\ m.op = "SEND" /\ c \in Active(s) /\ rcb[c].txn = m.txn
      /\ rcb' = [rcb EXCEPT
             ![c].state = IF last THEN "RESPONSE_FULL" ELSE @,
             ![c].notSent = IF last THEN {h \in @ : h <= m.seg} ELSE @,
             ![c].xmt = @ \cup {m.seg},
             ![c].snd = @ \cup {m.seg}]
      /\ QueueReply(s, c)
      /\ UNCHANGED <<rcbFree, unattached, finish, timeVars, peerVars>>
  <2>1. wq[s] # <<>> /\ m.op = "SEND" /\ c \in Active(s) /\ rcb[c].txn = m.txn
    BY <1>0 DEF SendResponse, At, Named
  <2>2. QueueReply(s, c) /\ UNCHANGED <<rcbFree, unattached, finish, timeVars, peerVars>>
    BY DEF SendResponse
  <2>3. rcb' = [rcb EXCEPT
             ![c].state = IF last THEN "RESPONSE_FULL" ELSE @,
             ![c].notSent = IF last THEN {h \in @ : h <= m.seg} ELSE @,
             ![c].xmt = @ \cup {m.seg},
             ![c].snd = @ \cup {m.seg}]
    BY <1>0, Zenon DEF SendResponse
  <2> QED BY <2>1, <2>2, <2>3
<1>2. m.txn \in Txn /\ m.seg \in Seg
  BY <1>0, <1>1, HeadCommand
<1>3. rcb[c] \in RcbRecord /\ Good(c) /\ rcb[c].queue = s /\ rcb[c].state \in InProgress
  BY <1>1 DEF TypeOK, IInv, RcbsGood, Active, InProgress
<1>4. /\ \A d \in Rcb : d # c => rcb'[d] = rcb[d]
      /\ rcb'[c] = [rcb[c] EXCEPT !.state = IF last THEN "RESPONSE_FULL" ELSE @,
                                  !.notSent = IF last THEN {h \in @ : h <= m.seg} ELSE @,
                                  !.xmt = @ \cup {m.seg}, !.snd = @ \cup {m.seg}]
  <2> HIDE DEF last
  <2> QED BY <1>1 DEF TypeOK
<1>5. /\ rcb'[c].state \in InProgress /\ rcb'[c].queue = s /\ rcb'[c].txn = rcb[c].txn
      /\ rcb'[c].notSent = IF last THEN {h \in rcb[c].notSent : h <= m.seg} ELSE rcb[c].notSent
      /\ rcb'[c].xmt = rcb[c].xmt \cup {m.seg} /\ rcb'[c].sent = rcb[c].sent
  <2> HIDE DEF last
  <2> QED BY <1>3, <1>4 DEF RcbRecord, InProgress
<1>6. NeedsNoMore /\ Peers'
  BY <1>1, NeedsSame DEF IInv
<1>7. /\ \A y \in Sock : Distinct(repWait'[y])
      /\ OnList(repWait'[s], c)
      /\ \A y \in Sock : y # s => repWait'[y] = repWait[y]
      /\ \A y \in Sock : \A d : d # c => (OnList(repWait'[y], d) <=> OnList(repWait[y], d))
  BY <1>1, QueueReplyLists DEF IInv
<1>8. \A d \in Rcb \ {c} : Same(d)
  BY <1>1, <1>4, <1>7 DEF Same, timeVars
<1>9. Own(c)'
  BY <1>1, <1>3, <1>5 DEF Good, Own, timeVars, InProgress, Holds
<1>10. Kept(c)'
  <2> SUFFICES ASSUME NEW x \in Txn, x = rcb[c].txn, NEW h \in Needed(x)
               PROVE  /\ h \in rcb'[c].sent => h \in rcb'[c].xmt
                      /\ h < x.resp => h \in rcb'[c].notSent \cup rcb'[c].sent
    BY <1>5, <1>6 DEF Kept, NeedsNoMore
  <2>1. /\ h \in rcb[c].sent => h \in rcb[c].xmt
        /\ h < x.resp => h \in rcb[c].notSent \cup rcb[c].sent
    BY <1>3 DEF Good, Kept, Holds
  <2>2. h \in 0 .. 7 /\ m.seg \in 0 .. 7 /\ x.resp \in 1 .. 8 /\ x = m.txn
    BY <1>1, <1>2, TxnType DEF Needed, Seg
  <2>3. last /\ h < x.resp => h <= m.seg
    BY <2>2
  <2> HIDE DEF last
  <2> QED BY <1>5, <2>1, <2>3
<1> HIDE DEF last
<1>11. Placed(c)'
  <2>1. \A y \in Sock : c \in Active(y)' <=> y = s
    BY <1>3, <1>5 DEF Active, InProgress
  <2>2. \A y \in Sock : OnList(repWait[y], c) => y = s
    BY <1>3 DEF Good, Placed, Active
  <2>3. \A y \in Sock : ~OnList(unattached'[y], c)
    BY <1>1, <1>3 DEF Good, Placed, Unattached, InProgress
  <2> QED BY <1>5, <1>7, <2>1, <2>2, <2>3 DEF Placed, Unattached, InProgress
<1>12. \A d \in Rcb : c # d => Apart(c, d)' /\ Apart(d, c)'
  BY <1>3, <1>4, <1>5, HolderApart DEF IInv, Holds
<1>13. RcbsGood' /\ RcbsApart'
  BY <1>6, <1>8, <1>9, <1>10, <1>11, <1>12, OneOther DEF Good
<1>14. FinishPending'
  <2>1. \A y \in Sock : Active(y) \subseteq Active(y)'
    BY <1>3, <1>4, <1>5 DEF Active, InProgress
  <2> QED BY <1>1, <2>1, FinishKept DEF IInv
<1>15. Distincts'
  BY <1>1, <1>7 DEF IInv, Distincts
<1> QED BY <1>6, <1>13, <1>14, <1>15 DEF IInv

LEMMA ReleaseResponseInv ==
  ASSUME TypeOK, IInv, NEW s \in Sock, NEW c \in Rcb, ReleaseResponse(s, c)
  PROVE  IInv'
<1>1. c \in Active(s) /\ RcbFree(c, rcbTimer) /\ UNCHANGED peerVars
  BY DEF ReleaseResponse, Named
<1>2. NeedsNoMore /\ Peers'
  BY <1>1, NeedsSame DEF IInv
<1> QED BY <1>1, <1>2, ActiveInUse

-----------------------------------------------------------------------------
(* Closing a socket, and the steps that leave every rcb alone. *)

LEMMA CloseInv ==
  ASSUME TypeOK, IInv, NEW s \in Sock, AtpClose(s)
  PROVE  IInv'
<1>1. PICK own : own = Active(s) \cup {c \in Rcb : OnList(unattached[s], c)}
  OBVIOUS
<1>2. /\ rcb' = [c \in Rcb |-> IF c \in own THEN Freed(rcb[c]) ELSE rcb[c]]
      /\ rcbFree' = rcbFree \cup own
      /\ unattached' = [unattached EXCEPT ![s] = <<>>]
      /\ repWait' = [repWait EXCEPT ![s] = <<>>]
      /\ rcbTimer' = [c \in Rcb |-> IF c \in Active(s) THEN Untimeout(rcbTimer[c])
                                                       ELSE rcbTimer[c]]
      /\ clearTimer' = [c \in Rcb |-> IF c \in own /\ rcb[c].state = "FULL"
                                      THEN Untimeout(clearTimer[c]) ELSE clearTimer[c]]
      /\ finish' = [finish EXCEPT ![s] = FALSE]
      /\ UNCHANGED peerVars
  BY <1>1 DEF AtpClose
<1>3. own \subseteq Rcb /\ \A c \in Rcb : Good(c)
  BY <1>1 DEF Active, IInv, RcbsGood
<1>4. \A c \in own : rcb[c].queue = s
  BY <1>1, <1>3 DEF Good, Placed, Active
<1>5. /\ unattached'[s] = <<>> /\ repWait'[s] = <<>>
      /\ \A y \in Sock : y # s => unattached'[y] = unattached[y] /\ repWait'[y] = repWait[y]
  BY <1>2 DEF TypeOK
<1>6. NeedsNoMore /\ Peers'
  BY <1>2, NeedsSame DEF IInv
<1>7. \A d \in Rcb \ own : Same(d)
  <2> SUFFICES ASSUME NEW d \in Rcb, d \notin own PROVE Same(d)
    OBVIOUS
  <2>1. ~OnList(unattached[s], d) /\ ~OnList(repWait[s], d) /\ d \notin Active(s)
    BY <1>1, <1>3 DEF Good, Placed
  <2>2. \A y \in Sock : /\ OnList(unattached'[y], d) <=> OnList(unattached[y], d)
                        /\ OnList(repWait'[y], d) <=> OnList(repWait[y], d)
    BY <1>5, <2>1, EmptyList
  <2>3. /\ rcb'[d] = rcb[d] /\ (d \in rcbFree' <=> d \in rcbFree)
        /\ clearTimer'[d] = clearTimer[d] /\ rcbTimer'[d] = rcbTimer[d]
    BY <1>2, <2>1
  <2> QED BY <2>2, <2>3 DEF Same
<1>8. ASSUME NEW c \in own PROVE Good(c)' /\ \A d \in Rcb : Apart(c, d)' /\ Apart(d, c)'
  <2>1. c \in Rcb /\ rcb'[c] = Freed(rcb[c]) /\ c \in rcbFree'
    BY <1>2, <1>3
  <2>2. rcb'[c].state = "FREE" /\ rcb'[c].xmt = {} /\ rcb'[c].sent = {}
    BY <2>1 DEF Freed
  <2>3. clearTimer'[c] = 0
    <3>1. clearTimer[c] = IF rcb[c].state = "FULL" THEN 1 ELSE 0
      BY <1>3, <2>1 DEF Good, Own
    <3> QED BY <1>2, <2>1, <3>1 DEF Untimeout
  <2>4. \A y \in Sock : ~OnList(unattached'[y], c) /\ ~OnList(repWait'[y], c)
    <3>1. \A y \in Sock : y # s => ~OnList(unattached[y], c) /\ ~OnList(repWait[y], c)
      BY <1>3, <1>4, <2>1 DEF Good, Placed, Active
    <3> QED BY <1>5, <3>1, EmptyList
  <2>5. rcb'[c].state \notin Holds \cup {"IOCTL"}
    BY <2>2 DEF Holds, InProgress
  <2> QED BY <2>1, <2>2, <2>3, <2>4, <2>5, FreedGood, IdleApart
<1>9. RcbsGood' /\ RcbsApart'
  BY <1>3, <1>6, <1>7, <1>8, OthersSame
<1>10. FinishPending'
  <2> SUFFICES ASSUME NEW y \in Sock, finish'[y] PROVE Active(y)' # {}
    BY DEF FinishPending
  <2>1. y # s /\ finish[y]
    BY <1>2 DEF TypeOK
  <2>2. Active(y) \subseteq Active(y)'
    BY <1>4, <1>7, <2>1 DEF Active, Same
  <2> QED BY <2>1, <2>2 DEF IInv, FinishPending
<1>11. Distincts'
  BY <1>5, EmptyList DEF IInv, Distincts
<1> QED BY <1>6, <1>9, <1>10, <1>11 DEF IInv

(* A step that changes no rcb, no list and no timer, nor more of finish than *)
(* SET_FINISH does.                                                          *)
LEMMA UnchangedInv ==
  ASSUME IInv, NeedsNoMore, Peers',
         UNCHANGED <<rcbFree, rcb, unattached, repWait, timeVars>>,
         UNCHANGED finish \/ \A s \in Sock : finish'[s] => finish[s] \/ Active(s) # {}
  PROVE  IInv'
<1>1. \A d \in Rcb : Same(d)
  BY DEF Same, timeVars
<1>2. RcbsGood' /\ RcbsApart'
  <2>1. {} \in SUBSET Rcb
    OBVIOUS
  <2> QED BY <1>1, <2>1, OthersSame
<1>3. FinishPending' /\ Distincts'
  BY DEF IInv, FinishPending, Active, Distincts
<1> QED BY <1>2, <1>3 DEF IInv

LEMMA HearInv ==
  ASSUME TypeOK, IInv, NEW x \in Txn, NEW g \in Seg, Hear(x, g)
  PROVE  IInv'
<1>1. NeedsNoMore /\ Peers'
  BY HearPeer DEF IInv
<1> QED BY <1>1, UnchangedInv DEF Hear, rcbVars

LEMMA SetFinishInv ==
  ASSUME TypeOK, IInv, NEW s \in Sock, SetFinish(s)
  PROVE  IInv'
<1>1. NeedsNoMore /\ Peers'
  BY NeedsSame DEF IInv, SetFinish
<1>2. \A y \in Sock : finish'[y] => finish[y] \/ Active(y) # {}
  BY DEF SetFinish, TypeOK
<1> QED BY <1>1, <1>2, UnchangedInv DEF SetFinish

(* The steps of processes and of the streams system, and of the service *)
(* procedure that gets no further or refuses a command.                 *)
LEMMA NothingInv ==
  ASSUME IInv, UNCHANGED <<rcbFree, rcb, unattached, repWait, finish, timeVars, peerVars>>
  PROVE  IInv'
  BY NeedsSame, UnchangedInv DEF IInv

LEMMA OtherInv ==
  ASSUME IInv,
         \/ \E x \in Txn : Respond(x) \/ RespondAgain(x) \/ GiveUp(x)
         \/ \E s \in Sock :
              \/ \E op \in Commands : Ask(s, op)
              \/ Fill(s) \/ Drain(s) \/ Start(s) \/ Wwake(s) \/ Detach(s) \/ AtpOpen(s)
              \/ ReplyBlocked(s) \/ ReplyNoSpace(s) \/ RepliesDone(s)
              \/ Empty(s) \/ GetNoRcb(s) \/ PollEmpty(s) \/ NoSuchRequest(s)
  PROVE  IInv'
<1>1. CASE \E x \in Txn : Respond(x) \/ RespondAgain(x) \/ GiveUp(x)
  BY <1>1, NothingInv DEF Respond, RespondAgain, GiveUp, Give, rcbVars
<1>2. ASSUME NEW s \in Sock,
             \/ \E op \in Commands : Ask(s, op)
             \/ Fill(s) \/ Drain(s) \/ Start(s) \/ Wwake(s) \/ Detach(s) \/ AtpOpen(s)
      PROVE  IInv'
  BY <1>2, NothingInv DEF Ask, Give, Fill, Drain, Start, Wwake, Detach, AtpOpen, rcbVars
<1>3. ASSUME NEW s \in Sock,
             \/ ReplyBlocked(s) \/ ReplyNoSpace(s) \/ RepliesDone(s)
             \/ Empty(s) \/ GetNoRcb(s) \/ PollEmpty(s) \/ NoSuchRequest(s)
      PROVE  IInv'
  BY <1>3, NothingInv DEF ReplyBlocked, ReplyNoSpace, RepliesDone, Empty, GetNoRcb, PollEmpty,
                          NoSuchRequest, rcbVars
<1> QED BY <1>1, <1>2, <1>3

-----------------------------------------------------------------------------
(* The theorems. *)

LEMMA IInvStep == TypeOK /\ IInv /\ [Next]_vars => IInv'
<1> SUFFICES ASSUME TypeOK, IInv, [Next]_vars PROVE IInv'
  OBVIOUS
<1>1. CASE UNCHANGED vars
  BY <1>1, NothingInv DEF vars, rcbVars
<1>2. ASSUME NEW x \in Txn, Respond(x) \/ RespondAgain(x) \/ GiveUp(x) PROVE IInv'
  BY <1>2, OtherInv
<1>3. ASSUME NEW x \in Txn,
             \/ \E g \in Seg : Hear(x, g)
             \/ \E b \in asks[x] : RequestAgain(x, b) \/ RequestTaken(x, b) \/ RequestHold(x, b)
             \/ RequestHeld(x) \/ RecvRelease(x)
      PROVE  IInv'
  BY <1>3, HearInv, AgainInv, TakenInv, HoldInv, HeldInv, ReleaseInv
<1>4. ASSUME NEW s \in Sock,
             \/ \E op \in Commands : Ask(s, op)
             \/ Fill(s) \/ Drain(s) \/ Start(s) \/ Wwake(s) \/ Detach(s) \/ AtpOpen(s)
      PROVE  IInv'
  BY <1>4, OtherInv
<1>5. ASSUME NEW s \in Sock, AtpClose(s) PROVE IInv'
  BY <1>5, CloseInv
<1>6. ASSUME NEW s \in Sock, Walk(s) PROVE IInv'
  <2>1. CASE \/ ReplyBlocked(s) \/ ReplyNoSpace(s) \/ RepliesDone(s)
             \/ Empty(s) \/ GetNoRcb(s) \/ PollEmpty(s) \/ NoSuchRequest(s)
    BY <2>1, OtherInv
  <2>2. CASE ReplySegment(s) \/ ReplyDone(s) \/ PollTake(s) \/ SetFinish(s)
    BY <2>2, SegmentInv, ReplyDoneInv, PollTakeInv, SetFinishInv
  <2>3. ASSUME NEW c \in Rcb,
               \/ GetTooMany(s, c) \/ GetNoWait(s, c) \/ GetHeld(s, c) \/ GetWait(s, c)
               \/ SendResponse(s, c) \/ ReleaseResponse(s, c)
        PROVE  IInv'
    BY <2>3, GetInv, GetHeldInv, SendResponseInv, ReleaseResponseInv
  <2> QED BY <1>6, <2>1, <2>2, <2>3 DEF Walk
<1>7. ASSUME NEW c \in Rcb, RcbTimeout(c) \/ ClearTimeout(c) PROVE IInv'
  BY <1>7, RcbTimeoutInv, ClearInv
<1> QED BY <1>1, <1>2, <1>3, <1>4, <1>5, <1>6, <1>7 DEF Next

(* In every state, with the types. *)
LEMMA Inductive == Spec => [](TypeOK /\ IInv)
<1>1. Init => TypeOK
  BY InitType
<1>2. TypeOK /\ Init => IInv
  BY IInvInit
<1>3. TypeOK /\ IInv /\ [Next]_vars => IInv'
  BY IInvStep
<1> QED BY <1>1, <1>2, <1>3, TypeCorrect, PTL DEF Spec

(* No request is held by two rcbs, whatever is repeated, reordered or timed    *)
(* out: what a repetition finds (atp_rsrvc's searches of atp_rcb and            *)
(* atp_unattached) is the one there is.                                         *)
THEOREM NoRequestTwice == Spec => []NoTwins
<1>1. TypeOK /\ IInv => NoTwins
  BY IInvImplies
<1> QED BY <1>1, Inductive, PTL

(* No process of a socket waits for a request while another rcb of the socket *)
(* holds one, which would be dropped after a second unseen.                   *)
THEOREM NoRequestOverlooked == Spec => []NoneOverlooked
<1>1. TypeOK /\ IInv => NoneOverlooked
  BY IInvImplies
<1> QED BY <1>1, Inductive, PTL

(* What was sent and is not known to have been heard is there to be sent again: *)
(* atp_reply gives up only what the requester has.                              *)
THEOREM UnheardIsHeld == Spec => []HeldUntilHeard
<1>1. TypeOK /\ IInv => HeldUntilHeard
  BY IInvImplies
<1> QED BY <1>1, Inductive, PTL

(* No rcb whose response is complete is left without the timer that frees it,  *)
(* and no held request without its one second: an untimeout of atp_rsrvc takes *)
(* the timer away only from an rcb that will be through the reply loop again.  *)
THEOREM TimersAreRunning == Spec => []TimersRun
<1>1. TypeOK /\ IInv => TimersRun
  BY IInvImplies
<1> QED BY <1>1, Inductive, PTL

(* The list of replies to send holds the requests in progress that have some, *)
(* each once, and nothing that has been freed.                                *)
THEOREM ReplyListsExact == Spec => []ReplyListExact
<1>1. TypeOK /\ IInv => ReplyListExact
  BY IInvImplies
<1> QED BY <1>1, Inductive, PTL

(* A SET_FINISH that is put off has a request in progress whose end will *)
(* acknowledge it.                                                       *)
THEOREM FinishIsPending == Spec => []FinishPending
<1>1. TypeOK /\ IInv => FinishPending
  BY IInvImplies
<1> QED BY <1>1, Inductive, PTL
=============================================================================
