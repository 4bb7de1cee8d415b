--------------------------- MODULE AtpStreamProofs --------------------------
(***************************************************************************)
(* What the proofs about both sides of ATP need to know of AtpStream's     *)
(* lists and timers.  The lists hold an element at most once; then taking  *)
(* it off leaves the others, once, and nothing of it.                      *)
(***************************************************************************)
EXTENDS AtpStream, TLAPS

(* What untimeout leaves is a number of callouts. *)
LEMMA UntimeoutType == \A n \in Nat : Untimeout(n) \in Nat
  BY DEF Untimeout

(* No element is twice on the list. *)
Distinct(q) == \A i, j \in 1 .. Len(q) : q[i] = q[j] => i = j

(* Where the element that is taken off stood, and what is left. *)
LEMMA WithoutList ==
  ASSUME NEW S, NEW q \in Seq(S), NEW e, OnList(q, e)
  PROVE  \E k \in 1 .. Len(q) :
           /\ q[k] = e
           /\ Without(q, e) \in Seq(S)
           /\ Len(Without(q, e)) = Len(q) - 1
           /\ \A j \in 1 .. Len(q) - 1 : Without(q, e)[j] = IF j < k THEN q[j] ELSE q[j + 1]
<1> DEFINE k == CHOOSE j \in 1 .. Len(q) : q[j] = e
           w == [j \in 1 .. Len(q) - 1 |-> IF j < k THEN q[j] ELSE q[j + 1]]
<1>1. k \in 1 .. Len(q) /\ q[k] = e
  BY DEF OnList
<1>2. Without(q, e) = w
  BY DEF Without
<1>3. Len(q) - 1 \in Nat
  BY <1>1
<1>4. \A j \in 1 .. Len(q) - 1 : (IF j < k THEN q[j] ELSE q[j + 1]) \in S
  BY <1>1
<1>5. w \in Seq(S) /\ Len(w) = Len(q) - 1
  BY <1>3, <1>4
<1>6. \A j \in 1 .. Len(q) - 1 : w[j] = IF j < k THEN q[j] ELSE q[j + 1]
  OBVIOUS
<1> HIDE DEF k, w
<1> QED BY <1>1, <1>2, <1>5, <1>6

(* Taking a member off a list of tcbs, or of rcbs, leaves such a list. *)
LEMMA WithoutType ==
  ASSUME NEW S, NEW q \in Seq(S), NEW e
  PROVE  Without(q, e) \in Seq(S)
<1>1. CASE OnList(q, e)
  BY <1>1, WithoutList
<1>2. CASE ~OnList(q, e)
  BY <1>2 DEF Without
<1> QED BY <1>1, <1>2

(* Without an element that is on no list, a list stays as it is. *)
LEMMA WithoutNone ==
  ASSUME NEW q, NEW e, ~OnList(q, e)
  PROVE  Without(q, e) = q
  BY DEF Without

(* Of a list that holds each element once, the others stay, each once. *)
LEMMA WithoutOthers ==
  ASSUME NEW S, NEW q \in Seq(S), NEW e, Distinct(q)
  PROVE  /\ Distinct(Without(q, e))
         /\ ~OnList(Without(q, e), e)
         /\ \A u : u # e => (OnList(Without(q, e), u) <=> OnList(q, u))
<1>1. CASE ~OnList(q, e)
  BY <1>1, WithoutNone
<1>2. CASE OnList(q, e)
  <2> DEFINE w == Without(q, e)
  <2>1. PICK k \in 1 .. Len(q) :
           /\ q[k] = e
           /\ w \in Seq(S)
           /\ Len(w) = Len(q) - 1
           /\ \A j \in 1 .. Len(q) - 1 : w[j] = IF j < k THEN q[j] ELSE q[j + 1]
    BY <1>2, WithoutList
  <2> HIDE DEF w
  <2>2. Len(q) \in Nat /\ 1 .. Len(w) = 1 .. Len(q) - 1
    BY <2>1
  <2>3. Distinct(w)
    <3> SUFFICES ASSUME NEW i \in 1 .. Len(w), NEW j \in 1 .. Len(w), w[i] = w[j]
                 PROVE  i = j
      BY DEF Distinct
    <3>1. \A n \in 1 .. Len(w) : n \in 1 .. Len(q) /\ n + 1 \in 1 .. Len(q)
      BY <2>2
    <3>2. PICK a \in 1 .. Len(q) : w[i] = q[a] /\ a = IF i < k THEN i ELSE i + 1
      BY <2>1, <2>2, <3>1
    <3>3. PICK b \in 1 .. Len(q) : w[j] = q[b] /\ b = IF j < k THEN j ELSE j + 1
      BY <2>1, <2>2, <3>1
    <3>4. a = b
      BY <3>2, <3>3 DEF Distinct
    <3> QED BY <2>2, <3>2, <3>3, <3>4
  <2>4. ~OnList(w, e)
    <3> SUFFICES ASSUME NEW i \in 1 .. Len(w), w[i] = e PROVE FALSE
      BY DEF OnList
    <3>1. PICK a \in 1 .. Len(q) : w[i] = q[a] /\ a = IF i < k THEN i ELSE i + 1
      BY <2>1, <2>2
    <3>2. a = k
      BY <2>1, <3>1 DEF Distinct
    <3> QED BY <2>2, <3>1, <3>2
  <2>5. ASSUME NEW u, u # e, OnList(w, u) PROVE OnList(q, u)
    BY <2>1, <2>2, <2>5 DEF OnList
  <2>6. ASSUME NEW u, u # e, OnList(q, u) PROVE OnList(w, u)
    <3>1. PICK a \in 1 .. Len(q) : q[a] = u
      BY <2>6 DEF OnList
    <3>2. a # k
      BY <2>1, <2>6, <3>1
    <3>3. CASE a < k
      <4>1. a \in 1 .. Len(w) /\ w[a] = u
        BY <2>1, <2>2, <3>1, <3>3
      <4> QED BY <4>1 DEF OnList
    <3>4. CASE a > k
      <4>1. a - 1 \in 1 .. Len(w) /\ w[a - 1] = u
        BY <2>1, <2>2, <3>1, <3>4
      <4> QED BY <4>1 DEF OnList
    <3> QED BY <2>1, <2>2, <3>2, <3>3, <3>4
  <2> QED BY <2>3, <2>4, <2>5, <2>6 DEF w
<1> QED BY <1>1, <1>2

(* An element not yet on the list may be put at its end. *)
LEMMA AppendOthers ==
  ASSUME NEW S, NEW q \in Seq(S), NEW e \in S
  PROVE  /\ Append(q, e) \in Seq(S)
         /\ Distinct(q) /\ ~OnList(q, e) => Distinct(Append(q, e))
         /\ OnList(Append(q, e), e)
         /\ \A u : u # e => (OnList(Append(q, e), u) <=> OnList(q, u))
<1> DEFINE w == Append(q, e)
<1>1. /\ w \in Seq(S) /\ Len(w) = Len(q) + 1 /\ Len(q) \in Nat
      /\ \A i \in 1 .. Len(q) : w[i] = q[i]
      /\ w[Len(q) + 1] = e
  OBVIOUS
<1> HIDE DEF w
<1>2. ASSUME Distinct(q), ~OnList(q, e) PROVE Distinct(w)
  <2> SUFFICES ASSUME NEW i \in 1 .. Len(w), NEW j \in 1 .. Len(w), w[i] = w[j]
               PROVE  i = j
    BY DEF Distinct
  <2>1. \A n \in 1 .. Len(w) : n \in 1 .. Len(q) \/ n = Len(q) + 1
    BY <1>1
  <2>2. \A n \in 1 .. Len(q) : q[n] # e
    BY <1>2 DEF OnList
  <2> QED BY <1>1, <1>2, <2>1, <2>2 DEF Distinct
<1>3. OnList(w, e)
  <2>1. Len(q) + 1 \in 1 .. Len(w)
    BY <1>1
  <2> QED BY <1>1, <2>1 DEF OnList
<1>4. ASSUME NEW u, u # e PROVE OnList(w, u) <=> OnList(q, u)
  <2>1. \A n \in 1 .. Len(w) : n \in 1 .. Len(q) \/ n = Len(q) + 1
    BY <1>1
  <2>2. 1 .. Len(q) \subseteq 1 .. Len(w)
    BY <1>1
  <2> QED BY <1>1, <1>4, <2>1, <2>2 DEF OnList
<1> QED BY <1>1, <1>2, <1>3, <1>4 DEF w

(* An empty list holds nothing. *)
LEMMA EmptyList == Distinct(<<>>) /\ \A e : ~OnList(<<>>, e)
  BY DEF Distinct, OnList

(* The first element of a list is on it; without it the tail is left. *)
LEMMA HeadOnList ==
  ASSUME NEW S, NEW q \in Seq(S), q # <<>>
  PROVE  Head(q) \in S /\ OnList(q, Head(q))
<1>1. 1 \in 1 .. Len(q) /\ Head(q) = q[1]
  OBVIOUS
<1> QED BY <1>1 DEF OnList

(* Taking the first element off a list leaves the others, each once. *)
LEMMA TailOthers ==
  ASSUME NEW S, NEW q \in Seq(S), q # <<>>, Distinct(q)
  PROVE  /\ Tail(q) \in Seq(S)
         /\ Distinct(Tail(q))
         /\ ~OnList(Tail(q), Head(q))
         /\ \A u : u # Head(q) => (OnList(Tail(q), u) <=> OnList(q, u))
<1> DEFINE w == Tail(q)
<1>1. /\ w \in Seq(S) /\ Len(w) = Len(q) - 1 /\ Len(q) \in Nat /\ Len(q) > 0
      /\ \A i \in 1 .. Len(w) : i + 1 \in 1 .. Len(q) /\ w[i] = q[i + 1]
      /\ Head(q) = q[1]
  OBVIOUS
<1> HIDE DEF w
<1>2. Distinct(w)
  <2> SUFFICES ASSUME NEW i \in 1 .. Len(w), NEW j \in 1 .. Len(w), w[i] = w[j]
               PROVE  i = j
    BY DEF Distinct
  <2>1. i + 1 = j + 1
    BY <1>1 DEF Distinct
  <2> QED BY <2>1
<1>3. ~OnList(w, Head(q))
  <2> SUFFICES ASSUME NEW i \in 1 .. Len(w), w[i] = Head(q) PROVE FALSE
    BY DEF OnList
  <2>1. 1 \in 1 .. Len(q) /\ q[i + 1] = q[1] /\ i + 1 \in 1 .. Len(q)
    BY <1>1
  <2>2. i + 1 = 1
    BY <2>1 DEF Distinct
  <2> QED BY <2>2
<1>4. ASSUME NEW u, u # Head(q) PROVE OnList(w, u) <=> OnList(q, u)
  <2>1. ASSUME OnList(w, u) PROVE OnList(q, u)
    BY <1>1, <2>1 DEF OnList
  <2>2. ASSUME OnList(q, u) PROVE OnList(w, u)
    <3>1. PICK i \in 1 .. Len(q) : q[i] = u
      BY <2>2 DEF OnList
    <3>2. i # 1
      BY <1>1, <1>4, <3>1
    <3>3. i - 1 \in 1 .. Len(w) /\ w[i - 1] = u
      BY <1>1, <3>1, <3>2
    <3> QED BY <3>3 DEF OnList
  <2> QED BY <2>1, <2>2
<1> QED BY <1>1, <1>2, <1>3, <1>4 DEF w
=============================================================================
