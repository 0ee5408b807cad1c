-------------------------- MODULE WorkQueueProofs --------------------------
(***************************************************************************)
(* Proofs about kernel/workqueue.c for any works, callers and CPUs.        *)
(*                                                                         *)
(* An item is claimed by what may run it next or keep it from running: a   *)
(* place on a list, a worker that has picked it, and for works the timer,  *)
(* the thread that set PENDING, and a canceller that got hold of it.  Inv  *)
(* says that each item has one claim as long as its PENDING bit is set, or *)
(* its owner waits for it if it is a barrier, and none otherwise.  Every   *)
(* step gives, moves or drops one claim.                                   *)
(***************************************************************************)
EXTENDS WorkQueue, SequenceTheorems, FiniteSetTheorems, WellFoundedInduction, TLAPS

-----------------------------------------------------------------------------
(* Lists: what list_add_tail (Append), list_add at a place (InsertAt),     *)
(* list_del (RemoveFirst) and list_del of the first item (Tail) do to what *)
(* is on a list and in which order.                                        *)

(* A nonempty set of natural numbers has a least element, which Min finds. *)
LEMMA MinIsMember ==
  ASSUME NEW T \in SUBSET Nat, T # {}
  PROVE  Min(T) \in T
<1> DEFINE R == {p \in Nat \X Nat : p[1] < p[2]}
<1>1. IsWellFoundedOn(R, Nat)
  BY NatLessThanWellFounded, Zenon DEF OpToRel
<1>2. PICK x \in T : \A y \in T : ~(<<y, x>> \in R)
  <2> HIDE DEF R
  <2> QED  BY <1>1, WFMin
<1>3. \A y \in T : x <= y
  <2> TAKE y \in T
  <2>1. x \in Nat /\ y \in Nat
    OBVIOUS
  <2>2. y < x => <<y, x>> \in R
    BY <2>1
  <2> QED
    BY <1>2, <2>1, <2>2
<1> QED
  BY <1>3 DEF Min

(* Taking e off a queue where it stands: the result drops one position.    *)
LEMMA RemoveFirstIsRemoveAt ==
  ASSUME NEW S, NEW s \in Seq(S), NEW e, \E i \in 1 .. Len(s) : s[i] = e
  PROVE  \E i \in 1 .. Len(s) : s[i] = e /\ RemoveFirst(s, e) = RemoveAt(s, i)
<1> DEFINE I == {i \in 1 .. Len(s) : s[i] = e}
           k == Min(I)
<1>1. k \in I
  <2>1. I \in SUBSET Nat /\ I # {}
    OBVIOUS
  <2> QED
    BY <2>1, MinIsMember
<1>2. SelectInSeq(s, LAMBDA v : v = e) = k
  BY DEF SelectInSeq
<1> QED
  BY <1>1, <1>2 DEF RemoveFirst

(* The parts of a queue around a removed position.                         *)
LEMMA RemoveAtProperties ==
  ASSUME NEW S, NEW s \in Seq(S), NEW i \in 1 .. Len(s)
  PROVE  /\ RemoveAt(s, i) \in Seq(S)
         /\ Len(RemoveAt(s, i)) = Len(s) - 1
         /\ \A j \in 1 .. (Len(s) - 1) :
              RemoveAt(s, i)[j] = IF j < i THEN s[j] ELSE s[j + 1]
<1> DEFINE a == SubSeq(s, 1, i - 1)
           b == SubSeq(s, i + 1, Len(s))
<1>1. /\ a \in Seq(S) /\ Len(a) = i - 1
      /\ \A j \in 1 .. (i - 1) : a[j] = s[j]
  <2>1. \A j \in 1 .. (i - 1) : s[j] \in S
    OBVIOUS
  <2> QED
    BY <2>1, SubSeqProperties
<1>2. /\ b \in Seq(S) /\ Len(b) = Len(s) - i
      /\ \A j \in 1 .. (Len(s) - i) : b[j] = s[i + j]
  <2>1. \A j \in (i + 1) .. Len(s) : s[j] \in S
    OBVIOUS
  <2> QED
    BY <2>1, SubSeqProperties
<1>3. RemoveAt(s, i) = a \o b
  BY DEF RemoveAt
<1> HIDE DEF a, b
<1>4. /\ a \o b \in Seq(S) /\ Len(a \o b) = Len(a) + Len(b)
      /\ \A j \in 1 .. (Len(a) + Len(b)) :
           (a \o b)[j] = IF j <= Len(a) THEN a[j] ELSE b[j - Len(a)]
  BY <1>1, <1>2, ConcatProperties
<1>5. Len(s) \in Nat
  OBVIOUS
<1>6. Len(a) + Len(b) = Len(s) - 1
  BY <1>1, <1>2, <1>5
<1>7. ASSUME NEW j \in 1 .. (Len(s) - 1)
      PROVE  (a \o b)[j] = IF j < i THEN s[j] ELSE s[j + 1]
  <2>1. CASE j < i
    BY <2>1, <1>1, <1>4, <1>5, <1>6
  <2>2. CASE ~(j < i)
    <3>1. (a \o b)[j] = b[j - Len(a)]
      BY <2>2, <1>1, <1>4, <1>5, <1>6
    <3>2. j - Len(a) \in 1 .. (Len(s) - i) /\ i + (j - Len(a)) = j + 1
      BY <2>2, <1>1, <1>5
    <3> QED
      BY <2>2, <3>1, <3>2, <1>2
  <2> QED
    BY <2>1, <2>2
<1> QED
  BY <1>3, <1>4, <1>6, <1>7

(* Membership in a queue and uniqueness of its members, by position.       *)
LEMMA QueueMembers ==
  ASSUME NEW S, NEW s \in Seq(S)
  PROVE  /\ \A e : e \in Range(s) <=> \E i \in 1 .. Len(s) : s[i] = e
         /\ IsInjective(s) <=>
              \A i, j \in 1 .. Len(s) : s[i] = s[j] => i = j
<1>1. DOMAIN s = 1 .. Len(s)
  OBVIOUS
<1>2. \A e : e \in Range(s) <=> \E i \in 1 .. Len(s) : s[i] = e
  BY <1>1, Zenon DEF Range
<1>3. IsInjective(s) <=> \A i, j \in 1 .. Len(s) : s[i] = s[j] => i = j
  BY <1>1, Zenon DEF IsInjective
<1> QED
  BY <1>2, <1>3

(* list_add_tail of a task that is not queued.                             *)
LEMMA AppendQueue ==
  ASSUME NEW S, NEW s \in Seq(S), NEW e \in S, IsInjective(s), e \notin Range(s)
  PROVE  /\ Append(s, e) \in Seq(S)
         /\ IsInjective(Append(s, e))
         /\ \A x : x \in Range(Append(s, e)) <=> x \in Range(s) \/ x = e
<1> DEFINE q == Append(s, e)
<1>1. /\ q \in Seq(S) /\ Len(q) = Len(s) + 1 /\ q[Len(s) + 1] = e
      /\ \A i \in 1 .. Len(s) : q[i] = s[i]
  BY AppendProperties
<1>2. Len(s) \in Nat
  OBVIOUS
<1> HIDE DEF q
<1>3. \A i, j \in 1 .. Len(q) : q[i] = q[j] => i = j
  <2>1. \A i, j \in 1 .. Len(s) : s[i] = s[j] => i = j
    BY QueueMembers
  <2>2. \A i \in 1 .. Len(s) : s[i] # e
    BY QueueMembers
  <2> QED
    BY <1>1, <1>2, <2>1, <2>2
<1>4. \A x : (\E i \in 1 .. Len(q) : q[i] = x)
               <=> (\E i \in 1 .. Len(s) : s[i] = x) \/ x = e
  BY <1>1, <1>2
<1>5. IsInjective(q)
  BY <1>1, <1>3, QueueMembers
<1>6. \A x : x \in Range(q) <=> x \in Range(s) \/ x = e
  <2>1. \A x : x \in Range(q) <=> \E i \in 1 .. Len(q) : q[i] = x
    BY <1>1, QueueMembers
  <2>2. \A x : x \in Range(s) <=> \E i \in 1 .. Len(s) : s[i] = x
    BY QueueMembers
  <2> QED
    BY <1>4, <2>1, <2>2
<1> QED
  BY <1>1, <1>5, <1>6 DEF q

(* A queue without repetitions from which position i is dropped.           *)
LEMMA RemoveAtQueue ==
  ASSUME NEW S, NEW s \in Seq(S), NEW i \in 1 .. Len(s), IsInjective(s)
  PROVE  /\ RemoveAt(s, i) \in Seq(S)
         /\ IsInjective(RemoveAt(s, i))
         /\ \A x : x \in Range(RemoveAt(s, i)) <=> x \in Range(s) /\ x # s[i]
<1> DEFINE q == RemoveAt(s, i)
<1>1. /\ q \in Seq(S) /\ Len(q) = Len(s) - 1
      /\ \A j \in 1 .. (Len(s) - 1) : q[j] = IF j < i THEN s[j] ELSE s[j + 1]
  BY RemoveAtProperties
<1>2. Len(s) \in Nat
  OBVIOUS
<1> HIDE DEF q
<1>3. \A j, k \in 1 .. Len(s) : s[j] = s[k] => j = k
  BY QueueMembers
<1>4. ASSUME NEW j \in 1 .. Len(q), NEW k \in 1 .. Len(q), q[j] = q[k]
      PROVE  j = k
  <2>1. /\ j \in 1 .. Len(s) /\ j + 1 \in 1 .. Len(s)
        /\ k \in 1 .. Len(s) /\ k + 1 \in 1 .. Len(s)
    BY <1>1, <1>2
  <2>2. /\ q[j] = IF j < i THEN s[j] ELSE s[j + 1]
        /\ q[k] = IF k < i THEN s[k] ELSE s[k + 1]
    BY <1>1
  <2>3. CASE j < i /\ k < i
    BY <1>3, <1>4, <2>1, <2>2, <2>3
  <2>4. CASE j < i /\ ~(k < i)
    <3>1. j = k + 1
      BY <1>3, <1>4, <2>1, <2>2, <2>4
    <3> QED
      BY <3>1, <2>4
  <2>5. CASE ~(j < i) /\ k < i
    <3>1. j + 1 = k
      BY <1>3, <1>4, <2>1, <2>2, <2>5
    <3> QED
      BY <3>1, <2>5
  <2>6. CASE ~(j < i) /\ ~(k < i)
    <3>1. j + 1 = k + 1
      BY <1>3, <1>4, <2>1, <2>2, <2>6
    <3> QED
      BY <3>1
  <2> QED
    BY <2>3, <2>4, <2>5, <2>6
<1>5. ASSUME NEW x
      PROVE  (\E j \in 1 .. Len(q) : q[j] = x)
               <=> (\E j \in 1 .. Len(s) : s[j] = x) /\ x # s[i]
  <2>1. ASSUME NEW j \in 1 .. Len(q), q[j] = x
        PROVE  (\E k \in 1 .. Len(s) : s[k] = x) /\ x # s[i]
    <3>1. CASE j < i
      BY <2>1, <3>1, <1>1, <1>2, <1>3
    <3>2. CASE ~(j < i)
      <4>1. j + 1 \in 1 .. Len(s) /\ s[j + 1] = x /\ j + 1 # i
        BY <2>1, <3>2, <1>1, <1>2
      <4> QED
        BY <4>1, <1>3
    <3> QED
      BY <3>1, <3>2
  <2>2. ASSUME NEW j \in 1 .. Len(s), s[j] = x, x # s[i]
        PROVE  \E k \in 1 .. Len(q) : q[k] = x
    <3>1. CASE j < i
      BY <2>2, <3>1, <1>1, <1>2
    <3>2. CASE ~(j < i)
      <4>1. j - 1 \in 1 .. Len(q) /\ ~(j - 1 < i) /\ (j - 1) + 1 = j
        BY <2>2, <3>2, <1>1, <1>2
      <4> QED
        BY <4>1, <2>2, <1>1
    <3> QED
      BY <3>1, <3>2
  <2> QED
    BY <2>1, <2>2
<1>6. IsInjective(q)
  BY <1>1, <1>4, QueueMembers
<1>7. \A x : x \in Range(q) <=> x \in Range(s) /\ x # s[i]
  <2>1. \A x : x \in Range(q) <=> \E j \in 1 .. Len(q) : q[j] = x
    BY <1>1, QueueMembers
  <2>2. \A x : x \in Range(s) <=> \E j \in 1 .. Len(s) : s[j] = x
    BY QueueMembers
  <2> QED
    BY <1>5, <2>1, <2>2
<1> QED
  BY <1>1, <1>6, <1>7 DEF q

(* list_del of a queued task.                                              *)
LEMMA RemoveFirstQueue ==
  ASSUME NEW S, NEW s \in Seq(S), NEW e, IsInjective(s), e \in Range(s)
  PROVE  /\ RemoveFirst(s, e) \in Seq(S)
         /\ IsInjective(RemoveFirst(s, e))
         /\ \A x : x \in Range(RemoveFirst(s, e)) <=> x \in Range(s) /\ x # e
<1>1. PICK i \in 1 .. Len(s) : s[i] = e /\ RemoveFirst(s, e) = RemoveAt(s, i)
  <2>1. \E i \in 1 .. Len(s) : s[i] = e
    BY QueueMembers
  <2> QED
    BY <2>1, RemoveFirstIsRemoveAt
<1> QED
  BY <1>1, RemoveAtQueue

(* list_del of the first task.                                             *)
LEMMA TailQueue ==
  ASSUME NEW S, NEW s \in Seq(S), IsInjective(s), s # <<>>
  PROVE  /\ Head(s) \in S /\ Head(s) \in Range(s)
         /\ Tail(s) \in Seq(S)
         /\ IsInjective(Tail(s))
         /\ \A x : x \in Range(Tail(s)) <=> x \in Range(s) /\ x # Head(s)
<1>1. /\ Tail(s) \in Seq(S) /\ Len(Tail(s)) = Len(s) - 1
      /\ \A i \in 1 .. Len(Tail(s)) : Tail(s)[i] = s[i + 1]
  BY HeadTailProperties
<1>2. Len(s) \in Nat /\ 1 \in 1 .. Len(s) /\ Head(s) = s[1]
  OBVIOUS
<1>3. /\ RemoveAt(s, 1) \in Seq(S) /\ Len(RemoveAt(s, 1)) = Len(s) - 1
      /\ \A j \in 1 .. (Len(s) - 1) : RemoveAt(s, 1)[j] = s[j + 1]
  BY <1>2, RemoveAtProperties
<1>4. Tail(s) = RemoveAt(s, 1)
  BY <1>1, <1>3, SeqEqual
<1>5. Head(s) \in Range(s)
  BY <1>2, QueueMembers
<1>6. /\ IsInjective(RemoveAt(s, 1))
      /\ \A x : x \in Range(RemoveAt(s, 1)) <=> x \in Range(s) /\ x # s[1]
  BY <1>2, RemoveAtQueue
<1>7. Head(s) \in S
  BY HeadTailProperties
<1> QED
  BY <1>1, <1>2, <1>4, <1>5, <1>6, <1>7, Zenon

(* A new element at position i, the ones from there on moved up.           *)
LEMMA InsertAtProperties ==
  ASSUME NEW S, NEW s \in Seq(S), NEW e \in S, NEW i \in 1 .. (Len(s) + 1)
  PROVE  /\ InsertAt(s, i, e) \in Seq(S)
         /\ Len(InsertAt(s, i, e)) = Len(s) + 1
         /\ \A j \in 1 .. (Len(s) + 1) :
              InsertAt(s, i, e)[j] = IF j < i THEN s[j]
                                     ELSE IF j = i THEN e ELSE s[j - 1]
<1> DEFINE a == SubSeq(s, 1, i - 1)
           b == SubSeq(s, i, Len(s))
           c == a \o <<e>>
<1>0. Len(s) \in Nat
  OBVIOUS
<1>1. /\ a \in Seq(S) /\ Len(a) = i - 1
      /\ \A j \in 1 .. (i - 1) : a[j] = s[j]
  <2>1. \A j \in 1 .. (i - 1) : s[j] \in S
    BY <1>0
  <2> QED
    BY <1>0, <2>1, SubSeqProperties
<1>2. /\ b \in Seq(S) /\ Len(b) = Len(s) - i + 1
      /\ \A j \in 1 .. (Len(s) - i + 1) : b[j] = s[i + j - 1]
  <2>1. \A j \in i .. Len(s) : s[j] \in S
    BY <1>0
  <2> QED
    BY <1>0, <2>1, SubSeqProperties
<1>3. InsertAt(s, i, e) = c \o b
  BY DEF InsertAt
<1> HIDE DEF a, b
<1>4. /\ c \in Seq(S) /\ Len(c) = i /\ c[i] = e
      /\ \A j \in 1 .. (i - 1) : c[j] = s[j]
  BY <1>0, <1>1
<1> HIDE DEF c
<1>5. /\ c \o b \in Seq(S) /\ Len(c \o b) = Len(c) + Len(b)
      /\ \A j \in 1 .. (Len(c) + Len(b)) :
           (c \o b)[j] = IF j <= Len(c) THEN c[j] ELSE b[j - Len(c)]
  BY <1>2, <1>4, ConcatProperties
<1>6. Len(c) + Len(b) = Len(s) + 1
  BY <1>0, <1>2, <1>4
<1>7. ASSUME NEW j \in 1 .. (Len(s) + 1)
      PROVE  (c \o b)[j] = IF j < i THEN s[j] ELSE IF j = i THEN e ELSE s[j - 1]
  <2>1. CASE j <= i
    BY <2>1, <1>0, <1>4, <1>5, <1>6
  <2>2. CASE ~(j <= i)
    <3>1. (c \o b)[j] = b[j - i]
      BY <2>2, <1>0, <1>4, <1>5, <1>6
    <3>2. j - i \in 1 .. (Len(s) - i + 1) /\ i + (j - i) - 1 = j - 1
      BY <2>2, <1>0
    <3> QED
      BY <2>2, <3>1, <3>2, <1>2
  <2> QED
    BY <2>1, <2>2
<1> QED
  BY <1>3, <1>5, <1>6, <1>7

(* Whatever is inserted, nothing else comes or goes.                       *)
LEMMA InsertAtMembers ==
  ASSUME NEW S, NEW s \in Seq(S), NEW e \in S, NEW i \in 1 .. (Len(s) + 1)
  PROVE  \A x : x \in Range(InsertAt(s, i, e)) <=> x \in Range(s) \/ x = e
<1> DEFINE q == InsertAt(s, i, e)
<1>1. /\ q \in Seq(S) /\ Len(q) = Len(s) + 1
      /\ \A j \in 1 .. (Len(s) + 1) :
           q[j] = IF j < i THEN s[j] ELSE IF j = i THEN e ELSE s[j - 1]
  BY InsertAtProperties, SMTT(60)
<1>2. Len(s) \in Nat
  OBVIOUS
<1> HIDE DEF q
<1>3. ASSUME NEW x
      PROVE  (\E j \in 1 .. Len(q) : q[j] = x)
               <=> (\E j \in 1 .. Len(s) : s[j] = x) \/ x = e
  <2>1. ASSUME NEW j \in 1 .. Len(q), q[j] = x
        PROVE  (\E k \in 1 .. Len(s) : s[k] = x) \/ x = e
    <3>1. CASE j < i
      BY <2>1, <3>1, <1>1, <1>2
    <3>2. CASE j = i
      BY <2>1, <3>2, <1>1, <1>2
    <3>3. CASE j > i
      <4>1. j - 1 \in 1 .. Len(s) /\ q[j] = s[j - 1]
        BY <3>3, <1>1, <1>2
      <4> QED
        BY <2>1, <4>1
    <3> QED
      BY <3>1, <3>2, <3>3, <1>2
  <2>2. ASSUME NEW j \in 1 .. Len(s)
        PROVE  \E k \in 1 .. Len(q) : q[k] = s[j]
    <3>1. CASE j < i
      <4>1. j \in 1 .. Len(q) /\ q[j] = s[j]
        BY <3>1, <1>1, <1>2
      <4> QED
        BY <4>1
    <3>2. CASE ~(j < i)
      <4>1. j + 1 \in 1 .. Len(q) /\ ~(j + 1 < i) /\ j + 1 # i /\ (j + 1) - 1 = j
        BY <3>2, <1>1, <1>2
      <4> QED
        BY <4>1, <1>1
    <3> QED
      BY <3>1, <3>2
  <2>3. i \in 1 .. Len(q) /\ q[i] = e
    BY <1>1, <1>2
  <2> QED
    BY <2>1, <2>2, <2>3
<1>4. \A x : x \in Range(q) <=> x \in Range(s) \/ x = e
  <2>1. \A x : x \in Range(q) <=> \E j \in 1 .. Len(q) : q[j] = x
    BY <1>1, QueueMembers
  <2>2. \A x : x \in Range(s) <=> \E j \in 1 .. Len(s) : s[j] = x
    BY QueueMembers
  <2> QED
    BY <1>3, <2>1, <2>2
<1> QED
  BY <1>4 DEF q

(* list_add of an element that is not queued, anywhere in the queue.       *)
LEMMA InsertAtQueue ==
  ASSUME NEW S, NEW s \in Seq(S), NEW e \in S, NEW i \in 1 .. (Len(s) + 1),
         IsInjective(s), e \notin Range(s)
  PROVE  /\ InsertAt(s, i, e) \in Seq(S)
         /\ IsInjective(InsertAt(s, i, e))
         /\ \A x : x \in Range(InsertAt(s, i, e)) <=> x \in Range(s) \/ x = e
<1> DEFINE q == InsertAt(s, i, e)
<1>1. /\ q \in Seq(S) /\ Len(q) = Len(s) + 1
      /\ \A j \in 1 .. (Len(s) + 1) :
           q[j] = IF j < i THEN s[j] ELSE IF j = i THEN e ELSE s[j - 1]
  BY InsertAtProperties, SMTT(60)
<1>2. Len(s) \in Nat
  OBVIOUS
<1> HIDE DEF q
<1>3. /\ \A j, k \in 1 .. Len(s) : s[j] = s[k] => j = k
      /\ \A j \in 1 .. Len(s) : s[j] # e
  BY QueueMembers
<1>4. ASSUME NEW j \in 1 .. Len(q), NEW k \in 1 .. Len(q), q[j] = q[k]
      PROVE  j = k
  <2> DEFINE down(m) == IF m < i THEN m ELSE m - 1
  <2>1. ASSUME NEW m \in 1 .. Len(q), m # i
        PROVE  down(m) \in 1 .. Len(s) /\ q[m] = s[down(m)]
    BY <2>1, <1>1, <1>2
  <2>2. q[i] = e /\ i \in 1 .. Len(q)
    BY <1>1, <1>2
  <2>3. CASE j = i \/ k = i
    BY <2>1, <2>2, <2>3, <1>3, <1>4
  <2>4. CASE j # i /\ k # i
    <3>1. down(j) = down(k)
      <4> HIDE DEF down
      <4> QED
        BY <2>1, <2>4, <1>3, <1>4
    <3> QED
      BY <2>4, <3>1, <1>2
  <2> QED
    BY <2>3, <2>4
<1>5. IsInjective(q)
  BY <1>1, <1>4, QueueMembers
<1> QED
  BY <1>1, <1>5, InsertAtMembers DEF q

(* The innermost element of a stack.                                       *)
LEMMA StackPop ==
  ASSUME NEW S, NEW s \in Seq(S), s # <<>>
  PROVE  /\ Last(s) \in S /\ Last(s) \in Range(s)
         /\ Front(s) \in Seq(S)
         /\ \A x : x \in Range(Front(s)) => x \in Range(s)
<1>0. Len(s) \in Nat
  OBVIOUS
<1>1. Len(s) \in 1 .. Len(s)
  BY <1>0, EmptySeq
<1>2. Last(s) \in S /\ Last(s) \in Range(s)
  BY <1>1, QueueMembers DEF Last
<1>3. /\ Front(s) \in Seq(S) /\ Len(Front(s)) = Len(s) - 1
      /\ \A j \in 1 .. (Len(s) - 1) : Front(s)[j] = s[j]
  <2>1. PICK n \in Nat : n = Len(s) - 1
    BY <1>0, <1>1
  <2>2. \A j \in 1 .. n : s[j] \in S
    BY <1>0, <2>1
  <2>3. /\ SubSeq(s, 1, n) \in Seq(S) /\ Len(SubSeq(s, 1, n)) = n
        /\ \A j \in 1 .. n : SubSeq(s, 1, n)[j] = s[j]
    BY <2>2, SubSeqProperties
  <2> QED
    BY <2>1, <2>3 DEF Front
<1>4. \A x : x \in Range(Front(s)) => \E j \in 1 .. (Len(s) - 1) : s[j] = x
  BY <1>3, QueueMembers
<1>5. \A x : x \in Range(Front(s)) => x \in Range(s)
  BY <1>0, <1>4, QueueMembers
<1> QED
  BY <1>2, <1>3, <1>5

(* A new innermost element.                                                *)
LEMMA StackPush ==
  ASSUME NEW S, NEW s \in Seq(S), NEW x \in S
  PROVE  /\ Append(s, x) \in Seq(S) /\ Append(s, x) # <<>>
         /\ Last(Append(s, x)) = x
         /\ \A y : y \in Range(Append(s, x)) <=> y \in Range(s) \/ y = x
<1> DEFINE q == Append(s, x)
<1>0. Len(s) \in Nat
  OBVIOUS
<1>1. /\ q \in Seq(S) /\ Len(q) = Len(s) + 1 /\ q[Len(s) + 1] = x
      /\ \A i \in 1 .. Len(s) : q[i] = s[i]
  BY AppendProperties
<1> HIDE DEF q
<1>2. q # <<>> /\ Last(q) = x
  BY <1>0, <1>1 DEF Last
<1>3. \A y : y \in Range(q) <=> \E j \in 1 .. Len(q) : q[j] = y
  BY <1>1, QueueMembers
<1>4. \A y : y \in Range(s) <=> \E j \in 1 .. Len(s) : s[j] = y
  BY QueueMembers
<1>5. \A y : (\E j \in 1 .. Len(q) : q[j] = y)
               <=> (\E j \in 1 .. Len(s) : s[j] = y) \/ y = x
  BY <1>0, <1>1
<1> QED
  BY <1>1, <1>2, <1>3, <1>4, <1>5 DEF q

(* Nobody is in an empty queue.                                            *)
LEMMA EmptyQueue == IsInjective(<<>>) /\ \A e : e \notin Range(<<>>)
<1>1. DOMAIN <<>> = {}
  OBVIOUS
<1> QED
  BY <1>1, Zenon DEF IsInjective, Range

(* The element x is somewhere in front of y.                               *)
Before(s, x, y) == \E i, j \in 1 .. Len(s) : i < j /\ s[i] = x /\ s[j] = y

(* Both are in the queue then, and x is not y if nothing is queued twice.  *)
LEMMA BeforeMembers ==
  ASSUME NEW S, NEW s \in Seq(S), NEW x, NEW y, Before(s, x, y)
  PROVE  /\ x \in Range(s) /\ y \in Range(s)
         /\ IsInjective(s) => x # y
<1>1. PICK i, j \in 1 .. Len(s) : i < j /\ s[i] = x /\ s[j] = y
  BY DEF Before
<1>2. x \in Range(s) /\ y \in Range(s)
  BY <1>1, QueueMembers
<1>3. ASSUME IsInjective(s), x = y PROVE FALSE
  <2>1. i = j
    BY <1>1, <1>3, QueueMembers
  <2> QED
    BY <1>1, <2>1
<1> QED
  BY <1>2, <1>3

(* list_add_tail leaves the order of the others as it was.                 *)
LEMMA BeforeAppend ==
  ASSUME NEW S, NEW s \in Seq(S), NEW e \in S, NEW x, NEW y, Before(s, x, y)
  PROVE  Before(Append(s, e), x, y)
<1>1. PICK i, j \in 1 .. Len(s) : i < j /\ s[i] = x /\ s[j] = y
  BY DEF Before
<1>2. /\ Len(s) \in Nat /\ Len(Append(s, e)) = Len(s) + 1
      /\ \A k \in 1 .. Len(s) : Append(s, e)[k] = s[k]
  BY AppendProperties
<1>3. i \in 1 .. Len(Append(s, e)) /\ j \in 1 .. Len(Append(s, e))
  BY <1>2
<1> QED
  BY <1>1, <1>2, <1>3 DEF Before

(* So does list_add, anywhere; and what was in front of the place is in    *)
(* front of the new element.                                               *)
LEMMA BeforeInsertAt ==
  ASSUME NEW S, NEW s \in Seq(S), NEW e \in S, NEW i \in 1 .. (Len(s) + 1)
  PROVE  /\ \A x, y : Before(s, x, y) => Before(InsertAt(s, i, e), x, y)
         /\ \A k \in 1 .. Len(s) : k < i => Before(InsertAt(s, i, e), s[k], e)
<1> DEFINE q == InsertAt(s, i, e)
<1>0. Len(s) \in Nat
  OBVIOUS
<1>1. /\ Len(q) = Len(s) + 1
      /\ \A j \in 1 .. (Len(s) + 1) :
           q[j] = IF j < i THEN s[j] ELSE IF j = i THEN e ELSE s[j - 1]
  BY InsertAtProperties
<1> HIDE DEF q
<1>2. ASSUME NEW x, NEW y, Before(s, x, y) PROVE Before(q, x, y)
  <2>1. PICK k, j \in 1 .. Len(s) : k < j /\ s[k] = x /\ s[j] = y
    BY <1>2 DEF Before
  <2> DEFINE up(n) == IF n < i THEN n ELSE n + 1
  <2>2. \A n \in 1 .. Len(s) : up(n) \in 1 .. Len(q) /\ q[up(n)] = s[n]
    BY <1>0, <1>1
  <2>3. up(k) < up(j)
    BY <1>0, <2>1
  <2> HIDE DEF up
  <2> QED
    BY <2>1, <2>2, <2>3 DEF Before
<1>3. ASSUME NEW k \in 1 .. Len(s), k < i PROVE Before(q, s[k], e)
  <2>1. k \in 1 .. Len(q) /\ i \in 1 .. Len(q) /\ q[k] = s[k] /\ q[i] = e
    BY <1>0, <1>1, <1>3
  <2> QED
    BY <1>3, <2>1 DEF Before
<1> QED
  BY <1>2, <1>3 DEF q

(* list_del leaves the order of those that remain.                         *)
LEMMA BeforeRemoveAt ==
  ASSUME NEW S, NEW s \in Seq(S), NEW i \in 1 .. Len(s), NEW x, NEW y,
         Before(s, x, y), x # s[i], y # s[i]
  PROVE  Before(RemoveAt(s, i), x, y)
<1> DEFINE q == RemoveAt(s, i)
<1>0. Len(s) \in Nat
  OBVIOUS
<1>1. /\ Len(q) = Len(s) - 1
      /\ \A j \in 1 .. (Len(s) - 1) : q[j] = IF j < i THEN s[j] ELSE s[j + 1]
  BY RemoveAtProperties
<1> HIDE DEF q
<1>2. PICK k, j \in 1 .. Len(s) : k < j /\ s[k] = x /\ s[j] = y
  BY DEF Before
<1> DEFINE down(n) == IF n < i THEN n ELSE n - 1
<1>3. \A n \in 1 .. Len(s) : n # i => down(n) \in 1 .. Len(q) /\ q[down(n)] = s[n]
  BY <1>0, <1>1
<1>4. k # i /\ j # i
  BY <1>2
<1>5. down(k) < down(j)
  BY <1>0, <1>2, <1>4
<1> HIDE DEF down
<1>6. Before(q, x, y)
  BY <1>2, <1>3, <1>4, <1>5 DEF Before
<1> QED
  BY <1>6 DEF q

(* The same for an element given by its name.                              *)
LEMMA BeforeRemoveFirst ==
  ASSUME NEW S, NEW s \in Seq(S), NEW e \in Range(s), NEW x, NEW y,
         Before(s, x, y), x # e, y # e
  PROVE  Before(RemoveFirst(s, e), x, y)
<1>1. PICK i \in 1 .. Len(s) : s[i] = e /\ RemoveFirst(s, e) = RemoveAt(s, i)
  <2>1. \E i \in 1 .. Len(s) : s[i] = e
    BY QueueMembers
  <2> QED
    BY <2>1, RemoveFirstIsRemoveAt
<1> QED
  BY <1>1, BeforeRemoveAt

(* The first element is taken, and it is not x: then it is not y either.   *)
LEMMA BeforeTail ==
  ASSUME NEW S, NEW s \in Seq(S), s # <<>>, NEW x, NEW y,
         Before(s, x, y), x # Head(s)
  PROVE  Before(Tail(s), x, y)
<1>1. /\ Len(s) \in Nat /\ Len(Tail(s)) = Len(s) - 1 /\ Head(s) = s[1]
      /\ \A i \in 1 .. Len(Tail(s)) : Tail(s)[i] = s[i + 1]
  BY HeadTailProperties
<1>2. PICK i, j \in 1 .. Len(s) : i < j /\ s[i] = x /\ s[j] = y
  BY DEF Before
<1>3. i # 1
  BY <1>1, <1>2
<1>4. PICK k \in 1 .. Len(Tail(s)), l \in 1 .. Len(Tail(s)) : k = i - 1 /\ l = j - 1
  BY <1>1, <1>2, <1>3
<1>5. k < l /\ Tail(s)[k] = x /\ Tail(s)[l] = y
  BY <1>1, <1>2, <1>4
<1> QED
  BY <1>5 DEF Before

-----------------------------------------------------------------------------

Listed(x, p) == x \in Range(worklist[p])
Picked(x, p) == wpc[p] = "picked" /\ Last(frames[p]) = x

CancelOps == {"cancel_work_sync", "cancel_delayed_work_sync"}

(* The canceller t has taken over PENDING of w.                            *)
Grabbed(w, t) == target[t] = w /\ op[t] # "flush_work" /\ ret[t] >= 0

Kinds == {"list", "picked", "timer", "setter", "cancel"}
Holders == CPUs \cup Callers \cup {0}

(* The item x is claimed in the way c by n.                                *)
Claim(x, c, n) ==
  \/ c = "list" /\ n \in CPUs /\ Listed(x, n)
  \/ c = "picked" /\ n \in CPUs /\ Picked(x, n)
  \/ c = "timer" /\ n = 0 /\ x \in Works /\ timer[x]
  \/ c = "setter" /\ n = 0 /\ x \in Works /\ setter[x] # "none"
  \/ c = "cancel" /\ n \in Callers /\ x \in Works /\ Grabbed(x, n)

Busy(x) ==
  \/ x \in Works /\ pending[x]
  \/ x \in Callers /\ pc[x] = "wait"

(* No two claims on an item.                                               *)
OneClaim ==
  \A x \in Items : \A c, d \in Kinds, m, n \in Holders :
    Claim(x, c, m) /\ Claim(x, d, n) => c = d /\ m = n

(* There is a claim while the work is pending or the barrier waited for.   *)
BusyIffClaimed ==
  \A x \in Items : Busy(x) <=> \E c \in Kinds, n \in Holders : Claim(x, c, n)

(* work->data names the cwq on whose list the work is, or just was.        *)
DataAgrees ==
  \A w \in Works, p \in CPUs : Listed(w, p) \/ Picked(w, p) => wq_data[w] = p

ListsOnce == \A p \in CPUs : IsInjective(worklist[p])

(* A worker is in worker_thread's loop exactly when it runs no callback.   *)
WorkerShape == \A p \in CPUs : wpc[p] = "loop" <=> frames[p] = <<>>

(* What the position l of a caller says about its locals: the call o, its  *)
(* target w, the CPU n of its loop, the CPU k it has read from work->data, *)
(* and what it is going to return.                                         *)
Shape(l, o, w, n, k, r) ==
  /\ l = "idle" <=> o = "none"
  /\ l = "flush" => o = "flush_workqueue"
  /\ l = "flush_work" => o = "flush_work" /\ k \in CPUs
  /\ l \in {"del_timer", "grab", "steal"} => o \in CancelOps /\ r = -1 /\ n = 1
  /\ l = "steal" => k \in CPUs
  /\ l = "wait_on" => o \in CancelOps
  /\ l = "clear" => o \in CancelOps /\ r >= 0
  /\ o # "none" => n \in CPUs
  /\ IF o \in CancelOps \cup {"flush_work"} THEN w \in Works ELSE w = None

CallerShape ==
  \A t \in Callers : Shape(pc[t], op[t], target[t], cpu[t], cwq[t], ret[t])

Inv ==
  /\ TypeOK
  /\ OneClaim
  /\ BusyIffClaimed
  /\ DataAgrees
  /\ ListsOnce
  /\ WorkerShape
  /\ CallerShape

-----------------------------------------------------------------------------
(* The CPUs are numbered from 1.                                           *)
LEMMA CpuFacts ==
  /\ CPUs \subseteq 0 .. NCPU /\ 1 \in CPUs /\ 0 \notin CPUs
  /\ \A n \in 0 .. NCPU : n # 0 => n \in CPUs
  /\ \A p \in CPUs : p < NCPU => p + 1 \in CPUs
BY WorkQueueAssumption DEF CPUs

(* The works, the callers and None are all different.                      *)
LEMMA ItemFacts ==
  /\ \A w \in Works : w \in Items /\ w \notin Callers /\ w # None
  /\ \A t \in Callers : t \in Items /\ t \notin Works /\ t # None
  /\ None \notin Items
BY WorkQueueAssumption DEF Items

(* What an exchange of claims on x leaves of the others.                   *)
Aside(x) ==
  \A y \in Items \ {x} :
    /\ Busy(y)' <=> Busy(y)
    /\ \A c \in Kinds, n \in Holders : Claim(y, c, n)' <=> Claim(y, c, n)

(* A step that gives or takes no claim.                                    *)
LEMMA ClaimsKept ==
  ASSUME OneClaim, BusyIffClaimed,
         \A x \in Items : Busy(x)' <=> Busy(x),
         \A x \in Items, c \in Kinds, n \in Holders : Claim(x, c, n)' <=> Claim(x, c, n)
  PROVE  OneClaim' /\ BusyIffClaimed'
<1> HIDE DEF Claim, Busy
<1>1. OneClaim'
  BY DEF OneClaim
<1>2. BusyIffClaimed'
  BY DEF BusyIffClaimed
<1> QED
  BY <1>1, <1>2

(* A step that gives x its first claim, exchanges its claim for another,   *)
(* or drops it.                                                            *)
Given(x, b, k) ==
  /\ Aside(x) /\ ~Busy(x) /\ Busy(x)'
  /\ b \in Kinds /\ k \in Holders
  /\ \A c \in Kinds, n \in Holders :
       Claim(x, c, n)' <=> Claim(x, c, n) \/ (c = b /\ n = k)

Moved(x, a, j, b, k) ==
  /\ Aside(x) /\ (Busy(x)' <=> Busy(x)) /\ Claim(x, a, j)
  /\ a \in Kinds /\ j \in Holders /\ b \in Kinds /\ k \in Holders
  /\ \A c \in Kinds, n \in Holders :
       Claim(x, c, n)' <=> (Claim(x, c, n) /\ ~(c = a /\ n = j)) \/ (c = b /\ n = k)

Dropped(x, a, j) ==
  /\ Aside(x) /\ ~Busy(x)' /\ Claim(x, a, j)
  /\ a \in Kinds /\ j \in Holders
  /\ \A c \in Kinds, n \in Holders :
       Claim(x, c, n)' <=> Claim(x, c, n) /\ ~(c = a /\ n = j)

(* An idle work gets its first claim: it has one.                          *)
LEMMA ClaimGiven ==
  ASSUME OneClaim, BusyIffClaimed, NEW x \in Items, NEW b, NEW k, Given(x, b, k)
  PROVE  OneClaim' /\ BusyIffClaimed'
<1>1. \A c \in Kinds, n \in Holders : ~Claim(x, c, n)
  BY DEF BusyIffClaimed, Given
<1>2. OneClaim'
  BY <1>1 DEF OneClaim, Aside, Given
<1>3. BusyIffClaimed'
  BY <1>1 DEF BusyIffClaimed, Aside, Given
<1> QED
  BY <1>2, <1>3

(* Its claim moves from one holder to another: it still has one.           *)
LEMMA ClaimMoved ==
  ASSUME OneClaim, BusyIffClaimed, NEW x \in Items, NEW a, NEW j, NEW b, NEW k,
         Moved(x, a, j, b, k)
  PROVE  OneClaim' /\ BusyIffClaimed'
<1>1. \A c \in Kinds, n \in Holders : Claim(x, c, n) => c = a /\ n = j
  BY DEF OneClaim, Moved
<1>2. Busy(x)
  BY DEF BusyIffClaimed, Moved
<1>3. OneClaim'
  BY <1>1 DEF OneClaim, Aside, Moved
<1>4. BusyIffClaimed'
  BY <1>1, <1>2 DEF BusyIffClaimed, Aside, Moved
<1> QED
  BY <1>3, <1>4

(* Its claim is given up, PENDING with it: it has none.                    *)
LEMMA ClaimDropped ==
  ASSUME OneClaim, BusyIffClaimed, NEW x \in Items, NEW a, NEW j, Dropped(x, a, j)
  PROVE  OneClaim' /\ BusyIffClaimed'
<1>1. \A c \in Kinds, n \in Holders : Claim(x, c, n) => c = a /\ n = j
  BY DEF OneClaim, Dropped
<1>2. OneClaim'
  BY <1>1 DEF OneClaim, Aside, Dropped
<1>3. BusyIffClaimed'
  BY <1>1 DEF BusyIffClaimed, Aside, Dropped
<1> QED
  BY <1>2, <1>3

(* The invariants that a step which leaves the lists, the workers or the   *)
(* callers alone cannot disturb.                                           *)
LEMMA QueuesKept ==
  ASSUME ListsOnce, WorkerShape, UNCHANGED qvars
  PROVE  ListsOnce' /\ WorkerShape'
BY DEF ListsOnce, WorkerShape, qvars

(* A step of the worker threads leaves the callers alone.                  *)
LEMMA CallersKept ==
  ASSUME CallerShape, UNCHANGED cvars
  PROVE  CallerShape'
BY DEF CallerShape, cvars

-----------------------------------------------------------------------------
(* Steps of no particular thread: the lists and the callers stay.          *)

(* set_pending gives the item to the thread that set the bit.              *)
LEMMA SetPendingStep ==
  ASSUME Inv, NEW w \in Works, NEW s \in {"queue", "arm"}, set_pending(w, s)
  PROVE  Inv'
<1>0. /\ TypeOK /\ OneClaim /\ BusyIffClaimed /\ DataAgrees
      /\ ListsOnce /\ WorkerShape /\ CallerShape
  BY DEF Inv
<1>1. /\ ~pending[w]
      /\ pending' = [pending EXCEPT ![w] = TRUE]
      /\ setter' = [setter EXCEPT ![w] = s]
      /\ UNCHANGED <<wq_data, timer, worklist, current_work, frames, wpc,
                     pc, op, target, cpu, cwq, ret>>
  BY DEF set_pending, qvars, cvars
<1>2. TypeOK'
  <2>1. owed' \in [Callers -> SUBSET (Works \X (0 .. NCPU))]
    BY <1>0 DEF TypeOK, set_pending
  <2>2. pending' \in [Works -> BOOLEAN] /\ setter' \in [Works -> Setters]
    BY <1>0, <1>1 DEF TypeOK, Setters
  <2> QED
    BY <1>0, <1>1, <2>1, <2>2 DEF TypeOK
<1>3. OneClaim' /\ BusyIffClaimed'
  <2>1. w \in Items /\ "setter" \in Kinds /\ 0 \in Holders /\ w \notin Callers
    BY ItemFacts DEF Kinds, Holders
  <2>2. ~Busy(w) /\ Busy(w)'
    BY <1>0, <1>1, <2>1 DEF Busy, TypeOK
  <2>3. setter[w] = "none"
    <3>1. ~Claim(w, "setter", 0)
      BY <1>0, <2>1, <2>2 DEF BusyIffClaimed
    <3> QED
      BY <3>1 DEF Claim
  <2>4. Aside(w)
    BY <1>0, <1>1 DEF Aside, Busy, Claim, Listed, Picked, Grabbed, TypeOK
  <2>5. \A c \in Kinds, n \in Holders :
          Claim(w, c, n)' <=> Claim(w, c, n) \/ (c = "setter" /\ n = 0)
    BY <1>0, <1>1, <2>3 DEF Claim, Listed, Picked, Grabbed, TypeOK
  <2>6. Given(w, "setter", 0)
    BY <2>1, <2>2, <2>4, <2>5 DEF Given
  <2> QED
    BY <1>0, <2>1, <2>6, ClaimGiven
<1>4. DataAgrees'
  BY <1>0, <1>1 DEF DataAgrees, Listed, Picked
<1>5. ListsOnce' /\ WorkerShape' /\ CallerShape'
  BY <1>0, <1>1, QueuesKept, CallersKept DEF qvars, cvars
<1> QED
  BY <1>2, <1>3, <1>4, <1>5 DEF Inv

(* __queue_work turns the right to queue the work into a place on a list.  *)
LEMMA QueueWorkStep ==
  ASSUME Inv, NEW w \in Works, NEW p \in CPUs, __queue_work(w, p)
  PROVE  Inv'
<1>0. /\ TypeOK /\ OneClaim /\ BusyIffClaimed /\ DataAgrees
      /\ ListsOnce /\ WorkerShape /\ CallerShape
  BY DEF Inv
<1>1. /\ setter[w] # "none"
      /\ worklist' = [worklist EXCEPT ![p] = Append(worklist[p], w)]
      /\ wq_data' = [wq_data EXCEPT ![w] = p]
      /\ setter' = [setter EXCEPT ![w] = "none"]
      /\ UNCHANGED <<pending, timer, current_work, frames, wpc,
                     pc, op, target, cpu, cwq, ret, owed>>
  BY DEF __queue_work, cvars
<1>2. /\ w \in Items /\ w \notin Callers
      /\ "list" \in Kinds /\ "setter" \in Kinds /\ 0 \in Holders /\ p \in Holders
  BY ItemFacts DEF Kinds, Holders
<1>3. Claim(w, "setter", 0)
  BY <1>1 DEF Claim
<1>4. \A q \in CPUs : ~Listed(w, q) /\ ~Picked(w, q)
  <2>1. ASSUME NEW q \in CPUs PROVE ~Claim(w, "list", q) /\ ~Claim(w, "picked", q)
    <3>1. q \in Holders /\ "picked" \in Kinds
      BY DEF Holders, Kinds
    <3> QED
      BY <1>0, <1>2, <1>3, <3>1 DEF OneClaim
  <2> QED
    BY <2>1 DEF Claim
<1>5. /\ worklist' \in [CPUs -> Seq(Items)]
      /\ ListsOnce'
      /\ \A q \in CPUs, x \in Items : Listed(x, q)' <=> Listed(x, q) \/ (q = p /\ x = w)
  <2>1. /\ worklist[p] \in Seq(Items) /\ IsInjective(worklist[p])
        /\ w \notin Range(worklist[p])
    BY <1>0, <1>4 DEF TypeOK, ListsOnce, Listed
  <2>2. /\ Append(worklist[p], w) \in Seq(Items)
        /\ IsInjective(Append(worklist[p], w))
        /\ \A x : x \in Range(Append(worklist[p], w)) <=> x \in Range(worklist[p]) \/ x = w
    BY <1>2, <2>1, AppendQueue
  <2>3. \A q \in CPUs : worklist'[q] = IF q = p THEN Append(worklist[p], w) ELSE worklist[q]
    BY <1>0, <1>1 DEF TypeOK
  <2>4. worklist' \in [CPUs -> Seq(Items)]
    BY <1>0, <1>1, <2>2 DEF TypeOK
  <2> QED
    BY <1>0, <2>2, <2>3, <2>4 DEF ListsOnce, Listed
<1>6. TypeOK'
  <2>1. wq_data' \in [Works -> 0 .. NCPU] /\ setter' \in [Works -> Setters]
    BY <1>0, <1>1, CpuFacts DEF TypeOK, Setters
  <2> QED
    BY <1>0, <1>1, <1>5, <2>1 DEF TypeOK
<1>7. OneClaim' /\ BusyIffClaimed'
  <2>1. Aside(w)
    BY <1>0, <1>1, <1>5 DEF Aside, Busy, Claim, Picked, Grabbed, TypeOK
  <2>2. Busy(w)' <=> Busy(w)
    BY <1>1 DEF Busy
  <2>3. \A c \in Kinds, n \in Holders :
          Claim(w, c, n)' <=> (Claim(w, c, n) /\ ~(c = "setter" /\ n = 0))
                              \/ (c = "list" /\ n = p)
    BY <1>0, <1>1, <1>2, <1>5 DEF Claim, Picked, Grabbed, TypeOK
  <2>4. Moved(w, "setter", 0, "list", p)
    BY <1>2, <1>3, <2>1, <2>2, <2>3 DEF Moved
  <2> QED
    BY <1>0, <1>2, <2>4, ClaimMoved
<1>8. DataAgrees'
  BY <1>0, <1>1, <1>2, <1>4, <1>5, ItemFacts DEF DataAgrees, Picked, TypeOK
<1>9. WorkerShape' /\ CallerShape'
  BY <1>0, <1>1, CallersKept DEF WorkerShape, cvars
<1> QED
  BY <1>5, <1>6, <1>7, <1>8, <1>9 DEF Inv

(* The timer is armed, fires or is deleted, and the thread that has the    *)
(* work changes what it will do with it.                                   *)
LEMMA TimerStep ==
  ASSUME Inv, NEW w \in Works, NEW s \in Setters, NEW b \in BOOLEAN,
         s = "none" <=> b, setter[w] # "none" \/ timer[w],
         setter[w] # "none" <=> b,
         timer' = [timer EXCEPT ![w] = b],
         setter' = [setter EXCEPT ![w] = s],
         wq_data' \in [Works -> 0 .. NCPU],
         \A v \in Works : v # w \/ ~b => wq_data'[v] = wq_data[v],
         UNCHANGED <<pending, qvars, cvars, owed>>
  PROVE  Inv'
<1>0. /\ TypeOK /\ OneClaim /\ BusyIffClaimed /\ DataAgrees
      /\ ListsOnce /\ WorkerShape /\ CallerShape
  BY DEF Inv
<1>1. UNCHANGED <<pending, worklist, current_work, frames, wpc,
                  pc, op, target, cpu, cwq, ret, owed>>
  BY DEF qvars, cvars
<1>2. /\ w \in Items /\ w \notin Callers
      /\ "timer" \in Kinds /\ "setter" \in Kinds /\ 0 \in Holders
  BY ItemFacts DEF Kinds, Holders
<1>3. PICK a \in {"timer", "setter"}, d \in {"timer", "setter"} :
        a # d /\ (a = "setter" <=> b)
  OBVIOUS
<1>4. Claim(w, a, 0)
  BY <1>3 DEF Claim
<1>5. ~Claim(w, d, 0)
  BY <1>0, <1>2, <1>3, <1>4 DEF OneClaim
<1>6. TypeOK'
  BY <1>0, <1>1 DEF TypeOK
<1>7. OneClaim' /\ BusyIffClaimed'
  <2>1. Aside(w)
    BY <1>0, <1>1 DEF Aside, Busy, Claim, Listed, Picked, Grabbed, TypeOK
  <2>2. Busy(w)' <=> Busy(w)
    BY <1>1 DEF Busy
  <2>3. /\ timer'[w] = b /\ setter'[w] = s
    BY <1>0 DEF TypeOK
  <2>4. \A c \in Kinds, n \in Holders :
          Claim(w, c, n)' <=> (Claim(w, c, n) /\ ~(c = a /\ n = 0)) \/ (c = d /\ n = 0)
    BY <1>1, <1>2, <1>3, <1>4, <1>5, <2>3 DEF Claim, Listed, Picked, Grabbed
  <2>5. a \in Kinds /\ d \in Kinds
    BY <1>2
  <2>6. Moved(w, a, 0, d, 0)
    BY <1>2, <1>4, <2>1, <2>2, <2>4, <2>5 DEF Moved
  <2> QED
    BY <1>0, <1>2, <2>6, ClaimMoved
<1>8. DataAgrees'
  <2>1. \A q \in CPUs : ~Listed(w, q) /\ ~Picked(w, q)
    <3>1. ASSUME NEW q \in CPUs PROVE ~Claim(w, "list", q) /\ ~Claim(w, "picked", q)
      <4>1. q \in Holders /\ "picked" \in Kinds /\ "list" \in Kinds
        BY DEF Holders, Kinds
      <4> QED
        BY <1>0, <1>2, <1>3, <1>4, <4>1 DEF OneClaim
    <3> QED
      BY <3>1 DEF Claim
  <2> QED
    BY <1>0, <1>1, <2>1 DEF DataAgrees, Listed, Picked
<1>9. ListsOnce' /\ WorkerShape' /\ CallerShape'
  BY <1>0, <1>1, QueuesKept, CallersKept DEF qvars, cvars
<1> QED
  BY <1>6, <1>7, <1>8, <1>9 DEF Inv

(* cancel_delayed_work gives up PENDING after it has stopped the timer.    *)
LEMMA UnpendStep ==
  ASSUME Inv, NEW w \in Works, setter[w] = "unpend",
         pending' = [pending EXCEPT ![w] = FALSE],
         setter' = [setter EXCEPT ![w] = "none"],
         UNCHANGED <<wq_data, timer, qvars, cvars, owed>>
  PROVE  Inv'
<1>0. /\ TypeOK /\ OneClaim /\ BusyIffClaimed /\ DataAgrees
      /\ ListsOnce /\ WorkerShape /\ CallerShape
  BY DEF Inv
<1>1. UNCHANGED <<wq_data, timer, worklist, current_work, frames, wpc,
                  pc, op, target, cpu, cwq, ret, owed>>
  BY DEF qvars, cvars
<1>2. w \in Items /\ w \notin Callers /\ "setter" \in Kinds /\ 0 \in Holders
  BY ItemFacts DEF Kinds, Holders
<1>3. TypeOK'
  BY <1>0, <1>1 DEF TypeOK, Setters
<1>4. OneClaim' /\ BusyIffClaimed'
  <2>1. Claim(w, "setter", 0)
    BY DEF Claim
  <2>2. Aside(w)
    BY <1>0, <1>1 DEF Aside, Busy, Claim, Listed, Picked, Grabbed, TypeOK
  <2>3. ~Busy(w)'
    BY <1>0, <1>2 DEF Busy, TypeOK
  <2>4. \A c \in Kinds, n \in Holders :
          Claim(w, c, n)' <=> Claim(w, c, n) /\ ~(c = "setter" /\ n = 0)
    BY <1>0, <1>1 DEF Claim, Listed, Picked, Grabbed, TypeOK
  <2>5. Dropped(w, "setter", 0)
    BY <1>2, <2>1, <2>2, <2>3, <2>4 DEF Dropped
  <2> QED
    BY <1>0, <1>2, <2>5, ClaimDropped
<1>5. DataAgrees'
  BY <1>0, <1>1 DEF DataAgrees, Listed, Picked
<1>6. ListsOnce' /\ WorkerShape' /\ CallerShape'
  BY <1>0, <1>1, QueuesKept, CallersKept DEF qvars, cvars
<1> QED
  BY <1>3, <1>4, <1>5, <1>6 DEF Inv

(* Everything that may happen to a work in any context.                    *)
LEMMA ContextStep ==
  ASSUME Inv, NEW w \in Works, AnyContext(w)
  PROVE  Inv'
<1>0. TypeOK
  BY DEF Inv
<1>1. CASE set_pending(w, "queue") \/ set_pending(w, "arm")
  BY <1>1, SetPendingStep
<1>2. CASE \E p \in CPUs : __queue_work(w, p)
  BY <1>2, QueueWorkStep
<1>3. ASSUME NEW p \in CPUs, add_timer(w, p) PROVE Inv'
  <2>1. /\ setter[w] = "arm" /\ wq_data' = [wq_data EXCEPT ![w] = p]
        /\ timer' = [timer EXCEPT ![w] = TRUE] /\ setter' = [setter EXCEPT ![w] = "none"]
        /\ UNCHANGED <<pending, qvars, cvars, owed>>
    BY <1>3 DEF add_timer
  <2>2. /\ wq_data' \in [Works -> 0 .. NCPU]
        /\ \A v \in Works : v # w => wq_data'[v] = wq_data[v]
    BY <1>0, <2>1, CpuFacts DEF TypeOK
  <2> QED
    BY <2>1, <2>2, TimerStep DEF Setters
<1>4. CASE delayed_work_timer_fn(w) \/ (timer[w] /\ cancel_delayed_work(w))
  <2>0. setter[w] = "none"
    <3>1. timer[w] /\ w \in Items
      BY <1>4, ItemFacts DEF delayed_work_timer_fn
    <3>2. Claim(w, "timer", 0) /\ "timer" \in Kinds /\ "setter" \in Kinds /\ 0 \in Holders
      BY <3>1 DEF Claim, Kinds, Holders
    <3>3. ~Claim(w, "setter", 0)
      BY <3>1, <3>2 DEF Inv, OneClaim
    <3> QED
      BY <3>3 DEF Claim
  <2>1. PICK s \in {"fire", "unpend"} :
          /\ timer[w] /\ timer' = [timer EXCEPT ![w] = FALSE]
          /\ setter' = [setter EXCEPT ![w] = s]
          /\ UNCHANGED <<pending, wq_data, qvars, cvars, owed>>
    BY <1>4, <2>0 DEF delayed_work_timer_fn, cancel_delayed_work
  <2>2. wq_data' \in [Works -> 0 .. NCPU]
    BY <1>0, <2>1 DEF TypeOK
  <2> QED
    BY <2>0, <2>1, <2>2, TimerStep DEF Setters
<1>5. CASE ~timer[w] /\ cancel_delayed_work(w)
  BY <1>5, UnpendStep DEF cancel_delayed_work
<1> QED
  BY <1>1, <1>2, <1>3, <1>4, <1>5 DEF AnyContext

-----------------------------------------------------------------------------
(* The worker of CPU p.                                                    *)

(* run_workqueue takes the first item of the list: its place on the list   *)
(* becomes the worker's claim.                                             *)
LEMMA PickStep ==
  ASSUME Inv, NEW p \in CPUs, NEW fs \in Seq(Items), NEW cur,
         NEW ow \in [Callers -> SUBSET (Works \X (0 .. NCPU))],
         wpc[p] # "picked", worklist[p] # <<>>,
         next_work(p, fs, cur, ow), UNCHANGED <<wvars, cvars>>
  PROVE  Inv'
<1>0. /\ TypeOK /\ OneClaim /\ BusyIffClaimed /\ DataAgrees
      /\ ListsOnce /\ WorkerShape /\ CallerShape
  BY DEF Inv
<1>1. UNCHANGED <<pending, wq_data, timer, setter, pc, op, target, cpu, cwq, ret>>
  BY DEF wvars, cvars
<1>2. PICK x \in Items :
        /\ x = Head(worklist[p]) /\ x \in Range(worklist[p])
        /\ Tail(worklist[p]) \in Seq(Items)
        /\ IsInjective(Tail(worklist[p]))
        /\ \A y : y \in Range(Tail(worklist[p])) <=> y \in Range(worklist[p]) /\ y # x
  <2>1. worklist[p] \in Seq(Items) /\ IsInjective(worklist[p])
    BY <1>0 DEF TypeOK, ListsOnce
  <2> QED
    BY <2>1, TailQueue
<1>3. /\ current_work' = [current_work EXCEPT ![p] = x]
      /\ worklist' = [worklist EXCEPT ![p] = Tail(worklist[p])]
      /\ frames' = [frames EXCEPT ![p] = Append(fs, x)]
      /\ wpc' = [wpc EXCEPT ![p] = "picked"]
      /\ owed' = [t \in Callers |-> {IF e = <<x, 0>> THEN <<x, p>> ELSE e : e \in ow[t]}]
  BY <1>2 DEF next_work
<1>4. Append(fs, x) \in Seq(Items) /\ Append(fs, x) # <<>> /\ Last(Append(fs, x)) = x
  BY StackPush
<1>5. /\ \A q \in CPUs : /\ worklist'[q] = IF q = p THEN Tail(worklist[p]) ELSE worklist[q]
                         /\ frames'[q] = IF q = p THEN Append(fs, x) ELSE frames[q]
                         /\ wpc'[q] = IF q = p THEN "picked" ELSE wpc[q]
      /\ worklist' \in [CPUs -> Seq(Items)]
      /\ frames' \in [CPUs -> Seq(Items)]
  BY <1>0, <1>2, <1>3, <1>4 DEF TypeOK
<1>6. ListsOnce' /\ WorkerShape'
  BY <1>0, <1>2, <1>4, <1>5 DEF ListsOnce, WorkerShape
<1>7. TypeOK'
  <2>1. current_work' \in [CPUs -> Items \cup {None}]
    BY <1>0, <1>3 DEF TypeOK
  <2>2. wpc' \in [CPUs -> {"loop", "picked", "run"}]
    BY <1>0, <1>3 DEF TypeOK
  <2>3. owed' \in [Callers -> SUBSET (Works \X (0 .. NCPU))]
    <3>1. ASSUME NEW t \in Callers, NEW e \in ow[t]
          PROVE  (IF e = <<x, 0>> THEN <<x, p>> ELSE e) \in Works \X (0 .. NCPU)
      <4>1. e \in Works \X (0 .. NCPU)
        OBVIOUS
      <4> QED
        BY <4>1, CpuFacts
    <3> QED
      BY <1>3, <3>1
  <2> QED
    BY <1>0, <1>1, <1>5, <2>1, <2>2, <2>3 DEF TypeOK
<1>8. /\ \A y \in Items, q \in CPUs : Listed(y, q)' <=> Listed(y, q) /\ ~(q = p /\ y = x)
      /\ \A y \in Items, q \in CPUs : Picked(y, q)' <=> Picked(y, q) \/ (q = p /\ y = x)
  BY <1>2, <1>4, <1>5 DEF Listed, Picked
<1>9. Listed(x, p)
  BY <1>2 DEF Listed
<1>10. OneClaim' /\ BusyIffClaimed'
  <2>1. Aside(x)
    BY <1>0, <1>1, <1>8 DEF Aside, Busy, Claim, Grabbed
  <2>2. /\ "list" \in Kinds /\ "picked" \in Kinds /\ p \in Holders /\ Claim(x, "list", p)
        /\ Busy(x)' <=> Busy(x)
    BY <1>1, <1>9 DEF Claim, Kinds, Holders, Busy
  <2>3. \A c \in Kinds, n \in Holders :
          Claim(x, c, n)' <=> (Claim(x, c, n) /\ ~(c = "list" /\ n = p))
                              \/ (c = "picked" /\ n = p)
    BY <1>1, <1>8 DEF Claim, Grabbed
  <2>4. Moved(x, "list", p, "picked", p)
    BY <2>1, <2>2, <2>3 DEF Moved
  <2> QED
    BY <1>0, <2>4, ClaimMoved
<1>11. DataAgrees'
  BY <1>0, <1>1, <1>8, <1>9, ItemFacts DEF DataAgrees
<1>12. CallerShape'
  BY <1>0, <1>1, CallersKept DEF cvars
<1> QED
  BY <1>6, <1>7, <1>10, <1>11, <1>12 DEF Inv

(* run_workqueue finds the list empty and returns.                         *)
LEMMA DrainedStep ==
  ASSUME Inv, NEW p \in CPUs, NEW fs \in Seq(Items), NEW cur \in Items \cup {None},
         NEW ow \in [Callers -> SUBSET (Works \X (0 .. NCPU))],
         wpc[p] # "picked", worklist[p] = <<>>,
         next_work(p, fs, cur, ow), UNCHANGED <<wvars, cvars>>
  PROVE  Inv'
<1>0. /\ TypeOK /\ OneClaim /\ BusyIffClaimed /\ DataAgrees
      /\ ListsOnce /\ WorkerShape /\ CallerShape
  BY DEF Inv
<1>1. UNCHANGED <<pending, wq_data, timer, setter, pc, op, target, cpu, cwq, ret>>
  BY DEF wvars, cvars
<1>2. /\ current_work' = [current_work EXCEPT ![p] = cur]
      /\ frames' = [frames EXCEPT ![p] = fs]
      /\ wpc' = [wpc EXCEPT ![p] = IF fs = <<>> THEN "loop" ELSE "run"]
      /\ owed' = ow /\ worklist' = worklist
  BY DEF next_work
<1>3. /\ \A q \in CPUs : frames'[q] = IF q = p THEN fs ELSE frames[q]
      /\ \A q \in CPUs : wpc'[q] = IF q = p THEN IF fs = <<>> THEN "loop" ELSE "run"
                                   ELSE wpc[q]
      /\ frames' \in [CPUs -> Seq(Items)]
  BY <1>0, <1>2 DEF TypeOK
<1>4. TypeOK'
  <2>1. current_work' \in [CPUs -> Items \cup {None}]
    BY <1>0, <1>2 DEF TypeOK
  <2>2. wpc' \in [CPUs -> {"loop", "picked", "run"}]
    BY <1>0, <1>2 DEF TypeOK
  <2> QED
    BY <1>0, <1>1, <1>2, <1>3, <2>1, <2>2 DEF TypeOK
<1>5. \A y \in Items, q \in CPUs : (Picked(y, q)' <=> Picked(y, q))
                                   /\ (Listed(y, q)' <=> Listed(y, q))
  BY <1>2, <1>3 DEF Listed, Picked
<1>6. OneClaim' /\ BusyIffClaimed'
  <2>1. \A x \in Items : Busy(x)' <=> Busy(x)
    BY <1>1 DEF Busy
  <2>2. \A x \in Items, c \in Kinds, n \in Holders : Claim(x, c, n)' <=> Claim(x, c, n)
    BY <1>1, <1>5 DEF Claim, Grabbed
  <2> QED
    BY <1>0, <2>1, <2>2, ClaimsKept
<1>7. DataAgrees'
  BY <1>0, <1>1, <1>5, ItemFacts DEF DataAgrees
<1>8. ListsOnce' /\ WorkerShape'
  BY <1>0, <1>2, <1>3 DEF ListsOnce, WorkerShape
<1>9. CallerShape'
  BY <1>0, <1>1, CallersKept DEF cvars
<1> QED
  BY <1>4, <1>6, <1>7, <1>8, <1>9 DEF Inv

(* The loop of run_workqueue, whoever entered it.                          *)
LEMMA RunStep ==
  ASSUME Inv, NEW p \in CPUs, worker_thread(p) \/ f_returns(p) \/ flush_own(p)
  PROVE  Inv'
<1>0. TypeOK /\ WorkerShape
  BY DEF Inv
<1>1. PICK fs \in Seq(Items), cur \in Items \cup {None},
           ow \in [Callers -> SUBSET (Works \X (0 .. NCPU))] :
        /\ wpc[p] # "picked" /\ next_work(p, fs, cur, ow) /\ UNCHANGED <<wvars, cvars>>
  <2>1. CASE worker_thread(p)
    <3>1. <<>> \in Seq(Items) /\ current_work[p] \in Items \cup {None}
      BY <1>0 DEF TypeOK
    <3>2. owed \in [Callers -> SUBSET (Works \X (0 .. NCPU))]
      BY <1>0 DEF TypeOK
    <3> QED
      BY <2>1, <3>1, <3>2 DEF worker_thread
  <2>2. CASE f_returns(p)
    <3> DEFINE ow == [t \in Callers |-> owed[t] \ {<<Last(frames[p]), p>>}]
    <3>1. Front(frames[p]) \in Seq(Items)
      <4>1. frames[p] \in Seq(Items) /\ frames[p] # <<>>
        BY <1>0, <2>2 DEF TypeOK, WorkerShape, f_returns
      <4> QED
        BY <4>1, StackPop
    <3>2. ow \in [Callers -> SUBSET (Works \X (0 .. NCPU))]
      BY <1>0 DEF TypeOK
    <3>3. wpc[p] = "run" /\ next_work(p, Front(frames[p]), None, ow)
          /\ UNCHANGED <<wvars, cvars>>
      BY <2>2 DEF f_returns
    <3> HIDE DEF ow
    <3> QED
      BY <3>1, <3>2, <3>3
  <2>3. CASE flush_own(p)
    <3>1. frames[p] \in Seq(Items) /\ current_work[p] \in Items \cup {None}
      BY <1>0 DEF TypeOK
    <3>2. owed \in [Callers -> SUBSET (Works \X (0 .. NCPU))]
      BY <1>0 DEF TypeOK
    <3> QED
      BY <2>3, <3>1, <3>2 DEF flush_own
  <2> QED
    BY <2>1, <2>2, <2>3
<1>2. CASE worklist[p] = <<>>
  BY <1>1, <1>2, DrainedStep
<1>3. CASE worklist[p] # <<>>
  BY <1>1, <1>3, PickStep
<1> QED
  BY <1>2, <1>3

(* The worker clears PENDING and calls f, or completes a barrier: its      *)
(* claim ends.                                                             *)
LEMMA CallStep ==
  ASSUME Inv, NEW p \in CPUs, call_f(p)
  PROVE  Inv'
<1>0. /\ TypeOK /\ OneClaim /\ BusyIffClaimed /\ DataAgrees
      /\ ListsOnce /\ WorkerShape /\ CallerShape
  BY DEF Inv
<1>1. PICK x \in Items : x = Last(frames[p])
  <2>1. frames[p] \in Seq(Items) /\ frames[p] # <<>>
    BY <1>0 DEF TypeOK, WorkerShape, call_f
  <2> QED
    BY <2>1, StackPop
<1>2. /\ wpc[p] = "picked" /\ wpc' = [wpc EXCEPT ![p] = "run"]
      /\ pending' = [w \in Works |-> pending[w] /\ w # x]
      /\ pc' = [t \in Callers |-> IF t = x THEN "woken" ELSE pc[t]]
      /\ UNCHANGED <<wq_data, timer, setter, worklist, current_work, frames,
                     op, target, cpu, cwq, ret, owed>>
  <2>1. pending' = [w \in Works |-> pending[w] /\ w # x]
    BY <1>1 DEF call_f, clears_pending
  <2> QED
    BY <1>1, <2>1 DEF call_f, completes
<1>3. TypeOK'
  <2>1. pending' \in [Works -> BOOLEAN]
    BY <1>0, <1>2 DEF TypeOK
  <2>2. wpc' \in [CPUs -> {"loop", "picked", "run"}]
    BY <1>0, <1>2 DEF TypeOK
  <2>3. pc' \in [Callers -> Pcs]
    BY <1>0, <1>2 DEF TypeOK, Pcs
  <2> QED
    BY <1>0, <1>2, <2>1, <2>2, <2>3 DEF TypeOK
<1>4. \A y \in Items, q \in CPUs :
        /\ Listed(y, q)' <=> Listed(y, q)
        /\ Picked(y, q)' <=> Picked(y, q) /\ ~(q = p /\ y = x)
  BY <1>0, <1>1, <1>2 DEF Listed, Picked, TypeOK
<1>5. Claim(x, "picked", p) /\ "picked" \in Kinds /\ p \in Holders
  BY <1>1, <1>2 DEF Claim, Picked, Kinds, Holders
<1>6. OneClaim' /\ BusyIffClaimed'
  <2>1. Aside(x)
    BY <1>0, <1>2, <1>4 DEF Aside, Busy, Claim, Grabbed, TypeOK
  <2>2. ~Busy(x)'
    BY <1>2, ItemFacts DEF Busy
  <2>3. \A c \in Kinds, n \in Holders :
          Claim(x, c, n)' <=> Claim(x, c, n) /\ ~(c = "picked" /\ n = p)
    BY <1>2, <1>4 DEF Claim, Grabbed
  <2>4. Dropped(x, "picked", p)
    BY <1>5, <2>1, <2>2, <2>3 DEF Dropped
  <2> QED
    BY <1>0, <2>4, ClaimDropped
<1>7. DataAgrees'
  BY <1>0, <1>2, <1>4, ItemFacts DEF DataAgrees
<1>8. ListsOnce' /\ WorkerShape'
  BY <1>0, <1>2 DEF ListsOnce, WorkerShape, TypeOK
<1>9. CallerShape'
  <2>1. x \in Callers => pc[x] = "wait"
    BY <1>0, <1>5, ItemFacts DEF BusyIffClaimed, Busy
  <2> QED
    BY <1>0, <1>2, <2>1 DEF CallerShape, Shape
<1> QED
  BY <1>3, <1>6, <1>7, <1>8, <1>9 DEF Inv

-----------------------------------------------------------------------------
(* The blocking calls.                                                     *)

Becomes(t, l, o, w, n, k, r) ==
  /\ pc' = [pc EXCEPT ![t] = l]
  /\ op' = [op EXCEPT ![t] = o]
  /\ target' = [target EXCEPT ![t] = w]
  /\ cpu' = [cpu EXCEPT ![t] = n]
  /\ cwq' = [cwq EXCEPT ![t] = k]
  /\ ret' = [ret EXCEPT ![t] = r]

(* Where a caller gets to: its locals fit the new position, and those of   *)
(* the others stay.                                                        *)
LEMMA CallerMoves ==
  ASSUME TypeOK, CallerShape, NEW t \in Callers,
         NEW l \in Pcs, NEW o \in Ops, NEW w \in Works \cup {None},
         NEW n \in 0 .. NCPU, NEW k \in 0 .. NCPU, NEW r \in {-1, 0, 1},
         Becomes(t, l, o, w, n, k, r), Shape(l, o, w, n, k, r)
  PROVE  /\ CallerShape'
         /\ pc' \in [Callers -> Pcs]
         /\ op' \in [Callers -> Ops]
         /\ target' \in [Callers -> Works \cup {None}]
         /\ cpu' \in [Callers -> 0 .. NCPU]
         /\ cwq' \in [Callers -> 0 .. NCPU]
         /\ ret' \in [Callers -> {-1, 0, 1}]
         /\ \A u \in Callers \ {t} :
              /\ pc'[u] = pc[u] /\ op'[u] = op[u] /\ target'[u] = target[u]
              /\ cpu'[u] = cpu[u] /\ cwq'[u] = cwq[u] /\ ret'[u] = ret[u]
         /\ pc'[t] = l /\ op'[t] = o /\ target'[t] = w
         /\ cpu'[t] = n /\ cwq'[t] = k /\ ret'[t] = r
<1>1. /\ pc' \in [Callers -> Pcs] /\ pc'[t] = l
      /\ \A u \in Callers \ {t} : pc'[u] = pc[u]
  BY DEF TypeOK, Becomes
<1>2. /\ op' \in [Callers -> Ops] /\ op'[t] = o
      /\ \A u \in Callers \ {t} : op'[u] = op[u]
  BY DEF TypeOK, Becomes
<1>3. /\ target' \in [Callers -> Works \cup {None}] /\ target'[t] = w
      /\ \A u \in Callers \ {t} : target'[u] = target[u]
  BY DEF TypeOK, Becomes
<1>4. /\ cpu' \in [Callers -> 0 .. NCPU] /\ cpu'[t] = n
      /\ \A u \in Callers \ {t} : cpu'[u] = cpu[u]
  BY DEF TypeOK, Becomes
<1>5. /\ cwq' \in [Callers -> 0 .. NCPU] /\ cwq'[t] = k
      /\ \A u \in Callers \ {t} : cwq'[u] = cwq[u]
  BY DEF TypeOK, Becomes
<1>6. /\ ret' \in [Callers -> {-1, 0, 1}] /\ ret'[t] = r
      /\ \A u \in Callers \ {t} : ret'[u] = ret[u]
  BY DEF TypeOK, Becomes
<1>7. CallerShape'
  BY <1>1, <1>2, <1>3, <1>4, <1>5, <1>6 DEF CallerShape
<1> QED
  BY <1>1, <1>2, <1>3, <1>4, <1>5, <1>6, <1>7

(* The six locals of t, before.                                            *)
LEMMA CallerTypes ==
  ASSUME TypeOK, CallerShape, NEW t \in Callers
  PROVE  /\ pc[t] \in Pcs /\ op[t] \in Ops /\ target[t] \in Works \cup {None}
         /\ cpu[t] \in 0 .. NCPU /\ cwq[t] \in 0 .. NCPU /\ ret[t] \in {-1, 0, 1}
         /\ Shape(pc[t], op[t], target[t], cpu[t], cwq[t], ret[t])
         /\ pc = [pc EXCEPT ![t] = pc[t]] /\ op = [op EXCEPT ![t] = op[t]]
         /\ target = [target EXCEPT ![t] = target[t]]
         /\ cpu = [cpu EXCEPT ![t] = cpu[t]] /\ cwq = [cwq EXCEPT ![t] = cwq[t]]
         /\ ret = [ret EXCEPT ![t] = ret[t]]
BY DEF TypeOK, CallerShape

(* A step of t that touches neither the works nor the lists and neither    *)
(* makes nor ends a wait.                                                  *)
LEMMA CallerAlone ==
  ASSUME Inv, NEW t \in Callers,
         NEW l \in Pcs, NEW o \in Ops, NEW w \in Works \cup {None},
         NEW n \in 0 .. NCPU, NEW k \in 0 .. NCPU, NEW r \in {-1, 0, 1},
         Becomes(t, l, o, w, n, k, r), Shape(l, o, w, n, k, r),
         pc[t] # "wait", l # "wait",
         \A v \in Works : (w = v /\ o # "flush_work" /\ r >= 0) <=> Grabbed(v, t),
         owed' \in [Callers -> SUBSET (Works \X (0 .. NCPU))],
         UNCHANGED <<wvars, qvars>>
  PROVE  Inv'
<1>0. /\ TypeOK /\ OneClaim /\ BusyIffClaimed /\ DataAgrees
      /\ ListsOnce /\ WorkerShape /\ CallerShape
  BY DEF Inv
<1>1. UNCHANGED <<pending, wq_data, timer, setter, worklist, current_work, frames, wpc>>
  BY DEF wvars, qvars
<1>2. /\ CallerShape'
      /\ pc' \in [Callers -> Pcs] /\ op' \in [Callers -> Ops]
      /\ target' \in [Callers -> Works \cup {None}]
      /\ cpu' \in [Callers -> 0 .. NCPU] /\ cwq' \in [Callers -> 0 .. NCPU]
      /\ ret' \in [Callers -> {-1, 0, 1}]
      /\ \A u \in Callers \ {t} :
           pc'[u] = pc[u] /\ op'[u] = op[u] /\ target'[u] = target[u] /\ ret'[u] = ret[u]
      /\ pc'[t] = l /\ op'[t] = o /\ target'[t] = w /\ ret'[t] = r
  BY <1>0, CallerMoves
<1>3. TypeOK'
  BY <1>0, <1>1, <1>2 DEF TypeOK
<1>4. OneClaim' /\ BusyIffClaimed'
  <2>1. \A x \in Items : Busy(x)' <=> Busy(x)
    BY <1>1, <1>2 DEF Busy
  <2>2. \A v \in Works, u \in Callers : Grabbed(v, u)' <=> Grabbed(v, u)
    BY <1>2 DEF Grabbed
  <2>3. \A x \in Items, c \in Kinds, m \in Holders : Claim(x, c, m)' <=> Claim(x, c, m)
    BY <1>1, <2>2 DEF Claim, Listed, Picked
  <2> QED
    BY <1>0, <2>1, <2>3, ClaimsKept
<1>5. DataAgrees'
  BY <1>0, <1>1 DEF DataAgrees, Listed, Picked
<1>6. ListsOnce' /\ WorkerShape'
  BY <1>0, <1>1, QueuesKept DEF qvars
<1> QED
  BY <1>2, <1>3, <1>4, <1>5, <1>6 DEF Inv

(* The executions of a work are pairs of the work and a CPU, or 0.         *)
LEMMA ExecutionsType ==
  ASSUME NEW w \in Works
  PROVE  Executions(w) \subseteq Works \X (0 .. NCPU)
BY CpuFacts, WorkQueueAssumption DEF Executions

(* A flush or cancel call starts.                                          *)
LEMMA StartStep ==
  ASSUME Inv, NEW t \in Callers, Call(t)
  PROVE  Inv'
<1>0. TypeOK /\ CallerShape
  BY DEF Inv
<1>1. /\ pc[t] \in Pcs /\ op[t] \in Ops /\ cwq[t] \in 0 .. NCPU
      /\ Shape(pc[t], op[t], target[t], cpu[t], cwq[t], ret[t])
      /\ cwq = [cwq EXCEPT ![t] = cwq[t]]
  BY <1>0, CallerTypes
<1>2. owed \in [Callers -> SUBSET (Works \X (0 .. NCPU))]
  BY <1>0 DEF TypeOK
<1>3. 1 \in 0 .. NCPU /\ 1 \in CPUs
  BY CpuFacts
<1>4. ASSUME NEW o \in Ops, NEW w \in Works \cup {None}, NEW l \in Pcs, NEW k \in 0 .. NCPU,
             call(t, o, w, l), cwq' = [cwq EXCEPT ![t] = k],
             Shape(l, o, w, 1, k, -1), l # "wait",
             owed' \in [Callers -> SUBSET (Works \X (0 .. NCPU))]
      PROVE  Inv'
  <2>1. Becomes(t, l, o, w, 1, k, -1) /\ pc[t] = "idle" /\ UNCHANGED <<wvars, qvars>>
    BY <1>4 DEF call, Becomes, Goto
  <2>2. \A v \in Works : ~Grabbed(v, t)
    BY <1>1, <2>1, ItemFacts DEF Shape, Grabbed, CancelOps
  <2> QED
    BY <1>3, <1>4, <2>1, <2>2, CallerAlone
<1>5. CASE call_flush_workqueue(t)
  <2>1. owed' \in [Callers -> SUBSET (Works \X (0 .. NCPU))]
    <3>1. UNION {Executions(w) : w \in Works} \subseteq Works \X (0 .. NCPU)
      BY ExecutionsType
    <3> QED
      BY <1>2, <1>5, <3>1 DEF call_flush_workqueue
  <2>2. call(t, "flush_workqueue", None, "flush") /\ cwq' = [cwq EXCEPT ![t] = cwq[t]]
    BY <1>1, <1>5 DEF call_flush_workqueue
  <2>3. Shape("flush", "flush_workqueue", None, 1, cwq[t], -1)
    BY <1>3 DEF Shape, CancelOps
  <2> QED
    BY <1>1, <1>4, <2>1, <2>2, <2>3 DEF Ops, Pcs
<1>6. ASSUME NEW w \in Works, call_flush_work(t, w) PROVE Inv'
  <2>1. owed' \in [Callers -> SUBSET (Works \X (0 .. NCPU))]
    <3>1. Executions(w) \subseteq Works \X (0 .. NCPU)
      BY ExecutionsType
    <3>2. PICK S \in SUBSET (Works \X (0 .. NCPU)) : owed' = [owed EXCEPT ![t] = S]
      BY <1>6, <3>1 DEF call_flush_work
    <3> QED
      BY <1>2, <3>2
  <2>2. /\ call(t, "flush_work", w, "flush_work") /\ cwq' = [cwq EXCEPT ![t] = wq_data[w]]
        /\ wq_data[w] \in 0 .. NCPU /\ wq_data[w] \in CPUs
    BY <1>0, <1>6, CpuFacts DEF call_flush_work, TypeOK
  <2>3. Shape("flush_work", "flush_work", w, 1, wq_data[w], -1)
    BY <1>3, <2>2 DEF Shape, CancelOps
  <2> QED
    BY <1>4, <2>1, <2>2, <2>3 DEF Ops, Pcs
<1>7. ASSUME NEW w \in Works, call_cancel(t, w) PROVE Inv'
  <2>1. owed' = owed /\ cwq' = [cwq EXCEPT ![t] = cwq[t]]
    BY <1>1, <1>7 DEF call_cancel
  <2>2. PICK o \in CancelOps, l \in {"grab", "del_timer"} : call(t, o, w, l)
    BY <1>7 DEF call_cancel, CancelOps
  <2>3. Shape(l, o, w, 1, cwq[t], -1)
    BY <1>3, <2>2 DEF Shape, CancelOps
  <2>4. o \in Ops /\ l \in Pcs
    BY DEF Ops, Pcs, CancelOps
  <2> QED
    BY <1>1, <1>2, <1>4, <2>1, <2>2, <2>3, <2>4
<1> QED
  BY <1>5, <1>6, <1>7 DEF Call

(* A flush returns, and a canceller that holds nothing may too.            *)
LEMMA ReturnStep ==
  ASSUME Inv, NEW t \in Callers, return(t), pc[t] # "wait",
         op[t] \in {"flush_work", "flush_workqueue"}, UNCHANGED <<wvars, qvars>>
  PROVE  Inv'
<1>0. TypeOK /\ CallerShape
  BY DEF Inv
<1>1. /\ Becomes(t, "idle", "none", None, 0, 0, 0)
      /\ owed' = [owed EXCEPT ![t] = {}]
  BY DEF return, Becomes, Goto
<1>2. Shape("idle", "none", None, 0, 0, 0)
  BY DEF Shape, CancelOps
<1>3. \A v \in Works : ~Grabbed(v, t) /\ v # None
  BY <1>0, ItemFacts DEF CallerShape, Shape, Grabbed, CancelOps
<1>4. owed' \in [Callers -> SUBSET (Works \X (0 .. NCPU))]
  BY <1>0, <1>1 DEF TypeOK
<1>5. "idle" \in Pcs /\ "none" \in Ops /\ 0 \in 0 .. NCPU
  BY WorkQueueAssumption DEF Pcs, Ops
<1> QED
  BY <1>1, <1>2, <1>3, <1>4, <1>5, CallerAlone

(* The loop over the CPUs goes on, and a canceller may go on to its next   *)
(* round.                                                                  *)
LEMMA AdvanceStep ==
  ASSUME Inv, NEW t \in Callers, NEW l \in Pcs, NEW n \in 0 .. NCPU,
         pc' = [pc EXCEPT ![t] = l], cpu' = [cpu EXCEPT ![t] = n],
         UNCHANGED <<op, target, cwq, ret, owed>>,
         pc[t] # "wait", l # "wait",
         Shape(l, op[t], target[t], n, cwq[t], ret[t]),
         UNCHANGED <<wvars, qvars>>
  PROVE  Inv'
<1>0. TypeOK /\ CallerShape
  BY DEF Inv
<1>1. /\ op[t] \in Ops /\ target[t] \in Works \cup {None}
      /\ cwq[t] \in 0 .. NCPU /\ ret[t] \in {-1, 0, 1}
      /\ op = [op EXCEPT ![t] = op[t]] /\ target = [target EXCEPT ![t] = target[t]]
      /\ cwq = [cwq EXCEPT ![t] = cwq[t]] /\ ret = [ret EXCEPT ![t] = ret[t]]
  BY <1>0, CallerTypes
<1>2. PICK o \in Ops, w \in Works \cup {None}, k \in 0 .. NCPU, r \in {-1, 0, 1} :
        o = op[t] /\ w = target[t] /\ k = cwq[t] /\ r = ret[t]
  BY <1>1
<1>3. Becomes(t, l, o, w, n, k, r)
  BY <1>1, <1>2 DEF Becomes
<1>4. \A v \in Works : (w = v /\ o # "flush_work" /\ r >= 0) <=> Grabbed(v, t)
  BY <1>2 DEF Grabbed
<1>5. owed' \in [Callers -> SUBSET (Works \X (0 .. NCPU))]
  BY <1>0 DEF TypeOK
<1>6. Shape(l, o, w, n, k, r)
  BY <1>2
<1> QED
  BY <1>3, <1>4, <1>5, <1>6, CallerAlone

(* The end of the body of __cancel_work_timer's loop.                      *)
LEMMA WaitedOnStep ==
  ASSUME Inv, NEW t \in Callers, waited_on_work(t), pc[t] # "wait",
         op[t] \in CancelOps, UNCHANGED <<wvars, qvars>>
  PROVE  Inv'
<1>0. TypeOK /\ CallerShape
  BY DEF Inv
<1>1. PICK l \in {"clear", "grab", "del_timer"} :
        pc' = [pc EXCEPT ![t] = l] /\ (l = "clear" <=> ret[t] >= 0)
  BY DEF waited_on_work, Goto
<1>2. cpu' = [cpu EXCEPT ![t] = 1] /\ UNCHANGED <<op, target, cwq, ret, owed>>
  BY DEF waited_on_work
<1>3. /\ ret[t] \in {-1, 0, 1} /\ 1 \in CPUs /\ 1 \in 0 .. NCPU /\ l \in Pcs
      /\ Shape(pc[t], op[t], target[t], cpu[t], cwq[t], ret[t])
  BY <1>0, CallerTypes, CpuFacts DEF Pcs
<1>4. ret[t] >= 0 \/ ret[t] = -1
  BY <1>3
<1>5. Shape(l, op[t], target[t], 1, cwq[t], ret[t])
  BY <1>1, <1>3, <1>4 DEF Shape, CancelOps
<1> QED
  BY <1>1, <1>2, <1>3, <1>5, AdvanceStep

(* A caller goes on to the next CPU of the map, or is done.                *)
LEMMA NextCpuStep ==
  ASSUME Inv, NEW t \in Callers, next_cpu(t),
         pc[t] \in {"woken", "flush", "wait_on"}, UNCHANGED <<wvars, qvars>>
  PROVE  Inv'
<1>0. TypeOK /\ CallerShape
  BY DEF Inv
<1>1. /\ op[t] \in Ops /\ cpu[t] \in 0 .. NCPU
      /\ Shape(pc[t], op[t], target[t], cpu[t], cwq[t], ret[t])
  BY <1>0, CallerTypes
<1>2. CASE /\ op[t] # "flush_work"
           /\ more_cpus(t)
           /\ cpu' = [cpu EXCEPT ![t] = @ + 1]
           /\ Goto(t, IF op[t] = "flush_workqueue" THEN "flush" ELSE "wait_on")
           /\ UNCHANGED <<op, target, cwq, ret, owed>>
  <2>1. PICK l \in {"flush", "wait_on"} :
          pc' = [pc EXCEPT ![t] = l] /\ (l = "flush" <=> op[t] = "flush_workqueue")
    BY <1>2 DEF Goto
  <2>2. PICK n \in CPUs : n = cpu[t] + 1
    BY <1>1, <1>2, CpuFacts DEF Shape, more_cpus
  <2>3. cpu' = [cpu EXCEPT ![t] = n] /\ n \in 0 .. NCPU /\ l \in Pcs
    BY <1>2, <2>2, CpuFacts DEF Pcs
  <2>4. op[t] \in CancelOps \cup {"flush_workqueue"}
    BY <1>1, <1>2 DEF Shape, Ops, CancelOps
  <2>5. Shape(l, op[t], target[t], n, cwq[t], ret[t])
    BY <1>1, <2>1, <2>4 DEF Shape, CancelOps
  <2> QED
    BY <1>2, <2>1, <2>3, <2>5, AdvanceStep
<1>3. CASE op[t] \in {"flush_work", "flush_workqueue"} /\ return(t)
  BY <1>3, ReturnStep
<1>4. CASE op[t] \in CancelOps /\ waited_on_work(t)
  BY <1>4, WaitedOnStep
<1> QED
  BY <1>2, <1>3, <1>4 DEF next_cpu, CancelOps

(* A barrier is put on a list and its owner waits for it.                  *)
LEMMA BarrierStep ==
  ASSUME Inv, NEW t \in Callers, NEW p \in CPUs, NEW i \in 1 .. (Len(worklist[p]) + 1),
         insert_wq_barrier(t, p, i), pc[t] \in {"flush", "flush_work", "wait_on"},
         UNCHANGED wvars
  PROVE  Inv'
<1>0. /\ TypeOK /\ OneClaim /\ BusyIffClaimed /\ DataAgrees
      /\ ListsOnce /\ WorkerShape /\ CallerShape
  BY DEF Inv
<1>1. /\ worklist' = [worklist EXCEPT ![p] = InsertAt(worklist[p], i, t)]
      /\ pc' = [pc EXCEPT ![t] = "wait"]
      /\ UNCHANGED <<pending, wq_data, timer, setter, current_work, frames, wpc,
                     op, target, cpu, cwq, ret, owed>>
  BY DEF insert_wq_barrier, Goto, wvars
<1>2. /\ t \in Items /\ t \notin Works
      /\ "list" \in Kinds /\ p \in Holders
  BY ItemFacts DEF Kinds, Holders
<1>3. ~Busy(t) /\ Busy(t)'
  BY <1>0, <1>1, <1>2 DEF Busy, TypeOK
<1>4. ~Listed(t, p)
  BY <1>0, <1>2, <1>3 DEF BusyIffClaimed, Claim
<1>5. /\ worklist' \in [CPUs -> Seq(Items)]
      /\ ListsOnce'
      /\ \A q \in CPUs, x \in Items : Listed(x, q)' <=> Listed(x, q) \/ (q = p /\ x = t)
  <2>1. /\ worklist[p] \in Seq(Items) /\ IsInjective(worklist[p])
        /\ t \notin Range(worklist[p])
    BY <1>0, <1>4 DEF TypeOK, ListsOnce, Listed
  <2> DEFINE q0 == InsertAt(worklist[p], i, t)
  <2>2. /\ q0 \in Seq(Items)
        /\ IsInjective(q0)
        /\ \A x : x \in Range(q0) <=> x \in Range(worklist[p]) \/ x = t
    BY <1>2, <2>1, InsertAtQueue
  <2>3. \A q \in CPUs : worklist'[q] = IF q = p THEN q0 ELSE worklist[q]
    BY <1>0, <1>1 DEF TypeOK
  <2> HIDE DEF q0
  <2>4. worklist' \in [CPUs -> Seq(Items)]
    BY <1>0, <1>1, <2>2 DEF TypeOK, q0
  <2> QED
    BY <1>0, <2>2, <2>3, <2>4 DEF ListsOnce, Listed
<1>6. TypeOK'
  <2>1. pc' \in [Callers -> Pcs]
    BY <1>0, <1>1 DEF TypeOK, Pcs
  <2> QED
    BY <1>0, <1>1, <1>5, <2>1 DEF TypeOK
<1>7. OneClaim' /\ BusyIffClaimed'
  <2>1. Aside(t)
    BY <1>0, <1>1, <1>5 DEF Aside, Busy, Claim, Picked, Grabbed, TypeOK
  <2>2. \A c \in Kinds, n \in Holders :
          Claim(t, c, n)' <=> Claim(t, c, n) \/ (c = "list" /\ n = p)
    BY <1>1, <1>2, <1>5 DEF Claim, Picked
  <2>3. Given(t, "list", p)
    BY <1>2, <1>3, <2>1, <2>2 DEF Given
  <2> QED
    BY <1>0, <1>2, <2>3, ClaimGiven
<1>8. DataAgrees'
  BY <1>0, <1>1, <1>2, <1>5, ItemFacts DEF DataAgrees, Picked
<1>9. WorkerShape'
  BY <1>0, <1>1 DEF WorkerShape
<1>10. CallerShape'
  <2>1. \A u \in Callers : pc'[u] = IF u = t THEN "wait" ELSE pc[u]
    BY <1>0, <1>1 DEF TypeOK
  <2>2. Shape(pc[t], op[t], target[t], cpu[t], cwq[t], ret[t])
        => Shape("wait", op[t], target[t], cpu[t], cwq[t], ret[t])
    BY DEF Shape, CancelOps
  <2> QED
    BY <1>0, <1>1, <2>1, <2>2 DEF CallerShape
<1> QED
  BY <1>5, <1>6, <1>7, <1>8, <1>9, <1>10 DEF Inv

(* Every list has room at its end and at its head.                         *)
LEMMA Positions ==
  ASSUME TypeOK, NEW p \in CPUs
  PROVE  /\ Len(worklist[p]) + 1 \in 1 .. (Len(worklist[p]) + 1)
         /\ 1 \in 1 .. (Len(worklist[p]) + 1)
         /\ \A i \in DOMAIN worklist[p] :
              i \in 1 .. Len(worklist[p]) /\ i + 1 \in 1 .. (Len(worklist[p]) + 1)
<1>1. worklist[p] \in Seq(Items)
  BY DEF TypeOK
<1>2. Len(worklist[p]) \in Nat /\ DOMAIN worklist[p] = 1 .. Len(worklist[p])
  BY <1>1
<1> QED
  BY <1>2

(* A caller inserts its barriers, CPU by CPU, or goes on.                  *)
LEMMA FlushStep ==
  ASSUME Inv, NEW t \in Callers,
         completed(t) \/ flush_cpu_workqueue(t) \/ flush_work(t) \/ wait_on_cpu_work(t)
  PROVE  Inv'
<1>0. TypeOK /\ CallerShape
  BY DEF Inv
<1>1. /\ op[t] \in Ops /\ cpu[t] \in 0 .. NCPU /\ ret[t] \in {-1, 0, 1}
      /\ Shape(pc[t], op[t], target[t], cpu[t], cwq[t], ret[t])
  BY <1>0, CallerTypes
<1>2. CASE completed(t)
  BY <1>2, NextCpuStep DEF completed
<1>3. CASE flush_cpu_workqueue(t)
  <2>1. pc[t] = "flush" /\ cpu[t] \in CPUs
    BY <1>1, <1>3 DEF flush_cpu_workqueue, Shape
  <2>2. \/ /\ insert_wq_barrier(t, cpu[t], Len(worklist[cpu[t]]) + 1) /\ UNCHANGED wvars
        \/ next_cpu(t) /\ UNCHANGED <<wvars, qvars>>
    BY <1>3 DEF flush_cpu_workqueue
  <2> QED
    BY <1>0, <2>1, <2>2, NextCpuStep, BarrierStep, Positions
<1>4. CASE flush_work(t)
  <2>1. pc[t] = "flush_work" /\ cwq[t] \in CPUs /\ op[t] = "flush_work"
    BY <1>1, <1>4 DEF flush_work, Shape
  <2>2. \/ /\ \E i \in DOMAIN worklist[cwq[t]] : insert_wq_barrier(t, cwq[t], i + 1)
           /\ UNCHANGED wvars
        \/ insert_wq_barrier(t, cwq[t], 1) /\ UNCHANGED wvars
        \/ return(t) /\ UNCHANGED <<wvars, qvars>>
    BY <1>4 DEF flush_work
  <2> QED
    BY <1>0, <2>1, <2>2, ReturnStep, BarrierStep, Positions
<1>5. CASE wait_on_cpu_work(t)
  <2>1. pc[t] = "wait_on" /\ cpu[t] \in CPUs /\ op[t] \in CancelOps
    BY <1>1, <1>5 DEF wait_on_cpu_work, Shape
  <2>2. \/ insert_wq_barrier(t, cpu[t], 1) /\ UNCHANGED wvars
        \/ next_cpu(t) /\ UNCHANGED <<wvars, qvars>>
        \/ waited_on_work(t) /\ UNCHANGED <<wvars, qvars>>
    BY <1>5 DEF wait_on_cpu_work
  <2> QED
    BY <1>0, <2>1, <2>2, NextCpuStep, WaitedOnStep, BarrierStep, Positions
<1> QED
  BY <1>2, <1>3, <1>4, <1>5

(* What a canceller is in the loop of __cancel_work_timer.                 *)
LEMMA CancellerFacts ==
  ASSUME TypeOK, CallerShape, NEW t \in Callers,
         pc[t] \in {"del_timer", "grab", "steal", "clear"}
  PROVE  /\ target[t] \in Works /\ target[t] \in Items /\ op[t] \in CancelOps
         /\ op[t] \in Ops /\ op[t] # "flush_work"
         /\ cpu[t] \in CPUs /\ cpu[t] \in 0 .. NCPU /\ cwq[t] \in 0 .. NCPU
         /\ pc[t] # "clear" => ret[t] = -1 /\ cpu[t] = 1
         /\ pc[t] = "clear" => ret[t] >= 0
         /\ pc[t] = "steal" => cwq[t] \in CPUs
<1>1. /\ Shape(pc[t], op[t], target[t], cpu[t], cwq[t], ret[t])
      /\ op[t] \in Ops /\ cpu[t] \in 0 .. NCPU /\ cwq[t] \in 0 .. NCPU
  BY CallerTypes
<1> QED
  BY <1>1 DEF Shape, CancelOps, Items

(* The canceller t gets hold of its work and goes on to wait_on_work.      *)
LEMMA GrabMoves ==
  ASSUME Inv, NEW t \in Callers, NEW w \in Works, NEW r \in {0, 1},
         pc[t] \in {"del_timer", "grab", "steal"}, target[t] = w,
         pc' = [pc EXCEPT ![t] = "wait_on"], ret' = [ret EXCEPT ![t] = r],
         cwq' = [cwq EXCEPT ![t] = 0] \/ UNCHANGED cwq,
         UNCHANGED <<op, target, cpu>>
  PROVE  /\ CallerShape'
         /\ pc' \in [Callers -> Pcs] /\ ret' \in [Callers -> {-1, 0, 1}]
         /\ cwq' \in [Callers -> 0 .. NCPU]
         /\ \A u \in Callers : pc'[u] = "wait" <=> pc[u] = "wait"
         /\ \A v \in Works, u \in Callers :
              Grabbed(v, u)' <=> Grabbed(v, u) \/ (v = w /\ u = t)
         /\ ~Grabbed(w, t)
<1>0. TypeOK /\ CallerShape
  BY DEF Inv
<1>1. /\ op[t] \in CancelOps /\ op[t] \in Ops /\ op[t] # "flush_work" /\ ret[t] = -1
      /\ cpu[t] \in CPUs /\ cpu[t] \in 0 .. NCPU /\ cwq[t] \in 0 .. NCPU
  BY <1>0, CancellerFacts
<1>2. PICK o \in CancelOps, n \in CPUs, k \in 0 .. NCPU :
        /\ o = op[t] /\ n = cpu[t] /\ cwq' = [cwq EXCEPT ![t] = k]
        /\ op = [op EXCEPT ![t] = op[t]] /\ target = [target EXCEPT ![t] = target[t]]
        /\ cpu = [cpu EXCEPT ![t] = cpu[t]]
  <2>1. /\ op = [op EXCEPT ![t] = op[t]] /\ target = [target EXCEPT ![t] = target[t]]
        /\ cpu = [cpu EXCEPT ![t] = cpu[t]] /\ cwq = [cwq EXCEPT ![t] = cwq[t]]
    BY <1>0, CallerTypes
  <2>2. 0 \in 0 .. NCPU
    BY WorkQueueAssumption
  <2>3. \E k \in 0 .. NCPU : cwq' = [cwq EXCEPT ![t] = k]
    BY <1>1, <2>1, <2>2
  <2> QED
    BY <1>1, <2>1, <2>3
<1>3. Becomes(t, "wait_on", o, w, n, k, r) /\ Shape("wait_on", o, w, n, k, r)
  <2>1. Becomes(t, "wait_on", o, w, n, k, r)
    BY <1>2 DEF Becomes
  <2>2. Shape("wait_on", o, w, n, k, r)
    BY <1>2 DEF Shape, CancelOps
  <2> QED
    BY <2>1, <2>2
<1>4. "wait_on" \in Pcs /\ o \in Ops /\ n \in 0 .. NCPU /\ r \in {-1, 0, 1}
  BY CpuFacts DEF Pcs, Ops, CancelOps
<1>5. /\ CallerShape'
      /\ pc' \in [Callers -> Pcs] /\ ret' \in [Callers -> {-1, 0, 1}]
      /\ cwq' \in [Callers -> 0 .. NCPU]
      /\ \A u \in Callers \ {t} :
           pc'[u] = pc[u] /\ op'[u] = op[u] /\ target'[u] = target[u] /\ ret'[u] = ret[u]
      /\ pc'[t] = "wait_on" /\ op'[t] = o /\ target'[t] = w /\ ret'[t] = r
  BY <1>0, <1>3, <1>4, CallerMoves
<1>6. ~Grabbed(w, t)
  BY <1>1 DEF Grabbed
<1>7. \A v \in Works, u \in Callers :
        Grabbed(v, u)' <=> Grabbed(v, u) \/ (v = w /\ u = t)
  <2>1. r >= 0 /\ o # "flush_work" /\ ~(ret[t] >= 0)
    BY <1>1 DEF CancelOps
  <2> QED
    BY <1>5, <2>1 DEF Grabbed
<1> QED
  BY <1>5, <1>6, <1>7

(* del_timer succeeds: the timer's claim goes to the canceller.            *)
LEMMA DelTimerStep ==
  ASSUME Inv, NEW t \in Callers, cancel_del_timer(t)
  PROVE  Inv'
<1>0. /\ TypeOK /\ OneClaim /\ BusyIffClaimed /\ DataAgrees
      /\ ListsOnce /\ WorkerShape /\ CallerShape
  BY DEF Inv
<1>1. PICK w \in Works : w = target[t]
  BY <1>0, CancellerFacts DEF cancel_del_timer
<1>2. /\ pc[t] = "del_timer"
      /\ timer' = [timer EXCEPT ![w] = FALSE]
      /\ ret' = [ret EXCEPT ![t] = IF timer[w] THEN 1 ELSE -1]
      /\ pc' = [pc EXCEPT ![t] = IF timer[w] THEN "wait_on" ELSE "grab"]
      /\ UNCHANGED <<pending, wq_data, setter, qvars, op, target, cpu, cwq, owed>>
  BY <1>1 DEF cancel_del_timer, Goto
<1>3. CASE timer[w]
  <2>1. /\ CallerShape'
        /\ pc' \in [Callers -> Pcs] /\ ret' \in [Callers -> {-1, 0, 1}]
        /\ cwq' \in [Callers -> 0 .. NCPU]
        /\ \A u \in Callers : pc'[u] = "wait" <=> pc[u] = "wait"
        /\ \A v \in Works, u \in Callers :
             Grabbed(v, u)' <=> Grabbed(v, u) \/ (v = w /\ u = t)
        /\ ~Grabbed(w, t)
    BY <1>1, <1>2, <1>3, GrabMoves
  <2>2. UNCHANGED <<pending, wq_data, setter, worklist, current_work, frames, wpc>>
    BY <1>2 DEF qvars
  <2>3. TypeOK'
    <3>1. timer' \in [Works -> BOOLEAN]
      BY <1>0, <1>2 DEF TypeOK
    <3> QED
      BY <1>0, <1>2, <2>1, <2>2, <3>1 DEF TypeOK
  <2>4. /\ w \in Items /\ w \notin Callers /\ Claim(w, "timer", 0)
        /\ "timer" \in Kinds /\ "cancel" \in Kinds /\ 0 \in Holders /\ t \in Holders
    BY <1>3, ItemFacts DEF Claim, Kinds, Holders
  <2>5. \A v \in Works : timer'[v] <=> timer[v] /\ v # w
    BY <1>0, <1>2 DEF TypeOK
  <2>6. Aside(w)
    BY <2>1, <2>2, <2>5 DEF Aside, Busy, Claim, Listed, Picked
  <2>7. \A c \in Kinds, n \in Holders :
          Claim(w, c, n)' <=> (Claim(w, c, n) /\ ~(c = "timer" /\ n = 0))
                              \/ (c = "cancel" /\ n = t)
    BY <2>1, <2>2, <2>5 DEF Claim, Listed, Picked
  <2>8. Moved(w, "timer", 0, "cancel", t)
    BY <2>2, <2>4, <2>6, <2>7 DEF Moved, Busy
  <2>9. OneClaim' /\ BusyIffClaimed'
    BY <1>0, <2>4, <2>8, ClaimMoved
  <2>10. DataAgrees'
    BY <1>0, <2>2 DEF DataAgrees, Listed, Picked
  <2>11. ListsOnce' /\ WorkerShape'
    BY <1>0, <1>2, QueuesKept
  <2> QED
    BY <2>1, <2>3, <2>9, <2>10, <2>11 DEF Inv
<1>4. CASE ~timer[w]
  <2>1. /\ op[t] \in CancelOps /\ ret[t] = -1 /\ cpu[t] = 1
        /\ ret = [ret EXCEPT ![t] = ret[t]] /\ cpu = [cpu EXCEPT ![t] = cpu[t]]
    BY <1>0, <1>2, CancellerFacts, CallerTypes
  <2>2. timer' = timer /\ ret' = ret /\ pc' = [pc EXCEPT ![t] = "grab"]
    BY <1>0, <1>2, <1>4, <2>1 DEF TypeOK
  <2>3. Shape("grab", op[t], target[t], 1, cwq[t], ret[t])
    BY <1>1, <2>1, CpuFacts DEF Shape, CancelOps
  <2>4. UNCHANGED <<wvars, qvars>> /\ UNCHANGED <<op, target, cwq, ret, owed>>
    BY <1>2, <2>2 DEF wvars
  <2>5. cpu' = [cpu EXCEPT ![t] = 1] /\ 1 \in 0 .. NCPU /\ "grab" \in Pcs
    BY <1>2, <2>1, CpuFacts DEF Pcs
  <2> QED
    BY <1>2, <2>2, <2>3, <2>4, <2>5, AdvanceStep
<1> QED
  BY <1>3, <1>4

(* test_and_set_bit in try_to_grab_pending: a free work is taken.          *)
LEMMA GrabStep ==
  ASSUME Inv, NEW t \in Callers, grab_pending(t)
  PROVE  Inv'
<1>0. /\ TypeOK /\ OneClaim /\ BusyIffClaimed /\ DataAgrees
      /\ ListsOnce /\ WorkerShape /\ CallerShape
  BY DEF Inv
<1>1. PICK w \in Works : w = target[t]
  BY <1>0, CancellerFacts DEF grab_pending
<1>2. /\ pc[t] = "grab"
      /\ pending' = [pending EXCEPT ![w] = TRUE]
      /\ ret' = [ret EXCEPT ![t] = IF pending[w] THEN -1 ELSE 0]
      /\ cwq' = [cwq EXCEPT ![t] = IF pending[w] THEN wq_data[w] ELSE 0]
      /\ pc' = [pc EXCEPT ![t] = IF pending[w] /\ wq_data[w] # 0 THEN "steal" ELSE "wait_on"]
      /\ UNCHANGED <<wq_data, timer, setter, qvars, op, target, cpu, owed>>
  BY <1>1 DEF grab_pending, Goto
<1>3. CASE ~pending[w]
  <2>1. /\ CallerShape'
        /\ pc' \in [Callers -> Pcs] /\ ret' \in [Callers -> {-1, 0, 1}]
        /\ cwq' \in [Callers -> 0 .. NCPU]
        /\ \A u \in Callers : pc'[u] = "wait" <=> pc[u] = "wait"
        /\ \A v \in Works, u \in Callers :
             Grabbed(v, u)' <=> Grabbed(v, u) \/ (v = w /\ u = t)
        /\ ~Grabbed(w, t)
    BY <1>1, <1>2, <1>3, GrabMoves
  <2>2. UNCHANGED <<wq_data, timer, setter, worklist, current_work, frames, wpc>>
    BY <1>2 DEF qvars
  <2>3. TypeOK'
    <3>1. pending' \in [Works -> BOOLEAN]
      BY <1>0, <1>2 DEF TypeOK
    <3> QED
      BY <1>0, <1>2, <2>1, <2>2, <3>1 DEF TypeOK
  <2>4. /\ w \in Items /\ w \notin Callers
        /\ "cancel" \in Kinds /\ t \in Holders
    BY ItemFacts DEF Kinds, Holders
  <2>5. \A v \in Works : pending'[v] <=> pending[v] \/ v = w
    BY <1>0, <1>2 DEF TypeOK
  <2>6. Aside(w)
    BY <2>1, <2>2, <2>5 DEF Aside, Busy, Claim, Listed, Picked
  <2>7. \A c \in Kinds, n \in Holders :
          Claim(w, c, n)' <=> Claim(w, c, n) \/ (c = "cancel" /\ n = t)
    BY <2>1, <2>2 DEF Claim, Listed, Picked
  <2>8. Given(w, "cancel", t)
    BY <1>3, <2>4, <2>5, <2>6, <2>7 DEF Given, Busy
  <2>9. OneClaim' /\ BusyIffClaimed'
    BY <1>0, <2>4, <2>8, ClaimGiven
  <2>10. DataAgrees'
    BY <1>0, <2>2 DEF DataAgrees, Listed, Picked
  <2>11. ListsOnce' /\ WorkerShape'
    BY <1>0, <1>2, QueuesKept
  <2> QED
    BY <2>1, <2>3, <2>9, <2>10, <2>11 DEF Inv
<1>4. CASE pending[w]
  <2>1. /\ op[t] \in CancelOps /\ op[t] \in Ops /\ ret[t] = -1 /\ cpu[t] = 1
        /\ op = [op EXCEPT ![t] = op[t]] /\ target = [target EXCEPT ![t] = target[t]]
        /\ cpu = [cpu EXCEPT ![t] = cpu[t]]
    BY <1>0, <1>2, CancellerFacts, CallerTypes
  <2>2. pending' = pending /\ wq_data[w] \in 0 .. NCPU
    BY <1>0, <1>2, <1>4 DEF TypeOK
  <2>3. PICK o \in CancelOps, k \in 0 .. NCPU, l \in {"steal", "wait_on"} :
          /\ o = op[t] /\ k = wq_data[w] /\ pc' = [pc EXCEPT ![t] = l]
          /\ l = "steal" => k # 0
    BY <1>2, <2>1, <2>2
  <2>4. Becomes(t, l, o, w, 1, k, -1)
    BY <1>1, <1>2, <1>4, <2>1, <2>3 DEF Becomes
  <2>5. Shape(l, o, w, 1, k, -1)
    BY <2>3, CpuFacts DEF Shape, CancelOps
  <2>6. \A v \in Works : ~Grabbed(v, t)
    BY <2>1 DEF Grabbed
  <2>7. owed' \in [Callers -> SUBSET (Works \X (0 .. NCPU))]
    BY <1>0, <1>2 DEF TypeOK
  <2>8. l \in Pcs /\ o \in Ops /\ 1 \in 0 .. NCPU
    BY CpuFacts DEF Pcs, Ops, CancelOps
  <2>9. UNCHANGED <<wvars, qvars>>
    BY <1>2, <2>2 DEF wvars
  <2> QED
    BY <1>2, <2>4, <2>5, <2>6, <2>7, <2>8, <2>9, CallerAlone
<1> QED
  BY <1>3, <1>4

(* The second half of try_to_grab_pending: the work's place on the list    *)
(* goes to the canceller, if it is still there.                            *)
LEMMA StealStep ==
  ASSUME Inv, NEW t \in Callers, steal_pending(t)
  PROVE  Inv'
<1>0. /\ TypeOK /\ OneClaim /\ BusyIffClaimed /\ DataAgrees
      /\ ListsOnce /\ WorkerShape /\ CallerShape
  BY DEF Inv
<1>1. PICK w \in Works, p \in CPUs : w = target[t] /\ p = cwq[t]
  BY <1>0, CancellerFacts DEF steal_pending
<1>2. /\ pc[t] = "steal"
      /\ cwq' = [cwq EXCEPT ![t] = 0]
      /\ pc' = [pc EXCEPT ![t] = "wait_on"]
      /\ UNCHANGED <<wvars, current_work, frames, wpc, op, target, cpu>>
  BY DEF steal_pending, Goto
<1>3. CASE on_this_list(w, p)
  <2>1. /\ worklist' = [worklist EXCEPT ![p] = RemoveFirst(worklist[p], w)]
        /\ ret' = [ret EXCEPT ![t] = 1]
        /\ owed' = [k \in Callers |-> owed[k] \ {<<w, 0>>}]
    BY <1>1, <1>3 DEF steal_pending
  <2>2. Listed(w, p)
    BY <1>0, <1>3, ItemFacts DEF on_this_list, Queued, DataAgrees, Listed
  <2>3. /\ CallerShape'
        /\ pc' \in [Callers -> Pcs] /\ ret' \in [Callers -> {-1, 0, 1}]
        /\ cwq' \in [Callers -> 0 .. NCPU]
        /\ \A u \in Callers : pc'[u] = "wait" <=> pc[u] = "wait"
        /\ \A v \in Works, u \in Callers :
             Grabbed(v, u)' <=> Grabbed(v, u) \/ (v = w /\ u = t)
        /\ ~Grabbed(w, t)
    BY <1>1, <1>2, <2>1, GrabMoves
  <2>4. /\ worklist' \in [CPUs -> Seq(Items)]
        /\ ListsOnce'
        /\ \A q \in CPUs, x \in Items : Listed(x, q)' <=> Listed(x, q) /\ ~(q = p /\ x = w)
    <3> DEFINE q0 == RemoveFirst(worklist[p], w)
    <3>1. /\ worklist[p] \in Seq(Items) /\ IsInjective(worklist[p])
          /\ w \in Range(worklist[p])
      BY <1>0, <2>2 DEF TypeOK, ListsOnce, Listed
    <3>2. /\ q0 \in Seq(Items)
          /\ IsInjective(q0)
          /\ \A x : x \in Range(q0) <=> x \in Range(worklist[p]) /\ x # w
      BY <3>1, RemoveFirstQueue
    <3>3. \A q \in CPUs : worklist'[q] = IF q = p THEN q0 ELSE worklist[q]
      BY <1>0, <2>1 DEF TypeOK
    <3> HIDE DEF q0
    <3>4. worklist' \in [CPUs -> Seq(Items)]
      BY <1>0, <2>1, <3>2 DEF TypeOK, q0
    <3> QED
      BY <1>0, <3>2, <3>3, <3>4 DEF ListsOnce, Listed
  <2>5. UNCHANGED <<pending, wq_data, timer, setter, current_work, frames, wpc>>
    BY <1>2 DEF wvars
  <2>6. TypeOK'
    <3>1. owed' \in [Callers -> SUBSET (Works \X (0 .. NCPU))]
      BY <1>0, <2>1 DEF TypeOK
    <3> QED
      BY <1>0, <1>2, <2>3, <2>4, <2>5, <3>1 DEF TypeOK
  <2>7. /\ w \in Items /\ w \notin Callers /\ Claim(w, "list", p)
        /\ "list" \in Kinds /\ "cancel" \in Kinds /\ p \in Holders /\ t \in Holders
    BY <2>2, ItemFacts DEF Claim, Kinds, Holders
  <2>8. Aside(w)
    BY <2>3, <2>4, <2>5 DEF Aside, Busy, Claim, Picked
  <2>9. \A c \in Kinds, n \in Holders :
          Claim(w, c, n)' <=> (Claim(w, c, n) /\ ~(c = "list" /\ n = p))
                              \/ (c = "cancel" /\ n = t)
    BY <2>3, <2>4, <2>5, <2>7 DEF Claim, Picked
  <2>10. Moved(w, "list", p, "cancel", t)
    BY <2>5, <2>7, <2>8, <2>9 DEF Moved, Busy
  <2>11. OneClaim' /\ BusyIffClaimed'
    BY <1>0, <2>7, <2>10, ClaimMoved
  <2>12. DataAgrees'
    BY <1>0, <2>4, <2>5, ItemFacts DEF DataAgrees, Picked
  <2>13. WorkerShape'
    BY <1>0, <2>5 DEF WorkerShape
  <2> QED
    BY <2>3, <2>4, <2>6, <2>11, <2>12, <2>13 DEF Inv
<1>4. CASE ~on_this_list(w, p)
  <2>1. UNCHANGED <<worklist, ret, owed>>
    BY <1>1, <1>4 DEF steal_pending
  <2>2. /\ op[t] \in CancelOps /\ op[t] \in Ops /\ ret[t] = -1 /\ cpu[t] = 1
        /\ op = [op EXCEPT ![t] = op[t]] /\ target = [target EXCEPT ![t] = target[t]]
        /\ cpu = [cpu EXCEPT ![t] = cpu[t]] /\ ret = [ret EXCEPT ![t] = ret[t]]
    BY <1>0, <1>2, CancellerFacts, CallerTypes
  <2>3. PICK o \in CancelOps : o = op[t]
    BY <2>2
  <2>4. Becomes(t, "wait_on", o, w, 1, 0, -1)
    BY <1>1, <1>2, <2>1, <2>2, <2>3 DEF Becomes
  <2>5. Shape("wait_on", o, w, 1, 0, -1)
    BY <2>3, CpuFacts DEF Shape, CancelOps
  <2>6. \A v \in Works : ~Grabbed(v, t)
    BY <2>2 DEF Grabbed
  <2>7. owed' \in [Callers -> SUBSET (Works \X (0 .. NCPU))]
    BY <1>0, <2>1 DEF TypeOK
  <2>8. "wait_on" \in Pcs /\ o \in Ops /\ 1 \in 0 .. NCPU /\ 0 \in 0 .. NCPU
    BY CpuFacts, WorkQueueAssumption DEF Pcs, Ops, CancelOps
  <2>9. UNCHANGED <<wvars, qvars>>
    BY <1>2, <2>1 DEF qvars
  <2> QED
    BY <1>2, <2>4, <2>5, <2>6, <2>7, <2>8, <2>9, CallerAlone
<1> QED
  BY <1>3, <1>4

(* work_clear_pending at the end of __cancel_work_timer.                   *)
LEMMA CancelDoneStep ==
  ASSUME Inv, NEW t \in Callers, cancel_done(t)
  PROVE  Inv'
<1>0. /\ TypeOK /\ OneClaim /\ BusyIffClaimed /\ DataAgrees
      /\ ListsOnce /\ WorkerShape /\ CallerShape
  BY DEF Inv
<1>1. PICK w \in Works : w = target[t]
  BY <1>0, CancellerFacts DEF cancel_done
<1>2. /\ pc[t] = "clear" /\ pending' = [pending EXCEPT ![w] = FALSE]
      /\ Becomes(t, "idle", "none", None, 0, 0, 0)
      /\ owed' = [owed EXCEPT ![t] = {}]
      /\ UNCHANGED <<wq_data, timer, setter, worklist, current_work, frames, wpc>>
  BY <1>1 DEF cancel_done, return, Becomes, Goto, qvars
<1>3. op[t] # "flush_work" /\ ret[t] >= 0
  BY <1>0, <1>2, CancellerFacts
<1>4. "idle" \in Pcs /\ "none" \in Ops /\ 0 \in 0 .. NCPU
  BY WorkQueueAssumption DEF Pcs, Ops
<1>5. Shape("idle", "none", None, 0, 0, 0)
  BY DEF Shape, CancelOps
<1>6. /\ CallerShape'
      /\ pc' \in [Callers -> Pcs] /\ op' \in [Callers -> Ops]
      /\ target' \in [Callers -> Works \cup {None}]
      /\ cpu' \in [Callers -> 0 .. NCPU] /\ cwq' \in [Callers -> 0 .. NCPU]
      /\ ret' \in [Callers -> {-1, 0, 1}]
      /\ \A u \in Callers \ {t} :
           pc'[u] = pc[u] /\ op'[u] = op[u] /\ target'[u] = target[u] /\ ret'[u] = ret[u]
      /\ pc'[t] = "idle" /\ op'[t] = "none" /\ target'[t] = None /\ ret'[t] = 0
  BY <1>0, <1>2, <1>4, <1>5, CallerMoves
<1>7. TypeOK'
  <2>1. pending' \in [Works -> BOOLEAN]
    BY <1>0, <1>2 DEF TypeOK
  <2>2. owed' \in [Callers -> SUBSET (Works \X (0 .. NCPU))]
    BY <1>0, <1>2 DEF TypeOK
  <2> QED
    BY <1>0, <1>2, <1>6, <2>1, <2>2 DEF TypeOK
<1>8. /\ w \in Items /\ w \notin Callers /\ Claim(w, "cancel", t)
      /\ "cancel" \in Kinds /\ t \in Holders
  BY <1>1, <1>3, ItemFacts DEF Claim, Grabbed, Kinds, Holders
<1>9. \A v \in Works, u \in Callers : Grabbed(v, u)' <=> Grabbed(v, u) /\ ~(v = w /\ u = t)
  BY <1>1, <1>6, ItemFacts DEF Grabbed
<1>10. \A v \in Works : pending'[v] <=> pending[v] /\ v # w
  BY <1>0, <1>2 DEF TypeOK
<1>11. OneClaim' /\ BusyIffClaimed'
  <2>1. \A u \in Callers : pc'[u] = "wait" <=> pc[u] = "wait"
    BY <1>2, <1>6
  <2>2. Aside(w)
    BY <1>2, <1>9, <1>10, <2>1 DEF Aside, Busy, Claim, Listed, Picked
  <2>3. ~Busy(w)'
    BY <1>8, <1>10 DEF Busy
  <2>4. \A c \in Kinds, n \in Holders :
          Claim(w, c, n)' <=> Claim(w, c, n) /\ ~(c = "cancel" /\ n = t)
    BY <1>2, <1>9 DEF Claim, Listed, Picked
  <2>5. Dropped(w, "cancel", t)
    BY <1>8, <2>2, <2>3, <2>4 DEF Dropped
  <2> QED
    BY <1>0, <1>8, <2>5, ClaimDropped
<1>12. DataAgrees'
  BY <1>0, <1>2 DEF DataAgrees, Listed, Picked
<1>13. ListsOnce' /\ WorkerShape'
  BY <1>0, <1>2, QueuesKept DEF qvars
<1> QED
  BY <1>6, <1>7, <1>11, <1>12, <1>13 DEF Inv

-----------------------------------------------------------------------------
(* Nothing is claimed at the start.                                        *)
LEMMA InvInit == Init => Inv
<1> SUFFICES ASSUME Init PROVE Inv
  OBVIOUS
<1>1. TypeOK
  BY WorkQueueAssumption DEF Init, TypeOK, Setters, Pcs, Ops
<1>2. \A p \in CPUs : \A x : ~Listed(x, p)
  BY EmptyQueue DEF Init, Listed
<1>3. \A p \in CPUs : \A x : ~Picked(x, p)
  BY DEF Init, Picked
<1>4. \A x \in Items, c \in Kinds, n \in Holders : ~Claim(x, c, n)
  BY <1>2, <1>3, ItemFacts DEF Claim, Grabbed, Init
<1>5. \A x \in Items : ~Busy(x)
  BY DEF Busy, Init
<1>6. OneClaim /\ BusyIffClaimed
  BY <1>4, <1>5 DEF OneClaim, BusyIffClaimed
<1>7. DataAgrees
  BY <1>2, <1>3 DEF DataAgrees
<1>8. ListsOnce /\ WorkerShape
  BY EmptyQueue DEF Init, ListsOnce, WorkerShape
<1>9. CallerShape
  BY DEF Init, CallerShape, Shape, CancelOps
<1> QED
  BY <1>1, <1>6, <1>7, <1>8, <1>9 DEF Inv

(* The inductive step.                                                     *)
LEMMA InvNext == Inv /\ [Next]_vars => Inv'
<1> SUFFICES ASSUME Inv, [Next]_vars PROVE Inv'
  OBVIOUS
<1>1. CASE \E w \in Works : AnyContext(w)
  BY <1>1, ContextStep
<1>2. CASE \E p \in CPUs : Worker(p) \/ flush_own(p)
  BY <1>2, RunStep, CallStep DEF Worker
<1>3. CASE \E t \in Callers : Call(t)
  BY <1>3, StartStep
<1>4. CASE \E t \in Callers : InCall(t)
  BY <1>4, FlushStep, DelTimerStep, GrabStep, StealStep, CancelDoneStep DEF InCall
<1>5. CASE UNCHANGED vars
  <2>1. UNCHANGED <<pending, wq_data, timer, setter, worklist, current_work, frames,
                    wpc, pc, op, target, cpu, cwq, ret, owed>>
    BY <1>5 DEF vars, wvars, qvars, cvars
  <2> QED
    BY <2>1 DEF Inv, TypeOK, OneClaim, BusyIffClaimed, Claim, Busy, Listed, Picked,
       Grabbed, DataAgrees, ListsOnce, WorkerShape, CallerShape
<1> QED
  BY <1>1, <1>2, <1>3, <1>4, <1>5 DEF Next

(* Inv holds in every reachable state.                                     *)
THEOREM WorkQueueInvariant == Spec => []Inv
<1>1. Init => Inv
  BY InvInit
<1>2. Inv /\ [Next]_vars => Inv'
  BY InvNext
<1> QED
  BY <1>1, <1>2, PTL DEF Spec

(* TypeOK: the work items, the lists, the workers' stacks and the locals   *)
(* of the flush and cancel calls keep their types.                         *)
THEOREM WorkQueueTypeOK == Spec => []TypeOK
<1>1. Inv => TypeOK
  BY DEF Inv
<1> QED
  BY <1>1, WorkQueueInvariant, PTL

-----------------------------------------------------------------------------
(* The owners of a work, as PendingHasOneOwner counts them, are its        *)
(* claims, with positions for places on lists.                             *)
LEMMA OwnersOfWork ==
  ASSUME Inv, NEW w \in Works
  PROVE  IF pending[w] THEN \E o : Owners(w) = {o} ELSE Owners(w) = {}
<1> DEFINE L == {e \in UNION {{p} \X DOMAIN worklist[p] : p \in CPUs} :
                   worklist[e[1]][e[2]] = w}
           T == {x \in {"timer"} : timer[w]}
           S == {x \in {"setter"} : setter[w] # "none"}
           P == {p \in CPUs : wpc[p] = "picked" /\ Last(frames[p]) = w}
           C == {t \in Callers : target[t] = w /\ op[t] # "flush_work" /\ ret[t] >= 0}
<1>0. Owners(w) = L \cup T \cup S \cup P \cup C
  BY DEF Owners
<1>1. w \in Items
  BY ItemFacts
<1>2. \A p \in CPUs : /\ worklist[p] \in Seq(Items)
                      /\ DOMAIN worklist[p] = 1 .. Len(worklist[p])
  BY DEF Inv, TypeOK
<1>3. \A p \in CPUs : Listed(w, p) <=> \E i \in DOMAIN worklist[p] : worklist[p][i] = w
  <2> TAKE p \in CPUs
  <2>1. \A e : e \in Range(worklist[p])
                 <=> \E i \in 1 .. Len(worklist[p]) : worklist[p][i] = e
    BY <1>2, QueueMembers
  <2> QED
    BY <1>2, <2>1 DEF Listed
<1>4. /\ \A e \in L : \E p \in CPUs : \E i \in DOMAIN worklist[p] :
                        e = <<p, i>> /\ worklist[p][i] = w /\ Claim(w, "list", p)
      /\ \A p \in CPUs : \A i \in DOMAIN worklist[p] : worklist[p][i] = w => <<p, i>> \in L
  <2>1. ASSUME NEW e \in L
        PROVE  \E p \in CPUs : \E i \in DOMAIN worklist[p] :
                 e = <<p, i>> /\ worklist[p][i] = w /\ Claim(w, "list", p)
    <3>1. PICK p \in CPUs : e \in {p} \X DOMAIN worklist[p]
      OBVIOUS
    <3>2. PICK i \in DOMAIN worklist[p] : e = <<p, i>>
      BY <3>1
    <3>3. worklist[p][i] = w
      BY <3>2
    <3> QED
      BY <1>3, <3>2, <3>3 DEF Claim
  <2>2. ASSUME NEW p \in CPUs, NEW i \in DOMAIN worklist[p], worklist[p][i] = w
        PROVE  <<p, i>> \in L
    BY <2>2
  <2> QED
    BY <2>1, <2>2
<1>5. /\ \A p : p \in P <=> Claim(w, "picked", p)
      /\ \A t : t \in C <=> Claim(w, "cancel", t)
      /\ T # {} <=> Claim(w, "timer", 0)
      /\ S # {} <=> Claim(w, "setter", 0)
  BY DEF Claim, Picked, Grabbed
<1>6. T \subseteq {"timer"} /\ S \subseteq {"setter"} /\ P \subseteq CPUs /\ C \subseteq Callers
  OBVIOUS
<1>7. \A c, d \in Kinds, m, n \in Holders :
        Claim(w, c, m) /\ Claim(w, d, n) => c = d /\ m = n
  BY <1>1 DEF Inv, OneClaim
<1>8. \A p, q \in CPUs : \A i \in DOMAIN worklist[p], j \in DOMAIN worklist[q] :
        worklist[p][i] = w /\ worklist[q][j] = w => p = q /\ i = j
  <2> TAKE p, q \in CPUs
  <2> TAKE i \in DOMAIN worklist[p], j \in DOMAIN worklist[q]
  <2> HAVE worklist[p][i] = w /\ worklist[q][j] = w
  <2>1. Claim(w, "list", p) /\ Claim(w, "list", q)
    BY <1>3 DEF Claim
  <2>2. p = q
    BY <1>7, <2>1 DEF Kinds, Holders
  <2>3. IsInjective(worklist[p])
    BY DEF Inv, ListsOnce
  <2>4. \A a, b \in 1 .. Len(worklist[p]) : worklist[p][a] = worklist[p][b] => a = b
    BY <1>2, <2>3, QueueMembers
  <2> QED
    BY <1>2, <2>2, <2>4
<1>9. /\ "list" \in Kinds /\ "picked" \in Kinds /\ "timer" \in Kinds
      /\ "setter" \in Kinds /\ "cancel" \in Kinds
      /\ CPUs \subseteq Holders /\ Callers \subseteq Holders /\ 0 \in Holders
  BY DEF Kinds, Holders
<1> HIDE DEF L, T, S, P, C
<1>10. CASE ~pending[w]
  <2>1. ~Busy(w)
    BY <1>10, ItemFacts DEF Busy
  <2>2. \A c \in Kinds, n \in Holders : ~Claim(w, c, n)
    BY <1>1, <2>1 DEF Inv, BusyIffClaimed
  <2>3. L = {}
    BY <1>4, <1>9, <2>2
  <2>4. T = {} /\ S = {}
    BY <1>5, <1>9, <2>2
  <2>5. P = {} /\ C = {}
    BY <1>5, <1>6, <1>9, <2>2
  <2> QED
    BY <1>0, <1>10, <2>3, <2>4, <2>5
<1>11. CASE pending[w]
  <2>1. PICK c \in Kinds, n \in Holders : Claim(w, c, n)
    BY <1>1, <1>11 DEF Inv, BusyIffClaimed, Busy
  <2>2. \A d \in Kinds, m \in Holders : Claim(w, d, m) => d = c /\ m = n
    BY <1>7, <2>1
  <2>3. c # "list" => L = {}
    BY <1>4, <1>9, <2>2
  <2>4. c # "timer" => T = {}
    BY <1>5, <1>9, <2>2
  <2>5. c # "setter" => S = {}
    BY <1>5, <1>9, <2>2
  <2>6. c # "picked" => P = {}
    BY <1>5, <1>6, <1>9, <2>2
  <2>7. c # "cancel" => C = {}
    BY <1>5, <1>6, <1>9, <2>2
  <2>8. CASE c = "list"
    <3>1. n \in CPUs /\ Listed(w, n)
      BY <2>1, <2>8 DEF Claim
    <3>2. PICK i \in DOMAIN worklist[n] : worklist[n][i] = w
      BY <1>3, <3>1
    <3>3. L = {<<n, i>>}
      BY <1>4, <1>8, <3>1, <3>2
    <3>4. Owners(w) = {<<n, i>>}
      BY <1>0, <2>4, <2>5, <2>6, <2>7, <2>8, <3>3
    <3> QED
      BY <1>11, <3>4
  <2>9. CASE c = "timer"
    <3>1. Claim(w, "timer", 0)
      BY <2>1, <2>9 DEF Claim
    <3>2. T = {"timer"}
      BY <1>5, <1>6, <3>1
    <3>3. Owners(w) = {"timer"}
      BY <1>0, <2>3, <2>5, <2>6, <2>7, <2>9, <3>2
    <3> QED
      BY <1>11, <3>3
  <2>10. CASE c = "setter"
    <3>1. Claim(w, "setter", 0)
      BY <2>1, <2>10 DEF Claim
    <3>2. S = {"setter"}
      BY <1>5, <1>6, <3>1
    <3>3. Owners(w) = {"setter"}
      BY <1>0, <2>3, <2>4, <2>6, <2>7, <2>10, <3>2
    <3> QED
      BY <1>11, <3>3
  <2>11. CASE c = "picked"
    <3>1. P = {n}
      BY <1>5, <1>6, <1>9, <2>1, <2>2, <2>11
    <3>2. Owners(w) = {n}
      BY <1>0, <2>3, <2>4, <2>5, <2>7, <2>11, <3>1
    <3> QED
      BY <1>11, <3>2
  <2>12. CASE c = "cancel"
    <3>1. C = {n}
      BY <1>5, <1>6, <1>9, <2>1, <2>2, <2>12
    <3>2. Owners(w) = {n}
      BY <1>0, <2>3, <2>4, <2>5, <2>6, <2>12, <3>1
    <3> QED
      BY <1>11, <3>2
  <2> QED
    BY <2>8, <2>9, <2>10, <2>11, <2>12 DEF Kinds
<1> QED
  BY <1>10, <1>11

(* PENDING is a lock on the work, for any number of works, callers and     *)
(* CPUs: whatever queues, timers, workers and cancellers do, a pending     *)
(* work has one owner and a work that is not pending has none, and a       *)
(* worker about to clear PENDING finds its own cwq in work->data.          *)
THEOREM WorkQueueOneOwner == Spec => []PendingHasOneOwner
<1>1. Inv => PendingHasOneOwner
  <2> SUFFICES ASSUME Inv PROVE PendingHasOneOwner
    OBVIOUS
  <2>1. ASSUME NEW w \in Works
        PROVE  Cardinality(Owners(w)) = IF pending[w] THEN 1 ELSE 0
    <3>1. CASE pending[w]
      <4>1. PICK o : Owners(w) = {o}
        BY <3>1, OwnersOfWork
      <4> QED
        BY <3>1, <4>1, FS_Singleton
    <3>2. CASE ~pending[w]
      <4>1. Owners(w) = {}
        BY <3>2, OwnersOfWork
      <4> QED
        BY <3>2, <4>1, FS_EmptySet
    <3> QED
      BY <3>1, <3>2
  <2>2. \A p \in CPUs : wpc[p] = "picked" /\ Last(frames[p]) \in Works
                          => wq_data[Last(frames[p])] = p
    BY DEF Inv, DataAgrees, Picked
  <2> QED
    BY <2>1, <2>2 DEF PendingHasOneOwner
<1> QED
  BY <1>1, WorkQueueInvariant, PTL

-----------------------------------------------------------------------------
(* A cancelled work is idle.  This holds as long as no callback runs its   *)
(* own queue by hand: then current_work says what a worker runs.  (With    *)
(* nested callbacks it only names the innermost one, and nothing after     *)
(* that one has returned.)                                                 *)

NoNesting == MaxDepth = 1 \/ NCPU # 1

(* A worker runs what current_work says and nothing else.                  *)
Flat ==
  \A p \in CPUs : IF current_work[p] = None THEN frames[p] = <<>>
                                            ELSE frames[p] = <<current_work[p]>>

(* A work that runs has been queued, so wait_on_work looks for it.         *)
RanQueued == \A w \in Works, p \in CPUs : current_work[p] = w => wq_data[w] # 0

(* A canceller's barrier is on the CPU its loop has got to.                *)
BarrierWhere ==
  \A t \in Callers, p \in CPUs :
    op[t] \in CancelOps /\ (Listed(t, p) \/ Picked(t, p)) => p = cpu[t]

(* The CPUs on which wait_on_work has seen to it that the work does not    *)
(* run.                                                                    *)
Passed(t, q) ==
  \/ q < cpu[t]
  \/ pc[t] = "woken" /\ q = cpu[t]
  \/ pc[t] = "clear"

(* A work that has been grabbed does not run where wait_on_work has been.  *)
PassedIdle ==
  \A t \in Callers, q \in CPUs :
    op[t] \in CancelOps /\ ret[t] >= 0 /\ Passed(t, q) => current_work[q] # target[t]

CancelInv == Flat /\ RanQueued /\ BarrierWhere /\ PassedIdle

(* The invariants of a canceller that is done imply CancelledIsIdle.       *)
LEMMA CancelledFollows == Inv /\ CancelInv => CancelledIsIdle
<1> SUFFICES ASSUME Inv, CancelInv, NEW t \in Callers, pc[t] = "clear"
             PROVE  /\ ~Queued(target[t]) /\ ~timer[target[t]]
                    /\ \A p \in CPUs : target[t] \notin Range(frames[p])
  BY DEF CancelledIsIdle
<1>1. PICK w \in Works :
        w = target[t] /\ op[t] \in CancelOps /\ op[t] # "flush_work" /\ ret[t] >= 0
  BY CancellerFacts DEF Inv
<1>2. Claim(w, "cancel", t) /\ w \in Items
  BY <1>1, ItemFacts DEF Claim, Grabbed
<1>3. \A c \in Kinds, n \in Holders : Claim(w, c, n) => c = "cancel"
  BY <1>2 DEF Inv, OneClaim, Kinds, Holders
<1>4. ~Queued(w) /\ ~timer[w]
  BY <1>3 DEF Queued, Claim, Listed, Kinds, Holders
<1>5. ASSUME NEW p \in CPUs PROVE w \notin Range(frames[p])
  <2>1. current_work[p] # w
    BY <1>1 DEF CancelInv, PassedIdle, Passed
  <2>2. CASE current_work[p] = None
    <3>1. frames[p] = <<>>
      BY <2>2 DEF CancelInv, Flat
    <3> QED
      BY <3>1, EmptyQueue
  <2>3. CASE current_work[p] # None
    <3>1. frames[p] = <<current_work[p]>> /\ frames[p] \in Seq(Items)
      BY <2>3 DEF CancelInv, Flat, Inv, TypeOK
    <3>2. \A e : e \in Range(frames[p]) <=> \E i \in 1 .. Len(frames[p]) : frames[p][i] = e
      BY <3>1, QueueMembers, ZenonT(60)
    <3> QED
      BY <2>1, <3>1, <3>2
  <2> QED
    BY <2>2, <2>3
<1> QED
  BY <1>1, <1>4, <1>5

(* At first nobody cancels.                                                *)
LEMMA CancelInit == Init => CancelInv
<1> SUFFICES ASSUME Init PROVE CancelInv
  OBVIOUS
<1>1. Flat /\ RanQueued
  BY ItemFacts DEF Init, Flat, RanQueued
<1>2. BarrierWhere /\ PassedIdle
  BY DEF Init, BarrierWhere, PassedIdle, CancelOps
<1> QED
  BY <1>1, <1>2 DEF CancelInv

(* A step that only concerns works and works on lists.                     *)
LEMMA CancelContext ==
  ASSUME Inv, CancelInv, NEW w \in Works, AnyContext(w)
  PROVE  CancelInv'
<1>1. /\ UNCHANGED <<current_work, frames, wpc, pc, op, target, cpu, ret>>
      /\ UNCHANGED worklist
           \/ \E p \in CPUs : worklist' = [worklist EXCEPT ![p] = Append(worklist[p], w)]
      /\ UNCHANGED wq_data \/ \E p \in CPUs : wq_data' = [wq_data EXCEPT ![w] = p]
  BY DEF AnyContext, set_pending, __queue_work, add_timer, delayed_work_timer_fn,
         cancel_delayed_work, qvars, cvars
<1>2. \A t \in Callers, p \in CPUs : Listed(t, p)' <=> Listed(t, p)
  <2>1. ASSUME NEW p \in CPUs, worklist' = [worklist EXCEPT ![p] = Append(worklist[p], w)]
        PROVE  \A t \in Callers, q \in CPUs : Listed(t, q)' <=> Listed(t, q)
    <3>1. worklist[p] \in Seq(Items) /\ w \in Items
      BY ItemFacts DEF Inv, TypeOK
    <3>2. \A y : y \in Range(Append(worklist[p], w)) <=> y \in Range(worklist[p]) \/ y = w
      BY <3>1, StackPush
    <3>3. \A q \in CPUs : worklist'[q] = IF q = p THEN Append(worklist[p], w) ELSE worklist[q]
      BY <2>1 DEF Inv, TypeOK
    <3> QED
      BY <3>2, <3>3, ItemFacts DEF Listed
  <2> QED
    BY <1>1, <2>1 DEF Listed
<1>3. Flat'
  BY <1>1 DEF CancelInv, Flat
<1>4. RanQueued'
  <2>1. ASSUME NEW v \in Works, wq_data[v] # 0 PROVE wq_data'[v] # 0
    BY <1>1, <2>1, CpuFacts DEF Inv, TypeOK
  <2> QED
    BY <1>1, <2>1 DEF CancelInv, RanQueued
<1>5. BarrierWhere'
  BY <1>1, <1>2 DEF CancelInv, BarrierWhere, Picked
<1>6. PassedIdle'
  BY <1>1 DEF CancelInv, PassedIdle, Passed
<1> QED
  BY <1>3, <1>4, <1>5, <1>6 DEF CancelInv

(* The worker takes an item: no canceller has hold of it.                  *)
LEMMA CancelRun ==
  ASSUME NoNesting, Inv, CancelInv, NEW p \in CPUs,
         worker_thread(p) \/ f_returns(p) \/ flush_own(p)
  PROVE  CancelInv'
<1>0. /\ TypeOK /\ OneClaim /\ DataAgrees /\ ListsOnce /\ WorkerShape
      /\ Flat /\ RanQueued /\ BarrierWhere /\ PassedIdle
  BY DEF Inv, CancelInv
<1>1. wpc[p] # "picked" /\ UNCHANGED <<wq_data, pc, op, target, cpu, ret>>
  BY DEF worker_thread, f_returns, flush_own, wvars, cvars
<1>2. ~flush_own(p)
  <2>1. SUFFICES ASSUME flush_own(p) PROVE FALSE
    OBVIOUS
  <2>2. NCPU = 1 /\ MaxDepth = 1 /\ Len(frames[p]) < 1 /\ wpc[p] = "run"
    BY <2>1 DEF flush_own, NoNesting
  <2>3. frames[p] \in Seq(Items) /\ frames[p] # <<>>
    BY <1>0, <2>2 DEF TypeOK, WorkerShape
  <2> QED
    BY <2>2, <2>3
<1>3. PICK cur, ow : next_work(p, <<>>, cur, ow) /\ (worklist[p] = <<>> => cur = None)
  <2>1. CASE worker_thread(p)
    BY <2>1 DEF worker_thread
  <2>2. CASE f_returns(p)
    <3>1. frames[p] # <<>>
      BY <1>0, <2>2 DEF WorkerShape, f_returns
    <3>2. frames[p] = <<current_work[p]>>
      BY <1>0, <3>1 DEF Flat
    <3>3. Front(frames[p]) = <<>>
      BY <3>2 DEF Front
    <3> QED
      BY <2>2, <3>3 DEF f_returns
  <2> QED
    BY <1>2, <2>1, <2>2
<1>4. CASE worklist[p] = <<>>
  <2>1. /\ current_work' = [current_work EXCEPT ![p] = None]
        /\ frames' = [frames EXCEPT ![p] = <<>>]
        /\ wpc' = [wpc EXCEPT ![p] = "loop"] /\ worklist' = worklist
    BY <1>3, <1>4 DEF next_work
  <2>2. \A q \in CPUs : /\ current_work'[q] = IF q = p THEN None ELSE current_work[q]
                        /\ frames'[q] = IF q = p THEN <<>> ELSE frames[q]
                        /\ wpc'[q] = IF q = p THEN "loop" ELSE wpc[q]
    BY <1>0, <2>1 DEF TypeOK
  <2>3. Flat'
    BY <1>0, <2>2 DEF Flat
  <2>4. RanQueued'
    BY <1>0, <1>1, <2>2, ItemFacts DEF RanQueued
  <2>5. BarrierWhere'
    BY <1>0, <1>1, <2>1, <2>2 DEF BarrierWhere, Listed, Picked
  <2>6. PassedIdle'
    <3>1. \A t \in Callers : op[t] \in CancelOps => target[t] # None
      BY ItemFacts DEF Inv, CallerShape, Shape
    <3> QED
      BY <1>0, <1>1, <2>2, <3>1 DEF PassedIdle, Passed
  <2> QED
    BY <2>3, <2>4, <2>5, <2>6 DEF CancelInv
<1>5. CASE worklist[p] # <<>>
  <2>1. PICK x \in Items :
          /\ x = Head(worklist[p]) /\ x \in Range(worklist[p])
          /\ \A y : y \in Range(Tail(worklist[p])) <=> y \in Range(worklist[p]) /\ y # x
    <3>1. worklist[p] \in Seq(Items) /\ IsInjective(worklist[p])
      BY <1>0 DEF TypeOK, ListsOnce
    <3> QED
      BY <1>5, <3>1, TailQueue
  <2>2. /\ current_work' = [current_work EXCEPT ![p] = x]
        /\ worklist' = [worklist EXCEPT ![p] = Tail(worklist[p])]
        /\ frames' = [frames EXCEPT ![p] = <<x>>]
        /\ wpc' = [wpc EXCEPT ![p] = "picked"]
    BY <1>3, <1>5, <2>1 DEF next_work
  <2>3. \A q \in CPUs : /\ current_work'[q] = IF q = p THEN x ELSE current_work[q]
                        /\ frames'[q] = IF q = p THEN <<x>> ELSE frames[q]
                        /\ wpc'[q] = IF q = p THEN "picked" ELSE wpc[q]
                        /\ worklist'[q] = IF q = p THEN Tail(worklist[p]) ELSE worklist[q]
    BY <1>0, <2>2 DEF TypeOK
  <2>4. Listed(x, p) /\ x # None
    BY <2>1, ItemFacts DEF Listed
  <2>5. Flat'
    BY <1>0, <2>3, <2>4 DEF Flat
  <2>6. RanQueued'
    BY <1>0, <1>1, <2>3, <2>4, CpuFacts DEF RanQueued, DataAgrees
  <2>7. BarrierWhere'
    <3>1. Last(<<x>>) = x
      BY DEF Last
    <3>2. \A y, q : q \in CPUs /\ (Listed(y, q)' \/ Picked(y, q)') =>
                     Listed(y, q) \/ Picked(y, q)
      BY <2>1, <2>3, <2>4, <3>1 DEF Listed, Picked
    <3> QED
      BY <1>0, <1>1, <3>2 DEF BarrierWhere
  <2>8. PassedIdle'
    <3>1. \A t \in Callers : op[t] \in CancelOps /\ ret[t] >= 0 => target[t] # x
      <4> SUFFICES ASSUME NEW t \in Callers, op[t] \in CancelOps, ret[t] >= 0, target[t] = x
                   PROVE  FALSE
        OBVIOUS
      <4>1. x \in Works
        BY DEF Inv, CallerShape, Shape
      <4>2. Claim(x, "cancel", t) /\ Claim(x, "list", p)
        BY <2>4, <4>1 DEF Claim, Grabbed, CancelOps
      <4> QED
        BY <1>0, <4>2 DEF OneClaim, Kinds, Holders
    <3> QED
      BY <1>0, <1>1, <2>3, <3>1 DEF PassedIdle, Passed
  <2> QED
    BY <2>5, <2>6, <2>7, <2>8 DEF CancelInv
<1> QED
  BY <1>4, <1>5

(* A barrier is completed: its worker has finished the work it was put in  *)
(* front of the queue for.                                                 *)
LEMMA CancelCall ==
  ASSUME Inv, CancelInv, NEW p \in CPUs, call_f(p)
  PROVE  CancelInv'
<1>0. /\ TypeOK /\ WorkerShape /\ BusyIffClaimed /\ CallerShape
      /\ Flat /\ RanQueued /\ BarrierWhere /\ PassedIdle
  BY DEF Inv, CancelInv
<1>1. /\ wpc[p] = "picked" /\ wpc' = [wpc EXCEPT ![p] = "run"]
      /\ pc' = [t \in Callers |-> IF t = Last(frames[p]) THEN "woken" ELSE pc[t]]
      /\ UNCHANGED <<wq_data, worklist, current_work, frames, op, target, cpu, ret>>
  BY DEF call_f, completes
<1>2. Last(frames[p]) = current_work[p]
  <2>1. frames[p] = <<current_work[p]>>
    BY <1>0, <1>1 DEF WorkerShape, Flat
  <2> QED
    BY <2>1 DEF Last
<1>3. Flat' /\ RanQueued'
  BY <1>0, <1>1 DEF Flat, RanQueued
<1>4. BarrierWhere'
  <2>1. \A y, q : q \in CPUs /\ (Listed(y, q)' \/ Picked(y, q)') =>
                     Listed(y, q) \/ Picked(y, q)
    BY <1>0, <1>1 DEF Listed, Picked, TypeOK
  <2> QED
    BY <1>0, <1>1, <2>1 DEF BarrierWhere
<1>5. PassedIdle'
  <2> SUFFICES ASSUME NEW t \in Callers, NEW q \in CPUs,
                      op[t] \in CancelOps, ret[t] >= 0, Passed(t, q)'
               PROVE  current_work[q] # target[t]
    BY <1>1 DEF PassedIdle
  <2>1. CASE t # Last(frames[p])
    BY <1>0, <1>1, <2>1 DEF PassedIdle, Passed
  <2>2. CASE t = Last(frames[p])
    <3>1. Picked(t, p) /\ p = cpu[t]
      BY <1>0, <1>1, <2>2 DEF BarrierWhere, Picked
    <3>2. q < cpu[t] \/ q = p
      BY <1>1, <2>2, <3>1 DEF Passed
    <3>3. target[t] \in Works
      BY <1>0 DEF CallerShape, Shape
    <3>4. CASE q < cpu[t]
      BY <1>0, <3>4 DEF PassedIdle, Passed
    <3>5. CASE q = p
      BY <1>2, <2>2, <3>3, <3>5, ItemFacts
    <3> QED
      BY <3>2, <3>4, <3>5
  <2> QED
    BY <2>1, <2>2
<1> QED
  BY <1>3, <1>4, <1>5 DEF CancelInv

-----------------------------------------------------------------------------
(* A step of the caller t: no other caller moves and no worker does.       *)
Others(t) ==
  /\ UNCHANGED <<current_work, frames, wpc, wq_data>>
  /\ \A u \in Callers \ {t} :
       /\ pc'[u] = pc[u] /\ op'[u] = op[u] /\ target'[u] = target[u]
       /\ cpu'[u] = cpu[u] /\ ret'[u] = ret[u]

(* All steps of a caller are of that kind.                                 *)
LEMMA OthersStay ==
  ASSUME Inv, NEW t \in Callers, Call(t) \/ InCall(t)
  PROVE  Others(t)
<1>0. TypeOK
  BY DEF Inv
<1> USE DEF Call, InCall, call_flush_workqueue, call_flush_work, call_cancel, call,
            completed, flush_cpu_workqueue, flush_work, cancel_del_timer,
            grab_pending, steal_pending, wait_on_cpu_work, cancel_done,
            insert_wq_barrier, next_cpu, waited_on_work, return, Goto, wvars, qvars
<1>1. UNCHANGED <<current_work, frames, wpc, wq_data>>
  OBVIOUS
<1>2. \E v : pc' = [pc EXCEPT ![t] = v]
  OBVIOUS
<1>3. UNCHANGED op \/ \E v : op' = [op EXCEPT ![t] = v]
  OBVIOUS
<1>4. UNCHANGED target \/ \E v : target' = [target EXCEPT ![t] = v]
  OBVIOUS
<1>5. UNCHANGED cpu \/ \E v : cpu' = [cpu EXCEPT ![t] = v]
  OBVIOUS
<1>6. UNCHANGED ret \/ \E v : ret' = [ret EXCEPT ![t] = v]
  OBVIOUS
<1> HIDE DEF Call, InCall, call_flush_workqueue, call_flush_work, call_cancel, call,
            completed, flush_cpu_workqueue, flush_work, cancel_del_timer,
            grab_pending, steal_pending, wait_on_cpu_work, cancel_done,
            insert_wq_barrier, next_cpu, waited_on_work, return, Goto, wvars, qvars
<1>7. ASSUME NEW u \in Callers \ {t}
      PROVE  /\ pc'[u] = pc[u] /\ op'[u] = op[u] /\ target'[u] = target[u]
             /\ cpu'[u] = cpu[u] /\ ret'[u] = ret[u]
  BY <1>0, <1>2, <1>3, <1>4, <1>5, <1>6 DEF TypeOK
<1> QED
  BY <1>1, <1>7 DEF Others

(* What such a step has to keep: a canceller's barrier goes where its loop *)
(* is, and where the loop has been the work does not run.                  *)
Waits(t) ==
  op'[t] \in CancelOps =>
    /\ \A p \in CPUs : Listed(t, p)' \/ Picked(t, p)' => p = cpu'[t]
    /\ ret'[t] >= 0 => \A q \in CPUs : Passed(t, q)' => current_work[q] # target'[t]

(* A caller that neither passes a CPU nor queues a barrier keeps what the  *)
(* cancellation knows.                                                     *)
LEMMA CancelMoves ==
  ASSUME CancelInv, NEW t \in Callers, Others(t), Waits(t),
         \A u \in Callers \ {t}, p \in CPUs : Listed(u, p)' <=> Listed(u, p)
  PROVE  CancelInv'
<1>1. UNCHANGED <<current_work, frames, wpc, wq_data>>
  BY DEF Others
<1>2. Flat' /\ RanQueued'
  BY <1>1 DEF CancelInv, Flat, RanQueued
<1>3. BarrierWhere'
  <2> SUFFICES ASSUME NEW u \in Callers, NEW p \in CPUs, op'[u] \in CancelOps,
                      Listed(u, p)' \/ Picked(u, p)'
               PROVE  p = cpu'[u]
    BY DEF BarrierWhere
  <2>1. CASE u = t
    BY <2>1 DEF Waits
  <2>2. CASE u # t
    BY <1>1, <2>2 DEF CancelInv, BarrierWhere, Others, Picked
  <2> QED
    BY <2>1, <2>2
<1>4. PassedIdle'
  <2> SUFFICES ASSUME NEW u \in Callers, NEW q \in CPUs, op'[u] \in CancelOps,
                      ret'[u] >= 0, Passed(u, q)'
               PROVE  current_work'[q] # target'[u]
    BY DEF PassedIdle
  <2>1. CASE u = t
    BY <1>1, <2>1 DEF Waits
  <2>2. CASE u # t
    BY <1>1, <2>2 DEF CancelInv, PassedIdle, Others, Passed
  <2> QED
    BY <2>1, <2>2
<1> QED
  BY <1>2, <1>3, <1>4 DEF CancelInv

(* A caller that does not wait has no barrier anywhere.                    *)
LEMMA NoBarrier ==
  ASSUME Inv, NEW t \in Callers, pc[t] # "wait"
  PROVE  \A p \in CPUs : ~Listed(t, p) /\ ~Picked(t, p)
<1>1. t \in Items /\ ~Busy(t)
  BY ItemFacts DEF Busy
<1>2. \A c \in Kinds, n \in Holders : ~Claim(t, c, n)
  BY <1>1 DEF Inv, BusyIffClaimed
<1> QED
  BY <1>2 DEF Claim, Kinds, Holders

(* A step of t that leaves the lists alone.                                *)
LEMMA CancelAlone ==
  ASSUME Inv, CancelInv, NEW t \in Callers, Others(t), UNCHANGED worklist,
         pc[t] # "wait",
         op'[t] \in CancelOps /\ ret'[t] >= 0 =>
           \A q \in CPUs : Passed(t, q)' => current_work[q] # target'[t]
  PROVE  CancelInv'
<1>1. \A u \in Callers, p \in CPUs : Listed(u, p)' <=> Listed(u, p)
  BY DEF Listed
<1>2. \A p \in CPUs : ~Listed(t, p)' /\ ~Picked(t, p)'
  BY NoBarrier DEF Others, Listed, Picked
<1>3. Waits(t)
  BY <1>2 DEF Waits
<1> QED
  BY <1>1, <1>3, CancelMoves

(* A flush or cancel call starts, with nothing grabbed.                    *)
LEMMA CancelStart ==
  ASSUME Inv, CancelInv, NEW t \in Callers, Call(t)
  PROVE  CancelInv'
<1>1. Others(t)
  BY OthersStay
<1>2. pc[t] = "idle" /\ UNCHANGED worklist /\ ret' = [ret EXCEPT ![t] = -1]
  BY DEF Call, call_flush_workqueue, call_flush_work, call_cancel, call, qvars
<1>3. ret'[t] = -1
  BY <1>2 DEF Inv, TypeOK
<1> QED
  BY <1>1, <1>2, <1>3, CancelAlone

(* A call returns.                                                         *)
LEMMA CancelReturn ==
  ASSUME Inv, CancelInv, NEW t \in Callers, Others(t), return(t),
         UNCHANGED worklist, pc[t] # "wait"
  PROVE  CancelInv'
<1>1. op'[t] = "none"
  BY DEF return, Inv, TypeOK
<1> QED
  BY <1>1, CancelAlone DEF CancelOps

(* The end of the body of __cancel_work_timer's loop, if the work runs     *)
(* nowhere.                                                                *)
LEMMA CancelWaited ==
  ASSUME Inv, CancelInv, NEW t \in Callers, Others(t), waited_on_work(t),
         UNCHANGED worklist, pc[t] # "wait",
         ret[t] >= 0 => \A q \in CPUs : current_work[q] # target[t]
  PROVE  CancelInv'
<1>1. ret' = ret /\ target' = target
  BY DEF waited_on_work
<1> QED
  BY <1>1, CancelAlone

(* wait_on_work goes on to the next CPU, or has seen them all.             *)
LEMMA CancelNextCpu ==
  ASSUME Inv, CancelInv, NEW t \in Callers, Others(t), next_cpu(t),
         UNCHANGED worklist, pc[t] \in {"woken", "flush", "wait_on"},
         pc[t] = "wait_on" => current_work[cpu[t]] # target[t]
  PROVE  CancelInv'
<1>0. TypeOK /\ CallerShape
  BY DEF Inv
<1>1. /\ op[t] \in Ops /\ cpu[t] \in 0 .. NCPU /\ ret[t] \in {-1, 0, 1}
      /\ Shape(pc[t], op[t], target[t], cpu[t], cwq[t], ret[t])
  BY <1>0, CallerTypes
<1>2. ASSUME op[t] \in CancelOps, ret[t] >= 0, NEW q \in CPUs, q <= cpu[t]
      PROVE  current_work[q] # target[t]
  <2>1. cpu[t] \in Int /\ q \in Int /\ pc[t] # "flush"
    BY <1>1, <1>2, WorkQueueAssumption DEF CPUs, Shape, CancelOps
  <2>2. CASE q < cpu[t]
    BY <1>2, <2>2 DEF CancelInv, PassedIdle, Passed
  <2>3. CASE q = cpu[t]
    BY <1>2, <2>1, <2>3 DEF CancelInv, PassedIdle, Passed
  <2> QED
    BY <1>2, <2>1, <2>2, <2>3
<1>3. CASE /\ op[t] # "flush_work"
           /\ more_cpus(t)
           /\ cpu' = [cpu EXCEPT ![t] = @ + 1]
           /\ Goto(t, IF op[t] = "flush_workqueue" THEN "flush" ELSE "wait_on")
           /\ UNCHANGED <<op, target, cwq, ret, owed>>
  <2>1. cpu'[t] = cpu[t] + 1 /\ pc'[t] \in {"flush", "wait_on"}
    BY <1>0, <1>3 DEF TypeOK, Goto
  <2>2. \A q \in CPUs : q < cpu[t] + 1 => q <= cpu[t]
    BY <1>1, WorkQueueAssumption DEF CPUs
  <2>3. \A q \in CPUs : Passed(t, q)' => q <= cpu[t]
    BY <2>1, <2>2 DEF Passed
  <2> QED
    BY <1>2, <1>3, <2>3, CancelAlone
<1>4. CASE op[t] \in {"flush_work", "flush_workqueue"} /\ return(t)
  BY <1>4, CancelReturn
<1>5. CASE op[t] \in CancelOps /\ ~more_cpus(t) /\ waited_on_work(t)
  <2>1. \A q \in CPUs : q <= cpu[t]
    BY <1>1, <1>5, WorkQueueAssumption DEF more_cpus, CPUs
  <2> QED
    BY <1>2, <1>5, <2>1, CancelWaited
<1> QED
  BY <1>3, <1>4, <1>5 DEF next_cpu, CancelOps

(* A barrier goes on a list: a canceller's on that of the CPU it is at.    *)
LEMMA CancelBarrier ==
  ASSUME Inv, CancelInv, NEW t \in Callers, Others(t), NEW p \in CPUs,
         NEW i \in 1 .. (Len(worklist[p]) + 1), insert_wq_barrier(t, p, i),
         pc[t] \in {"flush", "flush_work", "wait_on"},
         op[t] \in CancelOps => p = cpu[t]
  PROVE  CancelInv'
<1>0. TypeOK /\ ListsOnce
  BY DEF Inv
<1>1. /\ worklist' = [worklist EXCEPT ![p] = InsertAt(worklist[p], i, t)]
      /\ pc' = [pc EXCEPT ![t] = "wait"] /\ UNCHANGED <<op, target, cpu, ret>>
  BY DEF insert_wq_barrier, Goto
<1>2. \A q \in CPUs : ~Listed(t, q) /\ ~Picked(t, q)
  BY NoBarrier
<1>3. \A q \in CPUs, u \in Callers :
        Listed(u, q)' <=> Listed(u, q) \/ (q = p /\ u = t)
  <2> DEFINE q0 == InsertAt(worklist[p], i, t)
  <2>1. /\ worklist[p] \in Seq(Items) /\ IsInjective(worklist[p])
        /\ t \notin Range(worklist[p]) /\ t \in Items
    BY <1>0, <1>2, ItemFacts DEF TypeOK, ListsOnce, Listed
  <2>2. \A x : x \in Range(q0) <=> x \in Range(worklist[p]) \/ x = t
    BY <2>1, InsertAtQueue
  <2>3. \A q \in CPUs : worklist'[q] = IF q = p THEN q0 ELSE worklist[q]
    BY <1>0, <1>1 DEF TypeOK
  <2> HIDE DEF q0
  <2> QED
    BY <2>2, <2>3 DEF Listed
<1>4. pc'[t] = "wait" /\ UNCHANGED <<wpc, frames>>
  BY <1>0, <1>1 DEF TypeOK, Others
<1>5. \A q \in CPUs : Passed(t, q)' => Passed(t, q)
  BY <1>1, <1>4 DEF Passed
<1>6. Waits(t)
  BY <1>1, <1>2, <1>3, <1>4, <1>5 DEF Waits, CancelInv, PassedIdle, Picked
<1> QED
  BY <1>3, <1>6, CancelMoves

(* The steps in which a call waits or comes back from a wait.              *)
LEMMA CancelFlush ==
  ASSUME Inv, CancelInv, NEW t \in Callers, Others(t),
         completed(t) \/ flush_cpu_workqueue(t) \/ flush_work(t) \/ wait_on_cpu_work(t)
  PROVE  CancelInv'
<1>0. TypeOK /\ CallerShape
  BY DEF Inv
<1>1. Shape(pc[t], op[t], target[t], cpu[t], cwq[t], ret[t])
  BY <1>0, CallerTypes
<1>2. CASE completed(t)
  <2>1. pc[t] = "woken" /\ next_cpu(t) /\ UNCHANGED worklist
    BY <1>2 DEF completed, qvars
  <2> QED
    BY <2>1, CancelNextCpu
<1>3. CASE flush_cpu_workqueue(t)
  <2>1. pc[t] = "flush" /\ cpu[t] \in CPUs
    BY <1>1, <1>3 DEF flush_cpu_workqueue, Shape
  <2>2. \/ insert_wq_barrier(t, cpu[t], Len(worklist[cpu[t]]) + 1)
        \/ next_cpu(t) /\ UNCHANGED worklist
    BY <1>3 DEF flush_cpu_workqueue, qvars
  <2> QED
    BY <1>0, <2>1, <2>2, CancelNextCpu, CancelBarrier, Positions
<1>4. CASE flush_work(t)
  <2>1. pc[t] = "flush_work" /\ cwq[t] \in CPUs /\ op[t] \notin CancelOps
    BY <1>1, <1>4 DEF flush_work, Shape, CancelOps
  <2>2. \/ \E i \in DOMAIN worklist[cwq[t]] : insert_wq_barrier(t, cwq[t], i + 1)
        \/ insert_wq_barrier(t, cwq[t], 1)
        \/ return(t) /\ UNCHANGED worklist
    BY <1>4 DEF flush_work, qvars
  <2> QED
    BY <1>0, <2>1, <2>2, CancelReturn, CancelBarrier, Positions
<1>5. CASE wait_on_cpu_work(t)
  <2>1. /\ pc[t] = "wait_on" /\ cpu[t] \in CPUs /\ op[t] \in CancelOps
        /\ target[t] \in Works
    BY <1>1, <1>5 DEF wait_on_cpu_work, Shape
  <2>2. \/ insert_wq_barrier(t, cpu[t], 1)
        \/ current_work[cpu[t]] # target[t] /\ next_cpu(t) /\ UNCHANGED worklist
        \/ wq_data[target[t]] = 0 /\ waited_on_work(t) /\ UNCHANGED worklist
    BY <1>5 DEF wait_on_cpu_work, is_running, qvars
  <2>3. wq_data[target[t]] = 0 => \A q \in CPUs : current_work[q] # target[t]
    BY <2>1 DEF CancelInv, RanQueued
  <2> QED
    BY <1>0, <2>1, <2>2, <2>3, CancelNextCpu, CancelWaited, CancelBarrier, Positions
<1> QED
  BY <1>2, <1>3, <1>4, <1>5

(* The steps in which a canceller gets hold of the work, before the loop   *)
(* of wait_on_work, or gives it up.                                        *)
LEMMA CancelGrab ==
  ASSUME Inv, CancelInv, NEW t \in Callers, Others(t),
         cancel_del_timer(t) \/ grab_pending(t) \/ steal_pending(t) \/ cancel_done(t)
  PROVE  CancelInv'
<1>0. TypeOK /\ CallerShape /\ ListsOnce /\ DataAgrees
  BY DEF Inv
<1>1. CASE cancel_done(t)
  BY <1>1, CancelReturn DEF cancel_done, qvars
<1>2. CASE ~cancel_done(t)
  <2>1. /\ pc[t] \in {"del_timer", "grab", "steal"} /\ UNCHANGED cpu
        /\ \E l \in {"wait_on", "grab", "steal"} : pc' = [pc EXCEPT ![t] = l]
    BY <1>2 DEF cancel_del_timer, grab_pending, steal_pending, Goto
  <2>2. cpu[t] = 1
    BY <1>0, <2>1, CancellerFacts
  <2>3. pc'[t] \in {"wait_on", "grab", "steal"} /\ cpu'[t] = 1
    BY <1>0, <2>1, <2>2 DEF TypeOK
  <2>4. \A q \in CPUs : ~Passed(t, q)'
    BY <2>3, WorkQueueAssumption DEF Passed, CPUs
  <2>5. CASE UNCHANGED worklist
    BY <2>1, <2>4, <2>5, CancelAlone
  <2>6. CASE ~UNCHANGED worklist
    <3>1. PICK w \in Works, p \in CPUs : w = target[t] /\ p = cwq[t] /\ pc[t] = "steal"
      <4>1. pc[t] = "steal"
        BY <1>2, <2>6 DEF cancel_del_timer, grab_pending, steal_pending, qvars
      <4> QED
        BY <1>0, <4>1, CancellerFacts
    <3>2. /\ on_this_list(w, p)
          /\ worklist' = [worklist EXCEPT ![p] = RemoveFirst(worklist[p], w)]
      BY <1>2, <2>6, <3>1 DEF cancel_del_timer, grab_pending, steal_pending, qvars
    <3>3. Listed(w, p)
      BY <1>0, <3>2 DEF on_this_list, Queued, DataAgrees, Listed
    <3>4. \A q \in CPUs, u \in Callers : Listed(u, q)' <=> Listed(u, q)
      <4> DEFINE q0 == RemoveFirst(worklist[p], w)
      <4>1. /\ worklist[p] \in Seq(Items) /\ IsInjective(worklist[p])
            /\ w \in Range(worklist[p])
        BY <1>0, <3>3 DEF TypeOK, ListsOnce, Listed
      <4>2. \A x : x \in Range(q0) <=> x \in Range(worklist[p]) /\ x # w
        BY <4>1, RemoveFirstQueue
      <4>3. \A q \in CPUs : worklist'[q] = IF q = p THEN q0 ELSE worklist[q]
        BY <1>0, <3>2 DEF TypeOK
      <4> HIDE DEF q0
      <4> QED
        BY <4>2, <4>3, ItemFacts DEF Listed
    <3>5. \A q \in CPUs : ~Listed(t, q)' /\ ~Picked(t, q)'
      BY <2>1, <3>4, NoBarrier DEF Others, Picked
    <3>6. Waits(t)
      BY <2>4, <3>5 DEF Waits
    <3> QED
      BY <3>4, <3>6, CancelMoves
  <2> QED
    BY <2>5, <2>6
<1> QED
  BY <1>1, <1>2

(* Every step keeps the invariants of the cancellers.                      *)
LEMMA CancelNext ==
  ASSUME NoNesting, Inv, CancelInv, [Next]_vars
  PROVE  CancelInv'
<1>1. CASE UNCHANGED vars
  <2>1. UNCHANGED <<worklist, current_work, frames, wpc, wq_data,
                    pc, op, target, cpu, ret>>
    BY <1>1 DEF vars, wvars, qvars, cvars
  <2> QED
    BY <2>1 DEF CancelInv, Flat, RanQueued, BarrierWhere, PassedIdle, Passed, Listed,
       Picked
<1>2. CASE \E w \in Works : AnyContext(w)
  BY <1>2, CancelContext
<1>3. CASE \E p \in CPUs : Worker(p) \/ flush_own(p)
  BY <1>3, CancelRun, CancelCall DEF Worker
<1>4. CASE \E t \in Callers : Call(t)
  BY <1>4, CancelStart
<1>5. CASE \E t \in Callers : InCall(t)
  BY <1>5, OthersStay, CancelFlush, CancelGrab DEF InCall
<1> QED
  BY <1>1, <1>2, <1>3, <1>4, <1>5 DEF Next

(* When __cancel_work_timer leaves its loop the work is on no list, its    *)
(* timer is off and no worker runs its callback, for any number of works,  *)
(* callers and CPUs, however often the work queues itself again.  The      *)
(* assumption is that no callback flushes the queue it runs from: it runs  *)
(* the list by hand and leaves current_work behind it, which wait_on_work  *)
(* believes.                                                               *)
THEOREM WorkQueueCancelledIsIdle ==
  ASSUME NoNesting
  PROVE  Spec => []CancelledIsIdle
<1>1. Init => Inv /\ CancelInv
  BY InvInit, CancelInit
<1>2. Inv /\ CancelInv /\ [Next]_vars => (Inv /\ CancelInv)'
  BY InvNext, CancelNext
<1>3. Inv /\ CancelInv => CancelledIsIdle
  BY CancelledFollows
<1> QED
  BY <1>1, <1>2, <1>3, PTL DEF Spec

-----------------------------------------------------------------------------
(* A flush waits.  What it owes is queued or under way, on a CPU it has    *)
(* not got to yet, or in front of its barrier.                             *)

FlushOps == {"flush_workqueue", "flush_work"}

(* Where the barrier of the flush t goes, and the CPUs it cares about      *)
(* later, or not at all.                                                   *)
At(t) == IF op[t] = "flush_work" THEN cwq[t] ELSE cpu[t]
Elsewhere(t, q) == IF op[t] = "flush_work" THEN q # cwq[t] ELSE q > cpu[t]

(* The barrier has yet to be put on a list.                                *)
Entering(t) == pc[t] \in {"flush", "flush_work"}

QueuedAhead(t, w) ==
  \E q \in CPUs :
    /\ Listed(w, q)
    /\ Elsewhere(t, q) \/ (q = At(t) /\ (Entering(t) \/ Before(worklist[q], w, t)))

RunsAhead(t, w, p) ==
  /\ current_work[p] = w
  /\ Elsewhere(t, p) \/ (p = At(t) /\ (Entering(t) \/ Listed(t, p)))

(* Nobody queues the work of a flush_work that is owed something.          *)
Quiet(t, w) ==
  target[t] = w /\ ~timer[w] /\ setter[w] = "none" /\ wq_data[w] = cwq[t]

FlushFor(t) ==
  op[t] \in FlushOps => \A w \in Works :
    /\ <<w, 0>> \in owed[t] => QueuedAhead(t, w)
    /\ \A p \in CPUs : <<w, p>> \in owed[t] => RunsAhead(t, w, p)
    /\ op[t] = "flush_work" =>
         \A n \in 0 .. NCPU : <<w, n>> \in owed[t] => Quiet(t, w)

FlushInv == \A t \in Callers : FlushFor(t)

(* The caller k does not move, and is owed nothing new.                    *)
Still(k) ==
  /\ pc'[k] = pc[k] /\ op'[k] = op[k] /\ target'[k] = target[k]
  /\ cpu'[k] = cpu[k] /\ cwq'[k] = cwq[k]
  /\ owed'[k] \subseteq owed[k]

(* What k waits for stays on its list, and in front of k's barrier.        *)
ListsKeep(k) ==
  \A q \in CPUs :
    /\ Listed(k, q) => Listed(k, q)'
    /\ \A w \in Works : <<w, 0>> \in owed'[k] =>
         /\ Listed(w, q) => Listed(w, q)'
         /\ Before(worklist[q], w, k) => Before(worklist'[q], w, k)

(* A step of somebody else that keeps the lists in order.                  *)
LEMMA FlushKept ==
  ASSUME NEW k \in Callers, FlushFor(k), Still(k), ListsKeep(k),
         UNCHANGED current_work,
         \A w \in Works, n \in 0 .. NCPU :
           op[k] = "flush_work" /\ <<w, n>> \in owed'[k] /\ Quiet(k, w) => Quiet(k, w)'
  PROVE  FlushFor(k)'
<1> SUFFICES ASSUME op[k] \in FlushOps, NEW w \in Works
             PROVE  /\ <<w, 0>> \in owed'[k] => QueuedAhead(k, w)'
                    /\ \A p \in CPUs : <<w, p>> \in owed'[k] => RunsAhead(k, w, p)'
                    /\ op[k] = "flush_work" =>
                         \A n \in 0 .. NCPU : <<w, n>> \in owed'[k] => Quiet(k, w)'
  BY DEF FlushFor, Still
<1>1. /\ At(k)' = At(k) /\ (Entering(k)' <=> Entering(k))
      /\ \A q : Elsewhere(k, q)' <=> Elsewhere(k, q)
  BY DEF Still, At, Entering, Elsewhere
<1>2. ASSUME <<w, 0>> \in owed'[k] PROVE QueuedAhead(k, w)'
  <2>1. QueuedAhead(k, w)
    BY <1>2 DEF FlushFor, Still
  <2>2. PICK q \in CPUs :
          /\ Listed(w, q)
          /\ Elsewhere(k, q) \/ (q = At(k) /\ (Entering(k) \/ Before(worklist[q], w, k)))
    BY <2>1 DEF QueuedAhead
  <2>3. Listed(w, q)' /\ (Before(worklist[q], w, k) => Before(worklist'[q], w, k))
    BY <1>2, <2>2 DEF ListsKeep
  <2> QED
    BY <1>1, <2>2, <2>3 DEF QueuedAhead
<1>3. ASSUME NEW p \in CPUs, <<w, p>> \in owed'[k] PROVE RunsAhead(k, w, p)'
  <2>1. RunsAhead(k, w, p)
    BY <1>3 DEF FlushFor, Still
  <2> QED
    BY <1>1, <2>1 DEF RunsAhead, ListsKeep
<1>4. ASSUME op[k] = "flush_work", NEW n \in 0 .. NCPU, <<w, n>> \in owed'[k]
      PROVE  Quiet(k, w)'
  BY <1>4 DEF FlushFor, Still
<1> QED
  BY <1>2, <1>3, <1>4

(* Nobody has called anything yet.                                         *)
LEMMA FlushInit == Init => FlushInv
BY DEF Init, FlushInv, FlushFor, FlushOps

(* A work is queued behind what is there.                                  *)
LEMMA FlushContext ==
  ASSUME Inv, FlushInv, NEW w \in Works, AnyContext(w)
  PROVE  FlushInv'
<1>0. TypeOK /\ CallerShape
  BY DEF Inv
<1>1. UNCHANGED <<current_work, pc, op, target, cpu, cwq>>
  BY DEF AnyContext, set_pending, __queue_work, add_timer, delayed_work_timer_fn,
         cancel_delayed_work, qvars, cvars
<1>2. \/ owed' = [t \in Callers |-> IF target[t] = w THEN {} ELSE owed[t]]
      \/ UNCHANGED owed /\ (timer[w] \/ setter[w] # "none")
  BY DEF AnyContext, set_pending, __queue_work, add_timer, delayed_work_timer_fn,
         cancel_delayed_work, qvars, cvars
<1>3. UNCHANGED worklist
        \/ \E p \in CPUs : worklist' = [worklist EXCEPT ![p] = Append(worklist[p], w)]
  BY DEF AnyContext, set_pending, __queue_work, add_timer, delayed_work_timer_fn,
         cancel_delayed_work, qvars
<1>4. \A v \in Works \ {w} :
        timer'[v] = timer[v] /\ setter'[v] = setter[v] /\ wq_data'[v] = wq_data[v]
  <2>1. /\ UNCHANGED timer \/ \E x : timer' = [timer EXCEPT ![w] = x]
        /\ UNCHANGED setter \/ \E x : setter' = [setter EXCEPT ![w] = x]
        /\ UNCHANGED wq_data \/ \E x : wq_data' = [wq_data EXCEPT ![w] = x]
    BY DEF AnyContext, set_pending, __queue_work, add_timer, delayed_work_timer_fn,
           cancel_delayed_work
  <2> QED
    BY <1>0, <2>1 DEF TypeOK
<1> SUFFICES ASSUME NEW k \in Callers PROVE FlushFor(k)'
  BY DEF FlushInv
<1>5. Still(k)
  BY <1>0, <1>1, <1>2 DEF Still, TypeOK
<1>6. \A q \in CPUs : \A x, y :
        /\ Listed(x, q) => Listed(x, q)'
        /\ Before(worklist[q], x, y) => Before(worklist'[q], x, y)
  <2>1. ASSUME NEW p \in CPUs, worklist' = [worklist EXCEPT ![p] = Append(worklist[p], w)],
               NEW q \in CPUs, NEW x, NEW y
        PROVE  /\ Listed(x, q) => Listed(x, q)'
               /\ Before(worklist[q], x, y) => Before(worklist'[q], x, y)
    <3>1. worklist[p] \in Seq(Items) /\ w \in Items
      BY <1>0, ItemFacts DEF TypeOK
    <3>2. worklist'[q] = IF q = p THEN Append(worklist[p], w) ELSE worklist[q]
      BY <1>0, <2>1 DEF TypeOK
    <3>3. x \in Range(worklist[p]) => x \in Range(Append(worklist[p], w))
      BY <3>1, StackPush
    <3>4. Before(worklist[p], x, y) => Before(Append(worklist[p], w), x, y)
      BY <3>1, BeforeAppend
    <3> QED
      BY <3>2, <3>3, <3>4 DEF Listed
  <2> QED
    BY <1>3, <2>1 DEF Listed
<1>7. ListsKeep(k)
  BY <1>6 DEF ListsKeep
<1>8. ASSUME NEW v \in Works, NEW n \in 0 .. NCPU, <<v, n>> \in owed'[k], Quiet(k, v)
      PROVE  Quiet(k, v)'
  <2>1. v # w
    BY <1>2, <1>8 DEF Quiet
  <2> QED
    BY <1>1, <1>4, <1>8, <2>1 DEF Quiet
<1> QED
  BY <1>1, <1>5, <1>7, <1>8, FlushKept DEF FlushInv

(* A worker ends the execution of an item, if it was at one, and takes the *)
(* next: with no nesting it takes it from the front, or has none left.     *)
RunEnds(p, ow) ==
  /\ next_work(p, <<>>, None, ow)
  /\ \A t \in Callers : ow[t] \subseteq owed[t]
  /\ \A t \in Callers, w \in Works : <<w, p>> \in ow[t] => current_work[p] # w

(* Both ways into run_workqueue's loop do that.                            *)
LEMMA FlushRunEnds ==
  ASSUME NoNesting, Inv, CancelInv, NEW p \in CPUs,
         worker_thread(p) \/ f_returns(p) \/ flush_own(p)
  PROVE  /\ \E ow \in [Callers -> SUBSET (Works \X (0 .. NCPU))] : RunEnds(p, ow)
         /\ UNCHANGED <<wvars, cvars>>
<1>0. TypeOK /\ WorkerShape /\ Flat
  BY DEF Inv, CancelInv
<1>1. CASE worker_thread(p)
  <2>1. frames[p] = <<>> /\ worklist[p] # <<>>
    BY <1>0, <1>1 DEF worker_thread, WorkerShape
  <2>2. current_work[p] = None
    BY <1>0, <2>1 DEF Flat
  <2>3. RunEnds(p, owed)
    BY <1>1, <2>1, <2>2, ItemFacts DEF RunEnds, worker_thread
  <2>4. owed \in [Callers -> SUBSET (Works \X (0 .. NCPU))]
    BY <1>0 DEF TypeOK
  <2> QED
    BY <1>1, <2>3, <2>4 DEF worker_thread
<1>2. CASE f_returns(p)
  <2>1. frames[p] # <<>>
    BY <1>0, <1>2 DEF WorkerShape, f_returns
  <2>2. frames[p] = <<current_work[p]>>
    BY <1>0, <2>1 DEF Flat
  <2>3. Front(frames[p]) = <<>> /\ Last(frames[p]) = current_work[p]
    BY <2>2 DEF Front, Last
  <2> DEFINE ow == [t \in Callers |-> owed[t] \ {<<current_work[p], p>>}]
  <2>4. next_work(p, <<>>, None, ow) /\ UNCHANGED <<wvars, cvars>>
    BY <1>2, <2>3 DEF f_returns
  <2>5. ow \in [Callers -> SUBSET (Works \X (0 .. NCPU))]
    BY <1>0 DEF TypeOK
  <2>6. /\ \A t \in Callers : ow[t] \subseteq owed[t]
        /\ \A t \in Callers, w \in Works : <<w, p>> \in ow[t] => current_work[p] # w
    OBVIOUS
  <2> HIDE DEF ow
  <2>7. RunEnds(p, ow)
    BY <2>4, <2>6 DEF RunEnds
  <2> QED
    BY <2>4, <2>5, <2>7
<1>3. CASE flush_own(p)
  <2>1. NCPU = 1 /\ MaxDepth = 1 /\ Len(frames[p]) < 1 /\ wpc[p] = "run"
    BY <1>3 DEF flush_own, NoNesting
  <2>2. frames[p] \in Seq(Items) /\ frames[p] # <<>>
    BY <1>0, <2>1 DEF TypeOK, WorkerShape
  <2> QED
    BY <2>1, <2>2
<1> QED
  BY <1>1, <1>2, <1>3

(* The worker takes the next item: if it is owed it now runs ahead of the  *)
(* barrier, and what is behind it has moved up.                            *)
LEMMA FlushRun ==
  ASSUME NoNesting, Inv, CancelInv, FlushInv, NEW p \in CPUs,
         worker_thread(p) \/ f_returns(p) \/ flush_own(p)
  PROVE  FlushInv'
<1>0. TypeOK /\ OneClaim /\ ListsOnce
  BY DEF Inv
<1>1. PICK ow \in [Callers -> SUBSET (Works \X (0 .. NCPU))] : RunEnds(p, ow)
  BY FlushRunEnds
<1>2. UNCHANGED <<timer, setter, wq_data, pc, op, target, cpu, cwq>>
  <2>1. UNCHANGED <<wvars, cvars>>
    BY FlushRunEnds
  <2> QED
    BY <2>1 DEF wvars, cvars
<1> SUFFICES ASSUME NEW k \in Callers, op[k] \in FlushOps PROVE FlushFor(k)'
  BY <1>2 DEF FlushInv, FlushFor
<1>3. /\ At(k)' = At(k) /\ (Entering(k)' <=> Entering(k))
      /\ \A q : Elsewhere(k, q)' <=> Elsewhere(k, q)
      /\ \A w \in Works : Quiet(k, w) => Quiet(k, w)'
  BY <1>2 DEF At, Entering, Elsewhere, Quiet
<1>4. \A w \in Works :
        /\ <<w, 0>> \in ow[k] => QueuedAhead(k, w)
        /\ \A q \in CPUs \ {p} : <<w, q>> \in ow[k] => RunsAhead(k, w, q)
        /\ <<w, p>> \notin ow[k]
        /\ op[k] = "flush_work" =>
             \A n \in 0 .. NCPU : <<w, n>> \in ow[k] => Quiet(k, w)
  <2>1. /\ ow[k] \subseteq owed[k]
        /\ \A w \in Works : <<w, p>> \in ow[k] => current_work[p] # w
    BY <1>1 DEF RunEnds
  <2> QED
    BY <2>1 DEF FlushInv, FlushFor, RunsAhead
<1>5. CASE worklist[p] = <<>>
  <2>1. worklist' = worklist /\ owed' = ow
    BY <1>1, <1>5 DEF RunEnds, next_work
  <2>2. \A q \in CPUs \ {p} : current_work'[q] = current_work[q]
    BY <1>0, <1>1, <1>5 DEF RunEnds, next_work, TypeOK
  <2>3. \A w \in Works : QueuedAhead(k, w) => QueuedAhead(k, w)'
    BY <1>3, <2>1 DEF QueuedAhead, Listed
  <2>4. \A w \in Works, q \in CPUs \ {p} : RunsAhead(k, w, q) => RunsAhead(k, w, q)'
    BY <1>3, <2>1, <2>2 DEF RunsAhead, Listed
  <2> QED
    BY <1>2, <1>3, <1>4, <2>1, <2>3, <2>4 DEF FlushFor
<1>6. CASE worklist[p] # <<>>
  <2>1. worklist[p] \in Seq(Items) /\ IsInjective(worklist[p])
    BY <1>0 DEF TypeOK, ListsOnce
  <2>2. PICK x \in Items :
          /\ x = Head(worklist[p]) /\ x \in Range(worklist[p])
          /\ \A y : y \in Range(Tail(worklist[p])) <=> y \in Range(worklist[p]) /\ y # x
    BY <1>6, <2>1, TailQueue
  <2>3. /\ current_work' = [current_work EXCEPT ![p] = x]
        /\ worklist' = [worklist EXCEPT ![p] = Tail(worklist[p])]
        /\ owed' = [t \in Callers |-> {IF e = <<x, 0>> THEN <<x, p>> ELSE e : e \in ow[t]}]
    BY <1>1, <1>6, <2>2 DEF RunEnds, next_work
  <2>4. \A q \in CPUs : /\ current_work'[q] = IF q = p THEN x ELSE current_work[q]
                        /\ worklist'[q] = IF q = p THEN Tail(worklist[p]) ELSE worklist[q]
    BY <1>0, <2>3 DEF TypeOK
  <2>5. owed'[k] = {IF e = <<x, 0>> THEN <<x, p>> ELSE e : e \in ow[k]}
    BY <2>3
  <2>6. \A w \in Works, n \in 0 .. NCPU : <<w, n>> \in owed'[k] =>
          \/ <<w, n>> \in ow[k] /\ ~(w = x /\ n = 0)
          \/ w = x /\ n = p /\ <<x, 0>> \in ow[k]
    BY <2>5
  <2>7. \A y, q : q \in CPUs /\ y # x /\ Listed(y, q) => Listed(y, q)'
    BY <2>2, <2>4 DEF Listed
  <2>8. \A w \in Works, q \in CPUs :
          w # x /\ Before(worklist[q], w, k) => Before(worklist'[q], w, k)
    <3>1. ASSUME NEW w \in Works, w # x, Before(worklist[p], w, k)
          PROVE  Before(Tail(worklist[p]), w, k)
      BY <1>6, <2>1, <2>2, <3>1, BeforeTail
    <3> QED
      BY <2>4, <3>1
  <2>9. ASSUME NEW w \in Works, <<w, 0>> \in owed'[k] PROVE QueuedAhead(k, w)'
    <3>1. <<w, 0>> \in ow[k] /\ w # x
      BY <2>6, <2>9, CpuFacts, WorkQueueAssumption
    <3>2. PICK q \in CPUs :
            /\ Listed(w, q)
            /\ Elsewhere(k, q) \/ (q = At(k) /\ (Entering(k) \/ Before(worklist[q], w, k)))
      BY <1>4, <3>1 DEF QueuedAhead
    <3>3. Listed(w, q)' /\ (Before(worklist[q], w, k) => Before(worklist'[q], w, k))
      BY <2>7, <2>8, <3>1, <3>2
    <3> QED
      BY <1>3, <3>2, <3>3 DEF QueuedAhead
  <2>10. ASSUME NEW w \in Works, NEW q \in CPUs, <<w, q>> \in owed'[k]
         PROVE  RunsAhead(k, w, q)'
    <3>1. CASE q # p
      <4>1. <<w, q>> \in ow[k]
        BY <2>6, <2>10, <3>1, CpuFacts
      <4>2. RunsAhead(k, w, q)
        BY <1>4, <3>1, <4>1
      <4>3. Listed(k, q) => Listed(k, q)'
        BY <2>4, <3>1 DEF Listed
      <4> QED
        BY <1>3, <2>4, <3>1, <4>2, <4>3 DEF RunsAhead
    <3>2. CASE q = p
      <4>1. w = x /\ <<x, 0>> \in ow[k]
        BY <1>4, <2>6, <2>10, <3>2, CpuFacts
      <4>2. PICK r \in CPUs :
              /\ Listed(x, r)
              /\ \/ Elsewhere(k, r)
                 \/ r = At(k) /\ (Entering(k) \/ Before(worklist[r], x, k))
        BY <1>4, <4>1 DEF QueuedAhead
      <4>3. r = p
        <5>1. Claim(x, "list", r) /\ Claim(x, "list", p)
          BY <2>2, <4>2 DEF Claim, Listed
        <5> QED
          BY <1>0, <5>1 DEF OneClaim, Kinds, Holders
      <4>4. Before(worklist[p], x, k) => Listed(k, p)'
        BY <2>1, <2>2, <2>4, BeforeMembers DEF Listed
      <4> QED
        BY <1>3, <2>4, <3>2, <4>1, <4>2, <4>3, <4>4 DEF RunsAhead
    <3> QED
      BY <3>1, <3>2
  <2>11. ASSUME NEW w \in Works, NEW n \in 0 .. NCPU, <<w, n>> \in owed'[k],
                op[k] = "flush_work"
         PROVE  Quiet(k, w)'
    <3>1. \E m \in 0 .. NCPU : <<w, m>> \in ow[k]
      BY <2>6, <2>11, CpuFacts
    <3> QED
      BY <1>3, <1>4, <2>11, <3>1
  <2> QED
    BY <1>2, <2>9, <2>10, <2>11 DEF FlushFor
<1> QED
  BY <1>5, <1>6

(* A barrier is completed: nothing is owed on its CPU any more.            *)
LEMMA FlushCall ==
  ASSUME Inv, FlushInv, NEW p \in CPUs, call_f(p)
  PROVE  FlushInv'
<1>0. TypeOK /\ OneClaim
  BY DEF Inv
<1>1. /\ wpc[p] = "picked"
      /\ pc' = [t \in Callers |-> IF t = Last(frames[p]) THEN "woken" ELSE pc[t]]
      /\ UNCHANGED <<timer, setter, wq_data, worklist, current_work,
                     op, target, cpu, cwq, owed>>
  BY DEF call_f, completes
<1> SUFFICES ASSUME NEW k \in Callers, op[k] \in FlushOps PROVE FlushFor(k)'
  BY <1>1 DEF FlushInv, FlushFor
<1>2. CASE k # Last(frames[p])
  <2>1. Still(k) /\ ListsKeep(k)
    BY <1>1, <1>2 DEF Still, ListsKeep, Listed
  <2> QED
    BY <1>1, <2>1, FlushKept DEF Quiet, FlushInv
<1>3. CASE k = Last(frames[p])
  <2>1. \A q \in CPUs : ~Listed(k, q)
    <3>1. Claim(k, "picked", p) /\ k \in Items
      BY <1>1, <1>3, ItemFacts DEF Claim, Picked
    <3>2. \A q \in CPUs : ~Claim(k, "list", q)
      BY <1>0, <3>1 DEF OneClaim, Kinds, Holders
    <3> QED
      BY <3>2 DEF Claim
  <2>2. \A w, q : q \in CPUs => ~Before(worklist[q], w, k)
    <3>1. \A q \in CPUs : worklist[q] \in Seq(Items)
      BY <1>0 DEF TypeOK
    <3> QED
      BY <2>1, <3>1, BeforeMembers DEF Listed
  <2>3. ~Entering(k)
    <3>1. Claim(k, "picked", p) /\ k \in Items
      BY <1>1, <1>3, ItemFacts DEF Claim, Picked
    <3>2. pc[k] = "wait"
      BY <3>1, ItemFacts DEF Inv, BusyIffClaimed, Busy, Kinds, Holders
    <3> QED
      BY <3>2 DEF Entering
  <2>4. At(k)' = At(k) /\ \A q : Elsewhere(k, q)' <=> Elsewhere(k, q)
    BY <1>1 DEF At, Elsewhere
  <2>5. \A w \in Works : QueuedAhead(k, w) => QueuedAhead(k, w)'
    BY <1>1, <2>2, <2>3, <2>4 DEF QueuedAhead, Listed
  <2>6. \A w \in Works, q \in CPUs : RunsAhead(k, w, q) => RunsAhead(k, w, q)'
    BY <1>1, <2>1, <2>3, <2>4 DEF RunsAhead
  <2> QED
    BY <1>1, <2>5, <2>6 DEF FlushInv, FlushFor, Quiet
<1> QED
  BY <1>2, <1>3

-----------------------------------------------------------------------------
(* What a caller's step may do to the lists and to what the flushes are    *)
(* owed: its barrier goes on a list, or it takes a work off one, and that  *)
(* work is owed to nobody any more.                                        *)
CallerLists(t) ==
  \/ UNCHANGED worklist
  \/ \E p \in CPUs : \E i \in 1 .. (Len(worklist[p]) + 1) :
       worklist' = [worklist EXCEPT ![p] = InsertAt(worklist[p], i, t)]
  \/ \E p \in CPUs, w \in Works :
       /\ Listed(w, p)
       /\ worklist' = [worklist EXCEPT ![p] = RemoveFirst(worklist[p], w)]
       /\ \A k \in Callers : <<w, 0>> \notin owed'[k]

(* Every step of a caller is of one of these kinds.                        *)
LEMMA CallerListsStep ==
  ASSUME Inv, NEW t \in Callers, Call(t) \/ InCall(t)
  PROVE  CallerLists(t)
<1>0. TypeOK /\ CallerShape /\ DataAgrees
  BY DEF Inv
<1>1. Shape(pc[t], op[t], target[t], cpu[t], cwq[t], ret[t])
  BY <1>0, CallerTypes
<1>2. CASE \/ Call(t) \/ completed(t) \/ cancel_del_timer(t) \/ grab_pending(t)
           \/ cancel_done(t)
  <2>1. UNCHANGED worklist
    BY <1>2 DEF Call, call_flush_workqueue, call_flush_work, call_cancel, call,
       completed, cancel_del_timer, grab_pending, cancel_done, qvars
  <2> QED
    BY <2>1 DEF CallerLists
<1>3. ASSUME NEW p \in CPUs, NEW i \in 1 .. (Len(worklist[p]) + 1),
             insert_wq_barrier(t, p, i)
      PROVE  CallerLists(t)
  BY <1>3 DEF insert_wq_barrier, CallerLists
<1>4. CASE flush_cpu_workqueue(t)
  <2>1. cpu[t] \in CPUs
    BY <1>1, <1>4 DEF flush_cpu_workqueue, Shape
  <2>2. \/ insert_wq_barrier(t, cpu[t], Len(worklist[cpu[t]]) + 1)
        \/ UNCHANGED worklist
    BY <1>4 DEF flush_cpu_workqueue, qvars
  <2> QED
    BY <1>0, <1>3, <2>1, <2>2, Positions DEF CallerLists
<1>5. CASE flush_work(t)
  <2>1. cwq[t] \in CPUs
    BY <1>1, <1>5 DEF flush_work, Shape
  <2>2. \/ \E i \in DOMAIN worklist[cwq[t]] : insert_wq_barrier(t, cwq[t], i + 1)
        \/ insert_wq_barrier(t, cwq[t], 1)
        \/ UNCHANGED worklist
    BY <1>5 DEF flush_work, qvars
  <2> QED
    BY <1>0, <1>3, <2>1, <2>2, Positions DEF CallerLists
<1>6. CASE wait_on_cpu_work(t)
  <2>1. cpu[t] \in CPUs
    BY <1>1, <1>6 DEF wait_on_cpu_work, Shape, CancelOps
  <2>2. insert_wq_barrier(t, cpu[t], 1) \/ UNCHANGED worklist
    BY <1>6 DEF wait_on_cpu_work, qvars
  <2> QED
    BY <1>0, <1>3, <2>1, <2>2, Positions DEF CallerLists
<1>7. CASE steal_pending(t)
  <2>1. PICK w \in Works, p \in CPUs : w = target[t] /\ p = cwq[t]
    <3>1. pc[t] = "steal"
      BY <1>7 DEF steal_pending
    <3> QED
      BY <1>0, <3>1, CancellerFacts
  <2>2. CASE on_this_list(w, p)
    <3>1. /\ worklist' = [worklist EXCEPT ![p] = RemoveFirst(worklist[p], w)]
          /\ owed' = [k \in Callers |-> owed[k] \ {<<w, 0>>}]
      BY <1>7, <2>1, <2>2 DEF steal_pending
    <3>2. Listed(w, p)
      BY <1>0, <2>2 DEF on_this_list, Queued, DataAgrees, Listed
    <3> QED
      BY <3>1, <3>2 DEF CallerLists
  <2>3. CASE ~on_this_list(w, p)
    BY <1>7, <2>1, <2>3 DEF steal_pending, CallerLists
  <2> QED
    BY <2>2, <2>3
<1> QED
  BY <1>2, <1>4, <1>5, <1>6, <1>7 DEF InCall

(* A step of the caller t as another caller sees it.                       *)
LEMMA FlushOthers ==
  ASSUME Inv, FlushInv, NEW t \in Callers, Call(t) \/ InCall(t), NEW k \in Callers \ {t}
  PROVE  FlushFor(k)'
<1>0. TypeOK /\ ListsOnce
  BY DEF Inv
<1>1. Others(t) /\ CallerLists(t)
  BY OthersStay, CallerListsStep
<1>2. UNCHANGED setter /\ (UNCHANGED timer \/ \E w : timer' = [timer EXCEPT ![w] = FALSE])
  BY DEF Call, InCall, call_flush_workqueue, call_flush_work, call_cancel, call,
         completed, flush_cpu_workqueue, flush_work, cancel_del_timer,
         grab_pending, steal_pending, wait_on_cpu_work, cancel_done, wvars
<1>3. UNCHANGED cwq \/ \E v : cwq' = [cwq EXCEPT ![t] = v]
  BY DEF Call, InCall, call_flush_workqueue, call_flush_work, call_cancel,
         completed, flush_cpu_workqueue, flush_work, cancel_del_timer,
         grab_pending, steal_pending, wait_on_cpu_work, cancel_done,
         insert_wq_barrier, next_cpu, waited_on_work, return
<1>4. \/ UNCHANGED owed \/ \E v : owed' = [owed EXCEPT ![t] = v]
      \/ \E w : owed' = [u \in Callers |-> owed[u] \ {<<w, 0>>}]
  BY DEF Call, InCall, call_flush_workqueue, call_flush_work, call_cancel,
         completed, flush_cpu_workqueue, flush_work, cancel_del_timer,
         grab_pending, steal_pending, wait_on_cpu_work, cancel_done,
         insert_wq_barrier, next_cpu, waited_on_work, return
<1>5. Still(k)
  <2>1. cwq'[k] = cwq[k]
    BY <1>0, <1>3 DEF TypeOK
  <2>2. owed'[k] \subseteq owed[k]
    BY <1>0, <1>4 DEF TypeOK
  <2> QED
    BY <1>1, <2>1, <2>2 DEF Others, Still
<1>6. ListsKeep(k)
  <2>1. CASE UNCHANGED worklist
    BY <2>1 DEF ListsKeep, Listed
  <2>2. ASSUME NEW p \in CPUs, NEW i \in 1 .. (Len(worklist[p]) + 1),
               worklist' = [worklist EXCEPT ![p] = InsertAt(worklist[p], i, t)]
        PROVE  ListsKeep(k)
    <3> DEFINE q0 == InsertAt(worklist[p], i, t)
    <3>1. worklist[p] \in Seq(Items) /\ t \in Items
      BY <1>0, ItemFacts DEF TypeOK
    <3>2. \A q \in CPUs : worklist'[q] = IF q = p THEN q0 ELSE worklist[q]
      BY <1>0, <2>2 DEF TypeOK
    <3>3. \A x : x \in Range(worklist[p]) => x \in Range(q0)
      BY <3>1, InsertAtMembers
    <3>4. \A x, y : Before(worklist[p], x, y) => Before(q0, x, y)
      BY <3>1, BeforeInsertAt
    <3> HIDE DEF q0
    <3> QED
      BY <3>2, <3>3, <3>4 DEF ListsKeep, Listed
  <2>3. ASSUME NEW p \in CPUs, NEW w \in Works, Listed(w, p),
               worklist' = [worklist EXCEPT ![p] = RemoveFirst(worklist[p], w)],
               <<w, 0>> \notin owed'[k]
        PROVE  ListsKeep(k)
    <3> DEFINE q0 == RemoveFirst(worklist[p], w)
    <3>1. /\ worklist[p] \in Seq(Items) /\ IsInjective(worklist[p])
          /\ w \in Range(worklist[p])
      BY <1>0, <2>3 DEF TypeOK, ListsOnce, Listed
    <3>2. \A q \in CPUs : worklist'[q] = IF q = p THEN q0 ELSE worklist[q]
      BY <1>0, <2>3 DEF TypeOK
    <3>3. \A x : x \in Range(q0) <=> x \in Range(worklist[p]) /\ x # w
      BY <3>1, RemoveFirstQueue
    <3>4. k # w
      BY ItemFacts
    <3>5. \A x : x # w /\ Before(worklist[p], x, k) => Before(q0, x, k)
      BY <3>1, <3>4, BeforeRemoveFirst
    <3> HIDE DEF q0
    <3> QED
      BY <2>3, <3>2, <3>3, <3>4, <3>5 DEF ListsKeep, Listed
  <2> QED
    BY <1>1, <2>1, <2>2, <2>3 DEF CallerLists
<1>7. \A w \in Works : Quiet(k, w) => Quiet(k, w)'
  BY <1>0, <1>1, <1>2, <1>5 DEF Quiet, Still, Others, TypeOK
<1>8. UNCHANGED current_work
  BY <1>1 DEF Others
<1> QED
  BY <1>5, <1>6, <1>7, <1>8, FlushKept DEF FlushInv

-----------------------------------------------------------------------------
(* The flush t has nothing to wait for where it is.                        *)
OwedElsewhere(t) ==
  \A w \in Works :
    /\ <<w, 0>> \in owed[t] => \E q \in CPUs : Listed(w, q) /\ Elsewhere(t, q)
    /\ \A p \in CPUs : <<w, p>> \in owed[t] => current_work[p] = w /\ Elsewhere(t, p)

(* It is so when its barrier has been completed.                           *)
LEMMA WokenElsewhere ==
  ASSUME Inv, NEW t \in Callers, FlushFor(t), op[t] \in FlushOps, pc[t] = "woken"
  PROVE  OwedElsewhere(t)
<1>1. \A q \in CPUs : ~Listed(t, q)
  BY NoBarrier
<1>2. \A w, q : q \in CPUs => ~Before(worklist[q], w, t)
  <2>1. \A q \in CPUs : worklist[q] \in Seq(Items)
    BY DEF Inv, TypeOK
  <2> QED
    BY <1>1, <2>1, BeforeMembers DEF Listed
<1>3. ~Entering(t)
  BY DEF Entering
<1>4. \A w \in Works :
        /\ QueuedAhead(t, w) => \E q \in CPUs : Listed(w, q) /\ Elsewhere(t, q)
        /\ \A p \in CPUs : RunsAhead(t, w, p) => current_work[p] = w /\ Elsewhere(t, p)
  BY <1>1, <1>2, <1>3 DEF QueuedAhead, RunsAhead
<1> QED
  BY <1>4 DEF FlushFor, OwedElsewhere

(* And when there is nothing on the CPU it has got to.                     *)
LEMMA IdleElsewhere ==
  ASSUME Inv, NEW t \in Callers, FlushFor(t), op[t] \in FlushOps,
         worklist[At(t)] = <<>>, current_work[At(t)] = None
  PROVE  OwedElsewhere(t)
<1>1. \A w : ~Listed(w, At(t))
  BY EmptyQueue DEF Listed
<1>2. \A w \in Works : w # None
  BY ItemFacts
<1>3. \A w \in Works :
        /\ QueuedAhead(t, w) => \E q \in CPUs : Listed(w, q) /\ Elsewhere(t, q)
        /\ \A p \in CPUs : RunsAhead(t, w, p) => current_work[p] = w /\ Elsewhere(t, p)
  BY <1>1, <1>2 DEF QueuedAhead, RunsAhead
<1> QED
  BY <1>3 DEF FlushFor, OwedElsewhere

(* What is owed when a flush that is through returns: nothing, and for     *)
(* flush_work nothing on the CPU where the work was last queued.           *)
Settled(t) ==
  /\ op[t] = "flush_workqueue" => owed[t] = {}
  /\ op[t] = "flush_work" =>
       owed[t] \cap {<<target[t], 0>>, <<target[t], cwq[t]>>} = {}

(* Nothing is owed once there is no place left where a run could be.       *)
LEMMA ElsewhereSettled ==
  ASSUME Inv, NEW t \in Callers, FlushFor(t), OwedElsewhere(t),
         op[t] = "flush_workqueue" => ~more_cpus(t)
  PROVE  Settled(t)
<1>0. /\ TypeOK /\ DataAgrees /\ owed[t] \subseteq Works \X (0 .. NCPU)
      /\ cpu[t] \in 0 .. NCPU /\ cwq[t] \in 0 .. NCPU
  BY DEF Inv, TypeOK
<1>1. ASSUME op[t] = "flush_workqueue", owed[t] # {} PROVE FALSE
  <2>1. PICK w \in Works, n \in 0 .. NCPU : <<w, n>> \in owed[t]
    BY <1>0, <1>1
  <2>2. \E q \in CPUs : Elsewhere(t, q)
    BY <2>1, CpuFacts DEF OwedElsewhere
  <2>3. \E q \in CPUs : q > cpu[t]
    BY <1>1, <2>2 DEF Elsewhere
  <2> QED
    BY <1>0, <1>1, <2>3, WorkQueueAssumption DEF more_cpus, CPUs
<1>2. ASSUME op[t] = "flush_work", NEW w, w = target[t], <<w, 0>> \in owed[t] PROVE FALSE
  <2>1. w \in Works /\ 0 \in 0 .. NCPU
    BY <1>0, <1>2, WorkQueueAssumption
  <2>2. wq_data[w] = cwq[t]
    BY <1>2, <2>1 DEF FlushFor, FlushOps, Quiet
  <2>3. PICK q \in CPUs : Listed(w, q) /\ q # cwq[t]
    BY <1>2, <2>1 DEF OwedElsewhere, Elsewhere
  <2> QED
    BY <1>0, <2>1, <2>2, <2>3 DEF DataAgrees
<1>3. ASSUME op[t] = "flush_work", NEW w, w = target[t], <<w, cwq[t]>> \in owed[t],
             cwq[t] # 0
      PROVE  FALSE
  <2>1. w \in Works /\ cwq[t] \in CPUs
    BY <1>0, <1>3, CpuFacts
  <2> QED
    BY <1>3, <2>1 DEF OwedElsewhere, Elsewhere
<1> QED
  BY <1>1, <1>2, <1>3 DEF Settled

(* A caller that goes on from where it has nothing to wait for.            *)
LEMMA FlushNextCpu ==
  ASSUME Inv, NEW t \in Callers, FlushFor(t), next_cpu(t), op[t] \in FlushOps,
         UNCHANGED <<worklist, current_work>>, OwedElsewhere(t)
  PROVE  FlushFor(t)' /\ (op'[t] = "none" => Settled(t))
<1>0. TypeOK /\ cpu[t] \in 0 .. NCPU /\ op[t] \in Ops
  BY DEF Inv, TypeOK
<1>1. CASE /\ op[t] = "flush_workqueue"
           /\ cpu' = [cpu EXCEPT ![t] = @ + 1]
           /\ Goto(t, "flush")
           /\ UNCHANGED <<op, target, cwq, ret, owed>>
  <2>1. op'[t] = "flush_workqueue" /\ cpu'[t] = cpu[t] + 1 /\ pc'[t] = "flush"
    BY <1>0, <1>1 DEF TypeOK, Goto
  <2>2. Entering(t)' /\ At(t)' = cpu[t] + 1
    BY <2>1 DEF Entering, At
  <2>3. \A q \in CPUs : Elsewhere(t, q) => Elsewhere(t, q)' \/ q = At(t)'
    <3>1. \A q \in CPUs : q > cpu[t] => q > cpu[t] + 1 \/ q = cpu[t] + 1
      BY <1>0, WorkQueueAssumption DEF CPUs
    <3> QED
      BY <1>1, <2>1, <2>2, <3>1 DEF Elsewhere
  <2>4. \A w \in Works :
          /\ <<w, 0>> \in owed'[t] => QueuedAhead(t, w)'
          /\ \A p \in CPUs : <<w, p>> \in owed'[t] => RunsAhead(t, w, p)'
    BY <1>1, <2>2, <2>3 DEF OwedElsewhere, QueuedAhead, RunsAhead, Listed
  <2> QED
    BY <2>1, <2>4 DEF FlushFor
<1>2. CASE /\ op[t] = "flush_work" \/ (op[t] = "flush_workqueue" /\ ~more_cpus(t))
           /\ return(t)
  <2>1. op'[t] = "none"
    BY <1>0, <1>2 DEF TypeOK, return
  <2>2. Settled(t)
    BY <1>2, ElsewhereSettled
  <2> QED
    BY <2>1, <2>2 DEF FlushFor, FlushOps
<1> QED
  BY <1>1, <1>2 DEF next_cpu, FlushOps

(* The barrier goes behind what is owed on its list; what runs is ahead of *)
(* it in any case.                                                         *)
LEMMA FlushBarrier ==
  ASSUME Inv, NEW t \in Callers, FlushFor(t), op[t] \in FlushOps,
         NEW p \in CPUs, p = At(t),
         NEW i \in 1 .. (Len(worklist[p]) + 1),
         insert_wq_barrier(t, p, i), UNCHANGED wvars,
         \A w \in Works, j \in 1 .. Len(worklist[p]) :
           <<w, 0>> \in owed[t] /\ worklist[p][j] = w => j < i
  PROVE  FlushFor(t)' /\ op'[t] = op[t]
<1>0. TypeOK
  BY DEF Inv
<1> DEFINE q0 == InsertAt(worklist[p], i, t)
<1>1. /\ worklist' = [worklist EXCEPT ![p] = q0]
      /\ UNCHANGED <<current_work, op, target, cpu, cwq, owed, timer, setter, wq_data>>
  BY DEF insert_wq_barrier, wvars
<1>2. /\ At(t)' = p /\ \A q : Elsewhere(t, q)' <=> Elsewhere(t, q)
      /\ \A w \in Works : Quiet(t, w) => Quiet(t, w)'
  BY <1>1 DEF At, Elsewhere, Quiet
<1>3. worklist[p] \in Seq(Items) /\ t \in Items
  BY <1>0, ItemFacts DEF TypeOK
<1>4. \A q \in CPUs : worklist'[q] = IF q = p THEN q0 ELSE worklist[q]
  BY <1>0, <1>1 DEF TypeOK
<1>5. \A x : x \in Range(q0) <=> x \in Range(worklist[p]) \/ x = t
  BY <1>3, InsertAtMembers
<1>6. \A k \in 1 .. Len(worklist[p]) : k < i => Before(q0, worklist[p][k], t)
  BY <1>3, BeforeInsertAt
<1>7. \A x : x \in Range(worklist[p]) => \E k \in 1 .. Len(worklist[p]) : worklist[p][k] = x
  BY <1>3, QueueMembers
<1>8. Listed(t, p)'
  BY <1>4, <1>5 DEF Listed
<1> HIDE DEF q0
<1>9. ASSUME NEW w \in Works, <<w, 0>> \in owed[t] PROVE QueuedAhead(t, w)'
  <2>1. PICK q \in CPUs : Listed(w, q) /\ (Elsewhere(t, q) \/ q = p)
    BY <1>9 DEF FlushFor, QueuedAhead
  <2>2. Listed(w, q)'
    BY <1>4, <1>5, <2>1 DEF Listed
  <2>3. CASE Elsewhere(t, q)
    BY <1>2, <2>2, <2>3 DEF QueuedAhead
  <2>4. CASE q = p
    <3>1. PICK k \in 1 .. Len(worklist[p]) : worklist[p][k] = w
      BY <1>7, <2>1, <2>4 DEF Listed
    <3>2. Before(q0, w, t)
      BY <1>6, <1>9, <3>1
    <3>3. Before(worklist'[q], w, t)
      BY <1>4, <2>4, <3>2
    <3> QED
      BY <1>2, <2>2, <2>4, <3>3 DEF QueuedAhead
  <2> QED
    BY <2>1, <2>3, <2>4
<1>10. ASSUME NEW w \in Works, NEW q \in CPUs, <<w, q>> \in owed[t]
       PROVE  RunsAhead(t, w, q)'
  <2>1. current_work[q] = w /\ (Elsewhere(t, q) \/ q = p)
    BY <1>10 DEF FlushFor, RunsAhead
  <2> QED
    BY <1>1, <1>2, <1>8, <2>1 DEF RunsAhead
<1> QED
  BY <1>1, <1>2, <1>9, <1>10 DEF FlushFor

(* With no nesting, an execution under way is the worker's current_work.   *)
LEMMA ExecutionsFlat ==
  ASSUME Inv, CancelInv, NEW w \in Works
  PROVE  /\ \A v, n : <<v, n>> \in Executions(w) => v = w
         /\ \A v : <<v, 0>> \in Executions(w) => \E q \in CPUs : Listed(w, q)
         /\ \A v, p : p \in CPUs /\ <<v, p>> \in Executions(w) => current_work[p] = w
<1>0. TypeOK /\ Flat
  BY DEF Inv, CancelInv
<1>1. ASSUME NEW p \in CPUs, w \in Range(frames[p]) PROVE current_work[p] = w
  <2>1. frames[p] # <<>>
    BY <1>1, EmptyQueue
  <2>2. frames[p] = <<current_work[p]>> /\ frames[p] \in Seq(Items)
    BY <1>0, <2>1 DEF Flat, TypeOK
  <2>3. \E i \in 1 .. Len(frames[p]) : frames[p][i] = w
    BY <1>1, <2>2, QueueMembers
  <2> QED
    BY <2>2, <2>3
<1>2. \A v, n : <<v, n>> \in Executions(w) =>
        /\ v = w
        /\ (n = 0 /\ Queued(w)) \/ (n \in CPUs /\ w \in Range(frames[n]))
  BY DEF Executions
<1>3. 0 \notin CPUs
  BY CpuFacts
<1> QED
  BY <1>1, <1>2, <1>3 DEF Queued, Listed

(* A flush starts, and owes what is queued or runs.                        *)
LEMMA FlushStart ==
  ASSUME Inv, CancelInv, NEW t \in Callers, Call(t)
  PROVE  FlushFor(t)' /\ op[t] = "none"
<1>0. TypeOK /\ DataAgrees
  BY DEF Inv
<1>1. op[t] = "none" /\ UNCHANGED <<wq_data, timer, setter, worklist, current_work>>
  <2>1. pc[t] = "idle" /\ UNCHANGED <<wvars, qvars>>
    BY DEF Call, call_flush_workqueue, call_flush_work, call_cancel, call
  <2> QED
    BY <2>1 DEF Inv, CallerShape, Shape, wvars, qvars
<1>2. \A w \in Works, q \in CPUs : Listed(w, q) => Listed(w, q)' /\ q = wq_data[w]
  BY <1>0, <1>1 DEF Listed, DataAgrees
<1>3. CASE call_flush_workqueue(t)
  <2>1. /\ op'[t] = "flush_workqueue" /\ cpu'[t] = 1 /\ pc'[t] = "flush"
        /\ owed'[t] = UNION {Executions(w) : w \in Works}
    BY <1>0, <1>3 DEF call_flush_workqueue, call, Goto, TypeOK
  <2>2. \A q \in CPUs : Elsewhere(t, q)' \/ (q = At(t)' /\ Entering(t)')
    BY <2>1, WorkQueueAssumption DEF Elsewhere, At, Entering, CPUs
  <2>3. ASSUME NEW w \in Works, <<w, 0>> \in owed'[t] PROVE QueuedAhead(t, w)'
    <3>1. \E q \in CPUs : Listed(w, q)
      BY <2>1, <2>3, ExecutionsFlat
    <3> QED
      BY <1>2, <2>2, <3>1 DEF QueuedAhead
  <2>4. ASSUME NEW w \in Works, NEW p \in CPUs, <<w, p>> \in owed'[t]
        PROVE  RunsAhead(t, w, p)'
    <3>1. current_work[p] = w
      BY <2>1, <2>4, ExecutionsFlat
    <3> QED
      BY <1>1, <2>2, <3>1 DEF RunsAhead
  <2> QED
    BY <1>1, <2>1, <2>3, <2>4 DEF FlushFor
<1>4. ASSUME NEW w \in Works, call_flush_work(t, w) PROVE FlushFor(t)'
  <2>1. /\ op'[t] = "flush_work" /\ target'[t] = w /\ pc'[t] = "flush_work"
        /\ cwq'[t] = wq_data[w]
        /\ owed'[t] = IF timer[w] \/ setter[w] # "none" THEN {} ELSE Executions(w)
    BY <1>0, <1>4 DEF call_flush_work, call, Goto, TypeOK
  <2>2. \A q : Elsewhere(t, q)' \/ (q = At(t)' /\ Entering(t)')
    BY <2>1 DEF Elsewhere, At, Entering
  <2>3. ASSUME NEW v \in Works, NEW n, <<v, n>> \in owed'[t]
        PROVE  v = w /\ <<w, n>> \in Executions(w) /\ Quiet(t, v)'
    BY <1>1, <2>1, <2>3, ExecutionsFlat DEF Quiet
  <2>4. ASSUME NEW v \in Works, <<v, 0>> \in owed'[t] PROVE QueuedAhead(t, v)'
    <3>1. v = w /\ \E q \in CPUs : Listed(w, q)
      BY <2>3, <2>4, ExecutionsFlat
    <3> QED
      BY <1>2, <2>2, <3>1 DEF QueuedAhead
  <2>5. ASSUME NEW v \in Works, NEW p \in CPUs, <<v, p>> \in owed'[t]
        PROVE  RunsAhead(t, v, p)'
    <3>1. v = w /\ current_work[p] = w
      BY <2>3, <2>5, ExecutionsFlat
    <3> QED
      BY <1>1, <2>2, <3>1 DEF RunsAhead
  <2> QED
    BY <2>3, <2>4, <2>5 DEF FlushFor
<1>5. ASSUME NEW w \in Works, call_cancel(t, w) PROVE FlushFor(t)'
  <2>1. op'[t] \in CancelOps
    BY <1>0, <1>5 DEF call_cancel, call, TypeOK, CancelOps
  <2> QED
    BY <2>1 DEF FlushFor, FlushOps, CancelOps
<1> QED
  BY <1>1, <1>3, <1>4, <1>5 DEF Call

(* A canceller is owed nothing.                                            *)
LEMMA FlushCanceller ==
  ASSUME Inv, NEW t \in Callers, InCall(t), op[t] \notin FlushOps
  PROVE  FlushFor(t)'
<1>1. UNCHANGED op \/ op' = [op EXCEPT ![t] = "none"]
  BY DEF InCall, completed, flush_cpu_workqueue, flush_work, cancel_del_timer,
         grab_pending, steal_pending, wait_on_cpu_work, cancel_done,
         insert_wq_barrier, next_cpu, waited_on_work, return
<1>2. op'[t] \notin FlushOps
  BY <1>1 DEF Inv, TypeOK, FlushOps
<1> QED
  BY <1>2 DEF FlushFor

(* A flush goes on: to wait behind what it owes, to the next CPU or back   *)
(* to its caller, but then nothing is left.                                *)
LEMMA FlushOwnStep ==
  ASSUME Inv, NEW t \in Callers, FlushFor(t), InCall(t), op[t] \in FlushOps
  PROVE  FlushFor(t)' /\ (op'[t] = "none" => Settled(t))
<1>0. TypeOK /\ CallerShape /\ DataAgrees /\ ListsOnce
  BY DEF Inv
<1>1. Shape(pc[t], op[t], target[t], cpu[t], cwq[t], ret[t])
  BY <1>0, CallerTypes
<1>2. op[t] \notin CancelOps /\ op[t] # "none"
  BY DEF FlushOps, CancelOps
<1>3. completed(t) \/ flush_cpu_workqueue(t) \/ flush_work(t)
  BY <1>1, <1>2 DEF InCall, cancel_del_timer, grab_pending, steal_pending,
     wait_on_cpu_work, cancel_done, Shape
<1>4. CASE completed(t)
  <2>1. pc[t] = "woken" /\ next_cpu(t) /\ UNCHANGED <<worklist, current_work>>
    BY <1>4 DEF completed, qvars
  <2> QED
    BY <2>1, WokenElsewhere, FlushNextCpu
<1>5. CASE flush_cpu_workqueue(t)
  <2>1. op[t] = "flush_workqueue"
    BY <1>1, <1>5 DEF flush_cpu_workqueue, Shape
  <2>2. PICK p \in CPUs : p = cpu[t] /\ p = At(t)
    BY <1>1, <2>1 DEF Shape, At
  <2>3. CASE insert_wq_barrier(t, p, Len(worklist[p]) + 1)
    <3>1. worklist[p] \in Seq(Items)
      BY <1>0 DEF TypeOK
    <3>2. \A j \in 1 .. Len(worklist[p]) : j < Len(worklist[p]) + 1
      BY <3>1
    <3>3. UNCHANGED wvars
      BY <1>5 DEF flush_cpu_workqueue
    <3> QED
      BY <1>0, <1>2, <2>2, <2>3, <3>2, <3>3, Positions, FlushBarrier
  <2>4. CASE ~is_active(p) /\ next_cpu(t) /\ UNCHANGED qvars
    <3>1. /\ worklist[p] = <<>> /\ current_work[p] = None
          /\ UNCHANGED <<worklist, current_work>>
      BY <2>4 DEF is_active, qvars
    <3> QED
      BY <2>2, <2>4, <3>1, IdleElsewhere, FlushNextCpu
  <2> QED
    BY <1>5, <2>2, <2>3, <2>4 DEF flush_cpu_workqueue
<1>6. CASE flush_work(t)
  <2>1. op[t] = "flush_work"
    BY <1>1, <1>6 DEF flush_work, Shape
  <2>2. PICK p \in CPUs, w \in Works : p = cwq[t] /\ w = target[t] /\ p = At(t)
    BY <1>1, <1>6, <2>1 DEF flush_work, Shape, At
  <2>3. UNCHANGED wvars
    BY <1>6 DEF flush_work
  <2>4. \A v \in Works, n \in 0 .. NCPU : <<v, n>> \in owed[t] => v = w /\ wq_data[w] = p
    BY <2>1, <2>2 DEF FlushFor, Quiet
  <2>5. 0 \in 0 .. NCPU /\ p \in 0 .. NCPU
    BY CpuFacts, WorkQueueAssumption
  <2>6. ASSUME NEW i \in DOMAIN worklist[p], worklist[p][i] = w,
               insert_wq_barrier(t, p, i + 1)
        PROVE  FlushFor(t)' /\ op'[t] = op[t]
    <3>1. worklist[p] \in Seq(Items) /\ IsInjective(worklist[p])
      BY <1>0 DEF TypeOK, ListsOnce
    <3>2. i \in 1 .. Len(worklist[p]) /\ i + 1 \in 1 .. (Len(worklist[p]) + 1)
      BY <1>0, Positions
    <3>3. \A j \in 1 .. Len(worklist[p]) : worklist[p][j] = w => j < i + 1
      <4>1. \A j \in 1 .. Len(worklist[p]) : worklist[p][j] = w => j = i
        BY <2>6, <3>1, <3>2, QueueMembers
      <4> QED
        BY <3>2, <4>1
    <3>4. \A v \in Works, j \in 1 .. Len(worklist[p]) :
            <<v, 0>> \in owed[t] /\ worklist[p][j] = v => j < i + 1
      BY <2>4, <2>5, <3>3
    <3> QED
      BY <2>2, <2>3, <2>6, <3>2, <3>4, FlushBarrier
  <2>7. CASE ~Queued(w) /\ insert_wq_barrier(t, p, 1)
    <3>1. \A v \in Works : <<v, 0>> \notin owed[t]
      BY <2>4, <2>5, <2>7 DEF FlushFor, QueuedAhead, Queued, Listed
    <3>2. 1 \in 1 .. (Len(worklist[p]) + 1)
      BY <1>0, Positions
    <3>3. FlushFor(t)' /\ op'[t] = op[t]
      BY <2>2, <2>3, <2>7, <3>1, <3>2, FlushBarrier
    <3> QED
      BY <1>2, <3>3
  <2>8. CASE (IF Queued(w) THEN wq_data[w] # p ELSE current_work[p] # w) /\ return(t)
    <3>1. op'[t] = "none"
      BY <1>0, <2>8 DEF TypeOK, return
    <3>2. <<w, 0>> \notin owed[t]
      BY <2>4, <2>5, <2>8 DEF FlushFor, QueuedAhead, Queued, Listed
    <3>3. <<w, p>> \notin owed[t]
      BY <2>4, <2>5, <2>8 DEF FlushFor, RunsAhead
    <3>4. Settled(t)
      BY <2>1, <2>2, <3>2, <3>3 DEF Settled
    <3> QED
      BY <3>1, <3>4 DEF FlushFor, FlushOps
  <2> QED
    BY <1>2, <1>6, <2>2, <2>6, <2>7, <2>8 DEF flush_work
<1> QED
  BY <1>3, <1>4, <1>5, <1>6

(* Every step keeps what the flushes know, and a flush that returns is     *)
(* owed nothing it had to wait for.                                        *)
LEMMA FlushNext ==
  ASSUME NoNesting, Inv, CancelInv, FlushInv, [Next]_vars
  PROVE  /\ FlushInv'
         /\ \A t \in Callers : op[t] \in FlushOps /\ op'[t] = "none" => Settled(t)
<1>1. CASE UNCHANGED vars
  <2>1. UNCHANGED <<worklist, current_work, wq_data, timer, setter,
                    pc, op, target, cpu, cwq, owed>>
    BY <1>1 DEF vars, wvars, qvars, cvars
  <2>2. \A k \in Callers : Still(k) /\ ListsKeep(k) /\ \A w : Quiet(k, w) => Quiet(k, w)'
    BY <2>1 DEF Still, ListsKeep, Listed, Quiet
  <2>3. FlushInv'
    BY <2>1, <2>2, FlushKept DEF FlushInv
  <2> QED
    BY <2>1, <2>3 DEF FlushOps
<1>2. CASE \E w \in Works : AnyContext(w)
  <2>1. UNCHANGED op
    BY <1>2 DEF AnyContext, set_pending, __queue_work, add_timer,
       delayed_work_timer_fn, cancel_delayed_work, cvars
  <2> QED
    BY <1>2, <2>1, FlushContext DEF FlushOps
<1>3. CASE \E p \in CPUs : Worker(p) \/ flush_own(p)
  <2>1. UNCHANGED op
    BY <1>3 DEF Worker, worker_thread, f_returns, flush_own, call_f, cvars
  <2> QED
    BY <1>3, <2>1, FlushRun, FlushCall DEF Worker, FlushOps
<1>4. ASSUME NEW t \in Callers, Call(t) \/ InCall(t)
      PROVE  /\ FlushInv'
             /\ \A k \in Callers : op[k] \in FlushOps /\ op'[k] = "none" => Settled(k)
  <2>1. FlushFor(t)' /\ (op[t] \in FlushOps /\ op'[t] = "none" => Settled(t))
    BY <1>4, FlushStart, FlushCanceller, FlushOwnStep DEF FlushInv, FlushOps
  <2>2. \A k \in Callers \ {t} : FlushFor(k)' /\ op'[k] = op[k]
    BY <1>4, FlushOthers, OthersStay DEF Others
  <2> QED
    BY <2>1, <2>2 DEF FlushInv, FlushOps
<1> QED
  BY <1>1, <1>2, <1>3, <1>4 DEF Next

(* flush_workqueue returns after the end of every execution that was       *)
(* queued or under way when it was called, and flush_work after that of    *)
(* its work on the CPU where it was last queued, for any number of works,  *)
(* callers and CPUs.  Again no callback may flush the queue it runs from:  *)
(* it would run the barriers behind it before it has ended itself.         *)
THEOREM WorkQueueFlushWaits ==
  ASSUME NoNesting
  PROVE  Spec => FlushWaits
<1>1. Init => Inv /\ CancelInv /\ FlushInv
  BY InvInit, CancelInit, FlushInit
<1>2. Inv /\ CancelInv /\ FlushInv /\ [Next]_vars => (Inv /\ CancelInv /\ FlushInv)'
  BY InvNext, CancelNext, FlushNext
<1>3. Inv /\ CancelInv /\ FlushInv /\ [Next]_vars =>
        [\A t \in Callers :
           /\ op[t] = "flush_workqueue" /\ op'[t] = "none" => owed[t] = {}
           /\ op[t] = "flush_work" /\ op'[t] = "none" =>
                owed[t] \cap {<<target[t], 0>>, <<target[t], cwq[t]>>} = {}]_vars
  BY FlushNext DEF FlushOps, Settled
<1> QED
  BY <1>1, <1>2, <1>3, PTL DEF Spec, FlushWaits

=============================================================================
