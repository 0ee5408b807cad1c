-------------------------- MODULE SemaphoreProofs --------------------------
(***************************************************************************)
(* Proofs about kernel/semaphore.c for any finite set of tasks, any        *)
(* initial count and any number of calls from other contexts.              *)
(*                                                                         *)
(* That permits are conserved depends on who may be handed one: up() takes *)
(* the head of the queue, so the queue must hold only tasks that own no    *)
(* permit and each only once.  Inv carries that, and that a stale waiter.up*)
(* of an earlier call is never seen.                                       *)
(***************************************************************************)
EXTENDS Semaphore, SequenceTheorems, FiniteSetTheorems, WellFoundedInduction, TLAPS

-----------------------------------------------------------------------------
(* The wait queue: what list_add_tail (Append), list_del of a waiter       *)
(* (RemoveFirst) and of the first one (Tail) do to the set of waiters.     *)

(* A nonempty set of natural numbers has a least element, which Min finds. *)
LEMMA MinIsMember ==
  ASSUME NEW T \in SUBSET Nat, T # {}
  PROVE  Min(T) \in T
<1> DEFINE R == {p \in Nat \X Nat : p[1] < p[2]}
<1>1. IsWellFoundedOn(R, Nat)
  BY NatLessThanWellFounded, Zenon DEF OpToRel
<1>2. PICK x \in T : \A y \in T : ~(<<y, x>> \in R)
  <2> HIDE DEF R
  <2> QED  BY <1>1, WFMin
<1>3. \A y \in T : x <= y
  <2> TAKE y \in T
  <2>1. x \in Nat /\ y \in Nat
    OBVIOUS
  <2>2. y < x => <<y, x>> \in R
    BY <2>1
  <2> QED
    BY <1>2, <2>1, <2>2
<1> QED
  BY <1>3 DEF Min

(* Taking e off a queue where it stands: the result drops one position.    *)
LEMMA RemoveFirstIsRemoveAt ==
  ASSUME NEW S, NEW s \in Seq(S), NEW e, \E i \in 1 .. Len(s) : s[i] = e
  PROVE  \E i \in 1 .. Len(s) : s[i] = e /\ RemoveFirst(s, e) = RemoveAt(s, i)
<1> DEFINE I == {i \in 1 .. Len(s) : s[i] = e}
           k == Min(I)
<1>1. k \in I
  <2>1. I \in SUBSET Nat /\ I # {}
    OBVIOUS
  <2> QED
    BY <2>1, MinIsMember
<1>2. SelectInSeq(s, LAMBDA v : v = e) = k
  BY DEF SelectInSeq
<1> QED
  BY <1>1, <1>2 DEF RemoveFirst

(* The parts of a queue around a removed position.                         *)
LEMMA RemoveAtProperties ==
  ASSUME NEW S, NEW s \in Seq(S), NEW i \in 1 .. Len(s)
  PROVE  /\ RemoveAt(s, i) \in Seq(S)
         /\ Len(RemoveAt(s, i)) = Len(s) - 1
         /\ \A j \in 1 .. (Len(s) - 1) :
              RemoveAt(s, i)[j] = IF j < i THEN s[j] ELSE s[j + 1]
<1> DEFINE a == SubSeq(s, 1, i - 1)
           b == SubSeq(s, i + 1, Len(s))
<1>1. /\ a \in Seq(S) /\ Len(a) = i - 1
      /\ \A j \in 1 .. (i - 1) : a[j] = s[j]
  <2>1. \A j \in 1 .. (i - 1) : s[j] \in S
    OBVIOUS
  <2> QED
    BY <2>1, SubSeqProperties
<1>2. /\ b \in Seq(S) /\ Len(b) = Len(s) - i
      /\ \A j \in 1 .. (Len(s) - i) : b[j] = s[i + j]
  <2>1. \A j \in (i + 1) .. Len(s) : s[j] \in S
    OBVIOUS
  <2> QED
    BY <2>1, SubSeqProperties
<1>3. RemoveAt(s, i) = a \o b
  BY DEF RemoveAt
<1> HIDE DEF a, b
<1>4. /\ a \o b \in Seq(S) /\ Len(a \o b) = Len(a) + Len(b)
      /\ \A j \in 1 .. (Len(a) + Len(b)) :
           (a \o b)[j] = IF j <= Len(a) THEN a[j] ELSE b[j - Len(a)]
  BY <1>1, <1>2, ConcatProperties
<1>5. Len(s) \in Nat
  OBVIOUS
<1>6. Len(a) + Len(b) = Len(s) - 1
  BY <1>1, <1>2, <1>5
<1>7. ASSUME NEW j \in 1 .. (Len(s) - 1)
      PROVE  (a \o b)[j] = IF j < i THEN s[j] ELSE s[j + 1]
  <2>1. CASE j < i
    BY <2>1, <1>1, <1>4, <1>5, <1>6
  <2>2. CASE ~(j < i)
    <3>1. (a \o b)[j] = b[j - Len(a)]
      BY <2>2, <1>1, <1>4, <1>5, <1>6
    <3>2. j - Len(a) \in 1 .. (Len(s) - i) /\ i + (j - Len(a)) = j + 1
      BY <2>2, <1>1, <1>5
    <3> QED
      BY <2>2, <3>1, <3>2, <1>2
  <2> QED
    BY <2>1, <2>2
<1> QED
  BY <1>3, <1>4, <1>6, <1>7

(* Membership in a queue and uniqueness of its members, by position.       *)
LEMMA QueueMembers ==
  ASSUME NEW S, NEW s \in Seq(S)
  PROVE  /\ \A e : e \in Range(s) <=> \E i \in 1 .. Len(s) : s[i] = e
         /\ IsInjective(s) <=>
              \A i, j \in 1 .. Len(s) : s[i] = s[j] => i = j
<1>1. DOMAIN s = 1 .. Len(s)
  OBVIOUS
<1>2. \A e : e \in Range(s) <=> \E i \in 1 .. Len(s) : s[i] = e
  BY <1>1, Zenon DEF Range
<1>3. IsInjective(s) <=> \A i, j \in 1 .. Len(s) : s[i] = s[j] => i = j
  BY <1>1, Zenon DEF IsInjective
<1> QED
  BY <1>2, <1>3

(* list_add_tail of a task that is not queued.                             *)
LEMMA AppendQueue ==
  ASSUME NEW S, NEW s \in Seq(S), NEW e \in S, IsInjective(s), e \notin Range(s)
  PROVE  /\ Append(s, e) \in Seq(S)
         /\ IsInjective(Append(s, e))
         /\ \A x : x \in Range(Append(s, e)) <=> x \in Range(s) \/ x = e
<1> DEFINE q == Append(s, e)
<1>1. /\ q \in Seq(S) /\ Len(q) = Len(s) + 1 /\ q[Len(s) + 1] = e
      /\ \A i \in 1 .. Len(s) : q[i] = s[i]
  BY AppendProperties
<1>2. Len(s) \in Nat
  OBVIOUS
<1> HIDE DEF q
<1>3. \A i, j \in 1 .. Len(q) : q[i] = q[j] => i = j
  <2>1. \A i, j \in 1 .. Len(s) : s[i] = s[j] => i = j
    BY QueueMembers
  <2>2. \A i \in 1 .. Len(s) : s[i] # e
    BY QueueMembers
  <2> QED
    BY <1>1, <1>2, <2>1, <2>2
<1>4. \A x : (\E i \in 1 .. Len(q) : q[i] = x)
               <=> (\E i \in 1 .. Len(s) : s[i] = x) \/ x = e
  BY <1>1, <1>2
<1>5. IsInjective(q)
  BY <1>1, <1>3, QueueMembers
<1>6. \A x : x \in Range(q) <=> x \in Range(s) \/ x = e
  <2>1. \A x : x \in Range(q) <=> \E i \in 1 .. Len(q) : q[i] = x
    BY <1>1, QueueMembers
  <2>2. \A x : x \in Range(s) <=> \E i \in 1 .. Len(s) : s[i] = x
    BY QueueMembers
  <2> QED
    BY <1>4, <2>1, <2>2
<1> QED
  BY <1>1, <1>5, <1>6 DEF q

(* A queue without repetitions from which position i is dropped.           *)
LEMMA RemoveAtQueue ==
  ASSUME NEW S, NEW s \in Seq(S), NEW i \in 1 .. Len(s), IsInjective(s)
  PROVE  /\ RemoveAt(s, i) \in Seq(S)
         /\ IsInjective(RemoveAt(s, i))
         /\ \A x : x \in Range(RemoveAt(s, i)) <=> x \in Range(s) /\ x # s[i]
<1> DEFINE q == RemoveAt(s, i)
<1>1. /\ q \in Seq(S) /\ Len(q) = Len(s) - 1
      /\ \A j \in 1 .. (Len(s) - 1) : q[j] = IF j < i THEN s[j] ELSE s[j + 1]
  BY RemoveAtProperties
<1>2. Len(s) \in Nat
  OBVIOUS
<1> HIDE DEF q
<1>3. \A j, k \in 1 .. Len(s) : s[j] = s[k] => j = k
  BY QueueMembers
<1>4. ASSUME NEW j \in 1 .. Len(q), NEW k \in 1 .. Len(q), q[j] = q[k]
      PROVE  j = k
  <2>1. /\ j \in 1 .. Len(s) /\ j + 1 \in 1 .. Len(s)
        /\ k \in 1 .. Len(s) /\ k + 1 \in 1 .. Len(s)
    BY <1>1, <1>2
  <2>2. /\ q[j] = IF j < i THEN s[j] ELSE s[j + 1]
        /\ q[k] = IF k < i THEN s[k] ELSE s[k + 1]
    BY <1>1
  <2>3. CASE j < i /\ k < i
    BY <1>3, <1>4, <2>1, <2>2, <2>3
  <2>4. CASE j < i /\ ~(k < i)
    <3>1. j = k + 1
      BY <1>3, <1>4, <2>1, <2>2, <2>4
    <3> QED
      BY <3>1, <2>4
  <2>5. CASE ~(j < i) /\ k < i
    <3>1. j + 1 = k
      BY <1>3, <1>4, <2>1, <2>2, <2>5
    <3> QED
      BY <3>1, <2>5
  <2>6. CASE ~(j < i) /\ ~(k < i)
    <3>1. j + 1 = k + 1
      BY <1>3, <1>4, <2>1, <2>2, <2>6
    <3> QED
      BY <3>1
  <2> QED
    BY <2>3, <2>4, <2>5, <2>6
<1>5. ASSUME NEW x
      PROVE  (\E j \in 1 .. Len(q) : q[j] = x)
               <=> (\E j \in 1 .. Len(s) : s[j] = x) /\ x # s[i]
  <2>1. ASSUME NEW j \in 1 .. Len(q), q[j] = x
        PROVE  (\E k \in 1 .. Len(s) : s[k] = x) /\ x # s[i]
    <3>1. CASE j < i
      BY <2>1, <3>1, <1>1, <1>2, <1>3
    <3>2. CASE ~(j < i)
      <4>1. j + 1 \in 1 .. Len(s) /\ s[j + 1] = x /\ j + 1 # i
        BY <2>1, <3>2, <1>1, <1>2
      <4> QED
        BY <4>1, <1>3
    <3> QED
      BY <3>1, <3>2
  <2>2. ASSUME NEW j \in 1 .. Len(s), s[j] = x, x # s[i]
        PROVE  \E k \in 1 .. Len(q) : q[k] = x
    <3>1. CASE j < i
      BY <2>2, <3>1, <1>1, <1>2
    <3>2. CASE ~(j < i)
      <4>1. j - 1 \in 1 .. Len(q) /\ ~(j - 1 < i) /\ (j - 1) + 1 = j
        BY <2>2, <3>2, <1>1, <1>2
      <4> QED
        BY <4>1, <2>2, <1>1
    <3> QED
      BY <3>1, <3>2
  <2> QED
    BY <2>1, <2>2
<1>6. IsInjective(q)
  BY <1>1, <1>4, QueueMembers
<1>7. \A x : x \in Range(q) <=> x \in Range(s) /\ x # s[i]
  <2>1. \A x : x \in Range(q) <=> \E j \in 1 .. Len(q) : q[j] = x
    BY <1>1, QueueMembers
  <2>2. \A x : x \in Range(s) <=> \E j \in 1 .. Len(s) : s[j] = x
    BY QueueMembers
  <2> QED
    BY <1>5, <2>1, <2>2
<1> QED
  BY <1>1, <1>6, <1>7 DEF q

(* list_del of a queued task.                                              *)
LEMMA RemoveFirstQueue ==
  ASSUME NEW S, NEW s \in Seq(S), NEW e, IsInjective(s), e \in Range(s)
  PROVE  /\ RemoveFirst(s, e) \in Seq(S)
         /\ IsInjective(RemoveFirst(s, e))
         /\ \A x : x \in Range(RemoveFirst(s, e)) <=> x \in Range(s) /\ x # e
<1>1. PICK i \in 1 .. Len(s) : s[i] = e /\ RemoveFirst(s, e) = RemoveAt(s, i)
  <2>1. \E i \in 1 .. Len(s) : s[i] = e
    BY QueueMembers
  <2> QED
    BY <2>1, RemoveFirstIsRemoveAt
<1> QED
  BY <1>1, RemoveAtQueue

(* list_del of the first task.                                             *)
LEMMA TailQueue ==
  ASSUME NEW S, NEW s \in Seq(S), IsInjective(s), s # <<>>
  PROVE  /\ Head(s) \in S /\ Head(s) \in Range(s)
         /\ Tail(s) \in Seq(S)
         /\ IsInjective(Tail(s))
         /\ \A x : x \in Range(Tail(s)) <=> x \in Range(s) /\ x # Head(s)
<1>1. /\ Tail(s) \in Seq(S) /\ Len(Tail(s)) = Len(s) - 1
      /\ \A i \in 1 .. Len(Tail(s)) : Tail(s)[i] = s[i + 1]
  BY HeadTailProperties
<1>2. Len(s) \in Nat /\ 1 \in 1 .. Len(s) /\ Head(s) = s[1]
  OBVIOUS
<1>3. /\ RemoveAt(s, 1) \in Seq(S) /\ Len(RemoveAt(s, 1)) = Len(s) - 1
      /\ \A j \in 1 .. (Len(s) - 1) : RemoveAt(s, 1)[j] = s[j + 1]
  BY <1>2, RemoveAtProperties
<1>4. Tail(s) = RemoveAt(s, 1)
  BY <1>1, <1>3, SeqEqual
<1>5. Head(s) \in Range(s)
  BY <1>2, QueueMembers
<1>6. /\ IsInjective(RemoveAt(s, 1))
      /\ \A x : x \in Range(RemoveAt(s, 1)) <=> x \in Range(s) /\ x # s[1]
  BY <1>2, RemoveAtQueue
<1>7. Head(s) \in S
  BY HeadTailProperties
<1> QED
  BY <1>1, <1>2, <1>4, <1>5, <1>6, <1>7, Zenon

-----------------------------------------------------------------------------

(* waiter.up is set only while its owner is still in __down_common.        *)
UpWhileWaiting == \A t \in Tasks : up[t] => pc[t] = "sched"

Inv ==
  /\ TypeOK
  /\ PermitsConserved
  /\ NoFreePermitWhileWaiting
  /\ QueueIsLive
  /\ UpWhileWaiting
  /\ GrantedIsAwake

-----------------------------------------------------------------------------
(* The number of owners is a natural number and follows their set.         *)
LEMMA OwnersFinite == IsFiniteSet(Owners) /\ Cardinality(Owners) \in Nat
<1>1. Owners \subseteq Tasks
  BY DEF Owners
<1>2. IsFiniteSet(Tasks)
  BY SemaphoreAssumption
<1> QED
  BY <1>1, <1>2, FS_Subset, FS_CardinalityType

(* A step that grants and releases nothing leaves the number of owners.    *)
LEMMA OwnersUnchanged ==
  ASSUME \A u \in Tasks : Granted(u)' <=> Granted(u)
  PROVE  Cardinality(Owners)' = Cardinality(Owners)
<1>1. Owners' = Owners
  BY DEF Owners
<1> QED
  BY <1>1

(* A grant makes one owner more.                                           *)
LEMMA OwnersGrow ==
  ASSUME NEW t \in Tasks, ~Granted(t), Granted(t)',
         \A u \in Tasks \ {t} : Granted(u)' <=> Granted(u)
  PROVE  Cardinality(Owners)' = Cardinality(Owners) + 1
<1>1. Owners' = Owners \cup {t} /\ t \notin Owners
  BY DEF Owners
<1> QED
  BY <1>1, OwnersFinite, FS_AddElement

(* A release makes one owner less.                                         *)
LEMMA OwnersShrink ==
  ASSUME NEW t \in Tasks, Granted(t), ~Granted(t)',
         \A u \in Tasks \ {t} : Granted(u)' <=> Granted(u)
  PROVE  Cardinality(Owners)' = Cardinality(Owners) - 1
<1>1. Owners' = Owners \ {t} /\ t \in Owners
  BY DEF Owners
<1> QED
  BY <1>1, OwnersFinite, FS_RemoveElement

(* The permit goes from t to h.                                            *)
LEMMA OwnersHandOver ==
  ASSUME NEW t \in Tasks, NEW h \in Tasks, t # h,
         Granted(t), ~Granted(t)', ~Granted(h), Granted(h)',
         \A u \in Tasks \ {t, h} : Granted(u)' <=> Granted(u)
  PROVE  Cardinality(Owners)' = Cardinality(Owners)
<1> DEFINE mid == Owners \ {t}
<1>1. Owners' = mid \cup {h} /\ t \in Owners /\ h \notin mid
  BY DEF Owners
<1>2. IsFiniteSet(mid) /\ Cardinality(mid) = Cardinality(Owners) - 1
  BY <1>1, OwnersFinite, FS_RemoveElement
<1> HIDE DEF mid
<1>3. Cardinality(mid \cup {h}) = Cardinality(mid) + 1
  BY <1>1, <1>2, FS_AddElement
<1> QED
  BY <1>1, <1>2, <1>3, OwnersFinite

-----------------------------------------------------------------------------
(* sema_init: all permits are free and nobody waits.                       *)
LEMMA InvInit == Init => Inv
<1> SUFFICES ASSUME Init PROVE Inv
  OBVIOUS
<1>1. TypeOK
  BY SemaphoreAssumption
     DEF Init, TypeOK, Pcs, Timeouts, SleepState, TaskState, Signal, TASK_RUNNING,
         TASK_UNINTERRUPTIBLE
<1>2. PermitsConserved
  <2>1. Owners = {}
    BY DEF Init, Owners, Granted
  <2> QED
    BY <2>1, FS_EmptySet, SemaphoreAssumption DEF Init, PermitsConserved
<1>3. QueueIsLive
  <2>1. wait_list = <<>> /\ wait_list \in Seq(Tasks) /\ Len(wait_list) = 0
    BY DEF Init
  <2>2. IsInjective(wait_list) /\ \A x : x \notin Range(wait_list)
    <3>1. 1 .. Len(wait_list) = {}
      BY <2>1
    <3> QED
      BY <2>1, <3>1, QueueMembers, Zenon
  <2> QED
    BY <2>2 DEF Init, QueueIsLive
<1>4. NoFreePermitWhileWaiting /\ UpWhileWaiting /\ GrantedIsAwake
  BY DEF Init, NoFreePermitWhileWaiting, UpWhileWaiting, GrantedIsAwake
<1> QED
  BY <1>1, <1>2, <1>3, <1>4 DEF Inv

(* A queue with a member is not empty.                                     *)
LEMMA MemberQueued ==
  ASSUME wait_list \in Seq(Tasks), NEW t \in Range(wait_list)
  PROVE  wait_list # <<>>
<1>1. \E i \in 1 .. Len(wait_list) : wait_list[i] = t
  BY QueueMembers
<1> QED
  BY <1>1

(* The invariant does not see the sleep state, the signals or the timers,  *)
(* as long as a granted task is not put to sleep.                          *)
LEMMA EnvironmentStep ==
  ASSUME Inv, NEW t \in Tasks, TypeOK',
         UNCHANGED <<count, wait_list, pc, up, extra>>,
         state' = state \/ state' = [state EXCEPT ![t] = TASK_RUNNING]
  PROVE  Inv'
<1>1. PermitsConserved'
  <2>1. \A u \in Tasks : Granted(u)' <=> Granted(u)
    BY DEF Granted
  <2> QED
    BY <2>1, OwnersUnchanged DEF Inv, PermitsConserved
<1>2. NoFreePermitWhileWaiting' /\ QueueIsLive' /\ UpWhileWaiting'
  BY DEF Inv, NoFreePermitWhileWaiting, QueueIsLive, UpWhileWaiting
<1>3. GrantedIsAwake'
  BY DEF Inv, GrantedIsAwake, TypeOK
<1> QED
  BY <1>1, <1>2, <1>3 DEF Inv

(* One round of the loop of __down_common: the caller, which owns no       *)
(* permit, ends up off the queue or asleep on it.                          *)
LEMMA RoundStep ==
  ASSUME Inv, NEW t \in Tasks, ~Granted(t), ~up[t], count = 0,
         NEW st \in SleepState, NEW tmo \in Timeouts,
         NEW q \in Seq(Tasks), IsInjective(q),
         \A x : x \in Range(q) <=> x \in Range(wait_list) \/ x = t,
         down_round(t, q, st, tmo), UNCHANGED <<count, extra, sig>>
  PROVE  Inv'
<1> USE DEF Goto, forget, TASK_RUNNING, TASK_UNINTERRUPTIBLE, TASK_INTERRUPTIBLE, TASK_KILLABLE
<1>0. /\ TypeOK /\ PermitsConserved /\ NoFreePermitWhileWaiting
      /\ QueueIsLive /\ UpWhileWaiting /\ GrantedIsAwake
  BY DEF Inv
<1>1. /\ RemoveFirst(q, t) \in Seq(Tasks) /\ IsInjective(RemoveFirst(q, t))
      /\ \A x : x \in Range(RemoveFirst(q, t)) <=> x \in Range(q) /\ x # t
  BY RemoveFirstQueue
<1>2. TypeOK'
  BY <1>0, <1>1, ZenonT(60) DEF down_round, TypeOK, Pcs, Timeouts, SleepState, TaskState
<1>3. PICK l \in {"idle", "sched"} :
        /\ pc' = [pc EXCEPT ![t] = l]
        /\ up' = [up EXCEPT ![t] = FALSE]
        /\ wait_list' = IF l = "idle" THEN RemoveFirst(q, t) ELSE q
        /\ \A u \in Tasks \ {t} : state'[u] = state[u]
  <2>1. up = [up EXCEPT ![t] = FALSE]
    BY <1>0 DEF TypeOK
  <2> QED
    BY <1>0, <2>1 DEF down_round, TypeOK
<1>4. PermitsConserved'
  <2>1. \A u \in Tasks : Granted(u)' <=> Granted(u)
    BY <1>0, <1>3 DEF TypeOK, Granted
  <2> QED
    BY <1>0, <2>1, OwnersUnchanged DEF PermitsConserved
<1>5. NoFreePermitWhileWaiting'
  BY DEF NoFreePermitWhileWaiting
<1>6. QueueIsLive'
  <2>1. IsInjective(wait_list')
    BY <1>1, <1>3
  <2>2. \A u \in Tasks : u \in Range(wait_list') <=> (pc'[u] = "sched" /\ ~up'[u])
    BY <1>0, <1>1, <1>3 DEF TypeOK, QueueIsLive
  <2> QED
    BY <2>1, <2>2 DEF QueueIsLive
<1>7. UpWhileWaiting' /\ GrantedIsAwake'
  BY <1>0, <1>3 DEF TypeOK, UpWhileWaiting, GrantedIsAwake
<1> QED
  BY <1>2, <1>4, <1>5, <1>6, <1>7 DEF Inv

(* down(), down_interruptible(), down_killable() and down_timeout().       *)
LEMMA DownStep ==
  ASSUME Inv, NEW t \in Tasks, NEW st \in SleepState, NEW tmo \in Timeouts,
         down(t, st, tmo)
  PROVE  Inv'
<1>0. /\ TypeOK /\ PermitsConserved /\ NoFreePermitWhileWaiting
      /\ QueueIsLive /\ UpWhileWaiting /\ GrantedIsAwake
  BY DEF Inv
<1>1. pc[t] = "idle" /\ ~up[t] /\ ~Granted(t) /\ t \notin Range(wait_list)
  BY <1>0 DEF down, UpWhileWaiting, Granted, QueueIsLive
<1>2. CASE count > 0
  <2>1. /\ count' = count - 1 /\ pc' = [pc EXCEPT ![t] = "holds"]
        /\ UNCHANGED <<wait_list, mode, timeout, up, state, extra, sig>>
    BY <1>0, <1>2 DEF down, Goto, TypeOK
  <2>2. TypeOK'
    BY <1>0, <1>2, <2>1 DEF TypeOK, Pcs
  <2>3. PermitsConserved'
    <3>1. Granted(t)' /\ \A u \in Tasks \ {t} : Granted(u)' <=> Granted(u)
      BY <1>0, <2>1 DEF TypeOK, Granted
    <3>2. Cardinality(Owners)' = Cardinality(Owners) + 1
      BY <1>1, <3>1, OwnersGrow
    <3> QED
      BY <1>0, <2>1, <3>2, OwnersFinite, SemaphoreAssumption DEF PermitsConserved, TypeOK
  <2>4. NoFreePermitWhileWaiting'
    BY <1>0, <1>2, <2>1 DEF TypeOK, NoFreePermitWhileWaiting
  <2>5. QueueIsLive' /\ UpWhileWaiting' /\ GrantedIsAwake'
    BY <1>0, <1>1, <2>1 DEF TypeOK, QueueIsLive, UpWhileWaiting, GrantedIsAwake
  <2> QED
    BY <2>2, <2>3, <2>4, <2>5 DEF Inv
<1>3. CASE ~(count > 0)
  <2> DEFINE q == Append(wait_list, t)
  <2>1. /\ q \in Seq(Tasks) /\ IsInjective(q)
        /\ \A x : x \in Range(q) <=> x \in Range(wait_list) \/ x = t
    BY <1>0, <1>1, AppendQueue DEF TypeOK, QueueIsLive
  <2>2. down_round(t, q, st, tmo) /\ count = 0 /\ UNCHANGED <<count, extra, sig>>
    BY <1>0, <1>3 DEF down, TypeOK
  <2> HIDE DEF q
  <2> QED
    BY <1>1, <2>1, <2>2, RoundStep
<1> QED
  BY <1>2, <1>3

(* The return from schedule_timeout().                                     *)
LEMMA WakeStep ==
  ASSUME Inv, NEW t \in Tasks, down_wakes(t)
  PROVE  Inv'
<1>0. /\ TypeOK /\ PermitsConserved /\ NoFreePermitWhileWaiting
      /\ QueueIsLive /\ UpWhileWaiting /\ GrantedIsAwake
  BY DEF Inv
<1>1. pc[t] = "sched" /\ UNCHANGED <<count, extra, sig>>
  BY DEF down_wakes
<1>2. CASE up[t]
  <2>1. /\ pc' = [pc EXCEPT ![t] = "holds"] /\ up' = [up EXCEPT ![t] = FALSE]
        /\ mode' = [mode EXCEPT ![t] = TASK_UNINTERRUPTIBLE]
        /\ timeout' = [timeout EXCEPT ![t] = "max"]
        /\ state' = [state EXCEPT ![t] = TASK_RUNNING] /\ wait_list' = wait_list
    BY <1>2 DEF down_wakes, forget, Goto
  <2>2. TypeOK'
    BY <1>0, <1>1, <2>1 DEF TypeOK, Pcs, Timeouts, SleepState, TaskState
  <2>3. PermitsConserved'
    <3>1. \A u \in Tasks : Granted(u)' <=> Granted(u)
      BY <1>0, <1>1, <1>2, <2>1 DEF TypeOK, Granted
    <3> QED
      BY <1>0, <1>1, <3>1, OwnersUnchanged DEF PermitsConserved
  <2>4. /\ NoFreePermitWhileWaiting' /\ QueueIsLive'
        /\ UpWhileWaiting' /\ GrantedIsAwake'
    BY <1>0, <1>1, <1>2, <2>1
       DEF TypeOK, NoFreePermitWhileWaiting, QueueIsLive, UpWhileWaiting, GrantedIsAwake
  <2> QED
    BY <2>2, <2>3, <2>4 DEF Inv
<1>3. CASE ~up[t]
  <2>1. t \in Range(wait_list) /\ ~Granted(t)
    BY <1>0, <1>1, <1>3 DEF QueueIsLive, Granted
  <2>2. count = 0
    BY <1>0, <2>1, MemberQueued DEF TypeOK, NoFreePermitWhileWaiting
  <2>3. down_round(t, wait_list, mode[t], timeout[t])
    BY <1>3 DEF down_wakes
  <2>4. /\ mode[t] \in SleepState /\ timeout[t] \in Timeouts /\ wait_list \in Seq(Tasks)
        /\ IsInjective(wait_list)
    BY <1>0 DEF TypeOK, QueueIsLive
  <2> QED
    BY <1>1, <1>3, <2>1, <2>2, <2>3, <2>4, RoundStep
<1> QED
  BY <1>2, <1>3

(* Handing the permit of up() to the head of the queue.                    *)
LEMMA HandOver ==
  ASSUME Inv, hand_over
  PROVE  /\ Head(wait_list) \in Tasks
         /\ pc[Head(wait_list)] = "sched" /\ ~up[Head(wait_list)]
         /\ wait_list' \in Seq(Tasks) /\ IsInjective(wait_list')
         /\ \A x : x \in Range(wait_list') <=> x \in Range(wait_list) /\ x # Head(wait_list)
         /\ up' = [up EXCEPT ![Head(wait_list)] = TRUE]
         /\ state' = [state EXCEPT ![Head(wait_list)] = TASK_RUNNING]
         /\ count = 0 /\ count' = count
<1> DEFINE h == Head(wait_list)
<1>1. wait_list # <<>> /\ wait_list \in Seq(Tasks) /\ IsInjective(wait_list)
  BY DEF hand_over, Inv, TypeOK, QueueIsLive
<1>2. /\ h \in Tasks /\ h \in Range(wait_list)
      /\ Tail(wait_list) \in Seq(Tasks) /\ IsInjective(Tail(wait_list))
      /\ \A x : x \in Range(Tail(wait_list)) <=> x \in Range(wait_list) /\ x # h
  BY <1>1, TailQueue
<1>3. /\ wait_list' = Tail(wait_list) /\ count' = count
      /\ up' = [up EXCEPT ![h] = TRUE] /\ state' = wake_up_process(state, h)
  BY DEF hand_over
<1> HIDE DEF h
<1>4. pc[h] = "sched" /\ ~up[h]
  BY <1>2 DEF Inv, QueueIsLive
<1>5. state' = [state EXCEPT ![h] = TASK_RUNNING]
  <2>1. state \in [Tasks -> TaskState]
    BY DEF Inv, TypeOK
  <2> QED
    BY <1>2, <1>3, <2>1
       DEF wake_up_process, try_to_wake_up, TaskState, SleepState, TASK_RUNNING,
           TASK_INTERRUPTIBLE, TASK_KILLABLE, TASK_UNINTERRUPTIBLE
<1>6. count = 0
  BY <1>1 DEF Inv, NoFreePermitWhileWaiting
<1> QED
  BY <1>2, <1>3, <1>4, <1>5, <1>6 DEF h

(* up() by a task that holds a permit.                                     *)
LEMMA UpByHolderStep ==
  ASSUME Inv, NEW t \in Tasks, up_by_holder(t)
  PROVE  Inv'
<1>0. /\ TypeOK /\ PermitsConserved /\ NoFreePermitWhileWaiting
      /\ QueueIsLive /\ UpWhileWaiting /\ GrantedIsAwake
  BY DEF Inv
<1>1. /\ pc[t] = "holds" /\ pc' = [pc EXCEPT ![t] = "idle"]
      /\ UNCHANGED <<mode, timeout, extra, sig>>
  BY DEF up_by_holder, Goto
<1>2. Granted(t) /\ ~up[t]
  BY <1>0, <1>1 DEF Granted, UpWhileWaiting
<1>3. CASE wait_list = <<>>
  <2>1. count' = count + 1 /\ UNCHANGED <<wait_list, up, state>>
    BY <1>3 DEF up_by_holder, release, hand_over
  <2>2. TypeOK'
    BY <1>0, <1>1, <2>1 DEF TypeOK, Pcs
  <2>3. PermitsConserved'
    <3>1. ~Granted(t)' /\ \A u \in Tasks \ {t} : Granted(u)' <=> Granted(u)
      BY <1>0, <1>1, <2>1 DEF TypeOK, Granted
    <3>2. Cardinality(Owners)' = Cardinality(Owners) - 1
      BY <1>2, <3>1, OwnersShrink
    <3> QED
      BY <1>0, <1>1, <2>1, <3>2, OwnersFinite, SemaphoreAssumption
         DEF PermitsConserved, TypeOK
  <2>4. /\ NoFreePermitWhileWaiting' /\ QueueIsLive'
        /\ UpWhileWaiting' /\ GrantedIsAwake'
    BY <1>0, <1>1, <1>2, <1>3, <2>1
       DEF TypeOK, NoFreePermitWhileWaiting, QueueIsLive, UpWhileWaiting, GrantedIsAwake
  <2> QED
    BY <2>2, <2>3, <2>4 DEF Inv
<1>4. CASE hand_over
  <2>1. PICK h \in Tasks :
          /\ pc[h] = "sched" /\ ~up[h]
          /\ wait_list' \in Seq(Tasks) /\ IsInjective(wait_list')
          /\ \A x : x \in Range(wait_list') <=> x \in Range(wait_list) /\ x # h
          /\ up' = [up EXCEPT ![h] = TRUE]
          /\ state' = [state EXCEPT ![h] = TASK_RUNNING]
          /\ count = 0 /\ count' = count
    BY <1>4, HandOver
  <2>2. h # t
    BY <1>1, <2>1
  <2>3. TypeOK'
    BY <1>0, <1>1, <2>1 DEF TypeOK, Pcs, TaskState
  <2>4. PermitsConserved'
    <3>1. /\ ~Granted(t)' /\ ~Granted(h) /\ Granted(h)'
          /\ \A u \in Tasks \ {t, h} : Granted(u)' <=> Granted(u)
      BY <1>0, <1>1, <2>1, <2>2 DEF TypeOK, Granted
    <3>2. Cardinality(Owners)' = Cardinality(Owners)
      BY <1>2, <2>1, <2>2, <3>1, OwnersHandOver
    <3> QED
      BY <1>0, <1>1, <2>1, <3>2 DEF PermitsConserved
  <2>5. NoFreePermitWhileWaiting'
    BY <2>1 DEF NoFreePermitWhileWaiting
  <2>6. QueueIsLive'
    <3>1. \A u \in Tasks : u \in Range(wait_list') <=> (pc'[u] = "sched" /\ ~up'[u])
      BY <1>0, <1>1, <2>1, <2>2 DEF TypeOK, QueueIsLive
    <3> QED
      BY <2>1, <3>1 DEF QueueIsLive
  <2>7. UpWhileWaiting' /\ GrantedIsAwake'
    BY <1>0, <1>1, <1>2, <2>1, <2>2 DEF TypeOK, UpWhileWaiting, GrantedIsAwake
  <2> QED
    BY <2>3, <2>4, <2>5, <2>6, <2>7 DEF Inv
<1> QED
  BY <1>3, <1>4 DEF up_by_holder, release

(* up() by a context that holds none: one permit more.                     *)
LEMMA UpByOtherStep ==
  ASSUME Inv, up_by_other
  PROVE  Inv'
<1>0. /\ TypeOK /\ PermitsConserved /\ NoFreePermitWhileWaiting
      /\ QueueIsLive /\ UpWhileWaiting /\ GrantedIsAwake
  BY DEF Inv
<1>1. extra' = extra + 1 /\ UNCHANGED <<pc, mode, timeout, sig>>
  BY DEF up_by_other
<1>2. CASE wait_list = <<>>
  <2>1. count' = count + 1 /\ UNCHANGED <<wait_list, up, state>>
    BY <1>2 DEF up_by_other, release, hand_over
  <2>2. TypeOK'
    BY <1>0, <1>1, <2>1 DEF TypeOK
  <2>3. PermitsConserved'
    <3>1. \A u \in Tasks : Granted(u)' <=> Granted(u)
      BY <1>1, <2>1 DEF Granted
    <3> QED
      BY <1>0, <1>1, <2>1, <3>1, OwnersUnchanged, OwnersFinite, SemaphoreAssumption
         DEF PermitsConserved, TypeOK
  <2>4. /\ NoFreePermitWhileWaiting' /\ QueueIsLive'
        /\ UpWhileWaiting' /\ GrantedIsAwake'
    BY <1>0, <1>1, <1>2, <2>1
       DEF NoFreePermitWhileWaiting, QueueIsLive, UpWhileWaiting, GrantedIsAwake
  <2> QED
    BY <2>2, <2>3, <2>4 DEF Inv
<1>3. CASE hand_over
  <2>1. PICK h \in Tasks :
          /\ pc[h] = "sched" /\ ~up[h]
          /\ wait_list' \in Seq(Tasks) /\ IsInjective(wait_list')
          /\ \A x : x \in Range(wait_list') <=> x \in Range(wait_list) /\ x # h
          /\ up' = [up EXCEPT ![h] = TRUE]
          /\ state' = [state EXCEPT ![h] = TASK_RUNNING]
          /\ count = 0 /\ count' = count
    BY <1>3, HandOver
  <2>2. TypeOK'
    BY <1>0, <1>1, <2>1 DEF TypeOK, TaskState
  <2>3. PermitsConserved'
    <3>1. /\ ~Granted(h) /\ Granted(h)'
          /\ \A u \in Tasks \ {h} : Granted(u)' <=> Granted(u)
      BY <1>0, <1>1, <2>1 DEF TypeOK, Granted
    <3>2. Cardinality(Owners)' = Cardinality(Owners) + 1
      BY <2>1, <3>1, OwnersGrow
    <3> QED
      BY <1>0, <1>1, <2>1, <3>2, OwnersFinite, SemaphoreAssumption
         DEF PermitsConserved, TypeOK
  <2>4. NoFreePermitWhileWaiting'
    BY <2>1 DEF NoFreePermitWhileWaiting
  <2>5. QueueIsLive'
    <3>1. \A u \in Tasks : u \in Range(wait_list') <=> (pc'[u] = "sched" /\ ~up'[u])
      BY <1>0, <1>1, <2>1 DEF TypeOK, QueueIsLive
    <3> QED
      BY <2>1, <3>1 DEF QueueIsLive
  <2>6. UpWhileWaiting' /\ GrantedIsAwake'
    BY <1>0, <1>1, <2>1 DEF TypeOK, UpWhileWaiting, GrantedIsAwake
  <2> QED
    BY <2>2, <2>3, <2>4, <2>5, <2>6 DEF Inv
<1> QED
  BY <1>2, <1>3 DEF up_by_other, release

(* down_trylock(), by a task and in an interrupt.                          *)
LEMMA TrylockStep ==
  ASSUME Inv, NEW t \in Tasks, down_trylock(t)
  PROVE  Inv'
<1>1. count > 0
  BY DEF Inv, TypeOK, down_trylock
<1>2. down(t, TASK_UNINTERRUPTIBLE, "max")
  BY <1>1 DEF down_trylock, down
<1> QED
  BY <1>2, DownStep DEF SleepState, Timeouts

(* down_trylock from an interrupt takes a free permit only.                *)
LEMMA IrqTrylockStep ==
  ASSUME Inv, trylock_in_irq
  PROVE  Inv'
<1>0. /\ TypeOK /\ PermitsConserved /\ NoFreePermitWhileWaiting
      /\ QueueIsLive /\ UpWhileWaiting /\ GrantedIsAwake
  BY DEF Inv
<1>1. /\ count - 1 >= 0 /\ count' = count - 1 /\ extra' = extra - 1
      /\ UNCHANGED <<wait_list, pc, mode, timeout, up, state, sig>>
  BY DEF trylock_in_irq
<1>2. TypeOK'
  BY <1>0, <1>1 DEF TypeOK
<1>3. PermitsConserved'
  <2>1. \A u \in Tasks : Granted(u)' <=> Granted(u)
    BY <1>1 DEF Granted
  <2> QED
    BY <1>0, <1>1, <2>1, OwnersUnchanged, OwnersFinite, SemaphoreAssumption
       DEF PermitsConserved, TypeOK
<1>4. /\ NoFreePermitWhileWaiting' /\ QueueIsLive'
      /\ UpWhileWaiting' /\ GrantedIsAwake'
  BY <1>0, <1>1
     DEF TypeOK, NoFreePermitWhileWaiting, QueueIsLive, UpWhileWaiting, GrantedIsAwake
<1> QED
  BY <1>2, <1>3, <1>4 DEF Inv

(* The inductive step, one case per action.                                *)
LEMMA InvNext == Inv /\ [Next]_vars => Inv'
<1> SUFFICES ASSUME Inv, [Next]_vars PROVE Inv'
  OBVIOUS
<1>0. TypeOK
  BY DEF Inv
<1>1. ASSUME NEW t \in Tasks, Call(t) PROVE Inv'
  <2>1. ASSUME NEW st \in DownModes, down(t, st, "max") PROVE Inv'
    BY <2>1, DownStep, SemaphoreAssumption DEF Timeouts
  <2>2. ASSUME NEW tmo \in {"armed", "expired"}, down(t, TASK_UNINTERRUPTIBLE, tmo)
        PROVE  Inv'
    BY <2>2, DownStep DEF Timeouts, SleepState
  <2> QED
    BY <1>1, <2>1, <2>2, TrylockStep, UpByHolderStep DEF Call
<1>2. ASSUME NEW t \in Tasks, down_wakes(t) PROVE Inv'
  BY <1>2, WakeStep
<1>3. ASSUME NEW t \in Tasks, Environment(t) PROVE Inv'
  <2> USE DEF SleepState, TaskState, TASK_RUNNING, TASK_INTERRUPTIBLE,
              TASK_KILLABLE, TASK_UNINTERRUPTIBLE
  <2>1. TypeOK'
    <3>1. CASE TimerExpires(t)
      BY <1>0, <3>1 DEF TimerExpires, wake_up_process, try_to_wake_up, TypeOK, Timeouts
    <3>2. CASE \E sg \in Signals : SendSignal(t, sg)
      BY <1>0, <3>2, SemaphoreAssumption
         DEF SendSignal, signal_wake_up, try_to_wake_up, TypeOK, Signal
    <3>3. CASE HandleSignal(t)
      BY <1>0, <3>3 DEF HandleSignal, TypeOK, Signal
    <3>4. CASE SpuriousWakeup(t)
      BY <1>0, <3>4 DEF SpuriousWakeup, wake_up_process, try_to_wake_up, TypeOK
    <3> QED
      BY <1>3, <3>1, <3>2, <3>3, <3>4 DEF Environment
  <2>2. /\ UNCHANGED <<count, wait_list, pc, up, extra>>
        /\ state' = state \/ state' = [state EXCEPT ![t] = TASK_RUNNING]
    BY <1>3 DEF Environment, TimerExpires, SendSignal, HandleSignal, SpuriousWakeup,
                wake_up_process, signal_wake_up, try_to_wake_up
  <2> QED
    BY <2>1, <2>2, EnvironmentStep
<1>4. CASE UNCHANGED vars
  <2>1. \A u \in Tasks : Granted(u)' <=> Granted(u)
    BY <1>4 DEF vars, Granted
  <2>2. PermitsConserved'
    BY <1>4, <2>1, OwnersUnchanged DEF vars, Inv, PermitsConserved
  <2> QED
    BY <1>4, <2>2 DEF vars, Inv, TypeOK, NoFreePermitWhileWaiting, QueueIsLive,
                      UpWhileWaiting, GrantedIsAwake
<1> QED
  BY <1>1, <1>2, <1>3, <1>4, UpByOtherStep, IrqTrylockStep DEF Next

-----------------------------------------------------------------------------
(* Inv holds in every reachable state.                                     *)
THEOREM Invariance == Spec => []Inv
<1>1. Init => Inv
  BY InvInit
<1>2. Inv /\ [Next]_vars => Inv'
  BY InvNext
<1> QED
  BY <1>1, <1>2, PTL DEF Spec

(* TypeOK: in particular the unsigned count never goes below zero.         *)
THEOREM TypeCorrect == Spec => []TypeOK
<1>1. Inv => TypeOK
  BY DEF Inv
<1> QED
  BY <1>1, Invariance, PTL

(* No race of up() with a signal or a timeout loses or duplicates a permit.*)
THEOREM SemaphoreConserves == Spec => []PermitsConserved
<1>1. Inv => PermitsConserved
  BY DEF Inv
<1> QED
  BY <1>1, Invariance, PTL

(* The queue holds exactly the callers still waiting in __down_common.     *)
THEOREM SemaphoreQueue == Spec => []QueueIsLive
<1>1. Inv => QueueIsLive
  BY DEF Inv
<1> QED
  BY <1>1, Invariance, PTL

(* Nobody waits in __down_common while a permit is free.                   *)
THEOREM SemaphoreNotIdle == Spec => []NoFreePermitWhileWaiting
<1>1. Inv => NoFreePermitWhileWaiting
  BY DEF Inv
<1> QED
  BY <1>1, Invariance, PTL

(* A task that was handed a permit is never asleep.                        *)
THEOREM SemaphoreWakes == Spec => []GrantedIsAwake
<1>1. Inv => GrantedIsAwake
  BY DEF Inv
<1> QED
  BY <1>1, Invariance, PTL

(* With somebody queued no step grants a permit to anyone but the head.    *)
LEMMA OrderStep ==
  ASSUME Inv, Next, NEW t \in Tasks, ~Granted(t), Granted(t)', wait_list # <<>>
  PROVE  t = Head(wait_list)
<1> USE DEF Granted, Goto
<1>0. TypeOK /\ count = 0 /\ ~(count > 0) /\ ~(count - 1 >= 0)
  BY DEF Inv, TypeOK, NoFreePermitWhileWaiting
<1>1. ASSUME NEW u \in Tasks, NEW st, NEW tmo, NEW q, down_round(u, q, st, tmo)
      PROVE  FALSE
  <2>1. \A v \in Tasks : v # u => pc'[v] = pc[v] /\ up'[v] = up[v]
    BY <1>0, <1>1 DEF down_round, forget, TypeOK
  <2>2. pc'[u] = "idle" \/ (pc'[u] = "sched" /\ up' = up)
    BY <1>0, <1>1 DEF down_round, TypeOK
  <2>3. ~up[u] \/ pc[u] = "sched"
    BY DEF Inv, UpWhileWaiting
  <2> QED
    BY <2>1, <2>2, <2>3
<1>2. ASSUME NEW u \in Tasks, NEW st, NEW tmo, down(u, st, tmo) PROVE FALSE
  BY <1>0, <1>1, <1>2 DEF down
<1>3. ASSUME NEW u \in Tasks, down_wakes(u) PROVE FALSE
  <2>1. CASE up[u] /\ Goto(u, "holds") /\ forget(u)
    BY <1>0, <1>3, <2>1 DEF down_wakes, forget, TypeOK
  <2>2. CASE down_round(u, wait_list, mode[u], timeout[u])
    BY <1>1, <2>2
  <2> QED
    BY <1>3, <2>1, <2>2 DEF down_wakes
<1>4. ASSUME NEW u \in Tasks, up_by_holder(u) PROVE t = Head(wait_list)
  BY <1>0, <1>4 DEF up_by_holder, release, hand_over, TypeOK
<1>5. ASSUME up_by_other PROVE t = Head(wait_list)
  BY <1>0, <1>5 DEF up_by_other, release, hand_over, TypeOK
<1>6. ASSUME NEW u \in Tasks, Environment(u) PROVE FALSE
  BY <1>6 DEF Environment, TimerExpires, SendSignal, HandleSignal, SpuriousWakeup
<1>7. ASSUME NEW u \in Tasks, down_trylock(u) PROVE FALSE
  BY <1>0, <1>7 DEF down_trylock
<1>8. ~trylock_in_irq
  BY <1>0 DEF trylock_in_irq
<1> QED
  BY <1>2, <1>3, <1>4, <1>5, <1>6, <1>7, <1>8 DEF Next, Call

(* First come, first served: permits reach the queued callers in the order *)
(* in which they queued, and no caller overtakes them.                     *)
THEOREM SemaphoreFifo == Spec => ServedInOrder
<1> DEFINE A == \A t \in Tasks : ~Granted(t) /\ Granted(t)' =>
                   (wait_list = <<>> \/ t = Head(wait_list))
<1>1. Inv /\ [Next]_vars => [A]_vars
  BY OrderStep
<1> QED
  BY <1>1, Invariance, PTL DEF Spec, ServedInOrder

=============================================================================
