---------------------------- MODULE MutexProofs ----------------------------
(***************************************************************************)
(* Proofs about kernel/mutex.c for any set of tasks and any fast path.     *)
(*                                                                         *)
(* Mutual exclusion is not inductive: a trylock that found the mutex       *)
(* locked writes count too, and the unlocker writes it twice.  Inv adds    *)
(* who may be doing so: the spinlock's holder, the value a trylock on its  *)
(* slow path puts back, and where the owner is in the meantime.  CoverInv, *)
(* further down, adds what the absence of lost wake-ups rests on.          *)
(***************************************************************************)
EXTENDS Mutex, SequenceTheorems, WellFoundedInduction, TLAPS

-----------------------------------------------------------------------------
(* The wait queue: what list_add_tail (Append), list_del of a waiter       *)
(* (RemoveFirst) and of the first one (Tail) do to the set of waiters.     *)

(* A nonempty set of natural numbers has a least element, which Min finds. *)
LEMMA MinIsMember ==
  ASSUME NEW T \in SUBSET Nat, T # {}
  PROVE  Min(T) \in T
<1> DEFINE R == {p \in Nat \X Nat : p[1] < p[2]}
<1>1. IsWellFoundedOn(R, Nat)
  BY NatLessThanWellFounded, Zenon DEF OpToRel
<1>2. PICK x \in T : \A y \in T : ~(<<y, x>> \in R)
  <2> HIDE DEF R
  <2> QED  BY <1>1, WFMin
<1>3. \A y \in T : x <= y
  <2> TAKE y \in T
  <2>1. x \in Nat /\ y \in Nat
    OBVIOUS
  <2>2. y < x => <<y, x>> \in R
    BY <2>1
  <2> QED
    BY <1>2, <2>1, <2>2
<1> QED
  BY <1>3 DEF Min

(* Taking e off a queue where it stands: the result drops one position.    *)
LEMMA RemoveFirstIsRemoveAt ==
  ASSUME NEW S, NEW s \in Seq(S), NEW e, \E i \in 1 .. Len(s) : s[i] = e
  PROVE  \E i \in 1 .. Len(s) : s[i] = e /\ RemoveFirst(s, e) = RemoveAt(s, i)
<1> DEFINE I == {i \in 1 .. Len(s) : s[i] = e}
           k == Min(I)
<1>1. k \in I
  <2>1. I \in SUBSET Nat /\ I # {}
    OBVIOUS
  <2> QED
    BY <2>1, MinIsMember
<1>2. SelectInSeq(s, LAMBDA v : v = e) = k
  BY DEF SelectInSeq
<1> QED
  BY <1>1, <1>2 DEF RemoveFirst

(* The parts of a queue around a removed position.                         *)
LEMMA RemoveAtProperties ==
  ASSUME NEW S, NEW s \in Seq(S), NEW i \in 1 .. Len(s)
  PROVE  /\ RemoveAt(s, i) \in Seq(S)
         /\ Len(RemoveAt(s, i)) = Len(s) - 1
         /\ \A j \in 1 .. (Len(s) - 1) :
              RemoveAt(s, i)[j] = IF j < i THEN s[j] ELSE s[j + 1]
<1> DEFINE a == SubSeq(s, 1, i - 1)
           b == SubSeq(s, i + 1, Len(s))
<1>1. /\ a \in Seq(S) /\ Len(a) = i - 1
      /\ \A j \in 1 .. (i - 1) : a[j] = s[j]
  <2>1. \A j \in 1 .. (i - 1) : s[j] \in S
    OBVIOUS
  <2> QED
    BY <2>1, SubSeqProperties
<1>2. /\ b \in Seq(S) /\ Len(b) = Len(s) - i
      /\ \A j \in 1 .. (Len(s) - i) : b[j] = s[i + j]
  <2>1. \A j \in (i + 1) .. Len(s) : s[j] \in S
    OBVIOUS
  <2> QED
    BY <2>1, SubSeqProperties
<1>3. RemoveAt(s, i) = a \o b
  BY DEF RemoveAt
<1> HIDE DEF a, b
<1>4. /\ a \o b \in Seq(S) /\ Len(a \o b) = Len(a) + Len(b)
      /\ \A j \in 1 .. (Len(a) + Len(b)) :
           (a \o b)[j] = IF j <= Len(a) THEN a[j] ELSE b[j - Len(a)]
  BY <1>1, <1>2, ConcatProperties
<1>5. Len(s) \in Nat
  OBVIOUS
<1>6. Len(a) + Len(b) = Len(s) - 1
  BY <1>1, <1>2, <1>5
<1>7. ASSUME NEW j \in 1 .. (Len(s) - 1)
      PROVE  (a \o b)[j] = IF j < i THEN s[j] ELSE s[j + 1]
  <2>1. CASE j < i
    BY <2>1, <1>1, <1>4, <1>5, <1>6
  <2>2. CASE ~(j < i)
    <3>1. (a \o b)[j] = b[j - Len(a)]
      BY <2>2, <1>1, <1>4, <1>5, <1>6
    <3>2. j - Len(a) \in 1 .. (Len(s) - i) /\ i + (j - Len(a)) = j + 1
      BY <2>2, <1>1, <1>5
    <3> QED
      BY <2>2, <3>1, <3>2, <1>2
  <2> QED
    BY <2>1, <2>2
<1> QED
  BY <1>3, <1>4, <1>6, <1>7

(* list_del of a waiter leaves a queue of the same tasks.                  *)
LEMMA RemoveFirstType ==
  ASSUME NEW S, NEW s \in Seq(S), NEW e
  PROVE  RemoveFirst(s, e) \in Seq(S)
<1>1. CASE \E i \in 1 .. Len(s) : s[i] = e
  <2>1. PICK i \in 1 .. Len(s) : RemoveFirst(s, e) = RemoveAt(s, i)
    BY <1>1, RemoveFirstIsRemoveAt
  <2> QED
    BY <2>1, RemoveAtProperties
<1>2. CASE ~ \E i \in 1 .. Len(s) : s[i] = e
  BY <1>2 DEF RemoveFirst
<1> QED
  BY <1>1, <1>2

(* Membership in a queue and uniqueness of its members, by position.       *)
LEMMA QueueMembers ==
  ASSUME NEW S, NEW s \in Seq(S)
  PROVE  /\ \A e : e \in Range(s) <=> \E i \in 1 .. Len(s) : s[i] = e
         /\ IsInjective(s) <=>
              \A i, j \in 1 .. Len(s) : s[i] = s[j] => i = j
<1>1. DOMAIN s = 1 .. Len(s)
  OBVIOUS
<1>2. \A e : e \in Range(s) <=> \E i \in 1 .. Len(s) : s[i] = e
  BY <1>1, Zenon DEF Range
<1>3. IsInjective(s) <=> \A i, j \in 1 .. Len(s) : s[i] = s[j] => i = j
  BY <1>1, Zenon DEF IsInjective
<1> QED
  BY <1>2, <1>3

(* list_add_tail of a task that is not queued.                             *)
LEMMA AppendQueue ==
  ASSUME NEW S, NEW s \in Seq(S), NEW e \in S, IsInjective(s), e \notin Range(s)
  PROVE  /\ Append(s, e) \in Seq(S)
         /\ IsInjective(Append(s, e))
         /\ \A x : x \in Range(Append(s, e)) <=> x \in Range(s) \/ x = e
<1> DEFINE q == Append(s, e)
<1>1. /\ q \in Seq(S) /\ Len(q) = Len(s) + 1 /\ q[Len(s) + 1] = e
      /\ \A i \in 1 .. Len(s) : q[i] = s[i]
  BY AppendProperties
<1>2. Len(s) \in Nat
  OBVIOUS
<1> HIDE DEF q
<1>3. \A i, j \in 1 .. Len(q) : q[i] = q[j] => i = j
  <2>1. \A i, j \in 1 .. Len(s) : s[i] = s[j] => i = j
    BY QueueMembers
  <2>2. \A i \in 1 .. Len(s) : s[i] # e
    BY QueueMembers
  <2> QED
    BY <1>1, <1>2, <2>1, <2>2
<1>4. \A x : (\E i \in 1 .. Len(q) : q[i] = x)
               <=> (\E i \in 1 .. Len(s) : s[i] = x) \/ x = e
  BY <1>1, <1>2
<1>5. IsInjective(q)
  BY <1>1, <1>3, QueueMembers
<1>6. \A x : x \in Range(q) <=> x \in Range(s) \/ x = e
  <2>1. \A x : x \in Range(q) <=> \E i \in 1 .. Len(q) : q[i] = x
    BY <1>1, QueueMembers
  <2>2. \A x : x \in Range(s) <=> \E i \in 1 .. Len(s) : s[i] = x
    BY QueueMembers
  <2> QED
    BY <1>4, <2>1, <2>2
<1> QED
  BY <1>1, <1>5, <1>6 DEF q

(* A queue without repetitions from which position i is dropped.           *)
LEMMA RemoveAtQueue ==
  ASSUME NEW S, NEW s \in Seq(S), NEW i \in 1 .. Len(s), IsInjective(s)
  PROVE  /\ RemoveAt(s, i) \in Seq(S)
         /\ IsInjective(RemoveAt(s, i))
         /\ \A x : x \in Range(RemoveAt(s, i)) <=> x \in Range(s) /\ x # s[i]
<1> DEFINE q == RemoveAt(s, i)
<1>1. /\ q \in Seq(S) /\ Len(q) = Len(s) - 1
      /\ \A j \in 1 .. (Len(s) - 1) : q[j] = IF j < i THEN s[j] ELSE s[j + 1]
  BY RemoveAtProperties
<1>2. Len(s) \in Nat
  OBVIOUS
<1> HIDE DEF q
<1>3. \A j, k \in 1 .. Len(s) : s[j] = s[k] => j = k
  BY QueueMembers
<1>4. ASSUME NEW j \in 1 .. Len(q), NEW k \in 1 .. Len(q), q[j] = q[k]
      PROVE  j = k
  <2>1. /\ j \in 1 .. Len(s) /\ j + 1 \in 1 .. Len(s)
        /\ k \in 1 .. Len(s) /\ k + 1 \in 1 .. Len(s)
    BY <1>1, <1>2
  <2>2. /\ q[j] = IF j < i THEN s[j] ELSE s[j + 1]
        /\ q[k] = IF k < i THEN s[k] ELSE s[k + 1]
    BY <1>1
  <2>3. CASE j < i /\ k < i
    BY <1>3, <1>4, <2>1, <2>2, <2>3
  <2>4. CASE j < i /\ ~(k < i)
    <3>1. j = k + 1
      BY <1>3, <1>4, <2>1, <2>2, <2>4
    <3> QED
      BY <3>1, <2>4
  <2>5. CASE ~(j < i) /\ k < i
    <3>1. j + 1 = k
      BY <1>3, <1>4, <2>1, <2>2, <2>5
    <3> QED
      BY <3>1, <2>5
  <2>6. CASE ~(j < i) /\ ~(k < i)
    <3>1. j + 1 = k + 1
      BY <1>3, <1>4, <2>1, <2>2, <2>6
    <3> QED
      BY <3>1
  <2> QED
    BY <2>3, <2>4, <2>5, <2>6
<1>5. ASSUME NEW x
      PROVE  (\E j \in 1 .. Len(q) : q[j] = x)
               <=> (\E j \in 1 .. Len(s) : s[j] = x) /\ x # s[i]
  <2>1. ASSUME NEW j \in 1 .. Len(q), q[j] = x
        PROVE  (\E k \in 1 .. Len(s) : s[k] = x) /\ x # s[i]
    <3>1. CASE j < i
      BY <2>1, <3>1, <1>1, <1>2, <1>3
    <3>2. CASE ~(j < i)
      <4>1. j + 1 \in 1 .. Len(s) /\ s[j + 1] = x /\ j + 1 # i
        BY <2>1, <3>2, <1>1, <1>2
      <4> QED
        BY <4>1, <1>3
    <3> QED
      BY <3>1, <3>2
  <2>2. ASSUME NEW j \in 1 .. Len(s), s[j] = x, x # s[i]
        PROVE  \E k \in 1 .. Len(q) : q[k] = x
    <3>1. CASE j < i
      BY <2>2, <3>1, <1>1, <1>2
    <3>2. CASE ~(j < i)
      <4>1. j - 1 \in 1 .. Len(q) /\ ~(j - 1 < i) /\ (j - 1) + 1 = j
        BY <2>2, <3>2, <1>1, <1>2
      <4> QED
        BY <4>1, <2>2, <1>1
    <3> QED
      BY <3>1, <3>2
  <2> QED
    BY <2>1, <2>2
<1>6. IsInjective(q)
  BY <1>1, <1>4, QueueMembers
<1>7. \A x : x \in Range(q) <=> x \in Range(s) /\ x # s[i]
  <2>1. \A x : x \in Range(q) <=> \E j \in 1 .. Len(q) : q[j] = x
    BY <1>1, QueueMembers
  <2>2. \A x : x \in Range(s) <=> \E j \in 1 .. Len(s) : s[j] = x
    BY QueueMembers
  <2> QED
    BY <1>5, <2>1, <2>2
<1> QED
  BY <1>1, <1>6, <1>7 DEF q

(* list_del of a queued task.                                              *)
LEMMA RemoveFirstQueue ==
  ASSUME NEW S, NEW s \in Seq(S), NEW e, IsInjective(s), e \in Range(s)
  PROVE  /\ RemoveFirst(s, e) \in Seq(S)
         /\ IsInjective(RemoveFirst(s, e))
         /\ \A x : x \in Range(RemoveFirst(s, e)) <=> x \in Range(s) /\ x # e
<1>1. PICK i \in 1 .. Len(s) : s[i] = e /\ RemoveFirst(s, e) = RemoveAt(s, i)
  <2>1. \E i \in 1 .. Len(s) : s[i] = e
    BY QueueMembers
  <2> QED
    BY <2>1, RemoveFirstIsRemoveAt
<1> QED
  BY <1>1, RemoveAtQueue

(* list_del of the first task.                                             *)
LEMMA TailQueue ==
  ASSUME NEW S, NEW s \in Seq(S), IsInjective(s), s # <<>>
  PROVE  /\ Head(s) \in S /\ Head(s) \in Range(s)
         /\ Tail(s) \in Seq(S)
         /\ IsInjective(Tail(s))
         /\ \A x : x \in Range(Tail(s)) <=> x \in Range(s) /\ x # Head(s)
<1>1. /\ Tail(s) \in Seq(S) /\ Len(Tail(s)) = Len(s) - 1
      /\ \A i \in 1 .. Len(Tail(s)) : Tail(s)[i] = s[i + 1]
  BY HeadTailProperties
<1>2. Len(s) \in Nat /\ 1 \in 1 .. Len(s) /\ Head(s) = s[1]
  OBVIOUS
<1>3. /\ RemoveAt(s, 1) \in Seq(S) /\ Len(RemoveAt(s, 1)) = Len(s) - 1
      /\ \A j \in 1 .. (Len(s) - 1) : RemoveAt(s, 1)[j] = s[j + 1]
  BY <1>2, RemoveAtProperties
<1>4. Tail(s) = RemoveAt(s, 1)
  BY <1>1, <1>3, SeqEqual
<1>5. Head(s) \in Range(s)
  BY <1>2, QueueMembers
<1>6. /\ IsInjective(RemoveAt(s, 1))
      /\ \A x : x \in Range(RemoveAt(s, 1)) <=> x \in Range(s) /\ x # s[1]
  BY <1>2, RemoveAtQueue
<1>7. Head(s) \in S
  BY HeadTailProperties
<1> QED
  BY <1>1, <1>2, <1>4, <1>5, <1>6, <1>7, Zenon

(* Nobody is in an empty queue.                                            *)
LEMMA EmptyQueue == IsInjective(<<>>) /\ \A e : e \notin Range(<<>>)
<1>1. DOMAIN <<>> = {}
  OBVIOUS
<1> QED
  BY <1>1, Zenon DEF IsInjective, Range

-----------------------------------------------------------------------------

(* At most one task owns the mutex.                                        *)
OwnerUnique == \A t, u \in Tasks : Owns(t) /\ Owns(u) => t = u

(* wait_lock is held exactly by the task that is inside such a section.    *)
SpinlockHeld ==
  \A t \in Tasks :
    pc[t] \in {"retry", "got", "unlock_wake", "try_set"} <=> wait_lock = t

(* What a trylock puts back says "locked, possible waiters".               *)
RestoreContended ==
  \A t \in Tasks : pc[t] = "try_restore" => arch = "xchg" /\ prev[t] < 0

(* A failing trylock on its slow path may overwrite count only because the *)
(* owner cannot make it 1 meanwhile.                                       *)
TrySlowSafe ==
  /\ \A t \in Tasks : pc[t] \in {"try_slow", "try_set"} => arch # "xchg"
  /\ \A t \in Tasks : pc[t] = "try_set" /\ prev[t] # 1 =>
       count < 0 \/ (count = 0 /\ \E u \in Tasks : pc[u] = "unlock_slow")

Inv ==
  /\ TypeOK
  /\ OwnerUnique
  /\ CountAgrees
  /\ SpinlockHeld
  /\ RestoreContended
  /\ TrySlowSafe

-----------------------------------------------------------------------------
(* What the fast paths tell and do, whichever header they come from.       *)

(* A fast lock succeeds only on a free mutex; when it fails it leaves      *)
(* count alone or has made a locked mutex look contended.                  *)
LEMMA FastpathLock ==
  ASSUME count \in Int, count <= 1, arch \in Arch
  PROVE  /\ fastpath_lock(count) \in Int
         /\ fastpath_lock_ok(count) => count = 1 /\ fastpath_lock(count) = 0
         /\ ~fastpath_lock_ok(count) =>
              \/ fastpath_lock(count) = count
              \/ /\ count # 1 /\ fastpath_lock(count) <= 0
                 /\ arch # "xchg" => fastpath_lock(count) < 0
BY DEF fastpath_lock, fastpath_lock_ok, dec_fastpath_lock, dec_lock_ok, xchg_lock_ok,
       uses_dec

(* A fast unlock that succeeds has made the mutex free; one that fails has *)
(* done so only where the slow path need not.                              *)
LEMMA FastpathUnlock ==
  ASSUME count \in Int, count <= 0, arch \in Arch
  PROVE  /\ fastpath_unlock(count) \in Int
         /\ fastpath_unlock_ok(count) => count = 0
         /\ fastpath_unlock_ok(count) \/ arch = "xchg" => fastpath_unlock(count) = 1
         /\ ~fastpath_unlock_ok(count) /\ arch # "xchg" =>
              /\ fastpath_unlock(count) \in {count, count + 1}
              /\ fastpath_unlock(count) <= 0
BY DEF fastpath_unlock, fastpath_unlock_ok, dec_fastpath_unlock, dec_unlock_ok,
       xchg_unlock_ok, uses_dec

-----------------------------------------------------------------------------
(* mutex_init: nobody owns, waits or holds the spinlock.                   *)
LEMMA InvInit == Init => Inv
BY TasksAssumption, MutexAssumption
   DEF Init, Inv, TypeOK, OwnerUnique, CountAgrees, SpinlockHeld, RestoreContended,
       TrySlowSafe, Owns, Pcs, SleepState, TaskState, Signal, TASK_RUNNING,
       TASK_UNINTERRUPTIBLE

(* The inductive step, one case per action.                                *)
LEMMA InvNext == Inv /\ [Next]_vars => Inv'
<1> SUFFICES ASSUME Inv, [Next]_vars PROVE Inv'
  OBVIOUS
<1> USE TasksAssumption, MutexAssumption
    DEF Pcs, SleepState, TaskState, Signal, TASK_RUNNING, TASK_INTERRUPTIBLE,
        TASK_KILLABLE, TASK_UNINTERRUPTIBLE, Goto, slowpath_needs_to_unlock
<1>0. /\ TypeOK /\ OwnerUnique /\ CountAgrees
      /\ SpinlockHeld /\ RestoreContended /\ TrySlowSafe
  BY DEF Inv
<1>1. ASSUME NEW t \in Tasks, \E st \in LockModes : mutex_lock(t, st)
      PROVE  Inv'
  <2>0. PICK st \in LockModes : mutex_lock(t, st)
    BY <1>1
  <2>a. /\ pc[t] = "idle" /\ mode' \in [Tasks -> SleepState]
        /\ UNCHANGED <<arch, wait_lock, wait_list, prev, state, sig>>
    <3>1. mode \in [Tasks -> SleepState] /\ st \in SleepState
      BY <1>0 DEF TypeOK
    <3>2. mode' = mode \/ mode' = [mode EXCEPT ![t] = st]
      BY <2>0 DEF mutex_lock
    <3> QED
      BY <2>0, <3>1, <3>2 DEF mutex_lock
  <2>b. PICK l \in {"cs", "lock_slow"} :
          /\ pc' = [pc EXCEPT ![t] = l]
          /\ count' \in Int
          /\ l = "cs" => count = 1 /\ count' = 0
          /\ l = "lock_slow" =>
               \/ count' = count
               \/ count # 1 /\ count' <= 0 /\ (arch # "xchg" => count' < 0)
    BY <1>0, <2>0, FastpathLock DEF mutex_lock, TypeOK
  <2>1. TypeOK'
    BY <1>0, <2>a, <2>b DEF TypeOK
  <2>2. OwnerUnique'
    BY <1>0, <2>a, <2>b DEF TypeOK, OwnerUnique, CountAgrees, Owns
  <2>3. CountAgrees'
    BY <1>0, <2>a, <2>b DEF TypeOK, OwnerUnique, CountAgrees, Owns
  <2>4. SpinlockHeld'
    BY <1>0, <2>a, <2>b DEF TypeOK, SpinlockHeld
  <2>5. RestoreContended'
    BY <1>0, <2>a, <2>b DEF TypeOK, RestoreContended
  <2>6. TrySlowSafe'
    BY <1>0, <2>a, <2>b DEF TypeOK, TrySlowSafe, SpinlockHeld
  <2> QED
    BY <2>1, <2>2, <2>3, <2>4, <2>5, <2>6 DEF Inv
<1>2. ASSUME NEW t \in Tasks, mutex_unlock(t)
      PROVE  Inv'
  <2>a. count \in Int /\ count <= 0 /\ pc[t] = "cs"
    BY <1>0, <1>2 DEF mutex_unlock, TypeOK, CountAgrees, Owns
  <2>b. PICK l \in {"idle", "unlock_slow"} :
          /\ pc' = [pc EXCEPT ![t] = l]
          /\ count' \in Int
          /\ l = "idle" => count = 0
          /\ l = "idle" \/ arch = "xchg" => count' = 1
          /\ l = "unlock_slow" /\ arch # "xchg" =>
               count' \in {count, count + 1} /\ count' <= 0
    BY <1>0, <1>2, <2>a, FastpathUnlock DEF mutex_unlock, TypeOK
  <2>c. UNCHANGED <<arch, wait_lock, wait_list, mode, prev, state, sig>>
    BY <1>2 DEF mutex_unlock
  <2>1. TypeOK'
    BY <1>0, <2>a, <2>b, <2>c DEF TypeOK, CountAgrees, Owns
  <2>2. OwnerUnique'
    BY <1>0, <2>a, <2>b, <2>c DEF TypeOK, OwnerUnique, CountAgrees, Owns
  <2>3. CountAgrees'
    BY <1>0, <2>a, <2>b, <2>c DEF TypeOK, OwnerUnique, CountAgrees, Owns
  <2>4. SpinlockHeld'
    BY <1>0, <2>a, <2>b, <2>c DEF TypeOK, SpinlockHeld
  <2>5. RestoreContended'
    BY <1>0, <2>a, <2>b, <2>c DEF TypeOK, RestoreContended
  <2>6. TrySlowSafe'
    <3>1. \A u \in Tasks : pc'[u] \in {"try_slow", "try_set"} => arch' # "xchg"
      BY <1>0, <2>b, <2>c DEF TypeOK, TrySlowSafe
    <3>2. ASSUME NEW u \in Tasks, pc'[u] = "try_set", prev'[u] # 1
          PROVE  count' < 0 \/ (count' = 0 /\ \E v \in Tasks : pc'[v] = "unlock_slow")
      <4>1. u # t /\ pc[u] = "try_set" /\ prev[u] # 1 /\ arch # "xchg"
        BY <1>0, <3>2, <2>b, <2>c DEF TypeOK, TrySlowSafe
      <4>2. count < 0
        <5>1. ~ \E v \in Tasks : pc[v] = "unlock_slow"
          BY <1>0, <2>a, <4>1 DEF OwnerUnique, Owns
        <5> QED
          BY <1>0, <4>1, <5>1 DEF TrySlowSafe
      <4>3. pc'[t] \in {"idle", "unlock_slow"} /\ pc[t] # "unlock_slow"
        BY <1>0, <2>a, <2>b DEF TypeOK
      <4>4. CASE pc'[t] = "unlock_slow"
        <5>1. count' \in {count, count + 1} /\ count' <= 0 /\ count' \in Int
          BY <1>0, <4>1, <4>4, <2>b DEF TypeOK
        <5> QED
          BY <5>1, <4>4
      <4>5. CASE pc'[t] = "idle"
        BY <1>0, <2>b, <4>2, <4>5 DEF TypeOK
      <4> QED
        BY <4>3, <4>4, <4>5
    <3> QED
      BY <3>1, <3>2 DEF TrySlowSafe
  <2> QED
    BY <2>1, <2>2, <2>3, <2>4, <2>5, <2>6 DEF Inv
<1>3. ASSUME NEW t \in Tasks, trylock_cmpxchg(t)
      PROVE  Inv'
  <2>1. TypeOK'
    BY <1>0, <1>3 DEF trylock_cmpxchg, TypeOK
  <2>2. OwnerUnique'
    BY <1>0, <1>3 DEF trylock_cmpxchg, TypeOK, OwnerUnique, CountAgrees,
       Owns
  <2>3. CountAgrees'
    BY <1>0, <1>3 DEF trylock_cmpxchg, TypeOK, OwnerUnique, CountAgrees,
       Owns
  <2>4. SpinlockHeld'
    BY <1>0, <1>3 DEF trylock_cmpxchg, TypeOK, SpinlockHeld
  <2>5. RestoreContended'
    BY <1>0, <1>3 DEF trylock_cmpxchg, TypeOK, RestoreContended
  <2>6. TrySlowSafe'
    BY <1>0, <1>3 DEF trylock_cmpxchg, TypeOK, TrySlowSafe, SpinlockHeld
  <2> QED
    BY <2>1, <2>2, <2>3, <2>4, <2>5, <2>6 DEF Inv
<1>4. ASSUME NEW t \in Tasks, trylock_xchg(t)
      PROVE  Inv'
  <2>1. TypeOK'
    BY <1>0, <1>4 DEF trylock_xchg, TypeOK
  <2>2. OwnerUnique'
    BY <1>0, <1>4 DEF trylock_xchg, TypeOK, OwnerUnique, CountAgrees, Owns
  <2>3. CountAgrees'
    BY <1>0, <1>4 DEF trylock_xchg, TypeOK, OwnerUnique, CountAgrees, Owns
  <2>4. SpinlockHeld'
    BY <1>0, <1>4 DEF trylock_xchg, TypeOK, SpinlockHeld
  <2>5. RestoreContended'
    BY <1>0, <1>4 DEF trylock_xchg, TypeOK, RestoreContended
  <2>6. TrySlowSafe'
    BY <1>0, <1>4 DEF trylock_xchg, TypeOK, TrySlowSafe, SpinlockHeld
  <2> QED
    BY <2>1, <2>2, <2>3, <2>4, <2>5, <2>6 DEF Inv
<1>5. ASSUME NEW t \in Tasks, trylock_fail_fn(t)
      PROVE  Inv'
  <2>1. TypeOK'
    BY <1>0, <1>5 DEF trylock_fail_fn, TypeOK
  <2>2. OwnerUnique'
    BY <1>0, <1>5 DEF trylock_fail_fn, TypeOK, OwnerUnique, CountAgrees,
       Owns
  <2>3. CountAgrees'
    BY <1>0, <1>5 DEF trylock_fail_fn, TypeOK, OwnerUnique, CountAgrees,
       Owns
  <2>4. SpinlockHeld'
    BY <1>0, <1>5 DEF trylock_fail_fn, TypeOK, SpinlockHeld
  <2>5. RestoreContended'
    BY <1>0, <1>5 DEF trylock_fail_fn, TypeOK, RestoreContended
  <2>6. TrySlowSafe'
    BY <1>0, <1>5 DEF trylock_fail_fn, TypeOK, TrySlowSafe, SpinlockHeld
  <2> QED
    BY <2>1, <2>2, <2>3, <2>4, <2>5, <2>6 DEF Inv
<1>6. ASSUME NEW t \in Tasks, mutex_lock_common(t)
      PROVE  Inv'
  <2>1. TypeOK'
    BY <1>0, <1>6 DEF mutex_lock_common, TypeOK
  <2>2. OwnerUnique'
    BY <1>0, <1>6 DEF mutex_lock_common, TypeOK, OwnerUnique, CountAgrees,
       Owns
  <2>3. CountAgrees'
    BY <1>0, <1>6 DEF mutex_lock_common, TypeOK, OwnerUnique, CountAgrees,
       Owns
  <2>4. SpinlockHeld'
    BY <1>0, <1>6 DEF mutex_lock_common, TypeOK, SpinlockHeld
  <2>5. RestoreContended'
    BY <1>0, <1>6 DEF mutex_lock_common, TypeOK, RestoreContended
  <2>6. TrySlowSafe'
    BY <1>0, <1>6 DEF mutex_lock_common, TypeOK, TrySlowSafe, SpinlockHeld
  <2> QED
    BY <2>1, <2>2, <2>3, <2>4, <2>5, <2>6 DEF Inv
<1>7. ASSUME NEW t \in Tasks, lock_retry(t)
      PROVE  Inv'
  <2>0. RemoveFirst(wait_list, t) \in Seq(Tasks)
    BY <1>0, RemoveFirstType DEF TypeOK
  <2>a. /\ pc[t] \in {"retry", "sched"} /\ count' = -1
        /\ pc[t] = "sched" => wait_lock = NoTask
        /\ UNCHANGED <<arch, prev, sig>>
    BY <1>7 DEF lock_retry, lock_loop, forget_mode
  <2>b. /\ wait_list' \in Seq(Tasks) /\ mode' \in [Tasks -> SleepState]
        /\ state' \in [Tasks -> TaskState]
    BY <1>0, <1>7, <2>0 DEF lock_retry, lock_loop, forget_mode, TypeOK
  <2>c. PICK l \in {"got", "idle", "sched"} :
          /\ pc' = [pc EXCEPT ![t] = l]
          /\ l = "got" <=> count = 1
          /\ wait_lock' = IF l = "got" THEN t ELSE NoTask
    BY <1>7 DEF lock_retry, lock_loop, forget_mode
  <2>1. TypeOK'
    BY <1>0, <2>a, <2>b, <2>c DEF TypeOK
  <2>2. OwnerUnique'
    BY <1>0, <2>a, <2>b, <2>c DEF TypeOK, OwnerUnique, CountAgrees, Owns
  <2>3. CountAgrees'
    BY <1>0, <2>a, <2>b, <2>c DEF TypeOK, OwnerUnique, CountAgrees, Owns
  <2>4. SpinlockHeld'
    BY <1>0, <2>a, <2>b, <2>c DEF TypeOK, SpinlockHeld
  <2>5. RestoreContended'
    BY <1>0, <2>a, <2>b, <2>c DEF TypeOK, RestoreContended
  <2>6. TrySlowSafe'
    BY <1>0, <2>a, <2>b, <2>c DEF TypeOK, TrySlowSafe, SpinlockHeld
  <2> QED
    BY <2>1, <2>2, <2>3, <2>4, <2>5, <2>6 DEF Inv
<1>8. ASSUME NEW t \in Tasks, lock_wakes(t)
      PROVE  Inv'
  <2>0. RemoveFirst(wait_list, t) \in Seq(Tasks)
    BY <1>0, RemoveFirstType DEF TypeOK
  <2>a. /\ pc[t] \in {"retry", "sched"} /\ count' = -1
        /\ pc[t] = "sched" => wait_lock = NoTask
        /\ UNCHANGED <<arch, prev, sig>>
    BY <1>8 DEF lock_wakes, lock_loop, forget_mode
  <2>b. /\ wait_list' \in Seq(Tasks) /\ mode' \in [Tasks -> SleepState]
        /\ state' \in [Tasks -> TaskState]
    BY <1>0, <1>8, <2>0 DEF lock_wakes, lock_loop, forget_mode, TypeOK
  <2>c. PICK l \in {"got", "idle", "sched"} :
          /\ pc' = [pc EXCEPT ![t] = l]
          /\ l = "got" <=> count = 1
          /\ wait_lock' = IF l = "got" THEN t ELSE NoTask
    BY <1>8 DEF lock_wakes, lock_loop, forget_mode
  <2>1. TypeOK'
    BY <1>0, <2>a, <2>b, <2>c DEF TypeOK
  <2>2. OwnerUnique'
    BY <1>0, <2>a, <2>b, <2>c DEF TypeOK, OwnerUnique, CountAgrees, Owns
  <2>3. CountAgrees'
    BY <1>0, <2>a, <2>b, <2>c DEF TypeOK, OwnerUnique, CountAgrees, Owns
  <2>4. SpinlockHeld'
    BY <1>0, <2>a, <2>b, <2>c DEF TypeOK, SpinlockHeld
  <2>5. RestoreContended'
    BY <1>0, <2>a, <2>b, <2>c DEF TypeOK, RestoreContended
  <2>6. TrySlowSafe'
    BY <1>0, <2>a, <2>b, <2>c DEF TypeOK, TrySlowSafe, SpinlockHeld
  <2> QED
    BY <2>1, <2>2, <2>3, <2>4, <2>5, <2>6 DEF Inv
<1>9. ASSUME NEW t \in Tasks, lock_done(t)
      PROVE  Inv'
  <2>0. RemoveFirst(wait_list, t) \in Seq(Tasks)
    BY <1>0, RemoveFirstType DEF TypeOK
  <2>1. TypeOK'
    BY <1>0, <1>9, <2>0 DEF lock_done, forget_mode, TypeOK
  <2>2. OwnerUnique'
    BY <1>0, <1>9 DEF lock_done, forget_mode, TypeOK, OwnerUnique,
       CountAgrees, Owns
  <2>3. CountAgrees'
    BY <1>0, <1>9 DEF lock_done, forget_mode, TypeOK, OwnerUnique,
       CountAgrees, Owns
  <2>4. SpinlockHeld'
    BY <1>0, <1>9 DEF lock_done, forget_mode, TypeOK, SpinlockHeld
  <2>5. RestoreContended'
    BY <1>0, <1>9 DEF lock_done, forget_mode, TypeOK, RestoreContended
  <2>6. TrySlowSafe'
    BY <1>0, <1>9 DEF lock_done, forget_mode, TypeOK, TrySlowSafe,
       SpinlockHeld
  <2> QED
    BY <2>1, <2>2, <2>3, <2>4, <2>5, <2>6 DEF Inv
<1>10. ASSUME NEW t \in Tasks, unlock_slowpath(t)
      PROVE  Inv'
  <2>1. TypeOK'
    BY <1>0, <1>10 DEF unlock_slowpath, TypeOK
  <2>2. OwnerUnique'
    BY <1>0, <1>10 DEF unlock_slowpath, TypeOK, OwnerUnique, CountAgrees,
       Owns
  <2>3. CountAgrees'
    BY <1>0, <1>10 DEF unlock_slowpath, TypeOK, OwnerUnique, CountAgrees,
       Owns
  <2>4. SpinlockHeld'
    BY <1>0, <1>10 DEF unlock_slowpath, TypeOK, SpinlockHeld
  <2>5. RestoreContended'
    BY <1>0, <1>10 DEF unlock_slowpath, TypeOK, RestoreContended
  <2>6. TrySlowSafe'
    BY <1>0, <1>10 DEF unlock_slowpath, TypeOK, TrySlowSafe, SpinlockHeld
  <2> QED
    BY <2>1, <2>2, <2>3, <2>4, <2>5, <2>6 DEF Inv
<1>11. ASSUME NEW t \in Tasks, unlock_wake(t)
      PROVE  Inv'
  <2>1. TypeOK'
    BY <1>0, <1>11 DEF unlock_wake, wake_up_process, try_to_wake_up, TypeOK
  <2>2. OwnerUnique'
    BY <1>0, <1>11 DEF unlock_wake, wake_up_process, try_to_wake_up, TypeOK,
       OwnerUnique, CountAgrees, Owns
  <2>3. CountAgrees'
    BY <1>0, <1>11 DEF unlock_wake, wake_up_process, try_to_wake_up, TypeOK,
       OwnerUnique, CountAgrees, Owns
  <2>4. SpinlockHeld'
    BY <1>0, <1>11 DEF unlock_wake, wake_up_process, try_to_wake_up, TypeOK,
       SpinlockHeld
  <2>5. RestoreContended'
    BY <1>0, <1>11 DEF unlock_wake, wake_up_process, try_to_wake_up, TypeOK,
       RestoreContended
  <2>6. TrySlowSafe'
    BY <1>0, <1>11 DEF unlock_wake, wake_up_process, try_to_wake_up, TypeOK,
       TrySlowSafe, SpinlockHeld
  <2> QED
    BY <2>1, <2>2, <2>3, <2>4, <2>5, <2>6 DEF Inv
<1>12. ASSUME NEW t \in Tasks, trylock_restore(t)
      PROVE  Inv'
  <2>1. TypeOK'
    BY <1>0, <1>12 DEF trylock_restore, TypeOK, RestoreContended
  <2>2. OwnerUnique'
    BY <1>0, <1>12 DEF trylock_restore, TypeOK, OwnerUnique, CountAgrees,
       Owns, RestoreContended
  <2>3. CountAgrees'
    BY <1>0, <1>12 DEF trylock_restore, TypeOK, OwnerUnique, CountAgrees,
       Owns, RestoreContended
  <2>4. SpinlockHeld'
    BY <1>0, <1>12 DEF trylock_restore, TypeOK, SpinlockHeld
  <2>5. RestoreContended'
    BY <1>0, <1>12 DEF trylock_restore, TypeOK, RestoreContended
  <2>6. TrySlowSafe'
    BY <1>0, <1>12 DEF trylock_restore, TypeOK, TrySlowSafe, SpinlockHeld,
       RestoreContended
  <2> QED
    BY <2>1, <2>2, <2>3, <2>4, <2>5, <2>6 DEF Inv
<1>13. ASSUME NEW t \in Tasks, trylock_slowpath(t)
      PROVE  Inv'
  <2>1. TypeOK'
    BY <1>0, <1>13 DEF trylock_slowpath, TypeOK
  <2>2. OwnerUnique'
    BY <1>0, <1>13 DEF trylock_slowpath, TypeOK, OwnerUnique, CountAgrees,
       Owns
  <2>3. CountAgrees'
    BY <1>0, <1>13 DEF trylock_slowpath, TypeOK, OwnerUnique, CountAgrees,
       Owns
  <2>4. SpinlockHeld'
    BY <1>0, <1>13 DEF trylock_slowpath, TypeOK, SpinlockHeld
  <2>5. RestoreContended'
    BY <1>0, <1>13 DEF trylock_slowpath, TypeOK, RestoreContended
  <2>6. TrySlowSafe'
    BY <1>0, <1>13 DEF trylock_slowpath, TypeOK, TrySlowSafe, SpinlockHeld
  <2> QED
    BY <2>1, <2>2, <2>3, <2>4, <2>5, <2>6 DEF Inv
<1>14. ASSUME NEW t \in Tasks, trylock_set(t)
      PROVE  Inv'
  <2>1. TypeOK'
    BY <1>0, <1>14 DEF trylock_set, TypeOK
  <2>2. OwnerUnique'
    BY <1>0, <1>14 DEF trylock_set, TypeOK, OwnerUnique, CountAgrees, Owns
  <2>3. CountAgrees'
    BY <1>0, <1>14 DEF trylock_set, TypeOK, OwnerUnique, CountAgrees, Owns,
       TrySlowSafe
  <2>4. SpinlockHeld'
    BY <1>0, <1>14 DEF trylock_set, TypeOK, SpinlockHeld
  <2>5. RestoreContended'
    BY <1>0, <1>14 DEF trylock_set, TypeOK, RestoreContended
  <2>6. TrySlowSafe'
    BY <1>0, <1>14 DEF trylock_set, TypeOK, TrySlowSafe, SpinlockHeld
  <2> QED
    BY <2>1, <2>2, <2>3, <2>4, <2>5, <2>6 DEF Inv
<1>15. ASSUME NEW t \in Tasks, \E sg \in Signals : SendSignal(t, sg)
      PROVE  Inv'
  BY <1>0, <1>15 DEF SendSignal, signal_wake_up, try_to_wake_up, Inv,
     TypeOK, OwnerUnique, CountAgrees, SpinlockHeld, RestoreContended,
     TrySlowSafe, Owns
<1>16. ASSUME NEW t \in Tasks, HandleSignal(t)
      PROVE  Inv'
  BY <1>0, <1>16 DEF HandleSignal, Inv, TypeOK, OwnerUnique, CountAgrees,
     SpinlockHeld, RestoreContended, TrySlowSafe, Owns
<1>17. ASSUME NEW t \in Tasks, SpuriousWakeup(t)
      PROVE  Inv'
  BY <1>0, <1>17 DEF SpuriousWakeup, wake_up_process, try_to_wake_up, Inv,
     TypeOK, OwnerUnique, CountAgrees, SpinlockHeld, RestoreContended,
     TrySlowSafe, Owns
<1>18. CASE UNCHANGED vars
  BY <1>0, <1>18 DEF vars, Inv, TypeOK, OwnerUnique, CountAgrees, Owns,
     SpinlockHeld, RestoreContended, TrySlowSafe
<1> QED
  BY <1>1, <1>2, <1>3, <1>4, <1>5, <1>6, <1>7, <1>8, <1>9, <1>10, <1>11, <1>12,
     <1>13, <1>14, <1>15, <1>16, <1>17, <1>18
     DEF Next, Call, Proceed, Environment

(* Inv holds in every reachable state.                                     *)
THEOREM Invariance == Spec => []Inv
<1>1. Init => Inv
  BY InvInit
<1>2. Inv /\ [Next]_vars => Inv'
  BY InvNext
<1> QED
  BY <1>1, <1>2, PTL DEF Spec

(* TypeOK: the variables keep their types, and count never exceeds 1.      *)
THEOREM TypeCorrect == Spec => []TypeOK
<1>1. Inv => TypeOK
  BY DEF Inv
<1> QED
  BY <1>1, Invariance, PTL

(* At most one task is between a successful mutex_lock or mutex_trylock    *)
(* and its mutex_unlock, for any number of tasks and any fast path.        *)
THEOREM MutexExcludes == Spec => []MutualExclusion
<1>1. Inv => MutualExclusion
  BY DEF Inv, OwnerUnique, Owns, MutualExclusion
<1> QED
  BY <1>1, Invariance, PTL

(* count is 1 exactly when the mutex has no owner.                         *)
THEOREM MutexNeverLost == Spec => []CountAgrees
<1>1. Inv => CountAgrees
  BY DEF Inv
<1> QED
  BY <1>1, Invariance, PTL

-----------------------------------------------------------------------------
(* The mutex implements the abstract lock.                                 *)

(* A step of t changes nobody else's ownership, and t becomes owner only   *)
(* of a mutex whose count is 1.                                            *)
LEMMA OwnershipStep ==
  ASSUME Inv, Next
  PROVE  \E t \in Tasks : /\ \A u \in Tasks \ {t} : Owns(u)' <=> Owns(u)
                          /\ ~Owns(t) /\ Owns(t)' => count = 1
<1> DEFINE Fine(t) == /\ \A u \in Tasks \ {t} : Owns(u)' <=> Owns(u)
                      /\ ~Owns(t) /\ Owns(t)' => count = 1
<1>0. TypeOK
  BY DEF Inv
<1> USE DEF Goto, slowpath_needs_to_unlock
<1>1. ASSUME NEW t \in Tasks, \E st \in LockModes : mutex_lock(t, st) PROVE Fine(t)
  <2>1. fastpath_lock_ok(count) => count = 1
    BY <1>0, FastpathLock DEF TypeOK
  <2> QED
    BY <1>0, <1>1, <2>1 DEF mutex_lock, TypeOK, Owns
<1>2. ASSUME NEW t \in Tasks, mutex_unlock(t) PROVE Fine(t)
  BY <1>0, <1>2 DEF mutex_unlock, TypeOK, Owns
<1>3. ASSUME NEW t \in Tasks, trylock_cmpxchg(t) PROVE Fine(t)
  BY <1>0, <1>3 DEF trylock_cmpxchg, TypeOK, Owns
<1>4. ASSUME NEW t \in Tasks, trylock_xchg(t) PROVE Fine(t)
  BY <1>0, <1>4 DEF trylock_xchg, TypeOK, Owns
<1>5. ASSUME NEW t \in Tasks, trylock_fail_fn(t) PROVE Fine(t)
  BY <1>0, <1>5 DEF trylock_fail_fn, TypeOK, Owns
<1>6. ASSUME NEW t \in Tasks, mutex_lock_common(t) PROVE Fine(t)
  BY <1>0, <1>6 DEF mutex_lock_common, TypeOK, Owns
<1>7. ASSUME NEW t \in Tasks, lock_retry(t) PROVE Fine(t)
  BY <1>0, <1>7 DEF lock_retry, lock_loop, forget_mode, TypeOK, Owns
<1>8. ASSUME NEW t \in Tasks, lock_wakes(t) PROVE Fine(t)
  BY <1>0, <1>8 DEF lock_wakes, lock_loop, forget_mode, TypeOK, Owns
<1>9. ASSUME NEW t \in Tasks, lock_done(t) PROVE Fine(t)
  BY <1>0, <1>9 DEF lock_done, forget_mode, TypeOK, Owns
<1>10. ASSUME NEW t \in Tasks, unlock_slowpath(t) PROVE Fine(t)
  BY <1>0, <1>10 DEF unlock_slowpath, TypeOK, Owns
<1>11. ASSUME NEW t \in Tasks, unlock_wake(t) PROVE Fine(t)
  BY <1>0, <1>11 DEF unlock_wake, wake_up_process, try_to_wake_up, TypeOK,
     Owns
<1>12. ASSUME NEW t \in Tasks, trylock_restore(t) PROVE Fine(t)
  BY <1>0, <1>12 DEF trylock_restore, TypeOK, Owns
<1>13. ASSUME NEW t \in Tasks, trylock_slowpath(t) PROVE Fine(t)
  BY <1>0, <1>13 DEF trylock_slowpath, TypeOK, Owns
<1>14. ASSUME NEW t \in Tasks, trylock_set(t) PROVE Fine(t)
  BY <1>0, <1>14 DEF trylock_set, TypeOK, Owns
<1>15. ASSUME NEW t \in Tasks, \E sg \in Signals : SendSignal(t, sg) PROVE Fine(t)
  BY <1>0, <1>15 DEF SendSignal, signal_wake_up, try_to_wake_up, TypeOK,
     Owns
<1>16. ASSUME NEW t \in Tasks, HandleSignal(t) PROVE Fine(t)
  BY <1>0, <1>16 DEF HandleSignal, TypeOK, Owns
<1>17. ASSUME NEW t \in Tasks, SpuriousWakeup(t) PROVE Fine(t)
  BY <1>0, <1>17 DEF SpuriousWakeup, wake_up_process, try_to_wake_up,
     TypeOK, Owns
<1> QED
  BY <1>1, <1>2, <1>3, <1>4, <1>5, <1>6, <1>7, <1>8, <1>9, <1>10, <1>11, <1>12,
     <1>13, <1>14, <1>15, <1>16, <1>17
     DEF Next, Call, Proceed, Environment

(* Seen through Owns, a step of the mutex code is a step of the lock.      *)
LEMMA LockStep == Inv /\ [Next]_vars => [Lock!Next]_(Lock!vars)
<1> SUFFICES ASSUME Inv, [Next]_vars
             PROVE  Lock!Next \/ UNCHANGED Lock!vars
  OBVIOUS
<1> DEFINE held == [u \in Tasks |-> IF Owns(u) THEN "exclusive" ELSE "none"]
<1>1. CASE UNCHANGED vars
  BY <1>1 DEF vars, Lock!vars, Owns, slowpath_needs_to_unlock
<1>2. CASE Next
  <2>1. PICK t \in Tasks : /\ \A u \in Tasks \ {t} : Owns(u)' <=> Owns(u)
                           /\ ~Owns(t) /\ Owns(t)' => count = 1
    BY <1>2, OwnershipStep
  <2>2. CASE Owns(t) /\ ~Owns(t)'
    <3>1. held' = [held EXCEPT ![t] = "none"] /\ held[t] # "none"
      BY <2>1, <2>2 DEF Owns, slowpath_needs_to_unlock
    <3>2. Lock!Release(t)
      BY <3>1 DEF Lock!Release
    <3> QED
      BY <3>2 DEF Lock!Next
  <2>3. CASE ~Owns(t) /\ Owns(t)'
    <3>1. \A u \in Tasks : ~Owns(u)
      BY <2>1, <2>3 DEF Inv, CountAgrees, Owns, slowpath_needs_to_unlock
    <3>2. held' = [held EXCEPT ![t] = "exclusive"]
      BY <2>1, <2>3 DEF Owns, slowpath_needs_to_unlock
    <3>3. Lock!AcquireExclusive(t)
      BY <3>1, <3>2 DEF Lock!AcquireExclusive
    <3> QED
      BY <3>3 DEF Lock!Next
  <2>4. CASE Owns(t)' <=> Owns(t)
    <3>1. held' = held
      BY <2>1, <2>4 DEF Owns, slowpath_needs_to_unlock
    <3> QED
      BY <3>1 DEF Lock!vars
  <2> QED
    BY <2>2, <2>3, <2>4
<1> QED
  BY <1>1, <1>2

(* The mutex code implements the abstract lock: exclusive grants while     *)
(* nobody holds it, and releases by the holder.                            *)
THEOREM MutexImplementsLock == Spec => ImplementsLock
<1>1. Init => Lock!Init
  BY DEF Init, Lock!Init, Owns
<1>2. Inv /\ [Next]_vars => [Lock!Next]_(Lock!vars)
  BY LockStep
<1> QED
  BY <1>1, <1>2, Invariance, PTL DEF Spec, ImplementsLock, Lock!Spec

-----------------------------------------------------------------------------
(* No wake-up is lost.  SleepersCovered is inductive only together with    *)
(* what ties the queue to the tasks in it, and with the reason why a task  *)
(* that has just taken the mutex may leave the queue to the others.        *)

Queued(t) == pc[t] \in {"retry", "sched", "got"}

(* wait_list holds each task in the loop of __mutex_lock_common, once.     *)
QueueLive ==
  /\ IsInjective(wait_list)
  /\ \A t \in Tasks : t \in Range(wait_list) <=> Queued(t)

(* When the new owner is about to leave the queue, count is still negative *)
(* or whoever overwrote it is in a slow path.                              *)
GotContended ==
  \A t \in Tasks : pc[t] = "got" => count < 0 \/ \E u \in Tasks : InTransit(u)

(* A task that will try the mutex or pass a wake-up on.                    *)
Helps(t) == (pc[t] = "sched" /\ ~Asleep(t)) \/ pc[t] = "got" \/ InTransit(t)

(* SleepersCovered in terms of the tasks instead of the queue.             *)
Covered ==
  (\E t \in Tasks : pc[t] = "sched") =>
    (\E t \in Tasks : Helps(t)) \/ (count < 0 /\ \E t \in Tasks : Owns(t))

CoverInv == QueueLive /\ GotContended /\ Covered

(* No step takes a task out of or into the queue unless it edits the list. *)
LEMMA QueueKept ==
  ASSUME QueueLive, UNCHANGED wait_list,
         \A u \in Tasks : Queued(u)' <=> Queued(u)
  PROVE  QueueLive'
BY DEF QueueLive

(* A task that enters the loop queues itself.                              *)
LEMMA QueueJoined ==
  ASSUME TypeOK, QueueLive, NEW t \in Tasks, ~Queued(t), Queued(t)',
         wait_list' = Append(wait_list, t),
         \A u \in Tasks \ {t} : Queued(u)' <=> Queued(u)
  PROVE  QueueLive'
<1>1. wait_list \in Seq(Tasks) /\ IsInjective(wait_list) /\ t \notin Range(wait_list)
  BY DEF TypeOK, QueueLive
<1>2. /\ IsInjective(wait_list')
      /\ \A x : x \in Range(wait_list') <=> x \in Range(wait_list) \/ x = t
  BY <1>1, AppendQueue
<1> QED
  BY <1>2 DEF QueueLive

(* A task that leaves the loop takes itself off the queue.                 *)
LEMMA QueueLeft ==
  ASSUME TypeOK, QueueLive, NEW t \in Tasks, Queued(t), ~Queued(t)',
         wait_list' = RemoveFirst(wait_list, t),
         \A u \in Tasks \ {t} : Queued(u)' <=> Queued(u)
  PROVE  QueueLive'
<1>1. wait_list \in Seq(Tasks) /\ IsInjective(wait_list) /\ t \in Range(wait_list)
  BY DEF TypeOK, QueueLive
<1>2. /\ IsInjective(wait_list')
      /\ \A x : x \in Range(wait_list') <=> x \in Range(wait_list) /\ x # t
  BY <1>1, RemoveFirstQueue
<1> QED
  BY <1>2 DEF QueueLive

(* The queue is covered when the tasks in it are.                          *)
LEMMA CoveredQueue == TypeOK /\ CoverInv => SleepersCovered
<1> SUFFICES ASSUME TypeOK, CoverInv, wait_list # <<>>,
                    \A i \in DOMAIN wait_list : Asleep(wait_list[i])
             PROVE  \/ count < 0 /\ \E t \in Tasks : Owns(t)
                    \/ \E t \in Tasks : InTransit(t)
  BY DEF SleepersCovered
<1>1. wait_list \in Seq(Tasks) /\ DOMAIN wait_list = 1 .. Len(wait_list)
  BY DEF TypeOK
<1>2. \A t \in Tasks : Queued(t) => Asleep(t)
  <2>1. \A t : t \in Range(wait_list) => \E i \in 1 .. Len(wait_list) : wait_list[i] = t
    BY <1>1, QueueMembers
  <2> QED
    BY <1>1, <2>1 DEF CoverInv, QueueLive
<1>3. \E t \in Tasks : pc[t] = "sched"
  <2>1. 1 \in DOMAIN wait_list /\ wait_list[1] \in Tasks
    BY <1>1
  <2> QED
    BY <2>1 DEF Asleep
<1> QED
  BY <1>2, <1>3 DEF CoverInv, Covered, Helps, Queued, Asleep

(* mutex_init: there is no sleeper to be covered.                          *)
LEMMA CoverInit == Init => CoverInv
<1> SUFFICES ASSUME Init PROVE CoverInv
  OBVIOUS
<1>1. IsInjective(wait_list) /\ \A t \in Tasks : t \notin Range(wait_list)
  BY EmptyQueue DEF Init
<1> QED
  BY <1>1 DEF Init, CoverInv, QueueLive, GotContended, Covered, Queued

(* The inductive step, one case per action.                                *)
LEMMA CoverNext == Inv /\ CoverInv /\ [Next]_vars => CoverInv'
<1> SUFFICES ASSUME Inv, CoverInv, [Next]_vars PROVE CoverInv'
  OBVIOUS
<1>0. /\ TypeOK /\ OwnerUnique /\ CountAgrees /\ SpinlockHeld
      /\ QueueLive /\ GotContended /\ Covered
  BY DEF Inv, CoverInv
<1> USE DEF Goto, slowpath_needs_to_unlock
<1>1. ASSUME NEW t \in Tasks, \E st \in LockModes : mutex_lock(t, st)
      PROVE  CoverInv'
  <2>1. PICK l \in {"cs", "lock_slow"} :
          /\ pc[t] = "idle" /\ pc' = [pc EXCEPT ![t] = l]
          /\ l = "cs" => count = 1
          /\ UNCHANGED <<arch, wait_list, prev, state, sig>>
    BY <1>0, <1>1, FastpathLock DEF mutex_lock, TypeOK
  <2>2. QueueLive'
    BY <1>0, <2>1, QueueKept DEF TypeOK, Queued
  <2>3. GotContended'
    BY <1>0, <2>1 DEF TypeOK, GotContended, InTransit, CountAgrees, Owns
  <2>4. Covered'
    BY <1>0, <2>1 DEF TypeOK, Covered, Helps, Asleep, InTransit, Owns
  <2> QED
    BY <2>2, <2>3, <2>4 DEF CoverInv
<1>2. ASSUME NEW t \in Tasks, mutex_unlock(t)
      PROVE  CoverInv'
  <2>0. count \in Int /\ count <= 0 /\ pc[t] = "cs"
    BY <1>0, <1>2 DEF mutex_unlock, TypeOK, CountAgrees, Owns
  <2>1. PICK l \in {"idle", "unlock_slow"} :
          /\ pc' = [pc EXCEPT ![t] = l]
          /\ l = "idle" => count = 0
          /\ UNCHANGED <<arch, wait_list, prev, state, sig>>
    BY <1>0, <1>2, <2>0, FastpathUnlock DEF mutex_unlock, TypeOK
  <2>2. QueueLive'
    BY <1>0, <2>0, <2>1, QueueKept DEF TypeOK, Queued
  <2>3. GotContended'
    BY <1>0, <2>0, <2>1 DEF TypeOK, GotContended, OwnerUnique, Owns
  <2>4. Covered'
    BY <1>0, <2>0, <2>1 DEF TypeOK, Covered, Helps, Asleep, InTransit
  <2> QED
    BY <2>2, <2>3, <2>4 DEF CoverInv
<1>3. ASSUME NEW t \in Tasks, trylock_cmpxchg(t)
      PROVE  CoverInv'
  <2>1. PICK l \in {"cs", "idle"} :
          /\ pc[t] = "idle" /\ pc' = [pc EXCEPT ![t] = l]
          /\ l = "cs" => count = 1
          /\ l = "idle" => count' = count
          /\ UNCHANGED <<arch, wait_list, prev, state, sig>>
    BY <1>3 DEF trylock_cmpxchg
  <2>2. QueueLive'
    BY <1>0, <2>1, QueueKept DEF TypeOK, Queued
  <2>3. GotContended'
    BY <1>0, <2>1 DEF TypeOK, GotContended, InTransit, CountAgrees, Owns
  <2>4. Covered'
    BY <1>0, <2>1 DEF TypeOK, Covered, Helps, Asleep, InTransit, Owns
  <2> QED
    BY <2>2, <2>3, <2>4 DEF CoverInv
<1>4. ASSUME NEW t \in Tasks, trylock_xchg(t)
      PROVE  CoverInv'
  <2>1. PICK l \in {"cs", "idle", "try_restore"} :
          /\ pc[t] = "idle" /\ pc' = [pc EXCEPT ![t] = l]
          /\ l = "cs" => count = 1
          /\ l = "idle" => ~(count < 0)
          /\ \A u \in Tasks \ {t} : prev'[u] = prev[u]
          /\ UNCHANGED <<arch, wait_list, state, sig>>
    <3>1. \A u \in Tasks \ {t} : prev'[u] = prev[u]
      BY <1>0, <1>4 DEF trylock_xchg, TypeOK
    <3> QED
      BY <1>4, <3>1 DEF trylock_xchg
  <2>2. QueueLive'
    BY <1>0, <2>1, QueueKept DEF TypeOK, Queued
  <2>3. GotContended'
    <3>1. CASE l = "try_restore"
      BY <1>0, <2>1, <3>1 DEF TypeOK, GotContended, InTransit
    <3>2. CASE l = "cs"
      BY <1>0, <2>1, <3>2 DEF TypeOK, GotContended, CountAgrees, Owns
    <3>3. CASE l = "idle"
      BY <1>0, <2>1, <3>3 DEF TypeOK, GotContended, InTransit
    <3> QED
      BY <3>1, <3>2, <3>3
  <2>4. Covered'
    BY <1>0, <2>1 DEF TypeOK, Covered, Helps, Asleep, InTransit, Owns
  <2> QED
    BY <2>2, <2>3, <2>4 DEF CoverInv
<1>5. ASSUME NEW t \in Tasks, trylock_fail_fn(t)
      PROVE  CoverInv'
  <2>1. /\ pc[t] = "idle" /\ pc' = [pc EXCEPT ![t] = "try_slow"]
        /\ UNCHANGED <<arch, count, wait_list, prev, state, sig>>
    BY <1>5 DEF trylock_fail_fn
  <2>2. QueueLive'
    BY <1>0, <2>1, QueueKept DEF TypeOK, Queued
  <2>3. GotContended'
    BY <1>0, <2>1 DEF TypeOK, GotContended, InTransit
  <2>4. Covered'
    BY <1>0, <2>1 DEF TypeOK, Covered, Helps, Asleep, InTransit, Owns
  <2> QED
    BY <2>2, <2>3, <2>4 DEF CoverInv
<1>6. ASSUME NEW t \in Tasks, mutex_lock_common(t)
      PROVE  CoverInv'
  <2>1. PICK l \in {"got", "retry"} :
          /\ pc[t] = "lock_slow" /\ pc' = [pc EXCEPT ![t] = l]
          /\ wait_list' = Append(wait_list, t) /\ count' = -1
    BY <1>6 DEF mutex_lock_common
  <2>2. QueueLive'
    BY <1>0, <2>1, QueueJoined DEF TypeOK, Queued
  <2>3. GotContended'
    BY <2>1 DEF GotContended
  <2>4. Covered'
    BY <1>0, <2>1 DEF TypeOK, Covered, Helps, InTransit
  <2> QED
    BY <2>2, <2>3, <2>4 DEF CoverInv
<1>7. ASSUME NEW t \in Tasks, lock_retry(t) \/ lock_wakes(t)
      PROVE  CoverInv'
  <2>1. PICK l \in {"got", "idle", "sched"} :
          /\ pc[t] \in {"retry", "sched"} /\ pc' = [pc EXCEPT ![t] = l]
          /\ count' = -1
          /\ l = "got" <=> count = 1
          /\ wait_list' = IF l = "idle" THEN RemoveFirst(wait_list, t) ELSE wait_list
          /\ UNCHANGED <<arch, prev, sig>>
    BY <1>7 DEF lock_retry, lock_wakes, lock_loop, forget_mode
  <2>2. QueueLive'
    <3>1. CASE l = "idle"
      BY <1>0, <2>1, <3>1, QueueLeft DEF TypeOK, Queued
    <3>2. CASE l # "idle"
      BY <1>0, <2>1, <3>2, QueueKept DEF TypeOK, Queued
    <3> QED
      BY <3>1, <3>2
  <2>3. GotContended'
    BY <2>1 DEF GotContended
  <2>4. Covered'
    <3>1. CASE l = "got"
      BY <1>0, <2>1, <3>1 DEF TypeOK, Covered, Helps
    <3>2. CASE l # "got"
      <4>1. PICK u \in Tasks : Owns(u)
        BY <1>0, <2>1, <3>2 DEF CountAgrees
      <4>2. Owns(u)'
        BY <1>0, <2>1, <4>1 DEF TypeOK, Owns
      <4> QED
        BY <2>1, <4>2 DEF Covered
    <3> QED
      BY <3>1, <3>2
  <2> QED
    BY <2>2, <2>3, <2>4 DEF CoverInv
<1>8. ASSUME NEW t \in Tasks, lock_done(t)
      PROVE  CoverInv'
  <2>1. /\ pc[t] = "got" /\ pc' = [pc EXCEPT ![t] = "cs"]
        /\ wait_list' = RemoveFirst(wait_list, t)
        /\ count' = IF wait_list' = <<>> THEN 0 ELSE count
    BY <1>8 DEF lock_done
  <2>2. QueueLive'
    BY <1>0, <2>1, QueueLeft DEF TypeOK, Queued
  <2>3. GotContended'
    BY <1>0, <2>1 DEF TypeOK, GotContended, SpinlockHeld
  <2>4. Covered'
    <3>1. CASE wait_list' = <<>>
      <4>1. \A u \in Tasks : u \notin Range(wait_list')
        BY <3>1, EmptyQueue
      <4> QED
        BY <2>2, <4>1 DEF QueueLive, Queued, Covered
    <3>2. CASE wait_list' # <<>>
      <4>1. Owns(t)' /\ count' = count
        BY <1>0, <2>1, <3>2 DEF TypeOK, Owns
      <4>2. count < 0 \/ \E u \in Tasks : InTransit(u)'
        BY <1>0, <2>1 DEF TypeOK, GotContended, InTransit
      <4> QED
        BY <4>1, <4>2 DEF Covered, Helps
    <3> QED
      BY <3>1, <3>2
  <2> QED
    BY <2>2, <2>3, <2>4 DEF CoverInv
<1>9. ASSUME NEW t \in Tasks, unlock_slowpath(t)
      PROVE  CoverInv'
  <2>1. /\ pc[t] = "unlock_slow" /\ pc' = [pc EXCEPT ![t] = "unlock_wake"]
        /\ wait_lock = NoTask /\ UNCHANGED wait_list
    BY <1>9 DEF unlock_slowpath
  <2>2. QueueLive'
    BY <1>0, <2>1, QueueKept DEF TypeOK, Queued
  <2>3. InTransit(t)'
    BY <1>0, <2>1 DEF TypeOK, InTransit
  <2> QED
    BY <2>2, <2>3 DEF CoverInv, GotContended, Covered, Helps
<1>10. ASSUME NEW t \in Tasks, unlock_wake(t)
      PROVE  CoverInv'
  <2>1. /\ pc[t] = "unlock_wake" /\ pc' = [pc EXCEPT ![t] = "idle"]
        /\ wait_lock = t /\ UNCHANGED wait_list
        /\ wait_list # <<>> => state' = wake_up_process(state, Head(wait_list))
    BY <1>0, <1>10 DEF unlock_wake, SpinlockHeld
  <2>2. QueueLive'
    BY <1>0, <2>1, QueueKept DEF TypeOK, Queued
  <2>3. GotContended'
    BY <1>0, <2>1 DEF TypeOK, GotContended, SpinlockHeld
  <2>4. Covered'
    <3>1. CASE wait_list = <<>>
      <4>1. \A u \in Tasks : u \notin Range(wait_list')
        BY <2>1, <3>1, EmptyQueue
      <4> QED
        BY <2>2, <4>1 DEF QueueLive, Queued, Covered
    <3>2. CASE wait_list # <<>>
      <4>1. PICK w \in Tasks : w = Head(wait_list) /\ w \in Range(wait_list)
        BY <1>0, <3>2, TailQueue DEF TypeOK, QueueLive
      <4>2. Queued(w) /\ w # t
        BY <1>0, <2>1, <4>1 DEF QueueLive, Queued
      <4>3. state'[w] = TASK_RUNNING
        BY <1>0, <2>1, <3>2, <4>1
           DEF TypeOK, wake_up_process, try_to_wake_up, TaskState
      <4>4. Helps(w)'
        BY <1>0, <2>1, <4>2, <4>3
           DEF TypeOK, Queued, Helps, Asleep, schedule_returns, InTransit
      <4> QED
        BY <4>4 DEF Covered
    <3> QED
      BY <3>1, <3>2
  <2> QED
    BY <2>2, <2>3, <2>4 DEF CoverInv
<1>11. ASSUME NEW t \in Tasks, trylock_restore(t)
      PROVE  CoverInv'
  <2>1. PICK l \in {"cs", "idle"} :
          /\ pc[t] = "try_restore" /\ pc' = [pc EXCEPT ![t] = l]
          /\ count' < 0
          /\ l = "cs" <=> count = 1
          /\ \A u \in Tasks \ {t} : prev'[u] = prev[u]
          /\ UNCHANGED <<arch, wait_list>>
    BY <1>0, <1>11 DEF trylock_restore, TypeOK, Inv, RestoreContended
  <2>2. QueueLive'
    BY <1>0, <2>1, QueueKept DEF TypeOK, Queued
  <2>3. GotContended'
    BY <2>1 DEF GotContended
  <2>4. \E u \in Tasks : Owns(u)'
    <3>1. CASE l = "cs"
      BY <1>0, <2>1, <3>1 DEF TypeOK, Owns
    <3>2. CASE l = "idle"
      BY <1>0, <2>1, <3>2 DEF TypeOK, CountAgrees, Owns
    <3> QED
      BY <3>1, <3>2
  <2> QED
    BY <2>1, <2>2, <2>3, <2>4 DEF CoverInv, Covered
<1>12. ASSUME NEW t \in Tasks, trylock_slowpath(t)
      PROVE  CoverInv'
  <2>1. /\ pc[t] = "try_slow" /\ pc' = [pc EXCEPT ![t] = "try_set"]
        /\ count' = -1 /\ prev' = [prev EXCEPT ![t] = count]
        /\ UNCHANGED <<arch, wait_list>>
    BY <1>12 DEF trylock_slowpath
  <2>2. QueueLive'
    BY <1>0, <2>1, QueueKept DEF TypeOK, Queued
  <2>3. GotContended'
    BY <2>1 DEF GotContended
  <2>4. \E u \in Tasks : Owns(u)'
    <3>1. CASE count = 1
      BY <1>0, <2>1, <3>1 DEF TypeOK, Owns
    <3>2. CASE count # 1
      BY <1>0, <2>1, <3>2 DEF TypeOK, CountAgrees, Owns
    <3> QED
      BY <3>1, <3>2
  <2> QED
    BY <2>1, <2>2, <2>3, <2>4 DEF CoverInv, Covered
<1>13. ASSUME NEW t \in Tasks, trylock_set(t)
      PROVE  CoverInv'
  <2>1. PICK l \in {"cs", "idle"} :
          /\ pc[t] = "try_set" /\ pc' = [pc EXCEPT ![t] = l]
          /\ wait_list # <<>> => count' = count
          /\ prev[t] = 1 => l = "cs"
          /\ \A u \in Tasks \ {t} : prev'[u] = prev[u]
          /\ UNCHANGED <<arch, wait_list, state, sig>>
    BY <1>0, <1>13 DEF trylock_set, TypeOK
  <2>2. QueueLive'
    BY <1>0, <2>1, QueueKept DEF TypeOK, Queued
  <2>3. GotContended'
    BY <1>0, <2>1 DEF TypeOK, GotContended, SpinlockHeld
  <2>4. Covered'
    <3>1. CASE wait_list = <<>>
      <4>1. \A u \in Tasks : u \notin Range(wait_list')
        BY <2>1, <3>1, EmptyQueue
      <4> QED
        BY <2>2, <4>1 DEF QueueLive, Queued, Covered
    <3>2. CASE wait_list # <<>>
      BY <1>0, <2>1, <3>2 DEF TypeOK, Covered, Helps, Asleep, InTransit, Owns
    <3> QED
      BY <3>1, <3>2
  <2> QED
    BY <2>2, <2>3, <2>4 DEF CoverInv
<1>14. ASSUME NEW t \in Tasks, Environment(t)
      PROVE  CoverInv'
  <2>1. UNCHANGED <<arch, count, wait_list, pc, prev>>
    BY <1>14 DEF Environment, SendSignal, HandleSignal, SpuriousWakeup
  <2>2. \A u \in Tasks : Asleep(u)' => Asleep(u)
    BY <1>0, <1>14
       DEF Environment, SendSignal, HandleSignal, SpuriousWakeup, TypeOK, Asleep,
           schedule_returns, signal_pending_state, signal_wake_up, wake_up_process,
           try_to_wake_up, Signal, TaskState, SleepState, TASK_RUNNING,
           TASK_INTERRUPTIBLE, TASK_KILLABLE, TASK_UNINTERRUPTIBLE
  <2>3. QueueLive'
    BY <1>0, <2>1, QueueKept DEF Queued
  <2> QED
    BY <1>0, <2>1, <2>2, <2>3
       DEF CoverInv, GotContended, Covered, Helps, InTransit, Owns
<1>15. CASE UNCHANGED vars
  BY <1>0, <1>15 DEF vars, CoverInv, QueueLive, Queued, GotContended, Covered, Helps,
     Asleep, InTransit, Owns
<1> QED
  BY <1>1, <1>2, <1>3, <1>4, <1>5, <1>6, <1>7, <1>8, <1>9, <1>10, <1>11, <1>12,
     <1>13, <1>14, <1>15
     DEF Next, Call, Proceed

(* SleepersCovered: while all the queued tasks sleep, a contended owner or *)
(* a task in a slow path answers for them; the mutex loses no wake-up.     *)
THEOREM MutexLosesNoWakeup == Spec => []SleepersCovered
<1>1. Init => CoverInv
  BY CoverInit
<1>2. Inv /\ CoverInv /\ [Next]_vars => CoverInv'
  BY CoverNext
<1>3. Inv /\ CoverInv => SleepersCovered
  BY CoveredQueue DEF Inv
<1> QED
  BY <1>1, <1>2, <1>3, Invariance, PTL DEF Spec

=============================================================================
