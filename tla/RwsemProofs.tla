----------------------------- MODULE RwsemProofs -----------------------------
(***************************************************************************)
(* Proofs about lib/rwsem-spinlock.c for any set of tasks and any number   *)
(* of read locks left to interrupts.                                       *)
(*                                                                         *)
(* The argument.  `activity' counts the holders only while wait_lock is    *)
(* free; while a waker has it, `activity' lags behind by the readers the   *)
(* waker has granted so far, which is what its local variable woken is     *)
(* for.  GrantsAgree says by how much at each of the waker's steps.  The   *)
(* queue is the set of tasks whose waiter->task is not cleared, and the    *)
(* reference a waiter takes on its own task_struct goes from the queue to  *)
(* the waker that removed it.                                              *)
(***************************************************************************)
EXTENDS Rwsem, SequenceTheorems, FiniteSetTheorems, TLAPS

-----------------------------------------------------------------------------
(* The wait queue: what list_add_tail (Append) and list_del of the first   *)
(* waiter (Tail) do to the set of waiters.                                 *)

(* Membership in a queue and uniqueness of its members, by position.       *)
LEMMA QueueMembers ==
  ASSUME NEW S, NEW s \in Seq(S)
  PROVE  /\ \A e : e \in Range(s) <=> \E i \in 1 .. Len(s) : s[i] = e
         /\ IsInjective(s) <=>
              \A i, j \in 1 .. Len(s) : s[i] = s[j] => i = j
<1>1. DOMAIN s = 1 .. Len(s)
  OBVIOUS
<1>2. \A e : e \in Range(s) <=> \E i \in 1 .. Len(s) : s[i] = e
  BY <1>1, Zenon DEF Range
<1>3. IsInjective(s) <=> \A i, j \in 1 .. Len(s) : s[i] = s[j] => i = j
  BY <1>1, Zenon DEF IsInjective
<1> QED
  BY <1>2, <1>3

(* list_add_tail of a task that is not queued.                             *)
LEMMA AppendQueue ==
  ASSUME NEW S, NEW s \in Seq(S), NEW e \in S, IsInjective(s), e \notin Range(s)
  PROVE  /\ Append(s, e) \in Seq(S)
         /\ IsInjective(Append(s, e))
         /\ \A x : x \in Range(Append(s, e)) <=> x \in Range(s) \/ x = e
<1> DEFINE q == Append(s, e)
<1>1. /\ q \in Seq(S) /\ Len(q) = Len(s) + 1 /\ q[Len(s) + 1] = e
      /\ \A i \in 1 .. Len(s) : q[i] = s[i]
  BY AppendProperties
<1>2. Len(s) \in Nat
  OBVIOUS
<1> HIDE DEF q
<1>3. \A i, j \in 1 .. Len(q) : q[i] = q[j] => i = j
  <2>1. \A i, j \in 1 .. Len(s) : s[i] = s[j] => i = j
    BY QueueMembers
  <2>2. \A i \in 1 .. Len(s) : s[i] # e
    BY QueueMembers
  <2> QED
    BY <1>1, <1>2, <2>1, <2>2
<1>4. \A x : (\E i \in 1 .. Len(q) : q[i] = x)
               <=> (\E i \in 1 .. Len(s) : s[i] = x) \/ x = e
  BY <1>1, <1>2
<1>5. IsInjective(q)
  BY <1>1, <1>3, QueueMembers
<1>6. \A x : x \in Range(q) <=> x \in Range(s) \/ x = e
  <2>1. \A x : x \in Range(q) <=> \E i \in 1 .. Len(q) : q[i] = x
    BY <1>1, QueueMembers
  <2>2. \A x : x \in Range(s) <=> \E i \in 1 .. Len(s) : s[i] = x
    BY QueueMembers
  <2> QED
    BY <1>4, <2>1, <2>2
<1> QED
  BY <1>1, <1>5, <1>6 DEF q

(* list_del of the first task.                                             *)
LEMMA TailQueue ==
  ASSUME NEW S, NEW s \in Seq(S), IsInjective(s), s # <<>>
  PROVE  /\ Head(s) \in S /\ Head(s) \in Range(s)
         /\ Tail(s) \in Seq(S)
         /\ IsInjective(Tail(s))
         /\ \A x : x \in Range(Tail(s)) <=> x \in Range(s) /\ x # Head(s)
<1> DEFINE q == Tail(s)
<1>1. /\ q \in Seq(S) /\ Len(q) = Len(s) - 1 /\ \A i \in 1 .. Len(q) : q[i] = s[i + 1]
  BY HeadTailProperties
<1>2. Len(s) \in Nat /\ 1 \in 1 .. Len(s) /\ Head(s) = s[1] /\ Head(s) \in S
  BY HeadTailProperties
<1> HIDE DEF q
<1>3. \A i, j \in 1 .. Len(s) : s[i] = s[j] => i = j
  BY QueueMembers
<1>4. \A i \in 1 .. Len(q) : i + 1 \in 1 .. Len(s) /\ i + 1 # 1
  BY <1>1, <1>2
<1>5. \A i, j \in 1 .. Len(q) : q[i] = q[j] => i = j
  BY <1>1, <1>3, <1>4
<1>6. ASSUME NEW x
      PROVE  (\E i \in 1 .. Len(q) : q[i] = x)
               <=> (\E i \in 1 .. Len(s) : s[i] = x) /\ x # s[1]
  <2>1. ASSUME NEW i \in 1 .. Len(s), s[i] = x, x # s[1]
        PROVE  \E j \in 1 .. Len(q) : q[j] = x
    <3>1. i - 1 \in 1 .. Len(q) /\ (i - 1) + 1 = i
      BY <1>1, <1>2, <2>1
    <3> QED
      BY <1>1, <2>1, <3>1
  <2>2. ASSUME NEW i \in 1 .. Len(q), q[i] = x
        PROVE  (\E j \in 1 .. Len(s) : s[j] = x) /\ x # s[1]
    BY <1>1, <1>2, <1>3, <1>4, <2>2
  <2> QED
    BY <2>1, <2>2
<1>7. IsInjective(q)
  BY <1>1, <1>5, QueueMembers
<1>8. \A x : x \in Range(q) <=> x \in Range(s) /\ x # s[1]
  <2>1. \A x : x \in Range(q) <=> \E i \in 1 .. Len(q) : q[i] = x
    BY <1>1, QueueMembers
  <2>2. \A x : x \in Range(s) <=> \E i \in 1 .. Len(s) : s[i] = x
    BY QueueMembers
  <2> QED
    BY <1>6, <2>1, <2>2
<1>9. Head(s) \in Range(s)
  BY <1>2, QueueMembers
<1> QED
  BY <1>1, <1>2, <1>7, <1>8, <1>9, Zenon DEF q

-----------------------------------------------------------------------------

Waking == {"grant_read", "grant_write", "wake_reader", "wake_writer"}

(* Who is granting and waking has wait_lock.                               *)
LockHeld == \A x \in Contexts : wait_lock = x <=> pc[x] \in Waking

(* The local variables of a waker, and of everybody else.                  *)
WakerLocals ==
  /\ pc[Irq] \in Waking \cup {"idle"}
  /\ \A x \in Contexts :
       /\ tsk[x] # NoTask <=> pc[x] \in {"wake_reader", "wake_writer"}
       /\ woken[x] # 0 => pc[x] \in {"grant_read", "wake_reader"}
       /\ after[x] = "read" => x \in Tasks /\ pc[x] \in {"grant_read", "wake_reader"}

(* Queued are the tasks whose waiter->task is set, each once, and they are *)
(* in the wait loop.                                                       *)
QueueLive ==
  /\ IsInjective(wait_list)
  /\ \A t \in Tasks :
       /\ t \in Range(wait_list) <=> waiter_task[t] # NoTask
       /\ waiter_task[t] # NoTask => waiter_task[t] = t /\ pc[t] \in {"check", "sched"}

(* References to a task_struct: the task's own, that of its place in the   *)
(* queue, and that of the waker about to wake it.                          *)
BeingWoken(t) == \E x \in Contexts : tsk[x] = t
UsageAgrees ==
  \A t \in Tasks : usage[t] = (IF pc[t] = "exited" THEN 0 ELSE 1)
                                + (IF waiter_task[t] # NoTask THEN 1 ELSE 0)
                                + (IF BeingWoken(t) THEN 1 ELSE 0)

(* What activity says while a waker has wait_lock.                         *)
GrantsAgree ==
  \A x \in Contexts :
    /\ pc[x] = "grant_read" =>
         /\ Writers = {} /\ activity >= 0
         /\ activity + woken[x] = Cardinality(Readers) + orphans
         /\ reader_at_head
    /\ pc[x] = "wake_reader" =>
         /\ Writers = {} /\ activity >= 0
         /\ activity + woken[x] + 1 = Cardinality(Readers) + orphans
    /\ pc[x] = "grant_write" =>
         /\ Writers = {} /\ Readers = {} /\ orphans = 0 /\ activity = -1
         /\ wait_list # <<>> /\ flags[Head(wait_list)] = "write"
    /\ pc[x] = "wake_writer" =>
         /\ Cardinality(Writers) = 1 /\ Readers = {} /\ orphans = 0 /\ activity = -1

Inv ==
  /\ TypeOK
  /\ LockHeld
  /\ WakerLocals
  /\ QueueLive
  /\ UsageAgrees
  /\ ActivityAgrees
  /\ GrantsAgree
  /\ QueueBehindReaders
  /\ GrantedIsWoken

-----------------------------------------------------------------------------
(* The mode in which a task holds the semaphore, and a step that changes   *)
(* only the mode of t, to m.                                               *)
mode(u) == IF Writes(u) THEN "exclusive" ELSE IF Reads(u) THEN "shared" ELSE "none"

Becomes(t, m) == mode(t)' = m /\ \A u \in Tasks : u # t => mode(u)' = mode(u)

SameModes == \A u \in Tasks : mode(u)' = mode(u)

(* The readers and the writers are the tasks of that mode, before a step   *)
(* and after it.                                                           *)
LEMMA ModeSets ==
  /\ \A u \in Tasks : /\ u \in Readers <=> mode(u) = "shared"
                      /\ u \in Writers <=> mode(u) = "exclusive"
  /\ \A u \in Tasks : /\ u \in Readers' <=> mode(u)' = "shared"
                      /\ u \in Writers' <=> mode(u)' = "exclusive"
  /\ Readers \subseteq Tasks /\ Writers \subseteq Tasks
  /\ Readers' \subseteq Tasks /\ Writers' \subseteq Tasks
  BY DEF mode, Readers, Writers, Reads, Writes, Granted

(* There are finitely many of each.                                        *)
LEMMA ModesFinite ==
  /\ IsFiniteSet(Readers) /\ Cardinality(Readers) \in Nat
  /\ IsFiniteSet(Writers) /\ Cardinality(Writers) \in Nat
  BY ModeSets, RwsemAssumption, FS_Subset, FS_CardinalityType

(* A step that changes no mode changes neither set.                        *)
LEMMA SameCounts ==
  ASSUME SameModes
  PROVE  Readers' = Readers /\ Writers' = Writers
  BY ModeSets DEF SameModes

(* One more member, or one less.                                           *)
LEMMA CountChange ==
  ASSUME NEW S, NEW T, NEW t, IsFiniteSet(S)
  PROVE  /\ T = S \cup {t} /\ t \notin S => Cardinality(T) = Cardinality(S) + 1
         /\ T = S \ {t} /\ t \in S => Cardinality(T) = Cardinality(S) - 1
  BY FS_AddElement, FS_RemoveElement

(* A task gets a read lock, or gives one up.                               *)
LEMMA ReadersCount ==
  ASSUME NEW t \in Tasks
  PROVE  /\ mode(t) = "none" /\ Becomes(t, "shared") =>
              Cardinality(Readers') = Cardinality(Readers) + 1 /\ Writers' = Writers
         /\ mode(t) = "shared" /\ Becomes(t, "none") =>
              Cardinality(Readers') = Cardinality(Readers) - 1 /\ Writers' = Writers
<1>1. ASSUME mode(t) = "none", Becomes(t, "shared")
      PROVE  Readers' = Readers \cup {t} /\ t \notin Readers /\ Writers' = Writers
  BY <1>1, ModeSets DEF Becomes
<1>2. ASSUME mode(t) = "shared", Becomes(t, "none")
      PROVE  Readers' = Readers \ {t} /\ t \in Readers /\ Writers' = Writers
  BY <1>2, ModeSets DEF Becomes
<1> QED
  BY <1>1, <1>2, ModesFinite, CountChange

(* The only writer.                                                        *)
LEMMA WritersCount ==
  ASSUME NEW t \in Tasks
  PROVE  /\ Writers = {} /\ Becomes(t, "exclusive") /\ mode(t) = "none" =>
              Cardinality(Writers') = 1 /\ Readers' = Readers
         /\ Cardinality(Writers) = 1 /\ mode(t) = "exclusive" => Writers = {t}
<1>1. ASSUME Writers = {}, Becomes(t, "exclusive"), mode(t) = "none"
      PROVE  Writers' = {t} /\ Readers' = Readers
  BY <1>1, ModeSets DEF Becomes
<1>2. ASSUME Cardinality(Writers) = 1, mode(t) = "exclusive"
      PROVE  Writers = {t}
  <2>1. t \in Writers
    BY <1>2, ModeSets
  <2>2. Cardinality(Writers \ {t}) = 0 /\ IsFiniteSet(Writers \ {t})
    BY <1>2, <2>1, ModesFinite, FS_RemoveElement
  <2>3. Writers \ {t} = {}
    BY <2>2, FS_EmptySet
  <2> QED
    BY <2>1, <2>3
<1> QED
  BY <1>1, <1>2, FS_Singleton

(* When the count of readers is 0 there is none.                           *)
LEMMA NoReaders ==
  ASSUME Cardinality(Readers) = 0
  PROVE  Readers = {}
  BY ModesFinite, FS_EmptySet

(* While wait_lock is free nobody is waking.                               *)
LEMMA LockFree ==
  ASSUME LockHeld, wait_lock = NoTask
  PROVE  \A x \in Contexts : pc[x] \notin Waking
  BY RwsemAssumption, TasksAssumption DEF LockHeld, Contexts

(* Nobody falls asleep, and nobody is taken from the waker.                *)
LEMMA WokenKept ==
  ASSUME GrantedIsWoken, UNCHANGED tsk,
         \A x \in Contexts : pc[x] \in {"wake_reader", "wake_writer"} => pc'[x] = pc[x],
         \A t \in Tasks : pc'[t] = "sched" /\ waiter_task'[t] = NoTask /\ state'[t] # TASK_RUNNING
           => pc[t] = "sched" /\ waiter_task[t] = NoTask /\ state[t] # TASK_RUNNING
  PROVE  GrantedIsWoken'
<1> SUFFICES ASSUME NEW t \in Tasks, pc'[t] = "sched", waiter_task'[t] = NoTask,
                    state'[t] # TASK_RUNNING
             PROVE  \E x \in Contexts : pc'[x] \in {"wake_reader", "wake_writer"} /\ tsk'[x] = t
  BY DEF GrantedIsWoken, Granted
<1>1. PICK x \in Contexts : pc[x] \in {"wake_reader", "wake_writer"} /\ tsk[x] = t
  BY DEF GrantedIsWoken, Granted
<1> QED
  BY <1>1

(* No reference is taken or dropped.                                       *)
LEMMA UsageKept ==
  ASSUME UsageAgrees, UNCHANGED <<usage, tsk, waiter_task>>,
         \A t \in Tasks : pc'[t] = "exited" <=> pc[t] = "exited"
  PROVE  UsageAgrees'
<1>1. \A t \in Tasks : BeingWoken(t)' <=> BeingWoken(t)
  BY DEF BeingWoken
<1> QED
  BY <1>1 DEF UsageAgrees

-----------------------------------------------------------------------------
(* One lemma per step of the code.  A step that leaves everybody's mode    *)
(* alone also leaves alone what activity should be.                        *)

(* down_read and down_read_trylock of a semaphore with no writer and no    *)
(* queue.                                                                  *)
LEMMA TakeReadStep ==
  ASSUME Inv, NEW t \in Tasks, down_read_trylock(t)
  PROVE  Inv' /\ mode(t) = "none" /\ Becomes(t, "shared") /\ UNCHANGED orphans /\ Writers = {}
<1> USE DEF down_read_trylock, take_read, Goto, waker_vars
<1>0. /\ TypeOK /\ LockHeld /\ WakerLocals /\ QueueLive /\ UsageAgrees
      /\ ActivityAgrees /\ GrantsAgree /\ QueueBehindReaders /\ GrantedIsWoken
  BY DEF Inv
<1>1. mode(t) = "none" /\ Becomes(t, "shared")
  BY <1>0 DEF TypeOK, Contexts, Becomes, mode, Reads, Writes, Granted
<1>2. TypeOK'
  BY <1>0 DEF TypeOK, Contexts, Pcs
<1>3. LockHeld' /\ WakerLocals'
  BY <1>0, RwsemAssumption DEF LockHeld, WakerLocals, Waking
<1>4. QueueLive' /\ UsageAgrees' /\ GrantedIsWoken'
  BY <1>0, UsageKept, WokenKept DEF QueueLive
<1>5. Writers = {} /\ activity = Cardinality(Readers) + orphans
  BY <1>0 DEF ActivityAgrees, may_read
<1>6. ActivityAgrees'
  BY <1>0, <1>1, <1>5, ReadersCount, ModesFinite DEF ActivityAgrees, TypeOK
<1>7. GrantsAgree'
  BY <1>0, LockFree DEF GrantsAgree, Waking
<1>8. QueueBehindReaders'
  BY DEF QueueBehindReaders, may_read
<1> QED
  BY <1>1, <1>2, <1>3, <1>4, <1>5, <1>6, <1>7, <1>8 DEF Inv

(* down_write and down_write_trylock of a semaphore nobody holds or waits  *)
(* for.                                                                    *)
LEMMA TakeWriteStep ==
  ASSUME Inv, NEW t \in Tasks, down_write_trylock(t)
  PROVE  /\ Inv' /\ mode(t) = "none" /\ Becomes(t, "exclusive") /\ UNCHANGED orphans
         /\ Writers = {} /\ Readers = {} /\ orphans = 0
<1> USE DEF down_write_trylock, take_write, Goto, waker_vars
<1>0. /\ TypeOK /\ LockHeld /\ WakerLocals /\ QueueLive /\ UsageAgrees
      /\ ActivityAgrees /\ GrantsAgree /\ QueueBehindReaders /\ GrantedIsWoken
  BY DEF Inv
<1>1. mode(t) = "none" /\ Becomes(t, "exclusive")
  BY <1>0 DEF TypeOK, Contexts, Becomes, mode, Reads, Writes, Granted
<1>2. TypeOK'
  BY <1>0 DEF TypeOK, Contexts, Pcs
<1>3. LockHeld' /\ WakerLocals'
  BY <1>0, RwsemAssumption DEF LockHeld, WakerLocals, Waking
<1>4. QueueLive' /\ UsageAgrees' /\ GrantedIsWoken'
  <2>1. \A x \in Contexts : pc'[x] = IF x = t THEN pc'[t] ELSE pc[x]
    OBVIOUS
  <2> QED
    BY <1>0, UsageKept, WokenKept DEF QueueLive
<1>5. Writers = {} /\ Readers = {} /\ orphans = 0
  <2>1. Writers = {} /\ 0 = Cardinality(Readers) + orphans
    BY <1>0 DEF ActivityAgrees, may_write
  <2> QED
    BY <1>0, <2>1, NoReaders, ModesFinite DEF TypeOK
<1>6. ActivityAgrees'
  BY <1>1, <1>5, WritersCount DEF ActivityAgrees
<1>7. GrantsAgree'
  BY <1>0, LockFree DEF GrantsAgree, Waking
<1>8. QueueBehindReaders'
  BY DEF QueueBehindReaders
<1> QED
  BY <1>1, <1>2, <1>3, <1>4, <1>5, <1>6, <1>7, <1>8 DEF Inv

(* down_read and down_write that have to wait.                             *)
LEMMA EnqueueStep ==
  ASSUME Inv, NEW t \in Tasks, NEW how \in {"read", "write"}, pc[t] = "idle",
         wait_lock = NoTask, how = "read" => ~may_read, how = "write" => ~may_write,
         enqueue(t, how), UNCHANGED <<wait_lock, waker_vars>>
  PROVE  Inv' /\ SameModes /\ UNCHANGED orphans
<1> USE DEF enqueue, get_task_struct, Goto, waker_vars
<1>0. /\ TypeOK /\ LockHeld /\ WakerLocals /\ QueueLive /\ UsageAgrees
      /\ ActivityAgrees /\ GrantsAgree /\ QueueBehindReaders /\ GrantedIsWoken
  BY DEF Inv
<1>1. waiter_task[t] = NoTask /\ t \notin Range(wait_list) /\ t # NoTask
  BY <1>0, TasksAssumption DEF QueueLive
<1>2. SameModes
  BY <1>0, <1>1 DEF TypeOK, SameModes, mode, Reads, Writes, Granted
<1>3. /\ wait_list' \in Seq(Tasks) /\ IsInjective(wait_list')
      /\ \A x : x \in Range(wait_list') <=> x \in Range(wait_list) \/ x = t
  BY <1>0, <1>1, AppendQueue DEF TypeOK, QueueLive
<1>4. TypeOK'
  <2>1. state' \in [Tasks -> TaskState] /\ usage' \in [Tasks -> Nat]
    BY <1>0 DEF TypeOK, TaskState, SleepState
  <2> QED
    BY <1>0, <1>3, <2>1 DEF TypeOK, Pcs
<1>5. LockHeld' /\ WakerLocals'
  BY <1>0, RwsemAssumption DEF LockHeld, WakerLocals, Waking
<1>6. QueueLive'
  BY <1>0, <1>1, <1>3 DEF TypeOK, Contexts, QueueLive
<1>7. UsageAgrees'
  BY <1>0, <1>1, SMTT(60) DEF TypeOK, Contexts, UsageAgrees, BeingWoken
<1>8. GrantedIsWoken'
  BY <1>0, WokenKept
<1>9. ActivityAgrees'
  BY <1>0, <1>2, SameCounts DEF ActivityAgrees
<1>10. GrantsAgree'
  BY <1>0, LockFree DEF GrantsAgree, Waking
<1>11. QueueBehindReaders'
  <2>1. activity = -1 \/ activity >= 0
    BY <1>0, ModesFinite DEF ActivityAgrees, TypeOK
  <2>2. CASE wait_list = <<>>
    <3>1. Head(wait_list') = t
      BY <2>2
    <3> QED
      BY <1>0, <2>1, <2>2 DEF QueueBehindReaders, may_read, may_write, TypeOK
  <2>3. CASE wait_list # <<>>
    <3>1. Head(wait_list') = Head(wait_list) /\ Head(wait_list) \in Range(wait_list)
      BY <1>0, <2>3, TailQueue DEF TypeOK, QueueLive
    <3>2. flags'[Head(wait_list')] = flags[Head(wait_list)]
      BY <1>1, <3>1
    <3> QED
      BY <1>0, <2>3, <3>2 DEF QueueBehindReaders
  <2> QED
    BY <2>2, <2>3
<1> QED
  BY <1>2, <1>4, <1>5, <1>6, <1>7, <1>8, <1>9, <1>10, <1>11 DEF Inv

(* A step of the wait loop: whether t holds the semaphore was settled      *)
(* before.                                                                 *)
LEMMA WaitStep ==
  ASSUME Inv, NEW t \in Tasks, wait_check(t) \/ wait_wakes(t)
  PROVE  Inv' /\ SameModes /\ UNCHANGED orphans
<1> USE DEF wait_check, wait_wakes, Goto, waker_vars, TASK_RUNNING, TASK_UNINTERRUPTIBLE
<1>0. /\ TypeOK /\ LockHeld /\ WakerLocals /\ QueueLive /\ UsageAgrees
      /\ ActivityAgrees /\ GrantsAgree /\ QueueBehindReaders /\ GrantedIsWoken
  BY DEF Inv
<1>1. PICK l \in {"check", "sched", "read", "write"} :
        /\ pc' = [pc EXCEPT ![t] = l]
        /\ pc[t] \in {"check", "sched"}
        /\ l \in {"read", "write"} => waiter_task[t] = NoTask /\ l = flags[t]
        /\ flags' = IF l \in {"read", "write"} THEN [flags EXCEPT ![t] = "read"] ELSE flags
  BY <1>0 DEF TypeOK
<1>2. UNCHANGED <<activity, wait_lock, wait_list, waiter_task, after, tsk, woken, usage, orphans>>
  OBVIOUS
<1>3. SameModes
  BY <1>0 DEF TypeOK, Contexts, SameModes, mode, Reads, Writes, Granted
<1>4. TypeOK'
  <2>1. state' \in [Tasks -> TaskState]
    BY <1>0 DEF TypeOK, TaskState, SleepState
  <2> QED
    BY <1>0, <1>1, <2>1 DEF TypeOK, Pcs
<1>5. GrantedIsWoken'
  <2>1. \A x \in Contexts : x # t => pc'[x] = pc[x]
    BY <1>1
  <2>2. pc'[t] = "sched" => waiter_task[t] # NoTask
    BY <1>0 DEF TypeOK, Contexts
  <2>3. \A u \in Tasks : u # t => state'[u] = state[u]
    BY <1>0 DEF TypeOK
  <2> QED
    BY <1>0, <1>1, <2>2, <2>3, WokenKept
<1>6. wait_list # <<>> => flags'[Head(wait_list)] = flags[Head(wait_list)]
  <2>1. wait_list # <<>> => Head(wait_list) \in Range(wait_list) /\ Head(wait_list) \in Tasks
    BY <1>0, TailQueue DEF TypeOK, QueueLive
  <2> QED
    BY <1>0, <1>1, <2>1 DEF QueueLive
<1> HIDE DEF wait_check, wait_wakes
<1>7. LockHeld' /\ WakerLocals'
  BY <1>0, <1>1, <1>2 DEF LockHeld, WakerLocals, Waking
<1>8. QueueLive' /\ UsageAgrees'
  <2>1. \A u \in Tasks : pc'[u] = IF u = t THEN l ELSE pc[u]
    BY <1>0, <1>1 DEF TypeOK, Contexts
  <2>2. QueueLive'
    BY <1>0, <1>1, <1>2 DEF QueueLive
  <2>3. UsageAgrees'
    BY <1>0, <1>1, <1>2, UsageKept
  <2> QED
    BY <2>2, <2>3
<1>9. ActivityAgrees' /\ QueueBehindReaders'
  BY <1>0, <1>2, <1>3, <1>6, SameCounts DEF ActivityAgrees, QueueBehindReaders
<1>10. GrantsAgree'
  <2>1. \A x \in Contexts : pc'[x] \in Waking => pc'[x] = pc[x]
    BY <1>1 DEF Waking
  <2> QED
    BY <1>0, <1>2, <1>3, <1>6, <2>1, SameCounts
       DEF GrantsAgree, reader_at_head, Waking
<1> QED
  BY <1>2, <1>3, <1>4, <1>5, <1>7, <1>8, <1>9, <1>10 DEF Inv

(* __up_read by a task that holds a read lock, or by the interrupt that    *)
(* was left one.                                                           *)
LEMMA ReleaseReadStep ==
  ASSUME Inv, NEW x \in Contexts, release_read(x),
         \/ x \in Tasks /\ pc[x] = "read" /\ orphans' = orphans
         \/ x = Irq /\ pc[x] = "idle" /\ orphans > 0 /\ orphans' = orphans - 1
  PROVE  /\ Inv'
         /\ x \in Tasks => mode(x) = "shared" /\ Becomes(x, "none")
         /\ x = Irq => SameModes
<1> USE DEF release_read, start_grant, no_grant, Goto
<1>0. /\ TypeOK /\ LockHeld /\ WakerLocals /\ QueueLive /\ UsageAgrees
      /\ ActivityAgrees /\ GrantsAgree /\ QueueBehindReaders /\ GrantedIsWoken
  BY DEF Inv
<1>1. PICK l \in {"idle", "grant_write"} :
        /\ pc' = [pc EXCEPT ![x] = l]
        /\ l = "grant_write" <=> last_reader /\ wait_list # <<>>
        /\ l = "grant_write" => activity' = -1 /\ wait_lock' = x
        /\ l = "idle" => activity' = activity - 1 /\ wait_lock' = NoTask
        /\ after'[x] = "idle" /\ \A y \in Contexts : y # x => after'[y] = after[y]
  BY <1>0 DEF TypeOK, WakerLocals
<1>2. wait_lock = NoTask /\ UNCHANGED <<wait_list, waiter_task, flags, tsk, woken, usage, state>>
  OBVIOUS
<1>3. TypeOK'
  <2>1. orphans' \in 0 .. MaxOrphans
    BY <1>0, RwsemAssumption DEF TypeOK
  <2>3. pc' \in [Contexts -> Pcs] /\ after' \in [Contexts -> {"idle", "read"}]
    BY <1>0 DEF TypeOK, Pcs
  <2> QED
    BY <1>0, <2>1, <2>3 DEF TypeOK
<1> HIDE DEF release_read
<1>4. /\ x \in Tasks => mode(x) = "shared" /\ Becomes(x, "none")
      /\ x = Irq => SameModes
  BY <1>0, <1>1, <1>2, RwsemAssumption
     DEF TypeOK, Contexts, SameModes, Becomes, mode, Reads, Writes, Granted
<1>5. Writers = {} /\ activity = Cardinality(Readers) + orphans
  BY <1>0, <1>2, <1>4, ModeSets DEF ActivityAgrees
<1>6. Writers' = {} /\ Cardinality(Readers') + orphans' = activity - 1
  <2>1. CASE x \in Tasks
    BY <1>0, <1>4, <1>5, <2>1, ReadersCount, ModesFinite, RwsemAssumption
       DEF TypeOK
  <2>2. CASE x = Irq
    BY <1>0, <1>4, <1>5, <2>2, SameCounts, ModesFinite, RwsemAssumption
       DEF TypeOK
  <2> QED
    BY <2>1, <2>2
<1>7. activity \in Nat /\ activity - 1 >= 0
  <2>1. Cardinality(Readers') \in Nat
    BY ModeSets, RwsemAssumption, FS_Subset, FS_CardinalityType
  <2> QED
    BY <1>0, <1>6, <2>1 DEF TypeOK
<1>8. LockHeld' /\ WakerLocals'
  <2>1. \A y \in Contexts : y # x => pc'[y] = pc[y] /\ pc[y] \notin Waking
    BY <1>0, <1>1, <1>2, LockFree
  <2>2. pc'[x] = l /\ x # NoTask /\ pc[x] \notin Waking /\ NoTask \notin Contexts
    BY <1>0, <1>1, <1>2, LockFree, RwsemAssumption, TasksAssumption
       DEF TypeOK, Contexts
  <2>3. LockHeld'
    BY <1>1, <2>1, <2>2 DEF LockHeld, Waking
  <2>4. WakerLocals'
    BY <1>0, <1>1, <1>2 DEF WakerLocals, Waking
  <2> QED
    BY <2>3, <2>4
<1>9. QueueLive' /\ UsageAgrees' /\ GrantedIsWoken'
  <2>1. \A y \in Contexts : pc'[y] = IF y = x THEN l ELSE pc[y]
    BY <1>0, <1>1 DEF TypeOK
  <2>3. QueueLive'
    BY <1>0, <1>2, <2>1 DEF QueueLive, Contexts
  <2>4. UsageAgrees'
    BY <1>0, <1>1, <1>2, UsageKept
  <2>5. GrantedIsWoken'
    BY <1>0, <1>1, <1>2, WokenKept
  <2> QED
    BY <2>3, <2>4, <2>5
<1>10. ActivityAgrees'
  BY <1>1, <1>6, RwsemAssumption, TasksAssumption DEF ActivityAgrees
<1>11. GrantsAgree'
  <2>1. \A y \in Contexts : y # x => pc'[y] \notin Waking
    BY <1>0, <1>1, <1>2, LockFree
  <2>3. l = "grant_write" => Readers' = {} /\ orphans' = 0 /\ flags[Head(wait_list)] = "write"
    <3>1. l = "grant_write" => Cardinality(Readers') + orphans' = 0 /\ activity = 1
      BY <1>1, <1>6 DEF last_reader
    <3>2. IsFiniteSet(Readers') /\ Cardinality(Readers') \in Nat
      BY ModeSets, RwsemAssumption, FS_Subset, FS_CardinalityType
    <3>3. l = "grant_write" => Cardinality(Readers') = 0 /\ orphans' = 0
      BY <1>3, <3>1, <3>2 DEF TypeOK
    <3>4. l = "grant_write" => flags[Head(wait_list)] = "write"
      BY <1>0, <1>1, <1>2, <3>1 DEF QueueBehindReaders
    <3> QED
      BY <3>2, <3>3, <3>4, FS_EmptySet
  <2> QED
    BY <1>1, <1>2, <1>6, <2>1, <2>3 DEF GrantsAgree, Waking
<1>12. QueueBehindReaders'
  BY <1>0, <1>1, <1>2, <1>7 DEF QueueBehindReaders, last_reader
<1> QED
  BY <1>3, <1>4, <1>8, <1>9, <1>10, <1>11, <1>12 DEF Inv

(* The read lock of t becomes one that the interrupt will release.         *)
LEMMA SubmitStep ==
  ASSUME Inv, NEW t \in Tasks, SubmitDirectIO(t)
  PROVE  Inv' /\ mode(t) = "shared" /\ Becomes(t, "none")
<1> USE DEF SubmitDirectIO, Goto
<1>0. /\ TypeOK /\ LockHeld /\ WakerLocals /\ QueueLive /\ UsageAgrees
      /\ ActivityAgrees /\ GrantsAgree /\ QueueBehindReaders /\ GrantedIsWoken
  BY DEF Inv
<1>1. mode(t) = "shared" /\ Becomes(t, "none")
  BY <1>0 DEF TypeOK, Contexts, Becomes, mode, Reads, Writes, Granted
<1>2. TypeOK'
  BY <1>0, RwsemAssumption DEF TypeOK, Contexts, Pcs
<1>5. LockHeld' /\ WakerLocals'
  BY <1>0 DEF LockHeld, WakerLocals, Waking
<1>6. QueueLive' /\ UsageAgrees' /\ GrantedIsWoken'
  BY <1>0, UsageKept, WokenKept DEF QueueLive
<1>7. /\ Cardinality(Readers') + orphans' = Cardinality(Readers) + orphans
      /\ Writers' = Writers /\ Readers # {}
  BY <1>0, <1>1, ReadersCount, ModesFinite, ModeSets DEF TypeOK
<1>8. ActivityAgrees' /\ QueueBehindReaders'
  BY <1>0, <1>7 DEF ActivityAgrees, QueueBehindReaders
<1>9. GrantsAgree'
  BY <1>0, <1>7 DEF GrantsAgree, reader_at_head
<1> QED
  BY <1>1, <1>2, <1>5, <1>6, <1>8, <1>9 DEF Inv

(* The writer gives the semaphore up, or keeps it as a reader; it may have *)
(* waiters to grant it to.                                                 *)
LEMMA WriterStep ==
  ASSUME Inv, NEW t \in Tasks, up_write(t) \/ downgrade_write(t)
  PROVE  /\ Inv' /\ UNCHANGED orphans /\ mode(t) = "exclusive"
         /\ Becomes(t, "none") \/ Becomes(t, "shared")
<1> USE DEF up_write, downgrade_write, do_wake, start_grant, no_grant, Goto
<1>0. /\ TypeOK /\ LockHeld /\ WakerLocals /\ QueueLive /\ UsageAgrees
      /\ ActivityAgrees /\ GrantsAgree /\ QueueBehindReaders /\ GrantedIsWoken
  BY DEF Inv
<1>1. PICK l \in {"idle", "read", "grant_read", "grant_write"}, m \in {"none", "shared"} :
        /\ pc' = [pc EXCEPT ![t] = l]
        /\ wait_lock' = IF l \in Waking THEN t ELSE NoTask
        /\ l = "idle" => m = "none" /\ wait_list = <<>>
        /\ l = "read" => m = "shared" /\ ~reader_at_head
        /\ l = "grant_write" => m = "none" /\ wait_list # <<>> /\ flags[Head(wait_list)] = "write"
        /\ l = "grant_read" => reader_at_head
        /\ activity' = IF l = "grant_write" THEN -1 ELSE IF m = "shared" THEN 1 ELSE 0
        /\ after'[t] = IF l = "grant_read" /\ m = "shared" THEN "read" ELSE "idle"
        /\ \A y \in Contexts : y # t => after'[y] = after[y]
  <2>1. after[t] = "idle"
    BY <1>0 DEF TypeOK, WakerLocals, Contexts
  <2>2. CASE up_write(t)
    BY <1>0, <2>1, <2>2 DEF TypeOK, Waking, reader_at_head
  <2>3. CASE downgrade_write(t)
    BY <1>0, <2>1, <2>3 DEF TypeOK, Contexts, Waking, downgrade_wakes
  <2> QED
    BY <2>2, <2>3
<1>2. /\ wait_lock = NoTask /\ pc[t] = "write"
      /\ UNCHANGED <<wait_list, waiter_task, flags, tsk, woken, usage, state, orphans>>
  OBVIOUS
<1>3. TypeOK'
  <2>1. activity' \in Int /\ wait_lock' \in Contexts \cup {NoTask}
    BY DEF Contexts
  <2>2. pc' \in [Contexts -> Pcs] /\ after' \in [Contexts -> {"idle", "read"}]
    BY <1>0 DEF TypeOK, Pcs
  <2> QED
    BY <1>0, <2>1, <2>2 DEF TypeOK
<1> HIDE DEF up_write, downgrade_write
<1>4. /\ pc'[t] = l
      /\ \A y \in Contexts : y # t => pc'[y] = pc[y] /\ pc[y] \notin Waking
      /\ t # NoTask /\ t \in Contexts /\ NoTask \notin Contexts
  BY <1>0, <1>1, <1>2, LockFree, RwsemAssumption, TasksAssumption
     DEF TypeOK, Contexts
<1>5. mode(t) = "exclusive" /\ Becomes(t, m)
  BY <1>1, <1>2, <1>4 DEF Contexts, Becomes, mode, Reads, Writes, Granted
<1>6. Readers = {} /\ orphans = 0 /\ Writers = {t}
  BY <1>0, <1>2, <1>5, ModeSets, WritersCount DEF ActivityAgrees
<1>7. Writers' = {} /\ Readers' = (IF m = "shared" THEN {t} ELSE {})
  BY <1>5, <1>6, ModeSets DEF Becomes
<1>8. Cardinality(Readers') = IF m = "shared" THEN 1 ELSE 0
  BY <1>7, FS_EmptySet, FS_Singleton
<1>9. LockHeld'
  BY <1>1, <1>4 DEF LockHeld
<1>10. WakerLocals' /\ woken[t] = 0
  BY <1>0, <1>1, <1>2, <1>4, RwsemAssumption DEF WakerLocals
<1>11. QueueLive' /\ UsageAgrees' /\ GrantedIsWoken'
  BY <1>0, <1>1, <1>2, UsageKept, WokenKept DEF QueueLive
<1>12. ActivityAgrees'
  BY <1>1, <1>2, <1>4, <1>6, <1>7, <1>8 DEF ActivityAgrees, Waking
<1>13. GrantsAgree'
  BY <1>1, <1>2, <1>4, <1>6, <1>7, <1>8, <1>10
     DEF GrantsAgree, reader_at_head, Waking
<1>14. QueueBehindReaders'
  <2>1. wait_list # <<>> => flags[Head(wait_list)] \in {"read", "write"}
    BY <1>0 DEF TypeOK
  <2> QED
    BY <1>1, <1>2, <1>4, <2>1 DEF QueueBehindReaders, reader_at_head, Waking
<1> QED
  BY <1>2, <1>3, <1>5, <1>9, <1>10, <1>11, <1>12, <1>13, <1>14 DEF Inv

(* The waker takes the head off the queue and clears its waiter->task,     *)
(* from where on it holds the semaphore.                                   *)
LEMMA GrantStep ==
  ASSUME Inv, NEW x \in Contexts, grant(x)
  PROVE  /\ Inv' /\ UNCHANGED orphans
         /\ \E w \in Tasks : /\ mode(w) = "none"
                             /\ \/ Becomes(w, "shared") /\ Writers = {}
                                \/ /\ Becomes(w, "exclusive")
                                   /\ Readers = {} /\ Writers = {} /\ orphans = 0
<1> USE DEF grant, Goto
<1>0. /\ TypeOK /\ LockHeld /\ WakerLocals /\ QueueLive /\ UsageAgrees
      /\ ActivityAgrees /\ GrantsAgree /\ QueueBehindReaders /\ GrantedIsWoken
  BY DEF Inv
<1>1. /\ wait_lock = x /\ x # NoTask /\ wait_list # <<>>
      /\ pc[x] = "grant_read" => flags[Head(wait_list)] = "read"
      /\ pc[x] = "grant_write" => flags[Head(wait_list)] = "write"
  BY <1>0, RwsemAssumption, TasksAssumption
     DEF LockHeld, GrantsAgree, reader_at_head, Waking, Contexts
<1>2. /\ Head(wait_list) \in Tasks /\ Head(wait_list) \in Range(wait_list)
      /\ Tail(wait_list) \in Seq(Tasks) /\ IsInjective(Tail(wait_list))
      /\ \A z : z \in Range(Tail(wait_list)) <=> z \in Range(wait_list) /\ z # Head(wait_list)
  BY <1>0, <1>1, TailQueue DEF TypeOK, QueueLive
<1>3. PICK w \in Tasks :
        /\ w = Head(wait_list) /\ w # NoTask /\ w # x
        /\ waiter_task[w] = w /\ pc[w] \in {"check", "sched"}
        /\ tsk' = [tsk EXCEPT ![x] = w]
        /\ waiter_task' = [waiter_task EXCEPT ![w] = NoTask]
  BY <1>0, <1>2 DEF QueueLive
<1>4. /\ pc' = [pc EXCEPT ![x] = IF pc[x] = "grant_read" THEN "wake_reader" ELSE "wake_writer"]
      /\ pc[x] \in {"grant_read", "grant_write"} /\ wait_list' = Tail(wait_list)
      /\ UNCHANGED <<activity, wait_lock, flags, after, woken, usage, orphans, state>>
  OBVIOUS
<1> HIDE DEF grant
<1>5. TypeOK'
  BY <1>0, <1>2, <1>3, <1>4 DEF TypeOK, Pcs
<1>6. /\ \A y \in Contexts : y # x => pc'[y] = pc[y] /\ pc[y] \notin Waking
      /\ pc[x] = "grant_read" => pc'[x] = "wake_reader"
      /\ pc[x] = "grant_write" => pc'[x] = "wake_writer"
      /\ \A y \in Contexts : tsk[y] = NoTask /\ tsk'[y] = IF y = x THEN w ELSE NoTask
  BY <1>0, <1>3, <1>4 DEF TypeOK, LockHeld, WakerLocals, Waking
<1>7. LockHeld' /\ WakerLocals'
  BY <1>0, <1>3, <1>4, <1>6 DEF LockHeld, WakerLocals, Waking
<1>8. QueueLive'
  BY <1>0, <1>2, <1>3, <1>4 DEF TypeOK, QueueLive
<1>9. UsageAgrees'
  <2>1. \A u \in Tasks : BeingWoken(u)' <=> u = w
    BY <1>6, TasksAssumption DEF BeingWoken
  <2>2. \A u \in Tasks : ~BeingWoken(u)
    BY <1>6, TasksAssumption DEF BeingWoken
  <2>3. \A u \in Tasks : /\ pc'[u] = "exited" <=> pc[u] = "exited"
                         /\ u # w => waiter_task'[u] = waiter_task[u]
    BY <1>3, <1>4
  <2>4. waiter_task[w] # NoTask /\ waiter_task'[w] = NoTask
    BY <1>0, <1>3 DEF TypeOK
  <2> QED
    BY <1>0, <1>4, <2>1, <2>2, <2>3, <2>4 DEF UsageAgrees
<1>10. GrantedIsWoken'
  <2>1. pc'[x] \in {"wake_reader", "wake_writer"} /\ tsk'[x] = w
    BY <1>4, <1>6
  <2>2. \A u \in Tasks : ~(pc[u] = "sched" /\ Granted(u) /\ state[u] # TASK_RUNNING)
    BY <1>0, <1>6, TasksAssumption DEF GrantedIsWoken
  <2>3. \A u \in Tasks : u # w =>
          ~(pc'[u] = "sched" /\ Granted(u)' /\ state'[u] # TASK_RUNNING)
    BY <1>3, <1>4, <2>2 DEF Granted
  <2> QED
    BY <2>1, <2>3 DEF GrantedIsWoken
<1>11. mode(w) = "none" /\ Becomes(w, IF pc[x] = "grant_read" THEN "shared" ELSE "exclusive")
  BY <1>0, <1>1, <1>3, <1>4 DEF TypeOK, Becomes, mode, Reads, Writes, Granted
<1>12. /\ Writers = {}
       /\ pc[x] = "grant_write" => Readers = {} /\ orphans = 0 /\ activity = -1
       /\ pc[x] = "grant_read" =>
            activity >= 0 /\ activity + woken[x] = Cardinality(Readers) + orphans
  BY <1>0, <1>4 DEF GrantsAgree
<1>13. GrantsAgree'
  <2>1. CASE pc[x] = "grant_read"
    <3>1. Cardinality(Readers') = Cardinality(Readers) + 1 /\ Writers' = Writers
      BY <1>11, <2>1, ReadersCount
    <3>2. /\ Cardinality(Readers) \in Nat /\ activity \in Int /\ orphans \in Int
          /\ woken[x] \in Int
      BY <1>0, ModesFinite DEF TypeOK
    <3> QED
      BY <1>4, <1>6, <1>12, <2>1, <3>1, <3>2 DEF GrantsAgree, Waking
  <2>2. CASE pc[x] = "grant_write"
    <3>1. Cardinality(Writers') = 1 /\ Readers' = Readers
      BY <1>11, <1>12, <2>2, WritersCount
    <3> QED
      BY <1>4, <1>6, <1>12, <2>2, <3>1 DEF GrantsAgree, Waking
  <2> QED
    BY <1>4, <2>1, <2>2
<1>14. ActivityAgrees' /\ QueueBehindReaders'
  BY <1>1, <1>4 DEF ActivityAgrees, QueueBehindReaders
<1> QED
  BY <1>4, <1>5, <1>7, <1>8, <1>9, <1>10, <1>11, <1>12, <1>13, <1>14 DEF Inv

(* The waker calls wake_up_process, drops its reference and goes on to the *)
(* next reader, or adds what it has granted to activity and unlocks.       *)
LEMMA WakeStep ==
  ASSUME Inv, NEW x \in Contexts, wake_writer(x) \/ wake_reader(x)
  PROVE  Inv' /\ SameModes /\ UNCHANGED orphans
<1> USE DEF wake_writer, wake_reader, wake_and_put, Goto
<1>0. /\ TypeOK /\ LockHeld /\ WakerLocals /\ QueueLive /\ UsageAgrees
      /\ ActivityAgrees /\ GrantsAgree /\ QueueBehindReaders /\ GrantedIsWoken
  BY DEF Inv
<1>1. PICK v \in Tasks :
        /\ tsk[x] = v /\ tsk' = [tsk EXCEPT ![x] = NoTask]
        /\ usage' = [usage EXCEPT ![v] = @ - 1]
        /\ state' = [state EXCEPT ![v] = TASK_RUNNING]
  <2>1. tsk[x] \in Tasks
    BY <1>0 DEF TypeOK, WakerLocals
  <2>2. state[tsk[x]] \notin SleepState => state[tsk[x]] = TASK_RUNNING
    BY <1>0, <2>1 DEF TypeOK, TaskState
  <2>3. wake_up_process(state, tsk[x]) = [state EXCEPT ![tsk[x]] = TASK_RUNNING]
    BY <1>0, <2>2 DEF TypeOK, wake_up_process, try_to_wake_up
  <2> QED
    BY <2>1, <2>3
<1>2. PICK l \in {"idle", "read", "grant_read"} :
        /\ pc' = [pc EXCEPT ![x] = l]
        /\ l = "grant_read" => /\ pc[x] = "wake_reader" /\ reader_at_head
                               /\ woken' = [woken EXCEPT ![x] = @ + 1]
                               /\ UNCHANGED <<activity, wait_lock, after>>
        /\ l # "grant_read" => /\ l = after[x] /\ wait_lock' = NoTask
                               /\ after' = [after EXCEPT ![x] = "idle"]
                               /\ woken'[x] = 0
                               /\ \A y \in Contexts : y # x => woken'[y] = woken[y]
        /\ l # "grant_read" /\ pc[x] = "wake_reader" =>
             ~reader_at_head /\ activity' = activity + woken[x] + 1
        /\ pc[x] = "wake_writer" => UNCHANGED activity
  <2>1. CASE wake_writer(x)
    <3>1. after[x] = "idle" /\ woken[x] = 0
      BY <1>0, <2>1 DEF TypeOK, WakerLocals
    <3> QED
      BY <2>1, <3>1
  <2>2. CASE wake_reader(x)
    <3>1. after[x] \in {"idle", "read"} /\ activity \in Int /\ woken[x] \in Int
      BY <1>0 DEF TypeOK
    <3>3. woken' = [woken EXCEPT ![x] = 0] => woken'[x] = 0 /\ \A y \in Contexts : y # x => woken'[y] = woken[y]
      BY <1>0 DEF TypeOK
    <3> QED
      BY <2>2, <3>1, <3>3 DEF readers_woken
  <2> QED
    BY <2>1, <2>2
<1>3. pc[x] \in {"wake_reader", "wake_writer"} /\ UNCHANGED <<wait_list, waiter_task, flags, orphans>>
  OBVIOUS
<1>4. usage[v] > 0 /\ usage[v] \in Nat
  <2> HIDE DEF wake_writer, wake_reader
  <2>1. BeingWoken(v)
    BY <1>1 DEF BeingWoken
  <2>2. usage[v] = (IF pc[v] = "exited" THEN 0 ELSE 1)
                     + (IF waiter_task[v] # NoTask THEN 1 ELSE 0) + 1
    BY <1>0, <2>1 DEF UsageAgrees
  <2> QED
    BY <2>2
<1>5. TypeOK'
  <2>1. woken' \in [Contexts -> Nat] /\ after' \in [Contexts -> {"idle", "read"}]
    <3>1. woken' = woken \/ woken' = [woken EXCEPT ![x] = 0] \/ woken' = [woken EXCEPT ![x] = @ + 1]
      OBVIOUS
    <3>2. after' = after \/ after' = [after EXCEPT ![x] = "idle"]
      OBVIOUS
    <3> HIDE DEF wake_writer, wake_reader
    <3>3. woken \in [Contexts -> Nat] /\ woken[x] + 1 \in Nat
      BY <1>0 DEF TypeOK
    <3>4. woken' \in [Contexts -> Nat]
      BY <3>1, <3>3
    <3> QED
      BY <1>0, <3>2, <3>4 DEF TypeOK
  <2>2. activity' \in Int /\ wait_lock' \in Contexts \cup {NoTask}
    BY <1>0, <1>2 DEF TypeOK
  <2>3. usage' \in [Tasks -> Nat] /\ state' \in [Tasks -> TaskState]
    BY <1>0, <1>1, <1>4 DEF TypeOK, TaskState
  <2>4. pc' \in [Contexts -> Pcs] /\ tsk' \in [Contexts -> Tasks \cup {NoTask}]
    BY <1>0, <1>2 DEF TypeOK, Pcs
  <2> QED
    BY <1>0, <2>1, <2>2, <2>3, <2>4 DEF TypeOK
<1> HIDE DEF wake_writer, wake_reader
<1>6. /\ wait_lock = x /\ NoTask \notin Contexts /\ pc'[x] = l
      /\ \A y \in Contexts : y # x => pc'[y] = pc[y] /\ pc[y] \notin Waking
      /\ \A y \in Contexts : tsk'[y] = NoTask
  BY <1>0, <1>1, <1>2, RwsemAssumption, TasksAssumption
     DEF TypeOK, LockHeld, WakerLocals, Waking, Contexts
<1>7. /\ l = "read" => x \in Tasks /\ pc[x] = "wake_reader" /\ after[x] = "read"
      /\ x = Irq => l # "read"
      /\ \A y \in Contexts : y # x => after'[y] = after[y] /\ woken'[y] = woken[y]
  BY <1>0, <1>2, <1>3, RwsemAssumption DEF TypeOK, WakerLocals
<1>8. LockHeld' /\ WakerLocals'
  <2>1. LockHeld'
    BY <1>2, <1>6 DEF LockHeld, Waking
  <2>2. WakerLocals'
    BY <1>0, <1>2, <1>6, <1>7 DEF TypeOK, WakerLocals, Waking
  <2> QED
    BY <2>1, <2>2
<1>9. QueueLive'
  BY <1>0, <1>3, <1>6 DEF QueueLive, Contexts
<1>10. UsageAgrees'
  <2>1. \A u \in Tasks : ~BeingWoken(u)' /\ (BeingWoken(u) <=> u = v)
    BY <1>1, <1>6, TasksAssumption DEF BeingWoken
  <2>2. \A u \in Tasks : pc'[u] = "exited" <=> pc[u] = "exited"
    BY <1>3, <1>6 DEF Contexts
  <2>3. \A u \in Tasks : usage'[u] = IF u = v THEN usage[u] - 1 ELSE usage[u]
    BY <1>0, <1>1 DEF TypeOK
  <2>4. UNCHANGED waiter_task /\ \A u \in Tasks : usage[u] \in Nat
    BY <1>0, <1>3 DEF TypeOK
  <2>5. ASSUME NEW u \in Tasks
        PROVE  usage'[u] = (IF pc'[u] = "exited" THEN 0 ELSE 1)
                             + (IF waiter_task'[u] # NoTask THEN 1 ELSE 0) + 0
    <3>1. CASE u = v
      <4>1. usage[u] = (IF pc[u] = "exited" THEN 0 ELSE 1)
                         + (IF waiter_task[u] # NoTask THEN 1 ELSE 0) + 1
        BY <1>0, <2>1, <3>1 DEF UsageAgrees
      <4> QED
        BY <2>2, <2>3, <2>4, <3>1, <4>1
    <3>2. CASE u # v
      <4>1. usage[u] = (IF pc[u] = "exited" THEN 0 ELSE 1)
                         + (IF waiter_task[u] # NoTask THEN 1 ELSE 0) + 0
        BY <1>0, <2>1, <3>2 DEF UsageAgrees
      <4> QED
        BY <2>2, <2>3, <2>4, <3>2, <4>1
    <3> QED
      BY <3>1, <3>2
  <2> QED
    BY <2>1, <2>5 DEF UsageAgrees
<1>11. GrantedIsWoken'
  <2>1. \A u \in Tasks : u # v => ~(pc[u] = "sched" /\ Granted(u) /\ state[u] # TASK_RUNNING)
    BY <1>0, <1>1, <1>6, TasksAssumption DEF GrantedIsWoken
  <2>2. state'[v] = TASK_RUNNING /\ \A u \in Tasks : u # v => state'[u] = state[u]
    BY <1>0, <1>1 DEF TypeOK
  <2> QED
    BY <1>3, <1>6, <2>1, <2>2 DEF GrantedIsWoken, Granted, Contexts
<1>12. SameModes
  BY <1>2, <1>3, <1>6, <1>7
     DEF Contexts, SameModes, mode, Reads, Writes, Granted
<1>13. Readers' = Readers /\ Writers' = Writers
  BY <1>12, SameCounts
<1>14. /\ activity \in Int /\ woken[x] \in Nat /\ orphans \in Nat /\ Cardinality(Readers) \in Nat
  BY <1>0, ModesFinite DEF TypeOK
<1>15. ActivityAgrees'
  BY <1>0, <1>2, <1>3, <1>13 DEF ActivityAgrees, GrantsAgree
<1>16. GrantsAgree'
  <2>1. l = "grant_read" => woken'[x] = woken[x] + 1
    BY <1>0, <1>2 DEF TypeOK
  <2> QED
    BY <1>0, <1>2, <1>3, <1>6, <1>13, <1>14, <2>1
       DEF GrantsAgree, reader_at_head, Waking
<1>17. QueueBehindReaders'
  <2>1. wait_list # <<>> => flags[Head(wait_list)] \in {"read", "write"}
    BY <1>0 DEF TypeOK
  <2>2. /\ pc[x] = "wake_writer" => activity = -1
        /\ pc[x] = "wake_reader" => activity >= 0
    BY <1>0 DEF GrantsAgree
  <2> QED
    BY <1>2, <1>3, <1>6, <1>14, <2>1, <2>2
       DEF QueueBehindReaders, reader_at_head
<1> QED
  BY <1>3, <1>5, <1>8, <1>9, <1>10, <1>11, <1>12, <1>15, <1>16, <1>17 DEF Inv

(* Wake-ups from elsewhere, tasks that exit and their task_structs used    *)
(* again.                                                                  *)
LEMMA EnvironmentStep ==
  ASSUME Inv, NEW t \in Tasks, SpuriousWakeup(t) \/ Exit(t) \/ Fork(t)
  PROVE  Inv' /\ SameModes /\ UNCHANGED orphans
<1> USE DEF SpuriousWakeup, Exit, Fork, Goto, waker_vars
<1>0. /\ TypeOK /\ LockHeld /\ WakerLocals /\ QueueLive /\ UsageAgrees
      /\ ActivityAgrees /\ GrantsAgree /\ QueueBehindReaders /\ GrantedIsWoken
  BY DEF Inv
<1>1. /\ \A u \in Tasks : state'[u] = state[u] \/ state'[u] = TASK_RUNNING
      /\ state' \in [Tasks -> TaskState]
  BY <1>0 DEF TypeOK, wake_up_process, try_to_wake_up, TaskState
<1>2. /\ \A y \in Contexts : pc'[y] = pc[y] \/ {pc'[y], pc[y]} \subseteq {"idle", "exited"}
      /\ pc' \in [Contexts -> Pcs] /\ \A y \in Contexts : y # t => pc'[y] = pc[y]
  BY <1>0 DEF TypeOK, Pcs
<1>3. UsageAgrees' /\ usage' \in [Tasks -> Nat]
  <2>1. \A u \in Tasks : BeingWoken(u)' <=> BeingWoken(u)
    BY DEF BeingWoken
  <2>2. CASE SpuriousWakeup(t)
    BY <1>0, <2>2, UsageKept DEF TypeOK
  <2>3. CASE Exit(t)
    <3>1. usage[t] > 0
      BY <1>0, <2>3 DEF UsageAgrees
    <3> QED
      BY <1>0, <2>1, <2>3, <3>1 DEF TypeOK, UsageAgrees, Contexts
  <2>4. CASE Fork(t)
    BY <1>0, <2>1, <2>4 DEF TypeOK, UsageAgrees, Contexts
  <2> QED
    BY <2>2, <2>3, <2>4
<1>4. UNCHANGED <<activity, wait_lock, wait_list, waiter_task, flags, after, tsk, woken, orphans>>
  OBVIOUS
<1> HIDE DEF SpuriousWakeup, Exit, Fork
<1>5. TypeOK'
  BY <1>0, <1>1, <1>2, <1>3, <1>4 DEF TypeOK
<1>6. SameModes
  BY <1>2, <1>4 DEF Contexts, SameModes, mode, Reads, Writes, Granted
<1>7. LockHeld' /\ WakerLocals'
  BY <1>0, <1>2, <1>4, RwsemAssumption
     DEF LockHeld, WakerLocals, Waking, Contexts
<1>8. QueueLive'
  BY <1>0, <1>2, <1>4 DEF QueueLive, Contexts
<1>9. GrantedIsWoken'
  BY <1>0, <1>1, <1>2, <1>4, WokenKept DEF Contexts
<1>10. ActivityAgrees' /\ QueueBehindReaders'
  BY <1>0, <1>4, <1>6, SameCounts DEF ActivityAgrees, QueueBehindReaders
<1>11. GrantsAgree'
  BY <1>0, <1>2, <1>4, <1>6, SameCounts DEF GrantsAgree, reader_at_head
<1> QED
  BY <1>3, <1>4, <1>5, <1>6, <1>7, <1>8, <1>9, <1>10, <1>11 DEF Inv

-----------------------------------------------------------------------------
(* __init_rwsem: nobody holds the semaphore and nobody waits.              *)
LEMMA InvInit == Init => Inv
<1> SUFFICES ASSUME Init PROVE Inv
  OBVIOUS
<1>1. TypeOK
  BY RwsemAssumption DEF Init, TypeOK, Pcs, TaskState
<1>2. LockHeld /\ WakerLocals
  BY RwsemAssumption, TasksAssumption
     DEF Init, LockHeld, WakerLocals, Waking, Contexts
<1>3. QueueLive
  <2>1. wait_list = <<>> /\ wait_list \in Seq(Tasks) /\ 1 .. Len(wait_list) = {}
    BY DEF Init
  <2>2. IsInjective(wait_list) /\ \A t : t \notin Range(wait_list)
    BY <2>1, QueueMembers, Zenon
  <2> QED
    BY <2>2 DEF Init, QueueLive
<1>4. UsageAgrees /\ GrantedIsWoken
  BY TasksAssumption DEF Init, UsageAgrees, BeingWoken, GrantedIsWoken, Contexts
<1>5. Readers = {} /\ Writers = {}
  BY DEF Init, Readers, Writers, Reads, Writes, Granted, Contexts
<1>6. ActivityAgrees
  BY <1>5, FS_EmptySet DEF Init, ActivityAgrees
<1>7. GrantsAgree /\ QueueBehindReaders
  BY DEF Init, GrantsAgree, QueueBehindReaders
<1> QED
  BY <1>1, <1>2, <1>3, <1>4, <1>6, <1>7 DEF Inv

(* What a step may do to the modes of the tasks and to the read locks left *)
(* to the interrupt.                                                       *)
Holds ==
  \/ SameModes /\ UNCHANGED orphans
  \/ SameModes /\ orphans > 0 /\ orphans' = orphans - 1
  \/ \E t \in Tasks :
       \/ /\ UNCHANGED orphans
          /\ \/ mode(t) = "none" /\ Becomes(t, "shared") /\ Writers = {}
             \/ /\ mode(t) = "none" /\ Becomes(t, "exclusive")
                /\ Readers = {} /\ Writers = {} /\ orphans = 0
             \/ mode(t) = "exclusive" /\ Becomes(t, "shared")
             \/ mode(t) # "none" /\ Becomes(t, "none")
       \/ /\ mode(t) = "shared" /\ Becomes(t, "none")
          /\ orphans < MaxOrphans /\ orphans' = orphans + 1

(* down_read and down_write take the semaphore as the trylocks do, or      *)
(* queue the caller.                                                       *)
LEMMA DownStep ==
  ASSUME Inv, NEW t \in Tasks, down_read(t) \/ down_write(t)
  PROVE  Inv' /\ Holds
<1>1. CASE down_read(t) /\ may_read
  BY <1>1, TakeReadStep DEF down_read, down_read_trylock, Holds
<1>2. CASE down_read(t) /\ ~may_read
  <2>1. Inv' /\ SameModes /\ UNCHANGED orphans
    BY <1>2, EnqueueStep DEF down_read
  <2> QED
    BY <2>1 DEF Holds
<1>3. CASE down_write(t) /\ may_write
  BY <1>3, TakeWriteStep DEF down_write, down_write_trylock, Holds
<1>4. CASE down_write(t) /\ ~may_write
  <2>1. Inv' /\ SameModes /\ UNCHANGED orphans
    BY <1>4, EnqueueStep DEF down_write
  <2> QED
    BY <2>1 DEF Holds
<1> QED
  BY <1>1, <1>2, <1>3, <1>4

(* Every step keeps the invariant: one lemma per action above.             *)
LEMMA InvNext == Inv /\ [Next]_vars => Inv' /\ Holds
<1> SUFFICES ASSUME Inv, [Next]_vars PROVE Inv' /\ Holds
  OBVIOUS
<1>1. ASSUME NEW t \in Tasks, down_read(t) \/ down_write(t)
      PROVE  Inv' /\ Holds
  BY <1>1, DownStep
<1>2. ASSUME NEW t \in Tasks, down_read_trylock(t) \/ down_write_trylock(t)
      PROVE  Inv' /\ Holds
  BY <1>2, TakeReadStep, TakeWriteStep DEF Holds
<1>3. ASSUME NEW t \in Tasks, up_read(t)
      PROVE  Inv' /\ Holds
  <2>1. Inv' /\ mode(t) = "shared" /\ Becomes(t, "none") /\ UNCHANGED orphans
    BY <1>3, ReleaseReadStep DEF up_read, Contexts
  <2> QED
    BY <2>1 DEF Holds
<1>4. ASSUME NEW t \in Tasks, up_write(t) \/ downgrade_write(t)
      PROVE  Inv' /\ Holds
  BY <1>4, WriterStep DEF Holds
<1>5. ASSUME NEW t \in Tasks, Proceed(t)
      PROVE  Inv' /\ Holds
  BY <1>5, WaitStep DEF Proceed, Holds
<1>6. ASSUME NEW t \in Tasks, Environment(t)
      PROVE  Inv' /\ Holds
  <2>1. CASE SubmitDirectIO(t)
    BY <2>1, SubmitStep DEF SubmitDirectIO, Holds
  <2>2. CASE SpuriousWakeup(t) \/ Exit(t) \/ Fork(t)
    BY <2>2, EnvironmentStep DEF Holds
  <2> QED
    BY <1>6, <2>1, <2>2 DEF Environment
<1>7. ASSUME NEW x \in Contexts, Wake(x)
      PROVE  Inv' /\ Holds
  <2>1. CASE grant(x)
    BY <2>1, GrantStep DEF Holds
  <2>2. CASE wake_writer(x) \/ wake_reader(x)
    BY <2>2, WakeStep DEF Holds
  <2> QED
    BY <1>7, <2>1, <2>2 DEF Wake
<1>8. CASE up_read_non_owner
  <2>1. Inv' /\ SameModes /\ orphans > 0 /\ orphans' = orphans - 1
    BY <1>8, ReleaseReadStep DEF up_read_non_owner, Contexts
  <2> QED
    BY <2>1 DEF Holds
<1>9. CASE UNCHANGED vars
  <2> USE <1>9 DEF vars
  <2>1. SameModes
    BY DEF SameModes, mode, Reads, Writes, Granted
  <2>2. Readers' = Readers /\ Writers' = Writers
    BY <2>1, SameCounts
  <2>3. TypeOK' /\ LockHeld' /\ WakerLocals' /\ QueueLive'
    BY DEF Inv, TypeOK, LockHeld, WakerLocals, QueueLive
  <2>4. UsageAgrees' /\ GrantedIsWoken'
    BY UsageKept, WokenKept DEF Inv
  <2>5. ActivityAgrees' /\ GrantsAgree' /\ QueueBehindReaders'
    BY <2>2
       DEF Inv, ActivityAgrees, GrantsAgree, QueueBehindReaders, reader_at_head
  <2> QED
    BY <2>1, <2>3, <2>4, <2>5 DEF Inv, Holds
<1> QED
  BY <1>1, <1>2, <1>3, <1>4, <1>5, <1>6, <1>7, <1>8, <1>9 DEF Next, Call

(* So it holds in every state.                                             *)
LEMMA InvHolds == Spec => []Inv
  BY InvInit, InvNext, PTL DEF Spec

(* Every variable of lib/rwsem-spinlock.c keeps its type; no reference     *)
(* count of a task_struct goes below zero.                                 *)
THEOREM RwsemTypeOK == Spec => []TypeOK
<1>1. Inv => TypeOK
  BY DEF Inv
<1> QED
  BY <1>1, InvHolds, PTL

(* Whenever wait_lock is free, activity is the number of readers, or -1    *)
(* for one writer: so there is never a writer beside another holder.       *)
THEOREM RwsemActivity == Spec => []ActivityAgrees
<1>1. Inv => ActivityAgrees
  BY DEF Inv
<1> QED
  BY <1>1, InvHolds, PTL

(* __rwsem_wake_one_writer only ever meets a writer at the head.           *)
THEOREM RwsemQueueBehindReaders == Spec => []QueueBehindReaders
<1>1. Inv => QueueBehindReaders
  BY DEF Inv
<1> QED
  BY <1>1, InvHolds, PTL

(* A waker touches only live stack frames and live task_structs.           *)
THEOREM RwsemNoStaleWaiter == Spec => []NoStaleWaiter
<1>1. Inv => NoStaleWaiter
  <2> SUFFICES ASSUME Inv PROVE NoStaleWaiter
    OBVIOUS
  <2>1. ASSUME NEW i \in DOMAIN wait_list
        PROVE  Waiting(wait_list[i]) /\ waiter_task[wait_list[i]] = wait_list[i]
    <3>1. wait_list[i] \in Tasks /\ wait_list[i] \in Range(wait_list)
      BY QueueMembers DEF Inv, TypeOK
    <3> QED
      BY <3>1 DEF Inv, QueueLive, Waiting
  <2>2. ASSUME NEW x \in Contexts, pc[x] \in {"wake_reader", "wake_writer"}
        PROVE  usage[tsk[x]] > 0
    <3>1. tsk[x] \in Tasks
      BY <2>2 DEF Inv, TypeOK, WakerLocals
    <3>2. BeingWoken(tsk[x])
      BY DEF BeingWoken
    <3> QED
      BY <3>1, <3>2 DEF Inv, UsageAgrees
  <2> QED
    BY <2>1, <2>2 DEF NoStaleWaiter
<1> QED
  BY <1>1, InvHolds, PTL

(* A granted task that sleeps has a waker that will still wake it.         *)
THEOREM RwsemWakes == Spec => []GrantedIsWoken
<1>1. Inv => GrantedIsWoken
  BY DEF Inv
<1> QED
  BY <1>1, InvHolds, PTL

-----------------------------------------------------------------------------
(* The semaphore implements the abstract lock.                             *)

(* The hold of each holder as the refinement mapping has it.               *)
hold(h) == IF h \in Tasks THEN mode(h) ELSE IF h <= orphans THEN "shared" ELSE "none"

(* Every step is a step of the abstract lock, or leaves what it sees       *)
(* alone: the grants are those of the wake-up loop and of the fast paths,  *)
(* and a downgrade is one.                                                 *)
LEMMA LockStep == Inv /\ [Next]_vars => [Lock!Next]_(Lock!vars)
<1> SUFFICES ASSUME Inv, [Next]_vars
             PROVE  Lock!Next \/ UNCHANGED Lock!vars
  OBVIOUS
<1> DEFINE held == [h \in Holders |->
                     IF h \in Tasks
                     THEN IF Writes(h) THEN "exclusive"
                          ELSE IF Reads(h) THEN "shared" ELSE "none"
                     ELSE IF h <= orphans THEN "shared" ELSE "none"]
<1>1. held = [h \in Holders |-> hold(h)] /\ held' = [h \in Holders |-> hold(h)']
  BY DEF hold, mode
<1>2. /\ \A h \in Holders : h \notin Tasks => h \in 1 .. MaxOrphans
      /\ \A h \in 1 .. MaxOrphans : h \in Holders /\ h \notin Tasks
      /\ Tasks \subseteq Holders /\ orphans \in Nat /\ orphans <= MaxOrphans /\ MaxOrphans \in Nat
  <2>1. orphans \in Nat /\ orphans <= MaxOrphans /\ MaxOrphans \in Nat
    BY RwsemAssumption DEF Inv, TypeOK
  <2> QED
    BY <2>1, RwsemAssumption DEF Holders
<1>3. Holds
  BY InvNext
<1>4. CASE SameModes /\ UNCHANGED orphans
  <2>1. held' = held
    BY <1>1, <1>4 DEF hold, SameModes
  <2> QED
    BY <2>1 DEF Lock!vars
<1>5. CASE SameModes /\ orphans > 0 /\ orphans' = orphans - 1
  <2>1. PICK n \in 1 .. MaxOrphans : n = orphans
    BY <1>2, <1>5
  <2>2. n \in Holders /\ hold(n) = "shared"
    BY <1>2, <2>1 DEF hold
  <2>3. \A h \in Holders : hold(h)' = IF h = n THEN "none" ELSE hold(h)
    BY <1>2, <1>5, <2>1 DEF hold, SameModes
  <2>4. held[n] # "none" /\ held' = [held EXCEPT ![n] = "none"]
    BY <1>1, <2>2, <2>3
  <2>5. Lock!Release(n)
    BY <2>4 DEF Lock!Release
  <2> QED
    BY <2>2, <2>5 DEF Lock!Next
<1>6. ASSUME NEW t \in Tasks, NEW m, Becomes(t, m), UNCHANGED orphans
      PROVE  t \in Holders /\ held[t] = mode(t) /\ held' = [held EXCEPT ![t] = m]
  <2>1. \A h \in Holders : hold(h)' = IF h = t THEN m ELSE hold(h)
    BY <1>6 DEF hold, Becomes
  <2> QED
    BY <1>1, <1>2, <2>1 DEF hold
<1>7. ASSUME NEW t \in Tasks, UNCHANGED orphans, mode(t) = "none", Becomes(t, "shared"),
             Writers = {}
      PROVE  Lock!Next
  <2>1. \A h \in Holders : held[h] # "exclusive"
    BY <1>1, <1>7, ModeSets DEF hold
  <2>2. Lock!AcquireShared(t)
    BY <1>6, <1>7, <2>1 DEF Lock!AcquireShared
  <2> QED
    BY <1>2, <2>2 DEF Lock!Next
<1>8. ASSUME NEW t \in Tasks, UNCHANGED orphans, mode(t) = "none", Becomes(t, "exclusive"),
             Readers = {}, Writers = {}, orphans = 0
      PROVE  Lock!Next
  <2>1. \A h \in Tasks : mode(h) = "none"
    BY <1>8, ModeSets DEF mode
  <2>2. \A h \in Holders : held[h] = "none"
    BY <1>1, <1>2, <1>8, <2>1 DEF hold
  <2>3. Lock!AcquireExclusive(t)
    BY <1>6, <1>8, <2>2 DEF Lock!AcquireExclusive
  <2> QED
    BY <1>2, <2>3 DEF Lock!Next
<1>9. ASSUME NEW t \in Tasks, UNCHANGED orphans, mode(t) = "exclusive", Becomes(t, "shared")
      PROVE  Lock!Next
  <2>1. Lock!Downgrade(t)
    BY <1>6, <1>9 DEF Lock!Downgrade
  <2> QED
    BY <1>2, <2>1 DEF Lock!Next
<1>10. ASSUME NEW t \in Tasks, UNCHANGED orphans, mode(t) # "none", Becomes(t, "none")
       PROVE  Lock!Next
  <2>1. Lock!Release(t)
    BY <1>6, <1>10 DEF Lock!Release
  <2> QED
    BY <1>2, <2>1 DEF Lock!Next
<1>11. ASSUME NEW t \in Tasks, mode(t) = "shared", Becomes(t, "none"),
              orphans < MaxOrphans, orphans' = orphans + 1
       PROVE  Lock!Next
  <2>1. PICK n \in 1 .. MaxOrphans : n = orphans + 1
    BY <1>2, <1>11
  <2>2. n \in Holders /\ t \in Holders /\ n # t /\ hold(n) = "none" /\ hold(t) = "shared"
    BY <1>2, <1>11, <2>1 DEF hold
  <2>3. \A h \in Holders : hold(h)' = IF h = t THEN "none" ELSE IF h = n THEN "shared" ELSE hold(h)
    BY <1>2, <1>11, <2>1 DEF hold, Becomes
  <2>4. /\ held[t] = "shared" /\ held[n] = "none"
        /\ held' = [held EXCEPT ![t] = "none", ![n] = "shared"]
    BY <1>1, <2>2, <2>3
  <2>5. Lock!Transfer(t, n)
    BY <2>4 DEF Lock!Transfer
  <2> QED
    BY <2>2, <2>5 DEF Lock!Next
<1> QED
  BY <1>3, <1>4, <1>5, <1>7, <1>8, <1>9, <1>10, <1>11 DEF Holds

(* The semaphore implements the lock of module LockSpec: exclusive grants  *)
(* only while nobody holds it, shared ones only while no writer does,      *)
(* downgrades, releases, and read locks left to an interrupt.              *)
THEOREM RwsemImplementsLock == Spec => ImplementsLock
<1>1. Init => Lock!Init
  BY DEF Init, Lock!Init, Holders, Reads, Writes, Granted, Contexts
<1>2. Inv /\ [Next]_vars => [Lock!Next]_(Lock!vars)
  BY LockStep
<1> QED
  BY <1>1, <1>2, InvHolds, PTL DEF Spec, ImplementsLock, Lock!Spec

=============================================================================
