------------------------------- MODULE Mutex -------------------------------
(***************************************************************************)
(* kernel/mutex.c: one struct mutex and the tasks that use it.             *)
(*                                                                         *)
(* `count' is an atomic_t touched by the lock-free fast paths at any       *)
(* moment, also while another task holds the spinlock `wait_lock', which   *)
(* protects only `wait_list'.  So every atomic operation on `count' is a   *)
(* step of its own.  Taking wait_lock is joined to the first access made   *)
(* under it, and dropping it to the last one.                              *)
(*                                                                         *)
(* The fast paths come from one of three headers; `arch' is chosen when    *)
(* the kernel is built and never changes:                                  *)
(*   "dec"           asm-generic/mutex-dec.h with cmpxchg (MIPS)           *)
(*   "dec_nocmpxchg" the same without __HAVE_ARCH_CMPXCHG                  *)
(*   "xchg"          asm-generic/mutex-xchg.h                              *)
(*   "null"          asm-generic/mutex-null.h (CONFIG_DEBUG_MUTEXES)       *)
(*                                                                         *)
(* Callers respect the rules of include/linux/mutex.h: only the owner      *)
(* unlocks, nobody locks recursively.                                      *)
(***************************************************************************)
EXTENDS Tasks, Integers, SequencesExt

CONSTANT Arch,      \* the fast paths to consider
         LockModes, \* sleep states passed to __mutex_lock_common
         Signals    \* signals the tasks may be sent

ASSUME MutexAssumption ==
  /\ Arch \subseteq {"dec", "dec_nocmpxchg", "xchg", "null"}
  /\ LockModes \subseteq SleepState
  /\ Signals \subseteq Signal \ {"none"}

VARIABLES
  arch,       \* which header provides the fast paths
  count,      \* 1: unlocked, 0: locked, negative: locked, possible waiters
  wait_lock,  \* the task holding the spinlock, or NoTask
  wait_list,  \* the queued tasks, first come first
  pc,         \* where each task is in the mutex code
  mode,       \* the state in which the task's current lock call sleeps
  prev,       \* the local variable prev of a trylock
  state,      \* task states
  sig         \* pending signals

vars == <<arch, count, wait_lock, wait_list, pc, mode, prev, state, sig>>

(* "idle"        not using the mutex                                       *)
(* "lock_slow"   fast path failed, about to enter __mutex_lock_common      *)
(* "retry"       queued, holds wait_lock, before the xchg of the loop      *)
(* "sched"       queued, in schedule()                                     *)
(* "got"         took the mutex, still queued, holds wait_lock             *)
(* "cs"          returned from a successful lock call: owns the mutex      *)
(* "unlock_slow" fast unlock failed, about to take wait_lock               *)
(* "unlock_wake" holds wait_lock, about to wake the first waiter           *)
(* "try_slow"    about to enter __mutex_trylock_slowpath                   *)
(* "try_set"     holds wait_lock in __mutex_trylock_slowpath               *)
(* "try_restore" between the two xchgs of the xchg-based trylock           *)
Pcs == {"idle", "lock_slow", "retry", "sched", "got", "cs", "unlock_slow",
        "unlock_wake", "try_slow", "try_set", "try_restore"}

Init ==
  /\ arch \in Arch
  /\ count = 1
  /\ wait_lock = NoTask
  /\ wait_list = <<>>
  /\ pc = [t \in Tasks |-> "idle"]
  /\ mode = [t \in Tasks |-> TASK_UNINTERRUPTIBLE]
  /\ prev = [t \in Tasks |-> 0]
  /\ state = [t \in Tasks |-> TASK_RUNNING]
  /\ sig = [t \in Tasks |-> "none"]

Goto(t, l) == pc' = [pc EXCEPT ![t] = l]

-----------------------------------------------------------------------------
(* The fast paths of each header: the count they leave, and whether they   *)
(* succeed without calling fail_fn.  mutex-null.h always calls it.         *)

dec_fastpath_lock(c)   == c - 1
dec_fastpath_unlock(c) == c + 1

\* defect: the sign test is off by one, a mutex locked without waiters is taken
dec_lock_ok_off_by_one(c) == dec_fastpath_lock(c) >= -1

dec_lock_ok(c)   == dec_fastpath_lock(c) >= 0
dec_unlock_ok(c) == dec_fastpath_unlock(c) > 0

xchg_lock_ok(c)   == c = 1
xchg_unlock_ok(c) == c = 0

uses_dec == arch \in {"dec", "dec_nocmpxchg"}

fastpath_lock(c) ==
  IF arch = "xchg" THEN 0 ELSE IF uses_dec THEN dec_fastpath_lock(c) ELSE c

fastpath_lock_ok(c) ==
  \/ arch = "xchg" /\ xchg_lock_ok(c)
  \/ uses_dec /\ dec_lock_ok(c)

fastpath_unlock(c) ==
  IF arch = "xchg" THEN 1 ELSE IF uses_dec THEN dec_fastpath_unlock(c) ELSE c

fastpath_unlock_ok(c) ==
  \/ arch = "xchg" /\ xchg_unlock_ok(c)
  \/ uses_dec /\ dec_unlock_ok(c)

\* defect: a failed fast unlock is always taken to have released the mutex
slowpath_never_unlocks == FALSE

(* Did a failed fast unlock leave the mutex locked?                        *)
slowpath_needs_to_unlock == arch # "xchg"

-----------------------------------------------------------------------------
(* Locking.                                                                *)

(* The parameter st is dead once the call has returned.                    *)
forget_mode(t) == mode' = [mode EXCEPT ![t] = TASK_UNINTERRUPTIBLE]

(* mutex_lock, mutex_lock_killable and mutex_lock_interruptible, which     *)
(* differ in the state st in which they sleep.                             *)
mutex_lock(t, st) ==
  /\ pc[t] = "idle"
  /\ count' = fastpath_lock(count)
  /\ \/ /\ fastpath_lock_ok(count)
        /\ Goto(t, "cs")
        /\ UNCHANGED mode
     \/ /\ ~fastpath_lock_ok(count)
        /\ Goto(t, "lock_slow")
        /\ mode' = [mode EXCEPT ![t] = st]
  /\ UNCHANGED <<arch, wait_lock, wait_list, prev, state, sig>>

(* __mutex_lock_common up to its first xchg.                               *)
mutex_lock_common(t) ==
  /\ pc[t] = "lock_slow"
  /\ wait_lock = NoTask
  /\ wait_lock' = t
  /\ wait_list' = Append(wait_list, t)
  /\ count' = -1
  /\ Goto(t, IF count = 1 THEN "got" ELSE "retry")
  /\ UNCHANGED <<arch, mode, prev, state, sig>>

\* defect: the pending signal is tested before the mutex is tried again
lock_loop_signal_first(t) ==
  IF signal_pending_state(mode[t], sig[t])
  THEN /\ wait_list' = RemoveFirst(wait_list, t)
       /\ wait_lock' = NoTask
       /\ state' = [state EXCEPT ![t] = TASK_RUNNING]
       /\ forget_mode(t)
       /\ Goto(t, "idle")
       /\ UNCHANGED count
  ELSE /\ count' = -1
       /\ wait_lock' = IF count = 1 THEN t ELSE NoTask
       /\ state' = [state EXCEPT ![t] = IF count = 1 THEN TASK_RUNNING ELSE mode[t]]
       /\ Goto(t, IF count = 1 THEN "got" ELSE "sched")
       /\ UNCHANGED <<wait_list, mode>>

(* One round of the loop with wait_lock held: try the mutex, or give up on *)
(* a signal (-EINTR), or go to sleep.  wait_lock is kept only by the       *)
(* winner.                                                                 *)
lock_loop(t) ==
  /\ count' = -1
  /\ \/ /\ count = 1
        /\ wait_lock' = t
        /\ state' = [state EXCEPT ![t] = TASK_RUNNING]
        /\ Goto(t, "got")
        /\ UNCHANGED <<wait_list, mode>>
     \/ /\ count # 1
        /\ signal_pending_state(mode[t], sig[t])
        /\ wait_list' = RemoveFirst(wait_list, t)
        /\ wait_lock' = NoTask
        /\ state' = [state EXCEPT ![t] = TASK_RUNNING]
        /\ forget_mode(t)
        /\ Goto(t, "idle")
     \/ /\ count # 1
        /\ ~signal_pending_state(mode[t], sig[t])
        /\ wait_lock' = NoTask
        /\ state' = [state EXCEPT ![t] = mode[t]]
        /\ Goto(t, "sched")
        /\ UNCHANGED <<wait_list, mode>>

lock_retry(t) ==
  /\ pc[t] = "retry"
  /\ lock_loop(t)
  /\ UNCHANGED <<arch, prev, sig>>

(* schedule() returns and the loop goes round with wait_lock retaken.      *)
lock_wakes(t) ==
  /\ pc[t] = "sched"
  /\ schedule_returns(state[t], sig[t])
  /\ wait_lock = NoTask
  /\ lock_loop(t)
  /\ UNCHANGED <<arch, prev, sig>>

\* defect: the count is reset although others are still queued
lock_done_always_reset(t) ==
  /\ pc[t] = "got"
  /\ wait_list' = RemoveFirst(wait_list, t)
  /\ count' = 0
  /\ wait_lock' = NoTask
  /\ forget_mode(t)
  /\ Goto(t, "cs")
  /\ UNCHANGED <<arch, prev, state, sig>>

(* The label done: leave the queue, reset the count if it is empty.        *)
lock_done(t) ==
  /\ pc[t] = "got"
  /\ wait_list' = RemoveFirst(wait_list, t)
  /\ count' = IF wait_list' = <<>> THEN 0 ELSE count
  /\ wait_lock' = NoTask
  /\ forget_mode(t)
  /\ Goto(t, "cs")
  /\ UNCHANGED <<arch, prev, state, sig>>

-----------------------------------------------------------------------------
(* Unlocking.                                                              *)

mutex_unlock(t) ==
  /\ pc[t] = "cs"
  /\ count' = fastpath_unlock(count)
  /\ Goto(t, IF fastpath_unlock_ok(count) THEN "idle" ELSE "unlock_slow")
  /\ UNCHANGED <<arch, wait_lock, wait_list, mode, prev, state, sig>>

\* defect: the slow path increments the count, whatever the fast path left
unlock_slowpath_increments(t) ==
  /\ pc[t] = "unlock_slow"
  /\ wait_lock = NoTask
  /\ wait_lock' = t
  /\ count' = count + 1
  /\ Goto(t, "unlock_wake")
  /\ UNCHANGED <<arch, wait_list, mode, prev, state, sig>>

(* __mutex_unlock_common_slowpath: release the mutex if the fast path did  *)
(* not ...                                                                 *)
unlock_slowpath(t) ==
  /\ pc[t] = "unlock_slow"
  /\ wait_lock = NoTask
  /\ wait_lock' = t
  /\ count' = IF slowpath_needs_to_unlock THEN 1 ELSE count
  /\ Goto(t, "unlock_wake")
  /\ UNCHANGED <<arch, wait_list, mode, prev, state, sig>>

(* ... and wake the first waiter, which stays queued.                      *)
unlock_wake(t) ==
  /\ pc[t] = "unlock_wake"
  /\ state' = IF wait_list = <<>> THEN state
              ELSE wake_up_process(state, Head(wait_list))
  /\ wait_lock' = NoTask
  /\ Goto(t, "idle")
  /\ UNCHANGED <<arch, count, wait_list, mode, prev, sig>>

-----------------------------------------------------------------------------
(* mutex_trylock.                                                          *)

trylock_cmpxchg(t) ==
  /\ arch = "dec"
  /\ pc[t] = "idle"
  /\ count' = IF count = 1 THEN 0 ELSE count
  /\ Goto(t, IF count = 1 THEN "cs" ELSE "idle")
  /\ UNCHANGED <<arch, wait_lock, wait_list, mode, prev, state, sig>>

trylock_xchg(t) ==
  /\ arch = "xchg"
  /\ pc[t] = "idle"
  /\ count' = 0
  /\ prev' = [prev EXCEPT ![t] = IF count < 0 THEN count ELSE 0]
  /\ Goto(t, IF count < 0 THEN "try_restore"
             ELSE IF count = 1 THEN "cs" ELSE "idle")
  /\ UNCHANGED <<arch, wait_lock, wait_list, mode, state, sig>>

\* defect: a negative value read back is returned as success
trylock_restore_nonzero(t) ==
  /\ pc[t] = "try_restore"
  /\ count' = prev[t]
  /\ prev' = [prev EXCEPT ![t] = 0]
  /\ Goto(t, IF count # 0 THEN "cs" ELSE "idle")
  /\ UNCHANGED <<arch, wait_lock, wait_list, mode, state, sig>>

(* The contended mark is put back; a 1 read by this second xchg means that *)
(* the mutex was released in between and is now ours.                      *)
trylock_restore(t) ==
  /\ pc[t] = "try_restore"
  /\ count' = prev[t]
  /\ prev' = [prev EXCEPT ![t] = 0]
  /\ Goto(t, IF count = 1 THEN "cs" ELSE "idle")
  /\ UNCHANGED <<arch, wait_lock, wait_list, mode, state, sig>>

trylock_fail_fn(t) ==
  /\ arch \in {"dec_nocmpxchg", "null"}
  /\ pc[t] = "idle"
  /\ Goto(t, "try_slow")
  /\ UNCHANGED <<arch, count, wait_lock, wait_list, mode, prev, state, sig>>

(* __mutex_trylock_slowpath: the xchg under wait_lock ...                  *)
trylock_slowpath(t) ==
  /\ pc[t] = "try_slow"
  /\ wait_lock = NoTask
  /\ wait_lock' = t
  /\ prev' = [prev EXCEPT ![t] = count]
  /\ count' = -1
  /\ Goto(t, "try_set")
  /\ UNCHANGED <<arch, wait_list, mode, state, sig>>

(* ... and the reset of the count if nobody is queued.                     *)
trylock_set(t) ==
  /\ pc[t] = "try_set"
  /\ count' = IF wait_list = <<>> THEN 0 ELSE count
  /\ prev' = [prev EXCEPT ![t] = 0]
  /\ wait_lock' = NoTask
  /\ Goto(t, IF prev[t] = 1 THEN "cs" ELSE "idle")
  /\ UNCHANGED <<arch, wait_list, mode, state, sig>>

-----------------------------------------------------------------------------
(* The rest of the kernel: signals arrive, a task handles its signal (or   *)
(* is replaced by another, if it was killed) once it is out of the mutex   *)
(* code, and a sleeper may be woken for a reason unrelated to the mutex.   *)

SendSignal(t, sg) ==
  /\ sig[t] # sg
  /\ sig[t] # "fatal"
  /\ sig' = [sig EXCEPT ![t] = sg]
  /\ state' = signal_wake_up(state, t, sg)
  /\ UNCHANGED <<arch, count, wait_lock, wait_list, pc, mode, prev>>

HandleSignal(t) ==
  /\ pc[t] = "idle"
  /\ sig[t] # "none"
  /\ sig' = [sig EXCEPT ![t] = "none"]
  /\ UNCHANGED <<arch, count, wait_lock, wait_list, pc, mode, prev, state>>

SpuriousWakeup(t) ==
  /\ state[t] # TASK_RUNNING
  /\ state' = wake_up_process(state, t)
  /\ UNCHANGED <<arch, count, wait_lock, wait_list, pc, mode, prev, sig>>

Environment(t) ==
  \/ \E sg \in Signals : SendSignal(t, sg)
  \/ HandleSignal(t)
  \/ SpuriousWakeup(t)

(* Calls made by the users of the mutex.                                   *)
Call(t) ==
  \/ \E st \in LockModes : mutex_lock(t, st)
  \/ mutex_unlock(t)
  \/ trylock_cmpxchg(t)
  \/ trylock_xchg(t)
  \/ trylock_fail_fn(t)

(* Steps of a call under way.                                              *)
Proceed(t) ==
  \/ mutex_lock_common(t)
  \/ lock_retry(t)
  \/ lock_wakes(t)
  \/ lock_done(t)
  \/ unlock_slowpath(t)
  \/ unlock_wake(t)
  \/ trylock_restore(t)
  \/ trylock_slowpath(t)
  \/ trylock_set(t)

Next == \E t \in Tasks : Call(t) \/ Proceed(t) \/ Environment(t)

(* The scheduler runs every runnable task: a call under way goes on.       *)
(* Nothing obliges a task to call, to unlock, or to be disturbed.          *)
Fairness == \A t \in Tasks : WF_vars(Proceed(t))

Spec == Init /\ [][Next]_vars /\ Fairness

-----------------------------------------------------------------------------
(* The task that has taken the mutex and not yet made it available again.  *)
Owns(t) ==
  \/ pc[t] \in {"got", "cs"}
  \/ pc[t] = "unlock_slow" /\ slowpath_needs_to_unlock
  \/ pc[t] = "try_set" /\ prev[t] = 1

(* A task in schedule() that nothing has woken yet.                        *)
Asleep(t) == pc[t] = "sched" /\ ~schedule_returns(state[t], sig[t])

(* Tasks in the middle of a slow path that will either try the mutex or    *)
(* pass a wake-up on.                                                      *)
InTransit(t) ==
  pc[t] \in {"lock_slow", "retry", "unlock_slow", "unlock_wake", "try_restore"}

TypeOK ==
  /\ arch \in Arch
  /\ count \in Int /\ count <= 1
  /\ wait_lock \in Tasks \cup {NoTask}
  /\ wait_list \in Seq(Tasks)
  /\ pc \in [Tasks -> Pcs]
  /\ mode \in [Tasks -> SleepState]
  /\ prev \in [Tasks -> Int]
  /\ state \in [Tasks -> TaskState]
  /\ sig \in [Tasks -> Signal]

(* "only one task can hold the mutex at a time" (include/linux/mutex.h),   *)
(* over all the interleavings of fast paths, slow paths and trylocks.      *)
MutualExclusion ==
  \A t, u \in Tasks : pc[t] = "cs" /\ pc[u] = "cs" => t = u

(* The mutex is free exactly when nobody owns it: count never says 1 while *)
(* an owner is left, and a mutex that was released is never left looking   *)
(* locked, although lockers, trylocks and the unlocker all write count.    *)
CountAgrees == count = 1 <=> \A t \in Tasks : ~Owns(t)

(* No wake-up is lost: while every queued task sleeps, either the mutex is *)
(* owned and its count is negative, so that mutex_unlock must take the     *)
(* slow path and wake a waiter, or another task is in the middle of a slow *)
(* path on their behalf.                                                   *)
SleepersCovered ==
  (wait_list # <<>> /\ \A i \in DOMAIN wait_list : Asleep(wait_list[i])) =>
    \/ count < 0 /\ \E t \in Tasks : Owns(t)
    \/ \E t \in Tasks : InTransit(t)

(* A free mutex with tasks queued on it does not stay free: somebody takes *)
(* it, also when the woken waiter leaves on a signal.                      *)
FreeMutexIsTaken ==
  (count = 1 /\ wait_list # <<>>) ~> (\E t \in Tasks : Owns(t))

(* The mutex implements the abstract lock with exclusive grants.           *)
Lock == INSTANCE LockSpec WITH
          held <- [t \in Tasks |-> IF Owns(t) THEN "exclusive" ELSE "none"]

(* Every step of the mutex code, seen through Owns, is a grant to one task *)
(* while nobody holds the mutex, a release by its owner, or invisible.     *)
ImplementsLock == Lock!Spec

=============================================================================
