-------------------------------- MODULE Rwsem --------------------------------
(***************************************************************************)
(* lib/rwsem-spinlock.c: one read/write semaphore, as used through         *)
(* kernel/rwsem.c.                                                         *)
(*                                                                         *)
(* `activity' and `wait_list' are touched only under the spinlock          *)
(* `wait_lock', but a grant is announced outside it: the waker clears      *)
(* waiter->task, and from that store on the waiter, whose loop reads the   *)
(* field without the lock, may return and drop its stack frame before the  *)
(* waker calls wake_up_process on it.  So a section under wait_lock is one *)
(* step unless it grants; then every grant takes two steps, the store and  *)
(* the wake-up, with wait_lock held.                                       *)
(*                                                                         *)
(* Callers respect the usual rules: who holds the semaphore does not ask   *)
(* for it again, and releases it in the mode in which it holds it.  Direct *)
(* I/O takes a read lock with down_read_non_owner and leaves its release,  *)
(* up_read_non_owner, to the interrupt that completes the I/O; the taker   *)
(* itself is then free to exit.                                            *)
(***************************************************************************)
EXTENDS Tasks, Integers, SequencesExt

CONSTANT Irq,        \* the context of the completion interrupts
         MaxOrphans  \* bound on the read locks left to them

ASSUME RwsemAssumption ==
  /\ IsFiniteSet(Tasks)
  /\ Irq \notin Tasks \cup {NoTask}
  /\ MaxOrphans \in Nat
  /\ Tasks \cap 1..MaxOrphans = {}

Contexts == Tasks \cup {Irq}

VARIABLES
  activity,    \* number of readers, or -1 when a writer is active
  wait_lock,   \* the task holding the spinlock, or NoTask
  wait_list,   \* the queued tasks, first come first
  waiter_task, \* the field task of each task's struct rwsem_waiter
  flags,       \* its field flags: "read" or "write"
  pc,          \* where each task is in the semaphore code
  after,       \* where a task goes when it has dropped wait_lock
  tsk,         \* the local variable tsk of a waker
  woken,       \* its local variable woken
  usage,       \* reference count of each task_struct
  orphans,     \* number of read locks left to the interrupt to release
  state        \* task states

vars == <<activity, wait_lock, wait_list, waiter_task, flags, pc, after, tsk,
          woken, usage, orphans, state>>

(* "idle"        not using the semaphore                                   *)
(* "check"       queued or granted, about to test waiter.task              *)
(* "sched"       queued or granted, in schedule()                          *)
(* "read"        returned with a read lock                                 *)
(* "write"       returned with the write lock                              *)
(* "grant_read"  a waker about to grant the head of the queue a read lock  *)
(* "grant_write" a waker about to grant it the write lock                  *)
(* "wake_reader", "wake_writer"  a waker that has cleared ->task           *)
(* "exited"      the task has left the system                              *)
Pcs == {"idle", "check", "sched", "read", "write", "grant_read", "grant_write",
        "wake_reader", "wake_writer", "exited"}

Init ==
  /\ activity = 0
  /\ wait_lock = NoTask
  /\ wait_list = <<>>
  /\ waiter_task = [t \in Tasks |-> NoTask]
  /\ flags = [t \in Tasks |-> "read"]
  /\ pc = [t \in Contexts |-> "idle"]
  /\ after = [t \in Contexts |-> "idle"]
  /\ tsk = [t \in Contexts |-> NoTask]
  /\ woken = [t \in Contexts |-> 0]
  /\ usage = [t \in Tasks |-> 1]
  /\ orphans = 0
  /\ state = [t \in Tasks |-> TASK_RUNNING]

Goto(t, l) == pc' = [pc EXCEPT ![t] = l]

waker_vars == <<after, tsk, woken, orphans>>

-----------------------------------------------------------------------------
(* Taking the semaphore.                                                   *)

\* defect: the waiter does not pin its task_struct for the waker
get_task_struct_forgotten(t) == UNCHANGED usage

get_task_struct(t) == usage' = [usage EXCEPT ![t] = @ + 1]

(* Queue the caller as a reader or a writer.                               *)
enqueue(t, how) ==
  /\ state' = [state EXCEPT ![t] = TASK_UNINTERRUPTIBLE]
  /\ waiter_task' = [waiter_task EXCEPT ![t] = t]
  /\ flags' = [flags EXCEPT ![t] = how]
  /\ get_task_struct(t)
  /\ wait_list' = Append(wait_list, t)
  /\ Goto(t, "check")
  /\ UNCHANGED activity

take_read(t) ==
  /\ activity' = activity + 1
  /\ Goto(t, "read")
  /\ UNCHANGED <<wait_list, waiter_task, flags, usage, state>>

take_write(t) ==
  /\ activity' = -1
  /\ Goto(t, "write")
  /\ UNCHANGED <<wait_list, waiter_task, flags, usage, state>>

\* defect: a reader joins the active readers in spite of a queued writer
may_read_past_queue == activity >= 0

may_read  == activity >= 0 /\ wait_list = <<>>
may_write == activity = 0 /\ wait_list = <<>>

down_read(t) ==
  /\ pc[t] = "idle"
  /\ wait_lock = NoTask
  /\ \/ may_read /\ take_read(t)
     \/ ~may_read /\ enqueue(t, "read")
  /\ UNCHANGED <<wait_lock, waker_vars>>

down_write(t) ==
  /\ pc[t] = "idle"
  /\ wait_lock = NoTask
  /\ \/ may_write /\ take_write(t)
     \/ ~may_write /\ enqueue(t, "write")
  /\ UNCHANGED <<wait_lock, waker_vars>>

(* The trylocks; when they fail they change nothing.                       *)
down_read_trylock(t) ==
  /\ pc[t] = "idle"
  /\ wait_lock = NoTask
  /\ may_read
  /\ take_read(t)
  /\ UNCHANGED <<wait_lock, waker_vars>>

down_write_trylock(t) ==
  /\ pc[t] = "idle"
  /\ wait_lock = NoTask
  /\ may_write
  /\ take_write(t)
  /\ UNCHANGED <<wait_lock, waker_vars>>

(* The wait loop: return if waiter.task was cleared (the waiter is dead    *)
(* then, and its flags are reset), else schedule().                        *)
wait_check(t) ==
  /\ pc[t] = "check"
  /\ \/ /\ waiter_task[t] = NoTask
        /\ state' = [state EXCEPT ![t] = TASK_RUNNING]
        /\ flags' = [flags EXCEPT ![t] = "read"]
        /\ Goto(t, flags[t])
     \/ /\ waiter_task[t] # NoTask
        /\ Goto(t, "sched")
        /\ UNCHANGED <<flags, state>>
  /\ UNCHANGED <<activity, wait_lock, wait_list, waiter_task, usage, waker_vars>>

\* defect: a woken waiter goes back to sleep without a new test
wait_wakes_no_test(t) ==
  /\ pc[t] = "sched"
  /\ schedule_returns(state[t], "none")
  /\ state' = [state EXCEPT ![t] = TASK_UNINTERRUPTIBLE]
  /\ UNCHANGED <<activity, wait_lock, wait_list, waiter_task, flags, pc, usage, waker_vars>>

(* schedule() returns; the state is set again before the next test.        *)
wait_wakes(t) ==
  /\ pc[t] = "sched"
  /\ schedule_returns(state[t], "none")
  /\ state' = [state EXCEPT ![t] = TASK_UNINTERRUPTIBLE]
  /\ Goto(t, "check")
  /\ UNCHANGED <<activity, wait_lock, wait_list, waiter_task, flags, usage, waker_vars>>

-----------------------------------------------------------------------------
(* Releasing the semaphore.                                                *)

reader_at_head == wait_list # <<>> /\ flags[Head(wait_list)] = "read"

(* Keep wait_lock to grant the head of the queue, then return at l.        *)
start_grant(t, then, l) ==
  /\ wait_lock' = t
  /\ after' = [after EXCEPT ![t] = l]
  /\ Goto(t, then)
  /\ UNCHANGED <<wait_list, waiter_task, flags, tsk, woken, usage, state>>

no_grant(t, l) ==
  /\ Goto(t, l)
  /\ UNCHANGED <<wait_lock, wait_list, waiter_task, flags, after, tsk, woken, usage, state>>

(* Up to the first grant of __rwsem_do_wake(sem, 1), entered with activity *)
(* 0 and a queue that is not empty.                                        *)
do_wake(t) ==
  \/ /\ flags[Head(wait_list)] = "write"
     /\ activity' = -1
     /\ start_grant(t, "grant_write", "idle")
  \/ /\ flags[Head(wait_list)] = "read"
     /\ activity' = 0
     /\ start_grant(t, "grant_read", "idle")

\* defect: the writer is woken while other readers are still active
last_reader_any == TRUE

(* The caller of __up_read is the last active reader.                      *)
last_reader == activity - 1 = 0

(* The body of __up_read: the last reader lets the first waiter write,     *)
(* without looking at the waiter's flags (__rwsem_wake_one_writer).        *)
release_read(t) ==
  /\ wait_lock = NoTask
  /\ \/ /\ last_reader /\ wait_list # <<>>
        /\ activity' = -1
        /\ start_grant(t, "grant_write", "idle")
     \/ /\ ~(last_reader /\ wait_list # <<>>)
        /\ activity' = activity - 1
        /\ no_grant(t, "idle")

up_read(t) ==
  /\ pc[t] = "read"
  /\ release_read(t)
  /\ UNCHANGED orphans

(* dio_complete, in the interrupt that completes the I/O.                  *)
up_read_non_owner ==
  /\ pc[Irq] = "idle"
  /\ orphans > 0
  /\ orphans' = orphans - 1
  /\ release_read(Irq)

(* The task that submitted the I/O goes on without its read lock.          *)
SubmitDirectIO(t) ==
  /\ pc[t] = "read"
  /\ orphans < MaxOrphans
  /\ orphans' = orphans + 1
  /\ Goto(t, "idle")
  /\ UNCHANGED <<activity, wait_lock, wait_list, waiter_task, flags, after, tsk, woken,
                 usage, state>>

up_write(t) ==
  /\ pc[t] = "write"
  /\ wait_lock = NoTask
  /\ \/ /\ wait_list # <<>>
        /\ do_wake(t)
     \/ /\ wait_list = <<>>
        /\ activity' = 0
        /\ no_grant(t, "idle")
  /\ UNCHANGED orphans

\* defect: the readers at the front of the queue are left waiting
downgrade_wakes_nobody == FALSE

(* __rwsem_do_wake(sem, 0) wakes only readers at the front of the queue.   *)
downgrade_wakes == reader_at_head

downgrade_write(t) ==
  /\ pc[t] = "write"
  /\ wait_lock = NoTask
  /\ activity' = 1
  /\ \/ /\ downgrade_wakes
        /\ start_grant(t, "grant_read", "read")
     \/ /\ ~downgrade_wakes
        /\ no_grant(t, "read")
  /\ UNCHANGED orphans

(* list_del, tsk = waiter->task, waiter->task = NULL.                      *)
grant(t) ==
  LET w == Head(wait_list)
  IN  /\ pc[t] \in {"grant_read", "grant_write"}
      /\ wait_list' = Tail(wait_list)
      /\ tsk' = [tsk EXCEPT ![t] = waiter_task[w]]
      /\ waiter_task' = [waiter_task EXCEPT ![w] = NoTask]
      /\ Goto(t, IF pc[t] = "grant_read" THEN "wake_reader" ELSE "wake_writer")
      /\ UNCHANGED <<activity, wait_lock, flags, after, woken, usage, orphans, state>>

(* wake_up_process(tsk), put_task_struct(tsk)                              *)
wake_and_put(t) ==
  /\ state' = wake_up_process(state, tsk[t])
  /\ usage' = [usage EXCEPT ![tsk[t]] = @ - 1]
  /\ tsk' = [tsk EXCEPT ![t] = NoTask]

(* A writer is woken alone.                                                *)
wake_writer(t) ==
  /\ pc[t] = "wake_writer"
  /\ wake_and_put(t)
  /\ wait_lock' = NoTask
  /\ after' = [after EXCEPT ![t] = "idle"]
  /\ Goto(t, after[t])
  /\ UNCHANGED <<activity, wait_list, waiter_task, flags, woken, orphans>>

\* defect: the readers granted before the last one are not counted
readers_woken_one(t) == 1

(* woken at the end of the loop, whose last round has just been made.      *)
readers_woken(t) == woken[t] + 1

(* After a reader comes the next one, until the queue is empty or has a    *)
(* writer at its head; then the readers woken are added to activity.       *)
wake_reader(t) ==
  /\ pc[t] = "wake_reader"
  /\ wake_and_put(t)
  /\ \/ /\ reader_at_head
        /\ woken' = [woken EXCEPT ![t] = @ + 1]
        /\ Goto(t, "grant_read")
        /\ UNCHANGED <<activity, wait_lock, after>>
     \/ /\ ~reader_at_head
        /\ activity' = activity + readers_woken(t)
        /\ woken' = [woken EXCEPT ![t] = 0]
        /\ wait_lock' = NoTask
        /\ after' = [after EXCEPT ![t] = "idle"]
        /\ Goto(t, after[t])
  /\ UNCHANGED <<wait_list, waiter_task, flags, orphans>>

-----------------------------------------------------------------------------
(* The rest of the kernel.                                                 *)

SpuriousWakeup(t) ==
  /\ state[t] # TASK_RUNNING
  /\ state' = wake_up_process(state, t)
  /\ UNCHANGED <<activity, wait_lock, wait_list, waiter_task, flags, pc, usage, waker_vars>>

(* A task that is done with the semaphore exits and drops its own          *)
(* reference; a freed task_struct is used again by a new task.             *)
Exit(t) ==
  /\ pc[t] = "idle"
  /\ usage' = [usage EXCEPT ![t] = @ - 1]
  /\ Goto(t, "exited")
  /\ UNCHANGED <<activity, wait_lock, wait_list, waiter_task, flags, state, waker_vars>>

Fork(t) ==
  /\ pc[t] = "exited"
  /\ usage[t] = 0
  /\ usage' = [usage EXCEPT ![t] = 1]
  /\ Goto(t, "idle")
  /\ UNCHANGED <<activity, wait_lock, wait_list, waiter_task, flags, state, waker_vars>>

Call(t) ==
  \/ down_read(t)
  \/ down_write(t)
  \/ down_read_trylock(t)
  \/ down_write_trylock(t)
  \/ up_read(t)
  \/ up_write(t)
  \/ downgrade_write(t)

(* Steps of a call under way.                                              *)
Proceed(t) ==
  \/ wait_check(t)
  \/ wait_wakes(t)

Wake(t) ==
  \/ grant(t)
  \/ wake_writer(t)
  \/ wake_reader(t)

Environment(t) ==
  \/ SpuriousWakeup(t)
  \/ SubmitDirectIO(t)
  \/ Exit(t)
  \/ Fork(t)

Next ==
  \/ \E t \in Tasks : Call(t) \/ Proceed(t) \/ Environment(t)
  \/ \E t \in Contexts : Wake(t)
  \/ up_read_non_owner

(* The scheduler runs every runnable task, and an interrupt handler runs   *)
(* to its end.                                                             *)
Fairness ==
  /\ \A t \in Tasks : WF_vars(Proceed(t))
  /\ \A t \in Contexts : WF_vars(Wake(t))

Spec == Init /\ [][Next]_vars /\ Fairness

-----------------------------------------------------------------------------
Waiting(t) == pc[t] \in {"check", "sched"} /\ waiter_task[t] # NoTask
Granted(t) == pc[t] \in {"check", "sched"} /\ waiter_task[t] = NoTask

(* Who holds the semaphore: the tasks that returned with it, those granted *)
(* it and still on their way out, and one that has downgraded and is       *)
(* waking others.                                                          *)
Reads(t)  == \/ pc[t] = "read"
             \/ Granted(t) /\ flags[t] = "read"
             \/ pc[t] \in {"grant_read", "wake_reader"} /\ after[t] = "read"
Writes(t) == pc[t] = "write" \/ (Granted(t) /\ flags[t] = "write")

Readers == {t \in Tasks : Reads(t)}
Writers == {t \in Tasks : Writes(t)}

TypeOK ==
  /\ activity \in Int
  /\ wait_lock \in Contexts \cup {NoTask}
  /\ wait_list \in Seq(Tasks)
  /\ waiter_task \in [Tasks -> Tasks \cup {NoTask}]
  /\ flags \in [Tasks -> {"read", "write"}]
  /\ pc \in [Contexts -> Pcs]
  /\ after \in [Contexts -> {"idle", "read"}]
  /\ tsk \in [Contexts -> Tasks \cup {NoTask}]
  /\ woken \in [Contexts -> Nat]
  /\ usage \in [Tasks -> Nat]
  /\ orphans \in 0..MaxOrphans
  /\ state \in [Tasks -> TaskState]

(* Whenever the spinlock is free, activity says who holds the semaphore:   *)
(* the number of readers, or -1 for one writer ("if activity is 0 then     *)
(* there are no active readers or writers", rwsem-spinlock.h).             *)
ActivityAgrees ==
  wait_lock = NoTask =>
    \/ Writers = {} /\ activity = Cardinality(Readers) + orphans
    \/ Readers = {} /\ orphans = 0 /\ Cardinality(Writers) = 1 /\ activity = -1

(* What lets __up_read hand the semaphore to the first waiter as a writer  *)
(* without looking at its flags: behind active readers the queue starts    *)
(* with a writer; and a semaphore nobody holds has no queue.               *)
QueueBehindReaders ==
  wait_lock = NoTask /\ wait_list # <<>> =>
    \/ activity = -1
    \/ activity > 0 /\ flags[Head(wait_list)] = "write"

(* "Don't touch waiter after ->task has been NULLed": a queued waiter's    *)
(* stack frame is alive, and a waker only wakes a task whose task_struct   *)
(* has not been freed, although the task may have returned, left its read  *)
(* lock to an interrupt and exited in the meantime.                        *)
NoStaleWaiter ==
  /\ \A i \in DOMAIN wait_list :
       LET w == wait_list[i] IN Waiting(w) /\ waiter_task[w] = w
  /\ \A t \in Contexts : pc[t] \in {"wake_reader", "wake_writer"} => usage[tsk[t]] > 0

(* A granted waiter does not sleep for ever: if it sleeps, its waker has   *)
(* still to call wake_up_process on it.                                    *)
GrantedIsWoken ==
  \A t \in Tasks :
    pc[t] = "sched" /\ Granted(t) /\ state[t] # TASK_RUNNING =>
      \E u \in Contexts : pc[u] \in {"wake_reader", "wake_writer"} /\ tsk[u] = t

(* Nobody starves: if no task keeps the semaphore for ever, every waiter,  *)
(* reader or writer, gets it.                                              *)
WaitersServed ==
  (\A t \in Tasks : []<>~(Reads(t) \/ Writes(t))) /\ []<>(orphans = 0) =>
    \A t \in Tasks : Waiting(t) ~> (Reads(t) \/ Writes(t))

(* The read locks left to the interrupt are held by 1, 2, ... orphans.     *)
Holders == Tasks \cup 1..MaxOrphans

Lock == INSTANCE LockSpec WITH
          Tasks <- Holders,
          held <- [h \in Holders |->
                     IF h \in Tasks
                     THEN IF Writes(h) THEN "exclusive"
                          ELSE IF Reads(h) THEN "shared" ELSE "none"
                     ELSE IF h <= orphans THEN "shared" ELSE "none"]

(* Every step of the semaphore is a grant that the other holds allow, a    *)
(* release, a downgrade, a hand-over of a shared hold, or invisible.       *)
ImplementsLock == Lock!Spec

=============================================================================
