------------------------------ MODULE Semaphore ------------------------------
(***************************************************************************)
(* kernel/semaphore.c: one counting semaphore.                             *)
(*                                                                         *)
(* Everything the semaphore keeps, the waiters' `up' flags included, is    *)
(* read and written under the spinlock sem->lock with interrupts off, so a *)
(* section from one spin_lock to the next spin_unlock is one step.  What   *)
(* runs outside the lock is schedule_timeout(), and there the caller races *)
(* with up(), with signals, with its timer and with stray wake-ups.        *)
(*                                                                         *)
(* Unlike a mutex a semaphore has no owner: up() may come from a task that *)
(* never called down(), and down_trylock() and up() from an interrupt.     *)
(* `extra' counts what those contexts have added to, or taken from, the    *)
(* permits the semaphore started with.                                     *)
(***************************************************************************)
EXTENDS Tasks, Integers, SequencesExt

CONSTANT Permits,   \* the value given to sema_init
         MaxExtra,  \* bound on |extra|
         DownModes, \* sleep states of the blocking calls
         Signals    \* signals the tasks may be sent

ASSUME SemaphoreAssumption ==
  /\ IsFiniteSet(Tasks)
  /\ Permits \in Nat
  /\ MaxExtra \in Nat
  /\ DownModes \subseteq SleepState
  /\ Signals \subseteq Signal \ {"none"}

VARIABLES
  count,      \* how many more tasks can acquire the semaphore
  wait_list,  \* the queued tasks, first come first
  pc,         \* "idle", "sched" (in schedule_timeout) or "holds"
  mode,       \* the state in which the task's current call sleeps
  timeout,    \* "max" (no limit), "armed" or "expired" (<= 0 jiffies left)
  up,         \* the field up of the task's struct semaphore_waiter
  extra,      \* permits added (or taken, if negative) by other contexts
  state,      \* task states
  sig         \* pending signals

vars == <<count, wait_list, pc, mode, timeout, up, extra, state, sig>>

Pcs == {"idle", "sched", "holds"}
Timeouts == {"max", "armed", "expired"}

(* sema_init(sem, Permits)                                                 *)
Init ==
  /\ count = Permits
  /\ wait_list = <<>>
  /\ pc = [t \in Tasks |-> "idle"]
  /\ mode = [t \in Tasks |-> TASK_UNINTERRUPTIBLE]
  /\ timeout = [t \in Tasks |-> "max"]
  /\ up = [t \in Tasks |-> FALSE]
  /\ extra = 0
  /\ state = [t \in Tasks |-> TASK_RUNNING]
  /\ sig = [t \in Tasks |-> "none"]

Goto(t, l) == pc' = [pc EXCEPT ![t] = l]

-----------------------------------------------------------------------------
(* The locals of a blocking call, dead once it has returned.               *)
forget(t) ==
  /\ state' = [state EXCEPT ![t] = TASK_RUNNING]
  /\ mode' = [mode EXCEPT ![t] = TASK_UNINTERRUPTIBLE]
  /\ timeout' = [timeout EXCEPT ![t] = "max"]
  /\ up' = [up EXCEPT ![t] = FALSE]

\* defect: the time left is not looked at again after the first sleep
down_round_ignores_timeout(t, queue, st, tmo) ==
  \/ /\ signal_pending_state(st, sig[t])
     /\ wait_list' = RemoveFirst(queue, t)
     /\ forget(t)
     /\ Goto(t, "idle")
  \/ /\ ~signal_pending_state(st, sig[t])
     /\ wait_list' = queue
     /\ state' = [state EXCEPT ![t] = st]
     /\ mode' = [mode EXCEPT ![t] = st]
     /\ timeout' = [timeout EXCEPT ![t] = tmo]
     /\ Goto(t, "sched")
     /\ UNCHANGED up

(* One round of the loop of __down_common for a waiter whose `up' is not   *)
(* set, entered with `queue' as the wait list: give up on a signal         *)
(* (-EINTR) or when no time is left (-ETIME), or sleep in state st.        *)
down_round(t, queue, st, tmo) ==
  \/ /\ signal_pending_state(st, sig[t]) \/ tmo = "expired"
     /\ wait_list' = RemoveFirst(queue, t)
     /\ forget(t)
     /\ Goto(t, "idle")
  \/ /\ ~signal_pending_state(st, sig[t])
     /\ tmo # "expired"
     /\ wait_list' = queue
     /\ state' = [state EXCEPT ![t] = st]
     /\ mode' = [mode EXCEPT ![t] = st]
     /\ timeout' = [timeout EXCEPT ![t] = tmo]
     /\ Goto(t, "sched")
     /\ UNCHANGED up

(* down, down_interruptible, down_killable and down_timeout: st is the     *)
(* state to sleep in, tmo the time the caller is ready to wait.            *)
down(t, st, tmo) ==
  /\ pc[t] = "idle"
  /\ \/ /\ count > 0
        /\ count' = count - 1
        /\ Goto(t, "holds")
        /\ UNCHANGED <<wait_list, mode, timeout, up, state>>
     \/ /\ count <= 0
        /\ down_round(t, Append(wait_list, t), st, tmo)
        /\ UNCHANGED count
  /\ UNCHANGED <<extra, sig>>

\* defect: the reasons to give up are tested before the grant
down_wakes_grant_last(t) ==
  /\ pc[t] = "sched"
  /\ schedule_returns(state[t], sig[t])
  /\ LET gives_up == signal_pending_state(mode[t], sig[t]) \/ timeout[t] = "expired"
     IN  \/ /\ up[t] /\ ~gives_up
            /\ forget(t)
            /\ Goto(t, "holds")
            /\ UNCHANGED wait_list
         \/ /\ ~up[t] \/ gives_up
            /\ down_round(t, wait_list, mode[t], timeout[t])
  /\ UNCHANGED <<count, extra, sig>>

(* schedule_timeout() returns and the lock is retaken: the semaphore has   *)
(* been handed over, or the loop goes round.                               *)
down_wakes(t) ==
  /\ pc[t] = "sched"
  /\ schedule_returns(state[t], sig[t])
  /\ \/ /\ up[t]
        /\ forget(t)
        /\ Goto(t, "holds")
        /\ UNCHANGED wait_list
     \/ /\ ~up[t]
        /\ down_round(t, wait_list, mode[t], timeout[t])
  /\ UNCHANGED <<count, extra, sig>>

\* defect: the last permit is given out twice
down_trylock_off_by_one(t) ==
  /\ pc[t] = "idle"
  /\ count >= 0
  /\ count' = count - 1
  /\ Goto(t, "holds")
  /\ UNCHANGED <<wait_list, mode, timeout, up, extra, state, sig>>

(* down_trylock: a task that gets no permit goes on without.               *)
down_trylock(t) ==
  /\ pc[t] = "idle"
  /\ count - 1 >= 0
  /\ count' = count - 1
  /\ Goto(t, "holds")
  /\ UNCHANGED <<wait_list, mode, timeout, up, extra, state, sig>>

-----------------------------------------------------------------------------
\* defect: the permit is handed over and the task not woken
hand_over_without_wakeup ==
  /\ wait_list # <<>>
  /\ wait_list' = Tail(wait_list)
  /\ up' = [up EXCEPT ![Head(wait_list)] = TRUE]
  /\ UNCHANGED <<count, state>>

\* defect: the served waiter is left on the queue
hand_over_keeps_queued ==
  /\ wait_list # <<>>
  /\ up' = [up EXCEPT ![Head(wait_list)] = TRUE]
  /\ state' = wake_up_process(state, Head(wait_list))
  /\ UNCHANGED <<count, wait_list>>

\* defect: the last waiter is served first
hand_over_last ==
  /\ wait_list # <<>>
  /\ wait_list' = Front(wait_list)
  /\ up' = [up EXCEPT ![Last(wait_list)] = TRUE]
  /\ state' = wake_up_process(state, Last(wait_list))
  /\ UNCHANGED count

(* __up: take the first waiter off the queue, hand it the permit, wake it. *)
hand_over ==
  /\ wait_list # <<>>
  /\ wait_list' = Tail(wait_list)
  /\ up' = [up EXCEPT ![Head(wait_list)] = TRUE]
  /\ state' = wake_up_process(state, Head(wait_list))
  /\ UNCHANGED count

\* defect: the permit is made free for anybody and a waiter woken to try its luck
release_and_wake ==
  /\ count' = count + 1
  /\ state' = IF wait_list = <<>> THEN state
              ELSE wake_up_process(state, Head(wait_list))
  /\ UNCHANGED <<wait_list, up>>

(* The body of up.                                                         *)
release ==
  \/ /\ wait_list = <<>>
     /\ count' = count + 1
     /\ UNCHANGED <<wait_list, up, state>>
  \/ hand_over

(* A task that acquired the semaphore releases it.                         *)
up_by_holder(t) ==
  /\ pc[t] = "holds"
  /\ release
  /\ Goto(t, "idle")
  /\ UNCHANGED <<mode, timeout, extra, sig>>

(* up() from a task or interrupt that does not hold a permit, and          *)
(* down_trylock() from an interrupt.                                       *)
up_by_other ==
  /\ extra < MaxExtra
  /\ release
  /\ extra' = extra + 1
  /\ UNCHANGED <<pc, mode, timeout, sig>>

trylock_in_irq ==
  /\ extra > -MaxExtra
  /\ count - 1 >= 0
  /\ count' = count - 1
  /\ extra' = extra - 1
  /\ UNCHANGED <<wait_list, pc, mode, timeout, up, state, sig>>

-----------------------------------------------------------------------------
(* The timer of schedule_timeout fires (process_timeout).                  *)
TimerExpires(t) ==
  /\ pc[t] = "sched"
  /\ timeout[t] = "armed"
  /\ timeout' = [timeout EXCEPT ![t] = "expired"]
  /\ state' = wake_up_process(state, t)
  /\ UNCHANGED <<count, wait_list, pc, mode, up, extra, sig>>

SendSignal(t, sg) ==
  /\ sig[t] \notin {sg, "fatal"}
  /\ sig' = [sig EXCEPT ![t] = sg]
  /\ state' = signal_wake_up(state, t, sg)
  /\ UNCHANGED <<count, wait_list, pc, mode, timeout, up, extra>>

HandleSignal(t) ==
  /\ pc[t] # "sched"
  /\ sig[t] # "none"
  /\ sig' = [sig EXCEPT ![t] = "none"]
  /\ UNCHANGED <<count, wait_list, pc, mode, timeout, up, extra, state>>

SpuriousWakeup(t) ==
  /\ state[t] # TASK_RUNNING
  /\ state' = wake_up_process(state, t)
  /\ UNCHANGED <<count, wait_list, pc, mode, timeout, up, extra, sig>>

(* down_timeout sleeps uninterruptibly, the others without a time limit.   *)
Call(t) ==
  \/ \E st \in DownModes : down(t, st, "max")
  \/ \E tmo \in {"armed", "expired"} : down(t, TASK_UNINTERRUPTIBLE, tmo)
  \/ down_trylock(t)
  \/ up_by_holder(t)

Environment(t) ==
  \/ TimerExpires(t)
  \/ \E sg \in Signals : SendSignal(t, sg)
  \/ HandleSignal(t)
  \/ SpuriousWakeup(t)

Next ==
  \/ \E t \in Tasks : Call(t) \/ down_wakes(t) \/ Environment(t)
  \/ up_by_other
  \/ trylock_in_irq

(* A runnable sleeper is given the CPU; an armed timer fires.              *)
Fairness == \A t \in Tasks : WF_vars(down_wakes(t)) /\ WF_vars(TimerExpires(t))

Spec == Init /\ [][Next]_vars /\ Fairness

-----------------------------------------------------------------------------
(* The tasks that own a permit: those that returned with it and those that *)
(* were handed one and have not run yet.                                   *)
Granted(t) == pc[t] = "holds" \/ (pc[t] = "sched" /\ up[t])
Owners == {t \in Tasks : Granted(t)}

TypeOK ==
  /\ count \in Nat
  /\ wait_list \in Seq(Tasks)
  /\ pc \in [Tasks -> Pcs]
  /\ mode \in [Tasks -> SleepState]
  /\ timeout \in [Tasks -> Timeouts]
  /\ up \in [Tasks -> BOOLEAN]
  /\ extra \in Int
  /\ state \in [Tasks -> TaskState]
  /\ sig \in [Tasks -> Signal]

(* No permit is lost or made up: what is free and what is owned add up to  *)
(* what the semaphore was given, whatever races there are between up(), a  *)
(* signal and a timeout for the same waiter.                               *)
PermitsConserved == count + Cardinality(Owners) = Permits + extra

(* A permit is free only when nobody waits for one, so that down() never   *)
(* overtakes the queue ("if it's zero, there may be tasks waiting on the   *)
(* wait_list", semaphore.c).                                               *)
NoFreePermitWhileWaiting == wait_list # <<>> => count = 0

(* The queue holds each waiter once, and exactly the ones still inside     *)
(* __down_common without a permit: their struct semaphore_waiter is on     *)
(* their own stack and dies when they return.                              *)
QueueIsLive ==
  /\ IsInjective(wait_list)
  /\ \A t \in Tasks : t \in Range(wait_list) <=> (pc[t] = "sched" /\ ~up[t])

(* A task that was handed a permit is awake, also when up() ran between    *)
(* its unlocking sem->lock and its entering schedule_timeout().            *)
GrantedIsAwake == \A t \in Tasks : pc[t] = "sched" /\ up[t] => state[t] = TASK_RUNNING

(* First come first served: a step that gives a permit to a task either    *)
(* serves the head of the queue, or finds nobody queued.                   *)
ServedInOrder ==
  [][\A t \in Tasks : ~Granted(t) /\ Granted(t)' =>
        (wait_list = <<>> \/ t = Head(wait_list))]_vars

(* Nobody stays in __down_common with a reason to leave it: a permit, a    *)
(* signal of the kind the caller accepts, or a timeout.                    *)
WaitersLeave ==
  \A t \in Tasks :
    (pc[t] = "sched" /\ (\/ up[t]
                         \/ signal_pending_state(mode[t], sig[t])
                         \/ timeout[t] # "max")) ~> pc[t] # "sched"

=============================================================================
