------------------------------- MODULE Tasks -------------------------------
(***************************************************************************)
(* What the sleeping locks of kernel/ and lib/ use of the scheduler and of *)
(* signal delivery: a task's ->state, its pending signal, the test made by *)
(* schedule() before it puts the caller to sleep, and the wake-up calls.   *)
(*                                                                         *)
(* A component keeps `state', a function from Tasks to task states, and    *)
(* `sig', a function from Tasks to pending signals, and updates them with  *)
(* the operators below.  Run queues, priorities and CPUs are abstracted: a *)
(* task whose state is TASK_RUNNING may take a step at any time, in any    *)
(* interleaving with the others, which covers preemption on the Loongson   *)
(* build (CONFIG_PREEMPT, one CPU) and true concurrency on SMP builds.     *)
(***************************************************************************)

CONSTANT Tasks,    \* the tasks that use the lock
         NoTask    \* "nobody": the owner of a free spinlock

ASSUME TasksAssumption == NoTask \notin Tasks

TASK_RUNNING         == "RUNNING"
TASK_INTERRUPTIBLE   == "INTERRUPTIBLE"
TASK_KILLABLE        == "KILLABLE"
TASK_UNINTERRUPTIBLE == "UNINTERRUPTIBLE"

(* The states a blocking lock operation may sleep in.                      *)
SleepState == {TASK_INTERRUPTIBLE, TASK_KILLABLE, TASK_UNINTERRUPTIBLE}

TaskState == SleepState \cup {TASK_RUNNING}

(* No signal pending, an ordinary signal, or a fatal one (SIGKILL).        *)
Signal == {"none", "ordinary", "fatal"}

(* Would a task in state st with pending signal sg refuse to sleep?        *)
signal_pending_state(st, sg) ==
  \/ st = TASK_INTERRUPTIBLE /\ sg # "none"
  \/ st = TASK_KILLABLE /\ sg = "fatal"

(* Make t runnable if its state is in mask; otherwise leave it alone.      *)
try_to_wake_up(state, t, mask) ==
  IF state[t] \in mask THEN [state EXCEPT ![t] = TASK_RUNNING] ELSE state

wake_up_process(state, t) == try_to_wake_up(state, t, SleepState)

(* The wake-up half of sending t the signal sg.                            *)
signal_wake_up(state, t, sg) ==
  try_to_wake_up(state, t,
                 IF sg = "fatal" THEN {TASK_INTERRUPTIBLE, TASK_KILLABLE}
                                 ELSE {TASK_INTERRUPTIBLE})

(* schedule() gives the CPU back to its caller: nothing put the task to    *)
(* sleep, or somebody has woken it, or a signal kept it from sleeping.     *)
schedule_returns(st, sg) ==
  st = TASK_RUNNING \/ signal_pending_state(st, sg)

=============================================================================
