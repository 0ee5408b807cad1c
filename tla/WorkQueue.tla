------------------------------ MODULE WorkQueue ------------------------------
(***************************************************************************)
(* kernel/workqueue.c: one workqueue, with one list and one worker thread  *)
(* per CPU.                                                                *)
(*                                                                         *)
(* A work item is owned through its PENDING bit, which is set and cleared  *)
(* outside the locks: whoever sets it may put the item on a list, arm its  *)
(* timer, or keep it away from everybody (a canceller).  Everything from   *)
(* spin_lock(&cwq->lock) to spin_unlock is one step.  insert_work sets     *)
(* wq_data before it links the item, with a write barrier between, so      *)
(* doing both in one step loses no behaviour.                              *)
(*                                                                         *)
(* queue_work, queue_delayed_work, the delayed work's timer and            *)
(* cancel_delayed_work may run in any context at any time, the item's own  *)
(* callback included; they are steps of no particular thread.  `Callers'   *)
(* are the tasks that block in flush and cancel calls.  Such a call waits  *)
(* for a barrier, an item on the caller's stack: the caller's name stands  *)
(* for it on the lists.                                                    *)
(***************************************************************************)
EXTENDS Integers, SequencesExt, FiniteSetsExt

CONSTANTS Works, Callers, None,
          NCPU,      \* CPUs are 1..NCPU; the queue of a single-threaded wq has one
          MaxDepth   \* bound on run_workqueue's recursion

ASSUME WorkQueueAssumption ==
  /\ Works \cap Callers = {}
  /\ None \notin Works \cup Callers
  /\ NCPU \in Nat \ {0}
  /\ MaxDepth \in Nat \ {0}

CPUs == 1..NCPU

VARIABLES
  pending,      \* WORK_STRUCT_PENDING of each work
  wq_data,      \* the CPU whose cwq is in work->data, 0 if none yet
  timer,        \* is the work's timer pending?
  setter,       \* what the thread that set PENDING is about to do with it
  worklist,     \* cwq->worklist: works and barriers
  current_work, \* cwq->current_work
  frames,       \* callbacks the worker is inside of, outermost first
  wpc,          \* the worker: "loop", "picked" or "run"
  pc, op, target, cpu, cwq, ret,  \* the callers' progress and locals
  owed          \* ghost: executions a flush has still to see the end of

wvars == <<pending, wq_data, timer, setter>>
qvars == <<worklist, current_work, frames, wpc>>
cvars == <<pc, op, target, cpu, cwq, ret>>
vars  == <<wvars, qvars, cvars, owed>>

(* setter: "queue" and "fire" are before __queue_work, in queue_work_on    *)
(* and in the timer function; "arm" is before add_timer; "unpend" is in    *)
(* cancel_delayed_work after del_timer_sync.                               *)
Setters == {"none", "queue", "fire", "arm", "unpend"}
Ops == {"none", "flush_workqueue", "flush_work", "cancel_work_sync",
        "cancel_delayed_work_sync"}
Pcs == {"idle", "flush", "flush_work", "del_timer", "grab", "steal",
        "wait_on", "wait", "woken", "clear"}

Init ==
  /\ pending = [w \in Works |-> FALSE]
  /\ wq_data = [w \in Works |-> 0]
  /\ timer = [w \in Works |-> FALSE]
  /\ setter = [w \in Works |-> "none"]
  /\ worklist = [p \in CPUs |-> <<>>]
  /\ current_work = [p \in CPUs |-> None]
  /\ frames = [p \in CPUs |-> <<>>]
  /\ wpc = [p \in CPUs |-> "loop"]
  /\ pc = [t \in Callers |-> "idle"]
  /\ op = [t \in Callers |-> "none"]
  /\ target = [t \in Callers |-> None]
  /\ cpu = [t \in Callers |-> 0]
  /\ cwq = [t \in Callers |-> 0]
  /\ ret = [t \in Callers |-> 0]
  /\ owed = [t \in Callers |-> {}]

Queued(w) == \E p \in CPUs : w \in Range(worklist[p])

-----------------------------------------------------------------------------
(* Queueing, from any context.                                             *)

(* The first half of queue_work_on and of queue_delayed_work_on:           *)
(* test_and_set_bit.  An item that is pending already is left alone.       *)
set_pending(w, s) ==
  /\ ~pending[w]
  /\ pending' = [pending EXCEPT ![w] = TRUE]
  /\ setter' = [setter EXCEPT ![w] = s]
  /\ owed' = [t \in Callers |-> IF target[t] = w THEN {} ELSE owed[t]]
  /\ UNCHANGED <<wq_data, timer, qvars, cvars>>

(* __queue_work on CPU p.                                                  *)
__queue_work(w, p) ==
  /\ setter[w] \in {"queue", "fire"}
  /\ worklist' = [worklist EXCEPT ![p] = Append(@, w)]
  /\ wq_data' = [wq_data EXCEPT ![w] = p]
  /\ setter' = [setter EXCEPT ![w] = "none"]
  /\ UNCHANGED <<pending, timer, current_work, frames, wpc, cvars, owed>>

(* The second half of queue_delayed_work_on, running on CPU p.             *)
add_timer(w, p) ==
  /\ setter[w] = "arm"
  /\ wq_data' = [wq_data EXCEPT ![w] = p]
  /\ timer' = [timer EXCEPT ![w] = TRUE]
  /\ setter' = [setter EXCEPT ![w] = "none"]
  /\ UNCHANGED <<pending, qvars, cvars, owed>>

(* The timer is detached and delayed_work_timer_fn called.                 *)
delayed_work_timer_fn(w) ==
  /\ timer[w]
  /\ timer' = [timer EXCEPT ![w] = FALSE]
  /\ setter' = [setter EXCEPT ![w] = "fire"]
  /\ UNCHANGED <<pending, wq_data, qvars, cvars, owed>>

(* cancel_delayed_work: del_timer_sync, and if that stopped the timer,     *)
(* work_clear_pending.                                                     *)
cancel_delayed_work(w) ==
  \/ /\ timer[w]
     /\ timer' = [timer EXCEPT ![w] = FALSE]
     /\ setter' = [setter EXCEPT ![w] = "unpend"]
     /\ UNCHANGED <<pending, wq_data, qvars, cvars, owed>>
  \/ /\ setter[w] = "unpend"
     /\ pending' = [pending EXCEPT ![w] = FALSE]
     /\ setter' = [setter EXCEPT ![w] = "none"]
     /\ UNCHANGED <<wq_data, timer, qvars, cvars, owed>>

-----------------------------------------------------------------------------
(* The worker thread of CPU p.                                             *)

(* The loop of run_workqueue with cwq->lock held, fs the callbacks the     *)
(* thread is inside of, cur the value of current_work and ow that of the   *)
(* ghost: take the next item, or leave, to worker_thread or to the         *)
(* callback that called flush_workqueue on its own queue.                  *)
next_work(p, fs, cur, ow) ==
  IF worklist[p] # <<>>
  THEN LET w == Head(worklist[p])
       IN  /\ current_work' = [current_work EXCEPT ![p] = w]
           /\ worklist' = [worklist EXCEPT ![p] = Tail(@)]
           /\ frames' = [frames EXCEPT ![p] = Append(fs, w)]
           /\ wpc' = [wpc EXCEPT ![p] = "picked"]
           /\ owed' = [t \in Callers |->
                         {IF e = <<w, 0>> THEN <<w, p>> ELSE e : e \in ow[t]}]
  ELSE /\ current_work' = [current_work EXCEPT ![p] = cur]
       /\ frames' = [frames EXCEPT ![p] = fs]
       /\ wpc' = [wpc EXCEPT ![p] = IF fs = <<>> THEN "loop" ELSE "run"]
       /\ owed' = ow
       /\ UNCHANGED worklist

(* worker_thread finds work and enters run_workqueue.                      *)
worker_thread(p) ==
  /\ wpc[p] = "loop"
  /\ worklist[p] # <<>>
  /\ next_work(p, <<>>, current_work[p], owed)
  /\ UNCHANGED <<wvars, cvars>>

(* work_clear_pending comes before the callback, so that the callback can  *)
(* queue its own item.                                                     *)
clears_pending(w) == w \in Works

\* defect: a barrier met while a callback runs the queue by hand is dropped
completes_outermost(t, p) == t = Last(frames[p]) /\ Len(frames[p]) = 1

(* wq_barrier_func                                                         *)
completes(t, p) == t = Last(frames[p])

(* After the unlock: work_clear_pending and the start of f(work).  The     *)
(* function of a barrier, wq_barrier_func, completes it.                   *)
call_f(p) ==
  /\ wpc[p] = "picked"
  /\ wpc' = [wpc EXCEPT ![p] = "run"]
  /\ pending' = [w \in Works |-> pending[w] /\ ~(w = Last(frames[p]) /\ clears_pending(w))]
  /\ pc' = [t \in Callers |-> IF completes(t, p) THEN "woken" ELSE pc[t]]
  /\ UNCHANGED <<wq_data, timer, setter, worklist, current_work, frames,
                 op, target, cpu, cwq, ret, owed>>

(* f(work) returns and the loop goes round.                                *)
f_returns(p) ==
  /\ wpc[p] = "run"
  /\ next_work(p, Front(frames[p]), None,
               [t \in Callers |-> owed[t] \ {<<Last(frames[p]), p>>}])
  /\ UNCHANGED <<wvars, cvars>>

(* A callback calls flush_workqueue on the queue it runs from: its thread  *)
(* is cwq->thread, so flush_cpu_workqueue runs the list by hand.  Only for *)
(* a queue with one list: with more, the callback would also have to wait  *)
(* for the other workers, which may be waiting for this one.               *)
flush_own(p) ==
  /\ NCPU = 1
  /\ wpc[p] = "run"
  /\ Last(frames[p]) \in Works
  /\ Len(frames[p]) < MaxDepth
  /\ next_work(p, frames[p], current_work[p], owed)
  /\ UNCHANGED <<wvars, cvars>>

-----------------------------------------------------------------------------
(* The blocking calls.                                                     *)
Goto(t, l) == pc' = [pc EXCEPT ![t] = l]

(* A call starts: o is what is called, l where it begins.                  *)
call(t, o, w, l) ==
  /\ pc[t] = "idle"
  /\ op' = [op EXCEPT ![t] = o]
  /\ target' = [target EXCEPT ![t] = w]
  /\ cpu' = [cpu EXCEPT ![t] = 1]
  /\ ret' = [ret EXCEPT ![t] = -1]
  /\ Goto(t, l)
  /\ UNCHANGED <<wvars, qvars>>

(* The executions of w that are queued or under way.                       *)
Executions(w) == (IF Queued(w) THEN {<<w, 0>>} ELSE {})
                   \cup {<<w, p>> : p \in {q \in CPUs : w \in Range(frames[q])}}

call_flush_workqueue(t) ==
  /\ call(t, "flush_workqueue", None, "flush")
  /\ owed' = [owed EXCEPT ![t] = UNION {Executions(w) : w \in Works}]
  /\ UNCHANGED cwq

(* flush_work reads work->data before it takes the lock, and returns if    *)
(* the work was never queued.  Its caller must have seen to it that the    *)
(* work is not queued again, or it is owed nothing.                        *)
call_flush_work(t, w) ==
  /\ wq_data[w] # 0
  /\ call(t, "flush_work", w, "flush_work")
  /\ cwq' = [cwq EXCEPT ![t] = wq_data[w]]
  /\ owed' = [owed EXCEPT ![t] = IF timer[w] \/ setter[w] # "none" THEN {}
                                 ELSE Executions(w)]

call_cancel(t, w) ==
  /\ \/ call(t, "cancel_work_sync", w, "grab")
     \/ call(t, "cancel_delayed_work_sync", w, "del_timer")
  /\ UNCHANGED <<cwq, owed>>

return(t) ==
  /\ op' = [op EXCEPT ![t] = "none"]
  /\ target' = [target EXCEPT ![t] = None]
  /\ cpu' = [cpu EXCEPT ![t] = 0]
  /\ cwq' = [cwq EXCEPT ![t] = 0]
  /\ ret' = [ret EXCEPT ![t] = 0]
  /\ owed' = [owed EXCEPT ![t] = {}]
  /\ Goto(t, "idle")

(* insert_wq_barrier at position i of CPU p's list, and wait_for_completion *)
insert_wq_barrier(t, p, i) ==
  /\ worklist' = [worklist EXCEPT ![p] = InsertAt(@, i, t)]
  /\ Goto(t, "wait")
  /\ UNCHANGED <<current_work, frames, wpc, op, target, cpu, cwq, ret, owed>>

(* The end of the body of __cancel_work_timer's loop: try again if         *)
(* ret < 0, or have the work.                                              *)
waited_on_work(t) ==
  /\ cpu' = [cpu EXCEPT ![t] = 1]
  /\ Goto(t, IF ret[t] >= 0 THEN "clear"
             ELSE IF op[t] = "cancel_work_sync" THEN "grab" ELSE "del_timer")
  /\ UNCHANGED <<op, target, cwq, ret, owed>>

\* defect: one CPU too many
more_cpus_off_by_one(t) == cpu[t] <= NCPU

more_cpus(t) == cpu[t] < NCPU

(* The for_each_cpu loops of flush_workqueue and wait_on_work.  flush_work *)
(* has none.                                                               *)
next_cpu(t) ==
  \/ /\ op[t] # "flush_work"
     /\ more_cpus(t)
     /\ cpu' = [cpu EXCEPT ![t] = @ + 1]
     /\ Goto(t, IF op[t] = "flush_workqueue" THEN "flush" ELSE "wait_on")
     /\ UNCHANGED <<op, target, cwq, ret, owed>>
  \/ /\ op[t] = "flush_work" \/ (op[t] = "flush_workqueue" /\ ~more_cpus(t))
     /\ return(t)
  \/ /\ op[t] \in {"cancel_work_sync", "cancel_delayed_work_sync"}
     /\ ~more_cpus(t)
     /\ waited_on_work(t)

(* wait_for_completion returns.                                            *)
completed(t) ==
  /\ pc[t] = "woken"
  /\ next_cpu(t)
  /\ UNCHANGED <<wvars, qvars>>

\* defect: an item that has left the list and is running is not waited for
is_active_queued(p) == worklist[p] # <<>>

is_active(p) == worklist[p] # <<>> \/ current_work[p] # None

flush_cpu_workqueue(t) ==
  /\ pc[t] = "flush"
  /\ LET p == cpu[t]
     IN  \/ /\ is_active(p)
            /\ insert_wq_barrier(t, p, Len(worklist[p]) + 1)
         \/ /\ ~is_active(p)
            /\ next_cpu(t)
            /\ UNCHANGED qvars
  /\ UNCHANGED wvars

(* flush_work with the lock of the cwq it read before: behind the work, or *)
(* first of the list if the work is running; not at all if it is queued    *)
(* elsewhere by now, or done.                                              *)
flush_work(t) ==
  /\ pc[t] = "flush_work"
  /\ LET p == cwq[t]
         w == target[t]
     IN  \/ /\ Queued(w) /\ wq_data[w] = p
            /\ \E i \in DOMAIN worklist[p] :
                 worklist[p][i] = w /\ insert_wq_barrier(t, p, i + 1)
         \/ /\ ~Queued(w) /\ current_work[p] = w
            /\ insert_wq_barrier(t, p, 1)
         \/ /\ IF Queued(w) THEN wq_data[w] # p ELSE current_work[p] # w
            /\ return(t)
            /\ UNCHANGED qvars
  /\ UNCHANGED wvars

-----------------------------------------------------------------------------
(* __cancel_work_timer                                                     *)

cancel_del_timer(t) ==
  /\ pc[t] = "del_timer"
  /\ LET w == target[t]
     IN  /\ timer' = [timer EXCEPT ![w] = FALSE]
         /\ ret' = [ret EXCEPT ![t] = IF timer[w] THEN 1 ELSE -1]
         /\ Goto(t, IF timer[w] THEN "wait_on" ELSE "grab")
  /\ UNCHANGED <<pending, wq_data, setter, qvars, op, target, cpu, cwq, owed>>

(* try_to_grab_pending up to the lock: nobody has the work, or it may be   *)
(* queued on the cwq in work->data, if there is one.                       *)
grab_pending(t) ==
  /\ pc[t] = "grab"
  /\ LET w == target[t]
     IN  /\ pending' = [pending EXCEPT ![w] = TRUE]
         /\ ret' = [ret EXCEPT ![t] = IF pending[w] THEN -1 ELSE 0]
         /\ cwq' = [cwq EXCEPT ![t] = IF pending[w] THEN wq_data[w] ELSE 0]
         /\ Goto(t, IF pending[w] /\ wq_data[w] # 0 THEN "steal" ELSE "wait_on")
  /\ UNCHANGED <<wq_data, timer, setter, qvars, op, target, cpu, owed>>

\* defect: the work is taken to be queued where it was when last looked at
on_this_list_assumed(w, p) == TRUE

(* With the lock held: is the work still on this list?                     *)
on_this_list(w, p) == Queued(w) /\ wq_data[w] = p

steal_pending(t) ==
  /\ pc[t] = "steal"
  /\ LET p == cwq[t]
         w == target[t]
     IN  IF on_this_list(w, p)
         THEN /\ worklist' = [worklist EXCEPT ![p] = RemoveFirst(@, w)]
              /\ ret' = [ret EXCEPT ![t] = 1]
              /\ owed' = [k \in Callers |-> owed[k] \ {<<w, 0>>}]
         ELSE UNCHANGED <<worklist, ret, owed>>
  /\ cwq' = [cwq EXCEPT ![t] = 0]
  /\ Goto(t, "wait_on")
  /\ UNCHANGED <<wvars, current_work, frames, wpc, op, target, cpu>>

\* defect: only the CPU the work was last queued on is looked at
is_running_last_cpu(w, p) == current_work[p] = w /\ wq_data[w] = p

is_running(w, p) == current_work[p] = w

(* wait_on_cpu_work for CPU cpu[t].  wait_on_work does not start its loop  *)
(* if the work was never queued.                                           *)
wait_on_cpu_work(t) ==
  /\ pc[t] = "wait_on"
  /\ LET p == cpu[t]
         w == target[t]
         never == p = 1 /\ wq_data[w] = 0
     IN  \/ /\ ~never /\ is_running(w, p)
            /\ insert_wq_barrier(t, p, 1)
         \/ /\ ~never /\ ~is_running(w, p)
            /\ next_cpu(t)
            /\ UNCHANGED qvars
         \/ /\ never
            /\ waited_on_work(t)
            /\ UNCHANGED qvars
  /\ UNCHANGED wvars

(* work_clear_pending, and the call returns.                               *)
cancel_done(t) ==
  /\ pc[t] = "clear"
  /\ pending' = [pending EXCEPT ![target[t]] = FALSE]
  /\ return(t)
  /\ UNCHANGED <<wq_data, timer, setter, qvars>>

-----------------------------------------------------------------------------
AnyContext(w) ==
  \/ set_pending(w, "queue")
  \/ set_pending(w, "arm")
  \/ \E p \in CPUs : __queue_work(w, p) \/ add_timer(w, p)
  \/ delayed_work_timer_fn(w)
  \/ cancel_delayed_work(w)

Worker(p) == worker_thread(p) \/ call_f(p) \/ f_returns(p)

Call(t) ==
  \/ call_flush_workqueue(t)
  \/ \E w \in Works : call_flush_work(t, w) \/ call_cancel(t, w)

InCall(t) ==
  \/ completed(t)
  \/ flush_cpu_workqueue(t)
  \/ flush_work(t)
  \/ cancel_del_timer(t)
  \/ grab_pending(t)
  \/ steal_pending(t)
  \/ wait_on_cpu_work(t)
  \/ cancel_done(t)

Next ==
  \/ \E w \in Works : AnyContext(w)
  \/ \E p \in CPUs : Worker(p) \/ flush_own(p)
  \/ \E t \in Callers : Call(t) \/ InCall(t)

(* The worker threads are scheduled and callbacks terminate; so do the     *)
(* tasks inside a call.  Nothing makes anybody queue a work, and nothing   *)
(* is assumed of timers.                                                   *)
Fairness ==
  /\ \A p \in CPUs : WF_vars(Worker(p))
  /\ \A t \in Callers : WF_vars(InCall(t))

Spec == Init /\ [][Next]_vars /\ Fairness

-----------------------------------------------------------------------------
Items == Works \cup Callers

TypeOK ==
  /\ pending \in [Works -> BOOLEAN]
  /\ wq_data \in [Works -> 0..NCPU]
  /\ timer \in [Works -> BOOLEAN]
  /\ setter \in [Works -> Setters]
  /\ worklist \in [CPUs -> Seq(Items)]
  /\ current_work \in [CPUs -> Items \cup {None}]
  /\ frames \in [CPUs -> Seq(Items)]
  /\ wpc \in [CPUs -> {"loop", "picked", "run"}]
  /\ pc \in [Callers -> Pcs]
  /\ op \in [Callers -> Ops]
  /\ target \in [Callers -> Works \cup {None}]
  /\ cpu \in [Callers -> 0..NCPU]
  /\ cwq \in [Callers -> 0..NCPU]
  /\ ret \in [Callers -> {-1, 0, 1}]
  /\ owed \in [Callers -> SUBSET (Works \X (0..NCPU))]

(* Everything that has the right to put w on a list or to clear PENDING:   *)
(* its places on the lists, its timer, the thread that set PENDING, a      *)
(* worker about to clear it, and cancellers that got hold of it.           *)
Owners(w) ==
  {e \in UNION {{p} \X DOMAIN worklist[p] : p \in CPUs} : worklist[e[1]][e[2]] = w}
  \cup {x \in {"timer"} : timer[w]}
  \cup {x \in {"setter"} : setter[w] # "none"}
  \cup {p \in CPUs : wpc[p] = "picked" /\ Last(frames[p]) = w}
  \cup {t \in Callers : target[t] = w /\ op[t] # "flush_work" /\ ret[t] >= 0}

(* PENDING is a lock on the work: it is set exactly when there is one      *)
(* owner, and there are never two.  The BUG_ONs of queue_work_on,          *)
(* queue_delayed_work_on and run_workqueue rest on it: a work that is not  *)
(* pending is on no list and has no timer, and a worker about to clear     *)
(* PENDING finds its own cwq in work->data.                                *)
PendingHasOneOwner ==
  /\ \A w \in Works : Cardinality(Owners(w)) = IF pending[w] THEN 1 ELSE 0
  /\ \A p \in CPUs : wpc[p] = "picked" /\ Last(frames[p]) \in Works
                       => wq_data[Last(frames[p])] = p

(* "block until a work_struct's callback has terminated", also when the    *)
(* work queues itself again: when __cancel_work_timer leaves its loop the  *)
(* work is on no list, its timer is off and its callback runs nowhere.     *)
CancelledIsIdle ==
  \A t \in Callers : pc[t] = "clear" =>
    LET w == target[t]
    IN  ~Queued(w) /\ ~timer[w] /\ \A p \in CPUs : w \notin Range(frames[p])

(* "We sleep until all works which were queued on entry have been          *)
(* handled": flush_workqueue returns after the end of every execution that *)
(* was queued or under way when it was called, cancelled ones excepted.    *)
(* flush_work does so for the execution on the CPU where its work was last *)
(* queued, if it is not queued again.                                      *)
FlushWaits ==
  [][\A t \in Callers :
       /\ op[t] = "flush_workqueue" /\ op'[t] = "none" => owed[t] = {}
       /\ op[t] = "flush_work" /\ op'[t] = "none" =>
            owed[t] \cap {<<target[t], 0>>, <<target[t], cwq[t]>>} = {}]_vars

(* "but we are not livelocked by new incoming ones": the flushes return,   *)
(* and nobody waits for a barrier for ever, however fast works are queued  *)
(* again and also when a callback runs the queue by hand.                  *)
FlushReturns ==
  \A t \in Callers :
    /\ op[t] \in {"flush_workqueue", "flush_work"} ~> op[t] = "none"
    /\ pc[t] = "wait" ~> pc[t] # "wait"

=============================================================================
