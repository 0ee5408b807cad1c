----------------------------- MODULE RcuClassic -----------------------------
(***************************************************************************)
(* kernel/rcuclassic.c: grace periods and callbacks of classic RCU, for    *)
(* one rcu_ctrlblk.                                                        *)
(*                                                                         *)
(* A CPU is in process context, maybe in a read-side critical section, or  *)
(* in the RCU softirq on top of it.  The softirq reads rcp->completed, cur *)
(* and next_pending without rcp->lock, so its steps are those reads, the   *)
(* locked sections and the calls of the callbacks.  rcu_start_batch writes *)
(* next_pending before cur, with a barrier between, and both can be seen   *)
(* from outside the lock: it is two steps.                                 *)
(*                                                                         *)
(* Batch numbers are words of W bits and wrap.  A list of callbacks is the *)
(* set of them.                                                            *)
(***************************************************************************)
EXTENDS Integers, FiniteSets

CONSTANTS Callbacks,
          NCPU,   \* CPUs are 1..NCPU; CPU 1 is never taken offline
          W       \* width of a batch number

ASSUME RcuClassicAssumption == NCPU \in Nat \ {0} /\ W \in Nat \ {0, 1}

(* The arithmetic of powers of two that the proofs need: true of every W   *)
(* above, but the provers do not know the operator ^.                      *)
ASSUME PowerAssumption == 2^(W - 1) \in Nat \ {0, 1} /\ 2^W = 2 * 2^(W - 1)

CPUs == 1..NCPU
Hotplug == NCPU + 1   \* the task that takes CPUs up and down
Batch == 0..(2^W - 1)

VARIABLES
  cur, completed, next_pending, cpumask, \* struct rcu_ctrlblk
  lock,          \* who is in rcu_start_batch with rcp->lock held, or 0
  quiescbatch, passed_quiesc, qs_pending, batch,  \* struct rcu_data
  nxtlist, curlist, donelist,
  spc,           \* the softirq's next step, "idle" if it is not running
  reading,       \* is the CPU in a read-side critical section?
  online,        \* cpu_online_map
  dead, flushed, \* CPU being taken down, 0 if none; is its bit cleared?
  readers        \* ghost: CPUs whose readers a callback must outwait

rcp   == <<cur, completed, next_pending, cpumask, lock>>
qs    == <<quiescbatch, passed_quiesc, qs_pending>>
lists == <<nxtlist, curlist, donelist, batch>>
hp    == <<online, dead, flushed>>
vars  == <<rcp, qs, lists, hp, spc, reading, readers>>

Spcs == {"idle", "take", "number", "look", "start", "check", "quiet", "invoke"}

(* Any batch number may be the current one: -300 at boot is no different.  *)
Init ==
  /\ cur \in Batch
  /\ completed = cur
  /\ next_pending = FALSE
  /\ cpumask = {}
  /\ lock = 0
  /\ quiescbatch = [p \in CPUs |-> completed]
  /\ passed_quiesc = [p \in CPUs |-> FALSE]
  /\ qs_pending = [p \in CPUs |-> FALSE]
  /\ batch = [p \in CPUs |-> 0]
  /\ nxtlist = [p \in CPUs |-> {}]
  /\ curlist = [p \in CPUs |-> {}]
  /\ donelist = [p \in CPUs |-> {}]
  /\ spc = [p \in CPUs |-> "idle"]
  /\ reading = [p \in CPUs |-> FALSE]
  /\ online = CPUs
  /\ dead = 0
  /\ flushed = FALSE
  /\ readers = [c \in Callbacks |-> {}]

\* defect: the number does not wrap
Succ_unbounded(n) == n + 1

Succ(n) == (n + 1) % 2^W

\* defect: the numbers are compared as unsigned words
rcu_batch_before_unsigned(a, b) == a < b

(* (a - b) < 0 for signed words                                            *)
rcu_batch_before(a, b) == (a - b) % 2^W >= 2^(W - 1)

Held(p) == nxtlist[p] \cup curlist[p] \cup donelist[p]

Waiting == UNION {Held(p) : p \in CPUs}

-----------------------------------------------------------------------------
(* Process context.                                                        *)

rcu_read_lock(p) ==
  /\ p \in online /\ spc[p] = "idle"
  /\ ~reading[p]
  /\ reading' = [reading EXCEPT ![p] = TRUE]
  /\ UNCHANGED <<rcp, qs, lists, hp, spc, readers>>

rcu_read_unlock(p) ==
  /\ spc[p] = "idle"
  /\ reading[p]
  /\ reading' = [reading EXCEPT ![p] = FALSE]
  /\ readers' = [c \in Callbacks |-> readers[c] \ {p}]
  /\ UNCHANGED <<rcp, qs, lists, hp, spc>>

(* From a task, an interrupt or a callback.  The length of the queue only  *)
(* tunes how soon callbacks are invoked.                                   *)
call_rcu(p, c) ==
  /\ p \in online
  /\ c \notin Waiting
  /\ nxtlist' = [nxtlist EXCEPT ![p] = @ \cup {c}]
  /\ readers' = [readers EXCEPT ![c] = {q \in CPUs : reading[q]}]
  /\ UNCHANGED <<rcp, qs, curlist, donelist, batch, hp, spc, reading>>

(* rcu_qsctr_inc, from schedule() or from a tick in user mode or the idle  *)
(* loop.                                                                   *)
rcu_qsctr_inc(p) ==
  /\ p \in online /\ spc[p] = "idle"
  /\ ~reading[p]
  /\ passed_quiesc' = [passed_quiesc EXCEPT ![p] = TRUE]
  /\ UNCHANGED <<rcp, quiescbatch, qs_pending, lists, hp, spc, reading, readers>>

-----------------------------------------------------------------------------
(* Grace periods.  These run with rcp->lock held by x.                     *)

\* defect: a request made while a batch is under way is forgotten
rcu_start_batch_forgets(np, x) ==
  /\ lock' = IF np /\ completed' = cur THEN x ELSE 0
  /\ next_pending' = FALSE

(* rcu_start_batch: next_pending is cleared, if the batch can start.       *)
rcu_start_batch(np, x) ==
  IF np /\ completed' = cur THEN lock' = x /\ next_pending' = FALSE
                            ELSE lock' = 0 /\ next_pending' = np

(* The rest of it: the new number and the CPUs to wait for.                *)
batch_started ==
  /\ lock # 0
  /\ cur' = Succ(cur)
  /\ cpumask' = online
  /\ lock' = 0
  /\ UNCHANGED <<completed, next_pending, qs, lists, hp, spc, reading, readers>>

cpu_quiet(p, x) ==
  /\ cpumask' = cpumask \ {p}
  /\ IF cpumask' = {}
     THEN completed' = cur /\ rcu_start_batch(next_pending, x)
     ELSE UNCHANGED <<completed, next_pending, lock>>
  /\ UNCHANGED cur

-----------------------------------------------------------------------------
(* The softirq: __rcu_process_callbacks on CPU p.                          *)
Goto(p, l) == spc' = [spc EXCEPT ![p] = l]

rcu_pending(p) ==
  \/ curlist[p] # {} /\ ~rcu_batch_before(completed, batch[p])
  \/ curlist[p] = {} /\ nxtlist[p] # {}
  \/ donelist[p] # {}
  \/ quiescbatch[p] # cur
  \/ qs_pending[p]

(* Raised from the tick, and by rcu_do_batch when it leaves some behind:   *)
(* the batch of curlist may be complete.                                   *)
rcu_process_callbacks(p) ==
  /\ p \in online /\ spc[p] = "idle"
  /\ rcu_pending(p)
  /\ IF curlist[p] # {} /\ ~rcu_batch_before(completed, batch[p])
     THEN /\ donelist' = [donelist EXCEPT ![p] = @ \cup curlist[p]]
          /\ curlist' = [curlist EXCEPT ![p] = {}]
          /\ batch' = [batch EXCEPT ![p] = 0]  \* not read until set again
     ELSE UNCHANGED <<donelist, curlist, batch>>
  /\ Goto(p, "take")
  /\ UNCHANGED <<rcp, qs, nxtlist, hp, reading, readers>>

take_nxtlist(p) ==
  /\ spc[p] = "take"
  /\ IF nxtlist[p] # {} /\ curlist[p] = {}
     THEN /\ curlist' = [curlist EXCEPT ![p] = nxtlist[p]]
          /\ nxtlist' = [nxtlist EXCEPT ![p] = {}]
          /\ Goto(p, "number")
     ELSE Goto(p, "check") /\ UNCHANGED <<curlist, nxtlist>>
  /\ UNCHANGED <<rcp, qs, donelist, batch, hp, reading, readers>>

(* Not the batch under way: it may have begun before the callbacks came.   *)
number_batch(p) ==
  /\ spc[p] = "number"
  /\ batch' = [batch EXCEPT ![p] = Succ(cur)]
  /\ Goto(p, "look")
  /\ UNCHANGED <<rcp, qs, nxtlist, curlist, donelist, hp, reading, readers>>

look_next_pending(p) ==
  /\ spc[p] = "look"
  /\ Goto(p, IF next_pending THEN "check" ELSE "start")
  /\ UNCHANGED <<rcp, qs, lists, hp, reading, readers>>

set_next_pending(p) ==
  /\ spc[p] = "start"
  /\ lock = 0
  /\ UNCHANGED completed
  /\ rcu_start_batch(TRUE, p)
  /\ Goto(p, "check")
  /\ UNCHANGED <<cur, cpumask, qs, lists, hp, reading, readers>>

(* rcu_check_quiescent_state up to the lock: notice a new grace period, or *)
(* go on if there was a quiescent state in the one noticed before.         *)
rcu_check_quiescent_state(p) ==
  /\ spc[p] = "check"
  /\ lock # p
  /\ \/ /\ quiescbatch[p] # cur
        /\ quiescbatch' = [quiescbatch EXCEPT ![p] = cur]
        /\ qs_pending' = [qs_pending EXCEPT ![p] = TRUE]
        /\ passed_quiesc' = [passed_quiesc EXCEPT ![p] = FALSE]
        /\ Goto(p, "invoke")
     \/ /\ quiescbatch[p] = cur
        /\ IF qs_pending[p] /\ passed_quiesc[p]
           THEN /\ qs_pending' = [qs_pending EXCEPT ![p] = FALSE]
                /\ Goto(p, "quiet")
           ELSE Goto(p, "invoke") /\ UNCHANGED qs_pending
        /\ UNCHANGED <<quiescbatch, passed_quiesc>>
  /\ UNCHANGED <<rcp, lists, hp, reading, readers>>

(* The locked section of rcu_check_quiescent_state.                        *)
report_quiet(p) ==
  /\ spc[p] = "quiet"
  /\ lock = 0
  /\ IF quiescbatch[p] = cur THEN cpu_quiet(p, p) ELSE UNCHANGED rcp
  /\ Goto(p, "invoke")
  /\ UNCHANGED <<qs, lists, hp, reading, readers>>

(* rcu_do_batch: invoke a callback; blimit, 10 by default and unlimited    *)
(* when many are queued, may be reached after any of them.                 *)
rcu_do_batch(p) ==
  /\ spc[p] = "invoke"
  /\ lock # p
  /\ \/ /\ donelist[p] = {}
        /\ Goto(p, "idle")
        /\ UNCHANGED donelist
     \/ \E c \in donelist[p] :
          /\ donelist' = [donelist EXCEPT ![p] = @ \ {c}]
          /\ Goto(p, "idle") \/ UNCHANGED spc
  /\ UNCHANGED <<rcp, qs, nxtlist, curlist, batch, hp, reading, readers>>

-----------------------------------------------------------------------------
(* CPU hotplug: one CPU at a time.                                         *)

(* The CPU has left the map; it runs nothing any more.                     *)
cpu_dies(p) ==
  /\ p \in online \ {1}
  /\ dead = 0
  /\ spc[p] = "idle" /\ ~reading[p]
  /\ online' = online \ {p}
  /\ dead' = p
  /\ UNCHANGED <<rcp, qs, lists, flushed, spc, reading, readers>>

\* defect: nobody reports for the dead CPU
offline_must_flush_never == FALSE

offline_must_flush == cur # completed

(* __rcu_offline_cpu, the locked section                                   *)
rcu_offline_quiet ==
  /\ dead # 0 /\ ~flushed
  /\ lock = 0
  /\ IF offline_must_flush THEN cpu_quiet(dead, Hotplug) ELSE UNCHANGED rcp
  /\ flushed' = TRUE
  /\ UNCHANGED <<online, dead, qs, lists, spc, reading, readers>>

(* rcu_move_batch for its three lists: they go to CPU q that runs this.    *)
(* The rest of the dead CPU's rcu_data is not read again.                  *)
rcu_offline_move(q) ==
  /\ dead # 0 /\ flushed
  /\ q \in online
  /\ lock # Hotplug
  /\ nxtlist' = [nxtlist EXCEPT ![q] = @ \cup Held(dead), ![dead] = {}]
  /\ curlist' = [curlist EXCEPT ![dead] = {}]
  /\ donelist' = [donelist EXCEPT ![dead] = {}]
  /\ dead' = 0
  /\ flushed' = FALSE
  /\ quiescbatch' = [quiescbatch EXCEPT ![dead] = 0]
  /\ passed_quiesc' = [passed_quiesc EXCEPT ![dead] = FALSE]
  /\ qs_pending' = [qs_pending EXCEPT ![dead] = FALSE]
  /\ batch' = [batch EXCEPT ![dead] = 0]
  /\ UNCHANGED <<rcp, online, spc, reading, readers>>

(* rcu_online_cpu, and the CPU enters the map.  What it clears is clear.   *)
rcu_online_cpu(p) ==
  /\ p \notin online
  /\ dead = 0
  /\ quiescbatch' = [quiescbatch EXCEPT ![p] = completed]
  /\ online' = online \cup {p}
  /\ UNCHANGED <<rcp, passed_quiesc, qs_pending, lists, dead, flushed, spc, reading, readers>>

-----------------------------------------------------------------------------
Softirq(p) ==
  \/ rcu_process_callbacks(p)
  \/ take_nxtlist(p)
  \/ number_batch(p)
  \/ look_next_pending(p)
  \/ set_next_pending(p)
  \/ rcu_check_quiescent_state(p)
  \/ report_quiet(p)
  \/ rcu_do_batch(p)

CpuDown == rcu_offline_quiet \/ \E q \in CPUs : rcu_offline_move(q)

Next ==
  \/ \E p \in CPUs : \/ rcu_read_lock(p) \/ rcu_read_unlock(p)
                     \/ \E c \in Callbacks : call_rcu(p, c)
                     \/ rcu_qsctr_inc(p)
                     \/ Softirq(p)
                     \/ cpu_dies(p) \/ rcu_online_cpu(p)
  \/ batch_started
  \/ CpuDown

(* The tick raises the softirq and it runs; CPU hotplug completes.  The    *)
(* softirq runs again and again over process context, which gets on        *)
(* between two ticks: readers leave, and tasks are switched again and      *)
(* again, though not between any two readers.  Hence strong fairness.      *)
Fairness ==
  /\ \A p \in CPUs : /\ SF_vars(rcu_read_unlock(p))
                     /\ WF_vars(Softirq(p))
                     /\ SF_vars(rcu_qsctr_inc(p))
  /\ WF_vars(batch_started)
  /\ WF_vars(CpuDown)

Spec == Init /\ [][Next]_vars /\ Fairness

-----------------------------------------------------------------------------
TypeOK ==
  /\ cur \in Batch /\ completed \in Batch
  /\ next_pending \in BOOLEAN
  /\ cpumask \subseteq CPUs
  /\ lock \in 0..Hotplug
  /\ quiescbatch \in [CPUs -> Batch]
  /\ passed_quiesc \in [CPUs -> BOOLEAN]
  /\ qs_pending \in [CPUs -> BOOLEAN]
  /\ batch \in [CPUs -> Batch]
  /\ nxtlist \in [CPUs -> SUBSET Callbacks]
  /\ curlist \in [CPUs -> SUBSET Callbacks]
  /\ donelist \in [CPUs -> SUBSET Callbacks]
  /\ spc \in [CPUs -> Spcs]
  /\ reading \in [CPUs -> BOOLEAN]
  /\ online \subseteq CPUs
  /\ dead \in 0..NCPU /\ flushed \in BOOLEAN
  /\ readers \in [Callbacks -> SUBSET CPUs]

(* "after all currently executing RCU read-side critical sections have     *)
(* completed": a callback gets to donelist, where it may be invoked at any *)
(* time, only when every reader that was running at call_rcu has left.     *)
GracePeriodElapsed ==
  \A p \in CPUs, c \in Callbacks : c \in donelist[p] => readers[c] = {}

(* Callbacks that have a batch number have a batch: it is over, or it is   *)
(* the one under way, or it has been asked for.  The number is computed    *)
(* and next_pending tested without the lock, while another CPU may be      *)
(* starting the very batch ("next_pending == 0 must be visible ... before  *)
(* it can see new value of cur").                                          *)
BatchWillRun ==
  \A p \in online :
    curlist[p] # {} /\ spc[p] \notin {"number", "look", "start"} =>
      \/ ~rcu_batch_before(completed, batch[p])
      \/ batch[p] = cur /\ cur # completed
      \/ batch[p] = Succ(cur) /\ (next_pending \/ lock # 0)

(* Every callback is invoked in the end, also when the CPU it was queued   *)
(* on, or one the grace period waits for, goes down.                       *)
CallbacksInvoked == \A c \in Callbacks : c \in Waiting ~> c \notin Waiting

=============================================================================
