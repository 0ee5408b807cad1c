-------------------------------- MODULE Srcu --------------------------------
(***************************************************************************)
(* kernel/srcu.c: sleepable RCU.  Readers register in one of two ranks of  *)
(* per-CPU counters; synchronize_srcu flips the rank new readers use and   *)
(* waits for the old one to drain.                                         *)
(*                                                                         *)
(* The read side has no memory barrier, so the model is about the order in *)
(* which memory accesses take effect, not the order of the program.  Of a  *)
(* reader it keeps the load of `completed', the store to the counter in    *)
(* srcu_read_lock, the store in srcu_read_unlock, and the window between   *)
(* its first and last access to the protected data, which may open before  *)
(* the former and close after the latter.  Of an updater it keeps the      *)
(* store that unlinks an element, which may take effect after the first    *)
(* load of `completed' in the synchronize_srcu call that follows it.       *)
(*                                                                         *)
(* What orders them is synchronize_sched: it waits until every CPU has     *)
(* been through a context switch, where all earlier accesses of the task   *)
(* have taken effect and no later one has, and never between               *)
(* preempt_disable and preempt_enable.  `Quiet' says who could be at such  *)
(* a point.                                                                *)
(*                                                                         *)
(* One updater at a time is between mutex_lock and mutex_unlock; its mutex *)
(* is the lock of module LockSpec.                                         *)
(***************************************************************************)
EXTENDS Integers, FiniteSets

CONSTANTS Readers, Updaters, NoTask,
          NCPU,       \* possible CPUs are 1..NCPU
          MaxFlips,   \* bound on completed
          MaxRef      \* bound on the drift of one CPU's counter

ASSUME SrcuAssumption ==
  /\ IsFiniteSet(Readers) /\ IsFiniteSet(Updaters)
  /\ Readers \cap Updaters = {}
  /\ NoTask \notin Updaters
  /\ NCPU \in Nat \ {0}
  /\ MaxFlips \in Nat
  /\ MaxRef \in Nat

CPUs == 1..NCPU
Ranks == {0, 1}

VARIABLES
  per_cpu_ref, \* whether the counters are allocated
  completed,   \* number of flips; its parity is the rank new readers use
  c,           \* c[cpu][rank]
  mutex,       \* the updater in the critical section, or NoTask
  rpc, ridx,   \* readers: progress and the rank they registered in
  ref,         \* readers: "none", "held" or "dropped" references to the data
  upc, idx,    \* updaters: progress and the local variable idx
  unlinked,    \* updaters: has the unlinking store taken effect?
  holders,     \* ghost: readers that may still see the unlinked element
  gp,          \* tasks the current synchronize_sched still waits for
  cpu, sum     \* locals of srcu_readers_active_idx

rvars == <<rpc, ridx, ref>>
uvars == <<mutex, upc, idx, unlinked, cpu, sum>>
vars  == <<per_cpu_ref, completed, c, rvars, uvars, holders, gp>>

(* Readers: "out"; "sampled" after the load of completed; "in" once        *)
(* counted; "left" when uncounted but with accesses still under way.       *)
(* Updaters: "idle"; "called" after the first load of completed; "sync1",  *)
(* "sync2", "sync3" in the three synchronize_sched; "scan" in the loop     *)
(* that sums the counters; "done" when synchronize_srcu has returned.      *)
RPcs == {"out", "sampled", "in", "left"}
UPcs == {"idle", "called", "sync1", "sync2", "scan", "sync3", "done"}

Init ==
  /\ per_cpu_ref = TRUE
  /\ completed = 0
  /\ c = [p \in CPUs |-> [k \in Ranks |-> 0]]
  /\ mutex = NoTask
  /\ rpc = [r \in Readers |-> "out"]
  /\ ridx = [r \in Readers |-> 0]
  /\ ref = [r \in Readers |-> "none"]
  /\ upc = [u \in Updaters |-> "idle"]
  /\ idx = [u \in Updaters |-> 0]
  /\ unlinked = [u \in Updaters |-> FALSE]
  /\ holders = [u \in Updaters |-> {}]
  /\ gp = {}
  /\ cpu = 1
  /\ sum = 0

(* Could the task be at a context switch now?                              *)
Quiet(t) ==
  IF t \in Readers THEN rpc[t] = "in" \/ (rpc[t] = "out" /\ ref[t] = "none")
                   ELSE ~(upc[t] = "called" /\ ~unlinked[t])

(* synchronize_sched begins: it will wait for every task not Quiet now.    *)
synchronize_sched == gp' = {t \in Readers \cup Updaters : ~Quiet(t)}

\* defect: the parity is not taken
rank_of_unmasked(n) == n

rank_of(n) == n % 2

-----------------------------------------------------------------------------
(* Readers.                                                                *)

(* The critical section's first access takes effect, at the earliest       *)
(* before srcu_read_lock has read the rank.                                *)
FirstAccess(r) ==
  /\ per_cpu_ref
  /\ rpc[r] # "left"
  /\ ref[r] = "none"
  /\ ref' = [ref EXCEPT ![r] = "held"]
  /\ UNCHANGED <<per_cpu_ref, completed, c, rpc, ridx, uvars, holders, gp>>

srcu_read_lock_sample(r) ==
  /\ per_cpu_ref
  /\ rpc[r] = "out"
  /\ rpc' = [rpc EXCEPT ![r] = "sampled"]
  /\ ridx' = [ridx EXCEPT ![r] = rank_of(completed)]
  /\ UNCHANGED <<per_cpu_ref, completed, c, ref, uvars, holders, gp>>

srcu_read_lock_count(r, p) ==
  /\ rpc[r] = "sampled"
  /\ c[p][ridx[r]] < MaxRef
  /\ c' = [c EXCEPT ![p][ridx[r]] = @ + 1]
  /\ rpc' = [rpc EXCEPT ![r] = "in"]
  /\ gp' = gp \ {r}
  /\ UNCHANGED <<per_cpu_ref, completed, ridx, ref, uvars, holders>>

(* The reader is past all its accesses: nothing of it is left to wait for. *)
Gone(r) ==
  /\ rpc' = [rpc EXCEPT ![r] = "out"]
  /\ ref' = [ref EXCEPT ![r] = "none"]
  /\ ridx' = [ridx EXCEPT ![r] = 0]
  /\ gp' = gp \ {r}

\* defect: the rank is read again instead of being passed in
unlock_rank_read_again(r) == rank_of(completed)

(* The parameter idx of srcu_read_unlock.                                  *)
unlock_rank(r) == ridx[r]

(* Uncounted on the CPU it runs on now, maybe not the one it was counted   *)
(* on, and maybe before its last access has taken effect.                  *)
srcu_read_unlock(r, p) ==
  /\ rpc[r] = "in"
  /\ c[p][unlock_rank(r)] > -MaxRef
  /\ c' = [c EXCEPT ![p][unlock_rank(r)] = @ - 1]
  /\ \/ /\ ref[r] = "held"
        /\ rpc' = [rpc EXCEPT ![r] = "left"]
        /\ UNCHANGED <<ridx, ref, gp>>
     \/ /\ ref[r] # "held"
        /\ Gone(r)
  /\ UNCHANGED <<per_cpu_ref, completed, uvars, holders>>

LastAccess(r) ==
  /\ ref[r] = "held"
  /\ \/ /\ rpc[r] = "in"
        /\ ref' = [ref EXCEPT ![r] = "dropped"]
        /\ UNCHANGED <<rpc, ridx, gp>>
     \/ /\ rpc[r] = "left"
        /\ Gone(r)
  /\ holders' = [u \in Updaters |-> holders[u] \ {r}]
  /\ UNCHANGED <<per_cpu_ref, completed, c, uvars>>

-----------------------------------------------------------------------------
(* Updaters.                                                               *)

(* No call beyond the bound: each one under way may flip once.             *)
Busy == {u \in Updaters : upc[u] \in UPcs \ {"idle", "done"} \/ unlinked[u]}
MayCall(u) == per_cpu_ref /\ (u \in Busy \/ completed + Cardinality(Busy) < MaxFlips)

(* The caller's unlinking store takes effect; readers inside keep what     *)
(* they may have found.                                                    *)
Unlink(u) ==
  /\ upc[u] \in {"idle", "called"}
  /\ ~unlinked[u]
  /\ MayCall(u)
  /\ unlinked' = [unlinked EXCEPT ![u] = TRUE]
  /\ holders' = [holders EXCEPT ![u] = {r \in Readers : ref[r] = "held"}]
  /\ gp' = gp \ {u}
  /\ UNCHANGED <<per_cpu_ref, completed, c, rvars, mutex, upc, idx, cpu, sum>>

synchronize_srcu(u) ==
  /\ upc[u] = "idle"
  /\ MayCall(u)
  /\ idx' = [idx EXCEPT ![u] = completed]
  /\ upc' = [upc EXCEPT ![u] = "called"]
  /\ UNCHANGED <<per_cpu_ref, completed, c, rvars, mutex, unlinked, cpu, sum,
                 holders, gp>>

\* defect: one advance of the counter is taken to be enough
others_did_the_work_one(u) == completed - idx[u] >= 1

others_did_the_work(u) == completed - idx[u] >= 2

(* mutex_lock, a full barrier, and the check; on the early exit the mutex  *)
(* is dropped again.                                                       *)
lock_and_check(u) ==
  /\ upc[u] = "called"
  /\ unlinked[u]
  /\ mutex = NoTask
  /\ \/ /\ others_did_the_work(u)
        /\ upc' = [upc EXCEPT ![u] = "done"]
        /\ idx' = [idx EXCEPT ![u] = 0]
        /\ UNCHANGED <<mutex, gp>>
     \/ /\ ~others_did_the_work(u)
        /\ upc' = [upc EXCEPT ![u] = "sync1"]
        /\ mutex' = u
        /\ synchronize_sched
        /\ UNCHANGED idx
  /\ UNCHANGED <<per_cpu_ref, completed, c, rvars, unlinked, cpu, sum, holders>>

\* defect: the rank is not flipped, new readers keep joining the old one
flipped_not(n) == n

flipped(n) == n + 1

(* The first synchronize_sched is over: flip, start the second.            *)
flip(u) ==
  /\ upc[u] = "sync1"
  /\ gp = {}
  /\ idx' = [idx EXCEPT ![u] = rank_of(completed)]
  /\ completed' = flipped(completed)
  /\ upc' = [upc EXCEPT ![u] = "sync2"]
  /\ synchronize_sched
  /\ UNCHANGED <<per_cpu_ref, c, rvars, mutex, unlinked, cpu, sum, holders>>

\* defect: the counters are summed without waiting for the second one
readers_counted_assumed == TRUE

(* The second synchronize_sched has returned: every reader of the old rank *)
(* is counted.                                                             *)
readers_counted == gp = {}

scan_start(u) ==
  /\ upc[u] = "sync2"
  /\ readers_counted
  /\ gp' = {}
  /\ upc' = [upc EXCEPT ![u] = "scan"]
  /\ UNCHANGED <<per_cpu_ref, completed, c, rvars, mutex, idx, unlinked, cpu, sum,
                 holders>>

(* srcu_readers_active_idx reads one CPU's counter after the other.        *)
scan_cpu(u) ==
  /\ upc[u] = "scan"
  /\ cpu <= NCPU
  /\ sum' = sum + c[cpu][idx[u]]
  /\ cpu' = cpu + 1
  /\ UNCHANGED <<per_cpu_ref, completed, c, rvars, mutex, upc, idx, unlinked,
                 holders, gp>>

(* All read: sum again a tick later, or start the third synchronize_sched. *)
scan_end(u) ==
  /\ upc[u] = "scan"
  /\ cpu > NCPU
  /\ cpu' = 1
  /\ sum' = 0
  /\ \/ /\ sum # 0
        /\ UNCHANGED <<upc, gp>>
     \/ /\ sum = 0
        /\ upc' = [upc EXCEPT ![u] = "sync3"]
        /\ synchronize_sched
  /\ UNCHANGED <<per_cpu_ref, completed, c, rvars, mutex, idx, unlinked, holders>>

(* The third synchronize_sched is over: mutex_unlock and return.           *)
return(u) ==
  /\ upc[u] = "sync3"
  /\ gp = {}
  /\ mutex' = NoTask
  /\ upc' = [upc EXCEPT ![u] = "done"]
  /\ idx' = [idx EXCEPT ![u] = 0]
  /\ UNCHANGED <<per_cpu_ref, completed, c, rvars, unlinked, cpu, sum, holders, gp>>

(* The caller frees the element it had unlinked.                           *)
Reclaim(u) ==
  /\ upc[u] = "done"
  /\ upc' = [upc EXCEPT ![u] = "idle"]
  /\ unlinked' = [unlinked EXCEPT ![u] = FALSE]
  /\ holders' = [holders EXCEPT ![u] = {}]
  /\ UNCHANGED <<per_cpu_ref, completed, c, rvars, mutex, idx, cpu, sum, gp>>

-----------------------------------------------------------------------------
(* The srcu_struct itself, disposed of when nobody uses it any more.       *)

(* The loop of srcu_readers_active_idx: sum after each of the CPUs.        *)
active_upto(k) ==
  LET upto[n \in 0..NCPU] == IF n = 0 THEN 0 ELSE upto[n - 1] + c[n][k]
  IN  upto

srcu_readers_active_idx(k) == active_upto(k)[NCPU]

srcu_readers_active == srcu_readers_active_idx(0) + srcu_readers_active_idx(1)

NotInUse ==
  /\ \A r \in Readers : rpc[r] = "out" /\ ref[r] = "none"
  /\ \A u \in Updaters : upc[u] = "idle" /\ ~unlinked[u]

cleanup_srcu_struct ==
  /\ per_cpu_ref
  /\ NotInUse
  /\ per_cpu_ref' = (srcu_readers_active # 0)
  /\ UNCHANGED <<completed, c, rvars, uvars, holders, gp>>

(* alloc_percpu may fail, and returns zeroed memory when it does not.      *)
init_srcu_struct ==
  /\ ~per_cpu_ref
  /\ completed' = 0
  /\ mutex' = NoTask
  /\ per_cpu_ref' \in BOOLEAN
  /\ c' = [p \in CPUs |-> [k \in Ranks |-> 0]]
  /\ UNCHANGED <<rvars, upc, idx, unlinked, cpu, sum, holders, gp>>

-----------------------------------------------------------------------------
ReaderEnds(r) ==
  \/ ref[r] = "held" /\ srcu_read_lock_sample(r)
  \/ \E p \in CPUs : srcu_read_lock_count(r, p) \/ srcu_read_unlock(r, p)
  \/ LastAccess(r)

Reader(r) ==
  \/ FirstAccess(r)
  \/ srcu_read_lock_sample(r)
  \/ \E p \in CPUs : srcu_read_lock_count(r, p) \/ srcu_read_unlock(r, p)
  \/ LastAccess(r)

UpdaterProceeds(u) ==
  \/ upc[u] = "called" /\ Unlink(u)
  \/ lock_and_check(u)
  \/ flip(u)
  \/ scan_start(u)
  \/ scan_cpu(u)
  \/ scan_end(u)
  \/ return(u)

Updater(u) ==
  \/ Unlink(u)
  \/ synchronize_srcu(u)
  \/ lock_and_check(u)
  \/ flip(u)
  \/ scan_start(u)
  \/ scan_cpu(u)
  \/ scan_end(u)
  \/ return(u)
  \/ Reclaim(u)

Next ==
  \/ \E r \in Readers : Reader(r)
  \/ \E u \in Updaters : Updater(u)
  \/ cleanup_srcu_struct
  \/ init_srcu_struct

(* Readers leave their critical sections (a rule for callers, for else     *)
(* synchronize_srcu must not return), every access takes effect some day,  *)
(* and the scheduler runs an updater that can go on.                       *)
Fairness ==
  /\ \A r \in Readers : WF_vars(ReaderEnds(r))
  /\ \A u \in Updaters : WF_vars(UpdaterProceeds(u))

Spec == Init /\ [][Next]_vars /\ Fairness

-----------------------------------------------------------------------------
TypeOK ==
  /\ per_cpu_ref \in BOOLEAN
  /\ completed \in 0..MaxFlips
  /\ c \in [CPUs -> [Ranks -> -MaxRef..MaxRef]]
  /\ mutex \in Updaters \cup {NoTask}
  /\ rpc \in [Readers -> RPcs]
  /\ ridx \in [Readers -> Ranks]
  /\ ref \in [Readers -> {"none", "held", "dropped"}]
  /\ upc \in [Updaters -> UPcs]
  /\ idx \in [Updaters -> 0..MaxFlips]
  /\ unlinked \in [Updaters -> BOOLEAN]
  /\ holders \in [Updaters -> SUBSET Readers]
  /\ gp \subseteq Readers \cup Updaters
  /\ cpu \in 1..NCPU + 1
  /\ sum \in Int

(* The grace period: when synchronize_srcu returns, by either exit, no     *)
(* reader that could have found the element before it was unlinked still   *)
(* uses it, although the read side has no barriers and counts on whatever  *)
(* CPU it happens to run.                                                  *)
GracePeriodElapsed ==
  \A u \in Updaters : upc[u] = "done" => holders[u] = {}

(* While a rank is being summed nobody can join it any more: every reader  *)
(* that had read the old value of completed has been counted.  This is     *)
(* what makes a sum taken CPU by CPU, with readers migrating, sound.       *)
OldRankOnlyDrains ==
  \A u \in Updaters : upc[u] \in {"scan", "sync3"} =>
    \A r \in Readers : rpc[r] = "sampled" => ridx[r] # idx[u]

(* The counters of a rank add up to its registered readers over all        *)
(* migrations and flips, so that cleanup_srcu_struct never finds a leak.   *)
CountersAddUp ==
  per_cpu_ref => \A k \in Ranks : srcu_readers_active_idx(k) =
    Cardinality({r \in Readers : rpc[r] = "in" /\ ridx[r] = k})

(* synchronize_srcu returns, although new readers keep arriving.           *)
GracePeriodEnds ==
  \A u \in Updaters : upc[u] = "called" ~> upc[u] = "done"

=============================================================================
