# Verification of the Loongson-2F kernel's synchronisation and journal

The repository is Linux 2.6.27.6 with the configurations and board code for a
Lemote machine (Loongson 2F, MIPS, one CPU, `CONFIG_PREEMPT`). This directory
holds TLA+ modules for its core synchronisation code and for the journal of its
file system, TLC configurations for small instances of them, and TLAPS proofs
for all instances. Paths below are
relative to `src/linux-2.6.27.6/`.

## Inventory

Everything else in a kernel stands on the primitives that let a task wait, defer
work or hand over data. They are small, concurrent to the last instruction, and
hardly testable: what goes wrong in them is an order of steps nobody can provoke
on purpose. The journal is the one part here that must survive a crash at any
instruction.

| part | state it keeps | operations | what is hard | what makes it correct |
|---|---|---|---|---|
| mutex (`kernel/mutex.c`, `asm-generic/mutex-*.h`) | `count`, `wait_list`, `wait_lock` | lock (3 sleep modes), unlock, trylock | `count` is changed without the lock; signals race with wake-ups | one owner; `count` tells the truth; no lost wake-up |
| semaphore (`kernel/semaphore.c`) | `count`, `wait_list`, each waiter's `up` | down (4 variants), trylock, up | hand-over races with signal and timeout; used from interrupts | permits conserved; FIFO; no dangling waiter |
| rw semaphore (`lib/rwsem-spinlock.c`) | `activity`, `wait_list`, each waiter's `task`, `flags` | down/up/try for read and write, downgrade | the grant is seen without the lock; the waiter dies under the waker | holders agree with `activity`; nobody touches a dead waiter; nobody starves |
| SRCU (`kernel/srcu.c`) | `completed`, per-CPU counters, `mutex` | read lock/unlock, synchronize, init, cleanup | no barriers on the read side; migration; helpers' grace periods | no grace period ends early; each one ends |
| sleep/wake-up interface (`kernel/sched.c`, `signal.c`, `timer.c`) | `->state`, pending signal | `schedule`, `try_to_wake_up`, `signal_wake_up`, timers | used by all of the above | contract only (module `Tasks`) |
| classic RCU (`kernel/rcuclassic.c`) | batch numbers, CPU mask, callback lists | `call_rcu`, quiescent states, batches | every CPU works on it at once | no callback runs early, each one runs |
| work queues (`kernel/workqueue.c`) | work list, pending bit, current work | queue, run, flush, cancel, destroy | cancel against a running, re-queueing item | no work lost, run twice at once, or run after cancel |
| softirqs, tasklets (`kernel/softirq.c`) | per-CPU lists, SCHED and RUN bits, disable count | schedule, run, kill, disable | the two bits change from different contexts | never on two CPUs, never lost |
| kthreads (`kernel/kthread.c`) | stop info, completions | create, stop | stop against exit | no missed stop |
| kfifo (`kernel/kfifo.c`) | `in`, `out`, buffer | put, get, reset | lock-free, wrapping indices | FIFO contents for one reader and one writer |
| timers (`kernel/timer.c`) | wheel, running timer | mod, del, del_sync | handler running during del | no handler after `del_timer_sync` |
| journal (`fs/jbd`) | transactions, log, revoke table | start, write access, commit, checkpoint, recover | crash between any two writes; handles, commit, checkpoint and writeback share the buffers under three locks, each of which is dropped on the way | committed data survives, uncommitted data does not |
| rt-mutex, futex | waiter and PI chains | lock, unlock, requeue | chain walk drops locks | no lost wake-up, priorities right |
| Lemote 2F board (`arch/mips/lemote/lm2f`) | MSR shadow flags, interrupt masks | virtual PCI configuration, interrupts, reset | hardware protocol | accesses map to the right register |
| mm, VFS, block, net, IPC, drivers | | | | out of scope by size |

`PROJECT.json` lists the same parts with their sources and status, and the
hazards at their lines.

How the modelled parts interact. The three locks call the scheduler
(`schedule`, `wake_up_process`) and read the signal state; the scheduler's side
is the shared module `Tasks`. SRCU uses a mutex, represented by what a mutex is
shown to implement (`LockSpec`: one holder at a time), and `synchronize_sched`,
represented by its contract, which is what `RcuClassic` is shown to keep
(`GracePeriodElapsed`, `CallbacksInvoked`). The work queue uses timers
(`timer` and its firing are steps of `WorkQueue`) and completions. The journal
is used by ext3 and uses the buffer cache; the parts of both that it depends on
are actions of `Journal`.

## Modules

| module | models |
|---|---|
| `Tasks` | task states, `signal_pending_state`, `try_to_wake_up`, `signal_wake_up`, when `schedule()` returns |
| `LockSpec` | what a lock promises: shared and exclusive holds, granted only when compatible, downgraded, handed over, released |
| `Mutex` | `kernel/mutex.c` over `mutex-dec.h` (with and without cmpxchg), `mutex-xchg.h`, `mutex-null.h` |
| `Semaphore` | `kernel/semaphore.c` |
| `Rwsem` | `lib/rwsem-spinlock.c` |
| `Srcu` | `kernel/srcu.c` |
| `WorkQueue` | `kernel/workqueue.c`: queueing, delayed work, workers, flush and cancel |
| `RcuClassic` | `kernel/rcuclassic.c`: callbacks, batches, quiescent states, CPU hotplug |
| `FifoSpec` | a bounded FIFO: what a ring buffer promises |
| `KFifo` | `kernel/kfifo.c`, shown to implement `FifoSpec` |
| `Journal` | `fs/jbd` in ordered mode under ext3: transactions, commit, checkpoint, revoke, crash and recovery |
| `MC*` | name the model values of the TLC instances |
| `MutexProofs`, `SemaphoreProofs`, `RwsemProofs`, `SrcuProofs`, `RcuClassicProofs`, `WorkQueueProofs`, `KFifoProofs`, `JournalProofs` | the theorems about the module of that name; those with queues start with the lemmas on `Append`, `Tail` and `RemoveFirst` that they need |

Definitions keep the names of the functions they translate where they are one
step (`mutex_unlock`, `down_trylock`, `flip` for the middle of
`synchronize_srcu`); a function that is several atomic steps is several
actions, tied by `pc`. Operators whose comment starts with "defect" are faulty
variants of the definition that follows them; no specification uses them. They
are there to show that each property can fail.

**Atomicity.** A mutex: each atomic operation on `count` is a step; the start
and end of a `wait_lock` section are joined to the accesses next to them. The
semaphore: a section under `sem->lock` is a step, because nothing it touches is
touched outside. The rw semaphore: a section is a step unless it grants; then
each grant is two, the store to `waiter->task` and the wake-up. Its readers may
be released by another context than the taker: direct I/O takes
`i_alloc_sem` with `down_read_non_owner` and the completion interrupt releases
it (`fs/direct-io.c`). That is the case in which a granted task can be gone
before its waker calls `wake_up_process`, and in which the reference on the
`task_struct` matters; it is modelled by `SubmitDirectIO`, `up_read_non_owner`
and the counter `orphans`. In all three, a
task between setting its state and sleeping can be woken, and a signal can
arrive at any time. Locals that are dead after a call are reset to a fixed
value so that they do not multiply states.

**SRCU's memory order.** The code has no barrier on the read side and argues in
comments from `synchronize_sched`. The model therefore has one step per
memory access that matters, in the order in which they take effect. A reader's
first access to the data may take effect before it reads `completed`, its last
one after it is uncounted; an updater's unlinking store may take effect after
the first load of `completed`. `synchronize_sched` waits for each task that is
in the middle of such a reordering to reach a point where a context switch is
possible (`Quiet`). `holders[u]` is a ghost variable: the readers that may have
found the element `u` unlinked. Leaving out any of the three
`synchronize_sched` calls, or lowering the `2` of the early exit, makes TLC
report an early end of a grace period or a rank that grows while it is summed.

**Work queue.** Everything under `cwq->lock` is a step. The PENDING bit is not
under the lock, so setting it and queueing, stopping the timer and clearing the
bit, taking an item and clearing its bit are separate steps. `setter[w]` says
what the thread that set the bit is about to do. Works are queued from any
context at any time, their own callbacks included. `owed[t]` is a ghost
variable: the executions a flush must see the end of.

**Classic RCU.** `cur`, `completed` and `next_pending` are read without the lock
by the softirq, so those reads are separate steps, as are the clearing of
`next_pending` and the increment of `cur`, which the code orders with a write
barrier. Batch numbers are words of `W` bits compared by their signed
difference. `readers[c]` is a ghost variable: the CPUs inside a read-side
section that began before `call_rcu(c)`. Readers are in process context.

**kfifo.** Without a lock, `__kfifo_put` and `__kfifo_get` are four steps each:
sample, first copy, second copy, publish. Under the lock each call is one step.
The refinement maps the ring to the bytes between `out` and `in`.

**Journal.** The disk is the superblock, the log and the home blocks; each block
write is a step and is on the disk once it has been waited for. Contents are
abstracted to the use of a block and the transaction that wrote it. `now`, `com`
and `done` are ghost variables: what the file system says is in each block as of
the running, the committing and the last committed transaction. A block is
metadata (journalled) or data (written home before the commit), and may change
from one to the other by being freed and allocated again. `Crash` may come at
any moment and `recover_crash` stops a recovery half-way. `journal_recover` is
the three passes of `do_one_pass`.

A step of `Journal` is as long as the code holds `jbd_lock_bh_state`,
`j_list_lock` or `j_state_lock`. So these are steps of their own:

* a handle starts, gets write access, changes the block (or gives the access
  back), and stops. Write access is two steps, because `do_get_write_access`
  unlocks the buffer at `transaction.c:594` and clears the dirty bit at
  `:711-719`; in between `bh[b].handle = "entry"`, the buffer's state is locked
  for everybody else (`bh_state_free`), and writeback, which takes only the
  buffer lock, may come in. The caller's change and `journal_dirty_metadata` are
  one step: from the moment access is granted the buffer is in the running
  transaction, which cannot commit before the handle ends, and neither its
  contents nor the fields `journal_dirty_metadata` sets are read by anybody
  else, except by a write that is already in flight, and for such a write only
  what the buffer holds at its end matters;
* a write home is submitted (`write_buffer`, `flush_batch`: the dirty bit goes,
  the buffer is locked) and ends (`end_buffer_write`). What it writes is what is
  in the buffer at its end, which is the case that matters when the buffer
  changes under it;
* a checkpoint queues buffers (`process_buffers`), submits them one by one
  (`flush_batch`, which passes over a buffer that is no longer dirty) and drops
  them in `__wait_cp_io` "in whatever state the buffer currently is"
  (`wait_cp_io`). `remove_checkpoint` is the other way off the list, for a
  buffer that is neither dirty nor locked. `journal_flush` runs with handles
  locked out; the checkpoint in it is made of the same steps;
* the commit chooses the page to log (`journal_write_metadata_buffer`), files
  the buffer as `BJ_Shadow` (`file_shadow`), submits what it has collected
  (`start_journal_io`) and waits for each block (`log_written`), which reads the
  page that was chosen. One descriptor describes all buffers of a transaction.

The code has five windows in which somebody comes in who should not. Each is
open if the constant `Windows` has its name. In the code all five are open, and
each by itself breaks a property (next section); with the five closed both
properties hold, so these are all there are in the instance checked.

## Runs

| run | instance | shows |
|---|---|---|
| `mutex` | 3 tasks, 4 fast paths, 3 sleep modes, 2 kinds of signal | `MutualExclusion`, `CountAgrees`, `SleepersCovered`, `FreeMutexIsTaken`, `ImplementsLock` |
| `semaphore` | 3 tasks, 1 permit, up to 1 added or removed from outside | `PermitsConserved`, `NoFreePermitWhileWaiting`, `QueueIsLive`, `GrantedIsAwake`, `ServedInOrder`, `WaitersLeave` |
| `rwsem` | 3 tasks, exiting and reborn, and the completion interrupt, with up to 2 read locks left to it | `ActivityAgrees`, `QueueBehindReaders`, `NoStaleWaiter`, `GrantedIsWoken`, `WaitersServed`, `ImplementsLock` |
| `srcu` | 2 readers, 2 updaters, 2 CPUs, 3 flips | `GracePeriodElapsed`, `OldRankOnlyDrains`, `CountersAddUp`, `GracePeriodEnds` |
| `workqueue` | 1 work, 2 blocking callers, 2 CPUs | `PendingHasOneOwner`, `CancelledIsIdle`, `FlushWaits` |
| `workqueue_up` | 2 works, 1 caller, 1 list, callbacks that flush their own queue (depth 2) | `PendingHasOneOwner`, `FlushReturns` |
| `rcu` | 2 CPUs, one may go and come, 2 callbacks, 2-bit batch numbers | `GracePeriodElapsed`, `BatchWillRun` |
| `rcu_live` | the same with 1 callback | `CallbacksInvoked` |
| `kfifo` | a ring of 4 bytes, indices modulo 8 so that they wrap, 2 byte values, calls of up to 3 bytes | `ImplementsFifo` |
| `journal` | 2 blocks, 3 transactions of up to 2 buffers, two handles at a time, 10 log blocks starting at 9, no window open | `CrashRecovers`, `WriteAhead` |
| `journal_forget` | 1 block, window `forget` | violates `CrashRecovers` |
| `journal_tail` | 1 block, 5 transactions, window `tail` | violates `CrashRecovers` |

The first run of each module also checks its `TypeOK`. Every run checks
deadlock. In `Journal`, `TypeOK` includes that the log never runs out of blocks.

**What the five windows show.** Each window of the journal breaks what a
document or a comment of the code promises, and in each the code does what the
model does. `forget` and `tail` have a violation run each, against
`Documentation/filesystems/ext3.txt:136-138` ("in case of a crash, the journal
can replay the transactions to quickly put the partition back into a consistent
state"). The other three are faulty variants of a guard in the run `journal`
(`kept_off_queued_not`, `may_submit_unlocked`, `kept_off_log_page_not`): the
variant is the code as it is, the guard is what would close the window. To see
one, add its name to `Windows` in `MCJournal.cfg`. `checkpoint` and `shadow` lose
what was committed, as do the first two; `writeback` sends home what was not:

* `forget` (`fs/jbd/transaction.c:1321`). Transaction T1 is committing
  and has block b. T2 modifies b (T1's image is copied out) and then frees it.
  `journal_forget` only takes b off T2. Phase 7 of T1 finds b jbddirty, puts it
  on T1's checkpoint list and marks it dirty, with T2's contents. It is written
  home, T1 leaves the log, and a crash before T2 commits leaves b, which is
  still in use, with contents nobody committed. ext3 does this when it
  truncates: `ext3_free_data` clears the pointers of an indirect block
  (`fs/ext3/inode.c:2098-2141`) and `ext3_free_branches` forgets that block
  (`:2223`), in one transaction.
* `tail` (`fs/jbd/checkpoint.c:452-457`). `cleanup_journal_tail` gives
  the freed log blocks to new transactions (`j_free`, `j_tail`) and drops the
  lock before `journal_update_superblock` has written the new start of the log.
  A transaction logged in between may overwrite the block the superblock on
  disk points to; recovery after a crash then finds no transaction at all.
* `checkpoint` (`fs/jbd/checkpoint.c:276-285`, `:358-363`).
  `__process_buffer` puts a dirty buffer on the io list and drops its state
  lock; `j_list_lock` is dropped before `__flush_batch` submits it. A handle
  that gets write access in between moves the dirty bit to jbddirty, so
  `ll_rw_block` writes nothing, and `__wait_cp_io` drops the buffer all the same
  (`:197-201`, "we know that it has been written out"). Its transaction leaves
  the log, and a crash before the handle's transaction commits loses it. The
  comment at `:268-273` says that this must not happen: "as that would break
  recoverability".
* `writeback` (`fs/jbd/transaction.c:594`). A buffer in no transaction
  is unlocked with its dirty bit set (`:509-517` leave the bit of a `BJ_None`
  buffer alone), and the bit is cleared by `__journal_file_buffer` (`:717`,
  `:2054-2063`). Writeback that submits the buffer in between has it under I/O
  while the caller modifies it, against "we must do it under the buffer lock to
  be sure we don't race with running write-out" (`:586-588`) and "make sure it
  doesn't get written to disk before the caller actually commits the new data"
  (`:707-709`).
* `shadow` (`fs/jbd/journal.c:368`). `journal_write_metadata_buffer`
  chooses the buffer's own page (`:315`), drops the state lock, may sleep
  (`:370`) and files the buffer as `BJ_Shadow` at `:388`. The next transaction
  finds the buffer on `BJ_Metadata`, copies it out and changes the page, and the
  log write reads the changed page, against "then we *have* to lock the buffer
  to prevent anyone else from using and possibly modifying it while the IO is in
  progress" (`:259-261`).

Two more observations come from `WorkQueue` and are excluded from its
properties. A callback that flushes its own queue runs the list by hand, and
the inner `run_workqueue` leaves `current_work` NULL (`kernel/workqueue.c:311`)
while the outer callback is still running: `cancel_work_sync` then returns too
early, so `CancelledIsIdle` is checked without such callbacks (`workqueue` has
`MaxDepth = 1`). And `flush_work` looks only at the CPU where the work was last
queued, so an older execution on another CPU is not waited for, though the
comment says "block until a work_struct's callback has terminated" (`:423`);
`FlushWaits` states what does hold.

**Bounds.** Three tasks give an owner, a sleeper and a third that interferes,
which the mutex's races need (an owner releasing, a waiter leaving, a trylock
in between). For the rw semaphore a read lock left to the interrupt, with three
tasks, lets two readers queue behind a writer behind an active reader (an
instance of four tasks and one such lock, 448,590 states, passes too but takes
about four minutes). `Permits = 1` with `MaxExtra = 1` reaches an empty, a
full and an over-full semaphore. Three flips let an updater call, miss two
complete grace periods of the other, and take the early exit; `MaxRef` only
bounds how far one CPU's counter may drift by migration, and never blocks a
reader when it is at least half the number of readers. Counters of waiters and
task references are bounded by the number of tasks. Two CPUs and two callers let
a work run on one CPU while it is queued on the other and two cancels or flushes
compete. Batch numbers of two bits wrap after four batches; the code never lets
a number in use be further than two from the current one. Three transactions
give one in the log waiting for its checkpoint, one committing and one running,
and the life of a block from metadata, through its revoke, to data; the log
start and length make it wrap in the first or second transaction and make
handles wait for space, which is when a checkpoint runs. `MaxBuffers = 2`
gives transactions, descriptors and checkpoint batches of two blocks, and two
handles at work at once. In `journal` both blocks are in use at first
(`Allocated`), so a new block is one that was freed before. With 11 log blocks
(3,220,261 states, about three minutes) a transaction can also start while one
of two buffers commits; that instance passes too. Symmetry of the two
blocks is used in `journal`, which has no liveness property. Only
`MaxExtra`, `MaxOrphans`, `MaxFlips`, `MaxRef`, `MaxDepth`, `MaxLen`, `MaxTid`
and, for its size, `Reserved` (32 in the code) are artificial.

**Fairness.** Weak fairness for a task inside a lock's code: a runnable task
eventually runs. Nothing is assumed of a task that owns a lock or has not
called. `FreeMutexIsTaken` is not starvation freedom: a mutex lets newcomers
overtake. `WaitersServed` is conditional on holders, the I/O under way
included, not keeping the semaphore for ever. `Semaphore` also assumes that an armed timer fires. `Srcu` assumes
that readers leave their critical sections, and that an access takes effect
some day. `WorkQueue` assumes that workers and blocked callers are scheduled and
callbacks return; nothing of timers or of anyone who queues. `RcuClassic`
assumes that the tick raises the softirq and hotplug completes (weak), and that
a CPU on which process context is interrupted again and again by the softirq
still leaves its read-side sections and passes context switches (strong
fairness of `rcu_read_unlock` and `rcu_qsctr_inc`: they are disabled while the
softirq or the next reader runs). `KFifo` and `Journal` have safety properties
only.

## Proofs

All eight models have theorems, proved for all values of the constants.
Each `*Proofs` module states an inductive invariant `Inv`, proves one lemma per
action (`Inv` and the action imply `Inv'`), and reads the theorems off `Inv`.
Proved facts use the safety part of `Spec`.

| theorem | states |
|---|---|
| `MutexProofs!TypeCorrect`, `MutexExcludes`, `MutexNeverLost`, `MutexLosesNoWakeup` | `TypeOK`, `MutualExclusion`, `CountAgrees`, `SleepersCovered` |
| `MutexProofs!MutexImplementsLock` | refinement of `LockSpec` |
| `SemaphoreProofs!TypeCorrect`, `SemaphoreConserves`, `SemaphoreQueue`, `SemaphoreNotIdle`, `SemaphoreWakes`, `SemaphoreFifo` | `TypeOK`, `PermitsConserved`, `QueueIsLive`, `NoFreePermitWhileWaiting`, `GrantedIsAwake`, and the action property `ServedInOrder` |
| `RwsemProofs!RwsemTypeOK`, `RwsemActivity`, `RwsemQueueBehindReaders`, `RwsemNoStaleWaiter`, `RwsemWakes` | `TypeOK`, `ActivityAgrees`, `QueueBehindReaders`, `NoStaleWaiter`, `GrantedIsWoken` |
| `RwsemProofs!RwsemImplementsLock` | refinement of `LockSpec` |
| `SrcuProofs!SrcuTypeOK`, `SrcuGracePeriod`, `SrcuOldRankOnlyDrains`, `SrcuCountersAddUp` | `TypeOK`, `GracePeriodElapsed`, `OldRankOnlyDrains`, `CountersAddUp` |
| `RcuClassicProofs!RcuTypeOK`, `RcuGracePeriod`, `RcuBatchWillRun` | `TypeOK`, `GracePeriodElapsed`, `BatchWillRun` |
| `WorkQueueProofs!WorkQueueTypeOK`, `WorkQueueOneOwner` | `TypeOK`, `PendingHasOneOwner` |
| `WorkQueueProofs!WorkQueueCancelledIsIdle`, `WorkQueueFlushWaits` | `CancelledIsIdle`, and the action property `FlushWaits`, if no callback flushes its own queue |
| `KFifoProofs!KFifoTypeOK` | `TypeOK` |
| `KFifoProofs!KFifoImplementsFifo` | refinement of `FifoSpec` |
| `JournalProofs!JournalWriteAhead` | `WriteAhead`, with the windows `forget` and `writeback` closed and the other three open or not |
| `JournalProofs!JournalLogHasRoom` | the log has room for all that the commit under way, the running transaction and its open handles may still write, if 7 blocks are kept back; windows open or not |
| `JournalProofs!JournalRecoveryRepeats` | a recovery cut short by a crash does not change what the next one makes of the disk |

**The arguments.**

* *Mutex.* `MutualExclusion` is not inductive. `Inv` adds that at most one task
  `Owns` the mutex (which includes a task in the middle of taking or releasing
  it), that `count = 1` exactly when none does, that the holder of `wait_lock`
  is the one task in a section under it, that the value a trylock is about to
  restore is negative, and what a task in the trylock slow path may have seen.
  Refinement: each action leaves `Owns` alone, or makes one task an owner when
  there is none, or removes the owner. For the wake-ups `CoverInv` adds that the
  queue is the set of tasks in the wait loop, each once, and that while a task
  sleeps either the mutex is owned and `count` negative, so that the unlock
  takes its slow path, or some task is about to try the mutex or to pass a
  wake-up on.
* *Semaphore.* `Inv` joins conservation, the shape of the queue (no repetition,
  exactly the waiters without a permit), that `up` is set only for sleepers, and
  that a free permit and a queue exclude each other. The queue's shape is what
  makes a hand-over add exactly one owner.
* *Read/write semaphore.* While a waker has `wait_lock`, `activity` lags behind
  by the readers it has granted so far; `GrantsAgree` says by how much at each
  of its steps. The queue is the set of tasks whose `waiter->task` is set, and
  the reference on a `task_struct` goes from the waiter to the waker that
  clears `waiter->task` (`UsageAgrees`). Refinement: the holders are the tasks
  and the slots of the read locks left to the interrupt.
* *SRCU.* While nobody is between the flip and the third `synchronize_sched`
  only one rank has registered readers; a rank that was flipped away from only
  drains, so the sum so far is never below what is left of the counters already
  read (`SumFromAbove`), although they are read one by one. An updater carries its own obligation
  (`OwnGracePeriod`), or is served by two flips of others
  (`OthersGracePeriod`). The sum is a recursive function; that it follows the
  change of one counter is proved by taking the least CPU where it would not.
* *Classic RCU.* A CPU that reads for a callback is in `cpumask` until it has
  noticed the batch and been outside of any reader after that
  (`ReadersHoldBatch`). Because numbers wrap, the argument needs that nobody
  falls behind: `quiescbatch` is at most two batches old (`NoticedLately`), and
  the batch of `curlist` is the next one, the one under way or the last one
  completed (`NumberedLately`).
* *Work queue.* An item is claimed by a list, a worker that has picked it, the
  timer, the thread that set PENDING, or a canceller. `Inv` says that it has
  one claim while PENDING is set, or while the owner of a barrier waits, and
  none otherwise; each step gives, moves or drops one. Cancellation adds
  `CancelInv`: what runs is `current_work` (`Flat`), a barrier is behind what it
  waits for, and on the CPUs a canceller has passed the work is idle and stays
  so. For `FlushWaits`, `FlushInv` says where the executions are that a flush
  still owes its caller: queued or running on a CPU it has not come to, or in
  front of its barrier (`Before`, an order on the list that every list
  operation keeps) on the CPU where it waits. The barrier runs last, so nothing
  of that CPU is owed when it is completed, and nothing at all after the last
  CPU. `Flat` is false when a callback flushes its own queue
  (`kernel/workqueue.c:311`), so these theorems have the hypothesis `NoNesting`:
  `MaxDepth = 1`, or several CPUs (the model has such callbacks only on a queue
  with one thread, where they need not also wait for other threads).
* *kfifo.* `used(in, out)` never exceeds the size, so the free slots seen from
  `in` and the used ones seen from `out` are the two parts of the ring. A sample
  of the other side's index errs on the safe side (`Room`, `Ready`), so the
  writer's copies leave the published bytes alone and the reader's copies stay
  true until it publishes (`Written`, `Fetched`). The arithmetic is that
  reducing by `2^W` and then by the size is reducing by the size.
* *Journal.* The journal makes a buffer dirty only when it takes the buffer off
  its last transaction, and then from `jbddirty`. `JInv` therefore follows the
  mark: a buffer with the running transaction's contents is filed under that
  transaction, or under the committing one with the running one next, and then
  phase 7 refiles it and leaves it alone. It also follows the buffer through
  write access: a buffer in a transaction is neither dirty nor being written,
  none is being written between `unlock_buffer` and the end of
  `do_get_write_access`, and access is granted only to the running transaction.
  Writeback in the window `writeback` breaks the second of these, and
  `journal_forget` in the window `forget` clears `b_next_transaction` and keeps
  the mark: hence the two assumptions of `JournalWriteAhead`. It assumes nothing
  about the other three windows, the size of the log or crashes. `JInv` has
  the transaction numbers too; that recovery goes on from one is shown by taking the least block of the log where the scan would
  not. `JournalLogHasRoom` is the assertion `j_free > 1` of
  `journal_next_log_block` (`fs/jbd/journal.c:568`): a handle that starts finds
  room for its transaction at its largest, for what the commit has yet to write
  and for the control blocks of both (two revoke blocks, two descriptors, two
  commit records), and no later step of a transaction needs more buffers than
  were counted: a credit passes from the open handle (`handles`) to the block it
  works on (`InHandle`) and from there to the buffer that is to be written
  (`Todo`), which the commit takes off as it chooses it (`ChosenInv`). The code keeps 32 blocks back; transactions whose buffers need
  more than one descriptor or revoke block are beyond the model.
  `JournalRecoveryRepeats` rests on a replay writing only images from the
  log, which it does not change; it holds whatever is in the log.

**Assumptions.** Only the named `ASSUME`s of the modules, which TLC evaluates in
the runs. `Readers`, `Updaters`, the journal's `Blocks` and, where holders are
counted, `Tasks` are finite. `RwsemAssumption` keeps tasks apart from the numbers that name read
locks left to interrupts. `PowerAssumption` in `RcuClassic` and `KFifo` states
facts about powers of two (`2^W >= 4`; `2^W` is `2^LogSize` times something
greater than 1) that are true of all numbers but unknown to the provers.
`RcuClassic` needs batch numbers of at least two bits; `long` has 32 or 64.

**Only model-checked.**

* Liveness (`FreeMutexIsTaken`, `WaitersLeave`, `WaitersServed`,
  `GracePeriodEnds`, `FlushReturns`, `CallbacksInvoked`): beyond this prover.
* `CrashRecovers` of the journal: it is about what the scan of a ring of log
  blocks returns for every ring, and so needs induction over it. It holds only
  with the windows closed, as the violations and the variants show.
* `TypeOK` of the journal: that home locations get block contents back from a
  replay is part of the same question, and that `free` never exceeds the log
  needs the order of `t_log_start` in the ring.

## Not modelled

Lockdep and the `CONFIG_DEBUG_*` bookkeeping; memory ordering inside the
spinlock-based locks, whose sections are ordered by the spinlock itself; the
ordering of the mutex's fast paths, whose atomic operations are full barriers;
wrap-around of SRCU's `completed`; creating and destroying work queues, their
CPU hotplug callback and the freezer; callbacks that block on other queues;
`rcu_bh`, CPUs with the tick stopped, readers inside interrupts, `rcu_barrier`;
the journal's other data modes, I/O errors and abort, `journal_wipe`,
wrapping transaction numbers, disk write caches and barriers, descriptors that
fill up, and a handle that changes several blocks or a block that two handles
change at once (ext3 keeps the latter apart with its own locks); the parts marked `not_modelled` in `PROJECT.json`.

## Plan

Modelled so far: the locks, SRCU, work queues, classic RCU, kfifo, the journal.
Next, in this order: an abstract grace-period specification that `RcuClassic`
implements and that justifies `Quiet` in `Srcu`; `Tasklet`; `KThread` with
completions; `del_timer_sync`; the BAR-sizing protocol of `cs5536_vsm.c`.
Proofs next: that `free` is the distance from `head` to `tail`, from the order of
`t_log_start` in the ring.
