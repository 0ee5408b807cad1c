-------------------------- MODULE RcuClassicProofs --------------------------
(***************************************************************************)
(* Proofs about kernel/rcuclassic.c for any number of CPUs and callbacks   *)
(* and any width of a batch number from two bits on.                       *)
(*                                                                         *)
(* Why a callback in donelist has outlived its readers: its batch number   *)
(* is one the code has not started yet; when that batch starts, every CPU  *)
(* that has an old reader is in cpumask, and it stays there until it has   *)
(* noticed the batch (which clears passed_quiesc), has been outside of any *)
(* reader after that, and reports.  Batch numbers wrap, so the argument    *)
(* also needs that nobody falls behind: what a CPU remembers in            *)
(* quiescbatch is at most two batches old, and in batch at most one.       *)
(***************************************************************************)
EXTENDS RcuClassic, TLAPS

(* A CPU that is not in the map runs nothing; once its lists are moved it  *)
(* has no callbacks.                                                       *)
OfflineIsIdle ==
  /\ dead \notin online
  /\ \A p \in CPUs \ online :
       /\ spc[p] = "idle" /\ ~reading[p]
       /\ p # dead => nxtlist[p] = {} /\ curlist[p] = {} /\ donelist[p] = {}

(* One batch at a time, and none is asked for when it could be started.    *)
OneBatch ==
  /\ cur = completed \/ cur = Succ(completed)
  /\ lock # 0 => cur = completed /\ ~next_pending
  /\ next_pending => cur # completed

(* The ghost names only readers that are still there.                      *)
ReadersRead == \A c \in Callbacks : \A q \in readers[c] : reading[q]

(* What a CPU has noticed: the batch under way or the one before, or, if   *)
(* it came up during that one and is waited for now, the one before that.  *)
NoticedLately ==
  \A q \in online :
    \/ quiescbatch[q] = cur
    \/ Succ(quiescbatch[q]) = cur
    \/ Succ(Succ(quiescbatch[q])) = cur /\ cur # completed /\ q \in cpumask

(* The batch of curlist is to come, under way or the last to be completed. *)
(* In the last case its CPU holds up the next batch, because it moves      *)
(* curlist before it can report for that one.                              *)
NumberedLately ==
  \A p \in online : curlist[p] # {} /\ spc[p] # "number" =>
    \/ /\ batch[p] = Succ(cur)
       /\ spc[p] \in {"look", "start"} \/ next_pending \/ lock # 0
    \/ /\ batch[p] = cur /\ cur # completed
       /\ spc[p] \in {"look", "start"} => p \in cpumask
    \/ /\ batch[p] = completed /\ spc[p] \notin {"look", "start"}
       /\ cur # completed =>
            /\ p \in cpumask
            /\ spc[p] = "quiet" => quiescbatch[p] # cur
            /\ spc[p] \in {"take", "check"} /\ quiescbatch[p] = cur =>
                 ~(qs_pending[p] /\ passed_quiesc[p])

(* While the batch of a callback is under way, the CPUs of its readers are *)
(* waited for and have not passed a quiescent state since they noticed it. *)
ReadersHoldBatch ==
  \A p \in online : \A c \in curlist[p] : spc[p] # "number" =>
    /\ batch[p] = completed => readers[c] = {}
    /\ batch[p] = cur /\ cur # completed =>
         \A q \in readers[c] :
           /\ q \in cpumask
           /\ quiescbatch[q] = cur => ~passed_quiesc[q] /\ spc[q] # "quiet"

Inv ==
  /\ TypeOK
  /\ OfflineIsIdle
  /\ OneBatch
  /\ ReadersRead
  /\ NoticedLately
  /\ NumberedLately
  /\ ReadersHoldBatch
  /\ GracePeriodElapsed

-----------------------------------------------------------------------------
(* Who may hold the lock.                                                  *)
LEMMA CpuNumbers ==
  /\ 0 \notin CPUs /\ Hotplug # 0
  /\ CPUs \subseteq 0 .. Hotplug /\ Hotplug \in 0 .. Hotplug /\ 0 \in 0 .. Hotplug
  BY RcuClassicAssumption DEF CPUs, Hotplug

(* Words of W bits.                                                        *)
LEMMA SuccValue ==
  ASSUME NEW a \in Batch
  PROVE  /\ Succ(a) \in Batch
         /\ Succ(a) = IF a = 2^W - 1 THEN 0 ELSE a + 1
<1> DEFINE M == 2^W
<1>1. M \in Nat /\ M >= 4
  BY PowerAssumption
<1>2. a \in Int /\ 0 <= a /\ a < M
  BY <1>1 DEF Batch
<1> HIDE DEF M
<1>3. (a + 1) % M = IF a = M - 1 THEN 0 ELSE a + 1
  <2>1. CASE a = M - 1
    <3>1. a + 1 = M
      BY <1>1, <2>1
    <3>2. M % M = 0
      BY <1>1
    <3> QED
      BY <2>1, <3>1, <3>2
  <2>2. CASE a # M - 1
    <3>1. a + 1 \in Int /\ 0 <= a + 1 /\ a + 1 < M
      BY <1>1, <1>2, <2>2
    <3> QED
      BY <1>1, <3>1
  <2> QED
    BY <2>1, <2>2
<1>4. 0 \in 0 .. (M - 1) /\ (a # M - 1 => a + 1 \in 0 .. (M - 1))
  BY <1>1, <1>2
<1> QED
  BY <1>3, <1>4 DEF Succ, Batch, M

(* 0 is a batch number.                                                    *)
LEMMA ZeroIsBatch == 0 \in Batch
  BY PowerAssumption DEF Batch

(* Four numbers in a row are different, also where they wrap.              *)
LEMMA SuccDistinct ==
  ASSUME NEW a \in Batch
  PROVE  /\ Succ(a) # a
         /\ Succ(Succ(a)) # a
         /\ Succ(Succ(Succ(a))) # a
<1>1. 2^W \in Nat /\ 2^W >= 4
  BY PowerAssumption
<1>2. Succ(a) \in Batch /\ Succ(a) = IF a = 2^W - 1 THEN 0 ELSE a + 1
  BY SuccValue
<1>3. /\ Succ(Succ(a)) \in Batch
      /\ Succ(Succ(a)) = IF Succ(a) = 2^W - 1 THEN 0 ELSE Succ(a) + 1
  BY SuccValue
<1>4. Succ(Succ(Succ(a))) = IF Succ(Succ(a)) = 2^W - 1 THEN 0 ELSE Succ(Succ(a)) + 1
  BY SuccValue
<1> QED
  BY <1>1, <1>2, <1>3, <1>4 DEF Batch

(* rcu_batch_before on the numbers it meets.                               *)
LEMMA BeforeValue ==
  ASSUME NEW a \in Batch
  PROVE  /\ ~rcu_batch_before(a, a)
         /\ rcu_batch_before(a, Succ(a))
         /\ rcu_batch_before(a, Succ(Succ(a)))
<1> DEFINE M == 2^W
           H == 2^(W - 1)
<1>1. M \in Nat /\ H \in Nat /\ H >= 2 /\ M = 2 * H
  BY PowerAssumption
<1>2. a \in 0 .. (M - 1)
  BY DEF Batch
<1>3. Succ(a) \in 0 .. (M - 1) /\ Succ(a) = IF a = M - 1 THEN 0 ELSE a + 1
  BY SuccValue DEF Batch
<1>4. Succ(Succ(a)) = IF Succ(a) = M - 1 THEN 0 ELSE Succ(a) + 1
  BY SuccValue
<1> HIDE DEF M, H
<1>7. (a - a) % M = 0
  BY <1>1, <1>2
<1>8. (a - Succ(a)) % M = M - 1
  BY <1>1, <1>2, <1>3
<1>9. (a - Succ(Succ(a))) % M = M - 2
  BY <1>1, <1>2, <1>3, <1>4
<1> QED
  BY <1>1, <1>7, <1>8, <1>9 DEF rcu_batch_before, M, H

-----------------------------------------------------------------------------
(* rcu_read_lock: only the reader's own flag changes.                      *)
LEMMA ReadLockStep ==
  ASSUME Inv, NEW p \in CPUs, rcu_read_lock(p)
  PROVE  Inv'
<1> USE DEF rcp, qs, lists, hp, rcu_read_lock
<1>0. /\ TypeOK /\ OfflineIsIdle /\ OneBatch /\ ReadersRead
      /\ NoticedLately /\ NumberedLately /\ ReadersHoldBatch /\ GracePeriodElapsed
  BY DEF Inv
<1>1. TypeOK'
  BY <1>0 DEF TypeOK
<1>2. OfflineIsIdle'
  BY <1>0 DEF OfflineIsIdle
<1>3. OneBatch'
  BY <1>0 DEF OneBatch
<1>4. ReadersRead'
  BY <1>0 DEF ReadersRead
<1>5. NoticedLately'
  BY <1>0 DEF NoticedLately
<1>6. NumberedLately'
  BY <1>0 DEF NumberedLately
<1>7. ReadersHoldBatch'
  BY <1>0 DEF ReadersHoldBatch
<1>8. GracePeriodElapsed'
  BY <1>0 DEF GracePeriodElapsed
<1> QED
  BY <1>1, <1>2, <1>3, <1>4, <1>5, <1>6, <1>7, <1>8 DEF Inv

(* rcu_read_unlock: the reader leaves the ghost sets.                      *)
LEMMA ReadUnlockStep ==
  ASSUME Inv, NEW p \in CPUs, rcu_read_unlock(p)
  PROVE  Inv'
<1> USE DEF rcp, qs, lists, hp, rcu_read_unlock
<1>0. /\ TypeOK /\ OfflineIsIdle /\ OneBatch /\ ReadersRead
      /\ NoticedLately /\ NumberedLately /\ ReadersHoldBatch /\ GracePeriodElapsed
  BY DEF Inv
<1>1. TypeOK'
  BY <1>0 DEF TypeOK
<1>2. OfflineIsIdle'
  BY <1>0 DEF OfflineIsIdle
<1>3. OneBatch'
  BY <1>0 DEF OneBatch
<1>4. ReadersRead'
  BY <1>0 DEF ReadersRead
<1>5. NoticedLately'
  BY <1>0 DEF NoticedLately
<1>6. NumberedLately'
  BY <1>0 DEF NumberedLately
<1>7. ReadersHoldBatch'
  BY <1>0 DEF TypeOK, ReadersHoldBatch
<1>8. GracePeriodElapsed'
  BY <1>0 DEF GracePeriodElapsed
<1> QED
  BY <1>1, <1>2, <1>3, <1>4, <1>5, <1>6, <1>7, <1>8 DEF Inv

(* call_rcu: the new callback is on no other list.                         *)
LEMMA CallRcuStep ==
  ASSUME Inv, NEW p \in CPUs, NEW c \in Callbacks, call_rcu(p, c)
  PROVE  Inv'
<1> USE DEF rcp, qs, lists, hp, call_rcu, Waiting, Held
<1>0. /\ TypeOK /\ OfflineIsIdle /\ OneBatch /\ ReadersRead
      /\ NoticedLately /\ NumberedLately /\ ReadersHoldBatch /\ GracePeriodElapsed
  BY DEF Inv
<1>1. TypeOK'
  BY <1>0 DEF TypeOK
<1>2. OfflineIsIdle'
  BY <1>0 DEF OfflineIsIdle
<1>3. OneBatch'
  BY <1>0 DEF OneBatch
<1>4. ReadersRead'
  BY <1>0 DEF ReadersRead
<1>5. NoticedLately'
  BY <1>0 DEF NoticedLately
<1>6. NumberedLately'
  BY <1>0 DEF NumberedLately
<1>7. ReadersHoldBatch'
  BY <1>0 DEF TypeOK, ReadersHoldBatch
<1>8. GracePeriodElapsed'
  BY <1>0 DEF GracePeriodElapsed
<1> QED
  BY <1>1, <1>2, <1>3, <1>4, <1>5, <1>6, <1>7, <1>8 DEF Inv

(* rcu_qsctr_inc: the CPU has no reader.                                   *)
LEMMA QsctrStep ==
  ASSUME Inv, NEW p \in CPUs, rcu_qsctr_inc(p)
  PROVE  Inv'
<1> USE DEF rcp, qs, lists, hp, rcu_qsctr_inc
<1>0. /\ TypeOK /\ OfflineIsIdle /\ OneBatch /\ ReadersRead
      /\ NoticedLately /\ NumberedLately /\ ReadersHoldBatch /\ GracePeriodElapsed
  BY DEF Inv
<1>1. TypeOK'
  BY <1>0 DEF TypeOK
<1>2. OfflineIsIdle'
  BY <1>0 DEF OfflineIsIdle
<1>3. OneBatch'
  BY <1>0 DEF OneBatch
<1>4. ReadersRead'
  BY <1>0 DEF ReadersRead
<1>5. NoticedLately'
  BY <1>0 DEF NoticedLately
<1>6. NumberedLately'
  BY <1>0 DEF NumberedLately
<1>7. ReadersHoldBatch'
  BY <1>0 DEF TypeOK, ReadersRead, ReadersHoldBatch
<1>8. GracePeriodElapsed'
  BY <1>0 DEF GracePeriodElapsed
<1> QED
  BY <1>1, <1>2, <1>3, <1>4, <1>5, <1>6, <1>7, <1>8 DEF Inv

(* The end of rcu_start_batch: the batch to come is now under way.         *)
LEMMA StartedStep ==
  ASSUME Inv, batch_started
  PROVE  Inv'
<1> USE DEF rcp, qs, lists, hp, batch_started
<1>0. /\ TypeOK /\ OfflineIsIdle /\ OneBatch /\ ReadersRead
      /\ NoticedLately /\ NumberedLately /\ ReadersHoldBatch /\ GracePeriodElapsed
  BY DEF Inv
<1>1. TypeOK'
  BY <1>0, SuccValue, RcuClassicAssumption DEF TypeOK, Hotplug
<1>2. OfflineIsIdle'
  BY <1>0 DEF OfflineIsIdle
<1>3. OneBatch'
  BY <1>0 DEF OneBatch
<1>4. ReadersRead'
  BY <1>0 DEF ReadersRead
<1>5. NoticedLately'
  BY <1>0 DEF OneBatch, NoticedLately
<1>6. NumberedLately'
  BY <1>0, BeforeValue DEF TypeOK, OneBatch, NoticedLately, NumberedLately
<1>7. ReadersHoldBatch'
  BY <1>0, BeforeValue
     DEF TypeOK, OneBatch, OfflineIsIdle, ReadersRead, NoticedLately,
         ReadersHoldBatch
<1>8. GracePeriodElapsed'
  BY <1>0 DEF GracePeriodElapsed
<1> QED
  BY <1>1, <1>2, <1>3, <1>4, <1>5, <1>6, <1>7, <1>8 DEF Inv

(* rcu_process_callbacks: curlist is done only if its batch is completed.  *)
LEMMA ProcessStep ==
  ASSUME Inv, NEW p \in CPUs, rcu_process_callbacks(p)
  PROVE  Inv'
<1> USE DEF rcp, qs, lists, hp, rcu_process_callbacks, Goto
<1>0. /\ TypeOK /\ OfflineIsIdle /\ OneBatch /\ ReadersRead
      /\ NoticedLately /\ NumberedLately /\ ReadersHoldBatch /\ GracePeriodElapsed
  BY DEF Inv
<1>1. TypeOK'
  <2>1. CASE curlist[p] # {} /\ ~rcu_batch_before(completed, batch[p])
    BY <1>0, ZeroIsBatch DEF TypeOK, Spcs
  <2>2. CASE ~(curlist[p] # {} /\ ~rcu_batch_before(completed, batch[p]))
    BY <1>0, <2>2 DEF TypeOK, Spcs
  <2> QED
    BY <2>1, <2>2
<1>2. OfflineIsIdle'
  BY <1>0 DEF TypeOK, OfflineIsIdle
<1>3. OneBatch'
  BY <1>0 DEF OneBatch
<1>4. ReadersRead'
  BY <1>0 DEF ReadersRead
<1>5. NoticedLately'
  BY <1>0 DEF NoticedLately
<1>6. NumberedLately'
  BY <1>0, BeforeValue DEF TypeOK, NumberedLately
<1>7. ReadersHoldBatch'
  BY <1>0 DEF TypeOK, ReadersHoldBatch
<1>8. GracePeriodElapsed'
  BY <1>0, BeforeValue
     DEF TypeOK, OneBatch, NumberedLately, ReadersHoldBatch, GracePeriodElapsed
<1> QED
  BY <1>1, <1>2, <1>3, <1>4, <1>5, <1>6, <1>7, <1>8 DEF Inv

(* nxtlist becomes curlist.                                                *)
LEMMA TakeStep ==
  ASSUME Inv, NEW p \in CPUs, take_nxtlist(p)
  PROVE  Inv'
<1> USE DEF rcp, qs, lists, hp, take_nxtlist, Goto
<1>0. /\ TypeOK /\ OfflineIsIdle /\ OneBatch /\ ReadersRead
      /\ NoticedLately /\ NumberedLately /\ ReadersHoldBatch /\ GracePeriodElapsed
  BY DEF Inv
<1>1. TypeOK'
  <2>1. CASE nxtlist[p] # {} /\ curlist[p] = {}
    BY <1>0 DEF TypeOK, Spcs
  <2>2. CASE ~(nxtlist[p] # {} /\ curlist[p] = {})
    BY <1>0 DEF TypeOK, Spcs
  <2> QED
    BY <2>1, <2>2
<1>2. OfflineIsIdle'
  BY <1>0 DEF TypeOK, OfflineIsIdle
<1>3. OneBatch'
  BY <1>0 DEF OneBatch
<1>4. ReadersRead'
  BY <1>0 DEF ReadersRead
<1>5. NoticedLately'
  BY <1>0 DEF NoticedLately
<1>6. NumberedLately'
  <2>1. CASE nxtlist[p] # {} /\ curlist[p] = {}
    BY <1>0 DEF TypeOK, NumberedLately
  <2>2. CASE ~(nxtlist[p] # {} /\ curlist[p] = {})
    BY <1>0 DEF TypeOK, NumberedLately
  <2> QED
    BY <2>1, <2>2
<1>7. ReadersHoldBatch'
  <2>1. CASE nxtlist[p] # {} /\ curlist[p] = {}
    BY <1>0 DEF TypeOK, ReadersHoldBatch
  <2>2. CASE ~(nxtlist[p] # {} /\ curlist[p] = {})
    BY <1>0 DEF TypeOK, ReadersHoldBatch
  <2> QED
    BY <2>1, <2>2
<1>8. GracePeriodElapsed'
  BY <1>0 DEF GracePeriodElapsed
<1> QED
  BY <1>1, <1>2, <1>3, <1>4, <1>5, <1>6, <1>7, <1>8 DEF Inv

(* The number is that of the next batch.                                   *)
LEMMA NumberStep ==
  ASSUME Inv, NEW p \in CPUs, number_batch(p)
  PROVE  Inv'
<1> USE DEF rcp, qs, lists, hp, number_batch, Goto
<1>0. /\ TypeOK /\ OfflineIsIdle /\ OneBatch /\ ReadersRead
      /\ NoticedLately /\ NumberedLately /\ ReadersHoldBatch /\ GracePeriodElapsed
  BY DEF Inv
<1>1. TypeOK'
  BY <1>0, SuccValue DEF TypeOK, Spcs
<1>2. OfflineIsIdle'
  BY <1>0 DEF OfflineIsIdle
<1>3. OneBatch'
  BY <1>0 DEF OneBatch
<1>4. ReadersRead'
  BY <1>0 DEF ReadersRead
<1>5. NoticedLately'
  BY <1>0 DEF NoticedLately
<1>6. NumberedLately'
  BY <1>0 DEF TypeOK, NumberedLately
<1>7. ReadersHoldBatch'
  BY <1>0, BeforeValue DEF TypeOK, OneBatch, ReadersHoldBatch
<1>8. GracePeriodElapsed'
  BY <1>0 DEF GracePeriodElapsed
<1> QED
  BY <1>1, <1>2, <1>3, <1>4, <1>5, <1>6, <1>7, <1>8 DEF Inv

(* A batch that is pending need not be asked for.                          *)
LEMMA LookStep ==
  ASSUME Inv, NEW p \in CPUs, look_next_pending(p)
  PROVE  Inv'
<1> USE DEF rcp, qs, lists, hp, look_next_pending, Goto
<1>0. /\ TypeOK /\ OfflineIsIdle /\ OneBatch /\ ReadersRead
      /\ NoticedLately /\ NumberedLately /\ ReadersHoldBatch /\ GracePeriodElapsed
  BY DEF Inv
<1>1. TypeOK'
  BY <1>0 DEF TypeOK, Spcs
<1>2. OfflineIsIdle'
  BY <1>0 DEF OfflineIsIdle
<1>3. OneBatch'
  BY <1>0 DEF OneBatch
<1>4. ReadersRead'
  BY <1>0 DEF ReadersRead
<1>5. NoticedLately'
  BY <1>0 DEF NoticedLately
<1>6. NumberedLately'
  BY <1>0 DEF NumberedLately
<1>7. ReadersHoldBatch'
  BY <1>0 DEF ReadersHoldBatch
<1>8. GracePeriodElapsed'
  BY <1>0 DEF GracePeriodElapsed
<1> QED
  BY <1>1, <1>2, <1>3, <1>4, <1>5, <1>6, <1>7, <1>8 DEF Inv

(* Asking for a batch.                                                     *)
LEMMA SetPendingStep ==
  ASSUME Inv, NEW p \in CPUs, set_next_pending(p)
  PROVE  Inv'
<1> USE DEF rcp, qs, lists, hp, set_next_pending, rcu_start_batch, Goto
<1>0. /\ TypeOK /\ OfflineIsIdle /\ OneBatch /\ ReadersRead
      /\ NoticedLately /\ NumberedLately /\ ReadersHoldBatch /\ GracePeriodElapsed
  BY DEF Inv
<1>1. TypeOK'
  <2>1. lock' \in 0 .. Hotplug /\ next_pending' \in BOOLEAN
    BY CpuNumbers
  <2>2. spc' \in [CPUs -> Spcs]
    BY <1>0 DEF TypeOK, Spcs
  <2> QED
    BY <1>0, <2>1, <2>2 DEF TypeOK
<1>2. OfflineIsIdle'
  BY <1>0 DEF OfflineIsIdle
<1>3. OneBatch'
  BY <1>0 DEF OneBatch
<1>4. ReadersRead'
  BY <1>0 DEF ReadersRead
<1>5. NoticedLately'
  BY <1>0 DEF NoticedLately
<1>6. NumberedLately'
  <2>1. lock' # 0 \/ next_pending'
    BY CpuNumbers
  <2> QED
    BY <1>0, <2>1 DEF NumberedLately
<1>7. ReadersHoldBatch'
  BY <1>0 DEF ReadersHoldBatch
<1>8. GracePeriodElapsed'
  BY <1>0 DEF GracePeriodElapsed
<1> QED
  BY <1>1, <1>2, <1>3, <1>4, <1>5, <1>6, <1>7, <1>8 DEF Inv

(* rcu_check_quiescent_state.                                              *)
LEMMA CheckStep ==
  ASSUME Inv, NEW p \in CPUs, rcu_check_quiescent_state(p)
  PROVE  Inv'
<1> USE DEF rcp, qs, lists, hp, rcu_check_quiescent_state, Goto
<1>0. /\ TypeOK /\ OfflineIsIdle /\ OneBatch /\ ReadersRead
      /\ NoticedLately /\ NumberedLately /\ ReadersHoldBatch /\ GracePeriodElapsed
  BY DEF Inv
<1>1. TypeOK'
  <2>2. passed_quiesc' \in [CPUs -> BOOLEAN]
    BY <1>0 DEF TypeOK
  <2>3. qs_pending' \in [CPUs -> BOOLEAN]
    BY <1>0 DEF TypeOK
  <2>4. spc' \in [CPUs -> Spcs]
    BY <1>0 DEF TypeOK, Spcs
  <2> QED
    BY <1>0, <2>2, <2>3, <2>4 DEF TypeOK
<1>2. OfflineIsIdle'
  BY <1>0 DEF TypeOK, OfflineIsIdle
<1>3. OneBatch'
  BY <1>0 DEF OneBatch
<1>4. ReadersRead'
  BY <1>0 DEF ReadersRead
<1>5. NoticedLately'
  BY <1>0 DEF TypeOK, NoticedLately
<1>6. NumberedLately'
  BY <1>0 DEF TypeOK, OfflineIsIdle, NoticedLately, NumberedLately
<1>7. ReadersHoldBatch'
  <2>1. CASE quiescbatch[p] # cur
    BY <1>0 DEF TypeOK, ReadersHoldBatch
  <2>2. CASE quiescbatch[p] = cur
    BY <1>0 DEF TypeOK, ReadersHoldBatch
  <2> QED
    BY <2>1, <2>2
<1>8. GracePeriodElapsed'
  BY <1>0 DEF GracePeriodElapsed
<1> QED
  BY <1>1, <1>2, <1>3, <1>4, <1>5, <1>6, <1>7, <1>8 DEF Inv

(* A CPU reports.                                                          *)
LEMMA ReportStep ==
  ASSUME Inv, NEW p \in CPUs, report_quiet(p)
  PROVE  Inv'
<1> USE DEF rcp, qs, lists, hp, report_quiet, cpu_quiet, rcu_start_batch, Goto
<1>0. /\ TypeOK /\ OfflineIsIdle /\ OneBatch /\ ReadersRead
      /\ NoticedLately /\ NumberedLately /\ ReadersHoldBatch /\ GracePeriodElapsed
  BY DEF Inv
<1>1. TypeOK'
  <2>1. /\ completed' \in Batch /\ next_pending' \in BOOLEAN
        /\ cpumask' \subseteq CPUs /\ lock' \in 0 .. Hotplug /\ cur' = cur
    BY <1>0, CpuNumbers DEF TypeOK
  <2>2. spc' \in [CPUs -> Spcs]
    BY <1>0 DEF TypeOK, Spcs
  <2> QED
    BY <1>0, <2>1, <2>2 DEF TypeOK
<1>2. OfflineIsIdle'
  BY <1>0 DEF OfflineIsIdle
<1>3. OneBatch'
  BY <1>0 DEF OneBatch
<1>4. ReadersRead'
  BY <1>0 DEF ReadersRead
<1>5. NoticedLately'
  BY <1>0 DEF NoticedLately
<1>6. NumberedLately'
  <2>2. CASE quiescbatch[p] = cur /\ cpumask \ {p} = {}
    <3>1. completed' = cur /\ cur' = cur
      BY <2>2
    <3>2. next_pending => lock' # 0
      BY <2>2, CpuNumbers
    <3> QED
      BY <1>0, <3>2 DEF NumberedLately
  <2>3. CASE quiescbatch[p] = cur /\ cpumask \ {p} # {}
    <3>1. UNCHANGED <<cur, completed, next_pending, lock>> /\ cpumask' = cpumask \ {p}
      BY <2>3
    <3> QED
      BY <1>0, <3>1 DEF NumberedLately
  <2>4. CASE quiescbatch[p] # cur
    BY <1>0, <2>4 DEF NumberedLately
  <2> QED
    BY <2>2, <2>3, <2>4
<1>7. ReadersHoldBatch'
  BY <1>0 DEF ReadersHoldBatch
<1>8. GracePeriodElapsed'
  BY <1>0 DEF GracePeriodElapsed
<1> QED
  BY <1>1, <1>2, <1>3, <1>4, <1>5, <1>6, <1>7, <1>8 DEF Inv

(* rcu_do_batch.                                                           *)
LEMMA InvokeStep ==
  ASSUME Inv, NEW p \in CPUs, rcu_do_batch(p)
  PROVE  Inv'
<1> USE DEF rcp, qs, lists, hp, rcu_do_batch, Goto
<1>0. /\ TypeOK /\ OfflineIsIdle /\ OneBatch /\ ReadersRead
      /\ NoticedLately /\ NumberedLately /\ ReadersHoldBatch /\ GracePeriodElapsed
  BY DEF Inv
<1>1. TypeOK'
  BY <1>0 DEF TypeOK, Spcs
<1>2. OfflineIsIdle'
  BY <1>0 DEF TypeOK, OfflineIsIdle
<1>3. OneBatch'
  BY <1>0 DEF OneBatch
<1>4. ReadersRead'
  BY <1>0 DEF ReadersRead
<1>5. NoticedLately'
  BY <1>0 DEF NoticedLately
<1>6. NumberedLately'
  BY <1>0, SuccDistinct DEF TypeOK, OfflineIsIdle, NumberedLately
<1>7. ReadersHoldBatch'
  BY <1>0 DEF TypeOK, OneBatch, OfflineIsIdle, NoticedLately, ReadersHoldBatch
<1>8. GracePeriodElapsed'
  BY <1>0 DEF TypeOK, GracePeriodElapsed
<1> QED
  BY <1>1, <1>2, <1>3, <1>4, <1>5, <1>6, <1>7, <1>8 DEF Inv

(* A CPU leaves the map.                                                   *)
LEMMA DiesStep ==
  ASSUME Inv, NEW p \in CPUs, cpu_dies(p)
  PROVE  Inv'
<1> USE DEF rcp, qs, lists, hp, cpu_dies
<1>0. /\ TypeOK /\ OfflineIsIdle /\ OneBatch /\ ReadersRead
      /\ NoticedLately /\ NumberedLately /\ ReadersHoldBatch /\ GracePeriodElapsed
  BY DEF Inv
<1>1. TypeOK'
  BY <1>0 DEF TypeOK, CPUs
<1>2. OfflineIsIdle'
  BY <1>0 DEF OfflineIsIdle, CPUs
<1>3. OneBatch'
  BY <1>0 DEF OneBatch
<1>4. ReadersRead'
  BY <1>0 DEF ReadersRead
<1>5. NoticedLately'
  BY <1>0 DEF NoticedLately
<1>6. NumberedLately'
  BY <1>0 DEF NumberedLately
<1>7. ReadersHoldBatch'
  BY <1>0 DEF ReadersHoldBatch
<1>8. GracePeriodElapsed'
  BY <1>0 DEF GracePeriodElapsed
<1> QED
  BY <1>1, <1>2, <1>3, <1>4, <1>5, <1>6, <1>7, <1>8 DEF Inv

(* Reporting for the dead CPU.                                             *)
LEMMA OfflineQuietStep ==
  ASSUME Inv, rcu_offline_quiet
  PROVE  Inv'
<1> USE DEF rcp, qs, lists, hp, rcu_offline_quiet, cpu_quiet, rcu_start_batch
<1>0. /\ TypeOK /\ OfflineIsIdle /\ OneBatch /\ ReadersRead
      /\ NoticedLately /\ NumberedLately /\ ReadersHoldBatch /\ GracePeriodElapsed
  BY DEF Inv
<1>1. TypeOK'
  <2>1. /\ completed' \in Batch /\ next_pending' \in BOOLEAN
        /\ cpumask' \subseteq CPUs /\ lock' \in 0 .. Hotplug /\ cur' = cur
    BY <1>0, CpuNumbers DEF TypeOK
  <2> QED
    BY <1>0, <2>1 DEF TypeOK
<1>2. OfflineIsIdle'
  BY <1>0 DEF OfflineIsIdle
<1>3. OneBatch'
  BY <1>0 DEF OneBatch
<1>4. ReadersRead'
  BY <1>0 DEF ReadersRead
<1>5. NoticedLately'
  BY <1>0 DEF OfflineIsIdle, NoticedLately
<1>6. NumberedLately'
  <2>1. CASE offline_must_flush /\ cpumask \ {dead} = {}
    <3>1. completed' = cur /\ cur' = cur /\ cur # completed
      BY <2>1 DEF offline_must_flush
    <3>2. next_pending => lock' # 0
      BY <3>1, CpuNumbers
    <3>3. \A p \in online : p \notin cpumask
      BY <1>0, <2>1 DEF OfflineIsIdle
    <3> QED
      BY <1>0, <3>2, <3>3 DEF NumberedLately
  <2>2. CASE ~(offline_must_flush /\ cpumask \ {dead} = {})
    <3>1. /\ UNCHANGED <<cur, completed, next_pending, lock>>
          /\ \A p \in online : p \in cpumask' <=> p \in cpumask
      BY <1>0, <2>2 DEF OfflineIsIdle
    <3> QED
      BY <1>0, <3>1 DEF NumberedLately
  <2> QED
    BY <2>1, <2>2
<1>7. ReadersHoldBatch'
  BY <1>0 DEF TypeOK, OfflineIsIdle, ReadersRead, ReadersHoldBatch
<1>8. GracePeriodElapsed'
  BY <1>0 DEF GracePeriodElapsed
<1> QED
  BY <1>1, <1>2, <1>3, <1>4, <1>5, <1>6, <1>7, <1>8 DEF Inv

(* Moving the lists of the dead CPU.                                       *)
LEMMA OfflineMoveStep ==
  ASSUME Inv, NEW p \in CPUs, rcu_offline_move(p)
  PROVE  Inv'
<1> USE DEF rcp, qs, lists, hp, rcu_offline_move, Held
<1>0. /\ TypeOK /\ OfflineIsIdle /\ OneBatch /\ ReadersRead
      /\ NoticedLately /\ NumberedLately /\ ReadersHoldBatch /\ GracePeriodElapsed
  BY DEF Inv
<1>1. TypeOK'
  <2>1. dead \in CPUs
    BY <1>0 DEF TypeOK, CPUs
  <2>2. /\ nxtlist' \in [CPUs -> SUBSET Callbacks]
        /\ curlist' \in [CPUs -> SUBSET Callbacks]
        /\ donelist' \in [CPUs -> SUBSET Callbacks]
    BY <1>0, <2>1 DEF TypeOK
  <2>3. /\ quiescbatch' \in [CPUs -> Batch]
        /\ batch' \in [CPUs -> Batch]
    BY <1>0, ZeroIsBatch DEF TypeOK
  <2>5. dead' \in 0 .. NCPU
    BY RcuClassicAssumption
  <2> QED
    BY <1>0, <2>2, <2>3, <2>5 DEF TypeOK
<1>2. OfflineIsIdle'
  BY <1>0 DEF TypeOK, OfflineIsIdle, CPUs
<1>3. OneBatch'
  BY <1>0 DEF OneBatch
<1>4. ReadersRead'
  BY <1>0 DEF ReadersRead
<1>5. NoticedLately'
  BY <1>0 DEF OfflineIsIdle, NoticedLately
<1>6. NumberedLately'
  BY <1>0 DEF OfflineIsIdle, NumberedLately
<1>7. ReadersHoldBatch'
  BY <1>0 DEF TypeOK, OfflineIsIdle, ReadersHoldBatch
<1>8. GracePeriodElapsed'
  BY <1>0 DEF GracePeriodElapsed
<1> QED
  BY <1>1, <1>2, <1>3, <1>4, <1>5, <1>6, <1>7, <1>8 DEF Inv

(* A CPU comes up.                                                         *)
LEMMA OnlineStep ==
  ASSUME Inv, NEW p \in CPUs, rcu_online_cpu(p)
  PROVE  Inv'
<1> USE DEF rcp, qs, lists, hp, rcu_online_cpu
<1>0. /\ TypeOK /\ OfflineIsIdle /\ OneBatch /\ ReadersRead
      /\ NoticedLately /\ NumberedLately /\ ReadersHoldBatch /\ GracePeriodElapsed
  BY DEF Inv
<1>1. TypeOK'
  BY <1>0 DEF TypeOK
<1>2. OfflineIsIdle'
  BY <1>0 DEF OfflineIsIdle, CPUs
<1>3. OneBatch'
  BY <1>0 DEF OneBatch
<1>4. ReadersRead'
  BY <1>0 DEF ReadersRead
<1>5. NoticedLately'
  BY <1>0 DEF TypeOK, OneBatch, NoticedLately
<1>6. NumberedLately'
  <2>1. curlist[p] = {}
    BY <1>0, CpuNumbers DEF OfflineIsIdle
  <2> QED
    BY <1>0, <2>1 DEF NumberedLately
<1>7. ReadersHoldBatch'
  <2>1. curlist[p] = {} /\ ~reading[p]
    BY <1>0, CpuNumbers DEF OfflineIsIdle
  <2> QED
    BY <1>0, <2>1 DEF ReadersHoldBatch
<1>8. GracePeriodElapsed'
  BY <1>0 DEF GracePeriodElapsed
<1> QED
  BY <1>1, <1>2, <1>3, <1>4, <1>5, <1>6, <1>7, <1>8 DEF Inv

-----------------------------------------------------------------------------
(* The boot state: nobody reads and no batch is under way.                 *)
LEMMA InvInit == Init => Inv
<1> SUFFICES ASSUME Init PROVE Inv
  OBVIOUS
<1>1. TypeOK
  <2>1. /\ lock \in 0 .. Hotplug /\ dead \in 0 .. NCPU /\ batch \in [CPUs -> Batch]
        /\ completed \in Batch /\ quiescbatch \in [CPUs -> Batch]
    BY ZeroIsBatch, CpuNumbers, RcuClassicAssumption DEF Init
  <2>2. /\ passed_quiesc \in [CPUs -> BOOLEAN] /\ qs_pending \in [CPUs -> BOOLEAN]
        /\ reading \in [CPUs -> BOOLEAN] /\ spc \in [CPUs -> Spcs]
    BY DEF Init, Spcs
  <2> QED
    BY <2>1, <2>2 DEF Init, TypeOK
<1>2. OfflineIsIdle /\ OneBatch /\ ReadersRead /\ NoticedLately
  BY CpuNumbers DEF Init, OfflineIsIdle, OneBatch, ReadersRead, NoticedLately
<1>3. NumberedLately /\ ReadersHoldBatch /\ GracePeriodElapsed
  BY DEF Init, NumberedLately, ReadersHoldBatch, GracePeriodElapsed
<1> QED
  BY <1>1, <1>2, <1>3 DEF Inv

(* Every step keeps the invariant: one lemma per action above.             *)
LEMMA InvNext == Inv /\ [Next]_vars => Inv'
<1> SUFFICES ASSUME Inv, [Next]_vars PROVE Inv'
  OBVIOUS
<1>1. ASSUME NEW p \in CPUs, rcu_read_lock(p) \/ rcu_read_unlock(p) \/ rcu_qsctr_inc(p)
      PROVE  Inv'
  BY <1>1, ReadLockStep, ReadUnlockStep, QsctrStep
<1>2. ASSUME NEW p \in CPUs, NEW c \in Callbacks, call_rcu(p, c)
      PROVE  Inv'
  BY <1>2, CallRcuStep
<1>3. ASSUME NEW p \in CPUs, Softirq(p)
      PROVE  Inv'
  BY <1>3, ProcessStep, TakeStep, NumberStep, LookStep, SetPendingStep,
     CheckStep, ReportStep, InvokeStep
     DEF Softirq
<1>4. ASSUME NEW p \in CPUs, cpu_dies(p) \/ rcu_online_cpu(p)
      PROVE  Inv'
  BY <1>4, DiesStep, OnlineStep
<1>5. CASE batch_started
  BY <1>5, StartedStep
<1>6. CASE CpuDown
  BY <1>6, OfflineQuietStep, OfflineMoveStep DEF CpuDown
<1>7. CASE UNCHANGED vars
  BY <1>7
     DEF vars, rcp, qs, lists, hp, Inv, TypeOK, OfflineIsIdle, OneBatch,
         ReadersRead, NoticedLately, NumberedLately, ReadersHoldBatch,
         GracePeriodElapsed
<1> QED
  BY <1>1, <1>2, <1>3, <1>4, <1>5, <1>6, <1>7 DEF Next

(* So it holds in every state.                                             *)
LEMMA InvHolds == Spec => []Inv
  BY InvInit, InvNext, PTL DEF Spec

(* Every variable of kernel/rcuclassic.c keeps its type; batch numbers     *)
(* stay words of W bits.                                                   *)
THEOREM RcuTypeOK == Spec => []TypeOK
<1>1. Inv => TypeOK
  BY DEF Inv
<1> QED
  BY <1>1, InvHolds, PTL

(* A callback gets to donelist only when every reader that was running at  *)
(* its call_rcu has left, for any number of CPUs, with CPUs going down and *)
(* coming up, and with batch numbers that wrap after four batches or more. *)
THEOREM RcuGracePeriod == Spec => []GracePeriodElapsed
<1>1. Inv => GracePeriodElapsed
  BY DEF Inv
<1> QED
  BY <1>1, InvHolds, PTL

(* A numbered callback always has a batch that is over, under way or asked *)
(* for, although rcu_process_callbacks reads cur and next_pending without  *)
(* the lock.                                                               *)
THEOREM RcuBatchWillRun == Spec => []BatchWillRun
<1>1. Inv => BatchWillRun
  BY BeforeValue DEF Inv, TypeOK, NumberedLately, BatchWillRun
<1> QED
  BY <1>1, InvHolds, PTL

=============================================================================
