------------------------------- MODULE Journal -------------------------------
(***************************************************************************)
(* fs/jbd: the journal of a file system in ordered mode, with crashes.     *)
(*                                                                         *)
(* The disk is the journal superblock, the ring of log blocks and the home *)
(* location of each block of the file system.  What is in a block is       *)
(* abstracted to its use and the transaction that gave it its contents:    *)
(* <<"meta", t>> or <<"data", t>>.  A log block that holds a block image   *)
(* never looks like a header (journal_write_metadata_buffer escapes it).   *)
(* A write that has been waited for is on the disk.                        *)
(*                                                                         *)
(* At most one transaction is running and one committing.  A handle does   *)
(* one thing to one block, and a commit waits for open handles.  Steps are *)
(* as long as jbd_lock_bh_state, j_list_lock or j_state_lock is held;      *)
(* the buffer lock, which writes home take, is held from "writing" on.     *)
(* The file system is ext3: it frees metadata with journal_revoke and does *)
(* not allocate a block again before it is free in the committed bitmap.   *)
(***************************************************************************)
EXTENDS Integers, SequencesExt, FiniteSetsExt

CONSTANTS Blocks,
          Allocated,   \* the blocks in use at first
          L,           \* log blocks are 1..L
          Starts,      \* where the log may start
          MaxTid,      \* bound on transaction numbers
          MaxBuffers,  \* j_max_transaction_buffers
          Reserved,    \* blocks __log_space_left keeps back for control blocks
          Windows      \* the windows that are open

(* Five places where the code lets others in, each with what comes in.     *)
(* The code has all five windows; any one of them breaks recovery.         *)
AllWindows ==
  { "forget",      \* a block is freed by the transaction that modified it while
                   \* the one before is committing it
    "tail",        \* a handle starts between the move of the log's tail and the
                   \* write of the superblock
    "checkpoint",  \* write access to a buffer that __process_buffer has queued
                   \* and __flush_batch has yet to submit
    "writeback",   \* a write home starts after do_get_write_access has unlocked
                   \* the buffer and before it has cleared the dirty bit
    "shadow" }     \* write access to a buffer whose page has been chosen for the
                   \* log and that is yet to be filed as BJ_Shadow

ASSUME JournalAssumption ==
  /\ IsFiniteSet(Blocks) /\ Allocated \subseteq Blocks
  /\ L \in Nat \ {0} /\ Starts \subseteq 1..L
  /\ MaxTid \in Nat /\ MaxBuffers \in Nat /\ Reserved \in Nat
  /\ Windows \subseteq AllWindows

VARIABLES
  sb, log, home,   \* the disk: superblock (s_start, s_sequence), log, file system
  mode,            \* "up", "down" after a crash, "recovered" before journal_reset
  head, tail, free, tail_sequence, transaction_sequence, flushed, \* journal_t
  sb_pending,      \* cleanup_journal_tail has yet to write the superblock
  running, committing, \* tids, 0 if there is none
  handles,         \* open handles that have yet to do something
  phase,           \* of journal_commit_transaction
  log_start,       \* t_log_start of each transaction
  revoke, committing_revoke, \* the two revoke tables
  data, committing_data,     \* t_sync_datalist of the two transactions
  wbuf,            \* metadata buffers chosen for the log, in order
  io,              \* writes to the log in flight
  bh,              \* the buffer of each block, with its journal_head
  now, com, done,  \* what the file system says is in each block: as of the running
                   \* transaction, the committing one, the last one committed
  committed_data   \* blocks in use in the bitmap's b_committed_data

disk  == <<sb, log, home>>
space == <<head, tail, free, tail_sequence, flushed, sb_pending>>
trans == <<running, committing, handles, phase, log_start, transaction_sequence>>
lists == <<revoke, committing_revoke, data, committing_data, wbuf>>
views == <<now, com, done, committed_data>>
vars  == <<disk, mode, space, trans, lists, io, bh, views>>

Free == <<"free", 0>>
Use(v) == v[1]
InUse(view) == {b \in Blocks : view[b] # Free}

(* handle: how far a handle has got, "entry" from unlock_buffer until      *)
(* jbd_unlock_bh_state in do_get_write_access, "granted" from there on.    *)
(* cpio: on the checkpoint io list.  writing: a write home is in flight.   *)
NoBuffer == [val |-> Free, dirty |-> FALSE, jbddirty |-> FALSE, writing |-> FALSE,
             handle |-> "none", trans |-> 0, next |-> 0, modified |-> FALSE,
             jlist |-> "None", frozen |-> Free,
             cp |-> 0, cpio |-> FALSE, jwrite |-> FALSE]

\* defect: the block after the last is used
Wrap_late(s) == ((s - 1) % (L + 1)) + 1

Wrap(s) == ((s - 1) % L) + 1

(* A file system in use, after journal_flush.                              *)
Init ==
  /\ sb = [start |-> 0, seq |-> 1]
  /\ log = [s \in 1..L |-> [k |-> "zero"]]
  /\ home = [b \in Blocks |-> IF b \in Allocated THEN <<"meta", 0>> ELSE Free]
  /\ mode = "up"
  /\ head \in Starts /\ tail = head /\ free = L
  /\ tail_sequence = 1 /\ transaction_sequence = 1
  /\ flushed = TRUE /\ sb_pending = FALSE
  /\ running = 0 /\ committing = 0 /\ handles = 0 /\ phase = "none"
  /\ log_start = [t \in 1..MaxTid |-> 0]
  /\ revoke = {} /\ committing_revoke = {}
  /\ data = {} /\ committing_data = {}
  /\ wbuf = <<>> /\ io = {}
  /\ bh = [b \in Blocks |-> [NoBuffer EXCEPT !.val = home[b]]]
  /\ now = home /\ com = home /\ done = home
  /\ committed_data = InUse(home)

-----------------------------------------------------------------------------
(* Handles.                                                                *)

(* The transaction a handle joins.                                         *)
Tid == IF running = 0 THEN transaction_sequence ELSE running

(* t_buffers of transaction t, without what is on its way to the log       *)
t_buffers(t) == {b \in Blocks : /\ bh[b].trans = t /\ bh[b].jlist = "Metadata"
                                /\ \A i \in 1..Len(wbuf) : wbuf[i].of # b}

(* t_outstanding_credits: the buffers still to be written to the log, and  *)
(* one credit for each handle that has not made use of it.                 *)
credits(t) ==
  LET modified_next == {b \in Blocks : bh[b].next = t /\ bh[b].modified}
      in_use == {b \in Blocks : bh[b].handle # "none"}
  IN  Cardinality(t_buffers(t) \cup modified_next)
      + IF t = Tid THEN handles + Cardinality(in_use) ELSE 0

log_space_left == free - Reserved

jbd_space_needed == MaxBuffers + IF committing = 0 THEN 0 ELSE credits(committing)

(* start_this_handle, and get_transaction.  Credits are for the blocks of  *)
(* the model, not for the bitmaps and inodes that change with them.        *)
start_this_handle ==
  /\ mode = "up"
  /\ sb_pending => "tail" \in Windows
  /\ Tid <= MaxTid
  /\ credits(Tid) + 1 <= MaxBuffers
  /\ log_space_left >= jbd_space_needed
  /\ running' = Tid
  /\ transaction_sequence' = IF running = 0 THEN transaction_sequence + 1
                                            ELSE transaction_sequence
  /\ handles' = handles + 1
  /\ UNCHANGED <<disk, mode, space, committing, phase, log_start, lists, io, bh, views>>

(* journal_stop of a handle that has done nothing                          *)
journal_stop ==
  /\ mode = "up" /\ handles > 0
  /\ handles' = handles - 1
  /\ UNCHANGED <<disk, mode, space, running, committing, phase, log_start,
                 transaction_sequence, lists, io, bh, views>>

(* An open handle turns to block b.  The file system does not let two      *)
(* handles at a block.                                                     *)
handle_for(b) ==
  /\ mode = "up" /\ handles > 0
  /\ bh[b].handle = "none"
  /\ handles' = handles - 1
  /\ UNCHANGED <<disk, mode, space, running, committing, phase, log_start,
                 transaction_sequence, committing_revoke, committing_data, wbuf, io, com,
                 done>>

test_allocatable(b) == now[b] = Free /\ b \notin committed_data

(* do_get_write_access waits for a write home under way, and for a buffer  *)
(* on its way to the log, if it has not been copied.                       *)
write_access_ok(x) ==
  /\ ~x.writing
  /\ ~(x.trans = committing /\ x.jlist = "Shadow" /\ x.frozen = Free)

(* journal_write_metadata_buffer has chosen the buffer's own page and not  *)
(* filed the buffer.                                                       *)
page_chosen(b) == bh[b].jlist = "Metadata" /\ [of |-> b, own |-> TRUE] \in Range(wbuf)

\* defect, the window as in the code: nothing keeps a handle off the page
kept_off_log_page_not(b) == TRUE

(* The windows "shadow" and "checkpoint": what could keep a handle off.    *)
kept_off_log_page(b) == page_chosen(b) => "shadow" \in Windows

\* defect, the window as in the code: nothing keeps a handle off the buffer
kept_off_queued_not(x) == TRUE

kept_off_queued(x) == x.jwrite /\ x.dirty => "checkpoint" \in Windows

(* do_get_write_access until unlock_buffer: it leaves a dirty buffer that  *)
(* is in no transaction as it is.                                          *)
lock_for_write_access(b) ==
  /\ handle_for(b)
  /\ Use(now[b]) = "meta"
  /\ write_access_ok(bh[b])
  /\ kept_off_log_page(b) /\ kept_off_queued(bh[b])
  /\ bh' = [bh EXCEPT ![b].handle = "entry"]
  /\ UNCHANGED <<revoke, data, now, committed_data>>

(* Is the old image still to be written?                                   *)
copy_out(x) == x.jlist # "Forget" /\ x.frozen = Free

\* defect: the buffer stays on the page's list of dirty buffers
still_dirty_as_before(x) == x.dirty

(* __journal_file_buffer moves the dirty bit to jbddirty, which writeback  *)
(* does not look at.                                                       *)
still_dirty(x) == FALSE

(* The buffer with write access granted to transaction t.                  *)
granted(x, t) ==
  LET y == [x EXCEPT !.handle = "granted"]
  IN  CASE t \in {x.trans, x.next} -> y
        [] x.trans = 0 -> [y EXCEPT !.trans = t, !.jlist = "Reserved", !.modified = FALSE,
                                    !.jbddirty = x.dirty, !.dirty = still_dirty(x)]
        [] OTHER -> [y EXCEPT !.next = t, !.modified = FALSE,
                              !.frozen = IF copy_out(x) THEN x.val ELSE @]

(* The rest of do_get_write_access, with journal_cancel_revoke             *)
do_get_write_access(b) ==
  /\ mode = "up" /\ bh[b].handle = "entry"
  /\ bh' = [bh EXCEPT ![b] = granted(@, running)]
  /\ revoke' = revoke \ {b}
  /\ UNCHANGED <<disk, mode, space, trans, committing_revoke, data, committing_data, wbuf,
                 io, views>>

(* For a new block, whose buffer the caller has locked                     *)
journal_get_create_access(b) ==
  /\ handle_for(b)
  /\ test_allocatable(b)
  /\ ~bh[b].writing
  /\ bh' = [bh EXCEPT ![b] = granted(@, running)]
  /\ revoke' = revoke \ {b}
  /\ UNCHANGED <<data, now, committed_data>>

(* The caller's change to the buffer and journal_dirty_metadata, by the    *)
(* running transaction t.                                                  *)
modified(x, t) ==
  [x EXCEPT !.val = <<"meta", t>>, !.jbddirty = TRUE, !.modified = TRUE,
            !.handle = "none", !.jlist = IF x.trans = t THEN "Metadata" ELSE @]

journal_dirty_metadata(b) ==
  /\ mode = "up" /\ bh[b].handle = "granted"
  /\ bh' = [bh EXCEPT ![b] = modified(@, running)]
  /\ now' = [now EXCEPT ![b] = <<"meta", running>>]
  /\ UNCHANGED <<disk, mode, space, trans, lists, io, com, done, committed_data>>

(* The caller has no use for its write access.                             *)
journal_release_buffer(b) ==
  /\ mode = "up" /\ bh[b].handle = "granted" /\ Use(now[b]) = "meta"
  /\ bh' = [bh EXCEPT ![b].handle = "none"]
  /\ UNCHANGED <<disk, mode, space, trans, lists, io, views>>

(* journal_forget by the running transaction t.                            *)
journal_forget(x, t) ==
  LET y == [x EXCEPT !.modified = FALSE]
  IN  CASE x.trans = t /\ x.cp # 0 -> [y EXCEPT !.dirty = FALSE, !.jbddirty = FALSE,
                                                !.jlist = "Forget"]
        [] x.trans = t /\ x.cp = 0 -> [y EXCEPT !.dirty = FALSE, !.jbddirty = FALSE,
                                                !.trans = 0, !.jlist = "None"]
        [] x.trans # t -> [y EXCEPT !.next = 0]

(* ext3_free_blocks, the bitmap's part                                     *)
ext3_free_blocks(b) ==
  /\ now' = [now EXCEPT ![b] = Free]
  /\ committed_data' = committed_data \cup {b}

\* defect, the window as in the code: any buffer is forgotten
may_forget_any(x) == TRUE

(* The window "forget"                                                     *)
may_forget(x) == x.next = running /\ x.modified => "forget" \in Windows

(* ext3_forget of a block of metadata                                      *)
journal_revoke(b) ==
  /\ handle_for(b)
  /\ Use(now[b]) = "meta"
  /\ may_forget(bh[b])
  /\ bh' = [bh EXCEPT ![b] = journal_forget(@, running)]
  /\ revoke' = revoke \cup {b}
  /\ ext3_free_blocks(b)
  /\ UNCHANGED data

(* A new data block: unmap_underlying_metadata, which waits for a write    *)
(* under way, and journal_dirty_data.                                      *)
journal_dirty_data(b) ==
  /\ handle_for(b)
  /\ test_allocatable(b)
  /\ ~bh[b].writing
  /\ bh' = [bh EXCEPT ![b].dirty = FALSE]
  /\ now' = [now EXCEPT ![b] = <<"data", running>>]
  /\ data' = data \cup {b}
  /\ UNCHANGED <<revoke, committed_data>>

(* ext3_forget of a block of data, whose page has been truncated before    *)
free_data(b) ==
  /\ handle_for(b)
  /\ Use(now[b]) = "data"
  /\ bh' = [bh EXCEPT ![b] = journal_forget(@, running)]
  /\ data' = data \ {b}
  /\ ext3_free_blocks(b)
  /\ UNCHANGED revoke

-----------------------------------------------------------------------------
(* Writing home, and the checkpoint lists.                                 *)

buffers_unchanged == UNCHANGED <<disk, mode, space, trans, lists, io, views>>

(* A data page is written back.                                            *)
write_data(b) ==
  /\ mode = "up"
  /\ Use(now[b]) = "data" /\ home[b] # now[b]
  /\ home' = [home EXCEPT ![b] = now[b]]
  /\ UNCHANGED <<sb, log, mode, space, trans, lists, io, bh, views>>

\* defect, the window as in the code: the buffer lock is all that is looked at
may_submit_unlocked(x) == ~x.writing

(* A buffer that is locked and found dirty is submitted; with the window   *)
(* "writeback" closed, not before write access to it is settled.           *)
may_submit(x) ==
  /\ ~x.writing
  /\ x.dirty /\ x.handle = "entry" => "writeback" \in Windows

submitted(x) == [x EXCEPT !.writing = x.dirty, !.dirty = FALSE]

(* Writeback of the block device                                           *)
write_buffer(b) ==
  /\ mode = "up"
  /\ bh[b].dirty /\ may_submit(bh[b])
  /\ bh' = [bh EXCEPT ![b] = submitted(@)]
  /\ buffers_unchanged

(* end_buffer_write_sync: what is in the buffer now is on the disk.        *)
end_buffer_write(b) ==
  /\ mode = "up" /\ bh[b].writing
  /\ home' = [home EXCEPT ![b] = bh[b].val]
  /\ bh' = [bh EXCEPT ![b].writing = FALSE]
  /\ UNCHANGED <<sb, log, mode, space, trans, lists, io, views>>

(* jbd_trylock_bh_state finds the buffer's state unlocked.                 *)
bh_state_free(x) == x.handle # "entry"

(* Blocks on the lists of j_checkpoint_transactions, the oldest            *)
cp_blocks ==
  LET on_list == {b \in Blocks : bh[b].cp \notin {0, committing}}
  IN  {b \in on_list : \A a \in on_list : bh[b].cp <= bh[a].cp}

to_queue(x) == x.trans = 0 /\ ~x.cpio /\ x.dirty /\ ~x.writing /\ bh_state_free(x)

(* log_do_checkpoint, for a handle that finds no space in the log:         *)
(* __process_buffer queues the dirty buffers s under j_list_lock.          *)
process_buffers(s) ==
  /\ mode = "up"
  /\ log_space_left < jbd_space_needed
  /\ \A b \in Blocks : ~bh[b].jwrite
  /\ s # {} /\ s \subseteq cp_blocks /\ \A b \in s : to_queue(bh[b])
  /\ bh' = [b \in Blocks |-> IF b \in s THEN [bh[b] EXCEPT !.cpio = TRUE, !.jwrite = TRUE]
                                         ELSE bh[b]]
  /\ buffers_unchanged

(* __flush_batch: ll_rw_block passes over a buffer that is clean.          *)
flush_batch(b) ==
  /\ mode = "up"
  /\ bh[b].jwrite /\ may_submit(bh[b])
  /\ bh' = [bh EXCEPT ![b] = [submitted(@) EXCEPT !.jwrite = FALSE]]
  /\ buffers_unchanged

remove_from_checkpoint(b) ==
  /\ bh' = [bh EXCEPT ![b].cp = 0, ![b].cpio = FALSE]
  /\ buffers_unchanged

(* __wait_cp_io, when all buffers of the transaction have been submitted:  *)
(* "in whatever state the buffer currently is"                             *)
wait_cp_io(b) ==
  /\ mode = "up"
  /\ b \in cp_blocks
  /\ \A a \in Blocks : ~bh[a].jwrite
  /\ \A a \in cp_blocks : bh[a].cpio
  /\ ~bh[b].writing /\ bh_state_free(bh[b])
  /\ remove_from_checkpoint(b)

written_back(x) ==
  x.cp # 0 /\ x.jlist = "None" /\ ~x.dirty /\ ~x.writing /\ bh_state_free(x)

(* __try_to_free_cp_buf, and __process_buffer for a clean buffer           *)
remove_checkpoint(b) ==
  /\ mode = "up"
  /\ written_back(bh[b])
  /\ remove_from_checkpoint(b)

-----------------------------------------------------------------------------
(* The superblock and the log's tail.                                      *)

(* journal_update_superblock with j_tail = start: a superblock that says   *)
(* "clean" is left alone until there is a transaction.                     *)
update_superblock(start, seq, next_seq) ==
  LET skip == sb.start = 0 /\ seq = next_seq
  IN  /\ sb' = IF skip THEN sb ELSE [start |-> start, seq |-> seq]
      /\ flushed' = (sb'.start = 0)

(* The oldest transaction that has to stay in the log, and its first block *)
oldest ==
  LET cps == {bh[b].cp : b \in Blocks} \ {0}
      t == IF cps # {} THEN Min(cps) ELSE committing
  IN  IF t # 0 THEN [seq |-> t, start |-> log_start[t]]
      ELSE [seq |-> Tid, start |-> head]

tail_moved ==
  /\ tail' = oldest.start
  /\ tail_sequence' = oldest.seq
  /\ free' = free + ((oldest.start - tail) % L)

cleanup_journal_tail ==
  /\ mode = "up" /\ ~sb_pending
  /\ tail_sequence # oldest.seq
  /\ tail_moved
  /\ sb_pending' = TRUE
  /\ UNCHANGED <<disk, mode, head, flushed, trans, lists, io, bh, views>>

tail_written ==
  /\ mode = "up" /\ sb_pending
  /\ update_superblock(tail, tail_sequence, transaction_sequence)
  /\ sb_pending' = FALSE
  /\ UNCHANGED <<log, home, mode, head, tail, free, tail_sequence, trans, lists,
                 io, bh, views>>

(* journal_flush when everything is committed and written home, with new   *)
(* handles kept out by journal_lock_updates.                               *)
journal_flush ==
  /\ mode = "up" /\ ~sb_pending
  /\ running = 0 /\ committing = 0
  /\ \A b \in Blocks : bh[b].cp = 0
  /\ tail_moved
  /\ update_superblock(0, tail_sequence', transaction_sequence)
  /\ UNCHANGED <<log, home, mode, head, sb_pending, trans, lists, io, bh, views>>

-----------------------------------------------------------------------------
(* journal_commit_transaction                                              *)

(* __journal_refile_buffer                                                 *)
refiled(x) ==
  IF x.next = 0
  THEN [x EXCEPT !.trans = 0, !.jlist = "None", !.jbddirty = FALSE,
                 !.dirty = x.dirty \/ x.jbddirty]
  ELSE [x EXCEPT !.trans = x.next, !.next = 0,
                 !.jlist = IF x.modified THEN "Metadata" ELSE "Reserved"]

(* Up to T_FLUSH.  The buffers reserved and not modified are released, and *)
(* those in s, written back, leave their checkpoint list; a processor that *)
(* has other work to do does not visit them all.                           *)
commit_start(s) ==
  LET discarded(x) == IF x.trans = running /\ x.jlist = "Reserved" THEN refiled(x) ELSE x
      cleaned(x) == [x EXCEPT !.cp = 0, !.cpio = FALSE]
  IN  /\ mode = "up"
      /\ running # 0 /\ committing = 0
      /\ handles = 0 /\ \A b \in Blocks : bh[b].handle = "none"
      /\ IF flushed THEN update_superblock(tail, tail_sequence, transaction_sequence)
                    ELSE UNCHANGED <<sb, flushed>>
      /\ \A b \in s : written_back(discarded(bh[b]))
      /\ bh' = [b \in Blocks |-> IF b \in s THEN cleaned(discarded(bh[b]))
                                             ELSE discarded(bh[b])]
      /\ revoke' = {} /\ committing_revoke' = revoke
      /\ data' = {} /\ committing_data' = data
      /\ committing' = running /\ running' = 0
      /\ log_start' = [log_start EXCEPT ![running] = head]
      /\ com' = now
      /\ phase' = "data"
      /\ UNCHANGED <<log, home, mode, head, tail, free, tail_sequence, sb_pending, handles,
                     transaction_sequence, wbuf, io, now, done, committed_data>>

(* journal_submit_data_buffers; all of them are waited for.                *)
submit_data(b) ==
  /\ mode = "up"
  /\ b \in committing_data
  /\ home' = [home EXCEPT ![b] = com[b]]
  /\ committing_data' = committing_data \ {b}
  /\ UNCHANGED <<sb, log, mode, space, trans, revoke, committing_revoke, data, wbuf, io,
                 bh, views>>

log_blocks_used(n) ==
  /\ head' = Wrap(head + n)
  /\ free' = free - n
  /\ UNCHANGED <<tail, tail_sequence, flushed, sb_pending>>

(* The revoke block, if there is something to revoke                       *)
journal_write_revoke_records ==
  LET block == [k |-> "revoke", tid |-> committing, blocks |-> committing_revoke]
  IN  /\ mode = "up"
      /\ phase = "data" /\ committing_data = {}
      /\ IF committing_revoke = {} THEN UNCHANGED <<io, space>>
         ELSE io' = {<<head, block>>} /\ log_blocks_used(1)
      /\ committing_revoke' = {}
      /\ phase' = "metadata"
      /\ UNCHANGED <<disk, mode, running, committing, handles, log_start,
                     transaction_sequence, revoke, data, committing_data, wbuf, bh, views>>

(* Is the buffer chosen last still to be filed?                            *)
to_file == wbuf # <<>> /\ bh[Last(wbuf).of].jlist = "Metadata"

(* A log block for the next buffer, and before the first one a block for   *)
(* the descriptor.  journal_write_metadata_buffer chooses the page to log: *)
(* the frozen copy if there is one.                                        *)
journal_write_metadata_buffer(b) ==
  /\ mode = "up"
  /\ phase = "metadata" /\ ~to_file
  /\ b \in t_buffers(committing) /\ bh_state_free(bh[b])
  /\ wbuf' = Append(wbuf, [of |-> b, own |-> bh[b].frozen = Free])
  /\ log_blocks_used(IF wbuf = <<>> THEN 2 ELSE 1)
  /\ UNCHANGED <<disk, mode, trans, revoke, committing_revoke, data, committing_data, io,
                 bh, views>>

(* Its last step, under jbd_lock_bh_state again                            *)
file_shadow ==
  /\ mode = "up"
  /\ to_file /\ bh_state_free(bh[Last(wbuf).of])
  /\ bh' = [bh EXCEPT ![Last(wbuf).of].jlist = "Shadow"]
  /\ buffers_unchanged

(* The descriptor and the buffers it describes go to the log.              *)
start_journal_io ==
  LET n == Len(wbuf)
      descriptor == Wrap(head - n - 1)
      tags == [i \in 1..n |-> wbuf[i].of]
      blocks == {<<descriptor, [k |-> "desc", tid |-> committing, tags |-> tags]>>} \cup
                {<<Wrap(descriptor + i), [k |-> "image", of |-> wbuf[i].of,
                                          own |-> wbuf[i].own]>> : i \in 1..n}
  IN  /\ mode = "up"
      /\ phase = "metadata" /\ ~to_file /\ t_buffers(committing) = {}
      /\ io' = IF n = 0 THEN io ELSE io \cup blocks
      /\ wbuf' = <<>>
      /\ phase' = "log"
      /\ UNCHANGED <<disk, mode, space, running, committing, handles, log_start,
                     transaction_sequence, revoke, committing_revoke, data,
                     committing_data, bh, views>>

(* A write to the log completes; the buffer's own image is free again.     *)
log_written(e) ==
  LET b == e[2].of
      image == [k |-> "image", val |-> IF e[2].own THEN bh[b].val ELSE bh[b].frozen]
  IN  /\ mode = "up"
      /\ e \in io
      /\ io' = io \ {e}
      /\ IF e[2].k = "image"
         THEN /\ bh_state_free(bh[b])
              /\ log' = [log EXCEPT ![e[1]] = image]
              /\ bh' = [bh EXCEPT ![b].jlist = "Forget"]
         ELSE /\ log' = [log EXCEPT ![e[1]] = e[2]]
              /\ UNCHANGED bh
      /\ UNCHANGED <<sb, home, mode, space, trans, lists, views>>

\* defect: the commit record does not wait for the blocks before it
log_io_done_never == TRUE

log_io_done == io = {}

(* Phase 6.  With the commit record on the disk the new bitmap is the      *)
(* committed one.                                                          *)
journal_write_commit_record ==
  /\ mode = "up"
  /\ phase = "log" /\ log_io_done
  /\ log' = [log EXCEPT ![head] = [k |-> "commit", tid |-> committing]]
  /\ log_blocks_used(1)
  /\ done' = com
  /\ committed_data' = InUse(com)
  /\ phase' = "forget"
  /\ UNCHANGED <<sb, home, mode, running, committing, handles, log_start,
                 transaction_sequence, lists, io, bh, now, com>>

(* Phase 7 for a buffer on the forget list.                                *)
commit_forget(b) ==
  LET cp == IF bh[b].jbddirty THEN committing ELSE 0
  IN  /\ mode = "up"
      /\ phase = "forget"
      /\ bh[b].trans = committing /\ bh_state_free(bh[b])
      /\ bh' = [bh EXCEPT ![b] = refiled([@ EXCEPT !.frozen = Free, !.cp = cp,
                                                   !.cpio = FALSE])]
      /\ buffers_unchanged

commit_done ==
  /\ mode = "up"
  /\ phase = "forget"
  /\ \A b \in Blocks : bh[b].trans # committing
  /\ committing' = 0
  /\ phase' = "none"
  /\ UNCHANGED <<disk, mode, space, running, handles, log_start, transaction_sequence,
                 lists, io, bh, views>>

-----------------------------------------------------------------------------
(* Crash and recovery.                                                     *)

(* do_one_pass in PASS_SCAN, n blocks into the log.                        *)
scan[n \in 0..L] ==
  IF n = 0 THEN [block |-> sb.start, tid |-> sb.seq, seen |-> <<>>, stop |-> sb.start = 0]
  ELSE LET s == scan[n - 1]
           r == log[s.block]
       IN  IF s.stop THEN s
           ELSE IF r.k \notin {"desc", "revoke", "commit"} \/ r.tid # s.tid
           THEN [s EXCEPT !.stop = TRUE]
           ELSE [s EXCEPT !.block = Wrap(@ + 1 + IF r.k = "desc" THEN Len(r.tags) ELSE 0),
                          !.tid = IF r.k = "commit" THEN @ + 1 ELSE @,
                          !.seen = Append(@, s.block)]

end_transaction == scan[L].tid

(* The other two passes stop at end_transaction.                           *)
in_pass(r, end) == r.tid < end

test_revoke(seq, t) == ~(t > seq)

(* PASS_REVOKE and PASS_REPLAY: what they make of each block.              *)
replayed ==
  LET s == scan[L]
      seen == s.seen
      rec(i) == log[seen[i]]
      revoked(b, t) == \E i \in 1..Len(seen) :
                         /\ rec(i).k = "revoke" /\ in_pass(rec(i), s.tid)
                         /\ b \in rec(i).blocks /\ test_revoke(rec(i).tid, t)
      images(b) == {i \in 1..Len(seen) :
                      /\ rec(i).k = "desc" /\ in_pass(rec(i), s.tid)
                      /\ b \in Range(rec(i).tags) /\ ~revoked(b, rec(i).tid)}
      offset(i, b) == CHOOSE j \in 1..Len(rec(i).tags) : rec(i).tags[j] = b
  IN  [b \in Blocks |-> IF images(b) = {} THEN home[b]
                        ELSE LET i == Max(images(b))
                             IN  log[Wrap(seen[i] + offset(i, b))].val]

(* Everything in memory is lost, and with it all that was not committed.   *)
Crash ==
  /\ mode # "down"
  /\ transaction_sequence <= MaxTid
  /\ mode' = "down"
  /\ head' = 1 /\ tail' = 1 /\ free' = L
  /\ tail_sequence' = 1 /\ transaction_sequence' = 1
  /\ flushed' = FALSE /\ sb_pending' = FALSE
  /\ running' = 0 /\ committing' = 0 /\ handles' = 0 /\ phase' = "none"
  /\ log_start' = [t \in 1..MaxTid |-> 0]
  /\ revoke' = {} /\ committing_revoke' = {}
  /\ data' = {} /\ committing_data' = {}
  /\ wbuf' = <<>> /\ io' = {}
  /\ bh' = [b \in Blocks |-> NoBuffer]
  /\ now' = done /\ com' = done
  /\ committed_data' = InUse(done)
  /\ UNCHANGED <<disk, done>>

(* journal_recover is interrupted by a crash with the blocks of s written. *)
recover_crash(s) ==
  /\ mode = "down"
  /\ home' = [b \in Blocks |-> IF b \in s THEN replayed[b] ELSE home[b]]
  /\ UNCHANGED <<sb, log, mode, space, trans, lists, io, bh, views>>

(* journal_recover                                                         *)
journal_recover ==
  /\ mode = "down"
  /\ home' = replayed
  /\ transaction_sequence' = end_transaction + 1
  /\ bh' = [b \in Blocks |-> [NoBuffer EXCEPT !.val = home'[b]]]
  /\ mode' = "recovered"
  /\ UNCHANGED <<sb, log, space, running, committing, handles, phase, log_start, lists,
                 io, views>>

journal_reset ==
  /\ mode = "recovered"
  /\ tail_sequence' = transaction_sequence
  /\ update_superblock(1, transaction_sequence, transaction_sequence)
  /\ mode' = "up"
  /\ UNCHANGED <<log, home, head, tail, free, sb_pending, trans, lists, io, bh, views>>

-----------------------------------------------------------------------------
Next ==
  \/ start_this_handle \/ journal_stop
  \/ \E b \in Blocks :
       \/ lock_for_write_access(b) \/ do_get_write_access(b) \/ journal_get_create_access(b)
       \/ journal_dirty_metadata(b) \/ journal_release_buffer(b)
       \/ journal_revoke(b) \/ journal_dirty_data(b) \/ free_data(b)
       \/ write_data(b) \/ write_buffer(b) \/ end_buffer_write(b)
       \/ flush_batch(b) \/ wait_cp_io(b) \/ remove_checkpoint(b)
       \/ submit_data(b) \/ journal_write_metadata_buffer(b) \/ commit_forget(b)
  \/ \E s \in SUBSET Blocks : process_buffers(s) \/ commit_start(s) \/ recover_crash(s)
  \/ cleanup_journal_tail \/ tail_written \/ journal_flush
  \/ journal_write_revoke_records \/ file_shadow \/ start_journal_io
  \/ journal_write_commit_record \/ commit_done
  \/ \E e \in io : log_written(e)
  \/ Crash \/ journal_recover \/ journal_reset

Spec == Init /\ [][Next]_vars

-----------------------------------------------------------------------------
Contents == {Free} \cup {"meta", "data"} \X (0..MaxTid)

TypeOK ==
  /\ sb \in [start : 0..L, seq : 0..(MaxTid + 1)]
  /\ home \in [Blocks -> Contents]
  /\ mode \in {"up", "down", "recovered"}
  /\ head \in 1..L /\ tail \in 1..L /\ free \in 1..L
  /\ tail_sequence \in 1..(MaxTid + 2) /\ transaction_sequence \in 1..(MaxTid + 2)
  /\ flushed \in BOOLEAN /\ sb_pending \in BOOLEAN
  /\ running \in 0..MaxTid /\ committing \in 0..MaxTid
  /\ phase \in {"none", "data", "metadata", "log", "forget"}
  /\ handles \in 0..MaxBuffers
  /\ wbuf \in Seq([of : Blocks, own : BOOLEAN])
  /\ bh \in [Blocks -> [val : Contents, dirty : BOOLEAN, jbddirty : BOOLEAN,
                        writing : BOOLEAN, handle : {"none", "entry", "granted"},
                        trans : 0..MaxTid, next : 0..MaxTid, modified : BOOLEAN,
                        jlist : {"None", "Reserved", "Metadata", "Shadow", "Forget"},
                        frozen : Contents, cp : 0..MaxTid, cpio : BOOLEAN,
                        jwrite : BOOLEAN]]

(* "in case of a crash, the journal can replay the transactions to quickly *)
(* put the partition back into a consistent state": whenever the machine   *)
(* stops, in the middle of a commit, a checkpoint or a recovery, what the  *)
(* passes of journal_recover make of the disk is, in every block in use,   *)
(* what the last transaction with a commit record says.                    *)
CrashRecovers ==
  LET disk_after == replayed
  IN  \A b \in InUse(done) : disk_after[b] = done[b]

(* "we need to make sure it doesn't get written to disk before the caller  *)
(* actually commits the new data": a buffer that may be written home, or   *)
(* is being written, holds no contents of a transaction that is running or *)
(* committing.                                                             *)
WriteAhead ==
  \A b \in Blocks : bh[b].dirty \/ bh[b].writing =>
    /\ bh[b].val[2] # running
    /\ bh[b].val[2] = committing => phase \in {"none", "forget"}

=============================================================================
