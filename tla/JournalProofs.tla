--------------------------- MODULE JournalProofs ---------------------------
(***************************************************************************)
(* Proofs about fs/jbd for any number of blocks, any log and any number of *)
(* transactions: the write-ahead rule, that recovery may be repeated, and  *)
(* that the log does not run out of space.                                 *)
(*                                                                         *)
(* A buffer may be written home once it is dirty, and only the journal     *)
(* makes it so, when it takes the buffer off its last transaction.  JInv   *)
(* therefore follows jbddirty, the mark a transaction leaves on a buffer,  *)
(* through the lists: a buffer that the running transaction has changed is *)
(* filed under it, or is to be filed under it next, and then the commit    *)
(* does not make it dirty.  And it follows the buffer through the handle:  *)
(* between unlock_buffer and the end of do_get_write_access no write is in *)
(* flight, and from then on the buffer is in a transaction and not dirty.  *)
(* With the windows "forget" and "writeback" open this fails, and JInv     *)
(* keeps the rest.                                                         *)
(***************************************************************************)
EXTENDS Journal, SequenceTheorems, FiniteSetTheorems, WellFoundedInduction, TLAPS

(* The two windows through which contents that are not committed get home. *)
Closed == "forget" \notin Windows /\ "writeback" \notin Windows

(* The fields of a buffer with its journal_head.                           *)
Buffer(x) ==
  x = [val |-> x.val, dirty |-> x.dirty, jbddirty |-> x.jbddirty, writing |-> x.writing,
       handle |-> x.handle, trans |-> x.trans, next |-> x.next, modified |-> x.modified,
       jlist |-> x.jlist, frozen |-> x.frozen, cp |-> x.cp, cpio |-> x.cpio,
       jwrite |-> x.jwrite]

(* What holds of a buffer x when r is running, c committing in phase ph,   *)
(* ts the next transaction number and v what the file system says is in    *)
(* the block.  First, which transactions it is filed under, and that write *)
(* access is granted to the running one.                                   *)
Filed(x, r, c, ph, ts, v) ==
  /\ x.trans \in {0, r, c}
  /\ x.cp \in Nat
  /\ x.next # 0 => /\ x.next = r /\ x.trans = c /\ c # 0
                   /\ Use(v) = "meta" \/ x.handle = "granted"
  /\ x.handle # "none" => r # 0
  /\ x.handle = "entry" => Use(v) = "meta"
  /\ x.handle = "granted" => r \in {x.trans, x.next}

(* Second, whose contents a buffer may have that is dirty or being         *)
(* written, or that is to be dirty when it leaves its transaction.         *)
Clean(x, r, c, ph, ts, v) ==
  Closed =>
    /\ x.dirty \in BOOLEAN /\ x.jbddirty \in BOOLEAN /\ x.writing \in BOOLEAN
    /\ x.dirty \/ x.writing \/ x.jbddirty => x.val[2] \in 1 .. (ts - 1)
    /\ x.dirty \/ x.writing => x.val[2] # r /\ (x.val[2] = c => ph = "forget")
    /\ x.trans # 0 => ~x.dirty /\ ~x.writing
    /\ x.handle = "entry" => ~x.writing
    /\ x.jbddirty /\ x.trans = c /\ c # 0 /\ ~(x.next # 0 /\ x.modified) => x.val[2] # r
    /\ x.jbddirty /\ x.trans = r /\ x.jlist = "Reserved" => x.val[2] # r

(* The buffer fits its transactions.                                       *)
Fits(x, r, c, ph, ts, v) ==
  Buffer(x) /\ Filed(x, r, c, ph, ts, v) /\ Clean(x, r, c, ph, ts, v)

(* The transaction numbers.                                                *)
Ordered(r, c, ph, ts) ==
  /\ ts \in Nat \ {0}
  /\ r \in 0 .. (ts - 1) /\ c \in 0 .. (ts - 1)
  /\ r # 0 => r # c
  /\ ph = "none" <=> c = 0

(* Buffers B of the blocks of a file system N that all do.                 *)
AllFit(B, N, r, c, ph, ts) ==
  /\ B = [b \in Blocks |-> B[b]] /\ N = [b \in Blocks |-> N[b]]
  /\ \A b \in Blocks : Fits(B[b], r, c, ph, ts, N[b])

(* The transactions and the buffers fit, handles have a transaction, and a *)
(* journal that is down has none.                                          *)
JInv ==
  /\ Ordered(running, committing, phase, transaction_sequence)
  /\ tail_sequence \in Nat /\ sb.seq \in Nat
  /\ handles \in Nat /\ (handles # 0 => running # 0)
  /\ mode # "up" => running = 0 /\ committing = 0
  /\ AllFit(bh, now, running, committing, phase, transaction_sequence)

(* A nonempty set of natural numbers has a least element.                  *)
LEMMA LeastNumber ==
  ASSUME NEW T \in SUBSET Nat, T # {}
  PROVE  \E k \in T : \A n \in T : k <= n
<1> DEFINE R == {p \in Nat \X Nat : p[1] < p[2]}
<1>1. IsWellFoundedOn(R, Nat)
  BY NatLessThanWellFounded, Zenon DEF OpToRel
<1>2. PICK k \in T : \A n \in T : ~(<<n, k>> \in R)
  <2> HIDE DEF R
  <2> QED
    BY <1>1, WFMin
<1>3. ASSUME NEW n \in T PROVE k <= n
  <2>1. k \in Nat /\ n \in Nat /\ (n < k => <<n, k>> \in R)
    OBVIOUS
  <2> QED
    BY <1>2, <2>1
<1> QED
  BY <1>3

(* The write-ahead rule follows.                                           *)
LEMMA WriteAheadFollows == Closed /\ JInv => WriteAhead
BY DEF JInv, Ordered, AllFit, Fits, Clean, WriteAhead

(* A file system in use has no buffer in the journal.                      *)
LEMMA JInit == Init => JInv
<1> SUFFICES ASSUME Init PROVE JInv
  OBVIOUS
<1>1. Ordered(running, committing, phase, transaction_sequence)
  BY DEF Init, Ordered
<1>2. tail_sequence \in Nat /\ sb.seq \in Nat /\ handles = 0
  BY DEF Init
<1>3. bh = [b \in Blocks |-> bh[b]] /\ now = [b \in Blocks |-> now[b]]
  BY DEF Init
<1>4. ASSUME NEW b \in Blocks
      PROVE  Fits(bh[b], running, committing, phase, transaction_sequence, now[b])
  <2>1. bh[b] = [val |-> home[b], dirty |-> FALSE, jbddirty |-> FALSE, writing |-> FALSE,
                 handle |-> "none", trans |-> 0, next |-> 0, modified |-> FALSE,
                 jlist |-> "None", frozen |-> Free, cp |-> 0, cpio |-> FALSE,
                 jwrite |-> FALSE]
    BY DEF Init, NoBuffer
  <2>2. running = 0 /\ committing = 0
    BY DEF Init
  <2> QED
    BY <2>1, <2>2 DEF Fits, Buffer, Filed, Clean
<1>5. mode = "up"
  BY DEF Init
<1> QED
  BY <1>1, <1>2, <1>3, <1>4, <1>5 DEF JInv, AllFit

-----------------------------------------------------------------------------
(* Buffers.                                                                *)

(* A new transaction number is one no buffer has.                          *)
LEMMA JoinFits ==
  ASSUME NEW x, NEW c, NEW ph, NEW ts, NEW v, Ordered(0, c, ph, ts),
         Fits(x, 0, c, ph, ts, v)
  PROVE  Ordered(ts, c, ph, ts + 1) /\ Fits(x, ts, c, ph, ts + 1, v)
<1>1. ts \in Nat \ {0} /\ c \in 0 .. (ts - 1)
  BY DEF Ordered
<1>2. Ordered(ts, c, ph, ts + 1)
  BY <1>1 DEF Ordered
<1>3. x.next = 0 /\ x.handle = "none"
  BY DEF Fits, Filed
<1>4. Filed(x, ts, c, ph, ts + 1, v)
  BY <1>3 DEF Fits, Filed
<1>5. Clean(x, ts, c, ph, ts + 1, v)
  BY <1>1 DEF Fits, Clean
<1> QED
  BY <1>2, <1>4, <1>5 DEF Fits

(* do_get_write_access up to unlock_buffer.                                *)
LEMMA EntryFits ==
  ASSUME NEW x, NEW r, NEW c, NEW ph, NEW ts, NEW v, Fits(x, r, c, ph, ts, v), r # 0,
         x.handle = "none", ~x.writing, Use(v) = "meta"
  PROVE  Fits([x EXCEPT !.handle = "entry"], r, c, ph, ts, v)
<1>1. PICK y : y = [x EXCEPT !.handle = "entry"]
  OBVIOUS
<1>2. y = [val |-> x.val, dirty |-> x.dirty, jbddirty |-> x.jbddirty,
           writing |-> x.writing, handle |-> "entry", trans |-> x.trans,
           next |-> x.next, modified |-> x.modified, jlist |-> x.jlist,
           frozen |-> x.frozen, cp |-> x.cp, cpio |-> x.cpio, jwrite |-> x.jwrite]
  BY <1>1 DEF Fits, Buffer
<1>3. Buffer(y) /\ Filed(y, r, c, ph, ts, v)
  BY <1>2 DEF Fits, Buffer, Filed
<1>4. Clean(y, r, c, ph, ts, v)
  BY <1>2 DEF Fits, Clean
<1> QED
  BY <1>1, <1>3, <1>4 DEF Fits

(* Write access is granted to the running transaction: the buffer is filed *)
(* under it, now or next, and no write of it is in flight.                 *)
LEMMA GrantedFits ==
  ASSUME NEW x, NEW r, NEW c, NEW ph, NEW ts, NEW v, Ordered(r, c, ph, ts), r # 0,
         Fits(x, r, c, ph, ts, v), x.handle = "entry" \/ ~x.writing
  PROVE  Fits(granted(x, r), r, c, ph, ts, v)
<1>1. Buffer(x) /\ x.trans \in {0, r, c} /\ x.cp \in Nat /\ r \in 1 .. (ts - 1) /\ r # c
  BY DEF Fits, Filed, Ordered
<1>2. PICK y : y = granted(x, r)
  OBVIOUS
<1>3. CASE r \in {x.trans, x.next}
  <2>0. x.trans # 0
    BY <1>1, <1>3 DEF Fits, Filed
  <2>1. y = [val |-> x.val, dirty |-> x.dirty, jbddirty |-> x.jbddirty,
             writing |-> x.writing, handle |-> "granted", trans |-> x.trans,
             next |-> x.next, modified |-> x.modified, jlist |-> x.jlist,
             frozen |-> x.frozen, cp |-> x.cp, cpio |-> x.cpio, jwrite |-> x.jwrite]
    BY <1>1, <1>2, <1>3, <2>0 DEF granted, Buffer
  <2>2. Buffer(y) /\ Filed(y, r, c, ph, ts, v)
    BY <1>1, <1>3, <2>1 DEF Fits, Buffer, Filed
  <2>3. Clean(y, r, c, ph, ts, v)
    BY <2>1 DEF Fits, Clean
  <2> QED
    BY <1>2, <2>2, <2>3 DEF Fits
<1>4. CASE r \notin {x.trans, x.next} /\ x.trans = 0
  <2>1. y = [val |-> x.val, dirty |-> FALSE, jbddirty |-> x.dirty,
             writing |-> x.writing, handle |-> "granted", trans |-> r,
             next |-> x.next, modified |-> FALSE, jlist |-> "Reserved",
             frozen |-> x.frozen, cp |-> x.cp, cpio |-> x.cpio, jwrite |-> x.jwrite]
    BY <1>1, <1>2, <1>4 DEF granted, still_dirty, Buffer
  <2>2. x.next = 0
    BY <1>1, <1>4 DEF Fits, Filed
  <2>3. Buffer(y) /\ Filed(y, r, c, ph, ts, v)
    BY <1>1, <2>1, <2>2 DEF Fits, Buffer, Filed
  <2>4. Clean(y, r, c, ph, ts, v)
    BY <1>1, <2>1, <2>2 DEF Fits, Clean
  <2> QED
    BY <1>2, <2>3, <2>4 DEF Fits
<1>5. CASE r \notin {x.trans, x.next} /\ x.trans # 0
  <2>1. PICK f : y = [val |-> x.val, dirty |-> x.dirty, jbddirty |-> x.jbddirty,
                      writing |-> x.writing, handle |-> "granted", trans |-> x.trans,
                      next |-> r, modified |-> FALSE, jlist |-> x.jlist,
                      frozen |-> f, cp |-> x.cp, cpio |-> x.cpio, jwrite |-> x.jwrite]
    BY <1>1, <1>2, <1>5 DEF granted, Buffer
  <2>2. x.trans = c /\ c # 0 /\ x.next = 0
    BY <1>1, <1>5 DEF Fits, Filed
  <2>3. Buffer(y) /\ Filed(y, r, c, ph, ts, v)
    BY <1>1, <2>1, <2>2 DEF Fits, Buffer, Filed
  <2>4. Clean(y, r, c, ph, ts, v)
    BY <1>1, <2>1, <2>2 DEF Fits, Clean
  <2> QED
    BY <1>2, <2>3, <2>4 DEF Fits
<1> QED
  BY <1>3, <1>4, <1>5

(* The change and journal_dirty_metadata, by the running transaction.      *)
LEMMA ModifiedFits ==
  ASSUME NEW x, NEW r, NEW c, NEW ph, NEW ts, NEW v, Ordered(r, c, ph, ts),
         Fits(x, r, c, ph, ts, v), x.handle = "granted"
  PROVE  Fits(modified(x, r), r, c, ph, ts, <<"meta", r>>)
<1>1. /\ Buffer(x) /\ x.trans \in {0, r, c} /\ x.cp \in Nat /\ r \in 1 .. (ts - 1) /\ r # c
      /\ r \in {x.trans, x.next}
  BY DEF Fits, Filed, Ordered
<1>2. PICK y, l : y = modified(x, r) /\ l = IF x.trans = r THEN "Metadata" ELSE x.jlist
  OBVIOUS
<1>3. y = [val |-> <<"meta", r>>, dirty |-> x.dirty, jbddirty |-> TRUE,
           writing |-> x.writing, handle |-> "none", trans |-> x.trans,
           next |-> x.next, modified |-> TRUE, jlist |-> l,
           frozen |-> x.frozen, cp |-> x.cp, cpio |-> x.cpio, jwrite |-> x.jwrite]
  BY <1>1, <1>2 DEF modified, Buffer
<1>4. x.trans # 0 /\ (x.trans = r => x.next = 0)
  BY <1>1 DEF Fits, Filed
<1>5. Buffer(y) /\ Filed(y, r, c, ph, ts, <<"meta", r>>)
  BY <1>1, <1>3, <1>4 DEF Fits, Buffer, Filed, Use
<1>6. Clean(y, r, c, ph, ts, <<"meta", r>>)
  BY <1>1, <1>2, <1>3, <1>4 DEF Fits, Clean
<1> QED
  BY <1>2, <1>5, <1>6 DEF Fits

(* journal_release_buffer.                                                 *)
LEMMA ReleasedFits ==
  ASSUME NEW x, NEW r, NEW c, NEW ph, NEW ts, NEW v, Fits(x, r, c, ph, ts, v),
         Use(v) = "meta"
  PROVE  Fits([x EXCEPT !.handle = "none"], r, c, ph, ts, v)
<1>1. PICK y : y = [x EXCEPT !.handle = "none"]
  OBVIOUS
<1>2. y = [val |-> x.val, dirty |-> x.dirty, jbddirty |-> x.jbddirty,
           writing |-> x.writing, handle |-> "none", trans |-> x.trans,
           next |-> x.next, modified |-> x.modified, jlist |-> x.jlist,
           frozen |-> x.frozen, cp |-> x.cp, cpio |-> x.cpio, jwrite |-> x.jwrite]
  BY <1>1 DEF Fits, Buffer
<1>3. Buffer(y) /\ Filed(y, r, c, ph, ts, v)
  BY <1>2 DEF Fits, Buffer, Filed
<1>4. Clean(y, r, c, ph, ts, v)
  BY <1>2 DEF Fits, Clean
<1> QED
  BY <1>1, <1>3, <1>4 DEF Fits

(* journal_forget of a buffer: what the running transaction has changed is *)
(* not kept for it to file next, unless the window is open.                *)
LEMMA ForgetFits ==
  ASSUME NEW x, NEW r, NEW c, NEW ph, NEW ts, NEW v, NEW u, Ordered(r, c, ph, ts), r # 0,
         Fits(x, r, c, ph, ts, v), x.handle = "none",
         x.next # 0 /\ x.modified => ~Closed
  PROVE  Fits(journal_forget(x, r), r, c, ph, ts, u)
<1>1. Buffer(x) /\ x.trans \in {0, r, c} /\ x.cp \in Nat /\ r # c
  BY DEF Fits, Filed, Ordered
<1>2. PICK y : y = journal_forget(x, r)
  OBVIOUS
<1>3. CASE x.trans = r
  <2>1. PICK n \in {0, r}, l \in {"Forget", "None"} :
          y = [val |-> x.val, dirty |-> FALSE, jbddirty |-> FALSE, writing |-> x.writing,
               handle |-> x.handle, trans |-> n, next |-> x.next, modified |-> FALSE,
               jlist |-> l, frozen |-> x.frozen, cp |-> x.cp, cpio |-> x.cpio,
               jwrite |-> x.jwrite]
    BY <1>1, <1>2, <1>3 DEF journal_forget, Buffer
  <2>2. x.next = 0
    BY <1>1, <1>3 DEF Fits, Filed
  <2>3. Buffer(y) /\ Filed(y, r, c, ph, ts, u)
    BY <1>1, <2>1, <2>2 DEF Fits, Buffer, Filed
  <2>4. Clean(y, r, c, ph, ts, u)
    BY <1>1, <1>3, <2>1, <2>2 DEF Fits, Clean
  <2> QED
    BY <1>2, <2>3, <2>4 DEF Fits
<1>4. CASE x.trans # r
  <2>1. y = [val |-> x.val, dirty |-> x.dirty, jbddirty |-> x.jbddirty,
             writing |-> x.writing, handle |-> x.handle, trans |-> x.trans, next |-> 0,
             modified |-> FALSE, jlist |-> x.jlist, frozen |-> x.frozen, cp |-> x.cp,
             cpio |-> x.cpio, jwrite |-> x.jwrite]
    BY <1>1, <1>2, <1>4 DEF journal_forget, Buffer
  <2>2. Buffer(y) /\ Filed(y, r, c, ph, ts, u)
    BY <1>1, <2>1 DEF Fits, Buffer, Filed
  <2>3. Clean(y, r, c, ph, ts, u)
    BY <1>1, <1>4, <2>1 DEF Fits, Clean
  <2> QED
    BY <1>2, <2>2, <2>3 DEF Fits
<1> QED
  BY <1>3, <1>4

(* y is the buffer x, submitted or written, on another list of the commit  *)
(* or of the checkpoint, or off it.                                        *)
Marked(x, y) ==
  /\ Buffer(y)
  /\ y.val = x.val /\ y.jbddirty = x.jbddirty /\ y.handle = x.handle
  /\ y.trans = x.trans /\ y.next = x.next /\ y.modified = x.modified
  /\ y.dirty \in {x.dirty, FALSE}
  /\ \/ y.writing \in {x.writing, FALSE}
     \/ y.writing = x.dirty /\ (Closed => ~(x.dirty /\ x.handle = "entry"))
  /\ y.jlist \in {x.jlist, "Shadow", "Forget"}
  /\ y.cp \in {0, x.cp}

(* It is as good as x.                                                     *)
LEMMA MarkedFits ==
  ASSUME NEW x, NEW r, NEW c, NEW ph, NEW ts, NEW v, Fits(x, r, c, ph, ts, v),
         NEW y, Marked(x, y)
  PROVE  Fits(y, r, c, ph, ts, v)
<1>1. Filed(y, r, c, ph, ts, v)
  BY DEF Fits, Filed, Marked
<1>2. Clean(y, r, c, ph, ts, v)
  BY DEF Fits, Clean, Marked
<1> QED
  BY <1>1, <1>2 DEF Fits, Marked

(* The ways to mark a buffer.                                              *)
LEMMA Marks ==
  ASSUME NEW x, Buffer(x)
  PROVE  /\ Marked(x, x)
         /\ Marked(x, [x EXCEPT !.dirty = FALSE])
         /\ Marked(x, [x EXCEPT !.writing = FALSE])
         /\ Marked(x, [x EXCEPT !.jlist = "Shadow"])
         /\ Marked(x, [x EXCEPT !.jlist = "Forget"])
         /\ Marked(x, [x EXCEPT !.cp = 0, !.cpio = FALSE])
         /\ Marked(x, [x EXCEPT !.cpio = TRUE, !.jwrite = TRUE])
         /\ may_submit(x) => Marked(x, submitted(x))
         /\ may_submit(x) => Marked(x, [submitted(x) EXCEPT !.jwrite = FALSE])
<1>1. ASSUME NEW y, y = x PROVE Marked(x, y)
  BY <1>1 DEF Marked, Buffer
<1>2. ASSUME NEW y, y = [x EXCEPT !.dirty = FALSE] PROVE Marked(x, y)
  BY <1>2 DEF Marked, Buffer
<1>3. ASSUME NEW y, y = [x EXCEPT !.writing = FALSE] PROVE Marked(x, y)
  BY <1>3 DEF Marked, Buffer
<1>4. ASSUME NEW y, y = [x EXCEPT !.jlist = "Shadow"] PROVE Marked(x, y)
  BY <1>4 DEF Marked, Buffer
<1>5. ASSUME NEW y, y = [x EXCEPT !.jlist = "Forget"] PROVE Marked(x, y)
  BY <1>5 DEF Marked, Buffer
<1>6. ASSUME NEW y, y = [x EXCEPT !.cp = 0, !.cpio = FALSE] PROVE Marked(x, y)
  BY <1>6 DEF Marked, Buffer
<1>7. ASSUME NEW y, y = [x EXCEPT !.cpio = TRUE, !.jwrite = TRUE] PROVE Marked(x, y)
  BY <1>7 DEF Marked, Buffer
<1>8. ASSUME NEW y, may_submit(x),
             y = submitted(x) \/ y = [submitted(x) EXCEPT !.jwrite = FALSE]
      PROVE  Marked(x, y)
  <2>1. Closed => ~(x.dirty /\ x.handle = "entry")
    BY <1>8 DEF may_submit, Closed
  <2>2. PICK j : y = [val |-> x.val, dirty |-> FALSE, jbddirty |-> x.jbddirty,
                      writing |-> x.dirty, handle |-> x.handle, trans |-> x.trans,
                      next |-> x.next, modified |-> x.modified, jlist |-> x.jlist,
                      frozen |-> x.frozen, cp |-> x.cp, cpio |-> x.cpio, jwrite |-> j]
    BY <1>8 DEF submitted, Buffer
  <2> QED
    BY <2>1, <2>2 DEF Marked, Buffer
<1> QED
  BY <1>1, <1>2, <1>3, <1>4, <1>5, <1>6, <1>7, <1>8

(* Another use of the block, if the buffer is not to be filed next and no  *)
(* handle is at it.                                                        *)
LEMMA ViewFits ==
  ASSUME NEW x, NEW r, NEW c, NEW ph, NEW ts, NEW v, NEW u,
         Fits(x, r, c, ph, ts, v), x.next = 0, x.handle = "none"
  PROVE  Fits(x, r, c, ph, ts, u)
BY DEF Fits, Filed, Clean

(* The running transaction becomes the committing one: nothing it has      *)
(* changed is dirty.                                                       *)
LEMMA CommitFits ==
  ASSUME NEW x, NEW r, NEW ph, NEW ts, NEW v, Ordered(r, 0, ph, ts), r # 0,
         Fits(x, r, 0, ph, ts, v), x.handle = "none"
  PROVE  Fits(x, 0, r, "data", ts, v)
<1>1. x.next = 0 /\ ts \in Nat
  BY DEF Fits, Filed, Ordered
<1>2. Filed(x, 0, r, "data", ts, v)
  BY <1>1 DEF Fits, Filed
<1>3. Clean(x, 0, r, "data", ts, v)
  BY <1>1 DEF Fits, Clean
<1> QED
  BY <1>2, <1>3 DEF Fits

(* A buffer that is reserved and was not modified is released: it is dirty *)
(* if it was before, with the contents of an older transaction.            *)
LEMMA DiscardedFits ==
  ASSUME NEW x, NEW r, NEW ph, NEW ts, NEW v, Ordered(r, 0, ph, ts), r # 0,
         Fits(x, r, 0, ph, ts, v), x.handle = "none", x.trans = r, x.jlist = "Reserved"
  PROVE  Fits(refiled(x), r, 0, ph, ts, v)
<1>1. x.next = 0 /\ ts \in Nat /\ Buffer(x) /\ x.cp \in Nat
  BY DEF Fits, Filed, Ordered
<1>2. PICK y : y = refiled(x)
  OBVIOUS
<1>3. y = [val |-> x.val, dirty |-> x.dirty \/ x.jbddirty, jbddirty |-> FALSE,
           writing |-> x.writing, handle |-> x.handle, trans |-> 0, next |-> x.next,
           modified |-> x.modified, jlist |-> "None", frozen |-> x.frozen, cp |-> x.cp,
           cpio |-> x.cpio, jwrite |-> x.jwrite]
  BY <1>1, <1>2 DEF refiled, Buffer
<1>4. Buffer(y) /\ Filed(y, r, 0, ph, ts, v)
  BY <1>1, <1>3 DEF Fits, Buffer, Filed
<1>5. Clean(y, r, 0, ph, ts, v)
  BY <1>1, <1>3 DEF Fits, Clean
<1> QED
  BY <1>2, <1>4, <1>5 DEF Fits

(* The commit goes on.                                                     *)
LEMMA PhaseFits ==
  ASSUME NEW x, NEW r, NEW c, NEW ph, NEW ts, NEW v, NEW next_ph, ph # "forget",
         Fits(x, r, c, ph, ts, v)
  PROVE  Fits(x, r, c, next_ph, ts, v)
BY DEF Fits, Filed, Clean

(* Phase 7: jbddirty becomes dirty, unless the running transaction has     *)
(* access to the buffer.                                                   *)
LEMMA RefiledFits ==
  ASSUME NEW x, NEW r, NEW c, NEW ts, NEW v, NEW k \in Nat,
         Ordered(r, c, "forget", ts), Fits(x, r, c, "forget", ts, v), x.trans = c,
         x.handle # "entry"
  PROVE  Fits(refiled([x EXCEPT !.frozen = Free, !.cp = k, !.cpio = FALSE]),
              r, c, "forget", ts, v)
<1>0. PICK z : z = [x EXCEPT !.frozen = Free, !.cp = k, !.cpio = FALSE]
  OBVIOUS
<1>1. Buffer(x) /\ c # 0 /\ ts \in Nat /\ (r # 0 => r # c)
  BY DEF Fits, Ordered
<1>2. z = [val |-> x.val, dirty |-> x.dirty, jbddirty |-> x.jbddirty,
           writing |-> x.writing, handle |-> x.handle, trans |-> c, next |-> x.next,
           modified |-> x.modified, jlist |-> x.jlist, frozen |-> Free, cp |-> k,
           cpio |-> FALSE, jwrite |-> x.jwrite]
  BY <1>0, <1>1 DEF Buffer
<1>3. PICK y : y = refiled(z)
  OBVIOUS
<1>4. CASE x.next = 0
  <2>1. y = [val |-> x.val, dirty |-> x.dirty \/ x.jbddirty, jbddirty |-> FALSE,
             writing |-> x.writing, handle |-> x.handle, trans |-> 0, next |-> 0,
             modified |-> x.modified, jlist |-> "None", frozen |-> Free, cp |-> k,
             cpio |-> FALSE, jwrite |-> x.jwrite]
    BY <1>2, <1>3, <1>4 DEF refiled
  <2>2. x.handle = "none" \/ x.handle \notin {"none", "entry", "granted"}
    BY <1>1, <1>4 DEF Fits, Filed
  <2>3. Clean(y, r, c, "forget", ts, v)
    BY <1>1, <1>4, <2>1 DEF Fits, Clean
  <2>4. Filed(y, r, c, "forget", ts, v) /\ Buffer(y)
    BY <2>1, <2>2 DEF Fits, Filed, Buffer
  <2> QED
    BY <1>0, <1>3, <2>3, <2>4 DEF Fits
<1>5. CASE x.next # 0
  <2>1. PICK l : /\ l = (IF x.modified THEN "Metadata" ELSE "Reserved")
                 /\ y = [val |-> x.val, dirty |-> x.dirty, jbddirty |-> x.jbddirty,
                         writing |-> x.writing, handle |-> x.handle, trans |-> x.next,
                         next |-> 0, modified |-> x.modified, jlist |-> l,
                         frozen |-> Free, cp |-> k, cpio |-> FALSE, jwrite |-> x.jwrite]
    BY <1>2, <1>3, <1>5 DEF refiled
  <2>2. x.next = r /\ r # c
    BY <1>1, <1>5 DEF Fits, Filed
  <2>3. Clean(y, r, c, "forget", ts, v)
    BY <1>1, <1>5, <2>1, <2>2 DEF Fits, Clean
  <2>4. Filed(y, r, c, "forget", ts, v) /\ Buffer(y)
    BY <2>1, <2>2 DEF Fits, Filed, Buffer
  <2> QED
    BY <1>0, <1>3, <2>3, <2>4 DEF Fits
<1> QED
  BY <1>4, <1>5

(* The commit is over when no buffer is filed under it.                    *)
LEMMA DoneFits ==
  ASSUME NEW x, NEW r, NEW c, NEW ph, NEW ts, NEW v, Ordered(r, c, ph, ts),
         Fits(x, r, c, ph, ts, v), x.trans # c
  PROVE  Fits(x, r, 0, "none", ts, v)
<1>1. x.next = 0 /\ ts \in Nat
  BY DEF Fits, Filed, Ordered
<1>2. Filed(x, r, 0, "none", ts, v)
  BY <1>1 DEF Fits, Filed
<1>3. Clean(x, r, 0, "none", ts, v)
  BY <1>1 DEF Fits, Clean
<1> QED
  BY <1>2, <1>3 DEF Fits

(* A buffer after a crash, and one read back by recovery.                  *)
LEMMA FreshFits ==
  ASSUME NEW u, NEW ts, NEW v
  PROVE  /\ Fits([NoBuffer EXCEPT !.val = u], 0, 0, "none", ts, v)
         /\ Fits(NoBuffer, 0, 0, "none", ts, v)
<1>1. PICK y : y = [NoBuffer EXCEPT !.val = u]
  OBVIOUS
<1>2. y = [val |-> u, dirty |-> FALSE, jbddirty |-> FALSE, writing |-> FALSE,
           handle |-> "none", trans |-> 0, next |-> 0, modified |-> FALSE,
           jlist |-> "None", frozen |-> Free, cp |-> 0, cpio |-> FALSE, jwrite |-> FALSE]
  BY <1>1 DEF NoBuffer
<1>3. Fits(y, 0, 0, "none", ts, v)
  BY <1>2 DEF Fits, Buffer, Filed, Clean
<1>4. Fits(NoBuffer, 0, 0, "none", ts, v)
  BY DEF NoBuffer, Fits, Buffer, Filed, Clean
<1> QED
  BY <1>1, <1>3, <1>4

(* One buffer or one block of the file system changes.                     *)
LEMMA OneFits ==
  ASSUME NEW B, NEW N, NEW r, NEW c, NEW ph, NEW ts, AllFit(B, N, r, c, ph, ts),
         NEW b \in Blocks, NEW y, NEW v
  PROVE  /\ Fits(y, r, c, ph, ts, v) =>
              AllFit([B EXCEPT ![b] = y], [N EXCEPT ![b] = v], r, c, ph, ts)
         /\ Fits(y, r, c, ph, ts, N[b]) => AllFit([B EXCEPT ![b] = y], N, r, c, ph, ts)
<1>1. ASSUME Fits(y, r, c, ph, ts, v)
      PROVE  AllFit([B EXCEPT ![b] = y], [N EXCEPT ![b] = v], r, c, ph, ts)
  BY <1>1 DEF AllFit
<1>2. ASSUME Fits(y, r, c, ph, ts, N[b])
      PROVE  AllFit([B EXCEPT ![b] = y], N, r, c, ph, ts)
  BY <1>2 DEF AllFit
<1> QED
  BY <1>1, <1>2

-----------------------------------------------------------------------------
(* The scan of the log counts transactions from the superblock's.          *)

(* One block further.                                                      *)
ScanStep(s) ==
  LET r == log[s.block]
  IN  IF s.stop THEN s
      ELSE IF r.k \notin {"desc", "revoke", "commit"} \/ r.tid # s.tid
      THEN [s EXCEPT !.stop = TRUE]
      ELSE [s EXCEPT !.block = Wrap(@ + 1 + IF r.k = "desc" THEN Len(r.tags) ELSE 0),
                     !.tid = IF r.k = "commit" THEN @ + 1 ELSE @,
                     !.seen = Append(@, s.block)]

ScanStart == [block |-> sb.start, tid |-> sb.seq, seen |-> <<>>, stop |-> sb.start = 0]

(* f is what the scan finds in the first m blocks.                         *)
ScanTo(f, m) == f = [n \in 0 .. m |-> IF n = 0 THEN ScanStart ELSE ScanStep(f[n - 1])]

(* There is such a function, whatever is in the log.                       *)
LEMMA ScanExists ==
  ASSUME NEW m \in Nat
  PROVE  \E f : ScanTo(f, m)
<1> DEFINE T == {n \in Nat : ~\E f : ScanTo(f, n)}
<1>1. SUFFICES ASSUME T # {} PROVE FALSE
  OBVIOUS
<1>2. PICK k \in T : \A n \in T : k <= n
  <2>1. T \in SUBSET Nat
    OBVIOUS
  <2> HIDE DEF T
  <2> QED
    BY <1>1, <2>1, LeastNumber
<1>3. k \in Nat /\ ~\E f : ScanTo(f, k)
  OBVIOUS
<1>4. CASE k = 0
  <2>1. ScanTo([n \in 0 .. 0 |-> ScanStart], 0)
    BY DEF ScanTo
  <2> QED
    BY <1>3, <1>4, <2>1
<1>5. CASE k # 0
  <2>1. k - 1 \in Nat /\ k - 1 \notin T
    BY <1>2, <1>3, <1>5
  <2>2. PICK f : ScanTo(f, k - 1)
    BY <2>1
  <2> DEFINE g == [n \in 0 .. k |-> IF n = k THEN ScanStep(f[k - 1]) ELSE f[n]]
  <2>3. ASSUME NEW n \in 0 .. k
        PROVE  g[n] = IF n = 0 THEN ScanStart ELSE ScanStep(g[n - 1])
    <3>1. CASE n = k
      <4>1. g[n - 1] = f[k - 1] /\ g[n] = ScanStep(f[k - 1])
        BY <1>3, <1>5, <3>1
      <4> QED
        BY <1>5, <3>1, <4>1
    <3>2. CASE n # k
      <4>1. n \in 0 .. (k - 1) /\ g[n] = f[n]
        BY <1>3, <3>2
      <4>2. f[n] = IF n = 0 THEN ScanStart ELSE ScanStep(f[n - 1])
        BY <2>2, <4>1 DEF ScanTo
      <4>3. n # 0 => g[n - 1] = f[n - 1]
        BY <1>3, <3>2
      <4> QED
        BY <4>1, <4>2, <4>3
    <3> QED
      BY <3>1, <3>2
  <2>4. g = [n \in 0 .. k |-> g[n]]
    OBVIOUS
  <2> HIDE DEF g
  <2>5. g = [n \in 0 .. k |-> IF n = 0 THEN ScanStart ELSE ScanStep(g[n - 1])]
    BY <2>3, <2>4
  <2>6. ScanTo(g, k)
    BY <2>5 DEF ScanTo
  <2> QED
    BY <1>3, <2>6
<1> QED
  BY <1>4, <1>5

(* So scan is one.                                                         *)
LEMMA ScanIs == ScanTo(scan, L)
<1>1. \E f : ScanTo(f, L)
  BY JournalAssumption, ScanExists
<1>2. scan = CHOOSE f : ScanTo(f, L)
  BY DEF scan, ScanTo, ScanStep, ScanStart
<1> QED
  BY <1>1, <1>2

(* It goes on from the superblock's transaction.                           *)
LEMMA EndTransaction ==
  ASSUME sb.seq \in Nat
  PROVE  end_transaction \in Nat
<1> DEFINE Good(s) == /\ s = [block |-> s.block, tid |-> s.tid, seen |-> s.seen,
                              stop |-> s.stop]
                      /\ s.tid \in Nat
           T == {n \in 0 .. L : ~Good(scan[n])}
<1>1. L \in Nat
  BY JournalAssumption
<1>2. \A n \in 0 .. L : scan[n] = IF n = 0 THEN ScanStart ELSE ScanStep(scan[n - 1])
  BY ScanIs DEF ScanTo
<1>3. T = {}
  <2>1. SUFFICES ASSUME T # {} PROVE FALSE
    OBVIOUS
  <2>2. PICK k \in T : \A n \in T : k <= n
    <3>1. T \in SUBSET Nat
      BY <1>1
    <3> HIDE DEF T
    <3> QED
      BY <2>1, <3>1, LeastNumber
  <2>3. k \in 0 .. L /\ ~Good(scan[k])
    OBVIOUS
  <2>4. CASE k = 0
    <3>1. scan[k] = ScanStart
      BY <1>2, <2>3, <2>4
    <3>2. Good(ScanStart)
      BY DEF ScanStart
    <3> QED
      BY <2>3, <3>1, <3>2
  <2>5. CASE k # 0
    <3>1. k - 1 \in 0 .. L /\ k - 1 \notin T
      BY <1>1, <2>2, <2>3, <2>5
    <3>2. PICK s : s = scan[k - 1]
      OBVIOUS
    <3>3. Good(s)
      BY <3>1, <3>2
    <3>4. scan[k] = ScanStep(s)
      BY <1>2, <2>3, <2>5, <3>2
    <3>5. PICK y : y = ScanStep(s)
      OBVIOUS
    <3>6. PICK m, d, e, h : y = [block |-> m, tid |-> d, seen |-> e, stop |-> h]
                            /\ d \in {s.tid, s.tid + 1}
      <4>1. CASE s.stop
        BY <3>3, <3>5, <4>1 DEF ScanStep
      <4>2. CASE ~s.stop /\ (\/ log[s.block].k \notin {"desc", "revoke", "commit"}
                              \/ log[s.block].tid # s.tid)
        <5>1. y = [s EXCEPT !.stop = TRUE]
          BY <3>5, <4>2 DEF ScanStep
        <5>2. y = [block |-> s.block, tid |-> s.tid, seen |-> s.seen, stop |-> TRUE]
          BY <3>3, <5>1
        <5> QED
          BY <5>2
      <4>3. CASE ~s.stop /\ ~(\/ log[s.block].k \notin {"desc", "revoke", "commit"}
                               \/ log[s.block].tid # s.tid)
        <5>1. PICK m, d, e : y = [s EXCEPT !.block = m, !.tid = d, !.seen = e]
                             /\ d \in {s.tid, s.tid + 1}
          BY <3>5, <4>3 DEF ScanStep
        <5>2. y = [block |-> m, tid |-> d, seen |-> e, stop |-> s.stop]
          BY <3>3, <5>1
        <5> QED
          BY <5>1, <5>2
      <4> QED
        BY <4>1, <4>2, <4>3
    <3>7. Good(y)
      BY <3>3, <3>6
    <3> QED
      BY <2>3, <3>4, <3>5, <3>7
  <2> QED
    BY <2>4, <2>5
<1>4. L \in 0 .. L
  BY <1>1
<1> QED
  BY <1>3, <1>4 DEF end_transaction

-----------------------------------------------------------------------------
(* Handles.                                                                *)

(* A handle's transaction is the running one from then on.                 *)
LEMMA JStart == ASSUME JInv, start_this_handle PROVE JInv' /\ running' # 0
<1>1. /\ Ordered(running, committing, phase, transaction_sequence)
      /\ AllFit(bh, now, running, committing, phase, transaction_sequence)
      /\ tail_sequence \in Nat /\ sb.seq \in Nat /\ handles \in Nat
  BY DEF JInv
<1>2. /\ running' = Tid /\ mode' = "up" /\ committing' = committing /\ phase' = phase
      /\ sb' = sb /\ tail_sequence' = tail_sequence /\ handles' = handles + 1
      /\ bh' = bh /\ now' = now
  BY DEF start_this_handle, disk, space, views
<1>3. CASE running = 0
  <2>1. Tid = transaction_sequence /\ transaction_sequence' = transaction_sequence + 1
    BY <1>3 DEF start_this_handle, Tid
  <2>2. Tid # 0
    BY <1>1, <2>1 DEF Ordered
  <2>3. Ordered(0, committing, phase, transaction_sequence)
    BY <1>1, <1>3
  <2>4. ASSUME NEW b \in Blocks
        PROVE  Fits(bh[b], Tid, committing, phase, transaction_sequence + 1, now[b])
    <3>1. Fits(bh[b], 0, committing, phase, transaction_sequence, now[b])
      BY <1>1, <1>3 DEF AllFit
    <3> QED
      BY <2>1, <2>3, <3>1, JoinFits, Zenon
  <2>5. Ordered(Tid, committing, phase, transaction_sequence + 1)
    BY <2>1, <2>3 DEF Ordered
  <2>6. AllFit(bh, now, Tid, committing, phase, transaction_sequence + 1)
    BY <1>1, <2>4 DEF AllFit
  <2> QED
    BY <1>1, <1>2, <2>1, <2>2, <2>5, <2>6 DEF JInv
<1>4. CASE running # 0
  <2>1. Tid = running /\ transaction_sequence' = transaction_sequence
    BY <1>4 DEF start_this_handle, Tid
  <2> QED
    BY <1>1, <1>2, <1>4, <2>1 DEF JInv
<1> QED
  BY <1>3, <1>4

(* What a handle leaves alone when it is at a block.                       *)
HandleLeaves ==
  /\ UNCHANGED <<running, committing, phase, transaction_sequence, mode, tail_sequence, sb>>
  /\ handles' \in {handles, handles - 1} /\ handles' \in Nat

(* The rest of a handle changes one buffer and the use of its block.       *)
LEMMA HandleFits ==
  ASSUME JInv, NEW b \in Blocks, NEW y, NEW v, bh' = [bh EXCEPT ![b] = y],
         now' = [now EXCEPT ![b] = v], HandleLeaves,
         Fits(y, running, committing, phase, transaction_sequence, v)
  PROVE  JInv'
<1>1. AllFit(bh, now, running, committing, phase, transaction_sequence)
  BY DEF JInv
<1>2. AllFit(bh', now', running, committing, phase, transaction_sequence)
  BY <1>1, OneFits, Zenon
<1> QED
  BY <1>2 DEF JInv, HandleLeaves

(* Or the buffer alone.                                                    *)
LEMMA AccessFits ==
  ASSUME JInv, NEW b \in Blocks, NEW y, bh' = [bh EXCEPT ![b] = y], now' = now,
         HandleLeaves, Fits(y, running, committing, phase, transaction_sequence, now[b])
  PROVE  JInv'
<1>1. AllFit(bh, now, running, committing, phase, transaction_sequence)
  BY DEF JInv
<1>2. AllFit(bh', now', running, committing, phase, transaction_sequence)
  BY <1>1, OneFits, Zenon
<1> QED
  BY <1>2 DEF JInv, HandleLeaves

(* A handle that turns to a block has a transaction, and so has one that   *)
(* is at it.                                                               *)
LEMMA HandleFor ==
  ASSUME JInv, NEW b \in Blocks
  PROVE  /\ Fits(bh[b], running, committing, phase, transaction_sequence, now[b])
         /\ Ordered(running, committing, phase, transaction_sequence)
         /\ bh = [a \in Blocks |-> bh[a]] /\ handles \in Nat
         /\ bh[b].handle # "none" => running # 0
         /\ handle_for(b) =>
              /\ running # 0 /\ bh[b].handle = "none"
              /\ handles' = handles - 1 /\ HandleLeaves
<1>1. /\ Ordered(running, committing, phase, transaction_sequence)
      /\ AllFit(bh, now, running, committing, phase, transaction_sequence)
      /\ handles \in Nat /\ (handles # 0 => running # 0)
  BY DEF JInv
<1>2. /\ Fits(bh[b], running, committing, phase, transaction_sequence, now[b])
      /\ bh = [a \in Blocks |-> bh[a]]
  BY <1>1 DEF AllFit
<1>3. bh[b].handle # "none" => running # 0
  BY <1>2 DEF Fits, Filed
<1>4. ASSUME handle_for(b)
      PROVE  /\ running # 0 /\ bh[b].handle = "none"
             /\ handles' = handles - 1 /\ HandleLeaves
  BY <1>1, <1>4 DEF handle_for, HandleLeaves, disk, space
<1> QED
  BY <1>1, <1>2, <1>3, <1>4

(* Write access to a block, and what comes of it.                          *)
LEMMA JAccess ==
  ASSUME JInv, NEW b \in Blocks,
         \/ lock_for_write_access(b) \/ do_get_write_access(b)
         \/ journal_get_create_access(b) \/ journal_dirty_metadata(b)
         \/ journal_release_buffer(b)
  PROVE  JInv'
<1>1. CASE lock_for_write_access(b)
  <2>1. /\ handle_for(b) /\ now' = now /\ Use(now[b]) = "meta" /\ ~bh[b].writing
        /\ bh' = [bh EXCEPT ![b] = [bh[b] EXCEPT !.handle = "entry"]]
    BY <1>1, HandleFor DEF lock_for_write_access, write_access_ok
  <2>2. Fits([bh[b] EXCEPT !.handle = "entry"], running, committing, phase,
             transaction_sequence, now[b])
    BY <2>1, HandleFor, EntryFits, Zenon
  <2> QED
    BY <2>1, <2>2, HandleFor, AccessFits, Zenon
<1>2. CASE do_get_write_access(b)
  <2>1. /\ bh[b].handle = "entry" /\ now' = now
        /\ bh' = [bh EXCEPT ![b] = granted(bh[b], running)]
        /\ HandleLeaves
    BY <1>2, HandleFor DEF do_get_write_access, HandleLeaves, disk, space, trans, views
  <2>2. running # 0
    BY <2>1, HandleFor
  <2>3. Fits(granted(bh[b], running), running, committing, phase, transaction_sequence,
             now[b])
    BY <2>1, <2>2, HandleFor, GrantedFits, Zenon
  <2> QED
    BY <2>1, <2>3, HandleFor, AccessFits, Zenon
<1>3. CASE journal_get_create_access(b)
  <2>1. /\ handle_for(b) /\ now' = now /\ ~bh[b].writing
        /\ bh' = [bh EXCEPT ![b] = granted(bh[b], running)]
    BY <1>3 DEF journal_get_create_access
  <2>2. Fits(granted(bh[b], running), running, committing, phase, transaction_sequence,
             now[b])
    BY <2>1, HandleFor, GrantedFits, Zenon
  <2> QED
    BY <2>1, <2>2, HandleFor, AccessFits, Zenon
<1>4. CASE journal_dirty_metadata(b)
  <2>1. /\ bh[b].handle = "granted"
        /\ now' = [now EXCEPT ![b] = <<"meta", running>>]
        /\ bh' = [bh EXCEPT ![b] = modified(bh[b], running)]
        /\ HandleLeaves
    BY <1>4, HandleFor DEF journal_dirty_metadata, HandleLeaves, disk, space, trans
  <2>2. Fits(modified(bh[b], running), running, committing, phase, transaction_sequence,
             <<"meta", running>>)
    BY <2>1, HandleFor, ModifiedFits, Zenon
  <2> QED
    BY <2>1, <2>2, HandleFor, HandleFits, Zenon
<1>5. CASE journal_release_buffer(b)
  <2>1. /\ now' = now /\ Use(now[b]) = "meta"
        /\ bh' = [bh EXCEPT ![b] = [bh[b] EXCEPT !.handle = "none"]]
        /\ HandleLeaves
    BY <1>5, HandleFor DEF journal_release_buffer, HandleLeaves, disk, space, trans, views
  <2>2. Fits([bh[b] EXCEPT !.handle = "none"], running, committing, phase,
             transaction_sequence, now[b])
    BY <2>1, HandleFor, ReleasedFits, Zenon
  <2> QED
    BY <2>1, <2>2, HandleFor, AccessFits, Zenon
<1> QED
  BY <1>1, <1>2, <1>3, <1>4, <1>5

(* Blocks that are freed, and new blocks of data.                          *)
LEMMA JBlocks ==
  ASSUME JInv, NEW b \in Blocks,
         journal_revoke(b) \/ journal_dirty_data(b) \/ free_data(b)
  PROVE  JInv'
<1>1. CASE journal_revoke(b)
  <2>1. /\ handle_for(b) /\ now' = [now EXCEPT ![b] = Free]
        /\ bh' = [bh EXCEPT ![b] = journal_forget(bh[b], running)]
        /\ (bh[b].next = running /\ bh[b].modified => "forget" \in Windows)
    BY <1>1 DEF journal_revoke, ext3_free_blocks, may_forget
  <2>2. bh[b].next # 0 /\ bh[b].modified => ~Closed
    BY <2>1, HandleFor DEF Fits, Filed, Closed
  <2>3. Fits(journal_forget(bh[b], running), running, committing, phase,
             transaction_sequence, Free)
    BY <2>1, <2>2, HandleFor, ForgetFits, Zenon
  <2> QED
    BY <2>1, <2>3, HandleFor, HandleFits, Zenon
<1>2. CASE journal_dirty_data(b)
  <2>1. /\ handle_for(b) /\ now' = [now EXCEPT ![b] = <<"data", running>>]
        /\ bh' = [bh EXCEPT ![b] = [bh[b] EXCEPT !.dirty = FALSE]] /\ now[b] = Free
    BY <1>2, HandleFor DEF journal_dirty_data, test_allocatable
  <2>2. PICK y : y = [bh[b] EXCEPT !.dirty = FALSE]
    OBVIOUS
  <2>3. Buffer(bh[b]) /\ bh[b].next = 0 /\ bh[b].handle = "none"
    BY <2>1, HandleFor DEF Fits, Filed, Use, Free
  <2>4. Marked(bh[b], y) /\ y.next = 0 /\ y.handle = "none"
    BY <2>2, <2>3, Marks DEF Marked
  <2>5. Fits(y, running, committing, phase, transaction_sequence, now[b])
    BY <2>4, HandleFor, MarkedFits, Zenon
  <2>6. Fits(y, running, committing, phase, transaction_sequence, <<"data", running>>)
    BY <2>4, <2>5, ViewFits, Zenon
  <2> QED
    BY <2>1, <2>2, <2>6, HandleFor, HandleFits, Zenon
<1>3. CASE free_data(b)
  <2>1. /\ handle_for(b) /\ now' = [now EXCEPT ![b] = Free] /\ Use(now[b]) = "data"
        /\ bh' = [bh EXCEPT ![b] = journal_forget(bh[b], running)]
    BY <1>3 DEF free_data, ext3_free_blocks
  <2>2. bh[b].next = 0
    BY <2>1, HandleFor DEF Fits, Filed
  <2>3. Fits(journal_forget(bh[b], running), running, committing, phase,
             transaction_sequence, Free)
    BY <2>1, <2>2, HandleFor, ForgetFits, Zenon
  <2> QED
    BY <2>1, <2>3, HandleFor, HandleFits, Zenon
<1> QED
  BY <1>1, <1>2, <1>3

-----------------------------------------------------------------------------
(* Steps that leave the transactions alone.                                *)

(* Blocks on their way home.                                               *)
HomeStep ==
  \/ \E b \in Blocks : \/ write_data(b) \/ write_buffer(b) \/ end_buffer_write(b)
                       \/ flush_batch(b) \/ wait_cp_io(b) \/ remove_checkpoint(b)
                       \/ submit_data(b)
  \/ \E s \in SUBSET Blocks : process_buffers(s)

(* Blocks on their way to the log.                                         *)
LogStep ==
  \/ \E b \in Blocks : journal_write_metadata_buffer(b)
  \/ journal_write_revoke_records \/ file_shadow \/ start_journal_io
  \/ journal_write_commit_record
  \/ \E e \in io : log_written(e)

(* They only mark buffers.                                                 *)
MarkedAll ==
  /\ bh' = [b \in Blocks |-> bh'[b]]
  /\ \A b \in Blocks : Marked(bh[b], bh'[b])

(* One buffer is marked, or none.                                          *)
LEMMA MarkedOne ==
  ASSUME bh = [a \in Blocks |-> bh[a]], \A a \in Blocks : Buffer(bh[a]), NEW b, NEW y,
         bh' = bh \/ bh' = [bh EXCEPT ![b] = y], b \in Blocks => Marked(bh[b], y)
  PROVE  MarkedAll
<1>1. \A a \in Blocks : Marked(bh[a], bh[a])
  BY Marks, Zenon
<1>2. CASE bh' = bh
  BY <1>1, <1>2 DEF MarkedAll
<1>3. CASE bh' = [bh EXCEPT ![b] = y]
  BY <1>1, <1>3 DEF MarkedAll
<1> QED
  BY <1>2, <1>3

(* On their way home.                                                      *)
LEMMA HomeMarks == ASSUME JInv, HomeStep PROVE MarkedAll
<1>1. bh = [a \in Blocks |-> bh[a]] /\ \A a \in Blocks : Buffer(bh[a])
  BY DEF JInv, AllFit, Fits
<1>2. ASSUME NEW b \in Blocks, write_data(b) \/ submit_data(b) PROVE MarkedAll
  <2>1. bh' = bh /\ Marked(bh[b], bh[b])
    BY <1>1, <1>2, Marks DEF write_data, submit_data
  <2> QED
    BY <1>1, <2>1, MarkedOne, Zenon
<1>3. ASSUME NEW b \in Blocks, write_buffer(b) PROVE MarkedAll
  <2>1. bh' = [bh EXCEPT ![b] = submitted(bh[b])] /\ may_submit(bh[b])
    BY <1>3 DEF write_buffer
  <2>2. Marked(bh[b], submitted(bh[b]))
    BY <1>1, <2>1, Marks
  <2> QED
    BY <1>1, <2>1, <2>2, MarkedOne, Zenon
<1>4. ASSUME NEW b \in Blocks, end_buffer_write(b) PROVE MarkedAll
  <2>1. bh' = [bh EXCEPT ![b] = [bh[b] EXCEPT !.writing = FALSE]]
    BY <1>1, <1>4 DEF end_buffer_write
  <2>2. Marked(bh[b], [bh[b] EXCEPT !.writing = FALSE])
    BY <1>1, Marks, Zenon
  <2> QED
    BY <1>1, <2>1, <2>2, MarkedOne, Zenon
<1>5. ASSUME NEW b \in Blocks, flush_batch(b) PROVE MarkedAll
  <2>1. /\ bh' = [bh EXCEPT ![b] = [submitted(bh[b]) EXCEPT !.jwrite = FALSE]]
        /\ may_submit(bh[b])
    BY <1>5 DEF flush_batch
  <2>2. Marked(bh[b], [submitted(bh[b]) EXCEPT !.jwrite = FALSE])
    BY <1>1, <2>1, Marks, Zenon
  <2> QED
    BY <1>1, <2>1, <2>2, MarkedOne, Zenon
<1>6. ASSUME NEW b \in Blocks, wait_cp_io(b) \/ remove_checkpoint(b) PROVE MarkedAll
  <2>1. bh' = [bh EXCEPT ![b] = [bh[b] EXCEPT !.cp = 0, !.cpio = FALSE]]
    BY <1>1, <1>6 DEF wait_cp_io, remove_checkpoint, remove_from_checkpoint
  <2>2. Marked(bh[b], [bh[b] EXCEPT !.cp = 0, !.cpio = FALSE])
    BY <1>1, Marks, Zenon
  <2> QED
    BY <1>1, <2>1, <2>2, MarkedOne, Zenon
<1>7. ASSUME NEW s \in SUBSET Blocks, process_buffers(s) PROVE MarkedAll
  <2>1. bh' = [b \in Blocks |->
                 IF b \in s THEN [bh[b] EXCEPT !.cpio = TRUE, !.jwrite = TRUE] ELSE bh[b]]
    BY <1>7 DEF process_buffers
  <2>2. ASSUME NEW b \in Blocks
        PROVE  Marked(bh[b], bh[b])
               /\ Marked(bh[b], [bh[b] EXCEPT !.cpio = TRUE, !.jwrite = TRUE])
    BY <1>1, Marks, Zenon
  <2> QED
    BY <2>1, <2>2 DEF MarkedAll
<1> QED
  BY <1>2, <1>3, <1>4, <1>5, <1>6, <1>7, Zenon DEF HomeStep

(* On their way to the log.                                                *)
LEMMA LogMarks == ASSUME JInv, LogStep PROVE MarkedAll
<1>1. bh = [a \in Blocks |-> bh[a]] /\ \A a \in Blocks : Buffer(bh[a])
  BY DEF JInv, AllFit, Fits
<1>2. CASE file_shadow
  <2>1. PICK b : b = Last(wbuf).of
    OBVIOUS
  <2>2. bh' = [bh EXCEPT ![b] = [bh[b] EXCEPT !.jlist = "Shadow"]]
    BY <1>1, <1>2, <2>1 DEF file_shadow
  <2>3. b \in Blocks => Marked(bh[b], [bh[b] EXCEPT !.jlist = "Shadow"])
    BY <1>1, Marks, Zenon
  <2> QED
    BY <1>1, <2>2, <2>3, MarkedOne, Zenon
<1>3. ASSUME NEW e \in io, log_written(e) PROVE MarkedAll
  <2>1. PICK b : b = e[2].of
    OBVIOUS
  <2>2. bh' = bh \/ bh' = [bh EXCEPT ![b] = [bh[b] EXCEPT !.jlist = "Forget"]]
    BY <1>1, <1>3, <2>1 DEF log_written
  <2>3. b \in Blocks => Marked(bh[b], [bh[b] EXCEPT !.jlist = "Forget"])
    BY <1>1, Marks, Zenon
  <2> QED
    BY <1>1, <2>2, <2>3, MarkedOne, Zenon
<1>4. CASE ~file_shadow /\ ~\E e \in io : log_written(e)
  <2>1. bh' = bh
    BY <1>4 DEF LogStep, journal_write_metadata_buffer, journal_write_revoke_records,
                start_journal_io, journal_write_commit_record
  <2>2. \A a \in Blocks : Marked(bh[a], bh[a])
    BY <1>1, Marks, Zenon
  <2> QED
    BY <1>1, <2>1, <2>2 DEF MarkedAll
<1> QED
  BY <1>2, <1>3, <1>4

(* And the transactions are the same, but for the phase of the commit.     *)
LEMMA QuietSteps ==
  ASSUME HomeStep \/ LogStep
  PROVE  /\ UNCHANGED <<running, committing, handles, transaction_sequence, log_start, mode,
                        tail, tail_sequence, sb, now>>
         /\ \/ phase' = phase
            \/ phase = "data" /\ phase' = "metadata"
            \/ phase = "metadata" /\ phase' = "log"
            \/ phase = "log" /\ phase' = "forget"
<1>1. CASE HomeStep
  BY <1>1 DEF HomeStep, write_data, write_buffer, end_buffer_write, flush_batch, wait_cp_io,
              remove_checkpoint, remove_from_checkpoint, submit_data, process_buffers,
              buffers_unchanged, disk, space, trans, views
<1>2. CASE \E b \in Blocks : journal_write_metadata_buffer(b)
  BY <1>2 DEF journal_write_metadata_buffer, log_blocks_used, disk, trans, views
<1>3. CASE journal_write_revoke_records
  BY <1>3 DEF journal_write_revoke_records, log_blocks_used, disk, space, views
<1>4. CASE file_shadow \/ start_journal_io
  BY <1>4 DEF file_shadow, start_journal_io, buffers_unchanged, disk, space, trans, views
<1>5. CASE journal_write_commit_record
  BY <1>5 DEF journal_write_commit_record, log_blocks_used
<1>6. CASE \E e \in io : log_written(e)
  BY <1>6 DEF log_written, space, trans, views
<1> QED
  BY <1>1, <1>2, <1>3, <1>4, <1>5, <1>6 DEF LogStep

(* So the invariant stands.                                                *)
LEMMA JQuiet == ASSUME JInv, HomeStep \/ LogStep PROVE JInv'
<1>1. /\ Ordered(running, committing, phase, transaction_sequence)
      /\ AllFit(bh, now, running, committing, phase, transaction_sequence)
      /\ tail_sequence \in Nat /\ sb.seq \in Nat
      /\ handles \in Nat /\ (handles # 0 => running # 0)
      /\ (mode # "up" => running = 0 /\ committing = 0)
  BY DEF JInv
<1>2. MarkedAll
  BY HomeMarks, LogMarks
<1>3. ASSUME NEW b \in Blocks
      PROVE  Fits(bh'[b], running, committing, phase', transaction_sequence, now[b])
  <2>1. Fits(bh[b], running, committing, phase, transaction_sequence, now[b])
    BY <1>1 DEF AllFit
  <2>2. Fits(bh[b], running, committing, phase', transaction_sequence, now[b])
    BY <2>1, QuietSteps, PhaseFits
  <2>3. Marked(bh[b], bh'[b])
    BY <1>2 DEF MarkedAll
  <2> QED
    BY <2>2, <2>3, MarkedFits, Zenon
<1>4. AllFit(bh', now, running, committing, phase', transaction_sequence)
  BY <1>1, <1>2, <1>3 DEF AllFit, MarkedAll
<1>5. Ordered(running, committing, phase', transaction_sequence)
  BY <1>1, QuietSteps DEF Ordered
<1> QED
  BY <1>1, <1>4, <1>5, QuietSteps DEF JInv

(* journal_update_superblock writes a transaction number.                  *)
LEMMA SuperblockNumber ==
  ASSUME NEW start, NEW seq \in Nat, NEW next_seq, sb.seq \in Nat,
         update_superblock(start, seq, next_seq)
  PROVE  sb'.seq \in Nat
BY DEF update_superblock

(* And the oldest transaction of the log has one.                          *)
LEMMA OldestNumber == JInv => oldest.seq \in Nat
<1> SUFFICES ASSUME JInv PROVE oldest.seq \in Nat
  OBVIOUS
<1> DEFINE cps == {bh[b].cp : b \in Blocks} \ {0}
           t == IF cps # {} THEN Min(cps) ELSE committing
<1>1. cps \in SUBSET Nat /\ committing \in Nat /\ Tid \in Nat
  BY DEF JInv, AllFit, Fits, Filed, Ordered, Tid
<1>2. cps # {} => Min(cps) \in Nat
  <2> HIDE DEF cps
  <2> QED
    BY <1>1, LeastNumber DEF Min
<1>3. t \in Nat
  BY <1>1, <1>2
<1>4. oldest = IF t # 0 THEN [seq |-> t, start |-> log_start[t]]
               ELSE [seq |-> Tid, start |-> head]
  BY DEF oldest
<1> HIDE DEF t
<1> QED
  BY <1>1, <1>3, <1>4

(* The log's tail moves: no transaction and no buffer changes.             *)
LEMMA JTail ==
  ASSUME JInv, cleanup_journal_tail \/ tail_written \/ journal_flush
  PROVE  JInv'
<1>1. /\ Ordered(running, committing, phase, transaction_sequence)
      /\ AllFit(bh, now, running, committing, phase, transaction_sequence)
      /\ tail_sequence \in Nat /\ sb.seq \in Nat
      /\ handles \in Nat /\ (handles # 0 => running # 0)
      /\ (mode # "up" => running = 0 /\ committing = 0)
  BY DEF JInv
<1>2. /\ running' = running /\ committing' = committing /\ phase' = phase
      /\ transaction_sequence' = transaction_sequence /\ now' = now /\ mode' = mode
      /\ bh' = bh /\ handles' = handles
  BY DEF cleanup_journal_tail, tail_written, journal_flush, trans, views
<1>3. tail_sequence' \in {tail_sequence, oldest.seq}
  BY DEF cleanup_journal_tail, tail_written, journal_flush, tail_moved
<1>4. tail_sequence' \in Nat
  BY <1>1, <1>3, OldestNumber
<1>5. sb'.seq \in Nat
  <2>1. CASE cleanup_journal_tail
    BY <1>1, <2>1 DEF cleanup_journal_tail, disk
  <2>2. CASE tail_written
    <3>1. update_superblock(tail, tail_sequence, transaction_sequence)
      BY <2>2 DEF tail_written
    <3> QED
      BY <1>1, <3>1, SuperblockNumber
  <2>3. CASE journal_flush
    <3>1. update_superblock(0, tail_sequence', transaction_sequence)
      BY <2>3 DEF journal_flush
    <3> QED
      BY <1>1, <1>4, <3>1 DEF update_superblock
  <2> QED
    BY <2>1, <2>2, <2>3
<1> QED
  BY <1>1, <1>2, <1>4, <1>5 DEF JInv

-----------------------------------------------------------------------------
(* The commit.                                                             *)

(* The running transaction becomes the committing one.                     *)
LEMMA JCommitStart ==
  ASSUME JInv, NEW s \in SUBSET Blocks, commit_start(s)
  PROVE  JInv'
<1> DEFINE discarded(x) == IF x.trans = running /\ x.jlist = "Reserved" THEN refiled(x)
                                                                       ELSE x
           cleaned(x) == [x EXCEPT !.cp = 0, !.cpio = FALSE]
<1>1. /\ Ordered(running, 0, phase, transaction_sequence) /\ running # 0
      /\ AllFit(bh, now, running, 0, phase, transaction_sequence)
      /\ tail_sequence \in Nat /\ sb.seq \in Nat
      /\ \A b \in Blocks : bh[b].handle = "none"
  BY DEF JInv, commit_start
<1>2. /\ running' = 0 /\ committing' = running /\ phase' = "data"
      /\ transaction_sequence' = transaction_sequence /\ now' = now /\ mode' = "up"
      /\ tail_sequence' = tail_sequence /\ handles' = 0
      /\ bh' = [b \in Blocks |-> IF b \in s THEN cleaned(discarded(bh[b]))
                                             ELSE discarded(bh[b])]
  BY DEF commit_start
<1>3. sb'.seq \in Nat
  <2>1. CASE flushed
    <3>1. update_superblock(tail, tail_sequence, transaction_sequence)
      BY <2>1 DEF commit_start
    <3> QED
      BY <1>1, <3>1, SuperblockNumber
  <2>2. CASE ~flushed
    BY <1>1, <2>2 DEF commit_start
  <2> QED
    BY <2>1, <2>2
<1>4. ASSUME NEW b \in Blocks
      PROVE  Fits(bh'[b], 0, running, "data", transaction_sequence, now[b])
  <2>1. PICK x, y : x = bh[b] /\ y = discarded(x)
    OBVIOUS
  <2>2. Fits(x, running, 0, phase, transaction_sequence, now[b]) /\ x.handle = "none"
    BY <1>1, <2>1 DEF AllFit
  <2>3. Fits(y, running, 0, phase, transaction_sequence, now[b]) /\ y.handle = "none"
    <3>1. CASE x.trans = running /\ x.jlist = "Reserved"
      <4>1. y = refiled(x) /\ Fits(y, running, 0, phase, transaction_sequence, now[b])
        BY <1>1, <2>1, <2>2, <3>1, DiscardedFits, Zenon
      <4>2. refiled(x).handle = "none"
        BY <2>2 DEF refiled, Fits, Buffer
      <4> QED
        BY <4>1, <4>2
    <3>2. CASE ~(x.trans = running /\ x.jlist = "Reserved")
      BY <2>1, <2>2, <3>2
    <3> QED
      BY <3>1, <3>2
  <2>4. Fits(y, 0, running, "data", transaction_sequence, now[b])
    BY <1>1, <2>3, CommitFits, Zenon
  <2>5. Fits(cleaned(y), 0, running, "data", transaction_sequence, now[b])
    <3>1. Buffer(y)
      BY <2>4 DEF Fits
    <3>2. Marked(y, cleaned(y))
      BY <3>1, Marks, Zenon
    <3> HIDE DEF cleaned
    <3> QED
      BY <2>4, <3>2, MarkedFits, Zenon
  <2>6. bh'[b] \in {y, cleaned(y)}
    BY <1>2, <2>1
  <2> HIDE DEF cleaned, discarded
  <2> QED
    BY <2>4, <2>5, <2>6
<1>5. AllFit(bh', now, 0, running, "data", transaction_sequence)
  <2>1. bh' = [b \in Blocks |-> bh'[b]]
    BY <1>2
  <2> QED
    BY <1>1, <1>4, <2>1 DEF AllFit
<1>6. Ordered(0, running, "data", transaction_sequence)
  BY <1>1 DEF Ordered
<1> QED
  BY <1>1, <1>2, <1>3, <1>5, <1>6 DEF JInv

(* Phase 7 of a commit, buffer by buffer.                                  *)
LEMMA JForget ==
  ASSUME JInv, NEW b \in Blocks, commit_forget(b)
  PROVE  JInv'
<1> DEFINE k == IF bh[b].jbddirty THEN committing ELSE 0
           y == refiled([bh[b] EXCEPT !.frozen = Free, !.cp = k, !.cpio = FALSE])
<1>1. /\ Ordered(running, committing, "forget", transaction_sequence)
      /\ AllFit(bh, now, running, committing, "forget", transaction_sequence)
      /\ handles \in Nat
  BY DEF JInv, commit_forget
<1>2. now' = now /\ phase = "forget" /\ HandleLeaves
  BY <1>1 DEF commit_forget, buffers_unchanged, HandleLeaves, disk, space, trans, views
<1>3. bh' = [bh EXCEPT ![b] = y] /\ bh[b].trans = committing /\ bh[b].handle # "entry"
  BY DEF commit_forget, bh_state_free
<1>4. Fits(bh[b], running, committing, "forget", transaction_sequence, now[b])
  BY <1>1 DEF AllFit
<1>5. k \in Nat
  BY <1>1 DEF Ordered
<1> HIDE DEF k
<1>6. Fits(y, running, committing, "forget", transaction_sequence, now[b])
  BY <1>1, <1>3, <1>4, <1>5, RefiledFits, Zenon
<1> HIDE DEF y
<1> QED
  BY <1>2, <1>3, <1>6, AccessFits, Zenon

(* The end of a commit.                                                    *)
LEMMA JDone == ASSUME JInv, commit_done PROVE JInv'
<1>1. /\ Ordered(running, committing, phase, transaction_sequence)
      /\ AllFit(bh, now, running, committing, phase, transaction_sequence)
      /\ tail_sequence \in Nat /\ sb.seq \in Nat
      /\ handles \in Nat /\ (handles # 0 => running # 0)
  BY DEF JInv
<1>2. /\ running' = running /\ committing' = 0 /\ phase' = "none"
      /\ transaction_sequence' = transaction_sequence /\ now' = now /\ mode' = "up"
      /\ tail_sequence' = tail_sequence /\ sb' = sb /\ bh' = bh
      /\ handles' = handles
      /\ \A b \in Blocks : bh[b].trans # committing
  BY DEF commit_done, disk, space, views
<1>3. ASSUME NEW b \in Blocks
      PROVE  Fits(bh[b], running, 0, "none", transaction_sequence, now[b])
  <2>1. Fits(bh[b], running, committing, phase, transaction_sequence, now[b])
    BY <1>1 DEF AllFit
  <2> QED
    BY <1>1, <1>2, <2>1, DoneFits, Zenon
<1>4. AllFit(bh, now, running, 0, "none", transaction_sequence)
  BY <1>1, <1>3 DEF AllFit
<1>5. Ordered(running, 0, "none", transaction_sequence)
  BY <1>1 DEF Ordered
<1> QED
  BY <1>1, <1>2, <1>4, <1>5 DEF JInv

-----------------------------------------------------------------------------
(* The crash and recovery.                                                 *)

(* What the file system says is in each block, whichever transaction asks. *)
Views == /\ now = [b \in Blocks |-> now[b]] /\ com = [b \in Blocks |-> com[b]]
         /\ done = [b \in Blocks |-> done[b]]

(* The steps of the journal in use.                                        *)
UpStep ==
  \/ start_this_handle \/ journal_stop
  \/ \E b \in Blocks :
       \/ lock_for_write_access(b) \/ do_get_write_access(b) \/ journal_get_create_access(b)
       \/ journal_dirty_metadata(b) \/ journal_release_buffer(b)
       \/ journal_revoke(b) \/ journal_dirty_data(b) \/ free_data(b) \/ commit_forget(b)
  \/ \E s \in SUBSET Blocks : commit_start(s)
  \/ HomeStep \/ LogStep
  \/ cleanup_journal_tail \/ tail_written \/ journal_flush \/ commit_done

(* The others are those of a crash and of recovery.                        *)
RecoverStep ==
  journal_recover \/ journal_reset \/ \E s \in SUBSET Blocks : recover_crash(s)

(* There are no other steps.                                               *)
LEMMA Steps == Next => UpStep \/ Crash \/ RecoverStep
BY Zenon DEF Next, UpStep, HomeStep, LogStep, RecoverStep

(* They are taken when the journal is up.                                  *)
LEMMA UpSteps == UpStep => mode = "up"
<1>1. HomeStep => mode = "up"
  BY DEF HomeStep, write_data, write_buffer, end_buffer_write, flush_batch, wait_cp_io,
         remove_checkpoint, submit_data, process_buffers
<1>2. LogStep => mode = "up"
  BY DEF LogStep, journal_write_metadata_buffer, journal_write_revoke_records, file_shadow,
         start_journal_io, journal_write_commit_record, log_written
<1> QED
  BY <1>1, <1>2 DEF UpStep, start_this_handle, journal_stop, handle_for,
     lock_for_write_access, do_get_write_access, journal_get_create_access,
     journal_dirty_metadata, journal_release_buffer, journal_revoke, journal_dirty_data,
     free_data, commit_forget, commit_start, cleanup_journal_tail, tail_written,
     journal_flush, commit_done

(* No step changes which blocks there are.                                 *)
LEMMA ViewsNext == ASSUME Views, Next PROVE Views'
<1>1. CASE \E b \in Blocks : \/ journal_dirty_metadata(b) \/ journal_revoke(b)
                             \/ journal_dirty_data(b) \/ free_data(b)
  <2>1. PICK b, v : b \in Blocks /\ now' = [now EXCEPT ![b] = v]
    BY <1>1 DEF journal_dirty_metadata, journal_revoke, journal_dirty_data, free_data,
                ext3_free_blocks
  <2>2. com' = com /\ done' = done
    BY <1>1 DEF journal_dirty_metadata, journal_revoke, journal_dirty_data, free_data,
                handle_for
  <2> QED
    BY <2>1, <2>2 DEF Views
<1>2. CASE LogStep
  <2>1. now' = now /\ com' = com /\ done' \in {done, com}
    BY <1>2 DEF LogStep, journal_write_metadata_buffer, journal_write_revoke_records,
                file_shadow, start_journal_io, journal_write_commit_record, log_written,
                buffers_unchanged, views
  <2> QED
    BY <2>1 DEF Views
<1>3. CASE HomeStep
  BY <1>3 DEF HomeStep, write_data, write_buffer, end_buffer_write, flush_batch, wait_cp_io,
              remove_checkpoint, remove_from_checkpoint, submit_data, process_buffers,
              buffers_unchanged, views, Views
<1>4. CASE \E s \in SUBSET Blocks : commit_start(s)
  BY <1>4 DEF commit_start, Views
<1>5. CASE Crash \/ RecoverStep
  BY <1>5 DEF Crash, RecoverStep, journal_recover, journal_reset, recover_crash, views, Views
<1>6. CASE \E b \in Blocks :
             \/ lock_for_write_access(b) \/ do_get_write_access(b)
             \/ journal_get_create_access(b) \/ journal_release_buffer(b) \/ commit_forget(b)
  BY <1>6 DEF lock_for_write_access, do_get_write_access, journal_get_create_access,
              journal_release_buffer, commit_forget, handle_for, buffers_unchanged, views,
              Views
<1>7. CASE \/ start_this_handle \/ journal_stop \/ cleanup_journal_tail \/ tail_written
           \/ journal_flush \/ commit_done
  BY <1>7 DEF start_this_handle, journal_stop, cleanup_journal_tail, tail_written,
              journal_flush, commit_done, views, Views
<1> QED
  BY <1>1, <1>2, <1>3, <1>4, <1>5, <1>6, <1>7, Steps, Zenon DEF UpStep

(* A crash leaves no transaction and no buffer.                            *)
LEMMA JCrash == ASSUME JInv, Views, Crash PROVE JInv'
<1>1. /\ running' = 0 /\ committing' = 0 /\ phase' = "none" /\ transaction_sequence' = 1
      /\ tail_sequence' = 1 /\ sb' = sb /\ now' = done /\ handles' = 0
      /\ bh' = [b \in Blocks |-> NoBuffer]
  BY DEF Crash, disk
<1>2. \A b \in Blocks : Fits(bh'[b], 0, 0, "none", 1, now'[b])
  BY <1>1, FreshFits
<1>3. AllFit(bh', now', 0, 0, "none", 1)
  BY <1>1, <1>2 DEF AllFit, Views
<1>4. Ordered(0, 0, "none", 1)
  BY DEF Ordered
<1>5. sb.seq \in Nat
  BY DEF JInv
<1> QED
  BY <1>1, <1>3, <1>4, <1>5 DEF JInv

(* Recovery, to the end or not, starts again from the log.                 *)
LEMMA JRecover ==
  ASSUME JInv, RecoverStep
  PROVE  JInv'
<1>1. /\ running = 0 /\ committing = 0 /\ phase = "none"
      /\ transaction_sequence \in Nat \ {0} /\ tail_sequence \in Nat /\ sb.seq \in Nat
      /\ AllFit(bh, now, 0, 0, "none", transaction_sequence) /\ handles = 0
  BY DEF JInv, Ordered, RecoverStep, journal_recover, journal_reset, recover_crash
<1>2. /\ running' = 0 /\ committing' = 0 /\ phase' = "none" /\ now' = now
      /\ handles' = 0
  BY <1>1 DEF RecoverStep, journal_recover, journal_reset, recover_crash, trans, views
<1>3. CASE journal_recover
  <2>1. /\ transaction_sequence' = end_transaction + 1 /\ tail_sequence' = tail_sequence
        /\ sb' = sb /\ bh' = [b \in Blocks |-> [NoBuffer EXCEPT !.val = home'[b]]]
    BY <1>3 DEF journal_recover, space
  <2>2. transaction_sequence' \in Nat \ {0}
    BY <1>1, <2>1, EndTransaction
  <2>3. \A b \in Blocks : Fits(bh'[b], 0, 0, "none", transaction_sequence', now[b])
    BY <2>1, FreshFits
  <2>4. AllFit(bh', now, 0, 0, "none", transaction_sequence')
    BY <1>1, <2>1, <2>3 DEF AllFit
  <2>5. Ordered(0, 0, "none", transaction_sequence')
    <3>1. \A ts \in Nat \ {0} : Ordered(0, 0, "none", ts)
      BY DEF Ordered
    <3> QED
      BY <2>2, <3>1
  <2> QED
    BY <1>1, <1>2, <2>1, <2>4, <2>5 DEF JInv
<1>4. CASE ~journal_recover
  <2>1. /\ transaction_sequence' = transaction_sequence /\ bh' = bh
        /\ tail_sequence' \in {tail_sequence, transaction_sequence}
    BY <1>4 DEF RecoverStep, journal_reset, recover_crash, space, trans
  <2>2. sb'.seq \in Nat
    <3>1. CASE journal_reset
      <4>1. update_superblock(1, transaction_sequence, transaction_sequence)
        BY <3>1 DEF journal_reset
      <4> QED
        BY <1>1, <4>1, SuperblockNumber
    <3>2. CASE \E s \in SUBSET Blocks : recover_crash(s)
      BY <1>1, <3>2 DEF recover_crash
    <3> QED
      BY <1>4, <3>1, <3>2 DEF RecoverStep
  <2>3. Ordered(0, 0, "none", transaction_sequence)
    BY <1>1 DEF Ordered
  <2> QED
    BY <1>1, <1>2, <2>1, <2>2, <2>3 DEF JInv
<1> QED
  BY <1>3, <1>4

-----------------------------------------------------------------------------
(* JInv is inductive.                                                      *)
LEMMA JNext == ASSUME JInv, Views, Next PROVE JInv'
<1>1. CASE start_this_handle
  BY <1>1, JStart
<1>2. CASE journal_stop
  <2>1. /\ UNCHANGED <<running, committing, phase, transaction_sequence, mode,
                      tail_sequence, sb, bh, now>>
        /\ handles > 0 /\ handles' = handles - 1
    BY <1>2 DEF journal_stop, disk, space, views
  <2> QED
    BY <2>1 DEF JInv
<1>3. CASE \E b \in Blocks :
             \/ lock_for_write_access(b) \/ do_get_write_access(b)
             \/ journal_get_create_access(b) \/ journal_dirty_metadata(b)
             \/ journal_release_buffer(b)
  BY <1>3, JAccess, Zenon
<1>4. CASE \E b \in Blocks : journal_revoke(b) \/ journal_dirty_data(b) \/ free_data(b)
  BY <1>4, JBlocks, Zenon
<1>5. CASE HomeStep \/ LogStep
  BY <1>5, JQuiet
<1>6. CASE \E b \in Blocks : commit_forget(b)
  BY <1>6, JForget
<1>7. CASE cleanup_journal_tail \/ tail_written \/ journal_flush
  BY <1>7, JTail
<1>8. CASE \E s \in SUBSET Blocks : commit_start(s)
  BY <1>8, JCommitStart
<1>9. CASE commit_done
  BY <1>9, JDone
<1>10. CASE Crash \/ RecoverStep
  BY <1>10, JCrash, JRecover
<1> QED
  BY <1>1, <1>2, <1>3, <1>4, <1>5, <1>6, <1>7, <1>8, <1>9, <1>10, Steps, Zenon DEF UpStep

(* And so an invariant.                                                    *)
LEMMA JAlways == Spec => [](Views /\ JInv)
<1>1. Init => Views /\ JInv
  <2>1. Init => Views
    BY DEF Init, Views
  <2> QED
    BY <2>1, JInit
<1>2. Views /\ JInv /\ [Next]_vars => (Views /\ JInv)'
  <2>1. ASSUME Views, JInv, UNCHANGED vars PROVE (Views /\ JInv)'
    BY <2>1 DEF vars, disk, space, trans, views, Views, JInv, AllFit
  <2> QED
    BY <2>1, ViewsNext, JNext
<1> QED
  BY <1>1, <1>2, PTL DEF Spec

(* If no write home starts between unlock_buffer and the end of            *)
(* do_get_write_access, and no block is freed by the transaction that      *)
(* modified it while the one before is committing it, then no buffer that  *)
(* may be written home, or is being written, holds the contents of a       *)
(* transaction whose commit record is not on the disk: whatever the        *)
(* handles, the commit, writeback, the checkpoints and crashes do, and     *)
(* though the other three windows are open.                                *)
THEOREM JournalWriteAhead ==
  ASSUME "forget" \notin Windows, "writeback" \notin Windows
  PROVE  Spec => []WriteAhead
<1>1. JInv => WriteAhead
  BY WriteAheadFollows DEF Closed
<1> QED
  BY <1>1, JAlways, PTL

-----------------------------------------------------------------------------
(* What recovery makes of the disk does not change while the journal is    *)
(* down: not by a recovery that another crash cuts short, whichever blocks *)
(* it has written, nor by one that ends.                                   *)
RecoveryRepeats == [][mode = "down" => replayed' = replayed]_vars

(* What it makes of a file system h: the blocks with no image stay.        *)
LEMMA ReplayedBlocks ==
  ASSUME NEW h, sb' = sb, log' = log, home' = h
  PROVE  \E S, V : /\ replayed = [b \in Blocks |-> IF b \in S THEN V[b] ELSE home[b]]
                  /\ replayed' = [b \in Blocks |-> IF b \in S THEN V[b] ELSE h[b]]
<1> DEFINE s == scan[L]
           seen == s.seen
           rec(i) == log[seen[i]]
           revoked(b, t) == \E i \in 1 .. Len(seen) :
                              /\ rec(i).k = "revoke" /\ in_pass(rec(i), s.tid)
                              /\ b \in rec(i).blocks /\ test_revoke(rec(i).tid, t)
           images(b) == {i \in 1 .. Len(seen) :
                           /\ rec(i).k = "desc" /\ in_pass(rec(i), s.tid)
                           /\ b \in Range(rec(i).tags) /\ ~revoked(b, rec(i).tid)}
           offset(i, b) == CHOOSE j \in 1 .. Len(rec(i).tags) : rec(i).tags[j] = b
           image(b) == LET i == Max(images(b))
                       IN  log[Wrap(seen[i] + offset(i, b))].val
<1>1. replayed = [b \in Blocks |-> IF images(b) = {} THEN home[b] ELSE image(b)]
  BY DEF replayed
<1>2. replayed' = [b \in Blocks |-> IF images(b) = {} THEN h[b] ELSE image(b)]
  BY DEF replayed, scan, Wrap
<1> DEFINE S == {b \in Blocks : images(b) # {}}
           V == [b \in Blocks |-> image(b)]
<1> HIDE DEF images, image
<1>3. /\ replayed = [b \in Blocks |-> IF b \in S THEN V[b] ELSE home[b]]
      /\ replayed' = [b \in Blocks |-> IF b \in S THEN V[b] ELSE h[b]]
  BY <1>1, <1>2
<1> HIDE DEF S, V
<1> QED
  BY <1>3, Zenon

(* A recovery writes a block as the next one will.                         *)
LEMMA ReplayedAgain ==
  ASSUME NEW s, sb' = sb, log' = log,
         home' = [b \in Blocks |-> IF b \in s THEN replayed[b] ELSE home[b]]
  PROVE  replayed' = replayed
<1>1. PICK h : h = home'
  OBVIOUS
<1>2. PICK S, V : /\ replayed = [b \in Blocks |-> IF b \in S THEN V[b] ELSE home[b]]
                  /\ replayed' = [b \in Blocks |-> IF b \in S THEN V[b] ELSE h[b]]
  BY <1>1, ReplayedBlocks
<1>3. \A b \in Blocks : h[b] = IF b \in s THEN replayed[b] ELSE home[b]
  BY <1>1
<1> QED
  BY <1>2, <1>3

(* So a crash during journal_recover costs nothing: the next one ends with *)
(* the same file system, whatever is in the log.                           *)
THEOREM JournalRecoveryRepeats == Spec => RecoveryRepeats
<1>1. ASSUME Next, mode = "down" PROVE replayed' = replayed
  <2>1. CASE journal_recover
    <3>1. sb' = sb /\ log' = log /\ home' = replayed
      BY <2>1 DEF journal_recover
    <3>2. replayed = [b \in Blocks |-> replayed[b]]
      <4>1. PICK h : h = home'
        OBVIOUS
      <4>2. PICK S, V : replayed = [b \in Blocks |-> IF b \in S THEN V[b] ELSE home[b]]
        BY <3>1, <4>1, ReplayedBlocks
      <4> QED
        BY <4>2
    <3>3. home' = [b \in Blocks |-> IF b \in Blocks THEN replayed[b] ELSE home[b]]
      BY <3>1, <3>2
    <3> QED
      BY <3>1, <3>3, ReplayedAgain, Zenon
  <2>2. CASE \E s \in SUBSET Blocks : recover_crash(s)
    <3>1. PICK s \in SUBSET Blocks : recover_crash(s)
      BY <2>2
    <3>2. sb' = sb /\ log' = log
          /\ home' = [b \in Blocks |-> IF b \in s THEN replayed[b] ELSE home[b]]
      BY <3>1 DEF recover_crash
    <3> QED
      BY <3>2, ReplayedAgain, Zenon
  <2>3. journal_recover \/ \E s \in SUBSET Blocks : recover_crash(s)
    BY <1>1, Steps, UpSteps DEF Crash, RecoverStep, journal_reset
  <2> QED
    BY <2>1, <2>2, <2>3
<1> QED
  BY <1>1, PTL DEF Spec, RecoveryRepeats

-----------------------------------------------------------------------------
(* The space in the log.                                                   *)

(* Transaction t has yet to write the buffer x to the log.                 *)
ToWrite(x, t) == \/ x.trans = t /\ x.jlist = "Metadata"
                 \/ x.next = t /\ x.modified

(* The buffers it has yet to write, without those of W.                    *)
Todo(B, W, t) == {b \in Blocks \ W : ToWrite(B[b], t)}

(* The blocks on their way to the log, which have their space.             *)
Chosen(w) == {w[i].of : i \in 1 .. Len(w)}

(* The blocks a handle is at.                                              *)
InHandle(B) == {b \in Blocks : B[b].handle # "none"}

(* What the running transaction r has to write or may have, with h handles *)
(* that are at no block yet.                                               *)
Load(B, r, h) == Cardinality(Todo(B, {}, r)) + h + Cardinality(InHandle(B))

(* The blocks the commit under way may still take: its buffers, with a     *)
(* revoke block, a descriptor and a commit record.                         *)
CommitNeeds(B, w, c, ph) ==
  CASE ph = "data"     -> Cardinality(Todo(B, {}, c)) + 3
    [] ph = "metadata" -> Cardinality(Todo(B, Chosen(w), c)) + IF w = <<>> THEN 2 ELSE 1
    [] ph = "log"      -> 1
    [] OTHER           -> 0

(* The same for the running transaction.                                   *)
RunningNeeds(B, r, h) == IF r = 0 THEN 0 ELSE Load(B, r, h) + 3

(* "J_ASSERT(journal->j_free > 1)" in journal_next_log_block: there is     *)
(* always room for all of it, with a block to spare.                       *)
LogHasRoom ==
  free >= 1 + CommitNeeds(bh, wbuf, committing, phase) + RunningNeeds(bh, running, handles)

(* Block numbers, and transactions that have a place in t_log_start.       *)
Placed ==
  /\ free \in Int /\ head \in Int /\ tail \in Int
  /\ log_start = [t \in 1 .. MaxTid |-> log_start[t]]
  /\ \A t \in 1 .. MaxTid : log_start[t] \in Int
  /\ running \in 0 .. MaxTid /\ committing \in 0 .. MaxTid
  /\ \A b \in Blocks : bh[b].cp \in 0 .. MaxTid

(* The commit has chosen buffers of its own.                               *)
ChosenInv ==
  /\ wbuf \in Seq([of : Blocks, own : BOOLEAN])
  /\ wbuf # <<>> => phase = "metadata"
  /\ \A b \in Chosen(wbuf) : bh[b].trans = committing

(* The blocks of a longer choice.                                          *)
LEMMA ChosenBlocks ==
  ASSUME NEW w \in Seq([of : Blocks, own : BOOLEAN])
  PROVE  /\ Chosen(w) \subseteq Blocks /\ (w = <<>> => Chosen(w) = {})
         /\ \A e \in [of : Blocks, own : BOOLEAN] :
              Append(w, e) # <<>> /\ Chosen(Append(w, e)) = Chosen(w) \cup {e.of}
<1>1. Len(w) \in Nat /\ \A i \in 1 .. Len(w) : w[i] \in [of : Blocks, own : BOOLEAN]
  BY LenProperties, ElementOfSeq
<1>2. Chosen(w) \subseteq Blocks
  BY <1>1 DEF Chosen
<1>3. w = <<>> => Chosen(w) = {}
  BY DEF Chosen
<1>4. ASSUME NEW e \in [of : Blocks, own : BOOLEAN]
      PROVE  Append(w, e) # <<>> /\ Chosen(Append(w, e)) = Chosen(w) \cup {e.of}
  <2>1. PICK u : u = Append(w, e)
    OBVIOUS
  <2>2. /\ Len(u) = Len(w) + 1 /\ u[Len(w) + 1] = e /\ u # <<>>
        /\ \A i \in 1 .. Len(w) : u[i] = w[i]
    BY <2>1, AppendProperties
  <2>3. 1 .. Len(u) = (1 .. Len(w)) \cup {Len(w) + 1}
    BY <1>1, <2>2
  <2>4. Chosen(u) = Chosen(w) \cup {e.of}
    BY <2>2, <2>3 DEF Chosen
  <2> QED
    BY <2>1, <2>2, <2>4
<1> QED
  BY <1>2, <1>3, <1>4

(* Numbers of blocks.                                                      *)
LEMMA Count ==
  ASSUME NEW S \in SUBSET Blocks, NEW T \in SUBSET Blocks
  PROVE  /\ Cardinality(S) \in Nat /\ Cardinality(T) \in Nat
         /\ S \subseteq T => Cardinality(S) <= Cardinality(T)
         /\ \A b : S \subseteq T \cup {b} => Cardinality(S) <= Cardinality(T) + 1
         /\ \A b \in T : S \subseteq T \ {b} => Cardinality(S) + 1 <= Cardinality(T)
<1>1. IsFiniteSet(S) /\ IsFiniteSet(T)
  BY JournalAssumption, FS_Subset
<1>2. Cardinality(S) \in Nat /\ Cardinality(T) \in Nat
  BY <1>1, FS_CardinalityType
<1>3. ASSUME S \subseteq T PROVE Cardinality(S) <= Cardinality(T)
  BY <1>1, <1>3, FS_Subset
<1>4. ASSUME NEW b, S \subseteq T \cup {b} PROVE Cardinality(S) <= Cardinality(T) + 1
  <2>1. /\ IsFiniteSet(T \cup {b})
        /\ Cardinality(T \cup {b}) \in {Cardinality(T), Cardinality(T) + 1}
    BY <1>1, FS_AddElement
  <2>2. Cardinality(S) <= Cardinality(T \cup {b})
    BY <1>4, <2>1, FS_Subset
  <2> QED
    BY <1>2, <2>1, <2>2
<1>5. ASSUME NEW b \in T, S \subseteq T \ {b} PROVE Cardinality(S) + 1 <= Cardinality(T)
  <2>1. IsFiniteSet(T \ {b}) /\ Cardinality(T \ {b}) = Cardinality(T) - 1
    BY <1>1, <1>5, FS_RemoveElement
  <2>2. Cardinality(S) <= Cardinality(T \ {b})
    BY <1>5, <2>1, FS_Subset
  <2> QED
    BY <1>2, <2>1, <2>2
<1> QED
  BY <1>2, <1>3, <1>4, <1>5

(* The numbers of buffers to write.                                        *)
LEMMA TodoLess ==
  ASSUME NEW B, NEW W, NEW t, NEW C, NEW V, NEW u
  PROVE  /\ Cardinality(Todo(B, W, t)) \in Nat /\ Cardinality(Todo(C, V, u)) \in Nat
         /\ Todo(C, V, u) \subseteq Todo(B, W, t) =>
              Cardinality(Todo(C, V, u)) <= Cardinality(Todo(B, W, t))
<1>1. Todo(B, W, t) \in SUBSET Blocks /\ Todo(C, V, u) \in SUBSET Blocks
  BY DEF Todo
<1> QED
  BY <1>1, Count

(* A handle that ends takes its credit along; one that turns to a block,   *)
(* or leaves it modified, keeps it.                                        *)
LEMMA LoadLess ==
  ASSUME NEW B, NEW C, NEW r, NEW h \in Nat, NEW g \in Nat
  PROVE  /\ Load(B, r, h) \in Nat /\ Load(C, r, g) \in Nat
         /\ /\ g <= h /\ Todo(C, {}, r) \subseteq Todo(B, {}, r)
            /\ InHandle(C) \subseteq InHandle(B)
            => Load(C, r, g) <= Load(B, r, h)
         /\ \A b : /\ g = h - 1 /\ Todo(C, {}, r) \subseteq Todo(B, {}, r)
                   /\ InHandle(C) \subseteq InHandle(B) \cup {b}
                   => Load(C, r, g) <= Load(B, r, h)
         /\ \A b \in InHandle(B) :
                   /\ g = h /\ Todo(C, {}, r) \subseteq Todo(B, {}, r) \cup {b}
                   /\ InHandle(C) \subseteq InHandle(B) \ {b}
                   => Load(C, r, g) <= Load(B, r, h)
<1>1. PICK T, U, H, I : /\ T = Todo(B, {}, r) /\ U = Todo(C, {}, r)
                        /\ H = InHandle(B) /\ I = InHandle(C)
  OBVIOUS
<1>2. T \in SUBSET Blocks /\ U \in SUBSET Blocks /\ H \in SUBSET Blocks /\ I \in SUBSET Blocks
  BY <1>1 DEF Todo, InHandle
<1>3. PICK t, u, m, i : /\ t = Cardinality(T) /\ u = Cardinality(U)
                        /\ m = Cardinality(H) /\ i = Cardinality(I)
  OBVIOUS
<1>4. /\ t \in Nat /\ u \in Nat
      /\ U \subseteq T => u <= t
      /\ \A b : U \subseteq T \cup {b} => u <= t + 1
  BY <1>2, <1>3, Count
<1>5. /\ m \in Nat /\ i \in Nat
      /\ I \subseteq H => i <= m
      /\ \A b : I \subseteq H \cup {b} => i <= m + 1
      /\ \A b \in H : I \subseteq H \ {b} => i + 1 <= m
  BY <1>2, <1>3, Count
<1>6. Load(B, r, h) = t + h + m /\ Load(C, r, g) = u + g + i
  BY <1>1, <1>3 DEF Load
<1>7. Load(B, r, h) \in Nat /\ Load(C, r, g) \in Nat
  BY <1>4, <1>5, <1>6
<1>8. ASSUME g <= h, U \subseteq T, I \subseteq H PROVE Load(C, r, g) <= Load(B, r, h)
  BY <1>4, <1>5, <1>6, <1>8
<1>9. ASSUME NEW b, g = h - 1, U \subseteq T, I \subseteq H \cup {b}
      PROVE  Load(C, r, g) <= Load(B, r, h)
  <2>1. u <= t /\ i <= m + 1
    BY <1>4, <1>5, <1>9
  <2> QED
    BY <1>4, <1>5, <1>6, <1>9, <2>1
<1>10. ASSUME NEW b \in H, g = h, U \subseteq T \cup {b}, I \subseteq H \ {b}
       PROVE  Load(C, r, g) <= Load(B, r, h)
  <2>1. u <= t + 1 /\ i + 1 <= m
    BY <1>4, <1>5, <1>10
  <2> QED
    BY <1>4, <1>5, <1>6, <1>10, <2>1
<1> QED
  BY <1>1, <1>7, <1>8, <1>9, <1>10

(* The commit needs no more when it has no more to write.                  *)
LEMMA CommitNeedsLess ==
  ASSUME NEW B, NEW C, NEW w, NEW c, NEW ph, ph # "none" => c # 0,
         c # 0 => \A b \in Blocks : ToWrite(C[b], c) => ToWrite(B[b], c)
  PROVE  /\ CommitNeeds(C, w, c, ph) \in Nat /\ CommitNeeds(B, w, c, ph) \in Nat
         /\ CommitNeeds(C, w, c, ph) <= CommitNeeds(B, w, c, ph)
<1>1. ASSUME NEW W
      PROVE  /\ Cardinality(Todo(B, W, c)) \in Nat /\ Cardinality(Todo(C, W, c)) \in Nat
             /\ (c # 0 => Cardinality(Todo(C, W, c)) <= Cardinality(Todo(B, W, c)))
  <2>1. c # 0 => Todo(C, W, c) \subseteq Todo(B, W, c)
    BY DEF Todo
  <2> QED
    BY <2>1, TodoLess, Zenon
<1>2. CASE ph = "data"
  <2>1. CommitNeeds(C, w, c, ph) = Cardinality(Todo(C, {}, c)) + 3
        /\ CommitNeeds(B, w, c, ph) = Cardinality(Todo(B, {}, c)) + 3
    BY <1>2 DEF CommitNeeds
  <2> QED
    BY <1>1, <1>2, <2>1
<1>3. CASE ph = "metadata"
  <2>1. PICK W, k : W = Chosen(w) /\ k = IF w = <<>> THEN 2 ELSE 1
    OBVIOUS
  <2>2. CommitNeeds(C, w, c, ph) = Cardinality(Todo(C, W, c)) + k
        /\ CommitNeeds(B, w, c, ph) = Cardinality(Todo(B, W, c)) + k
    BY <1>3, <2>1 DEF CommitNeeds
  <2>3. k \in Nat
    BY <2>1
  <2> QED
    BY <1>1, <1>3, <2>2, <2>3
<1>4. CASE ph \notin {"data", "metadata"}
  BY <1>4 DEF CommitNeeds
<1> QED
  BY <1>2, <1>3, <1>4

(* Steps that write nothing to the log.                                    *)
LEMMA RoomKept ==
  ASSUME JInv, LogHasRoom, Placed, free' \in Int, free' >= free, handles' \in Nat,
         UNCHANGED <<running, committing, phase, wbuf>>,
         committing # 0 =>
           \A b \in Blocks : ToWrite(bh'[b], committing) => ToWrite(bh[b], committing),
         running # 0 => Load(bh', running, handles') <= Load(bh, running, handles)
  PROVE  LogHasRoom'
<1>1. PICK B, C, w, r, c, ph, h, g :
        /\ B = bh /\ C = bh' /\ w = wbuf /\ r = running /\ c = committing /\ ph = phase
        /\ h = handles /\ g = handles'
  OBVIOUS
<1>2. (ph # "none" => c # 0) /\ h \in Nat /\ g \in Nat
  BY <1>1 DEF JInv, Ordered
<1>3. /\ CommitNeeds(C, w, c, ph) \in Nat /\ CommitNeeds(B, w, c, ph) \in Nat
      /\ CommitNeeds(C, w, c, ph) <= CommitNeeds(B, w, c, ph)
  <2>1. c # 0 => \A b \in Blocks : ToWrite(C[b], c) => ToWrite(B[b], c)
    BY <1>1
  <2> QED
    BY <1>2, <2>1, CommitNeedsLess, Zenon
<1>4. /\ RunningNeeds(C, r, g) \in Nat /\ RunningNeeds(B, r, h) \in Nat
      /\ RunningNeeds(C, r, g) <= RunningNeeds(B, r, h)
  <2>1. Load(C, r, g) \in Nat /\ Load(B, r, h) \in Nat
    BY <1>2, LoadLess
  <2>2. r # 0 => Load(C, r, g) <= Load(B, r, h)
    BY <1>1
  <2> QED
    BY <2>1, <2>2 DEF RunningNeeds
<1>5. free \in Int /\ free >= 1 + CommitNeeds(B, w, c, ph) + RunningNeeds(B, r, h)
  BY <1>1 DEF LogHasRoom, Placed
<1>6. free' >= 1 + CommitNeeds(C, w, c, ph) + RunningNeeds(C, r, g)
  BY <1>3, <1>4, <1>5
<1> QED
  BY <1>1, <1>6 DEF LogHasRoom

(* Of a buffer with write access the transaction has no more to write.     *)
LEMMA ToWriteGranted ==
  ASSUME NEW x, NEW r, NEW c, NEW ph, NEW ts, NEW v, Ordered(r, c, ph, ts), r # 0,
         Fits(x, r, c, ph, ts, v)
  PROVE  /\ granted(x, r).cp = x.cp /\ granted(x, r).handle = "granted"
         /\ c # 0 /\ x.trans = c => granted(x, r).trans = c
         /\ \A t \in {r, c} \ {0} : ToWrite(granted(x, r), t) => ToWrite(x, t)
<1>1. /\ Buffer(x) /\ x.trans \in {0, r, c} /\ r # c
      /\ (x.next # 0 => x.next = r /\ x.trans = c /\ c # 0)
  BY DEF Fits, Filed, Ordered
<1>2. PICK y : y = granted(x, r)
  OBVIOUS
<1>3. CASE r \in {x.trans, x.next}
  <2>1. x.trans # 0
    BY <1>1, <1>3
  <2>2. y = [x EXCEPT !.handle = "granted"]
    BY <1>2, <1>3, <2>1 DEF granted
  <2>3. /\ y.cp = x.cp /\ y.handle = "granted" /\ y.trans = x.trans /\ y.next = x.next
        /\ y.modified = x.modified /\ y.jlist = x.jlist
    BY <1>1, <2>2 DEF Buffer
  <2> QED
    BY <1>2, <2>3 DEF ToWrite
<1>4. CASE r \notin {x.trans, x.next} /\ x.trans = 0
  <2>1. /\ y.cp = x.cp /\ y.handle = "granted" /\ y.trans = r /\ y.next = x.next
        /\ y.modified = FALSE /\ y.jlist = "Reserved"
    BY <1>1, <1>2, <1>4 DEF granted, Buffer
  <2> QED
    BY <1>2, <1>4, <2>1 DEF ToWrite
<1>5. CASE r \notin {x.trans, x.next} /\ x.trans # 0
  <2>1. /\ y.cp = x.cp /\ y.handle = "granted" /\ y.trans = x.trans /\ y.next = r
        /\ y.modified = FALSE /\ y.jlist = x.jlist
    BY <1>1, <1>2, <1>5 DEF granted, Buffer
  <2> QED
    BY <1>2, <2>1 DEF ToWrite
<1> QED
  BY <1>3, <1>4, <1>5

(* A buffer that the running transaction modifies is not one more for the  *)
(* commit to write.                                                        *)
LEMMA ToWriteModified ==
  ASSUME NEW x, NEW r, NEW c, NEW ph, NEW ts, NEW v, Ordered(r, c, ph, ts), r # 0,
         Fits(x, r, c, ph, ts, v)
  PROVE  /\ modified(x, r).cp = x.cp /\ modified(x, r).handle = "none"
         /\ modified(x, r).trans = x.trans
         /\ c # 0 => (ToWrite(modified(x, r), c) => ToWrite(x, c))
<1>1. /\ Buffer(x) /\ x.trans \in {0, r, c} /\ r # c
      /\ (x.next # 0 => x.next = r /\ x.trans = c)
  BY DEF Fits, Filed, Ordered
<1>2. PICK y : y = modified(x, r)
  OBVIOUS
<1>3. /\ y.cp = x.cp /\ y.handle = "none" /\ y.trans = x.trans /\ y.next = x.next
      /\ (x.trans # r => y.jlist = x.jlist)
  BY <1>1, <1>2 DEF modified, Buffer
<1> QED
  BY <1>1, <1>2, <1>3 DEF ToWrite

(* journal_forget takes it off the list, or keeps it from being filed.     *)
LEMMA ToWriteForgotten ==
  ASSUME NEW x, NEW r, NEW c, NEW ph, NEW ts, NEW v, Ordered(r, c, ph, ts), r # 0,
         Fits(x, r, c, ph, ts, v)
  PROVE  /\ journal_forget(x, r).cp = x.cp /\ journal_forget(x, r).handle = x.handle
         /\ c # 0 /\ x.trans = c => journal_forget(x, r).trans = c
         /\ \A t \in {r, c} \ {0} : ToWrite(journal_forget(x, r), t) => ToWrite(x, t)
<1>1. /\ Buffer(x) /\ x.trans \in {0, r, c} /\ r # c /\ x.cp \in Nat
      /\ (x.next # 0 => x.next = r /\ x.trans = c)
  BY DEF Fits, Filed, Ordered
<1>2. PICK y : y = journal_forget(x, r)
  OBVIOUS
<1>3. CASE x.trans = r
  <2>1. /\ y.trans \in {0, r} /\ y.jlist # "Metadata" /\ y.next = x.next
        /\ y.modified = FALSE /\ y.cp = x.cp /\ y.handle = x.handle
    BY <1>1, <1>2, <1>3 DEF journal_forget, Buffer
  <2> QED
    BY <1>1, <1>2, <1>3, <2>1 DEF ToWrite
<1>4. CASE x.trans # r
  <2>1. /\ y.trans = x.trans /\ y.jlist = x.jlist /\ y.next = 0
        /\ y.modified = FALSE /\ y.cp = x.cp /\ y.handle = x.handle
    BY <1>1, <1>2, <1>4 DEF journal_forget, Buffer
  <2> QED
    BY <1>2, <2>1 DEF ToWrite
<1> QED
  BY <1>3, <1>4

(* Steps of a handle and of phase 7 change one buffer.  The commit's stays *)
(* its own while it chooses.                                               *)
LEMMA SpaceOne ==
  ASSUME JInv, Placed, ChosenInv, LogHasRoom, NEW b \in Blocks, NEW y,
         bh' = [bh EXCEPT ![b] = y], HandleLeaves,
         UNCHANGED <<free, head, tail, log_start, wbuf>>,
         y.cp \in {0, committing, bh[b].cp},
         phase = "metadata" /\ bh[b].trans = committing => y.trans = committing,
         committing # 0 => (ToWrite(y, committing) => ToWrite(bh[b], committing)),
         \/ /\ running # 0 => (ToWrite(y, running) => ToWrite(bh[b], running))
            /\ y.handle # "none" => bh[b].handle # "none" \/ handles' = handles - 1
         \/ handles' = handles /\ bh[b].handle # "none" /\ y.handle = "none"
  PROVE  Placed' /\ ChosenInv' /\ LogHasRoom'
<1>1. PICK B, C, r, h, g : B = bh /\ C = bh' /\ r = running /\ h = handles /\ g = handles'
  OBVIOUS
<1>2. /\ B = [a \in Blocks |-> B[a]] /\ C = [B EXCEPT ![b] = y]
      /\ h \in Nat /\ g \in {h, h - 1} /\ g \in Nat
  BY <1>1 DEF JInv, AllFit, HandleLeaves
<1>3. \A a \in Blocks : a # b => C[a] = B[a]
  BY <1>2
<1>4. C[b] = y
  BY <1>2
<1>5. Placed'
  <2>1. \A a \in Blocks : bh'[a].cp \in 0 .. MaxTid
    BY <1>1, <1>3, <1>4, JournalAssumption DEF Placed
  <2> QED
    BY <2>1 DEF Placed, HandleLeaves
<1>6. ChosenInv'
  <2>1. \A a \in Chosen(wbuf) : a \in Blocks /\ phase = "metadata"
    BY ChosenBlocks DEF ChosenInv
  <2>2. \A a \in Chosen(wbuf) : bh'[a].trans = committing
    BY <1>1, <1>3, <1>4, <2>1 DEF ChosenInv
  <2> QED
    BY <2>2 DEF ChosenInv, HandleLeaves
<1>7. r # 0 => Load(C, r, g) <= Load(B, r, h)
  <2> SUFFICES ASSUME r # 0 PROVE Load(C, r, g) <= Load(B, r, h)
    OBVIOUS
  <2>1. CASE /\ ToWrite(y, r) => ToWrite(B[b], r)
             /\ y.handle # "none" => B[b].handle # "none"
    <3>1. Todo(C, {}, r) \subseteq Todo(B, {}, r) /\ InHandle(C) \subseteq InHandle(B)
      BY <1>3, <1>4, <2>1 DEF Todo, InHandle
    <3>2. g <= h
      BY <1>2
    <3> QED
      BY <1>2, <3>1, <3>2, LoadLess
  <2>2. CASE (ToWrite(y, r) => ToWrite(B[b], r)) /\ g = h - 1
    <3>1. Todo(C, {}, r) \subseteq Todo(B, {}, r)
          /\ InHandle(C) \subseteq InHandle(B) \cup {b}
      BY <1>3, <1>4, <2>2 DEF Todo, InHandle
    <3> QED
      BY <1>2, <2>2, <3>1, LoadLess
  <2>3. CASE g = h /\ B[b].handle # "none" /\ y.handle = "none"
    <3>1. /\ Todo(C, {}, r) \subseteq Todo(B, {}, r) \cup {b}
          /\ InHandle(C) \subseteq InHandle(B) \ {b} /\ b \in InHandle(B)
      BY <1>3, <1>4, <2>3 DEF Todo, InHandle
    <3> QED
      BY <1>2, <2>3, <3>1, LoadLess
  <2> QED
    BY <1>1, <2>1, <2>2, <2>3
<1>8. committing # 0 =>
        \A a \in Blocks : ToWrite(bh'[a], committing) => ToWrite(bh[a], committing)
  BY <1>1, <1>3, <1>4
<1>9. free' \in Int /\ free' >= free
  BY DEF Placed
<1>10. LogHasRoom'
  BY <1>1, <1>2, <1>7, <1>8, <1>9, RoomKept DEF HandleLeaves
<1> QED
  BY <1>5, <1>6, <1>10

(* Write access to a block, and what comes of it.                          *)
LEMMA SpaceAccess ==
  ASSUME JInv, Placed, ChosenInv, LogHasRoom, NEW b \in Blocks,
         \/ lock_for_write_access(b) \/ do_get_write_access(b)
         \/ journal_get_create_access(b) \/ journal_dirty_metadata(b)
         \/ journal_release_buffer(b)
  PROVE  Placed' /\ ChosenInv' /\ LogHasRoom'
<1>0. PICK x, r, c : x = bh[b] /\ r = running /\ c = committing
  OBVIOUS
<1>1. /\ Fits(x, r, c, phase, transaction_sequence, now[b])
      /\ Ordered(r, c, phase, transaction_sequence) /\ Buffer(x)
      /\ bh = [a \in Blocks |-> bh[a]] /\ handles \in Nat
      /\ (phase = "metadata" => c # 0) /\ (x.handle # "none" => r # 0)
  BY <1>0, HandleFor DEF Fits, Ordered
<1>2. CASE lock_for_write_access(b)
  <2>1. PICK y : y = [x EXCEPT !.handle = "entry"]
    OBVIOUS
  <2>2. /\ HandleLeaves /\ handles' = handles - 1 /\ bh' = [bh EXCEPT ![b] = y]
        /\ UNCHANGED <<free, head, tail, log_start, wbuf>>
    BY <1>0, <1>1, <1>2, <2>1, HandleFor DEF lock_for_write_access, handle_for, space
  <2>3. y.cp = x.cp /\ y.trans = x.trans /\ \A t : ToWrite(y, t) => ToWrite(x, t)
    BY <1>1, <2>1 DEF Buffer, ToWrite
  <2> QED
    BY <1>0, <2>2, <2>3, SpaceOne
<1>3. CASE do_get_write_access(b)
  <2>1. PICK y : y = granted(x, r)
    OBVIOUS
  <2>2. /\ HandleLeaves /\ bh' = [bh EXCEPT ![b] = y] /\ x.handle = "entry"
        /\ UNCHANGED <<free, head, tail, log_start, wbuf>>
    BY <1>0, <1>1, <1>3, <2>1 DEF do_get_write_access, HandleLeaves, disk, space, trans
  <2>3. /\ y.cp = x.cp /\ (c # 0 /\ x.trans = c => y.trans = c)
        /\ \A t \in {r, c} \ {0} : ToWrite(y, t) => ToWrite(x, t)
    BY <1>1, <2>1, <2>2, ToWriteGranted
  <2> QED
    BY <1>0, <1>1, <2>2, <2>3, SpaceOne
<1>4. CASE journal_get_create_access(b)
  <2>1. PICK y : y = granted(x, r)
    OBVIOUS
  <2>2. /\ HandleLeaves /\ handles' = handles - 1 /\ bh' = [bh EXCEPT ![b] = y] /\ r # 0
        /\ UNCHANGED <<free, head, tail, log_start, wbuf>>
    BY <1>0, <1>4, <2>1, HandleFor DEF journal_get_create_access, handle_for, space
  <2>3. /\ y.cp = x.cp /\ (c # 0 /\ x.trans = c => y.trans = c)
        /\ \A t \in {r, c} \ {0} : ToWrite(y, t) => ToWrite(x, t)
    BY <1>1, <2>1, <2>2, ToWriteGranted
  <2> QED
    BY <1>0, <1>1, <2>2, <2>3, SpaceOne
<1>5. CASE journal_dirty_metadata(b)
  <2>1. PICK y : y = modified(x, r)
    OBVIOUS
  <2>2. /\ HandleLeaves /\ handles' = handles /\ bh' = [bh EXCEPT ![b] = y]
        /\ x.handle # "none" /\ UNCHANGED <<free, head, tail, log_start, wbuf>>
    BY <1>0, <1>1, <1>5, <2>1
    DEF journal_dirty_metadata, HandleLeaves, disk, space, trans, lists
  <2>3. /\ y.cp = x.cp /\ y.handle = "none" /\ y.trans = x.trans
        /\ (c # 0 => (ToWrite(y, c) => ToWrite(x, c)))
    BY <1>1, <2>1, <2>2, ToWriteModified
  <2> QED
    BY <1>0, <1>1, <2>2, <2>3, SpaceOne
<1>6. CASE journal_release_buffer(b)
  <2>1. PICK y : y = [x EXCEPT !.handle = "none"]
    OBVIOUS
  <2>2. /\ HandleLeaves /\ bh' = [bh EXCEPT ![b] = y]
        /\ UNCHANGED <<free, head, tail, log_start, wbuf>>
    BY <1>0, <1>1, <1>6, <2>1
    DEF journal_release_buffer, HandleLeaves, disk, space, trans, lists
  <2>3. /\ y.cp = x.cp /\ y.trans = x.trans /\ y.handle = "none"
        /\ \A t : ToWrite(y, t) => ToWrite(x, t)
    BY <1>1, <2>1 DEF Buffer, ToWrite
  <2> QED
    BY <1>0, <2>2, <2>3, SpaceOne
<1> QED
  BY <1>2, <1>3, <1>4, <1>5, <1>6

(* Blocks that are freed, and new blocks of data.                          *)
LEMMA SpaceBlocks ==
  ASSUME JInv, Placed, ChosenInv, LogHasRoom, NEW b \in Blocks,
         journal_revoke(b) \/ journal_dirty_data(b) \/ free_data(b)
  PROVE  Placed' /\ ChosenInv' /\ LogHasRoom'
<1>0. PICK x, r, c : x = bh[b] /\ r = running /\ c = committing
  OBVIOUS
<1>1. /\ Fits(x, r, c, phase, transaction_sequence, now[b])
      /\ Ordered(r, c, phase, transaction_sequence) /\ Buffer(x)
      /\ bh = [a \in Blocks |-> bh[a]] /\ (phase = "metadata" => c # 0)
  BY <1>0, HandleFor DEF Fits, Ordered
<1>2. /\ HandleLeaves /\ r # 0 /\ handles' = handles - 1
      /\ UNCHANGED <<free, head, tail, log_start, wbuf>>
  BY <1>0, HandleFor DEF journal_revoke, journal_dirty_data, free_data, handle_for, space
<1>3. CASE journal_revoke(b) \/ free_data(b)
  <2>1. PICK y : y = journal_forget(x, r)
    OBVIOUS
  <2>2. bh' = [bh EXCEPT ![b] = y]
    BY <1>0, <1>3, <2>1 DEF journal_revoke, free_data
  <2>3. /\ y.cp = x.cp /\ (c # 0 /\ x.trans = c => y.trans = c)
        /\ \A t \in {r, c} \ {0} : ToWrite(y, t) => ToWrite(x, t)
    BY <1>1, <1>2, <2>1, ToWriteForgotten
  <2> QED
    BY <1>0, <1>1, <1>2, <2>2, <2>3, SpaceOne
<1>4. CASE journal_dirty_data(b)
  <2>1. PICK y : y = [x EXCEPT !.dirty = FALSE]
    OBVIOUS
  <2>2. bh' = [bh EXCEPT ![b] = y]
    BY <1>0, <1>1, <1>4, <2>1 DEF journal_dirty_data
  <2>3. y.cp = x.cp /\ y.trans = x.trans /\ \A t : ToWrite(y, t) => ToWrite(x, t)
    BY <1>1, <2>1 DEF Buffer, ToWrite
  <2> QED
    BY <1>0, <1>2, <2>2, <2>3, SpaceOne
<1> QED
  BY <1>3, <1>4

(* Phase 7: what the running transaction is to write stays the same.       *)
LEMMA SpaceForget ==
  ASSUME JInv, Placed, ChosenInv, LogHasRoom, NEW b \in Blocks, commit_forget(b)
  PROVE  Placed' /\ ChosenInv' /\ LogHasRoom'
<1>1. /\ UNCHANGED <<free, head, tail, log_start, wbuf>> /\ HandleLeaves
      /\ phase = "forget" /\ handles' = handles
  BY DEF commit_forget, buffers_unchanged, space, trans, lists, disk, HandleLeaves, JInv
<1>2. PICK x, y, z, k, r, c :
        /\ x = bh[b] /\ z = [x EXCEPT !.frozen = Free, !.cp = k, !.cpio = FALSE]
        /\ y = refiled(z) /\ bh' = [bh EXCEPT ![b] = y]
        /\ r = running /\ c = committing /\ k \in {0, c} /\ x.trans = c
  BY DEF commit_forget
<1>3. Buffer(x) /\ c # 0 /\ r # c /\ (x.next # 0 => x.next = r)
  BY <1>1, <1>2 DEF JInv, AllFit, Fits, Filed, Ordered
<1>4. z = [val |-> x.val, dirty |-> x.dirty, jbddirty |-> x.jbddirty,
           writing |-> x.writing, handle |-> x.handle, trans |-> x.trans,
           next |-> x.next, modified |-> x.modified, jlist |-> x.jlist,
           frozen |-> Free, cp |-> k, cpio |-> FALSE, jwrite |-> x.jwrite]
  BY <1>2, <1>3 DEF Buffer
<1>5. /\ y.trans = x.next /\ y.next = 0 /\ y.cp = k /\ y.handle = x.handle
      /\ (x.next = 0 => y.jlist = "None")
      /\ (x.next # 0 => y.jlist = IF x.modified THEN "Metadata" ELSE "Reserved")
  BY <1>2, <1>4 DEF refiled
<1>6. \A t \in {r, c} \ {0} : ToWrite(y, t) => ToWrite(x, t)
  BY <1>3, <1>5 DEF ToWrite
<1> QED
  BY <1>1, <1>2, <1>5, <1>6, SpaceOne

(* What credits counts.                                                    *)
LEMMA CreditsAre ==
  ASSUME JInv, ChosenInv
  PROVE  /\ credits(Tid) = Load(bh, Tid, handles)
         /\ committing # 0 =>
              credits(committing) = Cardinality(Todo(bh, Chosen(wbuf), committing))
<1>1. /\ Tid # 0 /\ Tid # committing
      /\ \A b \in Blocks : bh[b].next # 0 => bh[b].next = running
      /\ (phase = "metadata" => committing # 0) /\ (running # 0 => Tid = running)
  BY DEF JInv, AllFit, Fits, Filed, Ordered, Tid
<1>2. \A t, b : (\A i \in 1 .. Len(wbuf) : wbuf[i].of # b) <=> b \notin Chosen(wbuf)
  BY DEF Chosen
<1>3. \A b \in Chosen(wbuf) : bh[b].trans = committing
  BY DEF ChosenInv
<1>4. \A t : t_buffers(t) = {b \in Blocks : /\ bh[b].trans = t /\ bh[b].jlist = "Metadata"
                                            /\ b \notin Chosen(wbuf)}
  BY <1>2 DEF t_buffers
<1>5. t_buffers(Tid) \cup {b \in Blocks : bh[b].next = Tid /\ bh[b].modified}
        = Todo(bh, {}, Tid)
  BY <1>1, <1>3, <1>4 DEF Todo, ToWrite
<1>6. committing # 0 =>
        t_buffers(committing) \cup {b \in Blocks : bh[b].next = committing /\ bh[b].modified}
          = Todo(bh, Chosen(wbuf), committing)
  <2> SUFFICES ASSUME committing # 0
               PROVE  t_buffers(committing) \cup
                        {b \in Blocks : bh[b].next = committing /\ bh[b].modified}
                        = Todo(bh, Chosen(wbuf), committing)
    OBVIOUS
  <2>1. \A b \in Blocks : bh[b].next # committing
    BY <1>1 DEF JInv, Ordered
  <2> QED
    BY <1>4, <2>1 DEF Todo, ToWrite
<1>7. credits(Tid) = Cardinality(Todo(bh, {}, Tid)) + (handles + Cardinality(InHandle(bh)))
  BY <1>5 DEF credits, InHandle
<1>8. credits(Tid) = Load(bh, Tid, handles)
  <2>1. Todo(bh, {}, Tid) \in SUBSET Blocks /\ InHandle(bh) \in SUBSET Blocks
    BY DEF Todo, InHandle
  <2>2. /\ Cardinality(Todo(bh, {}, Tid)) \in Nat /\ Cardinality(InHandle(bh)) \in Nat
        /\ handles \in Nat
    BY <2>1, Count DEF JInv
  <2> QED
    BY <1>7, <2>2 DEF Load
<1>9. committing # 0 =>
        credits(committing) = Cardinality(Todo(bh, Chosen(wbuf), committing))
  <2> SUFFICES ASSUME committing # 0
               PROVE  credits(committing) = Cardinality(Todo(bh, Chosen(wbuf), committing))
    OBVIOUS
  <2>1. credits(committing) = Cardinality(Todo(bh, Chosen(wbuf), committing)) + 0
    BY <1>1, <1>6 DEF credits
  <2>2. Cardinality(Todo(bh, Chosen(wbuf), committing)) \in Nat
    BY TodoLess, Zenon
  <2> QED
    BY <2>1, <2>2
<1> QED
  BY <1>8, <1>9

(* The space is there when a handle starts.                                *)
LEMMA SpaceStart ==
  ASSUME Reserved >= 7, JInv, Placed, ChosenInv, LogHasRoom, start_this_handle
  PROVE  Placed' /\ ChosenInv' /\ LogHasRoom'
<1>1. PICK B, w, r, c, ph, h : B = bh /\ w = wbuf /\ r = Tid /\ c = committing /\ ph = phase
                               /\ h = handles
  OBVIOUS
<1>2. /\ running' = r /\ committing' = c /\ phase' = ph /\ handles' = h + 1 /\ bh' = B
      /\ wbuf' = w /\ UNCHANGED <<free, head, tail, log_start>> /\ r <= MaxTid
  BY <1>1 DEF start_this_handle, space, lists
<1>3. /\ h \in Nat /\ (ph \in {"data", "metadata"} => c # 0) /\ r \in Nat \ {0}
      /\ (ph # "metadata" => w = <<>>) /\ w \in Seq([of : Blocks, own : BOOLEAN])
      /\ free \in Int /\ Reserved \in Nat /\ MaxBuffers \in Nat
  BY <1>1, JournalAssumption DEF JInv, Ordered, Tid, ChosenInv, Placed
<1>4. Placed'
  BY <1>1, <1>2, <1>3, JournalAssumption DEF Placed
<1>5. ChosenInv'
  BY <1>1, <1>2 DEF ChosenInv
<1>6. PICK l, m, k : l = Load(B, r, h) /\ m = Load(B, r, h + 1)
                     /\ k = Cardinality(Todo(B, Chosen(w), c))
  OBVIOUS
<1>7. l \in Nat /\ m = l + 1 /\ k \in Nat
  <2>1. k \in Nat /\ Cardinality(Todo(B, {}, r)) \in Nat
    BY <1>6, TodoLess, Zenon
  <2>2. InHandle(B) \in SUBSET Blocks
    BY DEF InHandle
  <2>3. Cardinality(InHandle(B)) \in Nat
    BY <2>2, Count
  <2> QED
    BY <1>3, <1>6, <2>1, <2>3 DEF Load
<1>8. l + 1 <= MaxBuffers /\ free - Reserved >= MaxBuffers + IF c = 0 THEN 0 ELSE k
  BY <1>1, <1>6, CreditsAre DEF start_this_handle, log_space_left, jbd_space_needed
<1>9. PICK n : n = CommitNeeds(B, w, c, ph)
  OBVIOUS
<1>10. n \in Nat /\ n <= 3 + IF c = 0 THEN 0 ELSE k
  <2>1. CASE ph = "data"
    <3>1. Chosen(w) = {}
      BY <1>3, <2>1, ChosenBlocks
    <3>2. n = k + 3
      BY <1>6, <1>9, <2>1, <3>1 DEF CommitNeeds
    <3> QED
      BY <1>3, <1>7, <2>1, <3>2
  <2>2. CASE ph = "metadata"
    <3>1. n = k + IF w = <<>> THEN 2 ELSE 1
      BY <1>6, <1>9, <2>2 DEF CommitNeeds
    <3> QED
      BY <1>3, <1>7, <2>2, <3>1
  <2>3. CASE ph \notin {"data", "metadata"}
    <3>1. n \in {0, 1}
      BY <1>9, <2>3 DEF CommitNeeds
    <3> QED
      BY <1>7, <3>1
  <2> QED
    BY <2>1, <2>2, <2>3
<1>11. RunningNeeds(B, r, h + 1) = m + 3
  BY <1>3, <1>6 DEF RunningNeeds
<1>12. free >= 1 + n + (m + 3)
  BY <1>3, <1>7, <1>8, <1>10
<1>13. LogHasRoom'
  BY <1>1, <1>2, <1>9, <1>11, <1>12 DEF LogHasRoom
<1> QED
  BY <1>4, <1>5, <1>13

(* A handle gives its credit back.                                         *)
LEMMA SpaceStop ==
  ASSUME JInv, Placed, ChosenInv, LogHasRoom, journal_stop
  PROVE  Placed' /\ ChosenInv' /\ LogHasRoom'
<1>1. /\ UNCHANGED <<running, committing, phase, wbuf, bh, free, head, tail, log_start>>
      /\ handles \in Nat /\ handles' \in Nat /\ handles' <= handles
  BY DEF journal_stop, space, lists, JInv
<1>2. Placed' /\ ChosenInv'
  BY <1>1 DEF Placed, ChosenInv
<1>3. Load(bh', running, handles') <= Load(bh, running, handles)
  BY <1>1, LoadLess
<1>4. free' \in Int /\ free' >= free
  BY <1>1 DEF Placed
<1>5. LogHasRoom'
  BY <1>1, <1>3, <1>4, RoomKept
<1> QED
  BY <1>2, <1>5

(* Buffers that are only marked.                                           *)
LEMMA SpaceMarked ==
  ASSUME JInv, Placed, MarkedAll
  PROVE  /\ \A b \in Blocks : bh'[b].cp \in 0 .. MaxTid /\ bh'[b].trans = bh[b].trans
         /\ \A t : \A b \in Blocks : ToWrite(bh'[b], t) => ToWrite(bh[b], t)
         /\ Load(bh', running, handles) <= Load(bh, running, handles)
         /\ Load(bh', running, handles) \in Nat /\ Load(bh, running, handles) \in Nat
<1>1. \A b \in Blocks : bh'[b].cp \in 0 .. MaxTid /\ bh'[b].trans = bh[b].trans
  <2> SUFFICES ASSUME NEW b \in Blocks
               PROVE  bh'[b].cp \in 0 .. MaxTid /\ bh'[b].trans = bh[b].trans
    OBVIOUS
  <2>1. bh'[b].cp \in {0, bh[b].cp} /\ bh'[b].trans = bh[b].trans
    BY DEF MarkedAll, Marked
  <2>2. bh[b].cp \in 0 .. MaxTid /\ 0 \in 0 .. MaxTid
    BY JournalAssumption DEF Placed
  <2> QED
    BY <2>1, <2>2
<1>2. \A t : \A b \in Blocks : ToWrite(bh'[b], t) => ToWrite(bh[b], t)
  BY DEF MarkedAll, Marked, ToWrite
<1>3. PICK B, C, r, h : B = bh /\ C = bh' /\ r = running /\ h = handles
  OBVIOUS
<1>4. Todo(C, {}, r) \subseteq Todo(B, {}, r)
  BY <1>2, <1>3 DEF Todo
<1>5. InHandle(C) \subseteq InHandle(B)
  BY <1>3 DEF InHandle, MarkedAll, Marked
<1>6. h \in Nat
  BY <1>3 DEF JInv
<1>7. Load(C, r, h) <= Load(B, r, h) /\ Load(C, r, h) \in Nat /\ Load(B, r, h) \in Nat
  BY <1>4, <1>5, <1>6, LoadLess
<1> QED
  BY <1>1, <1>2, <1>3, <1>7

(* Blocks on their way home take no space in the log, and neither do those *)
(* that have it already.                                                   *)
LEMMA SpaceHome ==
  ASSUME JInv, Placed, ChosenInv, LogHasRoom,
         HomeStep \/ file_shadow \/ \E e \in io : log_written(e)
  PROVE  Placed' /\ ChosenInv' /\ LogHasRoom'
<1>1. HomeStep \/ LogStep
  BY DEF LogStep
<1>2. MarkedAll
  BY <1>1, HomeMarks, LogMarks
<1>3. UNCHANGED <<running, committing, handles, phase, wbuf, free, head, tail, log_start>>
  BY DEF HomeStep, write_data, write_buffer, end_buffer_write, flush_batch, wait_cp_io,
         remove_checkpoint, remove_from_checkpoint, submit_data, process_buffers,
         buffers_unchanged, space, trans, lists, file_shadow, log_written
<1>4. Placed'
  BY <1>2, <1>3, SpaceMarked DEF Placed
<1>5. ChosenInv'
  <2>1. Chosen(wbuf) \subseteq Blocks
    BY ChosenBlocks DEF ChosenInv
  <2> QED
    BY <1>2, <1>3, <2>1, SpaceMarked DEF ChosenInv
<1>6. free' \in Int /\ free' >= free /\ handles' \in Nat
  BY <1>3 DEF Placed, JInv
<1>7. Load(bh', running, handles') <= Load(bh, running, handles)
  BY <1>2, <1>3, SpaceMarked
<1>8. LogHasRoom'
  BY <1>2, <1>3, <1>6, <1>7, SpaceMarked, RoomKept
<1> QED
  BY <1>4, <1>5, <1>8

(* The log's tail moves up to a transaction that has a place.              *)
LEMMA OldestPlaced == JInv /\ Placed => oldest.start \in Int
<1> SUFFICES ASSUME JInv, Placed PROVE oldest.start \in Int
  OBVIOUS
<1> DEFINE cps == {bh[b].cp : b \in Blocks} \ {0}
           t == IF cps # {} THEN Min(cps) ELSE committing
<1>1. cps \in SUBSET Nat /\ cps \subseteq 0 .. MaxTid
  BY JournalAssumption DEF Placed
<1>2. cps # {} => Min(cps) \in 0 .. MaxTid
  <2> HIDE DEF cps
  <2> QED
    BY <1>1, LeastNumber DEF Min
<1>3. t \in 0 .. MaxTid
  BY <1>2 DEF Placed
<1>4. oldest = IF t # 0 THEN [seq |-> t, start |-> log_start[t]]
               ELSE [seq |-> Tid, start |-> head]
  BY DEF oldest
<1> HIDE DEF t
<1>5. t # 0 => log_start[t] \in Int
  BY <1>3, JournalAssumption DEF Placed
<1> QED
  BY <1>4, <1>5 DEF Placed

(* The superblock and the log's tail.                                      *)
LEMMA SpaceTail ==
  ASSUME JInv, Placed, ChosenInv, LogHasRoom,
         cleanup_journal_tail \/ tail_written \/ journal_flush
  PROVE  Placed' /\ ChosenInv' /\ LogHasRoom'
<1>1. UNCHANGED <<running, committing, handles, phase, head, log_start, bh, wbuf>>
  BY DEF cleanup_journal_tail, tail_written, journal_flush, trans, lists
<1>2. /\ tail' \in {tail, oldest.start}
      /\ free' \in {free, free + ((oldest.start - tail) % L)}
  BY DEF cleanup_journal_tail, tail_written, journal_flush, tail_moved
<1>3. free \in Int /\ tail \in Int /\ oldest.start \in Int /\ L \in Nat \ {0}
  BY OldestPlaced, JournalAssumption DEF Placed
<1>4. tail' \in Int /\ free' \in Int /\ free' >= free
  <2>1. PICK m : m = oldest.start - tail
    OBVIOUS
  <2>2. m % L \in 0 .. (L - 1)
    BY <1>3, <2>1
  <2> QED
    BY <1>2, <1>3, <2>1, <2>2
<1>5. Placed' /\ ChosenInv'
  BY <1>1, <1>4 DEF Placed, ChosenInv
<1>6. handles \in Nat
  BY DEF JInv
<1>7. Load(bh', running, handles') <= Load(bh, running, handles)
  BY <1>1, <1>6, LoadLess
<1>8. \A b \in Blocks : ToWrite(bh'[b], committing) => ToWrite(bh[b], committing)
  BY <1>1
<1>9. LogHasRoom'
  BY <1>1, <1>4, <1>6, <1>7, <1>8, RoomKept
<1> QED
  BY <1>5, <1>9

(* The running transaction's blocks are now the commit's.                  *)
LEMMA SpaceCommitStart ==
  ASSUME JInv, Placed, ChosenInv, LogHasRoom, NEW s \in SUBSET Blocks, commit_start(s)
  PROVE  Placed' /\ ChosenInv' /\ LogHasRoom'
<1> DEFINE discarded(x) == IF x.trans = running /\ x.jlist = "Reserved" THEN refiled(x)
                                                                       ELSE x
           cleaned(x) == [x EXCEPT !.cp = 0, !.cpio = FALSE]
<1>1. PICK B, C, r, w : B = bh /\ C = bh' /\ r = running /\ w = wbuf
  OBVIOUS
<1>2. /\ running' = 0 /\ committing' = r /\ phase' = "data" /\ r # 0 /\ handles = 0
      /\ committing = 0 /\ phase = "none" /\ free' = free /\ head' = head /\ tail' = tail
      /\ log_start' = [log_start EXCEPT ![r] = head] /\ handles' = 0 /\ wbuf' = w
  BY <1>1 DEF commit_start, JInv, Ordered
<1>3. C = [b \in Blocks |-> IF b \in s THEN cleaned(discarded(B[b])) ELSE discarded(B[b])]
  BY <1>1 DEF commit_start
<1>4. ASSUME NEW b \in Blocks
      PROVE  C[b].cp \in {0, B[b].cp} /\ (ToWrite(C[b], r) => ToWrite(B[b], r))
  <2>1. PICK x, y : x = B[b] /\ y = discarded(x)
    OBVIOUS
  <2>2. Buffer(x) /\ x.next = 0
    BY <1>1, <1>2, <2>1 DEF JInv, AllFit, Fits, Filed
  <2>3. /\ y.cp = x.cp /\ Buffer(y)
        /\ \/ y.trans = 0 /\ y.next = 0
           \/ y.trans = x.trans /\ y.jlist = x.jlist /\ y.next = 0
    <3>1. CASE x.trans = running /\ x.jlist = "Reserved"
      <4>1. y = [val |-> x.val, dirty |-> x.dirty \/ x.jbddirty, jbddirty |-> FALSE,
                 writing |-> x.writing, handle |-> x.handle, trans |-> 0,
                 next |-> x.next, modified |-> x.modified, jlist |-> "None",
                 frozen |-> x.frozen, cp |-> x.cp, cpio |-> x.cpio, jwrite |-> x.jwrite]
        BY <2>1, <2>2, <3>1 DEF refiled, Buffer
      <4> QED
        BY <2>2, <4>1 DEF Buffer
    <3>2. CASE ~(x.trans = running /\ x.jlist = "Reserved")
      BY <2>1, <2>2, <3>2
    <3> QED
      BY <3>1, <3>2
  <2>4. PICK z : z = cleaned(y)
    OBVIOUS
  <2>5. z.cp = 0 /\ z.trans = y.trans /\ z.jlist = y.jlist /\ z.next = y.next
    BY <2>3, <2>4 DEF Buffer
  <2>6. C[b] \in {y, z}
    BY <1>3, <2>1, <2>4
  <2> QED
    BY <1>2, <2>1, <2>2, <2>3, <2>5, <2>6 DEF ToWrite
<1>5. Placed'
  <2>1. \A b \in Blocks : bh'[b].cp \in 0 .. MaxTid
    BY <1>1, <1>4, JournalAssumption DEF Placed
  <2>2. /\ log_start' = [t \in 1 .. MaxTid |-> log_start'[t]]
        /\ \A t \in 1 .. MaxTid : log_start'[t] \in Int
    BY <1>2 DEF Placed
  <2> QED
    BY <1>1, <1>2, <2>1, <2>2, JournalAssumption DEF Placed
<1>6. ChosenInv'
  <2>1. w = <<>> /\ w \in Seq([of : Blocks, own : BOOLEAN])
    BY <1>1, <1>2 DEF ChosenInv
  <2>2. Chosen(w) = {}
    BY <2>1, ChosenBlocks
  <2> QED
    BY <1>2, <2>1, <2>2 DEF ChosenInv
<1>7. Todo(C, {}, r) \subseteq Todo(B, {}, r)
  BY <1>4 DEF Todo
<1>8. PICK k, l, m : /\ k = Cardinality(Todo(B, {}, r)) /\ l = Cardinality(Todo(C, {}, r))
                     /\ m = Cardinality(InHandle(B))
  OBVIOUS
<1>9. k \in Nat /\ l \in Nat /\ l <= k /\ m \in Nat
  <2>1. k \in Nat /\ l \in Nat /\ l <= k
    BY <1>7, <1>8, TodoLess, Zenon
  <2>2. InHandle(B) \in SUBSET Blocks
    BY DEF InHandle
  <2> QED
    BY <1>8, <2>1, <2>2, Count
<1>10. free \in Int /\ free >= 1 + 0 + (k + 0 + m + 3)
  <2>1. CommitNeeds(B, w, 0, "none") = 0 /\ RunningNeeds(B, r, 0) = k + 0 + m + 3
    BY <1>2, <1>8 DEF CommitNeeds, RunningNeeds, Load
  <2> QED
    BY <1>1, <1>2, <2>1 DEF Placed, LogHasRoom
<1>11. CommitNeeds(C, w, r, "data") = l + 3 /\ RunningNeeds(C, 0, 0) = 0
  BY <1>8 DEF CommitNeeds, RunningNeeds
<1>12. free >= 1 + (l + 3) + 0
  BY <1>9, <1>10
<1>13. LogHasRoom'
  BY <1>1, <1>2, <1>11, <1>12 DEF LogHasRoom
<1> QED
  BY <1>5, <1>6, <1>13

(* A step of the commit that may use blocks of the log, and leaves the     *)
(* buffers alone.                                                          *)
LEMMA SpaceUsed ==
  ASSUME JInv, Placed, LogHasRoom, NEW n \in Nat,
         UNCHANGED <<running, committing, handles, bh, tail, log_start>>,
         free' = free - n, head' = Wrap(head + n) \/ head' = head,
         CommitNeeds(bh, wbuf', committing, phase') \in Nat,
         CommitNeeds(bh, wbuf', committing, phase') + n <=
           CommitNeeds(bh, wbuf, committing, phase)
  PROVE  Placed' /\ LogHasRoom'
<1>1. PICK B, r, h, i, j : /\ B = bh /\ r = running /\ h = handles
                           /\ i = CommitNeeds(bh, wbuf, committing, phase)
                           /\ j = CommitNeeds(bh, wbuf', committing, phase')
  OBVIOUS
<1>2. free \in Int /\ head \in Int /\ L \in Nat \ {0} /\ h \in Nat
  BY <1>1, JournalAssumption DEF Placed, JInv
<1>3. Placed'
  <2>1. Wrap(head + n) \in Int
    BY <1>2 DEF Wrap
  <2> QED
    BY <1>2, <2>1 DEF Placed
<1>4. PICK k : k = RunningNeeds(B, r, h)
  OBVIOUS
<1>5. k \in Nat
  <2>1. Load(B, r, h) \in Nat
    BY <1>2, LoadLess
  <2> QED
    BY <1>4, <2>1 DEF RunningNeeds
<1>6. i \in Nat
  <2>1. phase # "none" => committing # 0
    BY DEF JInv, Ordered
  <2> QED
    BY <1>1, <2>1, CommitNeedsLess
<1>7. free >= 1 + i + k
  BY <1>1, <1>4 DEF LogHasRoom
<1>8. free' >= 1 + j + k
  BY <1>1, <1>2, <1>5, <1>6, <1>7
<1>9. LogHasRoom'
  BY <1>1, <1>4, <1>8 DEF LogHasRoom
<1> QED
  BY <1>3, <1>9

(* The revoke block, and the commit record.                                *)
LEMMA SpaceRecords ==
  ASSUME JInv, Placed, ChosenInv, LogHasRoom,
         \/ journal_write_revoke_records \/ start_journal_io
         \/ journal_write_commit_record
  PROVE  Placed' /\ ChosenInv' /\ LogHasRoom'
<1>1. PICK B, w, c : B = bh /\ w = wbuf /\ c = committing
  OBVIOUS
<1>2. Cardinality(Todo(B, {}, c)) \in Nat /\ Cardinality(Todo(B, Chosen(w), c)) \in Nat
  BY TodoLess, Zenon
<1>3. w \in Seq([of : Blocks, own : BOOLEAN]) /\ free \in Int
  BY <1>1 DEF ChosenInv, Placed
<1>4. CASE journal_write_revoke_records
  <2>1. /\ UNCHANGED <<running, committing, handles, bh, tail, log_start, wbuf>>
        /\ phase = "data" /\ phase' = "metadata"
    BY <1>4 DEF journal_write_revoke_records, log_blocks_used, space
  <2>2. PICK n \in {0, 1} : free' = free - n /\ (head' = Wrap(head + n) \/ head' = head)
    BY <1>3, <1>4 DEF journal_write_revoke_records, log_blocks_used, space
  <2>3. w = <<>> /\ Chosen(w) = {}
    BY <1>1, <1>3, <2>1, ChosenBlocks DEF ChosenInv
  <2>4. /\ CommitNeeds(B, w, c, "data") = Cardinality(Todo(B, {}, c)) + 3
        /\ CommitNeeds(B, w, c, "metadata") = Cardinality(Todo(B, {}, c)) + 2
    BY <2>3 DEF CommitNeeds
  <2>5. /\ CommitNeeds(B, w, c, "metadata") \in Nat
        /\ CommitNeeds(B, w, c, "metadata") + n <= CommitNeeds(B, w, c, "data")
    BY <1>2, <2>2, <2>4
  <2>6. Placed' /\ LogHasRoom'
    BY <1>1, <2>1, <2>2, <2>5, SpaceUsed
  <2> QED
    BY <1>1, <1>3, <2>1, <2>3, <2>6 DEF ChosenInv
<1>5. CASE start_journal_io
  <2>1. /\ UNCHANGED <<running, committing, handles, bh, tail, log_start, free, head>>
        /\ phase = "metadata" /\ phase' = "log" /\ wbuf' = <<>>
    BY <1>5 DEF start_journal_io, space
  <2>2. /\ CommitNeeds(B, w, c, "metadata") =
             Cardinality(Todo(B, Chosen(w), c)) + IF w = <<>> THEN 2 ELSE 1
        /\ CommitNeeds(B, <<>>, c, "log") = 1
    BY DEF CommitNeeds
  <2>3. CommitNeeds(B, <<>>, c, "log") + 0 <= CommitNeeds(B, w, c, "metadata")
    BY <1>2, <2>2
  <2>4. free' = free - 0
    BY <1>3, <2>1
  <2>5. Placed' /\ LogHasRoom'
    BY <1>1, <2>1, <2>2, <2>3, <2>4, SpaceUsed
  <2>6. <<>> \in Seq([of : Blocks, own : BOOLEAN]) /\ Chosen(<<>>) = {}
    <3>1. <<>> \in Seq([of : Blocks, own : BOOLEAN])
      OBVIOUS
    <3> QED
      BY <3>1, ChosenBlocks
  <2> QED
    BY <2>1, <2>5, <2>6 DEF ChosenInv
<1>6. CASE journal_write_commit_record
  <2>1. /\ UNCHANGED <<running, committing, handles, bh, tail, log_start, wbuf>>
        /\ phase = "log" /\ phase' = "forget"
        /\ free' = free - 1 /\ head' = Wrap(head + 1)
    BY <1>6 DEF journal_write_commit_record, log_blocks_used, lists
  <2>2. CommitNeeds(B, w, c, "log") = 1 /\ CommitNeeds(B, w, c, "forget") = 0
    BY DEF CommitNeeds
  <2>3. Placed' /\ LogHasRoom'
    BY <1>1, <2>1, <2>2, SpaceUsed
  <2> QED
    BY <2>1, <2>3 DEF ChosenInv
<1> QED
  BY <1>4, <1>5, <1>6

(* A log block for a buffer, and one for the descriptor before the first,  *)
(* are taken from what was kept for them.                                  *)
LEMMA SpaceChoose ==
  ASSUME JInv, Placed, ChosenInv, LogHasRoom, NEW b \in Blocks,
         journal_write_metadata_buffer(b)
  PROVE  Placed' /\ ChosenInv' /\ LogHasRoom'
<1>1. PICK B, w, c, e, n :
        /\ B = bh /\ w = wbuf /\ c = committing
        /\ e = [of |-> b, own |-> bh[b].frozen = Free] /\ n = IF w = <<>> THEN 2 ELSE 1
  OBVIOUS
<1>2. /\ UNCHANGED <<running, committing, handles, phase, bh, tail, log_start>>
      /\ phase = "metadata" /\ wbuf' = Append(w, e) /\ b \in t_buffers(c)
      /\ free' = free - n /\ head' = Wrap(head + n)
  BY <1>1 DEF journal_write_metadata_buffer, log_blocks_used, trans
<1>3. w \in Seq([of : Blocks, own : BOOLEAN]) /\ e \in [of : Blocks, own : BOOLEAN]
      /\ e.of = b /\ n \in Nat
  BY <1>1 DEF ChosenInv
<1>4. PICK W, V : W = Chosen(w) /\ V = Chosen(Append(w, e))
  OBVIOUS
<1>5. V = W \cup {b} /\ Append(w, e) # <<>>
  BY <1>3, <1>4, ChosenBlocks
<1>6. B[b].trans = c /\ B[b].jlist = "Metadata" /\ b \notin W
  BY <1>1, <1>2, <1>4 DEF t_buffers, Chosen
<1>7. ChosenInv'
  <2>1. Append(w, e) \in Seq([of : Blocks, own : BOOLEAN])
    BY <1>3, AppendProperties
  <2>2. \A a \in V : bh[a].trans = c
    BY <1>1, <1>4, <1>5, <1>6 DEF ChosenInv
  <2> QED
    BY <1>1, <1>2, <1>4, <2>1, <2>2 DEF ChosenInv
<1>8. PICK k, l : k = Cardinality(Todo(B, W, c)) /\ l = Cardinality(Todo(B, V, c))
  OBVIOUS
<1>9. k \in Nat /\ l \in Nat /\ l + 1 <= k
  <2>1. PICK S, T : S = Todo(B, V, c) /\ T = Todo(B, W, c)
    OBVIOUS
  <2>2. S \in SUBSET Blocks /\ T \in SUBSET Blocks /\ b \in T /\ S \subseteq T \ {b}
    BY <1>5, <1>6, <2>1 DEF Todo, ToWrite
  <2> QED
    BY <1>8, <2>1, <2>2, Count
<1>10. /\ CommitNeeds(B, w, c, "metadata") = k + IF w = <<>> THEN 2 ELSE 1
       /\ CommitNeeds(B, Append(w, e), c, "metadata") = l + 1
  BY <1>4, <1>5, <1>8 DEF CommitNeeds
<1>11. /\ CommitNeeds(B, Append(w, e), c, "metadata") \in Nat
       /\ CommitNeeds(B, Append(w, e), c, "metadata") + n <=
            CommitNeeds(B, w, c, "metadata")
  BY <1>1, <1>9, <1>10
<1>12. Placed' /\ LogHasRoom'
  BY <1>1, <1>2, <1>3, <1>11, SpaceUsed
<1> QED
  BY <1>7, <1>12


(* The end of a commit: it needs no more.                                  *)
LEMMA SpaceDone ==
  ASSUME JInv, Placed, ChosenInv, LogHasRoom, commit_done
  PROVE  Placed' /\ ChosenInv' /\ LogHasRoom'
<1>1. PICK B, w, r, c, h : /\ B = bh /\ w = wbuf /\ r = running /\ c = committing
                           /\ h = handles
  OBVIOUS
<1>2. /\ running' = r /\ committing' = 0 /\ phase = "forget" /\ phase' = "none"
      /\ bh' = B /\ wbuf' = w /\ handles' = h /\ UNCHANGED <<free, head, tail, log_start>>
  BY <1>1 DEF commit_done, space, lists
<1>3. Placed'
  BY <1>1, <1>2, JournalAssumption DEF Placed
<1>4. w = <<>> /\ w \in Seq([of : Blocks, own : BOOLEAN])
  BY <1>1, <1>2 DEF ChosenInv
<1>5. Chosen(w) = {}
  BY <1>4, ChosenBlocks
<1>6. ChosenInv'
  BY <1>2, <1>4, <1>5 DEF ChosenInv
<1>7. CommitNeeds(B, w, c, "forget") = 0 /\ CommitNeeds(B, w, 0, "none") = 0
  BY DEF CommitNeeds
<1>8. free >= 1 + CommitNeeds(B, w, c, "forget") + RunningNeeds(B, r, h)
  BY <1>1, <1>2 DEF LogHasRoom
<1>9. free >= 1 + CommitNeeds(B, w, 0, "none") + RunningNeeds(B, r, h)
  BY <1>7, <1>8
<1> QED
  BY <1>1, <1>2, <1>3, <1>6, <1>9 DEF LogHasRoom

(* An empty log has room.                                                  *)
LEMMA SpaceCrash == ASSUME Crash PROVE Placed' /\ ChosenInv' /\ LogHasRoom'
<1>1. /\ running' = 0 /\ committing' = 0 /\ handles' = 0 /\ phase' = "none" /\ head' = 1
      /\ tail' = 1 /\ free' = L /\ log_start' = [t \in 1 .. MaxTid |-> 0]
      /\ bh' = [b \in Blocks |-> NoBuffer] /\ wbuf' = <<>>
  BY DEF Crash
<1>2. L \in Nat \ {0} /\ MaxTid \in Nat
  BY JournalAssumption
<1>3. Placed'
  BY <1>1, <1>2 DEF Placed, NoBuffer
<1>4. <<>> \in Seq([of : Blocks, own : BOOLEAN])
  OBVIOUS
<1>5. Chosen(<<>>) = {}
  BY <1>4, ChosenBlocks
<1>6. ChosenInv'
  BY <1>1, <1>4, <1>5 DEF ChosenInv
<1>7. CommitNeeds(bh', <<>>, 0, "none") = 0 /\ RunningNeeds(bh', 0, 0) = 0
  BY DEF CommitNeeds, RunningNeeds
<1> QED
  BY <1>1, <1>2, <1>3, <1>6, <1>7 DEF LogHasRoom

(* Nothing is in the journal during recovery.                              *)
LEMMA SpaceRecover ==
  ASSUME JInv, Placed, ChosenInv, LogHasRoom, RecoverStep
  PROVE  Placed' /\ ChosenInv' /\ LogHasRoom'
<1>1. PICK B, w, h : B = bh /\ w = wbuf /\ h = handles
  OBVIOUS
<1>2. /\ running = 0 /\ committing = 0 /\ phase = "none" /\ wbuf' = w /\ handles' = h
      /\ UNCHANGED <<running, committing, phase, free, head, tail, log_start>>
  BY <1>1 DEF JInv, Ordered, RecoverStep, journal_recover, journal_reset, recover_crash,
              space, trans, lists
<1>3. \A b \in Blocks : bh'[b].cp \in 0 .. MaxTid
  <2>1. CASE journal_recover
    <3>1. \A b \in Blocks : bh'[b].cp = 0
      BY <2>1 DEF journal_recover, NoBuffer
    <3> QED
      BY <3>1, JournalAssumption
  <2>2. CASE ~journal_recover
    <3>1. bh' = bh
      BY <2>2 DEF RecoverStep, journal_reset, recover_crash
    <3> QED
      BY <3>1 DEF Placed
  <2> QED
    BY <2>1, <2>2
<1>4. Placed'
  BY <1>2, <1>3 DEF Placed
<1>5. w = <<>> /\ w \in Seq([of : Blocks, own : BOOLEAN])
  BY <1>1, <1>2 DEF ChosenInv
<1>6. Chosen(w) = {}
  BY <1>5, ChosenBlocks
<1>7. ChosenInv'
  BY <1>2, <1>5, <1>6 DEF ChosenInv
<1>8. /\ CommitNeeds(bh', w, 0, "none") = 0 /\ RunningNeeds(bh', 0, h) = 0
      /\ CommitNeeds(bh, w, 0, "none") = 0 /\ RunningNeeds(bh, 0, h) = 0
  BY DEF CommitNeeds, RunningNeeds
<1>9. free >= 1 + CommitNeeds(bh, w, 0, "none") + RunningNeeds(bh, 0, h)
  BY <1>1, <1>2 DEF LogHasRoom
<1>10. free >= 1 + CommitNeeds(bh', w, 0, "none") + RunningNeeds(bh', 0, h)
  BY <1>8, <1>9
<1> QED
  BY <1>2, <1>4, <1>7, <1>10 DEF LogHasRoom

(* Together.                                                               *)
LEMMA SpaceNext ==
  ASSUME Reserved >= 7, JInv, Placed, ChosenInv, LogHasRoom, Next
  PROVE  Placed' /\ ChosenInv' /\ LogHasRoom'
<1>1. CASE start_this_handle \/ journal_stop
  BY <1>1, SpaceStart, SpaceStop, Zenon
<1>2. CASE \E b \in Blocks :
             \/ lock_for_write_access(b) \/ do_get_write_access(b)
             \/ journal_get_create_access(b) \/ journal_dirty_metadata(b)
             \/ journal_release_buffer(b)
  BY <1>2, SpaceAccess, Zenon
<1>3. CASE \E b \in Blocks : journal_revoke(b) \/ journal_dirty_data(b) \/ free_data(b)
  BY <1>3, SpaceBlocks, Zenon
<1>4. CASE HomeStep \/ file_shadow \/ \E e \in io : log_written(e)
  BY <1>4, SpaceHome, Zenon
<1>5. CASE \/ journal_write_revoke_records \/ start_journal_io
           \/ journal_write_commit_record
  BY <1>5, SpaceRecords, Zenon
<1>6. CASE \E b \in Blocks : journal_write_metadata_buffer(b) \/ commit_forget(b)
  BY <1>6, SpaceChoose, SpaceForget, Zenon
<1>7. CASE cleanup_journal_tail \/ tail_written \/ journal_flush
  BY <1>7, SpaceTail, Zenon
<1>8. CASE commit_done \/ \E s \in SUBSET Blocks : commit_start(s)
  BY <1>8, SpaceDone, SpaceCommitStart, Zenon
<1>9. CASE Crash \/ RecoverStep
  BY <1>9, SpaceCrash, SpaceRecover, Zenon
<1> QED
  BY <1>1, <1>2, <1>3, <1>4, <1>5, <1>6, <1>7, <1>8, <1>9, Steps, Zenon
  DEF UpStep, LogStep

(* If seven blocks are kept back when a handle starts, a commit never runs *)
(* out of log: the assertion in journal_next_log_block holds, also for the *)
(* transaction that runs meanwhile and the handles that are still to       *)
(* modify their blocks, wherever checkpoints and crashes have left the     *)
(* tail.                                                                   *)
THEOREM JournalLogHasRoom ==
  ASSUME Reserved >= 7
  PROVE  Spec => []LogHasRoom
<1> DEFINE Space == Placed /\ ChosenInv /\ LogHasRoom
<1>1. Init => Space
  <2> SUFFICES ASSUME Init PROVE Space
    OBVIOUS
  <2>1. /\ running = 0 /\ committing = 0 /\ handles = 0 /\ phase = "none"
        /\ head \in 1 .. L /\ tail = head /\ free = L /\ wbuf = <<>>
        /\ log_start = [t \in 1 .. MaxTid |-> 0] /\ \A b \in Blocks : bh[b].cp = 0
    BY JournalAssumption DEF Init, NoBuffer
  <2>2. L \in Nat \ {0} /\ MaxTid \in Nat
    BY JournalAssumption
  <2>3. Placed
    BY <2>1, <2>2 DEF Placed
  <2>4. wbuf \in Seq([of : Blocks, own : BOOLEAN])
    BY <2>1
  <2>5. ChosenInv
    BY <2>1, <2>4, ChosenBlocks DEF ChosenInv
  <2>6. CommitNeeds(bh, wbuf, 0, "none") = 0 /\ RunningNeeds(bh, 0, 0) = 0
    BY DEF CommitNeeds, RunningNeeds
  <2> QED
    BY <2>1, <2>2, <2>3, <2>5, <2>6 DEF LogHasRoom
<1>2. JInv /\ Space /\ [Next]_vars => Space'
  <2>1. ASSUME Space, UNCHANGED vars PROVE Space'
    BY <2>1 DEF vars, space, trans, lists, Placed, ChosenInv, LogHasRoom
  <2> QED
    BY <2>1, SpaceNext
<1> QED
  BY <1>1, <1>2, JAlways, PTL DEF Spec

=============================================================================
