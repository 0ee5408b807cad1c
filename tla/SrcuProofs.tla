----------------------------- MODULE SrcuProofs -----------------------------
(***************************************************************************)
(* Proofs about kernel/srcu.c for any number of readers, updaters, CPUs    *)
(* and flips.                                                              *)
(*                                                                         *)
(* The argument.  Only one rank has registered readers while nobody is     *)
(* between the flip and the third synchronize_sched.  An updater's first   *)
(* synchronize_sched gets every reader that may hold its element counted,  *)
(* in that rank; the second one gets everybody counted who is about to     *)
(* join the rank, so that from then on the rank only drains and a sum over *)
(* the CPUs, although not taken at one moment, is at least the number of   *)
(* registered readers; the third one waits for the accesses of readers     *)
(* that have left.  An updater that finds `completed' advanced by two gets *)
(* all that from another's call: the first of the two flips was followed   *)
(* by a synchronize_sched that waited for its unlinking store.             *)
(***************************************************************************)
EXTENDS Srcu, FiniteSetTheorems, WellFoundedInduction, TLAPS

(* The updater in the critical section has the mutex.                      *)
Critical == {"sync1", "sync2", "scan", "sync3"}
MutexHeld ==
  \A u \in Updaters : mutex = u <=> upc[u] \in Critical

(* A struct that is not allocated is not used.                             *)
UnusedIsIdle == ~per_cpu_ref => NotInUse

(* The ghost names only readers that still hold a reference.               *)
HoldersHold == \A u \in Updaters : \A r \in holders[u] : ref[r] = "held"

(* Updaters that may still flip; the bound on the model's calls is for     *)
(* them.                                                                   *)
WillFlip == {u \in Updaters : upc[u] \in {"called", "sync1"}
                                \/ (upc[u] = "idle" /\ unlinked[u])}
FlipsBounded == completed + Cardinality(WillFlip) <= MaxFlips

(* The rank that is not the current one is empty, or one updater is        *)
(* draining it.                                                            *)
Registered(r) == rpc[r] \in {"sampled", "in"}
RankDrains ==
  /\ (mutex = NoTask \/ \E m \in Updaters : upc[m] = "sync1") =>
       \A r \in Readers : Registered(r) => ridx[r] = rank_of(completed)
  /\ \A m \in Updaters :
       /\ upc[m] \in {"sync2", "scan", "sync3"} => idx[m] = 1 - rank_of(completed)
       /\ upc[m] = "sync2" =>
            \A r \in Readers : rpc[r] = "sampled" /\ ridx[r] = idx[m] => r \in gp
       /\ upc[m] = "sync3" => \A r \in Readers : rpc[r] = "in" => ridx[r] # idx[m]

(* The sum so far is not below what is left of the counters already read.  *)
SumFromAbove ==
  /\ (\A u \in Updaters : upc[u] # "scan") => cpu = 1 /\ sum = 0
  /\ \A u \in Updaters : upc[u] = "scan" => sum >= active_upto(idx[u])[cpu - 1]

(* What a grace period has done for the element u unlinked: its readers    *)
(* are counted or waited for; counted in rank k; gone or waited for.       *)
Counting(u)   == \A r \in holders[u] : rpc[r] \in {"in", "left"} \/ r \in gp
Counted(u, k) == \A r \in holders[u] : rpc[r] \in {"in", "left"}
                                         /\ (rpc[r] = "in" => ridx[r] = k)
Leaving(u)    == \A r \in holders[u] : rpc[r] = "left" /\ r \in gp

(* The updater that flips.                                                 *)
OwnGracePeriod ==
  \A u \in Updaters :
    /\ upc[u] = "sync1" => Counting(u)
    /\ upc[u] \in {"sync2", "scan"} => Counted(u, idx[u])
    /\ upc[u] = "sync3" => Leaving(u)

(* An updater waiting for the mutex while others flip.                     *)
OthersGracePeriod ==
  \A u \in Updaters : upc[u] = "called" =>
    /\ idx[u] <= completed
    /\ completed - idx[u] = 1 =>
         /\ unlinked[u] \/ (u \in gp /\ \E m \in Updaters : upc[m] = "sync2")
         /\ \A m \in Updaters : upc[m] = "sync1" => Counting(u)
    /\ completed - idx[u] = 2 =>
         /\ unlinked[u]
         /\ (mutex = NoTask \/ \E m \in Updaters : upc[m] = "sync1") => holders[u] = {}
         /\ \A m \in Updaters :
              /\ upc[m] \in {"sync2", "scan"} => Counted(u, idx[m])
              /\ upc[m] = "sync3" => Leaving(u)
    /\ completed - idx[u] >= 3 => unlinked[u] /\ holders[u] = {}

Inv ==
  /\ TypeOK
  /\ MutexHeld
  /\ UnusedIsIdle
  /\ HoldersHold
  /\ FlipsBounded
  /\ RankDrains
  /\ OldRankOnlyDrains
  /\ CountersAddUp
  /\ SumFromAbove
  /\ OwnGracePeriod
  /\ OthersGracePeriod
  /\ GracePeriodElapsed

-----------------------------------------------------------------------------
(* The least-number principle, which stands in for induction below.        *)
LEMMA LeastNatural ==
  ASSUME NEW T \in SUBSET Nat, T # {}
  PROVE  \E m \in T : \A k \in T : m <= k
<1> DEFINE R == {p \in Nat \X Nat : p[1] < p[2]}
<1>1. IsWellFoundedOn(R, Nat)
  BY NatLessThanWellFounded, Zenon DEF OpToRel
<1>2. PICK m \in T : \A k \in T : ~(<<k, m>> \in R)
  <2> HIDE DEF R
  <2> QED
    BY <1>1, WFMin
<1>3. \A k \in T : k < m => <<k, m>> \in R
  OBVIOUS
<1> HIDE DEF R
<1>4. \A k \in T : k \in Nat /\ m \in Nat /\ ~(k < m)
  BY <1>2, <1>3
<1>5. \A k \in T : m <= k
  BY <1>4
<1> QED
  BY <1>5

(* Sums over the CPUs.  The function of partial sums exists, and a change  *)
(* of one counter shows in the sums from that CPU on.                      *)
SumsOf(a, f) == f = [n \in 0 .. NCPU |-> IF n = 0 THEN 0 ELSE f[n - 1] + a[n]]

(* The sums over the first n CPUs are integers.                            *)
LEMMA SumsType ==
  ASSUME NEW a \in [CPUs -> Int], NEW f, SumsOf(a, f)
  PROVE  /\ f \in [0 .. NCPU -> Int]
         /\ f[0] = 0
         /\ \A n \in CPUs : f[n] = f[n - 1] + a[n]
<1>1. NCPU \in Nat /\ NCPU > 0
  BY SrcuAssumption
<1>2. f[0] = 0 /\ \A n \in 1 .. NCPU : f[n] = f[n - 1] + a[n]
  BY <1>1 DEF SumsOf
<1>3. \A n \in 0 .. NCPU : f[n] \in Int
  <2> DEFINE T == {n \in 0 .. NCPU : f[n] \notin Int}
  <2> SUFFICES ASSUME T # {} PROVE FALSE
    OBVIOUS
  <2>1. T \in SUBSET Nat
    OBVIOUS
  <2>2. PICK m \in T : \A k \in T : m <= k
    BY <2>1, LeastNatural
  <2>3. m \in 0 .. NCPU /\ f[m] \notin Int /\ m # 0
    BY <1>2
  <2>4. m - 1 \in 0 .. NCPU /\ m - 1 \notin T /\ m \in 1 .. NCPU
    BY <1>1, <2>2, <2>3
  <2> QED
    BY <1>2, <2>4 DEF CPUs
<1> QED
  BY <1>2, <1>3 DEF SumsOf, CPUs

(* There is such a function: otherwise take the least n that has none.     *)
LEMMA SumsExist ==
  ASSUME NEW a \in [CPUs -> Int]
  PROVE  \E f : SumsOf(a, f)
<1> DEFINE Ok(m) == \E f \in [0 .. m -> Int] :
                      f[0] = 0 /\ \A n \in 1 .. m : f[n] = f[n - 1] + a[n]
           T == {m \in 0 .. NCPU : ~Ok(m)}
<1>1. NCPU \in Nat /\ NCPU > 0
  BY SrcuAssumption
<1>2. Ok(0)
  <2> DEFINE g == [n \in 0 .. 0 |-> 0]
  <2>1. g \in [0 .. 0 -> Int] /\ g[0] = 0 /\ \A n \in 1 .. 0 : g[n] = g[n - 1] + a[n]
    OBVIOUS
  <2> QED
    BY <2>1
<1>3. ASSUME NEW m \in Nat, m < NCPU, Ok(m)
      PROVE  Ok(m + 1)
  <2>1. PICK f \in [0 .. m -> Int] :
               f[0] = 0 /\ \A n \in 1 .. m : f[n] = f[n - 1] + a[n]
    BY <1>3
  <2> DEFINE g == [n \in 0 .. (m + 1) |-> IF n = m + 1 THEN f[m] + a[m + 1] ELSE f[n]]
  <2>2. a[m + 1] \in Int /\ f[m] \in Int
    BY <1>1, <1>3 DEF CPUs
  <2>3. g \in [0 .. (m + 1) -> Int] /\ g[0] = 0
    BY <2>1, <2>2
  <2>4. \A n \in 1 .. (m + 1) : g[n] = g[n - 1] + a[n]
    BY <2>1
  <2> QED
    BY <2>3, <2>4
<1>4. T = {}
  <2> SUFFICES ASSUME T # {} PROVE FALSE
    OBVIOUS
  <2>1. T \in SUBSET Nat
    OBVIOUS
  <2>2. PICK m \in T : \A k \in T : m <= k
    BY <2>1, LeastNatural
  <2> HIDE DEF Ok
  <2>3. m \in 0 .. NCPU /\ ~Ok(m) /\ m # 0
    BY <1>2
  <2>4. m - 1 \in 0 .. NCPU /\ m - 1 \notin T
    BY <1>1, <2>2, <2>3
  <2>5. m - 1 \in Nat /\ m - 1 < NCPU /\ Ok(m - 1) /\ (m - 1) + 1 = m
    BY <1>1, <2>4
  <2> QED
    BY <1>3, <2>5
<1>5. PICK f \in [0 .. NCPU -> Int] :
             f[0] = 0 /\ \A n \in 1 .. NCPU : f[n] = f[n - 1] + a[n]
  <2> HIDE DEF Ok
  <2>1. Ok(NCPU)
    BY <1>1, <1>4
  <2> QED
    BY <2>1 DEF Ok
<1>6. f = [n \in 0 .. NCPU |-> IF n = 0 THEN 0 ELSE f[n - 1] + a[n]]
  BY <1>5
<1> QED
  BY <1>6 DEF SumsOf

(* The sums of the counters ctr; active_upto is this for c.                *)
Upto(ctr, k) ==
  LET upto[n \in 0 .. NCPU] == IF n = 0 THEN 0 ELSE upto[n - 1] + ctr[n][k]
  IN  upto

(* So the recursive function of the model is one: it starts at 0 and adds  *)
(* the counter of each CPU.                                                *)
LEMMA UptoSums ==
  ASSUME NEW ctr \in [CPUs -> [Ranks -> Int]], NEW k \in Ranks
  PROVE  /\ Upto(ctr, k) \in [0 .. NCPU -> Int]
         /\ Upto(ctr, k)[0] = 0
         /\ \A n \in CPUs : Upto(ctr, k)[n] = Upto(ctr, k)[n - 1] + ctr[n][k]
<1> DEFINE a == [n \in CPUs |-> ctr[n][k]]
<1>1. a \in [CPUs -> Int] /\ \A n \in CPUs : a[n] = ctr[n][k]
  OBVIOUS
<1>2. \A f : SumsOf(a, f) <=>
        f = [n \in 0 .. NCPU |-> IF n = 0 THEN 0 ELSE f[n - 1] + ctr[n][k]]
  <2> SUFFICES ASSUME NEW f
               PROVE  [n \in 0 .. NCPU |-> IF n = 0 THEN 0 ELSE f[n - 1] + a[n]]
                        = [n \in 0 .. NCPU |-> IF n = 0 THEN 0 ELSE f[n - 1] + ctr[n][k]]
    BY DEF SumsOf
  <2>1. \A n \in 0 .. NCPU : n # 0 => n \in CPUs
    BY DEF CPUs
  <2> QED
    BY <2>1
<1>3. Upto(ctr, k) = CHOOSE f :
        f = [n \in 0 .. NCPU |-> IF n = 0 THEN 0 ELSE f[n - 1] + ctr[n][k]]
  BY DEF Upto
<1>4. SumsOf(a, Upto(ctr, k))
  <2>1. \E f : SumsOf(a, f)
    BY SumsExist
  <2> QED
    BY <1>2, <1>3, <2>1
<1> HIDE DEF a
<1> QED
  BY <1>1, <1>4, SumsType

(* One counter of rank k changes by d; the sums from that CPU on follow.   *)
LEMMA UptoChange ==
  ASSUME NEW ctr \in [CPUs -> [Ranks -> Int]], NEW new \in [CPUs -> [Ranks -> Int]],
         NEW k \in Ranks, NEW p \in CPUs, NEW d \in Int,
         new[p][k] = ctr[p][k] + d, \A q \in CPUs \ {p} : new[q][k] = ctr[q][k]
  PROVE  \A n \in 0 .. NCPU :
           Upto(new, k)[n] = Upto(ctr, k)[n] + (IF n >= p THEN d ELSE 0)
<1> DEFINE f == Upto(ctr, k)
           g == Upto(new, k)
           D(n) == IF n >= p THEN d ELSE 0
           T == {n \in 0 .. NCPU : g[n] # f[n] + D(n)}
<1>1. NCPU \in Nat /\ CPUs = 1 .. NCPU
  BY SrcuAssumption DEF CPUs
<1>2. f \in [0 .. NCPU -> Int] /\ f[0] = 0 /\ \A n \in CPUs : f[n] = f[n - 1] + ctr[n][k]
  BY UptoSums
<1>3. g \in [0 .. NCPU -> Int] /\ g[0] = 0 /\ \A n \in CPUs : g[n] = g[n - 1] + new[n][k]
  BY UptoSums
<1> HIDE DEF f, g
<1> SUFFICES ASSUME T # {} PROVE FALSE
  BY DEF f, g
<1>4. T \in SUBSET Nat
  OBVIOUS
<1>5. PICK m \in T : \A j \in T : m <= j
  BY <1>4, LeastNatural
<1>6. m \in CPUs /\ m - 1 \in 0 .. NCPU /\ m - 1 \notin T
  <2>1. D(0) = 0 /\ 0 \notin T
    BY <1>1, <1>2, <1>3
  <2>2. m \in 0 .. NCPU /\ m # 0
    BY <2>1
  <2>3. m - 1 \notin T
    BY <1>5
  <2> QED
    BY <1>1, <2>2, <2>3
<1>7. g[m - 1] = f[m - 1] + D(m - 1)
  BY <1>6
<1>9. g[m] = f[m] + D(m)
  <2>1. /\ f[m - 1] \in Int /\ ctr[m][k] \in Int /\ m \in Int /\ p \in Int
    BY <1>2, <1>6
  <2>2. D(m) = D(m - 1) + (IF m = p THEN d ELSE 0)
    BY <2>1
  <2> QED
    BY <1>2, <1>3, <1>6, <1>7, <2>1, <2>2
<1> QED
  BY <1>9

(* Other ranks keep their sums.                                            *)
LEMMA UptoSame ==
  ASSUME NEW ctr \in [CPUs -> [Ranks -> Int]], NEW new \in [CPUs -> [Ranks -> Int]],
         NEW k \in Ranks, \A q \in CPUs : new[q][k] = ctr[q][k]
  PROVE  \A n \in 0 .. NCPU : Upto(new, k)[n] = Upto(ctr, k)[n]
<1>1. NCPU \in Nat /\ 1 \in CPUs
  BY SrcuAssumption DEF CPUs
<1>2. /\ ctr[1][k] \in Int /\ new[1][k] = ctr[1][k] + 0
      /\ \A q \in CPUs \ {1} : new[q][k] = ctr[q][k]
  BY <1>1
<1>3. \A d \in Int : new[1][k] = ctr[1][k] + d =>
        \A n \in 0 .. NCPU : Upto(new, k)[n] = Upto(ctr, k)[n] + (IF n >= 1 THEN d ELSE 0)
  BY <1>1, <1>2, UptoChange, ZenonT(60)
<1>4. \A n \in 0 .. NCPU : Upto(new, k)[n] = Upto(ctr, k)[n] + 0
  BY <1>2, <1>3
<1>5. \A n \in 0 .. NCPU : Upto(ctr, k)[n] \in Int
  BY UptoSums
<1> QED
  BY <1>4, <1>5

(* Counters that are zero add up to zero.                                  *)
LEMMA UptoZero ==
  ASSUME NEW ctr \in [CPUs -> [Ranks -> Int]], NEW k \in Ranks,
         \A q \in CPUs : ctr[q][k] = 0
  PROVE  \A n \in 0 .. NCPU : Upto(ctr, k)[n] = 0
<1> DEFINE f == Upto(ctr, k)
           T == {n \in 0 .. NCPU : f[n] # 0}
<1>1. NCPU \in Nat /\ CPUs = 1 .. NCPU
  BY SrcuAssumption DEF CPUs
<1>2. f[0] = 0 /\ \A n \in CPUs : f[n] = f[n - 1] + 0
  BY UptoSums
<1> HIDE DEF f
<1> SUFFICES ASSUME T # {} PROVE FALSE
  BY DEF f
<1>3. T \in SUBSET Nat
  OBVIOUS
<1>4. PICK m \in T : \A j \in T : m <= j
  BY <1>3, LeastNatural
<1>5. m \in CPUs /\ m - 1 \in 0 .. NCPU /\ m - 1 \notin T
  BY <1>1, <1>2, <1>4
<1> QED
  BY <1>2, <1>5

(* The loop of srcu_readers_active_idx computes these sums.                *)
LEMMA ActiveIsUpto ==
  ASSUME NEW k
  PROVE  /\ active_upto(k) = Upto(c, k) /\ active_upto(k)' = Upto(c', k)
         /\ srcu_readers_active_idx(k) = Upto(c, k)[NCPU]
         /\ srcu_readers_active_idx(k)' = Upto(c', k)[NCPU]
  BY DEF active_upto, Upto, srcu_readers_active_idx

-----------------------------------------------------------------------------
(* The rank is the low bit: it alternates.                                 *)
LEMMA RankFacts ==
  ASSUME NEW n \in Nat
  PROVE  /\ rank_of(n) \in Ranks /\ rank_of(n) <= n
         /\ rank_of(n + 1) = 1 - rank_of(n)
  BY DEF rank_of, Ranks

(* `completed' counts up from 0, and its rank is one of the two.           *)
LEMMA CompletedIsNat ==
  ASSUME TypeOK
  PROVE  completed \in Nat /\ rank_of(completed) \in Ranks
  BY RankFacts DEF TypeOK

(* Only the updater with the mutex is in the critical section.             *)
LEMMA OnlyOne ==
  ASSUME MutexHeld, NEW u \in Updaters, upc[u] \in Critical
  PROVE  /\ mutex = u /\ mutex # NoTask
         /\ \A m \in Updaters : m # u => upc[m] \notin Critical
  BY SrcuAssumption DEF MutexHeld

(* The readers counted in rank k.                                          *)
In(k) == {r \in Readers : rpc[r] = "in" /\ ridx[r] = k}

(* Finitely many readers are counted under a rank.                         *)
LEMMA InFinite ==
  ASSUME NEW k
  PROVE  IsFiniteSet(In(k)) /\ Cardinality(In(k)) \in Nat
<1>1. In(k) \subseteq Readers
  BY DEF In
<1> QED
  BY <1>1, SrcuAssumption, FS_Subset, FS_CardinalityType

(* The number of members when one comes.                                   *)
LEMMA OneMore ==
  ASSUME NEW S, NEW T, NEW x, IsFiniteSet(S), T = S \cup {x}, x \notin S
  PROVE  Cardinality(T) = Cardinality(S) + 1
BY FS_AddElement

(* The number of members when one goes.                                    *)
LEMMA OneLess ==
  ASSUME NEW S, NEW T, NEW x, IsFiniteSet(S), T = S \ {x}, x \in S
  PROVE  Cardinality(T) = Cardinality(S) + (-1)
BY FS_RemoveElement

(* The counters are integers.                                              *)
LEMMA CountersType ==
  ASSUME TypeOK
  PROVE  c \in [CPUs -> [Ranks -> Int]]
  BY DEF TypeOK

(* A step of a reader leaves the updaters alone.                           *)
LEMMA UpdatersStand ==
  ASSUME MutexHeld, FlipsBounded, UNCHANGED <<completed, mutex, upc, unlinked>>
  PROVE  MutexHeld' /\ FlipsBounded'
<1>1. WillFlip' = WillFlip
  BY DEF WillFlip
<1> QED
  BY <1>1 DEF MutexHeld, FlipsBounded

(* A step of an updater leaves the readers' registrations alone.           *)
LEMMA ReadersStand ==
  ASSUME CountersAddUp, UNCHANGED <<c, per_cpu_ref, rpc, ridx>>
  PROVE  CountersAddUp'
  BY DEF CountersAddUp, srcu_readers_active_idx, active_upto

(* The counters of a step that registers nobody and removes nobody.        *)
LEMMA CountersKept ==
  ASSUME CountersAddUp, UNCHANGED <<c, per_cpu_ref>>,
         \A r \in Readers, k \in Ranks :
           (rpc'[r] = "in" /\ ridx'[r] = k) <=> (rpc[r] = "in" /\ ridx[r] = k)
  PROVE  CountersAddUp'
BY DEF CountersAddUp, srcu_readers_active_idx, active_upto

(* One counter changes: that of CPU p and rank j, by d.                    *)
Moves(p, j, d) ==
  /\ c'[p][j] = c[p][j] + d
  /\ \A q \in CPUs, k \in Ranks : (q # p \/ k # j) => c'[q][k] = c[q][k]

(* The sums of rank j follow it from that CPU on; the other rank's do not. *)
LEMMA SumsMove ==
  ASSUME TypeOK, TypeOK', NEW p \in CPUs, NEW j \in Ranks, NEW d \in Int,
         Moves(p, j, d), NEW k \in Ranks, NEW n \in 0 .. NCPU
  PROVE  /\ Upto(c, k)[n] \in Int
         /\ Upto(c', k)[n] = Upto(c, k)[n] + (IF k = j /\ n >= p THEN d ELSE 0)
<1>1. c \in [CPUs -> [Ranks -> Int]] /\ c' \in [CPUs -> [Ranks -> Int]]
  BY DEF TypeOK
<1>2. Upto(c, k)[n] \in Int
  BY <1>1, UptoSums
<1>3. CASE k = j
  <2>1. c'[p][k] = c[p][k] + d /\ \A q \in CPUs \ {p} : c'[q][k] = c[q][k]
    BY <1>3 DEF Moves
  <2>2. \A m \in 0 .. NCPU :
          Upto(c', k)[m] = Upto(c, k)[m] + (IF m >= p THEN d ELSE 0)
    BY <1>1, <2>1, UptoChange, ZenonT(60)
  <2> QED
    BY <1>2, <1>3, <2>2
<1>4. CASE k # j
  <2>1. \A q \in CPUs : c'[q][k] = c[q][k]
    BY <1>4 DEF Moves
  <2>2. Upto(c', k)[n] = Upto(c, k)[n]
    BY <1>1, <2>1, UptoSame
  <2> QED
    BY <1>2, <1>4, <2>2
<1> QED
  BY <1>3, <1>4

(* The rank gains or loses as many readers as its counters.                *)
LEMMA CountersFollow ==
  ASSUME TypeOK, TypeOK', CountersAddUp, UNCHANGED per_cpu_ref,
         NEW p \in CPUs, NEW j \in Ranks, NEW d \in Int, Moves(p, j, d),
         Cardinality(In(j)') = Cardinality(In(j)) + d,
         \A k \in Ranks \ {j} : In(k)' = In(k)
  PROVE  CountersAddUp'
<1>1. NCPU \in 0 .. NCPU /\ NCPU >= p
  BY SrcuAssumption DEF CPUs
<1>2. ASSUME per_cpu_ref, NEW k \in Ranks
      PROVE  srcu_readers_active_idx(k)' = Cardinality(In(k)')
  <2>1. Upto(c, k)[NCPU] = Cardinality(In(k))
    BY <1>2, ActiveIsUpto DEF CountersAddUp, In
  <2>2. /\ Upto(c, k)[NCPU] \in Int
        /\ Upto(c', k)[NCPU] = Upto(c, k)[NCPU] + (IF k = j /\ NCPU >= p THEN d ELSE 0)
    BY <1>1, SumsMove
  <2>3. srcu_readers_active_idx(k)' = Upto(c', k)[NCPU]
    BY ActiveIsUpto
  <2>4. CASE k = j
    BY <1>1, <2>1, <2>2, <2>3
  <2>5. CASE k # j
    <3>1. In(k)' = In(k)
      BY <2>5
    <3> QED
      BY <2>1, <2>2, <2>3, <3>1
  <2> QED
    BY <2>4, <2>5
<1> QED
  BY <1>2 DEF CountersAddUp, In

(* The rank being summed is in range.                                      *)
LEMMA ScannedRank ==
  ASSUME TypeOK, RankDrains, NEW u \in Updaters, upc[u] = "scan"
  PROVE  idx[u] \in Ranks /\ cpu - 1 \in 0 .. NCPU
  BY CompletedIsNat, SrcuAssumption DEF TypeOK, RankDrains, Ranks

(* A counter that is not summed changes, or one goes down: the sum so far  *)
(* stays above what is left.                                               *)
LEMMA SumFollows ==
  ASSUME TypeOK, TypeOK', RankDrains, SumFromAbove, UNCHANGED <<upc, idx, cpu, sum>>,
         NEW p \in CPUs, NEW j \in Ranks, NEW d \in Int, Moves(p, j, d),
         d <= 0 \/ \A u \in Updaters : upc[u] = "scan" => idx[u] # j
  PROVE  SumFromAbove'
<1>1. ASSUME NEW u \in Updaters, upc[u] = "scan"
      PROVE  (sum >= active_upto(idx[u])[cpu - 1])'
  <2>1. idx[u] \in Ranks /\ cpu - 1 \in 0 .. NCPU /\ cpu - 1 \in Int /\ p \in Int
    BY <1>1, ScannedRank DEF CPUs
  <2>2. /\ Upto(c, idx[u])[cpu - 1] \in Int
        /\ Upto(c', idx[u])[cpu - 1] = Upto(c, idx[u])[cpu - 1]
              + (IF idx[u] = j /\ cpu - 1 >= p THEN d ELSE 0)
    BY <2>1, SumsMove
  <2>3. /\ active_upto(idx[u]) = Upto(c, idx[u])
        /\ active_upto(idx[u])' = Upto(c', idx[u])
    BY DEF active_upto, Upto
  <2>4. sum >= Upto(c, idx[u])[cpu - 1] /\ sum \in Int
    BY <1>1, <2>3 DEF SumFromAbove, TypeOK
  <2>5. sum >= Upto(c', idx[u])[cpu - 1]
    BY <1>1, <2>2, <2>4
  <2> QED
    BY <2>3, <2>5
<1> QED
  BY <1>1 DEF SumFromAbove

(* Finitely many updaters are still to flip the rank.                      *)
LEMMA WillFlipFinite ==
  /\ IsFiniteSet(WillFlip) /\ Cardinality(WillFlip) \in Nat
  /\ IsFiniteSet(WillFlip') /\ Cardinality(WillFlip') \in Nat
<1>1. WillFlip \subseteq Updaters /\ WillFlip' \subseteq Updaters
  BY DEF WillFlip
<1> QED
  BY <1>1, SrcuAssumption, FS_Subset, FS_CardinalityType

(* A step after which no more updaters may flip than before.               *)
LEMMA FlipsKept ==
  ASSUME FlipsBounded, UNCHANGED completed, completed \in Nat, WillFlip' \subseteq WillFlip
  PROVE  FlipsBounded'
<1>1. Cardinality(WillFlip') <= Cardinality(WillFlip)
  BY WillFlipFinite, FS_Subset
<1> QED
  BY <1>1, WillFlipFinite, SrcuAssumption DEF FlipsBounded

(* A step that begins a call, which the bound allows.                      *)
LEMMA FlipsGrow ==
  ASSUME FlipsBounded, UNCHANGED completed, completed \in Nat, NEW u \in Updaters,
         WillFlip' \subseteq WillFlip \cup {u}, MayCall(u), u \in Busy => u \in WillFlip
  PROVE  FlipsBounded'
<1>1. CASE u \in WillFlip
  <2>1. WillFlip' \subseteq WillFlip
    BY <1>1
  <2> QED
    BY <2>1, FlipsKept
<1>2. CASE u \notin WillFlip
  <2>1. completed + Cardinality(Busy) < MaxFlips
    BY <1>2 DEF MayCall
  <2>2. WillFlip \subseteq Busy /\ Busy \subseteq Updaters
    BY DEF WillFlip, Busy, UPcs
  <2>3. IsFiniteSet(Busy) /\ Cardinality(Busy) \in Nat
    BY <2>2, SrcuAssumption, FS_Subset, FS_CardinalityType
  <2>4. Cardinality(WillFlip) <= Cardinality(Busy)
    BY <2>2, <2>3, FS_Subset
  <2>5. /\ IsFiniteSet(WillFlip \cup {u})
        /\ Cardinality(WillFlip \cup {u}) = Cardinality(WillFlip) + 1
    BY <1>2, WillFlipFinite, FS_AddElement
  <2>6. Cardinality(WillFlip') <= Cardinality(WillFlip \cup {u})
    BY <2>5, FS_Subset
  <2> QED
    BY <2>1, <2>3, <2>4, <2>5, <2>6, WillFlipFinite, SrcuAssumption
       DEF FlipsBounded
<1> QED
  BY <1>1, <1>2

(* A step that neither reads counters nor changes them.                    *)
LEMMA SumKept ==
  ASSUME SumFromAbove, UNCHANGED <<c, cpu, sum>>,
         \A u \in Updaters : upc'[u] = "scan" <=> upc[u] = "scan",
         \A u \in Updaters : upc[u] = "scan" => idx'[u] = idx[u]
  PROVE  SumFromAbove'
<1>1. ASSUME NEW u \in Updaters
      PROVE  /\ active_upto(idx[u]) = Upto(c, idx[u])
             /\ active_upto(idx[u])' = Upto(c', idx'[u])
  BY DEF active_upto, Upto
<1>2. ASSUME NEW u \in Updaters, upc'[u] = "scan"
      PROVE  (sum >= active_upto(idx[u])[cpu - 1])'
  <2>1. sum >= Upto(c, idx[u])[cpu - 1] /\ idx'[u] = idx[u]
    BY <1>1, <1>2 DEF SumFromAbove
  <2> QED
    BY <1>1, <2>1
<1> QED
  BY <1>2 DEF SumFromAbove

-----------------------------------------------------------------------------
(* A reader's first access.                                                *)
LEMMA FirstAccessStep ==
  ASSUME Inv, NEW r \in Readers, FirstAccess(r)
  PROVE  Inv'
<1> USE DEF rvars, uvars, FirstAccess
<1>0. /\ TypeOK /\ MutexHeld /\ UnusedIsIdle /\ HoldersHold /\ FlipsBounded
      /\ RankDrains /\ OldRankOnlyDrains /\ CountersAddUp /\ SumFromAbove
      /\ OwnGracePeriod /\ OthersGracePeriod /\ GracePeriodElapsed
  BY DEF Inv
<1>1. TypeOK'
  BY <1>0 DEF TypeOK
<1>2. MutexHeld' /\ FlipsBounded'
  BY <1>0, UpdatersStand
<1>3. UnusedIsIdle'
  BY DEF UnusedIsIdle
<1>4. HoldersHold'
  BY <1>0 DEF HoldersHold
<1>5. RankDrains'
  BY <1>0 DEF RankDrains, Registered
<1>6. OldRankOnlyDrains'
  BY <1>0 DEF OldRankOnlyDrains
<1>7. CountersAddUp'
  BY <1>0, CountersKept
<1>8. SumFromAbove'
  BY <1>0, SumKept
<1>9. OwnGracePeriod'
  BY <1>0 DEF OwnGracePeriod, Counting, Counted, Leaving
<1>10. OthersGracePeriod'
  BY <1>0 DEF OthersGracePeriod, Counting, Counted, Leaving
<1>11. GracePeriodElapsed'
  BY <1>0 DEF GracePeriodElapsed
<1> QED
  BY <1>1, <1>2, <1>3, <1>4, <1>5, <1>6, <1>7, <1>8, <1>9, <1>10, <1>11 DEF Inv

(* srcu_read_lock reads the rank.                                          *)
LEMMA SampleStep ==
  ASSUME Inv, NEW r \in Readers, srcu_read_lock_sample(r)
  PROVE  Inv'
<1> USE DEF rvars, uvars, srcu_read_lock_sample
<1>0. /\ TypeOK /\ MutexHeld /\ UnusedIsIdle /\ HoldersHold /\ FlipsBounded
      /\ RankDrains /\ OldRankOnlyDrains /\ CountersAddUp /\ SumFromAbove
      /\ OwnGracePeriod /\ OthersGracePeriod /\ GracePeriodElapsed
  BY DEF Inv
<1>1. TypeOK'
  BY <1>0, CompletedIsNat DEF TypeOK, RPcs
<1>2. MutexHeld' /\ FlipsBounded'
  BY <1>0, UpdatersStand
<1>3. UnusedIsIdle'
  BY DEF UnusedIsIdle
<1>4. HoldersHold'
  BY <1>0 DEF HoldersHold
<1>5. RankDrains'
  BY <1>0, RankFacts DEF TypeOK, Ranks, RankDrains, Registered
<1>6. OldRankOnlyDrains'
  BY <1>0, RankFacts DEF TypeOK, Ranks, RankDrains, OldRankOnlyDrains
<1>7. CountersAddUp'
  BY <1>0, CountersKept
<1>8. SumFromAbove'
  BY <1>0, SumKept
<1>9. OwnGracePeriod'
  BY <1>0 DEF OwnGracePeriod, Counting, Counted, Leaving
<1>10. OthersGracePeriod'
  BY <1>0 DEF OthersGracePeriod, Counting, Counted, Leaving
<1>11. GracePeriodElapsed'
  BY <1>0 DEF GracePeriodElapsed
<1> QED
  BY <1>1, <1>2, <1>3, <1>4, <1>5, <1>6, <1>7, <1>8, <1>9, <1>10, <1>11 DEF Inv

(* srcu_read_lock counts the reader.                                       *)
LEMMA CountStep ==
  ASSUME Inv, NEW r \in Readers, NEW p \in CPUs, srcu_read_lock_count(r, p)
  PROVE  Inv'
<1> USE DEF rvars, uvars, srcu_read_lock_count
<1>0. /\ TypeOK /\ MutexHeld /\ UnusedIsIdle /\ HoldersHold /\ FlipsBounded
      /\ RankDrains /\ OldRankOnlyDrains /\ CountersAddUp /\ SumFromAbove
      /\ OwnGracePeriod /\ OthersGracePeriod /\ GracePeriodElapsed
  BY DEF Inv
<1>1. TypeOK'
  <2>2. c[p][ridx[r]] + 1 \in -MaxRef .. MaxRef
    BY <1>0, SrcuAssumption DEF TypeOK
  <2>3. c' \in [CPUs -> [Ranks -> -MaxRef .. MaxRef]]
    BY <1>0, <2>2 DEF TypeOK
  <2>4. rpc' \in [Readers -> RPcs] /\ gp' \subseteq Readers \cup Updaters
    BY <1>0 DEF TypeOK, RPcs
  <2> QED
    BY <1>0, <2>3, <2>4 DEF TypeOK
<1>2. MutexHeld' /\ FlipsBounded'
  BY <1>0, UpdatersStand
<1>3. UnusedIsIdle'
  BY <1>0 DEF UnusedIsIdle, NotInUse
<1>4. HoldersHold'
  BY <1>0 DEF HoldersHold
<1>5. RankDrains'
  BY <1>0 DEF TypeOK, RankDrains, OldRankOnlyDrains, Registered
<1>6. OldRankOnlyDrains'
  BY <1>0 DEF OldRankOnlyDrains
<1>7. CountersAddUp'
  <2> SUFFICES ASSUME NEW j \in Ranks, j = ridx[r]
               PROVE  CountersAddUp'
    BY <1>0 DEF TypeOK
  <2>1. Moves(p, j, 1)
    BY <1>0, CountersType DEF Moves
  <2>2. In(j)' = In(j) \cup {r} /\ r \notin In(j) /\ \A k \in Ranks \ {j} : In(k)' = In(k)
    BY <1>0 DEF In, TypeOK
  <2>3. Cardinality(In(j)') = Cardinality(In(j)) + 1
    BY <2>2, InFinite, OneMore, Zenon
  <2> HIDE DEF srcu_read_lock_count
  <2>4. UNCHANGED per_cpu_ref
    BY DEF srcu_read_lock_count
  <2> QED
    BY <1>0, <1>1, <2>1, <2>2, <2>3, <2>4, CountersFollow
<1>8. SumFromAbove'
  <2> SUFFICES ASSUME NEW j \in Ranks, j = ridx[r]
               PROVE  SumFromAbove'
    BY <1>0 DEF TypeOK
  <2>1. Moves(p, j, 1)
    BY <1>0, CountersType DEF Moves
  <2>2. \A u \in Updaters : upc[u] = "scan" => idx[u] # j
    BY <1>0 DEF OldRankOnlyDrains
  <2>3. UNCHANGED <<upc, idx, cpu, sum>>
    OBVIOUS
  <2> HIDE DEF srcu_read_lock_count
  <2> QED
    BY <1>0, <1>1, <2>1, <2>2, <2>3, SumFollows
<1>9. OwnGracePeriod'
  BY <1>0 DEF TypeOK, OwnGracePeriod, Counting, Counted, Leaving
<1>10. OthersGracePeriod'
  BY <1>0, SrcuAssumption
     DEF TypeOK, OthersGracePeriod, Counting, Counted, Leaving
<1>11. GracePeriodElapsed'
  BY <1>0 DEF GracePeriodElapsed
<1> QED
  BY <1>1, <1>2, <1>3, <1>4, <1>5, <1>6, <1>7, <1>8, <1>9, <1>10, <1>11 DEF Inv

(* srcu_read_unlock, on any CPU.                                           *)
LEMMA UnlockStep ==
  ASSUME Inv, NEW r \in Readers, NEW p \in CPUs, srcu_read_unlock(r, p)
  PROVE  Inv'
<1> USE DEF rvars, uvars, srcu_read_unlock, Gone, unlock_rank
<1>0. /\ TypeOK /\ MutexHeld /\ UnusedIsIdle /\ HoldersHold /\ FlipsBounded
      /\ RankDrains /\ OldRankOnlyDrains /\ CountersAddUp /\ SumFromAbove
      /\ OwnGracePeriod /\ OthersGracePeriod /\ GracePeriodElapsed
  BY DEF Inv
<1>1. TypeOK'
  <2>2. c[p][ridx[r]] - 1 \in -MaxRef .. MaxRef
    BY <1>0, SrcuAssumption DEF TypeOK
  <2>3. c' \in [CPUs -> [Ranks -> -MaxRef .. MaxRef]]
    BY <1>0, <2>2 DEF TypeOK
  <2>4. /\ rpc' \in [Readers -> RPcs] /\ gp' \subseteq Readers \cup Updaters
        /\ ridx' \in [Readers -> Ranks] /\ ref' \in [Readers -> {"none", "held", "dropped"}]
    BY <1>0 DEF TypeOK, RPcs, Ranks
  <2> QED
    BY <1>0, <2>3, <2>4 DEF TypeOK
<1>2. MutexHeld' /\ FlipsBounded'
  BY <1>0, UpdatersStand
<1>3. UnusedIsIdle'
  BY <1>0 DEF UnusedIsIdle, NotInUse
<1>4. HoldersHold'
  BY <1>0 DEF TypeOK, HoldersHold
<1>5. RankDrains'
  BY <1>0
     DEF TypeOK, Ranks, MutexHeld, Critical, RankDrains, OldRankOnlyDrains,
         Registered
<1>6. OldRankOnlyDrains'
  BY <1>0 DEF TypeOK, OldRankOnlyDrains
<1>7. CountersAddUp'
  <2> SUFFICES ASSUME NEW j \in Ranks, j = ridx[r]
               PROVE  CountersAddUp'
    BY <1>0 DEF TypeOK
  <2>1. Moves(p, j, -1)
    BY <1>0, CountersType DEF Moves
  <2>2. rpc'[r] # "in" /\ \A q \in Readers \ {r} : rpc'[q] = rpc[q] /\ ridx'[q] = ridx[q]
    BY <1>0 DEF TypeOK
  <2>3. In(j)' = In(j) \ {r} /\ r \in In(j) /\ \A k \in Ranks \ {j} : In(k)' = In(k)
    BY <2>2 DEF In
  <2>4. Cardinality(In(j)') = Cardinality(In(j)) + (-1)
    BY <2>3, InFinite, OneLess, Zenon
  <2>5. UNCHANGED per_cpu_ref
    OBVIOUS
  <2> HIDE DEF srcu_read_unlock
  <2> QED
    BY <1>0, <1>1, <2>1, <2>3, <2>4, <2>5, CountersFollow
<1>8. SumFromAbove'
  <2> SUFFICES ASSUME NEW j \in Ranks, j = ridx[r]
               PROVE  SumFromAbove'
    BY <1>0 DEF TypeOK
  <2>1. Moves(p, j, -1)
    BY <1>0, CountersType DEF Moves
  <2>2. UNCHANGED <<upc, idx, cpu, sum>>
    OBVIOUS
  <2> HIDE DEF srcu_read_unlock
  <2> QED
    BY <1>0, <1>1, <2>1, <2>2, SumFollows
<1>9. OwnGracePeriod'
  <2>1. \A v \in Updaters : \A h \in holders[v] :
          \/ rpc'[h] = rpc[h] /\ ridx'[h] = ridx[h] /\ (h \in gp => h \in gp')
          \/ rpc[h] = "in" /\ rpc'[h] = "left" /\ gp' = gp
    BY <1>0 DEF TypeOK, HoldersHold
  <2>2. UNCHANGED <<holders, upc, idx>>
    OBVIOUS
  <2> HIDE DEF srcu_read_unlock
  <2> QED
    BY <1>0, <2>1, <2>2 DEF OwnGracePeriod, Counting, Counted, Leaving
<1>10. OthersGracePeriod'
  BY <1>0, SrcuAssumption
     DEF TypeOK, MutexHeld, Critical, HoldersHold, OthersGracePeriod, Counting,
         Counted, Leaving
<1>11. GracePeriodElapsed'
  BY <1>0 DEF GracePeriodElapsed
<1> QED
  BY <1>1, <1>2, <1>3, <1>4, <1>5, <1>6, <1>7, <1>8, <1>9, <1>10, <1>11 DEF Inv

(* A reader's last access.                                                 *)
LEMMA LastAccessStep ==
  ASSUME Inv, NEW r \in Readers, LastAccess(r)
  PROVE  Inv'
<1> USE DEF rvars, uvars, LastAccess, Gone
<1>0. /\ TypeOK /\ MutexHeld /\ UnusedIsIdle /\ HoldersHold /\ FlipsBounded
      /\ RankDrains /\ OldRankOnlyDrains /\ CountersAddUp /\ SumFromAbove
      /\ OwnGracePeriod /\ OthersGracePeriod /\ GracePeriodElapsed
  BY DEF Inv
<1>1. TypeOK'
  <2>1. /\ rpc' \in [Readers -> RPcs] /\ gp' \subseteq Readers \cup Updaters
        /\ ridx' \in [Readers -> Ranks] /\ ref' \in [Readers -> {"none", "held", "dropped"}]
    BY <1>0 DEF TypeOK, RPcs, Ranks
  <2> QED
    BY <1>0, <2>1 DEF TypeOK
<1>2. MutexHeld' /\ FlipsBounded'
  BY <1>0, UpdatersStand
<1>3. UnusedIsIdle'
  BY <1>0 DEF UnusedIsIdle, NotInUse
<1>4. HoldersHold'
  BY <1>0 DEF TypeOK, HoldersHold
<1>5. RankDrains'
  BY <1>0 DEF TypeOK, MutexHeld, Critical, RankDrains, Registered
<1>6. OldRankOnlyDrains'
  BY <1>0 DEF TypeOK, OldRankOnlyDrains
<1>7. CountersAddUp'
  <2>1. \A q \in Readers, k \in Ranks :
          (rpc'[q] = "in" /\ ridx'[q] = k) <=> (rpc[q] = "in" /\ ridx[q] = k)
    BY <1>0 DEF TypeOK
  <2> QED
    BY <1>0, <2>1, CountersKept
<1>8. SumFromAbove'
  BY <1>0, SumKept
<1>9. OwnGracePeriod'
  BY <1>0 DEF TypeOK, OwnGracePeriod, Counting, Counted, Leaving
<1>10. OthersGracePeriod'
  BY <1>0, SrcuAssumption
     DEF TypeOK, OthersGracePeriod, Counting, Counted, Leaving
<1>11. GracePeriodElapsed'
  BY <1>0 DEF GracePeriodElapsed
<1> QED
  BY <1>1, <1>2, <1>3, <1>4, <1>5, <1>6, <1>7, <1>8, <1>9, <1>10, <1>11 DEF Inv

(* The unlinking store.                                                    *)
LEMMA UnlinkStep ==
  ASSUME Inv, NEW u \in Updaters, Unlink(u)
  PROVE  Inv'
<1> USE DEF rvars, uvars, Unlink
<1>0. /\ TypeOK /\ MutexHeld /\ UnusedIsIdle /\ HoldersHold /\ FlipsBounded
      /\ RankDrains /\ OldRankOnlyDrains /\ CountersAddUp /\ SumFromAbove
      /\ OwnGracePeriod /\ OthersGracePeriod /\ GracePeriodElapsed
  BY DEF Inv
<1>1. TypeOK'
  BY <1>0 DEF TypeOK
<1>2. MutexHeld'
  BY <1>0 DEF MutexHeld
<1>3. UnusedIsIdle'
  BY DEF UnusedIsIdle, MayCall
<1>4. HoldersHold'
  BY <1>0 DEF HoldersHold
<1>5. FlipsBounded'
  <2>1. WillFlip' \subseteq WillFlip \cup {u} /\ (u \in Busy => u \in WillFlip)
    BY DEF WillFlip, Busy
  <2> QED
    BY <1>0, <2>1, CompletedIsNat, FlipsGrow
<1>6. RankDrains'
  BY <1>0, SrcuAssumption DEF RankDrains, Registered
<1>7. OldRankOnlyDrains'
  BY <1>0 DEF OldRankOnlyDrains
<1>8. CountersAddUp'
  BY <1>0, ReadersStand
<1>9. SumFromAbove'
  BY <1>0, SumKept
<1>10. OwnGracePeriod'
  BY <1>0, SrcuAssumption DEF TypeOK, OwnGracePeriod, Counting, Counted, Leaving
<1>11. OthersGracePeriod'
  BY <1>0, SrcuAssumption
     DEF TypeOK, MutexHeld, Critical, OthersGracePeriod, Counting, Counted,
         Leaving
<1>12. GracePeriodElapsed'
  BY <1>0 DEF GracePeriodElapsed
<1> QED
  BY <1>1, <1>2, <1>3, <1>4, <1>5, <1>6, <1>7, <1>8, <1>9, <1>10, <1>11, <1>12
     DEF Inv

(* The call and its first load of completed.                               *)
LEMMA CallStep ==
  ASSUME Inv, NEW u \in Updaters, synchronize_srcu(u)
  PROVE  Inv'
<1> USE DEF rvars, uvars, synchronize_srcu
<1>0. /\ TypeOK /\ MutexHeld /\ UnusedIsIdle /\ HoldersHold /\ FlipsBounded
      /\ RankDrains /\ OldRankOnlyDrains /\ CountersAddUp /\ SumFromAbove
      /\ OwnGracePeriod /\ OthersGracePeriod /\ GracePeriodElapsed
  BY DEF Inv
<1>1. TypeOK'
  BY <1>0 DEF TypeOK, UPcs
<1>2. MutexHeld'
  BY <1>0 DEF MutexHeld, Critical
<1>3. UnusedIsIdle'
  BY DEF UnusedIsIdle, MayCall
<1>4. HoldersHold'
  BY <1>0 DEF HoldersHold
<1>5. FlipsBounded'
  <2>1. WillFlip' \subseteq WillFlip \cup {u} /\ (u \in Busy => u \in WillFlip)
    BY DEF WillFlip, Busy
  <2> QED
    BY <1>0, <2>1, CompletedIsNat, FlipsGrow
<1>6. RankDrains'
  BY <1>0 DEF RankDrains, Registered
<1>7. OldRankOnlyDrains'
  BY <1>0 DEF OldRankOnlyDrains
<1>8. CountersAddUp'
  BY <1>0, ReadersStand
<1>9. SumFromAbove'
  BY <1>0, SumKept
<1>10. OwnGracePeriod'
  BY <1>0 DEF OwnGracePeriod, Counting, Counted, Leaving
<1>11. OthersGracePeriod'
  BY <1>0 DEF TypeOK, OthersGracePeriod, Counting, Counted, Leaving
<1>12. GracePeriodElapsed'
  BY <1>0 DEF GracePeriodElapsed
<1> QED
  BY <1>1, <1>2, <1>3, <1>4, <1>5, <1>6, <1>7, <1>8, <1>9, <1>10, <1>11, <1>12
     DEF Inv

(* mutex_lock and the check.                                               *)
LEMMA LockStep ==
  ASSUME Inv, NEW u \in Updaters, lock_and_check(u)
  PROVE  Inv'
<1> USE DEF rvars, uvars, lock_and_check, synchronize_sched, others_did_the_work
<1>0. /\ TypeOK /\ MutexHeld /\ UnusedIsIdle /\ HoldersHold /\ FlipsBounded
      /\ RankDrains /\ OldRankOnlyDrains /\ CountersAddUp /\ SumFromAbove
      /\ OwnGracePeriod /\ OthersGracePeriod /\ GracePeriodElapsed
  BY DEF Inv
<1>1. TypeOK'
  BY <1>0, SrcuAssumption DEF TypeOK, UPcs
<1>2. MutexHeld'
  BY <1>0, SrcuAssumption DEF TypeOK, MutexHeld, Critical
<1>3. UnusedIsIdle'
  BY <1>0 DEF UnusedIsIdle, NotInUse
<1>4. HoldersHold'
  BY <1>0 DEF HoldersHold
<1>5. FlipsBounded'
  <2>1. WillFlip' \subseteq WillFlip
    BY <1>0 DEF TypeOK, WillFlip
  <2> QED
    BY <1>0, <2>1, FlipsKept DEF TypeOK
<1>6. RankDrains'
  BY <1>0 DEF TypeOK, MutexHeld, RankDrains, Registered, Quiet
<1>7. OldRankOnlyDrains'
  BY <1>0 DEF TypeOK, OldRankOnlyDrains
<1>8. CountersAddUp'
  BY <1>0, ReadersStand
<1>9. SumFromAbove'
  <2>1. \A v \in Updaters : /\ upc'[v] = "scan" <=> upc[v] = "scan"
                            /\ upc[v] = "scan" => idx'[v] = idx[v]
    BY <1>0 DEF TypeOK
  <2> QED
    BY <1>0, <2>1, SumKept
<1>10. OwnGracePeriod'
  BY <1>0
     DEF TypeOK, HoldersHold, Quiet, OwnGracePeriod, Counting, Counted, Leaving
<1>11. OthersGracePeriod'
  BY <1>0, SrcuAssumption
     DEF TypeOK, HoldersHold, Quiet, OthersGracePeriod, Counting, Counted,
         Leaving
<1>12. GracePeriodElapsed'
  BY <1>0 DEF TypeOK, OthersGracePeriod, GracePeriodElapsed
<1> QED
  BY <1>1, <1>2, <1>3, <1>4, <1>5, <1>6, <1>7, <1>8, <1>9, <1>10, <1>11, <1>12
     DEF Inv

(* The flip.                                                               *)
LEMMA FlipStep ==
  ASSUME Inv, NEW u \in Updaters, flip(u)
  PROVE  Inv'
<1> USE DEF rvars, uvars, flip, synchronize_sched, flipped
<1>0. /\ TypeOK /\ MutexHeld /\ UnusedIsIdle /\ HoldersHold /\ FlipsBounded
      /\ RankDrains /\ OldRankOnlyDrains /\ CountersAddUp /\ SumFromAbove
      /\ OwnGracePeriod /\ OthersGracePeriod /\ GracePeriodElapsed
  BY DEF Inv
<1>1. TypeOK'
  <2>1. u \in WillFlip
    BY DEF WillFlip
  <2>2. Cardinality(WillFlip) # 0
    BY <2>1, WillFlipFinite, FS_EmptySet
  <2>3. completed + 1 \in 0 .. MaxFlips /\ rank_of(completed) \in 0 .. MaxFlips
    BY <1>0, <2>2, CompletedIsNat, RankFacts, WillFlipFinite, SrcuAssumption
       DEF FlipsBounded, Ranks
  <2> QED
    BY <1>0, <2>3 DEF TypeOK, UPcs
<1>2. MutexHeld'
  BY <1>0 DEF MutexHeld, Critical
<1>3. UnusedIsIdle'
  BY <1>0 DEF UnusedIsIdle, NotInUse
<1>4. HoldersHold'
  BY <1>0 DEF HoldersHold
<1>5. FlipsBounded'
  <2>1. WillFlip' = WillFlip \ {u} /\ u \in WillFlip
    BY <1>0 DEF TypeOK, WillFlip
  <2>2. Cardinality(WillFlip') = Cardinality(WillFlip) - 1
    BY <2>1, WillFlipFinite, FS_RemoveElement
  <2> QED
    BY <1>0, <2>2, CompletedIsNat, WillFlipFinite DEF FlipsBounded
<1>6. RankDrains'
  <2>1. mutex = u /\ mutex # NoTask /\ \A m \in Updaters : m # u => upc[m] \notin Critical
    BY <1>0, OnlyOne DEF Critical
  <2>2. /\ upc'[u] = "sync2" /\ idx'[u] = rank_of(completed)
        /\ \A m \in Updaters : m # u => upc'[m] \notin Critical
    BY <1>0, <2>1 DEF TypeOK
  <2>3. idx'[u] = 1 - rank_of(completed')
    BY <1>0, <2>2, CompletedIsNat, RankFacts DEF Ranks
  <2>4. \A r \in Readers : rpc'[r] = "sampled" => r \in gp'
    BY DEF Quiet
  <2> QED
    BY <2>1, <2>2, <2>3, <2>4 DEF RankDrains, Critical
<1>7. OldRankOnlyDrains'
  BY <1>0 DEF OldRankOnlyDrains
<1>8. CountersAddUp'
  BY <1>0, ReadersStand
<1>9. SumFromAbove'
  <2>1. \A v \in Updaters : /\ upc'[v] = "scan" <=> upc[v] = "scan"
                            /\ upc[v] = "scan" => idx'[v] = idx[v]
    OBVIOUS
  <2> QED
    BY <1>0, SumKept
<1>10. OwnGracePeriod'
  BY <1>0
     DEF TypeOK, RankDrains, Registered, OwnGracePeriod, Counting, Counted,
         Leaving
<1>11. OthersGracePeriod'
  <2>1. mutex = u /\ mutex # NoTask /\ \A m \in Updaters : m # u => upc[m] \notin Critical
    BY <1>0, OnlyOne DEF Critical
  <2>2. /\ upc'[u] = "sync2" /\ idx'[u] = rank_of(completed)
        /\ \A m \in Updaters : m # u => upc'[m] \notin Critical
    BY <1>0, <2>1 DEF TypeOK
  <2>3. SUFFICES ASSUME NEW v \in Updaters, upc'[v] = "called"
                 PROVE  /\ idx'[v] <= completed'
                        /\ completed' - idx'[v] = 1 => unlinked'[v] \/ v \in gp'
                        /\ completed' - idx'[v] = 2 => unlinked'[v] /\ Counted(v, idx[u])'
                        /\ completed' - idx'[v] >= 3 => unlinked'[v] /\ holders'[v] = {}
    BY <2>1, <2>2 DEF OthersGracePeriod, Critical
  <2>4. v # u /\ upc[v] = "called" /\ idx'[v] = idx[v] /\ idx[v] \in Nat /\ completed \in Nat
    BY <1>0, <2>3 DEF TypeOK
  <2>5. ~unlinked[v] => v \in gp'
    BY <2>4, SrcuAssumption DEF Quiet
  <2>6. completed - idx[v] = 1 => unlinked[v] /\ Counted(v, idx[u])'
    <3>1. completed - idx[v] = 1 => unlinked[v] /\ Counting(v)
      BY <1>0, <2>4 DEF OthersGracePeriod
    <3>2. \A r \in Readers : rpc[r] = "in" => ridx[r] = rank_of(completed)
      BY <1>0 DEF RankDrains, Registered
    <3>3. holders[v] \subseteq Readers
      BY <1>0 DEF TypeOK
    <3> QED
      BY <2>2, <3>1, <3>2, <3>3 DEF Counting, Counted
  <2>7. /\ idx[v] <= completed
        /\ completed - idx[v] >= 2 => unlinked[v] /\ holders[v] = {}
    BY <1>0, <2>4 DEF OthersGracePeriod
  <2> QED
    BY <2>4, <2>5, <2>6, <2>7
<1>12. GracePeriodElapsed'
  BY <1>0 DEF GracePeriodElapsed
<1> QED
  BY <1>1, <1>2, <1>3, <1>4, <1>5, <1>6, <1>7, <1>8, <1>9, <1>10, <1>11, <1>12
     DEF Inv

(* The second synchronize_sched returns.                                   *)
LEMMA ScanStartStep ==
  ASSUME Inv, NEW u \in Updaters, scan_start(u)
  PROVE  Inv'
<1> USE DEF rvars, uvars, scan_start, readers_counted
<1>0. /\ TypeOK /\ MutexHeld /\ UnusedIsIdle /\ HoldersHold /\ FlipsBounded
      /\ RankDrains /\ OldRankOnlyDrains /\ CountersAddUp /\ SumFromAbove
      /\ OwnGracePeriod /\ OthersGracePeriod /\ GracePeriodElapsed
  BY DEF Inv
<1>1. TypeOK'
  BY <1>0 DEF TypeOK, UPcs
<1>2. MutexHeld'
  BY <1>0 DEF MutexHeld, Critical
<1>3. UnusedIsIdle'
  BY <1>0 DEF UnusedIsIdle, NotInUse
<1>4. HoldersHold'
  BY <1>0 DEF HoldersHold
<1>5. FlipsBounded'
  <2>1. WillFlip' \subseteq WillFlip
    BY DEF WillFlip
  <2> QED
    BY <1>0, <2>1, FlipsKept DEF TypeOK
<1>6. RankDrains'
  BY <1>0 DEF RankDrains, Registered
<1>7. OldRankOnlyDrains'
  BY <1>0 DEF RankDrains, OldRankOnlyDrains
<1>8. CountersAddUp'
  BY <1>0, ReadersStand
<1>9. SumFromAbove'
  <2>1. \A v \in Updaters : v # u => upc[v] \notin Critical
    BY <1>0, OnlyOne DEF Critical
  <2>2. cpu = 1 /\ sum = 0
    BY <1>0, <2>1 DEF SumFromAbove, Critical
  <2>3. idx[u] \in Ranks
    BY <1>0, CompletedIsNat DEF RankDrains, Ranks
  <2>4. Upto(c, idx[u])[0] = 0
    BY <1>0, <2>3, CountersType, UptoSums
  <2>5. active_upto(idx[u])' = Upto(c, idx[u])
    BY DEF active_upto, Upto
  <2>6. /\ \A v \in Updaters : v # u => upc'[v] # "scan"
        /\ upc'[u] = "scan" /\ cpu' - 1 = 0 /\ sum' = 0
    BY <1>0, <2>1, <2>2 DEF TypeOK, Critical
  <2> QED
    BY <2>4, <2>5, <2>6 DEF SumFromAbove
<1>10. OwnGracePeriod'
  BY <1>0 DEF OwnGracePeriod, Counting, Counted, Leaving
<1>11. OthersGracePeriod'
  BY <1>0 DEF OthersGracePeriod, Counting, Counted, Leaving
<1>12. GracePeriodElapsed'
  BY <1>0 DEF GracePeriodElapsed
<1> QED
  BY <1>1, <1>2, <1>3, <1>4, <1>5, <1>6, <1>7, <1>8, <1>9, <1>10, <1>11, <1>12
     DEF Inv

(* One counter is read.                                                    *)
LEMMA ScanCpuStep ==
  ASSUME Inv, NEW u \in Updaters, scan_cpu(u)
  PROVE  Inv'
<1> USE DEF rvars, uvars, scan_cpu
<1>0. /\ TypeOK /\ MutexHeld /\ UnusedIsIdle /\ HoldersHold /\ FlipsBounded
      /\ RankDrains /\ OldRankOnlyDrains /\ CountersAddUp /\ SumFromAbove
      /\ OwnGracePeriod /\ OthersGracePeriod /\ GracePeriodElapsed
  BY DEF Inv
<1>1. TypeOK'
  <2>2. sum' \in Int /\ cpu' \in 1 .. NCPU + 1
    BY <1>0, SrcuAssumption DEF TypeOK
  <2> QED
    BY <1>0, <2>2 DEF TypeOK
<1>2. MutexHeld'
  BY <1>0 DEF MutexHeld
<1>3. UnusedIsIdle'
  BY <1>0 DEF UnusedIsIdle, NotInUse
<1>4. HoldersHold'
  BY <1>0 DEF HoldersHold
<1>5. FlipsBounded'
  <2>1. WillFlip' \subseteq WillFlip
    BY DEF WillFlip
  <2> QED
    BY <1>0, <2>1, FlipsKept DEF TypeOK
<1>6. RankDrains'
  BY <1>0 DEF RankDrains, Registered
<1>7. OldRankOnlyDrains'
  BY <1>0 DEF OldRankOnlyDrains
<1>8. CountersAddUp'
  BY <1>0, ReadersStand
<1>9. SumFromAbove'
  <2>1. \A v \in Updaters : v # u => upc[v] \notin Critical
    BY <1>0, OnlyOne DEF Critical
  <2>2. idx[u] \in Ranks /\ cpu \in CPUs /\ cpu - 1 \in 0 .. NCPU /\ cpu \in Int
    BY <1>0, ScannedRank DEF TypeOK, CPUs
  <2>3. /\ Upto(c, idx[u])[cpu - 1] \in Int /\ c[cpu][idx[u]] \in Int
        /\ Upto(c, idx[u])[cpu] = Upto(c, idx[u])[cpu - 1] + c[cpu][idx[u]]
    BY <1>0, <2>2, CountersType, UptoSums
  <2>4. active_upto(idx[u])' = Upto(c, idx[u]) /\ active_upto(idx[u]) = Upto(c, idx[u])
    BY DEF active_upto, Upto
  <2>5. sum >= Upto(c, idx[u])[cpu - 1] /\ sum \in Int
    BY <1>0, <2>4 DEF SumFromAbove, TypeOK
  <2>6. sum' >= Upto(c, idx[u])[cpu] /\ cpu' - 1 = cpu
    BY <2>2, <2>3, <2>5
  <2> QED
    BY <2>1, <2>4, <2>6 DEF SumFromAbove, Critical
<1>10. OwnGracePeriod'
  BY <1>0 DEF OwnGracePeriod, Counting, Counted, Leaving
<1>11. OthersGracePeriod'
  BY <1>0 DEF OthersGracePeriod, Counting, Counted, Leaving
<1>12. GracePeriodElapsed'
  BY <1>0 DEF GracePeriodElapsed
<1> QED
  BY <1>1, <1>2, <1>3, <1>4, <1>5, <1>6, <1>7, <1>8, <1>9, <1>10, <1>11, <1>12
     DEF Inv

(* The sum is complete.                                                    *)
LEMMA ScanEndStep ==
  ASSUME Inv, NEW u \in Updaters, scan_end(u)
  PROVE  Inv'
<1> USE DEF rvars, uvars, scan_end, synchronize_sched
<1>0. /\ TypeOK /\ MutexHeld /\ UnusedIsIdle /\ HoldersHold /\ FlipsBounded
      /\ RankDrains /\ OldRankOnlyDrains /\ CountersAddUp /\ SumFromAbove
      /\ OwnGracePeriod /\ OthersGracePeriod /\ GracePeriodElapsed
  BY DEF Inv
<1>1. TypeOK'
  <2>1. upc' \in [Updaters -> UPcs] /\ gp' \subseteq Readers \cup Updaters
    BY <1>0 DEF TypeOK, UPcs
  <2>2. cpu' \in 1 .. NCPU + 1 /\ sum' \in Int
    BY SrcuAssumption
  <2> QED
    BY <1>0, <2>1, <2>2 DEF TypeOK
<1>2. \A v \in Updaters : v # u => upc[v] \notin Critical /\ upc'[v] = upc[v]
  BY <1>0, OnlyOne DEF Critical, TypeOK
<1>3. sum = 0 => \A r \in Readers : rpc[r] = "in" => ridx[r] # idx[u]
  <2> SUFFICES ASSUME sum = 0
               PROVE  In(idx[u]) = {}
    BY DEF In
  <2>1. idx[u] \in Ranks /\ cpu - 1 = NCPU
    BY <1>0, ScannedRank, SrcuAssumption DEF TypeOK
  <2>2. per_cpu_ref
    BY <1>0 DEF UnusedIsIdle, NotInUse
  <2>3. srcu_readers_active_idx(idx[u]) = Cardinality(In(idx[u]))
    BY <1>0, <2>1, <2>2 DEF CountersAddUp, In
  <2>4. sum >= srcu_readers_active_idx(idx[u])
    BY <1>0, <2>1 DEF SumFromAbove, srcu_readers_active_idx
  <2>5. IsFiniteSet(In(idx[u])) /\ Cardinality(In(idx[u])) \in Nat
    BY InFinite
  <2>6. Cardinality(In(idx[u])) = 0
    BY <2>3, <2>4, <2>5
  <2> QED
    BY <2>5, <2>6, FS_EmptySet
<1>4. MutexHeld'
  BY <1>0 DEF TypeOK, MutexHeld, Critical
<1>5. UnusedIsIdle'
  BY <1>0 DEF UnusedIsIdle, NotInUse
<1>6. HoldersHold'
  BY <1>0 DEF HoldersHold
<1>7. FlipsBounded'
  <2>1. WillFlip' \subseteq WillFlip
    BY <1>0 DEF TypeOK, WillFlip
  <2> QED
    BY <1>0, <2>1, FlipsKept DEF TypeOK
<1>8. RankDrains'
  <2>1. CASE sum # 0
    BY <1>0, <2>1 DEF RankDrains, Registered
  <2>2. CASE sum = 0
    <3>1. upc'[u] = "sync3" /\ upc[u] = "scan"
      BY <1>0, <2>2 DEF TypeOK
    <3> QED
      BY <1>0, <1>2, <1>3, <3>1, OnlyOne DEF RankDrains, Critical
  <2> QED
    BY <2>1, <2>2
<1>9. OldRankOnlyDrains'
  BY <1>0 DEF TypeOK, OldRankOnlyDrains
<1>10. CountersAddUp'
  BY <1>0, ReadersStand
<1>11. SumFromAbove'
  <2>1. idx[u] \in Ranks
    BY <1>0, ScannedRank
  <2>2. Upto(c, idx[u])[0] = 0
    BY <1>0, <2>1, CountersType, UptoSums
  <2>3. active_upto(idx[u])' = Upto(c, idx[u])
    BY DEF active_upto, Upto
  <2> QED
    BY <1>2, <2>2, <2>3 DEF SumFromAbove, Critical
<1>12. OwnGracePeriod'
  <2>1. CASE sum # 0
    BY <1>0, <2>1 DEF OwnGracePeriod, Counting, Counted, Leaving
  <2>2. CASE sum = 0
    <3>1. upc'[u] = "sync3" /\ Counted(u, idx[u])
      BY <1>0, <2>2 DEF TypeOK, OwnGracePeriod
    <3>2. Leaving(u)'
      BY <1>0, <1>3, <3>1 DEF TypeOK, Counted, Leaving, Quiet
    <3> QED
      BY <1>2, <3>1, <3>2 DEF OwnGracePeriod, Critical
  <2> QED
    BY <2>1, <2>2
<1>13. OthersGracePeriod'
  <2>1. CASE sum # 0
    BY <1>0, <2>1 DEF OthersGracePeriod, Counting, Counted, Leaving
  <2>2. CASE sum = 0
    <3>1. /\ upc'[u] = "sync3" /\ mutex # NoTask
          /\ \A m \in Updaters : m # u => upc'[m] \notin Critical
      BY <1>0, <2>2, OnlyOne DEF TypeOK, Critical
    <3>2. SUFFICES ASSUME NEW v \in Updaters, upc[v] = "called"
                   PROVE  /\ idx[v] <= completed
                          /\ completed - idx[v] = 1 => unlinked[v]
                          /\ completed - idx[v] = 2 => unlinked[v] /\ Leaving(v)'
                          /\ completed - idx[v] >= 3 => unlinked[v] /\ holders[v] = {}
      BY <1>2, <3>1 DEF OthersGracePeriod, Critical
    <3>3. /\ idx[v] <= completed
          /\ completed - idx[v] = 1 => unlinked[v]
          /\ completed - idx[v] = 2 => unlinked[v] /\ Counted(v, idx[u])
          /\ completed - idx[v] >= 3 => unlinked[v] /\ holders[v] = {}
      BY <1>0, <1>2, <3>2 DEF OthersGracePeriod, Critical
    <3>4. Counted(v, idx[u]) => Leaving(v)'
      BY <1>0, <1>3, <2>2 DEF TypeOK, Counted, Leaving, Quiet
    <3> QED
      BY <3>3, <3>4
  <2> QED
    BY <2>1, <2>2
<1>14. GracePeriodElapsed'
  BY <1>0 DEF TypeOK, GracePeriodElapsed
<1> QED
  BY <1>1, <1>4, <1>5, <1>6, <1>7, <1>8, <1>9, <1>10, <1>11, <1>12, <1>13, <1>14
     DEF Inv

(* mutex_unlock and the return.                                            *)
LEMMA ReturnStep ==
  ASSUME Inv, NEW u \in Updaters, return(u)
  PROVE  Inv'
<1> USE DEF rvars, uvars, return
<1>0. /\ TypeOK /\ MutexHeld /\ UnusedIsIdle /\ HoldersHold /\ FlipsBounded
      /\ RankDrains /\ OldRankOnlyDrains /\ CountersAddUp /\ SumFromAbove
      /\ OwnGracePeriod /\ OthersGracePeriod /\ GracePeriodElapsed
  BY DEF Inv
<1>1. TypeOK'
  <2>1. upc' \in [Updaters -> UPcs] /\ idx' \in [Updaters -> 0 .. MaxFlips]
    BY <1>0, SrcuAssumption DEF TypeOK, UPcs
  <2> QED
    BY <1>0, <2>1 DEF TypeOK
<1>2. MutexHeld'
  BY <1>0, SrcuAssumption DEF TypeOK, MutexHeld, Critical
<1>3. UnusedIsIdle'
  BY <1>0 DEF UnusedIsIdle, NotInUse
<1>4. HoldersHold'
  BY <1>0 DEF HoldersHold
<1>5. FlipsBounded'
  <2>1. WillFlip' \subseteq WillFlip
    BY DEF WillFlip
  <2> QED
    BY <1>0, <2>1, FlipsKept DEF TypeOK
<1>6. RankDrains'
  BY <1>0, RankFacts
     DEF TypeOK, Ranks, RankDrains, OldRankOnlyDrains, Registered
<1>7. OldRankOnlyDrains'
  BY <1>0 DEF TypeOK, OldRankOnlyDrains
<1>8. CountersAddUp'
  BY <1>0, ReadersStand
<1>9. SumFromAbove'
  BY <1>0, SumKept
<1>10. OwnGracePeriod'
  BY <1>0 DEF OwnGracePeriod, Counting, Counted, Leaving
<1>11. OthersGracePeriod'
  BY <1>0 DEF OthersGracePeriod, Counting, Counted, Leaving
<1>12. GracePeriodElapsed'
  BY <1>0 DEF OwnGracePeriod, GracePeriodElapsed, Leaving
<1> QED
  BY <1>1, <1>2, <1>3, <1>4, <1>5, <1>6, <1>7, <1>8, <1>9, <1>10, <1>11, <1>12
     DEF Inv

(* The element is freed.                                                   *)
LEMMA ReclaimStep ==
  ASSUME Inv, NEW u \in Updaters, Reclaim(u)
  PROVE  Inv'
<1> USE DEF rvars, uvars, Reclaim
<1>0. /\ TypeOK /\ MutexHeld /\ UnusedIsIdle /\ HoldersHold /\ FlipsBounded
      /\ RankDrains /\ OldRankOnlyDrains /\ CountersAddUp /\ SumFromAbove
      /\ OwnGracePeriod /\ OthersGracePeriod /\ GracePeriodElapsed
  BY DEF Inv
<1>1. TypeOK'
  BY <1>0 DEF TypeOK, UPcs
<1>2. MutexHeld'
  BY <1>0 DEF MutexHeld, Critical
<1>3. UnusedIsIdle'
  BY <1>0 DEF UnusedIsIdle, NotInUse
<1>4. HoldersHold'
  BY <1>0 DEF HoldersHold
<1>5. FlipsBounded'
  <2>1. WillFlip' \subseteq WillFlip
    BY <1>0 DEF TypeOK, WillFlip
  <2> QED
    BY <1>0, <2>1, FlipsKept DEF TypeOK
<1>6. RankDrains'
  BY <1>0 DEF RankDrains, Registered
<1>7. OldRankOnlyDrains'
  BY <1>0 DEF OldRankOnlyDrains
<1>8. CountersAddUp'
  BY <1>0, ReadersStand
<1>9. SumFromAbove'
  BY <1>0, SumKept
<1>10. OwnGracePeriod'
  BY <1>0 DEF OwnGracePeriod, Counting, Counted, Leaving
<1>11. OthersGracePeriod'
  BY <1>0 DEF OthersGracePeriod, Counting, Counted, Leaving
<1>12. GracePeriodElapsed'
  BY <1>0 DEF GracePeriodElapsed
<1> QED
  BY <1>1, <1>2, <1>3, <1>4, <1>5, <1>6, <1>7, <1>8, <1>9, <1>10, <1>11, <1>12
     DEF Inv

(* cleanup_srcu_struct.                                                    *)
LEMMA CleanupStep ==
  ASSUME Inv, cleanup_srcu_struct
  PROVE  Inv'
<1> USE DEF rvars, uvars, cleanup_srcu_struct
<1>0. /\ TypeOK /\ MutexHeld /\ UnusedIsIdle /\ HoldersHold /\ FlipsBounded
      /\ RankDrains /\ OldRankOnlyDrains /\ CountersAddUp /\ SumFromAbove
      /\ OwnGracePeriod /\ OthersGracePeriod /\ GracePeriodElapsed
  BY DEF Inv
<1>1. TypeOK'
  BY <1>0 DEF TypeOK
<1>2. MutexHeld' /\ FlipsBounded'
  BY <1>0, UpdatersStand
<1>3. UnusedIsIdle'
  BY DEF UnusedIsIdle, NotInUse
<1>4. HoldersHold'
  BY <1>0 DEF HoldersHold
<1>5. RankDrains'
  BY <1>0 DEF RankDrains, Registered
<1>6. OldRankOnlyDrains'
  BY <1>0 DEF OldRankOnlyDrains
<1>7. CountersAddUp'
  BY <1>0 DEF CountersAddUp, srcu_readers_active_idx, active_upto
<1>8. SumFromAbove'
  BY <1>0, SumKept
<1>9. OwnGracePeriod'
  BY <1>0 DEF OwnGracePeriod, Counting, Counted, Leaving
<1>10. OthersGracePeriod'
  BY <1>0 DEF OthersGracePeriod, Counting, Counted, Leaving
<1>11. GracePeriodElapsed'
  BY <1>0 DEF GracePeriodElapsed
<1> QED
  BY <1>1, <1>2, <1>3, <1>4, <1>5, <1>6, <1>7, <1>8, <1>9, <1>10, <1>11 DEF Inv

(* init_srcu_struct.                                                       *)
LEMMA InitStructStep ==
  ASSUME Inv, init_srcu_struct
  PROVE  Inv'
<1> USE DEF rvars, uvars, init_srcu_struct
<1>0. /\ TypeOK /\ MutexHeld /\ UnusedIsIdle /\ HoldersHold /\ FlipsBounded
      /\ RankDrains /\ OldRankOnlyDrains /\ CountersAddUp /\ SumFromAbove
      /\ OwnGracePeriod /\ OthersGracePeriod /\ GracePeriodElapsed
  BY DEF Inv
<1>1. TypeOK'
  <2>1. c' \in [CPUs -> [Ranks -> -MaxRef .. MaxRef]] /\ completed' \in 0 .. MaxFlips
    BY SrcuAssumption
  <2> QED
    BY <1>0, <2>1 DEF TypeOK
<1>2. /\ \A r \in Readers : rpc[r] = "out"
      /\ \A u \in Updaters : upc[u] = "idle" /\ ~unlinked[u]
  BY <1>0 DEF UnusedIsIdle, NotInUse
<1>3. MutexHeld'
  BY <1>2, SrcuAssumption DEF MutexHeld, Critical
<1>4. UnusedIsIdle'
  BY <1>0 DEF UnusedIsIdle, NotInUse
<1>5. HoldersHold'
  BY <1>0 DEF HoldersHold
<1>6. FlipsBounded'
  <2>1. WillFlip' = {}
    BY <1>2 DEF WillFlip
  <2>2. Cardinality(WillFlip') = 0
    BY <2>1, FS_EmptySet
  <2> QED
    BY <2>2, SrcuAssumption DEF FlipsBounded
<1>7. RankDrains'
  BY <1>2 DEF RankDrains, Registered
<1>8. OldRankOnlyDrains'
  BY <1>0 DEF OldRankOnlyDrains
<1>9. CountersAddUp'
  <2>1. ASSUME NEW k \in Ranks
        PROVE  srcu_readers_active_idx(k)' = Cardinality(In(k)')
    <3>1. /\ c' \in [CPUs -> [Ranks -> Int]] /\ \A q \in CPUs : c'[q][k] = 0
          /\ NCPU \in 0 .. NCPU
      BY SrcuAssumption
    <3>2. Upto(c', k)[NCPU] = 0
      BY <3>1, UptoZero
    <3>3. In(k)' = {}
      BY <1>2 DEF In
    <3> QED
      BY <3>2, <3>3, ActiveIsUpto, FS_EmptySet
  <2> QED
    BY <2>1 DEF CountersAddUp, In
<1>10. SumFromAbove'
  BY <1>0, <1>2 DEF SumFromAbove
<1>11. OwnGracePeriod'
  BY <1>0 DEF OwnGracePeriod, Counting, Counted, Leaving
<1>12. OthersGracePeriod'
  BY <1>2 DEF OthersGracePeriod
<1>13. GracePeriodElapsed'
  BY <1>0 DEF GracePeriodElapsed
<1> QED
  BY <1>1, <1>3, <1>4, <1>5, <1>6, <1>7, <1>8, <1>9, <1>10, <1>11, <1>12, <1>13
     DEF Inv

-----------------------------------------------------------------------------
(* init_srcu_struct: the counters are 0 and nobody reads or waits.         *)
LEMMA InvInit == Init => Inv
<1> SUFFICES ASSUME Init PROVE Inv
  OBVIOUS
<1>1. TypeOK
  <2>1. /\ c \in [CPUs -> [Ranks -> -MaxRef .. MaxRef]] /\ completed \in 0 .. MaxFlips
        /\ cpu \in 1 .. NCPU + 1 /\ idx \in [Updaters -> 0 .. MaxFlips]
    BY SrcuAssumption DEF Init
  <2> QED
    BY <2>1 DEF Init, TypeOK, RPcs, UPcs, Ranks
<1>2. MutexHeld /\ UnusedIsIdle /\ HoldersHold
  BY SrcuAssumption DEF Init, MutexHeld, Critical, UnusedIsIdle, HoldersHold
<1>3. FlipsBounded
  <2>1. WillFlip = {}
    BY DEF Init, WillFlip
  <2> QED
    BY <2>1, FS_EmptySet, SrcuAssumption DEF Init, FlipsBounded
<1>4. RankDrains /\ OldRankOnlyDrains
  BY DEF Init, RankDrains, OldRankOnlyDrains, Registered
<1>5. CountersAddUp
  <2>1. ASSUME NEW k \in Ranks
        PROVE  srcu_readers_active_idx(k) = Cardinality(In(k))
    <3>1. /\ c \in [CPUs -> [Ranks -> Int]] /\ \A q \in CPUs : c[q][k] = 0
          /\ NCPU \in 0 .. NCPU
      BY SrcuAssumption DEF Init
    <3>2. Upto(c, k)[NCPU] = 0
      BY <3>1, UptoZero
    <3>3. In(k) = {}
      BY DEF Init, In
    <3> QED
      BY <3>2, <3>3, ActiveIsUpto, FS_EmptySet
  <2> QED
    BY <2>1 DEF CountersAddUp, In
<1>6. SumFromAbove /\ OwnGracePeriod /\ OthersGracePeriod /\ GracePeriodElapsed
  BY DEF Init, SumFromAbove, OwnGracePeriod, OthersGracePeriod,
         GracePeriodElapsed
<1> QED
  BY <1>1, <1>2, <1>3, <1>4, <1>5, <1>6 DEF Inv

(* Every step keeps the invariant: one lemma per action above.             *)
LEMMA InvNext == Inv /\ [Next]_vars => Inv'
<1> SUFFICES ASSUME Inv, [Next]_vars PROVE Inv'
  OBVIOUS
<1>1. ASSUME NEW r \in Readers, Reader(r)
      PROVE  Inv'
  BY <1>1, FirstAccessStep, SampleStep, CountStep, UnlockStep, LastAccessStep
     DEF Reader
<1>2. ASSUME NEW u \in Updaters, Updater(u)
      PROVE  Inv'
  BY <1>2, UnlinkStep, CallStep, LockStep, FlipStep, ScanStartStep, ScanCpuStep,
     ScanEndStep, ReturnStep, ReclaimStep
     DEF Updater
<1>3. CASE cleanup_srcu_struct \/ init_srcu_struct
  BY <1>3, CleanupStep, InitStructStep
<1>4. CASE UNCHANGED vars
  <2> USE <1>4 DEF vars, rvars, uvars
  <2>1. TypeOK /\ MutexHeld /\ UnusedIsIdle /\ HoldersHold /\ FlipsBounded /\ RankDrains
        /\ OldRankOnlyDrains /\ CountersAddUp /\ SumFromAbove /\ OwnGracePeriod
        /\ OthersGracePeriod /\ GracePeriodElapsed
    BY DEF Inv
  <2>2. TypeOK' /\ UnusedIsIdle' /\ HoldersHold' /\ GracePeriodElapsed'
    BY <2>1 DEF TypeOK, UnusedIsIdle, NotInUse, HoldersHold, GracePeriodElapsed
  <2>3. RankDrains' /\ OldRankOnlyDrains' /\ OwnGracePeriod' /\ OthersGracePeriod'
    BY <2>1
       DEF RankDrains, Registered, OldRankOnlyDrains, OwnGracePeriod,
           OthersGracePeriod, Counting, Counted, Leaving
  <2>4. MutexHeld' /\ FlipsBounded' /\ CountersAddUp' /\ SumFromAbove'
    BY <2>1, UpdatersStand, ReadersStand, SumKept
  <2> QED
    BY <2>2, <2>3, <2>4 DEF Inv
<1> QED
  BY <1>1, <1>2, <1>3, <1>4 DEF Next

(* So it holds in every state.                                             *)
LEMMA InvHolds == Spec => []Inv
  BY InvInit, InvNext, PTL DEF Spec

(* Every variable of kernel/srcu.c keeps its type; `completed' stays       *)
(* within the bound that synchronize_srcu calls are admitted under.        *)
THEOREM SrcuTypeOK == Spec => []TypeOK
<1>1. Inv => TypeOK
  BY DEF Inv
<1> QED
  BY <1>1, InvHolds, PTL

(* When synchronize_srcu returns, after its own flip or because others     *)
(* flipped twice, no reader still uses the element unlinked before: for    *)
(* any number of readers, updaters, CPUs and flips.                        *)
THEOREM SrcuGracePeriod == Spec => []GracePeriodElapsed
<1>1. Inv => GracePeriodElapsed
  BY DEF Inv
<1> QED
  BY <1>1, InvHolds, PTL

(* Nobody joins a rank while srcu_readers_active_idx sums it.              *)
THEOREM SrcuOldRankOnlyDrains == Spec => []OldRankOnlyDrains
<1>1. Inv => OldRankOnlyDrains
  BY DEF Inv
<1> QED
  BY <1>1, InvHolds, PTL

(* The per-CPU counters of a rank add up to its readers, wherever          *)
(* srcu_read_lock and srcu_read_unlock ran.                                *)
THEOREM SrcuCountersAddUp == Spec => []CountersAddUp
<1>1. Inv => CountersAddUp
  BY DEF Inv
<1> QED
  BY <1>1, InvHolds, PTL

=============================================================================
