------------------------------ MODULE LockSpec ------------------------------
(***************************************************************************)
(* What a sleeping lock promises its callers, whatever it does inside: a   *)
(* task holds the lock in no mode, shared or exclusively; an exclusive     *)
(* grant is made only when nobody holds the lock and a shared grant only   *)
(* when nobody holds it exclusively; an exclusive holder may turn its hold *)
(* into a shared one, and a shared holder leave its hold to another.       *)
(* kernel/mutex.c implements it with exclusive grants only,                *)
(* lib/rwsem-spinlock.c with both.                                         *)
(***************************************************************************)

CONSTANT Tasks

VARIABLE held      \* held[t] is the mode in which t holds the lock

Mode == {"none", "shared", "exclusive"}

Init == held = [t \in Tasks |-> "none"]

AcquireExclusive(t) ==
  /\ \A u \in Tasks : held[u] = "none"
  /\ held' = [held EXCEPT ![t] = "exclusive"]

AcquireShared(t) ==
  /\ held[t] = "none"
  /\ \A u \in Tasks : held[u] # "exclusive"
  /\ held' = [held EXCEPT ![t] = "shared"]

Downgrade(t) ==
  /\ held[t] = "exclusive"
  /\ held' = [held EXCEPT ![t] = "shared"]

Release(t) ==
  /\ held[t] # "none"
  /\ held' = [held EXCEPT ![t] = "none"]

(* A shared hold may be left to another holder to release.                 *)
Transfer(t, u) ==
  /\ held[t] = "shared"
  /\ held[u] = "none"
  /\ held' = [held EXCEPT ![t] = "none", ![u] = "shared"]

Next == \E t \in Tasks : \/ AcquireExclusive(t)
                         \/ AcquireShared(t)
                         \/ Downgrade(t)
                         \/ Release(t)
                         \/ \E u \in Tasks : Transfer(t, u)

vars == <<held>>

Spec == Init /\ [][Next]_vars

=============================================================================
