--------------------------- MODULE GlobalLockProofs ---------------------------
(***************************************************************************)
(* For any number of threads: mutual exclusion, and the promise of         *)
(* Exclusive, however long or short Core::stop sleeps.                     *)
(***************************************************************************)
EXTENDS GlobalLock, TLAPS

(***************************************************************************)
(* The inductive invariant.  While the lock exists, the owner of the       *)
(* IOLock is exactly the thread whose code runs under it, and lock_ is     *)
(* gone from the moment Core::stop has cleared it.                         *)
(***************************************************************************)
OwnerRuns ==
  ~freed =>
    /\ \A t \in Threads : pc[t] \in Holding <=> owner = t
    /\ stop \in {"locked", "nulled"} <=> owner = Stopper

StopOrder ==
  /\ lock_ <=> stop \in {"running", "locking", "locked"}
  /\ freed <=> stop = "destroyed"

IInv == TypeOK /\ OwnerRuns /\ StopOrder

LEMMA InitIInv == Init => IInv
  BY GlobalLockConstants
     DEF Init, IInv, TypeOK, OwnerRuns, StopOrder, Holding, Places, StopPlaces

LEMMA ThreadKeepsIInv ==
  ASSUME IInv, NEW t \in Threads, ThreadSteps(t)
  PROVE  IInv'
<1> USE GlobalLockConstants
    DEF IInv, TypeOK, OwnerRuns, StopOrder, Holding, Places, StopPlaces,
        go, lock, unlock
<1>1. CASE Enter(t)
  BY <1>1 DEF Enter
<1>2. CASE Acquire(t)
  BY <1>2 DEF Acquire
<1>3. CASE Leave(t)
  BY <1>3 DEF Leave
<1>4. CASE CallSystem(t)
  BY <1>4 DEF CallSystem
<1>5. CASE CallSystemLate(t)
  BY <1>5 DEF CallSystemLate
<1>6. CASE SystemReturns(t)
  BY <1>6 DEF SystemReturns
<1>7. CASE SystemReturnsLate(t)
  BY <1>7 DEF SystemReturnsLate
<1>8. CASE Relock(t)
  BY <1>8 DEF Relock
<1>9. CASE NestedEnter(t)
  BY <1>9 DEF NestedEnter
<1>10. CASE NestedAcquire(t)
  BY <1>10 DEF NestedAcquire
<1>11. CASE NestedLeave(t)
  BY <1>11 DEF NestedLeave
<1>12. QED
  BY <1>1, <1>2, <1>3, <1>4, <1>5, <1>6, <1>7, <1>8, <1>9, <1>10, <1>11 DEF ThreadSteps

LEMMA StopKeepsIInv ==
  ASSUME IInv, StopSteps
  PROVE  IInv'
<1> USE GlobalLockConstants
    DEF IInv, TypeOK, OwnerRuns, StopOrder, Holding, Places, StopPlaces,
        StopGo, lock, unlock
<1>1. CASE StopBegins
  BY <1>1 DEF StopBegins
<1>2. CASE StopLocks
  BY <1>2 DEF StopLocks
<1>3. CASE StopNulls
  BY <1>3 DEF StopNulls
<1>4. CASE StopUnlocks
  BY <1>4 DEF StopUnlocks
<1>5. CASE StopFrees
  BY <1>5 DEF StopFrees
<1>6. QED
  BY <1>1, <1>2, <1>3, <1>4, <1>5 DEF StopSteps

LEMMA StutterKeepsIInv ==
  ASSUME IInv, UNCHANGED vars
  PROVE  IInv'
  BY DEF vars, IInv, TypeOK, OwnerRuns, StopOrder

THEOREM Invariance == Spec => []IInv
<1>1. Init => IInv
  BY InitIInv
<1>2. IInv /\ [Next]_vars => IInv'
  BY ThreadKeepsIInv, StopKeepsIInv, StutterKeepsIInv DEF Next
<1>3. QED
  BY <1>1, <1>2, PTL DEF Spec

\* One thread at a time runs on the shared state while the lock exists
\* (GlobalLock::ScopedLock and ScopedUnlock), for any set of threads.
THEOREM Exclusion == Spec => []MutualExclusion
<1>1. IInv => MutualExclusion
  BY GlobalLockConstants DEF IInv, OwnerRuns, MutualExclusion
<1>2. QED
  BY <1>1, Invariance, PTL

-------------------------------------------------------------------------------
(***************************************************************************)
(* The refinement.  While the lock exists the runner is its owner; once it *)
(* is freed the runner is any of those who came in before it was shut.     *)
(***************************************************************************)
LEMMA RunnerIsOwner ==
  ASSUME IInv, ~freed
  PROVE  runner = owner
<1> USE GlobalLockConstants
<1>1. CASE owner = Stopper
  BY <1>1 DEF IInv, OwnerRuns, runner
<1>2. CASE owner = NoOne
  <2>1. stop \notin {"locked", "nulled"}
    BY <1>2 DEF IInv, OwnerRuns
  <2>2. \A t \in Threads : pc[t] \notin Holding
    BY <1>2 DEF IInv, OwnerRuns
  <2>3. QED
    BY <1>2, <2>1, <2>2 DEF runner
<1>3. CASE owner \in Threads
  <2>1. stop \notin {"locked", "nulled"}
    BY <1>3 DEF IInv, OwnerRuns
  <2>2. \A t \in Threads : pc[t] \in Holding <=> t = owner
    BY DEF IInv, OwnerRuns
  <2>3. (CHOOSE t \in Threads : pc[t] \in Holding) = owner
    BY <1>3, <2>2
  <2>4. QED
    BY <1>3, <2>1, <2>2, <2>3 DEF runner
<1>4. QED
  BY <1>1, <1>2, <1>3 DEF IInv, TypeOK

LEMMA RunnerIsIn ==
  ASSUME IInv
  PROVE  runner \in comers \cup {NoOne}
  BY DEF runner, comers, Holding

LEMMA OwnersStay ==
  ASSUME IInv', ~freed'
  PROVE  runner' = owner'
<1>1. (IInv /\ ~freed => runner = owner)'
  BY RunnerIsOwner, PTL
<1>2. QED
  BY <1>1

\* While the lock exists, a step of a thread lets it come in, take the lock,
\* give it back or go, or is none of the promise's business.
LEMMA ThreadKeepsPromise ==
  ASSUME IInv, IInv', ~freed, NEW t \in Threads, ThreadSteps(t)
  PROVE  [Promise!Next]_<< runner, comers, lock_, freed >>
<1> USE GlobalLockConstants
<1>1. ~freed' /\ freed' = freed /\ lock_' = lock_ /\ stop' = stop
  BY DEF ThreadSteps, Enter, Acquire, Leave, CallSystem, CallSystemLate, SystemReturns,
         SystemReturnsLate, Relock, NestedEnter, NestedAcquire, NestedLeave
<1>2. runner = owner /\ runner' = owner'
  BY <1>1, RunnerIsOwner, OwnersStay
<1>3. pc \in [Threads -> Places] /\ (pc[t] \in Holding <=> owner = t)
  BY DEF IInv, TypeOK, OwnerRuns
<1>4. CASE Enter(t)
  <2>1. owner' = owner /\ lock_ /\ comers' = comers \cup {t} /\ t \notin comers
    BY <1>1, <1>3, <1>4 DEF Enter, go, comers
  <2>2. Promise!Come(t)
    BY <1>1, <1>2, <2>1 DEF Promise!Come
  <2>3. QED
    BY <2>2 DEF Promise!Next
<1>5. CASE Acquire(t) \/ Relock(t) \/ NestedAcquire(t)
  <2>1. owner = NoOne /\ owner' = t /\ t \in comers
    BY <1>5 DEF Acquire, Relock, NestedAcquire, go, lock, comers
  <2>2. comers' = comers
    BY <1>1, <1>3, <1>5 DEF Acquire, Relock, NestedAcquire, go, comers
  <2>3. Promise!Take(t)
    BY <1>1, <1>2, <2>1, <2>2 DEF Promise!Take
  <2>4. QED
    BY <2>3 DEF Promise!Next
<1>6. CASE Leave(t)
  <2>1. owner = t /\ owner' = NoOne
    BY <1>3, <1>6 DEF Leave, go, unlock, Holding
  <2>2. comers' = comers \ {t}
    BY <1>1, <1>3, <1>6 DEF Leave, go, comers
  <2>3. Promise!Go
    BY <1>1, <1>2, <2>1, <2>2 DEF Promise!Go
  <2>4. QED
    BY <2>3 DEF Promise!Next
<1>7. CASE CallSystem(t) \/ NestedLeave(t)
  <2>1. owner = t /\ owner' = NoOne
    BY <1>3, <1>7 DEF CallSystem, NestedLeave, go, unlock, Holding
  <2>2. comers' = comers
    BY <1>1, <1>3, <1>7 DEF CallSystem, NestedLeave, go, comers
  <2>3. Promise!Give
    BY <1>1, <1>2, <2>1, <2>2 DEF Promise!Give
  <2>4. QED
    BY <2>3 DEF Promise!Next
<1>8. CASE \/ CallSystemLate(t) \/ SystemReturns(t) \/ SystemReturnsLate(t)
           \/ NestedEnter(t)
  <2>1. owner' = owner /\ freed' = freed
    BY <1>8 DEF CallSystemLate, SystemReturns, SystemReturnsLate, NestedEnter
  <2>2. comers' = comers
    BY <1>1, <1>3, <1>8
       DEF CallSystemLate, SystemReturns, SystemReturnsLate, NestedEnter, go, comers
  <2>3. QED
    BY <1>1, <1>2, <2>1, <2>2
<1>9. QED
  BY <1>4, <1>5, <1>6, <1>7, <1>8 DEF ThreadSteps

\* Core::stop comes in, takes the lock, shuts it, goes, and destroys it with
\* others still in.
LEMMA StopKeepsPromise ==
  ASSUME IInv, IInv', ~freed, StopSteps
  PROVE  [Promise!Next]_<< runner, comers, lock_, freed >>
<1> USE GlobalLockConstants
<1>1. runner = owner /\ pc' = pc
  BY RunnerIsOwner DEF StopSteps, StopBegins, StopLocks, StopNulls, StopUnlocks, StopFrees, StopGo
<1>2. CASE StopBegins
  <2>1. ~freed' /\ owner' = owner /\ lock_ /\ lock_' = lock_
    BY <1>2 DEF StopBegins, StopGo, IInv, StopOrder
  <2>2. comers' = comers \cup {Stopper} /\ Stopper \notin comers
    BY <1>1, <1>2 DEF StopBegins, StopGo, comers
  <2>3. Promise!Come(Stopper)
    BY <1>1, <1>2, <2>1, <2>2, OwnersStay DEF Promise!Come, StopBegins
  <2>4. QED
    BY <2>3 DEF Promise!Next
<1>3. CASE StopLocks
  <2>1. ~freed' /\ owner = NoOne /\ owner' = Stopper /\ Stopper \in comers /\ lock_' = lock_
    BY <1>3 DEF StopLocks, StopGo, lock, comers
  <2>2. comers' = comers
    BY <1>1, <1>3 DEF StopLocks, StopGo, comers
  <2>3. Promise!Take(Stopper)
    BY <1>1, <1>3, <2>1, <2>2, OwnersStay DEF Promise!Take, StopLocks
  <2>4. QED
    BY <2>3 DEF Promise!Next
<1>4. CASE StopNulls
  <2>1. ~freed' /\ owner = Stopper /\ owner' = owner /\ ~lock_'
    BY <1>4 DEF StopNulls, StopGo, IInv, OwnerRuns
  <2>2. comers' = comers /\ runner' = owner'
    BY <1>1, <1>4, <2>1, OwnersStay DEF StopNulls, StopGo, comers
  <2>3. Promise!Shut
    BY <1>1, <1>4, <2>1, <2>2 DEF Promise!Shut, StopNulls, IInv, TypeOK
  <2>4. QED
    BY <2>3 DEF Promise!Next
<1>5. CASE StopUnlocks
  <2>1. ~freed' /\ owner = Stopper /\ owner' = NoOne /\ lock_' = lock_
    BY <1>5 DEF StopUnlocks, StopGo, unlock, IInv, OwnerRuns
  <2>2. comers' = comers \ {Stopper}
    BY <1>1, <1>5 DEF StopUnlocks, StopGo, comers
  <2>3. Promise!Go
    BY <1>1, <1>5, <2>1, <2>2, OwnersStay DEF Promise!Go, StopUnlocks
  <2>4. QED
    BY <2>3 DEF Promise!Next
<1>6. CASE StopFrees
  <2>1. ~lock_ /\ freed' /\ lock_' = lock_
    BY <1>6 DEF StopFrees, StopGo, IInv, StopOrder
  <2>2. comers' = comers /\ runner' = runner
    BY <1>1, <1>6 DEF StopFrees, StopGo, comers, runner
  <2>3. Promise!Destroy
    BY <2>1, <2>2 DEF Promise!Destroy, IInv, TypeOK
  <2>4. QED
    BY <2>3 DEF Promise!Next
<1>7. QED
  BY <1>2, <1>3, <1>4, <1>5, <1>6 DEF StopSteps

\* Once the lock is freed nobody comes in: ScopedLock finds lock_ cleared.
LEMMA FreedKeepsPromise ==
  ASSUME IInv, IInv', freed, [Next]_vars
  PROVE  [Promise!Next]_<< runner, comers, lock_, freed >>
<1>1. stop = "destroyed" /\ ~lock_ /\ pc \in [Threads -> Places]
  BY DEF IInv, TypeOK, StopOrder
<1>2. CASE UNCHANGED vars
  BY <1>2 DEF vars, runner, comers
<1>3. CASE StopSteps
  BY <1>1, <1>3 DEF StopSteps, StopBegins, StopLocks, StopNulls, StopUnlocks, StopFrees, StopGo
<1>4. ASSUME NEW t \in Threads, ThreadSteps(t)
      PROVE  Promise!Next
  <2>1. freed' /\ lock_' = lock_ /\ stop' = stop /\ freed' = freed
    BY <1>4 DEF ThreadSteps, Enter, Acquire, Leave, CallSystem, CallSystemLate,
                SystemReturns, SystemReturnsLate, Relock, NestedEnter, NestedAcquire,
                NestedLeave
  <2>2. /\ pc[t] # "outside"
        /\ \A u \in Threads \ {t} : pc'[u] = pc[u]
    BY <1>1, <1>4 DEF ThreadSteps, Enter, Acquire, Leave, CallSystem, CallSystemLate,
                SystemReturns, SystemReturnsLate, Relock, NestedEnter, NestedAcquire,
                NestedLeave, go
  <2>3. comers' \in SUBSET comers
    BY <2>1, <2>2 DEF comers
  <2>4. (IInv => runner \in comers \cup {NoOne})'
    BY RunnerIsIn, PTL
  <2>5. Promise!Finish
    BY <2>1, <2>3, <2>4 DEF Promise!Finish
  <2>6. QED
    BY <2>5 DEF Promise!Next
<1>5. QED
  BY <1>2, <1>3, <1>4 DEF Next

\* GlobalLock implements Exclusive, for any threads and any timing of the sleep
\* in GlobalLock::terminate: one runner at a time while the lock exists, and
\* after it is shut only those who had come in before.
THEOREM Implements == Spec => PromiseKept
<1>1. Init => Promise!Init
  BY GlobalLockConstants DEF Init, Promise!Init, runner, comers, Holding
<1>2. IInv /\ IInv' /\ [Next]_vars => [Promise!Next]_<< runner, comers, lock_, freed >>
  <2>1. CASE UNCHANGED vars
    BY <2>1 DEF vars, runner, comers
  <2>2. QED
    BY <2>1, ThreadKeepsPromise, StopKeepsPromise, FreedKeepsPromise DEF Next
<1>3. QED
  BY <1>1, <1>2, Invariance, PTL DEF Spec, Promise!Spec, PromiseKept

===============================================================================
