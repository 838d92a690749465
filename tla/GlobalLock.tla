------------------------------ MODULE GlobalLock ------------------------------
(***************************************************************************)
(* util/GlobalLock.cpp and its users: the threads of the kext (timer       *)
(* callbacks, hooked functions, device notifications, user client), each   *)
(* of which takes the lock through a ScopedLock, may call the system with  *)
(* the lock released by a ScopedUnlock, and may be called back by it in    *)
(* there; and Core::stop, which destroys the lock under their feet.        *)
(*                                                                         *)
(* ScopedLock reads the static lock_ without holding it, and does not look *)
(* at it again once it has the lock.  IOLockFree comes after IOSleep(200), *)
(* which waits for nobody.  Taking a freed lock is undefined; here it      *)
(* succeeds, whoever holds it.                                             *)
(***************************************************************************)
CONSTANTS
  Threads,
  NoOne,
  Stopper          \* the thread that runs Core::stop

ASSUME GlobalLockConstants ==
  NoOne \notin Threads /\ Stopper \notin Threads /\ NoOne # Stopper

VARIABLES
  lock_,    \* the static GlobalLock::lock_ is not NULL
  owner,    \* who holds the IOLock
  freed,    \* IOLockFree was called
  pc,       \* where each thread is
  stop      \* where Core::stop is

vars == << lock_, owner, freed, pc, stop >>

\* In and under the scope of a ScopedLock with the lock held.  "callingHeld":
\* in the system's callback, but ScopedUnlock found lock_ gone and kept the lock.
Holding == {"inside", "callingHeld", "nestedInside"}

Places == Holding \cup {"outside", "waiting", "calling", "nestedWaiting", "relocking"}

StopPlaces == {"running", "locking", "locked", "nulled", "sleeping", "destroyed"}

TypeOK ==
  /\ lock_ \in BOOLEAN /\ freed \in BOOLEAN
  /\ owner \in Threads \cup {NoOne, Stopper}
  /\ pc \in [Threads -> Places]
  /\ stop \in StopPlaces

Init ==
  /\ lock_ = TRUE /\ owner = NoOne /\ freed = FALSE
  /\ pc = [t \in Threads |-> "outside"]
  /\ stop = "running"

-------------------------------------------------------------------------------
go(t, from, to) == pc[t] = from /\ pc' = [pc EXCEPT ![t] = to]

lock(t) == (owner = NoOne \/ freed) /\ owner' = t

unlock == owner' = NoOne

\* ScopedLock's constructor: with no lock the caller returns at once.
Enter(t) == lock_ /\ go(t, "outside", "waiting") /\ UNCHANGED << lock_, owner, freed, stop >>

Acquire(t) == go(t, "waiting", "inside") /\ lock(t) /\ UNCHANGED << lock_, freed, stop >>

\* Mutant: the destructor looks at GlobalLock::lock_ instead of its own copy.
LeaveRereads(t) ==
  /\ go(t, "inside", "outside")
  /\ IF lock_ THEN unlock ELSE UNCHANGED owner
  /\ UNCHANGED << lock_, freed, stop >>

Leave(t) == go(t, "inside", "outside") /\ unlock /\ UNCHANGED << lock_, freed, stop >>

\* Mutant: the callback is called with the lock held.
CallSystemHeld(t) ==
  lock_ /\ go(t, "inside", "calling") /\ UNCHANGED << lock_, owner, freed, stop >>

\* ScopedUnlock, around the system's callback.
CallSystem(t) ==
  lock_ /\ go(t, "inside", "calling") /\ unlock /\ UNCHANGED << lock_, freed, stop >>

CallSystemLate(t) ==
  ~lock_ /\ go(t, "inside", "callingHeld") /\ UNCHANGED << lock_, owner, freed, stop >>

SystemReturnsLate(t) ==
  go(t, "callingHeld", "inside") /\ UNCHANGED << lock_, owner, freed, stop >>

SystemReturns(t) ==
  go(t, "calling", "relocking") /\ UNCHANGED << lock_, owner, freed, stop >>

\* Mutant: the callback goes on without the lock.
RelockNot(t) == go(t, "relocking", "inside") /\ UNCHANGED << lock_, owner, freed, stop >>

Relock(t) == go(t, "relocking", "inside") /\ lock(t) /\ UNCHANGED << lock_, freed, stop >>

\* With Sticky Keys the driver calls EventInputQueue::push_* from the callback.
NestedEnter(t) ==
  lock_ /\ go(t, "calling", "nestedWaiting") /\ UNCHANGED << lock_, owner, freed, stop >>

NestedAcquire(t) ==
  go(t, "nestedWaiting", "nestedInside") /\ lock(t) /\ UNCHANGED << lock_, freed, stop >>

NestedLeave(t) ==
  go(t, "nestedInside", "calling") /\ unlock /\ UNCHANGED << lock_, freed, stop >>

-------------------------------------------------------------------------------
\* GlobalLock::terminate, called by Core::stop.
StopGo(from, to) == stop = from /\ stop' = to /\ UNCHANGED pc

StopBegins == StopGo("running", "locking") /\ UNCHANGED << lock_, owner, freed >>

StopLocks == StopGo("locking", "locked") /\ lock(Stopper) /\ UNCHANGED << lock_, freed >>

\* Mutant: the lock is left in place until it is freed.
StopNullsNot == StopGo("locked", "nulled") /\ UNCHANGED << lock_, owner, freed >>

StopNulls == StopGo("locked", "nulled") /\ lock_' = FALSE /\ UNCHANGED << owner, freed >>

StopUnlocks == StopGo("nulled", "sleeping") /\ unlock /\ UNCHANGED << lock_, freed >>

\* IOSleep(200) is over, wherever the threads are: IOLockFree, and Core::stop
\* takes the rest down.
StopFrees ==
  StopGo("sleeping", "destroyed") /\ freed' = TRUE /\ UNCHANGED << lock_, owner >>

ThreadSteps(t) ==
  \/ Enter(t) \/ Acquire(t) \/ Leave(t)
  \/ CallSystem(t) \/ CallSystemLate(t) \/ SystemReturns(t) \/ SystemReturnsLate(t)
  \/ Relock(t) \/ NestedEnter(t) \/ NestedAcquire(t) \/ NestedLeave(t)

StopSteps == StopBegins \/ StopLocks \/ StopNulls \/ StopUnlocks \/ StopFrees

Next == (\E t \in Threads : ThreadSteps(t)) \/ StopSteps

Spec == Init /\ [][Next]_vars

(***************************************************************************)
(* A thread that was let in gets on, and a lock that is free again and     *)
(* again is given to each that waits for it (IOLock does not starve).      *)
(* Nothing makes a thread enter, call the system or be called back, or the *)
(* driver stop.                                                            *)
(***************************************************************************)
Fairness ==
  /\ \A t \in Threads :
       /\ SF_vars(Acquire(t) \/ Relock(t) \/ NestedAcquire(t))
       /\ WF_vars(NestedLeave(t)) /\ WF_vars(SystemReturnsLate(t))
       /\ SF_vars(Leave(t)) /\ SF_vars(SystemReturns(t))
  /\ SF_vars(StopLocks) /\ WF_vars(StopNulls \/ StopUnlocks)

FairSpec == Spec /\ Fairness

-------------------------------------------------------------------------------
\* While the lock exists one thread at a time runs on the shared state
\* (DEVELOP.md:48-49), Core::stop included, although ScopedLock takes its copy
\* of lock_ without protection and callbacks release the lock half-way.
MutualExclusion ==
  ~freed =>
    /\ \A t, u \in Threads : pc[t] \in Holding /\ pc[u] \in Holding => t = u
    /\ stop \in {"locked", "nulled"} => \A t \in Threads : pc[t] \notin Holding

\* Core::stop wants everything inactive before it takes it down.  Whoever had
\* found lock_ before it was cleared unlocks by his own copy and lets the next
\* one in: all of them leave, if the lock is not freed before
\* (GlobalLock.cpp:21-26).
Drains ==
  ~lock_ ~> freed \/ \A t \in Threads : pc[t] = "outside"

\* "Destroy global lock.  Then, all callbacks and hooked functions become
\* inactive." (Core.cpp:77-78): nobody runs once terminate has returned.
InactiveAfterDestroy ==
  stop = "destroyed" => \A t \in Threads : pc[t] = "outside"

\* Who runs on the shared state, and who has found lock_ and not left.
runner ==
  IF stop \in {"locked", "nulled"} THEN Stopper
  ELSE IF \E t \in Threads : pc[t] \in Holding
       THEN CHOOSE t \in Threads : pc[t] \in Holding
       ELSE NoOne

comers ==
  {t \in Threads : pc[t] # "outside"}
    \cup (IF stop \in {"locking", "locked", "nulled"} THEN {Stopper} ELSE {})

Promise == INSTANCE Exclusive WITH
             Threads <- Threads \cup {Stopper}, holder <- runner, active <- comers,
             open <- lock_, closed <- freed

\* The lock keeps the promise of Exclusive: one at a time while it exists, and
\* who had not come in when Core::stop cleared lock_ never will.
PromiseKept == Promise!Spec

\* A hook that is called back from within the system's callback gets the lock
\* (ListHookedKeyboard.cpp:244-249: without the unlock it would deadlock), if
\* the lock is not freed under it.
NestedGetsIn ==
  \A t \in Threads : pc[t] = "nestedWaiting" ~> pc[t] = "nestedInside" \/ freed

===============================================================================
