------------------------------- MODULE Exclusive ------------------------------
(***************************************************************************)
(* What the global lock gives the kext, whatever the timing of Core::stop: *)
(* one thread at a time runs on the shared state until the lock is         *)
(* destroyed; nobody comes in once it is shut, and whoever was in by then  *)
(* may finish, after the destruction unprotected.                          *)
(***************************************************************************)
CONSTANTS Threads, NoOne

VARIABLES
  holder,    \* the thread that runs on the shared state
  active,    \* the threads that have come in and not left
  open,      \* the lock can be found
  closed     \* the lock is destroyed

Init == holder = NoOne /\ active = {} /\ open = TRUE /\ closed = FALSE

Come(t) ==
  open /\ t \notin active /\ active' = active \cup {t} /\ UNCHANGED << holder, open, closed >>

Take(t) ==
  t \in active /\ holder = NoOne /\ ~closed /\ holder' = t /\ UNCHANGED << active, open, closed >>

\* The holder lets others run and stays in, or goes.
Give == holder # NoOne /\ ~closed /\ holder' = NoOne /\ UNCHANGED << active, open, closed >>

Go ==
  /\ holder # NoOne /\ ~closed
  /\ holder' = NoOne /\ active' = active \ {holder}
  /\ UNCHANGED << open, closed >>

\* Only who holds the lock may shut it.
Shut == holder # NoOne /\ open' = FALSE /\ UNCHANGED << holder, active, closed >>

Destroy == ~open /\ closed' = TRUE /\ UNCHANGED << holder, active, open >>

\* No protection any more: those still in run as they like, and leave.
Finish ==
  /\ closed
  /\ active' \in SUBSET active /\ holder' \in active' \cup {NoOne}
  /\ UNCHANGED << open, closed >>

Next == (\E t \in Threads : Come(t) \/ Take(t)) \/ Give \/ Go \/ Shut \/ Destroy \/ Finish

Spec == Init /\ [][Next]_<< holder, active, open, closed >>

===============================================================================
