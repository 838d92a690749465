----------------------------- MODULE MCGlobalLock -----------------------------
(***************************************************************************)
(* Instances of GlobalLock: a timer callback, a hooked function and a user *)
(* client call, interchangeable.                                           *)
(***************************************************************************)
EXTENDS GlobalLock, TLC

CONSTANTS timer, hook, client

Symmetry == Permutations({timer, hook, client})

===============================================================================
