------------------------------ MODULE MCSession -------------------------------
(***************************************************************************)
(* Two login sessions, two versions of the rules of the same number and    *)
(* one the kext refuses.                                                   *)
(***************************************************************************)
EXTENDS Session

CONSTANTS A, B, v1, v2, huge

MCSize == [v \in {v1, v2, huge} |-> IF v = huge THEN 3 ELSE 2]
===============================================================================
