--------------------------- MODULE MCHoldingKeyToKey ---------------------------
(***************************************************************************)
(* Instances of HoldingKeyToKey: two rules of one class, as in "Holding    *)
(* Command+1,2,3,...", two rules of two classes, and a key without a rule. *)
(***************************************************************************)
EXTENDS HoldingKeyToKey

CONSTANTS one, two, other

OneClass == << [class |-> 1, from |-> one], [class |-> 1, from |-> two] >>

TwoClasses == << [class |-> 1, from |-> one], [class |-> 2, from |-> two] >>

===============================================================================
