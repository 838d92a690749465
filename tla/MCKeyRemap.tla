------------------------------ MODULE MCKeyRemap ------------------------------
(***************************************************************************)
(* Instances of KeyRemap for TLC: two plain keys, one modifier that may be *)
(* an ordinary key, CapsLock and an extra modifier, and the rule sets that *)
(* reach every branch of KeyToKey::remap.                                  *)
(***************************************************************************)
EXTENDS KeyRemap

CONSTANTS a, b, SHIFT, CAPS, EXTRA1, LOCK_SHIFT, LOCK_OFF, STICKY_SHIFT, LAZY_SHIFT

MCVirtualLock ==
  [v \in {LOCK_SHIFT, LOCK_OFF} |->
     [flag |-> SHIFT, op |-> IF v = LOCK_SHIFT THEN "toggle" ELSE "force_off"]]

MCVirtualSticky == [v \in {STICKY_SHIFT} |-> SHIFT]

MCVirtualLazy == [v \in {LAZY_SHIFT} |-> SHIFT]

k(key) == [key |-> key, flags |-> {}]

kf(key, flags) == [key |-> key, flags |-> flags]

rule(from, to) == [from |-> from, fromFlags |-> {}, exact |-> FALSE, repeat |-> TRUE,
                   filtered |-> FALSE, to |-> to]

withFlags(r, flags) == [r EXCEPT !.fromFlags = flags]

\* One target key of every kind, and modifiers on either side.
SingleRules ==
  { << rule(a, << >>) >>,
    << withFlags(rule(a, << k(b) >>), {SHIFT}), rule(a, << kf(b, {SHIFT}) >>) >>,
    << [rule(a, << k(b) >>) EXCEPT !.exact = TRUE, !.repeat = FALSE] >>,
    << rule(SHIFT, << k(b) >>), rule(a, << k(SHIFT) >>) >>,
    << withFlags(rule(a, << k(CAPS) >>), {SHIFT}) >>,
    << rule(a, << k(EXTRA1) >>), withFlags(rule(b, << k(a) >>), {EXTRA1}) >>,
    << rule(a, << k(LOCK_SHIFT) >>), rule(b, << k(LOCK_OFF) >>) >>,
    << rule(a, << k(STICKY_SHIFT) >>) >>,
    << rule(a, << k(LAZY_SHIFT) >>), rule(SHIFT, << k(VK_NONE) >>) >> }

\* Several target keys: plain, modifier and lazy last ones.
KeysRules ==
  { << withFlags(rule(a, << kf(b, {SHIFT}), k(a) >>), {SHIFT}), rule(b, << k(SHIFT), k(b) >>) >>,
    << [rule(a, << k(b), k(VK_NONE) >>) EXCEPT !.repeat = FALSE] >>,
    << rule(a, << k(b), kf(SHIFT, {}) >>), withFlags(rule(b, << k(a), k(LAZY_SHIFT) >>), {SHIFT}) >>,
    << rule(a, << k(STICKY_SHIFT), k(b) >>), rule(SHIFT, << k(LAZY_SHIFT), k(EXTRA1) >>) >> }

\* The hardware CapsLock as a from key: it reports one event per press.
CapsRules ==
  { << rule(CAPS, << k(SHIFT) >>) >>, << rule(CAPS, << kf(a, {SHIFT}), k(b) >>) >> }

\* A rule with a filter, which may close while its key is down.
FilteredRules ==
  { << rule(b, << >>), rule(SHIFT, << >>),
       [rule(a, << k(b), k(SHIFT) >>) EXCEPT !.filtered = TRUE] >> }

ConvertingRules == SingleRules \cup KeysRules \cup CapsRules \cup FilteredRules

\* For the run with reloads; a key without rule repeats by itself.
ReloadRules ==
  { << rule(a, << k(SHIFT) >>) >>, << rule(a, << k(b), kf(a, {SHIFT}) >>) >> }

===============================================================================
