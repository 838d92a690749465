------------------------------ MODULE FlagStatus ------------------------------
(***************************************************************************)
(* The modifier accounting of util/FlagStatus.cpp: for every modifier flag *)
(* an item with four counters, the sum of which decides whether the        *)
(* modifier is on.  Flags (a bit mask in the code) are sets of modifier    *)
(* flags.  A modifier flag and the key code that carries it                *)
(* (ModifierFlag::getKeyCode, KeyCode::getModifierFlag) are the same value *)
(* here, so `f = key` says that key is f's key code.                       *)
(*                                                                         *)
(* The module has no variables: each operator takes the item_ array `fs`   *)
(* and returns the array the function of that name leaves behind.          *)
(***************************************************************************)
EXTENDS Integers

CONSTANTS
  ModifierFlags,   \* the flags FlagStatus::initialize registers
  CAPSLOCK         \* ModifierFlag::CAPSLOCK (in ModifierFlags or not)

Item == [count : Int, temporary : Int, lock : {0, 1}, sticky : {0, 1}]

FlagStatusItems == [ModifierFlags -> Item]

initializeItems ==
  [f \in ModifierFlags |-> [count |-> 0, temporary |-> 0, lock |-> 0, sticky |-> 0]]

Total(item) == item.count + item.temporary + item.lock + item.sticky

makeFlags(fs) == {f \in ModifierFlags : Total(fs[f]) > 0}

\* FlagStatus::set(void): forget the temporary counts.
clearTemporary(fs) == [f \in ModifierFlags |-> [fs[f] EXCEPT !.temporary = 0]]

\* One item's increase and decrease: CapsLock toggles on the way down only.
increaseItem(f, item) ==
  IF f = CAPSLOCK THEN [item EXCEPT !.lock = 1 - @] ELSE [item EXCEPT !.count = @ + 1]

decreaseItem(f, item) ==
  IF f = CAPSLOCK THEN item ELSE [item EXCEPT !.count = @ - 1]

increase(fs, flags) ==
  [f \in ModifierFlags |-> IF f \in flags THEN increaseItem(f, fs[f]) ELSE fs[f]]

decrease(fs, flags) ==
  [f \in ModifierFlags |-> IF f \in flags THEN decreaseItem(f, fs[f]) ELSE fs[f]]

\* FlagStatus::set(key, flags) on the item of `key`, after the temporary reset.
setItem(f, item, flags) ==
  IF f = CAPSLOCK
  THEN [item EXCEPT !.lock = IF f \in flags THEN 1 ELSE 0]
  ELSE IF f \in flags THEN increaseItem(f, item) ELSE decreaseItem(f, item)

setKey(fs, key, flags) ==
  LET cleared == clearTemporary(fs)
  IN  [f \in ModifierFlags |-> IF f = key THEN setItem(f, cleared[f], flags) ELSE cleared[f]]

\* FlagStatus::reset keeps the lock and the sticky counts.
resetItems(fs) ==
  [f \in ModifierFlags |->
     [count |-> 0, temporary |-> 0, lock |-> fs[f].lock, sticky |-> fs[f].sticky]]

addTemporary(fs, delta) ==
  [f \in ModifierFlags |-> [fs[f] EXCEPT !.temporary = @ + delta[f]]]

temporary_increase(fs, flags) ==
  addTemporary(fs, [f \in ModifierFlags |-> IF f \in flags THEN 1 ELSE 0])

temporary_decrease(fs, flags) ==
  addTemporary(fs, [f \in ModifierFlags |-> IF f \in flags THEN -1 ELSE 0])

setLock(fs, flags, op) ==
  [f \in ModifierFlags |->
     IF f \notin flags THEN fs[f]
     ELSE [fs[f] EXCEPT !.lock = CASE op = "force_on"  -> 1
                                   [] op = "force_off" -> 0
                                   [] OTHER            -> 1 - @]]

lock_clear(fs) == [f \in ModifierFlags |-> [fs[f] EXCEPT !.lock = 0]]

sticky_toggle(fs, flags) ==
  [f \in ModifierFlags |-> IF f \in flags THEN [fs[f] EXCEPT !.sticky = 1 - @] ELSE fs[f]]

sticky_clear(fs) == [f \in ModifierFlags |-> [fs[f] EXCEPT !.sticky = 0]]

\* The flags that survive FlagStatus::reset.
heldWithoutKeys(fs) == {f \in ModifierFlags : fs[f].lock + fs[f].sticky > 0}

(***************************************************************************)
(* ScopedTemporaryFlagsChanger.  The two while loops of the constructor    *)
(* bring every item's total to 0 (they raise it to 1 first when it is not  *)
(* positive, then lower it until the flag is off), and the flags of        *)
(* `toFlags` get one more.  scopeDelta is count_, the net change; the      *)
(* destructor takes it back.                                               *)
(***************************************************************************)
scopeDelta(fs, toFlags) ==
  [f \in ModifierFlags |-> (IF f \in toFlags THEN 1 ELSE 0) - Total(fs[f])]

scopeEnter(fs, toFlags) == addTemporary(fs, scopeDelta(fs, toFlags))

scopeExit(fs, delta) == addTemporary(fs, [f \in ModifierFlags |-> -delta[f]])

===============================================================================
