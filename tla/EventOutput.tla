----------------------------- MODULE EventOutput ------------------------------
(***************************************************************************)
(* What the remapping code calls to emit events: EventOutputQueue::push,   *)
(* FireModifiers::fire, FireKey::fire, FireKey::fire_downup (with the      *)
(* virtual-key handlers FireKey::fire consults first), PressDownKeys, and  *)
(* FireRelativePointer::fire as the flush at zero held keys uses it.       *)
(*                                                                         *)
(* The operators map a record `o` of the statics they change to a new one: *)
(*   o.fs       FlagStatus::item_                                          *)
(*   o.last     FireModifiers::lastFlags_                                  *)
(*   o.q        EventOutputQueue::queue_                                   *)
(*   o.pressed  PressDownKeys::list_, as the number of entries of each key;  *)
(*              the order in which they are released is abstracted         *)
(***************************************************************************)
EXTENDS FlagStatus, Sequences, SequencesExt

CONSTANTS
  PlainKeys,       \* key codes that are neither modifiers nor virtual keys
  ExtraFlags,      \* ModifierFlag::EXTRA1..5: never sent to the system
  VK_NONE,         \* KeyCode::VK_NONE: a rule may name it, nothing is sent
  VirtualLock,     \* VK_LOCK_* key -> [flag, op]
  VirtualSticky,   \* VK_STICKY_* key -> flag
  VirtualLazy      \* VK_LAZY_* key -> flag

VirtualKeys == DOMAIN VirtualLock \cup DOMAIN VirtualSticky \cup DOMAIN VirtualLazy

\* What a rule may name as a target, and what the system may receive.
KeyCodes == PlainKeys \cup ModifierFlags \cup VirtualKeys \cup {VK_NONE}

OutputKeys == PlainKeys \cup (ModifierFlags \ ExtraFlags)

\* No key code has two meanings, and the extra flags are modifier flags.
ASSUME KeyCodesDisjoint ==
  /\ ExtraFlags \subseteq ModifierFlags
  /\ PlainKeys \cap ModifierFlags = {}
  /\ VirtualKeys \cap (PlainKeys \cup ModifierFlags) = {}
  /\ VK_NONE \notin PlainKeys \cup ModifierFlags \cup VirtualKeys
  /\ DOMAIN VirtualLock \cap DOMAIN VirtualSticky = {}
  /\ DOMAIN VirtualLazy \cap (DOMAIN VirtualLock \cup DOMAIN VirtualSticky) = {}
  /\ \A v \in DOMAIN VirtualLock :
       /\ VirtualLock[v].flag \in ModifierFlags
       /\ VirtualLock[v].op \in {"toggle", "force_on", "force_off"}
  /\ \A v \in DOMAIN VirtualSticky : VirtualSticky[v] \in ModifierFlags
  /\ \A v \in DOMAIN VirtualLazy : VirtualLazy[v] \in ModifierFlags

\* There are finitely many modifier flags and key codes.
ASSUME FiniteKeys == IsFiniteSet(ModifierFlags) /\ IsFiniteSet(PlainKeys)

OutEvent ==
  [type : {"DOWN", "UP", "MODIFY"}, key : OutputKeys, flags : SUBSET ModifierFlags]
    \cup [type : {"POINTER"}, key : {VK_NONE}, flags : SUBSET ModifierFlags]

nonePressed == [key \in OutputKeys |-> 0]

Statics == [fs : FlagStatusItems, last : SUBSET ModifierFlags, q : Seq(OutEvent),
            pressed : [OutputKeys -> Nat]]

modifierOf(key) == {key} \cap ModifierFlags

-------------------------------------------------------------------------------
\* EventOutputQueue::push: a key-down clears the sticky modifiers.
push(o, e) ==
  [o EXCEPT !.q = Append(@, e),
            !.fs = IF e.type = "DOWN" THEN sticky_clear(@) ELSE @]

(***************************************************************************)
(* FireModifiers::fire: one MODIFY event per flag that changes, releases   *)
(* before presses, each carrying the flags that hold after it.  The order  *)
(* among the releases (the index order of the flags) is abstracted.        *)
(***************************************************************************)
modifyEvents(last, to) ==
  LET ups   == SetToSeq(last \ to)
      downs == SetToSeq(to \ last)
      nups  == Len(ups)
  IN  [i \in 1 .. nups + Len(downs) |->
         IF i <= nups
         THEN [type |-> "MODIFY", key |-> ups[i], flags |-> last \ {ups[j] : j \in 1 .. i}]
         ELSE [type |-> "MODIFY", key |-> downs[i - nups],
               flags |-> (last \cap to) \cup {downs[j] : j \in 1 .. i - nups}]]

\* Mutant: lastFlags_ is not brought up to date.
FireModifiersForgets(o, flags) ==
  IF o.last = flags \ ExtraFlags THEN o
  ELSE [o EXCEPT !.q = @ \o modifyEvents(o.last, flags \ ExtraFlags)]

\* Mutant: the extra modifiers are not stripped.
FireModifiersExtra(o, flags) ==
  IF o.last = flags THEN o
  ELSE [o EXCEPT !.q = @ \o modifyEvents(o.last, flags), !.last = flags]

FireModifiers(o, flags) ==
  LET to == flags \ ExtraFlags
  IN  IF o.last = to THEN o
      ELSE [o EXCEPT !.q = @ \o modifyEvents(o.last, to), !.last = to]

\* PressDownKeys::add.
add(pressed, key) == [pressed EXCEPT ![key] = @ + 1]

\* Mutant: only one entry of the key is removed.
removeOne(pressed, key) == [pressed EXCEPT ![key] = IF @ > 0 THEN @ - 1 ELSE 0]

\* PressDownKeys::remove erases every entry of the key.
remove(pressed, key) == [pressed EXCEPT ![key] = 0]

\* PressDownKeys::clear: an UP with no flags for every entry.
entries(pressed) == UNION {{key} \X (1 .. pressed[key]) : key \in OutputKeys}

upEvents(pressed) ==
  LET es == SetToSeq(entries(pressed))
  IN  [i \in 1 .. Len(es) |-> [type |-> "UP", key |-> es[i][1], flags |-> {}]]

PressDownKeysClear(o) ==
  [o EXCEPT !.q = @ \o upEvents(o.pressed), !.pressed = nonePressed]

FireRelativePointer(o) ==
  push(FireModifiers(o, makeFlags(o.fs)), [type |-> "POINTER", key |-> VK_NONE, flags |-> {}])

-------------------------------------------------------------------------------
\* A call of FireKey::fire.
Call(type, key, flags, repeat) ==
  [type |-> type, key |-> key, flags |-> flags, repeat |-> repeat]

HandleVK_LOCK(o, c) ==
  LET v  == VirtualLock[c.key]
      o1 == [o EXCEPT !.fs = setLock(@, {v.flag}, v.op)]
  IN  IF c.type = "DOWN" /\ ~c.repeat THEN FireModifiers(o1, makeFlags(o1.fs)) ELSE o

HandleVK_STICKY(o, c) ==
  LET o1 == [o EXCEPT !.fs = sticky_toggle(@, {VirtualSticky[c.key]})]
  IN  IF c.type = "DOWN" /\ ~c.repeat THEN FireModifiers(o1, makeFlags(o1.fs)) ELSE o

\* A lazy modifier changes the count and emits nothing.
HandleVK_LAZY(o, c) ==
  LET f == {VirtualLazy[c.key]}
  IN  CASE c.repeat         -> o
        [] c.type = "DOWN" /\ ~c.repeat -> [o EXCEPT !.fs = increase(@, f)]
        [] c.type = "UP" /\ ~c.repeat   -> [o EXCEPT !.fs = decrease(@, f)]
        [] OTHER -> o

\* The part of FireKey::fire after the virtual keys.
FireOutputable(o, c) ==
  LET newflags == c.flags \ ExtraFlags
      o1 == FireModifiers(o, newflags)
      o2 == push(o1, [type |-> c.type, key |-> c.key, flags |-> newflags])
  IN  CASE c.type = "MODIFY" -> o1
        [] c.type = "DOWN" -> IF c.repeat THEN o2 ELSE [o2 EXCEPT !.pressed = add(@, c.key)]
        [] c.type = "UP"   -> IF c.repeat THEN o2 ELSE [o2 EXCEPT !.pressed = remove(@, c.key)]

FireKey(o, c) ==
  CASE c.key \in DOMAIN VirtualLock        -> HandleVK_LOCK(o, c)
    [] c.key \in DOMAIN VirtualSticky      -> HandleVK_STICKY(o, c)
    [] c.key \in DOMAIN VirtualLazy        -> HandleVK_LAZY(o, c)
    [] c.key \in ExtraFlags \cup {VK_NONE} -> o
    [] OTHER                               -> FireOutputable(o, c)

(***************************************************************************)
(* FireKey::fire_downup: press and release `key` with `flags` on.  For a   *)
(* modifier the two MODIFY events are made inside a                        *)
(* ScopedTemporaryFlagsChanger, so that only `flags` and the key's own     *)
(* flag are on while they are fired.                                       *)
(***************************************************************************)
fireModifierDownUp(o, flags, key) ==
  LET delta == scopeDelta(o.fs, flags)
      o1 == [o EXCEPT !.fs = increase(scopeEnter(@, flags), {key})]
      o2 == FireKey(o1, Call("MODIFY", key, makeFlags(o1.fs), FALSE))
      o3 == [o2 EXCEPT !.fs = decrease(@, {key})]
      o4 == FireKey(o3, Call("MODIFY", key, makeFlags(o3.fs), FALSE))
  IN  [o4 EXCEPT !.fs = scopeExit(@, delta)]

fire_downup(o, flags, key) ==
  IF key \in ModifierFlags
  THEN fireModifierDownUp(o, flags, key)
  ELSE FireKey(FireKey(o, Call("DOWN", key, flags, FALSE)), Call("UP", key, flags, FALSE))

-------------------------------------------------------------------------------
(***************************************************************************)
(* What a queue will have told the system, for the properties of the       *)
(* modules that have one: `down` and `flags` are the keys and the modifier *)
(* flags the system was told of before.                                    *)
(***************************************************************************)
toggled(S, x) == IF x \in S THEN S \ {x} ELSE S \cup {x}

\* Event e says whether key k is down.
about(e, k) == e.key = k /\ e.type \in {"DOWN", "UP"}

\* Whether the system will hold key k once all of q is delivered.
downAfter(down, q, k) ==
  \/ k \in down /\ \A i \in DOMAIN q : ~about(q[i], k)
  \/ \E i \in DOMAIN q :
       /\ about(q[i], k) /\ q[i].type = "DOWN"
       /\ \A j \in DOMAIN q : j > i => ~about(q[j], k)

\* The modifier flags are `to` once the first n events of q are delivered: none of
\* them changes the flags, or the last one that does leaves `to`.
announced(flags, q, n, to) ==
  \/ flags = to /\ \A i \in 1 .. n : q[i].type # "MODIFY"
  \/ \E i \in 1 .. n :
       /\ q[i].type = "MODIFY" /\ q[i].flags = to
       /\ \A j \in i + 1 .. n : q[j].type # "MODIFY"

===============================================================================
