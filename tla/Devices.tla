------------------------------- MODULE Devices --------------------------------
(***************************************************************************)
(* Consumer keys and pointing devices beside the keyboard: their hooks     *)
(* (ListHookedConsumer, ListHookedPointing, EventInputQueue), the          *)
(* consumer, pointing and scroll callbacks of Core, ButtonStatus, the      *)
(* functions that turn keys, consumer keys and buttons into each other,    *)
(* PointingRelativeToScroll, and the delivery of pointing events to one or *)
(* to all of several pointing devices that come and go.                    *)
(*                                                                         *)
(* Key, modifier and consumer events go to the system in the order they    *)
(* are queued, so the model keeps what the system holds once it has them   *)
(* all; pointing events are queued, as who gets them is decided on         *)
(* delivery.  An input event is worked off in one step.                    *)
(***************************************************************************)
EXTENDS EventOutput

CONSTANTS
  PhysKeys,       \* the keys of the keyboard
  PhysConsumers,  \* the consumer keys there are to press
  ConsumerKeys,   \* those the system may be sent, not counting VK_NONE
  RepeatingKeys,  \* those that KeyboardRepeat repeats
  Pointings,      \* the pointing devices there may be
  Buttons,        \* the mouse buttons
  Settings,       \* the rules and options that may be set, with the buttons each
                  \* device has and how often devices are plugged, unplugged or
                  \* configured, or a button goes down that another holds already
  MaxIn,          \* nothing moves while more input events wait
  MaxOut,         \* nor while more pointing events wait for output
  MaxDrift        \* nor while temporary counts are further from 0

NONE == VK_NONE

(***************************************************************************)
(* A rule: the class, the key or button it looks for with its flags, its   *)
(* targets with theirs, and isRepeatEnabled_.                              *)
(***************************************************************************)
Kinds ==
  {"KeyToConsumer", "ConsumerToConsumer", "ConsumerToKey", "KeyToPointingButton",
   "PointingButtonToKey", "PointingButtonToPointingButton", "PointingRelativeToScroll",
   "DropPointingRelativeCursorMove"}

fromType(kind) ==
  CASE kind \in {"KeyToConsumer", "KeyToPointingButton"} -> "key"
    [] kind \in {"ConsumerToConsumer", "ConsumerToKey"} -> "consumer"
    [] OTHER -> "button"

\* What a rule of a kind may look for, and turn it into.
sourcesOf(kind) ==
  CASE fromType(kind) = "key" -> PhysKeys
    [] fromType(kind) = "consumer" -> ConsumerKeys
    [] fromType(kind) = "button" -> Buttons

targetsOf(kind) ==
  CASE kind \in {"KeyToConsumer", "ConsumerToConsumer"} -> ConsumerKeys \cup {NONE}
    [] kind \in {"ConsumerToKey", "PointingButtonToKey"} ->
         PlainKeys \cup ModifierFlags \cup {NONE}
    [] OTHER -> Buttons

Rule ==
  [kind : Kinds, from : PhysKeys \cup ConsumerKeys \cup Buttons \cup {NONE},
   fromFlags : SUBSET ModifierFlags, repeat : BOOLEAN,
   to : Seq([key : KeyCodes \cup ConsumerKeys \cup Buttons, flags : SUBSET ModifierFlags])]

\* The rules of a setting: a rule to a key has one target, and the rule that drops the
\* cursor's moves looks for nothing but them.
wellFormed(r) ==
  /\ r.from \in sourcesOf(r.kind) \cup {NONE}
  /\ \A n \in DOMAIN r.to : r.to[n].key \in targetsOf(r.kind)
  /\ r.kind \in {"ConsumerToKey", "PointingButtonToKey"} => Len(r.to) = 1
  /\ r.kind = "DropPointingRelativeCursorMove" => r.from = NONE

ASSUME DevicesConstants ==
  /\ PhysKeys \subseteq PlainKeys \cup ModifierFlags
  /\ PhysConsumers \cup RepeatingKeys \subseteq ConsumerKeys
  /\ VK_NONE \notin ConsumerKeys \cup Buttons
  /\ ConsumerKeys \cap (PlainKeys \cup ModifierFlags) = {}
  /\ Settings \subseteq [rules : Seq(Rule), lazy : BOOLEAN, changes : Nat,
                         buttons : [Pointings -> SUBSET Buttons]]
  /\ \A st \in Settings : \A i \in DOMAIN st.rules : wellFormed(st.rules[i])
  /\ MaxIn \in Nat /\ MaxOut \in Nat /\ MaxDrift \in Nat

\* There are finitely many consumer keys, buttons and devices.
ASSUME FiniteDevices ==
  IsFiniteSet(ConsumerKeys) /\ IsFiniteSet(Buttons) /\ IsFiniteSet(Pointings)

VARIABLES
  setting,  \* the rules, and lazy_modifiers_with_mouse_event
  phys,     \* the keys, consumer keys and buttons of each device held
  dev,      \* the pointing devices: list_ (list), last_, those whose callbacks
            \* are replaced (hooked), previousbuttons_ (prev)
  inq,      \* EventInputQueue::queue_
  s,        \* the statics of the kext, see State
  told,     \* the buttons the system was last told each device holds
  changes

vars == <<setting, phys, dev, inq, s, told, changes>>

rules == setting.rules

Pointer == [buttons : SUBSET Buttons, move : BOOLEAN]

Event ==
  [type : {"key"}, what : PhysKeys, down : BOOLEAN, retain : BOOLEAN]
    \cup [type : {"consumer"}, what : ConsumerKeys, down : BOOLEAN, retain : BOOLEAN]
    \cup [type : {"button"}, what : Buttons, down : BOOLEAN, retain : BOOLEAN]
    \cup [type : {"move", "wheel"}, what : {NONE}, down : {FALSE}, retain : BOOLEAN]

Repeated == [key : PlainKeys \cup ConsumerKeys, down : BOOLEAN]

State ==
  [o : Statics,                            \* modifiers and keys, see EventOutput
   count : [Buttons -> Int],               \* ButtonStatus::item_
   held : Int,                             \* NumHeldDownKeys::num_
   active : [DOMAIN rules -> BOOLEAN],     \* FromKeyChecker::active_
   rep : SUBSET Repeated,                  \* KeyboardRepeat::queue_, as a set
   repeating : BOOLEAN,                    \* its timer is active
   owner : {0} \cup DOMAIN rules,          \* whose keyboardRepeatID_ is id_
   consumers : SUBSET ConsumerKeys,        \* the consumer keys the system holds
   scroll : Seq({0, 1}),                   \* PointingRelativeToScroll::queue_
   scrollFlags : SUBSET ModifierFlags,     \* currentFromFlags_
   scrolling : BOOLEAN,                    \* its timer_ is active
   out : Seq(Pointer)]                     \* the pointing events in queue_

Init ==
  /\ setting \in Settings
  /\ phys = [keys |-> {}, consumers |-> {}, buttons |-> [d \in Pointings |-> {}]]
  /\ \E n \in 1 .. Cardinality(Pointings) :
       LET list == SubSeq(SetToSeq(Pointings), 1, n)
       IN dev = [list |-> list, last |-> Last(list), hooked |-> ToSet(list),
                 prev |-> [d \in Pointings |-> {}]]
  /\ inq = << >>
  /\ s = [o |-> [fs |-> initializeItems, last |-> {}, q |-> << >>, pressed |-> nonePressed],
          count |-> [b \in Buttons |-> 0], held |-> 0,
          active |-> [i \in DOMAIN rules |-> FALSE],
          rep |-> {}, repeating |-> FALSE, owner |-> 0, consumers |-> {},
          scroll |-> << >>, scrollFlags |-> {}, scrolling |-> FALSE, out |-> << >>]
  /\ told = [d \in Pointings |-> {}]
  /\ changes = 0
-------------------------------------------------------------------------------
\* What the functions below are made of.  Key and modifier events are taken to be
\* delivered at once.

flags(t) == makeFlags(t.o.fs)

withFs(t, fs) == [t EXCEPT !.o.fs = fs]

sent(t, o) == [t EXCEPT !.o = [o EXCEPT !.q = << >>]]

announce(t) == sent(t, FireModifiers(t.o, flags(t)))

sendKey(t, key, down) ==
  sent(t, FireKey(t.o, Call(IF key \in ModifierFlags THEN "MODIFY"
                            ELSE IF down THEN "DOWN" ELSE "UP", key, flags(t), FALSE)))

\* ButtonStatus.
makeButtons(t) == {b \in Buttons : t.count[b] > 0}

plus(t, b, n) == [t EXCEPT !.count[b] = @ + n]

firePointer(t, move) ==
  [announce(t) EXCEPT !.out = Append(@, [buttons |-> makeButtons(t), move |-> move])]

\* KeyboardRepeat.
repeatCancel(t) == [t EXCEPT !.rep = {}, !.repeating = FALSE]

single(key) == {[key |-> key, down |-> TRUE]}

startRepeat(t, key) ==
  [t EXCEPT !.rep = single(key), !.repeating = TRUE, !.owner = 0]

endRepeat(t, key) == IF t.rep = single(key) THEN repeatCancel(t) ELSE t

\* Mutant: a modifier repeats.
repeatKeyAny(t, key, down) ==
  CASE key = VK_NONE -> t
    [] key # VK_NONE /\ down -> startRepeat(t, key)
    [] key # VK_NONE /\ ~down -> endRepeat(t, key)

repeatKey(t, key, down) ==
  CASE key = VK_NONE -> t
    [] key \in ModifierFlags -> repeatCancel(t)
    [] key \in PlainKeys /\ down -> startRepeat(t, key)
    [] key \in PlainKeys /\ ~down -> endRepeat(t, key)

\* Mutant: the release of a consumer key leaves the repeat alone.
repeatConsumerIgnoresUp(t, key, down) ==
  IF key = VK_NONE \/ ~down THEN t
  ELSE IF key \in RepeatingKeys THEN startRepeat(t, key) ELSE repeatCancel(t)

repeatConsumer(t, key, down) ==
  IF key = VK_NONE THEN t
  ELSE IF down /\ key \in RepeatingKeys THEN startRepeat(t, key) ELSE repeatCancel(t)

FireConsumer(t, key, down) ==
  IF key = VK_NONE THEN t
  ELSE [announce(t) EXCEPT !.consumers = IF down THEN @ \cup {key} ELSE @ \ {key}]

cancelScroll(t) == [t EXCEPT !.scroll = << >>, !.scrolling = FALSE]
-------------------------------------------------------------------------------
(***************************************************************************)
(* RemapFunc.  Each takes the statics after the rule r has been found to   *)
(* convert the event.                                                      *)
(***************************************************************************)
\* KeyToKey::remap with one target, called for a consumer key or a button.
toKey(t, r, down) ==
  LET to == r.to[1]
      fs == IF to.key \notin ModifierFlags
            THEN temporary_increase(temporary_decrease(t.o.fs, r.fromFlags), to.flags)
            ELSE IF down THEN decrease(increase(t.o.fs, to.flags \cup {to.key}), r.fromFlags)
                 ELSE increase(decrease(t.o.fs, to.flags \cup {to.key}), r.fromFlags)
  IN sendKey(IF down /\ ~r.repeat THEN repeatCancel(withFs(t, fs))
             ELSE repeatKey(withFs(t, fs), to.key, down), to.key, down)

\* Temporary counts that last for one call.
withFlags(t, fs) == withFs(t, temporary_increase(t.o.fs, fs))

withoutFlags(t, fs) == withFs(t, temporary_decrease(t.o.fs, fs))

\* One of several consumer keys: down and up with its flags.
repeatTap(t, key) ==
  IF key = VK_NONE THEN t ELSE [t EXCEPT !.rep = @ \cup [key : {key}, down : BOOLEAN]]

tapConsumer(t, to) ==
  withoutFlags(
    repeatTap(FireConsumer(FireConsumer(withFlags(t, to.flags), to.key, TRUE), to.key, FALSE),
              to.key), to.flags)

\* All of them; after that they repeat or not.
tapConsumers(t, to) ==
  LET after[n \in 0 .. Len(to)] == IF n = 0 THEN t ELSE tapConsumer(after[n - 1], to[n])
  IN after[Len(to)]

startTaps(t, i) ==
  IF rules[i].repeat THEN [t EXCEPT !.repeating = TRUE, !.owner = i] ELSE t

toConsumer(t, r, to, down) ==
  FireConsumer(IF down /\ ~r.repeat THEN repeatCancel(t) ELSE repeatConsumer(t, to.key, down),
               to.key, down)

toConsumers(t, i, down) ==
  LET r == rules[i]
  IN CASE Len(r.to) = 0 -> t
       [] Len(r.to) = 1 -> toConsumer(withFlags(t, r.to[1].flags), r, r.to[1], down)
       [] Len(r.to) > 1 /\ down ->
            startTaps(tapConsumers(repeatCancel(t), r.to), i)
       [] Len(r.to) > 1 /\ ~down ->
            IF r.repeat /\ t.owner = i THEN repeatCancel(t) ELSE t

ConsumerToConsumer(t, i, down) == toConsumers(withoutFlags(t, rules[i].fromFlags), i, down)

\* The from key's own flag, of a key that is turned into something else.
dropFromKey(t, r, down) ==
  withFs(t, IF down THEN decrease(t.o.fs, modifierOf(r.from))
            ELSE increase(t.o.fs, modifierOf(r.from)))

KeyToConsumer(t, i, down) == ConsumerToConsumer(dropFromKey(t, rules[i], down), i, down)

\* One of two mouse buttons: a click with its flags.
click(t, to) ==
  withoutFlags(
    firePointer(plus(firePointer(plus(withFlags(t, to.flags), to.key, 1), FALSE), to.key, -1),
                FALSE), to.flags)

toButtons(t, to, down) ==
  CASE Len(to) = 1 ->
         firePointer(plus(withFs(t, IF down THEN increase(t.o.fs, to[1].flags)
                                    ELSE decrease(t.o.fs, to[1].flags)),
                          to[1].key, IF down THEN 1 ELSE -1), FALSE)
    [] Len(to) = 2 /\ down -> click(click(t, to[1]), to[2])
    [] OTHER -> t

hideFlags(t, fs) == withFs(t, decrease(t.o.fs, fs))

showFlags(t, fs) == withFs(t, increase(t.o.fs, fs))

KeyToPointingButton(t, i, down) ==
  LET r == rules[i]
      own == r.fromFlags \cup modifierOf(r.from)
  IN IF down THEN toButtons(hideFlags(t, own), r.to, down)
     ELSE announce(showFlags(toButtons(t, r.to, down), own))

PointingButtonToKey(t, i, down) ==
  toKey(plus(t, rules[i].from, IF down THEN -1 ELSE 1), rules[i], down)

\* A drag: every pointing event is converted while the rule is active.
\* Mutant: the new button is not let go.
swapButtonsOnce(t, r, down) ==
  IF down /\ Len(r.to) = 1 THEN plus(plus(t, r.from, -1), r.to[1].key, 1)
  ELSE plus(t, r.from, IF down THEN -1 ELSE 1)

swapButtons(t, r, down) ==
  LET n == IF down THEN -1 ELSE 1
      u == plus(t, r.from, n)
  IN IF Len(r.to) = 1 THEN plus(u, r.to[1].key, -n) ELSE u

dragged(t, to, e) ==
  CASE Len(to) = 1 ->
         withoutFlags(firePointer(withFlags(t, to[1].flags), e.type = "move"), to[1].flags)
    [] Len(to) = 2 /\ ~e.down -> firePointer(t, e.type = "move")
    [] Len(to) = 2 /\ e.down -> click(click(t, to[1]), to[2])
    [] OTHER -> t

PointingButtonToPointingButton(t, i, e, isFrom) ==
  LET r == rules[i]
      u == withoutFlags(t, r.fromFlags)
  IN dragged(IF isFrom THEN swapButtons(u, r, e.down) ELSE u, r.to, e)

\* A move asks for scrolling; after a while, or when it turns, the queue is emptied.
toscroll(t, r, choice) ==
  [t EXCEPT !.scroll = Append(IF choice.fresh THEN << >> ELSE @, choice.delta),
            !.scrollFlags = r.fromFlags, !.scrolling = TRUE]

\* Mutant: the button that is to scroll stays pressed for the system.
releaseSourceNot(t, r) == firePointer(t, FALSE)

releaseSource(t, r) == plus(firePointer(plus(t, r.from, -1), FALSE), r.from, 1)

\* The button came up where and soon after it went down: a click after all.
clickSource(t, r) ==
  firePointer(plus(firePointer(plus(t, r.from, 1), FALSE), r.from, -1), FALSE)

PointingRelativeToScroll(t, i, choice) ==
  LET r == rules[i]
      first == ~s.active[i]
      last == s.active[i] /\ ~t.active[i]
  IN CASE r.from # NONE /\ first -> toscroll(releaseSource(t, r), r, choice)
       [] r.from # NONE /\ last ->
            IF choice.fresh THEN cancelScroll(t) ELSE clickSource(cancelScroll(t), r)
       [] OTHER -> toscroll(t, r, choice)
-------------------------------------------------------------------------------
(***************************************************************************)
(* Core: the callbacks, in which the first rule that takes an event        *)
(* converts it.                                                            *)
(***************************************************************************)
\* FromKeyChecker::isFromKey and isFromPointingButton.
isFrom(t, i, e) ==
  LET r == rules[i]
  IN /\ e.type = fromType(r.kind) /\ e.what = r.from /\ r.from # NONE
     /\ IF e.down THEN r.fromFlags \subseteq flags(t) ELSE t.active[i]

pointing(e) == e.type \in {"button", "move"}

takes(t, i, e) ==
  LET r == rules[i]
  IN \/ isFrom(t, i, e)
     \/ /\ r.kind \in {"PointingButtonToPointingButton", "PointingRelativeToScroll"}
        /\ pointing(e) /\ t.active[i]
     \/ /\ r.kind = "PointingRelativeToScroll" /\ r.from = NONE
        /\ pointing(e) /\ r.fromFlags \subseteq flags(t)
     \/ r.kind = "DropPointingRelativeCursorMove" /\ e.type = "move"

convertAs(t, i, e, choice, from) ==
  LET r == rules[i]
  IN CASE r.kind = "KeyToConsumer" -> KeyToConsumer(t, i, e.down)
       [] r.kind = "ConsumerToConsumer" -> ConsumerToConsumer(t, i, e.down)
       [] r.kind = "ConsumerToKey" -> toKey(t, r, e.down)
       [] r.kind = "KeyToPointingButton" -> KeyToPointingButton(t, i, e.down)
       [] r.kind = "PointingButtonToKey" -> PointingButtonToKey(t, i, e.down)
       [] r.kind = "PointingButtonToPointingButton" ->
            PointingButtonToPointingButton(t, i, e, from)
       [] r.kind = "PointingRelativeToScroll" -> PointingRelativeToScroll(t, i, choice)
       [] r.kind = "DropPointingRelativeCursorMove" -> t

convert(t, i, e, choice) ==
  LET from == isFrom(t, i, e)
  IN convertAs(IF from THEN [t EXCEPT !.active[i] = e.down] ELSE t, i, e, choice, from)

passThrough(t, e) ==
  CASE e.type = "key" -> sendKey(repeatKey(t, e.what, e.down), e.what, e.down)
    [] e.type = "consumer" -> FireConsumer(repeatConsumer(t, e.what, e.down), e.what, e.down)
    [] pointing(e) -> firePointer(t, e.type = "move")
    [] e.type = "wheel" -> announce(t)

releaseKeys(t) == sent(t, PressDownKeysClear(t.o))

\* Mutant: the flush leaves the mouse buttons alone.
flushKeepsButtons(t) ==
  releaseKeys([announce(withFs(repeatCancel(t), resetItems(t.o.fs))) EXCEPT !.held = 0])

\* When no key is held any more.
flush(t) ==
  LET u == [repeatCancel(t) EXCEPT !.held = 0, !.count = [b \in Buttons |-> 0]]
  IN releaseKeys(firePointer(announce(withFs(u, resetItems(t.o.fs))), FALSE))

\* NumHeldDownKeys: a CapsLock key comes up or down, not both.
countsAsHeld(e) ==
  e.type \in {"consumer", "button"} \/ (e.type = "key" /\ e.what # CAPSLOCK)

\* The callback of the input timer: the temporary counts, the held keys, and the
\* callback of Core for the kind of event.
received(t0, e) ==
  LET t == IF e.retain THEN t0 ELSE withFs(t0, clearTemporary(t0.o.fs))
      n == IF e.down THEN 1 ELSE -1
      u == IF countsAsHeld(e) THEN [t EXCEPT !.held = @ + n] ELSE t
  IN CASE e.type = "key" -> withFs(u, setKey(u.o.fs, e.what, IF e.down THEN {e.what} ELSE {}))
       [] e.type = "button" -> plus(u, e.what, n)
       [] OTHER -> u

remapped(t, e, choice) ==
  LET takers == {i \in DOMAIN rules : takes(t, i, e)}
  IN IF takers = {} THEN passThrough(t, e) ELSE convert(t, Min(takers), e, choice)

settled(t, e) == IF e.type = "key" /\ t.held <= 0 THEN flush(t) ELSE t

finished(t, e) == IF pointing(e) THEN t ELSE cancelScroll(t)

worked(t, e, choice) == finished(settled(remapped(received(t, e), e, choice), e), e)

Choice == [fresh : BOOLEAN, delta : {0, 1}]

\* What does not matter is not chosen.
choices(e) ==
  IF pointing(e) /\ \E i \in DOMAIN rules : rules[i].kind = "PointingRelativeToScroll"
  THEN Choice ELSE {[fresh |-> TRUE, delta |-> 0]}

InputTimer ==
  /\ inq # << >>
  /\ \E choice \in choices(Head(inq)) : s' = worked(s, Head(inq), choice)
  /\ inq' = Tail(inq)
  /\ UNCHANGED <<setting, phys, dev, told, changes>>

\* PointingRelativeToScroll::timer_callback, with the momentum.
ScrollTimer ==
  /\ s.scrolling
  /\ LET u == announce(withFs(s, temporary_decrease(s.o.fs, s.scrollFlags)))
         v == withFs(u, temporary_increase(u.o.fs, s.scrollFlags))
     IN s' = IF s.scroll = << >> THEN [s EXCEPT !.scrolling = FALSE]
             ELSE [v EXCEPT !.scroll = Tail(@) \o IF Head(@) = 1 THEN <<0>> ELSE << >>]
  /\ UNCHANGED <<setting, phys, dev, inq, told, changes>>
-------------------------------------------------------------------------------
(***************************************************************************)
(* ListHookedPointing::apply: to the device used last, or to the first     *)
(* whose callbacks are replaced; the release of all buttons to every one.  *)
(***************************************************************************)
present == ToSet(dev.list)

getReplaced ==
  IF dev.last \in present \cap dev.hooked THEN {dev.last}
  ELSE {dev.list[n] : n \in {n \in DOMAIN dev.list :
                               /\ dev.list[n] \in dev.hooked
                               /\ \A m \in 1 .. n - 1 : dev.list[m] \notin dev.hooked}}

\* Mutant: the release of all buttons goes to one device like all else.
receiversOne(p) == getReplaced

receivers(p) ==
  IF p.buttons = {} /\ ~p.move THEN present \cap dev.hooked ELSE getReplaced

OutputTimer ==
  /\ s.out # << >>
  /\ told' = [d \in Pointings |->
                IF d \in receivers(Head(s.out)) THEN Head(s.out).buttons ELSE told[d]]
  /\ s' = [s EXCEPT !.out = Tail(@)]
  /\ UNCHANGED <<setting, phys, dev, inq, changes>>
-------------------------------------------------------------------------------
\* The hooks.

mayMove == Len(inq) < MaxIn /\ Len(s.out) <= MaxOut

mayDrag ==
  /\ mayMove /\ Len(s.scroll) <= MaxOut
  /\ \A f \in ModifierFlags : s.o.fs[f].temporary >= -MaxDrift

event(type, what, down, retain) ==
  [type |-> type, what |-> what, down |-> down, retain |-> retain]

KeyMoves(k) ==
  /\ mayMove
  /\ phys' = [phys EXCEPT !.keys = toggled(@, k)]
  /\ inq' = Append(inq, event("key", k, k \notin phys.keys, FALSE))
  /\ UNCHANGED <<setting, dev, s, told, changes>>

ConsumerMoves(c) ==
  /\ mayMove
  /\ phys' = [phys EXCEPT !.consumers = toggled(@, c)]
  /\ inq' = Append(inq, event("consumer", c, c \notin phys.consumers, FALSE))
  /\ UNCHANGED <<setting, dev, s, told, changes>>

\* push_RelativePointerEventCallback: an event for each button that changed since
\* this device's last report, and one for the move.
reported(old, new, move) ==
  LET changed == SetToSeq((old \ new) \cup (new \ old))
  IN [n \in DOMAIN changed |-> event("button", changed[n], changed[n] \in new, setting.lazy)]
       \o IF move THEN <<event("move", NONE, FALSE, TRUE)>> ELSE << >>

Change == changes < setting.changes /\ changes' = changes + 1

\* Device d reports its buttons and whether it moved.
Reports(d, move) ==
  /\ mayDrag /\ d \in present
  /\ \E new \in SUBSET setting.buttons[d] :
       /\ move \/ new # phys.buttons[d]
       /\ IF \E x \in Pointings \ {d} : (new \ phys.buttons[d]) \cap phys.buttons[x] # {}
          THEN Change ELSE UNCHANGED changes
       /\ phys' = [phys EXCEPT !.buttons[d] = new]
       /\ IF d \in dev.hooked
          THEN /\ inq' = inq \o reported(dev.prev[d], new, move)
               /\ dev' = [dev EXCEPT !.last = d, !.prev[d] = new]
               /\ UNCHANGED told
          ELSE told' = [told EXCEPT ![d] = new] /\ UNCHANGED <<inq, dev>>
  /\ UNCHANGED <<setting, s>>

Wheel(d) ==
  /\ mayDrag /\ d \in present \cap dev.hooked
  /\ inq' = Append(inq, event("wheel", NONE, FALSE, setting.lazy))
  /\ dev' = [dev EXCEPT !.last = d]
  /\ UNCHANGED <<setting, phys, s, told, changes>>
-------------------------------------------------------------------------------
\* Devices come and go and are hooked or not by the options; the count of held
\* keys starts anew each time.

Plug(d) ==
  /\ Change /\ d \notin present
  /\ dev' = [dev EXCEPT !.list = Append(@, d), !.last = d, !.hooked = @ \cup {d}, !.prev[d] = {}]
  /\ s' = [s EXCEPT !.held = 0]
  /\ UNCHANGED <<setting, phys, inq, told>>

Unplug(d) ==
  /\ Change /\ d \in present
  /\ \E n \in DOMAIN dev.list :
       /\ dev.list[n] = d
       /\ dev' = [dev EXCEPT !.list = RemoveAt(@, n), !.last = d, !.hooked = @ \ {d}]
  /\ s' = [s EXCEPT !.held = 0]
  /\ phys' = [phys EXCEPT !.buttons[d] = {}]
  /\ told' = [told EXCEPT ![d] = {}]
  /\ UNCHANGED <<setting, inq>>

\* SET_CONFIG with options that leave some of the devices alone.
Configure(hooked) ==
  /\ Change
  /\ dev' = [dev EXCEPT !.hooked = hooked]
  /\ s' = [cancelScroll(repeatCancel(s))
             EXCEPT !.o.fs = sticky_clear(lock_clear(@)),
                    !.held = IF hooked = dev.hooked THEN @ ELSE 0]
  /\ UNCHANGED <<setting, phys, inq, told>>

Next ==
  \/ InputTimer \/ ScrollTimer \/ OutputTimer
  \/ \E k \in PhysKeys : KeyMoves(k)
  \/ \E c \in PhysConsumers : ConsumerMoves(c)
  \/ \E d \in Pointings :
       (\E move \in BOOLEAN : Reports(d, move)) \/ Wheel(d) \/ Plug(d) \/ Unplug(d)
  \/ \E hooked \in SUBSET present : Configure(hooked)

Spec == Init /\ [][Next]_vars
-------------------------------------------------------------------------------
\* The types of the variables.
TypeOK ==
  /\ setting \in Settings
  /\ phys \in [keys : SUBSET PhysKeys, consumers : SUBSET ConsumerKeys,
               buttons : [Pointings -> SUBSET Buttons]]
  /\ dev \in [list : Seq(Pointings), last : Pointings, hooked : SUBSET Pointings,
              prev : [Pointings -> SUBSET Buttons]]
  /\ dev.hooked \subseteq present
  /\ inq \in Seq(Event) /\ s \in State
  /\ told \in [Pointings -> SUBSET Buttons] /\ changes \in Nat

quiet == inq = << >> /\ s.out = << >>

nothingHeld ==
  phys.keys = {} /\ phys.consumers = {} /\ \A d \in Pointings : phys.buttons[d] = {}

converting == {i \in DOMAIN rules : s.active[i]}

\* Rule i, while it converts, presses button b or hides that it is pressed; turns
\* flag f on or off.
pressesButton(i, b) ==
  /\ rules[i].kind \in {"KeyToPointingButton", "PointingButtonToPointingButton"}
  /\ Len(rules[i].to) = 1 /\ rules[i].to[1].key = b

hidesButton(i, b) ==
  /\ rules[i].kind \in {"PointingButtonToKey", "PointingButtonToPointingButton"}
  /\ rules[i].from = b

toModifier(i) ==
  /\ rules[i].kind \in {"ConsumerToKey", "PointingButtonToKey"}
  /\ rules[i].to[1].key \in ModifierFlags

turnsOn(i, f) ==
  \/ /\ rules[i].kind = "KeyToPointingButton" /\ Len(rules[i].to) = 1
     /\ f \in rules[i].to[1].flags
  \/ toModifier(i) /\ f \in rules[i].to[1].flags \cup {rules[i].to[1].key}

turnsOff(i, f) ==
  \/ /\ rules[i].kind = "KeyToPointingButton"
     /\ f \in rules[i].fromFlags \cup modifierOf(rules[i].from)
  \/ rules[i].kind = "KeyToConsumer" /\ f \in modifierOf(rules[i].from)
  \/ toModifier(i) /\ f \in rules[i].fromFlags

\* No rule that takes every pointing event while it converts stands before one from
\* another button, the release of which it would take
\* (PointingButtonToPointingButton.cpp:80, PointingRelativeToScroll.cpp:76).
drags(i) == rules[i].kind \in {"PointingButtonToPointingButton", "PointingRelativeToScroll"}

dragsLast ==
  \A i, j \in DOMAIN rules :
    i < j /\ drags(i) /\ fromType(rules[j].kind) = "button" /\ rules[j].from # NONE
      => rules[j].from = rules[i].from

\* While the devices stay as they are, the three ways of counting agree with what is
\* held, on the keyboard and on every device, and with the rules converting it:
\* nothing a press of a key, consumer key or button did survives its release
\* (ButtonStatus, FlagStatus, NumHeldDownKeys).  CapsLock is a lock and not counted; a
\* rule for its key may convert when all keys are up.
CountsExact ==
  changes = 0 /\ inq = << >> /\ dragsLast /\ (\A i \in DOMAIN rules : rules[i].from # CAPSLOCK) =>
    /\ s.held = Cardinality(phys.keys \ {CAPSLOCK}) + Cardinality(phys.consumers)
                  + Cardinality(UNION {{d} \X phys.buttons[d] : d \in Pointings})
    /\ \A b \in Buttons :
         s.count[b] = Cardinality({d \in Pointings : b \in phys.buttons[d]})
                        + Cardinality({i \in converting : pressesButton(i, b)})
                        - Cardinality({i \in converting : hidesButton(i, b)})
    /\ \A f \in ModifierFlags \ {CAPSLOCK} :
         s.o.fs[f].count = Cardinality({f} \cap phys.keys)
                             + Cardinality({i \in converting : turnsOn(i, f)})
                             - Cardinality({i \in converting : turnsOff(i, f)})

\* Every pointing event a rule takes leads to one for the system, but for moves.
firesAll(r) ==
  /\ r.kind # "PointingRelativeToScroll"
  /\ r.kind = "PointingButtonToPointingButton" => Len(r.to) \in {1, 2}

\* With all keys and buttons up no device is left with a button the system thinks
\* held, whichever device each event went to (ListHookedPointing::apply) - unless a
\* rule takes the release of a button pressed before, to scroll or for a button that
\* is turned into nothing or into more than two.
ReleasedEverywhere ==
  changes = 0 /\ quiet /\ nothingHeld /\ dragsLast
      /\ (\A i \in DOMAIN rules : firesAll(rules[i]) /\ rules[i].from # CAPSLOCK)
    => \A d \in present : told[d] = {}

\* The button that scrolls is up for the system while it does
\* (PointingRelativeToScroll.cpp:83-88) - where it is the only button, no rule presses
\* one, and no rule before takes its release: any other event would report it pressed,
\* as its count is kept.
SourceReleased ==
  changes = 0 /\ quiet /\ dragsLast
      /\ Cardinality(UNION {setting.buttons[d] : d \in Pointings}) <= 1
      /\ (\A i \in DOMAIN rules :
            rules[i].kind \notin {"KeyToPointingButton", "PointingButtonToPointingButton"})
    => \A i \in converting :
         rules[i].kind = "PointingRelativeToScroll" =>
           \A d \in present : rules[i].from \notin told[d]

\* The system holds a consumer key only while its key, or one turned into it, is
\* held; KeyboardRepeat repeats only what is held.
sources(c) ==
  {i \in converting : /\ rules[i].kind \in {"KeyToConsumer", "ConsumerToConsumer"}
                      /\ Len(rules[i].to) = 1 /\ rules[i].to[1].key = c}

ConsumersFollowKeys ==
  inq = << >> =>
    /\ \A c \in s.consumers : c \in phys.consumers \/ sources(c) # {}
    /\ s.repeating /\ s.owner # 0 => s.active[s.owner]
    /\ \A k \in PlainKeys : s.rep = single(k) => s.o.pressed[k] > 0
    /\ \A c \in ConsumerKeys : s.rep = single(c) => c \in s.consumers

recovered(t) ==
  /\ t.held = 0 /\ t.rep = {} /\ ~t.repeating /\ t.o.pressed = nonePressed
  /\ \A b \in Buttons : t.count[b] = 0
  /\ t.o.last \subseteq {CAPSLOCK}
  /\ \A f \in ModifierFlags \ {CAPSLOCK} : Total(t.o.fs[f]) = 0
  /\ t.out # << >> /\ Last(t.out) = [buttons |-> {}, move |-> FALSE]

typed(k) ==
  LET any == [fresh |-> TRUE, delta |-> 0]
  IN worked(worked(s, event("key", k, TRUE, FALSE), any), event("key", k, FALSE, FALSE), any)

\* Whatever devices were plugged, unplugged, hooked and released in the middle of
\* a drag: unless the count of held keys has been left too high, typing one key
\* makes all counts zero, releases every key and tells every device so; only CapsLock
\* may stay on.
TypingRecovers ==
  quiet /\ nothingHeld /\ s.held <= 0 => \A k \in PhysKeys \ {CAPSLOCK} : recovered(typed(k))
===============================================================================
