------------------------------- MODULE KeyRemap -------------------------------
(***************************************************************************)
(* The path of a key event through the kext: the hook that replaced the    *)
(* keyboard's callback, EventInputQueue, Core::remap_KeyboardEventCallback *)
(* with the KeyToKey rules, KeyboardRepeat, the flush when no key is held  *)
(* any more, EventOutputQueue, and the system's own callback; and what     *)
(* reloading the rules and plugging the keyboard do to it.                 *)
(*                                                                         *)
(* One keyboard.  All timers run on one work loop and every entry point    *)
(* holds the global lock, except around the system's callback: there a     *)
(* delivery is two actions, and the hook, the user client and the device   *)
(* notifications may run in between.  A loop over the keys of a rule or    *)
(* over the repeating keys is one action per key; `loop` says that one is  *)
(* under way, and nobody else runs until it ends.                          *)
(*                                                                         *)
(* MaxIn, MaxOut, MaxFronts and MaxChanges bound what the environment may  *)
(* do; the code has no such bounds.                                        *)
(***************************************************************************)
EXTENDS EventOutput

CONSTANTS
  PhysKeys,     \* the keys of the keyboard
  RuleSets,     \* the rule sequences that may be loaded
  MaxIn,        \* no key moves while so many events wait in the input queue
  MaxOut,       \* no key moves or repeats while more events wait for output
  MaxFronts,    \* how often another application comes to the front
  MaxChanges    \* how often rules are reloaded or the keyboard (un)plugged

(***************************************************************************)
(* A rule: the from key with its flags (`exact` is ModifierFlag::NONE in   *)
(* them: no other modifier may be on), the target keys with their flags,   *)
(* isRepeatEnabled_, and whether the rule has a filter that the front      *)
(* application can close.                                                  *)
(***************************************************************************)
Target == [key : KeyCodes, flags : SUBSET ModifierFlags]

Rule == [from : PlainKeys \cup ModifierFlags, fromFlags : SUBSET ModifierFlags,
         exact : BOOLEAN, repeat : BOOLEAN, filtered : BOOLEAN,
         to : Seq(Target)]

ASSUME KeyRemapConstants ==
  /\ PhysKeys \subseteq PlainKeys \cup (ModifierFlags \ ExtraFlags)
  /\ RuleSets \subseteq Seq(Rule)
  /\ MaxIn \in Nat /\ MaxOut \in Nat /\ MaxFronts \in Nat /\ MaxChanges \in Nat

VARIABLES
  phys,         \* the keys down on the keyboard (CAPSLOCK: the light is on)
  inq,          \* EventInputQueue::queue_
  inArmed,      \* EventInputQueue::fire_timer_ is active
  held,         \* NumHeldDownKeys::num_
  rules,        \* RemapClassManager::remapclasses_
  config,       \* the rules with RemapClass::enabled_ set (enabled), those in
                \* enabled_remapclasses_ (list), refresh_timer_ is active (refresh),
                \* how often the front application has changed (fronts)
  active,       \* FromKeyChecker::active_ of each rule
  rep,          \* KeyboardRepeat: queue_ (items), fire_timer_ (armed), and
                \* the rule that holds id_ in keyboardRepeatID_ (0: none)
  out,          \* the statics of EventOutput
  outArmed,     \* EventOutputQueue::fire_timer_ is active
  sending,      \* the output timer is inside the system's callback
  loop,         \* the loop under way, its rule and the next index
  os,           \* what the system was told: keys down and modifier flags
  plugged,      \* the keyboard is in ListHookedKeyboard
  initialized,  \* Config::sysctl_initialized
  changes

vars == << phys, inq, inArmed, held, rules, config, active, rep, out, outArmed, sending,
           loop, os, plugged, initialized, changes >>

\* What only the environment and its timer change.
settings == << rules, config, plugged, initialized, changes >>

idle == [kind |-> "idle", rule |-> 0, next |-> 0]

\* The keyboard's callback is replaced by the kext's.
hooked == plugged /\ initialized

none(rs) == [i \in DOMAIN rs |-> FALSE]

Event == [key : PhysKeys, down : BOOLEAN]

RepeatItem == [type : {"NORMAL", "DOWNUP"}, key : KeyCodes, flags : SUBSET ModifierFlags]

RepeatState(rs) == [items : Seq(RepeatItem), armed : BOOLEAN, owner : {0} \cup DOMAIN rs]

Config(rs) == [enabled : SUBSET DOMAIN rs, list : SUBSET DOMAIN rs, refresh : BOOLEAN,
               fronts : Nat]

LoopState(rs) == [kind : {"idle", "keys", "repeat"}, rule : {0} \cup DOMAIN rs, next : Nat]

TypeOK ==
  /\ phys \subseteq PhysKeys
  /\ inq \in Seq(Event)
  /\ inArmed \in BOOLEAN /\ outArmed \in BOOLEAN /\ sending \in BOOLEAN
  /\ plugged \in BOOLEAN /\ initialized \in BOOLEAN
  /\ held \in Int /\ changes \in Nat
  /\ rules \in RuleSets
  /\ config \in Config(rules)
  /\ active \in [DOMAIN rules -> BOOLEAN]
  /\ rep \in RepeatState(rules)
  /\ out \in Statics
  /\ loop \in LoopState(rules)
  /\ os \in [down : SUBSET OutputKeys, flags : SUBSET ModifierFlags]

Init ==
  /\ phys = {} /\ inq = << >> /\ inArmed = FALSE /\ held = 0
  /\ rules \in RuleSets /\ active = none(rules)
  /\ config = [enabled |-> DOMAIN rules, list |-> DOMAIN rules, refresh |-> FALSE,
               fronts |-> 0]
  /\ rep = [items |-> << >>, armed |-> FALSE, owner |-> 0]
  /\ out = [fs |-> initializeItems, last |-> {}, q |-> << >>, pressed |-> nonePressed]
  /\ outArmed = FALSE /\ sending = FALSE /\ loop = idle
  /\ os = [down |-> {}, flags |-> {}]
  /\ plugged = TRUE /\ initialized = TRUE /\ changes = 0

-------------------------------------------------------------------------------
(***************************************************************************)
(* KeyboardRepeat.                                                         *)
(***************************************************************************)
\* Mutant: a sequence of keys is not cancelled.
repeatCancelSingle(r) ==
  IF Len(r.items) > 1 THEN r ELSE [r EXCEPT !.items = << >>, !.armed = FALSE]

repeatCancel(r) == [r EXCEPT !.items = << >>, !.armed = FALSE]

\* Mutant: the release of the repeating key does not end the repeat.
repeatSetIgnoresUp(r, c) ==
  IF c.key = VK_NONE \/ c.type = "UP" THEN r
  ELSE IF c.type = "MODIFY" THEN repeatCancel(r)
  ELSE [items |-> << [type |-> "NORMAL", key |-> c.key, flags |-> c.flags] >>,
        armed |-> TRUE, owner |-> 0]

repeatSet(r, c) ==
  CASE c.key = VK_NONE -> r
    [] c.key # VK_NONE /\ c.type = "MODIFY" -> repeatCancel(r)
    [] c.key # VK_NONE /\ c.type = "UP" ->
         IF Len(r.items) = 1 /\ r.items[1].key = c.key THEN repeatCancel(r) ELSE r
    [] c.key # VK_NONE /\ c.type = "DOWN" ->
         [items |-> << [type |-> "NORMAL", key |-> c.key, flags |-> c.flags] >>,
          armed |-> TRUE, owner |-> 0]

primitive_add_downup(r, flags, key) ==
  IF key = VK_NONE THEN r
  ELSE [r EXCEPT !.items = Append(@, [type |-> "DOWNUP", key |-> key, flags |-> flags])]

primitive_start(r, rule) == [r EXCEPT !.armed = TRUE, !.owner = rule]

-------------------------------------------------------------------------------
(***************************************************************************)
(* KeyToKey.                                                               *)
(***************************************************************************)
isKeyLikeModifier(key) == key \in DOMAIN VirtualLazy

\* The last target key stays down with the from key.
lastIsModifier(r) ==
  LET key == r.to[Len(r.to)].key IN key \in ModifierFlags \/ isKeyLikeModifier(key)

\* fromFlags without the from key's own flag.
fromFlagsOf(r) == r.fromFlags \ modifierOf(r.from)

\* Mutant: the key-up is decided by the flags too (FromKeyChecker.hpp:36-47).
isFromKeyByFlags(r, isactive, e, flags) ==
  r.from = e.key /\ r.fromFlags \subseteq flags /\ (r.exact => r.fromFlags = flags)

\* FromKeyChecker::isFromKey on a rule: by the flags when the key goes down,
\* by what was decided then when it comes up.
isFromKey(r, isactive, e, flags) ==
  /\ r.from = e.key
  /\ e.down  => r.fromFlags \subseteq flags /\ (r.exact => r.fromFlags = flags)
  /\ ~e.down => isactive

\* The from key's own flag does not count while the rule converts it.
dropFromKey(fs, r, e) ==
  IF e.down THEN decrease(fs, modifierOf(r.from)) ELSE increase(fs, modifierOf(r.from))

\* The flags a modifier target adds, and those of the from side it takes away.
holdFlags(fs, r, to) ==
  decrease(increase(fs, to.flags \cup modifierOf(to.key)), fromFlagsOf(r))

\* Mutant: the flags taken from the from side are not given back.
unholdFlagsHalf(fs, r, to) == decrease(fs, to.flags \cup modifierOf(to.key))

unholdFlags(fs, r, to) ==
  increase(decrease(fs, to.flags \cup modifierOf(to.key)), fromFlagsOf(r))

singleKeyFlags(fs, r, e) ==
  LET to == r.to[1]
  IN  CASE ~lastIsModifier(r) ->
             temporary_increase(temporary_decrease(fs, fromFlagsOf(r)), to.flags)
        [] lastIsModifier(r) /\ e.down  -> holdFlags(fs, r, to)
        [] lastIsModifier(r) /\ ~e.down -> unholdFlags(fs, r, to)

eventType(key, down) ==
  IF key \in ModifierFlags THEN "MODIFY" ELSE IF down THEN "DOWN" ELSE "UP"

singleKeyCall(fs, r, e) ==
  Call(eventType(r.to[1].key, e.down), r.to[1].key, makeFlags(fs), FALSE)

\* A rule with one target key: KeyboardRepeat::set, then FireKey::fire.
RemapSingle(o, r, e) ==
  LET fs == singleKeyFlags(dropFromKey(o.fs, r, e), r, e)
  IN  FireKey([o EXCEPT !.fs = fs], singleKeyCall(fs, r, e))

RepeatSingle(p, o, r, e) ==
  LET fs == singleKeyFlags(dropFromKey(o.fs, r, e), r, e)
  IN  IF e.down /\ ~r.repeat THEN repeatCancel(p) ELSE repeatSet(p, singleKeyCall(fs, r, e))

\* The from key of a rule with several target keys comes up.
RemapKeysUp(o, r, e) ==
  LET to == r.to[Len(r.to)]
      o1 == [o EXCEPT !.fs = dropFromKey(@, r, e)]
      o2 == IF isKeyLikeModifier(to.key)
            THEN FireKey(o1, Call("UP", to.key, makeFlags(o1.fs), FALSE)) ELSE o1
      o3 == [o2 EXCEPT !.fs = unholdFlags(@, r, to)]
  IN  IF lastIsModifier(r) THEN FireModifiers(o3, makeFlags(o3.fs)) ELSE o1

\* Mutant: the release of the from key does not look at keyboardRepeatID_.
RepeatKeysUpNever(p, r, i) == p

RepeatKeysUp(p, r, i) ==
  IF ~lastIsModifier(r) /\ p.owner = i THEN repeatCancel(p) ELSE p

\* It goes down: before, in each turn of, and after the loop over the targets.
RemapKeysDown(o, r, e) ==
  [o EXCEPT !.fs = temporary_decrease(dropFromKey(@, r, e), fromFlagsOf(r))]

keysInLoop(r) == IF lastIsModifier(r) THEN Len(r.to) - 1 ELSE Len(r.to)

fireTarget(o, to) ==
  LET o1 == [o EXCEPT !.fs = temporary_increase(@, to.flags)]
      o2 == fire_downup(o1, makeFlags(o1.fs), to.key)
  IN  [o2 EXCEPT !.fs = temporary_decrease(@, to.flags)]

holdLast(o, r) ==
  LET to == r.to[Len(r.to)]
      o1 == [o EXCEPT !.fs = holdFlags(temporary_increase(@, fromFlagsOf(r)), r, to)]
  IN  IF isKeyLikeModifier(to.key)
      THEN FireKey(o1, Call("DOWN", to.key, makeFlags(o1.fs), FALSE))
      ELSE FireModifiers(o1, makeFlags(o1.fs))

-------------------------------------------------------------------------------
(***************************************************************************)
(* The input timer: Core::remap_KeyboardEventCallback on the front event.  *)
(***************************************************************************)
event == Head(inq)

\* FlagStatus::set(key, flags) with the event's flags.
fsOfEvent == setKey(out.fs, event.key, IF event.down THEN {event.key} ELSE {})

\* Mutant: the hardware CapsLock is counted like any key.
heldAfterCaps(h, e) == IF e.down THEN h + 1 ELSE h - 1

heldAfter(h, e) == IF e.key = CAPSLOCK THEN h ELSE IF e.down THEN h + 1 ELSE h - 1

\* Every other application in front is one that the filters exclude.
excluded == config.fronts % 2 = 1

\* Asked about every event, a release as much as a press.
isblocked(i) == rules[i].filtered /\ excluded

\* The first enabled rule that takes the event; those before it change nothing.
matches(i) ==
  i \in config.list /\ ~isblocked(i) /\ isFromKey(rules[i], active[i], event, makeFlags(fsOfEvent))

firstMatch(i) == matches(i) /\ \A j \in DOMAIN rules : j < i => ~matches(j)

InputReady == loop = idle /\ ~sending /\ inArmed /\ inq # << >>

\* Mutant: the flush does not announce the modifiers.
flushQuietly(o) ==
  PressDownKeysClear(push([o EXCEPT !.fs = resetItems(@)],
                          [type |-> "POINTER", key |-> VK_NONE, flags |-> {}]))

\* What Core does when no key is held any more.
flush(o) ==
  LET o1 == [o EXCEPT !.fs = resetItems(@)]
      o2 == FireModifiers(o1, makeFlags(o1.fs))
  IN  PressDownKeysClear(FireRelativePointer(o2))

output(o) == out' = o /\ outArmed' = (outArmed \/ Len(o.q) > Len(out.q))

\* Mutant: the input timer does not arm itself for the rest of the queue.
moreInputIgnored == FALSE

\* setTimer, after the front event is popped.
moreInput == Tail(inq) # << >>

\* The end of the callback, and the timer's pop_front and setTimer.
FinishEvent(o, p, h) ==
  /\ IF h <= 0 THEN output(flush(o)) /\ rep' = repeatCancel(p) /\ held' = 0
               ELSE output(o) /\ rep' = p /\ held' = h
  /\ inq' = Tail(inq)
  /\ inArmed' = moreInput
  /\ UNCHANGED << phys, sending, os, settings >>

PassThrough ==
  /\ InputReady
  /\ \A i \in DOMAIN rules : ~matches(i)
  /\ LET c == Call(eventType(event.key, event.down), event.key, makeFlags(fsOfEvent), FALSE)
     IN  FinishEvent(FireKey([out EXCEPT !.fs = fsOfEvent], c), repeatSet(rep, c),
                     heldAfter(held, event))
  /\ UNCHANGED << active, loop >>

\* KeyToKey::remap, but for a rule whose loop starts.
Remap(i) ==
  /\ InputReady
  /\ firstMatch(i)
  /\ ~event.down \/ Len(rules[i].to) <= 1
  /\ active' = [active EXCEPT ![i] = event.down]
  /\ LET o == [out EXCEPT !.fs = fsOfEvent]
         r == rules[i]
         h == heldAfter(held, event)
     IN  CASE Len(r.to) = 0 -> FinishEvent([o EXCEPT !.fs = dropFromKey(@, r, event)], rep, h)
           [] Len(r.to) = 1 -> FinishEvent(RemapSingle(o, r, event), RepeatSingle(rep, o, r, event), h)
           [] OTHER -> FinishEvent(RemapKeysUp(o, r, event), RepeatKeysUp(rep, r, i), h)
  /\ loop' = idle

StartKeys(i) ==
  /\ InputReady
  /\ firstMatch(i)
  /\ event.down /\ Len(rules[i].to) > 1
  /\ active' = [active EXCEPT ![i] = TRUE]
  /\ held' = heldAfter(held, event)
  /\ rep' = repeatCancel(rep)
  /\ out' = RemapKeysDown([out EXCEPT !.fs = fsOfEvent], rules[i], event)
  /\ loop' = [kind |-> "keys", rule |-> i, next |-> 1]
  /\ UNCHANGED << phys, inq, inArmed, outArmed, sending, os, settings >>

KeysStep ==
  /\ loop.kind = "keys" /\ loop.next <= keysInLoop(rules[loop.rule])
  /\ LET to == rules[loop.rule].to[loop.next]
     IN  /\ output(fireTarget(out, to))
         /\ rep' = primitive_add_downup(rep, makeFlags(temporary_increase(out.fs, to.flags)), to.key)
  /\ loop' = [loop EXCEPT !.next = @ + 1]
  /\ UNCHANGED << phys, inq, inArmed, held, active, sending, os, settings >>

KeysEnd ==
  /\ loop.kind = "keys" /\ loop.next > keysInLoop(rules[loop.rule])
  /\ LET r == rules[loop.rule]
     IN  IF lastIsModifier(r) THEN FinishEvent(holdLast(out, r), repeatCancel(rep), held)
         ELSE FinishEvent(out, IF r.repeat THEN primitive_start(rep, loop.rule) ELSE rep, held)
  /\ loop' = idle
  /\ UNCHANGED active

-------------------------------------------------------------------------------
(***************************************************************************)
(* KeyboardRepeat::fire_timer_callback.  It always arms its timer again;   *)
(* with no item it does nothing else.                                      *)
(***************************************************************************)
fireItem(i) ==
  LET p == rep.items[i]
  IN  IF p.type = "NORMAL" THEN FireKey(out, Call("DOWN", p.key, p.flags, Len(rep.items) = 1))
      ELSE fire_downup(out, p.flags, p.key)

RepeatItemFires(i) ==
  /\ output(fireItem(i))
  /\ loop' = IF i = Len(rep.items) THEN idle ELSE [kind |-> "repeat", rule |-> 0, next |-> i + 1]
  /\ UNCHANGED << phys, inq, inArmed, held, active, rep, sending, os, settings >>

RepeatTimer ==
  /\ loop = idle /\ ~sending /\ rep.armed /\ rep.items # << >>
  /\ Len(out.q) <= MaxOut
  /\ RepeatItemFires(1)

RepeatStep == loop.kind = "repeat" /\ RepeatItemFires(loop.next)

-------------------------------------------------------------------------------
(***************************************************************************)
(* The output timer: Item::apply calls the system with the lock released,  *)
(* or does not call it at all.                                             *)
(***************************************************************************)
receive(e) ==
  CASE e.type = "MODIFY"  -> [os EXCEPT !.flags = e.flags]
    [] e.type = "DOWN"    -> [os EXCEPT !.down = @ \cup {e.key}]
    [] e.type = "UP"      -> [os EXCEPT !.down = @ \ {e.key}]
    [] e.type = "POINTER" -> os

delivered(e) == hooked /\ e.flags \cap ExtraFlags = {}

OutputReady == loop = idle /\ ~sending /\ outArmed /\ out.q # << >>

\* Mutant: the output timer does not arm itself for the rest of the queue.
popOutputOnce == out' = [out EXCEPT !.q = Tail(@)] /\ outArmed' = FALSE

popOutput ==
  /\ out' = [out EXCEPT !.q = Tail(@)]
  /\ outArmed' = (Tail(out.q) # << >>)

OutputTimer ==
  /\ OutputReady
  /\ delivered(Head(out.q))
  /\ os' = receive(Head(out.q))
  /\ sending' = TRUE
  /\ outArmed' = FALSE
  /\ UNCHANGED << phys, inq, inArmed, held, active, rep, out, loop, settings >>

OutputDone ==
  /\ sending
  /\ sending' = FALSE
  /\ popOutput
  /\ UNCHANGED << phys, inq, inArmed, held, active, rep, loop, os, settings >>

OutputDropped ==
  /\ OutputReady
  /\ ~delivered(Head(out.q))
  /\ popOutput
  /\ UNCHANGED << phys, inq, inArmed, held, active, rep, sending, loop, os, settings >>

-------------------------------------------------------------------------------
(***************************************************************************)
(* The environment.  A key moves: the hook queues the event, or, with the  *)
(* keyboard's own callback in place, the system gets it unseen.            *)
(***************************************************************************)
KeyMoves(k) ==
  /\ loop = idle /\ plugged
  /\ Len(inq) < MaxIn /\ Len(out.q) <= MaxOut
  /\ phys' = toggled(phys, k)
  /\ IF hooked
     THEN /\ inq' = Append(inq, [key |-> k, down |-> k \notin phys])
          /\ inArmed' = TRUE
          /\ UNCHANGED os
     ELSE /\ os' = IF k \in ModifierFlags
                   THEN [os EXCEPT !.flags = IF k \in phys THEN @ \ {k} ELSE @ \cup {k}]
                   ELSE [os EXCEPT !.down = IF k \in phys THEN @ \ {k} ELSE @ \cup {k}]
          /\ UNCHANGED << inq, inArmed >>
  /\ UNCHANGED << held, active, rep, out, outArmed, sending, loop, settings >>

Change == loop = idle /\ changes < MaxChanges /\ changes' = changes + 1

\* Mutant: the reload forgets what is pressed without releasing it.
set_initializedForgets(value) ==
  /\ initialized' = value
  /\ out' = [out EXCEPT !.fs = sticky_clear(lock_clear(@)), !.pressed = nonePressed]
  /\ held' = IF plugged /\ initialized # value THEN 0 ELSE held
  /\ UNCHANGED << phys, inq, inArmed, outArmed, sending, loop, os, plugged >>

\* Config::set_initialized.  A repeat timer that has expired and waits for the
\* lock is not cancelled any more.
set_initialized(value) ==
  /\ initialized' = value
  /\ out' = [out EXCEPT !.fs = sticky_clear(lock_clear(@))]
  /\ held' = IF plugged /\ initialized # value THEN 0 ELSE held
  /\ UNCHANGED << phys, inq, inArmed, outArmed, sending, loop, os, plugged >>

\* SET_REMAPCLASSES: the rules are freed and new ones made, none enabled.
SetRemapClasses(rs) ==
  /\ Change
  /\ set_initialized(FALSE)
  /\ rules' = rs /\ active' = none(rs)
  /\ config' = [config EXCEPT !.enabled = {}, !.list = {}]
  /\ \E armed \in {FALSE, rep.armed} : rep' = [items |-> << >>, armed |-> armed, owner |-> 0]

\* SET_CONFIG: it enables rules, but which rules convert is up to the refresh.
SetConfig ==
  /\ Change
  /\ set_initialized(TRUE)
  /\ \E S \in SUBSET DOMAIN rules : config' = [config EXCEPT !.enabled = S, !.refresh = TRUE]
  /\ \E armed \in {FALSE, rep.armed} : rep' = [repeatCancel(rep) EXCEPT !.armed = armed]
  /\ UNCHANGED << rules, active >>

\* RemapClassManager::refresh_timer_callback.
RefreshTimer ==
  /\ loop = idle /\ ~sending /\ config.refresh
  /\ config' = [config EXCEPT !.list = config.enabled, !.refresh = FALSE]
  /\ rep' = repeatCancel(rep)
  /\ UNCHANGED << phys, inq, inArmed, held, rules, active, out, outArmed, sending, loop, os,
                  plugged, initialized, changes >>

\* SET_WORKSPACEDATA: another application is in front.  Nothing else is told.
SetWorkspaceData ==
  /\ loop = idle
  /\ \E i \in DOMAIN rules : rules[i].filtered
  /\ config.fronts < MaxFronts
  /\ config' = [config EXCEPT !.fronts = @ + 1]
  /\ UNCHANGED << phys, inq, inArmed, held, rules, active, rep, out, outArmed, sending, loop, os,
                  plugged, initialized, changes >>

\* ListHookedDevice::erase and push_back: the device's keys are forgotten.
Unplug ==
  /\ Change /\ plugged
  /\ plugged' = FALSE /\ held' = 0 /\ phys' = {}
  /\ UNCHANGED << inq, inArmed, rules, config, active, rep, out, outArmed, sending, loop, os,
                  initialized >>

Plug ==
  /\ Change /\ ~plugged
  /\ plugged' = TRUE /\ held' = 0
  /\ UNCHANGED << phys, inq, inArmed, rules, config, active, rep, out, outArmed, sending, loop, os,
                  initialized >>

InputTimer == PassThrough \/ (\E i \in DOMAIN rules : Remap(i) \/ StartKeys(i))

Next ==
  \/ \E k \in PhysKeys : KeyMoves(k)
  \/ InputTimer \/ KeysStep \/ KeysEnd
  \/ RepeatTimer \/ RepeatStep
  \/ OutputTimer \/ OutputDone \/ OutputDropped
  \/ (\E rs \in RuleSets : SetRemapClasses(rs)) \/ SetConfig \/ RefreshTimer \/ Unplug \/ Plug
  \/ SetWorkspaceData

Spec == Init /\ [][Next]_vars

(***************************************************************************)
(* What the timers guarantee: an armed timer fires.  They run on one work  *)
(* loop in the order of their deadlines, so an input event whose timer has *)
(* expired is taken although output events keep coming (SF); a callback    *)
(* that was entered returns.  The repeat timer is owed nothing here.       *)
(*                                                                         *)
(* Of the steps of Next those that satisfy InputTaken are InputTimer's,    *)
(* and those that satisfy LoopGoesOn KeysStep's, KeysEnd's and             *)
(* RepeatStep's; each is enabled when one of them is.                      *)
(***************************************************************************)
InputTaken ==
  /\ InputReady
  /\ \/ inq' = Tail(inq) /\ loop' = idle
     \/ inq' = inq /\ loop' \in {[kind |-> "keys", rule |-> i, next |-> 1] : i \in DOMAIN rules}

LoopGoesOn == loop # idle /\ loop' \in {idle, [loop EXCEPT !.next = @ + 1]}

Fairness ==
  /\ SF_<< inq, loop >>(InputTaken)
  /\ SF_vars(OutputTimer \/ OutputDropped)
  /\ WF_loop(LoopGoesOn) /\ WF_vars(OutputDone)

FairSpec == Spec /\ Fairness

-------------------------------------------------------------------------------
(***************************************************************************)
(* Properties.                                                             *)
(***************************************************************************)

\* The key as the remapping code has seen it: on the keyboard, but for the
\* events that still wait.
seen(k) ==
  LET waiting == Cardinality({i \in DOMAIN inq : inq[i].key = k})
  IN  (k \in phys) # (waiting % 2 = 1)

\* Quiescent: every event was handled and delivered.
quiet == loop = idle /\ ~sending /\ inq = << >> /\ out.q = << >>

\* No queued event is left without a timer that will take it: setTimer and
\* PUSH_TO_OUTPUTQUEUE arm without overwriting, and the callbacks arm again.
NoLostWakeup ==
  /\ inq # << >> => inArmed
  /\ out.q # << >> => outArmed \/ sending

\* Since the start the rules were not reloaded and the keyboard was not (un)plugged.
undisturbed == changes = 0

\* NumHeldDownKeys counts exactly the keys that are down, CapsLock excepted
\* (EventInputQueue.cpp:433-466), whatever waits in the queue.
HeldCountExact ==
  undisturbed /\ loop = idle => held = Cardinality({k \in PhysKeys \ {CAPSLOCK} : seen(k)})

\* Every press that a rule takes is followed by a release that the rule sees: no
\* rule is on the hardware CapsLock, whose release is not reported, and none has a
\* filter, which may have closed by then.
paired == \A i \in DOMAIN rules : rules[i].from # CAPSLOCK /\ ~rules[i].filtered

\* Of the rules in S those that, while they hold their from key, keep its own
\* flag f off, hold the last target key, hold f through it (as its flag, as the
\* key or as the flag of a lazy key), or keep f off as a flag of the from side.
dropping(S, f) == {i \in S : f \in modifierOf(rules[i].from)}

lastTarget(r) == r.to[Len(r.to)]

holding(S) == {i \in S : Len(rules[i].to) > 0 /\ lastIsModifier(rules[i])}

adding(S, f) ==
  {i \in holding(S) : f \in lastTarget(rules[i]).flags \cup modifierOf(lastTarget(rules[i]).key)}

addingLazily(S, f) ==
  {i \in holding(S) : /\ isKeyLikeModifier(lastTarget(rules[i]).key)
                      /\ VirtualLazy[lastTarget(rules[i]).key] = f}

taking(S, f) == {i \in holding(S) : f \in fromFlagsOf(rules[i])}

\* What the rules in S have put into the count of flag f.
contribution(S, f) ==
  Cardinality(adding(S, f)) + Cardinality(addingLazily(S, f))
    - Cardinality(dropping(S, f)) - Cardinality(taking(S, f))

converting == {i \in DOMAIN rules : active[i]}

\* The modifier accounting balances: every count is the key itself plus what
\* the rules now converting a key put there, so nothing a rule did on the way
\* down survives the way up, whichever rules and keys were interleaved.
FlagsBalance ==
  undisturbed /\ loop = idle /\ paired =>
    \A f \in ModifierFlags \ {CAPSLOCK} :
      out.fs[f].count = (IF f \in PhysKeys /\ seen(f) THEN 1 ELSE 0) + contribution(converting, f)

\* At most one rule converts a key, and only a key that is down.
ActiveWhileHeld ==
  undisturbed /\ loop = idle /\ paired =>
    \A i \in converting :
      /\ seen(rules[i].from)
      /\ \A j \in converting : rules[j].from = rules[i].from => i = j

\* PressDownKeys::list_ is exactly what the system will hold: no key can stay
\* down without the flush knowing about it.
PressedIsWhatSystemHolds ==
  undisturbed =>
    \A k \in OutputKeys : downAfter(os.down, out.q, k) <=> out.pressed[k] > 0

\* FireModifiers::lastFlags_ is what the system will have been told, each
\* MODIFY changes the one flag of its key, and a key-down carries exactly the
\* flags announced before it.
ModifiersAnnounced ==
  undisturbed =>
    /\ announced(os.flags, out.q, Len(out.q), out.last)
    /\ \A i \in DOMAIN out.q :
         LET e == out.q[i]
         IN  /\ e.type = "DOWN" => announced(os.flags, out.q, i, e.flags)
             /\ e.type = "MODIFY" /\ ~(i = 1 /\ sending) =>
                  announced(os.flags, out.q, i - 1, toggled(e.flags, e.key))

\* Nothing is queued that Item::apply would refuse (ListHookedKeyboard.cpp:
\* 211-224): the extra modifiers and the virtual keys stay inside.
NothingRefused ==
  \A i \in DOMAIN out.q :
    out.q[i].flags \cap ExtraFlags = {} /\ out.q[i].key \notin ExtraFlags

\* When every key is up and all is delivered the system holds no key, and its
\* modifiers are those that were locked or made sticky.
AllReleasedClean ==
  undisturbed /\ quiet /\ phys \ {CAPSLOCK} = {} =>
    /\ os.down = {}
    /\ os.flags = heldWithoutKeys(out.fs) \ ExtraFlags

\* Key repeat never outlives its keys: a single repeating key is one the system
\* holds, and a repeating sequence belongs to a rule whose key is down.
RepeatsWhatIsHeld ==
  loop = idle /\ rep.armed /\ rep.items # << >> =>
    IF rep.owner = 0
    THEN rep.items[1].key \in OutputKeys => out.pressed[rep.items[1].key] > 0
    ELSE active[rep.owner]

\* A sequence that repeats belongs to a rule that still converts, although the
\* rules are freed, switched off and refreshed while its key is held.
RepeatsForEnabledRule ==
  rep.owner # 0 /\ rep.armed /\ rep.items # << >> => rep.owner \in config.list

\* When the last key comes up, everything is forgotten in the same step: no
\* repeat, no pressed key, no count, and only locks and stickies announced.
FlushAtZero ==
  [][ Len(inq') < Len(inq) /\ held' <= 0 =>
        /\ held' = 0
        /\ rep'.items = << >> /\ ~rep'.armed
        /\ out'.pressed = nonePressed
        /\ \A f \in ModifierFlags : out'.fs[f].count = 0 /\ out'.fs[f].temporary = 0
        /\ out'.last = heldWithoutKeys(out'.fs) \ ExtraFlags ]_vars

\* Output that was dropped while no keyboard was hooked, and keys pressed on one
\* side of a hook or reload and released on the other, leave the system apart
\* from what PressDownKeys and FireModifiers remember (ListHookedKeyboard.cpp:296).
\* Whatever is still queued mends it: each key and the modifiers it speaks of end
\* as remembered there, key-downs carry the flags announced before them, and
\* each MODIFY changes one flag of the one before.
DeliveryMends ==
  LET saidBefore(i) == \E j \in 1 .. i : out.q[j].type = "MODIFY"
  IN  /\ \A k \in OutputKeys :
           (\E i \in DOMAIN out.q : about(out.q[i], k)) =>
             (downAfter(os.down, out.q, k) <=> out.pressed[k] > 0)
      /\ saidBefore(Len(out.q)) => announced(os.flags, out.q, Len(out.q), out.last)
      /\ \A i \in DOMAIN out.q :
           LET e == out.q[i]
           IN  /\ e.type = "DOWN" /\ saidBefore(i) => announced(os.flags, out.q, i, e.flags)
               /\ e.type = "MODIFY" /\ saidBefore(i - 1) =>
                    announced(os.flags, out.q, i - 1, toggled(e.flags, e.key))

\* Once the user leaves all keys alone, the system is left without any key.
SettlesWhenReleased ==
  <>[](phys = {}) => <>[](quiet /\ os.down = {})

===============================================================================
