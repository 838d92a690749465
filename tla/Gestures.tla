------------------------------- MODULE Gestures -------------------------------
(***************************************************************************)
(* The functions that look at more than one key event: keys pressed        *)
(* together (SimultaneousKeyPresses, which rewrites EventInputQueue), keys *)
(* that do one thing when held and another when typed alone                *)
(* (KeyOverlaidModifier with EventWatcher and its repeat timer), modifiers *)
(* pressed twice (DoublePressModifier) and keys that may not be typed      *)
(* twice in a row (IgnoreMultipleSameKeyPress).                            *)
(*                                                                         *)
(* Each function is an entry of its own in the list of remap classes, with *)
(* one target, a modifier.  How long a key was held is a choice; the       *)
(* timers run at any time while they are active.  All of it runs under the *)
(* global lock.                                                            *)
(***************************************************************************)
EXTENDS Integers, Sequences, FiniteSets, FiniteSetsExt, SequencesExt

CONSTANTS
  Keys,        \* the keys of the keyboard
  VirtualKeys, \* what keys pressed together become: VK_SIMULTANEOUSKEYPRESSES_xxx, or
               \* the target itself (isToRaw_)
  Modifiers,   \* the flags
  Settings,    \* the functions that may be set
  NONE,        \* no key (KeyCode::VK_NONE)
  MaxQueue,    \* no key moves while so many events wait
  MaxCount     \* no key goes down while a flag's count is higher

Kinds == {"KeyOverlaidModifier", "DoublePressModifier", "IgnoreMultipleSameKeyPress"}

\* fromInfo_, fromFlags_ and virtualkey_ or toKey_raw_; the from key, the modifier it
\* becomes, and isRepeatEnabled_.
Combo == [from : {<<j, k>> : j, k \in Keys}, flags : SUBSET Modifiers, to : VirtualKeys \cup {NONE}]

Rule == [kind : Kinds, from : Keys \cup VirtualKeys, to : Modifiers, repeat : BOOLEAN]

ASSUME GesturesConstants ==
  /\ Keys \cap VirtualKeys = {} /\ NONE \notin Keys \cup VirtualKeys
  /\ Settings \subseteq [combos : Seq(Combo), rules : Seq(Rule)]
  /\ \A t \in Settings : \A i \in DOMAIN t.combos : t.combos[i].from[1] # t.combos[i].from[2]
  /\ MaxQueue \in Nat /\ MaxCount \in Nat

VARIABLES
  setting,
  phys,      \* the keys down
  queue,     \* EventInputQueue::queue_
  armed,     \* EventInputQueue::fire_timer_ is active
  both,      \* the fromInfo_ of each combo that are active
  held,      \* NumHeldDownKeys::num_
  rule,      \* the state of each rule, see RuleState
  watchers,  \* the rules whose isAnyEventHappen_ is in EventWatcher::list_
  repeater,  \* KeyOverlaidModifier::target_ (0: NULL), and whether its timer is active
  count,     \* FlagStatus: the count of each flag
  told,      \* what the system holds: keys that passed, and the keys typed by rules
  did        \* the last two keys that went down (NONE: no rule's), the rules that typed their keys in
             \* the last step, whether a key came up in it that was not down, and
             \* whether a pair was ever pressed while its target was down

vars == <<setting, phys, queue, armed, both, held, rule, watchers, repeater, count, told,
          did>>

combos == setting.combos
rules == setting.rules

AnyKey == Keys \cup VirtualKeys

Event == [key : AnyKey, down : BOOLEAN]

\* FromKeyChecker::active_ of keytokey_, isAnyEventHappen_, savedflags_, isfirenormal_
\* and isfirerepeat_; pressCount_; lastkeycode_.
RuleState ==
  [active : BOOLEAN, any : BOOLEAN, saved : SUBSET Modifiers, normal : BOOLEAN,
   repeating : BOOLEAN, presses : Nat, last : AnyKey \cup {NONE}]

\* What a new rule holds.  The constructor leaves isfirenormal_ and isfirerepeat_
\* alone; fresh memory of the kernel is zeroed.
newRule ==
  [active |-> FALSE, any |-> FALSE, saved |-> {}, normal |-> FALSE, repeating |-> FALSE,
   presses |-> 0, last |-> NONE]

Init ==
  /\ setting \in Settings
  /\ phys = {} /\ queue = << >> /\ armed = FALSE /\ held = 0
  /\ both = [i \in DOMAIN combos |-> {}]
  /\ rule = [r \in DOMAIN rules |-> newRule]
  /\ watchers = {} /\ repeater = [target |-> 0, armed |-> FALSE]
  /\ count = [f \in Modifiers |-> 0]
  /\ told = [keys |-> {}, typing |-> {}]
  /\ did = [downs |-> <<NONE, NONE>>, typed |-> {}, stray |-> FALSE, again |-> FALSE]

makeFlags(c) == {f \in Modifiers : c[f] > 0}
-------------------------------------------------------------------------------
(***************************************************************************)
(* SimultaneousKeyPresses::remap(void), on q with `queue`, `both` and      *)
(* `again`, did.again: when                                                *)
(* the first event releases a key of an active pair, it is taken away, and *)
(* with the last of the two the target goes up; when it presses one of a   *)
(* pair, and the other is pressed later in the queue before this one moves *)
(* again, both presses are taken away and the target goes down.            *)
(***************************************************************************)
push_remapped(events, i, down) ==
  IF combos[i].to = NONE THEN events
  ELSE <<[key |-> combos[i].to, down |-> down]>> \o events

\* Mutant: the target goes up with the first of the two.
releasePairEarly(q, i, j) ==
  [q EXCEPT !.queue = push_remapped(Tail(@), i, FALSE), !.both[i] = @ \ {j}]

releasePair(q, i, j) ==
  [q EXCEPT !.queue = IF q.both[i] = {j} THEN push_remapped(Tail(@), i, FALSE) ELSE Tail(@),
            !.both[i] = @ \ {j}]

pressPair(q, i, n) ==
  [queue |-> push_remapped(Tail(RemoveAt(q.queue, n)), i, TRUE),
   both |-> [q.both EXCEPT ![i] = {1, 2}],
   again |-> \/ q.again
             \/ \E m \in DOMAIN combos : combos[m].to = combos[i].to /\ q.both[m] # {}]

\* Where the search for the other press stops.
stops(q, key, paired) ==
  {n \in DOMAIN q \ {1} : q[n].key = key \/ q[n] = [key |-> paired, down |-> TRUE]}

remapPair(q, i) ==
  LET e == Head(q.queue)
      mine == {j \in 1 .. 2 : combos[i].from[j] = e.key}
      side == Min(mine)
      paired == combos[i].from[3 - side]
      found == stops(q.queue, e.key, paired)
  IN CASE q.queue = << >> \/ mine = {} -> q
       [] q.queue # << >> /\ mine # {} /\ ~e.down ->
            IF side \in q.both[i] THEN releasePair(q, i, side) ELSE q
       [] q.queue # << >> /\ mine # {} /\ e.down ->
            IF /\ combos[i].flags \subseteq makeFlags(count)
               /\ found # {} /\ q.queue[Min(found)].key = paired
            THEN pressPair(q, i, Min(found)) ELSE q

\* All of them in turn.
remap_simultaneouskeypresses(q) ==
  LET after[i \in 0 .. Len(combos)] == IF i = 0 THEN q ELSE remapPair(after[i - 1], i)
  IN after[Len(combos)]

\* And again until nothing changes: each time but the last shortens the queue, or puts
\* a target first, at which all stop.
rewritten(q) ==
  LET pass[n \in 0 .. Len(q.queue)] ==
        IF n = 0 THEN q ELSE remap_simultaneouskeypresses(pass[n - 1])
  IN pass[Len(q.queue)]
-------------------------------------------------------------------------------
(***************************************************************************)
(* Core::remap_KeyboardEventCallback.  The functions work on a record of   *)
(* the statics: `taken` is isremapped, `typed` the rules that type.        *)
(***************************************************************************)
Statics ==
  [taken |-> FALSE, rule |-> rule, watchers |-> watchers, repeater |-> repeater,
   count |-> count, typing |-> told.typing, typed |-> {}]

\* KeyToKey::remap to a modifier.
converts(c, r, e) ==
  /\ ~c.taken /\ rules[r].from = e.key
  /\ e.down \/ c.rule[r].active

converted(c, r, e) ==
  [c EXCEPT !.taken = TRUE, !.rule[r].active = e.down,
            !.count[rules[r].to] = IF e.down THEN @ + 1 ELSE @ - 1]

\* The flags without the rule's own.
otherFlags(c, r) == makeFlags([c.count EXCEPT ![rules[r].to] = @ - 1])

pressedRule(c, r) ==
  LET again == rules[r].repeat
  IN [c.rule[r] EXCEPT !.any = FALSE, !.saved = otherFlags(c, r), !.normal = @ /\ ~again,
                       !.repeating = @ /\ ~again]

pressOverlaid(c, r) ==
  [c EXCEPT !.watchers = @ \cup {r}, !.rule[r] = pressedRule(c, r),
            !.repeater = IF rules[r].repeat THEN [target |-> r, armed |-> TRUE] ELSE @]

\* Mutant: the key that repeats is not let go.
releaseOverlaidRepeats(c, r, slow) ==
  IF c.rule[r].repeating THEN [c EXCEPT !.repeater.armed = FALSE]
  ELSE [c EXCEPT !.repeater.armed = FALSE, !.rule[r].normal = TRUE, !.watchers = @ \ {r},
                 !.typed = IF c.rule[r].any \/ slow THEN @ ELSE @ \cup {r}]

releaseOverlaid(c, r, slow) ==
  IF c.rule[r].repeating THEN [c EXCEPT !.repeater.armed = FALSE, !.typing = @ \ {r}]
  ELSE [c EXCEPT !.repeater.armed = FALSE, !.rule[r].normal = TRUE, !.watchers = @ \ {r},
                 !.typed = IF c.rule[r].any \/ slow THEN @ ELSE @ \cup {r}]

KeyOverlaidModifier(c, r, e, slow) ==
  IF ~converts(c, r, e) THEN c
  ELSE IF e.down THEN pressOverlaid(converted(c, r, e), r)
       ELSE releaseOverlaid(converted(c, r, e), r, slow)

countPress(c, r, e, slow) ==
  LET n == IF slow THEN 0 ELSE c.rule[r].presses
  IN IF e.down THEN [c EXCEPT !.rule[r].presses = n + 1]
     ELSE [c EXCEPT !.rule[r].presses = IF n >= 2 THEN 0 ELSE n,
                    !.typed = IF n >= 2 THEN @ \cup {r} ELSE @]

\* Mutant: another key in between does not count.
DoublePressModifierPatient(c, r, e, slow) ==
  IF converts(c, r, e) THEN countPress(converted(c, r, e), r, e, slow) ELSE c

DoublePressModifier(c, r, e, slow) ==
  IF converts(c, r, e) THEN countPress(converted(c, r, e), r, e, slow)
  ELSE [c EXCEPT !.rule[r].presses = 0]

IgnoreMultipleSameKeyPress(c, r, e) ==
  CASE c.taken -> [c EXCEPT !.rule[r].last = NONE]
    [] ~c.taken /\ e.key = rules[r].from /\ e.key = c.rule[r].last -> [c EXCEPT !.taken = TRUE]
    [] OTHER -> [c EXCEPT !.rule[r].last = IF e.down THEN @ ELSE e.key]

remapRule(c, r, e, slow) ==
  CASE rules[r].kind = "KeyOverlaidModifier" -> KeyOverlaidModifier(c, r, e, slow)
    [] rules[r].kind = "DoublePressModifier" -> DoublePressModifier(c, r, e, slow)
    [] rules[r].kind = "IgnoreMultipleSameKeyPress" -> IgnoreMultipleSameKeyPress(c, r, e)

remap_key(c, e, slow) ==
  LET after[r \in 0 .. Len(rules)] == IF r = 0 THEN c ELSE remapRule(after[r - 1], r, e, slow)
  IN after[Len(rules)]

\* EventWatcher::on, for a key that goes down.
watched(c, e) ==
  IF ~e.down THEN c
  ELSE [c EXCEPT !.rule = [r \in DOMAIN rules |->
                             IF r \in watchers THEN [@[r] EXCEPT !.any = TRUE] ELSE @[r]]]

passed(c, e) ==
  IF c.taken THEN told.keys
  ELSE IF e.down THEN told.keys \cup {e.key} ELSE told.keys \ {e.key}

Became(c, keys) ==
  /\ rule' = c.rule /\ repeater' = c.repeater /\ watchers' = c.watchers /\ count' = c.count
  /\ told' = [keys |-> keys, typing |-> c.typing]

\* What happens when no key is held any more: EventWatcher::reset, FlagStatus::reset,
\* PressDownKeys::clear.
flush(c) == [c EXCEPT !.watchers = {}, !.count = [f \in Modifiers |-> 0], !.typing = {}]

ruled(key) == IF \E r \in DOMAIN rules : rules[r].from = key THEN key ELSE NONE

Remap(e, slow, again) ==
  LET done == remap_key(watched(Statics, e), e, slow)
      h == IF e.down THEN held + 1 ELSE held - 1
  IN /\ held' = IF h <= 0 THEN 0 ELSE h
     /\ IF h <= 0 THEN Became(flush(done), {}) ELSE Became(done, passed(done, e))
     /\ did' = [downs |-> IF e.down THEN <<did.downs[2], ruled(e.key)>> ELSE did.downs, typed |-> done.typed,
                stray |-> ~done.taken /\ ~e.down /\ e.key \notin told.keys, again |-> again]

\* Mutant: the timer is not set for the last event.
setTimerLate(q) == Len(q) > 1

\* EventInputQueue::setTimer.
setTimer(q) == q # << >>

\* EventInputQueue::fire_timer_callback.
InputTimer(slow) ==
  LET q == rewritten([queue |-> queue, both |-> both, again |-> did.again])
  IN /\ armed
     /\ both' = q.both
     /\ IF q.queue = << >>
        THEN /\ queue' = << >> /\ armed' = FALSE
             /\ did' = [did EXCEPT !.again = q.again]
             /\ UNCHANGED <<held, rule, watchers, repeater, count, told>>
        ELSE /\ Remap(Head(q.queue), slow, q.again)
             /\ queue' = Tail(q.queue) /\ armed' = setTimer(Tail(q.queue))
     /\ UNCHANGED <<setting, phys>>

\* KeyOverlaidModifier::firerepeat_timer_callback.
RepeatTimer ==
  LET r == repeater.target
  IN /\ repeater.armed
     /\ repeater' = [repeater EXCEPT !.armed = FALSE]
     /\ IF r = 0 \/ rule[r].any \/ rule[r].normal THEN UNCHANGED <<rule, told>>
        ELSE /\ rule' = [rule EXCEPT ![r].repeating = TRUE]
             /\ told' = [told EXCEPT !.typing = @ \cup {r}]
     /\ UNCHANGED <<setting, phys, queue, armed, both, held, watchers, count, did>>
-------------------------------------------------------------------------------
\* A key moves: EventInputQueue::push_KeyboardEventCallback.
Move(key) ==
  /\ Len(queue) < MaxQueue
  /\ key \in phys \/ \A f \in Modifiers : count[f] <= MaxCount
  /\ phys' = IF key \in phys THEN phys \ {key} ELSE phys \cup {key}
  /\ queue' = Append(queue, [key |-> key, down |-> key \notin phys])
  /\ armed' = TRUE
  /\ UNCHANGED <<setting, both, held, rule, watchers, repeater, count, told, did>>

Next ==
  \/ \E slow \in BOOLEAN : InputTimer(slow)
  \/ RepeatTimer
  \/ \E key \in Keys : Move(key)

Spec == Init /\ [][Next]_vars
-------------------------------------------------------------------------------
\* The types of the variables.
TypeOK ==
  /\ setting \in Settings /\ phys \subseteq Keys
  /\ queue \in Seq(Event) /\ armed = (queue # << >>)
  /\ both \in [DOMAIN combos -> SUBSET {1, 2}]
  /\ held \in Nat
  /\ rule \in [DOMAIN rules -> RuleState]
  /\ watchers \subseteq DOMAIN rules
  /\ repeater \in [target : {0} \cup DOMAIN rules, armed : BOOLEAN]
  /\ count \in [Modifiers -> Int]
  /\ told \in [keys : SUBSET AnyKey, typing : SUBSET DOMAIN rules]
  /\ did \in [downs : (AnyKey \cup {NONE}) \X (AnyKey \cup {NONE}), typed : SUBSET DOMAIN rules,
              stray : BOOLEAN, again : BOOLEAN]

waiting(down) == Cardinality({n \in DOMAIN queue : queue[n].down = down})

full == {i \in DOMAIN combos : both[i] = {1, 2}}

\* However presses and releases are taken out of the queue and put into it, the count
\* of held keys is that of the keys down, where the two keys of a pair count once while
\* both are down - so the flush at zero comes with the last release, and not before it
\* (SimultaneousKeyPresses.cpp:212-246, EventInputQueue.cpp:451-482).
HeldConserved ==
  (\A i \in DOMAIN combos : combos[i].to # NONE) =>
    held + waiting(TRUE) - waiting(FALSE) = Cardinality(phys) - Cardinality(full)

\* A release of the key is still to reach the rules: of a key that is down, whose
\* release is queued, or of a pair that is down.
coming(k) ==
  \/ k \in phys \/ [key |-> k, down |-> FALSE] \in ToSet(queue)
  \/ \E i \in DOMAIN combos : combos[i].to = k /\ both[i] # {}

\* Unless a pair was pressed while its target was down, nothing is left pressed: what
\* the system holds, the keys a rule repeats and what a pair waits for have their
\* release before them, though releases are taken out of the queue; and a modifier lasts
\* exactly as long as the key that stands for it.
NothingStuck ==
  ~did.again =>
    /\ \A k \in told.keys : coming(k)
    /\ \A r \in DOMAIN rules :
         \/ rule[r].active \/ r \in told.typing
         \/ r \in watchers /\ ~rule[r].repeating
         => coming(rules[r].from)
    /\ \A i \in DOMAIN combos : \A j \in both[i] : coming(combos[i].from[j])
    /\ \A f \in Modifiers :
         count[f] = Cardinality({r \in DOMAIN rules : rule[r].active /\ rules[r].to = f})

\* Nor does a key come up that was not down for the system (the comment at
\* SimultaneousKeyPresses.cpp:221-223 on the second release of a pair).
NoStrayRelease == ~did.stray

\* A key with two meanings knows, while it is held, whether it is the last key that
\* went down; it types its other keys only then, and repeats them only while it is held.
\* A modifier pressed twice types them only when nothing else went down in between.
\* (Where the held keys are counted, see HeldConserved: the flush stops the watching.)
TypedAlone ==
  [][ (~did.again \/ \A i \in DOMAIN combos : combos[i].to # NONE) =>
        /\ \A r \in did'.typed :
             /\ did.downs[2] = rules[r].from
             /\ rules[r].kind = "DoublePressModifier" => did.downs[1] = rules[r].from
        /\ \A r \in told'.typing \ told.typing :
             rule[r].active /\ did.downs[2] = rules[r].from
        /\ \A r \in DOMAIN rules :
             rules[r].kind = "KeyOverlaidModifier" /\ rule[r].active =>
               rule[r].any = (did.downs[2] # rules[r].from) ]_vars

===============================================================================
