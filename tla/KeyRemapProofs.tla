---------------------------- MODULE KeyRemapProofs ----------------------------
(***************************************************************************)
(* The path of a key event, for every keyboard, every set of rules and     *)
(* every bound: its types, that no queued event is ever left without a     *)
(* timer, that nothing is queued that Item::apply would refuse, whose      *)
(* sequence may repeat, what the flush leaves behind, who feeds the        *)
(* system, and that a release undoes its press; then, how its parts agree  *)
(* with each other, the keyboard and the system.                           *)
(***************************************************************************)
EXTENDS KeyRemap, EventOutputProofs

USE DEF settings

\* TypeOK, with only what may be sent in the output statics.
Types == TypeOK /\ out \in SentStatics

\* A loop under way has an event and a rule with several targets, or an item,
\* to work on, and the output timer inside the system's callback has the front
\* event; nothing of this is said by the types.
LoopInRange ==
  /\ loop.kind = "keys" =>
       /\ inq # << >>
       /\ loop.rule \in DOMAIN rules /\ Len(rules[loop.rule].to) > 1
       /\ loop.next > 0
  /\ loop.kind = "repeat" => loop.next \in 1 .. Len(rep.items)
  /\ loop.kind = "idle" => loop = idle
  /\ sending => loop = idle /\ out.q # << >>

\* The inductive invariant.
IInv == Types /\ LoopInRange /\ NoLostWakeup

-------------------------------------------------------------------------------
(***************************************************************************)
(* The operators of KeyRemap.                                              *)
(***************************************************************************)
LEMMA RuleType ==
  ASSUME NEW rs \in RuleSets, NEW i \in DOMAIN rs
  PROVE  rs[i] \in Rule
<1>1. rs \in Seq(Rule)
  BY KeyRemapConstants
<1>2. QED
  BY <1>1

LEMMA TargetType ==
  ASSUME NEW r \in Rule, NEW j \in 1 .. Len(r.to)
  PROVE  r.to[j] \in Target
<1>1. r.to \in Seq(Target)
  BY DEF Rule
<1>2. QED
  BY <1>1

LEMMA LastTargetType ==
  ASSUME NEW r \in Rule, Len(r.to) > 0
  PROVE  r.to[Len(r.to)] \in Target
<1>1. r.to \in Seq(Target)
  BY DEF Rule
<1>2. Len(r.to) \in 1 .. Len(r.to)
  BY <1>1
<1>3. QED
  BY <1>1, <1>2

LEMMA EventTypeType ==
  ASSUME NEW key, NEW down
  PROVE  eventType(key, down) \in {"DOWN", "UP", "MODIFY"}
  BY DEF eventType

LEMMA RuleFlagsType ==
  ASSUME NEW fs \in FlagStatusItems, NEW r, NEW e, NEW to
  PROVE  /\ dropFromKey(fs, r, e) \in FlagStatusItems
         /\ holdFlags(fs, r, to) \in FlagStatusItems
         /\ unholdFlags(fs, r, to) \in FlagStatusItems
<1>1. dropFromKey(fs, r, e) \in FlagStatusItems
  BY CountType DEF dropFromKey
<1>2. holdFlags(fs, r, to) \in FlagStatusItems
  BY CountType DEF holdFlags
<1>3. unholdFlags(fs, r, to) \in FlagStatusItems
  BY CountType DEF unholdFlags
<1>4. QED
  BY <1>1, <1>2, <1>3

LEMMA SingleKeyFlagsType ==
  ASSUME NEW fs \in FlagStatusItems, NEW r, NEW e \in Event
  PROVE  singleKeyFlags(fs, r, e) \in FlagStatusItems
<1>1. temporary_increase(temporary_decrease(fs, fromFlagsOf(r)), r.to[1].flags) \in FlagStatusItems
  BY TemporaryType
<1>2. e.down \in BOOLEAN
  BY DEF Event
<1>3. QED
  BY <1>1, <1>2, RuleFlagsType DEF singleKeyFlags

LEMMA SingleKeyCallType ==
  ASSUME NEW fs, NEW r \in Rule, NEW e, Len(r.to) = 1
  PROVE  singleKeyCall(fs, r, e) \in FireCall
<1>1. r.to[1].key \in KeyCodes
  BY LastTargetType DEF Target
<1>2. QED
  BY <1>1, MakeFlagsType, EventTypeType, CallType DEF singleKeyCall

\* What KeyToKey emits keeps any closed set of output statics: with one target key,
LEMMA RemapSingleKeeps ==
  ASSUME NEW T, Closed(T), NEW o \in T, NEW r \in Rule, NEW e \in Event, Len(r.to) = 1
  PROVE  RemapSingle(o, r, e) \in T
<1> DEFINE fs == singleKeyFlags(dropFromKey(o.fs, r, e), r, e)
           p  == [o EXCEPT !.fs = fs]
<1>1. fs \in FlagStatusItems
  BY ItemsType, RuleFlagsType, SingleKeyFlagsType DEF Closed
<1>2. p \in T
  BY <1>1, ClosedItems
<1>3. r.to[1].key \in KeyCodes
  BY LastTargetType DEF Target
<1> HIDE DEF fs, p
<1>4. FireKey(p, singleKeyCall(fs, r, e)) \in T
  BY <1>2, <1>3, EventTypeType, MakeFlagsType, FireKeyOnce DEF singleKeyCall
<1>5. QED
  BY <1>4 DEF RemapSingle, fs, p

\* and with several target keys: the release, the press before the loop, a turn of
\* the loop, and the press after it.
LEMMA RemapKeysUpKeeps ==
  ASSUME NEW T, Closed(T), NEW o \in T, NEW r \in Rule, NEW e, Len(r.to) > 0
  PROVE  RemapKeysUp(o, r, e) \in T
<1> DEFINE to == r.to[Len(r.to)]
           o1 == [o EXCEPT !.fs = dropFromKey(@, r, e)]
           o2 == IF isKeyLikeModifier(to.key)
                 THEN FireKey(o1, Call("UP", to.key, makeFlags(o1.fs), FALSE)) ELSE o1
           o3 == [o2 EXCEPT !.fs = unholdFlags(@, r, to)]
<1>1. to.key \in KeyCodes
  BY LastTargetType DEF Target
<1>2. o1 \in T
  <2>1. dropFromKey(o.fs, r, e) \in FlagStatusItems
    BY ItemsType, RuleFlagsType DEF Closed
  <2>2. QED
    BY <2>1, ClosedItems
<1> HIDE DEF o1, to
<1>3. o2 \in T
  BY <1>1, <1>2, MakeFlagsType, FireKeyOnce
<1> HIDE DEF o2
<1>4. o3 \in T
  <2>1. unholdFlags(o2.fs, r, to) \in FlagStatusItems
    BY <1>3, ItemsType, RuleFlagsType DEF Closed
  <2>2. QED
    BY <1>3, <2>1, ClosedItems
<1> HIDE DEF o3
<1>5. FireModifiers(o3, makeFlags(o3.fs)) \in T
  BY <1>4, ClosedModifiers
<1>6. QED
  BY <1>2, <1>5 DEF RemapKeysUp, o1, o2, o3, to

LEMMA RemapKeysDownKeeps ==
  ASSUME NEW T, Closed(T), NEW o \in T, NEW r, NEW e
  PROVE  /\ RemapKeysDown(o, r, e) \in T
         /\ RemapKeysDown(o, r, e).q = o.q
         /\ RemapKeysDown(o, r, e).pressed = o.pressed
<1>1. o \in SentStatics /\ o.fs \in FlagStatusItems
  BY ItemsType DEF Closed
<1>2. temporary_decrease(dropFromKey(o.fs, r, e), fromFlagsOf(r)) \in FlagStatusItems
  BY <1>1, RuleFlagsType, TemporaryType
<1>3. QED
  BY <1>1, <1>2, ClosedItems DEF RemapKeysDown, SentStatics

LEMMA FireTargetKeeps ==
  ASSUME NEW T, Closed(T), NEW o \in T, NEW to \in Target
  PROVE  fireTarget(o, to) \in T
<1> DEFINE o1 == [o EXCEPT !.fs = temporary_increase(@, to.flags)]
           o2 == fire_downup(o1, makeFlags(o1.fs), to.key)
<1>1. o1 \in T
  <2>1. temporary_increase(o.fs, to.flags) \in FlagStatusItems
    BY ItemsType, TemporaryType DEF Closed
  <2>2. QED
    BY <2>1, ClosedItems
<1> HIDE DEF o1
<1>2. o2 \in T
  BY <1>1, MakeFlagsType, FireDownUpKeeps DEF Target
<1> HIDE DEF o2
<1>3. [o2 EXCEPT !.fs = temporary_decrease(@, to.flags)] \in T
  <2>1. temporary_decrease(o2.fs, to.flags) \in FlagStatusItems
    BY <1>2, ItemsType, TemporaryType DEF Closed
  <2>2. QED
    BY <1>2, <2>1, ClosedItems
<1>4. QED
  BY <1>3 DEF fireTarget, o1, o2

LEMMA HoldLastKeeps ==
  ASSUME NEW T, Closed(T), NEW o \in T, NEW r \in Rule, Len(r.to) > 0
  PROVE  holdLast(o, r) \in T
<1> DEFINE to == r.to[Len(r.to)]
           o1 == [o EXCEPT !.fs = holdFlags(temporary_increase(@, fromFlagsOf(r)), r, to)]
<1>1. to.key \in KeyCodes
  BY LastTargetType DEF Target
<1>2. o1 \in T
  <2>1. holdFlags(temporary_increase(o.fs, fromFlagsOf(r)), r, to) \in FlagStatusItems
    BY ItemsType, TemporaryType, RuleFlagsType DEF Closed
  <2>2. QED
    BY <2>1, ClosedItems
<1> HIDE DEF to, o1
<1>3. FireKey(o1, Call("DOWN", to.key, makeFlags(o1.fs), FALSE)) \in T
  BY <1>1, <1>2, MakeFlagsType, FireKeyOnce
<1>4. FireModifiers(o1, makeFlags(o1.fs)) \in T
  BY <1>2, ClosedModifiers
<1>5. QED
  BY <1>3, <1>4 DEF holdLast, to, o1

\* So does the flush at zero held keys.
LEMMA FlushKeeps ==
  ASSUME NEW T, Closed(T), NEW o \in T
  PROVE  flush(o) \in T
<1> DEFINE o1 == [o EXCEPT !.fs = resetItems(@)]
           o2 == FireModifiers(o1, makeFlags(o1.fs))
           o3 == FireRelativePointer(o2)
<1>1. o1 \in T
  <2>1. resetItems(o.fs) \in FlagStatusItems
    BY ItemsType, LockStickyType DEF Closed
  <2>2. QED
    BY <2>1, ClosedItems
<1> HIDE DEF o1
<1>2. o2 \in T
  BY <1>1, ClosedModifiers
<1> HIDE DEF o2
<1>3. o3 \in T
  BY <1>2 DEF Closed
<1> HIDE DEF o3
<1>4. PressDownKeysClear(o3) \in T
  BY <1>3 DEF Closed
<1>5. QED
  BY <1>4 DEF flush, o1, o2, o3

\* KeyboardRepeat.
LEMMA RepeatCancelType ==
  ASSUME NEW rs, NEW p \in RepeatState(rs)
  PROVE  repeatCancel(p) \in RepeatState(rs)
<1> DEFINE empty == << >>
<1>1. empty \in Seq(RepeatItem)
  OBVIOUS
<1> HIDE DEF empty
<1>2. [p EXCEPT !.items = empty, !.armed = FALSE] \in RepeatState(rs)
  BY <1>1 DEF RepeatState
<1>3. QED
  BY <1>2 DEF repeatCancel, empty

LEMMA RepeatType ==
  ASSUME NEW rs, NEW p \in RepeatState(rs), NEW c \in FireCall
  PROVE  /\ repeatCancel(p) \in RepeatState(rs)
         /\ repeatSet(p, c) \in RepeatState(rs)
<1>1. repeatCancel(p) \in RepeatState(rs)
  BY RepeatCancelType
<1>2. repeatSet(p, c) \in RepeatState(rs)
  <2> DEFINE item == [type |-> "NORMAL", key |-> c.key, flags |-> c.flags]
             one == [items |-> << item >>, armed |-> TRUE, owner |-> 0]
  <2>1. item \in RepeatItem /\ c.type \in {"DOWN", "UP", "MODIFY"}
    BY DEF FireCall, RepeatItem
  <2>2. one \in RepeatState(rs)
    BY <2>1 DEF RepeatState
  <2> HIDE DEF item
  <2>3. CASE c.type = "DOWN"
    BY <2>2, <2>3 DEF repeatSet, item
  <2>4. CASE c.type = "UP" \/ c.type = "MODIFY"
    BY <1>1, <2>4 DEF repeatSet
  <2>5. QED
    BY <2>1, <2>3, <2>4
<1>3. QED
  BY <1>1, <1>2

LEMMA RepeatAddType ==
  ASSUME NEW rs, NEW p \in RepeatState(rs), NEW flags \in SUBSET ModifierFlags,
         NEW key \in KeyCodes
  PROVE  primitive_add_downup(p, flags, key) \in RepeatState(rs)
<1>1. [type |-> "DOWNUP", key |-> key, flags |-> flags] \in RepeatItem
  BY DEF RepeatItem
<1>2. Append(p.items, [type |-> "DOWNUP", key |-> key, flags |-> flags]) \in Seq(RepeatItem)
  BY <1>1 DEF RepeatState
<1>3. QED
  BY <1>2 DEF primitive_add_downup, RepeatState

LEMMA RepeatSingleType ==
  ASSUME NEW rs, NEW p \in RepeatState(rs), NEW o, NEW r \in Rule, NEW e, Len(r.to) = 1
  PROVE  RepeatSingle(p, o, r, e) \in RepeatState(rs)
  BY SingleKeyCallType, RepeatType DEF RepeatSingle

-------------------------------------------------------------------------------
(***************************************************************************)
(* The steps.                                                              *)
(***************************************************************************)
LEMMA SentStaticsAreStatics == SentStatics \subseteq Statics
<1>1. Seq(SentEvent) \subseteq Seq(OutEvent)
  BY DEF SentEvent
<1>2. SUBSET SentFlags \subseteq SUBSET ModifierFlags
  BY DEF SentFlags
<1> HIDE DEF SentEvent
<1>3. QED
  BY <1>1, <1>2 DEF SentStatics, Statics

\* Whatever queues output arms the output timer.
LEMMA OutputKeepsWakeup ==
  ASSUME out \in SentStatics, outArmed \in BOOLEAN, NEW o \in SentStatics,
         out.q # << >> => outArmed \/ sending,
         output(o), sending' = sending
  PROVE  /\ out' \in SentStatics
         /\ outArmed' \in BOOLEAN
         /\ out'.q # << >> => outArmed' \/ sending'
<1>1. o.q \in Seq(SentEvent) /\ out.q \in Seq(SentEvent)
  BY DEF SentStatics
<1>2. CASE out.q = << >>
  <2>1. Len(out.q) = 0
    BY <1>2
  <2>2. o.q # << >> => Len(o.q) > Len(out.q)
    BY <1>1, <2>1
  <2>3. QED
    BY <2>2 DEF output
<1>3. CASE out.q # << >>
  BY <1>3 DEF output
<1>4. QED
  BY <1>2, <1>3

LEMMA IdleType == \A rs : idle \in LoopState(rs)
  BY DEF idle, LoopState

LEMMA FinishEventKeeps ==
  ASSUME IInv, inq # << >>, ~sending,
         NEW o \in SentStatics, NEW p \in RepeatState(rules), NEW h \in Int,
         FinishEvent(o, p, h), active' \in [DOMAIN rules -> BOOLEAN], loop' = idle
  PROVE  IInv'
<1> USE DEF IInv, Types, FinishEvent
<1>1. /\ flush(o) \in SentStatics
      /\ repeatCancel(p) \in RepeatState(rules)
  BY SentStaticsClosed, FlushKeeps, RepeatCancelType
<1>2. /\ out' \in SentStatics
      /\ outArmed' \in BOOLEAN
      /\ out'.q # << >> => outArmed' \/ sending'
  BY <1>1, OutputKeepsWakeup DEF TypeOK, NoLostWakeup
<1>3. rep' \in RepeatState(rules) /\ held' \in Int
  BY <1>1
<1>4. /\ inq' \in Seq(Event) /\ inArmed' \in BOOLEAN
      /\ inq' # << >> => inArmed'
  <2>1. inq \in Seq(Event)
    BY DEF TypeOK
  <2>2. Tail(inq) \in Seq(Event) /\ (Tail(inq) # << >>) \in BOOLEAN
    BY <2>1
  <2>3. inq' = Tail(inq) /\ inArmed' = (Tail(inq) # << >>)
    BY DEF moreInput
  <2>4. QED
    BY <2>2, <2>3
<1>5. TypeOK'
  <2>1. /\ phys' \subseteq PhysKeys
        /\ sending' \in BOOLEAN /\ plugged' \in BOOLEAN /\ initialized' \in BOOLEAN
        /\ changes' \in Nat /\ rules' \in RuleSets
        /\ os' \in [down : SUBSET OutputKeys, flags : SUBSET ModifierFlags]
    BY DEF TypeOK
  <2>2. /\ active' \in [DOMAIN rules' -> BOOLEAN]
        /\ rep' \in RepeatState(rules')
        /\ loop' \in LoopState(rules')
        /\ config' \in Config(rules')
    BY <1>3, IdleType DEF TypeOK
  <2>3. out' \in Statics
    BY <1>2, SentStaticsAreStatics
  <2>4. QED
    BY <1>2, <1>3, <1>4, <2>1, <2>2, <2>3 DEF TypeOK
<1>6. LoopInRange'
  BY DEF LoopInRange, idle
<1>7. NoLostWakeup'
  BY <1>2, <1>4 DEF NoLostWakeup
<1>8. QED
  BY <1>2, <1>5, <1>6, <1>7

\* A step that ends the work on the front event.
Finishes ==
  /\ inq # << >> /\ ~sending
  /\ active' \in [DOMAIN rules -> BOOLEAN] /\ loop' = idle
  /\ \E o \in SentStatics, p \in RepeatState(rules), h \in Int : FinishEvent(o, p, h)

LEMMA FinishesKeeps ==
  ASSUME IInv, Finishes
  PROVE  IInv'
  BY FinishEventKeeps DEF Finishes

\* The front event, and the modifier accounting when a rule looks at it.
LEMMA EventType ==
  ASSUME IInv, inq # << >>
  PROVE  /\ event \in Event
         /\ event.key \in KeyCodes /\ event.down \in BOOLEAN
         /\ heldAfter(held, event) \in Int
         /\ [out EXCEPT !.fs = fsOfEvent] \in SentStatics
<1>1. inq \in Seq(Event) /\ held \in Int /\ out \in SentStatics
  BY DEF IInv, Types, TypeOK
<1>2. event \in Event
  BY <1>1 DEF event
<1>3. event.key \in KeyCodes /\ event.down \in BOOLEAN
  BY <1>2, KeyRemapConstants DEF Event, KeyCodes
<1>4. heldAfter(held, event) \in Int
  BY <1>1 DEF heldAfter
<1>5. fsOfEvent \in FlagStatusItems
  BY <1>1, ItemsType, SetType DEF fsOfEvent
<1>6. QED
  BY <1>1, <1>2, <1>3, <1>4, <1>5, NewItemsType

LEMMA PassThroughFinishes ==
  ASSUME IInv, PassThrough
  PROVE  Finishes
<1> DEFINE c == Call(eventType(event.key, event.down), event.key, makeFlags(fsOfEvent), FALSE)
           o == FireKey([out EXCEPT !.fs = fsOfEvent], c)
<1>1. inq # << >> /\ ~sending /\ loop = idle
  BY DEF PassThrough, InputReady
<1>2. c \in FireCall
  BY <1>1, EventType, EventTypeType, MakeFlagsType, CallType
<1> HIDE DEF c
<1>3. o \in SentStatics
  BY <1>1, <1>2, EventType, FireKeyType
<1>4. repeatSet(rep, c) \in RepeatState(rules)
  BY <1>2, RepeatType DEF IInv, Types, TypeOK
<1>5. /\ FinishEvent(o, repeatSet(rep, c), heldAfter(held, event))
      /\ active' = active /\ loop' = loop
  BY DEF PassThrough, c
<1>6. active' \in [DOMAIN rules -> BOOLEAN] /\ loop' = idle
  BY <1>1, <1>5 DEF IInv, Types, TypeOK
<1> HIDE DEF o
<1>7. QED
  BY <1>1, <1>3, <1>4, <1>5, <1>6, EventType DEF Finishes

LEMMA RemapFinishes ==
  ASSUME IInv, NEW i \in DOMAIN rules, Remap(i)
  PROVE  Finishes
<1> DEFINE o == [out EXCEPT !.fs = fsOfEvent]
           r == rules[i]
           h == heldAfter(held, event)
<1>1. inq # << >> /\ ~sending
  BY DEF Remap, InputReady
<1>2. /\ o \in SentStatics /\ h \in Int /\ event \in Event
      /\ r \in Rule /\ rep \in RepeatState(rules) /\ Len(r.to) \in Nat
  <2>1. r \in Rule
    BY RuleType DEF IInv, Types, TypeOK
  <2>2. Len(r.to) \in Nat
    BY <2>1 DEF Rule
  <2>3. rep \in RepeatState(rules)
    BY DEF IInv, Types, TypeOK
  <2>4. QED
    BY <1>1, <2>1, <2>2, <2>3, EventType
<1> DEFINE n == Len(r.to)
<1>3. n \in Nat
  BY <1>2
<1>4. active' \in [DOMAIN rules -> BOOLEAN] /\ loop' = idle
  BY <1>1, EventType DEF Remap, IInv, Types, TypeOK
<1>5. CASE n = 0
  <2>1. FinishEvent([o EXCEPT !.fs = dropFromKey(@, r, event)], rep, h)
    BY <1>5 DEF Remap
  <2> HIDE DEF o, r, h
  <2>2. [o EXCEPT !.fs = dropFromKey(@, r, event)] \in SentStatics
    BY <1>2, ItemsType, RuleFlagsType, NewItemsType
  <2>3. QED
    BY <1>1, <1>2, <1>4, <2>1, <2>2 DEF Finishes
<1>6. CASE n = 1
  <2>1. FinishEvent(RemapSingle(o, r, event), RepeatSingle(rep, o, r, event), h)
    BY <1>6 DEF Remap
  <2> HIDE DEF o, r, h
  <2>2. QED
    BY <1>1, <1>2, <1>4, <1>6, <2>1, SentStaticsClosed, RemapSingleKeeps, RepeatSingleType DEF Finishes
<1>7. CASE n > 1
  <2>1. FinishEvent(RemapKeysUp(o, r, event), RepeatKeysUp(rep, r, i), h)
    <3> HIDE DEF n
    <3>1. n # 0 /\ n # 1
      BY <1>7
    <3> USE DEF n
    <3>2. QED
      BY <3>1 DEF Remap
  <2> HIDE DEF o, r, h
  <2>2. RepeatKeysUp(rep, r, i) \in RepeatState(rules)
    BY <1>2, RepeatCancelType DEF RepeatKeysUp
  <2>3. RemapKeysUp(o, r, event) \in SentStatics
    BY <1>2, <1>7, SentStaticsClosed, RemapKeysUpKeeps
  <2>4. QED
    BY <1>1, <1>2, <1>4, <2>1, <2>2, <2>3 DEF Finishes
<1> HIDE DEF n
<1>8. n = 0 \/ n = 1 \/ n > 1
  BY <1>3
<1>9. QED
  BY <1>5, <1>6, <1>7, <1>8

\* A loop over the target keys: before it, a turn, and its end.
LEMMA StartKeysKeeps ==
  ASSUME IInv, NEW i \in DOMAIN rules, StartKeys(i)
  PROVE  IInv'
<1>1. inq # << >> /\ ~sending /\ event.down
  BY DEF StartKeys, InputReady
<1>2. [out EXCEPT !.fs = fsOfEvent] \in SentStatics /\ heldAfter(held, event) \in Int
  BY <1>1, EventType
<1>3. out' \in SentStatics /\ out'.q = out.q
  <2> DEFINE o == [out EXCEPT !.fs = fsOfEvent]
  <2>1. o.q = out.q
    BY DEF IInv, Types, SentStatics
  <2>2. out' = RemapKeysDown(o, rules[i], event)
    BY DEF StartKeys
  <2> HIDE DEF o
  <2>3. o \in SentStatics
    BY <1>2 DEF o
  <2>4. QED
    BY <2>1, <2>2, <2>3, SentStaticsClosed, RemapKeysDownKeeps
<1>4. rep' \in RepeatState(rules)
  BY RepeatCancelType DEF StartKeys, IInv, Types, TypeOK
<1>5. loop' \in LoopState(rules)
  BY DEF StartKeys, LoopState
<1>6. TypeOK'
  <2>1. /\ active' \in [DOMAIN rules -> BOOLEAN]
        /\ held' \in Int
    BY <1>2 DEF StartKeys, IInv, Types, TypeOK
  <2>2. out' \in Statics
    BY <1>3, SentStaticsAreStatics
  <2>3. QED
    BY <1>4, <1>5, <2>1, <2>2 DEF StartKeys, IInv, Types, TypeOK
<1>7. LoopInRange'
  BY <1>1 DEF StartKeys, IInv, LoopInRange
<1>8. NoLostWakeup'
  BY <1>3 DEF StartKeys, IInv, NoLostWakeup
<1>9. QED
  BY <1>3, <1>6, <1>7, <1>8 DEF IInv, Types

LEMMA LoopRuleType ==
  ASSUME IInv, loop.kind = "keys"
  PROVE  /\ rules[loop.rule] \in Rule
         /\ Len(rules[loop.rule].to) \in Nat /\ Len(rules[loop.rule].to) > 1
         /\ inq # << >> /\ ~sending /\ loop.next \in Nat /\ loop.next > 0
         /\ loop.rule \in DOMAIN rules
<1>1. rules[loop.rule] \in Rule
  BY RuleType DEF IInv, Types, TypeOK, LoopInRange
<1>2. Len(rules[loop.rule].to) \in Nat
  BY <1>1 DEF Rule
<1>3. loop.next \in Nat
  BY DEF IInv, Types, TypeOK, LoopState
<1>4. ~sending
  BY DEF IInv, LoopInRange, idle
<1>5. QED
  BY <1>1, <1>2, <1>3, <1>4 DEF IInv, LoopInRange

LEMMA KeysStepKeeps ==
  ASSUME IInv, KeysStep
  PROVE  IInv'
<1> DEFINE r  == rules[loop.rule]
           to == r.to[loop.next]
<1>1. /\ loop.kind = "keys" /\ loop.next <= keysInLoop(r)
      /\ output(fireTarget(out, to))
      /\ rep' = primitive_add_downup(rep, makeFlags(temporary_increase(out.fs, to.flags)), to.key)
      /\ loop' = [loop EXCEPT !.next = @ + 1]
      /\ UNCHANGED << phys, inq, inArmed, held, active, sending, os, settings >>
  BY DEF KeysStep
<1>2. to \in Target
  <2>1. loop.next \in 1 .. Len(r.to)
    BY <1>1, LoopRuleType DEF keysInLoop
  <2>2. QED
    BY <1>1, <2>1, LoopRuleType, TargetType
<1>3. out \in SentStatics /\ rep \in RepeatState(rules) /\ outArmed \in BOOLEAN
  BY DEF IInv, Types, TypeOK
<1>4. fireTarget(out, to) \in SentStatics
  BY <1>2, <1>3, SentStaticsClosed, FireTargetKeeps
<1>5. rep' \in RepeatState(rules)
  BY <1>1, <1>2, <1>3, MakeFlagsType, RepeatAddType DEF Target
<1> HIDE DEF r, to
<1>6. /\ out' \in SentStatics /\ outArmed' \in BOOLEAN
      /\ out'.q # << >> => outArmed' \/ sending'
  BY <1>1, <1>3, <1>4, OutputKeepsWakeup DEF IInv, NoLostWakeup
<1>7. /\ loop' \in LoopState(rules)
      /\ loop'.kind = "keys" /\ loop'.rule = loop.rule /\ loop'.next > 0
  <2>1. loop \in LoopState(rules) /\ loop.next + 1 \in Nat /\ loop.next + 1 > 0
    BY <1>1, LoopRuleType DEF IInv, Types, TypeOK
  <2>2. QED
    BY <1>1, <2>1 DEF LoopState
<1>8. TypeOK'
  BY <1>1, <1>5, <1>6, <1>7, SentStaticsAreStatics DEF IInv, Types, TypeOK
<1>9. LoopInRange'
  BY <1>1, <1>7, LoopRuleType DEF LoopInRange
<1>10. NoLostWakeup'
  BY <1>1, <1>6 DEF IInv, NoLostWakeup
<1>11. QED
  BY <1>6, <1>8, <1>9, <1>10 DEF IInv, Types

LEMMA KeysEndFinishes ==
  ASSUME IInv, KeysEnd
  PROVE  Finishes
<1> DEFINE r == rules[loop.rule]
<1>1. /\ r \in Rule /\ Len(r.to) > 0 /\ inq # << >> /\ ~sending /\ loop.rule \in DOMAIN rules
      /\ out \in SentStatics /\ rep \in RepeatState(rules) /\ held \in Int
      /\ active' \in [DOMAIN rules -> BOOLEAN] /\ loop' = idle
  <2>1. loop.kind = "keys" /\ active' = active /\ loop' = idle
    BY DEF KeysEnd
  <2>2. /\ r \in Rule /\ Len(r.to) \in Nat /\ Len(r.to) > 1 /\ inq # << >> /\ ~sending
        /\ loop.rule \in DOMAIN rules
    BY <2>1, LoopRuleType
  <2> HIDE DEF r
  <2>3. QED
    BY <2>1, <2>2 DEF IInv, Types, TypeOK
<1>2. CASE lastIsModifier(r)
  <2>1. FinishEvent(holdLast(out, r), repeatCancel(rep), held)
    BY <1>2 DEF KeysEnd
  <2> HIDE DEF r
  <2>2. QED
    BY <1>1, <2>1, SentStaticsClosed, HoldLastKeeps, RepeatCancelType DEF Finishes
<1>3. CASE ~lastIsModifier(r)
  <2> DEFINE p == IF r.repeat THEN primitive_start(rep, loop.rule) ELSE rep
  <2>1. FinishEvent(out, p, held)
    BY <1>3 DEF KeysEnd
  <2> HIDE DEF r
  <2>2. p \in RepeatState(rules)
    BY <1>1 DEF primitive_start, RepeatState
  <2> HIDE DEF p
  <2>3. QED
    BY <1>1, <2>1, <2>2 DEF Finishes
<1>4. QED
  BY <1>2, <1>3

\* KeyboardRepeat::fire_timer_callback, one item at a time.
LEMMA RepeatItemKeeps ==
  ASSUME IInv, ~sending, NEW i \in 1 .. Len(rep.items), RepeatItemFires(i)
  PROVE  IInv'
<1>1. /\ output(fireItem(i))
      /\ loop' = IF i = Len(rep.items) THEN idle
                 ELSE [kind |-> "repeat", rule |-> 0, next |-> i + 1]
      /\ UNCHANGED << phys, inq, inArmed, held, active, rep, sending, os, settings >>
  BY DEF RepeatItemFires
<1>2. /\ out \in SentStatics /\ rep \in RepeatState(rules) /\ outArmed \in BOOLEAN
      /\ rep.items \in Seq(RepeatItem)
  BY DEF IInv, Types, TypeOK, RepeatState
<1>3. fireItem(i) \in SentStatics
  <2> DEFINE p == rep.items[i]
  <2>1. p \in RepeatItem
    BY <1>2
  <2> HIDE DEF p
  <2>2. p.key \in KeyCodes /\ p.flags \in SUBSET ModifierFlags
    BY <2>1 DEF RepeatItem
  <2>3. FireKey(out, Call("DOWN", p.key, p.flags, Len(rep.items) = 1)) \in SentStatics
    BY <1>2, <2>2, CallType, FireKeyType
  <2>4. fire_downup(out, p.flags, p.key) \in SentStatics
    BY <1>2, <2>2, SentStaticsClosed, FireDownUpKeeps
  <2>5. QED
    BY <2>3, <2>4 DEF fireItem, p
<1>4. /\ out' \in SentStatics /\ outArmed' \in BOOLEAN
      /\ out'.q # << >> => outArmed' \/ sending'
  BY <1>1, <1>2, <1>3, OutputKeepsWakeup DEF IInv, NoLostWakeup
<1>5. Len(rep.items) \in Nat
  BY <1>2
<1>6. loop' \in LoopState(rules)
  BY <1>1, <1>5 DEF LoopState, idle
<1>7. TypeOK'
  BY <1>1, <1>4, <1>6, SentStaticsAreStatics DEF IInv, Types, TypeOK
<1>8. LoopInRange'
  BY <1>1, <1>5 DEF LoopInRange, idle
<1>9. NoLostWakeup'
  BY <1>1, <1>4 DEF IInv, NoLostWakeup
<1>10. QED
  BY <1>4, <1>7, <1>8, <1>9 DEF IInv, Types

\* The output timer: into the system's callback, and past the front event.
LEMMA OutputTimerKeeps ==
  ASSUME IInv, OutputTimer
  PROVE  IInv'
<1>1. Head(out.q) \in OutEvent
  BY DEF OutputTimer, OutputReady, IInv, Types, TypeOK, Statics
<1>2. os' \in [down : SUBSET OutputKeys, flags : SUBSET ModifierFlags]
  <2> DEFINE e == Head(out.q)
  <2>1. os \in [down : SUBSET OutputKeys, flags : SUBSET ModifierFlags] /\ os' = receive(e)
    BY DEF OutputTimer, IInv, Types, TypeOK
  <2> HIDE DEF e
  <2>2. e \in OutEvent
    BY <1>1 DEF e
  <2>3. QED
    BY <2>1, <2>2 DEF receive, OutEvent
<1>3. TypeOK'
  BY <1>2 DEF OutputTimer, IInv, Types, TypeOK
<1>4. QED
  BY <1>3 DEF OutputTimer, OutputReady, IInv, Types, LoopInRange, NoLostWakeup

LEMMA PopOutputType ==
  ASSUME IInv, out.q # << >>, popOutput
  PROVE  /\ out' \in SentStatics /\ outArmed' \in BOOLEAN
         /\ out'.q # << >> => outArmed'
<1>1. out \in SentStatics /\ out.q \in Seq(SentEvent)
  BY DEF IInv, Types, SentStatics
<1>2. Tail(out.q) \in Seq(SentEvent)
  BY <1>1
<1>3. out' = [out EXCEPT !.q = Tail(out.q)] /\ outArmed' = (Tail(out.q) # << >>)
  BY DEF popOutput
<1>4. QED
  BY <1>1, <1>2, <1>3 DEF SentStatics

LEMMA PoppedKeeps ==
  ASSUME IInv, out.q # << >>, popOutput, sending' = FALSE, loop = idle,
         UNCHANGED << phys, inq, inArmed, held, active, rep, loop, os, settings >>
  PROVE  IInv'
<1>1. /\ out' \in SentStatics /\ outArmed' \in BOOLEAN
      /\ out'.q # << >> => outArmed'
  BY PopOutputType
<1>2. TypeOK'
  BY <1>1, SentStaticsAreStatics DEF IInv, Types, TypeOK
<1>3. QED
  BY <1>1, <1>2 DEF IInv, Types, LoopInRange, NoLostWakeup, idle

LEMMA OutputPopsKeep ==
  ASSUME IInv, OutputDone \/ OutputDropped
  PROVE  IInv'
<1>1. CASE OutputDone
  BY <1>1, PoppedKeeps DEF OutputDone, IInv, LoopInRange
<1>2. CASE OutputDropped
  <2>1. sending' = FALSE
    BY <1>2 DEF OutputDropped, OutputReady, IInv, Types, TypeOK
  <2>2. QED
    BY <1>2, <2>1, PoppedKeeps DEF OutputDropped, OutputReady
<1>3. QED
  BY <1>1, <1>2

\* The environment: a key moves, the rules are reloaded, the keyboard comes and
\* goes.
LEMMA KeyMovesKeeps ==
  ASSUME IInv, NEW k \in PhysKeys, KeyMoves(k)
  PROVE  IInv'
<1>1. /\ phys' \subseteq PhysKeys
      /\ UNCHANGED << held, active, rep, out, outArmed, sending, loop, settings >>
      /\ loop = idle
  BY DEF KeyMoves, toggled, IInv, Types, TypeOK
<1>2. CASE hooked
  <2>1. [key |-> k, down |-> k \notin phys] \in Event /\ inq \in Seq(Event)
    BY DEF Event, IInv, Types, TypeOK
  <2>2. Append(inq, [key |-> k, down |-> k \notin phys]) \in Seq(Event)
    BY <2>1
  <2>3. inq' \in Seq(Event) /\ inArmed' = TRUE /\ os' = os
    BY <1>2, <2>2 DEF KeyMoves
  <2>4. TypeOK'
    BY <1>1, <2>3 DEF IInv, Types, TypeOK
  <2>5. QED
    BY <1>1, <2>3, <2>4 DEF IInv, Types, LoopInRange, NoLostWakeup, idle
<1>3. CASE ~hooked
  <2>1. inq' = inq /\ inArmed' = inArmed
    BY <1>3 DEF KeyMoves
  <2>2. os' \in [down : SUBSET OutputKeys, flags : SUBSET ModifierFlags]
    <3>1. /\ os \in [down : SUBSET OutputKeys, flags : SUBSET ModifierFlags]
          /\ k \in OutputKeys
      BY KeyRemapConstants DEF OutputKeys, IInv, Types, TypeOK
    <3>2. os' = IF k \in ModifierFlags
                THEN [os EXCEPT !.flags = IF k \in phys THEN @ \ {k} ELSE @ \cup {k}]
                ELSE [os EXCEPT !.down = IF k \in phys THEN @ \ {k} ELSE @ \cup {k}]
      BY <1>3 DEF KeyMoves
    <3>3. QED
      BY <3>1, <3>2
  <2>3. TypeOK'
    BY <1>1, <2>1, <2>2 DEF IInv, Types, TypeOK
  <2>4. QED
    BY <1>1, <2>1, <2>3 DEF IInv, Types, LoopInRange, NoLostWakeup
<1>4. QED
  BY <1>2, <1>3

\* Config::set_initialized.
LEMMA SetInitializedType ==
  ASSUME IInv, NEW value \in BOOLEAN, set_initialized(value)
  PROVE  /\ out' \in SentStatics /\ out'.q = out.q
         /\ held' \in Int /\ initialized' \in BOOLEAN
         /\ UNCHANGED << phys, inq, inArmed, outArmed, sending, loop, os, plugged >>
<1>1. out \in SentStatics /\ held \in Int
  BY DEF IInv, Types, TypeOK
<1>2. sticky_clear(lock_clear(out.fs)) \in FlagStatusItems
  BY <1>1, ItemsType, LockStickyType
<1>3. out' = [out EXCEPT !.fs = sticky_clear(lock_clear(out.fs))]
  BY DEF set_initialized
<1>4. QED
  BY <1>1, <1>2, <1>3, NewItemsType DEF set_initialized, SentStatics

LEMMA SetRemapClassesKeeps ==
  ASSUME IInv, NEW rs \in RuleSets, SetRemapClasses(rs)
  PROVE  IInv'
<1>1. /\ out' \in SentStatics /\ out'.q = out.q
      /\ held' \in Int /\ initialized' \in BOOLEAN
      /\ UNCHANGED << phys, inq, inArmed, outArmed, sending, loop, os, plugged >>
  BY SetInitializedType DEF SetRemapClasses
<1>2. loop = idle /\ loop' = idle /\ changes' \in Nat /\ rules' = rs /\ active' = none(rs)
  BY <1>1 DEF SetRemapClasses, Change, IInv, Types, TypeOK
<1>3. rep' \in RepeatState(rs)
  <2>1. PICK armed \in {FALSE, rep.armed} : rep' = [items |-> << >>, armed |-> armed, owner |-> 0]
    BY DEF SetRemapClasses
  <2>2. armed \in BOOLEAN
    BY <2>1 DEF IInv, Types, TypeOK, RepeatState
  <2>3. QED
    BY <2>1, <2>2 DEF RepeatState
<1>4. active' \in [DOMAIN rs -> BOOLEAN]
  BY <1>2 DEF none
<1>5. config' \in Config(rs)
  <2>1. config' = [config EXCEPT !.enabled = {}, !.list = {}]
    BY DEF SetRemapClasses
  <2>2. config \in [enabled : SUBSET DOMAIN rules, list : SUBSET DOMAIN rules, refresh : BOOLEAN,
                    fronts : Nat]
    BY DEF IInv, Types, TypeOK, Config
  <2>3. QED
    BY <2>1, <2>2 DEF Config
<1>6. TypeOK'
  BY <1>1, <1>2, <1>3, <1>4, <1>5, IdleType, SentStaticsAreStatics DEF IInv, Types, TypeOK
<1>7. LoopInRange' /\ NoLostWakeup'
  BY <1>1, <1>2 DEF IInv, LoopInRange, NoLostWakeup, idle
<1>8. QED
  BY <1>1, <1>6, <1>7 DEF IInv, Types

LEMMA SetConfigKeeps ==
  ASSUME IInv, SetConfig
  PROVE  IInv'
<1>1. /\ out' \in SentStatics /\ out'.q = out.q
      /\ held' \in Int /\ initialized' \in BOOLEAN
      /\ UNCHANGED << phys, inq, inArmed, outArmed, sending, loop, os, plugged >>
  BY SetInitializedType DEF SetConfig
<1>2. loop = idle /\ loop' = idle /\ changes' \in Nat /\ UNCHANGED << rules, active >>
  BY <1>1 DEF SetConfig, Change, IInv, Types, TypeOK
<1>3. rep' \in RepeatState(rules)
  <2>1. PICK armed \in {FALSE, rep.armed} : rep' = [repeatCancel(rep) EXCEPT !.armed = armed]
    BY DEF SetConfig
  <2>2. armed \in BOOLEAN /\ repeatCancel(rep) \in RepeatState(rules)
    BY <2>1, RepeatCancelType DEF IInv, Types, TypeOK, RepeatState
  <2>3. QED
    BY <2>1, <2>2 DEF RepeatState
<1>4. config' \in Config(rules)
  <2>1. PICK S \in SUBSET DOMAIN rules : config' = [config EXCEPT !.enabled = S, !.refresh = TRUE]
    BY DEF SetConfig
  <2>2. QED
    BY <2>1 DEF IInv, Types, TypeOK, Config
<1>5. TypeOK'
  BY <1>1, <1>2, <1>3, <1>4, IdleType, SentStaticsAreStatics DEF IInv, Types, TypeOK
<1>6. LoopInRange' /\ NoLostWakeup'
  BY <1>1, <1>2 DEF IInv, LoopInRange, NoLostWakeup, idle
<1>7. QED
  BY <1>1, <1>5, <1>6 DEF IInv, Types

\* RemapClassManager::refresh_timer_callback.
LEMMA RefreshTimerKeeps ==
  ASSUME IInv, RefreshTimer
  PROVE  IInv'
<1>1. config' \in Config(rules)
  BY DEF RefreshTimer, Config, IInv, Types, TypeOK
<1>2. rep' \in RepeatState(rules)
  BY RepeatCancelType DEF RefreshTimer, IInv, Types, TypeOK
<1>3. loop = idle
  BY DEF RefreshTimer
<1>4. TypeOK'
  BY <1>1, <1>2 DEF RefreshTimer, IInv, Types, TypeOK
<1>5. LoopInRange'
  BY <1>3 DEF RefreshTimer, IInv, LoopInRange, idle
<1>6. NoLostWakeup'
  BY DEF RefreshTimer, IInv, NoLostWakeup
<1>7. QED
  BY <1>4, <1>5, <1>6 DEF RefreshTimer, IInv, Types

\* Another application is in front.
LEMMA SetWorkspaceDataKeeps ==
  ASSUME IInv, SetWorkspaceData
  PROVE  IInv'
<1>1. config' \in Config(rules)
  BY DEF SetWorkspaceData, Config, IInv, Types, TypeOK
<1>2. TypeOK'
  BY <1>1 DEF SetWorkspaceData, IInv, Types, TypeOK
<1>3. QED
  BY <1>2 DEF SetWorkspaceData, IInv, Types, LoopInRange, NoLostWakeup, idle

LEMMA PlugKeeps ==
  ASSUME IInv, Unplug \/ Plug
  PROVE  IInv'
<1>1. /\ UNCHANGED << inq, inArmed, rules, config, active, rep, out, outArmed, sending, loop, os,
                      initialized >>
      /\ phys' \subseteq PhysKeys /\ held' = 0 /\ plugged' \in BOOLEAN /\ changes' \in Nat
  <2>1. phys \subseteq PhysKeys /\ changes \in Nat
    BY DEF IInv, Types, TypeOK
  <2>2. CASE Unplug
    <3>1. plugged' = FALSE /\ held' = 0 /\ phys' = {} /\ changes' = changes + 1
      BY <2>2 DEF Unplug, Change
    <3>2. phys' \subseteq PhysKeys
      BY <3>1
    <3>3. plugged' \in BOOLEAN
      BY <3>1
    <3>4. changes' \in Nat
      BY <2>1, <3>1
    <3>5. QED
      BY <2>2, <3>1, <3>2, <3>3, <3>4 DEF Unplug
  <2>3. CASE Plug
    BY <2>1, <2>3 DEF Plug, Change
  <2>4. QED
    BY <2>2, <2>3
<1>2. TypeOK'
  BY <1>1 DEF IInv, Types, TypeOK
<1>3. QED
  BY <1>1, <1>2 DEF IInv, Types, LoopInRange, NoLostWakeup

LEMMA InitIInv == Init => IInv
<1> SUFFICES ASSUME Init PROVE IInv
  OBVIOUS
<1>1. out \in SentStatics
  <2> DEFINE o == [fs |-> initializeItems, last |-> {}, q |-> << >>, pressed |-> nonePressed]
  <2>1. << >> \in Seq(SentEvent) /\ nonePressed \in [OutputKeys -> Nat]
    BY DEF nonePressed
  <2>2. o \in SentStatics
    BY <2>1, InitializeType DEF SentStatics
  <2>3. QED
    BY <2>2 DEF Init
<1>2. rep \in RepeatState(rules) /\ loop \in LoopState(rules)
  <2>1. [items |-> << >>, armed |-> FALSE, owner |-> 0] \in RepeatState(rules)
    BY DEF RepeatState
  <2>2. QED
    BY <2>1, IdleType DEF Init
<1>3. TypeOK
  <2>1. /\ inq \in Seq(Event)
        /\ os \in [down : SUBSET OutputKeys, flags : SUBSET ModifierFlags]
        /\ out \in Statics
    BY <1>1, SentStaticsAreStatics DEF Init
  <2>2. active \in [DOMAIN rules -> BOOLEAN] /\ config \in Config(rules)
    BY DEF Init, none, Config
  <2>3. /\ phys \subseteq PhysKeys /\ held \in Int /\ changes \in Nat /\ rules \in RuleSets
        /\ inArmed \in BOOLEAN /\ outArmed \in BOOLEAN /\ sending \in BOOLEAN
        /\ plugged \in BOOLEAN /\ initialized \in BOOLEAN
    <3>1. phys = {} /\ held = 0 /\ changes = 0 /\ rules \in RuleSets
      BY DEF Init
    <3>2. phys \subseteq PhysKeys
      BY <3>1
    <3>3. /\ inArmed \in BOOLEAN /\ outArmed \in BOOLEAN /\ sending \in BOOLEAN
          /\ plugged \in BOOLEAN /\ initialized \in BOOLEAN
      BY DEF Init
    <3>4. QED
      BY <3>1, <3>2, <3>3
  <2>4. QED
    BY <1>2, <2>1, <2>2, <2>3 DEF TypeOK
<1>4. LoopInRange
  BY DEF Init, LoopInRange, idle
<1>5. NoLostWakeup
  <2>1. inq = << >> /\ out.q = << >>
    BY DEF Init
  <2>2. QED
    BY <2>1 DEF NoLostWakeup
<1>6. QED
  BY <1>1, <1>3, <1>4, <1>5 DEF IInv, Types

\* The inductive invariant: the types, the loops in range, the timers armed.
THEOREM Invariance == Spec => []IInv
<1>1. ASSUME IInv, [Next]_vars
      PROVE  IInv'
  <2>1. ASSUME NEW k \in PhysKeys, KeyMoves(k) PROVE IInv'
    BY <1>1, <2>1, KeyMovesKeeps
  <2>2. CASE InputTimer
    <3>1. CASE PassThrough
      BY <1>1, <3>1, PassThroughFinishes, FinishesKeeps
    <3>2. ASSUME NEW i \in DOMAIN rules, Remap(i) PROVE IInv'
      BY <1>1, <3>2, RemapFinishes, FinishesKeeps
    <3>3. ASSUME NEW i \in DOMAIN rules, StartKeys(i) PROVE IInv'
      BY <1>1, <3>3, StartKeysKeeps
    <3>4. QED
      BY <2>2, <3>1, <3>2, <3>3 DEF InputTimer
  <2>3. CASE KeysStep
    BY <1>1, <2>3, KeysStepKeeps
  <2>4. CASE KeysEnd
    BY <1>1, <2>4, KeysEndFinishes, FinishesKeeps
  <2>5. CASE RepeatTimer
    <3>1. rep.items \in Seq(RepeatItem)
      BY <1>1 DEF IInv, Types, TypeOK, RepeatState
    <3>2. 1 \in 1 .. Len(rep.items)
      BY <2>5, <3>1 DEF RepeatTimer
    <3>3. QED
      BY <1>1, <2>5, <3>2, RepeatItemKeeps DEF RepeatTimer
  <2>6. CASE RepeatStep
    BY <1>1, <2>6, RepeatItemKeeps DEF RepeatStep, IInv, LoopInRange, idle
  <2>7. CASE OutputTimer
    BY <1>1, <2>7, OutputTimerKeeps
  <2>8. CASE OutputDone \/ OutputDropped
    BY <1>1, <2>8, OutputPopsKeep
  <2>9. ASSUME NEW rs \in RuleSets, SetRemapClasses(rs) PROVE IInv'
    BY <1>1, <2>9, SetRemapClassesKeeps
  <2>10. CASE SetConfig
    BY <1>1, <2>10, SetConfigKeeps
  <2>11. CASE Unplug \/ Plug
    BY <1>1, <2>11, PlugKeeps
  <2>12. CASE RefreshTimer
    BY <1>1, <2>12, RefreshTimerKeeps
  <2>13. CASE SetWorkspaceData
    BY <1>1, <2>13, SetWorkspaceDataKeeps
  <2>14. CASE UNCHANGED vars
    BY <1>1, <2>14 DEF vars, IInv, Types, TypeOK, LoopInRange, NoLostWakeup
  <2>15. QED
    BY <1>1, <2>1, <2>2, <2>3, <2>4, <2>5, <2>6, <2>7, <2>8, <2>9, <2>10, <2>11, <2>12, <2>13, <2>14
       DEF Next
<1>2. QED
  BY <1>1, InitIInv, PTL DEF Spec

\* Every variable keeps its type, for every keyboard, rule set and bound.
THEOREM TypeCorrect == Spec => []TypeOK
<1>1. IInv => TypeOK
  BY DEF IInv, Types
<1>2. QED
  BY <1>1, Invariance, PTL

\* No queued event is ever left without a timer that will take it: the push
\* operations and the callbacks arm the timers whatever runs in between, also
\* while the lock is released around the system's callback and across reloads.
THEOREM WakeupsKept == Spec => []NoLostWakeup
<1>1. IInv => NoLostWakeup
  BY DEF IInv
<1>2. QED
  BY <1>1, Invariance, PTL

\* Nothing is ever queued that Item::apply would refuse, whatever the rules: the
\* extra modifiers are stripped on every path to the output queue.
THEOREM NothingRefusedEver == Spec => []NothingRefused
<1>1. ASSUME IInv PROVE NothingRefused
  <2>1. out.q \in Seq(SentEvent)
    BY <1>1 DEF IInv, Types, SentStatics
  <2>2. \A i \in DOMAIN out.q : out.q[i] \in SentEvent
    BY <2>1
  <2>3. QED
    BY <2>2 DEF NothingRefused, SentEvent
<1>2. QED
  BY <1>1, Invariance, PTL

-------------------------------------------------------------------------------
(***************************************************************************)
(* Whose sequence repeats.                                                 *)
(***************************************************************************)
\* While the sequence is put together its timer is off and its rule converts.
SequenceInHand ==
  loop.kind = "keys" => loop.rule \in config.list /\ ~rep.armed

Owned == RepeatsForEnabledRule /\ SequenceInHand

\* The end of an event: the repeat is what it was, or cancelled, or set to one
\* key, or started by a rule that converts.
LEMMA FinishEventOwned ==
  ASSUME IInv, NEW o, NEW p \in RepeatState(rules), NEW h, FinishEvent(o, p, h), loop' = idle,
         p.owner # 0 /\ p.armed /\ p.items # << >> => p.owner \in config.list
  PROVE  Owned'
<1>1. config' = config /\ (rep' = p \/ rep' = repeatCancel(p))
  BY DEF FinishEvent
<1>2. repeatCancel(p).items = << >>
  BY DEF repeatCancel, RepeatState
<1>3. RepeatsForEnabledRule'
  BY <1>1, <1>2 DEF RepeatsForEnabledRule
<1>4. SequenceInHand'
  BY DEF SequenceInHand, idle
<1>5. QED
  BY <1>3, <1>4 DEF Owned

LEMMA RepeatSetOwned ==
  ASSUME NEW rs, NEW p \in RepeatState(rs), NEW c \in FireCall, NEW L,
         p.owner # 0 /\ p.armed /\ p.items # << >> => p.owner \in L
  PROVE  LET q == repeatSet(p, c) IN q.owner # 0 /\ q.armed /\ q.items # << >> => q.owner \in L
<1>1. c.type \in {"DOWN", "UP", "MODIFY"}
  BY DEF FireCall
<1>2. repeatCancel(p).items = << >>
  BY DEF repeatCancel, RepeatState
<1>3. QED
  BY <1>1, <1>2 DEF repeatSet

THEOREM OwnerInvariance == Spec => []Owned
<1>1. Init => Owned
  BY DEF Init, Owned, RepeatsForEnabledRule, SequenceInHand, idle
<1>2. ASSUME IInv, Owned, [Next]_vars
      PROVE  Owned'
  <2> USE <1>2
  <2>1. /\ rep \in RepeatState(rules)
        /\ rep.owner # 0 /\ rep.armed /\ rep.items # << >> => rep.owner \in config.list
    BY DEF IInv, Types, TypeOK, Owned, RepeatsForEnabledRule
  <2>2. /\ repeatCancel(rep) \in RepeatState(rules)
        /\ repeatCancel(rep).items = << >> /\ repeatCancel(rep).armed = FALSE
    BY <2>1, RepeatCancelType DEF repeatCancel, RepeatState
  <2>3. CASE PassThrough
    <3> DEFINE c == Call(eventType(event.key, event.down), event.key, makeFlags(fsOfEvent), FALSE)
    <3>1. c \in FireCall /\ loop' = idle
      BY <2>3, EventType, EventTypeType, MakeFlagsType, CallType DEF PassThrough, InputReady
    <3>2. PICK o, h : FinishEvent(o, repeatSet(rep, c), h)
      BY <2>3 DEF PassThrough
    <3> HIDE DEF c
    <3>3. repeatSet(rep, c) \in RepeatState(rules)
      BY <2>1, <3>1, RepeatType
    <3>4. QED
      BY <2>1, <3>1, <3>2, <3>3, RepeatSetOwned, FinishEventOwned
  <2>4. ASSUME NEW i \in DOMAIN rules, Remap(i) PROVE Owned'
    <3> DEFINE r == rules[i]
               o == [out EXCEPT !.fs = fsOfEvent]
    <3>1. r \in Rule /\ loop' = idle
      BY <2>4, RuleType DEF Remap, IInv, Types, TypeOK
    <3>2. CASE Len(r.to) = 1
      <4>1. PICK o2, h : FinishEvent(o2, RepeatSingle(rep, o, r, event), h)
        BY <2>4, <3>2 DEF Remap
      <4> HIDE DEF r, o
      <4> DEFINE p == RepeatSingle(rep, o, r, event)
      <4>2. p \in RepeatState(rules)
        BY <2>1, <3>1, <3>2, RepeatSingleType
      <4>3. p.owner # 0 /\ p.armed /\ p.items # << >> => p.owner \in config.list
        BY <2>1, <2>2, <3>1, <3>2, SingleKeyCallType, RepeatSetOwned DEF RepeatSingle
      <4>4. QED
        BY <3>1, <4>1, <4>2, <4>3, FinishEventOwned
    <3>3. CASE Len(r.to) # 1
      <4>1. PICK o2, h, p : FinishEvent(o2, p, h) /\ (p = rep \/ p = repeatCancel(rep))
        BY <2>4, <3>3 DEF Remap, RepeatKeysUp
      <4>2. QED
        BY <2>1, <2>2, <3>1, <4>1, FinishEventOwned
    <3>4. QED
      BY <3>2, <3>3
  <2>5. ASSUME NEW i \in DOMAIN rules, StartKeys(i) PROVE Owned'
    <3>1. i \in config.list
      BY <2>5 DEF StartKeys, firstMatch, matches
    <3>2. config' = config /\ rep' = repeatCancel(rep) /\ loop'.rule = i
      BY <2>5 DEF StartKeys
    <3>3. QED
      BY <2>2, <3>1, <3>2 DEF Owned, RepeatsForEnabledRule, SequenceInHand
  <2>6. CASE KeysStep
    <3>1. config' = config /\ loop' = [loop EXCEPT !.next = @ + 1] /\ loop.kind = "keys"
      BY <2>6 DEF KeysStep
    <3>2. rep'.armed = rep.armed
      BY <2>1, <2>6 DEF KeysStep, primitive_add_downup, RepeatState
    <3>3. loop'.rule = loop.rule
      BY <3>1 DEF IInv, Types, TypeOK, LoopState
    <3>4. QED
      BY <3>1, <3>2, <3>3 DEF Owned, RepeatsForEnabledRule, SequenceInHand
  <2>7. CASE KeysEnd
    <3>1. PICK o, h, p :
            /\ FinishEvent(o, p, h)
            /\ p = rep \/ p = repeatCancel(rep) \/ p = primitive_start(rep, loop.rule)
      BY <2>7 DEF KeysEnd
    <3>2. loop.rule \in config.list /\ loop.rule \in DOMAIN rules /\ loop' = idle
      BY <2>7, LoopRuleType DEF KeysEnd, Owned, SequenceInHand
    <3>3. /\ primitive_start(rep, loop.rule) \in RepeatState(rules)
          /\ primitive_start(rep, loop.rule).owner = loop.rule
      BY <2>1, <3>2 DEF primitive_start, RepeatState
    <3>4. /\ p \in RepeatState(rules)
          /\ p.owner # 0 /\ p.armed /\ p.items # << >> => p.owner \in config.list
      <4>1. CASE p = rep
        BY <2>1, <4>1
      <4>2. CASE p = repeatCancel(rep)
        BY <2>2, <4>2
      <4>3. CASE p = primitive_start(rep, loop.rule)
        BY <3>2, <3>3, <4>3
      <4>4. QED
        BY <3>1, <4>1, <4>2, <4>3
    <3>5. QED
      BY <3>1, <3>2, <3>4, FinishEventOwned
  <2>8. CASE RepeatTimer \/ RepeatStep
    <3>1. rep' = rep /\ config' = config /\ loop'.kind # "keys"
      BY <2>8 DEF RepeatTimer, RepeatStep, RepeatItemFires, idle
    <3>2. QED
      BY <3>1 DEF Owned, RepeatsForEnabledRule, SequenceInHand
  <2>9. CASE SetConfig \/ RefreshTimer \/ (\E rs \in RuleSets : SetRemapClasses(rs))
    <3>1. loop'.kind = "idle"
      <4>1. loop = idle /\ loop' = loop
        <5>1. CASE SetConfig
          BY <5>1 DEF SetConfig, set_initialized, Change
        <5>2. CASE RefreshTimer
          BY <5>2 DEF RefreshTimer
        <5>3. ASSUME NEW rs \in RuleSets, SetRemapClasses(rs) PROVE loop = idle /\ loop' = loop
          BY <5>3 DEF SetRemapClasses, set_initialized, Change
        <5>4. QED
          BY <2>9, <5>1, <5>2, <5>3
      <4>2. QED
        BY <4>1 DEF idle
    <3>2. CASE SetConfig
      <4>1. PICK armed : rep' = [repeatCancel(rep) EXCEPT !.armed = armed]
        BY <3>2 DEF SetConfig
      <4>2. rep'.items = << >>
        BY <2>2, <4>1 DEF RepeatState
      <4>3. QED
        BY <3>1, <4>2 DEF Owned, RepeatsForEnabledRule, SequenceInHand
    <3>3. CASE RefreshTimer
      <4>1. rep'.items = << >>
        BY <2>2, <3>3 DEF RefreshTimer
      <4>2. QED
        BY <3>1, <4>1 DEF Owned, RepeatsForEnabledRule, SequenceInHand
    <3>4. ASSUME NEW rs \in RuleSets, SetRemapClasses(rs) PROVE Owned'
      <4>1. rep'.items = << >>
        BY <3>4 DEF SetRemapClasses
      <4>2. QED
        BY <3>1, <4>1 DEF Owned, RepeatsForEnabledRule, SequenceInHand
    <3>5. QED
      BY <2>9, <3>2, <3>3, <3>4
  <2>10. ASSUME \/ \E k \in PhysKeys : KeyMoves(k)
                \/ OutputTimer \/ OutputDone \/ OutputDropped \/ Unplug \/ Plug
                \/ UNCHANGED vars
         PROVE  Owned'
    <3>1. UNCHANGED << loop, rep, config >>
      BY <2>10 DEF KeyMoves, OutputTimer, OutputDone, OutputDropped, Unplug, Plug, vars
    <3>2. QED
      BY <3>1 DEF Owned, RepeatsForEnabledRule, SequenceInHand
  <2>11. CASE SetWorkspaceData
    <3>1. UNCHANGED << loop, rep, rules >> /\ config'.list = config.list
      BY <2>11 DEF SetWorkspaceData, IInv, Types, TypeOK, Config
    <3>2. QED
      BY <3>1 DEF Owned, RepeatsForEnabledRule, SequenceInHand
  <2>12. QED
    BY <2>3, <2>4, <2>5, <2>6, <2>7, <2>8, <2>9, <2>10, <2>11 DEF Next, InputTimer
<1>3. QED
  BY <1>1, <1>2, Invariance, PTL DEF Spec

\* A sequence of keys that repeats belongs to a rule that still converts, however
\* the rules are freed, switched off and refreshed while its key is held.
THEOREM RepeatsEnabled == Spec => []RepeatsForEnabledRule
<1>1. Owned => RepeatsForEnabledRule
  BY DEF Owned
<1>2. QED
  BY <1>1, OwnerInvariance, PTL

-------------------------------------------------------------------------------
(***************************************************************************)
(* What a step may do.                                                     *)
(***************************************************************************)
LEMMA FireModifiersEffect ==
  ASSUME NEW o \in SentStatics, NEW flags \in SUBSET ModifierFlags
  PROVE  /\ FireModifiers(o, flags).fs = o.fs
         /\ FireModifiers(o, flags).pressed = o.pressed
         /\ FireModifiers(o, flags).last = flags \ ExtraFlags
  BY DEF FireModifiers, SentStatics

LEMMA PressDownKeysClearEffect ==
  ASSUME NEW o \in SentStatics
  PROVE  /\ PressDownKeysClear(o).fs = o.fs
         /\ PressDownKeysClear(o).last = o.last
         /\ PressDownKeysClear(o).pressed = nonePressed
  BY DEF PressDownKeysClear, SentStatics

LEMMA FireRelativePointerEffect ==
  ASSUME NEW o \in SentStatics
  PROVE  /\ FireRelativePointer(o).fs = o.fs
         /\ FireRelativePointer(o).last = makeFlags(o.fs) \ ExtraFlags
<1> DEFINE o1 == FireModifiers(o, makeFlags(o.fs))
           e == [type |-> "POINTER", key |-> VK_NONE, flags |-> {}]
<1>1. o1 \in SentStatics /\ o1.fs = o.fs /\ o1.last = makeFlags(o.fs) \ ExtraFlags
  BY MakeFlagsType, FireModifiersType, FireModifiersEffect
<1>2. push(o1, e).fs = o1.fs /\ push(o1, e).last = o1.last
  <2>1. e.type # "DOWN"
    OBVIOUS
  <2> HIDE DEF o1, e
  <2>2. QED
    BY <1>1, <2>1 DEF push, SentStatics
<1>3. QED
  BY <1>1, <1>2 DEF FireRelativePointer

LEMMA FlushEffect ==
  ASSUME NEW o \in SentStatics
  PROVE  /\ flush(o).pressed = nonePressed
         /\ \A f \in ModifierFlags : flush(o).fs[f].count = 0 /\ flush(o).fs[f].temporary = 0
         /\ flush(o).last = heldWithoutKeys(flush(o).fs) \ ExtraFlags
<1> DEFINE o1 == [o EXCEPT !.fs = resetItems(@)]
           o2 == FireModifiers(o1, makeFlags(o1.fs))
           o3 == FireRelativePointer(o2)
<1>1. o1 \in SentStatics /\ o1.fs = resetItems(o.fs)
  BY ItemsType, LockStickyType, NewItemsType DEF SentStatics
<1> HIDE DEF o1
<1>2. o2 \in SentStatics /\ o2.fs = o1.fs
  BY <1>1, MakeFlagsType, FireModifiersType, FireModifiersEffect
<1> HIDE DEF o2
<1>3. o3 \in SentStatics /\ o3.fs = o2.fs /\ o3.last = makeFlags(o2.fs) \ ExtraFlags
  BY <1>2, FireRelativePointerType, FireRelativePointerEffect
<1> HIDE DEF o3
<1>4. /\ flush(o).pressed = nonePressed
      /\ flush(o).fs = resetItems(o.fs)
      /\ flush(o).last = makeFlags(resetItems(o.fs)) \ ExtraFlags
  BY <1>1, <1>2, <1>3, PressDownKeysClearEffect DEF flush, o1, o2, o3
<1>5. makeFlags(resetItems(o.fs)) = heldWithoutKeys(resetItems(o.fs))
  <2>1. heldWithoutKeys(resetItems(o.fs)) = heldWithoutKeys(o.fs)
    BY DEF heldWithoutKeys, resetItems
  <2>2. QED
    BY <2>1, ItemsType, ResetForgetsKeys
<1>6. \A f \in ModifierFlags : resetItems(o.fs)[f].count = 0 /\ resetItems(o.fs)[f].temporary = 0
  BY DEF resetItems
<1>7. QED
  BY <1>4, <1>5, <1>6

\* What FlushAtZero asks of a step.
Flushed ==
  /\ held' = 0
  /\ rep'.items = << >> /\ ~rep'.armed
  /\ out'.pressed = nonePressed
  /\ \A f \in ModifierFlags : out'.fs[f].count = 0 /\ out'.fs[f].temporary = 0
  /\ out'.last = heldWithoutKeys(out'.fs) \ ExtraFlags

LEMMA FinishEventFlushes ==
  ASSUME NEW o \in SentStatics, NEW p \in RepeatState(rules), NEW h \in Int,
         FinishEvent(o, p, h), held' <= 0
  PROVE  Flushed
<1>1. output(flush(o)) /\ rep' = repeatCancel(p) /\ held' = 0
  BY DEF FinishEvent
<1>2. rep'.items = << >> /\ ~rep'.armed
  BY <1>1 DEF repeatCancel, RepeatState
<1>3. out' = flush(o)
  BY <1>1 DEF output
<1>4. QED
  BY <1>1, <1>2, <1>3, FlushEffect DEF Flushed

\* Only a step that ends the work on the front event takes it off the queue.
LEMMA TakenOnlyWhenFinished ==
  ASSUME IInv, [Next]_vars, Len(inq') < Len(inq)
  PROVE  Finishes
<1>1. inq \in Seq(Event) /\ Len(inq) \in Nat
  BY DEF IInv, Types, TypeOK
<1>2. inq' # inq
  BY <1>1
<1>3. ~UNCHANGED vars
  BY <1>2 DEF vars
<1>4. ASSUME NEW k \in PhysKeys, KeyMoves(k) PROVE FALSE
  <2>1. inq' = Append(inq, [key |-> k, down |-> k \notin phys])
    BY <1>2, <1>4 DEF KeyMoves
  <2>2. [key |-> k, down |-> k \notin phys] \in Event
    BY DEF Event
  <2>3. QED
    BY <1>1, <2>1, <2>2
<1>5. CASE InputTimer
  <2>1. CASE PassThrough
    BY <2>1, PassThroughFinishes
  <2>2. ASSUME NEW i \in DOMAIN rules, Remap(i) PROVE Finishes
    BY <2>2, RemapFinishes
  <2>3. ASSUME NEW i \in DOMAIN rules, StartKeys(i) PROVE FALSE
    BY <1>2, <2>3 DEF StartKeys
  <2>4. QED
    BY <1>5, <2>1, <2>2, <2>3 DEF InputTimer
<1>6. CASE KeysEnd
  BY <1>6, KeysEndFinishes
<1>7. ASSUME KeysStep \/ RepeatTimer \/ RepeatStep \/ OutputTimer \/ OutputDone \/ OutputDropped
      PROVE  FALSE
  BY <1>2, <1>7 DEF KeysStep, RepeatTimer, RepeatStep, RepeatItemFires, OutputTimer, OutputDone,
                    OutputDropped
<1>8. ASSUME \/ (\E rs \in RuleSets : SetRemapClasses(rs)) \/ SetConfig \/ RefreshTimer
             \/ Unplug \/ Plug \/ SetWorkspaceData
      PROVE  FALSE
  BY <1>2, <1>8 DEF SetRemapClasses, SetConfig, set_initialized, RefreshTimer, Unplug, Plug,
                        SetWorkspaceData
<1>9. QED
  BY <1>3, <1>4, <1>5, <1>6, <1>7, <1>8 DEF Next

\* When the last key comes up, the same step forgets everything: repeat, pressed
\* keys, counts, and every announced modifier that is not locked or sticky.
THEOREM FlushAtZeroAlways == Spec => FlushAtZero
<1>1. ASSUME IInv, [Next]_vars, Len(inq') < Len(inq), held' <= 0
      PROVE  Flushed
  BY <1>1, TakenOnlyWhenFinished, FinishEventFlushes DEF Finishes
<1>2. IInv /\ [Next]_vars => (Len(inq') < Len(inq) /\ held' <= 0 => Flushed)
  BY <1>1
<1>3. QED
  BY <1>2, Invariance, PTL DEF Spec, FlushAtZero, Flushed

-------------------------------------------------------------------------------
(***************************************************************************)
(* What a rule that turns a key into a modifier leaves in the accounting.  *)
(***************************************************************************)
LEMMA CountEffect ==
  ASSUME NEW fs \in FlagStatusItems, NEW flags, NEW f \in ModifierFlags, f # CAPSLOCK
  PROVE  /\ increase(fs, flags)[f].count = fs[f].count + (IF f \in flags THEN 1 ELSE 0)
         /\ decrease(fs, flags)[f].count = fs[f].count - (IF f \in flags THEN 1 ELSE 0)
         /\ increase(fs, flags)[f].temporary = fs[f].temporary
         /\ decrease(fs, flags)[f].temporary = fs[f].temporary
         /\ increase(fs, flags)[f].lock = fs[f].lock /\ decrease(fs, flags)[f].lock = fs[f].lock
         /\ increase(fs, flags)[f].sticky = fs[f].sticky
         /\ decrease(fs, flags)[f].sticky = fs[f].sticky
  BY DEF increase, decrease, increaseItem, decreaseItem, FlagStatusItems, Item

LEMMA SameItem ==
  ASSUME NEW x \in Item, NEW y \in Item,
         x.count = y.count, x.temporary = y.temporary, x.lock = y.lock, x.sticky = y.sticky
  PROVE  x = y
  BY DEF Item

\* The release of a key that a rule turned into a modifier takes back exactly what
\* its press did, for every modifier but CapsLock (KeyToKey.cpp:144-176): the from
\* key's own flag, the target's flags, and the from flags taken away meanwhile.
THEOREM ReleaseUndoesPress ==
  ASSUME NEW fs \in FlagStatusItems, NEW r \in Rule, lastIsModifier(r),
         NEW down \in Event, down.down, NEW up \in Event, ~up.down,
         NEW f \in ModifierFlags, f # CAPSLOCK
  PROVE  LET pressed == singleKeyFlags(dropFromKey(fs, r, down), r, down)
         IN  singleKeyFlags(dropFromKey(pressed, r, up), r, up)[f] = fs[f]
<1> DEFINE A == r.to[1].flags \cup modifierOf(r.to[1].key)
           B == fromFlagsOf(r)
           C == modifierOf(r.from)
           f1 == decrease(fs, C)
           f2 == increase(f1, A)
           f3 == decrease(f2, B)
           f4 == increase(f3, C)
           f5 == decrease(f4, A)
           f6 == increase(f5, B)
<1>1. /\ singleKeyFlags(dropFromKey(fs, r, down), r, down) = f3
      /\ singleKeyFlags(dropFromKey(f3, r, up), r, up) = f6
  BY DEF singleKeyFlags, dropFromKey, holdFlags, unholdFlags
<1> HIDE DEF A, B, C
<1>2. f1 \in FlagStatusItems
  BY CountType
<1>3. f2 \in FlagStatusItems
  BY <1>2, CountType
<1>4. f3 \in FlagStatusItems
  BY <1>3, CountType
<1>5. f4 \in FlagStatusItems
  BY <1>4, CountType
<1>6. f5 \in FlagStatusItems
  BY <1>5, CountType
<1>7. f6 \in FlagStatusItems
  BY <1>6, CountType
<1> DEFINE n(S) == IF f \in S THEN 1 ELSE 0
<1>8. /\ f1[f].count = fs[f].count - n(C)
      /\ f2[f].count = f1[f].count + n(A)
      /\ f3[f].count = f2[f].count - n(B)
      /\ f4[f].count = f3[f].count + n(C)
      /\ f5[f].count = f4[f].count - n(A)
      /\ f6[f].count = f5[f].count + n(B)
  BY <1>2, <1>3, <1>4, <1>5, <1>6, CountEffect
<1>9. /\ f6[f].temporary = fs[f].temporary
      /\ f6[f].lock = fs[f].lock
      /\ f6[f].sticky = fs[f].sticky
  BY <1>2, <1>3, <1>4, <1>5, <1>6, CountEffect
<1> HIDE DEF f1, f2, f3, f4, f5, f6
<1>10. fs[f].count \in Int /\ n(A) \in Int /\ n(B) \in Int /\ n(C) \in Int
  BY DEF FlagStatusItems, Item
<1> HIDE DEF n
<1>11. f6[f].count = fs[f].count
  BY <1>8, <1>10
<1>12. f6[f] \in Item /\ fs[f] \in Item
  BY <1>7 DEF FlagStatusItems
<1>13. f6[f] = fs[f]
  BY <1>9, <1>11, <1>12, SameItem
<1>14. QED
  BY <1>1, <1>13

-------------------------------------------------------------------------------
(***************************************************************************)
(* The parts against each other: the count of held keys, the rules that    *)
(* convert, the modifier counts, the list of pressed keys and the          *)
(* announced flags each agree with what the keyboard and the system really *)
(* do, and nothing is left when the last key comes up.                     *)
(***************************************************************************)

-------------------------------------------------------------------------------
(***************************************************************************)
(* As long as nobody reloads the rules or (un)plugs the keyboard, the      *)
(* keyboard is hooked and all rules of the start convert.                  *)
(***************************************************************************)
Still == undisturbed => config.list = DOMAIN rules /\ ~config.refresh /\ hooked

\* The steps that do not touch the rules or the keyboard's place in the list.
Ordinary ==
  \/ \E k \in PhysKeys : KeyMoves(k)
  \/ InputTimer \/ KeysStep \/ KeysEnd
  \/ RepeatTimer \/ RepeatStep
  \/ OutputTimer \/ OutputDone
  \/ SetWorkspaceData
  \/ UNCHANGED vars

LEMMA OrdinaryKeepsSettings ==
  ASSUME IInv, Ordinary
  PROVE  /\ UNCHANGED << rules, plugged, initialized, changes >>
         /\ config'.list = config.list /\ config'.refresh = config.refresh
<1>1. CASE SetWorkspaceData
  BY <1>1 DEF SetWorkspaceData, IInv, Types, TypeOK, Config
<1>2. ASSUME UNCHANGED settings
      PROVE  /\ UNCHANGED << rules, plugged, initialized, changes >>
             /\ config'.list = config.list /\ config'.refresh = config.refresh
  BY <1>2
<1>3. ASSUME NEW k \in PhysKeys, KeyMoves(k) PROVE UNCHANGED settings
  BY <1>3 DEF KeyMoves
<1>4. CASE InputTimer
  BY <1>2, <1>4 DEF InputTimer, PassThrough, Remap, StartKeys, FinishEvent
<1>5. CASE KeysStep \/ KeysEnd
  BY <1>2, <1>5 DEF KeysStep, KeysEnd, FinishEvent
<1>6. CASE RepeatTimer \/ RepeatStep \/ OutputTimer \/ OutputDone
  BY <1>2, <1>6 DEF RepeatTimer, RepeatStep, RepeatItemFires, OutputTimer, OutputDone
<1>7. CASE UNCHANGED vars
  BY <1>7 DEF vars
<1>8. QED
  BY <1>1, <1>2, <1>3, <1>4, <1>5, <1>6, <1>7 DEF Ordinary

\* The output timer drops nothing then, and the refresh timer is not armed.
LEMMA UndisturbedStep ==
  ASSUME IInv, Still, [Next]_vars, undisturbed'
  PROVE  undisturbed /\ Ordinary /\ rules' = rules
<1>1. changes \in Nat
  BY DEF IInv, Types, TypeOK
<1>2. ASSUME NEW rs \in RuleSets, SetRemapClasses(rs) PROVE FALSE
  BY <1>1, <1>2 DEF SetRemapClasses, Change, undisturbed
<1>3. ASSUME SetConfig \/ Unplug \/ Plug PROVE FALSE
  <2>1. Change
    BY <1>3 DEF SetConfig, Unplug, Plug
  <2>2. QED
    BY <1>1, <2>1 DEF Change, undisturbed
<1>4. ASSUME RefreshTimer PROVE FALSE
  BY <1>4 DEF RefreshTimer, Still, undisturbed
<1>5. ASSUME OutputDropped PROVE FALSE
  <2>1. hooked
    BY <1>5 DEF OutputDropped, Still, undisturbed
  <2>2. out.q \in Seq(SentEvent) /\ out.q # << >>
    BY <1>5 DEF OutputDropped, OutputReady, IInv, Types, SentStatics
  <2>3. Head(out.q) \in SentEvent
    BY <2>2
  <2>4. QED
    BY <1>5, <2>1, <2>3 DEF OutputDropped, delivered, SentEvent
<1>6. Ordinary
  BY <1>2, <1>3, <1>4, <1>5 DEF Next, Ordinary
<1>7. QED
  BY <1>6, OrdinaryKeepsSettings DEF undisturbed

LEMMA StillInvariance == Spec => []Still
<1>1. Init => Still
  BY DEF Init, Still, hooked
<1>2. ASSUME IInv, Still, [Next]_vars PROVE Still'
  <2>1. CASE undisturbed'
    BY <1>2, <2>1, UndisturbedStep, OrdinaryKeepsSettings DEF Still, hooked
  <2>2. CASE ~undisturbed'
    BY <2>2 DEF Still
  <2>3. QED
    BY <2>1, <2>2
<1>3. QED
  BY <1>1, <1>2, Invariance, PTL DEF Spec

\* While a rule sends its keys its from key goes down, and the rule is active.
LoopOfPress ==
  loop.kind = "keys" => event.down /\ event.key = rules[loop.rule].from /\ active[loop.rule]

LEMMA LoopOfPressInvariance == Spec => []LoopOfPress
<1>1. Init => LoopOfPress
  BY DEF Init, LoopOfPress, idle
<1>2. ASSUME IInv, LoopOfPress, [Next]_vars PROVE LoopOfPress'
  <2>1. ASSUME loop'.kind # "keys" PROVE LoopOfPress'
    BY <2>1 DEF LoopOfPress
  <2>2. ASSUME loop = idle, loop' = loop PROVE LoopOfPress'
    BY <2>2 DEF LoopOfPress, idle
  <2>3. ASSUME UNCHANGED << inq, rules, active >>,
               loop' = [loop EXCEPT !.next = @ + 1] \/ loop' = loop
        PROVE  LoopOfPress'
    <3>1. loop'.kind = loop.kind /\ loop'.rule = loop.rule
      BY <1>2, <2>3 DEF IInv, Types, TypeOK, LoopState
    <3>2. event' = event
      BY <2>3 DEF event
    <3>3. QED
      BY <1>2, <2>3, <3>1, <3>2 DEF LoopOfPress
  <2>4. ASSUME NEW k \in PhysKeys, KeyMoves(k) PROVE LoopOfPress'
    BY <2>2, <2>4 DEF KeyMoves
  <2>5. CASE PassThrough
    BY <2>2, <2>5 DEF PassThrough, InputReady
  <2>6. ASSUME NEW i \in DOMAIN rules, Remap(i) PROVE LoopOfPress'
    BY <2>1, <2>6 DEF Remap, idle
  <2>7. ASSUME NEW i \in DOMAIN rules, StartKeys(i) PROVE LoopOfPress'
    <3>1. /\ loop' = [kind |-> "keys", rule |-> i, next |-> 1] /\ inq' = inq /\ rules' = rules
          /\ active' = [active EXCEPT ![i] = TRUE]
          /\ event.down /\ isFromKey(rules[i], active[i], event, makeFlags(fsOfEvent))
      BY <2>7 DEF StartKeys, firstMatch, matches
    <3>2. active \in [DOMAIN rules -> BOOLEAN]
      BY <1>2 DEF IInv, Types, TypeOK
    <3>3. event' = event
      BY <3>1 DEF event
    <3>4. QED
      BY <2>7, <3>1, <3>2, <3>3 DEF LoopOfPress, isFromKey
  <2>8. CASE KeysStep
    BY <2>3, <2>8 DEF KeysStep
  <2>9. CASE KeysEnd
    BY <2>1, <2>9 DEF KeysEnd, idle
  <2>10. CASE RepeatTimer \/ RepeatStep
    BY <2>1, <2>10 DEF RepeatTimer, RepeatStep, RepeatItemFires, idle
  <2>11. CASE OutputTimer \/ OutputDone \/ OutputDropped \/ SetWorkspaceData
    BY <2>3, <2>11 DEF OutputTimer, OutputDone, OutputDropped, SetWorkspaceData
  <2>12. CASE SetConfig \/ RefreshTimer \/ Unplug \/ Plug
    BY <2>2, <2>12 DEF SetConfig, set_initialized, RefreshTimer, Unplug, Plug, Change
  <2>13. ASSUME NEW rs \in RuleSets, SetRemapClasses(rs) PROVE LoopOfPress'
    BY <2>2, <2>13 DEF SetRemapClasses, set_initialized, Change
  <2>14. CASE UNCHANGED vars
    BY <2>3, <2>14 DEF vars
  <2>15. QED
    BY <1>2, <2>4, <2>5, <2>6, <2>7, <2>8, <2>9, <2>10, <2>11, <2>12, <2>13, <2>14
       DEF Next, InputTimer
<1>3. QED
  BY <1>1, <1>2, Invariance, PTL DEF Spec

-------------------------------------------------------------------------------
(***************************************************************************)
(* Which keys the remapping code has seen go down, by the parity of the    *)
(* events of each key that still wait.                                     *)
(***************************************************************************)
waiting(q, n, k) == {i \in DOMAIN q : i >= n /\ q[i].key = k}

\* Key k was down before the n-th waiting event, ph being down now.
downBefore(ph, q, n, k) == (k \in ph) # (Cardinality(waiting(q, n, k)) % 2 = 1)

LEMMA WaitingFinite ==
  ASSUME NEW q \in Seq(Event), NEW n, NEW k
  PROVE  /\ IsFiniteSet(waiting(q, n, k))
         /\ Cardinality(waiting(q, n, k)) \in Nat
<1>1. waiting(q, n, k) \in SUBSET (1 .. Len(q)) /\ Len(q) \in Nat
  BY DEF waiting
<1>2. IsFiniteSet(1 .. Len(q))
  BY <1>1, FS_Interval
<1>3. IsFiniteSet(waiting(q, n, k))
  BY <1>1, <1>2, FS_Subset
<1>4. QED
  BY <1>3, FS_CardinalityType

\* One event more in front: the key of the event was the other way round before.
LEMMA Parity == \A n \in Nat : ((n + 1) % 2 = 1) <=> ~(n % 2 = 1)
  OBVIOUS

LEMMA DownBeforeNext ==
  ASSUME NEW ph, NEW q \in Seq(Event), NEW n \in 1 .. Len(q), NEW k
  PROVE  downBefore(ph, q, n + 1, k)
           <=> IF q[n].key = k THEN ~downBefore(ph, q, n, k) ELSE downBefore(ph, q, n, k)
<1>1. n \notin waiting(q, n + 1, k)
  BY DEF waiting
<1>2. CASE q[n].key = k
  <2>1. waiting(q, n, k) = waiting(q, n + 1, k) \cup {n}
    BY <1>2 DEF waiting
  <2>2. Cardinality(waiting(q, n, k)) = Cardinality(waiting(q, n + 1, k)) + 1
    BY <1>1, <2>1, WaitingFinite, FS_AddElement
  <2>3. QED
    <3>1. Cardinality(waiting(q, n, k)) % 2 = 1 <=> ~(Cardinality(waiting(q, n + 1, k)) % 2 = 1)
      BY <2>2, WaitingFinite, Parity
    <3>2. QED
      BY <1>2, <3>1 DEF downBefore
<1>3. CASE q[n].key # k
  <2>1. waiting(q, n, k) = waiting(q, n + 1, k)
    BY <1>3 DEF waiting
  <2>2. QED
    BY <1>3, <2>1 DEF downBefore
<1>4. QED
  BY <1>2, <1>3

LEMMA DownBeforeTail ==
  ASSUME NEW ph, NEW q \in Seq(Event), q # << >>, NEW n \in Nat \ {0}, NEW k
  PROVE  downBefore(ph, Tail(q), n, k) <=> downBefore(ph, q, n + 1, k)
<1> DEFINE A == waiting(Tail(q), n, k)
           B == waiting(q, n + 1, k)
           f == [i \in A |-> i + 1]
<1>1. /\ Tail(q) \in Seq(Event) /\ Len(Tail(q)) = Len(q) - 1 /\ Len(q) \in Nat
      /\ \A i \in 1 .. Len(q) - 1 : Tail(q)[i] = q[i + 1]
  OBVIOUS
<1>2. f \in [A -> B]
  BY <1>1 DEF waiting
<1>3. \A i, j \in A : f[i] = f[j] => i = j
  BY <1>1 DEF waiting
<1>4. \A j \in B : \E i \in A : f[i] = j
  <2>1. ASSUME NEW j \in B PROVE j - 1 \in A /\ f[j - 1] = j
    BY <1>1 DEF waiting
  <2>2. QED
    BY <2>1
<1>5. f \in Bijection(A, B)
  <2> HIDE DEF f, A, B
  <2>1. QED
    BY <1>2, <1>3, <1>4 DEF Bijection, Injection, Surjection, IsInjective
<1>6. Cardinality(A) = Cardinality(B)
  <2>1. IsFiniteSet(A)
    BY <1>1, WaitingFinite
  <2>2. ExistsBijection(A, B)
    BY <1>5 DEF ExistsBijection
  <2> HIDE DEF A, B
  <2>3. QED
    BY <2>1, <2>2, FS_Bijection
<1>7. QED
  BY <1>6 DEF downBefore

LEMMA DownBeforeEnd ==
  ASSUME NEW ph, NEW q \in Seq(Event), NEW k
  PROVE  downBefore(ph, q, Len(q) + 1, k) <=> k \in ph
<1>1. waiting(q, Len(q) + 1, k) = {}
  BY DEF waiting
<1>2. Cardinality(waiting(q, Len(q) + 1, k)) = 0
  BY <1>1, FS_EmptySet
<1>3. ~(0 % 2 = 1)
  OBVIOUS
<1>4. QED
  BY <1>2, <1>3 DEF downBefore

\* A key that moves and the event it queues cancel out for all events before.
LEMMA DownBeforeAppend ==
  ASSUME NEW ph, NEW q \in Seq(Event), NEW e \in Event, NEW n \in 1 .. Len(q) + 1, NEW k
  PROVE  downBefore(toggled(ph, e.key), Append(q, e), n, k) <=> downBefore(ph, q, n, k)
<1>1. /\ Append(q, e) \in Seq(Event) /\ Len(Append(q, e)) = Len(q) + 1 /\ Len(q) \in Nat
      /\ \A i \in 1 .. Len(q) : Append(q, e)[i] = q[i]
      /\ Append(q, e)[Len(q) + 1] = e
  OBVIOUS
<1>2. Len(q) + 1 \notin waiting(q, n, k)
  BY <1>1 DEF waiting
<1>3. CASE e.key = k
  <2>1. waiting(Append(q, e), n, k) = waiting(q, n, k) \cup {Len(q) + 1}
    BY <1>1, <1>3 DEF waiting
  <2>2. Cardinality(waiting(Append(q, e), n, k)) = Cardinality(waiting(q, n, k)) + 1
    BY <1>2, <2>1, WaitingFinite, FS_AddElement
  <2>3. k \in toggled(ph, e.key) <=> k \notin ph
    BY <1>3 DEF toggled
  <2>4. QED
    BY <2>2, <2>3, WaitingFinite, Parity DEF downBefore
<1>4. CASE e.key # k
  <2>1. waiting(Append(q, e), n, k) = waiting(q, n, k)
    BY <1>1, <1>4 DEF waiting
  <2>2. k \in toggled(ph, e.key) <=> k \in ph
    BY <1>4 DEF toggled
  <2>3. QED
    BY <2>1, <2>2 DEF downBefore
<1>5. QED
  BY <1>3, <1>4

LEMMA SeenIsDownBefore ==
  ASSUME inq \in Seq(Event), NEW k
  PROVE  seen(k) <=> downBefore(phys, inq, 1, k)
<1>1. {i \in DOMAIN inq : inq[i].key = k} = waiting(inq, 1, k)
  BY DEF waiting
<1>2. QED
  BY <1>1 DEF seen, downBefore

\* Every waiting event turns its key over.
EventsFlip ==
  undisturbed =>
    \A i \in DOMAIN inq : inq[i].down <=> ~downBefore(phys, inq, i, inq[i].key)

\* How an ordinary step changes the input queue: a key moves, the front event is
\* taken for good, or nothing.
LEMMA QueueStep ==
  ASSUME IInv, Still, undisturbed, Ordinary
  PROVE  \/ \E k \in PhysKeys :
              /\ phys' = toggled(phys, k) /\ inq' = Append(inq, [key |-> k, down |-> k \notin phys])
              /\ UNCHANGED << held, active, loop >>
         \/ phys' = phys /\ inq # << >> /\ inq' = Tail(inq) /\ loop' = idle
         \/ UNCHANGED << phys, inq >>
<1>1. ASSUME NEW k \in PhysKeys, KeyMoves(k)
      PROVE  /\ phys' = toggled(phys, k) /\ inq' = Append(inq, [key |-> k, down |-> k \notin phys])
             /\ UNCHANGED << held, active, loop >>
  BY <1>1 DEF KeyMoves, Still
<1>2. CASE PassThrough \/ (\E i \in DOMAIN rules : Remap(i))
  BY <1>2 DEF PassThrough, Remap, InputReady, FinishEvent
<1>3. CASE KeysEnd
  BY <1>3 DEF KeysEnd, FinishEvent, IInv, LoopInRange
<1>4. ASSUME NEW i \in DOMAIN rules, StartKeys(i) PROVE UNCHANGED << phys, inq >>
  BY <1>4 DEF StartKeys
<1>5. CASE KeysStep \/ RepeatTimer \/ RepeatStep \/ OutputTimer \/ OutputDone
  BY <1>5 DEF KeysStep, RepeatTimer, RepeatStep, RepeatItemFires, OutputTimer, OutputDone
<1>6. CASE SetWorkspaceData \/ UNCHANGED vars
  BY <1>6 DEF SetWorkspaceData, vars
<1>7. QED
  BY <1>1, <1>2, <1>3, <1>4, <1>5, <1>6 DEF Ordinary, InputTimer

LEMMA EventsFlipInvariance == Spec => []EventsFlip
<1>1. Init => EventsFlip
  BY DEF Init, EventsFlip
<1>2. ASSUME IInv, Still, EventsFlip, [Next]_vars PROVE EventsFlip'
  <2>1. SUFFICES ASSUME undisturbed', NEW i \in DOMAIN inq'
                 PROVE  inq'[i].down <=> ~downBefore(phys', inq', i, inq'[i].key)
    BY DEF EventsFlip, downBefore, waiting
  <2>2. undisturbed /\ Ordinary
    BY <1>2, <2>1, UndisturbedStep
  <2>3. inq \in Seq(Event) /\ Len(inq) \in Nat
    BY <1>2 DEF IInv, Types, TypeOK
  <2>4. \A j \in 1 .. Len(inq) : inq[j].down <=> ~downBefore(phys, inq, j, inq[j].key)
    BY <1>2, <2>2, <2>3 DEF EventsFlip
  <2>5. ASSUME NEW k \in PhysKeys, phys' = toggled(phys, k),
               inq' = Append(inq, [key |-> k, down |-> k \notin phys])
        PROVE  inq'[i].down <=> ~downBefore(phys', inq', i, inq'[i].key)
    <3> DEFINE e == [key |-> k, down |-> k \notin phys]
    <3>1. e \in Event /\ e.key = k /\ (e.down <=> k \notin phys)
      BY DEF Event
    <3> HIDE DEF e
    <3>2. inq' = Append(inq, e)
      BY <2>5 DEF e
    <3>3. CASE i \in 1 .. Len(inq)
      <4>1. inq'[i] = inq[i] /\ i \in 1 .. Len(inq) + 1
        BY <2>3, <3>1, <3>2, <3>3
      <4>2. downBefore(phys', inq', i, inq[i].key) <=> downBefore(phys, inq, i, inq[i].key)
        BY <2>3, <2>5, <3>1, <3>2, <4>1, DownBeforeAppend
      <4>3. QED
        BY <2>4, <3>3, <4>1, <4>2
    <3>4. CASE i = Len(inq) + 1
      <4>1. inq'[i] = e /\ i \in 1 .. Len(inq) + 1
        BY <2>3, <3>1, <3>2, <3>4
      <4>2. downBefore(phys', inq', i, k) <=> downBefore(phys, inq, i, k)
        BY <2>3, <2>5, <3>1, <3>2, <4>1, DownBeforeAppend
      <4>3. downBefore(phys, inq, i, k) <=> k \in phys
        BY <2>3, <3>4, DownBeforeEnd
      <4>4. QED
        BY <3>1, <4>1, <4>2, <4>3
    <3>5. i \in 1 .. Len(inq) + 1
      BY <2>1, <2>3, <3>1, <3>2
    <3>6. QED
      BY <2>3, <3>3, <3>4, <3>5
  <2>6. ASSUME phys' = phys, inq # << >>, inq' = Tail(inq)
        PROVE  inq'[i].down <=> ~downBefore(phys', inq', i, inq'[i].key)
    <3>1. i \in Nat \ {0} /\ i + 1 \in 1 .. Len(inq) /\ inq'[i] = inq[i + 1]
      BY <2>1, <2>3, <2>6
    <3>2. downBefore(phys', inq', i, inq[i + 1].key) <=> downBefore(phys, inq, i + 1, inq[i + 1].key)
      BY <2>3, <2>6, <3>1, DownBeforeTail
    <3>3. QED
      BY <2>4, <3>1, <3>2
  <2>7. CASE UNCHANGED << phys, inq >>
    BY <2>1, <2>3, <2>4, <2>7
  <2>8. QED
    BY <1>2, <2>2, <2>5, <2>6, <2>7, QueueStep
<1>3. QED
  BY <1>1, <1>2, Invariance, StillInvariance, PTL DEF Spec

\* The first event not yet counted: while a rule sends its keys, the front event,
\* which started it, is.
first == IF loop.kind = "keys" THEN 2 ELSE 1

\* The keys that the remapping code takes to be down.
handled == {k \in PhysKeys : downBefore(phys, inq, first, k)}

\* When an event is taken its key turns over,
LEMMA HandledByInput ==
  ASSUME IInv, EventsFlip, undisturbed, InputTimer
  PROVE  /\ event \in Event /\ loop = idle
         /\ event.down <=> event.key \notin handled
         /\ handled' = toggled(handled, event.key)
<1>1. inq \in Seq(Event) /\ Len(inq) \in Nat
  BY DEF IInv, Types, TypeOK
<1>2. loop = idle /\ inq # << >>
  BY DEF InputTimer, PassThrough, Remap, StartKeys, InputReady
<1>3. event = inq[1] /\ event \in Event /\ 1 \in 1 .. Len(inq) /\ 1 + 1 = 2
  BY <1>1, <1>2 DEF event
<1>4. first = 1
  BY <1>2 DEF first, idle
<1>5. event.down <=> event.key \notin handled
  BY <1>1, <1>3, <1>4 DEF EventsFlip, handled, Event
<1>6. handled' = {k \in PhysKeys : downBefore(phys, inq, 2, k)}
  <2>1. CASE PassThrough \/ (\E i \in DOMAIN rules : Remap(i))
    <3>1. phys' = phys /\ inq' = Tail(inq) /\ loop' = idle
      BY <1>2, <2>1 DEF PassThrough, Remap, FinishEvent
    <3>2. first' = 1
      BY <3>1 DEF first, idle
    <3>3. \A k : downBefore(phys, Tail(inq), 1, k) <=> downBefore(phys, inq, 2, k)
      BY <1>1, <1>2, <1>3, DownBeforeTail
    <3>4. handled' = {k \in PhysKeys : downBefore(phys, Tail(inq), 1, k)}
      BY <3>1, <3>2 DEF handled, downBefore, waiting
    <3>5. QED
      BY <3>3, <3>4
  <2>2. ASSUME NEW i \in DOMAIN rules, StartKeys(i)
        PROVE  handled' = {k \in PhysKeys : downBefore(phys, inq, 2, k)}
    <3>1. phys' = phys /\ inq' = inq /\ first' = 2
      BY <2>2 DEF StartKeys, first
    <3>2. QED
      BY <3>1 DEF handled, downBefore, waiting
  <2>3. QED
    BY <2>1, <2>2 DEF InputTimer
<1>7. \A k : downBefore(phys, inq, 2, k)
              <=> IF event.key = k THEN ~downBefore(phys, inq, 1, k) ELSE downBefore(phys, inq, 1, k)
  BY <1>1, <1>3, DownBeforeNext
<1>8. event.key \in PhysKeys
  BY <1>3 DEF Event
<1>9. QED
  BY <1>2, <1>3, <1>4, <1>5, <1>6, <1>7, <1>8 DEF handled, toggled

\* and no other step turns a key over.
LEMMA HandledOtherwise ==
  ASSUME IInv, Still, undisturbed, Ordinary, ~InputTimer
  PROVE  handled' = handled
<1>1. inq \in Seq(Event) /\ Len(inq) \in Nat
  BY DEF IInv, Types, TypeOK
<1>2. ASSUME NEW k \in PhysKeys, KeyMoves(k) PROVE handled' = handled
  <2> DEFINE e == [key |-> k, down |-> k \notin phys]
  <2>1. phys' = toggled(phys, k) /\ inq' = Append(inq, e) /\ loop = idle /\ loop' = loop
    BY <1>2 DEF KeyMoves, Still
  <2>2. e \in Event /\ e.key = k
    BY DEF Event
  <2> HIDE DEF e
  <2>3. first = 1 /\ first' = 1 /\ 1 \in 1 .. Len(inq) + 1
    BY <1>1, <2>1 DEF first, idle
  <2>4. \A x : downBefore(phys', inq', 1, x) <=> downBefore(phys, inq, 1, x)
    BY <1>1, <2>1, <2>2, <2>3, DownBeforeAppend
  <2>5. handled' = {x \in PhysKeys : downBefore(phys', inq', 1, x)}
    BY <2>3 DEF handled, downBefore, waiting
  <2>6. QED
    BY <2>3, <2>4, <2>5 DEF handled
<1>3. CASE KeysEnd
  <2>1. phys' = phys /\ inq' = Tail(inq) /\ inq # << >> /\ loop.kind = "keys" /\ loop'.kind # "keys"
    BY <1>3 DEF KeysEnd, FinishEvent, IInv, LoopInRange, idle
  <2>2. first = 2 /\ first' = 1
    BY <2>1 DEF first
  <2>3. \A x : downBefore(phys, Tail(inq), 1, x) <=> downBefore(phys, inq, 2, x)
    <3>1. 1 + 1 = 2
      OBVIOUS
    <3>2. QED
      BY <1>1, <2>1, <3>1, DownBeforeTail
  <2>4. handled' = {x \in PhysKeys : downBefore(phys, Tail(inq), 1, x)}
    BY <2>1, <2>2 DEF handled, downBefore, waiting
  <2>5. QED
    BY <2>2, <2>3, <2>4 DEF handled
<1>4. ASSUME UNCHANGED << phys, inq >>, loop'.kind = "keys" <=> loop.kind = "keys"
      PROVE  handled' = handled
  BY <1>4 DEF handled, downBefore, waiting, first
<1>5. CASE KeysStep
  <2>1. UNCHANGED << phys, inq >> /\ loop' = [loop EXCEPT !.next = @ + 1]
    BY <1>5 DEF KeysStep
  <2>2. loop'.kind = loop.kind
    BY <2>1 DEF IInv, Types, TypeOK, LoopState
  <2>3. QED
    BY <1>4, <2>1, <2>2
<1>6. CASE RepeatTimer \/ RepeatStep
  BY <1>4, <1>6 DEF RepeatTimer, RepeatStep, RepeatItemFires, idle
<1>7. CASE OutputTimer \/ OutputDone \/ SetWorkspaceData \/ UNCHANGED vars
  BY <1>4, <1>7 DEF OutputTimer, OutputDone, SetWorkspaceData, vars
<1>8. QED
  BY <1>2, <1>3, <1>5, <1>6, <1>7 DEF Ordinary

\* Between two events a key is handled when it is seen.
LEMMA HandledIsSeen ==
  ASSUME IInv, loop.kind # "keys"
  PROVE  \A k \in PhysKeys : seen(k) <=> k \in handled
<1>1. inq \in Seq(Event)
  BY DEF IInv, Types, TypeOK
<1>2. QED
  BY <1>1, SeenIsDownBefore DEF handled, first

LEMMA HandledFinite ==
  /\ IsFiniteSet(PhysKeys)
  /\ \A S \in SUBSET handled : IsFiniteSet(S) /\ Cardinality(S) \in Nat
<1>1. IsFiniteSet(PlainKeys \cup ModifierFlags)
  BY FiniteKeys, FS_Union
<1>2. PhysKeys \subseteq PlainKeys \cup ModifierFlags
  BY KeyRemapConstants
<1>3. IsFiniteSet(PhysKeys)
  BY <1>1, <1>2, FS_Subset
<1>4. handled \subseteq PhysKeys
  BY DEF handled
<1>5. ASSUME NEW S \in SUBSET handled PROVE IsFiniteSet(S) /\ Cardinality(S) \in Nat
  <2>1. IsFiniteSet(S)
    BY <1>3, <1>4, FS_Subset
  <2>2. QED
    BY <2>1, FS_CardinalityType
<1>6. QED
  BY <1>3, <1>5

LEMMA InitHandled == Init => handled = {} /\ first = 1
<1>1. ASSUME NEW k PROVE ~downBefore({}, << >>, 1, k)
  <2>1. waiting(<< >>, 1, k) = {}
    BY DEF waiting
  <2>2. Cardinality(waiting(<< >>, 1, k)) = 0
    BY <2>1, FS_EmptySet
  <2>3. ~(0 % 2 = 1)
    OBVIOUS
  <2>4. QED
    BY <2>2, <2>3 DEF downBefore
<1>2. \A k : ~downBefore({}, << >>, 1, k)
  BY <1>1
<1>3. ASSUME Init PROVE handled = {} /\ first = 1
  <2>1. first = 1 /\ phys = {} /\ inq = << >>
    BY <1>3 DEF Init, first, idle
  <2>2. QED
    BY <1>2, <2>1 DEF handled
<1>4. QED
  BY <1>3

-------------------------------------------------------------------------------
(***************************************************************************)
(* NumHeldDownKeys.                                                        *)
(***************************************************************************)
HeldInv == undisturbed => held = Cardinality(handled \ {CAPSLOCK})

\* One key more or less, and CapsLock does not count.
LEMMA HeldAfterInput ==
  ASSUME IInv, HeldInv, EventsFlip, undisturbed, InputTimer
  PROVE  heldAfter(held, event) = Cardinality(handled' \ {CAPSLOCK})
<1> DEFINE S == handled \ {CAPSLOCK}
<1>1. /\ event \in Event /\ (event.down <=> event.key \notin handled)
      /\ handled' = toggled(handled, event.key)
  BY HandledByInput
<1>2. IsFiniteSet(S) /\ Cardinality(S) \in Nat /\ held = Cardinality(S)
  BY HandledFinite DEF HeldInv
<1>3. CASE event.key = CAPSLOCK
  <2>1. handled' \ {CAPSLOCK} = S
    BY <1>1, <1>3 DEF toggled
  <2>2. QED
    BY <1>2, <1>3, <2>1 DEF heldAfter
<1>4. CASE event.key # CAPSLOCK /\ event.down
  <2>1. handled' \ {CAPSLOCK} = S \cup {event.key} /\ event.key \notin S
    BY <1>1, <1>4 DEF toggled
  <2>2. Cardinality(S \cup {event.key}) = Cardinality(S) + 1
    BY <1>2, <2>1, FS_AddElement
  <2>3. QED
    BY <1>2, <1>4, <2>1, <2>2 DEF heldAfter
<1>5. CASE event.key # CAPSLOCK /\ ~event.down
  <2>1. handled' \ {CAPSLOCK} = S \ {event.key} /\ event.key \in S
    BY <1>1, <1>5 DEF toggled
  <2>2. Cardinality(S \ {event.key}) = Cardinality(S) - 1
    BY <1>2, <2>1, FS_RemoveElement
  <2>3. QED
    BY <1>2, <1>5, <2>1, <2>2 DEF heldAfter
<1>6. QED
  BY <1>3, <1>4, <1>5

LEMMA HeldInvariance == Spec => []HeldInv
<1>1. Init => HeldInv
  <2>1. Cardinality({}) = 0 /\ {} \ {CAPSLOCK} = {}
    BY FS_EmptySet
  <2>2. Init => held = 0
    BY DEF Init
  <2>3. QED
    BY <2>1, <2>2, InitHandled DEF HeldInv
<1>2. ASSUME IInv, Still, EventsFlip, HeldInv, HandledFinite', [Next]_vars PROVE HeldInv'
  <2> DEFINE n == Cardinality(handled' \ {CAPSLOCK})
  <2>1. SUFFICES ASSUME undisturbed' PROVE held' = n
    BY DEF HeldInv
  <2>2. undisturbed /\ Ordinary
    BY <1>2, <2>1, UndisturbedStep
  <2>3. n \in Nat
    BY <1>2 DEF HandledFinite
  <2>4. CASE InputTimer
    <3>1. heldAfter(held, event) = n
      BY <1>2, <2>2, <2>4, HeldAfterInput
    <3>2. \/ held' = heldAfter(held, event)
          \/ heldAfter(held, event) <= 0 /\ held' = 0
      BY <2>4 DEF InputTimer, PassThrough, Remap, StartKeys, FinishEvent
    <3> HIDE DEF n
    <3>3. QED
      BY <2>3, <3>1, <3>2
  <2>5. CASE ~InputTimer
    <3>1. held = n
      BY <1>2, <2>2, <2>5, HandledOtherwise DEF HeldInv
    <3>2. held' = held \/ (held <= 0 /\ held' = 0)
      BY <2>2, <2>5 DEF Ordinary, KeyMoves, KeysStep, KeysEnd, FinishEvent, RepeatTimer, RepeatStep,
                        RepeatItemFires, OutputTimer, OutputDone, SetWorkspaceData, vars
    <3> HIDE DEF n
    <3>3. QED
      BY <2>3, <3>1, <3>2
  <2>6. QED
    BY <2>4, <2>5
<1>3. QED
  BY <1>1, <1>2, Invariance, StillInvariance, EventsFlipInvariance, HandledFinite, PTL DEF Spec

\* NumHeldDownKeys counts exactly the keys that are down, CapsLock excepted,
\* whatever waits in the input queue: for every keyboard, rules and bounds.
THEOREM HeldCount == Spec => []HeldCountExact
<1>1. ASSUME IInv, HeldInv PROVE HeldCountExact
  <2>1. SUFFICES ASSUME undisturbed, loop = idle
                 PROVE  held = Cardinality({k \in PhysKeys \ {CAPSLOCK} : seen(k)})
    BY DEF HeldCountExact
  <2>2. {k \in PhysKeys \ {CAPSLOCK} : seen(k)} = handled \ {CAPSLOCK}
    BY <1>1, <2>1, HandledIsSeen DEF handled, idle
  <2>3. QED
    BY <1>1, <2>1, <2>2 DEF HeldInv
<1>2. QED
  BY <1>1, Invariance, HeldInvariance, PTL

-------------------------------------------------------------------------------
(***************************************************************************)
(* FromKeyChecker: the rules that convert.                                 *)
(***************************************************************************)
ActiveInv ==
  undisturbed /\ paired =>
    \A i \in converting :
      /\ rules[i].from \in handled
      /\ \A j \in converting : rules[j].from = rules[i].from => i = j

LEMMA RuleTaken ==
  ASSUME IInv, NEW i \in DOMAIN rules, Remap(i) \/ StartKeys(i)
  PROVE  /\ rules' = rules /\ rules[i].from = event.key
         /\ event.down => converting' = converting \cup {i}
         /\ ~event.down => i \in converting /\ converting' = converting \ {i}
<1>1. event.down \in BOOLEAN
  <2>1. inq # << >>
    BY DEF Remap, StartKeys, InputReady
  <2>2. QED
    BY <2>1, EventType
<1>2. rules' = rules /\ active' = [active EXCEPT ![i] = event.down]
  BY <1>1 DEF Remap, StartKeys, FinishEvent
<1>3. isFromKey(rules[i], active[i], event, makeFlags(fsOfEvent))
  BY DEF Remap, StartKeys, firstMatch, matches
<1>4. active \in [DOMAIN rules -> BOOLEAN]
  BY DEF IInv, Types, TypeOK
<1>5. QED
  BY <1>1, <1>2, <1>3, <1>4 DEF converting, isFromKey

\* What KeyToKey::remap does, by the number of target keys.
LEMMA RemapCases ==
  ASSUME IInv, NEW i \in DOMAIN rules, Remap(i)
  PROVE  LET o == [out EXCEPT !.fs = fsOfEvent]
             r == rules[i]
             h == heldAfter(held, event)
         IN  \/ /\ Len(r.to) = 0
                /\ FinishEvent([o EXCEPT !.fs = dropFromKey(@, r, event)], rep, h)
             \/ /\ Len(r.to) = 1
                /\ FinishEvent(RemapSingle(o, r, event), RepeatSingle(rep, o, r, event), h)
             \/ /\ Len(r.to) > 1 /\ ~event.down
                /\ FinishEvent(RemapKeysUp(o, r, event), RepeatKeysUp(rep, r, i), h)
<1> DEFINE o == [out EXCEPT !.fs = fsOfEvent]
           r == rules[i]
           h == heldAfter(held, event)
           n == Len(r.to)
<1>1. n \in Nat
  BY RuleType DEF IInv, Types, TypeOK, Rule
<1>2. CASE n = 0
  BY <1>2 DEF Remap
<1>3. CASE n = 1
  BY <1>3 DEF Remap
<1>4. CASE n > 1
  <2>1. ~event.down
    BY <1>1, <1>4 DEF Remap
  <2> HIDE DEF n
  <2>2. n # 0 /\ n # 1
    BY <1>4
  <2> USE DEF n
  <2>3. FinishEvent(RemapKeysUp(o, r, event), RepeatKeysUp(rep, r, i), h)
    BY <2>2 DEF Remap
  <2>4. QED
    BY <1>4, <2>1, <2>3
<1> HIDE DEF n
<1>5. n = 0 \/ n = 1 \/ n > 1
  BY <1>1
<1>6. QED
  BY <1>2, <1>3, <1>4, <1>5

\* A release that no rule takes is not that of a converting rule's key.
LEMMA PassedThrough ==
  ASSUME IInv, Still, undisturbed, paired, PassThrough
  PROVE  /\ rules' = rules /\ converting' = converting
         /\ ~event.down => \A i \in converting : rules[i].from # event.key
<1>1. rules' = rules /\ active' = active
  BY DEF PassThrough, FinishEvent
<1>2. \A i \in DOMAIN rules : ~matches(i)
  BY DEF PassThrough
<1>3. config.list = DOMAIN rules
  BY DEF Still
<1>4. \A i \in DOMAIN rules : ~isblocked(i)
  BY DEF paired, isblocked
<1>5. ASSUME ~event.down, NEW i \in converting PROVE rules[i].from # event.key
  BY <1>2, <1>3, <1>4, <1>5 DEF matches, isFromKey, converting
<1>6. QED
  BY <1>1, <1>5 DEF converting

LEMMA ConvertingKept ==
  ASSUME IInv, Ordinary, ~InputTimer
  PROVE  rules' = rules /\ converting' = converting
<1>1. rules' = rules
  BY OrdinaryKeepsSettings
<1>2. active' = active
  BY DEF Ordinary, KeyMoves, KeysStep, KeysEnd, RepeatTimer, RepeatStep, RepeatItemFires,
         OutputTimer, OutputDone, SetWorkspaceData, vars
<1>3. QED
  BY <1>1, <1>2 DEF converting

LEMMA ActiveInvariance == Spec => []ActiveInv
<1>1. Init => ActiveInv
  BY DEF Init, ActiveInv, converting, none
<1>2. ASSUME IInv, Still, EventsFlip, ActiveInv, [Next]_vars PROVE ActiveInv'
  <2>1. SUFFICES ASSUME undisturbed', paired'
                 PROVE  \A i \in converting' :
                          /\ rules'[i].from \in handled'
                          /\ \A j \in converting' : rules'[j].from = rules'[i].from => i = j
    BY DEF ActiveInv
  <2>2. undisturbed /\ Ordinary /\ rules' = rules
    BY <1>2, <2>1, UndisturbedStep
  <2>3. paired
    BY <2>1, <2>2 DEF paired
  <2>4. /\ \A i \in converting : rules[i].from \in handled
        /\ \A i, j \in converting : rules[j].from = rules[i].from => i = j
    BY <1>2, <2>2, <2>3 DEF ActiveInv
  <2>5. CASE InputTimer
    <3>1. /\ event.down <=> event.key \notin handled
          /\ handled' = IF event.down THEN handled \cup {event.key} ELSE handled \ {event.key}
      BY <1>2, <2>2, <2>5, HandledByInput DEF toggled
    <3>2. CASE PassThrough
      BY <1>2, <2>2, <2>3, <2>4, <3>1, <3>2, PassedThrough
    <3>3. ASSUME NEW i \in DOMAIN rules, Remap(i) \/ StartKeys(i)
          PROVE  \A x \in converting' :
                   /\ rules'[x].from \in handled'
                   /\ \A y \in converting' : rules'[y].from = rules'[x].from => x = y
      <4>1. CASE event.down
        <5>1. rules[i].from = event.key /\ converting' = converting \cup {i}
          BY <1>2, <3>3, <4>1, RuleTaken
        <5>2. QED
          BY <2>2, <2>4, <3>1, <4>1, <5>1
      <4>2. CASE ~event.down
        <5>1. rules[i].from = event.key /\ i \in converting /\ converting' = converting \ {i}
          BY <1>2, <3>3, <4>2, RuleTaken
        <5>2. QED
          BY <2>2, <2>4, <3>1, <4>2, <5>1
      <4>3. QED
        BY <4>1, <4>2
    <3>4. QED
      BY <2>5, <3>2, <3>3 DEF InputTimer
  <2>6. CASE ~InputTimer
    <3>1. handled' = handled /\ converting' = converting
      BY <1>2, <2>2, <2>6, HandledOtherwise, ConvertingKept
    <3>2. QED
      BY <2>2, <2>4, <3>1
  <2>7. QED
    BY <2>5, <2>6
<1>3. QED
  BY <1>1, <1>2, Invariance, StillInvariance, EventsFlipInvariance, PTL DEF Spec

\* At most one rule converts a key, and only while the key is down: for every
\* keyboard and every set of rules, whichever keys come up in which order.
THEOREM ActiveOnlyWhileHeld == Spec => []ActiveWhileHeld
<1>1. ASSUME IInv, ActiveInv PROVE ActiveWhileHeld
  BY <1>1, HandledIsSeen DEF ActiveInv, ActiveWhileHeld, idle, handled
<1>2. QED
  BY <1>1, Invariance, ActiveInvariance, PTL

-------------------------------------------------------------------------------
(***************************************************************************)
(* What the operators add to the count of a flag.                          *)
(***************************************************************************)
one(b) == IF b THEN 1 ELSE 0

\* What FireKey::fire adds: only a lazy key changes a count.
lazily(c, f) ==
  IF c.key \in DOMAIN VirtualLazy /\ ~c.repeat /\ VirtualLazy[c.key] = f
  THEN IF c.type = "DOWN" THEN 1 ELSE IF c.type = "UP" THEN -1 ELSE 0
  ELSE 0

LEMMA CountInt ==
  ASSUME NEW fs \in FlagStatusItems, NEW f \in ModifierFlags
  PROVE  fs[f].count \in Int
  BY DEF FlagStatusItems, Item

LEMMA SameCount ==
  ASSUME NEW fs \in FlagStatusItems, NEW f \in ModifierFlags, NEW flags, NEW op
  PROVE  /\ clearTemporary(fs)[f].count = fs[f].count
         /\ setLock(fs, flags, op)[f].count = fs[f].count
         /\ sticky_toggle(fs, flags)[f].count = fs[f].count
         /\ sticky_clear(fs)[f].count = fs[f].count
  BY DEF clearTemporary, setLock, sticky_toggle, sticky_clear, FlagStatusItems, Item

LEMMA AddTemporaryCount ==
  ASSUME NEW fs \in FlagStatusItems, NEW f \in ModifierFlags, NEW delta
  PROVE  addTemporary(fs, delta)[f].count = fs[f].count
  BY DEF addTemporary, FlagStatusItems, Item

LEMMA TemporaryCount ==
  ASSUME NEW fs \in FlagStatusItems, NEW f \in ModifierFlags, NEW flags
  PROVE  /\ temporary_increase(fs, flags)[f].count = fs[f].count
         /\ temporary_decrease(fs, flags)[f].count = fs[f].count
         /\ scopeEnter(fs, flags)[f].count = fs[f].count
         /\ scopeExit(fs, flags)[f].count = fs[f].count
  BY AddTemporaryCount DEF temporary_increase, temporary_decrease, scopeEnter, scopeExit

LEMMA SetKeyCount ==
  ASSUME NEW fs \in FlagStatusItems, NEW f \in ModifierFlags, f # CAPSLOCK, NEW key, NEW flags
  PROVE  setKey(fs, key, flags)[f].count
           = fs[f].count + (IF f # key THEN 0 ELSE IF f \in flags THEN 1 ELSE -1)
<1>1. /\ clearTemporary(fs) \in FlagStatusItems
      /\ clearTemporary(fs)[f] \in Item
      /\ clearTemporary(fs)[f].count = fs[f].count
  BY SetType, SameCount DEF FlagStatusItems
<1>2. fs[f].count \in Int
  BY CountInt
<1>3. CASE f = key
  <2>1. setKey(fs, key, flags)[f] = setItem(f, clearTemporary(fs)[f], flags)
    BY <1>3 DEF setKey
  <2>2. QED
    BY <1>1, <1>2, <1>3, <2>1 DEF setItem, increaseItem, decreaseItem, Item
<1>4. CASE f # key
  <2>1. setKey(fs, key, flags)[f] = clearTemporary(fs)[f]
    BY <1>4 DEF setKey
  <2>2. QED
    BY <1>1, <1>2, <1>4, <2>1
<1>5. QED
  BY <1>3, <1>4

LEMMA FireOutputableCount ==
  ASSUME NEW o \in SentStatics, NEW c \in FireCall, NEW f \in ModifierFlags
  PROVE  FireOutputable(o, c).fs[f].count = o.fs[f].count
<1> DEFINE newflags == c.flags \ ExtraFlags
           e  == [type |-> c.type, key |-> c.key, flags |-> newflags]
           o1 == FireModifiers(o, newflags)
           o2 == push(o1, e)
<1>1. c.flags \in SUBSET ModifierFlags /\ c.type \in {"DOWN", "UP", "MODIFY"}
  BY DEF FireCall
<1>2. o1 \in SentStatics /\ o1.fs = o.fs /\ o1.fs \in FlagStatusItems
  BY <1>1, FireModifiersType, FireModifiersEffect, ItemsType
<1> HIDE DEF o1
<1>3. o2.fs = IF e.type = "DOWN" THEN sticky_clear(o1.fs) ELSE o1.fs
  BY <1>2 DEF push, SentStatics
<1>4. o2.fs[f].count = o1.fs[f].count
  BY <1>2, <1>3, SameCount
<1>5. DOMAIN o2 = DOMAIN o1 /\ DOMAIN o1 = {"fs", "last", "q", "pressed"}
  BY <1>2 DEF push, SentStatics
<1> HIDE DEF o2
<1>6. FireOutputable(o, c) = o1 \/ FireOutputable(o, c).fs = o2.fs
  BY <1>1, <1>5 DEF FireOutputable, o1, o2, e
<1>7. QED
  BY <1>2, <1>4, <1>6

LEMMA FireKeyCount ==
  ASSUME NEW o \in SentStatics, NEW c \in FireCall, NEW f \in ModifierFlags, f # CAPSLOCK
  PROVE  FireKey(o, c).fs[f].count = o.fs[f].count + lazily(c, f)
<1>1. o.fs \in FlagStatusItems /\ o.fs[f].count \in Int
  BY ItemsType, CountInt
<1>2. c.type \in {"DOWN", "UP", "MODIFY"} /\ c.repeat \in BOOLEAN
  BY DEF FireCall
<1>3. ASSUME NEW fs \in FlagStatusItems, fs[f].count = o.fs[f].count
      PROVE  LET p == [o EXCEPT !.fs = fs]
             IN  p.fs[f].count = o.fs[f].count
                 /\ FireModifiers(p, makeFlags(p.fs)).fs[f].count = o.fs[f].count
  <2> DEFINE p == [o EXCEPT !.fs = fs]
  <2>1. p \in SentStatics /\ p.fs = fs
    BY NewItemsType DEF SentStatics
  <2> HIDE DEF p
  <2>2. FireModifiers(p, makeFlags(p.fs)).fs = fs
    BY <2>1, MakeFlagsType, FireModifiersEffect
  <2>3. QED
    BY <1>3, <2>1, <2>2 DEF p
<1>4. CASE c.key \in DOMAIN VirtualLock
  <2> DEFINE fs == setLock(o.fs, {VirtualLock[c.key].flag}, VirtualLock[c.key].op)
  <2>1. fs \in FlagStatusItems /\ fs[f].count = o.fs[f].count
    BY <1>1, LockStickyType, SameCount
  <2>2. HandleVK_LOCK(o, c).fs[f].count = o.fs[f].count
    BY <1>3, <2>1 DEF HandleVK_LOCK
  <2>3. FireKey(o, c) = HandleVK_LOCK(o, c) /\ lazily(c, f) = 0
    BY <1>4, KeyCodesDisjoint DEF FireKey, lazily, VirtualKeys
  <2>4. QED
    BY <1>1, <2>2, <2>3
<1>5. CASE c.key \in DOMAIN VirtualSticky
  <2> DEFINE fs == sticky_toggle(o.fs, {VirtualSticky[c.key]})
  <2>1. fs \in FlagStatusItems /\ fs[f].count = o.fs[f].count
    BY <1>1, LockStickyType, SameCount
  <2>2. HandleVK_STICKY(o, c).fs[f].count = o.fs[f].count
    BY <1>3, <2>1 DEF HandleVK_STICKY
  <2>3. FireKey(o, c) = HandleVK_STICKY(o, c) /\ lazily(c, f) = 0
    BY <1>5, KeyCodesDisjoint DEF FireKey, lazily, VirtualKeys
  <2>4. QED
    BY <1>1, <2>2, <2>3
<1>6. CASE c.key \in DOMAIN VirtualLazy
  <2> DEFINE l == VirtualLazy[c.key]
  <2>1. FireKey(o, c) = HandleVK_LAZY(o, c)
    BY <1>6, KeyCodesDisjoint DEF FireKey, VirtualKeys
  <2>2. /\ increase(o.fs, {l})[f].count = o.fs[f].count + (IF f \in {l} THEN 1 ELSE 0)
        /\ decrease(o.fs, {l})[f].count = o.fs[f].count - (IF f \in {l} THEN 1 ELSE 0)
    BY <1>1, CountEffect
  <2>3. CASE c.repeat \/ c.type = "MODIFY"
    <3>1. HandleVK_LAZY(o, c) = o /\ lazily(c, f) = 0
      BY <1>2, <2>3 DEF HandleVK_LAZY, lazily
    <3>2. QED
      BY <1>1, <2>1, <3>1
  <2>4. CASE ~c.repeat /\ c.type = "DOWN"
    <3>1. HandleVK_LAZY(o, c).fs = increase(o.fs, {l})
      BY <2>4 DEF HandleVK_LAZY, SentStatics
    <3>2. QED
      BY <1>1, <1>6, <2>1, <2>2, <2>4, <3>1 DEF lazily
  <2>5. CASE ~c.repeat /\ c.type = "UP"
    <3>1. HandleVK_LAZY(o, c).fs = decrease(o.fs, {l})
      BY <2>5 DEF HandleVK_LAZY, SentStatics
    <3>2. QED
      BY <1>1, <1>6, <2>1, <2>2, <2>5, <3>1 DEF lazily
  <2>6. QED
    BY <1>2, <2>3, <2>4, <2>5
<1>7. CASE c.key \notin VirtualKeys
  <2>1. FireKey(o, c) = o \/ FireKey(o, c) = FireOutputable(o, c)
    BY <1>7 DEF FireKey, VirtualKeys
  <2>2. lazily(c, f) = 0
    BY <1>7 DEF lazily, VirtualKeys
  <2>3. QED
    BY <1>1, <2>1, <2>2, FireOutputableCount
<1>8. QED
  BY <1>4, <1>5, <1>6, <1>7 DEF VirtualKeys

LEMMA NotLazy ==
  ASSUME NEW c, c.key \notin DOMAIN VirtualLazy, NEW f
  PROVE  lazily(c, f) = 0
  BY DEF lazily

LEMMA ModifierNotLazy == \A key \in PlainKeys \cup ModifierFlags : key \notin DOMAIN VirtualLazy
  BY KeyCodesDisjoint DEF VirtualKeys

\* A key that is pressed and released leaves every count as it was.
LEMMA FireDownUpCount ==
  ASSUME NEW o \in SentStatics, NEW flags \in SUBSET ModifierFlags, NEW key \in KeyCodes,
         NEW f \in ModifierFlags, f # CAPSLOCK
  PROVE  fire_downup(o, flags, key).fs[f].count = o.fs[f].count
<1>1. CASE key \in ModifierFlags
  <2> DEFINE delta == scopeDelta(o.fs, flags)
             c(p)  == Call("MODIFY", key, makeFlags(p.fs), FALSE)
             o1 == [o EXCEPT !.fs = increase(scopeEnter(@, flags), {key})]
             o2 == FireKey(o1, c(o1))
             o3 == [o2 EXCEPT !.fs = decrease(@, {key})]
             o4 == FireKey(o3, c(o3))
             n  == IF f \in {key} THEN 1 ELSE 0
  <2>1. \A p : c(p) \in FireCall /\ lazily(c(p), f) = 0
    <3>1. ASSUME NEW p PROVE c(p) \in FireCall
      BY MakeFlagsType, CallType
    <3>2. ASSUME NEW p PROVE c(p).key = key
      BY DEF Call
    <3> HIDE DEF c
    <3>3. QED
      BY <1>1, <3>1, <3>2, NotLazy, ModifierNotLazy
  <2>2. o.fs \in FlagStatusItems /\ scopeEnter(o.fs, flags) \in FlagStatusItems
        /\ delta \in [ModifierFlags -> Int]
    BY ItemsType, ScopeType
  <2>3. o1 \in SentStatics /\ o1.fs[f].count = o.fs[f].count + n
    <3>1. increase(scopeEnter(o.fs, flags), {key}) \in FlagStatusItems
      BY <2>2, CountType
    <3>2. o1 \in SentStatics /\ o1.fs = increase(scopeEnter(o.fs, flags), {key})
      BY <3>1, NewItemsType DEF SentStatics
    <3> HIDE DEF o1
    <3>3. scopeEnter(o.fs, flags)[f].count = o.fs[f].count
      BY <2>2, TemporaryCount
    <3>4. increase(scopeEnter(o.fs, flags), {key})[f].count = scopeEnter(o.fs, flags)[f].count + n
      BY <2>2, CountEffect
    <3>5. QED
      BY <3>2, <3>3, <3>4
  <2> HIDE DEF o1, c
  <2>4. o2 \in SentStatics /\ o2.fs[f].count = o1.fs[f].count
    <3>1. o2 \in SentStatics /\ o2.fs[f].count = o1.fs[f].count + lazily(c(o1), f)
      BY <2>1, <2>3, FireKeyType, FireKeyCount
    <3>2. o1.fs[f].count \in Int
      BY <2>3, ItemsType, CountInt
    <3>3. QED
      BY <2>1, <3>1, <3>2
  <2> HIDE DEF o2
  <2>5. o3 \in SentStatics /\ o3.fs[f].count = o2.fs[f].count - n
    <3>1. o2.fs \in FlagStatusItems /\ decrease(o2.fs, {key}) \in FlagStatusItems
      BY <2>4, ItemsType, CountType
    <3>2. o3 \in SentStatics /\ o3.fs = decrease(o2.fs, {key})
      BY <2>4, <3>1, NewItemsType DEF SentStatics
    <3> HIDE DEF o3
    <3>3. decrease(o2.fs, {key})[f].count = o2.fs[f].count - n
      BY <3>1, CountEffect
    <3>4. QED
      BY <3>2, <3>3
  <2> HIDE DEF o3
  <2>6. o4 \in SentStatics /\ o4.fs[f].count = o3.fs[f].count
    <3>1. o4 \in SentStatics /\ o4.fs[f].count = o3.fs[f].count + lazily(c(o3), f)
      BY <2>1, <2>5, FireKeyType, FireKeyCount
    <3>2. o3.fs[f].count \in Int
      BY <2>5, ItemsType, CountInt
    <3>3. QED
      BY <2>1, <3>1, <3>2
  <2>7. fire_downup(o, flags, key) = [o4 EXCEPT !.fs = scopeExit(@, delta)]
    BY <1>1 DEF fire_downup, fireModifierDownUp, o1, o2, o3, c
  <2> HIDE DEF o4, delta
  <2>8. fire_downup(o, flags, key).fs = scopeExit(o4.fs, delta) /\ o4.fs \in FlagStatusItems
    BY <2>6, <2>7 DEF SentStatics
  <2>9. fire_downup(o, flags, key).fs[f].count = o4.fs[f].count
    BY <2>8, TemporaryCount
  <2>10. o.fs[f].count \in Int /\ n \in Int
    BY <2>2, CountInt
  <2> HIDE DEF n
  <2>11. QED
    BY <2>3, <2>4, <2>5, <2>6, <2>9, <2>10
<1>2. CASE key \notin ModifierFlags
  <2> DEFINE down == Call("DOWN", key, flags, FALSE)
             up == Call("UP", key, flags, FALSE)
             o1 == FireKey(o, down)
  <2>1. down \in FireCall /\ up \in FireCall
    BY CallType
  <2>2. lazily(down, f) + lazily(up, f) = 0 /\ lazily(down, f) \in Int /\ lazily(up, f) \in Int
    BY DEF Call, lazily
  <2>3. fire_downup(o, flags, key) = FireKey(o1, up)
    BY <1>2 DEF fire_downup
  <2>4. o.fs[f].count \in Int
    BY ItemsType, CountInt
  <2> HIDE DEF down, up
  <2>5. o1 \in SentStatics /\ o1.fs[f].count = o.fs[f].count + lazily(down, f)
    BY <2>1, FireKeyType, FireKeyCount
  <2> HIDE DEF o1
  <2>6. FireKey(o1, up).fs[f].count = o1.fs[f].count + lazily(up, f)
    BY <2>1, <2>5, FireKeyCount
  <2>7. QED
    BY <2>2, <2>3, <2>4, <2>5, <2>6
<1>3. QED
  BY <1>1, <1>2

-------------------------------------------------------------------------------
(***************************************************************************)
(* What a rule takes from a flag's count while it converts its from key,   *)
(* and what it puts there through its last target key.                     *)
(***************************************************************************)
drops(r, f) == one(f \in modifierOf(r.from))

adds(r, f) == one(f \in lastTarget(r).flags \cup modifierOf(lastTarget(r).key))

addsLazily(r, f) ==
  one(isKeyLikeModifier(lastTarget(r).key) /\ VirtualLazy[lastTarget(r).key] = f)

takes(r, f) == one(f \in fromFlagsOf(r))

lends(r, f) ==
  IF Len(r.to) > 0 /\ lastIsModifier(r)
  THEN adds(r, f) + addsLazily(r, f) - takes(r, f) ELSE 0

share(r, f) == lends(r, f) - drops(r, f)

LEMMA ShareInt ==
  ASSUME NEW r, NEW f
  PROVE  /\ drops(r, f) \in Int /\ adds(r, f) \in Int /\ addsLazily(r, f) \in Int
         /\ takes(r, f) \in Int /\ lends(r, f) \in Int /\ share(r, f) \in Int
<1>1. \A b : one(b) \in Int
  BY DEF one
<1>2. drops(r, f) \in Int /\ adds(r, f) \in Int /\ addsLazily(r, f) \in Int /\ takes(r, f) \in Int
  BY <1>1 DEF drops, adds, addsLazily, takes
<1>3. QED
  BY <1>2 DEF lends, share

\* One element more, or not.
LEMMA CountedElement ==
  ASSUME NEW S, IsFiniteSet(S), NEW x, x \notin S, NEW b \in BOOLEAN, NEW R,
         R = IF b THEN S \cup {x} ELSE S
  PROVE  IsFiniteSet(R) /\ Cardinality(R) = Cardinality(S) + one(b)
<1>1. Cardinality(S) \in Nat
  BY FS_CardinalityType
<1>2. CASE b
  <2>1. R = S \cup {x}
    BY <1>2
  <2>2. QED
    BY <1>2, <2>1, FS_AddElement DEF one
<1>3. CASE ~b
  BY <1>1, <1>3 DEF one
<1>4. QED
  BY <1>2, <1>3

LEMMA ContributionFinite ==
  ASSUME IInv, NEW S \in SUBSET DOMAIN rules, NEW f
  PROVE  /\ IsFiniteSet(dropping(S, f)) /\ IsFiniteSet(adding(S, f))
         /\ IsFiniteSet(addingLazily(S, f)) /\ IsFiniteSet(taking(S, f))
         /\ contribution(S, f) \in Int
<1>1. rules \in Seq(Rule)
  BY KeyRemapConstants DEF IInv, Types, TypeOK
<1>2. DOMAIN rules = 1 .. Len(rules) /\ Len(rules) \in Nat
  BY <1>1
<1>3. IsFiniteSet(DOMAIN rules)
  BY <1>2, FS_Interval
<1>4. \A R \in SUBSET DOMAIN rules : IsFiniteSet(R) /\ Cardinality(R) \in Nat
  BY <1>3, FS_Subset, FS_CardinalityType
<1>5. /\ dropping(S, f) \in SUBSET DOMAIN rules /\ adding(S, f) \in SUBSET DOMAIN rules
      /\ addingLazily(S, f) \in SUBSET DOMAIN rules /\ taking(S, f) \in SUBSET DOMAIN rules
  BY DEF dropping, adding, addingLazily, taking, holding
<1>6. QED
  BY <1>4, <1>5 DEF contribution

LEMMA NoContribution == \A f : contribution({}, f) = 0
<1>1. \A f : dropping({}, f) = {} /\ adding({}, f) = {} /\ addingLazily({}, f) = {} /\ taking({}, f) = {}
  BY DEF dropping, adding, addingLazily, taking, holding
<1>2. Cardinality({}) = 0
  BY FS_EmptySet
<1>3. QED
  BY <1>1, <1>2 DEF contribution

\* When a rule begins to convert, its share comes in.
LEMMA ContributionOfOneMore ==
  ASSUME IInv, NEW S \in SUBSET DOMAIN rules, NEW i \in DOMAIN rules \ S, NEW f
  PROVE  contribution(S \cup {i}, f) = contribution(S, f) + share(rules[i], f)
<1> DEFINE r == rules[i]
           R == S \cup {i}
           h == Len(r.to) > 0 /\ lastIsModifier(r)
           bDrop == f \in modifierOf(r.from)
           bAdd == f \in lastTarget(r).flags \cup modifierOf(lastTarget(r).key)
           bLazy == isKeyLikeModifier(lastTarget(r).key) /\ VirtualLazy[lastTarget(r).key] = f
           bTake == f \in fromFlagsOf(r)
<1>1. R \in SUBSET DOMAIN rules
  OBVIOUS
<1>2. /\ IsFiniteSet(dropping(S, f)) /\ IsFiniteSet(adding(S, f))
      /\ IsFiniteSet(addingLazily(S, f)) /\ IsFiniteSet(taking(S, f))
  BY ContributionFinite
<1>3. /\ i \notin dropping(S, f) /\ i \notin adding(S, f)
      /\ i \notin addingLazily(S, f) /\ i \notin taking(S, f)
  BY DEF dropping, adding, addingLazily, taking, holding
<1>4. dropping(R, f) = IF bDrop THEN dropping(S, f) \cup {i} ELSE dropping(S, f)
  BY DEF dropping
<1>5. adding(R, f) = IF h /\ bAdd THEN adding(S, f) \cup {i} ELSE adding(S, f)
  BY DEF adding, holding
<1>6. addingLazily(R, f) = IF h /\ bLazy THEN addingLazily(S, f) \cup {i} ELSE addingLazily(S, f)
  BY DEF addingLazily, holding
<1>7. taking(R, f) = IF h /\ bTake THEN taking(S, f) \cup {i} ELSE taking(S, f)
  BY DEF taking, holding
<1>8. bDrop \in BOOLEAN /\ (h /\ bAdd) \in BOOLEAN /\ (h /\ bLazy) \in BOOLEAN /\ (h /\ bTake) \in BOOLEAN
  OBVIOUS
<1>9. /\ drops(r, f) = one(bDrop) /\ adds(r, f) = one(bAdd)
      /\ addsLazily(r, f) = one(bLazy) /\ takes(r, f) = one(bTake)
  BY DEF drops, adds, addsLazily, takes
<1>10. lends(r, f) = one(h /\ bAdd) + one(h /\ bLazy) - one(h /\ bTake)
  <2>1. lends(r, f) = IF h THEN one(bAdd) + one(bLazy) - one(bTake) ELSE 0
    BY <1>9 DEF lends
  <2> HIDE DEF h, bAdd, bLazy, bTake
  <2>2. CASE h
    BY <2>1, <2>2 DEF one
  <2>3. CASE ~h
    BY <2>1, <2>3 DEF one
  <2>4. QED
    BY <2>2, <2>3
<1> HIDE DEF R, h, bDrop, bAdd, bLazy, bTake, r
<1>11. Cardinality(dropping(R, f)) = Cardinality(dropping(S, f)) + one(bDrop)
  BY <1>2, <1>3, <1>4, <1>8, CountedElement
<1>12. Cardinality(adding(R, f)) = Cardinality(adding(S, f)) + one(h /\ bAdd)
  BY <1>2, <1>3, <1>5, <1>8, CountedElement
<1>13. Cardinality(addingLazily(R, f)) = Cardinality(addingLazily(S, f)) + one(h /\ bLazy)
  BY <1>2, <1>3, <1>6, <1>8, CountedElement
<1>14. Cardinality(taking(R, f)) = Cardinality(taking(S, f)) + one(h /\ bTake)
  BY <1>2, <1>3, <1>7, <1>8, CountedElement
<1>15. /\ one(bDrop) \in Int /\ one(h /\ bAdd) \in Int /\ one(h /\ bLazy) \in Int /\ one(h /\ bTake) \in Int
       /\ Cardinality(dropping(S, f)) \in Int /\ Cardinality(adding(S, f)) \in Int
       /\ Cardinality(addingLazily(S, f)) \in Int /\ Cardinality(taking(S, f)) \in Int
  <2>1. \A b : one(b) \in Int
    BY DEF one
  <2>2. QED
    BY <1>2, <2>1, FS_CardinalityType
<1>16. contribution(R, f) = contribution(S, f) + share(r, f)
  BY <1>9, <1>10, <1>11, <1>12, <1>13, <1>14, <1>15 DEF contribution, share
<1>17. QED
  BY <1>16 DEF R, r

LEMMA DropCount ==
  ASSUME NEW fs \in FlagStatusItems, NEW r, NEW e, NEW f \in ModifierFlags, f # CAPSLOCK
  PROVE  dropFromKey(fs, r, e)[f].count
           = IF e.down THEN fs[f].count - drops(r, f) ELSE fs[f].count + drops(r, f)
  BY CountEffect DEF dropFromKey, drops, one

LEMMA HoldCount ==
  ASSUME NEW fs \in FlagStatusItems, NEW r, NEW f \in ModifierFlags, f # CAPSLOCK
  PROVE  /\ holdFlags(fs, r, lastTarget(r))[f].count = fs[f].count + adds(r, f) - takes(r, f)
         /\ unholdFlags(fs, r, lastTarget(r))[f].count = fs[f].count - adds(r, f) + takes(r, f)
<1> DEFINE A == lastTarget(r).flags \cup modifierOf(lastTarget(r).key)
           B == fromFlagsOf(r)
<1>1. /\ holdFlags(fs, r, lastTarget(r)) = decrease(increase(fs, A), B)
      /\ unholdFlags(fs, r, lastTarget(r)) = increase(decrease(fs, A), B)
  BY DEF holdFlags, unholdFlags
<1>2. adds(r, f) = one(f \in A) /\ takes(r, f) = one(f \in B)
  BY DEF adds, takes
<1> HIDE DEF A, B
<1>3. /\ increase(fs, A)[f].count = fs[f].count + one(f \in A)
      /\ decrease(fs, A)[f].count = fs[f].count - one(f \in A)
      /\ decrease(increase(fs, A), B)[f].count = increase(fs, A)[f].count - one(f \in B)
      /\ increase(decrease(fs, A), B)[f].count = decrease(fs, A)[f].count + one(f \in B)
  BY CountType, CountEffect DEF one
<1>4. fs[f].count \in Int /\ one(f \in A) \in Int /\ one(f \in B) \in Int
  BY CountInt DEF one
<1>5. QED
  BY <1>1, <1>2, <1>3, <1>4

LEMMA LazilyOfCall ==
  ASSUME NEW type, NEW key, NEW flags, NEW f
  PROVE  lazily(Call(type, key, flags, FALSE), f)
           = IF key \in DOMAIN VirtualLazy /\ VirtualLazy[key] = f
             THEN IF type = "DOWN" THEN 1 ELSE IF type = "UP" THEN -1 ELSE 0
             ELSE 0
<1> DEFINE c == Call(type, key, flags, FALSE)
<1>1. c.type = type /\ c.key = key /\ c.repeat = FALSE
  BY DEF Call
<1> HIDE DEF c
<1>2. lazily(c, f) = IF key \in DOMAIN VirtualLazy /\ VirtualLazy[key] = f
                     THEN IF type = "DOWN" THEN 1 ELSE IF type = "UP" THEN -1 ELSE 0
                     ELSE 0
  BY <1>1 DEF lazily
<1>3. QED
  BY <1>2 DEF c

\* The call for the last target key of a rule that holds it changes what a lazy
\* key counts, on the way down and on the way up.
LEMMA LazilyOfLast ==
  ASSUME NEW r, NEW flags, NEW f
  PROVE  /\ isKeyLikeModifier(lastTarget(r).key)
              => /\ lazily(Call("DOWN", lastTarget(r).key, flags, FALSE), f) = addsLazily(r, f)
                 /\ lazily(Call("UP", lastTarget(r).key, flags, FALSE), f) = 0 - addsLazily(r, f)
         /\ ~isKeyLikeModifier(lastTarget(r).key)
              => addsLazily(r, f) = 0
<1> DEFINE key == lastTarget(r).key
<1>1. isKeyLikeModifier(key) <=> key \in DOMAIN VirtualLazy
  BY DEF isKeyLikeModifier
<1>2. addsLazily(r, f) = one(key \in DOMAIN VirtualLazy /\ VirtualLazy[key] = f)
  BY <1>1 DEF addsLazily
<1> HIDE DEF key
<1>3. CASE key \in DOMAIN VirtualLazy
  <2> DEFINE u == lazily(Call("UP", key, flags, FALSE), f)
             d == lazily(Call("DOWN", key, flags, FALSE), f)
             n == addsLazily(r, f)
  <2>1. d = IF VirtualLazy[key] = f THEN 1 ELSE 0
    BY <1>3, LazilyOfCall
  <2>2. u = IF VirtualLazy[key] = f THEN -1 ELSE 0
    BY <1>3, LazilyOfCall
  <2>3. n = IF VirtualLazy[key] = f THEN 1 ELSE 0
    BY <1>2, <1>3 DEF one
  <2> HIDE DEF u, d, n
  <2>4. d = n /\ u = 0 - n
    BY <2>1, <2>2, <2>3
  <2>5. QED
    BY <1>1, <1>3, <2>4 DEF key, u, d, n
<1>4. CASE key \notin DOMAIN VirtualLazy
  <2>1. addsLazily(r, f) = 0
    BY <1>2, <1>4 DEF one
  <2>2. QED
    BY <1>1, <1>4, <2>1 DEF key
<1>5. QED
  BY <1>3, <1>4

\* With one target key, a press adds the rule's share and a release takes it back.
LEMMA RemapSingleCount ==
  ASSUME NEW o \in SentStatics, NEW r \in Rule, NEW e \in Event, Len(r.to) = 1,
         NEW f \in ModifierFlags, f # CAPSLOCK
  PROVE  RemapSingle(o, r, e).fs[f].count
           = IF e.down THEN o.fs[f].count + share(r, f) ELSE o.fs[f].count - share(r, f)
<1> DEFINE fs1 == dropFromKey(o.fs, r, e)
           fs2 == singleKeyFlags(fs1, r, e)
           p   == [o EXCEPT !.fs = fs2]
           c   == singleKeyCall(fs2, r, e)
           key == lastTarget(r).key
<1>1. e.down \in BOOLEAN /\ r.to[1] = lastTarget(r)
  BY DEF Event, lastTarget
<1>2. o.fs \in FlagStatusItems /\ fs1 \in FlagStatusItems /\ fs2 \in FlagStatusItems
  BY ItemsType, RuleFlagsType, SingleKeyFlagsType
<1>3. o.fs[f].count \in Int /\ fs1[f].count \in Int /\ fs2[f].count \in Int
  BY <1>2, CountInt
<1>4. fs1[f].count = IF e.down THEN o.fs[f].count - drops(r, f) ELSE o.fs[f].count + drops(r, f)
  BY <1>2, DropCount
<1>5. RemapSingle(o, r, e) = FireKey(p, c)
  BY DEF RemapSingle
<1>6. p \in SentStatics /\ p.fs = fs2
  BY <1>2, NewItemsType DEF SentStatics
<1>7. c \in FireCall
  BY SingleKeyCallType
<1>8. c = Call(eventType(key, e.down), key, makeFlags(fs2), FALSE)
  BY <1>1 DEF singleKeyCall
<1> HIDE DEF p, c, fs1, fs2
<1>9. FireKey(p, c).fs[f].count = fs2[f].count + lazily(c, f)
  BY <1>6, <1>7, FireKeyCount
<1>10. lastIsModifier(r) <=> key \in ModifierFlags \/ isKeyLikeModifier(key)
  BY DEF lastIsModifier, lastTarget
<1>11. CASE ~lastIsModifier(r)
  <2>1. fs2[f].count = fs1[f].count
    <3>1. fs2 = temporary_increase(temporary_decrease(fs1, fromFlagsOf(r)), r.to[1].flags)
      BY <1>11 DEF singleKeyFlags, fs2
    <3>2. temporary_decrease(fs1, fromFlagsOf(r)) \in FlagStatusItems
      BY <1>2, TemporaryType
    <3>3. QED
      BY <1>2, <3>1, <3>2, TemporaryCount
  <2>2. lazily(c, f) = 0
    <3>1. c.key = key
      BY <1>8 DEF Call
    <3>2. QED
      BY <1>10, <1>11, <3>1, NotLazy DEF isKeyLikeModifier
  <2>3. lends(r, f) = 0 /\ drops(r, f) \in Int
    BY <1>11, ShareInt DEF lends
  <2>4. QED
    BY <1>3, <1>4, <1>5, <1>9, <2>1, <2>2, <2>3 DEF share
<1>12. CASE lastIsModifier(r)
  <2>1. fs2[f].count = IF e.down THEN fs1[f].count + adds(r, f) - takes(r, f)
                       ELSE fs1[f].count - adds(r, f) + takes(r, f)
    <3>1. fs2 = IF e.down THEN holdFlags(fs1, r, lastTarget(r)) ELSE unholdFlags(fs1, r, lastTarget(r))
      BY <1>1, <1>12 DEF singleKeyFlags, fs2
    <3>2. QED
      BY <1>2, <3>1, HoldCount
  <2>2. lazily(c, f) = IF e.down THEN addsLazily(r, f) ELSE 0 - addsLazily(r, f)
    <3>1. CASE isKeyLikeModifier(key)
      <4>1. key \notin ModifierFlags
        BY <3>1, ModifierNotLazy DEF isKeyLikeModifier
      <4>2. eventType(key, e.down) = IF e.down THEN "DOWN" ELSE "UP"
        BY <4>1 DEF eventType
      <4>3. QED
        BY <1>8, <3>1, <4>2, LazilyOfLast
    <3>2. CASE ~isKeyLikeModifier(key)
      <4>1. c.key = key
        BY <1>8 DEF Call
      <4>2. lazily(c, f) = 0 /\ addsLazily(r, f) = 0
        BY <3>2, <4>1, NotLazy, LazilyOfLast DEF isKeyLikeModifier
      <4>3. QED
        BY <4>2
    <3>3. QED
      BY <3>1, <3>2
  <2>3. lends(r, f) = adds(r, f) + addsLazily(r, f) - takes(r, f)
    BY <1>12 DEF lends
  <2>4. QED
    BY <1>1, <1>3, <1>4, <1>5, <1>9, <2>1, <2>2, <2>3, ShareInt DEF share
<1>13. QED
  BY <1>11, <1>12

\* A new item_ array in the statics.
LEMMA NewItemsEffect ==
  ASSUME NEW o \in SentStatics, NEW fs \in FlagStatusItems
  PROVE  [o EXCEPT !.fs = fs] \in SentStatics /\ [o EXCEPT !.fs = fs].fs = fs
  BY NewItemsType DEF SentStatics

\* With several target keys, a release takes the share back,
LEMMA RemapKeysUpCount ==
  ASSUME NEW o \in SentStatics, NEW r \in Rule, NEW e, ~e.down, Len(r.to) > 0,
         NEW f \in ModifierFlags, f # CAPSLOCK
  PROVE  RemapKeysUp(o, r, e).fs[f].count = o.fs[f].count - share(r, f)
<1> DEFINE fs1 == dropFromKey(o.fs, r, e)
           key == lastTarget(r).key
           o1  == [o EXCEPT !.fs = fs1]
           c   == Call("UP", key, makeFlags(o1.fs), FALSE)
           o2  == IF isKeyLikeModifier(key) THEN FireKey(o1, c) ELSE o1
           fs3 == unholdFlags(o2.fs, r, lastTarget(r))
           o3  == [o2 EXCEPT !.fs = fs3]
<1>1. o.fs \in FlagStatusItems /\ fs1 \in FlagStatusItems /\ o.fs[f].count \in Int
  BY ItemsType, RuleFlagsType, CountInt
<1>2. o1 \in SentStatics /\ o1.fs = fs1
  BY <1>1, NewItemsEffect
<1>3. fs1[f].count = o.fs[f].count + drops(r, f)
  BY <1>1, DropCount
<1>4. key \in KeyCodes
  BY LastTargetType DEF lastTarget, Target
<1>5. RemapKeysUp(o, r, e) = IF lastIsModifier(r) THEN FireModifiers(o3, makeFlags(o3.fs)) ELSE o1
  BY DEF RemapKeysUp, lastTarget
<1> HIDE DEF fs1, o1
<1>6. CASE ~lastIsModifier(r)
  <2>1. lends(r, f) = 0
    BY <1>6 DEF lends
  <2>2. QED
    BY <1>1, <1>2, <1>3, <1>5, <1>6, <2>1, ShareInt DEF share
<1>7. CASE lastIsModifier(r)
  <2>1. o2 \in SentStatics /\ o2.fs[f].count = fs1[f].count - addsLazily(r, f)
    <3>1. fs1[f].count \in Int
      BY <1>2, ItemsType, CountInt
    <3>2. CASE isKeyLikeModifier(key)
      <4>1. c \in FireCall
        BY <1>4, MakeFlagsType, CallType
      <4>2. lazily(c, f) = 0 - addsLazily(r, f)
        BY <3>2, LazilyOfLast
      <4> HIDE DEF c
      <4>3. FireKey(o1, c) \in SentStatics
            /\ FireKey(o1, c).fs[f].count = o1.fs[f].count + lazily(c, f)
        BY <1>2, <4>1, FireKeyType, FireKeyCount
      <4>4. QED
        BY <1>2, <3>1, <3>2, <4>2, <4>3, ShareInt
    <3>3. CASE ~isKeyLikeModifier(key)
      <4>1. addsLazily(r, f) = 0
        BY <3>3, LazilyOfLast
      <4>2. QED
        BY <1>2, <3>1, <3>3, <4>1
    <3>4. QED
      BY <3>2, <3>3
  <2> HIDE DEF o2
  <2>2. o2.fs \in FlagStatusItems /\ fs3 \in FlagStatusItems
    BY <2>1, ItemsType, RuleFlagsType
  <2>3. fs3[f].count = o2.fs[f].count - adds(r, f) + takes(r, f)
    BY <2>2, HoldCount
  <2>4. o3 \in SentStatics /\ o3.fs = fs3
    BY <2>1, <2>2, NewItemsEffect
  <2> HIDE DEF o3
  <2>5. FireModifiers(o3, makeFlags(o3.fs)).fs = fs3
    BY <2>4, MakeFlagsType, FireModifiersEffect
  <2>6. lends(r, f) = adds(r, f) + addsLazily(r, f) - takes(r, f)
    BY <1>7 DEF lends
  <2> HIDE DEF fs3
  <2>7. RemapKeysUp(o, r, e).fs[f].count = fs3[f].count
    BY <1>5, <1>7, <2>5
  <2>8. o2.fs[f].count = o.fs[f].count + drops(r, f) - addsLazily(r, f)
    BY <1>1, <1>3, <2>1, ShareInt
  <2>9. fs3[f].count = o.fs[f].count + drops(r, f) - addsLazily(r, f) - adds(r, f) + takes(r, f)
    BY <1>1, <2>3, <2>8, ShareInt
  <2>10. share(r, f) = adds(r, f) + addsLazily(r, f) - takes(r, f) - drops(r, f)
    BY <2>6, ShareInt DEF share
  <2>11. QED
    BY <1>1, <2>7, <2>9, <2>10, ShareInt
<1>8. QED
  BY <1>6, <1>7

\* a press takes the from key's own flag off before the loop over the targets,
LEMMA RemapKeysDownCount ==
  ASSUME NEW o \in SentStatics, NEW r, NEW e, e.down, NEW f \in ModifierFlags, f # CAPSLOCK
  PROVE  RemapKeysDown(o, r, e).fs[f].count = o.fs[f].count - drops(r, f)
<1> DEFINE fs1 == dropFromKey(o.fs, r, e)
           fs2 == temporary_decrease(fs1, fromFlagsOf(r))
<1>1. o.fs \in FlagStatusItems /\ fs1 \in FlagStatusItems /\ fs2 \in FlagStatusItems
  BY ItemsType, RuleFlagsType, TemporaryType
<1>2. fs1[f].count = o.fs[f].count - drops(r, f) /\ fs2[f].count = fs1[f].count
  BY <1>1, DropCount, TemporaryCount
<1>3. RemapKeysDown(o, r, e) = [o EXCEPT !.fs = fs2]
  BY DEF RemapKeysDown
<1> HIDE DEF fs1, fs2
<1>4. QED
  BY <1>1, <1>2, <1>3, NewItemsEffect

\* each turn of the loop leaves the counts as they were,
LEMMA FireTargetCount ==
  ASSUME NEW o \in SentStatics, NEW to \in Target, NEW f \in ModifierFlags, f # CAPSLOCK
  PROVE  fireTarget(o, to).fs[f].count = o.fs[f].count
<1> DEFINE fs1 == temporary_increase(o.fs, to.flags)
           o1  == [o EXCEPT !.fs = fs1]
           o2  == fire_downup(o1, makeFlags(o1.fs), to.key)
           fs3 == temporary_decrease(o2.fs, to.flags)
<1>1. o.fs \in FlagStatusItems /\ fs1 \in FlagStatusItems /\ fs1[f].count = o.fs[f].count
  BY ItemsType, TemporaryType, TemporaryCount
<1>2. fireTarget(o, to) = [o2 EXCEPT !.fs = fs3]
  BY DEF fireTarget
<1>3. o1 \in SentStatics /\ o1.fs = fs1
  BY <1>1, NewItemsEffect
<1> HIDE DEF fs1, o1
<1>4. o2 \in SentStatics /\ o2.fs[f].count = o1.fs[f].count
  BY <1>3, MakeFlagsType, FireDownUpKeeps, SentStaticsClosed, FireDownUpCount DEF Target
<1> HIDE DEF o2
<1>5. o2.fs \in FlagStatusItems /\ fs3 \in FlagStatusItems /\ fs3[f].count = o2.fs[f].count
  BY <1>4, ItemsType, TemporaryType, TemporaryCount
<1> HIDE DEF fs3
<1>6. QED
  BY <1>1, <1>2, <1>3, <1>4, <1>5, NewItemsEffect

\* and after the loop the last target key is held.
LEMMA HoldLastCount ==
  ASSUME NEW o \in SentStatics, NEW r \in Rule, Len(r.to) > 0, lastIsModifier(r),
         NEW f \in ModifierFlags, f # CAPSLOCK
  PROVE  holdLast(o, r).fs[f].count = o.fs[f].count + lends(r, f)
<1> DEFINE fs1 == temporary_increase(o.fs, fromFlagsOf(r))
           fs2 == holdFlags(fs1, r, lastTarget(r))
           key == lastTarget(r).key
           o1  == [o EXCEPT !.fs = fs2]
           c   == Call("DOWN", key, makeFlags(o1.fs), FALSE)
<1>1. o.fs \in FlagStatusItems /\ fs1 \in FlagStatusItems /\ fs1[f].count = o.fs[f].count
  BY ItemsType, TemporaryType, TemporaryCount
<1>2. fs2 \in FlagStatusItems /\ fs2[f].count = fs1[f].count + adds(r, f) - takes(r, f)
  BY <1>1, RuleFlagsType, HoldCount
<1>3. holdLast(o, r) = IF isKeyLikeModifier(key) THEN FireKey(o1, c)
                       ELSE FireModifiers(o1, makeFlags(o1.fs))
  BY DEF holdLast, lastTarget
<1>4. o1 \in SentStatics /\ o1.fs = fs2
  BY <1>2, NewItemsEffect
<1>5. key \in KeyCodes
  BY LastTargetType DEF lastTarget, Target
<1>6. lends(r, f) = adds(r, f) + addsLazily(r, f) - takes(r, f)
  BY DEF lends
<1>7. o.fs[f].count \in Int
  BY <1>1, CountInt
<1> HIDE DEF fs1, fs2, o1
<1>8. CASE isKeyLikeModifier(key)
  <2>1. c \in FireCall
    BY <1>5, MakeFlagsType, CallType
  <2>2. lazily(c, f) = addsLazily(r, f)
    BY <1>8, LazilyOfLast
  <2> HIDE DEF c
  <2>3. FireKey(o1, c).fs[f].count = o1.fs[f].count + lazily(c, f)
    BY <1>4, <2>1, FireKeyCount
  <2>4. QED
    BY <1>1, <1>2, <1>3, <1>4, <1>6, <1>7, <1>8, <2>2, <2>3, ShareInt
<1>9. CASE ~isKeyLikeModifier(key)
  <2>1. FireModifiers(o1, makeFlags(o1.fs)).fs = o1.fs
    BY <1>4, MakeFlagsType, FireModifiersEffect
  <2>2. addsLazily(r, f) = 0
    BY <1>9, LazilyOfLast
  <2>3. QED
    BY <1>1, <1>2, <1>3, <1>4, <1>6, <1>7, <1>9, <2>1, <2>2, ShareInt
<1>10. QED
  BY <1>8, <1>9

-------------------------------------------------------------------------------
(***************************************************************************)
(* KeyboardRepeat.  A single key that repeats is alone and is pressed;     *)
(* keys that repeat together are those of a rule with several targets,     *)
(* which are put down while its loop runs and started at its end.          *)
(***************************************************************************)
ItemsPressed(p, pressed) ==
  \A j \in DOMAIN p.items :
    p.items[j].type = "NORMAL" =>
      Len(p.items) = 1 /\ (p.items[j].key \in OutputKeys => pressed[p.items[j].key] > 0)

OwnerConverts(p, act) ==
  /\ p.owner # 0 => Len(rules[p.owner].to) > 1 /\ ~lastIsModifier(rules[p.owner])
  /\ p.armed /\ p.items # << >> =>
       IF p.owner = 0 THEN p.items[1].type = "NORMAL" ELSE act[p.owner]

RepeatInv ==
  /\ ItemsPressed(rep, out.pressed)
  /\ OwnerConverts(rep, active)
  /\ loop.kind = "keys" => ~rep.armed /\ \A j \in DOMAIN rep.items : rep.items[j].type # "NORMAL"

LEMMA CancelKeeps ==
  ASSUME NEW rs, NEW p \in RepeatState(rs)
  PROVE  /\ repeatCancel(p).items = << >> /\ ~repeatCancel(p).armed
         /\ \A pressed : ItemsPressed(repeatCancel(p), pressed)
         /\ \A act, act2 : OwnerConverts(p, act) => OwnerConverts(repeatCancel(p), act2)
<1>1. /\ repeatCancel(p).items = << >> /\ repeatCancel(p).armed = FALSE
      /\ repeatCancel(p).owner = p.owner
  BY DEF repeatCancel, RepeatState
<1>2. DOMAIN << >> = {}
  OBVIOUS
<1>3. QED
  BY <1>1, <1>2 DEF ItemsPressed, OwnerConverts

\* What FireKey::fire does to the list of pressed keys.
LEMMA FireKeyPressed ==
  ASSUME NEW o \in SentStatics, NEW c \in FireCall
  PROVE  FireKey(o, c).pressed
           = IF c.key \in OutputKeys /\ ~c.repeat /\ c.type = "DOWN" THEN add(o.pressed, c.key)
             ELSE IF c.key \in OutputKeys /\ ~c.repeat /\ c.type = "UP" THEN remove(o.pressed, c.key)
             ELSE o.pressed
<1>1. c.key \in KeyCodes /\ c.type \in {"DOWN", "UP", "MODIFY"} /\ c.repeat \in BOOLEAN
      /\ c.flags \in SUBSET ModifierFlags
  BY DEF FireCall
<1>2. ASSUME NEW fs
      PROVE  LET p == [o EXCEPT !.fs = fs] IN p.pressed = o.pressed
                /\ FireModifiers(p, makeFlags(p.fs)).pressed = o.pressed
  BY DEF FireModifiers, SentStatics
<1>3. CASE c.key \in VirtualKeys
  <2>1. c.key \notin OutputKeys
    BY <1>3, KeyCodesDisjoint DEF OutputKeys
  <2>2. /\ HandleVK_LOCK(o, c).pressed = o.pressed
        /\ HandleVK_STICKY(o, c).pressed = o.pressed
        /\ HandleVK_LAZY(o, c).pressed = o.pressed
    <3>1. HandleVK_LOCK(o, c).pressed = o.pressed
      BY <1>2 DEF HandleVK_LOCK
    <3>2. HandleVK_STICKY(o, c).pressed = o.pressed
      BY <1>2 DEF HandleVK_STICKY
    <3>3. HandleVK_LAZY(o, c).pressed = o.pressed
      BY <1>1, <1>2 DEF HandleVK_LAZY
    <3>4. QED
      BY <3>1, <3>2, <3>3
  <2>3. FireKey(o, c) \in {HandleVK_LOCK(o, c), HandleVK_STICKY(o, c), HandleVK_LAZY(o, c)}
    BY <1>3, KeyCodesDisjoint DEF FireKey, VirtualKeys
  <2>4. QED
    BY <2>1, <2>2, <2>3
<1>4. CASE c.key \in ExtraFlags \cup {VK_NONE}
  <2>1. c.key \notin VirtualKeys /\ c.key \notin OutputKeys
    BY <1>4, KeyCodesDisjoint DEF OutputKeys
  <2>2. FireKey(o, c) = o
    BY <1>4, <2>1 DEF FireKey, VirtualKeys
  <2>3. QED
    BY <2>1, <2>2
<1>5. CASE c.key \notin VirtualKeys /\ c.key \notin ExtraFlags \cup {VK_NONE}
  <2> DEFINE newflags == c.flags \ ExtraFlags
             e  == [type |-> c.type, key |-> c.key, flags |-> newflags]
             o1 == FireModifiers(o, newflags)
             o2 == push(o1, e)
  <2>1. FireKey(o, c) = FireOutputable(o, c) /\ c.key \in OutputKeys
    BY <1>1, <1>5 DEF FireKey, VirtualKeys, KeyCodes, OutputKeys
  <2>2. o1.pressed = o.pressed /\ o1 \in SentStatics
    BY <1>1, FireModifiersType, FireModifiersEffect
  <2> HIDE DEF o1
  <2>3. o2.pressed = o.pressed /\ DOMAIN o2 = {"fs", "last", "q", "pressed"}
    BY <2>2 DEF push, SentStatics
  <2>4. FireOutputable(o, c) = CASE c.type = "MODIFY" -> o1
          [] c.type = "DOWN" -> IF c.repeat THEN o2 ELSE [o2 EXCEPT !.pressed = add(@, c.key)]
          [] c.type = "UP" -> IF c.repeat THEN o2 ELSE [o2 EXCEPT !.pressed = remove(@, c.key)]
    BY DEF FireOutputable, o1
  <2> HIDE DEF o2
  <2>5. QED
    BY <1>1, <2>1, <2>2, <2>3, <2>4
<1>6. QED
  BY <1>3, <1>4, <1>5

\* KeyboardRepeat::set and FireKey::fire with the same event stay in step.
LEMMA RepeatFollows ==
  ASSUME NEW rs, NEW p \in RepeatState(rs), NEW o \in SentStatics, NEW c \in FireCall, ~c.repeat,
         ItemsPressed(p, o.pressed), NEW act, OwnerConverts(p, act)
  PROVE  /\ ItemsPressed(repeatSet(p, c), FireKey(o, c).pressed)
         /\ OwnerConverts(repeatSet(p, c), act)
<1>1. /\ c.type \in {"DOWN", "UP", "MODIFY"} /\ p.items \in Seq(RepeatItem)
      /\ o.pressed \in [OutputKeys -> Nat]
  BY DEF FireCall, RepeatState, SentStatics
<1>2. VK_NONE \notin OutputKeys
  BY KeyCodesDisjoint DEF OutputKeys
<1>3. CASE c.key = VK_NONE
  <2>1. repeatSet(p, c) = p /\ FireKey(o, c).pressed = o.pressed
    BY <1>2, <1>3, FireKeyPressed DEF repeatSet
  <2>2. QED
    BY <2>1
<1>4. CASE c.key # VK_NONE /\ c.type = "MODIFY"
  <2>1. repeatSet(p, c) = repeatCancel(p)
    BY <1>4 DEF repeatSet
  <2>2. QED
    BY <2>1, CancelKeeps
<1>5. CASE c.key # VK_NONE /\ c.type = "DOWN"
  <2> DEFINE q == [items |-> << [type |-> "NORMAL", key |-> c.key, flags |-> c.flags] >>,
                   armed |-> TRUE, owner |-> 0]
  <2>1. repeatSet(p, c) = q
    BY <1>5 DEF repeatSet
  <2>2. /\ DOMAIN q.items = {1} /\ Len(q.items) = 1
        /\ q.items[1].type = "NORMAL" /\ q.items[1].key = c.key /\ q.owner = 0
    OBVIOUS
  <2> HIDE DEF q
  <2>3. ASSUME c.key \in OutputKeys PROVE FireKey(o, c).pressed[c.key] > 0
    <3>1. FireKey(o, c).pressed = add(o.pressed, c.key)
      BY <1>5, <2>3, FireKeyPressed
    <3>2. add(o.pressed, c.key)[c.key] = o.pressed[c.key] + 1 /\ o.pressed[c.key] \in Nat
      BY <1>1, <2>3 DEF add
    <3>3. QED
      BY <3>1, <3>2
  <2>4. QED
    BY <2>1, <2>2, <2>3 DEF ItemsPressed, OwnerConverts
<1>6. CASE c.key # VK_NONE /\ c.type = "UP"
  <2>1. CASE Len(p.items) = 1 /\ p.items[1].key = c.key
    <3>1. repeatSet(p, c) = repeatCancel(p)
      BY <1>6, <2>1 DEF repeatSet
    <3>2. QED
      BY <3>1, CancelKeeps
  <2>2. CASE ~(Len(p.items) = 1 /\ p.items[1].key = c.key)
    <3>1. repeatSet(p, c) = p
      BY <1>6, <2>2 DEF repeatSet
    <3>2. ASSUME NEW k \in OutputKeys, k # c.key PROVE FireKey(o, c).pressed[k] = o.pressed[k]
      BY <1>1, <1>6, <3>2, FireKeyPressed DEF remove
    <3>3. ASSUME NEW j \in DOMAIN p.items, p.items[j].type = "NORMAL"
          PROVE  /\ Len(p.items) = 1
                 /\ p.items[j].key \in OutputKeys => FireKey(o, c).pressed[p.items[j].key] > 0
      <4>1. Len(p.items) = 1 /\ (p.items[j].key \in OutputKeys => o.pressed[p.items[j].key] > 0)
        BY <3>3 DEF ItemsPressed
      <4>2. j = 1 /\ p.items[j].key # c.key
        BY <1>1, <2>2, <4>1
      <4>3. QED
        BY <3>2, <4>1, <4>2
    <3>4. QED
      BY <3>1, <3>3 DEF ItemsPressed
  <2>3. QED
    BY <2>1, <2>2
<1>7. QED
  BY <1>1, <1>3, <1>4, <1>5, <1>6

\* The end of the callback: either nothing is lost, or all is forgotten.
LEMMA FinishEventRepeats ==
  ASSUME IInv, NEW o, NEW p \in RepeatState(rules), NEW h, FinishEvent(o, p, h), loop' = idle,
         ItemsPressed(p, o.pressed), OwnerConverts(p, active')
  PROVE  RepeatInv'
<1>1. rules' = rules /\ loop'.kind # "keys"
  BY DEF FinishEvent, idle
<1>2. CASE h <= 0
  <2>1. rep' = repeatCancel(p)
    BY <1>2 DEF FinishEvent
  <2>2. ItemsPressed(rep', out'.pressed) /\ OwnerConverts(rep', active')
    BY <2>1, CancelKeeps
  <2>3. QED
    BY <1>1, <2>2 DEF RepeatInv, OwnerConverts, ItemsPressed
<1>3. CASE ~(h <= 0)
  <2>1. rep' = p /\ out' = o
    BY <1>3 DEF FinishEvent, output
  <2>2. QED
    BY <1>1, <2>1 DEF RepeatInv, OwnerConverts, ItemsPressed
<1>4. QED
  BY <1>2, <1>3

\* What KeyToKey presses.
LEMMA RemapKeysUpPressed ==
  ASSUME NEW o \in SentStatics, NEW r \in Rule, NEW e, Len(r.to) > 0
  PROVE  RemapKeysUp(o, r, e).pressed = o.pressed
<1> DEFINE fs1 == dropFromKey(o.fs, r, e)
           key == lastTarget(r).key
           o1  == [o EXCEPT !.fs = fs1]
           c   == Call("UP", key, makeFlags(o1.fs), FALSE)
           o2  == IF isKeyLikeModifier(key) THEN FireKey(o1, c) ELSE o1
           fs3 == unholdFlags(o2.fs, r, lastTarget(r))
           o3  == [o2 EXCEPT !.fs = fs3]
<1>1. fs1 \in FlagStatusItems
  BY ItemsType, RuleFlagsType
<1>2. o1 \in SentStatics /\ o1.pressed = o.pressed
  BY <1>1, NewItemsEffect DEF SentStatics
<1>3. key \in KeyCodes
  BY LastTargetType DEF lastTarget, Target
<1>4. RemapKeysUp(o, r, e) = IF lastIsModifier(r) THEN FireModifiers(o3, makeFlags(o3.fs)) ELSE o1
  BY DEF RemapKeysUp, lastTarget
<1> HIDE DEF fs1, o1
<1>5. o2 \in SentStatics /\ o2.pressed = o.pressed
  <2>1. CASE isKeyLikeModifier(key)
    <3>1. c \in FireCall /\ c.key = key
      BY <1>3, MakeFlagsType, CallType DEF Call
    <3>2. key \notin OutputKeys
      BY <2>1, KeyCodesDisjoint DEF isKeyLikeModifier, OutputKeys, VirtualKeys
    <3> HIDE DEF c
    <3>3. QED
      BY <1>2, <2>1, <3>1, <3>2, FireKeyType, FireKeyPressed
  <2>2. CASE ~isKeyLikeModifier(key)
    BY <1>2, <2>2
  <2>3. QED
    BY <2>1, <2>2
<1> HIDE DEF o2
<1>6. o3 \in SentStatics /\ o3.pressed = o.pressed
  <2>1. fs3 \in FlagStatusItems
    BY <1>5, ItemsType, RuleFlagsType
  <2> HIDE DEF fs3
  <2>2. QED
    BY <1>5, <2>1, NewItemsEffect DEF SentStatics
<1> HIDE DEF o3
<1>7. FireModifiers(o3, makeFlags(o3.fs)).pressed = o.pressed
  BY <1>6, MakeFlagsType, FireModifiersEffect
<1>8. QED
  BY <1>2, <1>4, <1>7

LEMMA PassThroughRepeats ==
  ASSUME IInv, RepeatInv, PassThrough
  PROVE  RepeatInv'
<1> DEFINE o == [out EXCEPT !.fs = fsOfEvent]
           c == Call(eventType(event.key, event.down), event.key, makeFlags(fsOfEvent), FALSE)
           h == heldAfter(held, event)
<1>1. inq # << >>
  BY DEF PassThrough, InputReady
<1>2. o \in SentStatics /\ o.pressed = out.pressed
  BY <1>1, EventType DEF IInv, Types, SentStatics
<1>3. c \in FireCall /\ ~c.repeat
  <2>1. c \in FireCall
    BY <1>1, EventType, EventTypeType, MakeFlagsType, CallType
  <2>2. QED
    BY <2>1 DEF Call
<1>4. FinishEvent(FireKey(o, c), repeatSet(rep, c), h) /\ active' = active /\ loop' = idle
  BY DEF PassThrough, InputReady
<1> HIDE DEF o, c, h
<1>5. rep \in RepeatState(rules)
  BY DEF IInv, Types, TypeOK
<1>6. ItemsPressed(rep, o.pressed) /\ OwnerConverts(rep, active)
  BY <1>2 DEF RepeatInv
<1>7. /\ ItemsPressed(repeatSet(rep, c), FireKey(o, c).pressed)
      /\ OwnerConverts(repeatSet(rep, c), active')
  BY <1>2, <1>3, <1>4, <1>5, <1>6, RepeatFollows
<1>8. repeatSet(rep, c) \in RepeatState(rules)
  BY <1>3, <1>5, RepeatType
<1>9. QED
  BY <1>4, <1>7, <1>8, FinishEventRepeats

LEMMA RemapRepeats ==
  ASSUME IInv, RepeatInv, NEW i \in DOMAIN rules, Remap(i)
  PROVE  RepeatInv'
<1> DEFINE o == [out EXCEPT !.fs = fsOfEvent]
           r == rules[i]
           h == heldAfter(held, event)
<1>1. inq # << >>
  BY DEF Remap, InputReady
<1>2. event \in Event /\ o \in SentStatics /\ o.pressed = out.pressed
  BY <1>1, EventType DEF IInv, Types, SentStatics
<1>3. r \in Rule /\ Len(r.to) \in Nat
  BY RuleType DEF IInv, Types, TypeOK, Rule
<1>4. rep \in RepeatState(rules) /\ active \in [DOMAIN rules -> BOOLEAN]
  BY DEF IInv, Types, TypeOK
<1>5. active' = [active EXCEPT ![i] = event.down] /\ loop' = idle
  BY DEF Remap
<1>6. \/ Len(r.to) = 0 /\ FinishEvent([o EXCEPT !.fs = dropFromKey(@, r, event)], rep, h)
      \/ Len(r.to) = 1 /\ FinishEvent(RemapSingle(o, r, event), RepeatSingle(rep, o, r, event), h)
      \/ Len(r.to) > 1 /\ FinishEvent(RemapKeysUp(o, r, event), RepeatKeysUp(rep, r, i), h)
  BY RemapCases
<1>7. ItemsPressed(rep, o.pressed) /\ OwnerConverts(rep, active)
  BY <1>2 DEF RepeatInv
<1>8. ASSUME Len(r.to) <= 1 PROVE OwnerConverts(rep, active')
  BY <1>3, <1>4, <1>5, <1>7, <1>8 DEF OwnerConverts, RepeatState
<1>9. CASE Len(r.to) = 0 /\ FinishEvent([o EXCEPT !.fs = dropFromKey(@, r, event)], rep, h)
  <2> DEFINE p == [o EXCEPT !.fs = dropFromKey(@, r, event)]
  <2>1. p.pressed = o.pressed
    BY <1>2 DEF SentStatics
  <2>2. FinishEvent(p, rep, h)
    BY <1>9
  <2> HIDE DEF p
  <2>3. ItemsPressed(rep, p.pressed)
    BY <1>7, <2>1
  <2>4. OwnerConverts(rep, active')
    BY <1>8, <1>9
  <2>5. QED
    BY <1>4, <1>5, <2>2, <2>3, <2>4, FinishEventRepeats
<1>10. CASE Len(r.to) = 1
            /\ FinishEvent(RemapSingle(o, r, event), RepeatSingle(rep, o, r, event), h)
  <2> DEFINE fs == singleKeyFlags(dropFromKey(o.fs, r, event), r, event)
             c  == singleKeyCall(fs, r, event)
             p  == [o EXCEPT !.fs = fs]
             q  == RepeatSingle(rep, o, r, event)
  <2>1. fs \in FlagStatusItems
    BY <1>2, ItemsType, RuleFlagsType, SingleKeyFlagsType
  <2>2. /\ RemapSingle(o, r, event) = FireKey(p, c)
        /\ q = IF event.down /\ ~r.repeat THEN repeatCancel(rep) ELSE repeatSet(rep, c)
    BY DEF RemapSingle, RepeatSingle
  <2>3. c \in FireCall /\ ~c.repeat
    <3>1. c \in FireCall
      BY <1>3, <1>10, SingleKeyCallType
    <3>2. QED
      BY <3>1 DEF singleKeyCall, Call
  <2>4. q \in RepeatState(rules)
    BY <1>3, <1>4, <1>10, RepeatSingleType
  <2>5. FinishEvent(FireKey(p, c), q, h)
    BY <1>10, <2>2
  <2> HIDE DEF fs, c, q
  <2>6. p \in SentStatics /\ p.pressed = o.pressed
    BY <1>2, <2>1, NewItemsEffect DEF SentStatics
  <2> HIDE DEF p
  <2>7. OwnerConverts(rep, active') /\ ItemsPressed(rep, p.pressed)
    BY <1>7, <1>8, <1>10, <2>6
  <2>8. ItemsPressed(q, FireKey(p, c).pressed) /\ OwnerConverts(q, active')
    <3>1. CASE q = repeatCancel(rep)
      BY <1>4, <2>7, <3>1, CancelKeeps
    <3>2. CASE q = repeatSet(rep, c)
      BY <1>4, <2>3, <2>6, <2>7, <3>2, RepeatFollows
    <3>3. QED
      BY <2>2, <3>1, <3>2
  <2>9. QED
    BY <1>5, <2>4, <2>5, <2>8, FinishEventRepeats
<1>11. CASE Len(r.to) > 1
            /\ FinishEvent(RemapKeysUp(o, r, event), RepeatKeysUp(rep, r, i), h)
  <2> DEFINE p == RemapKeysUp(o, r, event)
             q == RepeatKeysUp(rep, r, i)
  <2>1. p.pressed = o.pressed
    <3>1. Len(r.to) > 0
      BY <1>3, <1>11
    <3> HIDE DEF r
    <3>2. QED
      BY <1>2, <1>3, <3>1, RemapKeysUpPressed
  <2>2. FinishEvent(p, q, h)
    BY <1>11
  <2>3. q \in RepeatState(rules)
    BY <1>4, RepeatCancelType DEF RepeatKeysUp
  <2>4. OwnerConverts(q, active') /\ ItemsPressed(q, o.pressed)
    <3>1. CASE q = repeatCancel(rep)
      BY <1>4, <1>7, <3>1, CancelKeeps
    <3>2. CASE q = rep /\ rep.owner # i
      BY <1>4, <1>5, <1>7, <3>2 DEF OwnerConverts, RepeatState
    <3>3. q = repeatCancel(rep) \/ (q = rep /\ rep.owner # i)
      <4>1. rules \in Seq(Rule)
        BY KeyRemapConstants DEF IInv, Types, TypeOK
      <4>2. i # 0
        BY <4>1
      <4>3. q = IF ~lastIsModifier(r) /\ rep.owner = i THEN repeatCancel(rep) ELSE rep
        BY DEF RepeatKeysUp
      <4>4. rep.owner = i => ~lastIsModifier(r)
        BY <1>7, <4>2 DEF OwnerConverts
      <4>5. QED
        BY <4>3, <4>4
    <3>4. QED
      BY <3>1, <3>2, <3>3
  <2> HIDE DEF p, q
  <2>5. QED
    BY <1>5, <2>1, <2>2, <2>3, <2>4, FinishEventRepeats
<1>12. QED
  BY <1>6, <1>9, <1>10, <1>11

LEMMA KeysEndRepeats ==
  ASSUME IInv, RepeatInv, LoopOfPress, KeysEnd
  PROVE  RepeatInv'
<1> DEFINE r == rules[loop.rule]
           p == IF r.repeat THEN primitive_start(rep, loop.rule) ELSE rep
<1>1. rep \in RepeatState(rules) /\ loop.rule \in DOMAIN rules /\ Len(r.to) > 1
  BY LoopRuleType DEF KeysEnd, IInv, Types, TypeOK
<1>2. loop' = idle /\ active' = active /\ active[loop.rule]
  BY DEF KeysEnd, LoopOfPress
<1>3. /\ ItemsPressed(rep, out.pressed) /\ OwnerConverts(rep, active)
      /\ ~rep.armed /\ \A j \in DOMAIN rep.items : rep.items[j].type # "NORMAL"
  BY DEF RepeatInv, KeysEnd
<1>4. CASE lastIsModifier(r)
  <2> DEFINE o == holdLast(out, r)
  <2>1. FinishEvent(o, repeatCancel(rep), held)
    BY <1>4 DEF KeysEnd
  <2> HIDE DEF o, r
  <2>2. ItemsPressed(repeatCancel(rep), o.pressed) /\ OwnerConverts(repeatCancel(rep), active')
    BY <1>1, <1>3, CancelKeeps
  <2>3. repeatCancel(rep) \in RepeatState(rules)
    BY <1>1, RepeatCancelType
  <2>4. QED
    BY <1>2, <2>1, <2>2, <2>3, FinishEventRepeats
<1>5. CASE ~lastIsModifier(r)
  <2>1. FinishEvent(out, p, held)
    BY <1>5 DEF KeysEnd
  <2>2. /\ primitive_start(rep, loop.rule) \in RepeatState(rules)
        /\ primitive_start(rep, loop.rule).items = rep.items
        /\ primitive_start(rep, loop.rule).owner = loop.rule
    <3> HIDE DEF r
    <3>1. QED
      BY <1>1 DEF primitive_start, RepeatState
  <2>3. p \in RepeatState(rules)
    BY <1>1, <2>2
  <2>4. ItemsPressed(p, out.pressed)
    BY <1>3, <2>2 DEF ItemsPressed
  <2>5. OwnerConverts(p, active')
    <3>1. CASE p = rep
      BY <1>2, <1>3, <3>1
    <3>2. CASE p = primitive_start(rep, loop.rule)
      <4>1. rules \in Seq(Rule)
        BY KeyRemapConstants DEF IInv, Types, TypeOK
      <4>2. p.owner = loop.rule /\ loop.rule # 0
        BY <1>1, <2>2, <3>2, <4>1
      <4> HIDE DEF p
      <4>3. QED
        BY <1>1, <1>2, <1>5, <4>2 DEF OwnerConverts
    <3>3. QED
      BY <3>1, <3>2
  <2> HIDE DEF p
  <2>6. QED
    BY <1>2, <2>1, <2>3, <2>4, <2>5, FinishEventRepeats
<1>6. QED
  BY <1>4, <1>5

\* A repeating key is fired without being added to the pressed keys, and the keys
\* of a sequence are released at once.
LEMMA RepeatItemRepeats ==
  ASSUME IInv, RepeatInv, NEW i \in 1 .. Len(rep.items), RepeatItemFires(i)
  PROVE  RepeatInv'
<1>1. rep.items \in Seq(RepeatItem)
  BY DEF IInv, Types, TypeOK, RepeatState
<1>2. rep.items[i] \in RepeatItem /\ i \in DOMAIN rep.items
  BY <1>1
<1>3. UNCHANGED << rep, active, rules >> /\ loop'.kind # "keys" /\ out' = fireItem(i)
  BY DEF RepeatItemFires, output, idle
<1>4. ItemsPressed(rep, out'.pressed)
  <2>1. CASE rep.items[i].type = "NORMAL"
    <3> DEFINE c == Call("DOWN", rep.items[i].key, rep.items[i].flags, Len(rep.items) = 1)
    <3>1. Len(rep.items) = 1
      BY <1>2, <2>1 DEF RepeatInv, ItemsPressed
    <3>2. c \in FireCall /\ c.repeat
      <4>1. c \in FireCall
        BY <1>2, CallType DEF RepeatItem
      <4>2. QED
        BY <3>1, <4>1 DEF Call
    <3>3. out' = FireKey(out, c)
      BY <1>3, <2>1 DEF fireItem
    <3>4. out \in SentStatics
      BY DEF IInv, Types
    <3> HIDE DEF c
    <3>5. out'.pressed = out.pressed
      BY <3>2, <3>3, <3>4, FireKeyPressed
    <3>6. QED
      BY <3>5 DEF RepeatInv
  <2>2. CASE rep.items[i].type # "NORMAL"
    <3>1. ASSUME NEW j \in DOMAIN rep.items, rep.items[j].type = "NORMAL" PROVE FALSE
      <4>1. Len(rep.items) = 1
        BY <3>1 DEF RepeatInv, ItemsPressed
      <4>2. i = 1 /\ j = 1
        BY <1>1, <3>1, <4>1
      <4>3. QED
        BY <2>2, <3>1, <4>2
    <3>2. QED
      BY <3>1 DEF ItemsPressed
  <2>3. QED
    BY <2>1, <2>2
<1>5. QED
  BY <1>3, <1>4 DEF RepeatInv, OwnerConverts, ItemsPressed

LEMMA KeysStepRepeats ==
  ASSUME IInv, RepeatInv, KeysStep
  PROVE  RepeatInv'
<1> DEFINE r  == rules[loop.rule]
           to == r.to[loop.next]
           fl == makeFlags(temporary_increase(out.fs, to.flags))
           p  == primitive_add_downup(rep, fl, to.key)
<1>1. rep \in RepeatState(rules)
  BY DEF IInv, Types, TypeOK
<1>2. /\ ~rep.armed /\ OwnerConverts(rep, active)
      /\ \A j \in DOMAIN rep.items : rep.items[j].type # "NORMAL"
  BY DEF RepeatInv, KeysStep
<1>3. rep' = p /\ UNCHANGED << active, rules >>
  BY DEF KeysStep
<1>4. rep.items \in Seq(RepeatItem)
  BY <1>1 DEF RepeatState
<1> HIDE DEF to, fl
<1>5. /\ p.armed = rep.armed /\ p.owner = rep.owner
      /\ p.items = rep.items
           \/ p.items = Append(rep.items, [type |-> "DOWNUP", key |-> to.key, flags |-> fl])
  BY <1>1 DEF primitive_add_downup, RepeatState
<1> HIDE DEF p
<1>6. \A j \in DOMAIN p.items : p.items[j].type # "NORMAL"
  <2>1. CASE p.items = rep.items
    BY <1>2, <2>1
  <2>2. CASE p.items = Append(rep.items, [type |-> "DOWNUP", key |-> to.key, flags |-> fl])
    <3> DEFINE x == [type |-> "DOWNUP", key |-> to.key, flags |-> fl]
    <3>1. x.type # "NORMAL"
      OBVIOUS
    <3> HIDE DEF x
    <3>2. \A j \in DOMAIN p.items : p.items[j] = x \/ (j \in DOMAIN rep.items /\ p.items[j] = rep.items[j])
      BY <1>4, <2>2 DEF x
    <3>3. QED
      BY <1>2, <3>1, <3>2
  <2>3. QED
    BY <1>5, <2>1, <2>2
<1>7. QED
  BY <1>2, <1>3, <1>5, <1>6 DEF RepeatInv, ItemsPressed, OwnerConverts

LEMMA RepeatInvariance == Spec => []RepeatInv
<1>1. Init => RepeatInv
  BY DEF Init, RepeatInv, ItemsPressed, OwnerConverts, idle
<1>2. ASSUME IInv, LoopOfPress, RepeatInv, [Next]_vars PROVE RepeatInv'
  <2>1. rep \in RepeatState(rules)
    BY <1>2 DEF IInv, Types, TypeOK
  <2>2. ASSUME UNCHANGED << rep, active, rules, loop >>, out'.pressed = out.pressed PROVE RepeatInv'
    BY <1>2, <2>2 DEF RepeatInv, ItemsPressed, OwnerConverts
  <2>3. ASSUME rep'.items = << >>, rep'.owner = rep.owner, rules' = rules,
               loop' = idle \/ ~rep'.armed
        PROVE  RepeatInv'
    BY <1>2, <2>3 DEF RepeatInv, ItemsPressed, OwnerConverts, idle
  <2>4. repeatCancel(rep).items = << >> /\ ~repeatCancel(rep).armed /\ repeatCancel(rep).owner = rep.owner
    BY <2>1 DEF repeatCancel, RepeatState
  <2>5. ASSUME NEW k \in PhysKeys, KeyMoves(k) PROVE RepeatInv'
    BY <2>2, <2>5 DEF KeyMoves
  <2>6. ASSUME NEW i \in DOMAIN rules, StartKeys(i) PROVE RepeatInv'
    BY <2>3, <2>4, <2>6 DEF StartKeys
  <2>7. CASE RepeatTimer \/ RepeatStep
    <3>1. rep.items \in Seq(RepeatItem) /\ Len(rep.items) \in Nat
      BY <2>1 DEF RepeatState
    <3>2. CASE RepeatTimer
      <4>1. 1 \in 1 .. Len(rep.items) /\ RepeatItemFires(1)
        BY <3>1, <3>2 DEF RepeatTimer
      <4>2. QED
        BY <1>2, <4>1, RepeatItemRepeats
    <3>3. CASE RepeatStep
      <4>1. loop.next \in 1 .. Len(rep.items) /\ RepeatItemFires(loop.next)
        BY <1>2, <3>3 DEF RepeatStep, IInv, LoopInRange
      <4>2. QED
        BY <1>2, <4>1, RepeatItemRepeats
    <3>4. QED
      BY <2>7, <3>2, <3>3
  <2>8. CASE OutputTimer \/ OutputDone \/ OutputDropped
    <3>1. out'.pressed = out.pressed
      BY <1>2, <2>8 DEF OutputTimer, OutputDone, OutputDropped, popOutput, IInv, Types, SentStatics
    <3>2. QED
      BY <2>2, <2>8, <3>1 DEF OutputTimer, OutputDone, OutputDropped
  <2>9. ASSUME NEW rs \in RuleSets, SetRemapClasses(rs) PROVE RepeatInv'
    <3>1. rep'.items = << >> /\ rep'.owner = 0 /\ loop' = idle
      BY <2>9 DEF SetRemapClasses, set_initialized, Change
    <3>2. QED
      BY <3>1 DEF RepeatInv, ItemsPressed, OwnerConverts, idle
  <2>10. CASE SetConfig
    <3>1. rules' = rules /\ loop' = idle
      BY <2>10 DEF SetConfig, set_initialized, Change
    <3>2. PICK armed \in {FALSE, rep.armed} : rep' = [repeatCancel(rep) EXCEPT !.armed = armed]
      BY <2>10 DEF SetConfig
    <3>3. rep'.items = << >> /\ rep'.owner = rep.owner
      BY <2>1, <2>4, <3>2, RepeatCancelType DEF RepeatState
    <3>4. QED
      BY <2>3, <3>1, <3>3
  <2>11. CASE RefreshTimer
    BY <2>3, <2>4, <2>11 DEF RefreshTimer
  <2>12. CASE SetWorkspaceData \/ Unplug \/ Plug
    BY <2>2, <2>12 DEF SetWorkspaceData, Unplug, Plug
  <2>13. CASE UNCHANGED vars
    BY <2>2, <2>13 DEF vars
  <2>14. QED
    BY <1>2, <2>5, <2>6, <2>7, <2>8, <2>9, <2>10, <2>11, <2>12, <2>13,
       PassThroughRepeats, RemapRepeats, KeysStepRepeats, KeysEndRepeats DEF Next, InputTimer
<1>3. QED
  BY <1>1, <1>2, Invariance, LoopOfPressInvariance, PTL DEF Spec

\* Key repeat never outlives its keys: a single repeating key is one the system
\* holds, and a repeating sequence belongs to a rule whose key is down, whatever is
\* released, reloaded or unplugged in between.
THEOREM RepeatsOnlyWhatIsHeld == Spec => []RepeatsWhatIsHeld
<1>1. IInv /\ RepeatInv => RepeatsWhatIsHeld
  <2>1. SUFFICES ASSUME IInv, RepeatInv, rep.armed, rep.items # << >>
                 PROVE  IF rep.owner = 0
                        THEN rep.items[1].key \in OutputKeys => out.pressed[rep.items[1].key] > 0
                        ELSE active[rep.owner]
    BY DEF RepeatsWhatIsHeld
  <2>2. rep.items \in Seq(RepeatItem)
    BY <2>1 DEF IInv, Types, TypeOK, RepeatState
  <2>3. 1 \in DOMAIN rep.items
    BY <2>1, <2>2
  <2>4. QED
    BY <2>1, <2>3 DEF RepeatInv, ItemsPressed, OwnerConverts
<1>2. QED
  BY <1>1, Invariance, RepeatInvariance, PTL

-------------------------------------------------------------------------------
(***************************************************************************)
(* The balance of the modifier counts, also while a rule sends its keys:   *)
(* then its from key's own flag is off, and its last key is not held yet.  *)
(***************************************************************************)
balanced(fs, keys, S) ==
  \A f \in ModifierFlags \ {CAPSLOCK} : fs[f].count = one(f \in keys) + contribution(S, f)

\* The rules that convert and have done all they do on the way down.
settled == IF loop.kind = "keys" THEN converting \ {loop.rule} ELSE converting

pending(f) == IF loop.kind = "keys" THEN drops(rules[loop.rule], f) ELSE 0

BalanceInv ==
  undisturbed /\ paired =>
    \A f \in ModifierFlags \ {CAPSLOCK} :
      out.fs[f].count = one(f \in handled) + (contribution(settled, f) - pending(f))

\* Between two events nothing is pending.
LEMMA BalanceNext ==
  ASSUME IInv, active' \in [DOMAIN rules -> BOOLEAN], rules' = rules, loop'.kind # "keys",
         balanced(out'.fs, handled', converting')
  PROVE  BalanceInv'
<1>1. converting' \in SUBSET DOMAIN rules
  BY DEF converting
<1>2. settled' = converting' /\ \A f : pending(f)' = 0
  BY DEF settled, pending
<1>3. \A f : contribution(settled, f)' = contribution(converting', f)
  BY <1>2 DEF contribution, adding, addingLazily, dropping, taking, holding
<1>4. \A f : contribution(converting', f) \in Int
  BY <1>1, ContributionFinite
<1>5. \A f : contribution(converting', f) - 0 = contribution(converting', f)
  BY <1>4
<1>6. QED
  BY <1>2, <1>3, <1>5 DEF BalanceInv, balanced

\* The end of the callback: the counts stay, or no key is held, so no rule converts.
LEMMA FinishEventBalance ==
  ASSUME IInv, undisturbed, paired, ActiveInv', rules' = rules, changes' = changes,
         active' \in [DOMAIN rules -> BOOLEAN], loop' = idle,
         NEW o \in SentStatics, NEW p, NEW h, FinishEvent(o, p, h),
         h = Cardinality(handled' \ {CAPSLOCK}), handled' \in SUBSET PhysKeys,
         balanced(o.fs, handled', converting')
  PROVE  BalanceInv'
<1>1. loop'.kind # "keys"
  BY DEF idle
<1>2. IsFiniteSet(handled' \ {CAPSLOCK}) /\ h \in Nat
  <2>1. IsFiniteSet(handled')
    BY HandledFinite, FS_Subset
  <2>2. QED
    BY <2>1, FS_Subset, FS_CardinalityType
<1>3. CASE h <= 0
  <2>1. handled' \ {CAPSLOCK} = {}
    BY <1>2, <1>3, FS_EmptySet
  <2>2. converting' = {}
    <3>1. \A i \in converting' : rules[i].from \in handled'
      BY DEF ActiveInv, undisturbed, paired
    <3>2. \A i \in converting' : rules[i].from # CAPSLOCK
      BY DEF paired, converting
    <3>3. QED
      BY <2>1, <3>1, <3>2
  <2>3. out' = flush(o)
    BY <1>3 DEF FinishEvent, output
  <2>4. \A f \in ModifierFlags : out'.fs[f].count = 0
    BY <2>3, FlushEffect
  <2>5. \A f \in ModifierFlags \ {CAPSLOCK} : one(f \in handled') = 0
    BY <2>1 DEF one
  <2>6. balanced(out'.fs, handled', converting')
    BY <2>2, <2>4, <2>5, NoContribution DEF balanced
  <2>7. QED
    BY <1>1, <2>6, BalanceNext
<1>4. CASE ~(h <= 0)
  <2>1. out' = o
    BY <1>4 DEF FinishEvent, output
  <2>2. QED
    BY <1>1, <2>1, BalanceNext
<1>5. QED
  BY <1>3, <1>4

\* FlagStatus::set counts the key of the event.
LEMMA EventBalance ==
  ASSUME IInv, EventsFlip, BalanceInv, undisturbed, paired, InputTimer
  PROVE  /\ balanced(fsOfEvent, handled', converting)
         /\ [out EXCEPT !.fs = fsOfEvent] \in SentStatics
         /\ [out EXCEPT !.fs = fsOfEvent].fs = fsOfEvent
<1> DEFINE flags == IF event.down THEN {event.key} ELSE {}
<1>1. /\ loop.kind # "keys" /\ event.down \in BOOLEAN
      /\ event.down <=> event.key \notin handled
      /\ handled' = toggled(handled, event.key)
  BY HandledByInput DEF idle, Event
<1>2. out \in SentStatics /\ out.fs \in FlagStatusItems /\ fsOfEvent = setKey(out.fs, event.key, flags)
  BY ItemsType DEF IInv, Types, fsOfEvent
<1>3. fsOfEvent \in FlagStatusItems
  BY <1>2, SetType
<1>4. ASSUME NEW f \in ModifierFlags \ {CAPSLOCK}
      PROVE  fsOfEvent[f].count = one(f \in handled') + contribution(converting, f)
  <2>1. fsOfEvent[f].count
          = out.fs[f].count + (IF f # event.key THEN 0 ELSE IF f \in flags THEN 1 ELSE -1)
    BY <1>2, SetKeyCount
  <2>2. out.fs[f].count = one(f \in handled) + (contribution(converting, f) - 0)
    BY <1>1 DEF BalanceInv, settled, pending
  <2>3. contribution(converting, f) \in Int
    BY ContributionFinite DEF converting
  <2> DEFINE x == contribution(converting, f)
             y == IF f # event.key THEN 0 ELSE IF f \in flags THEN 1 ELSE -1
  <2>4. one(f \in handled') = one(f \in handled) + y
    BY <1>1 DEF toggled, one
  <2>5. y \in Int /\ one(f \in handled) \in Int
    BY DEF one
  <2> HIDE DEF x, y, flags
  <2>6. QED
    BY <2>1, <2>2, <2>3, <2>4, <2>5 DEF x, y
<1>5. QED
  BY <1>2, <1>3, <1>4, NewItemsEffect DEF balanced

LEMMA HandledKeys == handled' \in SUBSET PhysKeys
  BY DEF handled

\* A key that no rule takes changes no count but its own.
LEMMA PassThroughBalance ==
  ASSUME IInv, Still, EventsFlip, HeldInv, BalanceInv, ActiveInv', undisturbed, paired, PassThrough
  PROVE  BalanceInv'
<1> DEFINE c == Call(eventType(event.key, event.down), event.key, makeFlags(fsOfEvent), FALSE)
           o == [out EXCEPT !.fs = fsOfEvent]
           h == heldAfter(held, event)
<1>1. InputTimer /\ inq # << >>
  BY DEF InputTimer, PassThrough, InputReady
<1>2. /\ event \in Event /\ event.key \in KeyCodes /\ event.key \in PlainKeys \cup ModifierFlags
  BY <1>1, EventType, KeyRemapConstants DEF Event
<1>3. c \in FireCall
  BY <1>2, EventTypeType, MakeFlagsType, CallType
<1>4. /\ balanced(o.fs, handled', converting) /\ o \in SentStatics
      /\ h = Cardinality(handled' \ {CAPSLOCK})
  BY <1>1, EventBalance, HeldAfterInput
<1>5. \A f : lazily(c, f) = 0
  <2>1. c.key = event.key
    BY DEF Call
  <2>2. QED
    BY <1>2, <2>1, ModifierNotLazy, NotLazy
<1>6. FinishEvent(FireKey(o, c), repeatSet(rep, c), h) /\ active' = active /\ loop' = idle
  BY DEF PassThrough, InputReady
<1>7. rules' = rules /\ changes' = changes /\ converting' = converting
  BY <1>6, PassedThrough DEF FinishEvent
<1>8. active' \in [DOMAIN rules -> BOOLEAN]
  BY <1>6 DEF IInv, Types, TypeOK
<1> HIDE DEF c, o, h
<1>9. FireKey(o, c) \in SentStatics
  BY <1>3, <1>4, FireKeyType
<1>10. balanced(FireKey(o, c).fs, handled', converting')
  <2>1. ASSUME NEW f \in ModifierFlags \ {CAPSLOCK}
        PROVE  FireKey(o, c).fs[f].count = o.fs[f].count
    <3>1. FireKey(o, c).fs[f].count = o.fs[f].count + lazily(c, f)
      BY <1>3, <1>4, FireKeyCount
    <3>2. o.fs[f].count \in Int
      BY <1>4, ItemsType, CountInt
    <3>3. QED
      BY <1>5, <3>1, <3>2
  <2>2. QED
    BY <1>4, <1>7, <2>1 DEF balanced
<1>11. QED
  BY <1>4, <1>6, <1>7, <1>8, <1>9, <1>10, HandledKeys, FinishEventBalance

\* A rule that takes its from key brings its share in, or takes it back.
LEMMA ConvertingShare ==
  ASSUME IInv, EventsFlip, ActiveInv, undisturbed, paired,
         NEW i \in DOMAIN rules, Remap(i) \/ StartKeys(i), NEW f
  PROVE  contribution(converting', f)
           = IF event.down THEN contribution(converting, f) + share(rules[i], f)
             ELSE contribution(converting, f) - share(rules[i], f)
<1>1. /\ rules[i].from = event.key
      /\ event.down => converting' = converting \cup {i}
      /\ ~event.down => i \in converting /\ converting' = converting \ {i}
  BY RuleTaken
<1>2. event.down <=> event.key \notin handled
  BY HandledByInput DEF InputTimer
<1>3. converting \in SUBSET DOMAIN rules /\ converting \ {i} \in SUBSET DOMAIN rules
  BY DEF converting
<1>4. CASE event.down
  <2>1. i \notin converting
    BY <1>1, <1>2, <1>4 DEF ActiveInv
  <2>2. QED
    BY <1>1, <1>3, <1>4, <2>1, ContributionOfOneMore
<1>5. CASE ~event.down
  <2>1. converting = (converting \ {i}) \cup {i} /\ i \in DOMAIN rules \ (converting \ {i})
    BY <1>1, <1>5
  <2> DEFINE rest == converting \ {i}
  <2>2. contribution(rest \cup {i}, f) = contribution(rest, f) + share(rules[i], f)
    BY <1>3, <2>1, ContributionOfOneMore
  <2>3. contribution(rest, f) \in Int /\ share(rules[i], f) \in Int
    BY <1>3, ContributionFinite, ShareInt
  <2>4. converting' = rest /\ converting = rest \cup {i}
    BY <1>1, <1>5, <2>1
  <2> HIDE DEF rest
  <2>5. QED
    BY <1>5, <2>2, <2>3, <2>4
<1>6. QED
  BY <1>2, <1>4, <1>5

LEMMA RemapBalance ==
  ASSUME IInv, EventsFlip, HeldInv, ActiveInv, BalanceInv, ActiveInv', undisturbed, paired,
         NEW i \in DOMAIN rules, Remap(i)
  PROVE  BalanceInv'
<1> DEFINE r == rules[i]
           o == [out EXCEPT !.fs = fsOfEvent]
           h == heldAfter(held, event)
           e == event
<1>1. InputTimer /\ inq # << >>
  BY DEF InputTimer, Remap, InputReady
<1>2. e \in Event /\ r \in Rule /\ e.down \in BOOLEAN
  BY <1>1, EventType, RuleType DEF IInv, Types, TypeOK
<1>3. /\ balanced(o.fs, handled', converting) /\ o \in SentStatics
      /\ h = Cardinality(handled' \ {CAPSLOCK})
  BY <1>1, EventBalance, HeldAfterInput
<1>4. /\ rules' = rules /\ loop' = idle
      /\ active' = [active EXCEPT ![i] = e.down]
  BY RuleTaken DEF Remap
<1>5. active' \in [DOMAIN rules -> BOOLEAN]
  BY <1>2, <1>4 DEF IInv, Types, TypeOK
<1>6. \A f : contribution(converting', f)
               = IF e.down THEN contribution(converting, f) + share(r, f)
                 ELSE contribution(converting, f) - share(r, f)
  BY ConvertingShare
<1>7. converting \in SUBSET DOMAIN rules
  BY DEF converting
<1>8. ASSUME NEW p, FinishEvent(p, RepeatKeysUp(rep, r, i), h)
               \/ FinishEvent(p, RepeatSingle(rep, o, r, e), h) \/ FinishEvent(p, rep, h)
      PROVE  changes' = changes
  BY <1>8 DEF FinishEvent
<1>9. \/ Len(r.to) = 0 /\ FinishEvent([o EXCEPT !.fs = dropFromKey(@, r, e)], rep, h)
      \/ Len(r.to) = 1 /\ FinishEvent(RemapSingle(o, r, e), RepeatSingle(rep, o, r, e), h)
      \/ Len(r.to) > 1 /\ ~e.down /\ FinishEvent(RemapKeysUp(o, r, e), RepeatKeysUp(rep, r, i), h)
  BY RemapCases
<1> HIDE DEF r, o, h, e
<1>10. ASSUME NEW p \in SentStatics,
              \A f \in ModifierFlags \ {CAPSLOCK} :
                p.fs[f].count = IF e.down THEN o.fs[f].count + share(r, f)
                                ELSE o.fs[f].count - share(r, f)
       PROVE  balanced(p.fs, handled', converting')
  <2>1. SUFFICES ASSUME NEW f \in ModifierFlags \ {CAPSLOCK}
                 PROVE  p.fs[f].count = one(f \in handled') + contribution(converting', f)
    BY DEF balanced
  <2>2. /\ p.fs[f].count = IF e.down THEN o.fs[f].count + share(r, f)
                           ELSE o.fs[f].count - share(r, f)
        /\ o.fs[f].count = one(f \in handled') + contribution(converting, f)
    BY <1>3, <1>10 DEF balanced
  <2>3. /\ one(f \in handled') \in Int /\ contribution(converting, f) \in Int
        /\ share(r, f) \in Int
    BY <1>7, ContributionFinite, ShareInt DEF one
  <2>4. QED
    BY <1>2, <1>6, <2>2, <2>3
<1>11. ASSUME NEW p \in SentStatics, NEW q, FinishEvent(p, q, h), changes' = changes,
              balanced(p.fs, handled', converting')
       PROVE  BalanceInv'
  BY <1>3, <1>4, <1>5, <1>11, HandledKeys, FinishEventBalance
<1>12. CASE Len(r.to) = 0 /\ FinishEvent([o EXCEPT !.fs = dropFromKey(@, r, e)], rep, h)
  <2> DEFINE fs == dropFromKey(o.fs, r, e)
             p  == [o EXCEPT !.fs = fs]
  <2>1. FinishEvent(p, rep, h) /\ changes' = changes
    BY <1>8, <1>12
  <2>2. fs \in FlagStatusItems
    BY <1>3, ItemsType, RuleFlagsType
  <2>3. \A f \in ModifierFlags \ {CAPSLOCK} :
          fs[f].count = IF e.down THEN o.fs[f].count - drops(r, f) ELSE o.fs[f].count + drops(r, f)
    BY <1>3, ItemsType, DropCount
  <2> HIDE DEF fs
  <2>4. p \in SentStatics /\ p.fs = fs
    BY <1>3, <2>2, NewItemsEffect
  <2> HIDE DEF p
  <2>5. ASSUME NEW f \in ModifierFlags \ {CAPSLOCK}
        PROVE  p.fs[f].count = IF e.down THEN o.fs[f].count + share(r, f)
                               ELSE o.fs[f].count - share(r, f)
    <3>1. share(r, f) = 0 - drops(r, f)
      BY <1>12 DEF share, lends
    <3>2. drops(r, f) \in Int /\ o.fs[f].count \in Int
      BY <1>3, ItemsType, CountInt, ShareInt
    <3>3. QED
      BY <2>3, <2>4, <3>1, <3>2
  <2>6. QED
    BY <1>10, <1>11, <2>1, <2>4, <2>5
<1>13. CASE Len(r.to) = 1 /\ FinishEvent(RemapSingle(o, r, e), RepeatSingle(rep, o, r, e), h)
  <2> DEFINE p == RemapSingle(o, r, e)
  <2>1. p \in SentStatics
    BY <1>2, <1>3, <1>13, SentStaticsClosed, RemapSingleKeeps
  <2>2. \A f \in ModifierFlags \ {CAPSLOCK} :
          p.fs[f].count = IF e.down THEN o.fs[f].count + share(r, f)
                          ELSE o.fs[f].count - share(r, f)
    BY <1>2, <1>3, <1>13, RemapSingleCount
  <2>3. FinishEvent(p, RepeatSingle(rep, o, r, e), h) /\ changes' = changes
    BY <1>8, <1>13
  <2> HIDE DEF p
  <2>4. QED
    BY <1>10, <1>11, <2>1, <2>2, <2>3
<1>14. CASE /\ Len(r.to) > 1 /\ ~e.down
            /\ FinishEvent(RemapKeysUp(o, r, e), RepeatKeysUp(rep, r, i), h)
  <2> DEFINE p == RemapKeysUp(o, r, e)
  <2>1. Len(r.to) > 0
    <3>1. Len(r.to) \in Nat
      BY <1>2 DEF Rule
    <3>2. QED
      BY <1>14, <3>1
  <2>2. p \in SentStatics
    BY <1>2, <1>3, <2>1, SentStaticsClosed, RemapKeysUpKeeps
  <2>3. \A f \in ModifierFlags \ {CAPSLOCK} : p.fs[f].count = o.fs[f].count - share(r, f)
    BY <1>2, <1>3, <1>14, <2>1, RemapKeysUpCount
  <2>4. FinishEvent(p, RepeatKeysUp(rep, r, i), h) /\ changes' = changes
    BY <1>8, <1>14
  <2> HIDE DEF p
  <2>5. QED
    BY <1>10, <1>11, <1>14, <2>2, <2>3, <2>4
<1>15. QED
  BY <1>9, <1>12, <1>13, <1>14

\* While a rule sends its keys, its from key's own flag is all it has changed.
LEMMA StartKeysBalance ==
  ASSUME IInv, EventsFlip, ActiveInv, BalanceInv, undisturbed, paired,
         NEW i \in DOMAIN rules, StartKeys(i)
  PROVE  BalanceInv'
<1> DEFINE r == rules[i]
           o == [out EXCEPT !.fs = fsOfEvent]
<1>1. InputTimer /\ event.down
  BY DEF InputTimer, StartKeys
<1>2. balanced(o.fs, handled', converting) /\ o \in SentStatics
  BY <1>1, EventBalance
<1>3. /\ out' = RemapKeysDown(o, r, event) /\ rules' = rules
      /\ loop' = [kind |-> "keys", rule |-> i, next |-> 1]
  BY DEF StartKeys
<1>4. settled' = converting
  <2>1. converting' = converting \cup {i} /\ rules[i].from = event.key
    BY <1>1, RuleTaken
  <2>2. i \notin converting
    <3>1. event.key \notin handled
      BY <1>1, HandledByInput
    <3>2. QED
      BY <2>1, <3>1 DEF ActiveInv
  <2>3. QED
    BY <1>3, <2>1, <2>2 DEF settled
<1>5. \A f : contribution(settled, f)' = contribution(converting, f) /\ pending(f)' = drops(r, f)
  BY <1>3, <1>4 DEF contribution, adding, addingLazily, dropping, taking, holding, pending
<1> HIDE DEF r, o
<1>6. ASSUME NEW f \in ModifierFlags \ {CAPSLOCK}
      PROVE  out'.fs[f].count = one(f \in handled') + (contribution(converting, f) - drops(r, f))
  <2>1. out'.fs[f].count = o.fs[f].count - drops(r, f)
    BY <1>1, <1>2, <1>3, RemapKeysDownCount
  <2>2. o.fs[f].count = one(f \in handled') + contribution(converting, f)
    BY <1>2 DEF balanced
  <2>3. /\ one(f \in handled') \in Int /\ contribution(converting, f) \in Int
        /\ drops(r, f) \in Int
    BY ContributionFinite, ShareInt DEF one, converting
  <2>4. QED
    BY <2>1, <2>2, <2>3
<1>7. QED
  BY <1>5, <1>6 DEF BalanceInv

\* After its loop the rule has its whole share in the counts.
LEMMA KeysEndBalance ==
  ASSUME IInv, Still, LoopOfPress, HeldInv, BalanceInv, ActiveInv', undisturbed, paired, KeysEnd
  PROVE  BalanceInv'
<1> DEFINE r == rules[loop.rule]
           o == IF lastIsModifier(r) THEN holdLast(out, r) ELSE out
<1>1. /\ r \in Rule /\ Len(r.to) > 1 /\ Len(r.to) \in Nat /\ loop.rule \in DOMAIN rules
      /\ loop.kind = "keys" /\ loop' = idle /\ active' = active /\ active[loop.rule]
  BY LoopRuleType DEF KeysEnd, LoopOfPress
<1>2. Len(r.to) > 0
  BY <1>1
<1>3. out \in SentStatics /\ active' \in [DOMAIN rules -> BOOLEAN]
  BY <1>1 DEF IInv, Types, TypeOK
<1>4. handled' = handled /\ converting' = converting /\ rules' = rules
  <2>1. Ordinary
    BY DEF Ordinary
  <2>2. ~InputTimer
    <3>1. InputTimer => loop = idle
      BY DEF InputTimer, PassThrough, Remap, StartKeys, InputReady
    <3>2. loop # idle
      BY <1>1 DEF idle
    <3>3. QED
      BY <3>1, <3>2
  <2>3. QED
    BY <2>1, <2>2, HandledOtherwise, ConvertingKept
<1>5. /\ converting = (converting \ {loop.rule}) \cup {loop.rule}
      /\ converting \ {loop.rule} \in SUBSET DOMAIN rules
  BY <1>1 DEF converting
<1>6. \A f : /\ contribution(converting, f) = contribution(settled, f) + share(r, f)
             /\ contribution(settled, f) \in Int
  <2> DEFINE S == converting \ {loop.rule}
  <2>1. loop.rule \in DOMAIN rules \ S /\ S \in SUBSET DOMAIN rules
    BY <1>1, <1>5
  <2>2. settled = S /\ converting = S \cup {loop.rule}
    BY <1>1, <1>5 DEF settled
  <2> HIDE DEF S
  <2>3. QED
    BY <2>1, <2>2, ContributionOfOneMore, ContributionFinite
<1>7. \E q : FinishEvent(o, q, held)
  BY DEF KeysEnd
<1>8. \A f \in ModifierFlags \ {CAPSLOCK} :
        out.fs[f].count = one(f \in handled) + (contribution(settled, f) - drops(r, f))
  BY <1>1 DEF BalanceInv, pending
<1>9. held = Cardinality(handled \ {CAPSLOCK})
  BY DEF HeldInv
<1> HIDE DEF r
<1>10. o \in SentStatics
  BY <1>1, <1>2, <1>3, SentStaticsClosed, HoldLastKeeps
<1>11. ASSUME NEW f \in ModifierFlags \ {CAPSLOCK}
       PROVE  o.fs[f].count = out.fs[f].count + lends(r, f)
  <2>1. CASE lastIsModifier(r)
    BY <1>1, <1>2, <1>3, <2>1, HoldLastCount
  <2>2. CASE ~lastIsModifier(r)
    <3>1. lends(r, f) = 0 /\ o = out
      BY <2>2 DEF lends
    <3>2. out.fs[f].count \in Int
      BY <1>3, ItemsType, CountInt
    <3>3. QED
      BY <3>1, <3>2
  <2>3. QED
    BY <2>1, <2>2
<1> HIDE DEF o
<1>12. balanced(o.fs, handled', converting')
  <2>1. SUFFICES ASSUME NEW f \in ModifierFlags \ {CAPSLOCK}
                 PROVE  o.fs[f].count = one(f \in handled') + contribution(converting', f)
    BY DEF balanced
  <2>2. /\ contribution(converting, f) = contribution(settled, f) + share(r, f)
        /\ share(r, f) = lends(r, f) - drops(r, f)
    BY <1>6 DEF share
  <2>3. /\ one(f \in handled) \in Int /\ contribution(settled, f) \in Int
        /\ lends(r, f) \in Int /\ drops(r, f) \in Int
    BY <1>6, ShareInt DEF one
  <2>4. o.fs[f].count = (one(f \in handled) + (contribution(settled, f) - drops(r, f))) + lends(r, f)
    BY <1>8, <1>11
  <2>5. o.fs[f].count = one(f \in handled) + contribution(converting, f)
    BY <2>2, <2>3, <2>4
  <2>6. QED
    BY <1>4, <2>5
<1>13. changes' = changes
  BY <1>7 DEF FinishEvent
<1>14. QED
  BY <1>1, <1>3, <1>4, <1>7, <1>9, <1>10, <1>12, <1>13, HandledKeys, FinishEventBalance

\* A key that repeats is not counted again.
LEMMA RepeatItemCount ==
  ASSUME IInv, RepeatInv, NEW i \in 1 .. Len(rep.items), RepeatItemFires(i),
         NEW f \in ModifierFlags, f # CAPSLOCK
  PROVE  out'.fs[f].count = out.fs[f].count
<1>1. rep.items \in Seq(RepeatItem) /\ out \in SentStatics
  BY DEF IInv, Types, TypeOK, RepeatState
<1>2. rep.items[i] \in RepeatItem /\ i \in DOMAIN rep.items
  BY <1>1
<1>3. out' = fireItem(i) /\ out.fs[f].count \in Int
  BY <1>1, ItemsType, CountInt DEF RepeatItemFires, output
<1>4. CASE rep.items[i].type = "NORMAL"
  <2> DEFINE c == Call("DOWN", rep.items[i].key, rep.items[i].flags, Len(rep.items) = 1)
  <2>1. Len(rep.items) = 1
    BY <1>2, <1>4 DEF RepeatInv, ItemsPressed
  <2>2. c \in FireCall
    BY <1>2, CallType DEF RepeatItem
  <2>3. lazily(c, f) = 0
    BY <2>1 DEF lazily, Call
  <2>4. out' = FireKey(out, c)
    BY <1>3, <1>4 DEF fireItem
  <2> HIDE DEF c
  <2>5. QED
    BY <1>1, <1>3, <2>2, <2>3, <2>4, FireKeyCount
<1>5. CASE rep.items[i].type # "NORMAL"
  <2>1. out' = fire_downup(out, rep.items[i].flags, rep.items[i].key)
    BY <1>3, <1>5 DEF fireItem
  <2>2. QED
    BY <1>1, <1>2, <2>1, FireDownUpCount DEF RepeatItem
<1>6. QED
  BY <1>4, <1>5

\* Between the events the rule whose loop is under way stays the same,
LEMMA LoopKept ==
  ASSUME IInv, Ordinary, ~InputTimer, ~KeysEnd
  PROVE  IF loop.kind = "keys" THEN loop'.kind = "keys" /\ loop'.rule = loop.rule
         ELSE loop'.kind # "keys"
<1>1. loop \in LoopState(rules)
  BY DEF IInv, Types, TypeOK
<1>2. ASSUME NEW k \in PhysKeys, KeyMoves(k) PROVE loop' = loop
  BY <1>2 DEF KeyMoves
<1>3. CASE KeysStep
  BY <1>1, <1>3 DEF KeysStep, LoopState
<1>4. CASE RepeatTimer \/ RepeatStep
  BY <1>4 DEF RepeatTimer, RepeatStep, RepeatItemFires, idle
<1>5. CASE OutputTimer \/ OutputDone \/ SetWorkspaceData \/ UNCHANGED vars
  BY <1>5 DEF OutputTimer, OutputDone, SetWorkspaceData, vars
<1>6. QED
  BY <1>2, <1>3, <1>4, <1>5 DEF Ordinary

\* and neither a turn of a loop nor anything else changes a count.
LEMMA CountsKept ==
  ASSUME IInv, RepeatInv, Ordinary, ~InputTimer, ~KeysEnd,
         NEW f \in ModifierFlags, f # CAPSLOCK
  PROVE  out'.fs[f].count = out.fs[f].count
<1>1. out \in SentStatics
  BY DEF IInv, Types
<1>2. ASSUME NEW k \in PhysKeys, KeyMoves(k) PROVE out' = out
  BY <1>2 DEF KeyMoves
<1>3. CASE KeysStep
  <2> DEFINE to == rules[loop.rule].to[loop.next]
  <2>1. /\ rules[loop.rule] \in Rule /\ Len(rules[loop.rule].to) \in Nat
        /\ loop.next \in Nat /\ loop.next > 0
    BY <1>3, LoopRuleType DEF KeysStep
  <2>2. loop.next \in 1 .. Len(rules[loop.rule].to)
    BY <1>3, <2>1 DEF KeysStep, keysInLoop
  <2>3. to \in Target
    BY <2>1, <2>2, TargetType
  <2>4. out' = fireTarget(out, to)
    BY <1>3 DEF KeysStep, output
  <2> HIDE DEF to
  <2>5. QED
    BY <1>1, <2>3, <2>4, FireTargetCount
<1>4. CASE RepeatTimer \/ RepeatStep
  <2>1. rep.items \in Seq(RepeatItem) /\ Len(rep.items) \in Nat
    BY DEF IInv, Types, TypeOK, RepeatState
  <2>2. PICK i \in 1 .. Len(rep.items) : RepeatItemFires(i)
    <3>1. CASE RepeatTimer
      <4>1. 1 \in 1 .. Len(rep.items) /\ RepeatItemFires(1)
        BY <2>1, <3>1 DEF RepeatTimer
      <4>2. QED
        BY <4>1
    <3>2. CASE RepeatStep
      BY <3>2 DEF RepeatStep, IInv, LoopInRange
    <3>3. QED
      BY <1>4, <3>1, <3>2
  <2>3. QED
    BY <2>2, RepeatItemCount
<1>5. CASE OutputTimer \/ OutputDone
  BY <1>1, <1>5 DEF OutputTimer, OutputDone, popOutput, SentStatics
<1>6. CASE SetWorkspaceData \/ UNCHANGED vars
  BY <1>6 DEF SetWorkspaceData, vars
<1>7. QED
  BY <1>2, <1>3, <1>4, <1>5, <1>6 DEF Ordinary

LEMMA BalanceInvariance == Spec => []BalanceInv
<1>1. Init => BalanceInv
  <2>1. SUFFICES ASSUME Init, NEW f \in ModifierFlags \ {CAPSLOCK}
                 PROVE  out.fs[f].count = one(f \in handled) + (contribution(settled, f) - pending(f))
    BY DEF BalanceInv
  <2>2. handled = {} /\ settled = {} /\ pending(f) = 0 /\ out.fs[f].count = 0
    BY <2>1, InitHandled DEF Init, settled, pending, converting, none, idle, initializeItems
  <2>3. QED
    BY <2>2, NoContribution DEF one
<1>2. ASSUME IInv, Still, EventsFlip, LoopOfPress, HeldInv, ActiveInv, RepeatInv, BalanceInv,
             ActiveInv', [Next]_vars
      PROVE  BalanceInv'
  <2>1. SUFFICES ASSUME undisturbed', paired' PROVE BalanceInv'
    BY DEF BalanceInv
  <2>2. undisturbed /\ Ordinary /\ rules' = rules
    BY <1>2, <2>1, UndisturbedStep
  <2>3. paired
    BY <2>1, <2>2 DEF paired
  <2>4. CASE InputTimer
    BY <1>2, <2>2, <2>3, <2>4, PassThroughBalance, RemapBalance, StartKeysBalance DEF InputTimer
  <2>5. CASE KeysEnd
    BY <1>2, <2>2, <2>3, <2>5, KeysEndBalance
  <2>6. CASE ~InputTimer /\ ~KeysEnd
    <3>1. handled' = handled /\ converting' = converting
      BY <1>2, <2>2, <2>6, HandledOtherwise, ConvertingKept
    <3>2. \A f \in ModifierFlags \ {CAPSLOCK} : out'.fs[f].count = out.fs[f].count
      BY <1>2, <2>2, <2>6, CountsKept
    <3>3. settled' = settled /\ \A f : pending(f)' = pending(f)
      BY <1>2, <2>2, <2>6, <3>1, LoopKept DEF settled, pending
    <3>4. \A f : contribution(settled, f)' = contribution(settled, f)
      BY <2>2, <3>3 DEF contribution, adding, addingLazily, dropping, taking, holding
    <3>5. QED
      BY <1>2, <2>2, <2>3, <3>1, <3>2, <3>3, <3>4 DEF BalanceInv
  <2>7. QED
    BY <2>4, <2>5, <2>6
<1>3. QED
  BY <1>1, <1>2, Invariance, StillInvariance, EventsFlipInvariance, LoopOfPressInvariance,
     HeldInvariance, ActiveInvariance, RepeatInvariance, PTL DEF Spec

\* The modifier accounting balances: every count is the key itself plus what the
\* rules now converting a key put there, for every keyboard and every set of rules
\* without a rule on CapsLock or with a filter, whichever keys were interleaved.
THEOREM CountsBalance == Spec => []FlagsBalance
<1>1. ASSUME IInv, BalanceInv PROVE FlagsBalance
  <2>1. SUFFICES ASSUME undisturbed, loop = idle, paired, NEW f \in ModifierFlags \ {CAPSLOCK}
                 PROVE  out.fs[f].count
                          = (IF f \in PhysKeys /\ seen(f) THEN 1 ELSE 0) + contribution(converting, f)
    BY DEF FlagsBalance
  <2>2. loop.kind # "keys"
    BY <2>1 DEF idle
  <2>3. out.fs[f].count = one(f \in handled) + (contribution(converting, f) - 0)
    BY <1>1, <2>1, <2>2 DEF BalanceInv, settled, pending
  <2>4. one(f \in handled) = IF f \in PhysKeys /\ seen(f) THEN 1 ELSE 0
    BY <1>1, <2>2, HandledIsSeen DEF one, handled
  <2>5. contribution(converting, f) \in Int
    BY <1>1, ContributionFinite DEF converting
  <2>6. QED
    BY <2>3, <2>4, <2>5
<1>2. QED
  BY <1>1, Invariance, BalanceInvariance, PTL

-------------------------------------------------------------------------------
(***************************************************************************)
(* What the system was told and will be told.  Inside the system's         *)
(* callback the front event of the queue is already delivered.             *)
(***************************************************************************)
Delivered(down, flags, e) ==
  /\ e.type = "MODIFY" => flags = e.flags
  /\ e.type = "DOWN" => e.key \in down
  /\ e.type = "UP" => e.key \notin down

Midway(down, flags) ==
  {o \in SentStatics :
     /\ o.q # << >> /\ Delivered(down, flags, Head(o.q))
     /\ \A k \in OutputKeys : downAfter(down, o.q, k) <=> o.pressed[k] > 0
     /\ announced(flags, o.q, Len(o.q), o.last)
     /\ \A i \in DOMAIN o.q :
          carriesFlags(flags, o.q, i) /\ (i # 1 => changesOneFlag(flags, o.q, i))}

Told ==
  undisturbed =>
    IF sending THEN out \in Midway(os.down, os.flags) ELSE out \in Coherent(os.down, os.flags)

\* The system gets the front event: what it will hold in the end stays the same.
LEMMA DownAfterDelivery ==
  ASSUME NEW down, NEW q \in Seq(SentEvent), q # << >>, NEW new, NEW k,
         k \in new <=> IF about(Head(q), k) THEN Head(q).type = "DOWN" ELSE k \in down
  PROVE  downAfter(new, q, k) <=> downAfter(down, q, k)
<1>1. Head(q) = q[1] /\ 1 \in DOMAIN q
  OBVIOUS
<1>2. CASE about(Head(q), k)
  BY <1>1, <1>2 DEF downAfter
<1>3. CASE ~about(Head(q), k)
  BY <1>3 DEF downAfter
<1>4. QED
  BY <1>2, <1>3

LEMMA AnnouncedDelivery ==
  ASSUME NEW flags, NEW q \in Seq(SentEvent), q # << >>, NEW new,
         new = IF Head(q).type = "MODIFY" THEN Head(q).flags ELSE flags,
         NEW n \in 1 .. Len(q), NEW to
  PROVE  announced(new, q, n, to) <=> announced(flags, q, n, to)
<1>1. Head(q) = q[1] /\ 1 \in 1 .. n
  OBVIOUS
<1>2. CASE Head(q).type = "MODIFY"
  BY <1>1, <1>2 DEF announced
<1>3. CASE Head(q).type # "MODIFY"
  BY <1>3 DEF announced
<1>4. QED
  BY <1>2, <1>3

\* The front event leaves the queue: it makes no difference any more.
LEMMA DownAfterTail ==
  ASSUME NEW down, NEW flags, NEW q \in Seq(SentEvent), q # << >>,
         Delivered(down, flags, Head(q)), NEW k
  PROVE  downAfter(down, Tail(q), k) <=> downAfter(down, q, k)
<1> DEFINE t == Tail(q)
           h == << Head(q) >>
           none0 == << >>
<1>1. t \in Seq(SentEvent) /\ h \in Seq(SentEvent) /\ none0 \in Seq(SentEvent)
  OBVIOUS
<1>2. q = h \o t /\ t = none0 \o t
  OBVIOUS
<1>3. downAfter(down, none0, k) <=> k \in down
  BY DEF downAfter
<1>4. downAfter(down, h, k) <=> k \in down
  <2>1. DOMAIN h = {1} /\ h[1] = Head(q)
    OBVIOUS
  <2>2. about(Head(q), k) => (Head(q).type = "DOWN" <=> k \in down)
    BY DEF about, Delivered
  <2> HIDE DEF h
  <2>3. downAfter(down, h, k) <=> \/ k \in down /\ ~about(Head(q), k)
                                  \/ about(Head(q), k) /\ Head(q).type = "DOWN"
    BY <2>1 DEF downAfter
  <2>4. QED
    BY <2>2, <2>3
<1> HIDE DEF t, h, none0
<1>5. /\ downAfter(down, h \o t, k)
           <=> downAfter({}, t, k) \/ (downAfter(down, h, k) /\ \A i \in DOMAIN t : ~about(t[i], k))
      /\ downAfter(down, none0 \o t, k)
           <=> \/ downAfter({}, t, k)
               \/ downAfter(down, none0, k) /\ \A i \in DOMAIN t : ~about(t[i], k)
  BY <1>1, DownAfterConcat
<1>6. downAfter(down, t, k) <=> downAfter(down, q, k)
  BY <1>2, <1>3, <1>4, <1>5
<1>7. QED
  BY <1>6 DEF t

LEMMA AnnouncedTail ==
  ASSUME NEW flags, NEW q \in Seq(SentEvent), q # << >>,
         Head(q).type = "MODIFY" => flags = Head(q).flags, NEW n \in 0 .. Len(q) - 1, NEW to
  PROVE  announced(flags, Tail(q), n, to) <=> announced(flags, q, n + 1, to)
<1> DEFINE t == Tail(q)
<1>1. /\ Head(q) = q[1] /\ Len(q) \in Nat /\ n \in Nat
      /\ \A i \in 1 .. n : t[i] = q[i + 1]
      /\ \A i \in 2 .. n + 1 : i - 1 \in 1 .. n /\ q[i] = t[i - 1]
  OBVIOUS
<1> HIDE DEF t
<1>2. ASSUME announced(flags, t, n, to) PROVE announced(flags, q, n + 1, to)
  <2>1. CASE flags = to /\ \A i \in 1 .. n : t[i].type # "MODIFY"
    <3>1. \A i \in 2 .. n + 1 : q[i].type # "MODIFY"
      BY <1>1, <2>1
    <3>2. CASE q[1].type = "MODIFY"
      <4>1. 1 \in 1 .. n + 1 /\ 1 + 1 = 2
        BY <1>1
      <4>2. QED
        BY <1>1, <2>1, <3>1, <3>2, <4>1 DEF announced
    <3>3. CASE q[1].type # "MODIFY"
      <4>1. \A i \in 1 .. n + 1 : i = 1 \/ i \in 2 .. n + 1
        BY <1>1
      <4>2. QED
        BY <2>1, <3>1, <3>3, <4>1 DEF announced
    <3>4. QED
      BY <3>2, <3>3
  <2>2. ASSUME NEW i \in 1 .. n, t[i].type = "MODIFY", t[i].flags = to,
               \A j \in i + 1 .. n : t[j].type # "MODIFY"
        PROVE  announced(flags, q, n + 1, to)
    <3>1. i + 1 \in 1 .. n + 1 /\ q[i + 1] = t[i]
      BY <1>1
    <3>2. ASSUME NEW j \in (i + 1) + 1 .. n + 1 PROVE q[j].type # "MODIFY"
      <4>1. j \in 2 .. n + 1 /\ j - 1 \in i + 1 .. n
        BY <1>1
      <4>2. QED
        BY <1>1, <2>2, <4>1
    <3>3. QED
      BY <2>2, <3>1, <3>2 DEF announced
  <2>3. QED
    BY <1>2, <2>1, <2>2 DEF announced
<1>3. ASSUME announced(flags, q, n + 1, to) PROVE announced(flags, t, n, to)
  <2>1. ASSUME \A i \in 2 .. n + 1 : q[i].type # "MODIFY" PROVE \A i \in 1 .. n : t[i].type # "MODIFY"
    <3>1. \A i \in 1 .. n : i + 1 \in 2 .. n + 1
      BY <1>1
    <3>2. QED
      BY <1>1, <2>1, <3>1
  <2>2. CASE flags = to /\ \A i \in 1 .. n + 1 : q[i].type # "MODIFY"
    <3>1. \A i \in 2 .. n + 1 : i \in 1 .. n + 1
      OBVIOUS
    <3>2. QED
      BY <2>1, <2>2, <3>1 DEF announced
  <2>3. ASSUME NEW i \in 1 .. n + 1, q[i].type = "MODIFY", q[i].flags = to,
               \A j \in i + 1 .. n + 1 : q[j].type # "MODIFY"
        PROVE  announced(flags, t, n, to)
    <3>1. CASE i = 1
      <4>1. flags = to /\ \A j \in 2 .. n + 1 : q[j].type # "MODIFY"
        BY <1>1, <2>3, <3>1
      <4>2. QED
        BY <2>1, <4>1 DEF announced
    <3>2. CASE i # 1
      <4>1. i \in 2 .. n + 1 /\ i - 1 \in 1 .. n /\ q[i] = t[i - 1]
        BY <1>1, <3>2
      <4>2. ASSUME NEW j \in (i - 1) + 1 .. n PROVE t[j].type # "MODIFY"
        <5>1. j \in 1 .. n /\ j + 1 \in i + 1 .. n + 1
          BY <1>1, <4>1
        <5>2. QED
          BY <1>1, <2>3, <5>1
      <4>3. QED
        BY <2>3, <4>1, <4>2 DEF announced
    <3>3. QED
      BY <3>1, <3>2
  <2>4. QED
    BY <1>3, <2>2, <2>3 DEF announced
<1>4. QED
  BY <1>2, <1>3 DEF t

\* The front event is delivered, and then leaves the queue.
LEMMA DeliveryKeeps ==
  ASSUME NEW down, NEW flags, NEW o \in Coherent(down, flags), o.q # << >>,
         NEW newDown, NEW newFlags,
         LET e == Head(o.q)
         IN  /\ newFlags = IF e.type = "MODIFY" THEN e.flags ELSE flags
             /\ newDown = IF e.type = "DOWN" THEN down \cup {e.key}
                          ELSE IF e.type = "UP" THEN down \ {e.key} ELSE down
  PROVE  o \in Midway(newDown, newFlags)
<1> DEFINE e == Head(o.q)
<1>1. o \in SentStatics /\ o.q \in Seq(SentEvent) /\ e \in SentEvent
  BY DEF Coherent, SentStatics
<1> HIDE DEF e
<1>2. /\ newFlags = IF e.type = "MODIFY" THEN e.flags ELSE flags
      /\ newDown = IF e.type = "DOWN" THEN down \cup {e.key}
                   ELSE IF e.type = "UP" THEN down \ {e.key} ELSE down
  BY DEF e
<1>3. Delivered(newDown, newFlags, e)
  BY <1>2 DEF Delivered
<1>4. ASSUME NEW k PROVE downAfter(newDown, o.q, k) <=> downAfter(down, o.q, k)
  <2>1. k \in newDown <=> IF about(e, k) THEN e.type = "DOWN" ELSE k \in down
    BY <1>2 DEF about
  <2>2. QED
    BY <1>1, <2>1, DownAfterDelivery DEF e
<1>5. \A n \in 1 .. Len(o.q) : \A to :
        announced(newFlags, o.q, n, to) <=> announced(flags, o.q, n, to)
  BY <1>1, <1>2, AnnouncedDelivery DEF e
<1>6. announced(newFlags, o.q, Len(o.q), o.last)
  <2>1. Len(o.q) \in 1 .. Len(o.q)
    BY <1>1
  <2>2. QED
    BY <1>5, <2>1 DEF Coherent
<1>7. ASSUME NEW i \in DOMAIN o.q
      PROVE  carriesFlags(newFlags, o.q, i) /\ (i # 1 => changesOneFlag(newFlags, o.q, i))
  <2>1. i \in 1 .. Len(o.q) /\ (i # 1 => i - 1 \in 1 .. Len(o.q))
    BY <1>1
  <2>2. carriesFlags(flags, o.q, i) /\ changesOneFlag(flags, o.q, i)
    BY DEF Coherent
  <2>3. QED
    BY <1>5, <2>1, <2>2 DEF carriesFlags, changesOneFlag
<1>8. QED
  BY <1>1, <1>3, <1>4, <1>6, <1>7 DEF Midway, Coherent, e

LEMMA PopKeeps ==
  ASSUME NEW down, NEW flags, NEW o \in Midway(down, flags)
  PROVE  [o EXCEPT !.q = Tail(@)] \in Coherent(down, flags)
<1> DEFINE q == o.q
           t == Tail(o.q)
           p == [o EXCEPT !.q = Tail(@)]
<1>1. /\ o \in SentStatics /\ q \in Seq(SentEvent) /\ q # << >>
      /\ Delivered(down, flags, Head(q))
  BY DEF Midway, SentStatics
<1>2. /\ t \in Seq(SentEvent) /\ Len(t) = Len(q) - 1 /\ Len(q) \in Nat /\ Len(q) > 0
      /\ \A i \in 1 .. Len(q) - 1 : t[i] = q[i + 1]
  BY <1>1
<1>3. p \in SentStatics /\ p.q = t /\ p.pressed = o.pressed /\ p.last = o.last
  BY <1>1, <1>2 DEF SentStatics
<1> HIDE DEF t, p
<1>4. \A k : downAfter(down, t, k) <=> downAfter(down, q, k)
  BY <1>1, DownAfterTail DEF t
<1>5. \A n \in 0 .. Len(q) - 1 : \A to :
        announced(flags, t, n, to) <=> announced(flags, q, n + 1, to)
  <2>1. Head(q).type = "MODIFY" => flags = Head(q).flags
    BY <1>1 DEF Delivered
  <2>2. QED
    BY <1>1, <2>1, AnnouncedTail DEF t
<1>6. announced(flags, t, Len(t), o.last)
  <2>1. Len(t) \in 0 .. Len(q) - 1 /\ Len(t) + 1 = Len(q)
    BY <1>2
  <2>2. announced(flags, q, Len(q), o.last)
    BY DEF Midway
  <2>3. QED
    BY <1>5, <2>1, <2>2
<1>7. ASSUME NEW i \in DOMAIN t PROVE carriesFlags(flags, t, i) /\ changesOneFlag(flags, t, i)
  <2> HIDE DEF q
  <2>1. i \in 1 .. Len(q) - 1 /\ DOMAIN q = 1 .. Len(q)
    BY <1>1, <1>2
  <2>2. /\ i \in 0 .. Len(q) - 1 /\ i - 1 \in 0 .. Len(q) - 1 /\ (i + 1) - 1 = i /\ (i - 1) + 1 = i
        /\ i + 1 \in DOMAIN q /\ i + 1 # 1 /\ t[i] = q[i + 1]
    BY <1>2, <2>1
  <2>3. carriesFlags(flags, q, i + 1) /\ changesOneFlag(flags, q, i + 1)
    BY <2>2 DEF Midway, q
  <2>4. QED
    BY <1>5, <2>2, <2>3 DEF carriesFlags, changesOneFlag
<1>8. \A k \in OutputKeys : downAfter(down, q, k) <=> o.pressed[k] > 0
  BY DEF Midway
<1>9. p \in Coherent(down, flags)
  BY <1>3, <1>4, <1>6, <1>7, <1>8 DEF Coherent
<1>10. QED
  BY <1>9 DEF p

\* Into the system's callback, and past it.
LEMMA OutputTimerTold ==
  ASSUME IInv, out \in Coherent(os.down, os.flags), OutputTimer
  PROVE  out' \in Midway(os'.down, os'.flags)
<1> DEFINE e == Head(out.q)
<1>1. /\ out \in SentStatics /\ out.q \in Seq(SentEvent) /\ out.q # << >> /\ out' = out
      /\ os' = receive(e)
  BY DEF OutputTimer, OutputReady, Coherent, SentStatics
<1>2. e \in SentEvent /\ e.type \in {"DOWN", "UP", "MODIFY", "POINTER"}
  BY <1>1 DEF SentEvent, OutEvent
<1>3. os \in [down : SUBSET OutputKeys, flags : SUBSET ModifierFlags]
  BY DEF IInv, Types, TypeOK
<1> HIDE DEF e
<1>4. /\ os'.flags = IF e.type = "MODIFY" THEN e.flags ELSE os.flags
      /\ os'.down = IF e.type = "DOWN" THEN os.down \cup {e.key}
                    ELSE IF e.type = "UP" THEN os.down \ {e.key} ELSE os.down
  BY <1>1, <1>2, <1>3 DEF receive
<1>5. out \in Midway(os'.down, os'.flags)
  BY <1>1, <1>4, DeliveryKeeps DEF e
<1>6. QED
  BY <1>1, <1>5

LEMMA OutputDoneTold ==
  ASSUME IInv, out \in Midway(os.down, os.flags), OutputDone
  PROVE  out' \in Coherent(os'.down, os'.flags)
  BY PopKeeps DEF OutputDone, popOutput

\* Whatever else a step emits keeps any closed set of statics.
LEMMA FinishEventEmits ==
  ASSUME NEW T, Closed(T), NEW o \in T, NEW p, NEW h, FinishEvent(o, p, h)
  PROVE  out' \in T
  BY FlushKeeps DEF FinishEvent, output

LEMMA InputEmits ==
  ASSUME IInv, NEW T, Closed(T), out \in T, InputTimer
  PROVE  out' \in T
<1> DEFINE o == [out EXCEPT !.fs = fsOfEvent]
           h == heldAfter(held, event)
<1>1. inq # << >>
  BY DEF InputTimer, PassThrough, Remap, StartKeys, InputReady
<1>2. event \in Event /\ event.key \in KeyCodes
  BY <1>1, EventType
<1>3. o \in T
  <2>1. out.fs \in FlagStatusItems
    BY ItemsType DEF Closed
  <2>2. fsOfEvent \in FlagStatusItems
    BY <2>1, SetType DEF fsOfEvent
  <2>3. QED
    BY <2>2, ClosedItems
<1>4. CASE PassThrough
  <2> DEFINE t == eventType(event.key, event.down)
             c == Call(t, event.key, makeFlags(fsOfEvent), FALSE)
  <2>1. FinishEvent(FireKey(o, c), repeatSet(rep, c), h)
    BY <1>4 DEF PassThrough
  <2>2. t \in {"DOWN", "UP", "MODIFY"} /\ makeFlags(fsOfEvent) \in SUBSET ModifierFlags
    BY EventTypeType, MakeFlagsType
  <2> HIDE DEF o, t
  <2>3. FireKey(o, c) \in T
    BY <1>2, <1>3, <2>2, FireKeyOnce
  <2>4. QED
    BY <2>1, <2>3, FinishEventEmits
<1>5. ASSUME NEW i \in DOMAIN rules, Remap(i) PROVE out' \in T
  <2> DEFINE r == rules[i]
  <2>1. r \in Rule /\ Len(r.to) \in Nat
    BY RuleType DEF IInv, Types, TypeOK, Rule
  <2>2. \/ Len(r.to) = 0 /\ FinishEvent([o EXCEPT !.fs = dropFromKey(@, r, event)], rep, h)
        \/ Len(r.to) = 1 /\ FinishEvent(RemapSingle(o, r, event), RepeatSingle(rep, o, r, event), h)
        \/ /\ Len(r.to) > 1
           /\ FinishEvent(RemapKeysUp(o, r, event), RepeatKeysUp(rep, r, i), h)
    BY <1>5, RemapCases
  <2> HIDE DEF o, r
  <2>3. [o EXCEPT !.fs = dropFromKey(@, r, event)] \in T
    <3>1. o.fs \in FlagStatusItems
      BY <1>3, ItemsType DEF Closed
    <3>2. dropFromKey(o.fs, r, event) \in FlagStatusItems
      BY <3>1, RuleFlagsType
    <3>3. QED
      BY <1>3, <3>2, ClosedItems
  <2>4. Len(r.to) = 1 => RemapSingle(o, r, event) \in T
    BY <1>2, <1>3, <2>1, RemapSingleKeeps
  <2>5. Len(r.to) > 1 => RemapKeysUp(o, r, event) \in T
    <3>1. Len(r.to) > 1 => Len(r.to) > 0
      BY <2>1
    <3>2. QED
      BY <1>3, <2>1, <3>1, RemapKeysUpKeeps
  <2>6. QED
    BY <2>2, <2>3, <2>4, <2>5, FinishEventEmits
<1>6. ASSUME NEW i \in DOMAIN rules, StartKeys(i) PROVE out' \in T
  <2>1. out' = RemapKeysDown(o, rules[i], event)
    BY <1>6 DEF StartKeys
  <2> HIDE DEF o
  <2>2. QED
    BY <1>3, <2>1, RemapKeysDownKeeps
<1>7. QED
  BY <1>4, <1>5, <1>6 DEF InputTimer

LEMMA RepeatItemEmits ==
  ASSUME IInv, RepeatInv, NEW T, Closed(T), out \in T,
         NEW i \in 1 .. Len(rep.items), RepeatItemFires(i)
  PROVE  out' \in T
<1>1. rep.items \in Seq(RepeatItem)
  BY DEF IInv, Types, TypeOK, RepeatState
<1>2. rep.items[i] \in RepeatItem /\ i \in DOMAIN rep.items
  BY <1>1
<1>3. out' = fireItem(i)
  BY DEF RepeatItemFires, output
<1>4. CASE rep.items[i].type = "NORMAL"
  <2> DEFINE c == Call("DOWN", rep.items[i].key, rep.items[i].flags, Len(rep.items) = 1)
  <2>1. c \in FireCall
    BY <1>2, CallType DEF RepeatItem
  <2>2. c.key \in OutputKeys => c.type = "DOWN" /\ out.pressed[c.key] > 0
    BY <1>2, <1>4 DEF RepeatInv, ItemsPressed, Call
  <2>3. out' = FireKey(out, c)
    BY <1>3, <1>4 DEF fireItem
  <2> HIDE DEF c
  <2>4. c \in FireOutputCall => FireOutputable(out, c) \in T
    BY <2>2 DEF FireOutputCall, Closed
  <2>5. QED
    BY <2>1, <2>3, <2>4, FireKeyKeeps
<1>5. CASE rep.items[i].type # "NORMAL"
  <2>1. out' = fire_downup(out, rep.items[i].flags, rep.items[i].key)
    BY <1>3, <1>5 DEF fireItem
  <2>2. QED
    BY <1>2, <2>1, FireDownUpKeeps DEF RepeatItem
<1>6. QED
  BY <1>4, <1>5

LEMMA LoopEmits ==
  ASSUME IInv, NEW T, Closed(T), out \in T, KeysStep \/ KeysEnd
  PROVE  out' \in T
<1> DEFINE r == rules[loop.rule]
<1>1. /\ r \in Rule /\ Len(r.to) \in Nat /\ Len(r.to) > 0
      /\ loop.next \in Nat /\ loop.next > 0
  <2>1. /\ r \in Rule /\ Len(r.to) \in Nat /\ Len(r.to) > 1
        /\ loop.next \in Nat /\ loop.next > 0
    BY LoopRuleType DEF KeysStep, KeysEnd
  <2> HIDE DEF r
  <2>2. QED
    BY <2>1
<1>2. CASE KeysStep
  <2>1. loop.next <= keysInLoop(r) /\ out' = fireTarget(out, r.to[loop.next])
    BY <1>2 DEF KeysStep, output
  <2> HIDE DEF r
  <2>2. loop.next \in 1 .. Len(r.to)
    BY <1>1, <2>1 DEF keysInLoop
  <2>3. QED
    BY <1>1, <2>1, <2>2, TargetType, FireTargetKeeps
<1>3. CASE KeysEnd
  <2>1. \E q : FinishEvent(IF lastIsModifier(r) THEN holdLast(out, r) ELSE out, q, held)
    BY <1>3 DEF KeysEnd
  <2> HIDE DEF r
  <2>2. holdLast(out, r) \in T
    BY <1>1, HoldLastKeeps
  <2>3. QED
    BY <2>1, <2>2, FinishEventEmits
<1>4. QED
  BY <1>2, <1>3

\* The items of KeyboardRepeat, one at a time.
LEMMA RepeatFires ==
  ASSUME IInv, RepeatTimer \/ RepeatStep
  PROVE  \E i \in 1 .. Len(rep.items) : RepeatItemFires(i)
<1>1. rep.items \in Seq(RepeatItem) /\ Len(rep.items) \in Nat
  BY DEF IInv, Types, TypeOK, RepeatState
<1>2. CASE RepeatTimer
  <2>1. 1 \in 1 .. Len(rep.items) /\ RepeatItemFires(1)
    BY <1>1, <1>2 DEF RepeatTimer
  <2>2. QED
    BY <2>1
<1>3. CASE RepeatStep
  BY <1>3 DEF RepeatStep, IInv, LoopInRange
<1>4. QED
  BY <1>2, <1>3

\* While the callback runs nothing is emitted; otherwise the system is told nothing.
LEMMA SystemToldOnlyByTimer ==
  ASSUME IInv, Still, undisturbed, Ordinary, ~OutputTimer, ~OutputDone
  PROVE  /\ os' = os /\ sending' = sending
         /\ sending => out' = out
<1>1. ASSUME NEW k \in PhysKeys, KeyMoves(k) PROVE UNCHANGED << os, sending, out >>
  BY <1>1 DEF KeyMoves, Still
<1>2. CASE InputTimer
  BY <1>2 DEF InputTimer, PassThrough, Remap, StartKeys, InputReady, FinishEvent
<1>3. CASE KeysStep \/ KeysEnd
  <2>1. ~sending
    BY <1>3, LoopRuleType DEF KeysStep, KeysEnd
  <2>2. QED
    BY <1>3, <2>1 DEF KeysStep, KeysEnd, FinishEvent
<1>4. CASE RepeatTimer \/ RepeatStep
  BY <1>4 DEF RepeatTimer, RepeatStep, RepeatItemFires, IInv, LoopInRange, idle
<1>5. CASE SetWorkspaceData \/ UNCHANGED vars
  BY <1>5 DEF SetWorkspaceData, vars
<1>6. QED
  BY <1>1, <1>2, <1>3, <1>4, <1>5 DEF Ordinary

LEMMA OrdinaryEmits ==
  ASSUME IInv, RepeatInv, NEW T, Closed(T), out \in T, Ordinary, ~OutputTimer, ~OutputDone
  PROVE  out' \in T
<1>1. ASSUME NEW k \in PhysKeys, KeyMoves(k) PROVE out' = out
  BY <1>1 DEF KeyMoves
<1>2. CASE RepeatTimer \/ RepeatStep
  BY <1>2, RepeatFires, RepeatItemEmits
<1>3. CASE SetWorkspaceData \/ UNCHANGED vars
  BY <1>3 DEF SetWorkspaceData, vars
<1>4. QED
  BY <1>1, <1>2, <1>3, InputEmits, LoopEmits DEF Ordinary

LEMMA InitCoherent ==
  ASSUME Init
  PROVE  out \in Coherent(os.down, os.flags) /\ ~sending
<1>1. out \in SentStatics
  BY InitIInv DEF IInv, Types
<1>2. /\ out.q = << >> /\ out.last = {} /\ out.pressed = nonePressed
      /\ os.down = {} /\ os.flags = {} /\ ~sending
  BY DEF Init
<1>3. \A k \in OutputKeys : downAfter(os.down, out.q, k) <=> out.pressed[k] > 0
  BY <1>2 DEF downAfter, nonePressed
<1>4. announced(os.flags, out.q, Len(out.q), out.last)
  <2>1. Len(out.q) = 0 /\ \A i \in 1 .. 0 : FALSE
    BY <1>2
  <2>2. QED
    BY <1>2, <2>1 DEF announced
<1>5. DOMAIN out.q = {}
  BY <1>2
<1>6. QED
  BY <1>1, <1>2, <1>3, <1>4, <1>5 DEF Coherent

LEMMA ToldInvariance == Spec => []Told
<1>1. Init => Told
  BY InitCoherent DEF Told
<1>2. ASSUME IInv, Still, RepeatInv, Told, [Next]_vars PROVE Told'
  <2>1. SUFFICES ASSUME undisturbed'
                 PROVE  IF sending' THEN out' \in Midway(os'.down, os'.flags)
                        ELSE out' \in Coherent(os'.down, os'.flags)
    BY DEF Told, Midway, Coherent
  <2>2. undisturbed /\ Ordinary
    BY <1>2, <2>1, UndisturbedStep
  <2>3. IF sending THEN out \in Midway(os.down, os.flags) ELSE out \in Coherent(os.down, os.flags)
    BY <1>2, <2>2 DEF Told
  <2>4. CASE OutputTimer
    BY <1>2, <2>3, <2>4, OutputTimerTold DEF OutputTimer, OutputReady
  <2>5. CASE OutputDone
    BY <1>2, <2>3, <2>5, OutputDoneTold DEF OutputDone
  <2>6. CASE ~OutputTimer /\ ~OutputDone
    <3>1. os' = os /\ sending' = sending /\ (sending => out' = out)
      BY <1>2, <2>2, <2>6, SystemToldOnlyByTimer
    <3>2. CASE sending
      BY <2>3, <3>1, <3>2
    <3>3. CASE ~sending
      <4> DEFINE T == Coherent(os.down, os.flags)
      <4>1. Closed(T) /\ out \in T
        BY <2>3, <3>3, CoherentClosed
      <4> HIDE DEF T
      <4>2. out' \in T
        BY <1>2, <2>2, <2>6, <4>1, OrdinaryEmits
      <4>3. QED
        BY <3>1, <3>3, <4>2 DEF T
    <3>4. QED
      BY <3>2, <3>3
  <2>7. QED
    BY <2>4, <2>5, <2>6
<1>3. QED
  BY <1>1, <1>2, Invariance, StillInvariance, RepeatInvariance, PTL DEF Spec

\* PressDownKeys::list_ is exactly what the system will hold, for every keyboard and
\* every set of rules: no key can stay down without the flush knowing about it.
THEOREM PressedIsHeld == Spec => []PressedIsWhatSystemHolds
<1>1. Told => PressedIsWhatSystemHolds
  BY DEF Told, PressedIsWhatSystemHolds, Midway, Coherent
<1>2. QED
  BY <1>1, ToldInvariance, PTL

\* FireModifiers::lastFlags_ is what the system will have been told, each MODIFY
\* changes the one flag of its key, and a key-down carries exactly the flags
\* announced before it, whatever the rules and however often the keys repeat.
THEOREM AnnouncedAlways == Spec => []ModifiersAnnounced
<1>1. Told => ModifiersAnnounced
  BY DEF Told, ModifiersAnnounced, Midway, Coherent, carriesFlags, changesOneFlag
<1>2. QED
  BY <1>1, ToldInvariance, PTL

-------------------------------------------------------------------------------
(***************************************************************************)
(* Across reloads and plugging.  The queue stays coherent with some system *)
(* that was told of keys and flags before it, though no longer with the    *)
(* one there is; what the queue speaks of does not depend on which.        *)
(***************************************************************************)
SomeSystem == \E down, flags : out \in Coherent(down, flags)

LEMMA PopKeepsSomeSystem ==
  ASSUME SomeSystem, out.q # << >>, popOutput
  PROVE  SomeSystem'
<1> DEFINE e == Head(out.q)
<1>1. PICK down, flags : out \in Coherent(down, flags)
  BY DEF SomeSystem
<1>2. PICK newFlags : newFlags = IF e.type = "MODIFY" THEN e.flags ELSE flags
  OBVIOUS
<1>3. PICK newDown : newDown = IF e.type = "DOWN" THEN down \cup {e.key}
                               ELSE IF e.type = "UP" THEN down \ {e.key} ELSE down
  OBVIOUS
<1>4. out \in Midway(newDown, newFlags)
  BY <1>1, <1>2, <1>3, DeliveryKeeps
<1>5. out' \in Coherent(newDown, newFlags)
  BY <1>4, PopKeeps DEF popOutput
<1>6. QED
  BY <1>5 DEF SomeSystem, Coherent

LEMMA EmitKeepsSomeSystem ==
  ASSUME IInv, RepeatInv, SomeSystem, [Next]_vars, ~OutputTimer, ~OutputDone, ~OutputDropped
  PROVE  SomeSystem'
<1>1. PICK down, flags : out \in Coherent(down, flags)
  BY DEF SomeSystem
<1> DEFINE T == Coherent(down, flags)
<1>2. Closed(T) /\ out \in T
  BY <1>1, CoherentClosed
<1> HIDE DEF T
<1>3. ASSUME Ordinary PROVE out' \in T
  BY <1>2, <1>3, OrdinaryEmits
<1>4. ASSUME NEW value, set_initialized(value) PROVE out' \in T
  <2>1. out.fs \in FlagStatusItems
    BY <1>2 DEF Closed, SentStatics
  <2>2. sticky_clear(lock_clear(out.fs)) \in FlagStatusItems
    BY <2>1, LockStickyType
  <2>3. out' = [out EXCEPT !.fs = sticky_clear(lock_clear(out.fs))]
    BY <1>4 DEF set_initialized
  <2>4. QED
    BY <1>2, <2>2, <2>3, ClosedItems
<1>5. ASSUME (\E rs \in RuleSets : SetRemapClasses(rs)) \/ SetConfig PROVE out' \in T
  BY <1>4, <1>5 DEF SetRemapClasses, SetConfig
<1>6. ASSUME RefreshTimer \/ Unplug \/ Plug PROVE out' \in T
  BY <1>2, <1>6 DEF RefreshTimer, Unplug, Plug
<1>7. out' \in T
  BY <1>3, <1>5, <1>6 DEF Next, Ordinary
<1>8. QED
  BY <1>7 DEF T, SomeSystem, Coherent

LEMMA SomeSystemInvariance == Spec => []SomeSystem
<1>1. Init => SomeSystem
  BY InitCoherent DEF SomeSystem
<1>2. ASSUME IInv, RepeatInv, SomeSystem, [Next]_vars PROVE SomeSystem'
  <2>1. CASE OutputTimer
    BY <1>2, <2>1 DEF OutputTimer, SomeSystem, Coherent
  <2>2. CASE OutputDone
    BY <1>2, <2>2, PopKeepsSomeSystem DEF OutputDone, IInv, LoopInRange
  <2>3. CASE OutputDropped
    BY <1>2, <2>3, PopKeepsSomeSystem DEF OutputDropped, OutputReady
  <2>4. QED
    BY <1>2, <2>1, <2>2, <2>3, EmitKeepsSomeSystem
<1>3. QED
  BY <1>1, <1>2, Invariance, RepeatInvariance, PTL DEF Spec

\* Whatever was dropped or bypassed the hook in a reload, a refresh or while the
\* keyboard was unplugged, the output still queued brings the keys and modifiers
\* it speaks of to what PressDownKeys::list_ and lastFlags_ remember.
THEOREM DeliveryAlwaysMends == Spec => []DeliveryMends
<1>1. ASSUME SomeSystem PROVE DeliveryMends
  <2> DEFINE q == out.q
  <2>1. PICK down, flags : out \in Coherent(down, flags)
    BY <1>1 DEF SomeSystem
  <2>2. ASSUME NEW k, \E i \in DOMAIN q : about(q[i], k)
        PROVE  downAfter(os.down, q, k) <=> downAfter(down, q, k)
    BY <2>2 DEF downAfter
  <2>3. ASSUME NEW n, \E j \in 1 .. n : q[j].type = "MODIFY", NEW to
        PROVE  announced(os.flags, q, n, to) <=> announced(flags, q, n, to)
    BY <2>3 DEF announced
  <2>4. /\ \A k \in OutputKeys : downAfter(down, q, k) <=> out.pressed[k] > 0
        /\ announced(flags, q, Len(q), out.last)
        /\ \A i \in DOMAIN q : carriesFlags(flags, q, i) /\ changesOneFlag(flags, q, i)
    BY <2>1 DEF Coherent
  <2> HIDE DEF q
  <2>5. \A k \in OutputKeys : (\E i \in DOMAIN q : about(q[i], k)) =>
          (downAfter(os.down, q, k) <=> out.pressed[k] > 0)
    BY <2>2, <2>4
  <2>6. (\E j \in 1 .. Len(q) : q[j].type = "MODIFY") => announced(os.flags, q, Len(q), out.last)
    BY <2>3, <2>4
  <2>7. ASSUME NEW i \in DOMAIN q
        PROVE  /\ q[i].type = "DOWN" /\ (\E j \in 1 .. i : q[j].type = "MODIFY") =>
                    announced(os.flags, q, i, q[i].flags)
               /\ q[i].type = "MODIFY" /\ (\E j \in 1 .. i - 1 : q[j].type = "MODIFY") =>
                    announced(os.flags, q, i - 1, toggled(q[i].flags, q[i].key))
    <3>1. carriesFlags(flags, q, i) /\ changesOneFlag(flags, q, i)
      BY <2>4
    <3>2. QED
      BY <2>3, <3>1 DEF carriesFlags, changesOneFlag
  <2>8. QED
    BY <2>5, <2>6, <2>7 DEF DeliveryMends, q
<1>2. QED
  BY <1>1, SomeSystemInvariance, PTL

-------------------------------------------------------------------------------
(***************************************************************************)
(* Nothing is left when no key is held, until the next key goes down.      *)
(***************************************************************************)
CleanAtZero ==
  undisturbed /\ loop.kind # "keys" /\ held = 0 =>
    /\ out.pressed = nonePressed /\ rep.items = << >>
    /\ out.last = heldWithoutKeys(out.fs) \ ExtraFlags

LEMMA CleanAtZeroInvariance == Spec => []CleanAtZero
<1>1. Init => CleanAtZero
  BY DEF Init, CleanAtZero, initializeItems, heldWithoutKeys
<1>2. ASSUME IInv, Still, CleanAtZero, [Next]_vars PROVE CleanAtZero'
  <2>1. SUFFICES ASSUME undisturbed', loop'.kind # "keys", held' = 0
                 PROVE  /\ out'.pressed = nonePressed /\ rep'.items = << >>
                        /\ out'.last = heldWithoutKeys(out'.fs) \ ExtraFlags
    BY DEF CleanAtZero, heldWithoutKeys
  <2>2. undisturbed /\ Ordinary
    BY <1>2, <2>1, UndisturbedStep
  <2>3. ASSUME UNCHANGED << held, rep >>, loop.kind # "keys", out'.pressed = out.pressed,
               out'.last = out.last, out'.fs = out.fs
        PROVE  /\ out'.pressed = nonePressed /\ rep'.items = << >>
               /\ out'.last = heldWithoutKeys(out'.fs) \ ExtraFlags
    BY <1>2, <2>1, <2>2, <2>3 DEF CleanAtZero
  <2>4. ASSUME Finishes
        PROVE  /\ out'.pressed = nonePressed /\ rep'.items = << >>
               /\ out'.last = heldWithoutKeys(out'.fs) \ ExtraFlags
    <3>1. held' <= 0
      BY <2>1
    <3>2. Flushed
      BY <2>4, <3>1, FinishEventFlushes DEF Finishes
    <3>3. QED
      BY <3>2 DEF Flushed
  <2>5. ASSUME NEW k \in PhysKeys, KeyMoves(k) PROVE UNCHANGED << held, rep, loop, out >>
    BY <2>5 DEF KeyMoves
  <2>6. CASE InputTimer
    <3>1. ASSUME NEW i \in DOMAIN rules, StartKeys(i) PROVE FALSE
      BY <2>1, <3>1 DEF StartKeys
    <3>2. QED
      BY <1>2, <2>4, <2>6, <3>1, PassThroughFinishes, RemapFinishes DEF InputTimer
  <2>7. CASE KeysStep
    BY <1>2, <2>1, <2>7 DEF KeysStep, IInv, Types, TypeOK, LoopState
  <2>8. CASE KeysEnd
    BY <1>2, <2>4, <2>8, KeysEndFinishes
  <2>9. CASE RepeatTimer \/ RepeatStep
    <3>1. \E i \in 1 .. Len(rep.items) : RepeatItemFires(i)
      BY <1>2, <2>9, RepeatFires
    <3>2. loop.kind # "keys" /\ held' = held
      BY <2>9, <3>1 DEF RepeatTimer, RepeatStep, RepeatItemFires, idle
    <3>3. rep.items = << >>
      BY <1>2, <2>1, <2>2, <3>2 DEF CleanAtZero
    <3>4. QED
      BY <3>1, <3>3
  <2>10. CASE OutputTimer \/ OutputDone
    <3>1. loop = idle /\ UNCHANGED << held, rep >>
      BY <1>2, <2>10 DEF OutputTimer, OutputReady, OutputDone, IInv, LoopInRange
    <3>2. out'.pressed = out.pressed /\ out'.last = out.last /\ out'.fs = out.fs
      BY <1>2, <2>10 DEF OutputTimer, OutputDone, popOutput, IInv, Types, SentStatics
    <3>3. QED
      BY <2>3, <3>1, <3>2 DEF idle
  <2>11. CASE SetWorkspaceData \/ UNCHANGED vars
    BY <2>1, <2>3, <2>11 DEF SetWorkspaceData, vars
  <2>12. QED
    BY <2>1, <2>2, <2>3, <2>5, <2>6, <2>7, <2>8, <2>9, <2>10, <2>11 DEF Ordinary
<1>3. QED
  BY <1>1, <1>2, Invariance, StillInvariance, PTL DEF Spec

\* When every key but CapsLock is up and all is delivered, the system holds no key
\* and its modifiers are the locked and sticky ones: for every keyboard and every set
\* of rules, whichever keys were interleaved, repeated or converted before.
THEOREM AllReleased == Spec => []AllReleasedClean
<1>1. ASSUME IInv, HeldInv, Told, CleanAtZero PROVE AllReleasedClean
  <2>1. SUFFICES ASSUME undisturbed, quiet, phys \ {CAPSLOCK} = {}
                 PROVE  os.down = {} /\ os.flags = heldWithoutKeys(out.fs) \ ExtraFlags
    BY DEF AllReleasedClean
  <2>2. loop = idle /\ loop.kind # "keys" /\ ~sending /\ inq = << >> /\ out.q = << >>
    BY <2>1 DEF quiet, idle
  <2>3. \A k : downBefore(phys, inq, 1, k) <=> k \in phys
    <3>1. inq \in Seq(Event) /\ Len(inq) + 1 = 1
      BY <2>2
    <3>2. QED
      BY <3>1, DownBeforeEnd
  <2>4. handled \ {CAPSLOCK} = {}
    BY <2>1, <2>2, <2>3 DEF handled, first
  <2>5. held = 0
    BY <1>1, <2>1, <2>4, FS_EmptySet DEF HeldInv
  <2>6. out.pressed = nonePressed /\ out.last = heldWithoutKeys(out.fs) \ ExtraFlags
    BY <1>1, <2>1, <2>2, <2>5 DEF CleanAtZero
  <2>7. out \in Coherent(os.down, os.flags)
    BY <1>1, <2>1, <2>2 DEF Told
  <2>8. os.down = {}
    <3>1. os.down \in SUBSET OutputKeys
      BY <1>1 DEF IInv, Types, TypeOK
    <3>2. \A k \in OutputKeys : k \notin os.down
      BY <2>2, <2>6, <2>7 DEF Coherent, downAfter, nonePressed
    <3>3. QED
      BY <3>1, <3>2
  <2>9. os.flags = out.last
    BY <2>2, <2>7 DEF Coherent, announced
  <2>10. QED
    BY <2>6, <2>8, <2>9
<1>2. QED
  BY <1>1, Invariance, HeldInvariance, ToldInvariance, CleanAtZeroInvariance, PTL
===============================================================================
