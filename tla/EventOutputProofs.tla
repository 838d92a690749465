-------------------------- MODULE EventOutputProofs ---------------------------
(***************************************************************************)
(* Facts about the operators of FlagStatus, for any set of modifier flags, *)
(* and what the operators of EventOutput preserve: the types of the        *)
(* statics, that nothing is queued or remembered as announced that must    *)
(* not leave (the extra modifiers), and that lastFlags_, the list of       *)
(* pressed keys and every queued event agree with what the system will     *)
(* have been told.                                                         *)
(***************************************************************************)
EXTENDS EventOutput, FiniteSetTheorems, TLAPS

\* Every operator returns an item_ array: the counters stay integers, and the
\* lock and the sticky count stay 0 or 1.
LEMMA InitializeType == initializeItems \in FlagStatusItems
  BY DEF initializeItems, FlagStatusItems, Item

LEMMA ItemType ==
  ASSUME NEW item \in Item, NEW f, NEW flags
  PROVE  /\ increaseItem(f, item) \in Item
         /\ decreaseItem(f, item) \in Item
         /\ setItem(f, item, flags) \in Item
  BY DEF Item, increaseItem, decreaseItem, setItem

LEMMA SetType ==
  ASSUME NEW fs \in FlagStatusItems, NEW key, NEW flags
  PROVE  /\ clearTemporary(fs) \in FlagStatusItems
         /\ setKey(fs, key, flags) \in FlagStatusItems
<1>1. clearTemporary(fs) \in FlagStatusItems
  BY DEF clearTemporary, FlagStatusItems, Item
<1>2. \A f \in ModifierFlags : clearTemporary(fs)[f] \in Item
  BY <1>1 DEF FlagStatusItems
<1>3. setKey(fs, key, flags) \in FlagStatusItems
  BY <1>2, ItemType DEF setKey, FlagStatusItems
<1>4. QED
  BY <1>1, <1>3

LEMMA CountType ==
  ASSUME NEW fs \in FlagStatusItems, NEW flags
  PROVE  /\ increase(fs, flags) \in FlagStatusItems
         /\ decrease(fs, flags) \in FlagStatusItems
  BY ItemType DEF increase, decrease, FlagStatusItems

LEMMA AddTemporaryType ==
  ASSUME NEW fs \in FlagStatusItems, NEW delta \in [ModifierFlags -> Int]
  PROVE  addTemporary(fs, delta) \in FlagStatusItems
  BY DEF addTemporary, FlagStatusItems, Item

LEMMA TemporaryType ==
  ASSUME NEW fs \in FlagStatusItems, NEW flags
  PROVE  /\ temporary_increase(fs, flags) \in FlagStatusItems
         /\ temporary_decrease(fs, flags) \in FlagStatusItems
  BY AddTemporaryType DEF temporary_increase, temporary_decrease

LEMMA LockStickyType ==
  ASSUME NEW fs \in FlagStatusItems, NEW flags, NEW op
  PROVE  /\ setLock(fs, flags, op) \in FlagStatusItems
         /\ lock_clear(fs) \in FlagStatusItems
         /\ sticky_toggle(fs, flags) \in FlagStatusItems
         /\ sticky_clear(fs) \in FlagStatusItems
         /\ resetItems(fs) \in FlagStatusItems
<1>1. setLock(fs, flags, op) \in FlagStatusItems
  BY DEF setLock, FlagStatusItems, Item
<1>2. lock_clear(fs) \in FlagStatusItems /\ sticky_clear(fs) \in FlagStatusItems
  BY DEF lock_clear, sticky_clear, FlagStatusItems, Item
<1>3. sticky_toggle(fs, flags) \in FlagStatusItems
  BY DEF sticky_toggle, FlagStatusItems, Item
<1>4. resetItems(fs) \in FlagStatusItems
  BY DEF resetItems, FlagStatusItems, Item
<1>5. QED
  BY <1>1, <1>2, <1>3, <1>4

LEMMA TotalType ==
  ASSUME NEW fs \in FlagStatusItems, NEW f \in ModifierFlags
  PROVE  Total(fs[f]) \in Int
  BY DEF Total, FlagStatusItems, Item

LEMMA ScopeType ==
  ASSUME NEW fs \in FlagStatusItems, NEW toFlags
  PROVE  /\ scopeDelta(fs, toFlags) \in [ModifierFlags -> Int]
         /\ scopeEnter(fs, toFlags) \in FlagStatusItems
<1>1. scopeDelta(fs, toFlags) \in [ModifierFlags -> Int]
  BY TotalType DEF scopeDelta
<1>2. QED
  BY <1>1, AddTemporaryType DEF scopeEnter

LEMMA ScopeExitType ==
  ASSUME NEW fs \in FlagStatusItems, NEW delta \in [ModifierFlags -> Int]
  PROVE  scopeExit(fs, delta) \in FlagStatusItems
<1>1. [f \in ModifierFlags |-> -delta[f]] \in [ModifierFlags -> Int]
  OBVIOUS
<1>2. QED
  BY <1>1, AddTemporaryType DEF scopeExit

-------------------------------------------------------------------------------
\* Inside a ScopedTemporaryFlagsChanger exactly the flags it was given are on,
\* whatever counts, locks and stickies there were (FlagStatus.hpp:49-80).
THEOREM ScopeTurnsOn ==
  ASSUME NEW fs \in FlagStatusItems, NEW toFlags \in SUBSET ModifierFlags
  PROVE  makeFlags(scopeEnter(fs, toFlags)) = toFlags
<1>1. ASSUME NEW f \in ModifierFlags
      PROVE  Total(scopeEnter(fs, toFlags)[f]) = IF f \in toFlags THEN 1 ELSE 0
  BY DEF scopeEnter, scopeDelta, addTemporary, Total, FlagStatusItems, Item
<1>2. QED
  BY <1>1 DEF makeFlags

\* Its destructor takes back what its constructor added.
LEMMA ScopeUndone ==
  ASSUME NEW fs \in FlagStatusItems, NEW delta \in [ModifierFlags -> Int]
  PROVE  scopeExit(addTemporary(fs, delta), delta) = fs
<1> DEFINE back == scopeExit(addTemporary(fs, delta), delta)
<1>1. ASSUME NEW f \in ModifierFlags
      PROVE  back[f] = fs[f]
  <2> DEFINE d == delta[f]
  <2>1. fs[f] \in Item /\ d \in Int
    BY DEF FlagStatusItems
  <2>2. addTemporary(fs, delta)[f] = [fs[f] EXCEPT !.temporary = @ + d]
    BY DEF addTemporary
  <2>3. back[f] = [addTemporary(fs, delta)[f] EXCEPT !.temporary = @ + (-d)]
    BY DEF scopeExit, addTemporary
  <2> HIDE DEF d, back
  <2>4. (fs[f].temporary + d) + (-d) = fs[f].temporary
    BY <2>1 DEF Item
  <2>5. QED
    BY <2>1, <2>2, <2>3, <2>4 DEF Item
<1>2. back \in [ModifierFlags -> Item] /\ fs \in [ModifierFlags -> Item]
  BY AddTemporaryType, ScopeExitType DEF FlagStatusItems
<1>3. QED
  BY <1>1, <1>2

\* After FlagStatus::reset only what is locked or sticky is on.
THEOREM ResetForgetsKeys ==
  ASSUME NEW fs \in FlagStatusItems
  PROVE  makeFlags(resetItems(fs)) = heldWithoutKeys(fs)
<1>1. ASSUME NEW f \in ModifierFlags
      PROVE  Total(resetItems(fs)[f]) = fs[f].lock + fs[f].sticky
  <2>1. fs[f] \in Item
    BY DEF FlagStatusItems
  <2>2. resetItems(fs)[f]
          = [count |-> 0, temporary |-> 0, lock |-> fs[f].lock, sticky |-> fs[f].sticky]
    BY DEF resetItems
  <2>3. QED
    BY <2>1, <2>2 DEF Total, Item
<1>2. QED
  BY <1>1 DEF makeFlags, heldWithoutKeys

\* A release takes back what the press counted, for every flag but CapsLock,
\* which toggles on the press and ignores the release.
THEOREM DecreaseUndoesIncrease ==
  ASSUME NEW fs \in FlagStatusItems, NEW flags, NEW f \in ModifierFlags, f # CAPSLOCK
  PROVE  /\ decrease(increase(fs, flags), flags)[f] = fs[f]
         /\ increase(decrease(fs, flags), flags)[f] = fs[f]
<1>1. /\ fs[f] \in Item
      /\ increase(fs, flags) \in FlagStatusItems
      /\ decrease(fs, flags) \in FlagStatusItems
  BY CountType DEF FlagStatusItems
<1>2. ASSUME NEW item \in Item
      PROVE  /\ decreaseItem(f, increaseItem(f, item)) = item
             /\ increaseItem(f, decreaseItem(f, item)) = item
  <2>1. /\ increaseItem(f, item) = [item EXCEPT !.count = @ + 1]
        /\ decreaseItem(f, item) = [item EXCEPT !.count = @ - 1]
    BY DEF increaseItem, decreaseItem
  <2>2. increaseItem(f, item) \in Item /\ decreaseItem(f, item) \in Item
    BY ItemType
  <2>3. /\ decreaseItem(f, increaseItem(f, item)) = [increaseItem(f, item) EXCEPT !.count = @ - 1]
        /\ increaseItem(f, decreaseItem(f, item)) = [decreaseItem(f, item) EXCEPT !.count = @ + 1]
    BY DEF increaseItem, decreaseItem
  <2>4. ASSUME NEW other \in Item, NEW n \in {-1, 1},
               other = [item EXCEPT !.count = @ + n]
        PROVE  [other EXCEPT !.count = @ - n] = item
    <3>1. (item.count + n) - n = item.count
      BY DEF Item
    <3>2. QED
      BY <2>4, <3>1 DEF Item
  <2>5. decreaseItem(f, increaseItem(f, item)) = item
    BY <2>1, <2>2, <2>3, <2>4
  <2>6. increaseItem(f, decreaseItem(f, item)) = item
    <3>1. ASSUME NEW other \in Item
          PROVE  /\ [other EXCEPT !.count = @ - 1] = [other EXCEPT !.count = @ + (-1)]
                 /\ [other EXCEPT !.count = @ + 1] = [other EXCEPT !.count = @ - (-1)]
      BY DEF Item
    <3>2. QED
      BY <2>1, <2>2, <2>3, <2>4, <3>1
  <2>7. QED
    BY <2>5, <2>6
<1>3. CASE f \in flags
  BY <1>1, <1>2, <1>3 DEF increase, decrease
<1>4. CASE f \notin flags
  BY <1>4 DEF increase, decrease
<1>5. QED
  BY <1>3, <1>4
-------------------------------------------------------------------------------
\* The flags that FireModifiers announces, and an event that carries no others.
SentFlags == ModifierFlags \ ExtraFlags

SentEvent ==
  {e \in OutEvent : e.flags \cap ExtraFlags = {} /\ e.key \notin ExtraFlags}

SentStatics == [fs : FlagStatusItems, last : SUBSET SentFlags, q : Seq(SentEvent),
                pressed : [OutputKeys -> Nat]]

\* A finite set as a sequence: every element occurs, once.
LEMMA SetToSeqIsBijection ==
  ASSUME NEW S, IsFiniteSet(S)
  PROVE  /\ Cardinality(S) \in Nat
         /\ SetToSeq(S) \in [1 .. Cardinality(S) -> S]
         /\ IsInjective(SetToSeq(S))
<1>1. Cardinality(S) \in Nat /\ ExistsBijection(1 .. Cardinality(S), S)
  BY FS_CardinalityType
<1>2. \E f \in [1 .. Cardinality(S) -> S] : IsInjective(f)
  BY <1>1 DEF ExistsBijection, Bijection, Injection
<1>3. QED
  BY <1>1, <1>2 DEF SetToSeq

LEMMA SetToSeqType ==
  ASSUME NEW S, IsFiniteSet(S)
  PROVE  /\ SetToSeq(S) \in Seq(S)
         /\ Len(SetToSeq(S)) = Cardinality(S)
  BY SetToSeqIsBijection

LEMMA SetToSeqIsOnto ==
  ASSUME NEW S, IsFiniteSet(S)
  PROVE  \A x \in S : \E i \in 1 .. Len(SetToSeq(S)) : SetToSeq(S)[i] = x
<1> DEFINE n == Cardinality(S)
           f == SetToSeq(S)
<1>1. n \in Nat /\ f \in [1 .. n -> S] /\ IsInjective(f)
  BY SetToSeqIsBijection
<1>2. f \in Injection(1 .. n, S)
  BY <1>1 DEF Injection
<1>3. Cardinality(1 .. n) = n
  BY <1>1, FS_Interval
<1> HIDE DEF f
<1>4. f \in Surjection(1 .. n, S)
  <2> HIDE DEF n
  <2>1. Cardinality(1 .. n) = Cardinality(S)
    BY <1>3 DEF n
  <2>2. QED
    BY <1>2, <2>1, FS_Injection
<1>5. Len(f) = n
  BY <1>1
<1>6. QED
  BY <1>4, <1>5 DEF Surjection, f

LEMMA SentFinite == \A S \in SUBSET SentFlags : IsFiniteSet(S)
  BY FiniteKeys, FS_Subset DEF SentFlags

\* The MODIFY events between two sets of flags that may be sent may be sent.
LEMMA ModifyEventsType ==
  ASSUME NEW last \in SUBSET SentFlags, NEW to \in SUBSET SentFlags
  PROVE  modifyEvents(last, to) \in Seq(SentEvent)
<1> DEFINE ups   == SetToSeq(last \ to)
           downs == SetToSeq(to \ last)
<1>1. ups \in Seq(last \ to) /\ downs \in Seq(to \ last)
  BY SentFinite, SetToSeqType
<1> HIDE DEF ups, downs
<1> DEFINE n == Len(ups) + Len(downs)
           ev(i) == IF i <= Len(ups)
             THEN [type |-> "MODIFY", key |-> ups[i], flags |-> last \ {ups[j] : j \in 1 .. i}]
             ELSE [type |-> "MODIFY", key |-> downs[i - Len(ups)],
                   flags |-> (last \cap to) \cup {downs[j] : j \in 1 .. i - Len(ups)}]
<1>2. n \in Nat
  BY <1>1
<1>3. ASSUME NEW i \in 1 .. n
      PROVE  ev(i) \in SentEvent
  <2>1. CASE i <= Len(ups)
    <3>1. ups[i] \in SentFlags /\ last \ {ups[j] : j \in 1 .. i} \in SUBSET SentFlags
      BY <1>1, <2>1
    <3>2. QED
      BY <2>1, <3>1 DEF SentEvent, OutEvent, OutputKeys, SentFlags
  <2>2. CASE i > Len(ups)
    <3>1. i - Len(ups) \in 1 .. Len(downs)
      BY <1>1, <2>2
    <3>2. \A j \in 1 .. i - Len(ups) : downs[j] \in SentFlags
      BY <1>1, <3>1
    <3>3. (last \cap to) \cup {downs[j] : j \in 1 .. i - Len(ups)} \in SUBSET SentFlags
      BY <3>2
    <3>4. downs[i - Len(ups)] \in SentFlags
      BY <3>1, <3>2
    <3>5. QED
      BY <1>1, <2>2, <3>3, <3>4 DEF SentEvent, OutEvent, OutputKeys, SentFlags
  <2>3. QED
    BY <1>1, <2>1, <2>2
<1>4. modifyEvents(last, to) = [i \in 1 .. n |-> ev(i)]
  BY DEF modifyEvents, ups, downs
<1> HIDE DEF n, ev
<1>5. QED
  BY <1>2, <1>3, <1>4

LEMMA EntriesFinite ==
  ASSUME NEW pressed \in [OutputKeys -> Nat]
  PROVE  IsFiniteSet(entries(pressed))
<1> DEFINE of == [key \in OutputKeys |-> {key} \X (1 .. pressed[key])]
           all == {{key} \X (1 .. pressed[key]) : key \in OutputKeys}
<1>1. IsFiniteSet(OutputKeys)
  BY FiniteKeys, FS_Union, FS_Subset DEF OutputKeys
<1>2. of \in Surjection(OutputKeys, all)
  BY DEF Surjection
<1>3. IsFiniteSet(all)
  BY <1>1, <1>2, FS_Surjection
<1>4. ASSUME NEW key \in OutputKeys
      PROVE  IsFiniteSet({key} \X (1 .. pressed[key]))
  <2>1. IsFiniteSet({key})
    BY FS_Singleton
  <2>2. IsFiniteSet(1 .. pressed[key])
    BY FS_Interval
  <2>3. QED
    BY <2>1, <2>2, FS_Product
<1>5. QED
  BY <1>3, <1>4, FS_UNION DEF entries

\* PressDownKeys::clear queues an UP for keys the system may receive.
LEMMA UpEventsType ==
  ASSUME NEW pressed \in [OutputKeys -> Nat]
  PROVE  upEvents(pressed) \in Seq(SentEvent)
<1> DEFINE es == SetToSeq(entries(pressed))
<1>1. es \in Seq(entries(pressed))
  BY EntriesFinite, SetToSeqType
<1>2. \A e \in entries(pressed) : e[1] \in OutputKeys
  BY DEF entries
<1> HIDE DEF es
<1>3. ASSUME NEW i \in 1 .. Len(es)
      PROVE  [type |-> "UP", key |-> es[i][1], flags |-> {}] \in SentEvent
  <2>1. es[i][1] \in OutputKeys
    BY <1>1, <1>2
  <2>2. QED
    BY <2>1, KeyCodesDisjoint DEF SentEvent, OutEvent, OutputKeys
<1>4. Len(es) \in Nat
  BY <1>1
<1> DEFINE up == [i \in 1 .. Len(es) |-> [type |-> "UP", key |-> es[i][1], flags |-> {}]]
<1>5. up \in [1 .. Len(es) -> SentEvent]
  BY <1>3
<1> HIDE DEF up
<1>6. up \in Seq(SentEvent)
  BY <1>4, <1>5
<1>7. upEvents(pressed) = up
  BY DEF upEvents, es, up
<1>8. QED
  BY <1>6, <1>7

LEMMA PushType ==
  ASSUME NEW o \in SentStatics, NEW e \in SentEvent
  PROVE  push(o, e) \in SentStatics
<1>1. Append(o.q, e) \in Seq(SentEvent)
  BY DEF SentStatics
<1>2. sticky_clear(o.fs) \in FlagStatusItems
  BY LockStickyType DEF SentStatics
<1>3. QED
  BY <1>1, <1>2 DEF push, SentStatics

LEMMA FireModifiersType ==
  ASSUME NEW o \in SentStatics, NEW flags \in SUBSET ModifierFlags
  PROVE  FireModifiers(o, flags) \in SentStatics
<1> DEFINE to == flags \ ExtraFlags
<1>1. to \in SUBSET SentFlags /\ o.last \in SUBSET SentFlags /\ o.q \in Seq(SentEvent)
  BY DEF SentStatics, SentFlags
<1>2. o.q \o modifyEvents(o.last, to) \in Seq(SentEvent)
  BY <1>1, ModifyEventsType
<1>3. QED
  BY <1>1, <1>2 DEF FireModifiers, SentStatics

LEMMA MakeFlagsType == \A fs : makeFlags(fs) \in SUBSET ModifierFlags
  BY DEF makeFlags

LEMMA PressDownKeysClearType ==
  ASSUME NEW o \in SentStatics
  PROVE  PressDownKeysClear(o) \in SentStatics
<1>1. o.pressed \in [OutputKeys -> Nat] /\ o.q \in Seq(SentEvent)
  BY DEF SentStatics
<1>2. o.q \o upEvents(o.pressed) \in Seq(SentEvent)
  BY <1>1, UpEventsType
<1>3. nonePressed \in [OutputKeys -> Nat]
  BY DEF nonePressed
<1>4. QED
  BY <1>2, <1>3 DEF PressDownKeysClear, SentStatics

LEMMA FireRelativePointerType ==
  ASSUME NEW o \in SentStatics
  PROVE  FireRelativePointer(o) \in SentStatics
<1>1. [type |-> "POINTER", key |-> VK_NONE, flags |-> {}] \in SentEvent
  BY KeyCodesDisjoint DEF SentEvent, OutEvent
<1>2. QED
  BY <1>1, MakeFlagsType, FireModifiersType, PushType DEF FireRelativePointer

\* Changing the modifier accounting leaves the rest of the statics alone.
LEMMA NewItemsType ==
  ASSUME NEW o \in SentStatics, NEW fs \in FlagStatusItems
  PROVE  [o EXCEPT !.fs = fs] \in SentStatics
  BY DEF SentStatics

LEMMA ItemsType == \A o \in SentStatics : o.fs \in FlagStatusItems
  BY DEF SentStatics

\* A call of FireKey::fire.
FireCall == [type : {"DOWN", "UP", "MODIFY"}, key : KeyCodes, flags : SUBSET ModifierFlags,
             repeat : BOOLEAN]

LEMMA FireOutputableType ==
  ASSUME NEW o \in SentStatics, NEW c \in FireCall, c.key \in OutputKeys
  PROVE  FireOutputable(o, c) \in SentStatics
<1> DEFINE newflags == c.flags \ ExtraFlags
           o1 == FireModifiers(o, newflags)
           e  == [type |-> c.type, key |-> c.key, flags |-> newflags]
           o2 == push(o1, e)
<1>1. newflags \in SUBSET ModifierFlags /\ c.type \in {"DOWN", "UP", "MODIFY"}
  BY DEF FireCall
<1>2. o1 \in SentStatics
  BY <1>1, FireModifiersType
<1>3. e \in SentEvent
  BY <1>1, KeyCodesDisjoint DEF SentEvent, OutEvent, OutputKeys
<1>4. o2 \in SentStatics
  BY <1>2, <1>3, PushType
<1> HIDE DEF o1, e, o2
<1>5. /\ [o2 EXCEPT !.pressed = add(@, c.key)] \in SentStatics
      /\ [o2 EXCEPT !.pressed = remove(@, c.key)] \in SentStatics
  <2>1. /\ add(o2.pressed, c.key) \in [OutputKeys -> Nat]
        /\ remove(o2.pressed, c.key) \in [OutputKeys -> Nat]
    BY <1>4 DEF SentStatics, add, remove
  <2>2. QED
    BY <1>4, <2>1 DEF SentStatics
<1>6. CASE c.type = "MODIFY"
  BY <1>2, <1>6 DEF FireOutputable, o1
<1>7. CASE c.type = "DOWN"
  BY <1>4, <1>5, <1>7 DEF FireOutputable, o1, o2, e
<1>8. CASE c.type = "UP"
  BY <1>4, <1>5, <1>8 DEF FireOutputable, o1, o2, e
<1>9. QED
  BY <1>1, <1>6, <1>7, <1>8

LEMMA CallType ==
  ASSUME NEW type \in {"DOWN", "UP", "MODIFY"}, NEW key \in KeyCodes,
         NEW flags \in SUBSET ModifierFlags, NEW repeat \in BOOLEAN
  PROVE  Call(type, key, flags, repeat) \in FireCall
  BY DEF Call, FireCall

-------------------------------------------------------------------------------
(***************************************************************************)
(* What the system will have been told when a queue grows at its end.      *)
(***************************************************************************)
\* The modifier flags announced by the first events of a queue.
LEMMA AnnouncedPrefix ==
  ASSUME NEW S, NEW q \in Seq(S), NEW s \in Seq(S), NEW flags, NEW to, NEW n \in 0 .. Len(q)
  PROVE  announced(flags, q \o s, n, to) <=> announced(flags, q, n, to)
<1>1. \A i \in 1 .. n : (q \o s)[i] = q[i]
  OBVIOUS
<1>2. QED
  BY <1>1 DEF announced

LEMMA AnnouncedConcat ==
  ASSUME NEW S, NEW q \in Seq(S), NEW s \in Seq(S), NEW flags, NEW mid, NEW to,
         NEW n \in 0 .. Len(s),
         announced(flags, q, Len(q), mid), announced(mid, s, n, to)
  PROVE  announced(flags, q \o s, Len(q) + n, to)
<1> DEFINE r == q \o s
           m == Len(q)
<1>1. m \in Nat /\ n \in Nat
  OBVIOUS
<1>2. /\ \A i \in 1 .. m : r[i] = q[i]
      /\ \A i \in 1 .. n : r[m + i] = s[i]
  OBVIOUS
<1> HIDE DEF r, m
<1>3. \A i \in m + 1 .. m + n : i - m \in 1 .. n /\ r[i] = s[i - m]
  BY <1>1, <1>2
<1>4. CASE mid = to /\ \A i \in 1 .. n : s[i].type # "MODIFY"
  <2>1. \A i \in m + 1 .. m + n : r[i].type # "MODIFY"
    BY <1>3, <1>4
  <2>2. CASE flags = mid /\ \A i \in 1 .. m : q[i].type # "MODIFY"
    <3>1. \A i \in 1 .. m + n : r[i].type # "MODIFY"
      <4> TAKE i \in 1 .. m + n
      <4>1. i \in 1 .. m \/ i \in m + 1 .. m + n
        BY <1>1
      <4>2. QED
        BY <1>2, <2>1, <2>2, <4>1
    <3>2. QED
      BY <1>4, <2>2, <3>1 DEF announced, r, m
  <2>3. ASSUME NEW i \in 1 .. m, q[i].type = "MODIFY", q[i].flags = mid,
               \A j \in i + 1 .. m : q[j].type # "MODIFY"
        PROVE  announced(flags, r, m + n, to)
    <3>1. i \in 1 .. m + n /\ r[i].type = "MODIFY" /\ r[i].flags = to
      BY <1>1, <1>2, <1>4, <2>3
    <3>2. \A j \in i + 1 .. m + n : r[j].type # "MODIFY"
      <4> TAKE j \in i + 1 .. m + n
      <4>1. (j \in i + 1 .. m /\ j \in 1 .. m) \/ j \in m + 1 .. m + n
        BY <1>1
      <4>2. QED
        BY <1>2, <2>1, <2>3, <4>1
    <3>3. QED
      BY <3>1, <3>2 DEF announced
  <2>4. QED
    BY <2>2, <2>3 DEF announced, r, m
<1>5. ASSUME NEW i \in 1 .. n, s[i].type = "MODIFY", s[i].flags = to,
             \A j \in i + 1 .. n : s[j].type # "MODIFY"
      PROVE  announced(flags, r, m + n, to)
  <2>1. m + i \in 1 .. m + n /\ r[m + i].type = "MODIFY" /\ r[m + i].flags = to
    BY <1>1, <1>2, <1>5
  <2>2. \A j \in m + i + 1 .. m + n : r[j].type # "MODIFY"
    <3> TAKE j \in m + i + 1 .. m + n
    <3>1. j \in m + 1 .. m + n /\ j - m \in i + 1 .. n
      BY <1>1
    <3>2. QED
      BY <1>3, <1>5, <3>1
  <2>3. QED
    BY <2>1, <2>2 DEF announced
<1>6. QED
  BY <1>4, <1>5 DEF announced, r, m

\* The keys held after two queues, one after the other.
LEMMA DownAfterConcat ==
  ASSUME NEW S, NEW q \in Seq(S), NEW s \in Seq(S), NEW down, NEW k
  PROVE  downAfter(down, q \o s, k)
           <=> \/ downAfter({}, s, k)
               \/ downAfter(down, q, k) /\ \A i \in DOMAIN s : ~about(s[i], k)
<1> DEFINE r == q \o s
           m == Len(q)
           n == Len(s)
<1>1. m \in Nat /\ n \in Nat /\ DOMAIN q = 1 .. m /\ DOMAIN s = 1 .. n /\ DOMAIN r = 1 .. m + n
  OBVIOUS
<1>2. /\ \A i \in 1 .. m : r[i] = q[i]
      /\ \A i \in 1 .. n : r[m + i] = s[i] /\ m + i \in 1 .. m + n
      /\ \A i \in m + 1 .. m + n : i - m \in 1 .. n /\ r[i] = s[i - m]
  BY <1>1
<1> HIDE DEF r, m, n
<1>3. \A i \in 1 .. m + n : i \in 1 .. m \/ i \in m + 1 .. m + n
  BY <1>1
<1>4. ASSUME downAfter(down, r, k), ~downAfter({}, s, k)
      PROVE  downAfter(down, q, k) /\ \A i \in DOMAIN s : ~about(s[i], k)
  <2>1. CASE k \in down /\ \A i \in DOMAIN r : ~about(r[i], k)
    <3>1. \A i \in 1 .. m : ~about(q[i], k)
      BY <1>1, <1>2, <2>1
    <3>2. \A i \in 1 .. n : ~about(s[i], k)
      BY <1>1, <1>2, <2>1
    <3>3. QED
      BY <1>1, <2>1, <3>1, <3>2 DEF downAfter
  <2>2. ASSUME NEW i \in DOMAIN r, about(r[i], k), r[i].type = "DOWN",
               \A j \in DOMAIN r : j > i => ~about(r[j], k)
        PROVE  downAfter(down, q, k) /\ \A j \in DOMAIN s : ~about(s[j], k)
    <3>1. CASE i \in 1 .. m
      <4>1. \A j \in 1 .. n : ~about(s[j], k)
        <5> TAKE j \in 1 .. n
        <5>1. m + j > i
          BY <1>1, <3>1
        <5>2. QED
          BY <1>1, <1>2, <2>2, <5>1
      <4>2. \A j \in 1 .. m : j > i => ~about(q[j], k)
        BY <1>1, <1>2, <2>2
      <4>3. QED
        BY <1>1, <1>2, <2>2, <3>1, <4>1, <4>2 DEF downAfter
    <3>2. CASE i \in m + 1 .. m + n
      <4>1. i - m \in 1 .. n /\ about(s[i - m], k) /\ s[i - m].type = "DOWN"
        BY <1>2, <2>2, <3>2
      <4>2. \A j \in 1 .. n : j > i - m => ~about(s[j], k)
        <5> TAKE j \in 1 .. n
        <5>1. j > i - m => m + j > i
          BY <1>1, <3>2
        <5>2. QED
          BY <1>1, <1>2, <2>2, <5>1
      <4>3. QED
        BY <1>1, <1>4, <4>1, <4>2 DEF downAfter
    <3>3. QED
      BY <1>1, <1>3, <3>1, <3>2
  <2>3. QED
    BY <1>4, <2>1, <2>2 DEF downAfter
<1>5. ASSUME downAfter({}, s, k) PROVE downAfter(down, r, k)
  <2>1. PICK i \in DOMAIN s : /\ about(s[i], k) /\ s[i].type = "DOWN"
                              /\ \A j \in DOMAIN s : j > i => ~about(s[j], k)
    BY <1>5 DEF downAfter
  <2>2. m + i \in DOMAIN r /\ about(r[m + i], k) /\ r[m + i].type = "DOWN"
    BY <1>1, <1>2, <2>1
  <2>3. \A j \in 1 .. m + n : j > m + i => ~about(r[j], k)
    <3> TAKE j \in 1 .. m + n
    <3>1. j > m + i => j \in m + 1 .. m + n /\ j - m > i
      BY <1>1, <2>1
    <3>2. QED
      BY <1>1, <1>2, <2>1, <3>1
  <2>4. QED
    BY <1>1, <2>2, <2>3 DEF downAfter
<1>6. ASSUME downAfter(down, q, k), \A i \in DOMAIN s : ~about(s[i], k)
      PROVE  downAfter(down, r, k)
  <2>1. \A i \in m + 1 .. m + n : ~about(r[i], k)
    BY <1>1, <1>2, <1>6
  <2>2. CASE k \in down /\ \A i \in DOMAIN q : ~about(q[i], k)
    <3>1. \A i \in 1 .. m : ~about(r[i], k)
      BY <1>1, <1>2, <2>2
    <3>2. QED
      BY <1>1, <1>3, <2>1, <2>2, <3>1 DEF downAfter
  <2>3. ASSUME NEW i \in DOMAIN q, about(q[i], k), q[i].type = "DOWN",
               \A j \in DOMAIN q : j > i => ~about(q[j], k)
        PROVE  downAfter(down, r, k)
    <3>1. i \in DOMAIN r /\ about(r[i], k) /\ r[i].type = "DOWN"
      BY <1>1, <1>2, <2>3
    <3>2. \A j \in 1 .. m + n : j > i => ~about(r[j], k)
      BY <1>1, <1>2, <1>3, <2>1, <2>3
    <3>3. QED
      BY <1>1, <3>1, <3>2 DEF downAfter
  <2>4. QED
    BY <1>6, <2>2, <2>3 DEF downAfter
<1>7. QED
  BY <1>4, <1>5, <1>6 DEF r

\* The events of FireModifiers: each changes the flag of its key, none speaks of a key
\* that is held down, and the last one leaves what FireModifiers was called with.
LEMMA ModifyEventsEffect ==
  ASSUME NEW last \in SUBSET SentFlags, NEW to \in SUBSET SentFlags, last # to
  PROVE  LET s == modifyEvents(last, to)
         IN  /\ \A i \in DOMAIN s : /\ s[i].type = "MODIFY"
                                    /\ announced(last, s, i - 1, toggled(s[i].flags, s[i].key))
             /\ announced(last, s, Len(s), to)
<1> DEFINE ups   == SetToSeq(last \ to)
           downs == SetToSeq(to \ last)
           m == Len(ups)
           n == Len(downs)
           s == modifyEvents(last, to)
<1>1. /\ ups \in Seq(last \ to) /\ downs \in Seq(to \ last)
      /\ \A i, j \in 1 .. m : ups[i] = ups[j] => i = j
      /\ \A i, j \in 1 .. n : downs[i] = downs[j] => i = j
      /\ \A f \in last \ to : \E i \in 1 .. m : ups[i] = f
      /\ \A f \in to \ last : \E i \in 1 .. n : downs[i] = f
  <2>1. IsFiniteSet(last \ to) /\ IsFiniteSet(to \ last)
    BY SentFinite
  <2>2. ASSUME NEW S, IsFiniteSet(S)
        PROVE  /\ SetToSeq(S) \in Seq(S)
               /\ \A i, j \in 1 .. Len(SetToSeq(S)) : SetToSeq(S)[i] = SetToSeq(S)[j] => i = j
    <3>1. SetToSeq(S) \in Seq(S) /\ Len(SetToSeq(S)) = Cardinality(S)
      BY <2>2, SetToSeqType
    <3>2. SetToSeq(S) \in [1 .. Cardinality(S) -> S] /\ IsInjective(SetToSeq(S))
      BY <2>2, SetToSeqIsBijection
    <3>3. QED
      BY <3>1, <3>2 DEF IsInjective
  <2>3. QED
    BY <2>1, <2>2, SetToSeqIsOnto
<1>2. m \in Nat /\ n \in Nat
  BY <1>1
<1> DEFINE up(i)   == last \ {ups[j] : j \in 1 .. i}
           down(i) == (last \cap to) \cup {downs[j] : j \in 1 .. i}
<1>3. /\ Len(s) = m + n /\ DOMAIN s = 1 .. m + n
      /\ \A i \in 1 .. m :
           s[i].type = "MODIFY" /\ s[i].key = ups[i] /\ s[i].flags = up(i)
      /\ \A i \in 1 .. n :
           s[m + i].type = "MODIFY" /\ s[m + i].key = downs[i] /\ s[m + i].flags = down(i)
  <2>1. s = [i \in 1 .. m + n |->
               IF i <= m
               THEN [type |-> "MODIFY", key |-> ups[i], flags |-> up(i)]
               ELSE [type |-> "MODIFY", key |-> downs[i - m], flags |-> down(i - m)]]
    BY DEF modifyEvents
  <2> HIDE DEF s, up, down, ups, downs
  <2>2. \A i \in 1 .. n : m + i \in 1 .. m + n /\ ~(m + i <= m) /\ (m + i) - m = i
    BY <1>2
  <2>3. \A i \in 1 .. m : i \in 1 .. m + n /\ i <= m
    BY <1>2
  <2> HIDE DEF m, n
  <2>4. Len(s) = m + n
    BY <1>2, <2>1
  <2>5. /\ \A i \in 1 .. m : s[i] = [type |-> "MODIFY", key |-> ups[i], flags |-> up(i)]
        /\ \A i \in 1 .. n : s[m + i] = [type |-> "MODIFY", key |-> downs[i], flags |-> down(i)]
    BY <2>1, <2>2, <2>3
  <2>6. DOMAIN s = 1 .. m + n
    BY <2>1
  <2>7. ASSUME NEW i \in 1 .. m
        PROVE  s[i].type = "MODIFY" /\ s[i].key = ups[i] /\ s[i].flags = up(i)
    <3>1. s[i] = [type |-> "MODIFY", key |-> ups[i], flags |-> up(i)]
      BY <2>5
    <3>2. QED
      BY <3>1
  <2>8. ASSUME NEW i \in 1 .. n
        PROVE  s[m + i].type = "MODIFY" /\ s[m + i].key = downs[i] /\ s[m + i].flags = down(i)
    <3>1. s[m + i] = [type |-> "MODIFY", key |-> downs[i], flags |-> down(i)]
      BY <2>5
    <3>2. QED
      BY <3>1
  <2>9. QED
    BY <2>4, <2>6, <2>7, <2>8
<1> HIDE DEF ups, downs, s
<1>4. up(m) = last \cap to
  <2> HIDE DEF m, n
  <2>1. \A i \in 1 .. m : ups[i] \in last \ to
    BY <1>1 DEF m
  <2>2. QED
    BY <1>1, <2>1
<1>5. down(n) = to
  <2>1. \A i \in 1 .. n : downs[i] \in to \ last
    BY <1>1
  <2> HIDE DEF m, n
  <2>2. QED
    BY <1>1, <2>1
<1>6. up(0) = last /\ down(0) = last \cap to
  <2>1. 1 .. 0 = {}
    OBVIOUS
  <2>2. QED
    BY <2>1
<1>7. ASSUME NEW i \in 1 .. m
      PROVE  toggled(up(i), ups[i]) = up(i - 1)
  <2>1. ups[i] \in last
    BY <1>1
  <2>2. 1 .. i = (1 .. i - 1) \cup {i}
    BY <1>2
  <2>3. {ups[j] : j \in 1 .. i} = {ups[j] : j \in 1 .. i - 1} \cup {ups[i]}
    BY <2>2
  <2>4. ups[i] \notin {ups[j] : j \in 1 .. i - 1}
    <3>1. \A j \in 1 .. i - 1 : j \in 1 .. m /\ j # i
      BY <1>2
    <3>2. QED
      BY <1>1, <3>1
  <2> HIDE DEF m
  <2>5. QED
    BY <2>1, <2>3, <2>4 DEF toggled
<1>8. ASSUME NEW i \in 1 .. n
      PROVE  toggled(down(i), downs[i]) = down(i - 1)
  <2>1. downs[i] \notin last
    BY <1>1
  <2>2. 1 .. i = (1 .. i - 1) \cup {i}
    BY <1>2
  <2>3. {downs[j] : j \in 1 .. i} = {downs[j] : j \in 1 .. i - 1} \cup {downs[i]}
    BY <2>2
  <2>4. downs[i] \notin {downs[j] : j \in 1 .. i - 1}
    <3>1. \A j \in 1 .. i - 1 : j \in 1 .. n /\ j # i
      BY <1>2
    <3>2. QED
      BY <1>1, <3>1
  <2> HIDE DEF n
  <2>5. QED
    BY <2>1, <2>3, <2>4 DEF toggled
<1> HIDE DEF up, down, m, n
<1> DEFINE after(i) == IF i = 0 THEN last ELSE s[i].flags
<1>9. \A i \in 1 .. m + n : s[i].type = "MODIFY"
  <2> TAKE i \in 1 .. m + n
  <2>1. i \in 1 .. m \/ (i - m \in 1 .. n /\ i = m + (i - m))
    BY <1>2
  <2>2. QED
    BY <1>3, <2>1
<1>10. \A i \in 0 .. m + n : announced(last, s, i, after(i))
  <2> TAKE i \in 0 .. m + n
  <2>1. CASE i = 0
    BY <2>1 DEF announced
  <2>2. CASE i # 0
    <3>1. i \in 1 .. i /\ i \in 1 .. m + n /\ i + 1 .. i = {}
      BY <1>2, <2>2
    <3>2. QED
      BY <1>9, <2>2, <3>1 DEF announced
  <2>3. QED
    BY <2>1, <2>2
<1>11. \A i \in 1 .. m + n : toggled(s[i].flags, s[i].key) = after(i - 1)
  <2> TAKE i \in 1 .. m + n
  <2>1. CASE i \in 1 .. m
    <3>1. s[i].flags = up(i) /\ s[i].key = ups[i]
      BY <1>3, <2>1
    <3>2. i - 1 = 0 \/ i - 1 \in 1 .. m
      BY <1>2, <2>1
    <3>3. up(i - 1) = after(i - 1)
      BY <1>3, <1>6, <3>2
    <3>4. QED
      BY <1>7, <2>1, <3>1, <3>3
  <2>2. CASE i \notin 1 .. m
    <3> DEFINE j == i - m
    <3>1. j \in 1 .. n /\ i = m + j /\ i - 1 = m + (j - 1)
      BY <1>2, <2>2
    <3>2. s[i].flags = down(j) /\ s[i].key = downs[j]
      BY <1>3, <3>1
    <3>3. j - 1 = 0 \/ j - 1 \in 1 .. n
      BY <1>2, <3>1
    <3>4. CASE j - 1 \in 1 .. n
      <4>1. s[i - 1].flags = down(j - 1) /\ i - 1 # 0
        BY <1>2, <1>3, <3>1, <3>4
      <4>2. QED
        BY <1>8, <3>1, <3>2, <4>1
    <3>5. CASE j - 1 = 0
      <4>1. i - 1 = m /\ down(j - 1) = up(m)
        BY <1>2, <1>4, <1>6, <3>1, <3>5
      <4>2. after(m) = up(m)
        <5>1. CASE m = 0
          BY <1>6, <5>1
        <5>2. CASE m # 0
          BY <1>2, <1>3, <5>2
        <5>3. QED
          BY <5>1, <5>2
      <4>3. QED
        BY <1>8, <3>1, <3>2, <4>1, <4>2
    <3>6. QED
      BY <3>3, <3>4, <3>5
  <2>3. QED
    BY <2>1, <2>2
<1>12. after(m + n) = to
  <2>1. CASE n = 0
    <3>1. to \subseteq last /\ to = last \cap to
      BY <1>4, <1>5, <1>6, <2>1
    <3>2. m # 0
      BY <1>4, <1>6, <3>1
    <3>3. m + n # 0 /\ m + n \in 1 .. m /\ m + n = m
      BY <1>2, <2>1, <3>2
    <3>4. s[m + n].flags = up(m)
      BY <1>3, <3>3
    <3>5. QED
      BY <1>4, <3>1, <3>3, <3>4
  <2>2. CASE n # 0
    <3>1. n \in 1 .. n /\ m + n # 0
      BY <1>2, <2>2
    <3>2. QED
      BY <1>3, <1>5, <3>1
  <2>3. QED
    BY <2>1, <2>2
<1>13. ASSUME NEW i \in 1 .. m + n
       PROVE  announced(last, s, i - 1, toggled(s[i].flags, s[i].key))
  <2>1. i - 1 \in 0 .. m + n
    BY <1>2
  <2>2. QED
    BY <1>10, <1>11, <2>1
<1>14. m + n \in 0 .. m + n
  BY <1>2
<1>15. announced(last, s, Len(s), to)
  BY <1>3, <1>10, <1>12, <1>14
<1>16. QED
  BY <1>3, <1>9, <1>13, <1>15 DEF s

\* The events of PressDownKeys::clear: an UP of every key in the list, and no other.
LEMMA UpEventsEffect ==
  ASSUME NEW pressed \in [OutputKeys -> Nat]
  PROVE  LET s == upEvents(pressed)
         IN  /\ \A i \in DOMAIN s : s[i].type = "UP"
             /\ \A k \in OutputKeys : pressed[k] > 0 => \E i \in DOMAIN s : s[i].key = k
<1> DEFINE es == SetToSeq(entries(pressed))
           s == upEvents(pressed)
<1>1. es \in Seq(entries(pressed)) /\ \A e \in entries(pressed) : \E i \in 1 .. Len(es) : es[i] = e
  BY EntriesFinite, SetToSeqType, SetToSeqIsOnto
<1>2. DOMAIN s = 1 .. Len(es)
      /\ \A i \in 1 .. Len(es) : s[i] = [type |-> "UP", key |-> es[i][1], flags |-> {}]
  BY DEF upEvents
<1> HIDE DEF es, s
<1>3. ASSUME NEW k \in OutputKeys, pressed[k] > 0
      PROVE  \E i \in DOMAIN s : s[i].key = k
  <2>1. 1 \in 1 .. pressed[k]
    BY <1>3
  <2>2. << k, 1 >> \in entries(pressed)
    BY <2>1 DEF entries
  <2>3. PICK i \in 1 .. Len(es) : es[i] = << k, 1 >>
    BY <1>1, <2>2
  <2>4. QED
    BY <1>2, <2>3
<1>4. QED
  BY <1>2, <1>3 DEF s

-------------------------------------------------------------------------------
\* The i-th event of q fits what was announced before it: a key-down carries it, a
\* MODIFY changes the one flag of its key.
carriesFlags(flags, q, i) == q[i].type = "DOWN" => announced(flags, q, i, q[i].flags)

changesOneFlag(flags, q, i) ==
  q[i].type = "MODIFY" => announced(flags, q, i - 1, toggled(q[i].flags, q[i].key))

\* The statics that agree with a system that was told of the keys `down` and of the
\* modifier flags `flags` before their queue.
Coherent(down, flags) ==
  {o \in SentStatics :
     /\ \A k \in OutputKeys : downAfter(down, o.q, k) <=> o.pressed[k] > 0
     /\ announced(flags, o.q, Len(o.q), o.last)
     /\ \A i \in DOMAIN o.q : carriesFlags(flags, o.q, i) /\ changesOneFlag(flags, o.q, i)}

\* More events keep the agreement when they agree with what was announced before.
LEMMA CoherentConcat ==
  ASSUME NEW down, NEW flags, NEW o \in Coherent(down, flags), NEW p \in SentStatics,
         NEW s \in Seq(SentEvent), p.q = o.q \o s,
         announced(o.last, s, Len(s), p.last),
         \A i \in DOMAIN s : carriesFlags(o.last, s, i) /\ changesOneFlag(o.last, s, i),
         \A k \in OutputKeys :
           p.pressed[k] > 0 <=> \/ downAfter({}, s, k)
                                \/ o.pressed[k] > 0 /\ \A i \in DOMAIN s : ~about(s[i], k)
  PROVE  p \in Coherent(down, flags)
<1> DEFINE q == o.q
           m == Len(q)
           n == Len(s)
           r == q \o s
<1>1. /\ q \in Seq(SentEvent) /\ p.q = r /\ m \in Nat /\ n \in Nat
      /\ DOMAIN q = 1 .. m /\ DOMAIN s = 1 .. n /\ DOMAIN r = 1 .. m + n /\ Len(r) = m + n
      /\ \A i \in 1 .. m : r[i] = q[i]
      /\ \A i \in m + 1 .. m + n : i - m \in 1 .. n /\ r[i] = s[i - m]
  BY DEF Coherent, SentStatics
<1>2. announced(flags, q, m, o.last)
  BY DEF Coherent
<1>3. \A k \in OutputKeys : downAfter(down, p.q, k) <=> p.pressed[k] > 0
  <2> TAKE k \in OutputKeys
  <2>1. downAfter(down, q, k) <=> o.pressed[k] > 0
    BY DEF Coherent
  <2>2. downAfter(down, r, k) <=> \/ downAfter({}, s, k)
                                  \/ downAfter(down, q, k) /\ \A i \in DOMAIN s : ~about(s[i], k)
    BY <1>1, DownAfterConcat
  <2> HIDE DEF r, q
  <2>3. QED
    BY <1>1, <2>1, <2>2
<1>4. ASSUME NEW i \in 0 .. n, NEW to, announced(o.last, s, i, to)
      PROVE  announced(flags, r, m + i, to)
  BY <1>1, <1>2, <1>4, AnnouncedConcat
<1>5. ASSUME NEW i \in 0 .. m, NEW to, announced(flags, q, i, to)
      PROVE  announced(flags, r, i, to)
  BY <1>1, <1>5, AnnouncedPrefix
<1>6. announced(flags, p.q, Len(p.q), p.last)
  <2>1. n \in 0 .. n
    BY <1>1
  <2> HIDE DEF r, q, m
  <2>2. QED
    BY <1>1, <1>4, <2>1 DEF n
<1>7. \A i \in DOMAIN q : carriesFlags(flags, q, i) /\ changesOneFlag(flags, q, i)
  BY DEF Coherent
<1> HIDE DEF q, m, n, r
<1>8. ASSUME NEW i \in 1 .. m + n
      PROVE  carriesFlags(flags, r, i) /\ changesOneFlag(flags, r, i)
  <2>1. CASE i \in 1 .. m
    <3>1. r[i] = q[i] /\ i \in 0 .. m /\ i - 1 \in 0 .. m
      BY <1>1, <2>1
    <3>2. QED
      BY <1>1, <1>5, <1>7, <2>1, <3>1 DEF carriesFlags, changesOneFlag
  <2>2. CASE i \notin 1 .. m
    <3> DEFINE j == i - m
    <3>1. /\ i \in m + 1 .. m + n /\ j \in 1 .. n /\ r[i] = s[j]
          /\ j \in 0 .. n /\ j - 1 \in 0 .. n /\ m + j = i /\ m + (j - 1) = i - 1
      BY <1>1, <2>2
    <3> HIDE DEF j
    <3>2. carriesFlags(o.last, s, j) /\ changesOneFlag(o.last, s, j)
      BY <1>1, <3>1
    <3>3. announced(o.last, s, j, s[j].flags) => announced(flags, r, i, s[j].flags)
      BY <1>4, <3>1
    <3>4. LET to == toggled(s[j].flags, s[j].key)
          IN  announced(o.last, s, j - 1, to) => announced(flags, r, i - 1, to)
      BY <1>4, <3>1
    <3>5. QED
      BY <3>1, <3>2, <3>3, <3>4 DEF carriesFlags, changesOneFlag
  <2>3. QED
    BY <2>1, <2>2
<1>9. QED
  BY <1>1, <1>3, <1>6, <1>8 DEF Coherent

(***************************************************************************)
(* A set of statics that everything the remapping code calls to emit       *)
(* events keeps: then KeyToKey, KeyboardRepeat and the flush keep it too.  *)
(* A repeating key-down must be one of a key that is pressed.              *)
(***************************************************************************)
FireOutputCall == {c \in FireCall : c.key \in OutputKeys}

Closed(T) ==
  /\ T \subseteq SentStatics
  /\ \A o \in T :
       /\ \A fs \in FlagStatusItems : [o EXCEPT !.fs = fs] \in T
       /\ \A flags \in SUBSET ModifierFlags : FireModifiers(o, flags) \in T
       /\ \A c \in FireOutputCall :
            ~c.repeat \/ (c.type = "DOWN" /\ o.pressed[c.key] > 0) => FireOutputable(o, c) \in T
       /\ PressDownKeysClear(o) \in T
       /\ FireRelativePointer(o) \in T

LEMMA CoherentItems ==
  ASSUME NEW down, NEW flags, NEW o \in Coherent(down, flags), NEW fs \in FlagStatusItems
  PROVE  [o EXCEPT !.fs = fs] \in Coherent(down, flags)
<1> DEFINE p == [o EXCEPT !.fs = fs]
<1>1. o \in SentStatics
  BY DEF Coherent
<1>2. p \in SentStatics /\ p.q = o.q /\ p.pressed = o.pressed /\ p.last = o.last
  BY <1>1, NewItemsType DEF SentStatics
<1> HIDE DEF p
<1>3. p \in Coherent(down, flags)
  BY <1>2 DEF Coherent
<1>4. QED
  BY <1>3 DEF p

LEMMA CoherentModifiers ==
  ASSUME NEW down, NEW flags, NEW o \in Coherent(down, flags), NEW new \in SUBSET ModifierFlags
  PROVE  FireModifiers(o, new) \in Coherent(down, flags)
<1> DEFINE to == new \ ExtraFlags
           s  == modifyEvents(o.last, to)
           p  == FireModifiers(o, new)
<1>1. o \in SentStatics /\ o.last \in SUBSET SentFlags /\ to \in SUBSET SentFlags
  BY DEF Coherent, SentStatics, SentFlags
<1>2. CASE o.last = to
  BY <1>2 DEF FireModifiers
<1>3. CASE o.last # to
  <2>1. p \in SentStatics
    BY <1>1, FireModifiersType
  <2>2. p = [o EXCEPT !.q = @ \o s, !.last = to]
    BY <1>3 DEF FireModifiers
  <2> HIDE DEF p, to
  <2>3. p.q = o.q \o s /\ p.last = to /\ p.pressed = o.pressed
    BY <1>1, <2>2 DEF SentStatics
  <2>4. s \in Seq(SentEvent)
    BY <1>1, ModifyEventsType
  <2>5. /\ \A i \in DOMAIN s : /\ s[i].type = "MODIFY"
                               /\ announced(o.last, s, i - 1, toggled(s[i].flags, s[i].key))
        /\ announced(o.last, s, Len(s), to)
    BY <1>1, <1>3, ModifyEventsEffect
  <2> HIDE DEF s
  <2>6. \A i \in DOMAIN s : carriesFlags(o.last, s, i) /\ changesOneFlag(o.last, s, i)
    BY <2>5 DEF carriesFlags, changesOneFlag
  <2>7. \A k : ~downAfter({}, s, k) /\ \A i \in DOMAIN s : ~about(s[i], k)
    BY <2>5 DEF downAfter, about
  <2>8. p \in Coherent(down, flags)
    BY <2>1, <2>3, <2>4, <2>5, <2>6, <2>7, CoherentConcat
  <2>9. QED
    BY <2>8 DEF p
<1>4. QED
  BY <1>2, <1>3

\* One more event that announces no flags, a key-down with those announced last.
LEMMA CoherentPush ==
  ASSUME NEW down, NEW flags, NEW o \in Coherent(down, flags), NEW p \in SentStatics,
         NEW e \in SentEvent, e.type # "MODIFY", e.type = "DOWN" => e.flags = o.last,
         p.q = Append(o.q, e), p.last = o.last,
         \A k \in OutputKeys :
           p.pressed[k] > 0 <=> IF about(e, k) THEN e.type = "DOWN" ELSE o.pressed[k] > 0
  PROVE  p \in Coherent(down, flags)
<1> DEFINE s == << e >>
<1>1. /\ s \in Seq(SentEvent) /\ Len(s) = 1 /\ DOMAIN s = {1} /\ s[1] = e
      /\ p.q = o.q \o s
  BY DEF Coherent, SentStatics
<1> HIDE DEF s
<1>2. announced(o.last, s, 0, o.last) /\ announced(o.last, s, 1, o.last)
  <2>1. 1 .. 0 = {} /\ 1 .. 1 = {1}
    OBVIOUS
  <2>2. QED
    BY <1>1, <2>1 DEF announced
<1>3. \A i \in DOMAIN s : carriesFlags(o.last, s, i) /\ changesOneFlag(o.last, s, i)
  BY <1>1, <1>2 DEF carriesFlags, changesOneFlag
<1>4. ASSUME NEW k \in OutputKeys
      PROVE  p.pressed[k] > 0 <=> \/ downAfter({}, s, k)
                                  \/ o.pressed[k] > 0 /\ \A i \in DOMAIN s : ~about(s[i], k)
  <2>1. downAfter({}, s, k) <=> about(e, k) /\ e.type = "DOWN"
    BY <1>1 DEF downAfter
  <2>2. (\A i \in DOMAIN s : ~about(s[i], k)) <=> ~about(e, k)
    BY <1>1
  <2>3. QED
    BY <2>1, <2>2
<1>5. QED
  BY <1>1, <1>2, <1>3, <1>4, CoherentConcat

LEMMA CoherentOutput ==
  ASSUME NEW down, NEW flags, NEW o \in Coherent(down, flags), NEW c \in FireOutputCall,
         ~c.repeat \/ (c.type = "DOWN" /\ o.pressed[c.key] > 0)
  PROVE  FireOutputable(o, c) \in Coherent(down, flags)
<1> DEFINE new == c.flags \ ExtraFlags
           o1 == FireModifiers(o, new)
           e  == [type |-> c.type, key |-> c.key, flags |-> new]
           o2 == push(o1, e)
           p  == FireOutputable(o, c)
<1>1. /\ c \in FireCall /\ new \in SUBSET ModifierFlags /\ o \in SentStatics
      /\ c.type \in {"DOWN", "UP", "MODIFY"} /\ c.key \in OutputKeys
  BY DEF FireOutputCall, FireCall, Coherent
<1>2. o1 \in Coherent(down, flags)
  BY <1>1, CoherentModifiers
<1>3. o1.last = new /\ o1.pressed = o.pressed
  BY <1>1 DEF FireModifiers, SentStatics
<1>4. CASE c.type = "MODIFY"
  BY <1>2, <1>4 DEF FireOutputable
<1>5. CASE c.type # "MODIFY"
  <2>1. e \in SentEvent
    BY <1>1, KeyCodesDisjoint DEF SentEvent, OutEvent, OutputKeys
  <2>2. p \in SentStatics
    BY <1>1, FireOutputableType
  <2>3. p = CASE c.type = "DOWN" -> IF c.repeat THEN o2 ELSE [o2 EXCEPT !.pressed = add(@, c.key)]
              [] c.type = "UP"   -> IF c.repeat THEN o2 ELSE [o2 EXCEPT !.pressed = remove(@, c.key)]
    BY <1>1, <1>5 DEF FireOutputable
  <2> HIDE DEF o1, p
  <2>4. /\ o2.q = Append(o1.q, e) /\ o2.last = o1.last /\ o2.pressed = o1.pressed
        /\ o2 \in SentStatics
    BY <1>2, <2>1, PushType DEF Coherent, SentStatics, push
  <2> HIDE DEF o2
  <2>5. /\ p.q = Append(o1.q, e) /\ p.last = o1.last
        /\ p.pressed = CASE c.type = "DOWN" -> IF c.repeat THEN o.pressed ELSE add(o.pressed, c.key)
                         [] c.type = "UP"   -> IF c.repeat THEN o.pressed
                                               ELSE remove(o.pressed, c.key)
    <3>1. /\ [o2 EXCEPT !.pressed = add(@, c.key)].pressed = add(o.pressed, c.key)
          /\ [o2 EXCEPT !.pressed = remove(@, c.key)].pressed = remove(o.pressed, c.key)
          /\ o2.pressed = o.pressed
          /\ [o2 EXCEPT !.pressed = add(@, c.key)].q = Append(o1.q, e)
          /\ [o2 EXCEPT !.pressed = remove(@, c.key)].q = Append(o1.q, e)
          /\ [o2 EXCEPT !.pressed = add(@, c.key)].last = o1.last
          /\ [o2 EXCEPT !.pressed = remove(@, c.key)].last = o1.last
      BY <1>3, <2>4 DEF SentStatics
    <3> HIDE DEF e
    <3>2. CASE c.type = "DOWN"
      BY <2>3, <2>4, <3>1, <3>2
    <3>3. CASE c.type = "UP"
      BY <2>3, <2>4, <3>1, <3>3
    <3>4. QED
      BY <1>1, <1>5, <3>2, <3>3
  <2>6. ASSUME NEW k \in OutputKeys
        PROVE  p.pressed[k] > 0 <=> IF about(e, k) THEN e.type = "DOWN" ELSE o1.pressed[k] > 0
    <3>1. o.pressed \in [OutputKeys -> Nat]
      BY <1>1 DEF SentStatics
    <3>2. about(e, k) <=> c.key = k
      BY <1>1, <1>5 DEF about
    <3>3. add(o.pressed, c.key)[k] = IF c.key = k THEN o.pressed[k] + 1 ELSE o.pressed[k]
      BY <3>1 DEF add
    <3>4. remove(o.pressed, c.key)[k] = IF c.key = k THEN 0 ELSE o.pressed[k]
      BY <3>1 DEF remove
    <3>5. o.pressed[k] \in Nat /\ e.type = c.type
      BY <3>1
    <3> HIDE DEF e
    <3>6. CASE c.type = "DOWN"
      BY <1>3, <2>5, <3>2, <3>3, <3>5, <3>6
    <3>7. CASE c.type = "UP"
      BY <1>3, <2>5, <3>2, <3>4, <3>5, <3>7
    <3>8. QED
      BY <1>1, <1>5, <3>6, <3>7
  <2>7. e.type # "MODIFY" /\ (e.type = "DOWN" => e.flags = o1.last)
    BY <1>3, <1>5
  <2> HIDE DEF e
  <2>8. p \in Coherent(down, flags)
    BY <1>2, <2>1, <2>2, <2>5, <2>6, <2>7, CoherentPush
  <2>9. QED
    BY <2>8 DEF p
<1>6. QED
  BY <1>4, <1>5

LEMMA CoherentClear ==
  ASSUME NEW down, NEW flags, NEW o \in Coherent(down, flags)
  PROVE  PressDownKeysClear(o) \in Coherent(down, flags)
<1> DEFINE s == upEvents(o.pressed)
           p == PressDownKeysClear(o)
<1>1. o \in SentStatics /\ o.pressed \in [OutputKeys -> Nat] /\ p \in SentStatics
  BY PressDownKeysClearType DEF Coherent, SentStatics
<1>2. s \in Seq(SentEvent)
  BY <1>1, UpEventsType
<1>3. /\ \A i \in DOMAIN s : s[i].type = "UP"
      /\ \A k \in OutputKeys : o.pressed[k] > 0 => \E i \in DOMAIN s : s[i].key = k
  BY <1>1, UpEventsEffect
<1>4. p.q = o.q \o s /\ p.last = o.last /\ p.pressed = nonePressed
  BY <1>1 DEF PressDownKeysClear, SentStatics
<1> HIDE DEF s, p
<1>5. announced(o.last, s, Len(s), o.last)
  BY <1>2, <1>3 DEF announced
<1>6. \A i \in DOMAIN s : carriesFlags(o.last, s, i) /\ changesOneFlag(o.last, s, i)
  BY <1>3 DEF carriesFlags, changesOneFlag
<1>7. ASSUME NEW k \in OutputKeys
      PROVE  /\ ~(p.pressed[k] > 0) /\ ~downAfter({}, s, k)
             /\ ~(o.pressed[k] > 0 /\ \A i \in DOMAIN s : ~about(s[i], k))
  BY <1>3, <1>4 DEF nonePressed, downAfter, about
<1>8. p \in Coherent(down, flags)
  BY <1>1, <1>2, <1>4, <1>5, <1>6, <1>7, CoherentConcat
<1>9. QED
  BY <1>8 DEF p

LEMMA CoherentPointer ==
  ASSUME NEW down, NEW flags, NEW o \in Coherent(down, flags)
  PROVE  FireRelativePointer(o) \in Coherent(down, flags)
<1> DEFINE o1 == FireModifiers(o, makeFlags(o.fs))
           e  == [type |-> "POINTER", key |-> VK_NONE, flags |-> {}]
           p  == push(o1, e)
<1>1. o1 \in Coherent(down, flags)
  BY MakeFlagsType, CoherentModifiers
<1> HIDE DEF o1
<1>2. e \in SentEvent
  BY KeyCodesDisjoint DEF SentEvent, OutEvent
<1>3. /\ p \in SentStatics
      /\ p.q = Append(o1.q, e) /\ p.last = o1.last /\ p.pressed = o1.pressed
  BY <1>1, <1>2, PushType DEF Coherent, SentStatics, push
<1>4. \A k : ~about(e, k)
  BY DEF about
<1>5. e.type # "MODIFY" /\ e.type # "DOWN"
  OBVIOUS
<1> HIDE DEF e, p
<1>6. p \in Coherent(down, flags)
  BY <1>1, <1>2, <1>3, <1>4, <1>5, CoherentPush
<1>7. QED
  BY <1>6 DEF FireRelativePointer, p, o1, e

\* What the system will have been told agrees with the statics, whatever is emitted.
LEMMA CoherentClosed == \A down, flags : Closed(Coherent(down, flags))
<1> TAKE down, flags
<1> DEFINE T == Coherent(down, flags)
<1>1. T \subseteq SentStatics
  BY DEF Coherent
<1>2. ASSUME NEW o \in T
      PROVE  /\ \A fs \in FlagStatusItems : [o EXCEPT !.fs = fs] \in T
             /\ \A new \in SUBSET ModifierFlags : FireModifiers(o, new) \in T
             /\ \A c \in FireOutputCall :
                  ~c.repeat \/ (c.type = "DOWN" /\ o.pressed[c.key] > 0) => FireOutputable(o, c) \in T
             /\ PressDownKeysClear(o) \in T
             /\ FireRelativePointer(o) \in T
  BY CoherentItems, CoherentModifiers, CoherentOutput, CoherentClear, CoherentPointer
<1> HIDE DEF T
<1>3. Closed(T)
  BY <1>1, <1>2 DEF Closed
<1>4. QED
  BY <1>3 DEF T

LEMMA SentStaticsClosed == Closed(SentStatics)
<1>1. ASSUME NEW o \in SentStatics, NEW c \in FireOutputCall
      PROVE  FireOutputable(o, c) \in SentStatics
  BY FireOutputableType DEF FireOutputCall
<1>2. QED
  BY <1>1, NewItemsType, FireModifiersType, PressDownKeysClearType, FireRelativePointerType
     DEF Closed

LEMMA ClosedItems ==
  ASSUME NEW T, Closed(T), NEW o \in T, NEW fs \in FlagStatusItems
  PROVE  /\ o \in SentStatics /\ o.fs \in FlagStatusItems
         /\ [o EXCEPT !.fs = fs] \in T
  BY DEF Closed, SentStatics

LEMMA ClosedModifiers ==
  ASSUME NEW T, Closed(T), NEW o \in T
  PROVE  FireModifiers(o, makeFlags(o.fs)) \in T
  BY MakeFlagsType DEF Closed

LEMMA VirtualKeysKeep ==
  ASSUME NEW T, Closed(T), NEW o \in T, NEW c \in FireCall
  PROVE  /\ c.key \in DOMAIN VirtualLock => HandleVK_LOCK(o, c) \in T
         /\ c.key \in DOMAIN VirtualSticky => HandleVK_STICKY(o, c) \in T
         /\ c.key \in DOMAIN VirtualLazy => HandleVK_LAZY(o, c) \in T
<1>1. o.fs \in FlagStatusItems
  BY ItemsType DEF Closed
<1>2. ASSUME NEW fs \in FlagStatusItems
      PROVE  FireModifiers([o EXCEPT !.fs = fs], makeFlags([o EXCEPT !.fs = fs].fs)) \in T
  <2> DEFINE p == [o EXCEPT !.fs = fs]
  <2>1. p \in T
    BY ClosedItems
  <2> HIDE DEF p
  <2>2. FireModifiers(p, makeFlags(p.fs)) \in T
    BY <2>1, ClosedModifiers
  <2>3. QED
    BY <2>2 DEF p
<1>3. HandleVK_LOCK(o, c) \in T
  <2>1. setLock(o.fs, {VirtualLock[c.key].flag}, VirtualLock[c.key].op) \in FlagStatusItems
    BY <1>1, LockStickyType
  <2>2. QED
    BY <1>2, <2>1 DEF HandleVK_LOCK
<1>4. HandleVK_STICKY(o, c) \in T
  <2>1. sticky_toggle(o.fs, {VirtualSticky[c.key]}) \in FlagStatusItems
    BY <1>1, LockStickyType
  <2>2. QED
    BY <1>2, <2>1 DEF HandleVK_STICKY
<1>5. HandleVK_LAZY(o, c) \in T
  <2> DEFINE f == {VirtualLazy[c.key]}
  <2>1. increase(o.fs, f) \in FlagStatusItems /\ decrease(o.fs, f) \in FlagStatusItems
    BY <1>1, CountType
  <2>2. [o EXCEPT !.fs = increase(@, f)] \in T /\ [o EXCEPT !.fs = decrease(@, f)] \in T
    BY <2>1, ClosedItems
  <2>3. c.repeat \in BOOLEAN
    BY DEF FireCall
  <2>4. QED
    BY <2>2, <2>3 DEF HandleVK_LAZY
<1>6. QED
  BY <1>3, <1>4, <1>5

LEMMA FireKeyKeeps ==
  ASSUME NEW T, Closed(T), NEW o \in T, NEW c \in FireCall,
         c \in FireOutputCall => FireOutputable(o, c) \in T
  PROVE  FireKey(o, c) \in T
<1>1. CASE c.key \in VirtualKeys
  BY <1>1, VirtualKeysKeep DEF FireKey, VirtualKeys
<1>2. CASE c.key \in ExtraFlags \cup {VK_NONE}
  BY <1>2, KeyCodesDisjoint DEF FireKey, VirtualKeys
<1>3. CASE c.key \notin VirtualKeys /\ c.key \notin ExtraFlags \cup {VK_NONE}
  <2>1. c \in FireOutputCall
    BY <1>3 DEF FireOutputCall, FireCall, KeyCodes, OutputKeys
  <2>2. FireKey(o, c) = FireOutputable(o, c)
    BY <1>3 DEF FireKey, VirtualKeys
  <2>3. QED
    BY <2>1, <2>2
<1>4. QED
  BY <1>1, <1>2, <1>3

LEMMA FireKeyType ==
  ASSUME NEW o \in SentStatics, NEW c \in FireCall
  PROVE  FireKey(o, c) \in SentStatics
  BY SentStaticsClosed, FireOutputableType, FireKeyKeeps DEF FireOutputCall

\* A call that is not a repetition.
LEMMA FireKeyOnce ==
  ASSUME NEW T, Closed(T), NEW o \in T, NEW type \in {"DOWN", "UP", "MODIFY"},
         NEW key \in KeyCodes, NEW flags \in SUBSET ModifierFlags
  PROVE  FireKey(o, Call(type, key, flags, FALSE)) \in T
<1> DEFINE c == Call(type, key, flags, FALSE)
<1>1. c \in FireCall /\ ~c.repeat
  BY DEF Call, FireCall
<1> HIDE DEF c
<1>2. \A d \in FireOutputCall : ~d.repeat => FireOutputable(o, d) \in T
  BY DEF Closed
<1>3. c \in FireOutputCall => FireOutputable(o, c) \in T
  BY <1>1, <1>2
<1>4. FireKey(o, c) \in T
  BY <1>1, <1>3, FireKeyKeeps
<1>5. QED
  BY <1>4 DEF c

LEMMA FireDownUpKeeps ==
  ASSUME NEW T, Closed(T), NEW o \in T, NEW flags \in SUBSET ModifierFlags, NEW key \in KeyCodes
  PROVE  fire_downup(o, flags, key) \in T
<1>1. CASE key \in ModifierFlags
  <2> DEFINE delta == scopeDelta(o.fs, flags)
             o1 == [o EXCEPT !.fs = increase(scopeEnter(@, flags), {key})]
             o2 == FireKey(o1, Call("MODIFY", key, makeFlags(o1.fs), FALSE))
             o3 == [o2 EXCEPT !.fs = decrease(@, {key})]
             o4 == FireKey(o3, Call("MODIFY", key, makeFlags(o3.fs), FALSE))
  <2>1. o.fs \in FlagStatusItems
    BY ItemsType DEF Closed
  <2>2. /\ delta \in [ModifierFlags -> Int]
        /\ increase(scopeEnter(o.fs, flags), {key}) \in FlagStatusItems
    BY <2>1, ScopeType, CountType
  <2>3. o1 \in T
    BY <2>2, ClosedItems
  <2> HIDE DEF delta, o1
  <2>4. o2 \in T
    BY <2>3, MakeFlagsType, FireKeyOnce
  <2> HIDE DEF o2
  <2>5. decrease(o2.fs, {key}) \in FlagStatusItems
    BY <2>4, ItemsType, CountType DEF Closed
  <2>6. o3 \in T
    BY <2>4, <2>5, ClosedItems
  <2> HIDE DEF o3
  <2>7. o4 \in T
    BY <2>6, MakeFlagsType, FireKeyOnce
  <2> HIDE DEF o4
  <2>8. scopeExit(o4.fs, delta) \in FlagStatusItems
    BY <2>2, <2>7, ItemsType, ScopeExitType DEF Closed
  <2>9. [o4 EXCEPT !.fs = scopeExit(@, delta)] \in T
    BY <2>7, <2>8, ClosedItems
  <2>10. QED
    BY <1>1, <2>9 DEF fire_downup, fireModifierDownUp, delta, o1, o2, o3, o4
<1>2. CASE key \notin ModifierFlags
  BY <1>2, FireKeyOnce DEF fire_downup
<1>3. QED
  BY <1>1, <1>2

-------------------------------------------------------------------------------
(***************************************************************************)
(* A modifier sent as a key, with the FireModifiers of its press and of    *)
(* its release inside one ScopedTemporaryFlagsChanger.                     *)
(***************************************************************************)
\* A MODIFY announces flags and changes none.
LEMMA ModifierFires ==
  ASSUME NEW o \in SentStatics, NEW key \in ModifierFlags, NEW flags \in SUBSET ModifierFlags
  PROVE  LET p == FireKey(o, Call("MODIFY", key, flags, FALSE))
         IN  /\ p \in SentStatics /\ p.fs = o.fs
             /\ key \notin ExtraFlags => p.last = flags \ ExtraFlags
<1> DEFINE c == Call("MODIFY", key, flags, FALSE)
           to == flags \ ExtraFlags
<1>1. c.type = "MODIFY" /\ c.key = key /\ c.flags = flags
  BY DEF Call
<1> HIDE DEF c
<1>2. key \notin VirtualKeys /\ key # VK_NONE
  BY KeyCodesDisjoint
<1>3. CASE key \in ExtraFlags
  BY <1>1, <1>2, <1>3 DEF FireKey, VirtualKeys, c
<1>4. CASE key \notin ExtraFlags
  <2>1. FireKey(o, c) = FireModifiers(o, to)
    BY <1>1, <1>2, <1>4 DEF FireKey, FireOutputable, VirtualKeys
  <2>2. FireModifiers(o, to) \in SentStatics
    BY FireModifiersType
  <2>3. FireModifiers(o, to).fs = o.fs /\ FireModifiers(o, to).last = to
    BY DEF FireModifiers, SentStatics
  <2>4. QED
    BY <2>1, <2>2, <2>3 DEF c
<1>5. QED
  BY <1>3, <1>4

\* The press and the release of a key cancel out in the accounting; CapsLock's
\* press stays, and a scope around it does not see it.
LEMMA PressReleaseInScope ==
  ASSUME NEW fs \in FlagStatusItems, NEW key \in ModifierFlags,
         NEW delta \in [ModifierFlags -> Int]
  PROVE  scopeExit(decrease(increase(addTemporary(fs, delta), {key}), {key}), delta)
           = IF key = CAPSLOCK THEN increase(fs, {key}) ELSE fs
<1> DEFINE entered == addTemporary(fs, delta)
           pressed == increase(entered, {key})
           released == decrease(pressed, {key})
<1>1. /\ entered \in FlagStatusItems /\ pressed \in FlagStatusItems
      /\ released \in FlagStatusItems /\ increase(fs, {key}) \in FlagStatusItems
  BY AddTemporaryType, CountType
<1>2. CASE key # CAPSLOCK
  <2>1. ASSUME NEW f \in ModifierFlags PROVE released[f] = entered[f]
    <3>1. CASE f = CAPSLOCK
      BY <1>2, <3>1 DEF increase, decrease
    <3>2. CASE f # CAPSLOCK
      BY <1>1, <3>2, DecreaseUndoesIncrease
    <3>3. QED
      BY <3>1, <3>2
  <2> HIDE DEF entered, released
  <2>2. released = entered
    BY <1>1, <2>1 DEF FlagStatusItems
  <2>3. QED
    BY <1>2, <2>2, ScopeUndone DEF entered, released
<1>3. CASE key = CAPSLOCK
  <2>1. ASSUME NEW f \in ModifierFlags
        PROVE  released[f] = addTemporary(increase(fs, {key}), delta)[f]
    <3>1. fs[f] \in Item /\ delta[f] \in Int
      BY DEF FlagStatusItems
    <3>2. CASE f = CAPSLOCK
      <4>1. entered[f] = [fs[f] EXCEPT !.temporary = @ + delta[f]]
        BY DEF addTemporary
      <4>2. pressed[f] = [entered[f] EXCEPT !.lock = 1 - @]
        BY <1>3, <3>2 DEF increase, increaseItem
      <4>3. released[f] = pressed[f]
        BY <1>3, <3>2 DEF decrease, decreaseItem
      <4>4. increase(fs, {key})[f] = [fs[f] EXCEPT !.lock = 1 - @]
        BY <1>3, <3>2 DEF increase, increaseItem
      <4>5. addTemporary(increase(fs, {key}), delta)[f]
              = [increase(fs, {key})[f] EXCEPT !.temporary = @ + delta[f]]
        BY DEF addTemporary
      <4> DEFINE item == fs[f]
                 d == delta[f]
      <4>6. [[item EXCEPT !.temporary = @ + d] EXCEPT !.lock = 1 - @]
              = [[item EXCEPT !.lock = 1 - @] EXCEPT !.temporary = @ + d]
        <5> HIDE DEF item, d
        <5>1. QED
          BY <3>1 DEF Item
      <4> HIDE DEF entered, pressed, released
      <4>7. released[f] = [[item EXCEPT !.temporary = @ + d] EXCEPT !.lock = 1 - @]
        BY <4>1, <4>2, <4>3
      <4>8. addTemporary(increase(fs, {key}), delta)[f]
              = [[item EXCEPT !.lock = 1 - @] EXCEPT !.temporary = @ + d]
        BY <4>4, <4>5
      <4> HIDE DEF item, d
      <4>9. QED
        BY <4>6, <4>7, <4>8
    <3>3. CASE f # CAPSLOCK
      BY <1>3, <3>3 DEF increase, decrease, addTemporary
    <3>4. QED
      BY <3>2, <3>3
  <2>2. addTemporary(increase(fs, {key}), delta) \in FlagStatusItems
    BY <1>1, AddTemporaryType
  <2> HIDE DEF released
  <2>3. released = addTemporary(increase(fs, {key}), delta)
    BY <1>1, <2>1, <2>2 DEF FlagStatusItems
  <2>4. QED
    BY <1>1, <1>3, <2>3, ScopeUndone DEF released
<1>4. QED
  BY <1>2, <1>3

\* fire_downup of a modifier key leaves the accounting as it found it, but for
\* CapsLock's toggle, whatever counts, locks and stickies there were, and with
\* the system told of exactly the flags it was asked for (FireKey::fire_downup,
\* ScopedTemporaryFlagsChanger).
THEOREM DownUpRestores ==
  ASSUME NEW o \in SentStatics, NEW flags \in SUBSET ModifierFlags,
         NEW key \in ModifierFlags
  PROVE  LET p == fire_downup(o, flags, key)
         IN  /\ p.fs = IF key = CAPSLOCK THEN increase(o.fs, {key}) ELSE o.fs
             /\ key \notin ExtraFlags \cup {CAPSLOCK} => p.last = flags \ ExtraFlags
<1> DEFINE delta == scopeDelta(o.fs, flags)
           fs1 == increase(scopeEnter(o.fs, flags), {key})
           o1 == [o EXCEPT !.fs = increase(scopeEnter(@, flags), {key})]
           o2 == FireKey(o1, Call("MODIFY", key, makeFlags(o1.fs), FALSE))
           o3 == [o2 EXCEPT !.fs = decrease(@, {key})]
           o4 == FireKey(o3, Call("MODIFY", key, makeFlags(o3.fs), FALSE))
<1>1. /\ o.fs \in FlagStatusItems /\ delta \in [ModifierFlags -> Int]
      /\ scopeEnter(o.fs, flags) = addTemporary(o.fs, delta)
      /\ scopeEnter(o.fs, flags) \in FlagStatusItems
      /\ fs1 \in FlagStatusItems /\ decrease(fs1, {key}) \in FlagStatusItems
  BY ItemsType, ScopeType, CountType DEF scopeEnter
<1>2. fire_downup(o, flags, key) = [o4 EXCEPT !.fs = scopeExit(@, delta)]
  BY DEF fire_downup, fireModifierDownUp
<1> HIDE DEF delta, fs1
<1>3. o1 \in SentStatics /\ o1.fs = fs1
  BY <1>1, NewItemsType DEF SentStatics, fs1
<1> HIDE DEF o1
<1>4. o2 \in SentStatics /\ o2.fs = fs1
  <2>1. makeFlags(o1.fs) \in SUBSET ModifierFlags
    BY <1>1, <1>3, MakeFlagsType
  <2> HIDE DEF fs1
  <2>2. QED
    BY <1>3, <2>1, ModifierFires
<1> HIDE DEF o2
<1>5. o3 \in SentStatics /\ o3.fs = decrease(fs1, {key})
  BY <1>1, <1>4, NewItemsType DEF SentStatics
<1> HIDE DEF o3
<1>6. /\ o4 \in SentStatics /\ o4.fs = o3.fs
      /\ key \notin ExtraFlags => o4.last = makeFlags(o3.fs) \ ExtraFlags
  <2>1. makeFlags(o3.fs) \in SUBSET ModifierFlags
    BY <1>1, <1>5, MakeFlagsType
  <2>2. QED
    BY <1>5, <2>1, ModifierFires
<1> HIDE DEF o4
<1>7. /\ fire_downup(o, flags, key).fs = scopeExit(decrease(fs1, {key}), delta)
      /\ fire_downup(o, flags, key).last = o4.last
  BY <1>2, <1>5, <1>6 DEF SentStatics
<1>8. scopeExit(decrease(fs1, {key}), delta) = IF key = CAPSLOCK THEN increase(o.fs, {key}) ELSE o.fs
  BY <1>1, PressReleaseInScope DEF fs1
<1>9. ASSUME key # CAPSLOCK PROVE makeFlags(decrease(fs1, {key})) = flags
  <2> DEFINE entered == scopeEnter(o.fs, flags)
             released == decrease(fs1, {key})
  <2>1. ASSUME NEW f \in ModifierFlags PROVE released[f] = entered[f]
    <3>1. CASE f = CAPSLOCK
      BY <1>9, <3>1 DEF fs1, increase, decrease
    <3>2. CASE f # CAPSLOCK
      BY <1>1, <3>2, DecreaseUndoesIncrease DEF fs1
    <3>3. QED
      BY <3>1, <3>2
  <2> HIDE DEF entered, released
  <2>2. released = entered
    BY <1>1, <2>1 DEF FlagStatusItems, entered, released
  <2>3. QED
    BY <1>1, <2>2, ScopeTurnsOn DEF entered, released
<1>10. fire_downup(o, flags, key).fs = IF key = CAPSLOCK THEN increase(o.fs, {key}) ELSE o.fs
  BY <1>7, <1>8
<1>11. key \notin ExtraFlags \cup {CAPSLOCK} => fire_downup(o, flags, key).last = flags \ ExtraFlags
  BY <1>5, <1>6, <1>7, <1>9
<1>12. QED
  BY <1>10, <1>11

===============================================================================
