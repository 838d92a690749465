---------------------------- MODULE DevicesProofs -----------------------------
(***************************************************************************)
(* The theorems about Devices, for any keys, consumer keys, devices,       *)
(* buttons and rules.  The parts: numbers; what every function keeps of    *)
(* the statics, from the smallest to the callbacks of Core; the types;     *)
(* the flush after a typed key; who holds a consumer key; what is          *)
(* counted, what the devices are told, and that both are right while no    *)
(* device comes, goes or is configured.                                    *)
(***************************************************************************)
EXTENDS Devices, EventOutputProofs, WellFoundedInduction

-------------------------------------------------------------------------------
(***************************************************************************)
(* Numbers: induction, and functions applied one after the other.          *)
(***************************************************************************)
LEMMA Least ==
  ASSUME NEW S \in SUBSET Nat, S # {}
  PROVE  \E n \in S : \A m \in S : n <= m
<1> DEFINE R == OpToRel(<, Nat)
<1>1. \A n, m \in Nat : <<m, n>> \in R <=> m < n
  BY DEF OpToRel
<1>2. IsWellFoundedOn(R, Nat)
  BY NatLessThanWellFounded
<1> HIDE DEF R
<1>3. PICK n \in S : \A m \in S : ~(<<m, n>> \in R)
  BY <1>2, WFMin
<1>4. \A m \in S : ~(m < n)
  BY <1>1, <1>3
<1>5. QED
  BY <1>3, <1>4

LEMMA UpTo ==
  ASSUME NEW n \in Nat, NEW S, 0 \in S, \A m \in 1 .. n : m - 1 \in S => m \in S
  PROVE  \A m \in 0 .. n : m \in S
<1> DEFINE T == {m \in 0 .. n : m \notin S}
<1>1. SUFFICES ASSUME T # {} PROVE FALSE
  OBVIOUS
<1>2. PICK m \in T : \A k \in T : m <= k
  <2>1. T \in SUBSET Nat
    OBVIOUS
  <2> HIDE DEF T
  <2>2. QED
    BY <1>1, <2>1, Least
<1>3. m \in 1 .. n /\ m \notin S
  BY <1>2
<1>4. m - 1 \notin T
  BY <1>2
<1>5. QED
  BY <1>3, <1>4

\* The least of a set of numbers, as FiniteSetsExt has it.
LEMMA MinIs ==
  ASSUME NEW S \in SUBSET Nat, S # {}
  PROVE  Min(S) \in S /\ \A m \in S : Min(S) <= m
<1>1. PICK n \in S : \A m \in S : n <= m
  BY Least
<1>2. QED
  BY <1>1 DEF Min

LEMMA Folds ==
  ASSUME NEW X, NEW x \in X, NEW n \in Nat, NEW step \in [1 .. n -> [X -> X]]
  PROVE  \E f \in [0 .. n -> X] : f[0] = x /\ \A i \in 1 .. n : f[i] = step[i][f[i - 1]]
<1> DEFINE Good(m, f) == f[0] = x /\ \A i \in 1 .. m : f[i] = step[i][f[i - 1]]
           S == {m \in 0 .. n : \E f \in [0 .. m -> X] : Good(m, f)}
<1>1. 0 \in S
  <2>1. [i \in 0 .. 0 |-> x] \in [0 .. 0 -> X] /\ Good(0, [i \in 0 .. 0 |-> x])
    OBVIOUS
  <2> HIDE DEF Good
  <2>2. QED
    BY <2>1
<1>2. ASSUME NEW m \in 1 .. n, m - 1 \in S PROVE m \in S
  <2>1. PICK f \in [0 .. m - 1 -> X] : Good(m - 1, f)
    BY <1>2
  <2> DEFINE g == [i \in 0 .. m |-> IF i < m THEN f[i] ELSE step[m][f[m - 1]]]
  <2>2. step[m] \in [X -> X] /\ f[m - 1] \in X
    OBVIOUS
  <2>3. g \in [0 .. m -> X]
    BY <2>2
  <2>4. g[0] = x
    BY <2>1
  <2>5. ASSUME NEW i \in 1 .. m PROVE g[i] = step[i][g[i - 1]]
    <3>1. g[i - 1] = f[i - 1]
      OBVIOUS
    <3>2. CASE i = m
      BY <3>1, <3>2
    <3>3. CASE i # m
      <4>1. g[i] = f[i] /\ i \in 1 .. m - 1
        BY <3>3
      <4>2. QED
        BY <2>1, <3>1, <4>1
    <3>4. QED
      BY <3>2, <3>3
  <2> HIDE DEF g
  <2>6. Good(m, g)
    BY <2>4, <2>5
  <2> HIDE DEF Good
  <2>7. QED
    BY <2>3, <2>6
<1>3. n \in S
  <2> HIDE DEF S
  <2>1. n \in 0 .. n
    OBVIOUS
  <2>2. QED
    BY <1>1, <1>2, <2>1, UpTo
<1>4. QED
  BY <1>3

-------------------------------------------------------------------------------
(***************************************************************************)
(* The statics between two events.  Nothing here locks a modifier but      *)
(* CapsLock, or makes one sticky; a single key that repeats is pressed.    *)
(***************************************************************************)
Unlocked ==
  {fs \in FlagStatusItems :
     \A f \in ModifierFlags \ {CAPSLOCK} : fs[f].lock = 0 /\ fs[f].sticky = 0}

RepeatsHeld(rep, pressed, consumers) ==
  /\ \A k \in PlainKeys : rep = single(k) => pressed[k] > 0
  /\ \A c \in ConsumerKeys : rep = single(c) => c \in consumers

Output == {o \in SentStatics : o.q = << >> /\ o.fs \in Unlocked}

Sound == {t \in State : t.o \in Output /\ RepeatsHeld(t.rep, t.o.pressed, t.consumers)}

LEMMA UnlockedKept ==
  ASSUME NEW fs \in Unlocked, NEW mods, NEW key
  PROVE  /\ clearTemporary(fs) \in Unlocked
         /\ setKey(fs, key, mods) \in Unlocked
         /\ increase(fs, mods) \in Unlocked
         /\ decrease(fs, mods) \in Unlocked
         /\ temporary_increase(fs, mods) \in Unlocked
         /\ temporary_decrease(fs, mods) \in Unlocked
         /\ resetItems(fs) \in Unlocked
         /\ sticky_clear(fs) \in Unlocked
         /\ lock_clear(fs) \in Unlocked
<1>1. fs \in FlagStatusItems
      /\ \A f \in ModifierFlags : f # CAPSLOCK => fs[f].lock = 0 /\ fs[f].sticky = 0
  BY DEF Unlocked
<1>2. ASSUME NEW gs \in FlagStatusItems,
             \A f \in ModifierFlags : f # CAPSLOCK => gs[f].lock = 0 /\ gs[f].sticky = 0
      PROVE  gs \in Unlocked
  BY <1>2 DEF Unlocked
<1>3. \A f \in ModifierFlags : fs[f] \in Item
  BY <1>1 DEF FlagStatusItems
<1>4. clearTemporary(fs) \in Unlocked
  BY <1>1, <1>2, <1>3, SetType DEF clearTemporary, Item
<1>5. setKey(fs, key, mods) \in Unlocked
  <2>1. ASSUME NEW f \in ModifierFlags, f # CAPSLOCK
        PROVE  setKey(fs, key, mods)[f].lock = fs[f].lock /\ setKey(fs, key, mods)[f].sticky = fs[f].sticky
    BY <2>1, <1>3 DEF setKey, clearTemporary, setItem, increaseItem, decreaseItem, Item
  <2>2. QED
    BY <1>1, <1>2, <2>1, SetType
<1>6. increase(fs, mods) \in Unlocked
  <2>1. ASSUME NEW f \in ModifierFlags, f # CAPSLOCK
        PROVE  increase(fs, mods)[f].lock = fs[f].lock /\ increase(fs, mods)[f].sticky = fs[f].sticky
    BY <2>1, <1>3 DEF increase, increaseItem, Item
  <2>2. QED
    BY <1>1, <1>2, <2>1, CountType
<1>7. decrease(fs, mods) \in Unlocked
  <2>1. ASSUME NEW f \in ModifierFlags, f # CAPSLOCK
        PROVE  decrease(fs, mods)[f].lock = fs[f].lock /\ decrease(fs, mods)[f].sticky = fs[f].sticky
    BY <2>1, <1>3 DEF decrease, decreaseItem, Item
  <2>2. QED
    BY <1>1, <1>2, <2>1, CountType
<1>8. temporary_increase(fs, mods) \in Unlocked /\ temporary_decrease(fs, mods) \in Unlocked
  <2>1. ASSUME NEW delta
        PROVE  \A f \in ModifierFlags :
                 addTemporary(fs, delta)[f].lock = fs[f].lock /\ addTemporary(fs, delta)[f].sticky = fs[f].sticky
    BY <1>3 DEF addTemporary, Item
  <2>2. QED
    BY <1>1, <1>2, <2>1, TemporaryType DEF temporary_increase, temporary_decrease
<1>9. resetItems(fs) \in Unlocked
  BY <1>1, <1>2, <1>3, LockStickyType DEF resetItems, Item
<1>10. sticky_clear(fs) \in Unlocked
  BY <1>1, <1>2, <1>3, LockStickyType DEF sticky_clear, Item
<1>11. lock_clear(fs) \in Unlocked
  BY <1>1, <1>2, <1>3, LockStickyType DEF lock_clear, Item
<1>12. QED
  BY <1>4, <1>5, <1>6, <1>7, <1>8, <1>9, <1>10, <1>11

Typed == {t \in State : t.o \in Output}

\* What a call that sends something may change of the statics.
KeyOf(o, p, key, down) ==
  /\ p \in Output /\ (p.fs = o.fs \/ p.fs = sticky_clear(o.fs))
  /\ p.pressed = IF key \in PlainKeys THEN IF down THEN add(o.pressed, key) ELSE remove(o.pressed, key)
                 ELSE o.pressed

LEMMA OutputIs ==
  ASSUME NEW o \in Output
  PROVE  /\ o \in Statics /\ o \in SentStatics /\ o.q = << >> /\ o.fs \in Unlocked
         /\ o.fs \in FlagStatusItems /\ o.pressed \in [OutputKeys -> Nat]
         /\ o.last \in SUBSET SentFlags
<1>1. o \in SentStatics /\ o.q = << >> /\ o.fs \in Unlocked
  BY DEF Output
<1>2. o.last \in SUBSET ModifierFlags
  BY <1>1 DEF SentStatics, SentFlags
<1>3. o.q \in Seq(OutEvent)
  BY <1>1
<1>4. o \in Statics
  BY <1>1, <1>2, <1>3 DEF SentStatics, Statics
<1>5. QED
  BY <1>1, <1>4 DEF SentStatics

LEMMA OutputMade ==
  ASSUME NEW o \in SentStatics, o.fs \in Unlocked
  PROVE  [o EXCEPT !.q = << >>] \in Output
<1> DEFINE p == [o EXCEPT !.q = << >>]
<1>1. << >> \in Seq(SentEvent)
  OBVIOUS
<1>2. p \in SentStatics /\ p.q = << >> /\ p.fs = o.fs
  BY <1>1 DEF SentStatics
<1>3. QED
  BY <1>2 DEF Output

LEMMA TypedIs ==
  ASSUME NEW t \in Typed
  PROVE  /\ t \in State /\ t.o \in Output
         /\ t.count \in [Buttons -> Int] /\ t.held \in Int
         /\ t.active \in [DOMAIN rules -> BOOLEAN]
         /\ t.rep \in SUBSET Repeated /\ t.repeating \in BOOLEAN
         /\ t.owner \in {0} \cup DOMAIN rules
         /\ t.consumers \in SUBSET ConsumerKeys
         /\ t.scroll \in Seq({0, 1}) /\ t.scrollFlags \in SUBSET ModifierFlags
         /\ t.scrolling \in BOOLEAN /\ t.out \in Seq(Pointer)
  BY DEF Typed, State

LEMMA SoundIs ==
  ASSUME NEW t
  PROVE  t \in Sound <=> t \in Typed /\ RepeatsHeld(t.rep, t.o.pressed, t.consumers)
  BY DEF Sound, Typed

LEMMA NewOutput ==
  ASSUME NEW t \in Typed, NEW o \in Output
  PROVE  [t EXCEPT !.o = o] \in Typed
  BY OutputIs DEF Typed, State

LEMMA WithFs ==
  ASSUME NEW t \in Typed, NEW fs \in Unlocked
  PROVE  /\ withFs(t, fs) \in Typed
         /\ t \in Sound => withFs(t, fs) \in Sound
         /\ withFs(t, fs) = [t EXCEPT !.o = [t.o EXCEPT !.fs = fs]]
<1> DEFINE p == [t.o EXCEPT !.fs = fs]
<1>1. t \in State /\ t.o \in Output
  BY TypedIs
<1>2. fs \in FlagStatusItems
  BY DEF Unlocked
<1>3. p \in Output /\ p.pressed = t.o.pressed
  BY <1>1, <1>2 DEF Output, SentStatics
<1>4. withFs(t, fs) = [t EXCEPT !.o = p]
  BY <1>1 DEF withFs, State
<1> HIDE DEF p
<1>5. [t EXCEPT !.o = p] \in Typed
  BY <1>3, NewOutput
<1>6. t \in Sound => [t EXCEPT !.o = p] \in Sound
  <2>1. /\ [t EXCEPT !.o = p].o = p /\ [t EXCEPT !.o = p].rep = t.rep
        /\ [t EXCEPT !.o = p].consumers = t.consumers
    BY <1>1 DEF State
  <2>2. QED
    BY <1>3, <1>5, <2>1, SoundIs
<1>7. QED
  BY <1>4, <1>5, <1>6 DEF p

LEMMA FireModifiersIs ==
  ASSUME NEW o \in SentStatics, NEW new
  PROVE  LET p == FireModifiers(o, new)
         IN p.fs = o.fs /\ p.pressed = o.pressed /\ p.last = new \ ExtraFlags
  BY DEF FireModifiers, SentStatics

LEMMA Announce ==
  ASSUME NEW t \in Typed
  PROVE  LET p == [t.o EXCEPT !.last = flags(t) \ ExtraFlags]
         IN /\ announce(t) = [t EXCEPT !.o = p] /\ p \in Output
            /\ announce(t) \in Typed
            /\ t \in Sound => announce(t) \in Sound
<1> DEFINE p == [t.o EXCEPT !.last = flags(t) \ ExtraFlags]
           o == FireModifiers(t.o, flags(t))
<1>1. t \in State /\ t.o \in Output /\ t.o \in SentStatics /\ t.o.q = << >>
  BY TypedIs, OutputIs
<1>2. flags(t) \in SUBSET ModifierFlags
  BY MakeFlagsType DEF flags
<1>3. o \in SentStatics
  BY <1>1, <1>2, FireModifiersType
<1>4. o.fs = t.o.fs /\ o.pressed = t.o.pressed /\ o.last = flags(t) \ ExtraFlags
  BY <1>1, FireModifiersIs
<1>5. [o EXCEPT !.q = << >>] \in Output
  BY <1>1, <1>3, <1>4, OutputMade, OutputIs
<1> HIDE DEF o
<1>6. [o EXCEPT !.q = << >>] = p
  BY <1>1, <1>3, <1>4 DEF SentStatics
<1>7. announce(t) = [t EXCEPT !.o = p]
  BY <1>6 DEF announce, sent, o
<1>8. p.pressed = t.o.pressed
  BY <1>1 DEF SentStatics
<1> HIDE DEF p
<1>9. [t EXCEPT !.o = p] \in Typed
  BY <1>5, <1>6, NewOutput
<1>10. t \in Sound => [t EXCEPT !.o = p] \in Sound
  <2>1. /\ [t EXCEPT !.o = p].o = p /\ [t EXCEPT !.o = p].rep = t.rep
        /\ [t EXCEPT !.o = p].consumers = t.consumers
    BY <1>1 DEF State
  <2>2. QED
    BY <1>8, <1>9, <2>1, SoundIs
<1>11. QED
  BY <1>5, <1>6, <1>7, <1>9, <1>10 DEF p

Sendable == PlainKeys \cup ModifierFlags \cup {VK_NONE}

LEMMA SendKey ==
  ASSUME NEW t \in Typed, NEW key \in Sendable, NEW down \in BOOLEAN
  PROVE  \E p : /\ sendKey(t, key, down) = [t EXCEPT !.o = p] /\ KeyOf(t.o, p, key, down)
                /\ sendKey(t, key, down) \in Typed
<1> DEFINE type == IF key \in ModifierFlags THEN "MODIFY" ELSE IF down THEN "DOWN" ELSE "UP"
           c == Call(type, key, flags(t), FALSE)
           o == FireKey(t.o, c)
           p == [o EXCEPT !.q = << >>]
<1>1. t.o \in Output /\ t.o \in SentStatics /\ t.o.fs \in Unlocked /\ t.o.q = << >>
  BY TypedIs, OutputIs
<1>2. c \in FireCall /\ key \in KeyCodes /\ key \notin VirtualKeys
  <2>1. key \in KeyCodes /\ key \notin VirtualKeys
    BY KeyCodesDisjoint DEF Sendable, KeyCodes
  <2>2. QED
    BY <2>1, MakeFlagsType, CallType DEF flags
<1>3. o \in SentStatics
  BY <1>1, <1>2, FireKeyType
<1>4. c.key = key /\ c.type = type /\ c.flags = flags(t) /\ c.repeat = FALSE
  BY DEF Call
<1> HIDE DEF c
<1>5. KeyOf(t.o, p, key, down)
  <2> SUFFICES ASSUME o.fs = t.o.fs \/ o.fs = sticky_clear(t.o.fs),
                      o.pressed = IF key \in PlainKeys
                                  THEN IF down THEN add(t.o.pressed, key) ELSE remove(t.o.pressed, key)
                                  ELSE t.o.pressed
               PROVE  KeyOf(t.o, p, key, down)
    <3>1. CASE key \in ExtraFlags \cup {VK_NONE}
      <4>1. o = t.o
        BY <1>2, <1>4, <3>1 DEF FireKey, VirtualKeys
      <4>2. key \notin PlainKeys
        BY <3>1, KeyCodesDisjoint
      <4>3. QED
        BY <4>1, <4>2
    <3>2. CASE key \notin ExtraFlags \cup {VK_NONE}
      <4> DEFINE o1 == FireModifiers(t.o, flags(t) \ ExtraFlags)
                 e == [type |-> type, key |-> key, flags |-> flags(t) \ ExtraFlags]
                 o2 == push(o1, e)
      <4>1. o = FireOutputable(t.o, c)
        BY <1>2, <1>4, <3>2 DEF FireKey, VirtualKeys
      <4>2. o1.fs = t.o.fs /\ o1.pressed = t.o.pressed /\ o1 \in SentStatics
        <5>1. flags(t) \ ExtraFlags \in SUBSET ModifierFlags
          BY MakeFlagsType DEF flags
        <5>2. QED
          BY <1>1, <5>1, FireModifiersIs, FireModifiersType
      <4> HIDE DEF o1
      <4>3. /\ o2.pressed = o1.pressed
            /\ o2.fs = o1.fs \/ o2.fs = sticky_clear(o1.fs)
        BY <4>2 DEF push, SentStatics
      <4>4. DOMAIN o2 = {"fs", "last", "q", "pressed"}
        BY <4>2 DEF push, SentStatics
      <4>5. CASE key \in ModifierFlags
        <5>1. o = o1
          BY <1>4, <4>1, <4>5 DEF FireOutputable, o1
        <5>2. key \notin PlainKeys
          BY <4>5, KeyCodesDisjoint
        <5>3. QED
          BY <4>2, <5>1, <5>2
      <4>6. CASE key \notin ModifierFlags /\ down
        <5>1. o = [o2 EXCEPT !.pressed = add(@, key)]
          BY <1>4, <4>1, <4>6 DEF FireOutputable, o1
        <5>2. key \in PlainKeys
          BY <3>2, <4>6 DEF Sendable
        <5> HIDE DEF o2, o
        <5>3. o.fs = o2.fs /\ o.pressed = add(o2.pressed, key)
          BY <4>4, <5>1
        <5>4. QED
          BY <4>2, <4>3, <4>6, <5>2, <5>3
      <4>7. CASE key \notin ModifierFlags /\ ~down
        <5>1. o = [o2 EXCEPT !.pressed = remove(@, key)]
          BY <1>4, <4>1, <4>7 DEF FireOutputable, o1
        <5>2. key \in PlainKeys
          BY <3>2, <4>7 DEF Sendable
        <5> HIDE DEF o2, o
        <5>3. o.fs = o2.fs /\ o.pressed = remove(o2.pressed, key)
          BY <4>4, <5>1
        <5>4. QED
          BY <4>2, <4>3, <4>7, <5>2, <5>3
      <4>8. QED
        BY <4>5, <4>6, <4>7
    <3>3. QED
      BY <3>1, <3>2
  <2>1. o.fs \in Unlocked
    BY <1>1, UnlockedKept
  <2>2. p \in Output /\ p.fs = o.fs /\ p.pressed = o.pressed
    <3> HIDE DEF o
    <3>1. QED
      BY <1>3, <2>1, OutputMade DEF SentStatics
  <2> HIDE DEF o, p
  <2>3. QED
    BY <2>2 DEF KeyOf
<1>6. sendKey(t, key, down) = [t EXCEPT !.o = p]
  BY DEF sendKey, sent, c
<1>7. p \in Output
  BY <1>5 DEF KeyOf
<1> HIDE DEF p
<1>8. [t EXCEPT !.o = p] \in Typed
  BY <1>7, NewOutput
<1>9. QED
  BY <1>5, <1>6, <1>8

-------------------------------------------------------------------------------
(***************************************************************************)
(* What every function keeps: the counts of held keys and which rules      *)
(* convert are Core's, and a repeat it does not start is one that ran.     *)
(***************************************************************************)
Bears(t, u) ==
  /\ u \in Sound /\ u.held = t.held /\ u.active = t.active
  /\ u.repeating /\ u.owner # 0 => t.repeating /\ t.owner = u.owner

Keeps(t, u) == Bears(t, u) /\ u.consumers = t.consumers

LEMMA BearsTrans ==
  ASSUME NEW t, NEW u, NEW v, Bears(t, u), Bears(u, v)
  PROVE  Bears(t, v)
  BY DEF Bears

LEMMA KeepsTrans ==
  ASSUME NEW t, NEW u, NEW v, Keeps(t, u), Keeps(u, v)
  PROVE  Keeps(t, v)
  BY BearsTrans DEF Keeps

LEMMA KeepsSound ==
  ASSUME NEW t, NEW u, Keeps(t, u)
  PROVE  u \in Sound /\ Bears(t, u)
  BY DEF Keeps, Bears

LEMMA KeepsSelf ==
  ASSUME NEW t \in Sound
  PROVE  Keeps(t, t)
  BY DEF Keeps, Bears

LEMMA WithFsKeeps ==
  ASSUME NEW t \in Sound, NEW fs \in Unlocked
  PROVE  Keeps(t, withFs(t, fs))
<1>1. t \in Typed /\ t \in State
  BY SoundIs, TypedIs
<1>2. withFs(t, fs) \in Sound
  BY <1>1, WithFs
<1>3. QED
  BY <1>1, <1>2 DEF withFs, Keeps, Bears, State

LEMMA FlagsKeep ==
  ASSUME NEW t \in Sound, NEW fs
  PROVE  /\ Keeps(t, withFlags(t, fs)) /\ Keeps(t, withoutFlags(t, fs))
         /\ Keeps(t, hideFlags(t, fs)) /\ Keeps(t, showFlags(t, fs))
<1>1. t.o.fs \in Unlocked
  BY SoundIs, TypedIs, OutputIs
<1>2. QED
  BY <1>1, UnlockedKept, WithFsKeeps DEF withFlags, withoutFlags, hideFlags, showFlags

LEMMA AnnounceKeeps ==
  ASSUME NEW t \in Sound
  PROVE  Keeps(t, announce(t)) /\ announce(t).o.fs = t.o.fs
<1> DEFINE p == [t.o EXCEPT !.last = flags(t) \ ExtraFlags]
<1>1. t \in Typed /\ t \in State /\ t.o \in SentStatics
  BY SoundIs, TypedIs, OutputIs
<1>2. announce(t) \in Sound /\ announce(t) = [t EXCEPT !.o = p]
  BY <1>1, Announce
<1>3. p.fs = t.o.fs
  BY <1>1 DEF SentStatics
<1> HIDE DEF p
<1>4. QED
  BY <1>1, <1>2, <1>3 DEF Keeps, Bears, State

LEMMA PlusKeeps ==
  ASSUME NEW t \in Sound, NEW b \in Buttons, NEW n \in Int
  PROVE  Keeps(t, plus(t, b, n))
<1>1. t \in Typed /\ t \in State
  BY SoundIs, TypedIs
<1>2. [t.count EXCEPT ![b] = @ + n] \in [Buttons -> Int]
  BY <1>1, TypedIs
<1>3. plus(t, b, n) = [t EXCEPT !.count = [t.count EXCEPT ![b] = @ + n]]
  BY <1>1 DEF plus, State
<1> DEFINE count == [t.count EXCEPT ![b] = @ + n]
<1> HIDE DEF count
<1>4. [t EXCEPT !.count = count] \in State
  BY <1>1, <1>2 DEF State, count
<1>5. QED
  BY <1>1, <1>3, <1>4 DEF Keeps, Bears, Sound, State, count

LEMMA FirePointerKeeps ==
  ASSUME NEW t \in Sound, NEW move \in BOOLEAN
  PROVE  Keeps(t, firePointer(t, move)) /\ firePointer(t, move).o.fs = t.o.fs
<1> DEFINE u == announce(t)
           p == [buttons |-> makeButtons(t), move |-> move]
           out == Append(u.out, p)
<1>1. Keeps(t, u) /\ u \in Sound /\ u \in State /\ u.o.fs = t.o.fs
  BY AnnounceKeeps, KeepsSound DEF Sound
<1> HIDE DEF u
<1>2. p \in Pointer
  BY DEF Pointer, makeButtons
<1> HIDE DEF p
<1>3. out \in Seq(Pointer)
  BY <1>1, <1>2 DEF State
<1> HIDE DEF out
<1>4. [u EXCEPT !.out = out] \in State
  BY <1>1, <1>3 DEF State
<1>5. Keeps(u, [u EXCEPT !.out = out]) /\ [u EXCEPT !.out = out].o.fs = u.o.fs
  BY <1>1, <1>4 DEF Keeps, Bears, Sound, State
<1>6. firePointer(t, move) = [u EXCEPT !.out = out]
  BY DEF firePointer, u, p, out
<1>7. QED
  BY <1>1, <1>5, <1>6, KeepsTrans

LEMMA RepeatCancelKeeps ==
  ASSUME NEW t \in Typed
  PROVE  /\ repeatCancel(t) \in Sound
         /\ t \in Sound => Keeps(t, repeatCancel(t))
<1> DEFINE u == repeatCancel(t)
<1>1. t \in State /\ t.o \in Output
  BY TypedIs
<1>2. u \in State /\ u.o = t.o /\ u.rep = {} /\ u.repeating = FALSE
  BY <1>1 DEF repeatCancel, State
<1>3. \A key : single(key) # {}
  BY DEF single
<1>4. u \in Sound
  BY <1>1, <1>2, <1>3 DEF Sound, RepeatsHeld
<1>5. QED
  BY <1>1, <1>2, <1>4 DEF repeatCancel, Keeps, Bears, State

LEMMA RepeatTapKeeps ==
  ASSUME NEW t \in Sound, NEW key \in ConsumerKeys \cup {VK_NONE}
  PROVE  Keeps(t, repeatTap(t, key))
<1>1. CASE key = VK_NONE
  BY <1>1, KeepsSelf DEF repeatTap
<1>2. CASE key # VK_NONE
  <2> DEFINE rep == t.rep \cup [key : {key}, down : BOOLEAN]
             u == [t EXCEPT !.rep = rep]
  <2>1. t \in State /\ t.rep \in SUBSET Repeated
    BY SoundIs, TypedIs
  <2>2. rep \in SUBSET Repeated
    BY <1>2, <2>1 DEF Repeated
  <2>3. \A k : rep # single(k)
    <3>1. [key |-> key, down |-> FALSE] \in rep
      OBVIOUS
    <3>2. \A k : [key |-> key, down |-> FALSE] # [key |-> k, down |-> TRUE]
      OBVIOUS
    <3> HIDE DEF rep
    <3>3. QED
      BY <3>1, <3>2 DEF single
  <2> HIDE DEF rep
  <2>4. u \in State /\ u.rep = rep
    BY <2>1, <2>2 DEF State
  <2>5. u \in Sound
    BY <2>1, <2>3, <2>4 DEF Sound, RepeatsHeld, State
  <2>6. repeatTap(t, key) = u
    BY <1>2 DEF repeatTap, rep
  <2>7. QED
    BY <2>1, <2>5, <2>6 DEF Keeps, Bears, State
<1>3. QED
  BY <1>1, <1>2

LEMMA CancelScrollKeeps ==
  ASSUME NEW t \in Sound
  PROVE  Keeps(t, cancelScroll(t))
<1>1. t \in State
  BY DEF Sound
<1>2. cancelScroll(t) \in State
  <2>1. << >> \in Seq({0, 1})
    OBVIOUS
  <2>2. QED
    BY <1>1, <2>1 DEF cancelScroll, State
<1>3. QED
  BY <1>1, <1>2 DEF cancelScroll, Keeps, Bears, Sound, State

-------------------------------------------------------------------------------
(***************************************************************************)
(* A key or a consumer key sent, with what that makes KeyboardRepeat do.   *)
(***************************************************************************)
LEMMA SingleIs ==
  /\ \A k, m : single(k) = single(m) <=> k = m
  /\ \A k \in PlainKeys \cup ConsumerKeys : single(k) \in SUBSET Repeated
<1>1. ASSUME NEW k, NEW m, single(k) = single(m) PROVE k = m
  <2>1. [key |-> k, down |-> TRUE] \in single(m)
    BY <1>1 DEF single
  <2>2. [key |-> k, down |-> TRUE].key = [key |-> m, down |-> TRUE].key
    BY <2>1 DEF single
  <2>3. QED
    BY <2>2
<1>2. \A k \in PlainKeys \cup ConsumerKeys : single(k) \in SUBSET Repeated
  BY DEF single, Repeated
<1>3. QED
  BY <1>1, <1>2

LEMMA RepeatsIs ==
  ASSUME NEW t \in Typed, NEW key \in PlainKeys \cup ConsumerKeys
  PROVE  LET u == startRepeat(t, key)
         IN /\ u \in Typed /\ u.rep = single(key) /\ u.o = t.o /\ u.owner = 0
            /\ u.held = t.held /\ u.active = t.active /\ u.consumers = t.consumers
<1>1. t \in State /\ single(key) \in SUBSET Repeated
  BY TypedIs, SingleIs
<1>2. QED
  BY <1>1 DEF startRepeat, Typed, State

\* A key sent in a state where nothing repeats that its release would leave.
LEMMA SentSound ==
  ASSUME NEW t \in Typed, NEW key \in Sendable, NEW down \in BOOLEAN,
         \A k \in PlainKeys : t.rep = single(k) =>
           IF k = key THEN down ELSE t.o.pressed[k] > 0,
         \A c \in ConsumerKeys : t.rep = single(c) => c \in t.consumers
  PROVE  LET u == sendKey(t, key, down)
         IN u \in Sound /\ u.held = t.held /\ u.active = t.active /\ u.consumers = t.consumers
            /\ u.repeating = t.repeating /\ u.owner = t.owner
<1> DEFINE u == sendKey(t, key, down)
<1>1. PICK p : u = [t EXCEPT !.o = p] /\ KeyOf(t.o, p, key, down) /\ u \in Typed
  BY SendKey
<1>2. t \in State /\ t.o.pressed \in [OutputKeys -> Nat]
  BY TypedIs, OutputIs
<1> HIDE DEF u
<1>3. /\ u.o = p /\ u.rep = t.rep /\ u.held = t.held /\ u.active = t.active
      /\ u.consumers = t.consumers /\ u.repeating = t.repeating /\ u.owner = t.owner
  BY <1>1, <1>2 DEF State
<1>4. ASSUME NEW k \in PlainKeys, t.rep = single(k) PROVE p.pressed[k] > 0
  <2>1. k \in OutputKeys
    BY DEF OutputKeys
  <2>2. IF k = key THEN down ELSE t.o.pressed[k] > 0
    BY <1>4
  <2>3. p.pressed = t.o.pressed \/ (key \in PlainKeys /\ p.pressed = IF down THEN add(t.o.pressed, key)
                                                     ELSE remove(t.o.pressed, key))
    BY <1>1 DEF KeyOf
  <2>4. k = key => p.pressed = add(t.o.pressed, key)
    BY <1>1, <2>2 DEF KeyOf
  <2>5. CASE k = key
    BY <1>2, <2>1, <2>4, <2>5 DEF add
  <2>6. CASE k # key
    BY <1>2, <2>1, <2>2, <2>3, <2>6 DEF add, remove
  <2>7. QED
    BY <2>5, <2>6
<1>5. RepeatsHeld(u.rep, u.o.pressed, u.consumers)
  BY <1>3, <1>4 DEF RepeatsHeld
<1>6. QED
  BY <1>1, <1>3, <1>5, SoundIs DEF u

LEMMA EmitKeeps ==
  ASSUME NEW t \in Sound, NEW key \in Sendable, NEW down \in BOOLEAN
  PROVE  /\ Keeps(t, sendKey(repeatKey(t, key, down), key, down))
         /\ Keeps(t, sendKey(repeatCancel(t), key, down))
<1>1. t \in Typed /\ t \in State /\ RepeatsHeld(t.rep, t.o.pressed, t.consumers)
  BY SoundIs, TypedIs
<1>2. ASSUME NEW v \in Sound, Keeps(t, v), v.rep # single(key) \/ key \notin PlainKeys
      PROVE  Keeps(t, sendKey(v, key, down))
  <2>1. v \in Typed /\ RepeatsHeld(v.rep, v.o.pressed, v.consumers)
    BY SoundIs
  <2>2. \A k \in PlainKeys : v.rep = single(k) => IF k = key THEN down ELSE v.o.pressed[k] > 0
    BY <1>2, <2>1 DEF RepeatsHeld
  <2>3. Keeps(v, sendKey(v, key, down))
    BY <2>1, <2>2, SentSound DEF Keeps, Bears, RepeatsHeld
  <2>4. QED
    BY <1>2, <2>3, KeepsTrans
<1>3. Keeps(t, repeatCancel(t)) /\ repeatCancel(t) \in Sound /\ repeatCancel(t).rep = {}
  <2>1. repeatCancel(t).rep = {}
    BY <1>1 DEF repeatCancel, State
  <2>2. QED
    BY <1>1, <2>1, RepeatCancelKeeps
<1>4. single(key) # {}
  BY DEF single
<1>5. Keeps(t, sendKey(repeatCancel(t), key, down))
  BY <1>2, <1>3, <1>4
<1>6. Keeps(t, sendKey(repeatKey(t, key, down), key, down))
  <2>1. CASE key = VK_NONE
    <3>1. repeatKey(t, key, down) = t /\ key \notin PlainKeys
      BY <2>1, KeyCodesDisjoint DEF repeatKey
    <3>2. QED
      BY <1>2, <3>1, KeepsSelf
  <2>2. CASE key \in ModifierFlags
    <3>1. repeatKey(t, key, down) = repeatCancel(t)
      BY <2>2, KeyCodesDisjoint DEF repeatKey
    <3>2. QED
      BY <1>5, <3>1
  <2>3. CASE key \in PlainKeys /\ down
    <3> DEFINE u == startRepeat(t, key)
    <3>1. repeatKey(t, key, down) = u
      BY <2>3, KeyCodesDisjoint DEF repeatKey
    <3>2. /\ u \in Typed /\ u.rep = single(key) /\ u.o = t.o /\ u.owner = 0
          /\ u.held = t.held /\ u.active = t.active /\ u.consumers = t.consumers
      BY <1>1, <2>3, RepeatsIs
    <3> HIDE DEF u
    <3>3. key \notin ConsumerKeys
      BY <2>3, DevicesConstants
    <3>4. \A k \in PlainKeys : u.rep = single(k) => IF k = key THEN down ELSE u.o.pressed[k] > 0
      <4>1. ASSUME NEW k \in PlainKeys, u.rep = single(k) PROVE k = key
        BY <3>2, <4>1, SingleIs
      <4>2. QED
        BY <2>3, <4>1
    <3>5. \A c \in ConsumerKeys : u.rep = single(c) => c \in u.consumers
      BY <3>2, <3>3, SingleIs
    <3>6. LET v == sendKey(u, key, down)
          IN v \in Sound /\ v.held = u.held /\ v.active = u.active /\ v.consumers = u.consumers
             /\ v.repeating = u.repeating /\ v.owner = u.owner
      BY <3>2, <3>4, <3>5, SentSound
    <3>7. QED
      BY <3>1, <3>2, <3>6 DEF Keeps, Bears
  <2>4. CASE key \in PlainKeys /\ ~down
    <3>1. repeatKey(t, key, down) = IF t.rep = single(key) THEN repeatCancel(t) ELSE t
      BY <2>4, KeyCodesDisjoint DEF repeatKey, endRepeat
    <3>2. QED
      BY <1>2, <1>5, <3>1, KeepsSelf
  <2>5. QED
    BY <2>1, <2>2, <2>3, <2>4 DEF Sendable
<1>7. QED
  BY <1>5, <1>6

\* FireConsumer for a key that does not repeat on its own, or goes down.
ConsumerSent(t, u, key, down) ==
  /\ u \in Typed /\ u.o.fs = t.o.fs /\ u.o.pressed = t.o.pressed /\ u.rep = t.rep
  /\ u.held = t.held /\ u.active = t.active
  /\ u.repeating = t.repeating /\ u.owner = t.owner
  /\ u.consumers = IF down THEN t.consumers \cup ({key} \ {VK_NONE}) ELSE t.consumers \ {key}

LEMMA FireConsumerIs ==
  ASSUME NEW t \in Typed, NEW key \in ConsumerKeys \cup {VK_NONE}, NEW down \in BOOLEAN
  PROVE  ConsumerSent(t, FireConsumer(t, key, down), key, down)
<1>1. t \in State /\ t.o \in SentStatics /\ VK_NONE \notin t.consumers
  BY TypedIs, OutputIs, DevicesConstants
<1>2. CASE key = VK_NONE
  BY <1>1, <1>2 DEF FireConsumer, ConsumerSent
<1>3. CASE key # VK_NONE
  <2> DEFINE a == announce(t)
             p == [t.o EXCEPT !.last = flags(t) \ ExtraFlags]
             c == IF down THEN t.consumers \cup {key} ELSE t.consumers \ {key}
  <2>1. a \in Typed /\ a = [t EXCEPT !.o = p]
    BY Announce
  <2>2. p.fs = t.o.fs /\ p.pressed = t.o.pressed
    BY <1>1 DEF SentStatics
  <2> HIDE DEF a, p
  <2>3. /\ a \in State /\ a.o = p /\ a.rep = t.rep /\ a.held = t.held /\ a.active = t.active
        /\ a.repeating = t.repeating /\ a.owner = t.owner /\ a.consumers = t.consumers
    BY <1>1, <2>1, TypedIs DEF State
  <2>4. c \in SUBSET ConsumerKeys
    BY <1>3, <1>1 DEF State
  <2>5. FireConsumer(t, key, down) = [a EXCEPT !.consumers = c]
    BY <1>3, <2>3 DEF FireConsumer, a
  <2>6. c = IF down THEN t.consumers \cup ({key} \ {VK_NONE}) ELSE t.consumers \ {key}
    BY <1>3
  <2> HIDE DEF c
  <2>7. [a EXCEPT !.consumers = c] \in Typed
    BY <2>1, <2>3, <2>4 DEF Typed, State
  <2>8. QED
    BY <2>2, <2>3, <2>5, <2>6, <2>7 DEF State, ConsumerSent
<1>4. QED
  BY <1>2, <1>3

-------------------------------------------------------------------------------
(***************************************************************************)
(* The rules of a setting, and the functions that make consumer keys.      *)
(***************************************************************************)
LEMMA RulesAre ==
  ASSUME setting \in Settings
  PROVE  /\ rules \in Seq(Rule) /\ DOMAIN rules = 1 .. Len(rules) /\ Len(rules) \in Nat
         /\ \A i \in DOMAIN rules : rules[i] \in Rule /\ wellFormed(rules[i])
<1>1. setting.rules \in Seq(Rule)
  BY DevicesConstants
<1>2. \A i \in DOMAIN setting.rules : wellFormed(setting.rules[i])
  BY DevicesConstants
<1>3. QED
  BY <1>1, <1>2 DEF rules

LEMMA ElementIs ==
  ASSUME NEW S, NEW q \in Seq(S), NEW n \in 1 .. Len(q)
  PROVE  q[n] \in S
  OBVIOUS

Makes(r, S) ==
  /\ r.repeat \in BOOLEAN /\ Len(r.to) \in Nat /\ DOMAIN r.to = 1 .. Len(r.to)
  /\ \A n \in 1 .. Len(r.to) : r.to[n].key \in S /\ r.to[n].flags \in SUBSET ModifierFlags

LEMMA RuleMakes ==
  ASSUME setting \in Settings, NEW i \in DOMAIN rules
  PROVE  /\ Makes(rules[i], targetsOf(rules[i].kind))
         /\ rules[i].from \in sourcesOf(rules[i].kind) \cup {NONE}
         /\ rules[i].fromFlags \in SUBSET ModifierFlags /\ rules[i].kind \in Kinds
         /\ rules[i].kind \in {"ConsumerToKey", "PointingButtonToKey"} => Len(rules[i].to) = 1
<1>1. rules[i] \in Rule /\ wellFormed(rules[i])
  BY RulesAre
<1> DEFINE r == rules[i]
<1> HIDE DEF r
<1>2. /\ r.repeat \in BOOLEAN /\ r.fromFlags \in SUBSET ModifierFlags /\ r.kind \in Kinds
      /\ r.to \in Seq([key : KeyCodes \cup ConsumerKeys \cup Buttons, flags : SUBSET ModifierFlags])
  BY <1>1 DEF Rule, r
<1>3. ASSUME NEW n \in 1 .. Len(r.to)
      PROVE  r.to[n].flags \in SUBSET ModifierFlags
  <2>1. r.to[n] \in [key : KeyCodes \cup ConsumerKeys \cup Buttons, flags : SUBSET ModifierFlags]
    BY <1>2, ElementIs
  <2> DEFINE x == r.to[n]
  <2>2. x \in [key : KeyCodes \cup ConsumerKeys \cup Buttons, flags : SUBSET ModifierFlags]
    BY <2>1
  <2> HIDE DEF x
  <2>3. x.flags \in SUBSET ModifierFlags
    BY <2>2
  <2>4. QED
    BY <2>3 DEF x
<1>4. Len(r.to) \in Nat /\ DOMAIN r.to = 1 .. Len(r.to)
  BY <1>2
<1>5. wellFormed(r)
  BY <1>1 DEF r
<1>6. Makes(r, targetsOf(r.kind))
  BY <1>2, <1>3, <1>4, <1>5 DEF Makes, wellFormed
<1>7. QED
  BY <1>2, <1>5, <1>6 DEF r, wellFormed

ConsumerMade(t, u, key, down) ==
  /\ Bears(t, u)
  /\ u.consumers = IF down THEN t.consumers \cup ({key} \ {VK_NONE}) ELSE t.consumers \ {key}

LEMMA ToConsumerIs ==
  ASSUME NEW t \in Sound, NEW r, NEW to, r.repeat \in BOOLEAN,
         to.key \in ConsumerKeys \cup {NONE}, NEW down \in BOOLEAN
  PROVE  ConsumerMade(t, toConsumer(t, r, to, down), to.key, down)
<1> SUFFICES ASSUME NEW x, x = toConsumer(t, r, to, down)
             PROVE  ConsumerMade(t, x, to.key, down)
  OBVIOUS
<1> DEFINE key == to.key
           v == IF down /\ ~r.repeat THEN repeatCancel(t) ELSE repeatConsumer(t, key, down)
           u == FireConsumer(v, key, down)
           start == down /\ key \in RepeatingKeys /\ r.repeat
<1>1. t \in Typed /\ t \in State /\ RepeatsHeld(t.rep, t.o.pressed, t.consumers)
  BY SoundIs, TypedIs
<1>2. key \in ConsumerKeys \cup {VK_NONE} /\ RepeatingKeys \subseteq ConsumerKeys
      /\ VK_NONE \notin ConsumerKeys
  BY DevicesConstants DEF NONE
<1>3. \/ v = repeatCancel(t) /\ ~start
      \/ v = t /\ key = VK_NONE
      \/ v = startRepeat(t, key) /\ start /\ key # VK_NONE
  BY <1>2 DEF repeatConsumer
<1>4. x = u
  BY DEF toConsumer
<1> HIDE DEF v, key
<1>5. /\ v \in Typed /\ v.o.pressed = t.o.pressed /\ v.consumers = t.consumers
      /\ v.held = t.held /\ v.active = t.active
  <2>1. CASE v = repeatCancel(t)
    <3>1. repeatCancel(t) \in Typed
      BY <1>1, RepeatCancelKeeps, SoundIs
    <3>2. QED
      BY <1>1, <2>1, <3>1 DEF repeatCancel, State
  <2>2. CASE v = t
    BY <1>1, <2>2
  <2>3. CASE v = startRepeat(t, key) /\ key \in RepeatingKeys
    BY <1>1, <1>2, <2>3, RepeatsIs
  <2>4. QED
    BY <1>3, <2>1, <2>2, <2>3
<1>6. /\ u \in Typed /\ u.o.pressed = v.o.pressed /\ u.rep = v.rep
      /\ u.held = v.held /\ u.active = v.active /\ u.repeating = v.repeating /\ u.owner = v.owner
      /\ u.consumers = IF down THEN v.consumers \cup ({key} \ {VK_NONE}) ELSE v.consumers \ {key}
  <2>1. v \in Typed
    BY <1>5
  <2>2. ConsumerSent(v, FireConsumer(v, key, down), key, down)
    BY <1>2, <2>1, FireConsumerIs, Zenon
  <2>3. ConsumerSent(v, u, key, down)
    BY <2>2
  <2> HIDE DEF u
  <2>4. QED
    BY <2>3 DEF ConsumerSent
<1> HIDE DEF u
<1>7. CASE v = repeatCancel(t)
  <2>1. v.rep = {} /\ v.repeating = FALSE
    BY <1>1, <1>7 DEF repeatCancel, State
  <2>2. \A k : single(k) # {}
    BY DEF single
  <2>3. RepeatsHeld(u.rep, u.o.pressed, u.consumers)
    BY <1>6, <2>1, <2>2 DEF RepeatsHeld
  <2>4. u \in Sound
    BY <1>6, <2>3, SoundIs
  <2>5. QED
    BY <1>4, <1>5, <1>6, <2>1, <2>4 DEF Bears, ConsumerMade, key
<1>8. CASE v = t /\ key = VK_NONE
  <2>1. u.consumers = v.consumers
    BY <1>1, <1>2, <1>6, <1>8 DEF State
  <2>2. RepeatsHeld(u.rep, u.o.pressed, u.consumers)
    BY <1>1, <1>6, <1>8, <2>1
  <2>3. u \in Sound
    BY <1>6, <2>2, SoundIs
  <2>4. QED
    BY <1>4, <1>5, <1>6, <1>8, <2>3 DEF Bears, ConsumerMade, key
<1>9. CASE v = startRepeat(t, key) /\ start /\ key # VK_NONE
  <2>1. v.rep = single(key) /\ v.owner = 0 /\ key \in ConsumerKeys
    BY <1>1, <1>2, <1>9, RepeatsIs DEF key
  <2>2. key \in u.consumers
    BY <1>6, <1>9
  <2>3. \A k : u.rep = single(k) => k = key
    BY <1>6, <2>1, SingleIs
  <2>4. key \notin PlainKeys
    BY <2>1, DevicesConstants
  <2>5. RepeatsHeld(u.rep, u.o.pressed, u.consumers)
    BY <2>2, <2>3, <2>4 DEF RepeatsHeld
  <2>6. u \in Sound
    BY <1>6, <2>5, SoundIs
  <2>7. QED
    BY <1>4, <1>5, <1>6, <2>1, <2>6 DEF Bears, ConsumerMade, key
<1>10. QED
  BY <1>3, <1>7, <1>8, <1>9

\* While consumer keys are tapped nothing repeats, and none is left pressed.
Tapped(t) ==
  {u \in Sound : Bears(t, u) /\ u.consumers \subseteq t.consumers /\ u.repeating = FALSE
                   /\ \A k : u.rep # single(k)}

LEMMA TapIs ==
  ASSUME NEW t \in Sound, NEW u \in Tapped(t), NEW to, to.key \in ConsumerKeys \cup {NONE}
  PROVE  tapConsumer(u, to) \in Tapped(t)
<1> DEFINE key == to.key
           a == withFlags(u, to.flags)
           b == FireConsumer(a, key, TRUE)
           c == FireConsumer(b, key, FALSE)
           d == repeatTap(c, key)
           e == withoutFlags(d, to.flags)
<1>1. /\ u \in Sound /\ Bears(t, u) /\ u.consumers \subseteq t.consumers /\ u.repeating = FALSE
      /\ \A k : u.rep # single(k)
  BY DEF Tapped
<1>2. key \in ConsumerKeys \cup {VK_NONE} /\ VK_NONE \notin ConsumerKeys
  BY DevicesConstants DEF NONE
<1> HIDE DEF key
<1>3. Keeps(u, a) /\ a \in Sound /\ a \in Typed /\ a.rep = u.rep /\ a.repeating = u.repeating
  <2>1. u \in State
    BY <1>1 DEF Sound
  <2>2. Keeps(u, a) /\ a \in Sound
    BY <1>1, FlagsKeep, KeepsSound
  <2>3. a.rep = u.rep /\ a.repeating = u.repeating
    BY <2>1 DEF withFlags, withFs, State
  <2>4. QED
    BY <2>2, <2>3, SoundIs
<1> HIDE DEF a
<1>4. /\ b \in Typed /\ b.rep = a.rep /\ b.held = a.held /\ b.active = a.active
      /\ b.repeating = a.repeating /\ b.consumers = a.consumers \cup ({key} \ {VK_NONE})
  <2>1. ConsumerSent(a, FireConsumer(a, key, TRUE), key, TRUE)
    BY <1>2, <1>3, FireConsumerIs, Zenon
  <2>2. ConsumerSent(a, b, key, TRUE)
    BY <2>1
  <2> HIDE DEF b
  <2>3. QED
    BY <2>2 DEF ConsumerSent
<1> HIDE DEF b
<1>5. /\ c \in Typed /\ c.rep = b.rep /\ c.held = b.held /\ c.active = b.active
      /\ c.repeating = b.repeating /\ c.consumers = b.consumers \ {key}
  <2>1. ConsumerSent(b, FireConsumer(b, key, FALSE), key, FALSE)
    BY <1>2, <1>4, FireConsumerIs, Zenon
  <2>2. ConsumerSent(b, c, key, FALSE)
    BY <2>1
  <2> HIDE DEF c
  <2>3. QED
    BY <2>2 DEF ConsumerSent
<1> HIDE DEF c
<1>6. c \in Sound /\ (\A k : c.rep # single(k))
  BY <1>1, <1>3, <1>4, <1>5, SoundIs DEF RepeatsHeld
<1>7. c \in Tapped(t)
  <2>1. c.held = t.held /\ c.active = t.active /\ c.repeating = FALSE
    BY <1>1, <1>3, <1>4, <1>5 DEF Keeps, Bears
  <2>2. c.consumers \subseteq t.consumers
    BY <1>1, <1>2, <1>3, <1>4, <1>5 DEF Keeps
  <2>3. QED
    BY <1>6, <2>1, <2>2 DEF Tapped, Bears
<1>8. Keeps(c, d) /\ d \in Sound /\ d.repeating = c.repeating /\ (\A k : d.rep # single(k))
  <2>1. Keeps(c, d) /\ d \in Sound
    BY <1>2, <1>6, RepeatTapKeeps, KeepsSound
  <2>2. CASE key = VK_NONE
    BY <1>6, <2>1, <2>2 DEF repeatTap
  <2>3. CASE key # VK_NONE
    <3>1. c \in State
      BY <1>6 DEF Sound
    <3>2. d.rep = c.rep \cup [key : {key}, down : BOOLEAN] /\ d.repeating = c.repeating
      BY <2>3, <3>1 DEF repeatTap, State
    <3>3. [key |-> key, down |-> FALSE] \in d.rep
      BY <3>2
    <3>4. \A k : [key |-> key, down |-> FALSE] # [key |-> k, down |-> TRUE]
      OBVIOUS
    <3> HIDE DEF d
    <3>5. QED
      BY <2>1, <3>2, <3>3, <3>4 DEF single
  <2>4. QED
    BY <2>2, <2>3
<1> HIDE DEF d
<1>9. Keeps(d, e) /\ e \in Sound /\ e.rep = d.rep /\ e.repeating = d.repeating
  <2>1. d \in State
    BY <1>8 DEF Sound
  <2>2. Keeps(d, e) /\ e \in Sound
    BY <1>8, FlagsKeep, KeepsSound
  <2>3. e.rep = d.rep /\ e.repeating = d.repeating
    BY <2>1 DEF withoutFlags, withFs, State
  <2>4. QED
    BY <2>2, <2>3
<1>10. tapConsumer(u, to) = e
  BY DEF tapConsumer, a, b, c, d, e, key
<1> HIDE DEF e
<1>11. e \in Tapped(t)
  BY <1>7, <1>8, <1>9 DEF Tapped, Keeps, Bears
<1>12. QED
  BY <1>10, <1>11

Fold(n, u, to, f) ==
  f = [m \in 0 .. n |-> IF m = 0 THEN u ELSE tapConsumer(f[m - 1], to[m])]

Tappable(to) ==
  Len(to) \in Nat /\ \A m \in 1 .. Len(to) : to[m].key \in ConsumerKeys \cup {NONE}

\* What every tap keeps, they all keep.
Kept(X, to) ==
  Len(to) \in Nat /\ \A p \in X, m \in 1 .. Len(to) : tapConsumer(p, to[m]) \in X

LEMMA TapsIn ==
  ASSUME NEW X, NEW u \in X, NEW to, Kept(X, to)
  PROVE  tapConsumers(u, to) \in X
<1> DEFINE n == Len(to)
           step == [m \in 1 .. n |-> [p \in X |-> tapConsumer(p, to[m])]]
<1>1. \A p \in X, m \in 1 .. n : tapConsumer(p, to[m]) \in X
  BY DEF Kept
<1>2. n \in Nat
  BY DEF Kept
<1> HIDE DEF n
<1>3. step \in [1 .. n -> [X -> X]]
  BY <1>1
<1>4. PICK f \in [0 .. n -> X] : f[0] = u /\ \A m \in 1 .. n : f[m] = step[m][f[m - 1]]
  <2> HIDE DEF step
  <2>1. QED
    BY <1>2, <1>3, Folds
<1>5. ASSUME NEW m \in 1 .. n PROVE f[m] = tapConsumer(f[m - 1], to[m])
  <2>1. m - 1 \in 0 .. n
    BY <1>2
  <2>2. step[m][f[m - 1]] = tapConsumer(f[m - 1], to[m])
    BY <2>1
  <2>3. QED
    BY <1>4, <2>2
<1>6. Fold(n, u, to, f)
  <2>1. f = [m \in 0 .. n |-> f[m]]
    OBVIOUS
  <2>2. \A m \in 0 .. n : f[m] = IF m = 0 THEN u ELSE tapConsumer(f[m - 1], to[m])
    BY <1>2, <1>4, <1>5
  <2>3. QED
    BY <2>1, <2>2 DEF Fold
<1>7. ASSUME NEW g, Fold(n, u, to, g) PROVE g[n] = f[n]
  <2> DEFINE S == {m \in 0 .. n : g[m] = f[m]}
  <2>1. g[0] = u /\ \A m \in 1 .. n : g[m] = tapConsumer(g[m - 1], to[m])
    BY <1>2, <1>7 DEF Fold
  <2>2. 0 \in S
    BY <1>2, <1>4, <2>1
  <2>3. ASSUME NEW m \in 1 .. n, m - 1 \in S PROVE m \in S
    BY <1>2, <1>5, <2>1, <2>3
  <2>4. n \in S
    <3> HIDE DEF S
    <3>1. n \in 0 .. n
      BY <1>2
    <3>2. QED
      BY <1>2, <2>2, <2>3, <3>1, UpTo
  <2>5. QED
    BY <2>4
<1>8. tapConsumers(u, to) = (CHOOSE g : Fold(n, u, to, g))[n]
  BY DEF tapConsumers, Fold, n
<1>9. tapConsumers(u, to) = f[n]
  BY <1>6, <1>7, <1>8
<1>10. QED
  BY <1>2, <1>4, <1>9

LEMMA TapsAre ==
  ASSUME NEW t \in Sound, NEW u \in Tapped(t), NEW to, Tappable(to)
  PROVE  tapConsumers(u, to) \in Tapped(t)
<1> DEFINE X == Tapped(t)
<1>1. Kept(X, to)
  BY TapIs DEF Tappable, Kept
<1>2. u \in X
  OBVIOUS
<1> HIDE DEF X
<1>3. tapConsumers(u, to) \in X
  BY <1>1, <1>2, TapsIn
<1>4. QED
  BY <1>3 DEF X

\* A rule that taps several keys, again and again while its own is held.
Taps(i) ==
  /\ rules[i].kind \in {"KeyToConsumer", "ConsumerToConsumer"}
  /\ rules[i].repeat /\ Len(rules[i].to) > 1

Made(t, u, i, down) ==
  /\ u \in Sound /\ u.held = t.held /\ u.active = t.active
  /\ u.repeating /\ u.owner # 0 =>
       \/ t.repeating /\ t.owner = u.owner /\ (~down /\ Taps(i) => u.owner # i)
       \/ down /\ u.owner = i /\ Taps(i)
  /\ Len(rules[i].to) # 1 => u.consumers \subseteq t.consumers
  /\ Len(rules[i].to) = 1 =>
       u.consumers = IF down THEN t.consumers \cup ({rules[i].to[1].key} \ {VK_NONE})
                     ELSE t.consumers \ {rules[i].to[1].key}

LEMMA MadeAfter ==
  ASSUME NEW t, NEW u, NEW v, NEW i, NEW down, Keeps(t, u), Made(u, v, i, down)
  PROVE  Made(t, v, i, down)
  BY DEF Keeps, Bears, Made

LEMMA ToConsumersMake ==
  ASSUME setting \in Settings, NEW t \in Sound, NEW i \in DOMAIN rules, NEW down \in BOOLEAN,
         rules[i].kind \in {"KeyToConsumer", "ConsumerToConsumer"}
  PROVE  Made(t, toConsumers(t, i, down), i, down)
<1> DEFINE r == rules[i]
           n == Len(r.to)
<1> SUFFICES ASSUME NEW u, u = toConsumers(t, i, down)
             PROVE  Made(t, u, i, down)
  OBVIOUS
<1>1. /\ r.repeat \in BOOLEAN /\ n \in Nat
      /\ \A m \in 1 .. n : r.to[m].key \in ConsumerKeys \cup {NONE}
  BY RuleMakes DEF Makes, targetsOf
<1> HIDE DEF n
<1>2. i # 0 /\ i \in DOMAIN rules
  BY RulesAre
<1>3. t \in State /\ t \in Typed
  BY SoundIs, TypedIs
<1>4. CASE n = 0
  <2>1. u = t
    BY <1>4 DEF toConsumers, n
  <2>2. QED
    BY <1>4, <2>1 DEF n, Made, Taps
<1>5. CASE n = 1
  <2> DEFINE to == r.to[1]
             v == withFlags(t, to.flags)
  <2>1. u = toConsumer(v, r, to, down)
    BY <1>5 DEF toConsumers, n
  <2>2. Keeps(t, v) /\ v \in Sound
    BY FlagsKeep, KeepsSound
  <2>3. to.key \in ConsumerKeys \cup {NONE}
    BY <1>1, <1>5
  <2> DEFINE w == toConsumer(v, r, to, down)
  <2> HIDE DEF v, to
  <2>4. ConsumerMade(v, toConsumer(v, r, to, down), to.key, down)
    <3>1. r.repeat \in BOOLEAN
      BY <1>1
    <3> HIDE DEF r
    <3>2. QED
      BY <2>2, <2>3, <3>1, ToConsumerIs
  <2>4a. ConsumerMade(v, w, to.key, down)
    BY <2>4
  <2> HIDE DEF w
  <2>5. Made(v, w, i, down)
    <3>1. Len(rules[i].to) = 1 /\ ~(Len(rules[i].to) > 1)
      BY <1>5 DEF n
    <3>2. QED
      BY <2>4a, <3>1 DEF ConsumerMade, Made, Bears, Taps, to
  <2>6. QED
    BY <2>1, <2>2, <2>5, MadeAfter DEF w
<1>6. CASE n > 1 /\ down
  <2>0. down /\ Len(r.to) # 0 /\ Len(r.to) # 1 /\ Len(r.to) > 1
    BY <1>1, <1>6 DEF n
  <2> DEFINE v == repeatCancel(t)
             w == tapConsumers(v, r.to)
  <2>1. u = startTaps(w, i)
    BY <2>0 DEF toConsumers
  <2>2. v \in Tapped(t)
    <3>1. Keeps(t, v) /\ v \in Sound
      BY <1>3, RepeatCancelKeeps
    <3>2. v.rep = {} /\ v.repeating = FALSE
      BY <1>3 DEF repeatCancel, State
    <3>3. \A k : single(k) # {}
      BY DEF single
    <3> HIDE DEF v
    <3>4. QED
      BY <3>1, <3>2, <3>3 DEF Tapped, Keeps
  <2> HIDE DEF v
  <2>3. w \in Tapped(t)
    <3> DEFINE to == r.to
    <3>1. Tappable(to)
      BY <1>1 DEF Tappable, n
    <3> HIDE DEF to
    <3>2. tapConsumers(v, to) \in Tapped(t)
      BY <2>2, <3>1, TapsAre
    <3>3. QED
      BY <3>2 DEF to
  <2> HIDE DEF w
  <2>4. w \in Sound /\ w \in State /\ w.held = t.held /\ w.active = t.active
        /\ w.consumers \subseteq t.consumers /\ w.repeating = FALSE
    BY <2>3 DEF Tapped, Bears, Sound
  <2>5. CASE r.repeat
    <3>1. u = [w EXCEPT !.repeating = TRUE, !.owner = i]
      BY <2>1, <2>5 DEF startTaps
    <3>2. /\ u \in State /\ u.o = w.o /\ u.rep = w.rep /\ u.consumers = w.consumers
          /\ u.held = w.held /\ u.active = w.active /\ u.owner = i
      BY <1>2, <2>4, <3>1 DEF State
    <3>3. u \in Sound
      BY <2>4, <3>2 DEF Sound
    <3>4. Taps(i)
      BY <2>0, <2>5 DEF Taps
    <3>5. QED
      BY <2>0, <2>4, <3>2, <3>3, <3>4 DEF Made
  <2>6. CASE ~r.repeat
    <3>1. u = w
      BY <2>1, <2>6 DEF startTaps
    <3>2. QED
      BY <2>0, <2>4, <3>1 DEF Made
  <2>7. QED
    BY <2>5, <2>6
<1>7. CASE n > 1 /\ ~down
  <2>1. CASE r.repeat /\ t.owner = i
    <3>1. u = repeatCancel(t)
      BY <1>7, <2>1 DEF toConsumers, n
    <3>2. Keeps(t, u) /\ u.repeating = FALSE
      <4>1. Keeps(t, repeatCancel(t)) /\ repeatCancel(t).repeating = FALSE
        BY <1>3, RepeatCancelKeeps DEF repeatCancel, State
      <4>2. QED
        BY <3>1, <4>1
    <3>3. QED
      BY <1>1, <1>7, <3>2 DEF n, Made, Keeps, Bears
  <2>2. CASE ~(r.repeat /\ t.owner = i)
    <3>1. u = t
      BY <1>7, <2>2 DEF toConsumers, n
    <3>2. QED
      BY <1>1, <1>7, <2>2, <3>1 DEF n, Made, Taps
  <2>3. QED
    BY <2>1, <2>2
<1>8. n = 0 \/ n = 1 \/ n > 1
  BY <1>1
<1>9. QED
  BY <1>4, <1>5, <1>6, <1>7, <1>8, Zenon

LEMMA ConsumersMake ==
  ASSUME setting \in Settings, NEW t \in Sound, NEW i \in DOMAIN rules, NEW down \in BOOLEAN,
         rules[i].kind \in {"KeyToConsumer", "ConsumerToConsumer"}
  PROVE  /\ Made(t, ConsumerToConsumer(t, i, down), i, down)
         /\ Made(t, KeyToConsumer(t, i, down), i, down)
<1>1. ASSUME NEW u \in Sound PROVE Made(u, ConsumerToConsumer(u, i, down), i, down)
  <2> DEFINE v == withoutFlags(u, rules[i].fromFlags)
  <2>1. Keeps(u, v) /\ v \in Sound
    BY FlagsKeep, KeepsSound
  <2>2. ConsumerToConsumer(u, i, down) = toConsumers(v, i, down)
    BY DEF ConsumerToConsumer
  <2> HIDE DEF v
  <2>3. Made(v, toConsumers(v, i, down), i, down)
    BY <2>1, ToConsumersMake
  <2>4. QED
    BY <2>1, <2>2, <2>3, MadeAfter
<1>2. Made(t, KeyToConsumer(t, i, down), i, down)
  <2> DEFINE v == dropFromKey(t, rules[i], down)
  <2>1. Keeps(t, v)
    <3>1. t.o.fs \in Unlocked
      BY SoundIs, TypedIs, OutputIs
    <3>2. QED
      BY <3>1, UnlockedKept, WithFsKeeps DEF dropFromKey
  <2>2. v \in Sound
    BY <2>1, KeepsSound
  <2>3. KeyToConsumer(t, i, down) = ConsumerToConsumer(v, i, down)
    BY DEF KeyToConsumer
  <2> HIDE DEF v
  <2>4. Made(v, ConsumerToConsumer(v, i, down), i, down)
    BY <1>1, <2>2
  <2>5. QED
    BY <2>1, <2>3, <2>4, MadeAfter
<1>3. QED
  BY <1>1, <1>2

-------------------------------------------------------------------------------
(***************************************************************************)
(* The functions that make keys, buttons and scrolling.                    *)
(***************************************************************************)
LEMMA ToKeyKeeps ==
  ASSUME setting \in Settings, NEW t \in Sound, NEW i \in DOMAIN rules, NEW down \in BOOLEAN,
         rules[i].kind \in {"ConsumerToKey", "PointingButtonToKey"}
  PROVE  Keeps(t, toKey(t, rules[i], down))
<1> DEFINE r == rules[i]
           key == r.to[1].key
<1>1. key \in Sendable
  BY RuleMakes DEF Makes, targetsOf, fromType, Sendable, NONE
<1>2. t.o.fs \in Unlocked
  BY SoundIs, TypedIs, OutputIs
<1>3. PICK fs \in Unlocked :
        toKey(t, r, down)
          = sendKey(IF down /\ ~r.repeat THEN repeatCancel(withFs(t, fs))
                    ELSE repeatKey(withFs(t, fs), key, down), key, down)
  <2> DEFINE to == r.to[1]
             fs == IF to.key \notin ModifierFlags
                   THEN temporary_increase(temporary_decrease(t.o.fs, r.fromFlags), to.flags)
                   ELSE IF down THEN decrease(increase(t.o.fs, to.flags \cup {to.key}), r.fromFlags)
                        ELSE increase(decrease(t.o.fs, to.flags \cup {to.key}), r.fromFlags)
  <2>1. fs \in Unlocked
    BY <1>2, UnlockedKept
  <2>2. toKey(t, r, down)
          = sendKey(IF down /\ ~r.repeat THEN repeatCancel(withFs(t, fs))
                    ELSE repeatKey(withFs(t, fs), key, down), key, down)
    BY DEF toKey
  <2> HIDE DEF fs
  <2>3. QED
    BY <2>1, <2>2
<1> DEFINE u == withFs(t, fs)
<1>4. Keeps(t, u) /\ u \in Sound
  BY WithFsKeeps, KeepsSound
<1> HIDE DEF u, key
<1>5. /\ Keeps(u, sendKey(repeatKey(u, key, down), key, down))
      /\ Keeps(u, sendKey(repeatCancel(u), key, down))
  BY <1>1, <1>4, EmitKeeps
<1>6. CASE down /\ ~r.repeat
  <2>1. toKey(t, r, down) = sendKey(repeatCancel(u), key, down)
    BY <1>3, <1>6 DEF u
  <2>2. QED
    BY <1>4, <1>5, <2>1, KeepsTrans
<1>7. CASE ~(down /\ ~r.repeat)
  <2>1. toKey(t, r, down) = sendKey(repeatKey(u, key, down), key, down)
    BY <1>3, <1>7 DEF u
  <2>2. QED
    BY <1>4, <1>5, <2>1, KeepsTrans
<1>8. QED
  BY <1>6, <1>7

\* A button counted one way or the other, and then reported.
LEMMA PressKeeps ==
  ASSUME NEW t \in Sound, NEW b \in Buttons, NEW n \in Int
  PROVE  Keeps(t, firePointer(plus(t, b, n), FALSE))
<1>1. Keeps(t, plus(t, b, n)) /\ plus(t, b, n) \in Sound
  BY PlusKeeps, KeepsSound
<1>2. Keeps(plus(t, b, n), firePointer(plus(t, b, n), FALSE))
  BY <1>1, FirePointerKeeps
<1>3. QED
  BY <1>1, <1>2, KeepsTrans

LEMMA ClickKeeps ==
  ASSUME NEW t \in Sound, NEW to, to.key \in Buttons
  PROVE  Keeps(t, click(t, to)) /\ click(t, to) \in Sound
<1> DEFINE u == withFlags(t, to.flags)
           v == firePointer(plus(u, to.key, 1), FALSE)
           w == firePointer(plus(v, to.key, -1), FALSE)
           x == withoutFlags(w, to.flags)
<1>1. Keeps(t, u) /\ u \in Sound
  BY FlagsKeep, KeepsSound
<1> HIDE DEF u
<1>2. 1 \in Int /\ -1 \in Int
  OBVIOUS
<1>3. Keeps(u, v) /\ v \in Sound
  BY <1>1, <1>2, PressKeeps, KeepsSound
<1> HIDE DEF v
<1>4. Keeps(v, w) /\ w \in Sound
  BY <1>2, <1>3, PressKeeps, KeepsSound
<1> HIDE DEF w
<1>5. Keeps(w, x) /\ x \in Sound
  BY <1>4, FlagsKeep, KeepsSound
<1>6. click(t, to) = x
  BY DEF click, u, v, w
<1> HIDE DEF x
<1>7. QED
  BY <1>1, <1>3, <1>4, <1>5, <1>6, KeepsTrans

Buttoned(to) ==
  Len(to) \in Nat /\ \A m \in 1 .. Len(to) : to[m].key \in Buttons

LEMMA ClicksKeep ==
  ASSUME NEW t \in Sound, NEW to, Buttoned(to), Len(to) = 2
  PROVE  Keeps(t, click(click(t, to[1]), to[2]))
<1>1. to[1].key \in Buttons /\ to[2].key \in Buttons
  BY DEF Buttoned
<1> DEFINE a == to[1]
           b == to[2]
<1> HIDE DEF a, b
<1>2. a.key \in Buttons /\ b.key \in Buttons
  BY <1>1 DEF a, b
<1>3. Keeps(t, click(t, a)) /\ click(t, a) \in Sound
  BY <1>2, ClickKeeps
<1>4. Keeps(click(t, a), click(click(t, a), b))
  BY <1>2, <1>3, ClickKeeps
<1>5. Keeps(t, click(click(t, a), b))
  BY <1>3, <1>4, KeepsTrans
<1>6. QED
  BY <1>5 DEF a, b

LEMMA ToButtonsKeep ==
  ASSUME NEW t \in Sound, NEW to, Buttoned(to), NEW down \in BOOLEAN
  PROVE  Keeps(t, toButtons(t, to, down))
<1> SUFFICES ASSUME NEW x, x = toButtons(t, to, down)
             PROVE  Keeps(t, x)
  OBVIOUS
<1>1. CASE Len(to) = 1
  <2>1. to[1].key \in Buttons
    BY <1>1 DEF Buttoned
  <2>2. t.o.fs \in Unlocked
    BY SoundIs, TypedIs, OutputIs
  <2>3. PICK fs \in Unlocked, n \in Int : x = firePointer(plus(withFs(t, fs), to[1].key, n), FALSE)
    <3> DEFINE fs == IF down THEN increase(t.o.fs, to[1].flags) ELSE decrease(t.o.fs, to[1].flags)
               n == IF down THEN 1 ELSE -1
    <3>1. fs \in Unlocked /\ n \in Int
      BY <2>2, UnlockedKept
    <3>2. x = firePointer(plus(withFs(t, fs), to[1].key, n), FALSE)
      BY <1>1 DEF toButtons
    <3> HIDE DEF fs, n
    <3>3. QED
      BY <3>1, <3>2
  <2>4. Keeps(t, withFs(t, fs)) /\ withFs(t, fs) \in Sound
    BY WithFsKeeps, KeepsSound
  <2>5. Keeps(withFs(t, fs), firePointer(plus(withFs(t, fs), to[1].key, n), FALSE))
    BY <2>1, <2>4, PressKeeps
  <2>6. QED
    BY <2>3, <2>4, <2>5, KeepsTrans
<1>2. CASE Len(to) = 2 /\ down
  <2>1. Len(to) # 1
    BY <1>2
  <2>2. x = click(click(t, to[1]), to[2])
    BY <1>2, <2>1 DEF toButtons
  <2>3. QED
    BY <1>2, <2>2, ClicksKeep
<1>3. CASE Len(to) # 1 /\ ~(Len(to) = 2 /\ down)
  <2>1. x = t
    BY <1>3 DEF toButtons
  <2>2. QED
    BY <2>1, KeepsSelf
<1>4. QED
  BY <1>1, <1>2, <1>3

LEMMA ButtonRule ==
  ASSUME setting \in Settings, NEW i \in DOMAIN rules,
         rules[i].kind \in {"KeyToPointingButton", "PointingButtonToKey",
                            "PointingButtonToPointingButton", "PointingRelativeToScroll"}
  PROVE  /\ rules[i].kind # "PointingButtonToKey" => Buttoned(rules[i].to)
         /\ rules[i].kind # "KeyToPointingButton" /\ rules[i].from # NONE =>
              rules[i].from \in Buttons
  BY RuleMakes DEF Makes, targetsOf, sourcesOf, fromType, Buttoned

LEMMA KeyToButtonKeeps ==
  ASSUME setting \in Settings, NEW t \in Sound, NEW i \in DOMAIN rules, NEW down \in BOOLEAN,
         rules[i].kind = "KeyToPointingButton"
  PROVE  Keeps(t, KeyToPointingButton(t, i, down))
<1> SUFFICES ASSUME NEW x, x = KeyToPointingButton(t, i, down)
             PROVE  Keeps(t, x)
  OBVIOUS
<1> DEFINE r == rules[i]
           own == r.fromFlags \cup modifierOf(r.from)
<1>1. Buttoned(r.to)
  BY ButtonRule
<1>2. CASE down
  <2> DEFINE u == hideFlags(t, own)
  <2>1. Keeps(t, u) /\ u \in Sound
    BY FlagsKeep, KeepsSound
  <2>2. x = toButtons(u, r.to, down)
    BY <1>2 DEF KeyToPointingButton
  <2> HIDE DEF u
  <2>3. Keeps(u, toButtons(u, r.to, down))
    BY <1>1, <2>1, ToButtonsKeep
  <2>4. QED
    BY <2>1, <2>2, <2>3, KeepsTrans
<1>3. CASE ~down
  <2> DEFINE u == toButtons(t, r.to, down)
             v == showFlags(u, own)
  <2>1. x = announce(v)
    BY <1>3 DEF KeyToPointingButton
  <2>2. Keeps(t, u)
    BY <1>1, ToButtonsKeep
  <2>3. u \in Sound
    BY <2>2, KeepsSound
  <2> HIDE DEF u
  <2>4. Keeps(u, v) /\ v \in Sound
    BY <2>3, FlagsKeep, KeepsSound
  <2> HIDE DEF v
  <2>5. Keeps(v, x)
    BY <2>1, <2>4, AnnounceKeeps
  <2>6. QED
    BY <2>2, <2>4, <2>5, KeepsTrans
<1>4. QED
  BY <1>2, <1>3

LEMMA ButtonToKeyKeeps ==
  ASSUME setting \in Settings, NEW t \in Sound, NEW i \in DOMAIN rules, NEW down \in BOOLEAN,
         rules[i].kind = "PointingButtonToKey", rules[i].from # NONE
  PROVE  Keeps(t, PointingButtonToKey(t, i, down))
<1> DEFINE n == IF down THEN -1 ELSE 1
           u == plus(t, rules[i].from, n)
<1>1. Keeps(t, u) /\ u \in Sound
  <2>1. n \in Int /\ rules[i].from \in Buttons
    BY ButtonRule
  <2>2. QED
    BY <2>1, PlusKeeps, KeepsSound
<1>2. PointingButtonToKey(t, i, down) = toKey(u, rules[i], down)
  BY DEF PointingButtonToKey
<1> HIDE DEF u
<1>3. Keeps(u, toKey(u, rules[i], down))
  BY <1>1, ToKeyKeeps
<1>4. QED
  BY <1>1, <1>2, <1>3, KeepsTrans

LEMMA SwapKeeps ==
  ASSUME NEW t \in Sound, NEW r, r.from \in Buttons, Buttoned(r.to), NEW down \in BOOLEAN
  PROVE  Keeps(t, swapButtons(t, r, down))
<1> SUFFICES ASSUME NEW x, x = swapButtons(t, r, down)
             PROVE  Keeps(t, x)
  OBVIOUS
<1> DEFINE n == IF down THEN -1 ELSE 1
           u == plus(t, r.from, n)
<1>1. n \in Int /\ -n \in Int
  OBVIOUS
<1>2. x = IF Len(r.to) = 1 THEN plus(u, r.to[1].key, -n) ELSE u
  BY DEF swapButtons
<1> HIDE DEF n
<1>3. Keeps(t, u) /\ u \in Sound
  BY <1>1, PlusKeeps, KeepsSound
<1> HIDE DEF u
<1>4. CASE Len(r.to) = 1
  <2>1. r.to[1].key \in Buttons
    BY <1>4 DEF Buttoned
  <2>2. Keeps(u, x)
    BY <1>1, <1>2, <1>3, <1>4, <2>1, PlusKeeps
  <2>3. QED
    BY <1>3, <2>2, KeepsTrans
<1>5. CASE Len(r.to) # 1
  BY <1>2, <1>3, <1>5
<1>6. QED
  BY <1>4, <1>5

LEMMA DraggedKeeps ==
  ASSUME NEW t \in Sound, NEW to, Buttoned(to), NEW e, e.down \in BOOLEAN
  PROVE  Keeps(t, dragged(t, to, e))
<1> DEFINE move == e.type = "move"
<1> SUFFICES ASSUME NEW x, x = dragged(t, to, e)
             PROVE  Keeps(t, x)
  OBVIOUS
<1>1. move \in BOOLEAN
  OBVIOUS
<1>2. CASE Len(to) = 1
  <2> DEFINE u == withFlags(t, to[1].flags)
             v == firePointer(u, move)
  <2>1. x = withoutFlags(v, to[1].flags)
    BY <1>2 DEF dragged
  <2>2. Keeps(t, u) /\ u \in Sound
    BY FlagsKeep, KeepsSound
  <2> HIDE DEF u, move
  <2>3. Keeps(u, v) /\ v \in Sound
    BY <1>1, <2>2, FirePointerKeeps, KeepsSound
  <2> HIDE DEF v
  <2>4. Keeps(v, x)
    BY <2>1, <2>3, FlagsKeep
  <2>5. QED
    BY <2>2, <2>3, <2>4, KeepsTrans
<1>3. CASE Len(to) = 2 /\ ~e.down
  <2>1. x = firePointer(t, move)
    BY <1>3 DEF dragged
  <2> HIDE DEF move
  <2>2. QED
    BY <1>1, <2>1, FirePointerKeeps
<1>4. CASE Len(to) = 2 /\ e.down
  <2>1. x = click(click(t, to[1]), to[2])
    BY <1>4 DEF dragged
  <2>2. QED
    BY <1>4, <2>1, ClicksKeep
<1>5. CASE Len(to) \notin {1, 2}
  <2>1. x = t
    BY <1>5 DEF dragged
  <2>2. QED
    BY <2>1, KeepsSelf
<1>6. QED
  BY <1>2, <1>3, <1>4, <1>5

LEMMA ButtonToButtonKeeps ==
  ASSUME setting \in Settings, NEW t \in Sound, NEW i \in DOMAIN rules, NEW e, NEW from,
         e.down \in BOOLEAN, from \in BOOLEAN, from => rules[i].from # NONE,
         rules[i].kind = "PointingButtonToPointingButton"
  PROVE  Keeps(t, PointingButtonToPointingButton(t, i, e, from))
<1> SUFFICES ASSUME NEW x, x = PointingButtonToPointingButton(t, i, e, from)
             PROVE  Keeps(t, x)
  OBVIOUS
<1> DEFINE r == rules[i]
           u == withoutFlags(t, r.fromFlags)
           v == IF from THEN swapButtons(u, r, e.down) ELSE u
<1>1. Buttoned(r.to) /\ (from => r.from \in Buttons)
  BY ButtonRule
<1>2. x = dragged(v, r.to, e)
  BY DEF PointingButtonToPointingButton
<1>3. Keeps(t, u) /\ u \in Sound
  BY FlagsKeep, KeepsSound
<1> HIDE DEF u, r
<1>4. Keeps(u, v) /\ v \in Sound
  <2>1. CASE from
    <3>1. Keeps(u, swapButtons(u, r, e.down))
      BY <1>1, <1>3, <2>1, SwapKeeps
    <3>2. v = swapButtons(u, r, e.down)
      BY <2>1
    <3>3. QED
      BY <3>1, <3>2, KeepsSound
  <2>2. CASE ~from
    <3>1. v = u
      BY <2>2
    <3>2. QED
      BY <1>3, <3>1, KeepsSelf
  <2>3. QED
    BY <2>1, <2>2
<1> HIDE DEF v
<1>5. Keeps(v, dragged(v, r.to, e))
  BY <1>1, <1>4, DraggedKeeps
<1>6. QED
  BY <1>2, <1>3, <1>4, <1>5, KeepsTrans

LEMMA ToScrollKeeps ==
  ASSUME NEW t \in Sound, NEW r, r.fromFlags \in SUBSET ModifierFlags, NEW choice \in Choice
  PROVE  Keeps(t, toscroll(t, r, choice))
<1> DEFINE q == Append(IF choice.fresh THEN << >> ELSE t.scroll, choice.delta)
           f == r.fromFlags
           u == [t EXCEPT !.scroll = q, !.scrollFlags = f, !.scrolling = TRUE]
<1>1. t \in State
  BY DEF Sound
<1>2. q \in Seq({0, 1}) /\ f \in SUBSET ModifierFlags
  <2>1. t.scroll \in Seq({0, 1}) /\ << >> \in Seq({0, 1}) /\ choice.delta \in {0, 1}
    BY <1>1 DEF State, Choice
  <2>2. \A z \in Seq({0, 1}) : Append(z, choice.delta) \in Seq({0, 1})
    BY <2>1
  <2>3. QED
    BY <2>1, <2>2
<1>3. toscroll(t, r, choice) = u
  BY <1>1 DEF toscroll, State
<1> HIDE DEF q, f
<1>4. u \in State
  BY <1>1, <1>2 DEF State
<1>5. QED
  BY <1>1, <1>3, <1>4 DEF Keeps, Bears, Sound, State

LEMMA SourceKeeps ==
  ASSUME NEW t \in Sound, NEW r, r.from \in Buttons
  PROVE  Keeps(t, releaseSource(t, r)) /\ Keeps(t, clickSource(t, r))
<1>1. 1 \in Int /\ -1 \in Int
  OBVIOUS
<1>2. ASSUME NEW m \in Int, NEW n \in Int
      PROVE  /\ Keeps(t, plus(firePointer(plus(t, r.from, m), FALSE), r.from, n))
             /\ Keeps(t, firePointer(plus(firePointer(plus(t, r.from, m), FALSE), r.from, n), FALSE))
  <2> DEFINE u == firePointer(plus(t, r.from, m), FALSE)
  <2>1. Keeps(t, u) /\ u \in Sound
    BY PressKeeps, KeepsSound
  <2> HIDE DEF u
  <2>2. Keeps(u, plus(u, r.from, n)) /\ Keeps(u, firePointer(plus(u, r.from, n), FALSE))
    BY <2>1, PlusKeeps, PressKeeps
  <2>3. Keeps(t, plus(u, r.from, n)) /\ Keeps(t, firePointer(plus(u, r.from, n), FALSE))
    BY <2>1, <2>2, KeepsTrans
  <2>4. QED
    BY <2>3 DEF u
<1>3. releaseSource(t, r) = plus(firePointer(plus(t, r.from, -1), FALSE), r.from, 1)
  BY DEF releaseSource
<1>4. clickSource(t, r) = firePointer(plus(firePointer(plus(t, r.from, 1), FALSE), r.from, -1), FALSE)
  BY DEF clickSource
<1>5. QED
  BY <1>1, <1>2, <1>3, <1>4

LEMMA ScrollKeeps ==
  ASSUME setting \in Settings, NEW t \in Sound, NEW i \in DOMAIN rules, NEW choice \in Choice,
         rules[i].kind = "PointingRelativeToScroll"
  PROVE  Keeps(t, PointingRelativeToScroll(t, i, choice))
<1> DEFINE r == rules[i]
           x == PointingRelativeToScroll(t, i, choice)
<1>1. r.fromFlags \in SUBSET ModifierFlags
  BY RuleMakes
<1>2. r.from # NONE => r.from \in Buttons
  BY ButtonRule
<1>3. \/ r.from # NONE /\ x = toscroll(releaseSource(t, r), r, choice)
      \/ r.from # NONE /\ x = cancelScroll(t)
      \/ r.from # NONE /\ x = clickSource(cancelScroll(t), r)
      \/ x = toscroll(t, r, choice)
  BY DEF PointingRelativeToScroll
<1> HIDE DEF x, r
<1>4. ASSUME NEW u \in Sound PROVE Keeps(u, toscroll(u, r, choice))
  BY <1>1, ToScrollKeeps
<1>5. CASE r.from # NONE /\ x = toscroll(releaseSource(t, r), r, choice)
  <2>1. Keeps(t, releaseSource(t, r))
    BY <1>2, <1>5, SourceKeeps
  <2>2. releaseSource(t, r) \in Sound
    BY <2>1, KeepsSound
  <2>3. Keeps(releaseSource(t, r), x)
    BY <1>4, <1>5, <2>2
  <2>4. QED
    BY <2>1, <2>3, KeepsTrans DEF x
<1>6. CASE r.from # NONE /\ x = cancelScroll(t)
  BY <1>6, CancelScrollKeeps DEF x
<1>7. CASE r.from # NONE /\ x = clickSource(cancelScroll(t), r)
  <2>1. Keeps(t, cancelScroll(t)) /\ cancelScroll(t) \in Sound
    BY CancelScrollKeeps, KeepsSound
  <2>2. Keeps(cancelScroll(t), x)
    BY <1>2, <1>7, <2>1, SourceKeeps
  <2>3. QED
    BY <2>1, <2>2, KeepsTrans DEF x
<1>8. CASE x = toscroll(t, r, choice)
  BY <1>4, <1>8 DEF x
<1>9. QED
  BY <1>3, <1>5, <1>6, <1>7, <1>8

-------------------------------------------------------------------------------
(***************************************************************************)
(* The callbacks of Core: one event from the queue worked off.             *)
(***************************************************************************)
LEMMA EventIs ==
  ASSUME NEW e \in Event
  PROVE  /\ e.type \in {"key", "consumer", "button", "move", "wheel"}
         /\ e.down \in BOOLEAN /\ e.retain \in BOOLEAN
         /\ e.type = "key" => e.what \in PhysKeys
         /\ e.type = "consumer" => e.what \in ConsumerKeys
         /\ e.type = "button" => e.what \in Buttons
         /\ e.type \in {"key", "consumer", "button"} => e.what # NONE
<1>1. CASE e \in [type : {"key"}, what : PhysKeys, down : BOOLEAN, retain : BOOLEAN]
  BY <1>1, DevicesConstants, KeyCodesDisjoint DEF NONE
<1>2. CASE e \in [type : {"consumer"}, what : ConsumerKeys, down : BOOLEAN, retain : BOOLEAN]
  BY <1>2, DevicesConstants DEF NONE
<1>3. CASE e \in [type : {"button"}, what : Buttons, down : BOOLEAN, retain : BOOLEAN]
  BY <1>3, DevicesConstants DEF NONE
<1>4. CASE e \in [type : {"move", "wheel"}, what : {NONE}, down : {FALSE}, retain : BOOLEAN]
  BY <1>4
<1>5. QED
  BY <1>1, <1>2, <1>3, <1>4 DEF Event

Makers == {"KeyToConsumer", "ConsumerToConsumer"}

marked(t, i, e) == IF isFrom(t, i, e) THEN [t EXCEPT !.active[i] = e.down] ELSE t

Converted(t, u, i, down) ==
  \/ rules[i].kind \in Makers /\ Made(t, u, i, down)
  \/ rules[i].kind \notin Makers /\ Keeps(t, u)

LEMMA MarkedIs ==
  ASSUME setting \in Settings, NEW t \in Sound, NEW i \in DOMAIN rules, NEW e \in Event
  PROVE  LET u == marked(t, i, e)
         IN /\ u \in Sound /\ u.held = t.held /\ u.consumers = t.consumers
            /\ u.repeating = t.repeating /\ u.owner = t.owner
            /\ u.active = IF isFrom(t, i, e) THEN [t.active EXCEPT ![i] = e.down] ELSE t.active
<1>1. t \in State /\ t.active \in [DOMAIN rules -> BOOLEAN]
  BY SoundIs, TypedIs
<1> DEFINE active == [t.active EXCEPT ![i] = e.down]
<1>2. active \in [DOMAIN rules -> BOOLEAN]
  BY <1>1, EventIs
<1>3. CASE isFrom(t, i, e)
  <2> DEFINE u == [t EXCEPT !.active = active]
  <2>1. marked(t, i, e) = u
    BY <1>1, <1>3 DEF marked, State
  <2>2. active = IF isFrom(t, i, e) THEN [t.active EXCEPT ![i] = e.down] ELSE t.active
    BY <1>3
  <2> HIDE DEF active
  <2>3. /\ u \in State /\ u.o = t.o /\ u.rep = t.rep /\ u.consumers = t.consumers
        /\ u.held = t.held /\ u.repeating = t.repeating /\ u.owner = t.owner /\ u.active = active
    BY <1>1, <1>2 DEF State
  <2> HIDE DEF u
  <2>4. u \in Sound
    BY <2>3 DEF Sound
  <2>5. QED
    BY <2>1, <2>2, <2>3, <2>4
<1>4. CASE ~isFrom(t, i, e)
  BY <1>4 DEF marked
<1>5. QED
  BY <1>3, <1>4

LEMMA ConvertIs ==
  ASSUME setting \in Settings, NEW t \in Sound, NEW i \in DOMAIN rules, NEW e \in Event,
         NEW choice \in Choice, takes(t, i, e)
  PROVE  Converted(marked(t, i, e), convert(t, i, e, choice), i, e.down)
<1> DEFINE from == isFrom(t, i, e)
           v == marked(t, i, e)
           kind == rules[i].kind
<1> SUFFICES ASSUME NEW x, x = convert(t, i, e, choice)
             PROVE  Converted(v, x, i, e.down)
  OBVIOUS
<1>1. v \in Sound
  BY MarkedIs
<1>2. e.down \in BOOLEAN /\ from \in BOOLEAN
  BY EventIs DEF isFrom
<1>3. x = convertAs(v, i, e, choice, from)
  BY DEF convert, marked
<1>4. kind \in Kinds /\ rules[i] \in Rule
  BY RuleMakes, RulesAre
<1>5. from => rules[i].from # NONE
  BY DEF isFrom
<1>6. kind \notin {"PointingButtonToPointingButton", "PointingRelativeToScroll",
                   "DropPointingRelativeCursorMove"} => from
  BY DEF takes
<1> HIDE DEF from, v
<1>7. CASE kind = "KeyToConsumer"
  <2>1. x = KeyToConsumer(v, i, e.down)
    BY <1>3, <1>7 DEF convertAs
  <2>2. kind \in Makers
    BY <1>7 DEF Makers
  <2>3. Made(v, KeyToConsumer(v, i, e.down), i, e.down)
    BY <1>1, <1>2, <2>2, ConsumersMake DEF Makers
  <2>4. QED
    BY <2>1, <2>2, <2>3, Zenon DEF Converted
<1>8. CASE kind = "ConsumerToConsumer"
  <2>1. x = ConsumerToConsumer(v, i, e.down)
    BY <1>3, <1>8 DEF convertAs
  <2>2. kind \in Makers
    BY <1>8 DEF Makers
  <2>3. Made(v, ConsumerToConsumer(v, i, e.down), i, e.down)
    BY <1>1, <1>2, <2>2, ConsumersMake DEF Makers
  <2>4. QED
    BY <2>1, <2>2, <2>3, Zenon DEF Converted
<1>9. SUFFICES ASSUME kind \notin Makers PROVE Keeps(v, x)
  BY <1>7, <1>8 DEF Converted, Makers
<1>10. CASE kind = "ConsumerToKey"
  <2>1. x = toKey(v, rules[i], e.down)
    BY <1>3, <1>10 DEF convertAs
  <2>2. QED
    BY <1>1, <1>2, <1>10, <2>1, ToKeyKeeps
<1>11. CASE kind = "KeyToPointingButton"
  <2>1. x = KeyToPointingButton(v, i, e.down)
    BY <1>3, <1>11 DEF convertAs
  <2>2. QED
    BY <1>1, <1>2, <1>11, <2>1, KeyToButtonKeeps
<1>12. CASE kind = "PointingButtonToKey"
  <2>1. x = PointingButtonToKey(v, i, e.down)
    BY <1>3, <1>12 DEF convertAs
  <2>2. rules[i].from # NONE
    BY <1>5, <1>6, <1>12
  <2>3. QED
    BY <1>1, <1>2, <1>12, <2>1, <2>2, ButtonToKeyKeeps
<1>13. CASE kind = "PointingButtonToPointingButton"
  <2>1. x = PointingButtonToPointingButton(v, i, e, from)
    BY <1>3, <1>13 DEF convertAs
  <2>2. QED
    BY <1>1, <1>2, <1>5, <1>13, <2>1, ButtonToButtonKeeps
<1>14. CASE kind = "PointingRelativeToScroll"
  <2>1. x = PointingRelativeToScroll(v, i, choice)
    BY <1>3, <1>14 DEF convertAs
  <2>2. QED
    BY <1>1, <1>14, <2>1, ScrollKeeps
<1>15. CASE kind = "DropPointingRelativeCursorMove"
  <2>1. x = v
    BY <1>3, <1>15 DEF convertAs
  <2>2. QED
    BY <1>1, <2>1, KeepsSelf
<1>16. QED
  BY <1>4, <1>9, <1>10, <1>11, <1>12, <1>13, <1>14, <1>15 DEF Kinds, Makers

LEMMA RepeatConsumerIs ==
  ASSUME NEW t \in Sound, NEW key \in ConsumerKeys, NEW down \in BOOLEAN
  PROVE  ConsumerMade(t, FireConsumer(repeatConsumer(t, key, down), key, down), key, down)
<1> DEFINE r == [repeat |-> TRUE]
           to == [key |-> key]
<1>1. toConsumer(t, r, to, down) = FireConsumer(repeatConsumer(t, key, down), key, down)
  BY DEF toConsumer
<1>2. r.repeat \in BOOLEAN /\ to.key \in ConsumerKeys \cup {NONE} /\ to.key = key
  OBVIOUS
<1> HIDE DEF r, to
<1>3. ConsumerMade(t, toConsumer(t, r, to, down), to.key, down)
  BY <1>2, ToConsumerIs
<1>4. QED
  BY <1>1, <1>2, <1>3

Passed(t, u, e) ==
  \/ e.type = "consumer" /\ ConsumerMade(t, u, e.what, e.down)
  \/ e.type # "consumer" /\ Keeps(t, u)

LEMMA PassIs ==
  ASSUME NEW t \in Sound, NEW e \in Event
  PROVE  Passed(t, passThrough(t, e), e)
<1> SUFFICES ASSUME NEW x, x = passThrough(t, e)
             PROVE  Passed(t, x, e)
  OBVIOUS
<1>1. e.type \in {"key", "consumer", "button", "move", "wheel"} /\ e.down \in BOOLEAN
  BY EventIs
<1>2. CASE e.type = "key"
  <2>1. e.what \in Sendable
    BY <1>2, EventIs, DevicesConstants DEF Sendable
  <2>2. x = sendKey(repeatKey(t, e.what, e.down), e.what, e.down)
    BY <1>2 DEF passThrough, pointing
  <2>3. Keeps(t, sendKey(repeatKey(t, e.what, e.down), e.what, e.down))
    BY <1>1, <2>1, EmitKeeps
  <2>4. QED
    BY <1>2, <2>2, <2>3 DEF Passed
<1>3. CASE e.type = "consumer"
  <2>1. e.what \in ConsumerKeys
    BY <1>3, EventIs
  <2>2. x = FireConsumer(repeatConsumer(t, e.what, e.down), e.what, e.down)
    BY <1>3 DEF passThrough, pointing
  <2>3. ConsumerMade(t, FireConsumer(repeatConsumer(t, e.what, e.down), e.what, e.down),
                     e.what, e.down)
    BY <1>1, <2>1, RepeatConsumerIs
  <2>4. QED
    BY <1>3, <2>2, <2>3, Zenon DEF Passed
<1>4. CASE e.type \in {"button", "move"}
  <2> DEFINE move == e.type = "move"
  <2>1. x = firePointer(t, move) /\ move \in BOOLEAN
    BY <1>4 DEF passThrough, pointing
  <2> HIDE DEF move
  <2>2. Keeps(t, x)
    BY <2>1, FirePointerKeeps
  <2>3. QED
    BY <1>4, <2>2 DEF Passed
<1>5. CASE e.type = "wheel"
  <2>1. x = announce(t)
    BY <1>5 DEF passThrough, pointing
  <2>2. QED
    BY <1>5, <2>1, AnnounceKeeps DEF Passed
<1>6. QED
  BY <1>1, <1>2, <1>3, <1>4, <1>5

\* All but the count of held keys is as before.
Same(t, u) ==
  /\ u \in Sound /\ u.active = t.active /\ u.consumers = t.consumers
  /\ u.repeating = t.repeating /\ u.owner = t.owner

LEMMA SameFs ==
  ASSUME NEW t \in Sound, NEW fs \in Unlocked
  PROVE  Same(t, withFs(t, fs)) /\ withFs(t, fs).held = t.held
<1>1. t \in Typed /\ t \in State
  BY SoundIs, TypedIs
<1>2. withFs(t, fs) \in Sound
  BY <1>1, WithFs
<1>3. QED
  BY <1>1, <1>2 DEF withFs, Same, State

LEMMA SameTrans ==
  ASSUME NEW t, NEW u, NEW v, Same(t, u), Same(u, v)
  PROVE  Same(t, v)
  BY DEF Same

LEMMA ReceivedIs ==
  ASSUME NEW t \in Sound, NEW e \in Event
  PROVE  /\ Same(t, received(t, e))
         /\ countsAsHeld(e) => received(t, e).held = t.held + IF e.down THEN 1 ELSE -1
         /\ ~countsAsHeld(e) => received(t, e).held = t.held
<1> DEFINE n == IF e.down THEN 1 ELSE -1
           a == IF e.retain THEN t ELSE withFs(t, clearTemporary(t.o.fs))
           b == IF countsAsHeld(e) THEN [a EXCEPT !.held = a.held + n] ELSE a
           x == received(t, e)
<1>1. e.type \in {"key", "consumer", "button", "move", "wheel"} /\ n \in Int
  BY EventIs
<1>2. Same(t, a) /\ a \in Sound /\ a.held = t.held
  <2>1. t.o.fs \in Unlocked
    BY SoundIs, TypedIs, OutputIs
  <2>2. clearTemporary(t.o.fs) \in Unlocked
    BY <2>1, UnlockedKept
  <2>3. CASE e.retain
    BY <2>3 DEF Same
  <2>4. CASE ~e.retain
    <3>1. a = withFs(t, clearTemporary(t.o.fs))
      BY <2>4
    <3> HIDE DEF a
    <3>2. QED
      BY <2>2, <3>1, SameFs DEF Same
  <2>5. QED
    BY <2>3, <2>4
<1>3. x = CASE e.type = "key" -> withFs(b, setKey(b.o.fs, e.what, IF e.down THEN {e.what} ELSE {}))
            [] e.type = "button" -> plus(b, e.what, n)
            [] OTHER -> b
  BY DEF received
<1> HIDE DEF a, n, x
<1>4. /\ Same(a, b) /\ b \in Sound
      /\ countsAsHeld(e) => b.held = t.held + n
      /\ ~countsAsHeld(e) => b.held = t.held
  <2>1. a \in State /\ a.held \in Int
    BY <1>2, SoundIs, TypedIs
  <2>2. CASE countsAsHeld(e)
    <3>1. PICK h \in Int : h = t.held + n /\ b = [a EXCEPT !.held = h]
      BY <1>1, <1>2, <2>1, <2>2
    <3> HIDE DEF b
    <3>2. b \in State /\ b.held = t.held + n
      BY <2>1, <3>1 DEF State
    <3>3. QED
      BY <1>2, <2>1, <2>2, <3>1, <3>2 DEF Same, Sound, State
  <2>3. CASE ~countsAsHeld(e)
    BY <1>2, <2>3 DEF Same
  <2>4. QED
    BY <2>2, <2>3
<1> HIDE DEF b
<1>5. Same(b, x) /\ x.held = b.held
  <2>1. CASE e.type = "key"
    <3> DEFINE fs == setKey(b.o.fs, e.what, IF e.down THEN {e.what} ELSE {})
    <3>1. b.o.fs \in Unlocked
      BY <1>4, SoundIs, TypedIs, OutputIs
    <3>2. fs \in Unlocked
      BY <3>1, UnlockedKept
    <3>3. x = withFs(b, fs)
      BY <1>3, <2>1
    <3> HIDE DEF fs
    <3>4. QED
      BY <1>4, <3>2, <3>3, SameFs
  <2>2. CASE e.type = "button"
    <3>1. x = plus(b, e.what, n)
      BY <1>3, <2>2
    <3>2. Keeps(b, plus(b, e.what, n))
      BY <1>1, <1>4, <2>2, EventIs, PlusKeeps
    <3>3. b \in State
      BY <1>4 DEF Sound
    <3>4. plus(b, e.what, n).repeating = b.repeating /\ plus(b, e.what, n).owner = b.owner
      BY <3>3 DEF plus, State
    <3>5. QED
      BY <3>1, <3>2, <3>4 DEF Keeps, Bears, Same
  <2>3. CASE e.type \notin {"key", "button"}
    <3>1. x = b
      BY <1>3, <2>3
    <3>2. QED
      BY <1>4, <3>1 DEF Same
  <2>4. QED
    BY <2>1, <2>2, <2>3
<1>6. Same(t, x)
  BY <1>2, <1>4, <1>5, SameTrans
<1>7. QED
  BY <1>4, <1>5, <1>6 DEF x, n

Remapped(t, u, e) ==
  \/ (\A i \in DOMAIN rules : ~takes(t, i, e)) /\ Passed(t, u, e)
  \/ \E i \in DOMAIN rules : takes(t, i, e) /\ Converted(marked(t, i, e), u, i, e.down)

LEMMA RemappedIs ==
  ASSUME setting \in Settings, NEW t \in Sound, NEW e \in Event, NEW choice \in Choice
  PROVE  Remapped(t, remapped(t, e, choice), e)
<1> DEFINE takers == {i \in DOMAIN rules : takes(t, i, e)}
<1> SUFFICES ASSUME NEW x, x = remapped(t, e, choice)
             PROVE  Remapped(t, x, e)
  OBVIOUS
<1>1. x = IF takers = {} THEN passThrough(t, e) ELSE convert(t, Min(takers), e, choice)
  BY DEF remapped
<1>2. CASE takers = {}
  <2>1. \A i \in DOMAIN rules : ~takes(t, i, e)
    BY <1>2
  <2>2. Passed(t, passThrough(t, e), e)
    BY PassIs
  <2>3. x = passThrough(t, e)
    BY <1>1, <1>2
  <2>4. QED
    BY <2>1, <2>2, <2>3 DEF Remapped
<1>3. CASE takers # {}
  <2> DEFINE i == Min(takers)
  <2>1. i \in takers
    <3>1. takers \in SUBSET Nat
      BY RulesAre
    <3> HIDE DEF takers
    <3>2. QED
      BY <1>3, <3>1, MinIs
  <2>2. x = convert(t, i, e, choice)
    BY <1>1, <1>3
  <2> HIDE DEF i
  <2>3. i \in DOMAIN rules /\ takes(t, i, e)
    BY <2>1
  <2>4. Converted(marked(t, i, e), convert(t, i, e, choice), i, e.down)
    BY <2>3, ConvertIs
  <2>5. Converted(marked(t, i, e), x, i, e.down)
    BY <2>2, <2>4, Zenon
  <2>6. QED
    BY <2>3, <2>5, Zenon DEF Remapped
<1>4. QED
  BY <1>2, <1>3

-------------------------------------------------------------------------------
(***************************************************************************)
(* What is left when no key is held any more.                              *)
(***************************************************************************)
\* Counts zero, nothing on but what is locked, all of it told.
Clean(t) ==
  /\ t \in Sound /\ t.held = 0 /\ t.rep = {} /\ t.repeating = FALSE
  /\ \A b \in Buttons : t.count[b] = 0
  /\ \A f \in ModifierFlags \ {CAPSLOCK} : Total(t.o.fs[f]) = 0

LEMMA CleanFlags ==
  ASSUME NEW t, Clean(t)
  PROVE  flags(t) \subseteq {CAPSLOCK} /\ makeButtons(t) = {}
  BY DEF Clean, flags, makeFlags, makeButtons

LEMMA CleanAnnounced ==
  ASSUME NEW t, Clean(t)
  PROVE  LET u == announce(t)
         IN /\ Clean(u) /\ Keeps(t, u) /\ u.o.last \subseteq {CAPSLOCK} /\ u.out = t.out
<1> DEFINE u == announce(t)
           last == flags(t) \ ExtraFlags
           p == [t.o EXCEPT !.last = last]
<1>1. t \in Sound /\ t \in Typed /\ t \in State /\ t.o \in SentStatics
  BY SoundIs, TypedIs, OutputIs DEF Clean
<1>2. u = [t EXCEPT !.o = p]
  BY <1>1, Announce
<1>3. Keeps(t, u) /\ u \in Sound
  BY <1>1, AnnounceKeeps, KeepsSound
<1>4. last \subseteq {CAPSLOCK}
  BY CleanFlags
<1> HIDE DEF last, u
<1>5. p.fs = t.o.fs /\ p.last = last
  BY <1>1 DEF SentStatics
<1> HIDE DEF p
<1>6. /\ u.o = p /\ u.rep = t.rep /\ u.repeating = t.repeating /\ u.count = t.count
      /\ u.held = t.held /\ u.out = t.out
  BY <1>1, <1>2 DEF State
<1>7. Clean(u)
  BY <1>3, <1>5, <1>6 DEF Clean
<1>8. QED
  BY <1>3, <1>4, <1>5, <1>6, <1>7 DEF u

LEMMA CleanReported ==
  ASSUME NEW t, Clean(t)
  PROVE  LET u == firePointer(t, FALSE)
         IN /\ Clean(u) /\ Keeps(t, u) /\ u.o.last \subseteq {CAPSLOCK}
            /\ u.out # << >> /\ Last(u.out) = [buttons |-> {}, move |-> FALSE]
<1> DEFINE a == announce(t)
           e == [buttons |-> {}, move |-> FALSE]
           u == [a EXCEPT !.out = Append(t.out, e)]
<1>1. Clean(a) /\ Keeps(t, a) /\ a.o.last \subseteq {CAPSLOCK} /\ a.out = t.out
  BY CleanAnnounced
<1>2. firePointer(t, FALSE) = u
  BY <1>1, CleanFlags DEF firePointer
<1>3. t \in Sound /\ t.out \in Seq(Pointer) /\ a \in State
  BY <1>1, SoundIs, TypedIs DEF Clean
<1>4. Append(t.out, e) # << >> /\ Last(Append(t.out, e)) = e
  BY <1>3 DEF Last
<1>5. Keeps(t, firePointer(t, FALSE)) /\ firePointer(t, FALSE) \in Sound
  BY <1>3, FirePointerKeeps, KeepsSound
<1> DEFINE out == Append(t.out, e)
<1> HIDE DEF a, out
<1>6. /\ u.o = a.o /\ u.rep = a.rep /\ u.repeating = a.repeating /\ u.count = a.count
      /\ u.held = a.held /\ u.out = out
  BY <1>3 DEF State, out
<1> HIDE DEF u, e
<1>7. Clean(u)
  BY <1>1, <1>2, <1>5, <1>6 DEF Clean
<1>8. QED
  BY <1>1, <1>2, <1>4, <1>5, <1>6, <1>7 DEF out, e

LEMMA CleanReleased ==
  ASSUME NEW t, Clean(t)
  PROVE  LET u == releaseKeys(t)
         IN /\ Clean(u) /\ Keeps(t, u) /\ u.o.last = t.o.last /\ u.out = t.out
            /\ u.o.pressed = nonePressed /\ u.o.fs = t.o.fs
<1> DEFINE o == PressDownKeysClear(t.o)
           p == [o EXCEPT !.q = << >>]
           u == [t EXCEPT !.o = p]
<1>1. t \in Sound /\ t \in Typed /\ t \in State /\ t.o \in SentStatics /\ t.o.fs \in Unlocked
  BY SoundIs, TypedIs, OutputIs DEF Clean
<1>2. o \in SentStatics
  BY <1>1, PressDownKeysClearType
<1>3. o.fs = t.o.fs /\ o.last = t.o.last /\ o.pressed = nonePressed
  BY <1>1 DEF PressDownKeysClear, SentStatics
<1>4. releaseKeys(t) = u
  BY DEF releaseKeys, sent
<1> HIDE DEF o
<1>5. p \in Output /\ p.fs = t.o.fs /\ p.last = t.o.last /\ p.pressed = nonePressed
  BY <1>1, <1>2, <1>3, OutputMade DEF SentStatics
<1> HIDE DEF p
<1>6. u \in Typed
  BY <1>1, <1>5, NewOutput
<1>7. /\ u.o = p /\ u.rep = t.rep /\ u.repeating = t.repeating /\ u.count = t.count
      /\ u.held = t.held /\ u.out = t.out /\ u.active = t.active /\ u.consumers = t.consumers
  BY <1>1 DEF State
<1> HIDE DEF u
<1>8. u \in Sound
  <2>1. \A k : single(k) # {}
    BY DEF single
  <2>2. u.rep = {}
    BY <1>7 DEF Clean
  <2>3. QED
    BY <1>6, <2>1, <2>2, SoundIs DEF RepeatsHeld
<1>9. Clean(u) /\ Keeps(t, u)
  BY <1>5, <1>7, <1>8 DEF Clean, Keeps, Bears
<1>10. QED
  BY <1>4, <1>5, <1>7, <1>9

LEMMA HeldIs ==
  ASSUME NEW t \in State, NEW n \in Int
  PROVE  LET u == [t EXCEPT !.held = n]
         IN /\ u \in State /\ u.held = n /\ u.o = t.o /\ u.rep = t.rep /\ u.count = t.count
            /\ u.active = t.active /\ u.consumers = t.consumers /\ u.out = t.out
            /\ u.repeating = t.repeating /\ u.owner = t.owner
<1>1. [t EXCEPT !.held = n] \in State
  BY DEF State
<1>2. QED
  BY <1>1 DEF State

Flushed(t, u) ==
  /\ recovered(u) /\ u \in Sound /\ u.active = t.active /\ u.consumers = t.consumers
  /\ \A f \in ModifierFlags \ {CAPSLOCK} : u.o.fs[f].count = 0

LEMMA FlushIs ==
  ASSUME NEW t \in Sound
  PROVE  Flushed(t, flush(t))
<1> DEFINE a == repeatCancel(t)
           count == [b \in Buttons |-> 0]
           u == [a EXCEPT !.held = 0, !.count = count]
           fs == resetItems(t.o.fs)
           v == withFs(u, fs)
           w == announce(v)
           x == firePointer(w, FALSE)
           y == releaseKeys(x)
<1>1. t \in Typed /\ t \in State /\ t.o.fs \in Unlocked /\ t.o.fs \in FlagStatusItems
  BY SoundIs, TypedIs, OutputIs
<1>2. /\ a \in Sound /\ a \in State /\ a.rep = {} /\ a.repeating = FALSE
      /\ a.active = t.active /\ a.consumers = t.consumers /\ a.o = t.o
  <2>1. a \in Sound
    BY RepeatCancelKeeps, <1>1
  <2>2. a \in State
    BY <2>1 DEF Sound
  <2>3. QED
    BY <1>1, <2>1, <2>2 DEF repeatCancel, State
<1> HIDE DEF a
<1>3. count \in [Buttons -> Int] /\ \A b \in Buttons : count[b] = 0
  OBVIOUS
<1> HIDE DEF count
<1>4. /\ u \in State /\ u.rep = {} /\ u.repeating = FALSE /\ u.active = t.active
      /\ u.consumers = t.consumers /\ u.o = t.o /\ u.held = 0 /\ u.count = count
  <2> DEFINE b == [a EXCEPT !.held = 0]
  <2>1. /\ b \in State /\ b.rep = {} /\ b.repeating = FALSE /\ b.active = t.active
        /\ b.consumers = t.consumers /\ b.o = t.o /\ b.held = 0
    BY <1>2, HeldIs
  <2>2. u = [b EXCEPT !.count = count]
    BY <1>2 DEF State
  <2> HIDE DEF b, u
  <2>3. u \in State
    BY <1>3, <2>1, <2>2 DEF State
  <2>4. /\ u.rep = b.rep /\ u.repeating = b.repeating /\ u.active = b.active
        /\ u.consumers = b.consumers /\ u.o = b.o /\ u.held = b.held /\ u.count = count
    BY <2>1, <2>2 DEF State
  <2>5. QED
    BY <2>1, <2>3, <2>4
<1>5. u \in Sound /\ u \in Typed
  <2>1. a.o \in Output
    BY <1>2, SoundIs, TypedIs
  <2>2. \A k : single(k) # {}
    BY DEF single
  <2> HIDE DEF u
  <2>3. u \in Typed
    BY <1>2, <1>4, <2>1 DEF Typed
  <2>4. QED
    BY <1>4, <2>2, <2>3, SoundIs DEF RepeatsHeld
<1> HIDE DEF u
<1>6. /\ fs \in Unlocked /\ \A f \in ModifierFlags \ {CAPSLOCK} : Total(fs[f]) = 0
      /\ \A f \in ModifierFlags : fs[f].count = 0
  <2>1. fs \in Unlocked
    BY <1>1, UnlockedKept
  <2>2. ASSUME NEW f \in ModifierFlags, f # CAPSLOCK PROVE Total(fs[f]) = 0
    <3>1. fs[f].lock = 0 /\ fs[f].sticky = 0
      BY <2>1, <2>2 DEF Unlocked
    <3>2. fs[f].count = 0 /\ fs[f].temporary = 0
      BY <1>1 DEF resetItems, FlagStatusItems, Item
    <3> HIDE DEF fs
    <3>3. QED
      BY <3>1, <3>2 DEF Total
  <2>3. \A f \in ModifierFlags : fs[f].count = 0
    BY DEF resetItems
  <2>4. QED
    BY <2>1, <2>2, <2>3
<1> HIDE DEF fs
<1>7. v \in Sound /\ v = [u EXCEPT !.o = [u.o EXCEPT !.fs = fs]]
  BY <1>5, <1>6, WithFs
<1>8. /\ v.rep = {} /\ v.repeating = FALSE /\ v.active = t.active
      /\ v.consumers = t.consumers /\ v.held = 0 /\ v.count = count /\ v.o.fs = fs
  <2>1. u.o \in SentStatics
    BY <1>5, SoundIs, TypedIs, OutputIs
  <2> DEFINE p == [u.o EXCEPT !.fs = fs]
  <2>2. p.fs = fs
    BY <2>1 DEF SentStatics
  <2> HIDE DEF p, v
  <2>3. v = [u EXCEPT !.o = p]
    BY <1>7 DEF p
  <2>4. QED
    BY <1>4, <2>2, <2>3 DEF State
<1> HIDE DEF v
<1>9. Clean(v)
  BY <1>3, <1>6, <1>7, <1>8 DEF Clean
<1>10. Clean(w) /\ Keeps(v, w) /\ w \in Sound /\ w.o.fs = fs
  BY <1>7, <1>8, <1>9, AnnounceKeeps, CleanAnnounced, KeepsSound
<1> HIDE DEF w
<1>11. /\ Clean(x) /\ Keeps(w, x) /\ x.o.last \subseteq {CAPSLOCK}
       /\ x.out # << >> /\ Last(x.out) = [buttons |-> {}, move |-> FALSE] /\ x.o.fs = fs
  BY <1>10, CleanReported, FirePointerKeeps
<1> HIDE DEF x
<1>12. /\ Clean(y) /\ Keeps(x, y) /\ y.o.last = x.o.last /\ y.out = x.out
       /\ y.o.pressed = nonePressed /\ y.o.fs = fs
  BY <1>11, CleanReleased
<1>13. flush(t) = y
  BY <1>2 DEF flush, a, count, u, fs, v, w, x
<1> HIDE DEF y
<1>14. y.active = t.active /\ y.consumers = t.consumers
  BY <1>8, <1>10, <1>11, <1>12 DEF Keeps, Bears
<1>15. recovered(y) /\ y \in Sound
  BY <1>11, <1>12 DEF recovered, Clean
<1>16. QED
  BY <1>6, <1>12, <1>13, <1>14, <1>15 DEF Flushed

Less(t, u) ==
  /\ u \in Sound /\ u.active = t.active /\ u.consumers = t.consumers
  /\ u.repeating /\ u.owner # 0 => t.repeating /\ t.owner = u.owner

\* What working off an event comes to.
Worked(t, u, e) ==
  \E v, w : Same(t, v) /\ Remapped(v, w, e) /\ Less(w, u)

LEMMA RemappedSound ==
  ASSUME setting \in Settings, NEW t \in Sound, NEW e \in Event, NEW u, Remapped(t, u, e)
  PROVE  u \in Sound /\ u.held = t.held
<1>1. CASE Passed(t, u, e)
  BY <1>1 DEF Passed, ConsumerMade, Keeps, Bears
<1>2. CASE \E i \in DOMAIN rules : takes(t, i, e) /\ Converted(marked(t, i, e), u, i, e.down)
  <2>1. PICK i \in DOMAIN rules : Converted(marked(t, i, e), u, i, e.down)
    BY <1>2
  <2>2. marked(t, i, e).held = t.held
    BY MarkedIs
  <2>3. QED
    BY <2>1, <2>2 DEF Converted, Made, Keeps, Bears
<1>3. QED
  BY <1>1, <1>2 DEF Remapped

LEMMA SettledIs ==
  ASSUME NEW t \in Sound, NEW e
  PROVE  /\ Less(t, settled(t, e))
         /\ e.type = "key" /\ t.held <= 0 => recovered(settled(t, e))
         /\ ~(e.type = "key" /\ t.held <= 0) => settled(t, e) = t
<1>1. CASE e.type = "key" /\ t.held <= 0
  <2>1. settled(t, e) = flush(t)
    BY <1>1 DEF settled
  <2>2. Flushed(t, flush(t))
    BY FlushIs
  <2>3. QED
    BY <1>1, <2>1, <2>2 DEF Flushed, Less, recovered
<1>2. CASE ~(e.type = "key" /\ t.held <= 0)
  BY <1>2 DEF settled, Less
<1>3. QED
  BY <1>1, <1>2

LEMMA FinishedIs ==
  ASSUME NEW t \in Sound, NEW e
  PROVE  /\ Less(t, finished(t, e)) /\ finished(t, e).held = t.held
         /\ recovered(t) => recovered(finished(t, e))
<1>1. CASE pointing(e)
  BY <1>1 DEF finished, Less
<1>2. CASE ~pointing(e)
  <2> DEFINE u == cancelScroll(t)
  <2>1. finished(t, e) = u
    BY <1>2 DEF finished
  <2>2. t \in State
    BY DEF Sound
  <2>3. Keeps(t, u)
    BY CancelScrollKeeps
  <2>4. /\ u.held = t.held /\ u.rep = t.rep /\ u.repeating = t.repeating
        /\ u.o = t.o /\ u.count = t.count /\ u.out = t.out
    BY <2>2 DEF cancelScroll, State
  <2> HIDE DEF u
  <2>5. QED
    BY <2>1, <2>3, <2>4 DEF recovered, Keeps, Bears, Less
<1>3. QED
  BY <1>1, <1>2

LEMMA WorkedIs ==
  ASSUME setting \in Settings, NEW t \in Sound, NEW e \in Event, NEW choice \in Choice
  PROVE  Worked(t, worked(t, e, choice), e) /\ worked(t, e, choice) \in Sound
<1> DEFINE v == received(t, e)
           w == remapped(v, e, choice)
           x == settled(w, e)
           u == finished(x, e)
<1>1. Same(t, v) /\ v \in Sound
  BY ReceivedIs DEF Same
<1> HIDE DEF v
<1>2. Remapped(v, w, e) /\ w \in Sound
  BY <1>1, RemappedIs, RemappedSound
<1> HIDE DEF w
<1>3. Less(w, x) /\ x \in Sound
  BY <1>2, SettledIs DEF Less
<1> HIDE DEF x
<1>4. Less(x, u) /\ u \in Sound
  BY <1>3, FinishedIs DEF Less
<1> HIDE DEF u
<1>5. Less(w, u)
  BY <1>3, <1>4 DEF Less
<1>6. worked(t, e, choice) = u
  BY DEF worked, v, w, x, u
<1>7. QED
  BY <1>1, <1>2, <1>4, <1>5, <1>6 DEF Worked

\* A key that counts as held brings the count up or down, or all is released.
LEMMA WorkedHeld ==
  ASSUME setting \in Settings, NEW t \in Sound, NEW e \in Event, NEW choice \in Choice,
         e.type = "key", e.what # CAPSLOCK
  PROVE  LET u == worked(t, e, choice)
             n == t.held + IF e.down THEN 1 ELSE -1
         IN (n <= 0 => recovered(u)) /\ (n > 0 => u.held = n)
<1> DEFINE v == received(t, e)
           w == remapped(v, e, choice)
           x == settled(w, e)
           u == finished(x, e)
           n == t.held + IF e.down THEN 1 ELSE -1
<1>1. v \in Sound /\ v.held = n
  BY ReceivedIs DEF Same, countsAsHeld
<1>2. n \in Int
  BY SoundIs, TypedIs
<1> HIDE DEF v, n
<1>3. w \in Sound /\ w.held = n
  BY <1>1, RemappedIs, RemappedSound
<1> HIDE DEF w
<1>4. x \in Sound /\ (n <= 0 => recovered(x)) /\ (n > 0 => x = w)
  <2>1. Less(w, x)
    BY <1>3, SettledIs
  <2>2. n <= 0 => recovered(x)
    BY <1>3, SettledIs
  <2>3. ~(n <= 0) => x = w
    BY <1>3, SettledIs
  <2> HIDE DEF x
  <2>4. QED
    BY <1>2, <2>1, <2>2, <2>3 DEF Less
<1> HIDE DEF x
<1>5. (n <= 0 => recovered(u)) /\ (n > 0 => u.held = n)
  BY <1>3, <1>4, FinishedIs
<1>6. worked(t, e, choice) = u
  BY DEF worked, v, w, x, u
<1> HIDE DEF u
<1>7. QED
  BY <1>5, <1>6 DEF n

LEMMA SoundRecovers ==
  ASSUME setting \in Settings, s \in Sound
  PROVE  TypingRecovers
<1> SUFFICES ASSUME s.held <= 0, NEW k \in PhysKeys, k # CAPSLOCK
             PROVE  recovered(typed(k))
  BY DEF TypingRecovers
<1> DEFINE any == [fresh |-> TRUE, delta |-> 0]
           d == event("key", k, TRUE, FALSE)
           e == event("key", k, FALSE, FALSE)
           u == worked(s, d, any)
           v == worked(u, e, any)
<1>1. d \in Event /\ d.type = "key" /\ d.what = k /\ d.down = TRUE
  BY DEF event, Event
<1>2. e \in Event /\ e.type = "key" /\ e.what = k /\ e.down = FALSE
  BY DEF event, Event
<1>3. any \in Choice
  BY DEF Choice
<1>4. typed(k) = v
  BY DEF typed
<1> HIDE DEF any, d, e
<1>5. s.held \in Int /\ u \in Sound /\ u.held \in Int
  BY <1>1, <1>3, WorkedIs, SoundIs, TypedIs
<1>6. (s.held + 1 <= 0 => recovered(u)) /\ (s.held + 1 > 0 => u.held = s.held + 1)
  BY <1>1, <1>3, WorkedHeld
<1>7. u.held <= 1
  BY <1>5, <1>6 DEF recovered
<1> HIDE DEF u
<1>8. u.held + -1 <= 0 => recovered(v)
  BY <1>2, <1>3, <1>5, WorkedHeld
<1>9. QED
  BY <1>4, <1>5, <1>7, <1>8

-------------------------------------------------------------------------------
(***************************************************************************)
(* Who holds what.  H is the set of keys and consumer keys held when the   *)
(* events worked off so far were made.                                     *)
(***************************************************************************)
Digital == {"key", "consumer"}

Source(i) == <<fromType(rules[i].kind), rules[i].from>>

MakersOf(t, c) ==
  {i \in DOMAIN rules : /\ t.active[i] /\ rules[i].kind \in Makers
                        /\ Len(rules[i].to) = 1 /\ rules[i].to[1].key = c}

\* A rule converts only while what it looks for is held, and no other one converts
\* that.
Awake(t, H) ==
  \A i \in DOMAIN rules : t.active[i] /\ fromType(rules[i].kind) \in Digital =>
    /\ Source(i) \in H
    /\ \A j \in DOMAIN rules : t.active[j] /\ Source(j) = Source(i) => j = i

\* A consumer key the system holds was made by a rule that converts, or is held with
\* no rule converting it.
Reasons(t, H) ==
  \A c \in t.consumers :
    \/ MakersOf(t, c) # {}
    \/ /\ <<"consumer", c>> \in H
       /\ \A i \in DOMAIN rules : t.active[i] => Source(i) # <<"consumer", c>>

\* What repeats for a rule is one of several consumer keys, and its rule converts.
Owns(t) ==
  t.repeating /\ t.owner # 0 => t.owner \in DOMAIN rules /\ t.active[t.owner] /\ Taps(t.owner)

Follows(t, H) == Awake(t, H) /\ Reasons(t, H) /\ Owns(t)

What(e) == <<e.type, e.what>>

Moves(T, H, e) == IF e.type \in T THEN toggled(H, What(e)) ELSE H

Fits(T, H, e) == e.type \in T => (e.down <=> What(e) \notin H)

LEMMA FollowsSame ==
  ASSUME NEW t \in Sound, NEW H, NEW u, Follows(t, H), Same(t, u) \/ Less(t, u)
  PROVE  Follows(u, H)
<1>1. /\ u.active = t.active /\ u.consumers = t.consumers
      /\ u.repeating /\ u.owner # 0 => t.repeating /\ t.owner = u.owner
  BY DEF Same, Less
<1>2. MakersOf(u, 0) = MakersOf(t, 0) /\ \A c : MakersOf(u, c) = MakersOf(t, c)
  BY <1>1 DEF MakersOf
<1>3. Awake(u, H)
  BY <1>1 DEF Follows, Awake
<1>4. Reasons(u, H)
  BY <1>1, <1>2 DEF Follows, Reasons
<1>5. Owns(u)
  BY <1>1 DEF Follows, Owns
<1>6. QED
  BY <1>3, <1>4, <1>5 DEF Follows

\* A key or consumer key is taken by a rule from it alone, which converts it from
\* its press to its release.
LEMMA TakenIs ==
  ASSUME setting \in Settings, NEW t \in Sound, NEW e \in Event, NEW i \in DOMAIN rules
  PROVE  /\ e.type \in Digital /\ takes(t, i, e) =>
              isFrom(t, i, e) /\ Source(i) = What(e) /\ (e.down \/ t.active[i])
         /\ e.type \in Digital /\ ~takes(t, i, e) /\ ~e.down /\ t.active[i] =>
              Source(i) # What(e)
         /\ e.type \notin Digital /\ takes(t, i, e) =>
              rules[i].kind \notin Makers /\ (isFrom(t, i, e) => fromType(rules[i].kind) \notin Digital)
<1>1. rules[i].kind \in Kinds
  BY RuleMakes
<1>2. e.type \in Digital => e.what # NONE
  BY EventIs DEF Digital
<1>3. ASSUME e.type \in Digital, takes(t, i, e)
      PROVE  isFrom(t, i, e) /\ Source(i) = What(e) /\ (e.down \/ t.active[i])
  <2>1. isFrom(t, i, e)
    BY <1>3 DEF takes, pointing, Digital
  <2>2. QED
    BY <2>1 DEF isFrom, Source, What
<1>4. ASSUME e.type \in Digital, ~takes(t, i, e), ~e.down, t.active[i], Source(i) = What(e)
      PROVE  FALSE
  <2>1. fromType(rules[i].kind) = e.type /\ rules[i].from = e.what
    BY <1>4 DEF Source, What
  <2>2. isFrom(t, i, e)
    BY <1>2, <1>4, <2>1 DEF isFrom
  <2>3. QED
    BY <1>4, <2>2 DEF takes
<1>5. ASSUME e.type \notin Digital, takes(t, i, e)
      PROVE  rules[i].kind \notin Makers
  BY <1>5 DEF takes, isFrom, fromType, Makers, Digital
<1>6. ASSUME e.type \notin Digital, isFrom(t, i, e)
      PROVE  fromType(rules[i].kind) \notin Digital
  BY <1>6 DEF isFrom
<1>7. QED
  BY <1>3, <1>4, <1>5, <1>6

LEMMA MovesIs ==
  ASSUME NEW T, NEW H, NEW e \in Event, Fits(T, H, e)
  PROVE  /\ e.type \in T /\ e.down => What(e) \notin H /\ Moves(T, H, e) = H \cup {What(e)}
         /\ e.type \in T /\ ~e.down => What(e) \in H /\ Moves(T, H, e) = H \ {What(e)}
         /\ e.type \notin T => Moves(T, H, e) = H
<1> DEFINE x == What(e)
<1>1. e.down \in BOOLEAN
  BY EventIs
<1>2. Fits(T, H, e) /\ e.type \in T => (e.down <=> x \notin H)
  BY DEF Fits
<1>3. Moves(T, H, e) = IF e.type \in T THEN IF x \in H THEN H \ {x} ELSE H \cup {x} ELSE H
  BY DEF Moves, toggled
<1> HIDE DEF x
<1>4. QED
  BY <1>1, <1>2, <1>3 DEF x

LEMMA FollowsPassed ==
  ASSUME setting \in Settings, NEW t \in Sound, NEW H, Follows(t, H), NEW e \in Event, Fits(Digital, H, e),
         \A i \in DOMAIN rules : ~takes(t, i, e), NEW u, Passed(t, u, e)
  PROVE  Follows(u, Moves(Digital, H, e))
<1> DEFINE G == Moves(Digital, H, e)
           x == What(e)
<1>1. /\ u.active = t.active
      /\ u.repeating /\ u.owner # 0 => t.repeating /\ t.owner = u.owner
  BY DEF Passed, ConsumerMade, Keeps, Bears
<1>2. /\ e.type \in Digital /\ e.down => x \notin H /\ G = H \cup {x}
      /\ e.type \in Digital /\ ~e.down => x \in H /\ G = H \ {x}
      /\ e.type \notin Digital => G = H
  BY MovesIs
<1>3. e.type \in {"key", "consumer", "button", "move", "wheel"} /\ e.down \in BOOLEAN
      /\ (e.type = "consumer" => e.what # NONE)
  BY EventIs
<1>4. ASSUME NEW i \in DOMAIN rules, t.active[i], e.type \in Digital, ~e.down
      PROVE  Source(i) # x
  BY <1>4, TakenIs
<1> HIDE DEF G
<1>5. Awake(u, G)
  <2>1. SUFFICES ASSUME NEW i \in DOMAIN rules, t.active[i], fromType(rules[i].kind) \in Digital
                 PROVE  /\ Source(i) \in G
                        /\ \A j \in DOMAIN rules : t.active[j] /\ Source(j) = Source(i) => j = i
    BY <1>1 DEF Awake
  <2>2. /\ Source(i) \in H
        /\ \A j \in DOMAIN rules : t.active[j] /\ Source(j) = Source(i) => j = i
    BY <2>1 DEF Follows, Awake
  <2> HIDE DEF x
  <2>3. Source(i) \in G
    BY <1>2, <1>3, <1>4, <2>1, <2>2
  <2>4. QED
    BY <2>2, <2>3
<1>6. ASSUME NEW c \in u.consumers
      PROVE  \/ MakersOf(u, c) # {}
             \/ /\ <<"consumer", c>> \in G
                /\ \A i \in DOMAIN rules : t.active[i] => Source(i) # <<"consumer", c>>
  <2>1. MakersOf(u, c) = MakersOf(t, c)
    BY <1>1 DEF MakersOf
  <2>2. \/ c \in t.consumers /\ ~(e.type = "consumer" /\ ~e.down /\ c = e.what)
        \/ e.type = "consumer" /\ e.down /\ c = e.what
    BY <1>3, <1>6 DEF Passed, ConsumerMade, Keeps
  <2>3. CASE c \in t.consumers /\ ~(e.type = "consumer" /\ ~e.down /\ c = e.what)
    <3>1. \/ MakersOf(t, c) # {}
          \/ /\ <<"consumer", c>> \in H
             /\ \A i \in DOMAIN rules : t.active[i] => Source(i) # <<"consumer", c>>
      BY <2>3 DEF Follows, Reasons
    <3>2. x = <<"consumer", c>> => e.type = "consumer" /\ c = e.what
      BY DEF What
    <3> HIDE DEF x
    <3>3. <<"consumer", c>> \in H => <<"consumer", c>> \in G
      BY <1>2, <1>3, <2>3, <3>2
    <3>4. QED
      BY <2>1, <3>1, <3>3
  <2>4. CASE e.type = "consumer" /\ e.down /\ c = e.what
    <3>1. x = <<"consumer", c>> /\ e.type \in Digital
      BY <2>4 DEF What, Digital
    <3> HIDE DEF x
    <3>2. x \in G /\ x \notin H
      BY <1>2, <2>4, <3>1
    <3>3. ASSUME NEW i \in DOMAIN rules, t.active[i], Source(i) = x PROVE FALSE
      <4>1. fromType(rules[i].kind) \in Digital
        BY <3>1, <3>3 DEF Source, Digital
      <4>2. Source(i) \in H
        BY <3>3, <4>1 DEF Follows, Awake
      <4>3. QED
        BY <3>2, <3>3, <4>2
    <3>4. QED
      BY <3>1, <3>2, <3>3
  <2>5. QED
    BY <2>2, <2>3, <2>4
<1>7. Reasons(u, G)
  BY <1>1, <1>6 DEF Reasons
<1>8. Owns(u)
  BY <1>1 DEF Follows, Owns
<1>9. QED
  BY <1>5, <1>7, <1>8 DEF Follows, G

LEMMA FollowsConverted ==
  ASSUME setting \in Settings, NEW t \in Sound, NEW H, Follows(t, H), NEW e \in Event, Fits(Digital, H, e),
         NEW i \in DOMAIN rules, takes(t, i, e), NEW u, Converted(marked(t, i, e), u, i, e.down)
  PROVE  Follows(u, Moves(Digital, H, e))
<1> DEFINE G == Moves(Digital, H, e)
           x == What(e)
           from == isFrom(t, i, e)
           digital == e.type \in Digital
           v == marked(t, i, e)
<1>1. /\ v \in Sound /\ v.consumers = t.consumers /\ v.repeating = t.repeating /\ v.owner = t.owner
      /\ v.active = IF from THEN [t.active EXCEPT ![i] = e.down] ELSE t.active
  BY MarkedIs
<1>2. /\ e.type \in Digital /\ e.down => x \notin H /\ G = H \cup {x}
      /\ e.type \in Digital /\ ~e.down => x \in H /\ G = H \ {x}
      /\ e.type \notin Digital => G = H
  BY MovesIs
<1>3. e.down \in BOOLEAN /\ t.active \in [DOMAIN rules -> BOOLEAN]
  BY EventIs, SoundIs, TypedIs
<1>4. /\ e.type \in Digital => from /\ Source(i) = x /\ (e.down \/ t.active[i])
      /\ e.type \notin Digital =>
           rules[i].kind \notin Makers /\ (from => fromType(rules[i].kind) \notin Digital)
  BY TakenIs
<1>5. u.active = v.active
  BY DEF Converted, Made, Keeps, Bears
<1>6. /\ e.type \in Digital => u.active = [t.active EXCEPT ![i] = e.down]
      /\ \A j \in DOMAIN rules : j # i => u.active[j] = t.active[j]
  BY <1>1, <1>3, <1>4, <1>5
<1>7. /\ u.repeating /\ u.owner # 0 =>
           \/ t.repeating /\ t.owner = u.owner /\ (~e.down /\ Taps(i) => u.owner # i)
           \/ e.down /\ u.owner = i /\ Taps(i)
      /\ rules[i].kind \notin Makers => u.consumers = t.consumers
      /\ rules[i].kind \in Makers /\ Len(rules[i].to) # 1 => u.consumers \subseteq t.consumers
      /\ rules[i].kind \in Makers /\ Len(rules[i].to) = 1 =>
           u.consumers = IF e.down THEN t.consumers \cup ({rules[i].to[1].key} \ {VK_NONE})
                         ELSE t.consumers \ {rules[i].to[1].key}
  <2>1. CASE rules[i].kind \in Makers
    BY <1>1, <2>1 DEF Converted, Made
  <2>2. CASE rules[i].kind \notin Makers
    <3>1. ~Taps(i)
      BY <2>2 DEF Taps, Makers
    <3>2. Keeps(v, u)
      BY <2>2 DEF Converted
    <3> HIDE DEF v
    <3>3. QED
      BY <1>1, <2>2, <3>1, <3>2 DEF Keeps, Bears
  <2>3. QED
    BY <2>1, <2>2
<1> HIDE DEF G, from, v, digital
<1>8. ASSUME NEW j \in DOMAIN rules, u.active[j], fromType(rules[j].kind) \in Digital
      PROVE  \/ j # i /\ t.active[j]
             \/ j = i /\ e.type \in Digital /\ e.down
             \/ j = i /\ e.type \notin Digital /\ t.active[j]
  BY <1>1, <1>3, <1>4, <1>5, <1>6, <1>8
<1>9. Awake(u, G)
  <2>1. SUFFICES ASSUME NEW j \in DOMAIN rules, u.active[j], fromType(rules[j].kind) \in Digital
                 PROVE  /\ Source(j) \in G
                        /\ \A m \in DOMAIN rules : u.active[m] /\ Source(m) = Source(j) => m = j
    BY DEF Awake
  <2>2. ASSUME NEW m \in DOMAIN rules, t.active[m], fromType(rules[m].kind) \in Digital
        PROVE  /\ Source(m) \in H
               /\ \A n \in DOMAIN rules : t.active[n] /\ Source(n) = Source(m) => n = m
    BY <2>2 DEF Follows, Awake
  <2>3. \A m \in DOMAIN rules : Source(m) = Source(j) => fromType(rules[m].kind) \in Digital
    BY <2>1 DEF Source
  <2> HIDE DEF x
  <2>4. CASE e.type \in Digital /\ e.down
    <3>1. Source(i) = x /\ x \notin H /\ G = H \cup {x}
      BY <1>2, <1>4, <2>4
    <3>2. ASSUME NEW m \in DOMAIN rules, u.active[m], fromType(rules[m].kind) \in Digital
          PROVE  (m = i) \/ (t.active[m] /\ Source(m) \in H)
      BY <1>8, <2>2, <3>2
    <3>3. Source(j) \in G
      BY <2>1, <3>1, <3>2
    <3>4. ASSUME NEW m \in DOMAIN rules, u.active[m], Source(m) = Source(j) PROVE m = j
      <4>1. fromType(rules[m].kind) \in Digital
        BY <2>3, <3>4
      <4>2. (m = i) \/ (t.active[m] /\ Source(m) \in H)
        BY <3>2, <3>4, <4>1
      <4>3. (j = i) \/ (t.active[j] /\ Source(j) \in H)
        BY <2>1, <3>2
      <4>4. QED
        BY <2>1, <2>2, <3>1, <3>4, <4>1, <4>2, <4>3
    <3>5. QED
      BY <3>3, <3>4
  <2>5. CASE e.type \in Digital /\ ~e.down
    <3>1. Source(i) = x /\ t.active[i] /\ G = H \ {x}
      BY <1>2, <1>4, <2>5
    <3>2. ASSUME NEW m \in DOMAIN rules, u.active[m], fromType(rules[m].kind) \in Digital
          PROVE  m # i /\ t.active[m]
      BY <1>8, <2>5, <3>2
    <3>3. j # i /\ t.active[j]
      BY <2>1, <3>2
    <3>4. Source(j) \in H /\ Source(j) # x
      BY <2>1, <2>2, <3>1, <3>3
    <3>5. ASSUME NEW m \in DOMAIN rules, u.active[m], Source(m) = Source(j) PROVE m = j
      <4>1. t.active[m]
        BY <2>3, <3>2, <3>5
      <4>2. QED
        BY <2>1, <2>2, <3>3, <3>5, <4>1
    <3>6. QED
      BY <3>1, <3>4, <3>5
  <2>6. CASE e.type \notin Digital
    <3>1. G = H
      BY <1>2, <2>6
    <3>2. ASSUME NEW m \in DOMAIN rules, u.active[m], fromType(rules[m].kind) \in Digital
          PROVE  t.active[m]
      BY <1>8, <2>6, <3>2
    <3>3. t.active[j]
      BY <2>1, <3>2
    <3>4. ASSUME NEW m \in DOMAIN rules, u.active[m], Source(m) = Source(j) PROVE m = j
      <4>1. t.active[m]
        BY <2>3, <3>2, <3>4
      <4>2. QED
        BY <2>1, <2>2, <3>3, <3>4, <4>1
    <3>5. QED
      BY <2>1, <2>2, <3>1, <3>3, <3>4
  <2>7. QED
    BY <1>3, <2>4, <2>5, <2>6
<1>10. ASSUME NEW c \in u.consumers
       PROVE  \/ MakersOf(u, c) # {}
              \/ /\ <<"consumer", c>> \in G
                 /\ \A j \in DOMAIN rules : u.active[j] => Source(j) # <<"consumer", c>>
  <2> DEFINE y == <<"consumer", c>>
  <2>1. ASSUME NEW j \in DOMAIN rules, Source(j) = y PROVE fromType(rules[j].kind) \in Digital
    BY <2>1 DEF Source, Digital
  <2> HIDE DEF x, y
  <2>2. CASE rules[i].kind \in Makers /\ e.down /\ Len(rules[i].to) = 1 /\ rules[i].to[1].key = c
    <3>1. e.type \in Digital
      BY <1>4, <2>2
    <3>2. u.active[i]
      BY <1>3, <1>6, <2>2, <3>1
    <3>3. i \in MakersOf(u, c)
      BY <2>2, <3>2 DEF MakersOf
    <3>4. QED
      BY <3>3
  <2>3. CASE ~(rules[i].kind \in Makers /\ e.down /\ Len(rules[i].to) = 1 /\ rules[i].to[1].key = c)
    <3>1. c \in t.consumers
      BY <1>3, <1>7, <1>10, <2>3
    <3>2. CASE MakersOf(t, c) # {}
      <4>1. PICK j \in DOMAIN rules : /\ t.active[j] /\ rules[j].kind \in Makers
                                      /\ Len(rules[j].to) = 1 /\ rules[j].to[1].key = c
        BY <3>2 DEF MakersOf
      <4>2. CASE j # i
        <5>1. j \in MakersOf(u, c)
          BY <1>6, <4>1, <4>2 DEF MakersOf
        <5>2. QED
          BY <5>1
      <4>3. CASE j = i
        <5>1. ~e.down
          BY <2>3, <4>1, <4>3
        <5>2. c \notin u.consumers
          BY <1>7, <4>1, <4>3, <5>1
        <5>3. QED
          BY <1>10, <5>2
      <4>4. QED
        BY <4>2, <4>3
    <3>3. CASE MakersOf(t, c) = {}
      <4>1. y \in H /\ \A j \in DOMAIN rules : t.active[j] => Source(j) # y
        BY <3>1, <3>3 DEF Follows, Reasons, y
      <4>2. ASSUME NEW j \in DOMAIN rules, u.active[j], Source(j) = y PROVE FALSE
        <5>1. j = i /\ e.type \in Digital /\ e.down
          BY <1>8, <2>1, <4>1, <4>2
        <5>2. y = x /\ x \notin H
          BY <1>2, <1>4, <4>2, <5>1
        <5>3. QED
          BY <4>1, <5>2
      <4>3. y \in G
        <5>1. CASE e.type \in Digital /\ ~e.down
          <6>1. t.active[i] /\ Source(i) = x /\ G = H \ {x}
            BY <1>2, <1>4, <5>1
          <6>2. y # x
            BY <4>1, <6>1
          <6>3. QED
            BY <4>1, <6>1, <6>2
        <5>2. CASE ~(e.type \in Digital /\ ~e.down)
          BY <1>2, <1>3, <4>1, <5>2
        <5>3. QED
          BY <5>1, <5>2
      <4>4. QED
        BY <4>2, <4>3 DEF y
    <3>4. QED
      BY <3>2, <3>3
  <2>4. QED
    BY <2>2, <2>3
<1>11. Reasons(u, G)
  BY <1>10 DEF Reasons
<1>12. Owns(u)
  <2>1. SUFFICES ASSUME u.repeating, u.owner # 0
                 PROVE  u.owner \in DOMAIN rules /\ u.active[u.owner] /\ Taps(u.owner)
    BY DEF Owns
  <2>2. CASE e.down /\ u.owner = i /\ Taps(i)
    <3>1. e.type \in Digital
      BY <1>4, <2>2 DEF Taps, Makers
    <3>2. u.active[i]
      BY <1>3, <1>6, <2>2, <3>1
    <3>3. QED
      BY <2>2, <3>2
  <2>3. CASE t.repeating /\ t.owner = u.owner /\ (~e.down /\ Taps(i) => u.owner # i)
    <3>1. u.owner \in DOMAIN rules /\ t.active[u.owner] /\ Taps(u.owner)
      BY <2>1, <2>3 DEF Follows, Owns
    <3>2. CASE u.owner # i
      BY <1>6, <3>1, <3>2
    <3>3. CASE u.owner = i
      <4>1. e.down /\ e.type \in Digital
        BY <1>4, <2>3, <3>1, <3>3 DEF Taps, Makers
      <4>2. QED
        BY <1>3, <1>6, <3>1, <3>3, <4>1
    <3>4. QED
      BY <3>2, <3>3
  <2>4. QED
    BY <1>7, <2>1, <2>2, <2>3
<1>13. QED
  BY <1>9, <1>11, <1>12 DEF Follows, G

LEMMA FollowsWorked ==
  ASSUME setting \in Settings, NEW t \in Sound, NEW H, Follows(t, H), NEW e \in Event, Fits(Digital, H, e),
         NEW choice \in Choice
  PROVE  Follows(worked(t, e, choice), Moves(Digital, H, e))
<1> DEFINE u == worked(t, e, choice)
           G == Moves(Digital, H, e)
<1>1. Worked(t, u, e)
  BY WorkedIs
<1> HIDE DEF u, G
<1>2. PICK v, w : Same(t, v) /\ Remapped(v, w, e) /\ Less(w, u)
  BY <1>1 DEF Worked
<1>3. Follows(v, H) /\ v \in Sound
  <2>1. v \in Sound
    BY <1>2 DEF Same
  <2>2. QED
    BY <1>2, <2>1, FollowsSame
<1>4. w \in Sound
  BY <1>2, <1>3, RemappedSound
<1>5. Follows(w, G)
  <2>1. CASE (\A i \in DOMAIN rules : ~takes(v, i, e)) /\ Passed(v, w, e)
    BY <1>3, <2>1, FollowsPassed DEF G
  <2>2. CASE \E i \in DOMAIN rules : takes(v, i, e) /\ Converted(marked(v, i, e), w, i, e.down)
    <3>1. PICK i \in DOMAIN rules : takes(v, i, e) /\ Converted(marked(v, i, e), w, i, e.down)
      BY <2>2
    <3>2. QED
      BY <1>3, <3>1, FollowsConverted DEF G
  <2>3. QED
    BY <1>2, <2>1, <2>2 DEF Remapped
<1>6. Follows(u, G)
  BY <1>2, <1>4, <1>5, FollowsSame
<1>7. QED
  BY <1>6 DEF u, G

\* The events of q lead from what was held to what is held: h has the steps.
Steps(T, H, q, P, h) ==
  /\ h[0] = H /\ h[Len(q)] = P
  /\ \A n \in 1 .. Len(q) : Fits(T, h[n - 1], q[n]) /\ h[n] = Moves(T, h[n - 1], q[n])

Leads(T, H, q, P) == \E h : Steps(T, H, q, P, h)

LEMMA LeadsNone ==
  ASSUME NEW T, NEW H, NEW P
  PROVE  Leads(T, H, << >>, P) <=> H = P
<1>1. ASSUME H = P PROVE Leads(T, H, << >>, P)
  <2>1. Steps(T, H, << >>, P, [n \in {0} |-> H])
    BY <1>1 DEF Steps
  <2>2. QED
    BY <2>1 DEF Leads
<1>2. ASSUME Leads(T, H, << >>, P) PROVE H = P
  BY <1>2 DEF Leads, Steps
<1>3. QED
  BY <1>1, <1>2

LEMMA LeadsTail ==
  ASSUME NEW T, NEW H, NEW P, NEW q \in Seq(Event), q # << >>, Leads(T, H, q, P)
  PROVE  Fits(T, H, Head(q)) /\ Leads(T, Moves(T, H, Head(q)), Tail(q), P)
<1>1. PICK h : Steps(T, H, q, P, h)
  BY DEF Leads
<1>2. /\ Len(q) \in Nat /\ Len(q) >= 1 /\ Len(Tail(q)) = Len(q) - 1 /\ Head(q) = q[1]
      /\ \A n \in 1 .. Len(q) - 1 : Tail(q)[n] = q[n + 1]
  OBVIOUS
<1> DEFINE g == [n \in 0 .. Len(q) - 1 |-> h[n + 1]]
           r == Tail(q)
           l == Len(q)
<1>3. /\ h[0] = H /\ h[l] = P
      /\ \A n \in 1 .. l : Fits(T, h[n - 1], q[n]) /\ h[n] = Moves(T, h[n - 1], q[n])
  BY <1>1 DEF Steps
<1> HIDE DEF r, l
<1>4. l \in Nat /\ l >= 1 /\ Len(r) = l - 1 /\ \A n \in 1 .. l - 1 : r[n] = q[n + 1]
  BY <1>2 DEF r, l
<1>5. Fits(T, H, Head(q)) /\ h[1] = Moves(T, H, Head(q))
  <2>1. 1 \in 1 .. l /\ 1 - 1 = 0
    BY <1>4
  <2>2. Fits(T, h[1 - 1], q[1]) /\ h[1] = Moves(T, h[1 - 1], q[1])
    BY <1>3, <2>1
  <2>3. QED
    BY <1>2, <1>3, <2>1, <2>2
<1>6. \A n \in 0 .. l - 1 : g[n] = h[n + 1]
  BY DEF l
<1> HIDE DEF g
<1>7. g[0] = Moves(T, H, Head(q)) /\ g[l - 1] = P
  BY <1>3, <1>4, <1>5, <1>6
<1>8. ASSUME NEW n \in 1 .. l - 1
      PROVE  Fits(T, g[n - 1], r[n]) /\ g[n] = Moves(T, g[n - 1], r[n])
  <2>1. n + 1 \in 1 .. l /\ (n + 1) - 1 = n /\ n - 1 \in 0 .. l - 1 /\ n \in 0 .. l - 1
    BY <1>4
  <2>2. g[n - 1] = h[n] /\ g[n] = h[n + 1]
    BY <1>4, <1>6, <2>1
  <2>3. Fits(T, h[n], q[n + 1]) /\ h[n + 1] = Moves(T, h[n], q[n + 1])
    BY <1>3, <2>1
  <2>4. QED
    BY <1>4, <2>2, <2>3
<1>9. Steps(T, Moves(T, H, Head(q)), r, P, g)
  BY <1>4, <1>7, <1>8 DEF Steps
<1>10. QED
  BY <1>5, <1>9 DEF Leads, r

LEMMA LeadsOn ==
  ASSUME NEW T, NEW H, NEW P, NEW q \in Seq(Event), Leads(T, H, q, P), NEW e \in Event, Fits(T, P, e)
  PROVE  Leads(T, H, Append(q, e), Moves(T, P, e))
<1>1. PICK h : Steps(T, H, q, P, h)
  BY DEF Leads
<1> DEFINE l == Len(q)
           r == Append(q, e)
           Q == Moves(T, P, e)
           g == [n \in 0 .. l + 1 |-> IF n <= l THEN h[n] ELSE Q]
<1>2. l \in Nat /\ Len(r) = l + 1 /\ r[l + 1] = e /\ \A n \in 1 .. l : r[n] = q[n]
  OBVIOUS
<1>3. /\ h[0] = H /\ h[l] = P
      /\ \A n \in 1 .. l : Fits(T, h[n - 1], q[n]) /\ h[n] = Moves(T, h[n - 1], q[n])
  BY <1>1 DEF Steps
<1> HIDE DEF l, r, Q
<1>4. (\A n \in 0 .. l : g[n] = h[n]) /\ g[l + 1] = Q
  BY <1>2
<1> HIDE DEF g
<1>5. g[0] = H /\ g[l + 1] = Q
  BY <1>2, <1>3, <1>4
<1>6. ASSUME NEW n \in 1 .. l + 1
      PROVE  Fits(T, g[n - 1], r[n]) /\ g[n] = Moves(T, g[n - 1], r[n])
  <2>1. CASE n = l + 1
    <3>1. g[n - 1] = P /\ r[n] = e /\ g[n] = Q
      BY <1>2, <1>3, <1>4, <2>1
    <3>2. QED
      BY <3>1 DEF Q
  <2>2. CASE n # l + 1
    <3>1. n \in 1 .. l /\ n - 1 \in 0 .. l /\ n \in 0 .. l
      BY <1>2, <2>2
    <3>2. g[n - 1] = h[n - 1] /\ r[n] = q[n] /\ g[n] = h[n]
      BY <1>2, <1>4, <3>1
    <3>3. QED
      BY <1>3, <3>1, <3>2
  <2>3. QED
    BY <2>1, <2>2
<1>7. Steps(T, H, r, Q, g)
  BY <1>2, <1>5, <1>6 DEF Steps
<1>8. QED
  BY <1>7 DEF Leads, r, Q

LEMMA LeadsPast ==
  ASSUME NEW T, NEW H, NEW P, NEW q \in Seq(Event), Leads(T, H, q, P), NEW r \in Seq(Event),
         \A n \in 1 .. Len(r) : r[n].type \notin T
  PROVE  Leads(T, H, q \o r, P)
<1>1. PICK h : Steps(T, H, q, P, h)
  BY DEF Leads
<1> DEFINE l == Len(q)
           m == Len(r)
           c == q \o r
           g == [n \in 0 .. l + m |-> IF n <= l THEN h[n] ELSE P]
<1>2. /\ l \in Nat /\ m \in Nat /\ Len(c) = l + m
      /\ \A n \in 1 .. l : c[n] = q[n]
      /\ \A n \in 1 .. l + m : n > l => c[n] = r[n - l]
  OBVIOUS
<1>3. /\ h[0] = H /\ h[l] = P
      /\ \A n \in 1 .. l : Fits(T, h[n - 1], q[n]) /\ h[n] = Moves(T, h[n - 1], q[n])
  BY <1>1 DEF Steps
<1>4. \A n \in 1 .. m : r[n].type \notin T
  OBVIOUS
<1> HIDE DEF l, m, c
<1>5. (\A n \in 0 .. l : g[n] = h[n]) /\ \A n \in 0 .. l + m : n >= l => g[n] = P
  BY <1>2, <1>3
<1> HIDE DEF g
<1>6. g[0] = H /\ g[l + m] = P
  BY <1>2, <1>3, <1>5
<1>7. ASSUME NEW n \in 1 .. l + m
      PROVE  Fits(T, g[n - 1], c[n]) /\ g[n] = Moves(T, g[n - 1], c[n])
  <2>1. CASE n > l
    <3>1. g[n - 1] = P /\ g[n] = P /\ c[n] = r[n - l] /\ n - l \in 1 .. m
      BY <1>2, <1>5, <2>1
    <3>2. c[n].type \notin T
      BY <1>4, <3>1
    <3>3. QED
      BY <3>1, <3>2 DEF Fits, Moves
  <2>2. CASE ~(n > l)
    <3>1. n \in 1 .. l /\ n - 1 \in 0 .. l /\ n \in 0 .. l
      BY <1>2, <2>2
    <3>2. g[n - 1] = h[n - 1] /\ c[n] = q[n] /\ g[n] = h[n]
      BY <1>2, <1>5, <3>1
    <3>3. QED
      BY <1>3, <3>1, <3>2
  <2>3. QED
    BY <2>1, <2>2
<1>8. Steps(T, H, c, P, g)
  BY <1>2, <1>6, <1>7 DEF Steps
<1>9. QED
  BY <1>8 DEF Leads, c

-------------------------------------------------------------------------------
(***************************************************************************)
(* The actions that change the statics without working off an event.       *)
(***************************************************************************)
LEMMA LessTrans ==
  ASSUME NEW t, NEW u, NEW v, Less(t, u), Less(u, v)
  PROVE  Less(t, v)
  BY DEF Less

LEMMA KeepsLess ==
  ASSUME NEW t, NEW u, Keeps(t, u)
  PROVE  Less(t, u)
  BY DEF Keeps, Bears, Less

LEMMA FieldsLess ==
  ASSUME NEW t \in Sound
  PROVE  /\ \A q \in Seq({0, 1}) : Less(t, [t EXCEPT !.scroll = q])
         /\ \A q \in Seq(Pointer) : Less(t, [t EXCEPT !.out = q])
         /\ \A n \in Int : Less(t, [t EXCEPT !.held = n])
         /\ Less(t, [t EXCEPT !.scrolling = FALSE])
<1>1. t \in State
  BY DEF Sound
<1>2. ASSUME NEW u \in State, u.o = t.o, u.rep = t.rep, u.consumers = t.consumers,
             u.active = t.active, u.repeating = t.repeating, u.owner = t.owner
      PROVE  Less(t, u)
  BY <1>2 DEF Sound, Less
<1>3. ASSUME NEW q \in Seq({0, 1}) PROVE Less(t, [t EXCEPT !.scroll = q])
  <2> DEFINE u == [t EXCEPT !.scroll = q]
  <2>1. /\ u \in State /\ u.o = t.o /\ u.rep = t.rep /\ u.consumers = t.consumers
        /\ u.active = t.active /\ u.repeating = t.repeating /\ u.owner = t.owner
    BY <1>1 DEF State
  <2> HIDE DEF u
  <2>2. QED
    BY <1>2, <2>1 DEF u
<1>4. ASSUME NEW q \in Seq(Pointer) PROVE Less(t, [t EXCEPT !.out = q])
  <2> DEFINE u == [t EXCEPT !.out = q]
  <2>1. /\ u \in State /\ u.o = t.o /\ u.rep = t.rep /\ u.consumers = t.consumers
        /\ u.active = t.active /\ u.repeating = t.repeating /\ u.owner = t.owner
    BY <1>1 DEF State
  <2> HIDE DEF u
  <2>2. QED
    BY <1>2, <2>1 DEF u
<1>5. ASSUME NEW n \in Int PROVE Less(t, [t EXCEPT !.held = n])
  <2> DEFINE u == [t EXCEPT !.held = n]
  <2>1. /\ u \in State /\ u.o = t.o /\ u.rep = t.rep /\ u.consumers = t.consumers
        /\ u.active = t.active /\ u.repeating = t.repeating /\ u.owner = t.owner
    BY <1>1 DEF State
  <2> HIDE DEF u
  <2>2. QED
    BY <1>2, <2>1 DEF u
<1>6. Less(t, [t EXCEPT !.scrolling = FALSE])
  <2> DEFINE u == [t EXCEPT !.scrolling = FALSE]
  <2>1. /\ u \in State /\ u.o = t.o /\ u.rep = t.rep /\ u.consumers = t.consumers
        /\ u.active = t.active /\ u.repeating = t.repeating /\ u.owner = t.owner
    BY <1>1 DEF State
  <2> HIDE DEF u
  <2>2. QED
    BY <1>2, <2>1 DEF u
<1>7. QED
  BY <1>3, <1>4, <1>5, <1>6

LEMMA ScrollLess ==
  ASSUME s \in Sound, ScrollTimer
  PROVE  Less(s, s')
<1> DEFINE u == withFs(s, temporary_decrease(s.o.fs, s.scrollFlags))
           a == announce(u)
           v == withFs(a, temporary_increase(a.o.fs, s.scrollFlags))
           q == Tail(v.scroll) \o IF Head(v.scroll) = 1 THEN <<0>> ELSE << >>
<1>1. s \in State /\ s \in Typed /\ s.o.fs \in Unlocked
  BY SoundIs, TypedIs, OutputIs
<1>2. CASE s.scroll = << >>
  <2>1. s' = [s EXCEPT !.scrolling = FALSE]
    BY <1>2 DEF ScrollTimer
  <2>2. QED
    BY <2>1, FieldsLess
<1>3. CASE s.scroll # << >>
  <2>1. s' = [v EXCEPT !.scroll = q]
    BY <1>3 DEF ScrollTimer
  <2>2. u \in Sound /\ Keeps(s, u) /\ u.scroll = s.scroll
    <3>1. Keeps(s, u)
      BY <1>1, UnlockedKept, WithFsKeeps
    <3>2. u.scroll = s.scroll
      BY <1>1 DEF withFs, State
    <3>3. QED
      BY <3>1, <3>2, KeepsSound
  <2> HIDE DEF u
  <2>3. a \in Sound /\ Keeps(u, a) /\ a.scroll = u.scroll
    <3>1. u \in Typed /\ u \in State
      BY <2>2, SoundIs, TypedIs
    <3> DEFINE p == [u.o EXCEPT !.last = flags(u) \ ExtraFlags]
    <3>2. a = [u EXCEPT !.o = p]
      BY <3>1, Announce
    <3> HIDE DEF p
    <3>3. a.scroll = u.scroll
      BY <3>1, <3>2 DEF State
    <3>4. Keeps(u, a)
      BY <2>2, AnnounceKeeps
    <3>5. QED
      BY <3>3, <3>4, KeepsSound
  <2> HIDE DEF a
  <2>4. v \in Sound /\ Keeps(a, v) /\ v.scroll = a.scroll
    <3>1. a \in State /\ a.o.fs \in Unlocked
      BY <2>3, SoundIs, TypedIs, OutputIs
    <3>2. Keeps(a, v)
      BY <2>3, <3>1, UnlockedKept, WithFsKeeps
    <3>3. v.scroll = a.scroll
      BY <3>1 DEF withFs, State
    <3>4. QED
      BY <3>2, <3>3, KeepsSound
  <2> HIDE DEF v
  <2>5. q \in Seq({0, 1})
    <3>1. v.scroll \in Seq({0, 1}) /\ v.scroll # << >>
      BY <1>1, <1>3, <2>2, <2>3, <2>4 DEF State
    <3> DEFINE w == v.scroll
               z == IF Head(w) = 1 THEN <<0>> ELSE << >>
    <3> HIDE DEF w
    <3>2. w \in Seq({0, 1}) /\ w # << >>
      BY <3>1 DEF w
    <3>3. Tail(w) \in Seq({0, 1})
      BY <3>2
    <3>4. <<0>> \in Seq({0, 1}) /\ << >> \in Seq({0, 1})
      OBVIOUS
    <3>5. z \in Seq({0, 1})
      BY <3>4
    <3> HIDE DEF z
    <3>6. Tail(w) \o z \in Seq({0, 1})
      BY <3>3, <3>5
    <3>7. QED
      BY <3>6 DEF w, z
  <2> HIDE DEF q
  <2>6. Less(v, s')
    BY <2>1, <2>4, <2>5, FieldsLess
  <2>7. Less(s, u) /\ Less(u, a) /\ Less(a, v)
    BY <2>2, <2>3, <2>4, KeepsLess
  <2>8. QED
    BY <2>6, <2>7, LessTrans
<1>4. QED
  BY <1>2, <1>3

LEMMA OutputLess ==
  ASSUME s \in Sound, OutputTimer
  PROVE  Less(s, s')
<1>1. s.out \in Seq(Pointer)
  BY SoundIs, TypedIs
<1>2. s.out # << >> /\ s' = [s EXCEPT !.out = Tail(s.out)]
  BY DEF OutputTimer
<1> DEFINE q == s.out
<1> HIDE DEF q
<1>3. q \in Seq(Pointer) /\ q # << >>
  BY <1>1, <1>2 DEF q
<1>4. Tail(q) \in Seq(Pointer)
  BY <1>3
<1>5. QED
  BY <1>2, <1>4, FieldsLess DEF q

LEMMA DevicesLess ==
  ASSUME s \in Sound, NEW d, Plug(d) \/ Unplug(d) \/ \E hooked \in SUBSET present : Configure(hooked)
  PROVE  Less(s, s')
<1>1. s \in State /\ s.held \in Int /\ s \in Typed
  BY SoundIs, TypedIs
<1>2. CASE Plug(d) \/ Unplug(d)
  <2>1. s' = [s EXCEPT !.held = 0]
    BY <1>2 DEF Plug, Unplug
  <2>2. 0 \in Int
    OBVIOUS
  <2>3. Less(s, [s EXCEPT !.held = 0])
    BY <2>2, FieldsLess
  <2>4. QED
    BY <2>1, <2>3
<1>3. ASSUME NEW hooked \in SUBSET present, Configure(hooked)
      PROVE  Less(s, s')
  <2> DEFINE u == repeatCancel(s)
             c == cancelScroll(u)
             fs == sticky_clear(lock_clear(c.o.fs))
             v == withFs(c, fs)
             n == IF hooked = dev.hooked THEN c.held ELSE 0
  <2>1. s' = [c EXCEPT !.o.fs = fs, !.held = n]
    BY <1>3 DEF Configure
  <2>2. Keeps(s, u) /\ u \in Sound
    BY <1>1, RepeatCancelKeeps
  <2> HIDE DEF u
  <2>3. Keeps(u, c) /\ c \in Sound
    BY <2>2, CancelScrollKeeps, KeepsSound
  <2> HIDE DEF c
  <2>4. c.o.fs \in Unlocked /\ c \in State /\ c.held \in Int
    BY <2>3, SoundIs, TypedIs, OutputIs
  <2>5. fs \in Unlocked /\ n \in Int
    BY <2>4, UnlockedKept
  <2> HIDE DEF fs, n
  <2>6. Keeps(c, v) /\ v \in Sound
    BY <2>3, <2>5, WithFsKeeps, KeepsSound
  <2>7. s' = [v EXCEPT !.held = n]
    BY <2>1, <2>4 DEF withFs, State
  <2> HIDE DEF v
  <2>8. Less(v, s')
    BY <2>5, <2>6, <2>7, FieldsLess
  <2>9. Less(s, u) /\ Less(u, c) /\ Less(c, v)
    BY <2>2, <2>3, <2>6, KeepsLess
  <2>10. QED
    BY <2>8, <2>9, LessTrans
<1>4. QED
  BY <1>2, <1>3


-------------------------------------------------------------------------------
(***************************************************************************)
(* The inductive invariant, and that every action keeps it.                *)
(***************************************************************************)
Held == ({"key"} \X phys.keys) \cup ({"consumer"} \X phys.consumers)

\* There is a set of keys and consumer keys that the statics go by, from which the
\* events still queued lead to what is held.
Known == \E H : Leads(Digital, H, inq, Held) /\ Follows(s, H)

Inv == TypeOK /\ s \in Sound /\ Known

LEMMA SameSetting ==
  ASSUME setting' = setting
  PROVE  rules' = rules /\ State' = State /\ Sound' = Sound
<1>1. rules' = rules
  BY DEF rules
<1>2. State' = State
  BY <1>1 DEF State
<1>3. QED
  BY <1>1, <1>2 DEF Sound

LEMMA KnownNext ==
  ASSUME setting' = setting, NEW H, Leads(Digital, H, inq', Held'), Follows(s', H)
  PROVE  Known'
<1>1. rules' = rules
  BY SameSetting
<1>2. \A c : MakersOf(s, c)' = MakersOf(s', c)
  BY <1>1 DEF MakersOf
<1>3. \A i : Source(i)' = Source(i) /\ Taps(i)' = Taps(i)
  BY <1>1 DEF Source, Taps
<1>4. Awake(s, H)'
  BY <1>1, <1>3 DEF Follows, Awake
<1>5. Reasons(s, H)'
  BY <1>1, <1>2, <1>3 DEF Follows, Reasons
<1>6. Owns(s)'
  BY <1>1, <1>3 DEF Follows, Owns
<1>7. Follows(s, H)'
  BY <1>4, <1>5, <1>6 DEF Follows
<1>8. QED
  BY <1>7 DEF Known

LEMMA KnownStill ==
  ASSUME s \in Sound, Known, setting' = setting, Less(s, s'), inq' = inq, Held' = Held
  PROVE  Known' /\ (s \in Sound)'
<1>1. PICK H : Leads(Digital, H, inq, Held) /\ Follows(s, H)
  BY DEF Known
<1>2. Follows(s', H)
  BY <1>1, FollowsSame
<1>3. Leads(Digital, H, inq', Held')
  BY <1>1
<1>4. Known'
  BY <1>2, <1>3, KnownNext
<1>5. QED
  BY <1>4, SameSetting DEF Less

LEMMA ScrollStep ==
  ASSUME Inv, ScrollTimer
  PROVE  Inv'
<1>1. setting' = setting /\ phys' = phys /\ dev' = dev /\ inq' = inq /\ told' = told
      /\ changes' = changes
  BY DEF ScrollTimer
<1>2. Held' = Held
  BY <1>1 DEF Held
<1>3. Known' /\ (s \in Sound)'
  BY <1>1, <1>2, ScrollLess, KnownStill DEF Inv
<1>4. s' \in State
  BY ScrollLess DEF Inv, Less, Sound
<1>5. TypeOK'
  BY <1>1, <1>4, SameSetting DEF Inv, TypeOK, present
<1>6. QED
  BY <1>3, <1>5 DEF Inv

LEMMA OutputStep ==
  ASSUME Inv, OutputTimer
  PROVE  Inv'
<1>1. setting' = setting /\ phys' = phys /\ dev' = dev /\ inq' = inq /\ changes' = changes
  BY DEF OutputTimer
<1>2. Held' = Held
  BY <1>1 DEF Held
<1>3. Known' /\ (s \in Sound)'
  BY <1>1, <1>2, OutputLess, KnownStill DEF Inv
<1>4. s' \in State
  BY OutputLess DEF Inv, Less, Sound
<1>5. told' \in [Pointings -> SUBSET Buttons]
  <2> DEFINE q == s.out
  <2>1. q \in Seq(Pointer) /\ q # << >>
    BY DEF Inv, TypeOK, State, OutputTimer
  <2> HIDE DEF q
  <2> DEFINE p == Head(q)
  <2>2. p \in Pointer
    BY <2>1
  <2>3. told' = [d \in Pointings |-> IF d \in receivers(p) THEN p.buttons ELSE told[d]]
    BY DEF OutputTimer, q
  <2> HIDE DEF p
  <2>4. QED
    BY <2>2, <2>3 DEF Inv, TypeOK, Pointer
<1>6. TypeOK'
  BY <1>1, <1>4, <1>5, SameSetting DEF Inv, TypeOK, present
<1>7. QED
  BY <1>3, <1>6 DEF Inv

LEMMA InputStep ==
  ASSUME Inv, InputTimer
  PROVE  Inv'
<1> DEFINE e == Head(inq)
<1>1. setting' = setting /\ phys' = phys /\ dev' = dev /\ told' = told /\ changes' = changes
      /\ inq # << >> /\ inq' = Tail(inq)
  BY DEF InputTimer
<1>2. setting \in Settings /\ s \in Sound /\ inq \in Seq(Event) /\ Tail(inq) \in Seq(Event)
      /\ e \in Event
  BY <1>1 DEF Inv, TypeOK
<1>3. PICK choice \in Choice : s' = worked(s, e, choice)
  BY DEF InputTimer, choices, Choice
<1>4. PICK H : Leads(Digital, H, inq, Held) /\ Follows(s, H)
  BY DEF Inv, Known
<1>5. PICK G : G = Moves(Digital, H, e)
  OBVIOUS
<1>6. Fits(Digital, H, e) /\ Leads(Digital, G, Tail(inq), Held)
  BY <1>1, <1>2, <1>4, <1>5, LeadsTail
<1> HIDE DEF e
<1>7. Follows(s', G)
  BY <1>2, <1>3, <1>4, <1>5, <1>6, FollowsWorked
<1>8. s' \in Sound
  BY <1>2, <1>3, WorkedIs
<1>9. Leads(Digital, G, inq', Held')
  BY <1>1, <1>6 DEF Held
<1>10. Known'
  BY <1>1, <1>7, <1>9, KnownNext
<1>11. (s \in Sound)'
  BY <1>1, <1>8, SameSetting
<1>12. TypeOK'
  BY <1>1, <1>2, <1>8, SameSetting DEF Inv, TypeOK, present, Sound
<1>13. QED
  BY <1>10, <1>11, <1>12 DEF Inv

LEMMA MovesOn ==
  ASSUME Inv, setting' = setting, s' = s, NEW e \in Event, inq' = Append(inq, e),
         Fits(Digital, Held, e), Held' = Moves(Digital, Held, e)
  PROVE  inq' \in Seq(Event) /\ Known' /\ (s \in Sound)'
<1>1. PICK H : Leads(Digital, H, inq, Held) /\ Follows(s, H)
  BY DEF Inv, Known
<1>2. inq \in Seq(Event)
  BY DEF Inv, TypeOK
<1>3. Leads(Digital, H, Append(inq, e), Moves(Digital, Held, e))
  BY <1>1, <1>2, LeadsOn
<1>4. Leads(Digital, H, inq', Held') /\ Follows(s', H)
  BY <1>1, <1>3
<1>5. Known'
  BY <1>4, KnownNext
<1>6. QED
  BY <1>2, <1>5, SameSetting DEF Inv

LEMMA KeyStep ==
  ASSUME Inv, NEW k \in PhysKeys, KeyMoves(k)
  PROVE  Inv'
<1> DEFINE e == event("key", k, k \notin phys.keys, FALSE)
<1>1. setting' = setting /\ dev' = dev /\ s' = s /\ told' = told /\ changes' = changes
      /\ inq' = Append(inq, e) /\ phys' = [phys EXCEPT !.keys = toggled(@, k)]
  BY DEF KeyMoves
<1>2. e \in Event /\ e.type = "key" /\ e.what = k /\ (e.down <=> k \notin phys.keys)
  BY DEF event, Event
<1> HIDE DEF e
<1>3. phys \in [keys : SUBSET PhysKeys, consumers : SUBSET ConsumerKeys,
                buttons : [Pointings -> SUBSET Buttons]]
  BY DEF Inv, TypeOK
<1>4. /\ phys'.keys = toggled(phys.keys, k) /\ phys'.consumers = phys.consumers
      /\ phys' \in [keys : SUBSET PhysKeys, consumers : SUBSET ConsumerKeys,
                    buttons : [Pointings -> SUBSET Buttons]]
  BY <1>1, <1>3 DEF toggled
<1>5. What(e) = <<"key", k>> /\ e.type \in Digital
  BY <1>2 DEF What, Digital
<1>6. What(e) \in Held <=> k \in phys.keys
  BY <1>5 DEF Held
<1>7. Fits(Digital, Held, e)
  BY <1>2, <1>6 DEF Fits
<1>8. Held' = Moves(Digital, Held, e)
  <2>1. Held' = ({"key"} \X toggled(phys.keys, k)) \cup ({"consumer"} \X phys.consumers)
    BY <1>4 DEF Held
  <2>2. Moves(Digital, Held, e) = toggled(Held, <<"key", k>>)
    BY <1>5 DEF Moves
  <2>3. QED
    BY <2>1, <2>2 DEF toggled, Held
<1>9. inq' \in Seq(Event) /\ Known' /\ (s \in Sound)'
  BY <1>1, <1>2, <1>7, <1>8, MovesOn
<1>10. TypeOK'
  BY <1>1, <1>4, <1>9, SameSetting DEF Inv, TypeOK, present
<1>11. QED
  BY <1>9, <1>10 DEF Inv

LEMMA ConsumerStep ==
  ASSUME Inv, NEW c \in PhysConsumers, ConsumerMoves(c)
  PROVE  Inv'
<1> DEFINE e == event("consumer", c, c \notin phys.consumers, FALSE)
<1>1. setting' = setting /\ dev' = dev /\ s' = s /\ told' = told /\ changes' = changes
      /\ inq' = Append(inq, e) /\ phys' = [phys EXCEPT !.consumers = toggled(@, c)]
  BY DEF ConsumerMoves
<1>2. c \in ConsumerKeys
  BY DevicesConstants
<1>3. e \in Event /\ e.type = "consumer" /\ e.what = c /\ (e.down <=> c \notin phys.consumers)
  BY <1>2 DEF event, Event
<1> HIDE DEF e
<1>4. phys \in [keys : SUBSET PhysKeys, consumers : SUBSET ConsumerKeys,
                buttons : [Pointings -> SUBSET Buttons]]
  BY DEF Inv, TypeOK
<1>5. /\ phys'.keys = phys.keys /\ phys'.consumers = toggled(phys.consumers, c)
      /\ phys' \in [keys : SUBSET PhysKeys, consumers : SUBSET ConsumerKeys,
                    buttons : [Pointings -> SUBSET Buttons]]
  BY <1>1, <1>2, <1>4 DEF toggled
<1>6. What(e) = <<"consumer", c>> /\ e.type \in Digital
  BY <1>3 DEF What, Digital
<1>7. What(e) \in Held <=> c \in phys.consumers
  BY <1>6 DEF Held
<1>8. Fits(Digital, Held, e)
  BY <1>3, <1>7 DEF Fits
<1>9. Held' = Moves(Digital, Held, e)
  <2>1. Held' = ({"key"} \X phys.keys) \cup ({"consumer"} \X toggled(phys.consumers, c))
    BY <1>5 DEF Held
  <2>2. Moves(Digital, Held, e) = toggled(Held, <<"consumer", c>>)
    BY <1>6 DEF Moves
  <2>3. QED
    BY <2>1, <2>2 DEF toggled, Held
<1>10. inq' \in Seq(Event) /\ Known' /\ (s \in Sound)'
  BY <1>1, <1>3, <1>8, <1>9, MovesOn
<1>11. TypeOK'
  BY <1>1, <1>5, <1>10, SameSetting DEF Inv, TypeOK, present
<1>12. QED
  BY <1>10, <1>11 DEF Inv

LEMMA WheelStep ==
  ASSUME Inv, NEW d \in Pointings, Wheel(d)
  PROVE  Inv'
<1> DEFINE e == event("wheel", NONE, FALSE, setting.lazy)
<1>1. setting' = setting /\ phys' = phys /\ s' = s /\ told' = told /\ changes' = changes
      /\ inq' = Append(inq, e) /\ dev' = [dev EXCEPT !.last = d]
  BY DEF Wheel
<1>2. e \in Event /\ e.type = "wheel"
  <2>1. setting.lazy \in BOOLEAN
    BY DevicesConstants DEF Inv, TypeOK
  <2>2. QED
    BY <2>1 DEF event, Event
<1> HIDE DEF e
<1>3. Fits(Digital, Held, e) /\ Held' = Moves(Digital, Held, e)
  BY <1>1, <1>2 DEF Fits, Moves, Digital, Held
<1>4. inq' \in Seq(Event) /\ Known' /\ (s \in Sound)'
  BY <1>1, <1>2, <1>3, MovesOn
<1>5. TypeOK'
  <2>1. dev'.list = dev.list /\ dev'.hooked = dev.hooked
        /\ dev' \in [list : Seq(Pointings), last : Pointings, hooked : SUBSET Pointings,
                     prev : [Pointings -> SUBSET Buttons]]
    BY <1>1 DEF Inv, TypeOK
  <2>2. QED
    BY <1>1, <1>4, <2>1, SameSetting DEF Inv, TypeOK, present
<1>6. QED
  BY <1>4, <1>5 DEF Inv

\* The buttons that changed, and the move.
LEMMA ReportedIs ==
  ASSUME setting \in Settings, NEW old \in SUBSET Buttons, NEW new \in SUBSET Buttons,
         NEW move \in BOOLEAN
  PROVE  LET q == reported(old, new, move)
         IN q \in Seq(Event) /\ \A n \in 1 .. Len(q) : q[n].type \notin Digital
<1> DEFINE S == (old \ new) \cup (new \ old)
           changed == SetToSeq(S)
           Quiet == {e \in Event : e.type \notin Digital}
           q == reported(old, new, move)
           a == [n \in DOMAIN changed |-> event("button", changed[n], changed[n] \in new, setting.lazy)]
           b == IF move THEN <<event("move", NONE, FALSE, TRUE)>> ELSE << >>
<1>1. S \subseteq Buttons /\ IsFiniteSet(S)
  BY FiniteDevices, FS_Subset
<1> HIDE DEF S
<1>2. changed \in Seq(S)
  BY <1>1, SetToSeqType
<1> HIDE DEF changed
<1>3. setting.lazy \in BOOLEAN
  BY DevicesConstants
<1>4. ASSUME NEW n \in DOMAIN changed
      PROVE  event("button", changed[n], changed[n] \in new, setting.lazy) \in Quiet
  <2>1. changed[n] \in Buttons
    BY <1>1, <1>2
  <2>2. QED
    BY <1>3, <2>1 DEF event, Event, Digital
<1>5. event("move", NONE, FALSE, TRUE) \in Quiet
  BY DEF event, Event, Digital
<1> HIDE DEF Quiet
<1>6. a \in Seq(Quiet)
  BY <1>2, <1>4
<1>7. b \in Seq(Quiet)
  <2> DEFINE m == event("move", NONE, FALSE, TRUE)
  <2>1. m \in Quiet /\ b = IF move THEN <<m>> ELSE << >>
    BY <1>5
  <2> HIDE DEF m, b
  <2>2. <<m>> \in Seq(Quiet) /\ << >> \in Seq(Quiet)
    BY <2>1
  <2>3. QED
    BY <2>1, <2>2
<1>8. q = a \o b
  BY DEF reported, changed, S
<1> HIDE DEF a, b, q
<1>9. q \in Seq(Quiet)
  BY <1>6, <1>7, <1>8
<1>10. q \in Seq(Event)
  BY <1>9 DEF Quiet
<1>11. ASSUME NEW n \in 1 .. Len(q) PROVE q[n].type \notin Digital
  <2>1. q[n] \in Quiet
    BY <1>9, ElementIs
  <2>2. QED
    BY <2>1 DEF Quiet
<1>12. QED
  BY <1>10, <1>11 DEF q

LEMMA ReportStep ==
  ASSUME Inv, NEW d \in Pointings, NEW move \in BOOLEAN, Reports(d, move)
  PROVE  Inv'
<1>1. PICK new \in SUBSET setting.buttons[d] :
        /\ phys' = [phys EXCEPT !.buttons[d] = new]
        /\ IF d \in dev.hooked
           THEN /\ inq' = inq \o reported(dev.prev[d], new, move)
                /\ dev' = [dev EXCEPT !.last = d, !.prev[d] = new]
                /\ UNCHANGED told
           ELSE told' = [told EXCEPT ![d] = new] /\ UNCHANGED <<inq, dev>>
        /\ changes' = changes \/ changes' = changes + 1
  BY DEF Reports, Change
<1>2. setting' = setting /\ s' = s
  BY DEF Reports
<1>3. new \in SUBSET Buttons
  <2>1. setting.buttons \in [Pointings -> SUBSET Buttons]
    BY DevicesConstants DEF Inv, TypeOK
  <2>2. QED
    BY <2>1
<1>4. /\ phys'.keys = phys.keys /\ phys'.consumers = phys.consumers
      /\ phys' \in [keys : SUBSET PhysKeys, consumers : SUBSET ConsumerKeys,
                    buttons : [Pointings -> SUBSET Buttons]]
  BY <1>1, <1>3 DEF Inv, TypeOK
<1>5. Held' = Held
  BY <1>4 DEF Held
<1>6. dev'.list = dev.list /\ dev'.hooked = dev.hooked
      /\ dev' \in [list : Seq(Pointings), last : Pointings, hooked : SUBSET Pointings,
                   prev : [Pointings -> SUBSET Buttons]]
  <2>1. dev \in [list : Seq(Pointings), last : Pointings, hooked : SUBSET Pointings,
                 prev : [Pointings -> SUBSET Buttons]]
    BY DEF Inv, TypeOK
  <2>2. CASE d \in dev.hooked
    <3> DEFINE x == [dev EXCEPT !.last = d]
    <3>1. x.list = dev.list /\ x.hooked = dev.hooked
          /\ x \in [list : Seq(Pointings), last : Pointings, hooked : SUBSET Pointings,
                    prev : [Pointings -> SUBSET Buttons]]
      BY <2>1
    <3>2. dev' = [x EXCEPT !.prev[d] = new]
      BY <1>1, <2>1, <2>2
    <3> HIDE DEF x
    <3>3. QED
      BY <1>3, <3>1, <3>2
  <2>3. CASE d \notin dev.hooked
    BY <1>1, <2>1, <2>3
  <2>4. QED
    BY <2>2, <2>3
<1>7. told' \in [Pointings -> SUBSET Buttons] /\ changes' \in Nat
  BY <1>1, <1>3 DEF Inv, TypeOK
<1>8. inq' \in Seq(Event) /\ \A H : Leads(Digital, H, inq, Held) => Leads(Digital, H, inq', Held)
  <2>1. inq \in Seq(Event)
    BY DEF Inv, TypeOK
  <2>2. CASE d \in dev.hooked
    <3> DEFINE q == reported(dev.prev[d], new, move)
    <3>1. dev.prev[d] \in SUBSET Buttons
      BY DEF Inv, TypeOK
    <3>2. q \in Seq(Event) /\ \A n \in 1 .. Len(q) : q[n].type \notin Digital
      BY <1>3, <3>1, ReportedIs DEF Inv, TypeOK
    <3>3. inq' = inq \o q
      BY <1>1, <2>2
    <3> HIDE DEF q
    <3>4. \A H : Leads(Digital, H, inq, Held) => Leads(Digital, H, inq \o q, Held)
      BY <2>1, <3>2, LeadsPast
    <3>5. QED
      BY <2>1, <3>2, <3>3, <3>4
  <2>3. CASE d \notin dev.hooked
    BY <1>1, <2>1, <2>3
  <2>4. QED
    BY <2>2, <2>3
<1>9. Known' /\ (s \in Sound)'
  <2>1. PICK H : Leads(Digital, H, inq, Held) /\ Follows(s, H)
    BY DEF Inv, Known
  <2>2. Leads(Digital, H, inq', Held') /\ Follows(s', H)
    BY <1>2, <1>5, <1>8, <2>1
  <2>3. Known'
    BY <1>2, <2>2, KnownNext
  <2>4. QED
    BY <1>2, <2>3, SameSetting DEF Inv
<1>10. TypeOK'
  BY <1>2, <1>4, <1>6, <1>7, <1>8, SameSetting DEF Inv, TypeOK, present
<1>11. QED
  BY <1>9, <1>10 DEF Inv

LEMMA AppendIs ==
  ASSUME NEW q \in Seq(Pointings), NEW d \in Pointings
  PROVE  Append(q, d) \in Seq(Pointings) /\ ToSet(Append(q, d)) = ToSet(q) \cup {d}
<1> DEFINE r == Append(q, d)
<1>1. /\ r \in Seq(Pointings) /\ Len(r) = Len(q) + 1 /\ DOMAIN r = 1 .. Len(q) + 1
      /\ r[Len(q) + 1] = d /\ (\A n \in 1 .. Len(q) : r[n] = q[n])
      /\ DOMAIN q = 1 .. Len(q) /\ Len(q) \in Nat
  OBVIOUS
<1> HIDE DEF r
<1>2. \A n \in 1 .. Len(q) + 1 : n \in 1 .. Len(q) \/ n = Len(q) + 1
  BY <1>1
<1>3. \A n \in 1 .. Len(q) : n \in 1 .. Len(q) + 1
  BY <1>1
<1>4. Len(q) + 1 \in 1 .. Len(q) + 1
  BY <1>1
<1>5. ToSet(r) = ToSet(q) \cup {d}
  BY <1>1, <1>2, <1>3, <1>4 DEF ToSet
<1>6. QED
  BY <1>1, <1>5 DEF r

LEMMA RemovedIs ==
  ASSUME NEW q \in Seq(Pointings), NEW n \in 1 .. Len(q)
  PROVE  RemoveAt(q, n) \in Seq(Pointings) /\ ToSet(q) \ {q[n]} \subseteq ToSet(RemoveAt(q, n))
<1> DEFINE l == Len(q)
           a == SubSeq(q, 1, n - 1)
           b == SubSeq(q, n + 1, Len(q))
           r == RemoveAt(q, n)
<1>1. l \in Nat /\ n \in 1 .. l /\ DOMAIN q = 1 .. l
  OBVIOUS
<1>2. a \in Seq(Pointings) /\ Len(a) = n - 1 /\ \A m \in 1 .. n - 1 : a[m] = q[m]
  OBVIOUS
<1>3. b \in Seq(Pointings) /\ Len(b) = l - n /\ \A m \in 1 .. l - n : b[m] = q[m + n]
  OBVIOUS
<1>4. r = a \o b
  BY DEF RemoveAt
<1> HIDE DEF a, b, l, r
<1>5. r \in Seq(Pointings) /\ Len(r) = l - 1 /\ DOMAIN r = 1 .. l - 1
  <2>1. r \in Seq(Pointings) /\ Len(r) = Len(a) + Len(b)
    <3>1. a \in Seq(Pointings) /\ b \in Seq(Pointings)
      BY <1>2, <1>3
    <3>2. QED
      BY <1>4, <3>1
  <2>2. Len(r) = l - 1
    BY <1>1, <1>2, <1>3, <2>1
  <2>3. DOMAIN r = 1 .. Len(r)
    BY <2>1
  <2>4. QED
    BY <2>1, <2>2, <2>3
<1>6. ASSUME NEW m \in 1 .. l, m # n PROVE \E x \in 1 .. l - 1 : r[x] = q[m]
  <2>1. CASE m < n
    <3>1. m \in 1 .. n - 1 /\ m \in 1 .. l - 1
      BY <1>1, <2>1
    <3>2. r[m] = a[m]
      BY <1>1, <1>2, <1>3, <1>4, <3>1
    <3>3. QED
      BY <1>2, <3>1, <3>2
  <2>2. CASE ~(m < n)
    <3>1. m - 1 \in 1 .. l - 1 /\ m - n \in 1 .. l - n /\ (m - n) + n = m
          /\ (m - 1) - (n - 1) = m - n /\ m - 1 > n - 1 /\ m - 1 <= (n - 1) + (l - n)
      BY <1>1, <1>6, <2>2
    <3>2. r[m - 1] = b[m - n]
      BY <1>1, <1>2, <1>3, <1>4, <3>1
    <3>3. QED
      BY <1>3, <3>1, <3>2
  <2>3. QED
    BY <2>1, <2>2
<1>7. ToSet(q) \ {q[n]} \subseteq ToSet(r)
  BY <1>1, <1>5, <1>6 DEF ToSet
<1>8. QED
  BY <1>5, <1>7 DEF r

LEMMA PlugStep ==
  ASSUME Inv, NEW d \in Pointings, Plug(d)
  PROVE  Inv'
<1>1. setting' = setting /\ phys' = phys /\ inq' = inq /\ told' = told /\ changes' = changes + 1
  BY DEF Plug, Change
<1>2. Held' = Held
  BY <1>1 DEF Held
<1>3. Less(s, s')
  BY DevicesLess DEF Inv
<1>4. Known' /\ (s \in Sound)'
  BY <1>1, <1>2, <1>3, KnownStill DEF Inv
<1>5. s' \in State
  BY <1>3 DEF Less, Sound
<1> DEFINE Dev == [list : Seq(Pointings), last : Pointings, hooked : SUBSET Pointings,
                   prev : [Pointings -> SUBSET Buttons]]
<1>6. dev' \in Dev /\ dev'.hooked \subseteq ToSet(dev'.list)
  <2> DEFINE q == dev.list
             r == Append(q, d)
             hooked == dev.hooked \cup {d}
             prev == [dev.prev EXCEPT ![d] = {}]
  <2>1. dev \in Dev /\ dev.hooked \subseteq ToSet(q) /\ q \in Seq(Pointings)
    BY DEF Inv, TypeOK, present
  <2>2. dev' = [list |-> r, last |-> d, hooked |-> hooked, prev |-> prev]
    BY <2>1 DEF Plug
  <2>3. hooked \in SUBSET Pointings /\ prev \in [Pointings -> SUBSET Buttons]
    BY <2>1
  <2> HIDE DEF q
  <2>4. r \in Seq(Pointings) /\ ToSet(r) = ToSet(q) \cup {d}
    BY <2>1, AppendIs
  <2> HIDE DEF r, prev
  <2>5. hooked \subseteq ToSet(r)
    BY <2>1, <2>4
  <2> HIDE DEF hooked
  <2>6. QED
    BY <2>2, <2>3, <2>4, <2>5
<1>7. TypeOK'
  BY <1>1, <1>5, <1>6, SameSetting DEF Inv, TypeOK, present
<1>8. QED
  BY <1>4, <1>7 DEF Inv

LEMMA UnplugStep ==
  ASSUME Inv, NEW d \in Pointings, Unplug(d)
  PROVE  Inv'
<1>1. /\ setting' = setting /\ inq' = inq /\ changes' = changes + 1
      /\ phys' = [phys EXCEPT !.buttons[d] = {}] /\ told' = [told EXCEPT ![d] = {}]
  BY DEF Unplug, Change
<1>2. /\ phys'.keys = phys.keys /\ phys'.consumers = phys.consumers
      /\ phys' \in [keys : SUBSET PhysKeys, consumers : SUBSET ConsumerKeys,
                    buttons : [Pointings -> SUBSET Buttons]]
      /\ told' \in [Pointings -> SUBSET Buttons]
  BY <1>1 DEF Inv, TypeOK
<1>3. Held' = Held
  BY <1>2 DEF Held
<1>4. Less(s, s')
  BY DevicesLess DEF Inv
<1>5. Known' /\ (s \in Sound)'
  BY <1>1, <1>3, <1>4, KnownStill DEF Inv
<1>6. s' \in State
  BY <1>4 DEF Less, Sound
<1> DEFINE Dev == [list : Seq(Pointings), last : Pointings, hooked : SUBSET Pointings,
                   prev : [Pointings -> SUBSET Buttons]]
<1>7. dev' \in Dev /\ dev'.hooked \subseteq ToSet(dev'.list)
  <2> DEFINE q == dev.list
             hooked == dev.hooked \ {d}
  <2>1. dev \in Dev /\ dev.hooked \subseteq ToSet(q) /\ q \in Seq(Pointings)
    BY DEF Inv, TypeOK, present
  <2>2. PICK n \in DOMAIN q :
          q[n] = d /\ dev' = [dev EXCEPT !.list = RemoveAt(@, n), !.last = d, !.hooked = @ \ {d}]
    BY DEF Unplug
  <2> DEFINE r == RemoveAt(q, n)
  <2>3. dev' = [list |-> r, last |-> d, hooked |-> hooked, prev |-> dev.prev]
    BY <2>1, <2>2
  <2>4. hooked \in SUBSET Pointings /\ dev.prev \in [Pointings -> SUBSET Buttons]
    BY <2>1
  <2> HIDE DEF q
  <2>5. n \in 1 .. Len(q)
    BY <2>1, <2>2
  <2>6. r \in Seq(Pointings) /\ ToSet(q) \ {d} \subseteq ToSet(r)
    BY <2>1, <2>2, <2>5, RemovedIs
  <2> HIDE DEF r
  <2>7. hooked \subseteq ToSet(r)
    BY <2>1, <2>6
  <2> HIDE DEF hooked
  <2>8. QED
    BY <2>3, <2>4, <2>6, <2>7
<1>8. TypeOK'
  <2>1. present' = ToSet(dev'.list)
    BY DEF present
  <2>2. setting' \in Settings /\ inq' \in Seq(Event) /\ changes' \in Nat /\ s' \in State'
    BY <1>1, <1>6, SameSetting DEF Inv, TypeOK
  <2>3. QED
    BY <1>2, <1>7, <2>1, <2>2 DEF TypeOK
<1>9. QED
  BY <1>5, <1>8 DEF Inv

LEMMA ConfigureStep ==
  ASSUME Inv, NEW hooked \in SUBSET present, Configure(hooked)
  PROVE  Inv'
<1>1. /\ setting' = setting /\ phys' = phys /\ inq' = inq /\ told' = told
      /\ changes' = changes + 1 /\ dev' = [dev EXCEPT !.hooked = hooked]
  BY DEF Configure, Change
<1>2. Held' = Held
  BY <1>1 DEF Held
<1>3. Less(s, s')
  BY DevicesLess DEF Inv
<1>4. Known' /\ (s \in Sound)'
  BY <1>1, <1>2, <1>3, KnownStill DEF Inv
<1>5. s' \in State
  BY <1>3 DEF Less, Sound
<1>6. /\ dev' \in [list : Seq(Pointings), last : Pointings, hooked : SUBSET Pointings,
                   prev : [Pointings -> SUBSET Buttons]]
      /\ dev'.hooked \subseteq ToSet(dev'.list)
  <2>1. dev.list \in Seq(Pointings)
    BY DEF Inv, TypeOK
  <2>2. present \in SUBSET Pointings
    BY <2>1 DEF present, ToSet
  <2>3. dev'.list = dev.list /\ dev'.hooked = hooked
    BY <1>1 DEF Inv, TypeOK
  <2>4. QED
    BY <1>1, <2>2, <2>3 DEF Inv, TypeOK, present
<1>7. TypeOK'
  <2>1. present' = ToSet(dev'.list)
    BY DEF present
  <2>2. /\ setting' \in Settings /\ inq' \in Seq(Event) /\ changes' \in Nat /\ s' \in State'
        /\ told' \in [Pointings -> SUBSET Buttons]
        /\ phys' \in [keys : SUBSET PhysKeys, consumers : SUBSET ConsumerKeys,
                      buttons : [Pointings -> SUBSET Buttons]]
    BY <1>1, <1>5, SameSetting DEF Inv, TypeOK
  <2>3. QED
    BY <1>6, <2>1, <2>2 DEF TypeOK
<1>8. QED
  BY <1>4, <1>7 DEF Inv

LEMMA NextHolds ==
  ASSUME Inv, [Next]_vars
  PROVE  Inv'
<1>1. CASE InputTimer
  BY <1>1, InputStep
<1>2. CASE ScrollTimer
  BY <1>2, ScrollStep
<1>3. CASE OutputTimer
  BY <1>3, OutputStep
<1>4. ASSUME NEW k \in PhysKeys, KeyMoves(k) PROVE Inv'
  BY <1>4, KeyStep
<1>5. ASSUME NEW c \in PhysConsumers, ConsumerMoves(c) PROVE Inv'
  BY <1>5, ConsumerStep
<1>6. ASSUME NEW d \in Pointings, NEW move \in BOOLEAN, Reports(d, move) PROVE Inv'
  BY <1>6, ReportStep
<1>7. ASSUME NEW d \in Pointings, Wheel(d) PROVE Inv'
  BY <1>7, WheelStep
<1>8. ASSUME NEW d \in Pointings, Plug(d) PROVE Inv'
  BY <1>8, PlugStep
<1>9. ASSUME NEW d \in Pointings, Unplug(d) PROVE Inv'
  BY <1>9, UnplugStep
<1>10. ASSUME NEW hooked \in SUBSET present, Configure(hooked) PROVE Inv'
  BY <1>10, ConfigureStep
<1>11. CASE UNCHANGED vars
  <2>1. /\ setting' = setting /\ phys' = phys /\ dev' = dev /\ inq' = inq /\ s' = s
        /\ told' = told /\ changes' = changes
    BY <1>11 DEF vars
  <2>2. Less(s, s')
    BY <2>1 DEF Less, Inv
  <2>3. Held' = Held
    BY <2>1 DEF Held
  <2>4. Known' /\ (s \in Sound)'
    BY <2>1, <2>2, <2>3, KnownStill DEF Inv
  <2>5. TypeOK'
    BY <2>1, SameSetting DEF Inv, TypeOK, present
  <2>6. QED
    BY <2>4, <2>5 DEF Inv
<1>12. QED
  BY <1>1, <1>2, <1>3, <1>4, <1>5, <1>6, <1>7, <1>8, <1>9, <1>10, <1>11 DEF Next

LEMMA Initially ==
  ASSUME Init
  PROVE  Inv
<1>1. /\ setting \in Settings /\ inq = << >> /\ changes = 0
      /\ phys = [keys |-> {}, consumers |-> {}, buttons |-> [d \in Pointings |-> {}]]
      /\ told = [d \in Pointings |-> {}]
  BY DEF Init
<1> DEFINE o == [fs |-> initializeItems, last |-> {}, q |-> << >>, pressed |-> nonePressed]
<1>2. s = [o |-> o, count |-> [b \in Buttons |-> 0], held |-> 0,
           active |-> [i \in DOMAIN rules |-> FALSE],
           rep |-> {}, repeating |-> FALSE, owner |-> 0, consumers |-> {},
           scroll |-> << >>, scrollFlags |-> {}, scrolling |-> FALSE, out |-> << >>]
  BY DEF Init
<1>3. o \in Output
  <2>1. initializeItems \in Unlocked
    BY InitializeType DEF Unlocked, initializeItems
  <2>2. nonePressed \in [OutputKeys -> Nat]
    BY DEF nonePressed
  <2>3. << >> \in Seq(SentEvent)
    OBVIOUS
  <2>4. o \in SentStatics /\ o.q = << >> /\ o.fs = initializeItems
    BY <2>2, <2>3, InitializeType DEF SentStatics
  <2>5. QED
    BY <2>1, <2>4 DEF Output
<1> HIDE DEF o
<1>4. << >> \in Seq({0, 1}) /\ << >> \in Seq(Pointer)
  OBVIOUS
<1>5. s \in State
  BY <1>2, <1>3, <1>4, OutputIs DEF State
<1>6. s \in Sound
  BY <1>2, <1>3, <1>5 DEF Sound, RepeatsHeld, single
<1>7. Known
  <2>1. Leads(Digital, {}, inq, Held)
    <3>1. Held = {}
      BY <1>1 DEF Held
    <3>2. QED
      BY <1>1, <3>1, LeadsNone
  <2>2. \A i \in DOMAIN rules : ~s.active[i]
    BY <1>2
  <2>3. s.consumers = {} /\ ~s.repeating
    BY <1>2
  <2>4. Follows(s, {})
    BY <2>2, <2>3 DEF Follows, Awake, Reasons, Owns
  <2>5. QED
    BY <2>1, <2>4 DEF Known
<1>8. /\ dev \in [list : Seq(Pointings), last : Pointings, hooked : SUBSET Pointings,
                  prev : [Pointings -> SUBSET Buttons]]
      /\ dev.hooked \subseteq present
  <2> DEFINE q == SetToSeq(Pointings)
  <2>1. q \in Seq(Pointings) /\ Len(q) = Cardinality(Pointings)
    BY FiniteDevices, SetToSeqType
  <2>2. PICK n \in 1 .. Cardinality(Pointings) :
          dev = [list |-> SubSeq(q, 1, n), last |-> Last(SubSeq(q, 1, n)),
                 hooked |-> ToSet(SubSeq(q, 1, n)), prev |-> [d \in Pointings |-> {}]]
    BY DEF Init
  <2> HIDE DEF q
  <2> DEFINE l == SubSeq(q, 1, n)
  <2>3. n \in 1 .. Len(q)
    BY <2>1
  <2>4. l \in Seq(Pointings) /\ Len(l) = n
    BY <2>1, <2>3
  <2>5. dev = [list |-> l, last |-> Last(l), hooked |-> ToSet(l), prev |-> [d \in Pointings |-> {}]]
    BY <2>2
  <2> HIDE DEF l
  <2>6. Last(l) \in Pointings
    <3>1. n \in 1 .. Len(l)
      BY <2>3, <2>4
    <3>2. l[n] \in Pointings
      BY <2>4, <3>1, ElementIs
    <3>3. QED
      BY <2>4, <3>2 DEF Last
  <2>7. ToSet(l) \in SUBSET Pointings
    BY <2>4 DEF ToSet
  <2> DEFINE x == Last(l)
             y == ToSet(l)
             z == [d \in Pointings |-> {}]
  <2>8. z \in [Pointings -> SUBSET Buttons]
    OBVIOUS
  <2>9. dev = [list |-> l, last |-> x, hooked |-> y, prev |-> z] /\ x \in Pointings
        /\ y \in SUBSET Pointings /\ y = ToSet(l)
    BY <2>5, <2>6, <2>7
  <2> HIDE DEF x, y, z
  <2>10. QED
    BY <2>4, <2>8, <2>9 DEF present
<1>9. TypeOK
  BY <1>1, <1>5, <1>8 DEF TypeOK
<1>10. QED
  BY <1>6, <1>7, <1>9 DEF Inv

\* The inductive invariant: the types; no lock or sticky count but CapsLock's, and a
\* repeating key pressed; and rules, consumer keys and the owner of the repetition in
\* step with the keys held when the events worked off were made.
THEOREM InvariantHolds == Spec => []Inv
<1>1. Init => Inv
  BY Initially
<1>2. Inv /\ [Next]_vars => Inv'
  BY NextHolds
<1>3. QED
  BY <1>1, <1>2, PTL DEF Spec

\* The variables keep their types: hooked devices are in the list, counts are integers,
\* the queues hold events of the devices (ListHookedPointing, ButtonStatus).
THEOREM TypesHold == Spec => []TypeOK
<1>1. Inv => TypeOK
  BY DEF Inv
<1>2. QED
  BY <1>1, InvariantHolds, PTL

\* Whatever came and went before, typing one key makes all counts zero and releases
\* every key and button, unless the count of held keys was left too high
\* (NumHeldDownKeys::set, EventInputQueue, the flush of Core).
THEOREM Recovers == Spec => []TypingRecovers
<1>1. Inv => TypingRecovers
  BY SoundRecovers DEF Inv, TypeOK
<1>2. QED
  BY <1>1, InvariantHolds, PTL

\* With no event left to work off, a consumer key the system holds is held, or a key
\* that is turned into it; and only what is held repeats (KeyToConsumer::remap,
\* ConsumerToConsumer::remap, KeyboardRepeat).
THEOREM ConsumersFollow == Spec => []ConsumersFollowKeys
<1>1. ASSUME Inv, inq = << >>
      PROVE  /\ \A c \in s.consumers : c \in phys.consumers \/ sources(c) # {}
             /\ s.repeating /\ s.owner # 0 => s.active[s.owner]
             /\ \A k \in PlainKeys : s.rep = single(k) => s.o.pressed[k] > 0
             /\ \A c \in ConsumerKeys : s.rep = single(c) => c \in s.consumers
  <2>1. PICK H : Leads(Digital, H, inq, Held) /\ Follows(s, H)
    BY <1>1 DEF Inv, Known
  <2>2. H = Held
    BY <1>1, <2>1, LeadsNone
  <2>3. ASSUME NEW c \in s.consumers PROVE c \in phys.consumers \/ sources(c) # {}
    <3>1. MakersOf(s, c) # {} \/ <<"consumer", c>> \in Held
      BY <2>1, <2>2 DEF Follows, Reasons
    <3>2. <<"consumer", c>> \in Held => c \in phys.consumers
      BY DEF Held
    <3>3. MakersOf(s, c) = sources(c)
      BY DEF MakersOf, sources, converting, Makers
    <3>4. QED
      BY <3>1, <3>2, <3>3
  <2>4. s.repeating /\ s.owner # 0 => s.active[s.owner]
    BY <2>1 DEF Follows, Owns
  <2>5. RepeatsHeld(s.rep, s.o.pressed, s.consumers)
    BY <1>1 DEF Inv, Sound
  <2>6. QED
    BY <2>3, <2>4, <2>5 DEF RepeatsHeld
<1>2. Inv => ConsumersFollowKeys
  BY <1>1 DEF ConsumersFollowKeys
<1>3. QED
  BY <1>2, InvariantHolds, PTL

-------------------------------------------------------------------------------
(***************************************************************************)
(* What is counted: how often each button is pressed, and how often each   *)
(* modifier flag but CapsLock's is on.                                     *)
(***************************************************************************)
Gauges == ({"button"} \X Buttons) \cup ({"key"} \X (ModifierFlags \ {CAPSLOCK}))

Level(t, x) == IF x[1] = "button" THEN t.count[x[2]] ELSE t.o.fs[x[2]].count

In(x, S) == IF x \in S THEN 1 ELSE 0

\* The counts and the queue of pointing events are as before; one count has changed.
Even(t, u) == \A x \in Gauges : Level(u, x) = Level(t, x)

Calm(t, u) == u \in Typed /\ u.out = t.out /\ Even(t, u)

Shifts(t, u, x, n) == u \in Typed /\ Level(u, x) = Level(t, x) + n

Turns(t, u, x, n) == Shifts(t, u, x, n) /\ u.out = t.out

\* How often a set of flags turns on the one that is counted.
Flag(x, mods) == IF x[1] = "key" THEN In(x[2], mods) ELSE 0

Button(x, b) == IF x = <<"button", b>> THEN 1 ELSE 0

LEMMA GaugeIs ==
  ASSUME NEW x \in Gauges
  PROVE  \/ x[1] = "button" /\ x[2] \in Buttons /\ x = <<"button", x[2]>>
         \/ /\ x[1] = "key" /\ x[2] \in ModifierFlags /\ x[2] # CAPSLOCK
            /\ x = <<"key", x[2]>>
<1>1. CASE x \in {"button"} \X Buttons
  BY <1>1
<1>2. CASE x \in {"key"} \X (ModifierFlags \ {CAPSLOCK})
  BY <1>2
<1>3. QED
  BY <1>1, <1>2 DEF Gauges

LEMMA GaugeMade ==
  /\ \A b \in Buttons : <<"button", b>> \in Gauges
  /\ \A f \in ModifierFlags \ {CAPSLOCK} : <<"key", f>> \in Gauges
  BY DEF Gauges

LEMMA LevelIs ==
  ASSUME NEW t
  PROVE  /\ \A b : Level(t, <<"button", b>>) = t.count[b]
         /\ \A f : Level(t, <<"key", f>>) = t.o.fs[f].count
  BY DEF Level

LEMMA LevelType ==
  ASSUME NEW t \in Typed, NEW x \in Gauges
  PROVE  Level(t, x) \in Int
<1>1. t.count \in [Buttons -> Int] /\ t.o.fs \in FlagStatusItems
  BY TypedIs, OutputIs
<1>2. \A f \in ModifierFlags : t.o.fs[f].count \in Int
  BY <1>1 DEF FlagStatusItems, Item
<1>3. QED
  BY <1>1, <1>2, GaugeIs DEF Level

LEMMA CalmTrans ==
  ASSUME NEW t, NEW u, NEW v, Calm(t, u), Calm(u, v)
  PROVE  Calm(t, v)
  BY DEF Calm, Even

LEMMA CalmSelf ==
  ASSUME NEW t \in Typed
  PROVE  Calm(t, t)
  BY DEF Calm, Even

LEMMA LevelsAre ==
  ASSUME NEW x, NEW mods, NEW b
  PROVE  In(x, mods) \in {0, 1} /\ Flag(x, mods) \in {0, 1} /\ Button(x, b) \in {0, 1}
  BY DEF In, Flag, Button

LEMMA CalmTurns ==
  ASSUME NEW t \in Typed, NEW u, NEW x \in Gauges, Calm(t, u)
  PROVE  Turns(t, u, x, 0)
<1>1. Level(t, x) \in Int
  BY LevelType
<1>2. QED
  BY <1>1 DEF Calm, Even, Turns, Shifts

LEMMA TurnsTrans ==
  ASSUME NEW t \in Typed, NEW u, NEW v, NEW x \in Gauges, NEW m \in Int, NEW n \in Int,
         Turns(t, u, x, m), Turns(u, v, x, n)
  PROVE  Turns(t, v, x, m + n)
<1>1. Level(t, x) \in Int
  BY LevelType
<1>2. QED
  BY <1>1 DEF Turns, Shifts

LEMMA ShiftsTrans ==
  ASSUME NEW t \in Typed, NEW u, NEW v, NEW x \in Gauges, NEW m \in Int, NEW n \in Int,
         Shifts(t, u, x, m), Shifts(u, v, x, n)
  PROVE  Shifts(t, v, x, m + n)
<1>1. Level(t, x) \in Int
  BY LevelType
<1>2. QED
  BY <1>1 DEF Shifts

\* A count turned before or after nothing else happens to it.
LEMMA TurnsCalm ==
  ASSUME NEW t, NEW u, NEW v, NEW x \in Gauges, NEW n
  PROVE  /\ Calm(t, u) /\ Turns(u, v, x, n) => Turns(t, v, x, n)
         /\ Turns(t, u, x, n) /\ Calm(u, v) => Turns(t, v, x, n)
         /\ Calm(t, u) /\ Shifts(u, v, x, n) => Shifts(t, v, x, n)
         /\ Shifts(t, u, x, n) /\ Calm(u, v) => Shifts(t, v, x, n)
  BY DEF Calm, Even, Turns, Shifts

LEMMA EvenButtons ==
  ASSUME NEW t, NEW u, Even(t, u)
  PROVE  makeButtons(u) = makeButtons(t)
<1>1. ASSUME NEW b \in Buttons PROVE u.count[b] = t.count[b]
  <2>1. Level(u, <<"button", b>>) = Level(t, <<"button", b>>)
    BY GaugeMade DEF Even
  <2>2. QED
    BY <2>1, LevelIs
<1>2. QED
  BY <1>1 DEF makeButtons

LEMMA ItemCounts ==
  ASSUME NEW fs \in FlagStatusItems, NEW f \in ModifierFlags \ {CAPSLOCK}, NEW mods
  PROVE  /\ increase(fs, mods)[f].count = fs[f].count + In(f, mods)
         /\ decrease(fs, mods)[f].count = fs[f].count - In(f, mods)
         /\ temporary_increase(fs, mods)[f].count = fs[f].count
         /\ temporary_decrease(fs, mods)[f].count = fs[f].count
         /\ clearTemporary(fs)[f].count = fs[f].count
         /\ sticky_clear(fs)[f].count = fs[f].count
         /\ resetItems(fs)[f].count = 0
<1>1. fs[f] \in Item /\ fs[f].count \in Int
  BY DEF FlagStatusItems, Item
<1>2. increase(fs, mods)[f].count = fs[f].count + In(f, mods)
  BY <1>1 DEF increase, increaseItem, Item, In
<1>3. decrease(fs, mods)[f].count = fs[f].count - In(f, mods)
  BY <1>1 DEF decrease, decreaseItem, Item, In
<1>4. \A delta : addTemporary(fs, delta)[f].count = fs[f].count
  BY <1>1 DEF addTemporary, Item
<1>5. clearTemporary(fs)[f].count = fs[f].count
  BY <1>1 DEF clearTemporary, Item
<1>6. sticky_clear(fs)[f].count = fs[f].count
  BY <1>1 DEF sticky_clear, Item
<1>7. resetItems(fs)[f].count = 0
  BY DEF resetItems
<1>8. QED
  BY <1>2, <1>3, <1>4, <1>5, <1>6, <1>7 DEF temporary_increase, temporary_decrease

LEMMA SetKeyCounts ==
  ASSUME NEW fs \in FlagStatusItems, NEW f \in ModifierFlags \ {CAPSLOCK}, NEW mods, NEW key
  PROVE  setKey(fs, key, mods)[f].count =
           fs[f].count + IF f # key THEN 0 ELSE IF f \in mods THEN 1 ELSE -1
<1>1. fs[f] \in Item /\ fs[f].count \in Int
  BY DEF FlagStatusItems, Item
<1>2. clearTemporary(fs)[f].count = fs[f].count
  BY ItemCounts
<1>3. clearTemporary(fs)[f] \in Item
  BY <1>1 DEF clearTemporary, Item
<1>4. setKey(fs, key, mods)[f] =
        IF f = key THEN setItem(f, clearTemporary(fs)[f], mods) ELSE clearTemporary(fs)[f]
  BY DEF setKey
<1> DEFINE item == clearTemporary(fs)[f]
<1>5. item.count = fs[f].count /\ item \in Item
  BY <1>2, <1>3
<1> HIDE DEF item
<1>6. setItem(f, item, mods).count = item.count + IF f \in mods THEN 1 ELSE -1
  BY <1>1, <1>5 DEF setItem, increaseItem, decreaseItem, Item
<1>7. QED
  BY <1>1, <1>4, <1>5, <1>6 DEF item

LEMMA CalmSame ==
  ASSUME NEW t, NEW u \in Typed, u.out = t.out, u.count = t.count,
         \A f \in ModifierFlags \ {CAPSLOCK} : u.o.fs[f].count = t.o.fs[f].count
  PROVE  Calm(t, u)
<1>1. ASSUME NEW x \in Gauges PROVE Level(u, x) = Level(t, x)
  BY <1>1, GaugeIs DEF Level
<1>2. QED
  BY <1>1 DEF Calm, Even

LEMMA WithFsIs ==
  ASSUME NEW t \in Typed, NEW fs \in Unlocked
  PROVE  LET u == withFs(t, fs)
         IN u \in Typed /\ u.out = t.out /\ u.count = t.count /\ u.o.fs = fs
<1> DEFINE u == withFs(t, fs)
           p == [t.o EXCEPT !.fs = fs]
<1>1. t \in State /\ t.o \in SentStatics
  BY TypedIs, OutputIs
<1>2. u \in Typed /\ u = [t EXCEPT !.o = p]
  BY WithFs
<1>3. p.fs = fs
  BY <1>1 DEF SentStatics
<1> HIDE DEF u, p
<1>4. u.o = p /\ u.out = t.out /\ u.count = t.count
  BY <1>1, <1>2 DEF State
<1>5. QED
  BY <1>2, <1>3, <1>4 DEF u

\* Flags turned on and off, for good or for one call.
LEMMA FsTurns ==
  ASSUME NEW t \in Typed, NEW fs \in Unlocked, NEW x \in Gauges, NEW n \in Int,
         x[1] = "button" => n = 0,
         x[1] = "key" => fs[x[2]].count = t.o.fs[x[2]].count + n
  PROVE  Turns(t, withFs(t, fs), x, n)
<1> DEFINE u == withFs(t, fs)
<1>1. u \in Typed /\ u.out = t.out /\ u.count = t.count /\ u.o.fs = fs
  BY WithFsIs
<1> HIDE DEF u
<1>2. t.count \in [Buttons -> Int]
  BY TypedIs
<1>3. CASE x[1] = "button"
  <2>1. x[2] \in Buttons
    BY <1>3, GaugeIs
  <2>2. n = 0 /\ t.count[x[2]] \in Int
    BY <1>2, <1>3, <2>1
  <2>3. Level(u, x) = Level(t, x) + n
    BY <1>1, <1>3, <2>2 DEF Level
  <2>4. QED
    BY <1>1, <2>3 DEF Turns, Shifts, u
<1>4. CASE x[1] = "key"
  <2>1. Level(u, x) = Level(t, x) + n
    BY <1>1, <1>4 DEF Level
  <2>2. QED
    BY <1>1, <2>1 DEF Turns, Shifts, u
<1>5. QED
  BY <1>3, <1>4, GaugeIs

LEMMA FsCalm ==
  ASSUME NEW t \in Typed, NEW fs \in Unlocked,
         \A f \in ModifierFlags \ {CAPSLOCK} : fs[f].count = t.o.fs[f].count
  PROVE  Calm(t, withFs(t, fs))
<1> DEFINE u == withFs(t, fs)
<1>1. u \in Typed /\ u.out = t.out /\ u.count = t.count /\ u.o.fs = fs
  BY WithFsIs
<1> HIDE DEF u
<1>2. Calm(t, u)
  BY <1>1, CalmSame
<1>3. QED
  BY <1>2 DEF u

LEMMA FlagsTurn ==
  ASSUME NEW t \in Typed, NEW mods, NEW x \in Gauges
  PROVE  /\ Turns(t, withFs(t, increase(t.o.fs, mods)), x, Flag(x, mods))
         /\ Turns(t, withFs(t, decrease(t.o.fs, mods)), x, 0 - Flag(x, mods))
<1>1. t.o.fs \in Unlocked /\ t.o.fs \in FlagStatusItems
  BY TypedIs, OutputIs
<1>2. increase(t.o.fs, mods) \in Unlocked /\ decrease(t.o.fs, mods) \in Unlocked
  BY <1>1, UnlockedKept
<1>3. \A f \in ModifierFlags : t.o.fs[f].count \in Int
  BY <1>1 DEF FlagStatusItems, Item
<1> DEFINE n == Flag(x, mods)
<1>4. n \in Int /\ 0 - n \in Int
  BY LevelsAre
<1>5. x[1] = "button" => n = 0
  BY DEF Flag
<1>6. ASSUME x[1] = "key"
      PROVE  /\ increase(t.o.fs, mods)[x[2]].count = t.o.fs[x[2]].count + n
             /\ decrease(t.o.fs, mods)[x[2]].count = t.o.fs[x[2]].count + (0 - n)
  <2>1. x[2] \in ModifierFlags /\ x[2] # CAPSLOCK
    BY <1>6, GaugeIs
  <2>2. n = In(x[2], mods)
    BY <1>6 DEF Flag
  <2>3. /\ increase(t.o.fs, mods)[x[2]].count = t.o.fs[x[2]].count + In(x[2], mods)
        /\ decrease(t.o.fs, mods)[x[2]].count = t.o.fs[x[2]].count - In(x[2], mods)
    BY <1>1, <2>1, ItemCounts
  <2> HIDE DEF n
  <2>4. t.o.fs[x[2]].count \in Int
    BY <1>3, <2>1
  <2>5. QED
    BY <1>4, <2>2, <2>3, <2>4
<1> HIDE DEF n
<1>7. Turns(t, withFs(t, increase(t.o.fs, mods)), x, n)
  BY <1>2, <1>4, <1>5, <1>6, FsTurns
<1>8. Turns(t, withFs(t, decrease(t.o.fs, mods)), x, 0 - n)
  <2>1. x[1] = "button" => 0 - n = 0
    BY <1>5
  <2>2. QED
    BY <1>2, <1>4, <1>5, <1>6, <2>1, FsTurns
<1>9. QED
  BY <1>7, <1>8 DEF n

LEMMA CountsKept ==
  ASSUME NEW fs \in FlagStatusItems, NEW mods
  PROVE  \A f \in ModifierFlags \ {CAPSLOCK} :
           /\ temporary_increase(fs, mods)[f].count = fs[f].count
           /\ temporary_decrease(fs, mods)[f].count = fs[f].count
           /\ clearTemporary(fs)[f].count = fs[f].count
           /\ sticky_clear(fs)[f].count = fs[f].count
<1>1. ASSUME NEW f \in ModifierFlags \ {CAPSLOCK}
      PROVE  /\ temporary_increase(fs, mods)[f].count = fs[f].count
             /\ temporary_decrease(fs, mods)[f].count = fs[f].count
             /\ clearTemporary(fs)[f].count = fs[f].count
             /\ sticky_clear(fs)[f].count = fs[f].count
  BY <1>1, ItemCounts
<1>2. QED
  BY <1>1

LEMMA FlagsCalm ==
  ASSUME NEW t \in Typed, NEW mods
  PROVE  /\ Calm(t, withFlags(t, mods)) /\ Calm(t, withoutFlags(t, mods))
         /\ Calm(t, withFs(t, clearTemporary(t.o.fs)))
<1>1. t.o.fs \in Unlocked /\ t.o.fs \in FlagStatusItems
  BY TypedIs, OutputIs
<1>2. /\ temporary_increase(t.o.fs, mods) \in Unlocked
      /\ temporary_decrease(t.o.fs, mods) \in Unlocked /\ clearTemporary(t.o.fs) \in Unlocked
  BY <1>1, UnlockedKept
<1>3. /\ Calm(t, withFs(t, temporary_increase(t.o.fs, mods)))
      /\ Calm(t, withFs(t, temporary_decrease(t.o.fs, mods)))
      /\ Calm(t, withFs(t, clearTemporary(t.o.fs)))
  BY <1>1, <1>2, FsCalm, CountsKept
<1>4. QED
  BY <1>3 DEF withFlags, withoutFlags

LEMMA ShowsTurn ==
  ASSUME NEW t \in Typed, NEW mods, NEW x \in Gauges
  PROVE  /\ Turns(t, showFlags(t, mods), x, Flag(x, mods))
         /\ Turns(t, hideFlags(t, mods), x, 0 - Flag(x, mods))
  BY FlagsTurn DEF showFlags, hideFlags

LEMMA AnnounceCalm ==
  ASSUME NEW t \in Typed
  PROVE  Calm(t, announce(t))
<1> DEFINE p == [t.o EXCEPT !.last = flags(t) \ ExtraFlags]
           u == announce(t)
<1>1. t \in State /\ t.o \in SentStatics
  BY TypedIs, OutputIs
<1>2. u \in Typed /\ u = [t EXCEPT !.o = p]
  BY Announce
<1>3. p.fs = t.o.fs
  BY <1>1 DEF SentStatics
<1> HIDE DEF u, p
<1>4. u.o = p /\ u.out = t.out /\ u.count = t.count
  BY <1>1, <1>2 DEF State
<1>5. Calm(t, u)
  BY <1>2, <1>3, <1>4, CalmSame
<1>6. QED
  BY <1>5 DEF u

LEMMA SendCalm ==
  ASSUME NEW t \in Typed, NEW key \in Sendable, NEW down \in BOOLEAN
  PROVE  Calm(t, sendKey(t, key, down))
<1> DEFINE u == sendKey(t, key, down)
<1>1. PICK p : u = [t EXCEPT !.o = p] /\ KeyOf(t.o, p, key, down) /\ u \in Typed
  BY SendKey
<1>2. t \in State /\ t.o.fs \in FlagStatusItems
  BY TypedIs, OutputIs
<1> HIDE DEF u
<1>3. u.o = p /\ u.out = t.out /\ u.count = t.count
  BY <1>1, <1>2 DEF State
<1>4. \A f \in ModifierFlags \ {CAPSLOCK} : p.fs[f].count = t.o.fs[f].count
  <2>1. p.fs = t.o.fs \/ p.fs = sticky_clear(t.o.fs)
    BY <1>1 DEF KeyOf
  <2>2. QED
    BY <1>2, <2>1, CountsKept
<1>5. Calm(t, u)
  BY <1>1, <1>3, <1>4, CalmSame
<1>6. QED
  BY <1>5 DEF u

\* What else of the statics changes, nothing is counted or said by it.
LEMMA RepeatCalm ==
  ASSUME NEW t \in Typed
  PROVE  /\ Calm(t, repeatCancel(t))
         /\ \A key \in PlainKeys \cup ConsumerKeys : Calm(t, startRepeat(t, key))
         /\ \A key : Calm(t, endRepeat(t, key))
<1>1. t \in State
  BY TypedIs
<1>2. Calm(t, repeatCancel(t))
  <2> DEFINE u == repeatCancel(t)
  <2>1. u \in Typed
    BY RepeatCancelKeeps, SoundIs
  <2>2. u.o = t.o /\ u.out = t.out /\ u.count = t.count
    BY <1>1 DEF repeatCancel, State
  <2> HIDE DEF u
  <2>3. Calm(t, u)
    BY <2>1, <2>2, CalmSame
  <2>4. QED
    BY <2>3 DEF u
<1>3. ASSUME NEW key \in PlainKeys \cup ConsumerKeys PROVE Calm(t, startRepeat(t, key))
  <2> DEFINE u == startRepeat(t, key)
  <2>1. u \in Typed /\ u.o = t.o
    BY RepeatsIs
  <2>2. u.out = t.out /\ u.count = t.count
    BY <1>1 DEF startRepeat, State
  <2> HIDE DEF u
  <2>3. Calm(t, u)
    BY <2>1, <2>2, CalmSame
  <2>4. QED
    BY <2>3 DEF u
<1>4. \A key : Calm(t, endRepeat(t, key))
  BY <1>2, CalmSelf DEF endRepeat
<1>5. QED
  BY <1>2, <1>3, <1>4

LEMMA RepeatKeyCalm ==
  ASSUME NEW t \in Typed, NEW key \in Sendable, NEW down \in BOOLEAN
  PROVE  Calm(t, repeatKey(t, key, down))
<1>1. /\ Calm(t, t) /\ Calm(t, repeatCancel(t)) /\ Calm(t, endRepeat(t, key))
      /\ key \in PlainKeys => Calm(t, startRepeat(t, key))
  BY CalmSelf, RepeatCalm
<1>2. \/ repeatKey(t, key, down) = t \/ repeatKey(t, key, down) = repeatCancel(t)
      \/ repeatKey(t, key, down) = endRepeat(t, key)
      \/ key \in PlainKeys /\ repeatKey(t, key, down) = startRepeat(t, key)
  BY KeyCodesDisjoint DEF repeatKey, Sendable
<1>3. QED
  BY <1>1, <1>2

LEMMA RepeatConsumerCalm ==
  ASSUME NEW t \in Typed, NEW key \in ConsumerKeys \cup {NONE}, NEW down
  PROVE  Calm(t, repeatConsumer(t, key, down))
<1>1. /\ Calm(t, t) /\ Calm(t, repeatCancel(t))
      /\ key \in ConsumerKeys => Calm(t, startRepeat(t, key))
  BY CalmSelf, RepeatCalm
<1>2. QED
  BY <1>1 DEF repeatConsumer, NONE

\* A button counted up or down.
LEMMA PlusTurns ==
  ASSUME NEW t \in Typed, NEW b \in Buttons, NEW n \in Int, NEW x \in Gauges
  PROVE  Turns(t, plus(t, b, n), x, IF x = <<"button", b>> THEN n ELSE 0)
<1> DEFINE count == [t.count EXCEPT ![b] = @ + n]
           u == [t EXCEPT !.count = count]
<1>1. t \in State /\ t.o \in Output /\ t.count \in [Buttons -> Int]
  BY TypedIs
<1>2. count \in [Buttons -> Int]
  BY <1>1
<1>3. \A c \in Buttons : count[c] = t.count[c] + IF c = b THEN n ELSE 0
  BY <1>1
<1>4. plus(t, b, n) = u
  BY <1>1 DEF plus, State
<1> HIDE DEF count
<1>5. u \in State /\ u.o = t.o /\ u.out = t.out /\ u.count = count
  BY <1>1, <1>2 DEF State
<1> HIDE DEF u
<1>6. u \in Typed
  BY <1>1, <1>5 DEF Typed
<1>7. Level(u, x) = Level(t, x) + IF x = <<"button", b>> THEN n ELSE 0
  <2>1. CASE x[1] = "button"
    <3>1. x[2] \in Buttons /\ (x = <<"button", b>> <=> x[2] = b)
      BY <2>1, GaugeIs
    <3>2. QED
      BY <1>3, <1>5, <2>1, <3>1 DEF Level
  <2>2. CASE x[1] = "key"
    <3>1. Level(u, x) = Level(t, x) /\ x # <<"button", b>>
      BY <1>5, <2>2 DEF Level
    <3>2. Level(t, x) \in Int
      BY LevelType
    <3>3. QED
      BY <3>1, <3>2
  <2>3. QED
    BY <2>1, <2>2, GaugeIs
<1>8. QED
  BY <1>4, <1>5, <1>6, <1>7 DEF Turns, Shifts

\* The last event for output says which buttons are pressed.
Spoken(u) == u.out # << >> /\ Last(u.out) = [buttons |-> makeButtons(u), move |-> FALSE]

Reported(t, u, move) ==
  /\ u \in Typed /\ Even(t, u) /\ makeButtons(u) = makeButtons(t)
  /\ u.out = Append(t.out, [buttons |-> makeButtons(t), move |-> move])

LEMMA FirePointerIs ==
  ASSUME NEW t \in Typed, NEW move \in BOOLEAN
  PROVE  Reported(t, firePointer(t, move), move)
<1> DEFINE a == announce(t)
           p == [buttons |-> makeButtons(t), move |-> move]
           out == Append(a.out, p)
           u == [a EXCEPT !.out = out]
<1>1. Calm(t, a)
  BY AnnounceCalm
<1> HIDE DEF a
<1>2. a \in Typed /\ a.out = t.out /\ Even(t, a) /\ a \in State /\ a.o \in Output
  BY <1>1, TypedIs DEF Calm
<1>3. p \in Pointer
  BY DEF Pointer, makeButtons
<1> HIDE DEF p
<1>4. out \in Seq(Pointer)
  BY <1>2, <1>3 DEF State
<1> HIDE DEF out
<1>5. u \in State /\ u.o = a.o /\ u.count = a.count /\ u.out = out
  BY <1>2, <1>4 DEF State
<1>6. firePointer(t, move) = u
  BY DEF firePointer, a, p, out
<1> HIDE DEF u
<1>7. u \in Typed
  BY <1>2, <1>5 DEF Typed
<1>8. Even(t, u)
  BY <1>2, <1>5 DEF Even, Level
<1>9. makeButtons(u) = makeButtons(t)
  BY <1>8, EvenButtons
<1>10. u.out = Append(t.out, p)
  BY <1>2, <1>5 DEF out
<1>11. QED
  BY <1>6, <1>7, <1>8, <1>9, <1>10 DEF Reported, p

LEMMA ReportedSpoken ==
  ASSUME NEW t \in Typed, NEW u, Reported(t, u, FALSE)
  PROVE  Spoken(u)
<1> DEFINE p == [buttons |-> makeButtons(t), move |-> FALSE]
<1>1. t.out \in Seq(Pointer)
  BY TypedIs
<1>2. u.out = Append(t.out, p) /\ makeButtons(u) = makeButtons(t)
  BY DEF Reported
<1> HIDE DEF p
<1>3. Append(t.out, p) # << >> /\ Last(Append(t.out, p)) = p
  BY <1>1 DEF Last
<1>4. QED
  BY <1>2, <1>3 DEF Spoken, p

LEMMA SpokenCalm ==
  ASSUME NEW t, NEW u, Calm(t, u)
  PROVE  /\ makeButtons(u) = makeButtons(t) /\ (Spoken(t) => Spoken(u))
  BY EvenButtons DEF Calm, Spoken

LEMMA PointerTurns ==
  ASSUME NEW t \in Typed, NEW move \in BOOLEAN, NEW x \in Gauges
  PROVE  Shifts(t, firePointer(t, move), x, 0)
<1>1. Level(t, x) \in Int
  BY LevelType
<1>2. Reported(t, firePointer(t, move), move)
  BY FirePointerIs
<1>3. QED
  BY <1>1, <1>2 DEF Reported, Even, Shifts

LEMMA FireConsumerCalm ==
  ASSUME NEW t \in Typed, NEW key \in ConsumerKeys \cup {NONE}, NEW down \in BOOLEAN
  PROVE  Calm(t, FireConsumer(t, key, down))
<1>1. CASE key = VK_NONE
  BY <1>1, CalmSelf DEF FireConsumer
<1>2. CASE key # VK_NONE
  <2> DEFINE a == announce(t)
             con == IF down THEN a.consumers \cup {key} ELSE a.consumers \ {key}
             u == [a EXCEPT !.consumers = con]
  <2>1. Calm(t, a)
    BY AnnounceCalm
  <2> HIDE DEF a
  <2>2. a \in Typed /\ a \in State
    BY <2>1, TypedIs DEF Calm
  <2>3. ConsumerSent(t, FireConsumer(t, key, down), key, down)
    BY FireConsumerIs DEF NONE
  <2>4. FireConsumer(t, key, down) = u
    BY <1>2 DEF FireConsumer, a
  <2> HIDE DEF con
  <2>5. u.o = a.o /\ u.count = a.count /\ u.out = a.out
    BY <2>2 DEF State
  <2> HIDE DEF u
  <2>6. u \in Typed
    BY <2>3, <2>4 DEF ConsumerSent
  <2>7. Calm(a, u)
    BY <2>5, <2>6, CalmSame
  <2>8. QED
    BY <2>1, <2>4, <2>7, CalmTrans
<1>3. QED
  BY <1>1, <1>2

LEMMA RepeatTapCalm ==
  ASSUME NEW t \in Typed, NEW key \in ConsumerKeys \cup {NONE}
  PROVE  Calm(t, repeatTap(t, key))
<1>1. CASE key = VK_NONE
  BY <1>1, CalmSelf DEF repeatTap
<1>2. CASE key # VK_NONE
  <2> DEFINE rep == t.rep \cup [key : {key}, down : BOOLEAN]
             u == [t EXCEPT !.rep = rep]
  <2>1. t \in State /\ t.rep \in SUBSET Repeated
    BY TypedIs
  <2>2. rep \in SUBSET Repeated
    BY <1>2, <2>1 DEF Repeated, NONE
  <2> HIDE DEF rep
  <2>3. u \in State /\ u.o = t.o /\ u.count = t.count /\ u.out = t.out
    BY <2>1, <2>2 DEF State
  <2>4. repeatTap(t, key) = u
    BY <1>2 DEF repeatTap, rep
  <2> HIDE DEF u
  <2>5. u \in Typed
    BY <2>3, TypedIs DEF Typed
  <2>6. QED
    BY <2>3, <2>4, <2>5, CalmSame
<1>3. QED
  BY <1>1, <1>2

LEMMA TapCalm ==
  ASSUME NEW t \in Typed, NEW to, to.key \in ConsumerKeys \cup {NONE}
  PROVE  Calm(t, tapConsumer(t, to))
<1> DEFINE key == to.key
           a == withFlags(t, to.flags)
           b == FireConsumer(a, key, TRUE)
           c == FireConsumer(b, key, FALSE)
           d == repeatTap(c, key)
           e == withoutFlags(d, to.flags)
<1>1. Calm(t, a) /\ a \in Typed
  BY FlagsCalm DEF Calm
<1> HIDE DEF a
<1>2. Calm(a, b) /\ b \in Typed
  <2>1. Calm(a, b)
    BY <1>1, FireConsumerCalm, Zenon
  <2>2. QED
    BY <2>1 DEF Calm
<1> HIDE DEF b
<1>3. Calm(b, c) /\ c \in Typed
  <2>1. Calm(b, c)
    BY <1>2, FireConsumerCalm, Zenon
  <2>2. QED
    BY <2>1 DEF Calm
<1> HIDE DEF c
<1>4. Calm(c, d) /\ d \in Typed
  BY <1>3, RepeatTapCalm DEF Calm
<1> HIDE DEF d
<1>5. Calm(d, e)
  BY <1>4, FlagsCalm
<1>6. Calm(t, e)
  BY <1>1, <1>2, <1>3, <1>4, <1>5, CalmTrans
<1>7. QED
  BY <1>6 DEF e, d, c, b, a, tapConsumer

LEMMA ScrollCalm ==
  ASSUME NEW t \in Typed, NEW r, r.fromFlags \in SUBSET ModifierFlags, NEW choice \in Choice
  PROVE  Calm(t, cancelScroll(t)) /\ Calm(t, toscroll(t, r, choice))
<1>1. t \in State /\ t.scroll \in Seq({0, 1}) /\ choice.delta \in {0, 1} /\ t.o \in Output
  BY TypedIs DEF Choice
<1>2. cancelScroll(t) \in State
  <2>1. << >> \in Seq({0, 1})
    OBVIOUS
  <2>2. QED
    BY <1>1, <2>1 DEF cancelScroll, State
<1> DEFINE q == Append(IF choice.fresh THEN << >> ELSE t.scroll, choice.delta)
<1>3. q \in Seq({0, 1})
  BY <1>1
<1>4. toscroll(t, r, choice) = [t EXCEPT !.scroll = q, !.scrollFlags = r.fromFlags, !.scrolling = TRUE]
  BY DEF toscroll
<1> HIDE DEF q
<1> DEFINE u == toscroll(t, r, choice)
           v == cancelScroll(t)
<1>5. u \in State /\ u.o = t.o /\ u.count = t.count /\ u.out = t.out
  BY <1>1, <1>3, <1>4 DEF State
<1>6. v \in State /\ v.o = t.o /\ v.count = t.count /\ v.out = t.out
  BY <1>1, <1>2 DEF State, cancelScroll
<1> HIDE DEF u, v
<1>7. u \in Typed /\ v \in Typed
  BY <1>1, <1>5, <1>6 DEF Typed
<1>8. Calm(t, u) /\ Calm(t, v)
  BY <1>5, <1>6, <1>7, CalmSame
<1>9. QED
  BY <1>8 DEF u, v

LEMMA HeldCalm ==
  ASSUME NEW t \in Typed
  PROVE  /\ \A n \in Int : Calm(t, [t EXCEPT !.held = n])
         /\ \A active \in [DOMAIN rules -> BOOLEAN] : Calm(t, [t EXCEPT !.active = active])
<1>1. t \in State /\ t.o \in Output
  BY TypedIs
<1>2. ASSUME NEW n \in Int PROVE Calm(t, [t EXCEPT !.held = n])
  <2> DEFINE u == [t EXCEPT !.held = n]
  <2>1. u \in State /\ u.o = t.o /\ u.count = t.count /\ u.out = t.out
    BY <1>1, HeldIs
  <2> HIDE DEF u
  <2>2. u \in Typed
    BY <1>1, <2>1 DEF Typed
  <2>3. Calm(t, u)
    BY <2>1, <2>2, CalmSame
  <2>4. QED
    BY <2>3 DEF u
<1>3. ASSUME NEW active \in [DOMAIN rules -> BOOLEAN] PROVE Calm(t, [t EXCEPT !.active = active])
  <2> DEFINE u == [t EXCEPT !.active = active]
  <2>1. u \in State /\ u.o = t.o /\ u.count = t.count /\ u.out = t.out
    BY <1>1 DEF State
  <2> HIDE DEF u
  <2>2. u \in Typed
    BY <1>1, <2>1 DEF Typed
  <2>3. Calm(t, u)
    BY <2>1, <2>2, CalmSame
  <2>4. QED
    BY <2>3 DEF u
<1>4. QED
  BY <1>2, <1>3

LEMMA TapsCalm ==
  ASSUME NEW t \in Typed, NEW to, Tappable(to)
  PROVE  Calm(t, tapConsumers(t, to))
<1> DEFINE X == {u \in Typed : Calm(t, u)}
<1>1. t \in X
  BY CalmSelf
<1>2. ASSUME NEW p \in X, NEW m \in 1 .. Len(to) PROVE tapConsumer(p, to[m]) \in X
  <2>1. Calm(t, p) /\ p \in Typed /\ to[m].key \in ConsumerKeys \cup {NONE}
    BY <1>2 DEF Tappable
  <2>2. Calm(p, tapConsumer(p, to[m]))
    BY <2>1, TapCalm
  <2>3. Calm(t, tapConsumer(p, to[m]))
    BY <2>1, <2>2, CalmTrans
  <2>4. QED
    BY <2>3 DEF Calm
<1> HIDE DEF X
<1>3. Kept(X, to)
  BY <1>2 DEF Kept, Tappable
<1>4. tapConsumers(t, to) \in X
  BY <1>1, <1>3, TapsIn
<1>5. QED
  BY <1>4 DEF X

LEMMA StartTapsCalm ==
  ASSUME NEW t \in Typed, NEW i \in DOMAIN rules
  PROVE  Calm(t, startTaps(t, i))
<1>1. CASE ~rules[i].repeat
  BY <1>1, CalmSelf DEF startTaps
<1>2. CASE rules[i].repeat
  <2> DEFINE u == [t EXCEPT !.repeating = TRUE, !.owner = i]
  <2>1. t \in State /\ t.o \in Output
    BY TypedIs
  <2>2. u \in State /\ u.o = t.o /\ u.count = t.count /\ u.out = t.out
    BY <2>1 DEF State
  <2>3. startTaps(t, i) = u
    BY <1>2 DEF startTaps
  <2> HIDE DEF u
  <2>4. u \in Typed
    BY <2>1, <2>2 DEF Typed
  <2>5. QED
    BY <2>2, <2>3, <2>4, CalmSame
<1>3. QED
  BY <1>1, <1>2

LEMMA ToConsumersCalm ==
  ASSUME setting \in Settings, NEW t \in Typed, NEW i \in DOMAIN rules, NEW down \in BOOLEAN,
         rules[i].kind \in {"KeyToConsumer", "ConsumerToConsumer"}
  PROVE  Calm(t, toConsumers(t, i, down))
<1> SUFFICES ASSUME NEW x, x = toConsumers(t, i, down)
             PROVE  Calm(t, x)
  OBVIOUS
<1> DEFINE r == rules[i]
           to == r.to
<1>1. /\ Len(to) \in Nat /\ \A n \in 1 .. Len(to) : to[n].key \in ConsumerKeys \cup {NONE}
  BY RuleMakes DEF Makes, targetsOf
<1>2. \/ x = t
      \/ Len(to) = 1 /\ x = toConsumer(withFlags(t, to[1].flags), r, to[1], down)
      \/ x = startTaps(tapConsumers(repeatCancel(t), to), i)
      \/ x = repeatCancel(t)
  <2>1. CASE Len(to) = 0
    BY <2>1 DEF toConsumers
  <2>2. CASE Len(to) = 1
    BY <2>2 DEF toConsumers
  <2> DEFINE n == Len(to)
  <2>3. n \in Nat
    BY <1>1
  <2> HIDE DEF n
  <2>4. n = 0 \/ n = 1 \/ (n > 1 /\ n # 0 /\ n # 1)
    BY <2>3
  <2>5. CASE n > 1 /\ n # 0 /\ n # 1
    BY <2>5 DEF toConsumers, n
  <2>6. QED
    BY <2>1, <2>2, <2>4, <2>5 DEF n
<1>3. Calm(t, repeatCancel(t)) /\ repeatCancel(t) \in Typed
  BY RepeatCalm DEF Calm
<1> HIDE DEF to, r
<1>4. CASE Len(to) = 1 /\ x = toConsumer(withFlags(t, to[1].flags), r, to[1], down)
  <2> DEFINE u == withFlags(t, to[1].flags)
             key == to[1].key
             v == IF down /\ ~r.repeat THEN repeatCancel(u) ELSE repeatConsumer(u, key, down)
  <2>1. Calm(t, u) /\ u \in Typed
    BY FlagsCalm DEF Calm
  <2>2. key \in ConsumerKeys \cup {NONE}
    BY <1>1, <1>4
  <2>3. x = FireConsumer(v, key, down)
    BY <1>4 DEF toConsumer
  <2> HIDE DEF u, key
  <2>4. Calm(u, repeatCancel(u)) /\ Calm(u, repeatConsumer(u, key, down))
    BY <2>1, <2>2, RepeatCalm, RepeatConsumerCalm
  <2>5. v = repeatCancel(u) \/ v = repeatConsumer(u, key, down)
    OBVIOUS
  <2>6. Calm(u, v) /\ v \in Typed
    BY <2>4, <2>5 DEF Calm
  <2> HIDE DEF v
  <2>7. Calm(v, x)
    BY <2>2, <2>3, <2>6, FireConsumerCalm
  <2>8. QED
    BY <2>1, <2>6, <2>7, CalmTrans
<1>5. CASE x = startTaps(tapConsumers(repeatCancel(t), to), i)
  <2> DEFINE u == repeatCancel(t)
             v == tapConsumers(u, to)
  <2>1. Calm(t, u) /\ u \in Typed
    BY <1>3
  <2> HIDE DEF u
  <2>2. Calm(u, v) /\ v \in Typed
    BY <1>1, <2>1, TapsCalm DEF Calm, Tappable
  <2>3. x = startTaps(v, i)
    BY <1>5 DEF u
  <2> HIDE DEF v
  <2>4. Calm(v, x)
    BY <2>2, <2>3, StartTapsCalm
  <2>5. QED
    BY <2>1, <2>2, <2>4, CalmTrans
<1>6. QED
  BY <1>2, <1>3, <1>4, <1>5, CalmSelf

\* What is turned back when it comes up.
Sign(down, n) == IF down THEN n ELSE 0 - n

LEMMA SignIs ==
  ASSUME NEW down \in BOOLEAN, NEW m \in Int, NEW n \in Int
  PROVE  /\ Sign(down, m) \in Int /\ Sign(down, 0) = 0
         /\ Sign(down, m) + Sign(down, n) = Sign(down, m + n)
         /\ Sign(down, 0 - m) = IF down THEN 0 - m ELSE m
  BY DEF Sign

LEMMA ConsumersTurn ==
  ASSUME setting \in Settings, NEW t \in Typed, NEW i \in DOMAIN rules, NEW down \in BOOLEAN,
         rules[i].kind \in {"KeyToConsumer", "ConsumerToConsumer"}, NEW x \in Gauges
  PROVE  /\ Calm(t, ConsumerToConsumer(t, i, down))
         /\ Turns(t, KeyToConsumer(t, i, down), x, Sign(down, 0 - Flag(x, modifierOf(rules[i].from))))
<1>1. ASSUME NEW u \in Typed PROVE Calm(u, ConsumerToConsumer(u, i, down))
  <2> DEFINE v == withoutFlags(u, rules[i].fromFlags)
  <2>1. Calm(u, v) /\ v \in Typed
    BY FlagsCalm DEF Calm
  <2> HIDE DEF v
  <2>2. Calm(v, toConsumers(v, i, down))
    BY <2>1, ToConsumersCalm
  <2>3. Calm(u, toConsumers(v, i, down))
    BY <2>1, <2>2, CalmTrans
  <2>4. QED
    BY <2>3 DEF ConsumerToConsumer, v
<1> DEFINE mods == modifierOf(rules[i].from)
           u == dropFromKey(t, rules[i], down)
           n == Flag(x, mods)
<1>2. Turns(t, u, x, Sign(down, 0 - n)) /\ u \in Typed
  <2>1. n \in Int
    BY LevelsAre
  <2>2. /\ Turns(t, withFs(t, increase(t.o.fs, mods)), x, n)
        /\ Turns(t, withFs(t, decrease(t.o.fs, mods)), x, 0 - n)
    BY FlagsTurn
  <2> HIDE DEF n
  <2>3. Sign(down, 0 - n) = IF down THEN 0 - n ELSE n
    BY <2>1, SignIs
  <2> HIDE DEF mods
  <2>4. u = IF down THEN withFs(t, decrease(t.o.fs, mods)) ELSE withFs(t, increase(t.o.fs, mods))
    BY DEF dropFromKey, mods
  <2> HIDE DEF u
  <2>5. Turns(t, u, x, Sign(down, 0 - n))
    BY <2>2, <2>3, <2>4
  <2>6. QED
    BY <2>5 DEF Turns, Shifts
<1> HIDE DEF u
<1>3. Calm(u, ConsumerToConsumer(u, i, down))
  BY <1>1, <1>2
<1>4. Turns(t, ConsumerToConsumer(u, i, down), x, Sign(down, 0 - n))
  BY <1>2, <1>3, TurnsCalm
<1>5. QED
  BY <1>1, <1>4 DEF KeyToConsumer, u

LEMMA BothCounts ==
  ASSUME NEW fs \in Unlocked, NEW f \in ModifierFlags \ {CAPSLOCK}, NEW a, NEW b
  PROVE  /\ decrease(increase(fs, a), b)[f].count = fs[f].count + (In(f, a) - In(f, b))
         /\ increase(decrease(fs, a), b)[f].count = fs[f].count + (0 - (In(f, a) - In(f, b)))
<1>1. fs \in FlagStatusItems /\ fs[f].count \in Int
  BY DEF Unlocked, FlagStatusItems, Item
<1> DEFINE up == increase(fs, a)
           dn == decrease(fs, a)
<1>2. up \in FlagStatusItems /\ dn \in FlagStatusItems
  BY UnlockedKept DEF Unlocked
<1>3. up[f].count = fs[f].count + In(f, a) /\ dn[f].count = fs[f].count - In(f, a)
  BY <1>1, ItemCounts
<1> HIDE DEF up, dn
<1>4. /\ decrease(up, b)[f].count = up[f].count - In(f, b)
      /\ increase(dn, b)[f].count = dn[f].count + In(f, b)
  BY <1>2, ItemCounts
<1>5. In(f, a) \in Int /\ In(f, b) \in Int
  BY DEF In
<1>6. QED
  BY <1>1, <1>3, <1>4, <1>5 DEF up, dn

\* What a rule to a modifier turns on less what it turns off.
Turned(i, x) ==
  IF toModifier(i)
  THEN Flag(x, rules[i].to[1].flags \cup {rules[i].to[1].key}) - Flag(x, rules[i].fromFlags)
  ELSE 0

LEMMA ToKeyTurns ==
  ASSUME setting \in Settings, NEW t \in Typed, NEW i \in DOMAIN rules, NEW down \in BOOLEAN,
         rules[i].kind \in {"ConsumerToKey", "PointingButtonToKey"}, NEW x \in Gauges
  PROVE  Turns(t, toKey(t, rules[i], down), x, Sign(down, Turned(i, x)))
<1> DEFINE r == rules[i]
           to == r.to[1]
           key == to.key
           on == to.flags \cup {key}
           off == r.fromFlags
           fs == IF key \notin ModifierFlags
                 THEN temporary_increase(temporary_decrease(t.o.fs, off), to.flags)
                 ELSE IF down THEN decrease(increase(t.o.fs, on), off)
                      ELSE increase(decrease(t.o.fs, on), off)
           n == Sign(down, Turned(i, x))
<1>1. key \in Sendable
  BY RuleMakes DEF Makes, targetsOf, fromType, Sendable, NONE
<1>2. t.o.fs \in Unlocked /\ t.o.fs \in FlagStatusItems
  BY TypedIs, OutputIs
<1>3. fs \in Unlocked
  BY <1>2, UnlockedKept
<1>4. toKey(t, r, down)
        = sendKey(IF down /\ ~r.repeat THEN repeatCancel(withFs(t, fs))
                  ELSE repeatKey(withFs(t, fs), key, down), key, down)
  BY DEF toKey
<1>5. toModifier(i) <=> key \in ModifierFlags
  BY DEF toModifier
<1>6. Turns(t, withFs(t, fs), x, n)
  <2>1. CASE key \notin ModifierFlags
    <3>1. n = 0
      BY <1>5, <2>1 DEF Sign, Turned
    <3>2. \A f \in ModifierFlags \ {CAPSLOCK} : fs[f].count = t.o.fs[f].count
      <4> DEFINE low == temporary_decrease(t.o.fs, off)
      <4>1. low \in FlagStatusItems
        BY <1>2, UnlockedKept DEF Unlocked
      <4>2. \A f \in ModifierFlags \ {CAPSLOCK} : low[f].count = t.o.fs[f].count
        BY <1>2, CountsKept
      <4> HIDE DEF low
      <4>3. \A f \in ModifierFlags \ {CAPSLOCK} :
              temporary_increase(low, to.flags)[f].count = low[f].count
        BY <4>1, CountsKept
      <4>4. fs = temporary_increase(low, to.flags)
        BY <2>1 DEF low
      <4>5. QED
        BY <4>2, <4>3, <4>4
    <3> HIDE DEF fs, n
    <3>3. Calm(t, withFs(t, fs))
      BY <1>3, <3>2, FsCalm
    <3>4. QED
      BY <3>1, <3>3, CalmTurns
  <2>2. CASE key \in ModifierFlags
    <3> DEFINE m == Flag(x, on) - Flag(x, off)
    <3>1. n = Sign(down, m)
      BY <1>5, <2>2 DEF Turned
    <3>2. fs = IF down THEN decrease(increase(t.o.fs, on), off)
               ELSE increase(decrease(t.o.fs, on), off)
      BY <2>2
    <3>3. Flag(x, on) \in Int /\ Flag(x, off) \in Int
      BY LevelsAre
    <3>4. x[1] = "button" => Flag(x, on) = 0 /\ Flag(x, off) = 0
      BY DEF Flag
    <3>5. ASSUME x[1] = "key" PROVE fs[x[2]].count = t.o.fs[x[2]].count + n
      <4>1. x[2] \in ModifierFlags \ {CAPSLOCK}
        BY <3>5, GaugeIs
      <4>2. m = In(x[2], on) - In(x[2], off)
        BY <3>5 DEF Flag
      <4> HIDE DEF on, off, n, fs
      <4>3. /\ decrease(increase(t.o.fs, on), off)[x[2]].count
                 = t.o.fs[x[2]].count + (In(x[2], on) - In(x[2], off))
            /\ increase(decrease(t.o.fs, on), off)[x[2]].count
                 = t.o.fs[x[2]].count + (0 - (In(x[2], on) - In(x[2], off)))
        BY <1>2, <4>1, BothCounts
      <4> HIDE DEF m
      <4>4. QED
        BY <3>1, <3>2, <4>2, <4>3 DEF Sign
    <3> HIDE DEF fs, n, on, off
    <3>6. x[1] = "button" => n = 0
      BY <3>1, <3>3, <3>4 DEF Sign
    <3>7. n \in Int
      BY <3>1, <3>3, SignIs
    <3>8. QED
      BY <1>3, <3>5, <3>6, <3>7, FsTurns
  <2>3. QED
    BY <2>1, <2>2
<1> DEFINE u == withFs(t, fs)
           v == IF down /\ ~r.repeat THEN repeatCancel(u) ELSE repeatKey(u, key, down)
<1>7. Turns(t, u, x, n) /\ u \in Typed
  BY <1>6 DEF Turns, Shifts
<1>8. toKey(t, r, down) = sendKey(v, key, down)
  BY <1>4
<1> HIDE DEF fs, u, key, n, r
<1>9. Calm(u, repeatCancel(u)) /\ Calm(u, repeatKey(u, key, down))
  BY <1>1, <1>7, RepeatCalm, RepeatKeyCalm
<1>10. v = repeatCancel(u) \/ v = repeatKey(u, key, down)
  OBVIOUS
<1>11. Calm(u, v) /\ v \in Typed
  BY <1>9, <1>10 DEF Calm
<1> HIDE DEF v
<1>12. Calm(v, sendKey(v, key, down))
  BY <1>1, <1>11, SendCalm
<1>13. Turns(t, sendKey(v, key, down), x, n)
  BY <1>7, <1>11, <1>12, TurnsCalm
<1>14. QED
  BY <1>8, <1>13 DEF n, r

\* What reports nothing, or a move with the buttons as they are, or ends with a report
\* of the buttons that are pressed now.
Speaks(t, u) ==
  \/ Spoken(u)
  \/ /\ makeButtons(u) = makeButtons(t)
     /\ u.out = t.out \/ u.out = Append(t.out, [buttons |-> makeButtons(t), move |-> TRUE])

Quiet(t, u) == u.out = t.out /\ makeButtons(u) = makeButtons(t)

LEMMA QuietSpeaks ==
  ASSUME NEW t, NEW u, NEW v
  PROVE  /\ Quiet(t, u) => Speaks(t, u)
         /\ Quiet(t, u) /\ Spoken(t) => Spoken(u)
         /\ Quiet(t, u) /\ Speaks(u, v) => Speaks(t, v)
         /\ Speaks(t, u) /\ Quiet(u, v) => Speaks(t, v)
  BY DEF Quiet, Speaks, Spoken

LEMMA CalmQuiet ==
  ASSUME NEW t, NEW u, Calm(t, u)
  PROVE  Quiet(t, u)
  BY SpokenCalm DEF Calm, Quiet

LEMMA FsQuiet ==
  ASSUME NEW t \in Typed, NEW fs \in Unlocked
  PROVE  Quiet(t, withFs(t, fs)) /\ withFs(t, fs) \in Typed
<1> DEFINE u == withFs(t, fs)
<1>1. u \in Typed /\ u.out = t.out /\ u.count = t.count
  BY WithFsIs
<1> HIDE DEF u
<1>2. Quiet(t, u)
  BY <1>1 DEF Quiet, makeButtons
<1>3. QED
  BY <1>1, <1>2 DEF u

\* One count has changed, and the pressed buttons have been reported.
Tells(t, u, x, n) == Shifts(t, u, x, n) /\ Spoken(u)

LEMMA TellsCalm ==
  ASSUME NEW t \in Typed, NEW u, NEW v, NEW x \in Gauges, NEW m \in Int, NEW n \in Int
  PROVE  /\ Shifts(t, u, x, m) /\ Tells(u, v, x, n) => Tells(t, v, x, m + n)
         /\ Tells(t, u, x, n) /\ Calm(u, v) => Tells(t, v, x, n)
  BY ShiftsTrans, TurnsCalm, SpokenCalm DEF Tells

LEMMA TellsTrans ==
  ASSUME NEW t \in Typed, NEW u, NEW v, NEW x \in Gauges, NEW m \in Int, NEW n \in Int,
         NEW k, k = m + n, Tells(t, u, x, m), Tells(u, v, x, n)
  PROVE  Tells(t, v, x, k)
<1>1. Tells(t, v, x, m + n)
  BY TellsCalm DEF Tells
<1>2. QED
  BY <1>1

LEMMA TurnsShifts ==
  ASSUME NEW t, NEW u, NEW x, NEW n, Turns(t, u, x, n)
  PROVE  Shifts(t, u, x, n) /\ u \in Typed
  BY DEF Turns, Shifts

\* A button counted one way or the other, and then reported.
LEMMA PressTells ==
  ASSUME NEW t \in Typed, NEW b \in Buttons, NEW n \in Int, NEW x \in Gauges
  PROVE  Tells(t, firePointer(plus(t, b, n), FALSE), x, IF x = <<"button", b>> THEN n ELSE 0)
<1> DEFINE u == plus(t, b, n)
           v == firePointer(u, FALSE)
           m == IF x = <<"button", b>> THEN n ELSE 0
<1>1. Shifts(t, u, x, m) /\ u \in Typed
  BY PlusTurns, TurnsShifts
<1>2. m \in Int
  OBVIOUS
<1> HIDE DEF u, m
<1>3. Shifts(u, v, x, 0)
  BY <1>1, PointerTurns
<1>4. Reported(u, v, FALSE)
  BY <1>1, FirePointerIs
<1>5. Spoken(v)
  BY <1>1, <1>4, ReportedSpoken
<1> HIDE DEF v
<1>6. Tells(u, v, x, 0)
  BY <1>3, <1>5 DEF Tells
<1>7. Tells(t, v, x, m + 0)
  BY <1>1, <1>2, <1>6, TellsCalm
<1>8. m + 0 = m
  BY <1>2
<1>9. QED
  BY <1>7, <1>8 DEF v, u, m

LEMMA ClickTells ==
  ASSUME NEW t \in Typed, NEW to, to.key \in Buttons, NEW x \in Gauges
  PROVE  Tells(t, click(t, to), x, 0) /\ click(t, to) \in Typed
<1> DEFINE u == withFlags(t, to.flags)
           v == firePointer(plus(u, to.key, 1), FALSE)
           w == firePointer(plus(v, to.key, -1), FALSE)
           y == withoutFlags(w, to.flags)
           m == IF x = <<"button", to.key>> THEN 1 ELSE 0
           n == IF x = <<"button", to.key>> THEN -1 ELSE 0
<1>1. Calm(t, u) /\ u \in Typed
  BY FlagsCalm DEF Calm
<1> HIDE DEF u
<1>2. Tells(u, v, x, m) /\ v \in Typed
  <2>1. 1 \in Int
    OBVIOUS
  <2>2. Tells(u, v, x, m)
    BY <1>1, <2>1, PressTells
  <2>3. QED
    BY <2>2 DEF Tells, Shifts
<1> HIDE DEF v
<1>3. Tells(v, w, x, n) /\ w \in Typed
  <2>1. -1 \in Int
    OBVIOUS
  <2>2. Tells(v, w, x, n)
    BY <1>2, <2>1, PressTells
  <2>3. QED
    BY <2>2 DEF Tells, Shifts
<1> HIDE DEF w
<1>4. m \in Int /\ n \in Int /\ m + n = 0
  OBVIOUS
<1> HIDE DEF m, n
<1>5. Tells(u, w, x, 0)
  <2>1. Tells(u, w, x, m + n)
    BY <1>1, <1>2, <1>3, <1>4, TellsCalm DEF Tells
  <2>2. QED
    BY <1>4, <2>1
<1>6. Calm(w, y)
  BY <1>3, FlagsCalm
<1> HIDE DEF y
<1>7. Tells(u, y, x, 0)
  BY <1>1, <1>5, <1>6, TellsCalm
<1>8. Tells(t, y, x, 0)
  BY <1>1, <1>7, TurnsCalm DEF Tells
<1>9. y \in Typed
  BY <1>6 DEF Calm
<1>10. click(t, to) = y
  BY DEF click, y, w, v, u
<1>11. QED
  BY <1>8, <1>9, <1>10

LEMMA ClicksTell ==
  ASSUME NEW t \in Typed, NEW to, Buttoned(to), Len(to) = 2, NEW x \in Gauges
  PROVE  Tells(t, click(click(t, to[1]), to[2]), x, 0)
<1> DEFINE a == to[1]
           b == to[2]
<1>1. a.key \in Buttons /\ b.key \in Buttons
  BY DEF Buttoned
<1> HIDE DEF a, b
<1>2. Tells(t, click(t, a), x, 0) /\ click(t, a) \in Typed
  BY <1>1, ClickTells
<1>3. Tells(click(t, a), click(click(t, a), b), x, 0)
  BY <1>1, <1>2, ClickTells
<1> DEFINE u == click(t, a)
           v == click(u, b)
<1> HIDE DEF u, v
<1>4. Tells(t, v, x, 0)
  <2>1. 0 \in Int /\ 0 = 0 + 0
    OBVIOUS
  <2>2. Tells(t, u, x, 0) /\ Tells(u, v, x, 0)
    BY <1>2, <1>3 DEF u, v
  <2>3. QED
    BY <2>1, <2>2, TellsTrans
<1>5. QED
  BY <1>4 DEF a, b, u, v

\* The first target of a rule that has no other.
Pressed(to, x) == IF Len(to) = 1 THEN Button(x, to[1].key) + Flag(x, to[1].flags) ELSE 0

LEMMA ToButtonsTurn ==
  ASSUME NEW t \in Typed, NEW to, Buttoned(to), NEW down \in BOOLEAN, NEW x \in Gauges
  PROVE  /\ Shifts(t, toButtons(t, to, down), x, Sign(down, Pressed(to, x)))
         /\ Spoken(toButtons(t, to, down)) \/ Calm(t, toButtons(t, to, down))
<1> SUFFICES ASSUME NEW v, v = toButtons(t, to, down)
             PROVE  Shifts(t, v, x, Sign(down, Pressed(to, x))) /\ (Spoken(v) \/ Calm(t, v))
  OBVIOUS
<1>1. CASE Len(to) = 1
  <2> DEFINE key == to[1].key
             mods == to[1].flags
             n == IF down THEN 1 ELSE -1
             fs == IF down THEN increase(t.o.fs, mods) ELSE decrease(t.o.fs, mods)
             u == withFs(t, fs)
             a == Flag(x, mods)
             b == Button(x, key)
             m == IF x = <<"button", key>> THEN n ELSE 0
  <2>1. key \in Buttons
    BY <1>1 DEF Buttoned
  <2>2. v = firePointer(plus(u, key, n), FALSE)
    BY <1>1 DEF toButtons
  <2>3. a \in Int /\ b \in Int /\ n \in Int /\ m \in Int
    BY LevelsAre
  <2>4. m = IF down THEN b ELSE 0 - b
    BY DEF Button
  <2>5. Turns(t, u, x, Sign(down, a))
    <3>1. /\ Turns(t, withFs(t, increase(t.o.fs, mods)), x, a)
          /\ Turns(t, withFs(t, decrease(t.o.fs, mods)), x, 0 - a)
      BY FlagsTurn
    <3> HIDE DEF a
    <3>2. CASE down
      BY <3>1, <3>2 DEF Sign
    <3>3. CASE ~down
      BY <3>1, <3>3 DEF Sign
    <3>4. QED
      BY <3>2, <3>3
  <2>6. Shifts(t, u, x, Sign(down, a)) /\ u \in Typed
    BY <2>5, TurnsShifts
  <2>7. Pressed(to, x) = b + a
    BY <1>1 DEF Pressed
  <2> HIDE DEF key, n, fs, u, a, b
  <2>8. Tells(u, v, x, m)
    BY <2>1, <2>2, <2>3, <2>6, PressTells
  <2> HIDE DEF m
  <2>9. Sign(down, a) \in Int /\ Sign(down, a) + m = Sign(down, b + a)
    BY <2>3, <2>4 DEF Sign
  <2>10. Tells(t, v, x, Sign(down, a) + m)
    BY <2>3, <2>6, <2>8, <2>9, TellsCalm
  <2>11. QED
    BY <2>7, <2>9, <2>10 DEF Tells
<1>2. CASE Len(to) = 2 /\ down
  <2>1. v = click(click(t, to[1]), to[2])
    BY <1>2 DEF toButtons
  <2>2. Tells(t, v, x, 0)
    BY <1>2, <2>1, ClicksTell
  <2>3. Sign(down, Pressed(to, x)) = 0
    BY <1>2 DEF Pressed, Sign
  <2>4. QED
    BY <2>2, <2>3 DEF Tells
<1>3. CASE Len(to) # 1 /\ ~(Len(to) = 2 /\ down)
  <2>1. v = t
    BY <1>3 DEF toButtons
  <2>2. Sign(down, Pressed(to, x)) = 0
    BY <1>3 DEF Pressed, Sign
  <2>3. Calm(t, t)
    BY CalmSelf
  <2>4. Shifts(t, t, x, 0)
    BY <2>3, CalmTurns, TurnsShifts
  <2>5. QED
    BY <2>1, <2>2, <2>3, <2>4
<1>4. QED
  BY <1>1, <1>2, <1>3

LEMMA KeyToButtonTurns ==
  ASSUME setting \in Settings, NEW t \in Typed, NEW i \in DOMAIN rules, NEW down \in BOOLEAN,
         rules[i].kind = "KeyToPointingButton", NEW x \in Gauges
  PROVE  LET v == KeyToPointingButton(t, i, down)
             own == rules[i].fromFlags \cup modifierOf(rules[i].from)
         IN /\ Shifts(t, v, x, Sign(down, Pressed(rules[i].to, x) - Flag(x, own)))
            /\ Speaks(t, v)
<1> DEFINE r == rules[i]
           own == r.fromFlags \cup modifierOf(r.from)
           n == Flag(x, own)
           m == Pressed(r.to, x)
           to == r.to
<1>1. Buttoned(to)
  BY ButtonRule
<1>2. n \in Int /\ m \in Int
  BY LevelsAre DEF Pressed
<1>3. \A u \in Typed : increase(u.o.fs, own) \in Unlocked /\ decrease(u.o.fs, own) \in Unlocked
  BY TypedIs, OutputIs, UnlockedKept
<1>4. ASSUME down
      PROVE  LET v == KeyToPointingButton(t, i, down)
             IN Shifts(t, v, x, m - n) /\ Speaks(t, v)
  <2> DEFINE u == hideFlags(t, own)
             v == toButtons(u, to, down)
  <2>1. Turns(t, u, x, 0 - n)
    BY ShowsTurn
  <2>2. Quiet(t, u) /\ u \in Typed
    BY <1>3, FsQuiet DEF hideFlags
  <2>3. KeyToPointingButton(t, i, down) = v
    BY <1>4 DEF KeyToPointingButton
  <2> HIDE DEF u, to
  <2>4. Shifts(u, v, x, Sign(down, m)) /\ (Spoken(v) \/ Calm(u, v))
    BY <1>1, <2>2, ToButtonsTurn DEF to
  <2> HIDE DEF v, m, n
  <2>5. Speaks(t, v)
    BY <2>2, <2>4, QuietSpeaks, CalmQuiet DEF Speaks
  <2>6. Sign(down, m) = m /\ (0 - n) + m = m - n /\ 0 - n \in Int
    BY <1>2, <1>4 DEF Sign
  <2>7. Shifts(t, v, x, (0 - n) + m)
    BY <1>2, <2>1, <2>4, <2>6, ShiftsTrans, TurnsShifts
  <2>8. QED
    BY <2>3, <2>5, <2>6, <2>7
<1>5. ASSUME ~down
      PROVE  LET v == KeyToPointingButton(t, i, down)
             IN Shifts(t, v, x, 0 - (m - n)) /\ Speaks(t, v)
  <2> DEFINE u == toButtons(t, to, down)
             w == showFlags(u, own)
             v == announce(w)
  <2>1. KeyToPointingButton(t, i, down) = v
    BY <1>5 DEF KeyToPointingButton
  <2> HIDE DEF to
  <2>2. Shifts(t, u, x, Sign(down, m)) /\ (Spoken(u) \/ Calm(t, u))
    BY <1>1, ToButtonsTurn DEF to
  <2>3. u \in Typed
    BY <2>2 DEF Shifts
  <2> HIDE DEF u
  <2>4. Turns(u, w, x, n)
    BY <2>3, ShowsTurn
  <2>5. Quiet(u, w) /\ w \in Typed
    BY <1>3, <2>3, FsQuiet DEF showFlags
  <2> HIDE DEF w, m, n
  <2>6. Calm(w, v)
    BY <2>5, AnnounceCalm
  <2> HIDE DEF v
  <2>7. Speaks(t, u)
    BY <2>2, QuietSpeaks, CalmQuiet DEF Speaks
  <2>8. Speaks(t, v)
    BY <2>5, <2>6, <2>7, QuietSpeaks, CalmQuiet
  <2>9. Sign(down, m) = 0 - m /\ (0 - m) + n = 0 - (m - n) /\ 0 - m \in Int
    BY <1>2, <1>5 DEF Sign
  <2>10. Shifts(t, w, x, (0 - m) + n)
    BY <1>2, <2>2, <2>4, <2>9, ShiftsTrans, TurnsShifts
  <2>11. QED
    BY <2>1, <2>6, <2>8, <2>9, <2>10, TurnsCalm
<1> DEFINE v == KeyToPointingButton(t, i, down)
<1>6. Speaks(t, v)
  BY <1>4, <1>5
<1>7. Shifts(t, v, x, Sign(down, m - n))
  <2> HIDE DEF v, m, n
  <2>1. CASE down
    BY <1>4, <2>1 DEF Sign, v
  <2>2. CASE ~down
    BY <1>5, <2>2 DEF Sign, v
  <2>3. QED
    BY <2>1, <2>2
<1>8. QED
  BY <1>6, <1>7

\* A button taken away from what it counts for itself.
LEMMA SourceTurns ==
  ASSUME NEW t \in Typed, NEW b \in Buttons, NEW down \in BOOLEAN, NEW x \in Gauges
  PROVE  Turns(t, plus(t, b, IF down THEN -1 ELSE 1), x, Sign(down, 0 - Button(x, b)))
<1> DEFINE n == IF down THEN -1 ELSE 1
           u == plus(t, b, n)
           m == IF x = <<"button", b>> THEN n ELSE 0
<1>1. n \in Int
  OBVIOUS
<1>2. m = Sign(down, 0 - Button(x, b))
  BY DEF Sign, Button
<1> HIDE DEF n
<1>3. Turns(t, u, x, m)
  BY <1>1, PlusTurns
<1>4. QED
  BY <1>2, <1>3 DEF u, n

LEMMA ButtonToKeyTurns ==
  ASSUME setting \in Settings, NEW t \in Typed, NEW i \in DOMAIN rules, NEW down \in BOOLEAN,
         rules[i].kind = "PointingButtonToKey", rules[i].from # NONE, NEW x \in Gauges
  PROVE  Turns(t, PointingButtonToKey(t, i, down), x,
               Sign(down, Turned(i, x) - Button(x, rules[i].from)))
<1> DEFINE b == rules[i].from
           u == plus(t, b, IF down THEN -1 ELSE 1)
           v == toKey(u, rules[i], down)
           m == Turned(i, x)
           n == Button(x, b)
<1>1. b \in Buttons
  BY ButtonRule
<1>2. m \in Int /\ n \in Int
  BY LevelsAre DEF Turned
<1>3. PointingButtonToKey(t, i, down) = v
  BY DEF PointingButtonToKey
<1> HIDE DEF b
<1>4. Turns(t, u, x, Sign(down, 0 - n)) /\ u \in Typed
  BY <1>1, SourceTurns, TurnsShifts
<1> HIDE DEF u
<1>5. Turns(u, v, x, Sign(down, m))
  BY <1>4, ToKeyTurns
<1> HIDE DEF v, m, n
<1>6. /\ Sign(down, 0 - n) \in Int /\ Sign(down, m) \in Int
      /\ Sign(down, 0 - n) + Sign(down, m) = Sign(down, m - n)
  BY <1>2 DEF Sign
<1>7. Turns(t, v, x, Sign(down, 0 - n) + Sign(down, m))
  BY <1>4, <1>5, <1>6, TurnsTrans
<1>8. QED
  BY <1>3, <1>6, <1>7 DEF m, n, b

\* What a drag presses.
Dragged(to, x) == IF Len(to) = 1 THEN Button(x, to[1].key) ELSE 0

LEMMA SwapTurns ==
  ASSUME NEW t \in Typed, NEW r, r.from \in Buttons, Buttoned(r.to), NEW down \in BOOLEAN,
         NEW x \in Gauges
  PROVE  Turns(t, swapButtons(t, r, down), x, Sign(down, Dragged(r.to, x) - Button(x, r.from)))
<1> DEFINE n == IF down THEN -1 ELSE 1
           u == plus(t, r.from, n)
           v == swapButtons(t, r, down)
           b == Button(x, r.from)
<1>1. Turns(t, u, x, Sign(down, 0 - b)) /\ u \in Typed
  BY SourceTurns, TurnsShifts
<1>2. b \in Int
  BY LevelsAre
<1>3. CASE Len(r.to) = 1
  <2> DEFINE key == r.to[1].key
             k == IF down THEN 1 ELSE -1
             c == Button(x, key)
             m == IF x = <<"button", key>> THEN k ELSE 0
  <2>1. key \in Buttons /\ Dragged(r.to, x) = c
    BY <1>3 DEF Buttoned, Dragged
  <2>2. k = -n /\ k \in Int /\ c \in Int /\ m \in Int
    BY LevelsAre
  <2>3. v = plus(u, key, k)
    BY <1>3, <2>2 DEF swapButtons
  <2>4. m = Sign(down, c)
    BY DEF Button, Sign
  <2> HIDE DEF u, k, key
  <2>5. Turns(u, v, x, m)
    BY <1>1, <2>1, <2>2, <2>3, PlusTurns
  <2> HIDE DEF v, b, c, m
  <2>6. Sign(down, 0 - b) \in Int /\ Sign(down, 0 - b) + Sign(down, c) = Sign(down, c - b)
    BY <1>2, <2>2 DEF Sign
  <2>7. Turns(t, v, x, Sign(down, 0 - b) + m)
    BY <1>1, <2>2, <2>5, <2>6, TurnsTrans
  <2>8. QED
    BY <2>1, <2>4, <2>6, <2>7 DEF v, b
<1>4. CASE Len(r.to) # 1
  <2>1. v = u
    BY <1>4 DEF swapButtons
  <2>2. Dragged(r.to, x) - b = 0 - b
    BY <1>4 DEF Dragged
  <2>3. QED
    BY <1>1, <2>1, <2>2
<1>5. QED
  BY <1>3, <1>4

LEMMA ShiftsStill ==
  ASSUME NEW t \in Typed, NEW u, NEW v, NEW x \in Gauges, NEW n \in Int
  PROVE  /\ Shifts(t, u, x, n) /\ Shifts(u, v, x, 0) => Shifts(t, v, x, n)
         /\ Shifts(t, u, x, 0) /\ Shifts(u, v, x, n) => Shifts(t, v, x, n)
<1>1. Level(t, x) \in Int
  BY LevelType
<1>2. QED
  BY <1>1 DEF Shifts

\* What a drag says: the buttons, or that the pointer moved.
DragSays(t, v, to, e) ==
  /\ Len(to) \notin {1, 2} => Calm(t, v)
  /\ Len(to) \in {1, 2} => Spoken(v) \/ (e.type = "move" /\ Speaks(t, v))

LEMMA MoveSays ==
  ASSUME NEW t \in Typed, NEW e, NEW x \in Gauges
  PROVE  LET u == firePointer(t, e.type = "move")
         IN Shifts(t, u, x, 0) /\ (Spoken(u) \/ (e.type = "move" /\ Speaks(t, u)))
<1> DEFINE move == e.type = "move"
           u == firePointer(t, move)
<1>1. move \in BOOLEAN
  OBVIOUS
<1> HIDE DEF move
<1>2. Shifts(t, u, x, 0) /\ Reported(t, u, move)
  BY <1>1, PointerTurns, FirePointerIs
<1> HIDE DEF u
<1>3. CASE move = TRUE
  BY <1>2, <1>3 DEF Reported, Speaks, move, u
<1>4. CASE move = FALSE
  BY <1>2, <1>4, ReportedSpoken DEF u, move
<1>5. QED
  BY <1>1, <1>3, <1>4

LEMMA DraggedTurns ==
  ASSUME NEW t \in Typed, NEW to, Buttoned(to), NEW e, e.down \in BOOLEAN, NEW x \in Gauges
  PROVE  Shifts(t, dragged(t, to, e), x, 0) /\ DragSays(t, dragged(t, to, e), to, e)
<1> SUFFICES ASSUME NEW v, v = dragged(t, to, e)
             PROVE  Shifts(t, v, x, 0) /\ DragSays(t, v, to, e)
  OBVIOUS
<1>1. CASE Len(to) = 1
  <2> DEFINE mods == to[1].flags
             u == withFlags(t, mods)
             w == firePointer(u, e.type = "move")
             y == withoutFlags(w, mods)
  <2>1. v = y
    BY <1>1 DEF dragged
  <2> HIDE DEF mods
  <2>2. Calm(t, u) /\ u \in Typed
    BY FlagsCalm DEF Calm
  <2> HIDE DEF u
  <2>3. Shifts(u, w, x, 0) /\ (Spoken(w) \/ (e.type = "move" /\ Speaks(u, w)))
    BY <2>2, MoveSays
  <2>4. w \in Typed
    BY <2>3 DEF Shifts
  <2> HIDE DEF w
  <2>5. Calm(w, y)
    BY <2>4, FlagsCalm
  <2> HIDE DEF y
  <2>6. Shifts(t, y, x, 0)
    BY <2>2, <2>3, <2>5, TurnsCalm
  <2>7. Spoken(y) \/ (e.type = "move" /\ Speaks(t, y))
    BY <2>2, <2>3, <2>5, QuietSpeaks, CalmQuiet
  <2>8. QED
    BY <1>1, <2>1, <2>6, <2>7 DEF DragSays
<1>2. CASE Len(to) = 2 /\ ~e.down
  <2>1. v = firePointer(t, e.type = "move")
    BY <1>2 DEF dragged
  <2>2. QED
    BY <1>2, <2>1, MoveSays DEF DragSays
<1>3. CASE Len(to) = 2 /\ e.down
  <2>1. v = click(click(t, to[1]), to[2])
    BY <1>3 DEF dragged
  <2>2. Tells(t, v, x, 0)
    BY <1>3, <2>1, ClicksTell
  <2>3. QED
    BY <1>3, <2>2 DEF DragSays, Tells
<1>4. CASE Len(to) \notin {1, 2}
  <2>1. v = t
    BY <1>4 DEF dragged
  <2>2. Calm(t, t)
    BY CalmSelf
  <2>3. Shifts(t, t, x, 0)
    BY <2>2, CalmTurns, TurnsShifts
  <2>4. QED
    BY <1>4, <2>1, <2>2, <2>3 DEF DragSays
<1>5. QED
  BY <1>1, <1>2, <1>3, <1>4

LEMMA ButtonToButtonTurns ==
  ASSUME setting \in Settings, NEW t \in Typed, NEW i \in DOMAIN rules, NEW e, NEW from,
         e.down \in BOOLEAN, from \in BOOLEAN, from => rules[i].from # NONE /\ e.type = "button",
         rules[i].kind = "PointingButtonToPointingButton", NEW x \in Gauges
  PROVE  LET v == PointingButtonToPointingButton(t, i, e, from)
             n == Dragged(rules[i].to, x) - Button(x, rules[i].from)
         IN /\ Shifts(t, v, x, IF from THEN Sign(e.down, n) ELSE 0)
            /\ Len(rules[i].to) \in {1, 2} =>
                 Spoken(v) \/ (e.type = "move" /\ Speaks(t, v))
<1> DEFINE r == rules[i]
           n == Dragged(r.to, x) - Button(x, r.from)
           m == IF from THEN Sign(e.down, n) ELSE 0
           u == withoutFlags(t, r.fromFlags)
           w == IF from THEN swapButtons(u, r, e.down) ELSE u
           v == dragged(w, r.to, e)
<1>1. Buttoned(r.to) /\ (from => r.from \in Buttons)
  BY ButtonRule
<1>2. n \in Int
  BY LevelsAre DEF Dragged
<1>3. PointingButtonToPointingButton(t, i, e, from) = v
  BY DEF PointingButtonToPointingButton
<1> HIDE DEF r
<1>4. Calm(t, u) /\ u \in Typed
  BY FlagsCalm DEF Calm
<1> HIDE DEF u
<1>5. Turns(u, w, x, m)
  <2>1. CASE from
    <3>1. Turns(u, swapButtons(u, r, e.down), x, Sign(e.down, n))
      BY <1>1, <1>4, <2>1, SwapTurns
    <3>2. QED
      BY <2>1, <3>1
  <2>2. CASE ~from
    <3>1. w = u /\ m = 0
      BY <2>2
    <3>2. Turns(u, u, x, 0)
      BY <1>4, CalmSelf, CalmTurns
    <3>3. QED
      BY <3>1, <3>2
  <2>3. QED
    BY <2>1, <2>2
<1>6. ~from => w = u
  OBVIOUS
<1>7. m \in Int
  BY <1>2, SignIs
<1> HIDE DEF w, m, n
<1>8. w \in Typed
  BY <1>5, TurnsShifts
<1>9. Shifts(w, v, x, 0) /\ DragSays(w, v, r.to, e)
  BY <1>1, <1>8, DraggedTurns
<1> HIDE DEF v
<1>10. Shifts(t, w, x, m)
  BY <1>4, <1>5, TurnsCalm, TurnsShifts
<1>11. Shifts(t, v, x, m)
  BY <1>7, <1>9, <1>10, ShiftsStill
<1>12. ASSUME Len(r.to) \in {1, 2}
       PROVE  Spoken(v) \/ (e.type = "move" /\ Speaks(t, v))
  <2>1. Spoken(v) \/ (e.type = "move" /\ Speaks(w, v))
    BY <1>9, <1>12 DEF DragSays
  <2>2. CASE e.type = "move" /\ Speaks(w, v)
    <3>1. w = u
      BY <1>6, <2>2
    <3>2. QED
      BY <1>4, <2>2, <3>1, QuietSpeaks, CalmQuiet
  <2>3. QED
    BY <2>1, <2>2
<1>13. QED
  BY <1>3, <1>11, <1>12 DEF m, n, r

\* The button that is to scroll is reported released once, and counted as before.
LEMMA SourceTells ==
  ASSUME NEW t \in Typed, NEW b \in Buttons, NEW m \in Int, NEW n \in Int, m + n = 0,
         NEW x \in Gauges
  PROVE  LET v == firePointer(plus(t, b, m), FALSE)
             w == plus(v, b, n)
         IN /\ Shifts(t, w, x, 0) /\ Shifts(t, firePointer(w, FALSE), x, 0)
            /\ w.out = Append(t.out, [buttons |-> makeButtons(plus(t, b, m)), move |-> FALSE])
<1> DEFINE u == plus(t, b, m)
           v == firePointer(u, FALSE)
           w == plus(v, b, n)
           y == firePointer(w, FALSE)
           j == IF x = <<"button", b>> THEN m ELSE 0
           k == IF x = <<"button", b>> THEN n ELSE 0
<1>1. j \in Int /\ k \in Int /\ j + k = 0 /\ 0 \in Int /\ j + 0 = j
  OBVIOUS
<1>2. Turns(t, u, x, j) /\ u \in Typed
  BY PlusTurns, TurnsShifts
<1>3. u.out = t.out
  BY <1>2 DEF Turns
<1> HIDE DEF u, j
<1>4. Shifts(u, v, x, 0) /\ Reported(u, v, FALSE)
  BY <1>2, PointerTurns, FirePointerIs
<1>5. v \in Typed /\ v.out = Append(t.out, [buttons |-> makeButtons(u), move |-> FALSE])
  BY <1>3, <1>4 DEF Reported
<1> HIDE DEF v
<1>6. Turns(v, w, x, k) /\ w \in Typed /\ w.out = v.out
  BY <1>5, PlusTurns, TurnsShifts DEF Turns
<1> HIDE DEF w, k
<1>7. Shifts(w, y, x, 0)
  BY <1>6, PointerTurns
<1> HIDE DEF y
<1>8. Shifts(t, v, x, j)
  BY <1>1, <1>2, <1>4, ShiftsStill, TurnsShifts
<1>9. Shifts(t, w, x, 0)
  <2>1. Shifts(t, w, x, j + k)
    BY <1>1, <1>6, <1>8, ShiftsTrans, TurnsShifts
  <2>2. QED
    BY <1>1, <2>1
<1>10. Shifts(t, y, x, 0)
  BY <1>1, <1>7, <1>9, ShiftsStill
<1>11. QED
  BY <1>5, <1>6, <1>9, <1>10 DEF y, w, v, u

LEMMA ScrollTurns ==
  ASSUME setting \in Settings, NEW t \in Typed, NEW i \in DOMAIN rules, NEW choice \in Choice,
         rules[i].kind = "PointingRelativeToScroll", NEW x \in Gauges
  PROVE  LET v == PointingRelativeToScroll(t, i, choice)
             b == rules[i].from
         IN /\ Shifts(t, v, x, 0)
            /\ b = NONE \/ (s.active[i] /\ t.active[i]) => v.out = t.out
            /\ b # NONE /\ ~s.active[i] =>
                 v.out = Append(t.out, [buttons |-> makeButtons(plus(t, b, -1)), move |-> FALSE])
<1> SUFFICES ASSUME NEW v, v = PointingRelativeToScroll(t, i, choice)
             PROVE  /\ Shifts(t, v, x, 0)
                    /\ rules[i].from = NONE \/ (s.active[i] /\ t.active[i]) => v.out = t.out
                    /\ rules[i].from # NONE /\ ~s.active[i] =>
                         v.out = Append(t.out, [buttons |-> makeButtons(plus(t, rules[i].from, -1)),
                                                move |-> FALSE])
  OBVIOUS
<1> DEFINE r == rules[i]
           b == r.from
<1>1. r.fromFlags \in SUBSET ModifierFlags
  BY RuleMakes
<1>2. b # NONE => b \in Buttons
  BY ButtonRule
<1>3. 1 \in Int /\ -1 \in Int /\ -1 + 1 = 0 /\ 1 + (-1) = 0
  OBVIOUS
<1>4. ASSUME NEW u \in Typed PROVE Calm(u, toscroll(u, r, choice)) /\ Calm(u, cancelScroll(u))
  BY <1>1, ScrollCalm
<1>5. CASE b # NONE /\ ~s.active[i]
  <2> DEFINE u == releaseSource(t, r)
             p == [buttons |-> makeButtons(plus(t, b, -1)), move |-> FALSE]
  <2>1. u = plus(firePointer(plus(t, b, -1), FALSE), b, 1)
    BY DEF releaseSource
  <2>2. Shifts(t, u, x, 0) /\ u.out = Append(t.out, p)
    <3>1. b \in Buttons
      BY <1>2, <1>5
    <3> HIDE DEF u, b
    <3>2. QED
      BY <1>3, <2>1, <3>1, SourceTells, Zenon
  <2>3. v = toscroll(u, r, choice)
    BY <1>5 DEF PointingRelativeToScroll
  <2> HIDE DEF u, p
  <2>4. Calm(u, v)
    BY <1>4, <2>2, <2>3 DEF Shifts
  <2>5. Shifts(t, v, x, 0) /\ v.out = Append(t.out, p)
    BY <2>2, <2>4, TurnsCalm DEF Calm
  <2>6. QED
    BY <1>5, <2>5 DEF p
<1>6. CASE b # NONE /\ s.active[i] /\ ~t.active[i]
  <2> DEFINE u == cancelScroll(t)
             w == clickSource(u, r)
  <2>1. v = u \/ v = w
    BY <1>6 DEF PointingRelativeToScroll
  <2>2. Calm(t, u) /\ u \in Typed
    BY <1>4 DEF Calm
  <2> HIDE DEF u
  <2>3. w = firePointer(plus(firePointer(plus(u, b, 1), FALSE), b, -1), FALSE)
    BY DEF clickSource
  <2>4. Shifts(u, w, x, 0)
    BY <1>2, <1>3, <1>6, <2>2, <2>3, SourceTells
  <2> HIDE DEF w
  <2>5. Shifts(t, w, x, 0)
    BY <2>2, <2>4, TurnsCalm
  <2>6. Shifts(t, u, x, 0)
    BY <2>2, CalmTurns, TurnsShifts
  <2>7. QED
    BY <1>6, <2>1, <2>5, <2>6
<1>7. CASE ~(b # NONE /\ ~s.active[i]) /\ ~(b # NONE /\ s.active[i] /\ ~t.active[i])
  <2>1. v = toscroll(t, r, choice)
    BY <1>7 DEF PointingRelativeToScroll
  <2>2. Calm(t, v)
    BY <1>4, <2>1
  <2>3. Shifts(t, v, x, 0) /\ v.out = t.out
    BY <2>2, CalmTurns, TurnsShifts DEF Calm
  <2>4. QED
    BY <1>7, <2>3
<1>8. QED
  BY <1>5, <1>6, <1>7

\* The rules that count x up, and those that count it down, while they convert.
Adds(x) ==
  {i \in DOMAIN rules : IF x[1] = "button" THEN pressesButton(i, x[2]) ELSE turnsOn(i, x[2])}

Lifts(x) ==
  {i \in DOMAIN rules : IF x[1] = "button" THEN hidesButton(i, x[2]) ELSE turnsOff(i, x[2])}

Does(i, x) == In(i, Adds(x)) - In(i, Lifts(x))

LEMMA DoesIs ==
  ASSUME setting \in Settings, NEW i \in DOMAIN rules, NEW x \in Gauges
  PROVE  LET r == rules[i]
         IN Does(i, x) =
              CASE r.kind = "KeyToConsumer" -> 0 - Flag(x, modifierOf(r.from))
                [] r.kind \in {"ConsumerToConsumer", "PointingRelativeToScroll",
                               "DropPointingRelativeCursorMove"} -> 0
                [] r.kind = "ConsumerToKey" -> Turned(i, x)
                [] r.kind = "KeyToPointingButton" ->
                     Pressed(r.to, x) - Flag(x, r.fromFlags \cup modifierOf(r.from))
                [] r.kind = "PointingButtonToKey" -> Turned(i, x) - Button(x, r.from)
                [] r.kind = "PointingButtonToPointingButton" ->
                     Dragged(r.to, x) - Button(x, r.from)
<1> DEFINE r == rules[i]
           k == r.kind
<1>1. k \in Kinds
  BY RuleMakes
<1>2. CASE x[1] = "button"
  <2> DEFINE b == x[2]
  <2>1. x = <<"button", b>> /\ \A c : Button(x, c) = IF c = b THEN 1 ELSE 0
    BY <1>2, GaugeIs DEF Button
  <2>2. \A mods : Flag(x, mods) = 0
    BY <1>2 DEF Flag
  <2>3. In(i, Adds(x)) = IF pressesButton(i, b) THEN 1 ELSE 0
    BY <1>2 DEF In, Adds
  <2>4. In(i, Lifts(x)) = IF hidesButton(i, b) THEN 1 ELSE 0
    BY <1>2 DEF In, Lifts
  <2>5. Turned(i, x) = 0
    BY <2>2 DEF Turned
  <2>6. Pressed(r.to, x) = Dragged(r.to, x)
    BY <2>1, <2>2 DEF Pressed, Dragged
  <2>7. Dragged(r.to, x) = IF Len(r.to) = 1 /\ r.to[1].key = b THEN 1 ELSE 0
    BY <2>1 DEF Dragged
  <2>8. /\ pressesButton(i, b) <=> /\ k \in {"KeyToPointingButton", "PointingButtonToPointingButton"}
                                    /\ Len(r.to) = 1 /\ r.to[1].key = b
        /\ hidesButton(i, b) <=> /\ k \in {"PointingButtonToKey", "PointingButtonToPointingButton"}
                                 /\ r.from = b
    BY DEF pressesButton, hidesButton
  <2> DEFINE p == Dragged(r.to, x)
             h == Button(x, r.from)
  <2>9. p = (IF Len(r.to) = 1 /\ r.to[1].key = b THEN 1 ELSE 0) /\ h = IF r.from = b THEN 1 ELSE 0
    BY <2>1, <2>7
  <2> HIDE DEF p, h
  <2>10. /\ In(i, Adds(x)) = IF k \in {"KeyToPointingButton", "PointingButtonToPointingButton"}
                             THEN p ELSE 0
         /\ In(i, Lifts(x)) = IF k \in {"PointingButtonToKey", "PointingButtonToPointingButton"}
                              THEN h ELSE 0
    BY <2>3, <2>4, <2>8, <2>9
  <2>11. p \in Int /\ h \in Int
    BY <2>9
  <2>12. /\ \A mods : Flag(x, mods) = 0
         /\ Turned(i, x) = 0 /\ Pressed(r.to, x) = p /\ Dragged(r.to, x) = p
         /\ Button(x, r.from) = h
    BY <2>2, <2>5, <2>6 DEF p, h
  <2> HIDE DEF r
  <2>13. QED
    BY <1>1, <2>10, <2>11, <2>12 DEF Does, Kinds, r
<1>3. CASE x[1] = "key"
  <2> DEFINE f == x[2]
  <2>1. \A c : Button(x, c) = 0
    BY <1>3 DEF Button
  <2>2. \A mods : Flag(x, mods) = In(f, mods)
    BY <1>3 DEF Flag
  <2>3. In(i, Adds(x)) = IF turnsOn(i, f) THEN 1 ELSE 0
    BY <1>3 DEF In, Adds
  <2>4. In(i, Lifts(x)) = IF turnsOff(i, f) THEN 1 ELSE 0
    BY <1>3 DEF In, Lifts
  <2>5. Dragged(r.to, x) = 0
    BY <2>1 DEF Dragged
  <2>6. Pressed(r.to, x) = IF Len(r.to) = 1 THEN In(f, r.to[1].flags) ELSE 0
    BY <2>1, <2>2 DEF Pressed, In
  <2>7. Turned(i, x) = IF toModifier(i)
                       THEN In(f, r.to[1].flags \cup {r.to[1].key}) - In(f, r.fromFlags) ELSE 0
    BY <2>2 DEF Turned
  <2>8. toModifier(i) => k \in {"ConsumerToKey", "PointingButtonToKey"}
    BY DEF toModifier
  <2> DEFINE on == In(f, r.to[1].flags \cup {r.to[1].key})
             off == In(f, r.fromFlags)
             own == In(f, r.fromFlags \cup modifierOf(r.from))
             mine == In(f, modifierOf(r.from))
             p == IF Len(r.to) = 1 THEN In(f, r.to[1].flags) ELSE 0
  <2>9. /\ on \in Int /\ off \in Int /\ own \in Int /\ mine \in Int /\ p \in Int
    BY DEF In
  <2>10. In(i, Adds(x)) = IF k = "KeyToPointingButton" THEN p ELSE IF toModifier(i) THEN on ELSE 0
    BY <2>3, <2>8 DEF turnsOn, In
  <2>11. In(i, Lifts(x)) = IF k = "KeyToPointingButton" THEN own
                           ELSE IF k = "KeyToConsumer" THEN mine
                           ELSE IF toModifier(i) THEN off ELSE 0
    BY <2>4, <2>8 DEF turnsOff, In
  <2>12. /\ Flag(x, modifierOf(r.from)) = mine
         /\ Flag(x, r.fromFlags \cup modifierOf(r.from)) = own
         /\ Turned(i, x) = (IF toModifier(i) THEN on - off ELSE 0) /\ Pressed(r.to, x) = p
         /\ Dragged(r.to, x) = 0 /\ Button(x, r.from) = 0
    BY <2>1, <2>2, <2>5, <2>6, <2>7
  <2> HIDE DEF on, off, own, mine, p, r
  <2>13. QED
    BY <1>1, <2>8, <2>9, <2>10, <2>11, <2>12 DEF Does, Kinds, r
<1>4. QED
  BY <1>2, <1>3, GaugeIs

\* What converting says.
ConvertSays(t, v, i, e) ==
  LET r == rules[i]
      u == marked(t, i, e)
  IN /\ r.kind \in {"KeyToConsumer", "ConsumerToConsumer", "ConsumerToKey", "PointingButtonToKey",
                    "DropPointingRelativeCursorMove"} => v.out = t.out
     /\ r.kind = "KeyToPointingButton" => Speaks(t, v)
     /\ r.kind = "PointingButtonToPointingButton" /\ Len(r.to) \in {1, 2} =>
          Spoken(v) \/ (e.type = "move" /\ Speaks(t, v))
     /\ r.kind = "PointingRelativeToScroll" =>
          /\ r.from = NONE \/ (s.active[i] /\ u.active[i]) => v.out = t.out
          /\ r.from # NONE /\ ~s.active[i] =>
               v.out = Append(t.out, [buttons |-> makeButtons(plus(u, r.from, -1)), move |-> FALSE])

LEMMA MarkedCalm ==
  ASSUME setting \in Settings, NEW t \in Typed, NEW i \in DOMAIN rules, NEW e \in Event
  PROVE  Calm(t, marked(t, i, e)) /\ marked(t, i, e) \in Typed
<1>1. t.active \in [DOMAIN rules -> BOOLEAN] /\ e.down \in BOOLEAN /\ t \in State
  BY TypedIs, EventIs
<1> DEFINE active == [t.active EXCEPT ![i] = e.down]
<1>2. active \in [DOMAIN rules -> BOOLEAN]
  BY <1>1
<1>3. [t EXCEPT !.active[i] = e.down] = [t EXCEPT !.active = active]
  BY <1>1 DEF State
<1> HIDE DEF active
<1>4. Calm(t, [t EXCEPT !.active = active])
  BY <1>2, HeldCalm
<1>5. Calm(t, marked(t, i, e))
  BY <1>3, <1>4, CalmSelf DEF marked
<1>6. QED
  BY <1>5 DEF Calm

LEMMA TakesFrom ==
  ASSUME NEW t, NEW i, NEW e, takes(t, i, e)
  PROVE  /\ rules[i].kind \in {"KeyToConsumer", "ConsumerToConsumer", "ConsumerToKey",
                               "KeyToPointingButton", "PointingButtonToKey"} => isFrom(t, i, e)
         /\ isFrom(t, i, e) => rules[i].from # NONE /\ e.type = fromType(rules[i].kind)
  BY DEF takes, isFrom

\* A rule that takes its own key or button counts as it should, and undoes it when that
\* comes up; one that takes another event changes no count.
LEMMA ConvertTurns ==
  ASSUME setting \in Settings, NEW t \in Typed, NEW i \in DOMAIN rules, NEW e \in Event,
         NEW choice \in Choice, takes(t, i, e), NEW x \in Gauges
  PROVE  LET v == convert(t, i, e, choice)
         IN /\ Shifts(t, v, x, IF isFrom(t, i, e) THEN Sign(e.down, Does(i, x)) ELSE 0)
            /\ ConvertSays(t, v, i, e)
<1> SUFFICES ASSUME NEW v, v = convert(t, i, e, choice)
             PROVE  /\ Shifts(t, v, x, IF isFrom(t, i, e) THEN Sign(e.down, Does(i, x)) ELSE 0)
                    /\ ConvertSays(t, v, i, e)
  OBVIOUS
<1> DEFINE from == isFrom(t, i, e)
           u == marked(t, i, e)
           n == IF from THEN Sign(e.down, Does(i, x)) ELSE 0
           r == rules[i]
           k == r.kind
<1>1. Calm(t, u) /\ u \in Typed
  BY MarkedCalm
<1>2. v = convertAs(u, i, e, choice, from)
  BY DEF convert, marked
<1>3. /\ from \in BOOLEAN /\ e.down \in BOOLEAN /\ k \in Kinds
  BY EventIs, RuleMakes DEF isFrom
<1>4. /\ from => r.from # NONE /\ e.type = fromType(k)
      /\ k \in {"KeyToConsumer", "ConsumerToConsumer", "ConsumerToKey",
                "KeyToPointingButton", "PointingButtonToKey"} => from
  BY TakesFrom
<1>5. Shifts(u, v, x, n) => Shifts(t, v, x, n)
  BY <1>1, TurnsCalm
<1>6. u.out = t.out
  BY <1>1 DEF Calm
<1> HIDE DEF from, u
<1>7. CASE k = "KeyToConsumer"
  <2>1. v = KeyToConsumer(u, i, e.down)
    BY <1>2, <1>7 DEF convertAs
  <2>2. n = Sign(e.down, 0 - Flag(x, modifierOf(r.from)))
    BY <1>4, <1>7, DoesIs
  <2> HIDE DEF n
  <2>3. Turns(u, v, x, n)
    BY <1>1, <1>3, <1>7, <2>1, <2>2, ConsumersTurn
  <2>4. v.out = t.out /\ Shifts(t, v, x, n)
    BY <1>5, <1>6, <2>3 DEF Turns
  <2>5. QED
    BY <1>7, <2>4 DEF ConvertSays, n, from
<1>8. CASE k = "ConsumerToConsumer"
  <2>1. v = ConsumerToConsumer(u, i, e.down)
    BY <1>2, <1>8 DEF convertAs
  <2>2. n = 0
    <3>1. Does(i, x) = 0
      BY <1>8, DoesIs
    <3>2. QED
      BY <3>1 DEF Sign
  <2> HIDE DEF n
  <2>3. Calm(u, v)
    BY <1>1, <1>3, <1>8, <2>1, ConsumersTurn
  <2>4. Turns(u, v, x, n)
    BY <1>1, <2>2, <2>3, CalmTurns
  <2>5. v.out = t.out /\ Shifts(t, v, x, n)
    BY <1>5, <1>6, <2>4 DEF Turns
  <2>6. QED
    BY <1>8, <2>5 DEF ConvertSays, n, from
<1>9. CASE k = "ConsumerToKey"
  <2>1. v = toKey(u, r, e.down)
    BY <1>2, <1>9 DEF convertAs
  <2>2. n = Sign(e.down, Turned(i, x))
    BY <1>4, <1>9, DoesIs
  <2> HIDE DEF n
  <2>3. Turns(u, v, x, n)
    BY <1>1, <1>3, <1>9, <2>1, <2>2, ToKeyTurns
  <2>4. v.out = t.out /\ Shifts(t, v, x, n)
    BY <1>5, <1>6, <2>3 DEF Turns
  <2>5. QED
    BY <1>9, <2>4 DEF ConvertSays, n, from
<1>10. CASE k = "KeyToPointingButton"
  <2>1. v = KeyToPointingButton(u, i, e.down)
    BY <1>2, <1>10 DEF convertAs
  <2>2. n = Sign(e.down, Pressed(r.to, x) - Flag(x, r.fromFlags \cup modifierOf(r.from)))
    BY <1>4, <1>10, DoesIs
  <2> HIDE DEF n
  <2>3. Shifts(u, v, x, n) /\ Speaks(u, v)
    BY <1>1, <1>3, <1>10, <2>1, <2>2, KeyToButtonTurns
  <2>4. Speaks(t, v) /\ Shifts(t, v, x, n)
    BY <1>1, <1>5, <2>3, CalmQuiet, QuietSpeaks
  <2>5. QED
    BY <1>10, <2>4 DEF ConvertSays, n, from
<1>11. CASE k = "PointingButtonToKey"
  <2>1. v = PointingButtonToKey(u, i, e.down)
    BY <1>2, <1>11 DEF convertAs
  <2>2. n = Sign(e.down, Turned(i, x) - Button(x, r.from))
    BY <1>4, <1>11, DoesIs
  <2> HIDE DEF n
  <2>3. Turns(u, v, x, n)
    BY <1>1, <1>3, <1>4, <1>11, <2>1, <2>2, ButtonToKeyTurns
  <2>4. v.out = t.out /\ Shifts(t, v, x, n)
    BY <1>5, <1>6, <2>3 DEF Turns
  <2>5. QED
    BY <1>11, <2>4 DEF ConvertSays, n, from
<1>12. CASE k = "PointingButtonToPointingButton"
  <2>1. v = PointingButtonToPointingButton(u, i, e, from)
    BY <1>2, <1>12 DEF convertAs
  <2>2. n = IF from THEN Sign(e.down, Dragged(r.to, x) - Button(x, r.from)) ELSE 0
    BY <1>12, DoesIs
  <2>3. from => r.from # NONE /\ e.type = "button"
    BY <1>4, <1>12 DEF fromType
  <2> HIDE DEF n
  <2>4. /\ Shifts(u, v, x, n)
        /\ Len(r.to) \in {1, 2} => Spoken(v) \/ (e.type = "move" /\ Speaks(u, v))
    BY <1>1, <1>3, <1>12, <2>1, <2>2, <2>3, ButtonToButtonTurns
  <2>5. /\ Shifts(t, v, x, n)
        /\ Len(r.to) \in {1, 2} => Spoken(v) \/ (e.type = "move" /\ Speaks(t, v))
    BY <1>1, <1>5, <2>4, CalmQuiet, QuietSpeaks
  <2>6. QED
    BY <1>12, <2>5 DEF ConvertSays, n, from
<1>13. CASE k = "PointingRelativeToScroll"
  <2>1. v = PointingRelativeToScroll(u, i, choice)
    BY <1>2, <1>13 DEF convertAs
  <2>2. n = 0
    <3>1. Does(i, x) = 0
      BY <1>13, DoesIs
    <3>2. QED
      BY <3>1 DEF Sign
  <2> HIDE DEF n
  <2>3. /\ Shifts(u, v, x, 0)
        /\ r.from = NONE \/ (s.active[i] /\ u.active[i]) => v.out = u.out
        /\ r.from # NONE /\ ~s.active[i] =>
             v.out = Append(u.out, [buttons |-> makeButtons(plus(u, r.from, -1)), move |-> FALSE])
    BY <1>1, <1>13, <2>1, ScrollTurns
  <2>4. Shifts(t, v, x, n)
    BY <1>5, <2>2, <2>3
  <2>5. QED
    BY <1>6, <1>13, <2>3, <2>4 DEF ConvertSays, n, from, u
<1>14. CASE k = "DropPointingRelativeCursorMove"
  <2>1. v = u
    BY <1>2, <1>14 DEF convertAs
  <2>2. n = 0
    <3>1. Does(i, x) = 0
      BY <1>14, DoesIs
    <3>2. QED
      BY <3>1 DEF Sign
  <2> HIDE DEF n
  <2>3. Turns(u, u, x, 0)
    BY <1>1, CalmSelf, CalmTurns
  <2>4. v.out = t.out /\ Shifts(t, v, x, n)
    BY <1>5, <1>6, <2>1, <2>2, <2>3 DEF Turns
  <2>5. QED
    BY <1>14, <2>4 DEF ConvertSays, n, from
<1>15. QED
  BY <1>3, <1>7, <1>8, <1>9, <1>10, <1>11, <1>12, <1>13, <1>14 DEF Kinds

\* What an event does to a count: it is that of its own key or button.
Own(x, e) == IF x = What(e) THEN 1 ELSE 0

LEMMA PassTurns ==
  ASSUME NEW t \in Typed, NEW e \in Event, NEW x \in Gauges
  PROVE  LET v == passThrough(t, e)
         IN /\ Shifts(t, v, x, 0)
            /\ ~pointing(e) => Calm(t, v)
            /\ pointing(e) => Spoken(v) \/ (e.type = "move" /\ Speaks(t, v))
<1> SUFFICES ASSUME NEW v, v = passThrough(t, e)
             PROVE  /\ Shifts(t, v, x, 0)
                    /\ ~pointing(e) => Calm(t, v)
                    /\ pointing(e) => Spoken(v) \/ (e.type = "move" /\ Speaks(t, v))
  OBVIOUS
<1>1. e.type \in {"key", "consumer", "button", "move", "wheel"} /\ e.down \in BOOLEAN
  BY EventIs
<1>2. CASE pointing(e)
  <2>1. v = firePointer(t, e.type = "move")
    BY <1>2 DEF passThrough, pointing
  <2>2. QED
    BY <1>2, <2>1, MoveSays
<1>3. CASE ~pointing(e)
  <2>1. Calm(t, v)
    <3>1. CASE e.type = "key"
      <4> DEFINE u == repeatKey(t, e.what, e.down)
      <4>1. e.what \in Sendable
        BY <3>1, EventIs, DevicesConstants DEF Sendable
      <4>2. Calm(t, u)
        BY <1>1, <4>1, RepeatKeyCalm
      <4>3. v = sendKey(u, e.what, e.down)
        BY <3>1 DEF passThrough, pointing
      <4> HIDE DEF u
      <4>4. u \in Typed
        BY <4>2 DEF Calm
      <4>5. Calm(u, v)
        BY <1>1, <4>1, <4>3, <4>4, SendCalm
      <4>6. QED
        BY <4>2, <4>5, CalmTrans
    <3>2. CASE e.type = "consumer"
      <4> DEFINE u == repeatConsumer(t, e.what, e.down)
      <4>1. e.what \in ConsumerKeys \cup {NONE}
        BY <3>2, EventIs
      <4>2. Calm(t, u)
        BY <4>1, RepeatConsumerCalm
      <4>3. v = FireConsumer(u, e.what, e.down)
        BY <3>2 DEF passThrough, pointing
      <4> HIDE DEF u
      <4>4. u \in Typed
        BY <4>2 DEF Calm
      <4>5. Calm(u, v)
        BY <1>1, <4>1, <4>3, <4>4, FireConsumerCalm
      <4>6. QED
        BY <4>2, <4>5, CalmTrans
    <3>3. CASE e.type = "wheel"
      <4>1. v = announce(t)
        BY <1>3, <3>3 DEF passThrough
      <4>2. QED
        BY <4>1, AnnounceCalm
    <3>4. QED
      BY <1>1, <1>3, <3>1, <3>2, <3>3 DEF pointing
  <2>2. Shifts(t, v, x, 0)
    BY <2>1, CalmTurns, TurnsShifts
  <2>3. QED
    BY <1>3, <2>1, <2>2
<1>4. QED
  BY <1>2, <1>3

LEMMA ReceivedTurns ==
  ASSUME NEW t \in Sound, NEW e \in Event, NEW x \in Gauges
  PROVE  Turns(t, received(t, e), x, Sign(e.down, Own(x, e)))
<1> SUFFICES ASSUME NEW v, v = received(t, e)
             PROVE  Turns(t, v, x, Sign(e.down, Own(x, e)))
  OBVIOUS
<1> DEFINE n == IF e.down THEN 1 ELSE -1
           a == IF e.retain THEN t ELSE withFs(t, clearTemporary(t.o.fs))
           b == IF countsAsHeld(e) THEN [a EXCEPT !.held = @ + n] ELSE a
           m == Sign(e.down, Own(x, e))
<1>1. /\ e.type \in {"key", "consumer", "button", "move", "wheel"} /\ e.down \in BOOLEAN
      /\ n \in Int /\ t \in Typed
  BY EventIs, SoundIs
<1>2. m = IF x = What(e) THEN n ELSE 0
  BY DEF Sign, Own
<1>3. v = CASE e.type = "key" -> withFs(b, setKey(b.o.fs, e.what, IF e.down THEN {e.what} ELSE {}))
            [] e.type = "button" -> plus(b, e.what, n)
            [] OTHER -> b
  BY DEF received
<1>4. Calm(t, a)
  BY <1>1, FlagsCalm, CalmSelf
<1> HIDE DEF a
<1>5. a \in Typed /\ a \in State /\ a.held \in Int
  BY <1>4, TypedIs DEF Calm
<1>6. Calm(a, b)
  <2>1. CASE countsAsHeld(e)
    <3> DEFINE h == a.held + n
    <3>1. h \in Int /\ b = [a EXCEPT !.held = h]
      BY <1>1, <1>5, <2>1
    <3> HIDE DEF b, h
    <3>2. QED
      BY <1>5, <3>1, HeldCalm
  <2>2. CASE ~countsAsHeld(e)
    BY <1>5, <2>2, CalmSelf
  <2>3. QED
    BY <2>1, <2>2
<1> HIDE DEF b
<1>7. Calm(t, b) /\ b \in Typed
  BY <1>4, <1>6, CalmTrans DEF Calm
<1>8. CASE e.type = "key"
  <2> DEFINE mods == IF e.down THEN {e.what} ELSE {}
             fs == setKey(b.o.fs, e.what, mods)
  <2>1. b.o.fs \in Unlocked /\ b.o.fs \in FlagStatusItems
    BY <1>7, TypedIs, OutputIs
  <2>2. fs \in Unlocked
    BY <2>1, UnlockedKept
  <2>3. v = withFs(b, fs)
    BY <1>3, <1>8
  <2>4. x[1] = "button" => m = 0
    BY <1>2, <1>8 DEF What
  <2>5. ASSUME x[1] = "key" PROVE fs[x[2]].count = b.o.fs[x[2]].count + m
    <3>1. x[2] \in ModifierFlags \ {CAPSLOCK} /\ (x = What(e) <=> x[2] = e.what)
      BY <1>8, <2>5, GaugeIs DEF What
    <3>2. fs[x[2]].count = b.o.fs[x[2]].count
                             + IF x[2] # e.what THEN 0 ELSE IF x[2] \in mods THEN 1 ELSE -1
      BY <2>1, <3>1, SetKeyCounts
    <3>3. m = IF x[2] # e.what THEN 0 ELSE IF x[2] \in mods THEN 1 ELSE -1
      BY <1>2, <3>1
    <3> HIDE DEF m, fs
    <3>4. QED
      BY <3>2, <3>3
  <2>6. m \in Int
    BY <1>1, <1>2
  <2> HIDE DEF fs, m
  <2>7. Turns(b, withFs(b, fs), x, m)
    BY <1>7, <2>2, <2>4, <2>5, <2>6, FsTurns
  <2>8. QED
    BY <1>7, <2>3, <2>7, TurnsCalm DEF m
<1>9. CASE e.type = "button"
  <2>1. v = plus(b, e.what, n) /\ e.what \in Buttons
    BY <1>3, <1>9, EventIs
  <2>2. m = IF x = <<"button", e.what>> THEN n ELSE 0
    BY <1>2, <1>9 DEF What
  <2> HIDE DEF n
  <2>3. Turns(b, v, x, IF x = <<"button", e.what>> THEN n ELSE 0)
    BY <1>1, <1>7, <2>1, PlusTurns
  <2>4. QED
    BY <1>7, <2>2, <2>3, TurnsCalm
<1>10. CASE e.type \notin {"key", "button"}
  <2>1. v = b
    BY <1>3, <1>10
  <2>2. m = 0
    BY <1>2, <1>10, GaugeIs DEF What
  <2>3. Turns(t, b, x, 0)
    BY <1>1, <1>7, CalmTurns
  <2>4. QED
    BY <2>1, <2>2, <2>3
<1>11. QED
  BY <1>8, <1>9, <1>10

\* Which rule, if any, converts an event: the first that takes it.
First(t, i, e) ==
  /\ i \in DOMAIN rules /\ takes(t, i, e)
  /\ \A j \in DOMAIN rules : takes(t, j, e) => i <= j

LEMMA RemappedBy ==
  ASSUME setting \in Settings, NEW t, NEW e, NEW choice
  PROVE  \/ (\A i \in DOMAIN rules : ~takes(t, i, e)) /\ remapped(t, e, choice) = passThrough(t, e)
         \/ \E i : First(t, i, e) /\ remapped(t, e, choice) = convert(t, i, e, choice)
<1> DEFINE takers == {i \in DOMAIN rules : takes(t, i, e)}
<1>1. remapped(t, e, choice)
        = IF takers = {} THEN passThrough(t, e) ELSE convert(t, Min(takers), e, choice)
  BY DEF remapped
<1>2. CASE takers = {}
  <2>1. \A i \in DOMAIN rules : ~takes(t, i, e)
    BY <1>2
  <2>2. QED
    BY <1>1, <1>2, <2>1
<1>3. CASE takers # {}
  <2>1. takers \in SUBSET Nat
    BY RulesAre
  <2> DEFINE i == Min(takers)
  <2>2. i \in takers /\ \A j \in takers : i <= j
    <3> HIDE DEF takers
    <3>1. QED
      BY <1>3, <2>1, MinIs
  <2>3. remapped(t, e, choice) = convert(t, i, e, choice)
    BY <1>1, <1>3
  <2> HIDE DEF i
  <2>4. First(t, i, e)
    BY <2>2 DEF First
  <2>5. QED
    BY <2>3, <2>4
<1>4. QED
  BY <1>2, <1>3

LEMMA FinishedCalm ==
  ASSUME NEW t \in Typed, NEW e
  PROVE  Calm(t, finished(t, e))
<1>1. Calm(t, cancelScroll(t))
  <2>1. t \in State /\ t.o \in Output /\ << >> \in Seq({0, 1})
    BY TypedIs
  <2> DEFINE u == cancelScroll(t)
  <2>2. u \in State /\ u.o = t.o /\ u.count = t.count /\ u.out = t.out
    BY <2>1 DEF cancelScroll, State
  <2> HIDE DEF u
  <2>3. Calm(t, u)
    BY <2>1, <2>2, CalmSame DEF Typed
  <2>4. QED
    BY <2>3 DEF u
<1>2. QED
  BY <1>1, CalmSelf DEF finished

-------------------------------------------------------------------------------
(***************************************************************************)
(* What the counts should be while the keys, consumer keys and buttons of  *)
(* H are held: one for each of them, one more for each rule that converts  *)
(* and counts up, one less for each that counts down.                      *)
(***************************************************************************)
Every == {"key", "consumer", "button"}

CapsKey == <<"key", CAPSLOCK>>

Active(t) == {i \in DOMAIN rules : t.active[i]}

\* No rule for the CapsLock key, which may convert when all keys are up, counts x.
Steady(x) == \A i \in Adds(x) \cup Lifts(x) : Source(i) # CapsKey

Due(t, H, x) ==
  In(x, H) + (Cardinality(Active(t) \cap Adds(x)) - Cardinality(Active(t) \cap Lifts(x)))

\* Every rule converts something that is held, and no two convert the same.
Owned(t, H) ==
  \A i \in Active(t) : Source(i) \in H /\ \A j \in Active(t) : Source(j) = Source(i) => j = i

Counted(t, H) == \A x \in Gauges : Steady(x) => Level(t, x) = Due(t, H, x)

Balanced(t, H) ==
  Owned(t, H) /\ t.held = Cardinality(H \ {CapsKey}) /\ Counted(t, H)

\* One element more or less.
LEMMA CardOne ==
  ASSUME NEW A, IsFiniteSet(A), NEW S, NEW i
  PROVE  /\ Cardinality(A \cap S) \in Nat /\ IsFiniteSet(A \cup {i}) /\ IsFiniteSet(A \ {i})
         /\ i \notin A => Cardinality((A \cup {i}) \cap S) = Cardinality(A \cap S) + In(i, S)
         /\ i \in A => Cardinality((A \ {i}) \cap S) = Cardinality(A \cap S) - In(i, S)
<1> DEFINE B == A \cap S
<1>1. IsFiniteSet(B) /\ Cardinality(B) \in Nat
  <2>1. B \subseteq A
    OBVIOUS
  <2>2. QED
    BY <2>1, FS_Subset, FS_CardinalityType
<1>2. IsFiniteSet(A \cup {i}) /\ IsFiniteSet(A \ {i})
  BY FS_AddElement, FS_RemoveElement
<1>3. ASSUME i \notin A PROVE Cardinality((A \cup {i}) \cap S) = Cardinality(B) + In(i, S)
  <2>1. CASE i \in S
    <3>1. (A \cup {i}) \cap S = B \cup {i} /\ i \notin B
      BY <1>3, <2>1
    <3>2. Cardinality(B \cup {i}) = Cardinality(B) + 1
      BY <1>1, <3>1, FS_AddElement
    <3>3. QED
      BY <2>1, <3>1, <3>2 DEF In
  <2>2. CASE i \notin S
    <3>1. (A \cup {i}) \cap S = B
      BY <2>2
    <3>2. QED
      BY <1>1, <2>2, <3>1 DEF In
  <2>3. QED
    BY <2>1, <2>2
<1>4. ASSUME i \in A PROVE Cardinality((A \ {i}) \cap S) = Cardinality(B) - In(i, S)
  <2>1. CASE i \in S
    <3>1. (A \ {i}) \cap S = B \ {i} /\ i \in B
      BY <1>4, <2>1
    <3>2. Cardinality(B \ {i}) = Cardinality(B) - 1
      BY <1>1, <3>1, FS_RemoveElement
    <3>3. QED
      BY <2>1, <3>1, <3>2 DEF In
  <2>2. CASE i \notin S
    <3>1. (A \ {i}) \cap S = B
      BY <2>2
    <3>2. QED
      BY <1>1, <2>2, <3>1 DEF In
  <2>3. QED
    BY <2>1, <2>2
<1>5. QED
  BY <1>1, <1>2, <1>3, <1>4

LEMMA ActiveIs ==
  ASSUME setting \in Settings, NEW t
  PROVE  /\ IsFiniteSet(Active(t))
         /\ \A S : Cardinality(Active(t) \cap S) \in Nat
<1>1. DOMAIN rules = 1 .. Len(rules) /\ Len(rules) \in Nat
  BY RulesAre
<1>2. IsFiniteSet(DOMAIN rules)
  BY <1>1, FS_Interval
<1>3. Active(t) \subseteq DOMAIN rules
  BY DEF Active
<1>4. IsFiniteSet(Active(t))
  BY <1>2, <1>3, FS_Subset
<1>5. QED
  BY <1>4, CardOne

\* How an event moves what is held.
LEMMA InMoves ==
  ASSUME NEW H, NEW e \in Event, Fits(Every, H, e), NEW x \in Gauges
  PROVE  In(x, Moves(Every, H, e)) = In(x, H) + Sign(e.down, Own(x, e))
<1> DEFINE G == Moves(Every, H, e)
           y == What(e)
<1>1. /\ e.type \in Every /\ e.down => y \notin H /\ G = H \cup {y}
      /\ e.type \in Every /\ ~e.down => y \in H /\ G = H \ {y}
      /\ e.type \notin Every => G = H
  BY MovesIs
<1>2. e.down \in BOOLEAN
  BY EventIs
<1>3. e.type \notin Every => x # y
  BY GaugeIs DEF What, Every
<1>4. Sign(e.down, Own(x, e)) = IF x # y THEN 0 ELSE IF e.down THEN 1 ELSE -1
  BY DEF Sign, Own
<1> HIDE DEF G, y
<1>5. QED
  BY <1>1, <1>2, <1>3, <1>4 DEF In, G

LEMMA HeldMoves ==
  ASSUME NEW H, IsFiniteSet(H), NEW e \in Event, Fits(Every, H, e)
  PROVE  LET G == Moves(Every, H, e)
         IN /\ IsFiniteSet(G) /\ Cardinality(H \ {CapsKey}) \in Nat
            /\ Cardinality(G \ {CapsKey}) =
                 Cardinality(H \ {CapsKey})
                   + IF countsAsHeld(e) THEN IF e.down THEN 1 ELSE -1 ELSE 0
<1> DEFINE G == Moves(Every, H, e)
           y == What(e)
           B == H \ {CapsKey}
<1>1. /\ e.type \in Every /\ e.down => y \notin H /\ G = H \cup {y}
      /\ e.type \in Every /\ ~e.down => y \in H /\ G = H \ {y}
      /\ e.type \notin Every => G = H
  BY MovesIs
<1>2. e.down \in BOOLEAN
  BY EventIs
<1>3. countsAsHeld(e) <=> e.type \in Every /\ y # CapsKey
  BY DEF countsAsHeld, Every, What, CapsKey
<1>4. IsFiniteSet(B) /\ Cardinality(B) \in Nat
  BY FS_RemoveElement, FS_CardinalityType
<1> HIDE DEF G, y
<1>5. CASE e.type \notin Every
  <2>1. G = H /\ G \ {CapsKey} = B /\ ~countsAsHeld(e)
    BY <1>1, <1>3, <1>5
  <2>2. QED
    BY <1>4, <2>1 DEF G
<1>6. CASE e.type \in Every /\ e.down
  <2>1. G = H \cup {y} /\ y \notin H /\ IsFiniteSet(G)
    BY <1>1, <1>6, FS_AddElement
  <2>2. CASE y = CapsKey
    <3>1. G \ {CapsKey} = B
      BY <2>1, <2>2
    <3>2. QED
      BY <1>3, <1>4, <2>1, <2>2, <3>1 DEF G
  <2>3. CASE y # CapsKey
    <3>1. G \ {CapsKey} = B \cup {y} /\ y \notin B
      BY <2>1, <2>3
    <3>2. Cardinality(B \cup {y}) = Cardinality(B) + 1
      BY <1>4, <3>1, FS_AddElement
    <3>3. QED
      BY <1>3, <1>4, <1>6, <2>1, <2>3, <3>1, <3>2 DEF G
  <2>4. QED
    BY <2>2, <2>3
<1>7. CASE e.type \in Every /\ ~e.down
  <2>1. G = H \ {y} /\ y \in H /\ IsFiniteSet(G)
    BY <1>1, <1>7, FS_RemoveElement
  <2>2. CASE y = CapsKey
    <3>1. G \ {CapsKey} = B
      BY <2>1, <2>2
    <3>2. QED
      BY <1>3, <1>4, <2>1, <2>2, <3>1 DEF G
  <2>3. CASE y # CapsKey
    <3>1. G \ {CapsKey} = B \ {y} /\ y \in B
      BY <2>1, <2>3
    <3>2. Cardinality(B \ {y}) = Cardinality(B) - 1
      BY <1>4, <3>1, FS_RemoveElement
    <3>3. QED
      BY <1>3, <1>4, <1>7, <2>1, <2>3, <3>1, <3>2 DEF G
  <2>4. QED
    BY <2>2, <2>3
<1>8. QED
  BY <1>2, <1>5, <1>6, <1>7

\* The release of what a rule converts goes to that rule: none before it takes all
\* pointing events while it converts something else.
LEMMA ReleaseTaken ==
  ASSUME setting \in Settings, dragsLast, NEW t \in Sound, NEW H, Owned(t, H), NEW e \in Event,
         ~e.down, NEW j \in DOMAIN rules, t.active[j], Source(j) = What(e)
  PROVE  takes(t, j, e) /\ \A i : First(t, i, e) => i = j /\ isFrom(t, i, e)
<1>1. fromType(rules[j].kind) = e.type /\ rules[j].from = e.what
  BY DEF Source, What
<1>2. e.type \in Every
  BY <1>1 DEF fromType, Every
<1>3. e.what # NONE
  BY <1>2, EventIs DEF Every
<1>4. isFrom(t, j, e) /\ takes(t, j, e)
  BY <1>1, <1>3 DEF isFrom, takes
<1>5. ASSUME NEW i, First(t, i, e) PROVE i = j /\ isFrom(t, i, e)
  <2>1. i \in DOMAIN rules /\ takes(t, i, e) /\ i <= j
    BY <1>4, <1>5 DEF First
  <2>2. CASE isFrom(t, i, e)
    <3>1. t.active[i] /\ Source(i) = What(e)
      BY <2>2 DEF isFrom, Source, What
    <3>2. QED
      BY <2>1, <2>2, <3>1 DEF Owned, Active
  <2>3. CASE ~isFrom(t, i, e)
    <3>1. i # j
      BY <1>4, <2>3
    <3>2. i < j
      BY <2>1, <3>1, RulesAre
    <3>3. e.type \notin Digital
      BY <2>1, <2>3, TakenIs
    <3>4. e.type = "button"
      BY <1>2, <3>3 DEF Every, Digital
    <3>5. /\ drags(i)
          /\ t.active[i] \/ rules[i].from = NONE
      BY <2>1, <2>3, <3>4 DEF takes, drags
    <3>6. rules[j].from = rules[i].from
      BY <1>1, <1>3, <2>1, <3>2, <3>4, <3>5 DEF dragsLast
    <3>7. fromType(rules[i].kind) = "button"
      BY <3>5 DEF drags, fromType
    <3>8. Source(i) = Source(j) /\ t.active[i]
      BY <1>1, <1>3, <3>4, <3>5, <3>6, <3>7 DEF Source
    <3>9. i = j
      BY <2>1, <3>8 DEF Owned, Active
    <3>10. QED
      BY <3>1, <3>9
  <2>4. QED
    BY <2>2, <2>3
<1>6. QED
  BY <1>4, <1>5

\* Which rules convert after an event.
Took(t, u, i, e) ==
  \A S : Cardinality(Active(u) \cap S) =
           Cardinality(Active(t) \cap S)
             + IF isFrom(t, i, e) THEN Sign(e.down, In(i, S)) ELSE 0

LEMMA OwnedConverted ==
  ASSUME setting \in Settings, dragsLast, NEW t \in Sound, NEW H, Owned(t, H), NEW e \in Event,
         Fits(Every, H, e), NEW i, First(t, i, e), NEW u, u.active = marked(t, i, e).active
  PROVE  Owned(u, Moves(Every, H, e)) /\ Took(t, u, i, e)
<1> DEFINE G == Moves(Every, H, e)
           x == What(e)
           A == Active(t)
<1>1. /\ e.type \in Every /\ e.down => x \notin H /\ G = H \cup {x}
      /\ e.type \in Every /\ ~e.down => x \in H /\ G = H \ {x}
      /\ e.type \notin Every => G = H
  BY MovesIs
<1>2. /\ i \in DOMAIN rules /\ e.down \in BOOLEAN
      /\ t.active \in [DOMAIN rules -> BOOLEAN]
  BY EventIs, SoundIs, TypedIs DEF First
<1>3. u.active = IF isFrom(t, i, e) THEN [t.active EXCEPT ![i] = e.down] ELSE t.active
  BY <1>2, MarkedIs
<1>4. isFrom(t, i, e) => Source(i) = x /\ e.type \in Every /\ (e.down \/ t.active[i])
  BY DEF isFrom, Source, What, fromType, Every
<1>5. \A j \in A : Source(j) \in H /\ \A k \in A : Source(k) = Source(j) => k = j
  BY DEF Owned
<1>6. IsFiniteSet(A) /\ \A S : Cardinality(A \cap S) \in Nat
  BY ActiveIs
<1>7. CASE isFrom(t, i, e) /\ e.down
  <2>1. x \notin H /\ G = H \cup {x} /\ Source(i) = x
    BY <1>1, <1>4, <1>7
  <2>2. i \notin A
    BY <1>5, <2>1
  <2>3. Active(u) = A \cup {i}
    BY <1>2, <1>3, <1>7 DEF Active
  <2>4. Owned(u, G)
    <3> HIDE DEF x, G, A
    <3>1. QED
      BY <1>5, <2>1, <2>3 DEF Owned
  <2>5. ASSUME NEW S PROVE Cardinality(Active(u) \cap S) = Cardinality(A \cap S) + In(i, S)
    <3> HIDE DEF A
    <3>1. IsFiniteSet(A)
      BY <1>6
    <3>2. Cardinality((A \cup {i}) \cap S) = Cardinality(A \cap S) + In(i, S)
      BY <2>2, <3>1, CardOne
    <3>3. QED
      BY <2>3, <3>2
  <2>6. \A S : Sign(e.down, In(i, S)) = In(i, S)
    BY <1>7 DEF Sign
  <2>7. QED
    BY <1>7, <2>4, <2>5, <2>6 DEF Took
<1>8. CASE isFrom(t, i, e) /\ ~e.down
  <2>1. x \in H /\ G = H \ {x} /\ Source(i) = x /\ t.active[i]
    BY <1>1, <1>4, <1>8
  <2>2. i \in A
    BY <1>2, <2>1 DEF Active
  <2>3. Active(u) = A \ {i}
    BY <1>2, <1>3, <1>8 DEF Active
  <2>4. Owned(u, G)
    <3> HIDE DEF x, G, A
    <3>1. QED
      BY <1>5, <2>1, <2>2, <2>3 DEF Owned
  <2>5. ASSUME NEW S PROVE Cardinality(Active(u) \cap S) = Cardinality(A \cap S) + (0 - In(i, S))
    <3> DEFINE m == Cardinality(A \cap S)
               n == In(i, S)
    <3>1. m \in Nat /\ n \in Int
      BY <1>6 DEF In
    <3>2. Cardinality(Active(u) \cap S) = m - n
      <4> HIDE DEF A
      <4>1. IsFiniteSet(A)
        BY <1>6
      <4>2. Cardinality((A \ {i}) \cap S) = Cardinality(A \cap S) - In(i, S)
        BY <2>2, <4>1, CardOne
      <4>3. QED
        BY <2>3, <4>2
    <3> HIDE DEF m, n
    <3>3. Cardinality(Active(u) \cap S) = m + (0 - n)
      BY <3>1, <3>2
    <3>4. QED
      BY <3>3 DEF m, n
  <2>6. \A S : Sign(e.down, In(i, S)) = 0 - In(i, S)
    BY <1>8 DEF Sign
  <2>7. QED
    BY <1>8, <2>4, <2>5, <2>6 DEF Took
<1>9. CASE ~isFrom(t, i, e)
  <2>1. Active(u) = A
    BY <1>3, <1>9 DEF Active
  <2>2. ASSUME NEW j \in A PROVE Source(j) \in G
    <3>1. j \in DOMAIN rules /\ t.active[j] /\ Source(j) \in H
      BY <1>5, <2>2 DEF Active
    <3>2. ~e.down => Source(j) # x
      BY <1>9, <3>1, ReleaseTaken
    <3> HIDE DEF x, G
    <3>3. QED
      BY <1>1, <1>2, <3>1, <3>2
  <2>3. Owned(u, G)
    <3> HIDE DEF x, G, A
    <3>1. QED
      BY <1>5, <2>1, <2>2 DEF Owned
  <2>4. \A S : Cardinality(Active(u) \cap S) = Cardinality(A \cap S) + 0
    BY <1>6, <2>1
  <2>5. QED
    BY <1>9, <2>3, <2>4 DEF Took
<1>10. QED
  BY <1>2, <1>7, <1>8, <1>9

LEMMA OwnedPassed ==
  ASSUME setting \in Settings, dragsLast, NEW t \in Sound, NEW H, Owned(t, H), NEW e \in Event,
         Fits(Every, H, e), \A i \in DOMAIN rules : ~takes(t, i, e), NEW u, u.active = t.active
  PROVE  Owned(u, Moves(Every, H, e)) /\ Active(u) = Active(t)
<1> DEFINE G == Moves(Every, H, e)
           x == What(e)
<1>1. /\ e.type \in Every /\ e.down => x \notin H /\ G = H \cup {x}
      /\ e.type \in Every /\ ~e.down => x \in H /\ G = H \ {x}
      /\ e.type \notin Every => G = H
  BY MovesIs
<1>2. e.down \in BOOLEAN
  BY EventIs
<1>3. Active(u) = Active(t)
  BY DEF Active
<1>4. ASSUME NEW j \in Active(t) PROVE Source(j) \in G
  <2>1. j \in DOMAIN rules /\ t.active[j] /\ Source(j) \in H
    BY <1>4 DEF Active, Owned
  <2>2. ~e.down => Source(j) # x
    BY <2>1, ReleaseTaken
  <2> HIDE DEF x, G
  <2>3. QED
    BY <1>1, <1>2, <2>1, <2>2
<1> HIDE DEF G
<1>5. Owned(u, G)
  BY <1>3, <1>4 DEF Owned
<1>6. QED
  BY <1>3, <1>5 DEF G

\* The sums that have to agree.
LEMMA SumsAgree ==
  ASSUME NEW l0 \in Int, NEW l1, NEW l2, NEW h0 \in Int, NEW h1, NEW own \in Int,
         NEW a0 \in Int, NEW a1, NEW b0 \in Int, NEW b1, NEW a \in Int, NEW b \in Int, NEW k,
         l0 = h0 + (a0 - b0), l1 = l0 + own, l2 = l1 + k, h1 = h0 + own,
         a1 = a0 + a, b1 = b0 + b, k = a - b
  PROVE  l2 = h1 + (a1 - b1)
  OBVIOUS

LEMMA CountedConverted ==
  ASSUME setting \in Settings, dragsLast, NEW t \in Sound, NEW H, Owned(t, H), Counted(t, H),
         NEW e \in Event, Fits(Every, H, e), NEW choice \in Choice,
         NEW v, v = received(t, e), NEW i, First(v, i, e),
         NEW w, w = convert(v, i, e, choice)
  PROVE  Owned(w, Moves(Every, H, e)) /\ Counted(w, Moves(Every, H, e))
<1> DEFINE G == Moves(Every, H, e)
           from == isFrom(v, i, e)
<1>1. v \in Sound /\ v.active = t.active /\ i \in DOMAIN rules /\ takes(v, i, e)
      /\ e.down \in BOOLEAN
  BY ReceivedIs, EventIs DEF Same, First
<1>2. Active(v) = Active(t)
  BY <1>1 DEF Active
<1>3. Owned(v, H)
  BY <1>2 DEF Owned
<1>4. w.active = marked(v, i, e).active
  <2>1. Converted(marked(v, i, e), w, i, e.down)
    BY <1>1, ConvertIs
  <2>2. QED
    BY <2>1 DEF Converted, Made, Keeps, Bears
<1>5. Owned(w, G) /\ Took(v, w, i, e)
  BY <1>1, <1>3, <1>4, OwnedConverted
<1>6. ASSUME NEW x \in Gauges, Steady(x) PROVE Level(w, x) = Due(w, G, x)
  <2> DEFINE l0 == Level(t, x)
             h0 == In(x, H)
             own == Sign(e.down, Own(x, e))
             a0 == Cardinality(Active(t) \cap Adds(x))
             b0 == Cardinality(Active(t) \cap Lifts(x))
             a == IF from THEN Sign(e.down, In(i, Adds(x))) ELSE 0
             b == IF from THEN Sign(e.down, In(i, Lifts(x))) ELSE 0
             k == IF from THEN Sign(e.down, Does(i, x)) ELSE 0
  <2>1. l0 = h0 + (a0 - b0)
    BY <1>6 DEF Counted, Due
  <2>2. Level(v, x) = l0 + own
    BY ReceivedTurns DEF Turns, Shifts
  <2>3. Level(w, x) = Level(v, x) + k
    BY <1>1, ConvertTurns, SoundIs DEF Shifts
  <2>4. In(x, G) = h0 + own
    BY InMoves
  <2>5. /\ Cardinality(Active(w) \cap Adds(x)) = a0 + a
        /\ Cardinality(Active(w) \cap Lifts(x)) = b0 + b
    BY <1>2, <1>5 DEF Took
  <2>6. k = a - b
    BY <1>1 DEF Does, Sign, In
  <2>7. l0 \in Int
    BY SoundIs, LevelType
  <2>8. h0 \in Int /\ own \in Int
    BY DEF In, Sign, Own
  <2>9. a0 \in Int /\ b0 \in Int
    BY ActiveIs
  <2>10. a \in Int /\ b \in Int
    BY DEF In, Sign
  <2> HIDE DEF l0, h0, own, a0, b0, a, b, k, G
  <2>11. Level(w, x) = In(x, G) + (Cardinality(Active(w) \cap Adds(x))
                                     - Cardinality(Active(w) \cap Lifts(x)))
    BY <2>1, <2>2, <2>3, <2>4, <2>5, <2>6, <2>7, <2>8, <2>9, <2>10, SumsAgree
  <2>12. QED
    BY <2>11 DEF Due
<1>7. QED
  BY <1>5, <1>6 DEF Counted

LEMMA CountedPassed ==
  ASSUME setting \in Settings, dragsLast, NEW t \in Sound, NEW H, Owned(t, H), Counted(t, H),
         NEW e \in Event, Fits(Every, H, e), NEW v, v = received(t, e),
         \A i \in DOMAIN rules : ~takes(v, i, e), NEW w, w = passThrough(v, e)
  PROVE  Owned(w, Moves(Every, H, e)) /\ Counted(w, Moves(Every, H, e))
<1> DEFINE G == Moves(Every, H, e)
<1>1. v \in Sound /\ v \in Typed /\ v.active = t.active
  BY ReceivedIs, SoundIs DEF Same
<1>2. Active(v) = Active(t)
  BY <1>1 DEF Active
<1>3. Owned(v, H)
  BY <1>2 DEF Owned
<1>4. w.active = v.active
  <2>1. Passed(v, w, e)
    BY <1>1, PassIs
  <2>2. QED
    BY <2>1 DEF Passed, ConsumerMade, Keeps, Bears
<1>5. Owned(w, G) /\ Active(w) = Active(t)
  BY <1>1, <1>2, <1>3, <1>4, OwnedPassed
<1>6. ASSUME NEW x \in Gauges, Steady(x) PROVE Level(w, x) = Due(w, G, x)
  <2> DEFINE l0 == Level(t, x)
             h0 == In(x, H)
             own == Sign(e.down, Own(x, e))
             a0 == Cardinality(Active(t) \cap Adds(x))
             b0 == Cardinality(Active(t) \cap Lifts(x))
  <2>1. l0 = h0 + (a0 - b0)
    BY <1>6 DEF Counted, Due
  <2>2. Level(v, x) = l0 + own
    BY ReceivedTurns DEF Turns, Shifts
  <2>3. Level(w, x) = Level(v, x) + 0
    BY <1>1, PassTurns DEF Shifts
  <2>4. In(x, G) = h0 + own
    BY InMoves
  <2>5. /\ Cardinality(Active(w) \cap Adds(x)) = a0
        /\ Cardinality(Active(w) \cap Lifts(x)) = b0
    BY <1>5
  <2>6. l0 \in Int
    BY SoundIs, LevelType
  <2>7. h0 \in Int /\ own \in Int
    BY DEF In, Sign, Own
  <2>8. a0 \in Int /\ b0 \in Int
    BY ActiveIs
  <2> HIDE DEF l0, h0, own, a0, b0, G
  <2>9. Level(w, x) = In(x, G) + (a0 - b0)
    BY <2>1, <2>2, <2>3, <2>4, <2>6, <2>7, <2>8
  <2>10. QED
    BY <2>5, <2>9 DEF Due
<1>7. QED
  BY <1>5, <1>6 DEF Counted

LEMMA BalancedRemapped ==
  ASSUME setting \in Settings, dragsLast, NEW t \in Sound, NEW H, IsFiniteSet(H), Balanced(t, H),
         NEW e \in Event, Fits(Every, H, e), NEW choice \in Choice,
         NEW w, w = remapped(received(t, e), e, choice)
  PROVE  w \in Sound /\ Balanced(w, Moves(Every, H, e))
<1> DEFINE G == Moves(Every, H, e)
           v == received(t, e)
           n == IF countsAsHeld(e) THEN IF e.down THEN 1 ELSE -1 ELSE 0
<1>1. v \in Sound /\ v.held = t.held + n
  <2>1. t.held \in Int
    BY SoundIs, TypedIs
  <2>2. v \in Sound
    BY ReceivedIs DEF Same
  <2>3. /\ countsAsHeld(e) => v.held = t.held + IF e.down THEN 1 ELSE -1
        /\ ~countsAsHeld(e) => v.held = t.held
    BY ReceivedIs
  <2> HIDE DEF v
  <2>4. QED
    BY <2>1, <2>2, <2>3
<1>2. w \in Sound /\ w.held = v.held
  BY <1>1, RemappedIs, RemappedSound
<1>3. w.held = Cardinality(G \ {CapsKey})
  BY <1>1, <1>2, HeldMoves DEF Balanced
<1>4. Owned(w, G) /\ Counted(w, G)
  <2>1. \/ (\A i \in DOMAIN rules : ~takes(v, i, e)) /\ w = passThrough(v, e)
        \/ \E i : First(v, i, e) /\ w = convert(v, i, e, choice)
    BY RemappedBy
  <2>2. Owned(t, H) /\ Counted(t, H)
    BY DEF Balanced
  <2>3. v = received(t, e)
    OBVIOUS
  <2> HIDE DEF v, G
  <2>4. CASE (\A i \in DOMAIN rules : ~takes(v, i, e)) /\ w = passThrough(v, e)
    BY <2>2, <2>3, <2>4, CountedPassed DEF G
  <2>5. ASSUME NEW i, First(v, i, e), w = convert(v, i, e, choice)
        PROVE  Owned(w, G) /\ Counted(w, G)
    BY <2>2, <2>3, <2>5, CountedConverted DEF G
  <2>6. QED
    BY <2>1, <2>4, <2>5
<1>5. QED
  BY <1>2, <1>3, <1>4 DEF Balanced

\* All counts zero, with nothing held but CapsLock.
LEMMA BalancedFlushed ==
  ASSUME setting \in Settings, NEW t, NEW G, IsFiniteSet(G), Balanced(t, G), t.held <= 0,
         NEW u, Flushed(t, u)
  PROVE  Balanced(u, G)
<1>1. IsFiniteSet(G \ {CapsKey}) /\ Cardinality(G \ {CapsKey}) \in Nat
  BY FS_RemoveElement, FS_CardinalityType
<1>2. Cardinality(G \ {CapsKey}) = 0
  BY <1>1 DEF Balanced
<1>3. G \ {CapsKey} = {}
  BY <1>1, <1>2, FS_EmptySet
<1>4. Active(u) = Active(t)
  BY DEF Flushed, Active
<1>5. Owned(u, G)
  BY <1>4 DEF Balanced, Owned
<1>6. u.held = Cardinality(G \ {CapsKey})
  BY <1>2 DEF Flushed, recovered
<1>7. ASSUME NEW x \in Gauges, Steady(x) PROVE Level(u, x) = Due(u, G, x)
  <2>1. Level(u, x) = 0
    BY GaugeIs DEF Flushed, recovered, Level
  <2>2. x # CapsKey
    BY GaugeIs DEF CapsKey
  <2>3. In(x, G) = 0
    BY <1>3, <2>2 DEF In
  <2>4. ASSUME NEW i \in Active(u) PROVE i \notin Adds(x) \cup Lifts(x)
    <3>1. Source(i) \in G
      BY <1>5, <2>4 DEF Owned
    <3>2. Source(i) = CapsKey
      BY <1>3, <3>1
    <3>3. QED
      BY <1>7, <3>2 DEF Steady
  <2>5. Active(u) \cap Adds(x) = {} /\ Active(u) \cap Lifts(x) = {}
    BY <2>4
  <2>6. Cardinality({}) = 0
    BY FS_EmptySet
  <2>7. Due(u, G, x) = 0 + (0 - 0)
    BY <2>3, <2>5, <2>6 DEF Due
  <2>8. QED
    BY <2>1, <2>7
<1>8. QED
  BY <1>5, <1>6, <1>7 DEF Balanced, Counted

LEMMA BalancedCalm ==
  ASSUME NEW t, NEW G, Balanced(t, G), NEW u, Even(t, u), u.active = t.active, u.held = t.held
  PROVE  Balanced(u, G)
<1>1. Active(u) = Active(t)
  BY DEF Active
<1>2. \A x \in Gauges : Level(u, x) = Level(t, x) /\ Due(u, G, x) = Due(t, G, x)
  BY <1>1 DEF Even, Due
<1>3. Counted(u, G)
  BY <1>2 DEF Balanced, Counted
<1>4. QED
  BY <1>1, <1>3 DEF Balanced, Owned

LEMMA BalancedWorked ==
  ASSUME setting \in Settings, dragsLast, NEW t \in Sound, NEW H, IsFiniteSet(H), Balanced(t, H),
         NEW e \in Event, Fits(Every, H, e), NEW choice \in Choice
  PROVE  Balanced(worked(t, e, choice), Moves(Every, H, e))
<1> DEFINE G == Moves(Every, H, e)
           w == remapped(received(t, e), e, choice)
           y == settled(w, e)
           z == finished(y, e)
<1>1. z = worked(t, e, choice)
  BY DEF worked
<1>2. IsFiniteSet(G)
  BY HeldMoves
<1>3. w \in Sound /\ Balanced(w, G)
  <2>1. w = remapped(received(t, e), e, choice)
    OBVIOUS
  <2> HIDE DEF w
  <2>2. QED
    BY <2>1, BalancedRemapped
<1> HIDE DEF w, G
<1>4. y \in Sound /\ Balanced(y, G)
  <2>1. y \in Sound
    BY <1>3, SettledIs DEF Less
  <2>2. CASE e.type = "key" /\ w.held <= 0
    <3>1. y = flush(w)
      BY <2>2 DEF settled
    <3>2. Flushed(w, y)
      BY <1>3, <3>1, FlushIs
    <3> HIDE DEF y
    <3>3. QED
      BY <1>2, <1>3, <2>1, <2>2, <3>2, BalancedFlushed
  <2>3. CASE ~(e.type = "key" /\ w.held <= 0)
    BY <1>3, <2>3 DEF settled
  <2>4. QED
    BY <2>1, <2>2, <2>3
<1> HIDE DEF y
<1>5. Calm(y, z) /\ z.active = y.active /\ z.held = y.held
  BY <1>4, FinishedCalm, FinishedIs, SoundIs DEF Less
<1> HIDE DEF z
<1>6. Balanced(z, G)
  BY <1>4, <1>5, BalancedCalm DEF Calm
<1>7. QED
  BY <1>1, <1>6 DEF G

-------------------------------------------------------------------------------
(***************************************************************************)
(* What the devices are told.  With all buttons up for the counts, the     *)
(* last report of the buttons for output releases them on every device, or *)
(* all have been told so.                                                  *)
(***************************************************************************)
Release == [buttons |-> {}, move |-> FALSE]

Cleared(q, to, D) ==
  \E n \in 0 .. Len(q) :
    /\ \A m \in n + 1 .. Len(q) : q[m].buttons = {}
    /\ n = 0 => \A d \in D : to[d] = {}
    /\ n > 0 => q[n] = Release

LEMMA ClearedAt ==
  ASSUME NEW q, NEW to, NEW D, NEW n \in 0 .. Len(q),
         \A m \in n + 1 .. Len(q) : q[m].buttons = {},
         n = 0 => \A d \in D : to[d] = {}, n > 0 => q[n] = Release
  PROVE  Cleared(q, to, D)
  BY DEF Cleared

LEMMA ClearedNow ==
  ASSUME NEW q, Len(q) \in Nat, \A m \in 1 .. Len(q) : q[m].buttons = {}, NEW to, NEW D,
         \A d \in D : to[d] = {}
  PROVE  Cleared(q, to, D)
<1>1. ASSUME NEW m \in 0 + 1 .. Len(q) PROVE q[m].buttons = {}
  <2>1. m \in 1 .. Len(q)
    OBVIOUS
  <2>2. QED
    BY <2>1
<1>2. 0 \in 0 .. Len(q)
  OBVIOUS
<1>3. QED
  BY <1>1, <1>2 DEF Cleared

LEMMA ClearedLast ==
  ASSUME NEW q \in Seq(Pointer), q # << >>, Last(q) = Release, NEW to, NEW D
  PROVE  Cleared(q, to, D)
<1>1. Len(q) \in Nat /\ Len(q) > 0 /\ Len(q) \in 0 .. Len(q)
  OBVIOUS
<1>2. q[Len(q)] = Release
  BY DEF Last
<1>3. \A m \in Len(q) + 1 .. Len(q) : q[m].buttons = {}
  BY <1>1
<1>4. QED
  BY <1>1, <1>2, <1>3 DEF Cleared

LEMMA ClearedOn ==
  ASSUME NEW q \in Seq(Pointer), NEW to, NEW D, Cleared(q, to, D), NEW p \in Pointer,
         p.buttons = {}
  PROVE  Cleared(Append(q, p), to, D)
<1> DEFINE r == Append(q, p)
<1>1. Len(q) \in Nat /\ Len(r) = Len(q) + 1 /\ r[Len(q) + 1] = p
      /\ \A m \in 1 .. Len(q) : r[m] = q[m]
  OBVIOUS
<1>2. PICK n \in 0 .. Len(q) :
        /\ \A m \in n + 1 .. Len(q) : q[m].buttons = {}
        /\ n = 0 => \A d \in D : to[d] = {}
        /\ n > 0 => q[n] = Release
  BY DEF Cleared
<1> HIDE DEF r
<1>3. n \in 0 .. Len(r) /\ (n > 0 => n \in 1 .. Len(q))
  BY <1>1
<1>4. ASSUME NEW m \in n + 1 .. Len(r) PROVE r[m].buttons = {}
  <2>1. (m \in 1 .. Len(q) /\ m \in n + 1 .. Len(q)) \/ m = Len(q) + 1
    BY <1>1, <1>3
  <2>2. QED
    BY <1>1, <1>2, <2>1
<1>5. n > 0 => r[n] = Release
  BY <1>1, <1>2, <1>3
<1>6. QED
  BY <1>2, <1>3, <1>4, <1>5 DEF Cleared, r

\* Delivering the first of them.
LEMMA ClearedTail ==
  ASSUME NEW q \in Seq(Pointer), q # << >>, NEW to, NEW next, NEW D, Cleared(q, to, D),
         \A d \in D : next[d] = to[d] \/ next[d] = Head(q).buttons,
         Head(q) = Release => \A d \in D : next[d] = {}
  PROVE  Cleared(Tail(q), next, D)
<1> DEFINE r == Tail(q)
<1>1. Len(q) \in Nat /\ Len(q) > 0 /\ Len(r) = Len(q) - 1 /\ Head(q) = q[1]
      /\ \A m \in 1 .. Len(q) - 1 : r[m] = q[m + 1]
  OBVIOUS
<1>2. PICK n \in 0 .. Len(q) :
        /\ \A m \in n + 1 .. Len(q) : q[m].buttons = {}
        /\ n = 0 => \A d \in D : to[d] = {}
        /\ n > 0 => q[n] = Release
  BY DEF Cleared
<1> HIDE DEF r
<1>3. CASE n \in {0, 1}
  <2>1. ASSUME NEW m \in 1 .. Len(r) PROVE r[m].buttons = {}
    <3>1. m \in 1 .. Len(q) - 1 /\ m + 1 \in n + 1 .. Len(q)
      BY <1>1, <1>3
    <3>2. QED
      BY <1>1, <1>2, <3>1
  <2>2. CASE n = 0
    <3>1. q[1].buttons = {}
      <4>1. 1 \in n + 1 .. Len(q)
        BY <1>1, <2>2
      <4>2. QED
        BY <1>2, <4>1
    <3>2. \A d \in D : next[d] = {}
      BY <1>1, <1>2, <2>2, <3>1
    <3>3. Cleared(r, next, D)
      BY <1>1, <2>1, <3>2, ClearedNow
    <3>4. QED
      BY <3>3 DEF r
  <2>3. CASE n = 1
    <3>1. \A d \in D : next[d] = {}
      BY <1>1, <1>2, <2>3
    <3>2. Cleared(r, next, D)
      BY <1>1, <2>1, <3>1, ClearedNow
    <3>3. QED
      BY <3>2 DEF r
  <2>4. QED
    BY <1>3, <2>2, <2>3
<1>4. CASE n \notin {0, 1}
  <2> DEFINE k == n - 1
  <2>1. k \in 0 .. Len(r) /\ k > 0 /\ k + 1 = n /\ k \in 1 .. Len(q) - 1
    BY <1>1, <1>4
  <2> HIDE DEF k
  <2>2. ASSUME NEW m \in k + 1 .. Len(r) PROVE r[m].buttons = {}
    <3>1. m \in 1 .. Len(q) - 1 /\ m + 1 \in n + 1 .. Len(q)
      BY <1>1, <2>1
    <3>2. QED
      BY <1>1, <1>2, <3>1
  <2>3. r[k] = Release
    BY <1>1, <1>2, <2>1
  <2>4. Cleared(r, next, D)
    BY <2>1, <2>2, <2>3, ClearedAt
  <2>5. QED
    BY <2>4 DEF r
<1>5. QED
  BY <1>3, <1>4

LEMMA ClearedNoButtons ==
  ASSUME Buttons = {}, NEW q \in Seq(Pointer), NEW to \in [Pointings -> SUBSET Buttons],
         NEW D \in SUBSET Pointings
  PROVE  Cleared(q, to, D)
<1>1. \A d \in D : to[d] = {}
  OBVIOUS
<1>2. ASSUME NEW m \in 1 .. Len(q) PROVE q[m].buttons = {}
  <2>1. q[m] \in Pointer
    BY ElementIs
  <2>2. QED
    BY <2>1 DEF Pointer
<1>3. QED
  BY <1>1, <1>2, ClearedNow

LEMMA ClearedSpeaks ==
  ASSUME NEW t \in Typed, NEW u \in Typed, Speaks(t, u), NEW to, NEW D,
         makeButtons(t) = {} => Cleared(t.out, to, D), makeButtons(u) = {}
  PROVE  Cleared(u.out, to, D)
<1>1. t.out \in Seq(Pointer) /\ u.out \in Seq(Pointer)
  BY TypedIs
<1>2. CASE Spoken(u)
  <2>1. u.out # << >> /\ Last(u.out) = Release
    BY <1>2 DEF Spoken, Release
  <2>2. QED
    BY <1>1, <2>1, ClearedLast
<1>3. CASE makeButtons(t) = {} /\ u.out = t.out
  BY <1>3
<1>4. CASE makeButtons(t) = {} /\ u.out = Append(t.out, [buttons |-> makeButtons(t), move |-> TRUE])
  <2> DEFINE p == [buttons |-> {}, move |-> TRUE]
  <2>1. p \in Pointer /\ p.buttons = {} /\ u.out = Append(t.out, p)
    BY <1>4 DEF Pointer
  <2> HIDE DEF p
  <2>2. QED
    BY <1>1, <1>4, <2>1, ClearedOn
<1>5. QED
  BY <1>2, <1>3, <1>4 DEF Speaks

LEMMA QuietIs ==
  ASSUME NEW t, NEW u, u.out = t.out,
         \A b \in Buttons : Level(u, <<"button", b>>) = Level(t, <<"button", b>>)
  PROVE  Quiet(t, u)
<1>1. ASSUME NEW b \in Buttons PROVE u.count[b] = t.count[b]
  <2>1. Level(u, <<"button", b>>) = Level(t, <<"button", b>>)
    OBVIOUS
  <2>2. QED
    BY <2>1, LevelIs
<1>2. QED
  BY <1>1 DEF Quiet, makeButtons

LEMMA ReceivedSays ==
  ASSUME NEW t \in Sound, NEW e \in Event, Buttons # {}
  PROVE  LET v == received(t, e)
         IN v.out = t.out /\ (e.type # "button" => Quiet(t, v))
<1> DEFINE v == received(t, e)
<1>1. PICK c \in Buttons : TRUE
  OBVIOUS
<1>2. ASSUME NEW b \in Buttons
      PROVE  v.out = t.out /\ (e.type # "button" => Level(v, <<"button", b>>) = Level(t, <<"button", b>>))
  <2> DEFINE x == <<"button", b>>
  <2>1. x \in Gauges
    BY GaugeMade
  <2>2. x = <<"button", b>>
    OBVIOUS
  <2> HIDE DEF x
  <2>3. Turns(t, v, x, Sign(e.down, Own(x, e)))
    BY <2>1, ReceivedTurns
  <2>4. e.type # "button" => Own(x, e) = 0
    BY <2>2 DEF Own, What
  <2>5. e.type # "button" => Sign(e.down, Own(x, e)) = 0
    BY <2>4 DEF Sign
  <2>6. Level(t, x) \in Int
    BY <2>1, LevelType, SoundIs
  <2> HIDE DEF v
  <2>7. v.out = t.out /\ (e.type # "button" => Level(v, x) = Level(t, x))
    BY <2>3, <2>5, <2>6 DEF Turns, Shifts
  <2>8. QED
    BY <2>7 DEF x
<1> HIDE DEF v
<1>3. v.out = t.out
  BY <1>1, <1>2
<1>4. e.type # "button" => Quiet(t, v)
  BY <1>2, <1>3, QuietIs
<1>5. QED
  BY <1>3, <1>4 DEF v

LEMMA DoesToButton ==
  ASSUME setting \in Settings, NEW i \in DOMAIN rules, NEW b \in Buttons
  PROVE  LET x == <<"button", b>>
             k == rules[i].kind
         IN /\ k \in {"KeyToConsumer", "ConsumerToConsumer", "ConsumerToKey",
                      "PointingRelativeToScroll", "DropPointingRelativeCursorMove"} => Does(i, x) = 0
            /\ k = "PointingButtonToKey" => Does(i, x) = 0 - Button(x, rules[i].from)
<1> DEFINE x == <<"button", b>>
           k == rules[i].kind
           h == Button(x, rules[i].from)
<1>1. x \in Gauges
  BY GaugeMade
<1>2. \A mods : Flag(x, mods) = 0
  BY DEF Flag
<1>3. Turned(i, x) = 0
  BY <1>2 DEF Turned
<1>4. h \in Int
  BY DEF Button
<1>5. /\ k = "KeyToConsumer" => Does(i, x) = 0 - Flag(x, modifierOf(rules[i].from))
      /\ k \in {"ConsumerToConsumer", "PointingRelativeToScroll",
                "DropPointingRelativeCursorMove"} => Does(i, x) = 0
      /\ k = "ConsumerToKey" => Does(i, x) = Turned(i, x)
      /\ k = "PointingButtonToKey" => Does(i, x) = Turned(i, x) - h
  BY <1>1, DoesIs
<1> HIDE DEF x, h, k
<1>6. QED
  BY <1>2, <1>3, <1>4, <1>5 DEF x, h, k

\* A rule converts an event and says nothing, the buttons being as they were, or what
\* is pressed.
LEMMA ConvertSpeaks ==
  ASSUME setting \in Settings, Buttons # {}, NEW t \in Sound, NEW e \in Event, NEW choice \in Choice,
         NEW v, v = received(t, e), NEW i \in DOMAIN rules, takes(v, i, e),
         NEW w, w = convert(v, i, e, choice)
  PROVE  LET k == rules[i].kind
         IN /\ k \in {"KeyToConsumer", "ConsumerToConsumer", "ConsumerToKey",
                      "PointingButtonToKey", "DropPointingRelativeCursorMove"} => Quiet(t, w)
            /\ k = "KeyToPointingButton" => Speaks(t, w)
            /\ k = "PointingButtonToPointingButton" /\ Len(rules[i].to) \in {1, 2} => Speaks(t, w)
<1> DEFINE k == rules[i].kind
           from == isFrom(v, i, e)
<1>1. /\ v \in Sound /\ v \in Typed /\ t \in Typed /\ e.down \in BOOLEAN
      /\ v.out = t.out /\ (e.type # "button" => Quiet(t, v))
  BY ReceivedIs, ReceivedSays, SoundIs, EventIs DEF Same
<1>2. PICK c \in Buttons : TRUE
  OBVIOUS
<1>3. ConvertSays(v, w, i, e)
  <2>1. <<"button", c>> \in Gauges
    BY GaugeMade
  <2>2. QED
    BY <1>1, <2>1, ConvertTurns
<1>4. /\ from => rules[i].from # NONE /\ e.type = fromType(k) /\ e.what = rules[i].from
      /\ k \in {"KeyToConsumer", "ConsumerToConsumer", "ConsumerToKey",
                "KeyToPointingButton", "PointingButtonToKey"} => from
  BY TakesFrom DEF isFrom
<1>5. k = "DropPointingRelativeCursorMove" => e.type = "move" /\ ~from
  <2>1. ASSUME k = "DropPointingRelativeCursorMove" PROVE e.type = "move" /\ ~from
    <3>1. rules[i].from = NONE
      BY <2>1, RulesAre DEF wellFormed
    <3>2. ~from
      BY <1>4, <3>1
    <3>3. QED
      BY <2>1, <3>2 DEF takes
  <2>2. QED
    BY <2>1
<1>6. ASSUME k \in {"KeyToConsumer", "ConsumerToConsumer", "ConsumerToKey",
                    "PointingButtonToKey", "DropPointingRelativeCursorMove"}
      PROVE  Quiet(t, w)
  <2>1. w.out = t.out
    BY <1>1, <1>3, <1>6 DEF ConvertSays
  <2>2. ASSUME NEW b \in Buttons
        PROVE  Level(w, <<"button", b>>) = Level(t, <<"button", b>>)
    <3> DEFINE x == <<"button", b>>
               m == Sign(e.down, Own(x, e))
               n == IF from THEN Sign(e.down, Does(i, x)) ELSE 0
    <3>1. x \in Gauges /\ x = <<"button", b>>
      BY GaugeMade
    <3>2. Level(v, x) = Level(t, x) + m
      BY <3>1, ReceivedTurns DEF Turns, Shifts
    <3>3. Level(w, x) = Level(v, x) + n
      BY <1>1, <3>1, ConvertTurns DEF Shifts
    <3>4. Level(t, x) \in Int
      BY <1>1, <3>1, LevelType
    <3>5. CASE k = "PointingButtonToKey"
      <4>1. What(e) = <<"button", rules[i].from>> /\ from
        BY <1>4, <3>5 DEF What, fromType
      <4> DEFINE h == Button(x, rules[i].from)
      <4>2. Does(i, x) = 0 - h
        BY <3>5, DoesToButton
      <4>3. Own(x, e) = h /\ h \in Int
        BY <4>1 DEF Own, Button
      <4> HIDE DEF h, x, from
      <4>4. m + n = 0 /\ m \in Int /\ n \in Int
        BY <1>1, <4>1, <4>2, <4>3 DEF Sign
      <4> HIDE DEF m, n
      <4>5. Level(w, x) = Level(t, x)
        BY <3>2, <3>3, <3>4, <4>4
      <4>6. QED
        BY <4>5 DEF x
    <3>6. CASE k # "PointingButtonToKey"
      <4>1. e.type # "button"
        BY <1>4, <1>5, <1>6, <3>6 DEF fromType
      <4>2. Own(x, e) = 0 /\ Does(i, x) = 0
        BY <1>6, <3>6, <4>1, DoesToButton DEF Own, What
      <4> HIDE DEF x, from
      <4>3. m = 0 /\ n = 0
        BY <4>2 DEF Sign
      <4> HIDE DEF m, n
      <4>4. Level(w, x) = Level(t, x)
        BY <3>2, <3>3, <3>4, <4>3
      <4>5. QED
        BY <4>4 DEF x
    <3>7. QED
      BY <3>5, <3>6
  <2>3. QED
    BY <2>1, <2>2, QuietIs
<1>7. ASSUME k = "KeyToPointingButton" PROVE Speaks(t, w)
  <2>1. e.type # "button"
    BY <1>4, <1>7 DEF fromType
  <2>2. Speaks(v, w)
    BY <1>3, <1>7 DEF ConvertSays
  <2>3. QED
    BY <1>1, <2>1, <2>2, QuietSpeaks
<1>8. ASSUME k = "PointingButtonToPointingButton", Len(rules[i].to) \in {1, 2} PROVE Speaks(t, w)
  <2>1. Spoken(w) \/ (e.type = "move" /\ Speaks(v, w))
    BY <1>3, <1>8 DEF ConvertSays
  <2>2. CASE Spoken(w)
    BY <2>2 DEF Speaks
  <2>3. CASE e.type = "move" /\ Speaks(v, w)
    BY <1>1, <2>3, QuietSpeaks
  <2>4. QED
    BY <2>1, <2>2, <2>3
<1>9. QED
  BY <1>6, <1>7, <1>8

LEMMA RecoveredSpoken ==
  ASSUME NEW t, recovered(t)
  PROVE  Spoken(t) /\ Last(t.out) = Release
<1>1. makeButtons(t) = {}
  BY DEF recovered, makeButtons
<1>2. QED
  BY <1>1 DEF recovered, Spoken, Release

\* The same, when no rule keeps a pointing event for itself.
LEMMA WorkedSpeaks ==
  ASSUME setting \in Settings, Buttons # {}, NEW t \in Sound, NEW e \in Event, NEW choice \in Choice,
         \A i \in DOMAIN rules : firesAll(rules[i])
  PROVE  Speaks(t, worked(t, e, choice))
<1> DEFINE v == received(t, e)
           w == remapped(v, e, choice)
           y == settled(w, e)
           z == finished(y, e)
<1>1. z = worked(t, e, choice)
  BY DEF worked
<1>2. v \in Sound /\ v.out = t.out /\ (e.type # "button" => Quiet(t, v))
  BY ReceivedIs, ReceivedSays DEF Same
<1>3. w \in Sound
  BY <1>2, RemappedIs, RemappedSound
<1>4. Speaks(t, w)
  <2>1. \/ (\A i \in DOMAIN rules : ~takes(v, i, e)) /\ w = passThrough(v, e)
        \/ \E i : First(v, i, e) /\ w = convert(v, i, e, choice)
    BY RemappedBy
  <2>2. v = received(t, e)
    OBVIOUS
  <2> HIDE DEF v, w
  <2>3. CASE w = passThrough(v, e)
    <3>1. PICK c \in Buttons : TRUE
      OBVIOUS
    <3>2. <<"button", c>> \in Gauges /\ v \in Typed
      BY <1>2, GaugeMade, SoundIs
    <3>3. /\ ~pointing(e) => Calm(v, w)
          /\ pointing(e) => Spoken(w) \/ (e.type = "move" /\ Speaks(v, w))
      BY <2>3, <3>2, PassTurns
    <3>4. CASE ~pointing(e)
      <4>1. e.type # "button" /\ Quiet(v, w)
        BY <3>3, <3>4, CalmQuiet DEF pointing
      <4>2. Speaks(v, w)
        BY <4>1, QuietSpeaks
      <4>3. QED
        BY <1>2, <4>1, <4>2, QuietSpeaks
    <3>5. CASE Spoken(w)
      BY <3>5 DEF Speaks
    <3>6. CASE e.type = "move" /\ Speaks(v, w)
      BY <1>2, <3>6, QuietSpeaks
    <3>7. QED
      BY <3>3, <3>4, <3>5, <3>6
  <2>4. ASSUME NEW i, First(v, i, e), w = convert(v, i, e, choice)
        PROVE  Speaks(t, w)
    <3>1. i \in DOMAIN rules /\ takes(v, i, e) /\ rules[i].kind \in Kinds /\ firesAll(rules[i])
      BY <2>4, RuleMakes DEF First
    <3>2. LET k == rules[i].kind
          IN /\ k \in {"KeyToConsumer", "ConsumerToConsumer", "ConsumerToKey",
                       "PointingButtonToKey", "DropPointingRelativeCursorMove"} => Quiet(t, w)
             /\ k = "KeyToPointingButton" => Speaks(t, w)
             /\ k = "PointingButtonToPointingButton" /\ Len(rules[i].to) \in {1, 2} => Speaks(t, w)
      BY <2>2, <2>4, <3>1, ConvertSpeaks
    <3>3. QED
      BY <3>1, <3>2, QuietSpeaks DEF firesAll, Kinds
  <2>5. QED
    BY <2>1, <2>3, <2>4
<1> HIDE DEF w
<1>5. y \in Sound /\ Speaks(t, y)
  <2>1. y \in Sound
    BY <1>3, SettledIs DEF Less
  <2>2. CASE e.type = "key" /\ w.held <= 0
    <3>1. recovered(y)
      BY <1>3, <2>2, SettledIs
    <3> HIDE DEF y
    <3>2. QED
      BY <2>1, <3>1, RecoveredSpoken DEF Speaks
  <2>3. CASE ~(e.type = "key" /\ w.held <= 0)
    BY <1>3, <1>4, <2>3 DEF settled
  <2>4. QED
    BY <2>1, <2>2, <2>3
<1> HIDE DEF y
<1>6. Calm(y, z)
  BY <1>5, FinishedCalm, SoundIs
<1> HIDE DEF z
<1>7. Speaks(t, z)
  BY <1>5, <1>6, CalmQuiet, QuietSpeaks
<1>8. QED
  BY <1>1, <1>7

\* The only button there is, and rules that scroll while it is pressed.
AllButtons == UNION {setting.buttons[d] : d \in Pointings}

Within(H) == \A b : <<"button", b>> \in H => b \in AllButtons

Lone ==
  /\ Cardinality(AllButtons) <= 1
  /\ \A i \in DOMAIN rules :
       rules[i].kind \notin {"KeyToPointingButton", "PointingButtonToPointingButton"}

Scrolls(t) == \E i \in Active(t) : rules[i].kind = "PointingRelativeToScroll"

LEMMA AllButtonsAre ==
  ASSUME setting \in Settings
  PROVE  AllButtons \subseteq Buttons /\ \A d \in Pointings : setting.buttons[d] \subseteq AllButtons
<1>1. setting.buttons \in [Pointings -> SUBSET Buttons]
  BY DevicesConstants
<1>2. QED
  BY <1>1 DEF AllButtons

LEMMA LoneIs ==
  ASSUME setting \in Settings, Lone
  PROVE  \A b, c \in AllButtons : b = c
<1> DEFINE U == AllButtons
<1>1. IsFiniteSet(U) /\ Cardinality(U) \in Nat
  BY AllButtonsAre, FiniteDevices, FS_Subset, FS_CardinalityType
<1>2. Cardinality(U) <= 1
  BY DEF Lone
<1> HIDE DEF U
<1>3. Cardinality(U) = 0 \/ Cardinality(U) = 1
  BY <1>1, <1>2
<1>4. U = {} \/ \E b : U = {b}
  BY <1>1, <1>3, FS_EmptySet, FS_Singleton
<1>5. QED
  BY <1>4 DEF U

LEMMA LoneCounts ==
  ASSUME setting \in Settings, Lone, NEW t, NEW H, Balanced(t, H), NEW b \in Buttons
  PROVE  LET x == <<"button", b>>
         IN x \notin H => Level(t, x) <= 0
<1> DEFINE x == <<"button", b>>
           l == Cardinality(Active(t) \cap Lifts(x))
<1>1. x \in Gauges
  BY GaugeMade
<1>2. Adds(x) = {}
  BY DEF Adds, pressesButton, Lone
<1>3. ASSUME NEW i \in Lifts(x) PROVE Source(i) # CapsKey
  <2>1. rules[i].kind \in {"PointingButtonToKey", "PointingButtonToPointingButton"}
    BY <1>3 DEF Lifts, hidesButton
  <2>2. QED
    BY <2>1 DEF Source, fromType, CapsKey
<1> HIDE DEF x
<1>4. Steady(x)
  BY <1>2, <1>3 DEF Steady
<1>5. Level(t, x) = Due(t, H, x)
  BY <1>1, <1>4 DEF Balanced, Counted
<1>6. l \in Nat
  BY ActiveIs
<1>7. Cardinality(Active(t) \cap Adds(x)) = 0
  BY <1>2, FS_EmptySet
<1>8. x \notin H => Level(t, x) = 0 + (0 - l)
  BY <1>5, <1>7 DEF Due, In
<1> HIDE DEF l
<1>9. x \notin H => Level(t, x) <= 0
  BY <1>6, <1>8
<1>10. QED
  BY <1>9 DEF x

\* The button is pressed and scrolls: its release is reported.
LEMMA ScrollStarts ==
  ASSUME setting \in Settings, Lone, s \in Sound, NEW H, Balanced(s, H), Within(H),
         NEW e \in Event, e.type = "button", e.down, What(e) \notin H, e.what \in AllButtons,
         NEW choice \in Choice, NEW v, v = received(s, e), NEW i \in DOMAIN rules, takes(v, i, e),
         isFrom(v, i, e), ~s.active[i], rules[i].kind = "PointingRelativeToScroll",
         NEW w, w = convert(v, i, e, choice)
  PROVE  w.out = Append(s.out, Release)
<1> DEFINE u == marked(v, i, e)
           c == rules[i].from
           p == plus(u, c, -1)
<1>1. c = e.what /\ c # NONE /\ c \in Buttons /\ What(e) = <<"button", c>>
  BY AllButtonsAre DEF isFrom, What
<1>2. <<"button", c>> \in Gauges /\ Buttons # {}
  BY <1>1, GaugeMade
<1>3. v \in Typed /\ v.out = s.out
  BY <1>2, ReceivedIs, ReceivedSays, SoundIs DEF Same
<1>4. ConvertSays(v, w, i, e)
  BY <1>2, <1>3, ConvertTurns
<1>5. Calm(v, u) /\ u \in Typed
  BY <1>3, MarkedCalm
<1>6. w.out = Append(v.out, [buttons |-> makeButtons(p), move |-> FALSE])
  BY <1>1, <1>4 DEF ConvertSays
<1> HIDE DEF u, p
<1>7. ASSUME NEW b \in Buttons PROVE ~(p.count[b] > 0)
  <2> DEFINE x == <<"button", b>>
             m == IF b = c THEN 1 ELSE 0
  <2>1. x \in Gauges
    BY GaugeMade
  <2>2. x = <<"button", c>> <=> b = c
    OBVIOUS
  <2>3. Sign(e.down, Own(x, e)) = m
    BY <1>1, <2>2 DEF Sign, Own
  <2>4. Level(v, x) = Level(s, x) + m
    BY <2>1, <2>3, ReceivedTurns DEF Turns, Shifts
  <2>5. Level(u, x) = Level(v, x)
    BY <1>5, <2>1 DEF Calm, Even
  <2>6. Level(p, x) = Level(u, x) + (0 - m)
    <3>1. -1 \in Int
      OBVIOUS
    <3>2. Level(p, x) = Level(u, x) + IF x = <<"button", c>> THEN -1 ELSE 0
      BY <1>1, <1>5, <2>1, <3>1, PlusTurns DEF Turns, Shifts, p
    <3> HIDE DEF x
    <3>3. QED
      BY <2>2, <3>2
  <2>7. Level(s, x) \in Int
    BY <2>1, LevelType, SoundIs
  <2>8. Level(s, x) <= 0
    <3>1. x \notin H
      <4>1. CASE b = c
        BY <1>1, <4>1
      <4>2. CASE b # c
        BY <4>2, <1>1, LoneIs DEF Within
      <4>3. QED
        BY <4>1, <4>2
    <3>2. QED
      BY <3>1, LoneCounts
  <2>9. Level(p, x) = p.count[b]
    BY LevelIs
  <2>10. m \in Int
    OBVIOUS
  <2> HIDE DEF x, m
  <2>11. QED
    BY <2>4, <2>5, <2>6, <2>7, <2>8, <2>9, <2>10
<1>8. makeButtons(p) = {}
  BY <1>7 DEF makeButtons
<1>9. QED
  BY <1>3, <1>6, <1>8 DEF Release

\* Anything but a button says nothing, as long as a rule scrolls.
LEMMA ScrollGoesOn ==
  ASSUME setting \in Settings, Buttons # {}, Lone, s \in Sound, NEW e \in Event, e.type # "button",
         NEW choice \in Choice, NEW v, v = received(s, e), NEW i \in DOMAIN rules, takes(v, i, e),
         NEW w, w = convert(v, i, e, choice)
  PROVE  w.out = s.out
<1> DEFINE k == rules[i].kind
<1>1. PICK c \in Buttons : TRUE
  OBVIOUS
<1>2. v \in Typed /\ v.out = s.out /\ v.active = s.active
  BY ReceivedIs, ReceivedSays, SoundIs DEF Same
<1>3. ConvertSays(v, w, i, e)
  BY <1>1, <1>2, GaugeMade, ConvertTurns
<1>4. k \in {"KeyToConsumer", "ConsumerToConsumer", "ConsumerToKey", "PointingButtonToKey",
             "DropPointingRelativeCursorMove", "PointingRelativeToScroll"}
  BY RuleMakes DEF Kinds, Lone
<1>5. CASE k # "PointingRelativeToScroll"
  BY <1>2, <1>3, <1>4, <1>5 DEF ConvertSays
<1>6. CASE k = "PointingRelativeToScroll"
  <2>1. ~isFrom(v, i, e)
    BY <1>6 DEF isFrom, fromType
  <2>2. rules[i].from = NONE \/ v.active[i]
    BY <1>6, <2>1 DEF takes
  <2>3. marked(v, i, e) = v
    BY <2>1 DEF marked
  <2>4. QED
    BY <1>2, <1>3, <1>6, <2>2, <2>3 DEF ConvertSays
<1>7. QED
  BY <1>5, <1>6

LEMMA ScrollRemapped ==
  ASSUME setting \in Settings, dragsLast, Lone, s \in Sound, NEW H, IsFiniteSet(H),
         Balanced(s, H), Within(H), NEW e \in Event, Fits(Every, H, e),
         e.type = "button" => e.what \in AllButtons, NEW choice \in Choice, NEW to, NEW D,
         Scrolls(s) => Cleared(s.out, to, D),
         NEW w, w = remapped(received(s, e), e, choice), Scrolls(w)
  PROVE  Cleared(w.out, to, D)
<1> DEFINE v == received(s, e)
           G == Moves(Every, H, e)
<1>1. PICK j \in Active(w) : rules[j].kind = "PointingRelativeToScroll"
  BY DEF Scrolls
<1>2. w \in Sound /\ Balanced(w, G)
  BY BalancedRemapped
<1>3. /\ j \in DOMAIN rules /\ Source(j) = <<"button", rules[j].from>> /\ Source(j) \in G
      /\ w.active[j]
  BY <1>1, <1>2 DEF Source, fromType, Balanced, Owned, Active
<1>4. /\ e.type \in Every /\ e.down => What(e) \notin H /\ G = H \cup {What(e)}
      /\ e.type \in Every /\ ~e.down => What(e) \in H /\ G = H \ {What(e)}
      /\ e.type \notin Every => G = H
  BY MovesIs
<1>5. e.down \in BOOLEAN /\ s.active \in [DOMAIN rules -> BOOLEAN]
  BY EventIs, SoundIs, TypedIs
<1>6. rules[j].from \in AllButtons
  <2>1. CASE Source(j) \in H
    BY <1>3, <2>1 DEF Within
  <2>2. CASE Source(j) \notin H
    <3>1. Source(j) = What(e)
      <4> HIDE DEF G
      <4>1. QED
        BY <1>3, <1>4, <1>5, <2>2
    <3>2. QED
      BY <1>3, <3>1 DEF What
  <2>3. QED
    BY <2>1, <2>2
<1>7. Buttons # {}
  BY <1>6, AllButtonsAre
<1>8. v \in Sound /\ v.active = s.active /\ v.out = s.out /\ v = received(s, e) /\ s.out \in Seq(Pointer)
  BY <1>7, ReceivedIs, ReceivedSays, SoundIs, TypedIs DEF Same
<1>9. \/ (\A i \in DOMAIN rules : ~takes(v, i, e)) /\ w = passThrough(v, e)
      \/ \E i : First(v, i, e) /\ w = convert(v, i, e, choice)
  BY RemappedBy
<1> HIDE DEF v, G
<1>10. CASE s.active[j]
  <2>1. Scrolls(s) /\ Source(j) \in H
    BY <1>1, <1>3, <1>10 DEF Scrolls, Balanced, Owned, Active
  <2>2. Cleared(s.out, to, D)
    BY <2>1
  <2>3. e.type # "button"
    <3>1. ASSUME e.type = "button" PROVE FALSE
      <4>1. e.type \in Every
        BY <3>1 DEF Every
      <4>2. e.what = rules[j].from
        BY <1>6, <3>1, LoneIs
      <4>3. What(e) = Source(j)
        BY <1>3, <3>1, <4>2 DEF What
      <4>4. QED
        BY <1>3, <1>4, <1>5, <2>1, <4>1, <4>3
    <3>2. QED
      BY <3>1
  <2>4. w.out = s.out
    <3>1. ASSUME NEW i, First(v, i, e), w = convert(v, i, e, choice) PROVE w.out = s.out
      <4>1. i \in DOMAIN rules /\ takes(v, i, e)
        BY <3>1 DEF First
      <4>2. QED
        BY <1>7, <1>8, <2>3, <3>1, <4>1, ScrollGoesOn
    <3>2. ASSUME \A i \in DOMAIN rules : ~takes(v, i, e), w = passThrough(v, e)
          PROVE  w.out = s.out
      <4>1. ~pointing(e)
        BY <1>1, <1>3, <1>8, <1>10, <3>2 DEF takes
      <4>2. <<"button", rules[j].from>> \in Gauges /\ v \in Typed
        BY <1>6, <1>8, AllButtonsAre, GaugeMade, SoundIs
      <4>3. Calm(v, w)
        BY <3>2, <4>1, <4>2, PassTurns
      <4>4. QED
        BY <1>8, <4>3 DEF Calm
    <3>3. QED
      BY <1>9, <3>1, <3>2
  <2>5. QED
    BY <2>2, <2>4
<1>11. CASE ~s.active[j]
  <2>1. ASSUME \A i \in DOMAIN rules : ~takes(v, i, e), w = passThrough(v, e) PROVE FALSE
    <3>1. Passed(v, w, e)
      BY <1>8, <2>1, PassIs
    <3>2. w.active = v.active
      BY <3>1 DEF Passed, ConsumerMade, Keeps, Bears
    <3>3. QED
      BY <1>3, <1>8, <1>11, <3>2
  <2>2. ASSUME NEW i, First(v, i, e), w = convert(v, i, e, choice) PROVE Cleared(w.out, to, D)
    <3>1. i \in DOMAIN rules /\ takes(v, i, e)
      BY <2>2 DEF First
    <3>2. Converted(marked(v, i, e), w, i, e.down)
      BY <1>8, <2>2, <3>1, ConvertIs
    <3>3. w.active = marked(v, i, e).active
      BY <3>2 DEF Converted, Made, Keeps, Bears
    <3>4. w.active = IF isFrom(v, i, e) THEN [s.active EXCEPT ![i] = e.down] ELSE s.active
      BY <1>8, <3>1, <3>3, MarkedIs
    <3>5. isFrom(v, i, e) /\ i = j /\ e.down
      BY <1>3, <1>5, <1>11, <3>1, <3>4
    <3>6. e.type = "button" /\ e.type \in Every
      BY <1>1, <3>5 DEF isFrom, fromType, Every
    <3>7. What(e) \notin H /\ e.what \in AllButtons
      BY <1>4, <3>5, <3>6
    <3>8. w.out = Append(s.out, Release)
      BY <1>1, <1>3, <1>8, <1>11, <2>2, <3>1, <3>5, <3>6, <3>7, ScrollStarts
    <3>9. Release \in Pointer
      BY DEF Release, Pointer
    <3>10. w.out \in Seq(Pointer) /\ w.out # << >> /\ Last(w.out) = Release
      BY <1>8, <3>8, <3>9 DEF Last
    <3>11. QED
      BY <3>10, ClearedLast
  <2>3. QED
    BY <1>9, <2>1, <2>2
<1>12. QED
  BY <1>5, <1>10, <1>11

LEMMA WorkedScroll ==
  ASSUME setting \in Settings, dragsLast, Lone, s \in Sound, NEW H, IsFiniteSet(H),
         Balanced(s, H), Within(H), NEW e \in Event, Fits(Every, H, e),
         e.type = "button" => e.what \in AllButtons, NEW choice \in Choice, NEW to, NEW D,
         Scrolls(s) => Cleared(s.out, to, D), Scrolls(worked(s, e, choice))
  PROVE  Cleared(worked(s, e, choice).out, to, D)
<1> DEFINE w == remapped(received(s, e), e, choice)
           y == settled(w, e)
           z == finished(y, e)
<1>1. z = worked(s, e, choice) /\ w = remapped(received(s, e), e, choice)
  BY DEF worked
<1>2. w \in Sound
  BY <1>1, BalancedRemapped
<1>3. Scrolls(w) => Cleared(w.out, to, D)
  BY <1>1, ScrollRemapped
<1> HIDE DEF w
<1>4. y \in Sound /\ y.active = w.active
  BY <1>2, SettledIs DEF Less
<1>5. Scrolls(y) => Cleared(y.out, to, D)
  <2>1. CASE e.type = "key" /\ w.held <= 0
    <3>1. recovered(y)
      BY <1>2, <2>1, SettledIs
    <3>2. y.out \in Seq(Pointer) /\ y.out # << >> /\ Last(y.out) = Release
      BY <1>4, <3>1, RecoveredSpoken, SoundIs, TypedIs DEF recovered
    <3>3. QED
      BY <3>2, ClearedLast
  <2>2. CASE ~(e.type = "key" /\ w.held <= 0)
    BY <1>2, <1>3, <2>2, SettledIs
  <2>3. QED
    BY <2>1, <2>2
<1> HIDE DEF y
<1>6. Calm(y, z) /\ z.active = y.active
  BY <1>4, FinishedCalm, FinishedIs, SoundIs DEF Less
<1> HIDE DEF z
<1>7. Scrolls(z) => Cleared(z.out, to, D)
  BY <1>5, <1>6 DEF Scrolls, Active, Calm
<1>8. QED
  BY <1>1, <1>7

-------------------------------------------------------------------------------
(***************************************************************************)
(* What a report of the buttons does to what is held.                      *)
(***************************************************************************)
LEMMA LeadsJoin ==
  ASSUME NEW T, NEW H, NEW P, NEW Q, NEW q \in Seq(Event), NEW r \in Seq(Event),
         Leads(T, H, q, P), Leads(T, P, r, Q)
  PROVE  Leads(T, H, q \o r, Q)
<1>1. PICK h : Steps(T, H, q, P, h)
  BY DEF Leads
<1>2. PICK k : Steps(T, P, r, Q, k)
  BY DEF Leads
<1> DEFINE l == Len(q)
           m == Len(r)
           c == q \o r
           g == [n \in 0 .. l + m |-> IF n <= l THEN h[n] ELSE k[n - l]]
<1>3. /\ l \in Nat /\ m \in Nat /\ Len(c) = l + m
      /\ \A n \in 1 .. l : c[n] = q[n]
      /\ \A n \in 1 .. l + m : n > l => c[n] = r[n - l]
  OBVIOUS
<1>4. /\ h[0] = H /\ h[l] = P
      /\ \A n \in 1 .. l : Fits(T, h[n - 1], q[n]) /\ h[n] = Moves(T, h[n - 1], q[n])
  BY <1>1 DEF Steps
<1>5. /\ k[0] = P /\ k[m] = Q
      /\ \A n \in 1 .. m : Fits(T, k[n - 1], r[n]) /\ k[n] = Moves(T, k[n - 1], r[n])
  BY <1>2 DEF Steps
<1> HIDE DEF l, m, c
<1>6. (\A n \in 0 .. l : g[n] = h[n]) /\ \A n \in 0 .. l + m : n >= l => g[n] = k[n - l]
  <2>1. ASSUME NEW n \in 0 .. l PROVE g[n] = h[n]
    BY <1>3
  <2>2. ASSUME NEW n \in 0 .. l + m, n >= l PROVE g[n] = k[n - l]
    <3>1. CASE n = l
      <4>1. n - l = 0 /\ g[n] = h[n]
        BY <1>3, <3>1
      <4>2. QED
        BY <1>4, <1>5, <3>1, <4>1
    <3>2. CASE n # l
      BY <1>3, <2>2, <3>2
    <3>3. QED
      BY <3>1, <3>2
  <2>3. QED
    BY <2>1, <2>2
<1> HIDE DEF g
<1>7. g[0] = H /\ g[l + m] = Q
  <2>1. 0 \in 0 .. l /\ l + m \in 0 .. l + m /\ l + m >= l /\ (l + m) - l = m
    BY <1>3
  <2>2. QED
    BY <1>4, <1>5, <1>6, <2>1
<1>8. ASSUME NEW n \in 1 .. l + m
      PROVE  Fits(T, g[n - 1], c[n]) /\ g[n] = Moves(T, g[n - 1], c[n])
  <2>1. CASE n > l
    <3>1. n - l \in 1 .. m /\ n - 1 \in 0 .. l + m /\ n - 1 >= l /\ (n - 1) - l = (n - l) - 1
          /\ n \in 0 .. l + m /\ n >= l
      BY <1>3, <2>1
    <3>2. g[n - 1] = k[(n - l) - 1] /\ g[n] = k[n - l] /\ c[n] = r[n - l]
      BY <1>3, <1>6, <2>1, <3>1
    <3>3. QED
      BY <1>5, <3>1, <3>2
  <2>2. CASE ~(n > l)
    <3>1. n \in 1 .. l /\ n - 1 \in 0 .. l /\ n \in 0 .. l
      BY <1>3, <2>2
    <3>2. g[n - 1] = h[n - 1] /\ c[n] = q[n] /\ g[n] = h[n]
      BY <1>3, <1>6, <3>1
    <3>3. QED
      BY <1>4, <3>1, <3>2
  <2>3. QED
    BY <2>1, <2>2
<1>9. Steps(T, H, c, Q, g)
  BY <1>3, <1>7, <1>8 DEF Steps
<1>10. QED
  BY <1>9 DEF Leads, c

\* Some buttons go down and others come up, one after the other.
Clicks(q, f, l, new, P) ==
  /\ Len(q) = l
  /\ \A m, n \in 1 .. l : f[m] = f[n] => m = n
  /\ \A n \in 1 .. l : f[n] \in new <=> <<"button", f[n]>> \notin P
  /\ \A n \in 1 .. l :
       q[n].type = "button" /\ q[n].what = f[n] /\ (q[n].down <=> f[n] \in new)

Clicked(f, l, new, P) ==
  (P \ {<<"button", f[n]>> : n \in 1 .. l})
    \cup {<<"button", f[n]>> : n \in {n \in 1 .. l : f[n] \in new}}

LEMMA LeadsButtons ==
  ASSUME NEW f, NEW l \in Nat, NEW new, NEW P, NEW q, Clicks(q, f, l, new, P)
  PROVE  Leads(Every, P, q, Clicked(f, l, new, P))
<1>0. /\ Len(q) = l
      /\ \A m, n \in 1 .. l : f[m] = f[n] => m = n
      /\ \A n \in 1 .. l : f[n] \in new <=> <<"button", f[n]>> \notin P
      /\ \A n \in 1 .. l :
           q[n].type = "button" /\ q[n].what = f[n] /\ (q[n].down <=> f[n] \in new)
  BY DEF Clicks
<1> DEFINE X(n) == <<"button", f[n]>>
           On(n) == {X(m) : m \in {m \in 1 .. n : f[m] \in new}}
           All(n) == {X(m) : m \in 1 .. n}
           K(n) == (P \ All(n)) \cup On(n)
           h == [n \in 0 .. l |-> K(n)]
<1>1. h[0] = P
  <2>1. 1 .. 0 = {}
    OBVIOUS
  <2>2. All(0) = {} /\ On(0) = {}
    BY <2>1
  <2>3. 0 \in 0 .. l
    OBVIOUS
  <2>4. h[0] = (P \ All(0)) \cup On(0)
    BY <2>3
  <2> HIDE DEF h, On, All
  <2>5. QED
    BY <2>2, <2>4
<1>2. \A n \in 0 .. l : h[n] = K(n)
  OBVIOUS
<1>3. \A m, n \in 1 .. l : X(m) = X(n) <=> m = n
  BY <1>0
<1>4. ASSUME NEW n \in 1 .. l
      PROVE  Fits(Every, h[n - 1], q[n]) /\ h[n] = Moves(Every, h[n - 1], q[n])
  <2> DEFINE x == X(n)
             A == h[n - 1]
  <2>1. n - 1 \in 0 .. l /\ n \in 0 .. l /\ (\A m \in 1 .. n : m \in 1 .. l)
        /\ (\A m \in 1 .. n : m \in 1 .. n - 1 \/ m = n) /\ (\A m \in 1 .. n - 1 : m \in 1 .. n /\ m # n)
        /\ n \in 1 .. n
    OBVIOUS
  <2>2. A = (P \ All(n - 1)) \cup On(n - 1) /\ h[n] = (P \ All(n)) \cup On(n)
    BY <2>1
  <2>3. x \notin All(n - 1)
    BY <1>3, <2>1
  <2>4. On(n - 1) \subseteq All(n - 1)
    OBVIOUS
  <2>5. All(n) = All(n - 1) \cup {x}
    BY <2>1
  <2>6. On(n) = IF f[n] \in new THEN On(n - 1) \cup {x} ELSE On(n - 1)
    BY <2>1
  <2>7. What(q[n]) = x /\ q[n].type \in Every /\ (q[n].down <=> f[n] \in new)
    BY <1>0 DEF What, Every
  <2>8. f[n] \in new <=> x \notin P
    BY <1>0
  <2>9. Moves(Every, A, q[n]) = (IF x \in A THEN A \ {x} ELSE A \cup {x})
        /\ (Fits(Every, A, q[n]) <=> (q[n].down <=> x \notin A))
    BY <2>7 DEF Moves, Fits, toggled
  <2> HIDE DEF A, h, On, All, K, x, X
  <2>10. x \in A <=> x \in P
    BY <2>2, <2>3, <2>4
  <2>11. h[n] = IF f[n] \in new THEN A \cup {x} ELSE A \ {x}
    BY <2>2, <2>3, <2>4, <2>5, <2>6
  <2>12. Fits(Every, A, q[n]) /\ h[n] = Moves(Every, A, q[n])
    BY <2>7, <2>8, <2>9, <2>10, <2>11
  <2>13. QED
    BY <2>12 DEF A
<1>5. l \in 0 .. l
  OBVIOUS
<1> HIDE DEF h
<1>6. Steps(Every, P, q, K(l), h)
  BY <1>0, <1>1, <1>2, <1>4, <1>5 DEF Steps
<1>7. QED
  BY <1>6 DEF Leads, Clicked

LEMMA ReportedLeads ==
  ASSUME setting \in Settings, NEW old \in SUBSET Buttons, NEW new \in SUBSET Buttons,
         NEW move \in BOOLEAN, NEW P, \A b \in old \ new : <<"button", b>> \in P,
         \A b \in new \ old : <<"button", b>> \notin P
  PROVE  Leads(Every, P, reported(old, new, move),
               (P \ ({"button"} \X (old \ new))) \cup ({"button"} \X (new \ old)))
<1> DEFINE S == (old \ new) \cup (new \ old)
           f == SetToSeq(S)
           l == Cardinality(S)
           a == [n \in DOMAIN f |-> event("button", f[n], f[n] \in new, setting.lazy)]
           b == IF move THEN <<event("move", NONE, FALSE, TRUE)>> ELSE << >>
           Q == (P \ ({"button"} \X (old \ new))) \cup ({"button"} \X (new \ old))
           q == reported(old, new, move)
<1>1. S \subseteq Buttons /\ IsFiniteSet(S)
  BY FiniteDevices, FS_Subset
<1>2. \A x \in S : (x \in new <=> <<"button", x>> \notin P) /\ (x \in new <=> x \in new \ old)
  OBVIOUS
<1>3. \A x : x \in S <=> x \in old \ new \/ x \in new \ old
  OBVIOUS
<1> HIDE DEF S
<1>4. /\ l \in Nat /\ f \in [1 .. l -> S] /\ IsInjective(f)
      /\ \A x \in S : \E n \in 1 .. l : f[n] = x
  BY <1>1, SetToSeqIsBijection, SetToSeqIsOnto, SetToSeqType
<1>5. q = a \o b
  BY DEF reported, S
<1> HIDE DEF f, l
<1>6. /\ Len(a) = l /\ a \in Seq(Event)
      /\ \A n \in 1 .. l : a[n].type = "button" /\ a[n].what = f[n] /\ (a[n].down <=> f[n] \in new)
  <2>1. ASSUME NEW n \in 1 .. l
        PROVE  /\ a[n] \in Event
               /\ a[n].type = "button" /\ a[n].what = f[n] /\ (a[n].down <=> f[n] \in new)
    <3> DEFINE x == f[n]
    <3>1. x \in Buttons
      BY <1>1, <1>4
    <3>2. a[n] = event("button", x, x \in new, setting.lazy)
      BY <1>4
    <3>3. setting.lazy \in BOOLEAN /\ (x \in new) \in BOOLEAN
      BY DevicesConstants
    <3> HIDE DEF x, a
    <3>4. event("button", x, x \in new, setting.lazy) \in Event
      BY <3>1, <3>3 DEF event, Event
    <3> DEFINE y == event("button", x, x \in new, setting.lazy)
    <3>5. y.type = "button" /\ y.what = x /\ y.down = (x \in new)
      BY DEF event
    <3> HIDE DEF y
    <3>6. a[n] = y /\ y \in Event
      BY <3>2, <3>4 DEF y
    <3>7. a[n] \in Event /\ a[n].type = "button" /\ a[n].what = x /\ (a[n].down <=> x \in new)
      BY <3>5, <3>6
    <3>8. QED
      BY <3>7 DEF x
  <2>2. DOMAIN a = 1 .. l /\ a = [n \in 1 .. l |-> a[n]]
    BY <1>4
  <2> HIDE DEF a
  <2>3. a \in [1 .. l -> Event]
    BY <2>1, <2>2
  <2>4. Len(a) = l /\ a \in Seq(Event)
    BY <1>4, <2>3
  <2>5. QED
    BY <2>1, <2>4
<1>7. b \in Seq(Event) /\ \A n \in 1 .. Len(b) : b[n].type \notin Every
  <2> DEFINE m == event("move", NONE, FALSE, TRUE)
  <2>1. m \in Event /\ m.type \notin Every
    BY DEF event, Event, Every
  <2> HIDE DEF m
  <2>2. /\ <<m>> \in Seq(Event) /\ << >> \in Seq(Event) /\ Len(<<m>>) = 1 /\ Len(<< >>) = 0
        /\ <<m>>[1] = m
    BY <2>1
  <2>3. b = IF move THEN <<m>> ELSE << >>
    BY DEF m
  <2> HIDE DEF b
  <2>4. CASE move
    BY <2>1, <2>2, <2>3, <2>4
  <2>5. CASE ~move
    BY <2>2, <2>3, <2>5
  <2>6. QED
    BY <2>4, <2>5
<1> DEFINE R == Clicked(f, l, new, P)
<1> HIDE DEF a, b, q
<1>8. Leads(Every, P, a, R)
  <2>1. \A m, n \in 1 .. l : f[m] = f[n] => m = n
    BY <1>4 DEF IsInjective
  <2>2. \A n \in 1 .. l : f[n] \in new <=> <<"button", f[n]>> \notin P
    BY <1>2, <1>4
  <2>3. Clicks(a, f, l, new, P)
    BY <1>6, <2>1, <2>2 DEF Clicks
  <2>4. QED
    BY <1>4, <2>3, LeadsButtons DEF R
<1>9. R = Q
  <2>1. {<<"button", f[n]>> : n \in 1 .. l} = {"button"} \X S
    BY <1>4
  <2>2. {<<"button", f[n]>> : n \in {n \in 1 .. l : f[n] \in new}} = {"button"} \X (new \ old)
    <3>1. ASSUME NEW n \in 1 .. l, f[n] \in new PROVE f[n] \in new \ old
      BY <1>2, <1>4, <3>1
    <3>2. ASSUME NEW x \in new \ old PROVE \E n \in 1 .. l : f[n] = x
      BY <1>3, <1>4, <3>2
    <3>3. QED
      BY <3>1, <3>2
  <2>3. Q = (P \ ({"button"} \X S)) \cup ({"button"} \X (new \ old))
    BY <1>3
  <2>4. R = (P \ {<<"button", f[n]>> : n \in 1 .. l})
              \cup {<<"button", f[n]>> : n \in {n \in 1 .. l : f[n] \in new}}
    BY DEF R, Clicked
  <2> HIDE DEF Q
  <2>5. QED
    BY <2>1, <2>2, <2>3, <2>4
<1> HIDE DEF R, Q
<1>10. Leads(Every, P, a \o b, Q)
  BY <1>6, <1>7, <1>8, <1>9, LeadsPast
<1>11. QED
  BY <1>5, <1>10 DEF q, Q

\* The events of the devices are about their buttons.
Sent == {e \in Event : e.type = "button" => e.what \in AllButtons}

LEMMA ReportedSent ==
  ASSUME setting \in Settings, NEW old \in SUBSET AllButtons, NEW new \in SUBSET AllButtons,
         NEW move \in BOOLEAN
  PROVE  reported(old, new, move) \in Seq(Sent)
<1> DEFINE S == (old \ new) \cup (new \ old)
           f == SetToSeq(S)
           a == [n \in DOMAIN f |-> event("button", f[n], f[n] \in new, setting.lazy)]
           b == IF move THEN <<event("move", NONE, FALSE, TRUE)>> ELSE << >>
<1>1. S \subseteq AllButtons /\ S \subseteq Buttons /\ IsFiniteSet(S)
  BY AllButtonsAre, FiniteDevices, FS_Subset
<1>2. reported(old, new, move) = a \o b
  BY DEF reported
<1> HIDE DEF S
<1>3. f \in Seq(S)
  BY <1>1, SetToSeqType
<1> HIDE DEF f
<1>4. ASSUME NEW n \in DOMAIN f
      PROVE  event("button", f[n], f[n] \in new, setting.lazy) \in Sent
  <2>1. f[n] \in AllButtons /\ f[n] \in Buttons
    BY <1>1, <1>3
  <2>2. setting.lazy \in BOOLEAN
    BY DevicesConstants
  <2>3. QED
    BY <2>1, <2>2 DEF event, Event, Sent
<1>5. event("move", NONE, FALSE, TRUE) \in Sent
  BY DEF event, Event, Sent
<1>6. a \in Seq(Sent)
  BY <1>3, <1>4
<1>7. b \in Seq(Sent)
  <2> DEFINE m == event("move", NONE, FALSE, TRUE)
  <2>1. m \in Sent /\ b = IF move THEN <<m>> ELSE << >>
    BY <1>5
  <2> HIDE DEF m, b
  <2>2. <<m>> \in Seq(Sent) /\ << >> \in Seq(Sent)
    BY <2>1
  <2>3. QED
    BY <2>1, <2>2
<1> HIDE DEF a, b
<1>8. QED
  BY <1>2, <1>6, <1>7

-------------------------------------------------------------------------------
(***************************************************************************)
(* While the devices stay as they are: what is held, on the keyboard and   *)
(* on every device; what the counts should be; and what the system is told *)
(* when no button counts, or the only one there is scrolls.                *)
(***************************************************************************)
HeldAll == Held \cup ({"button"} \X UNION {phys.buttons[d] : d \in Pointings})

\* Every device is heard, and no two hold the same button.
Wired ==
  /\ dev.hooked = present /\ dev.prev = phys.buttons
  /\ \A d \in Pointings : phys.buttons[d] \subseteq setting.buttons[d]
  /\ \A d, x \in Pointings : d # x => phys.buttons[d] \cap phys.buttons[x] = {}

\* The counts are right for a set of keys and buttons from which the events queued lead
\* to those held.
Accounts(t, q, P) ==
  dragsLast =>
    \E H : IsFiniteSet(H) /\ Within(H) /\ Leads(Every, H, q, P) /\ Balanced(t, H)

Fires == \A i \in DOMAIN rules : firesAll(rules[i])

\* Of the queue, the system is to learn last that all buttons are up.
Says(t, to, D) == Fires /\ makeButtons(t) = {} => Cleared(t.out, to, D)

Hides(t, to, D) == dragsLast /\ Lone /\ Scrolls(t) => Cleared(t.out, to, D)

Undisturbed ==
  changes = 0 =>
    /\ Wired /\ inq \in Seq(Sent) /\ Accounts(s, inq, HeldAll)
    /\ Says(s, told, present) /\ Hides(s, told, present)

LEMMA SameCounts ==
  ASSUME setting' = setting
  PROVE  /\ rules' = rules /\ AllButtons' = AllButtons /\ Sent' = Sent
         /\ (dragsLast' <=> dragsLast) /\ (Lone' <=> Lone) /\ (Fires' <=> Fires)
         /\ \A x : Adds(x)' = Adds(x) /\ Lifts(x)' = Lifts(x)
         /\ \A i : Source(i)' = Source(i)
<1>1. rules' = rules
  BY SameSetting
<1>2. AllButtons' = AllButtons
  BY DEF AllButtons
<1>3. Sent' = Sent
  BY <1>2 DEF Sent
<1>4. dragsLast' <=> dragsLast
  BY <1>1 DEF dragsLast, drags
<1>5. Lone' <=> Lone
  BY <1>1, <1>2 DEF Lone
<1>6. Fires' <=> Fires
  BY <1>1 DEF Fires
<1>7. \A i, b : /\ pressesButton(i, b)' <=> pressesButton(i, b)
                /\ hidesButton(i, b)' <=> hidesButton(i, b)
  BY <1>1 DEF pressesButton, hidesButton
<1>8. \A i, f : (turnsOn(i, f)' <=> turnsOn(i, f)) /\ (turnsOff(i, f)' <=> turnsOff(i, f))
  BY <1>1 DEF turnsOn, turnsOff, toModifier
<1>9. \A x : Adds(x)' = Adds(x) /\ Lifts(x)' = Lifts(x)
  BY <1>1, <1>7, <1>8 DEF Adds, Lifts
<1>10. \A i : Source(i)' = Source(i)
  BY <1>1 DEF Source
<1>11. QED
  BY <1>1, <1>2, <1>3, <1>4, <1>5, <1>6, <1>9, <1>10

LEMMA UndisturbedNext ==
  ASSUME setting' = setting, Wired', inq' \in Seq(Sent), Accounts(s', inq', HeldAll'),
         Says(s', told', present'), Hides(s', told', present')
  PROVE  Undisturbed'
<1>1. Sent' = Sent /\ (dragsLast' <=> dragsLast) /\ (Lone' <=> Lone) /\ (Fires' <=> Fires)
      /\ rules' = rules /\ AllButtons' = AllButtons
  BY SameCounts
<1>2. /\ \A x : Adds(x)' = Adds(x) /\ Lifts(x)' = Lifts(x)
      /\ \A i : Source(i)' = Source(i)
  BY SameCounts
<1>3. Active(s)' = Active(s')
  BY <1>1 DEF Active
<1>4. \A x : Steady(x)' <=> Steady(x)
  BY <1>2 DEF Steady
<1>5. \A H, x : Due(s, H, x)' = Due(s', H, x)
  BY <1>2, <1>3 DEF Due
<1>6. \A H : Owned(s, H)' <=> Owned(s', H)
  BY <1>2, <1>3 DEF Owned
<1>7. \A H : Counted(s, H)' <=> Counted(s', H)
  BY <1>4, <1>5 DEF Counted
<1>8. \A H : Balanced(s, H)' <=> Balanced(s', H)
  BY <1>6, <1>7 DEF Balanced
<1>9. \A H : Within(H)' <=> Within(H)
  BY <1>1 DEF Within
<1>10. Accounts(s, inq, HeldAll)'
  BY <1>1, <1>8, <1>9 DEF Accounts
<1>11. Says(s, told, present)'
  BY <1>1 DEF Says
<1>12. Scrolls(s)' <=> Scrolls(s')
  BY <1>1, <1>3 DEF Scrolls
<1>13. Hides(s, told, present)'
  BY <1>1, <1>12 DEF Hides
<1>14. (inq \in Seq(Sent))'
  BY <1>1
<1>15. QED
  BY <1>10, <1>11, <1>13, <1>14 DEF Undisturbed

LEMMA SentIs ==
  Sent \subseteq Event /\ \A q \in Seq(Sent) : q \in Seq(Event)
<1>1. Sent \subseteq Event
  BY DEF Sent
<1>2. QED
  BY <1>1

LEMMA WithinMoves ==
  ASSUME NEW H, Within(H), NEW e \in Sent
  PROVE  Within(Moves(Every, H, e))
<1>1. e.type = "button" => e.what \in AllButtons
  BY DEF Sent
<1>2. ASSUME NEW b, <<"button", b>> \in Moves(Every, H, e) PROVE b \in AllButtons
  <2>1. CASE <<"button", b>> \in H
    BY <2>1 DEF Within
  <2>2. CASE <<"button", b>> \notin H
    <3>1. <<"button", b>> = <<e.type, e.what>>
      BY <1>2, <2>2 DEF Moves, toggled, What
    <3>2. e.type = "button" /\ e.what = b
      BY <3>1
    <3>3. QED
      BY <1>1, <3>2
  <2>3. QED
    BY <2>1, <2>2
<1>3. QED
  BY <1>2 DEF Within

LEMMA AccountsOn ==
  ASSUME NEW t, NEW q \in Seq(Event), NEW P, Accounts(t, q, P), NEW e \in Event, Fits(Every, P, e)
  PROVE  Accounts(t, Append(q, e), Moves(Every, P, e))
<1>1. SUFFICES ASSUME dragsLast
               PROVE  \E H : /\ IsFiniteSet(H) /\ Within(H) /\ Balanced(t, H)
                             /\ Leads(Every, H, Append(q, e), Moves(Every, P, e))
  BY DEF Accounts
<1>2. PICK H : IsFiniteSet(H) /\ Within(H) /\ Leads(Every, H, q, P) /\ Balanced(t, H)
  BY <1>1 DEF Accounts
<1>3. Leads(Every, H, Append(q, e), Moves(Every, P, e))
  BY <1>2, LeadsOn
<1>4. QED
  BY <1>2, <1>3

LEMMA AccountsJoin ==
  ASSUME NEW t, NEW q \in Seq(Event), NEW P, Accounts(t, q, P), NEW r \in Seq(Event), NEW Q,
         Leads(Every, P, r, Q)
  PROVE  Accounts(t, q \o r, Q)
<1>1. SUFFICES ASSUME dragsLast
               PROVE  \E H : /\ IsFiniteSet(H) /\ Within(H) /\ Balanced(t, H)
                             /\ Leads(Every, H, q \o r, Q)
  BY DEF Accounts
<1>2. PICK H : IsFiniteSet(H) /\ Within(H) /\ Leads(Every, H, q, P) /\ Balanced(t, H)
  BY <1>1 DEF Accounts
<1>3. Leads(Every, H, q \o r, Q)
  BY <1>2, LeadsJoin
<1>4. QED
  BY <1>2, <1>3

LEMMA AccountsCalm ==
  ASSUME NEW t, NEW q, NEW P, Accounts(t, q, P), NEW u, Even(t, u), u.active = t.active,
         u.held = t.held
  PROVE  Accounts(u, q, P)
<1>1. SUFFICES ASSUME dragsLast
               PROVE  \E H : /\ IsFiniteSet(H) /\ Within(H) /\ Balanced(u, H)
                             /\ Leads(Every, H, q, P)
  BY DEF Accounts
<1>2. PICK H : IsFiniteSet(H) /\ Within(H) /\ Leads(Every, H, q, P) /\ Balanced(t, H)
  BY <1>1 DEF Accounts
<1>3. Balanced(u, H)
  BY <1>2, BalancedCalm
<1>4. QED
  BY <1>2, <1>3

\* Working off the first event, the next set is where it leads.
LEMMA AccountsWorked ==
  ASSUME setting \in Settings, s \in Sound, NEW q \in Seq(Sent), q # << >>, NEW P,
         Accounts(s, q, P), NEW choice \in Choice
  PROVE  Accounts(worked(s, Head(q), choice), Tail(q), P)
<1> DEFINE e == Head(q)
           u == worked(s, e, choice)
<1>1. e \in Sent /\ e \in Event /\ q \in Seq(Event)
  BY SentIs
<1> HIDE DEF e
<1> HIDE DEF u
<1>2. SUFFICES ASSUME dragsLast
               PROVE  \E H : /\ IsFiniteSet(H) /\ Within(H) /\ Balanced(u, H)
                             /\ Leads(Every, H, Tail(q), P)
  BY DEF Accounts, u, e
<1>3. PICK H : IsFiniteSet(H) /\ Within(H) /\ Leads(Every, H, q, P) /\ Balanced(s, H)
  BY <1>2 DEF Accounts
<1>4. PICK G : G = Moves(Every, H, e)
  OBVIOUS
<1>5. Fits(Every, H, e) /\ Leads(Every, G, Tail(q), P)
  BY <1>1, <1>3, <1>4, LeadsTail DEF e
<1>6. IsFiniteSet(G)
  BY <1>1, <1>3, <1>4, <1>5, HeldMoves
<1>7. Within(G)
  BY <1>1, <1>3, <1>4, WithinMoves
<1>8. Balanced(u, G)
  BY <1>1, <1>2, <1>3, <1>4, <1>5, BalancedWorked DEF u
<1>9. QED
  BY <1>5, <1>6, <1>7, <1>8

LEMMA SaysWorked ==
  ASSUME setting \in Settings, NEW t \in Sound, NEW e \in Event, NEW choice \in Choice,
         NEW to \in [Pointings -> SUBSET Buttons], NEW D \in SUBSET Pointings, Says(t, to, D)
  PROVE  Says(worked(t, e, choice), to, D)
<1> DEFINE u == worked(t, e, choice)
<1>1. u \in Typed /\ t \in Typed
  BY WorkedIs, SoundIs
<1>2. u.out \in Seq(Pointer)
  BY <1>1, TypedIs
<1>3. SUFFICES ASSUME Fires, makeButtons(u) = {} PROVE Cleared(u.out, to, D)
  BY DEF Says
<1>4. CASE Buttons = {}
  BY <1>2, <1>4, ClearedNoButtons
<1>5. CASE Buttons # {}
  <2>1. Speaks(t, u)
    BY <1>3, <1>5, WorkedSpeaks DEF Fires
  <2> HIDE DEF u
  <2>2. makeButtons(t) = {} => Cleared(t.out, to, D)
    BY <1>3 DEF Says
  <2>3. QED
    BY <1>1, <1>3, <2>1, <2>2, ClearedSpeaks
<1>6. QED
  BY <1>4, <1>5

LEMMA HidesWorked ==
  ASSUME setting \in Settings, s \in Sound, NEW q \in Seq(Sent), q # << >>, NEW P,
         Accounts(s, q, P), NEW choice \in Choice, NEW to, NEW D, Hides(s, to, D)
  PROVE  Hides(worked(s, Head(q), choice), to, D)
<1> DEFINE e == Head(q)
           u == worked(s, e, choice)
<1>1. e \in Sent /\ e \in Event /\ q \in Seq(Event)
  BY SentIs
<1> HIDE DEF e
<1>2. SUFFICES ASSUME dragsLast, Lone, Scrolls(u) PROVE Cleared(u.out, to, D)
  BY DEF Hides, e
<1>3. PICK H : IsFiniteSet(H) /\ Within(H) /\ Leads(Every, H, q, P) /\ Balanced(s, H)
  BY <1>2 DEF Accounts
<1>4. Fits(Every, H, e)
  BY <1>1, <1>3, LeadsTail DEF e
<1>5. e.type = "button" => e.what \in AllButtons
  BY <1>1 DEF Sent
<1>6. Scrolls(s) => Cleared(s.out, to, D)
  BY <1>2 DEF Hides
<1>7. QED
  BY <1>1, <1>2, <1>3, <1>4, <1>5, <1>6, WorkedScroll

-------------------------------------------------------------------------------
\* Every action keeps it.
LEMMA ScrollTimerCalm ==
  ASSUME s \in Sound, ScrollTimer
  PROVE  Calm(s, s') /\ s'.active = s.active /\ s'.held = s.held
<1> DEFINE u == withoutFlags(s, s.scrollFlags)
           a == announce(u)
           v == withFlags(a, s.scrollFlags)
<1>1. s \in State /\ s \in Typed
  BY SoundIs, TypedIs
<1>2. s' \in Typed
  BY ScrollLess, SoundIs DEF Less
<1>3. CASE s.scroll = << >>
  <2>1. s' = [s EXCEPT !.scrolling = FALSE]
    BY <1>3 DEF ScrollTimer
  <2>2. /\ s'.out = s.out /\ s'.count = s.count /\ s'.o = s.o /\ s'.active = s.active
        /\ s'.held = s.held
    BY <1>1, <2>1 DEF State
  <2>3. QED
    BY <1>1, <1>2, <2>2, CalmSame
<1>4. CASE s.scroll # << >>
  <2>1. \E q : s' = [v EXCEPT !.scroll = q]
    BY <1>4 DEF ScrollTimer, withFlags, withoutFlags
  <2>2. Calm(s, u) /\ Keeps(s, u) /\ u \in Typed /\ u \in Sound
    BY <1>1, FlagsCalm, FlagsKeep, KeepsSound DEF Calm
  <2> HIDE DEF u
  <2>3. Calm(u, a) /\ Keeps(u, a) /\ a \in Typed /\ a \in Sound
    BY <2>2, AnnounceCalm, AnnounceKeeps, KeepsSound DEF Calm
  <2> HIDE DEF a
  <2>4. Calm(a, v) /\ Keeps(a, v) /\ v \in Typed /\ v \in Sound
    BY <2>3, FlagsCalm, FlagsKeep, KeepsSound DEF Calm
  <2> HIDE DEF v
  <2>5. Calm(s, v) /\ v.active = s.active /\ v.held = s.held
    BY <2>2, <2>3, <2>4, CalmTrans DEF Keeps, Bears
  <2>6. v \in State
    BY <2>4, TypedIs
  <2>7. /\ s'.out = v.out /\ s'.count = v.count /\ s'.o = v.o /\ s'.active = v.active
        /\ s'.held = v.held
    BY <2>1, <2>6 DEF State
  <2>8. Calm(v, s')
    BY <1>2, <2>4, <2>7, CalmSame
  <2>9. QED
    BY <2>5, <2>7, <2>8, CalmTrans
<1>5. QED
  BY <1>3, <1>4

LEMMA StillWired ==
  ASSUME Wired, setting' = setting, phys' = phys, present' = present, dev'.hooked = dev.hooked,
         dev'.prev = dev.prev
  PROVE  Wired' /\ HeldAll' = HeldAll
  BY DEF Wired, HeldAll, Held

LEMMA ScrollUndisturbed ==
  ASSUME Inv, Undisturbed, ScrollTimer
  PROVE  Undisturbed'
<1>1. setting' = setting /\ phys' = phys /\ dev' = dev /\ inq' = inq /\ told' = told
      /\ changes' = changes
  BY DEF ScrollTimer
<1>2. SUFFICES ASSUME changes = 0 PROVE Undisturbed'
  BY <1>1 DEF Undisturbed
<1>3. /\ Wired /\ inq \in Seq(Sent) /\ Accounts(s, inq, HeldAll)
      /\ Says(s, told, present) /\ Hides(s, told, present)
  BY <1>2 DEF Undisturbed
<1>4. present' = present
  BY <1>1 DEF present
<1>5. Wired' /\ HeldAll' = HeldAll
  BY <1>1, <1>3, <1>4, StillWired
<1>6. Calm(s, s') /\ s'.active = s.active /\ s'.held = s.held
  BY ScrollTimerCalm DEF Inv
<1>7. Accounts(s', inq', HeldAll')
  BY <1>1, <1>3, <1>5, <1>6, AccountsCalm DEF Calm
<1>8. s'.out = s.out /\ makeButtons(s') = makeButtons(s)
  BY <1>6, EvenButtons DEF Calm
<1>9. Says(s', told', present')
  BY <1>1, <1>3, <1>4, <1>8 DEF Says
<1>10. Hides(s', told', present')
  BY <1>1, <1>3, <1>4, <1>6, <1>8 DEF Hides, Scrolls, Active
<1>11. QED
  BY <1>1, <1>3, <1>5, <1>7, <1>9, <1>10, UndisturbedNext

\* What the system is told last is still to come, or told by now.
LEMMA OutputClears ==
  ASSUME Inv, dev.hooked = present, OutputTimer, Cleared(s.out, told, present)
  PROVE  Cleared(Tail(s.out), told', present)
<1> DEFINE q == s.out
           p == Head(s.out)
<1>1. q \in Seq(Pointer) /\ q # << >>
  BY DEF Inv, TypeOK, State, OutputTimer
<1>2. told' = [d \in Pointings |-> IF d \in receivers(p) THEN p.buttons ELSE told[d]]
  BY DEF OutputTimer
<1>3. present \subseteq Pointings
  BY DEF Inv, TypeOK, present, ToSet
<1> HIDE DEF p, q
<1>4. \A d \in present : told'[d] = told[d] \/ told'[d] = p.buttons
  BY <1>2, <1>3
<1>5. ASSUME p = Release PROVE \A d \in present : told'[d] = {}
  <2>1. receivers(p) = present /\ p.buttons = {}
    BY <1>5 DEF receivers, Release
  <2>2. QED
    BY <1>2, <1>3, <2>1
<1>6. Cleared(q, told, present) /\ p = Head(q)
  BY DEF q, p
<1>7. Cleared(Tail(q), told', present)
  BY <1>1, <1>4, <1>5, <1>6, ClearedTail
<1>8. QED
  BY <1>7 DEF q

LEMMA OutputUndisturbed ==
  ASSUME Inv, Undisturbed, OutputTimer
  PROVE  Undisturbed'
<1>1. setting' = setting /\ phys' = phys /\ dev' = dev /\ inq' = inq /\ changes' = changes
  BY DEF OutputTimer
<1>2. SUFFICES ASSUME changes = 0 PROVE Undisturbed'
  BY <1>1 DEF Undisturbed
<1>3. /\ Wired /\ inq \in Seq(Sent) /\ Accounts(s, inq, HeldAll)
      /\ Says(s, told, present) /\ Hides(s, told, present)
  BY <1>2 DEF Undisturbed
<1>4. present' = present
  BY <1>1 DEF present
<1>5. Wired' /\ HeldAll' = HeldAll
  BY <1>1, <1>3, <1>4, StillWired
<1>6. /\ s'.out = Tail(s.out) /\ s'.count = s.count /\ s'.o = s.o /\ s'.active = s.active
      /\ s'.held = s.held
  BY DEF OutputTimer, Inv, TypeOK, State
<1>7. Even(s, s') /\ makeButtons(s') = makeButtons(s)
  BY <1>6 DEF Even, Level, makeButtons
<1>8. Accounts(s', inq', HeldAll')
  BY <1>1, <1>3, <1>5, <1>6, <1>7, AccountsCalm
<1>9. Cleared(s.out, told, present) => Cleared(s'.out, told', present')
  BY <1>3, <1>4, <1>6, OutputClears DEF Wired
<1>10. Says(s', told', present')
  BY <1>3, <1>7, <1>9 DEF Says
<1>11. Hides(s', told', present')
  BY <1>3, <1>6, <1>9 DEF Hides, Scrolls, Active
<1>12. QED
  BY <1>1, <1>3, <1>5, <1>8, <1>10, <1>11, UndisturbedNext

LEMMA InputUndisturbed ==
  ASSUME Inv, Undisturbed, InputTimer
  PROVE  Undisturbed'
<1>1. setting' = setting /\ phys' = phys /\ dev' = dev /\ told' = told /\ changes' = changes
      /\ inq # << >> /\ inq' = Tail(inq)
  BY DEF InputTimer
<1>2. SUFFICES ASSUME changes = 0 PROVE Undisturbed'
  BY <1>1 DEF Undisturbed
<1>3. /\ Wired /\ inq \in Seq(Sent) /\ Accounts(s, inq, HeldAll)
      /\ Says(s, told, present) /\ Hides(s, told, present)
  BY <1>2 DEF Undisturbed
<1>4. present' = present /\ present \in SUBSET Pointings
  BY <1>1 DEF present, Inv, TypeOK, ToSet
<1>5. Wired' /\ HeldAll' = HeldAll
  BY <1>1, <1>3, <1>4, StillWired
<1>6. PICK choice \in Choice : s' = worked(s, Head(inq), choice)
  BY DEF InputTimer, choices, Choice
<1>7. setting \in Settings /\ s \in Sound /\ told \in [Pointings -> SUBSET Buttons]
      /\ Head(inq) \in Event /\ Tail(inq) \in Seq(Sent)
  BY <1>1, <1>3, SentIs DEF Inv, TypeOK
<1>8. Accounts(s', inq', HeldAll')
  BY <1>1, <1>3, <1>5, <1>6, <1>7, AccountsWorked
<1>9. Says(s', told', present')
  BY <1>1, <1>3, <1>4, <1>6, <1>7, SaysWorked
<1>10. Hides(s', told', present')
  BY <1>1, <1>3, <1>4, <1>6, <1>7, HidesWorked
<1>11. QED
  BY <1>1, <1>5, <1>7, <1>8, <1>9, <1>10, UndisturbedNext

LEMMA MovedUndisturbed ==
  ASSUME Inv, Undisturbed, changes = 0, setting' = setting, s' = s, told' = told,
         present' = present, Wired', NEW e \in Sent, inq' = Append(inq, e),
         Fits(Every, HeldAll, e), HeldAll' = Moves(Every, HeldAll, e)
  PROVE  Undisturbed'
<1>1. /\ Wired /\ inq \in Seq(Sent) /\ Accounts(s, inq, HeldAll)
      /\ Says(s, told, present) /\ Hides(s, told, present)
  BY DEF Undisturbed
<1>2. inq \in Seq(Event) /\ e \in Event
  BY <1>1, SentIs
<1>3. Accounts(s', inq', HeldAll')
  BY <1>1, <1>2, AccountsOn
<1>4. inq' \in Seq(Sent)
  BY <1>1
<1>5. Says(s', told', present') /\ Hides(s', told', present')
  BY <1>1
<1>6. QED
  BY <1>3, <1>4, <1>5, UndisturbedNext

LEMMA KeyUndisturbed ==
  ASSUME Inv, Undisturbed, NEW k \in PhysKeys, KeyMoves(k)
  PROVE  Undisturbed'
<1> DEFINE e == event("key", k, k \notin phys.keys, FALSE)
<1>1. setting' = setting /\ dev' = dev /\ s' = s /\ told' = told /\ changes' = changes
      /\ inq' = Append(inq, e) /\ phys' = [phys EXCEPT !.keys = toggled(@, k)]
  BY DEF KeyMoves
<1>2. SUFFICES ASSUME changes = 0 PROVE Undisturbed'
  BY <1>1 DEF Undisturbed
<1>3. e \in Sent /\ e.type = "key" /\ e.what = k /\ (e.down <=> k \notin phys.keys)
  BY DEF event, Event, Sent
<1> HIDE DEF e
<1>4. phys'.keys = toggled(phys.keys, k) /\ phys'.consumers = phys.consumers
      /\ phys'.buttons = phys.buttons
  BY <1>1 DEF Inv, TypeOK
<1>5. What(e) = <<"key", k>> /\ e.type \in Every
  BY <1>3 DEF What, Every
<1>6. What(e) \in HeldAll <=> k \in phys.keys
  BY <1>5 DEF HeldAll, Held
<1>7. Fits(Every, HeldAll, e)
  BY <1>3, <1>6 DEF Fits
<1>8. HeldAll' = Moves(Every, HeldAll, e)
  <2> DEFINE B == {"button"} \X UNION {phys.buttons[d] : d \in Pointings}
             C == {"consumer"} \X phys.consumers
  <2>1. HeldAll' = (({"key"} \X toggled(phys.keys, k)) \cup C) \cup B
    BY <1>4 DEF HeldAll, Held
  <2>2. HeldAll = (({"key"} \X phys.keys) \cup C) \cup B
    BY DEF HeldAll, Held
  <2>3. Moves(Every, HeldAll, e) = toggled(HeldAll, <<"key", k>>)
    BY <1>5 DEF Moves
  <2>4. <<"key", k>> \notin C /\ <<"key", k>> \notin B
    OBVIOUS
  <2> HIDE DEF B, C
  <2>5. QED
    BY <2>1, <2>2, <2>3, <2>4 DEF toggled
<1>9. present' = present
  BY <1>1 DEF present
<1>10. Wired'
  BY <1>1, <1>2, <1>4, <1>9 DEF Undisturbed, Wired
<1>11. QED
  BY <1>1, <1>2, <1>3, <1>7, <1>8, <1>9, <1>10, MovedUndisturbed

LEMMA ConsumerUndisturbed ==
  ASSUME Inv, Undisturbed, NEW c \in PhysConsumers, ConsumerMoves(c)
  PROVE  Undisturbed'
<1> DEFINE e == event("consumer", c, c \notin phys.consumers, FALSE)
<1>1. setting' = setting /\ dev' = dev /\ s' = s /\ told' = told /\ changes' = changes
      /\ inq' = Append(inq, e) /\ phys' = [phys EXCEPT !.consumers = toggled(@, c)]
  BY DEF ConsumerMoves
<1>2. SUFFICES ASSUME changes = 0 PROVE Undisturbed'
  BY <1>1 DEF Undisturbed
<1>3. e \in Sent /\ e.type = "consumer" /\ e.what = c /\ (e.down <=> c \notin phys.consumers)
  BY DevicesConstants DEF event, Event, Sent
<1> HIDE DEF e
<1>4. phys'.keys = phys.keys /\ phys'.consumers = toggled(phys.consumers, c)
      /\ phys'.buttons = phys.buttons
  BY <1>1 DEF Inv, TypeOK
<1>5. What(e) = <<"consumer", c>> /\ e.type \in Every
  BY <1>3 DEF What, Every
<1>6. What(e) \in HeldAll <=> c \in phys.consumers
  BY <1>5 DEF HeldAll, Held
<1>7. Fits(Every, HeldAll, e)
  BY <1>3, <1>6 DEF Fits
<1>8. HeldAll' = Moves(Every, HeldAll, e)
  <2> DEFINE B == {"button"} \X UNION {phys.buttons[d] : d \in Pointings}
             K == {"key"} \X phys.keys
  <2>1. HeldAll' = (K \cup ({"consumer"} \X toggled(phys.consumers, c))) \cup B
    BY <1>4 DEF HeldAll, Held
  <2>2. HeldAll = (K \cup ({"consumer"} \X phys.consumers)) \cup B
    BY DEF HeldAll, Held
  <2>3. Moves(Every, HeldAll, e) = toggled(HeldAll, <<"consumer", c>>)
    BY <1>5 DEF Moves
  <2>4. <<"consumer", c>> \notin K /\ <<"consumer", c>> \notin B
    OBVIOUS
  <2> HIDE DEF B, K
  <2>5. QED
    BY <2>1, <2>2, <2>3, <2>4 DEF toggled
<1>9. present' = present
  BY <1>1 DEF present
<1>10. Wired'
  BY <1>1, <1>2, <1>4, <1>9 DEF Undisturbed, Wired
<1>11. QED
  BY <1>1, <1>2, <1>3, <1>7, <1>8, <1>9, <1>10, MovedUndisturbed

LEMMA WheelUndisturbed ==
  ASSUME Inv, Undisturbed, NEW d \in Pointings, Wheel(d)
  PROVE  Undisturbed'
<1> DEFINE e == event("wheel", NONE, FALSE, setting.lazy)
<1>1. setting' = setting /\ phys' = phys /\ s' = s /\ told' = told /\ changes' = changes
      /\ inq' = Append(inq, e) /\ dev' = [dev EXCEPT !.last = d]
  BY DEF Wheel
<1>2. SUFFICES ASSUME changes = 0 PROVE Undisturbed'
  BY <1>1 DEF Undisturbed
<1>3. e \in Sent /\ e.type = "wheel"
  <2>1. setting.lazy \in BOOLEAN
    BY DevicesConstants DEF Inv, TypeOK
  <2>2. QED
    BY <2>1 DEF event, Event, Sent
<1> HIDE DEF e
<1>4. dev'.list = dev.list /\ dev'.hooked = dev.hooked /\ dev'.prev = dev.prev
  BY <1>1 DEF Inv, TypeOK
<1>5. present' = present
  BY <1>4 DEF present
<1>6. Wired' /\ HeldAll' = HeldAll
  BY <1>1, <1>2, <1>4, <1>5, StillWired DEF Undisturbed
<1>7. Fits(Every, HeldAll, e) /\ HeldAll' = Moves(Every, HeldAll, e)
  BY <1>3, <1>6 DEF Fits, Moves, Every
<1>8. QED
  BY <1>1, <1>2, <1>3, <1>5, <1>6, <1>7, MovedUndisturbed

\* What device d holds changes to new, and no button goes down that another holds.
NewButtons(d, old, new) ==
  /\ old = phys.buttons[d] /\ phys' = [phys EXCEPT !.buttons[d] = new]
  /\ \A x \in Pointings \ {d} : (new \ old) \cap phys.buttons[x] = {}

Swapped(old, new, H, G) ==
  /\ \A b \in old \ new : <<"button", b>> \in H
  /\ \A b \in new \ old : <<"button", b>> \notin H
  /\ G = (H \ ({"button"} \X (old \ new))) \cup ({"button"} \X (new \ old))

LEMMA ReportMoves ==
  ASSUME Inv, Wired, NEW d \in Pointings, NEW new, NEW old, NewButtons(d, old, new)
  PROVE  /\ Swapped(old, new, HeldAll, HeldAll')
         /\ phys'.buttons = [phys.buttons EXCEPT ![d] = new]
         /\ \A x, y \in Pointings : x # y => phys'.buttons[x] \cap phys'.buttons[y] = {}
<1>0. /\ old = phys.buttons[d] /\ phys' = [phys EXCEPT !.buttons[d] = new]
      /\ \A x \in Pointings \ {d} : (new \ old) \cap phys.buttons[x] = {}
  BY DEF NewButtons
<1> DEFINE U == UNION {phys.buttons[x] : x \in Pointings}
           V == UNION {phys'.buttons[x] : x \in Pointings}
<1>1. phys'.keys = phys.keys /\ phys'.consumers = phys.consumers
      /\ phys'.buttons = [phys.buttons EXCEPT ![d] = new]
  BY <1>0 DEF Inv, TypeOK
<1>2. \A x \in Pointings : phys'.buttons[x] = IF x = d THEN new ELSE phys.buttons[x]
  BY <1>1 DEF Inv, TypeOK
<1>3. \A x \in Pointings : x # d => phys.buttons[x] \cap old = {}
  BY <1>0 DEF Wired
<1>4. \A b \in old \ new : b \in U
  BY <1>0
<1>5. \A b \in new \ old : b \notin U
  BY <1>0
<1>6. V = (U \ (old \ new)) \cup (new \ old)
  <2>1. ASSUME NEW b \in V PROVE b \in (U \ (old \ new)) \cup (new \ old)
    <3>1. PICK x \in Pointings : b \in phys'.buttons[x]
      OBVIOUS
    <3>2. CASE x = d
      BY <1>0, <1>2, <3>1, <3>2
    <3>3. CASE x # d
      BY <1>0, <1>2, <1>3, <3>1, <3>3
    <3>4. QED
      BY <3>2, <3>3
  <2>2. ASSUME NEW b \in (U \ (old \ new)) \cup (new \ old) PROVE b \in V
    <3>1. CASE b \in new
      BY <1>2, <3>1
    <3>2. CASE b \notin new
      <4>1. PICK x \in Pointings : b \in phys.buttons[x]
        BY <3>2
      <4>2. x # d
        BY <1>0, <2>2, <3>2, <4>1
      <4>3. QED
        BY <1>2, <4>1, <4>2
    <3>3. QED
      BY <3>1, <3>2
  <2>3. QED
    BY <2>1, <2>2
<1>7. HeldAll = Held \cup ({"button"} \X U) /\ HeldAll' = Held \cup ({"button"} \X V)
  BY <1>1 DEF HeldAll, Held
<1>8. \A b : <<"button", b>> \notin Held
  BY DEF Held
<1> HIDE DEF U, V
<1>9. \A S : Held \cap ({"button"} \X S) = {}
  BY <1>8
<1>10. HeldAll' = (HeldAll \ ({"button"} \X (old \ new))) \cup ({"button"} \X (new \ old))
  <2>1. {"button"} \X V =
          (({"button"} \X U) \ ({"button"} \X (old \ new))) \cup ({"button"} \X (new \ old))
    BY <1>6
  <2>2. QED
    BY <1>7, <1>9, <2>1
<1>11. \A x, y \in Pointings : x # y => phys'.buttons[x] \cap phys'.buttons[y] = {}
  <2>1. ASSUME NEW x \in Pointings, x # d PROVE phys.buttons[x] \cap new = {}
    BY <1>0, <1>3, <2>1
  <2>2. QED
    BY <1>2, <2>1 DEF Wired
<1>12. QED
  <2>1. /\ \A b \in old \ new : <<"button", b>> \in HeldAll
        /\ \A b \in new \ old : <<"button", b>> \notin HeldAll
    BY <1>4, <1>5, <1>7, <1>8
  <2>2. Swapped(old, new, HeldAll, HeldAll')
    BY <1>10, <2>1 DEF Swapped
  <2>3. QED
    BY <1>1, <1>11, <2>2

LEMMA ReportUndisturbed ==
  ASSUME Inv, Undisturbed, NEW d \in Pointings, NEW move \in BOOLEAN, Reports(d, move)
  PROVE  Undisturbed'
<1>1. SUFFICES ASSUME changes' = 0 PROVE Undisturbed'
  BY DEF Undisturbed
<1>2. PICK new \in SUBSET setting.buttons[d] :
        /\ phys' = [phys EXCEPT !.buttons[d] = new]
        /\ IF \E x \in Pointings \ {d} : (new \ phys.buttons[d]) \cap phys.buttons[x] # {}
           THEN Change ELSE UNCHANGED changes
        /\ IF d \in dev.hooked
           THEN /\ inq' = inq \o reported(dev.prev[d], new, move)
                /\ dev' = [dev EXCEPT !.last = d, !.prev[d] = new]
                /\ UNCHANGED told
           ELSE told' = [told EXCEPT ![d] = new] /\ UNCHANGED <<inq, dev>>
  BY DEF Reports
<1>3. setting' = setting /\ s' = s /\ d \in present /\ setting \in Settings
  BY DEF Reports, Inv, TypeOK
<1>4. changes = 0 /\ \A x \in Pointings \ {d} : (new \ phys.buttons[d]) \cap phys.buttons[x] = {}
  BY <1>1, <1>2 DEF Change, Inv, TypeOK
<1>5. /\ Wired /\ inq \in Seq(Sent) /\ Accounts(s, inq, HeldAll)
      /\ Says(s, told, present) /\ Hides(s, told, present)
  BY <1>4 DEF Undisturbed
<1>0. PICK old : old = phys.buttons[d]
  OBVIOUS
<1> DEFINE r == reported(old, new, move)
           Q == (HeldAll \ ({"button"} \X (old \ new))) \cup ({"button"} \X (new \ old))
<1>6. /\ inq' = inq \o r /\ told' = told
      /\ dev' = [dev EXCEPT !.last = d, !.prev[d] = new]
  BY <1>0, <1>2, <1>3, <1>5 DEF Wired
<1>7. old \in SUBSET AllButtons /\ new \in SUBSET AllButtons
      /\ old \in SUBSET Buttons /\ new \in SUBSET Buttons
  BY <1>0, <1>3, <1>5, AllButtonsAre DEF Wired
<1>8. r \in Seq(Sent)
  BY <1>3, <1>7, ReportedSent
<1>9. /\ \A b \in old \ new : <<"button", b>> \in HeldAll
      /\ \A b \in new \ old : <<"button", b>> \notin HeldAll
      /\ HeldAll' = Q
      /\ phys'.buttons = [phys.buttons EXCEPT ![d] = new]
      /\ \A x, y \in Pointings : x # y => phys'.buttons[x] \cap phys'.buttons[y] = {}
  <2>1. NewButtons(d, old, new)
    BY <1>0, <1>2, <1>4 DEF NewButtons
  <2>2. Wired
    BY <1>5
  <2>3. /\ Swapped(old, new, HeldAll, HeldAll')
        /\ phys'.buttons = [phys.buttons EXCEPT ![d] = new]
        /\ \A x, y \in Pointings : x # y => phys'.buttons[x] \cap phys'.buttons[y] = {}
    BY <2>1, <2>2, ReportMoves
  <2>4. QED
    BY <2>3 DEF Swapped
<1>10. Leads(Every, HeldAll, r, Q)
  BY <1>3, <1>7, <1>9, ReportedLeads
<1>11. dev'.list = dev.list /\ dev'.hooked = dev.hooked
       /\ dev'.prev = [dev.prev EXCEPT ![d] = new]
  <2>1. dev \in [list : Seq(Pointings), last : Pointings, hooked : SUBSET Pointings,
                 prev : [Pointings -> SUBSET Buttons]]
    BY DEF Inv, TypeOK
  <2> DEFINE y == [dev EXCEPT !.last = d]
  <2>2. y.list = dev.list /\ y.hooked = dev.hooked /\ y.prev = dev.prev
        /\ y \in [list : Seq(Pointings), last : Pointings, hooked : SUBSET Pointings,
                  prev : [Pointings -> SUBSET Buttons]]
    BY <2>1
  <2>3. dev' = [y EXCEPT !.prev[d] = new]
    BY <1>6, <2>1
  <2> HIDE DEF y
  <2>4. QED
    BY <2>2, <2>3
<1> HIDE DEF r, Q
<1>12. present' = present
  BY <1>11 DEF present
<1>13. \A x \in Pointings : phys'.buttons[x] \subseteq setting.buttons[x]
  BY <1>5, <1>9 DEF Wired, Inv, TypeOK
<1>14. Wired'
  BY <1>3, <1>5, <1>9, <1>11, <1>12, <1>13 DEF Wired
<1>15. inq \in Seq(Event) /\ r \in Seq(Event)
  BY <1>5, <1>8, SentIs
<1>16. Accounts(s, inq \o r, Q)
  BY <1>5, <1>10, <1>15, AccountsJoin
<1>17. Accounts(s', inq', HeldAll')
  BY <1>3, <1>6, <1>9, <1>16
<1>18. inq' \in Seq(Sent)
  BY <1>5, <1>6, <1>8
<1>19. Says(s', told', present') /\ Hides(s', told', present')
  BY <1>3, <1>5, <1>6, <1>12
<1>20. QED
  BY <1>3, <1>14, <1>17, <1>18, <1>19, UndisturbedNext

LEMMA NextUndisturbed ==
  ASSUME Inv, Undisturbed, [Next]_vars
  PROVE  Undisturbed'
<1>1. CASE InputTimer
  BY <1>1, InputUndisturbed
<1>2. CASE ScrollTimer
  BY <1>2, ScrollUndisturbed
<1>3. CASE OutputTimer
  BY <1>3, OutputUndisturbed
<1>4. ASSUME NEW k \in PhysKeys, KeyMoves(k) PROVE Undisturbed'
  BY <1>4, KeyUndisturbed
<1>5. ASSUME NEW c \in PhysConsumers, ConsumerMoves(c) PROVE Undisturbed'
  BY <1>5, ConsumerUndisturbed
<1>6. ASSUME NEW d \in Pointings, NEW move \in BOOLEAN, Reports(d, move) PROVE Undisturbed'
  BY <1>6, ReportUndisturbed
<1>7. ASSUME NEW d \in Pointings, Wheel(d) PROVE Undisturbed'
  BY <1>7, WheelUndisturbed
<1>8. ASSUME Change PROVE Undisturbed'
  <2>1. changes \in Nat /\ changes' = changes + 1
    BY <1>8 DEF Change, Inv, TypeOK
  <2>2. changes' # 0
    BY <2>1
  <2>3. QED
    BY <2>2 DEF Undisturbed
<1>9. ASSUME NEW d \in Pointings, Plug(d) \/ Unplug(d) PROVE Undisturbed'
  BY <1>8, <1>9 DEF Plug, Unplug
<1>10. ASSUME NEW hooked \in SUBSET present, Configure(hooked) PROVE Undisturbed'
  BY <1>8, <1>10 DEF Configure
<1>11. CASE UNCHANGED vars
  <2>1. /\ setting' = setting /\ phys' = phys /\ dev' = dev /\ inq' = inq /\ s' = s
        /\ told' = told /\ changes' = changes
    BY <1>11 DEF vars
  <2>2. SUFFICES ASSUME changes = 0 PROVE Undisturbed'
    BY <2>1 DEF Undisturbed
  <2>3. /\ Wired /\ inq \in Seq(Sent) /\ Accounts(s, inq, HeldAll)
        /\ Says(s, told, present) /\ Hides(s, told, present)
    BY <2>2 DEF Undisturbed
  <2>4. present' = present
    BY <2>1 DEF present
  <2>5. Wired' /\ HeldAll' = HeldAll
    BY <2>1, <2>3, <2>4, StillWired
  <2>6. QED
    BY <2>1, <2>3, <2>4, <2>5, UndisturbedNext
<1>12. QED
  BY <1>1, <1>2, <1>3, <1>4, <1>5, <1>6, <1>7, <1>9, <1>10, <1>11 DEF Next

LEMMA UndisturbedInitially ==
  ASSUME Init
  PROVE  Undisturbed
<1>1. /\ setting \in Settings /\ inq = << >> /\ changes = 0
      /\ phys = [keys |-> {}, consumers |-> {}, buttons |-> [d \in Pointings |-> {}]]
      /\ told = [d \in Pointings |-> {}]
  BY DEF Init
<1>2. /\ s.o.fs = initializeItems /\ s.count = [b \in Buttons |-> 0] /\ s.held = 0
      /\ s.active = [i \in DOMAIN rules |-> FALSE] /\ s.out = << >>
  BY DEF Init
<1>3. PICK n \in 1 .. Cardinality(Pointings) :
        dev = [list |-> SubSeq(SetToSeq(Pointings), 1, n),
               last |-> Last(SubSeq(SetToSeq(Pointings), 1, n)),
               hooked |-> ToSet(SubSeq(SetToSeq(Pointings), 1, n)),
               prev |-> [d \in Pointings |-> {}]]
  BY DEF Init
<1>4. dev.hooked = present /\ dev.prev = phys.buttons
  BY <1>1, <1>3 DEF present
<1>5. Wired
  BY <1>1, <1>4 DEF Wired
<1>6. HeldAll = {}
  BY <1>1 DEF HeldAll, Held
<1>7. Active(s) = {}
  BY <1>2 DEF Active
<1>8. Balanced(s, {})
  <2>1. Owned(s, {})
    BY <1>7 DEF Owned
  <2>2. s.held = Cardinality({} \ {CapsKey})
    <3>1. {} \ {CapsKey} = {} /\ Cardinality({}) = 0
      BY FS_EmptySet
    <3>2. QED
      BY <1>2, <3>1
  <2>3. ASSUME NEW x \in Gauges PROVE Level(s, x) = Due(s, {}, x)
    <3>1. Due(s, {}, x) = 0
      <4>1. Active(s) \cap Adds(x) = {} /\ Active(s) \cap Lifts(x) = {} /\ Cardinality({}) = 0
        BY <1>7, FS_EmptySet
      <4>2. In(x, {}) = 0
        BY DEF In
      <4>3. Cardinality(Active(s) \cap Adds(x)) = 0 /\ Cardinality(Active(s) \cap Lifts(x)) = 0
        BY <4>1
      <4>4. 0 + (0 - 0) = 0
        OBVIOUS
      <4>5. QED
        BY <4>2, <4>3, <4>4 DEF Due
    <3>2. Level(s, x) = 0
      BY <1>2, GaugeIs DEF Level, initializeItems
    <3>3. QED
      BY <3>1, <3>2
  <2>4. QED
    BY <2>1, <2>2, <2>3 DEF Balanced, Counted
<1>9. Accounts(s, inq, HeldAll)
  <2>1. Leads(Every, {}, inq, HeldAll)
    BY <1>1, <1>6, LeadsNone
  <2>2. IsFiniteSet({}) /\ Within({})
    BY FS_EmptySet DEF Within
  <2>3. QED
    BY <1>8, <2>1, <2>2 DEF Accounts
<1>10. Cleared(s.out, told, present)
  <2>1. present \subseteq Pointings
    BY Initially DEF Inv, TypeOK, present, ToSet
  <2>2. \A d \in present : told[d] = {}
    BY <1>1, <2>1
  <2>3. Len(s.out) \in Nat /\ \A m \in 1 .. Len(s.out) : s.out[m].buttons = {}
    <3>1. Len(s.out) = 0
      BY <1>2
    <3>2. QED
      BY <3>1
  <2>4. QED
    BY <2>2, <2>3, ClearedNow
<1>11. inq \in Seq(Sent)
  BY <1>1
<1>12. QED
  BY <1>5, <1>9, <1>10, <1>11 DEF Undisturbed, Says, Hides

\* While the devices stay as they are: every device is heard and no two hold the same
\* button; the counts are right for what was held when the events worked off were made;
\* and where all pointing events are made known, or the only button there is scrolls, the
\* last the system is told is that all buttons are up.
THEOREM UndisturbedHolds == Spec => []Undisturbed
<1>1. Init => Undisturbed
  BY UndisturbedInitially
<1>2. Inv /\ Undisturbed /\ [Next]_vars => Undisturbed'
  BY NextUndisturbed
<1>3. QED
  BY <1>1, <1>2, InvariantHolds, PTL DEF Spec

-------------------------------------------------------------------------------
(***************************************************************************)
(* What the counts say once no event is left to work off.                  *)
(***************************************************************************)
LEMMA OneToOne ==
  ASSUME NEW S, IsFiniteSet(S), NEW T, NEW f \in [S -> T],
         \A x, y \in S : f[x] = f[y] => x = y, \A z \in T : \E x \in S : f[x] = z
  PROVE  IsFiniteSet(T) /\ Cardinality(T) = Cardinality(S)
<1>1. f \in Bijection(S, T)
  BY DEF Bijection, Injection, Surjection, IsInjective
<1>2. ExistsBijection(S, T)
  BY <1>1 DEF ExistsBijection
<1>3. QED
  BY <1>2, FS_Bijection

LEMMA CountTagged ==
  ASSUME NEW a, NEW S, IsFiniteSet({a} \X S)
  PROVE  IsFiniteSet(S) /\ Cardinality(S) = Cardinality({a} \X S)
<1> DEFINE A == {a} \X S
           f == [p \in A |-> p[2]]
<1>1. f \in [A -> S]
  OBVIOUS
<1>2. ASSUME NEW p \in A, NEW r \in A, f[p] = f[r] PROVE p = r
  BY <1>2
<1>3. ASSUME NEW x \in S PROVE \E p \in A : f[p] = x
  <2>1. <<a, x>> \in A /\ f[<<a, x>>] = x
    OBVIOUS
  <2>2. QED
    BY <2>1
<1>4. IsFiniteSet(A)
  OBVIOUS
<1> HIDE DEF A, f
<1>5. IsFiniteSet(S) /\ Cardinality(S) = Cardinality(A)
  BY <1>1, <1>2, <1>3, <1>4, OneToOne
<1>6. QED
  BY <1>5 DEF A

LEMMA CountDisjoint ==
  ASSUME NEW S, IsFiniteSet(S), NEW T, IsFiniteSet(T), S \cap T = {}
  PROVE  /\ IsFiniteSet(S \cup T) /\ Cardinality(S) \in Nat /\ Cardinality(T) \in Nat
         /\ Cardinality(S \cup T) = Cardinality(S) + Cardinality(T)
<1>1. /\ IsFiniteSet(S \cup T)
      /\ Cardinality(S \cup T) = Cardinality(S) + Cardinality(T) - Cardinality(S \cap T)
  BY FS_Union
<1>2. Cardinality(S \cap T) = 0
  BY FS_EmptySet
<1>3. Cardinality(S) \in Nat /\ Cardinality(T) \in Nat
  BY FS_CardinalityType
<1>4. QED
  BY <1>1, <1>2, <1>3

\* Where no two devices hold the same button, the buttons held can be counted without
\* their devices.
LEMMA CountButtons ==
  ASSUME NEW D, NEW buttons, \A d, x \in D : d # x => buttons[d] \cap buttons[x] = {},
         IsFiniteSet(UNION {buttons[d] : d \in D})
  PROVE  Cardinality(UNION {{d} \X buttons[d] : d \in D}) = Cardinality(UNION {buttons[d] : d \in D})
<1> DEFINE W == UNION {{d} \X buttons[d] : d \in D}
           U == UNION {buttons[d] : d \in D}
           whose(b) == CHOOSE d \in D : b \in buttons[d]
           f == [b \in U |-> <<whose(b), b>>]
<1>1. ASSUME NEW b \in U PROVE whose(b) \in D /\ b \in buttons[whose(b)]
  <2>1. \E d \in D : b \in buttons[d]
    OBVIOUS
  <2>2. QED
    BY <2>1
<1>2. ASSUME NEW d \in D, NEW b \in buttons[d] PROVE b \in U /\ whose(b) = d
  <2>1. b \in U
    OBVIOUS
  <2>2. whose(b) \in D /\ b \in buttons[whose(b)]
    BY <1>1, <2>1
  <2> HIDE DEF whose
  <2>3. QED
    BY <2>1, <2>2
<1> HIDE DEF whose
<1>3. f \in [U -> W]
  <2>1. ASSUME NEW b \in U PROVE <<whose(b), b>> \in W
    BY <1>1
  <2> HIDE DEF W, U
  <2>2. QED
    BY <2>1
<1>4. \A b, c \in U : f[b] = f[c] => b = c
  OBVIOUS
<1>5. ASSUME NEW z \in W PROVE \E b \in U : f[b] = z
  <2>1. PICK d \in D : z \in {d} \X buttons[d]
    OBVIOUS
  <2>2. z = <<d, z[2]>> /\ z[2] \in buttons[d]
    BY <2>1
  <2>3. z[2] \in U /\ whose(z[2]) = d
    BY <1>2, <2>2
  <2> HIDE DEF U
  <2>4. f[z[2]] = z
    BY <2>2, <2>3
  <2>5. QED
    BY <2>3, <2>4
<1>6. IsFiniteSet(U)
  OBVIOUS
<1> HIDE DEF f, U, W
<1>7. IsFiniteSet(W) /\ Cardinality(W) = Cardinality(U)
  BY <1>3, <1>4, <1>5, <1>6, OneToOne
<1>8. QED
  BY <1>7 DEF W, U

LEMMA HeldExact ==
  ASSUME Inv, Wired, IsFiniteSet(HeldAll)
  PROVE  Cardinality(HeldAll \ {CapsKey}) =
           Cardinality(phys.keys \ {CAPSLOCK}) + Cardinality(phys.consumers)
             + Cardinality(UNION {{d} \X phys.buttons[d] : d \in Pointings})
<1> DEFINE U == UNION {phys.buttons[d] : d \in Pointings}
           W == UNION {{d} \X phys.buttons[d] : d \in Pointings}
           L == phys.keys \ {CAPSLOCK}
           C == phys.consumers
           K1 == {"key"} \X L
           C1 == {"consumer"} \X C
           B1 == {"button"} \X U
<1>1. HeldAll \ {CapsKey} = (K1 \cup C1) \cup B1
  BY DEF HeldAll, Held, CapsKey
<1>2. K1 \subseteq HeldAll /\ C1 \subseteq HeldAll /\ B1 \subseteq HeldAll
  BY DEF HeldAll, Held
<1>3. K1 \cap C1 = {} /\ (K1 \cup C1) \cap B1 = {}
  OBVIOUS
<1>4. \A d, x \in Pointings : d # x => phys.buttons[d] \cap phys.buttons[x] = {}
  BY DEF Wired
<1> HIDE DEF L, C, U, W
<1>5. /\ IsFiniteSet(K1) /\ IsFiniteSet(C1) /\ IsFiniteSet(B1)
  BY <1>2, FS_Subset
<1>6. Cardinality(L) = Cardinality(K1)
  BY <1>5, CountTagged
<1>7. Cardinality(C) = Cardinality(C1)
  BY <1>5, CountTagged
<1>8. IsFiniteSet(U) /\ Cardinality(U) = Cardinality(B1)
  BY <1>5, CountTagged
<1>9. Cardinality(W) = Cardinality(U)
  <2>1. PICK buttons : buttons = phys.buttons
    OBVIOUS
  <2>2. U = UNION {buttons[d] : d \in Pointings} /\ W = UNION {{d} \X buttons[d] : d \in Pointings}
    BY <2>1 DEF U, W
  <2>3. \A d, x \in Pointings : d # x => buttons[d] \cap buttons[x] = {}
    BY <1>4, <2>1
  <2>4. IsFiniteSet(UNION {buttons[d] : d \in Pointings})
    BY <1>8, <2>2
  <2>5. Cardinality(UNION {{d} \X buttons[d] : d \in Pointings})
          = Cardinality(UNION {buttons[d] : d \in Pointings})
    BY <2>3, <2>4, CountButtons
  <2>6. QED
    BY <2>2, <2>5
<1> HIDE DEF K1, C1, B1
<1>10. /\ IsFiniteSet(K1 \cup C1) /\ Cardinality(K1) \in Nat /\ Cardinality(C1) \in Nat
       /\ Cardinality(K1 \cup C1) = Cardinality(K1) + Cardinality(C1)
  BY <1>3, <1>5, CountDisjoint
<1>11. /\ Cardinality((K1 \cup C1) \cup B1) = Cardinality(K1 \cup C1) + Cardinality(B1)
       /\ Cardinality(B1) \in Nat
  BY <1>3, <1>5, <1>10, CountDisjoint
<1>12. Cardinality(HeldAll \ {CapsKey}) = Cardinality(L) + Cardinality(C) + Cardinality(W)
  BY <1>1, <1>6, <1>7, <1>8, <1>9, <1>10, <1>11
<1>13. QED
  BY <1>12 DEF L, C, W

\* A button is held by one device or by none.
LEMMA ButtonExact ==
  ASSUME Inv, Wired, NEW b
  PROVE  Cardinality({d \in Pointings : b \in phys.buttons[d]}) = In(<<"button", b>>, HeldAll)
<1> DEFINE D == {d \in Pointings : b \in phys.buttons[d]}
           x == <<"button", b>>
<1>1. x \in HeldAll <=> D # {}
  BY DEF HeldAll, Held
<1>2. \A d, e \in D : d = e
  BY DEF Wired
<1> HIDE DEF D, x
<1>3. CASE D = {}
  BY <1>1, <1>3, FS_EmptySet DEF In, D, x
<1>4. CASE D # {}
  <2>1. PICK d : D = {d}
    BY <1>2, <1>4
  <2>2. Cardinality(D) = 1
    BY <2>1, FS_Singleton
  <2>3. QED
    BY <1>1, <1>4, <2>2 DEF In, D, x
<1>5. QED
  BY <1>3, <1>4

LEMMA KeyExact ==
  ASSUME Inv, NEW f
  PROVE  Cardinality({f} \cap phys.keys) = In(<<"key", f>>, HeldAll)
<1>1. <<"key", f>> \in HeldAll <=> f \in phys.keys
  BY DEF HeldAll, Held
<1>2. CASE f \in phys.keys
  <2>1. {f} \cap phys.keys = {f}
    BY <1>2
  <2>2. QED
    BY <1>1, <1>2, <2>1, FS_Singleton DEF In
<1>3. CASE f \notin phys.keys
  <2>1. {f} \cap phys.keys = {}
    BY <1>3
  <2>2. QED
    BY <1>1, <1>3, <2>1, FS_EmptySet DEF In
<1>4. QED
  BY <1>2, <1>3

LEMMA NowBalanced ==
  ASSUME Undisturbed, changes = 0, inq = << >>, dragsLast
  PROVE  Wired /\ IsFiniteSet(HeldAll) /\ Within(HeldAll) /\ Balanced(s, HeldAll)
<1>1. PICK H : IsFiniteSet(H) /\ Within(H) /\ Leads(Every, H, inq, HeldAll) /\ Balanced(s, H)
  BY DEF Undisturbed, Accounts
<1>2. H = HeldAll
  BY <1>1, LeadsNone
<1>3. QED
  BY <1>1, <1>2 DEF Undisturbed

LEMMA NoCapsSteady ==
  ASSUME \A i \in DOMAIN rules : rules[i].from # CAPSLOCK
  PROVE  \A x : Steady(x)
<1>1. \A x : Adds(x) \subseteq DOMAIN rules /\ Lifts(x) \subseteq DOMAIN rules
  BY DEF Adds, Lifts
<1>2. \A i \in DOMAIN rules : Source(i) # CapsKey
  BY DEF Source, CapsKey
<1>3. QED
  BY <1>1, <1>2 DEF Steady

LEMMA LevelsExact ==
  ASSUME setting \in Settings, NEW H, Balanced(s, H),
         \A i \in DOMAIN rules : rules[i].from # CAPSLOCK
  PROVE  /\ \A b \in Buttons :
              s.count[b] = In(<<"button", b>>, H)
                             + Cardinality({i \in converting : pressesButton(i, b)})
                             - Cardinality({i \in converting : hidesButton(i, b)})
         /\ \A f \in ModifierFlags \ {CAPSLOCK} :
              s.o.fs[f].count = In(<<"key", f>>, H)
                                  + Cardinality({i \in converting : turnsOn(i, f)})
                                  - Cardinality({i \in converting : turnsOff(i, f)})
<1>1. ASSUME NEW x \in Gauges
      PROVE  Level(s, x) = In(x, H) + Cardinality(Active(s) \cap Adds(x))
                             - Cardinality(Active(s) \cap Lifts(x))
  <2>1. Level(s, x) = In(x, H) + (Cardinality(Active(s) \cap Adds(x))
                                    - Cardinality(Active(s) \cap Lifts(x)))
    BY NoCapsSteady DEF Balanced, Counted, Due
  <2>2. /\ Cardinality(Active(s) \cap Adds(x)) \in Nat
        /\ Cardinality(Active(s) \cap Lifts(x)) \in Nat
    BY ActiveIs
  <2>3. In(x, H) \in Int
    BY DEF In
  <2>4. QED
    BY <2>1, <2>2, <2>3
<1>2. ASSUME NEW b \in Buttons
      PROVE  s.count[b] = In(<<"button", b>>, H)
                            + Cardinality({i \in converting : pressesButton(i, b)})
                            - Cardinality({i \in converting : hidesButton(i, b)})
  <2>1. /\ {i \in converting : pressesButton(i, b)} = Active(s) \cap Adds(<<"button", b>>)
        /\ {i \in converting : hidesButton(i, b)} = Active(s) \cap Lifts(<<"button", b>>)
    BY DEF converting, Active, Adds, Lifts
  <2>2. Level(s, <<"button", b>>) = s.count[b] /\ <<"button", b>> \in Gauges
    BY LevelIs, GaugeMade
  <2>3. QED
    BY <1>1, <2>1, <2>2
<1>3. ASSUME NEW f \in ModifierFlags \ {CAPSLOCK}
      PROVE  s.o.fs[f].count = In(<<"key", f>>, H)
                                 + Cardinality({i \in converting : turnsOn(i, f)})
                                 - Cardinality({i \in converting : turnsOff(i, f)})
  <2>1. /\ {i \in converting : turnsOn(i, f)} = Active(s) \cap Adds(<<"key", f>>)
        /\ {i \in converting : turnsOff(i, f)} = Active(s) \cap Lifts(<<"key", f>>)
    BY DEF converting, Active, Adds, Lifts
  <2>2. Level(s, <<"key", f>>) = s.o.fs[f].count /\ <<"key", f>> \in Gauges
    BY LevelIs, GaugeMade
  <2>3. QED
    BY <1>1, <2>1, <2>2
<1>4. QED
  BY <1>2, <1>3

\* While the devices stay as they are and no rule takes the release of what another
\* converts, the three counts are what is held and what the rules converting it add and
\* take away: nothing a press did survives its release (ButtonStatus, FlagStatus,
\* NumHeldDownKeys).
THEOREM CountsAreExact == Spec => []CountsExact
<1>1. ASSUME Inv, Undisturbed, changes = 0, inq = << >>, dragsLast,
             \A i \in DOMAIN rules : rules[i].from # CAPSLOCK
      PROVE  /\ s.held = Cardinality(phys.keys \ {CAPSLOCK}) + Cardinality(phys.consumers)
                           + Cardinality(UNION {{d} \X phys.buttons[d] : d \in Pointings})
             /\ \A b \in Buttons :
                  s.count[b] = Cardinality({d \in Pointings : b \in phys.buttons[d]})
                                 + Cardinality({i \in converting : pressesButton(i, b)})
                                 - Cardinality({i \in converting : hidesButton(i, b)})
             /\ \A f \in ModifierFlags \ {CAPSLOCK} :
                  s.o.fs[f].count = Cardinality({f} \cap phys.keys)
                                      + Cardinality({i \in converting : turnsOn(i, f)})
                                      - Cardinality({i \in converting : turnsOff(i, f)})
  <2>1. Wired /\ IsFiniteSet(HeldAll) /\ Balanced(s, HeldAll)
    BY <1>1, NowBalanced
  <2>2. s.held = Cardinality(HeldAll \ {CapsKey})
    BY <2>1 DEF Balanced
  <2>3. setting \in Settings
    BY <1>1 DEF Inv, TypeOK
  <2>4. /\ \A b \in Buttons :
             s.count[b] = In(<<"button", b>>, HeldAll)
                            + Cardinality({i \in converting : pressesButton(i, b)})
                            - Cardinality({i \in converting : hidesButton(i, b)})
        /\ \A f \in ModifierFlags \ {CAPSLOCK} :
             s.o.fs[f].count = In(<<"key", f>>, HeldAll)
                                 + Cardinality({i \in converting : turnsOn(i, f)})
                                 - Cardinality({i \in converting : turnsOff(i, f)})
    BY <1>1, <2>1, <2>3, LevelsExact
  <2>5. \A b \in Buttons :
          Cardinality({d \in Pointings : b \in phys.buttons[d]}) = In(<<"button", b>>, HeldAll)
    BY <1>1, <2>1, ButtonExact
  <2>6. \A f : Cardinality({f} \cap phys.keys) = In(<<"key", f>>, HeldAll)
    BY <1>1, KeyExact
  <2>7. QED
    BY <1>1, <2>1, <2>2, <2>4, <2>5, <2>6, HeldExact
<1>2. Inv /\ Undisturbed => CountsExact
  BY <1>1 DEF CountsExact
<1>3. QED
  BY <1>2, InvariantHolds, UndisturbedHolds, PTL

LEMMA ClearedMeans ==
  ASSUME NEW to, NEW D, Cleared(<< >>, to, D)
  PROVE  \A d \in D : to[d] = {}
<1>1. PICK n \in 0 .. Len(<< >>) : n = 0 => \A d \in D : to[d] = {}
  BY DEF Cleared
<1>2. n = 0
  BY <1>1
<1>3. QED
  BY <1>1, <1>2

LEMMA NothingCounts ==
  ASSUME setting \in Settings, Balanced(s, {}), \A i \in DOMAIN rules : rules[i].from # CAPSLOCK
  PROVE  makeButtons(s) = {}
<1>1. converting = {}
  BY DEF Balanced, Owned, Active, converting
<1>2. ASSUME NEW b \in Buttons PROVE s.count[b] = 0
  <2>1. s.count[b] = In(<<"button", b>>, {})
                       + Cardinality({i \in converting : pressesButton(i, b)})
                       - Cardinality({i \in converting : hidesButton(i, b)})
    BY LevelsExact
  <2>2. /\ {i \in converting : pressesButton(i, b)} = {}
        /\ {i \in converting : hidesButton(i, b)} = {}
    BY <1>1
  <2>3. Cardinality({}) = 0 /\ In(<<"button", b>>, {}) = 0
    BY FS_EmptySet DEF In
  <2>4. QED
    BY <2>1, <2>2, <2>3
<1>3. QED
  BY <1>2 DEF makeButtons

\* While the devices stay as they are and every pointing event a rule takes leads to one
\* for the system: with all keys and buttons up and nothing queued, no device is left with
\* a button the system thinks held, as the last report of none goes to them all
\* (ListHookedPointing::apply).
THEOREM EverywhereReleased == Spec => []ReleasedEverywhere
<1>1. ASSUME Inv, Undisturbed, changes = 0, quiet, nothingHeld, dragsLast,
             \A i \in DOMAIN rules : firesAll(rules[i]) /\ rules[i].from # CAPSLOCK
      PROVE  \A d \in present : told[d] = {}
  <2>1. inq = << >> /\ s.out = << >> /\ setting \in Settings
    BY <1>1 DEF quiet, Inv, TypeOK
  <2>2. HeldAll = {}
    <3>1. UNION {phys.buttons[d] : d \in Pointings} = {}
      BY <1>1 DEF nothingHeld
    <3>2. Held = {}
      BY <1>1 DEF nothingHeld, Held
    <3>3. QED
      BY <3>1, <3>2 DEF HeldAll
  <2>3. Balanced(s, {})
    BY <1>1, <2>1, <2>2, NowBalanced
  <2>4. makeButtons(s) = {}
    BY <1>1, <2>1, <2>3, NothingCounts
  <2>5. Cleared(<< >>, told, present)
    BY <1>1, <2>1, <2>4 DEF Undisturbed, Says, Fires
  <2>6. QED
    BY <2>5, ClearedMeans
<1>2. Inv /\ Undisturbed => ReleasedEverywhere
  BY <1>1 DEF ReleasedEverywhere
<1>3. QED
  BY <1>2, InvariantHolds, UndisturbedHolds, PTL

\* While the devices stay as they are and there is one button, which no rule presses: a
\* button that scrolls is up for the system on every device once nothing is queued
\* (PointingRelativeToScroll::remap).
THEOREM SourceIsReleased == Spec => []SourceReleased
<1>1. ASSUME Inv, Undisturbed, changes = 0, quiet, dragsLast,
             Cardinality(UNION {setting.buttons[d] : d \in Pointings}) <= 1,
             \A i \in DOMAIN rules :
               rules[i].kind \notin {"KeyToPointingButton", "PointingButtonToPointingButton"},
             NEW i \in converting, rules[i].kind = "PointingRelativeToScroll",
             NEW d \in present
      PROVE  rules[i].from \notin told[d]
  <2>1. Lone
    BY <1>1 DEF Lone, AllButtons
  <2>2. Scrolls(s)
    BY <1>1 DEF Scrolls, Active, converting
  <2>3. s.out = << >>
    BY <1>1 DEF quiet
  <2>4. Cleared(<< >>, told, present)
    BY <1>1, <2>1, <2>2, <2>3 DEF Undisturbed, Hides
  <2>5. told[d] = {}
    BY <2>4, ClearedMeans
  <2>6. QED
    BY <2>5
<1>2. Inv /\ Undisturbed => SourceReleased
  BY <1>1 DEF SourceReleased
<1>3. QED
  BY <1>2, InvariantHolds, UndisturbedHolds, PTL
===============================================================================
