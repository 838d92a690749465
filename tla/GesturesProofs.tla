----------------------------- MODULE GesturesProofs -----------------------------
(***************************************************************************)
(* The theorems about Gestures, for any keys, pairs and rules and queues   *)
(* of any length.  The parts: numbers and sequences; which keys are down   *)
(* before each event that waits; what the pairs keep of that while they    *)
(* rewrite the queue, pair by pair and pass by pass; what a list of rules  *)
(* does with an event, rule by rule; the inductive invariant; the steps.   *)
(***************************************************************************)
EXTENDS Gestures, FiniteSetTheorems, WellFoundedInduction, TLAPS

-------------------------------------------------------------------------------
(***************************************************************************)
(* Numbers: induction, over the passes and the lists of rules.             *)
(***************************************************************************)
LEMMA Least ==
  ASSUME NEW S \in SUBSET Nat, S # {}
  PROVE  \E n \in S : \A m \in S : n <= m
<1> DEFINE R == OpToRel(<, Nat)
<1>1. \A n, m \in Nat : <<m, n>> \in R <=> m < n
  BY DEF OpToRel
<1>2. IsWellFoundedOn(R, Nat)
  BY NatLessThanWellFounded
<1> HIDE DEF R
<1>3. PICK n \in S : \A m \in S : ~(<<m, n>> \in R)
  BY <1>2, WFMin
<1>4. \A m \in S : ~(m < n)
  BY <1>1, <1>3
<1>5. QED
  BY <1>3, <1>4

LEMMA UpTo ==
  ASSUME NEW n \in Nat, NEW S, 0 \in S, \A m \in 1 .. n : m - 1 \in S => m \in S
  PROVE  \A m \in 0 .. n : m \in S
<1> DEFINE T == {m \in 0 .. n : m \notin S}
<1>1. SUFFICES ASSUME T # {} PROVE FALSE
  OBVIOUS
<1>2. PICK m \in T : \A k \in T : m <= k
  <2>1. T \in SUBSET Nat
    OBVIOUS
  <2> HIDE DEF T
  <2>2. QED
    BY <1>1, <2>1, Least
<1>3. m \in 1 .. n /\ m \notin S
  BY <1>2
<1>4. m - 1 \notin T
  BY <1>2
<1>5. QED
  BY <1>3, <1>4

\* The least of a set of numbers, as FiniteSetsExt has it.
LEMMA MinIs ==
  ASSUME NEW S \in SUBSET Nat, S # {}
  PROVE  Min(S) \in S /\ \A m \in S : Min(S) <= m
<1>1. PICK n \in S : \A m \in S : n <= m
  BY Least
<1>2. QED
  BY <1>1 DEF Min

-------------------------------------------------------------------------------
(***************************************************************************)
(* Sequences of events: t is s without its n-th event.                     *)
(***************************************************************************)
Without(s, n, t) ==
  /\ n \in 1 .. Len(s) /\ Len(t) = Len(s) - 1
  /\ \A m \in 1 .. Len(t) : t[m] = IF m < n THEN s[m] ELSE s[m + 1]

LEMMA Removed ==
  ASSUME NEW s \in Seq(Event), NEW n \in 1 .. Len(s)
  PROVE  RemoveAt(s, n) \in Seq(Event) /\ Without(s, n, RemoveAt(s, n))
<1> DEFINE a == SubSeq(s, 1, n - 1)
           b == SubSeq(s, n + 1, Len(s))
<1>1. a \in Seq(Event) /\ Len(a) = n - 1 /\ \A m \in 1 .. n - 1 : a[m] = s[m]
  OBVIOUS
<1>2. b \in Seq(Event) /\ Len(b) = Len(s) - n /\ \A m \in 1 .. Len(s) - n : b[m] = s[m + n]
  OBVIOUS
<1>3. RemoveAt(s, n) = a \o b
  BY DEF RemoveAt
<1> HIDE DEF a, b
<1>4. a \o b \in Seq(Event) /\ Len(a \o b) = Len(s) - 1
  <2>1. a \in Seq(Event) /\ b \in Seq(Event)
    BY <1>1, <1>2
  <2>2. a \o b \in Seq(Event) /\ Len(a \o b) = Len(a) + Len(b)
    BY <2>1
  <2>3. QED
    BY <1>1, <1>2, <2>2
<1>5. ASSUME NEW m \in 1 .. Len(s) - 1
      PROVE  (a \o b)[m] = IF m < n THEN s[m] ELSE s[m + 1]
  <2>1. CASE m < n
    BY <1>1, <1>2, <2>1
  <2>2. CASE ~(m < n)
    <3>1. (a \o b)[m] = b[m - (n - 1)] /\ m - (n - 1) \in 1 .. Len(s) - n
      BY <1>1, <1>2, <2>2
    <3>2. QED
      BY <1>2, <2>2, <3>1
  <2>3. QED
    BY <2>1, <2>2
<1>6. QED
  BY <1>3, <1>4, <1>5 DEF Without

LEMMA Behead ==
  ASSUME NEW s \in Seq(Event), s # << >>
  PROVE  Tail(s) \in Seq(Event) /\ Head(s) \in Event /\ Head(s) = s[1] /\ Without(s, 1, Tail(s))
  BY DEF Without

LEMMA Prepended ==
  ASSUME NEW t \in Seq(Event), NEW e \in Event
  PROVE  LET s == <<e>> \o t
         IN /\ s \in Seq(Event) /\ s # << >> /\ Head(s) = e /\ s[1] = e /\ Without(s, 1, t)
            /\ Len(s) = Len(t) + 1
  BY DEF Without

LEMMA Appended ==
  ASSUME NEW t \in Seq(Event), NEW e \in Event
  PROVE  LET s == Append(t, e)
         IN /\ s \in Seq(Event) /\ Len(s) = Len(t) + 1 /\ s[Len(s)] = e /\ Without(s, Len(s), t)
            /\ \A n \in 1 .. Len(t) : s[n] = t[n]
  BY DEF Without

\* How many presses or releases wait.
Wait(s, E) == Cardinality({n \in DOMAIN s : s[n] \in E})

Downs == {e \in Event : e.down}

Ups == {e \in Event : ~e.down}

LEMMA WaitFinite ==
  ASSUME NEW s \in Seq(Event), NEW E
  PROVE  /\ IsFiniteSet({n \in DOMAIN s : s[n] \in E}) /\ Wait(s, E) \in Nat
<1>1. IsFiniteSet(1 .. Len(s))
  BY FS_Interval
<1>2. {n \in DOMAIN s : s[n] \in E} \subseteq 1 .. Len(s)
  OBVIOUS
<1>3. QED
  BY <1>1, <1>2, FS_Subset, FS_CardinalityType DEF Wait

LEMMA WaitWithout ==
  ASSUME NEW s \in Seq(Event), NEW t \in Seq(Event), NEW n, Without(s, n, t), NEW E
  PROVE  Wait(s, E) = Wait(t, E) + (IF s[n] \in E THEN 1 ELSE 0)
<1> DEFINE S == {m \in DOMAIN s : s[m] \in E}
           T == {m \in DOMAIN t : t[m] \in E}
           f == [m \in T |-> IF m < n THEN m ELSE m + 1]
<1>1. n \in 1 .. Len(s) /\ Len(t) = Len(s) - 1
      /\ \A m \in 1 .. Len(t) : t[m] = IF m < n THEN s[m] ELSE s[m + 1]
  BY DEF Without
<1>2. ASSUME NEW m \in T PROVE f[m] \in S \ {n}
  <2>1. m \in 1 .. Len(t) /\ t[m] \in E
    OBVIOUS
  <2>2. CASE m < n
    BY <1>1, <2>1, <2>2
  <2>3. CASE ~(m < n)
    BY <1>1, <2>1, <2>3
  <2>4. QED
    BY <2>2, <2>3
<1>3. \A m, o \in T : f[m] = f[o] => m = o
  BY <1>1
<1>4. ASSUME NEW o \in S \ {n} PROVE \E m \in T : f[m] = o
  <2>1. CASE o < n
    <3>1. o \in T
      BY <1>1, <2>1
    <3>2. QED
      BY <2>1, <3>1
  <2>2. CASE ~(o < n)
    <3>1. o - 1 \in T
      BY <1>1, <2>2
    <3>2. QED
      BY <1>1, <2>2, <3>1
  <2>3. QED
    BY <2>1, <2>2
<1>5. IsFiniteSet(T) /\ IsFiniteSet(S) /\ Cardinality(S) = Wait(s, E)
      /\ Cardinality(T) = Wait(t, E) /\ Wait(s, E) \in Nat /\ Wait(t, E) \in Nat
  BY WaitFinite DEF Wait
<1>6. f \in [T -> S \ {n}]
  BY <1>2
<1>7. ExistsBijection(T, S \ {n})
  <2> HIDE DEF f, S, T
  <2>1. f \in Bijection(T, S \ {n})
    BY <1>3, <1>4, <1>6 DEF Bijection, Injection, Surjection, IsInjective
  <2>2. QED
    BY <2>1 DEF ExistsBijection
<1>8. Cardinality(S \ {n}) = Cardinality(T)
  BY <1>5, <1>7, FS_Bijection
<1>9. n \in S <=> s[n] \in E
  BY <1>1
<1>10. Cardinality(S \ {n}) = IF n \in S THEN Cardinality(S) - 1 ELSE Cardinality(S)
  <2> HIDE DEF S
  <2>1. QED
    BY <1>5, FS_RemoveElement
<1>11. QED
  <2> HIDE DEF S, T
  <2>1. QED
    BY <1>5, <1>8, <1>9, <1>10
-------------------------------------------------------------------------------
(***************************************************************************)
(* Which keys are down before the events that wait: a for each key what it *)
(* is before event e, c what it is after.  A press that was put together   *)
(* with another is no longer in the queue while its key's release before   *)
(* it still is, so a key may count twice; but it is never pressed then.    *)
(***************************************************************************)
Moves(a, e, c) ==
  \A k \in Keys :
    IF e.key # k THEN a[k] = c[k]
    ELSE IF e.down THEN a[k] = 0 /\ c[k] = 1 ELSE a[k] = c[k] + 1

Fits(levels, s, now) ==
  /\ levels \in [1 .. Len(s) + 1 -> [Keys -> Nat]]
  /\ \A k \in Keys : levels[Len(s) + 1][k] = IF k \in now THEN 1 ELSE 0
  /\ \A n \in 1 .. Len(s) : Moves(levels[n], s[n], levels[n + 1])

\* With `start` before the events of s the keys in `now` are down after them.
Leads(start, s, now) == \E levels : Fits(levels, s, now) /\ levels[1] = start

LEMMA LeadsType ==
  ASSUME NEW a, NEW s \in Seq(Event), NEW now, Leads(a, s, now)
  PROVE  a \in [Keys -> Nat]
<1>1. PICK levels : Fits(levels, s, now) /\ levels[1] = a
  BY DEF Leads
<1>2. 1 \in 1 .. Len(s) + 1
  OBVIOUS
<1>3. QED
  BY <1>1, <1>2 DEF Fits

LEMMA LeadsTail ==
  ASSUME NEW a, NEW s \in Seq(Event), NEW now, Leads(a, s, now), s # << >>
  PROVE  \E c \in [Keys -> Nat] : Leads(c, Tail(s), now) /\ Moves(a, Head(s), c)
<1>1. PICK levels : Fits(levels, s, now) /\ levels[1] = a
  BY DEF Leads
<1> DEFINE t == Tail(s)
           moved == [n \in 1 .. Len(t) + 1 |-> levels[n + 1]]
<1>2. /\ t \in Seq(Event) /\ Len(t) = Len(s) - 1 /\ Len(s) >= 1 /\ Head(s) = s[1]
      /\ \A n \in 1 .. Len(t) : t[n] = s[n + 1]
  OBVIOUS
<1> HIDE DEF t
<1>3. moved \in [1 .. Len(t) + 1 -> [Keys -> Nat]]
  BY <1>1, <1>2 DEF Fits
<1>4. \A k \in Keys : moved[Len(t) + 1][k] = IF k \in now THEN 1 ELSE 0
  BY <1>1, <1>2 DEF Fits
<1>5. ASSUME NEW n \in 1 .. Len(t) PROVE Moves(moved[n], t[n], moved[n + 1])
  <2>1. moved[n] = levels[n + 1] /\ moved[n + 1] = levels[n + 2] /\ t[n] = s[n + 1]
    BY <1>2
  <2>2. n + 1 \in 1 .. Len(s) /\ (n + 1) + 1 = n + 2
    BY <1>2
  <2> HIDE DEF moved
  <2>3. QED
    BY <1>1, <2>1, <2>2 DEF Fits
<1>6. moved[1] = levels[2] /\ levels[2] \in [Keys -> Nat] /\ Moves(levels[1], s[1], levels[2])
  BY <1>1, <1>2 DEF Fits
<1> HIDE DEF moved
<1>7. QED
  BY <1>1, <1>2, <1>3, <1>4, <1>5, <1>6 DEF Leads, Fits, t

LEMMA LeadsPrepended ==
  ASSUME NEW a, NEW t \in Seq(Event), NEW now, Leads(a, t, now), NEW e \in Event, e.key \notin Keys
  PROVE  Leads(a, <<e>> \o t, now)
<1>1. PICK levels : Fits(levels, t, now) /\ levels[1] = a
  BY DEF Leads
<1> DEFINE s == <<e>> \o t
           moved == [n \in 1 .. Len(s) + 1 |-> IF n = 1 THEN a ELSE levels[n - 1]]
<1>2. /\ s \in Seq(Event) /\ Len(s) = Len(t) + 1 /\ s[1] = e
      /\ \A n \in 2 .. Len(s) : s[n] = t[n - 1]
  BY Prepended DEF Without
<1> HIDE DEF s
<1>3. a \in [Keys -> Nat]
  BY LeadsType
<1>4. moved \in [1 .. Len(s) + 1 -> [Keys -> Nat]]
  BY <1>1, <1>2, <1>3 DEF Fits
<1>5. \A k \in Keys : moved[Len(s) + 1][k] = IF k \in now THEN 1 ELSE 0
  BY <1>1, <1>2 DEF Fits
<1>6. ASSUME NEW n \in 1 .. Len(s) PROVE Moves(moved[n], s[n], moved[n + 1])
  <2>1. CASE n = 1
    <3>1. moved[n] = a /\ moved[n + 1] = a /\ s[n] = e
      BY <1>1, <1>2, <2>1
    <3>2. QED
      BY <3>1 DEF Moves
  <2>2. CASE n # 1
    <3>1. /\ moved[n] = levels[n - 1] /\ moved[n + 1] = levels[n] /\ s[n] = t[n - 1]
          /\ n - 1 \in 1 .. Len(t) /\ (n - 1) + 1 = n
      BY <1>2, <2>2
    <3> HIDE DEF moved
    <3>2. QED
      BY <1>1, <3>1 DEF Fits
  <2>3. QED
    BY <2>1, <2>2
<1>7. moved[1] = a
  OBVIOUS
<1> HIDE DEF moved
<1>8. QED
  BY <1>4, <1>5, <1>6, <1>7 DEF Leads, Fits, s

\* The first press of k is taken out.
LEMMA LeadsWithout ==
  ASSUME NEW a, NEW s \in Seq(Event), NEW t \in Seq(Event), NEW now, Leads(a, s, now),
         NEW n, Without(s, n, t), NEW k \in Keys, s[n].key = k, s[n].down,
         \A m \in 1 .. n - 1 : s[m].key = k => ~s[m].down
  PROVE  Leads([a EXCEPT ![k] = @ + 1], t, now)
<1>1. PICK levels : Fits(levels, s, now) /\ levels[1] = a
  BY DEF Leads
<1> DEFINE more(m) == [j \in Keys |-> IF j = k THEN levels[m][j] + 1 ELSE levels[m][j]]
           moved == [m \in 1 .. Len(t) + 1 |-> IF m < n THEN more(m) ELSE levels[m + 1]]
<1>2. /\ n \in 1 .. Len(s) /\ Len(t) = Len(s) - 1
      /\ \A m \in 1 .. Len(t) : t[m] = IF m < n THEN s[m] ELSE s[m + 1]
  BY DEF Without
<1>3. /\ \A m \in 1 .. Len(s) + 1 : levels[m] \in [Keys -> Nat]
      /\ \A m \in 1 .. Len(s) : Moves(levels[m], s[m], levels[m + 1])
      /\ \A j \in Keys : levels[Len(s) + 1][j] = IF j \in now THEN 1 ELSE 0
  BY <1>1 DEF Fits
<1>4. levels[n + 1] = more(n)
  <2>1. /\ levels[n] \in [Keys -> Nat] /\ levels[n + 1] \in [Keys -> Nat]
        /\ Moves(levels[n], s[n], levels[n + 1])
    BY <1>2, <1>3
  <2>2. \A j \in Keys : levels[n + 1][j] = IF j = k THEN levels[n][j] + 1 ELSE levels[n][j]
    BY <2>1 DEF Moves
  <2>3. QED
    BY <2>1, <2>2
<1>5. \A m \in 1 .. n : more(m) \in [Keys -> Nat]
  BY <1>2, <1>3
<1>6. moved \in [1 .. Len(t) + 1 -> [Keys -> Nat]]
  BY <1>2, <1>3, <1>5
<1>7. \A j \in Keys : moved[Len(t) + 1][j] = IF j \in now THEN 1 ELSE 0
  BY <1>2, <1>3
<1>8. ASSUME NEW m \in 1 .. Len(t) PROVE Moves(moved[m], t[m], moved[m + 1])
  <2>1. CASE m < n
    <3>1. moved[m] = more(m) /\ moved[m + 1] = more(m + 1) /\ t[m] = s[m]
      <4> HIDE DEF more
      <4>1. CASE m + 1 < n
        BY <1>2, <4>1
      <4>2. CASE m + 1 = n
        BY <1>2, <1>4, <4>2
      <4>3. QED
        BY <1>2, <2>1, <4>1, <4>2
    <3>2. /\ levels[m] \in [Keys -> Nat] /\ levels[m + 1] \in [Keys -> Nat]
          /\ Moves(levels[m], s[m], levels[m + 1]) /\ (s[m].key = k => ~s[m].down)
      BY <1>2, <1>3, <2>1
    <3> HIDE DEF moved
    <3>3. \A j \in Keys : /\ more(m)[j] = IF j = k THEN levels[m][j] + 1 ELSE levels[m][j]
                          /\ more(m + 1)[j] = IF j = k THEN levels[m + 1][j] + 1 ELSE levels[m + 1][j]
      OBVIOUS
    <3> HIDE DEF more, moved
    <3>4. SUFFICES Moves(more(m), s[m], more(m + 1))
      BY <3>1
    <3>5. ASSUME NEW j \in Keys
          PROVE  IF s[m].key # j THEN more(m)[j] = more(m + 1)[j]
                 ELSE IF s[m].down THEN more(m)[j] = 0 /\ more(m + 1)[j] = 1
                 ELSE more(m)[j] = more(m + 1)[j] + 1
      <4>1. levels[m][j] \in Nat /\ levels[m + 1][j] \in Nat
        BY <3>2
      <4>2. CASE j = k
        BY <3>2, <3>3, <4>1, <4>2 DEF Moves
      <4>3. CASE j # k
        BY <3>2, <3>3, <4>1, <4>3 DEF Moves
      <4>4. QED
        BY <4>2, <4>3
    <3>6. QED
      BY <3>5 DEF Moves
  <2>2. CASE ~(m < n)
    <3>1. /\ moved[m] = levels[m + 1] /\ moved[m + 1] = levels[(m + 1) + 1] /\ t[m] = s[m + 1]
          /\ m + 1 \in 1 .. Len(s)
      BY <1>2, <2>2
    <3> HIDE DEF moved
    <3>2. QED
      BY <1>3, <3>1
  <2>3. QED
    BY <2>1, <2>2
<1>9. moved[1] = [a EXCEPT ![k] = @ + 1]
  <2>1. moved[1] = more(1)
    <3> HIDE DEF more
    <3>1. QED
      BY <1>2, <1>4
  <2>2. a \in [Keys -> Nat]
    BY LeadsType
  <2>3. more(1) = [a EXCEPT ![k] = @ + 1]
    BY <1>1, <2>2
  <2>4. QED
    BY <2>1, <2>3
<1> HIDE DEF moved
<1>10. QED
  BY <1>6, <1>7, <1>8, <1>9 DEF Leads, Fits

LEMMA LeadsAppended ==
  ASSUME NEW a, NEW s \in Seq(Event), NEW now, Leads(a, s, now), NEW k \in Keys, NEW later,
         later = (IF k \in now THEN now \ {k} ELSE now \cup {k})
  PROVE  Leads(a, Append(s, [key |-> k, down |-> k \notin now]), later)
<1>1. PICK levels : Fits(levels, s, now) /\ levels[1] = a
  BY DEF Leads
<1> DEFINE e == [key |-> k, down |-> k \notin now]
           t == Append(s, e)
           last == [j \in Keys |-> IF j \in later THEN 1 ELSE 0]
           moved == [n \in 1 .. Len(t) + 1 |-> IF n <= Len(s) + 1 THEN levels[n] ELSE last]
<1>2. Len(t) = Len(s) + 1 /\ t[Len(s) + 1] = e /\ \A n \in 1 .. Len(s) : t[n] = s[n]
  OBVIOUS
<1> HIDE DEF t
<1>3. moved \in [1 .. Len(t) + 1 -> [Keys -> Nat]]
  BY <1>1, <1>2 DEF Fits
<1>4. \A j \in Keys : moved[Len(t) + 1][j] = IF j \in later THEN 1 ELSE 0
  BY <1>2
<1>5. ASSUME NEW n \in 1 .. Len(t) PROVE Moves(moved[n], t[n], moved[n + 1])
  <2>1. CASE n <= Len(s)
    <3>1. moved[n] = levels[n] /\ moved[n + 1] = levels[n + 1] /\ t[n] = s[n] /\ n \in 1 .. Len(s)
      BY <1>2, <2>1
    <3> HIDE DEF moved
    <3>2. QED
      BY <1>1, <3>1 DEF Fits
  <2>2. CASE ~(n <= Len(s))
    <3>1. n = Len(s) + 1
      BY <1>2, <2>2
    <3>2. moved[n] = levels[n] /\ moved[n + 1] = last /\ t[n] = e
      BY <1>2, <3>1
    <3>3. \A j \in Keys : levels[n][j] = IF j \in now THEN 1 ELSE 0
      BY <1>1, <3>1 DEF Fits
    <3>4. \A j \in Keys : last[j] = IF j \in later THEN 1 ELSE 0
      OBVIOUS
    <3>5. e.key = k /\ (e.down <=> k \notin now) /\ (k \in later <=> k \notin now)
          /\ \A j \in Keys : j # k => (j \in later <=> j \in now)
      OBVIOUS
    <3> HIDE DEF moved, last, e
    <3>6. QED
      BY <3>2, <3>3, <3>4, <3>5 DEF Moves
  <2>3. QED
    BY <2>1, <2>2
<1>6. moved[1] = a
  BY <1>1, <1>2
<1> HIDE DEF moved
<1>7. QED
  BY <1>3, <1>4, <1>5, <1>6 DEF Leads, Fits, t

\* What is down before the events is down after them, or has its release among them.
LEMMA Comes ==
  ASSUME NEW a, NEW s \in Seq(Event), NEW now, Leads(a, s, now), NEW k \in Keys, a[k] >= 1
  PROVE  k \in now \/ [key |-> k, down |-> FALSE] \in ToSet(s)
<1>1. PICK levels : Fits(levels, s, now) /\ levels[1] = a
  BY DEF Leads
<1>2. SUFFICES ASSUME \A n \in 1 .. Len(s) : s[n] # [key |-> k, down |-> FALSE]
               PROVE  k \in now
  BY DEF ToSet
<1> DEFINE S == {n \in 0 .. Len(s) : levels[n + 1][k] >= 1}
<1>3. 0 \in S
  BY <1>1
<1>4. ASSUME NEW n \in 1 .. Len(s), n - 1 \in S PROVE n \in S
  <2>1. levels[n][k] >= 1 /\ Moves(levels[n], s[n], levels[n + 1]) /\ s[n] \in Event
    BY <1>1, <1>4 DEF Fits
  <2>2. s[n].key = k => s[n].down
    BY <1>2, <2>1 DEF Event
  <2>3. QED
    BY <2>1, <2>2 DEF Moves
<1>5. Len(s) \in S
  <2> HIDE DEF S
  <2>1. Len(s) \in Nat /\ Len(s) \in 0 .. Len(s)
    OBVIOUS
  <2>2. QED
    BY <1>3, <1>4, <2>1, UpTo
<1>6. QED
  BY <1>1, <1>5 DEF Fits
-------------------------------------------------------------------------------
(***************************************************************************)
(* What the pairs keep: Bits are the keys k a pair waits for, room what is *)
(* left of a key beside them.                                              *)
(***************************************************************************)
Sides == [DOMAIN combos -> SUBSET {1, 2}]

Bits(b, k) == {p \in (DOMAIN combos) \X {1, 2} : p[2] \in b[p[1]] /\ combos[p[1]].from[p[2]] = k}

room(a, b) == [k \in Keys |-> a[k] - Cardinality(Bits(b, k))]

Free(g) == {p \in Keys \X Nat : 1 <= p[2] /\ p[2] <= g[p[1]]}

\* The pairs whose target is down.
Open(b) == {i \in DOMAIN combos : b[i] # {} /\ combos[i].to # NONE}

Full(b) == {i \in DOMAIN combos : b[i] = {1, 2}}

isOpen(b, v) == \E i \in DOMAIN combos : combos[i].to = v /\ b[i] # {}

LEMMA SettingIs ==
  ASSUME setting \in Settings
  PROVE  /\ combos \in Seq(Combo) /\ DOMAIN combos = 1 .. Len(combos) /\ Len(combos) \in Nat
         /\ rules \in Seq(Rule) /\ DOMAIN rules = 1 .. Len(rules) /\ Len(rules) \in Nat
         /\ \A i \in DOMAIN combos :
              /\ combos[i].from[1] \in Keys /\ combos[i].from[2] \in Keys
              /\ combos[i].from[1] # combos[i].from[2]
              /\ combos[i].to \in VirtualKeys \cup {NONE}
         /\ \A r \in DOMAIN rules :
              /\ rules[r] \in Rule /\ rules[r].kind \in Kinds /\ rules[r].from \in AnyKey
              /\ rules[r].to \in Modifiers
<1>1. combos \in Seq(Combo) /\ rules \in Seq(Rule)
  BY GesturesConstants DEF combos, rules
<1>2. \A i \in DOMAIN combos : combos[i].from[1] # combos[i].from[2]
  BY GesturesConstants DEF combos
<1>3. \A i \in DOMAIN combos : combos[i] \in Combo
  BY <1>1
<1>4. \A x \in Combo : x.from[1] \in Keys /\ x.from[2] \in Keys /\ x.to \in VirtualKeys \cup {NONE}
  BY DEF Combo
<1>5. \A r \in DOMAIN rules : rules[r] \in Rule
  BY <1>1
<1>6. QED
  BY <1>1, <1>2, <1>3, <1>4, <1>5 DEF Rule, AnyKey

LEMMA PairsFinite ==
  ASSUME setting \in Settings, NEW b \in Sides
  PROVE  /\ \A k : IsFiniteSet(Bits(b, k)) /\ Cardinality(Bits(b, k)) \in Nat
         /\ IsFiniteSet(Open(b)) /\ Cardinality(Open(b)) \in Nat
         /\ IsFiniteSet(Full(b)) /\ Cardinality(Full(b)) \in Nat
<1>1. IsFiniteSet(DOMAIN combos)
  BY SettingIs, FS_Interval
<1>2. IsFiniteSet({1, 2})
  <2>1. IsFiniteSet({1})
    BY FS_Singleton
  <2>2. IsFiniteSet({1} \cup {2})
    BY <2>1, FS_AddElement
  <2>3. {1} \cup {2} = {1, 2}
    OBVIOUS
  <2>4. QED
    BY <2>2, <2>3
<1>3. IsFiniteSet((DOMAIN combos) \X {1, 2})
  BY <1>1, <1>2, FS_Product
<1>4. \A k : Bits(b, k) \subseteq (DOMAIN combos) \X {1, 2}
  BY DEF Bits
<1>5. Open(b) \subseteq DOMAIN combos /\ Full(b) \subseteq DOMAIN combos
  BY DEF Open, Full
<1>6. \A k : IsFiniteSet(Bits(b, k))
  BY <1>3, <1>4, FS_Subset
<1>7. IsFiniteSet(Open(b)) /\ IsFiniteSet(Full(b))
  BY <1>1, <1>5, FS_Subset
<1>8. QED
  BY <1>6, <1>7, FS_CardinalityType

\* Side j of pair i, key k, joins.
LEMMA OneMoreBit ==
  ASSUME setting \in Settings, NEW b \in Sides, NEW c \in Sides, NEW i \in DOMAIN combos, NEW j \in {1, 2},
         c[i] = b[i] \cup {j}, \A m \in DOMAIN combos \ {i} : c[m] = b[m], j \notin b[i]
  PROVE  /\ Cardinality(Bits(c, combos[i].from[j])) = Cardinality(Bits(b, combos[i].from[j])) + 1
         /\ \A k : k # combos[i].from[j] => Bits(c, k) = Bits(b, k)
<1> DEFINE k == combos[i].from[j]
<1>1. Bits(c, k) = Bits(b, k) \cup {<<i, j>>}
  BY DEF Bits
<1>2. <<i, j>> \notin Bits(b, k)
  BY DEF Bits
<1>3. IsFiniteSet(Bits(b, k))
  BY PairsFinite
<1>4. Cardinality(Bits(c, k)) = Cardinality(Bits(b, k)) + 1
  BY <1>1, <1>2, <1>3, FS_AddElement
<1>5. \A o : o # k => Bits(c, o) = Bits(b, o)
  BY DEF Bits
<1>6. QED
  BY <1>4, <1>5

\* A pair that waits for k is one of its bits.
LEMMA SomeBit ==
  ASSUME setting \in Settings, NEW b \in Sides, NEW i \in DOMAIN combos, NEW j \in b[i]
  PROVE  Cardinality(Bits(b, combos[i].from[j])) >= 1
<1>1. j \in {1, 2}
  BY DEF Sides
<1>2. <<i, j>> \in Bits(b, combos[i].from[j])
  BY <1>1 DEF Bits
<1>3. QED
  BY <1>2, PairsFinite, FS_EmptySet

LEMMA NoBit ==
  ASSUME setting \in Settings, NEW b \in Sides, NEW k,
         \A i \in DOMAIN combos : \A j \in b[i] : combos[i].from[j] # k
  PROVE  Cardinality(Bits(b, k)) = 0
<1>1. Bits(b, k) = {}
  BY DEF Bits
<1>2. QED
  BY <1>1, FS_EmptySet

LEMMA OneMoreFree ==
  ASSUME NEW g \in [Keys -> Nat], NEW h \in [Keys -> Nat], NEW k \in Keys, h[k] = g[k] + 1,
         \A m \in Keys \ {k} : h[m] = g[m], IsFiniteSet(Free(g)) \/ IsFiniteSet(Free(h))
  PROVE  /\ IsFiniteSet(Free(g)) /\ IsFiniteSet(Free(h))
         /\ Cardinality(Free(h)) = Cardinality(Free(g)) + 1
<1> DEFINE x == <<k, h[k]>>
<1>1. Free(h) = Free(g) \cup {x}
  BY DEF Free
<1>2. x \notin Free(g)
  BY DEF Free
<1>3. Free(g) = Free(h) \ {x}
  BY <1>1, <1>2
<1> HIDE DEF x
<1>4. IsFiniteSet(Free(g))
  BY <1>3, FS_RemoveElement
<1>5. IsFiniteSet(Free(h)) /\ Cardinality(Free(h)) = Cardinality(Free(g)) + 1
  BY <1>1, <1>2, <1>4, FS_AddElement
<1>6. QED
  BY <1>4, <1>5

LEMMA FreeSize ==
  ASSUME NEW g \in [Keys -> Nat], IsFiniteSet(Free(g))
  PROVE  /\ Cardinality(Free(g)) \in Nat
         /\ \A k \in Keys : g[k] >= 1 => Cardinality(Free(g)) >= 1
<1>1. Cardinality(Free(g)) \in Nat
  BY FS_CardinalityType
<1>2. ASSUME NEW k \in Keys, g[k] >= 1 PROVE Cardinality(Free(g)) >= 1
  <2>1. <<k, 1>> \in Free(g)
    BY <1>2 DEF Free
  <2>2. QED
    BY <1>1, <2>1, FS_EmptySet
<1>3. QED
  BY <1>1, <1>2

\* A pair opens, closes, becomes complete.
LEMMA OneMorePair ==
  ASSUME setting \in Settings, NEW b \in Sides, NEW c \in Sides, NEW i \in DOMAIN combos,
         \A m \in DOMAIN combos \ {i} : c[m] = b[m]
  PROVE  /\ b[i] = {} /\ c[i] # {} /\ combos[i].to # NONE =>
              Cardinality(Open(c)) = Cardinality(Open(b)) + 1
         /\ (b[i] = {} <=> c[i] = {}) \/ combos[i].to = NONE => Open(c) = Open(b)
         /\ b[i] # {1, 2} /\ c[i] = {1, 2} => Cardinality(Full(c)) = Cardinality(Full(b)) + 1
         /\ (b[i] = {1, 2} <=> c[i] = {1, 2}) => Full(c) = Full(b)
<1>1. ASSUME b[i] = {}, c[i] # {}, combos[i].to # NONE
      PROVE  Cardinality(Open(c)) = Cardinality(Open(b)) + 1
  <2>1. Open(c) = Open(b) \cup {i} /\ i \notin Open(b)
    BY <1>1 DEF Open
  <2>2. QED
    BY <2>1, PairsFinite, FS_AddElement
<1>2. ASSUME b[i] # {1, 2}, c[i] = {1, 2}
      PROVE  Cardinality(Full(c)) = Cardinality(Full(b)) + 1
  <2>1. Full(c) = Full(b) \cup {i} /\ i \notin Full(b)
    BY <1>2 DEF Full
  <2>2. QED
    BY <2>1, PairsFinite, FS_AddElement
<1>3. (b[i] = {} <=> c[i] = {}) \/ combos[i].to = NONE => Open(c) = Open(b)
  BY DEF Open
<1>4. (b[i] = {1, 2} <=> c[i] = {1, 2}) => Full(c) = Full(b)
  BY DEF Full
<1>5. QED
  BY <1>1, <1>2, <1>3, <1>4
-------------------------------------------------------------------------------
(***************************************************************************)
(* The queue while the pairs rewrite it: q is what they have made of it,   *)
(* with the keys of l down before its events; l0 and w are of its start.   *)
(***************************************************************************)
Works == [queue : Seq(Event), both : Sides, again : BOOLEAN]

Given == \A i \in DOMAIN combos : combos[i].to # NONE

Counted(again) == ~again \/ Given

\* The target of a pair is first.
Target(s) == s # << >> /\ Head(s).key \notin Keys

Pending(s) == IF ~Target(s) THEN 0 ELSE IF Head(s).down THEN 1 ELSE -1

Balance(q) == Wait(q.queue, Downs) - Wait(q.queue, Ups) + Cardinality(Full(q.both))

MidKeys(q, l) ==
  /\ \A n \in 2 .. Len(q.queue) : q.queue[n].key \in Keys
  /\ Leads(l, q.queue, phys)
  /\ room(l, q.both) \in [Keys -> Nat] /\ IsFiniteSet(Free(room(l, q.both)))

MidCount(w, q, l) ==
  /\ Counted(q.again) =>
       held + Pending(q.queue) = Cardinality(Free(room(l, q.both))) + Cardinality(Open(q.both))
  /\ Given => Balance(q) = w

MidKept(l0, q, l) ==
  /\ \A k \in Keys : room(l0, both)[k] <= room(l, q.both)[k]
  /\ \A v \in VirtualKeys :
       isOpen(both, v) =>
         \/ isOpen(q.both, v)
         \/ q.queue # << >> /\ Head(q.queue) = [key |-> v, down |-> FALSE]
  /\ did.again => q.again
  /\ Target(q.queue) /\ Head(q.queue).down =>
       /\ isOpen(q.both, Head(q.queue).key)
       /\ q.again \/ ~isOpen(both, Head(q.queue).key)

Mid(l0, w, q, l) == MidKeys(q, l) /\ MidCount(w, q, l) /\ MidKept(l0, q, l)

LEMMA SideIs ==
  ASSUME setting \in Settings, NEW i \in DOMAIN combos, NEW j \in {1, 2}, NEW k \in Keys,
         combos[i].from[j] = k
  PROVE  /\ {m \in 1 .. 2 : combos[i].from[m] = k} # {}
         /\ Min({m \in 1 .. 2 : combos[i].from[m] = k}) = j
         /\ combos[i].from[3 - j] \in Keys /\ combos[i].from[3 - j] # k
<1> DEFINE S == {m \in 1 .. 2 : combos[i].from[m] = k}
<1>1. combos[i].from[1] \in Keys /\ combos[i].from[2] \in Keys /\ combos[i].from[1] # combos[i].from[2]
  BY SettingIs
<1>2. S = {j}
  BY <1>1
<1>3. Min(S) \in S
  <2>1. S \in SUBSET Nat /\ S # {}
    BY <1>2
  <2> HIDE DEF S
  <2>2. QED
    BY <2>1, MinIs
<1>4. S # {} /\ Min(S) = j
  <2> HIDE DEF S
  <2>1. QED
    BY <1>2, <1>3
<1>5. combos[i].from[3 - j] \in Keys /\ combos[i].from[3 - j] # k
  <2>1. CASE j = 1
    BY <1>1, <2>1
  <2>2. CASE j = 2
    BY <1>1, <2>2
  <2>3. QED
    BY <2>1, <2>2
<1>6. QED
  BY <1>4, <1>5

\* What one function does: nothing, or one of the two.
Releases(q, i, j) ==
  /\ q.queue # << >> /\ ~Head(q.queue).down /\ Head(q.queue).key = combos[i].from[j]
  /\ j \in q.both[i]

Presses(q, i, j, n) ==
  /\ q.queue # << >> /\ Head(q.queue).down /\ Head(q.queue).key = combos[i].from[j]
  /\ n \in 2 .. Len(q.queue) /\ q.queue[n].key = combos[i].from[3 - j] /\ q.queue[n].down
  /\ \A m \in 2 .. n - 1 : q.queue[m].key = combos[i].from[3 - j] => ~q.queue[m].down

LEMMA RemapPairIs ==
  ASSUME setting \in Settings, NEW q \in Works, NEW i \in DOMAIN combos
  PROVE  \/ remapPair(q, i) = q
         \/ \E j \in {1, 2} : Releases(q, i, j) /\ remapPair(q, i) = releasePair(q, i, j)
         \/ \E j \in {1, 2}, n \in Nat : Presses(q, i, j, n) /\ remapPair(q, i) = pressPair(q, i, n)
<1> DEFINE e == Head(q.queue)
           mine == {j \in 1 .. 2 : combos[i].from[j] = e.key}
           side == Min(mine)
           paired == combos[i].from[3 - side]
           found == stops(q.queue, e.key, paired)
<1>1. CASE q.queue = << >> \/ mine = {}
  BY <1>1 DEF remapPair
<1>2. CASE q.queue # << >> /\ mine # {}
  <2>1. PICK j \in {1, 2} : combos[i].from[j] = e.key
    BY <1>2
  <2>2. e.key \in Keys /\ side = j /\ paired = combos[i].from[3 - j] /\ paired \in Keys /\ paired # e.key
    <3>1. e.key \in Keys
      BY <2>1, SettingIs
    <3>2. QED
      BY <2>1, <3>1, SideIs
  <2>3. e \in Event /\ q.queue \in Seq(Event)
    BY <1>2 DEF Works
  <2>4. e.down \in BOOLEAN
    BY <2>3 DEF Event
  <2>5. CASE ~e.down
    <3>1. remapPair(q, i) = IF side \in q.both[i] THEN releasePair(q, i, side) ELSE q
      BY <1>2, <2>5 DEF remapPair
    <3>2. QED
      BY <1>2, <2>1, <2>2, <2>5, <3>1 DEF Releases
  <2>6. CASE e.down
    <3>1. remapPair(q, i) = IF /\ combos[i].flags \subseteq makeFlags(count)
                               /\ found # {} /\ q.queue[Min(found)].key = paired
                            THEN pressPair(q, i, Min(found)) ELSE q
      BY <1>2, <2>6 DEF remapPair
    <3>2. SUFFICES ASSUME found # {}, q.queue[Min(found)].key = paired
                   PROVE  Presses(q, i, j, Min(found)) /\ Min(found) \in Nat
      BY <3>1
    <3>3. found \in SUBSET Nat
      BY <2>3 DEF stops
    <3> DEFINE n == Min(found)
    <3>4. n \in found /\ \A m \in found : n <= m
      <4> HIDE DEF found
      <4>1. QED
        BY <3>2, <3>3, MinIs
    <3>5. n \in 2 .. Len(q.queue) /\ q.queue[n].key = paired /\ q.queue[n].down
      <4>1. n \in DOMAIN q.queue \ {1}
        BY <3>4 DEF stops
      <4>2. q.queue[n] = [key |-> paired, down |-> TRUE]
        BY <2>2, <3>2, <3>4 DEF stops
      <4>3. QED
        BY <2>3, <4>1, <4>2
    <3> HIDE DEF n
    <3>6. ASSUME NEW m \in 2 .. n - 1, q.queue[m].key = paired, q.queue[m].down
          PROVE  FALSE
      <4>1. m \in DOMAIN q.queue \ {1} /\ q.queue[m] \in Event
        BY <2>3, <3>5
      <4>2. q.queue[m] = [key |-> paired, down |-> TRUE]
        BY <3>6, <4>1 DEF Event
      <4>3. m \in found
        BY <4>1, <4>2 DEF stops
      <4>4. n <= m
        BY <3>4, <4>3
      <4>5. QED
        BY <3>5, <4>4
    <3>7. QED
      BY <1>2, <2>1, <2>2, <2>6, <3>5, <3>6 DEF Presses, n
  <2>7. QED
    BY <2>4, <2>5, <2>6
<1>3. QED
  BY <1>1, <1>2
-------------------------------------------------------------------------------
LEMMA NoneIs == NONE \notin Keys /\ NONE \notin VirtualKeys /\ Keys \cap VirtualKeys = {}
  BY GesturesConstants

\* A queue of keys, with the target put first, or none.
LEMMA Pushed ==
  ASSUME setting \in Settings, NEW u \in Seq(Event), \A n \in 1 .. Len(u) : u[n].key \in Keys,
         NEW i \in DOMAIN combos, NEW down \in BOOLEAN, NEW c, Leads(c, u, phys)
  PROVE  LET t == push_remapped(u, i, down)
         IN /\ t \in Seq(Event) /\ Leads(c, t, phys)
            /\ \A n \in 2 .. Len(t) : t[n].key \in Keys
            /\ combos[i].to = NONE => t = u /\ ~Target(t)
            /\ combos[i].to # NONE =>
                 /\ Target(t) /\ Head(t) = [key |-> combos[i].to, down |-> down]
                 /\ Wait(t, Downs) = Wait(u, Downs) + (IF down THEN 1 ELSE 0)
                 /\ Wait(t, Ups) = Wait(u, Ups) + (IF down THEN 0 ELSE 1)
<1> DEFINE t == push_remapped(u, i, down)
           e == [key |-> combos[i].to, down |-> down]
<1>1. CASE combos[i].to = NONE
  <2>1. t = u
    BY <1>1 DEF push_remapped
  <2>2. ~Target(u)
    BY DEF Target
  <2>3. QED
    BY <1>1, <2>1, <2>2
<1>2. CASE combos[i].to # NONE
  <2>1. t = <<e>> \o u
    BY <1>2 DEF push_remapped
  <2>2. e \in Event /\ e.key \notin Keys /\ e.down = down /\ combos[i].to \in VirtualKeys
    <3>1. combos[i].to \in VirtualKeys
      BY <1>2, SettingIs
    <3>2. QED
      BY <3>1, NoneIs DEF Event, AnyKey
  <2> HIDE DEF e
  <2>3. /\ t \in Seq(Event) /\ t # << >> /\ Head(t) = e /\ t[1] = e /\ Without(t, 1, u)
        /\ Len(t) = Len(u) + 1
    BY <2>1, <2>2, Prepended
  <2>4. Leads(c, t, phys)
    BY <2>1, <2>2, LeadsPrepended
  <2> HIDE DEF t
  <2>5. \A n \in 2 .. Len(t) : t[n].key \in Keys
    <3>1. ASSUME NEW n \in 2 .. Len(t) PROVE t[n].key \in Keys
      <4>1. n - 1 \in 1 .. Len(u) /\ u[n - 1] = t[(n - 1) + 1] /\ (n - 1) + 1 = n
        BY <2>3 DEF Without
      <4>2. QED
        BY <4>1
    <3>2. QED
      BY <3>1
  <2>6. /\ Wait(t, Downs) = Wait(u, Downs) + (IF down THEN 1 ELSE 0)
        /\ Wait(t, Ups) = Wait(u, Ups) + (IF down THEN 0 ELSE 1)
    <3>1. /\ Wait(t, Downs) = Wait(u, Downs) + (IF t[1] \in Downs THEN 1 ELSE 0)
          /\ Wait(t, Ups) = Wait(u, Ups) + (IF t[1] \in Ups THEN 1 ELSE 0)
      BY <2>3, WaitWithout
    <3>2. (t[1] \in Downs <=> down) /\ (t[1] \in Ups <=> ~down)
      BY <2>2, <2>3 DEF Downs, Ups
    <3>3. QED
      BY <3>1, <3>2
  <2>7. QED
    BY <1>2, <2>2, <2>3, <2>4, <2>5, <2>6 DEF Target, t, e
<1>3. QED
  BY <1>1, <1>2

Base(l0, w) ==
  /\ setting \in Settings /\ both \in Sides /\ held \in Nat /\ did.again \in BOOLEAN
  /\ room(l0, both) \in [Keys -> Nat] /\ w \in Int

LEMMA WorkChanged ==
  ASSUME NEW q \in Works, NEW s, NEW b
  PROVE  [q EXCEPT !.queue = s, !.both = b] = [queue |-> s, both |-> b, again |-> q.again]
<1>1. [q EXCEPT !.queue = s] = [queue |-> s, both |-> q.both, again |-> q.again]
  BY DEF Works
<1>2. [[queue |-> s, both |-> q.both, again |-> q.again] EXCEPT !.both = b]
      = [queue |-> s, both |-> b, again |-> q.again]
  OBVIOUS
<1>3. [q EXCEPT !.queue = s, !.both = b] = [[q EXCEPT !.queue = s] EXCEPT !.both = b]
  OBVIOUS
<1>4. QED
  BY <1>1, <1>2, <1>3

LEMMA MidRelease ==
  ASSUME NEW l0, NEW w, Base(l0, w), NEW q \in Works, NEW l, Mid(l0, w, q, l),
         NEW i \in DOMAIN combos, NEW j \in {1, 2}, Releases(q, i, j)
  PROVE  releasePair(q, i, j) \in Works /\ \E c : Mid(l0, w, releasePair(q, i, j), c)
<1> DEFINE s == q.queue
           e == Head(s)
           k == combos[i].from[j]
           u == Tail(s)
           p == releasePair(q, i, j)
           b == [q.both EXCEPT ![i] = @ \ {j}]
           closes == q.both[i] = {j}
           v == combos[i].to
<1>1. /\ setting \in Settings /\ s \in Seq(Event) /\ q.both \in Sides /\ q.again \in BOOLEAN /\ s # << >>
      /\ e.key = k /\ ~e.down /\ j \in q.both[i]
  BY DEF Base, Works, Releases
<1>2. k \in Keys /\ v \in VirtualKeys \cup {NONE}
  BY <1>1, SettingIs
<1>3. /\ u \in Seq(Event) /\ e \in Event /\ e = s[1] /\ Without(s, 1, u)
  BY <1>1, Behead
<1>4. \A n \in 1 .. Len(u) : u[n].key \in Keys
  <2>1. ASSUME NEW n \in 1 .. Len(u) PROVE u[n].key \in Keys
    <3>1. n + 1 \in 2 .. Len(s) /\ u[n] = s[n + 1]
      BY <1>3 DEF Without
    <3>2. QED
      BY <3>1 DEF Mid, MidKeys
  <2>2. QED
    BY <2>1
<1>5. PICK c \in [Keys -> Nat] : Leads(c, u, phys) /\ Moves(l, e, c)
  BY <1>1, LeadsTail DEF Mid, MidKeys
<1>6. l[k] = c[k] + 1 /\ \A m \in Keys \ {k} : l[m] = c[m]
  BY <1>1, <1>2, <1>5 DEF Moves
<1>7. /\ b \in Sides /\ q.both[i] = b[i] \cup {j} /\ j \notin b[i]
      /\ \A m \in DOMAIN combos \ {i} : q.both[m] = b[m]
  BY <1>1 DEF Sides
<1>8. p = [queue |-> IF closes THEN push_remapped(u, i, FALSE) ELSE u, both |-> b, again |-> q.again]
  <2> DEFINE t == IF closes THEN push_remapped(u, i, FALSE) ELSE u
  <2>1. p = [q EXCEPT !.queue = t, !.both = b]
    BY DEF releasePair
  <2> HIDE DEF t, b
  <2>2. [q EXCEPT !.queue = t, !.both = b] = [queue |-> t, both |-> b, again |-> q.again]
    BY WorkChanged
  <2>3. QED
    BY <2>1, <2>2 DEF t
<1> HIDE DEF b, p, u
<1>9. /\ Cardinality(Bits(q.both, k)) = Cardinality(Bits(b, k)) + 1
      /\ \A m : m # k => Bits(q.both, m) = Bits(b, m)
  BY <1>1, <1>7, OneMoreBit
<1>10. room(c, b) = room(l, q.both)
  <2>1. ASSUME NEW m \in Keys PROVE c[m] - Cardinality(Bits(b, m)) = l[m] - Cardinality(Bits(q.both, m))
    <3>1. Cardinality(Bits(b, m)) \in Nat /\ c[m] \in Nat
      BY <1>1, <1>7, PairsFinite
    <3>2. CASE m = k
      BY <1>6, <1>9, <3>1, <3>2
    <3>3. CASE m # k
      BY <1>6, <1>9, <3>1, <3>3
    <3>4. QED
      BY <3>2, <3>3
  <2>2. QED
    BY <2>1 DEF room
<1>11. /\ Wait(s, Downs) = Wait(u, Downs) /\ Wait(s, Ups) = Wait(u, Ups) + 1
       /\ Wait(u, Downs) \in Nat /\ Wait(u, Ups) \in Nat
  <2>1. Wait(u, Downs) \in Nat /\ Wait(u, Ups) \in Nat
    BY <1>3, WaitFinite
  <2>2. /\ Wait(s, Downs) = Wait(u, Downs) + (IF s[1] \in Downs THEN 1 ELSE 0)
        /\ Wait(s, Ups) = Wait(u, Ups) + (IF s[1] \in Ups THEN 1 ELSE 0)
    BY <1>1, <1>3, WaitWithout
  <2>3. s[1] \notin Downs /\ s[1] \in Ups
    BY <1>1, <1>3 DEF Downs, Ups
  <2>4. QED
    BY <2>1, <2>2, <2>3
<1>12. ~Target(s) /\ ~Target(u)
  BY <1>1, <1>2, <1>4 DEF Target
<1>13. \A x \in VirtualKeys : isOpen(q.both, x) => isOpen(b, x) \/ (closes /\ v = x)
  <2>1. ASSUME NEW x \in VirtualKeys, isOpen(q.both, x), ~(closes /\ v = x) PROVE isOpen(b, x)
    <3>1. PICK m \in DOMAIN combos : combos[m].to = x /\ q.both[m] # {}
      BY <2>1 DEF isOpen
    <3>2. CASE m = i
      BY <1>1, <1>7, <2>1, <3>1, <3>2 DEF isOpen, Sides
    <3>3. CASE m # i
      BY <1>7, <3>1, <3>3 DEF isOpen
    <3>4. QED
      BY <3>2, <3>3
  <2>2. QED
    BY <2>1
<1>14. /\ held + 0 = Cardinality(Free(room(l, q.both))) + Cardinality(Open(q.both)) \/ ~Counted(q.again)
       /\ Given => Wait(s, Downs) - Wait(s, Ups) + Cardinality(Full(q.both)) = w
  BY <1>12 DEF Mid, MidCount, Pending, Balance
<1>15. /\ Cardinality(Open(b)) \in Nat /\ Cardinality(Full(b)) \in Nat
       /\ Cardinality(Free(room(l, q.both))) \in Nat /\ held \in Nat
  <2>1. Cardinality(Free(room(l, q.both))) \in Nat
    BY FreeSize DEF Mid, MidKeys
  <2>2. QED
    BY <1>1, <1>7, <2>1, PairsFinite DEF Base
<1>16. MidKeys(q, l) /\ MidKept(l0, q, l)
  BY DEF Mid
<1>17. CASE closes /\ v # NONE
  <2> DEFINE t == push_remapped(u, i, FALSE)
  <2>1. /\ t \in Seq(Event) /\ Leads(c, t, phys) /\ \A n \in 2 .. Len(t) : t[n].key \in Keys
        /\ Target(t) /\ Head(t) = [key |-> v, down |-> FALSE]
        /\ Wait(t, Ups) = Wait(u, Ups) + 1 /\ Wait(t, Downs) = Wait(u, Downs)
    <3>1. FALSE \in BOOLEAN
      OBVIOUS
    <3>2. /\ t \in Seq(Event) /\ Leads(c, t, phys) /\ \A n \in 2 .. Len(t) : t[n].key \in Keys
          /\ Target(t) /\ Head(t) = [key |-> v, down |-> FALSE]
          /\ Wait(t, Downs) = Wait(u, Downs) + (IF FALSE THEN 1 ELSE 0)
          /\ Wait(t, Ups) = Wait(u, Ups) + (IF FALSE THEN 0 ELSE 1)
      BY <1>1, <1>3, <1>4, <1>5, <1>17, <3>1, Pushed
    <3> HIDE DEF t
    <3>3. QED
      BY <1>11, <3>2
  <2> HIDE DEF t
  <2>2. p.queue = t /\ p.both = b /\ p.again = q.again /\ p \in Works
    BY <1>1, <1>7, <1>8, <1>17, <2>1 DEF t, Works
  <2>3. MidKeys(p, c)
    BY <1>10, <1>16, <2>1, <2>2 DEF MidKeys
  <2>4. Cardinality(Open(q.both)) = Cardinality(Open(b)) + 1 /\ Full(q.both) = Full(b)
    <3>1. b[i] = {} /\ q.both[i] # {} /\ q.both[i] # {1, 2} /\ b[i] # {1, 2}
      BY <1>7, <1>17
    <3>2. QED
      BY <1>1, <1>7, <1>17, <3>1, OneMorePair
  <2>5. MidCount(w, p, c)
    <3>1. Pending(t) = -1
      BY <2>1 DEF Pending
    <3>2. Counted(q.again) => held + (-1) = Cardinality(Free(room(l, q.both))) + Cardinality(Open(b))
      BY <1>14, <1>15, <2>4
    <3>3. Given => Wait(t, Downs) - Wait(t, Ups) + Cardinality(Full(b)) = w
      BY <1>11, <1>14, <1>15, <2>1, <2>4
    <3>4. QED
      BY <1>10, <2>2, <3>1, <3>2, <3>3 DEF MidCount, Balance
  <2>6. MidKept(l0, p, c)
    <3>1. \A x \in VirtualKeys : isOpen(both, x) => isOpen(b, x) \/ x = v
      <4>1. \A x \in VirtualKeys : isOpen(both, x) => isOpen(q.both, x)
        <5>1. ASSUME NEW x \in VirtualKeys, isOpen(both, x) PROVE isOpen(q.both, x)
          <6>1. isOpen(q.both, x) \/ (s # << >> /\ e = [key |-> x, down |-> FALSE])
            BY <1>16, <5>1 DEF MidKept
          <6>2. e # [key |-> x, down |-> FALSE]
            BY <1>1, <1>2, NoneIs
          <6>3. QED
            BY <6>1, <6>2
        <5>2. QED
          BY <5>1
      <4>2. QED
        BY <1>13, <4>1
    <3>2. Head(t).down = FALSE /\ t # << >>
      BY <2>1 DEF Target
    <3>3. QED
      BY <1>10, <1>16, <2>1, <2>2, <3>1, <3>2 DEF MidKept
  <2>7. QED
    BY <2>2, <2>3, <2>5, <2>6 DEF Mid, p
<1>18. CASE ~(closes /\ v # NONE)
  <2>1. p.queue = u /\ p.both = b /\ p.again = q.again /\ p \in Works
    <3>1. closes => push_remapped(u, i, FALSE) = u
      BY <1>18 DEF push_remapped
    <3>2. QED
      BY <1>1, <1>3, <1>7, <1>8, <3>1 DEF Works
  <2>2. MidKeys(p, c)
    BY <1>4, <1>5, <1>10, <1>16, <2>1 DEF MidKeys
  <2>3. Open(q.both) = Open(b)
    <3>1. (b[i] = {} <=> q.both[i] = {}) \/ v = NONE
      BY <1>1, <1>7, <1>18
    <3>2. QED
      BY <1>1, <1>7, <3>1, OneMorePair
  <2>4. Given => Cardinality(Full(q.both)) = Cardinality(Full(b)) + 1
    <3>1. SUFFICES ASSUME Given PROVE Cardinality(Full(q.both)) = Cardinality(Full(b)) + 1
      OBVIOUS
    <3>2. q.both[i] = {1, 2} /\ b[i] # {1, 2}
      <4>1. q.both[i] # {j} /\ q.both[i] \subseteq {1, 2}
        BY <1>1, <1>18, <3>1 DEF Given, Sides
      <4>2. QED
        BY <1>7, <4>1
    <3>3. QED
      BY <1>1, <1>7, <3>2, OneMorePair
  <2>5. MidCount(w, p, c)
    <3>1. Pending(u) = 0
      BY <1>12 DEF Pending
    <3>2. Given => Wait(u, Downs) - Wait(u, Ups) + Cardinality(Full(b)) = w
      BY <1>11, <1>14, <1>15, <2>4
    <3>3. QED
      BY <1>10, <1>14, <2>1, <2>3, <3>1, <3>2 DEF MidCount, Balance
  <2>6. MidKept(l0, p, c)
    <3>1. \A x \in VirtualKeys : isOpen(both, x) => isOpen(b, x)
      <4>1. \A x \in VirtualKeys : isOpen(both, x) => isOpen(q.both, x)
        <5>1. ASSUME NEW x \in VirtualKeys, isOpen(both, x) PROVE isOpen(q.both, x)
          <6>1. isOpen(q.both, x) \/ (s # << >> /\ e = [key |-> x, down |-> FALSE])
            BY <1>16, <5>1 DEF MidKept
          <6>2. e # [key |-> x, down |-> FALSE]
            BY <1>1, <1>2, NoneIs
          <6>3. QED
            BY <6>1, <6>2
        <5>2. QED
          BY <5>1
      <4>2. QED
        BY <1>13, <1>18, <4>1, NoneIs
    <3>2. QED
      BY <1>10, <1>12, <1>16, <2>1, <3>1 DEF MidKept
  <2>7. QED
    BY <2>1, <2>2, <2>5, <2>6 DEF Mid, p
<1>19. QED
  BY <1>17, <1>18 DEF p

LEMMA MidPress ==
  ASSUME NEW l0, NEW w, Base(l0, w), NEW q \in Works, NEW l, Mid(l0, w, q, l),
         NEW i \in DOMAIN combos, NEW j \in {1, 2}, NEW n, Presses(q, i, j, n)
  PROVE  pressPair(q, i, n) \in Works /\ \E c : Mid(l0, w, pressPair(q, i, n), c)
<1> DEFINE s == q.queue
           e == Head(s)
           k == combos[i].from[j]
           k2 == combos[i].from[3 - j]
           r == RemoveAt(s, n)
           u == Tail(r)
           p == pressPair(q, i, n)
           b == [q.both EXCEPT ![i] = {1, 2}]
           v == combos[i].to
           more == \E m \in DOMAIN combos : combos[m].to = combos[i].to /\ q.both[m] # {}
           t == push_remapped(u, i, TRUE)
<1>1. /\ setting \in Settings /\ s \in Seq(Event) /\ q.both \in Sides /\ q.again \in BOOLEAN /\ s # << >>
      /\ e.key = k /\ e.down /\ n \in 2 .. Len(s) /\ s[n].key = k2 /\ s[n].down
      /\ \A m \in 2 .. n - 1 : s[m].key = k2 => ~s[m].down
  BY DEF Base, Works, Presses
<1>2. k \in Keys /\ k2 \in Keys /\ k2 # k /\ v \in VirtualKeys \cup {NONE}
  <2>1. k \in Keys
    BY <1>1, SettingIs
  <2>2. QED
    BY <1>1, <2>1, SideIs, SettingIs
<1>3. /\ e \in Event /\ e = s[1] /\ r \in Seq(Event) /\ Without(s, n, r)
  <2>1. n \in 1 .. Len(s)
    BY <1>1
  <2>2. QED
    BY <1>1, <2>1, Behead, Removed
<1> HIDE DEF r
<1>4. r # << >> /\ Head(r) = e /\ u \in Seq(Event) /\ Without(r, 1, u) /\ r[1] = e
  <2>1. Len(r) >= 1 /\ r[1] = s[1]
    BY <1>1, <1>3 DEF Without
  <2>2. QED
    BY <1>3, <2>1, Behead
<1> HIDE DEF u
<1>5. \A m \in 1 .. Len(u) : u[m].key \in Keys
  <2>1. ASSUME NEW m \in 1 .. Len(u) PROVE u[m].key \in Keys
    <3>1. m + 1 \in 1 .. Len(r) /\ u[m] = r[m + 1] /\ Len(r) = Len(s) - 1
      BY <1>3, <1>4 DEF Without
    <3>2. r[m + 1] = IF m + 1 < n THEN s[m + 1] ELSE s[m + 2]
      BY <1>3, <3>1 DEF Without
    <3>3. m + 1 \in 2 .. Len(s) /\ m + 2 \in 2 .. Len(s)
      BY <3>1
    <3>4. s[m + 1].key \in Keys /\ s[m + 2].key \in Keys
      BY <3>3 DEF Mid, MidKeys
    <3>5. QED
      BY <3>1, <3>2, <3>4
  <2>2. QED
    BY <2>1
<1>6. l \in [Keys -> Nat] /\ l[k] = 0
  <2>1. PICK c \in [Keys -> Nat] : Moves(l, e, c)
    BY <1>1, LeadsTail DEF Mid, MidKeys
  <2>2. l[k] = 0
    BY <1>1, <1>2, <2>1 DEF Moves
  <2>3. QED
    BY <1>1, <2>2, LeadsType DEF Mid, MidKeys
<1>7. PICK c \in [Keys -> Nat] : Leads(c, u, phys) /\ Moves([l EXCEPT ![k2] = @ + 1], e, c)
  <2>1. \A m \in 1 .. n - 1 : s[m].key = k2 => ~s[m].down
    <3>1. ASSUME NEW m \in 1 .. n - 1, s[m].key = k2 PROVE ~s[m].down
      <4>1. m # 1
        BY <1>1, <1>2, <1>3, <3>1
      <4>2. m \in 2 .. n - 1
        BY <1>1, <4>1
      <4>3. QED
        BY <1>1, <3>1, <4>2
    <3>2. QED
      BY <3>1
  <2>2. Leads([l EXCEPT ![k2] = @ + 1], r, phys)
    BY <1>1, <1>2, <1>3, <2>1, LeadsWithout DEF Mid, MidKeys
  <2>3. QED
    BY <1>3, <1>4, <2>2, LeadsTail DEF u
<1>8. c[k] = l[k] + 1 /\ c[k2] = l[k2] + 1 /\ \A m \in Keys \ {k, k2} : c[m] = l[m]
  BY <1>1, <1>2, <1>6, <1>7 DEF Moves
<1>9. MidKeys(q, l) /\ MidKept(l0, q, l) /\ MidCount(w, q, l)
  BY DEF Mid
<1>10. j \notin q.both[i]
  <2>1. room(l, q.both)[k] \in Nat
    BY <1>2, <1>9 DEF MidKeys
  <2>2. l[k] - Cardinality(Bits(q.both, k)) >= 0
    BY <1>2, <2>1 DEF room
  <2>3. ~(Cardinality(Bits(q.both, k)) >= 1)
    BY <1>1, <1>6, <2>2, PairsFinite
  <2>4. QED
    BY <1>1, <2>3, SomeBit
<1>11. b \in Sides /\ b[i] = {1, 2} /\ \A m \in DOMAIN combos \ {i} : b[m] = q.both[m]
  BY <1>1 DEF Sides
<1>12. q.both[i] \subseteq {3 - j} /\ 3 - j \in {1, 2} /\ {1, 2} = {j, 3 - j} /\ 3 - j # j
  <2>1. q.both[i] \subseteq {1, 2}
    BY <1>1 DEF Sides
  <2>2. CASE j = 1
    BY <1>10, <2>1, <2>2
  <2>3. CASE j = 2
    BY <1>10, <2>1, <2>3
  <2>4. QED
    BY <2>2, <2>3
<1>13. p.queue = t /\ p.both = b /\ p.again = (q.again \/ more)
  BY DEF pressPair, r, u
<1> HIDE DEF b, p
<1>14. /\ \A m \in Keys : l[m] \in Nat /\ c[m] \in Nat /\ Cardinality(Bits(b, m)) \in Nat
                          /\ Cardinality(Bits(q.both, m)) \in Nat
       /\ Cardinality(Open(b)) \in Nat /\ Cardinality(Full(b)) \in Nat
       /\ Cardinality(Free(room(l, q.both))) \in Nat /\ held \in Nat
       /\ Cardinality(Open(q.both)) \in Nat /\ Cardinality(Full(q.both)) \in Nat
  <2>1. Cardinality(Free(room(l, q.both))) \in Nat
    BY <1>9, FreeSize DEF MidKeys
  <2>2. QED
    BY <1>1, <1>6, <1>11, <2>1, PairsFinite DEF Base
<1>15. /\ room(c, b) \in [Keys -> Nat] /\ IsFiniteSet(Free(room(c, b)))
       /\ \A m \in Keys : room(l, q.both)[m] <= room(c, b)[m]
       /\ Counted(q.again \/ more) =>
            Cardinality(Free(room(c, b))) + Cardinality(Open(b)) =
              Cardinality(Free(room(l, q.both))) + Cardinality(Open(q.both)) + (IF v = NONE THEN 0 ELSE 1)
  <2>1. CASE q.both[i] = {}
    <3> DEFINE b1 == [q.both EXCEPT ![i] = {j}]
    <3>1. /\ b1 \in Sides /\ b1[i] = {j} /\ \A m \in DOMAIN combos \ {i} : b1[m] = q.both[m]
      BY <1>1 DEF Sides
    <3> HIDE DEF b1
    <3>2. /\ Cardinality(Bits(b1, k)) = Cardinality(Bits(q.both, k)) + 1
          /\ \A m : m # k => Bits(b1, m) = Bits(q.both, m)
      <4>1. b1[i] = q.both[i] \cup {j} /\ j \notin q.both[i]
        BY <2>1, <3>1
      <4>2. QED
        BY <1>1, <3>1, <4>1, OneMoreBit
    <3>3. /\ Cardinality(Bits(b, k2)) = Cardinality(Bits(b1, k2)) + 1
          /\ \A m : m # k2 => Bits(b, m) = Bits(b1, m)
      <4>1. b[i] = b1[i] \cup {3 - j} /\ 3 - j \notin b1[i] /\ 3 - j \in {1, 2}
        BY <1>11, <1>12, <3>1
      <4>2. \A m \in DOMAIN combos \ {i} : b[m] = b1[m]
        BY <1>11, <3>1
      <4>3. QED
        BY <1>1, <1>11, <3>1, <4>1, <4>2, OneMoreBit
    <3>4. room(c, b) = room(l, q.both)
      <4>1. ASSUME NEW m \in Keys PROVE c[m] - Cardinality(Bits(b, m)) = l[m] - Cardinality(Bits(q.both, m))
        <5>1. CASE m = k
          BY <1>2, <1>8, <1>14, <3>2, <3>3, <5>1
        <5>2. CASE m = k2
          BY <1>2, <1>8, <1>14, <3>2, <3>3, <5>2
        <5>3. CASE m # k /\ m # k2
          BY <1>8, <1>14, <3>2, <3>3, <5>3
        <5>4. QED
          BY <5>1, <5>2, <5>3
      <4>2. QED
        BY <4>1 DEF room
    <3>5. Cardinality(Open(b)) = Cardinality(Open(q.both)) + (IF v = NONE THEN 0 ELSE 1)
      <4>1. b[i] # {}
        BY <1>11
      <4>2. CASE v = NONE
        BY <1>1, <1>11, <1>14, <4>2, OneMorePair
      <4>3. CASE v # NONE
        BY <1>1, <1>11, <2>1, <4>1, <4>3, OneMorePair
      <4>4. QED
        BY <4>2, <4>3
    <3>6. room(l, q.both) \in [Keys -> Nat] /\ IsFiniteSet(Free(room(l, q.both)))
      BY <1>9 DEF MidKeys
    <3>7. \A m \in Keys : room(l, q.both)[m] <= room(c, b)[m]
      BY <3>4, <3>6
    <3>8. QED
      BY <1>14, <3>4, <3>5, <3>6, <3>7
  <2>2. CASE q.both[i] # {}
    <3>1. q.both[i] = {3 - j}
      BY <1>12, <2>2
    <3>2. /\ Cardinality(Bits(b, k)) = Cardinality(Bits(q.both, k)) + 1
          /\ \A m : m # k => Bits(b, m) = Bits(q.both, m)
      <4>1. b[i] = q.both[i] \cup {j}
        BY <1>11, <1>12, <3>1
      <4>2. QED
        BY <1>1, <1>10, <1>11, <4>1, OneMoreBit
    <3> DEFINE g == room(l, q.both)
               h == room(c, b)
    <3>3. g \in [Keys -> Nat] /\ IsFiniteSet(Free(g))
      BY <1>9 DEF MidKeys
    <3>4. ASSUME NEW m \in Keys PROVE h[m] = IF m = k2 THEN g[m] + 1 ELSE g[m]
      <4>1. h[m] = c[m] - Cardinality(Bits(b, m)) /\ g[m] = l[m] - Cardinality(Bits(q.both, m))
        BY DEF room
      <4>2. CASE m = k
        BY <1>2, <1>8, <1>14, <3>2, <4>1, <4>2
      <4>3. CASE m = k2
        BY <1>2, <1>8, <1>14, <3>2, <4>1, <4>3
      <4>4. CASE m # k /\ m # k2
        BY <1>8, <1>14, <3>2, <4>1, <4>4
      <4>5. QED
        BY <4>2, <4>3, <4>4
    <3>5. h \in [Keys -> Nat]
      <4>1. h = [m \in Keys |-> h[m]]
        BY DEF room
      <4> HIDE DEF h, g
      <4>2. \A m \in Keys : h[m] \in Nat
        BY <3>3, <3>4
      <4>3. QED
        BY <4>1, <4>2
    <3> HIDE DEF g, h
    <3>6. IsFiniteSet(Free(h)) /\ Cardinality(Free(h)) = Cardinality(Free(g)) + 1
      BY <1>2, <3>3, <3>4, <3>5, OneMoreFree
    <3>7. Open(b) = Open(q.both)
      <4>1. b[i] # {}
        BY <1>11
      <4>2. QED
        BY <1>1, <1>11, <2>2, <4>1, OneMorePair
    <3>8. Counted(q.again \/ more) => v # NONE
      BY <2>2 DEF Counted, Given
    <3>9. \A m \in Keys : g[m] <= h[m]
      BY <3>3, <3>4
    <3>10. Cardinality(Free(g)) \in Nat
      BY <1>14 DEF g
    <3>11. Counted(q.again \/ more) =>
             Cardinality(Free(h)) + Cardinality(Open(b)) =
               Cardinality(Free(g)) + Cardinality(Open(q.both)) + (IF v = NONE THEN 0 ELSE 1)
      BY <1>14, <3>6, <3>7, <3>8, <3>10
    <3>12. QED
      BY <3>5, <3>6, <3>9, <3>11 DEF g, h
  <2>3. QED
    BY <2>1, <2>2
<1>16. Cardinality(Full(b)) = Cardinality(Full(q.both)) + 1
  <2>1. q.both[i] # {1, 2}
    BY <1>10
  <2>2. QED
    BY <1>1, <1>11, <2>1, OneMorePair
<1>17. \A x : isOpen(q.both, x) => isOpen(b, x)
  <2>1. ASSUME NEW x, NEW m \in DOMAIN combos, combos[m].to = x, q.both[m] # {} PROVE b[m] # {}
    BY <1>11, <2>1
  <2>2. QED
    BY <2>1 DEF isOpen
<1>18. isOpen(b, v) /\ (more <=> isOpen(q.both, v))
  BY <1>11 DEF isOpen
<1>19. /\ t \in Seq(Event) /\ Leads(c, t, phys) /\ \A m \in 2 .. Len(t) : t[m].key \in Keys
       /\ v = NONE => t = u /\ ~Target(t)
       /\ v # NONE => /\ Target(t) /\ Head(t) = [key |-> v, down |-> TRUE]
                      /\ Wait(t, Downs) = Wait(u, Downs) + 1 /\ Wait(t, Ups) = Wait(u, Ups) + 0
  <2>1. TRUE \in BOOLEAN
    OBVIOUS
  <2>2. /\ t \in Seq(Event) /\ Leads(c, t, phys) /\ \A m \in 2 .. Len(t) : t[m].key \in Keys
        /\ v = NONE => t = u /\ ~Target(t)
        /\ v # NONE => /\ Target(t) /\ Head(t) = [key |-> v, down |-> TRUE]
                       /\ Wait(t, Downs) = Wait(u, Downs) + (IF TRUE THEN 1 ELSE 0)
                       /\ Wait(t, Ups) = Wait(u, Ups) + (IF TRUE THEN 0 ELSE 1)
    BY <1>1, <1>4, <1>5, <1>7, <2>1, Pushed
  <2> HIDE DEF t
  <2>3. QED
    BY <2>2
<1> HIDE DEF t
<1>20. /\ Wait(s, Downs) = Wait(u, Downs) + 2 /\ Wait(s, Ups) = Wait(u, Ups)
       /\ Wait(u, Downs) \in Nat /\ Wait(u, Ups) \in Nat
  <2>1. Wait(u, Downs) \in Nat /\ Wait(u, Ups) \in Nat
    BY <1>4, WaitFinite
  <2>2. /\ Wait(r, Downs) = Wait(u, Downs) + (IF r[1] \in Downs THEN 1 ELSE 0)
        /\ Wait(r, Ups) = Wait(u, Ups) + (IF r[1] \in Ups THEN 1 ELSE 0)
    BY <1>3, <1>4, WaitWithout
  <2>3. /\ Wait(s, Downs) = Wait(r, Downs) + (IF s[n] \in Downs THEN 1 ELSE 0)
        /\ Wait(s, Ups) = Wait(r, Ups) + (IF s[n] \in Ups THEN 1 ELSE 0)
    BY <1>1, <1>3, WaitWithout
  <2>4. s[n] \in Event
    BY <1>1
  <2>5. r[1] \in Downs /\ r[1] \notin Ups /\ s[n] \in Downs /\ s[n] \notin Ups
    BY <1>1, <1>3, <1>4, <2>4 DEF Downs, Ups
  <2>6. QED
    BY <2>1, <2>2, <2>3, <2>5
<1>21. p \in Works
  <2>1. p = [queue |-> t, both |-> b, again |-> q.again \/ more]
    BY DEF p, pressPair, t, b, u, r
  <2>2. (q.again \/ more) \in BOOLEAN
    OBVIOUS
  <2> HIDE DEF more
  <2>3. QED
    BY <1>11, <1>19, <2>1, <2>2 DEF Works
<1> HIDE DEF more
<1>22. ~Target(s)
  BY <1>1, <1>2 DEF Target
<1>23. MidKeys(p, c)
  BY <1>13, <1>15, <1>19 DEF MidKeys
<1>24. MidCount(w, p, c)
  <2>1. Counted(q.again \/ more) => Counted(q.again)
    BY DEF Counted
  <2>2. Counted(q.again \/ more) => held + 0 = Cardinality(Free(room(l, q.both))) + Cardinality(Open(q.both))
    BY <1>9, <1>22, <2>1 DEF MidCount, Pending
  <2>3. Pending(t) = IF v = NONE THEN 0 ELSE 1
    BY <1>19 DEF Pending
  <2>4. Counted(q.again \/ more) => held + Pending(t) = Cardinality(Free(room(c, b))) + Cardinality(Open(b))
    BY <1>14, <1>15, <2>2, <2>3
  <2>5. Given => Wait(t, Downs) - Wait(t, Ups) + Cardinality(Full(b)) = w
    <3>1. SUFFICES ASSUME Given PROVE Wait(t, Downs) - Wait(t, Ups) + Cardinality(Full(b)) = w
      OBVIOUS
    <3>2. v # NONE
      BY <3>1 DEF Given
    <3>3. Wait(s, Downs) - Wait(s, Ups) + Cardinality(Full(q.both)) = w
      BY <1>9, <3>1 DEF MidCount, Balance
    <3>4. QED
      BY <1>14, <1>16, <1>19, <1>20, <3>2, <3>3
  <2>6. QED
    BY <1>13, <2>4, <2>5 DEF MidCount, Balance
<1>25. MidKept(l0, p, c)
  <2>1. \A x \in VirtualKeys : isOpen(both, x) => isOpen(q.both, x)
    <3>1. ASSUME NEW x \in VirtualKeys, isOpen(both, x) PROVE isOpen(q.both, x)
      <4>1. isOpen(q.both, x) \/ (s # << >> /\ e = [key |-> x, down |-> FALSE])
        BY <1>9, <3>1 DEF MidKept
      <4>2. e # [key |-> x, down |-> FALSE]
        BY <1>1, <1>2, NoneIs
      <4>3. QED
        BY <4>1, <4>2
    <3>2. QED
      BY <3>1
  <2>2. \A x \in VirtualKeys : isOpen(both, x) => isOpen(b, x)
    BY <1>17, <2>1
  <2>3. Target(t) => /\ Head(t).key = v /\ isOpen(b, v)
                     /\ q.again \/ more \/ ~isOpen(both, v)
    <3>1. SUFFICES ASSUME Target(t) PROVE /\ Head(t).key = v /\ isOpen(b, v)
                                          /\ q.again \/ more \/ ~isOpen(both, v)
      OBVIOUS
    <3>2. v # NONE
      BY <1>19, <3>1
    <3>3. QED
      BY <1>2, <1>18, <1>19, <2>1, <3>2
  <2>4. \A m \in Keys : room(l0, both)[m] <= room(c, b)[m]
    <3>1. ASSUME NEW m \in Keys PROVE room(l0, both)[m] <= room(c, b)[m]
      <4>1. room(l0, both)[m] \in Nat /\ room(l, q.both)[m] \in Nat /\ room(c, b)[m] \in Nat
        BY <1>9, <1>15 DEF Base, MidKeys
      <4>2. room(l0, both)[m] <= room(l, q.both)[m] /\ room(l, q.both)[m] <= room(c, b)[m]
        BY <1>9, <1>15 DEF MidKept
      <4>3. QED
        BY <4>1, <4>2
    <3>2. QED
      BY <3>1
  <2>5. did.again => q.again
    BY <1>9 DEF MidKept
  <2>6. QED
    BY <1>13, <2>2, <2>3, <2>4, <2>5 DEF MidKept
<1>26. QED
  BY <1>21, <1>23, <1>24, <1>25 DEF Mid, p

LEMMA MidPair ==
  ASSUME NEW l0, NEW w, Base(l0, w), NEW q \in Works, NEW l, Mid(l0, w, q, l), NEW i \in DOMAIN combos
  PROVE  remapPair(q, i) \in Works /\ \E c : Mid(l0, w, remapPair(q, i), c)
<1>1. setting \in Settings
  BY DEF Base
<1>2. CASE remapPair(q, i) = q
  BY <1>2
<1>3. CASE \E j \in {1, 2} : Releases(q, i, j) /\ remapPair(q, i) = releasePair(q, i, j)
  BY <1>3, MidRelease
<1>4. CASE \E j \in {1, 2}, n \in Nat : Presses(q, i, j, n) /\ remapPair(q, i) = pressPair(q, i, n)
  BY <1>4, MidPress
<1>5. QED
  BY <1>1, <1>2, <1>3, <1>4, RemapPairIs

\* A function that changes something puts its target first, where all stop, or leaves
\* a shorter queue.
Shorter(p, q) == Target(p.queue) \/ Len(p.queue) < Len(q.queue)

LEMMA Shortens ==
  ASSUME NEW l0, NEW w, Base(l0, w), NEW q \in Works, NEW l, Mid(l0, w, q, l), NEW i \in DOMAIN combos
  PROVE  remapPair(q, i) = q \/ Shorter(remapPair(q, i), q)
<1>1. setting \in Settings /\ q.queue \in Seq(Event)
  BY DEF Base, Works
<1>2. ASSUME NEW j \in {1, 2}, Releases(q, i, j) PROVE Shorter(releasePair(q, i, j), q)
  <2> DEFINE u == Tail(q.queue)
  <2>1. u \in Seq(Event) /\ Len(u) < Len(q.queue)
    BY <1>1, <1>2 DEF Releases
  <2>2. releasePair(q, i, j).queue = IF q.both[i] = {j} THEN push_remapped(u, i, FALSE) ELSE u
    BY DEF Works, releasePair
  <2> HIDE DEF u
  <2>3. combos[i].to \in VirtualKeys \cup {NONE}
    BY <1>1, SettingIs
  <2>4. push_remapped(u, i, FALSE) = u \/ Target(push_remapped(u, i, FALSE))
    <3>1. CASE combos[i].to = NONE
      BY <3>1 DEF push_remapped
    <3>2. CASE combos[i].to # NONE
      <4> DEFINE e == [key |-> combos[i].to, down |-> FALSE]
      <4>1. push_remapped(u, i, FALSE) = <<e>> \o u
        BY <3>2 DEF push_remapped
      <4>2. e \in Event /\ e.key \notin Keys
        BY <2>3, <3>2, NoneIs DEF Event, AnyKey
      <4> HIDE DEF e
      <4>3. QED
        BY <2>1, <4>1, <4>2, Prepended DEF Target
    <3>3. QED
      BY <3>1, <3>2
  <2>5. QED
    BY <2>1, <2>2, <2>4 DEF Shorter
<1>3. ASSUME NEW j \in {1, 2}, NEW n \in Nat, Presses(q, i, j, n) PROVE Shorter(pressPair(q, i, n), q)
  <2> DEFINE r == RemoveAt(q.queue, n)
             u == Tail(r)
  <2>1. n \in 1 .. Len(q.queue) /\ n >= 2
    BY <1>1, <1>3 DEF Presses
  <2>2. r \in Seq(Event) /\ Len(r) = Len(q.queue) - 1
    BY <1>1, <2>1, Removed DEF Without
  <2> HIDE DEF r
  <2>3. u \in Seq(Event) /\ Len(u) < Len(q.queue)
    BY <1>1, <2>1, <2>2
  <2>4. pressPair(q, i, n).queue = push_remapped(u, i, TRUE)
    BY DEF pressPair, r
  <2> HIDE DEF u
  <2>5. combos[i].to \in VirtualKeys \cup {NONE}
    BY <1>1, SettingIs
  <2>6. push_remapped(u, i, TRUE) = u \/ Target(push_remapped(u, i, TRUE))
    <3>1. CASE combos[i].to = NONE
      BY <3>1 DEF push_remapped
    <3>2. CASE combos[i].to # NONE
      <4> DEFINE e == [key |-> combos[i].to, down |-> TRUE]
      <4>1. push_remapped(u, i, TRUE) = <<e>> \o u
        BY <3>2 DEF push_remapped
      <4>2. e \in Event /\ e.key \notin Keys
        BY <2>5, <3>2, NoneIs DEF Event, AnyKey
      <4> HIDE DEF e
      <4>3. QED
        BY <2>3, <4>1, <4>2, Prepended DEF Target
    <3>3. QED
      BY <3>1, <3>2
  <2>7. QED
    BY <2>3, <2>4, <2>6 DEF Shorter
<1>4. QED
  BY <1>1, <1>2, <1>3, RemapPairIs

LEMMA TargetStops ==
  ASSUME setting \in Settings, NEW q \in Works, Target(q.queue) \/ q.queue = << >>, NEW i \in DOMAIN combos
  PROVE  remapPair(q, i) = q
<1>1. CASE q.queue = << >>
  BY <1>1 DEF remapPair
<1>2. CASE Target(q.queue)
  <2>1. combos[i].from[1] \in Keys /\ combos[i].from[2] \in Keys
    BY SettingIs
  <2>2. {j \in 1 .. 2 : combos[i].from[j] = Head(q.queue).key} = {}
    BY <1>2, <2>1 DEF Target
  <2>3. QED
    BY <2>2 DEF remapPair
<1>3. QED
  BY <1>1, <1>2

-------------------------------------------------------------------------------
(***************************************************************************)
(* The functions in turn, and again until nothing changes.  A recursive    *)
(* function exists: step by step, up to each number.                       *)
(***************************************************************************)
LEMMA Folds ==
  ASSUME NEW X, NEW x \in X, NEW n \in Nat, NEW step \in [1 .. n -> [X -> X]]
  PROVE  \E f \in [0 .. n -> X] : f[0] = x /\ \A i \in 1 .. n : f[i] = step[i][f[i - 1]]
<1> DEFINE Good(m, f) == f[0] = x /\ \A i \in 1 .. m : f[i] = step[i][f[i - 1]]
           S == {m \in 0 .. n : \E f \in [0 .. m -> X] : Good(m, f)}
<1>1. 0 \in S
  <2>1. [i \in 0 .. 0 |-> x] \in [0 .. 0 -> X] /\ Good(0, [i \in 0 .. 0 |-> x])
    OBVIOUS
  <2> HIDE DEF Good
  <2>2. QED
    BY <2>1
<1>2. ASSUME NEW m \in 1 .. n, m - 1 \in S PROVE m \in S
  <2>1. PICK f \in [0 .. m - 1 -> X] : Good(m - 1, f)
    BY <1>2
  <2> DEFINE g == [i \in 0 .. m |-> IF i < m THEN f[i] ELSE step[m][f[m - 1]]]
  <2>2. step[m] \in [X -> X] /\ f[m - 1] \in X
    OBVIOUS
  <2>3. g \in [0 .. m -> X]
    BY <2>2
  <2>4. g[0] = x
    BY <2>1
  <2>5. ASSUME NEW i \in 1 .. m PROVE g[i] = step[i][g[i - 1]]
    <3>1. g[i - 1] = f[i - 1]
      OBVIOUS
    <3>2. CASE i = m
      BY <3>1, <3>2
    <3>3. CASE i # m
      <4>1. g[i] = f[i] /\ i \in 1 .. m - 1
        BY <3>3
      <4>2. QED
        BY <2>1, <3>1, <4>1
    <3>4. QED
      BY <3>2, <3>3
  <2> HIDE DEF g
  <2>6. Good(m, g)
    BY <2>4, <2>5
  <2> HIDE DEF Good
  <2>7. QED
    BY <2>3, <2>6
<1>3. n \in S
  <2> HIDE DEF S
  <2>1. n \in 0 .. n
    OBVIOUS
  <2>2. QED
    BY <1>1, <1>2, <2>1, UpTo
<1>4. QED
  BY <1>3

\* What all the functions together, and their passes, keep.
Fold(n, q, f) == f = [i \in 0 .. n |-> IF i = 0 THEN q ELSE remapPair(f[i - 1], i)]

Passes(n, q, f) == f = [m \in 0 .. n |-> IF m = 0 THEN q ELSE remap_simultaneouskeypresses(f[m - 1])]

NoMore(q) ==
  \/ q.queue = << >> \/ Target(q.queue)
  \/ \A i \in DOMAIN combos : remapPair(q, i) = q

Reached(l0, w) == {q \in Works : \E l : Mid(l0, w, q, l)}

LEMMA FoldOf ==
  ASSUME NEW l0, NEW w, Base(l0, w), NEW q \in Reached(l0, w)
  PROVE  \E f \in [0 .. Len(combos) -> Reached(l0, w)] :
           /\ f[0] = q /\ \A i \in 1 .. Len(combos) : f[i] = remapPair(f[i - 1], i)
           /\ remap_simultaneouskeypresses(q) = f[Len(combos)]
<1> DEFINE n == Len(combos)
           X == Reached(l0, w)
           step == [i \in 1 .. n |-> [p \in X |-> remapPair(p, i)]]
<1>1. n \in Nat /\ DOMAIN combos = 1 .. n
  BY SettingIs DEF Base
<1>2. ASSUME NEW p \in X, NEW i \in 1 .. n PROVE remapPair(p, i) \in X
  BY <1>1, MidPair DEF Reached
<1> HIDE DEF X, n
<1>3. step \in [1 .. n -> [X -> X]]
  BY <1>2
<1>4. q \in X
  BY DEF X
<1>5. PICK f \in [0 .. n -> X] : f[0] = q /\ \A i \in 1 .. n : f[i] = step[i][f[i - 1]]
  <2> HIDE DEF step
  <2>1. QED
    BY <1>1, <1>3, <1>4, Folds
<1>6. \A i \in 1 .. n : f[i] = remapPair(f[i - 1], i)
  <2>1. ASSUME NEW i \in 1 .. n PROVE f[i] = remapPair(f[i - 1], i)
    <3>1. i - 1 \in 0 .. n
      BY <1>1
    <3>2. step[i][f[i - 1]] = remapPair(f[i - 1], i)
      BY <3>1
    <3>3. QED
      BY <1>5, <3>2
  <2>2. QED
    BY <2>1
<1>7. Fold(n, q, f)
  <2>1. f = [i \in 0 .. n |-> f[i]]
    OBVIOUS
  <2>2. \A i \in 0 .. n : f[i] = IF i = 0 THEN q ELSE remapPair(f[i - 1], i)
    BY <1>1, <1>5, <1>6
  <2>3. QED
    BY <2>1, <2>2 DEF Fold
<1>8. ASSUME NEW g, Fold(n, q, g) PROVE g[n] = f[n]
  <2> DEFINE S == {i \in 0 .. n : g[i] = f[i]}
  <2>1. g[0] = q /\ \A i \in 1 .. n : g[i] = remapPair(g[i - 1], i)
    BY <1>1, <1>8 DEF Fold
  <2>2. 0 \in S
    BY <1>1, <1>5, <2>1
  <2>3. ASSUME NEW i \in 1 .. n, i - 1 \in S PROVE i \in S
    BY <1>1, <1>6, <2>1, <2>3
  <2>4. n \in S
    <3> HIDE DEF S
    <3>1. n \in 0 .. n
      BY <1>1
    <3>2. QED
      BY <1>1, <2>2, <2>3, <3>1, UpTo
  <2>5. QED
    BY <2>4
<1>9. remap_simultaneouskeypresses(q) = (CHOOSE g : Fold(n, q, g))[n]
  BY DEF remap_simultaneouskeypresses, Fold, n
<1>10. remap_simultaneouskeypresses(q) = f[n]
  BY <1>7, <1>8, <1>9
<1>11. QED
  BY <1>5, <1>6, <1>10 DEF n, X

LEMMA PassOf ==
  ASSUME NEW l0, NEW w, Base(l0, w), NEW q \in Reached(l0, w)
  PROVE  LET p == remap_simultaneouskeypresses(q)
         IN /\ p \in Reached(l0, w) /\ (NoMore(q) => p = q)
            /\ NoMore(p) \/ Len(p.queue) < Len(q.queue)
<1> DEFINE n == Len(combos)
           p == remap_simultaneouskeypresses(q)
<1>1. setting \in Settings /\ n \in Nat /\ DOMAIN combos = 1 .. n
  BY SettingIs DEF Base
<1>2. PICK f \in [0 .. n -> Reached(l0, w)] :
        f[0] = q /\ (\A i \in 1 .. n : f[i] = remapPair(f[i - 1], i)) /\ p = f[n]
  BY FoldOf
<1> HIDE DEF n, p
<1>3. \A i \in 0 .. n : f[i] \in Works /\ f[i].queue \in Seq(Event)
  BY <1>2 DEF Reached, Works
<1>4. q \in Works /\ q.queue \in Seq(Event) /\ n \in 0 .. n
  BY <1>1 DEF Reached, Works
<1>5. ASSUME NoMore(q) PROVE p = q
  <2> DEFINE S == {i \in 0 .. n : f[i] = q}
  <2>1. \A i \in 1 .. n : remapPair(q, i) = q
    BY <1>1, <1>4, <1>5, TargetStops DEF NoMore
  <2>2. 0 \in S
    BY <1>1, <1>2
  <2>3. ASSUME NEW i \in 1 .. n, i - 1 \in S PROVE i \in S
    BY <1>1, <1>2, <2>1, <2>3
  <2>4. n \in S
    <3> HIDE DEF S
    <3>1. QED
      BY <1>1, <1>4, <2>2, <2>3, UpTo
  <2>5. QED
    BY <1>2, <2>4
<1>6. NoMore(p) \/ Len(p.queue) < Len(q.queue)
  <2> DEFINE Same(i) == f[i] = q /\ \A m \in 1 .. i : remapPair(q, m) = q
             S == {i \in 0 .. n : Same(i) \/ Shorter(f[i], q)}
  <2>1. 0 \in S
    BY <1>1, <1>2
  <2>2. ASSUME NEW i \in 1 .. n, i - 1 \in S PROVE i \in S
    <3> DEFINE g == f[i - 1]
               h == remapPair(g, i)
    <3>1. i - 1 \in 0 .. n /\ i \in 0 .. n /\ i \in DOMAIN combos
      BY <1>1
    <3>2. f[i] = h /\ g \in Works /\ g.queue \in Seq(Event) /\ \E l : Mid(l0, w, g, l)
      BY <1>2, <1>3, <3>1 DEF Reached
    <3>3. Same(i - 1) \/ Shorter(g, q)
      BY <2>2
    <3>4. h = g \/ Shorter(h, g)
      BY <3>1, <3>2, Shortens
    <3>5. Target(g.queue) => h = g
      BY <1>1, <3>1, <3>2, TargetStops
    <3>6. CASE Same(i - 1)
      <4>1. g = q /\ \A m \in 1 .. i - 1 : remapPair(q, m) = q
        BY <3>6
      <4>2. CASE h = g
        <5>1. \A m \in 1 .. i : m = i \/ m \in 1 .. i - 1
          OBVIOUS
        <5>2. f[i] = q /\ remapPair(q, i) = q
          BY <3>2, <4>1, <4>2
        <5> HIDE DEF g, h
        <5>3. Same(i)
          BY <4>1, <5>1, <5>2
        <5> HIDE DEF Same
        <5>4. QED
          BY <3>1, <5>3
      <4>3. CASE Shorter(h, g)
        BY <3>1, <3>2, <4>1, <4>3
      <4>4. QED
        BY <3>4, <4>2, <4>3
    <3>7. CASE Shorter(g, q)
      <4>1. Shorter(h, q)
        <5>1. CASE Target(g.queue)
          BY <3>5, <3>7, <5>1
        <5>2. CASE ~Target(g.queue)
          <6>1. Len(g.queue) < Len(q.queue) /\ Len(g.queue) \in Nat /\ Len(q.queue) \in Nat
            BY <1>4, <3>2, <3>7, <5>2 DEF Shorter
          <6>2. h \in Works /\ h.queue \in Seq(Event) /\ Len(h.queue) \in Nat
            BY <1>3, <3>1, <3>2
          <6>3. h = g \/ Target(h.queue) \/ Len(h.queue) < Len(g.queue)
            BY <3>4 DEF Shorter
          <6> HIDE DEF g, h
          <6>4. Target(h.queue) \/ Len(h.queue) < Len(q.queue)
            BY <6>1, <6>2, <6>3
          <6>5. QED
            BY <6>4 DEF Shorter
        <5>3. QED
          BY <5>1, <5>2
      <4> HIDE DEF Same, g, h
      <4>2. QED
        BY <3>1, <3>2, <4>1
    <3>8. QED
      BY <3>3, <3>6, <3>7
  <2>3. n \in S
    <3> HIDE DEF S
    <3>1. QED
      BY <1>1, <1>4, <2>1, <2>2, UpTo
  <2>4. CASE Same(n)
    BY <1>1, <1>2, <2>4 DEF NoMore
  <2>5. CASE Shorter(f[n], q)
    BY <1>2, <2>5 DEF Shorter, NoMore
  <2>6. QED
    BY <2>3, <2>4, <2>5
<1>7. p \in Reached(l0, w)
  BY <1>2, <1>4
<1>8. QED
  BY <1>5, <1>6, <1>7 DEF p

LEMMA RewrittenOf ==
  ASSUME NEW l0, NEW w, Base(l0, w), NEW q \in Reached(l0, w)
  PROVE  rewritten(q) \in Reached(l0, w) /\ NoMore(rewritten(q))
<1> DEFINE n == Len(q.queue)
           X == Reached(l0, w)
           step == [m \in 1 .. n |-> [p \in X |-> remap_simultaneouskeypresses(p)]]
<1>1. n \in Nat /\ n \in 0 .. n /\ q.queue \in Seq(Event)
  BY DEF Reached, Works
<1>2. \A p \in X : remap_simultaneouskeypresses(p) \in X
  BY PassOf
<1>3. q \in X /\ \A p \in X : Len(p.queue) \in Nat /\ (Len(p.queue) <= 0 => NoMore(p))
  <2>1. ASSUME NEW p \in X PROVE Len(p.queue) \in Nat /\ (Len(p.queue) <= 0 => NoMore(p))
    <3>1. p.queue \in Seq(Event)
      BY DEF Reached, Works
    <3>2. QED
      BY <3>1 DEF NoMore
  <2>2. QED
    BY <2>1
<1> HIDE DEF X, n
<1>4. step \in [1 .. n -> [X -> X]]
  BY <1>2
<1>5. PICK f \in [0 .. n -> X] : f[0] = q /\ \A m \in 1 .. n : f[m] = step[m][f[m - 1]]
  <2>1. q \in X
    BY <1>3
  <2> HIDE DEF step
  <2>2. QED
    BY <1>1, <1>4, <2>1, Folds
<1>6. \A m \in 1 .. n : f[m] = remap_simultaneouskeypresses(f[m - 1])
  <2>1. ASSUME NEW m \in 1 .. n PROVE f[m] = remap_simultaneouskeypresses(f[m - 1])
    <3>1. m - 1 \in 0 .. n
      BY <1>1
    <3>2. step[m][f[m - 1]] = remap_simultaneouskeypresses(f[m - 1])
      BY <3>1
    <3>3. QED
      BY <1>5, <3>2
  <2>2. QED
    BY <2>1
<1>7. Passes(n, q, f)
  <2>1. f = [m \in 0 .. n |-> f[m]]
    OBVIOUS
  <2>2. \A m \in 0 .. n : f[m] = IF m = 0 THEN q ELSE remap_simultaneouskeypresses(f[m - 1])
    BY <1>1, <1>5, <1>6
  <2>3. QED
    BY <2>1, <2>2 DEF Passes
<1>8. ASSUME NEW g, Passes(n, q, g) PROVE g[n] = f[n]
  <2> DEFINE S == {m \in 0 .. n : g[m] = f[m]}
  <2>1. g[0] = q /\ \A m \in 1 .. n : g[m] = remap_simultaneouskeypresses(g[m - 1])
    BY <1>1, <1>8 DEF Passes
  <2>2. 0 \in S
    BY <1>1, <1>5, <2>1
  <2>3. ASSUME NEW m \in 1 .. n, m - 1 \in S PROVE m \in S
    BY <1>1, <1>6, <2>1, <2>3
  <2>4. n \in S
    <3> HIDE DEF S
    <3>1. QED
      BY <1>1, <2>2, <2>3, UpTo
  <2>5. QED
    BY <2>4
<1>9. rewritten(q) = (CHOOSE g : Passes(n, q, g))[n]
  BY DEF rewritten, Passes, n
<1>10. rewritten(q) = f[n]
  BY <1>7, <1>8, <1>9
<1>11. NoMore(f[n])
  <2> DEFINE S == {m \in 0 .. n : NoMore(f[m]) \/ Len(f[m].queue) <= n - m}
  <2>1. 0 \in S
    BY <1>1, <1>5 DEF n
  <2>2. ASSUME NEW m \in 1 .. n, m - 1 \in S PROVE m \in S
    <3> DEFINE p == f[m - 1]
               o == f[m]
    <3>1. m - 1 \in 0 .. n /\ m \in 0 .. n
      BY <1>1
    <3>2. p \in X /\ o = remap_simultaneouskeypresses(p) /\ o \in X
      BY <1>6, <3>1
    <3>3. (NoMore(p) => o = p) /\ (NoMore(o) \/ Len(o.queue) < Len(p.queue))
      BY <3>2, PassOf DEF X
    <3>4. NoMore(p) \/ Len(p.queue) <= n - (m - 1)
      BY <2>2
    <3>5. Len(p.queue) \in Nat /\ Len(o.queue) \in Nat
      BY <1>3, <3>2
    <3> HIDE DEF p, o
    <3>6. NoMore(o) \/ Len(o.queue) <= n - m
      BY <1>1, <3>3, <3>4, <3>5
    <3>7. QED
      BY <3>1, <3>6 DEF o
  <2>3. n \in S
    <3> HIDE DEF S
    <3>1. QED
      BY <1>1, <2>1, <2>2, UpTo
  <2>4. f[n] \in X
    BY <1>1
  <2>5. QED
    BY <1>1, <1>3, <2>3, <2>4
<1>12. f[n] \in X
  BY <1>1
<1>13. QED
  BY <1>10, <1>11, <1>12 DEF X

\* After them the key of a release that is first is of no pair that is down.
LEMMA NoBitLeft ==
  ASSUME setting \in Settings, NEW q \in Works, NoMore(q), q.queue # << >>, ~Target(q.queue),
         ~Head(q.queue).down
  PROVE  Cardinality(Bits(q.both, Head(q.queue).key)) = 0
<1> DEFINE e == Head(q.queue)
<1>1. e.key \in Keys /\ q.both \in Sides /\ \A i \in DOMAIN combos : remapPair(q, i) = q
  BY DEF Target, NoMore, Works
<1>2. ASSUME NEW i \in DOMAIN combos, NEW j \in q.both[i], combos[i].from[j] = e.key PROVE FALSE
  <2>1. j \in {1, 2}
    BY <1>1 DEF Sides
  <2> DEFINE mine == {m \in 1 .. 2 : combos[i].from[m] = e.key}
  <2>2. mine # {} /\ Min(mine) = j
    BY <1>1, <1>2, <2>1, SideIs
  <2>3. remapPair(q, i) = releasePair(q, i, j)
    <3>1. remapPair(q, i) = IF Min(mine) \in q.both[i] THEN releasePair(q, i, Min(mine)) ELSE q
      BY <2>2 DEF remapPair
    <3> HIDE DEF mine
    <3>2. QED
      BY <1>2, <2>2, <3>1
  <2>4. releasePair(q, i, j).both[i] = q.both[i] \ {j}
    BY <1>1 DEF releasePair, Works, Sides
  <2>5. QED
    BY <1>1, <1>2, <2>3, <2>4
<1>3. QED
  BY <1>1, <1>2, NoBit
-------------------------------------------------------------------------------
(***************************************************************************)
(* One rule and one event: what the rule that takes a key changes, c       *)
(* before it and d after it.                                               *)
(***************************************************************************)
Overlaid(r) == rules[r].kind = "KeyOverlaidModifier"

Double(r) == rules[r].kind = "DoublePressModifier"

Turns(r) == Overlaid(r) \/ Double(r)

Ignores(r) == rules[r].kind = "IgnoreMultipleSameKeyPress"

Repeaters == [target : {0} \cup DOMAIN rules, armed : BOOLEAN]

Static ==
  [taken : BOOLEAN, rule : [DOMAIN rules -> RuleState], watchers : SUBSET DOMAIN rules,
   repeater : Repeaters, count : [Modifiers -> Int], typing : SUBSET DOMAIN rules,
   typed : SUBSET DOMAIN rules]

OverlaidDown(c, d, t) ==
  /\ d.watchers = c.watchers \cup {t} /\ d.typing = c.typing /\ d.typed = c.typed
  /\ d.repeater = IF rules[t].repeat THEN [target |-> t, armed |-> TRUE] ELSE c.repeater
  /\ d.rule[t].any = FALSE /\ d.rule[t].presses = c.rule[t].presses

OverlaidUp(c, d, t) ==
  /\ d.repeater.armed = FALSE
  /\ d.rule[t].any = c.rule[t].any /\ d.rule[t].repeating = c.rule[t].repeating
  /\ d.rule[t].presses = c.rule[t].presses
  /\ c.rule[t].repeating =>
       d.typing = c.typing \ {t} /\ d.watchers = c.watchers /\ d.typed = c.typed
  /\ ~c.rule[t].repeating =>
       /\ d.typing = c.typing /\ d.watchers = c.watchers \ {t}
       /\ d.typed = c.typed \/ (~c.rule[t].any /\ d.typed = c.typed \cup {t})

DoubleTurn(c, d, t, e, slow) ==
  LET n == IF slow THEN 0 ELSE c.rule[t].presses
  IN /\ d.watchers = c.watchers /\ d.typing = c.typing /\ d.repeater = c.repeater
     /\ d.rule[t].any = c.rule[t].any /\ d.rule[t].repeating = c.rule[t].repeating
     /\ e.down => d.rule[t].presses = n + 1 /\ d.typed = c.typed
     /\ ~e.down => /\ d.rule[t].presses = IF n >= 2 THEN 0 ELSE n
                   /\ d.typed = IF n >= 2 THEN c.typed \cup {t} ELSE c.typed

Effect(c, d, t, e, slow) ==
  /\ d.count = [c.count EXCEPT ![rules[t].to] = IF e.down THEN @ + 1 ELSE @ - 1]
  /\ d.rule[t].active = e.down /\ d.rule[t].last = c.rule[t].last
  /\ Overlaid(t) /\ e.down => OverlaidDown(c, d, t)
  /\ Overlaid(t) /\ ~e.down => OverlaidUp(c, d, t)
  /\ Double(t) => DoubleTurn(c, d, t, e, slow)

Others(c, d, r) == \A o \in DOMAIN rules \ {r} : d.rule[o] = c.rule[o]

\* A step of a rule that has taken the key.
Within(c, d, r) ==
  /\ d \in Static /\ Others(c, d, r) /\ d.taken = c.taken /\ d.count = c.count
  /\ d.rule[r].active = c.rule[r].active /\ d.rule[r].last = c.rule[r].last

ConvertedIs(c, x, r, e) ==
  /\ x \in Static /\ x.taken = TRUE /\ Others(c, x, r)
  /\ x.rule[r] = [c.rule[r] EXCEPT !.active = e.down]
  /\ x.count = [c.count EXCEPT ![rules[r].to] = IF e.down THEN @ + 1 ELSE @ - 1]
  /\ x.watchers = c.watchers /\ x.repeater = c.repeater /\ x.typing = c.typing
  /\ x.typed = c.typed

LEMMA Converted ==
  ASSUME setting \in Settings, NEW c \in Static, NEW r \in DOMAIN rules, NEW e \in Event
  PROVE  ConvertedIs(c, converted(c, r, e), r, e)
<1> DEFINE x == converted(c, r, e)
           k == [c.count EXCEPT ![rules[r].to] = IF e.down THEN @ + 1 ELSE @ - 1]
           ru == [c.rule EXCEPT ![r].active = e.down]
<1>1. /\ c.rule \in [DOMAIN rules -> RuleState] /\ c.count \in [Modifiers -> Int]
      /\ e.down \in BOOLEAN /\ rules[r].to \in Modifiers
  BY SettingIs DEF Static, Event
<1>2. k \in [Modifiers -> Int]
  BY <1>1
<1>3. c.rule[r] \in RuleState
  BY <1>1
<1>4. [c.rule[r] EXCEPT !.active = e.down] \in RuleState
  BY <1>1, <1>3 DEF RuleState
<1>5. /\ ru \in [DOMAIN rules -> RuleState] /\ ru[r] = [c.rule[r] EXCEPT !.active = e.down]
      /\ \A o \in DOMAIN rules \ {r} : ru[o] = c.rule[o]
  BY <1>1, <1>4
<1>6. x = [c EXCEPT !.taken = TRUE, !.rule = ru, !.count = k]
  BY DEF converted
<1> HIDE DEF ru, k, x
<1>7. /\ x.taken = TRUE /\ x.rule = ru /\ x.count = k
      /\ x.watchers = c.watchers /\ x.repeater = c.repeater /\ x.typing = c.typing /\ x.typed = c.typed
  BY <1>6 DEF Static
<1>8. x \in Static
  BY <1>2, <1>5, <1>6 DEF Static
<1>9. QED
  BY <1>5, <1>7, <1>8 DEF x, k, Others, ConvertedIs

LEMMA RuleTypes ==
  ASSUME setting \in Settings, NEW r \in DOMAIN rules
  PROVE  rules[r].repeat \in BOOLEAN /\ rules[r].kind \in Kinds /\ (Turns(r) <=> ~Ignores(r))
         /\ ~(Overlaid(r) /\ Double(r))
  BY SettingIs DEF Rule, Kinds, Turns, Overlaid, Double, Ignores

LEMMA PressOverlaid ==
  ASSUME setting \in Settings, NEW c \in Static, NEW r \in DOMAIN rules
  PROVE  Within(c, pressOverlaid(c, r), r) /\ OverlaidDown(c, pressOverlaid(c, r), r)
<1> DEFINE d == pressOverlaid(c, r)
           again == rules[r].repeat
           one == pressedRule(c, r)
           ru == [c.rule EXCEPT ![r] = one]
           wa == c.watchers \cup {r}
           re == IF again THEN [target |-> r, armed |-> TRUE] ELSE c.repeater
<1>1. /\ c.rule \in [DOMAIN rules -> RuleState] /\ c.rule[r] \in RuleState /\ again \in BOOLEAN
      /\ c.watchers \in SUBSET DOMAIN rules /\ c.repeater \in Repeaters
  BY RuleTypes DEF Static
<1>2. otherFlags(c, r) \in SUBSET Modifiers
  BY DEF otherFlags, makeFlags
<1>3. /\ one \in RuleState /\ one.any = FALSE /\ one.presses = c.rule[r].presses
      /\ one.active = c.rule[r].active /\ one.last = c.rule[r].last
  <2>1. (c.rule[r].normal /\ ~again) \in BOOLEAN /\ (c.rule[r].repeating /\ ~again) \in BOOLEAN
    OBVIOUS
  <2>2. one \in RuleState
    BY <1>1, <1>2, <2>1 DEF RuleState, pressedRule
  <2>3. /\ one.any = FALSE /\ one.presses = c.rule[r].presses
        /\ one.active = c.rule[r].active /\ one.last = c.rule[r].last
    BY <1>1 DEF RuleState, pressedRule
  <2>4. QED
    BY <2>2, <2>3
<1> HIDE DEF one
<1>4. /\ ru \in [DOMAIN rules -> RuleState] /\ ru[r] = one
      /\ \A o \in DOMAIN rules \ {r} : ru[o] = c.rule[o]
  BY <1>1, <1>3
<1>5. wa \in SUBSET DOMAIN rules /\ re \in Repeaters
  BY <1>1 DEF Repeaters
<1>6. d = [c EXCEPT !.watchers = wa, !.rule = ru, !.repeater = re]
  BY DEF pressOverlaid, one
<1> HIDE DEF ru, d, wa, re
<1>7. /\ d.rule = ru /\ d.watchers = wa /\ d.repeater = re
      /\ d.taken = c.taken /\ d.count = c.count /\ d.typing = c.typing /\ d.typed = c.typed
  BY <1>6 DEF Static
<1>8. d \in Static
  BY <1>4, <1>5, <1>6 DEF Static
<1>9. OverlaidDown(c, d, r)
  BY <1>3, <1>4, <1>7 DEF OverlaidDown, wa, re
<1>10. QED
  BY <1>3, <1>4, <1>7, <1>8, <1>9 DEF d, Others, Within

LEMMA ReleaseOverlaid ==
  ASSUME setting \in Settings, NEW c \in Static, NEW r \in DOMAIN rules, NEW slow
  PROVE  Within(c, releaseOverlaid(c, r, slow), r) /\ OverlaidUp(c, releaseOverlaid(c, r, slow), r)
<1> DEFINE d == releaseOverlaid(c, r, slow)
           re == [c.repeater EXCEPT !.armed = FALSE]
<1>1. /\ c.rule \in [DOMAIN rules -> RuleState] /\ c.rule[r] \in RuleState
      /\ c.watchers \in SUBSET DOMAIN rules /\ c.repeater \in Repeaters
      /\ c.typing \in SUBSET DOMAIN rules /\ c.typed \in SUBSET DOMAIN rules
  BY DEF Static
<1>2. re \in Repeaters /\ re.armed = FALSE
  BY <1>1 DEF Repeaters
<1>3. c.rule[r].repeating \in BOOLEAN
  BY <1>1 DEF RuleState
<1>4. CASE c.rule[r].repeating
  <2> DEFINE ty == c.typing \ {r}
  <2>1. d = [c EXCEPT !.repeater = re, !.typing = ty]
    BY <1>4 DEF releaseOverlaid
  <2>2. ty \in SUBSET DOMAIN rules
    BY <1>1
  <2> HIDE DEF re, d, ty
  <2>3. /\ d.repeater = re /\ d.typing = ty /\ d.rule = c.rule /\ d.watchers = c.watchers
        /\ d.taken = c.taken /\ d.count = c.count /\ d.typed = c.typed
    BY <2>1 DEF Static
  <2>4. d \in Static
    BY <1>2, <2>1, <2>2 DEF Static
  <2>5. OverlaidUp(c, d, r)
    BY <1>2, <1>4, <2>3 DEF OverlaidUp, ty
  <2>6. QED
    BY <2>3, <2>4, <2>5 DEF d, Others, Within
<1>5. CASE ~c.rule[r].repeating
  <2> DEFINE one == [c.rule[r] EXCEPT !.normal = TRUE]
             ru == [c.rule EXCEPT ![r] = one]
             wa == c.watchers \ {r}
             ty == IF c.rule[r].any \/ slow THEN c.typed ELSE c.typed \cup {r}
  <2>1. d = [c EXCEPT !.repeater = re, !.rule = ru, !.watchers = wa, !.typed = ty]
    BY <1>5 DEF releaseOverlaid
  <2>2. /\ one \in RuleState /\ one.active = c.rule[r].active /\ one.last = c.rule[r].last
        /\ one.any = c.rule[r].any /\ one.repeating = c.rule[r].repeating
        /\ one.presses = c.rule[r].presses
    BY <1>1 DEF RuleState
  <2> HIDE DEF one
  <2>3. /\ ru \in [DOMAIN rules -> RuleState] /\ ru[r] = one
        /\ \A o \in DOMAIN rules \ {r} : ru[o] = c.rule[o]
    BY <1>1, <2>2
  <2>4. wa \in SUBSET DOMAIN rules /\ ty \in SUBSET DOMAIN rules
    BY <1>1
  <2>5. ty = c.typed \/ (~c.rule[r].any /\ ty = c.typed \cup {r})
    OBVIOUS
  <2> HIDE DEF re, d, ru, wa, ty
  <2>6. /\ d.repeater = re /\ d.typing = c.typing /\ d.rule = ru /\ d.watchers = wa
        /\ d.taken = c.taken /\ d.count = c.count /\ d.typed = ty
    BY <2>1 DEF Static
  <2>7. d \in Static
    BY <1>2, <2>1, <2>3, <2>4 DEF Static
  <2>8. OverlaidUp(c, d, r)
    BY <1>2, <1>5, <2>2, <2>3, <2>5, <2>6 DEF OverlaidUp, wa
  <2>9. QED
    BY <2>2, <2>3, <2>6, <2>7, <2>8 DEF d, Others, Within
<1>6. QED
  BY <1>3, <1>4, <1>5

LEMMA CountPress ==
  ASSUME setting \in Settings, NEW c \in Static, NEW r \in DOMAIN rules, NEW e \in Event,
         NEW slow
  PROVE  Within(c, countPress(c, r, e, slow), r) /\ DoubleTurn(c, countPress(c, r, e, slow), r, e, slow)
<1> DEFINE d == countPress(c, r, e, slow)
           n == IF slow THEN 0 ELSE c.rule[r].presses
           p == IF e.down THEN n + 1 ELSE IF n >= 2 THEN 0 ELSE n
           ty == IF ~e.down /\ n >= 2 THEN c.typed \cup {r} ELSE c.typed
           one == [c.rule[r] EXCEPT !.presses = p]
           ru == [c.rule EXCEPT ![r] = one]
<1>1. /\ c.rule \in [DOMAIN rules -> RuleState] /\ c.rule[r] \in RuleState
      /\ c.typed \in SUBSET DOMAIN rules /\ e.down \in BOOLEAN
  BY DEF Static, Event
<1>2. n \in Nat
  BY <1>1 DEF RuleState
<1>3. d.rule = ru /\ d = [c EXCEPT !.rule = ru, !.typed = ty]
  <2>1. c = [c EXCEPT !.typed = c.typed]
    BY DEF Static
  <2>2. CASE e.down
    <3>1. d = [c EXCEPT !.rule = ru]
      BY <2>2 DEF countPress
    <3>2. ty = c.typed
      BY <2>2
    <3> HIDE DEF ru, d, ty
    <3>3. [c EXCEPT !.rule = ru] = [c EXCEPT !.rule = ru, !.typed = c.typed]
      BY DEF Static
    <3>4. d.rule = ru
      BY <3>1 DEF Static
    <3>5. QED
      BY <3>1, <3>2, <3>3, <3>4
  <2>3. CASE ~e.down
    <3>1. d = [c EXCEPT !.rule = ru, !.typed = ty]
      BY <2>3 DEF countPress
    <3> HIDE DEF ru, d, ty
    <3>2. QED
      BY <3>1 DEF Static
  <2>4. QED
    BY <1>1, <2>2, <2>3
<1> HIDE DEF n
<1>4. p \in Nat
  BY <1>2
<1> HIDE DEF p
<1>5. /\ one \in RuleState /\ one.active = c.rule[r].active /\ one.last = c.rule[r].last
      /\ one.any = c.rule[r].any /\ one.repeating = c.rule[r].repeating
      /\ one.presses = p
  BY <1>1, <1>4 DEF RuleState
<1> HIDE DEF one
<1>6. /\ ru \in [DOMAIN rules -> RuleState] /\ ru[r] = one
      /\ \A o \in DOMAIN rules \ {r} : ru[o] = c.rule[o]
  BY <1>1, <1>5
<1>7. ty \in SUBSET DOMAIN rules
  BY <1>1
<1> HIDE DEF ru, d, ty
<1>8. /\ d.rule = ru /\ d.typed = ty /\ d.watchers = c.watchers /\ d.repeater = c.repeater
      /\ d.taken = c.taken /\ d.count = c.count /\ d.typing = c.typing
  BY <1>3 DEF Static
<1>9. d \in Static
  BY <1>3, <1>6, <1>7 DEF Static
<1>10. DoubleTurn(c, d, r, e, slow)
  BY <1>5, <1>6, <1>8 DEF DoubleTurn, n, p, ty
<1>11. QED
  BY <1>5, <1>6, <1>8, <1>9, <1>10 DEF d, Others, Within

\* A rule that takes the key.
LEMMA RuleTurns ==
  ASSUME setting \in Settings, NEW c \in Static, NEW r \in DOMAIN rules, NEW e \in Event,
         NEW slow \in BOOLEAN, Turns(r), converts(c, r, e)
  PROVE  LET d == remapRule(c, r, e, slow)
         IN d \in Static /\ d.taken /\ Others(c, d, r) /\ Effect(c, d, r, e, slow)
<1> DEFINE x == converted(c, r, e)
           d == remapRule(c, r, e, slow)
<1>1. /\ x \in Static /\ x.taken = TRUE /\ Others(c, x, r)
      /\ x.rule[r] = [c.rule[r] EXCEPT !.active = e.down]
      /\ x.count = [c.count EXCEPT ![rules[r].to] = IF e.down THEN @ + 1 ELSE @ - 1]
      /\ x.watchers = c.watchers /\ x.repeater = c.repeater /\ x.typing = c.typing
      /\ x.typed = c.typed
  <2> HIDE DEF x
  <2>1. ConvertedIs(c, x, r, e)
    BY Converted DEF x
  <2>2. QED
    BY <2>1 DEF ConvertedIs
<1>2. /\ c.rule[r] \in RuleState /\ e.down \in BOOLEAN
  BY DEF Static, Event
<1>3. /\ x.rule[r].active = e.down /\ x.rule[r].last = c.rule[r].last
      /\ x.rule[r].any = c.rule[r].any /\ x.rule[r].repeating = c.rule[r].repeating
      /\ x.rule[r].presses = c.rule[r].presses
  BY <1>1, <1>2 DEF RuleState
<1> HIDE DEF x, d
<1>4. CASE Overlaid(r)
  <2>1. d = IF e.down THEN pressOverlaid(x, r) ELSE releaseOverlaid(x, r, slow)
    BY <1>4 DEF d, x, remapRule, Overlaid, KeyOverlaidModifier
  <2>2. ~Double(r)
    BY <1>4, RuleTypes
  <2>3. CASE e.down
    <3>1. Within(x, d, r) /\ OverlaidDown(x, d, r)
      BY <1>1, <2>1, <2>3, PressOverlaid
    <3>2. OverlaidDown(c, d, r)
      BY <1>1, <1>3, <3>1 DEF OverlaidDown
    <3>3. Others(c, d, r)
      BY <1>1, <3>1 DEF Others, Within
    <3>4. QED
      BY <1>1, <1>3, <2>2, <2>3, <3>1, <3>2, <3>3 DEF Effect, Within, d
  <2>4. CASE ~e.down
    <3>1. Within(x, d, r) /\ OverlaidUp(x, d, r)
      BY <1>1, <2>1, <2>4, ReleaseOverlaid
    <3>2. OverlaidUp(c, d, r)
      BY <1>1, <1>3, <3>1 DEF OverlaidUp
    <3>3. Others(c, d, r)
      BY <1>1, <3>1 DEF Others, Within
    <3>4. QED
      BY <1>1, <1>3, <2>2, <2>4, <3>1, <3>2, <3>3 DEF Effect, Within, d
  <2>5. QED
    BY <1>2, <2>3, <2>4
<1>5. CASE Double(r)
  <2>1. d = countPress(x, r, e, slow)
    BY <1>5 DEF d, x, remapRule, Double, DoublePressModifier
  <2>2. ~Overlaid(r)
    BY <1>5, RuleTypes
  <2>3. Within(x, d, r) /\ DoubleTurn(x, d, r, e, slow)
    BY <1>1, <2>1, CountPress
  <2>4. DoubleTurn(c, d, r, e, slow)
    BY <1>1, <1>3, <2>3 DEF DoubleTurn
  <2>5. Others(c, d, r)
    BY <1>1, <2>3 DEF Others, Within
  <2>6. QED
    BY <1>1, <1>3, <2>2, <2>3, <2>4, <2>5 DEF Effect, Within, d
<1>6. QED
  BY <1>4, <1>5 DEF Turns

\* What a rule that does not take the key leaves as it was.
Alike(c, d, r) ==
  /\ d.rule[r].active = c.rule[r].active /\ d.rule[r].any = c.rule[r].any
  /\ d.rule[r].repeating = c.rule[r].repeating

Unmoved(c, d) ==
  /\ d.count = c.count /\ d.watchers = c.watchers /\ d.repeater = c.repeater
  /\ d.typing = c.typing /\ d.typed = c.typed

LEMMA RuleStays ==
  ASSUME setting \in Settings, NEW c \in Static, NEW r \in DOMAIN rules, NEW e \in Event,
         NEW slow \in BOOLEAN, Turns(r), ~converts(c, r, e)
  PROVE  LET d == remapRule(c, r, e, slow)
         IN /\ d \in Static /\ d.taken = c.taken /\ Others(c, d, r) /\ Unmoved(c, d) /\ Alike(c, d, r)
            /\ d.rule[r].last = c.rule[r].last
            /\ d.rule[r].presses = IF Double(r) THEN 0 ELSE c.rule[r].presses
<1> DEFINE d == remapRule(c, r, e, slow)
<1>1. CASE Overlaid(r)
  <2>1. d = c
    BY <1>1 DEF remapRule, Overlaid, KeyOverlaidModifier
  <2>2. ~Double(r)
    BY <1>1, RuleTypes
  <2> HIDE DEF d
  <2>3. QED
    BY <2>1, <2>2 DEF d, Others, Unmoved, Alike
<1>2. CASE Double(r)
  <2> DEFINE one == [c.rule[r] EXCEPT !.presses = 0]
             ru == [c.rule EXCEPT ![r] = one]
  <2>1. d = [c EXCEPT !.rule = ru]
    BY <1>2 DEF remapRule, Double, DoublePressModifier
  <2>2. c.rule \in [DOMAIN rules -> RuleState] /\ c.rule[r] \in RuleState
    BY DEF Static
  <2>3. /\ one \in RuleState /\ one.active = c.rule[r].active /\ one.any = c.rule[r].any
        /\ one.repeating = c.rule[r].repeating /\ one.last = c.rule[r].last /\ one.presses = 0
    BY <2>2 DEF RuleState
  <2> HIDE DEF one
  <2>4. /\ ru \in [DOMAIN rules -> RuleState] /\ ru[r] = one
        /\ \A o \in DOMAIN rules \ {r} : ru[o] = c.rule[o]
    BY <2>2, <2>3
  <2> HIDE DEF ru, d
  <2>5. d \in Static
    BY <2>1, <2>4 DEF Static
  <2>6. d.rule = ru /\ d.taken = c.taken /\ Unmoved(c, d)
    BY <2>1 DEF Static, Unmoved
  <2>7. QED
    BY <1>2, <2>3, <2>4, <2>5, <2>6 DEF d, Others, Alike
<1>3. QED
  BY <1>1, <1>2 DEF Turns

LEMMA RuleIgnores ==
  ASSUME setting \in Settings, NEW c \in Static, NEW r \in DOMAIN rules, NEW e \in Event,
         NEW slow \in BOOLEAN, Ignores(r)
  PROVE  LET d == remapRule(c, r, e, slow)
             ignored == ~c.taken /\ e.key = rules[r].from /\ e.key = c.rule[r].last
         IN /\ d \in Static /\ Others(c, d, r) /\ Unmoved(c, d) /\ Alike(c, d, r)
            /\ d.rule[r].presses = c.rule[r].presses
            /\ d.taken = (c.taken \/ ignored)
            /\ c.taken => d.rule[r].last = NONE
            /\ ~c.taken /\ ~ignored => d.rule[r].last = IF e.down THEN c.rule[r].last ELSE e.key
            /\ ignored => d.rule[r].last = c.rule[r].last
<1> DEFINE d == remapRule(c, r, e, slow)
           ignored == ~c.taken /\ e.key = rules[r].from /\ e.key = c.rule[r].last
           last == IF c.taken THEN NONE ELSE IF ignored \/ e.down THEN c.rule[r].last ELSE e.key
           one == [c.rule[r] EXCEPT !.last = last]
           ru == [c.rule EXCEPT ![r] = one]
           tk == c.taken \/ ignored
<1>1. /\ c.rule \in [DOMAIN rules -> RuleState] /\ c.rule[r] \in RuleState /\ c.taken \in BOOLEAN
      /\ e.down \in BOOLEAN /\ e.key \in AnyKey
  BY DEF Static, Event
<1>2. d = IgnoreMultipleSameKeyPress(c, r, e)
  BY DEF remapRule, Ignores
<1>3. last \in AnyKey \cup {NONE}
  BY <1>1 DEF RuleState
<1>4. /\ one \in RuleState /\ one.active = c.rule[r].active /\ one.any = c.rule[r].any
      /\ one.repeating = c.rule[r].repeating /\ one.last = last /\ one.presses = c.rule[r].presses
  <2> HIDE DEF last
  <2>1. QED
    BY <1>1, <1>3 DEF RuleState
<1>5. /\ ru \in [DOMAIN rules -> RuleState] /\ ru[r] = one
      /\ \A o \in DOMAIN rules \ {r} : ru[o] = c.rule[o]
  <2> HIDE DEF one
  <2>1. QED
    BY <1>1, <1>4
<1>6. /\ d.rule = ru /\ d \in Static /\ Unmoved(c, d) /\ d.taken = tk
  <2>1. CASE c.taken
    <3>1. d = [c EXCEPT !.rule = [c.rule EXCEPT ![r].last = NONE]]
      BY <1>2, <2>1 DEF IgnoreMultipleSameKeyPress
    <3>2. [c.rule EXCEPT ![r].last = NONE] = ru
      BY <2>1
    <3>3. tk = TRUE /\ c.taken = TRUE
      BY <1>1, <2>1
    <3> HIDE DEF d, ru, tk
    <3>4. d = [c EXCEPT !.rule = ru]
      BY <3>1, <3>2
    <3>5. QED
      BY <1>5, <3>3, <3>4 DEF Static, Unmoved
  <2>2. CASE ignored
    <3>1. d = [c EXCEPT !.taken = TRUE]
      BY <1>2, <2>2 DEF IgnoreMultipleSameKeyPress
    <3>2. ru = c.rule
      <4>1. last = c.rule[r].last
        BY <2>2
      <4> HIDE DEF last
      <4>2. one = c.rule[r]
        BY <1>1, <4>1 DEF RuleState
      <4> HIDE DEF one
      <4>3. QED
        BY <1>1, <4>2
    <3>3. tk = TRUE
      BY <2>2
    <3> HIDE DEF d, ru, tk
    <3>4. QED
      BY <1>5, <3>1, <3>2, <3>3 DEF Static, Unmoved
  <2>3. CASE ~c.taken /\ ~ignored
    <3> DEFINE l == IF e.down THEN c.rule[r].last ELSE e.key
    <3>1. d = [c EXCEPT !.rule = [c.rule EXCEPT ![r].last = l]]
      BY <1>2, <2>3 DEF IgnoreMultipleSameKeyPress
    <3>2. last = l
      BY <2>3
    <3> HIDE DEF l, last
    <3>3. [c.rule EXCEPT ![r].last = l] = ru
      BY <3>2
    <3>4. tk = FALSE /\ c.taken = FALSE
      BY <1>1, <2>3
    <3> HIDE DEF d, ru, tk
    <3>5. d = [c EXCEPT !.rule = ru]
      BY <3>1, <3>3
    <3>6. QED
      BY <1>5, <3>4, <3>5 DEF Static, Unmoved
  <2>4. QED
    BY <1>1, <2>1, <2>2, <2>3
<1> HIDE DEF d, ru, one
<1>7. Others(c, d, r) /\ Alike(c, d, r) /\ d.rule[r].presses = c.rule[r].presses /\ d.rule[r].last = last
  BY <1>4, <1>5, <1>6 DEF Others, Alike
<1>8. QED
  BY <1>1, <1>6, <1>7 DEF d
-------------------------------------------------------------------------------
(***************************************************************************)
(* The rules asked in turn: d is what the first m have made of c, and t of *)
(* them took the key (0: none).                                            *)
(***************************************************************************)
AskedWho(c, d, m, t, e) ==
  /\ t \in 0 .. m
  /\ t > 0 => Turns(t) /\ rules[t].from = e.key /\ (e.down \/ c.rule[t].active) /\ d.taken

AskedRest(c, d, m, t) ==
  \A o \in DOMAIN rules :
    /\ o > m => d.rule[o] = c.rule[o]
    /\ o <= m /\ o # t => /\ Alike(c, d, o)
                          /\ d.rule[o].presses = IF Double(o) THEN 0 ELSE c.rule[o].presses

AskedEffect(c, d, t, e, slow) ==
  IF t = 0 THEN Unmoved(c, d) ELSE Effect(c, d, t, e, slow)

AskedTaken(c, d, m, t, e) ==
  d.taken => t > 0 \/ \E o \in 1 .. m : Ignores(o) /\ rules[o].from = e.key /\ c.rule[o].last = e.key

AskedFirst(c, d, m, t, e) ==
  \A o \in 1 .. m : Turns(o) /\ rules[o].from = e.key /\ (e.down \/ c.rule[o].active) =>
    d.taken /\ (t = 0 \/ t <= o)

AskedLast(c, d, m, t, e) ==
  \A o \in 1 .. m : Ignores(o) =>
    /\ d.rule[o].last \in {NONE, e.key, c.rule[o].last}
    /\ rules[o].from = e.key /\ e.down /\ (t > 0 \/ ~d.taken) => d.rule[o].last # e.key

Asked(c, d, m, t, e, slow) ==
  /\ AskedWho(c, d, m, t, e) /\ AskedRest(c, d, m, t) /\ AskedEffect(c, d, t, e, slow)
  /\ AskedTaken(c, d, m, t, e) /\ AskedFirst(c, d, m, t, e) /\ AskedLast(c, d, m, t, e)

LEMMA AskedStep ==
  ASSUME setting \in Settings, NEW c \in Static, ~c.taken, NEW e \in Event, NEW slow \in BOOLEAN,
         NEW m \in DOMAIN rules, NEW d \in Static, NEW t, Asked(c, d, m - 1, t, e, slow)
  PROVE  /\ remapRule(d, m, e, slow) \in Static
         /\ \E s : Asked(c, remapRule(d, m, e, slow), m, s, e, slow)
<1> DEFINE x == remapRule(d, m, e, slow)
<1>1. /\ Len(rules) \in Nat /\ DOMAIN rules = 1 .. Len(rules) /\ m \in 1 .. Len(rules)
      /\ e.key \in AnyKey /\ NONE \notin AnyKey /\ e.down \in BOOLEAN /\ d.taken \in BOOLEAN
      /\ c.taken \in BOOLEAN
  BY SettingIs, NoneIs DEF Event, AnyKey, Static
<1>2. /\ t \in 0 .. m - 1 /\ d.rule[m] = c.rule[m]
      /\ t > 0 => Turns(t) /\ rules[t].from = e.key /\ (e.down \/ c.rule[t].active) /\ d.taken
  BY <1>1 DEF Asked, AskedWho, AskedRest
<1>3. /\ AskedRest(c, d, m - 1, t) /\ AskedEffect(c, d, t, e, slow) /\ AskedTaken(c, d, m - 1, t, e)
      /\ AskedFirst(c, d, m - 1, t, e) /\ AskedLast(c, d, m - 1, t, e)
  BY DEF Asked
<1>4. \A o \in 1 .. m : o = m \/ o \in 1 .. m - 1
  BY <1>1
<1>5. CASE Turns(m) /\ converts(d, m, e)
  <2>1. x \in Static /\ x.taken /\ Others(d, x, m) /\ Effect(d, x, m, e, slow)
    BY <1>5, RuleTurns
  <2>2. ~d.taken /\ rules[m].from = e.key /\ (e.down \/ c.rule[m].active)
    BY <1>2, <1>5 DEF converts
  <2>3. t = 0 /\ Unmoved(c, d)
    BY <1>2, <1>3, <2>2 DEF AskedEffect
  <2> HIDE DEF x
  <2>4. AskedWho(c, x, m, m, e)
    BY <1>1, <1>5, <2>1, <2>2 DEF AskedWho
  <2>5. AskedRest(c, x, m, m)
    <3>1. ASSUME NEW o \in DOMAIN rules, o # m
          PROVE  /\ o > m => x.rule[o] = c.rule[o]
                 /\ o <= m => /\ Alike(c, x, o)
                              /\ x.rule[o].presses = IF Double(o) THEN 0 ELSE c.rule[o].presses
      <4>1. x.rule[o] = d.rule[o]
        BY <2>1, <3>1 DEF Others
      <4>2. /\ o > m - 1 => d.rule[o] = c.rule[o]
            /\ o <= m - 1 => /\ Alike(c, d, o)
                             /\ d.rule[o].presses = IF Double(o) THEN 0 ELSE c.rule[o].presses
        BY <1>1, <1>3, <2>3 DEF AskedRest
      <4>3. (o > m => o > m - 1) /\ (o <= m => o <= m - 1)
        BY <1>1, <3>1
      <4>4. QED
        BY <4>1, <4>2, <4>3 DEF Alike
    <3>2. QED
      BY <1>1, <3>1 DEF AskedRest
  <2>6. AskedEffect(c, x, m, e, slow)
    <3>1. Effect(c, x, m, e, slow)
      BY <1>2, <2>1, <2>3 DEF Effect, Unmoved, OverlaidDown, OverlaidUp, DoubleTurn
    <3>2. m # 0
      BY <1>1
    <3>3. QED
      BY <3>1, <3>2 DEF AskedEffect
  <2>7. AskedTaken(c, x, m, m, e)
    BY <1>1 DEF AskedTaken
  <2>8. AskedFirst(c, x, m, m, e)
    <3>1. ASSUME NEW o \in 1 .. m, Turns(o), rules[o].from = e.key, e.down \/ c.rule[o].active
          PROVE  m <= o
      <4>1. o \notin 1 .. m - 1
        BY <1>3, <2>2, <3>1 DEF AskedFirst
      <4>2. QED
        BY <1>1, <1>4, <4>1
    <3>2. QED
      BY <2>1, <3>1 DEF AskedFirst
  <2>9. AskedLast(c, x, m, m, e)
    <3>1. ASSUME NEW o \in 1 .. m, Ignores(o)
          PROVE  /\ x.rule[o].last \in {NONE, e.key, c.rule[o].last}
                 /\ rules[o].from = e.key /\ e.down => x.rule[o].last # e.key
      <4>1. o # m /\ o \in DOMAIN rules
        BY <1>1, <1>5, <3>1, RuleTypes
      <4>2. o \in 1 .. m - 1 /\ x.rule[o] = d.rule[o]
        BY <1>4, <2>1, <4>1 DEF Others
      <4>3. QED
        BY <1>3, <2>2, <3>1, <4>2 DEF AskedLast
    <3>2. QED
      BY <3>1 DEF AskedLast
  <2>10. QED
    BY <2>1, <2>4, <2>5, <2>6, <2>7, <2>8, <2>9 DEF Asked, x
<1>6. CASE ~(Turns(m) /\ converts(d, m, e))
  <2>1. /\ x \in Static /\ Others(d, x, m) /\ Unmoved(d, x) /\ Alike(d, x, m)
        /\ x.rule[m].presses = IF Double(m) THEN 0 ELSE d.rule[m].presses
        /\ (d.taken => x.taken)
    <3>1. CASE Turns(m)
      <4>1. ~converts(d, m, e)
        BY <1>6, <3>1
      <4>2. QED
        BY <3>1, <4>1, RuleStays
    <3>2. CASE ~Turns(m)
      <4>1. Ignores(m) /\ ~Double(m)
        BY <3>2, RuleTypes DEF Turns
      <4>2. QED
        BY <4>1, RuleIgnores
    <3>3. QED
      BY <3>1, <3>2
  <2>2. Turns(m) => x.taken = d.taken
    <3>1. SUFFICES ASSUME Turns(m) PROVE x.taken = d.taken
      OBVIOUS
    <3>2. ~converts(d, m, e)
      BY <1>6, <3>1
    <3>3. QED
      BY <3>1, <3>2, RuleStays
  <2>3. x.taken \in BOOLEAN
    BY <2>1 DEF Static
  <2>4. Ignores(m) =>
          /\ x.rule[m].last \in {NONE, e.key, c.rule[m].last}
          /\ x.taken /\ ~d.taken => rules[m].from = e.key /\ c.rule[m].last = e.key
          /\ rules[m].from = e.key /\ e.down /\ (d.taken \/ ~x.taken) => x.rule[m].last # e.key
    <3>1. SUFFICES ASSUME Ignores(m)
                   PROVE  /\ x.rule[m].last \in {NONE, e.key, c.rule[m].last}
                          /\ x.taken /\ ~d.taken => rules[m].from = e.key /\ c.rule[m].last = e.key
                          /\ rules[m].from = e.key /\ e.down /\ (d.taken \/ ~x.taken) =>
                               x.rule[m].last # e.key
      OBVIOUS
    <3> DEFINE ignored == ~d.taken /\ e.key = rules[m].from /\ e.key = d.rule[m].last
    <3>2. /\ x.taken = (d.taken \/ ignored)
          /\ d.taken => x.rule[m].last = NONE
          /\ ~d.taken /\ ~ignored => x.rule[m].last = IF e.down THEN d.rule[m].last ELSE e.key
          /\ ignored => x.rule[m].last = d.rule[m].last
      BY <3>1, RuleIgnores
    <3> HIDE DEF x
    <3>3. QED
      BY <1>1, <1>2, <2>3, <3>2
  <2> HIDE DEF x
  <2>5. AskedWho(c, x, m, t, e)
    BY <1>1, <1>2, <2>1 DEF AskedWho
  <2>6. AskedRest(c, x, m, t)
    <3>1. ASSUME NEW o \in DOMAIN rules
          PROVE  /\ o > m => x.rule[o] = c.rule[o]
                 /\ o <= m /\ o # t => /\ Alike(c, x, o)
                                       /\ x.rule[o].presses = IF Double(o) THEN 0 ELSE c.rule[o].presses
      <4>1. CASE o = m
        BY <1>1, <1>2, <2>1, <4>1 DEF Alike
      <4>2. CASE o # m
        <5>1. x.rule[o] = d.rule[o]
          BY <2>1, <4>2 DEF Others
        <5>2. /\ o > m - 1 => d.rule[o] = c.rule[o]
              /\ o <= m - 1 /\ o # t => /\ Alike(c, d, o)
                               /\ d.rule[o].presses = IF Double(o) THEN 0 ELSE c.rule[o].presses
          BY <1>3 DEF AskedRest
        <5>3. (o > m => o > m - 1) /\ (o <= m => o <= m - 1)
          BY <1>1, <4>2
        <5>4. QED
          BY <5>1, <5>2, <5>3 DEF Alike
      <4>3. QED
        BY <4>1, <4>2
    <3>2. QED
      BY <3>1 DEF AskedRest
  <2>7. AskedEffect(c, x, t, e, slow)
    <3>1. CASE t = 0
      BY <1>3, <2>1, <3>1 DEF AskedEffect, Unmoved
    <3>2. CASE t # 0
      <4>1. Effect(c, d, t, e, slow)
        BY <1>3, <3>2 DEF AskedEffect
      <4>2. t \in DOMAIN rules /\ t # m
        BY <1>1, <1>2, <3>2
      <4>3. x.rule[t] = d.rule[t]
        BY <2>1, <4>2 DEF Others
      <4>4. Effect(c, x, t, e, slow)
        BY <2>1, <4>1, <4>3 DEF Effect, Unmoved, OverlaidDown, OverlaidUp, DoubleTurn
      <4>5. QED
        BY <3>2, <4>4 DEF AskedEffect
    <3>3. QED
      BY <3>1, <3>2
  <2>8. AskedTaken(c, x, m, t, e)
    <3>1. SUFFICES ASSUME x.taken, ~(t > 0)
                   PROVE  \E o \in 1 .. m : Ignores(o) /\ rules[o].from = e.key /\ c.rule[o].last = e.key
      BY DEF AskedTaken
    <3>2. CASE d.taken
      <4>1. PICK o \in 1 .. m - 1 : Ignores(o) /\ rules[o].from = e.key /\ c.rule[o].last = e.key
        BY <1>3, <3>1, <3>2 DEF AskedTaken
      <4>2. o \in 1 .. m
        BY <1>1
      <4>3. QED
        BY <4>1, <4>2
    <3>3. CASE ~d.taken
      <4>1. Ignores(m)
        BY <2>2, <3>1, <3>3, RuleTypes
      <4>2. rules[m].from = e.key /\ c.rule[m].last = e.key /\ m \in 1 .. m
        BY <1>1, <2>4, <3>1, <3>3, <4>1
      <4>3. QED
        BY <4>1, <4>2
    <3>4. QED
      BY <3>2, <3>3
  <2>9. AskedFirst(c, x, m, t, e)
    <3>1. ASSUME NEW o \in 1 .. m, Turns(o), rules[o].from = e.key, e.down \/ c.rule[o].active
          PROVE  x.taken /\ (t = 0 \/ t <= o)
      <4>1. CASE o = m
        <5>1. d.taken
          BY <1>2, <1>6, <3>1, <4>1 DEF converts
        <5>2. QED
          BY <1>1, <1>2, <2>1, <4>1, <5>1
      <4>2. CASE o \in 1 .. m - 1
        BY <1>3, <2>1, <3>1, <4>2 DEF AskedFirst
      <4>3. QED
        BY <1>4, <4>1, <4>2
    <3>2. QED
      BY <3>1 DEF AskedFirst
  <2>10. AskedLast(c, x, m, t, e)
    <3>1. ASSUME NEW o \in 1 .. m, Ignores(o)
          PROVE  /\ x.rule[o].last \in {NONE, e.key, c.rule[o].last}
                 /\ rules[o].from = e.key /\ e.down /\ (t > 0 \/ ~x.taken) => x.rule[o].last # e.key
      <4>1. CASE o = m
        BY <1>2, <2>4, <3>1, <4>1
      <4>2. CASE o # m
        <5>1. o \in 1 .. m - 1 /\ o \in DOMAIN rules
          BY <1>1, <4>2
        <5>2. x.rule[o] = d.rule[o]
          BY <2>1, <4>2, <5>1 DEF Others
        <5>3. QED
          BY <1>3, <2>1, <3>1, <5>1, <5>2 DEF AskedLast
      <4>3. QED
        BY <4>1, <4>2
    <3>2. QED
      BY <3>1 DEF AskedLast
  <2>11. QED
    BY <2>1, <2>5, <2>6, <2>7, <2>8, <2>9, <2>10 DEF Asked, x
<1>7. QED
  BY <1>5, <1>6

Asks(n, c, e, slow, f) == f = [r \in 0 .. n |-> IF r = 0 THEN c ELSE remapRule(f[r - 1], r, e, slow)]

LEMMA RuleType ==
  ASSUME setting \in Settings, NEW c \in Static, NEW r \in DOMAIN rules, NEW e \in Event,
         NEW slow \in BOOLEAN
  PROVE  remapRule(c, r, e, slow) \in Static
<1>1. CASE Turns(r) /\ converts(c, r, e)
  BY <1>1, RuleTurns
<1>2. CASE Turns(r) /\ ~converts(c, r, e)
  BY <1>2, RuleStays
<1>3. CASE Ignores(r)
  BY <1>3, RuleIgnores
<1>4. QED
  BY <1>1, <1>2, <1>3, RuleTypes

LEMMA AskedAll ==
  ASSUME setting \in Settings, NEW c \in Static, ~c.taken, NEW e \in Event, NEW slow \in BOOLEAN
  PROVE  /\ remap_key(c, e, slow) \in Static
         /\ \E t : Asked(c, remap_key(c, e, slow), Len(rules), t, e, slow)
<1> DEFINE n == Len(rules)
           step == [r \in 1 .. n |-> [d \in Static |-> remapRule(d, r, e, slow)]]
<1>1. n \in Nat /\ n \in 0 .. n /\ DOMAIN rules = 1 .. n
  BY SettingIs
<1>2. ASSUME NEW d \in Static, NEW r \in 1 .. n PROVE remapRule(d, r, e, slow) \in Static
  BY <1>1, RuleType
<1> HIDE DEF n
<1>3. step \in [1 .. n -> [Static -> Static]]
  BY <1>2
<1>4. PICK f \in [0 .. n -> Static] : f[0] = c /\ \A r \in 1 .. n : f[r] = step[r][f[r - 1]]
  <2> HIDE DEF step
  <2>1. QED
    BY <1>1, <1>3, Folds
<1>5. \A r \in 1 .. n : f[r] = remapRule(f[r - 1], r, e, slow)
  <2>1. ASSUME NEW r \in 1 .. n PROVE f[r] = remapRule(f[r - 1], r, e, slow)
    <3>1. r - 1 \in 0 .. n
      BY <1>1
    <3>2. step[r][f[r - 1]] = remapRule(f[r - 1], r, e, slow)
      BY <3>1
    <3>3. QED
      BY <1>4, <3>2
  <2>2. QED
    BY <2>1
<1>6. Asks(n, c, e, slow, f)
  <2>1. f = [r \in 0 .. n |-> f[r]]
    OBVIOUS
  <2>2. \A r \in 0 .. n : f[r] = IF r = 0 THEN c ELSE remapRule(f[r - 1], r, e, slow)
    BY <1>1, <1>4, <1>5
  <2>3. QED
    BY <2>1, <2>2 DEF Asks
<1>7. ASSUME NEW g, Asks(n, c, e, slow, g) PROVE g[n] = f[n]
  <2> DEFINE S == {r \in 0 .. n : g[r] = f[r]}
  <2>1. g[0] = c /\ \A r \in 1 .. n : g[r] = remapRule(g[r - 1], r, e, slow)
    BY <1>1, <1>7 DEF Asks
  <2>2. 0 \in S
    BY <1>1, <1>4, <2>1
  <2>3. ASSUME NEW r \in 1 .. n, r - 1 \in S PROVE r \in S
    BY <1>1, <1>5, <2>1, <2>3
  <2>4. n \in S
    <3> HIDE DEF S
    <3>1. QED
      BY <1>1, <2>2, <2>3, UpTo
  <2>5. QED
    BY <2>4
<1>8. remap_key(c, e, slow) = (CHOOSE g : Asks(n, c, e, slow, g))[n]
  BY DEF remap_key, Asks, n
<1>9. remap_key(c, e, slow) = f[n]
  BY <1>6, <1>7, <1>8
<1>10. \E t : Asked(c, f[n], n, t, e, slow)
  <2> DEFINE S == {r \in 0 .. n : \E t : Asked(c, f[r], r, t, e, slow)}
  <2>1. Asked(c, c, 0, 0, e, slow)
    <3>1. \A o \in DOMAIN rules : o > 0 /\ ~(o <= 0)
      BY <1>1
    <3>2. QED
      BY <3>1 DEF Asked, AskedWho, AskedRest, AskedEffect, Unmoved, AskedTaken, AskedFirst, AskedLast
  <2>2. 0 \in S
    BY <1>1, <1>4, <2>1
  <2>3. ASSUME NEW r \in 1 .. n, r - 1 \in S PROVE r \in S
    <3>1. PICK t : Asked(c, f[r - 1], r - 1, t, e, slow)
      BY <2>3
    <3>2. f[r - 1] \in Static /\ r \in DOMAIN rules
      BY <1>1
    <3>3. \E s : Asked(c, remapRule(f[r - 1], r, e, slow), r, s, e, slow)
      BY <3>1, <3>2, AskedStep
    <3>4. QED
      BY <1>1, <1>5, <3>3
  <2>4. n \in S
    <3> HIDE DEF S
    <3>1. QED
      BY <1>1, <2>2, <2>3, UpTo
  <2>5. QED
    BY <2>4
<1>11. QED
  BY <1>1, <1>9, <1>10 DEF n

\* What the rules keep of an event, all of them asked.
Answered(c, d, t, e, slow) ==
  /\ d \in Static /\ t \in {0} \cup DOMAIN rules
  /\ t # 0 => /\ Turns(t) /\ rules[t].from = e.key /\ (e.down \/ c.rule[t].active) /\ d.taken
              /\ Effect(c, d, t, e, slow)
  /\ t = 0 => Unmoved(c, d)
  /\ \A o \in DOMAIN rules \ {t} :
       Alike(c, d, o) /\ d.rule[o].presses = IF Double(o) THEN 0 ELSE c.rule[o].presses
  /\ d.taken =>
       t # 0 \/ \E o \in DOMAIN rules : Ignores(o) /\ rules[o].from = e.key /\ c.rule[o].last = e.key
  /\ \A o \in DOMAIN rules : Turns(o) /\ rules[o].from = e.key /\ (e.down \/ c.rule[o].active) =>
       d.taken /\ (t = 0 \/ t <= o)
  /\ \A o \in DOMAIN rules : Ignores(o) =>
       /\ d.rule[o].last \in {NONE, e.key, c.rule[o].last}
       /\ rules[o].from = e.key /\ e.down /\ (t # 0 \/ ~d.taken) => d.rule[o].last # e.key

LEMMA AllAnswer ==
  ASSUME setting \in Settings, NEW c \in Static, ~c.taken, NEW e \in Event, NEW slow \in BOOLEAN
  PROVE  \E t : Answered(c, remap_key(c, e, slow), t, e, slow)
<1> DEFINE n == Len(rules)
           d == remap_key(c, e, slow)
<1>1. n \in Nat /\ DOMAIN rules = 1 .. n
  BY SettingIs
<1>2. d \in Static /\ \E t : Asked(c, d, n, t, e, slow)
  BY AskedAll
<1>3. PICK t : Asked(c, d, n, t, e, slow)
  BY <1>2
<1> HIDE DEF d, n
<1>4. t \in 0 .. n /\ (t > 0 <=> t # 0) /\ t \in {0} \cup DOMAIN rules
  BY <1>1, <1>3 DEF Asked, AskedWho
<1>5. \A o \in DOMAIN rules : o <= n
  BY <1>1
<1>6. /\ t # 0 => /\ Turns(t) /\ rules[t].from = e.key /\ (e.down \/ c.rule[t].active) /\ d.taken
                  /\ Effect(c, d, t, e, slow)
      /\ t = 0 => Unmoved(c, d)
  BY <1>3, <1>4 DEF Asked, AskedWho, AskedEffect
<1>7. \A o \in DOMAIN rules \ {t} :
        Alike(c, d, o) /\ d.rule[o].presses = IF Double(o) THEN 0 ELSE c.rule[o].presses
  BY <1>3, <1>5 DEF Asked, AskedRest
<1>8. d.taken =>
        t # 0 \/ \E o \in DOMAIN rules : Ignores(o) /\ rules[o].from = e.key /\ c.rule[o].last = e.key
  BY <1>1, <1>3, <1>4 DEF Asked, AskedTaken
<1>9. /\ \A o \in DOMAIN rules : Turns(o) /\ rules[o].from = e.key /\ (e.down \/ c.rule[o].active) =>
           d.taken /\ (t = 0 \/ t <= o)
      /\ \A o \in DOMAIN rules : Ignores(o) =>
           /\ d.rule[o].last \in {NONE, e.key, c.rule[o].last}
           /\ rules[o].from = e.key /\ e.down /\ (t # 0 \/ ~d.taken) => d.rule[o].last # e.key
  BY <1>1, <1>3, <1>4 DEF Asked, AskedFirst, AskedLast
<1>10. Answered(c, d, t, e, slow)
  BY <1>2, <1>4, <1>6, <1>7, <1>8, <1>9 DEF Answered
<1>11. QED
  BY <1>10 DEF d
-------------------------------------------------------------------------------
(***************************************************************************)
(* The inductive invariant, with the keys of l down before the events that *)
(* wait.  A key is live when its release is still to come before its next  *)
(* press: a real one that no pair waits for, and the target of a pair that *)
(* is down.                                                                *)
(***************************************************************************)
Live(l, b, k) == IF k \in Keys THEN room(l, b)[k] >= 1 ELSE isOpen(b, k)

KeyInv(l) ==
  /\ \A n \in 1 .. Len(queue) : queue[n].key \in Keys
  /\ Leads(l, queue, phys) /\ IsFiniteSet(phys)
  /\ room(l, both) \in [Keys -> Nat] /\ IsFiniteSet(Free(room(l, both)))
  /\ Counted(did.again) => held = Cardinality(Free(room(l, both))) + Cardinality(Open(both))
  /\ Given => held + Wait(queue, Downs) - Wait(queue, Ups) = Cardinality(phys) - Cardinality(Full(both))

\* One step of the queue: q is what the pairs make of it, the events s are left and c is
\* before them, h keys are held then.
LeftOver(l, c, q, s, h) ==
  /\ q.both \in Sides /\ q.again \in BOOLEAN /\ s \in Seq(Event) /\ h \in Int
  /\ \A n \in 1 .. Len(s) : s[n].key \in Keys
  /\ Leads(c, s, phys)
  /\ room(c, q.both) \in [Keys -> Nat] /\ IsFiniteSet(Free(room(c, q.both)))
  /\ Counted(q.again) => h = Cardinality(Free(room(c, q.both))) + Cardinality(Open(q.both))
  /\ Given => h + Wait(s, Downs) - Wait(s, Ups) = Cardinality(phys) - Cardinality(Full(q.both))
  /\ did.again => q.again

Began == [queue |-> queue, both |-> both, again |-> did.again]

LEMMA InputMid ==
  ASSUME TypeOK, NEW l, KeyInv(l)
  PROVE  LET q == rewritten(Began)
             w == Balance(Began)
         IN /\ Base(l, w) /\ q \in Works /\ NoMore(q) /\ \E m : Mid(l, w, q, m)
            /\ Given => held + w = Cardinality(phys)
<1> DEFINE w == Balance(Began)
<1>1. /\ setting \in Settings /\ both \in Sides /\ queue \in Seq(Event) /\ held \in Nat
      /\ did.again \in BOOLEAN
  BY DEF TypeOK, Sides
<1>2. Began \in Works /\ Began.queue = queue /\ Began.both = both /\ Began.again = did.again
  BY <1>1 DEF Began, Works
<1>3. /\ w = Wait(queue, Downs) - Wait(queue, Ups) + Cardinality(Full(both))
      /\ Wait(queue, Downs) \in Nat /\ Wait(queue, Ups) \in Nat /\ Cardinality(Full(both)) \in Nat
      /\ Cardinality(phys) \in Nat
  BY <1>1, <1>2, WaitFinite, PairsFinite, FS_CardinalityType DEF Balance, KeyInv
<1> HIDE DEF w
<1>4. w \in Int /\ (Given => held + w = Cardinality(phys))
  <2>1. Given => held + Wait(queue, Downs) - Wait(queue, Ups) = Cardinality(phys) - Cardinality(Full(both))
    BY DEF KeyInv
  <2>2. w \in Int
    BY <1>3
  <2>3. ASSUME Given PROVE held + w = Cardinality(phys)
    <3>1. held + Wait(queue, Downs) - Wait(queue, Ups) = Cardinality(phys) - Cardinality(Full(both))
      BY <2>1, <2>3
    <3>2. QED
      BY <1>1, <1>3, <3>1
  <2>4. QED
    BY <2>2, <2>3
<1>5. Base(l, w)
  BY <1>1, <1>4 DEF Base, KeyInv
<1>6. ~Target(queue)
  BY <1>1 DEF KeyInv, Target
<1>7. Mid(l, w, Began, l)
  <2>1. MidKeys(Began, l)
    BY <1>2 DEF MidKeys, KeyInv
  <2>2. MidCount(w, Began, l)
    BY <1>1, <1>2, <1>6 DEF MidCount, KeyInv, Pending, w
  <2>3. MidKept(l, Began, l)
    BY <1>2, <1>5, <1>6 DEF MidKept, Base
  <2>4. QED
    BY <2>1, <2>2, <2>3 DEF Mid
<1>8. Began \in Reached(l, w)
  BY <1>2, <1>7 DEF Reached
<1>9. rewritten(Began) \in Reached(l, w) /\ NoMore(rewritten(Began))
  BY <1>5, <1>8, RewrittenOf
<1>10. QED
  BY <1>4, <1>5, <1>9 DEF Reached, w

\* Nothing is left.
LEMMA InputEmpty ==
  ASSUME TypeOK, NEW l, KeyInv(l), NEW q, q = rewritten(Began), q.queue = << >>
  PROVE  \E c : /\ LeftOver(l, c, q, << >>, held)
                /\ \A k \in AnyKey : Live(l, both, k) => Live(c, q.both, k)
<1> DEFINE w == Balance(Began)
<1>1. Base(l, w) /\ q \in Works /\ (Given => held + w = Cardinality(phys)) /\ \E m : Mid(l, w, q, m)
  BY InputMid
<1>2. PICK m : MidKeys(q, m) /\ MidCount(w, q, m) /\ MidKept(l, q, m)
  BY <1>1 DEF Mid
<1> HIDE DEF w
<1>3. /\ setting \in Settings /\ both \in Sides /\ held \in Nat /\ w \in Int
      /\ room(l, both) \in [Keys -> Nat]
  BY <1>1 DEF Base
<1>4. << >> \in Seq(Event) /\ Len(<< >>) = 0 /\ ~Target(<< >>)
  BY DEF Target
<1>5. /\ Wait(<< >>, Downs) \in Nat /\ Wait(<< >>, Ups) \in Nat /\ Cardinality(Full(q.both)) \in Nat
      /\ Cardinality(phys) \in Nat /\ q.both \in Sides /\ q.again \in BOOLEAN
  BY <1>1, <1>3, <1>4, WaitFinite, PairsFinite, FS_CardinalityType DEF KeyInv, Works
<1>6. LeftOver(l, m, q, << >>, held)
  <2>1. Counted(q.again) => held = Cardinality(Free(room(m, q.both))) + Cardinality(Open(q.both))
    BY <1>2, <1>3, <1>4 DEF MidCount, Pending
  <2>2. Given => held + Wait(<< >>, Downs) - Wait(<< >>, Ups) = Cardinality(phys) - Cardinality(Full(q.both))
    <3>1. Given => Wait(<< >>, Downs) - Wait(<< >>, Ups) + Cardinality(Full(q.both)) = w
      BY <1>2 DEF MidCount, Balance
    <3>2. QED
      BY <1>1, <1>3, <1>5, <3>1
  <2>3. QED
    BY <1>2, <1>3, <1>4, <1>5, <2>1, <2>2 DEF LeftOver, MidKeys, MidKept
<1>7. ASSUME NEW k \in AnyKey, Live(l, both, k) PROVE Live(m, q.both, k)
  <2>1. CASE k \in Keys
    <3>1. /\ room(l, both)[k] \in Nat /\ room(m, q.both)[k] \in Nat /\ room(l, both)[k] >= 1
          /\ room(l, both)[k] <= room(m, q.both)[k]
      BY <1>2, <1>3, <1>7, <2>1 DEF Live, MidKeys, MidKept
    <3>2. QED
      BY <2>1, <3>1 DEF Live
  <2>2. CASE k \notin Keys
    <3>1. k \in VirtualKeys
      BY <2>2 DEF AnyKey
    <3>2. isOpen(both, k)
      BY <1>7, <2>2 DEF Live
    <3>3. isOpen(q.both, k)
      BY <1>2, <3>1, <3>2 DEF MidKept
    <3>4. QED
      BY <2>2, <3>3 DEF Live
  <2>3. QED
    BY <2>1, <2>2
<1>8. QED
  BY <1>6, <1>7

LEMMA WaitTail ==
  ASSUME NEW u \in Seq(Event), u # << >>
  PROVE  /\ Wait(u, Downs) = Wait(Tail(u), Downs) + (IF Head(u).down THEN 1 ELSE 0)
         /\ Wait(u, Ups) = Wait(Tail(u), Ups) + (IF Head(u).down THEN 0 ELSE 1)
         /\ Wait(u, Downs) \in Nat /\ Wait(u, Ups) \in Nat
         /\ Wait(Tail(u), Downs) \in Nat /\ Wait(Tail(u), Ups) \in Nat
<1>1. PICK v \in Seq(Event) : v = Tail(u) /\ Head(u) \in Event /\ Head(u) = u[1] /\ Without(u, 1, v)
  BY Behead
<1>2. v \in Seq(Event) /\ Without(u, 1, v)
  BY <1>1
<1>3. Wait(u, Downs) = Wait(v, Downs) + (IF u[1] \in Downs THEN 1 ELSE 0)
  BY <1>2, WaitWithout
<1>4. Wait(u, Ups) = Wait(v, Ups) + (IF u[1] \in Ups THEN 1 ELSE 0)
  BY <1>2, WaitWithout
<1>5. (u[1] \in Downs <=> Head(u).down) /\ (u[1] \in Ups <=> ~Head(u).down)
  BY <1>1 DEF Downs, Ups
<1>6. /\ Wait(u, Downs) \in Nat /\ Wait(u, Ups) \in Nat
      /\ Wait(v, Downs) \in Nat /\ Wait(v, Ups) \in Nat
  BY <1>1, WaitFinite
<1>7. v = Tail(u)
  BY <1>1
<1>8. QED
  BY <1>3, <1>4, <1>5, <1>6, <1>7

\* The first event goes to the rules: keys but its own stay live, its own is if it goes
\* down, and was not before unless a pair was pressed while its target was down.
LEMMA InputNext ==
  ASSUME TypeOK, NEW l, KeyInv(l), NEW q, q = rewritten(Began), q.queue # << >>,
         NEW e, e = Head(q.queue), NEW s, s = Tail(q.queue)
  PROVE  /\ e \in Event
         /\ \E c : /\ LeftOver(l, c, q, s, IF e.down THEN held + 1 ELSE held - 1)
                   /\ \A k \in AnyKey \ {e.key} : Live(l, both, k) => Live(c, q.both, k)
                   /\ e.down => Live(c, q.both, e.key) /\ (q.again \/ ~Live(l, both, e.key))
<1> DEFINE w == Balance(Began)
           h == IF e.down THEN held + 1 ELSE held - 1
<1>1. Base(l, w) /\ q \in Works /\ NoMore(q) /\ (Given => held + w = Cardinality(phys))
      /\ \E m : Mid(l, w, q, m)
  BY InputMid
<1>2. PICK m : MidKeys(q, m) /\ MidCount(w, q, m) /\ MidKept(l, q, m)
  BY <1>1 DEF Mid
<1> HIDE DEF w
<1>3. /\ setting \in Settings /\ both \in Sides /\ held \in Nat /\ w \in Int
      /\ room(l, both) \in [Keys -> Nat] /\ q.both \in Sides /\ q.again \in BOOLEAN
      /\ q.queue \in Seq(Event)
  BY <1>1 DEF Base, Works
<1>4. /\ e \in Event /\ e = q.queue[1] /\ s \in Seq(Event) /\ Without(q.queue, 1, s)
      /\ e.key \in AnyKey /\ e.down \in BOOLEAN
  <2>1. e \in Event /\ e = q.queue[1] /\ s \in Seq(Event) /\ Without(q.queue, 1, s)
    BY <1>3, Behead
  <2>2. QED
    BY <2>1 DEF Event
<1>5. \A n \in 1 .. Len(s) : s[n].key \in Keys
  <2>1. ASSUME NEW n \in 1 .. Len(s) PROVE s[n].key \in Keys
    <3>1. n + 1 \in 2 .. Len(q.queue) /\ s[n] = q.queue[n + 1]
      BY <1>4 DEF Without
    <3>2. QED
      BY <1>2, <3>1 DEF MidKeys
  <2>2. QED
    BY <2>1
<1>6. PICK c \in [Keys -> Nat] : Leads(c, s, phys) /\ Moves(m, e, c)
  BY <1>2, <1>3, LeadsTail DEF MidKeys
<1> DEFINE g == room(m, q.both)
           f == room(c, q.both)
<1>7. /\ g \in [Keys -> Nat] /\ IsFiniteSet(Free(g)) /\ m \in [Keys -> Nat]
      /\ \A k \in Keys : /\ g[k] = m[k] - Cardinality(Bits(q.both, k))
                         /\ f[k] = c[k] - Cardinality(Bits(q.both, k))
                         /\ Cardinality(Bits(q.both, k)) \in Nat
  BY <1>2, <1>3, LeadsType, PairsFinite DEF MidKeys, room
<1>8. \A k \in Keys : k # e.key => f[k] = g[k]
  BY <1>6, <1>7 DEF Moves
<1>9. f = [k \in Keys |-> f[k]]
  BY DEF room
<1>10. \A k \in Keys : /\ room(l, both)[k] <= g[k] /\ room(l, both)[k] \in Nat /\ g[k] \in Nat
  BY <1>2, <1>3, <1>7 DEF MidKept
<1>11. /\ Wait(q.queue, Downs) = Wait(s, Downs) + (IF e.down THEN 1 ELSE 0)
       /\ Wait(q.queue, Ups) = Wait(s, Ups) + (IF e.down THEN 0 ELSE 1)
       /\ Wait(s, Downs) \in Nat /\ Wait(s, Ups) \in Nat
  BY <1>3, WaitTail
<1>12. /\ Cardinality(Full(q.both)) \in Nat /\ Cardinality(Open(q.both)) \in Nat
       /\ Cardinality(phys) \in Nat /\ Cardinality(Free(g)) \in Nat
  BY <1>3, <1>7, PairsFinite, FreeSize, FS_CardinalityType DEF KeyInv
<1> HIDE DEF f, g
<1>13. /\ f \in [Keys -> Nat] /\ IsFiniteSet(Free(f))
       /\ Counted(q.again) => h = Cardinality(Free(f)) + Cardinality(Open(q.both))
       /\ e.key \in Keys /\ e.down => f[e.key] = 1 /\ g[e.key] = 0
  <2>1. Counted(q.again) => held + Pending(q.queue) = Cardinality(Free(g)) + Cardinality(Open(q.both))
    BY <1>2 DEF MidCount, g
  <2>2. CASE e.key \notin Keys
    <3>1. \A k \in Keys : f[k] = g[k]
      BY <1>8, <2>2
    <3>2. f = g
      BY <1>7, <1>9, <3>1
    <3>3. Pending(q.queue) = IF e.down THEN 1 ELSE -1
      BY <2>2 DEF Pending, Target
    <3>4. Counted(q.again) => h = Cardinality(Free(g)) + Cardinality(Open(q.both))
      <4>1. CASE e.down
        BY <1>3, <1>12, <2>1, <3>3, <4>1
      <4>2. CASE ~e.down
        BY <1>3, <1>12, <2>1, <3>3, <4>2
      <4>3. QED
        BY <4>1, <4>2
    <3>5. QED
      BY <1>7, <2>2, <3>2, <3>4
  <2>3. CASE e.key \in Keys /\ e.down
    <3>1. m[e.key] = 0 /\ c[e.key] = 1
      BY <1>6, <2>3 DEF Moves
    <3>2. f[e.key] = 1 /\ g[e.key] = 0
      BY <1>7, <2>3, <3>1
    <3>3. f \in [Keys -> Nat]
      <4>1. \A k \in Keys : k = e.key \/ f[k] = g[k]
        BY <1>8
      <4>2. ASSUME NEW k \in Keys PROVE f[k] \in Nat
        <5>1. g[k] \in Nat
          BY <1>7
        <5>2. QED
          BY <3>2, <4>1, <5>1
      <4>3. QED
        BY <1>9, <4>2
    <3>4. IsFiniteSet(Free(f)) /\ Cardinality(Free(f)) = Cardinality(Free(g)) + 1
      <4>1. f[e.key] = g[e.key] + 1 /\ \A k \in Keys \ {e.key} : f[k] = g[k]
        BY <1>8, <3>2
      <4>2. QED
        BY <1>7, <2>3, <3>3, <4>1, OneMoreFree
    <3>5. Pending(q.queue) = 0
      BY <2>3 DEF Pending, Target
    <3>6. Counted(q.again) => h = Cardinality(Free(f)) + Cardinality(Open(q.both))
      BY <1>3, <1>12, <2>1, <2>3, <3>4, <3>5
    <3>7. QED
      BY <3>2, <3>3, <3>4, <3>6
  <2>4. CASE e.key \in Keys /\ ~e.down
    <3>1. Cardinality(Bits(q.both, e.key)) = 0
      BY <1>1, <1>3, <2>4, NoBitLeft DEF Target
    <3>2. m[e.key] = c[e.key] + 1
      BY <1>6, <2>4 DEF Moves
    <3>3. g[e.key] = f[e.key] + 1 /\ f[e.key] \in Nat
      BY <1>7, <2>4, <3>1, <3>2
    <3>4. f \in [Keys -> Nat]
      <4>1. ASSUME NEW k \in Keys PROVE f[k] \in Nat
        <5>1. g[k] \in Nat
          BY <1>7
        <5>2. QED
          BY <1>8, <3>3, <5>1
      <4>2. QED
        BY <1>9, <4>1
    <3>5. IsFiniteSet(Free(f)) /\ Cardinality(Free(g)) = Cardinality(Free(f)) + 1
      <4>1. \A k \in Keys \ {e.key} : g[k] = f[k]
        BY <1>8
      <4>2. QED
        BY <1>7, <2>4, <3>3, <3>4, <4>1, OneMoreFree
    <3>6. Pending(q.queue) = 0 /\ Cardinality(Free(f)) \in Nat
      BY <2>4, <3>5, FS_CardinalityType DEF Pending, Target
    <3>7. Counted(q.again) => h = Cardinality(Free(f)) + Cardinality(Open(q.both))
      BY <1>3, <1>12, <2>1, <2>4, <3>5, <3>6
    <3>8. QED
      BY <2>4, <3>4, <3>5, <3>7
  <2>5. QED
    BY <1>4, <2>2, <2>3, <2>4
<1>14. h \in Int /\ (Given => h + Wait(s, Downs) - Wait(s, Ups) = Cardinality(phys) - Cardinality(Full(q.both)))
  <2>1. h \in Int
    BY <1>3
  <2>2. ASSUME Given PROVE h + Wait(s, Downs) - Wait(s, Ups) = Cardinality(phys) - Cardinality(Full(q.both))
    <3> DEFINE x == Wait(s, Downs)
               y == Wait(s, Ups)
               z == Cardinality(Full(q.both))
               p == Cardinality(phys)
    <3>1. Wait(q.queue, Downs) - Wait(q.queue, Ups) + z = w /\ held + w = p
      BY <1>1, <1>2, <2>2 DEF MidCount, Balance
    <3>2. x \in Nat /\ y \in Nat /\ z \in Nat /\ p \in Nat /\ held \in Nat /\ w \in Int
      BY <1>3, <1>11, <1>12
    <3>3. CASE e.down
      <4>1. h = held + 1 /\ Wait(q.queue, Downs) = x + 1 /\ Wait(q.queue, Ups) = y
        BY <1>11, <3>2, <3>3
      <4>2. (x + 1) - y + z = w
        BY <3>1, <4>1
      <4> HIDE DEF h, x, y, z, p
      <4>3. h + x - y = p - z
        BY <3>1, <3>2, <4>1, <4>2
      <4>4. QED
        BY <4>3 DEF x, y, z, p
    <3>4. CASE ~e.down
      <4>1. h = held - 1 /\ Wait(q.queue, Downs) = x /\ Wait(q.queue, Ups) = y + 1
        BY <1>11, <3>2, <3>4
      <4>2. x - (y + 1) + z = w
        BY <3>1, <4>1
      <4> HIDE DEF h, x, y, z, p
      <4>3. h + x - y = p - z
        BY <3>1, <3>2, <4>1, <4>2
      <4>4. QED
        BY <4>3 DEF x, y, z, p
    <3>5. QED
      BY <1>4, <3>3, <3>4
  <2>3. QED
    BY <2>1, <2>2
<1>15. LeftOver(l, c, q, s, h)
  <2> HIDE DEF h
  <2>1. did.again => q.again
    BY <1>2 DEF MidKept
  <2>2. QED
    BY <1>3, <1>4, <1>5, <1>6, <1>13, <1>14, <2>1 DEF LeftOver, f
<1>16. ASSUME NEW k \in AnyKey \ {e.key}, Live(l, both, k) PROVE Live(c, q.both, k)
  <2>1. CASE k \in Keys
    <3>1. room(l, both)[k] >= 1 /\ f[k] = g[k]
      BY <1>8, <1>16, <2>1 DEF Live
    <3>2. f[k] >= 1
      BY <1>10, <2>1, <3>1
    <3>3. QED
      BY <2>1, <3>2 DEF Live, f
  <2>2. CASE k \notin Keys
    <3>1. k \in VirtualKeys /\ isOpen(both, k)
      BY <1>16, <2>2 DEF AnyKey, Live
    <3>2. isOpen(q.both, k) \/ e = [key |-> k, down |-> FALSE]
      BY <1>2, <3>1 DEF MidKept
    <3>3. e # [key |-> k, down |-> FALSE]
      BY <1>16
    <3>4. QED
      BY <2>2, <3>2, <3>3 DEF Live
  <2>3. QED
    BY <2>1, <2>2
<1>17. ASSUME e.down PROVE Live(c, q.both, e.key) /\ (q.again \/ ~Live(l, both, e.key))
  <2>1. CASE e.key \in Keys
    <3>1. f[e.key] = 1 /\ g[e.key] = 0
      BY <1>13, <1>17, <2>1
    <3>2. ~(room(l, both)[e.key] >= 1)
      BY <1>10, <2>1, <3>1
    <3>3. QED
      BY <2>1, <3>1, <3>2 DEF Live, f
  <2>2. CASE e.key \notin Keys
    <3>1. Target(q.queue)
      BY <2>2 DEF Target
    <3>2. isOpen(q.both, e.key) /\ (q.again \/ ~isOpen(both, e.key))
      BY <1>2, <1>17, <3>1 DEF MidKept
    <3>3. QED
      BY <2>2, <3>2 DEF Live
  <2>3. QED
    BY <2>1, <2>2
<1>18. QED
  BY <1>4, <1>15, <1>16, <1>17
-------------------------------------------------------------------------------
(***************************************************************************)
(* What the rules keep: ru are their states, with the keys of l down       *)
(* before the events that wait and b of the pairs.                         *)
(***************************************************************************)
\* r is the first rule that takes the key, and it is taken.
First(ru, r) ==
  \A o \in DOMAIN rules : rules[o].from = rules[r].from =>
    (Turns(o) => r <= o) /\ (Ignores(o) => ru[o].last # rules[r].from)

ActiveKept(l, b, ru) ==
  \A r \in DOMAIN rules : ru[r].active => Turns(r) /\ Live(l, b, rules[r].from) /\ First(ru, r)

RepeatKept(ru, re) == re.armed => re.target # 0 /\ Overlaid(re.target) /\ ru[re.target].active

PressKept(ru, downs) ==
  \A r \in DOMAIN rules :
    /\ ru[r].presses >= 1 => Double(r) /\ downs[2] = rules[r].from
    /\ ru[r].presses >= 2 => downs[1] = rules[r].from

WatchKept(ru, wa, downs) ==
  \A r \in DOMAIN rules : Overlaid(r) /\ ru[r].active =>
    r \in wa /\ (ru[r].any <=> downs[2] # rules[r].from)

TypedKept(typed, downs) ==
  \A r \in typed : downs[2] = rules[r].from /\ (Double(r) => downs[1] = rules[r].from)

HeldKept(l, b, ru, keys) ==
  \A k \in keys :
    /\ Live(l, b, k)
    /\ \A o \in DOMAIN rules : rules[o].from = k => ~Turns(o) /\ (Ignores(o) => ru[o].last # k)

TypingKept(ru, ty, wa) ==
  /\ \A r \in ty : Overlaid(r) /\ ru[r].active /\ ru[r].repeating
  /\ \A r \in wa : Overlaid(r) /\ (ru[r].repeating \/ ru[r].active)

Acting(ru, f) == {r \in DOMAIN rules : ru[r].active /\ rules[r].to = f}

CountKept(ru, co) == \A f \in Modifiers : co[f] = Cardinality(Acting(ru, f))

RulesInv(l) ==
  /\ ActiveKept(l, both, rule) /\ RepeatKept(rule, repeater) /\ PressKept(rule, did.downs)
  /\ Counted(did.again) => WatchKept(rule, watchers, did.downs) /\ TypedKept(did.typed, did.downs)
  /\ ~did.again => /\ HeldKept(l, both, rule, told.keys)
                   /\ TypingKept(rule, told.typing, watchers) /\ CountKept(rule, count)

IInv == TypeOK /\ \E l : KeyInv(l) /\ RulesInv(l)

\* The setting does not change, nor with it what is said of given values.
LEMMA SameSetting ==
  ASSUME setting' = setting
  PROVE  /\ combos' = combos /\ rules' = rules /\ Given' = Given /\ Sides' = Sides
         /\ Static' = Static
  BY DEF combos, rules, Given, Sides, Static, Repeaters, RuleState

LEMMA SameKinds ==
  ASSUME setting' = setting, NEW r
  PROVE  /\ Overlaid(r)' <=> Overlaid(r)
         /\ Double(r)' <=> Double(r)
         /\ Turns(r)' <=> Turns(r)
         /\ Ignores(r)' <=> Ignores(r)
  BY SameSetting DEF Overlaid, Double, Turns, Ignores

LEMMA SamePairs ==
  ASSUME setting' = setting, NEW b, both' = b
  PROVE  /\ \A k : Bits(both, k)' = Bits(b, k)
         /\ Open(both)' = Open(b) /\ Full(both)' = Full(b)
         /\ \A v : isOpen(both, v)' <=> isOpen(b, v)
         /\ \A l : room(l, both)' = room(l, b)
         /\ \A l, k : Live(l, both, k)' <=> Live(l, b, k)
<1>1. combos' = combos
  BY SameSetting
<1>2. \A k : Bits(both, k)' = Bits(b, k)
  BY <1>1 DEF Bits
<1>3. Open(both)' = Open(b) /\ Full(both)' = Full(b)
  BY <1>1 DEF Open, Full
<1>4. \A v : isOpen(both, v)' <=> isOpen(b, v)
  BY <1>1 DEF isOpen
<1>5. \A l : room(l, both)' = room(l, b)
  BY <1>2 DEF room
<1>6. \A l, k : Live(l, both, k)' <=> Live(l, b, k)
  BY <1>4, <1>5 DEF Live
<1>7. QED
  BY <1>2, <1>3, <1>4, <1>5, <1>6
\* What the rules are after a step: c are the statics, keys what the system holds.
RulesHold(l, b, c, keys, downs, again) ==
  /\ ActiveKept(l, b, c.rule) /\ RepeatKept(c.rule, c.repeater) /\ PressKept(c.rule, downs)
  /\ Counted(again) => WatchKept(c.rule, c.watchers, downs) /\ TypedKept(c.typed, downs)
  /\ ~again => /\ HeldKept(l, b, c.rule, keys)
               /\ TypingKept(c.rule, c.typing, c.watchers) /\ CountKept(c.rule, c.count)

LEMMA RulesNext ==
  ASSUME setting' = setting, NEW l, NEW b, both' = b, NEW c, rule' = c.rule,
         repeater' = c.repeater, watchers' = c.watchers, count' = c.count,
         told'.typing = c.typing, did'.typed = c.typed, NEW keys, told'.keys = keys,
         NEW downs, did'.downs = downs, NEW again, did'.again = again,
         RulesHold(l, b, c, keys, downs, again)
  PROVE  RulesInv(l)'
<1>1. rules' = rules /\ Given' = Given
  BY SameSetting
<1>2. \A k : Live(l, both, k)' <=> Live(l, b, k)
  BY SamePairs
<1>3. \A r : /\ Overlaid(r)' <=> Overlaid(r)
             /\ Double(r)' <=> Double(r)
             /\ Turns(r)' <=> Turns(r)
             /\ Ignores(r)' <=> Ignores(r)
  BY SameKinds
<1>4. \A r : First(rule, r)' <=> First(c.rule, r)
  BY <1>1, <1>3 DEF First
<1>5. ActiveKept(l, both, rule)'
  BY <1>1, <1>2, <1>3, <1>4 DEF RulesHold, ActiveKept
<1>6. RepeatKept(rule, repeater)'
  BY <1>1, <1>3 DEF RulesHold, RepeatKept
<1>7. PressKept(rule, did.downs)'
  BY <1>1, <1>3 DEF RulesHold, PressKept
<1>8. Counted(did.again)' <=> Counted(again)
  BY <1>1 DEF Counted
<1>9. Counted(again) => WatchKept(rule, watchers, did.downs)' /\ TypedKept(did.typed, did.downs)'
  BY <1>1, <1>3 DEF RulesHold, WatchKept, TypedKept
<1>10. ~again => HeldKept(l, both, rule, told.keys)'
  BY <1>1, <1>2, <1>3 DEF RulesHold, HeldKept
<1>11. ~again => TypingKept(rule, told.typing, watchers)'
  BY <1>1, <1>3 DEF RulesHold, TypingKept
<1>12. ~again => CountKept(rule, count)'
  <2>1. \A f : Acting(rule, f)' = Acting(c.rule, f)
    BY <1>1 DEF Acting
  <2>2. ASSUME ~again PROVE CountKept(rule, count)'
    <3>1. CountKept(c.rule, c.count)
      BY <2>2 DEF RulesHold
    <3>2. QED
      BY <2>1, <3>1 DEF CountKept
  <2>3. QED
    BY <2>2
<1>13. QED
  BY <1>5, <1>6, <1>7, <1>8, <1>9, <1>10, <1>11, <1>12 DEF RulesInv

\* The statics when the rules are asked about e.
Begins(c, e) ==
  /\ c \in Static /\ ~c.taken /\ c.count = count /\ c.watchers = watchers
  /\ c.repeater = repeater /\ c.typing = told.typing /\ c.typed = {}
  /\ \A r \in DOMAIN rules :
       /\ c.rule[r].active = rule[r].active /\ c.rule[r].repeating = rule[r].repeating
       /\ c.rule[r].presses = rule[r].presses /\ c.rule[r].last = rule[r].last
       /\ e.down /\ r \in watchers => c.rule[r].any
       /\ ~e.down \/ r \notin watchers => c.rule[r].any = rule[r].any

LEMMA Begin ==
  ASSUME TypeOK, NEW e \in Event
  PROVE  Begins(watched(Statics, e), e)
<1> DEFINE c == watched(Statics, e)
           seen == [r \in DOMAIN rules |->
                      IF r \in watchers THEN [rule[r] EXCEPT !.any = TRUE] ELSE rule[r]]
<1>1. /\ rule \in [DOMAIN rules -> RuleState] /\ watchers \in SUBSET DOMAIN rules
      /\ repeater \in Repeaters /\ count \in [Modifiers -> Int] /\ told.typing \in SUBSET DOMAIN rules
      /\ e.down \in BOOLEAN
  BY DEF TypeOK, Repeaters, Event
<1>2. Statics \in Static /\ Statics.rule = rule
  BY <1>1 DEF Statics, Static
<1>3. \A r \in DOMAIN rules : /\ rule[r] \in RuleState
                              /\ [rule[r] EXCEPT !.any = TRUE] \in RuleState
  BY <1>1 DEF RuleState
<1>4. seen \in [DOMAIN rules -> RuleState]
  BY <1>3
<1>5. \A r \in DOMAIN rules :
        /\ seen[r].active = rule[r].active /\ seen[r].repeating = rule[r].repeating
        /\ seen[r].presses = rule[r].presses /\ seen[r].last = rule[r].last
        /\ r \in watchers => seen[r].any
        /\ r \notin watchers => seen[r].any = rule[r].any
  BY <1>3 DEF RuleState
<1>6. CASE ~e.down
  <2>1. c = Statics
    BY <1>6 DEF watched
  <2> HIDE DEF seen, c
  <2>2. c \in Static /\ c.rule = rule
    BY <1>2, <2>1
  <2>3. /\ ~c.taken /\ c.count = count /\ c.watchers = watchers
        /\ c.repeater = repeater /\ c.typing = told.typing /\ c.typed = {}
    BY <2>1 DEF Statics
  <2>4. QED
    BY <1>6, <2>2, <2>3 DEF Begins, c
<1>7. CASE e.down
  <2>1. c = [Statics EXCEPT !.rule = seen]
    BY <1>2, <1>7 DEF watched
  <2> HIDE DEF seen, c
  <2>2. c \in Static /\ c.rule = seen
    BY <1>2, <1>4, <2>1 DEF Static
  <2>3. /\ ~c.taken /\ c.count = count /\ c.watchers = watchers
        /\ c.repeater = repeater /\ c.typing = told.typing /\ c.typed = {}
    BY <2>1 DEF Statics
  <2>4. QED
    BY <1>5, <1>7, <2>2, <2>3 DEF Begins, c
<1>8. QED
  BY <1>6, <1>7

\* A step of the rules: x before it, d after it, t the rule that takes the key; the keys
\* of c are down then, and b of the pairs.
Turned(l, c, b, again, x, d, t, e, slow) ==
  /\ e \in Event /\ again \in BOOLEAN /\ (did.again => again)
  /\ Begins(x, e) /\ Answered(x, d, t, e, slow)
  /\ \A k \in AnyKey \ {e.key} : Live(l, both, k) => Live(c, b, k)
  /\ e.down => Live(c, b, e.key) /\ (again \/ ~Live(l, both, e.key))

Downed(e) == IF e.down THEN <<did.downs[2], ruled(e.key)>> ELSE did.downs

LEMMA OtherActive ==
  ASSUME TypeOK, NEW l, RulesInv(l), NEW c, NEW b, NEW again, NEW x, NEW d, NEW t, NEW e, NEW slow,
         Turned(l, c, b, again, x, d, t, e, slow),
         NEW r \in DOMAIN rules, r # t, d.rule[r].active
  PROVE  /\ rule[r].active /\ Turns(r) /\ Live(l, both, rules[r].from) /\ First(rule, r)
         /\ rules[r].from # e.key /\ rules[r].from \in AnyKey
<1>1. Begins(x, e) /\ Answered(x, d, t, e, slow) /\ setting \in Settings
  BY DEF Turned, TypeOK
<1>2. rule[r].active /\ x.rule[r].active
  BY <1>1 DEF Answered, Begins, Alike
<1>3. Turns(r) /\ Live(l, both, rules[r].from) /\ First(rule, r)
  BY <1>2 DEF RulesInv, ActiveKept
<1>4. ASSUME rules[r].from = e.key PROVE FALSE
  <2>1. d.taken /\ (t = 0 \/ t <= r)
    BY <1>1, <1>2, <1>3, <1>4 DEF Answered
  <2>2. CASE t = 0
    <3>1. PICK o \in DOMAIN rules : Ignores(o) /\ rules[o].from = e.key /\ x.rule[o].last = e.key
      BY <1>1, <2>1, <2>2 DEF Answered
    <3>2. rule[o].last = rules[r].from
      BY <1>1, <1>4, <3>1 DEF Begins
    <3>3. QED
      BY <1>3, <1>4, <3>1, <3>2 DEF First
  <2>3. CASE t # 0
    <3>1. t \in DOMAIN rules /\ Turns(t) /\ rules[t].from = e.key
      BY <1>1, <2>3 DEF Answered
    <3>2. r <= t
      BY <1>3, <1>4, <3>1 DEF First
    <3>3. r \in Nat /\ t \in Nat
      BY <1>1, <3>1, SettingIs
    <3>4. QED
      BY <2>1, <2>3, <3>2, <3>3
  <2>4. QED
    BY <2>2, <2>3
<1>5. rules[r].from \in AnyKey
  BY <1>1, SettingIs
<1>6. QED
  BY <1>2, <1>3, <1>4, <1>5

LEMMA TakerIs ==
  ASSUME TypeOK, NEW l, NEW c, NEW b, NEW again, NEW x, NEW d, NEW t, NEW e, NEW slow,
         Turned(l, c, b, again, x, d, t, e, slow), t # 0
  PROVE  /\ t \in DOMAIN rules /\ Turns(t) /\ rules[t].from = e.key /\ d.taken
         /\ ruled(e.key) = rules[t].from /\ Effect(x, d, t, e, slow)
         /\ d.rule[t].active = e.down /\ (e.down \/ rule[t].active)
         /\ (Overlaid(t) <=> ~Double(t)) /\ ~Ignores(t) /\ e.down \in BOOLEAN
<1>1. Begins(x, e) /\ Answered(x, d, t, e, slow) /\ setting \in Settings /\ e \in Event
  BY DEF Turned, TypeOK
<1>2. /\ t \in DOMAIN rules /\ Turns(t) /\ rules[t].from = e.key /\ d.taken
      /\ Effect(x, d, t, e, slow) /\ (e.down \/ x.rule[t].active)
  BY <1>1 DEF Answered
<1>3. d.rule[t].active = e.down /\ x.rule[t].active = rule[t].active
  BY <1>1, <1>2 DEF Effect, Begins
<1>4. ruled(e.key) = rules[t].from
  BY <1>2 DEF ruled
<1>5. (Overlaid(t) <=> ~Double(t)) /\ ~Ignores(t)
  BY <1>1, <1>2, RuleTypes DEF Turns
<1>6. e.down \in BOOLEAN
  BY <1>1 DEF Event
<1>7. QED
  BY <1>2, <1>3, <1>4, <1>5, <1>6

LEMMA ActiveTurned ==
  ASSUME TypeOK, NEW l, RulesInv(l), NEW c, NEW b, NEW again, NEW x, NEW d, NEW t, NEW e, NEW slow,
         Turned(l, c, b, again, x, d, t, e, slow)
  PROVE  ActiveKept(c, b, d.rule)
<1>1. Begins(x, e) /\ Answered(x, d, t, e, slow) /\ setting \in Settings /\ e \in Event
  BY DEF Turned, TypeOK
<1>2. SUFFICES ASSUME NEW r \in DOMAIN rules, d.rule[r].active
               PROVE  Turns(r) /\ Live(c, b, rules[r].from) /\ First(d.rule, r)
  BY DEF ActiveKept
<1>3. rules[r].from \in AnyKey /\ rules[r].from # NONE /\ r # 0
  BY <1>1, SettingIs, GesturesConstants DEF AnyKey
<1>4. CASE r = t
  <2>1. e.down /\ Turns(t) /\ rules[t].from = e.key /\ d.taken
    BY <1>2, <1>3, <1>4, TakerIs
  <2>2. Live(c, b, rules[r].from)
    BY <1>4, <2>1 DEF Turned
  <2>3. ASSUME NEW o \in DOMAIN rules, rules[o].from = rules[r].from
        PROVE  (Turns(o) => r <= o) /\ (Ignores(o) => d.rule[o].last # rules[r].from)
    BY <1>1, <1>3, <1>4, <2>1, <2>3 DEF Answered
  <2>4. QED
    BY <1>4, <2>1, <2>2, <2>3 DEF First
<1>5. CASE r # t
  <2>1. /\ Turns(r) /\ Live(l, both, rules[r].from) /\ First(rule, r) /\ rules[r].from # e.key
    BY <1>2, <1>5, OtherActive
  <2>2. Live(c, b, rules[r].from)
    BY <1>3, <2>1 DEF Turned
  <2>3. ASSUME NEW o \in DOMAIN rules, rules[o].from = rules[r].from
        PROVE  (Turns(o) => r <= o) /\ (Ignores(o) => d.rule[o].last # rules[r].from)
    <3>1. Turns(o) => r <= o
      BY <2>1, <2>3 DEF First
    <3>2. Ignores(o) => rule[o].last # rules[r].from
      BY <2>1, <2>3 DEF First
    <3>3. Ignores(o) => d.rule[o].last \in {NONE, e.key, rule[o].last}
      BY <1>1 DEF Answered, Begins
    <3>4. QED
      BY <1>3, <2>1, <3>1, <3>2, <3>3
  <2>4. QED
    BY <2>1, <2>2, <2>3 DEF First
<1>6. QED
  BY <1>4, <1>5

LEMMA RepeatTurned ==
  ASSUME TypeOK, NEW l, RulesInv(l), NEW c, NEW b, NEW again, NEW x, NEW d, NEW t, NEW e, NEW slow,
         Turned(l, c, b, again, x, d, t, e, slow)
  PROVE  RepeatKept(d.rule, d.repeater)
<1> DEFINE o == repeater.target
<1>1. Begins(x, e) /\ Answered(x, d, t, e, slow) /\ setting \in Settings
  BY DEF Turned, TypeOK
<1>2. x.repeater = repeater /\ repeater \in Repeaters
  BY <1>1 DEF Begins, TypeOK, Repeaters
<1>3. ASSUME d.repeater = repeater, repeater.armed, t = 0 \/ Double(t) \/ d.rule[t].active
      PROVE  RepeatKept(d.rule, d.repeater)
  <2>1. o # 0 /\ Overlaid(o) /\ rule[o].active
    BY <1>3 DEF RulesInv, RepeatKept
  <2>2. o \in DOMAIN rules
    BY <1>2, <2>1 DEF Repeaters
  <2>3. d.rule[o].active
    <3>1. CASE o = t
      <4>1. ~Double(t)
        BY <1>1, <2>1, <2>2, <3>1, RuleTypes
      <4>2. QED
        BY <1>3, <2>1, <3>1, <4>1
    <3>2. CASE o # t
      <4>1. d.rule[o].active = x.rule[o].active
        BY <1>1, <2>2, <3>2 DEF Answered, Alike
      <4>2. QED
        BY <1>1, <2>1, <2>2, <4>1 DEF Begins
    <3>3. QED
      BY <3>1, <3>2
  <2>4. QED
    BY <1>3, <2>1, <2>3 DEF RepeatKept
<1>4. CASE t = 0
  <2>1. d.repeater = repeater
    BY <1>1, <1>2, <1>4 DEF Answered, Unmoved
  <2>2. QED
    BY <1>3, <1>4, <2>1 DEF RepeatKept
<1>5. CASE t # 0
  <2>1. /\ t \in DOMAIN rules /\ Turns(t) /\ Effect(x, d, t, e, slow)
        /\ d.rule[t].active = e.down /\ (Overlaid(t) <=> ~Double(t))
    BY <1>5, TakerIs
  <2>2. CASE Double(t)
    <3>1. d.repeater = repeater
      BY <1>2, <2>1, <2>2 DEF Effect, DoubleTurn
    <3>2. QED
      BY <1>3, <2>2, <3>1 DEF RepeatKept
  <2>3. CASE Overlaid(t) /\ e.down
    <3>1. d.repeater = IF rules[t].repeat THEN [target |-> t, armed |-> TRUE] ELSE repeater
      BY <1>2, <2>1, <2>3 DEF Effect, OverlaidDown
    <3>2. CASE rules[t].repeat
      <4>1. d.repeater.target = t
        BY <3>1, <3>2
      <4>2. Overlaid(t) /\ d.rule[t].active
        BY <2>1, <2>3
      <4>3. QED
        BY <1>5, <4>1, <4>2 DEF RepeatKept
    <3>3. CASE ~rules[t].repeat
      BY <1>3, <2>1, <2>3, <3>1, <3>3 DEF RepeatKept
    <3>4. QED
      BY <3>2, <3>3
  <2>4. CASE Overlaid(t) /\ ~e.down
    BY <2>1, <2>4 DEF Effect, OverlaidUp, RepeatKept
  <2>5. QED
    BY <2>1, <2>2, <2>3, <2>4
<1>6. QED
  BY <1>4, <1>5

LEMMA PressTurned ==
  ASSUME TypeOK, NEW l, RulesInv(l), NEW c, NEW b, NEW again, NEW x, NEW d, NEW t, NEW e, NEW slow,
         Turned(l, c, b, again, x, d, t, e, slow)
  PROVE  PressKept(d.rule, Downed(e))
<1>1. Begins(x, e) /\ Answered(x, d, t, e, slow) /\ setting \in Settings /\ did.downs = <<did.downs[1], did.downs[2]>>
  BY DEF Turned, TypeOK
<1>2. SUFFICES ASSUME NEW r \in DOMAIN rules
               PROVE  /\ d.rule[r].presses >= 1 => Double(r) /\ Downed(e)[2] = rules[r].from
                      /\ d.rule[r].presses >= 2 => Downed(e)[1] = rules[r].from
  BY DEF PressKept
<1>3. /\ rule[r].presses >= 1 => Double(r) /\ did.downs[2] = rules[r].from
      /\ rule[r].presses >= 2 => did.downs[1] = rules[r].from
      /\ rule[r].presses \in Nat /\ x.rule[r].presses = rule[r].presses /\ r # 0
  BY <1>1, SettingIs DEF RulesInv, PressKept, TypeOK, RuleState, Begins
<1>4. CASE r # t
  <2>1. d.rule[r].presses = IF Double(r) THEN 0 ELSE rule[r].presses
    BY <1>1, <1>3, <1>4 DEF Answered
  <2>2. QED
    BY <1>3, <2>1
<1>5. CASE r = t
  <2>1. /\ Effect(x, d, t, e, slow) /\ (Overlaid(t) <=> ~Double(t)) /\ ruled(e.key) = rules[t].from
    BY <1>3, <1>5, TakerIs
  <2>2. CASE Overlaid(t)
    <3>1. d.rule[t].presses = x.rule[t].presses
      BY <2>1, <2>2 DEF Effect, OverlaidDown, OverlaidUp
    <3>2. QED
      BY <1>3, <1>5, <2>1, <2>2, <3>1
  <2>3. CASE Double(t) /\ e.down
    <3>1. d.rule[t].presses = (IF slow THEN 0 ELSE rule[t].presses) + 1
      BY <1>3, <1>5, <2>1, <2>3 DEF Effect, DoubleTurn
    <3>2. Downed(e)[1] = did.downs[2] /\ Downed(e)[2] = rules[t].from
      BY <2>1, <2>3 DEF Downed
    <3>3. d.rule[t].presses >= 2 => rule[t].presses >= 1
      BY <1>3, <1>5, <3>1
    <3>4. QED
      BY <1>3, <1>5, <2>3, <3>2, <3>3
  <2>4. CASE Double(t) /\ ~e.down
    <3>1. d.rule[t].presses \in {0, rule[t].presses}
      BY <1>3, <1>5, <2>1, <2>4 DEF Effect, DoubleTurn
    <3>2. Downed(e) = did.downs
      BY <2>4 DEF Downed
    <3>3. QED
      BY <1>3, <1>5, <3>1, <3>2
  <2>5. QED
    BY <2>1, <2>2, <2>3, <2>4
<1>6. QED
  BY <1>4, <1>5

LEMMA WatchTurned ==
  ASSUME TypeOK, NEW l, RulesInv(l), NEW c, NEW b, NEW again, NEW x, NEW d, NEW t, NEW e, NEW slow,
         Turned(l, c, b, again, x, d, t, e, slow), Counted(did.again)
  PROVE  WatchKept(d.rule, d.watchers, Downed(e))
<1>1. Begins(x, e) /\ Answered(x, d, t, e, slow) /\ setting \in Settings
      /\ did.downs = <<did.downs[1], did.downs[2]>> /\ WatchKept(rule, watchers, did.downs)
  BY DEF Turned, TypeOK, RulesInv
<1>2. SUFFICES ASSUME NEW r \in DOMAIN rules, Overlaid(r), d.rule[r].active
               PROVE  r \in d.watchers /\ (d.rule[r].any <=> Downed(e)[2] # rules[r].from)
  BY DEF WatchKept
<1>3. r # 0
  BY <1>1, SettingIs
<1>4. CASE r = t
  <2>1. Effect(x, d, t, e, slow) /\ e.down /\ ruled(e.key) = rules[t].from
    BY <1>2, <1>3, <1>4, TakerIs
  <2>2. t \in d.watchers /\ d.rule[t].any = FALSE
    BY <1>2, <1>4, <2>1 DEF Effect, OverlaidDown
  <2>3. Downed(e)[2] = rules[t].from
    BY <2>1 DEF Downed
  <2>4. QED
    BY <1>4, <2>2, <2>3
<1>5. CASE r # t
  <2>1. rule[r].active /\ rules[r].from # e.key /\ rules[r].from # NONE
    <3>1. rules[r].from \in AnyKey /\ rule[r].active /\ rules[r].from # e.key
      BY <1>2, <1>5, OtherActive
    <3>2. QED
      BY <3>1, GesturesConstants DEF AnyKey
  <2>2. r \in watchers /\ (rule[r].any <=> did.downs[2] # rules[r].from)
    BY <1>1, <1>2, <2>1 DEF WatchKept
  <2>3. d.rule[r].any = x.rule[r].any
    BY <1>1, <1>5 DEF Answered, Alike
  <2>4. r \in d.watchers
    <3>1. r \in x.watchers
      BY <1>1, <2>2 DEF Begins
    <3>2. CASE t = 0
      BY <1>1, <3>1, <3>2 DEF Answered, Unmoved
    <3>3. CASE t # 0
      <4>1. Effect(x, d, t, e, slow) /\ (Overlaid(t) <=> ~Double(t))
        BY <3>3, TakerIs
      <4>2. d.watchers \in {x.watchers, x.watchers \cup {t}, x.watchers \ {t}}
        BY <4>1 DEF Effect, OverlaidDown, OverlaidUp, DoubleTurn
      <4>3. QED
        BY <1>5, <3>1, <4>2
    <3>4. QED
      BY <3>2, <3>3
  <2>5. CASE e.down
    <3>1. x.rule[r].any
      BY <1>1, <2>2, <2>5 DEF Begins
    <3>2. Downed(e)[2] \in {NONE, e.key}
      BY <2>5 DEF Downed, ruled
    <3>3. QED
      BY <2>1, <2>3, <2>4, <3>1, <3>2
  <2>6. CASE ~e.down
    <3>1. x.rule[r].any = rule[r].any
      BY <1>1, <2>6 DEF Begins
    <3>2. Downed(e) = did.downs
      BY <2>6 DEF Downed
    <3>3. QED
      BY <2>2, <2>3, <2>4, <3>1, <3>2
  <2>7. QED
    BY <2>5, <2>6
<1>6. QED
  BY <1>4, <1>5

\* The rule that takes the key types, if any, and only when it comes up.
LEMMA TypedTurned ==
  ASSUME TypeOK, NEW l, RulesInv(l), NEW c, NEW b, NEW again, NEW x, NEW d, NEW t, NEW e, NEW slow,
         Turned(l, c, b, again, x, d, t, e, slow), Counted(did.again)
  PROVE  TypedKept(d.typed, did.downs) /\ TypedKept(d.typed, Downed(e))
<1>1. Begins(x, e) /\ Answered(x, d, t, e, slow) /\ setting \in Settings
      /\ WatchKept(rule, watchers, did.downs)
  BY DEF Turned, TypeOK, RulesInv
<1>2. x.typed = {}
  BY <1>1 DEF Begins
<1>3. SUFFICES ASSUME NEW r \in d.typed
               PROVE  ~e.down /\ did.downs[2] = rules[r].from /\ (Double(r) => did.downs[1] = rules[r].from)
  BY DEF TypedKept, Downed
<1>4. t # 0
  BY <1>1, <1>2, <1>3 DEF Answered, Unmoved
<1>5. /\ t \in DOMAIN rules /\ Effect(x, d, t, e, slow) /\ (Overlaid(t) <=> ~Double(t))
      /\ (e.down \/ rule[t].active)
  BY <1>4, TakerIs
<1>6. ~e.down
  BY <1>2, <1>3, <1>5 DEF Effect, OverlaidDown, DoubleTurn
<1>7. CASE Overlaid(t)
  <2>1. r = t /\ ~x.rule[t].any
    BY <1>2, <1>3, <1>5, <1>6, <1>7 DEF Effect, OverlaidUp
  <2>2. x.rule[t].any = rule[t].any
    BY <1>1, <1>5, <1>6 DEF Begins
  <2>3. did.downs[2] = rules[t].from
    BY <1>1, <1>5, <1>6, <1>7, <2>1, <2>2 DEF WatchKept
  <2>4. QED
    BY <1>5, <1>6, <1>7, <2>1, <2>3
<1>8. CASE Double(t)
  <2>1. r = t /\ (IF slow THEN 0 ELSE x.rule[t].presses) >= 2
    BY <1>2, <1>3, <1>5, <1>6, <1>8 DEF Effect, DoubleTurn
  <2>2. x.rule[t].presses = rule[t].presses /\ rule[t].presses \in Nat
    BY <1>1, <1>5 DEF Begins, TypeOK, RuleState
  <2>3. rule[t].presses >= 2 /\ rule[t].presses >= 1
    BY <2>1, <2>2
  <2>4. QED
    BY <1>5, <1>6, <2>1, <2>3 DEF RulesInv, PressKept
<1>9. QED
  BY <1>5, <1>7, <1>8

\* Where no pair was pressed while its target was down, a rule that takes a press was
\* not active.
LEMMA TakesOnce ==
  ASSUME TypeOK, NEW l, RulesInv(l), NEW c, NEW b, NEW again, NEW x, NEW d, NEW t, NEW e, NEW slow,
         Turned(l, c, b, again, x, d, t, e, slow), ~again, t # 0
  PROVE  rule[t].active <=> ~e.down
<1>1. t \in DOMAIN rules /\ rules[t].from = e.key /\ (e.down \/ rule[t].active)
  BY TakerIs
<1>2. ASSUME e.down PROVE ~rule[t].active
  <2>1. ~Live(l, both, e.key)
    BY <1>2 DEF Turned
  <2>2. QED
    BY <1>1, <2>1 DEF RulesInv, ActiveKept
<1>3. QED
  BY <1>1, <1>2

LEMMA HeldTurned ==
  ASSUME TypeOK, NEW l, RulesInv(l), NEW c, NEW b, NEW again, NEW x, NEW d, NEW t, NEW e, NEW slow,
         Turned(l, c, b, again, x, d, t, e, slow), ~again
  PROVE  HeldKept(c, b, d.rule, passed(d, e))
<1>1. Begins(x, e) /\ Answered(x, d, t, e, slow) /\ setting \in Settings /\ e \in Event /\ ~did.again
      /\ told.keys \in SUBSET AnyKey
  BY DEF Turned, TypeOK
<1>2. HeldKept(l, both, rule, told.keys)
  BY <1>1 DEF RulesInv
<1>3. \A o \in DOMAIN rules : Ignores(o) => d.rule[o].last \in {NONE, e.key, rule[o].last}
  BY <1>1 DEF Answered, Begins
<1>4. SUFFICES ASSUME NEW k \in passed(d, e)
               PROVE  /\ Live(c, b, k)
                      /\ \A o \in DOMAIN rules : rules[o].from = k =>
                           ~Turns(o) /\ (Ignores(o) => d.rule[o].last # k)
  BY DEF HeldKept
<1>5. CASE k # e.key
  <2>1. k \in told.keys
    BY <1>4, <1>5 DEF passed
  <2>2. k \in AnyKey /\ k # NONE
    BY <1>1, <2>1, GesturesConstants DEF AnyKey
  <2>3. Live(l, both, k)
    BY <1>2, <2>1 DEF HeldKept
  <2>4. Live(c, b, k)
    BY <1>5, <2>2, <2>3 DEF Turned
  <2>5. QED
    BY <1>2, <1>3, <1>5, <2>1, <2>2, <2>4 DEF HeldKept
<1>6. CASE k = e.key
  <2>1. ~d.taken
    <3>1. SUFFICES ASSUME d.taken PROVE FALSE
      OBVIOUS
    <3>2. k \in told.keys
      BY <1>4, <3>1 DEF passed
    <3>3. t = 0
      BY <1>2, <1>6, <3>2, TakerIs DEF HeldKept
    <3>4. PICK o \in DOMAIN rules : Ignores(o) /\ rules[o].from = e.key /\ x.rule[o].last = e.key
      BY <1>1, <3>1, <3>3 DEF Answered
    <3>5. rule[o].last = e.key
      BY <1>1, <3>4 DEF Begins
    <3>6. QED
      BY <1>2, <1>6, <3>2, <3>4, <3>5 DEF HeldKept
  <2>2. e.down
    BY <1>4, <1>6, <2>1 DEF passed
  <2>3. Live(c, b, k)
    BY <1>6, <2>2 DEF Turned
  <2>4. QED
    BY <1>1, <1>6, <2>1, <2>2, <2>3 DEF Answered
<1>7. QED
  BY <1>5, <1>6

\* The rules that type, of those that did, and those that watch, with the rule that takes
\* the key.
LEMMA TypingIs ==
  ASSUME TypeOK, NEW l, NEW c, NEW b, NEW again, NEW x, NEW d, NEW t, NEW e, NEW slow,
         Turned(l, c, b, again, x, d, t, e, slow)
  PROVE  /\ d.typing \subseteq told.typing
         /\ d.watchers \subseteq watchers \cup {t}
         /\ t \in d.watchers => t \in watchers \/ Overlaid(t)
         /\ t # 0 /\ Overlaid(t) => (rule[t].repeating => t \notin d.typing \/ e.down)
         /\ t # 0 /\ Overlaid(t) /\ ~e.down /\ ~rule[t].repeating => t \notin d.watchers
         /\ t # 0 /\ ~e.down => d.rule[t].repeating = rule[t].repeating
<1>1. Begins(x, e) /\ Answered(x, d, t, e, slow)
  BY DEF Turned
<1>2. x.typing = told.typing /\ x.watchers = watchers
  BY <1>1 DEF Begins
<1>3. CASE t = 0
  <2>1. d.typing = told.typing /\ d.watchers = watchers
    BY <1>1, <1>2, <1>3 DEF Answered, Unmoved
  <2>2. QED
    BY <1>3, <2>1
<1>4. CASE t # 0
  <2>1. t \in DOMAIN rules /\ Effect(x, d, t, e, slow) /\ (Overlaid(t) <=> ~Double(t))
    BY <1>4, TakerIs
  <2>2. x.rule[t].repeating = rule[t].repeating
    BY <1>1, <2>1 DEF Begins
  <2>3. CASE Double(t)
    <3>1. /\ d.typing = told.typing /\ d.watchers = watchers
          /\ d.rule[t].repeating = rule[t].repeating
      BY <1>2, <2>1, <2>2, <2>3 DEF Effect, DoubleTurn
    <3>2. QED
      BY <2>1, <2>3, <3>1
  <2>4. CASE Overlaid(t) /\ e.down
    <3>1. d.typing = told.typing /\ d.watchers = watchers \cup {t}
      BY <1>2, <2>1, <2>4 DEF Effect, OverlaidDown
    <3>2. QED
      BY <2>4, <3>1
  <2>5. CASE Overlaid(t) /\ ~e.down
    <3>1. OverlaidUp(x, d, t)
      BY <2>1, <2>5 DEF Effect
    <3>2. d.rule[t].repeating = rule[t].repeating
      BY <2>2, <3>1 DEF OverlaidUp
    <3>3. CASE rule[t].repeating
      <4>1. d.typing = told.typing \ {t} /\ d.watchers = watchers
        BY <1>2, <2>2, <3>1, <3>3 DEF OverlaidUp
      <4>2. QED
        BY <2>5, <3>2, <3>3, <4>1
    <3>4. CASE ~rule[t].repeating
      <4>1. d.typing = told.typing /\ d.watchers = watchers \ {t}
        BY <1>2, <2>2, <3>1, <3>4 DEF OverlaidUp
      <4>2. QED
        BY <2>5, <3>2, <3>4, <4>1
    <3>5. QED
      BY <3>3, <3>4
  <2>6. QED
    BY <2>1, <2>3, <2>4, <2>5
<1>5. QED
  BY <1>3, <1>4

LEMMA TypingTurned ==
  ASSUME TypeOK, NEW l, RulesInv(l), NEW c, NEW b, NEW again, NEW x, NEW d, NEW t, NEW e, NEW slow,
         Turned(l, c, b, again, x, d, t, e, slow), ~again
  PROVE  TypingKept(d.rule, d.typing, d.watchers)
<1>1. Begins(x, e) /\ Answered(x, d, t, e, slow) /\ setting \in Settings /\ ~did.again
      /\ told.typing \in SUBSET DOMAIN rules /\ watchers \in SUBSET DOMAIN rules
  BY DEF Turned, TypeOK
<1>2. TypingKept(rule, told.typing, watchers)
  BY <1>1 DEF RulesInv
<1>3. \A r \in DOMAIN rules \ {t} :
        d.rule[r].active = rule[r].active /\ d.rule[r].repeating = rule[r].repeating
  BY <1>1 DEF Answered, Alike, Begins
<1>4. ASSUME NEW r \in d.typing
      PROVE  Overlaid(r) /\ d.rule[r].active /\ d.rule[r].repeating
  <2>1. r \in told.typing /\ r \in DOMAIN rules /\ r # 0
    BY <1>1, TypingIs, SettingIs
  <2>2. Overlaid(r) /\ rule[r].active /\ rule[r].repeating
    BY <1>2, <2>1 DEF TypingKept
  <2>3. r # t
    <3>1. SUFFICES ASSUME r = t PROVE FALSE
      OBVIOUS
    <3>2. ~e.down
      BY <2>1, <2>2, <3>1, TakesOnce
    <3>3. QED
      BY <2>1, <2>2, <3>1, <3>2, TypingIs
  <2>4. QED
    BY <1>3, <2>1, <2>2, <2>3
<1>5. ASSUME NEW r \in d.watchers
      PROVE  Overlaid(r) /\ (d.rule[r].repeating \/ d.rule[r].active)
  <2>1. r \in DOMAIN rules /\ r # 0
    BY <1>1, SettingIs DEF Answered, Static
  <2>2. CASE r # t
    <3>1. r \in watchers
      BY <2>2, TypingIs
    <3>2. QED
      BY <1>2, <1>3, <2>1, <2>2, <3>1 DEF TypingKept
  <2>3. CASE r = t
    <3>1. Overlaid(t)
      BY <1>2, <2>3, TypingIs DEF TypingKept
    <3>2. CASE e.down
      <4>1. d.rule[t].active
        BY <2>1, <2>3, <3>2, TakerIs
      <4>2. QED
        BY <2>3, <3>1, <4>1
    <3>3. CASE ~e.down
      <4>1. rule[t].repeating /\ d.rule[t].repeating = rule[t].repeating
        BY <2>1, <2>3, <3>1, <3>3, TypingIs
      <4>2. QED
        BY <2>3, <3>1, <4>1
    <3>4. QED
      BY <3>2, <3>3
  <2>4. QED
    BY <2>2, <2>3
<1>6. QED
  BY <1>4, <1>5 DEF TypingKept

LEMMA ActingFinite ==
  ASSUME setting \in Settings, NEW ru, NEW f
  PROVE  IsFiniteSet(Acting(ru, f)) /\ Cardinality(Acting(ru, f)) \in Nat
<1>1. IsFiniteSet(DOMAIN rules)
  BY SettingIs, FS_Interval
<1>2. Acting(ru, f) \subseteq DOMAIN rules
  BY DEF Acting
<1>3. QED
  BY <1>1, <1>2, FS_Subset, FS_CardinalityType

LEMMA CountTurned ==
  ASSUME TypeOK, NEW l, RulesInv(l), NEW c, NEW b, NEW again, NEW x, NEW d, NEW t, NEW e, NEW slow,
         Turned(l, c, b, again, x, d, t, e, slow), ~again
  PROVE  CountKept(d.rule, d.count)
<1>1. Begins(x, e) /\ Answered(x, d, t, e, slow) /\ setting \in Settings /\ ~did.again
      /\ count \in [Modifiers -> Int]
  BY DEF Turned, TypeOK
<1>2. CountKept(rule, count) /\ x.count = count
  BY <1>1 DEF RulesInv, Begins
<1>3. \A r \in DOMAIN rules \ {t} : d.rule[r].active = rule[r].active
  BY <1>1 DEF Answered, Alike, Begins
<1>4. SUFFICES ASSUME NEW f \in Modifiers PROVE d.count[f] = Cardinality(Acting(d.rule, f))
  BY DEF CountKept
<1>5. count[f] = Cardinality(Acting(rule, f)) /\ count[f] \in Int
  BY <1>1, <1>2 DEF CountKept
<1>6. CASE t = 0 \/ rules[t].to # f
  <2>1. Acting(d.rule, f) = Acting(rule, f)
    <3>1. ~(0 \in DOMAIN rules)
      BY <1>1, SettingIs
    <3>2. QED
      BY <1>3, <1>6, <3>1 DEF Acting
  <2>2. d.count[f] = count[f]
    <3>1. CASE t = 0
      BY <1>1, <1>2, <3>1 DEF Answered, Unmoved
    <3>2. CASE t # 0
      <4>1. d.count = [count EXCEPT ![rules[t].to] = IF e.down THEN @ + 1 ELSE @ - 1]
        BY <1>2, <3>2, TakerIs DEF Effect
      <4>2. QED
        BY <1>1, <1>6, <3>2, <4>1
    <3>3. QED
      BY <3>1, <3>2
  <2>3. QED
    BY <1>5, <2>1, <2>2
<1>7. CASE t # 0 /\ rules[t].to = f
  <2>1. /\ t \in DOMAIN rules /\ d.rule[t].active = e.down /\ (rule[t].active <=> ~e.down)
        /\ d.count = [count EXCEPT ![rules[t].to] = IF e.down THEN @ + 1 ELSE @ - 1]
    <3>1. t \in DOMAIN rules /\ d.rule[t].active = e.down
      BY <1>7, TakerIs
    <3>2. rule[t].active <=> ~e.down
      BY <1>7, TakesOnce
    <3>3. d.count = [count EXCEPT ![rules[t].to] = IF e.down THEN @ + 1 ELSE @ - 1]
      <4>1. Effect(x, d, t, e, slow)
        BY <1>7, TakerIs
      <4>2. d.count = [x.count EXCEPT ![rules[t].to] = IF e.down THEN @ + 1 ELSE @ - 1]
        BY <4>1 DEF Effect
      <4>3. QED
        BY <1>2, <4>2
    <3>4. QED
      BY <3>1, <3>2, <3>3
  <2>2. d.count[f] = IF e.down THEN count[f] + 1 ELSE count[f] - 1
    BY <1>1, <1>7, <2>1
  <2>3. CASE e.down
    <3>1. Acting(d.rule, f) = Acting(rule, f) \cup {t} /\ t \notin Acting(rule, f)
      BY <1>3, <1>7, <2>1, <2>3 DEF Acting
    <3>2. Cardinality(Acting(d.rule, f)) = Cardinality(Acting(rule, f)) + 1
      BY <1>1, <3>1, ActingFinite, FS_AddElement
    <3>3. QED
      BY <1>5, <2>2, <2>3, <3>2
  <2>4. CASE ~e.down
    <3>1. Acting(rule, f) = Acting(d.rule, f) \cup {t} /\ t \notin Acting(d.rule, f)
      BY <1>3, <1>7, <2>1, <2>4 DEF Acting
    <3>2. /\ Cardinality(Acting(rule, f)) = Cardinality(Acting(d.rule, f)) + 1
          /\ Cardinality(Acting(d.rule, f)) \in Nat
      BY <1>1, <3>1, ActingFinite, FS_AddElement
    <3>3. QED
      BY <1>5, <2>2, <2>4, <3>2
  <2>5. QED
    BY <2>3, <2>4
<1>8. QED
  BY <1>6, <1>7

LEMMA RulesTurned ==
  ASSUME TypeOK, NEW l, RulesInv(l), NEW c, NEW b, NEW again, NEW x, NEW d, NEW t, NEW e, NEW slow,
         Turned(l, c, b, again, x, d, t, e, slow)
  PROVE  RulesHold(c, b, d, passed(d, e), Downed(e), again)
<1>1. Counted(again) => Counted(did.again)
  BY DEF Turned, Counted
<1>2. ActiveKept(c, b, d.rule)
  BY ActiveTurned
<1>3. RepeatKept(d.rule, d.repeater)
  BY RepeatTurned
<1>4. PressKept(d.rule, Downed(e))
  BY PressTurned
<1>5. Counted(again) => WatchKept(d.rule, d.watchers, Downed(e))
  BY <1>1, WatchTurned
<1>6. Counted(again) => TypedKept(d.typed, Downed(e))
  BY <1>1, TypedTurned
<1>7. ~again => HeldKept(c, b, d.rule, passed(d, e))
  BY HeldTurned
<1>8. ~again => TypingKept(d.rule, d.typing, d.watchers)
  BY TypingTurned
<1>9. ~again => CountKept(d.rule, d.count)
  BY CountTurned
<1>10. QED
  BY <1>2, <1>3, <1>4, <1>5, <1>6, <1>7, <1>8, <1>9 DEF RulesHold

\* Where the held keys are counted, none is live when there is none.
LEMMA NoneLive ==
  ASSUME setting \in Settings, NEW c, NEW b \in Sides, room(c, b) \in [Keys -> Nat],
         IsFiniteSet(Free(room(c, b))), Cardinality(Free(room(c, b))) + Cardinality(Open(b)) <= 0,
         NEW k \in AnyKey
  PROVE  ~Live(c, b, k)
<1>1. Cardinality(Free(room(c, b))) \in Nat /\ Cardinality(Open(b)) \in Nat
  BY FreeSize, PairsFinite
<1>2. Cardinality(Free(room(c, b))) = 0 /\ Cardinality(Open(b)) = 0
  BY <1>1
<1>3. CASE k \in Keys
  <2>1. ~(room(c, b)[k] >= 1)
    BY <1>2, <1>3, FreeSize
  <2>2. QED
    BY <1>3, <2>1 DEF Live
<1>4. CASE k \notin Keys
  <2>1. Open(b) = {}
    BY <1>2, PairsFinite, FS_EmptySet
  <2>2. k # NONE
    BY GesturesConstants DEF AnyKey
  <2>3. ~isOpen(b, k)
    BY <2>1, <2>2 DEF Open, isOpen
  <2>4. QED
    BY <1>4, <2>3 DEF Live
<1>5. QED
  BY <1>3, <1>4

LEMMA FlushIs ==
  ASSUME NEW d \in Static
  PROVE  /\ flush(d) \in Static /\ flush(d).rule = d.rule /\ flush(d).repeater = d.repeater
         /\ flush(d).watchers = {} /\ flush(d).count = [f \in Modifiers |-> 0]
         /\ flush(d).typing = {} /\ flush(d).typed = d.typed
<1> DEFINE z == [f \in Modifiers |-> 0]
<1>1. z \in [Modifiers -> Int]
  OBVIOUS
<1>2. flush(d) = [d EXCEPT !.watchers = {}, !.count = z, !.typing = {}]
  BY DEF flush
<1> HIDE DEF z
<1>3. /\ flush(d) \in Static /\ flush(d).rule = d.rule /\ flush(d).repeater = d.repeater
      /\ flush(d).watchers = {} /\ flush(d).count = z
      /\ flush(d).typing = {} /\ flush(d).typed = d.typed
  BY <1>1, <1>2 DEF Static
<1>4. QED
  BY <1>3 DEF z

LEMMA Flushed ==
  ASSUME setting \in Settings, NEW c, NEW b, NEW d \in Static, NEW keys, NEW downs, NEW again,
         RulesHold(c, b, d, keys, downs, again),
         Counted(again) => \A k \in AnyKey : ~Live(c, b, k)
  PROVE  RulesHold(c, b, flush(d), {}, downs, again)
<1> DEFINE g == flush(d)
<1>1. /\ g.rule = d.rule /\ g.repeater = d.repeater /\ g.watchers = {}
      /\ g.count = [f \in Modifiers |-> 0] /\ g.typing = {} /\ g.typed = d.typed
  BY FlushIs
<1> HIDE DEF g
<1>2. ASSUME Counted(again), NEW r \in DOMAIN rules PROVE ~d.rule[r].active
  <2>1. rules[r].from \in AnyKey
    BY SettingIs
  <2>2. QED
    BY <1>2, <2>1 DEF RulesHold, ActiveKept
<1>3. ~again => Counted(again)
  BY DEF Counted
<1>4. ActiveKept(c, b, g.rule) /\ RepeatKept(g.rule, g.repeater) /\ PressKept(g.rule, downs)
  BY <1>1 DEF RulesHold
<1>5. Counted(again) => WatchKept(g.rule, g.watchers, downs) /\ TypedKept(g.typed, downs)
  BY <1>1, <1>2 DEF RulesHold, WatchKept
<1>6. HeldKept(c, b, g.rule, {}) /\ TypingKept(g.rule, g.typing, g.watchers)
  BY <1>1 DEF HeldKept, TypingKept
<1>7. ASSUME ~again PROVE CountKept(g.rule, g.count)
  <2>1. ASSUME NEW f \in Modifiers PROVE g.count[f] = Cardinality(Acting(g.rule, f))
    <3>1. Acting(g.rule, f) = {}
      BY <1>1, <1>2, <1>3, <1>7 DEF Acting
    <3>2. g.count[f] = 0
      BY <1>1
    <3>3. QED
      BY <3>1, <3>2, FS_EmptySet
  <2>2. QED
    BY <2>1 DEF CountKept
<1>8. QED
  BY <1>4, <1>5, <1>6, <1>7 DEF RulesHold, g

LEMMA KeysNext ==
  ASSUME setting' = setting, phys' = phys, NEW l, NEW c, NEW q, NEW s, NEW h,
         LeftOver(l, c, q, s, h), both' = q.both, queue' = s, did'.again = q.again,
         Counted(q.again) => held' = h, IsFiniteSet(phys)
  PROVE  KeyInv(c)'
<1>1. Given' = Given
  BY SameSetting
<1>2. Counted(did.again)' <=> Counted(q.again)
  BY <1>1 DEF Counted
<1>3. room(c, both)' = room(c, q.both) /\ Open(both)' = Open(q.both) /\ Full(both)' = Full(q.both)
  BY SamePairs
<1>4. \A n \in 1 .. Len(queue') : queue'[n].key \in Keys
  BY DEF LeftOver
<1>5. Leads(c, queue, phys)'
  BY DEF LeftOver, Leads, Fits
<1>6. IsFiniteSet(phys')
  OBVIOUS
<1>7. room(c, both)' \in [Keys -> Nat] /\ IsFiniteSet(Free(room(c, both))')
  BY <1>3 DEF LeftOver, Free
<1>8. Counted(q.again) =>
        held' = Cardinality(Free(room(c, both)))' + Cardinality(Open(both))'
  BY <1>3 DEF LeftOver, Free
<1>9. Given => held' + Wait(queue, Downs)' - Wait(queue, Ups)' = Cardinality(phys') - Cardinality(Full(both))'
  <2>1. Given => Counted(q.again)
    BY DEF Counted
  <2>2. Wait(queue, Downs)' = Wait(s, Downs) /\ Wait(queue, Ups)' = Wait(s, Ups)
    BY DEF Wait, Downs, Ups
  <2>3. QED
    BY <1>3, <2>1, <2>2 DEF LeftOver
<1>10. QED
  BY <1>1, <1>2, <1>4, <1>5, <1>6, <1>7, <1>8, <1>9 DEF KeyInv

\* EventInputQueue::fire_timer_callback with an event left.
LEMMA InputTurn ==
  ASSUME TypeOK, NEW l, KeyInv(l), RulesInv(l), NEW slow \in BOOLEAN, InputTimer(slow),
         rewritten(Began).queue # << >>
  PROVE  /\ TypeOK' /\ \E c : KeyInv(c)' /\ RulesInv(c)'
         /\ Counted(did.again) => TypedKept(did'.typed, did.downs)
         /\ told'.typing \subseteq told.typing
<1> DEFINE q == rewritten(Began)
           e == Head(q.queue)
           s == Tail(q.queue)
           h == IF e.down THEN held + 1 ELSE held - 1
           x == watched(Statics, e)
           d == remap_key(x, e, slow)
<1>1. /\ both' = q.both /\ queue' = s /\ armed' = setTimer(s) /\ setting' = setting /\ phys' = phys
      /\ Remap(e, slow, q.again)
  BY DEF InputTimer, Began
<1>2. /\ held' = IF h <= 0 THEN 0 ELSE h
      /\ IF h <= 0 THEN Became(flush(d), {}) ELSE Became(d, passed(d, e))
      /\ did' = [downs |-> Downed(e), typed |-> d.typed,
                 stray |-> ~d.taken /\ ~e.down /\ e.key \notin told.keys, again |-> q.again]
  BY <1>1 DEF Remap, Downed
<1>3. /\ e \in Event
      /\ \E c : /\ LeftOver(l, c, q, s, h)
                /\ \A k \in AnyKey \ {e.key} : Live(l, both, k) => Live(c, q.both, k)
                /\ e.down => Live(c, q.both, e.key) /\ (q.again \/ ~Live(l, both, e.key))
  BY InputNext
<1> HIDE DEF q, e, s, h, x
<1>4. PICK c : /\ LeftOver(l, c, q, s, h)
               /\ \A k \in AnyKey \ {e.key} : Live(l, both, k) => Live(c, q.both, k)
               /\ e.down => Live(c, q.both, e.key) /\ (q.again \/ ~Live(l, both, e.key))
  BY <1>3
<1>5. setting \in Settings /\ did.downs \in (AnyKey \cup {NONE}) \X (AnyKey \cup {NONE})
      /\ told.keys \in SUBSET AnyKey /\ IsFiniteSet(phys) /\ phys \in SUBSET Keys
  BY DEF TypeOK, KeyInv
<1>6. Begins(x, e) /\ x \in Static /\ ~x.taken
  BY <1>3, Begin DEF Begins, x
<1>7. PICK t : Answered(x, d, t, e, slow)
  BY <1>3, <1>5, <1>6, AllAnswer
<1> HIDE DEF d
<1>8. Turned(l, c, q.both, q.again, x, d, t, e, slow)
  BY <1>3, <1>4, <1>6, <1>7 DEF Turned, LeftOver
<1>9. RulesHold(c, q.both, d, passed(d, e), Downed(e), q.again) /\ d \in Static
  BY <1>7, <1>8, RulesTurned DEF Answered
<1>10. ASSUME h <= 0, Counted(q.again), NEW k \in AnyKey PROVE ~Live(c, q.both, k)
  <2>1. /\ room(c, q.both) \in [Keys -> Nat] /\ IsFiniteSet(Free(room(c, q.both))) /\ q.both \in Sides
        /\ h = Cardinality(Free(room(c, q.both))) + Cardinality(Open(q.both))
    BY <1>4, <1>10 DEF LeftOver
  <2>2. QED
    BY <1>5, <1>10, <2>1, NoneLive
<1>11. Counted(q.again) => held' = h
  <2>1. ASSUME Counted(q.again) PROVE h >= 0 /\ h \in Int
    <3>1. /\ room(c, q.both) \in [Keys -> Nat] /\ IsFiniteSet(Free(room(c, q.both))) /\ q.both \in Sides
          /\ h = Cardinality(Free(room(c, q.both))) + Cardinality(Open(q.both))
      BY <1>4, <2>1 DEF LeftOver
    <3>2. Cardinality(Free(room(c, q.both))) \in Nat /\ Cardinality(Open(q.both)) \in Nat
      BY <1>5, <3>1, FreeSize, PairsFinite
    <3>3. QED
      BY <3>1, <3>2
  <2>2. QED
    BY <1>2, <2>1
<1>12. PICK g \in Static :
         /\ \E keys \in SUBSET AnyKey :
              Became(g, keys) /\ RulesHold(c, q.both, g, keys, Downed(e), q.again)
         /\ g.typed = d.typed /\ g.typing \subseteq d.typing
  <2>1. CASE h <= 0
    <3>1. /\ flush(d) \in Static /\ flush(d).typing \subseteq d.typing /\ flush(d).typed = d.typed
          /\ Became(flush(d), {})
      BY <1>2, <1>9, <2>1, FlushIs
    <3>2. RulesHold(c, q.both, flush(d), {}, Downed(e), q.again)
      BY <1>5, <1>9, <1>10, <2>1, Flushed
    <3>3. QED
      BY <3>1, <3>2
  <2>2. CASE ~(h <= 0)
    <3>1. passed(d, e) \in SUBSET AnyKey
      BY <1>3, <1>5 DEF passed, Event
    <3>2. Became(d, passed(d, e))
      BY <1>2, <2>2
    <3>3. QED
      BY <1>9, <3>1, <3>2
  <2>3. QED
    BY <2>1, <2>2
<1>13. PICK keys \in SUBSET AnyKey :
         Became(g, keys) /\ RulesHold(c, q.both, g, keys, Downed(e), q.again)
  BY <1>12
<1>14. /\ rule' = g.rule /\ repeater' = g.repeater /\ watchers' = g.watchers /\ count' = g.count
       /\ told' = [keys |-> keys, typing |-> g.typing]
  BY <1>13 DEF Became
<1>15. KeyInv(c)'
  <2>1. did'.again = q.again
    BY <1>2
  <2>2. QED
    BY <1>1, <1>4, <1>5, <1>11, <2>1, KeysNext
<1>16. RulesInv(c)'
  <2>1. did'.again = q.again /\ did'.downs = Downed(e) /\ did'.typed = g.typed
    BY <1>2, <1>12
  <2>2. told'.keys = keys /\ told'.typing = g.typing
    BY <1>14
  <2>3. QED
    BY <1>1, <1>13, <1>14, <2>1, <2>2, RulesNext
<1>17. TypeOK'
  <2>1. setting' \in Settings /\ phys' \subseteq Keys
    BY <1>1, <1>5
  <2>2. queue' \in Seq(Event) /\ armed' = (queue' # << >>)
    BY <1>1, <1>4 DEF LeftOver, setTimer
  <2>3. combos' = combos /\ rules' = rules
    BY <1>1, SameSetting
  <2>4. both' \in [DOMAIN combos' -> SUBSET {1, 2}]
    BY <1>1, <1>4, <2>3 DEF LeftOver, Sides
  <2>5. held' \in Nat
    BY <1>2, <1>4 DEF LeftOver
  <2>6. /\ rule' \in [DOMAIN rules' -> RuleState] /\ watchers' \subseteq DOMAIN rules'
        /\ repeater' \in [target : {0} \cup DOMAIN rules', armed : BOOLEAN]
        /\ count' \in [Modifiers -> Int]
    BY <1>14, <2>3 DEF Static, Repeaters
  <2>7. told' \in [keys : SUBSET AnyKey, typing : SUBSET DOMAIN rules']
    BY <1>13, <1>14, <2>3 DEF Static
  <2>8. did' \in [downs : (AnyKey \cup {NONE}) \X (AnyKey \cup {NONE}), typed : SUBSET DOMAIN rules',
                  stray : BOOLEAN, again : BOOLEAN]
    <3>1. Downed(e) \in (AnyKey \cup {NONE}) \X (AnyKey \cup {NONE})
      BY <1>3, <1>5 DEF Downed, ruled, Event
    <3>2. d.typed \in SUBSET DOMAIN rules' /\ q.again \in BOOLEAN
      BY <1>4, <1>9, <2>3 DEF Static, LeftOver
    <3>3. QED
      BY <1>2, <3>1, <3>2
  <2>9. QED
    BY <2>1, <2>2, <2>4, <2>5, <2>6, <2>7, <2>8 DEF TypeOK, RuleState
<1>18. Counted(did.again) => TypedKept(did'.typed, did.downs)
  <2>1. did'.typed = d.typed
    BY <1>2
  <2>2. QED
    BY <1>8, <2>1, TypedTurned
<1>19. told'.typing \subseteq told.typing
  <2>1. told'.typing = g.typing
    BY <1>14
  <2>2. QED
    BY <1>8, <1>12, <2>1, TypingIs
<1>20. QED
  BY <1>15, <1>16, <1>17, <1>18, <1>19

\* What the rules keep, of the state as it is, for keys that are live still.
Now == [rule |-> rule, repeater |-> repeater, watchers |-> watchers, count |-> count,
        typing |-> told.typing, typed |-> did.typed]

LEMMA RulesStay ==
  ASSUME TypeOK, NEW l, RulesInv(l), NEW c, NEW b, NEW again, did.again => again,
         \A k \in AnyKey : Live(l, both, k) => Live(c, b, k)
  PROVE  RulesHold(c, b, Now, told.keys, did.downs, again)
<1>1. setting \in Settings /\ told.keys \subseteq AnyKey
  BY DEF TypeOK
<1>2. ActiveKept(c, b, rule)
  <2>1. \A r \in DOMAIN rules : rules[r].from \in AnyKey
    BY <1>1, SettingIs
  <2>2. QED
    BY <2>1 DEF RulesInv, ActiveKept
<1>3. ~did.again => HeldKept(c, b, rule, told.keys)
  BY <1>1 DEF RulesInv, HeldKept
<1>4. (Counted(again) => Counted(did.again)) /\ (~again => ~did.again)
  BY DEF Counted
<1>5. QED
  BY <1>2, <1>3, <1>4 DEF RulesInv, RulesHold, Now

\* EventInputQueue::fire_timer_callback with no event left.
LEMMA InputIdle ==
  ASSUME TypeOK, NEW l, KeyInv(l), RulesInv(l), NEW slow \in BOOLEAN, InputTimer(slow),
         rewritten(Began).queue = << >>
  PROVE  /\ TypeOK' /\ \E c : KeyInv(c)' /\ RulesInv(c)'
         /\ did'.typed = did.typed /\ told' = told
<1> DEFINE q == rewritten(Began)
<1>1. /\ both' = q.both /\ queue' = << >> /\ armed' = FALSE /\ did' = [did EXCEPT !.again = q.again]
      /\ setting' = setting /\ phys' = phys /\ held' = held /\ rule' = rule /\ watchers' = watchers
      /\ repeater' = repeater /\ count' = count /\ told' = told
  BY DEF InputTimer, Began
<1>2. PICK c : /\ LeftOver(l, c, q, << >>, held)
               /\ \A k \in AnyKey : Live(l, both, k) => Live(c, q.both, k)
  BY InputEmpty
<1> HIDE DEF q
<1>3. q.again \in BOOLEAN /\ q.both \in Sides /\ (did.again => q.again)
  BY <1>2 DEF LeftOver
<1>4. did'.again = q.again /\ did'.downs = did.downs /\ did'.typed = did.typed
  BY <1>1 DEF TypeOK
<1>5. KeyInv(c)'
  BY <1>1, <1>2, <1>4, KeysNext DEF KeyInv
<1>6. RulesInv(c)'
  <2>1. RulesHold(c, q.both, Now, told.keys, did.downs, q.again)
    BY <1>2, <1>3, RulesStay
  <2>2. /\ Now.rule = rule /\ Now.repeater = repeater /\ Now.watchers = watchers /\ Now.count = count
        /\ Now.typing = told.typing /\ Now.typed = did.typed
    BY DEF Now
  <2>3. QED
    BY <1>1, <1>4, <2>1, <2>2, RulesNext
<1>7. TypeOK'
  <2>1. combos' = combos /\ rules' = rules
    BY <1>1, SameSetting
  <2>2. did' \in [downs : (AnyKey \cup {NONE}) \X (AnyKey \cup {NONE}), typed : SUBSET DOMAIN rules,
                  stray : BOOLEAN, again : BOOLEAN]
    BY <1>1, <1>3 DEF TypeOK
  <2>3. queue' \in Seq(Event) /\ armed' = (queue' # << >>)
    <3>1. << >> \in Seq(Event)
      OBVIOUS
    <3>2. armed' = (queue' # << >>)
      BY <1>1, Zenon
    <3>3. QED
      BY <1>1, <3>1, <3>2
  <2>4. QED
    BY <1>1, <1>3, <2>1, <2>2, <2>3 DEF TypeOK, Sides
<1>8. QED
  BY <1>1, <1>4, <1>5, <1>6, <1>7

LEMMA RepeatTurn ==
  ASSUME TypeOK, NEW l, KeyInv(l), RulesInv(l), RepeatTimer
  PROVE  /\ TypeOK' /\ KeyInv(l)' /\ RulesInv(l)' /\ did' = did
         /\ Counted(did.again) =>
              \A r \in told'.typing \ told.typing : rule[r].active /\ did.downs[2] = rules[r].from
<1> DEFINE r == repeater.target
           quiet == r = 0 \/ rule[r].any \/ rule[r].normal
<1>1. /\ repeater.armed /\ repeater' = [repeater EXCEPT !.armed = FALSE]
      /\ setting' = setting /\ phys' = phys /\ queue' = queue /\ armed' = armed /\ both' = both
      /\ held' = held /\ watchers' = watchers /\ count' = count /\ did' = did
      /\ quiet => rule' = rule /\ told' = told
      /\ ~quiet => /\ rule' = [rule EXCEPT ![r].repeating = TRUE]
                   /\ told' = [told EXCEPT !.typing = @ \cup {r}]
  BY DEF RepeatTimer
<1>2. r # 0 /\ Overlaid(r) /\ rule[r].active /\ r \in DOMAIN rules
  BY <1>1 DEF RulesInv, RepeatKept, TypeOK
<1>3. /\ rule \in [DOMAIN rules -> RuleState] /\ rule[r] \in RuleState
      /\ told.typing \in SUBSET DOMAIN rules /\ told.keys \in SUBSET AnyKey
      /\ repeater \in Repeaters /\ setting \in Settings
  BY <1>2 DEF TypeOK, Repeaters
<1>4. repeater' \in Repeaters /\ ~repeater'.armed
  BY <1>1, <1>3 DEF Repeaters
<1>5. /\ rule' \in [DOMAIN rules -> RuleState]
      /\ \A o \in DOMAIN rules : /\ rule'[o].active = rule[o].active /\ rule'[o].any = rule[o].any
                                 /\ rule'[o].presses = rule[o].presses /\ rule'[o].last = rule[o].last
                                 /\ rule[o].repeating => rule'[o].repeating
                                 /\ o \in told'.typing \ told.typing => o = r /\ rule'[o].repeating /\ ~rule[o].any
      /\ told'.keys = told.keys /\ told' \in [keys : SUBSET AnyKey, typing : SUBSET DOMAIN rules]
  <2>1. CASE quiet
    BY <1>1, <1>3, <2>1 DEF TypeOK
  <2>2. CASE ~quiet
    <3>1. [rule[r] EXCEPT !.repeating = TRUE] \in RuleState
      BY <1>3 DEF RuleState
    <3>2. /\ rule' \in [DOMAIN rules -> RuleState] /\ rule'[r] = [rule[r] EXCEPT !.repeating = TRUE]
          /\ \A o \in DOMAIN rules \ {r} : rule'[o] = rule[o]
      BY <1>1, <1>2, <1>3, <2>2, <3>1
    <3>3. /\ rule'[r].active = rule[r].active /\ rule'[r].any = rule[r].any
          /\ rule'[r].presses = rule[r].presses /\ rule'[r].last = rule[r].last
          /\ rule'[r].repeating
      BY <1>3, <3>2 DEF RuleState
    <3>4. /\ told'.typing = told.typing \cup {r} /\ told'.keys = told.keys
          /\ told' \in [keys : SUBSET AnyKey, typing : SUBSET DOMAIN rules]
      BY <1>1, <1>2, <2>2 DEF TypeOK
    <3>5. ~rule[r].any
      BY <2>2
    <3> HIDE DEF r, quiet
    <3>6. QED
      BY <3>2, <3>3, <3>4, <3>5
  <2>3. QED
    BY <2>1, <2>2
<1> HIDE DEF r, quiet
<1>6. combos' = combos /\ rules' = rules
  BY <1>1, SameSetting
<1>7. TypeOK'
  BY <1>1, <1>4, <1>5, <1>6 DEF TypeOK, Repeaters
<1>8. KeyInv(l)'
  <2>1. Given' = Given /\ Open(both)' = Open(both) /\ Full(both)' = Full(both)
        /\ room(l, both)' = room(l, both)
    BY <1>1, SameSetting, SamePairs
  <2>2. Leads(l, queue, phys)' /\ Wait(queue, Downs)' = Wait(queue, Downs)
        /\ Wait(queue, Ups)' = Wait(queue, Ups)
    BY <1>1 DEF KeyInv, Leads, Fits, Wait, Downs, Ups
  <2>3. QED
    BY <1>1, <2>1, <2>2 DEF KeyInv, Counted, Free
<1> DEFINE now == [rule |-> rule', repeater |-> repeater', watchers |-> watchers, count |-> count,
                   typing |-> told'.typing, typed |-> did.typed]
<1>9. RulesHold(l, both, now, told.keys, did.downs, did.again)
  <2>1. ActiveKept(l, both, rule')
    BY <1>5 DEF RulesInv, ActiveKept, First
  <2>2. RepeatKept(rule', repeater')
    BY <1>4 DEF RepeatKept
  <2>3. PressKept(rule', did.downs)
    BY <1>5 DEF RulesInv, PressKept
  <2>4. Counted(did.again) => WatchKept(rule', watchers, did.downs) /\ TypedKept(did.typed, did.downs)
    BY <1>5 DEF RulesInv, WatchKept
  <2>5. ~did.again => HeldKept(l, both, rule', told.keys)
    BY <1>5 DEF RulesInv, HeldKept
  <2>6. ASSUME ~did.again PROVE TypingKept(rule', told'.typing, watchers)
    <3>1. TypingKept(rule, told.typing, watchers)
      BY <2>6 DEF RulesInv
    <3>2. told'.typing \subseteq DOMAIN rules /\ watchers \subseteq DOMAIN rules
      BY <1>5 DEF TypeOK
    <3>3. QED
      BY <1>2, <1>5, <3>1, <3>2 DEF TypingKept
  <2>7. ASSUME ~did.again PROVE CountKept(rule', count)
    <3>1. \A f : Acting(rule', f) = Acting(rule, f)
      BY <1>5 DEF Acting
    <3>2. CountKept(rule, count)
      BY <2>7 DEF RulesInv
    <3>3. QED
      BY <3>1, <3>2 DEF CountKept
  <2>8. QED
    BY <2>1, <2>2, <2>3, <2>4, <2>5, <2>6, <2>7 DEF RulesHold
<1>10. RulesInv(l)'
  <2>1. /\ now.rule = rule' /\ now.repeater = repeater' /\ now.watchers = watchers /\ now.count = count
        /\ now.typing = told'.typing /\ now.typed = did.typed
    OBVIOUS
  <2> HIDE DEF now
  <2>2. QED
    BY <1>1, <1>5, <1>9, <2>1, RulesNext
<1>11. ASSUME Counted(did.again), NEW o \in told'.typing \ told.typing
       PROVE  rule[o].active /\ did.downs[2] = rules[o].from
  <2>1. o \in DOMAIN rules
    BY <1>5, <1>11
  <2>2. o = r /\ ~rule[o].any
    BY <1>5, <1>11, <2>1
  <2>3. QED
    BY <1>2, <1>11, <2>1, <2>2 DEF RulesInv, WatchKept
<1>12. QED
  BY <1>1, <1>7, <1>8, <1>10, <1>11

\* A key moves.
LEMMA MoveTurn ==
  ASSUME TypeOK, NEW l, KeyInv(l), RulesInv(l), NEW key \in Keys, Move(key)
  PROVE  TypeOK' /\ KeyInv(l)' /\ RulesInv(l)' /\ did' = did /\ told' = told
<1> DEFINE e == [key |-> key, down |-> key \notin phys]
           s == Append(queue, e)
           p == IF key \in phys THEN phys \ {key} ELSE phys \cup {key}
<1>1. /\ phys' = p /\ queue' = s /\ armed' = TRUE /\ setting' = setting /\ both' = both
      /\ held' = held /\ rule' = rule /\ watchers' = watchers /\ repeater' = repeater
      /\ count' = count /\ told' = told /\ did' = did
  BY DEF Move
<1>2. /\ setting \in Settings /\ queue \in Seq(Event) /\ both \in Sides /\ held \in Nat
      /\ phys \subseteq Keys /\ IsFiniteSet(phys)
  BY DEF TypeOK, KeyInv, Sides
<1>3. e \in Event /\ e.key = key /\ e.down = (key \notin phys)
  BY DEF Event, AnyKey
<1>4. Leads(l, s, p)
  BY <1>2, LeadsAppended DEF KeyInv
<1> HIDE DEF e
<1>5. /\ s \in Seq(Event) /\ Len(s) = Len(queue) + 1 /\ s[Len(s)] = e /\ Without(s, Len(s), queue)
      /\ \A n \in 1 .. Len(queue) : s[n] = queue[n]
  BY <1>2, <1>3, Appended
<1> HIDE DEF s, p
<1>6. /\ p \subseteq Keys /\ IsFiniteSet(p) /\ Cardinality(phys) \in Nat
      /\ Cardinality(p) = IF e.down THEN Cardinality(phys) + 1 ELSE Cardinality(phys) - 1
  <2>1. CASE e.down
    <3>1. p = phys \cup {key} /\ key \notin phys
      BY <1>3, <2>1 DEF p
    <3>2. QED
      BY <1>2, <2>1, <3>1, FS_AddElement, FS_CardinalityType
  <2>2. CASE ~e.down
    <3>1. p = phys \ {key} /\ key \in phys
      BY <1>3, <2>2 DEF p
    <3>2. QED
      BY <1>2, <2>2, <3>1, FS_RemoveElement, FS_CardinalityType
  <2>3. QED
    BY <2>1, <2>2
<1>7. /\ Wait(s, Downs) = Wait(queue, Downs) + (IF e.down THEN 1 ELSE 0)
      /\ Wait(s, Ups) = Wait(queue, Ups) + (IF e.down THEN 0 ELSE 1)
      /\ Wait(queue, Downs) \in Nat /\ Wait(queue, Ups) \in Nat
  <2>1. PICK n : n = Len(s) /\ Without(s, n, queue) /\ s[n] = e
    BY <1>5
  <2>2. Without(s, n, queue)
    BY <2>1
  <2>3. Wait(s, Downs) = Wait(queue, Downs) + (IF s[n] \in Downs THEN 1 ELSE 0)
    BY <1>2, <1>5, <2>2, WaitWithout
  <2>4. Wait(s, Ups) = Wait(queue, Ups) + (IF s[n] \in Ups THEN 1 ELSE 0)
    BY <1>2, <1>5, <2>2, WaitWithout
  <2>5. (s[n] \in Downs <=> e.down) /\ (s[n] \in Ups <=> ~e.down)
    BY <1>3, <2>1 DEF Downs, Ups
  <2>6. Wait(queue, Downs) \in Nat /\ Wait(queue, Ups) \in Nat
    BY <1>2, WaitFinite
  <2>7. QED
    BY <2>3, <2>4, <2>5, <2>6
<1>8. \A n \in 1 .. Len(s) : s[n].key \in Keys
  <2>1. ASSUME NEW n \in 1 .. Len(s) PROVE s[n].key \in Keys
    <3>1. CASE n = Len(s)
      BY <1>3, <1>5, <3>1
    <3>2. CASE n # Len(s)
      <4>1. n \in 1 .. Len(queue)
        BY <1>2, <1>5, <3>2
      <4>2. QED
        BY <1>5, <4>1 DEF KeyInv
    <3>3. QED
      BY <3>1, <3>2
  <2>2. QED
    BY <2>1
<1>9. Given => held + Wait(s, Downs) - Wait(s, Ups) = Cardinality(p) - Cardinality(Full(both))
  <2>1. Cardinality(Full(both)) \in Nat
    BY <1>2, PairsFinite
  <2>2. SUFFICES ASSUME Given
                 PROVE  held + Wait(s, Downs) - Wait(s, Ups) = Cardinality(p) - Cardinality(Full(both))
    OBVIOUS
  <2>3. held + Wait(queue, Downs) - Wait(queue, Ups) = Cardinality(phys) - Cardinality(Full(both))
    BY <2>2 DEF KeyInv
  <2>4. CASE e.down
    BY <1>2, <1>6, <1>7, <2>1, <2>3, <2>4
  <2>5. CASE ~e.down
    BY <1>2, <1>6, <1>7, <2>1, <2>3, <2>5
  <2>6. QED
    BY <2>4, <2>5
<1>10. KeyInv(l)'
  <2>1. Given' = Given /\ Open(both)' = Open(both) /\ Full(both)' = Full(both)
        /\ room(l, both)' = room(l, both)
    BY <1>1, SameSetting, SamePairs
  <2>2. Leads(l, queue, phys)'
    BY <1>1, <1>4 DEF Leads, Fits
  <2>3. Wait(queue, Downs)' = Wait(s, Downs) /\ Wait(queue, Ups)' = Wait(s, Ups)
    BY <1>1 DEF Wait, Downs, Ups
  <2>4. QED
    BY <1>1, <1>6, <1>8, <1>9, <2>1, <2>2, <2>3 DEF KeyInv, Counted, Free
<1>11. RulesInv(l)'
  <2>1. RulesHold(l, both, Now, told.keys, did.downs, did.again)
    BY RulesStay
  <2>2. /\ Now.rule = rule /\ Now.repeater = repeater /\ Now.watchers = watchers /\ Now.count = count
        /\ Now.typing = told.typing /\ Now.typed = did.typed
    BY DEF Now
  <2>3. QED
    BY <1>1, <2>1, <2>2, RulesNext
<1>12. TypeOK'
  <2>1. combos' = combos /\ rules' = rules
    BY <1>1, SameSetting
  <2>2. armed' = (queue' # << >>)
    <3>1. queue' # << >>
      BY <1>1, <1>2, <1>5
    <3>2. QED
      BY <1>1, <3>1
  <2>3. QED
    BY <1>1, <1>5, <1>6, <2>1, <2>2 DEF TypeOK
<1>13. QED
  BY <1>1, <1>10, <1>11, <1>12

LEMMA Initially ==
  ASSUME Init
  PROVE  IInv
<1> DEFINE l == [k \in Keys |-> 0]
<1>1. /\ setting \in Settings /\ phys = {} /\ queue = << >> /\ armed = FALSE /\ held = 0
      /\ both = [i \in DOMAIN combos |-> {}] /\ rule = [r \in DOMAIN rules |-> newRule]
      /\ watchers = {} /\ repeater = [target |-> 0, armed |-> FALSE]
      /\ count = [f \in Modifiers |-> 0] /\ told = [keys |-> {}, typing |-> {}]
      /\ did = [downs |-> <<NONE, NONE>>, typed |-> {}, stray |-> FALSE, again |-> FALSE]
  BY DEF Init
<1>2. newRule \in RuleState
  BY DEF newRule, RuleState
<1>3. << >> \in Seq(Event) /\ Len(<< >>) = 0
  OBVIOUS
<1>4. both \in Sides /\ \A i \in DOMAIN combos : both[i] = {}
  BY <1>1 DEF Sides
<1>5. TypeOK
  <2>1. armed = (queue # << >>)
    BY <1>1
  <2>2. QED
    BY <1>1, <1>2, <1>3, <1>4, <2>1 DEF TypeOK, Sides
<1>6. \A k \in Keys : Cardinality(Bits(both, k)) = 0
  BY <1>1, <1>4, NoBit
<1>7. room(l, both) = l
  BY <1>6 DEF room
<1>8. Open(both) = {} /\ Full(both) = {} /\ Free(l) = {}
  BY <1>4 DEF Open, Full, Free
<1>9. Leads(l, queue, phys)
  <2> DEFINE levels == [n \in 1 .. Len(<< >>) + 1 |-> l]
  <2>1. levels[1] = l /\ levels[Len(<< >>) + 1] = l /\ levels \in [1 .. Len(<< >>) + 1 -> [Keys -> Nat]]
    BY <1>3
  <2> HIDE DEF levels
  <2>2. Fits(levels, << >>, {})
    BY <1>3, <2>1 DEF Fits
  <2>3. QED
    BY <1>1, <2>1, <2>2 DEF Leads
<1>10. KeyInv(l)
  <2>1. l \in [Keys -> Nat]
    OBVIOUS
  <2> HIDE DEF l
  <2>2. Wait(queue, Downs) = 0 /\ Wait(queue, Ups) = 0
    <3>1. /\ {n \in DOMAIN queue : queue[n] \in Downs} = {}
          /\ {n \in DOMAIN queue : queue[n] \in Ups} = {}
      BY <1>1
    <3>2. QED
      BY <3>1, FS_EmptySet DEF Wait
  <2>3. IsFiniteSet({}) /\ Cardinality({}) = 0
    BY FS_EmptySet
  <2>4. /\ room(l, both) \in [Keys -> Nat] /\ IsFiniteSet(Free(room(l, both)))
        /\ Cardinality(Free(room(l, both))) = 0 /\ Cardinality(Open(both)) = 0
        /\ Cardinality(Full(both)) = 0 /\ Cardinality(phys) = 0
    BY <1>1, <1>7, <1>8, <2>1, <2>3
  <2>5. /\ held = Cardinality(Free(room(l, both))) + Cardinality(Open(both))
        /\ held + Wait(queue, Downs) - Wait(queue, Ups) = Cardinality(phys) - Cardinality(Full(both))
    <3>1. held = 0
      BY <1>1
    <3>2. /\ Cardinality(Free(room(l, both))) = 0 /\ Cardinality(Open(both)) = 0
          /\ Cardinality(Full(both)) = 0 /\ Cardinality(phys) = 0
      BY <2>4
    <3>3. held = Cardinality(Free(room(l, both))) + Cardinality(Open(both))
      BY <3>1, <3>2
    <3>4. held + Wait(queue, Downs) - Wait(queue, Ups) = Cardinality(phys) - Cardinality(Full(both))
      BY <2>2, <3>1, <3>2
    <3>5. QED
      BY <3>3, <3>4
  <2>6. \A n \in 1 .. Len(queue) : queue[n].key \in Keys
    BY <1>1, <1>3
  <2>7. QED
    BY <1>1, <1>9, <2>3, <2>4, <2>5, <2>6 DEF KeyInv
<1> HIDE DEF l
<1>11. \A r \in DOMAIN rules : ~rule[r].active /\ rule[r].presses = 0
  BY <1>1 DEF newRule
<1>12. RulesInv(l)
  <2>1. ActiveKept(l, both, rule) /\ RepeatKept(rule, repeater) /\ PressKept(rule, did.downs)
    BY <1>1, <1>11 DEF ActiveKept, RepeatKept, PressKept
  <2>2. WatchKept(rule, watchers, did.downs) /\ TypedKept(did.typed, did.downs)
    BY <1>1, <1>11 DEF WatchKept, TypedKept
  <2>3. HeldKept(l, both, rule, told.keys) /\ TypingKept(rule, told.typing, watchers)
    BY <1>1 DEF HeldKept, TypingKept
  <2>4. CountKept(rule, count)
    <3>1. \A f : Acting(rule, f) = {}
      BY <1>11 DEF Acting
    <3>2. QED
      BY <1>1, <3>1, FS_EmptySet DEF CountKept
  <2>5. QED
    BY <2>1, <2>2, <2>3, <2>4 DEF RulesInv
<1>13. QED
  BY <1>5, <1>10, <1>12 DEF IInv
-------------------------------------------------------------------------------
(***************************************************************************)
(* The theorems.                                                           *)
(***************************************************************************)
LEMMA InputStep ==
  ASSUME IInv, NEW slow \in BOOLEAN, InputTimer(slow)
  PROVE  /\ IInv'
         /\ Counted(did.again) => TypedKept(did'.typed, did.downs)
         /\ told'.typing \subseteq told.typing
<1>1. PICK l : KeyInv(l) /\ RulesInv(l)
  BY DEF IInv
<1>2. TypeOK
  BY DEF IInv
<1>3. CASE rewritten(Began).queue # << >>
  <2>1. /\ TypeOK' /\ \E c : KeyInv(c)' /\ RulesInv(c)'
        /\ Counted(did.again) => TypedKept(did'.typed, did.downs)
        /\ told'.typing \subseteq told.typing
    BY <1>1, <1>2, <1>3, InputTurn
  <2>2. QED
    BY <2>1 DEF IInv
<1>4. CASE rewritten(Began).queue = << >>
  <2>1. /\ TypeOK' /\ \E c : KeyInv(c)' /\ RulesInv(c)'
        /\ did'.typed = did.typed /\ told' = told
    BY <1>1, <1>2, <1>4, InputIdle
  <2>2. Counted(did.again) => TypedKept(did.typed, did.downs)
    BY <1>1 DEF RulesInv
  <2>3. QED
    BY <2>1, <2>2 DEF IInv
<1>5. QED
  BY <1>3, <1>4

LEMMA Stutters ==
  ASSUME IInv, UNCHANGED vars
  PROVE  IInv'
<1>1. PICK l : KeyInv(l) /\ RulesInv(l)
  BY DEF IInv
<1>2. TypeOK
  BY DEF IInv
<1>3. /\ setting' = setting /\ phys' = phys /\ queue' = queue /\ armed' = armed /\ both' = both
      /\ held' = held /\ rule' = rule /\ watchers' = watchers /\ repeater' = repeater
      /\ count' = count /\ told' = told /\ did' = did
  BY DEF vars
<1>4. KeyInv(l)'
  <2>1. Given' = Given /\ Open(both)' = Open(both) /\ Full(both)' = Full(both)
        /\ room(l, both)' = room(l, both)
    BY <1>3, SameSetting, SamePairs
  <2>2. Leads(l, queue, phys)' /\ Wait(queue, Downs)' = Wait(queue, Downs)
        /\ Wait(queue, Ups)' = Wait(queue, Ups)
    BY <1>1, <1>3 DEF KeyInv, Leads, Fits, Wait, Downs, Ups
  <2>3. QED
    BY <1>1, <1>3, <2>1, <2>2 DEF KeyInv, Counted, Free
<1>5. RulesInv(l)'
  <2>1. RulesHold(l, both, Now, told.keys, did.downs, did.again)
    BY <1>1, <1>2, RulesStay
  <2>2. /\ Now.rule = rule /\ Now.repeater = repeater /\ Now.watchers = watchers /\ Now.count = count
        /\ Now.typing = told.typing /\ Now.typed = did.typed
    BY DEF Now
  <2>3. QED
    BY <1>3, <2>1, <2>2, RulesNext
<1>6. TypeOK'
  BY <1>2, <1>3, SameSetting DEF TypeOK
<1>7. QED
  BY <1>4, <1>5, <1>6 DEF IInv

LEMMA Inductive == IInv /\ [Next]_vars => IInv'
<1> SUFFICES ASSUME IInv, [Next]_vars PROVE IInv'
  OBVIOUS
<1>1. PICK l : KeyInv(l) /\ RulesInv(l)
  BY DEF IInv
<1>2. TypeOK
  BY DEF IInv
<1>3. ASSUME NEW slow \in BOOLEAN, InputTimer(slow) PROVE IInv'
  BY <1>3, InputStep
<1>4. CASE RepeatTimer
  BY <1>1, <1>2, <1>4, RepeatTurn DEF IInv
<1>5. ASSUME NEW key \in Keys, Move(key) PROVE IInv'
  BY <1>1, <1>2, <1>5, MoveTurn DEF IInv
<1>6. CASE UNCHANGED vars
  BY <1>6, Stutters
<1>7. QED
  BY <1>3, <1>4, <1>5, <1>6 DEF Next

\* The inductive invariant holds of every state: the types, the keys down before the
\* events that wait and the count of held keys against them, and what the rules, the
\* watchers, the repeat timer and the system keep of the keys.
THEOREM InvariantHolds == Spec => []IInv
<1>1. Init => IInv
  BY Initially
<1>2. QED
  BY <1>1, Inductive, PTL DEF Spec

\* The variables keep their types, for any number of keys, pairs and rules.
THEOREM TypesHold == Spec => []TypeOK
<1>1. IInv => TypeOK
  BY DEF IInv
<1>2. QED
  BY <1>1, InvariantHolds, PTL

\* The count of held keys is that of the keys down, however the pairs rewrite the queue
\* (SimultaneousKeyPresses::remap).
THEOREM HeldIsConserved == Spec => []HeldConserved
<1>1. IInv => HeldConserved
  <2>1. SUFFICES ASSUME IInv PROVE HeldConserved
    OBVIOUS
  <2>2. PICK l : KeyInv(l)
    BY <2>1 DEF IInv
  <2>3. queue \in Seq(Event)
    BY <2>1 DEF IInv, TypeOK
  <2>4. ASSUME NEW n \in DOMAIN queue
        PROVE  /\ queue[n].down = TRUE <=> queue[n] \in Downs
               /\ queue[n].down = FALSE <=> queue[n] \in Ups
    <3>1. queue[n] \in Event
      BY <2>3
    <3>2. queue[n].down \in BOOLEAN
      BY <3>1 DEF Event
    <3>3. QED
      BY <3>1, <3>2 DEF Downs, Ups
  <2>5. /\ {n \in DOMAIN queue : queue[n].down = TRUE} = {n \in DOMAIN queue : queue[n] \in Downs}
        /\ {n \in DOMAIN queue : queue[n].down = FALSE} = {n \in DOMAIN queue : queue[n] \in Ups}
    BY <2>4
  <2>6. waiting(TRUE) = Wait(queue, Downs) /\ waiting(FALSE) = Wait(queue, Ups) /\ full = Full(both)
    BY <2>5 DEF waiting, Wait, full, Full
  <2>7. QED
    BY <2>2, <2>6 DEF HeldConserved, KeyInv, Given
<1>2. QED
  BY <1>1, InvariantHolds, PTL

\* What is live has its release before it.
LEMMA LiveComes ==
  ASSUME TypeOK, NEW l, KeyInv(l), NEW k, Live(l, both, k)
  PROVE  coming(k)
<1>1. /\ setting \in Settings /\ queue \in Seq(Event) /\ both \in Sides /\ Leads(l, queue, phys)
      /\ room(l, both) \in [Keys -> Nat]
  BY DEF TypeOK, KeyInv, Sides
<1>2. CASE k \in Keys
  <2>1. /\ room(l, both)[k] = l[k] - Cardinality(Bits(both, k)) /\ room(l, both)[k] >= 1
        /\ l[k] \in Nat /\ Cardinality(Bits(both, k)) \in Nat
    BY <1>1, <1>2, LeadsType, PairsFinite DEF room, Live
  <2>2. l[k] >= 1
    BY <2>1
  <2>3. QED
    BY <1>1, <1>2, <2>2, Comes DEF coming
<1>3. CASE k \notin Keys
  BY <1>3 DEF Live, isOpen, coming
<1>4. QED
  BY <1>2, <1>3

\* Unless a pair was pressed while its target was down, all that is pressed has its
\* release before it, and the flags are exactly those of the rules that are active
\* (KeyOverlaidModifier, EventWatcher, FlagStatus).
THEOREM NothingStays == Spec => []NothingStuck
<1>1. IInv => NothingStuck
  <2>1. SUFFICES ASSUME IInv, ~did.again
                 PROVE  /\ \A k \in told.keys : coming(k)
                        /\ \A r \in DOMAIN rules :
                             \/ rule[r].active \/ r \in told.typing
                             \/ r \in watchers /\ ~rule[r].repeating
                             => coming(rules[r].from)
                        /\ \A i \in DOMAIN combos : \A j \in both[i] : coming(combos[i].from[j])
                        /\ \A f \in Modifiers :
                             count[f] = Cardinality({r \in DOMAIN rules : rule[r].active /\ rules[r].to = f})
    BY DEF NothingStuck
  <2>2. PICK l : KeyInv(l) /\ RulesInv(l)
    BY <2>1 DEF IInv
  <2>3. TypeOK
    BY <2>1 DEF IInv
  <2>4. /\ HeldKept(l, both, rule, told.keys) /\ TypingKept(rule, told.typing, watchers)
        /\ CountKept(rule, count) /\ ActiveKept(l, both, rule)
    BY <2>1, <2>2 DEF RulesInv
  <2>5. ASSUME NEW k \in told.keys PROVE coming(k)
    BY <2>2, <2>3, <2>4, LiveComes DEF HeldKept
  <2>6. ASSUME NEW r \in DOMAIN rules,
               rule[r].active \/ r \in told.typing \/ (r \in watchers /\ ~rule[r].repeating)
        PROVE  coming(rules[r].from)
    <3>1. rule[r].active
      BY <2>4, <2>6 DEF TypingKept
    <3>2. Live(l, both, rules[r].from)
      BY <2>4, <3>1 DEF ActiveKept
    <3>3. QED
      BY <2>2, <2>3, <3>2, LiveComes
  <2>7. ASSUME NEW i \in DOMAIN combos, NEW j \in both[i] PROVE coming(combos[i].from[j])
    <3> DEFINE k == combos[i].from[j]
    <3>1. /\ setting \in Settings /\ queue \in Seq(Event) /\ both \in Sides
          /\ Leads(l, queue, phys) /\ room(l, both) \in [Keys -> Nat]
      BY <2>2, <2>3 DEF TypeOK, KeyInv, Sides
    <3>2. Cardinality(Bits(both, k)) >= 1
      BY <3>1, SomeBit
    <3>3. k \in Keys
      <4>1. j \in {1, 2}
        BY <3>1 DEF Sides
      <4>2. QED
        BY <3>1, <4>1, SettingIs
    <3> HIDE DEF k
    <3>4. /\ room(l, both)[k] = l[k] - Cardinality(Bits(both, k)) /\ room(l, both)[k] \in Nat
          /\ l[k] \in Nat /\ Cardinality(Bits(both, k)) \in Nat
      BY <3>1, <3>3, LeadsType, PairsFinite DEF room
    <3>5. l[k] >= 1
      BY <3>2, <3>4
    <3>6. coming(k)
      BY <3>1, <3>3, <3>5, Comes DEF coming
    <3>7. QED
      BY <3>6 DEF k
  <2>8. ASSUME NEW f \in Modifiers
        PROVE  count[f] = Cardinality({r \in DOMAIN rules : rule[r].active /\ rules[r].to = f})
    BY <2>4 DEF CountKept, Acting
  <2>9. QED
    BY <2>5, <2>6, <2>7, <2>8
<1>2. QED
  BY <1>1, InvariantHolds, PTL

\* A key with two meanings types its other keys, and repeats them, only when it is the
\* last key that went down; a modifier pressed twice only when it went down twice in a
\* row; and while such a key is held it is known whether another went down after it
\* (EventWatcher::on, KeyOverlaidModifier::remap, DoublePressModifier::remap).
THEOREM TypesAlone == Spec => TypedAlone
<1>1. ASSUME IInv, [Next]_vars, Counted(did.again)
      PROVE  /\ \A r \in did'.typed :
                  /\ did.downs[2] = rules[r].from
                  /\ rules[r].kind = "DoublePressModifier" => did.downs[1] = rules[r].from
             /\ \A r \in told'.typing \ told.typing :
                  rule[r].active /\ did.downs[2] = rules[r].from
             /\ \A r \in DOMAIN rules :
                  rules[r].kind = "KeyOverlaidModifier" /\ rule[r].active =>
                    rule[r].any = (did.downs[2] # rules[r].from)
  <2>1. PICK l : KeyInv(l) /\ RulesInv(l)
    BY <1>1 DEF IInv
  <2>2. TypeOK
    BY <1>1 DEF IInv
  <2>3. TypedKept(did.typed, did.downs) /\ WatchKept(rule, watchers, did.downs)
    BY <1>1, <2>1 DEF RulesInv
  <2>4. /\ TypedKept(did'.typed, did.downs)
        /\ \A r \in told'.typing \ told.typing : rule[r].active /\ did.downs[2] = rules[r].from
    <3>1. ASSUME NEW slow \in BOOLEAN, InputTimer(slow)
          PROVE  TypedKept(did'.typed, did.downs) /\ told'.typing \subseteq told.typing
      BY <1>1, <3>1, InputStep
    <3>2. CASE RepeatTimer
      <4>1. /\ did' = did
            /\ \A r \in told'.typing \ told.typing : rule[r].active /\ did.downs[2] = rules[r].from
        BY <1>1, <2>1, <2>2, <3>2, RepeatTurn
      <4>2. QED
        BY <2>3, <4>1
    <3>3. ASSUME NEW key \in Keys, Move(key) PROVE did' = did /\ told' = told
      BY <2>1, <2>2, <3>3, MoveTurn
    <3>4. CASE UNCHANGED vars
      BY <2>3, <3>4 DEF vars
    <3>5. QED
      BY <1>1, <2>3, <3>1, <3>2, <3>3, <3>4 DEF Next
  <2>5. ASSUME NEW r \in DOMAIN rules, rules[r].kind = "KeyOverlaidModifier", rule[r].active
        PROVE  rule[r].any = (did.downs[2] # rules[r].from)
    <3>1. rule[r].any <=> did.downs[2] # rules[r].from
      BY <2>3, <2>5 DEF WatchKept, Overlaid
    <3>2. rule[r].any \in BOOLEAN
      BY <2>2, <2>5 DEF TypeOK, RuleState
    <3>3. QED
      BY <3>1, <3>2
  <2>6. QED
    BY <2>4, <2>5 DEF TypedKept, Double
<1>2. IInv /\ [Next]_vars =>
        [(~did.again \/ \A i \in DOMAIN combos : combos[i].to # NONE) =>
          /\ \A r \in did'.typed :
               /\ did.downs[2] = rules[r].from
               /\ rules[r].kind = "DoublePressModifier" => did.downs[1] = rules[r].from
          /\ \A r \in told'.typing \ told.typing :
               rule[r].active /\ did.downs[2] = rules[r].from
          /\ \A r \in DOMAIN rules :
               rules[r].kind = "KeyOverlaidModifier" /\ rule[r].active =>
                 rule[r].any = (did.downs[2] # rules[r].from)]_vars
  BY <1>1 DEF Counted, Given
<1>3. QED
  BY <1>2, InvariantHolds, PTL DEF Spec, TypedAlone
===============================================================================
