--------------------------- MODULE InputModeProofs ---------------------------
(***************************************************************************)
(* For any keyboard and any order of keys, timers and late answers: the    *)
(* mode the filters look at follows the mode the next key meets, and the   *)
(* SKIP_EISUU_KANA key goes round all modes it stands for.                 *)
(***************************************************************************)
EXTENDS InputMode, TLAPS

ModeOrNone == Modes \cup {NoMode}

(***************************************************************************)
(* The work space data.                                                    *)
(***************************************************************************)

\* Everything but the indexes of modes.
SameModes(s, t) ==
  /\ t.pub = s.pub /\ t.learned = s.learned
  /\ t.saved = s.saved /\ t.current = s.current
  /\ t.pending = s.pending /\ t.sent = s.sent

LEMMA SetIndexes ==
  ASSUME NEW s \in State, NEW pre \in Index \cup {NoMode}, NEW cur \in Index \cup {NoMode}
  PROVE  /\ set_indexes(s, pre, cur) \in State
         /\ SameModes(s, set_indexes(s, pre, cur))
         /\ set_indexes(s, pre, cur).pre = IF pre > 0 THEN pre ELSE s.pre
         /\ set_indexes(s, pre, cur).cur = IF cur > 0 THEN cur ELSE s.cur
         /\ set_indexes(s, pre, cur).others = s.others
         /\ set_indexes(s, pre, cur).sign = s.sign
<1> DEFINE p == IF pre > 0 THEN pre ELSE s.pre
           c == IF cur > 0 THEN cur ELSE s.cur
<1>1. p \in Index /\ c \in Index
  BY DEF State, Index, Indexes, Unset, NoMode
<1>2. set_indexes(s, pre, cur) = [s EXCEPT !.pre = p, !.cur = c]
  BY DEF set_indexes, State
<1> HIDE DEF p, c
<1>3. /\ set_indexes(s, pre, cur) \in State
      /\ SameModes(s, set_indexes(s, pre, cur))
      /\ set_indexes(s, pre, cur).pre = p /\ set_indexes(s, pre, cur).cur = c
      /\ set_indexes(s, pre, cur).others = s.others
      /\ set_indexes(s, pre, cur).sign = s.sign
  BY <1>1, <1>2 DEF State, SameModes
<1>4. QED
  BY <1>3 DEF p, c

LEMMA SetNewIndex ==
  ASSUME NEW s \in State, NEW i \in Index
  PROVE  /\ set_new_index(s, i) \in State
         /\ SameModes(s, set_new_index(s, i))
<1>1. s.cur \in Index /\ Unset \in Index
  BY DEF State, Index
<1>2. SameModes(s, s)
  BY DEF SameModes
<1>3. QED
  BY <1>1, <1>2, SetIndexes DEF set_new_index

LEMMA ReplaceWSD ==
  ASSUME NEW s \in State, NEW mode \in ModeOrNone
  PROVE  /\ replace_WSD(s, mode) \in State
         /\ mode \notin s.learned => replace_WSD(s, mode) = s
         /\ mode \in s.learned =>
              SameModes([s EXCEPT !.pub = mode], replace_WSD(s, mode))
<1>1. CASE mode \in s.learned
  <2> DEFINE t == [s EXCEPT !.pub = mode]
  <2>1. t \in State /\ mode \in Index
    BY <1>1 DEF State, Index, ModeOrNone
  <2>2. replace_WSD(s, mode) = set_new_index(t, mode)
    BY <1>1 DEF replace_WSD
  <2> HIDE DEF t
  <2>3. QED
    BY <1>1, <2>1, <2>2, SetNewIndex DEF t
<1>2. CASE mode \notin s.learned
  BY <1>2 DEF replace_WSD
<1>3. QED
  BY <1>1, <1>2

\* A flag that no property looks at.
LEMMA InitDo ==
  ASSUME NEW s \in State, NEW b \in BOOLEAN
  PROVE  /\ [s EXCEPT !.initDo = b] \in State
         /\ SameModes(s, [s EXCEPT !.initDo = b])
  BY DEF State, SameModes

LEMMA NoInit ==
  ASSUME NEW s \in State
  PROVE  noInit(s) \in State /\ SameModes(s, noInit(s))
  BY InitDo DEF noInit

LEMMA ReplaceOrInit ==
  ASSUME NEW s \in State, NEW mode \in ModeOrNone
  PROVE  /\ replaceOrInit(s, mode) \in State
         /\ mode \notin s.learned => SameModes(s, replaceOrInit(s, mode))
         /\ mode \in s.learned =>
              SameModes([s EXCEPT !.pub = mode], replaceOrInit(s, mode))
<1>1. /\ replaceOrInit(s, mode) \in State
      /\ SameModes(replace_WSD(s, mode), replaceOrInit(s, mode))
  BY ReplaceWSD, InitDo DEF replaceOrInit
<1>2. QED
  BY <1>1, ReplaceWSD DEF SameModes

LEMMA ResetSaved ==
  ASSUME NEW s \in State
  PROVE  /\ resetSavedIMD(s) \in State
         /\ resetSavedIMD(s).saved = NoMode
         /\ resetSavedIMD(s).pub = s.pub /\ resetSavedIMD(s).learned = s.learned
         /\ resetSavedIMD(s).pending = s.pending /\ resetSavedIMD(s).sent = s.sent
  BY DEF resetSavedIMD, State

-------------------------------------------------------------------------------
(***************************************************************************)
(* Mode keys on their way, and the mode the next key meets.                *)
(***************************************************************************)

\* As arrives and Agrees, of any statics and with the system in mode m.
arrivesIn(s, m) ==
  IF s.pending # NoMode THEN s.pending
  ELSE IF s.sent # << >> THEN s.sent[Len(s.sent)] ELSE m

AgreesIn(s, m) ==
  IF s.saved = NoMode THEN s.pub = arrivesIn(s, m)
  ELSE s.pub = s.saved /\ s.current = arrivesIn(s, m)

LEMMA AgreesIsIn == Agrees <=> AgreesIn(im, sys)
  BY DEF Agrees, AgreesIn, arrives, arrivesIn

LEMMA SameAgrees ==
  ASSUME NEW s, NEW t, SameModes(s, t), NEW m
  PROVE  AgreesIn(s, m) <=> AgreesIn(t, m)
  BY DEF SameModes, AgreesIn, arrivesIn

LEMMA AppendLast ==
  ASSUME NEW q \in Seq(Modes), NEW mode \in Modes
  PROVE  /\ Append(q, mode) \in Seq(Modes) /\ Append(q, mode) # << >>
         /\ Append(q, mode)[Len(Append(q, mode))] = mode
  OBVIOUS

LEMMA Flush ==
  ASSUME NEW s \in State
  PROVE  /\ flush(s) \in State
         /\ flush(s).pending = NoMode
         /\ flush(s).pub = s.pub /\ flush(s).learned = s.learned
         /\ flush(s).saved = s.saved /\ flush(s).current = s.current
         /\ \A m : arrivesIn(flush(s), m) = arrivesIn(s, m)
         /\ \A m : AgreesIn(flush(s), m) <=> AgreesIn(s, m)
<1>1. CASE s.pending = NoMode
  BY <1>1 DEF flush
<1>2. CASE s.pending # NoMode
  <2>1. s.pending \in Modes /\ s.sent \in Seq(Modes)
    BY <1>2 DEF State
  <2>2. flush(s) = [s EXCEPT !.pending = NoMode, !.sent = Append(s.sent, s.pending)]
    BY <1>2 DEF flush, State
  <2> DEFINE q == Append(s.sent, s.pending)
  <2>3. q \in Seq(Modes) /\ q # << >> /\ q[Len(q)] = s.pending
    BY <2>1, AppendLast
  <2> HIDE DEF q
  <2>4. /\ flush(s) \in State
        /\ flush(s).pending = NoMode /\ flush(s).sent = q
        /\ flush(s).pub = s.pub /\ flush(s).learned = s.learned
        /\ flush(s).saved = s.saved /\ flush(s).current = s.current
    BY <2>2, <2>3 DEF State, q
  <2>5. \A m : arrivesIn(flush(s), m) = arrivesIn(s, m)
    BY <1>2, <2>3, <2>4 DEF arrivesIn
  <2>6. QED
    BY <2>4, <2>5 DEF AgreesIn
<1>3. QED
  BY <1>1, <1>2

LEMMA FireMode ==
  ASSUME NEW s \in State, NEW mode \in Modes
  PROVE  /\ fireMode(s, mode) \in State
         /\ fireMode(s, mode).sent # << >>
         /\ fireMode(s, mode).sent[Len(fireMode(s, mode).sent)] = mode
         /\ s.pub = mode /\ s.saved = NoMode => \A m : AgreesIn(fireMode(s, mode), m)
<1> DEFINE t == flush(s)
           q == Append(t.sent, mode)
<1>1. /\ t \in State /\ t.pending = NoMode /\ t.pub = s.pub /\ t.saved = s.saved
  BY Flush
<1> HIDE DEF t
<1>2. q \in Seq(Modes) /\ q # << >> /\ q[Len(q)] = mode
  BY <1>1, AppendLast DEF State
<1>3. fireMode(s, mode) = [t EXCEPT !.sent = q]
  BY <1>1 DEF fireMode, t, State
<1> HIDE DEF q
<1>4. t.sent \in Seq(Modes)
  BY <1>1 DEF State
<1>5. /\ fireMode(s, mode) \in State /\ fireMode(s, mode).sent = q
      /\ fireMode(s, mode).pending = NoMode
      /\ fireMode(s, mode).pub = s.pub /\ fireMode(s, mode).saved = s.saved
  <2>1. ASSUME NEW u \in State, NEW r \in Seq(Modes)
        PROVE  LET v == [u EXCEPT !.sent = r]
               IN  v \in State /\ v.sent = r /\ v.pending = u.pending /\ v.pub = u.pub /\ v.saved = u.saved
    BY DEF State
  <2>2. QED
    BY <1>1, <1>2, <1>3, <2>1
<1>6. QED
  BY <1>2, <1>5 DEF AgreesIn, arrivesIn

LEMMA FireDetail ==
  ASSUME NEW s \in State, NEW mode \in ModeOrNone
  PROVE  /\ firekeytoinputdetail(s, mode) \in State
         /\ firekeytoinputdetail(s, mode).pub = s.pub
         /\ firekeytoinputdetail(s, mode).learned = s.learned
         /\ firekeytoinputdetail(s, mode).saved = s.saved
         /\ \A m : s.current = arrivesIn(s, m) /\ mode \in Indexes =>
              /\ firekeytoinputdetail(s, mode).current = mode
              /\ arrivesIn(firekeytoinputdetail(s, mode), m) = mode
<1>1. CASE mode = s.current \/ mode = NoMode
  BY <1>1 DEF firekeytoinputdetail, Indexes, NoMode
<1>2. CASE ~(mode = s.current \/ mode = NoMode)
  <2>1. firekeytoinputdetail(s, mode) =
          [s EXCEPT !.current = mode, !.pending = IF mode \in Indexes THEN mode ELSE s.pending]
    BY <1>2 DEF firekeytoinputdetail, State
  <2>2. ASSUME NEW p \in ModeOrNone
        PROVE  LET v == [s EXCEPT !.current = mode, !.pending = p]
               IN  /\ v \in State /\ v.pub = s.pub /\ v.learned = s.learned /\ v.saved = s.saved
                   /\ v.current = mode /\ v.pending = p
    BY <2>2 DEF State, ModeOrNone
  <2> DEFINE p == IF mode \in Indexes THEN mode ELSE s.pending
             t == firekeytoinputdetail(s, mode)
  <2>3. /\ p \in ModeOrNone /\ (mode \in Indexes => p = mode /\ p # NoMode)
    BY DEF State, ModeOrNone, Indexes, NoMode
  <2>4. t = [s EXCEPT !.current = mode, !.pending = p]
    BY <2>1
  <2> HIDE DEF p, t
  <2>5. /\ t \in State /\ t.pub = s.pub /\ t.learned = s.learned /\ t.saved = s.saved
        /\ t.current = mode /\ t.pending = p
    BY <2>2, <2>3, <2>4
  <2>6. QED
    BY <2>3, <2>5 DEF arrivesIn, t
<1>3. QED
  BY <1>1, <1>2

\* The restore of a temporary mode leaves the filters and the system in agreement.
LEMMA Restore ==
  ASSUME NEW s \in State
  PROVE  /\ vk_restore(s) \in State
         /\ vk_restore(s).saved = NoMode
         /\ vk_restore(s).learned = s.learned
         /\ s.saved # Elsewhere => \A m : AgreesIn(s, m) => AgreesIn(vk_restore(s), m)
<1>1. CASE s.saved = NoMode
  BY <1>1 DEF vk_restore
<1>2. CASE s.saved # NoMode
  <2> DEFINE r == restore_WSD(s, s.saved)
             t == [r EXCEPT !.initDo = FALSE]
             u == firekeytoinputdetail(t, s.saved)
  <2>1. s.saved \in Modes /\ s.saved \in ModeOrNone
    BY <1>2 DEF State, ModeOrNone
  <2>2. /\ r \in State /\ r.learned = s.learned /\ r.saved = s.saved /\ r.current = s.current
        /\ r.pending = s.pending /\ r.sent = s.sent
        /\ s.pub = s.saved => r.pub = s.pub
    <3>1. CASE s.saved \in s.learned
      BY <2>1, <3>1 DEF restore_WSD, State
    <3>2. CASE s.saved \notin s.learned
      BY <2>1, <3>2 DEF restore_WSD
    <3>3. QED
      BY <3>1, <3>2
  <2> HIDE DEF r
  <2>3. t \in State /\ SameModes(r, t)
    BY <2>2, InitDo
  <2>4. vk_restore(s) = resetSavedIMD(u)
    BY <1>2 DEF vk_restore, r
  <2> HIDE DEF t
  <2>5. /\ u \in State /\ u.pub = r.pub /\ u.learned = s.learned
        /\ \A m : t.current = arrivesIn(t, m) /\ s.saved \in Indexes => arrivesIn(u, m) = s.saved
    BY <2>1, <2>2, <2>3, FireDetail DEF SameModes
  <2> HIDE DEF u
  <2>6. /\ vk_restore(s) \in State /\ vk_restore(s).saved = NoMode
        /\ vk_restore(s).learned = s.learned /\ vk_restore(s).pub = r.pub
        /\ vk_restore(s).pending = u.pending /\ vk_restore(s).sent = u.sent
    BY <2>4, <2>5, ResetSaved
  <2>7. ASSUME s.saved # Elsewhere, NEW m, AgreesIn(s, m)
        PROVE  AgreesIn(vk_restore(s), m)
    <3>1. s.pub = s.saved /\ s.current = arrivesIn(s, m) /\ s.saved \in Indexes
      BY <1>2, <2>1, <2>7 DEF AgreesIn, Modes
    <3>2. t.current = arrivesIn(t, m)
      BY <2>2, <2>3, <3>1 DEF SameModes, arrivesIn
    <3>3. arrivesIn(u, m) = s.saved
      BY <2>5, <3>1, <3>2
    <3>4. arrivesIn(vk_restore(s), m) = arrivesIn(u, m)
      BY <2>6 DEF arrivesIn
    <3>5. QED
      BY <2>2, <2>6, <3>1, <3>3, <3>4 DEF AgreesIn
  <2>8. QED
    BY <2>6, <2>7
<1>3. QED
  BY <1>1, <1>2

LEMMA Temporary ==
  ASSUME NEW s \in State, NEW mode \in ModeOrNone
  PROVE  /\ temporary(s, mode) \in State
         /\ mode \in Indexes /\ s.pub # NoMode =>
              \A m : AgreesIn(s, m) => AgreesIn(temporary(s, mode), m)
<1> DEFINE t == IF s.saved = NoMode THEN [s EXCEPT !.saved = s.pub, !.current = s.pub] ELSE s
<1>1. /\ t \in State /\ t.pub = s.pub /\ t.pending = s.pending /\ t.sent = s.sent
      /\ s.saved = NoMode => t.saved = s.pub /\ t.current = s.pub
      /\ s.saved # NoMode => t.saved = s.saved /\ t.current = s.current
  <2>1. s.pub \in Modes \cup {NoMode}
    BY DEF State
  <2>2. ASSUME NEW p \in Modes \cup {NoMode}
        PROVE  LET v == [s EXCEPT !.saved = p, !.current = p]
               IN  /\ v \in State /\ v.pub = s.pub /\ v.pending = s.pending /\ v.sent = s.sent
                   /\ v.saved = p /\ v.current = p
    BY <2>2 DEF State
  <2>3. QED
    BY <2>1, <2>2
<1>2. temporary(s, mode) = firekeytoinputdetail(t, mode)
  BY DEF temporary
<1> HIDE DEF t
<1>3. temporary(s, mode) \in State /\ temporary(s, mode).pub = t.pub /\ temporary(s, mode).saved = t.saved
  BY <1>1, <1>2, FireDetail
<1>4. ASSUME mode \in Indexes, s.pub # NoMode, NEW m, AgreesIn(s, m)
      PROVE  AgreesIn(temporary(s, mode), m)
  <2>1. t.pub = t.saved /\ t.saved # NoMode /\ t.current = arrivesIn(t, m)
    BY <1>1, <1>4 DEF AgreesIn, arrivesIn
  <2>2. /\ temporary(s, mode).current = mode
        /\ arrivesIn(temporary(s, mode), m) = mode
    BY <1>1, <1>2, <1>4, <2>1, FireDetail
  <2>3. QED
    BY <1>3, <2>1, <2>2 DEF AgreesIn
<1>5. QED
  BY <1>3, <1>4

-------------------------------------------------------------------------------
(***************************************************************************)
(* Handle_VK_JIS_IM_CHANGE: whichever mode is next, only indexes change.   *)
(***************************************************************************)
LEMMA SeesawTypes ==
  /\ DOMAIN Seesaws = {"CUR_PRE", "EISUU_KANA", "KANA_EISUU", "KANA_OTHERS", "EISUU_OTHERS"}
  /\ \A x \in DOMAIN Seesaws : Seesaws[x].origin \in Index /\ Seesaws[x].other \in Index
  BY DEF Seesaws, Index, Indexes, Unset, EISU, HIRA

LEMMA ReplacementTypes ==
  /\ DOMAIN Replacements = {"SKIP_NONE_FORWARD", "SKIP_NONE_BACK", "SKIP_PRE_FORWARD", "SKIP_PRE_BACK",
                            "SKIP_EISUU_KANA", "SKIP_KANA", "SKIP_EISUU"}
  /\ \A x \in DOMAIN Replacements : Replacements[x].sign \in {-1, 1}
  BY DEF Replacements

\* Nothing changes but the indexes and the marks of a seesaw or a row of SKIP keys.
OnlyIndexes(s, t) == t \in State /\ SameModes(s, t)

LEMMA OnlyIndexesTrans ==
  ASSUME NEW s, NEW t, NEW u, OnlyIndexes(s, t), OnlyIndexes(t, u)
  PROVE  OnlyIndexes(s, u)
  BY DEF OnlyIndexes, SameModes

LEMMA Marks ==
  ASSUME NEW s \in State, NEW b \in BOOLEAN, NEW c \in {"init", "restore", "seesaw"}
  PROVE  /\ OnlyIndexes(s, s)
         /\ OnlyIndexes(s, [s EXCEPT !.seesawInit = b])
         /\ OnlyIndexes(s, [s EXCEPT !.armed = b])
         /\ OnlyIndexes(s, [s EXCEPT !.callback = c, !.armed = b])
<1>1. SameModes(s, s)
  BY DEF SameModes
<1>2. [s EXCEPT !.seesawInit = b] \in State /\ SameModes(s, [s EXCEPT !.seesawInit = b])
  BY DEF State, SameModes
<1>3. [s EXCEPT !.armed = b] \in State /\ SameModes(s, [s EXCEPT !.armed = b])
  BY DEF State, SameModes
<1>4. /\ [s EXCEPT !.callback = c, !.armed = b] \in State
      /\ SameModes(s, [s EXCEPT !.callback = c, !.armed = b])
  <2>1. [s EXCEPT !.callback = c] \in State /\ SameModes(s, [s EXCEPT !.callback = c])
    BY DEF State, SameModes
  <2>2. [s EXCEPT !.callback = c, !.armed = b] = [[s EXCEPT !.callback = c] EXCEPT !.armed = b]
    BY DEF State
  <2>3. \A u \in State : [u EXCEPT !.armed = b] \in State /\ SameModes(u, [u EXCEPT !.armed = b])
    BY DEF State, SameModes
  <2>4. QED
    BY <2>1, <2>2, <2>3 DEF SameModes
<1>5. QED
  BY <1>1, <1>2, <1>3, <1>4 DEF OnlyIndexes

LEMMA SeesawKeeps ==
  ASSUME NEW s0 \in State, NEW x \in DOMAIN Seesaws
  PROVE  OnlyIndexes(s0, get_index_for_seesaw(s0, x))
<1> DEFINE s == withOthers(s0, x)
           A == origin(s, x)
           B == otherSide(s, x)
           known == s.cur # Unset /\ s.pre # Unset
           turned ==
             CASE x = "CUR_PRE" /\ known -> set_indexes(s, A, B)
               [] x = "CUR_PRE" /\ ~known ->
                    set_indexes(s, Unset, IF s.pre + 1 > FEIS THEN EISU ELSE s.pre + 1)
               [] x # "CUR_PRE" /\ s.cur # A -> set_indexes(s, IF known THEN s.cur ELSE B, A)
               [] OTHER -> set_indexes(s, A, B)
<1>1. s \in State /\ SameModes(s0, s)
  <2>1. KATA \in Index
    BY DEF KATA, Index, Indexes
  <2>2. ASSUME NEW o \in Index PROVE [s0 EXCEPT !.others = o] \in State /\ SameModes(s0, [s0 EXCEPT !.others = o])
    BY <2>2 DEF State, SameModes
  <2>3. s0.others \in Index
    BY DEF State
  <2>4. QED
    BY <2>1, <2>2, <2>3 DEF withOthers
<1> HIDE DEF s
<1>2. s.cur \in Index /\ s.pre \in Index /\ s.others \in Index
  BY <1>1 DEF State
<1>3. A \in Index
  BY <1>2, SeesawTypes DEF origin
<1>4. B \in Index
  BY <1>2, SeesawTypes DEF otherSide
<1> HIDE DEF A, B
<1>5. /\ Unset \in Index
      /\ (IF s.pre + 1 > FEIS THEN EISU ELSE s.pre + 1) \in Index \cup {NoMode}
  BY <1>2 DEF Index, Indexes, Unset, NoMode, EISU, FEIS
<1>6. OnlyIndexes(s, turned)
  <2>1. ASSUME NEW p \in Index \cup {NoMode}, NEW c \in Index \cup {NoMode}
        PROVE  OnlyIndexes(s, set_indexes(s, p, c))
    BY <1>1, <2>1, SetIndexes DEF OnlyIndexes
  <2>2. OnlyIndexes(s, set_indexes(s, A, B))
    BY <1>3, <1>4, <2>1
  <2>3. OnlyIndexes(s, set_indexes(s, Unset, IF s.pre + 1 > FEIS THEN EISU ELSE s.pre + 1))
    BY <1>5, <2>1
  <2>4. OnlyIndexes(s, set_indexes(s, IF known THEN s.cur ELSE B, A))
    BY <1>2, <1>3, <1>4, <2>1
  <2>5. QED
    BY <2>2, <2>3, <2>4
<1>7. OnlyIndexes(s0, s)
  BY <1>1 DEF OnlyIndexes
<1>8. OnlyIndexes(s0, turned)
  BY <1>6, <1>7, OnlyIndexesTrans
<1>9. get_index_for_seesaw(s0, x) =
        IF x # "CUR_PRE" /\ s.seesawInit
        THEN [set_indexes(turned, IF turned.cur # A THEN turned.cur ELSE Unset, A)
                EXCEPT !.seesawInit = FALSE]
        ELSE turned
  BY DEF get_index_for_seesaw, s, A, B
<1> HIDE DEF turned
<1>10. OnlyIndexes(s0, [set_indexes(turned, IF turned.cur # A THEN turned.cur ELSE Unset, A)
                          EXCEPT !.seesawInit = FALSE])
  <2> DEFINE p == IF turned.cur # A THEN turned.cur ELSE Unset
             t == set_indexes(turned, p, A)
  <2>1. turned \in State /\ p \in Index
    BY <1>5, <1>8 DEF OnlyIndexes, State
  <2> HIDE DEF p
  <2>2. OnlyIndexes(turned, t)
    BY <1>3, <2>1, SetIndexes DEF OnlyIndexes
  <2> HIDE DEF t
  <2>3. OnlyIndexes(t, [t EXCEPT !.seesawInit = FALSE])
    BY <2>2, Marks DEF OnlyIndexes
  <2>4. QED
    BY <1>8, <2>2, <2>3, OnlyIndexesTrans DEF t, p
<1>11. QED
  BY <1>8, <1>9, <1>10

\* Among numbers below 6 there is a least one.
LEMMA LeastBelowSix ==
  ASSUME NEW V \in SUBSET (0 .. 5), V # {}
  PROVE  \E m \in V : \A v \in V : m <= v
<1>1. ASSUME NEW n \in 0 .. 5, n \in V, \A v \in 0 .. 5 : v < n => v \notin V
      PROVE  \E m \in V : \A v \in V : m <= v
  BY <1>1
<1>2. \A v \in V : v \in 0 .. 5
  OBVIOUS
<1>3. CASE 0 \in V
  BY <1>1, <1>3
<1>4. CASE 0 \notin V /\ 1 \in V
  BY <1>1, <1>4
<1>5. CASE 0 \notin V /\ 1 \notin V /\ 2 \in V
  BY <1>1, <1>5
<1>6. CASE 0 \notin V /\ 1 \notin V /\ 2 \notin V /\ 3 \in V
  BY <1>1, <1>6
<1>7. CASE 0 \notin V /\ 1 \notin V /\ 2 \notin V /\ 3 \notin V /\ 4 \in V
  BY <1>1, <1>7
<1>8. CASE 0 \notin V /\ 1 \notin V /\ 2 \notin V /\ 3 \notin V /\ 4 \notin V
  <2>1. \A v \in V : v = 5
    BY <1>2, <1>8
  <2>2. PICK v \in V : TRUE
    OBVIOUS
  <2>3. QED
    BY <2>1, <2>2
<1>9. QED
  BY <1>3, <1>4, <1>5, <1>6, <1>7, <1>8

\* How far i is from `from` in the direction of sign.
distance(from, sign, i) == (sign * (i - from)) % 6

LEMMA Distance ==
  ASSUME NEW from \in Indexes, NEW sign \in {-1, 1}, NEW i \in Indexes
  PROVE  /\ distance(from, sign, i) \in 0 .. 5
         /\ \A j \in Indexes : distance(from, sign, i) = distance(from, sign, j) => i = j
  BY DEF distance, Indexes

\* The next mode is the nearest one that is not left out.
LEMMA NextIndex ==
  ASSUME NEW from \in Indexes, NEW sign \in {-1, 1}, NEW left, ~(Indexes \subseteq left)
  PROVE  /\ nextIndex(from, sign, left) \in Indexes \ left
         /\ \A j \in Indexes \ left :
              distance(from, sign, nextIndex(from, sign, left)) <= distance(from, sign, j)
<1> DEFINE V == {distance(from, sign, i) : i \in Indexes \ left}
<1>1. V \in SUBSET (0 .. 5) /\ V # {}
  BY Distance
<1>2. PICK m \in V : \A v \in V : m <= v
  BY <1>1, LeastBelowSix
<1>3. PICK i \in Indexes \ left : m = distance(from, sign, i)
  BY <1>2
<1>4. \E k \in Indexes \ left :
        \A j \in Indexes \ left : distance(from, sign, k) <= distance(from, sign, j)
  BY <1>2, <1>3
<1>5. QED
  BY <1>4 DEF nextIndex, distance

\* Which modes a replacement leaves out, and what remains.
leftOut(s, x) ==
  Replacements[x].skip
    \cup {s.cur, IF Replacements[x].type = 3 /\ s.sign # -1 /\ s.cur = EISU THEN EISU ELSE s.others}
    \cup (IF UseAinu THEN {} ELSE {AINU})
    \cup (IF Replacements[x].type = 2 THEN {s.pre} ELSE {})

signOf(s, x) == IF Replacements[x].type = 3 THEN smartSign(s) ELSE Replacements[x].sign

LEMMA SmartSign ==
  ASSUME NEW s \in State
  PROVE  smartSign(s) \in {-1, 1}
<1>1. s.sign \in {-99, -1, 1}
  BY DEF State
<1>2. QED
  BY <1>1 DEF smartSign

LEMMA ReplaceStep ==
  ASSUME NEW s \in State, NEW x \in DOMAIN Replacements
  PROVE  LET t == get_index_for_replace(s, x)
         IN  /\ OnlyIndexes(s, t)
             /\ Replacements[x].type = 3 => t.sign = signOf(s, x)
             /\ s.cur # Unset /\ ~(Indexes \subseteq leftOut(s, x)) =>
                  /\ t.cur = nextIndex(s.cur, signOf(s, x), leftOut(s, x))
                  /\ t.cur \in Indexes \ leftOut(s, x)
                  /\ Replacements[x].type # 2 => t.pre = s.cur
                  /\ Replacements[x].type # 1 => t.others = t.cur
<1> DEFINE r == Replacements[x]
           sign == signOf(s, x)
           left == leftOut(s, x)
           t == IF r.type = 3 THEN [s EXCEPT !.sign = sign, !.skips = TRUE] ELSE s
           i == nextIndex(s.cur, sign, left)
           p == IF r.type = 2 THEN Unset ELSE s.cur
           u == set_indexes(t, p, i)
           o == IF r.type = 1 THEN u.others ELSE i
           g == get_index_for_replace(s, x)
<1>1. sign \in {-1, 1}
  BY SmartSign, ReplacementTypes DEF signOf
<1>2. /\ s.cur \in Index /\ Unset \in Index
  BY DEF State, Index
<1>3. g = IF s.cur = Unset \/ Indexes \subseteq left THEN t ELSE [u EXCEPT !.others = o]
  BY DEF get_index_for_replace, signOf, leftOut
<1> HIDE DEF sign, left, g
<1>4. OnlyIndexes(s, t) /\ (r.type = 3 => t.sign = sign) /\ (r.type # 3 => t = s)
  <2>1. ASSUME NEW n \in {-1, 1}
        PROVE  LET v == [s EXCEPT !.sign = n, !.skips = TRUE] IN OnlyIndexes(s, v) /\ v.sign = n
    BY <2>1 DEF OnlyIndexes, State, SameModes
  <2>2. OnlyIndexes(s, s)
    BY DEF OnlyIndexes, SameModes
  <2>3. QED
    BY <1>1, <2>1, <2>2
<1> HIDE DEF t
<1>5. CASE s.cur = Unset \/ Indexes \subseteq left
  BY <1>3, <1>4, <1>5 DEF g, sign, left
<1>6. CASE ~(s.cur = Unset \/ Indexes \subseteq left)
  <2>1. s.cur \in Indexes
    BY <1>2, <1>6 DEF Index
  <2>2. i \in Indexes \ left
    BY <1>1, <1>6, <2>1, NextIndex
  <2>3. /\ i \in Index /\ i > 0 /\ p \in Index /\ (r.type # 2 => p > 0 /\ p = s.cur)
    BY <1>2, <2>1, <2>2 DEF Index, Indexes
  <2> HIDE DEF i, p
  <2>4. /\ OnlyIndexes(t, u) /\ u.cur = i /\ (r.type # 2 => u.pre = s.cur) /\ u.sign = t.sign
    BY <1>4, <2>3, SetIndexes DEF OnlyIndexes
  <2> HIDE DEF u
  <2>5. o \in Index /\ (r.type # 1 => o = i)
    BY <2>3, <2>4 DEF OnlyIndexes, State
  <2> HIDE DEF o
  <2>6. ASSUME NEW v \in State, NEW n \in Index
        PROVE  LET w == [v EXCEPT !.others = n]
               IN  OnlyIndexes(v, w) /\ w.others = n /\ w.cur = v.cur /\ w.pre = v.pre /\ w.sign = v.sign
    BY <2>6 DEF OnlyIndexes, State, SameModes
  <2>7. /\ OnlyIndexes(u, g) /\ g.others = o /\ g.cur = i /\ (r.type # 2 => g.pre = s.cur)
        /\ g.sign = t.sign
    BY <1>3, <1>6, <2>4, <2>5, <2>6 DEF OnlyIndexes
  <2>8. OnlyIndexes(s, g)
    BY <1>4, <2>4, <2>7, OnlyIndexesTrans
  <2>9. QED
    BY <1>4, <2>2, <2>5, <2>7, <2>8 DEF g, i, sign, left
<1>7. QED
  BY <1>5, <1>6

LEMMA ChangedKeeps ==
  ASSUME NEW s \in State, NEW x \in Changes
  PROVE  OnlyIndexes(s, changed(s, x))
<1>1. CASE x \in DOMAIN Seesaws
  BY <1>1, SeesawKeeps DEF changed
<1>2. CASE x \notin DOMAIN Seesaws
  BY <1>2, ReplaceStep DEF changed, Changes
<1>3. QED
  BY <1>1, <1>2

LEMMA IMChange ==
  ASSUME NEW s0 \in State, NEW x \in Changes
  PROVE  /\ im_change(s0, x) \in State
         /\ \A m :
              /\ s0.saved = NoMode /\ AgreesIn(s0, m)
              /\ \/ im_change(s0, x).sent = << >>
                 \/ im_change(s0, x).sent[Len(im_change(s0, x).sent)] \in s0.learned
              => AgreesIn(im_change(s0, x), m)
<1> DEFINE s == changed(s0, x)
           t == IF startsSeesawTimer(s, x) THEN [s EXCEPT !.callback = "seesaw", !.armed = TRUE] ELSE s
           u == replaceOrInit(t, s.cur)
           v == fireMode(u, s.cur)
<1>1. OnlyIndexes(s0, s)
  BY ChangedKeeps
<1>2. im_change(s0, x) = IF s.cur = Unset THEN s ELSE v
  BY DEF im_change
<1> HIDE DEF s
<1>3. OnlyIndexes(s, t)
  BY <1>1, Marks DEF OnlyIndexes
<1>4. OnlyIndexes(s0, t)
  BY <1>1, <1>3, OnlyIndexesTrans
<1>5. CASE s.cur = Unset
  BY <1>1, <1>2, <1>5, SameAgrees DEF OnlyIndexes
<1>6. CASE s.cur # Unset
  <2>1. s.cur \in Modes /\ s.cur \in ModeOrNone
    BY <1>1, <1>6 DEF OnlyIndexes, State, Index, Modes, ModeOrNone
  <2> HIDE DEF t
  <2>2. u \in State /\ (s.cur \in t.learned => SameModes([t EXCEPT !.pub = s.cur], u))
    BY <1>4, <2>1, ReplaceOrInit DEF OnlyIndexes
  <2>3. v \in State /\ v.sent # << >> /\ v.sent[Len(v.sent)] = s.cur
    BY <2>1, <2>2, FireMode
  <2>4. ASSUME s0.saved = NoMode, s.cur \in s0.learned
        PROVE  u.pub = s.cur /\ u.saved = NoMode
    BY <1>4, <2>2, <2>4 DEF OnlyIndexes, SameModes, State
  <2>5. ASSUME s0.saved = NoMode, s.cur \in s0.learned, NEW m
        PROVE  AgreesIn(v, m)
    BY <2>1, <2>2, <2>4, <2>5, FireMode
  <2>6. im_change(s0, x) = v
    BY <1>2, <1>6
  <2> HIDE DEF v
  <2>7. QED
    BY <2>3, <2>5, <2>6
<1>7. QED
  BY <1>5, <1>6

-------------------------------------------------------------------------------
(***************************************************************************)
(* A key goes down or comes up.                                            *)
(***************************************************************************)
LEMMA KeyTypes ==
  ASSUME NEW key \in Key
  PROVE  /\ key.kind \in {"plain", "restore", "function", "bare", "select", "mapped", "keys",
                          "toggle", "change", "temporary", "switch"}
         /\ key.kind = "function" => key.to \in ModeOrNone
         /\ key.kind \in {"bare", "mapped", "keys", "temporary", "switch"} => key.to \in Indexes
         /\ key.kind = "select" => key.to \in Modes
         /\ key.kind = "change" => key.to \in Changes
  BY DEF Key, ModeOrNone, Indexes, EISU, HIRA, KATA, HKAT, AINU, FEIS

LEMMA PostRemap ==
  ASSUME TypeOK, NEW key
  PROVE  /\ postRemap(key) \in State
         /\ im.learned \subseteq postRemap(key).learned
         /\ postRemap(key).saved \in {im.saved, NoMode}
         /\ Agrees /\ (~isPPP(key) /\ (im.initDo \/ im.learned = {}) => cws = arrives)
              => AgreesIn(postRemap(key), sys)
<1> DEFINE a == [im EXCEPT !.armed = FALSE]
           s == learn_WSD(a)
           u == update_WSD(s)
           v == [u EXCEPT !.initDo = FALSE]
<1>1. im \in State /\ cws \in ModeOrNone
  BY DEF TypeOK, ModeOrNone
<1>2. OnlyIndexes(im, a) /\ a.initDo = im.initDo
  <2>1. a.initDo = im.initDo
    BY <1>1 DEF State
  <2>2. QED
    BY <1>1, <2>1, Marks
<1>3. postRemap(key) = IF ~isPPP(key) /\ s.initDo THEN resetSavedIMD(v) ELSE s
  BY DEF postRemap
<1> HIDE DEF a
<1>4. /\ s \in State /\ im.learned \subseteq s.learned
      /\ s.pub = im.pub /\ s.saved = im.saved /\ s.current = im.current
      /\ s.pending = im.pending /\ s.sent = im.sent
      /\ s.initDo => im.initDo \/ im.learned = {}
  <2>1. a \in State /\ SameModes(im, a)
    BY <1>2 DEF OnlyIndexes
  <2>2. CASE cws \in Indexes
    <3> DEFINE b == a.initDo \/ a.learned = {}
               c == IF a.learned = {} THEN cws ELSE a.cur
               l == a.learned \cup {cws}
    <3>1. b \in BOOLEAN /\ c \in Index /\ l \in SUBSET Indexes
      BY <2>1, <2>2 DEF State, Index
    <3>2. s = [a EXCEPT !.learned = l, !.initDo = b, !.cur = c]
      BY <2>1, <2>2 DEF learn_WSD, State
    <3> HIDE DEF b, c, l, s
    <3>3. /\ s \in State /\ s.learned = l /\ s.initDo = b
          /\ s.pub = a.pub /\ s.saved = a.saved /\ s.current = a.current
          /\ s.pending = a.pending /\ s.sent = a.sent
      BY <2>1, <3>1, <3>2 DEF State
    <3>4. QED
      BY <1>2, <2>1, <3>3 DEF SameModes, b, l
  <2>3. CASE cws \notin Indexes
    BY <1>2, <2>1, <2>3 DEF learn_WSD, SameModes
  <2>4. QED
    BY <2>2, <2>3
<1> HIDE DEF s
<1>5. CASE ~(~isPPP(key) /\ s.initDo)
  <2>1. Agrees => AgreesIn(s, sys)
    BY <1>4 DEF Agrees, AgreesIn, arrives, arrivesIn
  <2>2. QED
    BY <1>3, <1>4, <1>5, <2>1
<1>6. CASE ~isPPP(key) /\ s.initDo
  <2> DEFINE w == [s EXCEPT !.pub = cws]
  <2>1. w \in State /\ w.pub = cws /\ w.learned = s.learned /\ w.pending = s.pending /\ w.sent = s.sent
    BY <1>1, <1>4 DEF State, ModeOrNone
  <2>2. IMD2index(cws) \in Index
    BY DEF IMD2index, Index
  <2>3. u = set_new_index(w, IMD2index(cws))
    BY DEF update_WSD
  <2> HIDE DEF w, u
  <2>4. u \in State /\ SameModes(w, u)
    BY <2>1, <2>2, <2>3, SetNewIndex
  <2>5. v \in State /\ SameModes(u, v)
    BY <2>4, InitDo
  <2> HIDE DEF v
  <2>6. /\ postRemap(key) = resetSavedIMD(v)
        /\ resetSavedIMD(v) \in State /\ resetSavedIMD(v).saved = NoMode
        /\ resetSavedIMD(v).pub = cws /\ resetSavedIMD(v).learned = s.learned
        /\ resetSavedIMD(v).pending = im.pending /\ resetSavedIMD(v).sent = im.sent
    BY <1>3, <1>4, <1>6, <2>1, <2>4, <2>5, ResetSaved DEF SameModes
  <2>7. cws = arrives => AgreesIn(resetSavedIMD(v), sys)
    BY <2>6 DEF AgreesIn, arrives, arrivesIn
  <2>8. QED
    BY <1>4, <1>6, <2>6, <2>7
<1>7. QED
  BY <1>5, <1>6

\* As recognised, after ControlWorkspaceData has looked at the report.
followed(s, key) ==
  /\ key.kind # "select" /\ ~(key.kind = "function" /\ key.to # NoMode)
  /\ key.kind \in {"bare", "mapped", "keys"} => key.to \in s.learned
  /\ key.kind \in {"toggle", "change"} =>
       \/ remapped(s, key).sent = << >>
       \/ remapped(s, key).sent[Len(remapped(s, key).sent)] \in s.learned
  /\ key.kind = "mapped" => s.saved = NoMode
  /\ s.saved # Elsewhere

\* A mode key that is sent, with the filters' mode replaced by the one it stands for.
LEMMA ReplaceAndFire ==
  ASSUME NEW s \in State, s.saved = NoMode, NEW mode \in Modes, NEW t \in State,
         mode \in s.learned => SameModes([s EXCEPT !.pub = mode], t)
  PROVE  /\ fireMode(t, mode) \in State
         /\ mode \in s.learned => \A m : AgreesIn(fireMode(t, mode), m)
<1>1. mode \in s.learned => t.pub = mode /\ t.saved = NoMode
  BY DEF SameModes, State
<1>2. QED
  BY <1>1, FireMode

LEMMA Bare ==
  ASSUME NEW s \in State, NEW mode \in Indexes
  PROVE  /\ bare(s, mode) \in State
         /\ mode \in s.learned => \A m : AgreesIn(bare(s, mode), m)
<1> DEFINE t == replaceOrInit(s, mode)
           r == resetSavedIMD(t)
<1>1. mode \in Modes /\ mode \in ModeOrNone
  BY DEF Modes, ModeOrNone
<1>2. t \in State /\ (mode \in s.learned => SameModes([s EXCEPT !.pub = mode], t))
  BY <1>1, ReplaceOrInit
<1>3. bare(s, mode) = fireMode(IF mode \in s.learned THEN r ELSE t, mode)
  BY DEF bare
<1> HIDE DEF t
<1>4. r \in State /\ r.saved = NoMode /\ r.pub = t.pub
  BY <1>2, ResetSaved
<1> HIDE DEF r
<1>5. mode \in s.learned => r.pub = mode
  BY <1>2, <1>4 DEF SameModes, State
<1>6. QED
  BY <1>1, <1>2, <1>3, <1>4, <1>5, FireMode

LEMMA Toggle ==
  ASSUME NEW s \in State
  PROVE  /\ toggle(s) \in State
         /\ s.saved = NoMode /\ (toggle(s).sent = << >> \/ toggle(s).sent[Len(toggle(s).sent)] \in s.learned)
              => \A m : AgreesIn(toggle(s), m)
<1> DEFINE mode == IF s.pub \in Japanese THEN EISU ELSE HIRA
           t == replaceOrInit(s, mode)
<1>1. mode \in Modes /\ mode \in ModeOrNone
  BY DEF Modes, ModeOrNone, Indexes, EISU, HIRA
<1>2. toggle(s) = fireMode(t, mode)
  BY DEF toggle
<1> HIDE DEF mode
<1>3. t \in State /\ (mode \in s.learned => SameModes([s EXCEPT !.pub = mode], t))
  BY <1>1, ReplaceOrInit
<1> HIDE DEF t
<1>4. toggle(s) \in State /\ toggle(s).sent # << >> /\ toggle(s).sent[Len(toggle(s).sent)] = mode
  BY <1>1, <1>2, <1>3, FireMode
<1>5. ASSUME s.saved = NoMode, mode \in s.learned PROVE \A m : AgreesIn(toggle(s), m)
  BY <1>1, <1>2, <1>3, <1>5, ReplaceAndFire
<1>6. QED
  BY <1>4, <1>5

LEMMA SentMode ==
  ASSUME NEW s \in State, NEW m \in Modes
  PROVE  arrivesIn(s, m) # NoMode
<1>1. s.sent \in Seq(Modes) /\ NoMode \notin Modes
  BY DEF State, Modes, Indexes, NoMode, Elsewhere
<1>2. s.sent # << >> => s.sent[Len(s.sent)] \in Modes
  BY <1>1
<1>3. QED
  BY <1>1, <1>2 DEF arrivesIn

\* The system's own shortcut: the mode goes out, the filters are not told.
LEMMA SendsOnly ==
  ASSUME NEW s \in State, NEW mode \in Modes
  PROVE  [s EXCEPT !.sent = Append(@, mode)] \in State
<1>1. s.sent \in Seq(Modes)
  BY DEF State
<1> DEFINE q == Append(s.sent, mode)
<1>2. q \in Seq(Modes)
  BY <1>1
<1>3. [s EXCEPT !.sent = Append(@, mode)] = [s EXCEPT !.sent = q]
  BY DEF State
<1> HIDE DEF q
<1>4. QED
  BY <1>2, <1>3 DEF State

LEMMA Remapped ==
  ASSUME NEW s \in State, NEW key \in Key
  PROVE  /\ remapped(s, key) \in State
         /\ followed(s, key) => \A m \in Modes : AgreesIn(s, m) => AgreesIn(remapped(s, key), m)
<1> DEFINE r == vk_restore(s)
           n == noInit(r)
<1>1. /\ r \in State /\ r.saved = NoMode /\ r.learned = s.learned
      /\ s.saved # Elsewhere => \A m : AgreesIn(s, m) => AgreesIn(r, m)
  BY Restore
<1> HIDE DEF r
<1>2. /\ n \in State /\ n.saved = NoMode /\ n.learned = s.learned
      /\ s.saved # Elsewhere => \A m : AgreesIn(s, m) => AgreesIn(n, m)
  <2>1. n \in State /\ SameModes(r, n)
    BY <1>1, NoInit
  <2>2. \A m : AgreesIn(r, m) <=> AgreesIn(n, m)
    BY <2>1, SameAgrees
  <2>3. QED
    BY <1>1, <2>1, <2>2 DEF SameModes
<1> HIDE DEF n
<1>3. key.to \in Indexes => key.to \in Modes /\ key.to \in ModeOrNone
  BY DEF Modes, ModeOrNone
<1>4. CASE key.kind = "plain"
  BY <1>2, <1>4, Flush DEF remapped, followed, r, n
<1>5. CASE key.kind = "restore"
  BY <1>2, <1>5 DEF remapped, followed, r, n
<1>6. CASE key.kind = "function"
  <2> DEFINE f == flush([s EXCEPT !.initDo = TRUE])
  <2>1. /\ [s EXCEPT !.initDo = TRUE] \in State
        /\ \A m : AgreesIn(s, m) <=> AgreesIn([s EXCEPT !.initDo = TRUE], m)
    BY InitDo, SameAgrees
  <2>2. f \in State /\ \A m : AgreesIn(f, m) <=> AgreesIn(s, m)
    BY <2>1, Flush
  <2>3. remapped(s, key) = IF key.to = NoMode THEN f ELSE [f EXCEPT !.sent = Append(@, key.to)]
    BY <1>6 DEF remapped
  <2> HIDE DEF f
  <2>4. key.to = NoMode \/ key.to \in Modes
    BY <1>6, KeyTypes DEF ModeOrNone
  <2>5. QED
    BY <1>6, <2>2, <2>3, <2>4, SendsOnly DEF followed
<1>7. CASE key.kind = "bare"
  BY <1>7, KeyTypes, Bare DEF remapped, followed
<1>8. CASE key.kind = "mapped"
  <2> DEFINE t == noInit(replace_WSD(s, key.to))
  <2>1. key.to \in Modes /\ key.to \in ModeOrNone
    BY <1>3, <1>8, KeyTypes
  <2>2. t \in State /\ (key.to \in s.learned => SameModes([s EXCEPT !.pub = key.to], t))
    BY <2>1, ReplaceWSD, NoInit DEF SameModes
  <2>3. remapped(s, key) = fireMode(t, key.to)
    BY <1>8 DEF remapped
  <2> HIDE DEF t
  <2>4. fireMode(t, key.to) \in State
    BY <2>1, <2>2, FireMode
  <2>5. s.saved = NoMode /\ key.to \in s.learned => \A m : AgreesIn(fireMode(t, key.to), m)
    BY <2>1, <2>2, ReplaceAndFire
  <2>6. QED
    BY <1>8, <2>3, <2>4, <2>5 DEF followed
<1>9. CASE key.kind = "keys"
  <2> DEFINE t == noInit(replace_WSD(r, key.to))
  <2>1. key.to \in Modes /\ key.to \in ModeOrNone
    BY <1>3, <1>9, KeyTypes
  <2>2. t \in State /\ (key.to \in r.learned => SameModes([r EXCEPT !.pub = key.to], t))
    BY <1>1, <2>1, ReplaceWSD, NoInit DEF SameModes
  <2>3. remapped(s, key) = fireMode(t, key.to)
    BY <1>9 DEF remapped, r
  <2> HIDE DEF t
  <2>4. /\ fireMode(t, key.to) \in State
        /\ key.to \in r.learned => \A m : AgreesIn(fireMode(t, key.to), m)
    BY <1>1, <2>1, <2>2, ReplaceAndFire
  <2>5. QED
    BY <1>1, <1>9, <2>3, <2>4 DEF followed
<1>10. CASE key.kind = "select"
  <2>1. remapped(s, key) = [n EXCEPT !.sent = Append(@, key.to)]
    BY <1>10 DEF remapped, n, r
  <2>2. key.to \in Modes
    BY <1>10, KeyTypes
  <2>3. QED
    BY <1>2, <1>10, <2>1, <2>2, SendsOnly DEF followed
<1>11. CASE key.kind = "toggle"
  <2>1. remapped(s, key) = toggle(n)
    BY <1>11 DEF remapped, n, r
  <2>2. QED
    BY <1>2, <1>11, <2>1, Toggle DEF followed
<1>12. CASE key.kind = "change"
  <2>1. remapped(s, key) = im_change(n, key.to)
    BY <1>12 DEF remapped, n, r
  <2>2. key.to \in Changes
    BY <1>12, KeyTypes
  <2>3. QED
    BY <1>2, <1>12, <2>1, <2>2, IMChange DEF followed
<1>13. CASE key.kind = "temporary" \/ key.kind = "switch"
  <2>1. key.to \in Indexes /\ key.to \in ModeOrNone
    BY <1>3, <1>13, KeyTypes
  <2>2. ASSUME NEW t \in State, SameModes(s, t)
        PROVE  /\ temporary(t, key.to) \in State
               /\ \A m \in Modes : AgreesIn(s, m) => AgreesIn(temporary(t, key.to), m)
    <3>1. ASSUME NEW m \in Modes, AgreesIn(s, m) PROVE t.pub # NoMode /\ AgreesIn(t, m)
      BY <2>2, <3>1, SentMode, SameAgrees DEF SameModes, AgreesIn
    <3>2. QED
      BY <2>1, <3>1, Temporary
  <2>3. SameModes(s, s) /\ noInit(s) \in State /\ SameModes(s, noInit(s))
    BY NoInit DEF SameModes
  <2>4. CASE key.kind = "temporary"
    <3>1. remapped(s, key) = flush(temporary(s, key.to))
      BY <2>4 DEF remapped
    <3>2. QED
      BY <2>2, <2>3, <3>1, Flush
  <2>5. CASE key.kind = "switch"
    <3>1. remapped(s, key) = temporary(noInit(s), key.to)
      BY <2>5 DEF remapped
    <3>2. QED
      BY <2>2, <2>3, <3>1
  <2>6. QED
    BY <1>13, <2>4, <2>5
<1>14. QED
  BY <1>4, <1>5, <1>6, <1>7, <1>8, <1>9, <1>10, <1>11, <1>12, <1>13, KeyTypes

LEMMA JustAfterRemap ==
  ASSUME NEW s \in State, NEW key
  PROVE  OnlyIndexes(s, justAfterRemap(s, key))
<1> DEFINE g == IF s.sign = -99 THEN -1 ELSE -s.sign
<1>1. g \in {-99, -1, 1}
  BY DEF State
<1>2. justAfterRemap(s, key) =
        IF s.skips /\ ~advances(key) THEN [s EXCEPT !.skips = FALSE, !.sign = g] ELSE s
  BY DEF justAfterRemap, State
<1> HIDE DEF g
<1>3. [s EXCEPT !.skips = FALSE, !.sign = g] \in State
  BY <1>1 DEF State
<1>4. SameModes(s, [s EXCEPT !.skips = FALSE, !.sign = g]) /\ SameModes(s, s)
  BY DEF SameModes, State
<1>5. QED
  BY <1>2, <1>3, <1>4 DEF OnlyIndexes

LEMMA KeysTyped ==
  ASSUME TypeOK, NEW key \in keys
  PROVE  key \in Key
  BY InputModeConstants DEF TypeOK

LEMMA PressKeeps ==
  ASSUME TypeOK, NEW key \in keys, Press(key)
  PROVE  /\ TypeOK'
         /\ Agrees /\ im.saved # Elsewhere /\ recognised(key) => Agrees'
<1> DEFINE s == postRemap(key)
           t == remapped(s, key)
<1>1. key \in Key /\ im \in State /\ sys \in Modes
  BY KeysTyped DEF TypeOK
<1>2. im' = justAfterRemap(t, key) /\ UNCHANGED << keys, sys, cws >> /\ down' = down \cup {key}
  BY DEF Press
<1>3. /\ s \in State /\ im.learned \subseteq s.learned /\ s.saved \in {im.saved, NoMode}
      /\ Agrees /\ (~isPPP(key) /\ (im.initDo \/ im.learned = {}) => cws = arrives) => AgreesIn(s, sys)
  BY PostRemap
<1> HIDE DEF s
<1>4. /\ t \in State
      /\ followed(s, key) => \A m \in Modes : AgreesIn(s, m) => AgreesIn(t, m)
  BY <1>1, <1>3, Remapped
<1>5. OnlyIndexes(t, im')
  BY <1>2, <1>4, JustAfterRemap
<1>6. TypeOK'
  BY <1>2, <1>5 DEF TypeOK, OnlyIndexes
<1>7. ASSUME Agrees, im.saved # Elsewhere, recognised(key) PROVE Agrees'
  <2>1. im'.sent = t.sent
    BY <1>5 DEF OnlyIndexes, SameModes
  <2>2. followed(s, key)
    <3>1. key.kind \in {"bare", "mapped", "keys"} => key.to \in s.learned
      BY <1>3, <1>7 DEF recognised, asksLearned
    <3>2. key.kind \in {"toggle", "change"} =>
            t.sent = << >> \/ t.sent[Len(t.sent)] \in s.learned
      BY <1>3, <1>7, <2>1 DEF recognised, asksLearned
    <3>3. QED
      BY <1>3, <1>7, <3>1, <3>2 DEF recognised, followed, Elsewhere, NoMode
  <2>3. AgreesIn(s, sys)
    BY <1>3, <1>7 DEF recognised
  <2>4. AgreesIn(t, sys)
    BY <1>1, <1>4, <2>2, <2>3
  <2>5. AgreesIn(im', sys')
    BY <1>2, <1>5, <2>4, SameAgrees DEF OnlyIndexes
  <2>6. QED
    BY <2>5 DEF Agrees, AgreesIn, arrives, arrivesIn
<1>8. QED
  BY <1>6, <1>7

LEMMA SetTimeout ==
  ASSUME NEW s \in State, NEW use \in {"init", "restore", "seesaw"}
  PROVE  OnlyIndexes(s, setTimeout(s, use))
  BY Marks DEF setTimeout

LEMMA ReleaseKeeps ==
  ASSUME TypeOK, NEW key \in keys, Release(key)
  PROVE  TypeOK' /\ (Agrees => Agrees')
<1>1. key \in Key /\ im \in State
  BY KeysTyped DEF TypeOK
<1>2. PICK ppp \in BOOLEAN : im' = released(im, key, ppp)
  BY DEF Release, isPPP
<1>3. UNCHANGED << keys, sys, cws >> /\ down' \subseteq down
  BY DEF Release
<1> DEFINE t == IF ppp THEN im ELSE setTimeout(im, "init")
<1>4. OnlyIndexes(im, t)
  BY <1>1, SetTimeout, Marks
<1>5. im' = CASE key.kind = "temporary" -> setTimeout(t, "restore")
              [] key.kind = "keys" -> [t EXCEPT !.armed = FALSE]
              [] key.kind \in {"switch", "restore", "select"} -> t
              [] OTHER -> flush(t)
  BY <1>2 DEF released
<1> HIDE DEF t
<1>6. /\ t \in State /\ \A m : AgreesIn(im, m) <=> AgreesIn(t, m)
  BY <1>4, SameAgrees DEF OnlyIndexes
<1>7. im' \in State /\ \A m : AgreesIn(t, m) <=> AgreesIn(im', m)
  <2>1. ASSUME NEW u, OnlyIndexes(t, u)
        PROVE  u \in State /\ \A m : AgreesIn(t, m) <=> AgreesIn(u, m)
    BY <2>1, SameAgrees DEF OnlyIndexes
  <2>2. CASE key.kind = "temporary"
    BY <1>5, <1>6, <2>1, <2>2, SetTimeout
  <2>3. CASE key.kind = "keys"
    BY <1>5, <1>6, <2>1, <2>3, Marks
  <2>4. CASE key.kind \in {"switch", "restore", "select"}
    BY <1>5, <1>6, <2>4
  <2>5. CASE key.kind \notin {"temporary", "keys", "switch", "restore", "select"}
    <3>1. im' = flush(t)
      BY <1>5, <2>5
    <3>2. QED
      BY <1>6, <3>1, Flush
  <2>6. QED
    BY <2>2, <2>3, <2>4, <2>5
<1>8. Agrees => AgreesIn(im', sys')
  BY <1>3, <1>6, <1>7, AgreesIsIn
<1>9. QED
  BY <1>3, <1>7, <1>8 DEF TypeOK, Agrees, AgreesIn, arrives, arrivesIn

LEMMA TimerKeeps ==
  ASSUME TypeOK, timeoutAfterKey2
  PROVE  TypeOK' /\ (Agrees /\ im.saved # Elsewhere => Agrees')
<1> DEFINE a == [im EXCEPT !.armed = FALSE]
<1>1. im \in State
  BY DEF TypeOK
<1>2. OnlyIndexes(im, a)
  BY <1>1, Marks
<1>3. im' = expired(a) /\ UNCHANGED << keys, down, sys, cws >>
  BY DEF timeoutAfterKey2
<1> HIDE DEF a
<1>4. /\ a \in State /\ a.saved = im.saved /\ \A m : AgreesIn(im, m) <=> AgreesIn(a, m)
  BY <1>2, SameAgrees DEF OnlyIndexes, SameModes
<1>5. im' \in State /\ (a.saved # Elsewhere => \A m : AgreesIn(a, m) => AgreesIn(im', m))
  <2>1. a.callback \in {"init", "restore", "seesaw"}
    BY <1>4 DEF State
  <2>2. CASE a.callback = "init"
    <3>1. im' = [a EXCEPT !.initDo = TRUE]
      BY <1>3, <2>2 DEF expired
    <3>2. QED
      BY <1>4, <3>1, InitDo, SameAgrees
  <2>3. CASE a.callback = "restore"
    <3>1. im' = noInit(vk_restore(a))
      BY <1>3, <2>3 DEF expired
    <3>2. /\ vk_restore(a) \in State
          /\ a.saved # Elsewhere => \A m : AgreesIn(a, m) => AgreesIn(vk_restore(a), m)
      BY <1>4, Restore
    <3>3. noInit(vk_restore(a)) \in State /\ SameModes(vk_restore(a), noInit(vk_restore(a)))
      BY <3>2, NoInit
    <3>4. QED
      BY <3>1, <3>2, <3>3, SameAgrees
  <2>4. CASE a.callback = "seesaw"
    <3>1. im' = [a EXCEPT !.seesawInit = TRUE]
      BY <1>3, <2>4 DEF expired
    <3>2. OnlyIndexes(a, im')
      BY <1>4, <3>1, Marks
    <3>3. QED
      BY <3>2, SameAgrees DEF OnlyIndexes
  <2>5. QED
    BY <2>1, <2>2, <2>3, <2>4
<1>6. Agrees /\ im.saved # Elsewhere => AgreesIn(im', sys')
  BY <1>3, <1>4, <1>5, AgreesIsIn
<1>7. QED
  BY <1>3, <1>5, <1>6 DEF TypeOK, Agrees, AgreesIn, arrives, arrivesIn

LEMMA FlushKeeps ==
  ASSUME TypeOK, fire_timer_callback
  PROVE  TypeOK' /\ (Agrees => Agrees')
<1>1. im \in State /\ im' = flush(im) /\ UNCHANGED << keys, down, sys, cws >>
  BY DEF TypeOK, fire_timer_callback
<1>2. im' \in State /\ (Agrees => AgreesIn(im', sys'))
  BY <1>1, Flush, AgreesIsIn
<1>3. QED
  BY <1>1, <1>2 DEF TypeOK, Agrees, AgreesIn, arrives, arrivesIn

LEMMA TailLast ==
  ASSUME NEW q \in Seq(Modes), q # << >>
  PROVE  /\ Tail(q) \in Seq(Modes) /\ Head(q) \in Modes
         /\ Tail(q) = << >> => Head(q) = q[Len(q)]
         /\ Tail(q) # << >> => Tail(q)[Len(Tail(q))] = q[Len(q)]
<1> DEFINE t == Tail(q)
<1>1. /\ t \in Seq(Modes) /\ Head(q) \in Modes /\ Head(q) = q[1]
      /\ Len(q) \in Nat /\ Len(q) >= 1 /\ Len(t) = Len(q) - 1
      /\ \A i \in 1 .. Len(t) : t[i] = q[i + 1]
  OBVIOUS
<1> HIDE DEF t
<1>2. ASSUME t = << >> PROVE Head(q) = q[Len(q)]
  <2>1. Len(t) = 0
    BY <1>2
  <2>2. Len(q) = 1
    BY <1>1, <2>1, SMT
  <2>3. Head(q) = q[1]
    BY <1>1
  <2>4. QED
    BY <2>2, <2>3
<1>3. ASSUME t # << >> PROVE t[Len(t)] = q[Len(q)]
  <2>1. Len(t) \in Nat /\ Len(t) # 0
    BY <1>1, <1>3
  <2>2. t[Len(t)] = q[Len(t) + 1] /\ Len(t) + 1 = Len(q)
    BY <1>1, <2>1
  <2>3. QED
    BY <2>2
<1>4. QED
  BY <1>1, <1>2, <1>3 DEF t

\* The system obeys: what arrives then is what would have arrived.
LEMMA ObeyKeeps ==
  ASSUME TypeOK, Obey
  PROVE  TypeOK' /\ (Agrees => Agrees')
<1>1. im \in State /\ im.sent \in Seq(Modes) /\ im.sent # << >>
  BY DEF TypeOK, Obey, State
<1>2. /\ sys' = Head(im.sent) /\ im' = [im EXCEPT !.sent = Tail(im.sent)]
      /\ UNCHANGED << keys, down, cws >>
  BY <1>1 DEF Obey, State
<1>3. /\ Tail(im.sent) \in Seq(Modes) /\ Head(im.sent) \in Modes
      /\ Tail(im.sent) = << >> => Head(im.sent) = im.sent[Len(im.sent)]
      /\ Tail(im.sent) # << >> => Tail(im.sent)[Len(Tail(im.sent))] = im.sent[Len(im.sent)]
  BY <1>1, TailLast
<1>4. /\ im' \in State /\ im'.sent = Tail(im.sent) /\ im'.pub = im.pub /\ im'.saved = im.saved
      /\ im'.current = im.current /\ im'.pending = im.pending
  BY <1>1, <1>2, <1>3 DEF State
<1>5. arrives' = arrives
  BY <1>1, <1>2, <1>3, <1>4 DEF arrives
<1>6. QED
  BY <1>2, <1>3, <1>4, <1>5 DEF TypeOK, Agrees

LEMMA OutsideKeeps ==
  ASSUME TypeOK, Report \/ Menu \/ UNCHANGED vars
  PROVE  TypeOK' /\ (Agrees /\ sys' = sys => Agrees')
<1>1. im' = im /\ keys' = keys /\ down' = down
  BY DEF Report, Menu, vars
<1>2. sys' \in Modes /\ cws' \in Modes \cup {NoMode}
  BY InputModeConstants DEF TypeOK, Report, Menu, vars
<1>3. QED
  BY <1>1, <1>2 DEF TypeOK, Agrees, arrives

-------------------------------------------------------------------------------
\* The statics keep their types: no index is outside wsd_save_, no mode key is sent
\* for a mode the system does not have.
THEOREM TypeCorrect == Spec => []TypeOK
<1>1. Init => TypeOK
  BY InputModeConstants DEF Init, TypeOK, State, Index, Indexes, Modes, NoMode, Unset, EISU, HIRA
<1>2. TypeOK /\ [Next]_vars => TypeOK'
  BY PressKeeps, ReleaseKeeps, TimerKeeps, FlushKeeps, ObeyKeeps, OutsideKeeps DEF Next
<1>3. QED
  BY <1>1, <1>2, PTL DEF Spec

\* The filters look at the mode the next key meets, whatever mode keys, temporary
\* modes, restores and timers come between, and however late the system obeys and
\* the server reports.
THEOREM FilterFollows == Spec => FilterFollowsMode
<1>1. ASSUME TypeOK, [Next]_vars, Agrees, im.saved # Elsewhere,
             \A key \in down' \ down : recognised(key),
             sys' # sys => im'.sent # im.sent
      PROVE  Agrees'
  <2>1. ASSUME NEW key \in keys, Press(key) PROVE Agrees'
    <3>1. key \in down' \ down
      BY <2>1 DEF Press
    <3>2. QED
      BY <1>1, <2>1, <3>1, PressKeeps
  <2>2. ASSUME NEW key \in keys, Release(key) PROVE Agrees'
    BY <1>1, <2>2, ReleaseKeeps
  <2>3. CASE timeoutAfterKey2
    BY <1>1, <2>3, TimerKeeps
  <2>4. CASE fire_timer_callback
    BY <1>1, <2>4, FlushKeeps
  <2>5. CASE Obey
    BY <1>1, <2>5, ObeyKeeps
  <2>6. CASE Report \/ UNCHANGED vars
    <3>1. sys' = sys
      BY <2>6 DEF Report, vars
    <3>2. QED
      BY <1>1, <2>6, <3>1, OutsideKeeps
  <2>7. CASE Menu
    <3>1. im' = im /\ sys' # sys
      BY <2>7 DEF Menu
    <3>2. QED
      BY <1>1, <3>1
  <2>8. QED
    BY <1>1, <2>1, <2>2, <2>3, <2>4, <2>5, <2>6, <2>7 DEF Next
<1>2. QED
  BY <1>1, TypeCorrect, PTL DEF Spec, FilterFollowsMode

-------------------------------------------------------------------------------
(***************************************************************************)
(* SKIP_EISUU_KANA.  After the first press the key walks from neighbour to *)
(* neighbour of the modes it stands for.  The direction may change at the  *)
(* second press, and never after a step from one neighbour to the next.    *)
(***************************************************************************)
SmartKey == "SKIP_EISUU_KANA"

skipStep(s) == get_index_for_replace(s, SmartKey)

Ring == {KATA, HKAT, FEIS} \cup (IF UseAinu THEN {AINU} ELSE {})

after(i) ==
  IF i = KATA THEN HKAT
  ELSE IF i = HKAT THEN (IF UseAinu THEN AINU ELSE FEIS)
  ELSE IF i = AINU THEN FEIS ELSE KATA

before(i) ==
  IF i = KATA THEN FEIS
  ELSE IF i = HKAT THEN KATA
  ELSE IF i = AINU THEN HKAT
  ELSE (IF UseAinu THEN AINU ELSE HKAT)

neighbour(i, sign) == IF sign = 1 THEN after(i) ELSE before(i)

LEMMA RingModes ==
  /\ Ring \subseteq Indexes
  /\ Ring = Indexes \ ({EISU, HIRA} \cup (IF UseAinu THEN {} ELSE {AINU}))
  /\ \A i \in Ring, sign \in {-1, 1} : neighbour(i, sign) \in Ring \ {i}
<1>1. UseAinu \in BOOLEAN
  BY InputModeConstants
<1>2. CASE UseAinu
  BY <1>2 DEF Ring, Indexes, EISU, HIRA, KATA, HKAT, AINU, FEIS, neighbour, after, before
<1>3. CASE ~UseAinu
  BY <1>3 DEF Ring, Indexes, EISU, HIRA, KATA, HKAT, AINU, FEIS, neighbour, after, before
<1>4. QED
  BY <1>1, <1>2, <1>3

LEMMA SmartKeyIs ==
  /\ SmartKey \in DOMAIN Replacements
  /\ Replacements[SmartKey].type = 3
  /\ Replacements[SmartKey].skip = {EISU, HIRA}
  BY DEF SmartKey, Replacements

LEMMA SkipStep ==
  ASSUME NEW s \in State, s.cur # Unset
  PROVE  LET t == skipStep(s)
             o == IF s.sign # -1 /\ s.cur = EISU THEN EISU ELSE s.others
         IN  /\ t \in State
             /\ t.sign = smartSign(s) /\ t.sign \in {-1, 1}
             /\ t.pre = s.cur /\ t.others = t.cur
             /\ t.cur \in Ring \ {s.cur, o}
             /\ \A j \in Ring \ {s.cur, o} :
                  distance(s.cur, t.sign, t.cur) <= distance(s.cur, t.sign, j)
<1> DEFINE t == skipStep(s)
           o == IF s.sign # -1 /\ s.cur = EISU THEN EISU ELSE s.others
<1>1. /\ s.cur \in Indexes /\ o \in Index
  BY DEF State, Index, Indexes, EISU
<1>2. leftOut(s, SmartKey) = {EISU, HIRA} \cup {s.cur, o} \cup (IF UseAinu THEN {} ELSE {AINU})
  BY SmartKeyIs DEF leftOut
<1> HIDE DEF o
<1>3. Indexes \ leftOut(s, SmartKey) = Ring \ {s.cur, o}
  BY <1>2, RingModes
<1>4. Ring \ {s.cur, o} # {}
  <2>1. {KATA, HKAT, FEIS} \subseteq Ring /\ KATA # HKAT /\ KATA # FEIS /\ HKAT # FEIS
    BY DEF Ring, KATA, HKAT, FEIS
  <2>2. QED
    BY <2>1
<1>5. ~(Indexes \subseteq leftOut(s, SmartKey))
  BY <1>3, <1>4
<1>6. signOf(s, SmartKey) = smartSign(s) /\ smartSign(s) \in {-1, 1}
  BY SmartKeyIs, SmartSign DEF signOf
<1>7. /\ t \in State /\ t.sign = smartSign(s)
      /\ t.cur = nextIndex(s.cur, smartSign(s), leftOut(s, SmartKey))
      /\ t.cur \in Indexes \ leftOut(s, SmartKey)
      /\ t.pre = s.cur /\ t.others = t.cur
  BY <1>5, <1>6, SmartKeyIs, ReplaceStep DEF skipStep, OnlyIndexes
<1> HIDE DEF t
<1>8. \A j \in Indexes \ leftOut(s, SmartKey) :
        distance(s.cur, t.sign, t.cur) <= distance(s.cur, t.sign, j)
  BY <1>1, <1>5, <1>6, <1>7, NextIndex
<1>9. QED
  BY <1>3, <1>6, <1>7, <1>8 DEF t, o

\* The nearest mode of the ring is the neighbour.
LEMMA NeighbourIsNearest ==
  ASSUME NEW i \in Ring, NEW sign \in {-1, 1}, NEW n \in Ring \ {i},
         \A j \in Ring \ {i} : distance(i, sign, n) <= distance(i, sign, j)
  PROVE  n = neighbour(i, sign)
<1>1. UseAinu \in BOOLEAN
  BY InputModeConstants
<1>2. /\ KATA = 3 /\ HKAT = 4 /\ AINU = 5 /\ FEIS = 6
  BY DEF KATA, HKAT, AINU, FEIS
<1>3. distance(i, sign, n) <= distance(i, sign, neighbour(i, sign))
  BY RingModes
<1>4. CASE UseAinu
  <2>1. i \in {3, 4, 5, 6} /\ n \in {3, 4, 5, 6} /\ n # i
    BY <1>2, <1>4 DEF Ring
  <2>2. QED
    BY <1>2, <1>3, <1>4, <2>1 DEF distance, neighbour, after, before
<1>5. CASE ~UseAinu
  <2>1. i \in {3, 4, 6} /\ n \in {3, 4, 6} /\ n # i
    BY <1>2, <1>5 DEF Ring
  <2>2. QED
    BY <1>2, <1>3, <1>5, <2>1 DEF distance, neighbour, after, before
<1>6. QED
  BY <1>1, <1>4, <1>5

\* On the ring the direction stays as it is after a step to a neighbour.
LEMMA DirectionStays ==
  ASSUME NEW s \in State, s.pre \in Ring, s.sign \in {-1, 1}, s.cur = neighbour(s.pre, s.sign)
  PROVE  smartSign(s) = s.sign
<1>1. UseAinu \in BOOLEAN
  BY InputModeConstants
<1>2. EISU = 1 /\ HIRA = 2 /\ KATA = 3 /\ HKAT = 4 /\ AINU = 5 /\ FEIS = 6
  BY DEF EISU, HIRA, KATA, HKAT, AINU, FEIS
<1>3. s.pre \in {3, 4, 6} \/ (UseAinu /\ s.pre = 5)
  BY <1>1, <1>2 DEF Ring
<1>4. s.sign = 1 => ~turnsBack(s)
  BY <1>1, <1>2, <1>3 DEF turnsBack, neighbour, after
<1>5. s.sign = -1 => ~turnsForward(s)
  BY <1>1, <1>2, <1>3 DEF turnsForward, neighbour, before
<1>6. QED
  BY <1>4, <1>5 DEF smartSign

\* Walking round in one direction meets every mode of the ring.
LEMMA RoundTheRing ==
  ASSUME NEW c \in Ring, NEW sign \in {-1, 1}
  PROVE  LET d == neighbour(c, sign)
             e == neighbour(d, sign)
             f == neighbour(e, sign)
         IN  /\ ~UseAinu => {c, d, e} = Ring
             /\ UseAinu => {c, d, e, f} = Ring
<1>1. UseAinu \in BOOLEAN
  BY InputModeConstants
<1>2. KATA = 3 /\ HKAT = 4 /\ AINU = 5 /\ FEIS = 6
  BY DEF KATA, HKAT, AINU, FEIS
<1>3. CASE UseAinu
  <2>1. Ring = {3, 4, 5, 6}
    BY <1>2, <1>3 DEF Ring
  <2>2. QED
    BY <1>2, <1>3, <2>1 DEF neighbour, after, before
<1>4. CASE ~UseAinu
  <2>1. Ring = {3, 4, 6}
    BY <1>2, <1>4 DEF Ring
  <2>2. QED
    BY <1>2, <1>4, <2>1 DEF neighbour, after, before
<1>5. QED
  BY <1>1, <1>3, <1>4

\* The row of presses is what its recursion says.
LEMMA SkipRow ==
  LET s1 == skipStep(im)
      s2 == skipStep(s1)
      s3 == skipStep(s2)
      s4 == skipStep(s3)
  IN  /\ skipRow[1] = s1 /\ skipRow[2] = s2 /\ skipRow[3] = s3
      /\ UseAinu => skipRow[4] = s4
<1> DEFINE s1 == skipStep(im)
           s2 == skipStep(s1)
           s3 == skipStep(s2)
           s4 == skipStep(s3)
           R == [n \in 0 .. ringLength |->
                   IF n = 0 THEN im ELSE IF n = 1 THEN s1 ELSE IF n = 2 THEN s2
                   ELSE IF n = 3 THEN s3 ELSE s4]
           Row(row) == row = [n \in 0 .. ringLength |-> IF n = 0 THEN im ELSE skipStep(row[n - 1])]
<1>1. ringLength \in {3, 4} /\ (UseAinu => ringLength = 4)
  BY InputModeConstants DEF ringLength
<1>2. Row(R)
  <2> HIDE DEF s1, s2, s3, s4
  <2>1. \A n \in 0 .. ringLength : n = 0 \/ n = 1 \/ n = 2 \/ n = 3 \/ n = 4
    BY <1>1
  <2>2. ASSUME NEW n \in 0 .. ringLength
        PROVE  R[n] = IF n = 0 THEN im ELSE skipStep(R[n - 1])
    <3>1. /\ n >= 1 => n - 1 \in 0 .. ringLength
      BY <1>1
    <3>2. QED
      BY <2>1, <3>1 DEF s1, s2, s3, s4
  <2>3. QED
    BY <2>2
<1>3. skipRow = CHOOSE row : Row(row)
  BY DEF skipRow, skipStep, SmartKey
<1>4. Row(skipRow)
  BY <1>2, <1>3
<1>5. /\ skipRow[0] = im
      /\ skipRow[1] = skipStep(skipRow[0]) /\ skipRow[2] = skipStep(skipRow[1])
      /\ skipRow[3] = skipStep(skipRow[2])
      /\ UseAinu => skipRow[4] = skipStep(skipRow[3])
  BY <1>1, <1>4
<1>6. QED
  BY <1>5

\* From whatever modes went before, and whatever directions are chosen on the way,
\* SKIP_EISUU_KANA reaches every mode it stands for in as many presses as there are.
THEOREM GoesRound == Spec => []SmartKeyGoesRound
<1>1. ASSUME TypeOK PROVE SmartKeyGoesRound
  <2> DEFINE s1 == skipStep(im)
             s2 == skipStep(s1)
             s3 == skipStep(s2)
             s4 == skipStep(s3)
  <2>1. SUFFICES ASSUME im.cur # Unset
                 PROVE  {skipRow[n].cur : n \in 1 .. ringLength} = Ring
    BY RingModes DEF SmartKeyGoesRound
  <2>2. ASSUME NEW s \in State, s.cur \in Ring, s.others = s.cur
        PROVE  LET t == skipStep(s)
               IN  /\ t \in State /\ t.cur \in Ring /\ t.others = t.cur /\ t.pre = s.cur
                   /\ t.sign = smartSign(s) /\ t.sign \in {-1, 1}
                   /\ t.cur = neighbour(s.cur, t.sign)
    <3> DEFINE t == skipStep(s)
    <3>1. s.cur # Unset /\ s.cur # EISU
      BY <2>2 DEF Ring, Unset, EISU, KATA, HKAT, AINU, FEIS
    <3>2. /\ t \in State /\ t.sign = smartSign(s) /\ t.sign \in {-1, 1}
          /\ t.pre = s.cur /\ t.others = t.cur
          /\ t.cur \in Ring \ {s.cur}
          /\ \A j \in Ring \ {s.cur} : distance(s.cur, t.sign, t.cur) <= distance(s.cur, t.sign, j)
      BY <2>2, <3>1, SkipStep
    <3> HIDE DEF t
    <3>3. t.cur = neighbour(s.cur, t.sign)
      BY <2>2, <3>2, NeighbourIsNearest
    <3>4. QED
      BY <3>2, <3>3 DEF t
  <2>3. im \in State
    BY <1>1 DEF TypeOK
  <2>4. s1 \in State /\ s1.cur \in Ring /\ s1.others = s1.cur
    BY <2>1, <2>3, SkipStep
  <2> HIDE DEF s1
  <2>5. /\ s2 \in State /\ s2.cur \in Ring /\ s2.others = s2.cur /\ s2.pre = s1.cur
        /\ s2.sign \in {-1, 1} /\ s2.cur = neighbour(s1.cur, s2.sign)
    BY <2>2, <2>4
  <2> HIDE DEF s2
  <2>6. smartSign(s2) = s2.sign
    BY <2>4, <2>5, DirectionStays
  <2>7. /\ s3 \in State /\ s3.cur \in Ring /\ s3.others = s3.cur /\ s3.pre = s2.cur
        /\ s3.sign = s2.sign /\ s3.cur = neighbour(s2.cur, s2.sign)
    BY <2>2, <2>5, <2>6
  <2> HIDE DEF s3
  <2>8. smartSign(s3) = s2.sign
    BY <2>5, <2>7, DirectionStays
  <2>9. s4.cur = neighbour(s3.cur, s2.sign)
    BY <2>2, <2>7, <2>8
  <2> HIDE DEF s4
  <2>10. /\ ~UseAinu => {s1.cur, s2.cur, s3.cur} = Ring
         /\ UseAinu => {s1.cur, s2.cur, s3.cur, s4.cur} = Ring
    BY <2>4, <2>5, <2>7, <2>9, RoundTheRing
  <2>11. /\ skipRow[1] = s1 /\ skipRow[2] = s2 /\ skipRow[3] = s3
         /\ UseAinu => skipRow[4] = s4
    BY SkipRow DEF s1, s2, s3, s4
  <2>12. CASE UseAinu
    <3>1. 1 .. ringLength = {1, 2, 3, 4}
      BY <2>12 DEF ringLength
    <3>2. {skipRow[n].cur : n \in {1, 2, 3, 4}} = {s1.cur, s2.cur, s3.cur, s4.cur}
      BY <2>11, <2>12
    <3>3. QED
      BY <2>10, <2>12, <3>1, <3>2
  <2>13. CASE ~UseAinu
    <3>1. 1 .. ringLength = {1, 2, 3}
      BY <2>13 DEF ringLength
    <3>2. {skipRow[n].cur : n \in {1, 2, 3}} = {s1.cur, s2.cur, s3.cur}
      BY <2>11
    <3>3. QED
      BY <2>10, <2>13, <3>1, <3>2
  <2>14. QED
    BY <2>12, <2>13
<1>2. QED
  BY <1>1, TypeCorrect, PTL

===============================================================================
