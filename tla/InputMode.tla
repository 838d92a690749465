------------------------------ MODULE InputMode ------------------------------
(***************************************************************************)
(* Input modes: what the kext believes about the input mode of the system  *)
(* while mode keys are on their way (VirtualKey::ControlWorkspaceData and  *)
(* control_WSD), the keys that change the mode (VK_JIS_TOGGLE_EISUU_KANA,  *)
(* the twelve of VK_JIS_IM_CHANGE, VK_CHANGE_INPUTMODE), the temporary     *)
(* modes of VK_JIS_TEMPORARY and their restore, and the one timer that     *)
(* serves three uses.                                                      *)
(*                                                                         *)
(* A mode key is obeyed by the system some time after it was sent, and     *)
(* reported back by the server some time after that.  Whatever runs in the *)
(* kext runs on its work loop, so a key event is one step.  The option     *)
(* remap_jis_ignore_improvement_IM_changing is off.                        *)
(***************************************************************************)
EXTENDS Integers, Sequences, FiniteSets

CONSTANTS
  KeySets,      \* the keyboards, each a set of keys, that may be used
  UseAinu,      \* general.use_ainu
  SettlesInTime,\* parameter.keyinterval_timeout is longer than the delays
  MenuModes,    \* the modes the user picks with the mouse
  MaxSent,      \* no key is pressed while more mode keys are on their way
  MaxDown       \* no more keys are held at a time

NoMode == 0
Elsewhere == 7      \* an input source the kext has no index for

Indexes == 1..6     \* of wsd_save_
EISU == 1
HIRA == 2
KATA == 3
HKAT == 4
AINU == 5
FEIS == 6

Modes == Indexes \cup {Elsewhere}

Japanese == {HIRA, KATA, HKAT, FEIS}

Unset == -1

(***************************************************************************)
(* VK_JIS_IM_CHANGE_*: a seesaw between an origin and another mode, or a   *)
(* replacement that goes round the modes and leaves some out.              *)
(***************************************************************************)
Seesaws ==
  [CUR_PRE      |-> [origin |-> Unset, other |-> Unset],
   EISUU_KANA   |-> [origin |-> EISU,  other |-> HIRA],
   KANA_EISUU   |-> [origin |-> HIRA,  other |-> EISU],
   KANA_OTHERS  |-> [origin |-> HIRA,  other |-> Unset],
   EISUU_OTHERS |-> [origin |-> EISU,  other |-> Unset]]

Replacements ==
  [SKIP_NONE_FORWARD |-> [type |-> 1, sign |-> 1,  skip |-> {}],
   SKIP_NONE_BACK    |-> [type |-> 1, sign |-> -1, skip |-> {}],
   SKIP_PRE_FORWARD  |-> [type |-> 2, sign |-> 1,  skip |-> {}],
   SKIP_PRE_BACK     |-> [type |-> 2, sign |-> -1, skip |-> {}],
   SKIP_EISUU_KANA   |-> [type |-> 3, sign |-> 1,  skip |-> {EISU, HIRA}],
   SKIP_KANA         |-> [type |-> 3, sign |-> 1,  skip |-> {HIRA}],
   SKIP_EISUU        |-> [type |-> 3, sign |-> 1,  skip |-> {EISU}]]

Changes == DOMAIN Seesaws \cup DOMAIN Replacements

(***************************************************************************)
(* A key: what it is or is remapped to, the mode or change it stands for,  *)
(* and whether ControlWorkspaceData counts it as a mode or function key:   *)
(* never, because it is JIS_EISUU or JIS_KANA, or while a modifier is on.  *)
(***************************************************************************)
Key ==
  [kind : {"plain", "restore"}, to : {NoMode}, by : {"key", "mode", "flags"}]
    \cup [kind : {"function"}, to : Modes \cup {NoMode}, by : {"flags"}]
    \cup [kind : {"bare"}, to : {EISU, HIRA, KATA, HKAT}, by : {"mode", "flags"}]
    \cup [kind : {"bare"}, to : {AINU, FEIS}, by : {"flags"}]
    \cup [kind : {"select"}, to : Modes, by : {"key", "mode", "flags"}]
    \cup [kind : {"mapped", "keys"}, to : {EISU, HIRA, KATA, HKAT}, by : {"key", "mode", "flags"}]
    \cup [kind : {"toggle"}, to : {NoMode}, by : {"key", "mode", "flags"}]
    \cup [kind : {"change"}, to : Changes, by : {"key", "mode", "flags"}]
    \cup [kind : {"temporary", "switch"}, to : {EISU, HIRA, KATA, AINU}, by : {"key", "mode", "flags"}]

ASSUME InputModeConstants ==
  /\ KeySets \subseteq SUBSET Key
  /\ UseAinu \in BOOLEAN /\ SettlesInTime \in BOOLEAN
  /\ MenuModes \subseteq Modes
  /\ MaxSent \in Nat /\ MaxDown \in Nat

VARIABLES
  keys,     \* the keyboard
  down,     \* the keys held
  sys,      \* the system's input mode
  cws,      \* CommonData::current_workspacedata_
  im        \* the statics of VirtualKey and Handle_VK_JIS_TEMPORARY, and the
            \* mode keys on their way (sent)

vars == <<keys, down, sys, cws, im>>

Index == Indexes \cup {Unset}

State ==
  [pub : Modes \cup {NoMode},            \* wsd_public_
   learned : SUBSET Indexes,             \* wsd_save_[i] is filled in
   cur : Index, pre : Index, others : Index,
   sign : {-99, -1, 1},                  \* sign_plus_minus2_
   skips : BOOLEAN,                      \* counter_plus_minus2_ > 0
   seesawInit : BOOLEAN,                 \* seesaw_init2_
   initDo : BOOLEAN,                     \* pass_initialize2_ = INIT_DO
   callback : {"init", "restore", "seesaw"},
   armed : BOOLEAN,                      \* timer_restore2_ is active
   saved : Modes \cup {NoMode},          \* savedinputmodedetail_
   current : Modes \cup {NoMode},        \* currentinputmodedetail_
   pending : Modes \cup {NoMode},        \* fireKeyInfo_, if it is active
   sent : Seq(Modes)]

Init ==
  /\ keys \in KeySets
  /\ down = {}
  /\ sys \in {EISU, HIRA}
  /\ cws = NoMode
  /\ im = [pub |-> NoMode, learned |-> {}, cur |-> Unset, pre |-> Unset, others |-> Unset,
           sign |-> -99, skips |-> FALSE, seesawInit |-> FALSE, initDo |-> FALSE,
           callback |-> "init", armed |-> FALSE, saved |-> NoMode, current |-> NoMode,
           pending |-> NoMode, sent |-> << >>]
------------------------------------------------------------------------------
\* The work space data: the index of a mode, and the four uses of control_WSD.

IMD2index(mode) == IF mode \in Indexes THEN mode ELSE Unset

set_indexes(s, pre, cur) ==
  [s EXCEPT !.pre = IF pre > 0 THEN pre ELSE @, !.cur = IF cur > 0 THEN cur ELSE @]

set_new_index(s, i) ==
  IF s.cur # Unset /\ s.pre # Unset
  THEN IF s.cur # i THEN set_indexes(s, s.cur, i) ELSE s
  ELSE IF s.cur = Unset
       THEN IF s.pre # i THEN set_indexes(s, Unset, i) ELSE s
       ELSE set_indexes(s, i, Unset)

resetSavedIMD(s) == [s EXCEPT !.saved = NoMode, !.current = NoMode]

learn_WSD(s) ==
  IF cws \notin Indexes THEN s
  ELSE [s EXCEPT !.learned = @ \cup {cws},
                 !.initDo = @ \/ s.learned = {},
                 !.cur = IF s.learned = {} THEN cws ELSE @]

update_WSD(s) == set_new_index([s EXCEPT !.pub = cws], IMD2index(cws))

replace_WSD(s, mode) ==
  IF mode \in s.learned THEN set_new_index([s EXCEPT !.pub = mode], mode) ELSE s

restore_WSD(s, mode) ==
  IF mode \in s.learned THEN [s EXCEPT !.pub = mode] ELSE s

\* For whoever looks at the result of replace_WSD.
replaceOrInit(s, mode) ==
  [replace_WSD(s, mode) EXCEPT !.initDo = mode \notin s.learned]
------------------------------------------------------------------------------
\* Handle_VK_JIS_TEMPORARY: a mode key is held back for a moment, and goes out
\* with the next key or by its timer.

flush(s) ==
  IF s.pending = NoMode THEN s
  ELSE [s EXCEPT !.pending = NoMode, !.sent = Append(@, s.pending)]

fireMode(s, mode) == [flush(s) EXCEPT !.sent = Append(@, mode)]

firekeytoinputdetail(s, mode) ==
  IF mode = s.current \/ mode = NoMode THEN s
  ELSE [s EXCEPT !.current = mode, !.pending = IF mode \in Indexes THEN mode ELSE @]

temporary(s, mode) ==
  LET t == IF s.saved = NoMode THEN [s EXCEPT !.saved = s.pub, !.current = s.pub] ELSE s
  IN firekeytoinputdetail(t, mode)

vk_restore(s) ==
  IF s.saved = NoMode THEN s
  ELSE LET t == [restore_WSD(s, s.saved) EXCEPT !.initDo = FALSE]
       IN resetSavedIMD(firekeytoinputdetail(t, s.saved))
------------------------------------------------------------------------------
\* Handle_VK_JIS_IM_CHANGE: which mode comes next.

origin(s, x) == IF x = "CUR_PRE" THEN s.cur ELSE Seesaws[x].origin

withOthers(s, x) ==
  [s EXCEPT !.others = IF x \in {"KANA_OTHERS", "EISUU_OTHERS"} /\ @ = Unset THEN KATA ELSE @]

otherSide(s, x) ==
  CASE x = "CUR_PRE" -> s.pre
    [] Seesaws[x].other # Unset -> Seesaws[x].other
    [] OTHER -> s.others

get_index_for_seesaw(s0, x) ==
  LET s == withOthers(s0, x)
      A == origin(s, x)
      B == otherSide(s, x)
      known == s.cur # Unset /\ s.pre # Unset
      turned ==
        CASE x = "CUR_PRE" /\ known -> set_indexes(s, A, B)
          [] x = "CUR_PRE" /\ ~known ->
               set_indexes(s, Unset, IF s.pre + 1 > FEIS THEN EISU ELSE s.pre + 1)
          [] x # "CUR_PRE" /\ s.cur # A -> set_indexes(s, IF known THEN s.cur ELSE B, A)
          [] OTHER -> set_indexes(s, A, B)
  IN IF x # "CUR_PRE" /\ s.seesawInit
     THEN [set_indexes(turned, IF turned.cur # A THEN turned.cur ELSE Unset, A)
             EXCEPT !.seesawInit = FALSE]
     ELSE turned

\* Mutant: half-width katakana turns back whatever came before.
turnsBackAlways(s) == s.cur \in {EISU, KATA, HKAT}

\* The conditions under which SKIP_EISUU_KANA and its like change direction.
turnsBack(s) ==
  \/ s.cur = EISU
  \/ s.pre = HKAT /\ s.cur = KATA
  \/ s.pre # KATA /\ s.cur = HKAT

turnsForward(s) ==
  \/ s.pre = EISU /\ s.cur = HIRA
  \/ s.cur = HIRA /\ s.pre \in {KATA, HKAT} /\ s.others = s.pre
  \/ s.pre # HKAT /\ s.cur = KATA
  \/ s.pre = KATA /\ s.cur = HKAT

smartSign(s) ==
  LET sign == IF s.sign = -99 THEN 1 ELSE s.sign
  IN IF sign = 1 /\ turnsBack(s) THEN -1
     ELSE IF sign = -1 /\ turnsForward(s) THEN 1 ELSE sign

\* Mutant: the ends of the ring are not looked at.
nextIndexBeyond(from, sign, left) == from + sign

\* The first index after `from`, round the modes in the direction of sign.
nextIndex(from, sign, left) ==
  CHOOSE i \in Indexes \ left :
    \A j \in Indexes \ left : (sign * (i - from)) % 6 <= (sign * (j - from)) % 6

\* SKIP_PRE also marks the previous mode in the array of skipped modes.  While
\* there is none (Unset: a mode has just been learned and a modifier kept it from
\* being looked up) the code writes before the first element of that array
\* (VirtualKey.hpp:286); the model lets that write hit nothing in use.
get_index_for_replace(s, x) ==
  LET r == Replacements[x]
      sign == IF r.type = 3 THEN smartSign(s) ELSE r.sign
      \* leaving English for the last mode again, which is the other mode then
      others == IF r.type = 3 /\ s.sign # -1 /\ s.cur = EISU THEN EISU ELSE s.others
      left == r.skip \cup {s.cur, others}
                \cup (IF UseAinu THEN {} ELSE {AINU})
                \cup (IF r.type = 2 THEN {s.pre} ELSE {})
      t == IF r.type = 3 THEN [s EXCEPT !.sign = sign, !.skips = TRUE] ELSE s
  IN IF s.cur = Unset \/ Indexes \subseteq left THEN t
     ELSE LET i == nextIndex(s.cur, sign, left)
          IN [set_indexes(t, IF r.type = 2 THEN Unset ELSE s.cur, i)
                EXCEPT !.others = IF r.type = 1 THEN @ ELSE i]

changed(s, x) ==
  IF x \in DOMAIN Seesaws THEN get_index_for_seesaw(s, x) ELSE get_index_for_replace(s, x)

startsSeesawTimer(s, x) == x \in DOMAIN Seesaws \ {"CUR_PRE"} /\ s.cur = Seesaws[x].origin

im_change(s0, x) ==
  LET s == changed(s0, x)
      t == IF startsSeesawTimer(s, x) THEN [s EXCEPT !.callback = "seesaw", !.armed = TRUE] ELSE s
  IN IF s.cur = Unset THEN s ELSE fireMode(replaceOrInit(t, s.cur), s.cur)
------------------------------------------------------------------------------
\* A key goes down.

isPPP(key) == key.by # "key"

\* ControlWorkspaceData before the rules are looked at.
postRemap(key) ==
  LET s == learn_WSD([im EXCEPT !.armed = FALSE])
  IN IF ~isPPP(key) /\ s.initDo
     THEN resetSavedIMD([update_WSD(s) EXCEPT !.initDo = FALSE]) ELSE s

\* KeyToKey::remap, or ControlWorkspaceData for a key without a rule.
noInit(s) == [s EXCEPT !.initDo = FALSE]

toggle(s) ==
  LET mode == IF s.pub \in Japanese THEN EISU ELSE HIRA
  IN fireMode(replaceOrInit(s, mode), mode)

\* Mutant: the mode saved for the restore is kept.
bareKeepsSaved(s, mode) == fireMode(replaceOrInit(s, mode), mode)

bare(s, mode) ==
  LET t == replaceOrInit(s, mode)
  IN fireMode(IF mode \in s.learned THEN resetSavedIMD(t) ELSE t, mode)

remapped(s, key) ==
  CASE key.kind = "plain" -> flush(noInit(vk_restore(s)))
    [] key.kind = "function" ->
         LET t == flush([s EXCEPT !.initDo = TRUE])
         IN IF key.to = NoMode THEN t ELSE [t EXCEPT !.sent = Append(@, key.to)]
    [] key.kind = "bare" -> bare(s, key.to)
    [] key.kind = "mapped" -> fireMode(noInit(replace_WSD(s, key.to)), key.to)
    [] key.kind = "keys" -> fireMode(noInit(replace_WSD(vk_restore(s), key.to)), key.to)
    [] key.kind = "select" -> [noInit(vk_restore(s)) EXCEPT !.sent = Append(@, key.to)]
    [] key.kind = "toggle" -> toggle(noInit(vk_restore(s)))
    [] key.kind = "change" -> im_change(noInit(vk_restore(s)), key.to)
    [] key.kind = "temporary" -> flush(temporary(s, key.to))
    [] key.kind = "switch" -> temporary(noInit(s), key.to)
    [] key.kind = "restore" -> noInit(vk_restore(s))

\* reverse_sign_CHANGE_SKIP: any other key ends a row of SKIP keys.
advances(key) == key.kind = "change" /\ key.to \in {"SKIP_EISUU_KANA", "SKIP_KANA", "SKIP_EISUU"}

justAfterRemap(s, key) ==
  IF s.skips /\ ~advances(key)
  THEN [s EXCEPT !.skips = FALSE, !.sign = IF @ = -99 THEN -1 ELSE -@] ELSE s

Press(key) ==
  /\ key \in keys \ down /\ Len(im.sent) <= MaxSent /\ Cardinality(down) < MaxDown
  /\ im' = justAfterRemap(remapped(postRemap(key), key), key)
  /\ down' = down \cup {key}
  /\ UNCHANGED <<keys, sys, cws>>

\* A key comes up: its modifier may be up already, and an ordinary key-up takes
\* along the mode key held back.
setTimeout(s, use) == [s EXCEPT !.callback = use, !.armed = TRUE]

released(s, key, ppp) ==
  LET t == IF ppp THEN s ELSE setTimeout(s, "init")
  IN CASE key.kind = "temporary" -> setTimeout(t, "restore")
       [] key.kind = "keys" -> [t EXCEPT !.armed = FALSE]
       [] key.kind \in {"switch", "restore", "select"} -> t
       [] OTHER -> flush(t)

Release(key) ==
  /\ key \in down
  /\ \E ppp \in (IF key.by = "flags" THEN BOOLEAN ELSE {isPPP(key)}) : im' = released(im, key, ppp)
  /\ down' = down \ {key}
  /\ UNCHANGED <<keys, sys, cws>>

settled == im.sent = << >> /\ im.pending = NoMode /\ cws = sys

expired(s) ==
  CASE s.callback = "init" -> [s EXCEPT !.initDo = TRUE]
    [] s.callback = "restore" -> noInit(vk_restore(s))
    [] s.callback = "seesaw" -> [s EXCEPT !.seesawInit = TRUE]

timeoutAfterKey2 ==
  /\ im.armed /\ (SettlesInTime => settled)
  /\ im' = expired([im EXCEPT !.armed = FALSE])
  /\ UNCHANGED <<keys, down, sys, cws>>

fire_timer_callback ==
  /\ im.pending # NoMode
  /\ im' = flush(im)
  /\ UNCHANGED <<keys, down, sys, cws>>
------------------------------------------------------------------------------
\* The system obeys a mode key, the server reports the mode, and the user picks
\* a mode with the mouse.

Obey ==
  /\ im.sent # << >>
  /\ sys' = Head(im.sent)
  /\ im' = [im EXCEPT !.sent = Tail(@)]
  /\ UNCHANGED <<keys, down, cws>>

Report ==
  /\ cws # sys
  /\ cws' = sys
  /\ UNCHANGED <<keys, down, sys, im>>

Menu ==
  /\ sys' \in MenuModes \ {sys}
  /\ UNCHANGED <<keys, down, cws, im>>

Next ==
  \/ \E key \in keys : Press(key) \/ Release(key)
  \/ timeoutAfterKey2 \/ fire_timer_callback
  \/ Obey \/ Report \/ Menu

Spec == Init /\ [][Next]_vars
------------------------------------------------------------------------------
\* The types of the variables.
TypeOK ==
  /\ keys \in KeySets /\ down \subseteq keys
  /\ sys \in Modes /\ cws \in Modes \cup {NoMode}
  /\ im \in State

\* The mode in which a key typed now would reach the system.
arrives ==
  IF im.pending # NoMode THEN im.pending
  ELSE IF im.sent # << >> THEN im.sent[Len(im.sent)] ELSE sys

\* The filters look at the mode the next ordinary key will reach the system in:
\* the one it is restored to while a temporary mode is on.
Agrees ==
  IF im.saved = NoMode THEN im.pub = arrives
  ELSE im.pub = im.saved /\ im.current = arrives

asksLearned(key) ==
  CASE key.kind \in {"bare", "mapped", "keys"} -> key.to \in im.learned
    [] key.kind \in {"toggle", "change"} ->
         im'.sent = << >> \/ im'.sent[Len(im'.sent)] \in im.learned
    [] OTHER -> TRUE

\* What the kext can follow: no shortcut of the system's, only modes it has
\* learned, no old report taken for the present one, and no key remapped to a
\* mode key while a temporary mode is on (the restore would undo it).
recognised(key) ==
  /\ key.kind # "select" /\ ~(key.kind = "function" /\ key.to # NoMode)
  /\ asksLearned(key)
  /\ ~isPPP(key) /\ (im.initDo \/ im.learned = {}) => cws = arrives
  /\ key.kind = "mapped" => im.saved = NoMode

\* Once the filters and the system agree on the mode, no sequence of mode keys,
\* temporary modes, restores and timers the kext recognises parts them, however
\* late the system obeys and the server reports (the misinput the code is against).
FilterFollowsMode ==
  [][Agrees /\ im.saved # Elsewhere
       /\ (\A key \in down' \ down : recognised(key))
       /\ (sys' # sys => im'.sent # im.sent)
     => Agrees']_vars

ringLength == IF UseAinu THEN 4 ELSE 3

skipRow ==
  LET row[n \in 0..ringLength] ==
        IF n = 0 THEN im ELSE get_index_for_replace(row[n - 1], "SKIP_EISUU_KANA")
  IN row

\* From wherever the indexes have got to, repeating SKIP_EISUU_KANA reaches every
\* mode but English and Hiragana in as many presses as there are such modes,
\* although each press may change the direction.
SmartKeyGoesRound ==
  im.cur # Unset =>
    {skipRow[n].cur : n \in 1..ringLength} =
      Indexes \ ({EISU, HIRA} \cup (IF UseAinu THEN {} ELSE {AINU}))

\* With all keys up a temporary mode that is still on has its restore coming: the
\* three uses of the timer do not get in each other's way, as the comment at
\* VirtualKey.cpp:228 has it.
RestoreComes == im.saved # NoMode /\ down = {} => im.armed /\ im.callback = "restore"
==============================================================================
