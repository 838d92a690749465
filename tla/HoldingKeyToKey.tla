---------------------------- MODULE HoldingKeyToKey ----------------------------
(***************************************************************************)
(* RemapFunc/HoldingKeyToKey.cpp: a key that gives one thing when it is    *)
(* tapped or another key follows ("NORMAL"), and another when it is held   *)
(* ("HOLDING").  The rules of this kind share one timer and one pointer,   *)
(* target_, to the rule pressed last.                                      *)
(*                                                                         *)
(* An event is offered to the rules one by one, as RemapClassManager does: *)
(* `visit` is the event under way, and nobody else runs until it ends.     *)
(* What a rule sends is either down or up; the three KeyToKey objects in a *)
(* rule are represented by their FromKeyChecker::active_, and no flags are *)
(* asked for on the from side.  MaxChanges bounds reloads.                 *)
(***************************************************************************)
EXTENDS Integers, Sequences

CONSTANTS
  Keys,          \* the keys of the keyboard
  Rules,         \* in the order of RemapClassManager: the class (a checkbox)
                 \* and the from key of each rule
  MaxChanges     \* how often rules are reloaded or switched on and off

ASSUME HoldingConstants ==
  /\ Rules \in Seq([class : Nat \ {0}, from : Keys])
  /\ MaxChanges \in Nat

Classes == {Rules[r].class : r \in DOMAIN Rules}

RuleKeys == {Rules[r].from : r \in DOMAIN Rules}

Answers == {"NORMAL", "HOLDING"}

VARIABLES
  down,      \* the keys down, as the events taken so far say
  held,      \* NumHeldDownKeys::num_
  visit,     \* the event under way, the next rule, the class that took it (0: none)
  enabled,   \* the classes in enabled_remapclasses_
  drop,      \* active_ of each rule's keytokey_drop_
  hold,      \* target_ (0: NULL), fireholding_timer_ active (armed), active_ and
             \* keydowntype_ of each rule, the answers whose KeyToKey is active_
             \* (sent); those the system holds (os), and how many were given
             \* since the last press (given)
  alone,     \* no two keys of rules were down at once since the last flush
  changes

vars == << down, held, visit, enabled, drop, hold, alone, changes >>

idle == [kind |-> "idle"]

ofRules(S) == [DOMAIN Rules -> S]

noAnswer == [r \in DOMAIN Rules |-> {}]

fresh ==
  [target |-> 0, armed |-> FALSE,
   active |-> [r \in DOMAIN Rules |-> FALSE],
   keydowntype |-> [r \in DOMAIN Rules |-> "NONE"],
   sent |-> noAnswer, os |-> noAnswer,
   given |-> 0]

HoldState ==
  [target : {0} \cup DOMAIN Rules, armed : BOOLEAN,
   active : ofRules(BOOLEAN), keydowntype : ofRules({"NONE"} \cup Answers),
   sent : ofRules(SUBSET Answers), os : ofRules(SUBSET Answers), given : Nat]

Visit == [kind : {"visit"}, key : Keys, down : BOOLEAN, next : 1 .. Len(Rules) + 1,
          taken : {0} \cup Classes]

TypeOK ==
  /\ down \subseteq Keys /\ held \in Int
  /\ visit \in {idle} \cup Visit
  /\ enabled \subseteq Classes
  /\ drop \in ofRules(BOOLEAN)
  /\ hold \in HoldState
  /\ alone \in BOOLEAN /\ changes \in Nat

Init ==
  /\ down = {} /\ held = 0 /\ visit = idle /\ enabled = Classes
  /\ drop = [r \in DOMAIN Rules |-> FALSE]
  /\ hold = fresh
  /\ alone = TRUE /\ changes = 0

-------------------------------------------------------------------------------
\* call_remap_with_VK_PSEUDO_KEY on the KeyToKey of an answer: its key-up is
\* taken only if its key-down was.
callDown(s, r, answer) ==
  [s EXCEPT !.sent[r] = @ \cup {answer}, !.os[r] = @ \cup {answer}, !.given = @ + 1]

callUp(s, r, answer) ==
  IF answer \in s.sent[r]
  THEN [s EXCEPT !.sent[r] = @ \ {answer}, !.os[r] = @ \ {answer}] ELSE s

\* Mutant: the timer is not cancelled.
dokeydownKeepsTimer(s, r) ==
  LET s1 == [s EXCEPT !.active[r] = FALSE]
  IN  IF ~s.active[r] THEN s
      ELSE IF s.keydowntype[s.target] = "NONE"
           THEN callDown([s1 EXCEPT !.keydowntype[s.target] = "NORMAL"], r, "NORMAL")
           ELSE s1

\* Another key goes down, or the rule's own comes up.
dokeydown(s, r) ==
  LET s1 == [s EXCEPT !.active[r] = FALSE, !.armed = FALSE]
  IN  IF ~s.active[r] THEN s
      ELSE IF s.keydowntype[s.target] = "NONE"
           THEN callDown([s1 EXCEPT !.keydowntype[s.target] = "NORMAL"], r, "NORMAL")
           ELSE s1

dokeyup(s, r) ==
  LET answer == s.keydowntype[s.target]
  IN  IF answer = "NONE" THEN s
      ELSE callUp([s EXCEPT !.keydowntype[s.target] = "NONE"], r, answer)

\* Mutant: keydowntype_ keeps what the last press left in it.
beginStale(s, r) == [s EXCEPT !.target = r, !.armed = TRUE, !.active[r] = TRUE, !.given = 0]

\* Mutant: the timer is not started.
beginWithoutTimer(s, r) ==
  [s EXCEPT !.target = r, !.active[r] = TRUE, !.keydowntype[r] = "NONE", !.given = 0]

\* The rule's key goes down.
begin(s, r) ==
  [s EXCEPT !.target = r, !.armed = TRUE, !.active[r] = TRUE, !.keydowntype[r] = "NONE",
            !.given = 0]

-------------------------------------------------------------------------------
\* An event is offered to the enabled classes; within a class it goes on to the
\* next rule only until one takes it.
offered(r) ==
  visit # idle /\ visit.next = r /\ Rules[r].class \in enabled \ {visit.taken}

\* KeyToKey::remap of keytokey_drop_: not taken yet, and isFromKey.
takes(r) == visit.taken = 0 /\ Rules[r].from = visit.key /\ (visit.down \/ drop[r])

KeyEvent(k) ==
  /\ visit = idle
  /\ down' = IF k \in down THEN down \ {k} ELSE down \cup {k}
  /\ held' = IF k \in down THEN held - 1 ELSE held + 1
  /\ visit' = [kind |-> "visit", key |-> k, down |-> k \notin down, next |-> 1, taken |-> 0]
  /\ alone' = (alone /\ (k \in RuleKeys \ down => down \cap RuleKeys = {}))
  /\ UNCHANGED << enabled, drop, hold, changes >>

Take(r) ==
  /\ offered(r) /\ takes(r)
  /\ drop' = [drop EXCEPT ![r] = visit.down]
  /\ hold' = IF visit.down THEN begin(hold, r) ELSE dokeyup(dokeydown(hold, r), r)
  /\ visit' = [visit EXCEPT !.next = @ + 1, !.taken = Rules[r].class]
  /\ UNCHANGED << down, held, enabled, alone, changes >>

\* Mutant: a refusal skips the next rule.
RefuseSkipping(r) ==
  /\ offered(r) /\ ~takes(r)
  /\ hold' = IF visit.down THEN dokeydown(hold, r) ELSE hold
  /\ visit' = [visit EXCEPT !.next = @ + 2]
  /\ UNCHANGED << down, held, enabled, drop, alone, changes >>

Refuse(r) ==
  /\ offered(r) /\ ~takes(r)
  /\ hold' = IF visit.down THEN dokeydown(hold, r) ELSE hold
  /\ visit' = [visit EXCEPT !.next = @ + 1]
  /\ UNCHANGED << down, held, enabled, drop, alone, changes >>

Skip(r) ==
  /\ visit # idle /\ visit.next = r /\ ~offered(r)
  /\ visit' = [visit EXCEPT !.next = @ + 1]
  /\ UNCHANGED << down, held, enabled, drop, hold, alone, changes >>

\* The end of Core::remap_KeyboardEventCallback: with no key held it flushes.
EndEvent ==
  /\ visit # idle /\ visit.next > Len(Rules)
  /\ visit' = idle
  /\ IF held <= 0
     THEN held' = 0 /\ hold' = [hold EXCEPT !.os = noAnswer] /\ alone' = TRUE
     ELSE UNCHANGED << held, hold, alone >>
  /\ UNCHANGED << down, enabled, drop, changes >>

fireholding_timer_callback ==
  /\ visit = idle /\ hold.armed
  /\ LET s == [hold EXCEPT !.armed = FALSE]
     IN  hold' = IF s.target # 0 /\ s.keydowntype[s.target] = "NONE"
                 THEN callDown([s EXCEPT !.keydowntype[s.target] = "HOLDING"], s.target, "HOLDING")
                 ELSE s
  /\ UNCHANGED << down, held, visit, enabled, drop, alone, changes >>

\* set_config and its refresh: rules are switched on and off, nothing else.
Refresh ==
  /\ visit = idle /\ changes < MaxChanges
  /\ changes' = changes + 1
  /\ enabled' \in SUBSET Classes
  /\ UNCHANGED << down, held, visit, drop, hold, alone >>

\* Mutant: the new rules take over active_ of the old ones.
ReloadKeepsActive ==
  /\ visit = idle /\ changes < MaxChanges
  /\ changes' = changes + 1
  /\ enabled' \in SUBSET Classes /\ down' \in SUBSET Keys /\ held' = 0
  /\ hold' = [fresh EXCEPT !.os = hold.os]
  /\ UNCHANGED << visit, drop, alone >>

\* The rules are freed (~HoldingKeyToKey), new ones loaded and enabled.  Until
\* then the keyboard was not hooked: any key may have moved.
Reload ==
  /\ visit = idle /\ changes < MaxChanges
  /\ changes' = changes + 1
  /\ enabled' \in SUBSET Classes /\ down' \in SUBSET Keys /\ held' = 0
  /\ drop' = [r \in DOMAIN Rules |-> FALSE]
  /\ hold' = [fresh EXCEPT !.os = hold.os]
  /\ UNCHANGED << visit, alone >>

InputTimer == (\E r \in DOMAIN Rules : Take(r) \/ Refuse(r) \/ Skip(r)) \/ EndEvent

Next ==
  \/ \E k \in Keys : KeyEvent(k)
  \/ InputTimer
  \/ fireholding_timer_callback
  \/ Refresh \/ Reload

Spec == Init /\ [][Next]_vars

\* A callback that was entered returns, and a timer that is armed expires.
FairSpec == Spec /\ WF_vars(InputTimer) /\ WF_vars(fireholding_timer_callback)

-------------------------------------------------------------------------------
\* target_ is set wherever it is used: dokeydown and dokeyup do not look.
TargetSet ==
  \A r \in DOMAIN Rules : hold.active[r] \/ drop[r] => hold.target # 0

\* The timer runs only for the rule pressed last, while that is undecided: it
\* never adds HOLDING to a press that was answered.
TimerForUndecided ==
  hold.armed => /\ hold.target # 0
                /\ hold.active[hold.target] /\ drop[hold.target]
                /\ hold.keydowntype[hold.target] = "NONE"

\* As long as the keys of two rules are not down together (since the last flush),
\* and rules are not changed: a press is answered exactly once, however taps,
\* other keys and the timer interleave, and nothing stays down after the release.
\* So what overlapping presses did to the shared target is forgotten at the flush.
AnsweredOnce ==
  [][ \A r \in DOMAIN Rules :
        alone /\ changes' = 0 /\ drop[r] /\ ~drop'[r] =>
          hold'.given = 1 /\ hold'.os[r] = {} ]_vars

\* A key of a rule that is held comes to be answered.
HeldIsAnswered ==
  \A r \in DOMAIN Rules :
    drop[r] ~> hold.given > 0 \/ ~drop[r] \/ ~alone \/ changes > 0

\* "Holding Command+1 to F1", "Holding Command+2 to F2" (checkbox.xml:3606-3607):
\* the second key is down only while the first is.
HoldingOnlyWhileHeld ==
  changes = 0 /\ visit = idle =>
    \A r \in DOMAIN Rules : "HOLDING" \in hold.os[r] => Rules[r].from \in down

===============================================================================
