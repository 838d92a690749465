------------------------- MODULE HoldingKeyToKeyProofs -------------------------
(***************************************************************************)
(* For any keyboard and any rules: the shared target_ is set wherever it   *)
(* is used, the shared timer runs only for a press that is undecided, and  *)
(* a press that no other rule's key overlaps is answered exactly once.     *)
(*                                                                         *)
(* The three invariants of the module are inductive together: the type of  *)
(* keydowntype_ after a release needs target_ to be a rule, and what the   *)
(* timer stands for needs both.  The answers need an invariant of          *)
(* their own, on top of these, which follows an event through the rules.   *)
(***************************************************************************)
EXTENDS HoldingKeyToKey, FiniteSetTheorems, TLAPS

IInv == TypeOK /\ TargetSet /\ TimerForUndecided

LEMMA RulesTyped ==
  /\ Len(Rules) \in Nat /\ DOMAIN Rules = 1 .. Len(Rules)
  /\ \A r \in DOMAIN Rules : r # 0 /\ Rules[r].class \in Classes
<1>1. Rules \in Seq([class : Nat \ {0}, from : Keys])
  BY HoldingConstants
<1>2. Len(Rules) \in Nat /\ DOMAIN Rules = 1 .. Len(Rules)
  BY <1>1
<1>3. QED
  BY <1>2 DEF Classes

(***************************************************************************)
(* What the operators on the hold state keep.                              *)
(***************************************************************************)
LEMMA FreshTyped == fresh \in HoldState
  BY DEF fresh, HoldState, ofRules, noAnswer, Answers

LEMMA CallTyped ==
  ASSUME NEW s \in HoldState, NEW r \in DOMAIN Rules, NEW answer \in Answers
  PROVE  /\ callDown(s, r, answer) \in HoldState
         /\ callUp(s, r, answer) \in HoldState
<1>1. callDown(s, r, answer) \in HoldState
  <2>1. s.sent[r] \cup {answer} \in SUBSET Answers /\ s.os[r] \cup {answer} \in SUBSET Answers
    BY DEF HoldState, ofRules
  <2>2. /\ [s.sent EXCEPT ![r] = @ \cup {answer}] \in ofRules(SUBSET Answers)
        /\ [s.os EXCEPT ![r] = @ \cup {answer}] \in ofRules(SUBSET Answers)
        /\ s.given + 1 \in Nat
    BY <2>1 DEF HoldState, ofRules
  <2>3. callDown(s, r, answer) =
          [s EXCEPT !.sent = [s.sent EXCEPT ![r] = @ \cup {answer}],
                    !.os = [s.os EXCEPT ![r] = @ \cup {answer}], !.given = s.given + 1]
    BY DEF callDown, HoldState
  <2>4. QED
    BY <2>2, <2>3 DEF HoldState
<1>2. callUp(s, r, answer) \in HoldState
  <2>1. s.sent[r] \ {answer} \in SUBSET Answers /\ s.os[r] \ {answer} \in SUBSET Answers
    BY DEF HoldState, ofRules
  <2>2. /\ [s.sent EXCEPT ![r] = @ \ {answer}] \in ofRules(SUBSET Answers)
        /\ [s.os EXCEPT ![r] = @ \ {answer}] \in ofRules(SUBSET Answers)
    BY <2>1 DEF HoldState, ofRules
  <2>3. callUp(s, r, answer) =
          IF answer \in s.sent[r]
          THEN [s EXCEPT !.sent = [s.sent EXCEPT ![r] = @ \ {answer}],
                         !.os = [s.os EXCEPT ![r] = @ \ {answer}]]
          ELSE s
    BY DEF callUp, HoldState
  <2>4. QED
    BY <2>2, <2>3 DEF HoldState
<1>3. QED
  BY <1>1, <1>2

LEMMA CallKeeps ==
  ASSUME NEW s \in HoldState, NEW r \in DOMAIN Rules, NEW answer \in Answers
  PROVE  /\ callDown(s, r, answer).target = s.target
         /\ callDown(s, r, answer).armed = s.armed
         /\ callDown(s, r, answer).active = s.active
         /\ callDown(s, r, answer).keydowntype = s.keydowntype
         /\ callUp(s, r, answer).target = s.target
         /\ callUp(s, r, answer).armed = s.armed
         /\ callUp(s, r, answer).active = s.active
         /\ callUp(s, r, answer).keydowntype = s.keydowntype
  BY DEF callDown, callUp, HoldState

\* dokeydown leaves its own rule inactive, the timer stopped if it was active,
\* and touches the keydowntype_ of target_ only.
LEMMA DokeydownKeeps ==
  ASSUME NEW s \in HoldState, NEW r \in DOMAIN Rules, s.active[r] => s.target # 0
  PROVE  /\ dokeydown(s, r) \in HoldState
         /\ dokeydown(s, r).target = s.target
         /\ dokeydown(s, r).active = [s.active EXCEPT ![r] = FALSE]
         /\ s.active[r] => ~dokeydown(s, r).armed
         /\ ~s.active[r] => dokeydown(s, r) = s
<1>1. CASE ~s.active[r]
  <2>1. dokeydown(s, r) = s
    BY <1>1 DEF dokeydown
  <2>2. s.active = [s.active EXCEPT ![r] = FALSE]
    BY <1>1 DEF HoldState, ofRules
  <2>3. QED
    BY <1>1, <2>1, <2>2
<1>2. CASE s.active[r]
  <2> DEFINE s1 == [s EXCEPT !.active[r] = FALSE, !.armed = FALSE]
             s2 == [s1 EXCEPT !.keydowntype[s.target] = "NORMAL"]
  <2>1. s.target \in DOMAIN Rules
    BY <1>2 DEF HoldState
  <2>2. /\ s1 \in HoldState /\ s1.target = s.target /\ ~s1.armed
        /\ s1.active = [s.active EXCEPT ![r] = FALSE]
    BY DEF HoldState, ofRules
  <2>3. /\ s2 \in HoldState /\ s2.target = s.target /\ ~s2.armed
        /\ s2.active = [s.active EXCEPT ![r] = FALSE]
    BY <2>1, <2>2 DEF HoldState, ofRules, Answers
  <2>4. /\ callDown(s2, r, "NORMAL") \in HoldState
        /\ callDown(s2, r, "NORMAL").target = s2.target
        /\ callDown(s2, r, "NORMAL").armed = s2.armed
        /\ callDown(s2, r, "NORMAL").active = s2.active
    <3> HIDE DEF s2
    <3>1. QED
      BY <2>3, CallTyped, CallKeeps DEF Answers
  <2>5. dokeydown(s, r) = IF s.keydowntype[s.target] = "NONE"
                          THEN callDown(s2, r, "NORMAL") ELSE s1
    BY <1>2 DEF dokeydown
  <2>6. QED
    BY <1>2, <2>2, <2>3, <2>4, <2>5
<1>3. QED
  BY <1>1, <1>2

\* dokeyup changes nothing while the press of target_ is undecided.
LEMMA DokeyupKeeps ==
  ASSUME NEW s \in HoldState, NEW r \in DOMAIN Rules, s.target # 0
  PROVE  /\ dokeyup(s, r) \in HoldState
         /\ dokeyup(s, r).target = s.target
         /\ dokeyup(s, r).armed = s.armed
         /\ dokeyup(s, r).active = s.active
         /\ s.keydowntype[s.target] = "NONE" => dokeyup(s, r) = s
         /\ dokeyup(s, r).keydowntype[s.target] = "NONE"
<1> DEFINE answer == s.keydowntype[s.target]
           s1 == [s EXCEPT !.keydowntype[s.target] = "NONE"]
<1>1. s.target \in DOMAIN Rules /\ answer \in {"NONE"} \cup Answers
  BY DEF HoldState, ofRules
<1>2. CASE answer = "NONE"
  BY <1>2 DEF dokeyup
<1>3. CASE answer # "NONE"
  <2>1. /\ s1 \in HoldState /\ s1.target = s.target /\ s1.armed = s.armed
        /\ s1.active = s.active /\ s1.keydowntype[s.target] = "NONE"
    BY <1>1 DEF HoldState, ofRules
  <2>2. dokeyup(s, r) = callUp(s1, r, answer)
    BY <1>3 DEF dokeyup
  <2>3. answer \in Answers
    BY <1>1, <1>3
  <2> HIDE DEF s1, answer
  <2>4. /\ callUp(s1, r, answer) \in HoldState
        /\ callUp(s1, r, answer).target = s1.target
        /\ callUp(s1, r, answer).armed = s1.armed
        /\ callUp(s1, r, answer).active = s1.active
        /\ callUp(s1, r, answer).keydowntype = s1.keydowntype
    BY <2>1, <2>3, CallTyped, CallKeeps
  <2>5. QED
    BY <1>3, <2>1, <2>2, <2>4 DEF answer
<1>4. QED
  BY <1>2, <1>3

LEMMA BeginKeeps ==
  ASSUME NEW s \in HoldState, NEW r \in DOMAIN Rules
  PROVE  /\ begin(s, r) \in HoldState
         /\ begin(s, r).target = r
         /\ begin(s, r).active[r]
         /\ begin(s, r).keydowntype[r] = "NONE"
  BY DEF begin, HoldState, ofRules, Answers

(***************************************************************************)
(* The invariant holds initially and every action keeps it.                *)
(***************************************************************************)
LEMMA InitIInv == Init => IInv
<1> SUFFICES ASSUME Init PROVE IInv
  OBVIOUS
<1>1. hold \in HoldState
  BY FreshTyped DEF Init
<1>2. TypeOK
  BY <1>1, HoldingConstants DEF Init, TypeOK, ofRules
<1>3. TargetSet /\ TimerForUndecided
  BY DEF Init, TargetSet, TimerForUndecided, fresh
<1>4. QED
  BY <1>2, <1>3 DEF IInv

LEMMA KeyEventKeeps ==
  ASSUME IInv, NEW k \in Keys, KeyEvent(k)
  PROVE  IInv'
<1> USE DEF IInv, KeyEvent
<1>1. visit' \in Visit
  BY RulesTyped DEF Visit
<1>2. TypeOK'
  <2>1. down' \subseteq Keys /\ held' \in Int
    BY DEF TypeOK
  <2>2. alone' \in BOOLEAN
    BY DEF TypeOK
  <2>3. QED
    BY <1>1, <2>1, <2>2 DEF TypeOK
<1>3. TargetSet' /\ TimerForUndecided'
  BY DEF TargetSet, TimerForUndecided
<1>4. QED
  BY <1>2, <1>3

\* The next rule is looked at: visit keeps its type.
LEMMA VisitGoesOn ==
  ASSUME TypeOK, NEW r \in DOMAIN Rules, visit # idle, visit.next = r,
         NEW c \in {0} \cup Classes
  PROVE  /\ [visit EXCEPT !.next = @ + 1] \in Visit
         /\ [visit EXCEPT !.next = @ + 1, !.taken = c] \in Visit
<1>1. visit \in Visit /\ visit.next + 1 \in 1 .. Len(Rules) + 1
  BY RulesTyped DEF TypeOK, Visit
<1>2. QED
  BY <1>1 DEF Visit

LEMMA TakeKeeps ==
  ASSUME IInv, NEW r \in DOMAIN Rules, Take(r)
  PROVE  IInv'
<1> USE DEF IInv
<1>1. visit' \in Visit
  BY VisitGoesOn, RulesTyped DEF Take, offered
<1>2. hold \in HoldState /\ drop \in ofRules(BOOLEAN) /\ visit \in Visit
  BY DEF TypeOK, Take, offered
<1>3. CASE visit.down
  <2>1. hold' = begin(hold, r) /\ drop' = [drop EXCEPT ![r] = TRUE]
    BY <1>2, <1>3 DEF Take, Visit
  <2>2. /\ hold' \in HoldState /\ hold'.target = r /\ hold'.active[r]
        /\ hold'.keydowntype[r] = "NONE"
    BY <1>2, <2>1, BeginKeeps
  <2>3. drop' \in ofRules(BOOLEAN) /\ drop'[r]
    BY <1>2, <2>1 DEF ofRules
  <2>4. TypeOK'
    BY <1>1, <2>2, <2>3 DEF TypeOK, Take
  <2>5. TargetSet' /\ TimerForUndecided'
    BY <2>2, <2>3, RulesTyped DEF TargetSet, TimerForUndecided
  <2>6. QED
    BY <2>4, <2>5
<1>4. CASE ~visit.down
  <2> DEFINE s == dokeydown(hold, r)
  <2>1. hold' = dokeyup(s, r) /\ drop' = [drop EXCEPT ![r] = FALSE] /\ drop[r]
    BY <1>2, <1>4 DEF Take, takes, Visit
  <2>2. hold.target # 0
    BY <2>1 DEF TargetSet
  <2>3. /\ s \in HoldState /\ s.target = hold.target
        /\ s.active = [hold.active EXCEPT ![r] = FALSE]
        /\ hold.active[r] => ~s.armed
        /\ ~hold.active[r] => s = hold
    BY <1>2, <2>2, DokeydownKeeps
  <2> HIDE DEF s
  <2>4. /\ hold' \in HoldState /\ hold'.target = s.target
        /\ hold'.armed = s.armed /\ hold'.active = s.active
        /\ s.keydowntype[s.target] = "NONE" => hold' = s
    BY <2>1, <2>2, <2>3, DokeyupKeeps
  <2>5. drop' \in ofRules(BOOLEAN)
    BY <1>2, <2>1 DEF ofRules
  <2>6. TypeOK'
    BY <1>1, <2>4, <2>5 DEF TypeOK, Take
  <2>7. TargetSet'
    BY <2>2, <2>3, <2>4 DEF TargetSet
  <2>8. TimerForUndecided'
    <3> SUFFICES ASSUME hold'.armed PROVE TimerForUndecided'
      BY DEF TimerForUndecided
    <3>1. ~hold.active[r] /\ hold.armed /\ s = hold
      BY <2>3, <2>4
    <3>2. hold.active[hold.target] /\ drop[hold.target] /\ hold.keydowntype[hold.target] = "NONE"
      BY <3>1 DEF TimerForUndecided
    <3>3. hold' = hold /\ hold.target # r
      BY <2>4, <3>1, <3>2
    <3>4. hold.target \in DOMAIN Rules /\ drop'[hold.target]
      BY <1>2, <2>1, <2>2, <3>2, <3>3 DEF HoldState, ofRules
    <3>5. QED
      BY <2>2, <3>2, <3>3, <3>4 DEF TimerForUndecided
  <2>9. QED
    BY <2>6, <2>7, <2>8
<1>5. QED
  BY <1>3, <1>4

LEMMA RefuseKeeps ==
  ASSUME IInv, NEW r \in DOMAIN Rules, Refuse(r)
  PROVE  IInv'
<1> USE DEF IInv
<1>1. visit' \in Visit
  BY VisitGoesOn DEF Refuse, offered
<1>2. hold \in HoldState
  BY DEF TypeOK
<1>3. hold.active[r] => hold.target # 0
  BY DEF TargetSet
<1>4. /\ hold' \in HoldState /\ hold'.target = hold.target
      /\ hold' = hold \/ (~hold'.armed /\ hold'.active = [hold.active EXCEPT ![r] = FALSE])
  BY <1>2, <1>3, DokeydownKeeps DEF Refuse
<1>5. TypeOK'
  BY <1>1, <1>4 DEF TypeOK, Refuse
<1>6. TargetSet'
  BY <1>2, <1>4 DEF TargetSet, Refuse, HoldState, ofRules
<1>7. TimerForUndecided'
  BY <1>4 DEF TimerForUndecided, Refuse
<1>8. QED
  BY <1>5, <1>6, <1>7

LEMMA SkipKeeps ==
  ASSUME IInv, NEW r \in DOMAIN Rules, Skip(r)
  PROVE  IInv'
<1> USE DEF IInv
<1>1. visit' \in Visit
  BY VisitGoesOn DEF Skip
<1>2. TypeOK'
  BY <1>1 DEF TypeOK, Skip
<1>3. TargetSet' /\ TimerForUndecided'
  BY DEF TargetSet, TimerForUndecided, Skip
<1>4. QED
  BY <1>2, <1>3

LEMMA EndEventKeeps ==
  ASSUME IInv, EndEvent
  PROVE  IInv'
<1> USE DEF IInv
<1>1. /\ hold' \in HoldState /\ hold'.target = hold.target /\ hold'.armed = hold.armed
      /\ hold'.active = hold.active /\ hold'.keydowntype = hold.keydowntype
  BY DEF EndEvent, TypeOK, HoldState, noAnswer, ofRules
<1>2. TypeOK'
  <2>1. held' \in Int /\ alone' \in BOOLEAN
    <3>1. (held' = 0 /\ alone' = TRUE) \/ (held' = held /\ alone' = alone)
      BY Zenon DEF EndEvent
    <3>2. held \in Int /\ alone \in BOOLEAN
      BY DEF TypeOK
    <3>3. held' \in Int
      BY <3>1, <3>2
    <3>4. alone' \in BOOLEAN
      BY <3>1, <3>2, Zenon
    <3>5. QED
      BY <3>3, <3>4
  <2>2. /\ visit' = idle /\ down' \subseteq Keys /\ enabled' \subseteq Classes
        /\ drop' \in ofRules(BOOLEAN) /\ changes' \in Nat
    BY DEF TypeOK, EndEvent
  <2>3. QED
    BY <1>1, <2>1, <2>2 DEF TypeOK
<1>3. TargetSet' /\ TimerForUndecided'
  BY <1>1 DEF TargetSet, TimerForUndecided, EndEvent
<1>4. QED
  BY <1>2, <1>3

LEMMA TimerKeeps ==
  ASSUME IInv, fireholding_timer_callback
  PROVE  IInv'
<1> USE DEF IInv
<1> DEFINE s  == [hold EXCEPT !.armed = FALSE]
           s1 == [s EXCEPT !.keydowntype[s.target] = "HOLDING"]
<1>1. /\ s \in HoldState /\ s.target = hold.target /\ ~s.armed /\ s.active = hold.active
      /\ hold.target \in DOMAIN Rules
  BY DEF TypeOK, HoldState, TimerForUndecided, fireholding_timer_callback
<1>2. /\ s1 \in HoldState /\ s1.target = hold.target /\ ~s1.armed /\ s1.active = hold.active
  BY <1>1 DEF HoldState, ofRules, Answers
<1>3. hold' = s \/ hold' = callDown(s1, s.target, "HOLDING")
  BY DEF fireholding_timer_callback
<1> HIDE DEF s, s1
<1>4. /\ hold' \in HoldState /\ hold'.target = hold.target /\ ~hold'.armed
      /\ hold'.active = hold.active
  <2>1. CASE hold' = s
    BY <1>1, <2>1
  <2>2. CASE hold' = callDown(s1, s.target, "HOLDING")
    <3>1. s.target \in DOMAIN Rules /\ "HOLDING" \in Answers
      BY <1>1 DEF Answers
    <3>2. /\ callDown(s1, s.target, "HOLDING") \in HoldState
          /\ callDown(s1, s.target, "HOLDING").target = s1.target
          /\ callDown(s1, s.target, "HOLDING").armed = s1.armed
          /\ callDown(s1, s.target, "HOLDING").active = s1.active
      BY <1>2, <3>1, CallTyped, CallKeeps
    <3>3. QED
      BY <1>2, <2>2, <3>2
  <2>3. QED
    BY <1>3, <2>1, <2>2
<1>5. TypeOK'
  BY <1>4 DEF TypeOK, fireholding_timer_callback
<1>6. TargetSet' /\ TimerForUndecided'
  BY <1>4 DEF TargetSet, TimerForUndecided, fireholding_timer_callback
<1>7. QED
  BY <1>5, <1>6

LEMMA ChangesKeep ==
  ASSUME IInv, Refresh \/ Reload
  PROVE  IInv'
<1> USE DEF IInv
<1>1. CASE Refresh
  BY <1>1 DEF Refresh, TypeOK, TargetSet, TimerForUndecided
<1>2. CASE Reload
  <2>1. /\ hold' \in HoldState /\ hold'.target = 0 /\ ~hold'.armed
        /\ hold'.active = [r \in DOMAIN Rules |-> FALSE]
    BY <1>2, FreshTyped DEF Reload, fresh, TypeOK, HoldState
  <2>2. TypeOK'
    BY <1>2, <2>1 DEF Reload, TypeOK, ofRules
  <2>3. TargetSet' /\ TimerForUndecided'
    BY <1>2, <2>1 DEF Reload, TargetSet, TimerForUndecided
  <2>4. QED
    BY <2>2, <2>3
<1>3. QED
  BY <1>1, <1>2

\* The types, the target and the timer are an invariant of every behaviour.
THEOREM Invariance == Spec => []IInv
<1>1. IInv /\ [Next]_vars => IInv'
  <2> SUFFICES ASSUME IInv, [Next]_vars PROVE IInv'
    OBVIOUS
  <2>1. CASE \E k \in Keys : KeyEvent(k)
    BY <2>1, KeyEventKeeps
  <2>2. CASE InputTimer
    BY <2>2, TakeKeeps, RefuseKeeps, SkipKeeps, EndEventKeeps DEF InputTimer
  <2>3. CASE fireholding_timer_callback
    BY <2>3, TimerKeeps
  <2>4. CASE Refresh \/ Reload
    BY <2>4, ChangesKeep
  <2>5. CASE UNCHANGED vars
    BY <2>5 DEF vars, IInv, TypeOK, TargetSet, TimerForUndecided
  <2>6. QED
    BY <2>1, <2>2, <2>3, <2>4, <2>5 DEF Next
<1>2. QED
  BY <1>1, InitIInv, PTL DEF Spec

\* dokeydown and dokeyup, which follow target_ without a look, never follow NULL:
\* whatever rules are loaded, freed and switched on and off in between.
THEOREM TargetNeverNull == Spec => []TargetSet
<1>1. IInv => TargetSet
  BY DEF IInv
<1>2. QED
  BY <1>1, Invariance, PTL

\* fireholding_timer_ is armed only while the press of target_ is undecided and
\* its key's release is still to come.
THEOREM TimerOnlyUndecided == Spec => []TimerForUndecided
<1>1. IInv => TimerForUndecided
  BY DEF IInv
<1>2. QED
  BY <1>1, Invariance, PTL

\* Every variable of HoldingKeyToKey keeps its type.
THEOREM TypeCorrect == Spec => []TypeOK
<1>1. IInv => TypeOK
  BY DEF IInv
<1>2. QED
  BY <1>1, Invariance, PTL

-------------------------------------------------------------------------------
(***************************************************************************)
(* A press is answered exactly once while no two keys of rules are down    *)
(* together.  The invariant says where each event under way has come to:   *)
(* drop follows the key of the first rule that has it, the class that took *)
(* the event is set once that rule was offered it, and, alone, target_ is  *)
(* the rule whose key is down, undecided with nothing given or answered    *)
(* once with what the system still holds.                                  *)
(***************************************************************************)

\* No rule before r has its key.
Owner(r) == \A q \in DOMAIN Rules : q < r => Rules[q].from # Rules[r].from

\* The event under way is of the key of r and has not come to r yet.
Waits(r) == visit # idle /\ Rules[r].from = visit.key /\ visit.next <= r

\* The keys down, and the one that just moved.
busy == IF visit # idle THEN down \cup {visit.key} ELSE down

Counted ==
  /\ IsFiniteSet(down) /\ held = Cardinality(down)
  /\ visit # idle => (visit.down = TRUE <=> visit.key \in down)

DropsFollow ==
  \A r \in DOMAIN Rules : drop[r] = TRUE <=> Owner(r) /\ (Rules[r].from \in down <=> ~Waits(r))

TakenFollows ==
  visit # idle =>
    (visit.taken # 0 <=> \E q \in DOMAIN Rules : q < visit.next /\ Rules[q].from = visit.key)

Undecided(s, r) == s.active[r] = TRUE /\ s.keydowntype[r] = "NONE" /\ s.given = 0 /\ s.os[r] = {}

Answered(s, r) ==
  /\ s.keydowntype[r] \in s.sent[r] /\ s.keydowntype[r] # "NONE"
  /\ s.given = 1 /\ s.os[r] = {s.keydowntype[r]}

Pressing(s, r) == s.target = r /\ (Undecided(s, r) \/ Answered(s, r))

OneKey == \A j, k \in busy \cap RuleKeys : j = k

Answering ==
  \A r \in DOMAIN Rules : /\ drop[r] = TRUE => Pressing(hold, r)
                          /\ drop[r] = FALSE => hold.os[r] = {}

ActiveDrops == \A r \in DOMAIN Rules : hold.active[r] = TRUE => drop[r] = TRUE

\* While rules are not changed.
PressInv ==
  changes = 0 =>
    /\ enabled = Classes /\ Counted /\ DropsFollow /\ TakenFollows /\ ActiveDrops
    /\ alone = TRUE => OneKey /\ Answering

\* What the operators do to the press of target_.
LEMMA BeginPresses ==
  ASSUME NEW s \in HoldState, NEW r \in DOMAIN Rules
  PROVE  /\ s.os[r] = {} => Pressing(begin(s, r), r)
         /\ begin(s, r).os = s.os
         /\ begin(s, r).active = [s.active EXCEPT ![r] = TRUE]
  BY DEF begin, HoldState, ofRules, Pressing, Undecided

LEMMA CallDownGives ==
  ASSUME NEW s \in HoldState, NEW r \in DOMAIN Rules, NEW answer \in Answers
  PROVE  /\ callDown(s, r, answer).given = s.given + 1
         /\ callDown(s, r, answer).sent[r] = s.sent[r] \cup {answer}
         /\ callDown(s, r, answer).os[r] = s.os[r] \cup {answer}
         /\ \A q \in DOMAIN Rules : q # r => callDown(s, r, answer).os[q] = s.os[q]
  BY DEF callDown, HoldState, ofRules

\* An undecided press is answered.
LEMMA AnswerOnce ==
  ASSUME NEW s \in HoldState, NEW r \in DOMAIN Rules, NEW answer \in Answers,
         s.target = r, s.given = 0, s.os[r] = {}, s.keydowntype[r] = answer
  PROVE  /\ callDown(s, r, answer).target = r
         /\ Answered(callDown(s, r, answer), r)
         /\ \A q \in DOMAIN Rules : q # r => callDown(s, r, answer).os[q] = s.os[q]
<1> DEFINE t == callDown(s, r, answer)
<1>1. /\ t.given = s.given + 1 /\ t.sent[r] = s.sent[r] \cup {answer}
      /\ t.os[r] = s.os[r] \cup {answer}
      /\ t.target = s.target /\ t.keydowntype = s.keydowntype
      /\ \A q \in DOMAIN Rules : q # r => t.os[q] = s.os[q]
  BY CallDownGives, CallKeeps
<1>2. answer # "NONE"
  BY DEF Answers
<1> HIDE DEF t
<1>3. Answered(t, r)
  BY <1>1, <1>2 DEF Answered
<1>4. QED
  BY <1>1, <1>3 DEF t

LEMMA DokeydownAnswers ==
  ASSUME NEW s \in HoldState, NEW r \in DOMAIN Rules, Pressing(s, r)
  PROVE  /\ dokeydown(s, r) \in HoldState /\ dokeydown(s, r).target = r
         /\ Answered(dokeydown(s, r), r)
         /\ \A q \in DOMAIN Rules : q # r => dokeydown(s, r).os[q] = s.os[q]
<1> DEFINE s1 == [s EXCEPT !.active[r] = FALSE, !.armed = FALSE]
           s2 == [s1 EXCEPT !.keydowntype[s.target] = "NORMAL"]
<1>1. s.target = r /\ s.target # 0 /\ s.active[r] \in BOOLEAN
  BY RulesTyped DEF Pressing, HoldState, ofRules
<1>2. dokeydown(s, r) \in HoldState /\ dokeydown(s, r).target = r
  BY <1>1, DokeydownKeeps
<1>3. /\ s1 \in HoldState /\ s1.target = r /\ s1.given = s.given /\ s1.os = s.os
      /\ s1.sent = s.sent /\ s1.keydowntype = s.keydowntype
  BY <1>1 DEF HoldState, ofRules
<1>4. /\ s2 \in HoldState /\ s2.target = r /\ s2.given = s.given /\ s2.os = s.os
      /\ s2.keydowntype[r] = "NORMAL"
  <2> HIDE DEF s1
  <2>1. QED
    BY <1>1, <1>3 DEF HoldState, ofRules, Answers
<1>5. dokeydown(s, r) = IF ~s.active[r] THEN s
                        ELSE IF s.keydowntype[r] = "NONE" THEN callDown(s2, r, "NORMAL") ELSE s1
  BY <1>1 DEF dokeydown
<1> HIDE DEF s1, s2
<1>6. CASE Undecided(s, r)
  <2>1. dokeydown(s, r) = callDown(s2, r, "NORMAL") /\ s2.given = 0 /\ s2.os[r] = {}
    BY <1>4, <1>5, <1>6 DEF Undecided
  <2>2. /\ Answered(callDown(s2, r, "NORMAL"), r)
        /\ \A q \in DOMAIN Rules : q # r => callDown(s2, r, "NORMAL").os[q] = s2.os[q]
    BY <1>4, <2>1, AnswerOnce DEF Answers
  <2>3. QED
    BY <1>2, <1>4, <2>1, <2>2
<1>7. CASE Answered(s, r)
  <2>1. dokeydown(s, r) = s \/ dokeydown(s, r) = s1
    BY <1>5, <1>7 DEF Answered
  <2>2. Answered(s1, r)
    BY <1>3, <1>7 DEF Answered
  <2>3. QED
    BY <1>2, <1>3, <1>7, <2>1, <2>2
<1>8. QED
  BY <1>6, <1>7 DEF Pressing

\* What was answered is taken back by the release.
LEMMA DokeyupEnds ==
  ASSUME NEW s \in HoldState, NEW r \in DOMAIN Rules, s.target = r, Answered(s, r)
  PROVE  /\ dokeyup(s, r).given = 1 /\ dokeyup(s, r).os[r] = {}
         /\ \A q \in DOMAIN Rules : q # r => dokeyup(s, r).os[q] = s.os[q]
<1> DEFINE answer == s.keydowntype[r]
           s1 == [s EXCEPT !.keydowntype[s.target] = "NONE"]
<1>1. /\ s1 \in HoldState /\ s1.given = 1 /\ s1.os = s.os /\ s1.sent = s.sent
  BY DEF HoldState, ofRules, Answered
<1>2. dokeyup(s, r) = callUp(s1, r, answer) /\ answer \in s1.sent[r] /\ s1.os[r] = {answer}
  BY <1>1 DEF dokeyup, Answered
<1> HIDE DEF s1, answer
<1>3. callUp(s1, r, answer) = [s1 EXCEPT !.sent[r] = @ \ {answer}, !.os[r] = @ \ {answer}]
  BY <1>2 DEF callUp
<1>4. /\ callUp(s1, r, answer).given = s1.given
      /\ callUp(s1, r, answer).os = [s1.os EXCEPT ![r] = @ \ {answer}]
  BY <1>1, <1>3 DEF HoldState
<1>5. QED
  BY <1>1, <1>2, <1>4 DEF HoldState, ofRules

(***************************************************************************)
(* Every action keeps it.                                                  *)
(***************************************************************************)

\* Who is down while the event is offered: a rule whose key it is not, or that
\* it has not come to yet, keeps what it had.
LEMMA DropIsBusy ==
  ASSUME DropsFollow, NEW r \in DOMAIN Rules, drop[r] = TRUE
  PROVE  Rules[r].from \in busy \cap RuleKeys /\ Owner(r)
<1>1. Owner(r) /\ (Rules[r].from \in down <=> ~Waits(r))
  BY DEF DropsFollow
<1>2. Rules[r].from \in busy
  BY <1>1 DEF Waits, busy
<1>3. QED
  BY <1>1, <1>2 DEF RuleKeys

\* No two rules are pressed while one key is busy.
LEMMA OnePressed ==
  ASSUME DropsFollow, OneKey, NEW r \in DOMAIN Rules, NEW q \in DOMAIN Rules, q # r,
         drop[q] = TRUE, Owner(r), Rules[r].from \in busy
  PROVE  FALSE
<1>1. Rules[q].from \in busy \cap RuleKeys /\ Owner(q)
  BY DropIsBusy
<1>2. Rules[q].from = Rules[r].from
  BY <1>1 DEF OneKey, RuleKeys
<1>3. q < r \/ r < q
  BY RulesTyped
<1>4. QED
  BY <1>1, <1>2, <1>3 DEF Owner

LEMMA InitPress == Init => PressInv
<1> SUFFICES ASSUME Init PROVE PressInv
  OBVIOUS
<1>1. IsFiniteSet(down) /\ Cardinality(down) = 0
  BY FS_EmptySet DEF Init
<1>2. Counted /\ DropsFollow /\ TakenFollows
  BY <1>1 DEF Init, Counted, DropsFollow, TakenFollows, Waits
<1>3. OneKey /\ Answering /\ ActiveDrops
  BY DEF Init, OneKey, busy, Answering, ActiveDrops, fresh, noAnswer
<1>4. QED
  BY <1>2, <1>3 DEF Init, PressInv

LEMMA KeyEventPress ==
  ASSUME IInv, PressInv, NEW k \in Keys, KeyEvent(k)
  PROVE  PressInv'
<1> SUFFICES ASSUME changes' = 0 PROVE PressInv'
  BY DEF PressInv
<1>1. /\ enabled = Classes /\ Counted /\ DropsFollow /\ TakenFollows /\ ActiveDrops
      /\ alone = TRUE => OneKey /\ Answering
  BY DEF PressInv, KeyEvent
<1>2. /\ visit = idle /\ visit' # idle /\ visit'.key = k /\ visit'.next = 1 /\ visit'.taken = 0
      /\ visit'.down = (k \notin down)
      /\ enabled' = enabled /\ drop' = drop /\ hold' = hold
      /\ down' = IF k \in down THEN down \ {k} ELSE down \cup {k}
  BY DEF KeyEvent, idle
<1>3. Counted'
  <2>1. /\ IsFiniteSet(down) /\ held = Cardinality(down)
        /\ held' = IF k \in down THEN held - 1 ELSE held + 1
    BY <1>1 DEF Counted, KeyEvent
  <2>2. IsFiniteSet(down') /\ held' = Cardinality(down')
    BY <1>2, <2>1, FS_AddElement, FS_RemoveElement
  <2>3. visit'.down = TRUE <=> k \in down'
    BY <1>2
  <2>4. QED
    BY <1>2, <2>2, <2>3 DEF Counted
<1>4. DropsFollow'
  <2>1. ASSUME NEW r \in DOMAIN Rules
        PROVE  (Rules[r].from \in down' <=> ~Waits(r)') <=> (Rules[r].from \in down <=> ~Waits(r))
    <3>1. ~Waits(r)
      BY <1>2 DEF Waits
    <3>2. Waits(r)' <=> Rules[r].from = k
      BY <1>2, RulesTyped DEF Waits
    <3>3. QED
      BY <1>2, <3>1, <3>2
  <2>2. \A r \in DOMAIN Rules : Owner(r)' <=> Owner(r)
    BY DEF Owner
  <2>3. QED
    BY <1>1, <1>2, <2>1, <2>2 DEF DropsFollow
<1>5. TakenFollows'
  BY <1>2, RulesTyped DEF TakenFollows
<1>6. ActiveDrops'
  BY <1>1, <1>2 DEF ActiveDrops
<1>7. ASSUME alone' = TRUE
      PROVE  OneKey' /\ Answering'
  <2>1. alone = TRUE /\ (k \in RuleKeys \ down => down \cap RuleKeys = {})
    BY <1>7, Zenon DEF KeyEvent, IInv, TypeOK
  <2>2. OneKey'
    BY <1>1, <1>2, <2>1 DEF OneKey, busy
  <2>3. Answering'
    BY <1>1, <1>2, <2>1 DEF Answering
  <2>4. QED
    BY <2>2, <2>3
<1>8. QED
  BY <1>1, <1>2, <1>3, <1>4, <1>5, <1>6, <1>7 DEF PressInv

\* A turn of a rule moves `visit` on: what is left to show of it.
LEMMA TurnPress ==
  ASSUME IInv, PressInv, changes = 0, NEW r \in DOMAIN Rules, visit # idle, visit.next = r,
         visit' # idle, visit'.key = visit.key, visit'.down = visit.down, visit'.next = r + 1,
         UNCHANGED << down, held, enabled, alone, changes >>,
         \A q \in DOMAIN Rules : q # r => drop'[q] = drop[q],
         Rules[r].from # visit.key =>
           drop'[r] = drop[r] /\ (visit'.taken # 0 <=> visit.taken # 0),
         Rules[r].from = visit.key =>
           (drop'[r] = TRUE <=> Owner(r) /\ visit.key \in down) /\ visit'.taken # 0
  PROVE  /\ Counted' /\ DropsFollow' /\ TakenFollows'
         /\ busy' = busy /\ (OneKey' <=> OneKey)
<1>1. Counted /\ DropsFollow /\ TakenFollows
  BY DEF PressInv
<1>2. Counted'
  BY <1>1 DEF Counted
<1>3. DropsFollow'
  <2>1. ASSUME NEW q \in DOMAIN Rules, q # r \/ Rules[r].from # visit.key
        PROVE  (Waits(q)' <=> Waits(q)) /\ drop'[q] = drop[q]
    BY <2>1, RulesTyped DEF Waits
  <2>2. Rules[r].from = visit.key => ~Waits(r)'
    BY RulesTyped DEF Waits
  <2>3. \A q \in DOMAIN Rules : Owner(q)' <=> Owner(q)
    BY DEF Owner
  <2>4. QED
    BY <1>1, <2>1, <2>2, <2>3 DEF DropsFollow
<1>4. TakenFollows'
  <2>1. \A q \in DOMAIN Rules : q < r + 1 <=> q < r \/ q = r
    BY RulesTyped
  <2>2. visit.taken # 0 <=> \E q \in DOMAIN Rules : q < r /\ Rules[q].from = visit.key
    BY <1>1 DEF TakenFollows
  <2>3. visit'.taken # 0 <=> \E q \in DOMAIN Rules : q < r + 1 /\ Rules[q].from = visit.key
    BY <2>1, <2>2
  <2>4. QED
    BY <2>3 DEF TakenFollows
<1>5. busy' = busy
  BY DEF busy
<1>6. QED
  BY <1>2, <1>3, <1>4, <1>5 DEF OneKey

LEMMA ClassNotZero ==
  ASSUME NEW r \in DOMAIN Rules
  PROVE  Rules[r].class # 0
<1>1. Rules \in Seq([class : Nat \ {0}, from : Keys])
  BY HoldingConstants
<1>2. ASSUME NEW S, Rules \in Seq(S) PROVE Rules[r] \in S
  BY <1>2
<1>3. Rules[r] \in [class : Nat \ {0}, from : Keys]
  BY <1>1, <1>2
<1>4. QED
  BY <1>3

LEMMA TakePress ==
  ASSUME IInv, PressInv, NEW r \in DOMAIN Rules, Take(r)
  PROVE  PressInv'
<1> SUFFICES ASSUME changes' = 0 PROVE PressInv'
  BY DEF PressInv
<1>1. /\ changes = 0 /\ enabled = Classes /\ Counted /\ DropsFollow /\ TakenFollows /\ ActiveDrops
      /\ alone = TRUE => OneKey /\ Answering
  BY DEF PressInv, Take
<1>2. /\ visit # idle /\ visit.next = r /\ visit.taken = 0 /\ Rules[r].from = visit.key
      /\ visit.down = TRUE \/ drop[r] = TRUE
      /\ visit' = [visit EXCEPT !.next = r + 1, !.taken = Rules[r].class]
      /\ drop' = [drop EXCEPT ![r] = visit.down]
      /\ UNCHANGED << down, held, enabled, alone, changes >>
  BY Zenon DEF Take, offered, takes
<1>3. /\ visit \in Visit /\ hold \in HoldState /\ drop \in ofRules(BOOLEAN)
      /\ visit.down \in BOOLEAN /\ drop[r] \in BOOLEAN
  BY <1>2 DEF IInv, TypeOK, Visit, ofRules
<1>4. /\ Owner(r) /\ (visit.down = TRUE <=> visit.key \in down) /\ visit.key \in busy
      /\ visit.down = TRUE => drop[r] = FALSE
  <2>1. Owner(r)
    BY <1>1, <1>2 DEF TakenFollows, Owner
  <2>2. Waits(r)
    BY <1>2, RulesTyped DEF Waits
  <2>3. QED
    BY <1>1, <1>2, <1>3, <2>1, <2>2 DEF DropsFollow, Counted, busy
<1>5. /\ visit' # idle /\ visit'.key = visit.key /\ visit'.down = visit.down
      /\ visit'.next = r + 1 /\ visit'.taken # 0
  BY <1>2, <1>3, ClassNotZero, RulesTyped DEF Visit, idle
<1>6. /\ drop'[r] = visit.down
      /\ \A q \in DOMAIN Rules : q # r => drop'[q] = drop[q]
  BY <1>2, <1>3 DEF ofRules
<1>7. Counted' /\ DropsFollow' /\ TakenFollows' /\ (OneKey' <=> OneKey)
  <2>1. drop'[r] = TRUE <=> Owner(r) /\ visit.key \in down
    BY <1>4, <1>6
  <2>2. QED
    BY <1>1, <1>2, <1>5, <1>6, <2>1, TurnPress
<1>8. ASSUME NEW q \in DOMAIN Rules, q # r, OneKey
      PROVE  drop[q] # TRUE
  BY <1>1, <1>2, <1>4, <1>8, OnePressed
<1>9. CASE visit.down = TRUE
  <2>1. hold' = begin(hold, r)
    BY <1>9 DEF Take
  <2>2. /\ hold'.os = hold.os /\ hold'.active = [hold.active EXCEPT ![r] = TRUE]
        /\ hold.os[r] = {} => Pressing(hold', r)
    BY <1>3, <2>1, BeginPresses
  <2>3. ActiveDrops'
    BY <1>1, <1>3, <1>6, <1>9, <2>2 DEF ActiveDrops, HoldState, ofRules
  <2>4. ASSUME OneKey, Answering PROVE Answering'
    <3>1. Pressing(hold', r)
      BY <1>4, <1>9, <2>2, <2>4 DEF Answering
    <3>2. \A q \in DOMAIN Rules : q # r => drop'[q] # TRUE /\ hold'.os[q] = hold.os[q]
      BY <1>6, <1>8, <2>2, <2>4
    <3>3. QED
      BY <1>6, <1>9, <2>4, <3>1, <3>2 DEF Answering
  <2>5. QED
    BY <1>1, <1>2, <1>7, <2>3, <2>4 DEF PressInv
<1>10. CASE visit.down = FALSE
  <2> DEFINE s == dokeydown(hold, r)
  <2>1. drop[r] = TRUE /\ hold' = dokeyup(s, r) /\ hold.target # 0
    BY <1>2, <1>10, Zenon DEF Take, IInv, TargetSet
  <2>2. s \in HoldState /\ s.target # 0 /\ s.active = [hold.active EXCEPT ![r] = FALSE]
    BY <1>3, <2>1, DokeydownKeeps
  <2>3. hold'.active = s.active
    <3> HIDE DEF s
    <3>1. QED
      BY <2>1, <2>2, DokeyupKeeps
  <2>4. ActiveDrops'
    <3> HIDE DEF s
    <3>1. QED
      BY <1>1, <1>3, <1>6, <2>2, <2>3 DEF ActiveDrops, HoldState, ofRules
  <2>5. ASSUME OneKey, Answering PROVE Answering'
    <3>1. Pressing(hold, r)
      BY <2>1, <2>5 DEF Answering
    <3>2. /\ s.target = r /\ Answered(s, r)
          /\ \A q \in DOMAIN Rules : q # r => s.os[q] = hold.os[q]
      BY <1>3, <3>1, DokeydownAnswers
    <3> HIDE DEF s
    <3>3. /\ hold'.os[r] = {}
          /\ \A q \in DOMAIN Rules : q # r => hold'.os[q] = s.os[q]
      BY <2>1, <2>2, <3>2, DokeyupEnds
    <3>4. \A q \in DOMAIN Rules : q # r => drop'[q] # TRUE /\ hold'.os[q] = hold.os[q]
      BY <1>6, <1>8, <2>5, <3>2, <3>3
    <3>5. QED
      BY <1>6, <1>10, <2>5, <3>3, <3>4 DEF Answering
  <2>6. QED
    BY <1>1, <1>2, <1>7, <2>4, <2>5 DEF PressInv
<1>11. QED
  BY <1>3, <1>9, <1>10

LEMMA RefusePress ==
  ASSUME IInv, PressInv, NEW r \in DOMAIN Rules, Refuse(r) \/ Skip(r)
  PROVE  PressInv'
<1> SUFFICES ASSUME changes' = 0 PROVE PressInv'
  BY DEF PressInv
<1>1. /\ changes = 0 /\ enabled = Classes /\ Counted /\ DropsFollow /\ TakenFollows /\ ActiveDrops
      /\ alone = TRUE => OneKey /\ Answering
  BY DEF PressInv, Refuse, Skip
<1>2. /\ visit # idle /\ visit.next = r /\ visit' = [visit EXCEPT !.next = r + 1]
      /\ UNCHANGED << down, held, enabled, drop, alone, changes >>
      /\ hold' = hold \/ hold' = dokeydown(hold, r)
  BY Zenon DEF Refuse, Skip, offered
<1>3. /\ visit \in Visit /\ hold \in HoldState /\ drop \in ofRules(BOOLEAN)
      /\ visit.down \in BOOLEAN /\ drop[r] \in BOOLEAN /\ visit.taken \in {0} \cup Classes
  BY <1>2 DEF IInv, TypeOK, Visit, ofRules
<1>4. /\ visit' # idle /\ visit'.key = visit.key /\ visit'.down = visit.down
      /\ visit'.next = r + 1 /\ visit'.taken = visit.taken
  BY <1>2, <1>3, RulesTyped DEF Visit, idle
\* A rule is not skipped before its class took the event.
<1>5. visit.taken # 0 \/ Rules[r].from # visit.key \/ (visit.down = FALSE /\ drop[r] = FALSE)
  <2>1. Rules[r].class \in enabled /\ Rules[r].class # 0
    BY <1>1, RulesTyped, ClassNotZero
  <2>2. CASE Refuse(r)
    BY <1>3, <2>2, Zenon DEF Refuse, takes
  <2>3. CASE Skip(r)
    BY <1>2, <2>1, <2>3 DEF Skip, offered
  <2>4. QED
    BY <2>2, <2>3
<1>6. ASSUME Rules[r].from = visit.key
      PROVE  (drop[r] = TRUE <=> Owner(r) /\ visit.key \in down) /\ visit.taken # 0
  <2>1. Waits(r) /\ (visit.down = TRUE <=> visit.key \in down)
    BY <1>1, <1>2, <1>6, RulesTyped DEF Waits, Counted
  <2>2. drop[r] = TRUE <=> Owner(r) /\ visit.key \notin down
    BY <1>1, <1>6, <2>1 DEF DropsFollow
  <2>3. visit.taken # 0 <=> ~Owner(r)
    BY <1>1, <1>2, <1>6 DEF TakenFollows, Owner
  <2>4. ~Owner(r)
    BY <1>3, <1>5, <1>6, <2>1, <2>2, <2>3
  <2>5. QED
    BY <2>2, <2>3, <2>4
<1>7. Counted' /\ DropsFollow' /\ TakenFollows' /\ (OneKey' <=> OneKey)
  BY <1>1, <1>2, <1>4, <1>6, TurnPress
<1>8. CASE hold' = hold
  BY <1>1, <1>2, <1>7, <1>8 DEF PressInv, ActiveDrops, Answering
<1>9. CASE hold' = dokeydown(hold, r) /\ hold' # hold
  <2>1. hold.active[r] = TRUE /\ drop[r] = TRUE
    <3>1. hold.active[r] \in BOOLEAN
      BY <1>3 DEF HoldState, ofRules
    <3>2. ~hold.active[r] => dokeydown(hold, r) = hold
      BY DEF dokeydown
    <3>3. QED
      BY <1>1, <1>9, <3>1, <3>2 DEF ActiveDrops
  <2>2. hold'.active = [hold.active EXCEPT ![r] = FALSE]
    <3>1. hold.target # 0
      BY <2>1 DEF IInv, TargetSet
    <3>2. QED
      BY <1>3, <1>9, <3>1, DokeydownKeeps
  <2>3. ActiveDrops'
    BY <1>1, <1>2, <1>3, <2>2 DEF ActiveDrops, HoldState, ofRules
  <2>4. ASSUME OneKey, Answering PROVE Answering'
    <3>1. Pressing(hold, r)
      BY <2>1, <2>4 DEF Answering
    <3>2. /\ Pressing(hold', r)
          /\ \A q \in DOMAIN Rules : q # r => hold'.os[q] = hold.os[q]
      BY <1>3, <1>9, <3>1, DokeydownAnswers DEF Pressing
    <3>3. \A q \in DOMAIN Rules : q # r => drop[q] # TRUE
      BY <2>4, <3>1 DEF Answering, Pressing
    <3>4. QED
      BY <1>2, <2>1, <2>4, <3>2, <3>3 DEF Answering
  <2>5. QED
    BY <1>1, <1>2, <1>7, <2>3, <2>4 DEF PressInv
<1>10. QED
  BY <1>2, <1>8, <1>9

LEMMA EndEventPress ==
  ASSUME IInv, PressInv, EndEvent
  PROVE  PressInv'
<1> SUFFICES ASSUME changes' = 0 PROVE PressInv'
  BY DEF PressInv
<1>1. /\ enabled = Classes /\ Counted /\ DropsFollow /\ TakenFollows /\ ActiveDrops
      /\ alone = TRUE => OneKey /\ Answering
  BY DEF PressInv, EndEvent
<1>2. /\ visit # idle /\ visit' = idle /\ visit.next > Len(Rules)
      /\ UNCHANGED << down, enabled, drop, changes >>
  BY DEF EndEvent
<1>3. ASSUME NEW r \in DOMAIN Rules
      PROVE  ~Waits(r) /\ ~Waits(r)' /\ (Owner(r)' <=> Owner(r))
  <2>1. visit.next \in Int
    BY <1>2, RulesTyped DEF IInv, TypeOK, Visit
  <2>2. QED
    BY <1>2, <2>1, RulesTyped DEF Waits, Owner
<1>4. IsFiniteSet(down) /\ held = Cardinality(down) /\ Cardinality(down) \in Nat
  BY <1>1, FS_CardinalityType DEF Counted
<1>5. DropsFollow' /\ TakenFollows'
  BY <1>1, <1>2, <1>3 DEF DropsFollow, TakenFollows
<1>6. CASE held <= 0
  <2>1. held' = 0 /\ hold' = [hold EXCEPT !.os = noAnswer]
    BY <1>6 DEF EndEvent
  <2>2. held = 0
    BY <1>4, <1>6
  <2>3. down = {} /\ Counted'
    BY <1>2, <1>4, <2>1, <2>2, FS_EmptySet DEF Counted
  <2>4. \A r \in DOMAIN Rules : drop[r] # TRUE
    BY <1>1, <1>3, <2>3 DEF DropsFollow
  <2>5. hold'.active = hold.active /\ hold'.os = noAnswer
    BY <2>1 DEF IInv, TypeOK, HoldState
  <2>6. OneKey' /\ Answering'
    BY <1>2, <2>3, <2>4, <2>5 DEF OneKey, busy, Answering, noAnswer
  <2>7. ActiveDrops'
    BY <1>1, <1>2, <2>5 DEF ActiveDrops
  <2>8. QED
    BY <1>1, <1>2, <1>5, <2>3, <2>6, <2>7 DEF PressInv
<1>7. CASE ~(held <= 0)
  <2>1. held' = held /\ hold' = hold /\ alone' = alone
    BY <1>7 DEF EndEvent
  <2>2. Counted' /\ ActiveDrops'
    BY <1>1, <1>2, <1>4, <2>1 DEF Counted, ActiveDrops
  <2>3. (OneKey => OneKey') /\ (Answering => Answering')
    BY <1>2, <2>1 DEF OneKey, busy, Answering
  <2>4. QED
    BY <1>1, <1>2, <1>5, <2>1, <2>2, <2>3 DEF PressInv
<1>8. QED
  BY <1>6, <1>7

LEMMA TimerPress ==
  ASSUME IInv, PressInv, fireholding_timer_callback
  PROVE  PressInv'
<1> SUFFICES ASSUME changes' = 0 PROVE PressInv'
  BY DEF PressInv
<1> DEFINE r == hold.target
           s == [hold EXCEPT !.armed = FALSE]
           s1 == [s EXCEPT !.keydowntype[r] = "HOLDING"]
<1>1. /\ changes = 0 /\ enabled = Classes /\ Counted /\ DropsFollow /\ TakenFollows /\ ActiveDrops
      /\ alone = TRUE => OneKey /\ Answering
  BY DEF PressInv, fireholding_timer_callback
<1>2. UNCHANGED << down, held, visit, enabled, drop, alone, changes >>
  BY DEF fireholding_timer_callback
<1>3. /\ hold \in HoldState /\ r \in DOMAIN Rules /\ drop[r] = TRUE
      /\ hold.active[r] = TRUE /\ hold.keydowntype[r] = "NONE"
  <2>1. hold \in HoldState /\ drop \in ofRules(BOOLEAN)
    BY DEF IInv, TypeOK
  <2>2. r \in DOMAIN Rules /\ drop[r] /\ hold.active[r] /\ hold.keydowntype[r] = "NONE"
    BY <2>1 DEF IInv, TimerForUndecided, fireholding_timer_callback, HoldState
  <2>3. QED
    BY <2>1, <2>2 DEF HoldState, ofRules
<1>4. /\ s \in HoldState /\ s.target = r /\ s.keydowntype = hold.keydowntype
      /\ s.given = hold.given /\ s.os = hold.os /\ s.active = hold.active
  BY <1>3 DEF HoldState
<1>5. hold' = callDown(s1, r, "HOLDING")
  BY <1>3, <1>4, RulesTyped DEF fireholding_timer_callback
<1>6. /\ s1 \in HoldState /\ s1.target = r /\ s1.keydowntype[r] = "HOLDING"
      /\ s1.given = hold.given /\ s1.os = hold.os /\ s1.active = hold.active
  <2> HIDE DEF s
  <2>1. QED
    BY <1>3, <1>4 DEF HoldState, ofRules, Answers
<1> HIDE DEF r, s, s1
<1>7. hold'.active = hold.active
  BY <1>3, <1>5, <1>6, CallKeeps DEF Answers
<1>8. ASSUME Answering PROVE Answering'
  <2>1. r = hold.target /\ Undecided(hold, r)
    BY <1>3, <1>8 DEF Answering, Pressing, Answered, r
  <2>2. /\ hold'.target = r /\ Answered(hold', r)
        /\ \A q \in DOMAIN Rules : q # r => hold'.os[q] = hold.os[q]
    <3>1. s1.given = 0 /\ s1.os[r] = {} /\ "HOLDING" \in Answers
      BY <1>6, <2>1 DEF Undecided, Answers
    <3>2. QED
      BY <1>3, <1>5, <1>6, <3>1, AnswerOnce
  <2>3. \A q \in DOMAIN Rules : q # r => drop[q] # TRUE
    BY <1>8, <2>1 DEF Answering, Pressing
  <2>4. QED
    BY <1>2, <1>3, <1>8, <2>2, <2>3 DEF Answering, Pressing
<1>9. /\ Counted' /\ DropsFollow' /\ TakenFollows' /\ ActiveDrops'
      /\ OneKey => OneKey'
  BY <1>1, <1>2, <1>7 DEF Counted, DropsFollow, TakenFollows, ActiveDrops, OneKey, Waits, Owner, busy
<1>10. QED
  BY <1>1, <1>2, <1>8, <1>9 DEF PressInv

\* While rules are not changed, every press is followed as above.
THEOREM PressInvariance == Spec => [](IInv /\ PressInv)
<1>1. IInv /\ PressInv /\ [Next]_vars => PressInv'
  <2> SUFFICES ASSUME IInv, PressInv, [Next]_vars PROVE PressInv'
    OBVIOUS
  <2>1. CASE \E k \in Keys : KeyEvent(k)
    BY <2>1, KeyEventPress
  <2>2. CASE InputTimer
    BY <2>2, TakePress, RefusePress, EndEventPress DEF InputTimer
  <2>3. CASE fireholding_timer_callback
    BY <2>3, TimerPress
  <2>4. CASE Refresh \/ Reload
    <3>1. changes' = changes + 1 /\ changes \in Nat
      BY <2>4 DEF Refresh, Reload, IInv, TypeOK
    <3>2. QED
      BY <3>1 DEF PressInv
  <2>5. CASE UNCHANGED vars
    BY <2>5 DEF vars, PressInv, Counted, DropsFollow, TakenFollows, ActiveDrops, OneKey,
                Answering, Waits, Owner, busy
  <2>6. QED
    BY <2>1, <2>2, <2>3, <2>4, <2>5 DEF Next
<1>2. QED
  BY <1>1, InitPress, Invariance, PTL DEF Spec

\* In every step that ends a press, with the rules unchanged and no two keys of
\* rules down together since the flush, the press was given one answer, and
\* nothing of it stays with the system: whatever taps, other keys and the timer did.
THEOREM AnsweredOnceAlways == Spec => AnsweredOnce
<1>1. IInv /\ PressInv /\ [Next]_vars =>
        [\A r \in DOMAIN Rules :
           alone /\ changes' = 0 /\ drop[r] /\ ~drop'[r] =>
             hold'.given = 1 /\ hold'.os[r] = {}]_vars
  <2> SUFFICES ASSUME IInv, PressInv, Next,
                      NEW r \in DOMAIN Rules, alone, changes' = 0, drop[r], ~drop'[r]
               PROVE  hold'.given = 1 /\ hold'.os[r] = {}
    BY DEF vars
  <2>1. changes \in Nat /\ hold \in HoldState /\ drop \in ofRules(BOOLEAN) /\ alone = TRUE
        /\ visit \in {idle} \cup Visit
    BY Zenon DEF IInv, TypeOK
  <2>2. ~Refresh /\ ~Reload
    <3>1. changes' # changes + 1
      BY <2>1
    <3>2. QED
      BY <3>1, Zenon DEF Refresh, Reload
  <2>3. PICK q \in DOMAIN Rules : Take(q)
    BY <2>2 DEF Next, InputTimer, KeyEvent, Refuse, Skip, EndEvent, fireholding_timer_callback
  <2>4. changes = 0 /\ visit \in Visit /\ drop' = [drop EXCEPT ![q] = visit.down]
    BY <2>1, <2>3 DEF Take, offered
  <2>5. q = r /\ visit.down = FALSE
    BY <2>1, <2>4 DEF ofRules, Visit
  <2>6. Pressing(hold, r)
    BY <2>1, <2>4 DEF PressInv, Answering, ofRules
  <2>7. hold' = dokeyup(dokeydown(hold, r), r)
    BY <2>3, <2>5 DEF Take
  <2>8. /\ dokeydown(hold, r) \in HoldState /\ dokeydown(hold, r).target = r
        /\ Answered(dokeydown(hold, r), r)
    BY <2>1, <2>6, DokeydownAnswers
  <2>9. QED
    BY <2>7, <2>8, DokeyupEnds
<1>2. QED
  BY <1>1, PressInvariance, PTL DEF Spec, AnsweredOnce

===============================================================================
