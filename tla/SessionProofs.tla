---------------------------- MODULE SessionProofs -----------------------------
(***************************************************************************)
(* For any number of sessions, rules, settings and user actions: who has   *)
(* the kext open is disturbed by nobody else, and the settings in force    *)
(* were made for the rules that are loaded.                                *)
(*                                                                         *)
(* The kext compares a number only, so the second needs an argument about  *)
(* the servers: whoever has the kext open and is about to send settings    *)
(* has sent his rules before, because the call that opens it is followed   *)
(* by the one that sends them (Ordered), and nothing else changes them     *)
(* while he is the owner (RulesOfOwner).                                   *)
(***************************************************************************)
EXTENDS Session, TLAPS

vectorComes(q) == \E j \in DOMAIN q : q[j] = "VECTOR"

\* The rules are sent after the connection is opened and before the settings.
orderedSteps(q) ==
  \A i \in DOMAIN q :
    /\ q[i] = "OPEN" => \E j \in DOMAIN q : j > i /\ q[j] = "VECTOR"
    /\ q[i] = "CONFIG" => \A j \in DOMAIN q : q[j] = "VECTOR" => j < i

OwnerConnected ==
  \A s \in Sessions : owner = s =>
    server[s].running /\ server[s].connect = "live" /\ drv = "ready"

Ordered ==
  \A s \in Sessions :
    orderedSteps(server[s].todo) /\ (server[s].running \/ server[s].todo = << >>)

RulesOfOwner ==
  \A s \in Sessions : owner = s /\ server[s].parsed /\ ~vectorComes(server[s].todo) =>
    remap.rules.by = s /\ remap.rules.version = server[s].version

IInv == TypeOK /\ SettingsFitRules /\ OwnerConnected /\ Ordered /\ RulesOfOwner

-------------------------------------------------------------------------------
(***************************************************************************)
(* The handlers.                                                           *)
(***************************************************************************)
LEMMA HandlersTyped ==
  /\ << >> \in Seq(Steps) /\ connectSteps \in Seq(Steps) /\ failSteps \in Seq(Steps)
  /\ closeUserClient \in Seq(Steps) /\ sendAll \in Seq(Steps) /\ << "CONFIG" >> \in Seq(Steps)
BY DEF connectSteps, failSteps, closeUserClient, sendAll, Steps

LEMMA HandlersSend ==
  vectorComes(connectSteps) /\ vectorComes(failSteps) /\ vectorComes(sendAll)
<1>1. 6 \in DOMAIN connectSteps /\ connectSteps[6] = "VECTOR"
  BY DEF connectSteps
<1>2. 3 \in DOMAIN failSteps /\ failSteps[3] = "VECTOR"
  BY DEF failSteps
<1>3. 1 \in DOMAIN sendAll /\ sendAll[1] = "VECTOR"
  BY DEF sendAll
<1>4. QED
  BY <1>1, <1>2, <1>3 DEF vectorComes

LEMMA HandlersOrdered ==
  /\ orderedSteps(<< >>) /\ orderedSteps(connectSteps) /\ orderedSteps(failSteps)
  /\ orderedSteps(closeUserClient) /\ orderedSteps(sendAll) /\ orderedSteps(<< "CONFIG" >>)
<1>1. orderedSteps(connectSteps)
  <2>1. /\ DOMAIN connectSteps = 1 .. 7 /\ connectSteps[6] = "VECTOR" /\ connectSteps[7] # "OPEN"
        /\ connectSteps[6] # "OPEN" /\ \A i \in 1 .. 6 : connectSteps[i] # "CONFIG"
        /\ connectSteps[7] # "VECTOR"
    BY DEF connectSteps
  <2>2. \A i \in 1 .. 7 : connectSteps[i] = "OPEN" => 6 > i
    BY <2>1
  <2>3. \A i, j \in 1 .. 7 : connectSteps[i] = "CONFIG" /\ connectSteps[j] = "VECTOR" => j < i
    BY <2>1
  <2>4. QED
    BY <2>1, <2>2, <2>3 DEF orderedSteps
<1>2. /\ \A i \in DOMAIN failSteps : failSteps[i] # "OPEN"
      /\ \A i, j \in DOMAIN failSteps : failSteps[i] = "CONFIG" /\ failSteps[j] = "VECTOR" => j < i
  BY DEF failSteps
<1>3. \A i \in DOMAIN closeUserClient : closeUserClient[i] \notin {"OPEN", "CONFIG"}
  BY DEF closeUserClient
<1>4. /\ \A i \in DOMAIN sendAll : sendAll[i] # "OPEN"
      /\ \A i, j \in DOMAIN sendAll : sendAll[i] = "CONFIG" /\ sendAll[j] = "VECTOR" => j < i
  BY DEF sendAll
<1>5. \A i \in DOMAIN << "CONFIG" >> : << "CONFIG" >>[i] \notin {"OPEN", "VECTOR"}
  OBVIOUS
<1>6. \A i \in DOMAIN << >> : << >>[i] \notin {"OPEN", "CONFIG"}
  OBVIOUS
<1>7. QED
  BY <1>1, <1>2, <1>3, <1>4, <1>5, <1>6 DEF orderedSteps

LEMMA TailSteps ==
  ASSUME NEW q \in Seq(Steps), q # << >>
  PROVE  /\ Tail(q) \in Seq(Steps) /\ Tail(q) # q
         /\ orderedSteps(q) => orderedSteps(Tail(q))
         /\ vectorComes(q) /\ Head(q) # "VECTOR" => vectorComes(Tail(q))
         /\ orderedSteps(q) /\ Head(q) = "OPEN" => vectorComes(Tail(q))
         /\ orderedSteps(q) /\ Head(q) = "CONFIG" => ~vectorComes(q)
<1>1. /\ Len(q) \in Nat /\ Len(q) >= 1 /\ DOMAIN q = 1 .. Len(q) /\ Head(q) = q[1]
      /\ Tail(q) \in Seq(Steps) /\ Len(Tail(q)) = Len(q) - 1 /\ DOMAIN Tail(q) = 1 .. Len(q) - 1
      /\ \A i \in 1 .. Len(q) - 1 : Tail(q)[i] = q[i + 1]
  OBVIOUS
<1>2. Tail(q) # q
  <2>1. \A n \in Nat : n - 1 # n
    OBVIOUS
  <2>2. Len(Tail(q)) # Len(q)
    BY <1>1, <2>1, Zenon
  <2>3. QED
    BY <2>2, Zenon
<1>3. ASSUME orderedSteps(q) PROVE orderedSteps(Tail(q))
  <2>1. ASSUME NEW i \in 1 .. Len(q) - 1, Tail(q)[i] = "OPEN"
        PROVE  \E j \in 1 .. Len(q) - 1 : j > i /\ Tail(q)[j] = "VECTOR"
    <3>1. i + 1 \in DOMAIN q /\ q[i + 1] = "OPEN"
      BY <1>1, <2>1
    <3>2. PICK j \in DOMAIN q : j > i + 1 /\ q[j] = "VECTOR"
      BY <1>3, <3>1 DEF orderedSteps
    <3>3. j - 1 \in 1 .. Len(q) - 1 /\ j - 1 > i /\ Tail(q)[j - 1] = q[j]
      BY <1>1, <3>2
    <3>4. QED
      BY <3>2, <3>3
  <2>2. ASSUME NEW i \in 1 .. Len(q) - 1, NEW j \in 1 .. Len(q) - 1,
               Tail(q)[i] = "CONFIG", Tail(q)[j] = "VECTOR"
        PROVE  j < i
    <3>1. i + 1 \in DOMAIN q /\ j + 1 \in DOMAIN q /\ q[i + 1] = "CONFIG" /\ q[j + 1] = "VECTOR"
      BY <1>1, <2>2
    <3>2. j + 1 < i + 1
      BY <1>3, <3>1 DEF orderedSteps
    <3>3. QED
      BY <3>2
  <2>3. QED
    BY <1>1, <2>1, <2>2 DEF orderedSteps
<1>4. ASSUME NEW j \in DOMAIN q, q[j] = "VECTOR", j > 1 PROVE vectorComes(Tail(q))
  <2>1. j - 1 \in DOMAIN Tail(q) /\ Tail(q)[j - 1] = "VECTOR"
    BY <1>1, <1>4
  <2>2. QED
    BY <2>1 DEF vectorComes
<1>5. ASSUME vectorComes(q), Head(q) # "VECTOR" PROVE vectorComes(Tail(q))
  <2>1. PICK j \in DOMAIN q : q[j] = "VECTOR"
    BY <1>5 DEF vectorComes
  <2>2. j > 1
    BY <1>1, <1>5, <2>1
  <2>3. QED
    BY <2>1, <2>2, <1>4
<1>6. ASSUME orderedSteps(q), Head(q) = "OPEN" PROVE vectorComes(Tail(q))
  BY <1>1, <1>4, <1>6 DEF orderedSteps
<1>7. ASSUME orderedSteps(q), Head(q) = "CONFIG", vectorComes(q) PROVE FALSE
  <2>1. PICK j \in DOMAIN q : q[j] = "VECTOR"
    BY <1>7 DEF vectorComes
  <2>2. 1 \in DOMAIN q /\ q[1] = "CONFIG"
    BY <1>1, <1>7
  <2>3. j < 1
    BY <1>7, <2>1, <2>2 DEF orderedSteps
  <2>4. QED
    BY <1>1, <2>1, <2>3
<1>8. QED
  BY <1>1, <1>2, <1>3, <1>5, <1>6, <1>7

-------------------------------------------------------------------------------
(***************************************************************************)
(* What the steps of a server do to its record, and to no other's.         *)
(***************************************************************************)
others(s) == \A t \in Sessions \ {s} : server'[t] = server[t]

sameSettings(s) ==
  /\ server'[s].running = server[s].running /\ server'[s].parsed = server[s].parsed
  /\ server'[s].version = server[s].version

LEMMA NextCall ==
  ASSUME TypeOK, NEW s \in Sessions, NEW step, NEW connect \in {"none", "live", "dead"},
         NEW more \in Seq(Steps), next(s, step, connect, more)
  PROVE  /\ server' \in [Sessions -> Server]
         /\ others(s) /\ sameSettings(s)
         /\ server'[s].todo = more /\ server'[s].connect = connect
<1>1. server \in [Sessions -> Server] /\ server[s] \in Server
  BY DEF TypeOK
<1>2. server' = [server EXCEPT ![s] = [server[s] EXCEPT !.todo = more, !.connect = connect]]
  BY <1>1 DEF next, Server
<1>3. [server[s] EXCEPT !.todo = more, !.connect = connect] \in Server
  BY <1>1 DEF Server
<1>4. QED
  BY <1>1, <1>2, <1>3 DEF others, sameSettings, Server

LEMMA TodoTyped ==
  ASSUME TypeOK, NEW s \in Sessions
  PROVE  server[s].todo \in Seq(Steps) /\ server[s].connect \in {"none", "live", "dead"}
BY DEF TypeOK, Server

\* What callback_close leaves, whoever calls it.
LEMMA CloseKeeps ==
  ASSUME TypeOK, Opened, NEW c, callback_close(c)
  PROVE  /\ owner' \in Clients /\ notify' \in Clients /\ initialized' \in BOOLEAN
         /\ Opened' /\ (initialized' => initialized /\ owner' = owner)
         /\ owner' \in {owner, Nobody} /\ (owner = c => owner' = Nobody)
         /\ owner # c => owner' = owner /\ notify' = notify /\ initialized' = initialized
BY DEF callback_close, TypeOK, Opened, Clients

LEMMA SizeNat == \A v \in Versions : Size[v] \in Nat /\ Size[v] > 0
BY SessionConstants

LEMMA LoadTyped ==
  ASSUME TypeOK, NEW s \in Sessions, NEW v \in Versions
  PROVE  LET m == load(s, v)
         IN  /\ m \in [rules : Rules \cup {NULL}, flags : Config \cup {NULL},
                       enabled : (Rules \X (Config \cup {NULL})) \cup {NULL},
                       armed : BOOLEAN]
             /\ m.rules.by = s /\ m.rules.version = v /\ m.enabled = NULL
<1>1. (IF v \in Oversized THEN 0 ELSE Size[v]) \in Nat
  BY SizeNat
<1>2. [by |-> s, version |-> v, size |-> IF v \in Oversized THEN 0 ELSE Size[v]] \in Rules
  BY <1>1 DEF Rules
<1>3. QED
  BY <1>2 DEF load, TypeOK

LEMMA ConfigTyped ==
  ASSUME TypeOK, NEW config \in Config
  PROVE  LET m == set_config(config)
         IN  /\ m \in [rules : Rules \cup {NULL}, flags : Config \cup {NULL},
                       enabled : (Rules \X (Config \cup {NULL})) \cup {NULL},
                       armed : BOOLEAN]
             /\ m.rules = remap.rules /\ m.flags = config /\ m.enabled = remap.enabled
BY DEF set_config, TypeOK

LEMMA OrderedStep ==
  ASSUME Ordered, NEW s \in Sessions, others(s), orderedSteps(server'[s].todo),
         server'[s].running \/ server'[s].todo = << >>
  PROVE  Ordered'
BY DEF Ordered, others

LEMMA ConnectedStep ==
  ASSUME OwnerConnected, NEW s \in Sessions, others(s), drv' = drv,
         owner' \in {owner, Nobody} \/ owner' = s,
         owner' = s => server'[s].running /\ server'[s].connect = "live" /\ drv = "ready"
  PROVE  OwnerConnected'
BY SessionConstants DEF OwnerConnected, others

\* A step of s that sends no rules leaves everybody's in order.
LEMMA RulesStep ==
  ASSUME RulesOfOwner, NEW s \in Sessions, others(s), remap'.rules = remap.rules,
         owner' \in {owner, Nobody} \/ owner' = s,
         owner' = s /\ server'[s].parsed /\ ~vectorComes(server'[s].todo) =>
           /\ owner = s /\ server[s].parsed /\ ~vectorComes(server[s].todo)
           /\ server'[s].version = server[s].version
  PROVE  RulesOfOwner'
BY SessionConstants DEF RulesOfOwner, others

\* A step that leaves the kext's rules alone and makes nobody owner but who was.
LEMMA SettingsStep ==
  ASSUME SettingsFitRules, Opened', remap' = remap,
         initialized' => initialized /\ owner' = owner
  PROVE  SettingsFitRules'
BY DEF SettingsFitRules

-------------------------------------------------------------------------------
(***************************************************************************)
(* One lemma per action of a server, then one for the others.              *)
(***************************************************************************)
LEMMA CloseStep ==
  ASSUME IInv, NEW s \in Sessions, Close(s)
  PROVE  IInv'
<1>0. TypeOK /\ SettingsFitRules /\ Opened /\ OwnerConnected /\ Ordered /\ RulesOfOwner
  BY DEF IInv, SettingsFitRules
<1> DEFINE q == server[s].todo
<1>1. /\ q \in Seq(Steps) /\ q # << >> /\ Head(q) = "CLOSE"
      /\ server[s].connect \in {"none", "live", "dead"}
      /\ next(s, "CLOSE", server[s].connect, rest(s))
  BY <1>0, TodoTyped DEF Close, next
<1>2. /\ rest(s) \in Seq(Steps) /\ orderedSteps(rest(s))
      /\ vectorComes(q) => vectorComes(rest(s))
  BY <1>0, <1>1, TailSteps DEF rest, Ordered
<1>3. /\ server' \in [Sessions -> Server] /\ others(s) /\ sameSettings(s)
      /\ server'[s].todo = rest(s) /\ server'[s].connect = server[s].connect
  BY <1>0, <1>1, <1>2, NextCall
<1>4. /\ owner' \in Clients /\ notify' \in Clients /\ initialized' \in BOOLEAN /\ Opened'
      /\ initialized' => initialized /\ owner' = owner
      /\ owner' \in {owner, Nobody}
  <2>1. CASE server[s].connect = "live"
    BY <1>0, <2>1, CloseKeeps DEF Close
  <2>2. CASE server[s].connect # "live"
    BY <1>0, <2>2 DEF Close, TypeOK, Opened
  <2>3. QED
    BY <2>1, <2>2
<1>5. drv' = drv /\ dying' = dying /\ remap' = remap /\ user' = user
  BY DEF Close
<1>6. TypeOK'
  BY <1>0, <1>3, <1>4, <1>5 DEF TypeOK
<1>7. SettingsFitRules'
  BY <1>0, <1>4, <1>5, SettingsStep
<1>8. OwnerConnected'
  <2>1. owner' = s => server'[s].running /\ server'[s].connect = "live" /\ drv = "ready"
    BY <1>0, <1>3, <1>4, SessionConstants DEF OwnerConnected, sameSettings
  <2>2. QED
    BY <1>0, <1>3, <1>4, <1>5, <2>1, ConnectedStep
<1>9. Ordered'
  BY <1>0, <1>1, <1>2, <1>3, OrderedStep DEF Ordered, sameSettings
<1>10. RulesOfOwner'
  <2>1. owner' = s => owner = s
    BY <1>4, SessionConstants
  <2>2. QED
    BY <1>0, <1>2, <1>3, <1>4, <1>5, <2>1, RulesStep DEF sameSettings
<1>11. QED
  BY <1>6, <1>7, <1>8, <1>9, <1>10 DEF IInv

LEMMA ServiceCloseStep ==
  ASSUME IInv, NEW s \in Sessions, ServiceClose(s)
  PROVE  IInv'
<1>0. TypeOK /\ SettingsFitRules /\ Opened /\ OwnerConnected /\ Ordered /\ RulesOfOwner
  BY DEF IInv, SettingsFitRules
<1> DEFINE q == server[s].todo
<1>1. /\ q \in Seq(Steps) /\ q # << >> /\ Head(q) = "SERVICECLOSE"
      /\ next(s, "SERVICECLOSE", "none", rest(s))
  BY <1>0, TodoTyped DEF ServiceClose, next
<1>2. rest(s) \in Seq(Steps) /\ orderedSteps(rest(s))
  BY <1>0, <1>1, TailSteps DEF rest, Ordered
<1>3. /\ server' \in [Sessions -> Server] /\ others(s) /\ sameSettings(s)
      /\ server'[s].todo = rest(s) /\ server'[s].connect = "none"
  BY <1>0, <1>1, <1>2, NextCall
<1>4. /\ owner' \in Clients /\ notify' \in Clients /\ initialized' \in BOOLEAN /\ Opened'
      /\ initialized' => initialized /\ owner' = owner
      /\ owner' \in {owner, Nobody} /\ owner' # s /\ dying' \in BOOLEAN
  <2>1. CASE server[s].connect = "live"
    BY <1>0, <2>1, CloseKeeps, SessionConstants DEF ServiceClose
  <2>2. CASE server[s].connect # "live"
    BY <1>0, <2>2 DEF ServiceClose, TypeOK, Opened, OwnerConnected
  <2>3. QED
    BY <2>1, <2>2
<1>5. drv' = drv /\ remap' = remap /\ user' = user
  BY DEF ServiceClose
<1>6. TypeOK'
  BY <1>0, <1>3, <1>4, <1>5 DEF TypeOK
<1>7. SettingsFitRules'
  BY <1>0, <1>4, <1>5, SettingsStep
<1>8. OwnerConnected'
  BY <1>0, <1>3, <1>4, <1>5, ConnectedStep
<1>9. Ordered'
  BY <1>0, <1>1, <1>2, <1>3, OrderedStep DEF Ordered, sameSettings
<1>10. RulesOfOwner'
  BY <1>0, <1>3, <1>4, <1>5, RulesStep
<1>11. QED
  BY <1>6, <1>7, <1>8, <1>9, <1>10 DEF IInv

LEMMA ServiceOpenStep ==
  ASSUME IInv, NEW s \in Sessions, ServiceOpen(s)
  PROVE  IInv'
<1>0. TypeOK /\ SettingsFitRules /\ Opened /\ OwnerConnected /\ Ordered /\ RulesOfOwner
  BY DEF IInv, SettingsFitRules
<1> DEFINE q == server[s].todo
           more == IF drv = "ready" THEN rest(s) ELSE sendAll
           connect == IF drv = "ready" THEN "live" ELSE "none"
<1>1. /\ q \in Seq(Steps) /\ q # << >> /\ Head(q) = "SERVICEOPEN"
      /\ next(s, "SERVICEOPEN", connect, more)
  BY <1>0, TodoTyped DEF ServiceOpen, next
<1>2. /\ more \in Seq(Steps) /\ orderedSteps(more)
      /\ vectorComes(q) => vectorComes(more)
  BY <1>0, <1>1, TailSteps, HandlersTyped, HandlersSend, HandlersOrdered DEF rest, Ordered
<1>3. /\ server' \in [Sessions -> Server] /\ others(s) /\ sameSettings(s)
      /\ server'[s].todo = more /\ server'[s].connect = connect
  BY <1>0, <1>1, <1>2, NextCall
<1>4. UNCHANGED << drv, owner, notify, dying, initialized, remap, user >>
  BY DEF ServiceOpen, kext
<1>5. owner = s => drv = "ready" /\ server[s].running
  BY <1>0 DEF OwnerConnected
<1>6. TypeOK'
  BY <1>0, <1>3, <1>4 DEF TypeOK
<1>7. SettingsFitRules'
  BY <1>0, <1>4, SettingsStep DEF Opened
<1>8. OwnerConnected'
  BY <1>0, <1>3, <1>4, <1>5, ConnectedStep DEF sameSettings
<1>9. Ordered'
  BY <1>0, <1>1, <1>2, <1>3, OrderedStep DEF Ordered, sameSettings
<1>10. RulesOfOwner'
  BY <1>0, <1>2, <1>3, <1>4, RulesStep DEF sameSettings
<1>11. QED
  BY <1>6, <1>7, <1>8, <1>9, <1>10 DEF IInv

LEMMA OpenStep ==
  ASSUME IInv, NEW s \in Sessions, Open(s)
  PROVE  IInv'
<1>0. TypeOK /\ SettingsFitRules /\ Opened /\ OwnerConnected /\ Ordered /\ RulesOfOwner
  BY DEF IInv, SettingsFitRules
<1> DEFINE q == server[s].todo
           opens == server[s].connect = "live" /\ drv = "ready" /\ owner \in {Nobody, s}
           more == IF opens THEN rest(s) ELSE failSteps
           record == [server[s] EXCEPT !.todo = more, !.refused = owner \notin {Nobody, s}]
<1>1. q \in Seq(Steps) /\ q # << >> /\ Head(q) = "OPEN"
  BY <1>0, TodoTyped DEF Open
<1>2. more \in Seq(Steps) /\ orderedSteps(more) /\ vectorComes(more)
  BY <1>0, <1>1, TailSteps, HandlersTyped, HandlersSend, HandlersOrdered DEF rest, Ordered
<1>3. /\ server' \in [Sessions -> Server] /\ others(s) /\ sameSettings(s)
      /\ server'[s].todo = more /\ server'[s].connect = server[s].connect
  <2>1. server \in [Sessions -> Server] /\ server[s] \in Server
    BY <1>0 DEF TypeOK
  <2>2. server' = [server EXCEPT ![s] = record]
    BY <2>1 DEF Open, Server
  <2>3. record \in Server
    BY <1>2, <2>1 DEF Server
  <2>4. QED
    BY <2>1, <2>2, <2>3 DEF others, sameSettings, Server
<1>4. /\ owner' = IF opens THEN s ELSE owner
      /\ UNCHANGED << drv, notify, dying, initialized, remap, user >>
  BY DEF Open
<1>5. owner' \in Clients /\ Opened' /\ (initialized => owner' = owner)
  BY <1>0, <1>4, SessionConstants DEF TypeOK, Opened, Clients
<1>6. TypeOK'
  BY <1>0, <1>3, <1>4, <1>5 DEF TypeOK
<1>7. SettingsFitRules'
  BY <1>0, <1>4, <1>5, SettingsStep
<1>8. OwnerConnected'
  <2>1. owner' = s => server'[s].running /\ server'[s].connect = "live" /\ drv = "ready"
    <3>1. CASE opens
      <4>1. server[s].running
        BY <1>0, <1>1 DEF Ordered
      <4>2. QED
        BY <1>3, <3>1, <4>1 DEF sameSettings
    <3>2. CASE ~opens
      BY <1>0, <1>3, <1>4, <3>2 DEF OwnerConnected, sameSettings
    <3>3. QED
      BY <3>1, <3>2
  <2>2. QED
    BY <1>0, <1>3, <1>4, <2>1, ConnectedStep
<1>9. Ordered'
  BY <1>0, <1>1, <1>2, <1>3, OrderedStep DEF Ordered, sameSettings
<1>10. RulesOfOwner'
  BY <1>0, <1>2, <1>3, <1>4, RulesStep
<1>11. QED
  BY <1>6, <1>7, <1>8, <1>9, <1>10 DEF IInv

LEMMA NotifyStep ==
  ASSUME IInv, NEW s \in Sessions, Notify(s)
  PROVE  IInv'
<1>0. TypeOK /\ SettingsFitRules /\ Opened /\ OwnerConnected /\ Ordered /\ RulesOfOwner
  BY DEF IInv, SettingsFitRules
<1> DEFINE q == server[s].todo
           more == IF connected(s) THEN rest(s) ELSE failSteps
<1>1. /\ q \in Seq(Steps) /\ q # << >> /\ Head(q) = "NOTIFY"
      /\ server[s].connect \in {"none", "live", "dead"}
      /\ next(s, "NOTIFY", server[s].connect, more)
  BY <1>0, TodoTyped DEF Notify, next
<1>2. /\ more \in Seq(Steps) /\ orderedSteps(more)
      /\ vectorComes(q) => vectorComes(more)
  BY <1>0, <1>1, TailSteps, HandlersTyped, HandlersSend, HandlersOrdered DEF rest, Ordered
<1>3. /\ server' \in [Sessions -> Server] /\ others(s) /\ sameSettings(s)
      /\ server'[s].todo = more /\ server'[s].connect = server[s].connect
  BY <1>0, <1>1, <1>2, NextCall
<1>4. /\ notify' = IF connected(s) THEN s ELSE notify
      /\ UNCHANGED << drv, owner, dying, initialized, remap, user >>
  BY DEF Notify
<1>5. notify' \in Clients /\ Opened'
  BY <1>0, <1>4 DEF TypeOK, Opened, Clients, connected
<1>6. TypeOK'
  BY <1>0, <1>3, <1>4, <1>5 DEF TypeOK
<1>7. SettingsFitRules'
  BY <1>0, <1>4, <1>5, SettingsStep
<1>8. OwnerConnected'
  BY <1>0, <1>3, <1>4, ConnectedStep DEF sameSettings, OwnerConnected
<1>9. Ordered'
  BY <1>0, <1>1, <1>2, <1>3, OrderedStep DEF Ordered, sameSettings
<1>10. RulesOfOwner'
  BY <1>0, <1>2, <1>3, <1>4, RulesStep DEF sameSettings
<1>11. QED
  BY <1>6, <1>7, <1>8, <1>9, <1>10 DEF IInv

LEMMA SendVectorStep ==
  ASSUME IInv, NEW s \in Sessions, SendVector(s)
  PROVE  IInv'
<1>0. TypeOK /\ SettingsFitRules /\ Opened /\ OwnerConnected /\ Ordered /\ RulesOfOwner
  BY DEF IInv, SettingsFitRules
<1> DEFINE q == server[s].todo
           sends == connected(s) /\ server[s].parsed
<1>1. /\ q \in Seq(Steps) /\ q # << >> /\ Head(q) = "VECTOR"
      /\ server[s].connect \in {"none", "live", "dead"}
      /\ next(s, "VECTOR", server[s].connect, rest(s))
  BY <1>0, TodoTyped DEF SendVector, next
<1>2. rest(s) \in Seq(Steps) /\ orderedSteps(rest(s))
  BY <1>0, <1>1, TailSteps DEF rest, Ordered
<1>3. /\ server' \in [Sessions -> Server] /\ others(s) /\ sameSettings(s)
      /\ server'[s].todo = rest(s) /\ server'[s].connect = server[s].connect
  BY <1>0, <1>1, <1>2, NextCall
<1>4. /\ initialized' = IF sends THEN FALSE ELSE initialized
      /\ remap' = IF sends THEN load(s, server[s].version) ELSE remap
      /\ UNCHANGED << drv, owner, notify, dying, user >>
  BY DEF SendVector
<1>5. server[s].version \in Versions /\ (sends <=> owner = s /\ server[s].parsed)
  BY <1>0 DEF TypeOK, Server, connected, OwnerConnected
<1>6. /\ remap' \in [rules : Rules \cup {NULL}, flags : Config \cup {NULL},
                     enabled : (Rules \X (Config \cup {NULL})) \cup {NULL}, armed : BOOLEAN]
      /\ sends => remap'.rules.by = s /\ remap'.rules.version = server[s].version
                   /\ remap'.enabled = NULL
  BY <1>0, <1>4, <1>5, LoadTyped DEF TypeOK
<1>7. TypeOK'
  BY <1>0, <1>3, <1>4, <1>6 DEF TypeOK
<1>8. SettingsFitRules'
  <2>1. Opened'
    BY <1>0, <1>4 DEF Opened
  <2>2. CASE sends
    BY <1>4, <1>6, <2>1, <2>2 DEF SettingsFitRules
  <2>3. CASE ~sends
    BY <1>0, <1>4, <2>1, <2>3, SettingsStep
  <2>4. QED
    BY <2>2, <2>3
<1>9. OwnerConnected'
  BY <1>0, <1>3, <1>4, ConnectedStep DEF sameSettings, OwnerConnected
<1>10. Ordered'
  BY <1>0, <1>1, <1>2, <1>3, OrderedStep DEF Ordered, sameSettings
<1>11. RulesOfOwner'
  <2>1. SUFFICES ASSUME NEW t \in Sessions, owner = t, server'[t].parsed,
                        ~vectorComes(server'[t].todo)
                 PROVE  remap'.rules.by = t /\ remap'.rules.version = server'[t].version
    BY <1>4 DEF RulesOfOwner
  <2>2. CASE t = s
    BY <1>3, <1>5, <1>6, <2>1, <2>2 DEF sameSettings
  <2>3. CASE t # s
    BY <1>0, <1>3, <1>4, <1>5, <2>1, <2>3 DEF RulesOfOwner, others
  <2>4. QED
    BY <2>2, <2>3
<1>12. QED
  BY <1>7, <1>8, <1>9, <1>10, <1>11 DEF IInv

LEMMA SendConfigStep ==
  ASSUME IInv, NEW s \in Sessions, SendConfig(s)
  PROVE  IInv'
<1>0. TypeOK /\ SettingsFitRules /\ Opened /\ OwnerConnected /\ Ordered /\ RulesOfOwner
  BY DEF IInv, SettingsFitRules
<1> DEFINE q == server[s].todo
           sends == connected(s) /\ accepts(count(s))
           config == [by |-> s, prefs |-> server[s].prefs,
                      version |-> IF server[s].parsed THEN server[s].version ELSE NULL]
<1>1. /\ q \in Seq(Steps) /\ q # << >> /\ Head(q) = "CONFIG"
      /\ server[s].connect \in {"none", "live", "dead"}
      /\ next(s, "CONFIG", server[s].connect, rest(s))
  BY <1>0, TodoTyped DEF SendConfig, next
<1>2. /\ rest(s) \in Seq(Steps) /\ orderedSteps(rest(s))
      /\ vectorComes(q) => vectorComes(rest(s))
  BY <1>0, <1>1, TailSteps DEF rest, Ordered
<1>3. /\ server' \in [Sessions -> Server] /\ others(s) /\ sameSettings(s)
      /\ server'[s].todo = rest(s) /\ server'[s].connect = server[s].connect
  BY <1>0, <1>1, <1>2, NextCall
<1>4. /\ initialized' = IF sends THEN TRUE ELSE initialized
      /\ remap' = IF sends THEN set_config(config) ELSE remap
      /\ UNCHANGED << drv, owner, notify, dying, user >>
  BY DEF SendConfig
<1>5. config \in Config
  BY <1>0 DEF TypeOK, Server, Config
<1>6. /\ remap' \in [rules : Rules \cup {NULL}, flags : Config \cup {NULL},
                     enabled : (Rules \X (Config \cup {NULL})) \cup {NULL}, armed : BOOLEAN]
      /\ remap'.rules = remap.rules /\ remap'.enabled = remap.enabled
      /\ sends => remap'.flags = config
  BY <1>0, <1>4, <1>5, ConfigTyped DEF TypeOK
<1>7. TypeOK'
  BY <1>0, <1>3, <1>4, <1>6 DEF TypeOK
<1>8. SettingsFitRules'
  <2>1. CASE sends
    <3>1. owner = s /\ owner # Nobody /\ remap.rules.size = count(s)
      BY <2>1, SessionConstants DEF connected, accepts
    <3>2. Opened'
      BY <1>0, <1>4, <3>1 DEF Opened
    <3>3. ASSUME remap.rules.size > 0
          PROVE  /\ remap.rules.by = s /\ remap.rules.version = server[s].version
                 /\ server[s].parsed
      <4>1. server[s].parsed
        BY <3>1, <3>3 DEF count
      <4>2. ~vectorComes(q)
        BY <1>0, <1>1, TailSteps DEF Ordered
      <4>3. QED
        BY <1>0, <3>1, <4>1, <4>2 DEF RulesOfOwner
    <3>4. QED
      BY <1>0, <1>4, <1>6, <2>1, <3>1, <3>2, <3>3 DEF SettingsFitRules
  <2>2. CASE ~sends
    BY <1>0, <1>4, <2>2, SettingsStep DEF Opened
  <2>3. QED
    BY <2>1, <2>2
<1>9. OwnerConnected'
  BY <1>0, <1>3, <1>4, ConnectedStep DEF sameSettings, OwnerConnected
<1>10. Ordered'
  BY <1>0, <1>1, <1>2, <1>3, OrderedStep DEF Ordered, sameSettings
<1>11. RulesOfOwner'
  BY <1>0, <1>2, <1>3, <1>4, <1>6, RulesStep DEF sameSettings
<1>12. QED
  BY <1>7, <1>8, <1>9, <1>10, <1>11 DEF IInv

LEMMA CallStep ==
  ASSUME IInv, NEW s \in Sessions, Call(s)
  PROVE  IInv'
BY CloseStep, ServiceCloseStep, ServiceOpenStep, OpenStep, NotifyStep, SendVectorStep,
   SendConfigStep DEF Call

\* A handler that begins: the kext is not called yet.
LEMMA HandleStep ==
  ASSUME IInv, NEW s \in Sessions, NEW changed \in Server, handle(s, changed),
         UNCHANGED kext,
         user' \in [console : Sessions, loggedIn : SUBSET Sessions, events : Nat],
         changed.running, orderedSteps(changed.todo), changed.connect = server[s].connect,
         changed.parsed /\ ~vectorComes(changed.todo) =>
           server[s].parsed /\ changed.version = server[s].version
  PROVE  IInv'
<1>0. TypeOK /\ SettingsFitRules /\ Opened /\ OwnerConnected /\ Ordered /\ RulesOfOwner
  BY DEF IInv, SettingsFitRules
<1>1. /\ server' \in [Sessions -> Server] /\ others(s) /\ server'[s] = changed
      /\ server[s].todo = << >>
  BY <1>0 DEF TypeOK, handle, idle, others
<1>2. UNCHANGED << drv, owner, notify, dying, initialized, remap >>
  BY DEF kext
<1>3. ~vectorComes(server[s].todo)
  BY <1>1 DEF vectorComes
<1>4. TypeOK'
  BY <1>0, <1>1, <1>2 DEF TypeOK
<1>5. SettingsFitRules'
  BY <1>0, <1>2, SettingsStep DEF Opened
<1>6. OwnerConnected'
  BY <1>0, <1>1, <1>2, ConnectedStep DEF OwnerConnected
<1>7. Ordered'
  BY <1>0, <1>1, OrderedStep
<1>8. RulesOfOwner'
  BY <1>0, <1>1, <1>2, <1>3, RulesStep
<1>9. QED
  BY <1>4, <1>5, <1>6, <1>7, <1>8 DEF IInv

LEMMA ServerTyped ==
  ASSUME TypeOK, NEW s \in Sessions
  PROVE  /\ server[s] \in Server
         /\ user \in [console : Sessions, loggedIn : SUBSET Sessions, events : Nat]
         /\ server[s].inbox # << >> =>
              Tail(server[s].inbox) \in Seq({"become", "resign"})
BY DEF TypeOK, Server

LEMMA HandlersStep ==
  ASSUME IInv, NEW s \in Sessions,
         HandleSession(s) \/ HandleMatched(s) \/ ReloadXML(s) \/ ChangePrefs(s)
  PROVE  IInv'
<1>0. TypeOK
  BY DEF IInv
<1>1. CASE HandleSession(s)
  <2> DEFINE r == [server[s] EXCEPT !.inbox = Tail(@)]
  <2>1. r \in Server /\ r.connect = server[s].connect /\ r.running = server[s].running
    BY <1>0, <1>1, ServerTyped DEF HandleSession, Server
  <2>2. server[s].running /\ UNCHANGED << kext, user >>
    BY <1>1 DEF HandleSession, handle, idle
  <2>3. CASE handle(s, registerIONotification(r))
    <3> DEFINE changed == registerIONotification(r)
    <3>1. /\ changed \in Server /\ changed.running /\ changed.todo = connectSteps
          /\ changed.connect = server[s].connect
      BY <2>1, <2>2, HandlersTyped DEF registerIONotification, Server
    <3>2. handle(s, changed)
      BY <2>3
    <3>3. QED
      BY <1>0, <2>2, <3>1, <3>2, ServerTyped, HandleStep, HandlersOrdered, HandlersSend
  <2>4. CASE handle(s, resign(r))
    <3> DEFINE changed == resign(r)
    <3>1. /\ changed \in Server /\ changed.running /\ changed.todo = closeUserClient
          /\ changed.connect = server[s].connect /\ changed.parsed = server[s].parsed
          /\ changed.version = server[s].version
      BY <1>0, <2>1, <2>2, ServerTyped, HandlersTyped DEF resign, Server
    <3>2. handle(s, changed)
      BY <2>4
    <3>3. QED
      BY <1>0, <2>2, <3>1, <3>2, ServerTyped, HandleStep, HandlersOrdered
  <2>5. QED
    BY <1>1, <2>3, <2>4 DEF HandleSession
<1>2. CASE HandleMatched(s)
  <2> DEFINE changed == [server[s] EXCEPT !.matched = FALSE, !.todo = connectSteps]
  <2>1. handle(s, changed) /\ server[s].running /\ UNCHANGED << kext, user >>
    BY <1>2 DEF HandleMatched, handle, idle
  <2>2. /\ changed \in Server /\ changed.running /\ changed.todo = connectSteps
        /\ changed.connect = server[s].connect
    BY <1>0, <2>1, ServerTyped, HandlersTyped DEF Server
  <2>3. QED
    BY <1>0, <2>1, <2>2, ServerTyped, HandleStep, HandlersOrdered, HandlersSend
<1>3. ASSUME edit(s)
      PROVE  user' \in [console : Sessions, loggedIn : SUBSET Sessions, events : Nat]
  BY <1>0, <1>3, ServerTyped DEF edit, event
<1>4. CASE ReloadXML(s)
  <2>1. edit(s) /\ UNCHANGED kext
    BY <1>4 DEF ReloadXML
  <2>2. ASSUME NEW v \in Versions,
               handle(s, [server[s] EXCEPT !.version = v, !.parsed = TRUE, !.todo = sendAll])
        PROVE  IInv'
    <3> DEFINE changed == [server[s] EXCEPT !.version = v, !.parsed = TRUE, !.todo = sendAll]
    <3>1. /\ changed \in Server /\ changed.running /\ changed.todo = sendAll
          /\ changed.connect = server[s].connect
      BY <1>0, <2>2, ServerTyped, HandlersTyped DEF Server, handle, idle
    <3>2. QED
      BY <1>3, <2>1, <2>2, <3>1, HandleStep, HandlersOrdered, HandlersSend
  <2>3. ASSUME handle(s, [server[s] EXCEPT !.parsed = FALSE]) PROVE IInv'
    <3> DEFINE changed == [server[s] EXCEPT !.parsed = FALSE]
    <3>1. /\ changed \in Server /\ changed.running /\ changed.todo = << >>
          /\ changed.connect = server[s].connect /\ ~changed.parsed
      BY <1>0, <2>3, ServerTyped DEF Server, handle, idle
    <3>2. QED
      BY <1>3, <2>1, <2>3, <3>1, HandleStep, HandlersOrdered
  <2>4. QED
    BY <1>4, <2>2, <2>3 DEF ReloadXML
<1>5. CASE ChangePrefs(s)
  <2>1. edit(s) /\ UNCHANGED kext
    BY <1>5 DEF ChangePrefs
  <2>2. ASSUME NEW p \in Prefs,
               handle(s, [server[s] EXCEPT !.prefs = p, !.todo = << "CONFIG" >>])
        PROVE  IInv'
    <3> DEFINE changed == [server[s] EXCEPT !.prefs = p, !.todo = << "CONFIG" >>]
    <3>1. /\ changed \in Server /\ changed.running /\ changed.todo = << "CONFIG" >>
          /\ changed.connect = server[s].connect /\ changed.parsed = server[s].parsed
          /\ changed.version = server[s].version
      BY <1>0, <2>2, ServerTyped, HandlersTyped DEF Server, handle, idle
    <3>2. QED
      BY <1>3, <2>1, <2>2, <3>1, HandleStep, HandlersOrdered
  <2>3. QED
    BY <1>5, <2>2 DEF ChangePrefs
<1>6. QED
  BY <1>1, <1>2, <1>4, <1>5

LEMMA StoppedTyped ==
  ASSUME TypeOK, NEW s \in Sessions
  PROVE  LET r == stopped(server[s])
         IN  r \in Server /\ r.todo = << >> /\ r.connect = "none" /\ ~r.running
BY ServerTyped, HandlersTyped DEF stopped, Server

LEMMA LaunchStep ==
  ASSUME IInv, NEW s \in Sessions, Launch(s)
  PROVE  IInv'
<1>0. TypeOK /\ SettingsFitRules /\ Opened /\ OwnerConnected /\ Ordered /\ RulesOfOwner
  BY DEF IInv, SettingsFitRules
<1> DEFINE r == [stopped(server[s]) EXCEPT !.running = TRUE]
           changed == registerIONotification(r)
<1>1. r \in Server /\ r.running
  BY <1>0, StoppedTyped DEF Server
<1>2. changed \in Server /\ changed.running /\ changed.todo = connectSteps
  BY <1>1, HandlersTyped DEF registerIONotification, Server
<1>3. server' \in [Sessions -> Server] /\ others(s) /\ server'[s] = changed
  BY <1>0, <1>2 DEF TypeOK, Launch, others
<1>4. UNCHANGED << drv, owner, notify, dying, initialized, remap, user >>
  BY DEF Launch, kext
<1>5. owner # s
  BY <1>0 DEF OwnerConnected, Launch
<1>6. TypeOK'
  BY <1>0, <1>3, <1>4 DEF TypeOK
<1>7. SettingsFitRules'
  BY <1>0, <1>4, SettingsStep DEF Opened
<1>8. OwnerConnected'
  BY <1>0, <1>3, <1>4, <1>5, ConnectedStep
<1>9. Ordered'
  BY <1>0, <1>2, <1>3, OrderedStep, HandlersOrdered
<1>10. RulesOfOwner'
  BY <1>0, <1>3, <1>4, <1>5, RulesStep
<1>11. QED
  BY <1>6, <1>7, <1>8, <1>9, <1>10 DEF IInv

LEMMA CrashStep ==
  ASSUME IInv, NEW s \in Sessions, Crash(s)
  PROVE  IInv'
<1>0. TypeOK /\ SettingsFitRules /\ Opened /\ OwnerConnected /\ Ordered /\ RulesOfOwner
  BY DEF IInv, SettingsFitRules
<1>1. /\ server' \in [Sessions -> Server] /\ others(s) /\ server'[s] = stopped(server[s])
      /\ server'[s].todo = << >>
  BY <1>0, StoppedTyped DEF TypeOK, Crash, others
<1>2. /\ drv' = drv /\ remap' = remap
      /\ user' \in [console : Sessions, loggedIn : SUBSET Sessions, events : Nat]
  BY <1>0, ServerTyped DEF Crash, event
<1>3. /\ owner' \in Clients /\ notify' \in Clients /\ initialized' \in BOOLEAN /\ Opened'
      /\ initialized' => initialized /\ owner' = owner
      /\ owner' \in {owner, Nobody} /\ owner' # s /\ dying' \in BOOLEAN
  <2>1. CASE server[s].connect = "live"
    BY <1>0, <2>1, CloseKeeps, SessionConstants DEF Crash
  <2>2. CASE server[s].connect # "live"
    BY <1>0, <2>2 DEF Crash, TypeOK, Opened, OwnerConnected
  <2>3. QED
    BY <2>1, <2>2
<1>4. TypeOK'
  BY <1>0, <1>1, <1>2, <1>3 DEF TypeOK
<1>5. SettingsFitRules'
  BY <1>0, <1>2, <1>3, SettingsStep
<1>6. OwnerConnected'
  BY <1>0, <1>1, <1>2, <1>3, ConnectedStep
<1>7. Ordered'
  BY <1>0, <1>1, OrderedStep, HandlersOrdered
<1>8. RulesOfOwner'
  BY <1>0, <1>1, <1>2, <1>3, RulesStep
<1>9. QED
  BY <1>4, <1>5, <1>6, <1>7, <1>8 DEF IInv

\* What a server keeps while only its connection or its messages change.
sameHandlers ==
  /\ server' \in [Sessions -> Server]
  /\ \A s \in Sessions : sameSettings(s) /\ server'[s].todo = server[s].todo

LEMMA SameHandlersStep ==
  ASSUME Ordered, RulesOfOwner, sameHandlers,
         owner' \in {owner, Nobody}, remap'.rules = remap.rules \/ owner' = Nobody
  PROVE  Ordered' /\ RulesOfOwner'
<1>1. Ordered'
  BY DEF Ordered, sameHandlers, sameSettings
<1>2. RulesOfOwner'
  BY SessionConstants DEF RulesOfOwner, sameHandlers, sameSettings
<1>3. QED
  BY <1>1, <1>2

LEMMA SwitchStep ==
  ASSUME IInv, NEW t \in Sessions, Switch(t)
  PROVE  IInv'
<1>0. TypeOK /\ SettingsFitRules /\ Opened /\ OwnerConnected /\ Ordered /\ RulesOfOwner
  BY DEF IInv, SettingsFitRules
<1>1. /\ sameHandlers
      /\ \A s \in Sessions : server'[s].connect = server[s].connect
  <2>1. ASSUME NEW s \in Sessions
        PROVE  /\ server'[s] \in Server /\ sameSettings(s)
               /\ server'[s].todo = server[s].todo /\ server'[s].connect = server[s].connect
    <3> DEFINE told == IF s = t THEN Append(server[s].inbox, "become")
                       ELSE IF s = user.console THEN Append(server[s].inbox, "resign")
                       ELSE server[s].inbox
    <3>1. server[s] \in Server /\ told \in Seq({"become", "resign"})
      BY <1>0, ServerTyped DEF Server
    <3>2. server'[s] = IF ~server[s].running THEN server[s]
                       ELSE [server[s] EXCEPT !.inbox = told]
      BY <3>1, Zenon DEF Switch, Server
    <3>3. QED
      BY <3>1, <3>2 DEF Server, sameSettings
  <2>2. server' = [s \in Sessions |-> server'[s]]
    BY DEF Switch
  <2>3. QED
    BY <2>1, <2>2 DEF sameHandlers
<1>2. UNCHANGED << drv, owner, notify, dying, initialized, remap >>
  BY DEF Switch, kext
<1>3. TypeOK'
  <2> DEFINE there == [user EXCEPT !.console = t, !.loggedIn = @ \cup {t}]
  <2>1. there \in [console : Sessions, loggedIn : SUBSET Sessions, events : Nat]
    BY <1>0 DEF TypeOK
  <2>2. user' = [there EXCEPT !.events = @ + 1]
    BY DEF Switch, event
  <2> HIDE DEF there
  <2>3. user' \in [console : Sessions, loggedIn : SUBSET Sessions, events : Nat]
    BY <2>1, <2>2
  <2>4. QED
    BY <1>0, <1>1, <1>2, <2>3 DEF TypeOK, sameHandlers
<1>4. SettingsFitRules'
  BY <1>0, <1>2, SettingsStep DEF Opened
<1>5. OwnerConnected'
  BY <1>0, <1>1, <1>2 DEF OwnerConnected, sameHandlers, sameSettings
<1>6. QED
  BY <1>0, <1>1, <1>2, <1>3, <1>4, <1>5, SameHandlersStep DEF IInv

\* Steps of the kext alone.
LEMMA KextStep ==
  ASSUME IInv, Refresh \/ DidTerminate \/ Stop
  PROVE  IInv'
<1>0. TypeOK /\ SettingsFitRules /\ Opened /\ OwnerConnected /\ Ordered /\ RulesOfOwner
  BY DEF IInv, SettingsFitRules
<1>1. server' = server /\ user' = user /\ sameHandlers
  BY <1>0 DEF Refresh, DidTerminate, Stop, sameHandlers, sameSettings, TypeOK
<1>2. CASE Refresh
  <2>1. UNCHANGED << drv, owner, notify, dying, initialized >>
    BY <1>2 DEF Refresh
  <2> DEFINE enabled == IF remap.rules = NULL THEN remap.enabled
                        ELSE << remap.rules, remap.flags >>
  <2>2. /\ enabled \in (Rules \X (Config \cup {NULL})) \cup {NULL}
        /\ enabled # NULL => enabled[1] = remap.rules
    BY <1>0 DEF TypeOK, SettingsFitRules
  <2>3. /\ remap'.rules = remap.rules /\ remap'.flags = remap.flags /\ remap'.enabled = enabled
        /\ remap' \in [rules : Rules \cup {NULL}, flags : Config \cup {NULL},
                       enabled : (Rules \X (Config \cup {NULL})) \cup {NULL}, armed : BOOLEAN]
    BY <1>0, <1>2, <2>2 DEF Refresh, TypeOK
  <2>4. TypeOK'
    BY <1>0, <1>1, <2>1, <2>3 DEF TypeOK
  <2>5. SettingsFitRules'
    BY <1>0, <2>1, <2>2, <2>3 DEF SettingsFitRules, Opened
  <2>6. OwnerConnected'
    BY <1>0, <1>1, <2>1 DEF OwnerConnected
  <2>7. QED
    BY <1>0, <1>1, <2>1, <2>3, <2>4, <2>5, <2>6, SameHandlersStep DEF IInv
<1>3. CASE DidTerminate
  <2>1. owner # OldClient
    BY <1>0, SessionConstants DEF TypeOK, Clients
  <2>2. UNCHANGED << drv, owner, notify, initialized, remap >> /\ dying' = FALSE
    BY <1>0, <1>3, <2>1, CloseKeeps DEF DidTerminate
  <2>3. TypeOK'
    BY <1>0, <1>1, <2>2 DEF TypeOK
  <2>4. SettingsFitRules'
    BY <1>0, <2>2, SettingsStep DEF Opened
  <2>5. OwnerConnected'
    BY <1>0, <1>1, <2>2 DEF OwnerConnected
  <2>6. QED
    BY <1>0, <1>1, <2>2, <2>3, <2>4, <2>5, SameHandlersStep DEF IInv
<1>4. CASE Stop
  <2>1. /\ UNCHANGED << owner, notify, dying, initialized >> /\ drv = "inactive"
        /\ drv' = "absent" /\ remap' = noRules
    BY <1>4 DEF Stop
  <2>2. owner = Nobody /\ ~initialized
    BY <1>0, <2>1 DEF TypeOK, Clients, OwnerConnected, Opened
  <2>3. TypeOK'
    BY <1>0, <1>1, <2>1 DEF TypeOK, noRules
  <2>4. SettingsFitRules'
    BY <1>0, <2>1, <2>2 DEF SettingsFitRules, Opened, noRules
  <2>5. OwnerConnected'
    BY <2>1, <2>2, SessionConstants DEF OwnerConnected
  <2>6. QED
    BY <1>0, <1>1, <2>1, <2>2, <2>3, <2>4, <2>5, SameHandlersStep DEF IInv
<1>5. QED
  BY <1>2, <1>3, <1>4

LEMMA TerminateStep ==
  ASSUME IInv, Terminate
  PROVE  IInv'
<1>0. TypeOK /\ SettingsFitRules /\ Opened /\ OwnerConnected /\ Ordered /\ RulesOfOwner
  BY DEF IInv, SettingsFitRules
<1>1. sameHandlers
  <2>1. ASSUME NEW s \in Sessions
        PROVE  /\ server'[s] \in Server /\ sameSettings(s)
               /\ server'[s].todo = server[s].todo
    <3>1. server[s] \in Server
      BY <1>0, ServerTyped
    <3>2. server'[s] = IF server[s].connect = "live"
                       THEN [server[s] EXCEPT !.connect = "dead"] ELSE server[s]
      BY DEF Terminate
    <3>3. QED
      BY <3>1, <3>2 DEF Server, sameSettings
  <2>2. server' = [s \in Sessions |-> server'[s]]
    BY DEF Terminate
  <2>3. QED
    BY <2>1, <2>2 DEF sameHandlers
<1>2. /\ drv' = "inactive" /\ dying' = FALSE /\ remap' = remap
      /\ user' \in [console : Sessions, loggedIn : SUBSET Sessions, events : Nat]
  BY <1>0 DEF Terminate, event, TypeOK
<1>3. /\ owner' = Nobody /\ notify' \in Clients /\ initialized' \in BOOLEAN /\ Opened'
      /\ initialized' => initialized /\ owner' = owner
  <2>1. CASE owner # Nobody
    BY <1>0, <2>1, CloseKeeps DEF Terminate
  <2>2. CASE owner = Nobody
    BY <1>0, <2>2 DEF Terminate, TypeOK, Opened
  <2>3. QED
    BY <2>1, <2>2
<1>4. TypeOK'
  BY <1>1, <1>0, <1>2, <1>3 DEF TypeOK, sameHandlers, Clients
<1>5. SettingsFitRules'
  BY <1>0, <1>2, <1>3, SettingsStep
<1>6. OwnerConnected'
  BY <1>3, SessionConstants DEF OwnerConnected
<1>7. QED
  BY <1>0, <1>1, <1>2, <1>3, <1>4, <1>5, <1>6, SameHandlersStep DEF IInv

LEMMA StartStep ==
  ASSUME IInv, Start
  PROVE  IInv'
<1>0. TypeOK /\ SettingsFitRules /\ Opened /\ OwnerConnected /\ Ordered /\ RulesOfOwner
  BY DEF IInv, SettingsFitRules
<1>1. sameHandlers
  <2>1. ASSUME NEW s \in Sessions
        PROVE  /\ server'[s] \in Server /\ sameSettings(s)
               /\ server'[s].todo = server[s].todo
    <3>1. server[s] \in Server /\ server[s].registered \in BOOLEAN
      BY <1>0, ServerTyped DEF Server
    <3>2. server'[s] = [server[s] EXCEPT !.matched = server[s].registered]
      BY DEF Start
    <3>3. QED
      BY <3>1, <3>2 DEF Server, sameSettings
  <2>2. server' = [s \in Sessions |-> server'[s]]
    BY DEF Start
  <2>3. QED
    BY <2>1, <2>2 DEF sameHandlers
<1>2. /\ drv = "absent" /\ drv' = "ready"
      /\ UNCHANGED << owner, notify, dying, initialized, remap, user >>
  BY DEF Start
<1>3. owner = Nobody
  BY <1>0, <1>2 DEF TypeOK, Clients, OwnerConnected
<1>4. TypeOK'
  BY <1>0, <1>1, <1>2 DEF TypeOK, sameHandlers
<1>5. SettingsFitRules'
  BY <1>0, <1>2, SettingsStep DEF Opened
<1>6. OwnerConnected'
  BY <1>2, <1>3, SessionConstants DEF OwnerConnected
<1>7. QED
  BY <1>0, <1>1, <1>2, <1>4, <1>5, <1>6, SameHandlersStep DEF IInv

LEMMA StutterStep ==
  ASSUME IInv, UNCHANGED vars
  PROVE  IInv'
BY DEF IInv, vars, TypeOK, SettingsFitRules, Opened, OwnerConnected, Ordered, RulesOfOwner

LEMMA InitInv == Init => IInv
<1> SUFFICES ASSUME Init PROVE IInv
  OBVIOUS
<1>1. \A s \in Sessions :
        /\ server[s] \in Server /\ server[s].todo = << >>
  <2> DEFINE files == [parsed |-> TRUE, version |-> FirstVersion, prefs |-> FirstPrefs]
  <2>1. stopped(files) \in Server /\ stopped(files).todo = << >>
    <3>1. << >> \in Seq(Steps) /\ << >> \in Seq({"become", "resign"})
      OBVIOUS
    <3>2. QED
      BY <3>1, SessionConstants DEF stopped, Server
  <2>2. \A s \in Sessions : server[s] = stopped(files)
    BY DEF Init
  <2>3. QED
    BY <2>1, <2>2
<1>2. TypeOK
  <2>1. server = [s \in Sessions |-> server[s]]
    BY DEF Init
  <2>2. server \in [Sessions -> Server]
    BY <1>1, <2>1
  <2>3. QED
    BY <2>2, SessionConstants DEF Init, TypeOK, noRules, Clients
<1>3. SettingsFitRules /\ OwnerConnected /\ RulesOfOwner
  BY SessionConstants DEF Init, SettingsFitRules, Opened, OwnerConnected, RulesOfOwner, noRules
<1>4. Ordered
  BY <1>1, HandlersOrdered DEF Ordered
<1>5. QED
  BY <1>2, <1>3, <1>4 DEF IInv

LEMMA NextInv == IInv /\ [Next]_vars => IInv'
BY CallStep, HandlersStep, LaunchStep, CrashStep, SwitchStep, KextStep, TerminateStep,
   StartStep, StutterStep DEF Next

\* The invariant the properties below rest on.
THEOREM Invariant == Spec => []IInv
<1>1. QED
  BY InitInv, NextInv, PTL DEF Spec

\* The types of all that the servers and the kext keep.
THEOREM TypeCorrect == Spec => []TypeOK
<1>1. IInv => TypeOK
  BY DEF IInv
<1>2. QED
  BY <1>1, Invariant, PTL

\* Whatever sessions come and go, crash or fail to parse: settings that are in
\* force are those of the rules that are loaded, and of who has the kext open.
THEOREM SettingsFit == Spec => []SettingsFitRules
<1>1. IInv => SettingsFitRules
  BY DEF IInv
<1>2. QED
  BY <1>1, Invariant, PTL

-------------------------------------------------------------------------------
(***************************************************************************)
(* Nobody is disturbed.                                                    *)
(***************************************************************************)
lost(s) == owner' # s \/ notify # notify' \/ initialized # initialized'

LEMMA CallDisturbs ==
  ASSUME IInv, NEW s \in Sessions, NEW t \in Sessions, owner = s, lost(s), Call(t)
  PROVE  server'[s].todo # server[s].todo
<1>0. TypeOK /\ Opened /\ Nobody # s
  BY SessionConstants DEF IInv, SettingsFitRules
<1>1. t = s
  <2>1. CASE Close(t) \/ ServiceClose(t)
    BY <1>0, <2>1, CloseKeeps DEF Close, ServiceClose, lost
  <2>2. CASE ServiceOpen(t)
    BY <2>2 DEF ServiceOpen, kext, lost
  <2>3. CASE Open(t)
    BY <1>0, <2>3 DEF Open, lost
  <2>4. CASE Notify(t)
    BY <2>4 DEF Notify, connected, lost
  <2>5. CASE SendVector(t)
    BY <2>5 DEF SendVector, connected, lost
  <2>6. CASE SendConfig(t)
    BY <2>6 DEF SendConfig, connected, lost
  <2>7. QED
    BY <2>1, <2>2, <2>3, <2>4, <2>5, <2>6 DEF Call
<1>2. ~ServiceOpen(s)
  BY DEF ServiceOpen, kext, lost
<1>3. ~(Open(s) /\ server[s].connect = "live" /\ drv = "ready")
  BY DEF Open, lost
<1> DEFINE q == server[s].todo
<1>4. q \in Seq(Steps) /\ server \in [Sessions -> Server] /\ server[s] \in Server
  BY <1>0, TodoTyped DEF TypeOK
<1>5. q # << >> => Tail(q) # q
  BY <1>4, TailSteps
<1>6. server[s].connect = "live" /\ drv = "ready" /\ connected(s)
  BY DEF IInv, OwnerConnected, connected
<1>7. q # << >> /\ server'[s].todo = Tail(q)
  BY <1>1, <1>2, <1>3, <1>4, <1>6
     DEF Call, Close, ServiceClose, Notify, SendVector, SendConfig, next, rest, Server
<1>8. QED
  BY <1>5, <1>7

\* Who has the kext open loses it, its notifications or its settings in force
\* only by a call or the end of his own server, or by the end of the driver.
THEOREM Undisturbed == Spec => NotDisturbed
<1>1. ASSUME IInv, [Next]_vars, NEW s \in Sessions, owner = s, lost(s)
      PROVE  server'[s].todo # server[s].todo \/ ~server'[s].running \/ drv' # drv
  <2>0. TypeOK /\ Opened /\ server \in [Sessions -> Server]
    BY <1>1 DEF IInv, SettingsFitRules, TypeOK
  <2>1. ASSUME NEW t \in Sessions, Call(t) PROVE server'[s].todo # server[s].todo
    BY <1>1, <2>1, CallDisturbs
  <2>2. ASSUME NEW t \in Sessions,
               HandleSession(t) \/ HandleMatched(t) \/ Launch(t) \/ Switch(t)
                 \/ ReloadXML(t) \/ ChangePrefs(t)
        PROVE  FALSE
    BY <1>1, <2>2
       DEF HandleSession, HandleMatched, Launch, Switch, ReloadXML, ChangePrefs, kext, lost
  <2>3. ASSUME NEW t \in Sessions, Crash(t) PROVE ~server'[s].running
    <3>1. t = s
      BY <1>1, <2>0, <2>3, CloseKeeps DEF Crash, lost
    <3>2. QED
      BY <2>0, <2>3, <3>1, StoppedTyped DEF Crash
  <2>4. CASE DidTerminate
    <3>1. s # OldClient
      BY SessionConstants
    <3>2. QED
      BY <1>1, <2>0, <2>4, <3>1, CloseKeeps DEF DidTerminate, lost
  <2>5. CASE Refresh \/ Stop \/ Start
    BY <1>1, <2>5 DEF Refresh, Stop, Start, lost
  <2>6. CASE Terminate
    BY <2>6 DEF Terminate
  <2>7. CASE UNCHANGED vars
    BY <1>1, <2>7 DEF vars, lost
  <2>8. QED
    BY <1>1, <2>1, <2>2, <2>3, <2>4, <2>5, <2>6, <2>7 DEF Next
<1>2. IInv /\ [Next]_vars =>
        [ \A s \in Sessions :
            owner = s /\ (owner' # s \/ notify # notify' \/ initialized # initialized') =>
              server'[s].todo # server[s].todo \/ ~server'[s].running \/ drv' # drv ]_vars
  BY <1>1 DEF lost
<1>3. QED
  BY <1>2, Invariant, PTL DEF Spec, NotDisturbed
===============================================================================
