------------------------------- MODULE Session --------------------------------
(***************************************************************************)
(* Who configures the kext: one KeyRemap4MacBook_server per login session, *)
(* which connects to the kext when its session becomes active and leaves   *)
(* it when the session resigns (fast user switching), sends the rules of   *)
(* its XML files and then the user's settings; and the kext, whose user    *)
(* client admits one opener, keeps the rules and settings it was last sent *)
(* and lists the enabled rules in a timer of its own.                      *)
(*                                                                         *)
(* A server runs one handler at a time on its main thread; a handler is a  *)
(* sequence of kernel calls, each of which is one step, as the kext takes  *)
(* its global lock for each.  In between the other session's server, the   *)
(* timer, the end of an old connection and the kext's own stop and start   *)
(* take their steps.  A server may crash; launchd starts it again          *)
(* (OnDemand is false in its LaunchAgent).                                 *)
(***************************************************************************)
EXTENDS Naturals, Sequences

CONSTANTS
  Sessions,      \* the login sessions
  First,         \* the session that is active at first
  Nobody, OldClient, NULL,
  Versions,      \* what a session's XML files may hold
  Oversized,     \* the versions the kext refuses to load
  Prefs,         \* the settings of a user
  Size,          \* how many rules a version has
  FirstVersion, FirstPrefs,                      \* what every user has at first
  MaxEvents      \* bounds the switches, edits, crashes and restarts

ASSUME SessionConstants ==
  /\ First \in Sessions /\ Nobody \notin Sessions /\ OldClient \notin Sessions \cup {Nobody}
  /\ Oversized \subseteq Versions /\ FirstVersion \in Versions /\ FirstPrefs \in Prefs
  /\ Size \in [Versions -> Nat \ {0}]
  /\ MaxEvents \in Nat

VARIABLES
  drv,           \* the driver object: "ready", "inactive" or "absent"
  owner,         \* the client that has the provider open
  notify,        \* whose port asyncref_ is, with notification_enabled_
  dying,         \* an old user client that has not seen didTerminate yet
  initialized,   \* Config's sysctl_initialized
  remap,         \* RemapClassManager
  server,        \* one server per session
  user           \* the session in front, those logged in, what happened so far

vars == << drv, owner, notify, dying, initialized, remap, server, user >>

kext == << drv, owner, notify, dying, initialized, remap >>

\* remapclasses_, the flags set by set_config, enabled_remapclasses_ and
\* whether refresh_timer_ runs.  NULL is the NULL pointer, and stands for the
\* flags of freshly loaded rules, which are all off.
noRules == [rules |-> NULL, flags |-> NULL, enabled |-> NULL, armed |-> FALSE]

\* What a server runs: todo is the rest of its handler, connect_ its user
\* client ("dead" once the driver is gone), refused that its last open was.
stopped(files) ==
  [running |-> FALSE, todo |-> << >>, inbox |-> << >>, registered |-> FALSE,
   matched |-> FALSE, connect |-> "none", refused |-> FALSE,
   parsed |-> files.parsed, version |-> files.version, prefs |-> files.prefs]

Steps == {"CLOSE", "SERVICECLOSE", "SERVICEOPEN", "OPEN", "NOTIFY", "VECTOR", "CONFIG"}

\* ConfigXMLReloaded: rules, then settings.
sendAll == << "VECTOR", "CONFIG" >>

closeUserClient == << "CLOSE", "SERVICECLOSE" >>

\* observer_IONotification: refresh_connection and sendAll, without a retry.
connectSteps ==
  << "CLOSE", "SERVICECLOSE", "SERVICEOPEN", "OPEN", "NOTIFY", "VECTOR", "CONFIG" >>

\* The same when the connection fails: it is closed, and what is sent is lost.
failSteps == << "CLOSE", "SERVICECLOSE", "VECTOR", "CONFIG" >>

Init ==
  /\ drv = "ready" /\ owner = Nobody /\ notify = Nobody /\ dying = FALSE
  /\ initialized = FALSE /\ remap = noRules
  /\ server = [s \in Sessions |->
                 stopped([parsed |-> TRUE, version |-> FirstVersion, prefs |-> FirstPrefs])]
  /\ user = [console |-> First, loggedIn |-> {First}, events |-> 0]

-------------------------------------------------------------------------------
\* What the kext does for a call.

\* Mutant: whoever calls closes it.
closeAnyway(c) == initialized' = FALSE /\ notify' = Nobody /\ owner' = Nobody

\* Mutant: what belongs in the guarded branch is done in the other.
closeSwapped(c) ==
  /\ initialized' = (initialized /\ owner # c)
  /\ notify' = IF owner = c THEN notify ELSE c
  /\ owner' = IF owner = c THEN Nobody ELSE owner

\* callback_close, also made by clientClose and didTerminate: only who opened
\* the provider closes it.
callback_close(c) ==
  /\ initialized' = (initialized /\ owner # c)
  /\ notify' = IF owner = c THEN Nobody ELSE notify
  /\ owner' = IF owner = c THEN Nobody ELSE owner

\* Mutant: the list survives its rules.
loadKeepsEnabled(s, v) ==
  [remap EXCEPT !.rules = [by |-> s, version |-> v,
                           size |-> IF v \in Oversized THEN 0 ELSE Size[v]],
                !.flags = NULL]

\* load_remapclasses_initialize_vector: the old rules and the list of the
\* enabled ones go; the version the kext refuses leaves no rule at all.
load(s, v) ==
  [remap EXCEPT !.rules = [by |-> s, version |-> v,
                           size |-> IF v \in Oversized THEN 0 ELSE Size[v]],
                !.flags = NULL, !.enabled = NULL]

\* Mutant: the size is not looked at.
acceptsAny(size) == remap.rules # NULL

\* set_config looks at the size of the settings only.
accepts(size) == remap.rules # NULL /\ remap.rules.size = size

\* Mutant: refresh is not called.
setConfigQuietly(config) ==
  [remap EXCEPT !.flags = config, !.armed = (remap.enabled = NULL)]

set_config(config) ==
  [remap EXCEPT !.flags = config, !.armed = TRUE]

\* refresh_timer_callback
Refresh ==
  /\ drv # "absent" /\ remap.armed
  /\ remap' = [remap EXCEPT !.armed = FALSE,
                            !.enabled = IF remap.rules = NULL THEN @
                                        ELSE << remap.rules, remap.flags >>]
  /\ UNCHANGED << drv, owner, notify, dying, initialized, server, user >>

\* didTerminate of a client whose connection was closed before.
DidTerminate ==
  /\ dying /\ dying' = FALSE
  /\ callback_close(OldClient)
  /\ UNCHANGED << drv, remap, server, user >>

-------------------------------------------------------------------------------
\* What a server does.

\* A handler runs on the main thread when the one before has ended.
idle(s) == server[s].running /\ server[s].todo = << >>

handle(s, changed) == idle(s) /\ server' = [server EXCEPT ![s] = changed]

\* The next call of the handler; "more" is what it has still to do after it.
next(s, step, connect, more) ==
  /\ server[s].todo # << >> /\ Head(server[s].todo) = step
  /\ server' = [server EXCEPT ![s].todo = more, ![s].connect = connect]

rest(s) == Tail(server[s].todo)

\* The first of closeUserClient's calls; it is made through the connection.
Close(s) ==
  /\ next(s, "CLOSE", server[s].connect, rest(s))
  /\ IF server[s].connect = "live" THEN callback_close(s)
                                   ELSE UNCHANGED << owner, notify, initialized >>
  /\ UNCHANGED << drv, dying, remap, user >>

\* The second: clientClose, which closes again and terminates the client.
ServiceClose(s) ==
  /\ next(s, "SERVICECLOSE", "none", rest(s))
  /\ IF server[s].connect = "live"
     THEN callback_close(s) /\ dying' = TRUE
     ELSE UNCHANGED << owner, notify, initialized, dying >>
  /\ UNCHANGED << drv, remap, user >>

\* Without a driver there is nothing to open and no connection to use.
ServiceOpen(s) ==
  /\ IF drv = "ready"
     THEN next(s, "SERVICEOPEN", "live", rest(s))
     ELSE next(s, "SERVICEOPEN", "none", sendAll)
  /\ UNCHANGED << kext, user >>

\* callback_open.  When it fails the connection is closed, and nothing tries
\* again: what the handler still sends finds connect_ empty.
Open(s) ==
  LET opens == server[s].connect = "live" /\ drv = "ready" /\ owner \in {Nobody, s}
      todo == IF opens THEN rest(s) ELSE failSteps
  IN  /\ server[s].todo # << >> /\ Head(server[s].todo) = "OPEN"
      /\ server' = [server EXCEPT ![s].todo = todo, ![s].refused = owner \notin {Nobody, s}]
      /\ owner' = IF opens THEN s ELSE owner
      /\ UNCHANGED << drv, notify, dying, initialized, remap, user >>

\* A call that needs an open connection.
connected(s) == server[s].connect = "live" /\ drv = "ready" /\ owner = s

\* callback_notification_from_kext
Notify(s) ==
  /\ next(s, "NOTIFY", server[s].connect,
          IF connected(s) THEN rest(s) ELSE failSteps)
  /\ notify' = IF connected(s) THEN s ELSE notify
  /\ UNCHANGED << drv, owner, dying, initialized, remap, user >>

\* send_remapclasses_initialize_vector_to_kext: a parser that failed has
\* nothing to send; the kext is uninitialized before it loads.
SendVector(s) ==
  /\ next(s, "VECTOR", server[s].connect, rest(s))
  /\ IF connected(s) /\ server[s].parsed
     THEN initialized' = FALSE /\ remap' = load(s, server[s].version)
     ELSE UNCHANGED << initialized, remap >>
  /\ UNCHANGED << drv, owner, notify, dying, user >>

\* ConfigXMLParser::count
count(s) == IF server[s].parsed THEN Size[server[s].version] ELSE 0

\* send_config_to_kext, and what SET_CONFIG does with it.
SendConfig(s) ==
  /\ next(s, "CONFIG", server[s].connect, rest(s))
  /\ IF connected(s) /\ accepts(count(s))
     THEN /\ initialized' = TRUE
          /\ remap' = set_config([by |-> s, prefs |-> server[s].prefs,
               version |-> IF server[s].parsed THEN server[s].version ELSE NULL])
     ELSE UNCHANGED << initialized, remap >>
  /\ UNCHANGED << drv, owner, notify, dying, user >>

\* registerIONotification: calls the observer, which takes what has matched.
registerIONotification(r) ==
  [r EXCEPT !.registered = TRUE, !.matched = FALSE, !.todo = connectSteps]

\* unregisterIONotification, then disconnect_from_kext.
resign(r) ==
  [r EXCEPT !.registered = FALSE, !.matched = FALSE, !.todo = closeUserClient]

\* The session notifications come in their order; each session has its own.
HandleSession(s) ==
  /\ server[s].inbox # << >>
  /\ LET r == [server[s] EXCEPT !.inbox = Tail(@)]
     IN  handle(s, IF Head(server[s].inbox) = "become" THEN registerIONotification(r)
                                                       ELSE resign(r))
  /\ UNCHANGED << kext, user >>

\* observer_IONotification, when the driver has appeared.
HandleMatched(s) ==
  /\ server[s].matched
  /\ handle(s, [server[s] EXCEPT !.matched = FALSE, !.todo = connectSteps])
  /\ UNCHANGED << kext, user >>

\* applicationDidFinishLaunching, at login and when launchd starts it again,
\* whether or not the session is active.
Launch(s) ==
  /\ s \in user.loggedIn /\ ~server[s].running
  /\ server' = [server EXCEPT ![s] =
                  registerIONotification([stopped(server[s]) EXCEPT !.running = TRUE])]
  /\ UNCHANGED << kext, user >>

event(u) == user.events < MaxEvents /\ user' = [u EXCEPT !.events = @ + 1]

\* The kernel closes the connections of a server that died (clientDied).
Crash(s) ==
  /\ server[s].running /\ event(user)
  /\ server' = [server EXCEPT ![s] = stopped(server[s])]
  /\ IF server[s].connect = "live"
     THEN callback_close(s) /\ dying' = TRUE
     ELSE UNCHANGED << owner, notify, initialized, dying >>
  /\ UNCHANGED << drv, remap >>

-------------------------------------------------------------------------------
\* What the users do.

\* Fast user switching tells both servers, in no order; the first switch to a
\* session is its login.
Switch(t) ==
  /\ t # user.console /\ event([user EXCEPT !.console = t, !.loggedIn = @ \cup {t}])
  /\ server' = [s \in Sessions |->
                  IF ~server[s].running THEN server[s]
                  ELSE [server[s] EXCEPT !.inbox =
                          CASE s = t -> Append(@, "become")
                            [] s = user.console -> Append(@, "resign")
                            [] OTHER -> @]]
  /\ UNCHANGED kext

edit(s) == s = user.console /\ event(user)

\* ConfigXMLParser::reload: only what was parsed is announced and sent.
ReloadXML(s) ==
  /\ edit(s)
  /\ \/ \E v \in Versions :
          handle(s, [server[s] EXCEPT !.version = v, !.parsed = TRUE, !.todo = sendAll])
     \/ handle(s, [server[s] EXCEPT !.parsed = FALSE])
  /\ UNCHANGED kext

\* PreferencesManager posts PreferencesChanged.
ChangePrefs(s) ==
  /\ edit(s)
  /\ \E p \in Prefs \ {server[s].prefs} :
       handle(s, [server[s] EXCEPT !.prefs = p, !.todo = << "CONFIG" >>])
  /\ UNCHANGED kext

\* The kext is unloaded: the driver goes inactive and its clients are closed.
Terminate ==
  /\ drv = "ready" /\ event(user)
  /\ drv' = "inactive" /\ dying' = FALSE
  /\ IF owner # Nobody THEN callback_close(owner)
                        ELSE UNCHANGED << owner, notify, initialized >>
  /\ server' = [s \in Sessions |->
                  IF server[s].connect = "live" THEN [server[s] EXCEPT !.connect = "dead"]
                                                ELSE server[s]]
  /\ UNCHANGED remap

\* Driver::stop and Core::stop: RemapClassManager::terminate.
Stop ==
  /\ drv = "inactive" /\ drv' = "absent"
  /\ remap' = noRules
  /\ UNCHANGED << owner, notify, dying, initialized, server, user >>

\* Driver::start; registerService tells those who registered.
Start ==
  /\ drv = "absent" /\ drv' = "ready"
  /\ server' = [s \in Sessions |-> [server[s] EXCEPT !.matched = server[s].registered]]
  /\ UNCHANGED << owner, notify, dying, initialized, remap, user >>

Call(s) ==
  \/ Close(s) \/ ServiceClose(s) \/ ServiceOpen(s) \/ Open(s) \/ Notify(s)
  \/ SendVector(s) \/ SendConfig(s)

Next ==
  \/ \E s \in Sessions :
       \/ Call(s) \/ HandleSession(s) \/ HandleMatched(s) \/ Launch(s) \/ Crash(s)
       \/ Switch(s) \/ ReloadXML(s) \/ ChangePrefs(s)
  \/ Refresh \/ DidTerminate \/ Terminate \/ Stop \/ Start

\* Main threads, launchd, the kext's timer and IOKit go on; what users do, and
\* the loading of the kext, need not happen.
Fairness ==
  /\ WF_vars(Refresh) /\ WF_vars(DidTerminate)
  /\ \A s \in Sessions :
       WF_vars(Call(s)) /\ WF_vars(HandleSession(s)) /\ WF_vars(HandleMatched(s))
         /\ WF_vars(Launch(s))

Spec == Init /\ [][Next]_vars /\ Fairness

-------------------------------------------------------------------------------
Clients == Sessions \cup {Nobody}

Rules == [by : Sessions, version : Versions, size : Nat]

Config == [by : Sessions, version : Versions \cup {NULL}, prefs : Prefs]

Server ==
  [running : BOOLEAN, todo : Seq(Steps), inbox : Seq({"become", "resign"}),
   registered : BOOLEAN, matched : BOOLEAN, connect : {"none", "live", "dead"},
   refused : BOOLEAN, parsed : BOOLEAN, version : Versions, prefs : Prefs]

TypeOK ==
  /\ drv \in {"ready", "inactive", "absent"}
  /\ owner \in Clients /\ notify \in Clients
  /\ dying \in BOOLEAN /\ initialized \in BOOLEAN
  /\ remap \in [rules : Rules \cup {NULL}, flags : Config \cup {NULL},
                enabled : (Rules \X (Config \cup {NULL})) \cup {NULL}, armed : BOOLEAN]
  /\ server \in [Sessions -> Server]
  /\ user \in [console : Sessions, loggedIn : SUBSET Sessions, events : Nat]

\* Only a kext that somebody has open converts or reports, and it reports to
\* that server, whoever came and went on the way.
Opened == (initialized => owner # Nobody) /\ notify \in {owner, Nobody}

\* The settings in force were made for the rules that are loaded, although the
\* kext compares nothing but their number; and the list of enabled rules never
\* outlives the rules it points to.
SettingsFitRules ==
  /\ Opened
  /\ initialized /\ remap.rules.size > 0 =>
       /\ remap.rules.by = owner /\ remap.flags.by = owner
       /\ remap.flags.version = remap.rules.version
  /\ remap.enabled # NULL => remap.enabled[1] = remap.rules

\* Nobody is disconnected but by his own server's calls and end, and by the end
\* of the driver: neither a refused server nor an old connection closes the one
\* in use (UserClient_kext.cpp:64-68, "Changing static values by other
\* IOServiceOpen may destroy the current connection").
NotDisturbed ==
  [][ \A s \in Sessions :
        owner = s /\ (owner' # s \/ notify # notify' \/ initialized # initialized') =>
          server'[s].todo # server[s].todo \/ ~server'[s].running \/ drv' # drv ]_vars

\* What the kext does is what session s asks for.
served(s) ==
  /\ owner = s /\ notify = s /\ initialized
  /\ remap.enabled = << [by |-> s, version |-> server[s].version,
                         size |-> Size[server[s].version]],
                        [by |-> s, version |-> server[s].version, prefs |-> server[s].prefs] >>

\* Fast user switching (DEVELOP.md:14): the kext ends up with the rules and the
\* settings of the user in front of the computer, unless his server was refused
\* because another one had not left yet, which it does not try again.
FollowsUser ==
  LET s == user.console
  IN  <>[]( drv = "ready" /\ server[s].parsed /\ server[s].version \notin Oversized
              /\ ~server[s].refused => served(s) )
===============================================================================
