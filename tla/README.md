# KeyRemap4MacBook: TLA+ specifications

A verification development of the kernel extension (`src/src/core/kext`), the
part of KeyRemap4MacBook that sits between the keyboard driver and the system,
rewrites key events by rules, and keeps the books on which modifiers and keys
are down, and of the server in each login session that configures it. Paths below are relative to `src/src/core/kext` unless they start
with `src/`.

    cd tla
    tlc -workers 2 -config KeyRemapRules.cfg MCKeyRemap      # a model-checking run
    tlapm KeyRemapProofs.tla                                 # the proofs of a module

`PROJECT.json` lists every run, every property with a mutant of the code that
breaks it, the source lines each definition models, the hazards and the theorems.

## 1. The system

| component | state it keeps | operations |
|---|---|---|
| `FlagStatus` | per modifier flag: `count`, `temporary_count`, `lock_count`, `sticky_count` | `set`, `reset`, `increase`/`decrease`, `temporary_*`, `lock_*`, `sticky_*`, `makeFlags`, `ScopedTemporaryFlagsChanger` |
| `EventInputQueue` | `queue_`, `fire_timer_` | `push_*EventCallback` (the hooks), `enqueue_`, `setTimer`, `fire_timer_callback` |
| `NumHeldDownKeys` | `num_` | `set(+1/-1)`, `reset`, `iszero` |
| `Core` | nothing of its own | `start`, `stop`, `remap_*EventCallback`, device notifications |
| `RemapClass`, `RemapClassManager` | rules, `enabled_`, `enabled_remapclasses_`, `refresh_timer_` | load, `set_config`, refresh, `remap_*` |
| `RemapFunc/*` | per rule: from key, target keys, `FromKeyChecker::active_`, static timers and targets shared by the rules of a kind | `add`, `remap` |
| `RemapFilter/*` | the lists of a filter | `isblocked` |
| `KeyboardRepeat` | `queue_`, `fire_timer_`, `id_` | `set`, `cancel`, `primitive_*`, `fire_timer_callback` |
| `EventOutputQueue`, `PressDownKeys` | `queue_`, `fire_timer_`, `FireModifiers::lastFlags_`, the list of pressed keys | `push`, `FireModifiers::fire`, `FireKey::fire`, `fire_downup`, `clear` |
| `VirtualKey` | timers of the input-mode and mouse keys | `handle` of each virtual key |
| `ListHookedDevice` and its three subclasses | the devices, per device the original callback and target, `last_` | `push_back`, `erase`, `refresh`, `apply` |
| `GlobalLock` | the `IOLock` | `ScopedLock`, `ScopedUnlock`, `terminate` |
| `TimerWrapper` | `active_` | `setTimeoutMS` with and without overwriting, `cancelTimeout` |
| `Config`, `UserClient_kext`, `CommonData` | the initialized flag, the client's task and notification, the front application, input mode | `SET_REMAPCLASSES_INITIALIZE_VECTOR`, `SET_CONFIG`, `SET_WORKSPACEDATA`, open, close |
| `EventWatcher`, `ButtonStatus` | the watched flags; a count per mouse button | `on`, `set`, `unset`; `increase`, `decrease`, `makeButtons` |
| server (user space, Objective-C), one per login session | preferences, the parsed XML, the connection | parse, connect when the session becomes active or the kext appears, send rules and settings, disconnect when it resigns |

How they interact. A key event enters through the hook that took the place of
the keyboard's callback (`ListHookedKeyboard::Item::refresh`). The hook only
queues it. The input timer takes one event at a time: it counts the held keys,
lets `Core::remap_KeyboardEventCallback` ask the enabled rules in order, and the
first rule that takes the event (or the code for events no rule takes) changes
`FlagStatus`, sets or cancels the key repeat, and pushes output events. When no
key is held any more Core flushes: repeat cancelled, counters reset, modifiers
and pressed keys released. The output timer hands the events one by one to
`Item::apply`, which calls the keyboard's original callback. All timers run on
one work loop, and every entry point holds the global lock, but `apply` gives it
up around the system's callback. In this gap the hook may be called again,
even from inside the callback on the same thread, and the user client and device
notifications may run.

Consumer keys and pointing devices have hooks and queues of the same kind; a pointing
event goes to the device used last, the release of all buttons to each. An input-mode
key is obeyed by the system later, and the server of the user in front reports the
mode back later still. That server holds the only open connection to the kext: rules
and settings come through it in two requests, and the kext works only between the
second and the end of the connection.

What is hard here:

- *Shared modifier accounting.* Every rule takes flags away and puts flags in
  on a press and must take back exactly that on the release, with other rules,
  locks and virtual keys at work in between, and with the flags that decide
  whether the rule applies changing meanwhile.
- *Timers that are armed only when inactive*, by code that runs while a callback
  is half-way with the lock released: the lost wake-up.
- *Deferred counting*: keys are counted when they leave the queue, and the
  hardware CapsLock, which reports one event per press, not at all.
- *Repeat*, which acts on keys that other events release or replace.
- *Reloads and plugging at any moment*, with events queued, keys held, repeats
  running, and an expired timer waiting for the lock.
- *Gestures*: the queue is rewritten before it is worked off; rules of a kind share
  static targets, timers and watchers.
- *The system's input mode*, known only by late reports.
- *Several servers and one kext*: a user switch tells both servers in no order, servers
  crash and restart, old connections end late, the kext is unloaded and loaded.
- *Teardown*: the lock is destroyed under threads that have already read it.

For each component, what makes it correct:

- `FlagStatus`: what is added is taken away; a scope restores the counters; a
  reset leaves only locks and stickies.
- Input: nothing waits for ever, the held count is exact, events are worked off
  in order.
- `KeyToKey`: one rule per key, decided on the press; its contribution to the
  flags is gone after the release.
- `KeyboardRepeat`: no repeat outlives its key or its rule.
- Output: the modifiers announced are those the keys carry; the list of pressed
  keys is what the system holds; nothing unsendable is queued; nothing waits for ever.
- `Core`: the flush leaves nothing behind; the system ends up without pressed keys.
- Hooked devices: whatever a reload or an unplugged keyboard dropped, what is delivered
  afterwards is what the kext believes it to be.
- `GlobalLock`: one at a time; called back code gets in; nobody comes in once it is shut, and
  those who are in get out.
- Gestures: what is taken out of the queue is accounted for; nothing stays pressed; the
  second meaning of a key comes only when it is typed alone.
- Devices: counts of keys, buttons and flags agree with what is held; every device is told.
- Input mode: the filters see the mode the next key meets.
- Session: settings belong to the loaded rules; nobody loses a connection to somebody
  else; the user in front is the one obeyed.
- Rule loading: nothing of a rule that is gone or switched off goes on working.

## 2. The modules

| module | models | how |
|---|---|---|
| `FlagStatus` | `util/FlagStatus.cpp/.hpp` | operators from the `item_` array to the array the function leaves behind |
| `EventOutput` | the writing half of `EventOutputQueue`, `PressDownKeys`, the virtual keys that change flags | operators on a record of the statics: `fs` (FlagStatus), `last` (`lastFlags_`), `q` (`queue_`), `pressed` (`list_`) |
| `KeyRemap` | the whole path of a key event, reloads, plugging; uses `EventOutput` and `FlagStatus` | state machine |
| `Exclusive` | what the lock promises | abstract state machine |
| `GlobalLock` | `util/GlobalLock.cpp` and its users, `Core::stop` | state machine; implements `Exclusive` |
| `HoldingKeyToKey` | `RemapFunc/HoldingKeyToKey.cpp/.hpp`: the rules that tell a tap from a hold and share one target and timer | state machine |
| `Gestures` | `SimultaneousKeyPresses`, `KeyOverlaidModifier`, `EventWatcher`, `DoublePressModifier`, `IgnoreMultipleSameKeyPress`, and the queue they rewrite or watch | state machine |
| `Devices` | consumer keys and pointing devices: hooks, conversions, `ButtonStatus`, scrolling, delivery, plugging; uses `EventOutput` | state machine |
| `InputMode` | the input-mode half of `VirtualKey.cpp/.hpp` | state machine |
| `Session` | the servers of the login sessions and `UserClient_kext`, `RemapClassManager` as they see them | state machine |
| `MC...` | instances for TLC | |
| `EventOutputProofs`, `KeyRemapProofs`, `GlobalLockProofs`, `HoldingKeyToKeyProofs`, `SessionProofs`, `InputModeProofs`, `GesturesProofs`, `DevicesProofs` | theorems (those of `FlagStatus` are in `EventOutputProofs`) | |

The path of a key event is cut into modules where the statics are cut in the code: `KeyRemap`
has the order of events under reloads and the lock's gaps; `Gestures`, `HoldingKeyToKey`
and `InputMode` have the statics of one family of functions and an event as one step, since
the lock is held throughout; `Devices` adds the other kinds of events to
`EventOutput`; `Session` has what `KeyRemap` takes as given, who sends the requests.

### KeyRemap

| variable | code |
|---|---|
| `inq`, `inArmed` | `EventInputQueue::queue_`, its `fire_timer_` active |
| `held` | `NumHeldDownKeys::num_` |
| `rules` | `RemapClassManager::remapclasses_` (the KeyToKey of each) |
| `config` | `RemapClass::enabled_`, `enabled_remapclasses_`, `refresh_timer_` active, how often the front application of `CommonData` changed |
| `active` | `FromKeyChecker::active_` of each rule |
| `rep` | `KeyboardRepeat::queue_`, its timer, and which rule's `keyboardRepeatID_` is the current `id_` |
| `out`, `outArmed` | the statics of `EventOutput`; the output timer active |
| `sending` | the output timer is inside the system's callback (lock released) |
| `loop` | a loop over target keys or repeating keys is under way |
| `plugged`, `initialized` | the keyboard is in the list; `Config::sysctl_initialized` |
| `phys`, `os` | the environment: keys down on the keyboard; what the system was told |

| action | code |
|---|---|
| `KeyMoves` | the hook, `EventInputQueue::push_KeyboardEventCallback`; or the original callback when it is not replaced |
| `PassThrough`, `Remap`, `StartKeys`, `KeysStep`, `KeysEnd` | `EventInputQueue::fire_timer_callback` with the whole of `Core::remap_KeyboardEventCallback` and `KeyToKey::remap`, flush and re-arming included |
| `RepeatTimer`, `RepeatStep` | `KeyboardRepeat::fire_timer_callback` |
| `OutputTimer`, `OutputDone`, `OutputDropped` | `EventOutputQueue::fire_timer_callback` and `Item::apply`, the callback in between |
| `SetRemapClasses`, `SetConfig`, `RefreshTimer` | the two user client requests, `refresh_timer_callback` |
| `SetWorkspaceData` | the user client request of another application in front |
| `Unplug`, `Plug` | `ListHookedDevice::erase`, `push_back` |

An event that one target key answers is one action, since the code holds the lock
throughout. The loops over several targets are one action per key, only to keep
the definitions small: `loop` bars everybody else until the loop ends.

Abstractions, each with its reason:

- *Flags* are sets of modifier flags instead of bit masks; a modifier and its
  key code are one value. The keypad bits and FN's double role are left out.
- *Order inside a set.* `FireModifiers` walks the flags, and `PressDownKeys::clear`
  the list, in an order of its own; the model takes one order. No property
  looks at the order of two modifiers announced together.
- *Keyboard type, char codes and timestamps* decide nothing on this path.
- *One keyboard.* What several devices add is in `Devices`.
- *Filters* are one kind, closed by every other application that comes to the front; the *input-method code* in `KeyToKey`
  behaves as with `remap_jis_ignore_improvement_IM_changing` on; `InputMode` has it off.
- *`keyboardRepeatID_`*: instead of the wrapping number, the rule that holds the current one.
- *Delays* are not modelled: an armed timer may fire at any moment.
- *Repeat with nothing to repeat*: the code arms the timer again and does
  nothing else; this is a stuttering step.
- *An expired repeat timer* that waits for the lock is not stopped by the cancel
  of a reload. The choice of `armed` in `SetRemapClasses` and `SetConfig` says so.
- *Requests of the user client* are modelled where they succeed; `Session` has the others.
- *Allocation failures* and the out-of-range read of a rule without
  targets (`KeyToKey.cpp:99`, overwritten before use) are left out.

### GlobalLock

`lock_`, `owner`, `freed` are the static pointer, the holder, and whether
`IOLockFree` was called. `pc` says where each thread is (outside, waiting for
the lock, inside, in the system's callback, nested in there, taking the lock
again), `stop` how far `Core::stop` has come. `ScopedLock` reads `lock_` in one step and
locks what it read in another, as the code does; `ScopedUnlock` that finds no
lock keeps what it has. Taking a lock that was freed is undefined; the model lets it
succeed, even when another thread holds it. `IOSleep(200)` waits for nobody: `StopFrees` may
come at any moment after `StopUnlocks`.

`Exclusive` is what is left of the lock's promise under such a stop: one holder at a time until
the lock is destroyed, nobody comes in after it is shut, and whoever was in may finish, after the
destruction without protection.

### HoldingKeyToKey

| variable | code |
|---|---|
| `hold.target`, `hold.armed` | the statics `target_` and `fireholding_timer_` (active), shared by all rules |
| `hold.active`, `hold.keydowntype` | `active_`, `keydowntype_` of each rule |
| `hold.sent`, `drop` | `FromKeyChecker::active_` of `keytokey_normal_`, `keytokey_holding_`, and of `keytokey_drop_` |
| `hold.os`, `hold.given`, `alone` | observation: what the system holds, how often the press was answered, whether no two rules' keys overlapped since the last flush |
| `visit` | the event on its way through `CALL_REMAPCLASS_FUNC` and `RemapClass::remap_key` |
| `enabled`, `held`, `down` | `enabled_remapclasses_`, `NumHeldDownKeys::num_`, the keys down |

`KeyEvent` starts an event, `Take` and `Refuse` are `HoldingKeyToKey::remap` in its two
branches, `Skip` passes a rule whose class is not enabled or has taken the event
already, `EndEvent` is the flush. No timer or reload comes between: they wait for the lock
and the work loop. An answer is down or up; that fits a single target key, which is
what stays down (of several, only the last does). From-side flags are not asked for, and
`savedflags_`, which only chooses the flags an answer carries, is left out. A reload is
one action, from the destruction of the rules to the keyboard being hooked again; keys
may move unseen meanwhile.

### Gestures

| variable | code |
|---|---|
| `queue`, `armed` | `EventInputQueue::queue_`, its `fire_timer_` active |
| `both` | `FromInfo::active_` of both keys of each `SimultaneousKeyPresses` |
| `rule` | the members of each overlaid, double-press or ignoring rule |
| `watchers` | `EventWatcher::list_` |
| `repeater` | `KeyOverlaidModifier::target_` and its `firerepeat_timer_` |
| `held`, `count` | `NumHeldDownKeys::num_`, the counts of `FlagStatus` |
| `phys`, `told`, `did` | observation: keys down; what the system holds; the last presses and what the step typed |

`did.again` is an observation too: whether a pair was ever pressed while its target was down. The
code does not ask for it (`GesturesStray` shows what follows), so the properties do.

`Move` is the hook. `InputTimer(slow)` is the whole `fire_timer_callback`:
`rewritten` runs `remap_simultaneouskeypresses` over the front of the queue, then `Remap` takes one
event through the counting, the watcher, the rules and the flush, and `setTimer` arms again.
`slow` says whether the interval of `IntervalChecker` has passed, which is all the rules ask of the
time. `RepeatTimer` is `firerepeat_timer_callback`. What a pair becomes is a virtual key (or the
target itself, `isToRaw_`), which the rules after it may take.

Left out: from flags of the overlaid, double-press and ignoring rules (pairs have
them); buttons in pairs; rules that are switched, filtered or freed while their key is
down; pairs turned into `VK_NONE` keep the count low, so `HeldConserved` asks for pairs with a
target. `isfirenormal_` and `isfirerepeat_`, which the constructor leaves alone, start false, as
the kernel's `operator new` zeroes memory. A key ignored by `IgnoreMultipleSameKeyPress` may still pass
its release to the system, which no property forbids.

### Devices

| variable | code |
|---|---|
| `setting` | the rules and the option `lazy_modifiers_with_mouse_event`; which buttons each device has (`buttons`), how often devices change (`changes`) |
| `dev` | `list_`, `last_`, which callbacks are replaced, `previousbuttons_` of each device |
| `inq` | `EventInputQueue::queue_` |
| `s.o` | `FlagStatus`, `lastFlags_`, `PressDownKeys`, as in `EventOutput` |
| `s.count`, `s.held`, `s.active` | `ButtonStatus`, `NumHeldDownKeys::num_`, `FromKeyChecker::active_` |
| `s.rep`, `s.repeating`, `s.owner` | `KeyboardRepeat`: the keys and consumer keys in `queue_` with their directions, its timer, whose `keyboardRepeatID_` is `id_` |
| `s.scroll`, `s.scrollFlags`, `s.scrolling` | the statics of `PointingRelativeToScroll` |
| `s.out` | the pointing events in `EventOutputQueue::queue_` |
| `phys`, `told`, `s.consumers` | the environment: what is held; the buttons each device was reported with; the consumer keys the system holds |

`KeyMoves`, `ConsumerMoves`, `Reports`, `Wheel` are the four hooks; `Reports` makes one event of
each button that changed since the device's last report, and one of the motion. `InputTimer` is
`fire_timer_callback` with Core's callback for the kind of event (`worked`), `ScrollTimer` the
momentum of scrolling, `OutputTimer` `ListHookedPointing::apply`; `Plug`, `Unplug`, `Configure` the
list. Each of the eight remapping functions is an operator of its name.

Key, modifier and consumer events reach the system in the order they are queued, so the model keeps
what the system holds after them; only pointing events have a queue, as their receiver is
chosen on delivery. Amounts of motion are "some" or "none"; what scrolling does with them
(whether a momentum is left) is a choice. Delivery is atomic here; its gap is in `KeyRemap`.
What would repeat is kept, the repeating itself left out: it sends what is held once more. A CapsLock key is not
counted as held (`countsAsHeld`), since it reports down or up and not both.

What the code does and the properties step around, each found by TLC or by a proof that did not go through:

- the same button of two devices shares one `active_` (pressing it on a second device is counted as a change);
- a drag takes *every* pointing event while it lasts (`PointingButtonToPointingButton.cpp:80`,
  `PointingRelativeToScroll.cpp:76`), so a rule on another button behind it never sees the release of that button and
  goes on converting: `CountsExact` and `ReleasedEverywhere` ask that such rules stand last (`dragsLast`), and
  without it TLC finds a count that stays one too low;
- a drag that turns its button into nothing, or into more than two, fires nothing for what it takes, and scrolling
  (also by flags alone) takes the release of a button pressed before: `ReleasedEverywhere` asks for rules
  that fire for every event (`firesAll`);
- the button that scrolls is up for the system but still counted, so that any other pointing event reports it
  pressed again: `SourceReleased` speaks of one button, no rule that presses one, and no drag before it that
  takes its release;
- a rule on the CapsLock key may convert when the flush at zero resets the counts;
- a device pulled out in the middle of a drag leaves its button counted until the next flush;
- `previousbuttons_` is kept while a device is not hooked;
- plugging resets the held count, which may go below zero afterwards, and a press still queued leaves it too high.

### InputMode

| variable | code |
|---|---|
| `cws` | `CommonData::current_workspacedata_`, the mode the server reported last |
| `im.pub`, `im.learned` | `wsd_public_`, which entries of `wsd_save_` are filled |
| `im.cur`, `im.pre`, `im.others` | the three indexes of modes |
| `im.sign`, `im.skips`, `im.seesawInit`, `im.initDo` | `sign_plus_minus2_`, `counter_plus_minus2_`, `seesaw_init2_`, `pass_initialize2_` |
| `im.callback`, `im.armed` | `callback2_` and the one `timer_restore2_` |
| `im.saved`, `im.current`, `im.pending` | `Handle_VK_JIS_TEMPORARY`: the mode to restore, the temporary one, the key held back |
| `im.sent`, `sys`, `keys`, `down` | the environment: mode keys on their way, the system's mode, the keyboard |

`Press` and `Release` are `ControlWorkspaceData` before the rules, the rule's handler
(`remapped`), and `ControlWorkspaceData` after it, with the option
`remap_jis_ignore_improvement_IM_changing` off. `timeoutAfterKey2` is the shared timer's callback,
`fire_timer_callback` the delayed mode key; `Obey`, `Report`, `Menu` are the system, the server, the mouse.
A key is a kind (ordinary, mode key with or without a rule, toggle, one of the twelve
changes, temporary, restore, ...), the mode it stands for, and how `ControlWorkspaceData` recognises it.
`VK_JIS_IM_CHANGE_SKIP_PRE_*` with no previous mode (a mode has just been learned, and the key is under a modifier)
writes `skip[-1]`, before the local array `skip00` (`VirtualKey.hpp:286`): undefined, and the model takes the
write to hit nothing in use.

### Session

| variable | code |
|---|---|
| `server[s].todo` | what is left of the handler the main thread runs: the kernel calls it makes |
| `server[s].inbox`, `registered`, `matched` | session notifications waiting; `notifyport_`; the matching notification waiting |
| `server[s].connect` | `connect_`: none, live, or dead once the driver is gone |
| `server[s].parsed`, `version`, `prefs` | `ConfigXMLParser::initialized_`, what was parsed, the user's settings |
| `server[s].refused` | observation: the last open was refused for another client's sake |
| `drv` | the driver object: published, inactive, gone |
| `owner`, `notify` | who has the provider open; `asyncref_` with `notification_enabled_` |
| `dying` | an old user client that has not seen `didTerminate` yet |
| `initialized`, `remap` | `sysctl_initialized`; `remapclasses_`, the flags set, `enabled_remapclasses_`, `refresh_timer_` |
| `user` | the session in front, those logged in, the number of events so far |

Handlers start with `HandleSession`, `HandleMatched`, `Launch`, `ReloadXML`, `ChangePrefs`; each of their
kernel calls is one action (`Close`, `ServiceClose`, `ServiceOpen`, `Open`, `Notify`, `SendVector`, `SendConfig`),
because the kext takes its lock for each and anybody may come between. `Refresh`, `DidTerminate`,
`Terminate`, `Stop`, `Start` are the kext's own; `Crash` and `Switch` the environment's. After a failed call
the rest of the handler is what the code still does: it closes, and sends into a connection it does not have.

The kernel closes the connection of a server that died in the step of the crash. Several old
clients are one `dying`. The user in front is the one who edits. The parser runs on the main
thread. The work space data and status messages change nothing here. A version of the XML files has a number of
rules, and two versions may have the same; one the kext refuses leaves it without rules.

## 3. The runs

| run | question | size (distinct states) |
|---|---|---|
| `KeyRemapRules` | 16 rule sequences with no, one and several targets of every kind, one with a filter that the front application closes and opens; two plain keys, a modifier, the hardware CapsLock; accounting, announcements, repeats, flush, and with fairness that everything settles | 965,000 |
| `KeyRemapReload` | rules reloaded, enabled, disabled, refreshed, keyboard plugged: 3 such changes at any moment | 1,272,000 |
| `GlobalLock` | exclusion, refinement of `Exclusive`, with fairness a nested hook gets in and all drain; 3 threads and a stop that frees the lock at any moment | 2,121 |
| `GlobalLockStop` | *violation*: a thread runs after the lock is freed | |
| `HoldingKeyToKey` | two rules in two classes, a third key, one refresh or reload; with fairness | 476,000 |
| `HoldingOverlap` | *violation*: two rules of one class, their keys held together | |
| `Gestures` | 6 settings: one or two pairs, also with the same or no target, overlaid, double-press and ignoring rules on single keys and on what a pair becomes; 3 keys | 523,000 |
| `GesturesStray` | *violation*: a key of a pair pressed again before the pair is up | |
| `Devices` | 10 settings that use all eight functions; a key, a modifier, a consumer key, a button on each of two devices, or two on one | 1,424,000 |
| `InputMode` | 7 keyboards with the kinds of mode keys; two keys down; late system, late server, the input menu | 1,656,000 |
| `InputModeRestore` | *violation*: an ordinary key released after a temporary mode key | |
| `Session` | two sessions, three versions of the rules (two of equal number, one refused); 3 switches, edits, crashes or restarts; with fairness | 224,000 |

What they show:

- `FlagsBalance`: at every moment between events each count is the key itself
  plus what the converting rules put there; `ActiveWhileHeld`: one rule per key.
- `PressedIsWhatSystemHolds`, `ModifiersAnnounced`, `NothingRefused`: three
  relations between the output queue, what the kext remembers of it, and
  what the system will know when it is empty.
- `HeldCountExact`, `FlushAtZero`, `AllReleasedClean`: the held count, the
  step in which it reaches zero, and the system when all is delivered.
- `RepeatsWhatIsHeld`, `RepeatsForEnabledRule`: whose keys may repeat.
- `NoLostWakeup`, `SettlesWhenReleased`: the timers.
- `DeliveryMends`: across reloads and plugging the system may differ from `PressDownKeys` and
  `lastFlags_`, because output was dropped or a key was pressed on one side of the hook and released on the
  other; but every key and flag the queue speaks of ends as they remember it, each key-down carries the
  flags announced before it, and each MODIFY changes one.
- `MutualExclusion`, `PromiseKept`, `NestedGetsIn`: the lock, whenever it is freed. `Drains`: all who found it
  before `Core::stop` cleared it get through it, unless it is freed before.
- `TargetSet`, `TimerForUndecided`, `AnsweredOnce`, `HeldIsAnswered`: the shared target and
  timer of `HoldingKeyToKey`. `AnsweredOnce` and `HeldIsAnswered` speak of
  presses that overlap no other rule's (`alone`) while rules are not changed; `alone`
  comes back at each flush, so they also say that earlier overlaps leave no trace.
- `HeldConserved`: events taken out of the queue and put into it keep the count of held keys
  equal to that of the keys down, a full pair counting once. `NothingStuck`: whatever is pressed, repeated or
  awaited has its release still to come (unless a pair was pressed while its target was down: the pair
  itself half up, as in `GesturesStray`, or another with the same raw target). `TypedAlone`: the second meaning
  of a key is typed only when no key went down since; where a pair was pressed again it needs the held
  keys to be counted, since the flush stops the watching.
- `CountsExact`: three counts agree with what is held and with the rules that convert it.
  `ReleasedEverywhere`, `SourceReleased`: what each pointing device was told; these three until devices change.
  `ConsumersFollowKeys`: consumer keys and repeats end with their keys, whatever devices do. `TypingRecovers`: whatever plugging and options left behind, one
  typed key makes every count zero and releases everything (unless the held count was left too high).
- `FilterFollowsMode`: the mode the filters look at is the one the next ordinary key meets, as long
  as the kext can recognise what changed it. `SmartKeyGoesRound`: `SKIP_EISUU_KANA` reaches each mode
  it stands for, whatever the directions chosen on the way.
- `SettingsFitRules`: the settings in force were made for the rules loaded, though the kext compares their
  number only. `NotDisturbed`: a connection ends by its own server or the driver. `FollowsUser`: the
  kext ends up with the rules and settings of the user in front, unless his server was refused, which is
  not tried again (`UserClient_userspace.m:95`): without that condition the property is false.

*Bounds.* `MaxIn` limits how far the keyboard runs ahead of the input timer: with 2
waiting events a press and release of one key, or the interleaving of two keys,
fits in the queue. `MaxOut` stops new keys and repeats while more output waits; one
input event may still produce several output events, so queues of 8 and more
occur. `MaxChanges` is 3 in `KeyRemapReload`: load, enable, refresh, and something else in
between, or unplug and plug with a request between them. The counters of
`FlagStatus` need no bound: the keys bound them, and `MaxFronts` where a filter closes: 2 are a press
that the rule takes, a release it does not see, and another press. Two plain keys and a modifier
are enough for two rules to work on the same flags and targets, which is as many as
one event involves; the proofs have no such bounds.
`HoldingKeyToKey` has two rules, since `target_` can only be one's own or another's, a key
that interrupts, and one change (`MaxChanges`), which may come at any moment of a press.
`Gestures`: 3 waiting events (`MaxQueue`) are both presses of a pair and one in between, or both releases
and a press; no key goes down while a flag's count is above `MaxCount`. `Devices`: two
waiting input events; the user waits for pointing output (`MaxOut` 0) and for the temporary counts
of scrolling (`MaxDrift`); changes of devices are counted per setting, one in the setting about them.
`InputMode`: a mode key is pressed only while at most `MaxSent` others are on their way, two keys
down at a time; the properties need two modes and the one between. `Session`: 3 events (`MaxEvents`) are
enough for a switch, one back, and a crash or edit; with 4 (1.5 million states) the properties hold as well.

*Deadlock* is checked except in `KeyRemapReload` (the keyboard may end up
unplugged with all changes used), in `GlobalLock` (the driver is unloaded and
every thread is outside) and in `Session` (the users have done what they may).

*Fairness.* `KeyRemap`: an entered callback returns and a started loop goes on
(WF). An armed input or output timer fires (SF): the timers of one work loop
are served in the order of their deadlines, so a timer that has expired is not
passed over for ever by one that is armed again and again. `InputTaken` and
`LoopGoesOn` name the steps of the input callback and of the loops by what they do to
the queue and to `loop`: TLC evaluates ENABLED of these at once, of the callback itself
only with much recomputation. Nothing is assumed of
the user, the repeat timer, reloads or refreshes. `SettlesWhenReleased` holds
under the condition that the user comes to leave every key alone. `GlobalLock`:
a thread that was let in goes on, and the lock, free again and again, is given to each
that waits (SF); nothing makes threads enter, the system call back, or the driver stop.
`HoldingKeyToKey`: an entered callback returns, an armed timer expires. `Session` (WF): a
handler makes its next call, the main thread takes its next notification, launchd starts a
server that is not running (`OnDemand` is false in its LaunchAgent), the refresh timer fires, an old client
ends. Nothing is assumed of users, crashes, or the loading of the kext. `Gestures`, `Devices` and `InputMode`
state no liveness, and so no fairness.

*Findings.* `Core.cpp:77-78` says of `GlobalLock::terminate`: "Destroy global
lock. Then, all callbacks and hooked functions become inactive."
`GlobalLockStop` shows a thread that read `lock_` before `terminate` cleared it
(`GlobalLock.cpp:34`) and gets the lock after `IOSleep(200)` and `IOLockFree`
(lines 26 and 28): it runs while `Core::stop` takes the rest down. The sleep makes this
unlikely. What holds whatever the timing is `Exclusive`, and that is checked and proved.

The option "Holding Command+1,2,3,... to F1,F2,F3,..." (`src/files/prefpane/checkbox.xml:3605-3607`)
says "Holding Command+1 to F1", "Holding Command+2 to F2". `HoldingOverlap` states that the second key is
down only while the first is held, and shows where it is not: hold `1` until F1 is sent,
press `2`, release `1`. `dokeyup` (`HoldingKeyToKey.cpp:149`) looks at `target_`, which is now
the rule of `2` and undecided, releases nothing, and F1 stays down until all keys are up.

`VirtualKey.cpp:228` says of the three uses of `timer_restore2_` that they are independent and do not
overlap. `InputModeRestore` shows two that do: an ordinary key is down, a key for a temporary mode
is pressed and released (the restore is armed), the ordinary key comes up: its `CALLBACK_INIT` overwrites
the restore, and with all keys up the temporary mode stays on.

`SimultaneousKeyPresses.cpp:223-224` explains how an unintended release is kept from being fired. `GesturesStray`
fires one: with a pair down, its first key is released and pressed again, and within the delay the
second is released and pressed again. The pair is activated a second time (line 305) while half down, and
afterwards a release of the second key passes to the system as a key-up without a key-down.

*CapsLock.* The physical key of CapsLock counts as up in `AllReleasedClean`: its state is the keyboard's
light. A rule on the hardware CapsLock keeps converting after the flush
at zero held keys has reset the counts, and the other event of the light gives
back what is not there any more.

*Filters.* `RemapClass::Item::remap` asks the filters about every event (line 150). When the front
application changes while a converted key is down, the rule does not see the release, which goes to the
system as that of the unconverted key; the rule stays active, and its next press adds its modifiers again.

So `FlagsBalance` and `ActiveWhileHeld` speak of rules that see the release of every
press they took (`paired`), and `FlagsBalance` leaves the item of CapsLock itself aside. `HeldCountExact`,
`PressedIsWhatSystemHolds`, `ModifiersAnnounced`, `AllReleasedClean` and `SettlesWhenReleased` hold with
the other rules too: whatever was left behind while keys were held, the flush repairs. So does
`RepeatsWhatIsHeld`: a rule that misses the release goes on converting, and what it repeats stays pressed
until the flush.

*What is false across reloads and plugging*: `HeldCountExact` (an event queued before the unplugging
counts after it), `PressedIsWhatSystemHolds`, `ModifiersAnnounced` and `AllReleasedClean` (events queued before a
reload are dropped when no keyboard is hooked at their turn; the flags of an unplugged
keyboard's keys stay until the next flush), `FlagsBalance` and `ActiveWhileHeld` (a rule that was freed
or switched off while it converts takes nothing back). All six say `undisturbed`: nothing was reloaded or plugged
since the start. The code accepts this; the hazards list names each line, and `TypingRecovers` bounds
it. `RepeatsWhatIsHeld` says nothing of the kind and is proved with reloads and plugging.

## 4. The proofs

Every theorem is checked by TLAPS for all values of the constants. They assume
what the modules `ASSUME`, which TLC evaluates in each run:
`KeyCodesDisjoint` (the kinds of key codes are disjoint, virtual keys name modifier
flags), `FiniteKeys`, `KeyRemapConstants` (the rules are well-formed,
the bounds natural numbers), `GlobalLockConstants` (three different names),
`SessionConstants` (the names of clients differ, every version has at least one rule),
`InputModeConstants` (the keyboards have mode keys of the code's kinds, bounds are natural numbers),
`GesturesConstants` (keys and what pairs become differ, as do the two keys of a pair),
`DevicesConstants` (rules look for and produce what their class does, keys and consumer keys differ) and
`FiniteDevices` (finitely many consumer keys, buttons and devices).

`EventOutputProofs` has the facts about `FlagStatus` first: a `ScopedTemporaryFlagsChanger` turns on
exactly its flags (`ScopeTurnsOn`); `ResetForgetsKeys`; `DecreaseUndoesIncrease`; and `DownUpRestores`: sending
a modifier as a key, with the `FireModifiers` of its press and of its release inside the scope, leaves
every counter as it was, but for CapsLock's toggle, and the system told of exactly the flags asked for. Then what the output operators return and what they can queue,
lemma by lemma. They say that no operator queues an extra modifier or a virtual key,
which is more than a type.

`KeyRemapProofs`:

- `Invariance`: `IInv == Types /\ LoopInRange /\ NoLostWakeup`. Types alone are
  not inductive: the loops read `rules[loop.rule].to[loop.next]`, and
  `KeysEnd` and `OutputDone` take the head of queues that must not be empty;
  `LoopInRange` says they are not, and that nobody runs while a loop does.
  `Types` has the statics in `SentStatics`, so that `NothingRefused`
  follows. One lemma per action, then `TypeCorrect`, `WakeupsKept`,
  `NothingRefusedEver`.
- `OwnerInvariance`: a sequence repeats only for a rule in the enabled list.
  The strengthening `Owned` must also speak of a sequence that is being built
  (`SequenceInHand`), whose timer is not yet armed. `RepeatsEnabled` follows.
- `FlushAtZeroAlways`: the only steps that take an event from the queue are the ends of
  the input callback (`TakenOnlyWhenFinished`), and those flush.
- `DeliveryAlwaysMends`: `DeliveryMends` is not inductive, since it says nothing of what the queue does not mention.
  `SomeSystem` is: there is a system, keys down and flags told, for which the statics are coherent in the sense of
  `PressedIsHeld` below; the real one differs from it where output was dropped or passed the hook. Emitting keeps it by
  `Closed`, taking the front off the queue moves the imagined system on (`PopKeepsSomeSystem`), whether the event is
  delivered or dropped, and a reload or plugging leaves it alone. What the queue speaks of is the same in
  both systems.
- `ReleaseUndoesPress`: for one key turned into a modifier, `unholdFlags` after
  `holdFlags` gives each item but CapsLock's its value back, which is the step
  on which `FlagsBalance` rests.

The second half of `KeyRemapProofs` has the invariants that relate the parts of the path, each for every keyboard, every set of
rules, and queues of any length. `UndisturbedStep` reduces a step before the first reload to the `Ordinary` actions:
until then the keyboard is hooked and every rule is enabled (`Still`), so nothing is dropped and no release lost.

- *Which keys were seen.* `handled` are the keys the remapping code has seen go down. It is the key's present
  state turned over once per waiting event of that key (`downBefore`), and `EventsFlip` says that each
  waiting event turns its key over: a hook can neither repeat nor skip one. With it the front event is a press exactly
  if its key is not in `handled`, and taking it adds or removes that key (`HandledByInput`). `HeldInv`, from
  which `HeldCount` follows, needs that, since the code adds and subtracts blindly, and the flush
  at zero is sound because the count cannot pass zero while a key is held.
- *Which rules convert.* `ActiveInv`: a converting rule's key is handled, and no two rules convert one key. The
  step that could break it is a press while an earlier rule of the same key converts; the
  lists are asked in one order and nothing closes in between (`paired`). `LoopOfPress` adds that a
  loop over target keys runs for a press. `ActiveOnlyWhileHeld` follows.
- *The modifier counts.* `FlagsBalance` speaks of sums of cardinalities. The proof takes them rule by rule: what a
  rule keeps in the count of a flag while it converts is its `share`, what it `lends` by the last
  target key less what it `drops` of its own key, and `contribution` gains or loses the share of
  the rule that is added or removed. `holdFlags` and `unholdFlags` move the counts by `lends` (the CapsLock item, which
  `decrease` does not move alike, is the exception the property makes too). Not inductive by
  itself: while a rule sends several target keys its own flag is off and its last key is not held
  yet. `BalanceInv` therefore balances over `settled` rules and takes off what the running rule has
  `pending`. A flush makes all counts zero, and no rule converts when no key is held, so the sum is empty
  as well. `CountsBalance` follows.
- *Repeats.* `RepeatInv`: a single key that repeats is one in `PressDownKeys`, a sequence has an owner that converts,
  and one that is being built has its timer unarmed. `KeyboardRepeat::set` and `FireKey::fire` are called with the same
  event one after the other, so a key that stops being pressed stops repeating (`RepeatFollows`).
  `RepeatsOnlyWhatIsHeld` follows, across reloads too: they free the rules but not what is pressed.
- *What the system is told.* `Coherent(down, flags)` are the statics whose queue, delivered to a system that holds
  `down` and `flags`, leaves it with the pressed keys and the announced flags, each event carrying the flags
  announced before it. `Closed(T)` (in `EventOutputProofs`) says that a set of statics is kept by the five calls that
  emit events; whatever the remapping code does keeps every such set, and `CoherentClosed` shows that this is one. Inside the system's callback the front event is delivered and still in the
  queue, so there the invariant `Told` says `Midway`, and new output is appended meanwhile by nested hooks
  and other timers. `PressedIsHeld` and `AnnouncedAlways` follow.
- *Nothing is left.* `CleanAtZero`: while no key is counted, nothing is pressed or repeats, and the flags announced last
  are the locks and stickies. With `HeldInv` and `Told`, all keys up and all delivered, `AllReleased`.

`GlobalLockProofs`: the inductive invariant says that the owner is exactly the thread (or
stop) that runs until the lock is freed, and how `lock_` and `freed` follow `stop`. From it `Exclusion`
and `Implements`, the refinement of `Exclusive`, with no assumption on the sleep: the holder is who runs, those inside
are all who have found `lock_` and not left. Before `freed` each step of a thread maps to one of `Come`, `Take`, `Give`,
`Go` or a stutter (`ThreadKeepsPromise`) and those of stop likewise (`StopKeepsPromise`); after it nobody can come in, and
whatever the threads do to each other is a `Finish` (`FreedKeepsPromise`).

`HoldingKeyToKeyProofs`: `IInv == TypeOK /\ TargetSet /\ TimerForUndecided` is inductive, each part
needing the others: `keydowntype_` keeps its type because `target_` is a rule where it
is followed, and the timer stands for an undecided press because each way
out of that state passes `dokeydown` of that rule first. `TargetNeverNull`,
`TimerOnlyUndecided` and `TypeCorrect` follow for any number of rules and classes and any reloads.
`AnsweredOnce`, an action property, needs more: what a step does to a press depends on how far its event has come
through the rules and classes. `PressInv` says it for as long as the rules are not changed: `drop` of a rule
follows its key, but only of the first rule that has it, and only once the event has come to it
(`DropsFollow`); the class that took the event is set exactly after that (`TakenFollows`); the count of held
keys is their number, so that a flush finds no press under way (`Counted`); and while no two keys of rules
are busy, the rule pressed is `target_`, either undecided with nothing given, or answered once with just
that answer down (`Answering`). Each operator then takes a press from one of these to the other
(`DokeydownAnswers`, `AnswerOnce`, `DokeyupEnds`), and the step that ends it leaves nothing (`AnsweredOnceAlways`).

`SessionProofs`: `SettingsFitRules` is not inductive, because the kext compares only a number: settings for
other rules of the same number would be taken. What keeps them out lies in the servers: a handler sends its rules
before its settings (`Ordered`), so that whoever has the kext open, has parsed files and is not about to send
rules, has his own version loaded (`RulesOfOwner`); a parser that failed sends no rules and settings for none, which
no loaded version has. `OwnerConnected` ties the kext's owner to a live connection. With these,
`IInv` is inductive, one lemma per action; `TypeCorrect`, `SettingsFit` and, with a case for each action that changes the
owner, `Undisturbed` follow for any number of sessions, crashes and restarts.

`InputModeProofs`, for every set of mode keys, any number of them on their way, and systems and servers as late as one
likes:

- `TypeCorrect`, by one lemma for each operator that works on the statics (`SetIndexes`, `ReplaceWSD`, `Temporary`,
  ...) and one for each action. `nextIndex` is a CHOOSE of a least index; `LeastBelowSix` and `NextIndex` say it exists.
- `FilterFollows`, an action property. What it says of a step is that `Agrees` is kept where the step is one the
  property speaks of. `AgreesIn(s, m)` is `Agrees` of any statics, so that a lemma can follow
  an event through the operators it passes: `Flush`, `FireMode`, `Restore`, `PostRemap`, `Remapped`, then the actions.
- `GoesRound`: the presses of `SmartKeyGoesRound` from *any* statics of the right type, whatever modes
  were used before. The first press lands on one of the key's modes; from there on each goes
  to the neighbour (`NeighbourIsNearest`), the direction stays (`DirectionStays`), and so
  the presses go round (`RoundTheRing`). `SkipRow` unfolds the recursive function of the property.

`GesturesProofs`, for any keys, pairs and rules (which may share keys, targets and flags) and queues of any length:

- *Which keys were down.* The keyboard is ahead of the rules by the queue, and pairs take presses out of it while
  the releases stay. `Leads(l, s, now)` says that with the keys of `l` down before the events of `s`, those
  of `now` are down after them. `l` counts: a press that was taken out has made its key go down early
  (`LeadsWithout`), perhaps while its earlier release still waits, so a key may be down twice; but `Moves` lets
  it be *pressed* only from zero. `Comes`: what counts in `l` is down now or has its release queued.
- *What the pairs keep.* `room(l, b)` is `l` less the keys that active pairs wait for; it never becomes negative.
  `MidCount` balances the held count against `room`, the open targets, and a target put
  in front and not yet taken. It holds between any two functions and any two passes, not only before and after: `MidRelease`
  and `MidPress` are the two things a function may do, `Fold` and `RewrittenOf` go over the functions and
  the passes. `Shorter` and `TargetStops` show that as many passes as the queue is long suffice,
  which is why the model may stop there (`NoMore`).
- *What the rules do.* `remap_key` is a fold over the rules; `Asked(..., r, t)` says what the first `r` rules have made of
  an event, `t` being the one that took it. `AskedStep` is one rule, `AskedAll` the induction, `Answered` the sum:
  one rule at most turns, it is the first that may, and what the others remember.
- *The invariant.* `KeyInv(l)` is about the queue, `RulesInv(l)` about the rules: an active rule is the first for its key and
  its key is *live*, that is, its release comes before its next press (`ActiveKept`); the repeat timer is armed only
  for an active rule; what a rule has counted or seen agrees with the last two presses (`PressKept`,
  `WatchKept`); and, unless a pair was pressed again, everything the system holds is live, whoever repeats is active
  and each flag's count is that of its active rules. The flush at zero keeps all this because the held
  count bounds the live keys (`NoneLive`): where it is zero there is none to forget.
- `TypesHold`, `HeldIsConserved`, `NothingStays` and the action property `TypesAlone` follow.

`DevicesProofs`, for any keys, consumer keys, buttons, devices and rules, plugged, unplugged and configured in any order:

- *What every function keeps.* `Bears(t, u)` and `Keeps(t, u)` say of statics `u` made from `t` that they are
  `Sound`, that held keys and converting rules are as before, that no repetition of a rule starts, and (`Keeps`) that
  the consumer keys stay. One lemma for each function from `withFs` and `announce` up to the eight remapping
  functions; the consumer functions get `ConsumerMade` and `Made`, which say what changes. `Sound` is the state
  between two functions: types, no lock or sticky but CapsLock's, and a single key that repeats is in
  `PressDownKeys`, a single consumer key held. The types alone are not enough: the flush leaves locks and stickies alone,
  so `TypingRecovers` needs that nothing sets them.
- *One event.* `Passed` and `Converted` are the two ways of `remapped`; `Worked` joins the counting before and the flush after
  them. `FlushIs` says that a flush makes everything `recovered`, `WorkedHeld` when it comes. `Recovers` follows from
  `Sound` and the type of the held count alone: it needs no history, which is why it holds after any.
- *Who holds what.* `ConsumersFollowKeys` compares the statics with the keyboard, which is ahead by the queue. `Follows(s, H)`
  compares them with `H`, the keys and consumer keys held when the events worked off were made: a converting rule's
  source is in `H` and no other rule converts it (`Awake`); a consumer key the system holds is made by a converting rule,
  or is in `H` with no rule converting it (`Reasons`); a repeating sequence belongs to a rule that converts (`Owns`).
  The second half of `Reasons` is the strengthening: without it, a release that the rule takes would leave the key
  held. `Leads(H, inq, Held)` says that the queue turns `H` into what is held now. `FollowsPassed` and
  `FollowsConverted` are the two ways of an event, `FollowsSame` everything else.
- `TypesHold`, `Recovers` and `ConsumersFollow` follow from `Inv`, one lemma per action.
- *What is counted.* A gauge is a button or a modifier flag but CapsLock's; `Level(t, x)` is its count in the statics `t`.
  `Turns(t, u, x, n)` says that a function changes it by `n` and tells the system nothing, `Tells` that it ends with a
  report of the buttons that count. `ConvertTurns` sums up the eight remapping functions: a conversion that presses its
  source changes the level by `Does(i, x)`, one that lets go of it by as much the other way, and a drag in
  between by nothing. `Balanced(t, H)` is what the counts should be while the keys, consumer keys and buttons of `H` are held:
  every converting rule has its source in `H` and no two rules the same (`Owned`), the held count is the size of `H` without
  CapsLock, and each level is 1 if the gauge is in `H`, plus the converting rules that add, less those that
  take away (`Due`). `Owned` is what makes it inductive: a release that an earlier rule takes would leave the
  rule of that source converting for good, and it is here that `dragsLast` is needed. A rule for the CapsLock key
  may convert when a flush has cleared the counts, so gauges it touches are left out (`Steady`).
- *What the devices are told.* `Cleared(q, to, D)`: some pointing event of the queue is the report of no button, which goes
  to all devices, and those behind it press none; or none of the queue presses one and the devices in `D` were told so before.
  `ClearedTail` is the delivery of one event; `WorkedSpeaks` says that an event either leaves the buttons that count and the
  queue alone or ends with a report of them (rules that `firesAll`), `WorkedScroll` that with one button, which
  no rule presses, the queue stays cleared while a rule scrolls.
- *The invariant.* `Undisturbed` says, as long as no device came, went or was configured: every device is heard and
  no two hold the same button (`Wired`); there is a set `H` that is `Balanced` and from which the queue leads to what is held
  on the keyboard and on all devices (`Accounts`); where no button counts, or the only one scrolls, the queue is `Cleared`
  (`Says`, `Hides`). Queued events do not say which device they are from, which is why `Wired` is part of it: then the
  buttons held are a set, and `ReportedLeads` shows that a device's report turns the old set into the new one, whatever the order
  of its events. One lemma per action (`NextUndisturbed`); `CountsAreExact`, `EverywhereReleased` and `SourceIsReleased` follow
  where the queues are empty and `H` is what is held.

The proofs go by induction over queues, lists of rules and passes without the induction theorems of the library:
`UpTo` is induction over a *set* of numbers, from the least element of what is left out, and `AskedAll`,
`FoldOf` and `Folds` use it to show that the function a recursive definition chooses exists and, where needed, is the only one.

Only model-checked: the five liveness properties (`SettlesWhenReleased`, `NestedGetsIn`, `Drains`, `HeldIsAnswered`,
`FollowsUser`), since liveness under fairness and ENABLED are out of the prover's reach. Every safety invariant and action
property of the passing runs is stated by a theorem. No module uses a RECURSIVE operator.

## 5. Not modelled

- *The filters' lists* (`RemapFilter/*`): predicates without state, each a membership test over the front
  application, the device, the mode, the modifiers or the options. `KeyRemap` has the one thing that
  matters to the other components, a filter that opens and closes while a key is held.
- `KeyCode.cpp`'s *normalisation of FN and keypad keys* and its `FNKeyHack` tables: bit masks word by
  word; a model would be the table over again.
- `VK_LOCK_ALL_FORCE_OFF`, `VK_CONFIG_*`, `VK_MOUSEKEY_*`, and the keys that open applications:
  `VK_CONFIG` sets `enabled_` and asks for a refresh, as `SetConfig` of `KeyRemap` does;
  the mouse keys send relative motion from a timer of their own, and motion is left out.
- `DropKeyAfterRemap`, `ForceNumLockOn`, `SetKeyboardType`: each decides one event by itself.
- *The chain of hooks*: what another driver does with the callback it replaced is not in this repository.
- *Memory*: list items freed while their `apply` is in the system's callback, a rule's member that
  `EventWatcher` still refers to, the element past the end of an empty vector, failed allocations. If the
  allocation of the initialize vector fails in the server, the settings after it meet the old rules.
- *The wrap of `keyboardRepeatID_`* after 10000.
- *The words of the initialize vector* and the XML they come from (`ConfigXMLParser+AutoGen.m`,
  `+PreferencePane.m`), preferences and their names: what the models use is which version was parsed and how
  many rules it has.
- *User interface, status messages, data files, build scripts, Growl and Sparkle*: no state that the
  kext depends on.
