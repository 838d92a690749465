------------------------------ MODULE MCDevices -------------------------------
(***************************************************************************)
(* An instance of Devices for TLC: a plain key and a modifier, one         *)
(* consumer key, two pointing devices with one button each, or a mouse     *)
(* with two beside one with none.                                          *)
(***************************************************************************)
EXTENDS Devices

CONSTANTS a, b, SHIFT, VOLUME, MUTE, mouse, pad, LEFT, RIGHT

MCNoVirtual == [v \in {} |-> v]

k(key) == [key |-> key, flags |-> {}]

kf(key, fs) == [key |-> key, flags |-> fs]

rule(kind, from, fs, to) ==
  [kind |-> kind, from |-> from, fromFlags |-> fs, repeat |-> TRUE, to |-> to]

oneEach == [d \in Pointings |-> {LEFT}]

twoOnMouse == [d \in Pointings |-> IF d = mouse THEN {LEFT, RIGHT} ELSE {}]

set(rs) == [rules |-> rs, lazy |-> FALSE, changes |-> 0, buttons |-> oneEach]

MCSettings ==
  { [rules |-> <<rule("PointingButtonToPointingButton", LEFT, {}, <<k(RIGHT)>>)>>,
     lazy |-> TRUE, changes |-> 1, buttons |-> oneEach],
    set(<<rule("KeyToConsumer", a, {SHIFT}, <<k(VOLUME)>>),
          rule("ConsumerToConsumer", VOLUME, {}, <<kf(MUTE, {SHIFT}), k(VOLUME)>>)>>),
    set(<<rule("ConsumerToKey", VOLUME, {}, <<k(SHIFT)>>),
          [rule("KeyToConsumer", SHIFT, {}, <<k(VOLUME), k(MUTE)>>) EXCEPT !.repeat = FALSE]>>),
    set(<<rule("KeyToPointingButton", a, {SHIFT}, <<kf(LEFT, {SHIFT})>>),
          rule("PointingButtonToKey", LEFT, {SHIFT}, <<k(b)>>),
          rule("ConsumerToConsumer", VOLUME, {SHIFT}, <<k(MUTE)>>)>>),
    set(<<rule("KeyToPointingButton", SHIFT, {}, <<k(LEFT), k(RIGHT)>>),
          rule("PointingButtonToPointingButton", LEFT, {}, <<k(RIGHT)>>)>>),
    [rules |-> <<rule("PointingButtonToPointingButton", LEFT, {SHIFT}, <<kf(RIGHT, {SHIFT})>>),
                 rule("DropPointingRelativeCursorMove", VK_NONE, {}, << >>),
                 rule("KeyToPointingButton", a, {}, <<k(LEFT)>>)>>, lazy |-> TRUE, changes |-> 0,
     buttons |-> oneEach],
    set(<<rule("PointingButtonToPointingButton", LEFT, {SHIFT}, <<k(LEFT), k(RIGHT)>>),
          rule("PointingButtonToKey", LEFT, {}, <<k(SHIFT)>>)>>),
    set(<<rule("PointingRelativeToScroll", LEFT, {SHIFT}, << >>)>>),
    set(<<rule("PointingRelativeToScroll", VK_NONE, {SHIFT}, << >>)>>),
    [set(<<rule("PointingButtonToKey", RIGHT, {SHIFT}, <<k(b)>>),
           rule("PointingButtonToPointingButton", LEFT, {}, <<k(RIGHT)>>)>>)
       EXCEPT !.buttons = twoOnMouse] }
===============================================================================
