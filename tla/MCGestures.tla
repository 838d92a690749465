------------------------------ MODULE MCGestures ------------------------------
(***************************************************************************)
(* An instance of Gestures for TLC: three keys, one or two pairs of them,  *)
(* and rules on a key of a pair, on what a pair becomes, and on the third. *)
(***************************************************************************)
EXTENDS Gestures

CONSTANTS a, b, c, V, W, CTRL, SHIFT

pair(x, y, fs, to) == [from |-> <<x, y>>, flags |-> fs, to |-> to]

on(kind, from, to, repeat) == [kind |-> kind, from |-> from, to |-> to, repeat |-> repeat]

overlaid(from, to, repeat) == on("KeyOverlaidModifier", from, to, repeat)

set(combos_, rules_) == [combos |-> combos_, rules |-> rules_]

MCSettings ==
  { set(<<pair(a, b, {}, V)>>, <<overlaid(V, CTRL, FALSE)>>),
    set(<<pair(a, b, {}, V), pair(b, c, {}, W)>>,
        <<on("DoublePressModifier", V, CTRL, FALSE),
          on("IgnoreMultipleSameKeyPress", a, CTRL, FALSE)>>),
    set(<<pair(a, b, {SHIFT}, V)>>, <<overlaid(c, SHIFT, TRUE), overlaid(V, CTRL, TRUE)>>),
    set(<<pair(a, b, {}, NONE)>>, <<overlaid(c, SHIFT, FALSE)>>),
    set(<<pair(a, b, {}, V), pair(b, c, {}, V)>>, <<overlaid(V, SHIFT, FALSE)>>),
    set(<< >>, <<on("DoublePressModifier", a, CTRL, FALSE),
                 on("IgnoreMultipleSameKeyPress", b, CTRL, FALSE), overlaid(c, SHIFT, TRUE)>>) }

\* Just one pair: Shift_L and Shift_R, say, to Space.
MCPair == {set(<<pair(a, b, {}, V)>>, << >>)}
===============================================================================
