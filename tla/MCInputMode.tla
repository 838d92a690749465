----------------------------- MODULE MCInputMode -----------------------------
(***************************************************************************)
(* Instances of InputMode for TLC.                                         *)
(***************************************************************************)
EXTENDS InputMode

key(kind, to, by) == [kind |-> kind, to |-> to, by |-> by]

plain == key("plain", NoMode, "key")

change(x, by) == key("change", x, by)

\* Mode keys, remapped or not, temporary modes and keys under a modifier.
ModeKeySets ==
  { {plain, key("bare", EISU, "mode"), key("bare", HIRA, "mode"), key("temporary", EISU, "key")},
    {plain, key("toggle", NoMode, "key"), key("function", EISU, "flags"), key("keys", HIRA, "key")},
    {plain, key("temporary", KATA, "flags"), key("mapped", HIRA, "key"), key("bare", FEIS, "flags")},
    {plain, key("switch", KATA, "key"), key("restore", NoMode, "key"), key("select", AINU, "key")} }

\* The keys of the samples for VK_JIS_IM_CHANGE.
ChangeKeySets ==
  { {change("SKIP_EISUU_KANA", "mode"), change("KANA_OTHERS", "key")},
    {change("SKIP_PRE_BACK", "flags"), change("CUR_PRE", "flags")},
    {change("SKIP_NONE_FORWARD", "flags"), change("EISUU_KANA", "mode")} }

\* Two keys that overlap, one of them with a temporary mode.
RolloverKeySets == { {plain, key("temporary", EISU, "key")} }

MCKeySets == ModeKeySets \cup ChangeKeySets
==============================================================================
