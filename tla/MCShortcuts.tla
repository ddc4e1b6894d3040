----------------------------- MODULE MCShortcuts -----------------------------
(* Shortcuts for TLC: two of the eight settings, of the toolbar; the left  *)
(* Shift, the full stop, Escape and CapsLock.  Restored files have Shift   *)
(* for either setting, or do not have it.                                  *)
EXTENDS Shortcuts

MCToolbar == <<"inputMode", "shape">>
MCCandidate == <<>>
MCForeign == {<<"shift">>}
MCFallback == [inputMode |-> <<"shift">>, shape |-> <<"shift", ".">>]

K(name, side) == [name |-> name, side |-> side]
MCKeys == {K("shift", "left"), K("Period", "none"),
           K("Escape", "none"), K("Capital", "none")}

(* For every key of the tables and every set of modifiers, the text the    *)
(* recorder writes is read back as that key with those modifiers.          *)
ASSUME TablesAgree ==
    \A m \in SUBSET Modifiers : \A name \in Known(ShortcutDisplayForKey) :
        LET held == {K(x, "left") : x \in m}
            chord == ParseShortcutChord(RecordedShortcutFromKey(K(name, "none"), held))
        IN  chord = [valid |-> TRUE, mods |-> m, key |-> K(name, "none")]
=============================================================================
