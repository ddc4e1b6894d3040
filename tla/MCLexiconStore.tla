--------------------------- MODULE MCLexiconStore ----------------------------
(* Small instances of LexiconStore: one imported dictionary beside the      *)
(* user's words, and devices with both or with the words only.               *)
EXTENDS LexiconStore

CONSTANTS dict, words, text

\* A device at rest with these switches, list and words.
Device(flags, entries, content) ==
    LET d == [f \in Files |->
                IF f = List THEN entries
                ELSE IF f = words THEN content
                ELSE IF f = dict /\ entries # NoFile /\ entries[dict] # "none" THEN Blank
                ELSE NoFile]
    IN [switches |-> flags,
        disk |-> [f \in Files |-> IF f \in Schemas THEN Aggregate(WantedOf(d, flags)) ELSE d[f]]]

Both == [user |-> TRUE, imported |-> TRUE]
Listed == [t \in Tables |-> IF t = dict THEN "on" ELSE "none"]

\* A device with both lexicons, and one that never imported a dictionary.
MCOthers == {Device(Both, Listed, text), Device(Both, NoFile, text)}
=============================================================================
