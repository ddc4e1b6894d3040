----------------------------- MODULE Shortcuts ------------------------------
(***************************************************************************)
(* Shortcuts, from the key that is pressed on the hotkeys page to the key  *)
(* that is recognised while typing.  Two programs share nothing but a text *)
(* in the settings file: the settings application writes it from the keys  *)
(* it sees (hotkey_helpers.cpp, hotkey_recorder_controls.cpp,              *)
(* hotkeys_page.cpp), the text service parses it at every key              *)
(* (shortcut_model.cpp) and compares it with the keys that are down        *)
(* (tsf_text_service.cpp).  Others write the file too: a restored backup   *)
(* replaces it.                                                            *)
(*                                                                         *)
(* A text is the sequence of what stands between its plus signs, without   *)
(* blanks and in lower case, since both programs drop the blanks and do    *)
(* not tell cases apart; backquote, commaSign and semicolonSign are those  *)
(* characters.  A, D1 and F12 stand for the letters, the digits and the    *)
(* function keys.                                                          *)
(***************************************************************************)
EXTENDS Naturals, Sequences, FiniteSets

CONSTANTS
    ToolbarSettings,    \* the order in which ToolbarShortcutCommand asks
    CandidateSettings,  \* the order in which CandidateShortcutForKey asks
    Fallback,           \* the shortcut of a setting the file does not have
    Keys,               \* the keys of the keyboard, with their sides
    LetterKeys, Edits,  \* the names of those that type text, and that edit it
    Unset,              \* the setting is not in the file
    Prompt,             \* the label asks for a key
    Foreign,            \* texts that a restored settings file has
    MaxChanges          \* bound: writes to the settings file

SettingsOf(order) == {order[i] : i \in DOMAIN order}
Settings == SettingsOf(ToolbarSettings) \cup SettingsOf(CandidateSettings)
Modifiers == {"ctrl", "shift", "alt", "win"}
Key == [name : STRING, side : {"left", "right", "any", "none"}]
NoKey == [name |-> "none", side |-> "none"]

-----------------------------------------------------------------------------
(* The tables of the two programs.  ShortcutDisplayForKey: what the        *)
(* recorder writes for a key that is no modifier.                          *)
ShortcutDisplayForKey == {
    <<"A", "a">>, <<"D1", "1">>, <<"F12", "f12">>, <<"Tab", "tab">>,
    <<"Prior", "pgup">>, <<"Next", "pgdn">>, <<"Escape", "esc">>, <<"Back", "backspace">>,
    <<"Delete", "delete">>, <<"Insert", "insert">>, <<"Home", "home">>, <<"End", "end">>,
    <<"Left", "left">>, <<"Right", "right">>, <<"Up", "up">>, <<"Down", "down">>,
    <<"Space", "space">>, <<"Return", "enter">>, <<"Period", ".">>, <<"Comma", "commaSign">>,
    <<"Minus", "-">>, <<"Plus", "=">>, <<"Oem1", "semicolonSign">>, <<"Oem2", "/">>,
    <<"Oem3", "backquote">>, <<"Oem4", "[">>, <<"Oem5", "\\">>, <<"Oem6", "]">>, <<"Oem7", "'">>}

(* NormalizeShortcutDisplay: the spellings the recorder makes one.         *)
Spellings == {
    <<"control", "ctrl">>, <<"windows", "win">>, <<"pageup", "pgup">>,
    <<"pagedown", "pgdn">>, <<"escape", "esc">>, <<"period", ".">>, <<"comma", "commaSign">>}

(* ShortcutKeyFromNormalizedToken: the keys the text service reads.        *)
ShortcutKeyFromToken == {
    <<".", "Period">>, <<"period", "Period">>, <<"commaSign", "Comma">>, <<"comma", "Comma">>,
    <<"-", "Minus">>, <<"minus", "Minus">>, <<"=", "Plus">>, <<"plus", "Plus">>,
    <<"semicolonSign", "Oem1">>, <<"semicolon", "Oem1">>, <<"/", "Oem2">>, <<"slash", "Oem2">>,
    <<"backquote", "Oem3">>, <<"grave", "Oem3">>, <<"[", "Oem4">>, <<"leftbracket", "Oem4">>,
    <<"\\", "Oem5">>, <<"backslash", "Oem5">>, <<"]", "Oem6">>, <<"rightbracket", "Oem6">>,
    <<"'", "Oem7">>, <<"quote", "Oem7">>, <<"tab", "Tab">>, <<"pgup", "Prior">>,
    <<"pageup", "Prior">>, <<"pgdn", "Next">>, <<"pagedown", "Next">>, <<"esc", "Escape">>,
    <<"escape", "Escape">>, <<"backspace", "Back">>, <<"delete", "Delete">>,
    <<"insert", "Insert">>, <<"home", "Home">>, <<"end", "End">>, <<"left", "Left">>,
    <<"right", "Right">>, <<"up", "Up">>, <<"down", "Down">>, <<"space", "Space">>,
    <<"enter", "Return">>, <<"return", "Return">>, <<"f12", "F12">>, <<"1", "D1">>, <<"a", "A">>}

ModifierTokens == {
    <<"ctrl", "ctrl">>, <<"control", "ctrl">>, <<"shift", "shift">>, <<"alt", "alt">>,
    <<"win", "win">>, <<"windows", "win">>}

Known(table) == {entry[1] : entry \in table}
Results(table) == {entry[2] : entry \in table}
Image(table, x) == (CHOOSE entry \in table : entry[1] = x)[2]

Token == Modifiers \cup Known(ModifierTokens) \cup Known(ShortcutKeyFromToken)
            \cup Results(ShortcutDisplayForKey) \cup Results(Spellings)
ShortcutText == Seq(Token)

ASSUME ShortcutAssumption ==
    /\ "inputMode" \in Settings
    /\ Fallback \in [Settings -> ShortcutText]
    /\ Keys \subseteq Key /\ NoKey \notin Keys
    /\ \A k \in Keys : k.name \in Modifiers <=> k.side # "none"
    /\ Unset \notin ShortcutText /\ Prompt \notin ShortcutText
    /\ {"application", "elsewhere"} \cap Settings = {}
    /\ MaxChanges \in Nat

-----------------------------------------------------------------------------
(* The recorder.                                                           *)

NormalizeShortcutDisplay(text) ==
    [i \in DOMAIN text |->
        IF text[i] \in Known(Spellings) THEN Image(Spellings, text[i]) ELSE text[i]]

NamesOf(keys) == {k.name : k \in keys}
IsModifier(k) == k.name \in Modifiers

(* The modifiers that are held, in the order of the page, and the key.     *)
Spelled(held, key) ==
    LET Part(m) == IF m \in held /\ m # key THEN <<m>> ELSE <<>>
    IN  Part("ctrl") \o Part("shift") \o Part("alt") \o Part("win") \o <<key>>

(* The text for key k, pressed while down is held; none for a modifier     *)
(* that is not the only one held.                                          *)
RecordedShortcutFromKey(k, down) ==
    LET held == NamesOf(down) \cap Modifiers
    IN  IF IsModifier(k)
        THEN IF Cardinality(held) = 1 THEN Spelled(held, k.name) ELSE <<>>
        ELSE IF k.name \in Known(ShortcutDisplayForKey)
        THEN Spelled(held, Image(ShortcutDisplayForKey, k.name)) ELSE <<>>

(* The texts of a recorder: nothing, a modifier, or a key with modifiers.  *)
(* The shortcuts that come with the program are of these.                  *)
Recordable ==
    {<<>>} \cup {<<m>> : m \in Modifiers}
           \cup {Spelled(held, word) : held \in SUBSET Modifiers,
                                       word \in Results(ShortcutDisplayForKey)}

\* A restored file is of the same program, on another device.
ASSUME FallbackAssumption ==
    /\ \A s \in Settings : Fallback[s] \in Recordable
    /\ Foreign \subseteq Recordable

(* Left and right are one key here, and so the name is all of a pending key. *)
ShortcutModifierKeyEquals(expected, k) == expected = k.name

-----------------------------------------------------------------------------
(* The parser and the comparison of the text service.                      *)

(* ParseShortcutChord: which modifiers must be down, and the key.  A text  *)
(* of one modifier is the shortcut of that modifier itself; the last key   *)
(* counts; a word that is not known makes the whole text invalid.          *)
ParseShortcutChord(text) ==
    LET words == {text[i] : i \in DOMAIN text}
        mods == {Image(ModifierTokens, w) : w \in words \cap Known(ModifierTokens)}
        places == {i \in DOMAIN text : text[i] \notin Known(ModifierTokens)}
        key == IF ~(words \subseteq Known(ModifierTokens) \cup Known(ShortcutKeyFromToken))
               THEN NoKey
               ELSE IF places # {}
               THEN [name |-> Image(ShortcutKeyFromToken,
                                text[CHOOSE i \in places : \A j \in places : j <= i]),
                     side |-> "none"]
               ELSE IF Cardinality(mods) = 1
               THEN [name |-> CHOOSE m \in Modifiers : mods = {m}, side |-> "any"]
               ELSE NoKey
    IN  [valid |-> key # NoKey, mods |-> mods, key |-> key]

ShortcutKeyEquals(expected, actual) ==
    \/ expected = actual
    \/ /\ expected.name = actual.name
       /\ expected.side = "any" \/ expected.name = "win"

\* Mutant: a chord also matches with further modifiers down.
ShortcutMatchesMore(text, k, down) ==
    LET chord == ParseShortcutChord(text) IN
    /\ chord.valid
    /\ ShortcutKeyEquals(chord.key, k)
    /\ chord.mods \subseteq NamesOf(down)

ShortcutMatches(text, k, down) ==
    LET chord == ParseShortcutChord(text) IN
    /\ chord.valid
    /\ ShortcutKeyEquals(chord.key, k)
    /\ chord.mods = NamesOf(down)

-----------------------------------------------------------------------------
VARIABLES
    file,       \* file[s]: the text the settings file has for s
    lines,      \* lines[s]: the text that lines_ has, in the settings application's store
    focus,      \* whose window gets the keys: a recorder, "application", "elsewhere"
    down,       \* the modifier keys that are held
    pending,    \* pending[s]: pending_modifier_key of a recorder
    label,      \* label[s]: the text a recorder shows
    tip,        \* tip[s]: what its tooltip says of that text
    failed,     \* history: the settings whose recorder shows a change that was not saved
    behind,     \* history: those that another program changed since they were shown
    armed,      \* input_mode_shortcut_key_, while input_mode_shortcut_down_
    others,     \* history: another key was handled since armed was set
    ascii, composing,  \* ascii_mode_, IsComposing() of the text service
    changes     \* writes so far (bounded)

recorderVars == <<pending, label, tip>>
serviceVars == <<armed, others, ascii, composing>>
storeVars == <<file, lines, failed, changes>>
shortcutsVars == <<storeVars, behind, focus, down, recorderVars, serviceVars>>

Stored(f, s, default) == IF f[s] = Unset THEN default ELSE f[s]
InForce(f, s) == Stored(f, s, Fallback[s])

\* Mutant: the tooltip compares with what the file has, not with the fallback.
ConflictAmongStored(f, s, text) ==
    IF NormalizeShortcutDisplay(text) = <<>> THEN "cleared"
    ELSE IF \E t \in Settings \ {s} :
                NormalizeShortcutDisplay(Stored(f, t, <<>>)) = NormalizeShortcutDisplay(text)
         THEN "conflict" ELSE "free"

ShortcutConflictTooltip(f, s, text) ==
    IF NormalizeShortcutDisplay(text) = <<>> THEN "cleared"
    ELSE IF \E t \in Settings \ {s} :
                NormalizeShortcutDisplay(InForce(f, t)) = NormalizeShortcutDisplay(text)
         THEN "conflict" ELSE "free"

ShortcutsTypeOK ==
    /\ file \in [Settings -> ShortcutText \cup {Unset}]
    /\ focus \in Settings \cup {"application", "elsewhere"}
    /\ down \subseteq {k \in Keys : IsModifier(k)}
    /\ pending \in [Settings -> Modifiers \cup {"none"}]
    /\ label \in [Settings -> ShortcutText \cup {Prompt}]
    /\ tip \in [Settings -> {"cleared", "conflict", "free"}]
    /\ lines \in [Settings -> ShortcutText \cup {Unset}]
    /\ failed \subseteq Settings /\ behind \subseteq Settings
    /\ armed \in Key \cup {NoKey}
    /\ others \in BOOLEAN /\ ascii \in BOOLEAN /\ composing \in BOOLEAN
    /\ changes \in 0..MaxChanges

(* BuildHotkeysPage over a settings file that has none of the shortcuts,   *)
(* or, after ResetDefaultSettings, all of them.                            *)
ShortcutsInit ==
    /\ \/ file = [s \in Settings |-> Unset]
       \/ file = Fallback
    /\ lines = file
    /\ focus = "elsewhere"
    /\ down = {}
    /\ pending = [s \in Settings |-> "none"]
    /\ label = [s \in Settings |-> NormalizeShortcutDisplay(Fallback[s])]
    /\ tip = [s \in Settings |-> ShortcutConflictTooltip(file, s, Fallback[s])]
    /\ failed = {} /\ behind = {}
    /\ armed = NoKey
    /\ others = FALSE /\ ascii = FALSE /\ composing = FALSE
    /\ changes = 0

-----------------------------------------------------------------------------
(* The keyboard.  The window that gets a key learns its code, which need   *)
(* not tell left from right.                                               *)

Codes(k) ==
    IF IsModifier(k) /\ k.name # "win" THEN {k, [name |-> k.name, side |-> "any"]} ELSE {k}

Held(k) == IF IsModifier(k) THEN down \cup {k} ELSE down

-----------------------------------------------------------------------------
(* The hotkeys page of the settings application.                           *)

(* What the application reads: of lines_ what its index has, which is what *)
(* the file had when it was read or written last.                          *)
Seen == [s \in Settings |-> IF file[s] = Unset THEN Unset ELSE lines[s]]

ShowsAfter(f, s, text) ==
    /\ label' = [label EXCEPT ![s] = NormalizeShortcutDisplay(text)]
    /\ tip' = [tip EXCEPT ![s] = ShortcutConflictTooltip(f, s, text)]
    /\ behind' = behind \ {s}

(* apply_text, SetHotkeyRecorderDisplay: called when the write is done.    *)
ApplyText(s, text) == ShowsAfter(Seen', s, text)

(* SettingsStore::WriteStrings.  All lines are written; of a write that    *)
(* fails the text stays in lines_, unless the file was not even locked.    *)
StoreWrites(s, text) ==
    \/ /\ lines' = [lines EXCEPT ![s] = text]
       /\ file' = lines'
       /\ failed' = failed \ {s}
    \/ /\ lines' \in {lines, [lines EXCEPT ![s] = text]}
       /\ file' = file
       /\ failed' = failed \cup {s}

(* WriteSettingLine: nothing is written when the application reads the     *)
(* value already; it takes a missing setting for an empty one.             *)
WriteStringSetting(s, text) ==
    \/ /\ Stored(Seen, s, <<>>) # text
       /\ changes < MaxChanges
       /\ changes' = changes + 1
       /\ StoreWrites(s, text)
    \/ Stored(Seen, s, <<>>) = text /\ UNCHANGED storeVars

(* Another setting is changed in the settings application.                 *)
WriteOtherSetting ==
    /\ changes < MaxChanges
    /\ changes' = changes + 1
    /\ file' = lines
    /\ UNCHANGED <<lines, failed, behind, focus, down, recorderVars, serviceVars>>

(* Another program writes: the file is replaced by a restored one, or has  *)
(* other shortcuts no more than before.  The application reads it again    *)
(* when it needs a setting, and forgets what it could not save.  The page  *)
(* is not built again.                                                     *)
OtherWrites ==
    /\ changes < MaxChanges
    /\ changes' = changes + 1
    /\ file' \in [Settings -> Foreign \cup {Unset}] \cup {file}
    /\ lines' = file'
    /\ behind' = behind \cup {s \in Settings : file'[s] # file[s]}
    /\ UNCHANGED <<failed, focus, down, recorderVars, serviceVars>>

Unwritten == UNCHANGED storeVars
ForgetPending(s) == pending' = [pending EXCEPT ![s] = "none"]

\* Mutant: the label is not read again when the focus leaves.
MoveFocusKeepsLabel(to) ==
    /\ focus # to
    /\ focus' = to
    /\ IF to \in Settings THEN label' = [label EXCEPT ![to] = Prompt] ELSE label' = label
    /\ failed' = {s \in failed : s = focus => lines[s] # file[s]}
    /\ behind' = behind \ {focus}
    /\ composing' = (composing /\ focus # "application")
    /\ UNCHANGED <<file, lines, changes, down, pending, tip, armed, others, ascii>>

(* LostFocus shows what the application reads, GotFocus asks for a key.    *)
(* The text service ends the composition with the focus (OnSetFocus).      *)
MoveFocus(to) ==
    /\ focus # to
    /\ focus' = to
    /\ label' = [s \in Settings |->
                    IF s = to THEN Prompt
                    ELSE IF s = focus THEN NormalizeShortcutDisplay(InForce(Seen, s))
                    ELSE label[s]]
    /\ tip' = [s \in Settings |->
                    IF s = focus THEN ShortcutConflictTooltip(Seen, s, InForce(Seen, s))
                    ELSE tip[s]]
    /\ failed' = {s \in failed : s = focus => lines[s] # file[s]}
    /\ behind' = behind \ {focus}
    /\ composing' = (composing /\ focus # "application")
    /\ UNCHANGED <<file, lines, changes, down, pending, armed, others, ascii>>

(* PreviewKeyDown: Escape shows the setting again, a modifier waits for    *)
(* its release or for a key, a key is written down with the modifiers.     *)
RecorderKeyDown(s, k) ==
    LET text == RecordedShortcutFromKey(k, Held(k)) IN
    /\ focus = s
    /\ down' = Held(k)
    /\ \/ /\ k.name = "Escape" /\ Unwritten /\ ForgetPending(s)
          /\ ApplyText(s, Stored(Seen, s, <<>>))
       \/ /\ IsModifier(k) /\ Unwritten /\ UNCHANGED <<tip, behind>>
          /\ pending' = [pending EXCEPT ![s] = IF text = <<>> THEN "none" ELSE k.name]
          /\ label' = [label EXCEPT ![s] = IF text = <<>> THEN @ ELSE Prompt]
       \/ /\ k.name # "Escape" /\ ~IsModifier(k) /\ ForgetPending(s)
          /\ IF text = <<>> THEN Unwritten /\ UNCHANGED <<label, tip, behind>>
             ELSE WriteStringSetting(s, text) /\ ApplyText(s, text)
    /\ UNCHANGED <<focus, serviceVars>>

(* PreviewKeyUp: the modifier that was pressed last, released with no key  *)
(* in between, is the shortcut.                                            *)
RecorderKeyUp(s, k) ==
    /\ focus = s /\ k \in down
    /\ down' = down \ {k}
    /\ \/ /\ ShortcutModifierKeyEquals(pending[s], k)
          /\ ForgetPending(s)
          /\ WriteStringSetting(s, <<k.name>>)
          /\ ApplyText(s, <<k.name>>)
       \/ /\ ~ShortcutModifierKeyEquals(pending[s], k)
          /\ Unwritten
          /\ UNCHANGED <<recorderVars, behind>>
    /\ UNCHANGED <<focus, serviceVars>>

(* The buttons next to the recorder show the text they wrote.              *)
ButtonWrites(s, text) ==
    /\ focus # "application"
    /\ WriteStringSetting(s, text)
    /\ ApplyText(s, text)
    /\ UNCHANGED <<focus, down, pending, serviceVars>>

Clear(s) == ButtonWrites(s, <<>>)
Reset(s) == ButtonWrites(s, Fallback[s])

-----------------------------------------------------------------------------
(* The key sink of the text service, in the application with the focus.    *)

FirstMatch(order, k, held) ==
    LET matching == {i \in DOMAIN order : ShortcutMatches(InForce(file, order[i]), k, held)}
    IN  IF matching = {} THEN "none"
        ELSE order[CHOOSE i \in matching : \A j \in matching : i <= j]

ToolbarShortcutCommand(k, held) == FirstMatch(ToolbarSettings, k, held)
CandidateShortcutForKey(k, held) == FirstMatch(CandidateSettings, k, held)

IsModifierShortcutActive(held) == NamesOf(held) \cap {"ctrl", "alt", "win"} # {}

(* IsKeyHandled.  What depends on CapsLock and on the punctuation mode is  *)
(* either answer.                                                          *)
IsKeyHandled(k, held) ==
    IF ToolbarShortcutCommand(k, held) # "none" THEN {TRUE}
    ELSE IF k.name = "shift" \/ k.name = "Capital" THEN {FALSE}
    ELSE IF composing /\ CandidateShortcutForKey(k, held) # "none" THEN {TRUE}
    ELSE IF IsModifierShortcutActive(held) THEN {FALSE}
    ELSE IF composing /\ k.name \in Edits THEN {TRUE}
    ELSE IF ascii THEN {FALSE}
    ELSE IF k.name \in LetterKeys THEN {TRUE, composing}
    ELSE {FALSE}

(* ToggleAsciiModeFromKey: what is being composed is committed first, and  *)
(* nothing happens when that fails.                                        *)
ToggleAsciiModeFromKey ==
    \/ ascii' = ~ascii /\ composing' = FALSE
    \/ composing /\ UNCHANGED ascii /\ composing' \in BOOLEAN

Disarm == armed' = NoKey

\* Mutant: a key that is no shortcut leaves the modifier armed.
HandleKeyKeepsArmed(k, code, held) ==
    LET command == ToolbarShortcutCommand(code, held) IN
    \/ /\ command = "inputMode" /\ IsModifier(k)
       /\ armed' = code
       /\ UNCHANGED <<ascii, composing>>
    \/ /\ command = "inputMode" /\ ~IsModifier(k)
       /\ Disarm /\ ToggleAsciiModeFromKey
    \/ /\ command \notin {"inputMode", "none"}
       /\ Disarm /\ UNCHANGED <<ascii, composing>>
    \/ /\ command = "none"
       /\ UNCHANGED <<armed, ascii>>
       /\ composing' \in BOOLEAN

(* HandleKey: a modifier that is the shortcut of the input mode waits for  *)
(* its release, any other key disarms it.                                  *)
HandleKey(k, code, held) ==
    LET command == ToolbarShortcutCommand(code, held) IN
    \/ /\ command = "inputMode" /\ IsModifier(k)
       /\ armed' = code
       /\ UNCHANGED <<ascii, composing>>
    \/ /\ command = "inputMode" /\ ~IsModifier(k)
       /\ Disarm /\ ToggleAsciiModeFromKey
    \/ /\ command \notin {"inputMode", "none"}
       /\ Disarm /\ UNCHANGED <<ascii, composing>>
    \/ /\ command = "none"
       /\ IF armed # NoKey /\ ~ShortcutKeyEquals(armed, code)
          THEN Disarm ELSE UNCHANGED armed
       /\ UNCHANGED ascii
       /\ composing' \in BOOLEAN

(* Which keys were handled since a modifier began to wait for its release: *)
(* whatever HandleKey then does, a key that is neither this modifier nor   *)
(* one that begins to wait itself is another key.                          *)
Remembers(k, code, held) ==
    others' = /\ ~(ToolbarShortcutCommand(code, held) = "inputMode" /\ IsModifier(k))
              /\ others \/ (armed # NoKey /\ ~ShortcutKeyEquals(armed, code))

(* OnTestKeyDown, and OnKeyDown when its answer was that the key is eaten. *)
OnKeyDown(k) ==
    /\ focus = "application"
    /\ down' = Held(k)
    /\ \E code \in Codes(k) : \E eaten \in IsKeyHandled(code, Held(k)) :
          IF eaten THEN HandleKey(k, code, Held(k)) /\ Remembers(k, code, Held(k))
                   ELSE UNCHANGED serviceVars
    /\ UNCHANGED <<focus, recorderVars, behind>> /\ Unwritten

(* OnTestKeyUp and OnKeyUp.                                                *)
OnKeyUp(k) ==
    /\ focus = "application"
    /\ IsModifier(k) => k \in down
    /\ down' = down \ {k}
    /\ \E code \in Codes(k) :
          \/ /\ armed # NoKey /\ ShortcutKeyEquals(armed, code)
             /\ Disarm /\ UNCHANGED others /\ ToggleAsciiModeFromKey
          \/ /\ k.name = "Capital"
             /\ Disarm /\ UNCHANGED <<others, ascii, composing>>
          \/ /\ k.name # "Capital"
             /\ armed = NoKey \/ ~ShortcutKeyEquals(armed, code)
             /\ UNCHANGED serviceVars
    /\ UNCHANGED <<focus, recorderVars, behind>> /\ Unwritten

(* Keys that neither program sees.                                         *)
Elsewhere(k) ==
    /\ focus = "elsewhere" /\ IsModifier(k)
    /\ down' = IF k \in down THEN down \ {k} ELSE down \cup {k}
    /\ UNCHANGED <<focus, recorderVars, behind, serviceVars>> /\ Unwritten

ShortcutsNext ==
    \/ \E to \in Settings \cup {"application", "elsewhere"} : MoveFocus(to)
    \/ \E s \in Settings :
          \/ Clear(s) \/ Reset(s)
          \/ \E k \in Keys : RecorderKeyDown(s, k) \/ RecorderKeyUp(s, k)
    \/ \E k \in Keys : OnKeyDown(k) \/ OnKeyUp(k) \/ Elsewhere(k)
    \/ WriteOtherSetting \/ OtherWrites

ShortcutsSpec == ShortcutsInit /\ [][ShortcutsNext]_shortcutsVars

-----------------------------------------------------------------------------
(* What a recorder writes is what the text service recognises from the     *)
(* keys that were held, and with no other modifiers: the two programs'     *)
(* tables, written apart, agree.  A modifier alone is written when it is   *)
(* released, whatever else is held then.  What the store takes is what it  *)
(* saves, at once or with a later write.                                   *)
RecognisedOnly(text, k, held) ==
    \A other \in SUBSET {m \in Keys : IsModifier(m)} :
        ShortcutMatches(text, k, other) <=> NamesOf(other) = NamesOf(held)

RecordedIsRecognised ==
    [][\A s \in Settings :
          lines'[s] \notin {lines[s], <<>>, Fallback[s]} /\ ~OtherWrites =>
              \E k \in Keys :
                  \/ RecognisedOnly(lines'[s], k, down)
                  \/ k \in down \ down' /\ RecognisedOnly(lines'[s], k, {k})]_lines

(* Two shortcuts that one key press would match are not a surprise: of two *)
(* recorders that show what is in force, at least one has told the user of *)
(* the conflict, although a tooltip is only computed when its own setting  *)
(* is shown.  The recorders may show it by chance: not counted are those   *)
(* whose last change was not saved at once, and those whose setting has    *)
(* been changed by another program since.                                  *)
AtRest(s) ==
    /\ focus # s
    /\ label[s] = NormalizeShortcutDisplay(InForce(file, s))
UpToDate(s) == s \notin failed \cup behind

SameChord(s, t) ==
    LET one == ParseShortcutChord(InForce(file, s))
        other == ParseShortcutChord(InForce(file, t))
    IN  one.valid /\ one = other

ConflictTold ==
    \A s, t \in Settings :
        s # t /\ AtRest(s) /\ AtRest(t) /\ UpToDate(s) /\ UpToDate(t) /\ SameChord(s, t)
            => tip[s] = "conflict" \/ tip[t] = "conflict"

(* A recorder without the focus shows the shortcut in force, with three    *)
(* exceptions: its last change was not saved (and what the store kept of   *)
(* it is shown ever since), another program has changed the setting, or    *)
(* the setting was never written and has been cleared, which leaves the    *)
(* file alone.  In particular no other recorder's change, saved or not,    *)
(* makes a label wrong.                                                    *)
LabelsHonest ==
    \A s \in Settings :
        focus # s /\ UpToDate(s) => AtRest(s) \/ (file[s] = Unset /\ label[s] = <<>>)

(* Releasing a modifier switches between Chinese and English only when no  *)
(* other key was handled since it was pressed: Shift+. changes the shape   *)
(* and not the mode as well.                                               *)
ModifierAlone == armed # NoKey => ~others
=============================================================================
