------------------------------ MODULE InputMode ------------------------------
(***************************************************************************)
(* Chinese or English, simplified or traditional, full or half shape, the  *)
(* punctuation and the floating toolbar, in every application that has the *)
(* text service loaded (tsf/tsf_text_service.cpp, tsf/input_mode_state.cpp *)
(* and the settings window).                                               *)
(*                                                                         *)
(* Each application keeps a copy of the state, settings.ini keeps another, *)
(* and messages posted to all windows tell the applications to read it     *)
(* again.  A handler reads and writes the file key by key while the        *)
(* handlers of the other applications do the same: todo[s] is what the     *)
(* handler that runs on the user interface thread of s still has to do.    *)
(*                                                                         *)
(* Left out: the composition (module TextService), what the toolbar looks  *)
(* like, and keyboard profiles: Deactivate is called when another profile  *)
(* is chosen, so ShouldHostToolbarWindow is service_active_.               *)
(***************************************************************************)
EXTENDS Naturals, Sequences, FiniteSets

CONSTANTS Services,    \* the text services, one in every application
          Options,     \* the defaults written after the mode, in this order
          QueueLimit,  \* posted messages a thread keeps (10 000 in Windows)
          First,       \* the service that has the focus at first
          MaxChoices,  \* bound for TLC: what the user does and what fails
          None

Toggles == {"mode"} \cup {Options[i] : i \in 1..Len(Options)}
Keys == Toggles \cup {"toolbar"}

ASSUME ModeAssumption == /\ Options \in Seq(STRING)
                         /\ "toolbar" \notin Toggles
                         /\ QueueLimit \in Nat \ {0} /\ MaxChoices \in Nat
                         /\ First \in Services /\ None \notin Services

VARIABLES file,     \* settings.ini: "mode" is TRUE for English
          memory,   \* memory[s]: ascii_mode_, ..., toolbar_visible_ of s
          owned,    \* owned[s]: caps_lock_ascii_mode_, CapsLock made it English
          before,   \* before[s]: memory[s] when the handler of s read "toolbar"
          todo,     \* todo[s]: the rest of the handler that s runs
          inbox,    \* inbox[s]: messages posted to the control window of s
          active,   \* the services with service_active_ and a control window
          fresh,    \* the services that have not loaded the settings yet
          focus,    \* the service with the keyboard focus
          windows,  \* the services that show a toolbar window
          owner,    \* who holds the mutex of the toolbar window
          caps,     \* CapsLock: its light, and whether the key is down
          posting,  \* what the settings window still has to post
          choices,  \* the actions of the user and the failed writes so far
          cut       \* history: a service crashed in the middle of a handler

vars == <<file, memory, owned, before, todo, inbox, active, fresh, focus, windows,
        owner, caps, posting, choices, cut>>
own == <<memory, owned>>
toolbar == <<windows, owner>>
outside == <<active, fresh, focus, caps, posting, cut>>

Messages == {"input", "refresh"}
Tasks == ({"read", "write"} \X Keys) \cup ({"post"} \X Messages)
           \cup ({"window"} \X {"load", "settle", "arrive", "show", "hide"})
           \cup {<<"compare", "input">>}

Defaults == [k \in Keys |-> FALSE]

Init == /\ \E shown \in BOOLEAN : file = [Defaults EXCEPT !["toolbar"] = shown]
        /\ active \in {A \in SUBSET Services : First \in A}
        /\ owner \in IF file["toolbar"] THEN active ELSE {None}
        /\ windows = {owner} \ {None}
        /\ memory = [s \in Services |-> IF s \in active THEN file ELSE Defaults]
        /\ owned = [s \in Services |-> FALSE]
        /\ before = [s \in Services |-> Defaults]
        /\ todo = [s \in Services |-> <<>>]
        /\ inbox = [s \in Services |-> <<>>]
        /\ fresh = Services \ active
        /\ focus = First
        /\ caps = [on |-> FALSE, down |-> FALSE]
        /\ posting = <<>>
        /\ choices = 0
        /\ cut = FALSE

-----------------------------------------------------------------------------
(* What the handlers are made of.                                          *)

\* PostMessageW(HWND_BROADCAST): to every control window, that of the sender
\* included; a full queue loses the message.
Post(m) == inbox' = [s \in Services |->
                       IF s \in active /\ Len(inbox[s]) < QueueLimit
                         THEN Append(inbox[s], m) ELSE inbox[s]]

All(op, keys) == [i \in 1..Len(keys) |-> <<op, keys[i]>>]
\* ApplyInputStateFromSettings and PersistInputModeDefaults.
ApplyInputState == <<<<"read", "mode">>>> \o All("read", Options)
PersistInputModeDefaults == <<<<"write", "mode">>>> \o All("write", Options)
SaveToolbarSetting == <<<<"write", "toolbar">>>>
LoadUserSettings == <<<<"read", "toolbar">>>> \o SaveToolbarSetting \o <<<<"window", "load">>>>

RefreshToolbarFromSettings ==
  <<<<"read", "toolbar">>>> \o ApplyInputState \o SaveToolbarSetting
    \o <<<<"window", "settle">>>>
RefreshInputStateFromSettings ==
  LoadUserSettings \o ApplyInputState \o <<<<"compare", "input">>>>

\* ShowStatusTip loads the settings when they were not loaded lately.
Tip(due) == IF due THEN LoadUserSettings ELSE <<>>

\* Mutant: the others are told before the file is written.
PersistedTooLate(due) == <<<<"post", "refresh">>>> \o PersistInputModeDefaults \o Tip(due)

\* The end of every change of the mode or of a default.
Persisted(due) == PersistInputModeDefaults \o <<<<"post", "refresh">>>> \o Tip(due)

ShowToolbarWindow(s) ==
  IF s \in active /\ owner \in {None, s}
    THEN windows' = windows \cup {s} /\ owner' = s
    ELSE UNCHANGED toolbar

\* The broadcast that would let another service show the toolbar asks for
\* toolbar_visible_ and service_active_, which no caller leaves TRUE.
DestroyToolbarWindow(s) ==
  /\ windows' = windows \ {s}
  /\ owner' = IF owner = s THEN None ELSE owner

Idle(s) == todo[s] = <<>>
Begin(s, tasks) == todo' = [todo EXCEPT ![s] = tasks]
Chooses == choices < MaxChoices /\ choices' = choices + 1
Remember(s, k, v) == memory' = [memory EXCEPT ![s][k] = v]

-----------------------------------------------------------------------------
(* The rest of a handler, one access to the file or one broadcast a step.  *)

\* A key is read; reading the mode also forgets that CapsLock made it.
Read(s, k) ==
  /\ Remember(s, k, file[k])
  /\ owned' = [owned EXCEPT ![s] = @ /\ k # "mode"]
  /\ UNCHANGED <<file, inbox, toolbar>>

\* A key is written, unless the lock of the file is not got in time.
Write(s, k) ==
  /\ \/ file' = [file EXCEPT ![k] = memory[s][k]] /\ UNCHANGED choices
     \/ Chooses /\ UNCHANGED file
  /\ UNCHANGED <<own, inbox, toolbar>>

\* The end of LoadUserSettings.
Loaded(s) ==
  /\ IF memory[s]["toolbar"] # before[s]["toolbar"] THEN Post("refresh") ELSE UNCHANGED inbox
  /\ IF ~memory[s]["toolbar"] THEN DestroyToolbarWindow(s)
     ELSE IF before[s]["toolbar"] THEN UNCHANGED toolbar ELSE ShowToolbarWindow(s)

\* The end of RefreshToolbarFromSettings.
Settle(s) ==
  /\ IF memory[s]["toolbar"] THEN ShowToolbarWindow(s) ELSE DestroyToolbarWindow(s)
  /\ UNCHANGED inbox

\* The end of OnSetFocus.
Arrive(s) ==
  IF memory[s]["toolbar"] THEN Post("refresh") /\ ShowToolbarWindow(s)
                          ELSE UNCHANGED <<inbox, toolbar>>

Windows(s, what) ==
  /\ \/ what = "load" /\ Loaded(s)
     \/ what = "settle" /\ Settle(s)
     \/ what = "arrive" /\ Arrive(s)
     \/ what = "show" /\ ShowToolbarWindow(s) /\ UNCHANGED inbox
     \/ what = "hide" /\ DestroyToolbarWindow(s) /\ UNCHANGED inbox
  /\ UNCHANGED <<file, own>>

\* Mutant: the refresh of the input state asks for itself.
CompareAlways(s) == Post("input") /\ UNCHANGED <<file, own, toolbar>>

\* The end of RefreshInputStateFromSettings.
Compare(s) ==
  /\ IF \E k \in Toggles : memory[s][k] # before[s][k] THEN Post("refresh") ELSE UNCHANGED inbox
  /\ UNCHANGED <<file, own, toolbar>>

Step(s) ==
  /\ ~Idle(s)
  /\ LET op == Head(todo[s])[1]
         what == Head(todo[s])[2]
     IN \/ op = "write" /\ Write(s, what)
        \/ /\ \/ op = "read" /\ Read(s, what)
              \/ op = "post" /\ Post(what) /\ UNCHANGED <<file, own, toolbar>>
              \/ op = "window" /\ Windows(s, what)
              \/ op = "compare" /\ Compare(s)
           /\ UNCHANGED choices
  /\ before' = [before EXCEPT ![s] = IF Len(todo[s]) = 1 THEN Defaults
                                     ELSE IF Head(todo[s]) = <<"read", "toolbar">>
                                     THEN memory[s] ELSE @]
  /\ Begin(s, Tail(todo[s]))
  /\ UNCHANGED outside

-----------------------------------------------------------------------------
(* Messages, keys and clicks.                                              *)

\* ControlWindowProc.
Handle(s) ==
  /\ Idle(s) /\ inbox[s] # <<>>
  /\ \/ Head(inbox[s]) = "refresh" /\ Begin(s, RefreshToolbarFromSettings)
     \/ Head(inbox[s]) = "input" /\ Begin(s, RefreshInputStateFromSettings)
  /\ inbox' = [inbox EXCEPT ![s] = Tail(@)]
  /\ UNCHANGED <<file, own, before, toolbar, outside, choices>>

\* Mutant: the timer only keeps the window on top.
WatchTimerBlind(s) ==
  /\ s \in windows /\ Idle(s) /\ UNCHANGED vars

\* The timer of the toolbar window, every 600 ms.
WatchTimer(s) ==
  /\ s \in windows /\ Idle(s)
  /\ Remember(s, "toolbar", file["toolbar"])
  /\ IF file["toolbar"] THEN UNCHANGED toolbar ELSE DestroyToolbarWindow(s)
  /\ UNCHANGED <<file, owned, before, todo, inbox, outside, choices>>

\* ResolveToggleAsciiTransition, which is always asked for CapsLock = false.
Toggled(s) ==
  /\ Remember(s, "mode", ~memory[s]["mode"])
  /\ owned' = [owned EXCEPT ![s] = FALSE]

\* Shift or the button of the language bar in the service with the focus, the
\* toolbar in the service that shows it.
ToggleAsciiMode(s) ==
  /\ Chooses /\ Idle(s) /\ s \in windows \cup {focus}
  /\ Toggled(s)
  /\ \E due \in BOOLEAN : Begin(s, Persisted(due))
  /\ UNCHANGED <<file, before, inbox, toolbar, active, fresh, focus, caps, posting, cut>>

\* A command of the menu or the toolbar for a default other than the mode.
HandleLangBarMenuCommand(s) ==
  /\ Chooses /\ Idle(s) /\ s \in windows \cup {focus}
  /\ \E k \in Toggles \ {"mode"} : Remember(s, k, ~memory[s][k])
  /\ \E due \in BOOLEAN : Begin(s, Persisted(due))
  /\ UNCHANGED <<file, owned, before, inbox, toolbar, outside>>

CapsLockDown ==
  /\ Chooses /\ ~caps.down
  /\ caps' = [on |-> ~caps.on, down |-> TRUE]
  /\ UNCHANGED <<file, own, before, todo, inbox, toolbar, active, fresh, focus, posting, cut>>

\* ResolveCapsLockTransition: <<mode, owned>>.
ResolveCapsLockTransition(mode, isOwned, on) ==
  IF on THEN <<TRUE, TRUE>> ELSE <<mode /\ ~isOwned, FALSE>>

\* The key goes up: SyncCapsLockAsciiMode of the service with the focus.
CapsLockUp ==
  /\ caps.down
  /\ caps' = [caps EXCEPT !.down = FALSE]
  /\ \/ focus = None /\ UNCHANGED <<memory, owned, todo>>
     \/ /\ focus # None /\ Idle(focus)
        /\ LET old == <<memory[focus]["mode"], owned[focus]>>
               new == ResolveCapsLockTransition(old[1], old[2], caps.on)
           IN IF new = old THEN UNCHANGED <<memory, owned, todo>>
              ELSE /\ Remember(focus, "mode", new[1])
                   /\ owned' = [owned EXCEPT ![focus] = new[2]]
                   /\ \E due \in BOOLEAN : Begin(focus, Persisted(due))
  /\ UNCHANGED <<file, before, inbox, toolbar, active, fresh, focus, posting, choices, cut>>

\* The menu item of the toolbar: the setting is read, not the copy.
ToggleToolbarWindow(s) ==
  /\ Chooses /\ Idle(s) /\ s \in windows \cup {focus}
  /\ Remember(s, "toolbar", ~file["toolbar"])
  /\ Begin(s, SaveToolbarSetting \o <<<<"post", "input">>,
                <<"window", IF file["toolbar"] THEN "hide" ELSE "show">>>>)
  /\ UNCHANGED <<file, owned, before, inbox, toolbar, outside>>

\* "Hide" in the menu of the toolbar itself.
HideToolbar(s) ==
  /\ Chooses /\ Idle(s) /\ s \in windows
  /\ Remember(s, "toolbar", FALSE)
  /\ Begin(s, SaveToolbarSetting \o <<<<"post", "input">>, <<"window", "hide">>,
                                      <<"post", "refresh">>>>)
  /\ UNCHANGED <<file, owned, before, inbox, toolbar, outside>>

\* OnSetFocus, for the service that gets the focus and the one that loses it.
OnSetFocus(s) ==
  /\ Chooses /\ Idle(s) /\ s \in active \ {focus}
  /\ focus' = s
  /\ \E due \in BOOLEAN :
       Begin(s, ApplyInputState \o <<<<"window", "arrive">>>> \o Tip(due))
  /\ UNCHANGED <<file, own, before, inbox, toolbar, active, fresh, caps, posting, cut>>

\* Activate: the control window first, then the settings.
Activate(s) ==
  /\ Chooses /\ s \notin active
  /\ active' = active \cup {s}
  /\ fresh' = fresh \ {s}
  /\ \E due \in BOOLEAN : /\ s \in fresh => due
                          /\ Begin(s, Tip(due) \o ApplyInputState)
  /\ UNCHANGED <<file, own, before, inbox, toolbar, focus, caps, posting, cut>>

\* The keyboard goes to an application without the service.
LoseFocus ==
  /\ Chooses /\ focus # None /\ focus' = None
  /\ UNCHANGED <<file, own, before, todo, inbox, toolbar, active, fresh, caps, posting, cut>>

\* The application ends or crashes: the system gives the mutex back.
Leave(s) ==
  /\ active' = active \ {s}
  /\ focus' = IF focus = s THEN None ELSE focus
  /\ DestroyToolbarWindow(s)
  /\ inbox' = [inbox EXCEPT ![s] = <<>>]
  /\ Begin(s, <<>>)
  /\ UNCHANGED <<file, caps, posting>>

\* Deactivate keeps the object and what it remembers.
Deactivate(s) == /\ Chooses /\ s \in active /\ Idle(s)
                 /\ Leave(s)
                 /\ UNCHANGED <<own, before, fresh, cut>>

\* A crash, also in the middle of a handler; the next start is a new object.
Crash(s) ==
  /\ Chooses /\ s \in active /\ Leave(s)
  /\ memory' = [memory EXCEPT ![s] = Defaults]
  /\ owned' = [owned EXCEPT ![s] = FALSE]
  /\ before' = [before EXCEPT ![s] = Defaults]
  /\ fresh' = fresh \cup {s}
  /\ cut' = (cut \/ ~Idle(s))

\* A choice in the settings window, and the messages it posts afterwards.
SettingsChange(k) ==
  /\ Chooses /\ posting = <<>>
  /\ file' = [file EXCEPT ![k] = ~@]
  /\ posting' = IF k = "toolbar" THEN <<"input">> ELSE <<"input", "refresh">>
  /\ UNCHANGED <<own, before, todo, inbox, toolbar, active, fresh, focus, caps, cut>>

SettingsPost ==
  /\ posting # <<>>
  /\ Post(Head(posting))
  /\ posting' = Tail(posting)
  /\ UNCHANGED <<file, own, before, todo, toolbar, active, fresh, focus, caps, choices, cut>>

\* WM_SETTINGCHANGE and the theme messages are handled like "input".
SystemChange ==
  /\ Chooses /\ Post("input")
  /\ UNCHANGED <<file, own, before, todo, toolbar, outside>>

Next == \/ \E s \in Services :
             \/ Step(s) \/ Handle(s) \/ WatchTimer(s) \/ ToggleAsciiMode(s)
             \/ HandleLangBarMenuCommand(s) \/ ToggleToolbarWindow(s) \/ HideToolbar(s)
             \/ OnSetFocus(s) \/ Activate(s) \/ Deactivate(s) \/ Crash(s)
        \/ CapsLockDown \/ CapsLockUp \/ LoseFocus \/ SettingsPost \/ SystemChange
        \/ \E k \in Keys : SettingsChange(k)

\* Message loops run on, timers fire, the settings window posts.
Fairness == /\ \A s \in Services : WF_vars(Step(s) \/ Handle(s)) /\ WF_vars(WatchTimer(s))
            /\ WF_vars(SettingsPost)

Spec == Init /\ [][Next]_vars
FairSpec == Spec /\ Fairness

-----------------------------------------------------------------------------
(* Every variable has the values the code gives it. *)
TypeOK ==
  /\ file \in [Keys -> BOOLEAN]
  /\ memory \in [Services -> [Keys -> BOOLEAN]] /\ before \in [Services -> [Keys -> BOOLEAN]]
  /\ owned \in [Services -> BOOLEAN]
  /\ todo \in [Services -> Seq(Tasks)] /\ inbox \in [Services -> Seq(Messages)]
  /\ active \subseteq Services /\ fresh \subseteq Services \ active /\ focus \in active \cup {None}
  /\ windows \subseteq active /\ owner \in active \cup {None}
  /\ caps \in [on : BOOLEAN, down : BOOLEAN]
  /\ posting \in Seq(Messages) /\ choices \in 0..MaxChoices
  /\ cut \in BOOLEAN

(* Whoever shows a toolbar window holds the mutex, so no two services show *)
(* one, whatever the order of messages, crashes and changes of the focus   *)
(* (ShowToolbarWindow, TryAcquireToolbarWindowOwnership).                  *)
OneToolbar == \A s \in windows : owner = s

(* caps_lock_ascii_mode_ is set only in English mode: releasing CapsLock   *)
(* never turns a Chinese mode around that something else chose.            *)
OwnedIsEnglish == \A s \in Services : owned[s] => memory[s]["mode"]

\* No message is on its way and no handler runs.
Settled == /\ \A s \in Services : Idle(s) /\ inbox[s] = <<>>
           /\ posting = <<>>

(* When the messages have been handled, every application is in the mode,  *)
(* the script and the shape that settings.ini says, although two of them   *)
(* may have written key by key at the same time, a write may have failed   *)
(* and an application may have been activated in between.  What leaves the *)
(* others as they were is a crash between the write and the message, and,  *)
(* outside this model, a restore or a reset of the settings that announces *)
(* itself to the engine only ("apply").                                    *)
Agreed == Settled /\ ~cut => \A s \in active, k \in Toggles : memory[s][k] = file[k]

(* The messages die out: handlers post messages to all services, their own *)
(* included, but not for ever (RefreshToolbarHostIfVisible).               *)
Quiet == <>[]Settled

(* A toolbar that was switched off disappears everywhere, even where an    *)
(* old copy of the setting showed it again (the 600 ms timer).             *)
HiddenEverywhere == (<>[](~file["toolbar"])) => <>[](windows = {})

=============================================================================
