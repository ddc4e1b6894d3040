--------------------------- MODULE FloatingWindows ---------------------------
(***************************************************************************)
(* The windows the text service of one application shows beside its text   *)
(* (src/tsf/tsf_text_service.cpp): the toolbar, the candidate window, the  *)
(* tooltips of both, the context menu with its submenu and the status tip; *)
(* who has the mouse, and where the toolbar stands, here, in the settings  *)
(* and in another application that read the settings before.               *)
(*                                                                         *)
(* Windows is external: the messages a window gets while nothing or one of *)
(* our windows has the mouse captured, the notice that the mouse has left  *)
(* a window that asked for it, and whether the destruction of a window     *)
(* that has the capture tells it so.  Whether the toolbar is to be visible *)
(* and which application owns it is module InputMode: here it may be shown *)
(* or destroyed at any time.  A place stands for the middle of the toolbar.*)
(***************************************************************************)
EXTENDS Integers, Sequences, FiniteSets

CONSTANTS
    Tools,    \* tools of the candidate window
    Places,   \* where the toolbar can be put
    Corner,   \* where it stands before the user has moved it
    Looks,    \* what can be chosen of its look: the layout, each item
    Program,  \* the name of the application, a sequence of characters
    List,     \* the list of applications without status tip, a set of patterns
    Reborn    \* windows that may come back after they were destroyed under the mouse

Paged == {"next"}  \* tools that are there when there is another page
Items == {"mode", "gear"}
Nothing == "none"
Nowhere == "nowhere"

ASSUME WindowsAssumption ==
    /\ Corner \in Places /\ Nowhere \notin Places /\ "layout" \in Looks
    /\ Nothing \notin Tools \cup Items \cup Looks

Pointed == {"toolbar", "candidates"}  \* windows with tools under the mouse
Spots(w) == IF w = "toolbar" THEN Items ELSE Tools

(***************************************************************************)
(* The menus: the rows of each, and those that open a submenu.             *)
(***************************************************************************)
Rows(mode) == IF mode = "gear" THEN {"items", "layout", "hide"} ELSE {"charset", "toolbar", "restart"}
Submenu(row) == CASE row = "items" -> {"reset"} \cup (Looks \ {"layout"}) [] row = "charset" -> {"charset"} [] OTHER -> {}
NoMenu == [mode |-> Nothing, row |-> Nothing, parent |-> Nothing, leaf |-> Nothing]

(***************************************************************************)
(* Whether a pattern of the list names the application.                    *)
(***************************************************************************)
WildcardMatch(text, pattern) ==
    LET Match[t \in 0..Len(text), p \in 0..Len(pattern)] ==
            IF p = 0 THEN t = 0
            ELSE IF pattern[p] = "*"
                 THEN Match[t, p - 1] \/ (t > 0 /\ Match[t - 1, p])
                 ELSE /\ t > 0 /\ pattern[p] \in {text[t], "?"}
                      /\ Match[t - 1, p - 1]
    IN  Match[Len(text), Len(pattern)]
Chars(s) == {s[i] : i \in DOMAIN s}
StatusTipProcessNameMatchesPattern(name, pattern) ==
    /\ name # <<>> /\ pattern # <<>>
    /\ IF Chars(pattern) \cap {"*", "?"} # {} THEN WildcardMatch(name, pattern)
       ELSE name = pattern
            \/ ("." \notin Chars(pattern) /\ name = pattern \o <<".", "e", "x", "e">>)
StatusTipProcessNameInList(name, list) ==
    \E pattern \in list : StatusTipProcessNameMatchesPattern(name, pattern)

VARIABLES
    windows,   \* windows[w]: there is none, it is hidden or shown
    mouse,     \* mouse[w]: what w knows of the mouse, and its tooltip
    dragging,  \* toolbar_dragging_
    capture,   \* the window that gets the messages of the mouse
    menu,      \* the menu that is shown: its hovered row, its submenu
    bar,       \* toolbar_position_ (and _user_), look, where the window is
    saved,     \* the same in the settings
    composing, focus, \* there is a composition, and the focus
    tip,       \* the status tip is shown, its hide timer set
    orphaned,  \* history: windows destroyed with the mouse still in their state
    leaked,    \* history: the candidate window was hidden while it had the capture
    disturbed  \* history: another place was read or written behind the toolbar

view == <<windows, mouse, menu, capture, dragging>>
place == <<bar, saved, disturbed>>
text == <<composing, focus, tip>>
vars == <<windows, mouse, dragging, capture, menu, bar, saved,
          composing, focus, tip, orphaned, leaked, disturbed>>

NoMouse == [hover |-> Nothing, pressed |-> Nothing, tracking |-> FALSE,
            armed |-> FALSE, tooltip |-> Nothing]
Mice(w) == [hover : Spots(w) \cup {Nothing}, pressed : Spots(w) \cup {Nothing},
            tracking : BOOLEAN, armed : BOOLEAN, tooltip : Spots(w) \cup {Nothing}]
Positions == [user : BOOLEAN, place : Places \cup {Nowhere}, look : SUBSET Looks]
Bars == [user : BOOLEAN, place : Places \cup {Nowhere}, look : SUBSET Looks, at : Places]

\* Types; a drop is always saved with its place.
TypeOK ==
    /\ windows \in [Pointed -> {"none", "hidden", "shown"}]
    /\ DOMAIN mouse = Pointed /\ \A w \in Pointed : mouse[w] \in Mice(w)
    /\ dragging \in BOOLEAN /\ capture \in Pointed \cup {"menu", Nothing}
    /\ menu.mode \in {"context", "gear", Nothing}
    /\ {menu.row, menu.parent} \subseteq Rows(menu.mode) \cup {Nothing}
    /\ menu.leaf \in Submenu(menu.parent) \cup {Nothing}
    /\ bar \in Bars
    /\ saved \in Positions /\ (saved.user => saved.place # Nowhere)
    /\ {composing, focus, tip, leaked, disturbed} \subseteq BOOLEAN
    /\ orphaned \subseteq Pointed

\* The text service is activated; the toolbar may have been moved long ago.
Init ==
    /\ windows = [w \in Pointed |-> "none"] /\ mouse = [w \in Pointed |-> NoMouse]
    /\ dragging = FALSE /\ capture = Nothing /\ menu = NoMenu
    /\ \E moved \in BOOLEAN, there \in Places :
         saved = [user |-> moved, place |-> IF moved THEN there ELSE Nowhere, look |-> {}]
    /\ bar = [user |-> saved.user, place |-> saved.place, look |-> {}, at |-> Corner]
    /\ composing = FALSE /\ focus = FALSE /\ tip = FALSE
    /\ orphaned = {} /\ leaked = FALSE /\ disturbed = FALSE

(***************************************************************************)
(* Where the toolbar stands: PositionToolbarWindow, the settings as        *)
(* SaveToolbarSetting leaves them, and the position as it is read back.    *)
(***************************************************************************)
PositionToolbarWindow(b) ==
    LET p == IF b.user /\ b.place # Nowhere THEN b.place ELSE Corner
    IN  [b EXCEPT !.place = p, !.at = p]

SaveToolbarSetting(b) ==
    LET own == b.user /\ b.place # Nowhere
    IN  [user |-> own \/ saved.user, place |-> IF own THEN b.place ELSE saved.place, look |-> b.look]

PositionToolbarWindowKeepingCenter(b) ==
    IF windows["toolbar"] = "shown" /\ b.user /\ b.place # Nowhere
    THEN /\ bar' = [b EXCEPT !.place = b.at]
         /\ saved' = SaveToolbarSetting(bar') /\ disturbed' = FALSE
    ELSE bar' = PositionToolbarWindow(b) /\ UNCHANGED <<saved, disturbed>>

LoadUserSettings ==
    /\ bar' = [bar EXCEPT !.user = saved.user, !.look = saved.look,
                          !.place = IF saved.user THEN saved.place ELSE Nowhere]
    /\ disturbed' = (disturbed \/ bar'.place # bar.at)
    /\ UNCHANGED saved

RefreshToolbarFromSettings ==
    LET read == [bar EXCEPT !.user = saved.user, !.look = saved.look,
                            !.place = IF saved.user THEN saved.place ELSE bar.place]
    IN  /\ windows["toolbar"] = "shown"
        /\ PositionToolbarWindowKeepingCenter(read)
        /\ UNCHANGED <<view, text, orphaned, leaked>>

MayCome(w) == w \in Reborn \/ w \notin orphaned
Show(w) == windows' = [windows EXCEPT ![w] = "shown"]

\* ShowToolbarWindow, where no other application owns the toolbar.
ShowToolbarWindow ==
    /\ MayCome("toolbar") /\ Show("toolbar")
    /\ bar' = PositionToolbarWindow(bar)
ToolbarComes ==
    /\ ShowToolbarWindow
    /\ UNCHANGED <<mouse, menu, capture, dragging, saved, disturbed, text, orphaned, leaked>>

\* WM_DESTROY of a window of ours: what it knows of the mouse is kept.  If the
\* mouse is captured by it, Windows may or may not tell it.
Lost(m) == [m EXCEPT !.pressed = Nothing]
Drop == bar' = [bar EXCEPT !.user = TRUE] /\ saved' = SaveToolbarSetting(bar')
Destroyed(w, told) ==
    LET known == IF told /\ capture = w THEN Lost(mouse[w]) ELSE mouse[w]
        left == [known EXCEPT !.tooltip = Nothing, !.armed = FALSE]
    IN  /\ windows' = [windows EXCEPT ![w] = "none"]
        /\ mouse' = [mouse EXCEPT ![w] = left]
        /\ dragging' = (dragging /\ ~(told /\ w = "toolbar" /\ capture = w))
        /\ orphaned' = IF left = NoMouse /\ ~(w = "toolbar" /\ dragging') THEN orphaned
                       ELSE orphaned \cup {w}
GivenUpBy(w) == IF capture = w THEN Nothing ELSE capture

\* The settings or the watch timer say so; the text service is deactivated.
DestroyToolbarWindow ==
    /\ windows["toolbar"] = "shown" /\ capture' = GivenUpBy("toolbar")
    /\ \E told \in BOOLEAN : Destroyed("toolbar", told)
    /\ IF dragging /\ ~dragging' /\ bar.place # Nowhere THEN Drop ELSE UNCHANGED <<bar, saved>>
    /\ UNCHANGED <<menu, disturbed, text, leaked>>

DestroyCandidateWindow ==
    IF windows["candidates"] = "none" THEN UNCHANGED <<windows, mouse, dragging, orphaned>>
    ELSE \E told \in BOOLEAN : Destroyed("candidates", told)

(***************************************************************************)
(* The mouse over the toolbar and the candidate window.  A button is       *)
(* pressed where the last move went.                                       *)
(***************************************************************************)
Receives(w) == capture = w \/ (capture = Nothing /\ windows[w] = "shown")
Hovered(m, s) ==
    LET new == IF s = m.hover THEN m
               ELSE [m EXCEPT !.hover = s, !.tooltip = Nothing]
    IN  [new EXCEPT !.tracking = TRUE, !.armed = m.armed \/ ~m.tracking]
Left(m) == [m EXCEPT !.tracking = FALSE, !.armed = FALSE, !.hover = Nothing,
                     !.tooltip = IF m.hover = Nothing THEN @ ELSE Nothing]
WithoutTooltip(m) == [m EXCEPT !.tooltip = Nothing]

\* WM_MOUSEMOVE over a tool, or over none: the handle, a gap, beside the window.
\* Windows has told the window the mouse was in before that it has left.
MouseMove(w, s) ==
    /\ Receives(w) /\ ~(w = "toolbar" /\ dragging)
    /\ \A other \in Pointed \ {w} : ~mouse[other].armed
    /\ mouse' = [mouse EXCEPT ![w] = Hovered(@, s)]
    /\ UNCHANGED <<windows, menu, capture, dragging, place, text, orphaned, leaked>>

DragTo(p) ==
    /\ Receives("toolbar") /\ dragging
    /\ bar' = [bar EXCEPT !.place = p, !.at = p, !.user = TRUE]
    /\ disturbed' = FALSE
    /\ UNCHANGED <<view, saved, text, orphaned, leaked>>

\* Mutant: the window forgets that it has to ask for the next notice.
StillTracking(w) ==
    /\ mouse[w].armed /\ (capture # w \/ mouse[w].hover = Nothing)
    /\ mouse' = [mouse EXCEPT ![w] =
         [@ EXCEPT !.armed = FALSE, !.hover = Nothing, !.tooltip = Nothing]]
    /\ UNCHANGED <<windows, menu, capture, dragging, place, text, orphaned, leaked>>

\* WM_MOUSELEAVE, which Windows sends once to a window that asked.
MouseLeave(w) ==
    /\ mouse[w].armed /\ (capture # w \/ mouse[w].hover = Nothing)
    /\ mouse' = [mouse EXCEPT ![w] = Left(@)]
    /\ UNCHANGED <<windows, menu, capture, dragging, place, text, orphaned, leaked>>

LeftButtonDown(w) ==
    LET s == mouse[w].hover
    IN  /\ Receives(w) /\ (capture = Nothing \/ leaked) /\ s # Nothing
        /\ mouse' = [mouse EXCEPT ![w] = [WithoutTooltip(@) EXCEPT !.pressed = s]]
        /\ capture' = w /\ leaked' = FALSE
        /\ UNCHANGED <<windows, menu, dragging, place, text, orphaned>>

StartDrag ==
    /\ capture = Nothing /\ windows["toolbar"] = "shown"
    /\ dragging' = TRUE /\ capture' = "toolbar"
    /\ UNCHANGED <<windows, mouse, menu, place, text, orphaned, leaked>>

\* Mutant: the position is not saved when another window takes the mouse.
LosesDrag ==
    /\ dragging' = (dragging /\ capture # "toolbar")
    /\ mouse' = IF capture \in Pointed THEN [mouse EXCEPT ![capture] = Lost(@)] ELSE mouse
    /\ leaked' = FALSE /\ UNCHANGED <<bar, saved>>

\* WM_CAPTURECHANGED in the window that had the mouse.
LoseCapture ==
    /\ dragging' = (dragging /\ capture # "toolbar")
    /\ mouse' = IF capture \in Pointed THEN [mouse EXCEPT ![capture] = Lost(@)] ELSE mouse
    /\ leaked' = FALSE
    /\ IF capture = "toolbar" /\ dragging /\ bar.place # Nowhere THEN Drop
       ELSE UNCHANGED <<bar, saved>>

HideContextMenu == NoMenu
CaptureTaken ==
    /\ capture # Nothing /\ capture' = Nothing
    /\ LoseCapture
    /\ menu' = IF capture = "menu" THEN HideContextMenu ELSE menu
    /\ UNCHANGED <<windows, disturbed, text, orphaned>>

EndDrag ==
    /\ Receives("toolbar") /\ dragging
    /\ dragging' = FALSE /\ capture' = Nothing
    /\ mouse' = [mouse EXCEPT !["toolbar"] = Lost(@)]
    /\ IF bar.place # Nowhere THEN Drop ELSE UNCHANGED <<bar, saved>>
    /\ UNCHANGED <<windows, menu, disturbed, text, orphaned, leaked>>

Opened(mode) == [NoMenu EXCEPT !.mode = mode]

\* What is under the mouse now: a tool may have been disabled by the last page.
Over(w) == {mouse[w].hover} \cup (IF mouse[w].hover \in Paged THEN {Nothing} ELSE {})
Settled(w, s) == [mouse[w] EXCEPT !.pressed = Nothing, !.hover = s, !.tooltip = Nothing]

\* Mutant: the mouse is not given back.
KeepsCapture(w, s) == mouse' = [mouse EXCEPT ![w] = Settled(w, s)] /\ UNCHANGED capture

\* WM_LBUTTONUP after a press: the mouse is given back, the tooltip delayed.
Release(w, s) == mouse' = [mouse EXCEPT ![w] = Settled(w, s)] /\ capture' = GivenUpBy(w)
Pressed(w) == Receives(w) /\ mouse[w].pressed # Nothing /\ ~(w = "toolbar" /\ dragging)
Clicked(w, s) == Pressed(w) /\ mouse[w].pressed = s /\ s \in Over(w)

\* The button goes up over another tool than it went down on, or over none.
ReleaseElsewhere(w) ==
    /\ Pressed(w) /\ \E s \in Over(w) \ {mouse[w].pressed} : Release(w, s)
    /\ UNCHANGED <<windows, menu, dragging, place, text, orphaned, leaked>>

ClickGear ==
    /\ Clicked("toolbar", "gear") /\ mouse' = [mouse EXCEPT !["toolbar"] = Settled("toolbar", "gear")]
    /\ menu' = Opened("gear") /\ capture' = "menu"
    /\ UNCHANGED <<windows, dragging, place, text, orphaned, leaked>>

(***************************************************************************)
(* The status tip, a window that hides itself after a while.  The settings *)
(* it reads first are not read again within some time.                     *)
(***************************************************************************)
Listed == StatusTipProcessNameInList(Program, List)
IsStatusTipAllowed(focused) == focused /\ ~Listed
ShowStatusTip(focused) ==
    /\ LoadUserSettings \/ UNCHANGED place
    /\ tip' \in {FALSE, ~composing' /\ IsStatusTipAllowed(focused)}

StatusTipTimer == tip /\ tip' = FALSE /\ UNCHANGED <<view, place, composing, focus, orphaned, leaked>>

\* ToggleAsciiMode and the items that change the shape, punctuation or charset.
ToggleAsciiMode ==
    /\ UNCHANGED composing /\ ShowStatusTip(focus)
    /\ UNCHANGED <<windows, menu, dragging, focus, orphaned, leaked>>
ClickMode == Clicked("toolbar", "mode") /\ Release("toolbar", "mode") /\ ToggleAsciiMode

RefreshInputStateFromSettings ==
    /\ LoadUserSettings
    /\ tip' \in IF tip THEN {FALSE, ~composing /\ IsStatusTipAllowed(focus)} ELSE {FALSE}
    /\ UNCHANGED <<view, composing, focus, orphaned, leaked>>

GainFocus ==
    /\ ~focus /\ focus' = TRUE /\ UNCHANGED composing /\ ShowStatusTip(TRUE)
    /\ UNCHANGED <<view, orphaned, leaked>>

(***************************************************************************)
(* The candidate window.                                                   *)
(***************************************************************************)
\* Keys and page changes after which there are candidates.
ShowCandidateWindow ==
    /\ focus /\ composing' = TRUE /\ tip' = FALSE
    /\ MayCome("candidates") /\ Show("candidates")
    /\ UNCHANGED <<mouse, menu, capture, dragging, place, focus, orphaned, leaked>>

\* The tools that change the page or the expansion, and those that do not.
ClickTool(s) ==
    /\ Clicked("candidates", s)
    /\ IF s \in Paged /\ composing
       THEN Release("candidates", s) /\ tip' = FALSE /\ Show("candidates")
       ELSE /\ capture' = GivenUpBy("candidates")
            /\ mouse' = [w \in Pointed |->
                  IF w = "candidates" THEN Settled(w, s)
                  ELSE IF s \in Paged THEN mouse[w] ELSE WithoutTooltip(mouse[w])]
            /\ UNCHANGED <<windows, tip>>
    /\ UNCHANGED <<menu, dragging, place, composing, focus, orphaned, leaked>>

HideCandidateWindow ==
    IF windows["candidates"] = "none" THEN UNCHANGED <<windows, mouse, leaked, orphaned>>
    ELSE /\ windows' = [windows EXCEPT !["candidates"] = "hidden"]
         /\ mouse' = [mouse EXCEPT !["candidates"] = [NoMouse EXCEPT !.armed = mouse["candidates"].armed]]
         /\ leaked' = (leaked \/ capture = "candidates")
         /\ orphaned' = orphaned \ {"candidates"}

\* A key without candidates, a commit, the end of the composition.
NoCandidates ==
    /\ focus /\ composing' \in BOOLEAN /\ HideCandidateWindow
    /\ tip' = (tip /\ ~composing')
    /\ UNCHANGED <<menu, capture, dragging, place, focus>>

\* A switch of the mode by a key; letters that were typed are committed first.
ToggleAsciiModeFromKey ==
    /\ focus /\ composing' = FALSE /\ ShowStatusTip(focus)
    /\ IF composing THEN HideCandidateWindow ELSE UNCHANGED <<windows, mouse, leaked, orphaned>>
    /\ UNCHANGED <<menu, capture, dragging, focus>>

\* ShouldKeepCandidateWindow is FALSE: the window in front is another one.
CandidateWatchTimer ==
    /\ windows["candidates"] = "shown" /\ HideCandidateWindow
    /\ UNCHANGED <<menu, capture, dragging, place, text>>

LoseFocus ==
    /\ focus /\ focus' = FALSE /\ composing' = FALSE /\ tip' = FALSE
    /\ HideCandidateWindow
    /\ UNCHANGED <<menu, capture, dragging, place>>

\* The core host is restarted, or shut down for an uninstallation.
RestartRimeAndAlgorithmService ==
    /\ composing' = FALSE /\ tip' = FALSE /\ DestroyCandidateWindow
    /\ UNCHANGED <<place, focus>>
RestartByMessage ==
    /\ RestartRimeAndAlgorithmService /\ capture' = GivenUpBy("candidates")
    /\ leaked' = (leaked /\ capture' # Nothing) /\ UNCHANGED menu

(***************************************************************************)
(* The context menu, by the right button or the icon in the taskbar.       *)
(***************************************************************************)
ShowContextMenu(mode) == capture' = "menu" /\ menu' = Opened(mode)

RightButtonUp ==
    /\ Receives("toolbar") /\ LoseCapture
    /\ ShowContextMenu(IF mouse["toolbar"].hover = "gear" THEN "gear" ELSE "context")
    /\ UNCHANGED <<windows, disturbed, text, orphaned>>

\* The icon in the taskbar; the left button on it, with the focus, is a toggle.
LangBarClick ==
    /\ LoseCapture /\ ShowContextMenu("context")
    /\ UNCHANGED <<windows, disturbed, text, orphaned>>
LangBarToggle == focus /\ ToggleAsciiMode /\ UNCHANGED <<mouse, capture>>

MenuChanges == UNCHANGED <<windows, mouse, capture, dragging, place, text, orphaned, leaked>>
MenuMove(row) ==
    /\ menu.mode # Nothing /\ row \in Rows(menu.mode) \cup {Nothing}
    /\ menu' = [menu EXCEPT !.row = row, !.leaf = Nothing,
                            !.parent = IF Submenu(row) # {} THEN row ELSE Nothing]
    /\ MenuChanges
SubmenuMove(leaf) ==
    /\ leaf \in Submenu(menu.parent)
    /\ menu' = [menu EXCEPT !.row = menu.parent, !.leaf = leaf] /\ MenuChanges
\* WM_MOUSELEAVE: over windows of other threads, and not over the submenu.
MenuLeave == menu.mode # Nothing /\ menu' = Opened(menu.mode) /\ MenuChanges

DestroyContextMenu == menu.mode # Nothing /\ capture' = Nothing /\ menu' = NoMenu
\* A click outside, a release over no row, ESC, WM_CANCELMODE.
DismissMenu ==
    /\ DestroyContextMenu
    /\ UNCHANGED <<windows, mouse, dragging, place, text, orphaned, leaked>>

Toggled(look, choice) ==
    CASE choice = "reset" -> look \cap {"layout"}
      [] choice \in look -> look \ {choice}
      [] OTHER -> look \cup {choice}
ChooseLook(choice) ==
    LET new == [bar EXCEPT !.look = Toggled(@, choice)]
    IN  /\ DestroyContextMenu
        /\ IF windows["toolbar"] = "shown" THEN PositionToolbarWindowKeepingCenter(new)
           ELSE bar' = new /\ saved' = SaveToolbarSetting(new) /\ UNCHANGED disturbed
        /\ UNCHANGED <<windows, mouse, dragging, text, orphaned, leaked>>
ToggleToolbarLayout == menu.mode = "gear" /\ menu.row = "layout" /\ ChooseLook("layout")
ToggleToolbarItemVisibility == menu.mode = "gear" /\ menu.leaf # Nothing /\ ChooseLook(menu.leaf)

\* "hide"; "toolbar", which hides or shows it.
ToggleToolbarWindow ==
    /\ menu.row \in {"hide", "toolbar"} /\ DestroyContextMenu
    /\ saved' = SaveToolbarSetting(bar)
    /\ IF windows["toolbar"] = "shown" THEN Destroyed("toolbar", FALSE) /\ UNCHANGED bar
       ELSE /\ UNCHANGED <<mouse, dragging, orphaned>>
            /\ (menu.row = "toolbar" /\ ShowToolbarWindow) \/ UNCHANGED <<windows, bar>>
    /\ UNCHANGED <<disturbed, text, leaked>>

\* The commands of HandleLangBarMenuCommand that matter here.
ChooseCharset ==
    /\ menu.leaf = "charset" /\ DestroyContextMenu /\ UNCHANGED composing
    /\ ShowStatusTip(focus)
    /\ IF composing THEN Show("candidates") ELSE UNCHANGED windows
    /\ UNCHANGED <<mouse, dragging, focus, orphaned, leaked>>
ChooseRestart ==
    /\ menu.row = "restart" /\ DestroyContextMenu /\ RestartRimeAndAlgorithmService
    /\ UNCHANGED leaked

(***************************************************************************)
(* The tooltips, the other application and the settings application.       *)
(***************************************************************************)
ShowTooltip(m) == [m EXCEPT !.tooltip = m.hover]

\* The timer a move sets; whether it still runs is left open.
TooltipTimer(w) ==
    /\ windows[w] # "none" /\ mouse[w].hover # Nothing
    /\ mouse' = [mouse EXCEPT ![w] = ShowTooltip(@)]
    /\ UNCHANGED <<windows, menu, capture, dragging, place, text, orphaned, leaked>>

\* RefreshToolbarFromSettings in another application, which saves what it has
\* read at some time.
OtherSaves ==
    /\ \E read \in Positions :
         /\ read.user <=> read.place # Nowhere
         /\ saved' = [user |-> read.user \/ saved.user, look |-> read.look,
                      place |-> IF read.user THEN read.place ELSE saved.place]
    /\ disturbed' = (disturbed \/ saved' # saved)
    /\ UNCHANGED <<view, bar, text, orphaned, leaked>>

OverToolbarOrCandidates(w) ==
    \/ \E s \in Spots(w) \cup {Nothing} : MouseMove(w, s)
    \/ ReleaseElsewhere(w) \/ MouseLeave(w) \/ LeftButtonDown(w) \/ TooltipTimer(w)
Dragging == StartDrag \/ (\E p \in Places : DragTo(p)) \/ EndDrag
Clicks ==
    \/ ClickGear \/ ClickMode \/ (\E s \in Tools : ClickTool(s)) \/ RightButtonUp \/ LangBarClick
    \/ LangBarToggle
Menus ==
    \/ \E row \in Rows(menu.mode) \cup {Nothing} : MenuMove(row)
    \/ \E leaf \in Submenu(menu.parent) : SubmenuMove(leaf)
    \/ MenuLeave \/ DismissMenu \/ CaptureTaken
    \/ ToggleToolbarLayout \/ ToggleToolbarItemVisibility \/ ToggleToolbarWindow
    \/ ChooseCharset \/ ChooseRestart
Input ==
    \/ ShowCandidateWindow \/ NoCandidates \/ CandidateWatchTimer \/ ToggleAsciiModeFromKey
    \/ GainFocus \/ LoseFocus \/ StatusTipTimer \/ RestartByMessage
Settings ==
    \/ ToolbarComes \/ DestroyToolbarWindow \/ RefreshToolbarFromSettings
    \/ RefreshInputStateFromSettings \/ OtherSaves

Next == (\E w \in Pointed : OverToolbarOrCandidates(w)) \/ Dragging \/ Clicks \/ Menus \/ Input \/ Settings
Spec == Init /\ [][Next]_vars

(***************************************************************************)
(* Properties                                                              *)
(***************************************************************************)
\* Who has the mouse captured: a menu that is shown, and only it; a window
\* with a pressed tool or a drag, and only as long (SetCapture, ReleaseCapture,
\* WM_CAPTURECHANGED).  A candidate window that is hidden while a tool is
\* pressed keeps it; a destroyed window keeps the press.
HeldMouse ==
    /\ (menu.mode # Nothing) <=> (capture = "menu")
    /\ \A w \in Pointed \ orphaned : mouse[w].pressed # Nothing => capture = w
    /\ dragging /\ "toolbar" \notin orphaned => capture = "toolbar"
    /\ capture = "toolbar" => dragging \/ mouse["toolbar"].pressed # Nothing
    /\ capture = "candidates" => leaked \/ mouse["candidates"].pressed # Nothing

\* The submenu that is seen is that of the hovered row of the menu that is
\* seen, so that a release acts on what was shown (ContextMenuWindowProc).
SubmenuOfRow ==
    /\ menu.parent # Nothing => menu.mode # Nothing /\ menu.row = menu.parent
    /\ menu.leaf # Nothing => menu.leaf \in Submenu(menu.parent)

\* A tool that is highlighted, and the tooltip that names it, will learn that
\* the mouse is gone: Windows owes the window a notice (TrackMouseEvent).  Not
\* so after a window was destroyed under the mouse.
TooltipsEnd ==
    \A w \in Pointed \ orphaned :
        /\ mouse[w].hover # Nothing => mouse[w].armed
        /\ mouse[w].tooltip \in {mouse[w].hover, Nothing}

\* Where the user has put the toolbar, and what was chosen of its look since,
\* is in the settings, however the drag has ended (SaveToolbarSetting); if no
\* other place was read over it or written by another application.
SavedIsShown ==
    windows["toolbar"] = "shown" /\ bar.user /\ ~dragging /\ ~disturbed
      => saved = [user |-> TRUE, place |-> bar.at, look |-> bar.look]

\* The status tip is shown to who has the focus, outside of compositions and
\* of the applications on the list that was read (ShowStatusTip).
StatusTipAlone == tip => ~composing /\ IsStatusTipAllowed(focus)
=============================================================================
