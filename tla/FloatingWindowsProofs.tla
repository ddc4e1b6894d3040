------------------------ MODULE FloatingWindowsProofs -------------------------
(***************************************************************************)
(* Proofs about FloatingWindows, for every set of tools, places, looks and *)
(* patterns: its types, who has the mouse captured, what the submenu and   *)
(* the tooltips are of, and that the status tip is alone.                  *)
(***************************************************************************)
EXTENDS FloatingWindows, TLAPS

-----------------------------------------------------------------------------
(* What one window knows of the mouse.                                     *)

\* A window that is tracked, or has something highlighted, is owed a notice.
Honest(m) ==
    /\ m.tracking => m.armed
    /\ m.hover # Nothing => m.armed
    /\ m.tooltip \in {m.hover, Nothing}

LEMMA NoMouseFine ==
    ASSUME NEW w \in Pointed
    PROVE  NoMouse \in Mice(w) /\ Honest(NoMouse) /\ NoMouse.pressed = Nothing
  BY DEF NoMouse, Mice, Honest

LEMMA LostFine ==
    ASSUME NEW w \in Pointed, NEW m \in Mice(w)
    PROVE  /\ Lost(m) \in Mice(w) /\ Lost(m).pressed = Nothing
           /\ Honest(m) => Honest(Lost(m))
  BY DEF Lost, Mice, Honest

LEMMA HoveredFine ==
    ASSUME NEW w \in Pointed, NEW m \in Mice(w), NEW s \in Spots(w) \cup {Nothing}
    PROVE  /\ Hovered(m, s) \in Mice(w) /\ Hovered(m, s).pressed = m.pressed
           /\ Honest(m) => Honest(Hovered(m, s))
  BY DEF Hovered, Mice, Honest

LEMMA LeftFine ==
    ASSUME NEW w \in Pointed, NEW m \in Mice(w)
    PROVE  /\ Left(m) \in Mice(w) /\ Left(m).pressed = m.pressed
           /\ Honest(m) => Honest(Left(m))
  BY DEF Left, Mice, Honest

LEMMA WithoutTooltipFine ==
    ASSUME NEW w \in Pointed, NEW m \in Mice(w)
    PROVE  /\ WithoutTooltip(m) \in Mice(w)
           /\ WithoutTooltip(m).pressed = m.pressed
           /\ Honest(m) => Honest(WithoutTooltip(m))
  BY DEF WithoutTooltip, Mice, Honest

LEMMA PressedFine ==
    ASSUME NEW w \in Pointed, NEW m \in Mice(w), NEW s \in Spots(w)
    PROVE  LET n == [WithoutTooltip(m) EXCEPT !.pressed = s] IN
           /\ n \in Mice(w) /\ n.pressed = s
           /\ Honest(m) => Honest(n)
  BY DEF WithoutTooltip, Mice, Honest

LEMMA ShowTooltipFine ==
    ASSUME NEW w \in Pointed, NEW m \in Mice(w)
    PROVE  /\ ShowTooltip(m) \in Mice(w) /\ ShowTooltip(m).pressed = m.pressed
           /\ Honest(m) => Honest(ShowTooltip(m))
  BY DEF ShowTooltip, Mice, Honest

\* A release: the tool that is hovered may be gone.
LEMMA SettledFine ==
    ASSUME NEW w \in Pointed, mouse[w] \in Mice(w), NEW s \in Over(w)
    PROVE  /\ Settled(w, s) \in Mice(w) /\ Settled(w, s).pressed = Nothing
           /\ Honest(mouse[w]) => Honest(Settled(w, s))
  BY DEF Settled, Over, Mice, Honest

-----------------------------------------------------------------------------
(* The windows, the mouse and its capture.                                 *)

MouseInv ==
    /\ DOMAIN mouse = Pointed
    /\ \A w \in Pointed : mouse[w] \in Mice(w)
    /\ \A w \in Pointed \ orphaned : Honest(mouse[w])

ViewTypes ==
    /\ windows \in [Pointed -> {"none", "hidden", "shown"}]
    /\ dragging \in BOOLEAN /\ capture \in Pointed \cup {"menu", Nothing}
    /\ leaked \in BOOLEAN /\ orphaned \subseteq Pointed

\* What keeps the capture exists; a hidden candidate window has no press.
CaptureInv ==
    /\ leaked => capture = "candidates" /\ mouse["candidates"].pressed = Nothing
    /\ \A w \in Pointed : capture = w => windows[w] # "none"

ViewInv == MouseInv /\ ViewTypes /\ HeldMouse /\ CaptureInv

Stay == \A w \in Pointed : windows[w] # "none" => windows'[w] # "none"

LEMMA ViewKept ==
    ASSUME ViewInv, UNCHANGED <<mouse, dragging, capture, menu, orphaned, leaked>>,
           ViewTypes', Stay
    PROVE  ViewInv'
  BY DEF ViewInv, MouseInv, HeldMouse, CaptureInv, Stay, Pointed

\* One window learns something of the mouse.
LEMMA OneMouse ==
    ASSUME MouseInv, NEW w \in Pointed, NEW n \in Mice(w),
           w \in orphaned \/ (Honest(mouse[w]) => Honest(n)),
           orphaned' = orphaned, mouse' = [mouse EXCEPT ![w] = n]
    PROVE  /\ MouseInv' /\ mouse'[w] = n
           /\ \A v \in Pointed \ {w} : mouse'[v] = mouse[v]
  BY DEF MouseInv

\* A press that stays: nothing changes about the capture.
LEMMA SamePress ==
    ASSUME ViewInv, MouseInv', \A v \in Pointed : mouse'[v].pressed = mouse[v].pressed,
           UNCHANGED <<windows, dragging, capture, menu, orphaned, leaked>>
    PROVE  ViewInv'
  BY DEF ViewInv, ViewTypes, HeldMouse, CaptureInv, Pointed

LEMMA MouseMoveView ==
    ASSUME ViewInv, NEW w \in Pointed, NEW s \in Spots(w) \cup {Nothing}, MouseMove(w, s)
    PROVE  ViewInv'
  <1>1. MouseInv /\ mouse[w] \in Mice(w)
    BY DEF ViewInv, MouseInv
  <1>2. UNCHANGED <<windows, menu, capture, dragging, orphaned, leaked>>
        /\ mouse' = [mouse EXCEPT ![w] = Hovered(mouse[w], s)]
    BY DEF MouseMove
  <1> DEFINE n == Hovered(mouse[w], s)
  <1>3. n \in Mice(w) /\ n.pressed = mouse[w].pressed /\ (Honest(mouse[w]) => Honest(n))
    BY <1>1, HoveredFine
  <1>4. mouse' = [mouse EXCEPT ![w] = n]
    BY <1>2
  <1> HIDE DEF n
  <1>5. MouseInv' /\ \A v \in Pointed : mouse'[v].pressed = mouse[v].pressed
    BY <1>1, <1>2, <1>3, <1>4, OneMouse
  <1> QED BY <1>2, <1>5, SamePress

LEMMA MouseLeaveView ==
    ASSUME ViewInv, NEW w \in Pointed, MouseLeave(w)
    PROVE  ViewInv'
  <1>1. MouseInv /\ mouse[w] \in Mice(w)
    BY DEF ViewInv, MouseInv
  <1>2. UNCHANGED <<windows, menu, capture, dragging, orphaned, leaked>>
        /\ mouse' = [mouse EXCEPT ![w] = Left(mouse[w])]
    BY DEF MouseLeave
  <1> DEFINE n == Left(mouse[w])
  <1>3. n \in Mice(w) /\ n.pressed = mouse[w].pressed /\ (Honest(mouse[w]) => Honest(n))
    BY <1>1, LeftFine
  <1>4. mouse' = [mouse EXCEPT ![w] = n]
    BY <1>2
  <1> HIDE DEF n
  <1>5. MouseInv' /\ \A v \in Pointed : mouse'[v].pressed = mouse[v].pressed
    BY <1>1, <1>2, <1>3, <1>4, OneMouse
  <1> QED BY <1>2, <1>5, SamePress

LEMMA TooltipTimerView ==
    ASSUME ViewInv, NEW w \in Pointed, TooltipTimer(w)
    PROVE  ViewInv'
  <1>1. MouseInv /\ mouse[w] \in Mice(w)
    BY DEF ViewInv, MouseInv
  <1>2. UNCHANGED <<windows, menu, capture, dragging, orphaned, leaked>>
        /\ mouse' = [mouse EXCEPT ![w] = ShowTooltip(mouse[w])]
    BY DEF TooltipTimer
  <1> DEFINE n == ShowTooltip(mouse[w])
  <1>3. n \in Mice(w) /\ n.pressed = mouse[w].pressed /\ (Honest(mouse[w]) => Honest(n))
    BY <1>1, ShowTooltipFine
  <1>4. mouse' = [mouse EXCEPT ![w] = n]
    BY <1>2
  <1> HIDE DEF n
  <1>5. MouseInv' /\ \A v \in Pointed : mouse'[v].pressed = mouse[v].pressed
    BY <1>1, <1>2, <1>3, <1>4, OneMouse
  <1> QED BY <1>2, <1>5, SamePress

LEMMA LeftButtonDownView ==
    ASSUME ViewInv, NEW w \in Pointed, LeftButtonDown(w)
    PROVE  ViewInv'
  <1> DEFINE s == mouse[w].hover
             n == [WithoutTooltip(mouse[w]) EXCEPT !.pressed = s]
  <1>1. MouseInv /\ mouse[w] \in Mice(w)
    BY DEF ViewInv, MouseInv
  <1>2. s \in Spots(w)
    BY <1>1 DEF LeftButtonDown, Mice
  <1>3. UNCHANGED <<windows, menu, dragging, orphaned>> /\ capture' = w /\ leaked' = FALSE
        /\ mouse' = [mouse EXCEPT ![w] = n]
    BY DEF LeftButtonDown
  <1>4. n \in Mice(w) /\ n.pressed = s /\ (Honest(mouse[w]) => Honest(n))
    BY <1>1, <1>2, PressedFine
  <1> HIDE DEF n
  <1>5. MouseInv' /\ mouse'[w].pressed = s /\ \A v \in Pointed \ {w} : mouse'[v] = mouse[v]
    BY <1>1, <1>3, <1>4, OneMouse
  <1>6. s # Nothing /\ Receives(w) /\ (capture = Nothing \/ leaked)
    BY DEF LeftButtonDown
  <1>7. HeldMouse'
    BY <1>3, <1>5, <1>6 DEF ViewInv, ViewTypes, HeldMouse, CaptureInv, Pointed, Receives,
                            Nothing
  <1>8. CaptureInv'
    BY <1>3, <1>6 DEF ViewInv, CaptureInv, Receives
  <1> QED BY <1>3, <1>5, <1>7, <1>8 DEF ViewInv, ViewTypes, Pointed, Nothing

\* A button that is released gives the mouse back.
LEMMA ReleaseView ==
    ASSUME ViewInv, NEW w \in Pointed, Pressed(w), NEW s \in Over(w), Release(w, s),
           UNCHANGED <<dragging, menu, orphaned, leaked>>, ViewTypes', Stay
    PROVE  ViewInv'
  <1> DEFINE n == Settled(w, s)
  <1>1. MouseInv /\ mouse[w] \in Mice(w)
    BY DEF ViewInv, MouseInv
  <1>2. n \in Mice(w) /\ n.pressed = Nothing /\ (Honest(mouse[w]) => Honest(n))
    BY <1>1, SettledFine
  <1>3. mouse' = [mouse EXCEPT ![w] = n] /\ capture' = GivenUpBy(w)
    BY DEF Release
  <1> HIDE DEF n
  <1>4. MouseInv' /\ mouse'[w].pressed = Nothing
        /\ \A v \in Pointed \ {w} : mouse'[v] = mouse[v]
    BY <1>1, <1>2, <1>3, OneMouse
  <1>5. mouse[w].pressed # Nothing /\ Receives(w) /\ ~(w = "toolbar" /\ dragging)
    BY DEF Pressed
  <1>6. HeldMouse'
    BY <1>3, <1>4, <1>5
       DEF ViewInv, ViewTypes, HeldMouse, CaptureInv, Pointed, GivenUpBy, Nothing, Receives
  <1>7. CaptureInv'
    BY <1>3, <1>4, <1>5
       DEF ViewInv, ViewTypes, HeldMouse, CaptureInv, Pointed, GivenUpBy, Nothing, Receives, Stay
  <1> QED BY <1>4, <1>6, <1>7 DEF ViewInv

\* A menu takes the mouse, or nobody has it.
LEMMA LoseCaptureView ==
    ASSUME ViewInv, LoseCapture, UNCHANGED <<windows, orphaned>>,
           capture' \in {Nothing, "menu"}, menu'.mode # Nothing <=> capture' = "menu"
    PROVE  ViewInv'
  <1>1. dragging' = (dragging /\ capture # "toolbar") /\ leaked' = FALSE
        /\ mouse' = IF capture \in Pointed THEN [mouse EXCEPT ![capture] = Lost(mouse[capture])]
                    ELSE mouse
    BY DEF LoseCapture
  <1>2. MouseInv' /\ \A v \in Pointed : mouse'[v].pressed
                                          = IF v = capture THEN Nothing ELSE mouse[v].pressed
    <2>1. CASE capture \in Pointed
      <3> DEFINE n == Lost(mouse[capture])
      <3>1. MouseInv /\ mouse[capture] \in Mice(capture)
        BY <2>1 DEF ViewInv, MouseInv
      <3>2. n \in Mice(capture) /\ n.pressed = Nothing
            /\ (Honest(mouse[capture]) => Honest(n))
        BY <2>1, <3>1, LostFine
      <3>3. mouse' = [mouse EXCEPT ![capture] = n]
        BY <1>1, <2>1
      <3> HIDE DEF n
      <3>4. MouseInv' /\ mouse'[capture] = n
            /\ \A v \in Pointed \ {capture} : mouse'[v] = mouse[v]
        BY <2>1, <3>1, <3>2, <3>3, OneMouse
      <3> QED BY <3>2, <3>4
    <2>2. CASE capture \notin Pointed
      BY <1>1, <2>2 DEF ViewInv, MouseInv
    <2> QED BY <2>1, <2>2
  <1>3. HeldMouse'
    BY <1>1, <1>2 DEF ViewInv, ViewTypes, HeldMouse, CaptureInv, Pointed, Nothing
  <1>4. ViewTypes' /\ CaptureInv'
    BY <1>1 DEF ViewInv, ViewTypes, CaptureInv, Pointed, Nothing
  <1> QED BY <1>2, <1>3, <1>4 DEF ViewInv

\* The menu is gone, and nobody has the mouse.
LEMMA MenuGoneView ==
    ASSUME ViewInv, DestroyContextMenu, UNCHANGED <<mouse, dragging, orphaned, leaked>>,
           ViewTypes', Stay
    PROVE  ViewInv'
  BY DEF ViewInv, MouseInv, ViewTypes, HeldMouse, CaptureInv, Pointed, Nothing, Stay,
         DestroyContextMenu, NoMenu

LEMMA StartDragView ==
    ASSUME ViewInv, StartDrag
    PROVE  ViewInv'
  BY DEF ViewInv, MouseInv, ViewTypes, HeldMouse, CaptureInv, Pointed, Nothing, StartDrag

LEMMA EndDragView ==
    ASSUME ViewInv, EndDrag
    PROVE  ViewInv'
  <1> DEFINE n == Lost(mouse["toolbar"])
  <1> USE DEF Pointed
  <1>1. MouseInv /\ mouse["toolbar"] \in Mice("toolbar")
    BY DEF ViewInv, MouseInv
  <1>2. n \in Mice("toolbar") /\ n.pressed = Nothing
        /\ (Honest(mouse["toolbar"]) => Honest(n))
    BY <1>1, LostFine
  <1>3. mouse' = [mouse EXCEPT !["toolbar"] = n] /\ capture' = Nothing /\ dragging' = FALSE
        /\ UNCHANGED <<windows, menu, orphaned, leaked>> /\ Receives("toolbar")
    BY DEF EndDrag
  <1> HIDE DEF n
  <1>4. MouseInv' /\ mouse'["toolbar"] = n /\ mouse'["candidates"] = mouse["candidates"]
    BY <1>1, <1>2, <1>3, OneMouse
  <1>5. HeldMouse' /\ CaptureInv'
    BY <1>2, <1>3, <1>4 DEF ViewInv, ViewTypes, HeldMouse, CaptureInv, Nothing, Receives
  <1> QED BY <1>3, <1>4, <1>5 DEF ViewInv, ViewTypes, Nothing

\* A window is destroyed: it may take what it knows of the mouse with it.
LEMMA DestroyedMouse ==
    ASSUME ViewInv, NEW w \in Pointed, NEW told \in BOOLEAN, Destroyed(w, told)
    PROVE  /\ MouseInv'
           /\ w \notin orphaned' =>
                mouse'[w].pressed = Nothing /\ ~(w = "toolbar" /\ dragging')
           /\ \A v \in Pointed \ {w} : mouse'[v] = mouse[v]
           /\ mouse'[w].pressed \in {mouse[w].pressed, Nothing}
           /\ dragging' \in BOOLEAN /\ (dragging' # dragging => w = "toolbar" /\ ~dragging')
           /\ orphaned' \subseteq Pointed /\ orphaned \subseteq orphaned'
           /\ orphaned' \subseteq orphaned \cup {w}
           /\ windows' = [windows EXCEPT ![w] = "none"]
  <1> DEFINE known == IF told /\ capture = w THEN Lost(mouse[w]) ELSE mouse[w]
             left == [known EXCEPT !.tooltip = Nothing, !.armed = FALSE]
  <1>1. MouseInv /\ mouse[w] \in Mice(w) /\ orphaned \subseteq Pointed /\ dragging \in BOOLEAN
    BY DEF ViewInv, MouseInv, ViewTypes
  <1>2. known \in Mice(w) /\ known.pressed \in {mouse[w].pressed, Nothing}
    BY <1>1, LostFine
  <1>3. left \in Mice(w) /\ left.pressed = known.pressed
    BY <1>2 DEF Mice
  <1>4. left = NoMouse => Honest(left) /\ left.pressed = Nothing
    BY NoMouseFine
  <1>5. /\ windows' = [windows EXCEPT ![w] = "none"]
        /\ mouse' = [mouse EXCEPT ![w] = left]
        /\ dragging' = (dragging /\ ~(told /\ w = "toolbar" /\ capture = w))
        /\ orphaned' = IF left = NoMouse /\ ~(w = "toolbar" /\ dragging') THEN orphaned
                       ELSE orphaned \cup {w}
    BY DEF Destroyed
  <1> HIDE DEF left, known
  <1>6. /\ DOMAIN mouse' = Pointed /\ mouse'[w] = left
        /\ \A v \in Pointed \ {w} : mouse'[v] = mouse[v]
    BY <1>1, <1>5 DEF MouseInv
  <1>7. MouseInv'
    BY <1>1, <1>3, <1>4, <1>5, <1>6 DEF MouseInv
  <1>8. w \notin orphaned' => left = NoMouse /\ ~(w = "toolbar" /\ dragging')
    BY <1>5
  <1>9. dragging' \in BOOLEAN /\ (dragging' # dragging => w = "toolbar" /\ ~dragging')
    BY <1>1, <1>5
  <1> QED BY <1>1, <1>2, <1>3, <1>4, <1>5, <1>6, <1>7, <1>8, <1>9

\* Its capture is given up; a menu that was its owner's is gone.
LEMMA DestroyedView ==
    ASSUME ViewInv, NEW w \in Pointed, NEW told \in BOOLEAN, Destroyed(w, told),
           \/ capture' = GivenUpBy(w) /\ UNCHANGED menu
           \/ DestroyContextMenu,
           leaked' = (leaked /\ ~(w = "candidates" /\ capture' = Nothing))
    PROVE  ViewInv'
  <1>1. /\ MouseInv'
        /\ w \notin orphaned' =>
             mouse'[w].pressed = Nothing /\ ~(w = "toolbar" /\ dragging')
        /\ \A v \in Pointed \ {w} : mouse'[v] = mouse[v]
        /\ mouse'[w].pressed \in {mouse[w].pressed, Nothing}
        /\ dragging' \in BOOLEAN /\ (dragging' # dragging => w = "toolbar" /\ ~dragging')
        /\ orphaned' \subseteq Pointed /\ orphaned \subseteq orphaned'
        /\ orphaned' \subseteq orphaned \cup {w}
        /\ windows' = [windows EXCEPT ![w] = "none"]
    BY DestroyedMouse
  <1>2. capture' \in {capture, Nothing} /\ capture' # w
        /\ (capture \in Pointed \ {w} => capture' = capture)
        /\ (menu'.mode # Nothing <=> capture' = "menu")
    BY DEF ViewInv, ViewTypes, HeldMouse, GivenUpBy, DestroyContextMenu, NoMenu, Pointed, Nothing
  <1>3. leaked' = (leaked /\ ~(w = "candidates" /\ capture' = Nothing)) /\ leaked' \in BOOLEAN
    BY DEF ViewInv, ViewTypes
  <1>4. ViewTypes'
    BY <1>1, <1>2, <1>3 DEF ViewInv, ViewTypes
  <1>5. HeldMouse'
    BY <1>1, <1>2, <1>3 DEF ViewInv, ViewTypes, HeldMouse, CaptureInv, Pointed, Nothing
  <1>6. CaptureInv'
    <2>1. ASSUME leaked'
          PROVE  capture' = "candidates" /\ mouse'["candidates"].pressed = Nothing
      <3>1. leaked /\ capture = "candidates" /\ mouse["candidates"].pressed = Nothing
        BY <2>1, <1>3 DEF ViewInv, CaptureInv
      <3>2. capture' # Nothing \/ w # "candidates"
        BY <2>1, <1>3
      <3>3. w # "candidates" /\ capture' = "candidates"
        BY <3>1, <3>2, <1>2 DEF Pointed, Nothing
      <3> QED BY <3>1, <3>3, <1>1 DEF Pointed
    <2>2. ASSUME NEW v \in Pointed, capture' = v
          PROVE  windows'[v] # "none"
      <3>1. capture = v /\ v # w
        BY <2>2, <1>2 DEF Pointed, Nothing
      <3> QED BY <3>1, <1>1 DEF ViewInv, ViewTypes, CaptureInv
    <2> QED BY <2>1, <2>2 DEF CaptureInv
  <1> QED BY <1>1, <1>4, <1>5, <1>6 DEF ViewInv

\* A candidate window that is hidden forgets the mouse, and may keep its capture.
LEMMA HideCandidateWindowView ==
    ASSUME ViewInv, HideCandidateWindow, UNCHANGED <<menu, capture, dragging>>
    PROVE  ViewInv'
  <1> USE DEF Pointed
  <1>1. CASE windows["candidates"] = "none"
    BY <1>1, ViewKept DEF HideCandidateWindow, ViewInv, ViewTypes, Stay
  <1>2. CASE windows["candidates"] # "none"
    <2> DEFINE n == [NoMouse EXCEPT !.armed = mouse["candidates"].armed]
    <2>1. MouseInv /\ mouse["candidates"] \in Mice("candidates")
      BY DEF ViewInv, MouseInv
    <2>2. n \in Mice("candidates") /\ n.pressed = Nothing /\ Honest(n)
      BY <2>1 DEF NoMouse, Mice, Honest
    <2>3. /\ windows' = [windows EXCEPT !["candidates"] = "hidden"]
          /\ mouse' = [mouse EXCEPT !["candidates"] = n]
          /\ leaked' = (leaked \/ capture = "candidates")
          /\ orphaned' = orphaned \ {"candidates"}
      BY <1>2 DEF HideCandidateWindow
    <2> HIDE DEF n
    <2>4. MouseInv' /\ mouse'["candidates"] = n /\ mouse'["toolbar"] = mouse["toolbar"]
      BY <2>1, <2>2, <2>3 DEF MouseInv
    <2>5. leaked' \in BOOLEAN
      BY <2>3 DEF ViewInv, ViewTypes
    <2>6. ViewTypes'
      BY <2>3, <2>5 DEF ViewInv, ViewTypes
    <2>7. HeldMouse' /\ CaptureInv'
      BY <2>2, <2>3, <2>4 DEF ViewInv, ViewTypes, HeldMouse, CaptureInv, Nothing
    <2> QED BY <2>4, <2>6, <2>7 DEF ViewInv
  <1> QED BY <1>1, <1>2

-----------------------------------------------------------------------------
(* The toolbar's place and look, here and in the settings.                 *)

PlaceInv ==
    /\ bar \in Bars /\ disturbed \in BOOLEAN
    /\ saved \in Positions /\ (saved.user => saved.place # Nowhere)

LEMMA PositionFine ==
    ASSUME NEW b \in Bars
    PROVE  PositionToolbarWindow(b) \in Bars
  BY WindowsAssumption DEF PositionToolbarWindow, Bars

LEMMA SaveFine ==
    ASSUME PlaceInv, NEW b \in Bars
    PROVE  /\ SaveToolbarSetting(b) \in Positions
           /\ SaveToolbarSetting(b).user => SaveToolbarSetting(b).place # Nowhere
  BY DEF SaveToolbarSetting, PlaceInv, Bars, Positions

LEMMA PlaceKept ==
    ASSUME PlaceInv, UNCHANGED place
    PROVE  PlaceInv'
  BY DEF PlaceInv, place

LEMMA DropFine ==
    ASSUME PlaceInv, Drop \/ UNCHANGED <<bar, saved>>, UNCHANGED disturbed
    PROVE  PlaceInv'
  <1>1. CASE Drop
    <2>1. bar' \in Bars
      BY <1>1 DEF Drop, PlaceInv, Bars
    <2>2. saved' = SaveToolbarSetting(bar')
      BY <1>1 DEF Drop
    <2> QED BY <2>1, <2>2, SaveFine DEF PlaceInv
  <1>2. CASE UNCHANGED <<bar, saved>>
    BY <1>2 DEF PlaceInv
  <1> QED BY <1>1, <1>2

LEMMA KeepingCenterFine ==
    ASSUME PlaceInv, NEW b \in Bars, PositionToolbarWindowKeepingCenter(b)
    PROVE  PlaceInv'
  <1>1. CASE windows["toolbar"] = "shown" /\ b.user /\ b.place # Nowhere
    <2>1. bar' = [b EXCEPT !.place = b.at] /\ saved' = SaveToolbarSetting(bar')
          /\ disturbed' = FALSE
      BY <1>1 DEF PositionToolbarWindowKeepingCenter
    <2>2. bar' \in Bars
      BY <2>1 DEF Bars
    <2> QED BY <2>1, <2>2, SaveFine DEF PlaceInv
  <1>2. CASE ~(windows["toolbar"] = "shown" /\ b.user /\ b.place # Nowhere)
    BY <1>2, PositionFine DEF PositionToolbarWindowKeepingCenter, PlaceInv
  <1> QED BY <1>1, <1>2

LEMMA LoadFine ==
    ASSUME PlaceInv, LoadUserSettings
    PROVE  PlaceInv'
  <1>1. bar' = [bar EXCEPT !.user = saved.user, !.look = saved.look,
                           !.place = IF saved.user THEN saved.place ELSE Nowhere]
        /\ saved' = saved
    BY DEF LoadUserSettings
  <1>2. bar' \in Bars
    BY <1>1 DEF PlaceInv, Bars, Positions
  <1>3. disturbed' \in BOOLEAN
    BY DEF LoadUserSettings, PlaceInv
  <1> QED BY <1>1, <1>2, <1>3 DEF PlaceInv

LEMMA RefreshFine ==
    ASSUME PlaceInv, RefreshToolbarFromSettings
    PROVE  PlaceInv'
  <1> DEFINE read == [bar EXCEPT !.user = saved.user, !.look = saved.look,
                                 !.place = IF saved.user THEN saved.place ELSE bar.place]
  <1>1. read \in Bars
    BY DEF PlaceInv, Bars, Positions
  <1> QED BY <1>1, KeepingCenterFine DEF RefreshToolbarFromSettings

LEMMA OtherSavesFine ==
    ASSUME PlaceInv, OtherSaves
    PROVE  PlaceInv'
  BY DEF PlaceInv, OtherSaves, Positions

LEMMA DragToFine ==
    ASSUME PlaceInv, NEW p \in Places, DragTo(p)
    PROVE  PlaceInv'
  BY DEF PlaceInv, DragTo, Bars

-----------------------------------------------------------------------------
(* The menu and its submenu.                                               *)

AllRows == {"items", "layout", "hide", "charset", "toolbar", "restart"}
Leaves == {"reset", "charset"} \cup Looks
Menu == [mode : {"context", "gear", Nothing}, row : AllRows \cup {Nothing},
         parent : AllRows \cup {Nothing}, leaf : Leaves \cup {Nothing}]
MenuInv ==
    /\ menu \in Menu /\ {menu.row, menu.parent} \subseteq Rows(menu.mode) \cup {Nothing}
    /\ menu.leaf \in Submenu(menu.parent) \cup {Nothing}
    /\ SubmenuOfRow

LEMMA MenuKept ==
    ASSUME MenuInv, UNCHANGED menu
    PROVE  MenuInv'
  BY DEF MenuInv, SubmenuOfRow

LEMMA MenuNew ==
    ASSUME NEW mode \in {"context", "gear", Nothing}, menu' = [NoMenu EXCEPT !.mode = mode]
    PROVE  MenuInv' /\ menu'.mode = mode
  BY DEF MenuInv, NoMenu, Menu, SubmenuOfRow, Submenu, Nothing

LEMMA MenuGone ==
    ASSUME menu' = NoMenu
    PROVE  MenuInv'
  BY DEF MenuInv, NoMenu, Menu, SubmenuOfRow, Submenu, Nothing

LEMMA MenuMoveFine ==
    ASSUME MenuInv, NEW row, MenuMove(row)
    PROVE  MenuInv' /\ menu'.mode = menu.mode
  <1>1. menu' = [mode |-> menu.mode, row |-> row,
                 parent |-> IF Submenu(row) # {} THEN row ELSE Nothing, leaf |-> Nothing]
        /\ row \in Rows(menu.mode) \cup {Nothing} /\ menu.mode # Nothing
    BY DEF MenuMove, MenuInv, Menu
  <1>2. row \in AllRows \cup {Nothing}
    BY <1>1 DEF Rows, AllRows
  <1>3. menu' \in Menu
    BY <1>1, <1>2 DEF MenuInv, Menu
  <1> QED BY <1>1, <1>3 DEF MenuInv, SubmenuOfRow

LEMMA SubmenuMoveFine ==
    ASSUME MenuInv, NEW leaf, SubmenuMove(leaf)
    PROVE  MenuInv' /\ menu'.mode = menu.mode
  <1>1. menu' = [mode |-> menu.mode, row |-> menu.parent, parent |-> menu.parent,
                 leaf |-> leaf] /\ leaf \in Submenu(menu.parent)
    BY DEF SubmenuMove, MenuInv, Menu
  <1>2. leaf \in Leaves
    BY <1>1 DEF Submenu, Leaves
  <1>3. menu' \in Menu
    BY <1>1, <1>2 DEF MenuInv, Menu
  <1>4. menu.parent # Nothing => menu.mode # Nothing
    BY DEF MenuInv, SubmenuOfRow
  <1> QED BY <1>1, <1>3, <1>4 DEF MenuInv, SubmenuOfRow

\* What can be chosen of the look.
LEMMA ChoiceInLooks ==
    ASSUME MenuInv, menu.mode = "gear", menu.leaf # Nothing
    PROVE  menu.leaf \in {"reset"} \cup Looks
  BY DEF MenuInv, Rows, Submenu, Nothing

-----------------------------------------------------------------------------
(* Compositions, the focus and the status tip.                             *)

TextInv == composing \in BOOLEAN /\ focus \in BOOLEAN /\ tip \in BOOLEAN /\ StatusTipAlone

LEMMA TextKept ==
    ASSUME TextInv, UNCHANGED text
    PROVE  TextInv'
  BY DEF TextInv, text, StatusTipAlone, IsStatusTipAllowed

\* The tip goes, or stays with the focus where it was.
LEMMA TipGoes ==
    ASSUME TextInv, composing' \in BOOLEAN, focus' \in BOOLEAN, tip' = FALSE
    PROVE  TextInv'
  BY DEF TextInv, StatusTipAlone

LEMMA TipShown ==
    ASSUME TextInv, composing' \in BOOLEAN, focus' \in BOOLEAN,
           tip' \in {FALSE, ~composing' /\ IsStatusTipAllowed(focus')}
    PROVE  TextInv'
  <1>1. CASE tip' = FALSE
    BY <1>1, TipGoes
  <1>2. CASE tip' = (~composing' /\ IsStatusTipAllowed(focus'))
    BY <1>2 DEF TextInv, StatusTipAlone, IsStatusTipAllowed
  <1> QED BY <1>1, <1>2

LEMMA ShowStatusTipFine ==
    ASSUME PlaceInv, TextInv, composing' \in BOOLEAN, focus' \in BOOLEAN,
           ShowStatusTip(focus')
    PROVE  PlaceInv' /\ TextInv'
  <1>1. PlaceInv'
    BY LoadFine, PlaceKept DEF ShowStatusTip
  <1>2. tip' \in {FALSE, ~composing' /\ IsStatusTipAllowed(focus')}
    BY DEF ShowStatusTip
  <1> QED BY <1>1, <1>2, TipShown

LEMMA NoCandidatesText ==
    ASSUME TextInv, NoCandidates
    PROVE  TextInv'
  BY DEF TextInv, NoCandidates, StatusTipAlone

LEMMA RefreshInputStateText ==
    ASSUME TextInv, RefreshInputStateFromSettings
    PROVE  TextInv'
  <1>1. UNCHANGED <<composing, focus>>
        /\ tip' \in IF tip THEN {FALSE, ~composing /\ IsStatusTipAllowed(focus)} ELSE {FALSE}
    BY DEF RefreshInputStateFromSettings
  <1>2. tip' \in {FALSE, ~composing' /\ IsStatusTipAllowed(focus')}
    BY <1>1
  <1> QED BY <1>1, <1>2, TipShown DEF TextInv

-----------------------------------------------------------------------------
(* The steps.                                                              *)

Inv == ViewInv /\ PlaceInv /\ MenuInv /\ TextInv

LEMMA InitInv == Init => Inv
  <1> SUFFICES ASSUME Init PROVE Inv
    OBVIOUS
  <1>1. \A w \in Pointed : NoMouse \in Mice(w) /\ Honest(NoMouse) /\ NoMouse.pressed = Nothing
    BY NoMouseFine
  <1>2. ViewInv
    BY <1>1 DEF Init, ViewInv, MouseInv, ViewTypes, HeldMouse, CaptureInv, Pointed, NoMenu, Nothing
  <1>3. PlaceInv
    <2>1. PICK moved \in BOOLEAN, there \in Places :
            saved = [user |-> moved, place |-> IF moved THEN there ELSE Nowhere, look |-> {}]
      BY DEF Init
    <2>2. saved \in Positions /\ (saved.user => saved.place # Nowhere)
      BY <2>1, WindowsAssumption DEF Positions
    <2>3. bar = [user |-> saved.user, place |-> saved.place, look |-> {}, at |-> Corner]
      BY DEF Init
    <2>4. bar \in Bars
      BY <2>2, <2>3, WindowsAssumption DEF Bars, Positions
    <2> QED BY <2>2, <2>4 DEF Init, PlaceInv
  <1>4. MenuInv
    BY DEF Init, MenuInv, NoMenu, Menu, SubmenuOfRow, Submenu, Nothing
  <1>5. TextInv
    BY DEF Init, TextInv, StatusTipAlone
  <1> QED BY <1>2, <1>3, <1>4, <1>5 DEF Inv

LEMMA PointerStep ==
    ASSUME Inv, NEW w \in Pointed, OverToolbarOrCandidates(w)
    PROVE  Inv'
  <1> USE DEF Inv
  <1>1. UNCHANGED <<place, text, menu>>
    BY DEF OverToolbarOrCandidates, MouseMove, ReleaseElsewhere, MouseLeave, LeftButtonDown,
           TooltipTimer
  <1>2. PlaceInv' /\ MenuInv' /\ TextInv'
    BY <1>1, PlaceKept, MenuKept, TextKept
  <1>3. CASE \E s \in Spots(w) \cup {Nothing} : MouseMove(w, s)
    BY <1>2, <1>3, MouseMoveView
  <1>4. CASE ReleaseElsewhere(w)
    <2>1. PICK s \in Over(w) : Release(w, s)
      BY <1>4 DEF ReleaseElsewhere
    <2>2. Pressed(w) /\ UNCHANGED <<windows, dragging, menu, orphaned, leaked>>
      BY <1>4 DEF ReleaseElsewhere
    <2>3. ViewTypes' /\ Stay
      BY <2>1, <2>2 DEF ViewInv, ViewTypes, Stay, Release, GivenUpBy
    <2> QED BY <1>2, <2>1, <2>2, <2>3, ReleaseView
  <1>5. CASE MouseLeave(w)
    BY <1>2, <1>5, MouseLeaveView
  <1>6. CASE LeftButtonDown(w)
    BY <1>2, <1>6, LeftButtonDownView
  <1>7. CASE TooltipTimer(w)
    BY <1>2, <1>7, TooltipTimerView
  <1> QED BY <1>3, <1>4, <1>5, <1>6, <1>7 DEF OverToolbarOrCandidates

LEMMA DraggingStep ==
    ASSUME Inv, Dragging
    PROVE  Inv'
  <1> USE DEF Inv
  <1>1. CASE StartDrag
    <2>1. UNCHANGED <<place, text, menu>>
      BY <1>1 DEF StartDrag
    <2> QED BY <1>1, <2>1, StartDragView, PlaceKept, MenuKept, TextKept
  <1>2. CASE \E p \in Places : DragTo(p)
    <2>1. UNCHANGED <<view, text, orphaned, leaked>>
      BY <1>2 DEF DragTo
    <2>2. ViewTypes' /\ Stay
      BY <2>1 DEF ViewInv, ViewTypes, Stay, view
    <2>3. ViewInv' /\ MenuInv' /\ TextInv'
      BY <2>1, <2>2, ViewKept, MenuKept, TextKept DEF view
    <2> QED BY <1>2, <2>3, DragToFine
  <1>3. CASE EndDrag
    <2>1. UNCHANGED <<text, menu, disturbed>> /\ (Drop \/ UNCHANGED <<bar, saved>>)
      BY <1>3 DEF EndDrag
    <2> QED BY <1>3, <2>1, EndDragView, DropFine, MenuKept, TextKept
  <1> QED BY <1>1, <1>2, <1>3 DEF Dragging

\* A menu is opened: it takes the mouse.
LEMMA MenuOpened ==
    ASSUME Inv, NEW mode \in {"context", "gear"}, ShowContextMenu(mode), LoseCapture,
           UNCHANGED <<windows, orphaned, text, disturbed>>
    PROVE  Inv'
  <1> USE DEF Inv
  <1>1. capture' = "menu" /\ menu' = [NoMenu EXCEPT !.mode = mode]
    BY DEF ShowContextMenu, Opened
  <1>2. MenuInv' /\ menu'.mode = mode
    BY <1>1, MenuNew
  <1>3. ViewInv'
    BY <1>1, <1>2, LoseCaptureView DEF Nothing
  <1>4. Drop \/ UNCHANGED <<bar, saved>>
    BY DEF LoseCapture
  <1> QED BY <1>2, <1>3, <1>4, DropFine, TextKept

LEMMA ClicksStep ==
    ASSUME Inv, Clicks
    PROVE  Inv'
  <1> USE DEF Inv
  <1>1. CASE ClickGear
    <2> DEFINE n == Settled("toolbar", "gear")
    <2> USE DEF Pointed
    <2>1. /\ Pressed("toolbar") /\ mouse["toolbar"].pressed = "gear"
          /\ "gear" \in Over("toolbar") /\ mouse' = [mouse EXCEPT !["toolbar"] = n]
          /\ menu' = [NoMenu EXCEPT !.mode = "gear"] /\ capture' = "menu"
          /\ UNCHANGED <<windows, dragging, place, text, orphaned, leaked>>
      BY <1>1 DEF ClickGear, Clicked, Opened
    <2>2. MouseInv /\ mouse["toolbar"] \in Mice("toolbar")
      BY DEF ViewInv, MouseInv
    <2>3. n \in Mice("toolbar") /\ n.pressed = Nothing
          /\ (Honest(mouse["toolbar"]) => Honest(n))
      BY <2>1, <2>2, SettledFine
    <2> HIDE DEF n
    <2>4. MouseInv' /\ mouse'["toolbar"] = n /\ mouse'["candidates"] = mouse["candidates"]
      BY <2>1, <2>2, <2>3, OneMouse
    <2>5. MenuInv' /\ menu'.mode = "gear"
      BY <2>1, MenuNew
    <2>6. mouse["toolbar"].pressed # Nothing /\ Receives("toolbar") /\ ~dragging
      BY <2>1 DEF Pressed
    <2>7. HeldMouse' /\ CaptureInv'
      BY <2>1, <2>3, <2>4, <2>5, <2>6
         DEF ViewInv, ViewTypes, HeldMouse, CaptureInv, Nothing, Receives
    <2>8. ViewTypes'
      BY <2>1 DEF ViewInv, ViewTypes
    <2> QED BY <2>1, <2>4, <2>5, <2>7, <2>8, PlaceKept, TextKept DEF ViewInv
  <1>2. CASE ClickMode
    <2>1. /\ Pressed("toolbar") /\ "mode" \in Over("toolbar") /\ Release("toolbar", "mode")
          /\ UNCHANGED <<composing, focus, windows, menu, dragging, orphaned, leaked>>
          /\ ShowStatusTip(focus')
      BY <1>2 DEF ClickMode, Clicked, ToggleAsciiMode
    <2>2. ViewTypes' /\ Stay
      BY <2>1 DEF ViewInv, ViewTypes, Stay, Release, GivenUpBy
    <2>3. ViewInv'
      BY <2>1, <2>2, ReleaseView DEF Pointed
    <2>4. PlaceInv' /\ TextInv'
      BY <2>1, ShowStatusTipFine DEF TextInv
    <2> QED BY <2>1, <2>3, <2>4, MenuKept
  <1>3. ASSUME NEW s \in Tools, ClickTool(s)
        PROVE  Inv'
    <2> USE DEF Pointed
    <2>1. /\ Pressed("candidates") /\ mouse["candidates"].pressed = s /\ s \in Over("candidates")
          /\ UNCHANGED <<menu, dragging, place, composing, focus, orphaned, leaked>>
      BY <1>3 DEF ClickTool, Clicked
    <2>2. PlaceInv' /\ MenuInv'
      BY <2>1, PlaceKept, MenuKept
    <2>3. CASE s \in Paged /\ composing
      <3>1. Release("candidates", s) /\ tip' = FALSE /\ Show("candidates")
        BY <1>3, <2>3 DEF ClickTool
      <3>2. ViewTypes' /\ Stay
        BY <2>1, <3>1 DEF ViewInv, ViewTypes, Stay, Release, GivenUpBy, Show
      <3>3. ViewInv'
        BY <2>1, <3>1, <3>2, ReleaseView
      <3>4. TextInv'
        BY <2>1, <3>1, TipGoes DEF TextInv
      <3> QED BY <2>2, <3>3, <3>4
    <2>4. CASE ~(s \in Paged /\ composing)
      <3> DEFINE n == Settled("candidates", s)
                 t == IF s \in Paged THEN mouse["toolbar"]
                      ELSE WithoutTooltip(mouse["toolbar"])
      <3>1. /\ capture' = GivenUpBy("candidates") /\ UNCHANGED <<windows, tip>>
            /\ DOMAIN mouse' = Pointed /\ mouse'["candidates"] = n /\ mouse'["toolbar"] = t
        BY <1>3, <2>4 DEF ClickTool
      <3>2. MouseInv /\ mouse["candidates"] \in Mice("candidates")
            /\ mouse["toolbar"] \in Mice("toolbar")
        BY DEF ViewInv, MouseInv
      <3>3. n \in Mice("candidates") /\ n.pressed = Nothing
            /\ (Honest(mouse["candidates"]) => Honest(n))
        BY <2>1, <3>2, SettledFine
      <3>4. t \in Mice("toolbar") /\ t.pressed = mouse["toolbar"].pressed
            /\ (Honest(mouse["toolbar"]) => Honest(t))
        BY <3>2, WithoutTooltipFine
      <3> HIDE DEF n, t
      <3>5. MouseInv'
        BY <2>1, <3>1, <3>2, <3>3, <3>4 DEF MouseInv
      <3>6. HeldMouse' /\ CaptureInv'
        BY <2>1, <3>1, <3>3, <3>4
           DEF ViewInv, ViewTypes, HeldMouse, CaptureInv, Nothing, GivenUpBy, Pressed
      <3>7. ViewTypes'
        BY <2>1, <3>1 DEF ViewInv, ViewTypes, GivenUpBy
      <3>8. TextInv'
        BY <2>1, <3>1, TextKept DEF text
      <3> QED BY <2>2, <3>5, <3>6, <3>7, <3>8 DEF ViewInv
    <2> QED BY <2>3, <2>4
  <1>4. CASE RightButtonUp
    BY <1>4, MenuOpened DEF RightButtonUp
  <1>5. CASE LangBarClick
    BY <1>5, MenuOpened DEF LangBarClick
  <1>6. CASE LangBarToggle
    <2>1. /\ UNCHANGED <<composing, focus, windows, menu, dragging, orphaned, leaked>>
          /\ ShowStatusTip(focus') /\ UNCHANGED <<mouse, capture>>
      BY <1>6 DEF LangBarToggle, ToggleAsciiMode
    <2>2. ViewTypes' /\ Stay
      BY <2>1 DEF ViewInv, ViewTypes, Stay
    <2>3. PlaceInv' /\ TextInv'
      BY <2>1, ShowStatusTipFine DEF TextInv
    <2> QED BY <2>1, <2>2, <2>3, ViewKept, MenuKept
  <1> QED BY <1>1, <1>2, <1>3, <1>4, <1>5, <1>6 DEF Clicks

\* The look is chosen: the menu is gone, the toolbar drawn anew.
LEMMA ChooseLookFine ==
    ASSUME Inv, NEW choice \in {"reset"} \cup Looks, ChooseLook(choice)
    PROVE  Inv'
  <1> USE DEF Inv
  <1> DEFINE new == [bar EXCEPT !.look = Toggled(bar.look, choice)]
  <1>1. /\ DestroyContextMenu /\ UNCHANGED <<windows, mouse, dragging, text, orphaned, leaked>>
        /\ IF windows["toolbar"] = "shown" THEN PositionToolbarWindowKeepingCenter(new)
           ELSE bar' = new /\ saved' = SaveToolbarSetting(new) /\ UNCHANGED disturbed
    BY DEF ChooseLook
  <1>2. Toggled(bar.look, choice) \in SUBSET Looks
    BY WindowsAssumption DEF Toggled, PlaceInv, Bars
  <1>3. new \in Bars
    BY <1>2 DEF PlaceInv, Bars
  <1>4. ViewTypes' /\ Stay
    BY <1>1 DEF ViewInv, ViewTypes, Stay, DestroyContextMenu, Nothing
  <1>5. ViewInv'
    BY <1>1, <1>4, MenuGoneView
  <1>6. PlaceInv'
    BY <1>1, <1>3, KeepingCenterFine, SaveFine DEF PlaceInv
  <1> QED BY <1>1, <1>5, <1>6, MenuGone, TextKept DEF DestroyContextMenu

LEMMA MenusStep ==
    ASSUME Inv, Menus
    PROVE  Inv'
  <1> USE DEF Inv
  <1>1. ASSUME MenuChanges, MenuInv', menu'.mode = menu.mode
        PROVE  Inv'
    <2>1. UNCHANGED <<windows, mouse, capture, dragging, orphaned, leaked, place, text>>
      BY <1>1 DEF MenuChanges
    <2>2. ViewInv'
      BY <1>1, <2>1 DEF ViewInv, MouseInv, ViewTypes, HeldMouse, CaptureInv
    <2> QED BY <1>1, <2>1, <2>2, PlaceKept, TextKept
  <1>2. CASE \E row \in Rows(menu.mode) \cup {Nothing} : MenuMove(row)
    BY <1>1, <1>2, MenuMoveFine DEF MenuMove
  <1>3. CASE \E leaf \in Submenu(menu.parent) : SubmenuMove(leaf)
    BY <1>1, <1>3, SubmenuMoveFine DEF SubmenuMove
  <1>4. CASE MenuLeave
    <2>1. menu' = [NoMenu EXCEPT !.mode = menu.mode] /\ MenuChanges
      BY <1>4 DEF MenuLeave, Opened
    <2>2. menu.mode \in {"context", "gear", Nothing}
      BY DEF MenuInv, Menu
    <2> QED BY <1>1, <2>1, <2>2, MenuNew
  <1>5. CASE DismissMenu
    <2>1. DestroyContextMenu
          /\ UNCHANGED <<windows, mouse, dragging, place, text, orphaned, leaked>>
      BY <1>5 DEF DismissMenu
    <2>2. ViewTypes' /\ Stay
      BY <2>1 DEF ViewInv, ViewTypes, Stay, DestroyContextMenu, Nothing
    <2> QED BY <2>1, <2>2, MenuGoneView, MenuGone, PlaceKept, TextKept DEF DestroyContextMenu
  <1>6. CASE CaptureTaken
    <2>1. /\ capture # Nothing /\ capture' = Nothing /\ LoseCapture
          /\ menu' = IF capture = "menu" THEN NoMenu ELSE menu
          /\ UNCHANGED <<windows, disturbed, text, orphaned>>
      BY <1>6 DEF CaptureTaken, HideContextMenu
    <2>2. menu'.mode = Nothing
      BY <2>1 DEF ViewInv, HeldMouse, NoMenu
    <2>3. ViewInv'
      BY <2>1, <2>2, LoseCaptureView DEF Nothing
    <2>4. MenuInv'
      BY <2>1, MenuGone, MenuKept
    <2>5. Drop \/ UNCHANGED <<bar, saved>>
      BY <2>1 DEF LoseCapture
    <2> QED BY <2>1, <2>3, <2>4, <2>5, DropFine, TextKept
  <1>7. CASE ToggleToolbarLayout
    BY <1>7, ChooseLookFine, WindowsAssumption DEF ToggleToolbarLayout
  <1>8. CASE ToggleToolbarItemVisibility
    BY <1>8, ChooseLookFine, ChoiceInLooks DEF ToggleToolbarItemVisibility
  <1>9. CASE ToggleToolbarWindow
    <2>1. DestroyContextMenu /\ saved' = SaveToolbarSetting(bar)
          /\ UNCHANGED <<disturbed, text, leaked>>
      BY <1>9 DEF ToggleToolbarWindow
    <2>2. capture = "menu" /\ capture' = Nothing /\ ~leaked
      BY <2>1 DEF ViewInv, HeldMouse, CaptureInv, DestroyContextMenu
    <2>3. MenuInv' /\ TextInv'
      BY <2>1, MenuGone, TextKept DEF DestroyContextMenu
    <2>4. CASE windows["toolbar"] = "shown"
      <3>1. Destroyed("toolbar", FALSE) /\ UNCHANGED bar
        BY <1>9, <2>4 DEF ToggleToolbarWindow
      <3>2. leaked' = (leaked /\ ~("toolbar" = "candidates" /\ capture' = Nothing))
        BY <2>1 DEF ViewInv, ViewTypes
      <3>3. ViewInv'
        BY <2>1, <3>1, <3>2, DestroyedView DEF Pointed
      <3>4. PlaceInv'
        BY <2>1, <3>1, SaveFine DEF PlaceInv
      <3> QED BY <2>3, <3>3, <3>4
    <2>5. CASE windows["toolbar"] # "shown"
      <3>1. UNCHANGED <<mouse, dragging, orphaned>>
            /\ (ShowToolbarWindow \/ UNCHANGED <<windows, bar>>)
        BY <1>9, <2>5 DEF ToggleToolbarWindow
      <3>2. ViewTypes' /\ Stay
        BY <2>1, <2>2, <3>1 DEF ViewInv, ViewTypes, Stay, ShowToolbarWindow, Show, Nothing
      <3>3. ViewInv'
        BY <2>1, <3>1, <3>2, MenuGoneView
      <3>4. bar' \in Bars
        BY <3>1, PositionFine DEF ShowToolbarWindow, PlaceInv
      <3>5. PlaceInv'
        BY <2>1, <3>4, SaveFine DEF PlaceInv
      <3> QED BY <2>3, <3>3, <3>5
    <2> QED BY <2>4, <2>5
  <1>10. CASE ChooseCharset
    <2>1. /\ DestroyContextMenu /\ UNCHANGED <<composing, mouse, dragging, focus, orphaned, leaked>>
          /\ ShowStatusTip(focus')
          /\ Show("candidates") \/ UNCHANGED windows
      BY <1>10 DEF ChooseCharset
    <2>2. ViewTypes' /\ Stay
      BY <2>1 DEF ViewInv, ViewTypes, Stay, Show, DestroyContextMenu, Nothing
    <2>3. ViewInv' /\ MenuInv'
      BY <2>1, <2>2, MenuGoneView, MenuGone DEF DestroyContextMenu
    <2>4. PlaceInv' /\ TextInv'
      BY <2>1, ShowStatusTipFine DEF TextInv
    <2> QED BY <2>3, <2>4
  <1>11. CASE ChooseRestart
    <2>1. /\ DestroyContextMenu /\ composing' = FALSE /\ tip' = FALSE
          /\ DestroyCandidateWindow /\ UNCHANGED <<place, focus, leaked>>
      BY <1>11 DEF ChooseRestart, RestartRimeAndAlgorithmService
    <2>2. capture = "menu" /\ capture' = Nothing /\ ~leaked /\ leaked \in BOOLEAN
      BY <2>1 DEF ViewInv, ViewTypes, HeldMouse, CaptureInv, DestroyContextMenu
    <2>3. ViewInv'
      <3>1. CASE windows["candidates"] = "none"
        <4>1. UNCHANGED <<windows, mouse, dragging, orphaned>>
          BY <2>1, <3>1 DEF DestroyCandidateWindow
        <4>2. ViewTypes' /\ Stay
          BY <2>1, <2>2, <4>1 DEF ViewInv, ViewTypes, Stay, Nothing
        <4> QED BY <2>1, <4>1, <4>2, MenuGoneView
      <3>2. CASE windows["candidates"] # "none"
        <4>1. PICK told \in BOOLEAN : Destroyed("candidates", told)
          BY <2>1, <3>2 DEF DestroyCandidateWindow
        <4>2. leaked' = (leaked /\ ~("candidates" = "candidates" /\ capture' = Nothing))
          BY <2>1, <2>2
        <4> QED BY <2>1, <4>1, <4>2, DestroyedView DEF Pointed
      <3> QED BY <3>1, <3>2
    <2>4. TextInv'
      BY <2>1, TipGoes DEF TextInv
    <2> QED BY <2>1, <2>3, <2>4, MenuGone, PlaceKept DEF DestroyContextMenu
  <1> QED BY <1>2, <1>3, <1>4, <1>5, <1>6, <1>7, <1>8, <1>9, <1>10, <1>11 DEF Menus

LEMMA InputStep ==
    ASSUME Inv, Input
    PROVE  Inv'
  <1> USE DEF Inv
  <1>1. CASE ShowCandidateWindow
    <2>1. /\ composing' = TRUE /\ tip' = FALSE /\ Show("candidates")
          /\ UNCHANGED <<mouse, menu, capture, dragging, place, focus, orphaned, leaked>>
      BY <1>1 DEF ShowCandidateWindow
    <2>2. ViewTypes' /\ Stay
      BY <2>1 DEF ViewInv, ViewTypes, Stay, Show
    <2>3. TextInv'
      BY <2>1, TipGoes DEF TextInv
    <2> QED BY <2>1, <2>2, <2>3, ViewKept, MenuKept, PlaceKept
  <1>2. CASE NoCandidates
    <2>1. HideCandidateWindow /\ UNCHANGED <<menu, capture, dragging, place>>
      BY <1>2 DEF NoCandidates
    <2> QED BY <1>2, <2>1, HideCandidateWindowView, NoCandidatesText, MenuKept, PlaceKept
  <1>3. CASE CandidateWatchTimer
    <2>1. HideCandidateWindow /\ UNCHANGED <<menu, capture, dragging, place, text>>
      BY <1>3 DEF CandidateWatchTimer
    <2> QED BY <2>1, HideCandidateWindowView, MenuKept, PlaceKept, TextKept
  <1>4. CASE ToggleAsciiModeFromKey
    <2>1. /\ composing' = FALSE /\ ShowStatusTip(focus')
          /\ HideCandidateWindow \/ UNCHANGED <<windows, mouse, leaked, orphaned>>
          /\ UNCHANGED <<menu, capture, dragging, focus>>
      BY <1>4 DEF ToggleAsciiModeFromKey
    <2>2. ViewInv'
      <3>1. CASE HideCandidateWindow
        BY <2>1, <3>1, HideCandidateWindowView
      <3>2. CASE UNCHANGED <<windows, mouse, leaked, orphaned>>
        <4>1. ViewTypes' /\ Stay
          BY <2>1, <3>2 DEF ViewInv, ViewTypes, Stay
        <4> QED BY <2>1, <3>2, <4>1, ViewKept
      <3> QED BY <2>1, <3>1, <3>2
    <2>3. PlaceInv' /\ TextInv'
      BY <2>1, ShowStatusTipFine DEF TextInv
    <2> QED BY <2>1, <2>2, <2>3, MenuKept
  <1>5. CASE GainFocus
    <2>1. /\ focus' = TRUE /\ UNCHANGED <<composing, view, orphaned, leaked>>
          /\ ShowStatusTip(focus')
      BY <1>5 DEF GainFocus
    <2>2. ViewTypes' /\ Stay
      BY <2>1 DEF ViewInv, ViewTypes, Stay, view
    <2>3. ViewInv' /\ MenuInv'
      BY <2>1, <2>2, ViewKept, MenuKept DEF view
    <2>4. PlaceInv' /\ TextInv'
      BY <2>1, ShowStatusTipFine DEF TextInv
    <2> QED BY <2>3, <2>4
  <1>6. CASE LoseFocus
    <2>1. /\ focus' = FALSE /\ composing' = FALSE /\ tip' = FALSE
          /\ HideCandidateWindow /\ UNCHANGED <<menu, capture, dragging, place>>
      BY <1>6 DEF LoseFocus
    <2>2. TextInv'
      BY <2>1, TipGoes
    <2> QED BY <2>1, <2>2, HideCandidateWindowView, MenuKept, PlaceKept
  <1>7. CASE StatusTipTimer
    <2>1. tip' = FALSE /\ UNCHANGED <<view, place, composing, focus, orphaned, leaked>>
      BY <1>7 DEF StatusTipTimer
    <2>2. ViewTypes' /\ Stay
      BY <2>1 DEF ViewInv, ViewTypes, Stay, view
    <2>3. ViewInv' /\ MenuInv'
      BY <2>1, <2>2, ViewKept, MenuKept DEF view
    <2>4. TextInv'
      BY <2>1, TipGoes DEF TextInv
    <2> QED BY <2>1, <2>3, <2>4, PlaceKept
  <1>8. CASE RestartByMessage
    <2>1. /\ composing' = FALSE /\ tip' = FALSE /\ DestroyCandidateWindow
          /\ UNCHANGED <<place, focus, menu>> /\ capture' = GivenUpBy("candidates")
          /\ leaked' = (leaked /\ capture' # Nothing)
      BY <1>8 DEF RestartByMessage, RestartRimeAndAlgorithmService
    <2>2. ViewInv'
      <3>1. CASE windows["candidates"] = "none"
        <4>1. UNCHANGED <<windows, mouse, dragging, orphaned>>
          BY <2>1, <3>1 DEF DestroyCandidateWindow
        <4>2. capture' = capture
          BY <2>1, <3>1 DEF GivenUpBy, ViewInv, CaptureInv, Pointed
        <4>3. leaked' = leaked
          BY <2>1, <4>2 DEF ViewInv, ViewTypes, CaptureInv, Nothing
        <4>4. ViewTypes' /\ Stay
          BY <4>1, <4>2, <4>3 DEF ViewInv, ViewTypes, Stay
        <4> QED BY <2>1, <4>1, <4>2, <4>3, <4>4, ViewKept
      <3>2. CASE windows["candidates"] # "none"
        <4>1. PICK told \in BOOLEAN : Destroyed("candidates", told)
          BY <2>1, <3>2 DEF DestroyCandidateWindow
        <4>2. leaked' = (leaked /\ ~("candidates" = "candidates" /\ capture' = Nothing))
          BY <2>1
        <4> QED BY <2>1, <4>1, <4>2, DestroyedView DEF Pointed
      <3> QED BY <3>1, <3>2
    <2>3. TextInv'
      BY <2>1, TipGoes DEF TextInv
    <2> QED BY <2>1, <2>2, <2>3, MenuKept, PlaceKept
  <1> QED BY <1>1, <1>2, <1>3, <1>4, <1>5, <1>6, <1>7, <1>8 DEF Input

LEMMA SettingsStep ==
    ASSUME Inv, Settings
    PROVE  Inv'
  <1> USE DEF Inv
  <1>1. CASE ToolbarComes
    <2>1. /\ Show("toolbar") /\ bar' = PositionToolbarWindow(bar)
          /\ UNCHANGED <<mouse, menu, capture, dragging, saved, disturbed, text, orphaned, leaked>>
      BY <1>1 DEF ToolbarComes, ShowToolbarWindow
    <2>2. ViewTypes' /\ Stay
      BY <2>1 DEF ViewInv, ViewTypes, Stay, Show
    <2>3. PlaceInv'
      BY <2>1, PositionFine DEF PlaceInv
    <2> QED BY <2>1, <2>2, <2>3, ViewKept, MenuKept, TextKept
  <1>2. CASE DestroyToolbarWindow
    <2>1. /\ capture' = GivenUpBy("toolbar") /\ UNCHANGED <<menu, disturbed, text, leaked>>
          /\ Drop \/ UNCHANGED <<bar, saved>>
      BY <1>2 DEF DestroyToolbarWindow
    <2>2. PICK told \in BOOLEAN : Destroyed("toolbar", told)
      BY <1>2 DEF DestroyToolbarWindow
    <2>3. leaked' = (leaked /\ ~("toolbar" = "candidates" /\ capture' = Nothing))
      BY <2>1 DEF ViewInv, ViewTypes
    <2>4. ViewInv'
      BY <2>1, <2>2, <2>3, DestroyedView DEF Pointed
    <2> QED BY <2>1, <2>4, DropFine, MenuKept, TextKept
  <1>3. ASSUME UNCHANGED <<view, orphaned, leaked>>
        PROVE  ViewInv' /\ MenuInv'
    <2>1. ViewTypes' /\ Stay
      BY <1>3 DEF ViewInv, ViewTypes, Stay, view
    <2> QED BY <1>3, <2>1, ViewKept, MenuKept DEF view
  <1>4. CASE RefreshToolbarFromSettings
    <2>1. UNCHANGED <<view, text, orphaned, leaked>>
      BY <1>4 DEF RefreshToolbarFromSettings
    <2> QED BY <1>3, <1>4, <2>1, RefreshFine, TextKept
  <1>5. CASE RefreshInputStateFromSettings
    <2>1. UNCHANGED <<view, orphaned, leaked>> /\ LoadUserSettings
      BY <1>5 DEF RefreshInputStateFromSettings
    <2> QED BY <1>3, <1>5, <2>1, LoadFine, RefreshInputStateText
  <1>6. CASE OtherSaves
    <2>1. UNCHANGED <<view, text, orphaned, leaked>>
      BY <1>6 DEF OtherSaves
    <2> QED BY <1>3, <1>6, <2>1, OtherSavesFine, TextKept
  <1> QED BY <1>1, <1>2, <1>4, <1>5, <1>6 DEF Settings

LEMMA NextInv == Inv /\ [Next]_vars => Inv'
  <1> SUFFICES ASSUME Inv, [Next]_vars PROVE Inv'
    OBVIOUS
  <1>1. CASE Next
    BY <1>1, PointerStep, DraggingStep, ClicksStep, MenusStep, InputStep, SettingsStep DEF Next
  <1>2. CASE UNCHANGED vars
    <2>1. /\ UNCHANGED <<windows, mouse, dragging, capture, menu, orphaned, leaked>>
          /\ UNCHANGED <<place, text>>
      BY <1>2 DEF vars, place, text
    <2>2. ViewTypes' /\ Stay
      BY <2>1 DEF Inv, ViewInv, ViewTypes, Stay
    <2> QED BY <2>1, <2>2, ViewKept, MenuKept, PlaceKept, TextKept DEF Inv
  <1> QED BY <1>1, <1>2

-----------------------------------------------------------------------------
(* The theorems.                                                           *)

LEMMA Invariance == Spec => []Inv
  BY InitInv, NextInv, PTL DEF Spec

LEMMA InvTypeOK == Inv => TypeOK
  <1> SUFFICES ASSUME Inv PROVE TypeOK
    OBVIOUS
  <1>1. /\ windows \in [Pointed -> {"none", "hidden", "shown"}]
        /\ DOMAIN mouse = Pointed /\ \A w \in Pointed : mouse[w] \in Mice(w)
        /\ dragging \in BOOLEAN /\ capture \in Pointed \cup {"menu", Nothing}
        /\ leaked \in BOOLEAN /\ orphaned \subseteq Pointed
    BY DEF Inv, ViewInv, MouseInv, ViewTypes
  <1>2. /\ menu.mode \in {"context", "gear", Nothing}
        /\ {menu.row, menu.parent} \subseteq Rows(menu.mode) \cup {Nothing}
        /\ menu.leaf \in Submenu(menu.parent) \cup {Nothing}
    BY DEF Inv, MenuInv, Menu
  <1>3. bar \in Bars /\ saved \in Positions /\ (saved.user => saved.place # Nowhere)
        /\ disturbed \in BOOLEAN /\ composing \in BOOLEAN /\ focus \in BOOLEAN /\ tip \in BOOLEAN
    BY DEF Inv, PlaceInv, TextInv
  <1> QED BY <1>1, <1>2, <1>3 DEF TypeOK

(* Every variable keeps its type, and the place of a drop is saved with it. *)
THEOREM TypeCorrect == Spec => []TypeOK
  BY Invariance, InvTypeOK, PTL

(* The mouse is captured by the menu that is shown or by the window that   *)
(* has a press or a drag, and given back when that ends: in every order of *)
(* moves, clicks, menus, timers, restarts and destructions of the windows. *)
THEOREM HeldMouseCorrect == Spec => []HeldMouse
  <1>1. Inv => HeldMouse
    BY DEF Inv, ViewInv
  <1> QED BY <1>1, Invariance, PTL

(* Whatever closes the menu or moves in it, a submenu is that of the row   *)
(* that is hovered.                                                        *)
THEOREM SubmenuOfRowCorrect == Spec => []SubmenuOfRow
  <1>1. Inv => SubmenuOfRow
    BY DEF Inv, MenuInv
  <1> QED BY <1>1, Invariance, PTL

(* A window that highlights a tool or shows its tooltip is owed a notice   *)
(* of the mouse's leaving.                                                 *)
THEOREM TooltipsEndCorrect == Spec => []TooltipsEnd
  <1>1. Inv => TooltipsEnd
    BY DEF Inv, ViewInv, MouseInv, Honest, TooltipsEnd
  <1> QED BY <1>1, Invariance, PTL

(* The status tip is never beside a composition, nor without the focus.    *)
THEOREM StatusTipAloneCorrect == Spec => []StatusTipAlone
  <1>1. Inv => StatusTipAlone
    BY DEF Inv, TextInv
  <1> QED BY <1>1, Invariance, PTL

-----------------------------------------------------------------------------
(* What makes SavedIsShown inductive, also while the toolbar is not shown.  *)

\* A bar that was moved has a place, and it is shown there; where it was put
\* last is in the settings, unless it is being dragged.
BarInv ==
    /\ bar.user => bar.place # Nowhere
    /\ ~disturbed /\ windows["toolbar"] = "shown" => bar.place = bar.at
    /\ ~disturbed /\ ~dragging /\ bar.user =>
         saved = [user |-> TRUE, place |-> bar.place, look |-> bar.look]

\* Nothing about the place changes, no drag ends and no toolbar comes.
NoMoreShown == windows'["toolbar"] = "shown" => windows["toolbar"] = "shown"
LEMMA BarKept ==
    ASSUME BarInv, UNCHANGED place, ~dragging' => ~dragging, NoMoreShown
    PROVE  BarInv'
  BY DEF BarInv, place, NoMoreShown

\* A drag that ends is a drop, if there is a place.
EndsInDrop ==
    /\ UNCHANGED disturbed
    /\ \/ Drop /\ bar.place # Nowhere
       \/ UNCHANGED <<bar, saved>> /\ (~dragging' => ~dragging \/ bar.place = Nowhere)
LEMMA BarDropped ==
    ASSUME PlaceInv, BarInv, EndsInDrop, NoMoreShown
    PROVE  BarInv'
  <1>1. CASE Drop /\ bar.place # Nowhere
    <2>1. /\ bar'.user = TRUE /\ bar'.place = bar.place /\ bar'.look = bar.look /\ bar'.at = bar.at
          /\ saved' = SaveToolbarSetting(bar')
      BY <1>1 DEF Drop, PlaceInv, Bars
    <2>2. saved' = [user |-> TRUE, place |-> bar'.place, look |-> bar'.look]
      BY <1>1, <2>1 DEF SaveToolbarSetting, PlaceInv, Positions
    <2> QED BY <1>1, <2>1, <2>2 DEF BarInv, EndsInDrop, NoMoreShown
  <1>2. CASE UNCHANGED <<bar, saved>> /\ (~dragging' => ~dragging \/ bar.place = Nowhere)
    BY <1>2 DEF BarInv, EndsInDrop, NoMoreShown
  <1> QED BY <1>1, <1>2 DEF EndsInDrop

LEMMA BarCentered ==
    ASSUME PlaceInv, BarInv, NEW b \in Bars, b.user => b.place # Nowhere,
           windows["toolbar"] = "shown", PositionToolbarWindowKeepingCenter(b)
    PROVE  BarInv'
  <1>1. CASE b.user
    <2>1. bar' = [b EXCEPT !.place = b.at] /\ saved' = SaveToolbarSetting(bar')
      BY <1>1 DEF PositionToolbarWindowKeepingCenter
    <2>2. bar'.user /\ bar'.place = bar'.at /\ bar'.place # Nowhere
      BY <1>1, <2>1, WindowsAssumption DEF Bars
    <2>3. saved' = [user |-> TRUE, place |-> bar'.place, look |-> bar'.look]
      BY <2>1, <2>2 DEF SaveToolbarSetting
    <2> QED BY <2>2, <2>3 DEF BarInv
  <1>2. CASE ~b.user
    <2>1. bar' = [b EXCEPT !.place = Corner, !.at = Corner]
      BY <1>2 DEF PositionToolbarWindowKeepingCenter, PositionToolbarWindow
    <2>2. ~bar'.user /\ bar'.place = bar'.at
      BY <1>2, <2>1 DEF Bars
    <2> QED BY <2>2 DEF BarInv
  <1> QED BY <1>1, <1>2

LEMMA BarLoaded ==
    ASSUME PlaceInv, BarInv, LoadUserSettings \/ UNCHANGED place, UNCHANGED dragging, NoMoreShown
    PROVE  BarInv'
  <1>1. CASE LoadUserSettings
    <2>1. /\ bar' = [bar EXCEPT !.user = saved.user, !.look = saved.look,
                                !.place = IF saved.user THEN saved.place ELSE Nowhere]
          /\ disturbed' = (disturbed \/ bar'.place # bar.at) /\ saved' = saved
      BY <1>1 DEF LoadUserSettings
    <2>2. /\ bar'.user = saved.user /\ bar'.look = saved.look /\ bar'.at = bar.at
          /\ bar'.place = IF saved.user THEN saved.place ELSE Nowhere
      BY <2>1 DEF PlaceInv, Bars
    <2>3. ~disturbed' => bar'.place = bar'.at
      BY <2>1, <2>2
    <2>4. saved.user => saved = [user |-> TRUE, place |-> saved.place, look |-> saved.look]
      BY DEF PlaceInv, Positions
    <2> QED BY <2>1, <2>2, <2>3, <2>4 DEF BarInv, PlaceInv
  <1>2. CASE UNCHANGED place
    BY <1>2, BarKept
  <1> QED BY <1>1, <1>2

\* ShowToolbarWindow: the window comes where the bar has its place.
LEMMA BarShown ==
    ASSUME PlaceInv, BarInv, bar' = PositionToolbarWindow(bar), UNCHANGED <<disturbed, dragging>>,
           \/ saved' = saved
           \/ saved' = SaveToolbarSetting(bar)
    PROVE  BarInv'
  <1>1. CASE bar.user
    <2>1. /\ bar'.user /\ bar'.place = bar.place /\ bar'.at = bar.place /\ bar'.look = bar.look
          /\ bar.place # Nowhere
      BY <1>1 DEF PositionToolbarWindow, PlaceInv, Bars, BarInv
    <2>2. SaveToolbarSetting(bar) = [user |-> TRUE, place |-> bar.place, look |-> bar.look]
      BY <1>1, <2>1 DEF SaveToolbarSetting
    <2> QED BY <1>1, <2>1, <2>2 DEF BarInv
  <1>2. CASE ~bar.user
    <2>1. ~bar'.user /\ bar'.place = bar'.at
      BY <1>2 DEF PositionToolbarWindow, PlaceInv, Bars
    <2> QED BY <2>1 DEF BarInv
  <1> QED BY <1>1, <1>2

\* The settings as they are saved with a choice, while nothing is shown.
LEMMA BarSaved ==
    ASSUME PlaceInv, BarInv, bar' \in Bars, bar'.user = bar.user, bar'.place = bar.place,
           saved' = SaveToolbarSetting(bar'), windows'["toolbar"] # "shown"
    PROVE  BarInv'
  BY DEF SaveToolbarSetting, BarInv
LEMMA BarPointer ==
    ASSUME Inv, BarInv, NEW w \in Pointed, OverToolbarOrCandidates(w)
    PROVE  BarInv'
  BY BarKept DEF OverToolbarOrCandidates, MouseMove, ReleaseElsewhere, MouseLeave, LeftButtonDown,
       TooltipTimer, NoMoreShown

LEMMA BarDragging ==
    ASSUME Inv, BarInv, Dragging
    PROVE  BarInv'
  <1>1. CASE StartDrag
    BY <1>1, BarKept DEF StartDrag, NoMoreShown
  <1>2. ASSUME NEW p \in Places, DragTo(p) PROVE BarInv'
    <2>1. bar'.place = p /\ bar'.at = p /\ p # Nowhere /\ dragging'
      BY <1>2, WindowsAssumption DEF DragTo, view, Inv, PlaceInv, Bars
    <2> QED BY <2>1 DEF BarInv
  <1>3. CASE EndDrag
    <2>1. EndsInDrop /\ NoMoreShown
      BY <1>3 DEF EndDrag, EndsInDrop, NoMoreShown
    <2> QED BY <2>1, BarDropped DEF Inv
  <1> QED BY <1>1, <1>2, <1>3 DEF Dragging

LEMMA LoseCaptureDrops == LoseCapture /\ UNCHANGED disturbed => EndsInDrop
  BY DEF LoseCapture, EndsInDrop

LEMMA BarClicks ==
    ASSUME Inv, BarInv, Clicks
    PROVE  BarInv'
  <1> USE DEF Inv
  <1>1. CASE ClickGear
    BY <1>1, BarKept DEF ClickGear, NoMoreShown
  <1>2. CASE ClickMode \/ LangBarToggle
    BY <1>2, BarLoaded DEF ClickMode, LangBarToggle, ToggleAsciiMode, ShowStatusTip, NoMoreShown
  <1>3. ASSUME NEW s \in Tools, ClickTool(s) PROVE BarInv'
    <2>1. windows'["toolbar"] = windows["toolbar"]
      BY <1>3 DEF ClickTool, Show, ViewInv, ViewTypes, Pointed
    <2> QED BY <1>3, <2>1, BarKept DEF ClickTool, NoMoreShown
  <1>4. CASE RightButtonUp \/ LangBarClick
    <2>1. EndsInDrop /\ NoMoreShown
      BY <1>4, LoseCaptureDrops DEF RightButtonUp, LangBarClick, NoMoreShown
    <2> QED BY <2>1, BarDropped
  <1> QED BY <1>1, <1>2, <1>3, <1>4 DEF Clicks

LEMMA BarChooseLook ==
    ASSUME Inv, BarInv, NEW choice \in Looks \cup {"reset"}, ChooseLook(choice)
    PROVE  BarInv'
  <1> DEFINE new == [bar EXCEPT !.look = Toggled(@, choice)]
  <1>1. new \in Bars /\ new.user = bar.user /\ new.place = bar.place
    BY DEF Inv, PlaceInv, Bars, Toggled
  <1>2. CASE windows["toolbar"] = "shown"
    <2>1. PositionToolbarWindowKeepingCenter(new)
      BY <1>2 DEF ChooseLook
    <2>2. new.user => new.place # Nowhere
      BY <1>1 DEF BarInv
    <2> HIDE DEF new
    <2> QED BY <1>1, <1>2, <2>1, <2>2, BarCentered DEF Inv
  <1>3. CASE windows["toolbar"] # "shown"
    <2>1. bar' = new /\ saved' = SaveToolbarSetting(bar') /\ UNCHANGED windows
      BY <1>3 DEF ChooseLook
    <2> HIDE DEF new
    <2> QED BY <1>1, <1>3, <2>1, BarSaved DEF Inv
  <1> QED BY <1>2, <1>3

LEMMA BarMenus ==
    ASSUME Inv, BarInv, Menus
    PROVE  BarInv'
  <1> USE DEF Inv
  <1>1. CASE \/ \E row \in Rows(menu.mode) \cup {Nothing} : MenuMove(row)
             \/ \E leaf \in Submenu(menu.parent) : SubmenuMove(leaf)
             \/ MenuLeave \/ DismissMenu
    <2>1. UNCHANGED <<windows, dragging, place>>
      BY <1>1 DEF MenuMove, SubmenuMove, MenuLeave, DismissMenu, MenuChanges
    <2>2. UNCHANGED place /\ (~dragging' => ~dragging) /\ NoMoreShown
      BY <2>1 DEF NoMoreShown, place
    <2> QED BY <2>2, BarKept
  <1>2. CASE CaptureTaken
    <2>1. EndsInDrop /\ NoMoreShown
      BY <1>2, LoseCaptureDrops DEF CaptureTaken, NoMoreShown
    <2> QED BY <2>1, BarDropped
  <1>3. CASE ToggleToolbarLayout \/ ToggleToolbarItemVisibility
    BY <1>3, BarChooseLook, ChoiceInLooks, WindowsAssumption
       DEF ToggleToolbarLayout, ToggleToolbarItemVisibility
  <1>4. CASE ToggleToolbarWindow
    <2>1. saved' = SaveToolbarSetting(bar) /\ UNCHANGED disturbed
      BY <1>4 DEF ToggleToolbarWindow
    <2>2. CASE bar' = PositionToolbarWindow(bar) /\ UNCHANGED dragging
      BY <2>1, <2>2, BarShown
    <2>3. CASE UNCHANGED bar /\ windows'["toolbar"] # "shown"
      BY <2>1, <2>3, BarSaved DEF PlaceInv
    <2> QED
      BY <1>4, <2>2, <2>3
         DEF ToggleToolbarWindow, ShowToolbarWindow, Destroyed, ViewInv, ViewTypes, Pointed
  <1>5. CASE ChooseCharset
    <2>1. windows'["toolbar"] = windows["toolbar"]
      BY <1>5 DEF ChooseCharset, Show, ViewInv, ViewTypes, Pointed
    <2> QED BY <1>5, <2>1, BarLoaded DEF ChooseCharset, ShowStatusTip, NoMoreShown
  <1>6. CASE ChooseRestart
    <2>1. windows'["toolbar"] = windows["toolbar"] /\ dragging' = dragging
      BY <1>6 DEF ChooseRestart, RestartRimeAndAlgorithmService, DestroyCandidateWindow, Destroyed,
                  ViewInv, ViewTypes, Pointed
    <2> QED BY <1>6, <2>1, BarKept DEF ChooseRestart, RestartRimeAndAlgorithmService, NoMoreShown
  <1> QED BY <1>1, <1>2, <1>3, <1>4, <1>5, <1>6 DEF Menus

LEMMA BarInput ==
    ASSUME Inv, BarInv, Input
    PROVE  BarInv'
  <1> USE DEF Inv
  <1>1. CASE RestartByMessage
    <2>1. windows'["toolbar"] = windows["toolbar"] /\ dragging' = dragging
      BY <1>1 DEF RestartByMessage, RestartRimeAndAlgorithmService, DestroyCandidateWindow, Destroyed,
                  ViewInv, ViewTypes, Pointed
    <2> QED BY <1>1, <2>1, BarKept
            DEF RestartByMessage, RestartRimeAndAlgorithmService, NoMoreShown
  <1>2. ASSUME HideCandidateWindow PROVE windows'["toolbar"] = windows["toolbar"]
    BY <1>2 DEF HideCandidateWindow, ViewInv, ViewTypes, Pointed
  <1>3. CASE ShowCandidateWindow
    <2>1. windows'["toolbar"] = windows["toolbar"]
      BY <1>3 DEF ShowCandidateWindow, Show, ViewInv, ViewTypes, Pointed
    <2> QED BY <1>3, <2>1, BarKept DEF ShowCandidateWindow, NoMoreShown
  <1>4. CASE NoCandidates \/ CandidateWatchTimer \/ LoseFocus
    BY <1>2, <1>4, BarKept DEF NoCandidates, CandidateWatchTimer, LoseFocus, NoMoreShown
  <1>5. CASE ToggleAsciiModeFromKey \/ GainFocus
    BY <1>2, <1>5, BarLoaded DEF ToggleAsciiModeFromKey, GainFocus, ShowStatusTip, NoMoreShown, view
  <1>6. CASE StatusTipTimer
    BY <1>6, BarKept DEF StatusTipTimer, NoMoreShown, view
  <1> QED BY <1>1, <1>3, <1>4, <1>5, <1>6 DEF Input

LEMMA BarSettings ==
    ASSUME Inv, BarInv, Settings
    PROVE  BarInv'
  <1> USE DEF Inv
  <1>1. CASE ToolbarComes
    BY <1>1, BarShown DEF ToolbarComes, ShowToolbarWindow
  <1>2. CASE DestroyToolbarWindow
    <2>1. EndsInDrop /\ NoMoreShown
      BY <1>2 DEF DestroyToolbarWindow, EndsInDrop, NoMoreShown
    <2> QED BY <2>1, BarDropped
  <1>3. CASE RefreshToolbarFromSettings
    <2> DEFINE read == [bar EXCEPT !.user = saved.user, !.look = saved.look,
                                   !.place = IF saved.user THEN saved.place ELSE bar.place]
    <2>1. read \in Bars /\ (read.user => read.place # Nowhere)
      BY DEF PlaceInv, Bars, Positions
    <2>2. PositionToolbarWindowKeepingCenter(read) /\ windows["toolbar"] = "shown"
      BY <1>3 DEF RefreshToolbarFromSettings
    <2> HIDE DEF read
    <2> QED BY <2>1, <2>2, BarCentered
  <1>4. CASE RefreshInputStateFromSettings
    BY <1>4, BarLoaded DEF RefreshInputStateFromSettings, NoMoreShown, view
  <1>5. CASE OtherSaves
    <2>1. UNCHANGED <<bar, windows, dragging>> /\ disturbed' = (disturbed \/ saved' # saved)
      BY <1>5 DEF OtherSaves, view
    <2> QED BY <2>1 DEF BarInv
  <1> QED BY <1>1, <1>2, <1>3, <1>4, <1>5 DEF Settings

(* Where the toolbar was put last, and its look, are in the settings: of   *)
(* every drag that ends, also because the capture is lost or the window    *)
(* destroyed, and of every choice in the menu (SaveToolbarSetting).        *)
THEOREM SavedIsShownCorrect == Spec => []SavedIsShown
  <1>1. Init => BarInv
    <2> SUFFICES ASSUME Init PROVE BarInv
      OBVIOUS
    <2>1. PICK moved \in BOOLEAN, there \in Places :
            saved = [user |-> moved, place |-> IF moved THEN there ELSE Nowhere, look |-> {}]
      BY DEF Init
    <2>2. bar = [user |-> saved.user, place |-> saved.place, look |-> {}, at |-> Corner]
          /\ windows["toolbar"] # "shown"
      BY DEF Init, Pointed
    <2> QED BY <2>1, <2>2, WindowsAssumption DEF BarInv
  <1>2. Inv /\ BarInv /\ [Next]_vars => BarInv'
    <2> SUFFICES ASSUME Inv, BarInv, [Next]_vars PROVE BarInv'
      OBVIOUS
    <2>1. CASE UNCHANGED vars
      BY <2>1, BarKept DEF vars, place, NoMoreShown
    <2> QED BY <2>1, BarPointer, BarDragging, BarClicks, BarMenus, BarInput, BarSettings DEF Next
  <1>3. Inv /\ BarInv => SavedIsShown
    BY DEF BarInv, SavedIsShown
  <1> QED BY <1>1, <1>2, <1>3, Invariance, PTL DEF Spec
=============================================================================
