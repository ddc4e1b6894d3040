----------------------- MODULE ModeAndCandidatesProofs -----------------------
(***************************************************************************)
(* What holds of the modes and of the candidates.                          *)
(*                                                                         *)
(* First of InputMode, for any number of services and options: its types,  *)
(* one toolbar, CapsLock and who owns it (IInv), and that all applications *)
(* agree once the messages are handled (AInv).                             *)
(*                                                                         *)
(* Then of CandidateWindow, for any number of letters and candidates, any  *)
(* sizes of Rime's pages, of walks and of the window's pages, and any      *)
(* monitors.  What a request collects is said of parts of sequences        *)
(* (Part), turn by turn of its loop (Walked, CollectWalks), so that a page *)
(* is the cut of the menu it should be (PageIsGiven).  The invariant says  *)
(* of the service that it is Whole: its record of the last query tells     *)
(* what is in view, whether or not it is about the present page (Honest),  *)
(* the session is where the engine believes it is (InStep), candidates     *)
(* have a window (Framed), and nothing of a composition is left when there *)
(* is none (Rested).  Every function that maps a state of the service to   *)
(* others keeps it.  At the end are lines and places of the expanded       *)
(* window, which the digits and the arrow keys rest on.                    *)
(***************************************************************************)
EXTENDS InputMode, CandidateWindow, SequenceTheorems, WellFoundedInduction, TLAPS

-----------------------------------------------------------------------------
(* The mode.  Its keys and handlers.                                       *)

LEMMA KeyFacts == /\ "mode" \in Toggles /\ Toggles \subseteq Keys /\ "toolbar" \in Keys
                  /\ "toolbar" # "mode"
                  /\ \A i \in 1..Len(Options) : Options[i] \in Keys
  BY DEF Toggles, Keys

LEMMA AllType == ASSUME NEW op \in {"read", "write"} PROVE All(op, Options) \in Seq(Tasks)
<1>1. Len(Options) \in Nat
  BY ModeAssumption
<1>2. \A i \in 1..Len(Options) : <<op, Options[i]>> \in Tasks
  BY KeyFacts DEF Tasks
<1> QED
  BY <1>1, <1>2, IsASeq DEF All

LEMMA Single == ASSUME NEW t \in Tasks PROVE <<t>> \in Seq(Tasks)
  OBVIOUS

\* The handlers are lists of tasks.
LEMMA Programs == /\ ApplyInputState \in Seq(Tasks)
                  /\ PersistInputModeDefaults \in Seq(Tasks)
                  /\ SaveToolbarSetting \in Seq(Tasks)
                  /\ LoadUserSettings \in Seq(Tasks)
                  /\ RefreshToolbarFromSettings \in Seq(Tasks)
                  /\ RefreshInputStateFromSettings \in Seq(Tasks)
                  /\ \A due \in BOOLEAN : /\ Tip(due) \in Seq(Tasks)
                                          /\ Persisted(due) \in Seq(Tasks)
<1>1. \A k \in Keys : <<"read", k>> \in Tasks /\ <<"write", k>> \in Tasks
  BY DEF Tasks
<1>2. \A m \in Messages : <<"post", m>> \in Tasks
  BY DEF Tasks
<1>3. /\ <<"window", "load">> \in Tasks /\ <<"window", "settle">> \in Tasks
      /\ <<"compare", "input">> \in Tasks
  BY DEF Tasks
<1>4. ApplyInputState \in Seq(Tasks)
  <2>1. <<<<"read", "mode">>>> \in Seq(Tasks)
    BY <1>1, KeyFacts, Single
  <2> QED
    BY <2>1, AllType, ConcatProperties DEF ApplyInputState
<1>5. PersistInputModeDefaults \in Seq(Tasks)
  <2>1. <<<<"write", "mode">>>> \in Seq(Tasks)
    BY <1>1, KeyFacts, Single
  <2> QED
    BY <2>1, AllType, ConcatProperties DEF PersistInputModeDefaults
<1>6. SaveToolbarSetting \in Seq(Tasks)
  BY <1>1, KeyFacts, Single DEF SaveToolbarSetting
<1>7. LoadUserSettings \in Seq(Tasks)
  <2>1. /\ <<<<"read", "toolbar">>>> \in Seq(Tasks)
        /\ <<<<"window", "load">>>> \in Seq(Tasks)
    BY <1>1, <1>3, KeyFacts, Single
  <2>2. <<<<"read", "toolbar">>>> \o SaveToolbarSetting \in Seq(Tasks)
    BY <2>1, <1>6, ConcatProperties
  <2> QED
    BY <2>1, <2>2, ConcatProperties DEF LoadUserSettings
<1>8. RefreshToolbarFromSettings \in Seq(Tasks)
  <2>1. /\ <<<<"read", "toolbar">>>> \in Seq(Tasks)
        /\ <<<<"window", "settle">>>> \in Seq(Tasks)
    BY <1>1, <1>3, KeyFacts, Single
  <2>2. <<<<"read", "toolbar">>>> \o ApplyInputState \in Seq(Tasks)
    BY <2>1, <1>4, ConcatProperties
  <2>3. (<<<<"read", "toolbar">>>> \o ApplyInputState) \o SaveToolbarSetting \in Seq(Tasks)
    BY <2>2, <1>6, ConcatProperties
  <2> QED
    BY <2>1, <2>3, ConcatProperties DEF RefreshToolbarFromSettings
<1>9. RefreshInputStateFromSettings \in Seq(Tasks)
  <2>1. LoadUserSettings \o ApplyInputState \in Seq(Tasks)
    BY <1>4, <1>7, ConcatProperties
  <2>2. <<<<"compare", "input">>>> \in Seq(Tasks)
    BY <1>3, Single
  <2> QED
    BY <2>1, <2>2, ConcatProperties DEF RefreshInputStateFromSettings
<1>10. ASSUME NEW due \in BOOLEAN PROVE Tip(due) \in Seq(Tasks)
  BY <1>7 DEF Tip
<1>11. ASSUME NEW due \in BOOLEAN PROVE Persisted(due) \in Seq(Tasks)
  <2>1. <<<<"post", "refresh">>>> \in Seq(Tasks)
    BY <1>2, Single DEF Messages
  <2>2. PersistInputModeDefaults \o <<<<"post", "refresh">>>> \in Seq(Tasks)
    BY <2>1, <1>5, ConcatProperties
  <2> QED
    BY <2>2, <1>10, ConcatProperties DEF Persisted
<1> QED
  BY <1>4, <1>5, <1>6, <1>7, <1>8, <1>9, <1>10, <1>11

-----------------------------------------------------------------------------
(* The inductive invariant, in four parts that most actions leave alone    *)
(* one by one: TypeOK and the two safety invariants together.              *)

Copies == [Services -> [Keys -> BOOLEAN]]
MemoryOK == memory \in Copies /\ owned \in [Services -> BOOLEAN] /\ OwnedIsEnglish
QueuesOK == /\ before \in Copies
            /\ todo \in [Services -> Seq(Tasks)] /\ inbox \in [Services -> Seq(Messages)]
            /\ posting \in Seq(Messages)
ToolbarOK == /\ active \subseteq Services /\ windows \subseteq active
             /\ owner \in active \cup {None} /\ OneToolbar
RestOK == /\ file \in [Keys -> BOOLEAN]
          /\ fresh \subseteq Services \ active /\ focus \in active \cup {None}
          /\ caps \in [on : BOOLEAN, down : BOOLEAN] /\ choices \in 0..MaxChoices
          /\ cut \in BOOLEAN
IInv == MemoryOK /\ QueuesOK /\ ToolbarOK /\ RestOK

LEMMA Parts == IInv <=> TypeOK /\ OneToolbar /\ OwnedIsEnglish
  BY DEF IInv, MemoryOK, QueuesOK, ToolbarOK, RestOK, TypeOK, Copies

LEMMA TaskParts ==
  ASSUME NEW t \in Tasks
  PROVE  /\ t[1] \in {"read", "write"} => t[2] \in Keys
         /\ t[1] = "post" => t[2] \in Messages
  BY DEF Tasks

LEMMA BeginOK ==
  ASSUME todo \in [Services -> Seq(Tasks)], NEW s \in Services, NEW t \in Seq(Tasks), Begin(s, t)
  PROVE  todo' \in [Services -> Seq(Tasks)]
  BY DEF Begin

LEMMA PostOK ==
  ASSUME inbox \in [Services -> Seq(Messages)], NEW m \in Messages, Post(m)
  PROVE  inbox' \in [Services -> Seq(Messages)]
<1>1. ASSUME NEW s \in Services PROVE Append(inbox[s], m) \in Seq(Messages)
  BY AppendProperties
<1> QED
  BY <1>1 DEF Post

LEMMA RememberOK ==
  ASSUME memory \in Copies, NEW s \in Services, NEW k \in Keys, NEW v \in BOOLEAN,
         Remember(s, k, v)
  PROVE  /\ memory' \in Copies
         /\ \A r \in Services, j \in Keys :
              memory'[r][j] = IF r = s /\ j = k THEN v ELSE memory[r][j]
  BY DEF Remember, Copies

\* A copy changes in a key other than the mode.
LEMMA OtherKeyOK ==
  ASSUME MemoryOK, NEW s \in Services, NEW k \in Keys, k # "mode", NEW v \in BOOLEAN,
         Remember(s, k, v), UNCHANGED owned
  PROVE  MemoryOK'
  BY RememberOK, KeyFacts DEF MemoryOK, OwnedIsEnglish

LEMMA ShowOK ==
  ASSUME ToolbarOK, NEW s \in Services, ShowToolbarWindow(s), UNCHANGED active
  PROVE  ToolbarOK'
  BY ModeAssumption DEF ToolbarOK, ShowToolbarWindow, OneToolbar, toolbar

LEMMA DestroyOK ==
  ASSUME ToolbarOK, NEW s \in Services, DestroyToolbarWindow(s), active' \in {active, active \ {s}}
  PROVE  ToolbarOK'
  BY ModeAssumption DEF ToolbarOK, DestroyToolbarWindow, OneToolbar

LEMMA ChoosesOK == ASSUME choices \in 0..MaxChoices, Chooses PROVE choices' \in 0..MaxChoices
  BY ModeAssumption DEF Chooses

LEMMA InitOK == Init => IInv
<1> SUFFICES ASSUME Init PROVE IInv
  OBVIOUS
<1>1. Defaults \in [Keys -> BOOLEAN]
  BY DEF Defaults
<1>2. file \in [Keys -> BOOLEAN]
  BY <1>1 DEF Init
<1>3. memory \in Copies /\ before \in Copies
  BY <1>1, <1>2 DEF Init, Copies
<1>4. active \subseteq Services /\ First \in active
  BY DEF Init
<1>5. owner \in active \cup {None} /\ windows = {owner} \ {None}
  BY <1>4 DEF Init
<1>6. MemoryOK
  BY <1>3 DEF Init, MemoryOK, OwnedIsEnglish
<1>7. QueuesOK
  BY <1>3 DEF Init, QueuesOK
<1>8. ToolbarOK
  BY <1>4, <1>5 DEF ToolbarOK, OneToolbar
<1>9. RestOK
  <2>1. caps \in [on : BOOLEAN, down : BOOLEAN] /\ choices \in 0..MaxChoices
    BY ModeAssumption DEF Init
  <2>2. fresh \subseteq Services \ active /\ focus \in active \cup {None}
    BY <1>4 DEF Init
  <2>3. cut \in BOOLEAN
    BY DEF Init
  <2> QED
    BY <1>2, <2>1, <2>2, <2>3 DEF RestOK
<1> QED
  BY <1>6, <1>7, <1>8, <1>9 DEF IInv

-----------------------------------------------------------------------------
(* One step of a handler.                                                  *)

LEMMA ReadOK ==
  ASSUME IInv, NEW s \in Services, NEW k \in Keys, Read(s, k)
  PROVE  MemoryOK'
<1>1. file[k] \in BOOLEAN /\ memory \in Copies /\ owned \in [Services -> BOOLEAN]
  BY DEF IInv, RestOK, MemoryOK
<1>2. /\ memory' \in Copies
      /\ \A r \in Services, j \in Keys :
           memory'[r][j] = IF r = s /\ j = k THEN file[k] ELSE memory[r][j]
  BY <1>1, RememberOK DEF Read
<1>3. /\ owned' \in [Services -> BOOLEAN]
      /\ \A r \in Services : owned'[r] => owned[r] /\ (r = s => k # "mode")
  BY <1>1 DEF Read
<1>4. ASSUME NEW r \in Services, owned'[r] PROVE memory'[r]["mode"]
  BY <1>2, <1>3, <1>4, KeyFacts DEF IInv, MemoryOK, OwnedIsEnglish
<1> QED
  BY <1>2, <1>3, <1>4 DEF MemoryOK, OwnedIsEnglish

LEMMA WindowsOK ==
  ASSUME IInv, NEW s \in Services, NEW what, Windows(s, what), UNCHANGED active
  PROVE  ToolbarOK' /\ inbox' \in [Services -> Seq(Messages)]
<1> USE DEF IInv
<1>1. inbox \in [Services -> Seq(Messages)] /\ "refresh" \in Messages
  BY DEF QueuesOK, Messages
<1>2. ASSUME UNCHANGED toolbar PROVE ToolbarOK'
  BY <1>2 DEF ToolbarOK, OneToolbar, toolbar
<1>3. CASE Loaded(s)
  BY <1>1, <1>2, <1>3, PostOK, ShowOK, DestroyOK DEF Loaded
<1>4. CASE Settle(s)
  BY <1>1, <1>4, ShowOK, DestroyOK DEF Settle
<1>5. CASE Arrive(s)
  BY <1>1, <1>2, <1>5, PostOK, ShowOK DEF Arrive
<1>6. CASE ShowToolbarWindow(s) /\ UNCHANGED inbox
  BY <1>1, <1>6, ShowOK
<1>7. CASE DestroyToolbarWindow(s) /\ UNCHANGED inbox
  BY <1>1, <1>7, DestroyOK
<1> QED
  BY <1>3, <1>4, <1>5, <1>6, <1>7 DEF Windows

LEMMA StepOK == ASSUME IInv, NEW s \in Services, Step(s) PROVE IInv'
<1> DEFINE t == Head(todo[s])
           op == t[1]
           what == t[2]
<1>1. todo[s] \in Seq(Tasks) /\ todo[s] # <<>>
  BY DEF IInv, QueuesOK, Step, Idle
<1>2. t \in Tasks /\ Tail(todo[s]) \in Seq(Tasks)
  BY <1>1, HeadTailProperties
<1>3. UNCHANGED outside /\ Begin(s, Tail(todo[s]))
  BY DEF Step
<1>4. /\ op \in {"read", "write"} => what \in Keys
      /\ op = "post" => what \in Messages
  BY <1>2, TaskParts
<1>5. /\ \/ op = "write" /\ Write(s, what)
         \/ op = "read" /\ Read(s, what) /\ UNCHANGED choices
         \/ op = "post" /\ Post(what) /\ UNCHANGED <<file, own, toolbar>> /\ UNCHANGED choices
         \/ op = "window" /\ Windows(s, what) /\ UNCHANGED choices
         \/ op = "compare" /\ Compare(s) /\ UNCHANGED choices
  BY DEF Step
<1>6. inbox \in [Services -> Seq(Messages)] /\ "refresh" \in Messages
  BY DEF IInv, QueuesOK, Messages
<1>7. ASSUME UNCHANGED own PROVE MemoryOK'
  BY <1>7 DEF own, IInv, MemoryOK, OwnedIsEnglish
<1>8. ASSUME UNCHANGED toolbar PROVE ToolbarOK'
  BY <1>3, <1>8 DEF toolbar, outside, IInv, ToolbarOK, OneToolbar
<1>9. ASSUME UNCHANGED file, UNCHANGED choices PROVE RestOK'
  BY <1>3, <1>9 DEF outside, IInv, RestOK
<1>10. ASSUME inbox' \in [Services -> Seq(Messages)] PROVE QueuesOK'
  <2>1. todo' \in [Services -> Seq(Tasks)]
    BY <1>2, <1>3, BeginOK DEF IInv, QueuesOK
  <2>2. before' \in Copies
    <3>1. Defaults \in [Keys -> BOOLEAN] /\ memory[s] \in [Keys -> BOOLEAN] /\ before \in Copies
      BY DEF Defaults, IInv, MemoryOK, QueuesOK, Copies
    <3>2. before' = [before EXCEPT ![s] = IF Len(todo[s]) = 1 THEN Defaults
                                          ELSE IF Head(todo[s]) = <<"read", "toolbar">>
                                          THEN memory[s] ELSE @]
      BY DEF Step
    <3> QED
      BY <3>1, <3>2 DEF Copies
  <2> QED
    BY <1>3, <1>10, <2>1, <2>2 DEF IInv, QueuesOK, outside
<1>11. CASE op = "write" /\ Write(s, what)
  <2>1. UNCHANGED <<own, inbox, toolbar>>
    BY <1>11 DEF Write
  <2>2. RestOK'
    <3>1. memory[s][what] \in BOOLEAN
      BY <1>4, <1>11 DEF IInv, MemoryOK, Copies
    <3>2. file' \in [Keys -> BOOLEAN]
      BY <1>11, <3>1 DEF Write, IInv, RestOK
    <3>3. choices' \in 0..MaxChoices
      BY <1>11, ChoosesOK DEF Write, IInv, RestOK
    <3> QED
      BY <1>3, <3>2, <3>3 DEF outside, IInv, RestOK
  <2> QED
    BY <1>6, <1>7, <1>8, <1>10, <2>1, <2>2 DEF IInv
<1>12. CASE op = "read" /\ Read(s, what) /\ UNCHANGED choices
  <2>1. UNCHANGED <<file, inbox, toolbar>>
    BY <1>12 DEF Read
  <2>2. MemoryOK'
    BY <1>4, <1>12, ReadOK
  <2> QED
    BY <1>6, <1>8, <1>9, <1>10, <1>12, <2>1, <2>2 DEF IInv
<1>13. CASE op = "post" /\ Post(what) /\ UNCHANGED <<file, own, toolbar>> /\ UNCHANGED choices
  <2>1. inbox' \in [Services -> Seq(Messages)]
    BY <1>4, <1>6, <1>13, PostOK
  <2> QED
    BY <1>7, <1>8, <1>9, <1>10, <1>13, <2>1 DEF IInv
<1>14. CASE op = "window" /\ Windows(s, what) /\ UNCHANGED choices
  <2>1. UNCHANGED <<file, own>>
    BY <1>14 DEF Windows
  <2>2. ToolbarOK' /\ inbox' \in [Services -> Seq(Messages)]
    BY <1>3, <1>14, WindowsOK DEF outside
  <2> QED
    BY <1>7, <1>9, <1>10, <1>14, <2>1, <2>2 DEF IInv
<1>15. CASE op = "compare" /\ Compare(s) /\ UNCHANGED choices
  <2>1. UNCHANGED <<file, own, toolbar>>
    BY <1>15 DEF Compare
  <2>2. inbox' \in [Services -> Seq(Messages)]
    BY <1>6, <1>15, PostOK DEF Compare
  <2> QED
    BY <1>7, <1>8, <1>9, <1>10, <1>15, <2>1, <2>2 DEF IInv
<1> QED
  BY <1>5, <1>11, <1>12, <1>13, <1>14, <1>15

-----------------------------------------------------------------------------
(* Messages, keys and clicks.  What an action leaves alone keeps its part  *)
(* of the invariant.                                                       *)

LEMMA SameMemory == ASSUME MemoryOK, UNCHANGED own PROVE MemoryOK'
  BY DEF own, MemoryOK, OwnedIsEnglish

LEMMA SameToolbar == ASSUME ToolbarOK, UNCHANGED <<toolbar, active>> PROVE ToolbarOK'
  BY DEF toolbar, ToolbarOK, OneToolbar

LEMMA SameRest == ASSUME RestOK, UNCHANGED <<file, outside>>, choices' \in 0..MaxChoices
                  PROVE  RestOK'
  BY DEF outside, RestOK

\* A handler begins.
LEMMA BeginQueues ==
  ASSUME QueuesOK, NEW s \in Services, NEW t \in Seq(Tasks), Begin(s, t),
         UNCHANGED <<before, inbox, posting>>
  PROVE  QueuesOK'
  BY BeginOK DEF QueuesOK

LEMMA HandleOK == ASSUME IInv, NEW s \in Services, Handle(s) PROVE IInv'
<1> USE DEF IInv
<1>1. QueuesOK'
  <2>1. todo' \in [Services -> Seq(Tasks)]
    BY Programs, BeginOK DEF Handle, QueuesOK
  <2>2. Tail(inbox[s]) \in Seq(Messages)
    BY HeadTailProperties DEF Handle, QueuesOK
  <2> QED
    BY <2>1, <2>2 DEF Handle, QueuesOK, outside
<1>2. choices' \in 0..MaxChoices
  BY DEF Handle, RestOK
<1> QED
  BY <1>1, <1>2, SameMemory, SameToolbar, SameRest DEF Handle, outside

LEMMA WatchTimerOK == ASSUME IInv, NEW s \in Services, WatchTimer(s) PROVE IInv'
<1> USE DEF IInv
<1>1. MemoryOK'
  BY OtherKeyOK, KeyFacts DEF WatchTimer, RestOK
<1>2. ToolbarOK'
  BY SameToolbar, DestroyOK DEF WatchTimer, outside
<1>3. QueuesOK'
  BY DEF WatchTimer, QueuesOK, outside
<1>4. choices' \in 0..MaxChoices
  BY DEF WatchTimer, RestOK
<1> QED
  BY <1>1, <1>2, <1>3, <1>4, SameRest DEF WatchTimer

LEMMA ToggleAsciiModeOK == ASSUME IInv, NEW s \in Services, ToggleAsciiMode(s) PROVE IInv'
<1> USE DEF IInv
<1>1. MemoryOK'
  <2> DEFINE v == ~memory[s]["mode"]
  <2>1. v \in BOOLEAN /\ Remember(s, "mode", v) /\ owned' = [owned EXCEPT ![s] = FALSE]
    BY DEF ToggleAsciiMode, Toggled
  <2> HIDE DEF v
  <2>2. /\ memory' \in Copies
        /\ \A r \in Services, j \in Keys :
             memory'[r][j] = IF r = s /\ j = "mode" THEN v ELSE memory[r][j]
    BY <2>1, RememberOK, KeyFacts DEF MemoryOK
  <2> QED
    BY <2>1, <2>2, KeyFacts DEF MemoryOK, OwnedIsEnglish
<1>2. ToolbarOK'
  BY SameToolbar DEF ToggleAsciiMode
<1>3. QueuesOK'
  BY Programs, BeginQueues DEF ToggleAsciiMode
<1>4. RestOK'
  BY ChoosesOK DEF ToggleAsciiMode, RestOK
<1> QED
  BY <1>1, <1>2, <1>3, <1>4

LEMMA HandleLangBarMenuCommandOK ==
  ASSUME IInv, NEW s \in Services, HandleLangBarMenuCommand(s) PROVE IInv'
<1> USE DEF IInv
<1>1. MemoryOK'
  <2>1. PICK k \in Toggles \ {"mode"} : Remember(s, k, ~memory[s][k])
    BY DEF HandleLangBarMenuCommand
  <2>2. k \in Keys /\ (~memory[s][k]) \in BOOLEAN
    BY KeyFacts
  <2> QED
    BY <2>1, <2>2, OtherKeyOK DEF HandleLangBarMenuCommand
<1>2. ToolbarOK'
  BY SameToolbar DEF HandleLangBarMenuCommand, outside
<1>3. QueuesOK'
  BY Programs, BeginQueues DEF HandleLangBarMenuCommand, outside
<1>4. choices' \in 0..MaxChoices
  BY ChoosesOK DEF HandleLangBarMenuCommand, RestOK
<1> QED
  BY <1>1, <1>2, <1>3, <1>4, SameRest DEF HandleLangBarMenuCommand

LEMMA CapsLockDownOK == ASSUME IInv, CapsLockDown PROVE IInv'
<1> USE DEF IInv
<1>1. ToolbarOK'
  BY SameToolbar DEF CapsLockDown
<1>2. QueuesOK'
  BY DEF CapsLockDown, QueuesOK
<1>3. RestOK'
  BY ChoosesOK DEF CapsLockDown, RestOK
<1> QED
  BY <1>1, <1>2, <1>3, SameMemory DEF CapsLockDown

LEMMA CapsLockUpOK == ASSUME IInv, CapsLockUp PROVE IInv'
<1> USE DEF IInv
<1>1. ToolbarOK'
  BY SameToolbar DEF CapsLockUp
<1>2. RestOK'
  BY DEF CapsLockUp, RestOK
<1>3. CASE UNCHANGED <<memory, owned, todo>>
  <2>1. MemoryOK'
    BY <1>3 DEF MemoryOK, OwnedIsEnglish
  <2>2. QueuesOK'
    BY <1>3 DEF CapsLockUp, QueuesOK
  <2> QED
    BY <1>1, <1>2, <2>1, <2>2
<1>4. CASE ~UNCHANGED <<memory, owned, todo>>
  <2> DEFINE mode == memory[focus]["mode"]
             new == ResolveCapsLockTransition(mode, owned[focus], caps.on)
  <2>1. /\ Remember(focus, "mode", new[1])
        /\ owned' = [owned EXCEPT ![focus] = new[2]]
        /\ \E due \in BOOLEAN : Begin(focus, Persisted(due))
        /\ focus \in Services
    BY <1>4 DEF CapsLockUp, RestOK, ToolbarOK
  <2>2. mode \in BOOLEAN /\ owned[focus] \in BOOLEAN
    BY <2>1, KeyFacts DEF MemoryOK, Copies
  <2>3. new[1] \in BOOLEAN /\ new[2] \in BOOLEAN /\ (new[2] => new[1])
    BY <2>2 DEF ResolveCapsLockTransition
  <2>4. MemoryOK'
    <3> HIDE DEF mode, new
    <3>1. /\ memory' \in Copies
          /\ \A r \in Services, j \in Keys :
               memory'[r][j] = IF r = focus /\ j = "mode" THEN new[1] ELSE memory[r][j]
      BY <2>1, <2>3, RememberOK, KeyFacts DEF MemoryOK
    <3> QED
      BY <2>1, <2>3, <3>1, KeyFacts DEF MemoryOK, OwnedIsEnglish
  <2>5. QueuesOK'
    BY <2>1, Programs, BeginQueues DEF CapsLockUp
  <2> QED
    BY <1>1, <1>2, <2>4, <2>5
<1> QED
  BY <1>3, <1>4

LEMMA ToggleToolbarWindowOK ==
  ASSUME IInv, NEW s \in Services, ToggleToolbarWindow(s) PROVE IInv'
<1> USE DEF IInv
<1> DEFINE what == IF file["toolbar"] THEN "hide" ELSE "show"
<1>1. MemoryOK'
  BY OtherKeyOK, KeyFacts DEF ToggleToolbarWindow
<1>2. ToolbarOK'
  BY SameToolbar DEF ToggleToolbarWindow, outside
<1>3. QueuesOK'
  <2>1. <<"post", "input">> \in Tasks /\ <<"window", what>> \in Tasks
    BY DEF Tasks, Messages
  <2>2. \A a, b \in Tasks : <<a, b>> \in Seq(Tasks)
    OBVIOUS
  <2>3. SaveToolbarSetting \o <<<<"post", "input">>, <<"window", what>>>> \in Seq(Tasks)
    BY <2>1, <2>2, Programs, ConcatProperties
  <2> QED
    BY <2>3, BeginQueues DEF ToggleToolbarWindow, outside
<1>4. choices' \in 0..MaxChoices
  BY ChoosesOK DEF ToggleToolbarWindow, RestOK
<1> QED
  BY <1>1, <1>2, <1>3, <1>4, SameRest DEF ToggleToolbarWindow

LEMMA HideToolbarOK == ASSUME IInv, NEW s \in Services, HideToolbar(s) PROVE IInv'
<1> USE DEF IInv
<1>1. MemoryOK'
  BY OtherKeyOK, KeyFacts DEF HideToolbar
<1>2. ToolbarOK'
  BY SameToolbar DEF HideToolbar, outside
<1>3. QueuesOK'
  <2>1. /\ <<"post", "input">> \in Tasks /\ <<"window", "hide">> \in Tasks
        /\ <<"post", "refresh">> \in Tasks
    BY DEF Tasks, Messages
  <2>2. \A a, b, c \in Tasks : <<a, b, c>> \in Seq(Tasks)
    OBVIOUS
  <2>3. SaveToolbarSetting \o <<<<"post", "input">>, <<"window", "hide">>,
                                <<"post", "refresh">>>> \in Seq(Tasks)
    BY <2>1, <2>2, Programs, ConcatProperties
  <2> QED
    BY <2>3, BeginQueues DEF HideToolbar, outside
<1>4. choices' \in 0..MaxChoices
  BY ChoosesOK DEF HideToolbar, RestOK
<1> QED
  BY <1>1, <1>2, <1>3, <1>4, SameRest DEF HideToolbar

LEMMA OnSetFocusOK == ASSUME IInv, NEW s \in Services, OnSetFocus(s) PROVE IInv'
<1> USE DEF IInv
<1>1. MemoryOK' /\ ToolbarOK'
  BY SameMemory, SameToolbar DEF OnSetFocus
<1>2. QueuesOK'
  <2>1. <<"window", "arrive">> \in Tasks
    BY DEF Tasks
  <2>2. ApplyInputState \o <<<<"window", "arrive">>>> \in Seq(Tasks)
    BY <2>1, Single, Programs, ConcatProperties
  <2>3. \A due \in BOOLEAN :
          (ApplyInputState \o <<<<"window", "arrive">>>>) \o Tip(due) \in Seq(Tasks)
    BY <2>2, Programs, ConcatProperties
  <2> QED
    BY <2>3, BeginQueues DEF OnSetFocus
<1>3. RestOK'
  BY ChoosesOK DEF OnSetFocus, RestOK
<1> QED
  BY <1>1, <1>2, <1>3

LEMMA ActivateOK == ASSUME IInv, NEW s \in Services, Activate(s) PROVE IInv'
<1> USE DEF IInv
<1>1. MemoryOK'
  BY SameMemory DEF Activate
<1>2. ToolbarOK'
  BY DEF Activate, ToolbarOK, toolbar, OneToolbar
<1>3. QueuesOK'
  <2>1. \A due \in BOOLEAN : Tip(due) \o ApplyInputState \in Seq(Tasks)
    BY Programs, ConcatProperties
  <2> QED
    BY <2>1, BeginQueues DEF Activate
<1>4. RestOK'
  BY ChoosesOK DEF Activate, RestOK, ToolbarOK
<1> QED
  BY <1>1, <1>2, <1>3, <1>4

\* What Deactivate and Crash have in common.
LEMMA LeaveOK ==
  ASSUME IInv, NEW s \in Services, Leave(s), before' \in Copies
  PROVE  /\ ToolbarOK' /\ QueuesOK'
         /\ file' \in [Keys -> BOOLEAN] /\ focus' \in active' \cup {None}
         /\ caps' \in [on : BOOLEAN, down : BOOLEAN]
<1> USE DEF IInv
<1>1. ToolbarOK'
  BY DestroyOK DEF Leave
<1>2. QueuesOK'
  <2>1. <<>> \in Seq(Tasks) /\ <<>> \in Seq(Messages)
    OBVIOUS
  <2>2. todo' \in [Services -> Seq(Tasks)]
    BY <2>1, BeginOK DEF Leave, QueuesOK
  <2> QED
    BY <2>1, <2>2 DEF Leave, QueuesOK
<1> QED
  BY <1>1, <1>2 DEF Leave, RestOK

LEMMA DeactivateOK == ASSUME IInv, NEW s \in Services, Deactivate(s) PROVE IInv'
<1>1. before' \in Copies
  BY DEF Deactivate, IInv, QueuesOK
<1>2. MemoryOK'
  BY SameMemory DEF Deactivate, IInv
<1>3. fresh' \subseteq Services \ active' /\ choices' \in 0..MaxChoices /\ cut' \in BOOLEAN
  BY ChoosesOK DEF Deactivate, Leave, IInv, RestOK
<1> QED
  BY <1>1, <1>2, <1>3, LeaveOK DEF Deactivate, IInv, RestOK

LEMMA CrashOK == ASSUME IInv, NEW s \in Services, Crash(s) PROVE IInv'
<1>1. Defaults \in [Keys -> BOOLEAN]
  BY DEF Defaults
<1>2. before' \in Copies
  BY <1>1 DEF Crash, IInv, QueuesOK, Copies
<1>3. MemoryOK'
  BY <1>1, KeyFacts DEF Crash, IInv, MemoryOK, Copies, OwnedIsEnglish
<1>4. fresh' \subseteq Services \ active' /\ choices' \in 0..MaxChoices /\ cut' \in BOOLEAN
  BY ChoosesOK DEF Crash, Leave, IInv, RestOK
<1> QED
  BY <1>2, <1>3, <1>4, LeaveOK DEF Crash, IInv, RestOK

LEMMA LoseFocusOK == ASSUME IInv, LoseFocus PROVE IInv'
<1>1. MemoryOK' /\ ToolbarOK'
  BY SameMemory, SameToolbar DEF LoseFocus, IInv
<1>2. QueuesOK'
  BY DEF LoseFocus, IInv, QueuesOK
<1>3. RestOK'
  BY ChoosesOK DEF LoseFocus, IInv, RestOK
<1> QED
  BY <1>1, <1>2, <1>3 DEF IInv

LEMMA SettingsChangeOK == ASSUME IInv, NEW k \in Keys, SettingsChange(k) PROVE IInv'
<1>1. MemoryOK' /\ ToolbarOK'
  BY SameMemory, SameToolbar DEF SettingsChange, IInv
<1>2. QueuesOK'
  <2>1. \A a, b \in Messages : <<a>> \in Seq(Messages) /\ <<a, b>> \in Seq(Messages)
    OBVIOUS
  <2>2. posting' \in Seq(Messages)
    BY <2>1 DEF SettingsChange, Messages
  <2> QED
    BY <2>2 DEF SettingsChange, IInv, QueuesOK
<1>3. RestOK'
  BY ChoosesOK DEF SettingsChange, IInv, RestOK
<1> QED
  BY <1>1, <1>2, <1>3 DEF IInv

LEMMA SettingsPostOK == ASSUME IInv, SettingsPost PROVE IInv'
<1>1. MemoryOK' /\ ToolbarOK' /\ RestOK'
  BY SameMemory, SameToolbar DEF SettingsPost, IInv, RestOK
<1>2. QueuesOK'
  <2>1. Head(posting) \in Messages /\ Tail(posting) \in Seq(Messages)
    BY HeadTailProperties DEF SettingsPost, IInv, QueuesOK
  <2> QED
    BY <2>1, PostOK DEF SettingsPost, IInv, QueuesOK
<1> QED
  BY <1>1, <1>2 DEF IInv

LEMMA SystemChangeOK == ASSUME IInv, SystemChange PROVE IInv'
<1>1. MemoryOK' /\ ToolbarOK'
  BY SameMemory, SameToolbar DEF SystemChange, IInv, outside
<1>2. QueuesOK'
  BY PostOK DEF SystemChange, IInv, QueuesOK, outside, Messages
<1>3. RestOK'
  BY SameRest, ChoosesOK DEF SystemChange, IInv, RestOK
<1> QED
  BY <1>1, <1>2, <1>3 DEF IInv

LEMMA NextOK == ASSUME IInv, [Next]_vars PROVE IInv'
<1>1. CASE UNCHANGED vars
  BY <1>1, SameMemory, SameToolbar, SameRest
     DEF vars, own, toolbar, outside, IInv, QueuesOK, RestOK
<1>2. CASE Next
  BY <1>2, StepOK, HandleOK, WatchTimerOK, ToggleAsciiModeOK, HandleLangBarMenuCommandOK,
     ToggleToolbarWindowOK, HideToolbarOK, OnSetFocusOK, ActivateOK, DeactivateOK, CrashOK,
     CapsLockDownOK, CapsLockUpOK, LoseFocusOK, SettingsPostOK, SystemChangeOK,
     SettingsChangeOK DEF Next
<1> QED
  BY <1>1, <1>2

LEMMA Invariance == Spec => []IInv
<1>1. Init => IInv
  BY InitOK
<1>2. IInv /\ [Next]_vars => IInv'
  BY NextOK
<1> QED
  BY <1>1, <1>2, PTL DEF Spec

\* Every variable keeps its type: a handler is always a list of tasks, and
\* only active services have the focus, a window or the mutex.
THEOREM TypeCorrect == Spec => []TypeOK
  BY Invariance, Parts, PTL

\* No two services show a toolbar window, however many there are and whenever
\* they come, go and crash (TryAcquireToolbarWindowOwnership and its release).
THEOREM ToolbarExclusive == Spec => []OneToolbar
  BY Invariance, Parts, PTL

\* CapsLock owns the mode only of a service in English mode: switching it off
\* turns no Chinese mode around (ResolveCapsLockTransition).
THEOREM CapsOwnsEnglish == Spec => []OwnedIsEnglish
  BY Invariance, Parts, PTL

-----------------------------------------------------------------------------
(* Agreed.  Until a copy has the value that is in the file, something will *)
(* make its service read the file again: a message in its queue, a read in *)
(* its handler, or a message that a service or the settings window is      *)
(* about to post.  For that, whoever is to write a default must be to post *)
(* a message after it.                                                     *)

Refresh == <<"post", "refresh">>
Has(q, t) == \E i \in 1..Len(q) : q[i] = t
Promised(q) == \A i \in 1..Len(q), k \in Toggles :
                 q[i] = <<"write", k>> => \E j \in i+1..Len(q) : q[j] = Refresh
Coming == posting # <<>> \/ cut \/ \E r \in Services : Has(todo[r], Refresh)
UpToDate(s, k) == \/ memory[s][k] = file[k] \/ inbox[s] # <<>>
                  \/ Has(todo[s], <<"read", k>>) \/ Coming
Dormant == \A s \in Services \ active : Idle(s) /\ inbox[s] = <<>>
AInv == /\ \A s \in Services : Promised(todo[s])
        /\ Dormant
        /\ \A s \in active, k \in Toggles : UpToDate(s, k)

LEMMA HasTail ==
  ASSUME NEW q \in Seq(Tasks), q # <<>>, NEW t, Has(q, t), t # Head(q)
  PROVE  Has(Tail(q), t)
<1>1. PICK i \in 1..Len(q) : q[i] = t
  BY DEF Has
<1>2. i # 1 /\ i - 1 \in 1..Len(Tail(q)) /\ Tail(q)[i - 1] = t
  BY <1>1
<1> QED
  BY <1>2 DEF Has

LEMMA PromisedTail ==
  ASSUME NEW q \in Seq(Tasks), q # <<>>, Promised(q)
  PROVE  /\ Promised(Tail(q))
         /\ \A k \in Toggles : Head(q) = <<"write", k>> => Has(Tail(q), Refresh)
<1>1. Len(Tail(q)) = Len(q) - 1 /\ \A i \in 1..Len(Tail(q)) : Tail(q)[i] = q[i + 1]
  BY HeadTailProperties
<1>2. ASSUME NEW i \in 1..Len(Tail(q)), NEW k \in Toggles, Tail(q)[i] = <<"write", k>>
      PROVE  \E j \in i+1..Len(Tail(q)) : Tail(q)[j] = Refresh
  <2>1. i + 1 \in 1..Len(q) /\ q[i + 1] = <<"write", k>>
    BY <1>1, <1>2
  <2>2. PICK j \in (i+1)+1..Len(q) : q[j] = Refresh
    BY <2>1 DEF Promised
  <2>3. j - 1 \in i+1..Len(Tail(q)) /\ Tail(q)[j - 1] = Refresh
    BY <1>1, <2>2
  <2> QED
    BY <2>3
<1>3. ASSUME NEW k \in Toggles, Head(q) = <<"write", k>> PROVE Has(Tail(q), Refresh)
  <2>1. 1 \in 1..Len(q) /\ q[1] = <<"write", k>>
    BY <1>3
  <2>2. PICK j \in 1+1..Len(q) : q[j] = Refresh
    BY <2>1 DEF Promised
  <2>3. j - 1 \in 1..Len(Tail(q)) /\ Tail(q)[j - 1] = Refresh
    BY <1>1, <2>2
  <2> QED
    BY <2>3 DEF Has
<1> QED
  BY <1>2, <1>3 DEF Promised

LEMMA HasConcat ==
  ASSUME NEW a \in Seq(Tasks), NEW b \in Seq(Tasks), NEW t, Has(a, t) \/ Has(b, t)
  PROVE  Has(a \o b, t)
<1>1. CASE Has(a, t)
  <2>1. PICK i \in 1..Len(a) : a[i] = t
    BY <1>1 DEF Has
  <2>2. i \in 1..Len(a \o b) /\ (a \o b)[i] = t
    BY <2>1, ConcatProperties
  <2> QED
    BY <2>2 DEF Has
<1>2. CASE Has(b, t)
  <2>1. PICK i \in 1..Len(b) : b[i] = t
    BY <1>2 DEF Has
  <2>2. Len(a) + i \in 1..Len(a \o b) /\ (a \o b)[Len(a) + i] = t
    BY <2>1, ConcatProperties
  <2> QED
    BY <2>2 DEF Has
<1> QED
  BY <1>1, <1>2

LEMMA PromisedConcat ==
  ASSUME NEW a \in Seq(Tasks), NEW b \in Seq(Tasks), Promised(b),
         Promised(a) \/ Has(b, Refresh)
  PROVE  Promised(a \o b)
<1> DEFINE c == a \o b
<1>1. /\ Len(c) = Len(a) + Len(b) /\ Len(a) \in Nat /\ Len(b) \in Nat
      /\ \A i \in 1..Len(c) : c[i] = IF i <= Len(a) THEN a[i] ELSE b[i - Len(a)]
  BY ConcatProperties
<1> HIDE DEF c
<1>2. ASSUME NEW i \in 1..Len(c), NEW k \in Toggles, c[i] = <<"write", k>>
      PROVE  \E j \in i+1..Len(c) : c[j] = Refresh
  <2>1. CASE i <= Len(a) /\ Has(b, Refresh)
    <3>1. PICK j \in 1..Len(b) : b[j] = Refresh
      BY <2>1 DEF Has
    <3>2. Len(a) + j \in i+1..Len(c) /\ c[Len(a) + j] = Refresh
      BY <1>1, <2>1, <3>1
    <3> QED
      BY <3>2
  <2>2. CASE i <= Len(a) /\ Promised(a)
    <3>1. i \in 1..Len(a) /\ a[i] = <<"write", k>>
      BY <1>1, <1>2, <2>2
    <3>2. PICK j \in i+1..Len(a) : a[j] = Refresh
      BY <2>2, <3>1 DEF Promised
    <3>3. j \in i+1..Len(c) /\ c[j] = Refresh
      BY <1>1, <3>2
    <3> QED
      BY <3>3
  <2>3. CASE i > Len(a)
    <3>1. i - Len(a) \in 1..Len(b) /\ b[i - Len(a)] = <<"write", k>>
      BY <1>1, <1>2, <2>3
    <3>2. PICK j \in (i - Len(a))+1..Len(b) : b[j] = Refresh
      BY <3>1 DEF Promised
    <3>3. Len(a) + j \in i+1..Len(c) /\ c[Len(a) + j] = Refresh
      BY <1>1, <2>3, <3>2
    <3> QED
      BY <3>3
  <2> QED
    BY <1>1, <2>1, <2>2, <2>3
<1> QED
  BY <1>2 DEF Promised, c

Quietly(t) == \A k \in Toggles : t # <<"write", k>>

LEMMA SingleHas == ASSUME NEW t PROVE Has(<<t>>, t)
<1>1. Len(<<t>>) = 1 /\ <<t>>[1] = t
  OBVIOUS
<1> QED
  BY <1>1 DEF Has

LEMMA SinglePromised == ASSUME NEW t \in Tasks, Quietly(t) PROVE Promised(<<t>>)
<1>1. Len(<<t>>) = 1 /\ \A i \in 1..1 : <<t>>[i] = t
  OBVIOUS
<1> QED
  BY <1>1 DEF Promised, Quietly

LEMMA QuietTasks ==
  /\ \A k \in Keys : <<"read", k>> \in Tasks /\ Quietly(<<"read", k>>)
  /\ \A m \in Messages : <<"post", m>> \in Tasks /\ Quietly(<<"post", m>>)
  /\ \A w \in {"load", "settle", "arrive", "show", "hide"} :
       <<"window", w>> \in Tasks /\ Quietly(<<"window", w>>)
  /\ <<"compare", "input">> \in Tasks /\ Quietly(<<"compare", "input">>)
  /\ <<"write", "toolbar">> \in Tasks /\ Quietly(<<"write", "toolbar">>)
<1>1. "toolbar" \notin Toggles /\ "toolbar" \in Keys
  BY ModeAssumption, KeyFacts
<1> QED
  BY <1>1 DEF Tasks, Quietly

LEMMA AllHas ==
  ASSUME NEW op, NEW i \in 1..Len(Options) PROVE Has(All(op, Options), <<op, Options[i]>>)
<1>1. Len(Options) \in Nat
  BY ModeAssumption
<1>2. All(op, Options) = [j \in 1..Len(Options) |-> <<op, Options[j]>>]
  BY DEF All
<1>3. Len(All(op, Options)) = Len(Options)
  BY <1>1, <1>2
<1> QED
  BY <1>2, <1>3 DEF Has

\* ApplyInputStateFromSettings reads every default and writes none.
LEMMA ApplyReads ==
  /\ Promised(ApplyInputState)
  /\ \A k \in Toggles : Has(ApplyInputState, <<"read", k>>)
<1> DEFINE head == <<<<"read", "mode">>>>
<1>1. head \in Seq(Tasks) /\ All("read", Options) \in Seq(Tasks)
  BY QuietTasks, KeyFacts, Single, AllType
<1>2. Promised(All("read", Options))
  <2>1. Len(Options) \in Nat
    BY ModeAssumption
  <2>2. All("read", Options) = [j \in 1..Len(Options) |-> <<"read", Options[j]>>]
    BY DEF All
  <2>3. Len(All("read", Options)) = Len(Options)
    BY <2>1, <2>2
  <2>4. \A j \in 1..Len(Options), k \in Toggles : All("read", Options)[j] # <<"write", k>>
    BY <2>2
  <2> QED
    BY <2>3, <2>4 DEF Promised
<1>3. Promised(head) /\ Has(head, <<"read", "mode">>)
  BY QuietTasks, KeyFacts, SinglePromised, SingleHas
<1>4. ASSUME NEW k \in Toggles PROVE Has(ApplyInputState, <<"read", k>>)
  <2>1. CASE k = "mode"
    BY <1>1, <1>3, <2>1, HasConcat DEF ApplyInputState
  <2>2. CASE k # "mode"
    <3>1. PICK i \in 1..Len(Options) : k = Options[i]
      BY <2>2 DEF Toggles
    <3>2. Has(All("read", Options), <<"read", k>>)
      BY <3>1, AllHas
    <3> QED
      BY <1>1, <3>2, HasConcat DEF ApplyInputState
  <2> QED
    BY <2>1, <2>2
<1>5. Promised(ApplyInputState)
  BY <1>1, <1>2, <1>3, PromisedConcat DEF ApplyInputState
<1> QED
  BY <1>4, <1>5

LEMMA LoadPromised == /\ Promised(SaveToolbarSetting) /\ Promised(LoadUserSettings)
                      /\ \A due \in BOOLEAN : Promised(Tip(due))
<1>1. Promised(SaveToolbarSetting)
  BY QuietTasks, SinglePromised DEF SaveToolbarSetting
<1>2. Promised(LoadUserSettings)
  <2>1. /\ <<<<"read", "toolbar">>>> \in Seq(Tasks) /\ Promised(<<<<"read", "toolbar">>>>)
        /\ <<<<"window", "load">>>> \in Seq(Tasks) /\ Promised(<<<<"window", "load">>>>)
    BY QuietTasks, KeyFacts, Single, SinglePromised
  <2>2. /\ <<<<"read", "toolbar">>>> \o SaveToolbarSetting \in Seq(Tasks)
        /\ Promised(<<<<"read", "toolbar">>>> \o SaveToolbarSetting)
    BY <1>1, <2>1, Programs, ConcatProperties, PromisedConcat
  <2> QED
    BY <2>1, <2>2, PromisedConcat DEF LoadUserSettings
<1>3. Promised(<<>>)
  BY DEF Promised
<1> QED
  BY <1>1, <1>2, <1>3 DEF Tip

\* Every change of a default is followed by a broadcast.
LEMMA PersistedPosts == \A due \in BOOLEAN : Promised(Persisted(due)) /\ Has(Persisted(due), Refresh)
<1> TAKE due \in BOOLEAN
<1> DEFINE post == <<Refresh>>
<1>1. post \in Seq(Tasks) /\ Promised(post) /\ Has(post, Refresh)
  BY QuietTasks, Single, SinglePromised, SingleHas DEF Refresh, Messages
<1> HIDE DEF post
<1>2. /\ PersistInputModeDefaults \o post \in Seq(Tasks)
      /\ Promised(PersistInputModeDefaults \o post)
      /\ Has(PersistInputModeDefaults \o post, Refresh)
  BY <1>1, Programs, ConcatProperties, PromisedConcat, HasConcat
<1>3. Persisted(due) = (PersistInputModeDefaults \o post) \o Tip(due)
  BY DEF Persisted, post, Refresh
<1> QED
  BY <1>2, <1>3, Programs, LoadPromised, PromisedConcat, HasConcat

\* Both messages make a service read every default.
LEMMA RefreshReads ==
  \A p \in {RefreshToolbarFromSettings, RefreshInputStateFromSettings} :
    Promised(p) /\ \A k \in Toggles : Has(p, <<"read", k>>)
<1>1. /\ Promised(RefreshToolbarFromSettings)
      /\ \A k \in Toggles : Has(RefreshToolbarFromSettings, <<"read", k>>)
  <2> DEFINE first == <<<<"read", "toolbar">>>>
             last == <<<<"window", "settle">>>>
  <2>1. /\ first \in Seq(Tasks) /\ Promised(first)
        /\ last \in Seq(Tasks) /\ Promised(last)
    BY QuietTasks, KeyFacts, Single, SinglePromised
  <2>2. RefreshToolbarFromSettings = ((first \o ApplyInputState) \o SaveToolbarSetting) \o last
    BY DEF RefreshToolbarFromSettings
  <2> HIDE DEF first, last
  <2>3. /\ first \o ApplyInputState \in Seq(Tasks) /\ Promised(first \o ApplyInputState)
        /\ \A k \in Toggles : Has(first \o ApplyInputState, <<"read", k>>)
    BY <2>1, Programs, ApplyReads, ConcatProperties, PromisedConcat, HasConcat
  <2>4. /\ (first \o ApplyInputState) \o SaveToolbarSetting \in Seq(Tasks)
        /\ Promised((first \o ApplyInputState) \o SaveToolbarSetting)
        /\ \A k \in Toggles : Has((first \o ApplyInputState) \o SaveToolbarSetting, <<"read", k>>)
    BY <2>3, Programs, LoadPromised, ConcatProperties, PromisedConcat, HasConcat
  <2> QED
    BY <2>1, <2>2, <2>4, PromisedConcat, HasConcat
<1>2. /\ Promised(RefreshInputStateFromSettings)
      /\ \A k \in Toggles : Has(RefreshInputStateFromSettings, <<"read", k>>)
  <2> DEFINE last == <<<<"compare", "input">>>>
  <2>1. last \in Seq(Tasks) /\ Promised(last)
    BY QuietTasks, Single, SinglePromised
  <2>2. RefreshInputStateFromSettings = (LoadUserSettings \o ApplyInputState) \o last
    BY DEF RefreshInputStateFromSettings
  <2> HIDE DEF last
  <2>3. /\ LoadUserSettings \o ApplyInputState \in Seq(Tasks)
        /\ Promised(LoadUserSettings \o ApplyInputState)
        /\ \A k \in Toggles : Has(LoadUserSettings \o ApplyInputState, <<"read", k>>)
    BY Programs, LoadPromised, ApplyReads, ConcatProperties, PromisedConcat, HasConcat
  <2> QED
    BY <2>1, <2>2, <2>3, PromisedConcat, HasConcat
<1> QED
  BY <1>1, <1>2

LEMMA Woken ==
  ASSUME IInv, NEW m \in Messages, Post(m)
  PROVE  /\ \A r \in active : inbox'[r] # <<>>
         /\ \A r \in Services \ active : inbox'[r] = inbox[r]
<1>1. ASSUME NEW r \in active, Len(inbox[r]) < QueueLimit PROVE inbox'[r] # <<>>
  <2>1. r \in Services /\ inbox[r] \in Seq(Messages)
    BY DEF IInv, ToolbarOK, QueuesOK
  <2>2. inbox'[r] = Append(inbox[r], m)
    BY <1>1, <2>1 DEF Post
  <2>3. Append(inbox[r], m) # <<>>
    BY <2>1, AppendProperties
  <2> QED
    BY <2>2, <2>3
<1>2. ASSUME NEW r \in active, ~(Len(inbox[r]) < QueueLimit) PROVE inbox'[r] # <<>>
  <2>1. r \in Services
    BY DEF IInv, ToolbarOK
  <2>2. inbox'[r] = inbox[r]
    BY <1>2, <2>1 DEF Post
  <2>3. inbox[r] # <<>>
    BY <1>2, ModeAssumption
  <2> QED
    BY <2>2, <2>3
<1> QED
  BY <1>1, <1>2 DEF Post

\* A step that leaves the copies of the defaults and all messages alone.
LEMMA Undisturbed ==
  ASSUME AInv, UNCHANGED <<file, todo, inbox, active, posting, cut>>,
         \A r \in Services, k \in Toggles : memory'[r][k] = memory[r][k],
         active \subseteq Services
  PROVE  AInv'
  BY DEF AInv, Dormant, Idle, UpToDate, Coming

\* A handler begins that posts a message, reads every default or belongs to a
\* service whose copy does not change.
LEMMA Begins ==
  ASSUME IInv, AInv, NEW s \in Services, NEW t \in Seq(Tasks), Promised(t), Idle(s), Begin(s, t),
         active' = active \cup {s}, UNCHANGED <<file, posting, cut>>,
         \A r \in Services : r # s => inbox'[r] = inbox[r],
         \A r \in Services, k \in Toggles : r # s => memory'[r][k] = memory[r][k],
         \/ Has(t, Refresh)
         \/ \A k \in Toggles : Has(t, <<"read", k>>)
         \/ s \in active /\ UNCHANGED inbox /\ \A k \in Toggles : memory'[s][k] = memory[s][k]
  PROVE  AInv'
<1>1. /\ todo'[s] = t /\ todo[s] = <<>>
      /\ \A r \in Services : r # s => todo'[r] = todo[r]
  BY DEF Begin, Idle, IInv, QueuesOK
<1>2. \A x : ~Has(todo[s], x)
  BY <1>1 DEF Has
<1>3. Coming => Coming'
  BY <1>1, <1>2 DEF Coming
<1>4. \A r \in Services : Promised(todo'[r])
  BY <1>1 DEF AInv
<1>5. Dormant'
  BY <1>1 DEF AInv, Dormant, Idle
<1>6. Has(t, Refresh) => Coming'
  BY <1>1 DEF Coming
<1>7. active \subseteq Services
  BY DEF IInv, ToolbarOK
<1>8. ASSUME NEW r \in active', NEW k \in Toggles, ~Coming' PROVE UpToDate(r, k)'
  <2>1. CASE r # s
    BY <1>1, <1>3, <1>7, <1>8, <2>1 DEF AInv, UpToDate
  <2>2. CASE r = s /\ Has(t, <<"read", k>>)
    BY <1>1, <2>2 DEF UpToDate
  <2>3. CASE r = s /\ s \in active /\ UNCHANGED inbox /\ memory'[s][k] = memory[s][k]
    BY <1>2, <1>3, <1>8, <2>3 DEF AInv, UpToDate
  <2> QED
    BY <1>6, <1>8, <2>1, <2>2, <2>3
<1> QED
  BY <1>4, <1>5, <1>8 DEF AInv, UpToDate

LEMMA InitAgrees == Init => AInv
<1> SUFFICES ASSUME Init PROVE AInv
  OBVIOUS
<1>1. \A s \in Services : todo[s] = <<>> /\ inbox[s] = <<>> /\ Promised(todo[s])
  BY DEF Init, Promised
<1>2. \A s \in active : s \in Services /\ memory[s] = file
  BY DEF Init
<1> QED
  BY <1>1, <1>2 DEF AInv, Dormant, Idle, UpToDate

LEMMA StepAgrees == ASSUME IInv, AInv, NEW s \in Services, Step(s) PROVE AInv'
<1> DEFINE q == todo[s]
           op == Head(q)[1]
           what == Head(q)[2]
<1>1. q \in Seq(Tasks) /\ q # <<>> /\ s \in active /\ active \subseteq Services
  BY DEF Step, Idle, IInv, QueuesOK, ToolbarOK, AInv, Dormant
<1>2. Head(q) \in Tasks
  BY <1>1
<1>3. /\ todo'[s] = Tail(q) /\ \A r \in Services : r # s => todo'[r] = todo[r]
      /\ UNCHANGED <<active, posting, cut>>
  BY DEF Step, Begin, outside, IInv, QueuesOK
<1>4. /\ \/ op = "write" /\ Write(s, what)
         \/ op = "read" /\ Read(s, what)
         \/ op = "post" /\ Post(what) /\ UNCHANGED <<file, own>>
         \/ op = "window" /\ Windows(s, what)
         \/ op = "compare" /\ Compare(s)
  BY DEF Step
<1>5. \A r \in Services : Promised(todo'[r])
  BY <1>1, <1>3, PromisedTail DEF AInv
<1>6. ASSUME NEW r \in Services, NEW x, Has(todo[r], x), x # Head(q) PROVE Has(todo'[r], x)
  BY <1>1, <1>3, <1>6, HasTail
<1>7. ASSUME Head(q) # Refresh, Coming PROVE Coming'
  BY <1>3, <1>6, <1>7 DEF Coming
<1> DEFINE Same == /\ UNCHANGED <<file, inbox>>
                   /\ \A r \in Services, k \in Toggles : memory'[r][k] = memory[r][k]
<1>8. CASE Same /\ op \in {"window", "compare"}
  <2>1. Head(q) # Refresh /\ \A k \in Toggles : Head(q) # <<"read", k>>
    BY <1>8 DEF Refresh
  <2>2. Dormant'
    BY <1>3, <1>8, <1>1 DEF AInv, Dormant, Idle
  <2>3. ASSUME NEW r \in active', NEW k \in Toggles PROVE UpToDate(r, k)'
    <3>1. r \in active /\ r \in Services
      BY <1>1, <1>3
    <3>2. UpToDate(r, k)
      BY <3>1 DEF AInv
    <3> QED
      BY <1>6, <1>7, <1>8, <2>1, <3>1, <3>2 DEF UpToDate
  <2> QED
    BY <1>5, <2>2, <2>3 DEF AInv
<1>9. ASSUME NEW m \in Messages, Post(m) PROVE AInv'
  <2>1. Dormant'
    BY <1>1, <1>3, <1>9, Woken DEF AInv, Dormant, Idle
  <2>2. \A r \in active', k \in Toggles : UpToDate(r, k)'
    BY <1>3, <1>9, Woken DEF UpToDate
  <2> QED
    BY <1>5, <2>1, <2>2 DEF AInv
<1>10. CASE op = "post"
  BY <1>2, <1>4, <1>9, <1>10, TaskParts
<1>11. CASE op = "window"
  <2>1. Windows(s, what) /\ UNCHANGED <<file, memory>>
    BY <1>4, <1>11 DEF Windows, own
  <2>2. "refresh" \in Messages
    BY DEF Messages
  <2>3. UNCHANGED inbox \/ Post("refresh")
    BY <2>1 DEF Windows, Loaded, Settle, Arrive
  <2> QED
    BY <1>8, <1>9, <1>11, <2>1, <2>2, <2>3
<1>12. CASE op = "compare"
  <2>1. UNCHANGED <<file, memory>>
    BY <1>4, <1>12 DEF Compare, own
  <2>2. "refresh" \in Messages
    BY DEF Messages
  <2>3. UNCHANGED inbox \/ Post("refresh")
    BY <1>4, <1>12 DEF Compare
  <2> QED
    BY <1>8, <1>9, <1>12, <2>1, <2>2, <2>3
<1>13. CASE op = "read"
  <2>1. Remember(s, what, file[what]) /\ UNCHANGED <<file, inbox>> /\ what \in Keys
    BY <1>2, <1>4, <1>13, TaskParts DEF Read
  <2>2. \A r \in Services, j \in Keys :
          memory'[r][j] = IF r = s /\ j = what THEN file[what] ELSE memory[r][j]
    <3>1. memory \in Copies /\ file[what] \in BOOLEAN
      BY <2>1 DEF IInv, MemoryOK, RestOK
    <3> QED
      BY <2>1, <3>1, RememberOK
  <2>3. Head(q) # Refresh /\ Head(q) = <<"read", what>>
    BY <1>2, <1>13 DEF Refresh, Tasks
  <2>4. Dormant'
    BY <1>1, <1>3, <2>1 DEF AInv, Dormant, Idle
  <2>5. ASSUME NEW r \in active', NEW k \in Toggles PROVE UpToDate(r, k)'
    <3>1. r \in active /\ r \in Services /\ k \in Keys
      BY <1>1, <1>3, KeyFacts
    <3>2. UpToDate(r, k)
      BY <3>1 DEF AInv
    <3>3. CASE r = s /\ k = what
      BY <2>1, <2>2, <3>1, <3>3 DEF UpToDate
    <3>4. CASE r = s /\ k # what
      <4>1. <<"read", k>> # Head(q)
        BY <2>3, <3>4
      <4> QED
        BY <1>6, <1>7, <2>1, <2>2, <2>3, <3>1, <3>2, <3>4, <4>1 DEF UpToDate
    <3>5. CASE r # s
      BY <1>3, <1>7, <2>1, <2>2, <2>3, <3>1, <3>2, <3>5 DEF UpToDate
    <3> QED
      BY <3>3, <3>4, <3>5
  <2> QED
    BY <1>5, <2>4, <2>5 DEF AInv
<1>14. CASE op = "write"
  <2>1. Write(s, what) /\ UNCHANGED <<memory, inbox>> /\ what \in Keys
    BY <1>2, <1>4, <1>14, TaskParts DEF Write, own
  <2>2. Head(q) = <<"write", what>>
    BY <1>2, <1>14 DEF Tasks
  <2>3. Head(q) # Refresh /\ \A k \in Toggles : Head(q) # <<"read", k>>
    BY <2>2 DEF Refresh
  <2>4. Dormant'
    BY <1>1, <1>3, <2>1 DEF AInv, Dormant, Idle
  <2>5. CASE what \in Toggles
    <3>1. Has(todo'[s], Refresh)
      BY <1>1, <1>3, <2>2, <2>5, PromisedTail DEF AInv
    <3>2. Coming'
      BY <3>1 DEF Coming
    <3> QED
      BY <1>5, <2>4, <3>2 DEF AInv, UpToDate
  <2>6. CASE what \notin Toggles
    <3>1. \A k \in Toggles : file'[k] = file[k]
      BY <2>1, <2>6, KeyFacts DEF Write, IInv, RestOK
    <3>2. ASSUME NEW r \in active', NEW k \in Toggles PROVE UpToDate(r, k)'
      <4>1. r \in active /\ r \in Services /\ UpToDate(r, k)
        BY <1>1, <1>3 DEF AInv
      <4> QED
        BY <1>6, <1>7, <2>1, <2>3, <3>1, <4>1 DEF UpToDate
    <3> QED
      BY <1>5, <2>4, <3>2 DEF AInv
  <2> QED
    BY <2>5, <2>6
<1> QED
  BY <1>4, <1>10, <1>11, <1>12, <1>13, <1>14

LEMMA HandleAgrees == ASSUME IInv, AInv, NEW s \in Services, Handle(s) PROVE AInv'
<1>1. PICK p \in {RefreshToolbarFromSettings, RefreshInputStateFromSettings} : Begin(s, p)
  BY DEF Handle
<1>2. s \in active /\ active \subseteq Services
  BY DEF Handle, AInv, Dormant, IInv, ToolbarOK
<1>3. p \in Seq(Tasks) /\ Promised(p) /\ \A k \in Toggles : Has(p, <<"read", k>>)
  BY Programs, RefreshReads
<1>4. /\ Idle(s) /\ active' = active \cup {s} /\ UNCHANGED <<file, memory, posting, cut>>
      /\ \A r \in Services : r # s => inbox'[r] = inbox[r]
  BY <1>2 DEF Handle, own, outside, IInv, QueuesOK
<1> QED
  BY <1>1, <1>3, <1>4, Begins

\* Only an active service shows a toolbar window or has the focus.
LEMMA Present ==
  ASSUME IInv, NEW s \in Services, s \in windows \cup {focus}
  PROVE  s \in active /\ active = active \cup {s}
  BY ModeAssumption DEF IInv, ToolbarOK, RestOK

\* A change of the mode or of a default.
LEMMA ChangeAgrees ==
  ASSUME IInv, AInv, NEW s \in active, Idle(s), NEW due \in BOOLEAN, Begin(s, Persisted(due)),
         NEW k \in Keys, NEW v \in BOOLEAN, Remember(s, k, v),
         UNCHANGED <<file, inbox, active, posting, cut>>
  PROVE  AInv'
<1>1. s \in Services /\ active' = active \cup {s}
  BY DEF IInv, ToolbarOK
<1>2. \A r \in Services, j \in Toggles : r # s => memory'[r][j] = memory[r][j]
  BY <1>1, RememberOK, KeyFacts DEF IInv, MemoryOK
<1>3. Persisted(due) \in Seq(Tasks) /\ Promised(Persisted(due)) /\ Has(Persisted(due), Refresh)
  BY Programs, PersistedPosts
<1> QED
  BY <1>1, <1>2, <1>3, Begins

LEMMA ToggleAsciiModeAgrees ==
  ASSUME IInv, AInv, NEW s \in Services, ToggleAsciiMode(s) PROVE AInv'
<1>1. PICK due \in BOOLEAN : Begin(s, Persisted(due))
  BY DEF ToggleAsciiMode
<1>2. Remember(s, "mode", ~memory[s]["mode"]) /\ "mode" \in Keys
  BY KeyFacts DEF ToggleAsciiMode, Toggled
<1>3. Idle(s) /\ s \in active /\ UNCHANGED <<file, inbox, active, posting, cut>>
  BY Present DEF ToggleAsciiMode
<1>4. (~memory[s]["mode"]) \in BOOLEAN
  OBVIOUS
<1> QED
  BY <1>1, <1>2, <1>3, <1>4, ChangeAgrees

LEMMA HandleLangBarMenuCommandAgrees ==
  ASSUME IInv, AInv, NEW s \in Services, HandleLangBarMenuCommand(s) PROVE AInv'
<1>1. PICK due \in BOOLEAN : Begin(s, Persisted(due))
  BY DEF HandleLangBarMenuCommand
<1>2. PICK k \in Keys : Remember(s, k, ~memory[s][k])
  BY KeyFacts DEF HandleLangBarMenuCommand
<1>3. Idle(s) /\ s \in active /\ UNCHANGED <<file, inbox, active, posting, cut>>
  BY Present DEF HandleLangBarMenuCommand, outside
<1>4. (~memory[s][k]) \in BOOLEAN
  OBVIOUS
<1> QED
  BY <1>1, <1>2, <1>3, <1>4, ChangeAgrees

LEMMA CapsLockUpAgrees == ASSUME IInv, AInv, CapsLockUp PROVE AInv'
<1>1. CASE UNCHANGED <<memory, todo>>
  BY <1>1, Undisturbed DEF CapsLockUp, IInv, ToolbarOK
<1>2. CASE ~UNCHANGED <<memory, todo>>
  <2> DEFINE new == ResolveCapsLockTransition(memory[focus]["mode"], owned[focus], caps.on)[1]
  <2>1. /\ focus # None /\ Idle(focus) /\ Remember(focus, "mode", new)
        /\ \E due \in BOOLEAN : Begin(focus, Persisted(due))
        /\ UNCHANGED <<file, inbox, active, posting, cut>>
    BY <1>2 DEF CapsLockUp
  <2>2. focus \in active
    BY <2>1 DEF IInv, RestOK
  <2>3. new \in BOOLEAN
    <3>1. memory[focus]["mode"] \in BOOLEAN
      BY <2>2, KeyFacts DEF IInv, MemoryOK, ToolbarOK, Copies
    <3> QED
      BY <3>1 DEF ResolveCapsLockTransition
  <2> HIDE DEF new
  <2> QED
    BY <2>1, <2>2, <2>3, KeyFacts, ChangeAgrees
<1> QED
  BY <1>1, <1>2

\* A handler that begins with a change of the copy of toolbar_visible_.
LEMMA ShowingAgrees ==
  ASSUME IInv, AInv, NEW s \in active, Idle(s), NEW v \in BOOLEAN, Remember(s, "toolbar", v),
         NEW t \in Seq(Tasks), Promised(t), Begin(s, t),
         UNCHANGED <<file, inbox, active, posting, cut>>
  PROVE  AInv'
<1>1. s \in Services /\ active' = active \cup {s}
  BY DEF IInv, ToolbarOK
<1>2. \A r \in Services, j \in Toggles : memory'[r][j] = memory[r][j]
  BY <1>1, RememberOK, KeyFacts, ModeAssumption DEF IInv, MemoryOK
<1> QED
  BY <1>1, <1>2, Begins

LEMMA ToggleToolbarWindowAgrees ==
  ASSUME IInv, AInv, NEW s \in Services, ToggleToolbarWindow(s) PROVE AInv'
<1> DEFINE last == <<"window", IF file["toolbar"] THEN "hide" ELSE "show">>
           end == <<<<"post", "input">>, last>>
<1>1. \A x \in {<<"post", "input">>, last} : x \in Tasks /\ Quietly(x)
  BY QuietTasks DEF Messages
<1> HIDE DEF last
<1>2. end \in Seq(Tasks) /\ Promised(end)
  <2>1. Len(end) = 2 /\ \A i \in 1..2 : end[i] \in {<<"post", "input">>, last}
    OBVIOUS
  <2> QED
    BY <1>1, <2>1 DEF Promised, Quietly
<1> HIDE DEF end
<1>3. SaveToolbarSetting \o end \in Seq(Tasks) /\ Promised(SaveToolbarSetting \o end)
  BY <1>2, Programs, LoadPromised, ConcatProperties, PromisedConcat
<1>4. Begin(s, SaveToolbarSetting \o end)
  BY DEF ToggleToolbarWindow, end, last
<1>5. /\ Idle(s) /\ s \in active /\ UNCHANGED <<file, inbox, active, posting, cut>>
      /\ Remember(s, "toolbar", ~file["toolbar"])
  BY Present DEF ToggleToolbarWindow, outside
<1>6. (~file["toolbar"]) \in BOOLEAN
  OBVIOUS
<1> QED
  BY <1>3, <1>4, <1>5, <1>6, ShowingAgrees

LEMMA HideToolbarAgrees == ASSUME IInv, AInv, NEW s \in Services, HideToolbar(s) PROVE AInv'
<1> DEFINE end == <<<<"post", "input">>, <<"window", "hide">>, <<"post", "refresh">>>>
<1>1. \A x \in {<<"post", "input">>, <<"window", "hide">>, <<"post", "refresh">>} :
         x \in Tasks /\ Quietly(x)
  BY QuietTasks DEF Messages
<1>2. end \in Seq(Tasks) /\ Promised(end)
  <2>1. /\ Len(end) = 3
        /\ \A i \in 1..3 :
             end[i] \in {<<"post", "input">>, <<"window", "hide">>, <<"post", "refresh">>}
    OBVIOUS
  <2> QED
    BY <1>1, <2>1 DEF Promised, Quietly
<1> HIDE DEF end
<1>3. SaveToolbarSetting \o end \in Seq(Tasks) /\ Promised(SaveToolbarSetting \o end)
  BY <1>2, Programs, LoadPromised, ConcatProperties, PromisedConcat
<1>4. Begin(s, SaveToolbarSetting \o end)
  BY DEF HideToolbar, end
<1>5. /\ Idle(s) /\ s \in active /\ UNCHANGED <<file, inbox, active, posting, cut>>
      /\ Remember(s, "toolbar", FALSE)
  BY Present DEF HideToolbar, outside
<1> QED
  BY <1>3, <1>4, <1>5, ShowingAgrees

LEMMA OnSetFocusAgrees == ASSUME IInv, AInv, NEW s \in Services, OnSetFocus(s) PROVE AInv'
<1> DEFINE arrive == <<<<"window", "arrive">>>>
<1>1. arrive \in Seq(Tasks) /\ Promised(arrive)
  BY QuietTasks, Single, SinglePromised
<1>2. PICK due \in BOOLEAN : Begin(s, (ApplyInputState \o arrive) \o Tip(due))
  BY DEF OnSetFocus
<1> HIDE DEF arrive
<1>3. ApplyInputState \o arrive \in Seq(Tasks) /\ Promised(ApplyInputState \o arrive)
  BY <1>1, Programs, ApplyReads, ConcatProperties, PromisedConcat
<1>4. /\ (ApplyInputState \o arrive) \o Tip(due) \in Seq(Tasks)
      /\ Promised((ApplyInputState \o arrive) \o Tip(due))
  BY <1>3, Programs, LoadPromised, ConcatProperties, PromisedConcat
<1>5. /\ Idle(s) /\ s \in active /\ active' = active \cup {s}
      /\ UNCHANGED <<file, memory, inbox, posting, cut>>
  BY DEF OnSetFocus, own
<1> QED
  BY <1>2, <1>4, <1>5, Begins

LEMMA ActivateAgrees == ASSUME IInv, AInv, NEW s \in Services, Activate(s) PROVE AInv'
<1>1. PICK due \in BOOLEAN : Begin(s, Tip(due) \o ApplyInputState)
  BY DEF Activate
<1>2. /\ Tip(due) \o ApplyInputState \in Seq(Tasks) /\ Promised(Tip(due) \o ApplyInputState)
      /\ \A k \in Toggles : Has(Tip(due) \o ApplyInputState, <<"read", k>>)
  BY Programs, LoadPromised, ApplyReads, ConcatProperties, PromisedConcat, HasConcat
<1>3. Idle(s)
  BY DEF Activate, AInv, Dormant
<1>4. active' = active \cup {s} /\ UNCHANGED <<file, memory, inbox, posting, cut>>
  BY DEF Activate, own
<1> QED
  BY <1>1, <1>2, <1>3, <1>4, Begins

\* A service goes: it takes its queue and its handler along.
LEMMA LeaveAgrees ==
  ASSUME IInv, AInv, NEW s \in Services, Leave(s), Idle(s) \/ cut', cut => cut',
         \A r \in Services : r # s => memory'[r] = memory[r]
  PROVE  AInv'
<1>1. /\ todo'[s] = <<>> /\ inbox'[s] = <<>>
      /\ \A r \in Services : r # s => todo'[r] = todo[r] /\ inbox'[r] = inbox[r]
  BY DEF Leave, Begin, IInv, QueuesOK
<1>2. \A r \in Services : Promised(todo'[r])
  BY <1>1 DEF AInv, Promised
<1>3. Dormant'
  BY <1>1 DEF Leave, AInv, Dormant, Idle
<1>4. Coming => Coming'
  <2>1. Idle(s) => ~Has(todo[s], Refresh)
    BY DEF Idle, Has
  <2> QED
    BY <1>1, <2>1 DEF Coming, Leave
<1>5. ASSUME NEW r \in active', NEW k \in Toggles PROVE UpToDate(r, k)'
  <2>1. r \in active /\ r # s /\ r \in Services /\ UNCHANGED file
    BY DEF Leave, IInv, ToolbarOK
  <2> QED
    BY <1>1, <1>4, <2>1 DEF AInv, UpToDate
<1> QED
  BY <1>2, <1>3, <1>5 DEF AInv

LEMMA DeactivateAgrees == ASSUME IInv, AInv, NEW s \in Services, Deactivate(s) PROVE AInv'
  BY LeaveAgrees DEF Deactivate, own

LEMMA CrashAgrees == ASSUME IInv, AInv, NEW s \in Services, Crash(s) PROVE AInv'
  BY LeaveAgrees DEF Crash, IInv, MemoryOK, Copies

LEMMA WatchTimerAgrees == ASSUME IInv, AInv, NEW s \in Services, WatchTimer(s) PROVE AInv'
<1>1. Remember(s, "toolbar", file["toolbar"]) /\ UNCHANGED <<file, todo, inbox, active, posting, cut>>
  BY DEF WatchTimer, outside
<1>2. memory \in Copies /\ file["toolbar"] \in BOOLEAN /\ active \subseteq Services
  BY KeyFacts DEF IInv, MemoryOK, RestOK, ToolbarOK
<1>3. \A r \in Services, k \in Toggles : memory'[r][k] = memory[r][k]
  BY <1>1, <1>2, RememberOK, KeyFacts, ModeAssumption
<1> QED
  BY <1>1, <1>2, <1>3, Undisturbed

LEMMA SettingsChangeAgrees == ASSUME IInv, AInv, NEW k \in Keys, SettingsChange(k) PROVE AInv'
<1>1. posting' # <<>> /\ UNCHANGED <<todo, inbox, active>>
  BY DEF SettingsChange
<1> QED
  BY <1>1 DEF AInv, Dormant, Idle, UpToDate, Coming

LEMMA PostAgrees ==
  ASSUME IInv, AInv, NEW m \in Messages, Post(m), UNCHANGED <<todo, active>>
  PROVE  AInv'
<1>1. Dormant'
  BY Woken DEF AInv, Dormant, Idle
<1>2. \A r \in active', k \in Toggles : UpToDate(r, k)'
  BY Woken DEF UpToDate
<1> QED
  BY <1>1, <1>2 DEF AInv

LEMMA SettingsPostAgrees == ASSUME IInv, AInv, SettingsPost PROVE AInv'
<1>1. Head(posting) \in Messages
  BY DEF SettingsPost, IInv, QueuesOK
<1> QED
  BY <1>1, PostAgrees DEF SettingsPost

LEMMA NextAgrees == ASSUME IInv, AInv, [Next]_vars PROVE AInv'
<1>1. active \subseteq Services /\ "input" \in Messages
  BY DEF IInv, ToolbarOK, Messages
<1>2. CASE UNCHANGED vars
  BY <1>1, <1>2, Undisturbed DEF vars
<1>3. CASE CapsLockDown
  BY <1>1, <1>3, Undisturbed DEF CapsLockDown, own
<1>4. CASE LoseFocus
  BY <1>1, <1>4, Undisturbed DEF LoseFocus, own
<1>5. CASE SystemChange
  BY <1>1, <1>5, PostAgrees DEF SystemChange, outside
<1>6. CASE Next
  BY <1>3, <1>4, <1>5, <1>6, StepAgrees, HandleAgrees, WatchTimerAgrees, ToggleAsciiModeAgrees,
     HandleLangBarMenuCommandAgrees, ToggleToolbarWindowAgrees, HideToolbarAgrees,
     OnSetFocusAgrees, ActivateAgrees, DeactivateAgrees, CrashAgrees, CapsLockUpAgrees,
     SettingsPostAgrees, SettingsChangeAgrees DEF Next
<1> QED
  BY <1>2, <1>6

LEMMA AgreedFollows == ASSUME IInv, AInv PROVE Agreed
<1> SUFFICES ASSUME Settled, ~cut, NEW s \in active, NEW k \in Toggles
             PROVE  memory[s][k] = file[k]
  BY DEF Agreed
<1>1. \A r \in Services : \A x : ~Has(todo[r], x)
  BY DEF Settled, Idle, Has
<1>2. s \in Services
  BY DEF IInv, ToolbarOK
<1> QED
  BY <1>1, <1>2 DEF AInv, UpToDate, Coming, Settled

\* When all messages are handled, every application has the defaults of
\* settings.ini, for any number of applications and options and any queue
\* limit: each write of a default is followed by a broadcast in the same
\* handler, and each message makes its receiver read every default.
THEOREM Agreement == Spec => []Agreed
<1>1. Init => AInv
  BY InitAgrees
<1>2. IInv /\ AInv /\ [Next]_vars => AInv'
  BY NextAgrees
<1>3. IInv /\ AInv => Agreed
  BY AgreedFollows
<1> QED
  BY <1>1, <1>2, <1>3, Invariance, PTL DEF Spec

-----------------------------------------------------------------------------
(* The candidates.  Parts of sequences.                                    *)

LEMMA MinTwo ==
    ASSUME NEW a \in Int, NEW b \in Int
    PROVE  Min({a, b}) = IF a <= b THEN a ELSE b
  <1>1. \E x \in {a, b} : \A y \in {a, b} : x <= y
    BY SMT
  <1>2. Min({a, b}) \in {a, b} /\ \A y \in {a, b} : Min({a, b}) <= y
    BY <1>1 DEF Min
  <1> QED BY <1>2

LEMMA MinThree ==
    ASSUME NEW a \in Int, NEW b \in Int, NEW c \in Int
    PROVE  /\ Min({a, b, c}) \in {a, b, c}
           /\ Min({a, b, c}) <= a /\ Min({a, b, c}) <= b /\ Min({a, b, c}) <= c
  <1>1. \E x \in {a, b, c} : \A y \in {a, b, c} : x <= y
    BY SMT
  <1>2. Min({a, b, c}) \in {a, b, c} /\ \A y \in {a, b, c} : Min({a, b, c}) <= y
    BY <1>1 DEF Min
  <1> QED BY <1>2

\* t is what stands in q after place a, up to place b.
Part(t, q, a, b) ==
  /\ t \in Seq(Nat)
  /\ Len(t) = IF a < b THEN b - a ELSE 0
  /\ \A i \in 1..Len(t) : t[i] = q[a + i]

LEMMA PartOf ==
    ASSUME NEW q \in Seq(Nat), NEW a \in Nat, NEW b \in Nat, b <= Len(q)
    PROVE  Part(SubSeq(q, a + 1, b), q, a, b)
  <1>1. CASE a < b
    <2>1. a + 1 \in 1..Len(q) + 1 /\ b \in (a + 1) - 1..Len(q)
      BY <1>1
    <2>2. /\ SubSeq(q, a + 1, b) \in Seq(Nat)
          /\ Len(SubSeq(q, a + 1, b)) = b - (a + 1) + 1
          /\ \A i \in 1..b - (a + 1) + 1 : SubSeq(q, a + 1, b)[i] = q[(a + 1) + i - 1]
      BY <2>1, SubSeqProperties
    <2>3. Len(SubSeq(q, a + 1, b)) = b - a
      BY <2>2
    <2>4. \A i \in 1..b - a : SubSeq(q, a + 1, b)[i] = q[a + i]
      <3>1. \A i \in 1..b - a : i \in 1..b - (a + 1) + 1 /\ (a + 1) + i - 1 = a + i
        OBVIOUS
      <3> QED BY <2>2, <3>1
    <2> QED BY <1>1, <2>2, <2>3, <2>4 DEF Part
  <1>2. CASE ~ (a < b)
    <2>1. SubSeq(q, a + 1, b) = <<>>
      BY <1>2, SubSeqEmpty
    <2> QED BY <1>2, <2>1 DEF Part
  <1> QED BY <1>1, <1>2

LEMMA SliceOf ==
    ASSUME NEW q \in Seq(Nat), NEW a \in Nat, NEW size \in Nat
    PROVE  Part(Slice(q, a, size), q, a, IF a + size <= Len(q) THEN a + size ELSE Len(q))
  <1>1. Min({a + size, Len(q)}) = IF a + size <= Len(q) THEN a + size ELSE Len(q)
    BY MinTwo
  <1> QED BY <1>1, PartOf DEF Slice

\* Two parts that meet make one.
LEMMA PartsMeet ==
    ASSUME NEW q, NEW a \in Nat, NEW b \in Nat, NEW c \in Nat, NEW s, NEW t,
           a <= b, b <= c, Part(s, q, a, b), Part(t, q, b, c)
    PROVE  Part(s \o t, q, a, c)
  <1>1. s \in Seq(Nat) /\ t \in Seq(Nat) /\ Len(s) = b - a /\ Len(t) = c - b
    BY DEF Part
  <1>2. /\ s \o t \in Seq(Nat) /\ Len(s \o t) = Len(s) + Len(t)
        /\ \A i \in 1..Len(s) + Len(t) :
             (s \o t)[i] = IF i <= Len(s) THEN s[i] ELSE t[i - Len(s)]
    BY <1>1, ConcatProperties
  <1>3. Len(s \o t) = IF a < c THEN c - a ELSE 0
    BY <1>1, <1>2
  <1>4. ASSUME NEW i \in 1..Len(s \o t)
        PROVE  (s \o t)[i] = q[a + i]
    <2>1. CASE i <= Len(s)
      BY <1>1, <1>2, <2>1 DEF Part
    <2>2. CASE ~ (i <= Len(s))
      <3>1. i - Len(s) \in 1..Len(t) /\ b + (i - Len(s)) = a + i
        BY <1>1, <1>2, <2>2
      <3>2. t[i - Len(s)] = q[b + (i - Len(s))]
        BY <3>1 DEF Part
      <3> QED BY <1>1, <1>2, <2>2, <3>1, <3>2
    <2> QED BY <2>1, <2>2
  <1> QED BY <1>2, <1>3, <1>4 DEF Part

\* A part of a part.
LEMMA PartOfPart ==
    ASSUME NEW q, NEW a \in Nat, NEW b \in Nat, NEW c \in Nat, NEW d \in Nat, NEW s, NEW t,
           a + d <= b, c <= d, Part(s, q, a, b), Part(t, s, c, d)
    PROVE  Part(t, q, a + c, a + d)
  <1>1. s \in Seq(Nat) /\ t \in Seq(Nat) /\ Len(t) = d - c
    BY DEF Part
  <1>2. Len(s) >= d
    BY DEF Part
  <1>3. ASSUME NEW i \in 1..Len(t)
        PROVE  t[i] = q[(a + c) + i]
    <2>1. c + i \in 1..Len(s) /\ a + (c + i) = (a + c) + i
      BY <1>1, <1>2
    <2> QED BY <2>1 DEF Part
  <1> QED BY <1>1, <1>3 DEF Part

LEMMA PartsAreEqual ==
    ASSUME NEW q, NEW a \in Nat, NEW b \in Nat, NEW s, NEW t, Part(s, q, a, b), Part(t, q, a, b)
    PROVE  s = t
  BY SeqEqual DEF Part

LEMMA PartIsEmpty ==
    ASSUME NEW q, NEW a \in Nat, NEW b \in Nat, b <= a
    PROVE  /\ Part(<<>>, q, a, b)
           /\ \A s : Part(s, q, a, b) => s = <<>>
  BY DEF Part

-----------------------------------------------------------------------------
(* The session and the menu.                                               *)

Inputs == {n \in Seq(Letters) : Len(n) \in 1..MaxInput}
Sessions == [typed : Seq(Letters), at : Nat, input : Seq(Letters), page : Nat]
Fresh(n) == [typed |-> n, at |-> 0, input |-> n, page |-> 0]

\* The session knows what Rime has: the input and the page.
InStep(s) == s \in Sessions /\ s.typed = s.input /\ s.at = s.page

LEMMA InputFacts ==
    ASSUME NEW n \in Inputs
    PROVE  n \in Seq(Letters) /\ n # <<>> /\ Len(n) \in 1..MaxInput /\ Size(n) \in Nat \ {0}
  BY CandidateAssumption DEF Inputs, Size

LEMMA MenuFacts ==
    ASSUME NEW n \in Inputs, NEW r
    PROVE  /\ Menu(n, r) \in Seq(Nat) /\ Len(Menu(n, r)) = Size(n)
           /\ \A p \in 1..Size(n) : Menu(n, r)[p] \in Nat \ {0}
  <1> DEFINE N == Size(n)
  <1>1. N \in Nat
    BY InputFacts
  <1>2. \A p \in 1..N : (IF r % 2 = 0 THEN N + 1 - p ELSE p) \in Nat \ {0}
    BY <1>1
  <1> QED BY <1>1, <1>2, IsASeq DEF Menu

\* A sequence is each prefix of it and the rest.
LEMMA PrefixAndRest ==
    ASSUME NEW S, NEW m \in Seq(S), NEW n \in Seq(S), IsPrefix(m, n)
    PROVE  m \o SubSeq(n, Len(m) + 1, Len(n)) = n
  <1> DEFINE k == Len(m) + 1
             t == SubSeq(n, k, Len(n))
  <1>1. Len(m) \in Nat /\ Len(n) \in Nat /\ Len(m) <= Len(n)
    BY DEF IsPrefix
  <1>2. ASSUME NEW i \in 1..Len(m)
        PROVE  m[i] = n[i]
    <2>1. \A j \in 1..Len(m) : m[j] \in S /\ n[j] \in S
      BY <1>1
    <2>2. SubSeq(m, 1, Len(m))[i] = m[1 + i - 1]
      BY <1>1, <2>1, SubSeqProperties
    <2>3. SubSeq(n, 1, Len(m))[i] = n[1 + i - 1]
      BY <1>1, <2>1, SubSeqProperties
    <2>4. 1 + i - 1 = i
      BY <1>1
    <2> QED BY <2>2, <2>3, <2>4 DEF IsPrefix
  <1>3. k \in Int /\ Len(n) \in Int /\ k = Len(m) + 1
    BY <1>1
  <1> HIDE DEF k
  <1>4. \A i \in k..Len(n) : n[i] \in S
    BY <1>1, <1>3
  <1>5. /\ t \in Seq(S)
        /\ Len(t) = IF k <= Len(n) THEN Len(n) - k + 1 ELSE 0
        /\ \A i \in 1..Len(n) - k + 1 : t[i] = n[k + i - 1]
    BY <1>3, <1>4, SubSeqProperties
  <1> HIDE DEF t
  <1>6. Len(t) = Len(n) - Len(m)
    BY <1>1, <1>3, <1>5
  <1>7. /\ m \o t \in Seq(S) /\ Len(m \o t) = Len(m) + Len(t)
        /\ \A i \in 1..Len(m) + Len(t) : (m \o t)[i] = IF i <= Len(m) THEN m[i] ELSE t[i - Len(m)]
    BY <1>5, ConcatProperties
  <1>8. Len(m \o t) = Len(n)
    BY <1>1, <1>6, <1>7
  <1>9. ASSUME NEW i \in 1..Len(m \o t)
        PROVE  (m \o t)[i] = n[i]
    <2>1. CASE i <= Len(m)
      BY <1>1, <1>2, <1>7, <1>8, <2>1
    <2>2. CASE ~ (i <= Len(m))
      <3>1. i - Len(m) \in 1..Len(n) - k + 1 /\ k + (i - Len(m)) - 1 = i
        BY <1>1, <1>3, <1>8, <2>2
      <3>2. (m \o t)[i] = t[i - Len(m)]
        BY <1>1, <1>7, <1>8, <2>2
      <3> QED BY <1>5, <3>1, <3>2
    <2> QED BY <2>1, <2>2
  <1>10. m \o t = n
    BY <1>7, <1>8, <1>9, SeqEqual
  <1> QED BY <1>10 DEF t, k

LEMMA SyncGives ==
    ASSUME NEW s, InStep(s), NEW n \in Seq(Letters), NEW reset \in BOOLEAN
    PROVE  SyncSessionInput(s, n, reset) = Fresh(n)
  <1>1. CASE n = <<>>
    BY <1>1 DEF SyncSessionInput, Cleared, Fresh
  <1>2. CASE n # <<>> /\ ~reset /\ s.page = 0 /\ IsPrefix(s.input, n)
    <2>1. s.input \in Seq(Letters) /\ s.typed = s.input /\ s.at = 0
      BY <1>2 DEF InStep, Sessions
    <2>2. s.typed \o SubSeq(n, Len(s.input) + 1, Len(n)) = n
      BY <1>2, <2>1, PrefixAndRest
    <2> QED BY <1>2, <2>1, <2>2 DEF SyncSessionInput, Fresh
  <1>3. CASE n # <<>> /\ ~(~reset /\ s.page = 0 /\ IsPrefix(s.input, n))
    BY <1>3 DEF SyncSessionInput, Fresh
  <1> QED BY <1>1, <1>2, <1>3

LEMMA FreshInStep ==
    ASSUME NEW n \in Seq(Letters)
    PROVE  InStep(Fresh(n)) /\ Fresh(n).typed = n /\ Fresh(n).at = 0
  BY DEF InStep, Fresh, Sessions

LEMMA ClearedInStep == InStep(Cleared)
  BY DEF InStep, Cleared, Sessions

LEMMA PageDownInStep ==
    ASSUME NEW s, InStep(s)
    PROVE  InStep(PageDown(s)) /\ PageDown(s).typed = s.typed /\ PageDown(s).at = s.at + 1
  <1>1. /\ s.typed \in Seq(Letters) /\ s.input = s.typed /\ s.at \in Nat /\ s.page = s.at
        /\ s = [typed |-> s.typed, at |-> s.at, input |-> s.input, page |-> s.page]
    BY DEF InStep, Sessions
  <1> DEFINE t == s.typed
             p == s.at
  <1> HIDE DEF t, p
  <1>2. s = [typed |-> t, at |-> p, input |-> t, page |-> p] /\ t \in Seq(Letters) /\ p \in Nat
    BY <1>1 DEF t, p
  <1>3. s.at = p /\ s.page = p
    BY <1>1 DEF p
  <1>4. PageDown(s) = [[s EXCEPT !.at = p + 1] EXCEPT !.page = p + 1]
    BY <1>2 DEF PageDown
  <1>5. [s EXCEPT !.at = p + 1] = [typed |-> t, at |-> p + 1, input |-> t, page |-> p]
    BY <1>2
  <1>6. PageDown(s) = [typed |-> t, at |-> p + 1, input |-> t, page |-> p + 1]
    BY <1>4, <1>5
  <1>7. s.typed = t /\ p + 1 \in Nat
    BY <1>2 DEF t
  <1> QED BY <1>2, <1>3, <1>6, <1>7 DEF InStep, Sessions

LEMMA NextMultiple ==
    ASSUME NEW i \in Nat, NEW P \in Nat
    PROVE  i * P \in Nat /\ (i + 1) * P = i * P + P
  OBVIOUS

-----------------------------------------------------------------------------
(* The walk over Rime's pages.                                             *)

Walks == [s : Sessions, skipped : Nat, items : Seq(Nat), next : BOOLEAN, done : BOOLEAN]
End2(a, b) == IF a <= b THEN a ELSE b

\* What holds of the walk for the candidates skip + 1, ..., skip + size when
\* it has seen a candidates, on the pages before page i.
Walked(w, n, r, skip, size, i, a) ==
  /\ w \in Walks /\ InStep(w.s) /\ w.s.typed = n
  /\ w.next => skip + size < Size(n)
  /\ w.done => /\ End2(skip + size, Size(n)) <= a
               /\ Part(w.items, Menu(n, r), skip, End2(skip + size, Size(n)))
  /\ ~w.done => /\ w.s.at = i /\ a < Size(n) /\ a < skip + size
                /\ w.skipped = End2(skip, a)
                /\ Part(w.items, Menu(n, r), skip, a)
                /\ ~w.next

\* The numbers of one turn: skip, size and a as in Walked; e candidates are on
\* this page and those before it, h on this one; len are collected, skipped
\* passed over; the turn takes those of this page after start, up to upto.
TurnBegins(skip, size, a, e, h, len, skipped, start, want, upto, to) ==
  /\ e \in Nat /\ a < e /\ a < skip + size /\ h = e - a
  /\ len = IF skip < a THEN a - skip ELSE 0
  /\ skipped = End2(skip, a) /\ start = End2(skip - skipped, h) /\ want = size - len
  /\ upto = End2(start + want, h) /\ to = End2(skip + size, e)

TurnEnds(skip, size, a, e, len, skipped, start, want, upto, to) ==
  /\ start \in Nat /\ want \in Nat /\ upto \in Nat /\ to \in Nat
  /\ start <= upto /\ a + upto <= e
  /\ skip <= a => a + start = a /\ a + upto = to /\ a <= to
  /\ ~ (skip <= a) => len = 0 /\ a + start = End2(skip, e)
  /\ ~ (skip <= a) /\ skip <= e => a + start = skip /\ a + upto = to
  /\ ~ (skip <= e) => a + start = e /\ a + upto = e /\ to = e
  /\ skipped + start = IF skip <= a THEN skip ELSE End2(skip, e)
  /\ a + upto < e /\ skip + size <= e => skip + size < e

LEMMA TurnNumbers ==
    ASSUME NEW skip \in Nat, NEW size \in Nat \ {0}, NEW a \in Nat, NEW e, NEW h, NEW len,
           NEW skipped, NEW start, NEW want, NEW upto, NEW to,
           TurnBegins(skip, size, a, e, h, len, skipped, start, want, upto, to)
    PROVE  TurnEnds(skip, size, a, e, len, skipped, start, want, upto, to)
  <1> USE DEF TurnBegins, TurnEnds
  <1>1. CASE skip <= a
    <2>1. skipped = skip /\ len = a - skip /\ start = 0 /\ want = size - (a - skip)
      BY <1>1 DEF End2
    <2>2. upto = IF skip + size <= e THEN skip + size - a ELSE e - a
      BY <1>1, <2>1 DEF End2
    <2> QED BY <1>1, <2>1, <2>2 DEF End2
  <1>2. CASE ~ (skip <= a) /\ skip <= e
    <2>1. skipped = a /\ len = 0 /\ start = skip - a /\ want = size
      BY <1>2 DEF End2
    <2>2. upto = IF skip + size <= e THEN skip + size - a ELSE e - a
      BY <1>2, <2>1 DEF End2
    <2> QED BY <1>2, <2>1, <2>2 DEF End2
  <1>3. CASE ~ (skip <= e)
    <2>1. skipped = a /\ len = 0 /\ start = h /\ want = size
      BY <1>3 DEF End2
    <2>2. upto = h
      BY <1>3, <2>1 DEF End2
    <2> QED BY <1>3, <2>1, <2>2 DEF End2
  <1> QED BY <1>1, <1>2, <1>3

\* One turn sees the candidates of one page more.
LEMMA CollectWalks ==
    ASSUME NEW n \in Inputs, NEW r, NEW skip \in Nat, NEW size \in Nat \ {0}, NEW i \in Nat,
           NEW a \in Nat, a = i * RimePage, NEW w, Walked(w, n, r, skip, size, i, a)
    PROVE  Walked(Collect(w, skip, size, r), n, r, skip, size, i + 1, a + RimePage)
  <1> DEFINE N == Size(n)
             M == Menu(n, r)
             e == End2(a + RimePage, N)
             here == OnPage(w.s, r)
             start == Min({skip - w.skipped, Len(here)})
             more == Slice(here, start, size - Len(w.items))
             items == w.items \o more
             full == Len(items) >= size
             last == IsLastPage(w.s)
             uncollected == start + Len(items) - Len(w.items) < Len(here)
             to == End2(skip + size, e)
             x == [s |-> IF full \/ last THEN w.s ELSE PageDown(w.s),
                   skipped |-> w.skipped + start,
                   items |-> items,
                   next |-> full /\ HasMore(uncollected, last),
                   done |-> full \/ last]
  <1>1. RimePage \in Nat \ {0} /\ N \in Nat \ {0} /\ M \in Seq(Nat) /\ Len(M) = N
    BY CandidateAssumption, InputFacts, MenuFacts
  <1>2. CASE w.done
    <2>1. Collect(w, skip, size, r) = w
      BY <1>2 DEF Collect
    <2>2. End2(skip + size, N) <= a => End2(skip + size, N) <= a + RimePage
      BY <1>1 DEF End2
    <2> QED BY <1>2, <2>1, <2>2 DEF Walked
  <1>3. CASE ~w.done
    <2>1. /\ w \in Walks /\ InStep(w.s) /\ w.s.typed = n /\ w.s.at = i /\ w.s.page = i
          /\ a < N /\ a < skip + size /\ w.skipped = End2(skip, a) /\ ~w.next
          /\ Part(w.items, M, skip, a)
      BY <1>3 DEF Walked, InStep
    <2>2. (w.s.at + 1) * RimePage = a + RimePage
      BY <1>1, <2>1, NextMultiple
    <2>3. last <=> N <= a + RimePage
      BY <2>1, <2>2 DEF IsLastPage
    <2>4. e \in Nat /\ a < e /\ e <= N /\ (last => e = N) /\ (~last => e = a + RimePage /\ e < N)
      BY <1>1, <2>1, <2>3 DEF End2
    <2>5. Part(here, M, a, e)
      <3>1. here = Slice(M, a, RimePage)
        BY <2>1 DEF OnPage
      <3> QED BY <1>1, <3>1, SliceOf DEF End2
    <2>6. here \in Seq(Nat) /\ Len(here) = e - a /\ here # <<>>
      BY <2>4, <2>5 DEF Part
    <2>7. Collect(w, skip, size, r) = x
      BY <1>3, <2>6 DEF Collect
    <2>8. start = End2(skip - w.skipped, e - a)
      <3>1. skip - w.skipped \in Int /\ e - a \in Int
        BY <2>1, <2>4 DEF Walks
      <3> QED BY <2>6, <3>1, MinTwo DEF End2
    <2>9. /\ w.items \in Seq(Nat) /\ Len(w.items) \in Nat
          /\ Len(w.items) = IF skip < a THEN a - skip ELSE 0
      BY <2>1 DEF Part
    <2> DEFINE want == size - Len(w.items)
               upto == End2(start + want, Len(here))
    <2>10. /\ start \in Nat /\ want \in Nat /\ upto \in Nat /\ to \in Nat
           /\ start <= upto /\ a + upto <= e
           /\ skip <= a => a + start = a /\ a + upto = to /\ a <= to
           /\ ~ (skip <= a) => Len(w.items) = 0 /\ a + start = End2(skip, e)
           /\ ~ (skip <= a) /\ skip <= e => a + start = skip /\ a + upto = to
           /\ ~ (skip <= e) => a + start = e /\ a + upto = e /\ to = e
           /\ w.skipped + start = IF skip <= a THEN skip ELSE End2(skip, e)
           /\ a + upto < e /\ skip + size <= e => skip + size < e
      <3> DEFINE h == Len(here)
                 len == Len(w.items)
                 skipped == w.skipped
      <3>1. h = e - a /\ len = (IF skip < a THEN a - skip ELSE 0) /\ skipped = End2(skip, a)
        BY <2>1, <2>6, <2>9
      <3>2. start = End2(skip - skipped, h)
        BY <2>6, <2>8
      <3>3. want = size - len /\ upto = End2(start + want, h) /\ to = End2(skip + size, e)
        OBVIOUS
      <3>4. e \in Nat /\ a < e /\ a < skip + size
        BY <2>1, <2>4
      <3> HIDE DEF start, here, e, h, len, skipped, want, upto, to
      <3>5. TurnBegins(skip, size, a, e, h, len, skipped, start, want, upto, to)
        BY <3>1, <3>2, <3>3, <3>4 DEF TurnBegins
      <3>6. TurnEnds(skip, size, a, e, len, skipped, start, want, upto, to)
        BY <3>5, TurnNumbers, Zenon
      <3> QED BY <3>6, Zenon DEF TurnEnds, len, skipped
    <2>11. skip + size \in Nat
      OBVIOUS
    <2> HIDE DEF here, start, last, e, want, upto, to
    <2>12. Part(more, here, start, upto)
      BY <2>6, <2>10, SliceOf DEF upto, want, End2
    <2>14. Part(more, M, a + start, a + upto)
      BY <2>4, <2>5, <2>10, <2>12, PartOfPart
    <2> HIDE DEF more
    <2>15. more \in Seq(Nat) /\ Len(more) = upto - start
      <3>1. more \in Seq(Nat) /\ Len(more) = IF start < upto THEN upto - start ELSE 0
        BY <2>12 DEF Part
      <3> QED BY <2>10, <3>1
    <2>16. Part(items, M, skip, to)
      <3>1. CASE skip <= a
        BY <2>1, <2>10, <2>14, <3>1, PartsMeet
      <3>2. CASE ~ (skip <= a) /\ skip <= e
        <4>1. w.items = <<>>
          BY <2>9, <2>10, <3>2
        <4>2. items = more
          BY <2>15, <4>1
        <4> QED BY <2>10, <2>14, <3>2, <4>2
      <3>3. CASE ~ (skip <= a) /\ ~ (skip <= e)
        <4>1. w.items = <<>>
          BY <2>9, <2>10, <3>3
        <4>2. more = <<>>
          BY <2>10, <2>15, <3>3
        <4>3. items = <<>>
          BY <4>1, <4>2
        <4>4. to <= skip
          BY <2>4, <2>10, <3>3
        <4> QED BY <2>10, <4>3, <4>4, PartIsEmpty
      <3> QED BY <3>1, <3>2, <3>3
    <2>17. items \in Seq(Nat) /\ Len(items) = IF skip < to THEN to - skip ELSE 0
      BY <2>16 DEF Part
    <2>18. full <=> skip + size <= e
      BY <2>4, <2>10, <2>17 DEF End2, to
    <2>19. Len(items) = Len(w.items) + Len(more)
      BY <2>9, <2>15, ConcatProperties
    <2> HIDE DEF items
    <2>20. uncollected <=> a + upto < e
      <3> DEFINE new == Len(items)
                 old == Len(w.items)
                 h == Len(here)
      <3>1. new \in Nat /\ old \in Nat /\ h = e - a /\ new = old + (upto - start)
        BY <2>6, <2>9, <2>15, <2>17, <2>19
      <3>2. start \in Nat /\ upto \in Nat /\ e \in Nat
        BY <2>4, <2>10
      <3>3. uncollected <=> start + new - old < h
        OBVIOUS
      <3> HIDE DEF new, old, h, uncollected
      <3> QED BY <3>1, <3>2, <3>3
    <2> HIDE DEF uncollected, full
    <2>21. full /\ (uncollected \/ ~last) => skip + size < N
      <3>1. a + upto < e /\ skip + size <= e => skip + size < e
        BY <2>10
      <3>2. e \in Nat /\ N \in Nat /\ e <= N /\ (~last => e < N)
        BY <1>1, <2>4
      <3> QED BY <2>11, <2>18, <2>20, <3>1, <3>2
    <2>22. InStep(PageDown(w.s)) /\ PageDown(w.s).typed = n /\ PageDown(w.s).at = i + 1
      BY <2>1, PageDownInStep
    <2>23. x \in Walks /\ InStep(x.s) /\ x.s.typed = n
      <3>1. w.skipped + start \in Nat
        BY <2>1, <2>4, <2>10 DEF End2
      <3>2. /\ full \in BOOLEAN /\ last \in BOOLEAN
        BY DEF full, last, IsLastPage
      <3>4. /\ x.s \in Sessions /\ InStep(x.s) /\ x.s.typed = n
        BY <2>1, <2>22 DEF InStep
      <3>3. (full /\ HasMore(uncollected, last)) \in BOOLEAN /\ (full \/ last) \in BOOLEAN
        BY <3>2 DEF HasMore
      <3> QED BY <2>17, <3>1, <3>3, <3>4 DEF Walks
    <2>24. x.next => skip + size < N
      BY <2>21 DEF HasMore
    <2>25. x.done => /\ End2(skip + size, N) <= a + RimePage
                     /\ Part(x.items, M, skip, End2(skip + size, N))
      <3>1. CASE full \/ last
        <4>1. End2(skip + size, N) = to /\ to <= a + RimePage
          BY <1>1, <2>4, <2>11, <2>18, <3>1 DEF End2, e, to
        <4> QED BY <2>16, <4>1
      <3> QED BY <3>1
    <2>26. ~x.done => /\ x.s.at = i + 1 /\ a + RimePage < N /\ a + RimePage < skip + size
                      /\ x.skipped = End2(skip, a + RimePage)
                      /\ Part(x.items, M, skip, a + RimePage)
                      /\ ~x.next
      <3>1. CASE ~full /\ ~last
        <4>1. to = a + RimePage /\ e = a + RimePage /\ e < skip + size
          BY <1>1, <2>4, <2>11, <2>18, <3>1 DEF End2, to
        <4>2. w.skipped + start = End2(skip, a + RimePage)
          BY <1>1, <2>10, <4>1 DEF End2
        <4> QED BY <2>4, <2>16, <2>22, <3>1, <4>1, <4>2
      <3> QED BY <3>1
    <2> HIDE DEF x
    <2> QED BY <2>7, <2>23, <2>24, <2>25, <2>26 DEF Walked
  <1> QED BY <1>2, <1>3

\* Every set of numbers has a least one.
LEMMA LeastNumber ==
    ASSUME NEW T \in SUBSET Nat, T # {}
    PROVE  \E n \in T : \A m \in T : n <= m
  <1>1. PICK n \in T : \A m \in T : ~ (<<m, n>> \in OpToRel(<, Nat))
    BY NatLessThanWellFounded, WFMin, Zenon
  <1>2. \A m \in T : <<m, n>> \in Nat \X Nat /\ (m < n => <<m, n>> \in OpToRel(<, Nat))
    BY Zenon DEF OpToRel
  <1>3. \A m \in T : ~(m < n)
    BY <1>1, <1>2, Zenon
  <1> QED BY <1>3

\* A set with 0 and the successors of its numbers has all numbers.
LEMMA AllNumbers ==
    ASSUME NEW T, 0 \in T, \A n \in Nat : n \in T => n + 1 \in T
    PROVE  \A n \in Nat : n \in T
  <1> DEFINE U == {n \in Nat : n \notin T}
  <1>1. CASE U = {}
    BY <1>1
  <1>2. CASE U # {}
    <2>1. PICK n \in U : \A m \in U : n <= m
      BY <1>2, LeastNumber
    <2>2. n \in Nat /\ n \notin T /\ n # 0
      BY <2>1
    <2>3. n - 1 \in Nat /\ (n - 1) + 1 = n /\ ~ (n <= n - 1)
      BY <2>2
    <2>4. n - 1 \in T
      BY <2>1, <2>3
    <2> QED BY <2>2, <2>3, <2>4
  <1> QED BY <1>1, <1>2

\* The turns of the walk.
Turns(f, j, start, skip, size, r) ==
  f = [i \in 0..j |-> IF i = 0 THEN start ELSE Collect(f[i - 1], skip, size, r)]

LEMMA TurnsExist ==
    ASSUME NEW start, NEW skip, NEW size, NEW r
    PROVE  \A j \in Nat : \E f : Turns(f, j, start, skip, size, r)
  <1> DEFINE T == {j \in Nat : \E f : Turns(f, j, start, skip, size, r)}
  <1>1. 0 \in T
    <2> DEFINE f == [i \in 0..0 |-> start]
    <2>1. Turns(f, 0, start, skip, size, r)
      BY DEF Turns
    <2> QED BY <2>1
  <1>2. ASSUME NEW j \in Nat, j \in T
        PROVE  j + 1 \in T
    <2>1. PICK f : Turns(f, j, start, skip, size, r)
      BY <1>2
    <2> DEFINE g == [i \in 0..j + 1 |-> IF i <= j THEN f[i] ELSE Collect(f[j], skip, size, r)]
    <2>2. ASSUME NEW i \in 0..j + 1
          PROVE  g[i] = IF i = 0 THEN start ELSE Collect(g[i - 1], skip, size, r)
      <3>1. CASE i = 0
        BY <2>1, <3>1 DEF Turns
      <3>2. CASE i # 0 /\ i <= j
        <4>1. i \in 0..j /\ i - 1 \in 0..j + 1 /\ i - 1 <= j
          BY <2>2, <3>2
        <4>2. g[i] = f[i] /\ g[i - 1] = f[i - 1]
          BY <3>2, <4>1
        <4>3. f[i] = Collect(f[i - 1], skip, size, r)
          BY <2>1, <3>2, <4>1 DEF Turns
        <4> QED BY <3>2, <4>2, <4>3
      <3>3. CASE i = j + 1
        <4>1. i - 1 = j /\ i - 1 \in 0..j + 1 /\ i # 0 /\ ~ (i <= j) /\ j <= j
          BY <3>3
        <4>2. g[i] = Collect(f[j], skip, size, r) /\ g[i - 1] = f[j]
          BY <4>1
        <4> QED BY <4>1, <4>2
      <3> QED BY <3>1, <3>2, <3>3
    <2>3. Turns(g, j + 1, start, skip, size, r)
      <3>1. g = [i \in 0..j + 1 |-> g[i]]
        OBVIOUS
      <3> HIDE DEF g
      <3> QED BY <2>2, <3>1 DEF Turns
    <2> HIDE DEF g
    <2> QED BY <1>2, <2>3
  <1>3. \A j \in Nat : j \in T
    <2> HIDE DEF T
    <2> QED BY <1>1, <1>2, AllNumbers
  <1> QED BY <1>3

LEMMA PageIsGiven ==
    ASSUME NEW s, InStep(s), NEW n \in Inputs, NEW k \in Nat, NEW size \in Nat \ {0}, NEW r
    PROVE  /\ InStep(GetCandidatePage(s, n, k, size, r).s)
           /\ GetCandidatePage(s, n, k, size, r).s.typed = n
           /\ GetCandidatePage(s, n, k, size, r).items = Slice(Reachable(n, r), k * size, size)
           /\ GetCandidatePage(s, n, k, size, r).next \in BOOLEAN
           /\ GetCandidatePage(s, n, k, size, r).next => (k + 1) * size < Size(n)
  <1> DEFINE skip == k * size
             start == [s |-> SyncSessionInput(s, n, NeedsReset(s, n, k)),
                       skipped |-> 0, items |-> <<>>, next |-> FALSE, done |-> FALSE]
             walk[i \in 0..MaxWalk] ==
               IF i = 0 THEN start ELSE Collect(walk[i - 1], skip, size, r)
  <1>1. GetCandidatePage(s, n, k, size, r) = walk[MaxWalk]
    BY DEF GetCandidatePage
  <1>2. MaxWalk \in Nat \ {0} /\ RimePage \in Nat \ {0} /\ Size(n) \in Nat \ {0}
    BY CandidateAssumption, InputFacts
  <1> HIDE DEF start
  <1>3. walk = [i \in 0..MaxWalk |-> IF i = 0 THEN start ELSE Collect(walk[i - 1], skip, size, r)]
    <2>1. \E f : Turns(f, MaxWalk, start, skip, size, r)
      BY <1>2, TurnsExist
    <2> QED BY <2>1 DEF Turns
  <1> HIDE DEF walk
  <1>4. skip \in Nat /\ (k + 1) * size = skip + size
    BY NextMultiple
  <1>5. start \in Walks /\ start.s = Fresh(n) /\ ~start.done /\ ~start.next /\ start.items = <<>>
        /\ start.skipped = 0
    <2>1. SyncSessionInput(s, n, NeedsReset(s, n, k)) = Fresh(n)
      BY SyncGives, InputFacts DEF NeedsReset
    <2>2. Fresh(n) \in Sessions
      BY FreshInStep, InputFacts DEF InStep
    <2> QED BY <2>1, <2>2 DEF start, Walks
  <1>6. Walked(walk[0], n, r, skip, size, 0, 0)
    <2>1. walk[0] = start
      BY <1>2, <1>3
    <2>2. InStep(Fresh(n)) /\ Fresh(n).typed = n /\ Fresh(n).at = 0
      BY FreshInStep, InputFacts
    <2>3. Part(<<>>, Menu(n, r), skip, 0)
      BY <1>4, PartIsEmpty
    <2>4. 0 = End2(skip, 0)
      BY <1>4 DEF End2
    <2>5. 0 < Size(n) /\ 0 < skip + size
      BY <1>2, <1>4
    <2> HIDE DEF skip
    <2> QED BY <1>5, <2>1, <2>2, <2>3, <2>4, <2>5 DEF Walked
  <1> DEFINE T == {j \in Nat : j <= MaxWalk => Walked(walk[j], n, r, skip, size, j, j * RimePage)}
  <1>7. 0 \in T
    BY <1>2, <1>6
  <1>8. ASSUME NEW j \in Nat, j \in T
        PROVE  j + 1 \in T
    <2>1. CASE j + 1 <= MaxWalk
      <3>1. Walked(walk[j], n, r, skip, size, j, j * RimePage)
        BY <1>2, <1>8, <2>1
      <3>2. walk[j + 1] = Collect(walk[j], skip, size, r)
        BY <1>2, <1>3, <2>1
      <3>3. j * RimePage \in Nat /\ (j + 1) * RimePage = j * RimePage + RimePage
        BY <1>2, NextMultiple
      <3> HIDE DEF skip
      <3>4. Walked(walk[j + 1], n, r, skip, size, j + 1, j * RimePage + RimePage)
        BY <1>4, <3>1, <3>2, <3>3, CollectWalks
      <3> QED BY <3>3, <3>4
    <2> QED BY <2>1
  <1>9. Walked(walk[MaxWalk], n, r, skip, size, MaxWalk, MaxWalk * RimePage)
    <2>1. \A j \in Nat : j \in T
      <3> HIDE DEF T
      <3> QED BY <1>7, <1>8, AllNumbers
    <2> QED BY <1>2, <2>1
  <1> DEFINE b == MaxWalk * RimePage
             w == walk[MaxWalk]
  <1>10. b \in Nat
    BY <1>2
  <1> HIDE DEF skip, b
  <1>11. Walked(w, n, r, skip, size, MaxWalk, b)
    BY <1>9 DEF b
  <1>12. w.items = Slice(Reachable(n, r), skip, size)
    <2> DEFINE M == Menu(n, r)
               N == Size(n)
               L == End2(b, N)
               to == End2(skip + size, L)
    <2>1. M \in Seq(Nat) /\ Len(M) = N /\ N \in Nat
      BY MenuFacts, <1>2
    <2>2. Part(Reachable(n, r), M, 0, L)
      <3>1. Reachable(n, r) = Slice(M, 0, b)
        BY DEF Reachable, b
      <3>2. 0 + b = b
        BY <1>10
      <3> HIDE DEF M, N
      <3> QED BY <1>10, <2>1, <3>1, <3>2, SliceOf DEF End2
    <2>3. Reachable(n, r) \in Seq(Nat) /\ Len(Reachable(n, r)) = L /\ L \in Nat
      BY <1>10, <2>1, <2>2 DEF Part, End2
    <2>4. Part(w.items, M, skip, to)
      <3>1. CASE w.done
        <4>1. End2(skip + size, N) <= b /\ Part(w.items, M, skip, End2(skip + size, N))
          BY <1>11, <3>1 DEF Walked
        <4>2. End2(skip + size, N) = to
          BY <1>4, <1>10, <2>1, <4>1 DEF End2
        <4> QED BY <4>1, <4>2
      <3>2. CASE ~w.done
        <4>1. b < N /\ b < skip + size /\ Part(w.items, M, skip, b)
          BY <1>11, <3>2 DEF Walked
        <4>2. b = to
          BY <1>4, <1>10, <2>1, <4>1 DEF End2
        <4> QED BY <4>1, <4>2
      <3> QED BY <3>1, <3>2
    <2> HIDE DEF M, N, L
    <2>5. Part(Slice(Reachable(n, r), skip, size), Reachable(n, r), skip, to)
      BY <1>4, <2>3, SliceOf DEF End2
    <2>6. to \in Nat
      BY <1>4, <2>3 DEF End2
    <2>7. Part(Slice(Reachable(n, r), skip, size), M, skip, to)
      <3>1. CASE skip <= to
        <4>1. 0 + to <= L /\ 0 + skip = skip /\ 0 + to = to
          BY <1>4, <2>3, <2>6 DEF End2
        <4>2. Part(Slice(Reachable(n, r), skip, size), M, 0 + skip, 0 + to)
          BY <1>4, <2>2, <2>3, <2>5, <2>6, <3>1, <4>1, PartOfPart
        <4> QED BY <4>1, <4>2
      <3>2. CASE ~ (skip <= to)
        <4>1. to <= skip
          BY <1>4, <2>6, <3>2
        <4>2. Slice(Reachable(n, r), skip, size) = <<>>
          BY <1>4, <2>5, <2>6, <4>1, PartIsEmpty
        <4> QED BY <1>4, <2>6, <4>1, <4>2, PartIsEmpty
      <3> QED BY <3>1, <3>2
    <2> HIDE DEF to
    <2> QED BY <1>4, <2>4, <2>6, <2>7, PartsAreEqual
  <1>13. /\ InStep(w.s) /\ w.s.typed = n /\ w.next \in BOOLEAN
         /\ w.next => (k + 1) * size < Size(n)
    BY <1>4, <1>11 DEF Walked, Walks
  <1> QED BY <1>1, <1>12, <1>13 DEF skip

LEMMA ReachableFacts ==
    ASSUME NEW n \in Inputs, NEW r
    PROVE  /\ Reachable(n, r) \in Seq(Nat)
           /\ Len(Reachable(n, r)) = End2(MaxWalk * RimePage, Size(n))
           /\ Len(Reachable(n, r)) \in Nat
           /\ \A p \in 1..Len(Reachable(n, r)) : Reachable(n, r)[p] = Menu(n, r)[p]
  <1> DEFINE M == Menu(n, r)
             b == MaxWalk * RimePage
  <1>1. b \in Nat
    BY CandidateAssumption
  <1>2. M \in Seq(Nat) /\ Len(M) = Size(n) /\ Size(n) \in Nat
    BY MenuFacts, InputFacts
  <1>3. Reachable(n, r) = Slice(M, 0, b)
    BY DEF Reachable
  <1> HIDE DEF M, b
  <1>4. Part(Slice(M, 0, b), M, 0, End2(b, Len(M)))
    <2>1. Part(Slice(M, 0, b), M, 0, IF 0 + b <= Len(M) THEN 0 + b ELSE Len(M))
      BY <1>1, <1>2, SliceOf
    <2>2. (IF 0 + b <= Len(M) THEN 0 + b ELSE Len(M)) = End2(b, Len(M))
      BY <1>1 DEF End2
    <2> QED BY <2>1, <2>2
  <1>5. End2(b, Len(M)) \in Nat
    BY <1>1, <1>2 DEF End2
  <1>6. /\ Slice(M, 0, b) \in Seq(Nat) /\ Len(Slice(M, 0, b)) = End2(b, Len(M))
        /\ \A p \in 1..Len(Slice(M, 0, b)) : Slice(M, 0, b)[p] = M[0 + p]
    BY <1>4, <1>5 DEF Part
  <1>7. \A p \in 1..Len(Slice(M, 0, b)) : 0 + p = p
    BY <1>5, <1>6
  <1> QED BY <1>2, <1>3, <1>5, <1>6, <1>7 DEF M, b

\* What a page has: positions of the menu, one after the other.
LEMMA SliceFacts ==
    ASSUME NEW n \in Inputs, NEW r, NEW a \in Nat, NEW size \in Nat
    PROVE  /\ Slice(Reachable(n, r), a, size) \in Seq(Nat)
           /\ Part(Slice(Reachable(n, r), a, size), Reachable(n, r), a,
                   End2(a + size, Len(Reachable(n, r))))
  <1>1. Part(Slice(Reachable(n, r), a, size), Reachable(n, r), a,
             End2(a + size, Len(Reachable(n, r))))
    BY ReachableFacts, SliceOf DEF End2
  <1> QED BY <1>1 DEF Part

\* The first part of the first page is the first page of that size.
LEMMA PageIsCut ==
    ASSUME NEW n \in Inputs, NEW r, NEW size \in Nat, NEW v \in Nat,
           v < Len(Slice(Reachable(n, r), 0, size))
    PROVE  /\ SubSeq(Slice(Reachable(n, r), 0, size), 1, v) = Slice(Reachable(n, r), 0, v)
           /\ v < Size(n)
  <1> DEFINE R == Reachable(n, r)
             t == Slice(R, 0, size)
             e == End2(0 + size, Len(R))
  <1>1. R \in Seq(Nat) /\ Len(R) \in Nat /\ Len(R) <= Size(n) /\ Size(n) \in Nat
    BY ReachableFacts, InputFacts, CandidateAssumption DEF End2
  <1>2. Part(t, R, 0, e) /\ t \in Seq(Nat)
    BY SliceFacts
  <1> HIDE DEF R
  <1>3. e \in Nat /\ e <= Len(R)
    BY <1>1 DEF End2
  <1> HIDE DEF t, e
  <1>4. Len(t) = e
    BY <1>2, <1>3 DEF Part
  <1>5. v < e
    BY <1>4 DEF t, R
  <1>6. Part(SubSeq(t, 0 + 1, v), t, 0, v)
    BY <1>2, <1>3, <1>4, <1>5, PartOf
  <1>7. Part(SubSeq(t, 0 + 1, v), R, 0 + 0, 0 + v)
    <2>1. 0 + v <= e /\ 0 <= v
      BY <1>3, <1>5
    <2> DEFINE u == SubSeq(t, 0 + 1, v)
    <2>2. Part(u, t, 0, v)
      BY <1>6
    <2> HIDE DEF u
    <2>3. Part(u, R, 0 + 0, 0 + v)
      BY <1>2, <1>3, <2>1, <2>2, PartOfPart
    <2> QED BY <2>3 DEF u
  <1>8. Part(Slice(R, 0, v), R, 0, IF 0 + v <= Len(R) THEN 0 + v ELSE Len(R))
    BY <1>1, SliceOf
  <1>9. (IF 0 + v <= Len(R) THEN 0 + v ELSE Len(R)) = v /\ 0 + 0 = 0 /\ 0 + v = v /\ 0 + 1 = 1
    BY <1>1, <1>3, <1>5
  <1>10. Part(SubSeq(t, 1, v), R, 0, v) /\ Part(Slice(R, 0, v), R, 0, v)
    BY <1>7, <1>8, <1>9
  <1>11. SubSeq(t, 1, v) = Slice(R, 0, v)
    BY <1>10, PartsAreEqual
  <1> QED BY <1>1, <1>3, <1>5, <1>11 DEF R, t

-----------------------------------------------------------------------------
(* The state of the text service.                                          *)

Shown == [of : Seq(Letters), by : Nat, items : Seq(Nat)]
Queries == [of : Seq(Letters), page : Int, size : Nat]
Members ==
  [input : Seq(Letters), page : Nat, selected : Nat, expanded : BOOLEAN, settings : Settings,
   shown : Shown, hasPrevious : BOOLEAN, hasNext : BOOLEAN, last : Queries,
   window : Monitors \cup {NoMonitor}, ready : BOOLEAN, session : Sessions]

Typed(w) == w \in Members /\ Len(w.input) <= MaxInput /\ InStep(w.session)

\* What is in view is page k of pages of that size of input n; the next page
\* that is promised is not beyond the end.
InView(w, n, k, size) ==
  /\ Length(w) > 0 => /\ w.shown.of = n
                      /\ w.shown.items = Slice(Reachable(n, w.shown.by), k * size, size)
  /\ w.hasNext => (k + 1) * size < Size(n)

\* The record of the last query says what is in view, whether it is the
\* record of the present page or not.
Honest(w) ==
  w.last # NoQuery =>
    /\ w.last.of \in Inputs /\ w.last.page \in Nat /\ w.last.size \in Nat \ {0}
    /\ InView(w, w.last.of, w.last.page, w.last.size)

Good(w) == Typed(w) /\ Honest(w)

\* Candidates are only there with a window for them, and nothing of a
\* composition is left when there is none.
Framed(w) == Length(w) > 0 => w.window # NoMonitor
Rested(w) == ~IsComposing(w) => /\ w.page = 0 /\ w.last = NoQuery /\ ~w.expanded
                                /\ Length(w) = 0 /\ ~w.hasNext

\* What the window and its requests leave alone.
Carried(x, w) ==
  /\ x.input = w.input /\ x.page = w.page /\ x.expanded = w.expanded
  /\ x.ready = w.ready

LEMMA SetFacts ==
    /\ NoCandidates \in Shown /\ NoQuery \in Queries /\ Cleared \in Sessions
    /\ NoCandidates.items = <<>> /\ NoQuery.size = 0 /\ NoQuery.of = <<>>
  BY DEF NoCandidates, Shown, NoQuery, Queries, Cleared, Sessions

LEMMA MemberFacts ==
    ASSUME NEW w \in Members
    PROVE  /\ w.input \in Seq(Letters) /\ w.page \in Nat /\ w.selected \in Nat
           /\ w.expanded \in BOOLEAN /\ w.settings \in Settings /\ w.shown \in Shown
           /\ w.hasPrevious \in BOOLEAN /\ w.hasNext \in BOOLEAN /\ w.last \in Queries
           /\ w.window \in Monitors \cup {NoMonitor} /\ w.ready \in BOOLEAN
           /\ w.session \in Sessions
  BY DEF Members

LEMMA LengthFacts ==
    ASSUME NEW w \in Members
    PROVE  w.shown.items \in Seq(Nat) /\ Length(w) \in Nat
  BY MemberFacts DEF Shown, Length

LEMMA LimitFacts ==
    ASSUME NEW w \in Members
    PROVE  CandidatePageSizeLimit(w) \in Nat \ {0} /\ w.settings.count \in 1..RowLength
  <1>1. w.settings.count \in 1..RowLength
    BY MemberFacts, CandidateAssumption DEF Settings
  <1>2. RowLength * TailRows \in Nat
    BY CandidateAssumption
  <1>3. (IF w.expanded THEN RowLength * TailRows ELSE 0) \in Nat
    BY <1>2
  <1> QED BY <1>1, <1>3, CandidateAssumption DEF CandidatePageSizeLimit

LEMMA MonitorFacts ==
    ASSUME NEW m \in Monitors
    PROVE  m.first \in 1..RowLength /\ m.tail \in 1..RowLength /\ m # NoMonitor
  BY CandidateAssumption

LEMMA FirstRowFacts ==
    ASSUME NEW w \in Members, Length(w) > 0, w.window # NoMonitor
    PROVE  /\ FirstRow(w) \in Nat \ {0} /\ FirstRow(w) <= Length(w)
           /\ FirstRow(w) <= RowLength
  <1> DEFINE c == IF w.settings.horizontal /\ w.shown.items[1] \in Wide
                    THEN w.window.first ELSE RowLength
  <1>1. c \in 1..RowLength
    BY MemberFacts, MonitorFacts, CandidateAssumption
  <1>2. w.settings.count \in 1..RowLength /\ Length(w) \in Nat \ {0} /\ RowLength \in Nat
    BY LimitFacts, LengthFacts, CandidateAssumption
  <1>3. FirstRow(w) = Min({w.settings.count, Length(w), c})
    BY DEF FirstRow
  <1> HIDE DEF c
  <1>4. /\ FirstRow(w) \in {w.settings.count, Length(w), c}
        /\ FirstRow(w) <= w.settings.count /\ FirstRow(w) <= Length(w)
    <2> DEFINE k == w.settings.count
               l == Length(w)
    <2>1. k \in Int /\ l \in Int /\ c \in Int
      BY <1>1, <1>2
    <2> HIDE DEF k, l
    <2>2. Min({k, l, c}) \in {k, l, c} /\ Min({k, l, c}) <= k /\ Min({k, l, c}) <= l
      BY <2>1, MinThree
    <2> QED BY <1>3, <2>2 DEF k, l
  <1> QED BY <1>1, <1>2, <1>4

LEMMA VisibleFacts ==
    ASSUME NEW w \in Members
    PROVE  VisibleCandidateCount(w) \in Nat /\ VisibleCandidateCount(w) <= Length(w)
  <1> DEFINE v == VisibleCandidateCount(w)
  <1>1. Length(w) \in Nat /\ CandidatePageSizeLimit(w) \in Nat
    BY LengthFacts, LimitFacts
  <1>2. CASE Length(w) = 0
    BY <1>2 DEF VisibleCandidateCount
  <1>3. CASE Length(w) # 0 /\ w.window = NoMonitor
    <2>1. v = Min({Length(w), CandidatePageSizeLimit(w)})
      BY <1>3 DEF VisibleCandidateCount
    <2> QED BY <1>1, <2>1, MinTwo
  <1>4. CASE Length(w) # 0 /\ w.window # NoMonitor
    <2>1. FirstRow(w) \in Nat /\ FirstRow(w) <= Length(w)
      BY <1>1, <1>4, FirstRowFacts
    <2>2. FirstRow(w) + TailRows * w.window.tail \in Nat
      <3>1. w.window.tail \in Nat /\ TailRows \in Nat
        BY <1>4, MemberFacts, MonitorFacts, CandidateAssumption
      <3> QED BY <2>1, <3>1
    <2>3. v = IF ~w.expanded THEN FirstRow(w)
              ELSE Min({Length(w), FirstRow(w) + TailRows * w.window.tail})
      BY <1>4 DEF VisibleCandidateCount
    <2> QED BY <1>1, <2>1, <2>2, <2>3, MinTwo
  <1> QED BY <1>2, <1>3, <1>4

LEMMA HonestKept ==
    ASSUME NEW w, NEW x, Honest(w), x.shown = w.shown, x.hasNext = w.hasNext, x.last = w.last
    PROVE  Honest(x)
  BY DEF Honest, InView, Length

LEMMA ComposingInput ==
    ASSUME NEW w, Typed(w), w.input # <<>>
    PROVE  w.input \in Inputs
  BY MemberFacts, CandidateAssumption DEF Typed, Inputs

-----------------------------------------------------------------------------
(* The requests and the window.                                            *)

LEMMA SelectedGood ==
    ASSUME NEW w, Good(w), NEW i \in Nat
    PROVE  LET x == [w EXCEPT !.selected = i]
           IN /\ Good(x) /\ Carried(x, w) /\ x.selected = i
              /\ x.shown = w.shown /\ x.hasNext = w.hasNext /\ x.last = w.last
              /\ x.window = w.window /\ x.settings = w.settings /\ x.session = w.session
  <1> DEFINE x == [w EXCEPT !.selected = i]
  <1>1. w \in Members
    BY DEF Good, Typed
  <1>2. /\ x \in Members /\ x.selected = i
        /\ x.input = w.input /\ x.page = w.page /\ x.expanded = w.expanded /\ x.ready = w.ready
        /\ x.shown = w.shown /\ x.hasNext = w.hasNext /\ x.last = w.last
        /\ x.window = w.window /\ x.settings = w.settings /\ x.session = w.session
    BY <1>1 DEF Members
  <1> HIDE DEF x
  <1>3. Good(x)
    BY <1>2, HonestKept DEF Good, Typed
  <1> QED BY <1>2, <1>3 DEF Carried, x

LEMMA ClampGood ==
    ASSUME NEW w, Good(w)
    PROVE  LET x == ClampCandidateSelection(w)
           IN /\ Good(x) /\ Carried(x, w)
              /\ x.shown = w.shown /\ x.hasNext = w.hasNext /\ x.last = w.last
              /\ x.window = w.window /\ x.settings = w.settings /\ x.session = w.session
  <1>1. CASE w.selected \in Selectable(w)
    BY <1>1 DEF ClampCandidateSelection, Carried
  <1>2. CASE w.selected \notin Selectable(w)
    <2>1. ClampCandidateSelection(w) = [w EXCEPT !.selected = 0]
      BY <1>2 DEF ClampCandidateSelection
    <2> QED BY <2>1, SelectedGood
  <1> QED BY <1>1, <1>2

LEMMA AskGives ==
    ASSUME ranking \in Nat, NEW w, Typed(w), w.input # <<>>, NEW size \in Nat \ {0},
           NEW x \in Ask(w, size)
    PROVE  /\ Typed(x) /\ Carried(x, w) /\ x.window = w.window
           /\ InView(x, w.input, w.page, size)
  <1> DEFINE n == w.input
             k == w.page
             a == GetCandidatePage(w.session, n, k, size, ranking)
             shown == [of |-> a.s.typed, by |-> ranking, items |-> a.items]
             y == [w EXCEPT !.shown = shown, !.hasPrevious = k > 0, !.hasNext = a.next,
                            !.session = a.s]
             z == [w EXCEPT !.shown = NoCandidates,
                            !.hasPrevious = FALSE, !.hasNext = FALSE, !.session = Cleared]
  <1>1. /\ w \in Members /\ InStep(w.session) /\ n \in Inputs /\ k \in Nat
        /\ Len(n) <= MaxInput /\ n \in Seq(Letters)
    BY ComposingInput, MemberFacts DEF Typed
  <1>2. x = y \/ x = z
    BY DEF Ask
  <1>3. CASE x = y
    <2>1. /\ InStep(a.s) /\ a.s.typed = n /\ a.next \in BOOLEAN
          /\ a.items = Slice(Reachable(n, ranking), k * size, size)
          /\ a.next => (k + 1) * size < Size(n)
      <3> DEFINE s == w.session
      <3>1. InStep(s) /\ n \in Inputs /\ k \in Nat /\ size \in Nat \ {0}
        BY <1>1
      <3> HIDE DEF s, n, k
      <3>2. /\ InStep(GetCandidatePage(s, n, k, size, ranking).s)
            /\ GetCandidatePage(s, n, k, size, ranking).s.typed = n
            /\ GetCandidatePage(s, n, k, size, ranking).items
                 = Slice(Reachable(n, ranking), k * size, size)
            /\ GetCandidatePage(s, n, k, size, ranking).next \in BOOLEAN
            /\ GetCandidatePage(s, n, k, size, ranking).next => (k + 1) * size < Size(n)
        BY <3>1, PageIsGiven
      <3> QED BY <3>2 DEF s
    <2> HIDE DEF a, n, k
    <2>2. k * size \in Nat /\ size \in Nat
      BY <1>1
    <2>3. a.items \in Seq(Nat)
      <3>1. Slice(Reachable(n, ranking), k * size, size) \in Seq(Nat)
        BY <1>1, <2>2, SliceFacts, Zenon
      <3> QED BY <2>1, <3>1
    <2>4. shown \in Shown /\ shown.of = n /\ shown.by = ranking /\ shown.items = a.items
      BY <1>1, <2>1, <2>3 DEF Shown
    <2>5. a.s \in Sessions /\ (k > 0) \in BOOLEAN
      BY <2>1 DEF InStep
    <2> HIDE DEF shown
    <2>6. /\ y \in Members /\ y.input = n /\ y.page = k /\ y.expanded = w.expanded
          /\ y.ready = w.ready /\ y.shown = shown /\ y.session = a.s
          /\ y.hasNext = a.next /\ y.window = w.window
      <3> DEFINE session == a.s
                 p == k > 0
                 q == a.next
      <3>1. p \in BOOLEAN /\ q \in BOOLEAN /\ session \in Sessions
        BY <2>1, <2>5
      <3> HIDE DEF session, p, q
      <3>2. y = [w EXCEPT !.shown = shown, !.hasPrevious = p, !.hasNext = q, !.session = session]
        BY DEF session, p, q
      <3>3. /\ y \in Members /\ y.input = w.input /\ y.page = w.page /\ y.expanded = w.expanded
            /\ y.ready = w.ready /\ y.shown = shown /\ y.session = session
            /\ y.hasNext = q /\ y.window = w.window
        BY <1>1, <2>4, <3>1, <3>2 DEF Members
      <3> QED BY <3>3 DEF session, q, n, k
    <2> HIDE DEF y
    <2>7. Typed(x) /\ Carried(x, w) /\ x.window = w.window
      BY <1>1, <1>3, <2>1, <2>6 DEF Typed, Carried, n, k
    <2>8. InView(x, n, k, size)
      BY <1>3, <2>1, <2>4, <2>6 DEF InView
    <2> QED BY <2>7, <2>8 DEF n, k
  <1>4. CASE x = z
    <2>1. NoCandidates \in Shown /\ Cleared \in Sessions /\ NoCandidates.items = <<>>
      BY SetFacts
    <2>2. /\ z \in Members /\ z.input = n /\ z.page = k /\ z.expanded = w.expanded
          /\ z.ready = w.ready /\ z.shown = NoCandidates /\ z.session = Cleared
          /\ z.hasNext = FALSE /\ z.window = w.window
      <3> DEFINE none == NoCandidates
                 session == Cleared
      <3>1. none \in Shown /\ session \in Sessions
        BY <2>1
      <3> HIDE DEF none, session
      <3>2. z = [w EXCEPT !.shown = none, !.hasPrevious = FALSE, !.hasNext = FALSE,
                          !.session = session]
        BY DEF none, session
      <3> HIDE DEF z
      <3> QED BY <1>1, <3>1, <3>2 DEF Members, none, session
    <2> HIDE DEF z
    <2>3. Typed(x) /\ Carried(x, w) /\ x.window = w.window
      BY <1>1, <1>4, <2>2, ClearedInStep DEF Typed, Carried
    <2>4. Length(x) = 0 /\ ~x.hasNext
      BY <1>4, <2>1, <2>2 DEF Length
    <2> QED BY <2>3, <2>4 DEF InView
  <1> QED BY <1>2, <1>3, <1>4

LEMMA RecordedGood ==
    ASSUME NEW w, Typed(w), w.input # <<>>, NEW size \in Nat \ {0},
           InView(w, w.input, w.page, size)
    PROVE  Good(Recorded(w, size)) /\ Carried(Recorded(w, size), w)
           /\ Recorded(w, size).window = w.window
  <1> DEFINE q == [of |-> w.input, page |-> w.page, size |-> size]
             x == [w EXCEPT !.last = q]
  <1>1. w \in Members /\ w.input \in Inputs /\ w.page \in Nat /\ w.input \in Seq(Letters)
    BY ComposingInput, MemberFacts DEF Typed
  <1>2. q \in Queries /\ q.of = w.input /\ q.page = w.page /\ q.size = size
    BY <1>1 DEF Queries
  <1> HIDE DEF q
  <1>3. /\ x \in Members /\ x.last = q /\ x.input = w.input /\ x.page = w.page
        /\ x.expanded = w.expanded /\ x.ready = w.ready /\ x.shown = w.shown
        /\ x.hasNext = w.hasNext /\ x.window = w.window /\ x.session = w.session
    BY <1>1, <1>2 DEF Members
  <1> HIDE DEF x
  <1>4. Good(x)
    <2>1. Typed(x)
      BY <1>3 DEF Typed
    <2>2. InView(x, q.of, q.page, q.size)
      BY <1>2, <1>3 DEF InView, Length
    <2> QED BY <1>1, <1>2, <1>3, <2>1, <2>2 DEF Good, Honest
  <1>5. Recorded(w, size) = ClampCandidateSelection(x)
    BY DEF Recorded, x, q
  <1> QED BY <1>3, <1>4, <1>5, ClampGood DEF Carried

LEMMA TrimmedGood ==
    ASSUME ranking \in Nat, NEW w, Typed(w), w.input # <<>>, NEW size \in Nat \ {0},
           InView(w, w.input, w.page, size), NEW x \in Trimmed(w, size)
    PROVE  Good(x) /\ Carried(x, w) /\ x.window = w.window
  <1> DEFINE v == VisibleCandidateCount(w)
  <1>1. w \in Members /\ w.input \in Inputs /\ w.page \in Nat
    BY ComposingInput, MemberFacts DEF Typed
  <1>2. v \in Nat /\ v <= Length(w) /\ Length(w) \in Nat /\ w.shown.items \in Seq(Nat)
    BY <1>1, VisibleFacts, LengthFacts
  <1> HIDE DEF v
  <1>3. CASE v = 0 \/ v = Length(w)
    <2>1. x = Recorded(w, size)
      BY <1>3 DEF Trimmed, v
    <2> QED BY <2>1, RecordedGood
  <1>4. CASE ~ (v = 0 \/ v = Length(w)) /\ w.page = 0
    <2> DEFINE items == SubSeq(w.shown.items, 1, v)
               shown == [w.shown EXCEPT !.items = items]
               y == [w EXCEPT !.shown = shown, !.hasNext = TRUE]
    <2>1. x = Recorded([w EXCEPT !.shown.items = SubSeq(@, 1, v), !.hasNext = TRUE], v)
      BY <1>4 DEF Trimmed, v
    <2>2. x = Recorded(y, v)
      BY <2>1
    <2>3. v \in Nat \ {0} /\ v < Length(w)
      BY <1>2, <1>4
    <2>4. /\ w.shown.of = w.input
          /\ w.shown.items = Slice(Reachable(w.input, w.shown.by), 0, size)
      <3>1. w.page * size = 0 /\ Length(w) > 0
        BY <1>2, <1>4, <2>3
      <3> QED BY <3>1 DEF InView
    <2>5. /\ items = Slice(Reachable(w.input, w.shown.by), 0, v)
          /\ v < Size(w.input)
      BY <1>1, <2>3, <2>4, PageIsCut DEF Length
    <2>6. items \in Seq(Nat)
      BY <1>1, <2>3, <2>5, SliceFacts
    <2> HIDE DEF items
    <2>7. shown \in Shown /\ shown.items = items /\ shown.of = w.input /\ shown.by = w.shown.by
      BY <1>1, <2>4, <2>6, MemberFacts DEF Shown
    <2> HIDE DEF shown
    <2>8. /\ y \in Members /\ y.shown = shown /\ y.hasNext = TRUE /\ y.input = w.input
          /\ y.page = w.page /\ y.expanded = w.expanded /\ y.ready = w.ready
          /\ y.window = w.window /\ y.session = w.session
      BY <1>1, <2>7 DEF Members
    <2> HIDE DEF y
    <2>9. InView(y, y.input, y.page, v)
      <3>1. y.page * v = 0 /\ (y.page + 1) * v = v
        BY <1>4, <2>3, <2>8
      <3> QED BY <2>5, <2>7, <2>8, <3>1 DEF InView
    <2>10. Typed(y) /\ y.input # <<>>
      BY <2>8 DEF Typed
    <2>11. Good(x) /\ Carried(x, y) /\ x.window = y.window
      BY <2>2, <2>3, <2>9, <2>10, RecordedGood
    <2> QED BY <2>8, <2>11 DEF Carried
  <1>5. CASE ~ (v = 0 \/ v = Length(w)) /\ w.page # 0
    <2>1. x \in {Recorded(y, v) : y \in Ask(w, v)}
      BY <1>5 DEF Trimmed, v
    <2>2. PICK y \in Ask(w, v) : x = Recorded(y, v)
      BY <2>1
    <2>3. v \in Nat \ {0}
      BY <1>2, <1>5
    <2>4. Typed(y) /\ Carried(y, w) /\ y.window = w.window /\ InView(y, w.input, w.page, v)
      BY <2>2, <2>3, AskGives
    <2>5. y.input = w.input /\ y.page = w.page
      BY <2>4 DEF Carried
    <2>6. Good(x) /\ Carried(x, y) /\ x.window = y.window
      BY <2>2, <2>3, <2>4, <2>5, RecordedGood
    <2> QED BY <2>4, <2>6 DEF Carried
  <1> QED BY <1>3, <1>4, <1>5

LEMMA CarriedOn ==
    ASSUME NEW x, NEW y, NEW z, Carried(x, y), Carried(y, z)
    PROVE  Carried(x, z)
  BY DEF Carried

LEMMA RefreshGood ==
    ASSUME ranking \in Nat, NEW w, Good(w), NEW x \in RefreshCandidates(w)
    PROVE  /\ Good(x) /\ Carried(x, w) /\ x.window = w.window
           /\ w.input = <<>> => x.last = NoQuery /\ Length(x) = 0 /\ ~x.hasNext
  <1> DEFINE size == CandidatePageSizeLimit(w)
             empty == [w EXCEPT !.shown = NoCandidates, !.hasPrevious = FALSE, !.hasNext = FALSE,
                                !.last = NoQuery, !.selected = 0]
  <1>1. w \in Members /\ Typed(w) /\ size \in Nat \ {0}
    BY LimitFacts DEF Good, Typed
  <1>2. CASE w.ready /\ w.input # <<>> /\ w.last = [of |-> w.input, page |-> w.page, size |-> size]
    <2>1. x = ClampCandidateSelection(w)
      BY <1>2 DEF RefreshCandidates
    <2> QED BY <1>2, <2>1, ClampGood
  <1>3. CASE w.input = <<>> \/ ~w.ready
    <2>1. x = empty
      BY <1>3 DEF RefreshCandidates
    <2> DEFINE none == NoCandidates
               query == NoQuery
    <2>2. none \in Shown /\ query \in Queries /\ none.items = <<>>
      BY SetFacts
    <2> HIDE DEF none, query
    <2>3. empty = [w EXCEPT !.shown = none, !.hasPrevious = FALSE, !.hasNext = FALSE,
                            !.last = query, !.selected = 0]
      BY DEF none, query
    <2> HIDE DEF empty
    <2>4. /\ empty \in Members /\ empty.shown = none /\ empty.last = query
          /\ empty.hasNext = FALSE /\ empty.input = w.input /\ empty.page = w.page
          /\ empty.expanded = w.expanded /\ empty.ready = w.ready
          /\ empty.window = w.window /\ empty.session = w.session
      BY <1>1, <2>2, <2>3 DEF Members
    <2>5. empty.last = NoQuery /\ Length(empty) = 0
      BY <2>2, <2>4 DEF Length, query
    <2>6. Good(empty)
      BY <1>1, <2>4, <2>5 DEF Good, Typed, Honest
    <2> QED BY <2>1, <2>4, <2>5, <2>6 DEF Carried
  <1>4. CASE /\ ~ (w.ready /\ w.input # <<>>
                     /\ w.last = [of |-> w.input, page |-> w.page, size |-> size])
             /\ ~ (w.input = <<>> \/ ~w.ready)
    <2>1. x \in UNION {Trimmed(y, size) : y \in Ask(w, size)}
      BY <1>4 DEF RefreshCandidates
    <2>2. PICK y \in Ask(w, size) : x \in Trimmed(y, size)
      BY <2>1
    <2> HIDE DEF size
    <2>3. Typed(y) /\ Carried(y, w) /\ y.window = w.window /\ InView(y, w.input, w.page, size)
      BY <1>1, <1>4, <2>2, AskGives
    <2>4. y.input = w.input /\ y.page = w.page
      BY <2>3 DEF Carried
    <2>5. Good(x) /\ Carried(x, y) /\ x.window = y.window
      BY <1>1, <1>4, <2>2, <2>3, <2>4, TrimmedGood
    <2> QED BY <1>4, <2>3, <2>5, CarriedOn
  <1> QED BY <1>2, <1>3, <1>4

LEMMA QueryDropped ==
    ASSUME NEW w, Typed(w)
    PROVE  LET x == [w EXCEPT !.last = NoQuery]
           IN Good(x) /\ Carried(x, w) /\ x.window = w.window /\ x.last = NoQuery
  <1> DEFINE query == NoQuery
             x == [w EXCEPT !.last = query]
  <1>1. query \in Queries /\ w \in Members
    BY SetFacts DEF Typed
  <1> HIDE DEF query
  <1>2. /\ x \in Members /\ x.last = query /\ x.input = w.input /\ x.page = w.page
        /\ x.expanded = w.expanded /\ x.ready = w.ready /\ x.window = w.window
        /\ x.session = w.session
    BY <1>1 DEF Members
  <1> HIDE DEF x
  <1>3. Good(x)
    BY <1>2 DEF Good, Typed, Honest, query
  <1> QED BY <1>2, <1>3 DEF Carried, x, query

LEMMA ReloadGood ==
    ASSUME NEW w, Good(w), NEW stored \in Settings
    PROVE  /\ Good(Reload(w, stored)) /\ Carried(Reload(w, stored), w)
           /\ Reload(w, stored).window = w.window
  <1>1. CASE w.settings = stored
    BY <1>1 DEF Reload, Carried
  <1>2. CASE w.settings # stored
    <2> DEFINE query == NoQuery
               x == [w EXCEPT !.settings = stored, !.last = query]
    <2>1. query \in Queries /\ w \in Members
      BY SetFacts DEF Good, Typed
    <2>2. Reload(w, stored) = x
      BY <1>2 DEF Reload
    <2> HIDE DEF query
    <2>3. /\ x \in Members /\ x.last = query /\ x.input = w.input /\ x.page = w.page
          /\ x.expanded = w.expanded /\ x.ready = w.ready /\ x.window = w.window
          /\ x.session = w.session
      BY <2>1 DEF Members
    <2> HIDE DEF x
    <2>4. Good(x)
      BY <2>3 DEF Good, Typed, Honest, query
    <2> QED BY <2>2, <2>3, <2>4 DEF Carried
  <1> QED BY <1>1, <1>2

LEMMA MovedGood ==
    ASSUME NEW w, Good(w), NEW m \in Monitors
    PROVE  LET x == [w EXCEPT !.window = m]
           IN Good(x) /\ Carried(x, w) /\ x.window = m
  <1> DEFINE x == [w EXCEPT !.window = m]
  <1>1. w \in Members
    BY DEF Good, Typed
  <1>2. /\ x \in Members /\ x.input = w.input /\ x.page = w.page /\ x.expanded = w.expanded
        /\ x.ready = w.ready /\ x.shown = w.shown /\ x.hasNext = w.hasNext
        /\ x.last = w.last /\ x.window = m /\ x.session = w.session
    BY <1>1 DEF Members
  <1> HIDE DEF x
  <1>3. Good(x)
    BY <1>2, HonestKept DEF Good, Typed
  <1> QED BY <1>2, <1>3 DEF Carried, x

LEMMA ShowGood ==
    ASSUME ranking \in Nat, NEW w, Good(w), IsComposing(w), NEW stored \in Settings,
           NEW z \in ShowWithSettings(w, stored)
    PROVE  Good(z) /\ Carried(z, w) /\ z.window \in Monitors
  <1> DEFINE Created(x) == IF x.window = NoMonitor
                             THEN {[x EXCEPT !.window = m] : m \in Monitors} ELSE {x}
             Fitting(x) ==
               LET v == VisibleCandidateCount(x)
                   trimmed == x.last.size < CandidatePageSizeLimit(x) /\ Length(x) <= x.last.size
               IN IF OnRecord(x) /\ ~trimmed /\ v > 0 /\ v < Length(x) /\ x.last.size # v
                    THEN RefreshCandidates([x EXCEPT !.last = NoQuery]) ELSE {x}
             Moved(x) == {[x EXCEPT !.window = m] : m \in Monitors}
             u == Reload(w, stored)
  <1>1. z \in UNION {UNION {Moved(y) : y \in Fitting(x)} : x \in Created(u)}
    BY DEF ShowWithSettings
  <1>2. PICK x \in Created(u) : \E y \in Fitting(x) : z \in Moved(y)
    <2> HIDE DEF Created, Fitting, Moved
    <2> QED BY <1>1
  <1>3. PICK y \in Fitting(x) : z \in Moved(y)
    BY <1>2
  <1>4. Good(u) /\ Carried(u, w)
    BY ReloadGood
  <1> HIDE DEF u
  <1>5. Good(x) /\ Carried(x, w)
    <2>1. CASE u.window = NoMonitor
      <3>1. PICK m \in Monitors : x = [u EXCEPT !.window = m]
        BY <1>2, <2>1
      <3> QED BY <1>4, <3>1, MovedGood, CarriedOn
    <2>2. CASE u.window # NoMonitor
      <3>1. x = u
        BY <1>2, <2>2
      <3> QED BY <1>4, <3>1
    <2> QED BY <2>1, <2>2
  <1>6. Good(y) /\ Carried(y, w)
    <2>1. CASE y \in RefreshCandidates([x EXCEPT !.last = NoQuery])
      <3> DEFINE d == [x EXCEPT !.last = NoQuery]
      <3>1. Good(d) /\ Carried(d, x)
        BY <1>5, QueryDropped DEF Good
      <3>2. y \in RefreshCandidates(d)
        BY <2>1
      <3> HIDE DEF d
      <3>3. Good(y) /\ Carried(y, d)
        BY <3>1, <3>2, RefreshGood
      <3> QED BY <1>5, <3>1, <3>3, CarriedOn
    <2>2. CASE y = x
      BY <1>5, <2>2
    <2>3. y \in RefreshCandidates([x EXCEPT !.last = NoQuery]) \/ y = x
      BY <1>3
    <2> QED BY <2>1, <2>2, <2>3
  <1>7. PICK m \in Monitors : z = [y EXCEPT !.window = m]
    BY <1>3
  <1> QED BY <1>6, <1>7, MovedGood, CarriedOn

\* A state between two handlers.
Whole(w) == Good(w) /\ Framed(w) /\ Rested(w)

LEMMA ShownWhole ==
    ASSUME ranking \in Nat, saved \in Settings, NEW w, Good(w), IsComposing(w),
           NEW x \in ShowCandidateWindow(w)
    PROVE  Whole(x)
  <1>1. Good(x) /\ Carried(x, w) /\ x.window \in Monitors
    BY ShowGood DEF ShowCandidateWindow
  <1>2. IsComposing(x)
    BY <1>1 DEF Carried, IsComposing
  <1> QED BY <1>1, <1>2, MonitorFacts DEF Whole, Framed, Rested

LEMMA RefreshedWhole ==
    ASSUME ranking \in Nat, saved \in Settings, NEW w, Good(w), IsComposing(w), NEW x \in Refreshed(w)
    PROVE  Whole(x)
  <1>1. PICK y \in RefreshCandidates(w) : x \in ShowCandidateWindow(y)
    BY DEF Refreshed
  <1>2. Good(y) /\ IsComposing(y)
    BY <1>1, RefreshGood DEF Carried, IsComposing
  <1> QED BY <1>1, <1>2, ShownWhole

LEMMA DrawnIfAnyWhole ==
    ASSUME ranking \in Nat, saved \in Settings, NEW w, Good(w), IsComposing(w), NEW x \in DrawnIfAny(w)
    PROVE  Whole(x)
  <1>1. CASE Length(w) = 0
    BY <1>1 DEF DrawnIfAny, Whole, Framed, Rested
  <1>2. CASE Length(w) # 0
    <2>1. x \in ShowCandidateWindow(w)
      BY <1>2 DEF DrawnIfAny
    <2> QED BY <2>1, ShownWhole
  <1> QED BY <1>1, <1>2

-----------------------------------------------------------------------------
(* Choices.                                                                *)

LEMMA ClearWhole ==
    ASSUME NEW w, Typed(w)
    PROVE  Whole(ClearCompositionState(w))
  <1> DEFINE none == NoCandidates
             query == NoQuery
             session == Cleared
             input == <<>>
             x == [w EXCEPT !.input = input, !.page = 0, !.shown = none, !.selected = 0,
                            !.expanded = FALSE, !.hasPrevious = FALSE, !.hasNext = FALSE,
                            !.last = query, !.session = session]
  <1>1. /\ w \in Members /\ none \in Shown /\ query \in Queries /\ session \in Sessions
        /\ none.items = <<>> /\ InStep(session) /\ input \in Seq(Letters) /\ Len(input) = 0
    BY SetFacts, ClearedInStep DEF Typed
  <1>2. ClearCompositionState(w) = x
    BY DEF ClearCompositionState
  <1> HIDE DEF none, query, session, input
  <1>3. /\ x \in Members /\ x.input = input /\ x.page = 0 /\ x.shown = none /\ ~x.expanded
        /\ ~x.hasNext /\ x.last = query /\ x.session = session
    BY <1>1 DEF Members
  <1> HIDE DEF x
  <1>4. x.last = NoQuery /\ Length(x) = 0 /\ Len(x.input) <= MaxInput
    BY <1>1, <1>3, CandidateAssumption DEF Length, query
  <1>5. Good(x)
    BY <1>1, <1>3, <1>4 DEF Good, Typed, Honest
  <1> QED BY <1>2, <1>3, <1>4, <1>5 DEF Whole, Framed, Rested

LEMMA DivMod ==
    ASSUME NEW a \in Nat, NEW b \in Nat \ {0}
    PROVE  /\ a \div b \in Nat /\ a % b \in 0..b - 1
           /\ a = b * (a \div b) + (a % b)
  <1>1. a \div b \in Int /\ a % b \in Int
    OBVIOUS
  <1>2. a = b * (a \div b) + (a % b) /\ 0 <= a % b /\ a % b < b
    OBVIOUS
  <1> DEFINE q == a \div b
             m == a % b
  <1> HIDE DEF q, m
  <1>3. q >= 0
    <2>1. CASE q <= -1
      <3>1. b * (q + 1) <= 0
        BY <2>1, <1>1 DEF q
      <3>2. b * q <= -b
        BY <3>1, <1>1 DEF q
      <3> QED BY <3>2, <1>1, <1>2 DEF q, m
    <2> QED BY <2>1, <1>1 DEF q
  <1> QED BY <1>1, <1>2, <1>3 DEF q, m

LEMMA RestFacts ==
    ASSUME NEW n \in Inputs, NEW c
    PROVE  Rest(n, c) \in Seq(Letters) /\ Len(Rest(n, c)) <= MaxInput
  <1>1. n \in Seq(Letters) /\ n # <<>> /\ Len(n) \in 1..MaxInput /\ MaxInput \in Nat
    BY InputFacts, CandidateAssumption
  <1>2. Tail(n) \in Seq(Letters) /\ Len(Tail(n)) = Len(n) - 1
    BY <1>1, HeadTailProperties
  <1> QED BY <1>1, <1>2 DEF Rest

LEMMA ChoiceFacts ==
    ASSUME NEW s, InStep(s), NEW n \in Inputs, NEW k \in Nat, NEW size \in Nat \ {0},
           NEW i \in Nat, NEW r
    PROVE  LET c == SelectCandidate(s, n, k, size, i, r)
           IN InStep(c.s) /\ c.rest \in Seq(Letters) /\ Len(c.rest) <= MaxInput
  <1> DEFINE p == k * size + i + 1
             found == p <= Size(n) /\ p <= MaxWalk * RimePage
             c == Menu(n, r)[p]
             lastPage == (Size(n) - 1) \div RimePage
             stuck == Min({lastPage, MaxWalk})
             a == SelectCandidate(s, n, k, size, i, r)
  <1> SUFFICES InStep(a.s) /\ a.rest \in Seq(Letters) /\ Len(a.rest) <= MaxInput
    OBVIOUS
  <1>1. a = IF found
              THEN [candidate |-> c, rest |-> Rest(n, c), s |-> SyncSessionInput(s, Rest(n, c), TRUE)]
              ELSE [candidate |-> 0, rest |-> <<>>,
                    s |-> [typed |-> n, at |-> stuck, input |-> n, page |-> stuck]]
    BY DEF SelectCandidate
  <1> HIDE DEF a, c, found
  <1>2. CASE found
    <2> DEFINE rest == Rest(n, c)
    <2>1. rest \in Seq(Letters) /\ Len(rest) <= MaxInput
      BY RestFacts
    <2> HIDE DEF rest
    <2>2. SyncSessionInput(s, rest, TRUE) = Fresh(rest) /\ InStep(Fresh(rest))
      BY <2>1, SyncGives, FreshInStep
    <2>3. a = [candidate |-> c, rest |-> rest, s |-> SyncSessionInput(s, rest, TRUE)]
      BY <1>1, <1>2 DEF rest
    <2> QED BY <2>1, <2>2, <2>3
  <1>3. CASE ~found
    <2>1. lastPage \in Nat /\ MaxWalk \in Nat
      <3>1. Size(n) - 1 \in Nat /\ RimePage \in Nat \ {0}
        BY InputFacts, CandidateAssumption
      <3> QED BY <3>1, DivMod, CandidateAssumption
    <2> HIDE DEF lastPage
    <2>2. stuck \in Nat
      BY <2>1, MinTwo
    <2> HIDE DEF stuck
    <2>3. n \in Seq(Letters)
      BY InputFacts
    <2> DEFINE t == [typed |-> n, at |-> stuck, input |-> n, page |-> stuck]
    <2>4. InStep(t)
      BY <2>2, <2>3 DEF InStep, Sessions
    <2> HIDE DEF t
    <2>5. a = [candidate |-> 0, rest |-> <<>>, s |-> t]
      BY <1>1, <1>3 DEF t
    <2>6. a.s = t /\ a.rest = <<>>
      BY <2>5
    <2> QED BY <2>4, <2>6, CandidateAssumption
  <1> QED BY <1>2, <1>3

\* A part of the input is taken.
WithInput(w, input, session) == [w EXCEPT !.input = input, !.session = session]

LEMMA InputGood ==
    ASSUME NEW w, Good(w), NEW input \in Seq(Letters), Len(input) <= MaxInput,
           NEW session, InStep(session)
    PROVE  /\ Good(WithInput(w, input, session)) /\ WithInput(w, input, session).input = input
           /\ WithInput(w, input, session).shown = w.shown
           /\ WithInput(w, input, session).window = w.window
  <1> DEFINE x == WithInput(w, input, session)
  <1>1. w \in Members /\ session \in Sessions
    BY DEF Good, Typed, InStep
  <1>2. /\ x \in Members /\ x.input = input /\ x.page = w.page /\ x.ready = w.ready
        /\ x.shown = w.shown /\ x.hasNext = w.hasNext /\ x.last = w.last
        /\ x.window = w.window /\ x.session = session
    BY <1>1 DEF Members, WithInput
  <1> HIDE DEF x
  <1>3. Good(x)
    BY <1>2, HonestKept DEF Good, Typed
  <1> QED BY <1>2, <1>3 DEF x

LEMMA ContinueWhole ==
    ASSUME ranking \in Nat, saved \in Settings, NEW w, Good(w), IsComposing(w),
           NEW z \in CommitTextAndContinueComposition(w)
    PROVE  Whole(z)
  <1> DEFINE query == NoQuery
             x == [w EXCEPT !.page = 0, !.selected = 0, !.expanded = FALSE, !.last = query]
  <1>1. w \in Members /\ query \in Queries
    BY SetFacts DEF Good, Typed
  <1>2. PICK y \in RefreshCandidates([ToFirst(w) EXCEPT !.expanded = FALSE, !.last = NoQuery]) :
          z \in DrawnIfAny(y)
    BY DEF CommitTextAndContinueComposition
  <1>3. [ToFirst(w) EXCEPT !.expanded = FALSE, !.last = NoQuery] = x
    BY DEF ToFirst
  <1> HIDE DEF query
  <1>4. /\ x \in Members /\ x.last = query /\ x.input = w.input /\ x.session = w.session
    BY <1>1 DEF Members
  <1> HIDE DEF x
  <1>5. Good(x) /\ IsComposing(x)
    BY <1>4 DEF Good, Typed, Honest, IsComposing, query
  <1>6. Good(y) /\ IsComposing(y)
    BY <1>2, <1>3, <1>5, RefreshGood DEF Carried, IsComposing
  <1> QED BY <1>2, <1>6, DrawnIfAnyWhole

LEMMA EffectiveFacts ==
    ASSUME NEW w, Good(w)
    PROVE  EffectivePageSize(w) \in Nat \ {0}
  <1>1. w \in Members /\ w.last \in Queries
    BY MemberFacts DEF Good, Typed
  <1>2. CandidatePageSizeLimit(w) \in Nat \ {0}
    BY <1>1, LimitFacts
  <1>3. w.last.size \in Nat
    BY <1>1 DEF Queries
  <1> QED BY <1>2, <1>3 DEF EffectivePageSize, OnRecord

LEMMA CommitWhole ==
    ASSUME ranking \in Nat, saved \in Settings, NEW w, Whole(w), IsComposing(w), NEW i \in Nat,
           NEW x \in CommitCandidate(w, i)
    PROVE  Whole(x)
  <1> DEFINE c == Choice(w, i)
             input == IF c.rest = <<>> THEN w.input ELSE c.rest
             taken == [w EXCEPT !.input = input, !.session = c.s]
  <1>1. /\ Good(w) /\ Typed(w) /\ w.input \in Inputs /\ w.page \in Nat /\ InStep(w.session)
        /\ w.input \in Seq(Letters) /\ Len(w.input) <= MaxInput
    BY ComposingInput, MemberFacts DEF Whole, Good, Typed, IsComposing
  <1>2. InStep(c.s) /\ c.rest \in Seq(Letters) /\ Len(c.rest) <= MaxInput
    <2> DEFINE size == EffectivePageSize(w)
               s == w.session
               n == w.input
               k == w.page
    <2>1. size \in Nat \ {0} /\ InStep(s) /\ n \in Inputs /\ k \in Nat
      BY <1>1, EffectiveFacts
    <2>2. c = SelectCandidate(s, n, k, size, i, ranking)
      BY DEF Choice
    <2> HIDE DEF size, s, n, k, c
    <2> QED BY <2>1, <2>2, ChoiceFacts
  <1>3. \/ x = w \/ x = ClearCompositionState(w)
        \/ x = taken \/ x = ClearCompositionState(taken)
        \/ c.rest # <<>> /\ x \in CommitTextAndContinueComposition(taken)
    <2>1. taken = [w EXCEPT !.input = IF c.rest = <<>> THEN @ ELSE c.rest, !.session = c.s]
      OBVIOUS
    <2> HIDE DEF taken, c
    <2> QED BY <2>1 DEF CommitCandidate, c
  <1> HIDE DEF c
  <1>4. input \in Seq(Letters) /\ Len(input) <= MaxInput /\ input # <<>>
    BY <1>1, <1>2 DEF IsComposing
  <1> HIDE DEF input
  <1>5. /\ Good(taken) /\ IsComposing(taken) /\ taken.shown = w.shown /\ taken.window = w.window
    <2> DEFINE session == c.s
    <2>1. InStep(session) /\ Good(w)
      BY <1>1, <1>2
    <2>2. taken = WithInput(w, input, session)
      BY DEF WithInput
    <2> HIDE DEF session, taken
    <2>3. Good(taken) /\ taken.input = input /\ taken.shown = w.shown /\ taken.window = w.window
      BY <1>4, <2>1, <2>2, InputGood
    <2> QED BY <1>4, <2>3 DEF IsComposing
  <1> HIDE DEF taken
  <1>6. Whole(taken)
    BY <1>5 DEF Whole, Framed, Rested, Length
  <1> QED BY <1>1, <1>3, <1>5, <1>6, ClearWhole, ContinueWhole DEF Good

-----------------------------------------------------------------------------
(* Lines and places.                                                       *)

LEMMA SelectableFacts ==
    ASSUME NEW w \in Members
    PROVE  /\ Selectable(w) \subseteq Nat
           /\ \A i \in Selectable(w) : i < Length(w)
           /\ \A i \in Selectable(w) : \A j \in Nat : j <= i => j \in Selectable(w)
           /\ Selectable(w) # {} => Length(w) > 0
  BY VisibleFacts, LengthFacts DEF Selectable

LEMMA PlaceFacts ==
    ASSUME NEW w \in Members, w.window # NoMonitor, NEW i \in Selectable(w)
    PROVE  Line(w, i) \in Nat /\ Place(w, i) \in Nat
  <1>1. i \in Nat /\ Length(w) > 0
    BY SelectableFacts
  <1>2. FirstRow(w) \in Nat \ {0} /\ w.window.tail \in Nat \ {0}
    BY <1>1, FirstRowFacts, MemberFacts, MonitorFacts, CandidateAssumption
  <1>3. CASE i < FirstRow(w)
    BY <1>1, <1>3 DEF Line, Place
  <1>4. CASE ~ (i < FirstRow(w))
    <2>1. i - FirstRow(w) \in Nat
      BY <1>1, <1>2, <1>4
    <2>2. (i - FirstRow(w)) \div w.window.tail \in Nat /\ (i - FirstRow(w)) % w.window.tail \in Nat
      <3> DEFINE a == i - FirstRow(w)
                 b == w.window.tail
      <3>1. a \in Nat /\ b \in Nat \ {0}
        BY <1>2, <2>1
      <3> HIDE DEF a, b
      <3>2. a \div b \in Nat /\ a % b \in 0..b - 1
        BY <3>1, DivMod
      <3>3. a % b \in Nat
        BY <3>1, <3>2
      <3> QED BY <3>2, <3>3 DEF a, b
    <2> QED BY <1>4, <2>2 DEF Line, Place
  <1> QED BY <1>3, <1>4

LEMMA NearestFacts ==
    ASSUME NEW w \in Members, w.window # NoMonitor, NEW l, NEW p \in Int, InLine(w, l) # {}
    PROVE  /\ Nearest(w, l, p) \in InLine(w, l)
           /\ \A j \in InLine(w, l) :
                Abs(Place(w, Nearest(w, l, p)) - p) <= Abs(Place(w, j) - p)
  <1> DEFINE far(i) == Abs(Place(w, i) - p)
             S == InLine(w, l)
             best(i) == \A j \in S : far(i) < far(j) \/ (far(i) = far(j) /\ i <= j)
  <1>1. S \subseteq Nat /\ S \subseteq Selectable(w)
    BY SelectableFacts DEF InLine
  <1>2. ASSUME NEW i \in S PROVE far(i) \in Nat
    <2>1. Place(w, i) \in Nat
      BY <1>1, PlaceFacts
    <2> QED BY <2>1 DEF Abs
  <1> HIDE DEF far, S
  <1>3. \E i \in S : best(i)
    <2> DEFINE D == {far(i) : i \in S}
    <2>1. D \in SUBSET Nat /\ D # {}
      BY <1>2 DEF S
    <2>2. \E d \in D : \A e \in D : d <= e
      <3> HIDE DEF D
      <3> QED BY <2>1, LeastNumber
    <2>3. PICK d \in D : \A e \in D : d <= e
      BY <2>2
    <2> DEFINE J == {i \in S : far(i) = d}
    <2>4. J \in SUBSET Nat /\ J # {}
      BY <1>1, <2>3
    <2>5. \E i \in J : \A j \in J : i <= j
      <3> HIDE DEF J
      <3> QED BY <2>4, LeastNumber
    <2>6. PICK i \in J : \A j \in J : i <= j
      BY <2>5
    <2>7. ASSUME NEW j \in S PROVE far(i) < far(j) \/ (far(i) = far(j) /\ i <= j)
      <3>1. far(i) = d /\ d <= far(j) /\ far(j) \in Nat /\ d \in Nat
        BY <1>2, <2>1, <2>3, <2>6
      <3>2. far(j) = d => i <= j
        BY <2>6
      <3> QED BY <3>1, <3>2
    <2> QED BY <2>6, <2>7
  <1>4. Nearest(w, l, p) = CHOOSE i \in S : best(i)
    BY DEF Nearest, S, far
  <1>5. Nearest(w, l, p) \in S /\ best(Nearest(w, l, p))
    <2> HIDE DEF best
    <2> QED BY <1>3, <1>4
  <1>6. \A j \in S : far(Nearest(w, l, p)) <= far(j)
    BY <1>2, <1>5
  <1> QED BY <1>5, <1>6 DEF S, far

LEMMA SelectedWhole ==
    ASSUME NEW w, Whole(w), NEW i \in Nat
    PROVE  Whole([w EXCEPT !.selected = i])
  BY SelectedGood DEF Whole, Framed, Rested, Carried, Length, IsComposing

LEMMA ClampWhole ==
    ASSUME NEW w, Whole(w)
    PROVE  Whole(ClampCandidateSelection(w))
  BY ClampGood DEF Whole, Framed, Rested, Carried, Length, IsComposing

LEMMA MoveWhole ==
    ASSUME NEW w, Whole(w), NEW key
    PROVE  Whole(MoveCandidateSelection(w, key))
  <1> DEFINE x == ClampCandidateSelection(w)
             i == x.selected
             along == key \in IF x.settings.horizontal THEN {"left", "right"} ELSE {"up", "down"}
             step == IF key \in {"left", "up"} THEN -1 ELSE 1
             target == IF x.expanded
                         THEN IF along THEN Nearest(x, Line(x, i), Place(x, i) + step)
                              ELSE Nearest(x, Line(x, i) + step, Place(x, i))
                       ELSE IF i + step \in Selectable(x) /\ (along \/ x.settings.horizontal)
                         THEN i + step ELSE i
  <1>1. MoveCandidateSelection(w, key)
          = IF Selectable(x) = {} THEN x ELSE [x EXCEPT !.selected = target]
    BY DEF MoveCandidateSelection
  <1>2. Whole(x)
    BY ClampWhole
  <1>3. CASE Selectable(x) = {}
    BY <1>1, <1>2, <1>3
  <1>4. CASE Selectable(x) # {}
    <2>1. x \in Members /\ x.window # NoMonitor
      BY <1>2, <1>4, SelectableFacts DEF Whole, Good, Typed, Framed
    <2>2. i \in Selectable(x) \/ (i = 0 /\ i \notin Selectable(x))
      <3>1. CASE w.selected \in Selectable(w)
        BY <3>1 DEF ClampCandidateSelection
      <3>2. CASE w.selected \notin Selectable(w)
        <4>1. w \in Members
          BY DEF Whole, Good, Typed
        <4>2. x = [w EXCEPT !.selected = 0]
          BY <3>2 DEF ClampCandidateSelection
        <4>3. x.selected = 0
          BY <4>1, <4>2 DEF Members
        <4> QED BY <4>3
      <3> QED BY <3>1, <3>2
    <2> HIDE DEF x
    <2>3. i \in Selectable(x) /\ i \in Nat
      <3>1. 0 \in Selectable(x)
        <4>1. PICK j \in Selectable(x) : TRUE
          BY <1>4
        <4>2. j \in Nat /\ 0 <= j
          BY <2>1, <4>1, SelectableFacts
        <4> QED BY <2>1, <4>1, <4>2, SelectableFacts
      <3> QED BY <2>1, <2>2, <3>1, SelectableFacts
    <2> HIDE DEF i
    <2>4. Line(x, i) \in Nat /\ Place(x, i) \in Nat
      BY <2>1, <2>3, PlaceFacts
    <2>5. \A l \in Int, p \in Int : Nearest(x, l, p) \in Nat
      <3> TAKE l \in Int, p \in Int
      <3>1. CASE InLine(x, l) = {}
        BY <2>3, <3>1 DEF Nearest, i
      <3>2. CASE InLine(x, l) # {}
        BY <2>1, <3>2, NearestFacts, SelectableFacts DEF InLine
      <3> QED BY <3>1, <3>2
    <2>6. target \in Nat
      <3>1. step \in Int
        OBVIOUS
      <3> HIDE DEF step, along
      <3>2. Place(x, i) + step \in Int /\ Line(x, i) + step \in Int
        BY <2>4, <3>1
      <3>3. i + step \in Selectable(x) => i + step \in Nat
        BY <2>1, SelectableFacts
      <3>4. /\ Nearest(x, Line(x, i), Place(x, i) + step) \in Nat
            /\ Nearest(x, Line(x, i) + step, Place(x, i)) \in Nat
        BY <2>4, <2>5, <3>2
      <3> QED BY <2>3, <3>3, <3>4
    <2> HIDE DEF target
    <2> QED BY <1>1, <1>2, <1>4, <2>6, SelectedWhole
  <1> QED BY <1>3, <1>4

-----------------------------------------------------------------------------
(* The invariant.                                                          *)

CandidateInv ==
  /\ Whole(ts)
  /\ saved \in Settings /\ notice \in BOOLEAN /\ restarting \in BOOLEAN
  /\ ranking \in Rankings

LEMMA RankingIsNumber == ASSUME ranking \in Rankings PROVE ranking \in Nat
  BY CandidateAssumption

\* The engine starts, or another one takes its place.
Restarted(w, ok) == [w EXCEPT !.ready = ok, !.session = Cleared]

LEMMA RestartedGood ==
    ASSUME NEW w, Good(w), NEW ok \in BOOLEAN
    PROVE  /\ Good(Restarted(w, ok)) /\ Restarted(w, ok).input = w.input
           /\ Restarted(w, ok).page = w.page /\ Restarted(w, ok).shown = w.shown
           /\ Restarted(w, ok).hasNext = w.hasNext /\ Restarted(w, ok).last = w.last
           /\ Restarted(w, ok).window = w.window /\ Restarted(w, ok).expanded = w.expanded
  <1> DEFINE session == Cleared
             x == [w EXCEPT !.ready = ok, !.session = session]
  <1>1. w \in Members /\ session \in Sessions /\ InStep(session)
    BY ClearedInStep DEF Good, Typed, InStep
  <1>2. Restarted(w, ok) = x
    BY DEF Restarted
  <1> HIDE DEF session
  <1>3. /\ x \in Members /\ x.input = w.input /\ x.page = w.page /\ x.shown = w.shown
        /\ x.hasNext = w.hasNext /\ x.last = w.last /\ x.window = w.window
        /\ x.expanded = w.expanded /\ x.ready = ok /\ x.session = session
    BY <1>1 DEF Members
  <1> HIDE DEF x
  <1>4. Good(x)
    BY <1>1, <1>3, HonestKept DEF Good, Typed
  <1> QED BY <1>2, <1>3, <1>4

LEMMA RestartedWhole ==
    ASSUME NEW w, Whole(w), NEW ok \in BOOLEAN
    PROVE  Whole(Restarted(w, ok))
  BY RestartedGood DEF Whole, Framed, Rested, Length, IsComposing

\* The input changes; the candidates are asked for from the first page on.
Edited(w, input) == [w EXCEPT !.page = 0, !.selected = 0, !.input = input, !.expanded = FALSE]

LEMMA EditedGood ==
    ASSUME NEW w, Good(w), NEW input \in Seq(Letters), Len(input) <= MaxInput
    PROVE  Good(Edited(w, input)) /\ Edited(w, input).input = input
  <1> DEFINE x == Edited(w, input)
  <1>1. w \in Members
    BY DEF Good, Typed
  <1>2. /\ x \in Members /\ x.input = input /\ x.shown = w.shown /\ x.hasNext = w.hasNext
        /\ x.last = w.last /\ x.session = w.session
    BY <1>1 DEF Members, Edited
  <1> HIDE DEF x
  <1>3. Good(x)
    BY <1>2, HonestKept DEF Good, Typed
  <1> QED BY <1>2, <1>3 DEF x

LEMMA UnaskedGood ==
    ASSUME NEW w, Good(w)
    PROVE  LET x == [w EXCEPT !.shown = NoCandidates, !.hasPrevious = FALSE, !.hasNext = FALSE]
           IN Good(x) /\ x.input = w.input
  <1> DEFINE none == NoCandidates
             x == [w EXCEPT !.shown = none, !.hasPrevious = FALSE, !.hasNext = FALSE]
  <1>1. w \in Members /\ none \in Shown /\ none.items = <<>>
    BY SetFacts DEF Good, Typed
  <1> HIDE DEF none
  <1>2. /\ x \in Members /\ x.input = w.input /\ x.shown = none /\ ~x.hasNext
        /\ x.last = w.last /\ x.session = w.session
    BY <1>1 DEF Members
  <1> HIDE DEF x
  <1>3. Length(x) = 0
    BY <1>1, <1>2 DEF Length
  <1>4. Good(x)
    BY <1>2, <1>3 DEF Good, Typed, Honest, InView
  <1> QED BY <1>2, <1>4 DEF x, none

LEMMA ToFirstInput ==
    ASSUME NEW w \in Members
    PROVE  ToFirst(w).input = w.input
  BY DEF ToFirst, Members

LEMMA LetterInv ==
    ASSUME CandidateInv, NEW l \in Letters, Letter(l)
    PROVE  CandidateInv'
  <1> DEFINE input == Append(ts.input, l)
             x == Edited(ts, input)
             Engines == IF x.ready THEN {x}
                        ELSE {x, [x EXCEPT !.ready = TRUE, !.session = Cleared]}
             Asked(y) == IF y.ready THEN RefreshCandidates(y)
                         ELSE {[y EXCEPT !.shown = NoCandidates,
                                         !.hasPrevious = FALSE, !.hasNext = FALSE]}
  <1>1. Good(ts) /\ ts.input \in Seq(Letters) /\ Len(ts.input) < MaxInput /\ ranking \in Nat
    BY MemberFacts, RankingIsNumber DEF CandidateInv, Whole, Good, Typed, Letter
  <1>2. input \in Seq(Letters) /\ Len(input) <= MaxInput /\ input # <<>>
    <2> DEFINE n == ts.input
    <2>1. n \in Seq(Letters) /\ Len(n) < MaxInput /\ MaxInput \in Nat
      BY <1>1, CandidateAssumption
    <2> HIDE DEF n
    <2>2. Append(n, l) \in Seq(Letters) /\ Len(Append(n, l)) = Len(n) + 1
      BY <2>1
    <2>3. Append(n, l) # <<>> /\ Len(Append(n, l)) <= MaxInput
      BY <2>1, <2>2
    <2> QED BY <2>2, <2>3 DEF n
  <1>3. [ToFirst(ts) EXCEPT !.input = Append(@, l), !.expanded = FALSE] = x
    <2>1. ToFirst(ts).input = ts.input
      BY <1>1, ToFirstInput DEF Good, Typed
    <2> QED BY <2>1 DEF ToFirst, Edited
  <1> HIDE DEF input
  <1>4. Good(x) /\ x.input = input
    BY <1>1, <1>2, EditedGood
  <1>5. /\ ts' \in {ClearCompositionState(x)}
                     \cup UNION {UNION {DrawnIfAny(z) : z \in Asked(y)} : y \in Engines}
        /\ RestUnchanged
    BY <1>3 DEF Letter
  <1> HIDE DEF x
  <1>6. CASE ts' = ClearCompositionState(x)
    BY <1>4, <1>5, <1>6, ClearWhole DEF CandidateInv, RestUnchanged, Good
  <1>7. CASE ts' \in UNION {UNION {DrawnIfAny(z) : z \in Asked(y)} : y \in Engines}
    <2>1. PICK y \in Engines : \E z \in Asked(y) : ts' \in DrawnIfAny(z)
      <3> HIDE DEF Engines, Asked
      <3> QED BY <1>7
    <2>2. Good(y) /\ y.input = input
      <3>1. y = x \/ y = Restarted(x, TRUE)
        BY <2>1 DEF Restarted
      <3>2. TRUE \in BOOLEAN
        OBVIOUS
      <3>3. Good(Restarted(x, TRUE)) /\ Restarted(x, TRUE).input = x.input
        BY <1>4, <3>2, RestartedGood
      <3> QED BY <1>4, <3>1, <3>3
    <2>3. PICK z \in Asked(y) : ts' \in DrawnIfAny(z)
      BY <2>1
    <2>4. Good(z) /\ z.input = input
      <3>1. CASE y.ready
        BY <1>1, <2>2, <2>3, <3>1, RefreshGood DEF Carried
      <3>2. CASE ~y.ready
        BY <2>2, <2>3, <3>2, UnaskedGood
      <3> QED BY <3>1, <3>2
    <2>5. Whole(ts')
      BY <1>1, <1>2, <2>3, <2>4, DrawnIfAnyWhole DEF CandidateInv, IsComposing
    <2> QED BY <1>5, <2>5 DEF CandidateInv, RestUnchanged
  <1> QED BY <1>5, <1>6, <1>7

LEMMA BackspaceInv ==
    ASSUME CandidateInv, Backspace
    PROVE  CandidateInv'
  <1> DEFINE input == Front(ts.input)
             x == Edited(ts, input)
  <1>1. /\ Good(ts) /\ ts \in Members /\ ts.input \in Inputs /\ ranking \in Nat
    BY ComposingInput, RankingIsNumber
       DEF CandidateInv, Whole, Good, Typed, Backspace, IsComposing
  <1>2. input \in Seq(Letters) /\ Len(input) <= MaxInput
    <2> DEFINE n == ts.input
    <2>1. n \in Seq(Letters) /\ Len(n) \in 1..MaxInput /\ MaxInput \in Nat
      BY <1>1, InputFacts, CandidateAssumption
    <2> HIDE DEF n
    <2> DEFINE k == Len(n) - 1
    <2>2. k \in Int /\ \A i \in 1..k : n[i] \in Letters
      BY <2>1
    <2>3. k \in Nat /\ k <= MaxInput
      BY <2>1
    <2> HIDE DEF k
    <2>4. SubSeq(n, 1, k) \in Seq(Letters) /\ Len(SubSeq(n, 1, k)) = IF 1 <= k THEN k - 1 + 1 ELSE 0
      BY <2>2, SubSeqProperties
    <2>5. Front(n) = SubSeq(n, 1, k)
      BY DEF Front, k
    <2>6. Len(SubSeq(n, 1, k)) <= MaxInput
      BY <2>1, <2>3, <2>4
    <2> QED BY <2>4, <2>5, <2>6 DEF n
  <1>3. [ToFirst(ts) EXCEPT !.input = Front(@), !.expanded = FALSE] = x
    <2>1. ToFirst(ts).input = ts.input
      BY <1>1, ToFirstInput
    <2> QED BY <2>1 DEF ToFirst, Edited
  <1> HIDE DEF input
  <1>4. Good(x) /\ x.input = input
    BY <1>1, <1>2, EditedGood
  <1>5. /\ ts' = ClearCompositionState(x) \/ (x.input # <<>> /\ ts' \in Refreshed(x))
        /\ RestUnchanged
    BY <1>3 DEF Backspace
  <1> HIDE DEF x
  <1>6. Whole(ts')
    BY <1>1, <1>4, <1>5, ClearWhole, RefreshedWhole DEF CandidateInv, Good, IsComposing
  <1> QED BY <1>5, <1>6 DEF CandidateInv, RestUnchanged

\* Another page, or the first one of another size.
Turned(w, page, expanded) == [w EXCEPT !.page = page, !.selected = 0, !.expanded = expanded]

LEMMA TurnedGood ==
    ASSUME NEW w, Good(w), NEW page \in Nat, NEW expanded \in BOOLEAN
    PROVE  Good(Turned(w, page, expanded)) /\ Turned(w, page, expanded).input = w.input
  <1> DEFINE x == Turned(w, page, expanded)
  <1>1. w \in Members
    BY DEF Good, Typed
  <1>2. /\ x \in Members /\ x.input = w.input /\ x.shown = w.shown /\ x.hasNext = w.hasNext
        /\ x.last = w.last /\ x.session = w.session
    BY <1>1 DEF Members, Turned
  <1> HIDE DEF x
  <1>3. Good(x)
    BY <1>2, HonestKept DEF Good, Typed
  <1> QED BY <1>2, <1>3 DEF x

LEMMA ToggleExpansionInv ==
    ASSUME CandidateInv, ToggleExpansion
    PROVE  CandidateInv'
  <1>1. Good(ts) /\ ts \in Members /\ IsComposing(ts) /\ ranking \in Nat /\ ts.expanded \in BOOLEAN
    BY RankingIsNumber, MemberFacts DEF CandidateInv, Whole, Good, Typed, ToggleExpansion
  <1> DEFINE x == Turned(ts, 0, ~ts.expanded)
  <1>2. [ToFirst(ts) EXCEPT !.expanded = ~@] = x
    <2>1. ToFirst(ts).expanded = ts.expanded
      BY <1>1 DEF ToFirst, Members
    <2> QED BY <2>1 DEF ToFirst, Turned
  <1>3. ts' \in Refreshed(x) /\ RestUnchanged
    BY <1>2 DEF ToggleExpansion
  <1>4. (~ts.expanded) \in BOOLEAN /\ 0 \in Nat
    OBVIOUS
  <1>5. Good(x) /\ IsComposing(x)
    BY <1>1, <1>4, TurnedGood DEF IsComposing
  <1> HIDE DEF x
  <1>6. Whole(ts')
    BY <1>1, <1>3, <1>5, RefreshedWhole DEF CandidateInv
  <1> QED BY <1>3, <1>6 DEF CandidateInv, RestUnchanged

LEMMA ChangeCandidatePageInv ==
    ASSUME CandidateInv, NEW delta \in {-1, 1}, ChangeCandidatePage(delta)
    PROVE  CandidateInv'
  <1>1. Good(ts) /\ ts \in Members /\ IsComposing(ts) /\ ranking \in Nat
        /\ ts.expanded \in BOOLEAN /\ ts.page \in Nat
    BY RankingIsNumber, MemberFacts DEF CandidateInv, Whole, Good, Typed, ChangeCandidatePage
  <1> DEFINE x == Turned(ts, ts.page + delta, ts.expanded)
  <1>2. [ts EXCEPT !.page = @ + delta, !.selected = 0] = x
    BY <1>1 DEF Turned, Members
  <1>3. ts' \in Refreshed(x) /\ RestUnchanged
    BY <1>2 DEF ChangeCandidatePage
  <1>4. ts.page + delta \in Nat
    BY <1>1 DEF ChangeCandidatePage
  <1>5. Good(x) /\ IsComposing(x)
    BY <1>1, <1>4, TurnedGood DEF IsComposing
  <1> HIDE DEF x
  <1>6. Whole(ts')
    BY <1>1, <1>3, <1>5, RefreshedWhole DEF CandidateInv
  <1> QED BY <1>3, <1>6 DEF CandidateInv, RestUnchanged

LEMMA ArrowInv ==
    ASSUME CandidateInv, NEW key, Arrow(key)
    PROVE  CandidateInv'
  BY MoveWhole DEF CandidateInv, Arrow, RestUnchanged

LEMMA DigitIndex ==
    ASSUME NEW w \in Members, NEW d \in Int
    PROVE  CandidateIndexForDigit(w, d) \in Nat
  <1>1. Selectable(w) \subseteq Nat /\ Length(w) \in Nat
    BY SelectableFacts, LengthFacts
  <1>2. CASE ~w.expanded
    BY <1>1, <1>2 DEF CandidateIndexForDigit
  <1>3. CASE w.expanded
    <2> DEFINE l == Line(w, ClampCandidateSelection(w).selected)
               there == {i \in InLine(w, l) : Place(w, i) = d - 1}
    <2>1. CandidateIndexForDigit(w, d) = IF there = {} THEN Length(w) ELSE CHOOSE i \in there : TRUE
      BY <1>3 DEF CandidateIndexForDigit
    <2>2. there \subseteq Nat
      BY <1>1 DEF InLine
    <2> HIDE DEF there
    <2> QED BY <1>1, <2>1, <2>2
  <1> QED BY <1>2, <1>3

LEMMA DigitInv ==
    ASSUME CandidateInv, NEW d \in 1..RowLength, Digit(d)
    PROVE  CandidateInv'
  <1>1. ts \in Members /\ ranking \in Nat /\ d \in Int
    BY RankingIsNumber, CandidateAssumption DEF CandidateInv, Whole, Good, Typed
  <1>2. CandidateIndexForDigit(ts, d) \in Nat
    BY <1>1, DigitIndex
  <1>3. Whole(ts')
    BY <1>1, <1>2, CommitWhole DEF CandidateInv, Digit
  <1> QED BY <1>3 DEF CandidateInv, Digit, RestUnchanged

LEMMA ClickInv ==
    ASSUME CandidateInv, NEW i \in Selectable(ts), Click(i)
    PROVE  CandidateInv'
  <1>1. ts \in Members /\ ranking \in Nat /\ Whole(ts)
    BY RankingIsNumber DEF CandidateInv, Whole, Good, Typed
  <1>2. i \in Nat /\ Length(ts) > 0
    BY <1>1, SelectableFacts
  <1> DEFINE x == [ts EXCEPT !.selected = i]
  <1>3. Whole(x) /\ IsComposing(x)
    <2>1. IsComposing(ts)
      BY <1>1, <1>2 DEF Whole, Rested
    <2>2. x.input = ts.input
      BY <1>1 DEF Members
    <2> QED BY <1>1, <1>2, <2>1, <2>2, SelectedWhole DEF IsComposing
  <1>4. ts' \in CommitCandidate(x, i) /\ RestUnchanged
    BY DEF Click
  <1> HIDE DEF x
  <1>5. Whole(ts')
    BY <1>1, <1>2, <1>3, <1>4, CommitWhole DEF CandidateInv
  <1> QED BY <1>4, <1>5 DEF CandidateInv, RestUnchanged

LEMMA SpaceInv ==
    ASSUME CandidateInv, Space
    PROVE  CandidateInv'
  <1> DEFINE x == ClampCandidateSelection(ts)
  <1>1. ranking \in Nat /\ Whole(x) /\ IsComposing(x) /\ x.selected \in Nat
    <2>1. Good(ts) /\ IsComposing(ts)
      BY DEF CandidateInv, Whole, Space
    <2>2. x.input = ts.input
      BY <2>1, ClampGood DEF Carried
    <2>3. Whole(x)
      BY ClampWhole DEF CandidateInv
    <2> HIDE DEF x
    <2>4. x.selected \in Nat
      BY <2>3, MemberFacts DEF Whole, Good, Typed
    <2> QED BY <2>1, <2>2, <2>3, <2>4, RankingIsNumber DEF CandidateInv, IsComposing
  <1>2. ts' \in CommitCandidate(x, x.selected) /\ RestUnchanged
    BY DEF Space
  <1> HIDE DEF x
  <1>3. Whole(ts')
    BY <1>1, <1>2, CommitWhole DEF CandidateInv
  <1> QED BY <1>2, <1>3 DEF CandidateInv, RestUnchanged

LEMMA EndInv ==
    ASSUME CandidateInv, End
    PROVE  CandidateInv'
  BY ClearWhole DEF CandidateInv, Whole, Good, End, RestUnchanged

LEMMA SaveSettingsInv ==
    ASSUME CandidateInv, NEW s \in Settings, SaveSettings(s)
    PROVE  CandidateInv'
  BY DEF CandidateInv, SaveSettings

\* Other settings or another session, and the record is dropped.
Dropped(w, settings, session, page) ==
  [w EXCEPT !.page = page, !.selected = 0, !.settings = settings, !.last = NoQuery,
            !.session = session]

LEMMA DroppedGood ==
    ASSUME NEW w, Good(w), NEW settings \in Settings, NEW session, InStep(session), NEW page \in Nat
    PROVE  /\ Good(Dropped(w, settings, session, page))
           /\ Dropped(w, settings, session, page).input = w.input
           /\ Dropped(w, settings, session, page).page = page
           /\ Dropped(w, settings, session, page).last = NoQuery
           /\ Dropped(w, settings, session, page).shown = w.shown
           /\ Dropped(w, settings, session, page).hasNext = w.hasNext
           /\ Dropped(w, settings, session, page).expanded = w.expanded
           /\ Dropped(w, settings, session, page).window = w.window
  <1> DEFINE query == NoQuery
             x == [w EXCEPT !.page = page, !.selected = 0, !.settings = settings, !.last = query,
                            !.session = session]
  <1>1. w \in Members /\ query \in Queries /\ session \in Sessions
    BY SetFacts DEF Good, Typed, InStep
  <1>2. Dropped(w, settings, session, page) = x
    BY DEF Dropped
  <1> HIDE DEF query
  <1>3. /\ x \in Members /\ x.input = w.input /\ x.page = page /\ x.last = query
        /\ x.shown = w.shown /\ x.hasNext = w.hasNext /\ x.expanded = w.expanded
        /\ x.window = w.window /\ x.session = session
    BY <1>1 DEF Members
  <1> HIDE DEF x
  <1>4. Good(x)
    BY <1>3 DEF Good, Typed, Honest, query
  <1> QED BY <1>2, <1>3, <1>4 DEF query

LEMMA DroppedWhole ==
    ASSUME NEW w, Whole(w), ~IsComposing(w), NEW settings \in Settings, NEW session,
           InStep(session)
    PROVE  Whole(Dropped(w, settings, session, 0))
  <1> DEFINE x == Dropped(w, settings, session, 0)
  <1>1. /\ Good(x) /\ x.input = w.input /\ x.page = 0 /\ x.last = NoQuery /\ x.shown = w.shown
        /\ x.hasNext = w.hasNext /\ x.expanded = w.expanded /\ x.window = w.window
    BY DroppedGood DEF Whole
  <1> HIDE DEF x
  <1>2. Whole(x)
    BY <1>1 DEF Whole, Framed, Rested, Length, IsComposing
  <1> QED BY <1>2 DEF x

LEMMA SettingsNoticed ==
    ASSUME CandidateInv, RefreshCandidateWindowVisualSettings
    PROVE  CandidateInv'
  <1> DEFINE x == Dropped(ts, saved, ts.session, 0)
  <1>1. /\ Good(ts) /\ ts \in Members /\ ranking \in Nat /\ saved \in Settings
        /\ InStep(ts.session) /\ Whole(ts)
    BY RankingIsNumber DEF CandidateInv, Whole, Good, Typed
  <1>2. CASE ts.settings = saved
    BY <1>2 DEF CandidateInv, RefreshCandidateWindowVisualSettings
  <1>3. CASE ts.settings # saved /\ IsComposing(ts)
    <2>1. [ToFirst(ts) EXCEPT !.settings = saved, !.last = NoQuery] = x
      BY <1>1 DEF ToFirst, Dropped, Members
    <2>2. ts' \in Refreshed(x) /\ UNCHANGED <<saved, restarting, ranking>> /\ notice' = FALSE
      BY <1>3, <2>1 DEF RefreshCandidateWindowVisualSettings
    <2>3. Good(x) /\ IsComposing(x)
      BY <1>1, <1>3, DroppedGood DEF IsComposing
    <2> HIDE DEF x
    <2>4. Whole(ts')
      BY <1>1, <2>2, <2>3, RefreshedWhole
    <2> QED BY <2>2, <2>4 DEF CandidateInv
  <1>4. CASE ts.settings # saved /\ ~IsComposing(ts)
    <2> DEFINE query == NoQuery
               y == [ts EXCEPT !.settings = saved, !.last = query]
    <2>1. query \in Queries
      BY SetFacts
    <2>2. ts' = y /\ UNCHANGED <<saved, restarting, ranking>> /\ notice' = FALSE
      BY <1>4 DEF RefreshCandidateWindowVisualSettings
    <2> HIDE DEF query
    <2>3. /\ y \in Members /\ y.input = ts.input /\ y.page = ts.page /\ y.last = query
          /\ y.shown = ts.shown /\ y.hasNext = ts.hasNext /\ y.expanded = ts.expanded
          /\ y.window = ts.window /\ y.session = ts.session
      BY <1>1, <2>1 DEF Members
    <2> HIDE DEF y
    <2>4. Good(y)
      BY <1>1, <2>3 DEF Good, Typed, Honest, query
    <2>5. Whole(y)
      BY <1>1, <1>4, <2>3, <2>4 DEF Whole, Framed, Rested, Length, IsComposing, query
    <2> QED BY <2>2, <2>5 DEF CandidateInv
  <1> QED BY <1>2, <1>3, <1>4

LEMMA ChooseLayoutInv ==
    ASSUME CandidateInv, NEW h \in BOOLEAN, ChooseLayout(h)
    PROVE  CandidateInv'
  <1> DEFINE settings == [ts.settings EXCEPT !.horizontal = h]
             x == [ts EXCEPT !.settings = settings]
  <1>1. /\ Good(ts) /\ ts \in Members /\ ranking \in Nat /\ saved \in Settings
        /\ ts.settings \in Settings /\ Whole(ts)
    BY RankingIsNumber, MemberFacts DEF CandidateInv, Whole, Good, Typed
  <1>2. settings \in Settings /\ saved' \in Settings
    <2>1. saved' = saved \/ saved' = [saved EXCEPT !.horizontal = h]
      BY DEF ChooseLayout
    <2> QED BY <1>1, <2>1 DEF Settings
  <1>3. [ts EXCEPT !.settings.horizontal = h] = x
    OBVIOUS
  <1>4. ts' \in ShowWithSettings(x, saved') /\ UNCHANGED <<notice, restarting, ranking>>
    BY <1>3 DEF ChooseLayout
  <1> HIDE DEF settings
  <1>5. /\ x \in Members /\ x.input = ts.input /\ x.page = ts.page /\ x.last = ts.last
        /\ x.shown = ts.shown /\ x.hasNext = ts.hasNext /\ x.expanded = ts.expanded
        /\ x.window = ts.window /\ x.session = ts.session
    BY <1>1, <1>2 DEF Members
  <1> HIDE DEF x
  <1>6. Good(x)
    BY <1>1, <1>5, HonestKept DEF Good, Typed
  <1>7. Whole(x)
    BY <1>1, <1>5, <1>6 DEF Whole, Framed, Rested, Length, IsComposing
  <1>8. Whole(ts')
    <2>1. CASE ~IsComposing(x)
      BY <1>4, <1>7, <2>1 DEF ShowWithSettings
    <2>2. CASE IsComposing(x)
      <3>1. Good(ts') /\ Carried(ts', x) /\ ts'.window \in Monitors
        BY <1>1, <1>2, <1>4, <1>6, <2>2, ShowGood
      <3> QED BY <2>2, <3>1, MonitorFacts DEF Whole, Framed, Rested, Carried, IsComposing
    <2> QED BY <2>1, <2>2
  <1> QED BY <1>2, <1>4, <1>8 DEF CandidateInv

LEMMA ChangeCharsetInv ==
    ASSUME CandidateInv, ChangeCharset
    PROVE  CandidateInv'
  <1> DEFINE session == IF ts.ready THEN Cleared ELSE ts.session
             x == Dropped(ts, ts.settings, session, 0)
  <1>1. /\ Good(ts) /\ ts \in Members /\ ranking \in Nat /\ ts.settings \in Settings
        /\ InStep(session) /\ Whole(ts)
    BY RankingIsNumber, MemberFacts, ClearedInStep DEF CandidateInv, Whole, Good, Typed
  <1>2. [ToFirst(ts) EXCEPT !.last = NoQuery, !.session = IF ts.ready THEN Cleared ELSE @] = x
    <2>1. ToFirst(ts) \in Members /\ ToFirst(ts).session = ts.session
      BY <1>1 DEF ToFirst, Members
    <2>2. [ToFirst(ts) EXCEPT !.last = NoQuery, !.session = IF ts.ready THEN Cleared ELSE @]
            = [ToFirst(ts) EXCEPT !.last = NoQuery, !.session = session]
      BY <2>1
    <2> HIDE DEF session
    <2>3. [ToFirst(ts) EXCEPT !.last = NoQuery, !.session = session] = x
      BY <1>1 DEF ToFirst, Dropped, Members
    <2> QED BY <2>2, <2>3
  <1> HIDE DEF session
  <1>3. ts' \in (IF IsComposing(ts) THEN Refreshed(x) ELSE {x}) /\ RestUnchanged
    BY <1>2 DEF ChangeCharset
  <1>4. Whole(ts')
    <2>1. CASE IsComposing(ts)
      <3>1. Good(x) /\ IsComposing(x)
        BY <1>1, <2>1, DroppedGood DEF IsComposing
      <3> HIDE DEF x
      <3> QED BY <1>1, <1>3, <2>1, <3>1, RefreshedWhole DEF CandidateInv
    <2>2. CASE ~IsComposing(ts)
      BY <1>1, <1>3, <2>2, DroppedWhole
    <2> QED BY <2>1, <2>2
  <1> QED BY <1>3, <1>4 DEF CandidateInv, RestUnchanged

LEMMA RedrawInv ==
    ASSUME CandidateInv, Redraw
    PROVE  CandidateInv'
  <1>1. Whole(ts')
    BY RankingIsNumber, ShownWhole DEF CandidateInv, Whole, Redraw
  <1> QED BY <1>1 DEF CandidateInv, Redraw, RestUnchanged

LEMMA RestartInv ==
    ASSUME CandidateInv, RestartRimeAndAlgorithmServiceAsync
    PROVE  CandidateInv'
  <1> DEFINE x == ClearCompositionState(ts)
             y == [x EXCEPT !.window = NoMonitor]
  <1>1. Whole(x)
    BY ClearWhole DEF CandidateInv, Whole, Good
  <1>2. x.input = <<>>
    <2>1. ts \in Members
      BY DEF CandidateInv, Whole, Good, Typed
    <2> QED BY <2>1 DEF ClearCompositionState, Members
  <1>3. ts' = y /\ restarting' = TRUE /\ UNCHANGED <<saved, notice, ranking>>
    BY DEF RestartRimeAndAlgorithmServiceAsync
  <1> HIDE DEF x
  <1>4. x \in Members
    BY <1>1 DEF Whole, Good, Typed
  <1>5. /\ y \in Members /\ y.input = x.input /\ y.page = x.page /\ y.last = x.last
        /\ y.shown = x.shown /\ y.hasNext = x.hasNext /\ y.expanded = x.expanded
        /\ y.session = x.session
    BY <1>4 DEF Members
  <1> HIDE DEF y
  <1>6. Good(y)
    BY <1>1, <1>5, HonestKept DEF Whole, Good, Typed
  <1>7. Whole(y)
    BY <1>1, <1>2, <1>5, <1>6 DEF Whole, Framed, Rested, Length, IsComposing
  <1> QED BY <1>3, <1>7 DEF CandidateInv

LEMMA ReloadInv ==
    ASSUME CandidateInv, ReloadRimeAndAlgorithmService
    PROVE  CandidateInv'
  <1>1. PICK ok \in BOOLEAN : ts' = Restarted(ts, ok)
    BY DEF ReloadRimeAndAlgorithmService, Restarted
  <1>2. Whole(ts')
    BY <1>1, RestartedWhole DEF CandidateInv
  <1> QED BY <1>2 DEF CandidateInv, ReloadRimeAndAlgorithmService

LEMMA WarmUpInv ==
    ASSUME CandidateInv, WarmUp
    PROVE  CandidateInv'
  <1>1. ts' = Restarted(ts, TRUE) /\ TRUE \in BOOLEAN
    BY DEF WarmUp, Restarted
  <1>2. Whole(ts')
    BY <1>1, RestartedWhole DEF CandidateInv
  <1> QED BY <1>2 DEF CandidateInv, WarmUp, RestUnchanged

\* Only the session changes.
Shared(w, session) == [w EXCEPT !.session = session]

LEMMA SharedWhole ==
    ASSUME NEW w, Whole(w), NEW session, InStep(session)
    PROVE  Whole(Shared(w, session))
  <1> DEFINE x == Shared(w, session)
  <1>1. w \in Members /\ session \in Sessions
    BY DEF Whole, Good, Typed, InStep
  <1>2. /\ x \in Members /\ x.input = w.input /\ x.page = w.page /\ x.last = w.last
        /\ x.shown = w.shown /\ x.hasNext = w.hasNext /\ x.expanded = w.expanded
        /\ x.window = w.window /\ x.session = session
    BY <1>1 DEF Members, Shared
  <1> HIDE DEF x
  <1>3. Good(x)
    BY <1>2, HonestKept DEF Whole, Good, Typed
  <1>4. Whole(x)
    BY <1>2, <1>3 DEF Whole, Framed, Rested, Length, IsComposing
  <1> QED BY <1>4 DEF x

LEMMA AnotherServiceInv ==
    ASSUME CandidateInv, AnotherService
    PROVE  CandidateInv'
  <1>1. PICK l \in Letters, size \in Counts :
          /\ \/ /\ \E k \in 0..1 : ts' = [ts EXCEPT !.session =
                                      GetCandidatePage(@, <<l>>, k, size, ranking).s]
                /\ ranking' = ranking
             \/ /\ ts' = [ts EXCEPT !.session = SelectCandidate(@, <<l>>, 0, size, 0, ranking).s]
                /\ ranking' \in Rankings
          /\ UNCHANGED <<saved, notice, restarting>>
    BY DEF AnotherService
  <1> DEFINE n == <<l>>
             s == ts.session
  <1>2. n \in Inputs /\ size \in Nat \ {0} /\ InStep(s) /\ Whole(ts)
    BY CandidateAssumption DEF Inputs, CandidateInv, Whole, Good, Typed
  <1> HIDE DEF n, s
  <1>3. CASE /\ \E k \in 0..1 : ts' = [ts EXCEPT !.session =
                                    GetCandidatePage(@, <<l>>, k, size, ranking).s]
             /\ ranking' = ranking
    <2>1. PICK k \in 0..1 : ts' = Shared(ts, GetCandidatePage(s, n, k, size, ranking).s)
      BY <1>3 DEF Shared, s, n
    <2>2. k \in Nat
      OBVIOUS
    <2>3. InStep(GetCandidatePage(s, n, k, size, ranking).s)
      BY <1>2, <2>2, PageIsGiven
    <2>4. Whole(ts')
      BY <1>2, <2>1, <2>3, SharedWhole
    <2> QED BY <1>1, <1>3, <2>4 DEF CandidateInv
  <1>4. CASE /\ ts' = [ts EXCEPT !.session = SelectCandidate(@, <<l>>, 0, size, 0, ranking).s]
             /\ ranking' \in Rankings
    <2>1. ts' = Shared(ts, SelectCandidate(s, n, 0, size, 0, ranking).s)
      BY <1>4 DEF Shared, s, n
    <2>2. 0 \in Nat
      OBVIOUS
    <2>3. InStep(SelectCandidate(s, n, 0, size, 0, ranking).s)
      BY <1>2, <2>2, ChoiceFacts
    <2>4. Whole(ts')
      BY <1>2, <2>1, <2>3, SharedWhole
    <2> QED BY <1>1, <1>4, <2>4 DEF CandidateInv
  <1> QED BY <1>1, <1>3, <1>4

LEMMA CandidateInitially == CandidateInit => CandidateInv
  <1> SUFFICES ASSUME CandidateInit
               PROVE  CandidateInv
    OBVIOUS
  <1> DEFINE none == NoCandidates
             query == NoQuery
             session == Cleared
             input == <<>>
             w == [input |-> input, page |-> 0, selected |-> 0, expanded |-> FALSE,
                   settings |-> saved, shown |-> none, hasPrevious |-> FALSE, hasNext |-> FALSE,
                   last |-> query, window |-> NoMonitor, ready |-> FALSE, session |-> session]
  <1>1. /\ none \in Shown /\ query \in Queries /\ session \in Sessions /\ InStep(session)
        /\ none.items = <<>> /\ input \in Seq(Letters) /\ Len(input) = 0 /\ saved \in Settings
    BY SetFacts, ClearedInStep DEF CandidateInit
  <1>2. ts = w
    BY DEF CandidateInit
  <1> HIDE DEF none, query, session, input
  <1>3. /\ w \in Members /\ w.input = input /\ w.page = 0 /\ w.shown = none /\ ~w.expanded
        /\ ~w.hasNext /\ w.last = query /\ w.session = session
    BY <1>1 DEF Members
  <1> HIDE DEF w
  <1>4. w.last = NoQuery /\ Length(w) = 0 /\ Len(w.input) <= MaxInput
    BY <1>1, <1>3, CandidateAssumption DEF Length, query
  <1>5. Good(w)
    BY <1>1, <1>3, <1>4 DEF Good, Typed, Honest
  <1>6. Whole(w)
    BY <1>3, <1>4, <1>5 DEF Whole, Framed, Rested
  <1> QED BY <1>1, <1>2, <1>6 DEF CandidateInv, CandidateInit

LEMMA CandidateSteps == CandidateInv /\ [CandidateNext]_candidateVars => CandidateInv'
  <1> SUFFICES ASSUME CandidateInv, [CandidateNext]_candidateVars
               PROVE  CandidateInv'
    OBVIOUS
  <1>1. CASE \E l \in Letters : Letter(l)
    BY <1>1, LetterInv
  <1>2. CASE Backspace
    BY <1>2, BackspaceInv
  <1>3. CASE ToggleExpansion
    BY <1>3, ToggleExpansionInv
  <1>4. CASE Space
    BY <1>4, SpaceInv
  <1>5. CASE End
    BY <1>5, EndInv
  <1>6. CASE \E delta \in {-1, 1} : ChangeCandidatePage(delta)
    BY <1>6, ChangeCandidatePageInv
  <1>7. CASE \E key \in {"left", "right", "up", "down"} : Arrow(key)
    BY <1>7, ArrowInv
  <1>8. CASE \E d \in 1..RowLength : Digit(d)
    BY <1>8, DigitInv
  <1>9. CASE \E i \in Selectable(ts) : Click(i)
    BY <1>9, ClickInv
  <1>10. CASE \E s \in Settings : SaveSettings(s)
    BY <1>10, SaveSettingsInv
  <1>11. CASE RefreshCandidateWindowVisualSettings
    BY <1>11, SettingsNoticed
  <1>12. CASE \E h \in BOOLEAN : ChooseLayout(h)
    BY <1>12, ChooseLayoutInv
  <1>13. CASE ChangeCharset
    BY <1>13, ChangeCharsetInv
  <1>14. CASE Redraw
    BY <1>14, RedrawInv
  <1>15. CASE RestartRimeAndAlgorithmServiceAsync
    BY <1>15, RestartInv
  <1>16. CASE ReloadRimeAndAlgorithmService
    BY <1>16, ReloadInv
  <1>17. CASE WarmUp
    BY <1>17, WarmUpInv
  <1>18. CASE AnotherService
    BY <1>18, AnotherServiceInv
  <1>19. CASE UNCHANGED candidateVars
    BY <1>19 DEF candidateVars, CandidateInv
  <1> QED
    BY <1>1, <1>2, <1>3, <1>4, <1>5, <1>6, <1>7, <1>8, <1>9, <1>10, <1>11, <1>12, <1>13, <1>14,
       <1>15, <1>16, <1>17, <1>18, <1>19 DEF CandidateNext

LEMMA CandidateInvariance == CandidateSpec => []CandidateInv
  BY CandidateInitially, CandidateSteps, PTL DEF CandidateSpec

-----------------------------------------------------------------------------
(* The theorems.                                                           *)

\* The state of the text service has its type in every reachable state; when
\* nothing is composed, no page, record, expansion or candidate is left
\* (ClearCompositionState and all that call it).
THEOREM CandidateTypeCorrect == CandidateSpec => []CandidateTypeOK
  <1>1. CandidateInv => CandidateTypeOK
    <2> SUFFICES ASSUME CandidateInv
                 PROVE  CandidateTypeOK
      OBVIOUS
    <2>1. ts \in Members /\ Len(ts.input) <= MaxInput
      BY DEF CandidateInv, Whole, Good, Typed
    <2>2. {ts.expanded, ts.hasPrevious, ts.hasNext, ts.ready, notice, restarting} \subseteq BOOLEAN
      BY <2>1, MemberFacts DEF CandidateInv
    <2> QED BY <2>1, <2>2, MemberFacts
            DEF CandidateTypeOK, CandidateInv, Whole, Framed, Rested
  <1> QED BY <1>1, CandidateInvariance, PTL

\* The record is of the input and the page in view, with a size.
LEMMA RecordFacts ==
    ASSUME CandidateInv, OnRecord(ts)
    PROVE  /\ ts \in Members /\ ts.input \in Inputs /\ ts.page \in Nat
           /\ ts.last.size \in Nat \ {0} /\ InStep(ts.session)
           /\ InView(ts, ts.input, ts.page, ts.last.size)
  <1>1. ts.last # NoQuery
    BY DEF OnRecord, NoQuery
  <1> QED BY <1>1 DEF CandidateInv, Whole, Good, Typed, Honest, OnRecord

\* The candidates in view are the page on record of the menu of the input, for
\* any number of letters, candidates, monitors and settings, and whoever used
\* the session in between (GetCandidatePageForInput, RefreshCandidates).
THEOREM RecordHonestCorrect == CandidateSpec => []RecordHonest
  <1>1. CandidateInv => RecordHonest
    BY RecordFacts DEF RecordHonest, InView
  <1> QED BY <1>1, CandidateInvariance, PTL

\* What is chosen is what is seen (SelectCandidateForInput,
\* effective_page_size): a candidate with a place in the window is the one the
\* engine finds at its index, on every page of every size.
THEOREM ChoiceIsShownCorrect == CandidateSpec => []ChoiceIsShown
  <1>1. CandidateInv => ChoiceIsShown
    <2> SUFFICES ASSUME CandidateInv, OnRecord(ts), ts.shown.by = ranking, NEW i \in Selectable(ts)
                 PROVE  Choice(ts, i).candidate = ts.shown.items[i + 1]
      BY DEF ChoiceIsShown
    <2> DEFINE n == ts.input
               k == ts.page
               size == ts.last.size
               r == ranking
               s == ts.session
               items == ts.shown.items
               R == Reachable(n, r)
               a == k * size
               p == a + i + 1
               b == MaxWalk * RimePage
    <2>1. /\ ts \in Members /\ n \in Inputs /\ k \in Nat /\ size \in Nat \ {0}
          /\ InView(ts, n, k, size) /\ i \in Nat /\ i < Length(ts) /\ Length(ts) \in Nat
      BY RecordFacts, SelectableFacts, LengthFacts
    <2>2. items = Slice(R, a, size) /\ Len(items) = Length(ts)
      BY <2>1 DEF InView, Length
    <2>3. Choice(ts, i) = SelectCandidate(s, n, k, size, i, r)
      BY DEF Choice, EffectivePageSize
    <2>4. a \in Nat /\ b \in Nat /\ Size(n) \in Nat
      <3>1. size \in Nat
        BY <2>1
      <3>2. Size(n) \in Nat
        <4> HIDE DEF n
        <4> QED BY <2>1, InputFacts
      <3>3. b \in Nat
        BY CandidateAssumption
      <3>4. a \in Nat
        <4> HIDE DEF k, size
        <4> QED BY <2>1, <3>1
      <3> QED BY <3>2, <3>3, <3>4
    <2>5. /\ R \in Seq(Nat) /\ Len(R) = End2(b, Size(n)) /\ Len(R) \in Nat
          /\ \A q \in 1..Len(R) : R[q] = Menu(n, r)[q]
      BY <2>1, ReachableFacts
    <2>6. Part(Slice(R, a, size), R, a, End2(a + size, Len(R)))
      <3> HIDE DEF a, n, r, size
      <3>1. size \in Nat
        BY <2>1
      <3> QED BY <2>1, <2>4, <3>1, SliceFacts
    <2> HIDE DEF n, k, size, r, s, items, R, a, p, b
    <2>7. Part(items, R, a, End2(a + size, Len(R)))
      BY <2>2, <2>6
    <2>8. i + 1 \in 1..Len(items) /\ a + i + 1 <= Len(R)
      <3>1. Len(items) = IF a < End2(a + size, Len(R)) THEN End2(a + size, Len(R)) - a ELSE 0
        BY <2>7 DEF Part
      <3> DEFINE to == End2(a + size, Len(R))
      <3>2. to \in Nat /\ to <= Len(R)
        BY <2>1, <2>4, <2>5 DEF End2
      <3>3. Len(items) \in Nat /\ i < Len(items)
        BY <2>1, <2>2
      <3> HIDE DEF to
      <3>4. Len(items) = to - a
        BY <2>1, <2>4, <3>1, <3>2, <3>3 DEF to
      <3> QED BY <2>1, <2>4, <2>5, <3>2, <3>3, <3>4
    <2>9. items[i + 1] = R[a + (i + 1)]
      BY <2>7, <2>8 DEF Part
    <2>10. a + (i + 1) = p /\ p \in 1..Len(R) /\ p <= Size(n) /\ p <= b
      <3>1. Len(R) <= Size(n) /\ Len(R) <= b
        BY <2>4, <2>5 DEF End2
      <3>2. a + (i + 1) = p /\ p \in Nat /\ p >= 1
        BY <2>1, <2>4 DEF p
      <3>3. a + (i + 1) <= Len(R)
        BY <2>1, <2>4, <2>5, <2>8
      <3>4. p <= Len(R)
        BY <3>2, <3>3
      <3> QED BY <2>4, <2>5, <3>1, <3>2, <3>4
    <2>11. items[i + 1] = Menu(n, r)[p]
      BY <2>5, <2>9, <2>10
    <2>12. SelectCandidate(s, n, k, size, i, r).candidate = Menu(n, r)[p]
      BY <2>10 DEF SelectCandidate, p, a, b
    <2> QED BY <2>3, <2>11, <2>12 DEF items
  <1> QED BY <1>1, CandidateInvariance, PTL

\* The next page of one that was not cut off has candidates, wherever one
\* request reaches (has_next_candidate_page_).
THEOREM NextPageHoldsCorrect == CandidateSpec => []NextPageHolds
  <1>1. CandidateInv => NextPageHolds
    <2> DEFINE n == ts.input
               k == ts.page
               size == CandidatePageSizeLimit(ts)
               s == ts.session
    <2> SUFFICES ASSUME CandidateInv, OnRecord(ts), ts.last.size = size, ts.hasNext,
                        (k + 1) * size < MaxWalk * RimePage
                 PROVE  GetCandidatePage(s, n, k + 1, size, ranking).items # <<>>
      BY DEF NextPageHolds
    <2>1. /\ n \in Inputs /\ k \in Nat /\ size \in Nat \ {0} /\ InStep(s)
          /\ InView(ts, n, k, size)
      BY RecordFacts
    <2> DEFINE R == Reachable(n, ranking)
               a == (k + 1) * size
               b == MaxWalk * RimePage
               t == Slice(R, a, size)
    <2>2. a < Size(n) /\ a < b
      BY <2>1 DEF InView
    <2>3. k + 1 \in Nat /\ a \in Nat /\ b \in Nat /\ Size(n) \in Nat
      <3>1. k + 1 \in Nat /\ size \in Nat
        BY <2>1
      <3>2. Size(n) \in Nat
        <4> HIDE DEF n
        <4> QED BY <2>1, InputFacts
      <3>3. b \in Nat
        BY CandidateAssumption
      <3>4. a \in Nat
        <4> DEFINE next == k + 1
        <4> HIDE DEF next, size
        <4>1. next * size \in Nat
          BY <3>1 DEF next
        <4> QED BY <4>1 DEF next
      <3> QED BY <3>1, <3>2, <3>3, <3>4
    <2>4. Len(R) = End2(b, Size(n)) /\ Len(R) \in Nat
      BY <2>1, ReachableFacts
    <2> HIDE DEF n, k, size, s
    <2>5. GetCandidatePage(s, n, k + 1, size, ranking).items = t
      BY <2>1, <2>3, PageIsGiven
    <2> HIDE DEF a, b
    <2>6. Part(t, R, a, End2(a + size, Len(R)))
      <3>1. size \in Nat
        BY <2>1
      <3> QED BY <2>1, <2>3, <3>1, SliceFacts
    <2> HIDE DEF t, R
    <2>7. Len(t) = IF a < End2(a + size, Len(R)) THEN End2(a + size, Len(R)) - a ELSE 0
      BY <2>6 DEF Part
    <2>8. Len(t) # 0
      BY <2>1, <2>2, <2>3, <2>4, <2>7 DEF End2
    <2>9. t # <<>>
      BY <2>8
    <2> QED BY <2>5, <2>9
  <1> QED BY <1>1, CandidateInvariance, PTL

\* No two candidates stand at the same place.
LEMMA PlaceIsOwn ==
    ASSUME NEW w \in Members, w.window # NoMonitor, NEW i \in Selectable(w), NEW j \in Selectable(w),
           Line(w, i) = Line(w, j), Place(w, i) = Place(w, j)
    PROVE  i = j
  <1> DEFINE F == FirstRow(w)
             T == w.window.tail
             a == i - F
             b == j - F
  <1>1. i \in Nat /\ j \in Nat /\ Length(w) > 0
    BY SelectableFacts
  <1>2. F \in Nat \ {0} /\ T \in Nat \ {0}
    BY <1>1, FirstRowFacts, MemberFacts, MonitorFacts, CandidateAssumption
  <1>3. /\ Line(w, i) = (IF i < F THEN 0 ELSE 1 + a \div T)
        /\ Place(w, i) = (IF i < F THEN i ELSE a % T)
        /\ Line(w, j) = (IF j < F THEN 0 ELSE 1 + b \div T)
        /\ Place(w, j) = (IF j < F THEN j ELSE b % T)
    BY DEF Line, Place
  <1>4. a \in Int /\ b \in Int /\ i = F + a /\ j = F + b
    BY <1>1, <1>2
  <1> HIDE DEF F, T, a, b
  <1>5. ASSUME NEW c \in Nat
        PROVE  c \div T \in Nat /\ c % T \in 0..T - 1 /\ c = T * (c \div T) + (c % T)
    BY <1>2, DivMod
  <1>6. CASE i < F /\ j < F
    BY <1>3, <1>6
  <1>7. CASE ~ (i < F) /\ ~ (j < F)
    <2>1. a \in Nat /\ b \in Nat
      BY <1>1, <1>2, <1>4, <1>7
    <2>2. a \div T \in Nat /\ b \div T \in Nat
      BY <1>5, <2>1
    <2>3. 1 + (a \div T) = 1 + (b \div T) /\ a % T = b % T
      BY <1>3, <1>7
    <2>4. a \div T = b \div T
      BY <2>2, <2>3
    <2>5. a = T * (a \div T) + (a % T) /\ b = T * (b \div T) + (b % T)
      BY <1>5, <2>1
    <2>6. a = b
      BY <2>3, <2>4, <2>5
    <2> QED BY <1>4, <2>6
  <1>8. CASE i < F /\ ~ (j < F)
    <2>1. b \in Nat
      BY <1>1, <1>2, <1>4, <1>8
    <2>2. b \div T \in Nat /\ 0 = 1 + (b \div T)
      BY <1>3, <1>5, <1>8, <2>1
    <2> QED BY <2>2
  <1>9. CASE ~ (i < F) /\ j < F
    <2>1. a \in Nat
      BY <1>1, <1>2, <1>4, <1>9
    <2>2. a \div T \in Nat /\ 1 + (a \div T) = 0
      BY <1>3, <1>5, <1>9, <2>1
    <2> QED BY <2>2
  <1> QED BY <1>6, <1>7, <1>8, <1>9

LEMMA SmallModulo ==
    ASSUME NEW a \in Nat, NEW b \in Nat, a < b
    PROVE  a % b = a
  <1> DEFINE q == a \div b
             m == a % b
  <1>1. q \in Nat /\ m \in 0..b - 1 /\ a = b * q + m
    <2>1. b \in Nat \ {0}
      OBVIOUS
    <2>2. a \div b \in Nat /\ a % b \in 0..b - 1 /\ a = b * (a \div b) + (a % b)
      BY <2>1, DivMod
    <2> QED BY <2>2
  <1> HIDE DEF q, m
  <1>2. q = 0
    <2>1. CASE q >= 1
      <3>1. b * (q - 1) >= 0
        BY <1>1, <2>1
      <3>2. b * q = b * (q - 1) + b
        BY <1>1
      <3>3. b * q \in Int /\ b * (q - 1) \in Int
        BY <1>1
      <3> QED BY <1>1, <3>1, <3>2, <3>3
    <2> QED BY <1>1, <2>1
  <1>3. a = m
    BY <1>1, <1>2
  <1> QED BY <1>3 DEF m

\* The number drawn before a candidate of the line with the selection is the
\* digit that takes it, for rows and columns of any length
\* (RenderCandidateLayeredWindow, CandidateIndexForDigit).
THEOREM DigitsAsDrawnCorrect == CandidateSpec => []DigitsAsDrawn
  <1>1. CandidateInv => DigitsAsDrawn
    <2> SUFFICES ASSUME CandidateInv, NEW i \in Selectable(ts),
                        ~ts.expanded \/ Line(ts, i) = Line(ts, ClampCandidateSelection(ts).selected)
                 PROVE  CandidateIndexForDigit(ts, DrawnNumber(ts, i)) = i
      BY DEF DigitsAsDrawn
    <2>1. /\ ts \in Members /\ i \in Nat /\ Length(ts) > 0 /\ Length(ts) # 0
          /\ ts.window # NoMonitor
      <3>1. ts \in Members
        BY DEF CandidateInv, Whole, Good, Typed
      <3>2. i \in Nat /\ Length(ts) > 0 /\ Length(ts) \in Nat
        BY <3>1, SelectableFacts, LengthFacts
      <3> QED BY <3>1, <3>2 DEF CandidateInv, Whole, Framed
    <2>2. CASE ~ts.expanded
      <3>1. VisibleCandidateCount(ts) = FirstRow(ts)
        BY <2>1, <2>2 DEF VisibleCandidateCount
      <3>2. i < RowLength /\ RowLength \in Nat
        BY <2>1, <3>1, FirstRowFacts, CandidateAssumption DEF Selectable
      <3>3. i % RowLength = i
        BY <2>1, <3>2, SmallModulo
      <3>4. DrawnNumber(ts, i) = 1 + i /\ (1 + i) - 1 = i
        BY <2>1, <2>2, <3>3 DEF DrawnNumber
      <3> QED BY <2>2, <3>4 DEF CandidateIndexForDigit
    <2>3. CASE ts.expanded
      <3> DEFINE l == Line(ts, ClampCandidateSelection(ts).selected)
                 d == DrawnNumber(ts, i)
                 there == {j \in InLine(ts, l) : Place(ts, j) = d - 1}
      <3>1. Place(ts, i) \in Nat
        BY <2>1, PlaceFacts
      <3>2. d - 1 = Place(ts, i)
        BY <2>3, <3>1 DEF DrawnNumber
      <3>3. i \in there
        BY <2>3, <3>2 DEF InLine
      <3>4. ASSUME NEW j \in there
            PROVE  j = i
        <4>1. j \in Selectable(ts) /\ Line(ts, j) = l /\ Place(ts, j) = Place(ts, i)
          BY <3>2 DEF InLine
        <4>2. Line(ts, i) = l
          BY <2>3
        <4> QED BY <2>1, <4>1, <4>2, PlaceIsOwn
      <3>5. CandidateIndexForDigit(ts, d)
              = IF there = {} THEN Length(ts) ELSE CHOOSE j \in there : TRUE
        BY <2>3 DEF CandidateIndexForDigit
      <3> HIDE DEF there
      <3> QED BY <3>3, <3>4, <3>5
    <2> QED BY <2>2, <2>3, <2>1, MemberFacts
  <1> QED BY <1>1, CandidateInvariance, PTL

-----------------------------------------------------------------------------
(* The arrow keys.                                                         *)

LEMMA DivUnique ==
    ASSUME NEW a \in Nat, NEW b \in Nat \ {0}, NEW q \in Nat, NEW m \in 0..b - 1, a = b * q + m
    PROVE  a \div b = q /\ a % b = m
  <1> DEFINE u == a \div b
             v == a % b
  <1>1. u \in Nat /\ v \in 0..b - 1 /\ a = b * u + v
    BY DivMod
  <1> HIDE DEF u, v
  <1>2. /\ b * (u - q) = b * u - b * q /\ b * (q - u) = b * q - b * u
        /\ b * u \in Int /\ b * q \in Int
    BY <1>1
  <1>3. ~ (u > q)
    <2> SUFFICES ASSUME u > q PROVE FALSE
      OBVIOUS
    <2>1. b * (u - q) >= b
      <3>1. b * (u - q - 1) >= 0
        BY <1>1
      <3>2. b * (u - q) = b * (u - q - 1) + b /\ b * (u - q - 1) \in Int
        BY <1>1
      <3> QED BY <3>1, <3>2
    <2> QED BY <1>1, <1>2, <2>1
  <1>4. ~ (q > u)
    <2> SUFFICES ASSUME q > u PROVE FALSE
      OBVIOUS
    <2>1. b * (q - u) >= b
      <3>1. b * (q - u - 1) >= 0
        BY <1>1
      <3>2. b * (q - u) = b * (q - u - 1) + b /\ b * (q - u - 1) \in Int
        BY <1>1
      <3> QED BY <3>1, <3>2
    <2> QED BY <1>1, <1>2, <2>1
  <1>5. u = q
    BY <1>1, <1>3, <1>4
  <1>6. v = m
    BY <1>1, <1>2, <1>5
  <1> QED BY <1>5, <1>6 DEF u, v

\* A candidate of the expanded window follows another in its line, or it is
\* the first of its line and stands beside the first of the line before.
LEMMA Neighbours ==
    ASSUME NEW w \in Members, w.window # NoMonitor, NEW m \in Nat, m + 1 \in Selectable(w)
    PROVE  \/ Line(w, m) = Line(w, m + 1) /\ Place(w, m) + 1 = Place(w, m + 1)
           \/ \E j \in Nat : j <= m /\ Line(w, j) + 1 = Line(w, m + 1)
                                    /\ Place(w, j) = Place(w, m + 1)
  <1> DEFINE F == FirstRow(w)
             T == w.window.tail
  <1>1. Length(w) > 0
    BY SelectableFacts
  <1>2. F \in Nat \ {0} /\ T \in Nat \ {0}
    BY <1>1, FirstRowFacts, MemberFacts, MonitorFacts, CandidateAssumption
  <1>3. ASSUME NEW i \in Nat
        PROVE  /\ Line(w, i) = (IF i < F THEN 0 ELSE 1 + ((i - F) \div T))
               /\ Place(w, i) = (IF i < F THEN i ELSE (i - F) % T)
    BY DEF Line, Place
  <1> HIDE DEF F, T
  <1>4. CASE m + 1 < F
    <2>1. m < F
      BY <1>2, <1>4
    <2> QED BY <1>3, <1>4, <2>1
  <1>5. CASE m + 1 = F
    <2>1. (m + 1) - F = 0 /\ ~ (m + 1 < F) /\ 0 < F
      BY <1>2, <1>5
    <2>2. 0 \div T = 0 /\ 0 % T = 0
      <3>1. 0 = T * 0 + 0 /\ 0 \in 0..T - 1
        BY <1>2
      <3> QED BY <1>2, <3>1, DivUnique
    <2>3. Line(w, m + 1) = 1 + (0 \div T) /\ Place(w, m + 1) = 0 % T
      BY <1>3, <2>1
    <2>4. Line(w, 0) = 0 /\ Place(w, 0) = 0
      BY <1>3, <2>1
    <2> QED BY <2>2, <2>3, <2>4
  <1>6. CASE m + 1 > F
    <2> DEFINE a == (m + 1) - F
               q == a \div T
               v == a % T
    <2>1. a \in Nat \ {0} /\ a - 1 = m - F /\ ~ (m + 1 < F) /\ ~ (m < F) /\ m + 1 = F + a
      BY <1>2, <1>6
    <2>2. Line(w, m + 1) = 1 + q /\ Place(w, m + 1) = v
      BY <1>3, <2>1
    <2>3. Line(w, m) = 1 + ((a - 1) \div T) /\ Place(w, m) = (a - 1) % T
      BY <1>3, <2>1
    <2> HIDE DEF a
    <2>4. q \in Nat /\ v \in 0..T - 1 /\ a = T * q + v
      BY <1>2, <2>1, DivMod
    <2> HIDE DEF q, v
    <2>5. T * q \in Int /\ T * (q - 1) \in Int /\ T * q = T * (q - 1) + T
      BY <1>2, <2>4
    <2>6. CASE v # 0
      <3>1. a - 1 = T * q + (v - 1) /\ a - 1 \in Nat /\ v - 1 \in 0..T - 1
        BY <1>2, <2>1, <2>4, <2>5, <2>6
      <3>2. (a - 1) \div T = q /\ (a - 1) % T = v - 1
        BY <1>2, <2>4, <3>1, DivUnique
      <3> QED BY <2>2, <2>3, <2>4, <3>2
    <2>7. CASE v = 0
      <3>1. q # 0
        BY <1>2, <2>1, <2>4, <2>7
      <3>2. T * (q - 1) >= 0
        BY <1>2, <2>4, <3>1
      <3>3. /\ a - T = T * (q - 1) + 0 /\ a - T \in Nat /\ q - 1 \in Nat /\ 0 \in 0..T - 1
        BY <1>2, <2>1, <2>4, <2>5, <2>7, <3>1, <3>2
      <3>4. (a - T) \div T = q - 1 /\ (a - T) % T = 0
        BY <1>2, <3>3, DivUnique
      <3> DEFINE j == F + (a - T)
      <3>5. j \in Nat /\ j <= m /\ ~ (j < F) /\ j - F = a - T
        BY <1>2, <2>1, <3>3
      <3> HIDE DEF j
      <3>6. Line(w, j) = 1 + (q - 1) /\ Place(w, j) = 0
        BY <1>3, <3>4, <3>5
      <3> QED BY <2>2, <2>4, <2>7, <3>5, <3>6
    <2> QED BY <2>6, <2>7
  <1> QED BY <1>2, <1>4, <1>5, <1>6

\* The candidate of a line that is nearest to the place of one is this one.
LEMMA NearestIsThere ==
    ASSUME NEW w \in Members, w.window # NoMonitor, NEW m \in Selectable(w)
    PROVE  Nearest(w, Line(w, m), Place(w, m)) = m
  <1> DEFINE p == Place(w, m)
             l == Line(w, m)
             i == Nearest(w, l, p)
  <1>1. p \in Nat /\ m \in InLine(w, l)
    BY PlaceFacts DEF InLine
  <1>2. i \in InLine(w, l) /\ Abs(Place(w, i) - p) <= Abs(Place(w, m) - p)
    <2> HIDE DEF l, p
    <2> QED BY <1>1, NearestFacts
  <1>3. i \in Selectable(w) /\ Line(w, i) = l
    BY <1>2 DEF InLine
  <1> HIDE DEF i
  <1>4. Place(w, i) \in Nat
    BY <1>3, PlaceFacts
  <1>5. Abs(Place(w, m) - p) = 0
    BY <1>1 DEF Abs
  <1>6. Place(w, i) = p
    <2> DEFINE a == Place(w, i)
    <2>1. Abs(a - p) <= 0
      BY <1>2, <1>5
    <2> HIDE DEF a, p
    <2>2. a = p
      BY <1>1, <1>4, <2>1 DEF Abs, a
    <2> QED BY <2>2 DEF a
  <1>7. i = m
    BY <1>3, <1>6, PlaceIsOwn
  <1> QED BY <1>7 DEF i

\* The window with another selection.
At(w, i) == [w EXCEPT !.selected = i]

LEMMA AtFacts ==
    ASSUME NEW w \in Members, NEW i \in Nat
    PROVE  /\ At(w, i) \in Members /\ At(w, i).selected = i
           /\ At(w, i).window = w.window /\ At(w, i).expanded = w.expanded
           /\ At(w, i).settings = w.settings
           /\ Selectable(At(w, i)) = Selectable(w)
           /\ \A m : Line(At(w, i), m) = Line(w, m) /\ Place(At(w, i), m) = Place(w, m)
           /\ i \in Selectable(w) => ClampCandidateSelection(At(w, i)) = At(w, i)
  <1> DEFINE x == At(w, i)
  <1>1. /\ x \in Members /\ x.selected = i /\ x.window = w.window /\ x.expanded = w.expanded
        /\ x.settings = w.settings /\ x.shown = w.shown
    BY DEF Members, At
  <1> HIDE DEF x
  <1>2. Length(x) = Length(w) /\ FirstRow(x) = FirstRow(w)
    BY <1>1 DEF Length, FirstRow
  <1>3. Selectable(x) = Selectable(w)
    BY <1>1, <1>2 DEF Selectable, VisibleCandidateCount, CandidatePageSizeLimit
  <1>4. \A m : Line(x, m) = Line(w, m) /\ Place(x, m) = Place(w, m)
    BY <1>1, <1>2 DEF Line, Place
  <1>5. i \in Selectable(w) => ClampCandidateSelection(x) = x
    BY <1>1, <1>3 DEF ClampCandidateSelection
  <1> QED BY <1>1, <1>3, <1>4, <1>5 DEF x

ArrowKeys == {"left", "right", "up", "down"}

\* From one candidate a key leads to the next in the line, and another one to
\* the candidate at the same place of the next line; in the compact window one
\* key leads to the next candidate.
LEMMA MoveLeads ==
    ASSUME NEW w \in Members, w.window # NoMonitor, NEW j \in Selectable(w), NEW m \in Selectable(w),
           \/ ~w.expanded /\ m = j + 1
           \/ w.expanded /\ Line(w, j) = Line(w, m) /\ Place(w, j) + 1 = Place(w, m)
           \/ w.expanded /\ Line(w, j) + 1 = Line(w, m) /\ Place(w, j) = Place(w, m)
    PROVE  \E key \in ArrowKeys : MoveCandidateSelection(At(w, j), key).selected = m
  <1> DEFINE x == At(w, j)
             h == x.settings.horizontal
             lines == IF h THEN {"left", "right"} ELSE {"up", "down"}
             goal(key) ==
               LET along == key \in lines
                   step == IF key \in {"left", "up"} THEN -1 ELSE 1
               IN IF x.expanded
                    THEN IF along THEN Nearest(x, Line(x, j), Place(x, j) + step)
                         ELSE Nearest(x, Line(x, j) + step, Place(x, j))
                  ELSE IF j + step \in Selectable(x) /\ (along \/ h) THEN j + step ELSE j
  <1>1. /\ j \in Nat /\ x \in Members /\ x.selected = j /\ x.window = w.window
        /\ x.expanded = w.expanded /\ Selectable(x) = Selectable(w)
        /\ Line(x, j) = Line(w, j) /\ Place(x, j) = Place(w, j)
        /\ Line(x, m) = Line(w, m) /\ Place(x, m) = Place(w, m)
        /\ ClampCandidateSelection(x) = x
    <2>1. j \in Nat
      BY SelectableFacts
    <2>2. /\ x \in Members /\ x.selected = j /\ x.window = w.window
          /\ x.expanded = w.expanded /\ Selectable(x) = Selectable(w)
          /\ ClampCandidateSelection(x) = x
      BY <2>1, AtFacts
    <2>3. \A i : Line(x, i) = Line(w, i) /\ Place(x, i) = Place(w, i)
      BY <2>1, AtFacts
    <2> HIDE DEF x
    <2> QED BY <2>1, <2>2, <2>3
  <1> HIDE DEF x
  <1>2. ASSUME NEW key PROVE MoveCandidateSelection(x, key) = [x EXCEPT !.selected = goal(key)]
    BY <1>1 DEF MoveCandidateSelection
  <1>3. ASSUME NEW key, goal(key) = m PROVE MoveCandidateSelection(x, key).selected = m
    <2>1. MoveCandidateSelection(x, key) = [x EXCEPT !.selected = m]
      BY <1>2, <1>3
    <2> QED BY <1>1, <2>1 DEF Members
  <1>4. Nearest(x, Line(x, m), Place(x, m)) = m
    BY <1>1, NearestIsThere
  <1>5. \E key \in ArrowKeys : goal(key) = m
    <2> DEFINE on == IF h THEN "right" ELSE "down"
               across == IF h THEN "down" ELSE "right"
    <2>1. on \in ArrowKeys /\ across \in ArrowKeys /\ on \in lines /\ across \notin lines
          /\ on \notin {"left", "up"} /\ across \notin {"left", "up"}
      BY DEF ArrowKeys
    <2> HIDE DEF on, across, lines, h
    <2>2. CASE ~w.expanded /\ m = j + 1
      <3>1. goal(on) = m
        BY <1>1, <2>1, <2>2
      <3> QED BY <2>1, <3>1
    <2>3. CASE w.expanded /\ Line(w, j) = Line(w, m) /\ Place(w, j) + 1 = Place(w, m)
      <3>1. goal(on) = Nearest(x, Line(x, m), Place(x, m))
        BY <1>1, <2>1, <2>3
      <3> QED BY <1>4, <2>1, <3>1
    <2>4. CASE w.expanded /\ Line(w, j) + 1 = Line(w, m) /\ Place(w, j) = Place(w, m)
      <3>1. goal(across) = Nearest(x, Line(x, m), Place(x, m))
        BY <1>1, <2>1, <2>4
      <3> QED BY <1>4, <2>1, <3>1
    <2> QED BY <2>2, <2>3, <2>4
  <1> HIDE DEF goal
  <1> QED BY <1>3, <1>5 DEF x

\* The walk of the keys.
Reaches(f, j, w) == f = [n \in 0..j |-> IF n = 0 THEN {0} ELSE OneMore(w, f[n - 1])]

LEMMA ReachExists ==
    ASSUME NEW w
    PROVE  \A j \in Nat : \E f : Reaches(f, j, w)
  <1> DEFINE T == {j \in Nat : \E f : Reaches(f, j, w)}
  <1>1. 0 \in T
    <2> DEFINE f == [i \in 0..0 |-> {0}]
    <2>1. Reaches(f, 0, w)
      BY DEF Reaches
    <2> QED BY <2>1
  <1>2. ASSUME NEW j \in Nat, j \in T
        PROVE  j + 1 \in T
    <2>1. PICK f : Reaches(f, j, w)
      BY <1>2
    <2> DEFINE g == [i \in 0..j + 1 |-> IF i <= j THEN f[i] ELSE OneMore(w, f[j])]
    <2>2. ASSUME NEW i \in 0..j + 1
          PROVE  g[i] = IF i = 0 THEN {0} ELSE OneMore(w, g[i - 1])
      <3>1. CASE i = 0
        BY <2>1, <3>1 DEF Reaches
      <3>2. CASE i # 0 /\ i <= j
        <4>1. i \in 0..j /\ i - 1 \in 0..j + 1 /\ i - 1 <= j
          BY <2>2, <3>2
        <4>2. g[i] = f[i] /\ g[i - 1] = f[i - 1]
          BY <3>2, <4>1
        <4>3. f[i] = OneMore(w, f[i - 1])
          BY <2>1, <3>2, <4>1 DEF Reaches
        <4> QED BY <3>2, <4>2, <4>3
      <3>3. CASE i = j + 1
        <4>1. i - 1 = j /\ i - 1 \in 0..j + 1 /\ i # 0 /\ ~ (i <= j) /\ j <= j
          BY <3>3
        <4>2. g[i] = OneMore(w, f[j]) /\ g[i - 1] = f[j]
          BY <4>1
        <4> QED BY <4>1, <4>2
      <3> QED BY <3>1, <3>2, <3>3
    <2>3. Reaches(g, j + 1, w)
      <3>1. g = [i \in 0..j + 1 |-> g[i]]
        OBVIOUS
      <3> HIDE DEF g
      <3> QED BY <2>2, <3>1 DEF Reaches
    <2> HIDE DEF g
    <2> QED BY <1>2, <2>3
  <1>3. \A j \in Nat : j \in T
    <2> HIDE DEF T
    <2> QED BY <1>1, <1>2, AllNumbers
  <1> QED BY <1>3

\* Every candidate is the next one of another, with a smaller index.
LEMMA Predecessor ==
    ASSUME NEW w \in Members, w.window # NoMonitor, NEW n \in Nat, n + 1 \in Selectable(w)
    PROVE  \E j \in Selectable(w) :
             /\ j <= n
             /\ \E key \in ArrowKeys : MoveCandidateSelection(At(w, j), key).selected = n + 1
  <1> DEFINE m == n + 1
  <1>1. \A j \in Nat : j <= n => j \in Selectable(w)
    BY SelectableFacts
  <1>2. CASE ~w.expanded
    <2>1. n \in Selectable(w) /\ n <= n
      BY <1>1
    <2> QED BY <1>2, <2>1, MoveLeads
  <1>3. CASE w.expanded
    <2>1. CASE Line(w, n) = Line(w, m) /\ Place(w, n) + 1 = Place(w, m)
      <3>1. n \in Selectable(w) /\ n <= n
        BY <1>1
      <3> QED BY <1>3, <2>1, <3>1, MoveLeads
    <2>2. CASE \E j \in Nat : j <= n /\ Line(w, j) + 1 = Line(w, m) /\ Place(w, j) = Place(w, m)
      <3>1. PICK j \in Nat : j <= n /\ Line(w, j) + 1 = Line(w, m) /\ Place(w, j) = Place(w, m)
        BY <2>2
      <3>2. j \in Selectable(w)
        BY <1>1, <3>1
      <3> QED BY <1>3, <3>1, <3>2, MoveLeads
    <2> QED BY <2>1, <2>2, Neighbours
  <1> QED BY <1>2, <1>3

LEMMA ReachGrows ==
    ASSUME NEW w \in Members, w.window # NoMonitor, NEW n \in Nat, NEW S,
           \A m \in Selectable(w) : m <= n => m \in S
    PROVE  \A m \in Selectable(w) : m <= n + 1 => m \in OneMore(w, S)
  <1> SUFFICES ASSUME NEW m \in Selectable(w), m <= n + 1
               PROVE  m \in OneMore(w, S)
    OBVIOUS
  <1>1. m \in Nat
    BY SelectableFacts
  <1>2. CASE m <= n
    BY <1>2 DEF OneMore
  <1>3. CASE m = n + 1
    <2>1. PICK j \in Selectable(w) :
            /\ j <= n
            /\ \E key \in ArrowKeys : MoveCandidateSelection(At(w, j), key).selected = n + 1
      BY <1>3, Predecessor
    <2>2. PICK key \in ArrowKeys : MoveCandidateSelection(At(w, j), key).selected = n + 1
      BY <2>1
    <2>3. j \in S
      BY <2>1
    <2> QED BY <1>3, <2>2, <2>3 DEF OneMore, At, ArrowKeys
  <1> QED BY <1>1, <1>2, <1>3

\* Every candidate that has a place can be reached with the arrow keys, for
\* rows and columns of any length (MoveCandidateSelection).
THEOREM ArrowsReachAllCorrect == CandidateSpec => []ArrowsReachAll
  <1>1. CandidateInv => ArrowsReachAll
    <2> SUFFICES ASSUME CandidateInv PROVE ArrowsReachAll
      OBVIOUS
    <2> DEFINE reach[n \in 0..Length(ts)] == IF n = 0 THEN {0} ELSE OneMore(ts, reach[n - 1])
    <2>0. ArrowsReachAll <=> (Length(ts) > 0 => Selectable(ts) \subseteq reach[Length(ts)])
      BY DEF ArrowsReachAll
    <2> HIDE DEF reach
    <2> SUFFICES ASSUME Length(ts) > 0
                 PROVE  Selectable(ts) \subseteq reach[Length(ts)]
      BY <2>0
    <2>1. ts \in Members /\ Length(ts) \in Nat /\ ts.window # NoMonitor
      BY LengthFacts DEF CandidateInv, Whole, Good, Typed, Framed
    <2>2. Reaches(reach, Length(ts), ts)
      <3>1. \E f : Reaches(f, Length(ts), ts)
        BY <2>1, ReachExists
      <3>2. PICK f : f = [n \in 0..Length(ts) |-> IF n = 0 THEN {0} ELSE OneMore(ts, f[n - 1])]
        BY <3>1 DEF Reaches
      <3>3. reach = [n \in 0..Length(ts) |-> IF n = 0 THEN {0} ELSE OneMore(ts, reach[n - 1])]
        BY <3>2 DEF reach
      <3> QED BY <3>3 DEF Reaches
    <2> DEFINE T == {n \in Nat : n <= Length(ts) =>
                                   \A m \in Selectable(ts) : m <= n => m \in reach[n]}
    <2>3. 0 \in T
      <3>1. reach[0] = {0}
        BY <2>1, <2>2 DEF Reaches
      <3>2. \A m \in Selectable(ts) : m <= 0 => m = 0
        BY <2>1, SelectableFacts
      <3> QED BY <3>1, <3>2
    <2>4. ASSUME NEW n \in Nat, n \in T
          PROVE  n + 1 \in T
      <3>1. CASE n + 1 <= Length(ts)
        <4>1. reach[n + 1] = OneMore(ts, reach[n])
          <5>1. n + 1 \in 0..Length(ts) /\ n + 1 # 0 /\ (n + 1) - 1 = n
            BY <2>1, <3>1
          <5>2. reach = [k \in 0..Length(ts) |-> IF k = 0 THEN {0} ELSE OneMore(ts, reach[k - 1])]
            BY <2>2 DEF Reaches
          <5>3. \A k \in 0..Length(ts) :
                  reach[k] = IF k = 0 THEN {0} ELSE OneMore(ts, reach[k - 1])
            BY <5>2
          <5> QED BY <5>1, <5>3
        <4>2. \A m \in Selectable(ts) : m <= n => m \in reach[n]
          BY <2>1, <2>4, <3>1
        <4>3. \A m \in Selectable(ts) : m <= n + 1 => m \in OneMore(ts, reach[n])
          BY <2>1, <4>2, ReachGrows
        <4> QED BY <4>1, <4>3
      <3> QED BY <3>1
    <2>5. \A n \in Nat : n \in T
      <3> HIDE DEF T
      <3> QED BY <2>3, <2>4, AllNumbers
    <2>6. ASSUME NEW m \in Selectable(ts)
          PROVE  m \in reach[Length(ts)]
      <3>1. m \in Nat /\ m < Length(ts)
        BY <2>1, SelectableFacts
      <3> QED BY <2>1, <2>5, <3>1
    <2> QED BY <2>6
  <1> QED BY <1>1, CandidateInvariance, PTL
=============================================================================
