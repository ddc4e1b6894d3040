--------------------------- MODULE CandidateWindow ---------------------------
(***************************************************************************)
(* The candidates of one composition: how pages of them are fetched from   *)
(* the session of the engine (core/rime_engine.cpp), which of them the     *)
(* window shows, and which one a digit, an arrow key, a click or the space *)
(* bar takes (tsf/tsf_text_service.cpp, tsf/candidate_layout_math.cpp).    *)
(*                                                                         *)
(* All text services of a process share one session.  It keeps the input   *)
(* it was given and the page Rime stands on; a page of the window is cut   *)
(* out of several of Rime's pages, and its size depends on the settings,   *)
(* which may change at any time, and on how many candidates fit on the     *)
(* monitor.  A choice is made by page, page size and index: the page is    *)
(* fetched a second time.                                                  *)
(*                                                                         *)
(* Left out: the document (module TextService: only whether it takes a     *)
(* text matters here), what candidates look like except that those in Wide *)
(* leave room for fewer others in their row, and the window's other tools. *)
(***************************************************************************)
EXTENDS Integers, Sequences, FiniteSets, FiniteSetsExt, SequencesExt

CONSTANTS Letters, MaxInput,  \* the letters; bound for TLC on the input
          MenuSize,     \* MenuSize[n]: the candidates of an input of n letters
          Wide,         \* the candidates that are long, like a sentence
          Partial,      \* those that stand for the first letter only
          Rankings,     \* the orders the dictionary may put them in
          RimePage,     \* menu/page_size, 9
          MaxWalk,      \* pages of Rime's one request may walk, 64
          Counts,       \* candidates in the compact window, 3..9
          TailRows,     \* kHorizontalExpandedTailRows, 3
          RowLength,    \* kMaxCandidateCount, 9
          Monitors,     \* [first, tail]: how many candidates fit in the first
                        \* row if its first one is wide, and in another row
          NoMonitor     \* there is no candidate window

ASSUME CandidateAssumption ==
  /\ MaxInput \in Nat \ {0} /\ MenuSize \in [1..MaxInput -> Nat \ {0}]
  /\ Rankings \subseteq Nat /\ Rankings # {}
  /\ RimePage \in Nat \ {0} /\ MaxWalk \in Nat \ {0}
  /\ Counts \subseteq 1..RowLength /\ Counts # {}
  /\ TailRows \in Nat /\ RowLength \in Nat \ {0}
  /\ Monitors \subseteq [first : 1..RowLength, tail : 1..RowLength] /\ Monitors # {}
  /\ NoMonitor \notin Monitors

VARIABLES ts,          \* the text service and the session of its engine
          saved,       \* the settings in settings.ini
          notice,      \* kRefreshCandidateWindowVisuals is in its queue
          restarting,  \* the restart thread is under way
          ranking      \* the order of the candidates at present

candidateVars == <<ts, saved, notice, restarting, ranking>>

Settings == [count : Counts, horizontal : BOOLEAN]

-----------------------------------------------------------------------------
(* The session.  typed and at are Rime's: the letters it was given and its *)
(* page; input and page are session_input_ and session_page_index_.        *)

Cleared == [typed |-> <<>>, at |-> 0, input |-> <<>>, page |-> 0]

\* The order in which Rime presents the candidates of an input: in the even
\* rankings the last comes first.
Size(n) == IF n = <<>> THEN 0 ELSE MenuSize[Len(n)]
Menu(n, r) == [p \in 1..Size(n) |-> IF r % 2 = 0 THEN Size(n) + 1 - p ELSE p]

\* get_context: what is on Rime's page, and whether it is the last.
Slice(q, skip, size) == SubSeq(q, skip + 1, Min({skip + size, Len(q)}))
OnPage(s, r) == Slice(Menu(s.typed, r), s.at * RimePage, RimePage)
IsLastPage(s) == Size(s.typed) <= (s.at + 1) * RimePage

\* Mutant: session_page_index_ is not counted.
PageDownUncounted(s) == [s EXCEPT !.at = @ + 1]
PageDown(s) == [s EXCEPT !.at = @ + 1, !.page = @ + 1]

SyncSessionInput(s, n, reset) ==
  IF n = <<>> THEN Cleared
  ELSE LET t == IF reset THEN Cleared ELSE s
       IN IF ~reset /\ t.page = 0 /\ IsPrefix(t.input, n)
            THEN [typed |-> t.typed \o SubSeq(n, Len(t.input) + 1, Len(n)),
                  at |-> IF n = t.input THEN t.at ELSE 0, input |-> n, page |-> 0]
            ELSE [typed |-> n, at |-> 0, input |-> n, page |-> 0]

NeedsReset(s, n, k) == s.input # n \/ s.page # 0 \/ k > 0

\* Mutant: a full page is taken to have a successor.
HasMoreAlways(uncollected, last) == TRUE
HasMore(uncollected, last) == uncollected \/ ~last

\* One turn of the loop that collects size candidates after skip others.
Collect(w, skip, size, r) ==
  LET here == OnPage(w.s, r)
      last == IsLastPage(w.s)
      start == Min({skip - w.skipped, Len(here)})
      items == w.items \o Slice(here, start, size - Len(w.items))
      full == Len(items) >= size
      uncollected == start + Len(items) - Len(w.items) < Len(here)
  IN IF w.done THEN w
     ELSE IF here = <<>> THEN [w EXCEPT !.done = TRUE]
     ELSE [s |-> IF full \/ last THEN w.s ELSE PageDown(w.s),
           skipped |-> w.skipped + start,
           items |-> items,
           next |-> full /\ HasMore(uncollected, last),
           done |-> full \/ last]

\* GetCandidatePageForInput: page k of pages of the given size.
GetCandidatePage(s, n, k, size, r) ==
  LET start == [s |-> SyncSessionInput(s, n, NeedsReset(s, n, k)),
                skipped |-> 0, items |-> <<>>, next |-> FALSE, done |-> FALSE]
      walk[i \in 0..MaxWalk] == IF i = 0 THEN start ELSE Collect(walk[i - 1], k * size, size, r)
  IN walk[MaxWalk]

\* What is left of the input when candidate c of it is taken.
Rest(n, c) == IF c \in Partial THEN Tail(n) ELSE <<>>

\* SelectCandidateForInput: the candidate with that index on page k, found by
\* walking Rime's pages again.  No candidate is 0.
SelectCandidate(s, n, k, size, index, r) ==
  LET p == k * size + index + 1
      found == p <= Size(n) /\ p <= MaxWalk * RimePage
      c == Menu(n, r)[p]
      lastPage == (Size(n) - 1) \div RimePage
      stuck == Min({lastPage, MaxWalk})
  IN IF found
       THEN [candidate |-> c, rest |-> Rest(n, c), s |-> SyncSessionInput(s, Rest(n, c), TRUE)]
       ELSE [candidate |-> 0, rest |-> <<>>,
             s |-> [typed |-> n, at |-> stuck, input |-> n, page |-> stuck]]

-----------------------------------------------------------------------------
(* The window.  Candidates are indexed from 0.                             *)

NoCandidates == [of |-> <<>>, by |-> 0, items |-> <<>>]
NoQuery == [of |-> <<>>, page |-> -1, size |-> 0]

CandidateInit ==
  /\ saved \in Settings
  /\ ranking \in Rankings
  /\ notice = FALSE /\ restarting = FALSE
  /\ ts = [input |-> <<>>,                \* composition_input_
           page |-> 0,                    \* candidate_page_index_
           selected |-> 0,                \* selected_candidate_index_
           expanded |-> FALSE,            \* expanded_candidate_window_
           settings |-> saved,            \* compact_candidate_count_, ...
           shown |-> NoCandidates,        \* candidates_, and what they are of
           hasPrevious |-> FALSE, hasNext |-> FALSE,
           last |-> NoQuery,              \* last_candidate_query_...
           window |-> NoMonitor,          \* candidate_window_, its monitor
           ready |-> FALSE,               \* rime_ready_
           session |-> Cleared]

Length(w) == Len(w.shown.items)
IsComposing(w) == w.input # <<>>
OnRecord(w) == w.last.of = w.input /\ w.last.page = w.page /\ w.last.size > 0

CandidatePageSizeLimit(w) ==
  w.settings.count + IF w.expanded THEN RowLength * TailRows ELSE 0

\* Candidates in the first row, or the first column of a vertical window.
FirstRow(w) ==
  Min({w.settings.count, Length(w),
       IF w.settings.horizontal /\ w.shown.items[1] \in Wide THEN w.window.first ELSE RowLength})

\* How many candidates have a place in the window: the first ones.
VisibleCandidateCount(w) ==
  IF Length(w) = 0 THEN 0
  ELSE IF w.window = NoMonitor THEN Min({Length(w), CandidatePageSizeLimit(w)})
  ELSE IF ~w.expanded THEN FirstRow(w)
  ELSE Min({Length(w), FirstRow(w) + TailRows * w.window.tail})

Selectable(w) == 0..VisibleCandidateCount(w) - 1

ClampCandidateSelection(w) ==
  IF w.selected \in Selectable(w) THEN w ELSE [w EXCEPT !.selected = 0]

\* The engine's answer to a request for page w.page of pages of that size; a
\* host that is gone gives none, and the next one has a session of its own.
Ask(w, size) ==
  LET a == GetCandidatePage(w.session, w.input, w.page, size, ranking)
  IN {[w EXCEPT !.shown = [of |-> a.s.typed, by |-> ranking, items |-> a.items],
                !.hasPrevious = w.page > 0, !.hasNext = a.next, !.session = a.s],
      [w EXCEPT !.shown = NoCandidates,
                !.hasPrevious = FALSE, !.hasNext = FALSE, !.session = Cleared]}

Recorded(w, size) ==
  ClampCandidateSelection([w EXCEPT !.last = [of |-> w.input, page |-> w.page, size |-> size]])

\* What does not fit in the window is cut off: on the first page the rest is
\* kept for the next one, and a later page is fetched again with that size.
Trimmed(w, size) ==
  LET v == VisibleCandidateCount(w)
  IN IF v = 0 \/ v = Length(w) THEN {Recorded(w, size)}
     ELSE IF w.page = 0
       THEN {Recorded([w EXCEPT !.shown.items = SubSeq(@, 1, v), !.hasNext = TRUE], v)}
     ELSE {Recorded(x, v) : x \in Ask(w, v)}

RefreshCandidates(w) ==
  LET size == CandidatePageSizeLimit(w)
      empty == [w EXCEPT !.shown = NoCandidates, !.hasPrevious = FALSE, !.hasNext = FALSE,
                         !.last = NoQuery, !.selected = 0]
  IN IF w.ready /\ w.input # <<>> /\ w.last = [of |-> w.input, page |-> w.page, size |-> size]
       THEN {ClampCandidateSelection(w)}
     ELSE IF w.input = <<>> \/ ~w.ready THEN {empty}
     ELSE UNION {Trimmed(x, size) : x \in Ask(w, size)}

\* ReloadCandidateWindowVisualSettings; a change drops the record.
Reload(w, stored) ==
  IF w.settings = stored THEN w ELSE [w EXCEPT !.settings = stored, !.last = NoQuery]

\* The page is fetched again if not all of it can be seen; then the window
\* moves to the monitor of the text.
ShowWithSettings(w, stored) ==
  LET Created(x) == IF x.window = NoMonitor
                      THEN {[x EXCEPT !.window = m] : m \in Monitors} ELSE {x}
      Fitting(x) ==
        LET v == VisibleCandidateCount(x)
            trimmed == x.last.size < CandidatePageSizeLimit(x) /\ Length(x) <= x.last.size
        IN IF OnRecord(x) /\ ~trimmed /\ v > 0 /\ v < Length(x) /\ x.last.size # v
             THEN RefreshCandidates([x EXCEPT !.last = NoQuery]) ELSE {x}
      Moved(x) == {[x EXCEPT !.window = m] : m \in Monitors}
  IN IF ~IsComposing(w) THEN {w}
     ELSE UNION {UNION {Moved(y) : y \in Fitting(x)} : x \in Created(Reload(w, stored))}

ShowCandidateWindow(w) == ShowWithSettings(w, saved)

Refreshed(w) == UNION {ShowCandidateWindow(x) : x \in RefreshCandidates(w)}
ToFirst(w) == [w EXCEPT !.page = 0, !.selected = 0]

-----------------------------------------------------------------------------
(* Where the candidates stand in the expanded window.  A line is a row of  *)
(* a horizontal window and a column of a vertical one.                     *)

Abs(n) == IF n < 0 THEN -n ELSE n
Line(w, i) == IF i < FirstRow(w) THEN 0 ELSE 1 + (i - FirstRow(w)) \div w.window.tail
Place(w, i) == IF i < FirstRow(w) THEN i ELSE (i - FirstRow(w)) % w.window.tail
InLine(w, l) == {i \in Selectable(w) : Line(w, i) = l}

\* Mutant: the line is right, the place in it is not looked at.
NearestIsFirst(w, l, p) == IF InLine(w, l) = {} THEN w.selected ELSE Min(InLine(w, l))

\* The candidate of line l whose place is nearest to p.
Nearest(w, l, p) ==
  IF InLine(w, l) = {} THEN w.selected
  ELSE CHOOSE i \in InLine(w, l) :
         \A j \in InLine(w, l) : \/ Abs(Place(w, i) - p) < Abs(Place(w, j) - p)
                                 \/ Abs(Place(w, i) - p) = Abs(Place(w, j) - p) /\ i <= j

MoveCandidateSelection(w, key) ==
  LET x == ClampCandidateSelection(w)
      i == x.selected
      along == key \in IF x.settings.horizontal THEN {"left", "right"} ELSE {"up", "down"}
      step == IF key \in {"left", "up"} THEN -1 ELSE 1
      target == IF x.expanded
                  THEN IF along THEN Nearest(x, Line(x, i), Place(x, i) + step)
                       ELSE Nearest(x, Line(x, i) + step, Place(x, i))
                ELSE IF i + step \in Selectable(x) /\ (along \/ x.settings.horizontal)
                  THEN i + step ELSE i
  IN IF Selectable(x) = {} THEN x ELSE [x EXCEPT !.selected = target]

\* Mutant: the digits count the whole window.
CandidateIndexForDigitFlat(w, d) == IF d - 1 \in Selectable(w) THEN d - 1 ELSE Length(w)

\* The digit takes its candidate of the line with the selection.
CandidateIndexForDigit(w, d) ==
  IF ~w.expanded THEN IF d - 1 \in Selectable(w) THEN d - 1 ELSE Length(w)
  ELSE LET l == Line(w, ClampCandidateSelection(w).selected)
           there == {i \in InLine(w, l) : Place(w, i) = d - 1}
       IN IF there = {} THEN Length(w) ELSE CHOOSE i \in there : TRUE

\* The number RenderCandidateLayeredWindow draws before a candidate.
DrawnNumber(w, i) == 1 + IF w.expanded THEN Place(w, i) ELSE i % RowLength

-----------------------------------------------------------------------------
(* Choices                                                                 *)

\* Mutant: the page number is left as it was.
ClearCompositionStateKeepsPage(w) ==
  [w EXCEPT !.input = <<>>, !.shown = NoCandidates, !.selected = 0, !.expanded = FALSE,
            !.hasPrevious = FALSE, !.hasNext = FALSE, !.last = NoQuery, !.session = Cleared]

ClearCompositionState(w) ==
  [w EXCEPT !.input = <<>>, !.page = 0, !.shown = NoCandidates, !.selected = 0,
            !.expanded = FALSE, !.hasPrevious = FALSE, !.hasNext = FALSE,
            !.last = NoQuery, !.session = Cleared]

\* Mutant: the size of a page that was cut off is forgotten.
EffectivePageSizeRequested(w) == CandidatePageSizeLimit(w)
EffectivePageSize(w) == IF OnRecord(w) THEN w.last.size ELSE CandidatePageSizeLimit(w)

Choice(w, i) == SelectCandidate(w.session, w.input, w.page, EffectivePageSize(w), i, ranking)

DrawnIfAny(w) == IF Length(w) = 0 THEN {w} ELSE ShowCandidateWindow(w)

CommitTextAndContinueComposition(w) ==
  UNION {DrawnIfAny(x) :
           x \in RefreshCandidates([ToFirst(w) EXCEPT !.expanded = FALSE, !.last = NoQuery])}

\* The engine may not answer, and the document may refuse the text: then the
\* candidates stay, but the input is already the shorter one.
CommitCandidate(w, i) ==
  LET c == Choice(w, i)
      taken == [w EXCEPT !.input = IF c.rest = <<>> THEN @ ELSE c.rest, !.session = c.s]
  IN IF i >= Length(w) \/ (Selectable(w) # {} /\ i \notin Selectable(w)) THEN {w}
     ELSE {ClearCompositionState(w), w}
            \cup IF ~w.ready \/ c.candidate = 0 THEN {}
                 ELSE {taken} \cup IF c.rest = <<>> THEN {ClearCompositionState(taken)}
                                   ELSE CommitTextAndContinueComposition(taken)

-----------------------------------------------------------------------------
(* Keys and clicks.                                                        *)

RestUnchanged == UNCHANGED <<saved, notice, restarting, ranking>>

\* An engine that is not ready is started, or not; the document may refuse
\* the preedit.
Letter(l) ==
  LET x == [ToFirst(ts) EXCEPT !.input = Append(@, l), !.expanded = FALSE]
      Started == IF x.ready THEN {x}
                 ELSE {x, [x EXCEPT !.ready = TRUE, !.session = Cleared]}
      Asked(y) == IF y.ready THEN RefreshCandidates(y)
                  ELSE {[y EXCEPT !.shown = NoCandidates,
                                  !.hasPrevious = FALSE, !.hasNext = FALSE]}
  IN /\ Len(ts.input) < MaxInput
     /\ ts' \in {ClearCompositionState(x)}
                  \cup UNION {UNION {DrawnIfAny(z) : z \in Asked(y)} : y \in Started}
     /\ RestUnchanged

Backspace ==
  LET x == [ToFirst(ts) EXCEPT !.input = Front(@), !.expanded = FALSE]
  IN /\ IsComposing(ts)
     /\ ts' \in {ClearCompositionState(x)} \cup IF x.input = <<>> THEN {} ELSE Refreshed(x)
     /\ RestUnchanged

ToggleExpansion ==
  /\ IsComposing(ts)
  /\ ts' \in Refreshed([ToFirst(ts) EXCEPT !.expanded = ~@])
  /\ RestUnchanged

ChangeCandidatePage(delta) ==
  /\ IsComposing(ts)
  /\ IF delta > 0 THEN ts.hasNext ELSE ts.page > 0
  /\ ts' \in Refreshed([ts EXCEPT !.page = @ + delta, !.selected = 0])
  /\ RestUnchanged

Arrow(key) ==
  /\ IsComposing(ts)
  /\ ts' = MoveCandidateSelection(ts, key)
  /\ RestUnchanged

Digit(d) ==
  /\ IsComposing(ts)
  /\ ts' \in CommitCandidate(ts, CandidateIndexForDigit(ts, d))
  /\ RestUnchanged

Click(i) ==
  /\ ts' \in CommitCandidate([ts EXCEPT !.selected = i], i)
  /\ RestUnchanged

Space ==
  LET x == ClampCandidateSelection(ts)
  IN /\ IsComposing(ts) /\ Length(ts) > 0
     /\ ts' \in CommitCandidate(x, x.selected)
     /\ RestUnchanged

\* Escape, Return, punctuation, Space without candidates, the loss of the focus.
End ==
  /\ IsComposing(ts)
  /\ ts' = ClearCompositionState(ts)
  /\ RestUnchanged

-----------------------------------------------------------------------------
(* Settings, monitors and the engine.                                      *)

SaveSettings(s) ==
  /\ s # saved /\ saved' = s /\ notice' = TRUE
  /\ UNCHANGED <<ts, restarting, ranking>>

\* Also RefreshInputStateFromSettings, as far as candidates are concerned.
RefreshCandidateWindowVisualSettings ==
  LET x == [ToFirst(ts) EXCEPT !.settings = saved, !.last = NoQuery]
  IN /\ notice /\ notice' = FALSE
     /\ ts' \in IF ts.settings = saved THEN {ts}
                ELSE IF IsComposing(ts) THEN Refreshed(x)
                ELSE {[ts EXCEPT !.settings = saved, !.last = NoQuery]}
     /\ UNCHANGED <<saved, restarting, ranking>>

\* The menu; the settings may not be written.
ChooseLayout(h) ==
  /\ saved' \in {saved, [saved EXCEPT !.horizontal = h]}
  /\ ts' \in ShowWithSettings([ts EXCEPT !.settings.horizontal = h], saved')
  /\ UNCHANGED <<notice, restarting, ranking>>

\* A change of the characters: ApplyRimeOptions resets the session.
ChangeCharset ==
  LET x == [ToFirst(ts) EXCEPT !.last = NoQuery,
                               !.session = IF ts.ready THEN Cleared ELSE @]
  IN /\ ts' \in IF IsComposing(ts) THEN Refreshed(x) ELSE {x}
     /\ RestUnchanged

\* WM_DPICHANGED, a change of the theme.
Redraw ==
  /\ IsComposing(ts) /\ ts.window # NoMonitor
  /\ ts' \in ShowCandidateWindow(ts)
  /\ RestUnchanged

RestartRimeAndAlgorithmServiceAsync ==
  /\ ~restarting /\ restarting' = TRUE
  /\ ts' = [ClearCompositionState(ts) EXCEPT !.window = NoMonitor]
  /\ UNCHANGED <<saved, notice, ranking>>

ReloadRimeAndAlgorithmService ==
  /\ restarting /\ restarting' = FALSE
  /\ ts' \in {[ts EXCEPT !.ready = ok, !.session = Cleared] : ok \in BOOLEAN}
  /\ ranking' \in Rankings
  /\ UNCHANGED <<saved, notice>>

WarmUp ==
  /\ ~ts.ready
  /\ ts' = [ts EXCEPT !.ready = TRUE, !.session = Cleared]
  /\ RestUnchanged

\* Another text service of the process uses the session; what it commits is
\* learned and may change the order.
AnotherService ==
  \E l \in Letters, size \in Counts :
    /\ ts.ready
    /\ \/ /\ \E k \in 0..1 : ts' = [ts EXCEPT !.session =
                                GetCandidatePage(@, <<l>>, k, size, ranking).s]
          /\ ranking' = ranking
       \/ /\ ts' = [ts EXCEPT !.session = SelectCandidate(@, <<l>>, 0, size, 0, ranking).s]
          /\ ranking' \in Rankings
    /\ UNCHANGED <<saved, notice, restarting>>

CandidateNext ==
  \/ \E l \in Letters : Letter(l)
  \/ Backspace \/ ToggleExpansion \/ Space \/ End
  \/ \E delta \in {-1, 1} : ChangeCandidatePage(delta)
  \/ \E key \in {"left", "right", "up", "down"} : Arrow(key)
  \/ \E d \in 1..RowLength : Digit(d)
  \/ \E i \in Selectable(ts) : Click(i)
  \/ \E s \in Settings : SaveSettings(s)
  \/ RefreshCandidateWindowVisualSettings
  \/ \E h \in BOOLEAN : ChooseLayout(h)
  \/ ChangeCharset \/ Redraw
  \/ RestartRimeAndAlgorithmServiceAsync \/ ReloadRimeAndAlgorithmService
  \/ WarmUp \/ AnotherService

CandidateSpec == CandidateInit /\ [][CandidateNext]_candidateVars

-----------------------------------------------------------------------------
(* Properties.                                                             *)

\* The state of the service is of its type, nothing of a composition is left
\* when there is none, and candidates are only there with a window for them.
CandidateTypeOK ==
  /\ ts.input \in Seq(Letters) /\ Len(ts.input) <= MaxInput
  /\ ts.page \in Nat /\ ts.selected \in Nat
  /\ ts.settings \in Settings /\ saved \in Settings
  /\ {ts.expanded, ts.hasPrevious, ts.hasNext, ts.ready, notice, restarting} \subseteq BOOLEAN
  /\ ts.window \in Monitors \cup {NoMonitor}
  /\ ranking \in Rankings
  /\ Length(ts) > 0 => ts.window # NoMonitor
  /\ ~IsComposing(ts) => /\ ts.page = 0 /\ ts.last = NoQuery /\ ~ts.expanded
                         /\ Length(ts) = 0 /\ ~ts.hasNext

\* What one request can reach of a menu.
Reachable(n, r) == Slice(Menu(n, r), 0, MaxWalk * RimePage)

\* While the record of the last query is that of the page in view, the
\* candidates in view are that page of the menu of the input, whoever used the
\* session in between, whatever page of Rime's it was left on, and however the
\* page was cut off (GetCandidatePageForInput, SyncSessionInput,
\* RefreshCandidates); or there are none, since the engine did not answer.
RecordHonest ==
  OnRecord(ts) /\ Length(ts) > 0 =>
    /\ ts.shown.of = ts.input
    /\ ts.shown.items = Slice(Reachable(ts.input, ts.shown.by),
                              ts.page * ts.last.size, ts.last.size)

\* What is chosen is what is seen: for every candidate that has a place in the
\* window, the walk of SelectCandidateForInput ends at it, provided that the
\* record of the query was not dropped and the dictionary did not change.
ChoiceIsShown ==
  OnRecord(ts) /\ ts.ready /\ ts.shown.by = ranking =>
    \A i \in Selectable(ts) : Choice(ts, i).candidate = ts.shown.items[i + 1]

\* The next page of a page that was not cut off has candidates, as far as one
\* request reaches (has_next_candidate_page_, ChangeCandidatePage).
NextPageHolds ==
  LET size == CandidatePageSizeLimit(ts)
  IN /\ OnRecord(ts) /\ ts.last.size = size /\ ts.hasNext /\ ts.ready
     /\ (ts.page + 1) * size < MaxWalk * RimePage
     => GetCandidatePage(ts.session, ts.input, ts.page + 1, size, ranking).items # <<>>

\* What one more arrow key makes of the selections reached so far.
OneMore(w, S) ==
  S \cup {MoveCandidateSelection([w EXCEPT !.selected = i], key).selected
            : i \in S, key \in {"left", "right", "up", "down"}}

\* Every candidate that has a place can be reached with the arrow keys
\* (MoveCandidateSelection, for windows whose lines have unequal lengths).
ArrowsReachAll ==
  LET reach[n \in 0..Length(ts)] == IF n = 0 THEN {0} ELSE OneMore(ts, reach[n - 1])
  IN Length(ts) > 0 => Selectable(ts) \subseteq reach[Length(ts)]

\* The number drawn before a candidate of the line with the selection is the
\* digit that takes it (RenderCandidateLayeredWindow, CandidateIndexForDigit).
DigitsAsDrawn ==
  \A i \in Selectable(ts) :
    ~ts.expanded \/ Line(ts, i) = Line(ts, ClampCandidateSelection(ts).selected)
    => CandidateIndexForDigit(ts, DrawnNumber(ts, i)) = i
=============================================================================
