---------------------------- MODULE TextService ----------------------------
(***************************************************************************)
(* One text service in one application (tsf/tsf_text_service.cpp): what a  *)
(* key does to the composition, to the documents and to the candidates,    *)
(* while edit sessions are refused, the application ends compositions, the *)
(* user changes fields, and the engine is restarted by another thread.     *)
(*                                                                         *)
(* Letters are numbered in the order they are typed.  The text of a        *)
(* candidate is the letters it stands for: that its length differs from    *)
(* theirs does not matter, since only the preedit, which shows letters, is *)
(* ever replaced by length.  A document is the text before the caret: what *)
(* is not composed and, at the end, the range of the live composition.     *)
(* What the document holds at first is the letter Own.                     *)
(*                                                                         *)
(* Chinese mode; keys that the mode, a modifier or CapsLock keeps from the *)
(* service never arrive.  Left out: pages and the selection inside the     *)
(* page, the windows, and edit sessions that fail halfway.  A handler runs *)
(* without interruption: what the other thread does under rime_mutex_      *)
(* between two of its lock sections has the effect it has before the       *)
(* handler.  OnCompositionTerminated for a composition the service itself  *)
(* ends changes nothing: it is suppressed, or its effect is repeated by    *)
(* the handler.                                                            *)
(***************************************************************************)
EXTENDS Naturals, Sequences, FiniteSets, Functions

CONSTANTS Contexts, NoContext,
          MaxLetters, MaxFailures, MaxGen   \* bounds for TLC
ASSUME TextAssumption == /\ NoContext \notin Contexts
                         /\ MaxLetters \in Nat /\ MaxFailures \in Nat /\ MaxGen \in Nat

Letters == 1..MaxLetters
Own == 0
NoPage == [of |-> <<>>, gen |-> 0]

VARIABLES ts,          \* the service and its documents
          typed,       \* the letters typed so far
          restarting,  \* rime_restart_requested_: the thread is under way
          strayed      \* history: a mode key came from another field than the input's

vars == <<ts, typed, restarting, strayed>>

\* composition_input_, the context of composition_, preedit_length_,
\* pending_candidate_continuation_, active_context_, candidates_ (the input
\* and the engine they were asked for), last_candidate_query_input_,
\* rime_ready_, and how many engines were started.
Init == /\ ts = [doc |-> [c \in Contexts |-> [text |-> <<Own>>, comp |-> <<>>]],
                 input |-> <<>>, comp |-> NoContext, preedit |-> 0,
                 pending |-> FALSE, active |-> NoContext,
                 shown |-> NoPage, last |-> <<>>,
                 ready |-> FALSE, gen |-> 0,
                 failures |-> 0, undefined |-> FALSE]
        /\ typed = 0
        /\ restarting = FALSE
        /\ strayed = FALSE

-----------------------------------------------------------------------------
(* Edit sessions: each yields the set of its results.                      *)

Result(ok, w) == [ok |-> ok, w |-> w]
Failed(w) == [w EXCEPT !.failures = @ + 1]
Refused(w) == IF w.failures < MaxFailures THEN {Result(FALSE, Failed(w))} ELSE {}
Session(w, done) == {Result(TRUE, done)} \cup Refused(w)

\* The cookie of a session on c gives no access to the composition of another
\* context.
RequestUpdate(w, c, text) ==
  IF w.comp \notin {NoContext, c} THEN {Result(FALSE, w)}
  ELSE Session(w, [w EXCEPT !.comp = c, !.doc[c].comp = text])

\* Mutant: composition_ is dropped, the composition not ended.
RequestCommitUnended(w, c, text) ==
  IF w.comp # c THEN {Result(FALSE, w)}
  ELSE Session(w, [w EXCEPT !.comp = NoContext, !.doc[c].comp = text])
\* Mutant: the text is inserted after the preedit.
RequestCommitInserts(w, c, text) ==
  IF w.comp # c THEN {Result(FALSE, w)}
  ELSE Session(w, [w EXCEPT !.comp = NoContext,
                            !.doc[c] = [text |-> @.text \o @.comp \o text, comp |-> <<>>]])

RequestCommit(w, c, text) ==
  IF w.comp # c THEN {Result(FALSE, w)}
  ELSE Session(w, [w EXCEPT !.comp = NoContext,
                            !.doc[c] = [text |-> @.text \o text, comp |-> <<>>]])

\* The text is committed and the rest is composed anew, or not.
RequestCommitAndRestart(w, c, text, rest) ==
  IF w.comp # c THEN {Result(FALSE, w)}
  ELSE LET committed == [w EXCEPT !.comp = NoContext,
                                  !.doc[c] = [text |-> @.text \o text, comp |-> <<>>]]
       IN {Result(TRUE, [committed EXCEPT !.comp = c, !.doc[c].comp = rest])}
            \cup Refused(w) \cup Refused(committed)

\* The n characters before the caret are replaced, composed or not.
RequestTextReplacement(w, c, n, text) ==
  LET all == w.doc[c].text \o w.doc[c].comp
      kept == IF n < Len(all) THEN Len(all) - n ELSE 0
      new == SubSeq(all, 1, kept) \o text
      old == Len(w.doc[c].text)
      border == IF w.comp # c THEN Len(new) ELSE IF kept < old THEN kept ELSE old
  IN Session(w, [w EXCEPT !.doc[c] = [text |-> SubSeq(new, 1, border),
                                      comp |-> SubSeq(new, border + 1, Len(new))]])

-----------------------------------------------------------------------------
(* The service's own steps, from a state of it to the set of their results *)

IsComposing(w) == w.input # <<>> \/ w.comp # NoContext \/ w.preedit > 0

\* Mutant: preedit_length_ is not reset.
ClearCompositionStateKeepsLength(w) ==
  [w EXCEPT !.input = <<>>, !.pending = FALSE, !.shown = NoPage, !.last = <<>>]

ClearCompositionState(w) ==
  [w EXCEPT !.input = <<>>, !.preedit = 0, !.pending = FALSE,
            !.shown = NoPage, !.last = <<>>]

\* Mutant: any page that was asked for counts as the input's.
RefreshCandidatesAnyPage(w) ==
  IF w.ready /\ w.input # <<>> /\ w.last # <<>> THEN {w}
  ELSE IF w.input = <<>> \/ ~w.ready
    THEN {[w EXCEPT !.shown = NoPage, !.last = <<>>]}
    ELSE {[w EXCEPT !.shown = [of |-> w.input, gen |-> w.gen], !.last = w.input]}

\* The page is asked for again only when the input has changed; the answer
\* may hold no candidates.
RefreshCandidates(w) ==
  IF w.ready /\ w.input # <<>> /\ w.last = w.input THEN {w}
  ELSE IF w.input = <<>> \/ ~w.ready
    THEN {[w EXCEPT !.shown = NoPage, !.last = <<>>]}
    ELSE {[w EXCEPT !.shown = p, !.last = w.input]
            : p \in {[of |-> w.input, gen |-> w.gen], NoPage}}

UpdatePreedit(w, c, text) ==
  LET Shown(r) == IF r.ok THEN Result(TRUE, [r.w EXCEPT !.preedit = Len(text)]) ELSE r
  IN UNION {IF r.ok THEN {Shown(r)}
            ELSE {Shown(q) : q \in RequestTextReplacement(r.w, c, w.preedit, text)}
              : r \in RequestUpdate(w, c, text)}

CommitText(w, c, text) ==
  LET Done(r) == IF r.ok THEN Result(TRUE, ClearCompositionState(r.w)) ELSE r
      first == IF w.comp = NoContext THEN {Result(FALSE, w)} ELSE RequestCommit(w, c, text)
  IN UNION {IF r.ok THEN {Done(r)}
            ELSE {Done(q) : q \in RequestTextReplacement(r.w, c, w.preedit, text)}
              : r \in first}

\* A preedit without a composition stays in the document: the replacement is
\* tried only after the composition has been tried in vain.
CancelComposition(w, c) ==
  LET first == IF c = NoContext \/ w.comp = NoContext THEN {Result(TRUE, w)}
               ELSE RequestCommit(w, c, <<>>)
      second(r) == IF r.ok \/ w.preedit = 0 THEN {r}
                   ELSE RequestTextReplacement(r.w, c, w.preedit, <<>>)
  IN {Result(q.ok, ClearCompositionState(q.w)) : q \in UNION {second(r) : r \in first}}

\* InitializeRime: with an engine, or without one.
InitializeRime(w) ==
  IF w.ready THEN {w}
  ELSE {w} \cup (IF w.gen < MaxGen THEN {[w EXCEPT !.ready = TRUE, !.gen = @ + 1]} ELSE {})

\* The engine is deployed anew, or lost.
Restarted(w) ==
  (IF w.gen < MaxGen THEN {[w EXCEPT !.ready = TRUE, !.gen = @ + 1]} ELSE {})
    \cup (IF w.failures < MaxFailures THEN {[Failed(w) EXCEPT !.ready = FALSE]} ELSE {})

\* A candidate for the first letters was chosen: its text is committed and the
\* composition goes on with the rest, at the second try if need be.  When
\* nothing was committed the document keeps the whole preedit.
CommitTextAndContinueComposition(w, c, text, rest) ==
  LET begun == [w EXCEPT !.pending = TRUE]
      Again(r) == IF r.ok \/ r.w.comp # NoContext THEN {r} ELSE RequestUpdate(r.w, c, rest)
      First(q) == IF q.ok THEN RequestUpdate([q.w EXCEPT !.preedit = 0], c, rest) ELSE {}
      replaced == RequestTextReplacement(begun, c, w.preedit, text)
      tries == IF w.comp # NoContext
                 THEN UNION {Again(r) : r \in RequestCommitAndRestart(begun, c, text, rest)}
                 ELSE (UNION {Again(r) : r \in UNION {First(q) : q \in replaced}})
                        \cup {q \in replaced : ~q.ok}
      Kept(r) == RefreshCandidates(
                   [r.w EXCEPT !.input = rest, !.last = <<>>, !.pending = ~r.ok,
                               !.preedit = IF r.w.comp # NoContext THEN Len(rest) ELSE 0])
  IN UNION {IF r.w.doc # w.doc THEN Kept(r) ELSE {r.w} : r \in tries}

\* What the engine makes of a choice: the number of letters its candidate
\* stands for, and the rest.  It makes the candidate anew from the input; one
\* that was restarted since the page was asked for has others.
Choices(w, k) ==
  IF ~w.ready \/ w.input = <<>> THEN {}
  ELSE IF w.shown = [of |-> w.input, gen |-> w.gen] THEN {k} ELSE 1..Len(w.input)

\* Without an answer the text shown is committed, and what it does not stand
\* for is dropped.
CommitCandidate(w, c, k) ==
  LET First_(j) == SubSeq(w.input, 1, j)
      Chosen(j) == IF j = Len(w.input)
                     THEN {r.w : r \in CommitText(w, c, w.input)}
                     ELSE CommitTextAndContinueComposition(
                            [w EXCEPT !.input = SubSeq(@, j + 1, Len(@))], c,
                            First_(j), SubSeq(w.input, j + 1, Len(w.input)))
      Unanswered(v) == {r.w : r \in CommitText(v, c, SubSeq(w.shown.of, 1, k))}
  IN (UNION {Chosen(j) : j \in Choices(w, k)})
       \cup (IF Choices(w, k) = {} THEN Unanswered(w)
             ELSE IF w.failures < MaxFailures THEN Unanswered(Failed(w)) ELSE {})

\* A key arrives in c: what is composed elsewhere is given up.
Entered(w, c) ==
  IF w.active = c THEN {w}
  ELSE {[v EXCEPT !.active = c]
          : v \in IF IsComposing(w) THEN {r.w : r \in CancelComposition(w, w.active)} ELSE {w}}

-----------------------------------------------------------------------------
(* Keys                                                                    *)

Becomes(W) == /\ ~ts.undefined
              /\ ts' \in W

\* A composition that was terminated while a commit went on is shown again
\* before the letter is added; a letter that cannot be shown ends everything.
Letter(c) ==
  LET l == typed + 1
      Recovered(w) ==
        IF w.input # <<>> /\ w.comp = NoContext /\ w.preedit = 0
          THEN {IF r.ok THEN [r.w EXCEPT !.pending = FALSE] ELSE r.w
                  : r \in UpdatePreedit(w, c, w.input)}
          ELSE {w}
      Queried(w) == UNION {IF v.ready THEN RefreshCandidates(v) ELSE {[v EXCEPT !.shown = NoPage]}
                             : v \in InitializeRime([w EXCEPT !.input = Append(@, l)])}
      Shown(w) == {IF r.ok THEN r.w ELSE ClearCompositionState(r.w)
                     : r \in UpdatePreedit(w, c, w.input)}
  IN /\ l \in Letters
     /\ typed' = l
     /\ Becomes(UNION {Shown(w) : w \in UNION {Queried(w)
                  : w \in UNION {Recovered(w) : w \in Entered(ts, c)}}})
     /\ UNCHANGED <<restarting, strayed>>

\* The keys that are handled only while something is composed (W is what they
\* lead to): in a field just entered they may find nothing.
Composing(c) == {w \in Entered(ts, c) : IsComposing(w)}
Handled(c, W) ==
  /\ IsComposing(ts)
  /\ Becomes(W \cup {w \in Entered(ts, c) : ~IsComposing(w)})
  /\ UNCHANGED <<typed, restarting, strayed>>

\* pop_back of an empty composition_input_ is undefined: one outcome is the end
\* of the application.
Backspace(c) ==
  LET Shown(w) ==
        IF w.input = <<>> THEN {r.w : r \in CancelComposition(w, c)}
        ELSE {IF r.ok THEN r.w ELSE ClearCompositionState(r.w)
                : r \in UpdatePreedit(w, c, w.input)}
      Popped(w) ==
        IF w.input = <<>> THEN {[w EXCEPT !.undefined = TRUE]}
        ELSE UNION {Shown(v) : v \in
               RefreshCandidates([w EXCEPT !.input = SubSeq(@, 1, Len(@) - 1)])}
  IN Handled(c, UNION {Popped(w) : w \in Composing(c)})

Escape(c) == Handled(c, UNION {{r.w : r \in CancelComposition(w, c)} : w \in Composing(c)})

Return(c) == Handled(c, UNION {{r.w : r \in CommitText(w, c, w.input)} : w \in Composing(c)})

\* Space, or a digit: the candidate k letters long; without candidates the
\* letters themselves.
Select(c, k) ==
  LET Chosen(w) == IF w.shown.of = <<>> THEN {r.w : r \in CommitText(w, c, w.input)}
                   ELSE IF k <= Len(w.shown.of) THEN CommitCandidate(w, c, k) ELSE {}
  IN Handled(c, UNION {Chosen(w) : w \in Composing(c)})

\* A punctuation mark commits the text shown without asking the engine.
Punctuation(c, k) ==
  LET Shown(w) == IF w.shown.of = <<>> THEN w.input ELSE SubSeq(w.shown.of, 1, k)
      Sent(w) == IF k > Len(w.shown.of) /\ w.shown.of # <<>> THEN {}
                 ELSE {r.w : r \in CommitText(w, c, Shown(w))}
  IN Handled(c, UNION {Sent(w) : w \in Composing(c)})

\* A click on a candidate, in the context the composition was begun in.
Click(k) ==
  /\ ts.active # NoContext
  /\ k \in 1..Len(ts.shown.of)
  /\ Becomes(CommitCandidate(ts, ts.active, k))
  /\ UNCHANGED <<typed, restarting, strayed>>

\* Shift or CapsLock changes the mode: first the letters are committed, in the
\* context of the key, which need not be the active one.
ModeKey(c) ==
  /\ ts.input # <<>>
  /\ Becomes({r.w : r \in CommitText(ts, c, ts.input)})
  /\ strayed' = (strayed \/ c # ts.active)
  /\ UNCHANGED <<typed, restarting>>

-----------------------------------------------------------------------------
(* Everything else that reaches the service                                *)

\* The application ends the composition; its text stays.
OnCompositionTerminated ==
  LET c == ts.comp
      left == [ts EXCEPT !.comp = NoContext,
                         !.doc[c] = [text |-> @.text \o @.comp, comp |-> <<>>]]
  IN /\ c # NoContext
     /\ Becomes({IF ts.pending /\ ts.input # <<>> THEN [left EXCEPT !.preedit = 0]
                 ELSE ClearCompositionState(left)})
     /\ UNCHANGED <<typed, restarting, strayed>>

OnFocusLost ==
  /\ Becomes({r.w : r \in CancelComposition(ts, ts.active)})
  /\ UNCHANGED <<typed, restarting, strayed>>

\* The composition is released; its text stays.
Deactivate ==
  LET left == IF ts.comp = NoContext THEN ts
              ELSE [ts EXCEPT !.comp = NoContext,
                              !.doc[ts.comp] = [text |-> @.text \o @.comp, comp |-> <<>>]]
  IN /\ Becomes({[ClearCompositionState(left) EXCEPT !.active = NoContext]})
     /\ UNCHANGED <<typed, restarting, strayed>>

\* WarmUpRimeAsync, on a thread of its own.
WarmUp ==
  /\ Becomes(InitializeRime(ts))
  /\ UNCHANGED <<typed, restarting, strayed>>

\* The user restarts the service from its menu; uninstalling it only stops the
\* engine.  The composition stays in the document.
RestartRimeAndAlgorithmService ==
  /\ Becomes(Restarted(ClearCompositionState(ts)))
  /\ UNCHANGED <<typed, restarting, strayed>>

ShutdownRimeForUninstall ==
  /\ Becomes({[ClearCompositionState(ts) EXCEPT !.ready = FALSE]})
  /\ UNCHANGED <<typed, restarting, strayed>>

\* Settings were applied: the composition is cleared at once, the engine is
\* restarted by a thread.
RestartRimeAndAlgorithmServiceAsync ==
  /\ ~restarting
  /\ restarting' = TRUE
  /\ Becomes({ClearCompositionState(ts)})
  /\ UNCHANGED <<typed, strayed>>

ReloadRimeAndAlgorithmService ==
  /\ restarting
  /\ restarting' = FALSE
  /\ Becomes(Restarted(ts))
  /\ UNCHANGED <<typed, strayed>>

Next ==
  \/ \E c \in Contexts :
       \/ Letter(c) \/ Backspace(c) \/ Escape(c) \/ Return(c) \/ ModeKey(c)
       \/ \E k \in Letters : Select(c, k) \/ Punctuation(c, k)
  \/ \E k \in Letters : Click(k)
  \/ OnCompositionTerminated \/ OnFocusLost \/ Deactivate \/ WarmUp
  \/ RestartRimeAndAlgorithmService \/ ShutdownRimeForUninstall
  \/ RestartRimeAndAlgorithmServiceAsync \/ ReloadRimeAndAlgorithmService

Spec == Init /\ [][Next]_vars

-----------------------------------------------------------------------------
(* Properties                                                              *)

IsPrefix(s, t) == Len(s) <= Len(t) /\ s = SubSeq(t, 1, Len(s))
Text(w, c) == w.doc[c].text \o w.doc[c].comp

\* Every variable keeps its type, and only the range of a composition that the
\* service holds is composed text.
TypeOK ==
  LET Strings == Seq(0..MaxLetters) IN
  /\ \A c \in Contexts : /\ ts.doc[c].text \in Strings /\ ts.doc[c].comp \in Strings
                         /\ ts.doc[c].comp # <<>> => ts.comp = c
  /\ ts.input \in Seq(Letters) /\ ts.last \in Seq(Letters)
  /\ {ts.comp, ts.active} \subseteq Contexts \cup {NoContext}
  /\ ts.preedit \in 0..MaxLetters
  /\ ts.shown.of \in Seq(Letters) /\ ts.shown.gen \in 0..ts.gen
  /\ ts.gen \in 0..MaxGen /\ ts.failures \in 0..MaxFailures
  /\ {ts.pending, ts.ready, ts.undefined, restarting, strayed} \subseteq BOOLEAN
  /\ typed \in 0..MaxLetters

\* The text of c that is not the preedit of the moment.
Settled(w, c) ==
  IF w.comp = c \/ w.active # c THEN w.doc[c].text
  ELSE SubSeq(w.doc[c].text, 1, Len(w.doc[c].text) - w.preedit)
\* While no edit session is refused and no mode key has come from another field
\* than the input's, letters reach the documents in the order typed and once:
\* the partial commits of CommitTextAndContinueComposition neither repeat nor
\* swap them, and none appears in two documents.
InOrder ==
  ts.failures = 0 /\ ~strayed =>
    \A c \in Contexts : LET text == Text(ts, c) IN
      /\ \A i, j \in 1..Len(text) : i < j => text[i] < text[j]
      /\ \A d \in Contexts \ {c} : Range(text) \cap Range(Text(ts, d)) \subseteq {Own}

\* While no edit session is refused, what the user sees as preedit is the input,
\* in the active context, preedit_length_ is its length, and the candidates
\* shown were asked for this input: the query that RefreshCandidates remembers
\* is never stale.
InputShown ==
  ts.failures = 0 =>
    /\ ts.input # <<>> => /\ ts.comp = ts.active /\ ts.doc[ts.comp].comp = ts.input
                          /\ ts.preedit = Len(ts.input)
    /\ ts.shown.of \in {<<>>, ts.input}

\* The keys and clicks after which the letters of the input must be somewhere.
Commits == \/ \E c \in Contexts \cap {ts.active} :
                \/ Letter(c) \/ Return(c) \/ ModeKey(c) \/ \E k \in Letters : Select(c, k)
           \/ \E k \in Letters : Click(k)

\* No step removes text that is not the preedit of the moment, whichever edit
\* sessions are refused: preedit_length_, by which RequestTextReplacement
\* deletes, never reaches into what was committed or written by others.  And
\* while nothing fails, a letter, a mode key or a key that commits drops no
\* letter of the input, also when the candidate stands for a part of it only.
\* The one exception is the step of a mode key from another field than the
\* input's, which deletes there; every step before and after it is covered.
ModeKeyStrays == \E c \in Contexts \ {ts.active} : ModeKey(c)
TextKept ==
  [][/\ ModeKeyStrays \/ \A c \in Contexts : IsPrefix(Settled(ts, c), Text(ts', c))
     /\ Commits /\ ts'.failures = 0 =>
          Range(ts.input) \subseteq
            Range(ts'.input) \cup UNION {Range(Text(ts', c)) : c \in Contexts}]_vars

=============================================================================
