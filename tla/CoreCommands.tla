---------------------------- MODULE CoreCommands ----------------------------
(***************************************************************************)
(* The commands an application may send to the CoreHost process that runs  *)
(* the Rime engine for it, and what serving one does to the engine.  The   *)
(* engine is either absent or up, and then all that later commands can     *)
(* tell of it is the value of the session options (ascii_punct,            *)
(* full_shape, abbrev, ...) set on it: the candidates a client gets depend *)
(* on them.                                                                *)
(***************************************************************************)
EXTENDS Naturals

CONSTANTS
    Options,         \* the values the session options can have
    DefaultOptions,  \* the value a fresh engine starts with
    NoEngine         \* engine_ is null, or not initialized()

ASSUME OptionsAssumption ==
    /\ DefaultOptions \in Options /\ NoEngine \notin Options
    /\ "none" \notin Options \cup {NoEngine}

Engine == Options \cup {NoEngine}

(* "query" is each of reset-composition, candidate-page and select-        *)
(* candidate: they need the engine and leave the options alone.            *)
Command ==
    [op : {"initialize", "query", "redeploy", "shutdown"}, value : {DefaultOptions}]
        \cup [op : {"set"}, value : Options]

(* What the client learns: success or the status message, and, through the *)
(* candidates, the options the engine had.                                 *)
Reply == [ok : BOOLEAN, options : Engine]
NoReply == [ok |-> FALSE, options |-> "none"]

Outcome(e, ok) == [engine |-> e, reply |-> [ok |-> ok, options |-> e]]

(* EnsureInitialized: the engine as it is, or a fresh one, or the failure  *)
(* of librime to start.                                                    *)
EnsureInitialized(e) ==
    IF e # NoEngine THEN {e} ELSE {DefaultOptions, NoEngine}

(* The results CoreHostState::Handle can have for command c on engine e.   *)
Outcomes(c, e) ==
    CASE c.op = "shutdown" -> {Outcome(NoEngine, TRUE)}
      [] c.op = "redeploy" -> {Outcome(DefaultOptions, TRUE), Outcome(NoEngine, FALSE)}
      [] c.op \in {"initialize", "query"} ->
            {Outcome(up, up # NoEngine) : up \in EnsureInitialized(e)}
      [] c.op = "set" ->
            {Outcome(IF up = NoEngine THEN NoEngine ELSE c.value, up # NoEngine) :
                up \in EnsureInitialized(e)}
=============================================================================
