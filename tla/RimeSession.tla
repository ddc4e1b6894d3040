----------------------------- MODULE RimeSession -----------------------------
(***************************************************************************)
(* The life of the engine as one process sees it (tsf_text_service.cpp):   *)
(* who starts it, who restarts it when the settings change, and who sets   *)
(* the options of its session.                                             *)
(*                                                                         *)
(* A process has a text service for each of its threads, and one engine,   *)
(* in its CoreHost.  A text service uses the engine on its own thread      *)
(* ("ui"), on a detached thread that warms it up and on one that restarts  *)
(* it; rime_mutex_ is held for a whole use, which is a list of commands.   *)
(* The commands of different services alternate.  Settings are saved by    *)
(* the settings application or by the menu, and announced by messages that *)
(* only services with a control window hear.                               *)
(*                                                                         *)
(* How a command reaches the host is module CoreHostIpc; what the settings *)
(* select, RimeDeploy; the composition that a restart drops, TextService.  *)
(***************************************************************************)
EXTENDS Integers, Sequences, FiniteSets

CONSTANTS Services,    \* text services a process can have at a time
          Fronts,      \* those the user comes to
          MaxEvents,   \* bound for TLC: settings saved and things going wrong
          MaxSwitches, \* bound for TLC: how many of those are changes of an option
          NoEngine     \* there is no host, or its engine is not initialized

ASSUME SessionAssumption ==
  /\ Fronts \subseteq Services /\ MaxEvents \in Nat /\ MaxSwitches \in Nat
  /\ NoEngine \notin [config : Nat, options : [mode : BOOLEAN, abbrev : BOOLEAN]]

VARIABLES svc,      \* the text services
          engine,   \* what the engine has read, and the session's options
          saved,    \* the same in settings.ini
          owed,     \* messages the settings application will post
          switches, \* how often an option was changed
          missed,   \* history: why the engine has old settings
          trouble   \* history: what went wrong so far

vars == <<svc, engine, saved, owed, switches, missed, trouble>>

\* "config" is all that is read when an engine starts; simplified characters,
\* full shape and punctuation ("mode") and super_abbrev are session options.
Options == [mode : BOOLEAN, abbrev : BOOLEAN]
DefaultOptions == [mode |-> FALSE, abbrev |-> FALSE]
Engine == [config : 0..MaxEvents, options : Options]

Threads == {"ui", "warm", "restart"}
Places == {"rest", "asleep", "waiting", "inside", "ending"}
Goals == {"key", "query", "focus", "options", "restart", "reload", "initialize",
          "shutdown"}
Commands == {"initialize", "reinitialize", "redeploy", "mode", "abbrev", "query",
             "shutdown"}

(* An object that is not there.  refs is ref_count_; ready, warming and    *)
(* restarting are rime_ready_, rime_warmup_requested_ and                  *)
(* rime_restart_requested_; client is rime_ and its initialized_.  at says *)
(* where each thread is, plan what the holder of rime_mutex_ has yet to    *)
(* send.  ahead: an option was read from the settings and has not been set  *)
(* on the engine (not stored in the code).                                 *)
Absent ==
  [phase |-> "absent", refs |-> 0, ready |-> FALSE, client |-> "null",
   options |-> DefaultOptions, warming |-> FALSE, restarting |-> FALSE,
   inbox |-> <<>>, timer |-> FALSE, at |-> [t \in Threads |-> "rest"],
   goal |-> "query", plan |-> <<>>, ahead |-> FALSE]

Init ==
  /\ svc = [s \in Services |-> Absent]
  /\ engine = NoEngine
  /\ saved = [config |-> 0, options |-> DefaultOptions]
  /\ owed = {}
  /\ switches = 0
  /\ missed = {}
  /\ trouble = {}

-----------------------------------------------------------------------------
(* The commands.                                                           *)

Fresh == [config |-> saved.config, options |-> DefaultOptions]

EnsureInitialized(e) == IF e = NoEngine THEN {Fresh, NoEngine} ELSE {e}

\* A mutant: Redeploy returns early when there is an engine.
RedeployedIfAbsent(e) == IF e = NoEngine THEN {Fresh, NoEngine} ELSE {e}

Redeployed(e) == {Fresh, NoEngine}

\* What serving command c of a service with options o can make of engine e.
Served(c, o, e) ==
  CASE c = "shutdown" -> {NoEngine}
    [] c = "redeploy" -> Redeployed(e)
    [] c \in {"mode", "abbrev"} ->
         {IF up = NoEngine THEN NoEngine ELSE [up EXCEPT !.options[c] = o[c]] :
            up \in EnsureInitialized(e)}
    [] OTHER -> EnsureInitialized(e)

\* A mutant: an option is forgotten.
SetOptionsModeOnly == <<"mode">>

SetOptions == <<"mode", "abbrev">>

\* ApplyRimeOptionsLocked, called at the end of a use that started the engine.
Starting(c) == <<c>> \o SetOptions

\* A mutant: the status of a redeployment is not looked at.
AnsweredReadyAnyway(r, c, ok) ==
  [r EXCEPT !.ready = c # "shutdown", !.plan = Tail(@),
            !.client = IF c = "shutdown" THEN "null" ELSE IF ok THEN "up" ELSE "down"]

\* The members of service r after the answer to command c: SendRequest reports
\* nothing but success or failure.
Answered(r, c, ok) ==
  LET rest == Tail(r.plan) IN
    CASE c = "initialize" ->
           [r EXCEPT !.ready = ok, !.client = IF ok THEN "up" ELSE @,
                     !.plan = IF ok THEN rest ELSE <<>>]
      [] c = "reinitialize" ->
           [r EXCEPT !.ready = ok, !.client = IF ok THEN "up" ELSE "down",
                     !.plan = IF ok THEN rest ELSE <<>>]
      [] c = "redeploy" ->
           [r EXCEPT !.ready = ok /\ Head(rest) # "reinitialize",
                     !.client = IF ok THEN "up" ELSE "down",
                     !.plan = IF ok THEN rest ELSE <<>>]
      [] c = "shutdown" -> [r EXCEPT !.ready = FALSE, !.client = "null", !.plan = rest]
      [] OTHER -> [r EXCEPT !.plan = rest]

HasEngine(r) == r.ready /\ r.client # "null"

\* What a use for goal g sends once it has the mutex.
PlanOf(r, g) ==
  CASE g = "key" -> IF HasEngine(r) THEN <<"query">> ELSE Starting("initialize")
    [] g = "query" -> IF HasEngine(r) THEN <<"query">> ELSE <<>>
    [] g = "initialize" -> IF HasEngine(r) THEN <<>> ELSE Starting("initialize")
    [] g \in {"focus", "options"} -> IF HasEngine(r) THEN SetOptions ELSE <<>>
    [] g = "restart" -> Starting("redeploy")
    [] g = "reload" -> <<"redeploy">> \o Starting("reinitialize")
    [] g = "shutdown" -> IF r.client = "null" THEN <<>> ELSE <<"shutdown">>

\* A restart makes a new client, which is not initialized.
Locked(r, g) ==
  LET new == IF g \in {"restart", "reload"}
             THEN [r EXCEPT !.client = "down", !.ready = FALSE] ELSE r
      plan == PlanOf(r, g)
  IN [new EXCEPT !.plan = plan, !.ahead = @ /\ "abbrev" \notin {plan[i] : i \in DOMAIN plan}]

-----------------------------------------------------------------------------
(* References and threads.                                                 *)

AddRef(r) == [r EXCEPT !.refs = @ + 1]

\* The last Release deletes the object.
Release(r) == IF r.refs = 1 THEN Absent ELSE [r EXCEPT !.refs = @ - 1]

Holder(r) == {t \in Threads : r.at[t] = "inside"}

Waiting(r, g) == [r EXCEPT !.at["ui"] = "waiting", !.goal = g]

\* A mutant: the thread takes no reference.
WarmUpRimeAsyncBorrowed(r) ==
  IF r.phase # "active" \/ r.ready \/ r.warming THEN r
  ELSE [r EXCEPT !.warming = TRUE, !.at["warm"] = "asleep"]

WarmUpRimeAsync(r) ==
  IF r.phase # "active" \/ r.ready \/ r.warming THEN r
  ELSE AddRef([r EXCEPT !.warming = TRUE, !.at["warm"] = "asleep"])

RestartRimeAndAlgorithmServiceAsync(r) ==
  IF r.phase # "active" \/ r.restarting THEN r
  ELSE AddRef([r EXCEPT !.restarting = TRUE, !.at["restart"] = "waiting"])

\* LoadUserSettings as ShowStatusTip calls it: not if it has been done in the
\* last 1.5 s.
LoadUserSettings(r) ==
  {r, [r EXCEPT !.options.abbrev = saved.options.abbrev,
                !.ahead = @ \/ r.options.abbrev # saved.options.abbrev]}

\* The toolbar refresh reads the mode flags (ApplyInputStateFromSettings) and
\* sets no option.
RefreshToolbarFromSettings(r) ==
  [r EXCEPT !.options.mode = saved.options.mode,
            !.ahead = @ \/ r.options.mode # saved.options.mode]

\* Thread t of service r leaves the mutex when it has nothing more to send.
Continued(r, t) ==
  LET out == [r EXCEPT !.at[t] = "rest", !.goal = "query"] IN
    IF r.plan # <<>> THEN {r}
    ELSE IF t # "ui" THEN {[r EXCEPT !.at[t] = "ending"]}
    ELSE CASE r.goal = "key" ->
                {IF r.ready THEN Waiting(r, "query") ELSE WarmUpRimeAsync(out)}
           [] r.goal = "focus" -> LoadUserSettings(WarmUpRimeAsync(out))
           [] OTHER -> {out}

-----------------------------------------------------------------------------
(* Messages.                                                               *)

Active == {s \in Services : svc[s].phase = "active"}

\* A message for all control windows.
Posted(services, m) ==
  [s \in Services |-> IF services[s].phase = "active"
                      THEN [services[s] EXCEPT !.inbox = Append(@, m)]
                      ELSE services[s]]

Contains(queue, m) == \E i \in DOMAIN queue : queue[i] = m

Becomes(s, r) == svc' = [svc EXCEPT ![s] = r]

Idle(s) == svc[s].phase = "active" /\ svc[s].at["ui"] = "rest"

Events == saved.config + switches + Cardinality(trouble)

GoesWrong(what) ==
  /\ Events < MaxEvents
  /\ trouble' = trouble \cup {what}

Switch(options) ==
  /\ Events < MaxEvents /\ switches < MaxSwitches
  /\ switches' = switches + 1
  /\ saved' = [saved EXCEPT !.options = options]

\* The settings application saves a setting of the engine, or super_abbrev, and
\* posts a message about it some time later, unless it saves another one first.
SaveConfig ==
  /\ Events < MaxEvents
  /\ saved' = [saved EXCEPT !.config = @ + 1]
  /\ owed' = owed \cup {"apply"}
  /\ UNCHANGED <<svc, engine, switches, missed, trouble>>

SaveAbbrev ==
  /\ Switch([saved.options EXCEPT !.abbrev = ~@])
  /\ owed' = owed \cup {"refresh"}
  /\ UNCHANGED <<svc, engine, missed, trouble>>

\* The menu of a service in another process, which has an engine of its own.
MenuElsewhere ==
  /\ Switch([saved.options EXCEPT !.mode = ~@])
  /\ svc' = Posted(svc, "toolbar")
  /\ UNCHANGED <<engine, owed, missed, trouble>>

RequestDeferred(m) ==
  /\ m \in owed
  /\ owed' = owed \ {m}
  /\ svc' = Posted(svc, m)
  /\ missed' = IF m = "apply" /\ Active = {} /\ engine # NoEngine
               THEN missed \cup {"unheard"} ELSE missed
  /\ UNCHANGED <<engine, saved, switches, trouble>>

-----------------------------------------------------------------------------
(* The thread of the text service.                                         *)

\* Windows makes a new text service for the thread.
Activate(s) ==
  /\ svc[s].phase = "absent"
  /\ Becomes(s, [Absent EXCEPT !.phase = "active", !.refs = 1, !.options = saved.options])
  /\ UNCHANGED <<engine, saved, owed, switches, missed, trouble>>

\* DestroyControlWindow takes messages and timer with it; then Windows lets the
\* object go.
Deactivate(s) ==
  /\ Idle(s)
  /\ Becomes(s, Release([svc[s] EXCEPT !.phase = "inactive", !.inbox = <<>>,
                                       !.timer = FALSE]))
  /\ missed' =
       missed \cup (IF engine # NoEngine /\ (svc[s].timer \/ Contains(svc[s].inbox, "apply"))
                   THEN {"unheard"} ELSE {})
              \cup (IF svc[s].refs > 1 \/ svc[s].ahead \/ svc[s].options # saved.options
                   THEN {"left"} ELSE {})
  /\ UNCHANGED <<engine, saved, owed, switches, trouble>>

Key(s) ==
  /\ Idle(s)
  /\ Becomes(s, Waiting(svc[s], "key"))
  /\ UNCHANGED <<engine, saved, owed, switches, missed, trouble>>

OnSetFocus(s) ==
  /\ Idle(s)
  /\ Becomes(s, Waiting([svc[s] EXCEPT !.options.mode = saved.options.mode], "focus"))
  /\ UNCHANGED <<engine, saved, owed, switches, missed, trouble>>

ShowStatusTip(s) ==
  /\ Idle(s)
  /\ \E r \in LoadUserSettings(svc[s]) : Becomes(s, r)
  /\ UNCHANGED <<engine, saved, owed, switches, missed, trouble>>

\* One of the menu's switches.
HandleLangBarMenuCommand(s) ==
  LET new == ~svc[s].options.mode IN
    /\ Idle(s)
    /\ Switch([saved.options EXCEPT !.mode = new])
    /\ svc' = Posted([svc EXCEPT ![s] = Waiting([@ EXCEPT !.options.mode = new], "options")],
                     "toolbar")
    /\ UNCHANGED <<engine, owed, missed, trouble>>

RestartRimeAndAlgorithmService(s) ==
  /\ Idle(s)
  /\ Becomes(s, Waiting(svc[s], "restart"))
  /\ UNCHANGED <<engine, saved, owed, switches, missed, trouble>>

ShutdownRimeForUninstall(s) ==
  /\ Idle(s)
  /\ Becomes(s, Waiting(svc[s], "shutdown"))
  /\ GoesWrong("uninstall")
  /\ UNCHANGED <<engine, saved, owed, switches, missed>>

\* Options are set only if the settings differ from those in memory.
RefreshInputStateFromSettings(r) ==
  IF r.options = saved.options THEN r
  ELSE Waiting([r EXCEPT !.options = saved.options], "options")

ControlWindowProc(s) ==
  LET taken == [svc[s] EXCEPT !.inbox = Tail(@)] IN
    /\ Idle(s) /\ svc[s].inbox # <<>>
    /\ Becomes(s, CASE Head(svc[s].inbox) = "apply" -> [taken EXCEPT !.timer = TRUE]
                    [] Head(svc[s].inbox) = "refresh" -> RefreshInputStateFromSettings(taken)
                    [] Head(svc[s].inbox) = "toolbar" -> RefreshToolbarFromSettings(taken))
    /\ UNCHANGED <<engine, saved, owed, switches, missed, trouble>>

\* The toolbar refresh that a change of focus, of the toolbar or of a theme posts.
ToolbarRefreshed(s) ==
  /\ Idle(s)
  /\ Becomes(s, RefreshToolbarFromSettings(svc[s]))
  /\ UNCHANGED <<engine, saved, owed, switches, missed, trouble>>

\* 800 ms after the last such message.
RestartTimer(s) ==
  LET r == [svc[s] EXCEPT !.timer = FALSE] IN
    /\ Idle(s) /\ svc[s].timer
    /\ Becomes(s, RestartRimeAndAlgorithmServiceAsync(r))
    /\ missed' = IF svc[s].restarting /\ engine # NoEngine
                 THEN missed \cup {"dropped"} ELSE missed
    /\ UNCHANGED <<engine, saved, owed, switches, trouble>>

-----------------------------------------------------------------------------
(* Steps of all threads.                                                   *)

\* The warm-up looks at service_active_, and not again.
WarmUpWakes(s) ==
  /\ svc[s].at["warm"] = "asleep" /\ Holder(svc[s]) = {}
  /\ Becomes(s, [svc[s] EXCEPT !.at["warm"] = IF svc[s].phase = "active" THEN "waiting"
                                              ELSE "ending"])
  /\ UNCHANGED <<engine, saved, owed, switches, missed, trouble>>

GoalOf(r, t) ==
  CASE t = "ui" -> r.goal [] t = "warm" -> "initialize" [] t = "restart" -> "reload"

Enter(s, t) ==
  /\ svc[s].at[t] = "waiting" /\ Holder(svc[s]) = {}
  /\ \E r \in Continued([Locked(svc[s], GoalOf(svc[s], t)) EXCEPT !.at[t] = "inside"], t) :
       Becomes(s, r)
  /\ UNCHANGED <<engine, saved, owed, switches, missed, trouble>>

\* The host serves the next command of the holder.  An engine that fails, or
\* is a new one, has no old settings.
Call(s, t) ==
  LET c == Head(svc[s].plan) IN
    /\ svc[s].at[t] = "inside"
    /\ \E e \in Served(c, svc[s].options, engine) :
         /\ engine' = e
         /\ \E r \in Continued(Answered(svc[s], c, e # NoEngine), t) : Becomes(s, r)
         /\ missed' = IF c = "redeploy" \/ engine = NoEngine \/ e = NoEngine THEN missed \cap {"left"} ELSE missed
         /\ IF e = NoEngine /\ c # "shutdown" THEN GoesWrong("engine")
            ELSE UNCHANGED trouble
    /\ UNCHANGED <<saved, owed, switches>>

\* The pipe stays busy too long: nothing is sent.  The results of SetOption are
\* not looked at.
CallFails(s, t) ==
  /\ svc[s].at[t] = "inside"
  /\ \E r \in Continued(Answered(svc[s], Head(svc[s].plan), FALSE), t) : Becomes(s, r)
  /\ GoesWrong("call")
  /\ UNCHANGED <<engine, saved, owed, switches, missed>>

\* A thread clears its flag and releases the object.
ThreadEnds(s, t) ==
  LET r == [svc[s] EXCEPT !.at[t] = "rest",
                          !.warming = @ /\ t # "warm",
                          !.restarting = @ /\ t # "restart"]
  IN /\ svc[s].at[t] = "ending" /\ Holder(svc[s]) = {}
     /\ Becomes(s, Release(r))
     /\ UNCHANGED <<engine, saved, owed, switches, missed, trouble>>

\* The host crashes; the next request finds, or makes, another one.
HostLost ==
  /\ engine # NoEngine
  /\ engine' = NoEngine
  /\ missed' = missed \cap {"left"}
  /\ GoesWrong("host")
  /\ UNCHANGED <<svc, saved, owed, switches>>

-----------------------------------------------------------------------------
ThreadStep(s, t) ==
  \/ Enter(s, t)
  \/ Call(s, t)
  \/ CallFails(s, t)
  \/ ThreadEnds(s, t)

\* What the user does in service s.
UserTurn(s) ==
  \/ Key(s)
  \/ OnSetFocus(s)
  \/ ShowStatusTip(s)
  \/ HandleLangBarMenuCommand(s)
  \/ RestartRimeAndAlgorithmService(s)

Next ==
  \/ SaveConfig
  \/ SaveAbbrev
  \/ MenuElsewhere
  \/ \E m \in {"apply", "refresh"} : RequestDeferred(m)
  \/ \E s \in Services :
       \/ Activate(s)
       \/ Deactivate(s)
       \/ s \in Fronts /\ UserTurn(s)
       \/ ShutdownRimeForUninstall(s)
       \/ ControlWindowProc(s)
       \/ ToolbarRefreshed(s)
       \/ RestartTimer(s)
       \/ WarmUpWakes(s)
       \/ \E t \in Threads : ThreadStep(s, t)
  \/ HostLost

Spec == Init /\ [][Next]_vars

-----------------------------------------------------------------------------
ServiceType ==
  [phase : {"absent", "active", "inactive"}, refs : 0..3, ready : BOOLEAN,
   client : {"null", "up", "down"}, options : Options, warming : BOOLEAN,
   restarting : BOOLEAN, inbox : Seq({"apply", "refresh", "toolbar"}), timer : BOOLEAN,
   at : [Threads -> Places], goal : Goals, plan : Seq(Commands), ahead : BOOLEAN]

(* The type invariant; a service refers to itself at most three times, and *)
(* rime_mutex_ has one holder.                                             *)
TypeOK ==
  /\ svc \in [Services -> ServiceType]
  /\ \A s \in Services : Cardinality(Holder(svc[s])) <= 1
  /\ engine \in Engine \cup {NoEngine}
  /\ saved \in Engine
  /\ owed \subseteq {"apply", "refresh"}
  /\ switches \in 0..MaxSwitches
  /\ missed \subseteq {"dropped", "unheard", "left"}
  /\ trouble \subseteq {"engine", "call", "host", "uninstall"}

(* A detached thread never runs on a text service that is deleted: the     *)
(* reference taken before it starts (tsf_text_service.cpp:7702, 9735)      *)
(* lasts until it ends, and the mutex it waits for has one holder (TypeOK). *)
Alive ==
  TypeOK /\ \A s \in Services :
    /\ svc[s].refs = Cardinality({t \in Threads \ {"ui"} : svc[s].at[t] # "rest"})
                       + (IF svc[s].phase = "active" THEN 1 ELSE 0)
    /\ svc[s].phase = "absent" => \A t \in Threads : svc[s].at[t] = "rest"

(* Between the uses of the engine, a service that takes it to be ready has *)
(* a client that is initialized: otherwise every key would silently get no *)
(* candidates and nothing would start an engine (SetOption and queries of  *)
(* a client that is not initialized do nothing, EnsureRimeReadyForKey asks *)
(* rime_ready_ only).                                                      *)
ReadyIsInitialized ==
  \A s \in Services : svc[s].ready /\ Holder(svc[s]) = {} => svc[s].client = "up"

Settled ==
  /\ owed = {}
  /\ \A s \in Services :
       /\ svc[s].inbox = <<>> /\ ~svc[s].timer
       /\ svc[s].at["ui"] = "rest" /\ svc[s].at["restart"] = "rest"
       /\ Holder(svc[s]) = {}

(* Once everybody is done with the messages about a change, the engine has *)
(* read it, unless the request was dropped because a restart was under way *)
(* (line 9725), nobody heard it, or a call failed without the host's noticing *)
(* (ReloadRimeAndAlgorithmService then leaves the old engine to the next   *)
(* Initialize).                                                            *)
ConfigInForce ==
  Settled /\ engine # NoEngine /\ "call" \notin trouble
    => engine.config = saved.config \/ missed \cap {"dropped", "unheard"} # {}

(* Then the options of the session are those in the settings, after one    *)
(* change of an option (and any of the configuration) during which nothing *)
(* went wrong, whoever restarted the shared engine and whoever set options *)
(* meanwhile, unless a service read the option into memory without setting *)
(* it (ShowStatusTip reads super_abbrev, the toolbar refresh the modes),   *)
(* so that the refresh saw no difference (line 7034), or a service left    *)
(* with old options: it may have set them last.  After two changes, back   *)
(* and forth, a service that hears of both at once sees no difference and  *)
(* leaves what others set between.                                         *)
OptionsInForce ==
  /\ Settled /\ engine # NoEngine /\ trouble = {}
  /\ switches <= 1 /\ "left" \notin missed /\ \A s \in Services : ~svc[s].ahead
  /\ \E s \in Services : svc[s].phase = "active" /\ svc[s].ready
  => engine.options = saved.options
=============================================================================
