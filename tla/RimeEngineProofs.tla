-------------------------- MODULE RimeEngineProofs ---------------------------
(***************************************************************************)
(* What holds of the Rime engine.                                          *)
(*                                                                         *)
(* First of RimeSession, its life for any number of text services,         *)
(* services that the user comes to, events and changes of options.         *)
(* Every service is Fine: it rests, or one of its threads is inside the    *)
(* mutex with a plan of commands that starts from nothing (Plans); the     *)
(* references are those of its thread manager and its detached threads.    *)
(* ConfigOwed adds that an engine with an old configuration is going to be *)
(* restarted, as long as somebody heard of the change.  OptionsOwed, for   *)
(* the options, is said of states in which nothing has gone wrong and one  *)
(* option was changed: an option of the session that is not the saved one  *)
(* is going to be set by a service that is ready, for one that is ready    *)
(* and behind the settings, or about to set the options, or in the middle  *)
(* of it, exists until the session has them.  The steps in which a service *)
(* only follows the settings are taken together (Plain, Follows).          *)
(*                                                                         *)
(* At the end of RimeDeploy, the folder that the processes with an engine  *)
(* share, for any number of processes, schemes and settings.  The          *)
(* settings may change at any time; the honesty of the cache holds until   *)
(* something fails or a start reads one scheme and writes the files of     *)
(* another.  Its invariant says who still owes a deployment: whenever a    *)
(* build that passes for fresh is not the one of the files, a process that *)
(* found a file changed is on its way to deploy into its scheme's folder.  *)
(***************************************************************************)
EXTENDS RimeSession, RimeDeploy, FiniteSetTheorems, TLAPS

-----------------------------------------------------------------------------
(* What is true of the record of one service.                              *)

Plans == {<<>>, <<"query">>, <<"shutdown">>, <<"abbrev">>, <<"mode", "abbrev">>,
          <<"initialize", "mode", "abbrev">>, <<"reinitialize", "mode", "abbrev">>,
          <<"redeploy", "mode", "abbrev">>,
          <<"redeploy", "reinitialize", "mode", "abbrev">>}

\* A service has a reference for its thread manager and one for each detached
\* thread that has not ended.
Counted(r) ==
    r.refs = (IF r.phase = "active" THEN 1 ELSE 0)
               + (IF r.at["warm"] = "rest" THEN 0 ELSE 1)
               + (IF r.at["restart"] = "rest" THEN 0 ELSE 1)

\* Where its threads can be; a thread that is not at rest has set its flag.
Placed(r) ==
    /\ r.at["ui"] \in {"rest", "waiting", "inside"}
    /\ r.at["restart"] # "asleep"
    /\ r.at["warm"] # "rest" => r.warming
    /\ r.at["restart"] # "rest" => r.restarting
    /\ r.phase # "active" => r.at["ui"] = "rest" /\ r.inbox = <<>> /\ ~r.timer
    /\ r.phase = "absent" => r.at["warm"] = "rest" /\ r.at["restart"] = "rest"

\* What a use of the engine has yet to send; options are set and candidates
\* asked for when the engine is ready only.
Planned(r) ==
    /\ r.plan \in Plans
    /\ r.plan \in {<<"query">>, <<"mode", "abbrev">>, <<"abbrev">>} => r.ready
    /\ r.ready => r.client = "up"

Alone(r, t) == \A u \in Threads \ {t} : r.at[u] # "inside"

Sound(r) == r \in ServiceType /\ Counted(r) /\ Placed(r) /\ Planned(r)
Resting(r) == Sound(r) /\ r.plan = <<>> /\ \A t \in Threads : r.at[t] # "inside"
Using(r, t) == Sound(r) /\ r.plan # <<>> /\ r.at[t] = "inside" /\ Alone(r, t)
Fine(r) == Resting(r) \/ \E t \in Threads : Using(r, t)

LEMMA Tails ==
    /\ Tail(<<"query">>) = <<>> /\ Tail(<<"shutdown">>) = <<>> /\ Tail(<<"abbrev">>) = <<>>
    /\ Tail(<<"mode", "abbrev">>) = <<"abbrev">>
    /\ Tail(<<"initialize", "mode", "abbrev">>) = <<"mode", "abbrev">>
    /\ Tail(<<"reinitialize", "mode", "abbrev">>) = <<"mode", "abbrev">>
    /\ Tail(<<"redeploy", "mode", "abbrev">>) = <<"mode", "abbrev">>
    /\ Tail(<<"redeploy", "reinitialize", "mode", "abbrev">>) =
         <<"reinitialize", "mode", "abbrev">>
  OBVIOUS

LEMMA Heads ==
    /\ Head(<<"query">>) = "query" /\ Head(<<"shutdown">>) = "shutdown"
    /\ Head(<<"abbrev">>) = "abbrev" /\ Head(<<"mode", "abbrev">>) = "mode"
    /\ Head(<<"initialize", "mode", "abbrev">>) = "initialize"
    /\ Head(<<"reinitialize", "mode", "abbrev">>) = "reinitialize"
    /\ Head(<<"redeploy", "mode", "abbrev">>) = "redeploy"
    /\ Head(<<"redeploy", "reinitialize", "mode", "abbrev">>) = "redeploy"
  OBVIOUS

LEMMA Joined ==
    ASSUME NEW S, NEW s \in Seq(S), NEW t \in Seq(S)
    PROVE  /\ Len(s \o t) = Len(s) + Len(t) /\ s \o t \in Seq(S)
           /\ \A i \in 1..Len(s) : (s \o t)[i] = s[i]
           /\ \A i \in 1..Len(t) : (s \o t)[Len(s) + i] = t[i]
  OBVIOUS

LEMMA Spelled ==
    ASSUME NEW S, NEW u \in Seq(S)
    PROVE  /\ Len(u) = 3 => u = <<u[1], u[2], u[3]>>
           /\ Len(u) = 4 => u = <<u[1], u[2], u[3], u[4]>>
  OBVIOUS

LEMMA StartingIs ==
    ASSUME NEW c \in {"initialize", "reinitialize", "redeploy"}
    PROVE  Starting(c) = <<c, "mode", "abbrev">>
  <1> DEFINE s == <<c>>
             t == <<"mode", "abbrev">>
             u == s \o t
  <1>1. s \in Seq(Commands) /\ t \in Seq(Commands)
    BY DEF Commands
  <1>2. Len(s) = 1 /\ Len(t) = 2 /\ s[1] = c /\ t[1] = "mode" /\ t[2] = "abbrev"
    OBVIOUS
  <1> HIDE DEF s, t
  <1>3. /\ Len(u) = Len(s) + Len(t) /\ u \in Seq(Commands)
        /\ (\A i \in 1..Len(s) : u[i] = s[i]) /\ \A i \in 1..Len(t) : u[Len(s) + i] = t[i]
    BY <1>1, Joined
  <1> HIDE DEF u
  <1>4. Len(u) = 3 /\ u[1] = c /\ u[1 + 1] = "mode" /\ u[1 + 2] = "abbrev"
    BY <1>2, <1>3
  <1>5. 1 + 1 = 2 /\ 1 + 2 = 3
    OBVIOUS
  <1>6. u[2] = "mode" /\ u[3] = "abbrev"
    BY <1>4, <1>5, Zenon
  <1>7. u = <<c, "mode", "abbrev">>
    BY <1>3, <1>4, <1>6, Spelled, Zenon
  <1> QED BY <1>7 DEF Starting, SetOptions, s, t, u

LEMMA ReloadIs ==
    <<"redeploy">> \o Starting("reinitialize") = <<"redeploy", "reinitialize", "mode", "abbrev">>
  <1> DEFINE s == <<"redeploy">>
             t == <<"reinitialize", "mode", "abbrev">>
             u == s \o t
  <1>0. Starting("reinitialize") = t
    BY StartingIs
  <1>1. s \in Seq(Commands) /\ t \in Seq(Commands)
    BY DEF Commands
  <1>2. /\ Len(s) = 1 /\ Len(t) = 3 /\ s[1] = "redeploy"
        /\ t[1] = "reinitialize" /\ t[2] = "mode" /\ t[3] = "abbrev"
    OBVIOUS
  <1> HIDE DEF s, t
  <1>3. /\ Len(u) = Len(s) + Len(t) /\ u \in Seq(Commands)
        /\ (\A i \in 1..Len(s) : u[i] = s[i]) /\ \A i \in 1..Len(t) : u[Len(s) + i] = t[i]
    BY <1>1, Joined
  <1> HIDE DEF u
  <1>4. Len(u) = 4 /\ u[1] = "redeploy" /\ u[1 + 1] = "reinitialize" /\ u[1 + 2] = "mode"
        /\ u[1 + 3] = "abbrev"
    BY <1>2, <1>3
  <1>5. 1 + 1 = 2 /\ 1 + 2 = 3 /\ 1 + 3 = 4
    OBVIOUS
  <1>6. u[2] = "reinitialize" /\ u[3] = "mode" /\ u[4] = "abbrev"
    BY <1>4, <1>5, Zenon
  <1>7. u = <<"redeploy", "reinitialize", "mode", "abbrev">>
    BY <1>3, <1>4, <1>6, Spelled, Zenon
  <1> QED BY <1>0, <1>7 DEF s, t, u

LEMMA PlansTyped == \A p \in Plans : p \in Seq(Commands)
  <1>1. /\ <<>> \in Seq(Commands) /\ <<"query">> \in Seq(Commands)
        /\ <<"shutdown">> \in Seq(Commands) /\ <<"abbrev">> \in Seq(Commands)
        /\ <<"mode", "abbrev">> \in Seq(Commands)
    BY DEF Commands
  <1>2. /\ <<"initialize", "mode", "abbrev">> \in Seq(Commands)
        /\ <<"reinitialize", "mode", "abbrev">> \in Seq(Commands)
        /\ <<"redeploy", "mode", "abbrev">> \in Seq(Commands)
    BY DEF Commands
  <1>3. <<"redeploy", "reinitialize", "mode", "abbrev">> \in Seq(Commands)
    BY DEF Commands
  <1> QED BY <1>1, <1>2, <1>3, Zenon DEF Plans

\* What the ends of a use and the threads it starts leave alone.
Same(q, r) ==
    /\ q.phase = r.phase /\ q.ready = r.ready /\ q.client = r.client /\ q.inbox = r.inbox
    /\ q.timer = r.timer /\ q.plan = r.plan /\ q.restarting = r.restarting
    /\ q.at["restart"] = r.at["restart"] /\ q.options.mode = r.options.mode

LEMMA WarmUpSound ==
    ASSUME NEW r, Sound(r), NEW q, q = WarmUpRimeAsync(r)
    PROVE  /\ Sound(q) /\ Same(q, r) /\ q.options = r.options /\ q.ahead = r.ahead
           /\ q.at["ui"] = r.at["ui"] /\ q.goal = r.goal
           /\ q.at["warm"] = "inside" <=> r.at["warm"] = "inside"
  <1>1. CASE q = r
    BY <1>1 DEF Same
  <1>2. CASE q # r
    <2>1. r.phase = "active" /\ ~r.ready /\ ~r.warming
      BY <1>2 DEF WarmUpRimeAsync
    <2>2. q = [r EXCEPT !.warming = TRUE, !.at["warm"] = "asleep", !.refs = @ + 1]
      BY <1>2, <2>1 DEF WarmUpRimeAsync, AddRef, Sound, ServiceType
    <2>3. r.at["warm"] = "rest" /\ r.refs \in 0..2
      BY <2>1 DEF Sound, Placed, Counted, ServiceType
    <2>4. q \in ServiceType
      <3>1. r \in ServiceType /\ r.refs + 1 \in 0..3
        BY <2>3 DEF Sound
      <3>2. "warm" \in Threads /\ "asleep" \in Places
        BY DEF Threads, Places
      <3> DEFINE at == [r.at EXCEPT !["warm"] = "asleep"]
      <3>3. at \in [Threads -> Places]
        BY <3>1, <3>2 DEF ServiceType
      <3>4. q = [r EXCEPT !.warming = TRUE, !.at = at, !.refs = r.refs + 1]
        BY <2>2
      <3> HIDE DEF at
      <3> QED BY <3>1, <3>3, <3>4 DEF ServiceType
    <2>5. /\ Same(q, r) /\ q.options = r.options /\ q.ahead = r.ahead
          /\ q.at["ui"] = r.at["ui"] /\ q.goal = r.goal /\ q.at["warm"] = "asleep"
          /\ q.warming /\ q.refs = r.refs + 1
      BY <2>2 DEF Sound, ServiceType, Threads, Same
    <2>6. Counted(q)
      BY <2>3, <2>5 DEF Sound, Counted, Same, ServiceType
    <2>7. Placed(q)
      BY <2>1, <2>5 DEF Sound, Placed, Same
    <2>8. Planned(q)
      BY <2>5 DEF Sound, Planned, Same
    <2> QED BY <2>3, <2>4, <2>5, <2>6, <2>7, <2>8 DEF Sound
  <1> QED BY <1>1, <1>2

UiTo(r, p, g) == [r EXCEPT !.at["ui"] = p, !.goal = g]

LEMMA UiMoves ==
    ASSUME NEW r, Sound(r), NEW p \in {"rest", "waiting", "inside"}, NEW g \in Goals,
           p = "rest" \/ r.phase = "active", NEW q, q = UiTo(r, p, g)
    PROVE  /\ Sound(q) /\ Same(q, r) /\ q.options = r.options /\ q.ahead = r.ahead
           /\ q.at["ui"] = p /\ q.goal = g /\ q.at["warm"] = r.at["warm"]
  <1>1. q \in ServiceType
    BY DEF UiTo, Sound, ServiceType, Threads, Places
  <1>2. /\ Same(q, r) /\ q.options = r.options /\ q.ahead = r.ahead
        /\ q.at["ui"] = p /\ q.goal = g /\ q.at["warm"] = r.at["warm"]
        /\ q.refs = r.refs /\ q.warming = r.warming
    BY DEF UiTo, Sound, ServiceType, Threads, Same
  <1>3. Counted(q)
    BY <1>2 DEF Sound, Counted, Same
  <1>4. Placed(q)
    BY <1>2 DEF Sound, Placed, Same
  <1>5. Planned(q)
    BY <1>2 DEF Sound, Planned, Same
  <1> QED BY <1>1, <1>2, <1>3, <1>4, <1>5 DEF Sound

LEMMA OptionsRead ==
    ASSUME NEW r, Sound(r), NEW q \in ServiceType,
           q.at = r.at, q.phase = r.phase, q.ready = r.ready, q.client = r.client,
           q.inbox = r.inbox, q.timer = r.timer, q.plan = r.plan,
           q.restarting = r.restarting, q.refs = r.refs, q.warming = r.warming
    PROVE  Sound(q)
  <1>1. Counted(q)
    BY DEF Sound, Counted
  <1>2. Placed(q)
    BY DEF Sound, Placed
  <1>3. Planned(q)
    BY DEF Sound, Planned
  <1> QED BY <1>1, <1>2, <1>3 DEF Sound

LEMMA SameOptions ==
    ASSUME NEW o \in Options, NEW p \in Options, o.mode = p.mode, o.abbrev = p.abbrev
    PROVE  o = p
  <1>1. o = [mode |-> o.mode, abbrev |-> o.abbrev] /\ p = [mode |-> p.mode, abbrev |-> p.abbrev]
    BY DEF Options
  <1> QED BY <1>1

LEMMA LoadSound ==
    ASSUME saved.options \in Options, NEW r, Sound(r), NEW q, q \in LoadUserSettings(r)
    PROVE  /\ Sound(q) /\ q.at = r.at /\ q.goal = r.goal
           /\ Same(q, r)
           /\ q.options.abbrev = r.options.abbrev \/ q.options.abbrev = saved.options.abbrev
           /\ ~q.ahead => q.options = r.options /\ ~r.ahead
  <1>1. CASE q = r
    BY <1>1 DEF Same
  <1>2. CASE q # r
    <2>1. q = [r EXCEPT !.options.abbrev = saved.options.abbrev,
                        !.ahead = @ \/ r.options.abbrev # saved.options.abbrev]
      BY <1>2 DEF LoadUserSettings
    <2>2. q \in ServiceType
      BY <2>1 DEF Sound, ServiceType, Options
    <2>3. /\ q.at = r.at /\ q.phase = r.phase /\ q.ready = r.ready /\ q.client = r.client
          /\ q.inbox = r.inbox /\ q.timer = r.timer /\ q.plan = r.plan /\ q.goal = r.goal
          /\ q.restarting = r.restarting /\ q.refs = r.refs /\ q.warming = r.warming
      BY <2>1 DEF Sound, ServiceType
    <2>4. Sound(q)
      BY <2>2, <2>3, OptionsRead
    <2>5. q.options.mode = r.options.mode /\ q.options.abbrev = saved.options.abbrev
      BY <2>1 DEF Sound, ServiceType, Options
    <2>6. q.ahead <=> r.ahead \/ r.options.abbrev # saved.options.abbrev
      BY <2>1 DEF Sound, ServiceType
    <2>7. q.options.abbrev = r.options.abbrev => q.options = r.options
      <3>1. q.options \in Options /\ r.options \in Options
        BY <2>2 DEF Sound, ServiceType
      <3> QED BY <2>5, <3>1, SameOptions
    <2>8. Same(q, r)
      BY <2>3, <2>5 DEF Same
    <2> QED BY <2>3, <2>4, <2>5, <2>6, <2>7, <2>8
  <1> QED BY <1>1, <1>2

\* What the end of a use leaves alone.
Left(q, r) ==
    /\ q.phase = r.phase /\ q.ready = r.ready /\ q.client = r.client /\ q.inbox = r.inbox
    /\ q.timer = r.timer /\ q.plan = r.plan /\ q.restarting = r.restarting
    /\ q.options.mode = r.options.mode

Ending(r, t) == [r EXCEPT !.at[t] = "ending"]

LEMMA DetachedEnds ==
    ASSUME NEW r, Sound(r), NEW t \in {"warm", "restart"}, r.at[t] = "inside",
           NEW q, q = Ending(r, t)
    PROVE  /\ Sound(q) /\ q.at[t] = "ending" /\ \A u \in Threads \ {t} : q.at[u] = r.at[u]
           /\ Left(q, r) /\ q.options = r.options /\ q.ahead = r.ahead /\ q.goal = r.goal
  <1>1. r \in ServiceType /\ t \in Threads /\ "ending" \in Places
    BY DEF Sound, Threads, Places
  <1> DEFINE at == [r.at EXCEPT ![t] = "ending"]
  <1>2. at \in [Threads -> Places] /\ q = [r EXCEPT !.at = at]
    BY <1>1 DEF Ending, ServiceType
  <1>3. at[t] = "ending" /\ \A u \in Threads \ {t} : at[u] = r.at[u]
    BY <1>1 DEF ServiceType
  <1> HIDE DEF at
  <1>4. q \in ServiceType
    BY <1>1, <1>2 DEF ServiceType
  <1>5. /\ q.at = at /\ q.refs = r.refs /\ q.warming = r.warming
        /\ q.phase = r.phase /\ q.ready = r.ready /\ q.client = r.client
        /\ q.inbox = r.inbox /\ q.timer = r.timer /\ q.plan = r.plan
        /\ q.restarting = r.restarting /\ q.options = r.options /\ q.ahead = r.ahead
        /\ q.goal = r.goal
    BY <1>1, <1>2 DEF ServiceType
  <1>6. Counted(q)
    BY <1>3, <1>5 DEF Sound, Counted, Threads
  <1>7. Placed(q)
    BY <1>3, <1>5 DEF Sound, Placed, Threads
  <1>8. Planned(q)
    BY <1>5 DEF Sound, Planned
  <1> QED BY <1>3, <1>4, <1>5, <1>6, <1>7, <1>8 DEF Sound, Left

LEMMA UseContinues ==
    ASSUME saved.options \in Options, NEW r, Sound(r), NEW t \in Threads,
           r.at[t] = "inside", Alone(r, t), NEW q, q \in Continued(r, t)
    PROVE  /\ Fine(q) /\ Left(q, r)
           /\ r.plan # <<>> => q = r
           /\ r.plan = <<>> => Resting(q)
           /\ \/ q.options.abbrev = r.options.abbrev
              \/ q.options.abbrev = saved.options.abbrev
           /\ ~q.ahead => q.options = r.options /\ ~r.ahead
           /\ t # "restart" => q.at["restart"] = r.at["restart"]
           /\ t # "ui" => q.at["ui"] = r.at["ui"] /\ q.goal = r.goal
           /\ q.goal = r.goal \/ q.goal = "query"
  <1> DEFINE out == UiTo(r, "rest", "query")
  <1>1. CASE r.plan # <<>>
    <2>1. q = r
      BY <1>1 DEF Continued
    <2>2. Fine(r) /\ Left(r, r)
      BY <1>1 DEF Fine, Using, Left
    <2> QED BY <1>1, <2>1, <2>2, Zenon
  <1>2. CASE r.plan = <<>> /\ t # "ui"
    <2>1. q = Ending(r, t) /\ t \in {"warm", "restart"}
      BY <1>2 DEF Continued, Ending, Threads
    <2>2. /\ Sound(q) /\ q.at[t] = "ending" /\ \A u \in Threads \ {t} : q.at[u] = r.at[u]
          /\ Left(q, r) /\ q.options = r.options /\ q.ahead = r.ahead /\ q.goal = r.goal
      BY <2>1, DetachedEnds
    <2>3. \A u \in Threads : q.at[u] # "inside"
      BY <2>2 DEF Alone
    <2>4. Resting(q)
      BY <1>2, <2>2, <2>3 DEF Resting, Left
    <2>5. /\ t # "restart" => q.at["restart"] = r.at["restart"]
          /\ q.at["ui"] = r.at["ui"]
      BY <1>2, <2>2 DEF Threads
    <2>6. Fine(q) /\ (~q.ahead => ~r.ahead)
      BY <2>2, <2>4 DEF Fine
    <2> QED BY <1>2, <2>2, <2>4, <2>5, <2>6, Zenon
  <1>3. CASE r.plan = <<>> /\ t = "ui"
    <2>1. r.phase = "active" /\ r.at["warm"] # "inside" /\ r.at["restart"] # "inside"
      BY <1>3 DEF Sound, Placed, Alone, Threads
    <2>2. /\ Sound(out) /\ Same(out, r) /\ out.options = r.options /\ out.ahead = r.ahead
          /\ out.at["ui"] = "rest" /\ out.at["warm"] = r.at["warm"] /\ out.goal = "query"
      BY UiMoves DEF Goals
    <2>3. ASSUME Sound(q), Same(q, r), q.at["ui"] # "inside", q.at["warm"] # "inside"
          PROVE  Resting(q) /\ Left(q, r) /\ q.at["restart"] = r.at["restart"]
      BY <1>3, <2>1, <2>3 DEF Resting, Same, Left, Threads
    <2> DEFINE warm == WarmUpRimeAsync(out)
    <2>4. /\ Sound(warm) /\ Same(warm, out) /\ warm.options = out.options
          /\ warm.ahead = out.ahead /\ warm.at["ui"] = "rest" /\ warm.at["warm"] # "inside"
          /\ warm.goal = "query"
      BY <2>1, <2>2, WarmUpSound
    <2>5. Same(warm, r)
      BY <2>2, <2>4 DEF Same
    <2>6. CASE q = out
      BY <1>3, <2>1, <2>2, <2>3, <2>6 DEF Fine
    <2>7. CASE q = warm
      BY <1>3, <2>2, <2>3, <2>4, <2>5, <2>7 DEF Fine
    <2>8. CASE q = Waiting(r, "query")
      <3>0. q = UiTo(r, "waiting", "query") /\ "query" \in Goals
        BY <2>8 DEF Waiting, UiTo, Goals
      <3>1. /\ Sound(q) /\ Same(q, r) /\ q.options = r.options /\ q.ahead = r.ahead
            /\ q.at["ui"] = "waiting" /\ q.at["warm"] = r.at["warm"] /\ q.goal = "query"
        BY <2>1, <3>0, UiMoves
      <3> QED BY <1>3, <2>1, <2>3, <3>1 DEF Fine
    <2>9. CASE q \in LoadUserSettings(warm)
      <3> HIDE DEF warm
      <3>1. /\ Sound(q) /\ q.at = warm.at /\ Same(q, warm) /\ q.goal = warm.goal
            /\ q.options.abbrev = warm.options.abbrev \/ q.options.abbrev = saved.options.abbrev
            /\ ~q.ahead => q.options = warm.options /\ ~warm.ahead
        BY <2>4, <2>9, LoadSound
      <3>2. Same(q, r)
        BY <2>5, <3>1 DEF Same
      <3> QED BY <1>3, <2>2, <2>3, <2>4, <3>1, <3>2 DEF Fine
    <2>10. q = out \/ q = warm \/ q = Waiting(r, "query") \/ q \in LoadUserSettings(warm)
      BY <1>3 DEF Continued, UiTo
    <2> QED BY <2>6, <2>7, <2>8, <2>9, <2>10
  <1> QED BY <1>1, <1>2, <1>3

-----------------------------------------------------------------------------
(* A use begins.                                                           *)

\* The plans that set all options.
FullPlans == {<<"mode", "abbrev">>, <<"initialize", "mode", "abbrev">>,
              <<"reinitialize", "mode", "abbrev">>, <<"redeploy", "mode", "abbrev">>,
              <<"redeploy", "reinitialize", "mode", "abbrev">>}

LEMMA PlanIs ==
    ASSUME NEW r, NEW g \in Goals
    PROVE  /\ g \in {"key", "query"} /\ HasEngine(r) => PlanOf(r, g) = <<"query">>
           /\ g \in {"key", "initialize"} /\ ~HasEngine(r) =>
                PlanOf(r, g) = <<"initialize", "mode", "abbrev">>
           /\ g = "initialize" /\ HasEngine(r) => PlanOf(r, g) = <<>>
           /\ g \in {"query", "focus", "options"} /\ ~HasEngine(r) => PlanOf(r, g) = <<>>
           /\ g \in {"focus", "options"} /\ HasEngine(r) => PlanOf(r, g) = <<"mode", "abbrev">>
           /\ g = "restart" => PlanOf(r, g) = <<"redeploy", "mode", "abbrev">>
           /\ g = "reload" => PlanOf(r, g) = <<"redeploy", "reinitialize", "mode", "abbrev">>
           /\ g = "shutdown" => PlanOf(r, g) \in {<<>>, <<"shutdown">>}
  <1>1. /\ Starting("initialize") = <<"initialize", "mode", "abbrev">>
        /\ Starting("redeploy") = <<"redeploy", "mode", "abbrev">>
    BY StartingIs
  <1> QED BY <1>1, ReloadIs DEF PlanOf, Goals, SetOptions

LEMMA Contained ==
    ASSUME NEW p \in FullPlans \cup {<<>>, <<"query">>, <<"shutdown">>}
    PROVE  "abbrev" \in {p[i] : i \in DOMAIN p} <=> p \in FullPlans
  BY DEF FullPlans

\* Every rest of a plan of a new use is one that options are set by, or nothing.
LEMMA PlanSound ==
    ASSUME NEW r, NEW g \in Goals
    PROVE  /\ PlanOf(r, g) \in FullPlans \cup {<<>>, <<"query">>, <<"shutdown">>}
           /\ g \in {"key", "query", "focus", "options", "shutdown", "initialize"} =>
                (PlanOf(r, g) \in {<<"query">>, <<"mode", "abbrev">>} => HasEngine(r))
           /\ g \in {"restart", "reload"} =>
                PlanOf(r, g) \notin {<<"query">>, <<"mode", "abbrev">>, <<>>}
           /\ PlanOf(r, g) # <<"abbrev">>
           /\ PlanOf(r, g) = <<"shutdown">> => g = "shutdown"
  <1>1. /\ <<"query">> # <<"shutdown">> /\ <<"query">> # <<>> /\ <<"shutdown">> # <<>>
        /\ <<"mode", "abbrev">> # <<>> /\ <<"abbrev">> # <<>>
        /\ <<"abbrev">> # <<"query">> /\ <<"abbrev">> # <<"shutdown">>
        /\ \A p \in {<<"query">>, <<"shutdown">>, <<"mode", "abbrev">>, <<"abbrev">>, <<>>} :
             /\ p # <<"initialize", "mode", "abbrev">> /\ p # <<"redeploy", "mode", "abbrev">>
             /\ p # <<"redeploy", "reinitialize", "mode", "abbrev">>
        /\ <<"mode", "abbrev">> # <<"query">> /\ <<"mode", "abbrev">> # <<"shutdown">>
        /\ <<"mode", "abbrev">> # <<"abbrev">>
    OBVIOUS
  <1> HIDE DEF PlanOf
  <1>2. CASE g \in {"key", "query", "initialize"}
    BY <1>1, <1>2, PlanIs, Zenon DEF FullPlans
  <1>3. CASE g \in {"focus", "options"}
    BY <1>1, <1>3, PlanIs, Zenon DEF FullPlans
  <1>4. CASE g \in {"restart", "reload", "shutdown"}
    BY <1>1, <1>4, PlanIs, Zenon DEF FullPlans
  <1> QED BY <1>2, <1>3, <1>4 DEF Goals

Inside(r, t) == [Locked(r, GoalOf(r, t)) EXCEPT !.at[t] = "inside"]
Renewing == {"restart", "reload"}

LEMMA UseBegins ==
    ASSUME NEW r, Resting(r), NEW t \in Threads, r.at[t] = "waiting", NEW q, q = Inside(r, t)
    PROVE  /\ Sound(q) /\ q.at[t] = "inside" /\ Alone(q, t) /\ GoalOf(r, t) \in Goals
           /\ q.plan = PlanOf(r, GoalOf(r, t)) /\ q.options = r.options
           /\ q.phase = r.phase /\ q.inbox = r.inbox /\ q.timer = r.timer
           /\ q.restarting = r.restarting /\ q.goal = r.goal
           /\ \A u \in Threads \ {t} : q.at[u] = r.at[u]
           /\ GoalOf(r, t) \notin Renewing => q.ready = r.ready
           /\ GoalOf(r, t) \in Renewing => ~q.ready
           /\ ~q.ahead => ~r.ahead \/ q.plan \in FullPlans
  <1> DEFINE g == GoalOf(r, t)
             at == [r.at EXCEPT ![t] = "inside"]
             plan == PlanOf(r, g)
  <1>1. r \in ServiceType /\ Sound(r) /\ g \in Goals
    BY DEF Resting, Sound, ServiceType, GoalOf, Threads, Goals
  <1>2. /\ plan \in FullPlans \cup {<<>>, <<"query">>, <<"shutdown">>}
        /\ plan \in Plans /\ plan \in Seq(Commands) /\ plan # <<"abbrev">>
    BY <1>1, PlanSound, PlansTyped DEF Plans, FullPlans
  <1>3. at \in [Threads -> Places] /\ at[t] = "inside" /\ \A u \in Threads \ {t} : at[u] = r.at[u]
    BY <1>1 DEF ServiceType, Places
  <1>4. g \notin Renewing /\ plan \in {<<"query">>, <<"mode", "abbrev">>} => r.ready
    BY <1>1, PlanSound DEF Goals, Renewing, HasEngine
  <1>5. g \in Renewing => plan \notin {<<"query">>, <<"mode", "abbrev">>}
    BY <1>1, PlanSound DEF Renewing
  <1>6. "abbrev" \in {plan[i] : i \in DOMAIN plan} <=> plan \in FullPlans
    BY <1>2, Contained
  <1>7. PlanOf(r, g) = plan
    OBVIOUS
  <1> HIDE DEF at, plan
  <1>8. /\ q.plan = plan /\ q.at = at /\ q.options = r.options /\ q.phase = r.phase
        /\ q.inbox = r.inbox /\ q.timer = r.timer /\ q.restarting = r.restarting
        /\ q.refs = r.refs /\ q.warming = r.warming /\ q.goal = r.goal
        /\ q \in ServiceType
        /\ g \in Renewing => q.ready = FALSE /\ q.client = "down"
        /\ g \notin Renewing => q.ready = r.ready /\ q.client = r.client
        /\ q.ahead => plan \notin FullPlans
        /\ r.ahead /\ plan \notin FullPlans => q.ahead
    <2>1. CASE g \in Renewing
      <3>1. q = [[[r EXCEPT !.client = "down", !.ready = FALSE] EXCEPT
                    !.plan = plan, !.ahead = @ /\ ~("abbrev" \in {plan[i] : i \in DOMAIN plan})]
                   EXCEPT !.at = at]
        BY <1>1, <1>7, <2>1 DEF Inside, Locked, Renewing, ServiceType, at
      <3> QED BY <1>1, <1>2, <1>3, <1>6, <2>1, <3>1 DEF ServiceType
    <2>2. CASE g \notin Renewing
      <3>1. q = [[r EXCEPT
                    !.plan = plan, !.ahead = @ /\ ~("abbrev" \in {plan[i] : i \in DOMAIN plan})]
                   EXCEPT !.at = at]
        BY <1>1, <1>7, <2>2 DEF Inside, Locked, Renewing, ServiceType, at
      <3> QED BY <1>1, <1>2, <1>3, <1>6, <2>2, <3>1 DEF ServiceType
    <2> QED BY <2>1, <2>2
  <1>9. Counted(q)
    BY <1>1, <1>3, <1>8 DEF Sound, Counted, Threads
  <1>10. Placed(q)
    <2>1. t = "ui" => r.phase = "active"
      BY <1>1 DEF Sound, Placed
    <2>2. CASE t = "ui"
      BY <1>1, <1>3, <1>8, <2>1, <2>2 DEF Sound, Placed, Threads
    <2>3. CASE t # "ui"
      BY <1>1, <1>3, <1>8, <2>3 DEF Sound, Placed, Threads
    <2> QED BY <2>2, <2>3
  <1>11. Planned(q)
    <2>1. q.plan \in Plans /\ q.plan # <<"abbrev">>
      BY <1>2, <1>8
    <2>2. CASE g \in Renewing
      BY <1>5, <1>8, <2>1, <2>2 DEF Planned
    <2>3. CASE g \notin Renewing
      BY <1>1, <1>4, <1>8, <2>1, <2>3 DEF Sound, Planned
    <2> QED BY <2>2, <2>3
  <1>12. Alone(q, t)
    BY <1>3, <1>8 DEF Alone, Resting
  <1>13. Sound(q)
    BY <1>8, <1>9, <1>10, <1>11 DEF Sound
  <1> QED BY <1>1, <1>3, <1>7, <1>8, <1>12, <1>13

-----------------------------------------------------------------------------
(* A command is answered.                                                  *)

LEMMA SoundIfKept ==
    ASSUME NEW r, Sound(r), NEW q \in ServiceType, Planned(q),
           q.at = r.at, q.phase = r.phase, q.inbox = r.inbox, q.timer = r.timer,
           q.restarting = r.restarting, q.refs = r.refs, q.warming = r.warming
    PROVE  Sound(q)
  <1>1. Counted(q)
    BY DEF Sound, Counted
  <1>2. Placed(q)
    BY DEF Sound, Placed
  <1> QED BY <1>1, <1>2 DEF Sound

\* What the answer to its first command makes of a service.
AnswerIs(q, r, ok) ==
    /\ q \in ServiceType
    /\ q.at = r.at /\ q.phase = r.phase /\ q.inbox = r.inbox /\ q.timer = r.timer
    /\ q.restarting = r.restarting /\ q.refs = r.refs /\ q.warming = r.warming
    /\ q.options = r.options /\ q.ahead = r.ahead /\ q.goal = r.goal
    /\ q.plan = Tail(r.plan) \/ q.plan = <<>>
    /\ ok => q.plan = Tail(r.plan)
    /\ Head(r.plan) \in {"initialize", "reinitialize", "redeploy"} /\ ~ok => q.plan = <<>>
    /\ Head(r.plan) \in {"initialize", "reinitialize"} => q.ready = ok
    /\ Head(r.plan) = "redeploy" => (q.ready <=> ok /\ Head(Tail(r.plan)) # "reinitialize")
    /\ Head(r.plan) \in {"initialize", "reinitialize", "redeploy"} /\ ok => q.client = "up"
    /\ Head(r.plan) = "shutdown" => ~q.ready
    /\ Head(r.plan) \in {"query", "mode", "abbrev"} =>
         q.ready = r.ready /\ q.client = r.client /\ q.plan = Tail(r.plan)

LEMMA AnswerKeeps ==
    ASSUME NEW r, Sound(r), r.plan # <<>>, NEW ok \in BOOLEAN,
           NEW q, q = Answered(r, Head(r.plan), ok)
    PROVE  AnswerIs(q, r, ok)
  <1> DEFINE c == Head(r.plan)
             rest == Tail(r.plan)
  <1>1. /\ r \in ServiceType /\ r.plan \in Plans
        /\ c \in Commands /\ rest \in Seq(Commands) /\ <<>> \in Seq(Commands)
    <2>1. r \in ServiceType /\ r.plan \in Plans /\ r.plan \in Seq(Commands)
      BY PlansTyped DEF Sound, Planned
    <2> QED BY <2>1
  <1> HIDE DEF c, rest
  <1>2. q = Answered(r, c, ok) /\ rest = Tail(r.plan) /\ c = Head(r.plan)
    BY DEF c, rest
  <1>3. CASE c = "initialize" /\ ok
    <2>1. q = [r EXCEPT !.ready = TRUE, !.client = "up", !.plan = rest]
      BY <1>1, <1>2, <1>3 DEF Answered, ServiceType
    <2> QED BY <1>1, <1>2, <1>3, <2>1 DEF AnswerIs, ServiceType
  <1>4. CASE c = "initialize" /\ ~ok
    <2>1. q = [r EXCEPT !.ready = FALSE, !.plan = <<>>]
      BY <1>1, <1>2, <1>4 DEF Answered, ServiceType
    <2> QED BY <1>1, <1>2, <1>4, <2>1 DEF AnswerIs, ServiceType
  <1>5. CASE c = "reinitialize" /\ ok
    <2>1. q = [r EXCEPT !.ready = TRUE, !.client = "up", !.plan = rest]
      BY <1>1, <1>2, <1>5 DEF Answered, ServiceType
    <2> QED BY <1>1, <1>2, <1>5, <2>1 DEF AnswerIs, ServiceType
  <1>6. CASE c = "reinitialize" /\ ~ok
    <2>1. q = [r EXCEPT !.ready = FALSE, !.client = "down", !.plan = <<>>]
      BY <1>1, <1>2, <1>6 DEF Answered, ServiceType
    <2> QED BY <1>1, <1>2, <1>6, <2>1 DEF AnswerIs, ServiceType
  <1>7. CASE c = "redeploy" /\ ok
    <2>1. q = [r EXCEPT !.ready = Head(rest) # "reinitialize", !.client = "up", !.plan = rest]
      BY <1>1, <1>2, <1>7 DEF Answered, ServiceType
    <2> QED BY <1>1, <1>2, <1>7, <2>1 DEF AnswerIs, ServiceType
  <1>8. CASE c = "redeploy" /\ ~ok
    <2>1. q = [r EXCEPT !.ready = FALSE, !.client = "down", !.plan = <<>>]
      BY <1>1, <1>2, <1>8 DEF Answered, ServiceType
    <2> QED BY <1>1, <1>2, <1>8, <2>1 DEF AnswerIs, ServiceType
  <1>9. CASE c = "shutdown"
    <2>1. q = [r EXCEPT !.ready = FALSE, !.client = "null", !.plan = rest]
      BY <1>1, <1>2, <1>9 DEF Answered, ServiceType
    <2> QED BY <1>1, <1>2, <1>9, <2>1 DEF AnswerIs, ServiceType
  <1>10. CASE c \in {"query", "mode", "abbrev"}
    <2>1. q = [r EXCEPT !.plan = rest]
      BY <1>1, <1>2, <1>10 DEF Answered
    <2> QED BY <1>1, <1>2, <1>10, <2>1 DEF AnswerIs, ServiceType
  <1> QED BY <1>1, <1>3, <1>4, <1>5, <1>6, <1>7, <1>8, <1>9, <1>10 DEF Commands

LEMMA PlanGoesOn ==
    ASSUME NEW p \in Plans, p # <<>>
    PROVE  /\ Head(p) \in Commands /\ Tail(p) \in Plans
           /\ Head(p) \in {"query", "shutdown", "abbrev"} => Tail(p) = <<>>
           /\ Head(p) = "mode" => p = <<"mode", "abbrev">> /\ Tail(p) = <<"abbrev">>
           /\ Head(p) = "query" => p = <<"query">>
           /\ Head(p) = "abbrev" => p = <<"abbrev">>
           /\ Head(p) = "shutdown" => p = <<"shutdown">>
           /\ Head(p) \in {"initialize", "reinitialize"} => Tail(p) = <<"mode", "abbrev">>
           /\ Head(p) = "redeploy" =>
                \/ Tail(p) = <<"mode", "abbrev">> /\ Head(Tail(p)) # "reinitialize"
                \/ Tail(p) = <<"reinitialize", "mode", "abbrev">>
                     /\ Head(Tail(p)) = "reinitialize"
  <1>1. ASSUME p = <<"query">> \/ p = <<"shutdown">> \/ p = <<"abbrev">>
        PROVE  /\ \/ Head(p) = "query" /\ p = <<"query">>
                  \/ Head(p) = "shutdown" /\ p = <<"shutdown">>
                  \/ Head(p) = "abbrev" /\ p = <<"abbrev">>
               /\ Tail(p) = <<>>
    BY <1>1, Heads, Tails, Zenon
  <1>2. ASSUME p = <<"mode", "abbrev">>
        PROVE  Head(p) = "mode" /\ Tail(p) = <<"abbrev">>
    BY <1>2
  <1>3. ASSUME p = <<"initialize", "mode", "abbrev">> \/ p = <<"reinitialize", "mode", "abbrev">>
        PROVE  Head(p) \in {"initialize", "reinitialize"} /\ Tail(p) = <<"mode", "abbrev">>
    BY <1>3, Heads, Tails, Zenon
  <1>4. ASSUME p = <<"redeploy", "mode", "abbrev">>
        PROVE  Head(p) = "redeploy" /\ Tail(p) = <<"mode", "abbrev">> /\ Head(Tail(p)) = "mode"
    BY <1>4, Heads, Tails, Zenon
  <1>5. ASSUME p = <<"redeploy", "reinitialize", "mode", "abbrev">>
        PROVE  /\ Head(p) = "redeploy" /\ Tail(p) = <<"reinitialize", "mode", "abbrev">>
               /\ Head(Tail(p)) = "reinitialize"
    BY <1>5, Heads, Tails, Zenon
  <1>6. /\ <<>> \in Plans /\ <<"abbrev">> \in Plans /\ <<"mode", "abbrev">> \in Plans
        /\ <<"reinitialize", "mode", "abbrev">> \in Plans
    BY Zenon DEF Plans
  <1>7. CASE p = <<"query">> \/ p = <<"shutdown">> \/ p = <<"abbrev">>
    BY <1>1, <1>6, <1>7 DEF Commands
  <1>8. CASE p = <<"mode", "abbrev">>
    BY <1>2, <1>6, <1>8 DEF Commands
  <1>9. CASE p = <<"initialize", "mode", "abbrev">> \/ p = <<"reinitialize", "mode", "abbrev">>
    <2>1. Head(p) = "initialize" \/ Head(p) = "reinitialize"
      BY <1>3, <1>9
    <2>2. Tail(p) = <<"mode", "abbrev">> /\ Tail(p) \in Plans
      BY <1>3, <1>6, <1>9
    <2> HIDE <1>9
    <2> QED BY <2>1, <2>2 DEF Commands
  <1>10. CASE p = <<"redeploy", "mode", "abbrev">>
    <2>1. Head(p) = "redeploy" /\ Tail(p) \in Plans
          /\ Tail(p) = <<"mode", "abbrev">> /\ Head(Tail(p)) = "mode"
      BY <1>4, <1>6, <1>10
    <2> QED BY <2>1 DEF Commands
  <1>11. CASE p = <<"redeploy", "reinitialize", "mode", "abbrev">>
    <2>1. Head(p) = "redeploy" /\ Tail(p) \in Plans
          /\ Tail(p) = <<"reinitialize", "mode", "abbrev">> /\ Head(Tail(p)) = "reinitialize"
      BY <1>5, <1>6, <1>11
    <2> QED BY <2>1 DEF Commands
  <1> QED BY <1>7, <1>8, <1>9, <1>10, <1>11, Zenon DEF Plans

LEMMA AnswerSound ==
    ASSUME NEW r, NEW t \in Threads, Using(r, t), NEW ok \in BOOLEAN,
           NEW q, q = Answered(r, Head(r.plan), ok)
    PROVE  Sound(q) /\ q.at[t] = "inside" /\ Alone(q, t) /\ AnswerIs(q, r, ok)
  <1>1. Sound(r) /\ r.plan # <<>> /\ r.plan \in Plans /\ <<>> \in Plans
    BY DEF Using, Sound, Planned, Plans
  <1>2. Head(r.plan) \in Commands /\ Tail(r.plan) \in Plans
    BY <1>1, PlanGoesOn
  <1>3. AnswerIs(q, r, ok)
    BY <1>1, AnswerKeeps
  <1>4. Planned(q)
    <2>1. q.plan \in Plans
      BY <1>1, <1>2, <1>3, Zenon DEF AnswerIs
    <2>2. q.ready => q.client = "up"
      BY <1>1, <1>2, <1>3 DEF Sound, Planned, Commands, AnswerIs
    <2>3. q.plan \in {<<"query">>, <<"mode", "abbrev">>, <<"abbrev">>} => q.ready
      <3> SUFFICES ASSUME q.plan \in {<<"query">>, <<"mode", "abbrev">>, <<"abbrev">>}
                   PROVE  q.ready
        OBVIOUS
      <3>1. q.plan # <<>>
        <4>1. <<"query">> # <<>> /\ <<"mode", "abbrev">> # <<>> /\ <<"abbrev">> # <<>>
          OBVIOUS
        <4> QED BY <4>1, Zenon
      <3>2. /\ q.plan = Tail(r.plan)
            /\ Head(r.plan) \in {"initialize", "reinitialize", "redeploy"} => ok
        BY <1>3, <3>1, Zenon DEF AnswerIs
      <3>3. CASE Head(r.plan) \in {"initialize", "reinitialize"}
        BY <1>3, <3>2, <3>3 DEF AnswerIs
      <3>4. CASE Head(r.plan) = "redeploy"
        <4>1. Tail(r.plan) # <<"reinitialize", "mode", "abbrev">>
          BY <3>2
        <4>2. Head(Tail(r.plan)) # "reinitialize"
          BY <1>1, <3>4, <4>1, PlanGoesOn
        <4> QED BY <1>3, <3>2, <3>4, <4>2 DEF AnswerIs
      <3>5. CASE Head(r.plan) = "mode"
        <4>1. r.plan = <<"mode", "abbrev">>
          BY <1>1, <3>5, PlanGoesOn
        <4>2. r.ready
          BY <1>1, <4>1 DEF Sound, Planned
        <4> QED BY <1>3, <3>5, <4>2 DEF AnswerIs
      <3>6. CASE Head(r.plan) \in {"query", "shutdown", "abbrev"}
        BY <1>1, <3>1, <3>2, <3>6, PlanGoesOn
      <3> QED BY <1>2, <3>3, <3>4, <3>5, <3>6 DEF Commands
    <2> QED BY <2>1, <2>2, <2>3 DEF Planned
  <1>5. Sound(q)
    <2>1. /\ q \in ServiceType /\ q.at = r.at /\ q.phase = r.phase /\ q.inbox = r.inbox
          /\ q.timer = r.timer /\ q.restarting = r.restarting /\ q.refs = r.refs
          /\ q.warming = r.warming
      BY <1>3 DEF AnswerIs
    <2> QED BY <1>1, <1>4, <2>1, SoundIfKept
  <1>6. q.at = r.at
    BY <1>3 DEF AnswerIs
  <1> QED BY <1>3, <1>5, <1>6 DEF Using, Alone

-----------------------------------------------------------------------------
(* The other steps of one service.                                         *)

LEMMA FineIsSound ==
    ASSUME NEW r, Fine(r)
    PROVE  Sound(r) /\ r \in ServiceType
  BY DEF Fine, Resting, Using, Sound

LEMMA NobodyInside ==
    ASSUME NEW r, Fine(r), Holder(r) = {}
    PROVE  Resting(r)
  BY DEF Fine, Using, Holder

LEMMA SomeoneInside ==
    ASSUME NEW r, Fine(r), NEW t \in Threads, r.at[t] = "inside"
    PROVE  Using(r, t)
  BY DEF Fine, Using, Resting, Alone

\* A step that leaves threads, references and the use alone.
Unmoved(q, r) ==
    /\ q.at = r.at /\ q.phase = r.phase /\ q.ready = r.ready /\ q.client = r.client
    /\ q.plan = r.plan /\ q.restarting = r.restarting /\ q.refs = r.refs
    /\ q.warming = r.warming

LEMMA FineIfUnmoved ==
    ASSUME NEW r, Fine(r), NEW q \in ServiceType, Unmoved(q, r),
           r.phase # "active" => q.inbox = <<>> /\ ~q.timer
    PROVE  Fine(q)
  <1>1. Sound(r)
    BY FineIsSound
  <1>2. Counted(q)
    BY <1>1 DEF Sound, Counted, Unmoved
  <1>3. Placed(q)
    BY <1>1 DEF Sound, Placed, Unmoved
  <1>4. Planned(q)
    BY <1>1 DEF Sound, Planned, Unmoved
  <1>5. Sound(q)
    BY <1>2, <1>3, <1>4 DEF Sound
  <1>6. CASE Resting(r)
    BY <1>5, <1>6 DEF Fine, Resting, Unmoved
  <1>7. ASSUME NEW t \in Threads, Using(r, t)
        PROVE  Using(q, t)
    BY <1>5, <1>7 DEF Using, Alone, Unmoved
  <1> QED BY <1>6, <1>7 DEF Fine

LEMMA WaitingFine ==
    ASSUME NEW r, Fine(r), r.phase = "active", r.at["ui"] = "rest", NEW g \in Goals,
           NEW q, q = Waiting(r, g)
    PROVE  /\ Fine(q) /\ Same(q, r) /\ q.options = r.options /\ q.ahead = r.ahead
           /\ q.at["ui"] = "waiting" /\ q.goal = g
  <1>1. q = UiTo(r, "waiting", g) /\ Sound(r)
    BY FineIsSound DEF Waiting, UiTo
  <1>2. /\ Sound(q) /\ Same(q, r) /\ q.options = r.options /\ q.ahead = r.ahead
        /\ q.at["ui"] = "waiting" /\ q.goal = g /\ q.at["warm"] = r.at["warm"]
    BY <1>1, UiMoves
  <1>3. CASE Resting(r)
    BY <1>2, <1>3 DEF Fine, Resting, Same, Threads
  <1>4. ASSUME NEW t \in Threads, Using(r, t)
        PROVE  Using(q, t)
    BY <1>2, <1>4 DEF Using, Alone, Same, Threads
  <1> QED BY <1>2, <1>3, <1>4 DEF Fine

LEMMA RestartFine ==
    ASSUME NEW r, Fine(r), NEW q, q = RestartRimeAndAlgorithmServiceAsync(r)
    PROVE  /\ Fine(q) /\ q.phase = r.phase /\ q.ready = r.ready /\ q.inbox = r.inbox
           /\ q.timer = r.timer /\ q.plan = r.plan /\ q.options = r.options
           /\ q.ahead = r.ahead /\ q.goal = r.goal /\ q.at["ui"] = r.at["ui"]
           /\ r.phase = "active" /\ ~r.restarting => q.at["restart"] = "waiting"
           /\ r.at["restart"] = "waiting" => q.at["restart"] = "waiting"
  <1>1. CASE q = r
    <2>1. r \in ServiceType
      BY FineIsSound
    <2>2. ~(r.phase = "active" /\ ~r.restarting)
      <3> SUFFICES ASSUME r.phase = "active", ~r.restarting PROVE FALSE
        OBVIOUS
      <3>1. q = [r EXCEPT !.restarting = TRUE, !.at["restart"] = "waiting", !.refs = @ + 1]
        BY DEF RestartRimeAndAlgorithmServiceAsync, AddRef
      <3>2. q.restarting
        BY <2>1, <3>1 DEF ServiceType
      <3> QED BY <1>1, <3>2
    <2> QED BY <1>1, <2>2
  <1>2. CASE q # r
    <2>0. r \in ServiceType /\ Sound(r)
      BY FineIsSound
    <2>1. r.phase = "active" /\ ~r.restarting
      BY <1>2 DEF RestartRimeAndAlgorithmServiceAsync
    <2>2. q = [r EXCEPT !.restarting = TRUE, !.at["restart"] = "waiting", !.refs = @ + 1]
      BY <1>2, <2>1 DEF RestartRimeAndAlgorithmServiceAsync, AddRef
    <2>3. r.at["restart"] = "rest" /\ r.refs \in 0..2
      BY <2>0, <2>1 DEF Sound, Placed, Counted, ServiceType
    <2>4. q \in ServiceType
      <3>1. r.refs + 1 \in 0..3
        BY <2>3
      <3>2. "restart" \in Threads /\ "waiting" \in Places
        BY DEF Threads, Places
      <3> DEFINE at == [r.at EXCEPT !["restart"] = "waiting"]
      <3>3. at \in [Threads -> Places]
        BY <2>0, <3>2 DEF ServiceType
      <3>4. q = [r EXCEPT !.restarting = TRUE, !.at = at, !.refs = r.refs + 1]
        BY <2>2
      <3> HIDE DEF at
      <3> QED BY <2>0, <3>1, <3>3, <3>4 DEF ServiceType
    <2>5. /\ q.phase = r.phase /\ q.ready = r.ready /\ q.client = r.client /\ q.inbox = r.inbox
          /\ q.timer = r.timer /\ q.plan = r.plan /\ q.options = r.options
          /\ q.ahead = r.ahead /\ q.goal = r.goal /\ q.restarting /\ q.warming = r.warming
          /\ q.refs = r.refs + 1 /\ q.at["restart"] = "waiting"
          /\ q.at["ui"] = r.at["ui"] /\ q.at["warm"] = r.at["warm"]
      BY <2>0, <2>2 DEF ServiceType, Threads
    <2>6. Counted(q)
      BY <2>0, <2>3, <2>5 DEF Sound, Counted, ServiceType
    <2>7. Placed(q)
      BY <2>0, <2>1, <2>5 DEF Sound, Placed
    <2>8. Planned(q)
      BY <2>0, <2>5 DEF Sound, Planned
    <2>9. Sound(q)
      BY <2>4, <2>6, <2>7, <2>8 DEF Sound
    <2>10. CASE Resting(r)
      BY <2>5, <2>9, <2>10 DEF Fine, Resting, Threads
    <2>11. ASSUME NEW t \in Threads, Using(r, t)
           PROVE  Using(q, t)
      BY <2>3, <2>5, <2>9, <2>11 DEF Using, Alone, Threads
    <2>12. Fine(q)
      BY <2>10, <2>11 DEF Fine
    <2> QED BY <2>5, <2>12
  <1> QED BY <1>1, <1>2

Wakes(r, p) == [r EXCEPT !.at["warm"] = p]

LEMMA WakesFine ==
    ASSUME NEW r, Resting(r), r.at["warm"] = "asleep", NEW p \in {"waiting", "ending"},
           NEW q, q = Wakes(r, p)
    PROVE  /\ Fine(q) /\ Same(q, r) /\ q.options = r.options /\ q.ahead = r.ahead
           /\ q.goal = r.goal /\ q.at["ui"] = r.at["ui"]
  <1>0. r \in ServiceType /\ Sound(r)
    BY DEF Resting, Sound
  <1>1. q \in ServiceType
    <2>1. "warm" \in Threads /\ p \in Places
      BY DEF Threads, Places
    <2> DEFINE at == [r.at EXCEPT !["warm"] = p]
    <2>2. at \in [Threads -> Places]
      BY <1>0, <2>1 DEF ServiceType
    <2>3. q = [r EXCEPT !.at = at]
      BY DEF Wakes
    <2> HIDE DEF at
    <2> QED BY <1>0, <2>2, <2>3 DEF ServiceType
  <1>2. /\ Same(q, r) /\ q.options = r.options /\ q.ahead = r.ahead
        /\ q.at["ui"] = r.at["ui"] /\ q.at["warm"] = p /\ q.goal = r.goal
        /\ q.refs = r.refs /\ q.warming = r.warming
    BY <1>0 DEF Wakes, ServiceType, Threads, Same
  <1>3. Counted(q)
    BY <1>0, <1>2 DEF Sound, Counted, Same
  <1>4. Placed(q)
    BY <1>0, <1>2 DEF Sound, Placed, Same
  <1>5. Planned(q)
    BY <1>0, <1>2 DEF Sound, Planned, Same
  <1>6. Resting(q)
    BY <1>1, <1>2, <1>3, <1>4, <1>5 DEF Sound, Resting, Same, Threads
  <1> QED BY <1>2, <1>6 DEF Fine

LEMMA AbsentIs ==
    /\ Absent \in ServiceType /\ Resting(Absent)
    /\ Absent.phase = "absent" /\ Absent.options = DefaultOptions
    /\ ~Absent.ready /\ ~Absent.ahead /\ Absent.goal = "query" /\ Absent.plan = <<>>
    /\ Absent.inbox = <<>> /\ ~Absent.timer
    /\ \A t \in Threads : Absent.at[t] = "rest"
  <1>1. Absent \in ServiceType
    <2>1. <<>> \in Seq(Commands) /\ <<>> \in Seq({"apply", "refresh", "toolbar"})
      OBVIOUS
    <2>2. [t \in Threads |-> "rest"] \in [Threads -> Places]
      BY DEF Places
    <2>3. DefaultOptions \in Options /\ 0 \in 0..3 /\ "query" \in Goals
      BY DEF DefaultOptions, Options, Goals
    <2> DEFINE at == [t \in Threads |-> "rest"]
    <2> HIDE DEF at
    <2>4. at \in [Threads -> Places]
      BY <2>2 DEF at
    <2>5. [phase |-> "absent", refs |-> 0, ready |-> FALSE, client |-> "null",
           options |-> DefaultOptions, warming |-> FALSE, restarting |-> FALSE,
           inbox |-> <<>>, timer |-> FALSE, at |-> at,
           goal |-> "query", plan |-> <<>>, ahead |-> FALSE] \in ServiceType
      BY <2>1, <2>3, <2>4 DEF ServiceType
    <2> QED BY <2>5 DEF Absent, at
  <1>2. /\ Absent.phase = "absent" /\ Absent.options = DefaultOptions
        /\ ~Absent.ready /\ ~Absent.ahead /\ Absent.goal = "query" /\ Absent.plan = <<>>
        /\ Absent.inbox = <<>> /\ ~Absent.timer /\ Absent.client = "null"
        /\ Absent.refs = 0 /\ ~Absent.warming /\ ~Absent.restarting
    BY DEF Absent
  <1>3. \A t \in Threads : Absent.at[t] = "rest"
    BY DEF Absent
  <1>4. Counted(Absent)
    BY <1>2, <1>3 DEF Counted, Threads
  <1>5. Placed(Absent)
    BY <1>2, <1>3 DEF Placed, Threads
  <1>6. Planned(Absent)
    <2>1. <<>> \in Plans
      BY Zenon DEF Plans
    <2> QED BY <1>2, <2>1 DEF Planned
  <1>7. Resting(Absent)
    BY <1>1, <1>2, <1>3, <1>4, <1>5, <1>6 DEF Resting, Sound
  <1> QED BY <1>1, <1>2, <1>3, <1>7

\* The object goes, or it has one reference less.
LEMMA Released ==
    ASSUME NEW r \in ServiceType, NEW q, q = Release(r), r.refs \in 1..3
    PROVE  \/ q = Absent /\ r.refs = 1
           \/ /\ q \in ServiceType /\ q.refs = r.refs - 1 /\ q.at = r.at /\ q.phase = r.phase
              /\ q.ready = r.ready /\ q.client = r.client /\ q.options = r.options
              /\ q.warming = r.warming /\ q.restarting = r.restarting /\ q.inbox = r.inbox
              /\ q.timer = r.timer /\ q.goal = r.goal /\ q.plan = r.plan /\ q.ahead = r.ahead
              /\ r.refs # 1
  <1>1. CASE r.refs = 1
    BY <1>1 DEF Release
  <1>2. CASE r.refs # 1
    <2>1. q = [r EXCEPT !.refs = r.refs - 1] /\ r.refs - 1 \in 0..3
      BY <1>2 DEF Release
    <2> QED BY <1>2, <2>1 DEF ServiceType
  <1> QED BY <1>1, <1>2

Quits(r) == [r EXCEPT !.phase = "inactive", !.inbox = <<>>, !.timer = FALSE]

LEMMA QuitsFine ==
    ASSUME NEW r, Fine(r), r.phase = "active", r.at["ui"] = "rest", NEW q, q = Release(Quits(r))
    PROVE  \/ q = Absent /\ r.refs = 1
           \/ /\ Fine(q) /\ q.phase = "inactive" /\ q.plan = r.plan /\ r.refs > 1
              /\ q.at = r.at
  <1> DEFINE out == Quits(r)
  <1>1. r \in ServiceType /\ Sound(r)
    BY FineIsSound
  <1>2. /\ out \in ServiceType /\ out.phase = "inactive" /\ out.inbox = <<>> /\ ~out.timer
        /\ out.refs = r.refs /\ out.ready = r.ready /\ out.client = r.client
        /\ out.warming = r.warming /\ out.restarting = r.restarting /\ out.at = r.at
        /\ out.plan = r.plan
    <2>1. <<>> \in Seq({"apply", "refresh", "toolbar"})
      OBVIOUS
    <2> QED BY <1>1, <2>1 DEF Quits, ServiceType
  <1>3. r.refs \in 1..3
    BY <1>1 DEF Sound, Counted, ServiceType
  <1> HIDE DEF out
  <1>4. q = Release(out)
    BY DEF out
  <1>5. CASE q = Absent /\ r.refs = 1
    BY <1>5
  <1>6. CASE /\ q \in ServiceType /\ q.refs = out.refs - 1 /\ q.at = out.at
             /\ q.phase = out.phase /\ q.ready = out.ready /\ q.client = out.client
             /\ q.warming = out.warming /\ q.restarting = out.restarting
             /\ q.inbox = out.inbox /\ q.timer = out.timer /\ q.plan = out.plan
             /\ out.refs # 1
    <2>1. Counted(q)
      BY <1>1, <1>2, <1>3, <1>6 DEF Sound, Counted
    <2>2. Placed(q)
      BY <1>1, <1>2, <1>6 DEF Sound, Placed
    <2>3. Planned(q)
      BY <1>1, <1>2, <1>6 DEF Sound, Planned
    <2>4. Sound(q)
      BY <1>6, <2>1, <2>2, <2>3 DEF Sound
    <2>5. ASSUME Resting(r)
          PROVE  Fine(q)
      BY <1>2, <1>6, <2>4, <2>5 DEF Fine, Resting
    <2>6. ASSUME NEW t \in Threads, Using(r, t)
          PROVE  Using(q, t)
      BY <1>2, <1>6, <2>4, <2>6 DEF Using, Alone
    <2>7. Fine(q)
      BY <2>5, <2>6 DEF Fine
    <2> QED BY <1>2, <1>3, <1>6, <2>7
  <1> QED BY <1>2, <1>3, <1>4, <1>5, <1>6, Released

Ended(r, t) == [r EXCEPT !.at[t] = "rest", !.warming = @ /\ t # "warm",
                         !.restarting = @ /\ t # "restart"]

LEMMA EndedFine ==
    ASSUME NEW r, Resting(r), NEW t \in Threads, r.at[t] = "ending",
           NEW q, q = Release(Ended(r, t))
    PROVE  \/ q = Absent /\ r.phase # "active" /\ r.at["restart"] # "waiting"
           \/ /\ Resting(q) /\ q.phase = r.phase /\ q.ready = r.ready /\ q.inbox = r.inbox
              /\ q.timer = r.timer /\ q.plan = r.plan /\ q.options = r.options
              /\ q.goal = r.goal /\ q.ahead = r.ahead
              /\ \A u \in Threads \ {t} : q.at[u] = r.at[u]
  <1> DEFINE out == Ended(r, t)
             at == [r.at EXCEPT ![t] = "rest"]
  <1>0. r \in ServiceType /\ Sound(r) /\ t \in {"warm", "restart"}
    BY DEF Resting, Sound, Placed, Threads
  <1>1. at \in [Threads -> Places] /\ at[t] = "rest" /\ \A u \in Threads \ {t} : at[u] = r.at[u]
    BY <1>0 DEF ServiceType, Places
  <1> HIDE DEF at
  <1>2. /\ out \in ServiceType /\ out.phase = r.phase /\ out.inbox = r.inbox
        /\ out.timer = r.timer /\ out.refs = r.refs /\ out.ready = r.ready
        /\ out.client = r.client /\ out.at = at /\ out.plan = r.plan
        /\ out.options = r.options /\ out.goal = r.goal /\ out.ahead = r.ahead
        /\ t # "warm" => out.warming = r.warming
        /\ t # "restart" => out.restarting = r.restarting
    <2>1. CASE t = "warm"
      <3>1. out = [r EXCEPT !.at = at, !.warming = FALSE]
        BY <1>0, <2>1 DEF Ended, ServiceType, at
      <3> QED BY <1>0, <1>1, <2>1, <3>1 DEF ServiceType
    <2>2. CASE t = "restart"
      <3>1. out = [r EXCEPT !.at = at, !.restarting = FALSE]
        BY <1>0, <2>2 DEF Ended, ServiceType, at
      <3> QED BY <1>0, <1>1, <2>2, <3>1 DEF ServiceType
    <2> QED BY <1>0, <2>1, <2>2
  <1>3. r.refs \in 1..3 /\ (r.phase = "active" => r.refs \in 2..3)
    BY <1>0 DEF Sound, Counted, ServiceType
  <1> HIDE DEF out
  <1>4. q = Release(out)
    BY DEF out
  <1>5. CASE q = Absent /\ r.refs = 1
    <2>1. r.phase # "active"
      BY <1>3, <1>5
    <2>2. r.at["restart"] # "waiting"
      BY <1>0, <1>5 DEF Sound, Counted
    <2> QED BY <1>5, <2>1, <2>2
  <1>6. CASE /\ q \in ServiceType /\ q.refs = out.refs - 1 /\ q.at = out.at
             /\ q.phase = out.phase /\ q.ready = out.ready /\ q.client = out.client
             /\ q.warming = out.warming /\ q.restarting = out.restarting
             /\ q.inbox = out.inbox /\ q.timer = out.timer /\ q.plan = out.plan
             /\ q.options = out.options /\ q.goal = out.goal /\ q.ahead = out.ahead
             /\ out.refs # 1
    <2>1. Counted(q)
      BY <1>0, <1>1, <1>2, <1>3, <1>6 DEF Sound, Counted, Threads
    <2>2. Placed(q)
      <3>0. r.phase # "absent"
        BY <1>0 DEF Sound, Placed
      <3>1. CASE t = "warm"
        BY <1>0, <1>1, <1>2, <1>6, <3>0, <3>1 DEF Sound, Placed, Threads
      <3>2. CASE t = "restart"
        BY <1>0, <1>1, <1>2, <1>6, <3>0, <3>2 DEF Sound, Placed, Threads
      <3> QED BY <1>0, <3>1, <3>2
    <2>3. Planned(q)
      BY <1>0, <1>2, <1>6 DEF Sound, Planned
    <2>4. Sound(q)
      BY <1>6, <2>1, <2>2, <2>3 DEF Sound
    <2>5. Resting(q)
      BY <1>1, <1>2, <1>6, <2>4 DEF Resting
    <2> QED BY <1>1, <1>2, <1>6, <2>5
  <1> QED BY <1>2, <1>3, <1>4, <1>5, <1>6, Released

Arrives(options) == [Absent EXCEPT !.phase = "active", !.refs = 1, !.options = options]

LEMMA ArrivesFine ==
    ASSUME NEW o \in Options, NEW q, q = Arrives(o)
    PROVE  /\ Fine(q) /\ q.phase = "active" /\ q.options = o /\ ~q.ready /\ ~q.ahead
           /\ q.plan = <<>> /\ q.goal = "query" /\ q.inbox = <<>> /\ ~q.timer
           /\ \A t \in Threads : q.at[t] = "rest"
  <1>1. Absent \in ServiceType /\ Sound(Absent) /\ 1 \in 0..3
    BY AbsentIs DEF Resting
  <1>2. /\ q \in ServiceType /\ q.phase = "active" /\ q.options = o /\ q.refs = 1
        /\ q.ready = Absent.ready /\ q.ahead = Absent.ahead /\ q.plan = Absent.plan
        /\ q.goal = Absent.goal /\ q.inbox = Absent.inbox /\ q.timer = Absent.timer
        /\ q.at = Absent.at /\ q.client = Absent.client
    BY <1>1 DEF Arrives, ServiceType
  <1>3. Counted(q)
    BY <1>2, AbsentIs DEF Counted, Threads
  <1>4. Placed(q)
    BY <1>2, AbsentIs DEF Placed, Threads
  <1>5. Planned(q)
    BY <1>1, <1>2 DEF Planned, Sound
  <1>6. Resting(q)
    BY <1>2, <1>3, <1>4, <1>5, AbsentIs DEF Resting, Sound
  <1> QED BY <1>2, <1>6, AbsentIs DEF Fine

-----------------------------------------------------------------------------
(* The engine.                                                             *)

\* Serving command c to engine e with options o makes x of it.
ServedIs(x, c, o, e) ==
    LET base == IF e = NoEngine THEN Fresh ELSE e IN
      /\ x \in Engine \cup {NoEngine}
      /\ c = "shutdown" => x = NoEngine
      /\ c = "redeploy" /\ x # NoEngine => x = Fresh
      /\ c \notin {"mode", "abbrev", "shutdown", "redeploy"} /\ x # NoEngine => x = base
      /\ c = "mode" /\ x # NoEngine =>
           /\ x.config = base.config /\ x.options.mode = o.mode
           /\ x.options.abbrev = base.options.abbrev
      /\ c = "abbrev" /\ x # NoEngine =>
           /\ x.config = base.config /\ x.options.abbrev = o.abbrev
           /\ x.options.mode = base.options.mode

LEMMA FreshTyped ==
    ASSUME saved \in Engine
    PROVE  /\ Fresh \in Engine /\ Fresh.config = saved.config
           /\ Fresh.options = DefaultOptions
  BY DEF Fresh, Engine, DefaultOptions, Options

LEMMA ServedSound ==
    ASSUME saved \in Engine, NEW c \in Commands, NEW o \in Options,
           NEW e \in Engine \cup {NoEngine}, NEW x, x \in Served(c, o, e)
    PROVE  ServedIs(x, c, o, e)
  <1> DEFINE base == IF e = NoEngine THEN Fresh ELSE e
  <1>1. base \in Engine /\ Fresh \in Engine
    BY FreshTyped
  <1>2. CASE c = "shutdown"
    BY <1>2 DEF Served, ServedIs
  <1>3. CASE c = "redeploy"
    BY <1>1, <1>3 DEF Served, Redeployed, ServedIs
  <1>4. CASE c = "mode"
    <2>1. PICK up \in EnsureInitialized(e) :
            x = IF up = NoEngine THEN NoEngine ELSE [up EXCEPT !.options["mode"] = o["mode"]]
      BY <1>4 DEF Served
    <2>2. up = NoEngine \/ up = base
      BY <2>1 DEF EnsureInitialized
    <2>3. CASE up = NoEngine
      BY <1>4, <2>1, <2>3 DEF ServedIs
    <2>4. CASE up = base /\ up # NoEngine
      <3> HIDE DEF base
      <3>1. x = [base EXCEPT !.options["mode"] = o["mode"]]
        BY <2>1, <2>4
      <3>2. x \in Engine /\ x.config = base.config /\ x.options.mode = o.mode
            /\ x.options.abbrev = base.options.abbrev
        BY <1>1, <3>1 DEF Engine, Options
      <3> QED BY <1>4, <3>2 DEF ServedIs, base
    <2> QED BY <2>2, <2>3, <2>4
  <1>5. CASE c = "abbrev"
    <2>1. PICK up \in EnsureInitialized(e) :
            x = IF up = NoEngine THEN NoEngine ELSE [up EXCEPT !.options["abbrev"] = o["abbrev"]]
      BY <1>5 DEF Served
    <2>2. up = NoEngine \/ up = base
      BY <2>1 DEF EnsureInitialized
    <2>3. CASE up = NoEngine
      BY <1>5, <2>1, <2>3 DEF ServedIs
    <2>4. CASE up = base /\ up # NoEngine
      <3> HIDE DEF base
      <3>1. x = [base EXCEPT !.options["abbrev"] = o["abbrev"]]
        BY <2>1, <2>4
      <3>2. x \in Engine /\ x.config = base.config /\ x.options.abbrev = o.abbrev
            /\ x.options.mode = base.options.mode
        BY <1>1, <3>1 DEF Engine, Options
      <3> QED BY <1>5, <3>2 DEF ServedIs, base
    <2> QED BY <2>2, <2>3, <2>4
  <1>6. CASE c \notin {"shutdown", "redeploy", "mode", "abbrev"}
    <2>1. x = base \/ x = NoEngine
      BY <1>6 DEF Served, EnsureInitialized
    <2> QED BY <1>1, <1>6, <2>1 DEF ServedIs
  <1> QED BY <1>2, <1>3, <1>4, <1>5, <1>6

-----------------------------------------------------------------------------
(* Types.                                                                  *)

Troubles == {"engine", "call", "host", "uninstall"}

TypeInv ==
    /\ svc \in [Services -> ServiceType]
    /\ \A s \in Services : Fine(svc[s])
    /\ engine \in Engine \cup {NoEngine}
    /\ saved \in Engine
    /\ owed \subseteq {"apply", "refresh"}
    /\ switches \in 0..MaxSwitches
    /\ missed \subseteq {"dropped", "unheard", "left"}
    /\ trouble \subseteq Troubles

LEMMA TypeInit == Init => TypeInv
  <1> SUFFICES ASSUME Init PROVE TypeInv
    OBVIOUS
  <1>1. \A s \in Services : svc[s] = Absent
    BY DEF Init
  <1>2. svc \in [Services -> ServiceType] /\ \A s \in Services : Fine(svc[s])
    BY <1>1, AbsentIs DEF Init, Fine
  <1>3. saved \in Engine
    <2>1. DefaultOptions \in Options /\ 0 \in 0..MaxEvents
      BY SessionAssumption DEF DefaultOptions, Options
    <2> QED BY <2>1 DEF Init, Engine
  <1> QED BY <1>2, <1>3, SessionAssumption DEF Init, TypeInv

LEMMA EventsTyped ==
    ASSUME TypeInv
    PROVE  /\ saved.config \in 0..MaxEvents /\ saved.options \in Options
           /\ Events < MaxEvents => saved.config + 1 \in 0..MaxEvents
  <1>1. IsFiniteSet(Troubles)
    <2>1. /\ IsFiniteSet({"engine"}) /\ IsFiniteSet({"call"})
          /\ IsFiniteSet({"host"}) /\ IsFiniteSet({"uninstall"})
      BY FS_Singleton, Zenon
    <2>2. IsFiniteSet({"engine"} \cup {"call"}) /\ IsFiniteSet({"host"} \cup {"uninstall"})
      BY <2>1, FS_Union, Zenon
    <2>3. IsFiniteSet(({"engine"} \cup {"call"}) \cup ({"host"} \cup {"uninstall"}))
      BY <2>2, FS_Union, Zenon
    <2>4. Troubles = ({"engine"} \cup {"call"}) \cup ({"host"} \cup {"uninstall"})
      BY DEF Troubles
    <2> QED BY <2>3, <2>4
  <1>2. Cardinality(trouble) \in Nat
    BY <1>1, FS_Subset, FS_CardinalityType DEF TypeInv
  <1>3. saved.config \in 0..MaxEvents /\ saved.options \in Options /\ switches \in Nat
    BY SessionAssumption DEF TypeInv, Engine
  <1> QED BY <1>2, <1>3, SessionAssumption DEF Events

\* A step that changes one service, and of the rest of the state only missed.
LEMMA TypeBecomes ==
    ASSUME TypeInv, NEW s \in Services, NEW q, Fine(q), Becomes(s, q)
    PROVE  svc' \in [Services -> ServiceType] /\ \A u \in Services : Fine(svc[u])'
  <1>1. q \in ServiceType
    BY FineIsSound
  <1>2. svc' = [svc EXCEPT ![s] = q]
    BY DEF Becomes
  <1>3. svc'[s] = q /\ \A u \in Services : u # s => svc'[u] = svc[u]
    BY <1>2 DEF TypeInv
  <1>4. svc' \in [Services -> ServiceType]
    BY <1>1, <1>2 DEF TypeInv
  <1>5. ASSUME NEW u \in Services
        PROVE  Fine(svc'[u])
    <2>1. CASE u = s
      BY <1>3, <2>1
    <2>2. CASE u # s
      BY <1>3, <2>2 DEF TypeInv
    <2> QED BY <2>1, <2>2
  <1> QED BY <1>4, <1>5 DEF Fine, Resting, Using, Sound, Counted, Placed, Planned, Alone

-----------------------------------------------------------------------------
(* What the steps of one service do to the claims made about all.          *)

\* Service r has heard of a change of the configuration, or is reloading.
Pending(r) ==
    \/ Contains(r.inbox, "apply") \/ r.timer \/ r.at["restart"] = "waiting"
    \/ r.plan # <<>> /\ Head(r.plan) = "redeploy"

\* Service r is going to set option c, or to set it again.
Sets(p, c) == p \in FullPlans \/ (c = "abbrev" /\ p = <<"abbrev">>)
Differs(r, c) == r.options[c] # saved.options[c]
Fixer(r, c) ==
    \/ Sets(r.plan, c)
    \/ r.ready /\ Differs(r, c)
    \/ r.ready /\ r.at["ui"] = "waiting" /\ r.goal \in {"options", "focus"}

OptionNames == {"mode", "abbrev"}

\* A service that differs from the settings did so before, and has the message
\* that will tell it of that if it had it before.
Hears(q, r) ==
    q.phase = "active" =>
      /\ Differs(q, "abbrev") =>
           /\ r.phase = "active" /\ Differs(r, "abbrev")
           /\ Contains(r.inbox, "refresh") => Contains(q.inbox, "refresh")
      /\ Differs(q, "mode") =>
           /\ r.phase = "active" /\ Differs(r, "mode")
           /\ Contains(r.inbox, "toolbar") => Contains(q.inbox, "toolbar")

Follows(q, r) ==
    /\ Hears(q, r)
    /\ q.phase = "active" \/ q = Absent
    /\ q.goal = "shutdown" => r.goal = "shutdown"
    /\ q.plan = <<"shutdown">> => r.plan = <<"shutdown">> \/ r.goal = "shutdown"
    /\ q.ready => r.ready
    /\ \A c \in OptionNames :
         /\ \/ q.options[c] = r.options[c]
            \/ q.options[c] = saved.options[c]
            \/ ~q.options[c]
         /\ Fixer(r, c) => Fixer(q, c) \/ q.ahead
         /\ r.ahead => q.ahead \/ Fixer(q, c)

\* A step that leaves the use of the engine and readiness alone, and reads
\* the settings if it changes an option.
LEMMA ReaderFollows ==
    ASSUME NEW r, NEW q, r.phase = "active", q.phase = "active",
           q.ready = r.ready, q.plan = r.plan, q.goal = r.goal,
           q.at["ui"] = r.at["ui"], r.ahead => q.ahead,
           \A c \in OptionNames : \/ q.options[c] = r.options[c]
                                  \/ q.options[c] = saved.options[c] /\ q.ahead,
           Differs(q, "abbrev") /\ Contains(r.inbox, "refresh") => Contains(q.inbox, "refresh"),
           Differs(q, "mode") /\ Contains(r.inbox, "toolbar") => Contains(q.inbox, "toolbar")
    PROVE  Follows(q, r)
  <1>1. \A c \in OptionNames : Differs(q, c) => Differs(r, c)
    BY DEF Differs
  <1>2. Hears(q, r)
    BY <1>1 DEF Hears, OptionNames
  <1>3. ASSUME NEW c \in OptionNames, Fixer(r, c)
        PROVE  Fixer(q, c) \/ q.ahead
    BY <1>3 DEF Fixer, Differs
  <1> QED BY <1>2, <1>3 DEF Follows

\* One that makes the thread of a ready service wait to set the options.
LEMMA SetterFollows ==
    ASSUME NEW r, NEW q, r.phase = "active", q.phase = "active", r.at["ui"] = "rest",
           q.ready = r.ready, q.plan = r.plan, q.at["ui"] = "waiting",
           q.goal # "shutdown", r.ahead => q.ahead,
           \A c \in OptionNames :
               \/ q.options[c] = r.options[c]
               \/ q.options[c] = saved.options[c] /\ q.goal \in {"options", "focus"},
           Differs(q, "abbrev") /\ Contains(r.inbox, "refresh") => Contains(q.inbox, "refresh"),
           Differs(q, "mode") /\ Contains(r.inbox, "toolbar") => Contains(q.inbox, "toolbar")
    PROVE  Follows(q, r)
  <1>1. \A c \in OptionNames : Differs(q, c) => Differs(r, c)
    BY DEF Differs
  <1>2. Hears(q, r)
    BY <1>1 DEF Hears, OptionNames
  <1>3. ASSUME NEW c \in OptionNames, Fixer(r, c)
        PROVE  Fixer(q, c)
    BY <1>3 DEF Fixer, Differs
  <1> QED BY <1>2, <1>3 DEF Follows

LEMMA KeepsPending ==
    ASSUME NEW r, NEW q, Pending(r), Contains(r.inbox, "apply") => Contains(q.inbox, "apply"),
           r.timer => q.timer,
           r.at["restart"] = "waiting" => q.at["restart"] = "waiting", q.plan = r.plan
    PROVE  Pending(q)
  BY DEF Pending

LEMMA Messages ==
    ASSUME NEW M, NEW queue \in Seq(M), NEW m
    PROVE  /\ queue # <<>> => Head(queue) \in M /\ Tail(queue) \in Seq(M)
           /\ queue # <<>> /\ Contains(queue, m) /\ Head(queue) # m => Contains(Tail(queue), m)
           /\ m \in M =>
                /\ Append(queue, m) \in Seq(M) /\ Contains(Append(queue, m), m)
                /\ \A n : Contains(queue, n) => Contains(Append(queue, m), n)
  <1>1. ASSUME queue # <<>>, Contains(queue, m), Head(queue) # m
        PROVE  Contains(Tail(queue), m)
    <2>1. PICK i \in 1..Len(queue) : queue[i] = m
      BY <1>1 DEF Contains
    <2>2. i # 1 /\ i - 1 \in 1..Len(queue) - 1
      BY <1>1, <2>1
    <2>3. Tail(queue)[i - 1] = queue[i - 1 + 1] /\ Len(Tail(queue)) = Len(queue) - 1
      BY <1>1, <2>2
    <2>4. i - 1 + 1 = i
      BY <2>2
    <2>5. Tail(queue)[i - 1] = m /\ i - 1 \in DOMAIN Tail(queue)
      BY <1>1, <2>1, <2>2, <2>3, <2>4
    <2> QED BY <2>5 DEF Contains
  <1>2. ASSUME m \in M
        PROVE  /\ Append(queue, m) \in Seq(M) /\ Contains(Append(queue, m), m)
               /\ \A n : Contains(queue, n) => Contains(Append(queue, m), n)
    <2>1. /\ Append(queue, m) \in Seq(M) /\ Len(Append(queue, m)) = Len(queue) + 1
          /\ Append(queue, m)[Len(queue) + 1] = m
          /\ \A i \in 1..Len(queue) : Append(queue, m)[i] = queue[i]
      BY <1>2
    <2>2. DOMAIN Append(queue, m) = 1..Len(queue) + 1 /\ DOMAIN queue = 1..Len(queue)
      BY <2>1
    <2> QED BY <2>1, <2>2 DEF Contains
  <1>3. queue # <<>> => Head(queue) \in M /\ Tail(queue) \in Seq(M)
    OBVIOUS
  <1> QED BY <1>1, <1>2, <1>3

Here(r) == r.phase = "active" \/ r = Absent

\* A step of service s that makes no promise of its own.
Plain(s, q) ==
    /\ Becomes(s, q) /\ Fine(q)
    /\ Pending(svc[s]) => Pending(q)
    /\ Here(svc[s]) => Follows(q, svc[s])

\* The steps in which a thread begins to wait for the mutex.
LEMMA WaitPlain ==
    ASSUME TypeInv, NEW s \in Services, Idle(s), NEW g \in Goals \ {"shutdown"},
           NEW q, q = Waiting(svc[s], g)
    PROVE  /\ Fine(q) /\ (Pending(svc[s]) => Pending(q))
           /\ Follows(q, svc[s])
  <1> DEFINE r == svc[s]
  <1>1. Fine(r) /\ r.phase = "active" /\ r.at["ui"] = "rest"
    BY DEF TypeInv, Idle
  <1> HIDE DEF r
  <1>2. /\ Fine(q) /\ Same(q, r) /\ q.options = r.options /\ q.ahead = r.ahead
        /\ q.at["ui"] = "waiting" /\ q.goal = g
    BY <1>1, WaitingFine DEF r
  <1>3. Pending(r) => Pending(q)
    BY <1>2, KeepsPending DEF Same
  <1>4. Follows(q, r)
    BY <1>1, <1>2, SetterFollows DEF Same
  <1> QED BY <1>2, <1>3, <1>4 DEF r

LEMMA KeyPlain ==
    ASSUME TypeInv, NEW s \in Services, Key(s) \/ RestartRimeAndAlgorithmService(s)
    PROVE  \E q : Plain(s, q)
  <1>1. CASE Key(s)
    <2>1. Plain(s, Waiting(svc[s], "key"))
      BY <1>1, WaitPlain DEF Key, Plain, Goals
    <2> QED BY <2>1
  <1>2. CASE RestartRimeAndAlgorithmService(s)
    <2>1. Plain(s, Waiting(svc[s], "restart"))
      BY <1>2, WaitPlain DEF RestartRimeAndAlgorithmService, Plain, Goals
    <2> QED BY <2>1
  <1> QED BY <1>1, <1>2

ModeRead(r) == [r EXCEPT !.options.mode = saved.options.mode]

LEMMA ModeReadIs ==
    ASSUME saved.options \in Options, NEW r \in ServiceType, NEW q, q = ModeRead(r)
    PROVE  /\ q \in ServiceType /\ Unmoved(q, r) /\ q.inbox = r.inbox /\ q.timer = r.timer
           /\ q.goal = r.goal /\ q.ahead = r.ahead
           /\ q.options.mode = saved.options.mode /\ q.options.abbrev = r.options.abbrev
  BY DEF ModeRead, Unmoved, ServiceType, Options

LEMMA FocusPlain ==
    ASSUME TypeInv, NEW s \in Services, OnSetFocus(s)
    PROVE  \E q : Plain(s, q)
  <1> DEFINE r == svc[s]
             read == ModeRead(r)
             q == Waiting(read, "focus")
  <1>1. Fine(r) /\ r.phase = "active" /\ r.at["ui"] = "rest" /\ saved.options \in Options
    BY EventsTyped DEF TypeInv, OnSetFocus, Idle
  <1>2. /\ read \in ServiceType /\ Unmoved(read, r) /\ read.inbox = r.inbox
        /\ read.timer = r.timer /\ read.goal = r.goal /\ read.ahead = r.ahead
        /\ read.options.mode = saved.options.mode
        /\ read.options.abbrev = r.options.abbrev
    BY <1>1, FineIsSound, ModeReadIs
  <1>3. Becomes(s, q)
    BY DEF OnSetFocus, ModeRead
  <1> HIDE DEF r, read
  <1>4. Fine(read) /\ read.phase = "active" /\ read.at["ui"] = "rest"
    BY <1>1, <1>2, FineIfUnmoved DEF Unmoved
  <1>5. /\ Fine(q) /\ Same(q, read) /\ q.options = read.options /\ q.ahead = read.ahead
        /\ q.at["ui"] = "waiting" /\ q.goal = "focus"
    BY <1>4, WaitingFine DEF Goals
  <1> HIDE DEF q
  <1>6. Pending(r) => Pending(q)
    BY <1>2, <1>5, KeepsPending DEF Same, Unmoved
  <1>7. /\ q.phase = "active" /\ q.ready = r.ready /\ q.plan = r.plan /\ q.inbox = r.inbox
        /\ q.ahead = r.ahead
    BY <1>1, <1>2, <1>5 DEF Same, Unmoved
  <1>8. \A c \in OptionNames : q.options[c] = r.options[c] \/ q.options[c] = saved.options[c]
    BY <1>2, <1>5 DEF OptionNames
  <1>9. Follows(q, r)
    BY <1>1, <1>5, <1>7, <1>8, SetterFollows
  <1> QED BY <1>3, <1>5, <1>6, <1>9 DEF Plain, r

LEMMA TipPlain ==
    ASSUME TypeInv, NEW s \in Services, ShowStatusTip(s)
    PROVE  \E q : Plain(s, q)
  <1>1. PICK q \in LoadUserSettings(svc[s]) : Becomes(s, q)
    BY DEF ShowStatusTip
  <1> DEFINE r == svc[s]
  <1>2. Fine(r) /\ r.phase = "active" /\ saved.options \in Options /\ r \in ServiceType
    BY EventsTyped, FineIsSound DEF TypeInv, ShowStatusTip, Idle
  <1> HIDE DEF r
  <1>3. CASE q = r
    <2>1. Follows(r, r)
      BY <1>2, ReaderFollows
    <2> QED BY <1>1, <1>2, <1>3, <2>1 DEF Plain, r
  <1>4. CASE q # r
    <2>1. q = [r EXCEPT !.options.abbrev = saved.options.abbrev,
                        !.ahead = @ \/ r.options.abbrev # saved.options.abbrev]
      BY <1>1, <1>4 DEF LoadUserSettings, r
    <2>2. /\ q \in ServiceType /\ Unmoved(q, r) /\ q.inbox = r.inbox /\ q.timer = r.timer
          /\ q.goal = r.goal
          /\ q.options.mode = r.options.mode /\ q.options.abbrev = saved.options.abbrev
      BY <1>2, <2>1 DEF ServiceType, Options, Unmoved
    <2>3. q.ahead <=> r.ahead \/ r.options.abbrev # saved.options.abbrev
      BY <1>2, <2>1 DEF ServiceType
    <2>4. Fine(q)
      BY <1>2, <2>2, FineIfUnmoved
    <2>5. Pending(r) => Pending(q)
      BY <2>2, KeepsPending DEF Unmoved
    <2>6. \A c \in OptionNames : \/ q.options[c] = r.options[c]
                                 \/ q.options[c] = saved.options[c] /\ q.ahead
      BY <2>2, <2>3 DEF OptionNames
    <2>7. Follows(q, r)
      BY <1>2, <2>2, <2>3, <2>6, ReaderFollows DEF Unmoved
    <2> QED BY <1>1, <2>4, <2>5, <2>7 DEF Plain, r
  <1> QED BY <1>3, <1>4

\* What the toolbar's refresh does, with the message it came with or without.
LEMMA ToolbarIs ==
    ASSUME saved.options \in Options, NEW r \in ServiceType,
           NEW q, q = RefreshToolbarFromSettings(r)
    PROVE  /\ q \in ServiceType /\ Unmoved(q, r) /\ q.inbox = r.inbox /\ q.timer = r.timer
           /\ q.goal = r.goal /\ (r.ahead => q.ahead)
           /\ ~Differs(q, "mode")
           /\ \A c \in OptionNames : \/ q.options[c] = r.options[c]
                                     \/ q.options[c] = saved.options[c] /\ q.ahead
  <1>1. q = [r EXCEPT !.options.mode = saved.options.mode,
                      !.ahead = @ \/ r.options.mode # saved.options.mode]
    BY DEF RefreshToolbarFromSettings
  <1>2. /\ q \in ServiceType /\ Unmoved(q, r) /\ q.inbox = r.inbox /\ q.timer = r.timer
        /\ q.goal = r.goal
        /\ q.options.abbrev = r.options.abbrev /\ q.options.mode = saved.options.mode
    <2> DEFINE a == r.ahead \/ r.options.mode # saved.options.mode
               o == [r.options EXCEPT !.mode = saved.options.mode]
    <2>1. q = [r EXCEPT !.options = o, !.ahead = a] /\ a \in BOOLEAN
      BY <1>1 DEF ServiceType
    <2>2. o \in Options /\ o.mode = saved.options.mode /\ o.abbrev = r.options.abbrev
      BY DEF ServiceType, Options
    <2> HIDE DEF a, o
    <2> QED BY <2>1, <2>2 DEF ServiceType, Unmoved
  <1>3. q.ahead <=> r.ahead \/ r.options.mode # saved.options.mode
    BY <1>1 DEF ServiceType
  <1>4. \A c \in OptionNames : \/ q.options[c] = r.options[c]
                               \/ q.options[c] = saved.options[c] /\ q.ahead
    BY <1>2, <1>3 DEF OptionNames
  <1>5. ~Differs(q, "mode")
    BY <1>2 DEF Differs
  <1>6. r.ahead => q.ahead
    BY <1>3, Zenon
  <1> QED BY <1>2, <1>4, <1>5, <1>6, Zenon

LEMMA ToolbarPlain ==
    ASSUME TypeInv, NEW s \in Services, ToolbarRefreshed(s)
    PROVE  \E q : Plain(s, q)
  <1> DEFINE r == svc[s]
             q == RefreshToolbarFromSettings(r)
  <1>1. /\ Fine(r) /\ r.phase = "active" /\ saved.options \in Options /\ r \in ServiceType
        /\ Becomes(s, q)
    BY EventsTyped, FineIsSound DEF TypeInv, ToolbarRefreshed, Idle
  <1> HIDE DEF r
  <1>2. /\ q \in ServiceType /\ Unmoved(q, r) /\ q.inbox = r.inbox /\ q.timer = r.timer
        /\ q.goal = r.goal /\ (r.ahead => q.ahead)
        /\ ~Differs(q, "mode")
        /\ \A c \in OptionNames : \/ q.options[c] = r.options[c]
                                  \/ q.options[c] = saved.options[c] /\ q.ahead
    BY <1>1, ToolbarIs
  <1> HIDE DEF q
  <1>3. Fine(q)
    BY <1>1, <1>2, FineIfUnmoved
  <1>4. Pending(r) => Pending(q)
    BY <1>2, KeepsPending DEF Unmoved
  <1>5. Follows(q, r)
    BY <1>1, <1>2, ReaderFollows DEF Unmoved
  <1> QED BY <1>1, <1>3, <1>4, <1>5 DEF Plain, r

LEMMA Controls ==
    ASSUME TypeInv, NEW s \in Services, ControlWindowProc(s)
    PROVE  \E q : Plain(s, q)
  <1> DEFINE r == svc[s]
             m == Head(r.inbox)
             taken == [r EXCEPT !.inbox = Tail(@)]
  <1>1. /\ Fine(r) /\ r \in ServiceType /\ r.phase = "active" /\ r.at["ui"] = "rest"
        /\ r.inbox # <<>> /\ saved.options \in Options
    BY EventsTyped, FineIsSound DEF TypeInv, ControlWindowProc, Idle
  <1>2. /\ m \in {"apply", "refresh", "toolbar"}
        /\ Tail(r.inbox) \in Seq({"apply", "refresh", "toolbar"})
        /\ \A n : Contains(r.inbox, n) /\ m # n => Contains(Tail(r.inbox), n)
    BY <1>1, Messages DEF ServiceType
  <1>3. /\ taken \in ServiceType /\ Unmoved(taken, r) /\ taken.inbox = Tail(r.inbox)
        /\ taken.timer = r.timer /\ taken.goal = r.goal /\ taken.ahead = r.ahead
        /\ taken.options = r.options
    BY <1>1, <1>2 DEF ServiceType, Unmoved
  <1>4. /\ m = "apply" => Becomes(s, [taken EXCEPT !.timer = TRUE])
        /\ m = "refresh" => Becomes(s, RefreshInputStateFromSettings(taken))
        /\ m = "toolbar" => Becomes(s, RefreshToolbarFromSettings(taken))
    BY DEF ControlWindowProc
  <1> HIDE DEF r, m, taken
  <1>5. CASE m = "apply"
    <2> DEFINE q == [taken EXCEPT !.timer = TRUE]
    <2>1. /\ q \in ServiceType /\ Unmoved(q, r) /\ q.inbox = Tail(r.inbox) /\ q.timer
          /\ q.goal = r.goal /\ q.ahead = r.ahead /\ q.options = r.options
      BY <1>3 DEF ServiceType, Unmoved
    <2>2. Becomes(s, q)
      BY <1>4, <1>5
    <2> HIDE DEF q
    <2>3. Fine(q) /\ Pending(q)
      BY <1>1, <2>1, FineIfUnmoved DEF Pending
    <2>4. Follows(q, r)
      BY <1>1, <1>2, <1>5, <2>1, ReaderFollows DEF Unmoved
    <2> QED BY <2>2, <2>3, <2>4 DEF Plain, r
  <1>6. CASE m = "refresh"
    <2>1. CASE taken.options = saved.options
      <3>1. Becomes(s, taken)
        BY <1>4, <1>6, <2>1 DEF RefreshInputStateFromSettings
      <3>2. Fine(taken)
        BY <1>1, <1>3, FineIfUnmoved
      <3>3. Pending(r) => Pending(taken)
        BY <1>2, <1>3, <1>6, KeepsPending DEF Unmoved
      <3>4. ~Differs(taken, "abbrev")
        BY <2>1 DEF Differs
      <3>5. Follows(taken, r)
        BY <1>1, <1>2, <1>3, <1>6, <3>4, ReaderFollows DEF Unmoved
      <3> QED BY <3>1, <3>2, <3>3, <3>5 DEF Plain, r
    <2>2. CASE taken.options # saved.options
      <3> DEFINE read == [taken EXCEPT !.options = saved.options]
                 q == Waiting(read, "options")
      <3>1. /\ read \in ServiceType /\ Unmoved(read, r) /\ read.inbox = Tail(r.inbox)
            /\ read.timer = r.timer /\ read.ahead = r.ahead /\ read.options = saved.options
        BY <1>1, <1>3 DEF ServiceType, Unmoved
      <3>2. Becomes(s, q)
        BY <1>4, <1>6, <2>2 DEF RefreshInputStateFromSettings
      <3> HIDE DEF read
      <3>3. Fine(read) /\ read.phase = "active" /\ read.at["ui"] = "rest"
        BY <1>1, <3>1, FineIfUnmoved DEF Unmoved
      <3>4. /\ Fine(q) /\ Same(q, read) /\ q.options = read.options /\ q.ahead = read.ahead
            /\ q.at["ui"] = "waiting" /\ q.goal = "options"
        BY <3>3, WaitingFine DEF Goals
      <3> HIDE DEF q
      <3>5. Pending(r) => Pending(q)
        BY <1>2, <1>6, <3>1, <3>4, KeepsPending DEF Same, Unmoved
      <3>6. /\ q.phase = "active" /\ q.ready = r.ready /\ q.plan = r.plan
            /\ q.inbox = Tail(r.inbox) /\ q.ahead = r.ahead /\ q.options = saved.options
        BY <1>1, <3>1, <3>4 DEF Same, Unmoved
      <3>7. ~Differs(q, "abbrev") /\ ~Differs(q, "mode")
        BY <3>6 DEF Differs
      <3>8. Follows(q, r)
        BY <1>1, <3>4, <3>6, <3>7, SetterFollows
      <3> QED BY <3>2, <3>4, <3>5, <3>8 DEF Plain, r
    <2> QED BY <2>1, <2>2
  <1>7. CASE m = "toolbar"
    <2> DEFINE q == RefreshToolbarFromSettings(taken)
    <2>1. /\ q \in ServiceType /\ Unmoved(q, taken) /\ q.inbox = taken.inbox
          /\ q.timer = taken.timer /\ q.goal = taken.goal /\ (taken.ahead => q.ahead)
          /\ ~Differs(q, "mode")
          /\ \A c \in OptionNames : \/ q.options[c] = taken.options[c]
                                    \/ q.options[c] = saved.options[c] /\ q.ahead
      BY <1>1, <1>3, ToolbarIs
    <2>2. Becomes(s, q)
      BY <1>4, <1>7
    <2> HIDE DEF q
    <2>3. Unmoved(q, r)
      BY <1>3, <2>1 DEF Unmoved
    <2>4. Fine(q)
      BY <1>1, <2>1, <2>3, FineIfUnmoved
    <2>5. Pending(r) => Pending(q)
      BY <1>2, <1>3, <1>7, <2>1, <2>3, KeepsPending DEF Unmoved
    <2>6. Follows(q, r)
      <3>1. \A c \in OptionNames : \/ q.options[c] = r.options[c]
                                   \/ q.options[c] = saved.options[c] /\ q.ahead
        BY <1>3, <2>1
      <3>2. /\ q.phase = "active" /\ q.ready = r.ready /\ q.plan = r.plan /\ q.goal = r.goal
            /\ q.at["ui"] = r.at["ui"] /\ (r.ahead => q.ahead) /\ q.inbox = Tail(r.inbox)
        BY <1>1, <1>3, <2>1, <2>3 DEF Unmoved
      <3> QED BY <1>1, <1>2, <1>7, <2>1, <3>1, <3>2, ReaderFollows
    <2> QED BY <2>2, <2>4, <2>5, <2>6 DEF Plain, r
  <1> QED BY <1>2, <1>5, <1>6, <1>7

LEMMA WakePlain ==
    ASSUME TypeInv, NEW s \in Services, WarmUpWakes(s)
    PROVE  \E q : Plain(s, q)
  <1> DEFINE r == svc[s]
             p == IF r.phase = "active" THEN "waiting" ELSE "ending"
             q == Wakes(r, p)
  <1>1. Resting(r) /\ r.at["warm"] = "asleep" /\ p \in {"waiting", "ending"}
    BY NobodyInside DEF TypeInv, WarmUpWakes
  <1>2. Becomes(s, q)
    BY DEF WarmUpWakes, Wakes
  <1> HIDE DEF r, p
  <1>3. /\ Fine(q) /\ Same(q, r) /\ q.options = r.options /\ q.ahead = r.ahead
        /\ q.goal = r.goal /\ q.at["ui"] = r.at["ui"]
    BY <1>1, WakesFine
  <1> HIDE DEF q
  <1>4. Pending(r) => Pending(q)
    BY <1>3, KeepsPending DEF Same
  <1>5. Here(r) => r.phase = "active"
    BY <1>1, AbsentIs DEF Here, Threads
  <1>6. r.phase = "active" => Follows(q, r)
    BY <1>3, ReaderFollows DEF Same
  <1> QED BY <1>2, <1>3, <1>4, <1>5, <1>6 DEF Plain, r

LEMMA EndPlain ==
    ASSUME TypeInv, NEW s \in Services, NEW t \in Threads, ThreadEnds(s, t)
    PROVE  \E q : Plain(s, q)
  <1> DEFINE r == svc[s]
             q == Release(Ended(r, t))
  <1>1. Resting(r) /\ r.at[t] = "ending" /\ Sound(r)
    BY NobodyInside DEF TypeInv, ThreadEnds, Resting
  <1>2. Becomes(s, q)
    BY DEF ThreadEnds, Ended
  <1>3. Here(r) => r.phase = "active"
    BY <1>1, AbsentIs DEF Here
  <1> HIDE DEF r
  <1>4. CASE q = Absent /\ r.phase # "active" /\ r.at["restart"] # "waiting"
    <2>1. r.inbox = <<>> /\ ~r.timer /\ r.plan = <<>>
      BY <1>1, <1>4 DEF Sound, Placed, Resting
    <2>2. ~Pending(r)
      BY <1>4, <2>1 DEF Pending, Contains
    <2> QED BY <1>2, <1>3, <1>4, <2>2, AbsentIs DEF Plain, Fine, r
  <1>5. CASE /\ Resting(q) /\ q.phase = r.phase /\ q.ready = r.ready /\ q.inbox = r.inbox
             /\ q.timer = r.timer /\ q.plan = r.plan /\ q.options = r.options
             /\ q.goal = r.goal /\ q.ahead = r.ahead
             /\ \A u \in Threads \ {t} : q.at[u] = r.at[u]
    <2> HIDE DEF q
    <2>1. /\ q.at["ui"] = r.at["ui"]
          /\ r.at["restart"] = "waiting" => q.at["restart"] = "waiting"
      BY <1>1, <1>5 DEF Threads, Sound, Placed
    <2>2. Pending(r) => Pending(q)
      BY <1>5, <2>1, KeepsPending
    <2>3. r.phase = "active" => Follows(q, r)
      BY <1>5, <2>1, ReaderFollows
    <2> QED BY <1>2, <1>3, <1>5, <2>2, <2>3 DEF Plain, Fine, r
  <1> QED BY <1>1, <1>4, <1>5, EndedFine

LEMMA ActivatePlain ==
    ASSUME TypeInv, NEW s \in Services, Activate(s)
    PROVE  \E q : Plain(s, q)
  <1> DEFINE r == svc[s]
             q == Arrives(saved.options)
  <1>1. /\ Fine(r) /\ r.phase = "absent" /\ saved.options \in Options
        /\ Becomes(s, q)
    BY EventsTyped DEF TypeInv, Activate, Arrives
  <1>2. /\ Fine(q) /\ q.phase = "active" /\ q.options = saved.options /\ ~q.ready /\ ~q.ahead
        /\ q.plan = <<>> /\ q.goal = "query" /\ q.inbox = <<>> /\ ~q.timer
    BY <1>1, ArrivesFine
  <1> HIDE DEF r, q
  <1>3. ~Pending(r)
    <2>1. /\ r.at["restart"] = "rest" /\ r.at["warm"] = "rest" /\ r.at["ui"] = "rest"
          /\ r.inbox = <<>> /\ ~r.timer
      BY <1>1, FineIsSound DEF Sound, Placed
    <2>2. r.plan = <<>>
      BY <1>1, <2>1 DEF Fine, Resting, Using, Threads
    <2> QED BY <2>1, <2>2 DEF Pending, Contains
  <1>4. Here(r) => r = Absent
    BY <1>1 DEF Here
  <1>5. r = Absent => Follows(q, r)
    <2> SUFFICES ASSUME r = Absent PROVE Follows(q, r)
      OBVIOUS
    <2>1. ~r.ready /\ ~r.ahead /\ r.plan = <<>>
      BY AbsentIs
    <2>2. Hears(q, r)
      BY <1>2 DEF Hears, Differs
    <2>3. ~Fixer(r, "mode") /\ ~Fixer(r, "abbrev")
      BY <2>1 DEF Fixer, Sets, FullPlans
    <2> QED BY <1>2, <2>1, <2>2, <2>3 DEF Follows, OptionNames
  <1> QED BY <1>1, <1>2, <1>3, <1>4, <1>5 DEF Plain, r

LEMMA PlansDiffer ==
    /\ <<>> \notin FullPlans /\ <<"query">> \notin FullPlans /\ <<"shutdown">> \notin FullPlans
    /\ <<"mode", "abbrev">> \in FullPlans /\ <<"query">> # <<"shutdown">>
    /\ <<"shutdown">> # <<>> /\ \A p \in FullPlans : p # <<"shutdown">> /\ p # <<>>
  BY DEF FullPlans

LEMMA EnterPlain ==
    ASSUME TypeInv, NEW s \in Services, NEW t \in Threads, Enter(s, t)
    PROVE  \E q : Plain(s, q)
  <1> DEFINE r == svc[s]
             g == GoalOf(r, t)
             x == Inside(r, t)
  <1>1. /\ Resting(r) /\ r.at[t] = "waiting" /\ saved.options \in Options
        /\ r \in ServiceType /\ Sound(r) /\ r.plan = <<>>
    BY EventsTyped, NobodyInside DEF TypeInv, Enter, Resting, Sound
  <1>2. PICK q \in Continued(x, t) : Becomes(s, q)
    BY DEF Enter, Inside
  <1>3. /\ t = "ui" => g = r.goal
        /\ t = "warm" => g = "initialize"
        /\ t = "restart" => g = "reload"
    BY DEF GoalOf
  <1>4. x = Inside(r, t) /\ g = GoalOf(r, t)
    OBVIOUS
  <1> HIDE DEF r, g, x
  <1>5. /\ Sound(x) /\ x.at[t] = "inside" /\ Alone(x, t) /\ g \in Goals
        /\ x.plan = PlanOf(r, g) /\ x.options = r.options
        /\ x.phase = r.phase /\ x.inbox = r.inbox /\ x.timer = r.timer
        /\ x.goal = r.goal
        /\ \A u \in Threads \ {t} : x.at[u] = r.at[u]
        /\ g \notin Renewing => x.ready = r.ready
        /\ g \in Renewing => ~x.ready
        /\ ~x.ahead => ~r.ahead \/ x.plan \in FullPlans
    BY <1>1, <1>4, UseBegins
  <1>6. /\ Fine(q) /\ Left(q, x)
        /\ x.plan # <<>> => q = x
        /\ x.plan = <<>> => Resting(q)
        /\ q.options.abbrev = x.options.abbrev \/ q.options.abbrev = saved.options.abbrev
        /\ ~q.ahead => q.options = x.options /\ ~x.ahead
        /\ t # "restart" => q.at["restart"] = x.at["restart"]
        /\ t # "ui" => q.at["ui"] = x.at["ui"] /\ q.goal = x.goal
        /\ q.goal = x.goal \/ q.goal = "query"
    BY <1>1, <1>2, <1>5, UseContinues
  <1>7. /\ PlanOf(r, g) \in FullPlans \cup {<<>>, <<"query">>, <<"shutdown">>}
        /\ PlanOf(r, g) = <<"shutdown">> => g = "shutdown"
    BY <1>5, PlanSound
  <1>8. q.plan = x.plan /\ q.phase = r.phase /\ q.inbox = r.inbox /\ q.timer = r.timer
        /\ q.ready = x.ready /\ q.options.mode = r.options.mode
    BY <1>5, <1>6 DEF Left
  <1>9. Pending(r) => Pending(q)
    <2>1. CASE t = "restart"
      <3>1. x.plan = <<"redeploy", "reinitialize", "mode", "abbrev">>
        BY <1>3, <1>5, <2>1, PlanIs
      <3>2. q.plan # <<>> /\ Head(q.plan) = "redeploy"
        <4>1. Head(x.plan) = "redeploy"
          BY <3>1, Heads
        <4>2. x.plan # <<>>
          BY <3>1
        <4> QED BY <1>8, <4>1, <4>2
      <3> QED BY <3>2 DEF Pending
    <2>2. CASE t # "restart"
      <3>1. x.at["restart"] = r.at["restart"]
        BY <1>5, <2>2 DEF Threads
      <3>2. q.at["restart"] = r.at["restart"]
        BY <1>6, <2>2, <3>1
      <3> QED BY <1>1, <1>8, <3>2 DEF Pending
    <2> QED BY <2>1, <2>2
  <1>10. Here(r) => r.phase = "active"
    BY <1>1, AbsentIs DEF Here
  <1>11. ASSUME r.phase = "active" PROVE Follows(q, r)
    <2>1. q.options.abbrev = r.options.abbrev \/ q.options.abbrev = saved.options.abbrev
      BY <1>5, <1>6
    <2>2. Hears(q, r)
      BY <1>8, <1>11, <2>1 DEF Hears, Differs
    <2>3. ~q.ahead => q.options = r.options /\ (r.ahead => q.plan \in FullPlans)
      BY <1>5, <1>6, <1>8
    <2>4. q.ready => r.ready
      BY <1>5, <1>8
    <2>5. q.plan = <<"shutdown">> => r.goal = "shutdown"
      BY <1>3, <1>5, <1>7, <1>8 DEF Threads
    <2>6. q.goal = "shutdown" => r.goal = "shutdown"
      BY <1>5, <1>6
    <2>7. ASSUME NEW c \in OptionNames, Fixer(r, c), ~q.ahead
          PROVE  Fixer(q, c)
      <3>1. CASE q.plan \in FullPlans
        BY <3>1 DEF Fixer, Sets
      <3>2. CASE q.plan \notin FullPlans
        <4>1. r.ready /\ r.client = "up"
          <5>1. ~Sets(r.plan, c)
            BY <1>1, PlansDiffer DEF Sets
          <5> QED BY <1>1, <2>7, <5>1 DEF Fixer, Sound, Planned
        <4>2. g \notin Renewing
          <5>1. ASSUME g \in Renewing PROVE q.plan \in FullPlans
            BY <1>5, <1>8, <5>1, PlanIs DEF Renewing, FullPlans
          <5> QED BY <3>2, <5>1
        <4>3. q.ready
          BY <1>5, <1>8, <4>1, <4>2
        <4>4. CASE Differs(r, c)
          BY <2>3, <2>7, <4>3, <4>4 DEF Fixer, Differs
        <4>5. CASE r.at["ui"] = "waiting" /\ r.goal \in {"options", "focus"}
          <5>1. t # "ui"
            <6>1. ASSUME t = "ui" PROVE q.plan \in FullPlans
              <7>1. g \in {"focus", "options"} /\ HasEngine(r)
                BY <1>3, <4>1, <4>5, <6>1 DEF HasEngine
              <7>2. PlanOf(r, g) = <<"mode", "abbrev">>
                BY <1>5, <7>1, PlanIs
              <7> QED BY <1>5, <1>8, <7>2, PlansDiffer
            <6> QED BY <3>2, <6>1
          <5>2. q.at["ui"] = "waiting" /\ q.goal = r.goal
            BY <1>5, <1>6, <4>5, <5>1 DEF Threads
          <5> QED BY <4>3, <4>5, <5>2 DEF Fixer
        <4>6. ~Sets(r.plan, c)
          BY <1>1, PlansDiffer DEF Sets
        <4> QED BY <2>7, <4>4, <4>5, <4>6 DEF Fixer
      <3> QED BY <3>1, <3>2
    <2>8. ASSUME NEW c \in OptionNames
          PROVE  \/ q.options[c] = r.options[c] \/ q.options[c] = saved.options[c]
      BY <1>8, <2>1 DEF OptionNames
    <2>9. ASSUME NEW c \in OptionNames, r.ahead, ~q.ahead
          PROVE  Fixer(q, c)
      BY <2>3, <2>9 DEF Fixer, Sets
    <2> QED BY <1>8, <1>11, <2>2, <2>4, <2>5, <2>6, <2>7, <2>8, <2>9 DEF Follows
  <1> QED BY <1>2, <1>6, <1>9, <1>10, <1>11 DEF Plain, r

LEMMA TimerStep ==
    ASSUME TypeInv, NEW s \in Services, RestartTimer(s)
    PROVE  \E q : /\ Becomes(s, q) /\ Fine(q) /\ Follows(q, svc[s])
                  /\ ~svc[s].restarting => Pending(q)
  <1> DEFINE r == svc[s]
             rung == [r EXCEPT !.timer = FALSE]
             q == RestartRimeAndAlgorithmServiceAsync(rung)
  <1>1. /\ Fine(r) /\ r \in ServiceType /\ r.phase = "active" /\ r.at["ui"] = "rest"
    BY FineIsSound DEF TypeInv, RestartTimer, Idle
  <1>2. Becomes(s, q)
    BY DEF RestartTimer
  <1> HIDE DEF r
  <1>3. /\ rung \in ServiceType /\ Unmoved(rung, r) /\ rung.inbox = r.inbox /\ ~rung.timer
        /\ rung.goal = r.goal /\ rung.ahead = r.ahead /\ rung.options = r.options
    BY <1>1 DEF ServiceType, Unmoved
  <1> HIDE DEF rung
  <1>4. Fine(rung)
    BY <1>1, <1>3, FineIfUnmoved
  <1>5. /\ Fine(q) /\ q.phase = rung.phase /\ q.ready = rung.ready /\ q.inbox = rung.inbox
        /\ q.plan = rung.plan /\ q.options = rung.options
        /\ q.ahead = rung.ahead /\ q.goal = rung.goal /\ q.at["ui"] = rung.at["ui"]
        /\ rung.phase = "active" /\ ~rung.restarting => q.at["restart"] = "waiting"
    BY <1>4, RestartFine
  <1> HIDE DEF q
  <1>6. /\ q.phase = "active" /\ q.ready = r.ready /\ q.inbox = r.inbox
        /\ q.plan = r.plan /\ q.options = r.options
        /\ q.ahead = r.ahead /\ q.goal = r.goal /\ q.at["ui"] = r.at["ui"]
        /\ ~r.restarting => q.at["restart"] = "waiting"
    BY <1>1, <1>3, <1>5 DEF Unmoved
  <1>7. Follows(q, r)
    BY <1>1, <1>6, ReaderFollows
  <1>8. ~r.restarting => Pending(q)
    BY <1>6 DEF Pending
  <1> QED BY <1>2, <1>5, <1>7, <1>8 DEF r

LEMMA QuitStep ==
    ASSUME TypeInv, NEW s \in Services, Deactivate(s)
    PROVE  \E q : /\ Becomes(s, q) /\ Fine(q)
                  /\ Pending(svc[s]) =>
                       Pending(q) \/ svc[s].timer \/ Contains(svc[s].inbox, "apply")
                  /\ "left" \notin missed' => Follows(q, svc[s])
  <1> DEFINE r == svc[s]
             q == Release(Quits(r))
  <1>1. /\ Fine(r) /\ Sound(r) /\ r \in ServiceType /\ r.phase = "active" /\ r.at["ui"] = "rest"
    BY FineIsSound DEF TypeInv, Deactivate, Idle
  <1>2. Becomes(s, q)
    BY DEF Deactivate, Quits
  <1>3. "left" \notin missed' => ~(r.refs > 1) /\ ~r.ahead /\ r.options = saved.options
    BY DEF Deactivate
  <1> HIDE DEF r
  <1>4. CASE q = Absent /\ r.refs = 1
    <2>1. r.at["warm"] = "rest" /\ r.at["restart"] = "rest"
      BY <1>1, <1>4 DEF Sound, Counted
    <2>2. r.plan = <<>>
      BY <1>1, <2>1 DEF Fine, Resting, Using, Threads
    <2>3. Pending(r) => r.timer \/ Contains(r.inbox, "apply")
      BY <2>1, <2>2 DEF Pending
    <2>4. "left" \notin missed' => Follows(Absent, r)
      <3> SUFFICES ASSUME "left" \notin missed' PROVE Follows(Absent, r)
        OBVIOUS
      <3>1. ~Differs(r, "mode") /\ ~Differs(r, "abbrev") /\ ~r.ahead
        BY <1>3 DEF Differs
      <3>2. ~Fixer(r, "mode") /\ ~Fixer(r, "abbrev")
        BY <1>1, <2>2, <3>1, PlansDiffer DEF Fixer, Sets
      <3>3. Hears(Absent, r)
        BY AbsentIs DEF Hears
      <3>4. \A c \in OptionNames : ~Absent.options[c]
        BY AbsentIs DEF OptionNames, DefaultOptions
      <3>5. Absent.plan # <<"shutdown">> /\ Absent.goal # "shutdown" /\ ~Absent.ready
        BY AbsentIs
      <3> QED BY <3>1, <3>2, <3>3, <3>4, <3>5 DEF Follows, OptionNames
    <2> QED BY <1>2, <1>4, <2>3, <2>4, AbsentIs DEF Fine, r
  <1>5. CASE /\ Fine(q) /\ q.phase = "inactive" /\ q.plan = r.plan /\ r.refs > 1
             /\ q.at = r.at
    <2>1. Pending(r) => Pending(q) \/ r.timer \/ Contains(r.inbox, "apply")
      BY <1>5 DEF Pending
    <2> QED BY <1>2, <1>3, <1>5, <2>1 DEF r
  <1> QED BY <1>1, <1>4, <1>5, QuitsFine

LEMMA ShutdownStep ==
    ASSUME TypeInv, NEW s \in Services, ShutdownRimeForUninstall(s)
    PROVE  \E q : Becomes(s, q) /\ Fine(q) /\ (Pending(svc[s]) => Pending(q))
  <1> DEFINE r == svc[s]
             q == Waiting(r, "shutdown")
  <1>1. /\ Fine(r) /\ r.phase = "active" /\ r.at["ui"] = "rest" /\ Becomes(s, q)
    BY DEF TypeInv, ShutdownRimeForUninstall, Idle
  <1> HIDE DEF r
  <1>2. Fine(q) /\ Same(q, r)
    BY <1>1, WaitingFine DEF Goals
  <1>3. Pending(r) => Pending(q)
    BY <1>2, KeepsPending DEF Same
  <1> QED BY <1>1, <1>2, <1>3 DEF r

LEMMA CallFailsStep ==
    ASSUME TypeInv, NEW s \in Services, NEW t \in Threads, CallFails(s, t)
    PROVE  \E q : Becomes(s, q) /\ Fine(q)
  <1> DEFINE r == svc[s]
             x == Answered(r, Head(r.plan), FALSE)
  <1>1. PICK q \in Continued(x, t) : Becomes(s, q)
    BY DEF CallFails
  <1>2. Using(r, t) /\ saved.options \in Options
    BY EventsTyped, SomeoneInside DEF TypeInv, CallFails
  <1> HIDE DEF r
  <1>3. Sound(x) /\ x.at[t] = "inside" /\ Alone(x, t)
    BY <1>2, AnswerSound
  <1>4. Fine(q)
    BY <1>1, <1>2, <1>3, UseContinues
  <1> QED BY <1>1, <1>4

\* What is left of service r after thread t had the answer to its command.
Called(q, r, t, ok) ==
    /\ Fine(q) /\ q.phase = r.phase /\ q.inbox = r.inbox /\ q.timer = r.timer
    /\ q.options.mode = r.options.mode
    /\ q.options.abbrev = r.options.abbrev \/ q.options.abbrev = saved.options.abbrev
    /\ ~q.ahead => q.options = r.options /\ ~r.ahead
    /\ t # "restart" => q.at["restart"] = r.at["restart"]
    /\ t # "ui" => q.at["ui"] = r.at["ui"] /\ q.goal = r.goal
    /\ q.goal = r.goal \/ q.goal = "query"
    /\ q.plan = Tail(r.plan) \/ q.plan = <<>>
    /\ ok => q.plan = Tail(r.plan)
    /\ Head(r.plan) \in {"query", "mode", "abbrev"} => q.ready = r.ready

LEMMA CallStep ==
    ASSUME TypeInv, NEW s \in Services, NEW t \in Threads, Call(s, t)
    PROVE  /\ Using(svc[s], t) /\ Head(svc[s].plan) \in Commands
           /\ ServedIs(engine', Head(svc[s].plan), svc[s].options, engine)
           /\ \E q : Becomes(s, q) /\ Called(q, svc[s], t, engine' # NoEngine)
  <1> DEFINE r == svc[s]
             c == Head(r.plan)
  <1>1. PICK e \in Served(c, r.options, engine) :
          /\ engine' = e
          /\ \E q \in Continued(Answered(r, c, e # NoEngine), t) : Becomes(s, q)
    BY DEF Call
  <1> DEFINE x == Answered(r, c, e # NoEngine)
  <1>2. PICK q \in Continued(x, t) : Becomes(s, q)
    BY <1>1
  <1>3. /\ Using(r, t) /\ saved.options \in Options /\ r \in ServiceType /\ saved \in Engine
        /\ engine \in Engine \cup {NoEngine} /\ (e # NoEngine) \in BOOLEAN
    BY EventsTyped, SomeoneInside, FineIsSound DEF TypeInv, Call
  <1>4. c = Head(r.plan)
    OBVIOUS
  <1> HIDE DEF r, c
  <1>5. c \in Commands /\ r.options \in Options
    <2>1. r.plan \in Plans /\ r.plan # <<>>
      BY <1>3 DEF Using, Sound, Planned
    <2> QED BY <1>3, <1>4, <2>1, PlanGoesOn DEF ServiceType
  <1>6. ServedIs(e, c, r.options, engine)
    BY <1>1, <1>3, <1>5, ServedSound
  <1>7. Sound(x) /\ x.at[t] = "inside" /\ Alone(x, t) /\ AnswerIs(x, r, e # NoEngine)
    BY <1>3, <1>4, AnswerSound
  <1> HIDE DEF x
  <1>8. /\ Fine(q) /\ Left(q, x)
        /\ q.options.abbrev = x.options.abbrev \/ q.options.abbrev = saved.options.abbrev
        /\ ~q.ahead => q.options = x.options /\ ~x.ahead
        /\ t # "restart" => q.at["restart"] = x.at["restart"]
        /\ t # "ui" => q.at["ui"] = x.at["ui"] /\ q.goal = x.goal
        /\ q.goal = x.goal \/ q.goal = "query"
    BY <1>2, <1>3, <1>7, UseContinues
  <1>9. Called(q, r, t, e # NoEngine)
    <2>1. /\ x.at = r.at /\ x.phase = r.phase /\ x.inbox = r.inbox /\ x.timer = r.timer
          /\ x.options = r.options /\ x.ahead = r.ahead /\ x.goal = r.goal
          /\ x.plan = Tail(r.plan) \/ x.plan = <<>>
          /\ e # NoEngine => x.plan = Tail(r.plan)
          /\ Head(r.plan) \in {"query", "mode", "abbrev"} => x.ready = r.ready
      BY <1>7, Zenon DEF AnswerIs
    <2>2. /\ q.phase = x.phase /\ q.ready = x.ready /\ q.inbox = x.inbox
          /\ q.timer = x.timer /\ q.plan = x.plan /\ q.options.mode = x.options.mode
      BY <1>8 DEF Left
    <2> QED BY <1>8, <2>1, <2>2, Zenon DEF Called
  <1> QED BY <1>1, <1>2, <1>3, <1>4, <1>5, <1>6, <1>9 DEF r

-----------------------------------------------------------------------------
(* Messages for all.                                                       *)

Gets(r, m) == IF r.phase = "active" THEN [r EXCEPT !.inbox = Append(@, m)] ELSE r

LEMMA GetsFine ==
    ASSUME NEW r, Fine(r), NEW m \in {"apply", "refresh", "toolbar"}, NEW q, q = Gets(r, m)
    PROVE  /\ Fine(q) /\ Unmoved(q, r) /\ q.timer = r.timer /\ q.goal = r.goal
           /\ q.ahead = r.ahead /\ q.options = r.options
           /\ \A n : Contains(r.inbox, n) => Contains(q.inbox, n)
           /\ r.phase = "active" => Contains(q.inbox, m)
           /\ r = Absent => q = Absent
  <1>1. r \in ServiceType
    BY FineIsSound
  <1>2. CASE r.phase # "active"
    BY <1>2 DEF Gets, Unmoved
  <1>3. CASE r.phase = "active"
    <2>1. /\ Append(r.inbox, m) \in Seq({"apply", "refresh", "toolbar"})
          /\ Contains(Append(r.inbox, m), m)
          /\ \A n : Contains(r.inbox, n) => Contains(Append(r.inbox, m), n)
      BY <1>1, Messages DEF ServiceType
    <2> DEFINE inbox == Append(r.inbox, m)
    <2>2. q = [r EXCEPT !.inbox = inbox]
      BY <1>3 DEF Gets
    <2> HIDE DEF inbox
    <2>3. /\ q \in ServiceType /\ Unmoved(q, r) /\ q.timer = r.timer /\ q.goal = r.goal
          /\ q.ahead = r.ahead /\ q.options = r.options /\ q.inbox = inbox
      BY <1>1, <2>1, <2>2 DEF ServiceType, Unmoved, inbox
    <2>4. Fine(q)
      BY <1>3, <2>3, FineIfUnmoved
    <2> QED BY <1>3, <2>1, <2>3, <2>4, AbsentIs DEF inbox
  <1> QED BY <1>2, <1>3

LEMMA PostedIs ==
    ASSUME NEW f \in [Services -> ServiceType], \A s \in Services : Fine(f[s]),
           NEW m \in {"apply", "refresh", "toolbar"}, NEW g, g = Posted(f, m)
    PROVE  /\ g \in [Services -> ServiceType]
           /\ \A s \in Services : g[s] = Gets(f[s], m) /\ Fine(g[s])
  <1>1. g = [s \in Services |-> Gets(f[s], m)]
    BY DEF Posted, Gets
  <1>2. \A s \in Services : Fine(Gets(f[s], m))
    BY GetsFine
  <1>3. \A s \in Services : Gets(f[s], m) \in ServiceType
    BY <1>2, FineIsSound
  <1> QED BY <1>1, <1>2, <1>3

\* The service whose menu it was, before it gets the message that it posts.
Chosen(q, r) ==
    /\ Fine(q) /\ q.phase = "active" /\ q.ready = r.ready /\ q.plan = r.plan
    /\ q.at["ui"] = "waiting" /\ q.goal = "options" /\ q.ahead = r.ahead
    /\ q.options.mode = ~r.options.mode /\ q.options.abbrev = r.options.abbrev
    /\ Pending(r) => Pending(q)

LEMMA MenuStep ==
    ASSUME TypeInv, NEW s \in Services, HandleLangBarMenuCommand(s)
    PROVE  \E f \in [Services -> ServiceType] :
              /\ svc' = Posted(f, "toolbar") /\ Chosen(f[s], svc[s])
              /\ \A u \in Services \ {s} : f[u] = svc[u]
              /\ \A u \in Services : Fine(f[u])
  <1> DEFINE r == svc[s]
             new == ~r.options.mode
             chosen == [r EXCEPT !.options.mode = new]
             q == Waiting(chosen, "options")
             f == [svc EXCEPT ![s] = q]
  <1>1. /\ Fine(r) /\ r \in ServiceType /\ r.phase = "active" /\ r.at["ui"] = "rest"
        /\ r.options \in Options /\ new \in BOOLEAN
    BY FineIsSound DEF TypeInv, HandleLangBarMenuCommand, Idle, ServiceType, Options
  <1>2. svc' = Posted(f, "toolbar")
    <2>1. svc' = Posted([svc EXCEPT ![s] = Waiting([@ EXCEPT !.options.mode = ~svc[s].options.mode],
                                                   "options")], "toolbar")
      BY DEF HandleLangBarMenuCommand
    <2>2. f = [svc EXCEPT ![s] = Waiting([@ EXCEPT !.options.mode = ~svc[s].options.mode],
                                         "options")]
      BY DEF TypeInv
    <2> HIDE DEF f
    <2> QED BY <2>1, <2>2
  <1>3. chosen = [r EXCEPT !.options.mode = new]
    OBVIOUS
  <1>4. new = ~r.options.mode
    OBVIOUS
  <1> HIDE DEF r, new, chosen
  <1>5. /\ chosen \in ServiceType /\ Unmoved(chosen, r) /\ chosen.inbox = r.inbox
        /\ chosen.timer = r.timer /\ chosen.ahead = r.ahead
        /\ chosen.options.mode = new /\ chosen.options.abbrev = r.options.abbrev
    <2> DEFINE o == [r.options EXCEPT !.mode = new]
    <2>1. chosen = [r EXCEPT !.options = o]
      BY <1>1, <1>3 DEF ServiceType
    <2>2. o \in Options /\ o.mode = new /\ o.abbrev = r.options.abbrev
      BY <1>1 DEF Options
    <2> HIDE DEF o
    <2> QED BY <1>1, <2>1, <2>2 DEF ServiceType, Unmoved
  <1>6. Fine(chosen) /\ chosen.phase = "active" /\ chosen.at["ui"] = "rest"
    BY <1>1, <1>5, FineIfUnmoved DEF Unmoved
  <1>7. /\ Fine(q) /\ Same(q, chosen) /\ q.options = chosen.options /\ q.ahead = chosen.ahead
        /\ q.at["ui"] = "waiting" /\ q.goal = "options"
    BY <1>6, WaitingFine DEF Goals
  <1> HIDE DEF q
  <1>8. Pending(r) => Pending(q)
    BY <1>5, <1>7, KeepsPending DEF Same, Unmoved
  <1>9. Chosen(q, r)
    <2>1. /\ q.phase = "active" /\ q.ready = r.ready /\ q.plan = r.plan /\ q.ahead = r.ahead
          /\ q.options.mode = new /\ q.options.abbrev = r.options.abbrev
      BY <1>5, <1>6, <1>7 DEF Same, Unmoved
    <2>2. q.options.mode = ~r.options.mode
      BY <1>4, <2>1, Zenon
    <2> QED BY <1>7, <1>8, <2>1, <2>2 DEF Chosen
  <1>10. f \in [Services -> ServiceType] /\ f[s] = q /\ \A u \in Services \ {s} : f[u] = svc[u]
    BY <1>7, FineIsSound DEF TypeInv
  <1>11. \A u \in Services : Fine(f[u])
    <2> SUFFICES ASSUME NEW u \in Services PROVE Fine(f[u])
      OBVIOUS
    <2> HIDE DEF f
    <2>1. CASE u = s
      BY <1>7, <1>10, <2>1
    <2>2. CASE u # s
      BY <1>10, <2>2 DEF TypeInv
    <2> QED BY <2>1, <2>2
  <1> HIDE DEF f
  <1> QED BY <1>2, <1>9, <1>10, <1>11 DEF r

-----------------------------------------------------------------------------
(* Types are kept.                                                         *)

\* The steps that one service makes on its own.
PlainStep(s) ==
    \/ Activate(s) \/ Key(s) \/ OnSetFocus(s) \/ ShowStatusTip(s)
    \/ RestartRimeAndAlgorithmService(s) \/ ControlWindowProc(s) \/ ToolbarRefreshed(s)
    \/ WarmUpWakes(s)
    \/ \E t \in Threads : Enter(s, t) \/ ThreadEnds(s, t)

LEMMA PlainSteps ==
    ASSUME TypeInv, NEW s \in Services, PlainStep(s)
    PROVE  /\ \E q : Plain(s, q)
           /\ UNCHANGED <<engine, saved, owed, switches, missed, trouble>>
  <1>1. \E q : Plain(s, q)
    BY KeyPlain, FocusPlain, TipPlain, ToolbarPlain, Controls, WakePlain, EndPlain,
       ActivatePlain, EnterPlain, Zenon DEF PlainStep
  <1>2. UNCHANGED <<engine, saved, owed, switches, missed, trouble>>
    BY DEF PlainStep, Activate, Key, OnSetFocus, ShowStatusTip, RestartRimeAndAlgorithmService,
           ControlWindowProc, ToolbarRefreshed, WarmUpWakes, Enter, ThreadEnds
  <1> QED BY <1>1, <1>2

\* Every step is one of those or one of these.
LEMMA StepIs ==
    ASSUME [Next]_vars
    PROVE  \/ UNCHANGED vars \/ SaveConfig \/ SaveAbbrev \/ MenuElsewhere \/ HostLost
           \/ \E m \in {"apply", "refresh"} : RequestDeferred(m)
           \/ \E s \in Services :
                \/ PlainStep(s) \/ Deactivate(s) \/ RestartTimer(s)
                \/ HandleLangBarMenuCommand(s) \/ ShutdownRimeForUninstall(s)
                \/ \E t \in Threads : Call(s, t) \/ CallFails(s, t)
  BY Zenon DEF Next, UserTurn, ThreadStep, PlainStep

LEMMA GoesWrongTyped ==
    ASSUME TypeInv, NEW what \in Troubles, GoesWrong(what)
    PROVE  trouble' \subseteq Troubles /\ what \in trouble'
  BY DEF TypeInv, GoesWrong

LEMMA SwitchTyped ==
    ASSUME TypeInv, NEW o \in Options, Switch(o)
    PROVE  /\ saved' \in Engine /\ saved'.options = o /\ saved'.config = saved.config
           /\ switches' \in 0..MaxSwitches /\ switches' = switches + 1
  BY SessionAssumption DEF TypeInv, Switch, Engine

LEMMA TypePosted ==
    ASSUME TypeInv, NEW f \in [Services -> ServiceType], \A s \in Services : Fine(f[s]),
           NEW m \in {"apply", "refresh", "toolbar"}, svc' = Posted(f, m)
    PROVE  svc' \in [Services -> ServiceType] /\ \A s \in Services : Fine(svc'[s])
  BY PostedIs

LEMMA TypeNext == TypeInv /\ [Next]_vars => TypeInv'
  <1> SUFFICES ASSUME TypeInv, [Next]_vars PROVE TypeInv'
    OBVIOUS
  <1> DEFINE Services2 == svc' \in [Services -> ServiceType] /\ \A s \in Services : Fine(svc'[s])
             Rest2 == /\ engine' \in Engine \cup {NoEngine} /\ saved' \in Engine
                      /\ owed' \subseteq {"apply", "refresh"} /\ switches' \in 0..MaxSwitches
                      /\ missed' \subseteq {"dropped", "unheard", "left"}
                      /\ trouble' \subseteq Troubles
  <1>0. Services2 /\ Rest2 => TypeInv'
    BY DEF TypeInv, Fine, Resting, Using, Sound, Counted, Placed, Planned, Alone
  <1>1. ASSUME NEW s \in Services, NEW q, Fine(q), Becomes(s, q)
        PROVE  Services2
    BY <1>1, TypeBecomes DEF Fine, Resting, Using, Sound, Counted, Placed, Planned, Alone
  <1>2. svc' = svc => Services2
    BY DEF TypeInv
  <1>3. Services2 /\ UNCHANGED <<engine, saved, owed, switches, trouble>>
          /\ missed' \subseteq {"dropped", "unheard", "left"} => TypeInv'
    BY <1>0 DEF TypeInv
  <1> HIDE DEF Services2
  <1>4. CASE UNCHANGED vars
    BY <1>2, <1>3, <1>4 DEF vars, TypeInv
  <1>5. CASE SaveConfig
    <2>1. saved' \in Engine
      BY <1>5, EventsTyped DEF SaveConfig, TypeInv, Engine
    <2>2. owed' \subseteq {"apply", "refresh"}
      BY <1>5 DEF SaveConfig, TypeInv
    <2> QED BY <1>0, <1>2, <1>5, <2>1, <2>2 DEF SaveConfig, TypeInv
  <1>6. CASE SaveAbbrev
    <2>1. [saved.options EXCEPT !.abbrev = ~@] \in Options
      BY EventsTyped DEF Options
    <2>2. saved' \in Engine /\ switches' \in 0..MaxSwitches
      BY <1>6, <2>1, SwitchTyped DEF SaveAbbrev
    <2>3. owed' \subseteq {"apply", "refresh"}
      BY <1>6 DEF SaveAbbrev, TypeInv
    <2> QED BY <1>0, <1>2, <1>6, <2>2, <2>3 DEF SaveAbbrev, TypeInv
  <1>7. CASE MenuElsewhere
    <2>1. [saved.options EXCEPT !.mode = ~@] \in Options
      BY EventsTyped DEF Options
    <2>2. saved' \in Engine /\ switches' \in 0..MaxSwitches
      BY <1>7, <2>1, SwitchTyped DEF MenuElsewhere
    <2>3. Services2
      BY <1>7, TypePosted DEF MenuElsewhere, TypeInv, Services2
    <2> QED BY <1>0, <1>7, <2>2, <2>3 DEF MenuElsewhere, TypeInv
  <1>8. ASSUME NEW m \in {"apply", "refresh"}, RequestDeferred(m)
        PROVE  TypeInv'
    <2>1. Services2
      <3>1. svc' = Posted(svc, m) /\ m \in {"apply", "refresh", "toolbar"}
        BY <1>8 DEF RequestDeferred
      <3> QED BY <3>1, TypePosted DEF TypeInv, Services2
    <2>2. missed' \subseteq {"dropped", "unheard", "left"} /\ owed' \subseteq {"apply", "refresh"}
      BY <1>8 DEF RequestDeferred, TypeInv
    <2> QED BY <1>0, <1>8, <2>1, <2>2 DEF RequestDeferred, TypeInv
  <1>9. CASE HostLost
    <2>1. trouble' \subseteq Troubles
      BY <1>9, GoesWrongTyped DEF HostLost, Troubles
    <2>2. missed' \subseteq {"dropped", "unheard", "left"}
      BY <1>9 DEF HostLost
    <2> QED BY <1>0, <1>2, <1>9, <2>1, <2>2 DEF HostLost, TypeInv
  <1>10. ASSUME NEW s \in Services, PlainStep(s)
         PROVE  TypeInv'
    <2>1. Services2 /\ UNCHANGED <<engine, saved, owed, switches, missed, trouble>>
      BY <1>1, <1>10, PlainSteps DEF Plain
    <2> QED BY <1>3, <2>1 DEF TypeInv
  <1>11. ASSUME NEW s \in Services, Deactivate(s)
         PROVE  TypeInv'
    <2>1. Services2
      BY <1>1, <1>11, QuitStep
    <2>2. missed' \subseteq {"dropped", "unheard", "left"}
      BY <1>11 DEF Deactivate, TypeInv
    <2> QED BY <1>3, <1>11, <2>1, <2>2 DEF Deactivate
  <1>12. ASSUME NEW s \in Services, RestartTimer(s)
         PROVE  TypeInv'
    <2>1. Services2
      BY <1>1, <1>12, TimerStep
    <2>2. missed' \subseteq {"dropped", "unheard", "left"}
      BY <1>12 DEF RestartTimer, TypeInv
    <2> QED BY <1>3, <1>12, <2>1, <2>2 DEF RestartTimer
  <1>13. ASSUME NEW s \in Services, HandleLangBarMenuCommand(s)
         PROVE  TypeInv'
    <2>1. PICK f \in [Services -> ServiceType] :
            svc' = Posted(f, "toolbar") /\ \A u \in Services : Fine(f[u])
      BY <1>13, MenuStep
    <2>2. Services2
      BY <2>1, TypePosted DEF Services2
    <2>3. [saved.options EXCEPT !.mode = ~svc[s].options.mode] \in Options
      BY EventsTyped DEF Options
    <2>4. Switch([saved.options EXCEPT !.mode = ~svc[s].options.mode])
      BY <1>13 DEF HandleLangBarMenuCommand
    <2>5. saved' \in Engine /\ switches' \in 0..MaxSwitches
      BY <2>3, <2>4, SwitchTyped
    <2> QED BY <1>0, <1>13, <2>2, <2>5 DEF HandleLangBarMenuCommand, TypeInv
  <1>14. ASSUME NEW s \in Services, ShutdownRimeForUninstall(s)
         PROVE  TypeInv'
    <2>1. Services2
      BY <1>1, <1>14, ShutdownStep
    <2>2. trouble' \subseteq Troubles
      BY <1>14, GoesWrongTyped DEF ShutdownRimeForUninstall, Troubles
    <2> QED BY <1>0, <1>14, <2>1, <2>2 DEF ShutdownRimeForUninstall, TypeInv
  <1>15. ASSUME NEW s \in Services, NEW t \in Threads, Call(s, t)
         PROVE  TypeInv'
    <2>1. Services2
      BY <1>1, <1>15, CallStep DEF Called
    <2>2. engine' \in Engine \cup {NoEngine}
      BY <1>15, CallStep DEF ServedIs
    <2>3. trouble' \subseteq Troubles
      <3>1. CASE UNCHANGED trouble
        BY <3>1 DEF TypeInv
      <3>2. CASE GoesWrong("engine")
        BY <3>2, GoesWrongTyped DEF Troubles
      <3> QED BY <1>15, <3>1, <3>2 DEF Call
    <2>4. missed' \subseteq {"dropped", "unheard", "left"}
      BY <1>15 DEF Call, TypeInv
    <2> QED BY <1>0, <1>15, <2>1, <2>2, <2>3, <2>4 DEF Call, TypeInv
  <1>16. ASSUME NEW s \in Services, NEW t \in Threads, CallFails(s, t)
         PROVE  TypeInv'
    <2>1. Services2
      BY <1>1, <1>16, CallFailsStep
    <2>2. trouble' \subseteq Troubles
      BY <1>16, GoesWrongTyped DEF CallFails, Troubles
    <2> QED BY <1>0, <1>16, <2>1, <2>2 DEF CallFails, TypeInv
  <1> QED BY <1>4, <1>5, <1>6, <1>7, <1>8, <1>9, <1>10, <1>11, <1>12, <1>13, <1>14, <1>15,
             <1>16, StepIs

LEMMA TypeInvCorrect == Spec => []TypeInv
  BY TypeInit, TypeNext, PTL DEF Spec

LEMMA OneHolder ==
    ASSUME NEW r, Fine(r)
    PROVE  Cardinality(Holder(r)) <= 1
  <1>1. CASE Resting(r)
    <2>1. Holder(r) = {}
      BY <1>1 DEF Holder, Resting
    <2>2. Cardinality(Holder(r)) = 0
      BY <2>1, FS_EmptySet, Zenon
    <2> QED BY <2>2
  <1>2. ASSUME NEW t \in Threads, Using(r, t)
        PROVE  Cardinality(Holder(r)) <= 1
    <2>1. Holder(r) = {t}
      BY <1>2 DEF Holder, Using, Alone
    <2>2. Cardinality(Holder(r)) = 1
      BY <2>1, FS_Singleton, Zenon
    <2> QED BY <2>2
  <1> QED BY <1>1, <1>2 DEF Fine

Detached(r) == {t \in Threads \ {"ui"} : r.at[t] # "rest"}

LEMMA References ==
    ASSUME NEW r, Sound(r)
    PROVE  r.refs = Cardinality(Detached(r)) + (IF r.phase = "active" THEN 1 ELSE 0)
  <1>1. /\ Cardinality({}) = 0 /\ Cardinality({"warm"}) = 1 /\ Cardinality({"restart"}) = 1
        /\ Cardinality({"warm", "restart"}) = 2
    <2>1. /\ IsFiniteSet({"warm"}) /\ Cardinality({"warm"}) = 1
          /\ Cardinality({"restart"}) = 1
      BY FS_Singleton
    <2>2. Cardinality({"warm"} \cup {"restart"}) = Cardinality({"warm"}) + 1
      BY <2>1, FS_AddElement
    <2>3. {"warm"} \cup {"restart"} = {"warm", "restart"}
      OBVIOUS
    <2> QED BY <2>1, <2>2, <2>3, FS_EmptySet
  <1> DEFINE w == IF r.at["warm"] = "rest" THEN 0 ELSE 1
             e == IF r.at["restart"] = "rest" THEN 0 ELSE 1
  <1>2. Detached(r) =
          (IF r.at["warm"] = "rest" THEN {} ELSE {"warm"})
            \cup (IF r.at["restart"] = "rest" THEN {} ELSE {"restart"})
    BY DEF Detached, Threads
  <1>3. Cardinality(Detached(r)) = w + e
    <2>1. CASE r.at["warm"] = "rest" /\ r.at["restart"] = "rest"
      <3>1. Detached(r) = {}
        BY <1>2, <2>1
      <3> QED BY <1>1, <2>1, <3>1
    <2>2. CASE r.at["warm"] # "rest" /\ r.at["restart"] = "rest"
      <3>1. Detached(r) = {"warm"}
        BY <1>2, <2>2
      <3> QED BY <1>1, <2>2, <3>1
    <2>3. CASE r.at["warm"] = "rest" /\ r.at["restart"] # "rest"
      <3>1. Detached(r) = {"restart"}
        BY <1>2, <2>3
      <3> QED BY <1>1, <2>3, <3>1
    <2>4. CASE r.at["warm"] # "rest" /\ r.at["restart"] # "rest"
      <3>1. Detached(r) = {"warm", "restart"}
        BY <1>2, <2>4
      <3> QED BY <1>1, <2>4, <3>1
    <2> QED BY <2>1, <2>2, <2>3, <2>4
  <1>4. r.refs = (IF r.phase = "active" THEN 1 ELSE 0) + w + e
    BY DEF Sound, Counted
  <1> HIDE DEF w, e
  <1>5. w \in Nat /\ e \in Nat
    BY DEF w, e
  <1> QED BY <1>3, <1>4, <1>5

(* Every variable keeps its type, and every text service counts one        *)
(* reference for its thread manager and one for each detached thread that  *)
(* has not ended, for any number of services, whoever restarts the engine, *)
(* leaves or fails: no thread runs on an object that is deleted.           *)
THEOREM AliveCorrect == Spec => []Alive
  <1>1. TypeInv => Alive
    <2> SUFFICES ASSUME TypeInv PROVE Alive
      OBVIOUS
    <2>1. TypeOK
      BY OneHolder DEF TypeInv, TypeOK, Troubles
    <2>2. ASSUME NEW s \in Services
          PROVE  /\ svc[s].refs = Cardinality({t \in Threads \ {"ui"} : svc[s].at[t] # "rest"})
                                   + (IF svc[s].phase = "active" THEN 1 ELSE 0)
                 /\ svc[s].phase = "absent" => \A t \in Threads : svc[s].at[t] = "rest"
      <3>1. Sound(svc[s])
        BY FineIsSound DEF TypeInv
      <3>2. svc[s].phase = "absent" => \A t \in Threads : svc[s].at[t] = "rest"
        BY <3>1 DEF Sound, Placed, Threads
      <3> QED BY <3>1, <3>2, References DEF Detached
    <2> QED BY <2>1, <2>2 DEF Alive
  <1> QED BY <1>1, TypeInvCorrect, PTL

(* Between the uses of the engine a service that takes it to be ready has  *)
(* a client that is initialized: no key is lost to a client that is not.   *)
THEOREM ReadyIsInitializedCorrect == Spec => []ReadyIsInitialized
  <1>1. TypeInv => ReadyIsInitialized
    <2>1. ASSUME TypeInv, NEW s \in Services, svc[s].ready PROVE svc[s].client = "up"
      BY <2>1, FineIsSound DEF TypeInv, Sound, Planned
    <2> QED BY <2>1 DEF ReadyIsInitialized
  <1> QED BY <1>1, TypeInvCorrect, PTL

-----------------------------------------------------------------------------
(* The configuration.                                                      *)

\* An engine with an old configuration is going to be restarted, unless nobody
\* heard of the change, or a call failed.
ConfigOwed ==
    engine # NoEngine /\ "call" \notin trouble /\ engine.config # saved.config
        /\ missed \cap {"dropped", "unheard"} = {}
      => "apply" \in owed \/ \E s \in Services : Pending(svc[s])

LEMMA Becoming ==
    ASSUME TypeInv, NEW s \in Services, NEW q, Becomes(s, q)
    PROVE  svc'[s] = q /\ \A u \in Services \ {s} : svc'[u] = svc[u]
  BY DEF TypeInv, Becomes

LEMMA PendingKept ==
    ASSUME TypeInv, NEW s \in Services, NEW q, Becomes(s, q), Pending(svc[s]) => Pending(q),
           NEW u \in Services, Pending(svc[u])
    PROVE  \E v \in Services : Pending(svc'[v])
  <1>1. svc'[s] = q /\ \A v \in Services \ {s} : svc'[v] = svc[v]
    BY Becoming
  <1>2. CASE u = s
    BY <1>1, <1>2
  <1>3. CASE u # s
    <2>1. svc'[u] = svc[u]
      BY <1>1, <1>3
    <2> QED BY <2>1
  <1> QED BY <1>2, <1>3

LEMMA PendingPosted ==
    ASSUME TypeInv, NEW f \in [Services -> ServiceType], \A s \in Services : Fine(f[s]),
           NEW m \in {"apply", "refresh", "toolbar"}, svc' = Posted(f, m),
           NEW u \in Services, Pending(f[u])
    PROVE  Pending(svc'[u])
  <1>1. svc'[u] = Gets(f[u], m)
    BY PostedIs
  <1>2. Unmoved(svc'[u], f[u]) /\ svc'[u].timer = f[u].timer
        /\ \A n : Contains(f[u].inbox, n) => Contains(svc'[u].inbox, n)
    <2>1. Fine(f[u])
      OBVIOUS
    <2> DEFINE g == Gets(f[u], m)
    <2>2. /\ Unmoved(g, f[u]) /\ g.timer = f[u].timer
          /\ \A n : Contains(f[u].inbox, n) => Contains(g.inbox, n)
      BY <2>1, GetsFine
    <2> QED BY <1>1, <2>2
  <1> QED BY <1>2, KeepsPending DEF Unmoved

\* A call restarts the engine, or makes one, or leaves its configuration alone.
LEMMA CallKeepsOwed ==
    ASSUME TypeInv, ConfigOwed, NEW s \in Services, NEW t \in Threads, Call(s, t),
           engine' # NoEngine, "call" \notin trouble', engine'.config # saved'.config,
           missed' \cap {"dropped", "unheard"} = {}
    PROVE  "apply" \in owed' \/ \E u \in Services : Pending(svc'[u])
  <1> DEFINE r == svc[s]
             c == Head(r.plan)
  <1>1. /\ Using(r, t) /\ c \in Commands /\ ServedIs(engine', c, r.options, engine)
        /\ \E q : Becomes(s, q) /\ Called(q, r, t, engine' # NoEngine)
    BY CallStep
  <1>2. PICK q : Becomes(s, q) /\ Called(q, r, t, engine' # NoEngine)
    BY <1>1
  <1>3. /\ saved' = saved /\ owed' = owed /\ saved \in Engine
        /\ c # "redeploy" /\ engine # NoEngine /\ engine' # NoEngine => missed' = missed
        /\ "call" \notin trouble
    BY DEF Call, GoesWrong, TypeInv
  <1>4. c = Head(r.plan) /\ r = svc[s]
    OBVIOUS
  <1> HIDE DEF r, c
  <1>5. c # "redeploy" /\ engine # NoEngine /\ engine'.config = engine.config
    BY <1>1, <1>3, FreshTyped DEF ServedIs, Commands
  <1>6. "apply" \in owed \/ \E u \in Services : Pending(svc[u])
    BY <1>3, <1>5 DEF ConfigOwed
  <1>7. Pending(r) => Pending(q)
    <2>1. r.at["restart"] = "waiting" => t # "restart"
      BY <1>1 DEF Using
    <2> QED BY <1>2, <1>4, <1>5, <2>1 DEF Pending, Called
  <1>8. ASSUME NEW u \in Services, Pending(svc[u])
        PROVE  \E v \in Services : Pending(svc'[v])
    BY <1>2, <1>4, <1>7, <1>8, PendingKept
  <1> QED BY <1>3, <1>6, <1>8

LEMMA OwedNext == TypeInv /\ ConfigOwed /\ [Next]_vars => ConfigOwed'
  <1> SUFFICES ASSUME TypeInv, ConfigOwed, [Next]_vars,
                      engine' # NoEngine, "call" \notin trouble', engine'.config # saved'.config,
                      missed' \cap {"dropped", "unheard"} = {}
               PROVE  "apply" \in owed' \/ \E s \in Services : Pending(svc'[s])
    BY DEF ConfigOwed, Pending, Contains
  <1> DEFINE Old == engine # NoEngine /\ "call" \notin trouble /\ engine.config # saved.config
                      /\ missed \cap {"dropped", "unheard"} = {}
             New == "apply" \in owed' \/ \E s \in Services : Pending(svc'[s])
  <1>1. Old => "apply" \in owed \/ \E s \in Services : Pending(svc[s])
    BY DEF ConfigOwed
  <1>2. ASSUME Old, owed \subseteq owed', NEW s \in Services, NEW q, Becomes(s, q),
               Pending(svc[s]) => Pending(q)
        PROVE  New
    BY <1>1, <1>2, PendingKept
  <1>3. ASSUME Old, owed \subseteq owed', svc' = svc
        PROVE  New
    BY <1>1, <1>3
  <1>4. ASSUME Old, NEW f \in [Services -> ServiceType], \A s \in Services : Fine(f[s]),
               NEW m \in {"apply", "refresh", "toolbar"}, svc' = Posted(f, m),
               \A u \in Services : Pending(svc[u]) => Pending(f[u]),
               "apply" \in owed => New
        PROVE  New
    BY <1>1, <1>4, PendingPosted
  <1>5. ASSUME UNCHANGED vars PROVE New
    BY <1>3, <1>5 DEF vars
  <1>6. ASSUME SaveConfig PROVE New
    BY <1>6 DEF SaveConfig
  <1>7. ASSUME SaveAbbrev PROVE New
    BY <1>3, <1>7 DEF SaveAbbrev, Switch
  <1>8. ASSUME MenuElsewhere PROVE New
    <2>1. Old /\ owed' = owed /\ svc' = Posted(svc, "toolbar")
      BY <1>8 DEF MenuElsewhere, Switch
    <2> QED BY <1>4, <2>1 DEF TypeInv
  <1>9. ASSUME NEW m \in {"apply", "refresh"}, RequestDeferred(m)
        PROVE  New
    <2>1. Old /\ svc' = Posted(svc, m) /\ owed' = owed \ {m} /\ m \in {"apply", "refresh", "toolbar"}
      BY <1>9 DEF RequestDeferred
    <2>2. CASE m = "refresh"
      BY <1>4, <2>1, <2>2 DEF TypeInv
    <2>3. CASE m = "apply"
      <3>1. Active # {}
        BY <1>9, <2>1, <2>3 DEF RequestDeferred
      <3>2. PICK s \in Services : svc[s].phase = "active"
        BY <3>1 DEF Active
      <3>3. svc'[s] = Gets(svc[s], m)
        BY <2>1, PostedIs DEF TypeInv
      <3>4. Contains(svc'[s].inbox, "apply")
        BY <2>1, <2>3, <3>2, <3>3, GetsFine DEF TypeInv
      <3> QED BY <3>4 DEF Pending
    <2> QED BY <2>2, <2>3
  <1>10. ASSUME HostLost PROVE New
    BY <1>10 DEF HostLost
  <1>11. ASSUME NEW s \in Services, PlainStep(s)
         PROVE  New
    <2>1. /\ \E q : Plain(s, q)
          /\ UNCHANGED <<engine, saved, owed, switches, missed, trouble>>
      BY <1>11, PlainSteps
    <2> QED BY <1>2, <2>1 DEF Plain
  <1>12. ASSUME NEW s \in Services, Deactivate(s)
         PROVE  New
    <2>1. PICK q : /\ Becomes(s, q)
                   /\ Pending(svc[s]) =>
                        Pending(q) \/ svc[s].timer \/ Contains(svc[s].inbox, "apply")
      BY <1>12, QuitStep
    <2>2. Old /\ owed' = owed /\ ~svc[s].timer /\ ~Contains(svc[s].inbox, "apply")
      BY <1>12 DEF Deactivate
    <2> QED BY <1>2, <2>1, <2>2
  <1>13. ASSUME NEW s \in Services, RestartTimer(s)
         PROVE  New
    <2>1. PICK q : Becomes(s, q) /\ (~svc[s].restarting => Pending(q))
      BY <1>13, TimerStep
    <2>2. Old /\ owed' = owed /\ ~svc[s].restarting
      BY <1>13 DEF RestartTimer
    <2> QED BY <1>2, <2>1, <2>2
  <1>14. ASSUME NEW s \in Services, HandleLangBarMenuCommand(s)
         PROVE  New
    <2>1. PICK f \in [Services -> ServiceType] :
              /\ svc' = Posted(f, "toolbar") /\ Chosen(f[s], svc[s])
              /\ \A u \in Services \ {s} : f[u] = svc[u]
              /\ \A u \in Services : Fine(f[u])
      BY <1>14, MenuStep
    <2>2. \A u \in Services : Pending(svc[u]) => Pending(f[u])
      BY <2>1 DEF Chosen
    <2>3. Old /\ owed' = owed
      BY <1>14 DEF HandleLangBarMenuCommand, Switch
    <2> QED BY <1>4, <2>1, <2>2, <2>3
  <1>15. ASSUME NEW s \in Services, ShutdownRimeForUninstall(s)
         PROVE  New
    <2>1. PICK q : Becomes(s, q) /\ (Pending(svc[s]) => Pending(q))
      BY <1>15, ShutdownStep
    <2>2. Old /\ owed' = owed
      BY <1>15 DEF ShutdownRimeForUninstall, GoesWrong
    <2> QED BY <1>2, <2>1, <2>2
  <1>16. ASSUME NEW s \in Services, NEW t \in Threads, Call(s, t)
         PROVE  New
    BY <1>16, CallKeepsOwed, Zenon
  <1>17. ASSUME NEW s \in Services, NEW t \in Threads, CallFails(s, t)
         PROVE  New
    BY <1>17 DEF CallFails, GoesWrong
  <1> HIDE DEF New
  <1>18. New
    BY <1>5, <1>6, <1>7, <1>8, <1>9, <1>10, <1>11, <1>12, <1>13, <1>14, <1>15, <1>16, <1>17,
       StepIs
  <1> QED BY <1>18 DEF New

(* Whoever saves, restarts, leaves or loses the host, in any number of     *)
(* services: when all messages about it are done with, the engine has the  *)
(* saved configuration, but for the causes that ConfigInForce names.       *)
THEOREM ConfigInForceCorrect == Spec => []ConfigInForce
  <1>1. Init => ConfigOwed
    BY DEF Init, ConfigOwed
  <1>2. TypeInv /\ ConfigOwed => ConfigInForce
    <2> SUFFICES ASSUME TypeInv, ConfigOwed, Settled, engine # NoEngine, "call" \notin trouble,
                        engine.config # saved.config, missed \cap {"dropped", "unheard"} = {}
                 PROVE  FALSE
      BY DEF ConfigInForce
    <2>1. PICK s \in Services : Pending(svc[s])
      BY DEF ConfigOwed, Settled
    <2>2. Resting(svc[s])
      BY NobodyInside DEF TypeInv, Settled
    <2> QED BY <2>1, <2>2 DEF Pending, Settled, Resting, Contains
  <1> QED BY <1>1, <1>2, OwedNext, TypeInvCorrect, PTL DEF Spec

-----------------------------------------------------------------------------
(* The options.                                                            *)

Stale(r, c, o) == r.options[c] # o[c]

\* Service r, ready, is going to set option c, or will be told to.
Fixes(r, c, o) ==
    \/ Sets(r.plan, c)
    \/ r.ready /\ Stale(r, c, o)
    \/ r.ready /\ r.at["ui"] = "waiting" /\ r.goal \in {"options", "focus"}

\* While nothing goes wrong: a service is ready only if there is an engine, has
\* no option that nobody ever set, and a message about every option that it has
\* not read will come.
Well(r, e, o, messages) ==
    /\ Here(r) /\ r.goal # "shutdown" /\ r.plan # <<"shutdown">>
    /\ e = NoEngine => ~r.ready
    /\ \A c \in OptionNames : ~o[c] => ~r.options[c]
    /\ r.phase = "active" =>
         /\ Stale(r, "abbrev", o) => "refresh" \in messages \/ Contains(r.inbox, "refresh")
         /\ Stale(r, "mode", o) => Contains(r.inbox, "toolbar")

\* An option of the session that is not the saved one is going to be set.
Fixed(f, e, o) ==
    \A c \in OptionNames :
      /\ e # NoEngine /\ e.options[c] # o[c]
      /\ \A s \in Services : ~f[s].ahead
      /\ \E s \in Services : f[s].ready
      => \E s \in Services : Fixes(f[s], c, o)

Claims(f, e, o, n, messages) ==
    /\ \A s \in Services : Well(f[s], e, o, messages)
    /\ n = 0 => o = DefaultOptions
    /\ e # NoEngine => \A c \in OptionNames : ~o[c] => ~e.options[c]
    /\ Fixed(f, e, o)

Undisturbed == trouble = {} /\ switches <= 1 /\ "left" \notin missed
OptionsOwed == Undisturbed => Claims(svc, engine, saved.options, switches, owed)

LEMMA OptionsTyped ==
    ASSUME NEW o \in Options
    PROVE  /\ o["mode"] = o.mode /\ o["abbrev"] = o.abbrev
           /\ \A c \in OptionNames : o[c] \in BOOLEAN
  BY DEF Options, OptionNames

\* A step of one service that only follows the settings and keeps its promises.
LEMMA FollowKeeps ==
    ASSUME TypeInv, NEW s \in Services, NEW q, Follows(q, svc[s]), Here(svc[s]),
           NEW g, g[s] = q, \A u \in Services \ {s} : g[u] = svc[u],
           Claims(svc, engine, saved.options, switches, owed)
    PROVE  Claims(g, engine, saved.options, switches, owed)
  <1> DEFINE r == svc[s]
             o == saved.options
  <1>1. Well(r, engine, o, owed)
    BY DEF Claims
  <1>2. Well(q, engine, o, owed)
    <2>1. Here(q) /\ q.goal # "shutdown" /\ q.plan # <<"shutdown">>
      BY <1>1 DEF Follows, Here, Well
    <2>2. engine = NoEngine => ~q.ready
      BY <1>1 DEF Follows, Well
    <2>3. \A c \in OptionNames : ~o[c] => ~q.options[c]
      BY <1>1 DEF Follows, Well
    <2>4. q.phase = "active" =>
            /\ Stale(q, "abbrev", o) => "refresh" \in owed \/ Contains(q.inbox, "refresh")
            /\ Stale(q, "mode", o) => Contains(q.inbox, "toolbar")
      BY <1>1 DEF Follows, Hears, Well, Differs, Stale
    <2> QED BY <2>1, <2>2, <2>3, <2>4 DEF Well
  <1>3. \A u \in Services : Well(g[u], engine, o, owed)
    <2> SUFFICES ASSUME NEW u \in Services PROVE Well(g[u], engine, o, owed)
      OBVIOUS
    <2>1. CASE u = s
      BY <1>2, <2>1
    <2>2. CASE u # s
      BY <2>2 DEF Claims
    <2> QED BY <2>1, <2>2
  <1>4. Fixed(g, engine, o)
    <2> SUFFICES ASSUME NEW c \in OptionNames, engine # NoEngine, engine.options[c] # o[c],
                        \A u \in Services : ~g[u].ahead,
                        NEW v \in Services, g[v].ready
                 PROVE  \E u \in Services : Fixes(g[u], c, o)
      BY DEF Fixed
    <2>1. \A p : Fixer(p, c) <=> Fixes(p, c, o)
      BY DEF Fixer, Fixes, Differs, Stale
    <2>2. svc[v].ready
      BY DEF Follows
    <2>3. ~q.ahead
      OBVIOUS
    <2>4. CASE r.ahead
      BY <2>1, <2>3, <2>4 DEF Follows
    <2>5. CASE ~r.ahead
      <3>1. \A u \in Services : ~svc[u].ahead
        BY <2>5
      <3>2. PICK u \in Services : Fixes(svc[u], c, o)
        BY <2>2, <3>1 DEF Claims, Fixed
      <3>3. CASE u = s
        BY <2>1, <2>3, <3>2, <3>3 DEF Follows
      <3>4. CASE u # s
        BY <3>2, <3>4
      <3> QED BY <3>3, <3>4
    <2> QED BY <2>4, <2>5
  <1> QED BY <1>3, <1>4 DEF Claims

LEMMA GetsIt ==
    ASSUME NEW r, Fine(r), r.phase = "active", NEW m \in {"apply", "refresh", "toolbar"}
    PROVE  Contains(Gets(r, m).inbox, m)
  <1>1. r \in ServiceType
    BY FineIsSound
  <1>2. Contains(Append(r.inbox, m), m)
    BY <1>1, Messages DEF ServiceType
  <1>3. Gets(r, m).inbox = Append(r.inbox, m)
    BY <1>1 DEF Gets, ServiceType
  <1> QED BY <1>2, <1>3

\* A message reaches services that only wait for it.
LEMMA PostKeeps ==
    ASSUME NEW f \in [Services -> ServiceType], \A s \in Services : Fine(f[s]),
           NEW m \in {"apply", "refresh", "toolbar"}, NEW g, g = Posted(f, m),
           NEW e, NEW o, NEW n, NEW messages, Claims(f, e, o, n, messages)
    PROVE  Claims(g, e, o, n, messages \ {m})
  <1>1. \A u \in Services : g[u] = Gets(f[u], m)
    BY PostedIs
  <1>2. ASSUME NEW u \in Services
        PROVE  /\ Unmoved(g[u], f[u]) /\ g[u].goal = f[u].goal
               /\ g[u].ahead = f[u].ahead /\ g[u].options = f[u].options
               /\ \A k : Contains(f[u].inbox, k) => Contains(g[u].inbox, k)
               /\ f[u].phase = "active" => Contains(g[u].inbox, m)
               /\ f[u] = Absent => g[u] = Absent
    <2> DEFINE x == f[u]
               y == Gets(x, m)
    <2>1. g[u] = y /\ Fine(x)
      BY <1>1
    <2> HIDE DEF x
    <2>2. /\ Unmoved(y, x) /\ y.goal = x.goal /\ y.ahead = x.ahead /\ y.options = x.options
          /\ \A k : Contains(x.inbox, k) => Contains(y.inbox, k)
      BY <2>1, GetsFine
    <2>3. x.phase = "active" => Contains(y.inbox, m)
      <3> SUFFICES ASSUME x.phase = "active" PROVE Contains(y.inbox, m)
        OBVIOUS
      <3>1. y = Gets(x, m) /\ m \in {"apply", "refresh", "toolbar"}
        OBVIOUS
      <3>2. Contains(Gets(x, m).inbox, m)
        BY <2>1, <3>1, GetsIt, Zenon
      <3> QED BY <3>1, <3>2
    <2>4. x = Absent => y = Absent
      BY <2>1, GetsFine
    <2> HIDE DEF y
    <2> QED BY <2>1, <2>2, <2>3, <2>4 DEF x
  <1>3. ASSUME NEW u \in Services
        PROVE  Well(g[u], e, o, messages \ {m})
    <2>1. Well(f[u], e, o, messages)
      BY DEF Claims
    <2>2. Here(g[u])
      BY <1>2, <2>1 DEF Well, Here, Unmoved
    <2>3. /\ g[u].goal # "shutdown" /\ g[u].plan # <<"shutdown">>
          /\ e = NoEngine => ~g[u].ready
          /\ \A c \in OptionNames : ~o[c] => ~g[u].options[c]
      BY <1>2, <2>1 DEF Well, Unmoved
    <2>4. g[u].phase = "active" =>
            /\ Stale(g[u], "abbrev", o) =>
                 "refresh" \in messages \ {m} \/ Contains(g[u].inbox, "refresh")
            /\ Stale(g[u], "mode", o) => Contains(g[u].inbox, "toolbar")
      BY <1>2, <2>1 DEF Well, Unmoved, Stale
    <2> QED BY <2>2, <2>3, <2>4 DEF Well
  <1>4. Fixed(g, e, o)
    <2>1. ASSUME NEW u \in Services, NEW c \in OptionNames, Fixes(f[u], c, o)
          PROVE  Fixes(g[u], c, o)
      BY <1>2, <2>1 DEF Fixes, Unmoved, Stale
    <2>2. \A u \in Services : g[u].ready = f[u].ready /\ g[u].ahead = f[u].ahead
      BY <1>2 DEF Unmoved
    <2> QED BY <2>1, <2>2 DEF Claims, Fixed
  <1> QED BY <1>3, <1>4 DEF Claims

\* A service when option c0 has been changed, which nobody set before: it is one
\* that chose it, and is about to set it, or will be told.
Switched(q, r, c0, messages) ==
    /\ Here(q) /\ q.plan = r.plan /\ q.ready = r.ready /\ q.options \in Options
    /\ q.goal = "shutdown" => r.goal = "shutdown"
    /\ \A c \in OptionNames \ {c0} : q.options[c] = r.options[c]
    /\ q.options[c0] = r.options[c0] \/ (q.at["ui"] = "waiting" /\ q.goal = "options")
    /\ q.phase = "active" =>
         /\ c0 = "abbrev" => "refresh" \in messages
         /\ c0 = "mode" => Contains(q.inbox, "toolbar")

LEMMA NothingSet ==
    ASSUME saved.options = DefaultOptions
    PROVE  \A c \in OptionNames : ~saved.options[c]
  BY DEF DefaultOptions, OptionNames

LEMMA SwitchKeeps ==
    ASSUME TypeInv, Claims(svc, engine, saved.options, 0, owed),
           NEW c0 \in OptionNames, NEW o \in Options, o[c0],
           \A c \in OptionNames \ {c0} : ~o[c],
           NEW g, NEW messages, \A u \in Services : Switched(g[u], svc[u], c0, messages)
    PROVE  Claims(g, engine, o, 1, messages)
  <1>1. \A c \in OptionNames : ~saved.options[c]
    BY NothingSet DEF Claims
  <1>2. ASSUME NEW u \in Services
        PROVE  \A c \in OptionNames : ~svc[u].options[c]
    BY <1>1 DEF Claims, Well
  <1>3. engine # NoEngine => \A c \in OptionNames : ~engine.options[c]
    BY <1>1 DEF Claims
  <1>4. ASSUME NEW u \in Services
        PROVE  Well(g[u], engine, o, messages)
    <2> DEFINE q == g[u]
               r == svc[u]
    <2>1. Switched(q, r, c0, messages) /\ Well(r, engine, saved.options, owed)
      BY DEF Claims
    <2>2. \A c \in OptionNames : ~r.options[c]
      BY <1>2
    <2> HIDE DEF q, r
    <2>3. Here(q) /\ q.goal # "shutdown" /\ q.plan # <<"shutdown">>
          /\ (engine = NoEngine => ~q.ready)
      BY <2>1 DEF Switched, Well
    <2>4. ASSUME NEW c \in OptionNames, ~o[c]
          PROVE  ~q.options[c]
      <3>1. c # c0
        BY <2>4
      <3>2. q.options[c] = r.options[c]
        BY <2>1, <3>1 DEF Switched
      <3> QED BY <2>2, <3>2
    <2>5. ASSUME q.phase = "active", Stale(q, "abbrev", o)
          PROVE  "refresh" \in messages
      <3>1. c0 = "abbrev"
        <4> SUFFICES ASSUME c0 # "abbrev" PROVE FALSE
          OBVIOUS
        <4>1. "abbrev" \in OptionNames /\ ~o["abbrev"]
          BY DEF OptionNames
        <4>2. ~q.options["abbrev"]
          BY <2>4, <4>1
        <4>3. o["abbrev"] \in BOOLEAN /\ q.options["abbrev"] \in BOOLEAN
          BY <2>1, <4>1, OptionsTyped DEF Switched
        <4> QED BY <2>5, <4>1, <4>2, <4>3 DEF Stale
      <3> QED BY <2>1, <2>5, <3>1 DEF Switched
    <2>6. ASSUME q.phase = "active", Stale(q, "mode", o)
          PROVE  Contains(q.inbox, "toolbar")
      <3>1. c0 = "mode"
        <4> SUFFICES ASSUME c0 # "mode" PROVE FALSE
          OBVIOUS
        <4>1. "mode" \in OptionNames /\ ~o["mode"]
          BY DEF OptionNames
        <4>2. ~q.options["mode"]
          BY <2>4, <4>1
        <4>3. o["mode"] \in BOOLEAN /\ q.options["mode"] \in BOOLEAN
          BY <2>1, <4>1, OptionsTyped DEF Switched
        <4> QED BY <2>6, <4>1, <4>2, <4>3 DEF Stale
      <3> QED BY <2>1, <2>6, <3>1 DEF Switched
    <2>7. Well(q, engine, o, messages)
      BY <2>3, <2>4, <2>5, <2>6 DEF Well
    <2> QED BY <2>7 DEF q
  <1>5. engine # NoEngine => \A c \in OptionNames : ~o[c] => ~engine.options[c]
    BY <1>3
  <1>6. Fixed(g, engine, o)
    <2> SUFFICES ASSUME NEW c \in OptionNames, engine # NoEngine, engine.options[c] # o[c],
                        NEW v \in Services, g[v].ready
                 PROVE  Fixes(g[v], c, o)
      BY DEF Fixed
    <2>1. Switched(g[v], svc[v], c0, messages)
      OBVIOUS
    <2>2. c = c0
      <3>1. engine.options \in Options
        BY DEF TypeInv, Engine
      <3>2. engine.options[c] \in BOOLEAN /\ o[c] \in BOOLEAN /\ ~engine.options[c]
        BY <1>3, <3>1, OptionsTyped
      <3> QED BY <3>2
    <2>3. CASE g[v].options[c0] = svc[v].options[c0]
      <3>1. ~g[v].options[c0]
        BY <1>2, <2>3
      <3> QED BY <2>2, <3>1 DEF Fixes, Stale
    <2>4. CASE g[v].at["ui"] = "waiting" /\ g[v].goal = "options"
      BY <2>4 DEF Fixes
    <2> QED BY <2>1, <2>3, <2>4 DEF Switched
  <1> QED BY <1>4, <1>5, <1>6 DEF Claims

\* What the rest of a use keeps of the promise to set option c.
LEMMA FixKept ==
    ASSUME NEW r, NEW t \in Threads, Using(r, t), NEW q, Called(q, r, t, TRUE),
           Head(r.plan) \in {"query", "abbrev"}, ~q.ahead,
           NEW c \in OptionNames, Head(r.plan) = "abbrev" => c = "mode",
           NEW o, Fixes(r, c, o)
    PROVE  Fixes(q, c, o)
  <1>1. r.plan \in Plans /\ r.plan # <<>>
    BY DEF Using, Sound, Planned
  <1>2. ~Sets(r.plan, c)
    BY <1>1, PlanGoesOn, PlansDiffer DEF Sets, OptionNames, FullPlans
  <1>3. q.ready = r.ready /\ q.options = r.options
    BY DEF Called
  <1>4. CASE r.ready /\ Stale(r, c, o)
    BY <1>3, <1>4 DEF Fixes, Stale
  <1>5. CASE r.ready /\ r.at["ui"] = "waiting" /\ r.goal \in {"options", "focus"}
    <2>1. t # "ui"
      BY <1>5 DEF Using
    <2>2. q.at["ui"] = r.at["ui"] /\ q.goal = r.goal
      BY <2>1 DEF Called
    <2> QED BY <1>3, <1>5, <2>2 DEF Fixes
  <1> QED BY <1>2, <1>4, <1>5 DEF Fixes

\* A call that does not fail sets one option to what the service has, or goes on
\* to a command that does.
LEMMA CallFixes ==
    ASSUME TypeInv, Claims(svc, engine, saved.options, switches, owed),
           NEW s \in Services, NEW t \in Threads, NEW c, c = Head(svc[s].plan),
           Using(svc[s], t), c \in Commands, NEW x, x # NoEngine,
           ServedIs(x, c, svc[s].options, engine),
           NEW q, Called(q, svc[s], t, TRUE),
           NEW g, g[s] = q, \A u \in Services \ {s} : g[u] = svc[u]
    PROVE  Fixed(g, x, saved.options)
  <1> DEFINE r == svc[s]
             o == saved.options
  <1>1. r.plan \in Plans /\ r.plan # <<>> /\ Planned(r)
    BY DEF Using, Sound, Planned
  <1>2. q.plan = Tail(r.plan) /\ c # "shutdown"
    <2>1. c # "shutdown"
      BY DEF ServedIs
    <2> QED BY <2>1 DEF Called
  <1> SUFFICES ASSUME NEW p \in OptionNames, x.options[p] # o[p],
                      \A u \in Services : ~g[u].ahead,
                      NEW v \in Services, g[v].ready
               PROVE  \E u \in Services : Fixes(g[u], p, o)
    BY DEF Fixed
  <1>4. ~q.ahead /\ q.options = r.options /\ \A u \in Services : ~svc[u].ahead
    <2>1. ~q.ahead
      OBVIOUS
    <2>2. q.options = r.options /\ ~r.ahead
      BY <2>1 DEF Called
    <2> QED BY <2>1, <2>2
  <1>5. CASE c \in {"initialize", "reinitialize", "redeploy"}
    <2>1. Tail(r.plan) \in FullPlans
      BY <1>1, <1>5, PlanGoesOn DEF FullPlans
    <2>2. Fixes(q, p, o)
      BY <1>2, <2>1 DEF Fixes, Sets
    <2> QED BY <2>2
  <1>6. ASSUME c \in {"mode", "abbrev", "query"}
        PROVE  q.ready /\ r.ready /\ engine # NoEngine
    <2>1. r.plan \in {<<"query">>, <<"mode", "abbrev">>, <<"abbrev">>}
      BY <1>1, <1>6, PlanGoesOn
    <2>2. r.ready /\ q.ready = r.ready
      BY <1>1, <1>6, <2>1 DEF Planned, Called
    <2>3. Well(r, engine, o, owed)
      BY DEF Claims
    <2> QED BY <2>2, <2>3 DEF Well
  <1>7. CASE c = "mode"
    <2>1. Tail(r.plan) = <<"abbrev">>
      BY <1>1, <1>7, PlanGoesOn
    <2>2. CASE p = "abbrev"
      <3>1. Fixes(q, p, o)
        BY <1>2, <2>1, <2>2 DEF Fixes, Sets
      <3> QED BY <3>1
    <2>3. CASE p = "mode"
      <3>1. x.options.mode = r.options.mode
        BY <1>7 DEF ServedIs
      <3>2. Stale(q, p, o)
        BY <1>4, <2>3, <3>1 DEF Stale
      <3>3. Fixes(q, p, o)
        BY <1>6, <1>7, <3>2 DEF Fixes
      <3> QED BY <3>3
    <2> QED BY <2>2, <2>3 DEF OptionNames
  <1>8. CASE c = "abbrev" /\ p = "abbrev"
    <2>1. x.options.abbrev = r.options.abbrev
      BY <1>8 DEF ServedIs
    <2>2. Stale(q, p, o)
      BY <1>4, <1>8, <2>1 DEF Stale
    <2>3. Fixes(q, p, o)
      BY <1>6, <1>8, <2>2 DEF Fixes
    <2> QED BY <2>3
  <1>9. CASE c = "query" \/ (c = "abbrev" /\ p = "mode")
    <2>1. engine # NoEngine /\ r.ready
      BY <1>6, <1>9
    <2>2. engine.options[p] = x.options[p]
      <3>1. CASE c = "query"
        BY <2>1, <3>1 DEF ServedIs
      <3>2. CASE c = "abbrev" /\ p = "mode"
        BY <2>1, <3>2 DEF ServedIs
      <3> QED BY <1>9, <3>1, <3>2
    <2>3. PICK u \in Services : Fixes(svc[u], p, o)
      BY <1>4, <2>1, <2>2 DEF Claims, Fixed
    <2>4. CASE u = s
      <3>1. Fixes(q, p, o)
        BY <1>4, <1>9, <2>3, <2>4, FixKept
      <3> QED BY <3>1
    <2>5. CASE u # s
      BY <2>3, <2>5
    <2> QED BY <2>4, <2>5
  <1> QED BY <1>2, <1>5, <1>7, <1>8, <1>9 DEF Commands, OptionNames

LEMMA CallKeepsWell ==
    ASSUME saved \in Engine, NEW r, NEW t \in Threads, Using(r, t),
           NEW q, Called(q, r, t, TRUE), NEW x, x # NoEngine,
           Well(r, engine, saved.options, owed)
    PROVE  Well(q, x, saved.options, owed)
  <1> DEFINE o == saved.options
  <1>1. r.plan \in Plans /\ r.plan # <<>>
    BY DEF Using, Sound, Planned
  <1>2. q.plan = Tail(r.plan) /\ q.plan # <<"shutdown">>
    <2>1. q.plan = Tail(r.plan) /\ Head(r.plan) \in Commands
      BY <1>1, PlanGoesOn DEF Called
    <2>2. Tail(r.plan) \in {<<>>, <<"abbrev">>, <<"mode", "abbrev">>,
                            <<"reinitialize", "mode", "abbrev">>}
      BY <1>1, <2>1, PlanGoesOn DEF Commands
    <2>3. Tail(r.plan) # <<"shutdown">>
      BY <2>2
    <2> QED BY <2>1, <2>3
  <1>3. Here(q)
    <2>1. r # Absent
      BY <1>1, AbsentIs
    <2> QED BY <2>1 DEF Well, Here, Called
  <1>4. q.goal # "shutdown"
    BY DEF Well, Called
  <1>5. /\ q.options.mode = r.options.mode
        /\ q.options.abbrev = r.options.abbrev \/ q.options.abbrev = o.abbrev
    BY DEF Called
  <1>6. \A c \in OptionNames : ~o[c] => ~q.options[c]
    BY <1>5 DEF Well, OptionNames
  <1>7. q.phase = "active" =>
          /\ Stale(q, "abbrev", o) => "refresh" \in owed \/ Contains(q.inbox, "refresh")
          /\ Stale(q, "mode", o) => Contains(q.inbox, "toolbar")
    BY <1>5 DEF Well, Stale, Called
  <1> QED BY <1>2, <1>3, <1>4, <1>6, <1>7 DEF Well

LEMMA CallKeeps ==
    ASSUME TypeInv, Claims(svc, engine, saved.options, switches, owed), "left" \notin missed,
           NEW s \in Services, NEW t \in Threads, Call(s, t), trouble' = {}
    PROVE  Claims(svc', engine', saved.options, switches, owed)
  <1> DEFINE r == svc[s]
             c == Head(r.plan)
             x == engine'
             o == saved.options
  <1>1. /\ Using(r, t) /\ c \in Commands /\ ServedIs(x, c, r.options, engine)
        /\ \E q : Becomes(s, q) /\ Called(q, r, t, x # NoEngine)
    BY CallStep
  <1>2. Well(r, engine, o, owed) /\ saved \in Engine
    BY DEF Claims, TypeInv
  <1>3. x # NoEngine
    <2>1. c # "shutdown"
      <3>1. r.plan \in Plans /\ r.plan # <<>>
        BY <1>1 DEF Using, Sound, Planned
      <3> QED BY <1>2, <3>1, PlanGoesOn DEF Well
    <2>2. x = NoEngine /\ c # "shutdown" => GoesWrong("engine")
      BY DEF Call
    <2> QED BY <2>1, <2>2 DEF GoesWrong
  <1>4. PICK q : Becomes(s, q) /\ Called(q, r, t, TRUE)
    BY <1>1, <1>3
  <1>5. svc'[s] = q /\ \A u \in Services \ {s} : svc'[u] = svc[u]
    BY <1>4, Becoming
  <1>6. Fixed(svc', x, o)
    BY <1>1, <1>3, <1>4, <1>5, CallFixes
  <1>7. ASSUME NEW u \in Services
        PROVE  Well(svc'[u], x, o, owed)
    <2>1. CASE u = s
      BY <1>1, <1>2, <1>3, <1>4, <1>5, <2>1, CallKeepsWell
    <2>2. CASE u # s
      <3>1. Well(svc[u], engine, o, owed) /\ svc'[u] = svc[u]
        BY <1>5, <2>2 DEF Claims
      <3> QED BY <1>3, <3>1 DEF Well
    <2> QED BY <2>1, <2>2
  <1>8. \A p \in OptionNames : ~o[p] => ~x.options[p]
    <2>1. /\ Fresh.options = DefaultOptions
          /\ \A p \in OptionNames : ~DefaultOptions[p]
      BY <1>2, FreshTyped DEF DefaultOptions, OptionNames
    <2>2. \A p \in OptionNames : ~o[p] => ~r.options[p]
      BY <1>2 DEF Well
    <2>3. engine # NoEngine => \A p \in OptionNames : ~o[p] => ~engine.options[p]
      BY DEF Claims
    <2> DEFINE base == IF engine = NoEngine THEN Fresh ELSE engine
    <2>4. \A p \in OptionNames : ~o[p] => ~base.options[p]
      BY <2>1, <2>3
    <2>5. /\ c = "redeploy" => x = Fresh
          /\ c \notin {"mode", "abbrev", "shutdown", "redeploy"} => x = base
          /\ c = "mode" => x.options.mode = r.options.mode
                             /\ x.options.abbrev = base.options.abbrev
          /\ c = "abbrev" => x.options.abbrev = r.options.abbrev
                               /\ x.options.mode = base.options.mode
          /\ c # "shutdown"
      BY <1>1, <1>3 DEF ServedIs
    <2> HIDE DEF base, x, c, r, o
    <2>6. CASE c = "mode" \/ c = "abbrev"
      BY <2>2, <2>4, <2>5, <2>6 DEF OptionNames
    <2>7. CASE c = "redeploy"
      BY <2>1, <2>5, <2>7
    <2>8. CASE c \notin {"mode", "abbrev", "shutdown", "redeploy"}
      BY <2>4, <2>5, <2>8
    <2> QED BY <2>5, <2>6, <2>7, <2>8
  <1> QED BY <1>6, <1>7, <1>8 DEF Claims

\* What went wrong, was changed or left stays so.
LEMMA QuietBefore ==
    ASSUME TypeInv, [Next]_vars, Undisturbed'
    PROVE  Undisturbed /\ ~HostLost /\ (\A s \in Services : ~ShutdownRimeForUninstall(s))
           /\ \A s \in Services, t \in Threads : ~CallFails(s, t)
  <1>1. trouble' = {} /\ switches' <= 1 /\ "left" \notin missed' /\ switches \in Nat
    BY SessionAssumption DEF Undisturbed, TypeInv
  <1>2. ASSUME NEW s \in Services, PlainStep(s)
        PROVE  Undisturbed
    BY <1>1, <1>2, PlainSteps DEF Undisturbed
  <1>3. ASSUME NEW s \in Services, NEW t \in Threads, Call(s, t)
        PROVE  Undisturbed
    BY <1>1, <1>3 DEF Call, GoesWrong, Undisturbed
  <1>4. ASSUME NEW s \in Services, Deactivate(s) \/ RestartTimer(s)
        PROVE  Undisturbed
    BY <1>1, <1>4 DEF Deactivate, RestartTimer, Undisturbed
  <1>5. ASSUME NEW s \in Services, HandleLangBarMenuCommand(s)
        PROVE  Undisturbed
    BY <1>1, <1>5 DEF HandleLangBarMenuCommand, Switch, Undisturbed
  <1>6. ASSUME UNCHANGED vars \/ SaveConfig \/ SaveAbbrev \/ MenuElsewhere
        PROVE  Undisturbed
    BY <1>1, <1>6 DEF vars, SaveConfig, SaveAbbrev, MenuElsewhere, Switch, Undisturbed
  <1>7. ASSUME NEW m \in {"apply", "refresh"}, RequestDeferred(m)
        PROVE  Undisturbed
    BY <1>1, <1>7 DEF RequestDeferred, Undisturbed
  <1>8. ~HostLost
    BY <1>1 DEF HostLost, GoesWrong
  <1>9. \A s \in Services : ~ShutdownRimeForUninstall(s)
    BY <1>1 DEF ShutdownRimeForUninstall, GoesWrong
  <1>10. \A s \in Services, t \in Threads : ~CallFails(s, t)
    BY <1>1 DEF CallFails, GoesWrong
  <1> QED BY <1>2, <1>3, <1>4, <1>5, <1>6, <1>7, <1>8, <1>9, <1>10, StepIs

\* The change of an option, when there was none before.
LEMMA SwitchIsFirst ==
    ASSUME TypeInv, Claims(svc, engine, saved.options, switches, owed), Undisturbed',
           NEW o, Switch(o)
    PROVE  /\ switches = 0 /\ switches' = 1 /\ saved'.options = o
           /\ saved.options = DefaultOptions
           /\ \A c \in OptionNames : ~saved.options[c]
           /\ \A s \in Services : \A c \in OptionNames : ~svc[s].options[c]
  <1>1. switches \in Nat /\ switches' = switches + 1 /\ switches' <= 1
    BY SessionAssumption DEF TypeInv, Switch, Undisturbed
  <1>2. switches = 0 /\ switches' = 1
    BY <1>1
  <1>3. saved.options = DefaultOptions
    BY <1>2 DEF Claims
  <1>4. saved'.options = o
    BY DEF Switch, TypeInv, Engine
  <1>5. \A c \in OptionNames : ~saved.options[c]
    BY <1>3, NothingSet
  <1>6. \A s \in Services : \A c \in OptionNames : ~svc[s].options[c]
    BY <1>5 DEF Claims, Well
  <1> QED BY <1>2, <1>3, <1>4, <1>5, <1>6

LEMMA SaveAbbrevKeeps ==
    ASSUME TypeInv, Claims(svc, engine, saved.options, switches, owed), Undisturbed', SaveAbbrev
    PROVE  Claims(svc', engine', saved'.options, switches', owed')
  <1> DEFINE o == [saved.options EXCEPT !.abbrev = ~@]
  <1>1. /\ switches = 0 /\ switches' = 1 /\ saved'.options = o
        /\ \A c \in OptionNames : ~saved.options[c]
    BY SwitchIsFirst DEF SaveAbbrev
  <1>2. o \in Options /\ o["abbrev"] /\ \A c \in OptionNames \ {"abbrev"} : ~o[c]
    BY <1>1, EventsTyped DEF Options, OptionNames
  <1>3. svc' = svc /\ engine' = engine /\ "refresh" \in owed'
    BY DEF SaveAbbrev
  <1> HIDE DEF o
  <1>4. ASSUME NEW u \in Services
        PROVE  Switched(svc[u], svc[u], "abbrev", owed')
    <2>1. svc[u].options \in Options
      BY DEF TypeInv, ServiceType
    <2> QED BY <1>3, <2>1 DEF Claims, Well, Switched
  <1>5. Claims(svc, engine, o, 1, owed')
    BY <1>1, <1>2, <1>4, SwitchKeeps DEF OptionNames
  <1> QED BY <1>1, <1>3, <1>5

LEMMA MenuKeeps ==
    ASSUME TypeInv, Claims(svc, engine, saved.options, switches, owed), Undisturbed',
           NEW o, Switch(o), o \in Options, o["mode"], o["abbrev"] = saved.options["abbrev"],
           NEW f \in [Services -> ServiceType], \A u \in Services : Fine(f[u]),
           svc' = Posted(f, "toolbar"), engine' = engine, owed' = owed,
           \A u \in Services : f[u] = svc[u] \/ Chosen(f[u], svc[u])
    PROVE  Claims(svc', engine', saved'.options, switches', owed')
  <1>1. /\ switches = 0 /\ switches' = 1 /\ saved'.options = o
        /\ \A c \in OptionNames : ~saved.options[c]
    BY SwitchIsFirst
  <1>2. \A c \in OptionNames \ {"mode"} : ~o[c]
    BY <1>1 DEF OptionNames
  <1>3. ASSUME NEW u \in Services
        PROVE  Switched(svc'[u], svc[u], "mode", owed)
    <2> DEFINE q == f[u]
               r == svc[u]
               y == svc'[u]
    <2>1. y = Gets(q, "toolbar") /\ Fine(q)
      BY PostedIs
    <2>2. Well(r, engine, saved.options, owed) /\ r.options \in Options
      BY DEF Claims, TypeInv, ServiceType
    <2>3. q = r \/ Chosen(q, r)
      OBVIOUS
    <2> HIDE DEF q, r, y
    <2> DEFINE z == Gets(q, "toolbar")
    <2>0. "toolbar" \in {"apply", "refresh", "toolbar"}
      OBVIOUS
    <2>4. /\ Unmoved(z, q) /\ z.goal = q.goal /\ z.options = q.options
          /\ q = Absent => z = Absent
      <3>1. Unmoved(z, q) /\ z.goal = q.goal /\ z.options = q.options
        BY <2>0, <2>1, GetsFine
      <3>2. q = Absent => z = Absent
        BY AbsentIs DEF Gets
      <3> QED BY <3>1, <3>2
    <2>5. q.phase = "active" => Contains(z.inbox, "toolbar")
      BY <2>1, GetsIt
    <2> HIDE DEF z
    <2>6. /\ q.options \in Options /\ q.plan = r.plan /\ q.ready = r.ready /\ Here(q)
          /\ q.goal = "shutdown" => r.goal = "shutdown"
          /\ q.options["abbrev"] = r.options["abbrev"]
          /\ q.options["mode"] = r.options["mode"]
               \/ (q.at["ui"] = "waiting" /\ q.goal = "options")
      <3>1. q.options \in Options
        BY <2>1, FineIsSound DEF ServiceType
      <3>2. CASE q = r
        BY <2>2, <3>1, <3>2 DEF Well
      <3>3. CASE Chosen(q, r)
        BY <3>1, <3>3 DEF Chosen, Here
      <3> QED BY <2>3, <3>2, <3>3
    <2>7. Switched(z, r, "mode", owed)
      BY <2>4, <2>5, <2>6 DEF Switched, Unmoved, Here, OptionNames
    <2>8. y = z
      BY <2>1 DEF z
    <2>9. Switched(y, r, "mode", owed)
      BY <2>7, <2>8
    <2> QED BY <2>9 DEF y, r
  <1>4. Claims(svc', engine, o, 1, owed)
    BY <1>1, <1>2, <1>3, SwitchKeeps DEF OptionNames
  <1> QED BY <1>1, <1>4

LEMMA MenusKeep ==
    ASSUME TypeInv, Claims(svc, engine, saved.options, switches, owed), Undisturbed'
    PROVE  /\ MenuElsewhere => Claims(svc', engine', saved'.options, switches', owed')
           /\ \A s \in Services : HandleLangBarMenuCommand(s) =>
                Claims(svc', engine', saved'.options, switches', owed')
  <1>1. ASSUME MenuElsewhere
        PROVE  Claims(svc', engine', saved'.options, switches', owed')
    <2> DEFINE o == [saved.options EXCEPT !.mode = ~@]
    <2>1. Switch(o) /\ svc' = Posted(svc, "toolbar") /\ engine' = engine /\ owed' = owed
      BY <1>1 DEF MenuElsewhere
    <2>2. \A c \in OptionNames : ~saved.options[c]
      BY <2>1, SwitchIsFirst
    <2>3. o \in Options /\ o["mode"] /\ o["abbrev"] = saved.options["abbrev"]
      BY <2>2, EventsTyped DEF Options, OptionNames
    <2> HIDE DEF o
    <2> QED BY <2>1, <2>3, MenuKeeps DEF TypeInv
  <1>2. ASSUME NEW s \in Services, HandleLangBarMenuCommand(s)
        PROVE  Claims(svc', engine', saved'.options, switches', owed')
    <2> DEFINE new == ~svc[s].options.mode
               o == [saved.options EXCEPT !.mode = new]
    <2>1. PICK f \in [Services -> ServiceType] :
            /\ svc' = Posted(f, "toolbar") /\ Chosen(f[s], svc[s])
            /\ \A u \in Services \ {s} : f[u] = svc[u]
            /\ \A u \in Services : Fine(f[u])
      BY <1>2, MenuStep
    <2>2. Switch(o) /\ engine' = engine /\ owed' = owed
      BY <1>2 DEF HandleLangBarMenuCommand
    <2>3. \A c \in OptionNames : ~svc[s].options[c]
      BY <2>2, SwitchIsFirst
    <2>4. new = TRUE
      BY <2>3 DEF OptionNames
    <2>5. o \in Options /\ o["mode"] /\ o["abbrev"] = saved.options["abbrev"]
      BY <2>4, EventsTyped DEF Options
    <2> HIDE DEF o
    <2>6. \A u \in Services : f[u] = svc[u] \/ Chosen(f[u], svc[u])
      BY <2>1
    <2> QED BY <2>1, <2>2, <2>5, <2>6, MenuKeeps
  <1> QED BY <1>1, <1>2

LEMMA OptionsNext == TypeInv /\ OptionsOwed /\ [Next]_vars => OptionsOwed'
  <1> DEFINE New == Claims(svc', engine', saved'.options, switches', owed')
  <1> SUFFICES ASSUME TypeInv, OptionsOwed, [Next]_vars, Undisturbed' PROVE New
    BY DEF OptionsOwed, Claims, Well, Fixed, Fixes, Stale, Here, Sets, Contains
  <1>1. /\ Undisturbed /\ ~HostLost /\ \A s \in Services : ~ShutdownRimeForUninstall(s)
        /\ \A s \in Services, t \in Threads : ~CallFails(s, t)
        /\ Claims(svc, engine, saved.options, switches, owed)
    BY QuietBefore DEF OptionsOwed
  <1>2. \A s \in Services : Here(svc[s])
    BY <1>1 DEF Claims, Well
  <1>3. ASSUME NEW s \in Services, NEW q, Becomes(s, q), Follows(q, svc[s]),
               UNCHANGED <<engine, saved, owed, switches>>
        PROVE  New
    <2>1. svc'[s] = q /\ \A u \in Services \ {s} : svc'[u] = svc[u]
      BY <1>3, Becoming
    <2>2. Claims(svc', engine, saved.options, switches, owed)
      BY <1>1, <1>2, <1>3, <2>1, FollowKeeps
    <2> QED BY <1>3, <2>2
  <1>4. ASSUME UNCHANGED vars PROVE New
    BY <1>1, <1>4 DEF vars
  <1>5. ASSUME SaveConfig PROVE New
    <2>1. saved'.options = saved.options /\ svc' = svc /\ engine' = engine /\ switches' = switches
          /\ owed \subseteq owed'
      BY <1>5 DEF SaveConfig, TypeInv, Engine
    <2>2. ASSUME NEW u \in Services
          PROVE  Well(svc[u], engine, saved.options, owed')
      BY <1>1, <2>1 DEF Claims, Well
    <2> QED BY <1>1, <2>1, <2>2 DEF Claims
  <1>6. ASSUME SaveAbbrev PROVE New
    BY <1>1, <1>6, SaveAbbrevKeeps
  <1>7. ASSUME MenuElsewhere PROVE New
    BY <1>1, <1>7, MenusKeep
  <1>8. ASSUME NEW m \in {"apply", "refresh"}, RequestDeferred(m)
        PROVE  New
    <2>1. /\ svc' = Posted(svc, m) /\ owed' = owed \ {m} /\ m \in {"apply", "refresh", "toolbar"}
          /\ UNCHANGED <<engine, saved, switches>>
      BY <1>8 DEF RequestDeferred
    <2>2. Claims(svc', engine, saved.options, switches, owed \ {m})
      BY <1>1, <2>1, PostKeeps DEF TypeInv
    <2> QED BY <2>1, <2>2
  <1>9. ASSUME NEW s \in Services, PlainStep(s)
        PROVE  New
    <2>1. PICK q : Plain(s, q)
      BY <1>9, PlainSteps
    <2>2. UNCHANGED <<engine, saved, owed, switches>>
      BY <1>9, PlainSteps
    <2> QED BY <1>2, <1>3, <2>1, <2>2 DEF Plain
  <1>10. ASSUME NEW s \in Services, Deactivate(s)
         PROVE  New
    <2>1. PICK q : Becomes(s, q) /\ ("left" \notin missed' => Follows(q, svc[s]))
      BY <1>10, QuitStep
    <2>2. UNCHANGED <<engine, saved, owed, switches>>
      BY <1>10 DEF Deactivate
    <2>3. "left" \notin missed'
      BY DEF Undisturbed
    <2> QED BY <1>3, <2>1, <2>2, <2>3
  <1>11. ASSUME NEW s \in Services, RestartTimer(s)
         PROVE  New
    <2>1. PICK q : Becomes(s, q) /\ Follows(q, svc[s])
      BY <1>11, TimerStep
    <2>2. UNCHANGED <<engine, saved, owed, switches>>
      BY <1>11 DEF RestartTimer
    <2> QED BY <1>3, <2>1, <2>2
  <1>12. ASSUME NEW s \in Services, HandleLangBarMenuCommand(s)
         PROVE  New
    BY <1>1, <1>12, MenusKeep
  <1>13. ASSUME NEW s \in Services, NEW t \in Threads, Call(s, t)
         PROVE  New
    <2>1. trouble' = {} /\ "left" \notin missed
      BY <1>1 DEF Undisturbed
    <2>2. Claims(svc', engine', saved.options, switches, owed)
      BY <1>1, <1>13, <2>1, CallKeeps
    <2>3. UNCHANGED <<saved, owed, switches>>
      BY <1>13 DEF Call
    <2> QED BY <2>2, <2>3
  <1> HIDE DEF New
  <1> QED BY <1>1, <1>4, <1>5, <1>6, <1>7, <1>8, <1>9, <1>10, <1>11, <1>12, <1>13, StepIs

(* For any number of services and any interleaving of their commands: when *)
(* one option was changed, nothing went wrong, and everybody is done with  *)
(* the messages about it, the session has the saved options, but for the   *)
(* causes that OptionsInForce names.                                       *)
THEOREM OptionsInForceCorrect == Spec => []OptionsInForce
  <1>1. Init => OptionsOwed
    <2> SUFFICES ASSUME Init PROVE Claims(svc, engine, saved.options, switches, owed)
      BY DEF OptionsOwed
    <2>1. saved.options = DefaultOptions /\ engine = NoEngine
      BY DEF Init
    <2>2. ASSUME NEW s \in Services
          PROVE  Well(svc[s], engine, saved.options, owed)
      <3>1. svc[s] = Absent
        BY DEF Init
      <3>2. Absent.plan # <<"shutdown">>
        BY AbsentIs
      <3>3. \A c \in OptionNames : ~Absent.options[c]
        BY AbsentIs DEF OptionNames, DefaultOptions
      <3> QED BY <3>1, <3>2, <3>3, AbsentIs DEF Well, Here
    <2> QED BY <2>1, <2>2 DEF Claims, Fixed
  <1>2. TypeInv /\ OptionsOwed => OptionsInForce
    <2> SUFFICES ASSUME TypeInv, OptionsOwed, Settled, engine # NoEngine, trouble = {},
                        switches <= 1, "left" \notin missed, \A s \in Services : ~svc[s].ahead,
                        NEW v \in Services, svc[v].ready, engine.options # saved.options
                 PROVE  FALSE
      BY DEF OptionsInForce
    <2>1. Claims(svc, engine, saved.options, switches, owed)
      BY DEF OptionsOwed, Undisturbed
    <2>2. PICK c \in OptionNames : engine.options[c] # saved.options[c]
      <3>1. engine.options \in Options /\ saved.options \in Options
        BY DEF TypeInv, Engine
      <3>2. ~(engine.options.mode = saved.options.mode
                /\ engine.options.abbrev = saved.options.abbrev)
        BY <3>1, SameOptions
      <3> QED BY <3>2 DEF OptionNames
    <2>3. PICK s \in Services : Fixes(svc[s], c, saved.options)
      BY <2>1, <2>2 DEF Claims, Fixed
    <2>4. Resting(svc[s]) /\ svc[s].at["ui"] = "rest" /\ svc[s].inbox = <<>> /\ owed = {}
      BY NobodyInside DEF TypeInv, Settled
    <2>5. ~Sets(svc[s].plan, c)
      BY <2>4, PlansDiffer DEF Resting, Sets
    <2>6. svc[s].ready /\ Stale(svc[s], c, saved.options)
      BY <2>3, <2>4, <2>5 DEF Fixes
    <2>7. Well(svc[s], engine, saved.options, owed)
      BY <2>1 DEF Claims
    <2>8. svc[s].phase = "active"
      BY <2>6, <2>7, AbsentIs DEF Well, Here
    <2> QED BY <2>2, <2>4, <2>6, <2>7, <2>8 DEF Well, OptionNames, Contains
  <1> QED BY <1>1, <1>2, OptionsNext, TypeInvCorrect, PTL DEF Spec

-----------------------------------------------------------------------------
(* RimeDeploy.                                                             *)
\* A process past the first reading of the settings has a selection, ...
Begun ==
    \A p \in Procs :
        /\ pc[p] \notin {"down", "up"} => sel[p] \in Configs
        /\ pc[p] = "custom" => own[p] \in Configs
        /\ pc[p] \notin {"down", "support"} => support \in Keys
DeployTypeInv == DeployTypeOK /\ Begun

LEMMA KeysAreTyped ==
    ASSUME NEW c \in Configs
    PROVE  c.key \in Keys /\ c # None /\ Schema(c.key) \in Schemas
BY DeployAssumption DEF Schema, Schemas

LEMMA TextHasConfig ==
    ASSUME NEW t \in Text
    PROVE  t.config \in Configs /\ t.extra \in Extras
BY DEF Text

LEMMA FilesProductTyped ==
    ASSUME DeployTypeOK, support \in Keys
    PROVE  FilesProduct \in Product
<1>1. Schema(support) \in Schemas
    BY DEF Schema, Schemas
<1> QED BY <1>1 DEF DeployTypeOK, FilesProduct, Product

LEMMA DeployTypeInit == DeployInit => DeployTypeInv
<1> SUFFICES ASSUME DeployInit PROVE DeployTypeInv
    OBVIOUS
<1> USE DEF DeployInit
<1>1. settings \in Text /\ support \in Keys \cup {None}
    OBVIOUS
<1>2. custom \in [Schemas -> Text \cup {None}] /\ sig \in [Keys -> Configs \cup {None}]
    OBVIOUS
<1>3. build \in [Keys -> [Schemas -> Product \cup {None}]]
    OBVIOUS
<1>4. edits \in 0 .. MaxEdits /\ failures \in 0 .. MaxTrouble
    BY DeployAssumption
<1>5. torn \in BOOLEAN
    BY Zenon
<1> QED BY <1>1, <1>2, <1>3, <1>4, <1>5 DEF DeployTypeInv, DeployTypeOK, Begun

LEMMA DeployTypeStep ==
    ASSUME DeployTypeInv, NEW p \in Procs, Step(p)
    PROVE  DeployTypeInv'
<1> USE DEF DeployTypeInv
<1>1. ASSUME NEW force \in BOOLEAN, Initialize(p, force)
      PROVE  DeployTypeInv'
  <2>1. settings.config \in Configs
      BY TextHasConfig DEF DeployTypeOK
  <2> QED BY <1>1, <2>1 DEF Initialize, Goto, user, cache, DeployTypeOK, Begun
<1>2. CASE WriteSupport(p)
  <2>1. settings.config \in Configs /\ settings.config.key \in Keys
      BY TextHasConfig, KeysAreTyped DEF DeployTypeOK
  <2> QED BY <1>2, <2>1 DEF WriteSupport, Goto, cache, DeployTypeOK, Begun
<1>3. CASE WriteCustom(p)
  <2>1. own[p] \in Configs
      BY <1>3 DEF WriteCustom, Begun
  <2>2. [config |-> own[p], extra |-> settings.extra] \in Text
      BY <2>1, TextHasConfig DEF Text, DeployTypeOK
  <2>3. Schema(own[p].key) \in Schemas
      BY <2>1, KeysAreTyped
  <2>4. custom' \in [Schemas -> Text \cup {None}]
      BY <1>3, <2>2, <2>3 DEF WriteCustom, DeployTypeOK
  <2>5. changed' \in [Procs -> BOOLEAN]
    <3>1. changed[p] \in BOOLEAN
        BY DEF DeployTypeOK
    <3> QED BY <1>3, <3>1 DEF WriteCustom, DeployTypeOK
  <2> QED BY <1>3, <2>4, <2>5 DEF WriteCustom, Goto, cache, DeployTypeOK, Begun
<1>4. CASE Check(p)
  <2>1. (forced[p] \/ changed[p] \/ ~HasFreshRimeBuildCache(sel[p])) \in BOOLEAN
      OBVIOUS
  <2>2. deploy' \in [Procs -> BOOLEAN]
      BY <1>4, <2>1 DEF Check, DeployTypeOK
  <2> QED BY <1>4, <2>2 DEF Check, Goto, user, cache, DeployTypeOK, Begun
<1>5. CASE Acquire(p)
    BY <1>5 DEF Acquire, Goto, user, cache, decision, DeployTypeOK, Begun
<1>6. CASE GoOn(p)
    BY <1>6 DEF GoOn, Goto, user, cache, decision, DeployTypeOK, Begun
<1>7. CASE LockTimesOut(p)
  <2>1. failures' \in 0 .. MaxTrouble
      BY <1>7, DeployAssumption DEF LockTimesOut, Trouble, DeployTypeOK
  <2> QED BY <1>7, <2>1 DEF LockTimesOut, Return, Goto, user, cache, DeployTypeOK, Begun
<1>8. CASE Prepare(p)
  <2>1. sel[p] \in Configs
      BY <1>8 DEF Prepare, Begun
  <2>2. PICK gone \in {IF sel[p].key = Pinyin THEN Keys ELSE {sel[p].key}, {}} :
          /\ build' = [j \in Keys |->
                          IF j \in gone THEN [s \in Schemas |-> None] ELSE build[j]]
          /\ sig' = [j \in Keys |-> IF j = sel[p].key THEN sel[p]
                                    ELSE IF j \in gone THEN None ELSE sig[j]]
      BY <1>8 DEF Prepare
  <2>3. build' \in [Keys -> [Schemas -> Product \cup {None}]]
      BY <2>2 DEF DeployTypeOK
  <2>4. sig' \in [Keys -> Configs \cup {None}]
      BY <2>1, <2>2 DEF DeployTypeOK
  <2> QED BY <1>8, <2>3, <2>4 DEF Prepare, Goto, user, decision, DeployTypeOK, Begun
<1>9. CASE Deploy(p)
  <2>1. sel[p] \in Configs /\ support \in Keys
      BY <1>9 DEF Deploy, Begun
  <2>2. sel[p].key \in Keys /\ Schema(support) \in Schemas
      BY <2>1, KeysAreTyped DEF Schema, Schemas
  <2>3. FilesProduct \in Product
      BY <2>1, FilesProductTyped
  <2>4. build' \in [Keys -> [Schemas -> Product \cup {None}]]
      BY <1>9, <2>2, <2>3 DEF Deploy, DeployTypeOK
  <2>5. dir' \in [Procs -> Keys \cup {None}]
      BY <1>9, <2>2 DEF Deploy, DeployTypeOK
  <2> QED BY <1>9, <2>4, <2>5 DEF Deploy, Goto, user, decision, DeployTypeOK, Begun
<1>10. CASE DeployFails(p)
  <2>1. sel[p].key \in Keys
      BY <1>10, KeysAreTyped DEF DeployFails, Begun
  <2>2. failures' \in 0 .. MaxTrouble
      BY <1>10, DeployAssumption DEF DeployFails, Trouble, DeployTypeOK
  <2> QED BY <1>10, <2>1, <2>2
          DEF DeployFails, Return, Goto, user, cache, DeployTypeOK, Begun
<1>11. CASE Start(p)
  <2>1. sel[p].key \in Keys
      BY <1>11, KeysAreTyped DEF Start, Begun
  <2> QED BY <1>11, <2>1 DEF Start, Return, Goto, user, cache, DeployTypeOK, Begun
<1>12. CASE Stop(p)
    BY <1>12 DEF Stop, Goto, user, cache, decision, DeployTypeOK, Begun
<1>13. CASE Crash(p)
  <2>1. failures' \in 0 .. MaxTrouble
      BY <1>13, DeployAssumption DEF Crash, Trouble, DeployTypeOK
  <2> QED BY <1>13, <2>1 DEF Crash, Return, Goto, user, cache, DeployTypeOK, Begun
<1> QED BY <1>1, <1>2, <1>3, <1>4, <1>5, <1>6, <1>7, <1>8, <1>9, <1>10, <1>11, <1>12,
           <1>13 DEF Step

LEMMA DeployTypeNext == DeployTypeInv /\ [DeployNext]_deployVars => DeployTypeInv'
<1> SUFFICES ASSUME DeployTypeInv, [DeployNext]_deployVars PROVE DeployTypeInv'
    OBVIOUS
<1>1. CASE Edit
  <2>1. edits' \in 0 .. MaxEdits /\ settings' \in Text
      BY <1>1, DeployAssumption DEF Edit, DeployTypeInv, DeployTypeOK
  <2> QED BY <1>1, <2>1 DEF Edit, cache, decision, DeployTypeInv, DeployTypeOK, Begun
<1>2. CASE \E p \in Procs : Step(p)
    BY <1>2, DeployTypeStep
<1>3. CASE UNCHANGED deployVars
    BY <1>3 DEF deployVars, user, cache, decision, DeployTypeInv, DeployTypeOK, Begun
<1> QED BY <1>1, <1>2, <1>3 DEF DeployNext

LEMMA DeployTypeInvCorrect == DeploySpec => []DeployTypeInv
BY DeployTypeInit, DeployTypeNext, PTL DEF DeploySpec

\* The parts of the state are of their types, for every choice of constants.
THEOREM DeployTypeCorrect == DeploySpec => []DeployTypeOK
BY DeployTypeInvCorrect, PTL DEF DeployTypeInv

-----------------------------------------------------------------------------
(* The mutex: its owner is past the lock and before the end of Initialize, *)
(* and only its owner deploys.                                             *)
Owner ==
    /\ lock # None => lock \in Procs /\ pc[lock] \in {"prepare", "deploy", "start"}
    /\ \A p \in Procs :
        /\ pc[p] \in {"prepare", "deploy"} => lock = p
        /\ pc[p] = "deploy" => sig[sel[p].key] = sel[p]

LEMMA OwnerInit == DeployInit => Owner
BY DEF DeployInit, Owner

LEMMA OwnerStep ==
    ASSUME DeployTypeInv, Owner, NEW p \in Procs, Step(p)
    PROVE  Owner'
<1> USE DEF DeployTypeInv, Owner
<1>0. p # None
    BY DeployAssumption
<1>1. ASSUME NEW force \in BOOLEAN, Initialize(p, force)
      PROVE  Owner'
    BY <1>0, <1>1 DEF Initialize, Goto, user, cache, DeployTypeOK
<1>2. CASE WriteSupport(p)
    BY <1>0, <1>2 DEF WriteSupport, Goto, cache, DeployTypeOK
<1>3. CASE WriteCustom(p)
    BY <1>0, <1>3 DEF WriteCustom, Goto, cache, DeployTypeOK
<1>4. CASE Check(p)
    BY <1>0, <1>4 DEF Check, Goto, user, cache, DeployTypeOK
<1>5. CASE Acquire(p)
  <2>1. \A q \in Procs : pc[q] \notin {"prepare", "deploy"}
      BY <1>5, DeployAssumption DEF Acquire
  <2>2. \A q \in Procs : q # p => pc'[q] = pc[q]
      BY <1>5 DEF Acquire, Goto, DeployTypeOK
  <2>3. pc'[p] \in {"prepare", "start"}
      BY <1>5 DEF Acquire, Goto, DeployTypeOK
  <2> QED BY <1>0, <1>5, <2>1, <2>2, <2>3 DEF Acquire, user, cache, decision
<1>6. CASE GoOn(p)
    BY <1>0, <1>6 DEF GoOn, Goto, user, cache, decision, DeployTypeOK
<1>7. CASE LockTimesOut(p)
    BY <1>0, <1>7 DEF LockTimesOut, Return, Goto, user, cache, DeployTypeOK
<1>8. CASE Prepare(p)
  <2>1. sel[p] \in Configs /\ sel[p].key \in Keys
      BY <1>8, KeysAreTyped DEF Prepare, Begun
  <2>2. sig'[sel[p].key] = sel[p]
      BY <1>8, <2>1 DEF Prepare
  <2>3. \A q \in Procs : q # p => pc'[q] # "deploy"
      BY <1>8 DEF Prepare, Goto, DeployTypeOK
  <2> QED BY <1>0, <1>8, <2>2, <2>3 DEF Prepare, Goto, user, decision, DeployTypeOK
<1>9. CASE Deploy(p)
    BY <1>0, <1>9 DEF Deploy, Goto, user, decision, DeployTypeOK
<1>10. CASE DeployFails(p)
    BY <1>0, <1>10 DEF DeployFails, Return, Goto, user, cache, DeployTypeOK
<1>11. CASE Start(p)
    BY <1>0, <1>11 DEF Start, Return, Goto, user, cache, DeployTypeOK
<1>12. CASE Stop(p)
    BY <1>0, <1>12 DEF Stop, Goto, user, cache, decision, DeployTypeOK
<1>13. CASE Crash(p)
    BY <1>0, <1>13 DEF Crash, Return, Goto, user, cache, DeployTypeOK
<1> QED BY <1>1, <1>2, <1>3, <1>4, <1>5, <1>6, <1>7, <1>8, <1>9, <1>10, <1>11, <1>12,
           <1>13 DEF Step

LEMMA OwnerNext == DeployTypeInv /\ Owner /\ [DeployNext]_deployVars => Owner'
<1> SUFFICES ASSUME DeployTypeInv, Owner, [DeployNext]_deployVars PROVE Owner'
    OBVIOUS
<1>1. CASE Edit
    BY <1>1 DEF Edit, cache, decision, Owner
<1>2. CASE \E p \in Procs : Step(p)
    BY <1>2, OwnerStep
<1>3. CASE UNCHANGED deployVars
    BY <1>3 DEF deployVars, user, cache, decision, Owner
<1> QED BY <1>1, <1>2, <1>3 DEF DeployNext

LEMMA OwnerCorrect == DeploySpec => []Owner
BY DeployTypeInvCorrect, OwnerInit, OwnerNext, PTL DEF DeploySpec

(* From the signature to the build no other process signs, wipes or builds *)
(* a folder, whatever crashes, fails or times out.                         *)
THEOREM DeployUndisturbedCorrect == DeploySpec => []DeployUndisturbed
<1>1. Owner => DeployUndisturbed
    BY DEF Owner, DeployUndisturbed
<1> QED BY <1>1, OwnerCorrect, PTL

-----------------------------------------------------------------------------
(* Who owes a deployment.  Until something fails, and while no start had   *)
(* the scheme changed between its two readings, whoever changes a file of  *)
(* the scheme the files list is on its way to deploy into that scheme's    *)
(* folder, whatever else starts, writes, signs or builds meanwhile.        *)
OneScheme == \A p \in Procs : pc[p] = "custom" => own[p].key = sel[p].key

DebtOwed == \E p \in Procs : Owes(p) /\ sel[p].key = support

\* What passes for fresh with the files as they are, and was built from others.
StaleBuild(c) ==
    /\ c.key = support /\ HasFreshRimeBuildCache(c)
    /\ custom[Schema(c.key)] # None /\ custom[Schema(c.key)].config = c
    /\ build[c.key][Schema(c.key)] # FilesProduct

Debt == (\E c \in Configs : StaleBuild(c)) => DebtOwed

Built == build[support][Schema(support)] = FilesProduct

\* A process that has deployed the scheme the files list, and not returned.
ServesFiles(p) == pc[p] = "start" /\ deploy[p] /\ sel[p].key = support

DeployersServed ==
    \A p \in Procs :
        /\ pc[p] \in {"prepare", "deploy"} => deploy[p]
        /\ pc[p] = "start" /\ deploy[p] => lock = p
        /\ ServesFiles(p) /\ FilesAgree => Built \/ DebtOwed

FolderInv == OneScheme /\ Debt /\ DeployersServed
Clean == failures = 0 /\ ~torn
FolderOK == DeployTypeInv /\ Owner /\ (Clean => FolderInv)

LEMMA FolderInit == DeployInit => FolderOK
<1> SUFFICES ASSUME DeployInit PROVE FolderInv
    BY DeployTypeInit, OwnerInit DEF FolderOK
<1>1. \A c \in Configs : c.key # support
    BY KeysAreTyped, DeployAssumption DEF DeployInit
<1>2. Debt
    BY <1>1 DEF Debt, StaleBuild
<1> QED BY <1>2 DEF DeployInit, FolderInv, OneScheme, DeployersServed, ServesFiles

LEMMA TroubleGrows ==
    ASSUME DeployTypeOK, [DeployNext]_deployVars, Clean'
    PROVE  Clean
<1>1. CASE UNCHANGED failures
  <2>1. torn => torn'
      BY DEF DeployNext, Step, deployVars, Edit, Initialize, WriteSupport, WriteCustom, Check, Acquire,
             GoOn, LockTimesOut, Prepare, Deploy, DeployFails, Start, Stop, Crash, user
  <2> QED BY <1>1, <2>1 DEF Clean
<1>2. CASE failures' = failures + 1
    BY <1>2 DEF DeployTypeOK, Clean
<1>3. failures' = failures \/ failures' = failures + 1
    BY DEF DeployNext, Step, deployVars, Edit, Initialize, WriteSupport, WriteCustom, Check, Acquire, GoOn,
           LockTimesOut, Prepare, Deploy, DeployFails, Start, Stop, Crash, Trouble
<1> QED BY <1>1, <1>2, <1>3

\* A step that neither drops a debt nor turns it into one of another scheme.
DebtsKept == \A q \in Procs : Owes(q) => Owes(q)' /\ sel'[q] = sel[q]

LEMMA DebtOwedKept ==
    ASSUME DebtsKept, support' = support, DebtOwed
    PROVE  DebtOwed'
BY DEF DebtsKept, DebtOwed

\* Steps that leave files, folders and debts alone leave the debt settled.
LEMMA DebtUnchanged ==
    ASSUME Debt, UNCHANGED <<support, custom, sig, build>>, DebtsKept
    PROVE  Debt'
<1>1. \A c \in Configs : StaleBuild(c)' = StaleBuild(c)
    BY DEF StaleBuild, HasFreshRimeBuildCache, FilesProduct
<1> QED BY <1>1, DebtOwedKept DEF Debt

\* ... and who has deployed served.
LEMMA ServedUnchanged ==
    ASSUME DeployTypeInv, DeployersServed, NEW p \in Procs,
           UNCHANGED <<support, custom, build>>, DebtsKept,
           \A q \in Procs : q # p =>
                pc'[q] = pc[q] /\ deploy'[q] = deploy[q] /\ sel'[q] = sel[q]
                /\ (lock = q => lock' = q),
           pc'[p] \in {"prepare", "deploy"} => deploy'[p],
           pc'[p] = "start" => ~deploy'[p]
    PROVE  DeployersServed'
<1>1. (Built <=> Built') /\ (FilesAgree <=> FilesAgree')
    BY DEF Built, FilesProduct, FilesAgree
<1>2. \A q \in Procs : ServesFiles(q)' => q # p /\ ServesFiles(q)
    BY DEF ServesFiles
<1> QED BY <1>1, <1>2, DebtOwedKept DEF DeployersServed

LEMMA SchemeStep ==
    ASSUME DeployTypeInv, OneScheme, ~torn', NEW p \in Procs, Step(p)
    PROVE  OneScheme'
<1> USE DEF DeployTypeInv, OneScheme
<1>1. ASSUME NEW force \in BOOLEAN, Initialize(p, force)
      PROVE  OneScheme'
    BY <1>1 DEF Initialize, Goto, user, cache, DeployTypeOK
<1>2. CASE WriteSupport(p)
    BY <1>2 DEF WriteSupport, Goto, cache, DeployTypeOK
<1>3. CASE WriteCustom(p)
    BY <1>3 DEF WriteCustom, Goto, cache, DeployTypeOK
<1>4. CASE Check(p)
    BY <1>4 DEF Check, Goto, user, cache, DeployTypeOK
<1>5. CASE Acquire(p)
    BY <1>5 DEF Acquire, Goto, user, cache, decision, DeployTypeOK
<1>6. CASE GoOn(p)
    BY <1>6 DEF GoOn, Goto, user, cache, decision, DeployTypeOK
<1>7. CASE LockTimesOut(p)
    BY <1>7 DEF LockTimesOut, Return, Goto, user, cache, DeployTypeOK
<1>8. CASE Prepare(p)
    BY <1>8 DEF Prepare, Goto, user, decision, DeployTypeOK
<1>9. CASE Deploy(p)
    BY <1>9 DEF Deploy, Goto, user, decision, DeployTypeOK
<1>10. CASE DeployFails(p)
    BY <1>10 DEF DeployFails, Return, Goto, user, cache, DeployTypeOK
<1>11. CASE Start(p)
    BY <1>11 DEF Start, Return, Goto, user, cache, DeployTypeOK
<1>12. CASE Stop(p)
    BY <1>12 DEF Stop, Goto, user, cache, decision, DeployTypeOK
<1>13. CASE Crash(p)
    BY <1>13 DEF Crash, Return, Goto, user, cache, DeployTypeOK
<1> QED BY <1>1, <1>2, <1>3, <1>4, <1>5, <1>6, <1>7, <1>8, <1>9, <1>10, <1>11, <1>12,
           <1>13 DEF Step

(* A start that finds a file changed owes, into the folder of the scheme   *)
(* it wrote the files for; one that finds it as it is changes nothing.     *)
LEMMA WriteSupportKeeps ==
    ASSUME DeployTypeInv, Debt, DeployersServed, ~torn', NEW p \in Procs, WriteSupport(p)
    PROVE  Debt' /\ DeployersServed'
<1> USE DEF DeployTypeInv
<1>1. support' = sel[p].key /\ sel' = sel
    BY DEF WriteSupport
<1>2. CASE support' = support
  <2>1. DebtsKept
      BY DEF DebtsKept, WriteSupport, Goto, Owes, DeployTypeOK
  <2>2. Debt'
      BY <1>2, <2>1, DebtUnchanged DEF WriteSupport, cache
  <2>3. pc'[p] = "custom"
      BY DEF WriteSupport, Goto, DeployTypeOK
  <2>4. DeployersServed'
      BY <1>2, <2>1, <2>3, ServedUnchanged DEF WriteSupport, Goto, cache, DeployTypeOK
  <2> QED BY <2>2, <2>4
<1>3. CASE support' # support
  <2>1. Owes(p)'
      BY <1>3 DEF WriteSupport, Goto, Owes, DeployTypeOK
  <2>2. DebtOwed'
      BY <1>1, <2>1 DEF DebtOwed
  <2>3. \A q \in Procs :
            /\ pc'[q] \in {"prepare", "deploy"} => deploy'[q]
            /\ pc'[q] = "start" /\ deploy'[q] => lock' = q
      BY DEF WriteSupport, Goto, DeployersServed, DeployTypeOK
  <2> QED BY <2>2, <2>3 DEF Debt, DeployersServed
<1> QED BY <1>2, <1>3

LEMMA WriteCustomKeeps ==
    ASSUME DeployTypeInv, OneScheme, Debt, DeployersServed, NEW p \in Procs, WriteCustom(p)
    PROVE  Debt' /\ DeployersServed'
<1> USE DEF DeployTypeInv
<1> DEFINE s == Schema(own[p].key)
           text == [config |-> own[p], extra |-> settings.extra]
<1>1. s \in Schemas /\ custom' = [custom EXCEPT ![s] = text] /\ support' = support
      /\ sel' = sel /\ sig' = sig /\ build' = build /\ deploy' = deploy /\ lock' = lock
    BY DEF WriteCustom, cache, Schema, Schemas
<1>2. DebtsKept
    BY DEF DebtsKept, WriteCustom, Goto, Owes, DeployTypeOK
<1>3. \A q \in Procs : q # p => pc'[q] = pc[q]
    BY DEF WriteCustom, Goto, DeployTypeOK
<1>4. pc'[p] = "check"
    BY DEF WriteCustom, Goto, DeployTypeOK
<1>5. own[p] \in Configs /\ own[p].key = sel[p].key /\ support \in Keys
    BY DEF WriteCustom, OneScheme, Begun
<1>6. \A q \in Procs :
          /\ pc'[q] \in {"prepare", "deploy"} => deploy'[q]
          /\ pc'[q] = "start" /\ deploy'[q] => lock' = q
    BY <1>1, <1>3, <1>4 DEF DeployersServed
<1>7. CASE custom[s] = text
  <2>1. custom' = custom
      BY <1>1, <1>7 DEF DeployTypeOK
  <2>2. Debt'
      BY <1>1, <1>2, <2>1, DebtUnchanged
  <2>3. DeployersServed'
      BY <1>1, <1>2, <1>3, <1>4, <2>1, ServedUnchanged
  <2> QED BY <2>2, <2>3
<1>8. CASE custom[s] # text /\ own[p].key = support
  <2>1. Owes(p)'
    <3>1. changed'[p]
        BY <1>8 DEF WriteCustom, DeployTypeOK
    <3> QED BY <1>4, <3>1 DEF Owes
  <2>2. DebtOwed'
      BY <1>1, <1>5, <1>8, <2>1 DEF DebtOwed
  <2> QED BY <1>6, <2>2 DEF Debt, DeployersServed
<1>9. CASE own[p].key # support /\ s = Schema(support)
  <2>1. custom'[Schema(support)] = text
      BY <1>1, <1>9 DEF DeployTypeOK
  <2>2. text.config.key # support
      BY <1>9
  <2>3. \A c \in Configs : ~StaleBuild(c)'
      BY <1>1, <2>1, <2>2 DEF StaleBuild
  <2>4. ~FilesAgree'
      BY <1>1, <2>1, <2>2 DEF FilesAgree
  <2> QED BY <1>6, <2>3, <2>4 DEF Debt, DeployersServed
<1>10. CASE own[p].key # support /\ s # Schema(support)
  <2>1. custom'[Schema(support)] = custom[Schema(support)]
      BY <1>1, <1>10 DEF DeployTypeOK
  <2>2. FilesProduct' = FilesProduct /\ (FilesAgree' <=> FilesAgree) /\ (Built' <=> Built)
      BY <1>1, <2>1 DEF FilesProduct, FilesAgree, Built
  <2>3. \A c \in Configs : StaleBuild(c)' => StaleBuild(c)
      BY <1>1, <2>1, <2>2 DEF StaleBuild, HasFreshRimeBuildCache
  <2>4. DebtOwed => DebtOwed'
      BY <1>1, <1>2, DebtOwedKept
  <2>5. \A q \in Procs : ServesFiles(q)' => ServesFiles(q)
      BY <1>1, <1>3, <1>4 DEF ServesFiles
  <2> QED BY <1>6, <2>2, <2>3, <2>4, <2>5 DEF Debt, DeployersServed
<1> QED BY <1>7, <1>8, <1>9, <1>10

\* Whoever signs or wipes the folder the files list is itself on its way to build it.
LEMMA PrepareKeeps ==
    ASSUME DeployTypeInv, Owner, Debt, DeployersServed, NEW p \in Procs, Prepare(p)
    PROVE  Debt' /\ DeployersServed'
<1> USE DEF DeployTypeInv
<1>1. lock = p /\ deploy[p] /\ pc[p] = "prepare"
    BY DEF Prepare, Owner, DeployersServed
<1>2. pc' = [pc EXCEPT ![p] = "deploy"] /\ sel' = sel /\ deploy' = deploy /\ lock' = lock
      /\ support' = support /\ custom' = custom /\ changed' = changed
    BY DEF Prepare, Goto, user, decision
<1>3. DebtsKept
    BY <1>1, <1>2 DEF DebtsKept, Owes, DeployTypeOK
<1>4. Owes(p)'
    BY <1>1, <1>2 DEF Owes, DeployTypeOK
<1>5. DeployersServed'
  <2>1. \A q \in Procs : ~(pc'[q] = "start" /\ deploy'[q])
      BY <1>1, <1>2 DEF DeployersServed, DeployTypeOK
  <2>2. \A q \in Procs : pc'[q] \in {"prepare", "deploy"} => deploy'[q]
      BY <1>1, <1>2 DEF DeployersServed, DeployTypeOK
  <2> QED BY <2>1, <2>2 DEF DeployersServed, ServesFiles
<1>6. Debt'
  <2>1. CASE sel[p].key = support
      BY <1>2, <1>4, <2>1 DEF Debt, DebtOwed
  <2>2. CASE sel[p].key # support
    <3>1. PICK gone \in {IF sel[p].key = Pinyin THEN Keys ELSE {sel[p].key}, {}} :
            /\ build' = [j \in Keys |->
                            IF j \in gone THEN [x \in Schemas |-> None] ELSE build[j]]
            /\ sig' = [j \in Keys |-> IF j = sel[p].key THEN sel[p]
                                      ELSE IF j \in gone THEN None ELSE sig[j]]
        BY DEF Prepare
    <3>2. \A c \in Configs : StaleBuild(c)' => StaleBuild(c)
      <4> SUFFICES ASSUME NEW c \in Configs, StaleBuild(c)' PROVE StaleBuild(c)
          OBVIOUS
      <4>1. c.key = support /\ c.key \in Keys /\ Schema(c.key) \in Schemas
          BY <1>2, KeysAreTyped DEF StaleBuild
      <4>2. build'[c.key][Schema(c.key)] # None /\ sig'[c.key] = c
          BY DEF StaleBuild, HasFreshRimeBuildCache
      <4>3. build'[c.key] = build[c.key]
          BY <3>1, <4>1, <4>2
      <4>4. sig'[c.key] = sig[c.key]
          BY <2>2, <3>1, <4>1, <4>2, KeysAreTyped
      <4> QED BY <1>2, <4>3, <4>4 DEF StaleBuild, HasFreshRimeBuildCache, FilesProduct
    <3> QED BY <1>2, <1>3, <3>2, DebtOwedKept DEF Debt
  <2> QED BY <2>1, <2>2
<1> QED BY <1>5, <1>6

\* A deployment of the scheme the files list settles the debt, another leaves it.
LEMMA DeployKeeps ==
    ASSUME DeployTypeInv, Owner, Debt, DeployersServed, NEW p \in Procs, Deploy(p)
    PROVE  Debt' /\ DeployersServed'
<1> USE DEF DeployTypeInv
<1>1. lock = p /\ deploy[p] /\ pc[p] = "deploy" /\ sel[p] \in Configs /\ sel[p].key \in Keys
      /\ support \in Keys
    BY KeysAreTyped DEF Deploy, Owner, DeployersServed, Begun
<1>2. pc' = [pc EXCEPT ![p] = "start"] /\ sel' = sel /\ deploy' = deploy /\ lock' = lock
      /\ support' = support /\ custom' = custom /\ changed' = changed /\ sig' = sig
      /\ build' = [build EXCEPT ![sel[p].key][Schema(support)] = FilesProduct]
    BY DEF Deploy, Goto, user, decision
<1>3. FilesProduct' = FilesProduct
    BY <1>2 DEF FilesProduct
<1>4. \A q \in Procs : q # p => ~(pc[q] = "start" /\ deploy[q])
    BY <1>1 DEF DeployersServed
<1>5. \A q \in Procs :
          /\ pc'[q] \in {"prepare", "deploy"} => deploy'[q]
          /\ pc'[q] = "start" /\ deploy'[q] => q = p /\ lock' = q
    BY <1>1, <1>2, <1>4 DEF DeployersServed, DeployTypeOK
<1>6. CASE sel[p].key = support
  <2>1. build'[support][Schema(support)] = FilesProduct
      BY <1>1, <1>2, <1>6 DEF Schema, Schemas, DeployTypeOK
  <2>2. Built'
      BY <1>2, <1>3, <2>1 DEF Built
  <2>3. \A c \in Configs : ~StaleBuild(c)'
      BY <1>2, <1>3, <2>1 DEF StaleBuild
  <2> QED BY <1>5, <2>2, <2>3 DEF Debt, DeployersServed
<1>7. CASE sel[p].key # support
  <2>1. build'[support] = build[support]
      BY <1>1, <1>2, <1>7 DEF DeployTypeOK
  <2>2. \A c \in Configs : StaleBuild(c)' => StaleBuild(c)
      BY <1>2, <1>3, <2>1 DEF StaleBuild, HasFreshRimeBuildCache
  <2>3. DebtOwed => DebtOwed'
      BY <1>2, <1>7 DEF DebtOwed, Owes, DeployTypeOK
  <2>4. \A q \in Procs : ~ServesFiles(q)'
      BY <1>2, <1>5, <1>7 DEF ServesFiles
  <2> QED BY <1>5, <2>2, <2>3, <2>4 DEF Debt, DeployersServed
<1> QED BY <1>6, <1>7

LEMMA FolderStep ==
    ASSUME DeployTypeInv, Owner, FolderInv, Clean', NEW p \in Procs, Step(p)
    PROVE  FolderInv'
<1> USE DEF DeployTypeInv, FolderInv
<1>0. failures' # failures + 1 /\ ~torn' /\ OneScheme'
    BY SchemeStep DEF DeployTypeOK, Clean
<1>1. ASSUME NEW force \in BOOLEAN, Initialize(p, force)
      PROVE  FolderInv'
  <2>1. DebtsKept
      BY <1>1 DEF DebtsKept, Initialize, Goto, Owes, DeployTypeOK
  <2>2. pc'[p] = "support"
      BY <1>1 DEF Initialize, Goto, DeployTypeOK
  <2>3. Debt'
      BY <1>1, <2>1, DebtUnchanged DEF Initialize, user, cache
  <2>4. DeployersServed'
      BY <1>1, <2>1, <2>2, ServedUnchanged DEF Initialize, Goto, user, cache, DeployTypeOK
  <2> QED BY <1>0, <2>3, <2>4
<1>2. CASE WriteSupport(p)
    BY <1>0, <1>2, WriteSupportKeeps
<1>3. CASE WriteCustom(p)
    BY <1>0, <1>3, WriteCustomKeeps
<1>4. CASE Check(p)
  <2>1. changed[p] => deploy'[p]
      BY <1>4 DEF Check, DeployTypeOK
  <2>2. DebtsKept
      BY <1>4, <2>1 DEF DebtsKept, Check, Goto, Owes, DeployTypeOK
  <2>3. pc'[p] = "lock"
      BY <1>4 DEF Check, Goto, DeployTypeOK
  <2>4. Debt'
      BY <1>4, <2>2, DebtUnchanged DEF Check, user, cache
  <2>5. DeployersServed'
      BY <1>4, <2>2, <2>3, ServedUnchanged DEF Check, Goto, user, cache, DeployTypeOK
  <2> QED BY <1>0, <2>4, <2>5
<1>5. CASE Acquire(p)
  <2>1. DebtsKept
      BY <1>5 DEF DebtsKept, Acquire, Goto, Owes, decision, DeployTypeOK
  <2>2. pc'[p] = (IF deploy[p] THEN "prepare" ELSE "start") /\ deploy'[p] = deploy[p]
      BY <1>5 DEF Acquire, Goto, decision, DeployTypeOK
  <2>3. \A q \in Procs : lock # q
      BY <1>5, DeployAssumption DEF Acquire
  <2>4. Debt'
      BY <1>5, <2>1, DebtUnchanged DEF Acquire, user, cache
  <2>5. DeployersServed'
      BY <1>5, <2>1, <2>2, <2>3, ServedUnchanged DEF Acquire, Goto, user, cache, decision, DeployTypeOK
  <2> QED BY <1>0, <2>4, <2>5
<1>6. CASE GoOn(p)
  <2>1. DebtsKept
      BY <1>6 DEF DebtsKept, GoOn, Goto, Owes, decision, DeployTypeOK
  <2>2. pc'[p] = "start" /\ ~deploy'[p]
      BY <1>6 DEF GoOn, Goto, decision, DeployTypeOK
  <2>3. Debt'
      BY <1>6, <2>1, DebtUnchanged DEF GoOn, user, cache
  <2>4. DeployersServed'
      BY <1>6, <2>1, <2>2, ServedUnchanged DEF GoOn, Goto, user, cache, decision, DeployTypeOK
  <2> QED BY <1>0, <2>3, <2>4
<1>7. CASE Prepare(p)
    BY <1>0, <1>7, PrepareKeeps
<1>8. CASE Deploy(p)
    BY <1>0, <1>8, DeployKeeps
<1>9. CASE Start(p)
  <2>1. DebtsKept
      BY <1>9 DEF DebtsKept, Start, Return, Goto, Owes, DeployTypeOK
  <2>2. pc'[p] = "up"
      BY <1>9 DEF Start, Return, Goto, DeployTypeOK
  <2>3. Debt'
      BY <1>9, <2>1, DebtUnchanged DEF Start, user, cache
  <2>4. DeployersServed'
      BY <1>9, <2>1, <2>2, ServedUnchanged DEF Start, Return, Goto, user, cache, DeployTypeOK
  <2> QED BY <1>0, <2>3, <2>4
<1>10. CASE Stop(p)
  <2>1. DebtsKept
      BY <1>10 DEF DebtsKept, Stop, Goto, Owes, decision, DeployTypeOK
  <2>2. pc'[p] = "down"
      BY <1>10 DEF Stop, Goto, DeployTypeOK
  <2>3. Debt'
      BY <1>10, <2>1, DebtUnchanged DEF Stop, user, cache
  <2>4. DeployersServed'
      BY <1>10, <2>1, <2>2, ServedUnchanged DEF Stop, Goto, user, cache, decision, DeployTypeOK
  <2> QED BY <1>0, <2>3, <2>4
<1>11. CASE LockTimesOut(p) \/ DeployFails(p) \/ Crash(p)
    BY <1>0, <1>11 DEF LockTimesOut, DeployFails, Crash, Trouble
<1> QED BY <1>1, <1>2, <1>3, <1>4, <1>5, <1>6, <1>7, <1>8, <1>9, <1>10, <1>11 DEF Step

LEMMA FolderNext == FolderOK /\ [DeployNext]_deployVars => FolderOK'
<1> SUFFICES ASSUME FolderOK, [DeployNext]_deployVars, Clean'
             PROVE  FolderInv'
    BY DeployTypeNext, OwnerNext DEF FolderOK
<1>0. DeployTypeInv /\ Owner /\ FolderInv
    BY TroubleGrows DEF FolderOK, DeployTypeInv
<1>1. CASE \E p \in Procs : Step(p)
    BY <1>0, <1>1, FolderStep
<1>2. CASE Edit \/ UNCHANGED deployVars
  <2>1. UNCHANGED <<support, custom, sig, build, pc, sel, own, changed, deploy, lock>>
      BY <1>2 DEF Edit, deployVars, user, cache, decision
  <2>2. DebtsKept
      BY <2>1 DEF DebtsKept, Owes
  <2>3. Debt'
      BY <1>0, <2>1, <2>2, DebtUnchanged DEF FolderInv
  <2>4. DebtOwed => DebtOwed'
      BY <2>1, <2>2, DebtOwedKept
  <2>5. DeployersServed'
      BY <1>0, <2>1, <2>4 DEF FolderInv, DeployersServed, ServesFiles, Built, FilesProduct, FilesAgree
  <2>6. OneScheme'
      BY <1>0, <2>1 DEF FolderInv, OneScheme
  <2> QED BY <2>3, <2>5, <2>6 DEF FolderInv
<1> QED BY <1>1, <1>2 DEF DeployNext

LEMMA FolderInvCorrect == DeploySpec => []FolderOK
BY FolderInit, FolderNext, PTL DEF DeploySpec

(* As long as no start failed, and none had the scheme changed between its *)
(* two readings of the settings, the build that the next start accepts as  *)
(* fresh is the one of its files: settings may change at any time.         *)
THEOREM CacheHonestCorrect == DeploySpec => []CacheHonest
<1>1. FolderOK => CacheHonest
  <2> SUFFICES ASSUME FolderOK, Quiet, failures = 0, ~torn, NEW c \in Configs, c.key = support,
                      HasFreshRimeBuildCache(c),
                      custom[Schema(c.key)] # None, custom[Schema(c.key)].config = c
               PROVE  build[c.key][Schema(c.key)] = FilesProduct
      BY DEF CacheHonest
  <2>1. ~DebtOwed
      BY DEF Quiet, Owes, DebtOwed
  <2>2. ~StaleBuild(c)
      BY <2>1 DEF FolderOK, Clean, FolderInv, Debt
  <2> QED BY <2>2 DEF StaleBuild
<1> QED BY <1>1, FolderInvCorrect, PTL

(* In the same behaviours a start that deployed the scheme the files list  *)
(* serves the build of these files, or who changed them is going to deploy *)
(* them.                                                                   *)
THEOREM DeployersServeFilesCorrect == DeploySpec => []DeployersServeFiles
<1>1. FolderOK => DeployersServeFiles
    BY DEF FolderOK, Clean, FolderInv, DeployersServed, ServesFiles, Built, DebtOwed, DeployersServeFiles
<1> QED BY <1>1, FolderInvCorrect, PTL
==============================================================================
