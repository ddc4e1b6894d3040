---------------------------- MODULE CoreHostIpc -----------------------------
(***************************************************************************)
(* The threads of the applications that use the input method, the CoreHost *)
(* processes they launch, and what the kernel keeps between them: the      *)
(* anonymous pipe that carries the secret to a new host, the named mutex   *)
(* that admits one host per application, and the one instance of the named *)
(* pipe that a host serves at a time.                                      *)
(*                                                                         *)
(* Client: RimeCoreClient::SendRequest and EnsureHostRunning, step by step *)
(* (src/tsf/rime_core_client.cpp).  Host: RunCoreHost, ServePipe and       *)
(* CoreHostState::Handle (src/corehost/main.cpp).                          *)
(***************************************************************************)
EXTENDS CoreCommands

CONSTANTS
    Apps, Threads, AppOf,  \* processes, their threads, and AppOf[t]
    Hosts,                 \* CoreHost processes that can run at one time
    NoThread, NoHost,
    Requests,              \* the commands the applications send
    Patient,               \* threads whose 2500 ms waits outlast a host's start
    MaxTrouble             \* bound: crashes, failed launches or openings, shutdown calls

ASSUME ProcessAssumption ==
    /\ AppOf \in [Threads -> Apps]
    /\ NoThread \notin Threads
    /\ NoHost \notin Hosts
    /\ Requests \subseteq Command
    /\ Patient \subseteq Threads
    /\ MaxTrouble \in Nat

VARIABLES
    alive,    \* alive[a]: the application process runs
    trouble,  \* what has gone wrong in an application so far (bounded)
    pc,       \* pc[t]: where the call of t stands in SendRequest
    command,  \* command[t]: the request of that call
    reply,    \* reply[t]: the bytes a host wrote in answer to that request
    result,   \* result[t]: what the last call returned
    ready,    \* ready[t]: RimeCoreClient::initialized_
    peer,     \* peer[t]: the host t has launched or is connected to
    phase,    \* phase[h]: where host h stands in RunCoreHost
    home,     \* home[h]: the application whose pipe suffix h was given
    link,     \* link[h]: the thread at the other end of the pipe h reads
    watched,  \* watched[h]: the parent watchdog of h runs
    engine    \* engine[h]: engine_ of the CoreHostState of h

clientVars == <<pc, command, reply, result, ready, peer>>
hostVars == <<phase, home, link, watched, engine>>
vars == <<alive, trouble, clientVars, hostVars>>

Steps == {"idle", "probe", "launch", "launched", "await", "open", "connected", "sent"}
Phases == {"none", "starting", "secured", "duplicate", "owner",
           "listening", "connected", "answered", "farewell"}
Results == {"none", "ok", "refused", "lost"}

TypeOK ==
    /\ alive \in [Apps -> BOOLEAN]
    /\ trouble \in [Apps -> 0..MaxTrouble]
    /\ pc \in [Threads -> Steps]
    /\ command \in [Threads -> Command]
    /\ reply \in [Threads -> Reply \cup {NoReply}]
    /\ result \in [Threads -> Results]
    /\ ready \in [Threads -> BOOLEAN]
    /\ peer \in [Threads -> Hosts \cup {NoHost}]
    /\ phase \in [Hosts -> Phases]
    /\ home \in [Hosts -> Apps]
    /\ link \in [Hosts -> Threads \cup {NoThread}]
    /\ watched \in [Hosts -> BOOLEAN]
    /\ engine \in [Hosts -> Engine]
    /\ \A t \in Threads : pc[t] \in {"launched", "connected", "sent"} => peer[t] \in Hosts

Init ==
    /\ alive = [a \in Apps |-> TRUE]
    /\ trouble = [a \in Apps |-> 0]
    /\ pc = [t \in Threads |-> "idle"]
    /\ command = [t \in Threads |-> [op |-> "query", value |-> DefaultOptions]]
    /\ reply = [t \in Threads |-> NoReply]
    /\ result = [t \in Threads |-> "none"]
    /\ ready = [t \in Threads |-> FALSE]
    /\ peer = [t \in Threads |-> NoHost]
    /\ phase = [h \in Hosts |-> "none"]
    /\ home \in [Hosts -> Apps]
    /\ link = [h \in Hosts |-> NoThread]
    /\ watched = [h \in Hosts |-> FALSE]
    /\ engine = [h \in Hosts |-> NoEngine]

-----------------------------------------------------------------------------
(* The kernel objects.  The mutex exists while a process has a handle to   *)
(* it, and that is also a host that is about to exit because it was not    *)
(* the first to create it.                                                 *)

HostsOf(a) == {h \in Hosts : phase[h] # "none" /\ home[h] = a}
MutexHolder == {"owner", "listening", "connected", "answered", "farewell"}
MutexExists(a) == \E h \in HostsOf(a) : phase[h] \in MutexHolder \cup {"duplicate"}
PipeExists(a) == \E h \in HostsOf(a) : phase[h] \in MutexHolder \ {"owner"}
PipeListening(a) == \E h \in HostsOf(a) : phase[h] = "listening"

Fail(a) ==
    /\ trouble[a] < MaxTrouble
    /\ trouble' = [trouble EXCEPT ![a] = @ + 1]

-----------------------------------------------------------------------------
(* A client thread: one call of SendRequest.                               *)

AllowStart(t) == command[t].op # "shutdown"

(* A call that returns without an answer: Initialize, Redeploy and         *)
(* ShutdownSharedEngine then clear initialized_.                           *)
ReturnLost(t) ==
    /\ pc' = [pc EXCEPT ![t] = "idle"]
    /\ result' = [result EXCEPT ![t] = "lost"]
    /\ ready' = [ready EXCEPT ![t] =
            IF command[t].op \in {"initialize", "redeploy", "shutdown"} THEN FALSE ELSE @]
    /\ peer' = [peer EXCEPT ![t] = NoHost]
    /\ UNCHANGED <<command, reply>>

Goto(t, step) ==
    /\ pc' = [pc EXCEPT ![t] = step]
    /\ UNCHANGED <<command, reply, result, ready, peer>>

(* The public methods: SetOption, GetCandidatePageForInput, ... do nothing *)
(* on a client that is not initialized_; Initialize, Redeploy and          *)
(* ShutdownSharedEngine always send.  Only the last may not start a host.  *)
Call(t, c) ==
    /\ pc[t] = "idle" /\ alive[AppOf[t]]
    /\ c.op \in {"query", "set"} => ready[t]
    /\ IF c.op = "shutdown" THEN Fail(AppOf[t]) ELSE UNCHANGED trouble
    /\ pc' = [pc EXCEPT ![t] = IF c.op = "shutdown" THEN "await" ELSE "probe"]
    /\ command' = [command EXCEPT ![t] = c]
    /\ reply' = [reply EXCEPT ![t] = NoReply]
    /\ result' = [result EXCEPT ![t] = "none"]
    /\ UNCHANGED <<alive, ready, peer, hostVars>>

(* The text service lets go of the engine: the host keeps it.              *)
Shutdown(t) ==
    /\ pc[t] = "idle" /\ alive[AppOf[t]]
    /\ ready' = [ready EXCEPT ![t] = FALSE]
    /\ UNCHANGED <<alive, trouble, pc, command, reply, result, peer, hostVars>>

(* EnsureHostRunning: 50 ms for the pipe; a busy pipe is waited for, only  *)
(* a missing one makes the client launch a host.                           *)
Probe(t) ==
    /\ pc[t] = "probe"
    /\ \/ PipeListening(AppOf[t]) /\ Goto(t, "open")
       \/ PipeExists(AppOf[t]) /\ ~PipeListening(AppOf[t]) /\ Goto(t, "await")
       \/ ~PipeExists(AppOf[t]) /\ Goto(t, "launch")
    /\ UNCHANGED <<alive, trouble, hostVars>>

Launch(t, h) ==
    /\ pc[t] = "launch" /\ phase[h] = "none"
    /\ pc' = [pc EXCEPT ![t] = "launched"]
    /\ peer' = [peer EXCEPT ![t] = h]
    /\ phase' = [phase EXCEPT ![h] = "starting"]
    /\ home' = [home EXCEPT ![h] = AppOf[t]]
    /\ link' = [link EXCEPT ![h] = t]
    /\ UNCHANGED <<alive, trouble, command, reply, result, ready, watched, engine>>

(* CreateProcess fails; or CreateFile does, for another reason than a busy *)
(* or a missing pipe, or the server it opened is not the CoreHost of this  *)
(* installation.                                                           *)
CallFails(t) ==
    /\ pc[t] \in {"launch", "open"}
    /\ Fail(AppOf[t])
    /\ ReturnLost(t)
    /\ UNCHANGED <<alive, hostVars>>

(* WriteChildSecret, then the wait of 2500 ms for the pipe of the child.   *)
WriteSecret(t) ==
    /\ pc[t] = "launched" /\ link[peer[t]] = t
    /\ pc' = [pc EXCEPT ![t] = "await"]
    /\ peer' = [peer EXCEPT ![t] = NoHost]
    /\ link' = [link EXCEPT ![peer[t]] = NoThread]
    /\ UNCHANGED <<alive, trouble, command, reply, result, ready,
                   phase, home, watched, engine>>

PipeReady(t) ==
    /\ pc[t] = "await" /\ PipeListening(AppOf[t])
    /\ Goto(t, "open")
    /\ UNCHANGED <<alive, trouble, hostVars>>

MayTimeOut(t) == t \in Patient => HostsOf(AppOf[t]) = {}

WaitTimesOut(t) ==
    /\ pc[t] = "await" /\ MayTimeOut(t)
    /\ ReturnLost(t)
    /\ UNCHANGED <<alive, trouble, hostVars>>

(* The CreateFile loop: it opens the instance, or goes back to             *)
(* EnsureHostRunning when there is none, or reaches its deadline.          *)
Open(t, h) ==
    /\ pc[t] = "open" /\ h \in HostsOf(AppOf[t]) /\ phase[h] = "listening"
    /\ pc' = [pc EXCEPT ![t] = "connected"]
    /\ peer' = [peer EXCEPT ![t] = h]
    /\ phase' = [phase EXCEPT ![h] = "connected"]
    /\ link' = [link EXCEPT ![h] = t]
    /\ UNCHANGED <<alive, trouble, command, reply, result, ready, home, watched, engine>>

\* Mutant: a pipe that has just been closed ends the call.
PipeMissingFails(t) ==
    /\ pc[t] = "open" /\ ~PipeExists(AppOf[t]) /\ AllowStart(t)
    /\ ReturnLost(t)
    /\ UNCHANGED <<alive, trouble, hostVars>>

PipeMissing(t) ==
    /\ pc[t] = "open" /\ ~PipeExists(AppOf[t]) /\ AllowStart(t)
    /\ Goto(t, "probe")
    /\ UNCHANGED <<alive, trouble, hostVars>>

OpenTimesOut(t) ==
    /\ pc[t] = "open" /\ ~PipeListening(AppOf[t]) /\ MayTimeOut(t)
    /\ ReturnLost(t)
    /\ UNCHANGED <<alive, trouble, hostVars>>

WriteRequest(t) ==
    /\ pc[t] = "connected" /\ link[peer[t]] = t
    /\ Goto(t, "sent")
    /\ UNCHANGED <<alive, trouble, hostVars>>

(* ReadMessage has no timeout: it ends with the answer, or with the pipe.  *)
ReadReply(t) ==
    /\ pc[t] = "sent" /\ link[peer[t]] = t
    /\ phase[peer[t]] \in {"answered", "farewell"}
    /\ pc' = [pc EXCEPT ![t] = "idle"]
    /\ result' = [result EXCEPT ![t] = IF reply[t].ok THEN "ok" ELSE "refused"]
    /\ ready' = [ready EXCEPT ![t] =
                    CASE command[t].op \in {"initialize", "redeploy"} -> reply[t].ok
                      [] command[t].op = "shutdown" -> FALSE
                      [] OTHER -> @]
    /\ peer' = [peer EXCEPT ![t] = NoHost]
    /\ link' = [link EXCEPT ![peer[t]] = NoThread]
    /\ UNCHANGED <<alive, trouble, command, reply, phase, home, watched, engine>>

(* Mutants: the request is sent again when its answer is missing; a broken *)
(* pipe is not noticed while waiting for the answer.                       *)
PipeBrokenResends(t) ==
    /\ pc[t] \in {"launched", "connected", "sent"} /\ link[peer[t]] # t
    /\ Goto(t, "probe")
    /\ UNCHANGED <<alive, trouble, hostVars>>

PipeBrokenUnnoticed(t) ==
    /\ pc[t] \in {"launched", "connected"} /\ link[peer[t]] # t
    /\ ReturnLost(t)
    /\ UNCHANGED <<alive, trouble, hostVars>>

(* The host at the other end is gone: writing the secret, the request or   *)
(* reading the answer fails, and the request is not sent again.            *)
PipeBroken(t) ==
    /\ pc[t] \in {"launched", "connected", "sent"} /\ link[peer[t]] # t
    /\ ReturnLost(t)
    /\ UNCHANGED <<alive, trouble, hostVars>>

-----------------------------------------------------------------------------
(* A host process.                                                         *)

Exit(h) ==
    /\ phase' = [phase EXCEPT ![h] = "none"]
    /\ link' = [link EXCEPT ![h] = NoThread]
    /\ watched' = [watched EXCEPT ![h] = FALSE]
    /\ engine' = [engine EXCEPT ![h] = NoEngine]
    /\ UNCHANGED <<alive, clientVars, home>>

Become(h, p) ==
    /\ phase' = [phase EXCEPT ![h] = p]
    /\ UNCHANGED <<alive, trouble, clientVars, home, watched, engine>>

(* ParseOptions reads the secret, StartParentWatchdog opens the parent: it *)
(* goes on unwatched when the parent is already gone.                      *)
ReadSecret(h) ==
    /\ phase[h] = "starting" /\ link[h] = NoThread
    /\ phase' = [phase EXCEPT ![h] = "secured"]
    /\ watched' = [watched EXCEPT ![h] = alive[home[h]]]
    /\ UNCHANGED <<alive, trouble, clientVars, home, link, engine>>

SecretMissing(h) ==
    /\ phase[h] = "starting" /\ link[h] # NoThread /\ ~alive[home[h]]
    /\ Exit(h)
    /\ UNCHANGED trouble

CreateMutex(h) ==
    /\ phase[h] = "secured"
    /\ Become(h, IF MutexExists(home[h]) THEN "duplicate" ELSE "owner")
    /\ UNCHANGED link

DuplicateExits(h) ==
    /\ phase[h] = "duplicate"
    /\ Exit(h)
    /\ UNCHANGED trouble

CreatePipe(h) ==
    /\ phase[h] = "owner"
    /\ Become(h, "listening")
    /\ UNCHANGED link

(* ServePipe, from reading the request to writing the answer.              *)
Handle(h) ==
    LET t == link[h] IN
    /\ phase[h] = "connected" /\ t \in Threads /\ pc[t] = "sent"
    /\ \E o \in Outcomes(command[t], engine[h]) :
          /\ engine' = [engine EXCEPT ![h] = o.engine]
          /\ reply' = [reply EXCEPT ![t] = o.reply]
    /\ phase' = [phase EXCEPT ![h] =
                    IF command[t].op = "shutdown" THEN "farewell" ELSE "answered"]
    /\ UNCHANGED <<alive, trouble, pc, command, result, ready, peer, home, link, watched>>

(* The client died after opening the pipe and before writing.              *)
RequestMissing(h) ==
    /\ phase[h] = "connected" /\ link[h] \in Threads
    /\ pc[link[h]] = "connected" /\ ~alive[home[h]]
    /\ Become(h, "owner")
    /\ link' = [link EXCEPT ![h] = NoThread]

Flushed(h) == link[h] = NoThread \/ ~alive[home[h]]

(* FlushFileBuffers returned: the instance is closed before the next one   *)
(* is created, and a shutdown request ends the process instead.            *)
Disconnect(h) ==
    /\ phase[h] = "answered" /\ Flushed(h)
    /\ Become(h, "owner")
    /\ link' = [link EXCEPT ![h] = NoThread]

Terminate(h) ==
    /\ phase[h] = "farewell" /\ Flushed(h)
    /\ Exit(h)
    /\ UNCHANGED trouble

WatchdogFires(h) ==
    /\ phase[h] # "none" /\ watched[h] /\ ~alive[home[h]]
    /\ Exit(h)
    /\ UNCHANGED trouble

Crash(h) ==
    /\ phase[h] # "none"
    /\ Fail(home[h])
    /\ Exit(h)

AppDies(a) ==
    /\ alive[a]
    /\ alive' = [alive EXCEPT ![a] = FALSE]
    /\ UNCHANGED <<trouble, clientVars, hostVars>>

-----------------------------------------------------------------------------
ClientStep(t) ==
    /\ alive[AppOf[t]]
    /\ \/ Probe(t) \/ WriteSecret(t) \/ PipeReady(t) \/ WaitTimesOut(t)
       \/ PipeMissing(t) \/ OpenTimesOut(t) \/ WriteRequest(t) \/ ReadReply(t)
       \/ PipeBroken(t)
       \/ \E h \in Hosts : Launch(t, h) \/ Open(t, h)

HostStep(h) ==
    \/ ReadSecret(h) \/ SecretMissing(h) \/ CreateMutex(h) \/ DuplicateExits(h)
    \/ CreatePipe(h) \/ Handle(h) \/ RequestMissing(h) \/ Disconnect(h) \/ Terminate(h)

Next ==
    \/ \E t \in Threads :
          \/ \E c \in Requests : Call(t, c)
          \/ Shutdown(t)
          \/ ClientStep(t)
          \/ alive[AppOf[t]] /\ CallFails(t)
    \/ \E h \in Hosts : HostStep(h) \/ WatchdogFires(h) \/ Crash(h)
    \/ \E a \in Apps : AppDies(a)

Spec == Init /\ [][Next]_vars

(* Threads and processes are scheduled; the loop that reopens the pipe     *)
(* ends at its deadline however often the pipe is missing; and the bound   *)
(* on the number of processes (Hosts) does not starve CreateProcess.       *)
Fairness ==
    /\ \A t \in Threads :
          /\ WF_vars(ClientStep(t))
          /\ SF_vars(alive[AppOf[t]] /\ \E h \in Hosts : Launch(t, h))
          /\ SF_vars(alive[AppOf[t]] /\ OpenTimesOut(t))
    /\ \A h \in Hosts : WF_vars(HostStep(h)) /\ WF_vars(WatchdogFires(h))

FairSpec == Spec /\ Fairness

-----------------------------------------------------------------------------
(* At most one host process of an application is past the mutex, so one    *)
(* engine at a time works on its pipe (main.cpp:435-446).                  *)
OneOwner ==
    \A a \in Apps : \A g, h \in HostsOf(a) :
        phase[g] \in MutexHolder /\ phase[h] \in MutexHolder => g = h

(* The two ends of every pipe agree: a host that reads a secret or serves  *)
(* a request has at the other end a thread of its own application, in the  *)
(* matching step of its call, and its request has been answered exactly    *)
(* when the host says so.                                                  *)
EndsAgree ==
    \A h \in Hosts : link[h] # NoThread =>
        LET t == link[h] IN
        /\ peer[t] = h /\ AppOf[t] = home[h]
        /\ CASE phase[h] = "starting" -> pc[t] = "launched"
             [] phase[h] = "connected" ->
                    pc[t] \in {"connected", "sent"} /\ reply[t] = NoReply
             [] phase[h] \in {"answered", "farewell"} ->
                    pc[t] = "sent" /\ reply[t] # NoReply
             [] OTHER -> FALSE

(* A thread whose waits are long enough for a host to start loses a call   *)
(* only after a crash, a failed launch or opening of the pipe, or a        *)
(* shutdown request of the same application: neither the gap between two   *)
(* pipe instances nor two threads that launch a host at the same time make *)
(* its call fail.                                                          *)
LostHasCause ==
    \A t \in Patient : result[t] = "lost" => trouble[AppOf[t]] > 0

(* What callers rely on (CoreService): the engine of an application is     *)
(* that of the one host past the mutex.                                    *)
EngineOf(a) ==
    IF \E h \in HostsOf(a) : phase[h] \in MutexHolder
    THEN engine[CHOOSE h \in HostsOf(a) : phase[h] \in MutexHolder]
    ELSE NoEngine

Stage(t) ==
    IF pc[t] = "idle" THEN "idle"
    ELSE IF reply[t] = NoReply THEN "called" ELSE "performed"

Service == INSTANCE CoreService WITH
    engine <- [a \in Apps |-> EngineOf(a)],
    stage <- [t \in Threads |-> Stage(t)]

(* Every behaviour of clients and hosts is one of CoreService: at most     *)
(* one execution per call, on one engine per application.                  *)
ImplementsService == Service!ServiceSpec

(* A call of a thread whose waits may expire at any time returns unless    *)
(* the application ends first, although reading the answer has no timeout: *)
(* the host answers or its end of the pipe breaks.                         *)
CallReturns ==
    \A t \in Threads \ Patient :
        pc[t] # "idle" ~> pc[t] = "idle" \/ ~alive[AppOf[t]]
=============================================================================
