------------------------- MODULE CoreHostIpcProofs --------------------------
(***************************************************************************)
(* Proofs about CoreHostIpc: type correctness, the safety invariants, and  *)
(* the refinement of CoreService, for any number of applications, threads  *)
(* and hosts and any bound on trouble.                                     *)
(***************************************************************************)
EXTENDS CoreHostIpc, TLAPS

(* The results of Handle are engines and replies.                          *)
LEMMA OutcomeType ==
    ASSUME NEW c \in Command, NEW e \in Engine, NEW o \in Outcomes(c, e)
    PROVE  /\ o.engine \in Engine
           /\ o.reply \in Reply
           /\ o.reply # NoReply
<1>1. DefaultOptions \in Engine /\ NoEngine \in Engine
    BY OptionsAssumption DEF Engine
<1>2. ASSUME NEW x \in Engine, NEW ok \in BOOLEAN
      PROVE  /\ Outcome(x, ok).engine \in Engine
             /\ Outcome(x, ok).reply \in Reply
             /\ Outcome(x, ok).reply # NoReply
    BY <1>2, OptionsAssumption DEF Outcome, Reply, NoReply, Engine
<1>3. EnsureInitialized(e) \subseteq Engine
    BY <1>1 DEF EnsureInitialized
<1>4. \E x \in Engine, ok \in BOOLEAN : o = Outcome(x, ok)
    <2>1. CASE c.op = "shutdown"
        BY <2>1, <1>1 DEF Outcomes
    <2>2. CASE c.op = "redeploy"
        BY <2>2, <1>1 DEF Outcomes
    <2>3. CASE c.op \in {"initialize", "query"}
        BY <2>3, <1>1, <1>3 DEF Outcomes
    <2>4. CASE c.op = "set"
        <3>1. c.value \in Engine
            BY OptionsAssumption DEF Command, Engine
        <3>2. PICK up \in EnsureInitialized(e) :
                o = Outcome(IF up = NoEngine THEN NoEngine ELSE c.value, up # NoEngine)
            BY <2>4 DEF Outcomes
        <3>3. QED
            BY <3>1, <3>2, <1>1
    <2>5. QED
        BY <2>1, <2>2, <2>3, <2>4 DEF Command
<1>5. QED
    BY <1>2, <1>4

(* Trouble is counted up to its bound.                                     *)
LEMMA FailType ==
    ASSUME TypeOK, NEW a \in Apps, Fail(a)
    PROVE  trouble' \in [Apps -> 0..MaxTrouble]
BY ProcessAssumption DEF TypeOK, Fail

(* A lost call leaves its thread well typed.                               *)
LEMMA ReturnLostType ==
    ASSUME TypeOK, NEW t \in Threads, ReturnLost(t)
    PROVE  /\ pc' \in [Threads -> Steps]
           /\ command' \in [Threads -> Command]
           /\ reply' \in [Threads -> Reply \cup {NoReply}]
           /\ result' \in [Threads -> Results]
           /\ ready' \in [Threads -> BOOLEAN]
           /\ peer' \in [Threads -> Hosts \cup {NoHost}]
           /\ \A u \in Threads :
                 pc'[u] \in {"launched", "connected", "sent"} => peer'[u] \in Hosts
<1>1. ready' \in [Threads -> BOOLEAN]
    BY DEF TypeOK, ReturnLost
<1>2. QED
    BY <1>1 DEF TypeOK, ReturnLost, Steps, Results

(* Every variable keeps its type.                                          *)
THEOREM TypeCorrect == Spec => []TypeOK
<1>1. Init => TypeOK
    <2>1. [op |-> "query", value |-> DefaultOptions] \in Command
        BY DEF Command
    <2>2. QED
        BY <2>1, ProcessAssumption
           DEF Init, TypeOK, Steps, Phases, Results, Reply, Engine
<1>2. TypeOK /\ [Next]_vars => TypeOK'
    <2> SUFFICES ASSUME TypeOK, [Next]_vars PROVE TypeOK'
        OBVIOUS
    <2> USE DEF TypeOK, Steps, Phases, Results
    <2>1. ASSUME NEW t \in Threads, NEW c \in Requests, Call(t, c) PROVE TypeOK'
        <3>1. AppOf[t] \in Apps /\ c \in Command
            BY ProcessAssumption
        <3>2. trouble' \in [Apps -> 0..MaxTrouble]
            <4>1. CASE c.op = "shutdown"
                BY <2>1, <3>1, <4>1, FailType DEF Call
            <4>2. CASE c.op # "shutdown"
                BY <2>1, <4>2 DEF Call
            <4>3. QED
                BY <4>1, <4>2
        <3>3. QED
            BY <2>1, <3>1, <3>2 DEF Call, hostVars
    <2>2. ASSUME NEW t \in Threads, Probe(t) \/ PipeReady(t) \/ PipeMissing(t) \/ WriteRequest(t)
          PROVE  TypeOK'
        BY <2>2 DEF Probe, PipeReady, PipeMissing, WriteRequest, Goto, hostVars
    <2>3. ASSUME NEW t \in Threads,
                 CallFails(t) \/ WaitTimesOut(t) \/ OpenTimesOut(t) \/ PipeBroken(t)
          PROVE  TypeOK'
        <3>1. trouble' \in [Apps -> 0..MaxTrouble]
            BY <2>3, ProcessAssumption, FailType
               DEF CallFails, WaitTimesOut, OpenTimesOut, PipeBroken
        <3>2. ReturnLost(t) /\ UNCHANGED <<alive, hostVars>>
            BY <2>3 DEF CallFails, WaitTimesOut, OpenTimesOut, PipeBroken
        <3>3. QED
            BY <3>1, <3>2, ReturnLostType DEF hostVars
    <2>4. ASSUME NEW t \in Threads, NEW h \in Hosts, Launch(t, h) \/ Open(t, h)
          PROVE  TypeOK'
        BY <2>4, ProcessAssumption DEF Launch, Open
    <2>5. ASSUME NEW t \in Threads, WriteSecret(t) \/ ReadReply(t) PROVE TypeOK'
        <3>1. CASE WriteSecret(t)
            BY <3>1 DEF WriteSecret
        <3>2. CASE ReadReply(t)
            <4>1. reply[t].ok \in BOOLEAN
                <5>1. reply[t] \in Reply \/ reply[t] = NoReply
                    OBVIOUS
                <5>2. NoReply.ok = FALSE
                    BY DEF NoReply
                <5>3. QED
                    BY <5>1, <5>2 DEF Reply
            <4>2. ready' \in [Threads -> BOOLEAN]
                BY <3>2, <4>1 DEF ReadReply
            <4>3. QED
                BY <3>2, <4>2 DEF ReadReply
        <3>3. QED
            BY <2>5, <3>1, <3>2
    <2>6. ASSUME NEW h \in Hosts, ReadSecret(h) PROVE TypeOK'
        BY <2>6 DEF ReadSecret, clientVars
    <2>7. ASSUME NEW h \in Hosts,
                 \/ SecretMissing(h) \/ DuplicateExits(h) \/ Terminate(h)
                 \/ WatchdogFires(h) \/ Crash(h)
          PROVE  TypeOK'
        <3>1. trouble' \in [Apps -> 0..MaxTrouble]
            BY <2>7, FailType
               DEF SecretMissing, DuplicateExits, Terminate, WatchdogFires, Crash
        <3>2. Exit(h)
            BY <2>7 DEF SecretMissing, DuplicateExits, Terminate, WatchdogFires, Crash
        <3>3. QED
            BY <3>1, <3>2 DEF Exit, clientVars, Engine
    <2>8. ASSUME NEW h \in Hosts,
                 CreateMutex(h) \/ CreatePipe(h) \/ RequestMissing(h) \/ Disconnect(h)
          PROVE  TypeOK'
        BY <2>8 DEF CreateMutex, CreatePipe, RequestMissing, Disconnect, Become, clientVars
    <2>9. ASSUME NEW h \in Hosts, Handle(h) PROVE TypeOK'
        BY <2>9, OutcomeType DEF Handle
    <2>10. ASSUME NEW a \in Apps, AppDies(a) PROVE TypeOK'
        BY <2>10 DEF AppDies, clientVars, hostVars
    <2>11. ASSUME NEW t \in Threads, Shutdown(t) PROVE TypeOK'
        BY <2>11 DEF Shutdown, hostVars
    <2>12. CASE UNCHANGED vars
        BY <2>12 DEF vars, clientVars, hostVars
    <2>13. QED
        BY <2>1, <2>2, <2>3, <2>4, <2>5, <2>6, <2>7, <2>8, <2>9, <2>10, <2>11, <2>12
           DEF Next, ClientStep, HostStep
<1>3. QED
    BY <1>1, <1>2, PTL DEF Spec

-----------------------------------------------------------------------------
(* One host per application is past the mutex: CreateMutex lets a host in  *)
(* only when no other holds the mutex, and a host that is not past it is   *)
(* never given the application of one that is.                             *)
THEOREM OneOwnerCorrect == Spec => []OneOwner
<1> USE DEF OneOwner, HostsOf, MutexHolder
<1>1. Init => OneOwner
    BY DEF Init
<1>2. TypeOK /\ OneOwner /\ [Next]_vars => OneOwner'
    <2> SUFFICES ASSUME TypeOK, OneOwner, [Next]_vars PROVE OneOwner'
        OBVIOUS
    <2> USE DEF TypeOK
    <2>1. CASE UNCHANGED <<phase, home>>
        BY <2>1
    <2>2. ASSUME NEW t \in Threads, NEW h \in Hosts, Launch(t, h) PROVE OneOwner'
        BY <2>2 DEF Launch
    <2>3. ASSUME NEW h \in Hosts, UNCHANGED home,
                 \/ phase[h] \in MutexHolder
                 \/ phase'[h] \notin MutexHolder,
                 \E p \in Phases : phase' = [phase EXCEPT ![h] = p]
          PROVE  OneOwner'
        BY <2>3
    <2>4. ASSUME NEW h \in Hosts, CreateMutex(h) PROVE OneOwner'
        BY <2>4 DEF CreateMutex, Become, MutexExists
    <2>5. ASSUME NEW t \in Threads, NEW h \in Hosts, Open(t, h) PROVE OneOwner'
        BY <2>5, <2>3 DEF Open, Phases
    <2>6. ASSUME NEW h \in Hosts,
                 \/ ReadSecret(h) \/ SecretMissing(h) \/ DuplicateExits(h)
                 \/ CreatePipe(h) \/ Handle(h) \/ RequestMissing(h) \/ Disconnect(h)
                 \/ Terminate(h) \/ WatchdogFires(h) \/ Crash(h)
          PROVE  OneOwner'
        BY <2>6, <2>3
           DEF ReadSecret, SecretMissing, DuplicateExits, CreatePipe, Handle, RequestMissing,
               Disconnect, Terminate, WatchdogFires, Crash, Exit, Become, Phases
    <2>7. ASSUME NEW t \in Threads, NEW c \in Requests, Call(t, c) PROVE OneOwner'
        BY <2>7, <2>1 DEF Call, hostVars
    <2>8. ASSUME NEW t \in Threads,
                 \/ Probe(t) \/ WriteSecret(t) \/ PipeReady(t) \/ WaitTimesOut(t)
                 \/ PipeMissing(t) \/ OpenTimesOut(t) \/ WriteRequest(t) \/ ReadReply(t)
                 \/ PipeBroken(t) \/ CallFails(t) \/ Shutdown(t)
          PROVE  OneOwner'
        BY <2>8, <2>1
           DEF Shutdown, Probe, WriteSecret, PipeReady, WaitTimesOut, PipeMissing, OpenTimesOut,
               WriteRequest, ReadReply, PipeBroken, CallFails, hostVars
    <2>9. ASSUME NEW a \in Apps, AppDies(a) PROVE OneOwner'
        BY <2>9, <2>1 DEF AppDies, hostVars
    <2>10. CASE UNCHANGED vars
        BY <2>10, <2>1 DEF vars, hostVars
    <2>11. QED
        BY <2>2, <2>4, <2>5, <2>6, <2>7, <2>8, <2>9, <2>10 DEF Next, ClientStep, HostStep
<1>3. QED
    BY <1>1, <1>2, TypeCorrect, PTL DEF Spec

-----------------------------------------------------------------------------
(* A request that has not been written has not been answered.              *)
Unanswered ==
    \A t \in Threads : pc[t] \in Steps \ {"idle", "sent"} => reply[t] = NoReply

LEMMA UnansweredCorrect == Spec => []Unanswered
<1> USE DEF Unanswered, Steps
<1>1. Init => Unanswered
    BY DEF Init
<1>2. TypeOK /\ Unanswered /\ [Next]_vars => Unanswered'
    <2> SUFFICES ASSUME TypeOK, Unanswered, [Next]_vars PROVE Unanswered'
        OBVIOUS
    <2> USE DEF TypeOK
    <2>1. CASE UNCHANGED <<pc, reply>>
        BY <2>1
    <2>2. ASSUME NEW t \in Threads, NEW c \in Requests, Call(t, c) PROVE Unanswered'
        BY <2>2 DEF Call
    <2>3. ASSUME NEW t \in Threads, ClientStep(t) \/ CallFails(t) PROVE Unanswered'
        <3>1. ASSUME NEW step \in Steps, pc' = [pc EXCEPT ![t] = step],
                     UNCHANGED reply,
                     pc[t] \in Steps \ {"idle", "sent"} \/ step \in {"idle", "sent"}
              PROVE  Unanswered'
            BY <3>1
        <3>2. CASE \/ WaitTimesOut(t) \/ OpenTimesOut(t) \/ PipeBroken(t) \/ CallFails(t)
            BY <3>1, <3>2 DEF WaitTimesOut, OpenTimesOut, PipeBroken, CallFails, ReturnLost
        <3>3. CASE Probe(t) \/ PipeReady(t) \/ PipeMissing(t) \/ WriteRequest(t)
            BY <3>1, <3>3 DEF Probe, PipeReady, PipeMissing, WriteRequest, Goto
        <3>4. CASE WriteSecret(t) \/ ReadReply(t) \/ \E h \in Hosts : Launch(t, h) \/ Open(t, h)
            BY <3>1, <3>4 DEF WriteSecret, ReadReply, Launch, Open
        <3>5. QED
            BY <2>3, <3>2, <3>3, <3>4 DEF ClientStep
    <2>4. ASSUME NEW h \in Hosts, Handle(h) PROVE Unanswered'
        BY <2>4 DEF Handle
    <2>5. ASSUME NEW h \in Hosts,
                 \/ ReadSecret(h) \/ SecretMissing(h) \/ CreateMutex(h)
                 \/ DuplicateExits(h) \/ CreatePipe(h) \/ RequestMissing(h)
                 \/ Disconnect(h) \/ Terminate(h) \/ WatchdogFires(h) \/ Crash(h)
          PROVE  Unanswered'
        BY <2>5, <2>1
           DEF ReadSecret, SecretMissing, CreateMutex, DuplicateExits, CreatePipe,
               RequestMissing, Disconnect, Terminate, WatchdogFires, Crash, Exit, Become,
               clientVars
    <2>6. CASE (\E a \in Apps : AppDies(a)) \/ \E t \in Threads : Shutdown(t)
        BY <2>6, <2>1 DEF AppDies, Shutdown, clientVars
    <2>7. CASE UNCHANGED vars
        BY <2>7, <2>1 DEF vars, clientVars
    <2>8. QED
        BY <2>2, <2>3, <2>4, <2>5, <2>6, <2>7 DEF Next, HostStep
<1>3. QED
    BY <1>1, <1>2, TypeCorrect, PTL DEF Spec

(* The two ends of every pipe agree.  What makes it inductive is that a    *)
(* thread is at the end of at most one pipe: peer[t] names it.             *)
THEOREM EndsAgreeCorrect == Spec => []EndsAgree
<1> USE DEF EndsAgree
<1>1. Init => EndsAgree
    BY DEF Init
<1>2. TypeOK /\ Unanswered /\ EndsAgree /\ [Next]_vars => EndsAgree'
    <2> SUFFICES ASSUME TypeOK, Unanswered, EndsAgree, [Next]_vars PROVE EndsAgree'
        OBVIOUS
    <2> USE DEF TypeOK
    <2>1. ASSUME NEW t \in Threads, NEW c \in Requests, Call(t, c) PROVE EndsAgree'
        BY <2>1 DEF Call, hostVars
    <2>2. ASSUME NEW t \in Threads, Probe(t) \/ PipeReady(t) \/ PipeMissing(t)
          PROVE  EndsAgree'
        BY <2>2 DEF Probe, PipeReady, PipeMissing, Goto, hostVars
    <2>3. ASSUME NEW t \in Threads, NEW h \in Hosts, Launch(t, h) PROVE EndsAgree'
        BY <2>3 DEF Launch
    <2>4. ASSUME NEW t \in Threads,
                 CallFails(t) \/ WaitTimesOut(t) \/ OpenTimesOut(t) \/ PipeBroken(t)
          PROVE  EndsAgree'
        <3>1. \A h \in Hosts : link[h] # t
            BY <2>4, ProcessAssumption
               DEF CallFails, WaitTimesOut, OpenTimesOut, PipeBroken
        <3>2. ReturnLost(t) /\ UNCHANGED hostVars
            BY <2>4 DEF CallFails, WaitTimesOut, OpenTimesOut, PipeBroken, hostVars
        <3>3. UNCHANGED <<link, phase, home, reply>>
            BY <3>2 DEF ReturnLost, hostVars
        <3>4. \A u \in Threads : u # t => pc'[u] = pc[u] /\ peer'[u] = peer[u]
            BY <3>2 DEF ReturnLost
        <3>5. QED
            BY <3>1, <3>3, <3>4
    <2>5. ASSUME NEW t \in Threads, WriteSecret(t) PROVE EndsAgree'
        BY <2>5 DEF WriteSecret
    <2>6. ASSUME NEW t \in Threads, NEW h \in Hosts, Open(t, h) PROVE EndsAgree'
        <3>1. \A g \in Hosts : link[g] # t
            BY <2>6, ProcessAssumption DEF Open
        <3>2. home[h] = AppOf[t] /\ h \in Hosts
            BY <2>6 DEF Open, HostsOf
        <3>3. reply[t] = NoReply
            BY <2>6 DEF Open, Unanswered, Steps
        <3>4. QED
            BY <2>6, <3>1, <3>2, <3>3 DEF Open
    <2>7. ASSUME NEW t \in Threads, WriteRequest(t) PROVE EndsAgree'
        BY <2>7 DEF WriteRequest, Goto, hostVars
    <2>8. ASSUME NEW t \in Threads, ReadReply(t) PROVE EndsAgree'
        BY <2>8 DEF ReadReply
    <2>9. ASSUME NEW h \in Hosts, ReadSecret(h) PROVE EndsAgree'
        BY <2>9 DEF ReadSecret, clientVars
    <2>10. ASSUME NEW h \in Hosts,
                 \/ SecretMissing(h) \/ DuplicateExits(h) \/ Terminate(h)
                 \/ WatchdogFires(h) \/ Crash(h)
          PROVE  EndsAgree'
        <3>1. Exit(h)
            BY <2>10 DEF SecretMissing, DuplicateExits, Terminate, WatchdogFires, Crash
        <3>2. QED
            BY <3>1 DEF Exit, clientVars
    <2>11. ASSUME NEW h \in Hosts,
                 CreateMutex(h) \/ CreatePipe(h) \/ RequestMissing(h) \/ Disconnect(h)
          PROVE  EndsAgree'
        BY <2>11 DEF CreateMutex, CreatePipe, RequestMissing, Disconnect, Become, clientVars
    <2>12. ASSUME NEW h \in Hosts, Handle(h) PROVE EndsAgree'
        BY <2>12, OutcomeType DEF Handle
    <2>13. CASE (\E a \in Apps : AppDies(a)) \/ \E t \in Threads : Shutdown(t)
        BY <2>13 DEF AppDies, Shutdown, clientVars, hostVars
    <2>14. CASE UNCHANGED vars
        BY <2>14 DEF vars, clientVars, hostVars
    <2>15. QED
        BY <2>1, <2>2, <2>3, <2>4, <2>5, <2>6, <2>7, <2>8, <2>9, <2>10, <2>11, <2>12,
           <2>13, <2>14 DEF Next, ClientStep, HostStep
<1>3. QED
    BY <1>1, <1>2, TypeCorrect, UnansweredCorrect, PTL DEF Spec

-----------------------------------------------------------------------------
(* Refinement: clients and hosts together implement CoreService.           *)

(* An engine lives only in a host that is past the mutex.                  *)
EngineNeedsMutex == \A h \in Hosts : phase[h] \notin MutexHolder => engine[h] = NoEngine

(* EngineOf in terms of the hosts.                                         *)
EngineMap ==
    \A a \in Apps :
        /\ \A h \in HostsOf(a) : phase[h] \in MutexHolder => EngineOf(a) = engine[h]
        /\ (\A h \in HostsOf(a) : phase[h] \notin MutexHolder) => EngineOf(a) = NoEngine

LEMMA EngineNeedsMutexCorrect == Spec => []EngineNeedsMutex
<1> USE DEF EngineNeedsMutex, MutexHolder
<1>1. Init => EngineNeedsMutex
    BY DEF Init
<1>2. TypeOK /\ EngineNeedsMutex /\ [Next]_vars => EngineNeedsMutex'
    <2> SUFFICES ASSUME TypeOK, EngineNeedsMutex, [Next]_vars PROVE EngineNeedsMutex'
        OBVIOUS
    <2> USE DEF TypeOK
    <2>1. CASE UNCHANGED <<phase, engine>>
        BY <2>1
    <2>2. ASSUME NEW t \in Threads, NEW h \in Hosts, Launch(t, h) \/ Open(t, h)
          PROVE  EngineNeedsMutex'
        BY <2>2 DEF Launch, Open
    <2>3. ASSUME NEW h \in Hosts,
                 \/ ReadSecret(h) \/ CreateMutex(h) \/ CreatePipe(h)
                 \/ RequestMissing(h) \/ Disconnect(h)
          PROVE  EngineNeedsMutex'
        BY <2>3 DEF ReadSecret, CreateMutex, CreatePipe, RequestMissing, Disconnect, Become
    <2>4. ASSUME NEW h \in Hosts,
                 \/ SecretMissing(h) \/ DuplicateExits(h) \/ Terminate(h)
                 \/ WatchdogFires(h) \/ Crash(h)
          PROVE  EngineNeedsMutex'
        BY <2>4 DEF SecretMissing, DuplicateExits, Terminate, WatchdogFires, Crash, Exit
    <2>5. ASSUME NEW h \in Hosts, Handle(h) PROVE EngineNeedsMutex'
        BY <2>5 DEF Handle
    <2>6. ASSUME NEW t \in Threads,
                 \/ Probe(t) \/ WriteSecret(t) \/ PipeReady(t) \/ WaitTimesOut(t)
                 \/ PipeMissing(t) \/ OpenTimesOut(t) \/ WriteRequest(t) \/ ReadReply(t)
                 \/ PipeBroken(t) \/ CallFails(t) \/ (\E c \in Requests : Call(t, c))
                 \/ Shutdown(t)
          PROVE  EngineNeedsMutex'
        BY <2>6, <2>1
           DEF Shutdown, Probe, WriteSecret, PipeReady, WaitTimesOut, PipeMissing, OpenTimesOut,
               WriteRequest, ReadReply, PipeBroken, CallFails, Call, hostVars
    <2>7. ASSUME NEW a \in Apps, AppDies(a) PROVE EngineNeedsMutex'
        BY <2>7, <2>1 DEF AppDies, hostVars
    <2>8. CASE UNCHANGED vars
        BY <2>8, <2>1 DEF vars, hostVars
    <2>9. QED
        BY <2>2, <2>3, <2>4, <2>5, <2>6, <2>7, <2>8 DEF Next, ClientStep, HostStep
<1>3. QED
    BY <1>1, <1>2, TypeCorrect, PTL DEF Spec

LEMMA EngineMapCorrect == Spec => []EngineMap
<1>1. ASSUME OneOwner PROVE EngineMap
    <2>1. ASSUME NEW a \in Apps, NEW h \in HostsOf(a), phase[h] \in MutexHolder
          PROVE  EngineOf(a) = engine[h]
        <3>1. (CHOOSE g \in HostsOf(a) : phase[g] \in MutexHolder) = h
            BY <1>1, <2>1 DEF OneOwner
        <3>2. QED
            BY <2>1, <3>1 DEF EngineOf
    <2>2. \A a \in Apps :
            (\A h \in HostsOf(a) : phase[h] \notin MutexHolder) => EngineOf(a) = NoEngine
        BY DEF EngineOf
    <2>3. QED
        BY <2>1, <2>2 DEF EngineMap
<1>2. QED
    BY <1>1, OneOwnerCorrect, PTL

(* A step that leaves the hosts of an application that are past the mutex  *)
(* alone leaves its engine.                                                *)
LEMMA SameEngine ==
    ASSUME TypeOK, TypeOK', EngineMap, EngineMap', NEW a \in Apps,
           \A h \in Hosts : home[h] = a /\ phase[h] \in MutexHolder
                            <=> home'[h] = a /\ phase'[h] \in MutexHolder,
           \A h \in Hosts : home[h] = a /\ phase[h] \in MutexHolder => engine'[h] = engine[h]
    PROVE  EngineOf(a)' = EngineOf(a)
<1>1. CASE \E h \in HostsOf(a) : phase[h] \in MutexHolder
    <2>1. PICK h \in HostsOf(a) : phase[h] \in MutexHolder
        BY <1>1
    <2>2. h \in Hosts /\ home[h] = a /\ home'[h] = a /\ phase'[h] \in MutexHolder
        BY <2>1 DEF HostsOf
    <2>3. h \in HostsOf(a)'
        BY <2>2 DEF HostsOf, MutexHolder
    <2>4. EngineOf(a) = engine[h] /\ EngineOf(a)' = engine'[h]
        BY <2>1, <2>2, <2>3 DEF EngineMap, MutexHolder
    <2>5. QED
        BY <2>1, <2>2, <2>4
<1>2. CASE \A h \in HostsOf(a) : phase[h] \notin MutexHolder
    <2>1. \A h \in HostsOf(a)' : phase'[h] \notin MutexHolder
        BY <1>2 DEF HostsOf, MutexHolder
    <2>2. QED
        BY <1>2, <2>1 DEF EngineMap, MutexHolder
<1>3. QED
    BY <1>1, <1>2

(* What CoreService sees of a step that changes neither an engine nor the  *)
(* stage of a call: nothing.                                               *)
Stutter ==
    /\ \A a \in Apps : EngineOf(a)' = EngineOf(a)
    /\ \A t \in Threads : Stage(t)' = Stage(t)
    /\ UNCHANGED <<command, reply, result>>

LEMMA SameOutcomes ==
    ASSUME NEW c, NEW e
    PROVE  Service!Outcomes(c, e) = Outcomes(c, e)
BY DEF Service!Outcomes, Service!Outcome, Service!EnsureInitialized,
       Outcomes, Outcome, EnsureInitialized

(* Each step of a client maps to a step of CoreService.                    *)
LEMMA ClientRefines ==
    ASSUME TypeOK, TypeOK', EngineMap, EngineMap', Unanswered, EndsAgree,
           NEW t \in Threads, \A a \in Apps : EngineOf(a)' = EngineOf(a)
    PROVE  /\ (\E c \in Requests : Call(t, c)) => \E c \in Service!Command : Service!Submit(t, c)
           /\ ReadReply(t) => Service!Answer(t)
           /\ WaitTimesOut(t) \/ OpenTimesOut(t) \/ PipeBroken(t) \/ CallFails(t)
                => Service!GiveUp(t)
           /\ (Probe(t) \/ PipeReady(t) \/ PipeMissing(t) \/ WriteRequest(t) \/ WriteSecret(t)
                 \/ \E h \in Hosts : Launch(t, h) \/ Open(t, h)) => Stutter
<1> DEFINE stages == [u \in Threads |-> Stage(u)]
           engines == [a \in Apps |-> EngineOf(a)]
<1> USE DEF TypeOK
<1>1. engines' = engines
    OBVIOUS
<1>2. ASSUME NEW step \in Steps, pc' = [pc EXCEPT ![t] = step],
             \A u \in Threads : u # t => reply'[u] = reply[u]
      PROVE  /\ \A u \in Threads : u # t => Stage(u)' = Stage(u)
             /\ stages' = [stages EXCEPT ![t] = Stage(t)']
    <2>1. \A u \in Threads : u # t => Stage(u)' = Stage(u)
        BY <1>2 DEF Stage
    <2>2. QED
        BY <2>1
<1>3. ASSUME NEW c \in Requests, Call(t, c) PROVE Service!Submit(t, c) /\ c \in Service!Command
    <2>1. stages[t] = "idle" /\ Stage(t)' = "called"
        BY <1>3 DEF Call, Stage
    <2>2. stages' = [stages EXCEPT ![t] = "called"]
        BY <1>2, <1>3, <2>1 DEF Call, Steps
    <2>3. c \in Service!Command
        BY ProcessAssumption DEF Command, Service!Command
    <2>4. QED
        BY <1>1, <1>3, <2>1, <2>2, <2>3 DEF Call, Service!Submit, NoReply, Service!NoReply
<1>4. ASSUME ReadReply(t) PROVE Service!Answer(t)
    <2>1. link[peer[t]] = t /\ peer[t] \in Hosts
        BY <1>4, ProcessAssumption DEF ReadReply, EndsAgree, Steps
    <2>2. stages[t] = "performed" /\ Stage(t)' = "idle"
        BY <1>4, <2>1, ProcessAssumption DEF ReadReply, Stage, EndsAgree
    <2>3. stages' = [stages EXCEPT ![t] = "idle"]
        BY <1>2, <1>4, <2>2 DEF ReadReply, Steps
    <2>4. QED
        BY <1>1, <1>4, <2>2, <2>3 DEF ReadReply, Service!Answer
<1>5. ASSUME WaitTimesOut(t) \/ OpenTimesOut(t) \/ PipeBroken(t) \/ CallFails(t)
      PROVE  Service!GiveUp(t)
    <2>1. pc[t] # "idle" /\ ReturnLost(t)
        BY <1>5 DEF WaitTimesOut, OpenTimesOut, PipeBroken, CallFails
    <2>2. stages[t] # "idle" /\ Stage(t)' = "idle"
        BY <2>1 DEF ReturnLost, Stage
    <2>3. stages' = [stages EXCEPT ![t] = "idle"]
        BY <1>2, <2>1, <2>2 DEF ReturnLost, Steps
    <2>4. QED
        BY <1>1, <2>1, <2>2, <2>3 DEF ReturnLost, Service!GiveUp
<1>6. ASSUME \/ Probe(t) \/ PipeReady(t) \/ PipeMissing(t) \/ WriteRequest(t)
             \/ WriteSecret(t) \/ (\E h \in Hosts : Launch(t, h) \/ Open(t, h))
      PROVE  Stutter
    <2>1. /\ UNCHANGED <<command, reply, result>>
          /\ pc[t] # "idle"
          /\ \E step \in Steps \ {"idle"} : pc' = [pc EXCEPT ![t] = step]
        BY <1>6 DEF Probe, PipeReady, PipeMissing, WriteRequest, WriteSecret, Launch, Open,
                    Goto, Steps
    <2>2. \A u \in Threads : Stage(u)' = Stage(u)
        BY <2>1 DEF Stage
    <2>3. QED
        BY <2>1, <2>2 DEF Stutter
<1>7. QED
    BY <1>3, <1>4, <1>5, <1>6

(* A host that exits takes the engine of its application with it when it   *)
(* is past the mutex, and is not noticed otherwise.                        *)
LEMMA ExitRefines ==
    ASSUME TypeOK, TypeOK', EngineMap, EngineMap', OneOwner, NEW h \in Hosts, Exit(h)
    PROVE  Service!LoseEngine(home[h]) \/ Stutter
<1> DEFINE stages == [u \in Threads |-> Stage(u)]
           engines == [a \in Apps |-> EngineOf(a)]
<1>1. UNCHANGED <<command, reply, result, pc, home>>
    BY DEF Exit, clientVars
<1>2. \A t \in Threads : Stage(t)' = Stage(t)
    BY <1>1 DEF Stage
<1>3. /\ phase'[h] = "none"
      /\ \A g \in Hosts : g # h => phase'[g] = phase[g] /\ engine'[g] = engine[g]
    BY DEF Exit, TypeOK
<1>4. \A a \in Apps : a # home[h] => EngineOf(a)' = EngineOf(a)
    <2> SUFFICES ASSUME NEW a \in Apps, a # home[h] PROVE EngineOf(a)' = EngineOf(a)
        OBVIOUS
    <2>1. QED
        BY <1>1, <1>3, SameEngine
<1>5. CASE phase[h] \in MutexHolder
    <2>1. \A g \in HostsOf(home[h])' : phase'[g] \notin MutexHolder
        BY <1>1, <1>3, <1>5 DEF OneOwner, HostsOf, MutexHolder, TypeOK
    <2>2. home[h] \in Apps /\ home'[h] = home[h]
        BY <1>1 DEF TypeOK
    <2>3. EngineOf(home[h])' = NoEngine
        BY <1>1, <2>1, <2>2 DEF EngineMap, MutexHolder
    <2>4. engines' = [engines EXCEPT ![home[h]] = NoEngine]
        BY <1>1, <1>4, <2>2, <2>3
    <2>5. stages' = stages
        BY <1>2
    <2>6. QED
        BY <1>1, <2>4, <2>5 DEF Service!LoseEngine
<1>6. CASE phase[h] \notin MutexHolder
    <2>1. EngineOf(home[h])' = EngineOf(home[h])
        <3>1. home[h] \in Apps /\ phase'[h] \notin MutexHolder
            BY <1>3 DEF TypeOK, MutexHolder
        <3>2. QED
            BY <1>1, <1>3, <1>6, <3>1, SameEngine
    <2>2. QED
        BY <1>1, <1>2, <1>4, <2>1 DEF Stutter
<1>7. QED
    BY <1>5, <1>6

(* Each other step of a host maps to performing a request, or is not seen. *)
LEMMA HostRefines ==
    ASSUME TypeOK, TypeOK', EngineMap, EngineMap', EndsAgree, EngineNeedsMutex,
           NEW h \in Hosts
    PROVE  /\ Handle(h) => \E t \in Threads : Service!Perform(t)
           /\ (ReadSecret(h) \/ CreateMutex(h) \/ CreatePipe(h) \/ RequestMissing(h)
                 \/ Disconnect(h)) => Stutter
<1> DEFINE stages == [u \in Threads |-> Stage(u)]
           engines == [a \in Apps |-> EngineOf(a)]
<1>1. ASSUME Handle(h) PROVE \E t \in Threads : Service!Perform(t)
    <2> PICK t \in Threads : link[h] = t
        BY <1>1 DEF Handle
    <2>1. /\ phase[h] = "connected" /\ pc[t] = "sent"
          /\ UNCHANGED <<pc, command, result, home>>
        BY <1>1 DEF Handle
    <2>2. AppOf[t] = home[h] /\ reply[t] = NoReply /\ home[h] \in Apps
        BY <2>1, ProcessAssumption DEF EndsAgree, TypeOK
    <2>3. PICK o \in Outcomes(command[t], engine[h]) :
            /\ engine' = [engine EXCEPT ![h] = o.engine]
            /\ reply' = [reply EXCEPT ![t] = o.reply]
        BY <1>1 DEF Handle
    <2>4. o.reply # NoReply
        BY <2>1, <2>3, OutcomeType DEF TypeOK
    <2>5. phase'[h] \in MutexHolder /\ \A g \in Hosts : g # h => phase'[g] = phase[g]
        BY <1>1 DEF Handle, TypeOK, MutexHolder
    <2>6. EngineOf(home[h]) = engine[h] /\ EngineOf(home[h])' = o.engine
        <3>1. h \in HostsOf(home[h]) /\ h \in HostsOf(home[h])' /\ home'[h] = home[h]
            BY <2>1, <2>5 DEF HostsOf, MutexHolder
        <3>2. engine'[h] = o.engine
            BY <2>3 DEF TypeOK
        <3>3. QED
            BY <2>1, <2>2, <2>5, <3>1, <3>2 DEF EngineMap, MutexHolder
    <2>7. \A a \in Apps : a # home[h] => EngineOf(a)' = EngineOf(a)
        <3> SUFFICES ASSUME NEW a \in Apps, a # home[h] PROVE EngineOf(a)' = EngineOf(a)
            OBVIOUS
        <3>1. \A g \in Hosts : g # h => engine'[g] = engine[g]
            BY <2>3 DEF TypeOK
        <3>2. QED
            BY <2>1, <2>5, <3>1, SameEngine
    <2>8. engines[AppOf[t]] = engine[h] /\ engines' = [engines EXCEPT ![AppOf[t]] = o.engine]
        <3>1. home'[h] = home[h]
            BY <2>1
        <3>2. EngineOf(AppOf[t]) = engine[h] /\ EngineOf(AppOf[t])' = o.engine
            BY <2>2, <2>6, <3>1
        <3>3. QED
            BY <2>2, <2>7, <3>2
    <2>9. stages[t] = "called" /\ stages' = [stages EXCEPT ![t] = "performed"]
        <3>1. Stage(t) = "called" /\ Stage(t)' = "performed"
            BY <2>1, <2>2, <2>3, <2>4 DEF Stage, TypeOK
        <3>2. \A u \in Threads : u # t => Stage(u)' = Stage(u)
            BY <2>1, <2>3 DEF Stage, TypeOK
        <3>3. QED
            BY <2>1, <3>1, <3>2
    <2>10. o \in Service!Outcomes(command[t], engines[AppOf[t]])
        BY <2>3, <2>8, SameOutcomes
    <2>11. QED
        BY <2>1, <2>3, <2>8, <2>9, <2>10 DEF Service!Perform
<1>2. ASSUME \/ ReadSecret(h) \/ CreateMutex(h) \/ CreatePipe(h)
             \/ RequestMissing(h) \/ Disconnect(h)
      PROVE  Stutter
    <2>1. /\ UNCHANGED <<pc, command, reply, result, home, engine>>
          /\ \A g \in Hosts : g # h => phase'[g] = phase[g]
        BY <1>2 DEF ReadSecret, CreateMutex, CreatePipe, RequestMissing, Disconnect, Become,
                    clientVars, TypeOK
    <2>2. \A a \in Apps : a # home[h] => EngineOf(a)' = EngineOf(a)
        <3> SUFFICES ASSUME NEW a \in Apps, a # home[h] PROVE EngineOf(a)' = EngineOf(a)
            OBVIOUS
        <3>1. QED
            BY <2>1, SameEngine
    <2>3. home[h] \in Apps /\ home'[h] = home[h]
        BY <2>1 DEF TypeOK
    <2>4. CASE phase[h] \in MutexHolder <=> phase'[h] \in MutexHolder
        <3>1. EngineOf(home[h])' = EngineOf(home[h])
            BY <2>1, <2>3, <2>4, SameEngine
        <3>2. QED
            BY <2>1, <2>2, <3>1 DEF Stutter, Stage
    <2>5. CASE ~(phase[h] \in MutexHolder <=> phase'[h] \in MutexHolder)
        <3>1. /\ phase[h] = "secured" /\ phase'[h] = "owner"
              /\ \A g \in HostsOf(home[h]) : phase[g] \notin MutexHolder
            BY <1>2, <2>5
               DEF ReadSecret, CreateMutex, CreatePipe, RequestMissing, Disconnect, Become,
                   MutexHolder, MutexExists, TypeOK
        <3>2. EngineOf(home[h]) = NoEngine
            BY <2>3, <3>1 DEF EngineMap
        <3>3. h \in HostsOf(home[h])' /\ phase'[h] \in MutexHolder
            BY <2>3, <3>1 DEF HostsOf, MutexHolder
        <3>4. EngineOf(home[h])' = engine'[h] /\ engine[h] = NoEngine
            BY <2>3, <3>1, <3>3 DEF EngineMap, EngineNeedsMutex, MutexHolder
        <3>5. QED
            BY <2>1, <2>2, <3>2, <3>4 DEF Stutter, Stage
    <2>6. QED
        BY <2>4, <2>5
<1>3. QED
    BY <1>1, <1>2

(* The states of clients and hosts, seen as CoreService, start and move as *)
(* CoreService does: a call is performed at most once, by the one engine   *)
(* of its application, and only a performed call is answered.              *)
THEOREM Refinement == Spec => ImplementsService
<1>1. Init => Service!ServiceInit
    <2> SUFFICES ASSUME Init PROVE Service!ServiceInit
        OBVIOUS
    <2>1. \A a \in Apps : EngineOf(a) = NoEngine
        BY DEF Init, EngineOf, HostsOf
    <2>2. \A t \in Threads : Stage(t) = "idle"
        BY DEF Init, Stage
    <2>3. command \in [Threads -> Service!Command]
        BY DEF Init, Service!Command
    <2>4. QED
        BY <2>1, <2>2, <2>3 DEF Init, Service!ServiceInit, NoReply, Service!NoReply
<1>2. ASSUME TypeOK, TypeOK', OneOwner, Unanswered, EndsAgree, EngineNeedsMutex,
             EngineMap, EngineMap', [Next]_vars
      PROVE  [Service!ServiceNext]_Service!serviceVars
    <2>1. ASSUME Stutter PROVE UNCHANGED Service!serviceVars
        <3>1. /\ [a \in Apps |-> EngineOf(a)]' = [a \in Apps |-> EngineOf(a)]
              /\ [t \in Threads |-> Stage(t)]' = [t \in Threads |-> Stage(t)]
            BY <2>1 DEF Stutter
        <3>2. QED
            BY <2>1, <3>1 DEF Stutter, Service!serviceVars
    <2>2. UNCHANGED <<phase, home, engine>> => \A a \in Apps : EngineOf(a)' = EngineOf(a)
        BY <1>2, SameEngine
    <2>3. ASSUME NEW t \in Threads, NEW h \in Hosts, Launch(t, h) \/ Open(t, h)
          PROVE  \A a \in Apps : EngineOf(a)' = EngineOf(a)
        <3>1. \A g \in Hosts : /\ phase[g] \in MutexHolder <=> phase'[g] \in MutexHolder
                               /\ phase[g] \in MutexHolder => home'[g] = home[g]
            BY <1>2, <2>3 DEF Launch, Open, TypeOK, MutexHolder
        <3>2. UNCHANGED engine
            BY <2>3 DEF Launch, Open
        <3>3. QED
            BY <1>2, <3>1, <3>2, SameEngine
    <2>4. ASSUME NEW t \in Threads,
                 \/ \E c \in Requests : Call(t, c)
                 \/ ClientStep(t) \/ CallFails(t)
          PROVE  [Service!ServiceNext]_Service!serviceVars
        <3>1. \A a \in Apps : EngineOf(a)' = EngineOf(a)
            BY <2>2, <2>3, <2>4
               DEF ClientStep, Call, Probe, WriteSecret, PipeReady, WaitTimesOut, PipeMissing,
                   OpenTimesOut, WriteRequest, ReadReply, PipeBroken, CallFails, hostVars
        <3>2. /\ (\E c \in Requests : Call(t, c)) => \E c \in Service!Command : Service!Submit(t, c)
              /\ ReadReply(t) => Service!Answer(t)
              /\ WaitTimesOut(t) \/ OpenTimesOut(t) \/ PipeBroken(t) \/ CallFails(t)
                    => Service!GiveUp(t)
              /\ (Probe(t) \/ PipeReady(t) \/ PipeMissing(t) \/ WriteRequest(t) \/ WriteSecret(t)
                    \/ \E h \in Hosts : Launch(t, h) \/ Open(t, h)) => Stutter
            BY <1>2, <3>1, ClientRefines
        <3>3. CASE \E c \in Requests : Call(t, c)
            BY <3>2, <3>3 DEF Service!ServiceNext
        <3>4. CASE ClientStep(t) \/ CallFails(t)
            <4>1. Service!Answer(t) \/ Service!GiveUp(t) \/ Stutter
                BY <3>2, <3>4 DEF ClientStep
            <4>2. Service!ServiceNext \/ Stutter
                BY <4>1 DEF Service!ServiceNext
            <4>3. QED
                BY <2>1, <4>2
        <3>5. QED
            BY <2>4, <3>3, <3>4
    <2>5. ASSUME NEW h \in Hosts, HostStep(h) \/ WatchdogFires(h) \/ Crash(h)
          PROVE  [Service!ServiceNext]_Service!serviceVars
        <3>1. CASE Exit(h)
            <4>1. Service!LoseEngine(home[h]) \/ Stutter
                BY <1>2, <3>1, ExitRefines
            <4>2. home[h] \in Apps
                BY <1>2 DEF TypeOK
            <4>3. QED
                BY <2>1, <4>1, <4>2 DEF Service!ServiceNext
        <3>2. CASE \/ Handle(h) \/ ReadSecret(h) \/ CreateMutex(h) \/ CreatePipe(h)
                   \/ RequestMissing(h) \/ Disconnect(h)
            <4>1. Handle(h) => \E t \in Threads : Service!Perform(t)
                BY <1>2, HostRefines
            <4>2. ReadSecret(h) \/ CreateMutex(h) \/ CreatePipe(h) \/ RequestMissing(h)
                    \/ Disconnect(h) => Stutter
                BY <1>2, HostRefines
            <4>3. Service!ServiceNext \/ Stutter
                BY <3>2, <4>1, <4>2 DEF Service!ServiceNext
            <4>4. QED
                BY <2>1, <4>3
        <3>3. QED
            BY <2>5, <3>1, <3>2
               DEF HostStep, SecretMissing, DuplicateExits, Terminate, WatchdogFires, Crash
    <2>6. CASE (\E a \in Apps : AppDies(a)) \/ \E t \in Threads : Shutdown(t)
        BY <2>1, <2>2, <2>6 DEF AppDies, Shutdown, clientVars, hostVars, Stutter, Stage
    <2>7. CASE UNCHANGED vars
        BY <2>1, <2>2, <2>7 DEF vars, clientVars, hostVars, Stutter, Stage
    <2>8. QED
        BY <1>2, <2>4, <2>5, <2>6, <2>7 DEF Next
<1>3. QED
    BY <1>1, <1>2, TypeCorrect, OneOwnerCorrect, UnansweredCorrect, EndsAgreeCorrect,
       EngineNeedsMutexCorrect, EngineMapCorrect, PTL DEF Spec, ImplementsService, Service!ServiceSpec

-----------------------------------------------------------------------------
(* Why a call is lost.  As long as an application runs and has had no      *)
(* trouble, no host is told to go, a mutex that exists is held by a host   *)
(* that stays, every thread keeps the other end of its pipe, and a thread  *)
(* that waits has a host to wait for.                                      *)
Undisturbed(a) == alive[a] /\ trouble[a] = 0

AskedInv ==
    \A t \in Threads : pc[t] # "idle" /\ command[t].op = "shutdown" => trouble[AppOf[t]] > 0
FarewellInv == \A h \in Hosts : phase[h] = "farewell" => trouble[home[h]] > 0
HolderInv ==
    \A a \in Apps : Undisturbed(a) /\ MutexExists(a) =>
        \E h \in HostsOf(a) : phase[h] \in MutexHolder
LinkedInv ==
    \A t \in Threads : Undisturbed(AppOf[t]) /\ pc[t] \in {"launched", "connected", "sent"} =>
        link[peer[t]] = t
HostedInv ==
    \A t \in Threads : Undisturbed(AppOf[t]) /\ pc[t] \in {"await", "open"} =>
        HostsOf(AppOf[t]) # {}
CauseInv == AskedInv /\ FarewellInv /\ HolderInv /\ LinkedInv /\ HostedInv

LEMMA FailGrows ==
    ASSUME TypeOK, NEW a \in Apps, Fail(a)
    PROVE  /\ trouble'[a] > 0
           /\ \A b \in Apps : trouble'[b] >= trouble[b]
  BY ProcessAssumption DEF TypeOK, Fail

(* Trouble is never taken back, and no application comes back.             *)
LEMMA TroubleGrows ==
    ASSUME TypeOK, [Next]_vars, NEW a \in Apps
    PROVE  trouble'[a] >= trouble[a] /\ (alive'[a] => alive[a])
<1>1. \/ UNCHANGED trouble \/ \E b \in Apps : Fail(b)
    <2>1. ASSUME NEW t \in Threads, NEW c \in Requests, Call(t, c)
          PROVE  UNCHANGED trouble \/ Fail(AppOf[t])
        BY <2>1 DEF Call
    <2>2. ASSUME NEW t \in Threads, ClientStep(t) \/ Shutdown(t) PROVE UNCHANGED trouble
        BY <2>2 DEF ClientStep, Shutdown, Probe, WriteSecret, PipeReady, WaitTimesOut, PipeMissing,
                    OpenTimesOut, WriteRequest, ReadReply, PipeBroken, Launch, Open
    <2>3. ASSUME NEW t \in Threads, CallFails(t) PROVE Fail(AppOf[t])
        BY <2>3 DEF CallFails
    <2>4. ASSUME NEW h \in Hosts, HostStep(h) \/ WatchdogFires(h) PROVE UNCHANGED trouble
        BY <2>4 DEF HostStep, WatchdogFires, ReadSecret, SecretMissing, CreateMutex, DuplicateExits,
                    CreatePipe, Handle, RequestMissing, Disconnect, Terminate, Become
    <2>5. ASSUME NEW h \in Hosts, Crash(h) PROVE Fail(home[h])
        BY <2>5 DEF Crash
    <2>6. \A t \in Threads : AppOf[t] \in Apps
        BY ProcessAssumption
    <2>7. QED
        BY <2>1, <2>2, <2>3, <2>4, <2>5, <2>6 DEF Next, AppDies, vars, TypeOK
<1>2. alive'[a] => alive[a]
    <2>1. CASE UNCHANGED alive
        BY <2>1
    <2>2. ASSUME NEW b \in Apps, AppDies(b) PROVE alive'[a] => alive[a]
        BY <2>2 DEF AppDies, TypeOK
    <2>3. QED
        BY <2>1, <2>2
           DEF Next, vars, Call, ClientStep, Shutdown, Probe, WriteSecret, PipeReady, WaitTimesOut,
               PipeMissing, OpenTimesOut, WriteRequest, ReadReply, PipeBroken, Launch, Open,
               CallFails, HostStep, WatchdogFires, ReadSecret, SecretMissing, CreateMutex,
               DuplicateExits, CreatePipe, Handle, RequestMissing, Disconnect, Terminate, Become,
               Exit, Crash
<1>3. QED
    BY <1>1, <1>2, FailGrows DEF TypeOK

LEMMA DisturbedStays ==
    ASSUME TypeOK, TypeOK', [Next]_vars, NEW a \in Apps
    PROVE  /\ Undisturbed(a)' => Undisturbed(a)
           /\ trouble[a] > 0 => trouble'[a] > 0
<1>1. trouble[a] \in Nat /\ trouble'[a] \in Nat
    BY ProcessAssumption DEF TypeOK
<1>2. QED
    BY <1>1, TroubleGrows DEF Undisturbed

LEMMA AskedKept ==
    ASSUME TypeOK, TypeOK', AskedInv, [Next]_vars
    PROVE  AskedInv'
<1> SUFFICES ASSUME NEW t \in Threads, pc'[t] # "idle", command'[t].op = "shutdown"
             PROVE  trouble'[AppOf[t]] > 0
    BY DEF AskedInv
<1>1. AppOf[t] \in Apps
    BY ProcessAssumption
<1>2. CASE pc[t] # "idle" /\ command'[t] = command[t]
    BY <1>1, <1>2, DisturbedStays DEF AskedInv
<1>3. ASSUME NEW c \in Requests, Call(t, c) PROVE trouble'[AppOf[t]] > 0
    <2>1. c.op = "shutdown"
        BY <1>3 DEF Call, TypeOK
    <2>2. QED
        BY <1>1, <1>3, <2>1, FailGrows DEF Call
<1>4. ASSUME NEW u \in Threads, NEW c \in Requests, Call(u, c), u # t
      PROVE  pc'[t] = pc[t] /\ command'[t] = command[t]
    BY <1>4 DEF Call, TypeOK
<1>5. ASSUME NEW u \in Threads, ClientStep(u) \/ CallFails(u)
      PROVE  pc[t] # "idle" /\ command'[t] = command[t]
    <2>1. UNCHANGED command
        BY <1>5 DEF ClientStep, CallFails, Probe, WriteSecret, PipeReady, WaitTimesOut, PipeMissing,
                    OpenTimesOut, WriteRequest, ReadReply, PipeBroken, Launch, Open, Goto, ReturnLost
    <2>2. CASE u = t
        BY <1>5, <2>1, <2>2
           DEF ClientStep, CallFails, Probe, WriteSecret, PipeReady, WaitTimesOut, PipeMissing,
               OpenTimesOut, WriteRequest, ReadReply, PipeBroken, Launch, Open
    <2>3. CASE u # t
        <3>1. pc'[t] = pc[t]
            BY <1>5, <2>3
               DEF ClientStep, CallFails, Probe, WriteSecret, PipeReady, WaitTimesOut, PipeMissing,
                   OpenTimesOut, WriteRequest, ReadReply, PipeBroken, Launch, Open, Goto, ReturnLost,
                   TypeOK
        <3>2. QED
            BY <2>1, <3>1
    <2>4. QED
        BY <2>2, <2>3
<1>6. ASSUME NEW h \in Hosts, HostStep(h) \/ WatchdogFires(h) \/ Crash(h)
      PROVE  UNCHANGED <<pc, command>>
    BY <1>6 DEF HostStep, WatchdogFires, Crash, ReadSecret, SecretMissing, CreateMutex, DuplicateExits,
                CreatePipe, Handle, RequestMissing, Disconnect, Terminate, Become, Exit, clientVars
<1>7. CASE (\E a \in Apps : AppDies(a)) \/ (\E u \in Threads : Shutdown(u)) \/ UNCHANGED vars
    BY <1>2, <1>7 DEF AppDies, Shutdown, clientVars, vars
<1>8. QED
    BY <1>2, <1>3, <1>4, <1>5, <1>6, <1>7 DEF Next

(* What a host step does to the phases: Exit, Become and Handle.           *)
LEMMA FarewellKept ==
    ASSUME TypeOK, TypeOK', EndsAgree, AskedInv, FarewellInv, [Next]_vars
    PROVE  FarewellInv'
<1> SUFFICES ASSUME NEW h \in Hosts, phase'[h] = "farewell"
             PROVE  trouble'[home'[h]] > 0
    BY DEF FarewellInv
<1>1. home[h] \in Apps
    BY DEF TypeOK
<1>2. CASE phase[h] = "farewell" /\ home'[h] = home[h]
    BY <1>1, <1>2, DisturbedStays DEF FarewellInv
<1>3. CASE UNCHANGED <<phase, home>>
    BY <1>2, <1>3
<1>4. ASSUME NEW t \in Threads, ClientStep(t) \/ CallFails(t)
      PROVE  phase[h] = "farewell" /\ home'[h] = home[h]
    <2>1. ASSUME NEW g \in Hosts, Launch(t, g) \/ Open(t, g)
          PROVE  phase[h] = "farewell" /\ home'[h] = home[h]
        BY <2>1 DEF Launch, Open, TypeOK
    <2>2. QED
        BY <1>4, <2>1
           DEF ClientStep, CallFails, Probe, WriteSecret, PipeReady, WaitTimesOut, PipeMissing,
               OpenTimesOut, WriteRequest, ReadReply, PipeBroken, hostVars
<1>5. ASSUME NEW g \in Hosts, Handle(g) PROVE trouble'[home'[h]] > 0
    <2>1. CASE phase'[h] = phase[h]
        BY <1>2, <1>5, <2>1 DEF Handle
    <2>2. CASE phase'[h] # phase[h]
        <3>1. g = h /\ link[h] \in Threads /\ pc[link[h]] = "sent" /\ UNCHANGED home
              /\ command[link[h]].op = "shutdown"
            BY <1>5, <2>2 DEF Handle, TypeOK
        <3>2. AppOf[link[h]] = home[h]
            BY <3>1, ProcessAssumption DEF EndsAgree
        <3>3. trouble[home[h]] > 0
            BY <3>1, <3>2 DEF AskedInv
        <3>4. QED
            BY <1>1, <3>1, <3>3, DisturbedStays
    <2>3. QED
        BY <2>1, <2>2
<1>6. ASSUME NEW g \in Hosts,
             \/ ReadSecret(g) \/ SecretMissing(g) \/ CreateMutex(g) \/ DuplicateExits(g)
             \/ CreatePipe(g) \/ RequestMissing(g) \/ Disconnect(g) \/ Terminate(g)
             \/ WatchdogFires(g) \/ Crash(g)
      PROVE  phase[h] = "farewell" /\ home'[h] = home[h]
    <2>1. UNCHANGED home /\ \E p \in Phases \ {"farewell"} : phase' = [phase EXCEPT ![g] = p]
        <3>1. CASE ReadSecret(g)
            BY <3>1 DEF ReadSecret, clientVars, Phases
        <3>2. CASE CreateMutex(g) \/ CreatePipe(g) \/ RequestMissing(g) \/ Disconnect(g)
            BY <3>2 DEF CreateMutex, CreatePipe, RequestMissing, Disconnect, Become, Phases
        <3>3. CASE Exit(g)
            BY <3>3 DEF Exit, Phases
        <3>4. QED
            BY <1>6, <3>1, <3>2, <3>3
               DEF SecretMissing, DuplicateExits, Terminate, WatchdogFires, Crash
    <2>2. QED
        BY <2>1 DEF TypeOK
<1>7. CASE \/ \E a \in Apps : AppDies(a)
           \/ \E t \in Threads : Shutdown(t) \/ \E c \in Requests : Call(t, c)
           \/ UNCHANGED vars
    BY <1>3, <1>7 DEF AppDies, Shutdown, Call, hostVars, vars
<1>8. QED
    BY <1>2, <1>4, <1>5, <1>6, <1>7 DEF Next, HostStep

(* A host that leaves an application which is not disturbed is one that    *)
(* was not the first to create the mutex.                                  *)
LEMMA QuietExit ==
    ASSUME TypeOK, FarewellInv, NEW h \in Hosts,
           SecretMissing(h) \/ DuplicateExits(h) \/ Terminate(h) \/ WatchdogFires(h) \/ Crash(h)
    PROVE  /\ Exit(h)
           /\ DuplicateExits(h) \/ ~Undisturbed(home[h])' \/ ~Undisturbed(home[h])
<1>1. home[h] \in Apps
    BY DEF TypeOK
<1>2. CASE SecretMissing(h) \/ WatchdogFires(h)
    BY <1>2 DEF SecretMissing, WatchdogFires, Undisturbed
<1>3. CASE Terminate(h)
    BY <1>3 DEF Terminate, FarewellInv, Undisturbed
<1>4. CASE Crash(h)
    <2>1. trouble'[home[h]] > 0 /\ Exit(h)
        BY <1>1, <1>4, FailGrows DEF Crash
    <2>2. home'[h] = home[h]
        BY <2>1 DEF Exit
    <2>3. QED
        BY <2>1, <2>2 DEF Undisturbed
<1>5. CASE DuplicateExits(h)
    BY <1>5 DEF DuplicateExits
<1>6. QED
    BY <1>2, <1>3, <1>4, <1>5

(* Which hosts an application has only changes with Launch and Exit.       *)
LEMMA HostsKept ==
    ASSUME TypeOK, UNCHANGED home, NEW a \in Apps,
           \A h \in Hosts : phase[h] # "none" => phase'[h] # "none"
    PROVE  HostsOf(a) \subseteq HostsOf(a)'
  BY DEF HostsOf

HolderKeptBy(a) ==
    (\E h \in HostsOf(a) : phase[h] \in MutexHolder)
        => (\E h \in HostsOf(a)' : phase'[h] \in MutexHolder)

LEMMA HolderKept ==
    ASSUME TypeOK, TypeOK', EndsAgree, FarewellInv, HolderInv, [Next]_vars
    PROVE  HolderInv'
<1> SUFFICES ASSUME NEW a \in Apps, Undisturbed(a)', MutexExists(a)'
             PROVE  \E h \in HostsOf(a)' : phase'[h] \in MutexHolder
    BY DEF HolderInv
<1>1. Undisturbed(a)
    BY DisturbedStays
<1>2. CASE HolderKeptBy(a) /\ MutexExists(a)
    BY <1>1, <1>2 DEF HolderInv, HolderKeptBy
<1>3. CASE UNCHANGED <<phase, home>>
    BY <1>1, <1>3 DEF HolderInv, MutexExists, HostsOf
<1>4. ASSUME NEW t \in Threads, ClientStep(t) \/ CallFails(t)
      PROVE  HolderKeptBy(a) /\ MutexExists(a)
    <2>1. CASE UNCHANGED <<phase, home>>
        BY <2>1 DEF HolderKeptBy, MutexExists, HostsOf
    <2>2. ASSUME NEW h \in Hosts, Launch(t, h) \/ Open(t, h)
          PROVE  \A g \in Hosts :
                    \/ phase'[g] = phase[g] /\ home'[g] = home[g]
                    \/ phase[g] = "none" /\ phase'[g] = "starting"
                    \/ phase[g] = "listening" /\ phase'[g] = "connected" /\ home'[g] = home[g]
        BY <2>2 DEF Launch, Open, TypeOK
    <2>3. ASSUME NEW h \in Hosts, Launch(t, h) \/ Open(t, h)
          PROVE  HolderKeptBy(a) /\ MutexExists(a)
        BY <2>2, <2>3 DEF HolderKeptBy, MutexExists, HostsOf, MutexHolder
    <2>4. QED
        BY <1>4, <2>1, <2>3
           DEF ClientStep, CallFails, Probe, WriteSecret, PipeReady, WaitTimesOut, PipeMissing,
               OpenTimesOut, WriteRequest, ReadReply, PipeBroken, hostVars
<1>5. ASSUME NEW h \in Hosts, UNCHANGED home, NEW p \in Phases,
             phase' = [phase EXCEPT ![h] = p],
             \/ phase[h] \in MutexHolder /\ p \in MutexHolder
             \/ p \notin MutexHolder \cup {"duplicate"} /\ phase[h] \notin MutexHolder
      PROVE  HolderKeptBy(a) /\ MutexExists(a)
    <2>1. /\ \A g \in Hosts : phase[g] \in MutexHolder <=> phase'[g] \in MutexHolder
          /\ \A g \in Hosts : phase'[g] = "duplicate" => phase[g] = "duplicate"
        BY <1>5 DEF TypeOK, MutexHolder
    <2>2. QED
        BY <1>5, <2>1 DEF HolderKeptBy, MutexExists, HostsOf, MutexHolder
<1>6. ASSUME NEW h \in Hosts, ReadSecret(h) \/ CreatePipe(h) \/ Handle(h) \/ RequestMissing(h) \/ Disconnect(h)
      PROVE  HolderKeptBy(a) /\ MutexExists(a)
    <2>1. UNCHANGED home
        BY <1>6 DEF ReadSecret, CreatePipe, Handle, RequestMissing, Disconnect, Become
    <2>2. CASE ReadSecret(h)
        BY <1>5, <2>1, <2>2 DEF ReadSecret, Phases, MutexHolder
    <2>3. CASE CreatePipe(h) \/ RequestMissing(h) \/ Disconnect(h)
        BY <1>5, <2>1, <2>3 DEF CreatePipe, RequestMissing, Disconnect, Become, Phases, MutexHolder
    <2>4. CASE Handle(h)
        BY <1>5, <2>1, <2>4 DEF Handle, Phases, MutexHolder
    <2>5. QED
        BY <1>6, <2>2, <2>3, <2>4
<1>7. ASSUME NEW h \in Hosts, CreateMutex(h)
      PROVE  \E g \in HostsOf(a)' : phase'[g] \in MutexHolder
    <2>1. /\ phase[h] = "secured" /\ UNCHANGED home
          /\ phase' = [phase EXCEPT ![h] = IF MutexExists(home[h]) THEN "duplicate" ELSE "owner"]
        BY <1>7 DEF CreateMutex, Become
    <2>2. CASE MutexExists(a)
        <3>1. PICK g \in HostsOf(a) : phase[g] \in MutexHolder
            BY <1>1, <2>2 DEF HolderInv
        <3>2. g # h /\ phase'[g] = phase[g]
            BY <2>1, <3>1 DEF TypeOK, HostsOf, MutexHolder
        <3>3. QED
            BY <2>1, <3>1, <3>2 DEF HostsOf, MutexHolder
    <2>3. CASE ~MutexExists(a) /\ home[h] = a
        <3>1. phase'[h] = "owner" /\ home'[h] = a
            BY <2>1, <2>3 DEF TypeOK
        <3>2. QED
            BY <3>1 DEF HostsOf, MutexHolder
    <2>4. CASE ~MutexExists(a) /\ home[h] # a
        <3>1. \A g \in HostsOf(a)' : g \in HostsOf(a) /\ phase'[g] = phase[g]
            BY <2>1, <2>4 DEF TypeOK, HostsOf
        <3>2. QED
            BY <2>4, <3>1 DEF MutexExists
    <2>5. QED
        BY <2>2, <2>3, <2>4
<1>8. ASSUME NEW h \in Hosts,
             SecretMissing(h) \/ DuplicateExits(h) \/ Terminate(h) \/ WatchdogFires(h) \/ Crash(h)
      PROVE  HolderKeptBy(a) /\ MutexExists(a)
    <2>1. Exit(h) /\ (DuplicateExits(h) \/ home[h] # a)
        <3>1. Exit(h) /\ (DuplicateExits(h) \/ ~Undisturbed(home[h])' \/ ~Undisturbed(home[h]))
            BY <1>8, QuietExit
        <3>2. home'[h] = home[h]
            BY <3>1 DEF Exit
        <3>3. QED
            BY <1>1, <3>1, <3>2
    <2>2. UNCHANGED home /\ phase' = [phase EXCEPT ![h] = "none"]
        BY <2>1 DEF Exit
    <2>3. phase[h] \notin MutexHolder \/ home[h] # a
        BY <2>1 DEF DuplicateExits, MutexHolder
    <2>4. QED
        BY <2>2, <2>3 DEF HolderKeptBy, MutexExists, HostsOf, MutexHolder, TypeOK
<1>9. CASE \/ \E b \in Apps : AppDies(b)
           \/ \E t \in Threads : Shutdown(t) \/ \E c \in Requests : Call(t, c)
           \/ UNCHANGED vars
    BY <1>3, <1>9 DEF AppDies, Shutdown, Call, hostVars, vars
<1>10. QED
    BY <1>2, <1>4, <1>6, <1>7, <1>8, <1>9 DEF Next, HostStep

(* What moves a thread, and what loses its call.                           *)
LEMMA PcSteps ==
    ASSUME TypeOK, [Next]_vars, NEW t \in Threads
    PROVE  \/ pc'[t] = pc[t]
           \/ \E c \in Requests : Call(t, c)
           \/ ClientStep(t) \/ CallFails(t)
<1>1. ASSUME NEW u \in Threads, u # t, ClientStep(u) \/ CallFails(u)
      PROVE  pc'[t] = pc[t]
    <2>1. CASE \/ Probe(u) \/ PipeReady(u) \/ PipeMissing(u) \/ WriteRequest(u)
        BY <1>1, <2>1 DEF Probe, PipeReady, PipeMissing, WriteRequest, Goto, TypeOK
    <2>2. CASE WaitTimesOut(u) \/ OpenTimesOut(u) \/ PipeBroken(u) \/ CallFails(u)
        BY <1>1, <2>2 DEF WaitTimesOut, OpenTimesOut, PipeBroken, CallFails, ReturnLost, TypeOK
    <2>3. CASE WriteSecret(u) \/ ReadReply(u) \/ \E h \in Hosts : Launch(u, h) \/ Open(u, h)
        BY <1>1, <2>3 DEF WriteSecret, ReadReply, Launch, Open, TypeOK
    <2>4. QED
        BY <1>1, <2>1, <2>2, <2>3 DEF ClientStep
<1>2. ASSUME NEW u \in Threads, u # t, NEW c \in Requests, Call(u, c)
      PROVE  pc'[t] = pc[t]
    BY <1>2 DEF Call, TypeOK
<1>3. ASSUME NEW h \in Hosts, HostStep(h) \/ WatchdogFires(h) \/ Crash(h)
      PROVE  UNCHANGED pc
    BY <1>3 DEF HostStep, WatchdogFires, Crash, ReadSecret, SecretMissing, CreateMutex, DuplicateExits,
                CreatePipe, Handle, RequestMissing, Disconnect, Terminate, Become, Exit, clientVars
<1>4. CASE (\E a \in Apps : AppDies(a)) \/ (\E u \in Threads : Shutdown(u)) \/ UNCHANGED vars
    BY <1>4 DEF AppDies, Shutdown, clientVars, vars
<1>5. QED
    BY <1>1, <1>2, <1>3, <1>4 DEF Next

LEMMA ResultSteps ==
    ASSUME TypeOK, [Next]_vars, NEW t \in Threads, result[t] # "lost", result'[t] = "lost"
    PROVE  \/ WaitTimesOut(t) /\ alive[AppOf[t]]
           \/ OpenTimesOut(t) /\ alive[AppOf[t]]
           \/ PipeBroken(t) /\ alive[AppOf[t]]
           \/ CallFails(t)
<1>1. ASSUME NEW u \in Threads, u # t, ClientStep(u) \/ CallFails(u)
      PROVE  FALSE
    <2>1. CASE \/ Probe(u) \/ PipeReady(u) \/ PipeMissing(u) \/ WriteRequest(u)
        BY <1>1, <2>1 DEF Probe, PipeReady, PipeMissing, WriteRequest, Goto, TypeOK
    <2>2. CASE WaitTimesOut(u) \/ OpenTimesOut(u) \/ PipeBroken(u) \/ CallFails(u)
        BY <1>1, <2>2 DEF WaitTimesOut, OpenTimesOut, PipeBroken, CallFails, ReturnLost, TypeOK
    <2>3. CASE WriteSecret(u) \/ ReadReply(u) \/ \E h \in Hosts : Launch(u, h) \/ Open(u, h)
        BY <1>1, <2>3 DEF WriteSecret, ReadReply, Launch, Open, TypeOK
    <2>4. QED
        BY <1>1, <2>1, <2>2, <2>3 DEF ClientStep
<1>2. ASSUME NEW u \in Threads, NEW c \in Requests, Call(u, c)
      PROVE  FALSE
    BY <1>2 DEF Call, TypeOK
<1>3. ASSUME NEW h \in Hosts, HostStep(h) \/ WatchdogFires(h) \/ Crash(h)
      PROVE  UNCHANGED result
    BY <1>3 DEF HostStep, WatchdogFires, Crash, ReadSecret, SecretMissing, CreateMutex, DuplicateExits,
                CreatePipe, Handle, RequestMissing, Disconnect, Terminate, Become, Exit, clientVars
<1>4. CASE (\E a \in Apps : AppDies(a)) \/ (\E u \in Threads : Shutdown(u)) \/ UNCHANGED vars
    BY <1>4 DEF AppDies, Shutdown, clientVars, vars
<1>5. CASE \/ Probe(t) \/ PipeReady(t) \/ PipeMissing(t) \/ WriteRequest(t)
           \/ WriteSecret(t) \/ ReadReply(t) \/ \E h \in Hosts : Launch(t, h) \/ Open(t, h)
    BY <1>5 DEF Probe, PipeReady, PipeMissing, WriteRequest, WriteSecret, ReadReply, Launch, Open, Goto,
                TypeOK
<1>6. QED
    BY <1>1, <1>2, <1>3, <1>4, <1>5 DEF Next, ClientStep

LEMMA NoLink ==
    ASSUME EndsAgree, NEW h \in Hosts, phase[h] \in {"none", "listening", "duplicate"}
    PROVE  link[h] = NoThread
  BY DEF EndsAgree

LEMMA LinkedKept ==
    ASSUME TypeOK, TypeOK', EndsAgree, FarewellInv, LinkedInv, [Next]_vars
    PROVE  LinkedInv'
<1> SUFFICES ASSUME NEW t \in Threads, Undisturbed(AppOf[t])',
                    pc'[t] \in {"launched", "connected", "sent"}
             PROVE  link'[peer'[t]] = t
    BY DEF LinkedInv
<1>1. AppOf[t] \in Apps /\ t # NoThread
    BY ProcessAssumption
<1>2. Undisturbed(AppOf[t])
    BY <1>1, DisturbedStays
<1> DEFINE Before == pc[t] \in {"launched", "connected", "sent"} /\ peer'[t] = peer[t]
<1>3. ASSUME Before PROVE link[peer[t]] = t /\ peer[t] \in Hosts /\ home[peer[t]] = AppOf[t]
    <2>1. link[peer[t]] = t /\ peer[t] \in Hosts
        BY <1>2, <1>3 DEF LinkedInv, TypeOK
    <2>2. QED
        BY <1>1, <2>1 DEF EndsAgree
<1> HIDE DEF Before
<1>4. CASE Before /\ link' = link
    BY <1>3, <1>4 DEF Before
<1>5. ASSUME NEW h \in Hosts, NEW u \in Threads \cup {NoThread}, Before,
             link' = [link EXCEPT ![h] = u], link[h] # t
      PROVE  link'[peer'[t]] = t
    BY <1>3, <1>5 DEF Before, TypeOK
<1>6. ASSUME NEW u \in Threads, u # t, ClientStep(u) \/ CallFails(u)
      PROVE  link'[peer'[t]] = t
    <2>1. Before
        <3>1. pc'[t] = pc[t] /\ peer'[t] = peer[t]
            <4>1. CASE \/ Probe(u) \/ PipeReady(u) \/ PipeMissing(u) \/ WriteRequest(u)
                BY <1>6, <4>1 DEF Probe, PipeReady, PipeMissing, WriteRequest, Goto, TypeOK
            <4>2. CASE WaitTimesOut(u) \/ OpenTimesOut(u) \/ PipeBroken(u) \/ CallFails(u)
                BY <1>6, <4>2
                   DEF WaitTimesOut, OpenTimesOut, PipeBroken, CallFails, ReturnLost, TypeOK
            <4>3. CASE WriteSecret(u) \/ ReadReply(u) \/ \E h \in Hosts : Launch(u, h) \/ Open(u, h)
                BY <1>6, <4>3 DEF WriteSecret, ReadReply, Launch, Open, TypeOK
            <4>4. QED
                BY <1>6, <4>1, <4>2, <4>3 DEF ClientStep
        <3>2. QED
            BY <3>1 DEF Before
    <2>2. ASSUME NEW h \in Hosts, Launch(u, h) \/ Open(u, h) PROVE link'[peer'[t]] = t
        <3>1. link[h] = NoThread /\ link' = [link EXCEPT ![h] = u]
            BY <2>2, NoLink DEF Launch, Open
        <3>2. QED
            BY <1>1, <1>5, <2>1, <3>1
    <2>3. CASE WriteSecret(u) \/ ReadReply(u)
        <3>1. /\ link[peer[u]] = u /\ peer[u] \in Hosts
              /\ link' = [link EXCEPT ![peer[u]] = NoThread]
            BY <2>3 DEF WriteSecret, ReadReply, TypeOK
        <3>2. QED
            BY <1>5, <1>6, <2>1, <3>1
    <2>4. QED
        BY <1>4, <1>6, <2>1, <2>2, <2>3
           DEF ClientStep, CallFails, Probe, PipeReady, WaitTimesOut, PipeMissing, OpenTimesOut,
               WriteRequest, PipeBroken, hostVars
<1>7. CASE ClientStep(t) \/ CallFails(t)
    <2>1. ASSUME NEW h \in Hosts, Launch(t, h) \/ Open(t, h) PROVE link'[peer'[t]] = t
        BY <2>1 DEF Launch, Open, TypeOK
    <2>2. CASE WriteRequest(t)
        BY <1>4, <2>2 DEF WriteRequest, Goto, hostVars, Before
    <2>3. CASE \/ WaitTimesOut(t) \/ OpenTimesOut(t) \/ PipeBroken(t) \/ CallFails(t)
               \/ Probe(t) \/ WriteSecret(t) \/ PipeReady(t) \/ PipeMissing(t) \/ ReadReply(t)
        <3>1. pc'[t] \in {"idle", "open", "await", "launch", "probe"}
            BY <2>3 DEF WaitTimesOut, OpenTimesOut, PipeBroken, CallFails, Probe, WriteSecret,
                        PipeReady, PipeMissing, ReadReply, Goto, ReturnLost, TypeOK
        <3>2. QED
            BY <3>1
    <2>4. QED
        BY <1>7, <2>1, <2>2, <2>3 DEF ClientStep
<1>8. ASSUME NEW u \in Threads, NEW c \in Requests, Call(u, c) PROVE link'[peer'[t]] = t
    <2>1. u # t /\ Before
        BY <1>8 DEF Call, TypeOK, Before
    <2>2. QED
        BY <1>4, <1>8, <2>1 DEF Call, hostVars
<1>9. ASSUME NEW h \in Hosts, UNCHANGED clientVars, h = peer[t] => FALSE,
             \/ link' = link \/ link' = [link EXCEPT ![h] = NoThread]
      PROVE  link'[peer'[t]] = t
    <2>1. Before
        BY <1>9 DEF clientVars, Before
    <2>2. QED
        BY <1>3, <1>9, <2>1 DEF Before, TypeOK
<1>10. ASSUME NEW h \in Hosts,
              SecretMissing(h) \/ DuplicateExits(h) \/ Terminate(h) \/ WatchdogFires(h) \/ Crash(h)
       PROVE  link'[peer'[t]] = t
    <2>1. Exit(h) /\ (DuplicateExits(h) \/ ~Undisturbed(home[h])' \/ ~Undisturbed(home[h]))
        BY <1>10, QuietExit
    <2>2. home'[h] = home[h] /\ UNCHANGED clientVars /\ link' = [link EXCEPT ![h] = NoThread]
        BY <2>1 DEF Exit
    <2>3. Before
        BY <2>2 DEF clientVars, Before
    <2>4. ASSUME h = peer[t] PROVE FALSE
        <3>1. link[h] = t /\ home[h] = AppOf[t]
            BY <1>3, <2>3, <2>4
        <3>2. DuplicateExits(h)
            BY <1>2, <2>1, <2>2, <3>1
        <3>3. QED
            BY <1>1, <3>1, <3>2, NoLink DEF DuplicateExits
    <2>5. QED
        BY <1>9, <2>2, <2>4
<1>11. ASSUME NEW h \in Hosts, RequestMissing(h) \/ Disconnect(h) PROVE link'[peer'[t]] = t
    <2>1. /\ UNCHANGED <<clientVars, alive>> /\ link' = [link EXCEPT ![h] = NoThread]
          /\ link[h] = NoThread \/ ~alive[home[h]]
        BY <1>11 DEF RequestMissing, Disconnect, Become, Flushed
    <2>2. Before
        BY <2>1 DEF clientVars, Before
    <2>3. ASSUME h = peer[t] PROVE FALSE
        BY <1>1, <1>2, <1>3, <2>1, <2>2, <2>3 DEF Undisturbed
    <2>4. QED
        BY <1>9, <2>1, <2>3
<1>12. ASSUME NEW h \in Hosts, ReadSecret(h) \/ CreateMutex(h) \/ CreatePipe(h) \/ Handle(h)
       PROVE  link'[peer'[t]] = t
    BY <1>4, <1>12 DEF ReadSecret, CreateMutex, CreatePipe, Handle, Become, clientVars, Before
<1>13. CASE (\E a \in Apps : AppDies(a)) \/ (\E u \in Threads : Shutdown(u)) \/ UNCHANGED vars
    BY <1>4, <1>13 DEF AppDies, Shutdown, clientVars, hostVars, vars, Before
<1>14. QED
    BY <1>6, <1>7, <1>8, <1>10, <1>11, <1>12, <1>13 DEF Next, HostStep

LEMMA HostedKept ==
    ASSUME TypeOK, TypeOK', EndsAgree, FarewellInv, HolderInv, HostedInv, [Next]_vars
    PROVE  HostedInv'
<1> SUFFICES ASSUME NEW t \in Threads, Undisturbed(AppOf[t])', pc'[t] \in {"await", "open"}
             PROVE  HostsOf(AppOf[t])' # {}
    BY DEF HostedInv
<1> DEFINE a == AppOf[t]
<1>1. a \in Apps
    BY ProcessAssumption
<1>2. Undisturbed(a)
    BY <1>1, DisturbedStays
<1>3. CASE pc'[t] = pc[t] /\ HostsOf(a) \subseteq HostsOf(a)'
    BY <1>2, <1>3 DEF HostedInv
<1>4. CASE UNCHANGED <<phase, home>>
    <2>1. HostsOf(a)' = HostsOf(a)
        BY <1>4 DEF HostsOf
    <2>2. CASE pc'[t] = pc[t]
        BY <1>3, <2>1, <2>2
    <2>3. ASSUME NEW c \in Requests, Call(t, c) PROVE FALSE
        <3>1. Fail(a)
            BY <2>3 DEF Call, TypeOK
        <3>2. QED
            BY <1>1, <3>1, FailGrows DEF Undisturbed
    <2>4. CASE Probe(t) \/ PipeReady(t)
        <3>1. pc'[t] # "launch"
            OBVIOUS
        <3>2. PipeExists(a) \/ PipeListening(a)
            BY <2>4, <3>1 DEF Probe, PipeReady, Goto, TypeOK
        <3>3. HostsOf(a) # {}
            BY <3>2 DEF PipeExists, PipeListening
        <3>4. QED
            BY <2>1, <3>3
    <2>5. CASE WriteSecret(t)
        <3>1. peer[t] \in Hosts /\ link[peer[t]] = t
            BY <2>5 DEF WriteSecret, TypeOK
        <3>2. home[peer[t]] = a /\ phase[peer[t]] # "none"
            BY <3>1, ProcessAssumption DEF EndsAgree
        <3>3. QED
            BY <2>1, <3>1, <3>2 DEF HostsOf
    <2>6. CASE \/ WaitTimesOut(t) \/ OpenTimesOut(t) \/ PipeBroken(t) \/ CallFails(t)
               \/ PipeMissing(t) \/ ReadReply(t) \/ WriteRequest(t)
        BY <2>6 DEF WaitTimesOut, OpenTimesOut, PipeBroken, CallFails, PipeMissing, ReadReply,
                    WriteRequest, Goto, ReturnLost, TypeOK
    <2>7. ASSUME NEW h \in Hosts, Launch(t, h) \/ Open(t, h) PROVE FALSE
        BY <2>7 DEF Launch, Open, TypeOK
    <2>8. QED
        BY <2>2, <2>3, <2>4, <2>5, <2>6, <2>7, PcSteps DEF ClientStep
<1>5. ASSUME NEW u \in Threads, NEW h \in Hosts, Launch(u, h) \/ Open(u, h)
      PROVE  HostsOf(a)' # {}
    <2>1. u # t
        BY <1>5 DEF Launch, Open, TypeOK
    <2>2. pc'[t] = pc[t] /\ \A g \in HostsOf(a) : g \in HostsOf(a)'
        BY <1>5, <2>1 DEF Launch, Open, TypeOK, HostsOf
    <2>3. QED
        BY <1>3, <2>2
<1>6. ASSUME NEW h \in Hosts,
             SecretMissing(h) \/ DuplicateExits(h) \/ Terminate(h) \/ WatchdogFires(h) \/ Crash(h)
      PROVE  HostsOf(a)' # {}
    <2>1. Exit(h) /\ (DuplicateExits(h) \/ ~Undisturbed(home[h])' \/ ~Undisturbed(home[h]))
        BY <1>6, QuietExit
    <2>2. /\ UNCHANGED <<home, pc>>
          /\ \A g \in Hosts \ {h} : phase'[g] = phase[g]
        BY <2>1 DEF Exit, clientVars, TypeOK
    <2>3. CASE home[h] # a
        <3>1. HostsOf(a) \subseteq HostsOf(a)'
            BY <2>2, <2>3 DEF HostsOf
        <3>2. QED
            BY <1>3, <2>2, <3>1
    <2>4. CASE home[h] = a
        <3>1. DuplicateExits(h)
            BY <1>2, <2>1, <2>2, <2>4
        <3>2. phase[h] = "duplicate"
            BY <3>1 DEF DuplicateExits
        <3>3. MutexExists(a)
            BY <2>4, <3>2 DEF MutexExists, HostsOf
        <3>4. PICK g \in HostsOf(a) : phase[g] \in MutexHolder
            BY <1>1, <1>2, <3>3 DEF HolderInv
        <3>5. g \in HostsOf(a)'
            BY <2>2, <3>2, <3>4 DEF HostsOf, MutexHolder
        <3>6. QED
            BY <3>5
    <2>5. QED
        BY <2>3, <2>4
<1>7. ASSUME NEW h \in Hosts,
             \/ ReadSecret(h) \/ CreateMutex(h) \/ CreatePipe(h) \/ Handle(h)
             \/ RequestMissing(h) \/ Disconnect(h)
      PROVE  HostsOf(a)' # {}
    <2>1. /\ UNCHANGED <<home, pc>>
          /\ \E p \in Phases \ {"none"} : phase' = [phase EXCEPT ![h] = p]
        BY <1>7 DEF ReadSecret, CreateMutex, CreatePipe, Handle, RequestMissing, Disconnect, Become,
                    clientVars, Phases
    <2>2. HostsOf(a) \subseteq HostsOf(a)'
        BY <2>1, HostsKept, <1>1 DEF TypeOK
    <2>3. QED
        BY <1>3, <2>1, <2>2
<1>8. ASSUME NEW u \in Threads,
             \/ \E c \in Requests : Call(u, c)
             \/ Shutdown(u)
             \/ CallFails(u)
             \/ ClientStep(u) /\ ~\E h \in Hosts : Launch(u, h) \/ Open(u, h)
      PROVE  UNCHANGED <<phase, home>>
    BY <1>8 DEF Call, Shutdown, ClientStep, CallFails, Probe, WriteSecret, PipeReady, WaitTimesOut,
                PipeMissing, OpenTimesOut, WriteRequest, ReadReply, PipeBroken, hostVars
<1>9. CASE (\E b \in Apps : AppDies(b)) \/ UNCHANGED vars
    BY <1>4, <1>9 DEF AppDies, hostVars, vars
<1>10. QED
    BY <1>4, <1>5, <1>6, <1>7, <1>8, <1>9 DEF Next, HostStep, ClientStep

(* A thread that waits long enough loses a call only with a cause: the     *)
(* gap between two instances of the pipe and a second host of the same     *)
(* application are waited out (rime_core_client.cpp, EnsureHostRunning     *)
(* and SendRequest; main.cpp, RunCoreHost).                                *)
THEOREM LostHasCauseCorrect == Spec => []LostHasCause
<1>1. Init => CauseInv /\ LostHasCause
    <2> SUFFICES ASSUME Init PROVE CauseInv /\ LostHasCause
        OBVIOUS
    <2>1. AskedInv /\ LinkedInv /\ HostedInv /\ LostHasCause
        BY ProcessAssumption DEF Init, AskedInv, LinkedInv, HostedInv, LostHasCause
    <2>2. \A a \in Apps : HostsOf(a) = {}
        BY DEF Init, HostsOf
    <2>3. FarewellInv /\ HolderInv
        BY <2>2 DEF Init, FarewellInv, HolderInv, MutexExists
    <2>4. QED
        BY <2>1, <2>3 DEF CauseInv
<1>2. TypeOK /\ TypeOK' /\ EndsAgree /\ CauseInv /\ [Next]_vars => CauseInv'
    BY AskedKept, FarewellKept, HolderKept, LinkedKept, HostedKept DEF CauseInv
<1>3. TypeOK /\ TypeOK' /\ CauseInv /\ LostHasCause /\ [Next]_vars => LostHasCause'
    <2> SUFFICES ASSUME TypeOK, TypeOK', CauseInv, LostHasCause, [Next]_vars,
                        NEW t \in Patient, result'[t] = "lost"
                 PROVE  trouble'[AppOf[t]] > 0
        BY DEF LostHasCause
    <2>1. t \in Threads /\ AppOf[t] \in Apps
        BY ProcessAssumption
    <2>2. trouble[AppOf[t]] > 0 => trouble'[AppOf[t]] > 0
        BY <2>1, DisturbedStays
    <2>3. CASE result[t] = "lost"
        BY <2>2, <2>3 DEF LostHasCause
    <2>4. ASSUME result[t] # "lost"
          PROVE  \/ WaitTimesOut(t) /\ alive[AppOf[t]]
                 \/ OpenTimesOut(t) /\ alive[AppOf[t]]
                 \/ PipeBroken(t) /\ alive[AppOf[t]]
                 \/ CallFails(t)
        BY <2>1, <2>4, ResultSteps
    <2>5. CASE CallFails(t)
        BY <2>1, <2>5, FailGrows DEF CallFails
    <2>6. CASE (WaitTimesOut(t) \/ OpenTimesOut(t)) /\ alive[AppOf[t]]
        <3>1. HostsOf(AppOf[t]) = {} /\ pc[t] \in {"await", "open"}
            BY <2>6 DEF WaitTimesOut, OpenTimesOut, MayTimeOut
        <3>2. trouble[AppOf[t]] # 0
            BY <2>1, <2>6, <3>1 DEF CauseInv, HostedInv, Undisturbed
        <3>3. trouble[AppOf[t]] \in Nat
            BY <2>1, ProcessAssumption DEF TypeOK
        <3>4. QED
            BY <2>2, <3>2, <3>3
    <2>7. CASE PipeBroken(t) /\ alive[AppOf[t]]
        <3>1. trouble[AppOf[t]] # 0
            BY <2>1, <2>7 DEF PipeBroken, CauseInv, LinkedInv, Undisturbed
        <3>2. trouble[AppOf[t]] \in Nat
            BY <2>1, ProcessAssumption DEF TypeOK
        <3>3. QED
            BY <2>2, <3>1, <3>2
    <2>8. QED
        BY <2>3, <2>4, <2>5, <2>6, <2>7
<1>4. QED
    BY <1>1, <1>2, <1>3, TypeCorrect, EndsAgreeCorrect, PTL DEF Spec
=============================================================================
