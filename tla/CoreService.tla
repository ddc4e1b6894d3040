---------------------------- MODULE CoreService -----------------------------
(***************************************************************************)
(* What RimeCoreClient promises the text service that calls it, whatever   *)
(* happens to the CoreHost processes behind it: a call is performed at     *)
(* most once, between its start and its return, on one engine per          *)
(* application; a caller that is told "ok" has had exactly that command    *)
(* performed; a caller that is told nothing ("lost") does not know; and    *)
(* the engine, with every option set on it, may be lost between any two    *)
(* commands.                                                               *)
(***************************************************************************)
EXTENDS CoreCommands

CONSTANTS
    Apps,     \* application processes that have loaded the text service
    Threads,  \* threads that hold a RimeCoreClient
    AppOf     \* the process each thread belongs to

VARIABLES
    engine,   \* engine[a]: the engine application a is using
    stage,    \* stage[t]: where the call of t stands
    command,  \* command[t]: the command of that call
    reply,    \* reply[t]: what performing it answered
    result    \* result[t]: what the call has returned to its caller

serviceVars == <<engine, stage, command, reply, result>>

Results == {"none", "ok", "refused", "lost"}

ServiceInit ==
    /\ engine = [a \in Apps |-> NoEngine]
    /\ stage = [t \in Threads |-> "idle"]
    /\ command \in [Threads -> Command]
    /\ reply = [t \in Threads |-> NoReply]
    /\ result = [t \in Threads |-> "none"]

Submit(t, c) ==
    /\ stage[t] = "idle"
    /\ stage' = [stage EXCEPT ![t] = "called"]
    /\ command' = [command EXCEPT ![t] = c]
    /\ reply' = [reply EXCEPT ![t] = NoReply]
    /\ result' = [result EXCEPT ![t] = "none"]
    /\ UNCHANGED engine

Perform(t) ==
    /\ stage[t] = "called"
    /\ \E o \in Outcomes(command[t], engine[AppOf[t]]) :
          /\ engine' = [engine EXCEPT ![AppOf[t]] = o.engine]
          /\ reply' = [reply EXCEPT ![t] = o.reply]
    /\ stage' = [stage EXCEPT ![t] = "performed"]
    /\ UNCHANGED <<command, result>>

Answer(t) ==
    /\ stage[t] = "performed"
    /\ stage' = [stage EXCEPT ![t] = "idle"]
    /\ result' = [result EXCEPT ![t] = IF reply[t].ok THEN "ok" ELSE "refused"]
    /\ UNCHANGED <<engine, command, reply>>

GiveUp(t) ==
    /\ stage[t] # "idle"
    /\ stage' = [stage EXCEPT ![t] = "idle"]
    /\ result' = [result EXCEPT ![t] = "lost"]
    /\ UNCHANGED <<engine, command, reply>>

LoseEngine(a) ==
    /\ engine' = [engine EXCEPT ![a] = NoEngine]
    /\ UNCHANGED <<stage, command, reply, result>>

ServiceNext ==
    \/ \E t \in Threads :
          \/ \E c \in Command : Submit(t, c)
          \/ Perform(t)
          \/ Answer(t)
          \/ GiveUp(t)
    \/ \E a \in Apps : LoseEngine(a)

ServiceSpec == ServiceInit /\ [][ServiceNext]_serviceVars
=============================================================================
