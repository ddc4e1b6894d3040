----------------------------- MODULE RimeDeploy -----------------------------
(***************************************************************************)
(* How the processes that hold a RimeEngine (a CoreHost for every          *)
(* application, and the installer's warm-up) share one Rime user folder:   *)
(* the managed configuration files, a staging folder with a signature and  *)
(* a build for every input scheme, and the named mutex                     *)
(* Local\FluentPinyinRimeDeploy.  RimeEngine::Initialize writes the files  *)
(* from the settings, decides from the signature whether to deploy, takes  *)
(* the mutex, and only then signs and builds.                              *)
(*                                                                         *)
(* The shared data that the product ships does not change here:            *)
(* HasFreshRimeBuildCache accepts a signature of other shared data or of   *)
(* another version as long as it names the same selection.                 *)
(***************************************************************************)
EXTENDS Naturals, FiniteSets

CONSTANTS
    Procs,       \* the processes
    Keys,        \* InputSchemaSelection::cache_key, a staging folder for each
    Pinyin,      \* the key of the folder build/, which holds the others
    Configs,     \* the fingerprinted settings, records with a field key
    Extras,      \* what the files depend on and the fingerprint leaves out
    None,        \* no file, no signature, no build, no process
    MaxEdits,    \* bound: changes of the settings
    MaxTrouble   \* bound: crashes, failed deployments and lock timeouts

ASSUME DeployAssumption ==
    /\ Pinyin \in Keys
    /\ \A c \in Configs : c.key \in Keys
    /\ None \notin Keys \cup Configs \cup Procs
    /\ MaxEdits \in Nat /\ MaxTrouble \in Nat

VARIABLES
    settings,  \* the settings file: the configuration and the extra
    support,   \* default.custom.yaml and the support patches: whose key
    custom,    \* wanxiang.custom.yaml and wanxiang_pro.custom.yaml
    sig,       \* .build-signature of each staging folder
    build,     \* the built schema files of each staging folder
    lock,      \* the owner of the deploy mutex
    pc,        \* how far RimeEngine::Initialize of a process is
    sel,       \* its schema_selection, read first
    own,       \* the selection EnsureUserConfig reads again
    changed,   \* user_config_changed_
    deploy,    \* should_deploy
    forced,    \* options.force_rebuild_cache
    dir,       \* the staging folder librime of the process is set up for
    edits, failures,
    torn       \* history: EnsureUserConfig of a start read another scheme than the start

user == <<settings, support, custom, edits, torn>>
cache == <<sig, build>>
decision == <<sel, own, changed, deploy, forced>>
deployVars == <<user, cache, decision, lock, pc, dir, failures>>

Schemas == {"wanxiang", "wanxiang_pro"}
Schema(k) == IF k = Pinyin THEN "wanxiang" ELSE "wanxiang_pro"

Text == [config : Configs, extra : Extras]
Product == [support : Keys, text : Text \cup {None}]

\* What a deployment of the files as they are now would build.
FilesProduct == [support |-> support, text |-> custom[Schema(support)]]

(* HasFreshRimeBuildCache, whose same_selection branch makes the           *)
(* comparison one of the selections alone.                                 *)
HasFreshRimeBuildCache(c) == build[c.key][Schema(c.key)] # None /\ sig[c.key] = c

\* Nobody is between the beginning and the end of Initialize.
Quiet == \A p \in Procs : pc[p] \in {"down", "up"}

DeployInit ==
    /\ settings \in Text /\ support = None
    /\ custom = [s \in Schemas |-> None]
    /\ sig = [k \in Keys |-> None]
    /\ build = [k \in Keys |-> [s \in Schemas |-> None]]
    /\ lock = None
    /\ pc = [p \in Procs |-> "down"]
    /\ sel = [p \in Procs |-> None] /\ own = [p \in Procs |-> None]
    /\ changed = [p \in Procs |-> FALSE] /\ deploy = [p \in Procs |-> FALSE]
    /\ forced = [p \in Procs |-> FALSE]
    /\ dir = [p \in Procs |-> None]
    /\ edits = 0 /\ failures = 0 /\ torn = FALSE

Goto(p, l) == pc' = [pc EXCEPT ![p] = l]
\* Initialize ends: its locals go, and the mutex is released or abandoned.
Return(p, l) ==
    /\ Goto(p, l)
    /\ sel' = [sel EXCEPT ![p] = None] /\ own' = [own EXCEPT ![p] = None]
    /\ changed' = [changed EXCEPT ![p] = FALSE] /\ deploy' = [deploy EXCEPT ![p] = FALSE]
    /\ forced' = [forced EXCEPT ![p] = FALSE]
    /\ lock' = IF lock = p THEN None ELSE lock
Trouble == failures < MaxTrouble /\ failures' = failures + 1

(* The settings window stores other settings; an imported dictionary       *)
(* appears or goes: at any time, in the middle of a start too.             *)
Edit ==
    /\ edits < MaxEdits /\ edits' = edits + 1
    /\ settings' \in Text \ {settings}
    /\ UNCHANGED <<support, custom, torn, cache, decision, lock, pc, dir, failures>>

-----------------------------------------------------------------------------
(* RimeEngine::Initialize.  An engine that is up returns at once, and      *)
(* Redeploy shuts it down first and forces the rebuild.                    *)
Initialize(p, force) ==
    /\ pc[p] \in IF force THEN {"down", "up"} ELSE {"down"}
    /\ sel' = [sel EXCEPT ![p] = settings.config]
    /\ forced' = [forced EXCEPT ![p] = force]
    /\ changed' = [changed EXCEPT ![p] = FALSE]
    /\ Goto(p, "support")
    /\ UNCHANGED <<user, cache, own, deploy, lock, dir, failures>>

(* EnsureUserConfig reads the settings again, then WriteTextIfChanged of   *)
(* the files that depend on the scheme only ...                            *)
WriteSupport(p) ==
    /\ pc[p] = "support"
    /\ own' = [own EXCEPT ![p] = settings.config]
    /\ support' = settings.config.key
    /\ changed' = [changed EXCEPT ![p] = support # support']
    /\ torn' = (torn \/ settings.config.key # sel[p].key)
    /\ Goto(p, "custom")
    /\ UNCHANGED <<settings, custom, edits, cache, sel, deploy, forced, lock, dir, failures>>

(* ... and of the patch of the selected schema, with the dictionary the    *)
(* folder has now.                                                         *)
WriteCustom(p) ==
    LET s == Schema(own[p].key)
        text == [config |-> own[p], extra |-> settings.extra] IN
    /\ pc[p] = "custom"
    /\ custom' = [custom EXCEPT ![s] = text]
    /\ changed' = [changed EXCEPT ![p] = @ \/ custom[s] # text]
    /\ own' = [own EXCEPT ![p] = None]
    /\ Goto(p, "check")
    /\ UNCHANGED <<settings, support, edits, torn, cache, sel, deploy, forced, lock, dir, failures>>

\* Mutant: the signature alone decides, a changed file does not.
CheckSignatureOnly(p) ==
    /\ pc[p] = "check"
    /\ deploy' = [deploy EXCEPT ![p] = forced[p] \/ ~HasFreshRimeBuildCache(sel[p])]
    /\ Goto(p, "lock")
    /\ UNCHANGED <<user, cache, sel, own, changed, forced, lock, dir, failures>>

\* ShouldDeployRimeWorkspace, before the mutex is asked for.
Check(p) ==
    /\ pc[p] = "check"
    /\ deploy' = [deploy EXCEPT ![p] = forced[p] \/ changed[p] \/ ~HasFreshRimeBuildCache(sel[p])]
    /\ Goto(p, "lock")
    /\ UNCHANGED <<user, cache, sel, own, changed, forced, lock, dir, failures>>

Acquire(p) ==
    /\ pc[p] = "lock" /\ lock = None
    /\ lock' = p
    /\ Goto(p, IF deploy[p] THEN "prepare" ELSE "start")
    /\ UNCHANGED <<user, cache, decision, dir, failures>>

\* 120 ms are over and no deployment is due: go on without the mutex.
GoOn(p) ==
    /\ pc[p] = "lock" /\ lock # None /\ ~deploy[p]
    /\ Goto(p, "start")
    /\ UNCHANGED <<user, cache, decision, lock, dir, failures>>

\* 120 s are over and a deployment is due: Initialize fails.
LockTimesOut(p) ==
    /\ pc[p] = "lock" /\ lock # None /\ deploy[p]
    /\ Trouble
    /\ Return(p, "down")
    /\ UNCHANGED <<user, cache, dir>>

(* EnsureFreshRimeBuildCache.  A forced rebuild removes the staging folder *)
(* with everything below it, or what of it no process has open; then the   *)
(* signature is written, before anything is built.                         *)
Prepare(p) ==
    LET k == sel[p].key
        below == IF k = Pinyin THEN Keys ELSE {k} IN
    /\ pc[p] = "prepare"
    /\ \E gone \in IF forced[p] THEN {below, {}} ELSE {{}} :
        /\ build' = [j \in Keys |->
                        IF j \in gone THEN [s \in Schemas |-> None] ELSE build[j]]
        /\ sig' = [j \in Keys |->
                        IF j = k THEN sel[p] ELSE IF j \in gone THEN None ELSE sig[j]]
    /\ Goto(p, "deploy")
    /\ UNCHANGED <<user, decision, lock, dir, failures>>

\* DeployRimeWorkspace: the schema the files list, from the files as they are.
Deploy(p) ==
    LET k == sel[p].key IN
    /\ pc[p] = "deploy"
    /\ build' = [build EXCEPT ![k][Schema(support)] = FilesProduct]
    /\ dir' = [dir EXCEPT ![p] = k]
    /\ Goto(p, "start")
    /\ UNCHANGED <<user, sig, decision, lock, failures>>

(* api->deploy returns false: the signature stays.  librime that was       *)
(* already initialized now has the new folder.                             *)
DeployFails(p) ==
    /\ pc[p] = "deploy"
    /\ Trouble
    /\ dir' = [dir EXCEPT ![p] = IF @ = None THEN None ELSE sel[p].key]
    /\ Return(p, "down")
    /\ UNCHANGED <<user, cache>>

\* api->initialize, once in a process; returning releases the mutex.
Start(p) ==
    /\ pc[p] = "start"
    /\ dir' = [dir EXCEPT ![p] = IF @ = None THEN sel[p].key ELSE @]
    /\ Return(p, "up")
    /\ UNCHANGED <<user, cache, failures>>

\* The process ends while its engine is up, or after a failure.
Stop(p) ==
    /\ pc[p] \in {"down", "up"} /\ dir[p] # None
    /\ dir' = [dir EXCEPT ![p] = None]
    /\ Goto(p, "down")
    /\ UNCHANGED <<user, cache, decision, lock, failures>>

(* The process ends inside Initialize: its parent has gone and the         *)
(* watchdog calls ExitProcess, or it crashes.  The mutex is abandoned.     *)
Crash(p) ==
    /\ pc[p] \notin {"down", "up"}
    /\ Trouble
    /\ dir' = [dir EXCEPT ![p] = None]
    /\ Return(p, "down")
    /\ UNCHANGED <<user, cache>>

Step(p) ==
    \/ \E force \in BOOLEAN : Initialize(p, force)
    \/ WriteSupport(p) \/ WriteCustom(p) \/ Check(p)
    \/ Acquire(p) \/ GoOn(p) \/ LockTimesOut(p)
    \/ Prepare(p) \/ Deploy(p) \/ DeployFails(p)
    \/ Start(p) \/ Stop(p) \/ Crash(p)

DeployNext == Edit \/ \E p \in Procs : Step(p)

DeploySpec == DeployInit /\ [][DeployNext]_deployVars

-----------------------------------------------------------------------------
DeployTypeOK ==
    /\ settings \in Text /\ support \in Keys \cup {None}
    /\ custom \in [Schemas -> Text \cup {None}]
    /\ sig \in [Keys -> Configs \cup {None}]
    /\ build \in [Keys -> [Schemas -> Product \cup {None}]]
    /\ lock \in Procs \cup {None}
    /\ pc \in [Procs -> {"down", "support", "custom", "check", "lock", "prepare",
                         "deploy", "start", "up"}]
    /\ sel \in [Procs -> Configs \cup {None}] /\ own \in [Procs -> Configs \cup {None}]
    /\ changed \in [Procs -> BOOLEAN] /\ deploy \in [Procs -> BOOLEAN]
    /\ forced \in [Procs -> BOOLEAN]
    /\ dir \in [Procs -> Keys \cup {None}]
    /\ edits \in 0 .. MaxEdits /\ failures \in 0 .. MaxTrouble /\ torn \in BOOLEAN

(* The folder is honest whenever nobody initializes: the build that the    *)
(* next start with these files would accept as fresh was made from these   *)
(* very files, whatever starts, redeployments and changes of the settings  *)
(* came before or crossed each other, as long as none of the starts failed *)
(* or had the scheme changed between its two readings of the settings.     *)
CacheHonest ==
    Quiet /\ failures = 0 /\ ~torn /\ support # None =>
        \A c \in Configs :
            /\ c.key = support /\ HasFreshRimeBuildCache(c)
            /\ custom[Schema(c.key)] # None /\ custom[Schema(c.key)].config = c
            => build[c.key][Schema(c.key)] = FilesProduct

\* A process that will deploy: it changed a file, or decided already.
Owes(p) ==
    \/ pc[p] \in {"custom", "check"} /\ changed[p]
    \/ pc[p] \in {"lock", "prepare", "deploy"} /\ deploy[p]

\* The patch of the scheme was written for the selection the files list.
FilesAgree ==
    LET text == custom[Schema(support)] IN text # None /\ text.config.key = support

(* Who decided to deploy starts librime on the build of the files as they  *)
(* are, however long it waited for the mutex and whoever built before,     *)
(* unless the files have changed since: then they are those of another     *)
(* scheme, or who changed them is on its way to deploy them.               *)
DeployersServeFiles ==
    \A p \in Procs :
        failures = 0 /\ ~torn /\ pc[p] = "start" /\ deploy[p]
        /\ sel[p].key = support /\ FilesAgree =>
            \/ build[support][Schema(support)] = FilesProduct
            \/ \E q \in Procs : Owes(q) /\ sel[q].key = support

(* A deployment is alone: from the signature to the build no other process *)
(* signs, wipes or builds a folder, and an abandoned mutex passes on.      *)
DeployUndisturbed ==
    /\ \A p \in Procs : pc[p] = "deploy" => lock = p /\ sig[sel[p].key] = sel[p]
    /\ lock # None => pc[lock] \in {"prepare", "deploy", "start"}
=============================================================================
