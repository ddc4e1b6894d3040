---------------------------- MODULE Installation -----------------------------
(***************************************************************************)
(* How FluentPinyin comes onto a computer, is replaced by a newer version  *)
(* and leaves again: the sequence of custom actions of the package         *)
(* (installer/fluent-pinyin.wxs), the commands of fluent-pinyin-devtools   *)
(* they run (src/devtools), the registration of the text service           *)
(* (src/tsf/registration.cpp) and the updater (src/updater).  Meanwhile    *)
(* applications load the text service, core hosts, the settings            *)
(* application and the scheduled sync run and write, until the commands    *)
(* close them.                                                             *)
(*                                                                         *)
(* Windows Installer itself (files in use, rollback) is external.  All the *)
(* files an application loads are one, "dll"; those of our own programs    *)
(* are the other, "exe".  The user's data are there or not.                *)
(***************************************************************************)
EXTENDS Integers, Sequences, FiniteSets, FiniteSetsExt

CONSTANTS
    Apps,       \* applications that can load the text service
    Protected,  \* those the commands may not open: they close when they like
    Versions,   \* versions of the product, each a sequence of numbers
    Others,     \* files of other programs
    Alike,      \* those of them whose paths name our folder or one of our fonts
    Lists,      \* what can be pending for the next boot when all begins
    MaxJobs     \* bound for TLC: installations, upgrades and removals

\* "core": a core host or the warm-up of Rime, which load the same modules.
Workers == {"core", "settings"}
Processes == Apps \cup Workers
Files == {"dll", "exe"}
None == <<>>

ASSUME InstallationAssumption ==
    /\ Protected \subseteq Apps /\ Apps \cap Workers = {}
    /\ Versions \subseteq Seq(Nat) /\ None \notin Versions /\ MaxJobs \in Nat
    /\ Alike \subseteq Others

\* Registry keys that name the text service: for the machine, for the user.
MachineKeys == {"com", "layout", "profile"}
UserKeys == {"user", "override", "preload"}
Keys == MachineKeys \cup UserKeys \cup {"fonts"}

(***************************************************************************)
(* The custom actions, each a sequence of steps another process can come   *)
(* between.                                                                *)
(***************************************************************************)
CloseLegacyInputHosts == <<"snapshot", "close">>

\* Mutant: the pending deletions are left to their owner.
PrepareWithoutPending == CloseLegacyInputHosts \o <<"fonts">>
\* Mutant: only processes with known names are ended.
RestartByName == <<"kill">>
PrepareInstall == CloseLegacyInputHosts \o <<"pending", "fonts">>
RestartTextServices == <<"kill">> \o CloseLegacyInputHosts
CleanupInstall == <<"pending", "settings", "visitors", "fonts", "task", "keys", "data">>

\* Mutant: the old version is unregistered before the new one is there.
UpgradeUnregisters ==
    <<"shutdown", "unregister">> \o PrepareInstall \o RestartTextServices

BeforeUpgrade == <<"shutdown">> \o PrepareInstall \o RestartTextServices
Installing == <<"files">> \o PrepareInstall
              \o <<"runtime", "register", "activate", "warmup">>
Script(kind) ==
    CASE kind = "install" -> Installing
      [] kind = "upgrade" -> BeforeUpgrade \o <<"removal">> \o Installing
      [] kind = "remove" ->
           <<"settings", "shutdown", "unregister">>
           \o RestartTextServices \o CleanupInstall \o <<"removal">>
      [] OTHER -> <<>>
Kinds == {"install", "upgrade", "remove"}
Steps == {"snapshot", "close", "pending", "fonts", "kill", "settings", "visitors", "task",
          "keys", "data", "shutdown", "files", "runtime", "register", "activate", "warmup", "removal", "unregister"}

\* The comparison of version numbers: parts that are missing count as 0.
Part(v, i) == IF i \in DOMAIN v THEN v[i] ELSE 0
CompareVersions(v, w) ==
    LET different == {i \in DOMAIN v \cup DOMAIN w : Part(v, i) # Part(w, i)}
        first == Min(different)
    IN  IF different = {} THEN 0 ELSE IF Part(v, first) < Part(w, first) THEN -1 ELSE 1

(***************************************************************************)
(* PendingFileRenameOperations: sources and targets in turn, an empty      *)
(* target for a deletion, and an empty string at the end.  What the        *)
(* installer moves aside lies outside the product's folder and is left out.*)
(***************************************************************************)
Empty == "empty"    \* stands for the empty string
Ours == Files \cup {"tmp"}
Named == Ours \cup Alike    \* the comparison looks for a part of the path
Entries(raw) ==
    LET words == {i \in DOMAIN raw : raw[i] # Empty}
    IN  IF words = {} THEN <<>>
        ELSE SubSeq(raw, 1, Min({n \in Max(words)..Len(raw) : n % 2 = 0} \cup {Len(raw)}))
Pairs(raw) ==
    LET list == Entries(raw)
        Target(n) == IF 2 * n \in DOMAIN list THEN list[2 * n] ELSE Empty
    IN  [n \in 1..((Len(list) + 1) \div 2) |-> <<list[2 * n - 1], Target(n)>>]
Flat(pairs) == [i \in 1..(2 * Len(pairs)) |-> pairs[(i + 1) \div 2][IF i % 2 = 1 THEN 1 ELSE 2]]

\* Mutant: empty strings are not written.
WrittenWithoutEmpty(pairs) ==
    SelectSeq(Flat(pairs), LAMBDA word : word # Empty) \o <<Empty>>

Written(pairs) == IF pairs = <<>> THEN <<>> ELSE Flat(pairs) \o <<Empty>>
IsOurs(pair) == pair[1] \in Named \/ pair[2] \in Named
\* Those of other programs, in their order: the k-th has k of them up to it.
Kept(pairs) ==
    LET places == {n \in DOMAIN pairs : ~IsOurs(pairs[n])}
        UpTo(n) == Cardinality({m \in places : m <= n})
    IN  [k \in 1..Cardinality(places) |-> pairs[CHOOSE n \in places : UpTo(n) = k]]
RemoveStalePendingDeletes(raw) ==
    LET pairs == Pairs(raw)
    IN  IF \E n \in DOMAIN pairs : IsOurs(pairs[n])
        THEN Written(Kept(pairs)) ELSE raw
Scheduled(raw, pairs) == Written(Pairs(raw) \o pairs)

\* Windows writes no operation without a source.
Words == Ours \cup Others \cup {Empty}
Operations == {pair \in Words \X Words : pair[1] # Empty}
ASSUME PendingAssumption == \A raw \in Lists : Pairs(raw) \in Seq(Operations)

VARIABLES
    running,   \* applications with the text service loaded, and our own processes
    disk,      \* the version each file has
    pending,   \* what Windows is to do at the next boot
    product,   \* the version that is installed
    keys,      \* registry keys
    data, task, \* the user's data; the scheduled sync task
    job,       \* the installation under way
    done,      \* the last job that was finished
    excused,   \* history: why a removal cannot be clean, a process of ours among its steps
    broken,    \* history: the registration failed half way
    stranded,  \* history: an upgrade has removed the version the registration is of
    updater,   \* the package the updater has loaded
    jobs

vars == <<running, disk, pending, product, keys, data, task,
          job, done, excused, broken, stranded, updater, jobs>>

NoJob == [kind |-> "none", version |-> None, elevated |-> FALSE, todo |-> <<>>,
          doomed |-> {}, backup |-> [f \in Files |-> None]]
Jobs == [kind : Kinds \cup {"none"}, version : Versions \cup {None}, elevated : BOOLEAN,
         todo : Seq(Steps), doomed : SUBSET Processes,
         backup : [Files -> Versions \cup {None}]]
NothingDone == [kind |-> "none", elevated |-> FALSE]
IdleUpdater == [tag |-> None, whole |-> FALSE]
Packages == [tag : Versions \cup {None}, whole : BOOLEAN]

TypeOK ==
    /\ running \subseteq Processes
    /\ disk \in [Files -> Versions \cup {None}]
    /\ product \in Versions \cup {None}
    /\ keys \subseteq Keys
    /\ data \in BOOLEAN /\ task \in BOOLEAN
    /\ job \in Jobs
    /\ done \in [kind : Kinds \cup {"none"}, elevated : BOOLEAN]
    /\ excused \in BOOLEAN /\ broken \in BOOLEAN /\ stranded \in BOOLEAN
    /\ updater \in Packages
    /\ jobs \in 0..MaxJobs

\* A computer without the product; deletions an older version left may be pending.
Init ==
    /\ running = {} /\ product = None
    /\ disk = [f \in Files |-> None]
    /\ pending \in Lists
    /\ keys = {"fonts"}
    /\ data = FALSE /\ task = FALSE
    /\ job = NoJob /\ done = NothingDone
    /\ excused = FALSE /\ broken = FALSE /\ stranded = FALSE
    /\ updater = IdleUpdater /\ jobs = 0

Idle == job.kind = "none"
InUse(f) == (IF f = "dll" THEN Apps ELSE Workers) \cap running # {}
\* From the cleanup on, what our own processes do can undo it.
Removing == \/ job.kind = "remove" /\ Len(job.todo) <= Len(CleanupInstall) + 1
            \/ Idle /\ product = None

(***************************************************************************)
(* The steps of the custom actions.  A job's step changes what the step    *)
(* names; Advance goes on to the next one.                                 *)
(***************************************************************************)
Goes(doomed, backup) ==
    job' = [job EXCEPT !.todo = Tail(@), !.doomed = doomed, !.backup = backup]
Advance(doomed) == Goes(doomed, job.backup)
Proceed == Advance(job.doomed)
At(step) == ~Idle /\ job.todo # <<>> /\ Head(job.todo) = step
diskVars == <<disk, pending>>
userVars == <<data, task>>
histVars == <<done, excused, broken>>
restVars == <<product, stranded, updater, jobs>>

\* Of a set of processes some may stay: those that may not be opened.
Closings(doomed) == {running \ gone : gone \in {g \in SUBSET doomed : doomed \ g \subseteq Protected}}

\* FindProcessIdsLoadingModules: the settings application loads none of the modules.
FindProcessIds ==
    /\ At("snapshot")
    /\ Advance(running \ {"settings"})
    /\ UNCHANGED <<running, diskVars, keys, userVars, histVars, restVars>>
CloseProcessesGracefully ==
    /\ At("close")
    /\ running' \in Closings(job.doomed)
    /\ Advance({})
    /\ UNCHANGED <<diskVars, keys, userVars, histVars, restVars>>

\* By their names: the settings application and some of the system, whichever
\* of the applications those are.
KillByName ==
    /\ At("kill")
    /\ running' \in {running \ (ended \cup {"settings"}) : ended \in SUBSET Apps}
    /\ Proceed
    /\ UNCHANGED <<diskVars, keys, userVars, histVars, restVars>>
CloseSettingsProcess ==
    /\ At("settings")
    /\ running' = running \ {"settings"}
    /\ Proceed
    /\ UNCHANGED <<diskVars, keys, userVars, histVars, restVars>>
\* Which applications have the product's folder as current directory is left open.
CloseProcessesUsingDirectory ==
    /\ At("visitors")
    /\ running' \in {running \ inside : inside \in SUBSET Apps}
    /\ Proceed
    /\ UNCHANGED <<diskVars, keys, userVars, histVars, restVars>>

\* Only an elevated caller may write the session manager's key.
RemovePendingDeletes ==
    /\ At("pending")
    /\ pending' = IF job.elevated THEN RemoveStalePendingDeletes(pending) ELSE pending
    /\ Proceed
    /\ UNCHANGED <<running, disk, keys, userVars, histVars, restVars>>
RemoveFontFilesAndRegistry ==
    /\ At("fonts")
    /\ keys' = keys \ {"fonts"}
    /\ Proceed
    /\ UNCHANGED <<running, diskVars, userVars, histVars, restVars>>
\* The result of the deletion is only logged.
RemoveScheduledTask ==
    /\ At("task")
    /\ \/ task' = FALSE /\ UNCHANGED excused
       \/ UNCHANGED task /\ excused' = TRUE
    /\ Proceed
    /\ UNCHANGED <<running, diskVars, keys, data, done, broken, restVars>>
DeleteRegistryTrees ==
    /\ At("keys")
    /\ keys' = keys \ (IF job.elevated THEN MachineKeys \cup {"user"} ELSE {"user"})
    /\ Proceed
    /\ UNCHANGED <<running, diskVars, userVars, histVars, restVars>>
\* What a process has open, or writes at the time, stays.
RemoveUserData ==
    /\ At("data")
    /\ IF running = {} THEN data' = FALSE /\ UNCHANGED excused
                       ELSE data' \in {FALSE, data} /\ excused' = TRUE
    /\ Proceed
    /\ UNCHANGED <<running, diskVars, keys, task, done, broken, restVars>>

\* The text services stop their core hosts, those that answer in time.
ShutdownInputCore ==
    /\ At("shutdown")
    /\ running' \in {running, running \ {"core"}}
    /\ Proceed
    /\ UNCHANGED <<diskVars, keys, userVars, histVars, restVars>>
ActivateProfile ==
    /\ At("activate")
    /\ keys' \in {keys, keys \cup UserKeys}
    /\ Proceed
    /\ UNCHANGED <<running, diskVars, userVars, histVars, restVars>>
StartRimeWarmup ==
    /\ At("warmup")
    /\ running' \in {running, running \cup {"core"}}
    /\ Proceed
    /\ UNCHANGED <<diskVars, keys, userVars, histVars, restVars>>

(***************************************************************************)
(* Registration.  What can come of it: [ok, the machine's keys].           *)
(***************************************************************************)
RegisterServer(k) ==
    LET Result(ok, in) == [ok |-> ok, keys |-> (k \ MachineKeys) \cup in]
    IN  {Result(TRUE, MachineKeys),
         Result(FALSE, k \cap MachineKeys),                   \* the layout is refused
         Result(FALSE, k \cap {"com", "profile"}),            \* the server is
         Result(FALSE, k \cap {"profile"}),                   \* the profile is
         Result(FALSE, {"layout", "com"} \cup (k \cap {"profile"})),  \* there is no COM
         Result(FALSE, {"profile"})}                          \* a category is refused
\* A profile that stays is no failure, a server that stays is.
UnregisterServer(k) ==
    {[ok |-> TRUE, keys |-> k \ (MachineKeys \cup {"user"})],
     [ok |-> TRUE, keys |-> k \ {"com", "layout"}],
     [ok |-> FALSE, keys |-> k \ {"profile", "user"}]}

\* An action that fails ends the job: the files are put back, nothing else is.
\* The old version's files are not, which went before the transaction began.
Rollback ==
    /\ job' = NoJob /\ disk' = job.backup /\ done' = NothingDone
    /\ UNCHANGED <<product, pending>>

EnsureWindowsAppRuntime ==
    /\ At("runtime")
    /\ \/ Proceed /\ UNCHANGED <<diskVars, product, done>>
       \/ Rollback
    /\ UNCHANGED <<running, keys, userVars, excused, broken, stranded, updater, jobs>>
RegisterTsf ==
    /\ At("register")
    /\ \E r \in RegisterServer(keys) :
         /\ keys' = IF r.ok THEN r.keys \cup {"user"} ELSE r.keys
         /\ broken' = ~r.ok
         /\ IF r.ok THEN Proceed /\ UNCHANGED <<diskVars, product, done>> ELSE Rollback
    /\ UNCHANGED <<running, userVars, excused, stranded, updater, jobs>>
UnregisterTsf ==
    /\ At("unregister")
    /\ \E r \in UnregisterServer(keys) :
         /\ keys' = r.keys
         /\ broken' = (~r.ok \/ r.keys \cap MachineKeys # {})
         /\ IF r.ok THEN Proceed /\ UNCHANGED <<diskVars, product, done>> ELSE Rollback
    /\ UNCHANGED <<running, userVars, excused, stranded, updater, jobs>>

(***************************************************************************)
(* Windows Installer.  A file in use is moved aside, to be deleted at the  *)
(* next boot, or, where that is refused, left for the next boot to delete  *)
(* or to replace.                                                          *)
(***************************************************************************)
Deletion(f) == <<f, Empty>>
Replacement(f) == <<"tmp", f>>
SeqOf(f, pair, S) == IF f \in S THEN <<pair>> ELSE <<>>
Each(Op(_), S) == SeqOf("dll", Op("dll"), S) \o SeqOf("exe", Op("exe"), S)
Busy == {f \in Files : disk[f] # None /\ InUse(f)}

\* RemoveFiles of a removal and, in an upgrade, of the old version: that is a
\* transaction of its own, and it leaves the registration to the new version.
RemoveFiles ==
    /\ At("removal")
    /\ \E stuck \in {{}, Busy} :
         /\ disk' = [f \in Files |-> IF f \in stuck THEN disk[f] ELSE None]
         /\ pending' = Scheduled(pending, Each(Deletion, stuck))
    /\ UNCHANGED <<running, keys, userVars, excused, broken, updater, jobs>>
    /\ product' = None /\ stranded' = (job.kind = "upgrade")
    /\ IF Len(job.todo) = 1
       THEN /\ job' = NoJob
            /\ done' = [kind |-> job.kind, elevated |-> job.elevated]
       ELSE Goes(job.doomed, disk') /\ UNCHANGED done
InstallFiles ==
    /\ At("files")
    /\ \E stuck \in {{}, Busy} :
         /\ disk' = [f \in Files |-> IF f \in stuck THEN disk[f] ELSE job.version]
         /\ pending' = Scheduled(pending, Each(Replacement, stuck))
    /\ Proceed
    /\ UNCHANGED <<running, keys, userVars, histVars, restVars>>

\* An upgrade never goes to an older version; going to the same one is allowed.
StartJob(kind, version, elevated) ==
    /\ Idle /\ jobs < MaxJobs
    /\ (version = None) = (kind = "remove")
    /\ \/ kind = "install" /\ product = None
       \/ kind = "upgrade" /\ product # None /\ CompareVersions(version, product) >= 0
       \/ kind = "remove" /\ product # None
    /\ job' = [kind |-> kind, version |-> version, elevated |-> elevated,
               todo |-> Script(kind), doomed |-> {}, backup |-> disk]
    /\ jobs' = jobs + 1
    /\ excused' = FALSE /\ done' = NothingDone
    /\ UNCHANGED <<running, diskVars, keys, userVars, product, broken, stranded>>
UserStartsJob ==
    /\ \E kind \in Kinds, version \in Versions \cup {None}, elevated \in BOOLEAN :
         StartJob(kind, version, elevated)
    /\ UNCHANGED updater
FinishJob ==
    /\ ~Idle /\ job.todo = <<>>
    /\ product' = job.version /\ stranded' = FALSE
    /\ done' = [kind |-> job.kind, elevated |-> job.elevated]
    /\ job' = NoJob
    /\ UNCHANGED <<running, diskVars, keys, userVars, excused, broken, updater, jobs>>

\* What a file is after the operations that are pending, the last one deciding.
AfterBoot(f) ==
    LET pairs == Pairs(pending)
        About == {n \in DOMAIN pairs : f \in {pairs[n][1], pairs[n][2]}}
    IN  IF About = {} THEN disk[f]
        ELSE IF pairs[Max(About)][2] = f THEN product ELSE None
Reboot ==
    /\ Idle
    /\ disk' = [f \in Files |-> AfterBoot(f)]
    /\ pending' = <<>> /\ running' = {}
    /\ updater' = IdleUpdater
    /\ UNCHANGED <<keys, userVars, product, stranded, job, histVars, jobs>>

(***************************************************************************)
(* The other processes.                                                    *)
(***************************************************************************)
\* A process that starts is none of those that were to be closed.
Starts(p) == /\ running' = running \cup {p}
             /\ job' = [job EXCEPT !.doomed = @ \ {p}]
Meddles == excused' = (excused \/ Removing)

\* TsfTextService::Activate, when an application gets a text field.
LoadService(a) ==
    /\ a \notin running
    /\ {"com", "profile"} \subseteq keys /\ disk["dll"] # None
    /\ Starts(a)
    /\ keys' = keys \cup UserKeys
    /\ Meddles
    /\ UNCHANGED <<diskVars, userVars, done, broken, restVars>>
\* Input: the core host is started, settings are saved; a change of the theme
\* has the text service write its keys again.
ServiceActs(a) ==
    /\ a \in running
    /\ \/ disk["exe"] # None /\ Starts("core")
       \/ UNCHANGED <<running, job>>
    /\ data' = TRUE
    /\ keys' \in {keys, keys \cup UserKeys}
    /\ Meddles
    /\ UNCHANGED <<diskVars, task, done, broken, restVars>>
\* By the user, or by the scheduled task.
StartSettings ==
    /\ disk["exe"] # None /\ "settings" \notin running
    /\ Starts("settings")
    /\ Meddles
    /\ UNCHANGED <<diskVars, keys, userVars, done, broken, restVars>>
\* The settings application turns the scheduled sync on or off, or fails to.
InstallScheduledSync == {TRUE, task}
RemoveScheduledSync == {FALSE, task}
WorkerActs(w) ==
    /\ w \in running
    /\ data' = TRUE
    /\ IF w = "settings" THEN task' \in InstallScheduledSync \cup RemoveScheduledSync
                         ELSE UNCHANGED task
    /\ Meddles
    /\ UNCHANGED <<running, diskVars, keys, job, done, broken, restVars>>
ProcessEnds(p) ==
    /\ p \in running
    /\ running' = running \ {p}
    /\ UNCHANGED <<diskVars, keys, userVars, job, histVars, restVars>>

(***************************************************************************)
(* The updater.                                                            *)
(***************************************************************************)
Updated(u) ==
    /\ updater' = u
    /\ UNCHANGED <<running, diskVars, keys, userVars, product, stranded, job, histVars, jobs>>
\* Started from the settings page.  The answer names a version; if it is newer the
\* user is asked and the package loaded.  A connection that breaks off ends that as
\* the end of the file does.
QueryAppRelease(tag) == CompareVersions(product, tag) < 0
UpdateApp ==
    /\ "settings" \in running /\ updater = IdleUpdater
    /\ \E tag \in {v \in Versions : QueryAppRelease(v)}, whole \in BOOLEAN :
         Updated([tag |-> tag, whole |-> whole])

\* The signature is that of the whole file; nothing but that is checked again.
VerifyInstallerSignature(u) == u.whole
LaunchInstaller ==
    /\ updater # IdleUpdater /\ VerifyInstallerSignature(updater)
    /\ updater' = IdleUpdater
    /\ StartJob(IF product = None THEN "install" ELSE "upgrade", updater.tag, TRUE)
\* A "no" of the user, a file that is not verified, a step that fails.
UpdaterGivesUp ==
    /\ updater # IdleUpdater
    /\ Updated(IdleUpdater)

JobStep ==
    \/ FindProcessIds \/ CloseProcessesGracefully \/ KillByName \/ CloseSettingsProcess
    \/ CloseProcessesUsingDirectory \/ RemovePendingDeletes \/ RemoveFontFilesAndRegistry
    \/ RemoveScheduledTask \/ DeleteRegistryTrees \/ RemoveUserData
    \/ ShutdownInputCore \/ ActivateProfile \/ StartRimeWarmup \/ EnsureWindowsAppRuntime \/ RegisterTsf \/ UnregisterTsf
    \/ RemoveFiles \/ InstallFiles \/ FinishJob
Environment ==
    \/ \E a \in Apps : LoadService(a) \/ ServiceActs(a)
    \/ \E w \in Workers : WorkerActs(w)
    \/ \E p \in Processes : ProcessEnds(p)
    \/ StartSettings \/ UserStartsJob \/ Reboot
UpdaterStep ==
    UpdateApp \/ LaunchInstaller \/ UpdaterGivesUp

Next == JobStep \/ Environment \/ UpdaterStep
Spec == Init /\ [][Next]_vars

(***************************************************************************)
(* Properties.                                                             *)
(***************************************************************************)

\* What an elevated installation or upgrade put in place is still there after
\* the next boot: no deletion an older version left pending reaches the new
\* files (RemoveStalePendingDeletes runs after InstallFiles).
SurvivesReboot ==
    Idle /\ done.kind \in {"install", "upgrade"} /\ done.elevated =>
        \A f \in Files : disk[f] = product => AfterBoot(f) = product

\* What other programs have pending for the next boot is kept as it is
\* (ParseMultiStringWithEmptyItems, the filter and the writing), but for what
\* names a path that looks like ours.
Foreign(raw) == Kept(Pairs(raw))
OthersKept == [][~Reboot => Foreign(pending') = Foreign(pending)]_pending

\* What a removal leaves.  No application has the text service loaded but those
\* that may not be closed: the server is unregistered before the processes are
\* looked for, so that none comes after them.  When no process of ours acted
\* during the cleanup or after it, there are no data, no task, and of the keys
\* only the two that CleanupInstall does not know: the input method override
\* and the preloaded keyboard layout.
NothingLeft ==
    /\ Removing /\ (Idle => done.kind = "remove") => running \cap Apps \subseteq Protected
    /\ Idle /\ done.kind = "remove" /\ ~excused =>
         /\ ~data /\ ~task
         /\ broken \/ keys \subseteq {"override", "preload"}

\* When no job is under way and none failed in its registration, the text
\* service is registered just when the product is installed, with one exception:
\* an upgrade that fails after it has removed the old version leaves the old
\* registration without a product, until a version is installed.
RegistrationMatches ==
    Idle /\ ~broken =>
        keys \cap MachineKeys = IF product # None \/ stranded THEN MachineKeys ELSE {}

=============================================================================
