---------------------------- MODULE LexiconStore -----------------------------
(***************************************************************************)
(* The lexicons of the user: the user's words, the imported dictionaries,  *)
(* the list of these (fp_user_dicts.txt) and the two aggregate             *)
(* dictionaries, one for each Rime schema, that import what is in use      *)
(* (src/config_winui/lexicon_store.cpp, lexicon_dialogs.cpp,               *)
(* lexicon_page.cpp).  The settings application writes these files one     *)
(* after the other, each of them in place; a synchronisation writes over   *)
(* them; the engine compiles them when it is told to and at no other time  *)
(* (core/rime_engine.cpp).                                                 *)
(*                                                                         *)
(* A dictionary is a table with a content; what its entries are, and the   *)
(* custom phrases, whose one file nothing else depends on, are left out.   *)
(***************************************************************************)
EXTENDS Naturals, Sequences, FiniteSets

CONSTANTS
    Tables,       \* names of dictionaries
    UserWords,    \* fp_user_words, the dictionary of the user's words
    Contents,     \* what a dictionary can contain
    Blank,        \* the content without an entry
    Scheme,       \* the Rime schema of the input scheme in use
    Others,       \* devices at rest: what one can start as and what can be restored
    NoFile, Cut,  \* there is no file; it is open for writing, or was left so
    MaxOps,       \* bound for TLC: operations of the user and restores
    MaxTrouble    \* bound for TLC: failed writes and cut-off programs

Schemas == {"wanxiang", "wanxiang_pro"}
List == "fp_user_dicts.txt"
Files == {List} \cup Tables \cup Schemas

\* The list: a dictionary that is not in it, or whether it is switched on.
Entries == [Tables -> {"none", "off", "on"}]
NoEntries == [t \in Tables |-> "none"]
Switches == [user : BOOLEAN, imported : BOOLEAN]

\* What a file can be; a list that was cut off is one without entries.
Aggregates == [imports : SUBSET Tables]
States(f) == IF f = List THEN {NoFile} \cup Entries
             ELSE {NoFile, Cut} \cup (IF f \in Schemas THEN Aggregates ELSE Contents)
Truncated(f) == IF f = List THEN NoEntries ELSE Cut

\* The tables the aggregates import; with none of them there are no aggregates.
EnabledTables(flags, entries, has_words) ==
    {t \in Tables : \/ flags.user /\ has_words /\ t = UserWords
                    \/ flags.imported /\ entries[t] = "on"}
Aggregate(tables) == IF tables = {} THEN NoFile ELSE [imports |-> tables]

\* What the files say, on this device or on another.
ListOf(d) == IF d[List] = NoFile THEN NoEntries ELSE d[List]
HasWords(d) == d[UserWords] \in Contents \ {Blank}
WantedOf(d, flags) == EnabledTables(flags, ListOf(d), HasWords(d))
InOrder(d, flags) ==
    /\ \A s \in Schemas : d[s] = Aggregate(WantedOf(d, flags))
    /\ \A t \in Tables : ListOf(d)[t] # "none" => d[t] # NoFile

ASSUME LexiconAssumption ==
    /\ IsFiniteSet(Tables)
    /\ UserWords \in Tables /\ Blank \in Contents /\ Scheme \in Schemas
    /\ List \notin Tables \cup Schemas /\ Tables \cap Schemas = {}
    /\ NoFile # Cut /\ NoFile \notin Files
    /\ {NoFile, Cut} \cap (Entries \cup Aggregates \cup Contents) = {}
    /\ \A o \in Others :
          /\ o.switches \in Switches /\ DOMAIN o.disk = Files
          /\ \A f \in Files : o.disk[f] \in States(f) \ {Cut}
          /\ InOrder(o.disk, o.switches)
    /\ MaxOps \in Nat /\ MaxTrouble \in Nat

VARIABLES
    disk,      \* the files in Rime's user folder
    switches,  \* user_lexicon_enabled and imported_lexicons_enabled
    app,       \* the settings application
    owed,      \* it will post the message that settings have changed
    sync,      \* a restore, by the scheduled task or by the user
    engine,    \* a process with an engine, and the built dictionary on disk
    wish,      \* history: the list as the user confirmed it last
    off,       \* history: why the aggregates may be out of date
    lost,      \* history: the engine may not hear of a change
    upset,     \* history: files were written halfway, or by two at a time
    ops, trouble

history == <<wish, off, lost, upset>>
vars == <<disk, switches, app, owed, sync, engine, history, ops, trouble>>

\* The steps of an operation that write a file.
Writes == {"import", "words", List} \cup Schemas
Steps == Writes \cup {"remove", "read", "select", "drop", "end"}
Idle == [plan |-> <<>>, opened |-> FALSE, ok |-> TRUE, dialog |-> FALSE,
         rows |-> NoEntries, name |-> UserWords, content |-> Blank,
         entries |-> NoEntries, flags |-> [user |-> TRUE, imported |-> TRUE],
         tables |-> {}]

TypeOK ==
    /\ \A f \in Files : disk[f] \in States(f)
    /\ switches \in Switches
    /\ app \in [plan : Seq(Steps), opened : BOOLEAN, ok : BOOLEAN, dialog : BOOLEAN,
                rows : [Tables -> {"none", "off", "on", "removed"}],
                name : Tables, content : Contents, entries : Entries,
                flags : Switches, tables : SUBSET Tables]
    /\ app.opened => app.plan # <<>> /\ Head(app.plan) \in Writes
    /\ owed \in BOOLEAN
    /\ sync \in [on : BOOLEAN, todo : SUBSET Files, file : Files \cup {NoFile},
                 other : Others \cup {NoFile}, whole : BOOLEAN]
    /\ engine.hears \in BOOLEAN /\ engine.timer \in BOOLEAN /\ engine.busy \in BOOLEAN
    /\ engine.of \in [switches : Switches, use : BOOLEAN]
    /\ engine.built = NoFile \/ \E s \in SUBSET Tables : engine.built \in [s -> Contents]
    /\ wish \in Entries /\ lost \in BOOLEAN /\ upset \in BOOLEAN
    /\ off \subseteq {"failed", "reset", "restored"}

\* EnsureUserConfig: the aggregate is used if a switch is on and there is one.
Chosen == [switches |-> switches,
           use |-> (switches.user \/ switches.imported) /\ disk[Scheme] # NoFile]

\* Rime compiles the aggregate with the tables it imports, or fails.
CanCompile == disk[Scheme] \notin {NoFile, Cut}
              /\ \A t \in disk[Scheme].imports : disk[t] \in Contents
Compiled(use) == IF ~use THEN [t \in {} |-> Blank]
                 ELSE IF CanCompile THEN [t \in disk[Scheme].imports |-> disk[t]]
                 ELSE NoFile

\* A device at rest, like those it synchronises with.
Init ==
    /\ \E o \in Others : disk = o.disk /\ switches = o.switches
    /\ app = Idle /\ owed = FALSE
    /\ sync = [on |-> FALSE, todo |-> {}, file |-> NoFile, other |-> NoFile, whole |-> TRUE]
    /\ engine = [hears |-> TRUE, timer |-> FALSE, busy |-> FALSE,
                 of |-> Chosen, built |-> Compiled(Chosen.use)]
    /\ wish = ListOf(disk) /\ off = {} /\ lost = FALSE /\ upset = FALSE
    /\ ops = 0 /\ trouble = 0

-----------------------------------------------------------------------------
ReadManagedDictionaryManifest == ListOf(disk)
UserLexiconHasEntries == HasWords(disk)
Wanted == WantedOf(disk, switches)

AtRest == app.plan = <<>> /\ ~sync.on
Op == ops < MaxOps /\ ops' = ops + 1
Trouble == trouble < MaxTrouble /\ trouble' = trouble + 1
Step == Head(app.plan)

(* An operation of the settings application: what it has yet to do.  Only  *)
(* one is under way, on the thread of the window.                          *)
Start(plan, a) ==
    /\ app.plan = <<>> /\ Op
    /\ app' = [a EXCEPT !.plan = plan, !.ok = TRUE, !.opened = FALSE]
    /\ upset' = (upset \/ sync.on)
    /\ UNCHANGED <<disk, owed, sync, engine, off, lost, trouble>>

\* WriteManagedDictionaryIntegrationFiles, as called with a list just read.
Integration == <<"read", List, "select", "end">>

(* A switch of the page; whether the setting was saved is not looked at.   *)
Toggle(k, saved) ==
    /\ ~app.dialog /\ Start(Integration, app)
    /\ switches' = [switches EXCEPT ![k] = IF saved THEN ~@ ELSE @]
    /\ UNCHANGED wish

\* The dialog of the user's words confirmed with content c; its rows are its own.
EditWords(c) ==
    /\ ~app.dialog
    /\ Start(<<"words">> \o Integration, [app EXCEPT !.content = c])
    /\ UNCHANGED <<switches, wish>>

-----------------------------------------------------------------------------
(* The dialog of the imported dictionaries.  Its rows are the list when it *)
(* was opened, or after the last import in it.                             *)
OpenDialog ==
    /\ app.plan = <<>> /\ ~app.dialog
    /\ app' = [app EXCEPT !.dialog = TRUE, !.rows = ReadManagedDictionaryManifest]
    /\ UNCHANGED <<disk, switches, owed, sync, engine, history, ops, trouble>>

ChangeRow(t, state) ==
    /\ app.plan = <<>> /\ app.dialog
    /\ app.rows[t] \in {"off", "on"} /\ state \in {"off", "on", "removed"} \ {app.rows[t]}
    /\ app' = [app EXCEPT !.rows[t] = state]
    /\ UNCHANGED <<disk, switches, owed, sync, engine, history, ops, trouble>>

Cancel ==
    /\ app.plan = <<>> /\ app.dialog
    /\ app' = [app EXCEPT !.dialog = FALSE, !.rows = NoEntries]
    /\ UNCHANGED <<disk, switches, owed, sync, engine, history, ops, trouble>>

\* A file with a valid name; it can be the name of the user's words.
ImportManagedDictionary(t, c) ==
    /\ app.dialog
    /\ Start(<<"import">> \o Integration, [app EXCEPT !.name = t, !.content = c])
    /\ UNCHANGED <<switches, wish>>

\* Mutant: a dictionary that is removed is only switched off in the list.
RowEntriesSwitched == [t \in Tables |-> IF app.rows[t] = "removed" THEN "off" ELSE app.rows[t]]

RowEntries == [t \in Tables |-> IF app.rows[t] = "removed" THEN "none" ELSE app.rows[t]]
Removed == {t \in Tables : app.rows[t] = "removed"}

\* Confirmed: the files that were removed first, then the list.
Done ==
    /\ app.dialog
    /\ Start([i \in 1..Cardinality(Removed) |-> "remove"] \o <<List, "select", "end">>,
             [app EXCEPT !.dialog = FALSE, !.entries = RowEntries])
    /\ wish' = RowEntries
    /\ UNCHANGED switches

-----------------------------------------------------------------------------
(* The steps of an operation.                                              *)
FileOf(step) == CASE step = "import" -> app.name
                  [] step = "words" -> UserWords
                  [] OTHER -> step
ValueOf(step) == CASE step \in {"import", "words"} -> app.content
                   [] step = List -> app.entries
                   [] OTHER -> [imports |-> app.tables]

(* WriteFileUtf8 opens a file with trunc.  The list is the first file of   *)
(* an integration, which has read the switches just before.                *)
Open ==
    /\ app.plan # <<>> /\ Step \in Writes /\ ~app.opened
    /\ disk' = [disk EXCEPT ![FileOf(Step)] = Truncated(FileOf(Step))]
    /\ app' = [app EXCEPT !.opened = TRUE,
                          !.flags = IF Step = List THEN switches ELSE @]
    /\ off' = IF Step = List THEN {} ELSE off
    /\ UNCHANGED <<switches, owed, sync, engine, wish, lost, upset, ops, trouble>>

\* Mutant: the step does not end.
FillStaysOpen ==
    /\ app.opened
    /\ disk' = [disk EXCEPT ![FileOf(Step)] = ValueOf(Step)]
    /\ app' = [app EXCEPT !.plan = Tail(@)]
    /\ UNCHANGED <<switches, owed, sync, engine, history, ops, trouble>>

Fill ==
    /\ app.opened
    /\ disk' = [disk EXCEPT ![FileOf(Step)] = ValueOf(Step)]
    /\ app' = [app EXCEPT !.opened = FALSE, !.plan = Tail(@)]
    /\ UNCHANGED <<switches, owed, sync, engine, history, ops, trouble>>

(* A file that cannot be opened keeps what it held; one that cannot be     *)
(* written stays cut off, which WriteFileUtf8 notices only if the buffer   *)
(* was full.  The callers of WriteUserLexiconEntries do not look; the      *)
(* others give up.                                                         *)
WriteFails(noticed) ==
    /\ app.plan # <<>> /\ Step \in Writes /\ Trouble
    /\ ~app.opened => noticed
    /\ app' = IF noticed /\ Step # "words"
              THEN [app EXCEPT !.opened = FALSE, !.ok = FALSE, !.plan = <<"end">>]
              ELSE [app EXCEPT !.opened = FALSE, !.plan = Tail(@)]
    /\ IF ~app.opened /\ Step \in {"import", "words"} THEN UNCHANGED <<off, upset>>
       ELSE off' = off \cup {"failed"} /\ upset' = TRUE
    /\ UNCHANGED <<disk, switches, owed, sync, engine, wish, lost, ops>>

\* Mutant: an import starts a list of its own.
ReadNothing ==
    /\ app.plan # <<>> /\ Step = "read"
    /\ app' = [app EXCEPT !.plan = Tail(@),
                          !.entries = IF app.dialog THEN [NoEntries EXCEPT ![app.name] = "on"]
                                      ELSE ReadManagedDictionaryManifest]
    /\ UNCHANGED <<disk, switches, owed, sync, engine, history, ops, trouble>>

(* The list as it is in the file, with the dictionary just imported.       *)
Read ==
    /\ app.plan # <<>> /\ Step = "read"
    /\ app' = [app EXCEPT !.plan = Tail(@),
                          !.entries = IF app.dialog
                                      THEN [ReadManagedDictionaryManifest EXCEPT ![app.name] = "on"]
                                      ELSE ReadManagedDictionaryManifest]
    /\ UNCHANGED <<disk, switches, owed, sync, engine, history, ops, trouble>>

\* Mutant: nothing to import, nothing to write.
SelectKeepsFiles ==
    /\ app.plan # <<>> /\ Step = "select"
    /\ LET tables == EnabledTables(app.flags, app.entries, UserLexiconHasEntries) IN
       app' = [app EXCEPT !.tables = tables,
                          !.plan = IF tables = {} THEN <<"end">>
                                   ELSE <<"wanxiang", "wanxiang_pro", "end">>]
    /\ UNCHANGED <<disk, switches, owed, sync, engine, history, ops, trouble>>

Select ==
    /\ app.plan # <<>> /\ Step = "select"
    /\ LET tables == EnabledTables(app.flags, app.entries, UserLexiconHasEntries) IN
       app' = [app EXCEPT !.tables = tables,
                          !.plan = IF tables = {} THEN <<"drop", "end">>
                                   ELSE <<"wanxiang", "wanxiang_pro", "end">>]
    /\ UNCHANGED <<disk, switches, owed, sync, engine, history, ops, trouble>>

\* The aggregates are removed one by one; errors are not looked at.
Drop(kept) ==
    /\ app.plan # <<>> /\ Step = "drop"
    /\ kept \subseteq Schemas
    /\ disk' = [f \in Files |-> IF f \in Schemas \ kept THEN NoFile ELSE disk[f]]
    /\ app' = [app EXCEPT !.plan = Tail(@)]
    /\ IF kept = {} THEN UNCHANGED <<off, upset, trouble>>
       ELSE /\ Trouble
            /\ off' = off \cup {"failed"} /\ upset' = TRUE
    /\ UNCHANGED <<switches, owed, sync, engine, wish, lost, ops>>

\* RemoveManagedDictionaryFile; a file in use stays.
Remove(t, gone) ==
    /\ app.plan # <<>> /\ Step = "remove" /\ t \in Removed
    /\ IF gone THEN UNCHANGED trouble ELSE Trouble
    /\ disk' = IF gone THEN [disk EXCEPT ![t] = NoFile] ELSE disk
    /\ app' = [app EXCEPT !.plan = Tail(@), !.rows[t] = "none"]
    /\ UNCHANGED <<switches, owed, sync, engine, history, ops>>

(* An import that fails shows its error, and one that succeeds reads the   *)
(* rows again; all other operations tell the engines whatever happened.    *)
End ==
    /\ app.plan # <<>> /\ Step = "end"
    /\ app' = [app EXCEPT !.plan = <<>>,
                  !.rows = IF ~app.dialog THEN NoEntries
                           ELSE IF app.ok THEN ReadManagedDictionaryManifest ELSE @]
    /\ owed' = (owed \/ app.ok \/ ~app.dialog)
    /\ wish' = IF app.dialog /\ app.ok THEN [wish EXCEPT ![app.name] = "on"] ELSE wish
    /\ UNCHANGED <<disk, switches, sync, engine, off, lost, upset, ops, trouble>>

(* ResetDefaultSettings turns both switches on and leaves all files alone. *)
ResetDefaultSettings ==
    /\ app.plan = <<>> /\ ~app.dialog /\ Op
    /\ switches' = [user |-> TRUE, imported |-> TRUE]
    /\ owed' = TRUE
    /\ off' = off \cup {"reset"}
    /\ UNCHANGED <<disk, app, sync, engine, wish, lost, upset, trouble>>

(* The window is closed, or the application ends in the middle of an       *)
(* operation: the thread that waits to post the message dies with it.      *)
CloseApp ==
    /\ app.plan # <<>> \/ owed
    /\ app' = Idle /\ owed' = FALSE
    /\ lost' = TRUE
    /\ IF app.plan = <<>> THEN UNCHANGED <<off, upset, trouble>>
       ELSE Trouble /\ off' = off \cup {"failed"} /\ upset' = TRUE
    /\ UNCHANGED <<disk, switches, sync, engine, wish, ops>>

-----------------------------------------------------------------------------
(* RestorePlainPackage: the settings first, then every file the package    *)
(* holds, in any order; a file it does not hold is left alone.             *)
Holds(o) == {f \in Files : o.disk[f] # NoFile}

BeginRestore(o) ==
    /\ ~sync.on /\ Op
    /\ switches' = o.switches
    /\ sync' = [on |-> TRUE, todo |-> Holds(o), file |-> NoFile, other |-> o,
                whole |-> {List, UserWords} \cup Schemas \subseteq Holds(o)]
    /\ off' = {"restored"} \cup IF sync'.whole THEN {} ELSE off
    /\ upset' = (upset \/ app.plan # <<>>)
    /\ UNCHANGED <<disk, app, owed, engine, wish, lost, trouble>>

OpenRestored(f) ==
    /\ sync.on /\ sync.file = NoFile /\ f \in sync.todo
    /\ disk' = [disk EXCEPT ![f] = Truncated(f)]
    /\ sync' = [sync EXCEPT !.file = f, !.todo = @ \ {f}]
    /\ off' = off \cup {"restored"}
    /\ UNCHANGED <<switches, app, owed, engine, wish, lost, upset, ops, trouble>>

FillRestored ==
    /\ sync.on /\ sync.file # NoFile
    /\ disk' = [disk EXCEPT ![sync.file] = sync.other.disk[sync.file]]
    /\ sync' = [sync EXCEPT !.file = NoFile]
    /\ off' = off \cup {"restored"}
    /\ UNCHANGED <<switches, app, owed, engine, wish, lost, upset, ops, trouble>>

\* The program that called it posts the message.
EndRestore ==
    /\ sync.on /\ sync.file = NoFile /\ sync.todo = {}
    /\ sync' = [sync EXCEPT !.on = FALSE, !.other = NoFile]
    /\ engine' = [engine EXCEPT !.timer = engine.hears]
    /\ lost' = (lost \/ ~engine.hears)
    /\ wish' = IF sync.other.disk[List] = NoFile THEN wish ELSE sync.other.disk[List]
    /\ off' = IF sync.whole /\ ~upset THEN off \ {"restored"} ELSE off
    /\ UNCHANGED <<disk, switches, app, owed, upset, ops, trouble>>

RestoreFails ==
    /\ sync.on /\ Trouble
    /\ sync' = [sync EXCEPT !.on = FALSE, !.file = NoFile, !.todo = {}, !.other = NoFile]
    /\ lost' = TRUE /\ upset' = TRUE
    /\ UNCHANGED <<disk, switches, app, owed, engine, wish, off, ops>>

-----------------------------------------------------------------------------
(* The engine.  The message starts a timer in the text services; the       *)
(* restart it leads to builds everything anew.                             *)
PostApply ==
    /\ owed /\ owed' = FALSE
    /\ engine' = [engine EXCEPT !.timer = engine.hears]
    /\ lost' = (lost \/ ~engine.hears)
    /\ UNCHANGED <<disk, switches, app, sync, wish, off, upset, ops, trouble>>

Deploy == [engine EXCEPT !.hears = TRUE, !.timer = FALSE, !.busy = TRUE, !.of = Chosen]

\* Mutant: the restart is an ordinary start, which deploys for other settings only.
TimerFiresUnforced ==
    /\ engine.timer
    /\ engine' = IF engine.busy \/ (engine.of = Chosen /\ engine.built # NoFile)
                 THEN [engine EXCEPT !.timer = FALSE] ELSE Deploy
    /\ lost' = engine.busy
    /\ UNCHANGED <<disk, switches, app, owed, sync, wish, off, upset, ops, trouble>>

TimerFires ==
    /\ engine.timer
    /\ engine' = IF engine.busy THEN [engine EXCEPT !.timer = FALSE] ELSE Deploy
    /\ lost' = engine.busy
    /\ UNCHANGED <<disk, switches, app, owed, sync, wish, off, upset, ops, trouble>>

\* An application starts: only other settings, or no built dictionary, make it deploy.
StartEngine ==
    /\ ~engine.hears
    /\ IF engine.built # NoFile /\ engine.of = Chosen
       THEN engine' = [engine EXCEPT !.hears = TRUE] /\ UNCHANGED lost
       ELSE engine' = Deploy /\ lost' = FALSE
    /\ UNCHANGED <<disk, switches, app, owed, sync, wish, off, upset, ops, trouble>>

StopEngine ==
    /\ engine.hears /\ ~engine.busy /\ Op
    /\ engine' = [engine EXCEPT !.hears = FALSE, !.timer = FALSE]
    /\ lost' = (lost \/ engine.timer)
    /\ UNCHANGED <<disk, switches, app, owed, sync, wish, off, upset, trouble>>

Compile ==
    /\ engine.busy
    /\ engine' = [engine EXCEPT !.busy = FALSE, !.built = Compiled(engine.of.use)]
    /\ UNCHANGED <<disk, switches, app, owed, sync, history, ops, trouble>>

-----------------------------------------------------------------------------
UserStep ==
    \/ \E k \in {"user", "imported"}, saved \in BOOLEAN : Toggle(k, saved)
    \/ \E c \in Contents : EditWords(c)
    \/ OpenDialog \/ Cancel \/ Done \/ ResetDefaultSettings
    \/ \E t \in Tables, state \in {"off", "on", "removed"} : ChangeRow(t, state)
    \/ \E t \in Tables, c \in Contents : ImportManagedDictionary(t, c)
AppStep ==
    \/ Open \/ Fill \/ Read \/ Select \/ End \/ CloseApp \/ PostApply
    \/ \E noticed \in BOOLEAN : WriteFails(noticed)
    \/ \E kept \in SUBSET Schemas : Drop(kept)
    \/ \E t \in Tables, gone \in BOOLEAN : Remove(t, gone)
SyncStep ==
    \/ \E o \in Others : BeginRestore(o)
    \/ \E f \in Files : OpenRestored(f)
    \/ FillRestored \/ EndRestore \/ RestoreFails
EngineStep == TimerFires \/ StartEngine \/ StopEngine \/ Compile

Next == UserStep \/ AppStep \/ SyncStep \/ EngineStep
Spec == Init /\ [][Next]_vars

-----------------------------------------------------------------------------
(* Whatever was written halfway before: once an operation has put the      *)
(* files in order, both aggregates import exactly what the switches, the   *)
(* list and the user's words say, until a write fails, the defaults are    *)
(* restored or a package without all of these files is (lexicon_store.cpp: *)
(* 328-374).                                                               *)
AggregatesCurrent ==
    AtRest /\ off = {} => \A s \in Schemas : disk[s] = Aggregate(Wanted)

(* Every dictionary the list or an aggregate names is there and whole, so  *)
(* that Rime can build, although the files of removed dictionaries go      *)
(* before the list does: until something is written halfway, or by two     *)
(* programs at a time (lexicon_dialogs.cpp:272-286).                       *)
Deployable ==
    AtRest /\ ~upset =>
        /\ \A t \in Tables : ListOf(disk)[t] # "none" => disk[t] \in Contents
        /\ \A s \in Schemas : disk[s] # NoFile =>
              disk[s] # Cut /\ \A t \in disk[s].imports : disk[t] \in Contents

(* No dictionary leaves the list, and none is switched, except as the user *)
(* confirmed it: writing the aggregates for another reason, and importing, *)
(* keep the rest of the list (lexicon_store.cpp:413-420).                  *)
EntriesKept == AtRest /\ ~upset => ListOf(disk) = wish

\* Nothing is under way, and every message has been answered by an engine.
Told == AtRest /\ ~owed /\ engine.hears /\ ~engine.timer /\ ~engine.busy /\ ~lost
InForce == engine.built = [t \in Wanted |-> disk[t]]

(* The engine knows what the user sees: when no message is on its way, the *)
(* built dictionary holds the tables that are switched on as they are now  *)
(* (rime_engine.cpp:1546-1563).  lost excludes messages that nobody heard, *)
(* that came during a restart or whose sender was closed within 360 ms.    *)
LexiconsInForce == Told /\ ~upset /\ off = {} => InForce
=============================================================================
