# FluentPinyin in TLA+

FluentPinyin is a Windows input method. Its text service (a DLL in every application that has a text
field) talks over named pipes to CoreHost processes, which run the Rime engine. Settings are kept in
one text file that several processes write, engine data is deployed under a build signature, and
settings and dictionaries are synchronised between devices through WebDAV or S3.

This directory holds TLA+ models of the parts of that system whose correctness depends on the order
in which threads, processes, messages and devices act, the TLC configurations that check them, and proofs that
TLAPS checks. File names below are relative to `src/src` of the repository unless they begin otherwise.

## 1. Inventory

| Component | State it keeps | Operations | Modelled |
|---|---|---|---|
| CoreHost IPC: `tsf/rime_core_client.cpp`, `corehost/main.cpp` | the secret of a launch, the mutex, the named pipe, where each call stands | calls of RimeCoreClient, launch, watchdog, crash, shutdown | `CoreHostIpc` |
| Core command service: `CoreHostState` | `engine_` and its options | initialize, set option, candidate page, choice, redeploy, shutdown | `CoreCommands`, `CoreService` |
| IPC encoding: `common/core_ipc_protocol.cpp` | none | encode, decode, limits | only that a message arrives whole or not at all |
| Rime deployment: `core/rime_engine.cpp` | managed configuration files, `.build-signature`, staging folders, deploy mutex | Initialize, Redeploy, Shutdown | `RimeDeploy` |
| Rime sessions, pages, choices: `core/rime_engine.cpp` | the session's input and page | candidate page, choice, option | `CandidateWindow` |
| Settings store: `common/settings_store.cpp` | `settings.ini`, a copy in every process with the write time it was read at | read, write, reset, sync restore | `SettingsStore` |
| Synchronisation: `sync/sync_service.cpp`, `config_winui/sync_*.cpp` | packages, backups, watermark, switches | auto sync, upload, download, backup, restore | `AutoSync` |
| Text service, composition: `tsf/tsf_text_service.cpp` | `composition_input_`, `composition_`, `preedit_length_`, `candidates_`, ... | keys, clicks, edit sessions, focus, termination | `TextService` |
| Text service, engine life cycle | `service_active_`, `rime_ready_`, `rime_restart_requested_`, `ref_count_`, the options | activation, warm-up, restart, reload, shutdown, messages | `RimeSession` |
| Input mode: `tsf/input_mode_state.cpp`, `tsf/tsf_text_service.cpp` | `ascii_mode_`, `caps_lock_ascii_mode_` and the other defaults in every application; the same in `settings.ini` | Shift, CapsLock, toolbar, menus, focus, refresh messages | `InputMode` |
| Candidate pages and selection: `tsf/tsf_text_service.cpp`, `tsf/candidate_layout_math.cpp` | `candidate_page_index_`, `selected_candidate_index_`, `expanded_candidate_window_`, the record of the last query | arrows, digits, clicks, paging, expansion, redrawing | `CandidateWindow` |
| Toolbar window: `tsf/tsf_text_service.cpp`, `tsf/toolbar_model.cpp` | owner mutex, window; mouse, drag, position, layout and items | show, hide, watch timer; mouse messages, drag, tooltips | owner and visibility in `InputMode`, the rest in `FloatingWindows` |
| Context menu, status tip, language bar button: `tsf/context_menu_model.cpp`, `tsf/status_tip_model.cpp`, `common/status_tip_blacklist.cpp` | the menu's and submenu's rows, the tip and its timer, the list of applications without tip | open, move, choose, dismiss; show, hide | `FloatingWindows` |
| Shortcuts: `config_winui/hotkey_*.cpp`, `tsf/shortcut_model.cpp` | the recorder's label, tooltip and pending key; `input_mode_shortcut_down_` | record, clear, reset; parse, match, switch the mode on release | `Shortcuts` |
| Lexicon store: `config_winui/lexicon_store.cpp`, `config_winui/lexicon_dialogs.cpp` | the list of dictionaries, the dictionaries, two aggregates that import them; two switches | switch, import, enable, remove, edit words, reset | `LexiconStore` |
| Installer, registration, cleanup: `installer/fluent-pinyin.wxs`, `devtools/*.cpp`, `tsf/registration.cpp` | registry keys, files and pending file operations, processes, data, scheduled task | install, upgrade, roll back, remove, boot | `Installation` |
| Updater: `updater/main.cpp` | the downloaded installer | query, compare, download, verify, launch | in `Installation` |
| Settings application: default modes, `config_winui/general_page.cpp` | what is still to be posted | choose, post | in `InputMode`; what it announces, in `RimeSession` |
| Settings application (the rest), tray icons | windows and option tables | pages and dialogs | no: what they write is an update of `SettingsStore` |
| Logging, paths, encoding, theme, fonts, dpi | log files | conversions | no |

How they interact. A key reaches `TsfTextService::HandleKey` on the application's thread. It changes
the composition, asks `RimeCoreClient` for a page of candidates while it holds `rime_mutex_`, and
writes to the document in synchronous edit sessions that the application may refuse. The client finds,
or launches, the application's CoreHost and sends one request over one connection. The host's
engine reads the settings, writes Rime's configuration files, deploys when they changed, and answers.
The settings application writes `settings.ini` and posts a broadcast; every text service reads the
settings again, or, 800 ms after the last "apply", restarts its engine on a thread of its own. The sync
task and the settings window replace `settings.ini` as a whole and write the package's files over Rime's user
data; files the package lacks stay. The text service's
small windows (toolbar, candidates, menu, tip) belong to the application's thread, share one mouse
capture and read and write the same settings as everybody else. The installer stops all of these
processes, or has Windows replace their files at the next boot.

What is hard:

- *interleaving*: applications that write and read the mode key by key while messages tell each other to;
  two threads of an application that launch a host at once; processes that deploy one
  user folder; processes that merge into one settings file; clicks and the scheduled task that
  synchronise at once; the restart thread against the keys;
- *failure*: a host, its parent or a deploying process ends at any point; a lock is not obtained in
  time; a file cannot be written; an edit session is refused; a run of the sync task is cut off;
- *staleness*: a settings copy judged by its write time; a cache judged before the mutex is taken;
  candidates of an engine that has gone; a page of candidates cut to a size that is no longer the
  setting; a package that is newer than the one compared;
- *partial failure*: several files that belong together are written in place one after another;
- *messages*: the notices of Windows about a mouse that leaves or a capture that is lost come after the
  window they are about has been hidden or destroyed; the release of a modifier comes when the keys
  between went elsewhere;
- *ordering*: what one installation left for the next boot and the next installation; the signature before the build, the watermark before the restore, the backup before the
  overwrite, the commit of a part before the preedit of the rest.

What makes the components correct: one engine per application and no command performed twice
(CoreHost); no update lost and no stale copy trusted (settings); no start that accepts an old build
(deployment); no edit lost and no mixture of devices uploaded (synchronisation); text that is written
stays and letters come out once and in order (text service); what is chosen was shown (candidates);
one toolbar and, once messages are
handled, one mode everywhere (input mode); list, dictionaries and aggregates that agree, and an engine
built from them (lexicons); no stuck highlight, no lost drag (floating windows); what is recorded is
recognised, and a modifier switches the mode only alone (shortcuts); files that survive a boot and a
registration that goes with the product (installation).

## 2. Plan

Order of work, the most important behaviour first:

1. `CoreCommands`, `CoreService`, `CoreHostIpc`: done, checked, safety and refinement proved.
2. `SettingsStore`: done, checked, proved.
3. `RimeDeploy`: done, checked, proved.
4. `AutoSync`: done, checked; proved. Left: clocks that disagree; that the last edit reaches every device.
5. `TextService`: done, checked, proved. Left: what a handler finds when a restart falls between two of its
   lock sections; edit sessions that fail halfway.
6. `InputMode`: done, checked, its safety properties proved. It also holds what was planned as
   `ToolbarOwner`.
7. `RimeSession`: done, checked, proved. Left: that a change of the settings takes effect in the end
   when nothing more goes wrong; its engine as an instance of `CoreService`.
8. `CandidateWindow`: done, checked, proved. Left: what a change of the settings does to a choice between
   the next redrawing and the next request (`ChoiceIsShown` excludes it).
9. `LexiconStore`: done, checked, proved.
10. `FloatingWindows`: done, checked, proved.
11. `Shortcuts`: done, checked, proved.
12. `Installation`: done, checked, proved.
13. Not begun: requests and answers of WebDAV and S3, byte layout of IPC messages, geometry of the windows.

Abstract specifications: `CoreService` (what a caller of the client relies on) is implemented by
`CoreHostIpc`. A document that only ever grows by committed letters
is the candidate for `TextService` to implement.

Bounds: two of everything that competes (threads, processes, devices, text fields), enough steps for
each to overtake the other once, and one or two failures anywhere. Theorems: first types, then the
inductive strengthening of each safety property, then refinement; modules with theorems use no
RECURSIVE operator and take all sizes as constants.

## 3. Modules and the code

Every module names the file it models in its header, and its actions have the names of the functions or
of the steps inside them. A function that takes a lock, sends or receives a message, or writes a file
is cut there; between two cuts it is one action with all of its assignments. Operators with `Mutant` in
their comment are the same definition with a plausible bug; each property of a passing run is violated
under one of them, and they take no part in the specifications.

**CoreCommands** says what `CoreHostState::Handle` does to an engine: the set of results (new engine,
reply) of each command. An engine is absent or has options.

**CoreService** is the abstract service: a call is submitted, performed at most once, answered or given
up; the engine of an application may be lost at any time.

**CoreHostIpc** has one process counter per client thread (`pc`: probe, launch, launched, await, open,
connected, sent: the steps of `SendRequest` and `EnsureHostRunning`) and one per host (`phase`: the steps
of `RunCoreHost`). The kernel objects are what the states imply: the mutex exists while a host past
`CreateMutexW` lives, a pipe instance while its host listens or serves (`MutexExists`, `PipeExists`,
`PipeListening`). `link` and `peer` are the two ends of a connection. A broken end is noticed by the
other side in a step of its own.

**SettingsStore**: `file`, `stamp` are the disk; `loaded`, `seen`, `lines` the copy of each process. A write
is `BeginWrite` (lock, load when stale, enter the updates), `Replace` (temporary file and rename) and
`Acknowledge` (remember the new time, unlock); a read is `BeginLoad` and `Load`, or `LoadTimesOut`.

**RimeDeploy**: `Initialize` reads the settings (`sel`), `WriteSupport` reads them again (`own`) and writes
the files for all schemes, `WriteCustom` the selected scheme's; `Check` judges the cache; `Acquire`,
`GoOn` or `LockTimesOut` deal with the mutex; `Prepare` signs, `Deploy` builds, `Start` starts librime.
The settings change at any time (`Edit`), between two steps of a start too. A build carries what it was
made from, so that an old build can be told from a right one. `torn` is a history variable: a start whose
two readings of the settings named different schemes.

**AutoSync**: a device's data are the edits its settings and each file of its dictionaries contain; `run[d][a]` is where
the scheduled task (`auto`) and the window (`hand`) stand in download, watermark, backup, restore of the
settings, restore of the dictionaries file by file (`left`: those to come; a file that the package does not have
stays), packing and upload. The watermark and the switch for user data are
lines of `settings.ini` and travel with it.

**TextService**: the state of one service is the record `ts` with the members of `TsfTextService` and the
documents. Each edit session yields the set of its results, refused or not, and the service's own
functions (`UpdatePreedit`, `CommitText`, `CancelComposition`, `CommitTextAndContinueComposition`, ...)
map a state to the set of states they can lead to, in the order of the calls in the code. A key is one
action; it first enters the context it comes from (`Entered`), but for a mode key, which commits before the
contexts are compared: `strayed` is a history variable that says that one came from another field than the input's.

**InputMode**: `file` is `settings.ini`, `memory[s]` the copy of the text service in application `s`. The
handlers of the user interface threads are lists of tasks (`todo[s]`: read a key, write a key, post a
message, deal with the toolbar window, compare), named after the functions they stand for
(`ApplyInputStateFromSettings`, `PersistInputModeDefaults`, `LoadUserSettings`, ...); `Step` does one task, so
that the accesses of all applications to the file interleave. `inbox[s]` is the message queue of the
control window: `Post` appends to every queue, that of the sender included, as `HWND_BROADCAST` does.
`windows` and `owner` are the toolbar windows and the mutex. `cut` is a history variable: whether a handler was cut
off by a crash.

**CandidateWindow**: `ts` has the members of one text service that concern candidates, and the session
it shares with the other text services of its process: `typed` and `at` are Rime's (letters typed, page),
`input` and `page` are `session_input_` and `session_page_index_`. `GetCandidatePage` and
`SelectCandidate` walk Rime's pages as the loops of `core/rime_engine.cpp` do; `walk` in the first is the
loop, one turn of it `Collect`. `RefreshCandidates`, `ShowCandidateWindow` and `CommitCandidate` map a state to
the set of states they can lead to. `shown` holds `candidates_` together with the input and the ranking they
were fetched for, which the code does not store; `last` is `last_candidate_query_...`. The geometry is
abstracted to `Monitors`: how many candidates fit in the first line if its first one is long, and in the
others; `Line` and `Place` are then rows and columns, exchanged in a vertical window.

**RimeSession**: the text services of one process and their one engine. A service's record has the members
of the same names; `at` says for each of its three threads (its own, the warm-up, the restart) whether it
waits for `rime_mutex_`, holds it or ends, `plan` which commands the holder has yet to send. A use of the
engine is one `Enter`, which takes the mutex and decides what to send as the code does under the lock, then one
`Call` (or `CallFails`) for every command, and `Answered` is what the client and the service keep of a reply. So
the uses of one service exclude each other, and those of different services interleave command by command.
`inbox` and `timer` are the message queue and the 800 ms timer of the control window. `saved` is what
`settings.ini` holds of the configuration, counted, and of two options: one that the toolbar refresh reads
(`mode`) and one that `LoadUserSettings` reads (`abbrev`). `missed` and `trouble` are history
variables: why the engine may have an old configuration, and what went wrong; `ahead` says that a service
has read an option without setting it.

**LexiconStore**: `disk` holds the files (the list `fp_user_dicts.txt`, the dictionaries, the two
aggregates that make Rime import them), each either what it says or `Cut` while it is open for writing; `switches`
the two lines of `settings.ini`. `app` is the settings application: `plan` is what the function it is in
has yet to do, one step for each file it reads, writes or removes, in the order of the code, and `rows` what
its dialog shows. Every write is `Open`, which truncates, and `Fill`, so that failures (`WriteFails`), the
end of the application (`CloseApp`: a crash, or the window closed before the deferred message is posted) and a
restore (`sync`, file by file) fall between them. `engine` has the message, the 800 ms timer and what was
built; an ordinary start builds when the fingerprint of the settings changed, a message forces it. `wish`
is what the user asked for, `off`, `lost` and `upset` say what went wrong: a failed write, a reset or a
restore; a message nobody heard; an overlap of two writers.

**FloatingWindows**: the small windows of one application. `mouse[w]` is what the toolbar and the
candidate window know of the mouse (`hovered_...`, `pressed_...`, `..._mouse_tracking_`), the tooltip
they show, and, which is Windows' and not theirs, whether a notice of the mouse's leaving is owed (`armed`).
`capture` is the window that has the mouse, `menu` the menu with its hovered row and submenu, `bar` and `saved` the
toolbar's position and look in memory and in the settings, `tip` the status tip. One action is one message
of a window procedure or one call from the text service. What Windows does is external: which window gets
a message, that a window which gets a move is told after the one before was told that the mouse left,
and that a window destroyed with the capture may or may not be told. `orphaned`, `leaked` and `disturbed`
are history variables: a window destroyed with the mouse still in its record, one hidden with the capture,
and a position that was read or written behind the toolbar. `WildcardMatch` is the function of the same
name; an assumption of the MC module compares it with what the wildcards mean.

**Shortcuts**: the settings application's recorders and the text service, which share a text in
`settings.ini`. `file[s]` is that text, a sequence of tokens, `lines[s]` what the settings application's store has
of it: a write that fails leaves its text there (`StoreWrites`), where the page reads it (`Seen`), a repetition
finds nothing to write, and the next write of any setting saves it (`WriteOtherSetting`). Other programs replace the
file while the page is open (`OtherWrites`). `label`, `tip` and `pending` are what the recorder
of `s` shows and remembers, `down` the keys held, `armed` the modifier whose release will switch the mode. `failed`,
`behind` and `others` are history variables: a recorder shows what was not saved; its setting was changed by another
program; a key was handled since the modifier was armed. The last is kept by `Remembers` apart from what
`HandleKey` decides, so that `ModifierAlone` compares the two. Tables of both programs
are translated as sets of pairs; an assumption of the MC module compares them for every key with every set
of modifiers. A key the host does not hand over (`OnTestKeyDown` said no) reaches no other function.

**Installation**: `job.todo` is what the installer has yet to do, a sequence of steps concatenated from
those of the custom actions (`PrepareInstall`, `CleanupInstall`, ...) in the order of `InstallExecuteSequence`;
each step is one action, between two of which applications load the text service, core hosts start,
settings are saved and the updater goes on. `pending` is `PendingFileRenameOperations` as it is stored, a flat
list with an empty target (`Empty`) for a deletion, so that reading it in pairs and writing it back is part of
the model; `Kept` is what the filter leaves of the pairs, `Others` the files of other programs, and `Alike` those of
them whose paths the filter takes for ours, because it looks for a part of the path. An upgrade removes the old version in a transaction of
its own (`installer/fluent-pinyin.wxs:9-12` schedules it after InstallValidate), so that a failure after it brings nothing
back: `Rollback` restores what the running transaction began with. What Windows Installer does (files in use, roll-back, boot) is
external. `excused`, `broken` and `stranded`
are history variables: a process of ours acted during or after a cleanup; a registration failed half way; an upgrade
has removed the version that the machine's keys are of.

## 4. Runs

| Run | Instance | What it shows |
|---|---|---|
| `core_host` | 1 application, 2 threads, 2 hosts at a time, start and stop of the engine, one mishap (crash, failed launch or opening of the pipe, shutdown call); one thread's waits may expire at once | `LostHasCause`, refinement of `CoreService`, `CallReturns` under fairness |
| `settings_store` | 2 processes, 2 keys, 2 values, 3 writes, one crash, failed write or timeout, sync restores | `NoLostUpdate` |
| `deploy_shared` | 2 processes, 2 schemes, 2 extras, 2 changes of the settings at any time, one failure | `CacheHonest` |
| `auto_sync` | 2 devices, one not sharing user data, 1 edit each, 2 uploads, 1 cut-off, 1 click | `EditsKept`, `WholeUploads` |
| `text_service` | 2 fields, 3 letters, 2 failures, 2 engines, mode keys from either field | `InOrder`, `InputShown`, `TextKept` |
| `input_mode` | 2 applications, 1 default besides the mode, 2 choices of the user or failed writes, queues that do not fill | `Agreed`; `Quiet`, `HiddenEverywhere` under fairness |
| `candidate_window` | 9 and 4 candidates for one and two letters, Rime's pages of 2, walks of 4 pages, 2 page sizes, 1 line of up to 3 more when expanded, 2 monitors | `RecordHonest`, `ChoiceIsShown`, `NextPageHolds`, `ArrowsReachAll`, `DigitsAsDrawn` |
| `rime_session` | 2 text services, the user in one, 2 changes of the settings (1 of an option) or things going wrong | `Alive`, `ReadyIsInitialized`, `ConfigInForce`, `OptionsInForce` |
| `lexicon_store` | 1 imported dictionary and the user's words, 2 contents, 2 operations, 1 failure, close or restore | `AggregatesCurrent`, `Deployable`, `EntriesKept`, `LexiconsInForce` |
| `floating_windows` | 1 tool of the candidate window, 2 items of the toolbar, 2 places, 1 choice of the look, 3 rows of each menu, the candidate window destroyed under the mouse and created again | `HeldMouse`, `TooltipsEnd`, `SavedIsShown` |
| `shortcuts` | 2 settings of the toolbar (the mode: Shift; the shape: Shift and full stop), left Shift, the full stop, Escape, CapsLock, 2 writes, by the page, where each may fail, the rest of the application or another program | `ConflictTold`, `LabelsHonest`, `ModifierAlone`, `RecordedIsRecognised` |
| `installation` | 2 applications, one of which may not be closed, 2 versions, a list with operations of our own, of others and of a path that looks like ours, 2 jobs and the boots between | `SurvivesReboot`, `NothingLeft`, `RegistrationMatches`, `OthersKept` |

`CandidateWindow` (`CandidateTypeOK`), `TextService` and `LexiconStore` (`TypeOK`) also check their types in their runs. Properties
that are proved and follow the same argument as one that is run (`OneOwner`, `EndsAgree`, `CopyIsCurrent`,
`DeployUndisturbed`, `DeployersServeFiles`, `OneToolbar`, `OwnedIsEnglish`, `SubmenuOfRow`, `StatusTipAlone`)
have no run of their own.

Why the bounds are enough to be worth something. Two threads are what a text service has (the
application's and the warm-up or restart thread); a third host cannot get past the mutex differently from
the second. In `core_host` the commands that neither start nor stop an engine (queries, choices, options) are left out: they take
the path through client and host that a start takes, once the client has started an engine; the theorem `Refinement` is about all of them. Two processes suffice for one to write, sign or build between any two steps of the other;
three writes let a process read, be overtaken and write. Two devices with one cloud file overtake each
other in every step; the second failure, where it matters, is named under the property (`WholeUploads`
fails with two cut-offs; with three devices it also fails when an upload takes longer than two rounds of the
others, `late`, which two devices cannot show and the proof did). Three letters give a candidate for a part of the input, the rest, and one
letter after the partial commit; two fields let the user leave a composition behind; `text_service` also
passes with three refused sessions (too long for a routine run). In `input_mode` one default stands for the
three (characters, shape, punctuation), which are read and written by the same calls one after another; two
choices, which include the focus changes, ends and crashes, let each application act while the other
handles what the first did. Its queues hold eight messages and never fill; the theorem about `Agreed` holds
for any limit. `candidate_window` keeps the proportions of the code (Rime's page is smaller than the
window's, a walk reaches most candidates but not all, long candidates stand first and in the middle), so that
pages straddle Rime's, are cut off on a first and on a later page, and end beyond the reach of a walk. It
has one order of the candidates; a smaller instance in which learning reverses the order also passes (the
properties ask for the order the candidates were fetched in). In `rime_session` the second service is the one nobody types in:
it warms up, hears messages, restarts and leaves while the first is used. `MaxEvents` bounds changes and
mishaps together (the choices of modes on the general page are announced like `super_abbrev` and left out): two changes let the second come while the restart for the first is under way, one change
and one mishap let the mishap hit every step of a restart. In `lexicon_store` the second operation
finds every state the first one can leave, cut off or not, and the trouble falls into either; an import may
carry the name of the user's words, as it may in the code. In `floating_windows` the tool of the
candidate window is there only when there is another page (`next`), so that a tool can go away under the mouse
(an instance with a second tool, which is always there, also passes, in twice the time); of the toolbar and the candidate window only
the second comes back after it was destroyed under the mouse (`Reborn`; the toolbar's flags behave alike).
In `shortcuts` two
settings can come to conflict, be cleared and reset, and two writes let one fail, be repeated (which writes nothing and is not
counted), and then another program or another setting write. To keep the run short, several modifiers held at once are left to `TablesAgree` and the theorems, and so is a
setting of the candidate window, which only adds keys that are claimed while something is composed. In
`installation` two jobs are an installation and its upgrade or removal, in every order and with a boot
between, the first of which already finds what an older version left for the next boot. The theorems below have no bounds.

`CHECK_DEADLOCK FALSE` stands where the system may stop: an application ends, and the bounds on
writes, letters and clicks run out. `deploy_shared` and `rime_session` check for deadlock.

**Fairness** is used by `FairSpec` of `CoreHostIpc` and of `InputMode`. In `InputMode` the message loops
run on, the 600 ms timer of a toolbar window fires and the settings window posts what it owes (weak
fairness); what users do and crashes are not fair. In `CoreHostIpc` threads and host processes are scheduled (weak
fairness of a client's step, a host's step and the watchdog). Two steps are strongly fair: `CreateProcess`
succeeds some time (the number of processes in the model is bounded, that of Windows is not in this
sense), and the loop that reopens the pipe ends at its deadline (`GetTickCount64` against a fixed time),
however often it finds the pipe missing. Crashes and the death of the application are not fair.

## 5. Known disagreements

Met while modelling; they are in the models, and the properties say where they stop short of them.

- a restart from the menu clears `composition_input_` and leaves `composition_`
  (`tsf/tsf_text_service.cpp:9801`); `Backspace` then calls `pop_back` on an empty string (`:7598`), undefined
  behaviour in the application's process, although `docs/project-optimization-plan.md:58` asks for no
  crashes. `ts.undefined` of `TextService` marks the state; TLC reaches it with two letters and nothing refused;
- `OPTIMIZATION_PLAN_00.00.08.md:45-47` says that CapsLock returns to Chinese only if CapsLock
  created the English state, and that English chosen by Shift or the toolbar is preserved. Every change of
  the mode posts a refresh to all control windows (`tsf/tsf_text_service.cpp:236`), the sender's too, whose
  handler forgets who created the state (`:6991`): CapsLock on and off in Chinese mode ends in English.
  Before that message is handled, CapsLock over an English mode chosen by Shift ends in Chinese
  (`tsf/input_mode_state.cpp:8`);
- the page of shortcuts clears a setting by writing an empty text, and `WriteSettingLine`
  (`config_winui/settings_binding.cpp:18`) leaves a file alone that has no such line: the label says that there is no shortcut, the default stays in
  force (`docs/project-optimization-plan.md:105` asks that settings take effect). `LabelsHonest` excludes it;
- a text whose write failed stays in the store's `lines_` (`common/settings_store.cpp:353`): the page shows it from then on,
  pressing the same keys again writes nothing (`config_winui/settings_binding.cpp:19`), and the next write of any other setting
  saves it. A file that a restore or the sync task puts in place leaves the labels of an open page as they were
  (`config_winui/settings_app.cpp:243`; nothing is shown again after `config_winui/sync_settings_actions.cpp:119`).
  `LabelsHonest` and `ConflictTold` are about recorders that are `UpToDate`: neither `failed` nor `behind`;
- keys that `OnTestKeyDown` does not claim never reach `OnKeyDown`, so that Shift with an arrow, Shift with a
  letter in English mode or, with Ctrl as the shortcut, Ctrl+C end in a change of the mode when the modifier
  is released (`tsf/tsf_text_service.cpp:7470`); a change of the focus does not disarm it either. A
  shortcut for the mode that is no modifier switches again with every repetition of the key (`:7483`);
- the toolbar's and the candidate window's `hovered_...`, `pressed_...` and tracking flags outlive a window
  that is destroyed under the mouse (`:9998`, `:11106`): the next window never asks again to be told that the mouse
  leaves, and its highlight and tooltip stay. A candidate window that is hidden with a tool pressed keeps
  the capture (`:11093`). `HeldMouse` and `TooltipsEnd` exclude these (`orphaned`, `leaked`);
- a layout or a set of items chosen before the toolbar was ever dragged is shown but not saved with a
  position, and settings read during a drag overwrite the position in memory (`:6897`, `:9935`). `SavedIsShown`
  is about bars that were moved and not `disturbed`;
- `RemoveStalePendingDeletes` (`devtools/registry_utils.cpp:330`) drops renames as well as deletions that name
  our files, and those of any program whose path contains `\FluentPinyin` or the name of a bundled font file
  (`:324-340`): `OthersKept` is about the others. The input method override and the preloaded keyboard layout
  (`Keyboard Layout\Preload\1`, written by `devtools/main.cpp:239` and `tsf/tsf_text_service.cpp:1273`) are removed by
  no list of `CleanupInstall` (`devtools/install_commands.cpp:114-135`): `NothingLeft` says that nothing else stays. `RegisterServer`
  (`tsf/registration.cpp:425`) undoes nothing when COM cannot be started, and a category that fails leaves the
  profile. `RegistrationMatches` excludes a registration that failed (`broken`), `NothingLeft` what processes
  do during the cleanup (`excused`);
- an upgrade removes the old version before the transaction that installs the new one begins
  (`installer/fluent-pinyin.wxs:9-12`), and that removal leaves the machine's keys to the new version (`UnregisterTsf` is
  skipped when UPGRADINGPRODUCTCODE is set). When the upgrade then fails, no product is installed and the text service
  is still registered, without its files, until a version is installed. `RegistrationMatches` names this case (`stranded`);
- a start of the engine reads the settings twice (`core/rime_engine.cpp:1383` and `:2036`). When another scheme is chosen
  in between, the files of the one are written, the folder of the other is looked at, and an old build can pass
  for fresh from then on. `CacheHonest` excludes it (`torn`), and without that TLC finds it;
- a mode key commits the input before the context it comes from is compared (`tsf/tsf_text_service.cpp:9624`): in another
  field than the input's it deletes as many characters as the preedit has and writes the letters a second time.
  `TextKept` excludes that step, `InOrder` what follows it (`strayed`);
- a dictionary imported under the name of an aggregate, `fp_wanxiang` or `fp_wanxiang_pro`, is accepted
  (`config_winui/lexicon_store.cpp:122-139`, `:394-406`): its entries go when the same operation writes the aggregate, which
  then imports itself, and its removal deletes the aggregate. `LexiconAssumption` rules such names out, so the properties of `LexiconStore` say nothing of them;
- the dialog promises a backup before a restore (`config_winui/sync_page.cpp:147`); `RestoreLocalBackup`
  ignores that it failed (`sync/sync_service.cpp:1614`) and overwrites data that are in no backup.
  `EditsKept` is about devices whose backups succeed (`unsaved`);
- `docs/project-optimization-plan.md:105` asks that the lexicon switches take effect as set.
  `ResetDefaultSettings` (`config_winui/default_settings.cpp:46`) turns them on and leaves the aggregates as
  the switches before had them, so that lexicons that were switched off stay out of use until the next
  operation on lexicons. `LexiconsInForce` excludes that (`off`).

## 6. Proofs

Each module `XProofs` extends `X` and `TLAPS`; `RimeEngineProofs` is about `RimeSession` and `RimeDeploy`,
`SyncSettingsProofs` about `AutoSync` and `SettingsStore`, `TypingProofs` about `TextService` and `Shortcuts`, `ModeAndCandidatesProofs` about `InputMode` and
`CandidateWindow`. The only assumptions are the named ones on the
constants, which every run evaluates, and those stated in a theorem. All proofs are inductions over the steps of
`Spec`, one step of the proof per action.

- `CoreHostIpcProofs`. `TypeCorrect`; from it `OneOwnerCorrect`: when a host creates the mutex none of its
  application is past it, and no other step lets one past. `EndsAgreeCorrect` needs `Unanswered` as well: a
  client that has not sent its request has no reply. `Refinement` uses that an engine exists only past
  the mutex (`EngineNeedsMutex`), so that the engine of an application is that of its one owner
  (`EngineMap`); then the steps of clients (`ClientRefines`) and hosts (`HostRefines`) are matched one by
  one with submit, perform, answer, give up, lose, or a stutter. The theorem is about the safety part,
  `ServiceSpec`, with no condition on the bounds. `LostHasCauseCorrect` from `CauseInv`, about
  applications without trouble: a host waits for its client or serves it (`LinkedInv`), says farewell only when
  asked to (`FarewellInv`, `AskedInv`), and a thread that waits for a host has one that holds the mutex, or is about to
  launch one (`HolderInv`, `HostedInv`).
- `SyncSettingsProofs`, about the settings store. `NoLostUpdate` and `CopyIsCurrent` are inductive only together and with three
  more facts (`StoreInv`): the lock is held exactly in the middle of a write (`LockHeld`), no copy is
  newer than the file (`NoneNewer`), and the updates of a write are in the lines it will put on disk
  (`LinesEntered`). The theorems assume `~CoarseClock`: two writes have two file times. With
  `CoarseClock` TRUE both fail, because the write time is all that tells a copy from the file.
- `RimeEngineProofs`, about deployment. `DeployUndisturbedCorrect` from types and `Owner` (who is past the mutex owns it),
  for settings that change at any time, as all the theorems here. `CacheHonestCorrect` and `DeployersServeFilesCorrect`
  come from `FolderOK`: as long as nothing failed and no start was `torn`, both readings of a start name one scheme
  (`OneScheme`), a stale build that passes for fresh has
  somebody who owes its deployment (`Debt`), and whoever starts after deploying serves the files, unless the files
  have been changed since by somebody who owes a deployment himself (`DeployersServed`).
- `SyncSettingsProofs`, about synchronisation. `TypeCorrect`, and `EditsKeptCorrect` from `KeptInv`: besides `EditsKept`, what a run is
  about to overwrite is in a backup (`BackedUp`), however task and window overtake each other.
  `WholeUploadsCorrect` from `UploadInv`, about times without clicks (`HandsOff`) and with at most one cut-off:
  watermarks are in the past and no switch is turned off (`Past`); a package is stamped after the watermark in it
  and, with user data, is whole (`Sound`); a device uploads its packages one after the other (`InTurnOf`); a restore
  under way is of another device's package, and until it is done the device would get that or a newer one
  again (`RestoresOf`); data that are torn after a cut-off are restored before anything is packed (`MendedOf`).
  With three devices this fails in two ways, which the premise of `WholeUploads` names.
- `RimeEngineProofs`, about sessions. `TypeInv`: the record of every service is `Fine`: it rests, or exactly one of its threads is
  inside the mutex with the rest of one of nine plans (`Plans`); references, flags and places of threads agree. What the
  start, the answer and the end of a use do to one record are lemmas about records (`UseBegins`, `AnswerSound`,
  `UseContinues`), so that nothing has to be said of the other services; `AliveCorrect` and
  `ReadyIsInitializedCorrect` follow. `ConfigInForceCorrect` from `ConfigOwed`: an engine with an old configuration has somebody
  `Pending`, who heard of the change or is reloading, or a message is owed. `OptionsInForceCorrect` from
  `OptionsOwed`, about times when nothing went wrong and one option was changed: whenever the session differs from the
  settings and somebody is ready, some service `Fixes` it: it has yet to send the option, or is about to, or is
  behind the settings and will be told. The steps that set nothing are taken together: such a service
  `Follows` the settings. That a call to the shared engine by another service keeps the promise is `CallFixes`.
- `ModeAndCandidatesProofs`, about the mode. `TypeCorrect`, `ToolbarExclusive` and `CapsOwnsEnglish` from `IInv`, the type invariant and
  the two properties together, split into four parts (`MemoryOK`, `QueuesOK`, `ToolbarOK`, `RestOK`) because
  most actions leave three of them alone. `Agreement` needs `AInv`: as long as a copy differs from the file,
  something will make its service read again (`UpToDate`): a message in its queue, a read in its handler, or
  a message that is owed (`Coming`); and every handler that will write a default will post afterwards
  (`Promised`). What the handlers' lists contain comes from lemmas about concatenation (`HasConcat`,
  `PromisedConcat`), for any list of options.
- `ModeAndCandidatesProofs`, about the candidates, for any menus, page sizes, lengths of a walk, rankings and
  monitors. The ground is what one request collects. `Part(t, q, a, b)` says that `t` is `q` from `a` to `b`; the loop of
  `GetCandidatePageForInput` keeps `Walked` (so many candidates passed over, the ones collected a part of the menu,
  Rime on the page the loop is at), `CollectWalks` is one turn of it, and `PageIsGiven` the result: for a session that
  is `InStep` (Rime's letters and page are those that the engine remembers) the items are the cut of what
  can be reached, the session is in step again, and a next page is promised only if the menu goes on. `InStep` is what lets text
  services share one session: whatever the others left in it, `SyncSessionInput` makes a fresh one of it
  (`SyncGives`). The invariant is `CandidateInv`: the service is `Whole`, and every function that maps a
  service to its next states is shown to keep that, in the order in which they call each other. `Whole` has
  the types, `InStep` and `Honest`: the record of the last query tells what is in view. It does so also when it is no longer
  about the present input and page, which is why `RecordHonest` by itself is not inductive: a page turned without
  an answer leaves the old candidates under the old record. Two more parts, `Framed` and `Rested`, are the rest of `CandidateTypeOK`.
  `CandidateTypeCorrect`, `RecordHonestCorrect` and `NextPageHoldsCorrect` follow; `ChoiceIsShownCorrect`
  because the index of a candidate in its page and that in the menu differ by `page * size` with the size on
  record (`ChoiceFacts`). `DigitsAsDrawnCorrect` and `ArrowsReachAllCorrect` are about lines and places: no two
  candidates share both (`PlaceIsOwn`); the nearest to a place that is taken stands there (`NearestIsThere`);
  every candidate but the first comes after one in its line or beside the first of the line before
  (`Neighbours`), so that one key leads to it from a smaller index (`Predecessor`). The assumption that a
  composition may have a letter (`MaxInput` is not 0) only excludes an instance in which nothing can be typed.

- `FloatingWindowsProofs`. `TypeCorrect`, `HeldMouseCorrect`, `TooltipsEndCorrect`, `SubmenuOfRowCorrect` and
  `StatusTipAloneCorrect` from one invariant (`Inv`) in four parts that most actions leave alone: what a
  window knows of the mouse is honest (`Honest`: who tracks or highlights is owed a notice), `HeldMouse`
  with what it needs of the capture (`CaptureInv`: a capture that leaked is the candidate window's,
  without a press; the window that has it exists), the place, the menu, the text. `SavedIsShownCorrect` adds
  `BarInv`: also while it is not shown, a bar that was moved and is not being dragged has the settings' place and look,
  and a shown one is at the place in memory.
- `TypingProofs`, about the text service. The lemmas about edit sessions say for each what its results are
  (`Edited`, `Replaced`, `OneFailure`), and those about the service's functions what they make of a sound state, in
  the order in which the code calls them. All actions but that of a letter and a mode key that strays have one conclusion, `Harmless`: the text outside the preedit
  only grows (`Kept`), no text is added (`Shorter`), and what is composed stays the input (`Good`), each in the circumstances in
  which it holds. The invariant is `IInv`: the types, with the facts that only the live composition is composed text
  and that candidates come from no future engine (`Sound`); `ShownInv`, which is `Good` while nothing failed; `Measured` and `OrderInv`. `Measured` is what makes deleting by count safe:
  `preedit_length_` is never more than the composed text of the active field, or than the field's text when the
  service composes without a range; no code checks this, and it must survive every refused session, which is
  why it is stated without a condition on failures. `OrderInv` says that the texts are increasing and share no letter; a letter
  keeps it because it is greater than all before it and goes to the end of one text (`TypedIn`).
  A mode key from another field is `Astray`: it may delete there and write letters twice, but what it leaves is again counted
  right, so that no later step removes text. The theorems have no hypothesis; what the stray step itself does is excepted in the
  properties (`TextKept`, and `strayed` in `InOrder`), and without that TLC refutes both.
- `TypingProofs`, about shortcuts. `ShortcutsTypeCorrect` (what a recorder writes, parses and compares stays a sequence of tokens) and
  `ModifierAloneCorrect`: in no branch does `HandleKey` leave a modifier armed when `Remembers` counts the key as another, and
  arming it forgets the others. `LabelsHonestCorrect` from `SavedInv` (what the store has and the file has not was not
  saved, and its recorder shows it), with lemmas that say of every step which recorders it may touch (`StepsOfNext`): a
  write of another setting makes true what a recorder showed, a foreign one is `behind`.
  `ConflictToldCorrect` from `TextsInv` (every shortcut in force is one a recorder can write) and `EqualTold` (of two
  recorders at rest with the same text one tells): that it is enough to compare texts is a lemma, `SameChordSameText`. `RecordedIsRecognisedCorrect` is
  about one press: the text made of it parses back to the key and the modifiers held (`ParsesBack`), for
  all keys and modifiers of the two programs' tables.
- `InstallationProofs`. `TypeCorrect` and `RegistrationMatchesCorrect` from `Inv`: what is left of a job
  registers once, and after the removal of what it replaces; unregisters once, and before the keys go
  (`GoodTodo`); and the machine's keys are those that the steps done so far leave (`RegInv`). That every
  sequence of `InstallExecuteSequence` is such a script, and that a roll-back to the beginning of the running transaction, before
  or after the old version went (`stranded`), leaves keys that `RegInv` allows, comes from lemmas
  about concatenations and tails. `NothingLeftCorrect` from `LeftInv`: how many steps of a removal are left says what is gone already and
  cannot come back. `OthersKeptCorrect` from `PairsInv` (the list is one of pairs): what was written is
  read again (`ReadAgain`), and dropping or adding operations of ours changes nothing in what is kept of the others'
  (`OursDropped`, `KeptIsKept`); this is where an order-preserving filter is reasoned about without recursion, by the least of a set of numbers (`LeastOf`,
  `PlaceOf`). `SurvivesRebootCorrect` from `SafeInv`: a job that has files yet to replace has yet to
  clean the pending operations after it (`Looks`), and when an elevated one has done both, none of them names a file of ours. `PendingAssumption` says of the lists the first
  state may hold only that they are pairs of words.

- `LexiconStoreProofs`. An operation is a plan of steps; there are nine kinds of plans and what is left of them (`Plans`), and
  the next step, its phase, says how far it has come. `Inv` says what each phase owes. `Aggregating`: as long as no
  failure, reset or restore is to blame (`off`), the aggregates are the right ones until the operation touches the words or the list,
  and from the list on what the operation has found is what the files say. `Whole`: what the list, the rows and the
  aggregates name is there, or is the file being written, or one the restore under way will bring
  (`Due`). `Restoring`: what a restore has no longer to do is on disk as the package has it. `Recorded`: the list is the
  confirmed one, or the operation has it in hand. `Serving`: unless something is on its way (`Pending`) the engine
  has built what the files say, or is building with the settings as they are. The five theorems are `Inv` in the phase
  of rest. The removals at the head of a confirmed dialog's plan, as many as there are removed rows, are where the
  finiteness of `Tables` is used.

The types of these modules are proved; the runs check them again only where they are a part of `Alive`, and in
`LexiconStore`, `TextService` and `CandidateWindow`.

Model-checked only: `CallReturns`, `Quiet` and `HiddenEverywhere` (liveness is beyond the
prover). Every other property of the runs is proved, under the conditions named above. The library's induction takes an operator, which the
prover cannot instantiate; an induction over numbers can still be had from its fact that a nonempty set of
them has a least one (`WFMin`), which `InstallationProofs` and `ModeAndCandidatesProofs` use (`AllNumbers`). With it
a recursive function can be reasoned about: that `walk` and `reach` exist with the values their equations
say is proved first (`TurnsExist`, `ReachExists`).

## 7. What the models leave out

- CoreHost: `OPTIMIZATION_PLAN_00.00.08.md:67` says a CoreHost exits with the process that launched it.
  That is not a property here, and it does not hold: `StartParentWatchdog` (`corehost/main.cpp:402`) gives up
  when the parent cannot be opened, and a parent that ended just before leaves a host with a pipe and no
  watchdog. Also left out: encoding, lengths, access rights of the pipe; the candidates themselves. The run has one
  application; that applications do not disturb each other is in the theorems. A client that does not recognise
  the server of the pipe gives up (`CallFails`); that it has used up the host's waiting instance by connecting to
  it is not in the model.
- Settings: order and repetition of lines, encodings, migration of the schema.
- Deployment: a crash between the files and the build is in the model, but `CacheHonest` speaks of times without
  one: `user_config_changed_` lives in the process that wrote the files and the signature is written before
  the build (`core/rime_engine.cpp:1249`), so that a process that ends in between leaves an old build
  that the next start accepts, as it accepts what a `torn` start leaves (section 5). Also left out: the product's shared data (the freshness test accepts any version of it as long as the
  signature names the same selection), the older form of the signature, `--no-deploy` (nothing passes
  it). A start that waited for the mutex deploys again without looking; a forced rebuild of the pinyin
  scheme removes the folders of all. `output_traditional_` survives a redeployment and is not part of
  the options of `CoreCommands`.
- Synchronisation: an edit marks the settings and one file of the dictionaries; what a file left behind by a restore
  makes of the dictionaries of two devices is not judged (`WholeUploads` is about what the settings have); none is made between a backup and the end of
  the restore it is for, although Rime may write its dictionaries at any time; a package is collected in
  one step; one click thread at a time; device clocks agree. A device whose switch for user data is off
  is still overwritten by packages that contain them, and takes the other's switches. Two devices that
  upload in turn by themselves overwrite each other's edits, which then are in backups only: `EditsKept`
  is about being kept, not about arriving. The task's trigger ends after a day (its repetition has the duration `P1D`).
- Text service: letters stand for text; pages and windows (in `CandidateWindow`); edit
  sessions that fail halfway (text set, selection not moved); the caret moved by the user while the
  preedit is plain text. A handler is atomic with respect to the restart thread: what that thread does
  between two lock sections of a handler has the effect it has before the handler.
  `RedeployRime` is not called by anything. Punctuation commits the candidate shown and drops the
  letters it does not stand for; `TextKept` says nothing of it.
- Engine life cycle: the composition, which a restart drops (in `TextService`), so that every focus takes the
  modes from the settings; the steps of a call (in `CoreHostIpc`); threads that cannot be created; what a service
  reads of the settings in parts. Clearing a thread's flag and its release of the service are one step.
  `RedeployRime` is called by nothing. A warm-up that looked at `service_active_` before Deactivate starts an
  engine after it (`WarmUpWakes`). A synchronised or reset settings file is announced by an "apply" only
  (`config_winui/sync_settings_actions.cpp:121`, `config_winui/settings_app_lifecycle.cpp:51`); the restart then
  sets the options in memory, which are not read again until the next focus or refresh: here such a change is one
  of the configuration. A menu command in another process posts nothing but the toolbar refresh
  (`tsf/tsf_text_service.cpp:8588`), which reads the modes and sets no options (`:9949`): the engine keeps the old ones
  until the next focus. `OptionsInForce` excludes these readings by `ahead`, and a service that deactivates
  between a change and the message about it by `missed`.
- Candidates: pixels, so that the width of a window never depends on any but its first candidate; the
  window's tools other than paging and expansion; choices of the order by what the same service commits; the
  menu's switch of expansion to the state it is in, which only redraws. `ChoiceIsShown` speaks of pages on
  record. When the settings change while a later page is on the screen, the next redraw reads them, drops the
  record and keeps the page (`tsf/tsf_text_service.cpp:10945`), and the message about the change then finds
  nothing to do (`:7136`): the next choice multiplies the page number by the new size and takes another
  candidate than the one under the digit. `NextPageHolds` speaks of pages that were not cut off: a first page
  that was (`:7847`) promises a next one, which is asked for with the full size, so that the candidates cut
  off are skipped, or the page is empty.
- Lexicons: custom phrases (one file that nothing else names); formats and encodings of the files, duplicate
  entries, names that are refused, and names of aggregates, which are not (section 5). An import inside the dialog reads the rows again and loses removals and
  switches that were not saved; an import under the name of the user's words replaces them
  (`config_winui/lexicon_store.cpp:396`). A file that was cut off reads as one without entries and is then
  written so; until the next operation an engine may fail to build from the rest.
- Input mode: the composition (a mode key commits it, and a copy is not refreshed while one is there when
  the focus comes); position, layout and items of the toolbar (in `FloatingWindows`), which `LoadUserSettings` and
  `RefreshToolbarFromSettings` write back with its visibility; fonts and themes; keyboard profiles, so that
  Deactivate is always the end of the service's turn. A change of the toolbar's visibility made in another
  application between the read and the write of such a handler is undone: `Agreed` is about the modes only.
  When the application that shows the toolbar leaves, the others show it at the next focus change or
  message; the broadcast meant for that (`tsf/tsf_text_service.cpp:10008`) asks for `service_active_`, which
  is FALSE by then.
- What a choice commits after the engine was replaced under the candidates on the screen
  (`tsf/tsf_text_service.cpp:8404`), and that a read of the settings that does not get the lock in 15 s makes
  the next write drop the lines it did not see (`common/settings_store.cpp:249`), is in the models
  (`TextService`, `SettingsStore`), not in a property.
- Floating windows: pixels, dpi, monitors and drawing; more than three rows of each menu; the number and
  order of the toolbar's items. Windows are created when asked for. A button message follows a move to its
  place; hiding a window does not release the capture; the submenu's own mouse handlers get no message
  while the menu has the capture. `HideToolbarWindow` is called by nothing. `SaveToolbarSetting` reads and
  writes in one step (`SettingsStore` has what falls between), and a tooltip's timer may fire whenever
  something is hovered.
- Shortcuts: the recorders' drawing; letters, digits and function keys by one of each; what `IsKeyHandled` answers
  depending on CapsLock and punctuation is either. A store that cannot lock the file to read it again, and two writes with one
  file time, are in `SettingsStore` only. `ResetDefaultSettings` and the pages it builds again are the beginning (`ShortcutsInit`).
  A restored file is of this program: its texts are ones that a recorder writes (`Foreign`).
  `shift_key_down_` is never set, so that the branch of
  `OnKeyUp` about it is not there.
- Installation: which value of a key has which content; fonts one by one; the windows of the updater, its
  separate question and verification, the fallback to another input method (`ActivateMicrosoftPinyin`);
  Windows' own bookkeeping of files. `kInputRelatedProcessNames` lacks the core host, which is found by the modules
  it loads; the list of pending operations is read and written by others between its reading and
  writing here, which the model takes as one step; the cleanup covers the user who started it.
- Not modelled at all: drawing, geometry, icons, formats of files and messages, WebDAV and S3 requests,
  logging, scripts; see the table of section 1.
