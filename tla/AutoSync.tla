------------------------------ MODULE AutoSync ------------------------------
(***************************************************************************)
(* Synchronising the settings and the Rime user data of several devices    *)
(* through one remote file (sync/sync_service.cpp).  On every device the   *)
(* task scheduler starts RunAutoSync, and the settings window runs         *)
(* uploads, downloads, restores and backups on threads of their own.       *)
(*                                                                         *)
(* A device's data are the edits that its settings and the files of its    *)
(* Rime user data contain; an edit leaves its mark in the settings and in  *)
(* one file, so that settings with an edit that no file has come from      *)
(* another device or another time than the files.  A restore writes the    *)
(* files of the package one after the other, and leaves a file alone that  *)
(* the package does not have.  The                                         *)
(* watermark sync_last_auto_remote_unix and the switch sync_user_data are  *)
(* lines of settings.ini and travel with it.                               *)
(*                                                                         *)
(* Left out: encryption and transport (a download or an upload works or    *)
(* fails), the clipboard, and clocks that disagree.                        *)
(***************************************************************************)
EXTENDS Naturals, FiniteSets

CONSTANTS Devices,
          Sharing,      \* the devices whose sync_user_data is on at first
          Files,        \* the files of the Rime user data
          MaxEdits, MaxNow, MaxCuts, MaxClicks,  \* bounds for TLC
          None

VARIABLES data,     \* data[d]: settings.ini and the Rime user data of d
          backups,  \* backups[d]: what the backup packages on d contain
          remote,   \* the package in the cloud
          run,      \* run[d][a]: what the task and the settings window do
          now,      \* the clock: one tick for every package uploaded
          made,     \* the edits so far, on every device
          cuts,     \* the runs cut off and the writes failed so far
          clicks,   \* the actions of the user so far
          unsaved,  \* history: the devices on which a backup failed
          late      \* history: a package has replaced a newer one

vars == <<data, backups, remote, run, now, made, cuts, clicks, unsaved, late>>

Edits == Devices \X (1..MaxEdits)

\* A file without any edit is one that is not there.
Data == [settings : SUBSET Edits, rime : [Files -> SUBSET Edits],
         share : BOOLEAN, seen : 0..MaxNow]
InFiles(x, e) == \E f \in Files : e \in x.rime[f]
Packages == [by : Devices, created : 0..MaxNow, full : BOOLEAN, data : Data]
ASSUME SyncAssumption == /\ Sharing \subseteq Devices
                         /\ MaxEdits \in Nat /\ MaxNow \in Nat
                         /\ MaxCuts \in Nat /\ MaxClicks \in Nat
                         /\ None \notin Packages

Actors == {"auto", "hand"}
Runs == [pc : {"idle", "get", "mark", "save", "settings", "rime", "pack", "put"},
         pkg : Packages \cup {None}, seen : 0..MaxNow,
         left : SUBSET Files]       \* of the package, still to be restored
Run(pc, pkg, seen) == [pc |-> pc, pkg |-> pkg, seen |-> seen, left |-> {}]
Idle == Run("idle", None, 0)

Init == /\ data = [d \in Devices |->
                     [settings |-> {}, rime |-> [f \in Files |-> {}],
                      share |-> d \in Sharing, seen |-> 0]]
        /\ backups = [d \in Devices |-> {}]
        /\ remote = None
        /\ run = [d \in Devices |-> [a \in Actors |-> Idle]]
        /\ now = 0
        /\ made = {}
        /\ cuts = 0
        /\ clicks = 0
        /\ unsaved = {}
        /\ late = FALSE

\* CollectPlainPackage: without user data when the switch is off.
Packed(d) == [by |-> d, created |-> now + 1, full |-> data[d].share, data |-> data[d]]

Set(d, a, r) == run' = [run EXCEPT ![d][a] = r]
Goto(d, a, pc) == Set(d, a, [run[d][a] EXCEPT !.pc = pc])
End(d, a) == Set(d, a, Idle)
ToUpload(d, a) == Set(d, a, Run("pack", None, 0))
At(d, a, pc) == run[d][a].pc = pc
Busy(d, a) == ~At(d, a, "idle")

(***************************************************************************)
(* The user changes the settings and a file of the dictionaries.  Not      *)
(* between a backup and the end of the restore it is made for: such a      *)
(* change is lost.                                                         *)
(***************************************************************************)
Edit(d, f) ==
  LET e == <<d, Cardinality({x \in made : x[1] = d}) + 1>> IN
  /\ e \in Edits
  /\ \A a \in Actors : run[d][a].pc \notin {"settings", "rime"}
  /\ data' = [data EXCEPT ![d].settings = @ \cup {e}, ![d].rime[f] = @ \cup {e}]
  /\ made' = made \cup {e}
  /\ UNCHANGED <<backups, remote, run, now, cuts, clicks, unsaved, late>>

-----------------------------------------------------------------------------
(* RunAutoSync                                                             *)

\* The scheduled task starts (never twice at a time: IGNORE_NEW) and reads
\* the watermark.
Begin(d) ==
  /\ ~Busy(d, "auto")
  /\ Set(d, "auto", Run("get", None, data[d].seen))
  /\ UNCHANGED <<data, backups, remote, now, made, cuts, clicks, unsaved, late>>

\* The download: without a package (HTTP 404) or with one not newer than the
\* watermark the run goes on to its upload.
Get(d) ==
  /\ At(d, "auto", "get")
  /\ IF remote # None /\ remote.created > run[d]["auto"].seen
       THEN Set(d, "auto", Run("mark", remote, 0))
       ELSE ToUpload(d, "auto")
  /\ UNCHANGED <<data, backups, remote, now, made, cuts, clicks, unsaved, late>>

\* The watermark is written before anything is restored; a package of this
\* device is not restored.
Mark(d) ==
  LET p == run[d]["auto"].pkg IN
  /\ At(d, "auto", "mark")
  /\ data' = [data EXCEPT ![d].seen = p.created]
  /\ IF p.by # d THEN Goto(d, "auto", "save") ELSE ToUpload(d, "auto")
  /\ UNCHANGED <<backups, remote, now, made, cuts, clicks, unsaved, late>>

\* Nobody looks whether the watermark was written.
MarkFails(d) ==
  /\ At(d, "auto", "mark")
  /\ cuts < MaxCuts
  /\ cuts' = cuts + 1
  /\ IF run[d]["auto"].pkg.by # d THEN Goto(d, "auto", "save") ELSE ToUpload(d, "auto")
  /\ UNCHANGED <<data, backups, remote, now, made, clicks, unsaved, late>>

-----------------------------------------------------------------------------
(* Backup, restore and upload: the task and the settings window            *)

\* A package without user data restores nothing.
AfterRestore(d, a) == IF a = "auto" THEN ToUpload(d, a) ELSE End(d, a)
AfterSave(d, a) ==
  IF run[d][a].pkg.full THEN Goto(d, a, "settings") ELSE AfterRestore(d, a)

\* Mutant: the backup follows the switch of the configuration.
SaveAsConfigured(d, a) ==
  /\ At(d, a, "save")
  /\ backups' = [backups EXCEPT ![d] = IF data[d].share THEN @ \cup {data[d]} ELSE @]
  /\ AfterSave(d, a)
  /\ UNCHANGED <<data, remote, now, made, cuts, clicks, unsaved, late>>

\* The backup before a restore has the user data whatever the switch says.
Save(d, a) ==
  /\ At(d, a, "save")
  /\ backups' = [backups EXCEPT ![d] = @ \cup {data[d]}]
  /\ AfterSave(d, a)
  /\ UNCHANGED <<data, remote, now, made, cuts, clicks, unsaved, late>>

\* A backup fails when Rime has a dictionary file in use; nobody looks at the
\* result.
SaveFails(d, a) ==
  /\ At(d, a, "save")
  /\ cuts < MaxCuts
  /\ cuts' = cuts + 1
  /\ unsaved' = unsaved \cup {d}
  /\ AfterSave(d, a)
  /\ UNCHANGED <<data, backups, remote, now, made, clicks, late>>

ToFiles(d, a, x) ==
  Set(d, a, [run[d][a] EXCEPT !.pc = "rime", !.left = {f \in Files : x.rime[f] # {}}])

\* Mutant: the device keeps its own watermark.
RestoreSettingsKeepsSeen(d, a) ==
  LET p == run[d][a].pkg.data IN
  /\ At(d, a, "settings")
  /\ data' = [data EXCEPT ![d] = [p EXCEPT !.rime = data[d].rime, !.seen = data[d].seen]]
  /\ ToFiles(d, a, p)
  /\ UNCHANGED <<backups, remote, now, made, cuts, clicks, unsaved, late>>

\* settings.ini comes first, with the watermark and the switch of the package.
RestoreSettings(d, a) ==
  LET p == run[d][a].pkg.data IN
  /\ At(d, a, "settings")
  /\ data' = [data EXCEPT ![d] = [p EXCEPT !.rime = data[d].rime]]
  /\ ToFiles(d, a, p)
  /\ UNCHANGED <<backups, remote, now, made, cuts, clicks, unsaved, late>>

\* One entry of the package: the file is written over.
RestoreRime(d, a, f) ==
  /\ At(d, a, "rime") /\ f \in run[d][a].left
  /\ data' = [data EXCEPT ![d].rime[f] = run[d][a].pkg.data.rime[f]]
  /\ Set(d, a, [run[d][a] EXCEPT !.left = @ \ {f}])
  /\ UNCHANGED <<backups, remote, now, made, cuts, clicks, unsaved, late>>

\* The end of the loop; the files that are not in the package stay.
Restored(d, a) ==
  /\ At(d, a, "rime") /\ run[d][a].left = {}
  /\ AfterRestore(d, a)
  /\ UNCHANGED <<data, backups, remote, now, made, cuts, clicks, unsaved, late>>

\* The upload of the task packs with the configuration as it is now.
Pack(d) ==
  /\ At(d, "auto", "pack")
  /\ now < MaxNow
  /\ now' = now + 1
  /\ Set(d, "auto", Run("put", Packed(d), 0))
  /\ UNCHANGED <<data, backups, remote, made, cuts, clicks, unsaved, late>>

\* The upload replaces whatever is there.
Put(d, a) ==
  /\ At(d, a, "put")
  /\ remote' = run[d][a].pkg
  /\ late' = (late \/ (remote # None /\ remote.created > run[d][a].pkg.created))
  /\ End(d, a)
  /\ UNCHANGED <<data, backups, now, made, cuts, clicks, unsaved>>

\* A download or an upload fails, a file cannot be written, the scheduler's
\* five minutes are over, or the process ends.
CutOff(d, a) ==
  /\ Busy(d, a)
  /\ cuts < MaxCuts
  /\ cuts' = cuts + 1
  /\ End(d, a)
  /\ UNCHANGED <<data, backups, remote, now, made, clicks, unsaved, late>>

-----------------------------------------------------------------------------
(* The sync page of the settings window.  Every click starts a thread; one *)
(* at a time is modelled.                                                  *)

Click(d, pc, pkg) ==
  /\ ~Busy(d, "hand")
  /\ clicks < MaxClicks
  /\ clicks' = clicks + 1
  /\ Set(d, "hand", Run(pc, pkg, 0))
  /\ UNCHANGED <<data, backups, remote, made, cuts, unsaved, late>>

UploadNow(d) == now < MaxNow /\ now' = now + 1 /\ Click(d, "put", Packed(d))

DownloadNow(d) == remote # None /\ Click(d, "save", remote) /\ UNCHANGED now

RestoreLocalBackup(d) ==
  /\ \E b \in backups[d] :
       Click(d, "save", [by |-> d, created |-> b.seen, full |-> TRUE, data |-> b])
  /\ UNCHANGED now

CreateLocalBackup(d) ==
  /\ clicks < MaxClicks
  /\ clicks' = clicks + 1
  /\ backups' = [backups EXCEPT ![d] = @ \cup {data[d]}]
  /\ UNCHANGED <<data, remote, run, now, made, cuts, unsaved, late>>

Step(d, a) == \/ Save(d, a) \/ SaveFails(d, a) \/ RestoreSettings(d, a)
              \/ (\E f \in Files : RestoreRime(d, a, f)) \/ Restored(d, a)
              \/ Put(d, a) \/ CutOff(d, a)

Next == \E d \in Devices :
          \/ (\E f \in Files : Edit(d, f)) \/ Begin(d) \/ Get(d) \/ Mark(d) \/ MarkFails(d) \/ Pack(d)
          \/ UploadNow(d) \/ DownloadNow(d) \/ RestoreLocalBackup(d) \/ CreateLocalBackup(d)
          \/ \E a \in Actors : Step(d, a)

Spec == Init /\ [][Next]_vars

-----------------------------------------------------------------------------
(* Properties *)

\* Every part of the state has its type, and a run past its download holds a
\* package.
TypeOK ==
  /\ data \in [Devices -> Data]
  /\ backups \in [Devices -> SUBSET Data]
  /\ remote \in Packages \cup {None}
  /\ run \in [Devices -> [Actors -> Runs]]
  /\ \A d \in Devices, a \in Actors :
       run[d][a].pc \in {"mark", "save", "settings", "rime", "put"} => run[d][a].pkg # None
  /\ now \in 0..MaxNow
  /\ made \subseteq Edits

\* An edit is in the data of its device or in one of that device's backups,
\* however the task and the user overwrite the device at the same time, until
\* a backup fails there (RestoreLocalBackup, RunAutoSync: backup first).
EditsKept ==
  \A e \in made : e[1] \notin unsaved =>
    \E x \in backups[e[1]] \cup {data[e[1]]} : e \in x.settings /\ InFiles(x, e)

\* The task alone never puts settings into the cloud without the dictionaries
\* they came with, although one run may be cut off anywhere, between two files
\* as well: the watermark that comes back with the settings makes the next run
\* repeat the restore before it uploads (RunAutoSync: created_unix >
\* last_remote_unix).  The dictionaries may have more than the settings: a file
\* that a package lacks stays where the package is restored, and goes into the
\* next one from there (RestorePlainPackage).
\* A third device could come in between, with a package without user data or
\* with one that is older than the watermark, the upload of which took longer
\* than two rounds of the others.
Whole(x) == \A e \in x.settings : InFiles(x, e)
TwoDevices == \E d, e \in Devices : Devices = {d, e}
WholeUploads ==
  /\ TwoDevices \/ (Sharing = Devices /\ ~late)
  /\ remote # None /\ remote.full /\ clicks = 0 /\ cuts <= 1
  => Whole(remote.data)
=============================================================================
