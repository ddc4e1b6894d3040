------------------------- MODULE SyncSettingsProofs --------------------------
(***************************************************************************)
(* Proofs about AutoSync: for any devices, edits, failures and clicks, an  *)
(* edit is kept on its device or in a backup there until a backup fails.   *)
(*                                                                         *)
(* And, at the end, about SettingsStore, the settings file that the tasks  *)
(* and all other processes write: that no update is lost assumes that two  *)
(* writes have two file times; its invariant says that a copy that passes  *)
(* for fresh is.                                                           *)
(***************************************************************************)
EXTENDS AutoSync, SettingsStore, TLAPS

AllRuns == [Devices -> [Actors -> Runs]]
Loaded(r) == r.pc \in {"mark", "save", "settings", "rime", "put"} => r.pkg # None

\* What an assignment to the state of one run does.
LEMMA SetRun ==
  ASSUME run \in AllRuns, NEW d \in Devices, NEW a \in Actors, NEW r \in Runs, Set(d, a, r)
  PROVE  /\ run' \in AllRuns
         /\ \A c \in Devices, b \in Actors :
              run'[c][b] = IF c = d /\ b = a THEN r ELSE run[c][b]
  BY DEF AllRuns, Set

\* Every part of the state keeps its type, and no run restores or uploads a
\* package it does not have.
THEOREM TypeCorrect == Spec => []TypeOK
<1> USE SyncAssumption
<1>1. Init => TypeOK
  <2> SUFFICES ASSUME Init PROVE TypeOK
    OBVIOUS
  <2>1. Idle \in Runs /\ Idle.pc = "idle"
    BY DEF Runs, Run, Idle
  <2>2. run \in [Devices -> [Actors -> Runs]]
        /\ \A d \in Devices, a \in Actors : run[d][a] = Idle
    BY <2>1 DEF Init
  <2>3. data \in [Devices -> Data]
    BY DEF Init, Data
  <2>4. backups \in [Devices -> SUBSET Data]
    BY DEF Init
  <2>5. QED
    BY <2>1, <2>2, <2>3, <2>4 DEF Init, TypeOK
<1>2. TypeOK /\ [Next]_vars => TypeOK'
  <2> SUFFICES ASSUME TypeOK, [Next]_vars PROVE TypeOK'
    OBVIOUS
  <2>a. run \in AllRuns
        /\ \A c \in Devices, b \in Actors : run[c][b] \in Runs /\ Loaded(run[c][b])
    BY DEF TypeOK, AllRuns, Loaded
  <2>b. ASSUME NEW d \in Devices, NEW a \in Actors, NEW r \in Runs, Loaded(r), Set(d, a, r)
        PROVE  /\ run' \in [Devices -> [Actors -> Runs]]
               /\ \A c \in Devices, b \in Actors :
                    run'[c][b].pc \in {"mark", "save", "settings", "rime", "put"}
                      => run'[c][b].pkg # None
    <3>1. run' \in AllRuns
          /\ \A c \in Devices, b \in Actors :
               run'[c][b] = IF c = d /\ b = a THEN r ELSE run[c][b]
      BY <2>a, <2>b, SetRun
    <3>2. ASSUME NEW c \in Devices, NEW b \in Actors PROVE Loaded(run'[c][b])
      BY <2>a, <2>b, <3>1
    <3>3. QED
      BY <3>1, <3>2 DEF AllRuns, Loaded
  <2>c. ASSUME NEW d \in Devices
        PROVE  data[d] \in Data /\ backups[d] \subseteq Data
    BY DEF TypeOK
  <2> DEFINE RunOK == /\ run \in [Devices -> [Actors -> Runs]]
                      /\ \A c \in Devices, b \in Actors :
                           run[c][b].pc \in {"mark", "save", "settings", "rime", "put"}
                             => run[c][b].pkg # None
  <2>d. ASSUME RunOK', data' \in [Devices -> Data], backups' \in [Devices -> SUBSET Data],
               remote' \in Packages \cup {None}, now' \in 0..MaxNow, made' \subseteq Edits
        PROVE  TypeOK'
    BY <2>d DEF TypeOK
  <2>e. /\ data \in [Devices -> Data] /\ backups \in [Devices -> SUBSET Data]
        /\ remote \in Packages \cup {None} /\ now \in 0..MaxNow /\ made \subseteq Edits
    BY DEF TypeOK
  <2>f. ASSUME NEW d \in Devices, NEW a \in Actors, ToUpload(d, a) \/ End(d, a)
        PROVE  RunOK'
    <3> DEFINE r == Run("pack", None, 0)
    <3>1. r \in Runs /\ Idle \in Runs /\ Loaded(r) /\ Loaded(Idle)
      BY DEF Runs, Run, Idle, Loaded
    <3>2. Set(d, a, r) \/ Set(d, a, Idle)
      BY <2>f DEF ToUpload, End
    <3> HIDE DEF r
    <3>3. CASE Set(d, a, r)
      BY <2>b, <3>1, <3>3
    <3>4. CASE Set(d, a, Idle)
      BY <2>b, <3>1, <3>4
    <3>5. QED
      BY <3>2, <3>3, <3>4
  <2>g. ASSUME NEW d \in Devices, NEW a \in Actors, NEW l \in {"save", "settings", "rime"},
               run[d][a].pc \in {"mark", "save", "settings", "rime"}, Goto(d, a, l)
        PROVE  RunOK'
    <3> DEFINE r == [run[d][a] EXCEPT !.pc = l]
    <3>1. run[d][a] \in Runs /\ Loaded(run[d][a])
      BY <2>a
    <3>2. r \in Runs /\ Loaded(r) /\ Set(d, a, r)
      BY <2>g, <3>1 DEF Runs, Loaded, Goto
    <3> HIDE DEF r
    <3>3. QED
      BY <2>b, <3>2
  <2>h. ASSUME NEW d \in Devices, NEW a \in Actors, At(d, a, "save"), AfterSave(d, a)
        PROVE  RunOK'
    BY <2>f, <2>g, <2>h DEF AfterSave, AfterRestore, At
  <2>1. ASSUME NEW d \in Devices, \E f \in Files : Edit(d, f) PROVE TypeOK'
    <3> DEFINE e == <<d, Cardinality({x \in made : x[1] = d}) + 1>>
    <3>1. PICK f \in Files : Edit(d, f)
      BY <2>1
    <3>4. e \in Edits /\ made' = made \cup {e} /\ run' = run
          /\ data' = [data EXCEPT ![d].settings = @ \cup {e}, ![d].rime[f] = @ \cup {e}]
      BY <3>1 DEF Edit
    <3> HIDE DEF e
    <3>2. data' \in [Devices -> Data]
      <4>1. [data[d].rime EXCEPT ![f] = @ \cup {e}] \in [Files -> SUBSET Edits]
        BY <2>c, <3>4 DEF Data
      <4>2. [data[d] EXCEPT !.settings = @ \cup {e}, !.rime[f] = @ \cup {e}] \in Data
        BY <2>c, <3>4, <4>1 DEF Data
      <4> QED BY <2>e, <3>4, <4>2
    <3>3. QED
      BY <2>d, <2>e, <3>1, <3>4, <3>2 DEF Edit, TypeOK
  <2>2. ASSUME NEW d \in Devices, Begin(d) PROVE TypeOK'
    <3> DEFINE r == Run("get", None, data[d].seen)
    <3>1. r \in Runs /\ Loaded(r) /\ Set(d, "auto", r) /\ "auto" \in Actors
      BY <2>2, <2>c DEF Begin, Runs, Run, Loaded, Data, Actors
    <3> HIDE DEF r
    <3>2. RunOK'
      BY <2>b, <3>1
    <3>3. QED
      BY <2>2, <2>d, <2>e, <3>2 DEF Begin
  <2>3. ASSUME NEW d \in Devices, Get(d) PROVE TypeOK'
    <3>1. "auto" \in Actors /\ run[d]["auto"] \in Runs
      BY <2>a DEF Actors
    <3>2. CASE remote # None /\ remote.created > run[d]["auto"].seen
      <4> DEFINE r == Run("mark", remote, 0)
      <4>1. 0 \in 0..MaxNow
        OBVIOUS
      <4>2. r \in Runs /\ Loaded(r)
        BY <2>e, <3>2, <4>1 DEF Run, Runs, Loaded
      <4>3. Set(d, "auto", r)
        BY <2>3, <3>2 DEF Get
      <4> HIDE DEF r
      <4>4. RunOK'
        BY <2>b, <3>1, <4>2, <4>3
      <4>5. QED
        BY <2>3, <2>d, <2>e, <4>4 DEF Get
    <3>3. CASE ~(remote # None /\ remote.created > run[d]["auto"].seen)
      <4>1. RunOK'
        BY <2>3, <2>f, <3>1, <3>3 DEF Get
      <4>2. QED
        BY <2>3, <2>d, <2>e, <4>1 DEF Get
    <3>4. QED
      BY <3>2, <3>3
  <2>4. ASSUME NEW d \in Devices, Mark(d) \/ MarkFails(d) PROVE TypeOK'
    <3>1. "auto" \in Actors /\ run[d]["auto"] \in Runs /\ At(d, "auto", "mark")
          /\ run[d]["auto"].pkg \in Packages
      BY <2>4, <2>a DEF Actors, Mark, MarkFails, At, Loaded, Runs
    <3>2. RunOK'
      BY <2>4, <2>f, <2>g, <3>1 DEF Mark, MarkFails, At
    <3>3. data' \in [Devices -> Data]
      <4>1. ASSUME NEW x \in Data, NEW n \in 0..MaxNow PROVE [x EXCEPT !.seen = n] \in Data
        BY DEF Data
      <4>2. run[d]["auto"].pkg.created \in 0..MaxNow
        BY <3>1 DEF Packages
      <4> QED BY <2>4, <2>c, <2>e, <4>1, <4>2 DEF Mark, MarkFails
    <3>4. QED
      BY <2>4, <2>d, <2>e, <3>2, <3>3 DEF Mark, MarkFails
  <2>5. ASSUME NEW d \in Devices, NEW p \in Packages, NEW l \in {"put", "save"},
               NEW a \in Actors, Set(d, a, Run(l, p, 0))
        PROVE  RunOK'
    <3> DEFINE r == Run(l, p, 0)
    <3>1. 0 \in 0..MaxNow
      OBVIOUS
    <3>2. r \in Runs /\ Loaded(r)
      BY <3>1 DEF Run, Runs, Loaded
    <3>3. Set(d, a, r)
      BY <2>5
    <3> HIDE DEF r
    <3>4. QED
      BY <2>b, <3>2, <3>3
  <2>6. ASSUME NEW d \in Devices, Pack(d) \/ UploadNow(d) PROVE TypeOK'
    <3>1. Packed(d) \in Packages /\ now + 1 \in 0..MaxNow
      BY <2>6, <2>c, <2>e DEF Packed, Packages, Data, Pack, UploadNow
    <3>2. RunOK'
      BY <2>6, <2>5, <3>1 DEF Pack, UploadNow, Click, Actors
    <3>3. QED
      BY <2>6, <2>d, <2>e, <3>1, <3>2 DEF Pack, UploadNow, Click
  <2>7. ASSUME NEW d \in Devices, DownloadNow(d) PROVE TypeOK'
    <3>1. RunOK'
      BY <2>7, <2>5, <2>e DEF DownloadNow, Click, Actors
    <3>2. QED
      BY <2>7, <2>d, <2>e, <3>1 DEF DownloadNow, Click
  <2>8. ASSUME NEW d \in Devices, RestoreLocalBackup(d) PROVE TypeOK'
    <3>1. PICK b \in backups[d] :
            Click(d, "save", [by |-> d, created |-> b.seen, full |-> TRUE, data |-> b])
      BY <2>8 DEF RestoreLocalBackup
    <3> DEFINE p == [by |-> d, created |-> b.seen, full |-> TRUE, data |-> b]
    <3>2. p \in Packages
      BY <2>c DEF Packages, Data
    <3>3. Click(d, "save", p)
      BY <3>1
    <3> HIDE DEF p
    <3>4. RunOK'
      BY <2>5, <3>2, <3>3 DEF Click, Actors
    <3>5. QED
      BY <2>8, <2>d, <2>e, <3>3, <3>4 DEF RestoreLocalBackup, Click
  <2>9. ASSUME NEW d \in Devices, CreateLocalBackup(d) PROVE TypeOK'
    BY <2>9, <2>c, <2>e DEF CreateLocalBackup, TypeOK
  <2>10. ASSUME NEW d \in Devices, NEW a \in Actors, Save(d, a) \/ SaveFails(d, a)
         PROVE  TypeOK'
    <3>1. RunOK'
      BY <2>10, <2>h DEF Save, SaveFails
    <3>2. backups' \in [Devices -> SUBSET Data]
      BY <2>10, <2>c, <2>e DEF Save, SaveFails
    <3>3. QED
      BY <2>10, <2>d, <2>e, <3>1, <3>2 DEF Save, SaveFails
  <2>11. ASSUME NEW d \in Devices, NEW a \in Actors, RestoreSettings(d, a) \/ Restored(d, a)
         PROVE  TypeOK'
    <3>1. run[d][a].pc \in {"settings", "rime"} /\ run[d][a].pkg \in Packages
          /\ run[d][a] \in Runs
      BY <2>11, <2>a DEF RestoreSettings, Restored, At, Loaded, Runs
    <3>2. RunOK'
      <4>1. CASE Restored(d, a)
        BY <2>f, <4>1 DEF Restored, AfterRestore
      <4>2. CASE RestoreSettings(d, a)
        <5> DEFINE l == {f \in Files : run[d][a].pkg.data.rime[f] # {}}
                   r == [run[d][a] EXCEPT !.pc = "rime", !.left = l]
        <5>1. Set(d, a, r)
          BY <4>2 DEF RestoreSettings, ToFiles
        <5>2. r \in Runs /\ Loaded(r)
          BY <2>a, <3>1 DEF Runs, Loaded
        <5> HIDE DEF r
        <5> QED BY <2>b, <5>1, <5>2
      <4> QED BY <2>11, <4>1, <4>2
    <3>a. run[d][a].pkg.data \in Data /\ data[d] \in Data
      BY <2>c, <3>1 DEF Packages
    <3>b. ASSUME NEW x \in Data, NEW y \in Data
          PROVE  [x EXCEPT !.rime = y.rime] \in Data
      BY DEF Data
    <3>3. data' \in [Devices -> Data]
      BY <2>11, <2>e, <3>a, <3>b DEF RestoreSettings, Restored
    <3>4. QED
      BY <2>11, <2>d, <2>e, <3>2, <3>3 DEF RestoreSettings, Restored
  <2>15. ASSUME NEW d \in Devices, NEW a \in Actors, NEW f \in Files, RestoreRime(d, a, f)
         PROVE  TypeOK'
    <3>1. run[d][a].pkg \in Packages /\ run[d][a] \in Runs /\ Loaded(run[d][a])
      BY <2>15, <2>a DEF RestoreRime, At, Loaded, Runs
    <3>2. RunOK'
      <4> DEFINE r == [run[d][a] EXCEPT !.left = @ \ {f}]
      <4>1. Set(d, a, r)
        BY <2>15 DEF RestoreRime
      <4>2. r \in Runs /\ Loaded(r)
        BY <3>1 DEF Runs, Loaded
      <4> HIDE DEF r
      <4> QED BY <2>b, <4>1, <4>2
    <3>3. data' \in [Devices -> Data]
      <4> DEFINE x == run[d][a].pkg.data.rime[f]
      <4>1. x \subseteq Edits /\ data[d] \in Data
        BY <2>c, <3>1 DEF Packages, Data
      <4>2. data' = [data EXCEPT ![d].rime[f] = x]
        BY <2>15 DEF RestoreRime
      <4> HIDE DEF x
      <4>3. [data[d].rime EXCEPT ![f] = x] \in [Files -> SUBSET Edits]
        BY <4>1 DEF Data
      <4>4. [data[d] EXCEPT !.rime[f] = x] \in Data
        BY <4>1, <4>3 DEF Data
      <4> QED BY <2>e, <4>2, <4>4
    <3>4. QED
      BY <2>15, <2>d, <2>e, <3>2, <3>3 DEF RestoreRime
  <2>12. ASSUME NEW d \in Devices, NEW a \in Actors, Put(d, a) \/ CutOff(d, a)
         PROVE  TypeOK'
    <3>1. RunOK'
      BY <2>12, <2>f DEF Put, CutOff
    <3>2. remote' \in Packages \cup {None}
      BY <2>12, <2>a, <2>e DEF Put, CutOff, At, Runs
    <3>3. QED
      BY <2>12, <2>d, <2>e, <3>1, <3>2 DEF Put, CutOff
  <2>13. CASE UNCHANGED vars
    BY <2>13 DEF vars, TypeOK
  <2>14. QED
    BY <2>1, <2>2, <2>3, <2>4, <2>6, <2>7, <2>8, <2>9, <2>10, <2>11, <2>12, <2>13, <2>15
       DEF Next, Step
<1>3. QED
  BY <1>1, <1>2, PTL DEF Spec

-----------------------------------------------------------------------------
(* What makes EditsKept inductive: past its backup a run has all edits of  *)
(* its device in the backups, and nobody edits there until it has restored.*)

Has(x, e) == e \in x.settings /\ InFiles(x, e)
Backed(e) == \E x \in backups[e[1]] : Has(x, e)

BackedUp ==
  \A d \in Devices, a \in Actors : run[d][a].pc \in {"settings", "rime"} /\ d \notin unsaved =>
    \A e \in made : e[1] = d => Backed(e)

KeptInv == EditsKept /\ BackedUp

\* A step that adds no edit, keeps the backups and the failures, and leaves
\* the content of every device alone that is not being restored keeps the
\* edits, unless it takes a run to its restore.
LEMMA KeepsEdits ==
  ASSUME TypeOK, KeptInv,
         made' = made,
         unsaved \subseteq unsaved',
         \A d \in Devices : backups[d] \subseteq backups'[d],
         \A d \in Devices : \/ data'[d].settings = data[d].settings /\ data'[d].rime = data[d].rime
                           \/ \E a \in Actors : run[d][a].pc \in {"settings", "rime"},
         \A d \in Devices, a \in Actors :
           run'[d][a].pc \in {"settings", "rime"} =>
             \/ run[d][a].pc \in {"settings", "rime"}
             \/ d \in unsaved'
             \/ data[d] \in backups'[d]
  PROVE  KeptInv'
<1>1. \A e \in made : e[1] \in Devices
  BY DEF TypeOK, Edits
<1>2. EditsKept'
  <2> SUFFICES ASSUME NEW e \in made, e[1] \notin unsaved'
               PROVE  \E x \in backups'[e[1]] \cup {data'[e[1]]} : Has(x, e)
    BY DEF EditsKept, Has
  <2>1. \E x \in backups[e[1]] \cup {data[e[1]]} : Has(x, e)
    BY <1>1 DEF KeptInv, EditsKept, Has
  <2>2. CASE \E x \in backups[e[1]] : Has(x, e)
    BY <1>1, <2>2
  <2>3. CASE ~\E x \in backups[e[1]] : Has(x, e)
    <3>1. Has(data[e[1]], e)
      BY <2>1, <2>3
    <3>2. \A a \in Actors : run[e[1]][a].pc \notin {"settings", "rime"}
      BY <1>1, <2>3 DEF KeptInv, BackedUp, Backed
    <3>3. Has(data'[e[1]], e)
      BY <1>1, <3>1, <3>2 DEF Has, InFiles
    <3>4. QED
      BY <3>3
  <2>4. QED
    BY <2>2, <2>3
<1>3. BackedUp'
  <2> SUFFICES ASSUME NEW d \in Devices, NEW a \in Actors,
                      run'[d][a].pc \in {"settings", "rime"}, d \notin unsaved',
                      NEW e \in made, e[1] = d
               PROVE  \E x \in backups'[d] : Has(x, e)
    BY DEF BackedUp, Backed, Has
  <2>1. \E x \in backups[d] \cup {data[d]} : Has(x, e)
    BY <1>1 DEF KeptInv, EditsKept, Has
  <2>2. CASE run[d][a].pc \in {"settings", "rime"}
    BY <2>2 DEF KeptInv, BackedUp, Backed
  <2>3. CASE data[d] \in backups'[d]
    BY <2>1, <2>3
  <2>4. QED
    BY <2>2, <2>3
<1>4. QED
  BY <1>2, <1>3 DEF KeptInv

\* No edit is lost on a device whose backups succeed, whoever overwrites it.
THEOREM EditsKeptCorrect == Spec => []EditsKept
<1>1. Init => KeptInv
  BY DEF Init, KeptInv, EditsKept, BackedUp
<1>2. TypeOK /\ KeptInv /\ [Next]_vars => KeptInv'
  <2> SUFFICES ASSUME TypeOK, KeptInv, [Next]_vars PROVE KeptInv'
    OBVIOUS
  <2>a. run \in AllRuns /\ (\A c \in Devices, b \in Actors : run[c][b] \in Runs)
    BY DEF TypeOK, AllRuns
  <2>b. ASSUME NEW d \in Devices, NEW a \in Actors,
               NEW l \in {"idle", "get", "mark", "save", "pack", "put"}, NEW p, NEW s,
               Set(d, a, Run(l, p, s))
        PROVE  \A c \in Devices, b \in Actors :
                 run'[c][b].pc \in {"settings", "rime"} => run[c][b].pc \in {"settings", "rime"}
    BY <2>a, <2>b DEF Set, Run, AllRuns
  <2>c. ASSUME NEW d \in Devices, NEW a \in Actors, ToUpload(d, a) \/ End(d, a)
        PROVE  \A c \in Devices, b \in Actors :
                 run'[c][b].pc \in {"settings", "rime"} => run[c][b].pc \in {"settings", "rime"}
    BY <2>b, <2>c DEF ToUpload, End, Idle
  <2>d. ASSUME NEW d \in Devices, NEW a \in Actors, NEW l \in {"save", "settings", "rime"},
               Goto(d, a, l)
        PROVE  \A c \in Devices, b \in Actors :
                 run'[c][b].pc = IF c = d /\ b = a THEN l ELSE run[c][b].pc
    <3>1. [run[d][a] EXCEPT !.pc = l].pc = l
      BY <2>a DEF Runs
    <3>2. QED
      BY <2>a, <2>d, <3>1 DEF Goto, Set, AllRuns
  <2>1. ASSUME NEW d \in Devices, \E f \in Files : Edit(d, f) PROVE KeptInv'
    <3>0. PICK f \in Files : Edit(d, f)
      BY <2>1
    <3>1. PICK e \in Edits :
            /\ e[1] = d /\ made' = made \cup {e}
            /\ data' = [data EXCEPT ![d].settings = @ \cup {e}, ![d].rime[f] = @ \cup {e}]
      BY <3>0 DEF Edit
    <3>2. /\ \A a \in Actors : run[d][a].pc \notin {"settings", "rime"}
          /\ run' = run /\ backups' = backups /\ unsaved' = unsaved
      BY <3>0 DEF Edit
    <3>3. /\ \A c \in Devices : c # d => data'[c] = data[c]
          /\ data'[d].settings = data[d].settings \cup {e}
          /\ InFiles(data'[d], e) /\ \A x : InFiles(data[d], x) => InFiles(data'[d], x)
      <4>1. /\ \A c \in Devices : c # d => data'[c] = data[c]
            /\ data'[d] = [data[d] EXCEPT !.settings = @ \cup {e}, !.rime[f] = @ \cup {e}]
        BY <3>1 DEF TypeOK
      <4>2. data[d] \in Data
        BY DEF TypeOK
      <4>3. /\ data'[d].settings = data[d].settings \cup {e}
            /\ data'[d].rime = [data[d].rime EXCEPT ![f] = @ \cup {e}]
        BY <4>1, <4>2 DEF Data
      <4>4. e \in data'[d].rime[f] /\ \A g \in Files : data[d].rime[g] \subseteq data'[d].rime[g]
        BY <4>2, <4>3 DEF Data
      <4> QED BY <4>1, <4>3, <4>4 DEF InFiles
    <3>4. EditsKept'
      <4> SUFFICES ASSUME NEW x \in made', x[1] \notin unsaved
                   PROVE  \E y \in backups[x[1]] \cup {data'[x[1]]} : Has(y, x)
        BY <3>2 DEF EditsKept, Has
      <4>1. CASE x = e
        BY <3>1, <3>3, <4>1 DEF Has
      <4>2. CASE x \in made
        <5>1. PICK y \in backups[x[1]] \cup {data[x[1]]} : Has(y, x)
          BY <4>2 DEF KeptInv, EditsKept, Has
        <5>2. x[1] \in Devices
          BY <4>2 DEF TypeOK, Edits
        <5>3. QED
          BY <3>3, <5>1, <5>2 DEF Has
      <4>3. QED
        BY <3>1, <4>1, <4>2
    <3>5. BackedUp'
      <4> SUFFICES ASSUME NEW c \in Devices, NEW a \in Actors,
                          run[c][a].pc \in {"settings", "rime"}, c \notin unsaved,
                          NEW x \in made', x[1] = c
                   PROVE  \E y \in backups[c] : Has(y, x)
        BY <3>2 DEF BackedUp, Backed, Has
      <4>1. x \in made
        BY <3>1, <3>2
      <4>2. QED
        BY <4>1 DEF KeptInv, BackedUp, Backed
    <3>6. QED
      BY <3>4, <3>5 DEF KeptInv
  <2>2. ASSUME NEW d \in Devices, Begin(d) \/ Get(d) \/ Pack(d) \/ UploadNow(d)
                                   \/ DownloadNow(d) \/ RestoreLocalBackup(d)
        PROVE  KeptInv'
    <3>1. \A c \in Devices, b \in Actors :
            run'[c][b].pc \in {"settings", "rime"} => run[c][b].pc \in {"settings", "rime"}
      BY <2>2, <2>b, <2>c
         DEF Begin, Get, Pack, UploadNow, DownloadNow, RestoreLocalBackup, Click, Actors
    <3>2. UNCHANGED <<made, data, backups, unsaved>>
      BY <2>2 DEF Begin, Get, Pack, UploadNow, DownloadNow, RestoreLocalBackup, Click
    <3>3. QED
      BY <3>1, <3>2, KeepsEdits
  <2>3. ASSUME NEW d \in Devices, Mark(d) \/ MarkFails(d) PROVE KeptInv'
    <3>1. \A c \in Devices, b \in Actors :
            run'[c][b].pc \in {"settings", "rime"} => run[c][b].pc \in {"settings", "rime"}
      BY <2>3, <2>c, <2>d DEF Mark, MarkFails, Actors
    <3>2. UNCHANGED <<made, backups, unsaved>>
      BY <2>3 DEF Mark, MarkFails
    <3>3. \A c \in Devices : data'[c].settings = data[c].settings /\ data'[c].rime = data[c].rime
      <4>1. data \in [Devices -> Data]
        BY DEF TypeOK
      <4>2. ASSUME NEW x \in Data, NEW n
            PROVE  [x EXCEPT !.seen = n].settings = x.settings /\ [x EXCEPT !.seen = n].rime = x.rime
        BY DEF Data
      <4>3. CASE data' = [data EXCEPT ![d].seen = run[d]["auto"].pkg.created]
        BY <4>1, <4>2, <4>3
      <4>4. CASE data' = data
        BY <4>4
      <4>5. QED
        BY <2>3, <4>3, <4>4 DEF Mark, MarkFails
    <3>4. QED
      BY <3>1, <3>2, <3>3, KeepsEdits
  <2>4. ASSUME NEW d \in Devices, CreateLocalBackup(d) PROVE KeptInv'
    <3>1. UNCHANGED <<made, data, run, unsaved>>
          /\ \A c \in Devices : backups[c] \subseteq backups'[c]
      BY <2>4 DEF CreateLocalBackup, TypeOK
    <3>2. QED
      BY <3>1, KeepsEdits
  <2>5. ASSUME NEW d \in Devices, NEW a \in Actors, Save(d, a) \/ SaveFails(d, a)
        PROVE  KeptInv'
    <3>1. /\ UNCHANGED <<made, data>>
          /\ \A c \in Devices : backups[c] \subseteq backups'[c]
          /\ unsaved \subseteq unsaved'
          /\ d \in unsaved' \/ data[d] \in backups'[d]
      BY <2>5 DEF Save, SaveFails, TypeOK
    <3>2. AfterSave(d, a)
      BY <2>5 DEF Save, SaveFails
    <3>3. \A c \in Devices, b \in Actors :
            run'[c][b].pc \in {"settings", "rime"} =>
              run[c][b].pc \in {"settings", "rime"} \/ c = d
      BY <3>2, <2>c, <2>d DEF AfterSave, AfterRestore
    <3>4. QED
      BY <3>1, <3>3, KeepsEdits
  <2>6. ASSUME NEW d \in Devices, NEW a \in Actors,
               \/ RestoreSettings(d, a) \/ Restored(d, a)
               \/ \E f \in Files : RestoreRime(d, a, f)
        PROVE  KeptInv'
    <3>1. run[d][a].pc \in {"settings", "rime"}
      BY <2>6 DEF RestoreSettings, RestoreRime, Restored, At
    <3>2. \A c \in Devices, b \in Actors :
            run'[c][b].pc \in {"settings", "rime"} => run[c][b].pc \in {"settings", "rime"}
      <4>1. ASSUME NEW r, Set(d, a, r)
            PROVE  \A c \in Devices, b \in Actors :
                     run'[c][b].pc = IF c = d /\ b = a THEN r.pc ELSE run[c][b].pc
        BY <2>a, <4>1 DEF Set, AllRuns
      <4>2. CASE Restored(d, a)
        BY <2>c, <3>1, <4>2 DEF Restored, AfterRestore
      <4>3. CASE ~Restored(d, a)
        BY <2>6, <3>1, <4>1, <4>3 DEF RestoreSettings, RestoreRime, ToFiles
      <4> QED BY <4>2, <4>3
    <3>3. UNCHANGED <<made, backups, unsaved>> /\ \A c \in Devices : c # d => data'[c] = data[c]
      BY <2>6 DEF RestoreSettings, RestoreRime, Restored, TypeOK
    <3>4. QED
      BY <3>1, <3>2, <3>3, KeepsEdits
  <2>7. ASSUME NEW d \in Devices, NEW a \in Actors, Put(d, a) \/ CutOff(d, a)
        PROVE  KeptInv'
    <3>1. \A c \in Devices, b \in Actors :
            run'[c][b].pc \in {"settings", "rime"} => run[c][b].pc \in {"settings", "rime"}
      BY <2>7, <2>c DEF Put, CutOff
    <3>2. UNCHANGED <<made, data, backups, unsaved>>
      BY <2>7 DEF Put, CutOff
    <3>3. QED
      BY <3>1, <3>2, KeepsEdits
  <2>8. CASE UNCHANGED vars
    BY <2>8, KeepsEdits DEF vars
  <2>9. QED
    BY <2>1, <2>2, <2>3, <2>4, <2>5, <2>6, <2>7, <2>8 DEF Next, Step
<1>3. KeptInv => EditsKept
  BY DEF KeptInv
<1>4. QED
  BY <1>1, <1>2, <1>3, TypeCorrect, PTL DEF Spec

-----------------------------------------------------------------------------
(* What makes WholeUploads inductive.  It is about the task alone, with at *)
(* most one run cut off.                                                   *)

Task(d) == run[d]["auto"]
Restoring == {"mark", "save", "settings", "rime"}

TaskAlone == /\ clicks = 0 /\ cuts <= 1
             /\ TwoDevices \/ (Sharing = Devices /\ ~late)

\* The settings window does nothing.
HandsOff == \A d \in Devices : ~Busy(d, "hand")

\* The watermark of a device is in the past, and a switch for user data that
\* was on is not turned off.
Past == \A d \in Devices : data[d].seen <= now /\ (d \in Sharing => data[d].share)

\* A package, in the cloud or in a run, is stamped after the watermark in it;
\* with user data it is whole, and from a device that still shares them.
Sound(p, clock, dat) ==
  p # None => /\ p.data.seen < p.created /\ p.created <= clock
              /\ p.full => Whole(p.data) /\ p.data.share /\ dat[p.by].share
              /\ p.by \in Sharing => p.full
SoundOf(d) == Sound(Task(d).pkg, now, data)

\* A device uploads its own packages, one after the other.
InTurnOf(d) ==
  At(d, "auto", "put") =>
    /\ Task(d).pkg.by = d
    /\ remote # None /\ remote.by = d =>
         Task(d).pkg.created > remote.created /\ (remote.full => Task(d).pkg.full)

\* What comes next to a device that asks for what is newer than last: a package
\* with user data from another device, now and after the uploads under way.
Arrives(r, last) == r.pc = "put" => r.pkg.full /\ r.pkg.created > last
Ahead(d, last, cloud, runs) ==
  /\ cloud # None /\ cloud.by # d /\ cloud.full /\ cloud.created > last
  /\ TwoDevices => \A e \in Devices \ {d} : Arrives(runs[e]["auto"], last)

\* A run restores packages of other devices, with user data; until it has
\* done so it would get the same or a newer one again.
RestoresOf(d) ==
  /\ Task(d).pc \in Restoring /\ Task(d).pkg.by # d /\ Task(d).pkg.full
       => Ahead(d, Task(d).pkg.data.seen, remote, run)
  /\ Task(d).pc \in {"save", "settings", "rime"} => Task(d).pkg.by # d
  /\ Task(d).pc \in {"settings", "rime"} => Task(d).pkg.full
  /\ At(d, "auto", "rime") =>
       /\ data[d].settings = Task(d).pkg.data.settings
       /\ data[d].seen = Task(d).pkg.data.seen
       /\ \A f \in Files \ Task(d).left :
            Task(d).pkg.data.rime[f] \subseteq data[d].rime[f]

\* Data that are not whole after a run was cut off are restored again before
\* anything is packed.
Mends(d) ==
  /\ Task(d).pc \notin {"pack", "put"}
  /\ At(d, "auto", "idle") => Ahead(d, data[d].seen, remote, run)
  /\ At(d, "auto", "get") => Ahead(d, Task(d).seen, remote, run)
  /\ Task(d).pc \in Restoring => Task(d).pkg.by # d /\ Task(d).pkg.full
MendedOf(d) == ~Whole(data[d]) => At(d, "auto", "rime") \/ (cuts = 1 /\ Mends(d))

TaskInv(d) == SoundOf(d) /\ InTurnOf(d) /\ RestoresOf(d) /\ MendedOf(d)
UploadInv == /\ cuts \in Nat /\ clicks \in Nat
             /\ TaskAlone => /\ HandsOff /\ Past /\ Sound(remote, now, data)
                             /\ \A d \in Devices : TaskInv(d)

LEMMA Typed ==
  ASSUME TypeOK
  PROVE  /\ run \in AllRuns /\ now \in Nat
         /\ remote \in Packages \cup {None} /\ (remote # None => remote.by \in Devices)
         /\ \A d \in Devices : Task(d) \in Runs /\ data[d] \in Data /\ Loaded(Task(d))
         /\ \A d \in Devices : Task(d).pkg # None =>
              Task(d).pkg \in Packages /\ Task(d).pkg.by \in Devices
  BY SyncAssumption DEF TypeOK, AllRuns, Task, Loaded, Actors, Packages, Runs

\* What an assignment to a run of the task does.
LEMMA SetTask ==
  ASSUME run \in AllRuns, NEW d \in Devices, NEW r, Set(d, "auto", r)
  PROVE  /\ Task(d)' = r
         /\ \A e \in Devices : run'[e]["hand"] = run[e]["hand"]
         /\ \A e \in Devices \ {d} : Task(e)' = Task(e)
  BY DEF AllRuns, Set, Task, Actors

\* A step of the task on d that neither packs nor uploads: what the others
\* rely on stays, and what is left to see is the device itself.
Aside(d) ==
  /\ UNCHANGED <<remote, now, clicks, late>>
  /\ cuts' = cuts \/ cuts' = cuts + 1
  /\ \A e \in Devices : run'[e]["hand"] = run[e]["hand"]
  /\ \A e \in Devices \ {d} : Task(e)' = Task(e) /\ data'[e] = data[e]
  /\ At(d, "auto", "put")' => Task(d)' = Task(d)
  /\ data[d].share => data'[d].share
  /\ data'[d].seen <= now
LEMMA AheadKept ==
  ASSUME NEW d \in Devices, Aside(d), NEW e \in Devices, NEW s, Ahead(e, s, remote, run)
  PROVE  Ahead(e, s, remote, run)'
<1>1. \A c \in Devices : Arrives(Task(c), s) => Arrives(Task(c)', s)
  BY DEF Aside, Arrives, At, Task
<1> QED BY <1>1 DEF Ahead, Aside, Task

LEMMA AsideKeeps ==
  ASSUME TypeOK, TypeOK', UploadInv, TaskAlone', NEW d \in Devices, Aside(d),
         TaskAlone => SoundOf(d)' /\ RestoresOf(d)' /\ MendedOf(d)'
  PROVE  UploadInv'
<1>1. TaskAlone /\ cuts' \in Nat /\ clicks' \in Nat
  BY DEF UploadInv, TaskAlone, Aside, TwoDevices
<1>2. HandsOff'
  BY <1>1 DEF UploadInv, HandsOff, Busy, At, Aside
<1>3. Past'
  BY <1>1 DEF UploadInv, Past, Aside
<1>4. \A e \in Devices : data[e].share => data'[e].share
  BY DEF Aside
<1>5. now' = now /\ now \in Nat /\ remote' = remote
  BY Typed DEF Aside
<1>7. Sound(remote, now, data)'
  BY <1>1, <1>4, <1>5, Typed DEF UploadInv, Sound
<1>8. ASSUME NEW e \in Devices
      PROVE  TaskInv(e)'
  <2>1. CASE e = d
    <3>1. InTurnOf(d)'
      <4>1. SUFFICES ASSUME At(d, "auto", "put")' PROVE InTurnOf(d)'
        BY DEF InTurnOf
      <4>2. Task(d)' = Task(d) /\ At(d, "auto", "put")
        BY <4>1 DEF Aside, At, Task
      <4>3. InTurnOf(d)
        BY <1>1 DEF UploadInv, TaskInv
      <4> QED BY <1>5, <4>2, <4>3 DEF InTurnOf
    <3> QED BY <1>1, <2>1, <3>1 DEF TaskInv
  <2>2. CASE e # d
    <3>1. Task(e)' = Task(e) /\ data'[e] = data[e]
      BY <2>2 DEF Aside
    <3>2. SoundOf(e)'
      BY <1>1, <1>4, <1>5, <3>1, Typed DEF UploadInv, TaskInv, SoundOf, Sound
    <3>3. InTurnOf(e)'
      BY <1>1, <1>5, <3>1 DEF UploadInv, TaskInv, InTurnOf, At, Task
    <3>4. RestoresOf(e)'
      BY <1>1, <1>5, <3>1, AheadKept DEF UploadInv, TaskInv, RestoresOf, At, Task
    <3>5. MendedOf(e)'
      <4>1. cuts = 1 => cuts' = 1
        BY <1>1 DEF TaskAlone, Aside
      <4>2. Mends(e) => Mends(e)'
        BY <3>1, AheadKept DEF Mends, At, Task
      <4> QED BY <1>1, <3>1, <4>1, <4>2 DEF UploadInv, TaskInv, MendedOf, At, Task
    <3> QED BY <3>2, <3>3, <3>4, <3>5 DEF TaskInv
  <2> QED BY <2>1, <2>2
<1> QED BY <1>1, <1>2, <1>3, <1>7, <1>8 DEF UploadInv
\* The task on d goes on to r and nothing else happens, except to the data
\* of d: what is left to see.
LEMMA GoesOn ==
  ASSUME TypeOK, TypeOK', UploadInv, TaskAlone', NEW d \in Devices, NEW r,
         Set(d, "auto", r), UNCHANGED <<remote, now, clicks, late>>,
         cuts' = cuts \/ cuts' = cuts + 1,
         r.pc # "put", data[d].share => data'[d].share, data'[d].seen <= now,
         \A e \in Devices \ {d} : data'[e] = data[e],
         TaskAlone => SoundOf(d)' /\ RestoresOf(d)' /\ MendedOf(d)'
  PROVE  UploadInv'
<1>1. Aside(d)
  BY Typed, SetTask DEF Aside, At, Task
<1> QED BY <1>1, AsideKeeps

LEMMA EditMends ==
  ASSUME TypeOK, TypeOK', UploadInv, TaskAlone', NEW d \in Devices, NEW g \in Files, Edit(d, g)
  PROVE  UploadInv'
<1>1. PICK f : data' = [data EXCEPT ![d].settings = @ \cup {f}, ![d].rime[g] = @ \cup {f}]
  BY DEF Edit
<1>2. /\ run' = run /\ UNCHANGED <<remote, now, clicks, late, cuts>>
      /\ Task(d).pc \notin {"settings", "rime"}
  BY DEF Edit, Task, Actors
<1>3. /\ Whole(data[d]) => Whole(data'[d])
      /\ data'[d].seen = data[d].seen /\ data'[d].share = data[d].share
      /\ \A e \in Devices \ {d} : data'[e] = data[e]
  <2>1. /\ data'[d].settings = data[d].settings \cup {f}
        /\ \A h \in Files :
             data'[d].rime[h] = IF h = g THEN data[d].rime[g] \cup {f} ELSE data[d].rime[h]
        /\ data'[d].seen = data[d].seen /\ data'[d].share = data[d].share
        /\ \A e \in Devices \ {d} : data'[e] = data[e]
    BY <1>1 DEF TypeOK, Data
  <2>2. \A x : x = f \/ InFiles(data[d], x) => InFiles(data'[d], x)
    BY <2>1 DEF InFiles
  <2> QED BY <2>1, <2>2 DEF Whole
<1>4. TaskAlone
  BY <1>2 DEF TaskAlone, TwoDevices
<1>5. data[d].seen <= now /\ TaskInv(d)
  BY <1>4 DEF UploadInv, Past
<1>6. SoundOf(d)'
  <2>1. \A e \in Devices : data'[e].share = data[e].share
    BY <1>3
  <2> QED BY <1>2, <1>5, <2>1, Typed DEF TaskInv, SoundOf, Sound, Task
<1>7. RestoresOf(d)'
  BY <1>2, <1>5 DEF TaskInv, RestoresOf, Task, At
<1>8. MendedOf(d)'
  BY <1>2, <1>3, <1>5 DEF TaskInv, MendedOf, Mends, Task, At
<1>9. Aside(d)
  BY <1>2, <1>3, <1>5 DEF Aside, At, Task
<1> QED BY <1>6, <1>7, <1>8, <1>9, AsideKeeps

\* The watermark and the package, before anything is restored.
LEMMA FetchMends ==
  ASSUME TypeOK, TypeOK', UploadInv, TaskAlone', NEW d \in Devices,
         Begin(d) \/ Get(d)
  PROVE  UploadInv'
<1>1. UNCHANGED <<data, remote, now, clicks, late, cuts>>
  BY DEF Begin, Get
<1>2. TaskAlone
  BY <1>1 DEF TaskAlone, TwoDevices
<1>3. data[d].seen <= now /\ TaskInv(d) /\ Sound(remote, now, data)
  BY <1>2 DEF UploadInv, Past
<1>4. CASE Begin(d)
  <2> DEFINE r == Run("get", None, data[d].seen)
  <2>1. Set(d, "auto", r) /\ At(d, "auto", "idle")
    BY <1>4 DEF Begin, Busy
  <2>2. Task(d)' = r /\ r.pc = "get" /\ r.pkg = None /\ r.seen = data[d].seen
    BY <2>1, Typed, SetTask DEF Run
  <2>3. SoundOf(d)' /\ RestoresOf(d)'
    BY <2>2 DEF SoundOf, Sound, RestoresOf, At, Task, Restoring
  <2>4. Ahead(d, data[d].seen, remote, run) => Ahead(d, data[d].seen, remote, run)'
    BY <1>1, <2>1, Typed, SetTask DEF Ahead, Task
  <2>5. MendedOf(d)'
    BY <1>1, <1>3, <2>1, <2>2, <2>4 DEF TaskInv, MendedOf, Mends, At, Task, Restoring
  <2> HIDE DEF r
  <2> QED BY <1>1, <1>3, <2>1, <2>2, <2>3, <2>5, GoesOn
<1>5. CASE Get(d)
  <2>1. At(d, "auto", "get") /\ Task(d).pc = "get"
    BY <1>5 DEF Get, At, Task
  <2>2. CASE remote # None /\ remote.created > Task(d).seen
    <3> DEFINE r == Run("mark", remote, 0)
    <3>1. Set(d, "auto", r)
      BY <1>5, <2>2 DEF Get, Task
    <3>2. Task(d)' = r /\ r.pc = "mark" /\ r.pkg = remote
      BY <3>1, Typed, SetTask DEF Run
    <3>3. SoundOf(d)'
      BY <1>1, <1>3, <3>2 DEF SoundOf
    <3>4. ASSUME remote.by # d, remote.full
          PROVE  Ahead(d, remote.data.seen, remote, run)
      <4>1. remote.data.seen < remote.created
        BY <1>3, <2>2 DEF Sound
      <4>2. ASSUME TwoDevices, NEW e \in Devices \ {d}
            PROVE  Arrives(Task(e), remote.data.seen)
        <5>1. remote.by = e
          BY <2>2, <3>4, <4>2, Typed DEF TwoDevices
        <5>2. InTurnOf(e) /\ Task(e) \in Runs
          BY <1>2, Typed DEF UploadInv, TaskInv
        <5>3. Task(e).pc = "put" => Task(e).pkg.full /\ Task(e).pkg.created > remote.created
          BY <2>2, <3>4, <5>1, <5>2 DEF InTurnOf, At, Task
        <5>4. SoundOf(e) /\ Loaded(Task(e)) /\ (Task(e).pkg # None => Task(e).pkg \in Packages)
          BY <1>2, Typed DEF UploadInv, TaskInv
        <5>5. remote \in Packages
          BY <2>2, Typed
        <5> QED BY <4>1, <5>3, <5>4, <5>5, SyncAssumption DEF Arrives, Packages, Data, Loaded
      <4> QED BY <2>2, <3>4, <4>1, <4>2 DEF Ahead, Task
    <3>5. Ahead(d, remote.data.seen, remote, run) => Ahead(d, remote.data.seen, remote, run)'
      BY <1>1, <3>1, Typed, SetTask DEF Ahead, Task
    <3>6. RestoresOf(d)'
      BY <1>1, <3>2, <3>4, <3>5 DEF RestoresOf, At, Task, Restoring
    <3>7. MendedOf(d)'
      BY <1>1, <1>3, <2>1, <3>2 DEF TaskInv, MendedOf, Mends, Ahead, At, Task, Restoring
    <3> HIDE DEF r
    <3> QED BY <1>1, <1>3, <3>1, <3>2, <3>3, <3>6, <3>7, GoesOn
  <2>3. CASE ~(remote # None /\ remote.created > Task(d).seen)
    <3> DEFINE r == Run("pack", None, 0)
    <3>1. Set(d, "auto", r)
      BY <1>5, <2>3 DEF Get, Task, ToUpload
    <3>2. Task(d)' = r /\ r.pc = "pack" /\ r.pkg = None
      BY <3>1, Typed, SetTask DEF Run
    <3>3. SoundOf(d)' /\ RestoresOf(d)'
      BY <3>2 DEF SoundOf, Sound, RestoresOf, At, Task, Restoring
    <3>4. Whole(data[d])
      BY <1>3, <2>1, <2>3 DEF TaskInv, MendedOf, Mends, Ahead, At, Task
    <3>5. MendedOf(d)'
      BY <1>1, <3>4 DEF MendedOf
    <3> HIDE DEF r
    <3> QED BY <1>1, <1>3, <3>1, <3>2, <3>3, <3>5, GoesOn
  <2> QED BY <2>2, <2>3
<1> QED BY <1>4, <1>5
\* A run that goes on past its download, its package kept.
LEMMA Kept ==
  ASSUME TypeOK, NEW d \in Devices, NEW l, Goto(d, "auto", l)
  PROVE  \E r : /\ Set(d, "auto", r) /\ Task(d)' = r
                /\ r.pc = l /\ r.pkg = Task(d).pkg
<1> DEFINE r == [run[d]["auto"] EXCEPT !.pc = l]
<1>1. Set(d, "auto", r)
  BY DEF Goto
<1>2. r.pc = l /\ r.pkg = Task(d).pkg
  BY Typed DEF Task, Runs
<1>3. Task(d)' = r
  BY <1>1, Typed, SetTask
<1> QED BY <1>1, <1>2, <1>3

\* The watermark, whether it was written or not, and the backup.
LEMMA MarkMends ==
  ASSUME TypeOK, TypeOK', UploadInv, TaskAlone', NEW d \in Devices,
         Mark(d) \/ MarkFails(d) \/ Save(d, "auto") \/ SaveFails(d, "auto")
  PROVE  UploadInv'
<1> DEFINE p == Task(d).pkg
<1>1. /\ UNCHANGED <<remote, now, clicks, late>>
      /\ cuts' = cuts \/ (cuts' = cuts + 1 /\ data' = data)
      /\ Task(d).pc \in {"mark", "save"}
      /\ Task(d).pc = "save" => data' = data
      /\ Goto(d, "auto", "save") \/ Goto(d, "auto", "settings") \/ ToUpload(d, "auto")
  BY DEF Mark, MarkFails, Save, SaveFails, AfterSave, AfterRestore, At, Task
<1>2. TaskAlone /\ (cuts' # cuts => cuts # 1)
  BY <1>1 DEF TaskAlone, TwoDevices, UploadInv
<1>3. data[d].seen <= now /\ TaskInv(d)
  BY <1>2 DEF UploadInv, Past
<1>4. p # None /\ p \in Packages /\ p.created <= now
  BY <1>1, <1>3, Typed DEF Loaded, TaskInv, SoundOf, Sound
<1>5. /\ data'[d].settings = data[d].settings /\ data'[d].rime = data[d].rime
      /\ data'[d].share = data[d].share /\ data'[d].seen <= now
      /\ \A e \in Devices \ {d} : data'[e] = data[e]
  <2>1. CASE data' = data
    BY <1>3, <2>1
  <2>2. CASE data' = [data EXCEPT ![d].seen = p.created]
    BY <1>4, <2>2 DEF TypeOK, Data
  <2> QED BY <2>1, <2>2 DEF Mark, MarkFails, Save, SaveFails, Task
<1>6. ~Whole(data'[d]) => p.by # d /\ p.full /\ cuts = 1 /\ cuts' = 1
  BY <1>1, <1>2, <1>3, <1>5 DEF TaskInv, MendedOf, Mends, Whole, InFiles, At, Task, Restoring
<1>7. Task(d).pc = "save" => p.by # d
  BY <1>3 DEF TaskInv, RestoresOf
<1>8. CASE ToUpload(d, "auto")
  <2> DEFINE r == Run("pack", None, 0)
  <2>1. Set(d, "auto", r)
    BY <1>8 DEF ToUpload
  <2>2. Task(d)' = r /\ r.pc = "pack" /\ r.pkg = None
    BY <2>1, Typed, SetTask DEF Run
  <2>3. SoundOf(d)' /\ RestoresOf(d)'
    BY <2>2 DEF SoundOf, Sound, RestoresOf, At, Task, Restoring
  <2>4. ~(p.by # d /\ p.full)
    <3>1. Task(d)'.pc = "pack"
      BY <2>2
    <3>2. Mark(d) \/ MarkFails(d) => ~(p.by # d)
      BY <3>1, Kept DEF Mark, MarkFails, Task
    <3>3. Save(d, "auto") \/ SaveFails(d, "auto") => ~p.full
      BY <3>1, Kept DEF Save, SaveFails, AfterSave, Task
    <3> QED BY <3>2, <3>3
  <2>5. MendedOf(d)'
    BY <1>6, <2>4 DEF MendedOf
  <2> HIDE DEF r
  <2> QED BY <1>1, <1>5, <2>1, <2>2, <2>3, <2>5, GoesOn
<1>9. ASSUME NEW l \in {"save", "settings"}, Goto(d, "auto", l)
      PROVE  UploadInv'
  <2>1. PICK r : Set(d, "auto", r) /\ Task(d)' = r /\ r.pc = l /\ r.pkg = p
    BY <1>9, Kept
  <2>2. SoundOf(d)'
    <3>1. \A e \in Devices : data'[e].share = data[e].share
      BY <1>5
    <3> QED BY <1>1, <1>3, <1>4, <2>1, <3>1, Typed DEF TaskInv, SoundOf, Sound
  <2>3. p.by # d /\ (l = "settings" => p.full)
    <3>1. Task(d)'.pc = l
      BY <2>1
    <3>2. ToUpload(d, "auto") => Task(d)'.pc = "pack"
      BY Typed, SetTask DEF ToUpload, Run
    <3>3. Goto(d, "auto", "save") => Task(d)'.pc = "save"
      BY Kept
    <3> QED BY <1>7, <3>1, <3>2, <3>3
            DEF Mark, MarkFails, Save, SaveFails, AfterSave, AfterRestore, Task, At
  <2>4. ASSUME Ahead(d, p.data.seen, remote, run)
        PROVE  Ahead(d, p.data.seen, remote, run)'
    <3>1. p' = p
      BY <2>1
    <3> QED BY <1>1, <2>1, <2>4, <3>1, Typed, SetTask DEF Ahead, Task
  <2>5. RestoresOf(d)'
    BY <1>1, <1>3, <2>1, <2>3, <2>4 DEF TaskInv, RestoresOf, At, Task, Restoring
  <2>6. MendedOf(d)'
    BY <1>6, <2>1 DEF MendedOf, Mends, At, Task, Restoring
  <2> QED BY <1>1, <1>5, <2>1, <2>2, <2>5, <2>6, GoesOn
<1> QED BY <1>1, <1>8, <1>9
\* The restore: settings.ini brings its watermark, the dictionaries make the
\* data whole again.
LEMMA RestoreMends ==
  ASSUME TypeOK, TypeOK', UploadInv, TaskAlone', NEW d \in Devices,
         \/ RestoreSettings(d, "auto") \/ Restored(d, "auto")
         \/ \E f \in Files : RestoreRime(d, "auto", f)
  PROVE  UploadInv'
<1> DEFINE p == Task(d).pkg
<1>1. UNCHANGED <<remote, now, clicks, late, cuts>> /\ Task(d).pc \in {"settings", "rime"}
  BY DEF RestoreSettings, RestoreRime, Restored, At, Task
<1>2. TaskAlone
  BY <1>1 DEF TaskAlone, TwoDevices
<1>3. data[d].seen <= now /\ TaskInv(d)
  BY <1>2 DEF UploadInv, Past
<1>4. /\ p # None /\ p \in Packages /\ p.by # d /\ p.full
      /\ p.data.seen < p.created /\ p.created <= now /\ p.data.share /\ Whole(p.data)
      /\ data[p.by].share
      /\ Ahead(d, p.data.seen, remote, run)
  BY <1>1, <1>3, Typed DEF Loaded, TaskInv, SoundOf, Sound, RestoresOf, Restoring
<1>5. p.data.seen <= now
  BY <1>4, Typed, SyncAssumption DEF Packages, Data
<1>6. CASE RestoreSettings(d, "auto")
  <2>1. PICK r : /\ Set(d, "auto", r) /\ Task(d)' = r /\ r.pc = "rime" /\ r.pkg = p
                 /\ r.left = {f \in Files : p.data.rime[f] # {}}
    <3> DEFINE r == [run[d]["auto"] EXCEPT !.pc = "rime",
                                           !.left = {f \in Files : p.data.rime[f] # {}}]
    <3>1. Set(d, "auto", r)
      BY <1>6 DEF RestoreSettings, ToFiles, Task
    <3>2. r.pc = "rime" /\ r.pkg = p /\ r.left = {f \in Files : p.data.rime[f] # {}}
      BY Typed DEF Task, Runs
    <3>3. Task(d)' = r
      BY <3>1, Typed, SetTask
    <3> QED BY <3>1, <3>2, <3>3
  <2>2. /\ data'[d].settings = p.data.settings /\ data'[d].seen = p.data.seen
        /\ data'[d].share = p.data.share
        /\ \A e \in Devices \ {d} : data'[e] = data[e]
    BY <1>4, <1>6 DEF RestoreSettings, TypeOK, Data, Packages, Task
  <2>3. SoundOf(d)'
    BY <1>1, <1>3, <1>4, <2>1, <2>2, Typed DEF TaskInv, SoundOf, Sound
  <2>4. Ahead(d, p.data.seen, remote, run)'
    <3>1. p' = p
      BY <2>1
    <3> QED BY <1>1, <1>4, <2>1, <3>1, Typed, SetTask DEF Ahead, Task
  <2>5. RestoresOf(d)'
    BY <1>4, <2>1, <2>2, <2>4 DEF RestoresOf, At, Task, Restoring
  <2>6. MendedOf(d)'
    BY <2>1 DEF MendedOf, At, Task
  <2> QED BY <1>1, <1>4, <1>5, <2>1, <2>2, <2>3, <2>5, <2>6, GoesOn
<1>8. ASSUME NEW g \in Files, RestoreRime(d, "auto", g) PROVE UploadInv'
  <2> DEFINE r == [run[d]["auto"] EXCEPT !.left = @ \ {g}]
  <2>1. Set(d, "auto", r) /\ At(d, "auto", "rime")
        /\ data' = [data EXCEPT ![d].rime[g] = p.data.rime[g]]
    BY <1>8 DEF RestoreRime, Task
  <2>2. r.pc = "rime" /\ r.pkg = p /\ r.left = Task(d).left \ {g}
    BY <2>1, Typed DEF Task, Runs, At
  <2>3. Task(d)' = r
    BY <2>1, Typed, SetTask
  <2> HIDE DEF r
  <2>4. /\ data'[d].settings = data[d].settings /\ data'[d].seen = data[d].seen
        /\ data'[d].share = data[d].share
        /\ \A f \in Files :
             data'[d].rime[f] = IF f = g THEN p.data.rime[g] ELSE data[d].rime[f]
        /\ \A e \in Devices \ {d} : data'[e] = data[e]
    BY <2>1 DEF TypeOK, Data
  <2>5. SoundOf(d)'
    BY <1>1, <1>3, <1>4, <2>2, <2>3, <2>4, Typed DEF TaskInv, SoundOf, Sound
  <2>6. Ahead(d, p.data.seen, remote, run)'
    <3>1. p' = p
      BY <2>2, <2>3
    <3> QED BY <1>1, <1>4, <2>1, <2>2, <3>1, Typed, SetTask DEF Ahead, Task
  <2>7. /\ data[d].settings = p.data.settings /\ data[d].seen = p.data.seen
        /\ \A f \in Files \ Task(d).left : p.data.rime[f] \subseteq data[d].rime[f]
    BY <1>3, <2>1 DEF TaskInv, RestoresOf
  <2>8. /\ data'[d].settings = p.data.settings /\ data'[d].seen = p.data.seen
        /\ \A f \in Files \ r.left : p.data.rime[f] \subseteq data'[d].rime[f]
    BY <2>2, <2>4, <2>7
  <2>9. RestoresOf(d)'
    BY <1>4, <2>2, <2>3, <2>6, <2>8 DEF RestoresOf, At, Task, Restoring
  <2>10. MendedOf(d)'
    BY <2>2, <2>3 DEF MendedOf, At, Task
  <2> QED BY <1>1, <1>3, <2>1, <2>2, <2>4, <2>5, <2>9, <2>10, GoesOn
<1>7. CASE Restored(d, "auto")
  <2> DEFINE r == Run("pack", None, 0)
  <2>1. Set(d, "auto", r)
    BY <1>7 DEF Restored, AfterRestore, ToUpload
  <2>2. Task(d)' = r /\ r.pc = "pack" /\ r.pkg = None
    BY <2>1, Typed, SetTask DEF Run
  <2>3. SoundOf(d)' /\ RestoresOf(d)'
    BY <2>2 DEF SoundOf, Sound, RestoresOf, At, Task, Restoring
  <2>4. data' = data /\ At(d, "auto", "rime") /\ Task(d).left = {}
    BY <1>7 DEF Restored, Task
  <2>6. /\ data[d].settings = p.data.settings
        /\ \A f \in Files : p.data.rime[f] \subseteq data[d].rime[f]
    BY <1>3, <2>4 DEF TaskInv, RestoresOf
  <2>7. MendedOf(d)'
    BY <1>4, <2>4, <2>6 DEF MendedOf, Whole, InFiles
  <2> HIDE DEF r
  <2> QED BY <1>1, <1>3, <2>1, <2>2, <2>3, <2>4, <2>7, GoesOn
<1> QED BY <1>6, <1>7, <1>8

\* A run that is cut off in the middle of a restore leaves data that are not
\* whole, and a watermark that makes the next run fetch them again.
LEMMA CutMends ==
  ASSUME TypeOK, TypeOK', UploadInv, TaskAlone', NEW d \in Devices, CutOff(d, "auto")
  PROVE  UploadInv'
<1>1. UNCHANGED <<data, remote, now, clicks, late>> /\ cuts' = cuts + 1
  BY DEF CutOff
<1>2. TaskAlone /\ cuts = 0
  BY <1>1 DEF TaskAlone, TwoDevices, UploadInv
<1>3. data[d].seen <= now /\ TaskInv(d)
  BY <1>2 DEF UploadInv, Past
<1>4. Set(d, "auto", Idle)
  BY DEF CutOff, End
<1>5. Task(d)' = Idle /\ Idle.pc = "idle" /\ Idle.pkg = None
  BY <1>4, Typed, SetTask DEF Run, Idle
<1>6. SoundOf(d)' /\ RestoresOf(d)'
  BY <1>5 DEF SoundOf, Sound, RestoresOf, At, Task, Restoring
<1>7. MendedOf(d)'
  <2>1. SUFFICES ASSUME ~Whole(data[d]) PROVE cuts' = 1 /\ Mends(d)'
    BY <1>1 DEF MendedOf
  <2>2. At(d, "auto", "rime")
    BY <1>2, <1>3, <2>1 DEF TaskInv, MendedOf
  <2>3. Ahead(d, data[d].seen, remote, run)
    BY <1>3, <2>2 DEF TaskInv, RestoresOf, At, Task, Restoring
  <2>4. Ahead(d, data[d].seen, remote, run)'
    BY <1>1, <1>4, <1>5, <2>3, Typed, SetTask DEF Ahead, Task
  <2> QED BY <1>1, <1>2, <1>5, <2>4 DEF Mends, At, Task, Restoring
<1> QED BY <1>1, <1>3, <1>4, <1>5, <1>6, <1>7, GoesOn

LEMMA PackMends ==
  ASSUME TypeOK, TypeOK', UploadInv, TaskAlone', NEW d \in Devices, Pack(d)
  PROVE  UploadInv'
<1> DEFINE r == Run("put", Packed(d), 0)
<1>1. UNCHANGED <<data, remote, clicks, late, cuts>> /\ now' = now + 1 /\ Set(d, "auto", r)
      /\ At(d, "auto", "pack")
  BY DEF Pack
<1>2. TaskAlone
  BY <1>1 DEF TaskAlone, TwoDevices
<1>3. /\ HandsOff /\ Past /\ Sound(remote, now, data)
      /\ cuts \in Nat /\ clicks \in Nat /\ \A e \in Devices : TaskInv(e)
  BY <1>2 DEF UploadInv
<1>4. /\ Task(d)' = r /\ r.pc = "put" /\ r.pkg = Packed(d)
      /\ \A e \in Devices : run'[e]["hand"] = run[e]["hand"]
      /\ \A e \in Devices \ {d} : Task(e)' = Task(e)
  BY <1>1, Typed, SetTask DEF Run
<1> HIDE DEF r
<1>5. HandsOff'
  BY <1>3, <1>4 DEF HandsOff, Busy, At
<1>6. Past'
  BY <1>1, <1>3, Typed, SyncAssumption DEF Past, Data
<1>7. Sound(remote, now, data)'
  BY <1>1, <1>3, Typed, SyncAssumption DEF Sound, Packages
<1>8. Whole(data[d])
  BY <1>1, <1>3 DEF TaskInv, MendedOf, Mends, At, Task
<1>9. ASSUME NEW e \in Devices \ {d}, NEW s \in Nat, Ahead(e, s, remote, run)
      PROVE  Ahead(e, s, remote, run)'
  <2>1. ASSUME TwoDevices PROVE Arrives(r, s)
    <3>1. remote # None /\ remote.by = d /\ remote.full /\ remote.created > s
      BY <1>9, <2>1, Typed DEF Ahead, TwoDevices
    <3>2. remote.created <= now /\ data[d].share
      BY <1>3, <3>1 DEF Sound
    <3>3. remote.created \in Nat /\ now \in Nat
      BY <3>1, Typed, SyncAssumption DEF Packages
    <3> QED BY <1>4, <3>1, <3>2, <3>3 DEF Arrives, Packed
  <2> QED BY <1>1, <1>4, <1>9, <2>1 DEF Ahead, Task
<1>10. TaskInv(d)'
  <2>1. SoundOf(d)'
    BY <1>1, <1>3, <1>4, <1>8, Typed, SyncAssumption DEF SoundOf, Sound, Packed, Past, Data
  <2>2. InTurnOf(d)'
    BY <1>1, <1>3, <1>4, Typed, SyncAssumption DEF InTurnOf, Sound, Packed, Packages
  <2>3. RestoresOf(d)' /\ MendedOf(d)'
    BY <1>1, <1>4, <1>8 DEF RestoresOf, MendedOf, Restoring, At, Task
  <2> QED BY <2>1, <2>2, <2>3 DEF TaskInv
<1>11. ASSUME NEW e \in Devices \ {d} PROVE TaskInv(e)'
  <2>1. Task(e)' = Task(e) /\ Task(e) \in Runs /\ data[e] \in Data /\ TaskInv(e)
    BY <1>3, <1>4, Typed
  <2>2. SoundOf(e)'
    BY <1>1, <2>1, Typed, SyncAssumption DEF TaskInv, SoundOf, Sound, Packages
  <2>3. InTurnOf(e)'
    BY <1>1, <2>1 DEF TaskInv, InTurnOf, At, Task
  <2>4. RestoresOf(e)'
    <3>1. Task(e).pc \in Restoring => Task(e).pkg.data.seen \in Nat
      BY <2>1, Typed, SyncAssumption DEF Loaded, Packages, Data, Restoring
    <3> QED BY <1>1, <1>9, <2>1, <3>1 DEF TaskInv, RestoresOf, At, Task
  <2>5. MendedOf(e)'
    <3>1. data[e].seen \in Nat /\ Task(e).seen \in Nat
      BY <2>1, SyncAssumption DEF Data, Runs
    <3> QED BY <1>1, <1>9, <2>1, <3>1 DEF TaskInv, MendedOf, Mends, At, Task
  <2> QED BY <2>2, <2>3, <2>4, <2>5 DEF TaskInv
<1> QED BY <1>1, <1>3, <1>5, <1>6, <1>7, <1>10, <1>11 DEF UploadInv

LEMMA PutMends ==
  ASSUME TypeOK, TypeOK', UploadInv, TaskAlone', NEW d \in Devices, Put(d, "auto")
  PROVE  UploadInv'
<1> DEFINE p == Task(d).pkg
<1>1. /\ UNCHANGED <<data, now, clicks, cuts>> /\ remote' = p
      /\ late' = (late \/ (remote # None /\ remote.created > p.created))
      /\ Set(d, "auto", Idle) /\ At(d, "auto", "put")
  BY DEF Put, End, Task
<1>2. TaskAlone
  BY <1>1 DEF TaskAlone, TwoDevices
<1>3. /\ HandsOff /\ Past /\ cuts \in Nat /\ clicks \in Nat /\ \A e \in Devices : TaskInv(e)
  BY <1>2 DEF UploadInv
<1>4. /\ Task(d)' = Idle /\ Idle.pc = "idle" /\ Idle.pkg = None
      /\ \A e \in Devices : run'[e]["hand"] = run[e]["hand"]
      /\ \A e \in Devices \ {d} : Task(e)' = Task(e)
  BY <1>1, Typed, SetTask DEF Run, Idle
<1>5. HandsOff' /\ Past'
  BY <1>1, <1>3, <1>4 DEF HandsOff, Past, Busy, At
<1>6. p # None /\ p \in Packages /\ p.by = d
  BY <1>1, <1>3, Typed DEF Loaded, TaskInv, InTurnOf, At, Task
<1>7. Sound(remote, now, data)'
  BY <1>1, <1>3 DEF TaskInv, SoundOf
<1>8. Whole(data[d])
  BY <1>1, <1>3 DEF TaskInv, MendedOf, Mends, At, Task
<1>9. ASSUME NEW e \in Devices \ {d}, NEW s \in Nat, Ahead(e, s, remote, run)
      PROVE  Ahead(e, s, remote, run)'
  <2>1. p.full /\ p.created > s
    <3>1. CASE TwoDevices
      BY <1>1, <1>9, <3>1 DEF Ahead, Arrives, At, Task
    <3>2. CASE Sharing = Devices /\ ~late'
      <4>1. p.full
        BY <1>3, <1>6, <3>2 DEF TaskInv, SoundOf, Sound
      <4>2. ~(remote.created > p.created) /\ remote.created > s /\ remote \in Packages
        BY <1>1, <1>9, <3>2, Typed DEF Ahead
      <4>3. p.created \in Nat /\ remote.created \in Nat
        BY <1>6, <4>2, SyncAssumption DEF Packages
      <4> QED BY <4>1, <4>2, <4>3
    <3> QED BY <3>1, <3>2 DEF TaskAlone, TwoDevices
  <2> QED BY <1>1, <1>4, <1>6, <1>9, <2>1 DEF Ahead, Task, Arrives
<1>10. TaskInv(d)'
  BY <1>1, <1>4, <1>8
     DEF TaskInv, SoundOf, Sound, InTurnOf, RestoresOf, MendedOf, Restoring, At, Task
<1>11. ASSUME NEW e \in Devices \ {d} PROVE TaskInv(e)'
  <2>1. Task(e)' = Task(e) /\ Task(e) \in Runs /\ data[e] \in Data /\ TaskInv(e)
    BY <1>3, <1>4, Typed
  <2>2. SoundOf(e)' /\ InTurnOf(e)'
    BY <1>1, <1>6, <2>1 DEF TaskInv, SoundOf, InTurnOf, At, Task
  <2>3. RestoresOf(e)'
    <3>1. Task(e).pc \in Restoring => Task(e).pkg.data.seen \in Nat
      BY <2>1, Typed, SyncAssumption DEF Loaded, Packages, Data, Restoring
    <3> QED BY <1>1, <1>9, <2>1, <3>1 DEF TaskInv, RestoresOf, At, Task
  <2>4. MendedOf(e)'
    <3>1. data[e].seen \in Nat /\ Task(e).seen \in Nat
      BY <2>1, SyncAssumption DEF Data, Runs
    <3> QED BY <1>1, <1>9, <2>1, <3>1 DEF TaskInv, MendedOf, Mends, At, Task
  <2> QED BY <2>2, <2>3, <2>4 DEF TaskInv
<1> QED BY <1>1, <1>3, <1>5, <1>7, <1>10, <1>11 DEF UploadInv

\* Torn data never reach the cloud by the task alone, with one run cut off
\* anywhere: for two devices, and for any number that all share their user
\* data as long as no upload arrives after a later one.
THEOREM WholeUploadsCorrect == Spec => []WholeUploads
<1>1. Init => UploadInv
  <2> SUFFICES ASSUME Init PROVE UploadInv
    OBVIOUS
  <2>1. /\ \A d \in Devices, a \in Actors : run[d][a] = Idle
        /\ Idle.pc = "idle" /\ Idle.pkg = None
    BY DEF Init, Idle, Run
  <2>2. \A d \in Devices : /\ Whole(data[d]) /\ data[d].seen = 0
                           /\ d \in Sharing => data[d].share
    <3>1. ASSUME NEW d \in Devices
          PROVE  data[d].settings = {} /\ data[d].seen = 0 /\ (d \in Sharing => data[d].share)
      <4> DEFINE none == [f \in Files |-> {}]
      <4>1. data[d] = [settings |-> {}, rime |-> none, share |-> d \in Sharing, seen |-> 0]
        BY DEF Init
      <4> HIDE DEF none
      <4>2. data[d].settings = {} /\ data[d].seen = 0
        BY <4>1
      <4>3. data[d].share = (d \in Sharing)
        BY <4>1
      <4>4. d \in Sharing => data[d].share
        BY <4>3
      <4> QED BY <4>2, <4>4
    <3>2. \A d \in Devices : Whole(data[d])
      BY <3>1 DEF Whole
    <3> QED BY <3>1, <3>2
  <2>3. HandsOff /\ Past /\ Sound(remote, now, data) /\ cuts \in Nat /\ clicks \in Nat
    <3>1. remote = None /\ now = 0 /\ cuts = 0 /\ clicks = 0
      BY DEF Init
    <3> QED BY <2>1, <2>2, <3>1 DEF HandsOff, Past, Sound, At, Busy, Actors
  <2>4. ASSUME NEW d \in Devices PROVE TaskInv(d)
    <3>1. Task(d).pc = "idle" /\ Task(d).pkg = None /\ At(d, "auto", "idle") /\ Whole(data[d])
      <4>1. Task(d) = Idle
        BY <2>1 DEF Task, Actors
      <4>2. Whole(data[d])
        BY <2>2
      <4> QED BY <2>1, <4>1, <4>2 DEF Task, At
    <3> QED BY <3>1
            DEF TaskInv, SoundOf, Sound, InTurnOf, RestoresOf, MendedOf, Restoring, At, Task
  <2> QED BY <2>3, <2>4 DEF UploadInv
<1>2. TypeOK /\ TypeOK' /\ UploadInv /\ [Next]_vars => UploadInv'
  <2> SUFFICES ASSUME TypeOK, TypeOK', UploadInv, [Next]_vars PROVE UploadInv'
    OBVIOUS
  <2>1. (cuts' = cuts \/ cuts' = cuts + 1) /\ (clicks' = clicks \/ clicks' = clicks + 1)
        /\ (late => late')
    <3>1. ASSUME NEW d \in Devices,
                 \/ (\E f \in Files : Edit(d, f)) \/ Begin(d) \/ Get(d)
                 \/ Mark(d) \/ MarkFails(d) \/ Pack(d)
          PROVE  UNCHANGED <<clicks, late>> /\ (cuts' = cuts \/ cuts' = cuts + 1)
      BY <3>1 DEF Edit, Begin, Get, Mark, MarkFails, Pack
    <3>2. ASSUME NEW d \in Devices,
                 UploadNow(d) \/ DownloadNow(d) \/ RestoreLocalBackup(d) \/ CreateLocalBackup(d)
          PROVE  UNCHANGED <<cuts, late>> /\ clicks' = clicks + 1
      BY <3>2 DEF UploadNow, DownloadNow, RestoreLocalBackup, CreateLocalBackup, Click
    <3>3. ASSUME NEW d \in Devices, NEW a \in Actors, Step(d, a)
          PROVE  clicks' = clicks /\ (late => late') /\ (cuts' = cuts \/ cuts' = cuts + 1)
      <4>1. CASE Put(d, a)
        <5>1. UNCHANGED <<clicks, cuts>> /\ late' = (late \/ (remote # None /\ remote.created > run[d][a].pkg.created))
          BY <4>1 DEF Put
        <5>2. late => late'
          BY <5>1, Zenon
        <5> QED BY <5>1, <5>2
      <4>2. CASE ~Put(d, a)
        <5>1. ASSUME NEW f \in Files, RestoreRime(d, a, f) PROVE UNCHANGED <<clicks, late, cuts>>
          BY <5>1 DEF RestoreRime
        <5>2. ASSUME Save(d, a) \/ SaveFails(d, a) \/ RestoreSettings(d, a) \/ Restored(d, a)
                     \/ CutOff(d, a)
              PROVE  UNCHANGED <<clicks, late>> /\ (cuts' = cuts \/ cuts' = cuts + 1)
          BY <5>2 DEF Save, SaveFails, RestoreSettings, Restored, CutOff
        <5> QED BY <3>3, <4>2, <5>1, <5>2 DEF Step
      <4> QED BY <4>1, <4>2
    <3> QED BY <3>1, <3>2, <3>3 DEF Next, vars
  <2>2. SUFFICES ASSUME TaskAlone' PROVE UploadInv'
    <3>1. cuts \in Nat /\ clicks \in Nat
      BY DEF UploadInv
    <3> QED BY <2>1, <3>1 DEF UploadInv
  <2>a. TaskAlone
    BY <2>1, <2>2 DEF UploadInv, TaskAlone, TwoDevices
  <2>3. CASE UNCHANGED vars
    BY <2>3
       DEF vars, UploadInv, TaskAlone, TwoDevices, HandsOff, Past, Sound, TaskInv, SoundOf,
           InTurnOf, RestoresOf, MendedOf, Mends, Ahead, At, Task, Busy
  <2>4. ASSUME NEW d \in Devices, Step(d, "hand") PROVE FALSE
    BY <2>a, <2>4
       DEF UploadInv, HandsOff, Busy, At, Step, Save, SaveFails, RestoreSettings,
           RestoreRime, Restored, Put, CutOff
  <2>5. ASSUME NEW d \in Devices,
               UploadNow(d) \/ DownloadNow(d) \/ RestoreLocalBackup(d) \/ CreateLocalBackup(d)
        PROVE  FALSE
    <3>1. clicks' = clicks + 1 /\ clicks' = 0
      BY <2>2, <2>5
         DEF TaskAlone, UploadNow, DownloadNow, RestoreLocalBackup, CreateLocalBackup, Click
    <3> QED BY <3>1 DEF UploadInv
  <2> QED
    BY <2>2, <2>3, <2>4, <2>5, EditMends, FetchMends, MarkMends, RestoreMends, CutMends, PackMends,
       PutMends
       DEF Next, Step, Actors
<1>3. UploadInv => WholeUploads
  BY DEF UploadInv, TaskAlone, WholeUploads, Sound, Whole
<1>4. QED
  BY <1>1, <1>2, <1>3, TypeCorrect, PTL DEF Spec

-----------------------------------------------------------------------------
(* SettingsStore.                                                          *)
(* Every variable keeps its type.                                          *)
THEOREM StoreTypeCorrect == StoreSpec => []StoreTypeOK
<1> USE StoreAssumption DEF StoreTypeOK, Steps
<1>a. NoLines \in Lines
    BY DEF Lines, NoLines
<1>1. StoreInit => StoreTypeOK
    <2> SUFFICES ASSUME StoreInit PROVE StoreTypeOK
        OBVIOUS
    <2>1. stamp \in 0..writes + 1 /\ writes \in 0..MaxWrites
        BY DEF StoreInit
    <2>2. file \in Lines /\ saved \in Lines /\ holder \in Stores \cup {NoStore}
        BY DEF StoreInit
    <2>3. pc \in [Stores -> Steps] /\ loaded \in [Stores -> BOOLEAN]
        BY DEF StoreInit
    <2>4. update \in [Stores -> Lines] /\ lines \in [Stores -> Lines]
        BY <1>a DEF StoreInit
    <2>5. seen \in [Stores -> 0..MaxWrites + 1] /\ trouble \in 0..MaxTrouble
        BY DEF StoreInit
    <2>6. rejected \in [Keys -> SUBSET Values]
        <3>1. {} \in SUBSET Values
            OBVIOUS
        <3>2. rejected = [k \in Keys |-> {}]
            BY DEF StoreInit
        <3>3. QED
            BY <3>1, <3>2, Zenon
    <2>7. QED
        BY <2>1, <2>2, <2>3, <2>4, <2>5, <2>6
<1>2. StoreTypeOK /\ [StoreNext]_storeVars => StoreTypeOK'
    <2> SUFFICES ASSUME StoreTypeOK, [StoreNext]_storeVars PROVE StoreTypeOK'
        OBVIOUS
    <2> USE DEF diskVars, cacheVars
    <2>1. ASSUME NEW s \in Stores,
                 BeginLoad(s) \/ Load(s) \/ LoadTimesOut(s) \/ Acknowledge(s)
                    \/ Reset(s) \/ Crash(s)
          PROVE  StoreTypeOK'
        <3>1. CASE BeginLoad(s)
            BY <3>1 DEF BeginLoad
        <3>2. CASE Load(s)
            BY <3>2 DEF Load
        <3>3. CASE LoadTimesOut(s)
            BY <1>a, <3>3 DEF LoadTimesOut, Trouble
        <3>4. CASE Acknowledge(s)
            BY <1>a, <3>4 DEF Acknowledge
        <3>5. CASE Reset(s)
            BY <1>a, <3>5 DEF Reset, Forget
        <3>6. CASE Crash(s)
            BY <1>a, <3>6 DEF Crash, Forget, Trouble
        <3>7. QED
            BY <2>1, <3>1, <3>2, <3>3, <3>4, <3>5, <3>6
    <2>2. ASSUME NEW s \in Stores, NEW u \in Lines \ {NoLines}, BeginWrite(s, u)
          PROVE  StoreTypeOK'
        BY <2>2 DEF BeginWrite, Upsert, Lines
    <2>3. ASSUME NEW new \in Lines, PutFile(new)
          PROVE  /\ file' \in Lines
                 /\ writes' \in 0..MaxWrites /\ stamp' \in 0..writes' + 1
        BY <2>3 DEF PutFile, Tick
    <2>4. ASSUME NEW s \in Stores, Replace(s) PROVE StoreTypeOK'
        BY <2>3, <2>4 DEF Replace, Upsert, Lines
    <2>5. ASSUME NEW s \in Stores, ReplaceFails(s) PROVE StoreTypeOK'
        BY <1>a, <2>5 DEF ReplaceFails, Trouble, Lines
    <2>6. ASSUME NEW new \in Lines, Restore(new) PROVE StoreTypeOK'
        BY <2>3, <2>6 DEF Restore
    <2>7. CASE UNCHANGED storeVars
        BY <2>7 DEF storeVars
    <2>8. QED
        BY <2>1, <2>2, <2>4, <2>5, <2>6, <2>7 DEF StoreNext
<1>3. QED
    BY <1>1, <1>2, PTL DEF StoreSpec

-----------------------------------------------------------------------------
(* What makes it inductive: who is past the lock, that no copy is newer    *)
(* than the file, and what the lines about to be written are made of.      *)
LockHeld == \A s \in Stores : pc[s] \in {"replace", "replaced"} <=> holder = s

NoneNewer == \A s \in Stores : seen[s] <= stamp

LinesEntered ==
    \A s \in Stores :
        /\ pc[s] = "replace" => \A k \in Keys :
              IF update[s][k] = Absent THEN Accounted(k, lines[s][k], file[k])
              ELSE lines[s][k] = update[s][k]
        /\ pc[s] = "replaced" => lines[s] = file

StoreInv == LockHeld /\ NoneNewer /\ LinesEntered /\ CopyIsCurrent /\ NoLostUpdate

(* What is accounted for against a value that is accounted for against a   *)
(* third one is accounted for against the third.                           *)
LEMMA AccountedTransitive ==
    ASSUME NEW k, NEW v, NEW w, NEW x, Accounted(k, v, w), Accounted(k, w, x)
    PROVE  Accounted(k, v, x)
BY DEF Accounted

(* A write that replaces the file gives it a new time, so every copy but   *)
(* the writer's is out of date.                                            *)
LEMMA NewVersion ==
    ASSUME ~CoarseClock, StoreTypeOK, NoneNewer, NEW new, PutFile(new),
           UNCHANGED cacheVars
    PROVE  /\ file' = new
           /\ \A s \in Stores : seen'[s] <= stamp' /\ seen'[s] # stamp'
BY DEF StoreTypeOK, NoneNewer, PutFile, Tick, cacheVars

(* Every step keeps all of this, whoever writes, fails or ends.            *)
THEOREM StoreInvCorrect == ASSUME ~CoarseClock PROVE StoreSpec => []StoreInv
<1>1. StoreInit => StoreInv
    BY StoreAssumption
    DEF StoreInit, StoreInv, LockHeld, NoneNewer, LinesEntered, CopyIsCurrent, Fresh,
           NoLostUpdate, Accounted, Lines
<1>2. StoreTypeOK /\ StoreTypeOK' /\ StoreInv /\ [StoreNext]_storeVars => StoreInv'
    <2> SUFFICES ASSUME StoreTypeOK, StoreTypeOK', StoreInv, [StoreNext]_storeVars PROVE StoreInv'
        OBVIOUS
    <2> USE StoreAssumption
            DEF StoreInv, LockHeld, NoneNewer, LinesEntered, CopyIsCurrent, NoLostUpdate,
                StoreTypeOK
    <2>1. ASSUME NEW s \in Stores, BeginLoad(s) PROVE StoreInv'
        BY <2>1 DEF BeginLoad, diskVars, Fresh, Accounted
    <2>2. ASSUME NEW s \in Stores, Load(s) PROVE StoreInv'
        BY <2>2 DEF Load, diskVars, Fresh, Accounted
    <2>3. ASSUME NEW s \in Stores, LoadTimesOut(s) PROVE StoreInv'
        BY <2>3 DEF LoadTimesOut, diskVars, Fresh, Accounted, NoLines
    <2>4. ASSUME NEW s \in Stores, NEW u \in Lines \ {NoLines}, BeginWrite(s, u)
          PROVE  StoreInv'
        BY <2>4 DEF BeginWrite, diskVars, Fresh, Accounted, Upsert, Lines
    <2>5. ASSUME NEW s \in Stores, Replace(s) PROVE StoreInv'
        BY <2>5, NewVersion DEF Replace, cacheVars, Fresh, Accounted, Upsert, Lines
    <2>6. ASSUME NEW s \in Stores, ReplaceFails(s) PROVE StoreInv'
        BY <2>6 DEF ReplaceFails, diskVars, cacheVars, Fresh, Accounted, Lines
    <2>7. ASSUME NEW s \in Stores, Acknowledge(s) PROVE StoreInv'
        BY <2>7 DEF Acknowledge, diskVars, Fresh, Accounted
    <2>8. ASSUME NEW s \in Stores, Reset(s) PROVE StoreInv'
        BY <2>8 DEF Reset, Forget, diskVars, Fresh, Accounted
    <2>9. ASSUME NEW s \in Stores, Crash(s) PROVE StoreInv'
        BY <2>9 DEF Crash, Forget, diskVars, Fresh, Accounted
    <2>10. ASSUME NEW new \in Lines, Restore(new) PROVE StoreInv'
        BY <2>10, NewVersion DEF Restore, cacheVars, Fresh, Accounted, Lines
    <2>11. CASE UNCHANGED storeVars
        BY <2>11 DEF storeVars, diskVars, cacheVars, Fresh, Accounted
    <2>12. QED
        BY <2>1, <2>2, <2>3, <2>4, <2>5, <2>6, <2>7, <2>8, <2>9, <2>10, <2>11 DEF StoreNext
<1>3. QED
    BY <1>1, <1>2, StoreTypeCorrect, PTL DEF StoreSpec

(* While file times tell two writes apart, the value on disk is the last   *)
(* one saved.                                                              *)
THEOREM NoLostUpdateCorrect == ASSUME ~CoarseClock PROVE StoreSpec => []NoLostUpdate
<1>1. StoreInv => NoLostUpdate
    BY DEF StoreInv
<1>2. QED
    BY <1>1, StoreInvCorrect, PTL

(* And a copy a read trusts is the file's.                                 *)
THEOREM CopyIsCurrentCorrect == ASSUME ~CoarseClock PROVE StoreSpec => []CopyIsCurrent
<1>1. StoreInv => CopyIsCurrent
    BY DEF StoreInv
<1>2. QED
    BY <1>1, StoreInvCorrect, PTL
==============================================================================
