--------------------------- MODULE SettingsStore ----------------------------
(***************************************************************************)
(* The file settings.ini and the processes that share it: each keeps a     *)
(* SettingsStore, a copy of the lines that is trusted as long as the write *)
(* time of the file is the one it was read at (src/common/                 *)
(* settings_store.cpp).  A setting is a key with a value or none; the      *)
(* order of the lines, repeated keys and the index over them are left out. *)
(***************************************************************************)
EXTENDS Naturals

CONSTANTS
    Stores,       \* the processes, one RuntimeSettingsStore in each
    Keys, Values,
    Absent,       \* no line for a key
    NoStore,
    CoarseClock,  \* two writes can fall into one tick of the file time
    SlowHolder,   \* a process can keep the file lock for 15 s
    MaxWrites,    \* bound: writes of the file
    MaxTrouble    \* bound: crashes, failed writes and lock timeouts

ASSUME StoreAssumption ==
    /\ Absent \notin Values
    /\ NoStore \notin Stores
    /\ CoarseClock \in BOOLEAN /\ SlowHolder \in BOOLEAN
    /\ MaxWrites \in Nat /\ MaxTrouble \in Nat

Lines == [Keys -> Values \cup {Absent}]
NoLines == [k \in Keys |-> Absent]

VARIABLES
    file,      \* the settings on disk
    stamp,     \* the write time of the file; 0 when there is none
    holder,    \* the store that holds the named mutex
    pc,        \* pc[s]: where the call in progress stands
    update,    \* update[s]: the updates of a WriteStrings in progress
    loaded,    \* loaded[s]: loaded_
    seen,      \* seen[s]: write_time_
    lines,     \* lines[s]: lines_
    trouble,   \* what has gone wrong so far (bounded)
    writes,    \* how often the file has been written (bounded)
    saved,     \* history: what the successful writes of each key have left
    rejected   \* history: the values of each key whose write has failed

diskVars == <<file, stamp, writes, saved>>
cacheVars == <<loaded, seen, lines>>
storeVars == <<diskVars, holder, pc, update, cacheVars, trouble, rejected>>

Steps == {"idle", "load", "replace", "replaced"}

StoreTypeOK ==
    /\ file \in Lines /\ saved \in Lines
    /\ writes \in 0..MaxWrites /\ stamp \in 0..writes + 1
    /\ holder \in Stores \cup {NoStore}
    /\ pc \in [Stores -> Steps]
    /\ update \in [Stores -> Lines]
    /\ loaded \in [Stores -> BOOLEAN]
    /\ seen \in [Stores -> 0..MaxWrites + 1]
    /\ lines \in [Stores -> Lines]
    /\ trouble \in 0..MaxTrouble
    /\ rejected \in [Keys -> SUBSET Values]

StoreInit ==
    /\ file \in Lines /\ saved = file
    /\ stamp = IF file = NoLines THEN 0 ELSE 1
    /\ writes = 0
    /\ holder = NoStore
    /\ pc = [s \in Stores |-> "idle"]
    /\ update = [s \in Stores |-> NoLines]
    /\ loaded = [s \in Stores |-> FALSE]
    /\ seen = [s \in Stores |-> 0]
    /\ lines = [s \in Stores |-> NoLines]
    /\ trouble = 0
    /\ rejected = [k \in Keys |-> {}]

Trouble ==
    /\ trouble < MaxTrouble
    /\ trouble' = trouble + 1

Fresh(s) == loaded[s] /\ seen[s] = stamp

Upsert(old, u) == [k \in Keys |-> IF u[k] = Absent THEN old[k] ELSE u[k]]

-----------------------------------------------------------------------------
(* FindString: a copy that is not fresh is read again, under the lock; the *)
(* write time it will be known by was taken before.                        *)
BeginLoad(s) ==
    /\ pc[s] = "idle" /\ ~Fresh(s)
    /\ pc' = [pc EXCEPT ![s] = "load"]
    /\ loaded' = [loaded EXCEPT ![s] = TRUE]
    /\ seen' = [seen EXCEPT ![s] = stamp]
    /\ UNCHANGED <<diskVars, holder, update, lines, trouble, rejected>>

Load(s) ==
    /\ pc[s] = "load" /\ holder = NoStore
    /\ pc' = [pc EXCEPT ![s] = "idle"]
    /\ lines' = [lines EXCEPT ![s] = file]
    /\ UNCHANGED <<diskVars, holder, update, loaded, seen, trouble, rejected>>

(* ReadSettingLines returns no lines when it does not get the lock.        *)
LoadTimesOut(s) ==
    /\ pc[s] = "load" /\ holder # NoStore /\ SlowHolder
    /\ Trouble
    /\ pc' = [pc EXCEPT ![s] = "idle"]
    /\ lines' = [lines EXCEPT ![s] = NoLines]
    /\ UNCHANGED <<diskVars, holder, update, loaded, seen, rejected>>

\* Mutant: a write trusts the copy without comparing write times.
BeginWriteTrustsCopy(s, u) ==
    /\ pc[s] = "idle" /\ holder = NoStore
    /\ holder' = s
    /\ pc' = [pc EXCEPT ![s] = "replace"]
    /\ update' = [update EXCEPT ![s] = u]
    /\ loaded' = [loaded EXCEPT ![s] = TRUE]
    /\ seen' = [seen EXCEPT ![s] = stamp]
    /\ lines' = [lines EXCEPT ![s] = Upsert(IF loaded[s] THEN lines[s] ELSE file, u)]
    /\ UNCHANGED <<diskVars, trouble, rejected>>

(* WriteStrings takes the lock, reads the file again unless its copy is    *)
(* fresh, and enters the updates.  Without the lock it does nothing.       *)
BeginWrite(s, u) ==
    /\ pc[s] = "idle" /\ holder = NoStore
    /\ holder' = s
    /\ pc' = [pc EXCEPT ![s] = "replace"]
    /\ update' = [update EXCEPT ![s] = u]
    /\ loaded' = [loaded EXCEPT ![s] = TRUE]
    /\ seen' = [seen EXCEPT ![s] = stamp]
    /\ lines' = [lines EXCEPT ![s] = Upsert(IF Fresh(s) THEN lines[s] ELSE file, u)]
    /\ UNCHANGED <<diskVars, trouble, rejected>>

(* The lines go to a temporary file that replaces settings.ini.            *)
Tick == IF CoarseClock /\ stamp > 0 THEN {stamp, stamp + 1} ELSE {stamp + 1}

PutFile(new) ==
    /\ writes < MaxWrites
    /\ writes' = writes + 1
    /\ stamp' \in Tick
    /\ file' = new

Replace(s) ==
    /\ pc[s] = "replace"
    /\ PutFile(lines[s])
    /\ saved' = Upsert(saved, update[s])
    /\ pc' = [pc EXCEPT ![s] = "replaced"]
    /\ UNCHANGED <<holder, update, cacheVars, trouble, rejected>>

(* The file stays as it was, the copy keeps the updates.                   *)
ReplaceFails(s) ==
    /\ pc[s] = "replace"
    /\ Trouble
    /\ holder' = NoStore
    /\ pc' = [pc EXCEPT ![s] = "idle"]
    /\ update' = [update EXCEPT ![s] = NoLines]
    /\ rejected' = [k \in Keys |-> rejected[k] \cup ({update[s][k]} \ {Absent})]
    /\ UNCHANGED <<diskVars, cacheVars>>

Acknowledge(s) ==
    /\ pc[s] = "replaced"
    /\ holder' = NoStore
    /\ pc' = [pc EXCEPT ![s] = "idle"]
    /\ update' = [update EXCEPT ![s] = NoLines]
    /\ seen' = [seen EXCEPT ![s] = stamp]
    /\ UNCHANGED <<diskVars, loaded, lines, trouble, rejected>>

(* WriteSettingLines: a sync restore puts the lines of another device.     *)
Restore(new) ==
    /\ holder = NoStore
    /\ PutFile(new)
    /\ saved' = new
    /\ UNCHANGED <<holder, pc, update, cacheVars, trouble, rejected>>

Forget(s) ==
    /\ loaded' = [loaded EXCEPT ![s] = FALSE]
    /\ seen' = [seen EXCEPT ![s] = 0]
    /\ lines' = [lines EXCEPT ![s] = NoLines]

(* Reset, or a store made for one call.                                    *)
Reset(s) ==
    /\ pc[s] = "idle" /\ loaded[s]
    /\ Forget(s)
    /\ UNCHANGED <<diskVars, holder, pc, update, trouble, rejected>>

(* The process ends at any point; the mutex is abandoned, and the next     *)
(* process to wait for it gets it.                                         *)
Crash(s) ==
    /\ pc[s] # "idle"
    /\ Trouble
    /\ holder' = IF holder = s THEN NoStore ELSE holder
    /\ pc' = [pc EXCEPT ![s] = "idle"]
    /\ update' = [update EXCEPT ![s] = NoLines]
    /\ Forget(s)
    /\ UNCHANGED <<diskVars, rejected>>

-----------------------------------------------------------------------------
StoreNext ==
    \/ \E s \in Stores :
          \/ BeginLoad(s) \/ Load(s) \/ LoadTimesOut(s)
          \/ \E u \in Lines \ {NoLines} : BeginWrite(s, u)
          \/ Replace(s) \/ ReplaceFails(s) \/ Acknowledge(s)
          \/ Reset(s) \/ Crash(s)
    \/ \E new \in Lines : Restore(new)

StoreSpec == StoreInit /\ [][StoreNext]_storeVars

-----------------------------------------------------------------------------
(* v is what key k should have, or a value whose write was reported as     *)
(* failed (it stays in lines_ and goes to disk with the next write), or    *)
(* nothing when a read has gone without the lock.                          *)
Accounted(k, v, should) ==
    v = should \/ v \in rejected[k] \/ (SlowHolder /\ v = Absent)

(* No update is lost: each key on disk has the value the last successful   *)
(* write of that key gave it, and never an older one.                      *)
NoLostUpdate == \A k \in Keys : Accounted(k, file[k], saved[k])

(* A copy that a read would trust has the values of the file: the write    *)
(* time tells every two versions apart.                                    *)
CopyIsCurrent ==
    \A s \in Stores : pc[s] = "idle" /\ Fresh(s) =>
        \A k \in Keys : Accounted(k, lines[s][k], file[k])
=============================================================================
