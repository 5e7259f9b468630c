----------------------------- MODULE StateFile -----------------------------
(***************************************************************************)
(* EnergyStateStore.save() and load() (state.py) system call by system     *)
(* call: the state file, its backup and their temporary files, with the    *)
(* faults that can end a process between two of the calls.                 *)
(*                                                                         *)
(* A document is a generation number.  A file has the content the next     *)
(* process reads (file) and the contents a power loss may leave (disk): a  *)
(* renamed entry is certain only after the fsync of the directory, and     *)
(* data that was not synced before the rename may be torn.                 *)
(***************************************************************************)
EXTENDS Integers

CONSTANTS
    MaxGen,     \* bound: the process saves no more generations
    Faults      \* "kill", "power", "early", "late": see DurableStore;
                \* "damage": a file is unreadable when the process starts;
                \* "readError": load() meets an OSError reading a good file

ASSUME StateFileAssumption ==
    /\ MaxGen \in Nat \ {0}
    /\ Faults \subseteq {"kill", "power", "early", "late", "damage", "readError"}

Generations == 0..MaxGen    \* 0 is the empty document of a first start
Absent == -1
Torn == -2
Contents == Generations \cup {Absent, Torn}
Names == {"primary", "backup"}

VARIABLES
    file, disk,     \* both files: visible content, contents after a power loss
    temp,           \* temporary_path: generation, and whether it is synced
    backupTemp,     \* backup_temporary_path
    save,           \* the system call save() makes next
    payload,        \* the generation it writes
    up,             \* the process has loaded the state and runs
    mem,            \* the generation it has adopted
    recovered,      \* recovered_from_backup
    confirmed       \* the generation of the last save() that returned

fileVars == <<file, disk>>
saveVars == <<temp, backupTemp, save, payload>>
procVars == <<up, mem, recovered, confirmed>>
vars == <<fileVars, saveVars, procVars>>

NoTemp == [gen |-> Absent, synced |-> FALSE]

\* Mutant of Good: _load_file() checks nothing but that the file exists.
GoodUnchecked(content) == content # Absent

\* _load_file() returns
Good(content) == content \in Generations

\* What load() makes of the files: the state file, else the backup.
Loaded(f) ==
    IF Good(f["primary"]) THEN f["primary"]
    ELSE IF Good(f["backup"]) THEN f["backup"]
    ELSE 0

Init ==
    /\ file = [n \in Names |-> Absent] /\ disk = [n \in Names |-> {Absent}]
    /\ temp = NoTemp /\ backupTemp = NoTemp
    /\ save = "idle" /\ payload = 0
    /\ up = FALSE /\ mem = 0 /\ recovered = FALSE /\ confirmed = 0
-----------------------------------------------------------------------------
(* save() *)

BeginSave(gen) ==
    /\ save = "idle"
    /\ save' = "write" /\ payload' = gen
    /\ temp' = NoTemp /\ backupTemp' = NoTemp

\* The polling and metadata tasks save a later document, one at a time.
SaveNext ==
    /\ up /\ mem < MaxGen
    /\ BeginSave(mem + 1)
    /\ UNCHANGED <<fileVars, procVars>>

WriteTemp ==
    /\ save = "write"
    /\ temp' = [gen |-> payload, synced |-> FALSE]
    /\ save' = "sync"
    /\ UNCHANGED <<fileVars, procVars, backupTemp, payload>>

\* Mutant of SyncTemp: the new file is not synced before it is renamed.
SyncTempSkipped ==
    /\ save = "sync"
    /\ save' = "choose"
    /\ UNCHANGED <<fileVars, procVars, temp, backupTemp, payload>>

SyncTemp ==
    /\ save = "sync"
    /\ temp' = [temp EXCEPT !.synced = TRUE]
    /\ save' = "choose"
    /\ UNCHANGED <<fileVars, procVars, backupTemp, payload>>

\* Mutant of BackupWanted: the broken file a recovery left is backed up.
BackupWantedAlways == file["primary"] # Absent

\* Another: a backup is made once and never brought up to date.
BackupWantedOnce == file["primary"] # Absent /\ ~recovered /\ file["backup"] = Absent

\* self.path.exists() and not self.recovered_from_backup
BackupWanted == file["primary"] # Absent /\ ~recovered

CopyBackup ==
    /\ save = "choose" /\ BackupWanted
    /\ backupTemp' = [gen |-> file["primary"], synced |-> FALSE]
    /\ save' = "syncBackup"
    /\ UNCHANGED <<fileVars, procVars, temp, payload>>

SkipBackup ==
    /\ save = "choose" /\ ~BackupWanted
    /\ save' = "replace"
    /\ UNCHANGED <<fileVars, procVars, temp, backupTemp, payload>>

SyncBackup ==
    /\ save = "syncBackup"
    /\ backupTemp' = [backupTemp EXCEPT !.synced = TRUE]
    /\ save' = "replaceBackup"
    /\ UNCHANGED <<fileVars, procVars, temp, payload>>

\* os.replace(source, name)
Replace(name, source) ==
    /\ file' = [file EXCEPT ![name] = source.gen]
    /\ disk' = [disk EXCEPT ![name] =
                    @ \cup {IF source.synced THEN source.gen ELSE Torn}]

ReplaceBackup ==
    /\ save = "replaceBackup"
    /\ Replace("backup", backupTemp)
    /\ backupTemp' = NoTemp
    /\ save' = "replace"
    /\ UNCHANGED <<procVars, temp, payload>>

ReplacePrimary ==
    /\ save = "replace"
    /\ Replace("primary", temp)
    /\ temp' = NoTemp
    /\ save' = "syncDirectory"
    /\ UNCHANGED <<procVars, backupTemp, payload>>

\* Mutant of SyncDirectory: the renamed entries are not synced.
SyncDirectorySkipped ==
    /\ save = "syncDirectory"
    /\ save' = "saved"
    /\ UNCHANGED <<procVars, fileVars, temp, backupTemp, payload>>

SyncDirectory ==
    /\ save = "syncDirectory"
    /\ disk' = [n \in Names |-> {file[n]}]
    /\ save' = "saved"
    /\ UNCHANGED <<procVars, file, temp, backupTemp, payload>>

\* save() clears its flags and returns; persist() adopts the candidate.
SaveReturns ==
    /\ save = "saved"
    /\ save' = "idle"
    /\ mem' = payload /\ recovered' = FALSE /\ confirmed' = payload
    /\ UNCHANGED <<fileVars, temp, backupTemp, payload, up>>

\* OSError: the leftovers are unlinked and StateError ends the process.
SaveFails ==
    /\ \/ "early" \in Faults /\ save \in {"write", "sync", "choose", "syncBackup",
                                          "replaceBackup", "replace"}
       \/ "late" \in Faults /\ save = "syncDirectory"
    /\ save' = "failed"
    /\ temp' = NoTemp /\ backupTemp' = NoTemp
    /\ UNCHANGED <<fileVars, procVars, payload>>

ProcessEnds ==
    /\ save = "failed"
    /\ save' = "idle" /\ up' = FALSE
    /\ UNCHANGED <<fileVars, temp, backupTemp, payload, mem, recovered, confirmed>>
-----------------------------------------------------------------------------
(* Death and load() *)

Dies ==
    /\ up' = FALSE
    /\ save' = "idle" /\ temp' = NoTemp /\ backupTemp' = NoTemp
    /\ UNCHANGED <<payload, mem, recovered, confirmed>>

Killed ==
    /\ "kill" \in Faults /\ up
    /\ Dies
    /\ UNCHANGED fileVars

PowerLoss ==
    /\ "power" \in Faults
    /\ file' \in [Names -> UNION {disk[n] : n \in Names}]
    /\ \A n \in Names : file'[n] \in disk[n]
    /\ disk' = [n \in Names |-> {file'[n]}]
    /\ Dies

\* One of two good files is found damaged when the process starts, and no
\* other before the code has durably replaced it.
Damage(name) ==
    /\ "damage" \in Faults /\ ~up
    /\ \A n \in Names : \A content \in disk[n] : Good(content)
    /\ file' = [file EXCEPT ![name] = Torn]
    /\ disk' = [disk EXCEPT ![name] = {Torn}]
    /\ UNCHANGED <<saveVars, procVars>>

\* The files load() can read now.
Readable(f) ==
    {r \in SUBSET {n \in Names : Good(f[n])} :
        "readError" \in Faults \/ r = {n \in Names : Good(f[n])}}

\* load() and the startup save: a state recovered from the backup is dirty;
\* other starts save only if the configured phases have changed.
Load ==
    /\ ~up /\ save = "idle"
    /\ \E readable \in Readable(file) :
          /\ readable # {} \/ \A n \in Names : file[n] = Absent
          /\ mem' = IF "primary" \in readable THEN file["primary"]
                    ELSE IF "backup" \in readable THEN file["backup"]
                    ELSE 0
          /\ recovered' = (readable = {"backup"})
    /\ up' = TRUE
    /\ \/ BeginSave(mem')
       \/ ~recovered' /\ mem' # 0 /\ UNCHANGED saveVars
    /\ UNCHANGED <<fileVars, confirmed>>

SaveStep ==
    \/ WriteTemp \/ SyncTemp \/ CopyBackup \/ SkipBackup \/ SyncBackup
    \/ ReplaceBackup \/ ReplacePrimary \/ SyncDirectory \/ SaveReturns

Next ==
    \/ Load \/ SaveNext \/ SaveStep \/ SaveFails \/ ProcessEnds
    \/ Killed \/ PowerLoss \/ \E n \in Names : Damage(n)

Spec == Init /\ [][Next]_vars
-----------------------------------------------------------------------------
(* Properties *)

Temps == [gen : Contents, synced : BOOLEAN]

\* The variables have their types.
TypeOK ==
    /\ file \in [Names -> Contents] /\ disk \in [Names -> SUBSET Contents]
    /\ temp \in Temps /\ backupTemp \in Temps
    /\ save \in {"idle", "write", "sync", "choose", "syncBackup", "replaceBackup",
                 "replace", "syncDirectory", "saved", "failed"}
    /\ payload \in Generations /\ mem \in Generations /\ confirmed \in Generations
    /\ up \in BOOLEAN /\ recovered \in BOOLEAN

\* The pairs of contents the next start may find.
Aftermaths ==
    {f \in [Names -> Contents] : \A n \in Names : f[n] \in disk[n] \cup {file[n]}}

\* Once a save has returned a loadable file is left at every moment: the
\* backup never copies what load() could not read, and is never replaced
\* while the state file is broken (recovered_from_backup).
AlwaysLoadable ==
    confirmed # 0 => \A f \in Aftermaths : \E n \in Names : Good(f[n])

\* The state that is loaded is at least the one whose save() last returned.
LoadsConfirmed == up => mem >= confirmed

\* A damaged file costs one generation at most.
LosesAtMostOne == up => mem >= confirmed - 1

\* The abstract store of the runtime is what these files implement.
Store == INSTANCE DurableStore WITH
    InitDocument <- 0,
    Faults <- Faults \cap {"kill", "power", "early", "late"},
    visible <- Loaded(file),
    outcomes <- {Loaded(f) : f \in {g \in [Names -> Contents] :
                                        \A n \in Names : g[n] \in disk[n]}},
    writer <- CASE save \in {"idle", "saved", "failed"} -> save
                [] save = "syncDirectory" -> "renamed"
                [] OTHER -> "writing",
    doc <- IF save = "idle" THEN 0 ELSE payload

StoreNext ==
    \/ \E gen \in Generations : Store!BeginSave(gen)
    \/ Store!SaveStep
    \/ Store!Joined("saved") \/ Store!Joined("failed")
    \/ Store!StoreKilled \/ Store!StorePowerLoss

ImplementsStore == Store!StoreInit /\ [][StoreNext]_(Store!storeVars)
=============================================================================
