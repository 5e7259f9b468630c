-------------------------- MODULE StateFile_proofs --------------------------
(***************************************************************************)
(* For any number of generations: the types of the state file's save, that *)
(* a damaged file costs one generation at most, and that the save that     *)
(* MeterRuntime assumes (DurableStore) is what these system calls do.      *)
(***************************************************************************)
EXTENDS StateFile, TLAPS

\* How far a save has come.  A temporary file holds the new document, and is
\* synced before it is renamed.
TempInv ==
    /\ save \in {"sync", "choose", "syncBackup", "replaceBackup", "replace"} =>
           temp.gen = payload
    /\ save \in {"choose", "syncBackup", "replaceBackup", "replace"} => temp.synced
    /\ save \in {"syncBackup", "replaceBackup"} =>
           ~recovered /\ file["primary"] # Absent /\ backupTemp.gen = file["primary"]
    /\ save = "replaceBackup" => backupTemp.synced

\* The process saves what it knows, or the next generation, and what it knows
\* is in the file it was loaded from until the state file is replaced.
MemInv ==
    /\ save # "idle" => up /\ payload \in {mem, mem + 1}
    /\ up /\ save \notin {"syncDirectory", "saved", "failed"} =>
           \/ recovered /\ file["backup"] = mem
           \/ ~recovered /\ file["primary"] = mem
           \/ ~recovered /\ file["primary"] = Absent /\ mem = 0
    /\ save \in {"syncDirectory", "saved"} => file["primary"] = payload
    /\ save = "saved" => disk = [n \in Names |-> {file[n]}]

\* The disk holds what can be read, and nothing that was given up long ago.
DiskInv ==
    /\ \A n \in Names : file[n] \in disk[n]
    /\ save \in {"replace", "syncDirectory", "saved"} /\ Good(file["backup"]) =>
           file["backup"] >= payload - 1
    /\ \A n \in Names : \A x \in disk[n] : Good(x) => x >= confirmed - 1
    /\ confirmed # 0 => \E n \in Names : \A x \in disk[n] : Good(x)
    /\ up => mem >= confirmed - 1

FileInv == TypeOK /\ TempInv /\ MemInv /\ DiskInv

\* Before the first save has returned there is nothing to lose.
FirstStart ==
    /\ confirmed = 0
    /\ \A n \in Names : disk[n] \subseteq {Absent, 0}
    /\ up => mem = 0 /\ save # "idle"
    /\ save # "idle" => payload = 0

\* Without damage the state file never goes back.
StoreInv ==
    /\ FirstStart \/ \A x \in disk["primary"] : Good(x) /\ x >= confirmed
    /\ up => mem >= confirmed
-----------------------------------------------------------------------------
(* The types *)

LEMMA ContentFacts ==
    /\ Absent \in Contents /\ Torn \in Contents /\ Generations \subseteq Contents
    /\ 0 \in Generations /\ ~Good(Absent) /\ ~Good(Torn)
    /\ \A x \in Contents : Good(x) \/ x = Absent \/ x = Torn
    /\ \A x : Good(x) <=> x \in Generations
    /\ Generations \subseteq Int
  BY StateFileAssumption DEF Absent, Torn, Contents, Generations, Good

LEMMA TempTyped ==
    ASSUME NEW g \in Contents, NEW b \in BOOLEAN
    PROVE  [gen |-> g, synced |-> b] \in Temps
  BY DEF Temps

LEMMA SyncedTyped ==
    ASSUME NEW t \in Temps
    PROVE  /\ [t EXCEPT !.synced = TRUE] \in Temps
           /\ [t EXCEPT !.synced = TRUE].gen = t.gen
           /\ [t EXCEPT !.synced = TRUE].synced
<1> DEFINE u == [t EXCEPT !.synced = TRUE]
<1>1. u.gen = t.gen
  BY DEF Temps
<1>2. u.synced = TRUE
  BY DEF Temps
<1>3. u \in Temps
  BY Zenon DEF Temps
<1>4. QED BY <1>1, <1>2, <1>3

LEMMA TypeInit == Init => TypeOK
<1>1. NoTemp \in Temps
  BY ContentFacts, TempTyped DEF NoTemp
<1>2. QED BY <1>1, ContentFacts DEF Init, TypeOK

\* A rename and the fsync of the directory leave well-typed files.
LEMMA ReplaceTyped ==
    ASSUME TypeOK, NEW name \in Names, NEW source \in Temps, Replace(name, source)
    PROVE  file' \in [Names -> Contents] /\ disk' \in [Names -> SUBSET Contents]
<1>1. source.gen \in Contents /\ Torn \in Contents
  BY ContentFacts DEF Temps
<1>2. QED BY <1>1 DEF Replace, TypeOK

LEMMA TypeStep ==
    ASSUME TypeOK, [Next]_vars
    PROVE  TypeOK'
<1> USE DEF TypeOK
<1>0. NoTemp \in Temps
  BY ContentFacts, TempTyped DEF NoTemp
<1>1. CASE UNCHANGED vars
  BY <1>1 DEF vars, fileVars, saveVars, procVars
<1>2. CASE Load
  <2>1. mem' \in Generations
    BY <1>2, ContentFacts DEF Load, Readable, Good
  <2>2. recovered' \in BOOLEAN /\ up' \in BOOLEAN
    BY <1>2 DEF Load
  <2>3. /\ save' \in {"idle", "write"} /\ payload' \in Generations
        /\ temp' \in Temps /\ backupTemp' \in Temps
    BY <1>0, <1>2, <2>1 DEF Load, BeginSave, saveVars
  <2>4. QED BY <1>2, <2>1, <2>2, <2>3 DEF Load, fileVars
<1>3. CASE SaveNext
  <2>1. mem + 1 \in Generations
    BY <1>3, StateFileAssumption DEF SaveNext, Generations
  <2>2. QED BY <1>0, <1>3, <2>1 DEF SaveNext, BeginSave, fileVars, procVars
<1>4. CASE WriteTemp \/ SyncTemp
  <2>1. temp' \in Temps
    BY <1>4, ContentFacts, TempTyped, SyncedTyped DEF WriteTemp, SyncTemp
  <2>2. QED BY <1>4, <2>1 DEF WriteTemp, SyncTemp, fileVars, procVars
<1>5. CASE CopyBackup \/ SyncBackup
  <2>1. backupTemp' \in Temps
    BY <1>5, TempTyped, SyncedTyped DEF CopyBackup, SyncBackup, Names
  <2>2. QED BY <1>5, <2>1 DEF CopyBackup, SyncBackup, fileVars, procVars
<1>6. CASE SkipBackup
  BY <1>6 DEF SkipBackup, fileVars, procVars
<1>7. CASE ReplaceBackup \/ ReplacePrimary
  <2>1. file' \in [Names -> Contents] /\ disk' \in [Names -> SUBSET Contents]
    BY <1>7, ReplaceTyped DEF ReplaceBackup, ReplacePrimary, Names
  <2>2. QED BY <1>0, <1>7, <2>1 DEF ReplaceBackup, ReplacePrimary, procVars
<1>8. CASE SyncDirectory
  BY <1>8 DEF SyncDirectory, procVars
<1>9. CASE SaveReturns
  BY <1>9 DEF SaveReturns, fileVars
<1>10. CASE SaveFails \/ ProcessEnds
  BY <1>0, <1>10 DEF SaveFails, ProcessEnds, fileVars, procVars
<1>11. CASE Killed
  BY <1>0, <1>11 DEF Killed, Dies, fileVars
<1>12. CASE PowerLoss
  <2>1. file' \in [Names -> Contents] /\ disk' \in [Names -> SUBSET Contents]
    BY <1>12 DEF PowerLoss
  <2>2. QED BY <1>0, <1>12, <2>1 DEF PowerLoss, Dies
<1>13. ASSUME NEW n \in Names, Damage(n)
       PROVE  TypeOK'
  BY <1>13, ContentFacts DEF Damage, saveVars, procVars
<1>14. QED
  BY <1>1, <1>2, <1>3, <1>4, <1>5, <1>6, <1>7, <1>8, <1>9, <1>10, <1>11, <1>12, <1>13
     DEF Next, SaveStep

\* The variables have their types, whichever faults happen.
THEOREM TypeCorrect == Spec => []TypeOK
  BY TypeInit, TypeStep, PTL DEF Spec
-----------------------------------------------------------------------------
(* What a rename does to the disk *)

LEMMA ReplaceEffect ==
    ASSUME TypeOK, NEW name \in Names, NEW source, source.synced, Replace(name, source)
    PROVE  /\ file'[name] = source.gen /\ disk'[name] = disk[name] \cup {source.gen}
           /\ \A n \in Names \ {name} : file'[n] = file[n] /\ disk'[n] = disk[n]
  BY DEF Replace, TypeOK

\* load() takes the state file, else the backup, else starts from nothing.
LEMMA LoadChoice ==
    ASSUME "readError" \notin Faults, Load
    PROVE  \/ Good(file["primary"]) /\ mem' = file["primary"] /\ ~recovered'
           \/ /\ ~Good(file["primary"]) /\ Good(file["backup"])
              /\ mem' = file["backup"] /\ recovered'
           \/ (\A n \in Names : file[n] = Absent) /\ mem' = 0 /\ ~recovered'
<1> DEFINE R == {n \in Names : Good(file[n])}
<1>1. Readable(file) = {R}
  BY DEF Readable
<1>2. /\ R # {} \/ \A n \in Names : file[n] = Absent
      /\ mem' = IF "primary" \in R THEN file["primary"]
                ELSE IF "backup" \in R THEN file["backup"]
                ELSE 0
      /\ recovered' = (R = {"backup"})
  BY <1>1 DEF Load
<1>3. R = {} \/ R = {"primary"} \/ R = {"backup"} \/ R = {"primary", "backup"}
  BY DEF Names
<1>4. /\ "primary" \in R <=> Good(file["primary"])
      /\ "backup" \in R <=> Good(file["backup"])
  BY DEF Names
<1>5. CASE R = {}
  BY <1>2, <1>5
<1>6. CASE R = {"primary"} \/ R = {"primary", "backup"}
  BY <1>2, <1>4, <1>6
<1>7. CASE R = {"backup"}
  BY <1>2, <1>4, <1>7
<1>8. QED BY <1>3, <1>5, <1>6, <1>7

LEMMA FileInit == Init => FileInv
<1> SUFFICES ASSUME Init PROVE FileInv
  OBVIOUS
<1>1. TypeOK
  BY TypeInit
<1>2. TempInv /\ MemInv
  BY DEF Init, TempInv, MemInv
<1>3. DiskInv
  BY ContentFacts DEF Init, DiskInv
<1>4. QED BY <1>1, <1>2, <1>3 DEF FileInv

LEMMA TempStep ==
    ASSUME FileInv, [Next]_vars
    PROVE  TempInv'
<1> USE DEF FileInv, TempInv
<1>1. CASE UNCHANGED vars
  BY <1>1 DEF vars, fileVars, saveVars, procVars
<1>2. CASE Load
  <2>1. save' = "write" \/ (UNCHANGED saveVars /\ save = "idle")
    BY <1>2 DEF Load, BeginSave
  <2>2. save' \in {"write", "idle"}
    BY <2>1 DEF saveVars
  <2>3. QED BY <2>2
<1>3. CASE SaveNext
  BY <1>3 DEF SaveNext, BeginSave
<1>4. CASE WriteTemp
  BY <1>4 DEF WriteTemp
<1>5. CASE SyncTemp
  <2>1. temp'.gen = temp.gen /\ temp'.synced /\ save = "sync" /\ save' = "choose"
        /\ payload' = payload
    BY <1>5, SyncedTyped DEF SyncTemp, TypeOK
  <2>2. QED BY <2>1
<1>6. CASE CopyBackup
  BY <1>6 DEF CopyBackup, BackupWanted, fileVars, procVars
<1>7. CASE SkipBackup
  BY <1>7 DEF SkipBackup
<1>8. CASE SyncBackup
  BY <1>8, SyncedTyped DEF SyncBackup, TypeOK, fileVars, procVars
<1>9. CASE ReplaceBackup \/ ReplacePrimary \/ SyncDirectory \/ SaveReturns
  BY <1>9 DEF ReplaceBackup, ReplacePrimary, SyncDirectory, SaveReturns
<1>10. CASE SaveFails \/ ProcessEnds \/ Killed \/ PowerLoss
  BY <1>10 DEF SaveFails, ProcessEnds, Killed, PowerLoss, Dies
<1>11. ASSUME NEW n \in Names, Damage(n)
       PROVE  TempInv'
  <2>1. save = "idle" /\ save' = save
    BY <1>11 DEF Damage, MemInv, saveVars
  <2>2. QED BY <2>1
<1>12. QED
  BY <1>1, <1>2, <1>3, <1>4, <1>6, <1>7, <1>8, <1>9, <1>10, <1>11, <1>5
     DEF Next, SaveStep

LEMMA MemStep ==
    ASSUME "readError" \notin Faults, FileInv, [Next]_vars
    PROVE  MemInv'
<1> USE DEF FileInv
<1>0. "primary" \in Names /\ "backup" \in Names
  BY DEF Names
<1>1. CASE UNCHANGED vars
  BY <1>1 DEF vars, fileVars, saveVars, procVars, MemInv
<1>2. CASE Load
  <2>1. /\ file' = file /\ up'
        /\ \/ save' = "write" /\ payload' = mem'
           \/ save' = "idle"
    BY <1>2 DEF Load, BeginSave, fileVars, saveVars
  <2>2. \/ recovered' /\ file["backup"] = mem'
        \/ ~recovered' /\ file["primary"] = mem'
        \/ ~recovered' /\ file["primary"] = Absent /\ mem' = 0
    BY <1>0, <1>2, LoadChoice
  <2>3. QED BY <2>1, <2>2 DEF MemInv
<1>3. CASE SaveNext
  BY <1>3 DEF SaveNext, BeginSave, fileVars, procVars, MemInv
<1>4. CASE WriteTemp \/ SyncTemp \/ CopyBackup \/ SkipBackup \/ SyncBackup
  BY <1>4 DEF WriteTemp, SyncTemp, CopyBackup, SkipBackup, SyncBackup, fileVars, procVars,
              MemInv
<1>5. CASE ReplaceBackup
  <2>1. /\ file'["primary"] = file["primary"] /\ ~recovered
        /\ save = "replaceBackup" /\ save' = "replace"
        /\ UNCHANGED <<up, mem, recovered, payload>>
    BY <1>0, <1>5, ReplaceEffect DEF ReplaceBackup, TempInv, procVars
  <2>2. QED BY <2>1 DEF MemInv
<1>6. CASE ReplacePrimary
  <2>1. file'["primary"] = payload
    BY <1>0, <1>6, ReplaceEffect DEF ReplacePrimary, TempInv
  <2>2. QED BY <1>6, <2>1 DEF ReplacePrimary, procVars, MemInv
<1>7. CASE SyncDirectory
  BY <1>7 DEF SyncDirectory, procVars, MemInv
<1>8. CASE SaveReturns
  BY <1>8 DEF SaveReturns, fileVars, MemInv
<1>9. CASE SaveFails
  BY <1>9 DEF SaveFails, fileVars, procVars, MemInv
<1>10. CASE ProcessEnds \/ Killed \/ PowerLoss
  BY <1>10 DEF ProcessEnds, Killed, PowerLoss, Dies, MemInv
<1>11. ASSUME NEW n \in Names, Damage(n)
       PROVE  MemInv'
  BY <1>11 DEF Damage, saveVars, procVars, MemInv
<1>12. QED
  BY <1>1, <1>2, <1>3, <1>4, <1>5, <1>6, <1>7, <1>8, <1>9, <1>10, <1>11 DEF Next, SaveStep

\* The files do not change, and no save reaches a later rename.
LEMMA DiskKept ==
    ASSUME DiskInv, UNCHANGED <<file, disk, confirmed>>,
           save' \in {"replace", "syncDirectory", "saved"} =>
               payload' = payload /\ save \in {"replace", "syncDirectory", "saved"},
           up' => up /\ mem' = mem
    PROVE  DiskInv'
  BY DEF DiskInv

LEMMA DiskStep ==
    ASSUME "readError" \notin Faults, FileInv, [Next]_vars
    PROVE  DiskInv'
<1> USE DEF FileInv
<1>0. /\ "primary" \in Names /\ "backup" \in Names
      /\ \A n \in Names : n = "primary" \/ n = "backup"
      /\ payload \in Int /\ mem \in Nat /\ confirmed \in Int /\ Good(payload)
  BY ContentFacts DEF Names, TypeOK, Generations, Good
<1>1. CASE UNCHANGED vars
  BY <1>1, DiskKept DEF vars, fileVars, saveVars, procVars
<1>2. CASE Load
  <2>1. UNCHANGED <<file, disk, confirmed>> /\ save' \in {"write", "idle"}
    BY <1>2 DEF Load, BeginSave, fileVars, saveVars
  <2>2. mem' >= confirmed - 1
    <3>1. CASE Good(mem') /\ (mem' = file["primary"] \/ mem' = file["backup"])
      BY <1>0, <3>1 DEF DiskInv
    <3>2. CASE (\A n \in Names : file[n] = Absent) /\ mem' = 0
      <4>1. \A n \in Names : ~Good(file[n])
        BY <3>2, ContentFacts
      <4>2. confirmed = 0
        BY <4>1 DEF DiskInv
      <4>3. QED BY <3>2, <4>2
    <3>3. QED BY <1>2, <3>1, <3>2, LoadChoice
  <2>3. QED BY <2>1, <2>2 DEF DiskInv
<1>3. CASE SaveNext
  BY <1>3, DiskKept DEF SaveNext, BeginSave, fileVars, procVars
<1>4. CASE WriteTemp \/ SyncTemp \/ CopyBackup \/ SyncBackup
  BY <1>4, DiskKept DEF WriteTemp, SyncTemp, CopyBackup, SyncBackup, fileVars, procVars
<1>5. CASE SkipBackup
  <2>1. Good(file["backup"]) => file["backup"] >= payload - 1
    <3>1. file["primary"] = Absent \/ recovered
      BY <1>5 DEF SkipBackup, BackupWanted
    <3>2. up /\ payload \in {mem, mem + 1}
      BY <1>5 DEF SkipBackup, MemInv
    <3>3. CASE recovered /\ file["backup"] = mem
      BY <1>0, <3>2, <3>3
    <3>4. CASE mem = 0
      BY <1>0, <3>2, <3>4, ContentFacts DEF Good, Generations
    <3>5. ~(file["primary"] = Absent /\ file["primary"] = mem)
      BY <1>0 DEF Absent
    <3>6. QED BY <1>5, <3>1, <3>2, <3>3, <3>4, <3>5 DEF SkipBackup, MemInv
  <2>2. QED BY <1>5, <2>1 DEF SkipBackup, fileVars, procVars, DiskInv
<1>6. CASE ReplaceBackup
  <2>1. /\ backupTemp.gen = file["primary"] /\ file["primary"] # Absent /\ ~recovered /\ up
        /\ payload \in {mem, mem + 1} /\ backupTemp.synced
    BY <1>6 DEF ReplaceBackup, TempInv, MemInv
  <2>2. /\ file'["backup"] = file["primary"] /\ disk'["backup"] = disk["backup"] \cup {file["primary"]}
        /\ file'["primary"] = file["primary"] /\ disk'["primary"] = disk["primary"]
    BY <1>0, <1>6, <2>1, ReplaceEffect DEF ReplaceBackup
  <2>3. UNCHANGED <<confirmed, payload, up, mem>> /\ save' = "replace"
    BY <1>6 DEF ReplaceBackup, procVars
  <2>4. file["primary"] = mem /\ Good(mem)
    BY <1>6, <2>1 DEF ReplaceBackup, MemInv, TypeOK, Good
  <2>5. Good(file'["backup"]) => file'["backup"] >= payload - 1
    BY <1>0, <2>1, <2>2, <2>4, ContentFacts
  <2>6. \A n \in Names : file'[n] \in disk'[n]
    BY <1>0, <2>2 DEF DiskInv
  <2>7. \A n \in Names : \A x \in disk'[n] : Good(x) => x >= confirmed - 1
    BY <1>0, <2>2 DEF DiskInv
  <2>8. confirmed # 0 => \E n \in Names : \A x \in disk'[n] : Good(x)
    BY <1>0, <2>2, <2>4 DEF DiskInv
  <2>9. QED BY <2>3, <2>5, <2>6, <2>7, <2>8 DEF DiskInv
<1>7. CASE ReplacePrimary
  <2>1. temp.gen = payload /\ temp.synced
    BY <1>7 DEF ReplacePrimary, TempInv
  <2>2. /\ file'["primary"] = payload /\ disk'["primary"] = disk["primary"] \cup {payload}
        /\ file'["backup"] = file["backup"] /\ disk'["backup"] = disk["backup"]
    BY <1>0, <1>7, <2>1, ReplaceEffect DEF ReplacePrimary
  <2>3. UNCHANGED <<confirmed, payload, up, mem>> /\ save = "replace" /\ save' = "syncDirectory"
    BY <1>7 DEF ReplacePrimary, procVars
  <2>4. payload >= confirmed - 1
    BY <1>0, <2>3 DEF MemInv, DiskInv
  <2>5. \A n \in Names : file'[n] \in disk'[n]
    BY <1>0, <2>2 DEF DiskInv
  <2>6. \A n \in Names : \A x \in disk'[n] : Good(x) => x >= confirmed - 1
    BY <1>0, <2>2, <2>4 DEF DiskInv
  <2>7. confirmed # 0 => \E n \in Names : \A x \in disk'[n] : Good(x)
    BY <1>0, <2>2 DEF DiskInv
  <2>8. QED BY <2>2, <2>3, <2>5, <2>6, <2>7 DEF DiskInv
<1>8. CASE SyncDirectory
  <2>1. /\ UNCHANGED <<file, confirmed, payload, up, mem>> /\ save = "syncDirectory"
        /\ disk' = [n \in Names |-> {file[n]}] /\ file["primary"] = payload
    BY <1>8 DEF SyncDirectory, procVars, MemInv
  <2>2. \A n \in Names : disk'[n] = {file[n]}
    BY <2>1
  <2>3. \A x \in disk'["primary"] : Good(x)
    BY <1>0, <2>1, <2>2
  <2>4. QED BY <1>0, <2>1, <2>2, <2>3 DEF DiskInv
<1>9. CASE SaveReturns
  <2>1. /\ file["primary"] = payload /\ \A n \in Names : disk[n] = {file[n]}
        /\ Good(file["backup"]) => file["backup"] >= payload - 1
    BY <1>9 DEF SaveReturns, MemInv, DiskInv
  <2>2. UNCHANGED <<file, disk>> /\ confirmed' = payload /\ mem' = payload /\ save' = "idle"
    BY <1>9 DEF SaveReturns, fileVars
  <2>3. \A n \in Names : \A x \in disk[n] : Good(x) => x >= payload - 1
    BY <1>0, <2>1
  <2>4. \A x \in disk["primary"] : Good(x)
    BY <1>0, <2>1
  <2>5. QED BY <1>0, <2>2, <2>3, <2>4 DEF DiskInv
<1>10. CASE SaveFails \/ ProcessEnds \/ Killed
  <2>1. UNCHANGED <<file, disk, confirmed, mem>> /\ save' \in {"failed", "idle"}
        /\ (up' => up)
    BY <1>10 DEF SaveFails, ProcessEnds, Killed, Dies, fileVars, procVars
  <2>2. QED BY <2>1, DiskKept
<1>11. CASE PowerLoss
  <2>1. /\ \A n \in Names : file'[n] \in disk[n] /\ disk'[n] = {file'[n]}
        /\ UNCHANGED confirmed /\ save' = "idle" /\ ~up'
    BY <1>11 DEF PowerLoss, Dies
  <2>2. QED BY <2>1 DEF DiskInv
<1>12. ASSUME NEW m \in Names, Damage(m)
       PROVE  DiskInv'
  <2>1. /\ file' = [file EXCEPT ![m] = Torn] /\ disk' = [disk EXCEPT ![m] = {Torn}]
        /\ \A n \in Names : \A x \in disk[n] : Good(x)
        /\ UNCHANGED <<confirmed, save, payload, up>> /\ ~up
    BY <1>12 DEF Damage, saveVars, procVars
  <2>2. \A n \in Names : \/ n = m /\ file'[n] = Torn /\ disk'[n] = {Torn}
                         \/ n # m /\ file'[n] = file[n] /\ disk'[n] = disk[n]
    BY <2>1 DEF TypeOK
  <2>3. \E n \in Names : n # m
    BY <1>0
  <2>4. save = "idle"
    BY <2>1 DEF MemInv
  <2>5. \E n \in Names : \A x \in disk'[n] : Good(x)
    BY <2>1, <2>2, <2>3
  <2>6. \A n \in Names : \A x \in disk'[n] : Good(x) => x >= confirmed - 1
    BY <2>2, ContentFacts DEF DiskInv
  <2>7. \A n \in Names : file'[n] \in disk'[n]
    BY <2>2 DEF DiskInv
  <2>8. QED BY <2>1, <2>4, <2>5, <2>6, <2>7 DEF DiskInv
<1>13. QED
  BY <1>1, <1>2, <1>3, <1>4, <1>5, <1>6, <1>7, <1>8, <1>9, <1>10, <1>11, <1>12
     DEF Next, SaveStep

LEMMA FileAlways ==
    ASSUME "readError" \notin Faults
    PROVE  Spec => []FileInv
<1>1. FileInv /\ [Next]_vars => FileInv'
  BY TypeStep, TempStep, MemStep, DiskStep DEF FileInv
<1>2. QED BY <1>1, FileInit, PTL DEF Spec

\* After the first save that returned, one of the two files can be loaded
\* whatever a kill or a power loss leaves, and damage to one of them too.
THEOREM StateStaysLoadable ==
    ASSUME "readError" \notin Faults
    PROVE  Spec => []AlwaysLoadable
<1>1. FileInv => AlwaysLoadable
  BY DEF FileInv, DiskInv, AlwaysLoadable, Aftermaths
<1>2. QED BY <1>1, FileAlways, PTL

\* What is loaded after a file was damaged is one generation old at most.
THEOREM DamageCostsOne ==
    ASSUME "readError" \notin Faults
    PROVE  Spec => []LosesAtMostOne
<1>1. FileInv => LosesAtMostOne
  BY DEF FileInv, DiskInv, LosesAtMostOne
<1>2. QED BY <1>1, FileAlways, PTL
-----------------------------------------------------------------------------
(* Without damage.  A file that could be loaded stays loadable, so the state  *)
(* file alone decides what load() returns.                                    *)

Sound == Faults \cap {"damage", "readError"} = {}

\* Every content the primary may have is good, or nothing but the empty
\* document was ever written.
LEMMA PrimaryDecides ==
    ASSUME FileInv, StoreInv, NEW f, \A n \in Names : f[n] \in disk[n]
    PROVE  \/ Good(f["primary"]) /\ Loaded(f) = f["primary"] /\ f["primary"] >= confirmed
           \/ FirstStart /\ f["primary"] \in {Absent, 0} /\ Loaded(f) = 0
<1>0. "primary" \in Names /\ "backup" \in Names
  BY DEF Names
<1>1. CASE \A x \in disk["primary"] : Good(x) /\ x >= confirmed
  BY <1>0, <1>1 DEF Loaded
<1>2. CASE FirstStart
  <2>1. f["primary"] \in {Absent, 0} /\ f["backup"] \in {Absent, 0}
    BY <1>0, <1>2 DEF FirstStart
  <2>2. QED BY <1>2, <2>1, ContentFacts DEF Loaded
<1>3. QED BY <1>1, <1>2 DEF StoreInv

LEMMA StoreInit0 == Init => StoreInv
  BY DEF Init, StoreInv, FirstStart, Names

LEMMA StoreKept ==
    ASSUME StoreInv, UNCHANGED <<disk, confirmed>>,
           up' => up /\ mem' = mem /\ (save' = "idle" => save = "idle"),
           save' # "idle" => save # "idle" /\ payload' = payload
    PROVE  StoreInv'
  BY DEF StoreInv, FirstStart

LEMMA StoreStep ==
    ASSUME Sound, FileInv, StoreInv, [Next]_vars
    PROVE  StoreInv'
<1> USE DEF FileInv
<1>0. /\ "primary" \in Names /\ "backup" \in Names /\ "readError" \notin Faults
      /\ \A n \in Names : n = "primary" \/ n = "backup"
      /\ payload \in Nat /\ mem \in Nat /\ confirmed \in Nat /\ Good(payload)
  BY ContentFacts DEF Sound, Names, TypeOK, Generations, Good
<1>1. CASE UNCHANGED vars
  BY <1>1, StoreKept DEF vars, fileVars, saveVars, procVars
<1>2. CASE Load
  <2>1. /\ UNCHANGED <<disk, confirmed>> /\ up'
        /\ (save' = "write" /\ payload' = mem') \/ (save' = "idle" /\ mem' # 0)
    BY <1>2 DEF Load, BeginSave, fileVars, saveVars
  <2>2. \A n \in Names : file[n] \in disk[n]
    BY DEF DiskInv
  <2>3. mem' = Loaded(file)
    BY <1>0, <1>2, LoadChoice, ContentFacts DEF Loaded
  <2>4. \/ mem' = file["primary"] /\ Good(file["primary"]) /\ file["primary"] >= confirmed
        \/ FirstStart /\ mem' = 0
    BY <2>2, <2>3, PrimaryDecides
  <2>5. mem' >= confirmed
    BY <2>4 DEF FirstStart
  <2>6. CASE \A x \in disk["primary"] : Good(x) /\ x >= confirmed
    BY <2>1, <2>5, <2>6 DEF StoreInv
  <2>7. CASE FirstStart
    <3>1. file["primary"] \in {Absent, 0}
      BY <1>0, <2>2, <2>7 DEF FirstStart
    <3>2. mem' = 0
      BY <2>4, <3>1, ContentFacts
    <3>3. FirstStart'
      BY <2>1, <2>7, <3>2 DEF FirstStart
    <3>4. QED BY <2>1, <2>5, <3>3 DEF StoreInv
  <2>8. QED BY <2>6, <2>7 DEF StoreInv
<1>3. CASE SaveNext
  <2>1. UNCHANGED <<disk, confirmed, mem, up>> /\ up /\ save = "idle"
    BY <1>3 DEF SaveNext, BeginSave, fileVars, procVars
  <2>2. ~FirstStart
    BY <2>1 DEF FirstStart
  <2>3. QED BY <2>1, <2>2 DEF StoreInv
<1>4. CASE WriteTemp \/ SyncTemp \/ CopyBackup \/ SkipBackup \/ SyncBackup
  BY <1>4, StoreKept DEF WriteTemp, SyncTemp, CopyBackup, SkipBackup, SyncBackup, fileVars,
                         procVars
<1>5. CASE ReplaceBackup
  <2>1. /\ backupTemp.synced /\ backupTemp.gen = file["primary"]
        /\ file["primary"] \in disk["primary"]
    BY <1>0, <1>5 DEF ReplaceBackup, TempInv, DiskInv
  <2>2. /\ disk'["primary"] = disk["primary"]
        /\ disk'["backup"] = disk["backup"] \cup {file["primary"]}
    BY <1>0, <1>5, <2>1, ReplaceEffect DEF ReplaceBackup
  <2>3. UNCHANGED <<confirmed, mem, up, payload>> /\ save # "idle" /\ save' # "idle"
    BY <1>5 DEF ReplaceBackup, procVars
  <2>4. CASE FirstStart
    <3>1. disk'["primary"] \subseteq {Absent, 0} /\ disk'["backup"] \subseteq {Absent, 0}
      BY <1>0, <2>1, <2>2, <2>4 DEF FirstStart
    <3>2. FirstStart'
      BY <1>0, <2>3, <2>4, <3>1 DEF FirstStart
    <3>3. QED BY <2>3, <3>2 DEF StoreInv
  <2>5. CASE \A x \in disk["primary"] : Good(x) /\ x >= confirmed
    BY <2>2, <2>3, <2>5 DEF StoreInv
  <2>6. QED BY <2>4, <2>5 DEF StoreInv
<1>6. CASE ReplacePrimary
  <2>1. temp.synced /\ temp.gen = payload /\ up /\ payload \in {mem, mem + 1}
    BY <1>6 DEF ReplacePrimary, TempInv, MemInv
  <2>2. /\ disk'["backup"] = disk["backup"]
        /\ disk'["primary"] = disk["primary"] \cup {payload}
    BY <1>0, <1>6, <2>1, ReplaceEffect DEF ReplacePrimary
  <2>3. UNCHANGED <<confirmed, mem, up, payload>> /\ save # "idle" /\ save' # "idle"
    BY <1>6 DEF ReplacePrimary, procVars
  <2>4. CASE FirstStart
    <3>1. disk'["primary"] \subseteq {Absent, 0} /\ disk'["backup"] \subseteq {Absent, 0}
      BY <1>0, <2>2, <2>3, <2>4 DEF FirstStart
    <3>2. FirstStart'
      BY <1>0, <2>3, <2>4, <3>1 DEF FirstStart
    <3>3. QED BY <2>3, <3>2 DEF StoreInv
  <2>5. CASE \A x \in disk["primary"] : Good(x) /\ x >= confirmed
    <3>1. payload >= confirmed
      BY <1>0, <2>1 DEF StoreInv
    <3>2. QED BY <1>0, <2>2, <2>3, <2>5, <3>1 DEF StoreInv
  <2>6. QED BY <2>4, <2>5 DEF StoreInv
<1>7. CASE SyncDirectory
  <2>1. /\ UNCHANGED <<confirmed, mem, up, payload>> /\ save # "idle" /\ save' # "idle"
        /\ \A n \in Names : disk'[n] = {file[n]}
    BY <1>7 DEF SyncDirectory, procVars
  <2>2. \A n \in Names : file[n] \in disk[n]
    BY DEF DiskInv
  <2>3. CASE FirstStart
    <3>1. FirstStart'
      BY <2>1, <2>2, <2>3 DEF FirstStart
    <3>2. QED BY <2>1, <3>1 DEF StoreInv
  <2>4. CASE \A x \in disk["primary"] : Good(x) /\ x >= confirmed
    BY <1>0, <2>1, <2>2, <2>4 DEF StoreInv
  <2>5. QED BY <2>3, <2>4 DEF StoreInv
<1>8. CASE SaveReturns
  <2>1. disk["primary"] = {payload}
    BY <1>0, <1>8 DEF SaveReturns, MemInv
  <2>2. disk' = disk /\ confirmed' = payload /\ mem' = payload
    BY <1>8 DEF SaveReturns, fileVars
  <2>3. QED BY <1>0, <2>1, <2>2 DEF StoreInv
<1>9. CASE SaveFails \/ ProcessEnds \/ Killed
  <2>1. UNCHANGED <<disk, confirmed, mem, payload>> /\ save' \in {"failed", "idle"}
        /\ (up' => up) /\ (save' = "idle" => ~up') /\ (save' = "failed" => save # "idle")
    BY <1>9 DEF SaveFails, ProcessEnds, Killed, Dies, fileVars, procVars
  <2>2. QED BY <2>1, StoreKept
<1>10. CASE PowerLoss
  <2>1. /\ \A n \in Names : file'[n] \in disk[n] /\ disk'[n] = {file'[n]}
        /\ UNCHANGED confirmed /\ save' = "idle" /\ ~up'
    BY <1>10 DEF PowerLoss, Dies
  <2>2. CASE FirstStart
    BY <2>1, <2>2 DEF FirstStart, StoreInv
  <2>3. CASE \A x \in disk["primary"] : Good(x) /\ x >= confirmed
    BY <1>0, <2>1, <2>3 DEF StoreInv
  <2>4. QED BY <2>2, <2>3 DEF StoreInv
<1>11. ~\E n \in Names : Damage(n)
  BY DEF Damage, Sound
<1>12. QED
  BY <1>1, <1>2, <1>3, <1>4, <1>5, <1>6, <1>7, <1>8, <1>9, <1>10, <1>11 DEF Next, SaveStep

LEMMA StoreAlways ==
    ASSUME Sound
    PROVE  Spec => [](FileInv /\ StoreInv)
<1>1. "readError" \notin Faults
  BY DEF Sound
<1>2. FileInv /\ StoreInv /\ [Next]_vars => StoreInv'
  BY StoreStep
<1>3. Spec => []FileInv
  BY <1>1, FileAlways
<1>4. QED BY <1>2, <1>3, StoreInit0, PTL DEF Spec

\* Kills, power losses and failing saves never take back a save that returned.
THEOREM ConfirmedIsLoaded ==
    ASSUME Sound
    PROVE  Spec => []LoadsConfirmed
<1>1. StoreInv => LoadsConfirmed
  BY DEF StoreInv, LoadsConfirmed
<1>2. QED BY <1>1, StoreAlways, PTL
-----------------------------------------------------------------------------
(* The abstract store                                                         *)

\* What a power loss may leave of the files, as load() will see it.
Left(d) == {Loaded(f) : f \in {g \in [Names -> Contents] : \A n \in Names : g[n] \in d[n]}}
Outcomes == Left(disk)

\* How far the abstract store is when save() has come to step s.
WriterAt(s) == CASE s \in {"idle", "saved", "failed"} -> s
                 [] s = "syncDirectory" -> "renamed"
                 [] OTHER -> "writing"
Writer == WriterAt(save)

LEMMA WriterFacts ==
    /\ \A s \in {"idle", "saved", "failed"} : WriterAt(s) = s
    /\ WriterAt("syncDirectory") = "renamed"
    /\ \A s \in {"write", "sync", "choose", "syncBackup", "replaceBackup", "replace"} :
           WriterAt(s) = "writing"
  BY DEF WriterAt

\* With a good or untouched primary the outcomes are those of the primary.
LEMMA OutcomesOf ==
    ASSUME NEW h \in [Names -> Contents], NEW d, \A n \in Names : h[n] \in d[n]
    PROVE  /\ (\A n \in Names : d[n] \subseteq {Absent, 0}) => Left(d) = {0} /\ Loaded(h) = 0
           /\ (\A x \in d["primary"] : Good(x)) =>
                  Left(d) = d["primary"] /\ Loaded(h) = h["primary"]
<1>0. /\ "primary" \in Names /\ "backup" \in Names
      /\ \A n \in Names : n = "primary" \/ n = "backup"
  BY DEF Names
<1>1. ASSUME \A n \in Names : d[n] \subseteq {Absent, 0}
      PROVE  Left(d) = {0} /\ Loaded(h) = 0
  <2>1. \A g : (\A n \in Names : g[n] \in d[n]) => Loaded(g) = 0
    BY <1>0, <1>1, ContentFacts DEF Loaded
  <2>2. h \in {g \in [Names -> Contents] : \A n \in Names : g[n] \in d[n]}
    OBVIOUS
  <2>3. QED BY <2>1, <2>2 DEF Left
<1>2. ASSUME \A x \in d["primary"] : Good(x)
      PROVE  Left(d) = d["primary"] /\ Loaded(h) = h["primary"]
  <2>1. ASSUME NEW g, \A n \in Names : g[n] \in d[n]
        PROVE  Loaded(g) = g["primary"] /\ g["primary"] \in d["primary"]
    BY <1>0, <1>2, <2>1 DEF Loaded
  <2>2. Left(d) \subseteq d["primary"]
    BY <2>1 DEF Left
  <2>3. ASSUME NEW x \in d["primary"]
        PROVE  x \in Left(d)
    <3> DEFINE g == [h EXCEPT !["primary"] = x]
    <3>0. x \in Contents
      BY <1>2, ContentFacts
    <3>1. g \in [Names -> Contents] /\ g["primary"] = x /\ \A n \in Names : g[n] \in d[n]
      BY <1>0, <2>3, <3>0
    <3>2. Loaded(g) = x
      BY <2>1, <3>1
    <3>3. QED BY <3>1, <3>2 DEF Left
  <2>4. QED BY <2>1, <2>2, <2>3
<1>3. QED BY <1>1, <1>2

Visible == Loaded(file)
Doc == IF save = "idle" THEN 0 ELSE payload

StoreFaults == Faults \cap {"kill", "power", "early", "late"}

\* The actions of the abstract store, in the words of this module.
LEMMA StoreMeans ==
    /\ Store!StoreInit <=> Visible = 0 /\ Outcomes = {0} /\ Writer = "idle" /\ Doc = 0
    /\ UNCHANGED Store!storeVars <=>
           Visible' = Visible /\ Outcomes' = Outcomes /\ Writer' = Writer /\ Doc' = Doc
    /\ \A g : Store!BeginSave(g) <=>
           /\ Writer = "idle" /\ Writer' = "writing" /\ Doc' = g
           /\ Visible' = Visible /\ Outcomes' = Outcomes
    /\ Store!Rename <=>
           /\ Writer = "writing" /\ Writer' = "renamed"
           /\ Visible' = Doc /\ Outcomes' = Outcomes \cup {Doc} /\ Doc' = Doc
    /\ Store!SyncDirectory <=>
           /\ Writer = "renamed" /\ Writer' = "saved"
           /\ Outcomes' = {Visible} /\ Visible' = Visible /\ Doc' = Doc
    /\ Store!SaveFails <=>
           /\ \/ Writer = "writing" /\ "early" \in StoreFaults
              \/ Writer = "renamed" /\ "late" \in StoreFaults
           /\ Writer' = "failed"
           /\ Visible' = Visible /\ Outcomes' = Outcomes /\ Doc' = Doc
    /\ \A result : Store!Joined(result) <=>
           /\ Writer = result /\ Writer' = "idle" /\ Doc' = 0
           /\ Visible' = Visible /\ Outcomes' = Outcomes
    /\ Store!StoreKilled <=>
           /\ Writer' = "idle" /\ Doc' = 0 /\ Visible' = Visible /\ Outcomes' = Outcomes
    /\ Store!StorePowerLoss <=>
           /\ Visible' \in Outcomes /\ Outcomes' = {Visible'} /\ Writer' = "idle" /\ Doc' = 0
<1> USE DEF Visible, Outcomes, Left, Writer, WriterAt, Doc
<1>1. Store!StoreInit <=> Visible = 0 /\ Outcomes = {0} /\ Writer = "idle" /\ Doc = 0
  BY DEF Store!StoreInit
<1>2. UNCHANGED Store!storeVars <=>
          Visible' = Visible /\ Outcomes' = Outcomes /\ Writer' = Writer /\ Doc' = Doc
  BY DEF Store!storeVars
<1>3. \A g : Store!BeginSave(g) <=>
          /\ Writer = "idle" /\ Writer' = "writing" /\ Doc' = g
          /\ Visible' = Visible /\ Outcomes' = Outcomes
  BY DEF Store!BeginSave
<1>4. Store!Rename <=>
          /\ Writer = "writing" /\ Writer' = "renamed"
          /\ Visible' = Doc /\ Outcomes' = Outcomes \cup {Doc} /\ Doc' = Doc
  BY DEF Store!Rename
<1>5. Store!SyncDirectory <=>
          /\ Writer = "renamed" /\ Writer' = "saved"
          /\ Outcomes' = {Visible} /\ Visible' = Visible /\ Doc' = Doc
  BY DEF Store!SyncDirectory
<1>6. Store!SaveFails <=>
          /\ \/ Writer = "writing" /\ "early" \in StoreFaults
             \/ Writer = "renamed" /\ "late" \in StoreFaults
          /\ Writer' = "failed"
          /\ Visible' = Visible /\ Outcomes' = Outcomes /\ Doc' = Doc
  BY DEF Store!SaveFails, StoreFaults
<1>7. \A result : Store!Joined(result) <=>
          /\ Writer = result /\ Writer' = "idle" /\ Doc' = 0
          /\ Visible' = Visible /\ Outcomes' = Outcomes
  BY DEF Store!Joined, Store!NoWriter
<1>8. Store!StoreKilled <=>
          /\ Writer' = "idle" /\ Doc' = 0 /\ Visible' = Visible /\ Outcomes' = Outcomes
  BY DEF Store!StoreKilled, Store!NoWriter
<1>9. Store!StorePowerLoss <=>
          /\ Visible' \in Outcomes /\ Outcomes' = {Visible'} /\ Writer' = "idle" /\ Doc' = 0
  BY DEF Store!StorePowerLoss, Store!NoWriter
<1>10. QED BY <1>1, <1>2, <1>3, <1>4, <1>5, <1>6, <1>7, <1>8, <1>9

\* A step that leaves the files alone is, for the abstract store, the change of
\* its writer and its document.
LEMMA FilesKept ==
    ASSUME UNCHANGED fileVars
    PROVE  Visible' = Visible /\ Outcomes' = Outcomes
  BY DEF fileVars, Visible, Outcomes, Left, Loaded

LEMMA StoreRefined ==
    ASSUME Sound, FileInv, StoreInv, FileInv', StoreInv', [Next]_vars
    PROVE  StoreNext \/ UNCHANGED Store!storeVars
<1> USE DEF FileInv
<1>0. /\ "primary" \in Names /\ "backup" \in Names
      /\ \A n \in Names : n = "primary" \/ n = "backup"
      /\ file \in [Names -> Contents] /\ \A n \in Names : file[n] \in disk[n]
      /\ file' \in [Names -> Contents] /\ \A n \in Names : file'[n] \in disk'[n]
      /\ mem' \in Generations /\ payload' \in Generations /\ Good(payload)
  BY ContentFacts DEF TypeOK, DiskInv, Names
<1>1. CASE UNCHANGED vars
  <2>1. UNCHANGED fileVars /\ save' = save /\ payload' = payload
    BY <1>1 DEF vars, saveVars
  <2>2. QED BY <2>1, FilesKept, StoreMeans DEF Writer, Doc
<1>2. CASE Load
  <2>1. UNCHANGED fileVars /\ save = "idle"
    BY <1>2 DEF Load
  <2>2. CASE save' = "write" /\ payload' = mem'
    <3>1. Writer = "idle" /\ Writer' = "writing" /\ Doc' = mem'
      BY <2>1, <2>2, WriterFacts DEF Writer, Doc
    <3>2. Store!BeginSave(mem')
      BY <2>1, <3>1, FilesKept, StoreMeans
    <3>3. QED BY <1>0, <3>2 DEF StoreNext
  <2>3. CASE UNCHANGED saveVars
    BY <2>1, <2>3, FilesKept, StoreMeans DEF saveVars, Writer, Doc
  <2>4. QED BY <1>2, <2>2, <2>3 DEF Load, BeginSave
<1>3. CASE SaveNext
  <2>1. UNCHANGED fileVars /\ save = "idle" /\ save' = "write"
    BY <1>3 DEF SaveNext, BeginSave
  <2>2. Writer = "idle" /\ Writer' = "writing" /\ Doc' = payload'
    BY <2>1, WriterFacts DEF Writer, Doc
  <2>3. Store!BeginSave(payload')
    BY <2>1, <2>2, FilesKept, StoreMeans
  <2>4. QED BY <1>0, <2>3 DEF StoreNext
<1>4. CASE WriteTemp \/ SyncTemp \/ CopyBackup \/ SkipBackup \/ SyncBackup
  <2>1. /\ UNCHANGED <<fileVars, payload>>
        /\ save \in {"write", "sync", "choose", "syncBackup"}
        /\ save' \in {"sync", "choose", "syncBackup", "replaceBackup", "replace"}
    BY <1>4 DEF WriteTemp, SyncTemp, CopyBackup, SkipBackup, SyncBackup
  <2>2. Writer = "writing" /\ Writer' = "writing" /\ Doc' = Doc
    BY <2>1, WriterFacts DEF Writer, Doc
  <2>3. QED BY <2>1, <2>2, FilesKept, StoreMeans
<1>5. CASE ReplaceBackup
  <2>1. /\ backupTemp.synced /\ backupTemp.gen = file["primary"]
        /\ payload' = payload /\ save = "replaceBackup" /\ save' = "replace"
    BY <1>5 DEF ReplaceBackup, TempInv
  <2>2. /\ file'["primary"] = file["primary"] /\ disk'["primary"] = disk["primary"]
        /\ disk'["backup"] = disk["backup"] \cup {file["primary"]}
    BY <1>0, <1>5, <2>1, ReplaceEffect DEF ReplaceBackup
  <2>3. CASE \A n \in Names : disk[n] \subseteq {Absent, 0}
    <3>1. \A n \in Names : disk'[n] \subseteq {Absent, 0}
      BY <1>0, <2>2, <2>3
    <3>2. Visible' = Visible /\ Outcomes' = Outcomes
      BY <1>0, <2>3, <3>1, OutcomesOf DEF Visible, Outcomes
    <3>3. QED BY <2>1, <3>2, StoreMeans, WriterFacts DEF Writer, Doc
  <2>4. CASE \A x \in disk["primary"] : Good(x)
    <3>1. Visible' = Visible /\ Outcomes' = Outcomes
      BY <1>0, <2>2, <2>4, OutcomesOf DEF Visible, Outcomes
    <3>2. QED BY <2>1, <3>1, StoreMeans, WriterFacts DEF Writer, Doc
  <2>5. QED BY <2>3, <2>4 DEF StoreInv, FirstStart
<1>6. CASE ReplacePrimary
  <2>1. /\ temp.synced /\ temp.gen = payload
        /\ payload' = payload /\ save = "replace" /\ save' = "syncDirectory"
    BY <1>6 DEF ReplacePrimary, TempInv
  <2>2. /\ disk'["backup"] = disk["backup"] /\ file'["primary"] = payload
        /\ disk'["primary"] = disk["primary"] \cup {payload}
    BY <1>0, <1>6, <2>1, ReplaceEffect DEF ReplacePrimary
  <2>3. Visible' = payload /\ Outcomes' = Outcomes \cup {payload}
    <3>1. CASE FirstStart
      <4>1. payload = 0 /\ \A n \in Names : disk'[n] \subseteq {Absent, 0}
        BY <1>0, <2>1, <2>2, <3>1 DEF FirstStart
      <4>2. QED BY <1>0, <3>1, <4>1, OutcomesOf DEF FirstStart, Visible, Outcomes
    <3>2. CASE \A x \in disk["primary"] : Good(x)
      <4>1. \A x \in disk'["primary"] : Good(x)
        BY <1>0, <2>2, <3>2
      <4>2. QED BY <1>0, <2>2, <3>2, <4>1, OutcomesOf DEF Visible, Outcomes
    <3>3. QED BY <3>1, <3>2 DEF StoreInv
  <2>4. Writer = "writing" /\ Writer' = "renamed" /\ Doc = payload /\ Doc' = payload
    BY <2>1, WriterFacts DEF Writer, Doc
  <2>5. Store!Rename
    BY <2>3, <2>4, StoreMeans
  <2>6. QED BY <2>5 DEF StoreNext, Store!SaveStep
<1>7. CASE SyncDirectory
  <2>1. /\ payload' = payload /\ file' = file /\ save = "syncDirectory" /\ save' = "saved"
        /\ \A n \in Names : disk'[n] = {file[n]}
    BY <1>7 DEF SyncDirectory
  <2>2. Outcomes' = {Visible} /\ Visible' = Visible
    <3>1. CASE \A n \in Names : disk[n] \subseteq {Absent, 0}
      <4>1. \A n \in Names : disk'[n] \subseteq {Absent, 0}
        BY <1>0, <2>1, <3>1
      <4>2. QED BY <1>0, <2>1, <3>1, <4>1, OutcomesOf DEF Visible, Outcomes
    <3>2. CASE \A x \in disk["primary"] : Good(x)
      <4>1. \A x \in disk'["primary"] : Good(x)
        BY <1>0, <2>1, <3>2
      <4>2. QED BY <1>0, <2>1, <3>2, <4>1, OutcomesOf DEF Visible, Outcomes
    <3>3. QED BY <3>1, <3>2 DEF StoreInv, FirstStart
  <2>3. Writer = "renamed" /\ Writer' = "saved" /\ Doc' = Doc
    BY <2>1, WriterFacts DEF Writer, Doc
  <2>4. Store!SyncDirectory
    BY <2>2, <2>3, StoreMeans
  <2>5. QED BY <2>4 DEF StoreNext, Store!SaveStep
<1>8. CASE SaveReturns \/ ProcessEnds
  <2>1. UNCHANGED fileVars /\ save \in {"saved", "failed"} /\ save' = "idle"
    BY <1>8 DEF SaveReturns, ProcessEnds
  <2>2. Writer = save /\ Writer' = "idle" /\ Doc' = 0
    BY <2>1, WriterFacts DEF Writer, Doc
  <2>3. Store!Joined(save)
    BY <2>1, <2>2, FilesKept, StoreMeans
  <2>4. QED BY <2>1, <2>3 DEF StoreNext
<1>9. CASE SaveFails
  <2>1. UNCHANGED <<fileVars, payload>> /\ save' = "failed" /\ save # "idle"
    BY <1>9 DEF SaveFails
  <2>2. \/ Writer = "writing" /\ "early" \in StoreFaults
        \/ Writer = "renamed" /\ "late" \in StoreFaults
    BY <1>9, WriterFacts DEF SaveFails, Writer, StoreFaults
  <2>3. Writer' = "failed" /\ Doc' = Doc
    BY <2>1, WriterFacts DEF Writer, Doc
  <2>4. Store!SaveFails
    BY <2>1, <2>2, <2>3, FilesKept, StoreMeans
  <2>5. QED BY <2>4 DEF StoreNext, Store!SaveStep
<1>10. CASE Killed
  <2>1. UNCHANGED fileVars /\ Writer' = "idle" /\ Doc' = 0
    BY <1>10, WriterFacts DEF Killed, Dies, Writer, Doc
  <2>2. Store!StoreKilled
    BY <2>1, FilesKept, StoreMeans
  <2>3. QED BY <2>2 DEF StoreNext
<1>11. CASE PowerLoss
  <2>1. /\ \A n \in Names : file'[n] \in disk[n] /\ disk'[n] = {file'[n]}
        /\ Writer' = "idle" /\ Doc' = 0
    BY <1>11, WriterFacts DEF PowerLoss, Dies, Writer, Doc
  <2>2. Visible' \in Outcomes
    BY <1>0, <2>1 DEF Visible, Outcomes, Left
  <2>3. Outcomes' = {Visible'}
    <3>1. CASE \A n \in Names : disk[n] \subseteq {Absent, 0}
      <4>1. \A n \in Names : disk'[n] \subseteq {Absent, 0}
        BY <2>1, <3>1
      <4>2. QED BY <1>0, <4>1, OutcomesOf DEF Visible, Outcomes
    <3>2. CASE \A x \in disk["primary"] : Good(x)
      <4>1. \A x \in disk'["primary"] : Good(x)
        BY <1>0, <2>1, <3>2
      <4>2. QED BY <1>0, <2>1, <4>1, OutcomesOf DEF Visible, Outcomes
    <3>3. QED BY <3>1, <3>2 DEF StoreInv, FirstStart
  <2>4. Store!StorePowerLoss
    BY <2>1, <2>2, <2>3, StoreMeans
  <2>5. QED BY <2>4 DEF StoreNext
<1>12. ~\E n \in Names : Damage(n)
  BY DEF Damage, Sound
<1>13. QED
  BY <1>1, <1>2, <1>3, <1>4, <1>5, <1>6, <1>7, <1>8, <1>9, <1>10, <1>11, <1>12
     DEF Next, SaveStep

\* The store MeterRuntime relies on is what the system calls of save() and
\* load() make of the files, with any kill, power loss and failing save.
THEOREM StoreImplemented ==
    ASSUME Sound
    PROVE  Spec => ImplementsStore
<1>1. Init => Store!StoreInit
  <2>1. SUFFICES ASSUME Init
                 PROVE  Visible = 0 /\ Outcomes = {0} /\ Writer = "idle" /\ Doc = 0
    BY StoreMeans
  <2>2. /\ file \in [Names -> Contents] /\ \A n \in Names : file[n] \in disk[n]
        /\ \A n \in Names : disk[n] \subseteq {Absent, 0}
    BY <2>1, ContentFacts DEF Init
  <2>3. Visible = 0 /\ Outcomes = {0}
    BY <2>2, OutcomesOf DEF Visible, Outcomes
  <2>4. Writer = "idle" /\ Doc = 0
    BY <2>1, WriterFacts DEF Init, Writer, Doc
  <2>5. QED BY <2>3, <2>4
<1>2. FileInv /\ StoreInv /\ (FileInv /\ StoreInv)' /\ [Next]_vars =>
          [StoreNext]_(Store!storeVars)
  BY StoreRefined
<1>3. QED BY <1>1, <1>2, StoreAlways, PTL DEF Spec, ImplementsStore
=============================================================================
