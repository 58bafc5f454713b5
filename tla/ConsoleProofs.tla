--------------------------- MODULE ConsoleProofs ----------------------------
(***************************************************************************)
(* Proofs about what the operators' console keeps: the configuration that  *)
(* is saved and put into force (ConfigStore), the agreements between       *)
(* servers (Peering), who is let in and for how long (Accounts), what a    *)
(* list of IDs means (Access), and that what Validate lets through starts  *)
(* (Settings).  For any number of browsers, saves, servers, links,         *)
(* accounts, addresses and requests, and for any document.                 *)
(***************************************************************************)
EXTENDS Accounts, Peering, ConfigStore, Settings, FiniteSetTheorems, SequenceTheorems, TLAPS

(***************************************************************************)
(* ConfigStore: what was saved stays saved whatever pages were open and    *)
(* wherever the process died, and the list of settings that wait for a     *)
(* restart is exact.                                                       *)
(***************************************************************************)
StoreSpec == StoreInit /\ [][StoreNext]_storeVars

(* A configuration as it can be in a file: no setting is missing.          *)
Documents == [Keys -> Nat]
Pages == {NoPage} \cup [base : Documents \cup {Nil}, mine : Documents]
Processes == [current : Documents, startup : Documents, late : BOOLEAN]
Saves == [step : {"record", "write", "apply"}, doc : Documents, meant : Documents]

StoreTypeOK ==
  /\ file \in Documents /\ intent \in Documents
  /\ versions \in Seq(Documents)
  /\ backup \in Documents \cup {Nil}
  /\ page \in [Editors -> Pages]
  /\ running = Down \/ running \in Processes
  /\ saving = NoSave \/ saving \in Saves

(* A save in progress is of a process that runs, is of a document that     *)
(* passed Validate, and sets exactly what its author meant.                *)
SaveIsMeant ==
  saving # NoSave => Up /\ Valid(saving.doc) /\ saving.doc = saving.meant

(* The file is what was last meant, in every state, and the process works  *)
(* from it but between the write and the end of the same save.             *)
FileIsMeant ==
  /\ Valid(file) /\ file = intent
  /\ Up /\ saving.step # "apply" => running.current = file
  /\ saving.step = "apply" => file = saving.doc

(* What is in force, setting by setting: what the process started with,    *)
(* what it was last told, or what was saved since.                         *)
InForceIs ==
  Up => /\ \A s \in {"upstreams", "dsn"} : effect[s] = running.startup[s]
        /\ running.startup["identifier"] # 0 => effect["identifier"] = running.startup["identifier"]
        /\ effect["map"] = running.current["map"]
        /\ effect["identity"] = IF dialsALink(running.startup) THEN running.startup["identity"]
                                                               ELSE running.current["identity"]
        /\ ~running.late => effect["bridges"] = running.current["bridges"]

(* What the two results are inductive with. *)
StoreInv == StoreTypeOK /\ SaveIsMeant /\ FileIsMeant /\ InForceIs

-----------------------------------------------------------------------------
(* An empty configuration is nobody's document. *)
LEMMA NilIsNone == Nil \notin Documents /\ First \in Documents
<1>1. Nil["map"] = -1 /\ \A d \in Documents : d["map"] \in Nat
  BY DEF Nil, Keys, Documents
<1>2. First \in Documents
  BY DEF First, Documents
<1> QED BY <1>1, <1>2

(* KeepIdentifier and keepMachineLocal give documents that differ from the *)
(* one they are given in one setting.                                      *)
LEMMA KeepsARest ==
  ASSUME NEW c \in Documents, NEW now \in Documents
  PROVE  /\ KeepIdentifier(c, now) \in Documents
         /\ \A s \in Keys \ {"identifier"} : KeepIdentifier(c, now)[s] = c[s]
         /\ c["identifier"] # 0 => KeepIdentifier(c, now) = c
         /\ keepMachineLocal(c, now) \in Documents
         /\ \A fresh \in BOOLEAN : Restored(c, now, fresh) \in Documents
BY DEF KeepIdentifier, keepMachineLocal, Restored, Documents, Keys

(* Validate looks at two settings only. *)
LEMMA ValidLooksAt ==
  ASSUME NEW c, NEW d, Valid(c), c["bridges"] = d["bridges"], c["upstreams"] = d["upstreams"]
  PROVE  Valid(d)
BY DEF Valid

(* A process that runs is not one that is down. *)
LEMMA UpIs ==
  ASSUME StoreTypeOK
  PROVE  Up <=> running \in Processes
BY NilIsNone DEF StoreTypeOK, Up, Down, Processes

(* What Begin establishes, whichever handler called it. *)
LEMMA BeginPreserves ==
  ASSUME StoreInv, Idle, NEW conf \in Documents, Begin(conf, conf)
  PROVE  /\ file' \in Documents /\ intent' \in Documents /\ versions' \in Seq(Documents)
         /\ backup' \in Documents \cup {Nil}
         /\ (running = Down \/ running \in Processes)'
         /\ (saving = NoSave \/ saving \in Saves)'
         /\ SaveIsMeant' /\ FileIsMeant' /\ InForceIs'
<1> USE DEF StoreInv, StoreTypeOK
<1>1. saving' = NoSave \/ (Valid(conf) /\ saving' = [step |-> "record", doc |-> conf, meant |-> conf])
  BY DEF Begin
<1>2. UNCHANGED <<file, versions, running, effect, backup, intent>>
  BY DEF Begin
<1>3. SaveIsMeant'
  BY <1>1, <1>2 DEF SaveIsMeant, Idle, Up, Valid
<1>4. saving'.step # "apply" /\ saving.step # "apply"
  BY <1>1 DEF NoSave, Idle
<1>5. FileIsMeant'
  BY <1>2, <1>4 DEF FileIsMeant, Up, Valid
<1>6. InForceIs'
  BY <1>2 DEF InForceIs, Up, dialsALink
<1>7. saving' \in Saves \/ saving' = NoSave
  BY <1>1 DEF Saves
<1> QED BY <1>2, <1>3, <1>5, <1>6, <1>7

(* The same, when no page is closed by it. *)
LEMMA BeginKeepsInv ==
  ASSUME StoreInv, Idle, NEW conf \in Documents, Begin(conf, conf), UNCHANGED page
  PROVE  StoreInv'
BY BeginPreserves DEF StoreInv, StoreTypeOK

(* A page that was opened on an older configuration says what its author   *)
(* changed, and the merge with what is there now is that and nothing else. *)
LEMMA MergeIsMeant ==
  ASSUME NEW base \in Documents, NEW now \in Documents, NEW mine \in Edited(base), intent = now
  PROVE  /\ Merge(base, mine, now) \in Documents /\ mine \in Documents
         /\ KeepIdentifier(Merge(base, mine, now), now) = Meant(base, mine)
         /\ Meant(base, mine) \in Documents
<1>1. mine \in Documents /\ mine["identifier"] = base["identifier"]
  BY DEF Edited, Typed, Documents, Keys
<1>2. Merge(base, mine, now) \in Documents /\ Merge(base, mine, now)["identifier"] = now["identifier"]
  BY <1>1 DEF Merge, Documents, Keys
<1>3. KeepIdentifier(Merge(base, mine, now), now) = Merge(base, mine, now)
  BY <1>2 DEF KeepIdentifier, Documents, Keys
<1>4. base # Nil
  BY NilIsNone
<1>5. Meant(base, mine) = Merge(base, mine, now)
  BY <1>4 DEF Meant, Merge
<1> QED BY <1>1, <1>2, <1>3, <1>5

-----------------------------------------------------------------------------
LEMMA StoreInitInv == StoreInit => StoreInv
<1> SUFFICES ASSUME StoreInit PROVE StoreInv
  OBVIOUS
<1> USE NilIsNone DEF StoreInit
<1>1. backup \in Documents \cup {Nil}
  <2>1. Elsewhere \in Documents
    BY DEF Elsewhere, Documents
  <2>2. Unnamed \in Documents
    BY <2>1 DEF Unnamed, Documents, Keys
  <2> QED BY <2>1, <2>2
<1>2. StoreTypeOK
  <2>1. page \in [Editors -> Pages]
    BY DEF Pages
  <2>2. versions \in Seq(Documents)
    OBVIOUS
  <2> QED BY <1>1, <2>1, <2>2 DEF StoreTypeOK
<1>3. Valid(file)
  BY DEF First, Valid, Keys
<1>4. ~Up /\ saving.step # "apply"
  BY DEF Up, NoSave
<1> QED BY <1>2, <1>3, <1>4 DEF StoreInv, SaveIsMeant, FileIsMeant, InForceIs

LEMMA StartPreserves == StoreInv /\ Start => StoreInv'
<1> SUFFICES ASSUME StoreInv, Start PROVE StoreInv'
  OBVIOUS
<1> USE DEF StoreInv
<1> DEFINE other == [file EXCEPT !["identifier"] = 1]
           named == KeepIdentifier(file, other)
<1>1. ~Up /\ saving = NoSave /\ running = Down
  BY DEF Start, SaveIsMeant, Up
<1>2. file \in Documents /\ intent = file /\ other \in Documents
  BY DEF StoreTypeOK, FileIsMeant, Documents, Keys
<1>3. /\ named \in Documents
      /\ \A s \in Keys \ {"identifier"} : named[s] = file[s]
      /\ file["identifier"] # 0 => named = file
  BY <1>2, KeepsARest
<1> HIDE DEF other
<1>4. UNCHANGED <<saving, page, backup>>
  BY DEF Start
<1>5. Valid(named)
  <2>1. Valid(file)
    BY DEF FileIsMeant
  <2> QED BY <1>3, <2>1, ValidLooksAt DEF Keys
<1> HIDE DEF named
<1>6. CASE /\ running' = [current |-> named, startup |-> file, late |-> FALSE]
           /\ effect' = named /\ file' = named /\ intent' = [intent EXCEPT !["identifier"] = named["identifier"]]
           /\ versions' = IF named = file THEN versions ELSE Append(versions, named)
  <2>1. intent' = named
    BY <1>2, <1>3, <1>6 DEF Documents, Keys
  <2>2. StoreTypeOK'
    <3>1. versions' \in Seq(Documents)
      BY <1>3, <1>6 DEF StoreTypeOK
    <3>2. running' \in Processes
      BY <1>2, <1>3, <1>6 DEF Processes
    <3> QED BY <1>3, <1>4, <1>6, <2>1, <3>1, <3>2 DEF StoreTypeOK
  <2>3. saving' = NoSave /\ saving'.step # "apply"
    BY <1>1, <1>4 DEF NoSave
  <2>4. SaveIsMeant' /\ FileIsMeant'
    BY <1>5, <1>6, <2>1, <2>3 DEF SaveIsMeant, FileIsMeant, Valid
  <2>5. InForceIs'
    BY <1>2, <1>3, <1>6 DEF InForceIs, Keys, dialsALink
  <2> QED BY <2>2, <2>4, <2>5
<1>7. CASE versions' = Append(versions, named) /\ UNCHANGED <<running, effect, file, intent>>
  <2>1. StoreTypeOK'
    BY <1>3, <1>4, <1>7 DEF StoreTypeOK
  <2> QED BY <1>4, <1>7, <2>1 DEF SaveIsMeant, FileIsMeant, InForceIs, Up, Valid, dialsALink
<1>8. \/ /\ running' = [current |-> named, startup |-> file, late |-> FALSE]
         /\ effect' = named /\ file' = named /\ intent' = [intent EXCEPT !["identifier"] = named["identifier"]]
         /\ versions' = IF named = file THEN versions ELSE Append(versions, named)
      \/ versions' = Append(versions, named) /\ UNCHANGED <<running, effect, file, intent>>
  BY DEF Start, named, other
<1> QED BY <1>6, <1>7, <1>8

(* Pages are opened without touching anything else. *)
LEMMA PagePreserves ==
  ASSUME StoreInv, UNCHANGED <<file, versions, running, effect, saving, backup, begun, intent>>,
         page' \in [Editors -> Pages]
  PROVE  StoreInv'
BY DEF StoreInv, StoreTypeOK, SaveIsMeant, FileIsMeant, InForceIs, Up, Valid, dialsALink

LEMMA OpenPreserves == ASSUME NEW e \in Editors, StoreInv, Open(e) PROVE StoreInv'
<1>1. running.current \in Documents
  BY UpIs DEF StoreInv, Open, Idle, Processes
<1>2. page' \in [Editors -> Pages]
  BY <1>1 DEF StoreInv, StoreTypeOK, Open, Pages
<1> QED BY <1>2, PagePreserves DEF Open

LEMMA PreviewPreserves ==
  ASSUME NEW e \in Editors, NEW n \in DOMAIN versions, StoreInv, Preview(e, n) PROVE StoreInv'
<1>1. running.current \in Documents
  BY UpIs DEF StoreInv, Preview, Idle, Processes
<1>2. versions[n] \in Documents
  BY DEF StoreInv, StoreTypeOK
<1>3. KeepIdentifier(versions[n], running.current) \in Documents
  BY <1>1, <1>2, KeepsARest
<1>4. page' \in [Editors -> Pages]
  BY <1>3 DEF StoreInv, StoreTypeOK, Preview, Pages
<1> QED BY <1>4, PagePreserves DEF Preview

LEMMA PostPreserves == ASSUME NEW e \in Editors, StoreInv, Post(e) PROVE StoreInv'
<1> DEFINE base == page[e].base
           now == running.current
<1>1. page[e] \in Pages /\ page[e] # NoPage /\ base \in Documents \cup {Nil} /\ page[e].mine \in Documents
  BY DEF StoreInv, StoreTypeOK, Post, Pages
<1>2. page' = [page EXCEPT ![e] = NoPage] /\ page' \in [Editors -> Pages]
  BY DEF StoreInv, StoreTypeOK, Post, Pages
<1>3. Idle /\ now \in Documents /\ intent = now
  <2>1. Idle
    BY DEF Post
  <2>2. now \in Documents
    BY <2>1, UpIs DEF StoreInv, Idle, Processes
  <2>3. saving.step # "apply"
    BY <2>1 DEF Idle, NoSave
  <2> QED BY <2>1, <2>2, <2>3 DEF Idle, StoreInv, FileIsMeant
<1>4. PICK mine \in IF base = Nil THEN {page[e].mine} ELSE Edited(base) :
        LET conf == KeepIdentifier(IF base = Nil THEN mine ELSE Merge(base, mine, now), now)
        IN  IF (base # Nil /\ Conflict(base, mine, now)) \/ conf = now
            THEN UNCHANGED <<file, versions, running, effect, saving, backup, begun, intent>>
            ELSE Begin(conf, Meant(base, IF base = Nil THEN conf ELSE mine))
  BY DEF Post
<1> DEFINE conf == KeepIdentifier(IF base = Nil THEN mine ELSE Merge(base, mine, now), now)
<1>5. CASE UNCHANGED <<file, versions, running, effect, saving, backup, begun, intent>>
  BY <1>2, <1>5, PagePreserves
<1>6. CASE Begin(conf, Meant(base, IF base = Nil THEN conf ELSE mine))
  <2>1. conf \in Documents /\ Begin(conf, conf)
    <3>1. CASE base = Nil
      <4>1. mine = page[e].mine /\ mine \in Documents
        BY <1>1, <1>4, <3>1
      <4>2. conf \in Documents
        BY <4>1, <1>3, <3>1, KeepsARest
      <4> HIDE DEF conf, base
      <4>3. Meant(base, conf) = conf
        BY <3>1, <4>2 DEF Meant, Documents
      <4> QED BY <1>6, <3>1, <4>2, <4>3
    <3>2. CASE base # Nil
      <4>1. base \in Documents /\ mine \in Edited(base)
        BY <1>1, <1>4, <3>2
      <4> HIDE DEF base, now
      <4>3. conf = Meant(base, mine) /\ Meant(base, mine) \in Documents
        BY <1>3, <3>2, <4>1, MergeIsMeant
      <4> QED BY <1>6, <3>2, <4>3
    <3> QED BY <3>1, <3>2
  <2> HIDE DEF conf
  <2> QED BY <1>2, <1>3, <2>1, BeginPreserves DEF StoreInv, StoreTypeOK
<1> QED BY <1>4, <1>5, <1>6

LEMMA EditHerePreserves ==
  ASSUME NEW s \in EditedHere, NEW v \in Values(s), StoreInv, EditHere(s, v) PROVE StoreInv'
<1> DEFINE now == running.current
           conf == [now EXCEPT ![s] = v]
<1>1. Idle /\ saving.step # "apply" /\ Up
  BY DEF EditHere, Idle, NoSave
<1>2. now \in Documents /\ now = intent
  BY <1>1, UpIs DEF StoreInv, FileIsMeant, Processes
<1>3. s \in Keys /\ v \in Nat
  BY DEF EditedHere, Keys, Values
<1>4. Begin(conf, Meant(now, conf)) /\ UNCHANGED page
  BY DEF EditHere
<1> HIDE DEF now
<1>5. conf \in Documents
  BY <1>2, <1>3 DEF Documents
<1>6. Meant(now, conf) = conf
  <2>1. now # Nil
    BY <1>2, NilIsNone
  <2> QED BY <1>2, <1>3, <2>1 DEF Meant, Documents
<1> HIDE DEF conf
<1> QED BY <1>1, <1>4, <1>5, <1>6, BeginKeepsInv

LEMMA BackupPreserves == StoreInv /\ Backup => StoreInv'
<1> SUFFICES ASSUME StoreInv, Backup PROVE StoreInv'
  OBVIOUS
<1>1. running.current \in Documents
  BY UpIs DEF StoreInv, Backup, Idle, Processes
<1> QED BY <1>1 DEF Backup, StoreInv, StoreTypeOK, SaveIsMeant, FileIsMeant, InForceIs, Up, Valid, dialsALink

LEMMA RestorePreserves == ASSUME NEW fresh \in BOOLEAN, StoreInv, Restore(fresh) PROVE StoreInv'
<1>1. running.current \in Documents /\ backup \in Documents
  BY UpIs DEF StoreInv, StoreTypeOK, Restore, Idle, Processes
<1>2. Restored(backup, running.current, fresh) \in Documents
  BY <1>1, KeepsARest
<1> QED BY <1>2, BeginKeepsInv DEF Restore

LEMMA FullRestorePreserves == StoreInv /\ FullRestore => StoreInv'
<1> SUFFICES ASSUME StoreInv, FullRestore PROVE StoreInv'
  OBVIOUS
<1>1. running.current \in Documents /\ backup \in Documents
  BY UpIs DEF StoreInv, StoreTypeOK, FullRestore, Idle, Processes
<1>2. keepMachineLocal(backup, running.current) \in Documents
  BY <1>1, KeepsARest
<1> QED BY <1>2, BeginKeepsInv DEF FullRestore

(* The steps of Save. *)
LEMMA SavingIs ==
  ASSUME StoreInv, saving.step \in {"record", "write", "apply"}
  PROVE  saving \in Saves /\ Up /\ Valid(saving.doc) /\ saving.doc = saving.meant /\ saving # NoSave
BY DEF StoreInv, StoreTypeOK, SaveIsMeant, NoSave

LEMMA RecordPreserves == StoreInv /\ RecordVersion => StoreInv'
<1> SUFFICES ASSUME StoreInv, RecordVersion PROVE StoreInv'
  OBVIOUS
<1>1. saving \in Saves /\ saving.step = "record" /\ Up /\ Valid(saving.doc) /\ saving.doc = saving.meant
  BY SavingIs DEF RecordVersion
<1>2. UNCHANGED <<file, running, effect, page, backup, begun, intent>>
  BY DEF RecordVersion
<1>3. CASE versions' = Append(versions, saving.doc) /\ saving' = [saving EXCEPT !.step = "write"]
  <2>1. saving' \in Saves /\ saving'.step = "write" /\ saving'.doc = saving.doc /\ saving'.meant = saving.meant
    BY <1>1, <1>3 DEF Saves
  <2>2. StoreTypeOK'
    <3>1. versions' \in Seq(Documents)
      BY <1>1, <1>3 DEF StoreInv, StoreTypeOK, Saves
    <3> QED BY <1>2, <2>1, <3>1 DEF StoreInv, StoreTypeOK
  <2> QED BY <1>1, <1>2, <2>1, <2>2 DEF StoreInv, SaveIsMeant, FileIsMeant, InForceIs, Up, Valid, dialsALink
<1>4. CASE saving' = NoSave /\ UNCHANGED versions
  <2>1. saving'.step # "apply"
    BY <1>4 DEF NoSave
  <2>2. StoreTypeOK'
    BY <1>2, <1>4 DEF StoreInv, StoreTypeOK
  <2> QED BY <1>1, <1>2, <1>4, <2>1, <2>2 DEF StoreInv, SaveIsMeant, FileIsMeant, InForceIs, Up, Valid, dialsALink
<1> QED BY <1>3, <1>4 DEF RecordVersion

LEMMA WritePreserves == StoreInv /\ WriteFile => StoreInv'
<1> SUFFICES ASSUME StoreInv, WriteFile PROVE StoreInv'
  OBVIOUS
<1>1. saving \in Saves /\ saving.step = "write" /\ Up /\ Valid(saving.doc) /\ saving.doc = saving.meant
  BY SavingIs DEF WriteFile
<1>2. UNCHANGED <<versions, running, effect, page, backup, begun>>
  BY DEF WriteFile
<1>3. CASE file' = saving.doc /\ saving' = [saving EXCEPT !.step = "apply"] /\ intent' = saving.meant
  <2>1. /\ saving' \in Saves /\ saving'.step = "apply" /\ saving'.doc = saving.doc /\ saving'.meant = saving.meant
        /\ saving.doc \in Documents
    BY <1>1, <1>3 DEF Saves
  <2>2. StoreTypeOK'
    BY <1>1, <1>2, <1>3, <2>1 DEF StoreInv, StoreTypeOK
  <2> QED BY <1>1, <1>2, <1>3, <2>1, <2>2 DEF StoreInv, SaveIsMeant, FileIsMeant, InForceIs, Up, Valid, dialsALink
<1>4. CASE saving' = NoSave /\ UNCHANGED <<file, intent>>
  <2>1. saving'.step # "apply"
    BY <1>4 DEF NoSave
  <2>2. StoreTypeOK'
    BY <1>2, <1>4 DEF StoreInv, StoreTypeOK
  <2> QED BY <1>1, <1>2, <1>4, <2>1, <2>2 DEF StoreInv, SaveIsMeant, FileIsMeant, InForceIs, Up, Valid, dialsALink
<1> QED BY <1>3, <1>4 DEF WriteFile

LEMMA ApplyPreserves == StoreInv /\ ApplySave => StoreInv'
<1> SUFFICES ASSUME StoreInv, ApplySave PROVE StoreInv'
  OBVIOUS
<1>1. saving \in Saves /\ saving.step = "apply" /\ Up /\ saving.doc \in Documents
  BY SavingIs DEF ApplySave, Saves
<1>2. UNCHANGED <<file, versions, page, backup, begun, intent>> /\ saving' = NoSave /\ saving'.step # "apply"
  BY DEF ApplySave, NoSave
<1>3. PICK applied \in BOOLEAN : /\ running' = [running EXCEPT !.current = saving.doc, !.late = ~applied]
                                /\ effect' = InForce(saving.doc, applied)
  BY DEF ApplySave
<1>4. running \in Processes
  BY <1>1, UpIs DEF StoreInv
<1>5. /\ running' \in Processes
      /\ running'.current = saving.doc /\ running'.startup = running.startup /\ running'.late = ~applied
  BY <1>1, <1>3, <1>4 DEF Processes
<1>6. StoreTypeOK'
  BY <1>2, <1>5 DEF StoreInv, StoreTypeOK
<1>7. SaveIsMeant' /\ FileIsMeant'
  BY <1>1, <1>2, <1>5 DEF StoreInv, SaveIsMeant, FileIsMeant, Valid
<1>8. InForceIs'
  BY <1>1, <1>3, <1>5 DEF StoreInv, InForceIs, InForce, Keys, toldToLinks, dialsALink
<1> QED BY <1>6, <1>7, <1>8 DEF StoreInv

LEMMA StopPreserves == StoreInv /\ Stop => StoreInv'
<1> SUFFICES ASSUME StoreInv, Stop PROVE StoreInv'
  OBVIOUS
<1>1. ~Up' /\ saving' = NoSave /\ saving'.step # "apply"
  BY DEF Stop, Up, NoSave
<1>2. StoreTypeOK'
  BY DEF Stop, StoreInv, StoreTypeOK
<1> QED BY <1>1, <1>2 DEF Stop, StoreInv, SaveIsMeant, FileIsMeant, InForceIs, Valid

LEMMA StoreStep == StoreInv /\ [StoreNext]_storeVars => StoreInv'
<1> SUFFICES ASSUME StoreInv, [StoreNext]_storeVars PROVE StoreInv'
  OBVIOUS
<1>1. CASE UNCHANGED storeVars
  BY <1>1 DEF storeVars, StoreInv, StoreTypeOK, SaveIsMeant, FileIsMeant, InForceIs, Up, Valid, dialsALink
<1>2. CASE StoreNext
  BY <1>2, StartPreserves, StopPreserves, BackupPreserves, FullRestorePreserves, RecordPreserves,
     WritePreserves, ApplyPreserves, RestorePreserves, OpenPreserves, PostPreserves, PreviewPreserves,
     EditHerePreserves DEF StoreNext
<1> QED BY <1>1, <1>2

-----------------------------------------------------------------------------
(* The invariant the two results follow from holds in every reachable      *)
(* state of the store: the file is always what was last meant, the process *)
(* works from it outside a save, and what is in force is known setting by  *)
(* setting.                                                                *)
THEOREM StoreSafety == StoreSpec => []StoreInv
BY StoreInitInv, StoreStep, PTL DEF StoreSpec

(* No save is lost: with any number of pages open and saves made from old  *)
(* ones, and a process that may die between any two steps of a save, what  *)
(* somebody last set is what the process works from and what the file      *)
(* holds, and the file is always one the process starts on.                *)
THEOREM SavesAreNeverLost == StoreSpec => []SavesAreKept
<1>1. StoreInv => SavesAreKept
  <2> SUFFICES ASSUME StoreInv PROVE SavesAreKept
    OBVIOUS
  <2>1. Idle => saving.step # "apply"
    BY DEF Idle, NoSave
  <2> QED BY <2>1 DEF StoreInv, SavesAreKept, LastIntentHolds, FileIsCurrent, FileIsMeant, Idle
<1> QED BY <1>1, StoreSafety, PTL

(* PendingRestart is exact: after any sequence of saves, restores and      *)
(* changes taken back, a setting is listed if and only if the process does *)
(* not work with what is saved.                                            *)
THEOREM PendingRestartIsExact == StoreSpec => []InForceIsTold
<1>1. StoreInv => InForceIsTold
  <2> SUFFICES ASSUME StoreInv, Idle PROVE InForceIsTold
    BY DEF InForceIsTold
  <2>1. InForceIs /\ Up
    BY DEF StoreInv, Idle
  <2>2. ~running.late => effect["bridges"] = running.current["bridges"]
    BY <2>1 DEF InForceIs
  <2>3. ASSUME NEW s \in Keys \ {"bridges"}
        PROVE  \/ s = "identifier" /\ running.startup[s] = 0
               \/ (effect[s] # running.current[s] <=> s \in PendingRestart)
    BY <2>1 DEF InForceIs, Keys, PendingRestart, NeedsRestart, appliedOnSave, toldToLinks, dialsALink
  <2> QED BY <2>2, <2>3 DEF InForceIsTold
<1> QED BY <1>1, StoreSafety, PTL

(***************************************************************************)
(* Peering: both kinds of link at once                                     *)
(***************************************************************************)
PeeringNext == Exchanging \/ Dialling \/ Keeping
PeeringSpec == PeeringInit /\ [][PeeringNext]_peeringVars

OpenLinks == [kind : {"openbridge"}, on : BOOLEAN, to : Servers, file : LinkNames, secret : Secrets]
DialledLinks == [kind : {"qsp"}, on : BOOLEAN, to : Servers, file : LinkNames, id : LinkIDs, secret : Secrets]
LinkRecords == OpenLinks \cup DialledLinks
LinkTables == [LinkNames -> LinkRecords \cup {NoLink}]
FileTables == [LinkNames -> TypedSecrets]
OpenTokens == [kind : {"openbridge"}, from : Servers, to : Servers, secret : Secrets,
               reply : BOOLEAN, answers : Nat, issued : Nat]
DialTokens == [kind : {"qsp"}, from : Servers, to : Servers, secret : Secrets, id : LinkIDs, issued : Nat]
Lists == [mode : {"none", "permit", "deny"}, ids : SUBSET (LinkIDs \cup {0})]
Sayings == {"nothing", "admitted", "refused"}
Askings == [at : {"none", "save", "remove", "answer"}, id : LinkIDs \cup {0}, secret : TypedSecrets,
             says : Sayings, locked : BOOLEAN, stale : BOOLEAN]
Answers == [list : Sayings, key : SUBSET TypedSecrets]

PeeringTypeOK ==
  /\ links \in [Servers -> LinkTables]
  /\ linked \in [Servers -> SUBSET LinkNames]
  /\ files \in [Servers -> FileTables]
  /\ keys \in [Servers -> [LinkIDs -> TypedSecrets]]
  /\ registry \in [Servers -> Lists]
  /\ tokens \in SUBSET (OpenTokens \cup DialTokens)
  /\ asked \in [Servers -> [Admins -> Askings]]
  /\ told \in [Servers -> [LinkIDs -> Answers]]
  /\ day \in Nat

(* One server's links and the files beside them: each link's file holds    *)
(* its secret, and no two links share one.                                 *)
TableOK(T, F) ==
  /\ T \in LinkTables /\ F \in FileTables
  /\ \A n \in LinkNames : T[n] # NoLink => F[T[n].file] = T[n].secret
  /\ \A m, n \in LinkNames : T[m] # NoLink /\ T[n] # NoLink /\ T[m].file = T[n].file => m = n

LinksAreOwn == \A s \in Servers : TableOK(links[s], files[s])

(* A reply answers, and what is not one does not.                          *)
RepliesAnswer ==
  \A t \in tokens : t.kind = "openbridge" => t.answers = (IF t.reply THEN 1 ELSE 0)

Lets(l, i) == CASE l.mode = "none" -> TRUE
                [] l.mode = "permit" -> i \in l.ids
                [] l.mode = "deny" -> i \notin l.ids

(* A request under way, beside the list and the passwords: what its answer *)
(* will say is so now, its password is in its file unless another request  *)
(* wrote there, and whoever changes the list has the lock.                 *)
AskingOK(l, K, r) ==
  /\ r.at = "none" <=> r.id = 0
  /\ r.at = "none" => r.says = "nothing" /\ ~r.locked
  /\ r.says # "nothing" \/ r.at \in {"save", "remove"} => r.locked
  /\ r.at = "save" => /\ r.says = "nothing" /\ r.secret \in Secrets
                      /\ l.mode = "deny" => Lets(l, r.id)
  /\ r.says = "admitted" => Lets(l, r.id) /\ r.secret \in Secrets /\ r.at # "remove"
  /\ r.says = "refused" => ~Lets(l, r.id)
  /\ r.at \in {"save", "answer"} /\ ~r.stale => K[r.id] = r.secret

(* What the answers said of the ID i is so, of the list unless a request   *)
(* that changes it is under way, of the password unless any is.            *)
ListOK(l, Q, A, i) ==
  (\A a \in Admins : Q[a].id = i => Q[a].says = "nothing") =>
    /\ A[i].list = "admitted" => Lets(l, i)
    /\ A[i].list = "refused" => ~Lets(l, i)
KeyOK(K, Q, A, i) == (\A a \in Admins : Q[a].id # i) => K[i] \in A[i].key

(* One server's list, passwords, requests and answers.                     *)
DeskOK(l, K, Q, A) ==
  /\ l \in Lists /\ K \in [LinkIDs -> TypedSecrets]
  /\ Q \in [Admins -> Askings] /\ A \in [LinkIDs -> Answers]
  /\ \A a \in Admins : AskingOK(l, K, Q[a])
  /\ \A a, b \in Admins : Q[a].locked /\ Q[b].locked => a = b
  /\ \A i \in LinkIDs : ListOK(l, Q, A, i) /\ KeyOK(K, Q, A, i)

AnswersAreSo == \A s \in Servers : DeskOK(registry[s], keys[s], asked[s], told[s])

PeeringInv == PeeringTypeOK /\ LinksAreOwn /\ RepliesAnswer /\ AnswersAreSo

LEMMA LinkIsOne ==
  /\ NoLink \notin LinkRecords
  /\ \A r \in LinkRecords : r.file \in LinkNames /\ r.secret \in Secrets /\ r.kind \in {"openbridge", "qsp"} /\ r # NoLink
<1>1. ASSUME NEW r \in LinkRecords
      PROVE  r.file \in LinkNames /\ r.secret \in Secrets /\ r.kind \in {"openbridge", "qsp"}
  BY DEF LinkRecords, OpenLinks, DialledLinks
<1>2. NoLink.kind = "none"
  BY DEF NoLink
<1> QED BY <1>1, <1>2

LEMMA PeeringInvImplies == PeeringInv => AgreementsHold
<1> SUFFICES ASSUME PeeringInv PROVE AgreementsHold
  OBVIOUS
<1>1. AgreedSecretIsOnDisk
  BY DEF PeeringInv, LinksAreOwn, TableOK, AgreedSecretIsOnDisk, Linked
<1>2. ExchangesEnd
  BY DEF PeeringInv, RepliesAnswer, ExchangesEnd
<1>3. AdmitsAsTold
  <2>1. ASSUME NEW s \in Servers, NEW i \in LinkIDs
        PROVE  /\ ListOK(registry[s], asked[s], told[s], i) /\ KeyOK(keys[s], asked[s], told[s], i)
               /\ Admits(s, i) <=> Lets(registry[s], i)
    BY DEF PeeringInv, AnswersAreSo, DeskOK, Admits, Lets
  <2> QED BY <2>1 DEF AdmitsAsTold, ListOK, KeyOK
<1> QED BY <1>1, <1>2, <1>3 DEF AgreementsHold

LEMMA NobodyAsks ==
  /\ NothingAsked.at = "none" /\ NothingAsked.id = 0 /\ NothingAsked.says = "nothing"
  /\ NothingAsked.locked = FALSE /\ NothingAsked \in Askings
  /\ \A l, K : AskingOK(l, K, NothingAsked)
<1>1. /\ NothingAsked.at = "none" /\ NothingAsked.id = 0 /\ NothingAsked.says = "nothing"
      /\ NothingAsked.locked = FALSE /\ NothingAsked \in Askings
  BY DEF NothingAsked, Askings, TypedSecrets, Sayings
<1> QED BY <1>1 DEF AskingOK

LEMMA PeeringInitInv == PeeringInit => PeeringInv
<1> SUFFICES ASSUME PeeringInit PROVE PeeringInv
  OBVIOUS
<1>1. registry \in [Servers -> Lists]
  <2>1. [mode |-> "none", ids |-> {}] \in Lists
    BY DEF Lists
  <2>2. \A l \in [mode : {"permit"}, ids : {LinkIDs, {0}}] : l \in Lists
    <3>1. LinkIDs \in SUBSET (LinkIDs \cup {0}) /\ {0} \in SUBSET (LinkIDs \cup {0})
      OBVIOUS
    <3> QED BY <3>1 DEF Lists
  <2> QED BY <2>1, <2>2 DEF PeeringInit
<1> DEFINE nothing == [list |-> "nothing", key |-> TypedSecrets]
<1>0. nothing \in Answers /\ nothing.list = "nothing" /\ nothing.key = TypedSecrets
  BY DEF Answers, Sayings
<1>2. PeeringTypeOK
  BY <1>0, <1>1, NobodyAsks DEF PeeringInit, PeeringTypeOK, LinkTables, FileTables, TypedSecrets
<1>3. LinksAreOwn
  BY DEF PeeringInit, LinksAreOwn, TableOK, LinkTables, FileTables, TypedSecrets
<1>4. RepliesAnswer
  BY DEF PeeringInit, RepliesAnswer
<1>5. AnswersAreSo
  <2> SUFFICES ASSUME NEW s \in Servers PROVE DeskOK(registry[s], keys[s], asked[s], told[s])
    BY DEF AnswersAreSo
  <2>1. /\ \A a \in Admins : asked[s][a] = NothingAsked
        /\ \A i \in LinkIDs : told[s][i] = nothing /\ keys[s][i] = NoSecret
    BY DEF PeeringInit
  <2>2. /\ \A i \in LinkIDs : ListOK(registry[s], asked[s], told[s], i) /\ KeyOK(keys[s], asked[s], told[s], i)
    BY <1>0, <2>1 DEF ListOK, KeyOK, TypedSecrets
  <2>3. \A a \in Admins : AskingOK(registry[s], keys[s], asked[s][a])
    BY <2>1, NobodyAsks
  <2> QED BY <1>2, <2>1, <2>2, <2>3, NobodyAsks DEF DeskOK, PeeringTypeOK
<1> QED BY <1>2, <1>3, <1>4, <1>5 DEF PeeringInv

(***************************************************************************)
(* What the handlers do to one server's links and files.                   *)
(***************************************************************************)
FileFree(T, n) == \A m \in LinkNames : T[m] # NoLink => T[m].file # n

LEMMA FileWritten ==
  ASSUME NEW T, NEW F, TableOK(T, F), NEW n \in LinkNames, FileFree(T, n), NEW k \in TypedSecrets
  PROVE  TableOK(T, [F EXCEPT ![n] = k])
<1>1. [F EXCEPT ![n] = k] \in FileTables
  BY DEF TableOK, FileTables
<1>2. ASSUME NEW m \in LinkNames, T[m] # NoLink PROVE [F EXCEPT ![n] = k][T[m].file] = T[m].secret
  <2>1. T[m] \in LinkRecords /\ F[T[m].file] = T[m].secret /\ T[m].file # n
    BY <1>2 DEF TableOK, LinkTables, FileFree
  <2>2. T[m].file \in LinkNames
    BY <2>1, LinkIsOne
  <2> QED BY <2>1, <2>2 DEF TableOK, FileTables
<1> QED BY <1>1, <1>2 DEF TableOK

LEMMA LinkAdded ==
  ASSUME NEW T, NEW F, TableOK(T, F), NEW n \in LinkNames, FileFree(T, n),
         NEW r \in LinkRecords, r.file = n
  PROVE  TableOK([T EXCEPT ![n] = r], [F EXCEPT ![n] = r.secret])
<1> DEFINE U == [T EXCEPT ![n] = r]
           G == [F EXCEPT ![n] = r.secret]
<1>1. r.secret \in TypedSecrets
  BY LinkIsOne DEF TypedSecrets
<1>2. TableOK(T, G)
  BY <1>1, FileWritten
<1>3. U \in LinkTables /\ U[n] = r /\ (\A m \in LinkNames : m # n => U[m] = T[m]) /\ G[n] = r.secret
  BY DEF TableOK, LinkTables, FileTables
<1> HIDE DEF U, G
<1>4. ASSUME NEW m \in LinkNames, U[m] # NoLink PROVE G[U[m].file] = U[m].secret
  BY <1>2, <1>3, <1>4 DEF TableOK
<1>5. ASSUME NEW m \in LinkNames, NEW l \in LinkNames, U[m] # NoLink, U[l] # NoLink, U[m].file = U[l].file PROVE m = l
  BY <1>2, <1>3, <1>5 DEF TableOK, FileFree
<1>6. TableOK(U, G)
  BY <1>2, <1>3, <1>4, <1>5 DEF TableOK
<1> QED BY <1>6 DEF U, G

LEMMA LinkGone ==
  ASSUME NEW T, NEW F, TableOK(T, F), NEW n \in LinkNames, T[n] # NoLink
  PROVE  /\ TableOK([T EXCEPT ![n] = NoLink], F)
         /\ TableOK([T EXCEPT ![n] = NoLink], [F EXCEPT ![T[n].file] = NoSecret])
<1> DEFINE U == [T EXCEPT ![n] = NoLink]
<1>1. U \in LinkTables /\ U[n] = NoLink /\ \A m \in LinkNames : m # n => U[m] = T[m]
  BY DEF TableOK, LinkTables
<1> HIDE DEF U
<1>2. TableOK(U, F)
  BY <1>1 DEF TableOK
<1>3. T[n].file \in LinkNames /\ NoSecret \in TypedSecrets
  BY LinkIsOne DEF TableOK, LinkTables, TypedSecrets
<1>4. FileFree(U, T[n].file)
  BY <1>1 DEF FileFree, TableOK
<1>5. TableOK(U, [F EXCEPT ![T[n].file] = NoSecret])
  BY <1>2, <1>3, <1>4, FileWritten
<1> QED BY <1>2, <1>5 DEF U

LEMMA LinkEdited ==
  ASSUME NEW T, NEW F, TableOK(T, F), NEW n \in LinkNames, T[n] # NoLink,
         NEW r \in LinkRecords, r.file = T[n].file, r.secret = T[n].secret
  PROVE  TableOK([T EXCEPT ![n] = r], F)
<1> DEFINE U == [T EXCEPT ![n] = r]
<1>1. U \in LinkTables /\ U[n] = r /\ \A m \in LinkNames : m # n => U[m] = T[m]
  BY DEF TableOK, LinkTables
<1> HIDE DEF U
<1>2. TableOK(U, F)
  BY <1>1 DEF TableOK
<1> QED BY <1>2 DEF U

LEMMA LinkRenamed ==
  ASSUME NEW T, NEW F, TableOK(T, F), NEW n \in LinkNames, NEW m \in LinkNames, T[n] # NoLink, T[m] = NoLink
  PROVE  TableOK([T EXCEPT ![m] = T[n], ![n] = NoLink], F)
<1> DEFINE U == [T EXCEPT ![m] = T[n], ![n] = NoLink]
<1>1. U \in LinkTables /\ U[n] = NoLink /\ U[m] = T[n] /\ \A l \in LinkNames : l # n /\ l # m => U[l] = T[l]
  BY DEF TableOK, LinkTables
<1> HIDE DEF U
<1>2. TableOK(U, F)
  BY <1>1 DEF TableOK
<1> QED BY <1>2 DEF U

(***************************************************************************)
(* The steps, each conjunct of the invariant in turn.                      *)
(***************************************************************************)
(* A handler of the server s leaves its links and files in order.          *)
LEMMA LinksHold ==
  ASSUME LinksAreOwn, PeeringTypeOK, NEW s \in Servers, NEW T, NEW F, TableOK(T, F),
         links' = [links EXCEPT ![s] = T] \/ (links' = links /\ T = links[s]),
         files' = [files EXCEPT ![s] = F] \/ (files' = files /\ F = files[s])
  PROVE  LinksAreOwn' /\ links' \in [Servers -> LinkTables] /\ files' \in [Servers -> FileTables]
<1>1. T \in LinkTables /\ F \in FileTables
  BY DEF TableOK
<1>2. links' \in [Servers -> LinkTables] /\ files' \in [Servers -> FileTables]
  BY <1>1 DEF PeeringTypeOK
<1>3. links'[s] = T /\ files'[s] = F /\ \A o \in Servers : o # s => links'[o] = links[o] /\ files'[o] = files[o]
  BY DEF PeeringTypeOK
<1>4. LinksAreOwn'
  BY <1>3 DEF LinksAreOwn
<1> QED BY <1>2, <1>4

(***************************************************************************)
(* What the handlers do to one server's list, passwords and answers.       *)
(***************************************************************************)
(* Some request writes a password: those of the others about the same ID   *)
(* are no longer the last word.                                            *)
Marked(Q, a, r) == [b \in Admins |-> IF b = a THEN r ELSE [Q[b] EXCEPT !.stale = @ \/ Q[b].id = r.id]]

LEMMA PasswordWritten ==
  ASSUME NEW l, NEW K, NEW Q, NEW A, DeskOK(l, K, Q, A), NEW a \in Admins, NEW r \in Askings,
         r.id \in LinkIDs, Q[a] = NothingAsked \/ Q[a].id = r.id, r.says = Q[a].says,
         r.locked => \A b \in Admins : b # a => ~Q[b].locked,
         AskingOK(l, [K EXCEPT ![r.id] = r.secret], r)
  PROVE  DeskOK(l, [K EXCEPT ![r.id] = r.secret], Marked(Q, a, r), A)
<1> DEFINE L == [K EXCEPT ![r.id] = r.secret]
           P == Marked(Q, a, r)
<1>0. 0 \notin LinkIDs
  BY PeeringAssumption
<1>1. r.secret \in TypedSecrets
  BY DEF Askings
<1>2. L \in [LinkIDs -> TypedSecrets] /\ \A i \in LinkIDs : i # r.id => L[i] = K[i]
  BY <1>1 DEF DeskOK
<1>3. P[a] = r
  BY DEF Marked
<1>4. ASSUME NEW b \in Admins, b # a
      PROVE  /\ P[b] \in Askings /\ P[b].at = Q[b].at /\ P[b].id = Q[b].id /\ P[b].secret = Q[b].secret
             /\ P[b].says = Q[b].says /\ P[b].locked = Q[b].locked
             /\ (~P[b].stale => ~Q[b].stale /\ Q[b].id # r.id)
  <2>1. Q[b] \in Askings /\ P[b] = [Q[b] EXCEPT !.stale = @ \/ Q[b].id = r.id]
    BY <1>4 DEF DeskOK, Marked
  <2>2. (Q[b].stale \/ Q[b].id = r.id) \in BOOLEAN
    OBVIOUS
  <2> QED BY <2>1, <2>2 DEF Askings
<1>5. P \in [Admins -> Askings]
  <2>1. \A b \in Admins : P[b] \in Askings
    BY <1>3, <1>4
  <2> QED BY <2>1 DEF Marked
<1> HIDE DEF L, P
<1>6. ASSUME NEW b \in Admins PROVE AskingOK(l, L, P[b])
  <2>1. CASE b = a
    BY <1>3, <2>1 DEF L
  <2>2. CASE b # a
    <3>1. AskingOK(l, K, Q[b]) /\ Q[b] \in Askings
      BY DEF DeskOK
    <3>2. Q[b].at # "none" => Q[b].id \in LinkIDs
      BY <3>1 DEF AskingOK, Askings
    <3>3. Q[b].at \in {"save", "answer"} /\ ~P[b].stale => L[Q[b].id] = K[Q[b].id] /\ ~Q[b].stale
      BY <1>2, <1>4, <2>2, <3>2
    <3> QED BY <1>4, <2>2, <3>1, <3>3 DEF AskingOK
  <2> QED BY <2>1, <2>2
<1>7. \A b, c \in Admins : P[b].locked /\ P[c].locked => b = c
  BY <1>3, <1>4 DEF DeskOK
<1>8. \A b \in Admins : Q[b].id = P[b].id \/ (b = a /\ Q[b].id = 0 /\ P[b].id = r.id)
  BY <1>3, <1>4, NobodyAsks
<1>9. \A b \in Admins : P[b].says = Q[b].says
  BY <1>3, <1>4
<1>10. ASSUME NEW i \in LinkIDs PROVE ListOK(l, P, A, i) /\ KeyOK(L, P, A, i)
  <2>1. ListOK(l, Q, A, i) /\ KeyOK(K, Q, A, i)
    BY DEF DeskOK
  <2>2. ListOK(l, P, A, i)
    BY <1>0, <1>8, <1>9, <2>1 DEF ListOK
  <2>3. KeyOK(L, P, A, i)
    <3>1. CASE i = r.id
      BY <1>3, <3>1 DEF KeyOK
    <3>2. CASE i # r.id
      BY <1>0, <1>2, <1>8, <2>1, <3>2 DEF KeyOK
    <3> QED BY <3>1, <3>2
  <2> QED BY <2>2, <2>3
<1>11. l \in Lists /\ A \in [LinkIDs -> Answers]
  BY DEF DeskOK
<1>12. DeskOK(l, L, P, A)
  BY <1>2, <1>5, <1>6, <1>7, <1>10, <1>11 DEF DeskOK
<1> QED BY <1>12 DEF L, P

(* The one who has the lock changes the list, for one ID.                  *)
LEMMA ListChanged ==
  ASSUME NEW l, NEW K, NEW Q, NEW A, DeskOK(l, K, Q, A), NEW a \in Admins, NEW r \in Askings,
         r.id \in LinkIDs, Q[a] = NothingAsked \/ Q[a].id = r.id, r.locked,
         \A b \in Admins : b # a => ~Q[b].locked,
         NEW m \in Lists, \A j \in LinkIDs : j # r.id => (Lets(m, j) <=> Lets(l, j)),
         r.says # "nothing" \/ (m = l /\ Q[a].says = "nothing"), AskingOK(m, K, r)
  PROVE  DeskOK(m, K, [Q EXCEPT ![a] = r], A)
<1> DEFINE P == [Q EXCEPT ![a] = r]
<1>0. 0 \notin LinkIDs
  BY PeeringAssumption
<1>1. P \in [Admins -> Askings] /\ P[a] = r /\ \A b \in Admins : b # a => P[b] = Q[b]
  BY DEF DeskOK
<1> HIDE DEF P
<1>2. ASSUME NEW b \in Admins PROVE AskingOK(m, K, P[b])
  <2>1. CASE b = a
    BY <1>1, <2>1
  <2>2. CASE b # a
    <3>1. AskingOK(l, K, Q[b]) /\ ~Q[b].locked
      BY <2>2 DEF DeskOK
    <3> QED BY <1>1, <2>2, <3>1 DEF AskingOK
  <2> QED BY <2>1, <2>2
<1>3. \A b, c \in Admins : P[b].locked /\ P[c].locked => b = c
  BY <1>1 DEF DeskOK
<1>4. ASSUME NEW i \in LinkIDs PROVE ListOK(m, P, A, i) /\ KeyOK(K, P, A, i)
  <2>1. ListOK(l, Q, A, i) /\ KeyOK(K, Q, A, i)
    BY DEF DeskOK
  <2>2. i # r.id => Q[a].id # i /\ P[a].id # i
    BY <1>0, <1>1, NobodyAsks
  <2>3. KeyOK(K, P, A, i)
    BY <1>1, <2>1, <2>2 DEF KeyOK
  <2>4. CASE i # r.id
    BY <1>1, <2>1, <2>2, <2>3, <2>4 DEF ListOK
  <2>5. CASE i = r.id /\ r.says # "nothing"
    BY <1>1, <2>3, <2>5 DEF ListOK
  <2>6. CASE i = r.id /\ m = l /\ Q[a].says = "nothing" /\ r.says = "nothing"
    BY <1>1, <2>1, <2>3, <2>6 DEF ListOK
  <2> QED BY <2>4, <2>5, <2>6
<1>5. K \in [LinkIDs -> TypedSecrets] /\ A \in [LinkIDs -> Answers]
  BY DEF DeskOK
<1>6. DeskOK(m, K, P, A)
  BY <1>1, <1>2, <1>3, <1>4, <1>5 DEF DeskOK
<1> QED BY <1>6 DEF P

(* A request is answered.                                                  *)
LEMMA RequestAnswered ==
  ASSUME NEW l, NEW K, NEW Q, NEW A, DeskOK(l, K, Q, A), NEW a \in Admins, Q[a].at = "answer",
         NEW w \in Answers,
         w.list = (IF Q[a].says = "nothing" THEN A[Q[a].id].list ELSE Q[a].says),
         w.key = (IF Q[a].stale THEN TypedSecrets ELSE {Q[a].secret})
  PROVE  Q[a].id \in LinkIDs /\ DeskOK(l, K, [Q EXCEPT ![a] = NothingAsked], [A EXCEPT ![Q[a].id] = w])
<1> DEFINE P == [Q EXCEPT ![a] = NothingAsked]
           r == Q[a]
           B == [A EXCEPT ![r.id] = w]
<1>0. 0 \notin LinkIDs
  BY PeeringAssumption
<1>1. r \in Askings /\ AskingOK(l, K, r)
  BY DEF DeskOK
<1>2. r.id \in LinkIDs
  BY <1>1 DEF AskingOK, Askings
<1>3. /\ P \in [Admins -> Askings] /\ P[a] = NothingAsked /\ \A b \in Admins : b # a => P[b] = Q[b]
      /\ B \in [LinkIDs -> Answers] /\ B[r.id] = w /\ \A i \in LinkIDs : i # r.id => B[i] = A[i]
  BY <1>2, NobodyAsks DEF DeskOK
<1> HIDE DEF P, B, r
<1>4. \A b \in Admins : AskingOK(l, K, P[b])
  BY <1>3, NobodyAsks DEF DeskOK
<1>5. \A b, c \in Admins : P[b].locked /\ P[c].locked => b = c
  BY <1>3, NobodyAsks DEF DeskOK
<1>6. ASSUME NEW i \in LinkIDs PROVE ListOK(l, P, B, i) /\ KeyOK(K, P, B, i)
  <2>1. ListOK(l, Q, A, i) /\ KeyOK(K, Q, A, i) /\ K[i] \in TypedSecrets
    BY DEF DeskOK
  <2>2. CASE i # r.id
    <3>1. B[i] = A[i] /\ Q[a].id # i
      BY <1>3, <2>2 DEF r
    <3> QED BY <1>3, <2>1, <3>1 DEF ListOK, KeyOK
  <2>3. CASE i = r.id
    <3>1. KeyOK(K, P, B, i)
      BY <1>1, <1>3, <2>1, <2>3 DEF KeyOK, AskingOK, r
    <3>2. ListOK(l, P, B, i)
      <4>1. CASE r.says = "nothing"
        <5>1. B[i].list = A[i].list
          BY <1>3, <2>3, <4>1 DEF r
        <5> QED BY <1>3, <2>1, <4>1, <5>1 DEF ListOK, r
      <4>2. CASE r.says # "nothing"
        <5>1. B[i].list = r.says
          BY <1>3, <2>3, <4>2 DEF r
        <5> QED BY <1>1, <2>3, <5>1 DEF ListOK, AskingOK
      <4> QED BY <4>1, <4>2
    <3> QED BY <3>1, <3>2
  <2> QED BY <2>2, <2>3
<1>7. l \in Lists /\ K \in [LinkIDs -> TypedSecrets]
  BY DEF DeskOK
<1>8. DeskOK(l, K, P, B)
  BY <1>3, <1>4, <1>5, <1>6, <1>7 DEF DeskOK
<1> QED BY <1>2, <1>8 DEF P, B, r

(* The server dies: the requests under way are answered nothing.           *)
LEMMA RequestsLost ==
  ASSUME PeeringInv, NEW s \in Servers
  PROVE  DeskOK(registry[s], keys[s], [a \in Admins |-> NothingAsked], Interrupted(s))
<1> DEFINE l == registry[s]
           K == keys[s]
           Q == asked[s]
           A == told[s]
           P == [a \in Admins |-> NothingAsked]
           B == Interrupted(s)
           lost(i) == {a \in Admins : Q[a].id = i}
<1>1. DeskOK(l, K, Q, A)
  BY DEF PeeringInv, AnswersAreSo
<1>2. ASSUME NEW i \in LinkIDs
      PROVE  /\ B[i] \in Answers
             /\ B[i].list = (IF \E a \in lost(i) : Q[a].locked THEN "nothing" ELSE A[i].list)
             /\ B[i].key = (IF lost(i) # {} THEN TypedSecrets ELSE A[i].key)
  <2>1. A[i] \in Answers
    BY <1>1 DEF DeskOK
  <2> QED BY <2>1 DEF Interrupted, Answers, Sayings
<1>3. B \in [LinkIDs -> Answers]
  <2>1. \A i \in LinkIDs : B[i] \in Answers
    BY <1>2
  <2> QED BY <2>1 DEF Interrupted
<1>4. P \in [Admins -> Askings] /\ \A a \in Admins : P[a] = NothingAsked
  BY NobodyAsks
<1> HIDE DEF l, K, Q, A, P, B
<1>5. ASSUME NEW i \in LinkIDs PROVE ListOK(l, P, B, i) /\ KeyOK(K, P, B, i)
  <2>1. ListOK(l, Q, A, i) /\ KeyOK(K, Q, A, i) /\ K[i] \in TypedSecrets
    BY <1>1 DEF DeskOK
  <2>2. KeyOK(K, P, B, i)
    BY <1>2, <2>1 DEF KeyOK
  <2>3. CASE \E a \in lost(i) : Q[a].locked
    BY <1>2, <2>2, <2>3 DEF ListOK
  <2>4. CASE ~\E a \in lost(i) : Q[a].locked
    <3>1. \A a \in Admins : Q[a].id = i => Q[a].says = "nothing"
      BY <1>1, <2>4 DEF DeskOK, AskingOK
    <3>2. B[i].list = A[i].list
      BY <1>2, <2>4
    <3> QED BY <2>1, <2>2, <3>1, <3>2 DEF ListOK
  <2> QED BY <2>3, <2>4
<1>6. DeskOK(l, K, P, B)
  BY <1>1, <1>3, <1>4, <1>5, NobodyAsks DEF DeskOK
<1> QED BY <1>6 DEF l, K, P, B

(* What is left of the invariant when a handler of the server s leaves its *)
(* list, passwords, requests and answers in order, or touches none.        *)
DeskTypes ==
  /\ registry \in [Servers -> Lists] /\ keys \in [Servers -> [LinkIDs -> TypedSecrets]]
  /\ asked \in [Servers -> [Admins -> Askings]] /\ told \in [Servers -> [LinkIDs -> Answers]]

LEMMA AnswersHold ==
  ASSUME PeeringInv, NEW s \in Servers, NEW l, NEW K, NEW Q, NEW A, DeskOK(l, K, Q, A),
         registry' = [registry EXCEPT ![s] = l] \/ (registry' = registry /\ l = registry[s]),
         keys' = [keys EXCEPT ![s] = K] \/ (keys' = keys /\ K = keys[s]),
         asked' = [asked EXCEPT ![s] = Q] \/ (asked' = asked /\ Q = asked[s]),
         told' = [told EXCEPT ![s] = A] \/ (told' = told /\ A = told[s])
  PROVE  AnswersAreSo' /\ DeskTypes'
<1>0. /\ l \in Lists /\ K \in [LinkIDs -> TypedSecrets]
      /\ Q \in [Admins -> Askings] /\ A \in [LinkIDs -> Answers]
  BY DEF DeskOK
<1>1. DeskTypes
  BY DEF PeeringInv, PeeringTypeOK, DeskTypes
<1>2. registry'[s] = l /\ keys'[s] = K /\ asked'[s] = Q /\ told'[s] = A
  BY <1>1 DEF DeskTypes
<1>3. \A o \in Servers : o # s => /\ registry'[o] = registry[o] /\ keys'[o] = keys[o]
                                 /\ asked'[o] = asked[o] /\ told'[o] = told[o]
  BY <1>1 DEF DeskTypes
<1>4. DeskTypes'
  <2>1. registry' \in [Servers -> Lists]
    BY <1>0, <1>1 DEF DeskTypes
  <2>2. keys' \in [Servers -> [LinkIDs -> TypedSecrets]]
    BY <1>0, <1>1 DEF DeskTypes
  <2>3. asked' \in [Servers -> [Admins -> Askings]]
    BY <1>0, <1>1 DEF DeskTypes
  <2>4. told' \in [Servers -> [LinkIDs -> Answers]]
    BY <1>0, <1>1 DEF DeskTypes
  <2> QED BY <2>1, <2>2, <2>3, <2>4 DEF DeskTypes
<1>5. AnswersAreSo'
  BY <1>2, <1>3 DEF PeeringInv, AnswersAreSo
<1> QED BY <1>4, <1>5

LEMMA AnswersStay ==
  ASSUME PeeringInv, UNCHANGED <<keys, registry, asked, told>>
  PROVE  AnswersAreSo' /\ DeskTypes'
BY DEF PeeringInv, PeeringTypeOK, AnswersAreSo, DeskTypes

LEMMA RestartedKeeps ==
  ASSUME PeeringInv, NEW s \in Servers, Restarted(s), UNCHANGED <<keys, registry>>
  PROVE  AnswersAreSo' /\ DeskTypes' /\ linked' \in [Servers -> SUBSET LinkNames]
<1> DEFINE Q == [a \in Admins |-> NothingAsked]
           A == Interrupted(s)
<1>1. DeskOK(registry[s], keys[s], Q, A)
  BY RequestsLost
<1>2. asked' = [asked EXCEPT ![s] = Q] /\ told' = [told EXCEPT ![s] = A]
  BY DEF Restarted
<1>3. linked' \in [Servers -> SUBSET LinkNames]
  BY DEF Restarted, Opened, PeeringInv, PeeringTypeOK
<1> HIDE DEF Q, A
<1>4. AnswersAreSo' /\ DeskTypes'
  BY <1>1, <1>2, AnswersHold
<1> QED BY <1>3, <1>4

(* An edit of the configuration, which may be the server's last.           *)
LEMMA MemoryKeeps ==
  ASSUME PeeringInv, NEW s \in Servers, NEW outcome, NEW kept, Memory(s, outcome, kept), UNCHANGED <<keys, registry>>
  PROVE  AnswersAreSo' /\ DeskTypes' /\ linked' \in [Servers -> SUBSET LinkNames]
<1>1. CASE Restarted(s)
  BY <1>1, RestartedKeeps
<1>2. CASE UNCHANGED <<linked, asked, told>>
  BY <1>2, AnswersStay DEF PeeringInv, PeeringTypeOK
<1> QED BY <1>1, <1>2 DEF Memory

LEMMA LinksStay ==
  ASSUME PeeringInv, links' = links, files' = files
  PROVE  LinksAreOwn' /\ links' \in [Servers -> LinkTables] /\ files' \in [Servers -> FileTables]
BY DEF PeeringInv, PeeringTypeOK, LinksAreOwn

LEMMA OfferPeeringKeeps ==
  ASSUME PeeringInv, NEW s \in Servers, NEW to \in Servers, NEW k \in Secrets, NEW encodes \in BOOLEAN,
         OfferPeering(s, to, k, encodes)
  PROVE  PeeringInv'
<1> DEFINE t == [kind |-> "openbridge", from |-> s, to |-> to, secret |-> k,
                 reply |-> FALSE, answers |-> 0, issued |-> day]
<1>1. tokens' \in {tokens, tokens \cup {t}} /\ UNCHANGED <<links, linked, files, keys, registry, day, asked, told>>
  BY DEF OfferPeering
<1>2. t \in OpenTokens /\ t.reply = FALSE /\ t.answers = 0
  BY DEF PeeringInv, PeeringTypeOK, OpenTokens
<1> HIDE DEF t
<1>3. tokens' \in SUBSET (OpenTokens \cup DialTokens) /\ RepliesAnswer'
  BY <1>1, <1>2 DEF PeeringInv, PeeringTypeOK, RepliesAnswer
<1> QED BY <1>1, <1>3, AnswersStay, LinksStay DEF PeeringInv, PeeringTypeOK, DeskTypes

LEMMA AcceptPeeringKeeps ==
  ASSUME PeeringInv, NEW s \in Servers, NEW t \in tokens, NEW typed \in TypedSecrets, NEW n \in LinkNames,
         NEW outcome \in Outcomes, AcceptPeering(s, t, typed, n, outcome)
  PROVE  PeeringInv'
<1>0. PeeringTypeOK /\ LinksAreOwn /\ RepliesAnswer
  BY DEF PeeringInv
<1> DEFINE r == [kind |-> "openbridge", on |-> TRUE, to |-> t.from, file |-> n, secret |-> t.secret]
           a == Reciprocal(s, t)
<1>1. /\ t.kind = "openbridge" /\ links[s][n] = NoLink /\ FileFree(links[s], n)
      /\ files' = [files EXCEPT ![s][n] = t.secret]
      /\ \/ outcome = "saved" /\ links' = [links EXCEPT ![s][n] = r]
         \/ outcome # "saved" /\ links' = links
      /\ UNCHANGED <<keys, registry, day>>
  BY DEF AcceptPeering, Acceptable, MayWrite, Linked, FileFree
<1>2. tokens' = tokens \/ (~t.reply /\ tokens' = tokens \cup {a})
  BY DEF AcceptPeering, Closing
<1>3. AnswersAreSo' /\ DeskTypes' /\ linked' \in [Servers -> SUBSET LinkNames]
  BY <1>1, MemoryKeeps DEF AcceptPeering
<1>4. t \in OpenTokens
  BY <1>0, <1>1 DEF PeeringTypeOK, OpenTokens, DialTokens
<1>5. r \in LinkRecords /\ r.file = n /\ r.secret = t.secret /\ t.secret \in TypedSecrets
  BY <1>4 DEF OpenTokens, LinkRecords, OpenLinks, TypedSecrets
<1>6. a.kind = "openbridge" /\ a.reply = TRUE /\ a.answers = t.answers + 1 /\ a \in OpenTokens
  <2>1. day \in Nat /\ t.from \in Servers /\ t.answers + 1 \in Nat
    BY <1>0, <1>4 DEF PeeringTypeOK, OpenTokens
  <2>2. a = [t EXCEPT !.from = s, !.to = t.from, !.reply = TRUE, !.answers = t.answers + 1, !.issued = day]
    BY DEF Reciprocal
  <2> QED BY <1>4, <2>1, <2>2 DEF OpenTokens
<1> HIDE DEF r, a
<1>7. tokens' \in SUBSET (OpenTokens \cup DialTokens) /\ RepliesAnswer'
  <2>1. ~t.reply => t.answers = 0
    BY <1>0, <1>1 DEF RepliesAnswer
  <2> QED BY <1>0, <1>2, <1>6, <2>1 DEF PeeringTypeOK, RepliesAnswer
<1>8. LinksAreOwn' /\ links' \in [Servers -> LinkTables] /\ files' \in [Servers -> FileTables]
  <2> DEFINE F == [files[s] EXCEPT ![n] = t.secret]
             T == [links[s] EXCEPT ![n] = r]
  <2>1. TableOK(links[s], F) /\ TableOK(T, F)
    BY <1>0, <1>1, <1>5, FileWritten, LinkAdded DEF LinksAreOwn
  <2>2. files' = [files EXCEPT ![s] = F] /\ (links' = links \/ links' = [links EXCEPT ![s] = T])
    BY <1>0, <1>1 DEF PeeringTypeOK
  <2> HIDE DEF F, T
  <2> QED BY <1>0, <2>1, <2>2, LinksHold
<1> QED BY <1>0, <1>1, <1>3, <1>7, <1>8 DEF PeeringInv, PeeringTypeOK, DeskTypes

LEMMA AcceptLinkKeeps ==
  ASSUME PeeringInv, NEW s \in Servers, NEW t \in tokens, NEW typed \in TypedSecrets, NEW n \in LinkNames,
         NEW outcome \in Outcomes, AcceptLink(s, t, typed, n, outcome)
  PROVE  PeeringInv'
<1>0. PeeringTypeOK /\ LinksAreOwn /\ RepliesAnswer
  BY DEF PeeringInv
<1> DEFINE r == [kind |-> "qsp", on |-> TRUE, to |-> t.from, file |-> n, id |-> t.id, secret |-> t.secret]
           k == IF outcome = "refused" THEN NoSecret ELSE t.secret
<1>1. /\ t.kind = "qsp" /\ links[s][n] = NoLink /\ FileFree(links[s], n)
      /\ files' = [files EXCEPT ![s][n] = k]
      /\ \/ outcome = "saved" /\ links' = [links EXCEPT ![s][n] = r]
         \/ links' = links
      /\ UNCHANGED <<keys, registry, tokens, day>>
  BY DEF AcceptLink, Acceptable, MayWrite, Linked, FileFree
<1>3. AnswersAreSo' /\ DeskTypes' /\ linked' \in [Servers -> SUBSET LinkNames]
  BY <1>1, MemoryKeeps DEF AcceptLink
<1>4. t \in DialTokens
  BY <1>0, <1>1 DEF PeeringTypeOK, OpenTokens, DialTokens
<1>5. /\ r \in LinkRecords /\ r.file = n /\ r.secret = t.secret /\ k \in TypedSecrets
      /\ outcome = "saved" => k = t.secret
  BY <1>4 DEF DialTokens, LinkRecords, DialledLinks, TypedSecrets
<1> HIDE DEF r, k
<1>8. LinksAreOwn' /\ links' \in [Servers -> LinkTables] /\ files' \in [Servers -> FileTables]
  <2> DEFINE F == [files[s] EXCEPT ![n] = k]
             T == [links[s] EXCEPT ![n] = r]
  <2>1. TableOK(links[s], F) /\ (outcome = "saved" => TableOK(T, F))
    BY <1>0, <1>1, <1>5, FileWritten, LinkAdded DEF LinksAreOwn
  <2>2. files' = [files EXCEPT ![s] = F] /\ (links' = links \/ (outcome = "saved" /\ links' = [links EXCEPT ![s] = T]))
    BY <1>0, <1>1 DEF PeeringTypeOK
  <2> HIDE DEF F, T
  <2> QED BY <1>0, <2>1, <2>2, LinksHold
<1>9. RepliesAnswer'
  BY <1>0, <1>1 DEF RepliesAnswer
<1> QED BY <1>0, <1>1, <1>3, <1>8, <1>9 DEF PeeringInv, PeeringTypeOK, DeskTypes

(* Adding an ID to a list that lacks it lets it in; taking it out refuses  *)
(* it; nobody else notices.                                                *)
LEMMA AllowedLets ==
  ASSUME PeeringTypeOK, NEW s \in Servers, NEW i \in LinkIDs, registry[s].mode = "deny" => Admits(s, i)
  PROVE  /\ Allowed(s, i) \in Lists /\ Lets(Allowed(s, i), i)
         /\ \A j \in LinkIDs : j # i => (Lets(Allowed(s, i), j) <=> Lets(registry[s], j))
<1>0. registry[s] \in Lists /\ (Admits(s, i) <=> Lets(registry[s], i))
  BY DEF PeeringTypeOK, Admits, Lets
<1>1. CASE Lets(registry[s], i)
  BY <1>0, <1>1 DEF Allowed
<1>2. CASE ~Lets(registry[s], i)
  <2> DEFINE l == [registry[s] EXCEPT !.ids = @ \cup {i}]
  <2>1. registry[s].mode = "permit"
    BY <1>0, <1>2 DEF Lets, Lists
  <2>2. l \in Lists /\ l.mode = "permit" /\ l.ids = registry[s].ids \cup {i}
    BY <1>0, <2>1 DEF Lists
  <2>3. Allowed(s, i) = l
    BY <1>0, <1>2 DEF Allowed
  <2> HIDE DEF l
  <2> QED BY <2>1, <2>2, <2>3 DEF Lets
<1> QED BY <1>1, <1>2

LEMMA RefusingRefuses ==
  ASSUME PeeringTypeOK, NEW s \in Servers, NEW i \in LinkIDs
  PROVE  /\ Refusing(s, i) \in Lists
         /\ Lets(Refusing(s, i), i) => registry[s].mode = "permit" /\ Refusing(s, i) = registry[s]
         /\ \A j \in LinkIDs : j # i => (Lets(Refusing(s, i), j) <=> Lets(registry[s], j))
<1>0. registry[s] \in Lists
  BY DEF PeeringTypeOK
<1>1. CASE registry[s].mode = "none"
  <2>1. Refusing(s, i) = [mode |-> "deny", ids |-> {i}]
    BY <1>1 DEF Refusing
  <2>2. Refusing(s, i) \in Lists /\ Refusing(s, i).mode = "deny" /\ Refusing(s, i).ids = {i}
    BY <2>1 DEF Lists
  <2> QED BY <1>1, <2>2 DEF Lets
<1>2. CASE registry[s].mode = "permit"
  <2> DEFINE l == [registry[s] EXCEPT !.ids = @ \ {i}]
  <2>1. Refusing(s, i) = IF registry[s].ids \ {i} = {} THEN registry[s] ELSE l
    BY <1>2 DEF Refusing
  <2>2. l \in Lists /\ l.mode = "permit" /\ l.ids = registry[s].ids \ {i}
    BY <1>0, <1>2 DEF Lists
  <2> HIDE DEF l
  <2> QED BY <1>0, <1>2, <2>1, <2>2 DEF Lets
<1>3. CASE registry[s].mode = "deny"
  <2> DEFINE l == [registry[s] EXCEPT !.ids = @ \cup {i}]
  <2>1. Refusing(s, i) = l
    BY <1>3 DEF Refusing
  <2>2. l \in Lists /\ l.mode = "deny" /\ l.ids = registry[s].ids \cup {i}
    BY <1>0, <1>3 DEF Lists
  <2> HIDE DEF l
  <2> QED BY <1>3, <2>1, <2>2 DEF Lets
<1> QED BY <1>0, <1>1, <1>2, <1>3 DEF Lists

(* A handler wrote a password: what it leaves.                             *)
LEMMA WriteKeeps ==
  ASSUME PeeringInv, NEW s \in Servers, NEW a \in Admins, NEW r \in Askings, WritePassword(s, a, r),
         r.id \in LinkIDs, asked[s][a] = NothingAsked \/ asked[s][a].id = r.id, r.says = asked[s][a].says,
         r.locked => \A b \in Admins : b # a => ~asked[s][b].locked,
         AskingOK(registry[s], [keys[s] EXCEPT ![r.id] = r.secret], r),
         UNCHANGED <<links, linked, bridged, files, registry, offers, tokens, day, told>>
  PROVE  PeeringInv'
<1> DEFINE K == [keys[s] EXCEPT ![r.id] = r.secret]
           Q == Marked(asked[s], a, r)
<1>1. DeskOK(registry[s], keys[s], asked[s], told[s])
  BY DEF PeeringInv, AnswersAreSo
<1>2. DeskOK(registry[s], K, Q, told[s])
  BY <1>1, PasswordWritten
<1>3. keys' = [keys EXCEPT ![s] = K] /\ asked' = [asked EXCEPT ![s] = Q]
  BY DEF WritePassword, Marked, PeeringInv, PeeringTypeOK
<1> HIDE DEF K, Q
<1>4. AnswersAreSo' /\ DeskTypes'
  BY <1>2, <1>3, AnswersHold
<1> QED BY <1>4, LinksStay DEF PeeringInv, PeeringTypeOK, DeskTypes, RepliesAnswer

LEMMA OfferLinkKeeps ==
  ASSUME PeeringInv, NEW s \in Servers, NEW a \in Admins, NEW i \in LinkIDs, NEW k \in Secrets,
         OfferLink(s, a, i, k)
  PROVE  PeeringInv'
<1> DEFINE r == Request("save", i, k, "nothing", TRUE)
<1>1. /\ r \in Askings /\ r.at = "save" /\ r.id = i /\ r.secret = k /\ r.says = "nothing"
      /\ r.locked = TRUE /\ r.stale = FALSE
  BY DEF Request, Askings, TypedSecrets, Sayings
<1>2. /\ WritePassword(s, a, r) /\ asked[s][a] = NothingAsked /\ Unlocked(s)
      /\ registry[s].mode = "deny" => Admits(s, i)
      /\ UNCHANGED <<links, linked, bridged, files, registry, offers, tokens, day, told>>
  BY DEF OfferLink
<1> HIDE DEF r
<1>3. Admits(s, i) <=> Lets(registry[s], i)
  BY DEF Admits, Lets
<1>4. [keys[s] EXCEPT ![i] = k][i] = k
  BY DEF PeeringInv, PeeringTypeOK
<1>5. AskingOK(registry[s], [keys[s] EXCEPT ![r.id] = r.secret], r)
  BY <1>1, <1>2, <1>3, <1>4, PeeringAssumption DEF AskingOK
<1> QED BY <1>1, <1>2, <1>5, NobodyAsks, WriteKeeps DEF Unlocked

LEMMA CredentialKeeps ==
  ASSUME PeeringInv, NEW s \in Servers, NEW a \in Admins, NEW i \in LinkIDs,
         RevokeCredential(s, a, i) \/ \E k \in Secrets : IssueCredential(s, a, i, k)
  PROVE  PeeringInv'
<1>1. PICK k \in TypedSecrets :
        /\ WritePassword(s, a, Request("answer", i, k, "nothing", FALSE)) /\ asked[s][a] = NothingAsked
        /\ UNCHANGED <<links, linked, bridged, files, registry, offers, tokens, day, told>>
  BY DEF RevokeCredential, IssueCredential, TypedSecrets
<1> DEFINE r == Request("answer", i, k, "nothing", FALSE)
<1>2. /\ r \in Askings /\ r.at = "answer" /\ r.id = i /\ r.secret = k /\ r.says = "nothing"
      /\ r.locked = FALSE /\ r.stale = FALSE
  BY DEF Request, Askings, Sayings
<1>3. WritePassword(s, a, r)
  BY <1>1
<1> HIDE DEF r
<1>4. [keys[s] EXCEPT ![i] = k][i] = k
  BY DEF PeeringInv, PeeringTypeOK
<1>5. AskingOK(registry[s], [keys[s] EXCEPT ![r.id] = r.secret], r)
  BY <1>2, <1>4, PeeringAssumption DEF AskingOK
<1> QED BY <1>1, <1>2, <1>3, <1>5, NobodyAsks, WriteKeeps

LEMMA RevokePeerPasswordKeeps ==
  ASSUME PeeringInv, NEW s \in Servers, NEW a \in Admins, RevokePeerPassword(s, a)
  PROVE  PeeringInv'
<1> DEFINE q == asked[s][a]
           r == Request("answer", q.id, NoSecret, q.says, TRUE)
<1>0. DeskOK(registry[s], keys[s], asked[s], told[s])
  BY DEF PeeringInv, AnswersAreSo
<1>1. q \in Askings /\ AskingOK(registry[s], keys[s], q) /\ q.at = "remove" /\ WritePassword(s, a, r)
  BY <1>0 DEF DeskOK, RevokePeerPassword
<1>2. UNCHANGED <<links, linked, bridged, files, registry, offers, tokens, day, told>>
  BY DEF RevokePeerPassword
<1>3. q.id \in LinkIDs /\ q.says \in Sayings /\ q.locked
  BY <1>1 DEF AskingOK, Askings
<1>4. \A b \in Admins : b # a => ~asked[s][b].locked
  BY <1>0, <1>3 DEF DeskOK
<1>5. /\ r \in Askings /\ r.at = "answer" /\ r.id = q.id /\ r.secret = NoSecret /\ r.says = q.says
      /\ r.locked = TRUE /\ r.stale = FALSE
  BY <1>3 DEF Request, Askings, TypedSecrets
<1> HIDE DEF q, r
<1>6. [keys[s] EXCEPT ![q.id] = NoSecret][q.id] = NoSecret
  BY <1>3 DEF PeeringInv, PeeringTypeOK
<1>7. q.says # "admitted"
  BY <1>1 DEF AskingOK
<1>8. AskingOK(registry[s], [keys[s] EXCEPT ![r.id] = r.secret], r)
  BY <1>1, <1>3, <1>5, <1>6, <1>7, PeeringAssumption DEF AskingOK
<1>9. r.says = asked[s][a].says /\ asked[s][a].id = r.id
  BY <1>5 DEF q
<1> QED BY <1>1, <1>2, <1>3, <1>4, <1>5, <1>8, <1>9, WriteKeeps

LEMMA SaveOfferKeeps ==
  ASSUME PeeringInv, NEW s \in Servers, NEW a \in Admins, NEW outcome, SaveOffer(s, a, outcome)
  PROVE  PeeringInv'
<1> DEFINE q == asked[s][a]
<1>0. DeskOK(registry[s], keys[s], asked[s], told[s])
  BY DEF PeeringInv, AnswersAreSo
<1>1. q \in Askings /\ AskingOK(registry[s], keys[s], q) /\ q.at = "save"
  BY <1>0 DEF DeskOK, SaveOffer
<1>2. q.id \in LinkIDs /\ q.says = "nothing" /\ q.locked /\ q.secret \in Secrets
  BY <1>1 DEF AskingOK, Askings
<1>3. \A b \in Admins : b # a => ~asked[s][b].locked
  BY <1>0, <1>2 DEF DeskOK
<1>4. CASE outcome = "saved"
  <2> DEFINE r == [q EXCEPT !.at = "answer", !.says = "admitted"]
             l == Allowed(s, q.id)
  <2>1. /\ registry' = [registry EXCEPT ![s] = l] /\ asked' = [asked EXCEPT ![s] = [asked[s] EXCEPT ![a] = r]]
        /\ UNCHANGED <<links, linked, files, keys, tokens, day, told>>
    BY <1>4 DEF SaveOffer
  <2>2. /\ r \in Askings /\ r.at = "answer" /\ r.id = q.id /\ r.secret = q.secret /\ r.says = "admitted"
        /\ r.locked = q.locked /\ r.stale = q.stale
    BY <1>1 DEF Askings, Sayings
  <2>3. registry[s].mode = "deny" => Admits(s, q.id)
    BY <1>1 DEF AskingOK, Admits, Lets
  <2>4. /\ l \in Lists /\ Lets(l, q.id)
        /\ \A j \in LinkIDs : j # q.id => (Lets(l, j) <=> Lets(registry[s], j))
    BY <1>2, <2>3, AllowedLets DEF PeeringInv
  <2> HIDE DEF l, r
  <2>5. AskingOK(l, keys[s], r)
    BY <1>1, <1>2, <2>2, <2>4, PeeringAssumption DEF AskingOK
  <2>6. DeskOK(l, keys[s], [asked[s] EXCEPT ![a] = r], told[s])
    <3>1. asked[s][a].id = r.id /\ r.id \in LinkIDs /\ r.locked /\ r.says # "nothing"
      BY <1>2, <2>2
    <3> QED BY <1>0, <1>3, <2>2, <2>4, <2>5, <3>1, ListChanged
  <2>7. AnswersAreSo' /\ DeskTypes'
    BY <2>1, <2>6, AnswersHold
  <2> QED BY <2>1, <2>7, LinksStay DEF PeeringInv, PeeringTypeOK, DeskTypes, RepliesAnswer
<1>5. CASE outcome = "refused"
  <2> DEFINE r == Request("answer", q.id, NoSecret, "nothing", TRUE)
  <2>1. /\ r \in Askings /\ r.at = "answer" /\ r.id = q.id /\ r.secret = NoSecret /\ r.says = "nothing"
        /\ r.locked = TRUE /\ r.stale = FALSE
    BY <1>2 DEF Request, Askings, TypedSecrets, Sayings
  <2>2. /\ WritePassword(s, a, r)
        /\ UNCHANGED <<links, linked, bridged, files, registry, offers, tokens, day, told>>
    BY <1>5 DEF SaveOffer
  <2> HIDE DEF r
  <2>3. [keys[s] EXCEPT ![q.id] = NoSecret][q.id] = NoSecret
    BY <1>2 DEF PeeringInv, PeeringTypeOK
  <2>4. AskingOK(registry[s], [keys[s] EXCEPT ![r.id] = r.secret], r)
    BY <1>2, <2>1, <2>3, PeeringAssumption DEF AskingOK
  <2>5. r.says = asked[s][a].says /\ asked[s][a].id = r.id /\ r.id \in LinkIDs
    BY <1>2, <2>1
  <2> QED BY <1>3, <2>1, <2>2, <2>4, <2>5, WriteKeeps
<1> QED BY <1>4, <1>5 DEF SaveOffer

LEMMA RefuseInboundKeeps ==
  ASSUME PeeringInv, NEW s \in Servers, NEW a \in Admins, NEW i \in LinkIDs, RefuseInbound(s, a, i)
  PROVE  PeeringInv'
<1> DEFINE l == Refusing(s, i)
           refused == registry[s].mode # "permit" \/ l # registry[s]
           says == IF refused THEN "refused" ELSE "nothing"
           r == Request("remove", i, NoSecret, says, TRUE)
<1>0. DeskOK(registry[s], keys[s], asked[s], told[s])
  BY DEF PeeringInv, AnswersAreSo
<1>1. /\ registry' = [registry EXCEPT ![s] = l] /\ asked' = [asked EXCEPT ![s] = [asked[s] EXCEPT ![a] = r]]
      /\ asked[s][a] = NothingAsked /\ \A b \in Admins : ~asked[s][b].locked
      /\ UNCHANGED <<links, linked, files, keys, tokens, day, told>>
  BY DEF RefuseInbound, Unlocked
<1>2. /\ r \in Askings /\ r.at = "remove" /\ r.id = i /\ r.says = says /\ r.locked = TRUE /\ r.stale = FALSE
  BY DEF Request, Askings, TypedSecrets, Sayings
<1>3. /\ l \in Lists /\ (Lets(l, i) => ~refused)
      /\ \A j \in LinkIDs : j # i => (Lets(l, j) <=> Lets(registry[s], j))
  BY RefusingRefuses DEF PeeringInv
<1>4. says \in {"refused", "nothing"} /\ (says = "refused" => ~Lets(l, i)) /\ (says = "nothing" => l = registry[s])
  BY <1>3
<1> HIDE DEF l, refused, says, r
<1>5. AskingOK(l, keys[s], r)
  BY <1>2, <1>4, PeeringAssumption DEF AskingOK
<1>6. DeskOK(l, keys[s], [asked[s] EXCEPT ![a] = r], told[s])
  <2>1. r.id \in LinkIDs /\ r.locked /\ (r.says # "nothing" \/ (l = registry[s] /\ asked[s][a].says = "nothing"))
    BY <1>1, <1>2, <1>4, NobodyAsks
  <2>2. \A j \in LinkIDs : j # r.id => (Lets(l, j) <=> Lets(registry[s], j))
    BY <1>2, <1>3
  <2> QED BY <1>0, <1>1, <1>2, <1>3, <1>5, <2>1, <2>2, ListChanged
<1>7. AnswersAreSo' /\ DeskTypes'
  BY <1>1, <1>6, AnswersHold
<1> QED BY <1>1, <1>7, LinksStay DEF PeeringInv, PeeringTypeOK, DeskTypes, RepliesAnswer

LEMMA AnswerKeeps ==
  ASSUME PeeringInv, NEW s \in Servers, NEW a \in Admins, NEW to \in Servers, Answer(s, a, to)
  PROVE  PeeringInv'
<1> DEFINE q == asked[s][a]
           t == [kind |-> "qsp", from |-> s, to |-> to, secret |-> q.secret, id |-> q.id, issued |-> day]
           w == [list |-> IF q.says = "nothing" THEN told[s][q.id].list ELSE q.says,
                 key |-> IF q.stale THEN TypedSecrets ELSE {q.secret}]
<1>0. PeeringTypeOK /\ RepliesAnswer /\ DeskOK(registry[s], keys[s], asked[s], told[s])
  BY DEF PeeringInv, AnswersAreSo
<1>1. q \in Askings /\ AskingOK(registry[s], keys[s], q) /\ q.at = "answer"
  BY <1>0 DEF DeskOK, Answer
<1>2. q.id \in LinkIDs /\ told[s][q.id] \in Answers
  BY <1>0, <1>1 DEF AskingOK, Askings, DeskOK
<1>3. /\ w \in Answers
      /\ w.list = (IF q.says = "nothing" THEN told[s][q.id].list ELSE q.says)
      /\ w.key = (IF q.stale THEN TypedSecrets ELSE {q.secret})
  BY <1>1, <1>2 DEF Answers, Askings
<1>4. /\ told' = [told EXCEPT ![s] = [told[s] EXCEPT ![q.id] = w]]
      /\ asked' = [asked EXCEPT ![s] = [asked[s] EXCEPT ![a] = NothingAsked]]
      /\ tokens' = tokens \/ (q.says = "admitted" /\ tokens' = tokens \cup {t})
      /\ UNCHANGED <<links, linked, files, keys, registry, day>>
  BY DEF Answer
<1>5. q.says = "admitted" => t \in DialTokens /\ t.kind = "qsp"
  BY <1>0, <1>1, <1>2 DEF DialTokens, PeeringTypeOK, AskingOK
<1> HIDE DEF t, w
<1>6. DeskOK(registry[s], keys[s], [asked[s] EXCEPT ![a] = NothingAsked], [told[s] EXCEPT ![q.id] = w])
  BY <1>0, <1>1, <1>3, RequestAnswered
<1>7. AnswersAreSo' /\ DeskTypes'
  BY <1>4, <1>6, AnswersHold
<1>8. tokens' \in SUBSET (OpenTokens \cup DialTokens) /\ RepliesAnswer'
  BY <1>0, <1>4, <1>5 DEF PeeringTypeOK, RepliesAnswer
<1> QED BY <1>0, <1>4, <1>7, <1>8, LinksStay DEF PeeringInv, PeeringTypeOK, DeskTypes

LEMMA EditKeeps ==
  ASSUME PeeringInv, NEW s \in Servers, NEW n \in LinkNames,
         Toggle(s, n) \/ \E to \in Servers : LinkAddress(s, n, to)
  PROVE  PeeringInv'
<1>0. PeeringTypeOK /\ LinksAreOwn /\ RepliesAnswer
  BY DEF PeeringInv
<1>1. /\ UNCHANGED <<linked, files, keys, registry, tokens, day, asked, told>> /\ links[s][n] # NoLink
      /\ \/ links' = [links EXCEPT ![s][n].on = ~@]
         \/ \E to \in Servers : links' = [links EXCEPT ![s][n].to = to]
  BY DEF Toggle, LinkAddress, Linked
<1> DEFINE o == links[s][n]
<1>2. o \in LinkRecords
  BY <1>0, <1>1 DEF PeeringTypeOK, LinkTables
<1>3. \E r \in LinkRecords : /\ links' = [links EXCEPT ![s] = [links[s] EXCEPT ![n] = r]]
                             /\ r.file = o.file /\ r.secret = o.secret
  <2>1. CASE links' = [links EXCEPT ![s][n].on = ~@]
    <3> DEFINE r == [o EXCEPT !.on = ~o.on]
    <3>1. r \in LinkRecords /\ r.file = o.file /\ r.secret = o.secret
      <4>1. CASE o \in OpenLinks
        BY <4>1 DEF LinkRecords, OpenLinks
      <4>2. CASE o \in DialledLinks
        BY <4>2 DEF LinkRecords, DialledLinks
      <4> QED BY <1>2, <4>1, <4>2 DEF LinkRecords
    <3>2. links' = [links EXCEPT ![s] = [links[s] EXCEPT ![n] = r]]
      BY <2>1
    <3> QED BY <3>1, <3>2
  <2>2. CASE \E to \in Servers : links' = [links EXCEPT ![s][n].to = to]
    <3>0. PICK to \in Servers : links' = [links EXCEPT ![s][n].to = to]
      BY <2>2
    <3> DEFINE r == [o EXCEPT !.to = to]
    <3>1. r \in LinkRecords /\ r.file = o.file /\ r.secret = o.secret
      <4>1. CASE o \in OpenLinks
        BY <4>1 DEF LinkRecords, OpenLinks
      <4>2. CASE o \in DialledLinks
        BY <4>2 DEF LinkRecords, DialledLinks
      <4> QED BY <1>2, <4>1, <4>2 DEF LinkRecords
    <3>2. links' = [links EXCEPT ![s] = [links[s] EXCEPT ![n] = r]]
      BY <3>0
    <3> QED BY <3>1, <3>2
  <2> QED BY <1>1, <2>1, <2>2
<1>4. PICK r \in LinkRecords : /\ links' = [links EXCEPT ![s] = [links[s] EXCEPT ![n] = r]]
                               /\ r.file = o.file /\ r.secret = o.secret
  BY <1>3
<1>5. TableOK([links[s] EXCEPT ![n] = r], files[s])
  BY <1>0, <1>1, <1>4, LinkEdited DEF LinksAreOwn
<1>6. LinksAreOwn' /\ links' \in [Servers -> LinkTables] /\ files' \in [Servers -> FileTables]
  BY <1>0, <1>1, <1>4, <1>5, LinksHold
<1>7. RepliesAnswer'
  BY <1>0, <1>1 DEF RepliesAnswer
<1> QED BY <1>0, <1>1, <1>6, <1>7, AnswersStay DEF PeeringInv, PeeringTypeOK, DeskTypes

LEMMA RemoveKeeps ==
  ASSUME PeeringInv, NEW s \in Servers, NEW n \in LinkNames, NEW outcome \in Outcomes, RemoveLink(s, n, outcome)
  PROVE  PeeringInv'
<1>0. PeeringTypeOK /\ LinksAreOwn /\ RepliesAnswer
  BY DEF PeeringInv
<1> DEFINE f == links[s][n].file
           T == [links[s] EXCEPT ![n] = NoLink]
           F == [files[s] EXCEPT ![f] = NoSecret]
<1>1. /\ UNCHANGED <<keys, registry, tokens, day>> /\ links[s][n] # NoLink
      /\ \/ links' = links /\ files' = files
         \/ links' = [links EXCEPT ![s] = T] /\ (files' = files \/ files' = [files EXCEPT ![s] = F])
  BY DEF RemoveLink, Linked
<1>2. AnswersAreSo' /\ DeskTypes' /\ linked' \in [Servers -> SUBSET LinkNames]
  BY <1>1, MemoryKeeps DEF RemoveLink
<1>3. TableOK(links[s], files[s]) /\ TableOK(T, files[s]) /\ TableOK(T, F)
  BY <1>0, <1>1, LinkGone DEF LinksAreOwn
<1> HIDE DEF T, F
<1>4. LinksAreOwn' /\ links' \in [Servers -> LinkTables] /\ files' \in [Servers -> FileTables]
  <2>1. CASE links' = links /\ files' = files
    BY <2>1, LinksStay
  <2>2. CASE links' = [links EXCEPT ![s] = T] /\ files' = files
    BY <1>0, <1>3, <2>2, LinksHold
  <2>3. CASE links' = [links EXCEPT ![s] = T] /\ files' = [files EXCEPT ![s] = F]
    BY <1>0, <1>3, <2>3, LinksHold
  <2> QED BY <1>1, <2>1, <2>2, <2>3
<1>5. RepliesAnswer'
  BY <1>0, <1>1 DEF RepliesAnswer
<1> QED BY <1>0, <1>1, <1>2, <1>4, <1>5 DEF PeeringInv, PeeringTypeOK, DeskTypes

LEMMA RenameKeeps ==
  ASSUME PeeringInv, NEW s \in Servers, NEW n \in LinkNames, NEW m \in LinkNames, Rename(s, n, m)
  PROVE  PeeringInv'
<1>0. PeeringTypeOK /\ LinksAreOwn /\ RepliesAnswer
  BY DEF PeeringInv
<1> DEFINE T == [links[s] EXCEPT ![m] = links[s][n], ![n] = NoLink]
<1>1. /\ UNCHANGED <<linked, files, keys, registry, tokens, day, asked, told>>
      /\ links[s][n] # NoLink /\ links[s][m] = NoLink /\ links' = [links EXCEPT ![s] = T]
  BY DEF Rename, Linked
<1>2. TableOK(T, files[s])
  BY <1>0, <1>1, LinkRenamed DEF LinksAreOwn
<1> HIDE DEF T
<1>3. LinksAreOwn' /\ links' \in [Servers -> LinkTables] /\ files' \in [Servers -> FileTables]
  BY <1>0, <1>1, <1>2, LinksHold
<1>4. RepliesAnswer'
  BY <1>0, <1>1 DEF RepliesAnswer
<1> QED BY <1>0, <1>1, <1>3, <1>4, AnswersStay DEF PeeringInv, PeeringTypeOK, DeskTypes

LEMMA PeeringRest ==
  ASSUME PeeringInv, DayPasses \/ (\E s \in Servers : ServerRestarts(s)) \/ UNCHANGED peeringVars
  PROVE  PeeringInv'
<1>0. PeeringTypeOK /\ LinksAreOwn /\ RepliesAnswer
  BY DEF PeeringInv
<1>1. UNCHANGED <<links, files, keys, registry, tokens>> /\ day' \in Nat
  BY <1>0 DEF DayPasses, ServerRestarts, peeringVars, PeeringTypeOK
<1>2. AnswersAreSo' /\ DeskTypes' /\ linked' \in [Servers -> SUBSET LinkNames]
  <2>1. CASE \E s \in Servers : ServerRestarts(s)
    BY <1>1, <2>1, RestartedKeeps DEF ServerRestarts
  <2>2. CASE DayPasses \/ UNCHANGED peeringVars
    BY <1>0, <2>2, AnswersStay DEF DayPasses, peeringVars, PeeringTypeOK
  <2> QED BY <2>1, <2>2
<1>3. RepliesAnswer'
  BY <1>0, <1>1 DEF RepliesAnswer
<1> QED BY <1>0, <1>1, <1>2, <1>3, LinksStay DEF PeeringInv, PeeringTypeOK, DeskTypes

LEMMA PeeringStep == PeeringInv /\ [PeeringNext]_peeringVars => PeeringInv'
<1> SUFFICES ASSUME PeeringInv, [PeeringNext]_peeringVars PROVE PeeringInv'
  OBVIOUS
<1>1. CASE Exchanging
  BY <1>1, OfferPeeringKeeps, AcceptPeeringKeeps DEF Exchanging
<1>2. CASE Dialling
  BY <1>2, OfferLinkKeeps, EditKeeps, AcceptLinkKeeps, RefuseInboundKeeps, CredentialKeeps,
     SaveOfferKeeps, RevokePeerPasswordKeeps, AnswerKeeps DEF Dialling
<1>3. CASE Keeping
  BY <1>3, RemoveKeeps, RenameKeeps, EditKeeps, PeeringRest DEF Keeping
<1>4. CASE UNCHANGED peeringVars
  BY <1>4, PeeringRest
<1> QED BY <1>1, <1>2, <1>3, <1>4 DEF PeeringNext

LEMMA PeeringInvariant == PeeringSpec => []PeeringInv
<1>1. PeeringInit => PeeringInv
  BY PeeringInitInv
<1>2. PeeringInv /\ [PeeringNext]_peeringVars => PeeringInv'
  BY PeeringStep
<1> QED BY <1>1, <1>2, PTL DEF PeeringSpec

(* Both ends of an agreement hold what they agreed on and what was said of *)
(* an ID is so, whatever is accepted, removed, renamed or refused beside   *)
(* it, wherever a save fails or a server dies and in whatever order the    *)
(* requests of several administrators write the ID's password; and no      *)
(* answer is ever answered (writePassphrase, handleRemoveLink,             *)
(* closingOurOffer, handleOfferLink, handleRefuseInbound, the credentials).*)
(* For any servers, administrators, links and secrets, with links of both  *)
(* kinds at once.                                                          *)
THEOREM AgreementsAlwaysHold == PeeringSpec => []AgreementsHold
<1>1. PeeringInv => AgreementsHold
  BY PeeringInvImplies
<1> QED BY <1>1, PeeringInvariant, PTL

(* What one step does to the links a server has open is what the Links     *)
(* page said.                                                               *)
AsThePageSaid(s) ==
  linked'[s] # linked[s] =>
    \A n \in LinkNames :
      LET shown == LinkPending(links'[s], linked[s], n) IN
      /\ n \in linked'[s] \ linked[s] <=> shown = "opens"
      /\ shown = "closes" => n \notin linked'[s]
      /\ n \in linked[s] \ linked'[s] =>
           shown = "closes" \/ (links'[s][n] # NoLink /\ ~links'[s][n].on)

LEMMA OpenedAsSaid ==
  ASSUME NEW s \in Servers, linked'[s] = Opened(links'[s])
  PROVE  AsThePageSaid(s)
<1> SUFFICES ASSUME NEW n \in LinkNames
    PROVE LET shown == LinkPending(links'[s], linked[s], n) IN
      /\ n \in linked'[s] \ linked[s] <=> shown = "opens"
      /\ shown = "closes" => n \notin linked'[s]
      /\ n \in linked[s] \ linked'[s] =>
           shown = "closes" \/ (links'[s][n] # NoLink /\ ~links'[s][n].on)
  BY DEF AsThePageSaid
<1>1. n \in linked'[s] <=> links'[s][n] # NoLink /\ links'[s][n].on
  BY DEF Opened
<1> DEFINE shown == LinkPending(links'[s], linked[s], n)
<1>2. /\ shown = "closes" <=> n \in linked[s] /\ links'[s][n] = NoLink
      /\ shown = "opens" <=> n \notin linked[s] /\ n \in Opened(links'[s])
  BY DEF LinkPending
<1> HIDE DEF shown
<1>3. /\ n \in linked'[s] \ linked[s] <=> shown = "opens"
      /\ shown = "closes" => n \notin linked'[s]
      /\ n \in linked[s] \ linked'[s] =>
           shown = "closes" \/ (links'[s][n] # NoLink /\ ~links'[s][n].on)
  BY <1>1, <1>2
<1> QED BY <1>3 DEF shown

LEMMA RestartStep ==
  ASSUME PeeringInv, PeeringNext, NEW s \in Servers
  PROVE  AsThePageSaid(s)
<1>0. linked \in [Servers -> SUBSET LinkNames]
  BY DEF PeeringInv, PeeringTypeOK
<1>1. CASE linked'[s] = linked[s]
  BY <1>1 DEF AsThePageSaid
<1>2. ASSUME NEW o \in Servers, NEW outcome, NEW kept, Memory(o, outcome, kept) PROVE AsThePageSaid(s)
  <2>1. linked'[s] = linked[s] \/ linked'[s] = Opened(links'[s])
    BY <1>0, <1>2 DEF Memory, Restarted
  <2> QED BY <1>1, <2>1, OpenedAsSaid
<1>3. CASE Exchanging
  <2>1. ASSUME NEW o \in Servers, NEW t, NEW typed, NEW n, NEW outcome, AcceptPeering(o, t, typed, n, outcome)
        PROVE  AsThePageSaid(s)
    <3>1. \E kept : Memory(o, outcome, kept)
      BY <2>1 DEF AcceptPeering
    <3> QED BY <1>2, <3>1
  <2>2. ASSUME NEW o, NEW to, NEW k, NEW encodes, OfferPeering(o, to, k, encodes) PROVE AsThePageSaid(s)
    BY <1>1, <2>2 DEF OfferPeering
  <2> QED BY <1>3, <2>1, <2>2 DEF Exchanging
<1>4. CASE Dialling
  <2>1. ASSUME NEW o \in Servers, NEW t, NEW typed, NEW n, NEW outcome, AcceptLink(o, t, typed, n, outcome)
        PROVE  AsThePageSaid(s)
    BY <1>2, <2>1 DEF AcceptLink
  <2>2. ASSUME NEW o, NEW a, NEW i, NEW k, OfferLink(o, a, i, k) \/ IssueCredential(o, a, i, k) PROVE linked' = linked
    BY <2>2 DEF OfferLink, IssueCredential
  <2>3. ASSUME NEW o, NEW a, NEW i, RefuseInbound(o, a, i) \/ RevokeCredential(o, a, i) PROVE linked' = linked
    BY <2>3 DEF RefuseInbound, RevokeCredential
  <2>4. ASSUME NEW o, NEW a, NEW x, SaveOffer(o, a, x) \/ RevokePeerPassword(o, a) \/ Answer(o, a, x) PROVE linked' = linked
    BY <2>4 DEF SaveOffer, RevokePeerPassword, Answer
  <2>5. ASSUME NEW o, NEW n, NEW to, LinkAddress(o, n, to) PROVE linked' = linked
    BY <2>5 DEF LinkAddress
  <2> QED BY <1>1, <1>4, <2>1, <2>2, <2>3, <2>4, <2>5 DEF Dialling
<1>5. CASE Keeping
  <2>1. ASSUME NEW o \in Servers, ServerRestarts(o) PROVE AsThePageSaid(s)
    <3>1. linked'[s] = linked[s] \/ linked'[s] = Opened(links'[s])
      BY <1>0, <2>1 DEF ServerRestarts, Restarted
    <3> QED BY <1>1, <3>1, OpenedAsSaid
  <2> QED BY <1>1, <1>2, <1>5, <2>1 DEF Keeping, RemoveLink, Rename, Toggle, DayPasses
<1> QED BY <1>3, <1>4, <1>5 DEF PeeringNext

(* A restart, or a crash in a handler, does to the links what the Links    *)
(* page said it would, but for a link that is open and was turned off      *)
(* (reconcileLinks).                                                       *)
THEOREM RestartsDoAsTold == PeeringSpec => RestartDoesAsTold
<1> DEFINE A == \A s \in Servers : AsThePageSaid(s)
<1>1. PeeringInv /\ [PeeringNext]_peeringVars => [A]_peeringVars
  BY RestartStep
<1>2. A => \A s \in Servers : linked'[s] # linked[s] =>
       \A n \in LinkNames :
         LET shown == LinkPending(links'[s], linked[s], n) IN
         /\ n \in linked'[s] \ linked[s] <=> shown = "opens"
         /\ shown = "closes" => n \notin linked'[s]
         /\ n \in linked[s] \ linked'[s] =>
              shown = "closes" \/ (links'[s][n] # NoLink /\ ~links'[s][n].on)
  BY DEF AsThePageSaid
<1> HIDE DEF A
<1> QED BY <1>1, <1>2, PeeringInvariant, PTL DEF PeeringSpec, RestartDoesAsTold


(***************************************************************************)
(* Accounts                                                                *)
(***************************************************************************)
AccountsNext == SigningIn \/ Administering \/ Ageing
AccountsSpec == AccountsInit /\ [][AccountsNext]_accountVars

Accts == [id : 1..MaxIds, pw : Passwords, weak : BOOLEAN, locked : Nat]
SessionRecords == [id : 1..MaxIds, pw : Passwords, expires : Nat, excused : BOOLEAN]
SourceEntries == [failures : Nat, first : Nat, last : Nat, until : Nat, marked : Nat]
SignIns == [op : {"signin"}, pc : {"verify", "locked out", "mark", "record", "upgrade", "open"},
            name : Usernames, acct : {Nobody} \cup Accts, raced : BOOLEAN, source : Sources,
            pw : Passwords, at : Nat, until : Nat]
PasswordChanges == [op : {"change"}, pc : {"verify", "locked out", "set"}, name : Usernames,
                    acct : {Nobody} \cup Accts, source : Sources, pw : Passwords, at : Nat,
                    to : Passwords, keep : Tokens]
PasswordResets == [op : {"reset"}, pc : {"set"}, name : Usernames, acct : {Nobody} \cup Accts,
                   to : Passwords, keep : Tokens \cup {Nobody}]
Removals == [op : {"remove"}, pc : {"delete"}, name : Usernames]
Creations == [op : {"create"}, pc : {"insert"}, name : Usernames, to : Passwords,
              by : {"administrator", "adduser", "setup"}]
Unlockings == [op : {"unlock"}, pc : {"clear"}, name : Usernames, acct : {Nobody} \cup Accts]
AllRequests == SignIns \cup PasswordChanges \cup PasswordResets \cup Removals \cup Creations
               \cup Unlockings \cup {NoRequest}

AccountsTypeOK ==
  /\ users \in [Usernames -> {Nobody} \cup Accts]
  /\ sessions \in [Tokens -> {Nobody} \cup SessionRecords]
  /\ sources \in [Sources -> {Nobody} \cup SourceEntries]
  /\ req \in [Requests -> AllRequests]
  /\ clock \in Nat /\ ids \in 0..MaxIds
  /\ passed \in [1..MaxIds -> Passwords \cup {Nobody}]
  /\ wrong \in [Sources -> Nat]

(* Under the passwords P set last, with the ids U whose old password was   *)
(* put back and the ids 1..N given: what is known of an account, a session *)
(* and a request.                                                          *)
Current(id, pw, P, U) == pw = P[id] \/ id \in U
UserOK(u, P, U, N) == u # Nobody => u.id <= N /\ Current(u.id, u.pw, P, U)
SessionOK(x, P, U, N) == x # Nobody => x.id <= N /\ (Current(x.id, x.pw, P, U) \/ x.excused)
RequestOK(q, P, U, N) ==
  /\ q.op = "signin" =>
       /\ q.acct # Nobody => q.acct.id <= N /\ (Current(q.acct.id, q.acct.pw, P, U) \/ q.raced)
       /\ q.pc \in {"record", "upgrade", "open"} => q.acct # Nobody /\ q.acct.pw = q.pw
       /\ q.pc = "mark" => q.acct # Nobody
  /\ q.op \in {"change", "reset", "unlock"} => q.acct # Nobody /\ q.acct.id <= N

PasswordsAreKnown ==
  /\ \A n \in Usernames : UserOK(users[n], passed, undone, ids)
  /\ \A t \in Tokens : SessionOK(sessions[t], passed, undone, ids)
  /\ \A r \in Requests : RequestOK(req[r], passed, undone, ids)

(* An entry of the throttle, of a source that has sent w wrong passwords.  *)
TallyOK(e, w) ==
  e # Nobody => e.failures <= w /\ (e.until # 0 <=> e.failures >= SignInFailures)
IsPending(q, s) == q.op \in {"signin", "change"} /\ q.pc = "verify" /\ q.source = s
TurnedAwayOK(q, W) ==
  q.op \in {"signin", "change"} /\ q.pc = "locked out" => W[q.source] >= SignInFailures

(* The passwords of a source that are still to be checked.                 *)
Pending(s) == {r \in Requests : IsPending(req[r], s)}

(* What is held against a source is no more than it did itself.            *)
FailuresAreOwn ==
  /\ \A s \in Sources : TallyOK(sources[s], wrong[s])
  /\ \A r \in Requests : TurnedAwayOK(req[r], wrong)

(* Once a source has reached its limit, only what was pending is checked.  *)
GuessesLeft ==
  \A s \in Sources : sources[s] # Nobody /\ sources[s].failures >= SignInFailures =>
    sources[s].failures + Cardinality(Pending(s)) < SignInFailures + Cardinality(Requests)

AccountsInv == AccountsTypeOK /\ PasswordsAreKnown /\ FailuresAreOwn /\ GuessesLeft


LEMMA AccountsInvImplies == AccountsInv => SignInIsGuarded /\ OldPasswordSignedOut
<1> SUFFICES ASSUME AccountsInv PROVE SignInIsGuarded /\ OldPasswordSignedOut
  OBVIOUS
<1>1. LockoutIsOwn
  BY DEF AccountsInv, FailuresAreOwn, TurnedAwayOK, LockoutIsOwn
<1>2. ASSUME NEW s \in Suspects PROVE sources[s].failures < SignInFailures + Cardinality(Requests)
  <2>1. s \in Sources /\ sources[s] # Nobody
    BY <1>2 DEF Suspects, Unsuspected
  <2>2. sources[s].failures \in Nat
    BY <2>1 DEF AccountsInv, AccountsTypeOK, SourceEntries
  <2>3. IsFiniteSet(Requests) /\ IsFiniteSet(Pending(s)) /\ SignInFailures \in Nat
    BY AccountsAssumption, FS_Subset DEF AccountsAssumption, Pending
  <2>4. Cardinality(Pending(s)) \in Nat /\ Cardinality(Requests) \in Nat
    BY <2>3, FS_CardinalityType
  <2>5. Requests # {} => Cardinality(Requests) # 0
    BY <2>3, FS_EmptySet
  <2>6. CASE sources[s].failures >= SignInFailures
    <3>1. sources[s].failures + Cardinality(Pending(s)) < SignInFailures + Cardinality(Requests)
      BY <2>1, <2>6 DEF AccountsInv, GuessesLeft
    <3> QED BY <2>2, <2>3, <2>4, <3>1
  <2>7. CASE ~(sources[s].failures >= SignInFailures)
    BY <2>2, <2>3, <2>4, <2>7
  <2> QED BY <2>6, <2>7
<1>3. OldPasswordSignedOut
  BY DEF AccountsInv, PasswordsAreKnown, SessionOK, Current, OldPasswordSignedOut
<1> QED BY <1>1, <1>2, <1>3 DEF SignInIsGuarded, GuessesBounded

LEMMA AccountsInitInv == AccountsInit => AccountsInv
<1> SUFFICES ASSUME AccountsInit PROVE AccountsInv
  OBVIOUS
<1>0. /\ users \in [Usernames -> {Nobody} \cup [id : 1..2, pw : Passwords, weak : BOOLEAN, locked : {0}]]
      /\ \A m, n \in Administrators : users[m].id = users[n].id => m = n
      /\ ids = Cardinality(Administrators) /\ \A n \in Administrators : users[n].id <= ids
      /\ sessions = [t \in Tokens |-> Nobody] /\ sources = [s \in Sources |-> Nobody]
      /\ req = [r \in Requests |-> NoRequest] /\ clock = 1 /\ undone = {}
      /\ wrong = [s \in Sources |-> 0]
  BY DEF AccountsInit, Unsuspected
<1>m. MaxIds \in Nat /\ 2 <= MaxIds
  BY AccountsAssumption DEF AccountsAssumption
<1>1. users \in [Usernames -> {Nobody} \cup Accts]
  BY <1>0, <1>m DEF Accts
<1>2. ids \in 0..2
  <2> DEFINE f == [n \in Administrators |-> users[n].id]
  <2>1. f \in Injection(Administrators, 1..2)
    <3>1. \A n \in Administrators : users[n].id \in 1..2
      BY <1>0 DEF Administrators
    <3>2. f \in [Administrators -> 1..2] /\ \A m, n \in DOMAIN f : f[m] = f[n] => m = n
      BY <1>0, <3>1
    <3> QED BY <3>2 DEF Injection, IsInjective
  <2>2. IsFiniteSet(1..2) /\ Cardinality(1..2) = 2
    <3>1. 1 \in Int /\ 2 \in Int /\ ~(1 > 2) /\ 2 - 1 + 1 = 2
      OBVIOUS
    <3>2. Cardinality(1..2) = IF 1 > 2 THEN 0 ELSE 2 - 1 + 1
      BY <3>1, FS_Interval, Zenon
    <3>3. IsFiniteSet(1..2)
      BY <3>1, FS_Interval, Zenon
    <3> QED BY <3>1, <3>2, <3>3
  <2>3. IsFiniteSet(Administrators) /\ Cardinality(Administrators) <= 2
    BY <2>1, <2>2, FS_Injection
  <2>4. Cardinality(Administrators) \in Nat
    BY <2>3, FS_CardinalityType
  <2> QED BY <1>0, <2>3, <2>4
<1>3. /\ passed \in [1..MaxIds -> Passwords \cup {Nobody}]
      /\ \A n \in Usernames : users[n] # Nobody => users[n].pw = passed[users[n].id]
  <2>1. passed = [i \in 1..MaxIds |-> IF Holder(i) = {} THEN Nobody
                                      ELSE users[CHOOSE n \in Holder(i) : TRUE].pw]
    BY DEF AccountsInit
  <2>2. ASSUME NEW n \in Usernames, users[n] # Nobody
        PROVE  /\ users[n].id \in 1..MaxIds /\ Holder(users[n].id) = {n}
               /\ users[n].pw = passed[users[n].id]
    <3>1. n \in Administrators /\ users[n].id \in 1..MaxIds
      BY <1>1, <2>2 DEF Administrators, Accts
    <3>2. Holder(users[n].id) = {n}
      BY <1>0, <3>1 DEF Holder
    <3>3. (CHOOSE m \in Holder(users[n].id) : TRUE) = n
      BY <3>2
    <3> QED BY <2>1, <3>1, <3>2, <3>3
  <2>3. ASSUME NEW i \in 1..MaxIds PROVE passed[i] \in Passwords \cup {Nobody}
    <3>1. CASE Holder(i) = {}
      BY <2>1, <3>1
    <3>2. CASE Holder(i) # {}
      <4>1. PICK n : n = CHOOSE m \in Holder(i) : TRUE
        OBVIOUS
      <4>2. n \in Holder(i)
        BY <3>2, <4>1
      <4>3. n \in Usernames /\ users[n] # Nobody
        BY <4>2 DEF Holder, Administrators
      <4>4. users[n].pw \in Passwords
        BY <1>1, <4>3 DEF Accts
      <4> QED BY <2>1, <3>2, <4>1, <4>4
    <3> QED BY <3>1, <3>2
  <2> QED BY <2>1, <2>2, <2>3
<1>4. AccountsTypeOK
  BY <1>0, <1>1, <1>2, <1>3, <1>m DEF AccountsTypeOK, AllRequests
<1>5. PasswordsAreKnown
  BY <1>0, <1>3 DEF PasswordsAreKnown, UserOK, SessionOK, RequestOK, Current, NoRequest, Administrators
<1>6. FailuresAreOwn /\ GuessesLeft
  BY <1>0 DEF FailuresAreOwn, GuessesLeft, TallyOK, TurnedAwayOK, NoRequest
<1> QED BY <1>4, <1>5, <1>6 DEF AccountsInv


(* The requests' kinds are told apart by what they do.                     *)
LEMMA RequestKinds ==
  /\ NoRequest.op = "none" /\ NoRequest \in AllRequests
  /\ \A q \in AllRequests :
       /\ q.op = "signin" => q \in SignIns
       /\ q.op = "change" => q \in PasswordChanges
       /\ q.op = "reset" => q \in PasswordResets
       /\ q.op = "remove" => q \in Removals
       /\ q.op = "create" => q \in Creations
       /\ q.op = "unlock" => q \in Unlockings
<1>1. NoRequest.op = "none" /\ NoRequest \in AllRequests
  BY DEF NoRequest, AllRequests
<1>2. ASSUME NEW q \in AllRequests
      PROVE  /\ q.op = "signin" => q \in SignIns
             /\ q.op = "change" => q \in PasswordChanges
             /\ q.op = "reset" => q \in PasswordResets
             /\ q.op = "remove" => q \in Removals
             /\ q.op = "create" => q \in Creations
             /\ q.op = "unlock" => q \in Unlockings
  <2>1. q \in SignIns => q.op = "signin"
    BY DEF SignIns
  <2>2. q \in PasswordChanges => q.op = "change"
    BY DEF PasswordChanges
  <2>3. q \in PasswordResets => q.op = "reset"
    BY DEF PasswordResets
  <2>4. q \in Removals => q.op = "remove"
    BY DEF Removals
  <2>5. q \in Creations => q.op = "create"
    BY DEF Creations
  <2>6. q \in Unlockings => q.op = "unlock"
    BY DEF Unlockings
  <2> QED BY <1>1, <2>1, <2>2, <2>3, <2>4, <2>5, <2>6 DEF AllRequests
<1> QED BY <1>1, <1>2

(* A sign-in goes on.                                                      *)
LEMMA SignInGoesOn ==
  ASSUME NEW q \in SignIns, NEW pc \in {"verify", "locked out", "mark", "record", "upgrade", "open"}, NEW u \in Nat
  PROVE  /\ [q EXCEPT !.pc = pc] \in SignIns
         /\ [q EXCEPT !.pc = pc].pc = pc
         /\ [q EXCEPT !.pc = pc].op = "signin" /\ [q EXCEPT !.pc = pc].acct = q.acct
         /\ [q EXCEPT !.pc = pc].raced = q.raced /\ [q EXCEPT !.pc = pc].source = q.source
         /\ [q EXCEPT !.pc = pc].pw = q.pw
         /\ [q EXCEPT !.pc = pc, !.until = u] \in SignIns
         /\ [q EXCEPT !.pc = pc, !.until = u].pc = pc
         /\ [q EXCEPT !.pc = pc, !.until = u].op = "signin"
         /\ [q EXCEPT !.pc = pc, !.until = u].acct = q.acct
         /\ [q EXCEPT !.pc = pc, !.until = u].raced = q.raced
         /\ [q EXCEPT !.pc = pc, !.until = u].pw = q.pw
BY DEF SignIns

LEMMA NothingToKnow ==
  ASSUME NEW P, NEW U, NEW N, NEW W
  PROVE  /\ UserOK(Nobody, P, U, N) /\ SessionOK(Nobody, P, U, N) /\ RequestOK(NoRequest, P, U, N)
         /\ TurnedAwayOK(NoRequest, W) /\ \A s : ~IsPending(NoRequest, s)
BY RequestKinds DEF UserOK, SessionOK, RequestOK, TurnedAwayOK, IsPending

LEMMA OneRequest ==
  ASSUME AccountsTypeOK, NEW r \in Requests, NEW q \in AllRequests, req' = [req EXCEPT ![r] = q]
  PROVE  /\ req' \in [Requests -> AllRequests] /\ req'[r] = q
         /\ \A o \in Requests : o # r => req'[o] = req[o]
BY DEF AccountsTypeOK

LEMMA PasswordsKept ==
  ASSUME PasswordsAreKnown, passed' = passed, undone \subseteq undone', ids' = ids,
         \A n \in Usernames : users'[n] = users[n] \/ UserOK(users'[n], passed, undone', ids),
         \A t \in Tokens : sessions'[t] = sessions[t] \/ SessionOK(sessions'[t], passed, undone', ids),
         \A r \in Requests : req'[r] = req[r] \/ RequestOK(req'[r], passed, undone', ids)
  PROVE  PasswordsAreKnown'
<1>1. \A u, N : UserOK(u, passed, undone, N) => UserOK(u, passed, undone', N)
  BY DEF UserOK, Current
<1>2. \A x, N : SessionOK(x, passed, undone, N) => SessionOK(x, passed, undone', N)
  BY DEF SessionOK, Current
<1>3. \A q, N : RequestOK(q, passed, undone, N) => RequestOK(q, passed, undone', N)
  BY DEF RequestOK, Current
<1> QED BY <1>1, <1>2, <1>3 DEF PasswordsAreKnown

(* The places of a source that are pending are a finite number.            *)
LEMMA PendingCounts ==
  /\ IsFiniteSet(Requests) /\ Cardinality(Requests) \in Nat /\ SignInFailures \in Nat \ {0}
  /\ \A s : /\ IsFiniteSet(Pending(s)) /\ Cardinality(Pending(s)) \in Nat
            /\ IsFiniteSet(Pending(s)') /\ Cardinality(Pending(s)') \in Nat
            /\ Pending(s)' \subseteq Pending(s) => Cardinality(Pending(s)') <= Cardinality(Pending(s))
<1>1. IsFiniteSet(Requests) /\ SignInFailures \in Nat \ {0}
  BY AccountsAssumption DEF AccountsAssumption
<1>2. \A s : Pending(s) \subseteq Requests /\ Pending(s)' \subseteq Requests
  BY DEF Pending
<1>3. \A s : IsFiniteSet(Pending(s)) /\ IsFiniteSet(Pending(s)')
  BY <1>1, <1>2, FS_Subset
<1> QED BY <1>1, <1>3, FS_Subset, FS_CardinalityType

LEMMA GuardKept ==
  ASSUME AccountsTypeOK, sources' \in [Sources -> {Nobody} \cup SourceEntries], FailuresAreOwn, GuessesLeft,
         \A s \in Sources : sources'[s] = Nobody \/ sources'[s] = sources[s] \/
            (sources[s] # Nobody /\ sources'[s].failures = sources[s].failures /\ sources'[s].until = sources[s].until),
         wrong' = wrong,
         \A r \in Requests : \/ req'[r] = req[r]
                             \/ /\ TurnedAwayOK(req'[r], wrong)
                                /\ \A s \in Sources : IsPending(req'[r], s) =>
                                     IsPending(req[r], s) \/ sources'[s] = Nobody \/ ~(sources'[s].failures >= SignInFailures)
  PROVE  FailuresAreOwn' /\ GuessesLeft'
<1>1. FailuresAreOwn'
  BY DEF FailuresAreOwn, TallyOK
<1>2. ASSUME NEW s \in Sources, sources'[s] # Nobody, sources'[s].failures >= SignInFailures
      PROVE  sources'[s].failures + Cardinality(Pending(s)') < SignInFailures + Cardinality(Requests)
  <2>1. sources[s] # Nobody /\ sources'[s].failures = sources[s].failures
    BY <1>2
  <2>2. sources[s].failures + Cardinality(Pending(s)) < SignInFailures + Cardinality(Requests)
    BY <1>2, <2>1 DEF GuessesLeft
  <2>3. Pending(s)' \subseteq Pending(s)
    BY <1>2 DEF Pending
  <2>4. sources[s].failures \in Nat
    BY <2>1 DEF AccountsTypeOK, SourceEntries
  <2>5. Cardinality(Pending(s)') <= Cardinality(Pending(s)) /\ Cardinality(Pending(s)') \in Nat
        /\ Cardinality(Pending(s)) \in Nat /\ Cardinality(Requests) \in Nat /\ SignInFailures \in Nat
    BY <2>3, PendingCounts
  <2> QED BY <2>1, <2>2, <2>4, <2>5
<1> QED BY <1>1, <1>2 DEF GuessesLeft

(* Asking of a source: a lapsed entry goes, and one that is not refused    *)
(* has not reached the limit.                                              *)
LEMMA AskedKeeps ==
  ASSUME AccountsTypeOK, FailuresAreOwn, NEW s \in Sources, NEW at \in Nat
  PROVE  /\ Asked(s, at) \in [Sources -> {Nobody} \cup SourceEntries]
         /\ \A o \in Sources : Asked(s, at)[o] = Nobody \/ Asked(s, at)[o] = sources[o] \/
              (sources[o] # Nobody /\ Asked(s, at)[o].failures = sources[o].failures /\ Asked(s, at)[o].until = sources[o].until)
         /\ ~Refused(s, at) => Asked(s, at)[s] = Nobody \/ ~(Asked(s, at)[s].failures >= SignInFailures)
         /\ Refused(s, at) => wrong[s] >= SignInFailures
<1> DEFINE e == sources[s]
<1>0. e \in {Nobody} \cup SourceEntries /\ TallyOK(e, wrong[s]) /\ wrong[s] \in Nat /\ SignInFailures \in Nat
  BY AccountsAssumption DEF AccountsTypeOK, FailuresAreOwn, AccountsAssumption
<1>1. CASE sources[s] = Nobody
  BY <1>1 DEF Asked, Unsuspected, Refused, AccountsTypeOK
<1>2. CASE sources[s] # Nobody /\ Cooled(s, at)
  BY <1>2 DEF Asked, Unsuspected, Refused, AccountsTypeOK
<1>3. CASE sources[s] # Nobody /\ ~Cooled(s, at) /\ Refused(s, at)
  <2>1. e \in SourceEntries /\ e.until # 0
    BY <1>0, <1>3 DEF Refused
  <2>2. [e EXCEPT !.last = at] \in SourceEntries /\ [e EXCEPT !.last = at].failures = e.failures
        /\ [e EXCEPT !.last = at].until = e.until
    BY <2>1 DEF SourceEntries
  <2>3. Asked(s, at) = [sources EXCEPT ![s] = [e EXCEPT !.last = at]]
    BY <1>3 DEF Asked, Unsuspected
  <2>4. e.failures <= wrong[s] /\ e.failures >= SignInFailures /\ e.failures \in Nat
    BY <1>0, <1>3, <2>1 DEF TallyOK, SourceEntries
  <2>5. wrong[s] >= SignInFailures
    BY <1>0, <2>4
  <2> HIDE DEF e
  <2>6. Asked(s, at) \in [Sources -> {Nobody} \cup SourceEntries] /\ Asked(s, at)[s] = [e EXCEPT !.last = at]
        /\ \A o \in Sources : o # s => Asked(s, at)[o] = sources[o]
    BY <2>2, <2>3 DEF AccountsTypeOK
  <2> QED BY <1>3, <2>2, <2>5, <2>6 DEF e
<1>4. CASE sources[s] # Nobody /\ ~Cooled(s, at) /\ ~Refused(s, at)
  <2>1. e.until = 0
    BY <1>4 DEF Refused, Unsuspected
  <2>2. ~(e.failures >= SignInFailures)
    BY <1>0, <1>4, <2>1 DEF TallyOK
  <2>3. Asked(s, at) = sources
    BY <1>4 DEF Asked, Unsuspected
  <2> QED BY <1>4, <2>2, <2>3 DEF AccountsTypeOK
<1> QED BY <1>1, <1>2, <1>3, <1>4

(* A wrong password of the source s, by a request that was pending.        *)
LEMMA FailureNoted ==
  ASSUME AccountsTypeOK, FailuresAreOwn, GuessesLeft, NEW r \in Requests, NEW s \in Sources, NEW at \in Nat,
         IsPending(req[r], s), NoteFailure(s, at), NEW q \in AllRequests, req' = [req EXCEPT ![r] = q],
         \A o : ~IsPending(q, o), \A W : TurnedAwayOK(q, W)
  PROVE  /\ FailuresAreOwn' /\ GuessesLeft'
         /\ sources' \in [Sources -> {Nobody} \cup SourceEntries] /\ wrong' \in [Sources -> Nat]
         /\ sources'[s] \in SourceEntries
<1>0. wrong' = [wrong EXCEPT ![s] = @ + 1]
  BY DEF NoteFailure
<1>w. /\ wrong' \in [Sources -> Nat] /\ wrong'[s] = wrong[s] + 1 /\ wrong[s] \in Nat
      /\ \A o \in Sources : o # s => wrong'[o] = wrong[o]
      /\ \A o \in Sources : wrong'[o] \in Nat /\ wrong[o] \in Nat /\ wrong[o] <= wrong'[o]
  BY <1>0 DEF AccountsTypeOK
<1>p. /\ SignInFailures \in Nat \ {0} /\ SignInLockout \in Nat \ {0}
  BY AccountsAssumption DEF AccountsAssumption
(* What a tally makes of an entry. *)
<1>1. ASSUME NEW e \in SourceEntries, e.failures <= wrong[s], e.until # 0 <=> e.failures >= SignInFailures
      PROVE  /\ Tallied(e, at) \in SourceEntries /\ Tallied(e, at).failures = e.failures + 1
             /\ TallyOK(Tallied(e, at), wrong'[s])
  <2> DEFINE u == IF e.failures + 1 >= SignInFailures THEN at + SignInLockout ELSE e.until
             f == e.failures + 1
             d == [e EXCEPT !.failures = f, !.last = at, !.until = u]
  <2>1. e.failures \in Nat /\ e.until \in Nat
    BY DEF SourceEntries
  <2>2. u \in Nat /\ (u # 0 <=> e.failures + 1 >= SignInFailures)
    BY <1>p, <1>1, <2>1
  <2>3. Tallied(e, at) = d
    BY DEF Tallied
  <2>f. f \in Nat
    BY <2>1
  <2> HIDE DEF u, f
  <2>4. d \in SourceEntries /\ d.failures = f /\ d.until = u
    BY <2>f, <2>2 DEF SourceEntries
  <2>5. e.failures + 1 <= wrong'[s]
    BY <1>1, <1>w, <2>1
  <2> HIDE DEF d
  <2> QED BY <2>2, <2>3, <2>4, <2>5 DEF TallyOK, f
<1>2. Fresh(at) \in SourceEntries /\ Fresh(at).failures = 0 /\ Fresh(at).until = 0
  BY DEF Fresh, SourceEntries
(* What the step does to the entries. *)
<1>3. PICK e \in SourceEntries :
        /\ e.failures <= wrong[s] /\ (e.until # 0 <=> e.failures >= SignInFailures)
        /\ e.failures = 0 \/ (sources[s] # Nobody /\ e.failures = sources[s].failures)
        /\ sources' \in [Sources -> {Nobody} \cup SourceEntries]
        /\ sources'[s] = Tallied(e, at)
        /\ \A o \in Sources : o # s => sources'[o] = Nobody \/ sources'[o] = sources[o]
  <2>1. CASE sources[s] # Unsuspected /\ ~Cooled(s, at)
    <3>1. sources[s] \in SourceEntries /\ TallyOK(sources[s], wrong[s])
      BY <2>1 DEF AccountsTypeOK, Unsuspected, FailuresAreOwn
    <3>2. sources' = [sources EXCEPT ![s] = Tallied(sources[s], at)]
      BY <2>1 DEF NoteFailure
    <3>3. sources[s].failures <= wrong[s] /\ (sources[s].until # 0 <=> sources[s].failures >= SignInFailures)
      BY <2>1, <3>1 DEF TallyOK, Unsuspected
    <3>4. Tallied(sources[s], at) \in SourceEntries
      BY <1>1, <3>1, <3>3
    <3> QED BY <2>1, <3>1, <3>2, <3>3, <3>4 DEF AccountsTypeOK, Unsuspected
  <2>2. CASE ~(sources[s] # Unsuspected /\ ~Cooled(s, at))
    <3>1. PICK t \in Pruned(at) : sources' = [t EXCEPT ![s] = Tallied(Fresh(at), at)]
      BY <2>2 DEF NoteFailure
    <3>2. t \in [Sources -> {Nobody} \cup SourceEntries] /\ \A o \in Sources : t[o] = Nobody \/ t[o] = sources[o]
      BY <3>1 DEF Pruned, Unsuspected, AccountsTypeOK
    <3>3. Fresh(at).failures <= wrong[s] /\ (Fresh(at).until # 0 <=> Fresh(at).failures >= SignInFailures)
      BY <1>2, <1>w, <1>p
    <3>4. Tallied(Fresh(at), at) \in SourceEntries
      BY <1>1, <1>2, <3>3
    <3>5. /\ sources' \in [Sources -> {Nobody} \cup SourceEntries] /\ sources'[s] = Tallied(Fresh(at), at)
          /\ \A o \in Sources : o # s => sources'[o] = Nobody \/ sources'[o] = sources[o]
      BY <3>1, <3>2, <3>4
    <3> QED BY <1>2, <3>3, <3>5
  <2> QED BY <2>1, <2>2
<1>4. /\ Tallied(e, at) \in SourceEntries /\ Tallied(e, at).failures = e.failures + 1
      /\ TallyOK(Tallied(e, at), wrong'[s]) /\ e.failures \in Nat
  BY <1>1, <1>3 DEF SourceEntries
<1>5. req'[r] = q /\ \A o \in Requests : o # r => req'[o] = req[o]
  BY OneRequest
<1>6. FailuresAreOwn'
  <2>1. ASSUME NEW o \in Sources PROVE TallyOK(sources'[o], wrong'[o])
    <3>1. CASE o = s
      BY <1>3, <1>4, <3>1
    <3>2. CASE o # s
      BY <1>3, <1>w, <3>2 DEF FailuresAreOwn, TallyOK
    <3> QED BY <3>1, <3>2
  <2>2. ASSUME NEW o \in Requests PROVE TurnedAwayOK(req'[o], wrong')
    <3>1. CASE o = r
      BY <1>5, <3>1
    <3>2. CASE o # r
      <4>1. TurnedAwayOK(req[o], wrong) /\ req'[o] = req[o] /\ req[o] \in AllRequests
        BY <1>5, <3>2 DEF FailuresAreOwn, AccountsTypeOK
      <4>2. CASE req[o].op \in {"signin", "change"} /\ req[o].pc = "locked out"
        <5>1. req[o].source \in Sources
          BY <4>1, <4>2, RequestKinds DEF SignIns, PasswordChanges
        <5>2. wrong[req[o].source] >= SignInFailures
          BY <4>1, <4>2 DEF TurnedAwayOK
        <5>3. wrong'[req[o].source] >= SignInFailures
          <6>1. PICK x \in Sources : x = req[o].source
            BY <5>1
          <6>2. wrong[x] >= SignInFailures /\ wrong[x] <= wrong'[x] /\ wrong[x] \in Nat /\ wrong'[x] \in Nat
            BY <1>w, <5>2, <6>1
          <6> QED BY <1>p, <6>1, <6>2
        <5> QED BY <4>1, <5>3 DEF TurnedAwayOK
      <4>3. CASE ~(req[o].op \in {"signin", "change"} /\ req[o].pc = "locked out")
        BY <4>1, <4>3 DEF TurnedAwayOK
      <4> QED BY <4>2, <4>3
    <3> QED BY <3>1, <3>2
  <2> QED BY <2>1, <2>2 DEF FailuresAreOwn
<1>7. \A o : Pending(o)' \subseteq Pending(o)
  BY <1>5 DEF Pending
<1>8. ASSUME NEW o \in Sources, sources'[o] # Nobody, sources'[o].failures >= SignInFailures
      PROVE  sources'[o].failures + Cardinality(Pending(o)') < SignInFailures + Cardinality(Requests)
  <2>0. /\ Cardinality(Pending(o)') <= Cardinality(Pending(o)) /\ Cardinality(Pending(o)') \in Nat
        /\ Cardinality(Pending(o)) \in Nat /\ Cardinality(Requests) \in Nat /\ SignInFailures \in Nat
    BY <1>7, PendingCounts
  <2>1. CASE o # s
    <3>1. sources'[o] = sources[o] /\ sources[o].failures \in Nat
      BY <1>3, <1>8, <2>1 DEF AccountsTypeOK, SourceEntries
    <3>2. sources[o].failures + Cardinality(Pending(o)) < SignInFailures + Cardinality(Requests)
      BY <1>8, <3>1 DEF GuessesLeft
    <3> QED BY <2>0, <3>1, <3>2
  <2>2. CASE o = s
    <3>1. r \in Pending(s) /\ r \notin Pending(s)'
      BY <1>5 DEF Pending
    <3>2. Pending(s)' \subseteq Pending(s) \ {r} /\ IsFiniteSet(Pending(s))
      BY <1>7, <3>1, PendingCounts
    <3>3. Cardinality(Pending(s) \ {r}) = Cardinality(Pending(s)) - 1 /\ IsFiniteSet(Pending(s) \ {r})
      BY <3>1, <3>2, FS_RemoveElement
    <3>4. Cardinality(Pending(s)') <= Cardinality(Pending(s)) - 1
      BY <3>2, <3>3, FS_Subset
    <3>5. Cardinality(Pending(s)) <= Cardinality(Requests)
      <4>1. Pending(s) \subseteq Requests
        BY DEF Pending
      <4> QED BY <4>1, PendingCounts, FS_Subset
    <3>6. sources'[s].failures = e.failures + 1
      BY <1>3, <1>4
    <3>7. CASE e.failures >= SignInFailures
      <4>1. sources[s] # Nobody /\ e.failures = sources[s].failures
        BY <1>3, <1>p, <3>7
      <4>2. e.failures + Cardinality(Pending(s)) < SignInFailures + Cardinality(Requests)
        BY <3>7, <4>1 DEF GuessesLeft
      <4> QED BY <1>4, <2>0, <2>2, <3>4, <3>6, <4>2
    <3>8. CASE ~(e.failures >= SignInFailures)
      BY <1>4, <2>0, <2>2, <3>4, <3>5, <3>6, <3>8
    <3> QED BY <3>7, <3>8
  <2> QED BY <2>1, <2>2
<1> QED BY <1>3, <1>4, <1>6, <1>8, <1>w DEF GuessesLeft


(* What most steps leave alone.                                            *)
LEMMA OnlyARequest ==
  ASSUME AccountsInv, UNCHANGED <<users, sessions, sources, clock, ids, passed, undone, wrong>>,
         req' \in [Requests -> AllRequests],
         \A r \in Requests : \/ req'[r] = req[r]
                             \/ /\ RequestOK(req'[r], passed, undone, ids)
                                /\ TurnedAwayOK(req'[r], wrong)
                                /\ \A s \in Sources : IsPending(req'[r], s) => IsPending(req[r], s)
  PROVE  AccountsInv'
<1>0. AccountsTypeOK /\ PasswordsAreKnown /\ FailuresAreOwn /\ GuessesLeft
  BY DEF AccountsInv
<1>1. PasswordsAreKnown'
  BY <1>0, PasswordsKept
<1>2. FailuresAreOwn' /\ GuessesLeft'
  BY <1>0, GuardKept DEF AccountsTypeOK
<1>3. AccountsTypeOK'
  BY <1>0 DEF AccountsTypeOK
<1> QED BY <1>1, <1>2, <1>3 DEF AccountsInv

LEMMA EndsKeep ==
  ASSUME AccountsInv, NEW r \in Requests, Done(r),
         UNCHANGED <<users, sessions, sources, clock, ids, passed, undone, wrong>>
  PROVE  AccountsInv'
<1>1. req' = [req EXCEPT ![r] = NoRequest] /\ NoRequest \in AllRequests /\ AccountsTypeOK
  BY RequestKinds DEF Done, Step, AccountsInv
<1>2. req' \in [Requests -> AllRequests] /\ req'[r] = NoRequest /\ \A o \in Requests : o # r => req'[o] = req[o]
  BY <1>1, OneRequest
<1>3. /\ RequestOK(NoRequest, passed, undone, ids) /\ TurnedAwayOK(NoRequest, wrong)
      /\ \A s : ~IsPending(NoRequest, s)
  BY NothingToKnow
<1> QED BY <1>2, <1>3, OnlyARequest

LEMMA AsksKeep ==
  ASSUME AccountsInv, NEW r \in Requests, NEW q \in AllRequests, Begins(r, q),
         RequestOK(q, passed, undone, ids), q.op \notin {"signin", "change"},
         UNCHANGED <<users, sessions, sources, clock, ids, passed, undone, wrong>>
  PROVE  AccountsInv'
<1>1. req' = [req EXCEPT ![r] = q] /\ AccountsTypeOK
  BY DEF Begins, AccountsInv
<1>2. req' \in [Requests -> AllRequests] /\ req'[r] = q /\ \A o \in Requests : o # r => req'[o] = req[o]
  BY <1>1, OneRequest
<1>3. TurnedAwayOK(q, wrong) /\ \A s : ~IsPending(q, s)
  BY DEF TurnedAwayOK, IsPending
<1> QED BY <1>2, <1>3, OnlyARequest

(* A sign-in, or a change of password, that a throttle was asked about.    *)
LEMMA AskedStep ==
  ASSUME AccountsInv, NEW r \in Requests, NEW q \in AllRequests, NEW s \in Sources, Begins(r, q),
         RequestOK(q, passed, undone, ids), q.op \in {"signin", "change"}, q.source = s,
         q.pc = "locked out" => Refused(s, clock),
         UNCHANGED <<users, sessions, clock, ids, passed, undone, wrong>>,
         \/ sources' = Asked(s, clock) /\ (q.pc = "verify" => ~Refused(s, clock))
         \/ sources' = [sources EXCEPT ![s] = Unsuspected]
  PROVE  AccountsInv'
<1>0. AccountsTypeOK /\ PasswordsAreKnown /\ FailuresAreOwn /\ GuessesLeft /\ clock \in Nat
  BY DEF AccountsInv, AccountsTypeOK
<1>1. req' = [req EXCEPT ![r] = q]
  BY DEF Begins
<1>2. req' \in [Requests -> AllRequests] /\ req'[r] = q /\ \A o \in Requests : o # r => req'[o] = req[o]
  BY <1>0, <1>1, OneRequest
<1>3. PasswordsAreKnown'
  BY <1>0, <1>2, PasswordsKept
<1>a. /\ Asked(s, clock) \in [Sources -> {Nobody} \cup SourceEntries]
      /\ \A o \in Sources : Asked(s, clock)[o] = Nobody \/ Asked(s, clock)[o] = sources[o] \/
           (sources[o] # Nobody /\ Asked(s, clock)[o].failures = sources[o].failures
              /\ Asked(s, clock)[o].until = sources[o].until)
      /\ ~Refused(s, clock) => Asked(s, clock)[s] = Nobody \/ ~(Asked(s, clock)[s].failures >= SignInFailures)
      /\ Refused(s, clock) => wrong[s] >= SignInFailures
  BY <1>0, AskedKeeps
<1>4. /\ sources' \in [Sources -> {Nobody} \cup SourceEntries]
      /\ \A o \in Sources : sources'[o] = Nobody \/ sources'[o] = sources[o] \/
            (sources[o] # Nobody /\ sources'[o].failures = sources[o].failures /\ sources'[o].until = sources[o].until)
      /\ q.pc = "verify" => sources'[s] = Nobody \/ ~(sources'[s].failures >= SignInFailures)
  <2>1. CASE sources' = Asked(s, clock) /\ (q.pc = "verify" => ~Refused(s, clock))
    BY <1>a, <2>1
  <2>2. CASE sources' = [sources EXCEPT ![s] = Unsuspected]
    BY <1>0, <2>2 DEF AccountsTypeOK, Unsuspected
  <2> QED BY <2>1, <2>2
<1>5. TurnedAwayOK(q, wrong) /\ \A o \in Sources : IsPending(q, o) => o = s /\ q.pc = "verify"
  BY <1>a DEF TurnedAwayOK, IsPending
<1>6. FailuresAreOwn' /\ GuessesLeft'
  BY <1>0, <1>2, <1>4, <1>5, GuardKept
<1>7. AccountsTypeOK'
  BY <1>0, <1>2, <1>4 DEF AccountsTypeOK
<1> QED BY <1>3, <1>6, <1>7 DEF AccountsInv

LEMMA ArrivesKeeps ==
  ASSUME AccountsInv, NEW r \in Requests, NEW n \in Usernames, NEW s \in Sources, NEW p \in Passwords, Arrives(r, n, s, p)
  PROVE  AccountsInv'
<1>0. AccountsTypeOK /\ PasswordsAreKnown
  BY DEF AccountsInv
<1> DEFINE a == users[n]
           cleared == a # Nobody /\ sources[s].marked = a.id /\ a.locked = 0
           away == Refused(s, clock) /\ ~cleared
           pc == IF away THEN "locked out" ELSE "verify"
           q == [SignIn(n, s, p) EXCEPT !.pc = pc]
<1>1. /\ Begins(r, q)
      /\ sources' = IF Refused(s, clock) /\ cleared THEN [sources EXCEPT ![s] = Unsuspected] ELSE Asked(s, clock)
      /\ UNCHANGED <<users, sessions, clock, ids, passed, undone, wrong>>
  BY DEF Arrives, dbVars, rest
<1>2. a \in {Nobody} \cup Accts /\ UserOK(a, passed, undone, ids) /\ clock \in Nat
  BY <1>0 DEF AccountsTypeOK, PasswordsAreKnown
<1>3. pc \in {"locked out", "verify"} /\ (pc = "locked out" <=> away)
  OBVIOUS
<1> HIDE DEF pc, cleared
<1>4. /\ q \in SignIns /\ q.op = "signin" /\ q.acct = a /\ q.pc = pc /\ q.source = s
  BY <1>2, <1>3 DEF SignIn, SignIns
<1> HIDE DEF q
<1>5. RequestOK(q, passed, undone, ids)
  BY <1>2, <1>3, <1>4 DEF RequestOK, UserOK
<1>6. q \in AllRequests
  BY <1>4 DEF AllRequests
<1>7. \/ sources' = Asked(s, clock) /\ (q.pc = "verify" => ~Refused(s, clock))
      \/ sources' = [sources EXCEPT ![s] = Unsuspected]
  BY <1>1, <1>3, <1>4
<1> QED BY <1>1, <1>3, <1>4, <1>5, <1>6, <1>7, AskedStep

LEMMA AsksChangeKeeps ==
  ASSUME AccountsInv, NEW r \in Requests, NEW t \in Tokens, NEW s \in Sources, NEW p \in Passwords,
         NEW to \in Passwords, AsksChange(r, t, s, p, to)
  PROVE  AccountsInv'
<1>0. AccountsTypeOK /\ PasswordsAreKnown
  BY DEF AccountsInv
<1> DEFINE pc == IF Refused(s, clock) THEN "locked out" ELSE "verify"
<1>1. PICK n \in Holder(sessions[t].id) :
        Begins(r, [op |-> "change", pc |-> pc, name |-> n, acct |-> users[n], source |-> s, pw |-> p,
                   at |-> clock, to |-> to, keep |-> t])
  BY DEF AsksChange
<1>2. sources' = Asked(s, clock) /\ UNCHANGED <<users, sessions, clock, ids, passed, undone, wrong>>
  BY DEF AsksChange, dbVars, rest
<1> DEFINE a == users[n]
           q == [op |-> "change", pc |-> pc, name |-> n, acct |-> a, source |-> s, pw |-> p,
                 at |-> clock, to |-> to, keep |-> t]
<1>3. n \in Usernames /\ a # Nobody
  BY DEF Holder, Administrators
<1>4. a \in Accts /\ UserOK(a, passed, undone, ids) /\ clock \in Nat
  BY <1>0, <1>3 DEF AccountsTypeOK, PasswordsAreKnown
<1>5. pc \in {"locked out", "verify"} /\ (pc = "locked out" <=> Refused(s, clock))
  OBVIOUS
<1>6. Begins(r, q)
  BY <1>1
<1> HIDE DEF pc, a
<1>7. q \in PasswordChanges /\ q.op = "change" /\ q.acct = a /\ q.pc = pc /\ q.source = s
  BY <1>3, <1>4, <1>5 DEF PasswordChanges
<1> HIDE DEF q
<1>8. RequestOK(q, passed, undone, ids)
  BY <1>3, <1>4, <1>7 DEF RequestOK, UserOK, a
<1>9. q \in AllRequests
  BY <1>7 DEF AllRequests
<1> QED BY <1>2, <1>5, <1>6, <1>7, <1>8, <1>9, AskedStep

(* A wrong password, of a sign-in or of a change.                          *)
LEMMA WrongKeeps ==
  ASSUME AccountsInv, NEW r \in Requests, NEW q \in AllRequests, NEW s \in Sources, NEW at \in Nat,
         IsPending(req[r], s), NoteFailure(s, at), req' = [req EXCEPT ![r] = q],
         q.op \in {"signin", "change"} => q.pc = "mark", RequestOK(q, passed, undone, ids),
         UNCHANGED <<users, sessions, clock, ids, passed, undone>>
  PROVE  AccountsInv'
<1>0. AccountsTypeOK /\ PasswordsAreKnown /\ FailuresAreOwn /\ GuessesLeft
  BY DEF AccountsInv
<1>1. (\A o : ~IsPending(q, o)) /\ (\A W : TurnedAwayOK(q, W))
  BY DEF IsPending, TurnedAwayOK
<1>2. /\ FailuresAreOwn' /\ GuessesLeft'
      /\ sources' \in [Sources -> {Nobody} \cup SourceEntries] /\ wrong' \in [Sources -> Nat]
  BY <1>0, <1>1, FailureNoted
<1>3. req' \in [Requests -> AllRequests] /\ req'[r] = q /\ \A o \in Requests : o # r => req'[o] = req[o]
  BY <1>0, OneRequest
<1>4. PasswordsAreKnown'
  BY <1>0, <1>3, PasswordsKept
<1>5. AccountsTypeOK'
  BY <1>0, <1>2, <1>3 DEF AccountsTypeOK
<1> QED BY <1>2, <1>4, <1>5 DEF AccountsInv

LEMMA SignInFailsKeeps ==
  ASSUME AccountsInv, NEW r \in Requests, SignInFails(r)
  PROVE  AccountsInv'
<1>0. AccountsTypeOK /\ PasswordsAreKnown /\ FailuresAreOwn /\ GuessesLeft
  BY DEF AccountsInv
<1> DEFINE q == req[r]
           s == q.source
           until == sources'[s].until
           later == IF q.acct.locked > until THEN q.acct.locked ELSE until
           m == [q EXCEPT !.pc = "mark", !.until = later]
<1>1. /\ q.op = "signin" /\ q.pc = "verify" /\ NoteFailure(s, q.at)
      /\ UNCHANGED <<users, sessions, clock, ids, passed, undone>>
      /\ \/ q.acct # Nobody /\ req' = [req EXCEPT ![r] = m]
         \/ req' = [req EXCEPT ![r] = NoRequest]
  BY DEF SignInFails, Doing, dbVars, rest, Step, Done
<1>2. q \in SignIns /\ RequestOK(q, passed, undone, ids)
  BY <1>0, <1>1, RequestKinds DEF AccountsTypeOK, PasswordsAreKnown
<1>3. s \in Sources /\ q.at \in Nat /\ IsPending(q, s) /\ q.acct \in {Nobody} \cup Accts
  BY <1>1, <1>2 DEF SignIns, IsPending
<1>4. CASE req' = [req EXCEPT ![r] = NoRequest]
  <2>1. NoRequest.op = "none" /\ NoRequest \in AllRequests /\ RequestOK(NoRequest, passed, undone, ids)
    BY RequestKinds, NothingToKnow
  <2> QED BY <1>1, <1>3, <1>4, <2>1, WrongKeeps
<1>5. CASE q.acct # Nobody /\ req' = [req EXCEPT ![r] = m]
  <2>1. q.acct.locked \in Nat
    BY <1>3, <1>5 DEF Accts
  (* What is noted is an entry, whatever becomes of the request. *)
  <2>2. sources'[s] \in SourceEntries
    <3>1. sources[s] \in {Nobody} \cup SourceEntries /\ SignInFailures \in Nat /\ SignInLockout \in Nat
      BY <1>0, <1>3, AccountsAssumption DEF AccountsTypeOK, AccountsAssumption
    <3>2. \E e \in SourceEntries : sources'[s] = Tallied(e, q.at)
      <4>1. CASE sources[s] # Unsuspected /\ ~Cooled(s, q.at)
        BY <1>0, <1>1, <1>3, <3>1, <4>1 DEF NoteFailure, AccountsTypeOK, Unsuspected
      <4>2. CASE ~(sources[s] # Unsuspected /\ ~Cooled(s, q.at))
        <5>1. PICK t \in Pruned(q.at) : sources' = [t EXCEPT ![s] = Tallied(Fresh(q.at), q.at)]
          BY <1>1, <4>2 DEF NoteFailure
        <5>2. DOMAIN t = Sources
          BY <1>0, <5>1 DEF Pruned, AccountsTypeOK
        <5>3. Fresh(q.at) \in SourceEntries
          BY <1>3 DEF Fresh, SourceEntries
        <5> QED BY <1>3, <5>1, <5>2, <5>3
      <4> QED BY <4>1, <4>2
    <3>3. PICK e \in SourceEntries : sources'[s] = Tallied(e, q.at)
      BY <3>2
    <3> DEFINE f == e.failures + 1
               u == IF f >= SignInFailures THEN q.at + SignInLockout ELSE e.until
    <3>4. f \in Nat /\ u \in Nat
      BY <1>3, <3>1 DEF SourceEntries
    <3>5. Tallied(e, q.at) = [e EXCEPT !.failures = f, !.last = q.at, !.until = u]
      BY DEF Tallied
    <3> HIDE DEF f, u
    <3> QED BY <1>3, <3>3, <3>4, <3>5 DEF SourceEntries
  <2>3. later \in Nat
    BY <2>1, <2>2 DEF SourceEntries
  <2> HIDE DEF later
  <2>4. m \in SignIns /\ m.op = "signin" /\ m.pc = "mark" /\ m.acct = q.acct /\ m.raced = q.raced
    <3>1. q \in SignIns
      BY <1>2
    <3> HIDE DEF q
    <3> QED BY <2>3, <3>1 DEF SignIns
  <2> HIDE DEF m
  <2>5. RequestOK(m, passed, undone, ids)
    BY <1>1, <1>2, <1>5, <2>4 DEF RequestOK
  <2>6. m \in AllRequests
    BY <2>4 DEF AllRequests
  <2> QED BY <1>1, <1>3, <1>5, <2>4, <2>5, <2>6, WrongKeeps
<1> QED BY <1>1, <1>4, <1>5

LEMMA ChangeFailsKeeps ==
  ASSUME AccountsInv, NEW r \in Requests, ChangeFails(r)
  PROVE  AccountsInv'
<1>0. AccountsTypeOK
  BY DEF AccountsInv
<1> DEFINE q == req[r]
<1>1. /\ q.op = "change" /\ q.pc = "verify" /\ NoteFailure(q.source, q.at)
      /\ UNCHANGED <<users, sessions, clock, ids, passed, undone>>
      /\ req' = [req EXCEPT ![r] = NoRequest]
  BY DEF ChangeFails, Doing, dbVars, rest, Step, Done
<1>2. q \in PasswordChanges
  BY <1>0, <1>1, RequestKinds DEF AccountsTypeOK
<1>3. q.source \in Sources /\ q.at \in Nat /\ IsPending(q, q.source)
  BY <1>1, <1>2 DEF PasswordChanges, IsPending
<1>4. NoRequest.op = "none" /\ NoRequest \in AllRequests /\ RequestOK(NoRequest, passed, undone, ids)
  BY RequestKinds, NothingToKnow
<1> QED BY <1>1, <1>3, <1>4, WrongKeeps



(* A step that sets no password and counts no failure.                     *)
LEMMA QuietStep ==
  ASSUME AccountsInv,
         users' \in [Usernames -> {Nobody} \cup Accts], sessions' \in [Tokens -> {Nobody} \cup SessionRecords],
         sources' \in [Sources -> {Nobody} \cup SourceEntries], req' \in [Requests -> AllRequests],
         clock' \in Nat, ids' = ids, passed' = passed, undone \subseteq undone', wrong' = wrong,
         \A n \in Usernames : users'[n] = users[n] \/ UserOK(users'[n], passed, undone', ids),
         \A t \in Tokens : sessions'[t] = sessions[t] \/ SessionOK(sessions'[t], passed, undone', ids),
         \A s \in Sources : sources'[s] = Nobody \/ sources'[s] = sources[s] \/
            (sources[s] # Nobody /\ sources'[s].failures = sources[s].failures /\ sources'[s].until = sources[s].until),
         \A r \in Requests : \/ req'[r] = req[r]
                             \/ /\ RequestOK(req'[r], passed, undone', ids)
                                /\ TurnedAwayOK(req'[r], wrong)
                                /\ \A s \in Sources : IsPending(req'[r], s) => IsPending(req[r], s)
  PROVE  AccountsInv'
<1>0. AccountsTypeOK /\ PasswordsAreKnown /\ FailuresAreOwn /\ GuessesLeft
  BY DEF AccountsInv
<1>1. PasswordsAreKnown'
  BY <1>0, PasswordsKept
<1>2. FailuresAreOwn' /\ GuessesLeft'
  BY <1>0, GuardKept
<1>3. AccountsTypeOK'
  BY <1>0 DEF AccountsTypeOK
<1> QED BY <1>1, <1>2, <1>3 DEF AccountsInv

(* A request that goes on or ends, with the database as it was or with     *)
(* rows changed.                                                           *)
LEMMA RequestMoves ==
  ASSUME AccountsInv, NEW r \in Requests, NEW q \in AllRequests, req' = [req EXCEPT ![r] = q],
         users' \in [Usernames -> {Nobody} \cup Accts], sessions' \in [Tokens -> {Nobody} \cup SessionRecords],
         sources' \in [Sources -> {Nobody} \cup SourceEntries],
         UNCHANGED <<clock, ids, passed, wrong>>, undone \subseteq undone',
         \A n \in Usernames : users'[n] = users[n] \/ UserOK(users'[n], passed, undone', ids),
         \A t \in Tokens : sessions'[t] = sessions[t] \/ SessionOK(sessions'[t], passed, undone', ids),
         \A s \in Sources : sources'[s] = Nobody \/ sources'[s] = sources[s] \/
            (sources[s] # Nobody /\ sources'[s].failures = sources[s].failures /\ sources'[s].until = sources[s].until),
         RequestOK(q, passed, undone', ids), q.op \in {"signin", "change"} => q.pc \notin {"verify", "locked out"}
  PROVE  AccountsInv'
<1>0. AccountsTypeOK /\ clock' \in Nat
  BY DEF AccountsInv, AccountsTypeOK
<1>1. req' \in [Requests -> AllRequests] /\ req'[r] = q /\ \A o \in Requests : o # r => req'[o] = req[o]
  BY <1>0, OneRequest
<1>2. (\A o : ~IsPending(q, o)) /\ TurnedAwayOK(q, wrong)
  BY DEF IsPending, TurnedAwayOK
<1>3. ids' = ids /\ passed' = passed /\ wrong' = wrong
  OBVIOUS
<1> QED BY <1>0, <1>1, <1>2, <1>3, QuietStep

LEMMA RequestEnds ==
  /\ NoRequest.op = "none" /\ NoRequest \in AllRequests
  /\ \A P, U, N : RequestOK(NoRequest, P, U, N)
BY RequestKinds, NothingToKnow

(* The lockout of an account's row.                                        *)
LEMMA AttemptsWritten ==
  ASSUME AccountsTypeOK, PasswordsAreKnown, NEW id, NEW u \in Nat, UpdateAttempts(id, u)
  PROVE  /\ users' \in [Usernames -> {Nobody} \cup Accts]
         /\ \A n \in Usernames : users'[n] = users[n] \/ UserOK(users'[n], passed, undone, ids)
<1>1. users' = [n \in Usernames |-> IF n \in Holder(id) THEN [users[n] EXCEPT !.locked = u] ELSE users[n]]
  BY DEF UpdateAttempts, SetUser
<1>2. ASSUME NEW n \in Holder(id)
      PROVE  /\ [users[n] EXCEPT !.locked = u] \in Accts
             /\ UserOK([users[n] EXCEPT !.locked = u], passed, undone, ids)
  <2>1. n \in Usernames /\ users[n] # Nobody
    BY DEF Holder, Administrators
  <2>2. users[n] \in Accts /\ UserOK(users[n], passed, undone, ids)
    BY <2>1 DEF AccountsTypeOK, PasswordsAreKnown
  <2> DEFINE a == users[n]
             b == [a EXCEPT !.locked = u]
  <2> HIDE DEF a
  <2>3. a \in Accts /\ a # Nobody /\ UserOK(a, passed, undone, ids)
    BY <2>1, <2>2 DEF a
  <2>4. b \in Accts /\ b.id = a.id /\ b.pw = a.pw
    BY <2>3 DEF Accts
  <2>5. UserOK(b, passed, undone, ids)
    <3> HIDE DEF b
    <3> QED BY <2>3, <2>4 DEF UserOK
  <2> QED BY <2>4, <2>5 DEF a
<1> QED BY <1>1, <1>2 DEF AccountsTypeOK

LEMMA UnlocksKeeps ==
  ASSUME AccountsInv, NEW r \in Requests, Unlocks(r)
  PROVE  AccountsInv'
<1>0. AccountsTypeOK /\ PasswordsAreKnown
  BY DEF AccountsInv
<1>1. /\ UpdateAttempts(req[r].acct.id, 0) /\ req' = [req EXCEPT ![r] = NoRequest]
      /\ UNCHANGED <<sessions, sources, clock, ids, passed, undone, wrong>>
  BY DEF Unlocks, Done, Step, rest
<1>2. /\ users' \in [Usernames -> {Nobody} \cup Accts]
      /\ \A n \in Usernames : users'[n] = users[n] \/ UserOK(users'[n], passed, undone, ids)
  BY <1>0, <1>1, AttemptsWritten
<1> QED BY <1>0, <1>1, <1>2, RequestEnds, RequestMoves DEF AccountsTypeOK

LEMMA MarksKeeps ==
  ASSUME AccountsInv, NEW r \in Requests, Marks(r)
  PROVE  AccountsInv'
<1>0. AccountsTypeOK /\ PasswordsAreKnown
  BY DEF AccountsInv
<1> DEFINE q == req[r]
           s == q.source
           id == q.acct.id
<1>1. /\ q.op = "signin" /\ q.pc = "mark"
      /\ UpdateAttempts(id, q.until) /\ req' = [req EXCEPT ![r] = NoRequest]
      /\ UNCHANGED <<sessions, clock, ids, passed, undone, wrong>>
      /\ sources' = IF sources[s] # Unsuspected /\ sources[s].until # 0
                    THEN [sources EXCEPT ![s].marked = id] ELSE sources
  BY DEF Marks, Doing, Done, Step, rest
<1>2. q \in SignIns /\ RequestOK(q, passed, undone, ids)
  BY <1>0, <1>1, RequestKinds DEF AccountsTypeOK, PasswordsAreKnown
<1>3. q.until \in Nat /\ s \in Sources /\ q.acct \in Accts
  BY <1>1, <1>2 DEF SignIns, RequestOK
<1>4. id \in Nat
  BY <1>3, AccountsAssumption DEF Accts, AccountsAssumption
<1>5. /\ users' \in [Usernames -> {Nobody} \cup Accts]
      /\ \A n \in Usernames : users'[n] = users[n] \/ UserOK(users'[n], passed, undone, ids)
  BY <1>0, <1>1, <1>3, AttemptsWritten
<1> HIDE DEF id, s
<1>6. /\ sources' \in [Sources -> {Nobody} \cup SourceEntries]
      /\ \A o \in Sources : sources'[o] = Nobody \/ sources'[o] = sources[o] \/
            (sources[o] # Nobody /\ sources'[o].failures = sources[o].failures /\ sources'[o].until = sources[o].until)
  <2>0. sources \in [Sources -> {Nobody} \cup SourceEntries]
    BY <1>0 DEF AccountsTypeOK
  <2>1. CASE sources[s] # Unsuspected /\ sources[s].until # 0
    <3>1. sources' = [sources EXCEPT ![s] = [sources[s] EXCEPT !.marked = id]]
      BY <1>1, <2>1
    <3> DEFINE e == sources[s]
               m == [e EXCEPT !.marked = id]
    <3>2. e \in SourceEntries
      BY <1>3, <2>0, <2>1 DEF Unsuspected
    <3>3. sources' = [sources EXCEPT ![s] = m] /\ sources[s] # Nobody
      BY <2>1, <3>1 DEF Unsuspected
    <3>e. e = sources[s]
      OBVIOUS
    <3> HIDE DEF e
    <3>4. m \in SourceEntries /\ m.failures = e.failures /\ m.until = e.until
      BY <1>4, <3>2 DEF SourceEntries
    <3> HIDE DEF m
    <3> QED BY <1>3, <2>0, <3>3, <3>4, <3>e
  <2>2. CASE ~(sources[s] # Unsuspected /\ sources[s].until # 0)
    BY <1>1, <2>0, <2>2
  <2> QED BY <2>1, <2>2
<1> QED BY <1>0, <1>1, <1>5, <1>6, RequestEnds, RequestMoves DEF AccountsTypeOK



LEMMA SignInSucceedsKeeps ==
  ASSUME AccountsInv, NEW r \in Requests, SignInSucceeds(r)
  PROVE  AccountsInv'
<1>0. AccountsTypeOK /\ PasswordsAreKnown
  BY DEF AccountsInv
<1> DEFINE q == req[r]
           m == [q EXCEPT !.pc = "record"]
<1>1. /\ q.op = "signin" /\ q.acct # Nobody /\ q.acct.pw = q.pw
      /\ sources' = [sources EXCEPT ![q.source] = Nobody] /\ req' = [req EXCEPT ![r] = m]
      /\ UNCHANGED <<users, sessions, clock, ids, passed, undone, wrong>>
  BY DEF SignInSucceeds, Doing, Right, ForgetSource, Unsuspected, Step, dbVars, rest
<1>2. q \in SignIns /\ RequestOK(q, passed, undone, ids)
  BY <1>0, <1>1, RequestKinds DEF AccountsTypeOK, PasswordsAreKnown
<1>3. m \in SignIns /\ m.op = "signin" /\ m.pc = "record" /\ m.acct = q.acct /\ m.raced = q.raced /\ m.pw = q.pw
  <2>1. q \in SignIns
    BY <1>2
  <2> HIDE DEF q
  <2> QED BY <2>1 DEF SignIns
<1> HIDE DEF m
<1>4. m \in AllRequests /\ RequestOK(m, passed, undone, ids)
  BY <1>1, <1>2, <1>3 DEF AllRequests, RequestOK
<1> HIDE DEF q
<1>5. /\ sources' \in [Sources -> {Nobody} \cup SourceEntries]
      /\ \A o \in Sources : sources'[o] = Nobody \/ sources'[o] = sources[o]
  BY <1>0, <1>1 DEF AccountsTypeOK
<1> QED BY <1>0, <1>1, <1>3, <1>4, <1>5, RequestMoves DEF AccountsTypeOK

LEMMA RecordsSignInKeeps ==
  ASSUME AccountsInv, NEW r \in Requests, RecordsSignIn(r)
  PROVE  AccountsInv'
<1>0. AccountsTypeOK /\ PasswordsAreKnown
  BY DEF AccountsInv
<1> DEFINE q == req[r]
           mark == IF q.at >= q.acct.locked THEN 0 ELSE q.acct.locked
           pc == IF q.acct.weak THEN "upgrade" ELSE "open"
           m == [q EXCEPT !.pc = pc]
<1>1. /\ q.op = "signin" /\ q.pc = "record" /\ UpdateAttempts(q.acct.id, mark)
      /\ req' = [req EXCEPT ![r] = m]
      /\ UNCHANGED <<sessions, sources, clock, ids, passed, undone, wrong>>
  BY DEF RecordsSignIn, Doing, Step, rest
<1>2. q \in SignIns /\ RequestOK(q, passed, undone, ids)
  BY <1>0, <1>1, RequestKinds DEF AccountsTypeOK, PasswordsAreKnown
<1>3. q.acct \in Accts /\ q.acct # Nobody /\ q.acct.pw = q.pw
  BY <1>1, <1>2 DEF SignIns, RequestOK
<1>4. mark \in Nat
  BY <1>3 DEF Accts
<1>5. pc \in {"upgrade", "open"}
  OBVIOUS
<1> HIDE DEF mark, pc
<1>6. /\ users' \in [Usernames -> {Nobody} \cup Accts]
      /\ \A n \in Usernames : users'[n] = users[n] \/ UserOK(users'[n], passed, undone, ids)
  BY <1>0, <1>1, <1>4, AttemptsWritten
<1>7. m \in SignIns /\ m.op = "signin" /\ m.pc = pc /\ m.acct = q.acct /\ m.raced = q.raced /\ m.pw = q.pw
  <2>1. q \in SignIns
    BY <1>2
  <2> HIDE DEF q
  <2> QED BY <1>5, <2>1 DEF SignIns
<1> HIDE DEF m
<1>8. m \in AllRequests /\ RequestOK(m, passed, undone, ids)
  BY <1>1, <1>2, <1>3, <1>5, <1>7 DEF AllRequests, RequestOK
<1> QED BY <1>0, <1>1, <1>5, <1>6, <1>7, <1>8, RequestMoves DEF AccountsTypeOK

(* A hash made anew: the account has the password that signed in, which is *)
(* the one set last or is noted as put back.                               *)
LEMMA UpgradesKeeps ==
  ASSUME AccountsInv, NEW r \in Requests, Upgrades(r)
  PROVE  AccountsInv'
<1>0. AccountsTypeOK /\ PasswordsAreKnown
  BY DEF AccountsInv
<1> DEFINE q == req[r]
           id == q.acct.id
           p == q.pw
           m == [q EXCEPT !.pc = "open"]
<1>1. /\ q.op = "signin" /\ q.pc = "upgrade"
      /\ users' = [n \in Usernames |-> IF n \in Holder(id)
                                       THEN [users[n] EXCEPT !.pw = p, !.weak = FALSE] ELSE users[n]]
      /\ undone' = IF passed[id] # p THEN undone \cup {id} ELSE undone
      /\ req' = [req EXCEPT ![r] = m]
      /\ UNCHANGED <<sessions, sources, clock, ids, passed, wrong>>
  BY DEF Upgrades, Doing, SetUser, Step, rest
<1>2. q \in SignIns /\ RequestOK(q, passed, undone, ids)
  BY <1>0, <1>1, RequestKinds DEF AccountsTypeOK, PasswordsAreKnown
<1>3. q.acct \in Accts /\ q.acct # Nobody /\ q.acct.pw = q.pw /\ id <= ids /\ p \in Passwords
  BY <1>1, <1>2 DEF SignIns, RequestOK
<1>4. undone \subseteq undone' /\ Current(id, p, passed, undone')
  BY <1>1 DEF Current
<1>5. m \in SignIns /\ m.op = "signin" /\ m.pc = "open" /\ m.acct = q.acct /\ m.raced = q.raced /\ m.pw = q.pw
  <2>1. q \in SignIns
    BY <1>2
  <2> HIDE DEF q
  <2> QED BY <2>1 DEF SignIns
<1> HIDE DEF m
<1>6. m \in AllRequests /\ RequestOK(m, passed, undone', ids)
  BY <1>1, <1>2, <1>3, <1>4, <1>5 DEF AllRequests, RequestOK, Current
<1> HIDE DEF p, id
<1>7. ASSUME NEW n \in Holder(id)
      PROVE  /\ [users[n] EXCEPT !.pw = p, !.weak = FALSE] \in Accts
             /\ UserOK([users[n] EXCEPT !.pw = p, !.weak = FALSE], passed, undone', ids)
  <2> DEFINE a == users[n]
             b == [a EXCEPT !.pw = p, !.weak = FALSE]
  <2>1. n \in Usernames /\ a # Nobody /\ a.id = id
    BY DEF Holder, Administrators
  <2>2. a \in Accts
    BY <1>0, <2>1 DEF AccountsTypeOK
  <2>3. a = users[n]
    OBVIOUS
  <2> HIDE DEF a
  <2>4. b \in Accts /\ b.id = id /\ b.pw = p
    BY <1>3, <2>1, <2>2 DEF Accts
  <2>5. UserOK(b, passed, undone', ids)
    <3> HIDE DEF b
    <3> QED BY <1>3, <1>4, <2>4 DEF UserOK
  <2> QED BY <2>3, <2>4, <2>5
<1>8. /\ users' \in [Usernames -> {Nobody} \cup Accts]
      /\ \A n \in Usernames : users'[n] = users[n] \/ UserOK(users'[n], passed, undone', ids)
  BY <1>0, <1>1, <1>7 DEF AccountsTypeOK
<1> QED BY <1>0, <1>1, <1>4, <1>5, <1>6, <1>8, RequestMoves DEF AccountsTypeOK

LEMMA OpensSessionKeeps ==
  ASSUME AccountsInv, NEW r \in Requests, OpensSession(r)
  PROVE  AccountsInv'
<1>0. AccountsTypeOK /\ PasswordsAreKnown
  BY DEF AccountsInv
<1> DEFINE q == req[r]
           id == q.acct.id
           x == [id |-> id, pw |-> q.pw, expires |-> q.at + SessionLifetime, excused |-> q.raced]
<1>1. /\ q.op = "signin" /\ q.pc = "open"
      /\ sessions' = sessions \/ \E t \in Tokens : sessions' = [sessions EXCEPT ![t] = x]
      /\ req' = [req EXCEPT ![r] = NoRequest]
      /\ UNCHANGED <<users, sources, clock, ids, passed, undone, wrong>>
  BY DEF OpensSession, Doing, Done, Step, rest, FreeTokens
<1>2. q \in SignIns /\ RequestOK(q, passed, undone, ids)
  BY <1>0, <1>1, RequestKinds DEF AccountsTypeOK, PasswordsAreKnown
<1>3. /\ q.acct \in Accts /\ q.acct # Nobody /\ q.acct.pw = q.pw /\ id <= ids
      /\ Current(id, q.pw, passed, undone) \/ q.raced
      /\ q.at \in Nat /\ q.raced \in BOOLEAN /\ q.pw \in Passwords
  BY <1>1, <1>2 DEF SignIns, RequestOK
<1>4. x \in SessionRecords /\ x.id = id /\ x.pw = q.pw /\ x.excused = q.raced
  <2>1. id \in 1..MaxIds /\ q.at + SessionLifetime \in Nat
    BY <1>3, AccountsAssumption DEF Accts, AccountsAssumption
  <2> QED BY <1>3, <2>1 DEF SessionRecords
<1> HIDE DEF x
<1>5. SessionOK(x, passed, undone, ids)
  BY <1>3, <1>4 DEF SessionOK
<1>6. /\ sessions' \in [Tokens -> {Nobody} \cup SessionRecords]
      /\ \A t \in Tokens : sessions'[t] = sessions[t] \/ SessionOK(sessions'[t], passed, undone, ids)
  BY <1>0, <1>1, <1>4, <1>5 DEF AccountsTypeOK
<1> QED BY <1>0, <1>1, <1>6, RequestEnds, RequestMoves DEF AccountsTypeOK

(* Sessions that end, and whatever else touches neither requests nor       *)
(* accounts.                                                               *)
LEMMA SessionsEnd ==
  ASSUME AccountsInv, NEW T, Ending(T), UNCHANGED <<users, sources, req, clock, ids, passed, undone, wrong>>
  PROVE  AccountsInv'
<1>0. AccountsTypeOK
  BY DEF AccountsInv
<1>1. sessions' = [t \in Tokens |-> IF t \in T THEN Nobody ELSE sessions[t]]
  BY DEF Ending
<1>2. /\ sessions' \in [Tokens -> {Nobody} \cup SessionRecords]
      /\ \A t \in Tokens : sessions'[t] = sessions[t] \/ SessionOK(sessions'[t], passed, undone, ids)
  BY <1>0, <1>1, NothingToKnow DEF AccountsTypeOK
<1> QED BY <1>0, <1>2, QuietStep DEF AccountsTypeOK

LEMMA ChangeVerifiedKeeps ==
  ASSUME AccountsInv, NEW r \in Requests, ChangeVerified(r)
  PROVE  AccountsInv'
<1>0. AccountsTypeOK /\ PasswordsAreKnown
  BY DEF AccountsInv
<1> DEFINE q == req[r]
           m == [q EXCEPT !.pc = "set"]
<1>1. /\ q.op = "change" /\ UNCHANGED <<users, sessions, sources, clock, ids, passed, undone, wrong>>
      /\ req' = [req EXCEPT ![r] = m] \/ Done(r)
  BY DEF ChangeVerified, Doing, Step, dbVars, rest
<1>2. q \in PasswordChanges /\ RequestOK(q, passed, undone, ids)
  BY <1>0, <1>1, RequestKinds DEF AccountsTypeOK, PasswordsAreKnown
<1>3. m \in PasswordChanges /\ m.op = "change" /\ m.pc = "set" /\ m.acct = q.acct
  <2>1. q \in PasswordChanges
    BY <1>2
  <2> HIDE DEF q
  <2> QED BY <2>1 DEF PasswordChanges
<1> HIDE DEF m
<1>4. m \in AllRequests /\ RequestOK(m, passed, undone, ids)
  BY <1>1, <1>2, <1>3 DEF AllRequests, RequestOK
<1>5. CASE Done(r)
  BY <1>1, <1>5, EndsKeep
<1>6. CASE req' = [req EXCEPT ![r] = m]
  BY <1>0, <1>1, <1>3, <1>4, <1>6, RequestMoves DEF AccountsTypeOK
<1> QED BY <1>1, <1>5, <1>6



(* A password set for one id says nothing of the others.                   *)
LEMMA ElsewhereKnown ==
  ASSUME AccountsTypeOK, NEW i \in 1..MaxIds, NEW p, passed' = [passed EXCEPT ![i] = p],
         undone' = undone \/ undone' = undone \ {i}
  PROVE  \A k \in 1..MaxIds : \A pw :
           k # i /\ Current(k, pw, passed, undone) => Current(k, pw, passed', undone')
BY DEF Current, AccountsTypeOK

(* SetPassword: everything held on the old password is closed, is the      *)
(* session that asked, or is a sign-in that is noted as overtaken.         *)
LEMMA SetPasswordKeeps ==
  ASSUME AccountsInv, NEW r \in Requests, NEW id \in 1..MaxIds, id <= ids, NEW p \in Passwords, NEW keep,
         SetPassword(r, id, p, keep), UNCHANGED <<sources, clock, ids, wrong>>
  PROVE  AccountsInv'
<1>0. AccountsTypeOK /\ PasswordsAreKnown /\ FailuresAreOwn /\ GuessesLeft /\ ids \in Nat
  BY DEF AccountsInv, AccountsTypeOK
<1>1. /\ users' = [n \in Usernames |-> IF n \in Holder(id)
                       THEN [users[n] EXCEPT !.pw = p, !.weak = FALSE, !.locked = 0] ELSE users[n]]
      /\ sessions' = [t \in Tokens |->
            IF sessions[t] = Nobody \/ sessions[t].id # id THEN sessions[t]
            ELSE IF t = keep THEN [sessions[t] EXCEPT !.excused = TRUE] ELSE Nobody]
      /\ passed' = [passed EXCEPT ![id] = p] /\ undone' = undone \ {id}
      /\ req' = [o \in Requests |->
            IF o = r THEN NoRequest
            ELSE IF req[o].op = "signin" /\ req[o].acct # Nobody /\ req[o].acct.id = id
            THEN [req[o] EXCEPT !.raced = TRUE] ELSE req[o]]
  BY DEF SetPassword, SetUser
<1>2. passed'[id] = p /\ passed' \in [1..MaxIds -> Passwords \cup {Nobody}]
  BY <1>0, <1>1 DEF AccountsTypeOK
<1>3. \A k \in 1..MaxIds : \A pw : k # id /\ Current(k, pw, passed, undone) => Current(k, pw, passed', undone')
  BY <1>0, <1>1, ElsewhereKnown
<1>4. ASSUME NEW n \in Usernames
      PROVE  users'[n] \in {Nobody} \cup Accts /\ UserOK(users'[n], passed', undone', ids)
  <2> DEFINE a == users[n]
             b == [a EXCEPT !.pw = p, !.weak = FALSE, !.locked = 0]
  <2>1. a \in {Nobody} \cup Accts /\ UserOK(a, passed, undone, ids)
    BY <1>0 DEF AccountsTypeOK, PasswordsAreKnown
  <2>2. CASE n \in Holder(id)
    <3>1. a # Nobody /\ a.id = id /\ users'[n] = b
      BY <1>1, <2>2 DEF Holder, Administrators
    <3> HIDE DEF a
    <3>2. b \in Accts /\ b.id = id /\ b.pw = p
      BY <2>1, <3>1 DEF Accts
    <3> HIDE DEF b
    <3> QED BY <1>2, <3>1, <3>2 DEF UserOK, Current
  <2>3. CASE n \notin Holder(id)
    <3>1. users'[n] = a /\ (a # Nobody => a.id # id)
      BY <1>1, <2>3 DEF Holder, Administrators
    <3> HIDE DEF a
    <3>2. a # Nobody => a.id \in 1..MaxIds
      BY <2>1 DEF Accts
    <3> QED BY <1>3, <2>1, <3>1, <3>2 DEF UserOK
  <2> QED BY <2>2, <2>3
<1>5. ASSUME NEW t \in Tokens
      PROVE  sessions'[t] \in {Nobody} \cup SessionRecords /\ SessionOK(sessions'[t], passed', undone', ids)
  <2> DEFINE x == sessions[t]
             y == [x EXCEPT !.excused = TRUE]
  <2>1. x \in {Nobody} \cup SessionRecords /\ SessionOK(x, passed, undone, ids)
    BY <1>0 DEF AccountsTypeOK, PasswordsAreKnown
  <2>2. \/ sessions'[t] = Nobody
        \/ sessions'[t] = x /\ x # Nobody /\ x.id # id
        \/ sessions'[t] = y /\ x # Nobody
    BY <1>1
  <2> HIDE DEF x
  <2>3. x # Nobody => y \in SessionRecords /\ y.id = x.id /\ y.excused
    BY <2>1 DEF SessionRecords
  <2> HIDE DEF y
  <2>4. x # Nobody => x.id \in 1..MaxIds
    BY <2>1 DEF SessionRecords
  <2>5. CASE sessions'[t] = Nobody
    BY <2>5, NothingToKnow
  <2>6. CASE sessions'[t] = x /\ x # Nobody /\ x.id # id
    BY <1>3, <2>1, <2>4, <2>6 DEF SessionOK
  <2>7. CASE sessions'[t] = y /\ x # Nobody
    BY <2>1, <2>3, <2>7 DEF SessionOK
  <2> QED BY <2>2, <2>5, <2>6, <2>7
<1>6. ASSUME NEW o \in Requests
      PROVE  /\ req'[o] \in AllRequests /\ RequestOK(req'[o], passed', undone', ids)
             /\ TurnedAwayOK(req'[o], wrong)
             /\ \A s \in Sources : IsPending(req'[o], s) => IsPending(req[o], s)
  <2> DEFINE q == req[o]
             m == [q EXCEPT !.raced = TRUE]
  <2>1. q \in AllRequests /\ RequestOK(q, passed, undone, ids) /\ TurnedAwayOK(q, wrong)
    BY <1>0 DEF AccountsTypeOK, PasswordsAreKnown, FailuresAreOwn
  <2>2. \/ req'[o] = NoRequest
        \/ req'[o] = m /\ q.op = "signin" /\ q.acct # Nobody
        \/ req'[o] = q /\ ~(q.op = "signin" /\ q.acct # Nobody /\ q.acct.id = id)
    BY <1>1
  <2>q. q = req[o]
    OBVIOUS
  <2>3. CASE req'[o] = NoRequest
    BY <2>3, NothingToKnow, RequestKinds
  <2> HIDE DEF q
  <2>4. CASE req'[o] = m /\ q.op = "signin" /\ q.acct # Nobody
    <3>1. q \in SignIns
      BY <2>1, <2>4, RequestKinds
    <3>2. /\ m \in SignIns /\ m.op = "signin" /\ m.pc = q.pc /\ m.acct = q.acct /\ m.raced /\ m.source = q.source
          /\ m.pw = q.pw
      BY <3>1 DEF SignIns
    <3> HIDE DEF m
    <3>3. m \in AllRequests /\ RequestOK(m, passed', undone', ids)
      BY <2>1, <2>4, <3>2 DEF AllRequests, RequestOK
    <3>4. TurnedAwayOK(m, wrong) /\ \A s \in Sources : IsPending(m, s) => IsPending(q, s)
      BY <2>1, <2>4, <3>2 DEF TurnedAwayOK, IsPending
    <3> QED BY <2>4, <2>q, <3>3, <3>4
  <2>5. CASE req'[o] = q /\ ~(q.op = "signin" /\ q.acct # Nobody /\ q.acct.id = id)
    <3>1. q.op = "signin" /\ q.acct # Nobody => q.acct.id \in 1..MaxIds /\ q.acct.id # id
      BY <2>1, <2>5, RequestKinds DEF SignIns, Accts
    <3>2. RequestOK(q, passed', undone', ids)
      BY <1>3, <2>1, <3>1 DEF RequestOK
    <3> QED BY <2>1, <2>5, <2>q, <3>2
  <2> QED BY <2>2, <2>3, <2>4, <2>5
<1>7. PasswordsAreKnown'
  BY <1>4, <1>5, <1>6 DEF PasswordsAreKnown
<1>8. FailuresAreOwn' /\ GuessesLeft'
  BY <1>0, <1>6, GuardKept DEF AccountsTypeOK
<1>9. AccountsTypeOK'
  <2>1. users' \in [Usernames -> {Nobody} \cup Accts]
    BY <1>1, <1>4
  <2>2. sessions' \in [Tokens -> {Nobody} \cup SessionRecords]
    BY <1>1, <1>5
  <2>3. req' \in [Requests -> AllRequests]
    BY <1>1, <1>6
  <2> QED BY <1>0, <1>2, <2>1, <2>2, <2>3 DEF AccountsTypeOK
<1> QED BY <1>7, <1>8, <1>9 DEF AccountsInv

LEMMA ChangesKeeps ==
  ASSUME AccountsInv, NEW r \in Requests, Changes(r) \/ Resets(r)
  PROVE  AccountsInv'
<1>0. AccountsTypeOK /\ PasswordsAreKnown
  BY DEF AccountsInv
<1> DEFINE q == req[r]
<1>1. /\ q.op \in {"change", "reset"} /\ SetPassword(r, q.acct.id, q.to, q.keep)
      /\ UNCHANGED <<sources, clock, ids, wrong>>
  BY DEF Changes, Resets, Doing, rest
<1>2. q \in AllRequests /\ RequestOK(q, passed, undone, ids)
  BY <1>0 DEF AccountsTypeOK, PasswordsAreKnown
<1>3. q \in PasswordChanges \/ q \in PasswordResets
  BY <1>1, <1>2, RequestKinds
<1>4. q.acct # Nobody /\ q.acct.id <= ids
  BY <1>1, <1>2 DEF RequestOK
<1>5. q.acct \in {Nobody} \cup Accts /\ q.to \in Passwords
  BY <1>3 DEF PasswordChanges, PasswordResets
<1>6. q.acct.id \in 1..MaxIds
  BY <1>4, <1>5 DEF Accts
<1> QED BY <1>1, <1>4, <1>5, <1>6, SetPasswordKeeps



(* An account that is added has an id nobody had.                          *)
LEMMA CreatesKeeps ==
  ASSUME AccountsInv, NEW r \in Requests, Creates(r)
  PROVE  AccountsInv'
<1>0. AccountsTypeOK /\ PasswordsAreKnown /\ FailuresAreOwn /\ GuessesLeft
  BY DEF AccountsInv
<1> DEFINE q == req[r]
           n == q.name
           i == ids + 1
           p == q.to
           u == [id |-> i, pw |-> p, weak |-> FALSE, locked |-> 0]
<1>1. /\ q.op = "create" /\ ids < MaxIds /\ req' = [req EXCEPT ![r] = NoRequest]
      /\ UNCHANGED <<sessions, sources, clock, undone, wrong>>
      /\ \/ UNCHANGED <<users, ids, passed>>
         \/ ids' = i /\ users' = [users EXCEPT ![n] = u] /\ passed' = [passed EXCEPT ![i] = p]
  BY DEF Creates, Doing, Done, Step
<1>2. ids \in Nat /\ MaxIds \in Nat /\ i \in 1..MaxIds /\ i \in 0..MaxIds /\ ids <= i
  <2>1. ids \in 0..MaxIds /\ MaxIds \in Nat
    BY <1>0, AccountsAssumption DEF AccountsTypeOK, AccountsAssumption
  <2> QED BY <1>1, <2>1
<1>3. q \in Creations
  BY <1>0, <1>1, RequestKinds DEF AccountsTypeOK
<1>4. n \in Usernames /\ p \in Passwords
  BY <1>3 DEF Creations
<1>5. CASE UNCHANGED <<users, ids, passed>>
  BY <1>1, <1>5, EndsKeep DEF Done, Step
<1>6. CASE ids' = i /\ users' = [users EXCEPT ![n] = u] /\ passed' = [passed EXCEPT ![i] = p]
  <2>0. \A k \in Nat : k <= ids => k # i /\ k <= i
    BY <1>2
  <2>i. ids' = i /\ users' = [users EXCEPT ![n] = u] /\ passed' = [passed EXCEPT ![i] = p] /\ undone' = undone
    BY <1>1, <1>6
  <2> HIDE DEF n, p
  <2>1. u \in Accts /\ u.id = i /\ u.pw = p
    BY <1>2, <1>4 DEF Accts
  <2> HIDE DEF u, i
  <2>2. \A k \in 1..MaxIds : \A pw : k # i /\ Current(k, pw, passed, undone) => Current(k, pw, passed', undone')
    BY <1>0, <1>2, <2>i, ElsewhereKnown
  <2>3. passed'[i] = p /\ passed' \in [1..MaxIds -> Passwords \cup {Nobody}]
    BY <1>0, <1>2, <1>4, <2>i DEF AccountsTypeOK
  <2>m. i <= i /\ \A k \in 1..MaxIds : k \in Nat
    BY <1>2
  <2>4. UserOK(u, passed', undone', i)
    BY <2>1, <2>3, <2>m DEF UserOK, Current
  <2>5. ASSUME NEW m \in Usernames PROVE UserOK(users'[m], passed', undone', i)
    <3>1. CASE m = n
      BY <1>0, <1>4, <2>4, <2>i, <3>1 DEF AccountsTypeOK
    <3>2. CASE m # n
      <4>1. users'[m] = users[m] /\ users[m] \in {Nobody} \cup Accts /\ UserOK(users[m], passed, undone, ids)
        BY <1>0, <2>i, <3>2 DEF AccountsTypeOK, PasswordsAreKnown
      <4>2. users[m] # Nobody => users[m].id \in 1..MaxIds
        BY <4>1 DEF Accts
      <4> QED BY <2>0, <2>2, <2>m, <4>1, <4>2 DEF UserOK
    <3> QED BY <3>1, <3>2
  <2>6. ASSUME NEW t \in Tokens PROVE SessionOK(sessions'[t], passed', undone', i)
    <3>1. /\ sessions'[t] = sessions[t] /\ sessions[t] \in {Nobody} \cup SessionRecords
          /\ SessionOK(sessions[t], passed, undone, ids)
      BY <1>0, <1>1 DEF AccountsTypeOK, PasswordsAreKnown
    <3>2. sessions[t] # Nobody => sessions[t].id \in 1..MaxIds
      BY <3>1 DEF SessionRecords
    <3> QED BY <2>0, <2>2, <2>m, <3>1, <3>2 DEF SessionOK
  <2>7. req' \in [Requests -> AllRequests] /\ req'[r] = NoRequest /\ \A o \in Requests : o # r => req'[o] = req[o]
    BY <1>0, <1>1, RequestEnds, OneRequest
  <2>8. ASSUME NEW o \in Requests PROVE RequestOK(req'[o], passed', undone', i)
    <3> DEFINE z == req[o]
    <3>1. CASE o = r
      BY <2>7, <3>1, RequestEnds
    <3>2. CASE o # r
      <4>1. req'[o] = z /\ z \in AllRequests /\ RequestOK(z, passed, undone, ids)
        BY <1>0, <2>7, <3>2 DEF AccountsTypeOK, PasswordsAreKnown
      <4> HIDE DEF z
      <4>2. z.op \in {"signin", "change", "reset", "unlock"} => z.acct \in {Nobody} \cup Accts
        BY <4>1, RequestKinds DEF SignIns, PasswordChanges, PasswordResets, Unlockings
      <4>3. z.op \in {"signin", "change", "reset", "unlock"} /\ z.acct # Nobody => z.acct.id \in 1..MaxIds
        BY <4>2 DEF Accts
      <4>4. RequestOK(z, passed', undone', i)
        BY <2>0, <2>2, <2>m, <4>1, <4>3 DEF RequestOK
      <4> QED BY <4>1, <4>4
    <3> QED BY <3>1, <3>2
  <2>9. PasswordsAreKnown'
    BY <2>5, <2>6, <2>8, <2>i DEF PasswordsAreKnown
  <2>10. FailuresAreOwn' /\ GuessesLeft'
    BY <1>0, <1>1, <2>7, NothingToKnow, GuardKept DEF AccountsTypeOK
  <2>11. AccountsTypeOK'
    BY <1>0, <1>1, <1>2, <2>1, <2>3, <2>7, <2>i DEF AccountsTypeOK
  <2> QED BY <2>9, <2>10, <2>11 DEF AccountsInv
<1> QED BY <1>1, <1>5, <1>6

LEMMA RemovesKeeps ==
  ASSUME AccountsInv, NEW r \in Requests, Removes(r)
  PROVE  AccountsInv'
<1>0. AccountsTypeOK
  BY DEF AccountsInv
<1> DEFINE n == req[r].name
           T == {t \in Tokens : sessions[t] # Nobody /\ sessions[t].id = users[n].id}
<1>1. /\ Done(r) /\ UNCHANGED <<sources, clock, ids, passed, undone, wrong>>
      /\ \/ UNCHANGED <<users, sessions>>
         \/ users' = [users EXCEPT ![n] = Nobody] /\ Ending(T)
  BY DEF Removes, dbVars, rest
<1>2. CASE UNCHANGED <<users, sessions>>
  BY <1>1, <1>2, EndsKeep
<1>3. CASE users' = [users EXCEPT ![n] = Nobody] /\ Ending(T)
  <2> HIDE DEF n, T
  <2>1. req' = [req EXCEPT ![r] = NoRequest]
    BY <1>1 DEF Done, Step
  <2>2. /\ sessions' \in [Tokens -> {Nobody} \cup SessionRecords]
        /\ \A t \in Tokens : sessions'[t] = sessions[t] \/ SessionOK(sessions'[t], passed, undone, ids)
    BY <1>0, <1>3, NothingToKnow DEF AccountsTypeOK, Ending
  <2>3. /\ users' \in [Usernames -> {Nobody} \cup Accts]
        /\ \A m \in Usernames : users'[m] = users[m] \/ UserOK(users'[m], passed, undone, ids)
    BY <1>0, <1>3, NothingToKnow DEF AccountsTypeOK
  <2> QED BY <1>0, <1>1, <2>1, <2>2, <2>3, RequestEnds, RequestMoves DEF AccountsTypeOK
<1> QED BY <1>1, <1>2, <1>3

(* What is asked for that no throttle guards.                              *)
LEMMA AsksRestKeep ==
  ASSUME AccountsInv, NEW r \in Requests, NEW n \in Usernames,
         \/ \E t \in Tokens, p \in Passwords : AsksReset(r, t, n, p)
         \/ \E t \in Tokens : AsksRemove(r, t, n)
         \/ \E p \in Passwords, by \in {"administrator", "adduser", "setup"} : CreateAccount(r, n, p, by)
         \/ AsksUnlock(r, n)
  PROVE  AccountsInv'
<1>0. users[n] \in {Nobody} \cup Accts /\ UserOK(users[n], passed, undone, ids)
  BY DEF AccountsInv, AccountsTypeOK, PasswordsAreKnown
<1> DEFINE a == users[n]
<1>1. ASSUME NEW t \in Tokens, NEW p \in Passwords, AsksReset(r, t, n, p) PROVE AccountsInv'
  <2> DEFINE keep == IF sessions[t].id = users[n].id THEN t ELSE Nobody
             q == [op |-> "reset", pc |-> "set", name |-> n, acct |-> a, to |-> p, keep |-> keep]
  <2>1. a # Nobody /\ Begins(r, q) /\ UNCHANGED <<users, sessions, sources, clock, ids, passed, undone, wrong>>
    BY <1>1 DEF AsksReset, dbVars, rest
  <2>2. keep \in Tokens \cup {Nobody} /\ a \in {Nobody} \cup Accts /\ UserOK(a, passed, undone, ids)
    BY <1>0
  <2> HIDE DEF keep, a
  <2>3. q \in PasswordResets /\ q.op = "reset" /\ q.acct = a
    BY <2>2 DEF PasswordResets
  <2> HIDE DEF q
  <2>4. q \in AllRequests /\ RequestOK(q, passed, undone, ids)
    BY <2>1, <2>2, <2>3 DEF AllRequests, RequestOK, UserOK
  <2> QED BY <2>1, <2>3, <2>4, AsksKeep
<1>2. ASSUME NEW t \in Tokens, AsksRemove(r, t, n) PROVE AccountsInv'
  <2> DEFINE q == [op |-> "remove", pc |-> "delete", name |-> n]
  <2>1. Begins(r, q) /\ UNCHANGED <<users, sessions, sources, clock, ids, passed, undone, wrong>>
    BY <1>2 DEF AsksRemove, dbVars, rest
  <2>2. q \in Removals /\ q.op = "remove"
    BY DEF Removals
  <2> HIDE DEF q
  <2>3. q \in AllRequests /\ RequestOK(q, passed, undone, ids)
    BY <2>2 DEF AllRequests, RequestOK
  <2> QED BY <2>1, <2>2, <2>3, AsksKeep
<1>3. ASSUME NEW p \in Passwords, NEW by \in {"administrator", "adduser", "setup"}, CreateAccount(r, n, p, by)
      PROVE  AccountsInv'
  <2> DEFINE q == [op |-> "create", pc |-> "insert", name |-> n, to |-> p, by |-> by]
  <2>1. Begins(r, q) /\ UNCHANGED <<users, sessions, sources, clock, ids, passed, undone, wrong>>
    BY <1>3 DEF CreateAccount, dbVars, rest
  <2>2. q \in Creations /\ q.op = "create"
    BY <1>3 DEF Creations
  <2> HIDE DEF q
  <2>3. q \in AllRequests /\ RequestOK(q, passed, undone, ids)
    BY <2>2 DEF AllRequests, RequestOK
  <2> QED BY <2>1, <2>2, <2>3, AsksKeep
<1>4. ASSUME AsksUnlock(r, n) PROVE AccountsInv'
  <2> DEFINE q == [op |-> "unlock", pc |-> "clear", name |-> n, acct |-> a]
  <2>1. a # Nobody /\ Begins(r, q) /\ UNCHANGED <<users, sessions, sources, clock, ids, passed, undone, wrong>>
    BY <1>4 DEF AsksUnlock, dbVars, rest
  <2>2. a \in {Nobody} \cup Accts /\ UserOK(a, passed, undone, ids)
    BY <1>0
  <2> HIDE DEF a
  <2>3. q \in Unlockings /\ q.op = "unlock" /\ q.acct = a
    BY <2>2 DEF Unlockings
  <2> HIDE DEF q
  <2>4. q \in AllRequests /\ RequestOK(q, passed, undone, ids)
    BY <2>1, <2>2, <2>3 DEF AllRequests, RequestOK, UserOK
  <2> QED BY <2>1, <2>3, <2>4, AsksKeep
<1> QED BY <1>1, <1>2, <1>3, <1>4

LEMMA DaemonRestartsKeeps ==
  ASSUME AccountsInv, DaemonRestarts
  PROVE  AccountsInv'
<1>0. AccountsTypeOK /\ PasswordsAreKnown /\ FailuresAreOwn
  BY DEF AccountsInv
<1>1. /\ sources' = [s \in Sources |-> Nobody] /\ wrong' = [s \in Sources |-> 0]
      /\ req' = [r \in Requests |-> IF OwnProcess(r) THEN req[r] ELSE NoRequest]
      /\ UNCHANGED <<users, sessions, clock, ids, passed, undone>>
  BY DEF DaemonRestarts, Unsuspected, dbVars
<1>2. ASSUME NEW r \in Requests
      PROVE  /\ req'[r] \in AllRequests /\ (req'[r] = req[r] \/ RequestOK(req'[r], passed, undone, ids))
             /\ \A W : TurnedAwayOK(req'[r], W)
  <2>1. CASE OwnProcess(r)
    <3>1. req'[r] = req[r] /\ req[r] \in AllRequests /\ req[r].op \notin {"signin", "change"}
      BY <1>0, <1>1, <2>1 DEF OwnProcess, AccountsTypeOK
    <3> QED BY <3>1 DEF TurnedAwayOK
  <2>2. CASE ~OwnProcess(r)
    <3>1. req'[r] = NoRequest
      BY <1>1, <2>2
    <3> QED BY <3>1, RequestEnds, NothingToKnow
  <2> QED BY <2>1, <2>2
<1>3. PasswordsAreKnown'
  BY <1>0, <1>1, <1>2, PasswordsKept
<1>4. FailuresAreOwn' /\ GuessesLeft'
  BY <1>1, <1>2 DEF FailuresAreOwn, GuessesLeft, TallyOK
<1>5. AccountsTypeOK'
  BY <1>0, <1>1, <1>2 DEF AccountsTypeOK
<1> QED BY <1>3, <1>4, <1>5 DEF AccountsInv

LEMMA AccountsQuiet ==
  ASSUME AccountsInv, UNCHANGED <<users, sessions, sources, req, ids, passed, undone, wrong>>, clock' \in Nat
  PROVE  AccountsInv'
<1>1. AccountsTypeOK
  BY DEF AccountsInv
<1> QED BY <1>1, QuietStep DEF AccountsTypeOK

LEMMA AccountsStep == AccountsInv /\ [AccountsNext]_accountVars => AccountsInv'
<1> SUFFICES ASSUME AccountsInv, [AccountsNext]_accountVars PROVE AccountsInv'
  OBVIOUS
<1>c. clock \in Nat
  BY DEF AccountsInv, AccountsTypeOK
<1>1. ASSUME NEW r \in Requests, LockedOut(r) \/ Abandons(r) PROVE AccountsInv'
  BY <1>1, EndsKeep DEF LockedOut, Abandons, dbVars, rest
<1>2. CASE SigningIn
  <2>1. CASE ClockTicks
    BY <1>c, <2>1, AccountsQuiet DEF ClockTicks, dbVars
  <2> QED BY <1>1, <1>2, <2>1, ArrivesKeeps, AsksRestKeep, SignInFailsKeeps, MarksKeeps, SignInSucceedsKeeps,
             RecordsSignInKeeps, UpgradesKeeps, OpensSessionKeeps, UnlocksKeeps DEF SigningIn
<1>3. CASE Administering
  <2>1. ASSUME NEW r \in Requests, NEW n \in Usernames, NEW p \in Passwords,
               AddUser(r, n, p) \/ SetsUp(r, n, p) \/ \E t \in Tokens : AsksCreate(r, t, n, p)
        PROVE  AccountsInv'
    <3>1. PICK by \in {"administrator", "adduser", "setup"} : CreateAccount(r, n, p, by)
      BY <2>1 DEF AddUser, SetsUp, AsksCreate
    <3> QED BY <3>1, AsksRestKeep
  <2> QED BY <1>3, <2>1, AsksChangeKeeps, AsksRestKeep, ChangeFailsKeeps, ChangeVerifiedKeeps, ChangesKeeps,
             RemovesKeeps, CreatesKeeps DEF Administering
<1>4. CASE Ageing
  <2>1. ASSUME NEW t \in Tokens, ExpiredPresented(t) \/ Logout(t) PROVE AccountsInv'
    BY <2>1, SessionsEnd DEF ExpiredPresented, Logout
  <2>2. CASE SweepSessions
    BY <2>2, SessionsEnd DEF SweepSessions
  <2>3. CASE SetupNoticed
    BY <1>c, <2>3, AccountsQuiet DEF SetupNoticed, dbVars
  <2> QED BY <1>4, <2>1, <2>2, <2>3, DaemonRestartsKeeps DEF Ageing
<1>5. CASE UNCHANGED accountVars
  BY <1>c, <1>5, AccountsQuiet DEF accountVars, dbVars
<1> QED BY <1>2, <1>3, <1>4, <1>5 DEF AccountsNext

LEMMA AccountsInvariant == AccountsSpec => []AccountsInv
BY AccountsInitInv, AccountsStep, PTL DEF AccountsSpec

(* Nobody else is affected by somebody's guessing (login.go): an address is*)
(* turned away only after it has itself sent SignInFailures wrong passwords*)
(* and no more of its passwords are checked in one lockout than the limit  *)
(* and the requests under way.                                             *)
THEOREM SignInsAreGuarded == AccountsSpec => []SignInIsGuarded
BY AccountsInvariant, AccountsInvImplies, PTL

(* A new password signs everybody else out (users.go): a session is held on*)
(* the password set last, or is one of those OldPasswordSignedOut excuses. *)
THEOREM OldPasswordsAreSignedOut == AccountsSpec => []OldPasswordSignedOut
BY AccountsInvariant, AccountsInvImplies, PTL

-----------------------------------------------------------------------------
(***************************************************************************)
(* Access: whatever the entries of a list, in whatever order, the list     *)
(* that Parse makes names exactly the IDs the entries cover.               *)
(***************************************************************************)

(* A set of numbers that is not empty has a least one.                     *)
LEMMA LeastNumber ==
  ASSUME NEW S \in SUBSET Nat, S # {}
  PROVE  \E m \in S : \A n \in S : m <= n
<1> DEFINE R == OpToRel(<, Nat)
<1>1. IsWellFoundedOn(R, Nat)
  BY NatLessThanWellFounded
<1>2. \A x, y \in Nat : x < y => <<x, y>> \in R
  BY DEF OpToRel
<1> HIDE DEF R
<1>3. PICK x \in S : \A y \in S : ~ (<<y, x>> \in R)
  BY <1>1, WFMin
<1>4. ASSUME NEW y \in S PROVE x <= y
  <2>1. x \in Nat /\ y \in Nat /\ ~(y < x)
    BY <1>2, <1>3
  <2> QED BY <2>1
<1> QED BY <1>4

Entries == [lo : 1..MaxID, hi : 1..MaxID]

(* SpanBefore orders the entries.                                          *)
LEMMA BeforeIsOrder ==
  ASSUME NEW a \in Entries, NEW b \in Entries, NEW c \in Entries
  PROVE  /\ ~SpanBefore(a, a)
         /\ SpanBefore(a, b) => ~SpanBefore(b, a)
         /\ SpanBefore(a, b) /\ ~SpanBefore(c, b) => ~SpanBefore(c, a)
         /\ ~SpanBefore(b, a) => a.lo <= b.lo
<1>1. MaxID \in Nat /\ a.lo \in 1..MaxID /\ a.hi \in 1..MaxID /\ b.lo \in 1..MaxID
        /\ b.hi \in 1..MaxID /\ c.lo \in 1..MaxID /\ c.hi \in 1..MaxID
  BY MaxIDAssumption DEF Entries
<1> QED BY <1>1 DEF SpanBefore

(* The first k entries of f, put in order by q.                            *)
Orders(q, f, k) ==
  /\ q \in [1..k -> 1..k]
  /\ \A i, j \in 1..k : q[i] = q[j] => i = j
  /\ \A j \in 1..k : \E i \in 1..k : q[i] = j
  /\ \A i, j \in 1..k : i < j => ~SpanBefore(f[q[j]], f[q[i]])

(* One entry more is put in before the first one that is greater.          *)
LEMMA OneMore ==
  ASSUME NEW n \in Nat, NEW f \in [1..n -> Entries], NEW k \in Nat, k < n,
         NEW q, Orders(q, f, k)
  PROVE  \E r : Orders(r, f, k + 1)
<1> DEFINE K == k + 1
           later == {i \in 1..K : i = K \/ SpanBefore(f[K], f[q[i]])}
<1>0. K \in 1..n /\ f[K] \in Entries /\ K \in later /\ K \in Nat
  OBVIOUS
<1>1. PICK m \in later : \A i \in later : m <= i
  <2>1. later \subseteq Nat
    BY <1>0 DEF K
  <2>2. later # {}
    BY <1>0
  <2> HIDE DEF later
  <2> QED BY <2>1, <2>2, LeastNumber
<1>2. m \in 1..K /\ (m = K \/ SpanBefore(f[K], f[q[m]]))
  OBVIOUS
<1>3. \A i \in 1..K : i < m => ~SpanBefore(f[K], f[q[i]])
  BY <1>1, <1>2
<1> DEFINE r == [i \in 1..K |-> IF i < m THEN q[i] ELSE IF i = m THEN K ELSE q[i - 1]]
<1>a. /\ q \in [1..k -> 1..k] /\ \A i, j \in 1..k : q[i] = q[j] => i = j
      /\ \A j \in 1..k : \E i \in 1..k : q[i] = j
      /\ \A i, j \in 1..k : i < j => ~SpanBefore(f[q[j]], f[q[i]])
  BY DEF Orders
<1>b. \A i \in 1..k : f[q[i]] \in Entries /\ q[i] \in 1..k /\ q[i] # K
  BY <1>a, <1>0
<1> HIDE DEF later
<1>c. \A i \in 1..K : /\ i < m => i \in 1..k /\ r[i] = q[i]
                      /\ i = m => r[i] = K
                      /\ i > m => i - 1 \in 1..k /\ r[i] = q[i - 1]
  BY <1>0, <1>2
<1>d. ASSUME NEW i \in 1..K PROVE r[i] \in 1..K
  <2> HIDE DEF r
  <2>1. r[i] = K \/ r[i] \in 1..k
    <3>1. CASE i < m
      BY <1>b, <1>c, <3>1
    <3>2. CASE i = m
      BY <1>c, <3>2
    <3>3. CASE i > m
      BY <1>b, <1>c, <3>3
    <3> QED BY <1>0, <1>2, <3>1, <3>2, <3>3
  <2> QED BY <1>0, <2>1
<1>4. r \in [1..K -> 1..K]
  BY <1>d
<1> HIDE DEF r
<1>5. \A i, j \in 1..K : r[i] = r[j] => i = j
  <2> SUFFICES ASSUME NEW i \in 1..K, NEW j \in 1..K, r[i] = r[j], i < j PROVE FALSE
    BY <1>0
  <2>1. CASE j < m
    BY <1>2, <1>a, <1>c, <2>1
  <2>2. CASE j = m
    BY <1>2, <1>b, <1>c, <2>2
  <2>3. CASE j > m /\ i = m
    BY <1>2, <1>b, <1>c, <2>3
  <2>4. CASE j > m /\ i < m
    <3>1. q[i] = q[j - 1] /\ i \in 1..k /\ j - 1 \in 1..k
      BY <1>c, <2>4
    <3>2. i = j - 1
      BY <1>a, <3>1
    <3> QED BY <1>2, <2>4, <3>2
  <2>5. CASE j > m /\ i > m
    <3>1. q[i - 1] = q[j - 1] /\ i - 1 \in 1..k /\ j - 1 \in 1..k
      BY <1>c, <2>5
    <3>2. i - 1 = j - 1
      BY <1>a, <3>1
    <3> QED BY <1>0, <3>2
  <2> QED BY <1>0, <1>2, <2>1, <2>2, <2>3, <2>4, <2>5
<1>6. \A j \in 1..K : \E i \in 1..K : r[i] = j
  <2> SUFFICES ASSUME NEW j \in 1..K PROVE \E i \in 1..K : r[i] = j
    OBVIOUS
  <2>1. CASE j = K
    BY <1>2, <1>c, <2>1
  <2>2. CASE j # K
    <3>1. j \in 1..k
      BY <1>0, <2>2
    <3>2. PICK i \in 1..k : q[i] = j
      BY <1>a, <3>1
    <3>3. CASE i < m
      BY <1>0, <1>c, <3>2, <3>3
    <3>4. CASE ~(i < m)
      <4>1. i + 1 \in 1..K /\ i + 1 > m /\ (i + 1) - 1 = i
        BY <1>0, <1>2, <3>4
      <4>2. r[i + 1] = q[i]
        BY <1>c, <4>1
      <4> QED BY <3>2, <4>1, <4>2
    <3> QED BY <3>3, <3>4
  <2> QED BY <2>1, <2>2
<1>7. ASSUME NEW i \in 1..K, NEW j \in 1..K, i < j PROVE ~SpanBefore(f[r[j]], f[r[i]])
  <2>1. CASE j < m
    <3>1. i \in 1..k /\ j \in 1..k /\ r[i] = q[i] /\ r[j] = q[j]
      BY <1>2, <1>c, <1>7, <2>1
    <3> QED BY <1>a, <1>7, <3>1
  <2>2. CASE j = m
    BY <1>3, <1>c, <1>7, <2>2
  <2>3. CASE j > m /\ i < m
    <3>1. i < j - 1 /\ i \in 1..k /\ j - 1 \in 1..k /\ r[i] = q[i] /\ r[j] = q[j - 1]
      BY <1>2, <1>c, <2>3
    <3> QED BY <1>a, <3>1
  <2>4. CASE j > m /\ i > m
    <3>1. i - 1 < j - 1 /\ i - 1 \in 1..k /\ j - 1 \in 1..k /\ r[i] = q[i - 1] /\ r[j] = q[j - 1]
      BY <1>2, <1>7, <1>c, <2>4
    <3> QED BY <1>a, <3>1
  <2>5. CASE j > m /\ i = m
    <3>1. j - 1 \in 1..k /\ r[i] = K /\ r[j] = q[j - 1] /\ m \in 1..k /\ m <= j - 1
      BY <1>0, <1>2, <1>c, <2>5
    <3>2. SpanBefore(f[K], f[q[m]])
      BY <1>0, <1>2, <3>1
    <3>3. ~SpanBefore(f[q[j - 1]], f[q[m]])
      <4>1. CASE m = j - 1
        BY <1>b, <3>1, <4>1, BeforeIsOrder
      <4>2. CASE m < j - 1
        BY <1>a, <3>1, <4>2
      <4> QED BY <3>1, <4>1, <4>2
    <3> DEFINE a == f[K]
               b == f[q[m]]
               c == f[q[j - 1]]
    <3>4. a \in Entries /\ b \in Entries /\ c \in Entries
      BY <1>0, <1>b, <3>1
    <3>5. SpanBefore(a, b) /\ ~SpanBefore(c, b)
      BY <3>2, <3>3
    <3> HIDE DEF a, b, c
    <3>6. ~SpanBefore(c, a)
      BY <3>4, <3>5, BeforeIsOrder
    <3> QED BY <3>1, <3>6 DEF a, c
  <2> QED BY <1>0, <1>2, <2>1, <2>2, <2>3, <2>4, <2>5
<1> QED BY <1>4, <1>5, <1>6, <1>7 DEF Orders

(* So the entries of any list can be put in order.                         *)
LEMMA CanBeSorted ==
  ASSUME NEW n \in Nat, NEW f \in [1..n -> Entries]
  PROVE  \E q : Orders(q, f, n)
<1> DEFINE S == {k \in 0..n : ~\E q : Orders(q, f, k)}
<1> SUFFICES ASSUME ~\E q : Orders(q, f, n) PROVE FALSE
  OBVIOUS
<1>0. S # {}
  <2>1. n \in S
    OBVIOUS
  <2> QED BY <2>1
<1>1. PICK k \in S : \A j \in S : k <= j
  <2>1. S \in SUBSET Nat
    OBVIOUS
  <2> HIDE DEF S
  <2> QED BY <1>0, <2>1, LeastNumber
<1>2. k # 0
  <2>1. Orders(<<>>, f, 0)
    BY DEF Orders
  <2> QED BY <1>1, <2>1
<1>3. k - 1 \in 0..n /\ k - 1 < n /\ k - 1 \notin S
  BY <1>1, <1>2
<1>4. PICK q : Orders(q, f, k - 1)
  BY <1>3
<1>5. \E r : Orders(r, f, k)
  <2> DEFINE j == k - 1
  <2>1. j \in Nat /\ j < n /\ Orders(q, f, j) /\ j + 1 = k
    BY <1>1, <1>3, <1>4
  <2> HIDE DEF j
  <2>2. \E r : Orders(r, f, j + 1)
    BY <2>1, OneMore
  <2> QED BY <2>1, <2>2
<1> QED BY <1>1, <1>5

(* sort.Slice gives the entries back, none after a greater one.            *)
LEMMA SortedIs ==
  ASSUME NEW f \in Seq(Entries)
  PROVE  /\ Sorted(f) \in Seq(Entries) /\ Len(Sorted(f)) = Len(f)
         /\ \A i \in 1..Len(f) : \E j \in 1..Len(f) : Sorted(f)[i] = f[j]
         /\ \A j \in 1..Len(f) : \E i \in 1..Len(f) : Sorted(f)[i] = f[j]
         /\ \A i, j \in 1..Len(f) : i < j => Sorted(f)[i].lo <= Sorted(f)[j].lo
<1> DEFINE n == Len(f)
           D == DOMAIN f
           Good(q) == /\ q \in Bijection(D, D)
                      /\ \A i, j \in D : i < j => ~SpanBefore(f[q[j]], f[q[i]])
           order == CHOOSE q \in Bijection(D, D) :
                      \A i, j \in D : i < j => ~SpanBefore(f[q[j]], f[q[i]])
<1>1. n \in Nat /\ D = 1..n /\ f \in [1..n -> Entries]
  BY LenProperties
<1>2. PICK q : Orders(q, f, n)
  <2> HIDE DEF n
  <2> QED BY <1>1, CanBeSorted
<1>3. q \in Bijection(D, D) /\ \A i, j \in D : i < j => ~SpanBefore(f[q[j]], f[q[i]])
  <2> HIDE DEF n, D
  <2> QED BY <1>1, <1>2 DEF Orders, Bijection, Injection, Surjection, IsInjective
<1>4. /\ order \in Bijection(D, D)
      /\ \A i, j \in D : i < j => ~SpanBefore(f[order[j]], f[order[i]])
  <2> HIDE DEF D
  <2> QED BY <1>3, Zenon
<1>5. Sorted(f) = [i \in D |-> f[order[i]]]
  BY DEF Sorted
<1> HIDE DEF order, D
<1>6. order \in [D -> D] /\ \A j \in D : \E i \in D : order[i] = j
  BY <1>4 DEF Bijection, Surjection
<1>7. \A i \in 1..n : Sorted(f)[i] = f[order[i]] /\ order[i] \in 1..n /\ f[order[i]] \in Entries
  BY <1>1, <1>5, <1>6
<1>8. Sorted(f) \in Seq(Entries) /\ Len(Sorted(f)) = n
  <2> HIDE DEF n
  <2>1. Sorted(f) = [i \in 1..n |-> Sorted(f)[i]]
    BY <1>1, <1>5
  <2>2. \A i \in 1..n : Sorted(f)[i] \in Entries
    BY <1>7
  <2>3. Sorted(f) \in [1..n -> Entries]
    BY <2>1, <2>2
  <2> QED BY <1>1, <2>3
<1>9. \A i, j \in 1..n : i < j => Sorted(f)[i].lo <= Sorted(f)[j].lo
  <2> HIDE DEF n
  <2> SUFFICES ASSUME NEW i \in 1..n, NEW j \in 1..n, i < j
               PROVE  Sorted(f)[i].lo <= Sorted(f)[j].lo
    OBVIOUS
  <2> DEFINE a == f[order[i]]
             b == f[order[j]]
  <2>1. a \in Entries /\ b \in Entries /\ ~SpanBefore(b, a)
    BY <1>1, <1>4, <1>7
  <2> HIDE DEF a, b
  <2>2. a.lo <= b.lo
    BY <2>1, BeforeIsOrder
  <2> QED BY <1>7, <2>2 DEF a, b
<1>10. \A i \in 1..n : \E j \in 1..n : Sorted(f)[i] = f[j]
  <2> HIDE DEF n
  <2> QED BY <1>7
<1>11. ASSUME NEW j \in 1..n PROVE \E i \in 1..n : Sorted(f)[i] = f[j]
  <2> HIDE DEF n
  <2>1. PICK i \in 1..n : order[i] = j
    BY <1>1, <1>6
  <2> QED BY <1>7, <2>1
<1> QED BY <1>8, <1>9, <1>10, <1>11

(* What merge has made of the first k ranges of s: they ascend with a gap  *)
(* between them, and cover what was there.                                 *)
Covers(q, id) == \E i \in 1..Len(q) : q[i].lo <= id /\ id <= q[i].hi

MergedTo(out, s, k) ==
  /\ out \in Seq(Entries)
  /\ k > 0 => out # <<>> /\ Last(out).lo <= s[k].lo
  /\ k = 0 => out = <<>>
  /\ \A i \in 1..Len(out) : out[i].lo <= out[i].hi
  /\ \A i, j \in 1..Len(out) : i < j => out[i].hi + 1 < out[j].lo
  /\ \A id \in 1..MaxID :
       Covers(out, id) <=> \E i \in 1..k : s[i].lo <= id /\ id <= s[i].hi

(* One past the largest ID is 0, which no entry names.                     *)
LEMMA TouchesIs ==
  ASSUME NEW a \in Entries, NEW b \in Entries
  PROVE  Touches(a, b) <=> b.lo <= a.hi + 1
<1>1. MaxID \in Nat \ {0} /\ a.hi \in 1..MaxID /\ b.lo \in 1..MaxID
  BY MaxIDAssumption DEF Entries
<1> DEFINE M == MaxID + 1
           x == a.hi + 1
           r == x % M
<1>2. M \in Nat \ {0} /\ x \in 1..M
  BY <1>1
<1>3. r = IF x = M THEN 0 ELSE x
  <2> HIDE DEF M, x
  <2>1. CASE x = M
    BY <1>2, <2>1
  <2>2. CASE x # M
    BY <1>2, <2>2
  <2> QED BY <2>1, <2>2
<1>4. Touches(a, b) <=> b.lo <= a.hi \/ b.lo = r
  BY DEF Touches
<1> HIDE DEF r
<1> QED BY <1>1, <1>3, <1>4

(* One more range is taken into the last one, or starts the next.          *)
LEMMA ExtendStep ==
  ASSUME NEW s \in Seq(Entries), NEW k \in Nat, k < Len(s),
         \A i \in 1..Len(s) : s[i].lo <= s[i].hi,
         \A i, j \in 1..Len(s) : i < j => s[i].lo <= s[j].lo,
         NEW out, MergedTo(out, s, k)
  PROVE  MergedTo(Extend(out, s[k + 1]), s, k + 1)
<1> DEFINE K == k + 1
           x == s[K]
           n == Len(out)
<1>0. /\ MaxID \in Nat /\ Len(s) \in Nat /\ K \in 1..Len(s) /\ x \in Entries
      /\ x.lo \in 1..MaxID /\ x.hi \in 1..MaxID /\ x.lo <= x.hi /\ K \in Nat /\ K > 0
  <2>1. MaxID \in Nat /\ Len(s) \in Nat /\ K \in 1..Len(s) /\ K \in Nat /\ K > 0
    BY MaxIDAssumption, LenProperties
  <2>2. x \in Entries /\ x.lo <= x.hi
    <3> HIDE DEF K
    <3> QED BY <2>1
  <2> HIDE DEF x
  <2>3. x.lo \in 1..MaxID /\ x.hi \in 1..MaxID
    BY <2>2 DEF Entries
  <2> QED BY <2>1, <2>2, <2>3
<1>1. /\ out \in Seq(Entries) /\ n \in Nat /\ DOMAIN out = 1..n
      /\ \A i \in 1..n : out[i].lo <= out[i].hi /\ out[i] \in Entries
                           /\ out[i].lo \in 1..MaxID /\ out[i].hi \in 1..MaxID
      /\ \A i, j \in 1..n : i < j => out[i].hi + 1 < out[j].lo
      /\ \A id \in 1..MaxID : Covers(out, id) <=> \E i \in 1..k : s[i].lo <= id /\ id <= s[i].hi
  <2>1. out \in Seq(Entries) /\ n \in Nat /\ DOMAIN out = 1..n
    BY LenProperties DEF MergedTo
  <2>2. \A i \in 1..n : out[i] \in Entries
    BY <2>1
  <2>3. \A e \in Entries : e.lo \in 1..MaxID /\ e.hi \in 1..MaxID
    BY DEF Entries
  <2> QED BY <2>1, <2>2, <2>3 DEF MergedTo
<1>2. \A id \in 1..MaxID :
        (\E i \in 1..K : s[i].lo <= id /\ id <= s[i].hi)
          <=> \/ \E i \in 1..k : s[i].lo <= id /\ id <= s[i].hi
              \/ x.lo <= id /\ id <= x.hi
  <2>1. \A i : i \in 1..K <=> i \in 1..k \/ i = K
    BY <1>0
  <2> HIDE DEF K
  <2> QED BY <2>1
<1>3. CASE out # <<>> /\ Touches(Last(out), x)
  <2> DEFINE last == out[n]
             top  == IF x.hi > last.hi THEN x.hi ELSE last.hi
             wide == [last EXCEPT !.hi = top]
             o    == [out EXCEPT ![n] = wide]
  <2>1. n \in 1..n /\ last \in Entries /\ last.lo \in 1..MaxID /\ last.hi \in 1..MaxID
          /\ last.lo <= last.hi
    <3>1. n # 0
      BY <1>1, <1>3, EmptySeq
    <3> QED BY <1>1, <3>1
  <2>2. Extend(out, x) = o
    BY <1>1, <1>3, <2>1 DEF Extend, Last
  <2>3. wide \in Entries /\ wide.lo = last.lo /\ wide.hi = top /\ top \in 1..MaxID
          /\ top >= last.hi /\ top >= x.hi /\ (top = last.hi \/ top = x.hi)
    <3>1. top \in 1..MaxID /\ top >= last.hi /\ top >= x.hi /\ (top = last.hi \/ top = x.hi)
      <4> HIDE DEF last, x
      <4> QED BY <1>0, <2>1
    <3> HIDE DEF last, top
    <3> QED BY <2>1, <3>1 DEF Entries
  <2>4. x.lo <= last.hi + 1
    BY <1>0, <1>3, <2>1, TouchesIs DEF Last
  <2>5. last.lo <= x.lo
    <3>1. k # 0
      BY <1>3 DEF MergedTo
    <3>2. last.lo <= s[k].lo
      BY <3>1 DEF MergedTo, Last
    <3>3. k \in 1..Len(s) /\ s[k].lo <= x.lo /\ s[k].lo \in Int
      <4>1. k \in 1..Len(s) /\ k < K
        BY <1>0, <3>1
      <4>2. s[k] \in Entries
        BY <4>1
      <4> QED BY <1>0, <4>1, <4>2 DEF Entries
    <3> QED BY <1>0, <2>1, <3>2, <3>3
  <2> HIDE DEF top, wide, last, x, K
  <2>6. o \in Seq(Entries) /\ Len(o) = n /\ o[n] = wide /\ \A i \in 1..n : i # n => o[i] = out[i]
    <3>1. out \in [1..n -> Entries]
      BY <1>1, LenProperties
    <3>2. o \in [1..n -> Entries]
      BY <2>1, <2>3, <3>1
    <3> QED BY <1>1, <2>1, <3>1, <3>2
  <2> HIDE DEF o, n
  <2>7. \A i \in 1..n : o[i].lo = out[i].lo /\ (i # n => o[i].hi = out[i].hi)
    BY <2>3, <2>6 DEF last
  <2>8. \A i \in 1..n : o[i].lo <= o[i].hi
    BY <1>1, <2>1, <2>3, <2>6, <2>7
  <2>9. ASSUME NEW i \in 1..n, NEW j \in 1..n, i < j PROVE o[i].hi + 1 < o[j].lo
    <3>1. i # n
      BY <1>1, <2>9
    <3> QED BY <1>1, <2>7, <2>9, <3>1
  <2>10. ASSUME NEW id \in 1..MaxID
         PROVE  Covers(o, id) <=> Covers(out, id) \/ (x.lo <= id /\ id <= x.hi)
    <3>1. Covers(o, id) <=> \E i \in 1..n : o[i].lo <= id /\ id <= o[i].hi
      BY <2>6 DEF Covers
    <3>2. Covers(out, id) <=> \E i \in 1..n : out[i].lo <= id /\ id <= out[i].hi
      BY DEF Covers, n
    <3>3. (o[n].lo <= id /\ id <= o[n].hi)
            <=> (last.lo <= id /\ id <= last.hi) \/ (x.lo <= id /\ id <= x.hi)
      BY <1>0, <2>1, <2>3, <2>4, <2>5, <2>6
    <3>4. last = out[n]
      BY DEF last
    <3> QED BY <2>1, <2>7, <3>1, <3>2, <3>3, <3>4
  <2>11. o # <<>> /\ Last(o).lo <= x.lo
    <3>1. o # <<>>
      BY <2>1, <2>6
    <3>2. Last(o) = wide
      BY <2>6 DEF Last
    <3> QED BY <2>3, <2>5, <3>1, <3>2
  <2>12. \A id \in 1..MaxID : Covers(o, id) <=> \E i \in 1..K : s[i].lo <= id /\ id <= s[i].hi
    BY <1>1, <1>2, <2>10
  <2>13. MergedTo(o, s, K)
    BY <1>0, <2>6, <2>8, <2>9, <2>11, <2>12 DEF MergedTo, x
  <2> QED BY <2>2, <2>13 DEF x, K
<1>4. CASE ~(out # <<>> /\ Touches(Last(out), x))
  <2> DEFINE o == Append(out, x)
  <2>1. Extend(out, x) = o
    BY <1>4 DEF Extend
  <2>2. o \in Seq(Entries) /\ Len(o) = n + 1 /\ o[n + 1] = x /\ \A i \in 1..n : o[i] = out[i]
    BY <1>0, <1>1, AppendProperties
  <2>3. ASSUME NEW i \in 1..n PROVE out[i].hi + 1 < x.lo
    <3>1. n \in 1..n /\ out[n] \in Entries /\ out # <<>> /\ ~Touches(out[n], x)
      BY <1>1, <1>4 DEF Last
    <3>2. ~(x.lo <= out[n].hi + 1)
      BY <1>0, <3>1, TouchesIs
    <3>3. i = n \/ out[i].hi + 1 < out[n].lo
      <4> HIDE DEF n
      <4>1. i # n => i < n
        BY <1>1
      <4> QED BY <1>1, <3>1, <4>1
    <3>4. out[n].lo \in Int /\ out[n].hi \in Int /\ out[n].lo <= out[n].hi /\ x.lo \in Int /\ out[i].hi \in Int
      <4> HIDE DEF n, x
      <4> QED BY <1>0, <1>1, <3>1
    <3> HIDE DEF n, x
    <3> QED BY <3>2, <3>3, <3>4
  <2> HIDE DEF o, n, x, K
  <2>0. n \in Nat
    BY <1>1
  <2>4. \A i : i \in 1..(n + 1) <=> i \in 1..n \/ i = n + 1
    BY <2>0
  <2>5. \A i \in 1..Len(o) : o[i].lo <= o[i].hi
    BY <1>0, <1>1, <2>2, <2>4
  <2>6. ASSUME NEW i \in 1..Len(o), NEW j \in 1..Len(o), i < j PROVE o[i].hi + 1 < o[j].lo
    <3>1. i \in 1..n
      BY <1>1, <2>2, <2>6
    <3>2. CASE j \in 1..n
      BY <1>1, <2>2, <2>6, <3>1, <3>2
    <3>3. CASE j = n + 1
      BY <2>2, <2>3, <3>1, <3>3
    <3> QED BY <2>2, <2>4, <3>2, <3>3
  <2>7. ASSUME NEW id \in 1..MaxID
        PROVE  Covers(o, id) <=> Covers(out, id) \/ (x.lo <= id /\ id <= x.hi)
    <3>1. Covers(o, id) <=> \E i \in 1..(n + 1) : o[i].lo <= id /\ id <= o[i].hi
      BY <2>2 DEF Covers
    <3>2. Covers(out, id) <=> \E i \in 1..n : out[i].lo <= id /\ id <= out[i].hi
      BY DEF Covers, n
    <3> QED BY <2>2, <2>4, <3>1, <3>2
  <2>8. o # <<>> /\ Last(o).lo <= x.lo
    <3>1. Len(o) # 0
      BY <1>1, <2>2
    <3>2. Last(o) = x
      BY <2>2 DEF Last
    <3> QED BY <1>0, <3>1, <3>2
  <2>9. \A id \in 1..MaxID : Covers(o, id) <=> \E i \in 1..K : s[i].lo <= id /\ id <= s[i].hi
    BY <1>1, <1>2, <2>7
  <2>10. MergedTo(o, s, K)
    BY <1>0, <2>2, <2>5, <2>6, <2>8, <2>9 DEF MergedTo, x
  <2> QED BY <2>1, <2>10 DEF x, K
<1> QED BY <1>3, <1>4

(* What merge's loop has made after each of the first k ranges of s.       *)
Merges(out, s, k) ==
  out = [i \in 0..k |-> IF i = 0 THEN <<>> ELSE Extend(out[i - 1], s[i])]

(* The loop can always take one range more.                                *)
LEMMA OneMoreMerged ==
  ASSUME NEW s, NEW k \in Nat, NEW F, Merges(F, s, k)
  PROVE  \E G : Merges(G, s, k + 1)
<1> DEFINE K == k + 1
           G == [i \in 0..K |-> IF i = K THEN Extend(F[k], s[K]) ELSE F[i]]
           H == [i \in 0..K |-> IF i = 0 THEN <<>> ELSE Extend(G[i - 1], s[i])]
<1>1. ASSUME NEW i \in 0..K PROVE G[i] = IF i = 0 THEN <<>> ELSE Extend(G[i - 1], s[i])
  <2>1. CASE i = K
    <3>1. G[K] = Extend(F[k], s[K]) /\ K # 0 /\ K - 1 = k /\ k \in 0..K /\ k # K
      OBVIOUS
    <3>2. G[k] = F[k]
      BY <3>1
    <3> HIDE DEF G
    <3> QED BY <2>1, <3>1, <3>2
  <2>2. CASE i # K
    <3>1. i \in 0..k /\ G[i] = F[i]
      BY <2>2
    <3>2. F[i] = IF i = 0 THEN <<>> ELSE Extend(F[i - 1], s[i])
      BY <3>1 DEF Merges
    <3>3. i # 0 => G[i - 1] = F[i - 1]
      BY <3>1
    <3> HIDE DEF G, K
    <3> QED BY <3>1, <3>2, <3>3
  <2> QED BY <2>1, <2>2
<1>2. G = [i \in 0..K |-> G[i]]
  OBVIOUS
<1> HIDE DEF G
<1>3. G = H
  BY <1>1, <1>2
<1> QED BY <1>3 DEF Merges

LEMMA CanBeMerged ==
  ASSUME NEW s, NEW n \in Nat
  PROVE  \E F : Merges(F, s, n)
<1> DEFINE S == {k \in 0..n : ~\E F : Merges(F, s, k)}
<1> SUFFICES ASSUME ~\E F : Merges(F, s, n) PROVE FALSE
  OBVIOUS
<1>0. S # {}
  <2>1. n \in S
    OBVIOUS
  <2> QED BY <2>1
<1>1. PICK k \in S : \A j \in S : k <= j
  <2>1. S \in SUBSET Nat
    OBVIOUS
  <2> HIDE DEF S
  <2> QED BY <1>0, <2>1, LeastNumber
<1>2. k # 0
  <2> DEFINE F == [i \in 0..0 |-> <<>>]
  <2>1. F = [i \in 0..0 |-> IF i = 0 THEN <<>> ELSE Extend(F[i - 1], s[i])]
    <3>1. \A i \in 0..0 : i = 0
      OBVIOUS
    <3> DEFINE R == [i \in 0..0 |-> IF i = 0 THEN <<>> ELSE Extend(F[i - 1], s[i])]
    <3>2. \A i \in 0..0 : F[i] = R[i]
      BY <3>1
    <3>3. F = [i \in 0..0 |-> F[i]] /\ R = [i \in 0..0 |-> R[i]]
      OBVIOUS
    <3> HIDE DEF F, R
    <3>4. F = R
      BY <3>2, <3>3
    <3> QED BY <3>4 DEF R
  <2> HIDE DEF F
  <2>2. Merges(F, s, 0)
    BY <2>1 DEF Merges
  <2> QED BY <1>1, <2>2
<1>3. k - 1 \in 0..n /\ k - 1 \notin S
  BY <1>1, <1>2
<1>4. PICK F : Merges(F, s, k - 1)
  BY <1>3
<1>5. \E G : Merges(G, s, k)
  <2> DEFINE j == k - 1
  <2>1. j \in Nat /\ Merges(F, s, j) /\ j + 1 = k
    BY <1>1, <1>3, <1>4
  <2> HIDE DEF j
  <2>2. \E G : Merges(G, s, j + 1)
    BY <2>1, OneMoreMerged
  <2> QED BY <2>1, <2>2
<1> QED BY <1>1, <1>5

(* Every pass of the loop keeps it right.                                  *)
LEMMA MergesRight ==
  ASSUME NEW s \in Seq(Entries),
         \A i \in 1..Len(s) : s[i].lo <= s[i].hi,
         \A i, j \in 1..Len(s) : i < j => s[i].lo <= s[j].lo,
         NEW F, Merges(F, s, Len(s))
  PROVE  MergedTo(F[Len(s)], s, Len(s))
<1> DEFINE n == Len(s)
           S == {k \in 0..n : ~MergedTo(F[k], s, k)}
<1> SUFFICES ASSUME ~MergedTo(F[n], s, n) PROVE FALSE
  OBVIOUS
<1>a. n \in Nat
  BY LenProperties
<1>b. \A i \in 0..n : F[i] = IF i = 0 THEN <<>> ELSE Extend(F[i - 1], s[i])
  BY DEF Merges
<1> HIDE DEF n
<1>0. S # {}
  <2>1. n \in S
    BY <1>a
  <2> QED BY <2>1
<1>1. PICK k \in S : \A j \in S : k <= j
  <2>1. S \in SUBSET Nat
    BY <1>a
  <2> HIDE DEF S
  <2> QED BY <1>0, <2>1, LeastNumber
<1>2. k # 0
  <2>1. F[0] = <<>>
    BY <1>a, <1>b
  <2>2. MergedTo(<<>>, s, 0)
    BY DEF MergedTo, Covers
  <2> QED BY <1>1, <2>1, <2>2
<1> DEFINE j == k - 1
<1>3. j \in Nat /\ j < Len(s) /\ j + 1 = k /\ j \in 0..n /\ j \notin S
  BY <1>1, <1>2, <1>a DEF n
<1>4. F[k] = Extend(F[j], s[k])
  BY <1>1, <1>2, <1>b
<1>5. MergedTo(F[j], s, j)
  BY <1>3
<1> HIDE DEF j
<1> DEFINE out == F[j]
<1> HIDE DEF out
<1>6. MergedTo(out, s, j)
  BY <1>5 DEF out
<1>7. MergedTo(Extend(out, s[j + 1]), s, j + 1)
  BY <1>3, <1>6, ExtendStep
<1>8. MergedTo(F[k], s, k)
  BY <1>3, <1>4, <1>7 DEF out
<1> QED BY <1>1, <1>8

(* merge of what Parse accepted.                                           *)
LEMMA MergedIs ==
  ASSUME NEW f \in Seq(Entries), \A i \in 1..Len(f) : f[i].lo <= f[i].hi
  PROVE  /\ Merged(f) \in Seq(Entries)
         /\ \A i \in 1..Len(Merged(f)) : Merged(f)[i].lo <= Merged(f)[i].hi
         /\ \A i, j \in 1..Len(Merged(f)) : i < j => Merged(f)[i].hi + 1 < Merged(f)[j].lo
         /\ \A id \in 1..MaxID :
              Covers(Merged(f), id) <=> \E i \in 1..Len(f) : f[i].lo <= id /\ id <= f[i].hi
<1> DEFINE s == Sorted(f)
           out == CHOOSE F : Merges(F, s, Len(s))
<1>1. /\ s \in Seq(Entries) /\ Len(s) = Len(f)
      /\ \A i \in 1..Len(f) : \E j \in 1..Len(f) : s[i] = f[j]
      /\ \A j \in 1..Len(f) : \E i \in 1..Len(f) : s[i] = f[j]
      /\ \A i, j \in 1..Len(f) : i < j => s[i].lo <= s[j].lo
  BY SortedIs
<1>2. Merged(f) = out[Len(s)]
  BY DEF Merged, Merges
<1> HIDE DEF s
<1>3. Len(s) \in Nat
  BY <1>1, LenProperties
<1>4. \E F : Merges(F, s, Len(s))
  <2> DEFINE n == Len(s)
  <2>1. n \in Nat
    BY <1>3
  <2> HIDE DEF n
  <2>2. \E F : Merges(F, s, n)
    BY <2>1, CanBeMerged
  <2> QED BY <2>2 DEF n
<1>5. Merges(out, s, Len(s))
  BY <1>4, Zenon
<1> HIDE DEF out
<1>6. \A i \in 1..Len(s) : s[i].lo <= s[i].hi
  BY <1>1
<1>7. MergedTo(out[Len(s)], s, Len(s))
  BY <1>1, <1>5, <1>6, MergesRight
<1>8. MergedTo(Merged(f), s, Len(f))
  BY <1>1, <1>2, <1>7
<1>9. \A id \in 1..MaxID : (\E i \in 1..Len(f) : s[i].lo <= id /\ id <= s[i].hi)
                             <=> \E i \in 1..Len(f) : f[i].lo <= id /\ id <= f[i].hi
  BY <1>1
<1> QED BY <1>8, <1>9 DEF MergedTo

(* sort.Search over ranges that ascend finds the one that covers the ID,   *)
(* if one does.                                                            *)
LEMMA NamesIs ==
  ASSUME NEW list, list.spans \in Seq(Entries),
         \A i \in 1..Len(list.spans) : list.spans[i].lo <= list.spans[i].hi,
         \A i, j \in 1..Len(list.spans) : i < j => list.spans[i].hi + 1 < list.spans[j].lo,
         NEW id \in 1..MaxID
  PROVE  Names(list, id) <=> Covers(list.spans, id)
<1> DEFINE q == list.spans
           n == Len(q)
           ends == {i \in DOMAIN q : q[i].hi >= id}
           first == CHOOSE i \in ends : \A j \in ends : i <= j
<1>1. n \in Nat /\ DOMAIN q = 1..n /\ MaxID \in Nat /\ id \in Nat
  BY LenProperties, MaxIDAssumption
<1>2. \A i \in 1..n : q[i].lo \in Nat /\ q[i].hi \in Nat /\ q[i].lo <= q[i].hi
  <2>1. \A e \in Entries : e.lo \in Nat /\ e.hi \in Nat
    BY <1>1 DEF Entries
  <2>2. \A i \in 1..n : q[i] \in Entries
    BY <1>1
  <2> QED BY <2>1, <2>2
<1>3. \A i, j \in 1..n : i < j => q[i].hi + 1 < q[j].lo
  OBVIOUS
<1>4. Names(list, id) <=> ends # {} /\ q[first].lo <= id
  BY DEF Names
<1>5. Covers(q, id) <=> \E i \in 1..n : q[i].lo <= id /\ id <= q[i].hi
  BY DEF Covers
<1> HIDE DEF q, n
<1>6. ends \subseteq 1..n /\ ends \in SUBSET Nat
  BY <1>1
<1>7. \A i \in 1..n : i \in ends <=> id <= q[i].hi
  BY <1>1, <1>2
<1> HIDE DEF ends
<1>8. CASE ends = {}
  BY <1>4, <1>5, <1>7, <1>8 DEF q
<1>9. CASE ends # {}
  <2>1. first \in ends /\ \A j \in ends : first <= j
    <3>1. \E i \in ends : \A j \in ends : i <= j
      BY <1>6, <1>9, LeastNumber
    <3> QED BY <3>1, Zenon
  <2> HIDE DEF first
  <2>2. ASSUME NEW i \in 1..n, q[i].lo <= id, id <= q[i].hi PROVE i = first
    <3>1. i \in ends /\ first <= i /\ first \in 1..n /\ id <= q[first].hi
      BY <1>6, <1>7, <2>1, <2>2
    <3>2. first < i => q[first].hi + 1 < q[i].lo
      BY <1>3, <3>1
    <3>3. q[first].hi \in Nat /\ q[i].lo \in Nat
      BY <1>2, <3>1
    <3> QED BY <1>1, <2>2, <3>1, <3>2, <3>3
  <2>3. first \in 1..n /\ id <= q[first].hi
    BY <1>6, <1>7, <2>1
  <2>4. Names(list, id) <=> \E i \in 1..n : q[i].lo <= id /\ id <= q[i].hi
    BY <1>4, <1>9, <2>2, <2>3
  <2> QED BY <1>5, <2>4 DEF q
<1> QED BY <1>8, <1>9

(* Whatever the entries, in whatever order, a list that Parse accepts      *)
(* names exactly the IDs its entries cover.                                *)
LEMMA ListsAreMeant ==
  ASSUME NEW acl, acl.ids \in Seq([lo : Nat, hi : Nat]), ParseOK(acl)
  PROVE  MeansWhatItSays(acl)
<1> DEFINE f == acl.ids
           list == Parsed(acl)
<1>1. Len(f) \in Nat /\ DOMAIN f = 1..Len(f)
  BY LenProperties
<1>2. f \in Seq(Entries) /\ \A i \in 1..Len(f) : f[i].lo <= f[i].hi
  <2>1. \A i \in 1..Len(f) : f[i] \in [lo : Nat, hi : Nat] /\ EntryOK(f[i])
    <3>1. \A i \in 1..Len(f) : EntryOK(f[i])
      BY <1>1, Zenon DEF ParseOK
    <3> DEFINE R == [lo : Nat, hi : Nat]
    <3>2. f \in Seq(R)
      OBVIOUS
    <3> HIDE DEF f, R
    <3>3. \A i \in 1..Len(f) : f[i] \in R
      BY <3>2
    <3> QED BY <3>1, <3>3 DEF R
  <2> HIDE DEF f
  <2>2. ASSUME NEW e \in [lo : Nat, hi : Nat], EntryOK(e) PROVE e \in Entries /\ e.lo <= e.hi
    BY <2>2 DEF EntryOK, Entries
  <2>3. \A i \in 1..Len(f) : f[i] \in Entries /\ f[i].lo <= f[i].hi
    BY <2>1, <2>2
  <2>4. f \in Seq([lo : Nat, hi : Nat])
    BY DEF f
  <2>5. f = [i \in 1..Len(f) |-> f[i]]
    BY <1>1, <2>4
  <2>6. f \in [1..Len(f) -> Entries]
    BY <2>3, <2>5
  <2> QED BY <1>1, <2>3, <2>6
<1>3. list.spans = Merged(f)
  BY DEF Parsed
<1> HIDE DEF f, list
<1> DEFINE m == Merged(f)
<1>4. /\ m \in Seq(Entries)
      /\ \A i \in 1..Len(m) : m[i].lo <= m[i].hi
      /\ \A i, j \in 1..Len(m) : i < j => m[i].hi + 1 < m[j].lo
      /\ \A id \in 1..MaxID :
           Covers(m, id) <=> \E i \in 1..Len(f) : f[i].lo <= id /\ id <= f[i].hi
  BY <1>2, MergedIs
<1> HIDE DEF m
<1>5. list.spans = m
  BY <1>3 DEF m
<1>6. ASSUME NEW id \in 1..MaxID
      PROVE  Names(list, id) <=> \E i \in DOMAIN f : id \in f[i].lo..f[i].hi
  <2>1. Names(list, id) <=> Covers(m, id)
    BY <1>4, <1>5, NamesIs
  <2>2. \A i \in 1..Len(f) : f[i].lo \in Int /\ f[i].hi \in Int
    <3>1. \A e \in Entries : e.lo \in Int /\ e.hi \in Int
      BY MaxIDAssumption DEF Entries
    <3> QED BY <1>2, <3>1
  <2>3. \A i \in 1..Len(f) : id \in f[i].lo..f[i].hi <=> f[i].lo <= id /\ id <= f[i].hi
    BY <2>2
  <2> QED BY <1>1, <1>4, <2>1, <2>3
<1>7. ASSUME NEW i \in 1..(Len(m) - 1) PROVE m[i].hi + 1 < m[i + 1].lo
  <2>1. Len(m) \in Nat
    BY <1>4, LenProperties
  <2>2. i \in 1..Len(m) /\ i + 1 \in 1..Len(m) /\ i < i + 1
    BY <2>1
  <2> QED BY <1>4, <2>2
<1> QED BY <1>5, <1>6, <1>7 DEF MeansWhatItSays, list, f

-----------------------------------------------------------------------------
(***************************************************************************)
(* Settings: what Validate accepts a start builds, binds and applies,      *)
(* whatever the values of the settings and however many entries a list of  *)
(* a document has.  Nothing is assumed of a document but its shape.        *)
(***************************************************************************)
IsFcn(f) == f = [x \in DOMAIN f |-> f[x]]
IsSeq(q) == IsFcn(q) /\ \E n \in Nat : DOMAIN q = 1..n

(* A document, whatever the settings in it: its sections are records and   *)
(* lists, and the list of IDs has numbers on both sides of each entry.     *)
BridgeShape(b) ==
  /\ IsFcn(b) /\ "endpoints" \in DOMAIN b /\ IsSeq(b.endpoints)
  /\ \A k \in DOMAIN b.endpoints : IsFcn(b.endpoints[k])
AccessShape(a) ==
  /\ IsFcn(a) /\ "subs" \in DOMAIN a /\ "ids" \in DOMAIN a
  /\ a.subs \in {"deny", "permit"} /\ a.ids \in Seq([lo : Nat, hi : Nat])
Shape(d) ==
  /\ IsFcn(d) /\ DOMAIN d = DOMAIN PlainFields \cup DOMAIN ListFields
  /\ \A s \in DOMAIN ListFields : IsSeq(d[s])
  /\ \A i \in DOMAIN d.bridges : BridgeShape(d.bridges[i])
  /\ AccessShape(d.access) /\ IsFcn(d.weather)

(* Entries that are compared with those before them are told apart.        *)
LEMMA EarlierIsEnough ==
  ASSUME NEW q, IsSeq(q), NEW i \in DOMAIN q, NEW j \in DOMAIN q, i # j
  PROVE  i < j \/ j < i
BY DEF IsSeq

(* The lists whose names are compared.                                     *)
LEMMA ListsAreSeqs ==
  ASSUME NEW d, Shape(d)
  PROVE  IsSeq(d.bridges) /\ IsSeq(d.upstreams) /\ IsSeq(d.transcoders)
<1>1. {"bridges", "upstreams", "transcoders"} \subseteq DOMAIN ListFields
  BY DEF ListFields
<1> QED BY <1>1 DEF Shape

(* NewSchedule and NewTriggers ask no more of an entry than Validate did.  *)
LEMMA ScheduleBuilds ==
  ASSUME NEW d, Validate(d), d.dmr.enabled
  PROVE  BuildsSchedule(d) /\ BuildsTriggers(d)
<1>1. \A i \in DOMAIN d.schedule : ValidWindow(d, d.schedule[i])
  BY DEF Validate
<1>2. \A i \in DOMAIN d.triggers : ValidTrigger(d, d.triggers[i])
  BY DEF Validate
<1>3. BuildsSchedule(d)
  <2> SUFFICES ASSUME NEW i \in DOMAIN d.schedule
               PROVE  LET w == d.schedule[i]
                      IN  /\ w.start # "24:00" /\ w.bridge # Blank /\ w.days # <<>>
                          /\ ToSet(w.days) \subseteq 0..6 /\ IsInjective(w.days)
                          /\ w.minutes \in 1..maxWindowDuration /\ w.zone \notin {Blank, "CST"}
    BY DEF BuildsSchedule
  <2> DEFINE w == d.schedule[i]
  <2>1. ValidWindow(d, w)
    BY <1>1
  <2> HIDE DEF w
  <2>2. /\ w.start # "24:00" /\ w.bridge # Blank /\ w.days # <<>>
        /\ ToSet(w.days) \subseteq 0..6 /\ IsInjective(w.days)
        /\ w.minutes \in 1..maxWindowDuration /\ w.zone \notin {Blank, "CST"}
    BY <2>1 DEF ValidWindow
  <2> QED BY <2>2 DEF w
<1>4. BuildsTriggers(d)
  <2>1. ASSUME NEW i \in DOMAIN d.triggers
        PROVE  LET t == d.triggers[i] IN t.bridge # Blank /\ t.on # 0 /\ t.tg # 0 /\ t.hang \in 0..MaxHangTime
    <3> DEFINE t == d.triggers[i]
    <3>1. ValidTrigger(d, t)
      BY <1>2
    <3> HIDE DEF t
    <3>2. t.bridge # Blank /\ t.on # 0 /\ t.tg # 0 /\ t.hang \in 0..MaxHangTime
      BY <3>1 DEF ValidTrigger
    <3> QED BY <3>2 DEF t
  <2> QED BY <2>1 DEF BuildsTriggers
<1> QED BY <1>3, <1>4

(* Parse accepts both access lists: the subscribers' can only ban.         *)
LEMMA AccessBuilds ==
  ASSUME NEW d, Shape(d), Validate(d), d.dmr.enabled
  PROVE  BuildsAccess(d)
<1>1. ValidAccess(d) /\ d.access.subs \in {"deny", "permit"}
  BY DEF Validate, Shape, AccessShape
<1>2. ASSUME d.access.given PROVE ParseOK(RegistrationList(d)) /\ ParseOK(SubscriberList(d))
  <2>1. d.access.subs = "deny" /\ ParseOK(RegistrationList(d))
    BY <1>1, <1>2 DEF ValidAccess
  <2>2. SubscriberList(d).mode = "deny" /\ SubscriberList(d).ids = <<>>
    BY <2>1 DEF SubscriberList
  <2>3. ParseOK(SubscriberList(d))
    BY <2>2 DEF ParseOK
  <2> QED BY <2>1, <2>3
<1> QED BY <1>2 DEF BuildsAccess

(* buildTable changes no endpoint that Validate accepted.                  *)
LEMMA BuiltIsSame ==
  ASSUME NEW e, IsFcn(e), e.slot \in 1..2
  PROVE  Built(e) = e
<1>1. timeslot(e.slot) = e.slot
  BY DEF timeslot
<1>2. Built(e) = [x \in DOMAIN e |-> e[x]]
  BY <1>1 DEF Built
<1> QED BY <1>2 DEF IsFcn

(* NewTable finds two endpoints or more in each bridge, all different, and *)
(* no two bridges of one name.                                             *)
LEMMA TableBuilds ==
  ASSUME NEW d, Shape(d), Validate(d), d.dmr.enabled
  PROVE  BuildsTable(d)
<1>1. \A i \in DOMAIN d.bridges : ValidBridge(d, i)
  BY DEF Validate
<1>2. ASSUME NEW i \in DOMAIN d.bridges
      PROVE  LET es == [k \in DOMAIN d.bridges[i].endpoints |-> Built(d.bridges[i].endpoints[k])]
             IN  /\ d.bridges[i].name # Blank /\ Len(es) >= 2 /\ IsInjective(es)
                 /\ \A k \in DOMAIN es : BuiltEndpointOK(es[k])
  <2> DEFINE b == d.bridges[i]
             q == b.endpoints
             es == [k \in DOMAIN q |-> Built(q[k])]
  <2>1. IsFcn(q) /\ \A k \in DOMAIN q : IsFcn(q[k])
    BY DEF Shape, BridgeShape, IsSeq
  <2>2. /\ b.name # Blank /\ Len(q) >= 2 /\ IsInjective(q)
        /\ \A k \in DOMAIN q : ValidEndpoint(d, b, q[k])
    BY <1>1 DEF ValidBridge
  <2> HIDE DEF q, b
  <2>3. \A k \in DOMAIN q : Built(q[k]) = q[k]
    BY <2>1, <2>2, BuiltIsSame DEF ValidEndpoint
  <2>4. es = [k \in DOMAIN q |-> q[k]]
    BY <2>3
  <2>5. es = q
    BY <2>1, <2>4 DEF IsFcn
  <2>6. \A k \in DOMAIN q : BuiltEndpointOK(q[k])
    BY <2>2 DEF ValidEndpoint, BuiltEndpointOK
  <2> HIDE DEF es
  <2>7. b.name # Blank /\ Len(es) >= 2 /\ IsInjective(es) /\ \A k \in DOMAIN es : BuiltEndpointOK(es[k])
    BY <2>2, <2>5, <2>6
  <2> QED BY <2>7 DEF es, q, b
<1>3. ASSUME NEW i \in DOMAIN d.bridges, NEW j \in DOMAIN d.bridges, i # j
      PROVE  Fold(d.bridges[i].name) # Fold(d.bridges[j].name)
  <2>1. i < j \/ j < i
    BY <1>3, ListsAreSeqs, EarlierIsEnough
  <2> QED BY <1>1, <2>1 DEF ValidBridge
<1> QED BY <1>2, <1>3 DEF BuildsTable

(* Every link gets what its protocol needs, and a name of its own.         *)
LEMMA LinksBuild ==
  ASSUME NEW d, Shape(d), Validate(d), d.dmr.enabled, ~Gap(d)
  PROVE  BuildsLinks(d)
<1>1. \A i \in DOMAIN d.upstreams : ValidUpstream(d, i)
  BY DEF Validate
<1>2. ASSUME NEW i \in Enabled(d.upstreams)
      PROVE  BuildsLink(d, d.upstreams[i])
  <2> DEFINE u == d.upstreams[i]
  <2>1. i \in DOMAIN d.upstreams /\ u.enabled
    BY DEF Enabled
  <2>2. /\ u.name # Blank /\ hostPort(u.addr)
        /\ IF HomebrewProtocol(u) THEN ValidHomebrewUpstream(d, u) ELSE ValidOpenBridgeUpstream(u)
    BY <1>1, <2>1 DEF ValidUpstream
  <2>3. ~((HomebrewProtocol(u) /\ u.identity = "none") \/ u.addr.port = 0)
    BY DEF Gap
  <2> HIDE DEF u
  <2>4. u.addr.port \in 1..MaxPort
    <3> DEFINE x == u.addr.port
    <3>1. x \in 0..MaxPort /\ x # 0
      BY <2>2, <2>3 DEF hostPort
    <3> HIDE DEF x
    <3>2. x \in 1..MaxPort
      BY <3>1
    <3> QED BY <3>2 DEF x
  <2>5. BuildsLink(d, u)
    <3>1. CASE HomebrewProtocol(u)
      BY <2>2, <2>3, <2>4, <3>1 DEF BuildsLink, ValidHomebrewUpstream
    <3>2. CASE ~HomebrewProtocol(u)
      BY <2>2, <2>4, <3>2 DEF BuildsLink, ValidOpenBridgeUpstream
    <3> QED BY <3>1, <3>2
  <2> QED BY <2>5 DEF u
<1>3. ASSUME NEW i \in Enabled(d.upstreams), NEW j \in Enabled(d.upstreams), i # j
      PROVE  d.upstreams[i].name # d.upstreams[j].name
  <2>1. i \in DOMAIN d.upstreams /\ j \in DOMAIN d.upstreams
    BY DEF Enabled
  <2>2. i < j \/ j < i
    BY <1>3, <2>1, ListsAreSeqs, EarlierIsEnough
  <2>3. Fold(d.upstreams[i].name) # Fold(d.upstreams[j].name)
    BY <1>1, <2>1, <2>2 DEF ValidUpstream
  <2> QED BY <2>3
<1> QED BY <1>2, <1>3 DEF BuildsLinks

(* Every vocoder channel can listen and knows its peer.                    *)
LEMMA TranscodersBuild ==
  ASSUME NEW d, Shape(d), Validate(d), d.dmr.enabled, ~Gap(d)
  PROVE  BuildsTranscoders(d)
<1>1. \A i \in DOMAIN d.transcoders : ValidTranscoder(d, i)
  BY DEF Validate
<1>0. \A i \in Enabled(d.transcoders) : i \in DOMAIN d.transcoders /\ d.transcoders[i].enabled
  BY DEF Enabled
<1>2. \A i \in Enabled(d.transcoders) : ~d.transcoders[i].listen.padded
  BY DEF Gap
<1>3. ASSUME NEW i \in Enabled(d.transcoders)
      PROVE  LET t == d.transcoders[i]
             IN  /\ hostPort(t.listen) /\ ~t.listen.padded /\ hostPort(t.peer)
                 /\ ~unspecifiedHost(t.peer) /\ t.peer.port # 0
                 /\ t.name # Blank /\ t.radio # 0 /\ t.alias <= 31
  BY <1>0, <1>1, <1>2 DEF ValidTranscoder
<1>4. ASSUME NEW i \in Enabled(d.transcoders), NEW j \in Enabled(d.transcoders), i # j
      PROVE  d.transcoders[i].name # d.transcoders[j].name
  <2>2. i < j \/ j < i
    BY <1>0, <1>4, ListsAreSeqs, EarlierIsEnough
  <2>3. Fold(d.transcoders[i].name) # Fold(d.transcoders[j].name)
    BY <1>0, <1>1, <2>2 DEF ValidTranscoder
  <2> QED BY <2>3
<1> QED BY <1>3, <1>4 DEF BuildsTranscoders

(* No two sockets a start opens are on one port, and every address is one. *)
LEMMA SocketsBind ==
  ASSUME NEW d, Validate(d), ~Gap(d)
  PROVE  Binds(d)
<1> DEFINE p == P25Socket(d)
<1>1. /\ hostPort(d.server.addr)
      /\ d.ipsc.enabled => hostPort(d.ipsc.addr)
      /\ d.repeaters.enabled => hostPort(d.repeaters.addr)
      /\ d.p25.enabled => hostPort(d.p25.addr)
      /\ d.dmr.enabled => hostPort(d.dmr.addr)
  <2>1. hostPort(d.server.addr)
    BY DEF Validate, ValidServer
  <2>2. d.ipsc.enabled => hostPort(d.ipsc.addr)
    BY DEF Validate, ValidIPSC
  <2>3. d.repeaters.enabled => hostPort(d.repeaters.addr)
    BY DEF Validate, ValidP25Repeaters
  <2>4. d.p25.enabled => hostPort(d.p25.addr)
    BY DEF Validate, ValidP25
  <2>5. d.dmr.enabled => hostPort(d.dmr.addr)
    BY DEF Validate, ValidListenerSettings
  <2> QED BY <2>1, <2>2, <2>3, <2>4, <2>5
<1>2. ASSUME d.dmr.enabled, NEW i \in Enabled(d.upstreams), ~HomebrewProtocol(d.upstreams[i])
      PROVE  hostPort(d.upstreams[i].listen)
  <2>1. ValidUpstream(d, i) /\ d.upstreams[i].enabled
    BY <1>2 DEF Validate, Enabled
  <2> QED BY <1>2, <2>1 DEF ValidUpstream, ValidOpenBridgeUpstream
<1>3. ASSUME d.dmr.enabled, NEW i \in Enabled(d.transcoders)
      PROVE  hostPort(d.transcoders[i].listen)
  <2>1. ValidTranscoder(d, i) /\ d.transcoders[i].enabled
    BY <1>3 DEF Validate, Enabled
  <2> QED BY <2>1 DEF ValidTranscoder
<1>4. ASSUME NEW a \in OpenSockets(d) PROVE hostPort(a.addr)
  <2>0. a \in Listeners(d) /\ (a.field[1] = "upstreams" => d.dmr.enabled)
    BY DEF OpenSockets
  <2>1. CASE a = Socket(<<"server", 0>>, "tcp", d.server.addr)
    BY <1>1, <2>1 DEF Socket
  <2>2. CASE d.dmr.enabled /\ a = Socket(<<"dmr", 0>>, "udp", d.dmr.addr)
    BY <1>1, <2>2 DEF Socket
  <2>3. CASE d.ipsc.enabled /\ a = Socket(<<"ipsc", 0>>, "udp", d.ipsc.addr)
    BY <1>1, <2>3 DEF Socket
  <2>4. CASE d.repeaters.enabled /\ a = Socket(<<"repeaters", 0>>, "tcp", d.repeaters.addr)
    BY <1>1, <2>4 DEF Socket
  <2>5. CASE \E i \in Enabled(d.upstreams) :
               ~HomebrewProtocol(d.upstreams[i]) /\ a = Socket(<<"upstreams", i>>, "udp", d.upstreams[i].listen)
    <3>1. PICK i \in Enabled(d.upstreams) :
               ~HomebrewProtocol(d.upstreams[i]) /\ a = Socket(<<"upstreams", i>>, "udp", d.upstreams[i].listen)
      BY <2>5
    <3>2. a.field[1] = "upstreams" /\ a.addr = d.upstreams[i].listen
      BY <3>1 DEF Socket
    <3> QED BY <1>2, <2>0, <3>1, <3>2
  <2>6. CASE d.dmr.enabled /\ \E i \in Enabled(d.transcoders) :
               a = Socket(<<"transcoders", i>>, "udp", d.transcoders[i].listen)
    BY <1>3, <2>6 DEF Socket
  <2> QED BY <2>0, <2>1, <2>2, <2>3, <2>4, <2>5, <2>6 DEF Listeners
<1>5. ASSUME NEW a \in OpenSockets(d), NEW b \in OpenSockets(d), a.field # b.field
      PROVE  ~InUse(a, b)
  BY <1>5 DEF OpenSockets, Validate, ValidListeners, InUse
<1>6. d.p25.enabled => \A a \in OpenSockets(d) : ~listenersCollide(a, p)
  BY DEF Gap
<1>7. d.p25.enabled => \A a \in OpenSockets(d) : ~listenersCollide(p, a)
  <2> SUFFICES ASSUME d.p25.enabled, NEW a \in OpenSockets(d), listenersCollide(p, a) PROVE listenersCollide(a, p)
    BY <1>6
  <2> HIDE DEF p
  <2>1. /\ p.net = a.net /\ p.addr.port = a.addr.port /\ hostPort(p.addr)
        /\ unspecifiedHost(p.addr) \/ unspecifiedHost(a.addr) \/ p.addr.host = a.addr.host
    BY DEF listenersCollide
  <2>2. hostPort(a.addr)
    BY <2>1 DEF hostPort
  <2> QED BY <2>1, <2>2 DEF listenersCollide
<1>8. \A a \in Sockets(d) : a \in OpenSockets(d) \/ (d.p25.enabled /\ a = p)
  BY DEF Sockets
<1>9. p.addr = d.p25.addr
  BY DEF P25Socket, Socket
<1> HIDE DEF p
<1>10. \A a \in Sockets(d) : hostPort(a.addr)
  BY <1>1, <1>4, <1>8, <1>9
<1>11. \A a, b \in Sockets(d) : a.field # b.field => ~InUse(a, b)
  BY <1>5, <1>6, <1>7, <1>8 DEF InUse
<1> QED BY <1>10, <1>11 DEF Binds

(* What Validate accepts starts, and can be applied while the server runs. *)
LEMMA SavedStarts ==
  ASSUME NEW d, Shape(d), Validate(d), ~Gap(d)
  PROVE  Starts(d) /\ Applies(d)
<1>1. BuildsZello(d)
  BY DEF Validate, ValidZello, BuildsZello, Gap
<1>2. BuildsCallsigns(d) /\ BuildsParrot(d)
  BY DEF Validate, ValidParrot, BuildsCallsigns, BuildsParrot
<1>3. BuildsP25(d)
  BY DEF Validate, ValidP25Repeaters, BuildsP25
<1>4. BuildsIPSC(d)
  BY DEF Validate, ValidIPSC, BuildsIPSC
<1>5. d.dmr.enabled => d.dmr.password # Blank
  BY DEF Validate, ValidListenerSettings
<1>6. BuildsDMR(d)
  BY <1>5, AccessBuilds, ScheduleBuilds, TableBuilds, LinksBuild, TranscodersBuild DEF BuildsDMR
<1>7. Binds(d)
  BY SocketsBind
<1>8. Applies(d)
  BY AccessBuilds, ScheduleBuilds, TableBuilds DEF Applies
<1> QED BY <1>1, <1>2, <1>3, <1>4, <1>6, <1>7, <1>8 DEF Starts

(* What an entry names is found under that name.                           *)
LEMMA SavedNamesFound ==
  ASSUME NEW d, Validate(d), AsSpelled(d), d.dmr.enabled
  PROVE  NamesFound(d)
<1>1. /\ \A e \in Endpoints(d) : e.upstream = Fold(e.upstream) /\ e.transcoder = Fold(e.transcoder)
      /\ \A i \in DOMAIN d.bridges : d.bridges[i].name = Fold(d.bridges[i].name)
      /\ \A i \in DOMAIN d.upstreams : d.upstreams[i].name = Fold(d.upstreams[i].name)
      /\ \A i \in DOMAIN d.transcoders : d.transcoders[i].name = Fold(d.transcoders[i].name)
      /\ \A i \in DOMAIN d.triggers : d.triggers[i].bridge = Fold(d.triggers[i].bridge)
      /\ \A i \in DOMAIN d.schedule : d.schedule[i].bridge = Fold(d.schedule[i].bridge)
  BY DEF AsSpelled
<1>2. ASSUME NEW e \in Endpoints(d)
      PROVE  /\ e.upstream # Blank => \E i \in Enabled(d.upstreams) : d.upstreams[i].name = e.upstream
             /\ e.transcoder # Blank => \E i \in DOMAIN d.transcoders : d.transcoders[i].name = e.transcoder
  <2>1. PICK i \in DOMAIN d.bridges : \E k \in DOMAIN d.bridges[i].endpoints : e = d.bridges[i].endpoints[k]
    BY DEF Endpoints, ToSet
  <2>2. ValidEndpoint(d, d.bridges[i], e)
    BY <2>1 DEF Validate, ValidBridge
  <2>3. ASSUME e.upstream # Blank PROVE \E j \in Enabled(d.upstreams) : d.upstreams[j].name = e.upstream
    <3>1. Fold(e.upstream) \in Links(d)
      BY <2>2, <2>3 DEF ValidEndpoint
    <3>2. PICK j \in Enabled(d.upstreams) : Fold(e.upstream) = Fold(d.upstreams[j].name)
      BY <3>1 DEF Links
    <3>3. j \in DOMAIN d.upstreams
      BY DEF Enabled
    <3> QED BY <1>1, <3>2, <3>3
  <2>4. ASSUME e.transcoder # Blank PROVE \E j \in DOMAIN d.transcoders : d.transcoders[j].name = e.transcoder
    <3>1. \E j \in DOMAIN d.transcoders : Fold(d.transcoders[j].name) = Fold(e.transcoder)
      BY <2>2, <2>4 DEF ValidEndpoint, Vocoders, Enabled
    <3> QED BY <1>1, <3>1
  <2> QED BY <2>3, <2>4
<1>3. ASSUME NEW i \in DOMAIN d.schedule
      PROVE  \E j \in DOMAIN d.bridges : d.bridges[j].name = d.schedule[i].bridge
  <2>1. Fold(d.schedule[i].bridge) \in BridgeNames(d)
    BY DEF Validate, ValidWindow
  <2> QED BY <1>1, <2>1 DEF BridgeNames
<1>4. ASSUME NEW i \in DOMAIN d.triggers
      PROVE  \E j \in DOMAIN d.bridges : d.bridges[j].name = d.triggers[i].bridge
  <2>1. Fold(d.triggers[i].bridge) \in BridgeNames(d)
    BY DEF Validate, ValidTrigger
  <2> QED BY <1>1, <2>1 DEF BridgeNames
<1> QED BY <1>2, <1>3, <1>4 DEF NamesFound

(* The next Load has nothing to upgrade.                                   *)
LEMMA SavedIsCurrent ==
  ASSUME NEW d, Shape(d), Validate(d), d.dmr.enabled, d.weather.enabled, d.weather.events # NarrowEvents
  PROVE  Upgrade(d) = d
<1>1. IsFcn(d) /\ IsFcn(d.access) /\ IsFcn(d.weather)
  BY DEF Shape, AccessShape
<1>2. (IF d.access.given /\ d.access.subs = "permit" THEN "deny" ELSE d.access.subs) = d.access.subs
  BY DEF Validate, ValidAccess
<1>3. openSubscribers(d) = d
  <2>1. [d.access EXCEPT !.subs = d.access.subs] = d.access
    BY <1>1 DEF IsFcn
  <2>2. [d EXCEPT !.access = d.access] = d
    BY <1>1 DEF IsFcn
  <2>3. openSubscribers(d) = [d EXCEPT !.access = [d.access EXCEPT !.subs = d.access.subs]]
    BY <1>2 DEF openSubscribers
  <2> QED BY <2>1, <2>2, <2>3
<1>4. d.weather.zones = <<"TXC121">>
  BY DEF Validate, ValidWeather
<1>5. widenWeather(d) = d
  <2>1. [d.weather EXCEPT !.zones = d.weather.zones] = d.weather /\ [d.weather EXCEPT !.events = d.weather.events] = d.weather
    BY <1>1 DEF IsFcn
  <2>2. [d EXCEPT !.weather = d.weather] = d
    BY <1>1 DEF IsFcn
  <2>3. (IF d.weather.zones = <<"txc121">> THEN <<"TXC121">> ELSE d.weather.zones) = d.weather.zones
    BY <1>4
  <2> QED BY <2>1, <2>2, <2>3 DEF widenWeather
<1> QED BY <1>3, <1>5 DEF Upgrade

-----------------------------------------------------------------------------
(* An edit leaves a document a document.                                   *)
LEMMA OneChanged ==
  ASSUME NEW f, NEW a, NEW v, NEW g, g = [f EXCEPT ![a] = v]
  PROVE  /\ IsFcn(g) /\ DOMAIN g = DOMAIN f
         /\ \A x \in DOMAIN f : g[x] = IF x = a THEN v ELSE f[x]
BY DEF IsFcn

(* One entry of a list is changed.                                         *)
LEMMA SeqOneChanged ==
  ASSUME NEW f, IsSeq(f), NEW a, NEW v
  PROVE  IsSeq([f EXCEPT ![a] = v])
<1> DEFINE g == [f EXCEPT ![a] = v]
<1>1. IsFcn(g) /\ DOMAIN g = DOMAIN f
  BY OneChanged
<1> HIDE DEF g
<1>2. IsSeq(g)
  BY <1>1 DEF IsSeq
<1> QED BY <1>2 DEF g

(* The sections of a document are not mixed up.                            *)
LEMMA SectionsApart ==
  /\ \A s \in DOMAIN PlainFields : s \notin DOMAIN ListFields
  /\ {"access", "weather"} \subseteq DOMAIN PlainFields /\ "bridges" \in DOMAIN ListFields
  /\ PlainFields["access"] = AccessFields /\ ListFields["bridges"] = BridgeFields
BY DEF PlainFields, ListFields

(* One setting is changed.                                                 *)
LEMMA ShapeSet ==
  ASSUME NEW d, Shape(d), NEW s \in DOMAIN PlainFields, NEW f \in DOMAIN PlainFields[s],
         NEW v \in PlainFields[s][f]
  PROVE  Shape([d EXCEPT ![s][f] = v])
<1> DEFINE r == [d[s] EXCEPT ![f] = v]
           e == [d EXCEPT ![s] = r]
<1>0. [d EXCEPT ![s][f] = v] = e
  OBVIOUS
<1>1. /\ IsFcn(d) /\ DOMAIN d = DOMAIN PlainFields \cup DOMAIN ListFields
      /\ \A t \in DOMAIN ListFields : IsSeq(d[t])
      /\ \A i \in DOMAIN d.bridges : BridgeShape(d.bridges[i])
      /\ AccessShape(d.access) /\ IsFcn(d.weather)
  BY DEF Shape
<1>2. IsFcn(r) /\ DOMAIN r = DOMAIN d[s] /\ \A x \in DOMAIN d[s] : r[x] = IF x = f THEN v ELSE d[s][x]
  BY OneChanged
<1> HIDE DEF r
<1>3. IsFcn(e) /\ DOMAIN e = DOMAIN d /\ \A x \in DOMAIN d : e[x] = IF x = s THEN r ELSE d[x]
  BY OneChanged
<1> HIDE DEF e
<1>4. IsFcn(e.weather)
  BY <1>1, <1>2, <1>3, SectionsApart
<1>5. \A t \in DOMAIN ListFields : e[t] = d[t]
  BY <1>1, <1>3, SectionsApart
<1>6. AccessShape(e.access)
  <2>1. CASE s # "access"
    <3>1. e.access = d.access
      BY <1>1, <1>3, <2>1, SectionsApart
    <3> QED BY <1>1, <3>1
  <2>2. CASE s = "access"
    <3>1. e.access = r
      BY <1>1, <1>3, <2>2, SectionsApart
    <3>2. DOMAIN r = DOMAIN d.access /\ "subs" \in DOMAIN r /\ "ids" \in DOMAIN r /\ v \in AccessFields[f]
      BY <1>1, <1>2, <2>2, SectionsApart DEF AccessShape
    <3>3. r.subs \in {"deny", "permit"}
      <4>1. r.subs = IF f = "subs" THEN v ELSE d.access.subs
        BY <1>2, <2>2, <3>2
      <4>2. f = "subs" => v \in {"deny", "permit"}
        BY <3>2 DEF AccessFields
      <4> QED BY <1>1, <4>1, <4>2 DEF AccessShape
    <3>4. r.ids \in Seq([lo : Nat, hi : Nat])
      <4>1. r.ids = IF f = "ids" THEN v ELSE d.access.ids
        BY <1>2, <2>2, <3>2
      <4>2. f = "ids" => v \in {<<>>, <<Span(1, 2)>>, <<Span(2, 1)>>}
        BY <3>2 DEF AccessFields
      <4>3. {<<>>, <<Span(1, 2)>>, <<Span(2, 1)>>} \subseteq Seq([lo : Nat, hi : Nat])
        <5> DEFINE R == [lo : Nat, hi : Nat]
        <5>1. Span(1, 2) \in R /\ Span(2, 1) \in R
          BY DEF Span
        <5> HIDE DEF R
        <5>2. <<>> \in Seq(R) /\ <<Span(1, 2)>> \in Seq(R) /\ <<Span(2, 1)>> \in Seq(R)
          BY <5>1
        <5> QED BY <5>2 DEF R
      <4> QED BY <1>1, <4>1, <4>2, <4>3 DEF AccessShape
    <3> QED BY <1>2, <3>1, <3>2, <3>3, <3>4 DEF AccessShape
  <2> QED BY <2>1, <2>2
<1>7. Shape(e)
  <2>1. e.bridges = d.bridges
    BY <1>5, SectionsApart
  <2> QED BY <1>1, <1>3, <1>4, <1>5, <1>6, <2>1 DEF Shape
<1> QED BY <1>0, <1>7

(* One list is replaced.                                                   *)
LEMMA ShapeList ==
  ASSUME NEW d, Shape(d), NEW s \in DOMAIN ListFields, NEW q, IsSeq(q),
         s = "bridges" => \A i \in DOMAIN q : BridgeShape(q[i])
  PROVE  Shape([d EXCEPT ![s] = q])
<1> DEFINE e == [d EXCEPT ![s] = q]
<1>1. /\ IsFcn(d) /\ DOMAIN d = DOMAIN PlainFields \cup DOMAIN ListFields
      /\ \A t \in DOMAIN ListFields : IsSeq(d[t])
      /\ \A i \in DOMAIN d.bridges : BridgeShape(d.bridges[i])
      /\ AccessShape(d.access) /\ IsFcn(d.weather)
  BY DEF Shape
<1>2. IsFcn(e) /\ DOMAIN e = DOMAIN d /\ \A x \in DOMAIN d : e[x] = IF x = s THEN q ELSE d[x]
  BY OneChanged
<1> HIDE DEF e
<1>3. \A t \in DOMAIN PlainFields : e[t] = d[t]
  BY <1>1, <1>2, SectionsApart
<1>4. \A t \in DOMAIN ListFields : IsSeq(e[t])
  BY <1>1, <1>2
<1>5. e.access = d.access /\ e.weather = d.weather
  BY <1>3, SectionsApart
<1>6. \A i \in DOMAIN e.bridges : BridgeShape(e.bridges[i])
  <2>1. e.bridges = IF s = "bridges" THEN q ELSE d.bridges
    BY <1>1, <1>2, SectionsApart
  <2> QED BY <1>1, <2>1
<1>7. Shape(e)
  BY <1>1, <1>2, <1>4, <1>5, <1>6 DEF Shape
<1> QED BY <1>7 DEF e

(* One bridge is changed.                                                  *)
LEMMA ShapeBridge ==
  ASSUME NEW d, Shape(d), NEW i \in DOMAIN d.bridges, NEW b, BridgeShape(b)
  PROVE  Shape([d EXCEPT !.bridges = [d.bridges EXCEPT ![i] = b]])
<1> DEFINE q == [d.bridges EXCEPT ![i] = b]
<1>1. IsSeq(d.bridges) /\ \A j \in DOMAIN d.bridges : BridgeShape(d.bridges[j])
  BY ListsAreSeqs DEF Shape
<1>2. IsSeq(q)
  BY <1>1, SeqOneChanged
<1>3. DOMAIN q = DOMAIN d.bridges /\ \A j \in DOMAIN q : q[j] = IF j = i THEN b ELSE d.bridges[j]
  BY OneChanged
<1> HIDE DEF q
<1>4. \A j \in DOMAIN q : BridgeShape(q[j])
  BY <1>1, <1>3
<1>5. Shape([d EXCEPT !["bridges"] = q])
  BY <1>2, <1>4, ShapeList, SectionsApart
<1> QED BY <1>5 DEF q

(* The endpoints of a bridge are changed.                                  *)
LEMMA ShapeEndpoints ==
  ASSUME NEW b, BridgeShape(b), NEW q, IsSeq(q), \A k \in DOMAIN q : IsFcn(q[k])
  PROVE  BridgeShape([b EXCEPT !.endpoints = q])
<1> DEFINE c == [b EXCEPT !.endpoints = q]
<1>1. IsFcn(c) /\ DOMAIN c = DOMAIN b /\ \A x \in DOMAIN b : c[x] = IF x = "endpoints" THEN q ELSE b[x]
  BY OneChanged
<1> HIDE DEF c
<1>2. c.endpoints = q
  BY <1>1 DEF BridgeShape
<1>3. BridgeShape(c)
  BY <1>1, <1>2 DEF BridgeShape
<1> QED BY <1>3 DEF c

(* A list is a sequence of what is in it, and the other way round.         *)
LEMMA SeqIsSeq ==
  ASSUME NEW q, IsSeq(q)
  PROVE  LET S == {q[i] : i \in DOMAIN q} IN q \in Seq(S) /\ DOMAIN q = 1..Len(q) /\ Len(q) \in Nat
<1> DEFINE S == {q[i] : i \in DOMAIN q}
<1>1. PICK n \in Nat : DOMAIN q = 1..n
  BY DEF IsSeq
<1>2. q = [i \in 1..n |-> q[i]]
  BY <1>1 DEF IsSeq, IsFcn
<1>3. \A i \in 1..n : q[i] \in S
  BY <1>1
<1> HIDE DEF S
<1>4. q \in [1..n -> S]
  BY <1>2, <1>3
<1>5. q \in Seq(S)
  BY <1>4
<1>6. DOMAIN q = 1..Len(q) /\ Len(q) \in Nat
  BY <1>5, LenProperties
<1> QED BY <1>5, <1>6 DEF S

LEMMA InSeqIsSeq ==
  ASSUME NEW S, NEW q \in Seq(S)
  PROVE  IsSeq(q)
<1>1. Len(q) \in Nat /\ q \in [1..Len(q) -> S]
  BY LenProperties
<1> QED BY <1>1 DEF IsSeq, IsFcn

(* Copying the first entry to the end, and dropping the last, bring in     *)
(* nothing new.                                                            *)
LEMMA SeqCopied ==
  ASSUME NEW q, IsSeq(q), q # <<>>
  PROVE  LET r == Append(q, Head(q))
         IN  IsSeq(r) /\ \A i \in DOMAIN r : \E j \in DOMAIN q : r[i] = q[j]
<1> DEFINE S == {q[i] : i \in DOMAIN q}
           r == Append(q, Head(q))
<1>1. q \in Seq(S) /\ DOMAIN q = 1..Len(q) /\ Len(q) \in Nat
  BY SeqIsSeq
<1>2. \A x \in S : \E j \in DOMAIN q : x = q[j]
  OBVIOUS
<1> HIDE DEF S
<1>3. Head(q) \in S
  BY <1>1
<1>4. r \in Seq(S)
  BY <1>1, <1>3
<1> HIDE DEF r
<1>5. IsSeq(r)
  BY <1>4, InSeqIsSeq
<1>6. \A i \in DOMAIN r : r[i] \in S
  BY <1>4
<1> QED BY <1>2, <1>5, <1>6 DEF r

LEMMA SeqDropped ==
  ASSUME NEW q, IsSeq(q), q # <<>>
  PROVE  IsSeq(Front(q)) /\ \A i \in DOMAIN Front(q) : \E j \in DOMAIN q : Front(q)[i] = q[j]
<1> DEFINE S == {q[i] : i \in DOMAIN q}
           r == Front(q)
<1>1. q \in Seq(S) /\ DOMAIN q = 1..Len(q) /\ Len(q) \in Nat
  BY SeqIsSeq
<1>2. \A x \in S : \E j \in DOMAIN q : x = q[j]
  OBVIOUS
<1> HIDE DEF S
<1>4. r \in Seq(S)
  BY <1>1 DEF Front
<1> HIDE DEF r
<1>5. IsSeq(r)
  BY <1>4, InSeqIsSeq
<1>6. \A i \in DOMAIN r : r[i] \in S
  BY <1>4
<1> QED BY <1>2, <1>5, <1>6 DEF r

(* One setting of an entry, of an endpoint, or the last endpoint goes.     *)
LEMMA ShapeSetIn ==
  ASSUME NEW d, Shape(d), NEW s \in DOMAIN ListFields, NEW f \in DOMAIN ListFields[s],
         NEW i \in DOMAIN d[s], NEW v
  PROVE  Shape([d EXCEPT ![s][i][f] = v])
<1> DEFINE b == [d[s][i] EXCEPT ![f] = v]
           q == [d[s] EXCEPT ![i] = b]
<1>0. [d EXCEPT ![s][i][f] = v] = [d EXCEPT ![s] = q]
  OBVIOUS
<1>1. IsFcn(b) /\ DOMAIN b = DOMAIN d[s][i] /\ \A x \in DOMAIN d[s][i] : b[x] = IF x = f THEN v ELSE d[s][i][x]
  BY OneChanged
<1> HIDE DEF b
<1>2. IsSeq(q)
  BY SeqOneChanged DEF Shape
<1>3. DOMAIN q = DOMAIN d[s] /\ \A j \in DOMAIN q : q[j] = IF j = i THEN b ELSE d[s][j]
  BY OneChanged
<1> HIDE DEF q
<1>4. ASSUME s = "bridges" PROVE \A j \in DOMAIN q : BridgeShape(q[j])
  <2>1. f # "endpoints"
    BY <1>4, SectionsApart DEF BridgeFields
  <2>2. \A j \in DOMAIN d[s] : BridgeShape(d[s][j])
    BY <1>4 DEF Shape
  <2>3. BridgeShape(b)
    BY <1>1, <2>1, <2>2 DEF BridgeShape
  <2> QED BY <1>3, <2>2, <2>3
<1>5. Shape([d EXCEPT ![s] = q])
  BY <1>2, <1>4, ShapeList
<1> QED BY <1>0, <1>5

LEMMA ShapeSetEndpoint ==
  ASSUME NEW d, Shape(d), NEW i \in DOMAIN d.bridges, NEW k \in DOMAIN d.bridges[i].endpoints, NEW f, NEW v
  PROVE  Shape([d EXCEPT !.bridges[i].endpoints[k][f] = v])
<1> DEFINE b == d.bridges[i]
           w == [b.endpoints[k] EXCEPT ![f] = v]
           q == [b.endpoints EXCEPT ![k] = w]
           c == [b EXCEPT !.endpoints = q]
<1>0. [d EXCEPT !.bridges[i].endpoints[k][f] = v] = [d EXCEPT !.bridges = [d.bridges EXCEPT ![i] = c]]
  OBVIOUS
<1>1. BridgeShape(b)
  BY DEF Shape
<1>2. IsFcn(w)
  BY OneChanged
<1> HIDE DEF b, w
<1>3. IsSeq(q)
  BY <1>1, SeqOneChanged DEF BridgeShape
<1>4. DOMAIN q = DOMAIN b.endpoints /\ \A j \in DOMAIN q : q[j] = IF j = k THEN w ELSE b.endpoints[j]
  BY OneChanged
<1> HIDE DEF q
<1>5. BridgeShape(c)
  BY <1>1, <1>2, <1>3, <1>4, ShapeEndpoints DEF BridgeShape
<1> HIDE DEF c
<1> QED BY <1>0, <1>5, ShapeBridge

LEMMA ShapeDropEndpoint ==
  ASSUME NEW d, Shape(d), NEW i \in DOMAIN d.bridges, d.bridges[i].endpoints # <<>>
  PROVE  Shape([d EXCEPT !.bridges[i].endpoints = Front(@)])
<1> DEFINE b == d.bridges[i]
           q == Front(b.endpoints)
           c == [b EXCEPT !.endpoints = q]
<1>0. [d EXCEPT !.bridges[i].endpoints = Front(@)] = [d EXCEPT !.bridges = [d.bridges EXCEPT ![i] = c]]
  OBVIOUS
<1>1. BridgeShape(b)
  BY DEF Shape
<1>2. b.endpoints # <<>>
  OBVIOUS
<1> HIDE DEF b
<1>3. IsSeq(q) /\ \A k \in DOMAIN q : IsFcn(q[k])
  BY <1>1, <1>2, SeqDropped DEF BridgeShape
<1> HIDE DEF q
<1>5. BridgeShape(c)
  BY <1>1, <1>3, ShapeEndpoints
<1> HIDE DEF c
<1> QED BY <1>0, <1>5, ShapeBridge

(* Every edit.                                                             *)
LEMMA EditsKeepShape ==
  ASSUME Shape(doc), SettingsNext
  PROVE  Shape(doc')
<1>1. ASSUME NEW s \in DOMAIN PlainFields, NEW f \in DOMAIN PlainFields[s], Set(s, f)
      PROVE  Shape(doc')
  <2>1. PICK v \in PlainFields[s][f] : doc' = [doc EXCEPT ![s][f] = v]
    BY <1>1 DEF Set
  <2> QED BY <2>1, ShapeSet
<1>2. ASSUME NEW s \in DOMAIN ListFields, NEW f \in DOMAIN ListFields[s], SetIn(s, f)
      PROVE  Shape(doc')
  <2>1. PICK i \in DOMAIN doc[s] : \E v : doc' = [doc EXCEPT ![s][i][f] = v]
    BY <1>2 DEF SetIn
  <2>2. PICK v : doc' = [doc EXCEPT ![s][i][f] = v]
    BY <2>1
  <2> QED BY <2>2, ShapeSetIn
<1>3. ASSUME NEW f \in DOMAIN EndpointFields, SetEndpoint(f)
      PROVE  Shape(doc')
  <2>1. PICK i \in DOMAIN doc.bridges : \E k \in DOMAIN doc.bridges[i].endpoints :
          \E v : doc' = [doc EXCEPT !.bridges[i].endpoints[k][f] = v]
    BY <1>3 DEF SetEndpoint
  <2>2. PICK k \in DOMAIN doc.bridges[i].endpoints : \E v : doc' = [doc EXCEPT !.bridges[i].endpoints[k][f] = v]
    BY <2>1
  <2>3. PICK v : doc' = [doc EXCEPT !.bridges[i].endpoints[k][f] = v]
    BY <2>2
  <2> QED BY <2>3, ShapeSetEndpoint
<1>4. ASSUME NEW s \in DOMAIN ListFields, Copy(s) \/ Drop(s)
      PROVE  Shape(doc')
  <2>0. IsSeq(doc[s]) /\ (s = "bridges" => \A i \in DOMAIN doc[s] : BridgeShape(doc[s][i]))
    BY DEF Shape
  <2>1. CASE Copy(s)
    <3> DEFINE q == Append(doc[s], Head(doc[s]))
    <3>1. doc[s] # <<>> /\ doc' = [doc EXCEPT ![s] = q]
      BY <2>1 DEF Copy
    <3>2. IsSeq(q) /\ \A i \in DOMAIN q : \E j \in DOMAIN doc[s] : q[i] = doc[s][j]
      BY <2>0, <3>1, SeqCopied
    <3> HIDE DEF q
    <3>3. s = "bridges" => \A i \in DOMAIN q : BridgeShape(q[i])
      BY <2>0, <3>2
    <3> QED BY <3>1, <3>2, <3>3, ShapeList
  <2>2. CASE Drop(s)
    <3> DEFINE q == Front(doc[s])
    <3>1. doc[s] # <<>> /\ doc' = [doc EXCEPT ![s] = q]
      BY <2>2 DEF Drop
    <3>2. IsSeq(q) /\ \A i \in DOMAIN q : \E j \in DOMAIN doc[s] : q[i] = doc[s][j]
      BY <2>0, <3>1, SeqDropped
    <3> HIDE DEF q
    <3>3. s = "bridges" => \A i \in DOMAIN q : BridgeShape(q[i])
      BY <2>0, <3>2
    <3> QED BY <3>1, <3>2, <3>3, ShapeList
  <2> QED BY <1>4, <2>1, <2>2
<1>5. ASSUME DropEndpoint(1) PROVE Shape(doc')
  BY <1>5, ShapeDropEndpoint DEF DropEndpoint
<1> QED BY <1>1, <1>2, <1>3, <1>4, <1>5 DEF SettingsNext

(* A document that says nothing, and one in which everything is on.        *)
LEMMA EmptyIsSeq == IsSeq(<<>>)
<1>1. DOMAIN <<>> = 1..0
  OBVIOUS
<1> QED BY <1>1 DEF IsSeq, IsFcn

LEMMA OneIsSeq == ASSUME NEW x PROVE IsSeq(<<x>>) /\ DOMAIN <<x>> = {1} /\ <<x>>[1] = x
<1>1. <<x>> \in Seq({x})
  OBVIOUS
<1>2. IsSeq(<<x>>)
  BY <1>1, InSeqIsSeq
<1> QED BY <1>2

LEMMA DefaultHasShape == Shape(Default)
<1>1. DOMAIN Default = DOMAIN PlainFields \cup DOMAIN ListFields
  BY SMT DEF Default, PlainFields, ListFields
<1>2. Default = [zello |-> Default.zello, server |-> Default.server, map |-> Default.map,
                 database |-> Default.database, logging |-> Default.logging, events |-> Default.events,
                 repeaters |-> Default.repeaters, p25 |-> Default.p25, ipsc |-> Default.ipsc,
                 dmr |-> Default.dmr, parrot |-> Default.parrot, callsigns |-> Default.callsigns,
                 subscription |-> Default.subscription, access |-> Default.access,
                 weather |-> Default.weather, bridges |-> Default.bridges, triggers |-> Default.triggers,
                 schedule |-> Default.schedule, upstreams |-> Default.upstreams,
                 transcoders |-> Default.transcoders, join |-> Default.join]
  BY SMT DEF Default
<1>3. IsFcn(Default)
  BY <1>2 DEF IsFcn
<1>4. \A s \in DOMAIN ListFields : Default[s] = <<>>
  BY SMT DEF Default, ListFields
<1>5. AccessShape(Default.access)
  <2>1. Default.access = [given |-> FALSE, reg |-> Blank, subs |-> "deny", ids |-> <<>>]
    BY SMT DEF Default
  <2>2. <<>> \in Seq([lo : Nat, hi : Nat])
    OBVIOUS
  <2> QED BY <2>1, <2>2 DEF AccessShape, IsFcn
<1>6. IsFcn(Default.weather)
  <2>1. Default.weather = [enabled |-> FALSE, zones |-> <<>>, events |-> <<>>, tg |-> 0, slot |-> 1,
                           sender |-> 0, contact |-> Blank]
    BY SMT DEF Default
  <2> QED BY <2>1 DEF IsFcn
<1>7. Default.bridges = <<>>
  BY <1>4, SectionsApart
<1> QED BY <1>1, <1>3, <1>4, <1>5, <1>6, <1>7, EmptyIsSeq DEF Shape

LEMMA WorkingHasShape == Shape(Working)
<1> DEFINE on == EverythingOn
<1>1. /\ IsFcn(Working) /\ DOMAIN Working = DOMAIN Default
      /\ \A s \in DOMAIN Default : s \in DOMAIN on => Working[s] = on[s]
  BY DEF Working, IsFcn
<1>2. DOMAIN Default = DOMAIN PlainFields \cup DOMAIN ListFields
  BY DefaultHasShape DEF Shape
<1>3. "access" \in DOMAIN on /\ "weather" \in DOMAIN on /\ \A s \in DOMAIN ListFields : s \in DOMAIN on
  BY SMT DEF EverythingOn, ListFields
<1>4. /\ on.access = [given |-> TRUE, reg |-> "permit", subs |-> "deny", ids |-> <<Span(1, 2)>>]
      /\ on.bridges = <<NetBridge>>
      /\ on.weather = [enabled |-> TRUE, zones |-> <<"TXC121">>, events |-> <<"* Warning">>, tg |-> 9, slot |-> 1,
                       sender |-> 1, contact |-> Blank]
  BY SMT DEF EverythingOn
<1>5. \A s \in DOMAIN ListFields : \E x : on[s] = <<x>>
  <2>1. \E x : on.triggers = <<x>>
    BY SMT DEF EverythingOn
  <2>2. \E x : on.schedule = <<x>>
    BY SMT DEF EverythingOn
  <2>3. \E x : on.upstreams = <<x>>
    BY SMT DEF EverythingOn
  <2>4. \E x : on.transcoders = <<x>>
    BY SMT DEF EverythingOn
  <2>5. \E x : on.join = <<x>>
    BY SMT DEF EverythingOn
  <2>6. \A s \in DOMAIN ListFields :
          s \in {"bridges", "triggers", "schedule", "upstreams", "transcoders", "join"}
    BY DEF ListFields
  <2> HIDE DEF on
  <2> QED BY <1>4, <2>1, <2>2, <2>3, <2>4, <2>5, <2>6
<1> HIDE DEF on
<1>6. \A s \in DOMAIN ListFields : IsSeq(Working[s])
  BY <1>1, <1>2, <1>3, <1>5, OneIsSeq
<1>7. AccessShape(Working.access)
  <2> DEFINE R == [lo : Nat, hi : Nat]
  <2>1. Working.access = [given |-> TRUE, reg |-> "permit", subs |-> "deny", ids |-> <<Span(1, 2)>>]
    BY <1>1, <1>2, <1>3, <1>4, SectionsApart
  <2>2. Span(1, 2) \in R
    BY DEF Span
  <2> HIDE DEF R
  <2>3. <<Span(1, 2)>> \in Seq(R)
    BY <2>2
  <2> QED BY <2>1, <2>3 DEF AccessShape, IsFcn, R
<1>8. IsFcn(Working.weather)
  BY <1>1, <1>2, <1>3, <1>4, SectionsApart DEF IsFcn
<1>9. BridgeShape(NetBridge)
  <2> DEFINE q == <<Endpoint(1, Blank, Blank), Endpoint(0, "link", Blank), Endpoint(0, Blank, "voc")>>
  <2>1. \A p, l, v : IsFcn(Endpoint(p, l, v))
    BY DEF Endpoint, IsFcn
  <2>2. IsSeq(q) /\ DOMAIN q = 1..3
    BY DEF IsSeq, IsFcn
  <2>3. \A k \in DOMAIN q : IsFcn(q[k])
    BY <2>1, <2>2
  <2>4. NetBridge = [name |-> "net", enabled |-> TRUE, endpoints |-> q]
    BY DEF NetBridge
  <2> HIDE DEF q
  <2> QED BY <2>2, <2>3, <2>4 DEF BridgeShape, IsFcn
<1>10. \A i \in DOMAIN Working.bridges : BridgeShape(Working.bridges[i])
  <2>1. Working.bridges = <<NetBridge>>
    BY <1>1, <1>2, <1>3, <1>4, SectionsApart
  <2> QED BY <1>9, <2>1, OneIsSeq
<1> QED BY <1>1, <1>2, <1>6, <1>7, <1>8, <1>10 DEF Shape

(* The documents the runs start from, the lists of entries among them.     *)
LEMMA FirstDocuments ==
  /\ Shape(Default) /\ Shape(Working)
  /\ \A l \in Seq([lo : Nat, hi : Nat]) : Shape([Working EXCEPT !.access.ids = l])
<1>1. ASSUME NEW l \in Seq([lo : Nat, hi : Nat])
      PROVE  Shape([Working EXCEPT !.access.ids = l])
  <2> DEFINE r == [Working.access EXCEPT !.ids = l]
             e == [Working EXCEPT !.access = r]
  <2>1. [Working EXCEPT !.access.ids = l] = e
    OBVIOUS
  <2>2. IsFcn(r) /\ DOMAIN r = DOMAIN Working.access
          /\ \A x \in DOMAIN Working.access : r[x] = IF x = "ids" THEN l ELSE Working.access[x]
    <3> DEFINE a == Working.access
    <3>1. r = [a EXCEPT !["ids"] = l]
      OBVIOUS
    <3> HIDE DEF a, r
    <3>2. IsFcn(r) /\ DOMAIN r = DOMAIN a /\ \A x \in DOMAIN a : r[x] = IF x = "ids" THEN l ELSE a[x]
      BY <3>1, OneChanged
    <3> QED BY <3>2 DEF a
  <2>3. AccessShape(Working.access)
    BY WorkingHasShape DEF Shape
  <2> HIDE DEF r
  <2>4. AccessShape(r)
    BY <2>2, <2>3 DEF AccessShape
  <2>5. IsFcn(e) /\ DOMAIN e = DOMAIN Working
          /\ \A x \in DOMAIN e : e[x] = IF x = "access" THEN r ELSE Working[x]
    BY OneChanged
  <2> HIDE DEF e
  <2>6. DOMAIN e = DOMAIN PlainFields \cup DOMAIN ListFields
    BY <2>5, WorkingHasShape DEF Shape
  <2>7. e.access = r /\ e.weather = Working.weather /\ \A s \in DOMAIN ListFields : e[s] = Working[s]
    BY <2>5, <2>6, SectionsApart
  <2>8. e.bridges = Working.bridges
    BY <2>7, SectionsApart
  <2>9. Shape(e)
    BY <2>4, <2>5, <2>6, <2>7, <2>8, WorkingHasShape DEF Shape
  <2> QED BY <2>1, <2>9
<1> QED BY <1>1, DefaultHasShape, WorkingHasShape

(* Editing starts from any document.                                       *)
SettingsSpec == Shape(doc) /\ [][SettingsNext]_settingsVars

(* Whatever is edited, copied or dropped, a document stays a document.     *)
THEOREM DocumentsKeepShape == SettingsSpec => []Shape(doc)
<1>1. Shape(doc) /\ [SettingsNext]_settingsVars => Shape(doc)'
  <2> SUFFICES ASSUME Shape(doc), [SettingsNext]_settingsVars PROVE Shape(doc')
    OBVIOUS
  <2>1. CASE SettingsNext
    BY <2>1, EditsKeepShape
  <2>2. CASE UNCHANGED settingsVars
    <3>1. doc' = doc
      BY <2>2 DEF settingsVars
    <3> QED BY <3>1
  <2> QED BY <2>1, <2>2
<1> QED BY <1>1, PTL DEF SettingsSpec

(* A configuration that Validate accepts is one that build and run accept, *)
(* apart from the known gaps; what its entries name is found, and the next *)
(* Load leaves it alone.  For every document, not only those with the      *)
(* representative values the runs take.                                    *)
THEOREM SavedDocumentStarts == SettingsSpec => []SavedStartsOtherwise
<1>1. Shape(doc) => SavedStartsOtherwise
  BY SavedStarts, SavedNamesFound, SavedIsCurrent DEF SavedStartsOtherwise
<1> QED BY <1>1, DocumentsKeepShape, PTL

(* A list that Parse accepts names exactly the IDs its entries cover after *)
(* sort, merge and binary search, however many entries there are, however  *)
(* they overlap and whatever the largest ID is.                            *)
THEOREM AccessListsMeanWhatTheySay == SettingsSpec => []ListsMeanWhatTheySay
<1>1. Shape(doc) => ListsMeanWhatTheySay
  <2> SUFFICES ASSUME Shape(doc), ParseOK(RegistrationList(doc)) PROVE MeansWhatItSays(RegistrationList(doc))
    BY DEF ListsMeanWhatTheySay
  <2> DEFINE acl == RegistrationList(doc)
  <2>1. acl.ids = doc.access.ids
    BY DEF RegistrationList
  <2>2. acl.ids \in Seq([lo : Nat, hi : Nat])
    BY <2>1 DEF Shape, AccessShape
  <2>3. ParseOK(acl)
    OBVIOUS
  <2> HIDE DEF acl
  <2>4. MeansWhatItSays(acl)
    BY <2>2, <2>3, ListsAreMeant
  <2> QED BY <2>4 DEF acl
<1> QED BY <1>1, DocumentsKeepShape, PTL
=============================================================================
