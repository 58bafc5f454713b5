---------------------------- MODULE ConfigStore ----------------------------
(***************************************************************************)
(* How a configuration is edited, saved, put in force and restored:        *)
(* handleSaveConfig and the other handlers of internal/server that edit    *)
(* under editing(), configManager.Save in cmd/qsp, the version store and   *)
(* the atomic file write of internal/config, backups, and a process that   *)
(* may die between any two steps of a save.                                *)
(*                                                                         *)
(* A configuration is a value per setting, one of each kind: bridges are   *)
(* applied to the listener by a save, map to the HTTP server, upstreams    *)
(* and dsn at start, identity is told to links that are dialled, and       *)
(* identifier is the server's name for itself; 0 is an empty setting.      *)
(***************************************************************************)
EXTENDS Integers, Sequences

CONSTANTS Editors,    \* browsers with a page of the console open
          MaxSaves    \* saves that may be begun

VARIABLES file,       \* the configuration file
          versions,   \* configuration_versions, oldest first
          running,    \* configManager: its current and startup, or Down
          effect,     \* what each setting is in the running process
          saving,     \* the save in progress, under editing() and mu
          page,       \* what each browser was given, and what it shows now
          backup,     \* a backup file an operator has
          begun,      \* saves begun so far
          intent      \* what each setting was last deliberately set to

storeVars == <<file, versions, running, effect, saving, page, backup, begun, intent>>

Keys == {"bridges", "map", "upstreams", "identity", "dsn", "identifier"}
Nil == [s \in Keys |-> -1]
Values(s) == IF s = "bridges" THEN 0..2 ELSE 0..1
Typed == {"bridges", "upstreams", "identity"}      \* edited on pages
EditedHere == {"upstreams", "map"}                 \* edited by handlers of their own
First == [s \in Keys |-> IF s = "identifier" THEN 0 ELSE 1]
Elsewhere == [s \in Keys |-> IF s = "identifier" THEN 3 ELSE 0]
Unnamed == [Elsewhere EXCEPT !["identifier"] = 0]

Down == [current |-> Nil, startup |-> Nil, late |-> FALSE]
NoSave == [step |-> "none", doc |-> Nil, meant |-> Nil]
NoPage == [base |-> Nil, mine |-> Nil]
Up == running # Down
Idle == Up /\ saving = NoSave

(* Validate: a bridge that reaches a link needs the link to be there.      *)
Valid(c) == c["bridges"] = 2 => c["upstreams"] # 0

(* Merge: the leaves of the two documents, compared with the one the page  *)
(* was given.                                                              *)
Conflict(base, mine, now) ==
  \E s \in Keys : mine[s] # base[s] /\ now[s] # base[s] /\ mine[s] # now[s]

(* Mutant: the page is saved as it is, whatever was saved since. *)
MergeUnbased(base, mine, now) == mine

Merge(base, mine, now) == [s \in Keys |-> IF mine[s] = base[s] THEN now[s] ELSE mine[s]]

KeepIdentifier(c, now) ==
  [c EXCEPT !["identifier"] = IF @ = 0 THEN now["identifier"] ELSE @]
keepMachineLocal(c, now) == [c EXCEPT !["dsn"] = now["dsn"]]

(* NeedsRestart, with the lists of restart.go.                             *)
appliedOnSave == {"bridges", "map"}
toldToLinks == {"identity"}
dialsALink(c) == c["upstreams"] # 0

(* Mutant: whether a link is dialled is asked of the settings to be. *)
NeedsRestartAfter(before, after) ==
  {s \in Keys \ appliedOnSave : before[s] # after[s] /\ (s \in toldToLinks => dialsALink(after))}

NeedsRestart(before, after) ==
  {s \in Keys \ appliedOnSave : before[s] # after[s] /\ (s \in toldToLinks => dialsALink(before))}
PendingRestart == NeedsRestart(running.startup, running.current)

-----------------------------------------------------------------------------
StoreInit ==
  /\ file = First /\ versions = <<>> /\ running = Down /\ effect = Nil /\ saving = NoSave
  /\ page = [e \in Editors |-> NoPage] /\ backup \in {Nil, Elsewhere, Unnamed} /\ begun = 0 /\ intent = First

(* What an author means to set: what a page changed, or the whole document *)
(* where there is no page to compare with.                                 *)
Meant(base, mine) == [s \in Keys |-> IF base = Nil \/ mine[s] # base[s] THEN mine[s] ELSE intent[s]]

(* Save is called; what fails Validate is refused before it is recorded.   *)
Begin(doc, meant) ==
  /\ begun < MaxSaves /\ begun' = begun + 1
  /\ saving' = IF Valid(doc) THEN [step |-> "record", doc |-> doc, meant |-> meant] ELSE NoSave
  /\ UNCHANGED <<file, versions, running, effect, backup, intent>>

(* The process starts on the file, and before it serves anything           *)
(* ensureIdentifier saves a name for it if it has none; when that fails,   *)
(* or the process dies in the middle, it has not started.                  *)
Start ==
  /\ ~Up
  /\ LET named == KeepIdentifier(file, [file EXCEPT !["identifier"] = 1])
     IN  \/ /\ running' = [current |-> named, startup |-> file, late |-> FALSE]
            /\ effect' = named /\ file' = named /\ intent' = [intent EXCEPT !["identifier"] = named["identifier"]]
            /\ versions' = IF named = file THEN versions ELSE Append(versions, named)
            /\ UNCHANGED begun
         \/ /\ named # file /\ versions' = Append(versions, named)
            /\ begun < MaxSaves /\ begun' = begun + 1
            /\ UNCHANGED <<running, effect, file, intent>>
  /\ UNCHANGED <<saving, page, backup>>

(* handleGetConfig, and a page of the console that works on its answer.    *)
Open(e) ==
  /\ Idle /\ page[e] = NoPage
  /\ page' = [page EXCEPT ![e] = [base |-> running.current, mine |-> running.current]]
  /\ UNCHANGED <<file, versions, running, effect, saving, backup, begun, intent>>
Edited(base) ==
  {[s \in Keys |-> IF s \in Typed THEN c[s] ELSE base[s]] : c \in {c \in [Typed -> 0..2] : \A s \in Typed : c[s] \in Values(s)}}

(* handleConfigVersion, and the history page: a version is posted whole,   *)
(* with no base.                                                           *)
Preview(e, n) ==
  /\ Idle /\ page[e] = NoPage /\ n \in DOMAIN versions
  /\ page' = [page EXCEPT ![e] = [base |-> Nil, mine |-> KeepIdentifier(versions[n], running.current)]]
  /\ UNCHANGED <<file, versions, running, effect, saving, backup, begun, intent>>

(* handleSaveConfig: merged with what changed since the page was opened,   *)
(* refused on a conflict, and not saved when nothing would change.         *)
Post(e) ==
  /\ Idle /\ page[e] # NoPage
  /\ \E mine \in IF page[e].base = Nil THEN {page[e].mine} ELSE Edited(page[e].base) :
       LET base == page[e].base
           now == running.current
           doc == KeepIdentifier(IF base = Nil THEN mine ELSE Merge(base, mine, now), now)
       IN  IF (base # Nil /\ Conflict(base, mine, now)) \/ doc = now
           THEN UNCHANGED <<file, versions, running, effect, saving, backup, begun, intent>>
           ELSE Begin(doc, Meant(base, IF base = Nil THEN doc ELSE mine))
  /\ page' = [page EXCEPT ![e] = NoPage]

(* The handlers that read, change one setting and save under the lock:     *)
(* links offered, accepted and removed, call signs, session lifetime.      *)
EditHere(s, v) ==
  /\ Idle /\ v \in Values(s) /\ v # running.current[s]
  /\ LET doc == [running.current EXCEPT ![s] = v] IN Begin(doc, Meant(running.current, doc))
  /\ UNCHANGED page

(* handleBackup and handleFullBackup; handleRestore, which takes the       *)
(* backup's identifier or makes a new one, and handleFullRestore, which    *)
(* takes the configuration as it is.  Both keep what belongs to the        *)
(* machine.                                                                *)
Backup ==
  /\ Idle /\ backup # running.current /\ backup' = running.current
  /\ UNCHANGED <<file, versions, running, effect, saving, page, begun, intent>>
Restored(c, now, fresh) ==
  [keepMachineLocal(c, now) EXCEPT !["identifier"] = IF fresh \/ @ = 0 THEN 2 ELSE @]
Restore(fresh) ==
  /\ Idle /\ backup # Nil /\ Valid(backup)
  /\ LET doc == Restored(backup, running.current, fresh) IN Begin(doc, doc)
  /\ UNCHANGED page
FullRestore ==
  /\ Idle /\ backup # Nil /\ Valid(backup)
  /\ LET doc == keepMachineLocal(backup, running.current) IN Begin(doc, doc)
  /\ UNCHANGED page

(* Save: the version is recorded, then the file replaced, then the process *)
(* changed.  Recording and writing may fail, and applying may too.         *)
RecordVersion ==
  /\ saving.step = "record"
  /\ \/ versions' = Append(versions, saving.doc) /\ saving' = [saving EXCEPT !.step = "write"]
     \/ saving' = NoSave /\ UNCHANGED versions
  /\ UNCHANGED <<file, running, effect, page, backup, begun, intent>>
WriteFile ==
  /\ saving.step = "write"
  /\ \/ /\ file' = saving.doc /\ saving' = [saving EXCEPT !.step = "apply"]
        /\ intent' = saving.meant
     \/ saving' = NoSave /\ UNCHANGED <<file, intent>>
  /\ UNCHANGED <<versions, running, effect, page, backup, begun>>
InForce(doc, applied) ==
  [s \in Keys |-> IF s = "map" \/ (s = "bridges" /\ applied) \/ (s \in toldToLinks /\ ~dialsALink(running.startup))
                  THEN doc[s] ELSE effect[s]]
ApplySave ==
  /\ saving.step = "apply"
  /\ \E applied \in BOOLEAN :
       /\ running' = [running EXCEPT !.current = saving.doc, !.late = ~applied]
       /\ effect' = InForce(saving.doc, applied)
  /\ saving' = NoSave
  /\ UNCHANGED <<file, versions, page, backup, begun, intent>>

(* The process stops, wherever it is.                                      *)
Stop ==
  /\ Up /\ running' = Down /\ effect' = Nil /\ saving' = NoSave
  /\ UNCHANGED <<file, versions, page, backup, begun, intent>>

StoreNext ==
  \/ Start \/ Stop \/ Backup \/ FullRestore \/ RecordVersion \/ WriteFile \/ ApplySave
  \/ \E fresh \in BOOLEAN : Restore(fresh)
  \/ \E e \in Editors : Open(e) \/ Post(e) \/ (\E n \in DOMAIN versions : Preview(e, n))
  \/ \E s \in EditedHere : \E v \in Values(s) : EditHere(s, v)

-----------------------------------------------------------------------------
(* No lost update: outside a save, every setting is what somebody last     *)
(* deliberately set it to, however old the page was that another save was  *)
(* made from, and also after a crash in mid-save.                          *)
LastIntentHolds == Idle => running.current = intent

(* The file always holds a configuration that starts, and outside a save   *)
(* it is the one the process works from: a crash between two steps of a    *)
(* save loses nothing that was acknowledged.                               *)
FileIsCurrent == /\ Valid(file)
                 /\ Idle => file = running.current

(* What was saved stays saved, in memory and on disk.                      *)
SavesAreKept == LastIntentHolds /\ FileIsCurrent

(* PendingRestart tells the truth: a setting differs between what is saved *)
(* and what is in force exactly when it is listed, also after changes are  *)
(* taken back or restored.  Excepted are the bridges of a save whose apply *)
(* failed, of which the save's answer speaks, and the identifier a process *)
(* gave itself at start, of which its startup configuration knows nothing. *)
InForceIsTold ==
  Idle => /\ \A s \in Keys \ {"bridges"} :
               \/ s = "identifier" /\ running.startup[s] = 0
               \/ (effect[s] # running.current[s] <=> s \in PendingRestart)
          /\ ~running.late => effect["bridges"] = running.current["bridges"]
=============================================================================
