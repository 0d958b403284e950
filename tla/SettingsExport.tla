--------------------------- MODULE SettingsExport ---------------------------
(***************************************************************************)
(* Exporting the settings to a file that may be there already              *)
(* (write_export of settings_export.py).  The new file is staged, the old  *)
(* one gets a second link, the two names are exchanged in one step, and    *)
(* what is not needed any more is removed.  When a step fails or finds     *)
(* what it did not expect, the old file is put back, unless that might     *)
(* destroy what somebody else put there.                                   *)
(*                                                                         *)
(* A file is known by who wrote it.  Left out: the times in the snapshots  *)
(* of a file (a step may fail at any time anyway), what is scrubbed.       *)
(***************************************************************************)
EXTENDS FiniteSets, Naturals

CONSTANTS
    Exports,      \* the commands that export
    Old,          \* the file that may have been there before
    Nothing       \* no file

ExportAssumption == IsFiniteSet(Exports) /\ Old \notin Exports /\ Nothing \notin Exports \cup {Old}

VARIABLES
    at,           \* where each export is
    path,         \* the file at the path
    staged,       \* the file at the temporary name of each export
    backup,       \* the file at the .bak name of each export
    moved,        \* backup_moved: the exports whose backup is of the right file
    existing,     \* the file each export found at the path
    tried         \* activation_attempted

exportVars == <<at, path, staged, backup, moved, existing, tried>>

Files == Exports \cup {Old}
Ended == {"succeeded", "failed", "dead"}

ExportTypeOK ==
    /\ at \in [Exports -> Ended \cup {"idle", "stages", "checks", "links", "compares", "ready", "exchanged",
                            "returns", "replaced", "placed", "cleans", "undoes", "restores", "tidies"}]
    /\ path \in Files \cup {Nothing}
    /\ {staged, backup, existing} \subseteq [Exports -> Files \cup {Nothing}]
    /\ moved \subseteq Exports /\ tried \subseteq Exports

ExportInit ==
    /\ at = [x \in Exports |-> "idle"]
    /\ path \in {Old, Nothing}
    /\ staged = [x \in Exports |-> Nothing] /\ backup = staged /\ existing = staged
    /\ moved = {} /\ tried = {}

Links(file) ==
    (IF path = file THEN 1 ELSE 0)
    + Cardinality({x \in Exports : staged[x] = file}) + Cardinality({x \in Exports : backup[x] = file})

\* The file at the path is the export's own, and no other export has linked it.
Own(x) == path = x /\ Links(x) = 1

Goes(x, here, next) == at[x] = here /\ at' = [at EXCEPT ![x] = next]

-----------------------------------------------------------------------------
(* The steps of an export                                                  *)

Looks(x) ==
    /\ Goes(x, "idle", "stages") /\ (path = Nothing \/ Links(path) = 1)
    /\ existing' = [existing EXCEPT ![x] = path]
    /\ UNCHANGED <<path, staged, backup, moved, tried>>

Stages(x) ==
    /\ Goes(x, "stages", "checks") /\ staged' = [staged EXCEPT ![x] = x]
    /\ UNCHANGED <<path, backup, moved, existing, tried>>

Checks(x) ==
    /\ path = existing[x] /\ (path = Nothing \/ Links(path) = 1)
    /\ Goes(x, "checks", IF path = Nothing THEN "ready" ELSE "links")
    /\ UNCHANGED <<path, staged, backup, moved, existing, tried>>

LinksBackup(x) ==
    /\ path # Nothing /\ Goes(x, "links", "compares")
    /\ backup' = [backup EXCEPT ![x] = path]
    /\ UNCHANGED <<path, staged, moved, existing, tried>>

Compares(x) ==
    /\ backup[x] = existing[x] /\ path = existing[x] /\ Goes(x, "compares", "ready")
    /\ moved' = moved \cup {x}
    /\ UNCHANGED <<path, staged, backup, existing, tried>>

\* The link is taken back, unless the file has no other name any more.
LinkIsWrong(x) ==
    /\ ~(backup[x] = existing[x] /\ path = existing[x]) /\ Goes(x, "compares", "undoes")
    /\ IF path = Nothing
       THEN moved' = moved \cup {x} /\ UNCHANGED backup
       ELSE backup' = [backup EXCEPT ![x] = Nothing] /\ UNCHANGED moved
    /\ UNCHANGED <<path, staged, existing, tried>>

Exchanges(x) ==
    /\ existing[x] # Nothing /\ path # Nothing /\ Goes(x, "ready", "exchanged")
    /\ path' = staged[x] /\ staged' = [staged EXCEPT ![x] = path]
    /\ tried' = tried \cup {x}
    /\ UNCHANGED <<backup, moved, existing>>

\* Without a file to replace, the new one is renamed if there is still none.
Places(x) ==
    /\ existing[x] = Nothing /\ path = Nothing /\ Goes(x, "ready", "placed")
    /\ path' = x /\ staged' = [staged EXCEPT ![x] = Nothing]
    /\ tried' = tried \cup {x}
    /\ UNCHANGED <<backup, moved, existing>>

ReplacedIsRight(x) ==
    /\ Own(x) /\ staged[x] = existing[x] /\ Goes(x, "exchanged", "replaced")
    /\ UNCHANGED <<path, staged, backup, moved, existing, tried>>

\* Another export was faster: what it put there is put back.
ReplacedIsWrong(x) ==
    /\ ~(Own(x) /\ staged[x] = existing[x])
    /\ Goes(x, "exchanged", IF staged[x] # existing[x] THEN "returns" ELSE "undoes")
    /\ UNCHANGED <<path, staged, backup, moved, existing, tried>>

ReturnsIt(x) ==
    /\ path # Nothing /\ Goes(x, "returns", "undoes")
    /\ path' = staged[x] /\ staged' = [staged EXCEPT ![x] = path]
    /\ IF Links(backup[x]) = 1
       THEN /\ backup' = [backup EXCEPT ![x] = Nothing] /\ moved' = moved \ {x}
            /\ tried' = tried \ {x}
       ELSE UNCHANGED <<backup, moved, tried>>
    /\ UNCHANGED existing

RemovesReplaced(x) ==
    /\ Goes(x, "replaced", "placed") /\ staged' = [staged EXCEPT ![x] = Nothing]
    /\ UNCHANGED <<path, backup, moved, existing, tried>>

Commits(x) ==
    /\ Own(x) /\ Goes(x, "placed", "cleans")
    /\ UNCHANGED <<path, staged, backup, moved, existing, tried>>

\* A backup that is not removed is only warned about.
Cleans(x) ==
    /\ Goes(x, "cleans", "succeeded")
    /\ \/ x \in moved /\ Links(backup[x]) = 1 /\ backup' = [backup EXCEPT ![x] = Nothing]
       \/ UNCHANGED backup
    /\ UNCHANGED <<path, staged, moved, existing, tried>>

\* What was looked for is not there, or a call fails.
Fails(x) ==
    /\ at[x] \in {"checks", "links", "compares", "ready", "exchanged", "returns", "replaced", "placed"}
    /\ at' = [at EXCEPT ![x] = IF at[x] = "checks" THEN "tidies" ELSE "undoes"]
    /\ UNCHANGED <<path, staged, backup, moved, existing, tried>>

Refused(x) ==
    /\ path # Nothing /\ Links(path) # 1 /\ Goes(x, "idle", "failed")
    /\ UNCHANGED <<path, staged, backup, moved, existing, tried>>

-----------------------------------------------------------------------------
(* Undoing them                                                            *)

BackupIsRight(x) == x \in moved => (backup[x] = existing[x] /\ Links(backup[x]) = 1)

PathIsOwn(x) == (x \in tried /\ path # Nothing) => Own(x)

UndoesPath_Anyway(x) ==
    /\ BackupIsRight(x) /\ Goes(x, "undoes", "restores")
    /\ path' = IF x \in tried THEN Nothing ELSE path
    /\ UNCHANGED <<staged, backup, moved, existing, tried>>

UndoesPath(x) ==
    /\ BackupIsRight(x) /\ PathIsOwn(x) /\ Goes(x, "undoes", "restores")
    /\ path' = IF x \in tried THEN Nothing ELSE path
    /\ UNCHANGED <<staged, backup, moved, existing, tried>>

RestoresBackup(x) ==
    /\ Goes(x, "restores", "tidies")
    /\ IF x \in moved /\ path = Nothing
       THEN path' = backup[x] /\ backup' = [backup EXCEPT ![x] = Nothing]
       ELSE UNCHANGED <<path, backup>>
    /\ UNCHANGED <<staged, moved, existing, tried>>

DoesNotUndo(x) ==
    /\ ~(BackupIsRight(x) /\ PathIsOwn(x)) /\ Goes(x, "undoes", "tidies")
    /\ UNCHANGED <<path, staged, backup, moved, existing, tried>>

\* Only the file the export itself staged is removed, as long as it looks the
\* same: an exchange changes one of its times.
Tidies(x) ==
    /\ Goes(x, "tidies", "failed")
    /\ staged' \in {staged, [staged EXCEPT ![x] = IF @ = x /\ Links(x) = 1 THEN Nothing ELSE @]}
    /\ UNCHANGED <<path, backup, moved, existing, tried>>

Killed(x) ==
    /\ at[x] \notin Ended \cup {"idle"} /\ at' = [at EXCEPT ![x] = "dead"]
    /\ UNCHANGED <<path, staged, backup, moved, existing, tried>>

ExportNext ==
    \E x \in Exports :
        \/ Looks(x) \/ Stages(x) \/ Checks(x) \/ LinksBackup(x) \/ Compares(x) \/ LinkIsWrong(x)
        \/ Exchanges(x) \/ Places(x) \/ ReplacedIsRight(x) \/ ReplacedIsWrong(x) \/ ReturnsIt(x)
        \/ RemovesReplaced(x) \/ Commits(x) \/ Cleans(x) \/ Fails(x) \/ Refused(x)
        \/ UndoesPath(x) \/ RestoresBackup(x) \/ DoesNotUndo(x) \/ Tidies(x) \/ Killed(x)

ExportSpec == ExportInit /\ [][ExportNext]_exportVars

-----------------------------------------------------------------------------
\* No settings are lost: the old file has a name as long as no export has
\* committed, and an export that has reported success has its file at the path
\* or under another name until a later one commits.
Committed == {x \in Exports : at[x] \in {"cleans", "succeeded"}}

ExportsAreKept ==
    /\ (Committed = {} /\ \E x \in Exports : existing[x] = Old) => Links(Old) > 0
    /\ \A x \in Exports :
           at[x] = "succeeded" /\ (\A y \in Exports \ {x} : at[y] \notin {"cleans", "succeeded"}) => Links(x) > 0

=============================================================================
