--------------------------- MODULE ModelDownload ---------------------------
(***************************************************************************)
(* Downloading and removing a model of the catalog (models.py).  A model   *)
(* is one file, or a directory of files.  `download-model` fetches it to a *)
(* temporary name, compares the checksums, renames what is there to a      *)
(* backup, renames the download to the model's path and removes the        *)
(* backup; an error undoes what was done.  `remove-model` also collects    *)
(* what killed commands have left.  A flock on the directory of the models *)
(* lets one command work at a time, and is free when its holder dies.      *)
(*                                                                         *)
(* A command may be killed anywhere.  Of its calls at most one fails, or   *)
(* is interrupted: a rename may fail before or after it took place, for    *)
(* the fsync that follows it belongs to the same helper.  The names with   *)
(* random parts are distinct.  Only these commands touch the directory.    *)
(***************************************************************************)
EXTENDS Naturals

CONSTANTS Downloads, Removals   \* the commands, each runs once

VARIABLES
    kind,       \* "file" or "directory"
    holds,      \* what is to be found at the model's path and at the other names
    modelLock,  \* the command that holds the flock
    doing,      \* the step every command takes next
    found,      \* what it found at the path
    fault       \* the step at which a call of it failed

modelVars == <<kind, holds, modelLock, doing, found, fault>>

ModelCommands == Downloads \cup Removals
Path == <<"path">>
Tmp(c) == <<c, "tmp">>
Backup(c) == <<c, "backup">>
Orphan(c) == <<c, "orphan">>
ModelLeftovers == Downloads \X {"tmp", "backup", "orphan"}
Unlocked == {"free"}

ASSUME ModelAssumption == Downloads \cap Removals = {} /\ Unlocked \notin ModelCommands

ModelTypeOK ==
    /\ kind \in {"file", "directory"}
    /\ holds \in [{Path} \cup ModelLeftovers -> {"none", "partial", "verified"}]
    /\ modelLock \in ModelCommands \cup {Unlocked}
    /\ doing \in [ModelCommands ->
                   {"idle", "fetches", "hashes", "backs", "checks", "installs", "records",
                    "drops", "sets_aside", "drops_orphan", "discards", "undoes", "uninstalls",
                    "restores", "removes", "collects", "done", "failed", "killed"}]
    /\ found \in [ModelCommands -> {"none", "partial", "verified"}]
    /\ fault \in [ModelCommands ->
                   {"none", "hashes", "backs", "checks", "installs", "records", "drops",
                    "sets_aside", "drops_orphan", "discards", "removes", "collects"}]

ModelInit ==
    /\ kind \in {"file", "directory"}
    /\ \E there \in {"none", "partial", "verified"} :
           holds = [p \in {Path} \cup ModelLeftovers |-> IF p = Path THEN there ELSE "none"]
    /\ modelLock = Unlocked
    /\ doing = [c \in ModelCommands |-> "idle"]
    /\ found = [c \in ModelCommands |-> "none"]
    /\ fault = [c \in ModelCommands |-> "none"]

-----------------------------------------------------------------------------
(* What steps are made of                                                  *)

Works(c, here) == modelLock = c /\ doing[c] = here

Goes(c, next) ==
    /\ doing' = [doing EXCEPT ![c] = next]
    /\ modelLock' = IF next \in {"done", "failed"} THEN Unlocked ELSE modelLock
    /\ UNCHANGED <<kind, found>>

Fine(c, next) == Goes(c, next) /\ UNCHANGED fault

\* The one call of the command that fails.
Faults(c, next) ==
    /\ fault[c] = "none"
    /\ fault' = [fault EXCEPT ![c] = doing[c]]
    /\ Goes(c, next)

Moved(from, to) == holds' = [holds EXCEPT ![to] = holds[from], ![from] = "none"]

\* It replaces nothing, and can fail after the rename took place.
Renames(c, from, to, next, failing) ==
    /\ holds[from] # "none" /\ holds[to] = "none"
    /\ \/ Fine(c, next) /\ Moved(from, to)
       \/ Faults(c, failing) /\ (Moved(from, to) \/ UNCHANGED holds)

\* What is removed gets another name first, and its own one back when that
\* fails; some files of a directory are gone by then.
Removes(c, place, next, failing) ==
    \/ Fine(c, next) /\ holds' = [holds EXCEPT ![place] = "none"]
    \/ /\ holds[place] # "none"
       /\ Faults(c, failing)
       /\ \/ UNCHANGED holds
          \/ kind = "directory" /\ holds' = [holds EXCEPT ![place] = "partial"]

LocksModels(c, next) ==
    /\ doing[c] = "idle" /\ modelLock = Unlocked
    /\ modelLock' = c
    /\ doing' = [doing EXCEPT ![c] = next]
    /\ found' = [found EXCEPT ![c] = holds[Path]]
    /\ UNCHANGED <<kind, holds, fault>>

\* The lock is not to be had for 5 s.
TimesOut(c) ==
    /\ doing[c] = "idle" /\ modelLock # Unlocked
    /\ doing' = [doing EXCEPT ![c] = "failed"]
    /\ UNCHANGED <<kind, holds, modelLock, found, fault>>

-----------------------------------------------------------------------------
(* download-model                                                          *)

\* Without --force a verified model is left alone.
AlreadyThere(c) ==
    /\ Works(c, "fetches") /\ holds[Path] = "verified" /\ holds[Tmp(c)] = "none"
    /\ Fine(c, "done") /\ UNCHANGED holds

\* The response may be too long, too late, cut off or another file.
Fetches(c) ==
    /\ Works(c, "fetches")
    /\ \/ /\ holds' = [holds EXCEPT ![Tmp(c)] = "partial"]
          /\ \E next \in {"fetches", "hashes", "discards"} : Fine(c, next)
       \/ /\ holds[Tmp(c)] = "partial" /\ Fine(c, "hashes")
          /\ holds' = [holds EXCEPT ![Tmp(c)] = "verified"]

Hashes(c) ==
    /\ Works(c, "hashes") /\ UNCHANGED holds
    /\ \/ holds[Tmp(c)] = "verified" /\ Fine(c, IF holds[Path] = "none" THEN "installs" ELSE "backs")
       \/ holds[Tmp(c)] # "verified" /\ Fine(c, "discards")
       \/ Faults(c, "discards")

\* Of a file, the temporary one is discarded first, of a directory last.
Undoing == IF kind = "file" THEN "discards" ELSE "undoes"

\* What is at the path gets out of the way.
Backs(c) ==
    /\ Works(c, "backs")
    /\ Renames(c, Path, Backup(c), IF kind = "file" THEN "installs" ELSE "checks", Undoing)

\* The path of a directory is looked at again.  No handler is there for what
\* fails here but the one that discards the temporary directory.
Checks(c) ==
    /\ Works(c, "checks") /\ UNCHANGED holds
    /\ Fine(c, "installs") \/ Faults(c, "discards")

Installs_DropsBackup(c) ==
    /\ Works(c, "installs")
    /\ \/ Faults(c, Undoing) /\ holds' = [holds EXCEPT ![Backup(c)] = "none"]
       \/ /\ Fine(c, "records")
          /\ holds' = [holds EXCEPT ![Path] = holds[Tmp(c)], ![Tmp(c)] = "none", ![Backup(c)] = "none"]

Installs(c) == Works(c, "installs") /\ Renames(c, Tmp(c), Path, "records", Undoing)

\* The checksum of a file goes to the cache.
RecordsChecksum(c) ==
    /\ Works(c, "records") /\ UNCHANGED holds
    /\ \/ Fine(c, IF holds[Backup(c)] = "none" THEN "done" ELSE "drops")
       \/ kind = "file" /\ Faults(c, "discards")

Drops(c) == Works(c, "drops") /\ Removes(c, Backup(c), "done", "sets_aside")

\* The backup that could not be removed gets another name, and is tried again;
\* but a directory some files of which are gone is not the one backed up.
SetsAside(c) ==
    /\ Works(c, "sets_aside")
    /\ \/ Renames(c, Backup(c), Orphan(c), "drops_orphan", "failed")
       \/ kind = "directory" /\ Fine(c, "failed") /\ UNCHANGED holds

DropsOrphan(c) == Works(c, "drops_orphan") /\ Removes(c, Orphan(c), "done", "failed")

-----------------------------------------------------------------------------
(* Undoing a download                                                      *)

Discards(c) ==
    /\ Works(c, "discards")
    /\ LET next == IF kind = "file" THEN "undoes" ELSE "failed" IN
       Removes(c, Tmp(c), next, next)

\* The rename to the path can have taken place although it raised.
Installed_IfReturned(c) == fault[c] = "records"

Installed(c) == fault[c] \in {"installs", "records"} /\ holds[Path] # "none"

Undoes(c) ==
    /\ Works(c, "undoes") /\ UNCHANGED holds
    /\ Fine(c, CASE Installed(c)                         -> "uninstalls"
                 [] holds[Path] = "none" /\ holds[Backup(c)] # "none" -> "restores"
                 [] OTHER                                -> IF kind = "file" THEN "failed" ELSE "discards")

Uninstalls(c) ==
    /\ Works(c, "uninstalls")
    /\ Removes(c, Path, IF holds[Backup(c)] # "none" THEN "restores"
                        ELSE IF kind = "file" THEN "failed" ELSE "discards", "failed")

Restores(c) ==
    /\ Works(c, "restores")
    /\ Renames(c, Backup(c), Path, IF kind = "file" THEN "failed" ELSE "discards", "failed")

-----------------------------------------------------------------------------
(* remove-model, and what happens to commands                              *)

RemovesModel(c) ==
    /\ Works(c, "removes")
    /\ Removes(c, Path, "collects", "failed")

\* The leftovers whose names tell that they are of this model, when older
\* than an hour.
Collects(c) ==
    /\ Works(c, "collects")
    /\ \/ \E p \in ModelLeftovers : holds[p] # "none" /\ Removes(c, p, "collects", "failed")
       \/ Fine(c, "done") /\ UNCHANGED holds

Killed(c) ==
    /\ modelLock = c /\ modelLock' = Unlocked
    /\ doing' = [doing EXCEPT ![c] = "killed"]
    /\ UNCHANGED <<kind, holds, found, fault>>

-----------------------------------------------------------------------------
Download(c) ==
    \/ LocksModels(c, "fetches") \/ AlreadyThere(c) \/ Fetches(c) \/ Hashes(c) \/ Backs(c) \/ Checks(c)
    \/ Installs(c) \/ RecordsChecksum(c) \/ Drops(c) \/ SetsAside(c) \/ DropsOrphan(c)
    \/ Discards(c) \/ Undoes(c) \/ Uninstalls(c) \/ Restores(c)

Removal(c) == LocksModels(c, "removes") \/ RemovesModel(c) \/ Collects(c)

ModelNext ==
    \/ \E c \in Downloads : Download(c)
    \/ \E c \in Removals : Removal(c)
    \/ \E c \in ModelCommands : TimesOut(c) \/ Killed(c)

ModelSpec == ModelInit /\ [][ModelNext]_modelVars

-----------------------------------------------------------------------------
\* models.py:3373 - at every moment of a download, so also when it is killed,
\* what it found at the path is there or in its backup, or a verified model is.
NeverLost ==
    \A c \in Downloads : modelLock = c /\ found[c] # "none" =>
        \/ holds[Path] \in {found[c], "verified"}
        \/ holds[Backup(c)] = found[c]

\* models.py:3386 - a download that returns has left the verified model and no
\* backup; one that raises what it found and no backup, unless it was the
\* backup it failed to remove, or the look at a directory's path that failed.
EndsWhole ==
    [][\A c \in Downloads : modelLock = c /\ modelLock' = Unlocked =>
        CASE doing'[c] = "done"   -> holds'[Path] = "verified" /\ holds'[Backup(c)] = "none"
          [] doing'[c] = "failed" ->
                IF fault'[c] \in {"drops", "sets_aside", "drops_orphan"} THEN holds'[Path] = "verified"
                ELSE IF fault'[c] = "checks" THEN holds'[Backup(c)] = found[c]
                ELSE holds'[Path] = found[c] /\ holds'[Backup(c)] = "none"
          [] doing'[c] = "killed" -> TRUE]_modelVars

\* A download leaves a verified model or what it found, killed or not.
ModelIsKept == []NeverLost /\ EndsWhole
=============================================================================
