---------------------------- MODULE KeptRecording ----------------------------
(***************************************************************************)
(* A recording that is kept after its finalization (cli.py): the trimmed or *)
(* re-encoded audio takes the stable name of the recording, the file that   *)
(* had it is kept as a hard link until then, and the result is stored       *)
(* encrypted, or an encrypted one as plain audio.  A file is deleted by     *)
(* claiming it under another name, overwriting it when that is its only     *)
(* name, and unlinking it; the claim is undone when a call fails.           *)
(*                                                                         *)
(* Calls may fail and the command may be killed; nobody else changes these  *)
(* files.  The calls that undo a claim do not fail as well, and a recording *)
(* that is stored encrypted is not encrypted when it gets here.             *)
(***************************************************************************)
EXTENDS Naturals, FiniteSets

CONSTANTS
    MaxFaults,       \* bound on the calls that fail
    RemovalMayFail   \* they include the removal of the other form

KeptAssumption == MaxFaults \in Nat /\ RemovalMayFail \in BOOLEAN

Names == {"artifact", "stable", "backup", "claim", "backupClaim", "other"}
Inodes == {"original", "trimmed", "copy", "stale"}

VARIABLES
    files,        \* what each name holds
    wiped,        \* the files that were overwritten
    step,
    leaf,         \* the name that is being removed
    then, else,   \* where the command goes when that succeeds, or fails
    active,       \* transaction_active
    hadTarget, hadBackup, removed,   \* target_stat, backup_name, target_removed
    existed,      \* encrypted_target_existed
    outcome, faults

removalVars == <<leaf, then, else>>
stableVars == <<active, hadTarget, hadBackup, removed>>
keptVars == <<files, wiped, step, removalVars, stableVars, existed, outcome, faults>>

Links(i) == Cardinality({n \in Names : files[n] = i})
Holds(n) == files[n] # "none"
Intact(n) == files[n] \notin {"none", "stale"} \cup wiped
Moved(from, to) == [files EXCEPT ![from] = "none", ![to] = files[from]]

KeptTypeOK ==
    /\ files \in [Names -> Inodes \cup {"none"}] /\ wiped \subseteq Inodes
    /\ step \in {"looks", "links", "activates", "activated", "keeps", "converts", "converted", "undoes",
                 "claims", "wipes", "unlinks", "replaced", "undone", "restores", "backs", "rollback",
                 "ok", "failed", "killed"}
    /\ leaf \in Names \cup {"none"}
    /\ {active, hadTarget, hadBackup, removed, existed} \subseteq BOOLEAN
    /\ outcome \in {"none", "ok", "failed", "killed"} /\ faults \in 0..MaxFaults

\* With or without a better version of the audio, a file at its stable name, a
\* backup a killed command has left, and an older file of the other form.
KeptInit ==
    /\ \E s \in {"none", "original"}, a \in {"none", "trimmed"}, b \in {"none", "original"}, o \in {"none", "stale"} :
          /\ s = "none" => a # "none"
          /\ b # "none" => s # "none" /\ a # "none"
          /\ files = [n \in Names |-> CASE n = "stable" -> s [] n = "artifact" -> a
                                        [] n = "backup" -> b [] n = "other" -> o [] OTHER -> "none"]
          /\ step = IF a = "none" THEN "keeps" ELSE "looks"
    /\ wiped = {} /\ leaf = "none" /\ then = "none" /\ else = "none"
    /\ active = FALSE /\ hadTarget = FALSE /\ hadBackup = FALSE /\ removed = FALSE
    /\ existed = FALSE /\ outcome = "none" /\ faults = 0

Ends(o) == step' = o /\ outcome' = o
Fault == faults < MaxFaults /\ faults' = faults + 1

-----------------------------------------------------------------------------
(* Removing a file                                                         *)

Removes(name, onSuccess, onFailure) ==
    /\ step' = "claims" /\ leaf' = name /\ then' = onSuccess /\ else' = onFailure

\* A step that goes on at `to`, or ends.
Goes(to) == IF to \in {"ok", "failed"} THEN Ends(to) ELSE step' = to /\ UNCHANGED outcome

Claims ==
    /\ step = "claims" /\ files' = Moved(leaf, "claim") /\ step' = "wipes"
    /\ UNCHANGED <<wiped, removalVars, stableVars, existed, outcome, faults>>

\* A file with a second name keeps its contents.
Wipes ==
    /\ step = "wipes" /\ step' = "unlinks"
    /\ wiped' = IF Links(files["claim"]) = 1 THEN wiped \cup {files["claim"]} ELSE wiped
    /\ UNCHANGED <<files, removalVars, stableVars, existed, outcome, faults>>

Unlinks ==
    /\ step = "unlinks" /\ files' = [files EXCEPT !["claim"] = "none"] /\ Goes(then)
    /\ removed' = (removed \/ then = "activates")
    /\ UNCHANGED <<wiped, removalVars, active, hadTarget, hadBackup, existed, faults>>

\* The claim is undone; after the unlink there is nothing to undo.
RemovalFails ==
    /\ step \in {"claims", "wipes", "unlinks"} /\ Fault /\ Goes(else)
    /\ then = "ok" /\ else = "undoes" => step = "claims" \/ RemovalMayFail
    /\ files' \in CASE step = "claims" -> {files}
                    [] step = "wipes" -> {Moved("claim", leaf)}
                    [] OTHER -> {Moved("claim", leaf), [files EXCEPT !["claim"] = "none"]}
    /\ wiped' \in IF step = "wipes" /\ Links(files["claim"]) = 1
                  THEN {wiped, wiped \cup {files["claim"]}} ELSE {wiped}
    /\ UNCHANGED <<removalVars, stableVars, existed>>

-----------------------------------------------------------------------------
(* Taking the stable name                                                  *)

\* A backup that names the same file is what a killed command has left.
Looks ==
    /\ step = "looks" /\ hadTarget' = Holds("stable")
    /\ IF ~Holds("stable") THEN step' = "activates" /\ active' = TRUE /\ UNCHANGED removalVars
       ELSE /\ UNCHANGED active
            /\ IF files["backup"] = files["stable"] THEN Removes("backup", "links", "failed")
               ELSE step' = "links" /\ UNCHANGED removalVars
    /\ UNCHANGED <<files, wiped, hadBackup, removed, existed, outcome, faults>>

LinksBackup ==
    /\ step = "links" /\ files' = [files EXCEPT !["backup"] = files["stable"]]
    /\ hadBackup' = TRUE /\ active' = TRUE /\ Removes("stable", "activates", "rollback")
    /\ UNCHANGED <<wiped, hadTarget, removed, existed, outcome, faults>>

\* The link was made but is not accepted: it is removed again.
BackupFails ==
    /\ step = "links" /\ Fault
    /\ files' = [files EXCEPT !["backup"] = files["stable"]] /\ Removes("backup", "failed", "failed")
    /\ UNCHANGED <<wiped, stableVars, existed, outcome>>

Activates ==
    /\ step = "activates" /\ files' = Moved("artifact", "stable") /\ step' = "activated"
    /\ UNCHANGED <<wiped, removalVars, stableVars, existed, outcome, faults>>

\* The backup is left for the next cleanup.
Activated_KeepsBackup ==
    /\ step = "activated" /\ step' = "keeps" /\ active' = FALSE
    /\ UNCHANGED <<files, wiped, removalVars, hadTarget, hadBackup, removed, existed, outcome, faults>>

\* The backup is claimed, and then removed under that name.
Activated ==
    /\ step = "activated"
    /\ IF hadBackup
       THEN /\ files' = Moved("backup", "backupClaim") /\ Removes("backupClaim", "keeps", "backs")
            /\ UNCHANGED active
       ELSE step' = "keeps" /\ active' = FALSE /\ UNCHANGED <<files, removalVars>>
    /\ UNCHANGED <<wiped, hadTarget, hadBackup, removed, existed, outcome, faults>>

CallFails ==
    /\ step \in {"looks", "links", "activates", "activated"} /\ Fault
    /\ IF active THEN step' = "rollback" /\ UNCHANGED outcome ELSE Ends("failed")
    /\ UNCHANGED <<files, wiped, removalVars, stableVars, existed>>

\* A backup whose removal has failed gets its name back if it still exists.
BacksUpAgain ==
    /\ step = "backs" /\ step' = "rollback"
    /\ files' = IF Holds("backupClaim") THEN Moved("backupClaim", "backup") ELSE files
    /\ UNCHANGED <<wiped, removalVars, stableVars, existed, outcome, faults>>

Active == files["stable"] = "trimmed" /\ "trimmed" \notin wiped
BackupUnchanged == files["backup"] = "original" /\ "original" \notin wiped

\* The audio goes back to its own name when nothing was at the stable one, or
\* when the backup is gone.
RollsBackToArtifact ==
    /\ step = "rollback" /\ Active /\ (~hadTarget \/ ~Holds("backup"))
    /\ files' = Moved("stable", "artifact") /\ Ends("failed")
    /\ UNCHANGED <<wiped, removalVars, stableVars, existed, faults>>

\* The backup is taken for what it was.
RollsBackToOld_Blindly ==
    /\ step = "rollback" /\ Active /\ hadTarget /\ Holds("backup")
    /\ Removes("stable", "restores", "failed") /\ UNCHANGED outcome
    /\ UNCHANGED <<files, wiped, stableVars, existed, faults>>

\* Or it is removed, and the old file gets its name back.
RollsBackToOld ==
    /\ step = "rollback" /\ Active /\ hadTarget /\ Holds("backup")
    /\ IF BackupUnchanged
       THEN Removes("stable", "restores", "failed") /\ UNCHANGED outcome
       ELSE Ends("failed") /\ UNCHANGED removalVars
    /\ UNCHANGED <<files, wiped, stableVars, existed, faults>>

\* The audio was not moved yet.
RollsBackEarly ==
    /\ step = "rollback" /\ ~Active
    /\ CASE removed /\ ~Holds("stable") -> step' = "restores" /\ UNCHANGED <<removalVars, outcome>>
         [] ~removed /\ hadBackup /\ files["stable"] = "original" ->
                Removes("backup", "failed", "failed") /\ UNCHANGED outcome
         [] OTHER -> Ends("failed") /\ UNCHANGED removalVars
    /\ UNCHANGED <<files, wiped, stableVars, existed, faults>>

Restores ==
    /\ step = "restores" /\ Ends("failed")
    /\ files' = IF BackupUnchanged THEN Moved("backup", "stable") ELSE files
    /\ UNCHANGED <<wiped, removalVars, stableVars, existed, faults>>

-----------------------------------------------------------------------------
(* The other form                                                          *)

\* Stored as it is, an old file of the other form is removed.
Keeps ==
    /\ step = "keeps"
    /\ IF Holds("other") THEN Removes("other", "ok", "failed") /\ UNCHANGED outcome
       ELSE Ends("ok") /\ UNCHANGED removalVars
    /\ UNCHANGED <<files, wiped, stableVars, existed, faults>>

Encrypts ==
    /\ step = "keeps" /\ step' = "converts" /\ existed' = Holds("other")
    /\ UNCHANGED <<files, wiped, removalVars, stableVars, outcome, faults>>

\* A recording that was encrypted goes back to plain audio, which must not exist;
\* audio that has just taken the stable name is plain.
Decrypts ==
    /\ step = "keeps" /\ files["stable"] = "original"
    /\ IF Holds("other") THEN Ends("failed") ELSE step' = "converts" /\ UNCHANGED outcome
    /\ UNCHANGED <<files, wiped, removalVars, stableVars, existed, faults>>

Converts ==
    /\ step = "converts" /\ files' = [files EXCEPT !["other"] = "copy"]
    /\ Removes("stable", "ok", "undoes")
    /\ UNCHANGED <<wiped, stableVars, existed, outcome, faults>>

ConversionFails ==
    /\ step = "converts" /\ Fault /\ Ends("failed")
    /\ UNCHANGED <<files, wiped, removalVars, stableVars, existed>>

\* The new file is removed again, unless it has replaced one.
Undoes ==
    /\ step = "undoes"
    /\ IF existed THEN Ends("failed") /\ UNCHANGED removalVars
       ELSE Removes("other", "failed", "failed") /\ UNCHANGED outcome
    /\ UNCHANGED <<files, wiped, stableVars, existed, faults>>

Killed ==
    /\ outcome = "none" /\ Ends("killed")
    /\ UNCHANGED <<files, wiped, removalVars, stableVars, existed, faults>>

KeptNext ==
    \/ Claims \/ Wipes \/ Unlinks \/ RemovalFails
    \/ Looks \/ LinksBackup \/ BackupFails \/ Activates \/ Activated \/ CallFails \/ BacksUpAgain
    \/ RollsBackToArtifact \/ RollsBackToOld \/ RollsBackEarly \/ Restores
    \/ Keeps \/ Encrypts \/ Decrypts \/ Converts \/ ConversionFails \/ Undoes \/ Killed

KeptSpec == KeptInit /\ [][KeptNext]_keptVars

-----------------------------------------------------------------------------
\* Whatever is renamed, wiped, restored or cut short, the recorded speech is
\* whole in some file, and a command that was not killed leaves it under a name
\* of the recording and not only under that of a backup or a claim.
SpeechKept ==
    /\ \E n \in Names : Intact(n)
    /\ outcome \in {"ok", "failed"} => \E n \in {"artifact", "stable", "other"} : Intact(n)

\* A recording that was stored successfully exists once: in particular, no
\* plain copy is left beside an encrypted one.
StoredOnce == outcome = "ok" => Cardinality({n \in Names : Intact(n)}) = 1

=============================================================================
