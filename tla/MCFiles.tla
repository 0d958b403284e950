------------------------------ MODULE MCFiles -------------------------------
(* The files a command works with, side by side: ten modules that share no *)
(* state, the supervisor of the RPM scriptlets, and the local installation; *)
(* a behaviour is one of a part.  StateStore's writers are killed here.     *)
EXTENDS StateStore, Transcription, LogFiles, PassphraseKey, RpmLifecycle,
        ModelDownload, TLC

CONSTANTS c1, c2, x1, x2, k1, k2, d1, d2,
          MaxRecordings, KeepTranscripts, KeepRecordings,
          Exports, Old, Nothing,
          MaxKeptFaults, RemovalMayFail, MaxFaults, ItemCount

VARIABLES
    part,   \* the module a behaviour is one of
    pruneFiles, newest, status, named, pruneText, holder, pruneDoing,
    keeping, pruneAt, saw, pruneActive, listed, lost,
    transientAt, file, owner, old, recycled, stale,
    exportAt, path, exportStaged, backup, moved, existing, tried,
    keptFiles, wiped, keptStep, leaf, then, else, keptActive, hadTarget,
    hadBackup, removed, existed, outcome, keptFaults,
    names, changed, expected, replaces, replaceStep, directory,
    verified, committed, put, replacedBy, replaceFaults,
    site, saved, residue, phase, former, installStep, item, recorded,
    rollbackFailed, complete, inTrap, orphans, cut, theirs, destroyed

Prune == INSTANCE Cleanup WITH
    files <- pruneFiles, text <- pruneText, doing <- pruneDoing,
    at <- pruneAt, active <- pruneActive
Transient == INSTANCE TransientFiles WITH
    at <- transientAt
Export == INSTANCE SettingsExport WITH
    at <- exportAt, staged <- exportStaged
Kept == INSTANCE KeptRecording WITH
    files <- keptFiles, step <- keptStep, active <- keptActive,
    faults <- keptFaults, MaxFaults <- MaxKeptFaults
Replace == INSTANCE ConditionalReplace WITH
    step <- replaceStep, faults <- replaceFaults
Install == INSTANCE LocalInstall
prunePart == <<pruneFiles, newest, status, named, pruneText, holder,
               pruneDoing, keeping, pruneAt, saw, pruneActive, listed, lost>>
transientPart == <<transientAt, file, owner, old, recycled, stale>>
exportPart == <<exportAt, path, exportStaged, backup, moved, existing,
                tried>>
keptPart == <<keptFiles, wiped, keptStep, leaf, then, else, keptActive,
              hadTarget, hadBackup, removed, existed, outcome, keptFaults>>
replacePart == <<names, changed, expected, replaces, replaceStep, directory,
                 verified, committed, put, replacedBy, replaceFaults>>
installPart == <<site, saved, residue, phase, former, installStep, item, recorded,
                 rollbackFailed, complete, inTrap, orphans, cut, theirs, destroyed>>

allVars == <<part, vars, transcriptionVars, modelVars, prunePart,
             transientPart, logVars, keyVars, exportPart, keptPart,
             replacePart, rpmVars, installPart>>

\* A part that a behaviour is not about stays in one initial state.
AllInit ==
    /\ part \in {"store", "transcribe", "model", "prune", "transient", "log", "key", "export", "kept", "replace", "rpm", "install"}
    /\ Init
    /\ TranscriptionInit /\ (part = "transcribe" \/ shared = NoFile)
    /\ ModelInit /\ (part = "model" \/ (kind = "file" /\ holds[Path] = "none"))
    /\ Prune!CleanupInit /\ (part = "prune" \/ ~keeping)
    /\ Transient!TransientInit
    /\ LogInit
    /\ KeyInit /\ (part = "key" \/ keyTarget = Absent)
    /\ Export!ExportInit /\ (part = "export" \/ path = Nothing)
    /\ Kept!KeptInit /\ (part = "kept" \/ (keptStep = "keeps" /\ keptFiles["other"] = "none"))
    /\ Replace!ReplaceInit /\ (part = "replace" \/ (expected = "missing" /\ ~replaces))
    /\ RpmInit
    /\ Install!InstallInit /\ (part = "install" \/ site = Install!Everywhere("none"))

AllNext ==
    /\ UNCHANGED part
    /\ IF part = "store" THEN Next ELSE UNCHANGED vars
    /\ IF part = "transcribe" THEN TranscriptionNext ELSE UNCHANGED transcriptionVars
    /\ IF part = "model" THEN ModelNext ELSE UNCHANGED modelVars
    /\ IF part = "prune" THEN Prune!CleanupNext ELSE UNCHANGED prunePart
    /\ IF part = "transient" THEN Transient!TransientNext ELSE UNCHANGED transientPart
    /\ IF part = "log" THEN LogNext ELSE UNCHANGED logVars
    /\ IF part = "key" THEN KeyNext ELSE UNCHANGED keyVars
    /\ IF part = "export" THEN Export!ExportNext ELSE UNCHANGED exportPart
    /\ IF part = "kept" THEN Kept!KeptNext ELSE UNCHANGED keptPart
    /\ IF part = "replace" THEN Replace!ReplaceNext ELSE UNCHANGED replacePart
    /\ IF part = "rpm" THEN RpmNext ELSE UNCHANGED rpmVars
    /\ IF part = "install" THEN Install!InstallNext ELSE UNCHANGED installPart

AllSpec == AllInit /\ [][AllNext]_allVars
-----------------------------------------------------------------------------
\* Pairs of processes and commands that are alike change places.
Swap == (c1 :> c2) @@ (c2 :> c1) @@ (x1 :> x2) @@ (x2 :> x1)
            @@ (k1 :> k2) @@ (k2 :> k1) @@ (d1 :> d2) @@ (d2 :> d1)
Symmetry == {[x \in DOMAIN Swap |-> IF swapped THEN Swap[x] ELSE x] : swapped \in BOOLEAN}

ASSUME FilesConstants ==
    /\ Prune!CleanupAssumption
    /\ Export!ExportAssumption
    /\ Kept!KeptAssumption
    /\ Replace!ReplaceAssumption
    /\ Install!InstallAssumption

\* The variables of each module have the values it says.
FilesTypesOK ==
    CASE part = "store" -> TypeOK
      [] part = "transcribe" -> TranscriptionTypeOK
      [] part = "model" -> ModelTypeOK
      [] part = "prune" -> Prune!CleanupTypeOK
      [] part = "transient" -> Transient!TransientTypeOK
      [] part = "log" -> LogTypeOK
      [] part = "key" -> KeyTypeOK
      [] part = "export" -> Export!ExportTypeOK
      [] part = "kept" -> Kept!KeptTypeOK
      [] part = "replace" -> Replace!ReplaceTypeOK
      [] part = "rpm" -> RpmTypeOK
      [] part = "install" -> Install!InstallTypeOK

\* cli.py - cleanup takes neither what a recording or a finalization in
\* progress needs nor the file a running command works with.
FilesInUseKept ==
    /\ part = "prune" => Prune!NeededIsKept
    /\ part = "transient" => Transient!OwnFileIsKept

\* cli.py, path_safety.py, settings_export.py, install-local.sh - whatever is
\* renamed, encrypted, replaced, exported, installed, undone or cut short: the
\* speech stays whole in some file and is stored once, and neither the file that
\* was seen, nor what was installed, nor what somebody else has put there is lost;
\* an export that says so is there, and so is what a failed installation found.
ReplacementsKeepData ==
    /\ part = "export" => Export!ExportsAreKept
    /\ part = "kept" => Kept!SpeechKept /\ Kept!StoredOnce
    /\ part = "replace" => Replace!ReplaceLosesNothing
    /\ part = "install" => Install!InstallLosesNothing
=============================================================================
