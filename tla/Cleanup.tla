------------------------------ MODULE Cleanup ------------------------------
(***************************************************************************)
(* `cleanup` (command_cleanup, cli.py): what it takes from the directories *)
(* of recordings and transcripts while `start` and `stop` work there.      *)
(*                                                                         *)
(* Without the finalization lock on its way, cleanup takes it.  When the   *)
(* lock is held by another command it goes on without: it reads the state, *)
(* spares what the state names, lists the directories and deletes what is  *)
(* beyond the number to keep, while the other command goes on too.         *)
(*                                                                         *)
(* A recording is a number, the newer the greater; it has an audio file, a *)
(* log, perhaps a trimmed audio beside it while it is finalized, and a     *)
(* transcript.  Encrypted and re-encoded names are protected along with    *)
(* the plain ones and are left out.  What `stop` does is in Finalization,  *)
(* here is what of it can be seen in the directories, and `cancel`,   *)
(* which an error that names files waits for, is left out.  Who holds the  *)
(* lock is taken to be known (module FinalizationLock).                    *)
(***************************************************************************)
EXTENDS Naturals, FiniteSets

CONSTANTS
    MaxRecordings,      \* how many recordings there are at most
    KeepTranscripts,    \* --keep-transcripts, counts transcripts
    KeepRecordings      \* --keep-recordings, counts files

CleanupAssumption ==
    MaxRecordings \in Nat /\ KeepTranscripts \in Nat /\ KeepRecordings \in Nat

VARIABLES
    files,                  \* what is in the two directories
    newest,                 \* the recordings begun so far
    status, named, text,    \* the state: its status, audio_path and transcript_path
    holder,                 \* who has the finalization lock
    doing,                  \* where start or stop is
    keeping,                \* --keep-recording-artifacts
    at,                     \* where cleanup is
    saw,                    \* what of the needed files there was when it read the state
    active,                 \* the paths it spares
    listed,                 \* the listing it deletes from
    lost                    \* what it took of what was needed

directoryVars == <<files, newest>>
stateVars == <<status, named, text>>
lifecycleVars == <<holder, doing, keeping>>
pruneVars == <<at, saw, active, listed, lost>>
cleanupVars == <<directoryVars, stateVars, lifecycleVars, pruneVars>>

Recordings == 1..MaxRecordings
None == 0                                       \* no recording
Artifacts(r) == {<<"audio", r>>, <<"log", r>>}
Files == {"audio", "log", "trimmed", "text"} \X Recordings
Of(kinds, S) == {f \in S : f[1] \in kinds}
Audible == {"audio", "log", "trimmed"}          \* kinds in the directory of recordings

CleanupTypeOK ==
    /\ files \subseteq Files /\ newest \in 0..MaxRecordings
    /\ status \in {"idle", "recording", "finalizing", "done", "error"}
    /\ named \in 0..MaxRecordings /\ text \in 0..MaxRecordings
    /\ holder \in {"nobody", "lifecycle", "cleanup"}
    /\ doing \in {"nothing", "starting", "created", "stopping", "finalizing", "trimmed",
                  "written", "tidied", "retrying", "failed", "leaving"}
    /\ keeping \in BOOLEAN
    /\ at \in {"idle", "asked", "reads", "protects", "texts", "prunes_texts", "recordings",
               "prunes_recordings", "ends"}
    /\ saw \subseteq Files /\ active \subseteq Files /\ listed \subseteq Files /\ lost \subseteq Files

CleanupInit ==
    /\ files = {} /\ newest = 0
    /\ status = "idle" /\ named = None /\ text = None
    /\ holder = "nobody" /\ doing = "nothing" /\ keeping \in BOOLEAN
    /\ at = "idle" /\ saw = {} /\ active = {} /\ listed = {} /\ lost = {}

-----------------------------------------------------------------------------
(* start and stop                                                          *)

Goes(here, next) == doing = here /\ doing' = next /\ UNCHANGED <<holder, keeping, pruneVars>>

TakesLock(next) ==
    /\ holder = "nobody" /\ holder' = "lifecycle"
    /\ doing' = next
    /\ UNCHANGED <<directoryVars, stateVars, pruneVars>>

\* An error that still names an artifact or a transcript refuses a start.
Starts ==
    /\ status \in {"idle", "done"} \/ (status = "error" /\ named = None /\ text = None)
    /\ newest < MaxRecordings
    /\ TakesLock("starting") /\ keeping' \in BOOLEAN

\* The files are made before the recorder and before the state names them.
CreatesFiles ==
    /\ Goes("starting", "created")
    /\ newest' = newest + 1
    /\ files' = files \cup Artifacts(newest + 1)
    /\ UNCHANGED stateVars

CommitsRecording ==
    /\ Goes("created", "leaving")
    /\ status' = "recording" /\ named' = newest /\ text' = None
    /\ UNCHANGED directoryVars

StartFails ==
    /\ Goes("created", "leaving")
    /\ files' = files \ Artifacts(newest)
    /\ UNCHANGED <<newest, stateVars>>

Stops == status = "recording" /\ TakesLock("stopping") /\ UNCHANGED keeping

\* The next command finds what a killed or a failed one left.  A transcript
\* that the state names is put out again, without the audio.
Resumes ==
    /\ status = "finalizing"
    /\ \/ text # None /\ TakesLock("retrying")
       \/ text = None /\ <<"audio", named>> \in files /\ TakesLock("finalizing")
    /\ UNCHANGED keeping

Finalizes ==
    /\ Goes("stopping", "finalizing")
    /\ status' = "finalizing"
    /\ UNCHANGED <<named, text, directoryVars>>

Trims ==
    /\ Goes("finalizing", "trimmed")
    /\ \E trimmed \in {{}, {<<"trimmed", named>>}} : files' = files \cup trimmed
    /\ UNCHANGED <<newest, stateVars>>

\* The trimmed audio is removed unless it is to be kept; no text when there was no speech.
Transcribes ==
    /\ Goes("trimmed", "written")
    /\ \E written \in {{}, {<<"text", named>>}} :
           files' = (IF keeping THEN files ELSE files \ {<<"trimmed", named>>}) \cup written
    /\ UNCHANGED <<newest, stateVars>>

\* The trimmed audio takes the place of the original.
Tidies ==
    /\ Goes("written", "tidied")
    /\ files' = files \ (IF keeping THEN {<<"trimmed", named>>} ELSE Artifacts(named))
    /\ UNCHANGED <<newest, stateVars>>

CommitsDone ==
    /\ Goes("tidied", "leaving")
    /\ status' = "done"
    /\ named' = IF keeping THEN named ELSE None
    /\ text' = IF <<"text", named>> \in files THEN named ELSE None
    /\ UNCHANGED directoryVars

RetryDone ==
    /\ Goes("retrying", "leaving")
    /\ status' = "done"
    /\ UNCHANGED <<named, text, directoryVars>>

\* A failure that can be tried again leaves the recording to the next command.
FinalizeFails ==
    /\ doing \in {"finalizing", "trimmed"} /\ Goes(doing, "failed")
    /\ files' = files \ {<<"trimmed", named>>}
    /\ status' \in {"finalizing", "error"}
    /\ UNCHANGED <<newest, named, text>>

\* A transcript that was not put out, or not certainly, stays and is named; or
\* it is removed.
OutputFails ==
    /\ doing \in {"written", "retrying"}
    /\ Goes(doing, IF doing = "written" THEN "failed" ELSE "leaving")
    /\ LET stored == IF doing = "written" THEN named ELSE text
           left == files \ {<<"trimmed", named>>}
       IN  \/ /\ <<"text", stored>> \in files
              /\ files' = left /\ text' = stored
              /\ status' \in {"finalizing", "error"}
           \/ /\ files' = left \ {<<"text", stored>>} /\ text' = None
              /\ status' = "error"
    /\ UNCHANGED <<newest, named>>

\* What is not to be kept goes after a failure as well, unless the audio is to
\* be transcribed again.
PurgesFailed ==
    /\ status = "error" \/ text # None
    /\ ~keeping /\ Goes("failed", "leaving")
    /\ files' = files \ Artifacts(named)
    /\ named' = None
    /\ UNCHANGED <<newest, status, text>>

\* The lock of a command that is gone is anybody's.
Leaves ==
    /\ holder = "lifecycle" /\ holder' = "nobody" /\ doing' = "nothing"
    /\ UNCHANGED <<directoryVars, stateVars, keeping, pruneVars>>

Lifecycle ==
    \/ Starts \/ CreatesFiles \/ CommitsRecording \/ StartFails
    \/ Stops \/ Resumes \/ Finalizes \/ Trims \/ Transcribes \/ Tidies
    \/ CommitsDone \/ RetryDone \/ FinalizeFails \/ OutputFails \/ PurgesFailed
    \/ Leaves

-----------------------------------------------------------------------------
(* cleanup                                                                 *)

Proceeds(here, next) == at = here /\ at' = next /\ UNCHANGED <<directoryVars, stateVars, doing, keeping>>

AsksForLock ==
    /\ Proceeds("idle", IF holder = "lifecycle" THEN "reads" ELSE "asked")
    /\ UNCHANGED <<holder, saw, active, listed, lost>>

\* Refused when another command took the lock in between.
AcquiresLock ==
    /\ Proceeds("asked", IF holder = "nobody" THEN "reads" ELSE "idle")
    /\ holder' = IF holder = "nobody" THEN "cleanup" ELSE holder
    /\ UNCHANGED <<saw, active, listed, lost>>

\* What the state names, and what the finalization of it may be writing.
InFlight_None == {}

InFlight ==
    IF /\ status = "finalizing" /\ named # None
       /\ holder = "lifecycle" \/ <<"audio", named>> \notin files
    THEN {<<"text", named>>} \cup {f \in files : f = <<"trimmed", named>>}
    ELSE {}

ActivePaths ==
    (IF named # None THEN Artifacts(named) ELSE {})
        \cup (IF text # None THEN {<<"text", text>>} ELSE {})
        \cup InFlight

\* The audio that start and stop work on, and with the state as it is now the
\* transcripts: the one it names, the one being written.
AudioInProgress ==
    (IF doing = "created" THEN {<<"audio", newest>>} ELSE {})
        \cup (IF status \in {"recording", "finalizing"} /\ named # None
              THEN {<<"audio", named>>} ELSE {})

Transcripts ==
    (IF text # None THEN {<<"text", text>>} ELSE {})
        \cup (IF status = "finalizing" /\ holder = "lifecycle" /\ named # None
              THEN {<<"text", named>>} ELSE {})

ReadsState ==
    /\ Proceeds("reads", "protects")
    /\ saw' = Transcripts \cup (files \cap AudioInProgress)
    /\ active' = ActivePaths
    /\ UNCHANGED <<holder, listed, lost>>

\* Without the lock and without a recording in the state, everything is spared.
ProtectsAll ==
    /\ Proceeds("protects", "texts")
    /\ active' = IF holder # "cleanup" /\ Of(Audible, active) = {} THEN active \cup files ELSE active
    /\ UNCHANGED <<holder, saw, listed, lost>>

Lists(here, next, kinds) ==
    /\ Proceeds(here, next)
    /\ listed' = Of(kinds, files)
    /\ UNCHANGED <<holder, saw, active, lost>>

\* The transcripts beyond the number to keep, the newest kept.  What is spared
\* counts as kept.
DoomedTexts ==
    LET spare == listed \ active
    IN  {f \in spare : Cardinality({g \in spare : g[2] > f[2]}) + Cardinality(listed \cap active)
                           >= KeepTranscripts}

\* The files of a group share a name up to the suffix; what is trimmed is a
\* group by itself, younger than its recording.
Group(i) == {f \in listed : 2 * f[2] + (IF f[1] = "trimmed" THEN 1 ELSE 0) = i}

\* A group of files is kept if it is young enough and fits into what those
\* before it have left.  What is spared takes nothing away.
DoomedRecordings_Oldest(youngest) ==
    LET kept[i \in 0..(2 * MaxRecordings + 1)] ==
            LET before == IF i = 0 THEN 0 ELSE kept[i - 1]
            IN  IF /\ Group(i) \cap active = {} /\ i >= youngest
                   /\ before + Cardinality(Group(i)) <= KeepRecordings
                THEN before + Cardinality(Group(i))
                ELSE before
    IN  UNION {Group(i) : i \in {j \in 1..(2 * MaxRecordings + 1) :
                   Group(j) \cap active = {} /\ kept[j] = kept[j - 1]}}

\* How many files are kept of group i and of all younger ones.
KeptFrom(youngest) ==
    LET kept[i \in 2..(2 * MaxRecordings + 2)] ==
            LET above == IF i = 2 * MaxRecordings + 2 THEN 0 ELSE kept[i + 1]
            IN  IF /\ Group(i) \cap active = {} /\ i >= youngest
                   /\ above + Cardinality(Group(i)) <= KeepRecordings
                THEN above + Cardinality(Group(i))
                ELSE above
    IN  kept

DoomedRecordings(youngest) ==
    LET kept == KeptFrom(youngest)
    IN  UNION {Group(i) : i \in {j \in 2..(2 * MaxRecordings + 1) :
                   Group(j) \cap active = {} /\ kept[j] = kept[j + 1]}}

\* What a recorder is writing to.
Growing == IF doing = "created" \/ status = "recording" THEN Artifacts(newest) ELSE {}

\* A file that changed since the listing is left alone: one being written to
\* may have.
Deletes(doomed) ==
    \E changed \in SUBSET (doomed \cap Growing) :
        /\ files' = files \ (doomed \ changed)
        /\ lost' = lost \cup ((files \ files') \cap (AudioInProgress \cup Of({"text"}, saw)))

ListsTexts == Lists("texts", "prunes_texts", {"text"})
ListsRecordings == Lists("recordings", "prunes_recordings", Audible)

Prunes(here, next, doomed) ==
    /\ at = here /\ at' = next /\ Deletes(doomed)
    /\ listed' = {}
    /\ UNCHANGED <<newest, stateVars, lifecycleVars, saw, active>>

PrunesTexts == Prunes("prunes_texts", "recordings", DoomedTexts)

\* The groups of `youngest` on are within --recording-max-age-days; what is
\* being recorded is.
PrunesRecordings ==
    \E youngest \in 2..(2 * MaxRecordings + 1) :
        /\ youngest <= 2 * newest \/ newest = 0
        /\ Prunes("prunes_recordings", "ends", DoomedRecordings(youngest))

Ends ==
    /\ Proceeds("ends", "idle")
    /\ holder' = IF holder = "cleanup" THEN "nobody" ELSE holder
    /\ saw' = {} /\ active' = {} /\ UNCHANGED <<listed, lost>>

Cleaning ==
    \/ AsksForLock \/ AcquiresLock \/ ReadsState \/ ProtectsAll
    \/ ListsTexts \/ PrunesTexts \/ ListsRecordings \/ PrunesRecordings \/ Ends

CleanupNext == Lifecycle \/ Cleaning

CleanupSpec == CleanupInit /\ [][CleanupNext]_cleanupVars

-----------------------------------------------------------------------------
\* However long ago cleanup has read the state, it does not take the audio of a
\* recording in progress; nor the transcript that state named, or that the
\* finalization going on then may have written since.
NeededIsKept == lost = {}

\* What was there when cleanup read the state, and needed, is spared: "cleanup
\* does not delete recordings while lifecycle lock is held" (a test).  The code
\* does not: when the state still names an earlier recording, which was kept,
\* the one that a start has just made files for is not recognised.
SeenIsSpared == lost \cap saw = {}

=============================================================================
