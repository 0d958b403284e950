---------------------------- MODULE Finalization ----------------------------
(***************************************************************************)
(* finalize_recording (cli.py): one recording that has been stopped is     *)
(* transcribed, its text stored and inserted, its files backed up, deleted *)
(* and the state set to "done".  Whoever runs it holds the finalization    *)
(* lock (module FinalizationLock), so runs do not overlap; but a run may   *)
(* be killed between any two steps, any step may raise into the error      *)
(* handler, and the next run resumes from what is on disk.                 *)
(*                                                                         *)
(* Modelled with keep_recording_artifacts off (the default) and artifact   *)
(* encryption off.  Trimming, pruning and the diagnostics of the steps are *)
(* left to the failures they may cause.                                    *)
(***************************************************************************)
EXTENDS Naturals

CONSTANTS Artifacts,    \* the files of the recording: its audio, its log
          Audio,        \* the one that holds the speech
          RetryMayFail, \* whether a retry of a stored transcript may fail
                        \* before its intent to insert is on disk
          LateRaise     \* whether a state update may raise once it has
                        \* written (its lock cannot be released)

ASSUME FinalizationAssumption ==
    /\ Audio \in Artifacts
    /\ RetryMayFail \in BOOLEAN
    /\ LateRaise \in BOOLEAN

VARIABLES
    status,  \* the state file: its status,
    marks,   \* its booleans: inserted, retry (error SOC-O001), text (a
             \* transcript path), restore (cleanup_backup_journal_restore),
    named,   \* the artifacts it has a path of,
    journal, \* those of pending_cleanup_backup_entries
    files,   \* the disk: the artifacts that exist,
    bak,     \* those with a cleanup backup,
    text,    \* whether the stored transcript exists
    pc,      \* the run: its next step, "idle" when there is none,
    mode,    \* its arguments: from a terminal, from the applet, from the
             \* applet with automatic backup,
    flags,   \* its boolean local variables,
    backed,  \* cleanup_rollback_backups,
    deleted, \* audio_deleted, log_deleted,
    pairs,   \* cleanup_backup_restore_pairs,
    after,   \* where a rollback of the backups returns to
    pasted,  \* history: how often the text was inserted,
    past     \* history: what happened to the recording

stored == <<status, marks, named, journal>>
disk == <<files, bak, text>>
run == <<mode, flags, backed, deleted, pairs, after>>
vars == <<stored, disk, pc, run, pasted, past>>

Marks == {"inserted", "retry", "text", "restore"}
Modes == {"terminal", "applet", "mirror"}
Flags == {"inserted", "written", "keepText", "noOutput", "preOutput",
          "keepAudio", "unsafe", "journaled", "marked", "retrying",
          "restoring", "suffix", "cleared"}
Retry == {"reread", "revalidate"}
Handler == {"handle", "recorderror", "purge", "settle"}
PCs == {"idle", "recover", "mark", "validate", "transcribe", "store", "intent",
        "insert", "unmark", "report", "finish", "backup", "delete", "done",
        "discard", "rollback", "restore", "forget", "cleanuperror"}
       \union Retry \union Handler

Init ==
    /\ status = "processing" /\ marks = {} /\ named = Artifacts /\ journal = {}
    /\ files = Artifacts /\ bak = {} /\ text = FALSE
    /\ pc = "idle" /\ mode = "terminal" /\ flags = {} /\ backed = {}
    /\ deleted = {} /\ pairs = {} /\ after = "idle"
    /\ pasted = 0 /\ past = {}

-----------------------------------------------------------------------------
Has(f) == f \in flags
Marked(m) == m \in marks
Only(m, S) == {m} \intersect S
If(b, S) == IF b THEN S ELSE {}

(* What StateStore.update refuses to write: a restore journal beside any   *)
(* other status, or beside a state that names no artifact.                 *)
Writable(s, m, n) ==
    "restore" \in m => s \in {"finalizing", "error"} /\ n # {}

Persist(s, m, n, j) ==
    /\ Writable(s, m, n)
    /\ status' = s /\ marks' = m /\ named' = n /\ journal' = j

(* An update that raises has written nothing, or cannot release its lock.  *)
PersistFails(s, m, n, j) ==
    \/ UNCHANGED stored
    \/ LateRaise /\ Persist(s, m, n, j)

(* The run ends and its local variables with it.                           *)
Leave ==
    /\ pc' = "idle" /\ mode' = "terminal" /\ flags' = {} /\ backed' = {}
    /\ deleted' = {} /\ pairs' = {} /\ after' = "idle"

Goto(l) == pc' = l /\ UNCHANGED run
With(l, f) == pc' = l /\ flags' = f /\ UNCHANGED <<mode, backed, deleted, pairs, after>>

(* An exception: the handler does nothing before the state is marked.      *)
Raise(f) == IF "marked" \in f THEN With("handle", f) ELSE Leave

(* A store update as a step: it succeeds and the run goes on, or it raises.*)
Update(s, m, n, j, l, f) ==
    \/ Persist(s, m, n, j) /\ With(l, f)
    \/ PersistFails(s, m, n, j) /\ Raise(flags)

Unresolved == journal # {} /\ ~Marked("restore")
Retryable == /\ status = "finalizing"
             /\ marks \intersect {"inserted", "retry", "text"} = {"retry", "text"}
Ended == \/ status = "done"
         \/ status = "error" /\ ~Marked("restore")

-----------------------------------------------------------------------------
(* The start of a run: unresolved cleanups and ended recordings are left   *)
(* alone, a stored transcript is retried, anything else is (re)transcribed *)
(* once the backups of an earlier run are back in place.                   *)
Refuse == /\ pc = "idle"
          /\ Unresolved \/ Ended
          /\ UNCHANGED vars

Begins(m) ==
    /\ pc = "idle"
    /\ ~Unresolved
    /\ past' = past \union Only("terminal", {m})
    /\ UNCHANGED <<disk, backed, deleted, after, pasted>>

StartRetry(m) ==
    /\ Begins(m)
    /\ Retryable
    /\ pc' = "reread" /\ mode' = m /\ flags' = {"marked", "retrying"}
    /\ UNCHANGED <<stored, pairs>>

(* "no recording is available"                                             *)
StartWithoutAudio(m) ==
    /\ Begins(m)
    /\ ~Retryable /\ ~Ended
    /\ Audio \notin named
    /\ Persist("error", marks \ {"retry"}, named, journal)
    /\ UNCHANGED <<pc, mode, flags, pairs>>

Start(m) ==
    /\ Begins(m)
    /\ ~Retryable /\ ~Ended
    /\ Audio \in named
    /\ pc' = "recover" /\ mode' = m
    /\ flags' = If(status = "finalizing", Only("inserted", marks))
                \union If(Marked("restore"), {"restoring"})
    /\ pairs' = If(Marked("restore"), journal)
    /\ UNCHANGED stored

(* _restore_cleanup_backup_if_needed, for a journal of the restore kind:   *)
(* rename the backup back, then drop the pair from the journal.  It is     *)
(* also how a rollback puts the originals back.                            *)
Restoring == pc \in {"recover", "restore"}

RenameBack(a) ==
    /\ Restoring
    /\ a \in (pairs \intersect bak) \ files
    /\ pairs \intersect files = {}
    /\ files' = files \union {a} /\ bak' = bak \ {a}
    /\ UNCHANGED <<stored, text, pc, run, pasted, past>>

JournalPairs(p) ==
    Persist(status, (marks \ {"restore"}) \union If(p # {}, {"restore"}), named, p)

CompletePair(a) ==
    /\ Restoring
    /\ a \in (pairs \intersect files) \ bak
    /\ JournalPairs(pairs \ {a})
    /\ pairs' = pairs \ {a}
    /\ flags' = (flags \ {"journaled"})
                \union If(pairs # {a}, {"journaled"})
    /\ UNCHANGED <<disk, pc, mode, backed, deleted, after, pasted, past>>

(* ... and without such a journal, when a run was killed before it wrote   *)
(* one: the originals are all there and the backups are stale.             *)
DropStaleBackup(a) ==
    /\ pc = "recover" /\ ~Has("restoring") /\ status = "finalizing"
    /\ a \in bak \intersect files
    /\ bak' = bak \ {a}
    /\ UNCHANGED <<stored, files, text, pc, run, pasted, past>>

Recovered_ForgetsApplet ==
    /\ pc = "recover" /\ pairs = {}
    /\ Has("restoring") \/ status # "finalizing" \/ bak \intersect files = {}
    /\ With("mark", flags)
    /\ UNCHANGED <<stored, disk, pasted, past>>

Recovered ==
    /\ pc = "recover" /\ pairs = {}
    /\ Has("restoring") \/ status # "finalizing" \/ bak \intersect files = {}
    /\ With("mark", flags \union If(mode # "terminal", {"keepAudio"}))
    /\ UNCHANGED <<stored, disk, pasted, past>>

(* From here on the error handler acts.  A first run clears `inserted`.    *)
MarkFinalizing ==
    /\ pc = "mark"
    /\ IF status = "finalizing"
         THEN UNCHANGED stored
              /\ With("validate", flags \union {"marked"})
         ELSE LET ins == If(Has("restoring"), Only("inserted", marks)) IN
              Update("finalizing", (marks \ {"retry", "inserted"}) \union ins,
                     named, journal,
                     "validate", (flags \ {"inserted"}) \union ins \union {"marked"})
    /\ UNCHANGED <<disk, pasted, past>>

-----------------------------------------------------------------------------
(* The pipeline.                                                           *)
ValidateAudio ==
    /\ pc = "validate"
    /\ Audio \in files
    /\ With("transcribe", flags \union {"suffix"})
    /\ UNCHANGED <<stored, disk, pasted, past>>

(* The transcript is kept through a later failure if it was inserted, or   *)
(* if automatic backup is configured.                                      *)
ToBackup(f) ==
    With("backup", f \union If("inserted" \in f \/ mode = "mirror", {"keepText"}))

(* Silence (the state is cleared of an older transcript) or no text.       *)
NoSpeech ==
    /\ pc = "transcribe"
    /\ \E f \in {{}, {"cleared"}} : ToBackup(flags \union f)
    /\ past' = past \union {"silent"}
    /\ UNCHANGED <<stored, disk, pasted>>

Transcribed ==
    /\ pc = "transcribe"
    /\ Goto("store")
    /\ UNCHANGED <<stored, disk, pasted, past>>

(* _process_transcript fails: retryable as long as nothing was inserted.   *)
PostprocessFails ==
    /\ pc = "transcribe"
    /\ With("handle", flags \union If(~Has("inserted"), {"preOutput"}))
    /\ UNCHANGED <<stored, disk, pasted, past>>

Declines == past' = past \union {"declined"}

StoreTranscript ==
    /\ pc = "store"
    /\ text' = TRUE
    /\ LET f == flags \union {"written"} IN
       \/ Has("inserted") /\ ToBackup(f) /\ UNCHANGED past
       \/ ~Has("inserted") /\ With("intent", f) /\ UNCHANGED past
       \/ ~Has("inserted") /\ ToBackup(f) /\ Declines  \* nothing left to insert
    /\ UNCHANGED <<stored, files, bak, pasted>>

(* The retry of a stored transcript sets written_text_path before it reads *)
(* and validates the file.                                                 *)
Reread ==
    /\ pc = "reread"
    /\ text
    /\ With("revalidate", flags \union {"written"})
    /\ UNCHANGED <<stored, disk, pasted, past>>

Revalidate ==
    /\ pc = "revalidate"
    /\ Goto("intent") \/ With("finish", flags \union {"keepText"})
    /\ UNCHANGED <<stored, disk, pasted, past>>

PersistIntent_InMemory ==
    /\ pc = "intent"
    /\ With("insert", flags \union {"inserted"})
    /\ UNCHANGED <<stored, disk, pasted, past>>

(* The intent to insert is on disk before the side effect.                 *)
PersistIntent ==
    /\ pc = "intent"
    /\ LET m == (marks \ If(Has("retrying"), {"retry"})) \union {"inserted"} IN
       \/ Persist(status, m, named, journal)
          /\ With("insert", flags \union {"inserted"})
       \/ (Has("retrying") => RetryMayFail)
          /\ PersistFails(status, m, named, journal)
          /\ Raise(flags)
    /\ UNCHANGED <<disk, pasted, past>>

Inserted == /\ pc = "insert"
            /\ pasted' = pasted + 1
            /\ \/ Goto("handle")  \* then it raises: completion is uncertain
               \/ IF Has("retrying") THEN With("finish", flags \union {"keepText"})
                                     ELSE ToBackup(flags)
            /\ UNCHANGED <<stored, disk, past>>

(* insert_text returns FALSE (method none, a recent duplicate), raises     *)
(* OutputNotInsertedError, or raises something else.                       *)
Declined == /\ pc = "insert"
            /\ With("unmark", flags \ {"inserted"})
            /\ Declines
            /\ UNCHANGED <<stored, disk, pasted>>

NotInserted_Unpreserved ==
    /\ pc = "insert"
    /\ Goto("report")
    /\ UNCHANGED <<stored, disk, pasted, past>>

NotInserted == /\ pc = "insert"
               /\ With("report", flags \union {"keepText"})
               /\ UNCHANGED <<stored, disk, pasted, past>>

InsertFails == /\ pc = "insert"
               /\ Goto("handle")
               /\ UNCHANGED <<stored, disk, pasted, past>>

UnmarkInserted ==
    /\ pc = "unmark"
    /\ LET f == flags \union If(Has("retrying") \/ mode = "mirror", {"keepText"}) IN
       Update(status, marks \ {"inserted"}, named, journal,
              IF Has("retrying") THEN "finish" ELSE "backup", f)
    /\ UNCHANGED <<disk, pasted, past>>

(* SOC-O001: "no text was inserted. Retry finalization."                   *)
ReportNotInserted ==
    /\ pc = "report"
    /\ LET m == (marks \ {"inserted"}) \union {"retry"} IN
       \/ Persist(status, m, named, journal)
          /\ With("handle", (flags \ {"inserted"}) \union {"noOutput"})
       \/ PersistFails(status, m, named, journal) /\ Raise(flags)
    /\ UNCHANGED <<disk, pasted, past>>

FinishRetry ==
    /\ pc = "finish"
    /\ LET m == (marks \ {"inserted", "retry"}) \union {"text"}
                \union Only("inserted", flags) IN
       \/ Persist("done", m, named, journal) /\ Leave
       \/ PersistFails("done", m, named, journal) /\ Raise(flags)
    /\ UNCHANGED <<disk, pasted, past>>

-----------------------------------------------------------------------------
(* Deleting the files: back up, journal, delete, set "done", then discard  *)
(* the backups.                                                            *)
BackupCleanupFile(a) ==
    /\ pc = "backup"
    /\ a \in (named \intersect files) \ backed
    /\ bak' = bak \union {a} /\ backed' = backed \union {a}
    /\ UNCHANGED <<stored, files, text, pc, mode, flags, deleted, pairs, after, pasted, past>>

Rollback(f, l) ==
    /\ pc' = "rollback" /\ flags' = f /\ deleted' = {} /\ after' = l
    /\ UNCHANGED <<mode, backed, pairs>>

BackupFails ==
    /\ pc = "backup"
    /\ Rollback(flags \union {"keepAudio", "keepText"}, "handle")
    /\ UNCHANGED <<stored, disk, pasted, past>>

PersistCleanupJournal_Skipped ==
    /\ pc = "backup"
    /\ named \intersect files \subseteq backed
    /\ Goto("delete")
    /\ UNCHANGED <<stored, disk, pasted, past>>

PersistCleanupJournal ==
    /\ pc = "backup"
    /\ named \intersect files \subseteq backed
    /\ IF backed = {} THEN Goto("delete") /\ UNCHANGED stored
       ELSE Update(status, marks \ {"restore"}, named, backed,
                   "delete", flags \union {"journaled"})
    /\ UNCHANGED <<disk, pasted, past>>

RemoveBackedUpFile(a) ==
    /\ pc = "delete"
    /\ a \in named \ deleted
    /\ files' = files \ {a} /\ deleted' = deleted \union {a}
    /\ UNCHANGED <<stored, bak, text, pc, mode, flags, backed, pairs, after, pasted, past>>

(* A removal that reports failure may have happened.                       *)
RemovalFails ==
    /\ pc = "delete"
    /\ \E a \in named \ deleted :
         \/ UNCHANGED files
         \/ a \in backed /\ files' = files \ {a}
    /\ Rollback(flags \union {"keepAudio"} \union If(~Has("cleared"), {"keepText"}),
                "cleanuperror")
    /\ UNCHANGED <<stored, bak, text, pasted, past>>

Removed ==
    /\ pc = "delete"
    /\ named \subseteq deleted
    /\ Goto("done")
    /\ UNCHANGED <<stored, disk, pasted, past>>

DoneMarks == Only("restore", marks)
             \union If(Has("written"), {"text"})
             \union If(~Has("cleared"), Only("inserted", flags))

PersistDone_Unpreserved ==
    /\ pc = "done"
    /\ Update("done", DoneMarks, {}, journal, "discard", flags)
    /\ UNCHANGED <<disk, pasted, past>>

PersistDone ==
    /\ pc = "done"
    /\ Update("done", DoneMarks, {}, journal, "discard", flags \union {"keepText"})
    /\ UNCHANGED <<disk, pasted, past>>

(* The artifact cap could not delete some older file: the run ends with    *)
(* status "error" and leaves its backups to the journal.                   *)
PersistCapFailure ==
    /\ pc = "done"
    /\ LET m == IF Has("cleared") THEN marks \ {"retry", "text"} ELSE DoneMarks IN
       \/ Persist("error", m, {}, journal) /\ Leave
       \/ PersistFails("error", m, {}, journal) /\ Raise(flags)
    /\ UNCHANGED <<disk, pasted, past>>

(* _discard_cleanup_backups, after "done" or at the end of the handler.    *)
Discarding == pc \in {"discard", "settle"}
DiscardFailed(f) == IF pc = "settle" THEN Leave ELSE With("handle", f)

DiscardBackup(a) ==
    /\ Discarding /\ ~Has("unsafe")
    /\ a \in backed \intersect bak
    /\ bak' = bak \ {a}
    /\ UNCHANGED <<stored, files, text, pc, run, pasted, past>>

DiscardFails ==
    /\ Discarding
    /\ Has("unsafe") \/ backed \intersect bak # {}
    /\ DiscardFailed(flags \union {"unsafe"})
    /\ UNCHANGED <<stored, disk, pasted, past>>

ClearJournal == Persist(status, marks \ {"restore"}, named, {})

Discarded ==
    /\ Discarding /\ ~Has("unsafe")
    /\ backed \intersect bak = {}
    /\ IF Has("journaled")
         THEN \/ ClearJournal /\ Leave
              \/ UNCHANGED stored /\ DiscardFailed(flags)
         ELSE UNCHANGED stored /\ Leave
    /\ UNCHANGED <<disk, pasted, past>>

-----------------------------------------------------------------------------
(* _restore_cleanup_backups: drop the backups of originals that are still  *)
(* there, journal the others as restore pairs, rename them back.           *)
Return_Nested(f, b) ==
    IF after = "idle" THEN Leave
    ELSE /\ pc' = after /\ flags' = f /\ backed' = b /\ after' = pc
         /\ pairs' = {}
         /\ UNCHANGED <<mode, deleted>>

Return(f, b) ==
    IF after = "idle" THEN Leave
    ELSE /\ pc' = after /\ flags' = f /\ backed' = b /\ after' = "idle"
         /\ pairs' = {}
         /\ UNCHANGED <<mode, deleted>>

RollbackDrop(a) ==
    /\ pc = "rollback"
    /\ a \in backed \intersect files \intersect bak
    /\ bak' = bak \ {a}
    /\ UNCHANGED <<stored, files, text, pc, run, pasted, past>>

RollbackPairs ==
    /\ pc = "rollback"
    /\ backed \intersect files \intersect bak = {}
    /\ LET p == backed \ files IN
       /\ p \subseteq bak
       /\ IF p = {} THEN Goto("forget") /\ UNCHANGED stored
          ELSE /\ JournalPairs(p)
               /\ pc' = "restore" /\ pairs' = p
               /\ flags' = flags \union {"journaled"}
               /\ UNCHANGED <<mode, backed, deleted, after>>
    /\ UNCHANGED <<disk, pasted, past>>

Restored ==
    /\ pc = "restore" /\ pairs = {}
    /\ Goto("forget")
    /\ UNCHANGED <<stored, disk, pasted, past>>

(* An exception in it: the run keeps the backups and goes on, but a        *)
(* cleanup failure is then not recorded on its own.                        *)
RollbackFails ==
    /\ pc \in {"rollback", "restore"}
    /\ IF after = "idle" THEN Leave
       ELSE /\ pc' = "handle" /\ flags' = flags \union {"unsafe"}
            /\ after' = "idle"
            /\ UNCHANGED <<mode, backed, deleted, pairs>>
    /\ UNCHANGED <<stored, disk, pasted, past>>

ForgetBackups ==
    /\ pc = "forget"
    /\ IF Has("journaled")
         THEN \/ ClearJournal /\ Return(flags \ {"journaled"}, {})
              \/ UNCHANGED stored
                 /\ IF after = "idle" THEN Leave ELSE With("handle", flags)
         ELSE UNCHANGED stored /\ Return(flags, {})
    /\ UNCHANGED <<disk, pasted, past>>

(* _raise_recording_cleanup_failure                                        *)
RaiseCleanupFailure ==
    /\ pc = "cleanuperror"
    /\ LET m == (marks \ {"inserted", "retry"}) \union Only("inserted", flags) IN
       UNCHANGED stored \/ Persist("error", m, named, journal)
    /\ Goto("handle")
    /\ UNCHANGED <<disk, pasted, past>>

-----------------------------------------------------------------------------
(* The error handler.  First the stored transcript: it is removed unless   *)
(* it is to be preserved.                                                  *)
RemovesText == Has("written") /\ ~Has("keepText") /\ ~Has("cleared")

HandleTranscript ==
    /\ pc = "handle"
    /\ Goto("recorderror")
    /\ text' \in IF RemovesText THEN {FALSE, text} ELSE {text}
    /\ UNCHANGED <<stored, files, bak, pasted, past>>

(* Then the state.  `dirty`: a transient file of the run is left over.     *)
ErrorMarks(dirty) ==
    Only("restore", marks)
    \union Only("inserted", flags)
    \union If(Has("noOutput") /\ ~dirty, {"retry"})
    \union (IF Has("cleared") THEN {}
            ELSE IF RemovesText THEN If(text, {"text"})
            ELSE IF Has("written") THEN {"text"}
            ELSE IF Has("preOutput") THEN {} ELSE Only("text", marks))

ErrorNames == named \ deleted

RecordError_Reraises ==
    /\ pc = "recorderror"
    /\ \/ Persist("error", ErrorMarks(FALSE), ErrorNames, journal) /\ Goto("purge")
       \/ UNCHANGED stored /\ Goto("handle")
    /\ UNCHANGED <<disk, pasted, past>>

RecordError ==
    /\ pc = "recorderror"
    /\ \E dirty \in BOOLEAN :
         LET s == IF Has("noOutput") \/ (Has("preOutput") /\ ~dirty)
                    THEN "finalizing" ELSE "error" IN
         \/ /\ Persist(s, ErrorMarks(dirty), ErrorNames, journal)
            /\ Goto("purge")
         \/ /\ PersistFails(s, ErrorMarks(dirty), ErrorNames, journal)
            /\ pc' = "rollback" /\ after' = "idle"
            /\ UNCHANGED <<mode, flags, backed, deleted, pairs>>
    /\ UNCHANGED <<disk, pasted, past>>

(* Then the files, unless they are to be preserved.                        *)
PurgeTargets_Always ==
    IF flags \intersect {"keepAudio", "retrying"} # {} THEN {}
    ELSE named \ (deleted \union If(~Has("suffix"), {Audio}))

PurgeTargets ==
    IF flags \intersect {"preOutput", "keepAudio", "retrying"} # {} THEN {}
    ELSE named \ (deleted \union If(~Has("suffix"), {Audio}))

PurgeFile(a) ==
    /\ pc = "purge"
    /\ a \in PurgeTargets \intersect files
    /\ files' = files \ {a}
    /\ UNCHANGED <<stored, bak, text, pc, run, pasted, past>>

RecordPurge ==
    /\ pc = "purge"
    /\ LET n == named \ (PurgeTargets \ files) IN
       \/ (IF n = named THEN UNCHANGED stored ELSE Persist(status, marks, n, journal))
          /\ Goto("settle")
       \/ /\ PurgeTargets # {}
          /\ PersistFails(status, marks, n, journal)
          /\ pc' = "rollback" /\ after' = "idle"
          /\ UNCHANGED <<mode, flags, backed, deleted, pairs>>
    /\ UNCHANGED <<disk, pasted, past>>

-----------------------------------------------------------------------------
(* Any other failure of a step, and the death of the process.              *)
Raising == {"recover", "mark", "validate", "transcribe", "store",
            "backup", "delete", "done", "discard"}

Fails ==
    /\ pc \in Raising \union If(RetryMayFail \/ ~text, Retry)
    /\ Raise(flags)
    /\ UNCHANGED <<stored, disk, pasted, past>>

Abandon ==
    /\ pc # "idle"
    /\ Leave
    /\ UNCHANGED <<stored, disk, pasted, past>>

Begin == \E m \in Modes : StartRetry(m) \/ StartWithoutAudio(m) \/ Start(m)

Pipeline ==
    \/ Recovered \/ MarkFinalizing
    \/ ValidateAudio \/ NoSpeech \/ Transcribed \/ PostprocessFails
    \/ StoreTranscript \/ Reread \/ Revalidate \/ PersistIntent
    \/ Inserted \/ Declined \/ NotInserted \/ InsertFails
    \/ UnmarkInserted \/ ReportNotInserted \/ FinishRetry

Cleanup ==
    \/ BackupFails \/ PersistCleanupJournal \/ RemovalFails \/ Removed
    \/ PersistDone \/ PersistCapFailure \/ DiscardFails \/ Discarded
    \/ RollbackPairs \/ Restored \/ RollbackFails \/ ForgetBackups
    \/ RaiseCleanupFailure
    \/ \E a \in Artifacts :
         \/ RenameBack(a) \/ CompletePair(a) \/ DropStaleBackup(a)
         \/ BackupCleanupFile(a) \/ RemoveBackedUpFile(a) \/ DiscardBackup(a)
         \/ RollbackDrop(a) \/ PurgeFile(a)

Handle == HandleTranscript \/ RecordError \/ RecordPurge

Step == Pipeline \/ Cleanup \/ Handle \/ Fails

Next == Refuse \/ Begin \/ Step \/ Abandon

Spec == Init /\ [][Next]_vars
FairSpec == Spec /\ WF_vars(Step)

-----------------------------------------------------------------------------
TypeOK ==
    /\ status \in {"processing", "finalizing", "done", "error"}
    /\ marks \subseteq Marks
    /\ named \subseteq Artifacts /\ journal \subseteq Artifacts
    /\ files \subseteq Artifacts /\ bak \subseteq Artifacts /\ text \in BOOLEAN
    /\ pc \in PCs /\ mode \in Modes /\ flags \subseteq Flags
    /\ backed \subseteq Artifacts /\ deleted \subseteq Artifacts
    /\ pairs \subseteq Artifacts
    /\ after \in {"idle", "handle", "cleanuperror"}
    /\ pasted \in Nat
    /\ past \subseteq {"terminal", "silent", "declined"}

Unfinished == status \in {"processing", "finalizing"}
SpeechLost == Audio \notin files \union bak /\ ~text

(* However often a run is killed, fails or is resumed, the text of one     *)
(* recording reaches the target at most once (comment at cli.py:11920).    *)
InsertedAtMostOnce == pasted <= 1

(* While the recording is unfinished, or its restore is pending, an        *)
(* original that is gone has its backup in the journal: a crash between    *)
(* any two steps of backup, journal, delete, restore leaves a state from   *)
(* which finalize or cancel knows every copy.                              *)
DeletedIsJournaled ==
    Unfinished \/ Marked("restore") => bak \ files \subseteq journal

(* A state that says "done" and names a transcript has that transcript:    *)
(* no late failure of the same run removes it.                             *)
DoneHasTranscript == status = "done" /\ Marked("text") => text

(* No step takes the last copy of the speech (audio, its backup or stored  *)
(* transcript) while the recording is unfinished and not inserted: a crash *)
(* at any point leaves it to the next run.                                 *)
UninsertedSpeechKept ==
    [][Unfinished /\ ~Marked("inserted") /\ ~SpeechLost => ~SpeechLost']_vars

(* A recording the applet finalizes loses its speech only if there was     *)
(* none, or if insert_text inserted nothing without an error (the applet   *)
(* always asks for method "none") and a later step failed.                 *)
AppletKeepsSpeech ==
    SpeechLost => past \intersect {"terminal", "silent", "declined"} # {}

(* The transcript an SOC-O001 state tells the user to retry is not         *)
(* removed while the state says so.                                        *)
RetryKeepsTranscript == [][Retryable /\ text => text']_vars

(* Every run ends, and with it releases the finalization lock: the loops   *)
(* over backups and restore pairs make progress.                           *)
RunEnds == pc # "idle" ~> pc = "idle"
=============================================================================
