------------------------- MODULE FinalizationProofs -------------------------
(***************************************************************************)
(* Proofs about Finalization, for any set of artifacts and both settings   *)
(* of its two constants: a text is inserted at most once, an original that *)
(* is gone while it may be needed has its backup in the journal, and the   *)
(* speech is kept.                                                         *)
(*                                                                         *)
(* None is inductive.  A text is inserted once because a run that could    *)
(* insert knows that none was: its `inserted` flag and the mark on disk    *)
(* agree wherever that matters (Once).  The journal covers every backup    *)
(* because a run knows all that exist (Knows), wherever its flags let it   *)
(* be (Phase), and because a journal of restore pairs never names a backup *)
(* whose original is still there (Disk).                                   *)
(*                                                                         *)
(* On top of that, the audio is deleted only where a backup of it exists   *)
(* (Backups), and the backup only once the text is stored and no handler   *)
(* will remove it (Applet, Lost).  A run has the text wherever it has the  *)
(* flag `written` and has not reached its handler (HasTexts).                 *)
(***************************************************************************)
EXTENDS Finalization, TLAPS

(* Groups of steps.                                                        *)
PreBackup == {"mark", "validate", "transcribe", "store", "intent", "insert",
              "unmark", "report", "finish"} \union Retry
Working == (PreBackup \ {"mark"}) \union {"backup", "delete", "done"}
Main == Working \union {"mark", "discard"}
Undoing == {"rollback", "restore", "forget"}
RetryPCs == Retry \union Handler
            \union {"intent", "insert", "unmark", "report", "finish", "rollback", "forget"}

Covered == bak \ files \subseteq journal

(* What is on disk, whoever runs.                                          *)
Disk ==
    /\ Unfinished \/ Marked("restore") => Covered
    /\ Marked("restore") => bak \intersect files = {} /\ journal # {}
    /\ status = "processing" =>
         bak = {} /\ marks = {} /\ pc \in {"idle", "recover", "mark"}

(* A run knows every backup there is.                                      *)
Knows ==
    /\ pc = "idle" => flags = {} /\ backed = {} /\ pairs = {} /\ after = "idle"
    /\ pc = "recover" =>
         /\ ~Has("retrying") /\ backed = {}
         /\ Marked("restore") => pairs = journal
         /\ IF Has("restoring") THEN bak \intersect files = {} /\ bak \subseteq pairs
            ELSE pairs = {} /\ bak \subseteq files
    /\ pc \notin {"idle", "recover"} /\ ~Has("retrying") => bak \subseteq backed
    /\ pc = "restore" => bak \subseteq pairs /\ bak \intersect files = {}
    /\ pc = "forget" /\ ~Has("retrying") => bak = {}
    /\ pc \in PreBackup => backed = {}
    /\ pc = "delete" => bak \subseteq journal

(* Where a run can be, given its flags and the state.                      *)
Phase ==
    /\ Has("retrying") =>
         /\ pc \in RetryPCs /\ backed = {} /\ ~Has("journaled") /\ Covered
    /\ pc \in {"recover", "mark"} =>
         /\ ~Has("marked") /\ status # "done"
         /\ Unfinished \/ Has("restoring")
    /\ pc \in Working => status = "finalizing"
    /\ pc \in Main /\ ~Has("retrying") => ~Marked("restore")
    /\ flags \intersect {"noOutput", "preOutput"} # {} =>
         pc \in Handler \union Undoing /\ backed = {}
    /\ pc = "purge" /\ Unfinished => flags \intersect {"noOutput", "preOutput"} # {}
    /\ pc \in {"handle", "recorderror", "purge"} /\ Marked("restore") =>
         flags \intersect {"keepAudio", "retrying"} # {}
    /\ pc \in Undoing /\ after # "idle" =>
         /\ Has("keepAudio")
         /\ flags \intersect {"noOutput", "preOutput", "retrying"} = {}
    /\ pc = "cleanuperror" => Has("keepAudio")

(* An inserted text is known as such, on disk and by the run.              *)
Once ==
    /\ pasted <= 1
    /\ pasted = 1 => Marked("inserted") \/ status = "done"
    /\ pasted = 1 => status # "processing"
    /\ pasted = 1 /\ pc \notin {"idle", "recover", "mark"} => Has("inserted")
    /\ pc \in {"recover", "mark"} /\ status = "finalizing" /\ Marked("inserted") =>
         Has("inserted")
    /\ pc \in {"intent", "unmark"} \union Retry => ~Has("inserted")
    /\ pc \in {"intent", "insert", "unmark", "report"} => pasted = 0
    /\ pc = "insert" => Marked("inserted") /\ Has("inserted")

IInv == TypeOK /\ Disk /\ Knows /\ Phase /\ Once

USE DEF Has, Marked, run, stored, disk, Retry, Handler, PreBackup, Working,
        Main, Undoing, RetryPCs, PCs, Flags, Marks, Modes

-----------------------------------------------------------------------------
(* Each action, one part of the invariant after the other.                 *)
LEMMA StartRetryType == ASSUME TypeOK, NEW m \in Modes, StartRetry(m) PROVE TypeOK'
BY DEF StartRetry, Begins, Only, Retryable, Unresolved, TypeOK

LEMMA StartRetryKeeps == ASSUME IInv, NEW m \in Modes, StartRetry(m) PROVE IInv'
<1>0. TypeOK'
  BY StartRetryType DEF IInv
<1>1. Disk'
  BY <1>0 DEF StartRetry, Begins, Only, Retryable, Unresolved, TypeOK, IInv,
         Disk, Unfinished, Covered
<1>2. Knows'
  BY <1>0 DEF StartRetry, Begins, Only, Retryable, Unresolved, TypeOK, IInv,
         Knows, Unfinished
<1>3. Phase'
  BY <1>0 DEF StartRetry, Begins, Only, Retryable, Unresolved, TypeOK, IInv,
         Disk, Knows, Phase, Once, Unfinished, Covered
<1>4. Once'
  BY <1>0 DEF StartRetry, Begins, Only, Retryable, Unresolved, TypeOK, IInv,
         Once
<1> QED
  BY <1>0, <1>1, <1>2, <1>3, <1>4 DEF IInv

LEMMA StartWithoutAudioType == ASSUME TypeOK, NEW m \in Modes, StartWithoutAudio(m) PROVE TypeOK'
BY DEF StartWithoutAudio, Begins, Only, Ended, Unresolved, Persist, Writable,
         TypeOK

LEMMA StartWithoutAudioKeeps == ASSUME IInv, NEW m \in Modes, StartWithoutAudio(m) PROVE IInv'
<1>0. TypeOK'
  BY StartWithoutAudioType DEF IInv
<1>1. Disk'
  BY <1>0 DEF StartWithoutAudio, Begins, Only, Ended, Unresolved, Persist,
         Writable, TypeOK, IInv, Disk, Unfinished, Covered
<1>2. Knows'
  BY <1>0 DEF StartWithoutAudio, Begins, Only, Ended, Unresolved, Persist,
         Writable, TypeOK, IInv, Knows, Unfinished
<1>3. Phase'
  BY <1>0 DEF StartWithoutAudio, Begins, Only, Ended, Unresolved, Persist,
         Writable, TypeOK, IInv, Phase, Unfinished, Covered
<1>4. Once'
  BY <1>0 DEF StartWithoutAudio, Begins, Only, Ended, Unresolved, Persist,
         Writable, TypeOK, IInv, Once
<1> QED
  BY <1>0, <1>1, <1>2, <1>3, <1>4 DEF IInv

LEMMA StartType == ASSUME TypeOK, NEW m \in Modes, Start(m) PROVE TypeOK'
BY DEF Start, Begins, Retryable, Ended, Unresolved, If, Only, TypeOK

LEMMA StartKeeps == ASSUME IInv, NEW m \in Modes, Start(m) PROVE IInv'
<1>0. TypeOK'
  BY StartType DEF IInv
<1>1. Disk'
  BY <1>0 DEF Start, Begins, Retryable, Ended, Unresolved, If, Only, TypeOK,
         IInv, Disk, Unfinished, Covered
<1>2. Knows'
  BY <1>0 DEF Start, Begins, Retryable, Ended, Unresolved, If, Only, TypeOK,
         IInv, Disk, Knows, Phase, Once, Unfinished, Covered
<1>3. Phase'
  BY <1>0 DEF Start, Begins, Retryable, Ended, Unresolved, If, Only, TypeOK,
         IInv, Phase, Unfinished, Covered
<1>4. Once'
  BY <1>0 DEF Start, Begins, Retryable, Ended, Unresolved, If, Only, TypeOK,
         IInv, Once
<1> QED
  BY <1>0, <1>1, <1>2, <1>3, <1>4 DEF IInv

LEMMA RecoveredType == ASSUME TypeOK, Recovered PROVE TypeOK'
BY DEF Recovered, With, If, TypeOK

LEMMA RecoveredKeeps == ASSUME IInv, Recovered PROVE IInv'
<1>0. TypeOK'
  BY RecoveredType DEF IInv
<1>1. Disk'
  BY <1>0 DEF Recovered, With, If, TypeOK, IInv, Disk, Unfinished, Covered
<1>2. Knows'
  BY <1>0 DEF Recovered, With, If, TypeOK, IInv, Disk, Knows, Phase, Once,
         Unfinished, Covered
<1>3. Phase'
  BY <1>0 DEF Recovered, With, If, TypeOK, IInv, Disk, Knows, Phase, Once,
         Unfinished, Covered
<1>4. Once'
  BY <1>0 DEF Recovered, With, If, TypeOK, IInv, Once
<1> QED
  BY <1>0, <1>1, <1>2, <1>3, <1>4 DEF IInv

LEMMA MarkFinalizingType == ASSUME TypeOK, MarkFinalizing PROVE TypeOK'
BY DEF MarkFinalizing, With, If, Only, Update, Persist, PersistFails, Raise,
         Leave, Writable, TypeOK

LEMMA MarkFinalizingKeeps == ASSUME IInv, MarkFinalizing PROVE IInv'
<1>0. TypeOK'
  BY MarkFinalizingType DEF IInv
<1>a. CASE status = "finalizing"
  <2>1. UNCHANGED <<stored, disk, pasted, mode, backed, deleted, pairs, after>>
        /\ pc = "mark" /\ pc' = "validate" /\ flags' = flags \union {"marked"}
    BY <1>a DEF MarkFinalizing, With
  <2>2. Disk'
    BY <1>0, <1>a, <2>1 DEF TypeOK, IInv, Disk, Knows, Phase, Once,
         Unfinished, Covered
  <2>3. Knows'
    BY <1>0, <1>a, <2>1 DEF TypeOK, IInv, Disk, Knows, Phase, Once,
         Unfinished, Covered
  <2>4. Phase'
    BY <1>0, <1>a, <2>1 DEF TypeOK, IInv, Disk, Knows, Phase, Once,
         Unfinished, Covered
  <2>5. Once'
    BY <1>0, <1>a, <2>1 DEF TypeOK, IInv, Disk, Knows, Phase, Once,
         Unfinished, Covered
  <2> QED
    BY <1>0, <2>2, <2>3, <2>4, <2>5 DEF IInv
<1>b. CASE status # "finalizing"
  <2> DEFINE ins == If(Has("restoring"), Only("inserted", marks))
             mm == (marks \ {"retry", "inserted"}) \union ins
             ff == (flags \ {"inserted"}) \union ins \union {"marked"}
  <2>1. pc = "mark" /\ UNCHANGED <<disk, pasted>>
        /\ Update("finalizing", mm, named, journal, "validate", ff)
    BY <1>b DEF MarkFinalizing
  <2>2. CASE Persist("finalizing", mm, named, journal) /\ With("validate", ff)
    <3>1. Disk'
      BY <1>0, <1>b, <2>1, <2>2 DEF Persist, Writable, With, If, Only,
         TypeOK, IInv, Disk, Knows, Phase, Once, Unfinished, Covered
    <3>2. Knows'
      BY <1>0, <1>b, <2>1, <2>2 DEF Persist, Writable, With, If, Only,
         TypeOK, IInv, Disk, Knows, Phase, Once, Unfinished, Covered
    <3>3. Phase'
      BY <1>0, <1>b, <2>1, <2>2 DEF Persist, Writable, With, If, Only,
         TypeOK, IInv, Disk, Knows, Phase, Once, Unfinished, Covered
    <3>4. Once'
      BY <1>0, <1>b, <2>1, <2>2 DEF Persist, Writable, With, If, Only,
         TypeOK, IInv, Disk, Knows, Phase, Once, Unfinished, Covered
    <3> QED
      BY <1>0, <3>1, <3>2, <3>3, <3>4 DEF IInv
  <2>3. CASE UNCHANGED stored /\ Raise(flags)
    <3>1. Disk'
      BY <1>0, <1>b, <2>1, <2>3 DEF Raise, Leave, With, If, Only, TypeOK,
         IInv, Disk, Knows, Phase, Once, Unfinished, Covered
    <3>2. Knows'
      BY <1>0, <1>b, <2>1, <2>3 DEF Raise, Leave, With, If, Only, TypeOK,
         IInv, Disk, Knows, Phase, Once, Unfinished, Covered
    <3>3. Phase'
      BY <1>0, <1>b, <2>1, <2>3 DEF Raise, Leave, With, If, Only, TypeOK,
         IInv, Disk, Knows, Phase, Once, Unfinished, Covered
    <3>4. Once'
      BY <1>0, <1>b, <2>1, <2>3 DEF Raise, Leave, With, If, Only, TypeOK,
         IInv, Disk, Knows, Phase, Once, Unfinished, Covered
    <3> QED
      BY <1>0, <3>1, <3>2, <3>3, <3>4 DEF IInv
  <2>4. CASE Persist("finalizing", mm, named, journal) /\ Raise(flags)
    <3>1. Disk'
      BY <1>0, <1>b, <2>1, <2>4 DEF Persist, Writable, Raise, Leave, With,
         If, Only, TypeOK, IInv, Disk, Knows, Phase, Once, Unfinished, Covered
    <3>2. Knows'
      BY <1>0, <1>b, <2>1, <2>4 DEF Persist, Writable, Raise, Leave, With,
         If, Only, TypeOK, IInv, Disk, Knows, Phase, Once, Unfinished, Covered
    <3>3. Phase'
      BY <1>0, <1>b, <2>1, <2>4 DEF Persist, Writable, Raise, Leave, With,
         If, Only, TypeOK, IInv, Disk, Knows, Phase, Once, Unfinished, Covered
    <3>4. Once'
      BY <1>0, <1>b, <2>1, <2>4 DEF Persist, Writable, Raise, Leave, With,
         If, Only, TypeOK, IInv, Disk, Knows, Phase, Once, Unfinished, Covered
    <3> QED
      BY <1>0, <3>1, <3>2, <3>3, <3>4 DEF IInv
  <2> QED
    BY <2>1, <2>2, <2>3, <2>4 DEF Update, PersistFails
<1> QED
  BY <1>a, <1>b

LEMMA ValidateAudioType == ASSUME TypeOK, ValidateAudio PROVE TypeOK'
BY DEF ValidateAudio, With, TypeOK

LEMMA ValidateAudioKeeps == ASSUME IInv, ValidateAudio PROVE IInv'
<1>0. TypeOK'
  BY ValidateAudioType DEF IInv
<1>1. Disk'
  BY <1>0 DEF ValidateAudio, With, TypeOK, IInv, Disk, Unfinished, Covered
<1>2. Knows'
  BY <1>0 DEF ValidateAudio, With, TypeOK, IInv, Knows, Unfinished
<1>3. Phase'
  BY <1>0 DEF ValidateAudio, With, TypeOK, IInv, Phase, Unfinished, Covered
<1>4. Once'
  BY <1>0 DEF ValidateAudio, With, TypeOK, IInv, Once
<1> QED
  BY <1>0, <1>1, <1>2, <1>3, <1>4 DEF IInv

LEMMA NoSpeechType == ASSUME TypeOK, NoSpeech PROVE TypeOK'
BY DEF NoSpeech, ToBackup, With, If, TypeOK

LEMMA NoSpeechKeeps == ASSUME IInv, NoSpeech PROVE IInv'
<1>0. TypeOK'
  BY NoSpeechType DEF IInv
<1>1. Disk'
  BY <1>0 DEF NoSpeech, ToBackup, With, If, TypeOK, IInv, Disk, Unfinished,
         Covered
<1>2. Knows'
  BY <1>0 DEF NoSpeech, ToBackup, With, If, TypeOK, IInv, Knows, Unfinished
<1>3. Phase'
  BY <1>0 DEF NoSpeech, ToBackup, With, If, TypeOK, IInv, Phase, Unfinished,
         Covered
<1>4. Once'
  BY <1>0 DEF NoSpeech, ToBackup, With, If, TypeOK, IInv, Once
<1> QED
  BY <1>0, <1>1, <1>2, <1>3, <1>4 DEF IInv

LEMMA TranscribedType == ASSUME TypeOK, Transcribed PROVE TypeOK'
BY DEF Transcribed, Goto, TypeOK

LEMMA TranscribedKeeps == ASSUME IInv, Transcribed PROVE IInv'
<1>0. TypeOK'
  BY TranscribedType DEF IInv
<1>1. Disk'
  BY <1>0 DEF Transcribed, Goto, TypeOK, IInv, Disk, Unfinished, Covered
<1>2. Knows'
  BY <1>0 DEF Transcribed, Goto, TypeOK, IInv, Knows, Unfinished
<1>3. Phase'
  BY <1>0 DEF Transcribed, Goto, TypeOK, IInv, Phase, Unfinished, Covered
<1>4. Once'
  BY <1>0 DEF Transcribed, Goto, TypeOK, IInv, Once
<1> QED
  BY <1>0, <1>1, <1>2, <1>3, <1>4 DEF IInv

LEMMA PostprocessFailsType == ASSUME TypeOK, PostprocessFails PROVE TypeOK'
BY DEF PostprocessFails, With, If, TypeOK

LEMMA PostprocessFailsKeeps == ASSUME IInv, PostprocessFails PROVE IInv'
<1>0. TypeOK'
  BY PostprocessFailsType DEF IInv
<1>1. Disk'
  BY <1>0 DEF PostprocessFails, With, If, TypeOK, IInv, Disk, Unfinished,
         Covered
<1>2. Knows'
  BY <1>0 DEF PostprocessFails, With, If, TypeOK, IInv, Knows, Unfinished
<1>3. Phase'
  BY <1>0 DEF PostprocessFails, With, If, TypeOK, IInv, Knows, Phase,
         Unfinished, Covered
<1>4. Once'
  BY <1>0 DEF PostprocessFails, With, If, TypeOK, IInv, Once
<1> QED
  BY <1>0, <1>1, <1>2, <1>3, <1>4 DEF IInv

LEMMA StoreTranscriptType == ASSUME TypeOK, StoreTranscript PROVE TypeOK'
BY DEF StoreTranscript, ToBackup, With, If, Declines, TypeOK

LEMMA StoreTranscriptKeeps == ASSUME IInv, StoreTranscript PROVE IInv'
<1>0. TypeOK'
  BY StoreTranscriptType DEF IInv
<1>1. Disk'
  BY <1>0 DEF StoreTranscript, ToBackup, With, If, Declines, TypeOK, IInv,
         Disk, Unfinished, Covered
<1>2. Knows'
  BY <1>0 DEF StoreTranscript, ToBackup, With, If, Declines, TypeOK, IInv,
         Knows, Unfinished
<1>3. Phase'
  BY <1>0 DEF StoreTranscript, ToBackup, With, If, Declines, TypeOK, IInv,
         Phase, Unfinished, Covered
<1>4. Once'
  BY <1>0 DEF StoreTranscript, ToBackup, With, If, Declines, TypeOK, IInv,
         Once
<1> QED
  BY <1>0, <1>1, <1>2, <1>3, <1>4 DEF IInv

LEMMA RereadType == ASSUME TypeOK, Reread PROVE TypeOK'
BY DEF Reread, With, TypeOK

LEMMA RereadKeeps == ASSUME IInv, Reread PROVE IInv'
<1>0. TypeOK'
  BY RereadType DEF IInv
<1>1. Disk'
  BY <1>0 DEF Reread, With, TypeOK, IInv, Disk, Unfinished, Covered
<1>2. Knows'
  BY <1>0 DEF Reread, With, TypeOK, IInv, Knows, Unfinished
<1>3. Phase'
  BY <1>0 DEF Reread, With, TypeOK, IInv, Phase, Unfinished, Covered
<1>4. Once'
  BY <1>0 DEF Reread, With, TypeOK, IInv, Once
<1> QED
  BY <1>0, <1>1, <1>2, <1>3, <1>4 DEF IInv

LEMMA RevalidateType == ASSUME TypeOK, Revalidate PROVE TypeOK'
BY DEF Revalidate, Goto, With, TypeOK

LEMMA RevalidateKeeps == ASSUME IInv, Revalidate PROVE IInv'
<1>0. TypeOK'
  BY RevalidateType DEF IInv
<1>1. Disk'
  BY <1>0 DEF Revalidate, Goto, With, TypeOK, IInv, Disk, Unfinished, Covered
<1>2. Knows'
  BY <1>0 DEF Revalidate, Goto, With, TypeOK, IInv, Knows, Unfinished
<1>3. Phase'
  BY <1>0 DEF Revalidate, Goto, With, TypeOK, IInv, Phase, Unfinished, Covered
<1>4. Once'
  BY <1>0 DEF Revalidate, Goto, With, TypeOK, IInv, Once
<1> QED
  BY <1>0, <1>1, <1>2, <1>3, <1>4 DEF IInv

LEMMA PersistIntentType == ASSUME TypeOK, PersistIntent PROVE TypeOK'
BY DEF PersistIntent, Persist, PersistFails, Raise, Leave, With, If, Writable,
         TypeOK

LEMMA PersistIntentKeeps == ASSUME IInv, PersistIntent PROVE IInv'
<1>0. TypeOK'
  BY PersistIntentType DEF IInv
<1>1. Disk'
  BY <1>0 DEF PersistIntent, Persist, PersistFails, Raise, Leave, With, If,
         Writable, TypeOK, IInv, Disk, Unfinished, Covered
<1>2. Knows'
  BY <1>0 DEF PersistIntent, Persist, PersistFails, Raise, Leave, With, If,
         Writable, TypeOK, IInv, Knows, Unfinished
<1>3. Phase'
  BY <1>0 DEF PersistIntent, Persist, PersistFails, Raise, Leave, With, If,
         Writable, TypeOK, IInv, Phase, Unfinished, Covered
<1>4. Once'
  BY <1>0 DEF PersistIntent, Persist, PersistFails, Raise, Leave, With, If,
         Writable, TypeOK, IInv, Once
<1> QED
  BY <1>0, <1>1, <1>2, <1>3, <1>4 DEF IInv

LEMMA InsertedType == ASSUME TypeOK, Inserted PROVE TypeOK'
<1>1. pasted' \in Nat
  BY DEF Inserted, TypeOK
<1>2. UNCHANGED <<status, marks, named, journal, files, bak, text, mode,
                    backed, deleted, pairs, after, past>>
  BY DEF Inserted, Goto, ToBackup, With
<1>3. pc' \in PCs /\ flags' \subseteq Flags
  BY DEF Inserted, Goto, ToBackup, With, If, TypeOK
<1> QED
  BY <1>1, <1>2, <1>3 DEF TypeOK

LEMMA InsertedKeeps == ASSUME IInv, Inserted PROVE IInv'
<1>0. TypeOK'
  BY InsertedType DEF IInv
<1>1. Disk'
  BY <1>0 DEF Inserted, Goto, ToBackup, With, If, TypeOK, IInv, Disk,
         Unfinished, Covered
<1>2. Knows'
  BY <1>0 DEF Inserted, Goto, ToBackup, With, If, TypeOK, IInv, Knows,
         Unfinished
<1>3. Phase'
  BY <1>0 DEF Inserted, Goto, ToBackup, With, If, TypeOK, IInv, Phase,
         Unfinished, Covered
<1>4. Once'
  BY <1>0 DEF Inserted, Goto, ToBackup, With, If, TypeOK, IInv, Knows, Phase,
         Once
<1> QED
  BY <1>0, <1>1, <1>2, <1>3, <1>4 DEF IInv

LEMMA DeclinedType == ASSUME TypeOK, Declined PROVE TypeOK'
BY DEF Declined, With, Declines, TypeOK

LEMMA DeclinedKeeps == ASSUME IInv, Declined PROVE IInv'
<1>0. TypeOK'
  BY DeclinedType DEF IInv
<1>1. Disk'
  BY <1>0 DEF Declined, With, Declines, TypeOK, IInv, Disk, Unfinished,
         Covered
<1>2. Knows'
  BY <1>0 DEF Declined, With, Declines, TypeOK, IInv, Knows, Unfinished
<1>3. Phase'
  BY <1>0 DEF Declined, With, Declines, TypeOK, IInv, Phase, Unfinished,
         Covered
<1>4. Once'
  BY <1>0 DEF Declined, With, Declines, TypeOK, IInv, Once
<1> QED
  BY <1>0, <1>1, <1>2, <1>3, <1>4 DEF IInv

LEMMA NotInsertedType == ASSUME TypeOK, NotInserted PROVE TypeOK'
BY DEF NotInserted, With, TypeOK

LEMMA NotInsertedKeeps == ASSUME IInv, NotInserted PROVE IInv'
<1>0. TypeOK'
  BY NotInsertedType DEF IInv
<1>1. Disk'
  BY <1>0 DEF NotInserted, With, TypeOK, IInv, Disk, Unfinished, Covered
<1>2. Knows'
  BY <1>0 DEF NotInserted, With, TypeOK, IInv, Knows, Unfinished
<1>3. Phase'
  BY <1>0 DEF NotInserted, With, TypeOK, IInv, Phase, Unfinished, Covered
<1>4. Once'
  BY <1>0 DEF NotInserted, With, TypeOK, IInv, Once
<1> QED
  BY <1>0, <1>1, <1>2, <1>3, <1>4 DEF IInv

LEMMA InsertFailsType == ASSUME TypeOK, InsertFails PROVE TypeOK'
BY DEF InsertFails, Goto, TypeOK

LEMMA InsertFailsKeeps == ASSUME IInv, InsertFails PROVE IInv'
<1>0. TypeOK'
  BY InsertFailsType DEF IInv
<1>1. Disk'
  BY <1>0 DEF InsertFails, Goto, TypeOK, IInv, Disk, Unfinished, Covered
<1>2. Knows'
  BY <1>0 DEF InsertFails, Goto, TypeOK, IInv, Knows, Unfinished
<1>3. Phase'
  BY <1>0 DEF InsertFails, Goto, TypeOK, IInv, Phase, Unfinished, Covered
<1>4. Once'
  BY <1>0 DEF InsertFails, Goto, TypeOK, IInv, Once
<1> QED
  BY <1>0, <1>1, <1>2, <1>3, <1>4 DEF IInv

LEMMA UnmarkInsertedType == ASSUME TypeOK, UnmarkInserted PROVE TypeOK'
BY DEF UnmarkInserted, Update, Persist, PersistFails, Raise, Leave, With, If,
         Writable, TypeOK

LEMMA UnmarkInsertedKeeps == ASSUME IInv, UnmarkInserted PROVE IInv'
<1>0. TypeOK'
  BY UnmarkInsertedType DEF IInv
<1>1. Disk'
  BY <1>0 DEF UnmarkInserted, Update, Persist, PersistFails, Raise, Leave,
         With, If, Writable, TypeOK, IInv, Disk, Unfinished, Covered
<1>2. Knows'
  BY <1>0 DEF UnmarkInserted, Update, Persist, PersistFails, Raise, Leave,
         With, If, Writable, TypeOK, IInv, Knows, Unfinished
<1>3. Phase'
  BY <1>0 DEF UnmarkInserted, Update, Persist, PersistFails, Raise, Leave,
         With, If, Writable, TypeOK, IInv, Phase, Unfinished, Covered
<1>4. Once'
  BY <1>0 DEF UnmarkInserted, Update, Persist, PersistFails, Raise, Leave,
         With, If, Writable, TypeOK, IInv, Once
<1> QED
  BY <1>0, <1>1, <1>2, <1>3, <1>4 DEF IInv

LEMMA ReportNotInsertedType == ASSUME TypeOK, ReportNotInserted PROVE TypeOK'
BY DEF ReportNotInserted, Persist, PersistFails, Raise, Leave, With, Writable,
         TypeOK

LEMMA ReportNotInsertedKeeps == ASSUME IInv, ReportNotInserted PROVE IInv'
<1>0. TypeOK'
  BY ReportNotInsertedType DEF IInv
<1>1. Disk'
  BY <1>0 DEF ReportNotInserted, Persist, PersistFails, Raise, Leave, With,
         Writable, TypeOK, IInv, Disk, Unfinished, Covered
<1>2. Knows'
  BY <1>0 DEF ReportNotInserted, Persist, PersistFails, Raise, Leave, With,
         Writable, TypeOK, IInv, Knows, Unfinished
<1>3. Phase'
  BY <1>0 DEF ReportNotInserted, Persist, PersistFails, Raise, Leave, With,
         Writable, TypeOK, IInv, Knows, Phase, Unfinished, Covered
<1>4. Once'
  BY <1>0 DEF ReportNotInserted, Persist, PersistFails, Raise, Leave, With,
         Writable, TypeOK, IInv, Once
<1> QED
  BY <1>0, <1>1, <1>2, <1>3, <1>4 DEF IInv

LEMMA FinishRetryType == ASSUME TypeOK, FinishRetry PROVE TypeOK'
BY DEF FinishRetry, Persist, PersistFails, Raise, Leave, With, Only, Writable,
         TypeOK

LEMMA FinishRetryKeeps == ASSUME IInv, FinishRetry PROVE IInv'
<1>0. TypeOK'
  BY FinishRetryType DEF IInv
<1>1. Disk'
  BY <1>0 DEF FinishRetry, Persist, PersistFails, Raise, Leave, With, Only,
         Writable, TypeOK, IInv, Disk, Unfinished, Covered
<1>2. Knows'
  BY <1>0 DEF FinishRetry, Persist, PersistFails, Raise, Leave, With, Only,
         Writable, TypeOK, IInv, Knows, Unfinished
<1>3. Phase'
  BY <1>0 DEF FinishRetry, Persist, PersistFails, Raise, Leave, With, Only,
         Writable, TypeOK, IInv, Phase, Unfinished, Covered
<1>4. Once'
  BY <1>0 DEF FinishRetry, Persist, PersistFails, Raise, Leave, With, Only,
         Writable, TypeOK, IInv, Once
<1> QED
  BY <1>0, <1>1, <1>2, <1>3, <1>4 DEF IInv

LEMMA BackupFailsType == ASSUME TypeOK, BackupFails PROVE TypeOK'
BY DEF BackupFails, Rollback, TypeOK

LEMMA BackupFailsKeeps == ASSUME IInv, BackupFails PROVE IInv'
<1>0. TypeOK'
  BY BackupFailsType DEF IInv
<1>1. Disk'
  BY <1>0 DEF BackupFails, Rollback, TypeOK, IInv, Disk, Unfinished, Covered
<1>2. Knows'
  BY <1>0 DEF BackupFails, Rollback, TypeOK, IInv, Knows, Unfinished
<1>3. Phase'
  BY <1>0 DEF BackupFails, Rollback, TypeOK, IInv, Phase, Unfinished, Covered
<1>4. Once'
  BY <1>0 DEF BackupFails, Rollback, TypeOK, IInv, Once
<1> QED
  BY <1>0, <1>1, <1>2, <1>3, <1>4 DEF IInv

LEMMA PersistCleanupJournalType == ASSUME TypeOK, PersistCleanupJournal PROVE TypeOK'
BY DEF PersistCleanupJournal, Goto, Update, Persist, PersistFails, Raise,
         Leave, With, Writable, TypeOK

LEMMA PersistCleanupJournalKeeps == ASSUME IInv, PersistCleanupJournal PROVE IInv'
<1>0. TypeOK'
  BY PersistCleanupJournalType DEF IInv
<1>1. Disk'
  BY <1>0 DEF PersistCleanupJournal, Goto, Update, Persist, PersistFails,
         Raise, Leave, With, Writable, TypeOK, IInv, Knows, Phase, Disk,
         Unfinished, Covered
<1>2. Knows'
  BY <1>0 DEF PersistCleanupJournal, Goto, Update, Persist, PersistFails,
         Raise, Leave, With, Writable, TypeOK, IInv, Knows, Phase, Unfinished
<1>3. Phase'
  BY <1>0 DEF PersistCleanupJournal, Goto, Update, Persist, PersistFails,
         Raise, Leave, With, Writable, TypeOK, IInv, Phase, Unfinished, Covered
<1>4. Once'
  BY <1>0 DEF PersistCleanupJournal, Goto, Update, Persist, PersistFails,
         Raise, Leave, With, Writable, TypeOK, IInv, Once
<1> QED
  BY <1>0, <1>1, <1>2, <1>3, <1>4 DEF IInv

LEMMA RemovalFailsType == ASSUME TypeOK, RemovalFails PROVE TypeOK'
BY DEF RemovalFails, Rollback, If, TypeOK

LEMMA RemovalFailsKeeps == ASSUME IInv, RemovalFails PROVE IInv'
<1>0. TypeOK'
  BY RemovalFailsType DEF IInv
<1>1. Disk'
  BY <1>0 DEF RemovalFails, Rollback, If, TypeOK, IInv, Knows, Phase, Disk,
         Unfinished, Covered
<1>2. Knows'
  BY <1>0 DEF RemovalFails, Rollback, If, TypeOK, IInv, Knows, Unfinished
<1>3. Phase'
  BY <1>0 DEF RemovalFails, Rollback, If, TypeOK, IInv, Phase, Unfinished,
         Covered
<1>4. Once'
  BY <1>0 DEF RemovalFails, Rollback, If, TypeOK, IInv, Once
<1> QED
  BY <1>0, <1>1, <1>2, <1>3, <1>4 DEF IInv

LEMMA RemovedType == ASSUME TypeOK, Removed PROVE TypeOK'
BY DEF Removed, Goto, TypeOK

LEMMA RemovedKeeps == ASSUME IInv, Removed PROVE IInv'
<1>0. TypeOK'
  BY RemovedType DEF IInv
<1>1. Disk'
  BY <1>0 DEF Removed, Goto, TypeOK, IInv, Disk, Unfinished, Covered
<1>2. Knows'
  BY <1>0 DEF Removed, Goto, TypeOK, IInv, Knows, Unfinished
<1>3. Phase'
  BY <1>0 DEF Removed, Goto, TypeOK, IInv, Phase, Unfinished, Covered
<1>4. Once'
  BY <1>0 DEF Removed, Goto, TypeOK, IInv, Once
<1> QED
  BY <1>0, <1>1, <1>2, <1>3, <1>4 DEF IInv

LEMMA PersistDoneType == ASSUME TypeOK, PersistDone PROVE TypeOK'
BY DEF PersistDone, Update, Persist, PersistFails, Raise, Leave, With,
         DoneMarks, Only, If, Writable, TypeOK

LEMMA PersistDoneKeeps == ASSUME IInv, PersistDone PROVE IInv'
<1>0. TypeOK'
  BY PersistDoneType DEF IInv
<1>1. Disk'
  BY <1>0 DEF PersistDone, Update, Persist, PersistFails, Raise, Leave, With,
         DoneMarks, Only, If, Writable, TypeOK, IInv, Disk, Unfinished, Covered
<1>2. Knows'
  BY <1>0 DEF PersistDone, Update, Persist, PersistFails, Raise, Leave, With,
         DoneMarks, Only, If, Writable, TypeOK, IInv, Knows, Unfinished
<1>3. Phase'
  BY <1>0 DEF PersistDone, Update, Persist, PersistFails, Raise, Leave, With,
         DoneMarks, Only, If, Writable, TypeOK, IInv, Phase, Unfinished,
         Covered
<1>4. Once'
  BY <1>0 DEF PersistDone, Update, Persist, PersistFails, Raise, Leave, With,
         DoneMarks, Only, If, Writable, TypeOK, IInv, Once
<1> QED
  BY <1>0, <1>1, <1>2, <1>3, <1>4 DEF IInv

LEMMA PersistCapFailureType == ASSUME TypeOK, PersistCapFailure PROVE TypeOK'
BY DEF PersistCapFailure, Persist, PersistFails, Raise, Leave, With,
         DoneMarks, Only, If, Writable, TypeOK

LEMMA PersistCapFailureKeeps == ASSUME IInv, PersistCapFailure PROVE IInv'
<1>0. TypeOK'
  BY PersistCapFailureType DEF IInv
<1>1. Disk'
  BY <1>0 DEF PersistCapFailure, Persist, PersistFails, Raise, Leave, With,
         DoneMarks, Only, If, Writable, TypeOK, IInv, Disk, Unfinished, Covered
<1>2. Knows'
  BY <1>0 DEF PersistCapFailure, Persist, PersistFails, Raise, Leave, With,
         DoneMarks, Only, If, Writable, TypeOK, IInv, Knows, Unfinished
<1>3. Phase'
  BY <1>0 DEF PersistCapFailure, Persist, PersistFails, Raise, Leave, With,
         DoneMarks, Only, If, Writable, TypeOK, IInv, Phase, Unfinished,
         Covered
<1>4. Once'
  BY <1>0 DEF PersistCapFailure, Persist, PersistFails, Raise, Leave, With,
         DoneMarks, Only, If, Writable, TypeOK, IInv, Knows, Phase, Once
<1> QED
  BY <1>0, <1>1, <1>2, <1>3, <1>4 DEF IInv

LEMMA DiscardFailsType == ASSUME TypeOK, DiscardFails PROVE TypeOK'
BY DEF DiscardFails, Discarding, DiscardFailed, Leave, With, TypeOK

LEMMA DiscardFailsKeeps == ASSUME IInv, DiscardFails PROVE IInv'
<1>0. TypeOK'
  BY DiscardFailsType DEF IInv
<1>1. Disk'
  BY <1>0 DEF DiscardFails, Discarding, DiscardFailed, Leave, With, TypeOK,
         IInv, Disk, Unfinished, Covered
<1>2. Knows'
  BY <1>0 DEF DiscardFails, Discarding, DiscardFailed, Leave, With, TypeOK,
         IInv, Knows, Unfinished
<1>3. Phase'
  BY <1>0 DEF DiscardFails, Discarding, DiscardFailed, Leave, With, TypeOK,
         IInv, Phase, Unfinished, Covered
<1>4. Once'
  BY <1>0 DEF DiscardFails, Discarding, DiscardFailed, Leave, With, TypeOK,
         IInv, Once
<1> QED
  BY <1>0, <1>1, <1>2, <1>3, <1>4 DEF IInv

LEMMA DiscardedType == ASSUME TypeOK, Discarded PROVE TypeOK'
BY DEF Discarded, Discarding, DiscardFailed, Leave, With, ClearJournal,
         Persist, Writable, TypeOK

LEMMA DiscardedKeeps == ASSUME IInv, Discarded PROVE IInv'
<1>0. TypeOK'
  BY DiscardedType DEF IInv
<1>1. Disk'
  BY <1>0 DEF Discarded, Discarding, DiscardFailed, Leave, With, ClearJournal,
         Persist, Writable, TypeOK, IInv, Knows, Phase, Disk, Unfinished,
         Covered
<1>2. Knows'
  BY <1>0 DEF Discarded, Discarding, DiscardFailed, Leave, With, ClearJournal,
         Persist, Writable, TypeOK, IInv, Knows, Unfinished
<1>3. Phase'
  BY <1>0 DEF Discarded, Discarding, DiscardFailed, Leave, With, ClearJournal,
         Persist, Writable, TypeOK, IInv, Phase, Unfinished, Covered
<1>4. Once'
  BY <1>0 DEF Discarded, Discarding, DiscardFailed, Leave, With, ClearJournal,
         Persist, Writable, TypeOK, IInv, Once
<1> QED
  BY <1>0, <1>1, <1>2, <1>3, <1>4 DEF IInv

LEMMA RollbackPairsType == ASSUME TypeOK, RollbackPairs PROVE TypeOK'
BY DEF RollbackPairs, Goto, JournalPairs, Persist, Writable, If, TypeOK

LEMMA RollbackPairsKeeps == ASSUME IInv, RollbackPairs PROVE IInv'
<1>0. TypeOK'
  BY RollbackPairsType DEF IInv
<1>1. Disk'
  BY <1>0 DEF RollbackPairs, Goto, JournalPairs, Persist, Writable, If,
         TypeOK, IInv, Knows, Phase, Disk, Unfinished, Covered
<1>2. Knows'
  BY <1>0 DEF RollbackPairs, Goto, JournalPairs, Persist, Writable, If,
         TypeOK, IInv, Knows, Phase, Unfinished
<1>3. Phase'
  BY <1>0 DEF RollbackPairs, Goto, JournalPairs, Persist, Writable, If,
         TypeOK, IInv, Phase, Unfinished, Covered
<1>4. Once'
  BY <1>0 DEF RollbackPairs, Goto, JournalPairs, Persist, Writable, If,
         TypeOK, IInv, Once
<1> QED
  BY <1>0, <1>1, <1>2, <1>3, <1>4 DEF IInv

LEMMA RestoredType == ASSUME TypeOK, Restored PROVE TypeOK'
BY DEF Restored, Goto, TypeOK

LEMMA RestoredKeeps == ASSUME IInv, Restored PROVE IInv'
<1>0. TypeOK'
  BY RestoredType DEF IInv
<1>1. Disk'
  BY <1>0 DEF Restored, Goto, TypeOK, IInv, Disk, Unfinished, Covered
<1>2. Knows'
  BY <1>0 DEF Restored, Goto, TypeOK, IInv, Knows, Unfinished
<1>3. Phase'
  BY <1>0 DEF Restored, Goto, TypeOK, IInv, Phase, Unfinished, Covered
<1>4. Once'
  BY <1>0 DEF Restored, Goto, TypeOK, IInv, Once
<1> QED
  BY <1>0, <1>1, <1>2, <1>3, <1>4 DEF IInv

LEMMA RollbackFailsType == ASSUME TypeOK, RollbackFails PROVE TypeOK'
BY DEF RollbackFails, Leave, TypeOK

LEMMA RollbackFailsKeeps == ASSUME IInv, RollbackFails PROVE IInv'
<1>0. TypeOK'
  BY RollbackFailsType DEF IInv
<1>1. Disk'
  BY <1>0 DEF RollbackFails, Leave, TypeOK, IInv, Disk, Unfinished, Covered
<1>2. Knows'
  BY <1>0 DEF RollbackFails, Leave, TypeOK, IInv, Knows, Unfinished
<1>3. Phase'
  BY <1>0 DEF RollbackFails, Leave, TypeOK, IInv, Phase, Unfinished, Covered
<1>4. Once'
  BY <1>0 DEF RollbackFails, Leave, TypeOK, IInv, Once
<1> QED
  BY <1>0, <1>1, <1>2, <1>3, <1>4 DEF IInv

LEMMA ForgetBackupsType == ASSUME TypeOK, ForgetBackups PROVE TypeOK'
BY DEF ForgetBackups, ClearJournal, Persist, Writable, Return, Leave, With,
         TypeOK

LEMMA ForgetBackupsKeeps == ASSUME IInv, ForgetBackups PROVE IInv'
<1>0. TypeOK'
  BY ForgetBackupsType DEF IInv
<1>1. Disk'
  BY <1>0 DEF ForgetBackups, ClearJournal, Persist, Writable, Return, Leave,
         With, TypeOK, IInv, Knows, Phase, Disk, Unfinished, Covered
<1>2. Knows'
  BY <1>0 DEF ForgetBackups, ClearJournal, Persist, Writable, Return, Leave,
         With, TypeOK, IInv, Knows, Unfinished
<1>3. Phase'
  BY <1>0 DEF ForgetBackups, ClearJournal, Persist, Writable, Return, Leave,
         With, TypeOK, IInv, Phase, Unfinished, Covered
<1>4. Once'
  BY <1>0 DEF ForgetBackups, ClearJournal, Persist, Writable, Return, Leave,
         With, TypeOK, IInv, Once
<1> QED
  BY <1>0, <1>1, <1>2, <1>3, <1>4 DEF IInv

LEMMA RaiseCleanupFailureType == ASSUME TypeOK, RaiseCleanupFailure PROVE TypeOK'
BY DEF RaiseCleanupFailure, Goto, Persist, Writable, Only, TypeOK

LEMMA RaiseCleanupFailureKeeps == ASSUME IInv, RaiseCleanupFailure PROVE IInv'
<1>0. TypeOK'
  BY RaiseCleanupFailureType DEF IInv
<1>1. Disk'
  BY <1>0 DEF RaiseCleanupFailure, Goto, Persist, Writable, Only, TypeOK,
         IInv, Disk, Unfinished, Covered
<1>2. Knows'
  BY <1>0 DEF RaiseCleanupFailure, Goto, Persist, Writable, Only, TypeOK,
         IInv, Knows, Unfinished
<1>3. Phase'
  BY <1>0 DEF RaiseCleanupFailure, Goto, Persist, Writable, Only, TypeOK,
         IInv, Phase, Unfinished, Covered
<1>4. Once'
  BY <1>0 DEF RaiseCleanupFailure, Goto, Persist, Writable, Only, TypeOK,
         IInv, Once
<1> QED
  BY <1>0, <1>1, <1>2, <1>3, <1>4 DEF IInv

LEMMA RenameBackType == ASSUME TypeOK, NEW a \in Artifacts, RenameBack(a) PROVE TypeOK'
BY DEF RenameBack, Restoring, TypeOK

LEMMA RenameBackKeeps == ASSUME IInv, NEW a \in Artifacts, RenameBack(a) PROVE IInv'
<1>0. TypeOK'
  BY RenameBackType DEF IInv
<1>1. Disk'
  BY <1>0 DEF RenameBack, Restoring, TypeOK, IInv, Disk, Unfinished, Covered
<1>2. Knows'
  BY <1>0 DEF RenameBack, Restoring, TypeOK, IInv, Knows, Unfinished
<1>3. Phase'
  BY <1>0 DEF RenameBack, Restoring, TypeOK, IInv, Phase, Unfinished, Covered
<1>4. Once'
  BY <1>0 DEF RenameBack, Restoring, TypeOK, IInv, Once
<1> QED
  BY <1>0, <1>1, <1>2, <1>3, <1>4 DEF IInv

LEMMA CompletePairType == ASSUME TypeOK, NEW a \in Artifacts, CompletePair(a) PROVE TypeOK'
BY DEF CompletePair, Restoring, JournalPairs, Persist, Writable, If, TypeOK

LEMMA CompletePairKeeps == ASSUME IInv, NEW a \in Artifacts, CompletePair(a) PROVE IInv'
<1>0. TypeOK'
  BY CompletePairType DEF IInv
<1>1. Disk'
  BY <1>0 DEF CompletePair, Restoring, JournalPairs, Persist, Writable, If,
         TypeOK, IInv, Knows, Phase, Disk, Unfinished, Covered
<1>2. Knows'
  BY <1>0 DEF CompletePair, Restoring, JournalPairs, Persist, Writable, If,
         TypeOK, IInv, Knows, Unfinished
<1>3. Phase'
  BY <1>0 DEF CompletePair, Restoring, JournalPairs, Persist, Writable, If,
         TypeOK, IInv, Phase, Unfinished, Covered
<1>4. Once'
  BY <1>0 DEF CompletePair, Restoring, JournalPairs, Persist, Writable, If,
         TypeOK, IInv, Once
<1> QED
  BY <1>0, <1>1, <1>2, <1>3, <1>4 DEF IInv

LEMMA DropStaleBackupType == ASSUME TypeOK, NEW a \in Artifacts, DropStaleBackup(a) PROVE TypeOK'
BY DEF DropStaleBackup, TypeOK

LEMMA DropStaleBackupKeeps == ASSUME IInv, NEW a \in Artifacts, DropStaleBackup(a) PROVE IInv'
<1>0. TypeOK'
  BY DropStaleBackupType DEF IInv
<1>1. Disk'
  BY <1>0 DEF DropStaleBackup, TypeOK, IInv, Disk, Unfinished, Covered
<1>2. Knows'
  BY <1>0 DEF DropStaleBackup, TypeOK, IInv, Knows, Unfinished
<1>3. Phase'
  BY <1>0 DEF DropStaleBackup, TypeOK, IInv, Phase, Unfinished, Covered
<1>4. Once'
  BY <1>0 DEF DropStaleBackup, TypeOK, IInv, Once
<1> QED
  BY <1>0, <1>1, <1>2, <1>3, <1>4 DEF IInv

LEMMA BackupCleanupFileType == ASSUME TypeOK, NEW a \in Artifacts, BackupCleanupFile(a) PROVE TypeOK'
BY DEF BackupCleanupFile, TypeOK

LEMMA BackupCleanupFileKeeps == ASSUME IInv, NEW a \in Artifacts, BackupCleanupFile(a) PROVE IInv'
<1>0. TypeOK'
  BY BackupCleanupFileType DEF IInv
<1>1. Disk'
  BY <1>0 DEF BackupCleanupFile, TypeOK, IInv, Knows, Phase, Disk, Unfinished,
         Covered
<1>2. Knows'
  BY <1>0 DEF BackupCleanupFile, TypeOK, IInv, Knows, Unfinished
<1>3. Phase'
  BY <1>0 DEF BackupCleanupFile, TypeOK, IInv, Phase, Unfinished, Covered
<1>4. Once'
  BY <1>0 DEF BackupCleanupFile, TypeOK, IInv, Once
<1> QED
  BY <1>0, <1>1, <1>2, <1>3, <1>4 DEF IInv

LEMMA RemoveBackedUpFileType == ASSUME TypeOK, NEW a \in Artifacts, RemoveBackedUpFile(a) PROVE TypeOK'
BY DEF RemoveBackedUpFile, TypeOK

LEMMA RemoveBackedUpFileKeeps == ASSUME IInv, NEW a \in Artifacts, RemoveBackedUpFile(a) PROVE IInv'
<1>0. TypeOK'
  BY RemoveBackedUpFileType DEF IInv
<1>1. Disk'
  BY <1>0 DEF RemoveBackedUpFile, TypeOK, IInv, Knows, Phase, Disk,
         Unfinished, Covered
<1>2. Knows'
  BY <1>0 DEF RemoveBackedUpFile, TypeOK, IInv, Knows, Unfinished
<1>3. Phase'
  BY <1>0 DEF RemoveBackedUpFile, TypeOK, IInv, Phase, Unfinished, Covered
<1>4. Once'
  BY <1>0 DEF RemoveBackedUpFile, TypeOK, IInv, Once
<1> QED
  BY <1>0, <1>1, <1>2, <1>3, <1>4 DEF IInv

LEMMA DiscardBackupType == ASSUME TypeOK, NEW a \in Artifacts, DiscardBackup(a) PROVE TypeOK'
BY DEF DiscardBackup, Discarding, TypeOK

LEMMA DiscardBackupKeeps == ASSUME IInv, NEW a \in Artifacts, DiscardBackup(a) PROVE IInv'
<1>0. TypeOK'
  BY DiscardBackupType DEF IInv
<1>1. Disk'
  BY <1>0 DEF DiscardBackup, Discarding, TypeOK, IInv, Disk, Unfinished,
         Covered
<1>2. Knows'
  BY <1>0 DEF DiscardBackup, Discarding, TypeOK, IInv, Knows, Unfinished
<1>3. Phase'
  BY <1>0 DEF DiscardBackup, Discarding, TypeOK, IInv, Phase, Unfinished,
         Covered
<1>4. Once'
  BY <1>0 DEF DiscardBackup, Discarding, TypeOK, IInv, Once
<1> QED
  BY <1>0, <1>1, <1>2, <1>3, <1>4 DEF IInv

LEMMA RollbackDropType == ASSUME TypeOK, NEW a \in Artifacts, RollbackDrop(a) PROVE TypeOK'
BY DEF RollbackDrop, TypeOK

LEMMA RollbackDropKeeps == ASSUME IInv, NEW a \in Artifacts, RollbackDrop(a) PROVE IInv'
<1>0. TypeOK'
  BY RollbackDropType DEF IInv
<1>1. Disk'
  BY <1>0 DEF RollbackDrop, TypeOK, IInv, Disk, Unfinished, Covered
<1>2. Knows'
  BY <1>0 DEF RollbackDrop, TypeOK, IInv, Knows, Unfinished
<1>3. Phase'
  BY <1>0 DEF RollbackDrop, TypeOK, IInv, Phase, Unfinished, Covered
<1>4. Once'
  BY <1>0 DEF RollbackDrop, TypeOK, IInv, Once
<1> QED
  BY <1>0, <1>1, <1>2, <1>3, <1>4 DEF IInv

LEMMA PurgeFileType == ASSUME TypeOK, NEW a \in Artifacts, PurgeFile(a) PROVE TypeOK'
BY DEF PurgeFile, PurgeTargets, If, TypeOK

LEMMA PurgeFileKeeps == ASSUME IInv, NEW a \in Artifacts, PurgeFile(a) PROVE IInv'
<1>0. TypeOK'
  BY PurgeFileType DEF IInv
<1>1. Disk'
  BY <1>0 DEF PurgeFile, PurgeTargets, If, TypeOK, IInv, Knows, Phase, Disk,
         Unfinished, Covered
<1>2. Knows'
  BY <1>0 DEF PurgeFile, PurgeTargets, If, TypeOK, IInv, Knows, Unfinished
<1>3. Phase'
  BY <1>0 DEF PurgeFile, PurgeTargets, If, TypeOK, IInv, Phase, Unfinished,
         Covered
<1>4. Once'
  BY <1>0 DEF PurgeFile, PurgeTargets, If, TypeOK, IInv, Once
<1> QED
  BY <1>0, <1>1, <1>2, <1>3, <1>4 DEF IInv

LEMMA HandleTranscriptType == ASSUME TypeOK, HandleTranscript PROVE TypeOK'
BY DEF HandleTranscript, Goto, RemovesText, TypeOK

LEMMA HandleTranscriptKeeps == ASSUME IInv, HandleTranscript PROVE IInv'
<1>0. TypeOK'
  BY HandleTranscriptType DEF IInv
<1>1. Disk'
  BY <1>0 DEF HandleTranscript, Goto, RemovesText, TypeOK, IInv, Disk,
         Unfinished, Covered
<1>2. Knows'
  BY <1>0 DEF HandleTranscript, Goto, RemovesText, TypeOK, IInv, Knows,
         Unfinished
<1>3. Phase'
  BY <1>0 DEF HandleTranscript, Goto, RemovesText, TypeOK, IInv, Phase,
         Unfinished, Covered
<1>4. Once'
  BY <1>0 DEF HandleTranscript, Goto, RemovesText, TypeOK, IInv, Once
<1> QED
  BY <1>0, <1>1, <1>2, <1>3, <1>4 DEF IInv

LEMMA RecordErrorType == ASSUME TypeOK, RecordError PROVE TypeOK'
BY DEF RecordError, Persist, PersistFails, Writable, Goto, ErrorMarks,
         ErrorNames, Only, If, RemovesText, TypeOK

LEMMA RecordErrorKeeps == ASSUME IInv, RecordError PROVE IInv'
<1>0. TypeOK'
  BY RecordErrorType DEF IInv
<1>1. Disk'
  BY <1>0 DEF RecordError, Persist, PersistFails, Writable, Goto, ErrorMarks,
         ErrorNames, Only, If, RemovesText, TypeOK, IInv, Knows, Phase, Disk,
         Unfinished, Covered
<1>2. Knows'
  BY <1>0 DEF RecordError, Persist, PersistFails, Writable, Goto, ErrorMarks,
         ErrorNames, Only, If, RemovesText, TypeOK, IInv, Knows, Unfinished
<1>3. Phase'
  BY <1>0 DEF RecordError, Persist, PersistFails, Writable, Goto, ErrorMarks,
         ErrorNames, Only, If, RemovesText, TypeOK, IInv, Phase, Unfinished,
         Covered
<1>4. Once'
  BY <1>0 DEF RecordError, Persist, PersistFails, Writable, Goto, ErrorMarks,
         ErrorNames, Only, If, RemovesText, TypeOK, IInv, Once
<1> QED
  BY <1>0, <1>1, <1>2, <1>3, <1>4 DEF IInv

LEMMA RecordPurgeType == ASSUME TypeOK, RecordPurge PROVE TypeOK'
BY DEF RecordPurge, Persist, PersistFails, Writable, Goto, PurgeTargets, If,
         TypeOK

LEMMA RecordPurgeKeeps == ASSUME IInv, RecordPurge PROVE IInv'
<1>0. TypeOK'
  BY RecordPurgeType DEF IInv
<1>1. Disk'
  BY <1>0 DEF RecordPurge, Persist, PersistFails, Writable, Goto,
         PurgeTargets, If, TypeOK, IInv, Disk, Unfinished, Covered
<1>2. Knows'
  BY <1>0 DEF RecordPurge, Persist, PersistFails, Writable, Goto,
         PurgeTargets, If, TypeOK, IInv, Knows, Unfinished
<1>3. Phase'
  BY <1>0 DEF RecordPurge, Persist, PersistFails, Writable, Goto,
         PurgeTargets, If, TypeOK, IInv, Phase, Unfinished, Covered
<1>4. Once'
  BY <1>0 DEF RecordPurge, Persist, PersistFails, Writable, Goto,
         PurgeTargets, If, TypeOK, IInv, Once
<1> QED
  BY <1>0, <1>1, <1>2, <1>3, <1>4 DEF IInv

LEMMA FailsType == ASSUME TypeOK, Fails PROVE TypeOK'
BY FinalizationAssumption DEF Fails, Raise, Leave, With, Raising, If, TypeOK

LEMMA FailsKeeps == ASSUME IInv, Fails PROVE IInv'
<1>0. TypeOK'
  BY FailsType DEF IInv
<1>a. pc \in Raising \union Retry
  BY DEF Fails, If
<1>b. Raise(flags) /\ UNCHANGED <<stored, disk, pasted, past>>
  BY DEF Fails
<1>1. Disk'
  BY <1>0, <1>a, <1>b DEF Raise, Raising, Leave, With, TypeOK, IInv, Disk,
         Knows, Phase, Once, Unfinished, Covered
<1>2. Knows'
  BY <1>0, <1>a, <1>b DEF Raise, Raising, Leave, With, TypeOK, IInv, Disk,
         Knows, Phase, Once, Unfinished, Covered
<1>3. Phase'
  BY <1>0, <1>a, <1>b DEF Raise, Raising, Leave, With, TypeOK, IInv, Disk,
         Knows, Phase, Once, Unfinished, Covered
<1>4. Once'
  BY <1>0, <1>a, <1>b DEF Raise, Raising, Leave, With, TypeOK, IInv, Disk,
         Knows, Phase, Once, Unfinished, Covered
<1> QED
  BY <1>0, <1>1, <1>2, <1>3, <1>4 DEF IInv
-----------------------------------------------------------------------------
LEMMA InitIInv == Init => IInv
<1> SUFFICES ASSUME Init PROVE IInv
  OBVIOUS
<1>1. TypeOK
  BY DEF Init, TypeOK
<1>2. Disk
  BY DEF Init, Disk, Unfinished, Covered
<1>3. Knows
  BY DEF Init, Knows, Unfinished
<1>4. Phase
  BY DEF Init, Phase, Unfinished
<1>5. Once
  BY DEF Init, Once
<1> QED
  BY <1>1, <1>2, <1>3, <1>4, <1>5 DEF IInv

LEMMA LeaveType == ASSUME TypeOK, Abandon PROVE TypeOK'
BY DEF Abandon, Leave, TypeOK

(* A killed run leaves a state any next run can start from.                *)
LEMMA AbandonKeeps == ASSUME IInv, Abandon PROVE IInv'
<1>0. TypeOK'
  BY LeaveType DEF IInv
<1>1. Disk'
  BY <1>0 DEF Abandon, Leave, TypeOK, IInv, Disk, Knows, Phase, Unfinished, Covered
<1>2. Knows'
  BY <1>0 DEF Abandon, Leave, TypeOK, IInv, Knows, Unfinished
<1>3. Phase'
  BY <1>0 DEF Abandon, Leave, TypeOK, IInv, Phase, Unfinished, Covered
<1>4. Once'
  BY <1>0 DEF Abandon, Leave, TypeOK, IInv, Once
<1> QED
  BY <1>0, <1>1, <1>2, <1>3, <1>4 DEF IInv

LEMMA StutterKeeps == ASSUME IInv, UNCHANGED vars PROVE IInv'
BY DEF vars, IInv, TypeOK, Disk, Knows, Phase, Once, Unfinished, Covered

LEMMA NextKeeps == ASSUME IInv, [Next]_vars PROVE IInv'
<1>1. CASE Refuse
  BY <1>1, StutterKeeps DEF Refuse
<1>2. CASE Begin
  BY <1>2, StartRetryKeeps, StartWithoutAudioKeeps, StartKeeps DEF Begin
<1>3. CASE Pipeline
  BY <1>3,
     RecoveredKeeps, MarkFinalizingKeeps, ValidateAudioKeeps,
     NoSpeechKeeps, TranscribedKeeps, PostprocessFailsKeeps,
     StoreTranscriptKeeps, RereadKeeps, RevalidateKeeps,
     PersistIntentKeeps, InsertedKeeps, DeclinedKeeps, NotInsertedKeeps,
     InsertFailsKeeps, UnmarkInsertedKeeps, ReportNotInsertedKeeps,
     FinishRetryKeeps
     DEF Pipeline
<1>4. CASE Cleanup
  BY <1>4,
     BackupFailsKeeps, PersistCleanupJournalKeeps, RemovalFailsKeeps,
     RemovedKeeps, PersistDoneKeeps, PersistCapFailureKeeps,
     DiscardFailsKeeps, DiscardedKeeps, RollbackPairsKeeps,
     RestoredKeeps, RollbackFailsKeeps, ForgetBackupsKeeps,
     RaiseCleanupFailureKeeps, RenameBackKeeps, CompletePairKeeps,
     DropStaleBackupKeeps, BackupCleanupFileKeeps,
     RemoveBackedUpFileKeeps, DiscardBackupKeeps, RollbackDropKeeps,
     PurgeFileKeeps
     DEF Cleanup
<1>5. CASE Handle
  BY <1>5, HandleTranscriptKeeps, RecordErrorKeeps, RecordPurgeKeeps DEF Handle
<1>6. CASE Fails
  BY <1>6, FailsKeeps
<1>7. CASE Abandon
  BY <1>7, AbandonKeeps
<1>8. CASE UNCHANGED vars
  BY <1>8, StutterKeeps
<1> QED
  BY <1>1, <1>2, <1>3, <1>4, <1>5, <1>6, <1>7, <1>8 DEF Next, Step

LEMMA Invariant == Spec => []IInv
<1>1. IInv /\ [Next]_vars => IInv'
  BY NextKeeps
<1> QED
  BY InitIInv, <1>1, PTL DEF Spec

-----------------------------------------------------------------------------
(* The states of finalize_recording keep their shape.                      *)
THEOREM TypeCorrect == Spec => []TypeOK
<1>1. IInv => TypeOK
  BY DEF IInv
<1> QED
  BY Invariant, <1>1, PTL

(* However often finalize_recording is killed, fails or is resumed, the    *)
(* text of one recording is inserted at most once.                         *)
THEOREM InsertsOnce == Spec => []InsertedAtMostOnce
<1>1. IInv => InsertedAtMostOnce
  BY DEF IInv, Once, InsertedAtMostOnce
<1> QED
  BY Invariant, <1>1, PTL

(* Between backup, journal, delete, restore and any crash among them, an   *)
(* original that is gone from an unfinished recording has its backup named *)
(* by the state.                                                           *)
THEOREM JournalCoversDeleted == Spec => []DeletedIsJournaled
<1>1. IInv => DeletedIsJournaled
  BY DEF IInv, Disk, Covered, DeletedIsJournaled
<1> QED
  BY Invariant, <1>1, PTL

-----------------------------------------------------------------------------
(* What is kept of the speech.                                             *)

(* The recording had an excuse to lose its speech.                         *)
Excused == past \intersect {"terminal", "silent", "declined"} # {}

Stored == {"retry", "text"} \subseteq marks
Inserting == {"intent", "insert", "unmark", "report"}
Erring == Undoing \union {"handle", "recorderror", "cleanuperror"}

(* A run has the text it says it has written, and keeps it where no error  *)
(* is to remove it.                                                        *)
HasTexts ==
    /\ Has("written") /\ pc \in Working => text
    /\ pc \in {"recover", "mark", "validate", "transcribe", "store", "reread"} =>
         ~Has("written")
    /\ pc \in {"revalidate", "finish"} \union Inserting => Has("written")
    /\ pc \in {"finish", "report"} => Has("keepText")
    /\ Has("noOutput") => text /\ Has("keepText") /\ ~Has("inserted")
    /\ Has("preOutput") => ~Has("written")

(* What the state says of a retry and of a restore, whoever runs: a stored *)
(* transcript is retried only where no backup is left.                     *)
Retries ==
    /\ status # "finalizing" => ~Marked("retry")
    /\ Stored => ~Marked("inserted") /\ bak = {}
    /\ pc \in Main \union {"recover"} /\ ~Has("retrying") => ~Stored
    /\ pc \in Retry \union {"finish"} => Has("retrying")
    /\ Has("retrying") \/ pc = "cleanuperror" => bak = {}
    /\ pc \in Inserting \ {"intent"} => Marked("inserted")
    /\ Marked("restore") => status # "done"
    /\ pc \in {"recover", "restore"} /\ pairs # {} => Marked("restore")
    /\ (pc \in Undoing /\ after # "idle") \/ pc = "cleanuperror" => status = "finalizing"
    /\ pc = "settle" /\ Unfinished => flags \intersect {"noOutput", "preOutput"} # {}

(* What is to be deleted has a backup; a restore that failed keeps them.   *)
Backups ==
    /\ pc \in {"backup", "delete"} => backed \subseteq bak
    /\ pc = "delete" => named \intersect files \subseteq bak
    /\ pc = "discard" => status = "done"
    /\ pc \in Handler /\ Marked("restore") => bak = {} \/ Has("unsafe")

(* A run of the applet, with no excuse, keeps the audio in its handler and *)
(* the text once it makes backups.                                         *)
Applet ==
    ~Excused =>
        /\ pc # "idle" => mode # "terminal"
        /\ pc \notin {"idle", "recover"} => flags \intersect {"keepAudio", "retrying"} # {}
        /\ ~Has("cleared") /\ pc # "unmark"
        /\ pc \in {"backup", "delete", "done", "discard"} \/ backed # {} =>
             {"written", "keepText"} \subseteq flags /\ text

Lost ==
    ~Excused /\ Audio \notin files \union bak =>
        text /\ Ended /\ (pc # "idle" => Has("keepText") /\ Audio \in backed)

(* A first run has the audio until the end, or a text that is kept.        *)
Alive ==
    /\ pc \in Working \ ({"validate"} \union Retry) /\ ~Has("retrying") =>
         Audio \in files \union bak
    /\ pc \in Erring /\ Unfinished
         /\ Has("written") /\ flags \intersect {"retrying", "noOutput"} = {} =>
           Audio \in files \union bak
    /\ pc \in Erring \union {"purge"} /\ Retryable /\ ~Has("retrying") => Has("keepText")

(* What holds when no update raises after it has written ...               *)
Done ==
    ~LateRaise =>
        /\ DoneHasTranscript
        /\ status = "done" /\ pc # "idle" => Has("keepText")

(* ... and no retry fails before its intent is stored.                     *)
Retried ==
    /\ ~LateRaise /\ ~RetryMayFail
    /\ Has("retrying") /\ pc = "handle" /\ Has("written")
    => Has("keepText") \/ Marked("inserted")

SInv == IInv /\ HasTexts /\ Retries /\ Backups /\ Applet /\ Lost /\ Alive /\ Done /\ Retried

USE DEF Has, Marked, run, stored, disk, Retry, Handler, PreBackup, Working,
        Main, Undoing, RetryPCs, PCs, Flags, Marks, Modes, Stored, Inserting, Erring

-----------------------------------------------------------------------------
(* Each action, one part of the invariant after the other.                 *)

LEMMA StartRetrySpeaks == ASSUME SInv, IInv', NEW m \in Modes, StartRetry(m) PROVE SInv'
<1>1. HasTexts'
  BY DEF StartRetry, Begins, Only, Retryable, Unresolved, SInv, IInv, TypeOK,
     Disk, Knows, Phase, Once, Unfinished, HasTexts
<1>2. Retries'
  BY DEF StartRetry, Begins, Only, Retryable, Unresolved, SInv, IInv, TypeOK,
     Disk, Knows, Phase, Once, Unfinished, Retries, Ended
<1>3. Backups'
  BY DEF StartRetry, Begins, Only, Retryable, Unresolved, SInv, IInv, TypeOK,
     Disk, Knows, Phase, Once, Unfinished, Backups
<1>4. Applet'
  BY DEF StartRetry, Begins, Only, Retryable, Unresolved, SInv, IInv, TypeOK,
     Disk, Knows, Phase, Once, Unfinished, Applet, Excused
<1>5. Lost'
  BY DEF StartRetry, Begins, Only, Retryable, Unresolved, SInv, IInv, TypeOK,
     Disk, Knows, Phase, Once, Unfinished, Lost, Excused, Ended
<1>6. Alive'
  BY DEF StartRetry, Begins, Only, Retryable, Unresolved, SInv, IInv, TypeOK,
     Disk, Knows, Phase, Once, Unfinished, Alive
<1>7. Done'
  BY DEF StartRetry, Begins, Only, Retryable, Unresolved, SInv, IInv, TypeOK,
     Disk, Knows, Phase, Once, Unfinished, Done, DoneHasTranscript
<1>8. Retried'
  BY DEF StartRetry, Begins, Only, Retryable, Unresolved, SInv, IInv, TypeOK,
     Disk, Knows, Phase, Once, Unfinished, Retried
<1> QED
  BY <1>1, <1>2, <1>3, <1>4, <1>5, <1>6, <1>7, <1>8 DEF SInv

LEMMA StartWithoutAudioSpeaks == ASSUME SInv, IInv', NEW m \in Modes, StartWithoutAudio(m) PROVE SInv'
<1>1. HasTexts'
  BY DEF StartWithoutAudio, Begins, Only, Ended, Unresolved, Persist, Writable,
     SInv, IInv, TypeOK, Disk, Knows, Phase, Once, Unfinished, HasTexts
<1>2. Retries'
  BY DEF StartWithoutAudio, Begins, Only, Ended, Unresolved, Persist, Writable,
     SInv, IInv, TypeOK, Disk, Knows, Phase, Once, Unfinished, Retries,
     Retryable
<1>3. Backups'
  BY DEF StartWithoutAudio, Begins, Only, Ended, Unresolved, Persist, Writable,
     SInv, IInv, TypeOK, Disk, Knows, Phase, Once, Unfinished, Backups
<1>4. Applet'
  BY DEF StartWithoutAudio, Begins, Only, Ended, Unresolved, Persist, Writable,
     SInv, IInv, TypeOK, Disk, Knows, Phase, Once, Unfinished, Applet, Excused
<1>5. Lost'
  BY DEF StartWithoutAudio, Begins, Only, Ended, Unresolved, Persist, Writable,
     SInv, IInv, TypeOK, Disk, Knows, Phase, Once, Unfinished, Lost, Excused
<1>6. Alive'
  BY DEF StartWithoutAudio, Begins, Only, Ended, Unresolved, Persist, Writable,
     SInv, IInv, TypeOK, Disk, Knows, Phase, Once, Unfinished, Alive, Retryable
<1>7. Done'
  BY DEF StartWithoutAudio, Begins, Only, Ended, Unresolved, Persist, Writable,
     SInv, IInv, TypeOK, Disk, Knows, Phase, Once, Unfinished, Done,
     DoneHasTranscript
<1>8. Retried'
  BY DEF StartWithoutAudio, Begins, Only, Ended, Unresolved, Persist, Writable,
     SInv, IInv, TypeOK, Disk, Knows, Phase, Once, Unfinished, Retried
<1> QED
  BY <1>1, <1>2, <1>3, <1>4, <1>5, <1>6, <1>7, <1>8 DEF SInv

LEMMA StartSpeaks == ASSUME SInv, IInv', NEW m \in Modes, Start(m) PROVE SInv'
<1>1. HasTexts'
  BY DEF Start, Begins, Retryable, Ended, Unresolved, If, Only, SInv, IInv,
     TypeOK, Disk, Knows, Phase, Once, Unfinished, HasTexts
<1>2. Retries'
  BY DEF Start, Begins, Retryable, Ended, Unresolved, If, Only, SInv, IInv,
     TypeOK, Disk, Knows, Phase, Once, Unfinished, Retries
<1>3. Backups'
  BY DEF Start, Begins, Retryable, Ended, Unresolved, If, Only, SInv, IInv,
     TypeOK, Disk, Knows, Phase, Once, Unfinished, Backups
<1>4. Applet'
  BY DEF Start, Begins, Retryable, Ended, Unresolved, If, Only, SInv, IInv,
     TypeOK, Disk, Knows, Phase, Once, Unfinished, Applet, Excused
<1>5. Lost'
  BY DEF Start, Begins, Retryable, Ended, Unresolved, If, Only, SInv, IInv,
     TypeOK, Disk, Knows, Phase, Once, Unfinished, Lost, Excused
<1>6. Alive'
  BY DEF Start, Begins, Retryable, Ended, Unresolved, If, Only, SInv, IInv,
     TypeOK, Disk, Knows, Phase, Once, Unfinished, Alive
<1>7. Done'
  BY DEF Start, Begins, Retryable, Ended, Unresolved, If, Only, SInv, IInv,
     TypeOK, Disk, Knows, Phase, Once, Unfinished, Done, DoneHasTranscript
<1>8. Retried'
  BY DEF Start, Begins, Retryable, Ended, Unresolved, If, Only, SInv, IInv,
     TypeOK, Disk, Knows, Phase, Once, Unfinished, Retried
<1> QED
  BY <1>1, <1>2, <1>3, <1>4, <1>5, <1>6, <1>7, <1>8 DEF SInv

LEMMA RecoveredSpeaks == ASSUME SInv, IInv', Recovered PROVE SInv'
<1>1. HasTexts'
  BY DEF Recovered, With, If, SInv, IInv, TypeOK, Disk, Knows, Phase, Once,
     Unfinished, HasTexts
<1>2. Retries'
  BY DEF Recovered, With, If, SInv, IInv, TypeOK, Disk, Knows, Phase, Once,
     Unfinished, Retries, Retryable, Ended
<1>3. Backups'
  BY DEF Recovered, With, If, SInv, IInv, TypeOK, Disk, Knows, Phase, Once,
     Unfinished, Backups
<1>4. Applet'
  BY DEF Recovered, With, If, SInv, IInv, TypeOK, Disk, Knows, Phase, Once,
     Unfinished, Applet, Excused
<1>5. Lost'
  BY DEF Recovered, With, If, SInv, IInv, TypeOK, Disk, Knows, Phase, Once,
     Unfinished, Lost, Excused, Ended
<1>6. Alive'
  BY DEF Recovered, With, If, SInv, IInv, TypeOK, Disk, Knows, Phase, Once,
     Unfinished, Alive, Retryable
<1>7. Done'
  BY DEF Recovered, With, If, SInv, IInv, TypeOK, Disk, Knows, Phase, Once,
     Unfinished, Done, DoneHasTranscript
<1>8. Retried'
  BY DEF Recovered, With, If, SInv, IInv, TypeOK, Disk, Knows, Phase, Once,
     Unfinished, Retried
<1> QED
  BY <1>1, <1>2, <1>3, <1>4, <1>5, <1>6, <1>7, <1>8 DEF SInv

LEMMA MarkFinalizingSpeaks == ASSUME SInv, IInv', MarkFinalizing PROVE SInv'
<1>1. HasTexts'
  BY DEF MarkFinalizing, With, If, Only, Update, Persist, PersistFails, Raise,
     Leave, Writable, SInv, IInv, TypeOK, Disk, Knows, Phase, Once, Unfinished,
     HasTexts
<1>2. Retries'
  BY DEF MarkFinalizing, With, If, Only, Update, Persist, PersistFails, Raise,
     Leave, Writable, SInv, IInv, TypeOK, Disk, Knows, Phase, Once, Unfinished,
     Retries, Retryable, Ended
<1>3. Backups'
  BY DEF MarkFinalizing, With, If, Only, Update, Persist, PersistFails, Raise,
     Leave, Writable, SInv, IInv, TypeOK, Disk, Knows, Phase, Once, Unfinished,
     Backups
<1>4. Applet'
  BY DEF MarkFinalizing, With, If, Only, Update, Persist, PersistFails, Raise,
     Leave, Writable, SInv, IInv, TypeOK, Disk, Knows, Phase, Once, Unfinished,
     Applet, Excused
<1>5. Lost'
  BY DEF MarkFinalizing, With, If, Only, Update, Persist, PersistFails, Raise,
     Leave, Writable, SInv, IInv, TypeOK, Disk, Knows, Phase, Once, Unfinished,
     Lost, Excused, Ended
<1>6. Alive'
  BY DEF MarkFinalizing, With, If, Only, Update, Persist, PersistFails, Raise,
     Leave, Writable, SInv, IInv, TypeOK, Disk, Knows, Phase, Once, Unfinished,
     Alive, Retryable
<1>7. Done'
  BY DEF MarkFinalizing, With, If, Only, Update, Persist, PersistFails, Raise,
     Leave, Writable, SInv, IInv, TypeOK, Disk, Knows, Phase, Once, Unfinished,
     Done, DoneHasTranscript
<1>8. Retried'
  BY DEF MarkFinalizing, With, If, Only, Update, Persist, PersistFails, Raise,
     Leave, Writable, SInv, IInv, TypeOK, Disk, Knows, Phase, Once, Unfinished,
     Retried
<1> QED
  BY <1>1, <1>2, <1>3, <1>4, <1>5, <1>6, <1>7, <1>8 DEF SInv

LEMMA ValidateAudioSpeaks == ASSUME SInv, IInv', ValidateAudio PROVE SInv'
<1>1. HasTexts'
  BY DEF ValidateAudio, With, SInv, IInv, TypeOK, Disk, Knows, Phase, Once,
     Unfinished, HasTexts
<1>2. Retries'
  BY DEF ValidateAudio, With, SInv, IInv, TypeOK, Disk, Knows, Phase, Once,
     Unfinished, Retries, Retryable, Ended
<1>3. Backups'
  BY DEF ValidateAudio, With, SInv, IInv, TypeOK, Disk, Knows, Phase, Once,
     Unfinished, Backups
<1>4. Applet'
  BY DEF ValidateAudio, With, SInv, IInv, TypeOK, Disk, Knows, Phase, Once,
     Unfinished, Applet, Excused
<1>5. Lost'
  BY DEF ValidateAudio, With, SInv, IInv, TypeOK, Disk, Knows, Phase, Once,
     Unfinished, Lost, Excused, Ended
<1>6. Alive'
  BY DEF ValidateAudio, With, SInv, IInv, TypeOK, Disk, Knows, Phase, Once,
     Unfinished, Alive, Retryable
<1>7. Done'
  BY DEF ValidateAudio, With, SInv, IInv, TypeOK, Disk, Knows, Phase, Once,
     Unfinished, Done, DoneHasTranscript
<1>8. Retried'
  BY DEF ValidateAudio, With, SInv, IInv, TypeOK, Disk, Knows, Phase, Once,
     Unfinished, Retried
<1> QED
  BY <1>1, <1>2, <1>3, <1>4, <1>5, <1>6, <1>7, <1>8 DEF SInv

LEMMA NoSpeechSpeaks == ASSUME SInv, IInv', NoSpeech PROVE SInv'
<1>1. HasTexts'
  BY DEF NoSpeech, ToBackup, With, If, SInv, IInv, TypeOK, Disk, Knows, Phase,
     Once, Unfinished, HasTexts
<1>2. Retries'
  BY DEF NoSpeech, ToBackup, With, If, SInv, IInv, TypeOK, Disk, Knows, Phase,
     Once, Unfinished, Retries, Retryable, Ended
<1>3. Backups'
  BY DEF NoSpeech, ToBackup, With, If, SInv, IInv, TypeOK, Disk, Knows, Phase,
     Once, Unfinished, Backups
<1>4. Applet'
  BY DEF NoSpeech, ToBackup, With, If, SInv, IInv, TypeOK, Disk, Knows, Phase,
     Once, Unfinished, Applet, Excused
<1>5. Lost'
  BY DEF NoSpeech, ToBackup, With, If, SInv, IInv, TypeOK, Disk, Knows, Phase,
     Once, Unfinished, Lost, Excused, Ended
<1>6. Alive'
  BY DEF NoSpeech, ToBackup, With, If, SInv, IInv, TypeOK, Disk, Knows, Phase,
     Once, Unfinished, Alive, Retryable
<1>7. Done'
  BY DEF NoSpeech, ToBackup, With, If, SInv, IInv, TypeOK, Disk, Knows, Phase,
     Once, Unfinished, Done, DoneHasTranscript
<1>8. Retried'
  BY DEF NoSpeech, ToBackup, With, If, SInv, IInv, TypeOK, Disk, Knows, Phase,
     Once, Unfinished, Retried
<1> QED
  BY <1>1, <1>2, <1>3, <1>4, <1>5, <1>6, <1>7, <1>8 DEF SInv

LEMMA TranscribedSpeaks == ASSUME SInv, IInv', Transcribed PROVE SInv'
<1>1. HasTexts'
  BY DEF Transcribed, Goto, SInv, IInv, TypeOK, Disk, Knows, Phase, Once,
     Unfinished, HasTexts
<1>2. Retries'
  BY DEF Transcribed, Goto, SInv, IInv, TypeOK, Disk, Knows, Phase, Once,
     Unfinished, Retries, Retryable, Ended
<1>3. Backups'
  BY DEF Transcribed, Goto, SInv, IInv, TypeOK, Disk, Knows, Phase, Once,
     Unfinished, Backups
<1>4. Applet'
  BY DEF Transcribed, Goto, SInv, IInv, TypeOK, Disk, Knows, Phase, Once,
     Unfinished, Applet, Excused
<1>5. Lost'
  BY DEF Transcribed, Goto, SInv, IInv, TypeOK, Disk, Knows, Phase, Once,
     Unfinished, Lost, Excused, Ended
<1>6. Alive'
  BY DEF Transcribed, Goto, SInv, IInv, TypeOK, Disk, Knows, Phase, Once,
     Unfinished, Alive, Retryable
<1>7. Done'
  BY DEF Transcribed, Goto, SInv, IInv, TypeOK, Disk, Knows, Phase, Once,
     Unfinished, Done, DoneHasTranscript
<1>8. Retried'
  BY DEF Transcribed, Goto, SInv, IInv, TypeOK, Disk, Knows, Phase, Once,
     Unfinished, Retried
<1> QED
  BY <1>1, <1>2, <1>3, <1>4, <1>5, <1>6, <1>7, <1>8 DEF SInv

LEMMA PostprocessFailsSpeaks == ASSUME SInv, IInv', PostprocessFails PROVE SInv'
<1>1. HasTexts'
  BY DEF PostprocessFails, With, If, SInv, IInv, TypeOK, Disk, Knows, Phase,
     Once, Unfinished, HasTexts
<1>2. Retries'
  BY DEF PostprocessFails, With, If, SInv, IInv, TypeOK, Disk, Knows, Phase,
     Once, Unfinished, Retries, Retryable, Ended
<1>3. Backups'
  BY DEF PostprocessFails, With, If, SInv, IInv, TypeOK, Disk, Knows, Phase,
     Once, Unfinished, Backups
<1>4. Applet'
  BY DEF PostprocessFails, With, If, SInv, IInv, TypeOK, Disk, Knows, Phase,
     Once, Unfinished, Applet, Excused
<1>5. Lost'
  BY DEF PostprocessFails, With, If, SInv, IInv, TypeOK, Disk, Knows, Phase,
     Once, Unfinished, Lost, Excused, Ended
<1>6. Alive'
  BY DEF PostprocessFails, With, If, SInv, IInv, TypeOK, Unfinished, Alive,
     Retryable, Retries, Ended, Phase
<1>7. Done'
  BY DEF PostprocessFails, With, If, SInv, IInv, TypeOK, Disk, Knows, Phase,
     Once, Unfinished, Done, DoneHasTranscript
<1>8. Retried'
  BY DEF PostprocessFails, With, If, SInv, IInv, TypeOK, Disk, Knows, Phase,
     Once, Unfinished, Retried
<1> QED
  BY <1>1, <1>2, <1>3, <1>4, <1>5, <1>6, <1>7, <1>8 DEF SInv

LEMMA StoreTranscriptSpeaks == ASSUME SInv, IInv', StoreTranscript PROVE SInv'
<1>1. HasTexts'
  BY DEF StoreTranscript, ToBackup, With, If, Declines, SInv, IInv, TypeOK,
     Disk, Knows, Phase, Once, Unfinished, HasTexts
<1>2. Retries'
  BY DEF StoreTranscript, ToBackup, With, If, Declines, SInv, IInv, TypeOK,
     Disk, Knows, Phase, Once, Unfinished, Retries, Retryable, Ended
<1>3. Backups'
  BY DEF StoreTranscript, ToBackup, With, If, Declines, SInv, IInv, TypeOK,
     Disk, Knows, Phase, Once, Unfinished, Backups
<1>4. Applet'
  BY DEF StoreTranscript, ToBackup, With, If, Declines, SInv, IInv, TypeOK,
     Disk, Knows, Phase, Once, Unfinished, Applet, Excused
<1>5. Lost'
  BY DEF StoreTranscript, ToBackup, With, If, Declines, SInv, IInv, TypeOK,
     Disk, Knows, Phase, Once, Unfinished, Lost, Excused, Ended
<1>6. Alive'
  BY DEF StoreTranscript, ToBackup, With, If, Declines, SInv, IInv, TypeOK,
     Disk, Knows, Phase, Once, Unfinished, Alive, Retryable
<1>7. Done'
  BY DEF StoreTranscript, ToBackup, With, If, Declines, SInv, IInv, TypeOK,
     Disk, Knows, Phase, Once, Unfinished, Done, DoneHasTranscript
<1>8. Retried'
  BY DEF StoreTranscript, ToBackup, With, If, Declines, SInv, IInv, TypeOK,
     Disk, Knows, Phase, Once, Unfinished, Retried
<1> QED
  BY <1>1, <1>2, <1>3, <1>4, <1>5, <1>6, <1>7, <1>8 DEF SInv

LEMMA RereadSpeaks == ASSUME SInv, IInv', Reread PROVE SInv'
<1>1. HasTexts'
  BY DEF Reread, With, SInv, IInv, TypeOK, Disk, Knows, Phase, Once, Unfinished,
     HasTexts
<1>2. Retries'
  BY DEF Reread, With, SInv, IInv, TypeOK, Disk, Knows, Phase, Once, Unfinished,
     Retries, Retryable, Ended
<1>3. Backups'
  BY DEF Reread, With, SInv, IInv, TypeOK, Disk, Knows, Phase, Once, Unfinished,
     Backups
<1>4. Applet'
  BY DEF Reread, With, SInv, IInv, TypeOK, Disk, Knows, Phase, Once, Unfinished,
     Applet, Excused
<1>5. Lost'
  BY DEF Reread, With, SInv, IInv, TypeOK, Disk, Knows, Phase, Once, Unfinished,
     Lost, Excused, Ended
<1>6. Alive'
  BY DEF Reread, With, SInv, IInv, TypeOK, Disk, Knows, Phase, Once, Unfinished,
     Alive, Retryable
<1>7. Done'
  BY DEF Reread, With, SInv, IInv, TypeOK, Disk, Knows, Phase, Once, Unfinished,
     Done, DoneHasTranscript
<1>8. Retried'
  BY DEF Reread, With, SInv, IInv, TypeOK, Disk, Knows, Phase, Once, Unfinished,
     Retried
<1> QED
  BY <1>1, <1>2, <1>3, <1>4, <1>5, <1>6, <1>7, <1>8 DEF SInv

LEMMA RevalidateSpeaks == ASSUME SInv, IInv', Revalidate PROVE SInv'
<1>1. HasTexts'
  BY DEF Revalidate, Goto, With, SInv, IInv, TypeOK, Disk, Knows, Phase, Once,
     Unfinished, HasTexts
<1>2. Retries'
  BY DEF Revalidate, Goto, With, SInv, IInv, TypeOK, Disk, Knows, Phase, Once,
     Unfinished, Retries, Retryable, Ended
<1>3. Backups'
  BY DEF Revalidate, Goto, With, SInv, IInv, TypeOK, Disk, Knows, Phase, Once,
     Unfinished, Backups
<1>4. Applet'
  BY DEF Revalidate, Goto, With, SInv, IInv, TypeOK, Disk, Knows, Phase, Once,
     Unfinished, Applet, Excused
<1>5. Lost'
  BY DEF Revalidate, Goto, With, SInv, IInv, TypeOK, Disk, Knows, Phase, Once,
     Unfinished, Lost, Excused, Ended
<1>6. Alive'
  BY DEF Revalidate, Goto, With, SInv, IInv, TypeOK, Unfinished, Alive,
     Retryable, Retries, Ended, Phase
<1>7. Done'
  BY DEF Revalidate, Goto, With, SInv, IInv, TypeOK, Disk, Knows, Phase, Once,
     Unfinished, Done, DoneHasTranscript
<1>8. Retried'
  BY DEF Revalidate, Goto, With, SInv, IInv, TypeOK, Disk, Knows, Phase, Once,
     Unfinished, Retried
<1> QED
  BY <1>1, <1>2, <1>3, <1>4, <1>5, <1>6, <1>7, <1>8 DEF SInv

LEMMA PersistIntentSpeaks == ASSUME SInv, IInv', PersistIntent PROVE SInv'
<1>1. HasTexts'
  BY DEF PersistIntent, Persist, PersistFails, Raise, Leave, With, If, Writable,
     SInv, IInv, TypeOK, Disk, Knows, Phase, Once, Unfinished, HasTexts
<1>2. Retries'
  BY DEF PersistIntent, Persist, PersistFails, Raise, Leave, With, If, Writable,
     SInv, IInv, TypeOK, Disk, Knows, Phase, Once, Unfinished, Retries,
     Retryable, Ended
<1>3. Backups'
  BY DEF PersistIntent, Persist, PersistFails, Raise, Leave, With, If, Writable,
     SInv, IInv, TypeOK, Unfinished, Backups, Retries, Retryable, Ended, Phase
<1>4. Applet'
  BY DEF PersistIntent, Persist, PersistFails, Raise, Leave, With, If, Writable,
     SInv, IInv, TypeOK, Disk, Knows, Phase, Once, Unfinished, Applet, Excused
<1>5. Lost'
  BY DEF PersistIntent, Persist, PersistFails, Raise, Leave, With, If, Writable,
     SInv, IInv, TypeOK, Disk, Knows, Phase, Once, Unfinished, Lost, Excused,
     Ended
<1>6. Alive'
  BY DEF PersistIntent, Persist, PersistFails, Raise, Leave, With, If, Writable,
     SInv, IInv, TypeOK, Unfinished, Alive, Retryable, Retries, Ended, Phase
<1>7. Done'
  BY DEF PersistIntent, Persist, PersistFails, Raise, Leave, With, If, Writable,
     SInv, IInv, TypeOK, Disk, Knows, Phase, Once, Unfinished, Done,
     DoneHasTranscript
<1>8. Retried'
  BY DEF PersistIntent, Persist, PersistFails, Raise, Leave, With, If, Writable,
     SInv, IInv, TypeOK, Disk, Knows, Phase, Once, Unfinished, Retried
<1> QED
  BY <1>1, <1>2, <1>3, <1>4, <1>5, <1>6, <1>7, <1>8 DEF SInv

LEMMA InsertedSpeaks == ASSUME SInv, IInv', Inserted PROVE SInv'
<1>1. HasTexts'
  BY DEF Inserted, Goto, ToBackup, With, If, SInv, IInv, TypeOK, Disk, Knows,
     Phase, Once, Unfinished, HasTexts
<1>2. Retries'
  BY DEF Inserted, Goto, ToBackup, With, If, SInv, IInv, TypeOK, Disk, Knows,
     Phase, Once, Unfinished, Retries, Retryable, Ended
<1>3. Backups'
  BY DEF Inserted, Goto, ToBackup, With, If, SInv, IInv, TypeOK, Unfinished,
     Backups, HasTexts, Retries, Retryable, Ended, Phase, Knows
<1>4. Applet'
  BY DEF Inserted, Goto, ToBackup, With, If, SInv, IInv, TypeOK, Unfinished,
     Applet, Excused, HasTexts, Retries, Retryable, Ended, Phase, Knows, Disk,
     Once
<1>5. Lost'
  BY DEF Inserted, Goto, ToBackup, With, If, SInv, IInv, TypeOK, Disk, Knows,
     Phase, Once, Unfinished, Lost, Excused, Ended
<1>6. Alive'
  BY DEF Inserted, Goto, ToBackup, With, If, SInv, IInv, TypeOK, Disk, Knows,
     Phase, Once, Unfinished, Alive, Retryable
<1>7. Done'
  BY DEF Inserted, Goto, ToBackup, With, If, SInv, IInv, TypeOK, Disk, Knows,
     Phase, Once, Unfinished, Done, DoneHasTranscript
<1>8. Retried'
  BY DEF Inserted, Goto, ToBackup, With, If, SInv, IInv, TypeOK, Disk, Knows,
     Phase, Once, Unfinished, Retried
<1> QED
  BY <1>1, <1>2, <1>3, <1>4, <1>5, <1>6, <1>7, <1>8 DEF SInv

LEMMA DeclinedSpeaks == ASSUME SInv, IInv', Declined PROVE SInv'
<1>1. HasTexts'
  BY DEF Declined, With, Declines, SInv, IInv, TypeOK, Disk, Knows, Phase, Once,
     Unfinished, HasTexts
<1>2. Retries'
  BY DEF Declined, With, Declines, SInv, IInv, TypeOK, Disk, Knows, Phase, Once,
     Unfinished, Retries, Retryable, Ended
<1>3. Backups'
  BY DEF Declined, With, Declines, SInv, IInv, TypeOK, Disk, Knows, Phase, Once,
     Unfinished, Backups
<1>4. Applet'
  BY DEF Declined, With, Declines, SInv, IInv, TypeOK, Disk, Knows, Phase, Once,
     Unfinished, Applet, Excused
<1>5. Lost'
  BY DEF Declined, With, Declines, SInv, IInv, TypeOK, Disk, Knows, Phase, Once,
     Unfinished, Lost, Excused, Ended
<1>6. Alive'
  BY DEF Declined, With, Declines, SInv, IInv, TypeOK, Disk, Knows, Phase, Once,
     Unfinished, Alive, Retryable
<1>7. Done'
  BY DEF Declined, With, Declines, SInv, IInv, TypeOK, Disk, Knows, Phase, Once,
     Unfinished, Done, DoneHasTranscript
<1>8. Retried'
  BY DEF Declined, With, Declines, SInv, IInv, TypeOK, Disk, Knows, Phase, Once,
     Unfinished, Retried
<1> QED
  BY <1>1, <1>2, <1>3, <1>4, <1>5, <1>6, <1>7, <1>8 DEF SInv

LEMMA NotInsertedSpeaks == ASSUME SInv, IInv', NotInserted PROVE SInv'
<1>1. HasTexts'
  BY DEF NotInserted, With, SInv, IInv, TypeOK, Disk, Knows, Phase, Once,
     Unfinished, HasTexts
<1>2. Retries'
  BY DEF NotInserted, With, SInv, IInv, TypeOK, Disk, Knows, Phase, Once,
     Unfinished, Retries, Retryable, Ended
<1>3. Backups'
  BY DEF NotInserted, With, SInv, IInv, TypeOK, Disk, Knows, Phase, Once,
     Unfinished, Backups
<1>4. Applet'
  BY DEF NotInserted, With, SInv, IInv, TypeOK, Disk, Knows, Phase, Once,
     Unfinished, Applet, Excused
<1>5. Lost'
  BY DEF NotInserted, With, SInv, IInv, TypeOK, Disk, Knows, Phase, Once,
     Unfinished, Lost, Excused, Ended
<1>6. Alive'
  BY DEF NotInserted, With, SInv, IInv, TypeOK, Disk, Knows, Phase, Once,
     Unfinished, Alive, Retryable
<1>7. Done'
  BY DEF NotInserted, With, SInv, IInv, TypeOK, Disk, Knows, Phase, Once,
     Unfinished, Done, DoneHasTranscript
<1>8. Retried'
  BY DEF NotInserted, With, SInv, IInv, TypeOK, Disk, Knows, Phase, Once,
     Unfinished, Retried
<1> QED
  BY <1>1, <1>2, <1>3, <1>4, <1>5, <1>6, <1>7, <1>8 DEF SInv

LEMMA InsertFailsSpeaks == ASSUME SInv, IInv', InsertFails PROVE SInv'
<1>1. HasTexts'
  BY DEF InsertFails, Goto, SInv, IInv, TypeOK, Disk, Knows, Phase, Once,
     Unfinished, HasTexts
<1>2. Retries'
  BY DEF InsertFails, Goto, SInv, IInv, TypeOK, Disk, Knows, Phase, Once,
     Unfinished, Retries, Retryable, Ended
<1>3. Backups'
  BY DEF InsertFails, Goto, SInv, IInv, TypeOK, Unfinished, Backups, Retries,
     Retryable, Ended, Phase
<1>4. Applet'
  BY DEF InsertFails, Goto, SInv, IInv, TypeOK, Disk, Knows, Phase, Once,
     Unfinished, Applet, Excused
<1>5. Lost'
  BY DEF InsertFails, Goto, SInv, IInv, TypeOK, Disk, Knows, Phase, Once,
     Unfinished, Lost, Excused, Ended
<1>6. Alive'
  BY DEF InsertFails, Goto, SInv, IInv, TypeOK, Disk, Knows, Phase, Once,
     Unfinished, Alive, Retryable
<1>7. Done'
  BY DEF InsertFails, Goto, SInv, IInv, TypeOK, Disk, Knows, Phase, Once,
     Unfinished, Done, DoneHasTranscript
<1>8. Retried'
  BY DEF InsertFails, Goto, SInv, IInv, TypeOK, Disk, Knows, Phase, Once,
     Unfinished, Retried
<1> QED
  BY <1>1, <1>2, <1>3, <1>4, <1>5, <1>6, <1>7, <1>8 DEF SInv

LEMMA UnmarkInsertedSpeaks == ASSUME SInv, IInv', UnmarkInserted PROVE SInv'
<1>1. HasTexts'
  BY DEF UnmarkInserted, Update, Persist, PersistFails, Raise, Leave, With, If,
     Writable, SInv, IInv, TypeOK, Disk, Knows, Phase, Once, Unfinished, HasTexts
<1>2. Retries'
  BY DEF UnmarkInserted, Update, Persist, PersistFails, Raise, Leave, With, If,
     Writable, SInv, IInv, TypeOK, Disk, Knows, Phase, Once, Unfinished,
     Retries, Retryable, Ended
<1>3. Backups'
  BY DEF UnmarkInserted, Update, Persist, PersistFails, Raise, Leave, With, If,
     Writable, SInv, IInv, TypeOK, Unfinished, Backups, HasTexts, Retries,
     Retryable, Ended, Phase, Knows
<1>4. Applet'
  <2>1. pc = "unmark" /\ past' = past /\ Applet
    BY DEF UnmarkInserted, SInv
  <2>2. Excused' /\ (Excused <=> Excused')
    BY <2>1 DEF Applet, Excused
  <2> QED
    BY <2>2 DEF Applet
<1>5. Lost'
  BY DEF UnmarkInserted, Update, Persist, PersistFails, Raise, Leave, With, If,
     Writable, SInv, IInv, TypeOK, Disk, Knows, Phase, Once, Unfinished, Lost,
     Excused, Ended
<1>6. Alive'
  BY DEF UnmarkInserted, Update, Persist, PersistFails, Raise, Leave, With, If,
     Writable, SInv, IInv, TypeOK, Unfinished, Alive, Retryable, Retries, Ended,
     Phase
<1>7. Done'
  BY DEF UnmarkInserted, Update, Persist, PersistFails, Raise, Leave, With, If,
     Writable, SInv, IInv, TypeOK, Disk, Knows, Phase, Once, Unfinished, Done,
     DoneHasTranscript
<1>8. Retried'
  BY DEF UnmarkInserted, Update, Persist, PersistFails, Raise, Leave, With, If,
     Writable, SInv, IInv, TypeOK, Unfinished, Retried, Retries, Retryable,
     Ended, Phase
<1> QED
  BY <1>1, <1>2, <1>3, <1>4, <1>5, <1>6, <1>7, <1>8 DEF SInv

LEMMA ReportNotInsertedSpeaks == ASSUME SInv, IInv', ReportNotInserted PROVE SInv'
<1>1. HasTexts'
  BY DEF ReportNotInserted, Persist, PersistFails, Raise, Leave, With, Writable,
     SInv, IInv, TypeOK, Disk, Knows, Phase, Once, Unfinished, HasTexts
<1>2. Retries'
  BY DEF ReportNotInserted, Persist, PersistFails, Raise, Leave, With, Writable,
     SInv, IInv, TypeOK, Disk, Knows, Phase, Once, Unfinished, Retries,
     Retryable, Ended
<1>3. Backups'
  BY DEF ReportNotInserted, Persist, PersistFails, Raise, Leave, With, Writable,
     SInv, IInv, TypeOK, Unfinished, Backups, Retries, Retryable, Ended, Phase
<1>4. Applet'
  BY DEF ReportNotInserted, Persist, PersistFails, Raise, Leave, With, Writable,
     SInv, IInv, TypeOK, Disk, Knows, Phase, Once, Unfinished, Applet, Excused
<1>5. Lost'
  BY DEF ReportNotInserted, Persist, PersistFails, Raise, Leave, With, Writable,
     SInv, IInv, TypeOK, Disk, Knows, Phase, Once, Unfinished, Lost, Excused,
     Ended
<1>6. Alive'
  BY DEF ReportNotInserted, Persist, PersistFails, Raise, Leave, With, Writable,
     SInv, IInv, TypeOK, Unfinished, Alive, Retryable, HasTexts, Retries, Ended,
     Phase
<1>7. Done'
  BY DEF ReportNotInserted, Persist, PersistFails, Raise, Leave, With, Writable,
     SInv, IInv, TypeOK, Disk, Knows, Phase, Once, Unfinished, Done,
     DoneHasTranscript
<1>8. Retried'
  BY DEF ReportNotInserted, Persist, PersistFails, Raise, Leave, With, Writable,
     SInv, IInv, TypeOK, Unfinished, Retried, HasTexts, Retries, Retryable, Ended,
     Phase
<1> QED
  BY <1>1, <1>2, <1>3, <1>4, <1>5, <1>6, <1>7, <1>8 DEF SInv

LEMMA FinishRetrySpeaks == ASSUME SInv, IInv', FinishRetry PROVE SInv'
<1>1. HasTexts'
  BY DEF FinishRetry, Persist, PersistFails, Raise, Leave, With, Only, Writable,
     SInv, IInv, TypeOK, Disk, Knows, Phase, Once, Unfinished, HasTexts
<1>2. Retries'
  BY DEF FinishRetry, Persist, PersistFails, Raise, Leave, With, Only, Writable,
     SInv, IInv, TypeOK, Disk, Knows, Phase, Once, Unfinished, Retries,
     Retryable, Ended
<1>3. Backups'
  BY DEF FinishRetry, Persist, PersistFails, Raise, Leave, With, Only, Writable,
     SInv, IInv, TypeOK, Unfinished, Backups, Retries, Retryable, Ended, Phase
<1>4. Applet'
  BY DEF FinishRetry, Persist, PersistFails, Raise, Leave, With, Only, Writable,
     SInv, IInv, TypeOK, Disk, Knows, Phase, Once, Unfinished, Applet, Excused
<1>5. Lost'
  BY DEF FinishRetry, Persist, PersistFails, Raise, Leave, With, Only, Writable,
     SInv, IInv, TypeOK, Disk, Knows, Phase, Once, Unfinished, Lost, Excused,
     Ended
<1>6. Alive'
  BY DEF FinishRetry, Persist, PersistFails, Raise, Leave, With, Only, Writable,
     SInv, IInv, TypeOK, Unfinished, Alive, Retryable, Retries, Ended, Phase
<1>7. Done'
  BY DEF FinishRetry, Persist, PersistFails, Raise, Leave, With, Only, Writable,
     SInv, IInv, TypeOK, Unfinished, Done, DoneHasTranscript, HasTexts, Retries,
     Retryable, Ended, Phase
<1>8. Retried'
  BY DEF FinishRetry, Persist, PersistFails, Raise, Leave, With, Only, Writable,
     SInv, IInv, TypeOK, Unfinished, Retried, HasTexts, Retries, Retryable, Ended,
     Phase
<1> QED
  BY <1>1, <1>2, <1>3, <1>4, <1>5, <1>6, <1>7, <1>8 DEF SInv

LEMMA BackupFailsSpeaks == ASSUME SInv, IInv', BackupFails PROVE SInv'
<1>1. HasTexts'
  BY DEF BackupFails, Rollback, SInv, IInv, TypeOK, Disk, Knows, Phase, Once,
     Unfinished, HasTexts
<1>2. Retries'
  BY DEF BackupFails, Rollback, SInv, IInv, TypeOK, Disk, Knows, Phase, Once,
     Unfinished, Retries, Retryable, Ended
<1>3. Backups'
  BY DEF BackupFails, Rollback, SInv, IInv, TypeOK, Disk, Knows, Phase, Once,
     Unfinished, Backups
<1>4. Applet'
  BY DEF BackupFails, Rollback, SInv, IInv, TypeOK, Disk, Knows, Phase, Once,
     Unfinished, Applet, Excused
<1>5. Lost'
  BY DEF BackupFails, Rollback, SInv, IInv, TypeOK, Disk, Knows, Phase, Once,
     Unfinished, Lost, Excused, Ended
<1>6. Alive'
  BY DEF BackupFails, Rollback, SInv, IInv, TypeOK, Disk, Knows, Phase, Once,
     Unfinished, Alive, Retryable
<1>7. Done'
  BY DEF BackupFails, Rollback, SInv, IInv, TypeOK, Disk, Knows, Phase, Once,
     Unfinished, Done, DoneHasTranscript
<1>8. Retried'
  BY DEF BackupFails, Rollback, SInv, IInv, TypeOK, Disk, Knows, Phase, Once,
     Unfinished, Retried
<1> QED
  BY <1>1, <1>2, <1>3, <1>4, <1>5, <1>6, <1>7, <1>8 DEF SInv

LEMMA PersistCleanupJournalSpeaks == ASSUME SInv, IInv', PersistCleanupJournal PROVE SInv'
<1>1. HasTexts'
  BY DEF PersistCleanupJournal, Goto, Update, Persist, PersistFails, Raise,
     Leave, With, Writable, SInv, IInv, TypeOK, Disk, Knows, Phase, Once,
     Unfinished, HasTexts
<1>2. Retries'
  BY DEF PersistCleanupJournal, Goto, Update, Persist, PersistFails, Raise,
     Leave, With, Writable, SInv, IInv, TypeOK, Disk, Knows, Phase, Once,
     Unfinished, Retries, Retryable, Ended
<1>3. Backups'
  BY DEF PersistCleanupJournal, Goto, Update, Persist, PersistFails, Raise,
     Leave, With, Writable, SInv, IInv, TypeOK, Disk, Knows, Phase, Once,
     Unfinished, Backups
<1>4. Applet'
  BY DEF PersistCleanupJournal, Goto, Update, Persist, PersistFails, Raise,
     Leave, With, Writable, SInv, IInv, TypeOK, Disk, Knows, Phase, Once,
     Unfinished, Applet, Excused
<1>5. Lost'
  BY DEF PersistCleanupJournal, Goto, Update, Persist, PersistFails, Raise,
     Leave, With, Writable, SInv, IInv, TypeOK, Disk, Knows, Phase, Once,
     Unfinished, Lost, Excused, Ended
<1>6. Alive'
  BY DEF PersistCleanupJournal, Goto, Update, Persist, PersistFails, Raise,
     Leave, With, Writable, SInv, IInv, TypeOK, Unfinished, Alive, Retryable,
     Retries, Ended, Phase
<1>7. Done'
  BY DEF PersistCleanupJournal, Goto, Update, Persist, PersistFails, Raise,
     Leave, With, Writable, SInv, IInv, TypeOK, Disk, Knows, Phase, Once,
     Unfinished, Done, DoneHasTranscript
<1>8. Retried'
  BY DEF PersistCleanupJournal, Goto, Update, Persist, PersistFails, Raise,
     Leave, With, Writable, SInv, IInv, TypeOK, Disk, Knows, Phase, Once,
     Unfinished, Retried
<1> QED
  BY <1>1, <1>2, <1>3, <1>4, <1>5, <1>6, <1>7, <1>8 DEF SInv

LEMMA RemovalFailsSpeaks == ASSUME SInv, IInv', RemovalFails PROVE SInv'
<1>1. HasTexts'
  BY DEF RemovalFails, Rollback, If, SInv, IInv, TypeOK, Disk, Knows, Phase,
     Once, Unfinished, HasTexts
<1>2. Retries'
  BY DEF RemovalFails, Rollback, If, SInv, IInv, TypeOK, Disk, Knows, Phase,
     Once, Unfinished, Retries, Retryable, Ended
<1>3. Backups'
  BY DEF RemovalFails, Rollback, If, SInv, IInv, TypeOK, Disk, Knows, Phase,
     Once, Unfinished, Backups
<1>4. Applet'
  BY DEF RemovalFails, Rollback, If, SInv, IInv, TypeOK, Disk, Knows, Phase,
     Once, Unfinished, Applet, Excused
<1>5. Lost'
  BY DEF RemovalFails, Rollback, If, SInv, IInv, TypeOK, Unfinished, Lost,
     Excused, Ended, HasTexts, Retries, Retryable, Phase, Knows, Backups
<1>6. Alive'
  BY DEF RemovalFails, Rollback, If, SInv, IInv, TypeOK, Unfinished, Alive,
     Retryable, HasTexts, Retries, Ended, Phase, Knows, Backups
<1>7. Done'
  BY DEF RemovalFails, Rollback, If, SInv, IInv, TypeOK, Disk, Knows, Phase,
     Once, Unfinished, Done, DoneHasTranscript
<1>8. Retried'
  BY DEF RemovalFails, Rollback, If, SInv, IInv, TypeOK, Disk, Knows, Phase,
     Once, Unfinished, Retried
<1> QED
  BY <1>1, <1>2, <1>3, <1>4, <1>5, <1>6, <1>7, <1>8 DEF SInv

LEMMA RemovedSpeaks == ASSUME SInv, IInv', Removed PROVE SInv'
<1>1. HasTexts'
  BY DEF Removed, Goto, SInv, IInv, TypeOK, Disk, Knows, Phase, Once,
     Unfinished, HasTexts
<1>2. Retries'
  BY DEF Removed, Goto, SInv, IInv, TypeOK, Disk, Knows, Phase, Once,
     Unfinished, Retries, Retryable, Ended
<1>3. Backups'
  BY DEF Removed, Goto, SInv, IInv, TypeOK, Disk, Knows, Phase, Once,
     Unfinished, Backups
<1>4. Applet'
  BY DEF Removed, Goto, SInv, IInv, TypeOK, Disk, Knows, Phase, Once,
     Unfinished, Applet, Excused
<1>5. Lost'
  BY DEF Removed, Goto, SInv, IInv, TypeOK, Disk, Knows, Phase, Once,
     Unfinished, Lost, Excused, Ended
<1>6. Alive'
  BY DEF Removed, Goto, SInv, IInv, TypeOK, Disk, Knows, Phase, Once,
     Unfinished, Alive, Retryable
<1>7. Done'
  BY DEF Removed, Goto, SInv, IInv, TypeOK, Disk, Knows, Phase, Once,
     Unfinished, Done, DoneHasTranscript
<1>8. Retried'
  BY DEF Removed, Goto, SInv, IInv, TypeOK, Disk, Knows, Phase, Once,
     Unfinished, Retried
<1> QED
  BY <1>1, <1>2, <1>3, <1>4, <1>5, <1>6, <1>7, <1>8 DEF SInv

LEMMA PersistDoneSpeaks == ASSUME SInv, IInv', PersistDone PROVE SInv'
<1>1. HasTexts'
  BY DEF PersistDone, Update, Persist, PersistFails, Raise, Leave, With,
     DoneMarks, Only, If, Writable, SInv, IInv, TypeOK, Disk, Knows, Phase,
     Once, Unfinished, HasTexts
<1>2. Retries'
  BY DEF PersistDone, Update, Persist, PersistFails, Raise, Leave, With,
     DoneMarks, Only, If, Writable, SInv, IInv, TypeOK, Disk, Knows, Phase,
     Once, Unfinished, Retries, Retryable, Ended
<1>3. Backups'
  BY DEF PersistDone, Update, Persist, PersistFails, Raise, Leave, With,
     DoneMarks, Only, If, Writable, SInv, IInv, TypeOK, Disk, Knows, Phase,
     Once, Unfinished, Backups
<1>4. Applet'
  BY DEF PersistDone, Update, Persist, PersistFails, Raise, Leave, With,
     DoneMarks, Only, If, Writable, SInv, IInv, TypeOK, Disk, Knows, Phase,
     Once, Unfinished, Applet, Excused
<1>5. Lost'
  BY DEF PersistDone, Update, Persist, PersistFails, Raise, Leave, With,
     DoneMarks, Only, If, Writable, SInv, IInv, TypeOK, Disk, Knows, Phase,
     Once, Unfinished, Lost, Excused, Ended
<1>6. Alive'
  BY DEF PersistDone, Update, Persist, PersistFails, Raise, Leave, With,
     DoneMarks, Only, If, Writable, SInv, IInv, TypeOK, Unfinished, Alive,
     Retryable, Retries, Ended, Phase
<1>7. Done'
  BY DEF PersistDone, Update, Persist, PersistFails, Raise, Leave, With,
     DoneMarks, Only, If, Writable, SInv, IInv, TypeOK, Unfinished, Done,
     DoneHasTranscript, HasTexts, Retries, Retryable, Ended, Phase
<1>8. Retried'
  BY DEF PersistDone, Update, Persist, PersistFails, Raise, Leave, With,
     DoneMarks, Only, If, Writable, SInv, IInv, TypeOK, Disk, Knows, Phase,
     Once, Unfinished, Retried
<1> QED
  BY <1>1, <1>2, <1>3, <1>4, <1>5, <1>6, <1>7, <1>8 DEF SInv

LEMMA PersistCapFailureSpeaks == ASSUME SInv, IInv', PersistCapFailure PROVE SInv'
<1>1. HasTexts'
  BY DEF PersistCapFailure, Persist, PersistFails, Raise, Leave, With,
     DoneMarks, Only, If, Writable, SInv, IInv, TypeOK, Disk, Knows, Phase,
     Once, Unfinished, HasTexts
<1>2. Retries'
  BY DEF PersistCapFailure, Persist, PersistFails, Raise, Leave, With,
     DoneMarks, Only, If, Writable, SInv, IInv, TypeOK, Disk, Knows, Phase,
     Once, Unfinished, Retries, Retryable, Ended
<1>3. Backups'
  BY DEF PersistCapFailure, Persist, PersistFails, Raise, Leave, With,
     DoneMarks, Only, If, Writable, SInv, IInv, TypeOK, Disk, Knows, Phase,
     Once, Unfinished, Backups
<1>4. Applet'
  BY DEF PersistCapFailure, Persist, PersistFails, Raise, Leave, With,
     DoneMarks, Only, If, Writable, SInv, IInv, TypeOK, Disk, Knows, Phase,
     Once, Unfinished, Applet, Excused
<1>5. Lost'
  BY DEF PersistCapFailure, Persist, PersistFails, Raise, Leave, With,
     DoneMarks, Only, If, Writable, SInv, IInv, TypeOK, Disk, Knows, Phase,
     Once, Unfinished, Lost, Excused, Ended
<1>6. Alive'
  BY DEF PersistCapFailure, Persist, PersistFails, Raise, Leave, With,
     DoneMarks, Only, If, Writable, SInv, IInv, TypeOK, Unfinished, Alive,
     Retryable, Retries, Ended, Phase
<1>7. Done'
  BY DEF PersistCapFailure, Persist, PersistFails, Raise, Leave, With,
     DoneMarks, Only, If, Writable, SInv, IInv, TypeOK, Disk, Knows, Phase,
     Once, Unfinished, Done, DoneHasTranscript
<1>8. Retried'
  BY DEF PersistCapFailure, Persist, PersistFails, Raise, Leave, With,
     DoneMarks, Only, If, Writable, SInv, IInv, TypeOK, Disk, Knows, Phase,
     Once, Unfinished, Retried
<1> QED
  BY <1>1, <1>2, <1>3, <1>4, <1>5, <1>6, <1>7, <1>8 DEF SInv

LEMMA DiscardFailsSpeaks == ASSUME SInv, IInv', DiscardFails PROVE SInv'
<1>1. HasTexts'
  BY DEF DiscardFails, Discarding, DiscardFailed, Leave, With, SInv, IInv,
     TypeOK, Disk, Knows, Phase, Once, Unfinished, HasTexts
<1>2. Retries'
  BY DEF DiscardFails, Discarding, DiscardFailed, Leave, With, SInv, IInv,
     TypeOK, Disk, Knows, Phase, Once, Unfinished, Retries, Retryable, Ended
<1>3. Backups'
  BY DEF DiscardFails, Discarding, DiscardFailed, Leave, With, SInv, IInv,
     TypeOK, Disk, Knows, Phase, Once, Unfinished, Backups
<1>4. Applet'
  BY DEF DiscardFails, Discarding, DiscardFailed, Leave, With, SInv, IInv,
     TypeOK, Disk, Knows, Phase, Once, Unfinished, Applet, Excused
<1>5. Lost'
  BY DEF DiscardFails, Discarding, DiscardFailed, Leave, With, SInv, IInv,
     TypeOK, Disk, Knows, Phase, Once, Unfinished, Lost, Excused, Ended
<1>6. Alive'
  BY DEF DiscardFails, Discarding, DiscardFailed, Leave, With, SInv, IInv,
     TypeOK, Unfinished, Alive, Retryable, HasTexts, Retries, Ended, Phase, Knows,
     Backups
<1>7. Done'
  BY DEF DiscardFails, Discarding, DiscardFailed, Leave, With, SInv, IInv,
     TypeOK, Disk, Knows, Phase, Once, Unfinished, Done, DoneHasTranscript
<1>8. Retried'
  BY DEF DiscardFails, Discarding, DiscardFailed, Leave, With, SInv, IInv,
     TypeOK, Disk, Knows, Phase, Once, Unfinished, Retried
<1> QED
  BY <1>1, <1>2, <1>3, <1>4, <1>5, <1>6, <1>7, <1>8 DEF SInv

LEMMA DiscardedSpeaks == ASSUME SInv, IInv', Discarded PROVE SInv'
<1>1. HasTexts'
  BY DEF Discarded, Discarding, DiscardFailed, Leave, With, ClearJournal,
     Persist, Writable, SInv, IInv, TypeOK, Disk, Knows, Phase, Once,
     Unfinished, HasTexts
<1>2. Retries'
  BY DEF Discarded, Discarding, DiscardFailed, Leave, With, ClearJournal,
     Persist, Writable, SInv, IInv, TypeOK, Disk, Knows, Phase, Once,
     Unfinished, Retries, Retryable, Ended
<1>3. Backups'
  BY DEF Discarded, Discarding, DiscardFailed, Leave, With, ClearJournal,
     Persist, Writable, SInv, IInv, TypeOK, Disk, Knows, Phase, Once,
     Unfinished, Backups
<1>4. Applet'
  BY DEF Discarded, Discarding, DiscardFailed, Leave, With, ClearJournal,
     Persist, Writable, SInv, IInv, TypeOK, Disk, Knows, Phase, Once,
     Unfinished, Applet, Excused
<1>5. Lost'
  BY DEF Discarded, Discarding, DiscardFailed, Leave, With, ClearJournal,
     Persist, Writable, SInv, IInv, TypeOK, Disk, Knows, Phase, Once,
     Unfinished, Lost, Excused, Ended
<1>6. Alive'
  BY DEF Discarded, Discarding, DiscardFailed, Leave, With, ClearJournal,
     Persist, Writable, SInv, IInv, TypeOK, Unfinished, Alive, Retryable, HasTexts,
     Retries, Ended, Phase, Knows, Backups
<1>7. Done'
  BY DEF Discarded, Discarding, DiscardFailed, Leave, With, ClearJournal,
     Persist, Writable, SInv, IInv, TypeOK, Disk, Knows, Phase, Once,
     Unfinished, Done, DoneHasTranscript
<1>8. Retried'
  BY DEF Discarded, Discarding, DiscardFailed, Leave, With, ClearJournal,
     Persist, Writable, SInv, IInv, TypeOK, Disk, Knows, Phase, Once,
     Unfinished, Retried
<1> QED
  BY <1>1, <1>2, <1>3, <1>4, <1>5, <1>6, <1>7, <1>8 DEF SInv

LEMMA RollbackPairsSpeaks == ASSUME SInv, IInv', RollbackPairs PROVE SInv'
<1>1. HasTexts'
  BY DEF RollbackPairs, Goto, JournalPairs, Persist, Writable, If, SInv, IInv,
     TypeOK, Disk, Knows, Phase, Once, Unfinished, HasTexts
<1>2. Retries'
  BY DEF RollbackPairs, Goto, JournalPairs, Persist, Writable, If, SInv, IInv,
     TypeOK, Disk, Knows, Phase, Once, Unfinished, Retries, Retryable, Ended
<1>3. Backups'
  BY DEF RollbackPairs, Goto, JournalPairs, Persist, Writable, If, SInv, IInv,
     TypeOK, Disk, Knows, Phase, Once, Unfinished, Backups
<1>4. Applet'
  BY DEF RollbackPairs, Goto, JournalPairs, Persist, Writable, If, SInv, IInv,
     TypeOK, Disk, Knows, Phase, Once, Unfinished, Applet, Excused
<1>5. Lost'
  BY DEF RollbackPairs, Goto, JournalPairs, Persist, Writable, If, SInv, IInv,
     TypeOK, Disk, Knows, Phase, Once, Unfinished, Lost, Excused, Ended
<1>6. Alive'
  BY DEF RollbackPairs, Goto, JournalPairs, Persist, Writable, If, SInv, IInv,
     TypeOK, Disk, Knows, Phase, Once, Unfinished, Alive, Retryable
<1>7. Done'
  BY DEF RollbackPairs, Goto, JournalPairs, Persist, Writable, If, SInv, IInv,
     TypeOK, Disk, Knows, Phase, Once, Unfinished, Done, DoneHasTranscript
<1>8. Retried'
  BY DEF RollbackPairs, Goto, JournalPairs, Persist, Writable, If, SInv, IInv,
     TypeOK, Disk, Knows, Phase, Once, Unfinished, Retried
<1> QED
  BY <1>1, <1>2, <1>3, <1>4, <1>5, <1>6, <1>7, <1>8 DEF SInv

LEMMA RestoredSpeaks == ASSUME SInv, IInv', Restored PROVE SInv'
<1>1. HasTexts'
  BY DEF Restored, Goto, SInv, IInv, TypeOK, Disk, Knows, Phase, Once,
     Unfinished, HasTexts
<1>2. Retries'
  BY DEF Restored, Goto, SInv, IInv, TypeOK, Disk, Knows, Phase, Once,
     Unfinished, Retries, Retryable, Ended
<1>3. Backups'
  BY DEF Restored, Goto, SInv, IInv, TypeOK, Disk, Knows, Phase, Once,
     Unfinished, Backups
<1>4. Applet'
  BY DEF Restored, Goto, SInv, IInv, TypeOK, Disk, Knows, Phase, Once,
     Unfinished, Applet, Excused
<1>5. Lost'
  BY DEF Restored, Goto, SInv, IInv, TypeOK, Disk, Knows, Phase, Once,
     Unfinished, Lost, Excused, Ended
<1>6. Alive'
  BY DEF Restored, Goto, SInv, IInv, TypeOK, Disk, Knows, Phase, Once,
     Unfinished, Alive, Retryable
<1>7. Done'
  BY DEF Restored, Goto, SInv, IInv, TypeOK, Disk, Knows, Phase, Once,
     Unfinished, Done, DoneHasTranscript
<1>8. Retried'
  BY DEF Restored, Goto, SInv, IInv, TypeOK, Disk, Knows, Phase, Once,
     Unfinished, Retried
<1> QED
  BY <1>1, <1>2, <1>3, <1>4, <1>5, <1>6, <1>7, <1>8 DEF SInv

LEMMA RollbackFailsSpeaks == ASSUME SInv, IInv', RollbackFails PROVE SInv'
<1>1. HasTexts'
  BY DEF RollbackFails, Leave, SInv, IInv, TypeOK, Disk, Knows, Phase, Once,
     Unfinished, HasTexts
<1>2. Retries'
  BY DEF RollbackFails, Leave, SInv, IInv, TypeOK, Disk, Knows, Phase, Once,
     Unfinished, Retries, Retryable, Ended
<1>3. Backups'
  BY DEF RollbackFails, Leave, SInv, IInv, TypeOK, Disk, Knows, Phase, Once,
     Unfinished, Backups
<1>4. Applet'
  BY DEF RollbackFails, Leave, SInv, IInv, TypeOK, Disk, Knows, Phase, Once,
     Unfinished, Applet, Excused
<1>5. Lost'
  BY DEF RollbackFails, Leave, SInv, IInv, TypeOK, Disk, Knows, Phase, Once,
     Unfinished, Lost, Excused, Ended
<1>6. Alive'
  BY DEF RollbackFails, Leave, SInv, IInv, TypeOK, Disk, Knows, Phase, Once,
     Unfinished, Alive, Retryable
<1>7. Done'
  BY DEF RollbackFails, Leave, SInv, IInv, TypeOK, Disk, Knows, Phase, Once,
     Unfinished, Done, DoneHasTranscript
<1>8. Retried'
  BY DEF RollbackFails, Leave, SInv, IInv, TypeOK, Disk, Knows, Phase, Once,
     Unfinished, Retried
<1> QED
  BY <1>1, <1>2, <1>3, <1>4, <1>5, <1>6, <1>7, <1>8 DEF SInv

LEMMA ForgetBackupsSpeaks == ASSUME SInv, IInv', ForgetBackups PROVE SInv'
<1>1. HasTexts'
  BY DEF ForgetBackups, ClearJournal, Persist, Writable, Return, Leave, With,
     SInv, IInv, TypeOK, Disk, Knows, Phase, Once, Unfinished, HasTexts
<1>2. Retries'
  BY DEF ForgetBackups, ClearJournal, Persist, Writable, Return, Leave, With,
     SInv, IInv, TypeOK, Disk, Knows, Phase, Once, Unfinished, Retries,
     Retryable, Ended
<1>3. Backups'
  BY DEF ForgetBackups, ClearJournal, Persist, Writable, Return, Leave, With,
     SInv, IInv, TypeOK, Disk, Knows, Phase, Once, Unfinished, Backups
<1>4. Applet'
  BY DEF ForgetBackups, ClearJournal, Persist, Writable, Return, Leave, With,
     SInv, IInv, TypeOK, Disk, Knows, Phase, Once, Unfinished, Applet, Excused
<1>5. Lost'
  BY DEF ForgetBackups, ClearJournal, Persist, Writable, Return, Leave, With,
     SInv, IInv, TypeOK, Unfinished, Lost, Excused, Ended, Retries, Retryable,
     Phase
<1>6. Alive'
  BY DEF ForgetBackups, ClearJournal, Persist, Writable, Return, Leave, With,
     SInv, IInv, TypeOK, Disk, Knows, Phase, Once, Unfinished, Alive, Retryable
<1>7. Done'
  BY DEF ForgetBackups, ClearJournal, Persist, Writable, Return, Leave, With,
     SInv, IInv, TypeOK, Disk, Knows, Phase, Once, Unfinished, Done,
     DoneHasTranscript
<1>8. Retried'
  BY DEF ForgetBackups, ClearJournal, Persist, Writable, Return, Leave, With,
     SInv, IInv, TypeOK, Disk, Knows, Phase, Once, Unfinished, Retried
<1> QED
  BY <1>1, <1>2, <1>3, <1>4, <1>5, <1>6, <1>7, <1>8 DEF SInv

LEMMA RaiseCleanupFailureSpeaks == ASSUME SInv, IInv', RaiseCleanupFailure PROVE SInv'
<1>1. HasTexts'
  BY DEF RaiseCleanupFailure, Goto, Persist, Writable, Only, SInv, IInv, TypeOK,
     Disk, Knows, Phase, Once, Unfinished, HasTexts
<1>2. Retries'
  BY DEF RaiseCleanupFailure, Goto, Persist, Writable, Only, SInv, IInv, TypeOK,
     Disk, Knows, Phase, Once, Unfinished, Retries, Retryable, Ended
<1>3. Backups'
  BY DEF RaiseCleanupFailure, Goto, Persist, Writable, Only, SInv, IInv, TypeOK,
     Unfinished, Backups, Retries, Retryable, Ended, Phase
<1>4. Applet'
  BY DEF RaiseCleanupFailure, Goto, Persist, Writable, Only, SInv, IInv, TypeOK,
     Disk, Knows, Phase, Once, Unfinished, Applet, Excused
<1>5. Lost'
  BY DEF RaiseCleanupFailure, Goto, Persist, Writable, Only, SInv, IInv, TypeOK,
     Unfinished, Lost, Excused, Ended, Retries, Retryable, Phase
<1>6. Alive'
  BY DEF RaiseCleanupFailure, Goto, Persist, Writable, Only, SInv, IInv, TypeOK,
     Disk, Knows, Phase, Once, Unfinished, Alive, Retryable
<1>7. Done'
  BY DEF RaiseCleanupFailure, Goto, Persist, Writable, Only, SInv, IInv, TypeOK,
     Disk, Knows, Phase, Once, Unfinished, Done, DoneHasTranscript
<1>8. Retried'
  BY DEF RaiseCleanupFailure, Goto, Persist, Writable, Only, SInv, IInv, TypeOK,
     Disk, Knows, Phase, Once, Unfinished, Retried
<1> QED
  BY <1>1, <1>2, <1>3, <1>4, <1>5, <1>6, <1>7, <1>8 DEF SInv

LEMMA RenameBackSpeaks == ASSUME SInv, IInv', NEW a \in Artifacts, RenameBack(a) PROVE SInv'
<1>1. HasTexts'
  BY DEF RenameBack, Restoring, SInv, IInv, TypeOK, Disk, Knows, Phase, Once,
     Unfinished, HasTexts
<1>2. Retries'
  BY DEF RenameBack, Restoring, SInv, IInv, TypeOK, Disk, Knows, Phase, Once,
     Unfinished, Retries, Retryable, Ended
<1>3. Backups'
  BY DEF RenameBack, Restoring, SInv, IInv, TypeOK, Disk, Knows, Phase, Once,
     Unfinished, Backups
<1>4. Applet'
  BY DEF RenameBack, Restoring, SInv, IInv, TypeOK, Disk, Knows, Phase, Once,
     Unfinished, Applet, Excused
<1>5. Lost'
  BY DEF RenameBack, Restoring, SInv, IInv, TypeOK, Disk, Knows, Phase, Once,
     Unfinished, Lost, Excused, Ended
<1>6. Alive'
  BY DEF RenameBack, Restoring, SInv, IInv, TypeOK, Disk, Knows, Phase, Once,
     Unfinished, Alive, Retryable
<1>7. Done'
  BY DEF RenameBack, Restoring, SInv, IInv, TypeOK, Disk, Knows, Phase, Once,
     Unfinished, Done, DoneHasTranscript
<1>8. Retried'
  BY DEF RenameBack, Restoring, SInv, IInv, TypeOK, Disk, Knows, Phase, Once,
     Unfinished, Retried
<1> QED
  BY <1>1, <1>2, <1>3, <1>4, <1>5, <1>6, <1>7, <1>8 DEF SInv

LEMMA CompletePairSpeaks == ASSUME SInv, IInv', NEW a \in Artifacts, CompletePair(a) PROVE SInv'
<1>1. HasTexts'
  BY DEF CompletePair, Restoring, JournalPairs, Persist, Writable, If, SInv,
     IInv, TypeOK, Disk, Knows, Phase, Once, Unfinished, HasTexts
<1>2. Retries'
  BY DEF CompletePair, Restoring, JournalPairs, Persist, Writable, If, SInv,
     IInv, TypeOK, Disk, Knows, Phase, Once, Unfinished, Retries, Retryable,
     Ended
<1>3. Backups'
  BY DEF CompletePair, Restoring, JournalPairs, Persist, Writable, If, SInv,
     IInv, TypeOK, Disk, Knows, Phase, Once, Unfinished, Backups
<1>4. Applet'
  BY DEF CompletePair, Restoring, JournalPairs, Persist, Writable, If, SInv,
     IInv, TypeOK, Disk, Knows, Phase, Once, Unfinished, Applet, Excused
<1>5. Lost'
  BY DEF CompletePair, Restoring, JournalPairs, Persist, Writable, If, SInv,
     IInv, TypeOK, Unfinished, Lost, Excused, Ended, Retries, Retryable, Phase
<1>6. Alive'
  BY DEF CompletePair, Restoring, JournalPairs, Persist, Writable, If, SInv,
     IInv, TypeOK, Disk, Knows, Phase, Once, Unfinished, Alive, Retryable
<1>7. Done'
  BY DEF CompletePair, Restoring, JournalPairs, Persist, Writable, If, SInv,
     IInv, TypeOK, Disk, Knows, Phase, Once, Unfinished, Done,
     DoneHasTranscript
<1>8. Retried'
  BY DEF CompletePair, Restoring, JournalPairs, Persist, Writable, If, SInv,
     IInv, TypeOK, Disk, Knows, Phase, Once, Unfinished, Retried
<1> QED
  BY <1>1, <1>2, <1>3, <1>4, <1>5, <1>6, <1>7, <1>8 DEF SInv

LEMMA DropStaleBackupSpeaks == ASSUME SInv, IInv', NEW a \in Artifacts, DropStaleBackup(a) PROVE SInv'
<1>1. HasTexts'
  BY DEF DropStaleBackup, SInv, IInv, TypeOK, Disk, Knows, Phase, Once,
     Unfinished, HasTexts
<1>2. Retries'
  BY DEF DropStaleBackup, SInv, IInv, TypeOK, Disk, Knows, Phase, Once,
     Unfinished, Retries, Retryable, Ended
<1>3. Backups'
  BY DEF DropStaleBackup, SInv, IInv, TypeOK, Disk, Knows, Phase, Once,
     Unfinished, Backups
<1>4. Applet'
  BY DEF DropStaleBackup, SInv, IInv, TypeOK, Disk, Knows, Phase, Once,
     Unfinished, Applet, Excused
<1>5. Lost'
  BY DEF DropStaleBackup, SInv, IInv, TypeOK, Disk, Knows, Phase, Once,
     Unfinished, Lost, Excused, Ended
<1>6. Alive'
  BY DEF DropStaleBackup, SInv, IInv, TypeOK, Disk, Knows, Phase, Once,
     Unfinished, Alive, Retryable
<1>7. Done'
  BY DEF DropStaleBackup, SInv, IInv, TypeOK, Disk, Knows, Phase, Once,
     Unfinished, Done, DoneHasTranscript
<1>8. Retried'
  BY DEF DropStaleBackup, SInv, IInv, TypeOK, Disk, Knows, Phase, Once,
     Unfinished, Retried
<1> QED
  BY <1>1, <1>2, <1>3, <1>4, <1>5, <1>6, <1>7, <1>8 DEF SInv

LEMMA BackupCleanupFileSpeaks == ASSUME SInv, IInv', NEW a \in Artifacts, BackupCleanupFile(a) PROVE SInv'
<1>1. HasTexts'
  BY DEF BackupCleanupFile, SInv, IInv, TypeOK, Disk, Knows, Phase, Once,
     Unfinished, HasTexts
<1>2. Retries'
  BY DEF BackupCleanupFile, SInv, IInv, TypeOK, Disk, Knows, Phase, Once,
     Unfinished, Retries, Retryable, Ended
<1>3. Backups'
  BY DEF BackupCleanupFile, SInv, IInv, TypeOK, Disk, Knows, Phase, Once,
     Unfinished, Backups
<1>4. Applet'
  BY DEF BackupCleanupFile, SInv, IInv, TypeOK, Disk, Knows, Phase, Once,
     Unfinished, Applet, Excused
<1>5. Lost'
  BY DEF BackupCleanupFile, SInv, IInv, TypeOK, Disk, Knows, Phase, Once,
     Unfinished, Lost, Excused, Ended
<1>6. Alive'
  BY DEF BackupCleanupFile, SInv, IInv, TypeOK, Disk, Knows, Phase, Once,
     Unfinished, Alive, Retryable
<1>7. Done'
  BY DEF BackupCleanupFile, SInv, IInv, TypeOK, Disk, Knows, Phase, Once,
     Unfinished, Done, DoneHasTranscript
<1>8. Retried'
  BY DEF BackupCleanupFile, SInv, IInv, TypeOK, Disk, Knows, Phase, Once,
     Unfinished, Retried
<1> QED
  BY <1>1, <1>2, <1>3, <1>4, <1>5, <1>6, <1>7, <1>8 DEF SInv

LEMMA RemoveBackedUpFileSpeaks == ASSUME SInv, IInv', NEW a \in Artifacts, RemoveBackedUpFile(a) PROVE SInv'
<1>1. HasTexts'
  BY DEF RemoveBackedUpFile, SInv, IInv, TypeOK, Disk, Knows, Phase, Once,
     Unfinished, HasTexts
<1>2. Retries'
  BY DEF RemoveBackedUpFile, SInv, IInv, TypeOK, Disk, Knows, Phase, Once,
     Unfinished, Retries, Retryable, Ended
<1>3. Backups'
  BY DEF RemoveBackedUpFile, SInv, IInv, TypeOK, Disk, Knows, Phase, Once,
     Unfinished, Backups
<1>4. Applet'
  BY DEF RemoveBackedUpFile, SInv, IInv, TypeOK, Disk, Knows, Phase, Once,
     Unfinished, Applet, Excused
<1>5. Lost'
  BY DEF RemoveBackedUpFile, SInv, IInv, TypeOK, Unfinished, Lost, Excused,
     Ended, HasTexts, Retries, Retryable, Phase, Knows, Backups
<1>6. Alive'
  BY DEF RemoveBackedUpFile, SInv, IInv, TypeOK, Unfinished, Alive, Retryable,
     HasTexts, Retries, Ended, Phase, Knows, Backups
<1>7. Done'
  BY DEF RemoveBackedUpFile, SInv, IInv, TypeOK, Disk, Knows, Phase, Once,
     Unfinished, Done, DoneHasTranscript
<1>8. Retried'
  BY DEF RemoveBackedUpFile, SInv, IInv, TypeOK, Disk, Knows, Phase, Once,
     Unfinished, Retried
<1> QED
  BY <1>1, <1>2, <1>3, <1>4, <1>5, <1>6, <1>7, <1>8 DEF SInv

LEMMA DiscardBackupSpeaks == ASSUME SInv, IInv', NEW a \in Artifacts, DiscardBackup(a) PROVE SInv'
<1>1. HasTexts'
  BY DEF DiscardBackup, Discarding, SInv, IInv, TypeOK, Disk, Knows, Phase,
     Once, Unfinished, HasTexts
<1>2. Retries'
  BY DEF DiscardBackup, Discarding, SInv, IInv, TypeOK, Disk, Knows, Phase,
     Once, Unfinished, Retries, Retryable, Ended
<1>3. Backups'
  BY DEF DiscardBackup, Discarding, SInv, IInv, TypeOK, Disk, Knows, Phase,
     Once, Unfinished, Backups
<1>4. Applet'
  BY DEF DiscardBackup, Discarding, SInv, IInv, TypeOK, Disk, Knows, Phase,
     Once, Unfinished, Applet, Excused
<1>5. Lost'
  BY DEF DiscardBackup, Discarding, SInv, IInv, TypeOK, Unfinished, Lost,
     Excused, Ended, HasTexts, Retries, Retryable, Backups, Applet, Alive, Done,
     DoneHasTranscript, Retried, Phase, Knows, Disk, Once
<1>6. Alive'
  BY DEF DiscardBackup, Discarding, SInv, IInv, TypeOK, Disk, Knows, Phase,
     Once, Unfinished, Alive, Retryable
<1>7. Done'
  BY DEF DiscardBackup, Discarding, SInv, IInv, TypeOK, Disk, Knows, Phase,
     Once, Unfinished, Done, DoneHasTranscript
<1>8. Retried'
  BY DEF DiscardBackup, Discarding, SInv, IInv, TypeOK, Disk, Knows, Phase,
     Once, Unfinished, Retried
<1> QED
  BY <1>1, <1>2, <1>3, <1>4, <1>5, <1>6, <1>7, <1>8 DEF SInv

LEMMA RollbackDropSpeaks == ASSUME SInv, IInv', NEW a \in Artifacts, RollbackDrop(a) PROVE SInv'
<1>1. HasTexts'
  BY DEF RollbackDrop, SInv, IInv, TypeOK, Disk, Knows, Phase, Once, Unfinished,
     HasTexts
<1>2. Retries'
  BY DEF RollbackDrop, SInv, IInv, TypeOK, Disk, Knows, Phase, Once, Unfinished,
     Retries, Retryable, Ended
<1>3. Backups'
  BY DEF RollbackDrop, SInv, IInv, TypeOK, Disk, Knows, Phase, Once, Unfinished,
     Backups
<1>4. Applet'
  BY DEF RollbackDrop, SInv, IInv, TypeOK, Disk, Knows, Phase, Once, Unfinished,
     Applet, Excused
<1>5. Lost'
  BY DEF RollbackDrop, SInv, IInv, TypeOK, Disk, Knows, Phase, Once, Unfinished,
     Lost, Excused, Ended
<1>6. Alive'
  BY DEF RollbackDrop, SInv, IInv, TypeOK, Disk, Knows, Phase, Once, Unfinished,
     Alive, Retryable
<1>7. Done'
  BY DEF RollbackDrop, SInv, IInv, TypeOK, Disk, Knows, Phase, Once, Unfinished,
     Done, DoneHasTranscript
<1>8. Retried'
  BY DEF RollbackDrop, SInv, IInv, TypeOK, Disk, Knows, Phase, Once, Unfinished,
     Retried
<1> QED
  BY <1>1, <1>2, <1>3, <1>4, <1>5, <1>6, <1>7, <1>8 DEF SInv

LEMMA PurgeFileSpeaks == ASSUME SInv, IInv', NEW a \in Artifacts, PurgeFile(a) PROVE SInv'
<1>1. HasTexts'
  BY DEF PurgeFile, PurgeTargets, If, SInv, IInv, TypeOK, Disk, Knows, Phase,
     Once, Unfinished, HasTexts
<1>2. Retries'
  BY DEF PurgeFile, PurgeTargets, If, SInv, IInv, TypeOK, Disk, Knows, Phase,
     Once, Unfinished, Retries, Retryable, Ended
<1>3. Backups'
  BY DEF PurgeFile, PurgeTargets, If, SInv, IInv, TypeOK, Disk, Knows, Phase,
     Once, Unfinished, Backups
<1>4. Applet'
  BY DEF PurgeFile, PurgeTargets, If, SInv, IInv, TypeOK, Disk, Knows, Phase,
     Once, Unfinished, Applet, Excused
<1>5. Lost'
  BY DEF PurgeFile, PurgeTargets, If, SInv, IInv, TypeOK, Unfinished, Lost,
     Excused, Ended, HasTexts, Applet, Phase
<1>6. Alive'
  BY DEF PurgeFile, PurgeTargets, If, SInv, IInv, TypeOK, Disk, Knows, Phase,
     Once, Unfinished, Alive, Retryable
<1>7. Done'
  BY DEF PurgeFile, PurgeTargets, If, SInv, IInv, TypeOK, Disk, Knows, Phase,
     Once, Unfinished, Done, DoneHasTranscript
<1>8. Retried'
  BY DEF PurgeFile, PurgeTargets, If, SInv, IInv, TypeOK, Disk, Knows, Phase,
     Once, Unfinished, Retried
<1> QED
  BY <1>1, <1>2, <1>3, <1>4, <1>5, <1>6, <1>7, <1>8 DEF SInv

LEMMA HandleTranscriptSpeaks == ASSUME SInv, IInv', HandleTranscript PROVE SInv'
<1>1. HasTexts'
  BY DEF HandleTranscript, Goto, RemovesText, SInv, IInv, TypeOK, Disk, Knows,
     Phase, Once, Unfinished, HasTexts
<1>2. Retries'
  BY DEF HandleTranscript, Goto, RemovesText, SInv, IInv, TypeOK, Disk, Knows,
     Phase, Once, Unfinished, Retries, Retryable, Ended
<1>3. Backups'
  BY DEF HandleTranscript, Goto, RemovesText, SInv, IInv, TypeOK, Disk, Knows,
     Phase, Once, Unfinished, Backups
<1>4. Applet'
  BY DEF HandleTranscript, Goto, RemovesText, SInv, IInv, TypeOK, Disk, Knows,
     Phase, Once, Unfinished, Applet, Excused
<1>5. Lost'
  BY DEF HandleTranscript, Goto, RemovesText, SInv, IInv, TypeOK, Disk, Knows,
     Phase, Once, Unfinished, Lost, Excused, Ended
<1>6. Alive'
  BY DEF HandleTranscript, Goto, RemovesText, SInv, IInv, TypeOK, Disk, Knows,
     Phase, Once, Unfinished, Alive, Retryable
<1>7. Done'
  BY DEF HandleTranscript, Goto, RemovesText, SInv, IInv, TypeOK, Disk, Knows,
     Phase, Once, Unfinished, Done, DoneHasTranscript
<1>8. Retried'
  BY DEF HandleTranscript, Goto, RemovesText, SInv, IInv, TypeOK, Disk, Knows,
     Phase, Once, Unfinished, Retried
<1> QED
  BY <1>1, <1>2, <1>3, <1>4, <1>5, <1>6, <1>7, <1>8 DEF SInv

LEMMA RecordErrorSpeaks == ASSUME SInv, IInv', RecordError PROVE SInv'
<1>1. HasTexts'
  BY DEF RecordError, Persist, PersistFails, Writable, Goto, ErrorMarks,
     ErrorNames, Only, If, RemovesText, SInv, IInv, TypeOK, Disk, Knows, Phase,
     Once, Unfinished, HasTexts
<1>2. Retries'
  BY DEF RecordError, Persist, PersistFails, Writable, Goto, ErrorMarks,
     ErrorNames, Only, If, RemovesText, SInv, IInv, TypeOK, Unfinished, Retries,
     Retryable, Ended, HasTexts, Phase, Knows, Backups
<1>3. Backups'
  BY DEF RecordError, Persist, PersistFails, Writable, Goto, ErrorMarks,
     ErrorNames, Only, If, RemovesText, SInv, IInv, TypeOK, Disk, Knows, Phase,
     Once, Unfinished, Backups
<1>4. Applet'
  BY DEF RecordError, Persist, PersistFails, Writable, Goto, ErrorMarks,
     ErrorNames, Only, If, RemovesText, SInv, IInv, TypeOK, Disk, Knows, Phase,
     Once, Unfinished, Applet, Excused
<1>5. Lost'
  BY DEF RecordError, Persist, PersistFails, Writable, Goto, ErrorMarks,
     ErrorNames, Only, If, RemovesText, SInv, IInv, TypeOK, Unfinished, Lost,
     Excused, Ended, Retries, Retryable, Phase
<1>6. Alive'
  BY DEF RecordError, Persist, PersistFails, Writable, Goto, ErrorMarks,
     ErrorNames, Only, If, RemovesText, SInv, IInv, TypeOK, Unfinished, Alive,
     Retryable, HasTexts, Retries, Ended, Phase
<1>7. Done'
  BY DEF RecordError, Persist, PersistFails, Writable, Goto, ErrorMarks,
     ErrorNames, Only, If, RemovesText, SInv, IInv, TypeOK, Disk, Knows, Phase,
     Once, Unfinished, Done, DoneHasTranscript
<1>8. Retried'
  BY DEF RecordError, Persist, PersistFails, Writable, Goto, ErrorMarks,
     ErrorNames, Only, If, RemovesText, SInv, IInv, TypeOK, Disk, Knows, Phase,
     Once, Unfinished, Retried
<1> QED
  BY <1>1, <1>2, <1>3, <1>4, <1>5, <1>6, <1>7, <1>8 DEF SInv

LEMMA RecordPurgeSpeaks == ASSUME SInv, IInv', RecordPurge PROVE SInv'
<1>1. HasTexts'
  BY DEF RecordPurge, Persist, PersistFails, Writable, Goto, PurgeTargets, If,
     SInv, IInv, TypeOK, Disk, Knows, Phase, Once, Unfinished, HasTexts
<1>2. Retries'
  BY DEF RecordPurge, Persist, PersistFails, Writable, Goto, PurgeTargets, If,
     SInv, IInv, TypeOK, Disk, Knows, Phase, Once, Unfinished, Retries,
     Retryable, Ended
<1>3. Backups'
  BY DEF RecordPurge, Persist, PersistFails, Writable, Goto, PurgeTargets, If,
     SInv, IInv, TypeOK, Disk, Knows, Phase, Once, Unfinished, Backups
<1>4. Applet'
  BY DEF RecordPurge, Persist, PersistFails, Writable, Goto, PurgeTargets, If,
     SInv, IInv, TypeOK, Disk, Knows, Phase, Once, Unfinished, Applet, Excused
<1>5. Lost'
  BY DEF RecordPurge, Persist, PersistFails, Writable, Goto, PurgeTargets, If,
     SInv, IInv, TypeOK, Disk, Knows, Phase, Once, Unfinished, Lost, Excused,
     Ended
<1>6. Alive'
  BY DEF RecordPurge, Persist, PersistFails, Writable, Goto, PurgeTargets, If,
     SInv, IInv, TypeOK, Disk, Knows, Phase, Once, Unfinished, Alive, Retryable
<1>7. Done'
  BY DEF RecordPurge, Persist, PersistFails, Writable, Goto, PurgeTargets, If,
     SInv, IInv, TypeOK, Disk, Knows, Phase, Once, Unfinished, Done,
     DoneHasTranscript
<1>8. Retried'
  BY DEF RecordPurge, Persist, PersistFails, Writable, Goto, PurgeTargets, If,
     SInv, IInv, TypeOK, Disk, Knows, Phase, Once, Unfinished, Retried
<1> QED
  BY <1>1, <1>2, <1>3, <1>4, <1>5, <1>6, <1>7, <1>8 DEF SInv

LEMMA FailsSpeaks == ASSUME SInv, IInv', Fails PROVE SInv'
<1>1. HasTexts'
  BY FinalizationAssumption DEF Fails, Raise, Leave, With, Raising, If, SInv,
     IInv, TypeOK, Disk, Knows, Phase, Once, Unfinished, HasTexts
<1>2. Retries'
  BY FinalizationAssumption DEF Fails, Raise, Leave, With, Raising, If, SInv,
     IInv, TypeOK, Disk, Knows, Phase, Once, Unfinished, Retries, Retryable,
     Ended
<1>3. Backups'
  BY FinalizationAssumption DEF Fails, Raise, Leave, With, Raising, If, SInv,
     IInv, TypeOK, Unfinished, Backups, Retries, Retryable, Ended, Phase
<1>4. Applet'
  BY FinalizationAssumption DEF Fails, Raise, Leave, With, Raising, If, SInv,
     IInv, TypeOK, Disk, Knows, Phase, Once, Unfinished, Applet, Excused
<1>5. Lost'
  BY FinalizationAssumption DEF Fails, Raise, Leave, With, Raising, If, SInv,
     IInv, TypeOK, Disk, Knows, Phase, Once, Unfinished, Lost, Excused, Ended
<1>6. Alive'
  BY FinalizationAssumption DEF Fails, Raise, Leave, With, Raising, If, SInv,
     IInv, TypeOK, Unfinished, Alive, Retryable, HasTexts, Retries, Ended, Phase,
     Knows, Backups
<1>7. Done'
  BY FinalizationAssumption DEF Fails, Raise, Leave, With, Raising, If, SInv,
     IInv, TypeOK, Disk, Knows, Phase, Once, Unfinished, Done,
     DoneHasTranscript
<1>8. Retried'
  <2> SUFFICES ASSUME ~LateRaise, ~RetryMayFail, pc' = "handle", Has("retrying")',
                      Has("written")'
               PROVE  FALSE
    BY DEF Retried
  <2>1. flags' = flags
    BY DEF Fails, Raise, Leave, With
  <2>2. pc \in RetryPCs
    BY <2>1 DEF SInv, IInv, Phase
  <2>3. ~text /\ pc \in Retry
    BY <2>2 DEF Fails, Raising, If
  <2>4. HasTexts
    BY DEF SInv
  <2> QED
    BY <2>1, <2>3, <2>4 DEF HasTexts
<1> QED
  BY <1>1, <1>2, <1>3, <1>4, <1>5, <1>6, <1>7, <1>8 DEF SInv

LEMMA AbandonSpeaks == ASSUME SInv, IInv', Abandon PROVE SInv'
<1>1. HasTexts'
  BY DEF Abandon, Leave, SInv, IInv, TypeOK, Disk, Knows, Phase, Once,
     Unfinished, HasTexts
<1>2. Retries'
  BY DEF Abandon, Leave, SInv, IInv, TypeOK, Disk, Knows, Phase, Once,
     Unfinished, Retries, Retryable, Ended
<1>3. Backups'
  BY DEF Abandon, Leave, SInv, IInv, TypeOK, Disk, Knows, Phase, Once,
     Unfinished, Backups
<1>4. Applet'
  BY DEF Abandon, Leave, SInv, IInv, TypeOK, Disk, Knows, Phase, Once,
     Unfinished, Applet, Excused
<1>5. Lost'
  BY DEF Abandon, Leave, SInv, IInv, TypeOK, Disk, Knows, Phase, Once,
     Unfinished, Lost, Excused, Ended
<1>6. Alive'
  BY DEF Abandon, Leave, SInv, IInv, TypeOK, Disk, Knows, Phase, Once,
     Unfinished, Alive, Retryable
<1>7. Done'
  BY DEF Abandon, Leave, SInv, IInv, TypeOK, Disk, Knows, Phase, Once,
     Unfinished, Done, DoneHasTranscript
<1>8. Retried'
  BY DEF Abandon, Leave, SInv, IInv, TypeOK, Disk, Knows, Phase, Once,
     Unfinished, Retried
<1> QED
  BY <1>1, <1>2, <1>3, <1>4, <1>5, <1>6, <1>7, <1>8 DEF SInv
-----------------------------------------------------------------------------
LEMMA InitSInv == Init => SInv
<1> SUFFICES ASSUME Init PROVE SInv
  OBVIOUS
<1>1. IInv
  BY InitIInv
<1>2. HasTexts /\ Retries /\ Backups
  BY DEF Init, HasTexts, Retries, Backups, Retryable, Ended, Unfinished
<1>3. Applet /\ Lost
  BY FinalizationAssumption DEF FinalizationAssumption, Init, Applet, Lost, Excused, Ended
<1>4. Alive /\ Done /\ Retried
  BY DEF Init, Alive, Done, Retried, DoneHasTranscript, Unfinished, Retryable
<1> QED
  BY <1>1, <1>2, <1>3, <1>4 DEF SInv

LEMMA StutterSpeaks == ASSUME SInv, UNCHANGED vars PROVE SInv'
<1>1. IInv'
  BY StutterKeeps DEF SInv
<1>2. (HasTexts /\ Retries /\ Backups)'
  BY DEF vars, SInv, HasTexts, Retries, Backups, Retryable, Ended, Unfinished
<1>3. (Applet /\ Lost)'
  BY DEF vars, SInv, Applet, Lost, Excused, Ended
<1>4. (Alive /\ Done /\ Retried)'
  BY DEF vars, SInv, Alive, Done, Retried, DoneHasTranscript, Unfinished, Retryable
<1> QED
  BY <1>1, <1>2, <1>3, <1>4 DEF SInv

LEMMA NextSpeaks == ASSUME SInv, [Next]_vars PROVE SInv'
<1>0. IInv'
  BY NextKeeps DEF SInv
<1>1. CASE Refuse
  BY <1>0, <1>1, StutterSpeaks DEF Refuse
<1>2. CASE Begin
  BY <1>0, <1>2, StartRetrySpeaks, StartWithoutAudioSpeaks, StartSpeaks DEF Begin
<1>3. CASE Pipeline
  BY <1>0, <1>3,
     RecoveredSpeaks, MarkFinalizingSpeaks, ValidateAudioSpeaks,
     NoSpeechSpeaks, TranscribedSpeaks, PostprocessFailsSpeaks,
     StoreTranscriptSpeaks, RereadSpeaks, RevalidateSpeaks,
     PersistIntentSpeaks, InsertedSpeaks, DeclinedSpeaks, NotInsertedSpeaks,
     InsertFailsSpeaks, UnmarkInsertedSpeaks, ReportNotInsertedSpeaks,
     FinishRetrySpeaks
     DEF Pipeline
<1>4. CASE Cleanup
  BY <1>0, <1>4,
     BackupFailsSpeaks, PersistCleanupJournalSpeaks, RemovalFailsSpeaks,
     RemovedSpeaks, PersistDoneSpeaks, PersistCapFailureSpeaks,
     DiscardFailsSpeaks, DiscardedSpeaks, RollbackPairsSpeaks,
     RestoredSpeaks, RollbackFailsSpeaks, ForgetBackupsSpeaks,
     RaiseCleanupFailureSpeaks, RenameBackSpeaks, CompletePairSpeaks,
     DropStaleBackupSpeaks, BackupCleanupFileSpeaks,
     RemoveBackedUpFileSpeaks, DiscardBackupSpeaks, RollbackDropSpeaks,
     PurgeFileSpeaks
     DEF Cleanup
<1>5. CASE Handle
  BY <1>0, <1>5, HandleTranscriptSpeaks, RecordErrorSpeaks, RecordPurgeSpeaks DEF Handle
<1>6. CASE Fails
  BY <1>0, <1>6, FailsSpeaks
<1>7. CASE Abandon
  BY <1>0, <1>7, AbandonSpeaks
<1>8. CASE UNCHANGED vars
  BY <1>0, <1>8, StutterSpeaks
<1> QED
  BY <1>1, <1>2, <1>3, <1>4, <1>5, <1>6, <1>7, <1>8 DEF Next, Step

LEMMA SpeechInvariant == Spec => []SInv
<1>1. SInv /\ [Next]_vars => SInv'
  BY NextSpeaks
<1> QED
  BY InitSInv, <1>1, PTL DEF Spec

-----------------------------------------------------------------------------
(* The steps that touch the files, the backups or the transcript.          *)
Touching(a) ==
    \/ RenameBack(a) \/ DropStaleBackup(a) \/ BackupCleanupFile(a) \/ RemoveBackedUpFile(a)
    \/ DiscardBackup(a) \/ RollbackDrop(a) \/ PurgeFile(a)

LEMMA OthersLeaveDisk ==
    ASSUME [Next]_vars
    PROVE  \/ UNCHANGED disk
           \/ \E a \in Artifacts : Touching(a)
           \/ StoreTranscript \/ RemovalFails \/ HandleTranscript
<1>1. CASE Refuse \/ Begin \/ Fails \/ Abandon \/ UNCHANGED vars
  BY <1>1 DEF Refuse, Begin, StartRetry, StartWithoutAudio, Start, Begins, Fails, Abandon, vars
<1>2. CASE Pipeline
  BY <1>2 DEF Pipeline, Recovered, MarkFinalizing, ValidateAudio, NoSpeech, Transcribed,
     PostprocessFails, Reread, Revalidate, PersistIntent, Inserted, Declined, NotInserted,
     InsertFails, UnmarkInserted, ReportNotInserted, FinishRetry
<1>3. CASE Cleanup
  BY <1>3 DEF Cleanup, Touching, BackupFails, PersistCleanupJournal, Removed, PersistDone,
     PersistCapFailure, DiscardFails, Discarded, RollbackPairs, Restored, RollbackFails,
     ForgetBackups, RaiseCleanupFailure, CompletePair
<1>4. CASE Handle
  BY <1>4 DEF Handle, RecordError, RecordPurge
<1> QED
  BY <1>1, <1>2, <1>3, <1>4 DEF Next, Step

LEMMA TouchingKeepsSpeech ==
    ASSUME SInv, NEW a \in Artifacts, Touching(a), Unfinished, ~SpeechLost PROVE ~SpeechLost'
<1>1. CASE RenameBack(a) \/ DropStaleBackup(a) \/ BackupCleanupFile(a) \/ RollbackDrop(a)
  BY <1>1 DEF RenameBack, DropStaleBackup, BackupCleanupFile, RollbackDrop, SpeechLost
<1>2. CASE RemoveBackedUpFile(a)
  BY <1>2 DEF RemoveBackedUpFile, SpeechLost, SInv, Backups
<1>3. CASE DiscardBackup(a)
  BY <1>3 DEF DiscardBackup, Discarding, Unfinished, SInv, IInv, Phase, Backups, Retries
<1>4. CASE PurgeFile(a)
  BY <1>4 DEF PurgeFile, PurgeTargets, SpeechLost, SInv, IInv, Phase, HasTexts
<1> QED
  BY <1>1, <1>2, <1>3, <1>4 DEF Touching

LEMMA StepKeepsSpeech ==
    ASSUME ~LateRaise, ~RetryMayFail, SInv, [Next]_vars,
           Unfinished, ~Marked("inserted"), ~SpeechLost
    PROVE  ~SpeechLost'
<1>1. CASE UNCHANGED disk
  BY <1>1 DEF SpeechLost
<1>2. CASE StoreTranscript
  BY <1>2 DEF StoreTranscript, SpeechLost
<1>3. CASE RemovalFails
  BY <1>3 DEF RemovalFails, SpeechLost, SInv, Backups
<1>4. CASE HandleTranscript
  <2>1. CASE ~RemovesText
    BY <1>4, <2>1 DEF HandleTranscript, SpeechLost
  <2>2. CASE RemovesText
    <3>1. Audio \in files \union bak
      BY <1>4, <2>2 DEF HandleTranscript, RemovesText, SInv, Alive, Retried, HasTexts
    <3> QED
      BY <1>4, <3>1 DEF HandleTranscript, SpeechLost
  <2> QED
    BY <2>1, <2>2
<1> QED
  BY <1>1, <1>2, <1>3, <1>4, OthersLeaveDisk, TouchingKeepsSpeech

LEMMA StepKeepsTranscript ==
    ASSUME ~LateRaise, ~RetryMayFail, SInv, [Next]_vars, Retryable, text PROVE text'
<1>1. CASE UNCHANGED disk \/ StoreTranscript \/ RemovalFails
  BY <1>1 DEF StoreTranscript, RemovalFails
<1>2. CASE \E a \in Artifacts : Touching(a)
  BY <1>2 DEF Touching, RenameBack, DropStaleBackup, BackupCleanupFile, RemoveBackedUpFile,
     DiscardBackup, RollbackDrop, PurgeFile
<1>3. CASE HandleTranscript
  <2>1. ~RemovesText
    BY <1>3 DEF HandleTranscript, RemovesText, Retryable, SInv, Alive, Retried
  <2> QED
    BY <1>3, <2>1 DEF HandleTranscript
<1> QED
  BY <1>1, <1>2, <1>3, OthersLeaveDisk

-----------------------------------------------------------------------------
(* A recording the applet finalizes loses its speech only if there was     *)
(* none, or if nothing was to be inserted and a later step failed, for     *)
(* every setting of the two constants.                                     *)
THEOREM AppletNeverLosesSpeech == Spec => []AppletKeepsSpeech
<1>1. SInv => AppletKeepsSpeech
  BY DEF SInv, Lost, Excused, AppletKeepsSpeech, SpeechLost
<1> QED
  BY SpeechInvariant, <1>1, PTL

(* A state that says "done" and names a transcript has that transcript,    *)
(* as long as no update of the state raises after it has written.          *)
THEOREM DoneKeepsTranscript == ASSUME ~LateRaise PROVE Spec => []DoneHasTranscript
<1>1. SInv => DoneHasTranscript
  BY DEF SInv, Done
<1> QED
  BY SpeechInvariant, <1>1, PTL

(* No step takes the last copy of speech that was neither finished nor     *)
(* inserted, if besides no retry fails before its intent is on disk.       *)
THEOREM SpeechIsKept ==
    ASSUME ~LateRaise, ~RetryMayFail PROVE Spec => UninsertedSpeechKept
<1>1. SInv /\ [Next]_vars =>
        [Unfinished /\ ~Marked("inserted") /\ ~SpeechLost => ~SpeechLost']_vars
  BY StepKeepsSpeech
<1> QED
  BY SpeechInvariant, <1>1, PTL DEF Spec, UninsertedSpeechKept

(* The transcript the user is told to retry with is not removed while the  *)
(* state says so, under the same two assumptions.                          *)
THEOREM RetriedTranscriptIsKept ==
    ASSUME ~LateRaise, ~RetryMayFail PROVE Spec => RetryKeepsTranscript
<1>1. SInv /\ [Next]_vars => [Retryable /\ text => text']_vars
  BY StepKeepsTranscript
<1> QED
  BY SpeechInvariant, <1>1, PTL DEF Spec, RetryKeepsTranscript
=============================================================================
