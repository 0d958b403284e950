---------------------------- MODULE Transcription ----------------------------
(***************************************************************************)
(* Transcribing audio (transcribe, transcriber.py) by several commands      *)
(* whose audio files have the same stem.  Some local programs write their   *)
(* text to a file: whisper, and a command template with {output_dir}, to    *)
(* <stem>.txt in the transcript directory, the place where the command line *)
(* later stores the transcript; whisper.cpp, and a template with {text}, to *)
(* a work path of the command; the others answer on their output.  What was *)
(* in the file is kept in memory and put back.  A lock on the directory     *)
(* lets one local program run at a time; the remote API is asked without    *)
(* it.  Each function goes through the same steps in an order of its own:   *)
(*                                                                         *)
(*   whisper      snapshots stages runs reads restores unstages            *)
(*   whisper.cpp  stages snapshots runs reads restores unstages            *)
(*   template     snapshots stages runs unstages reads restores            *)
(*   the others   stages runs unstages                                      *)
(*                                                                         *)
(* The audio may be replaced while this goes on, a command may be killed    *)
(* with its program still running, the private copy may not be made or      *)
(* removed, the text may be unreadable and the restoring may fail.          *)
(***************************************************************************)
EXTENDS Naturals

CONSTANTS
    Transcribers,
    Nobody,
    MaxTranscriptionFaults   \* bound on the calls that fail

ASSUME TranscriptionAssumption == Nobody \notin Transcribers /\ MaxTranscriptionFaults \in Nat

Text(by, of) == [by |-> by, of |-> of]
NoFile == Text(Nobody, 0)
Earlier == Text(Nobody, 1)     \* the transcript an earlier command has stored
Blank == Text(Nobody, 2)       \* the work file as the command line creates it
Begun(c) == Text(c, 0)
Texts == [by : Transcribers \cup {Nobody}, of : 0..2]
Backends == {"whisper", "cpp", "output_dir", "text", "output", "remote"}
Templates == {"output_dir", "text"}
OnStem == {"whisper", "output_dir"}

VARIABLES
    shared,         \* <stem>.txt
    work,           \* the work path of each command
    audio,          \* the version of each audio file
    directoryLock,  \* who holds the lock of the transcript directory
    step, backend,
    audioSeen,      \* the version of the preflight snapshot
    earlier,        \* the file the program may write to, as it was before
    staged,         \* the version in the private copy, or 0
    program,        \* "off", "runs", "wrote"
    captured,       \* the file that is to be put back or removed, as it was captured
    text,           \* what the program printed, and then what the call has read
    failed,         \* the call will raise
    spoilt,         \* putting the file back failed
    disturbed,      \* somebody without the lock wrote to <stem>.txt meanwhile
    transcriptionFaults

commandVars == <<backend, audioSeen, earlier, staged, program, captured, text, failed, spoilt>>
transcriptionVars == <<shared, work, audio, directoryLock, step, commandVars, disturbed, transcriptionFaults>>

Generated(c) == IF backend[c] \in OnStem THEN shared ELSE work[c]
Transcript(c) == Text(c, staged[c])

TranscriptionTypeOK ==
    /\ shared \in Texts /\ work \in [Transcribers -> Texts] /\ audio \in [Transcribers -> 1..2]
    /\ directoryLock \in Transcribers \cup {Nobody}
    /\ step \in [Transcribers -> {"idle", "locks", "snapshots", "stages", "runs", "reads", "captures", "restores",
                              "unstages", "unlocks", "sends", "resends", "returned", "stored", "failed", "killed"}]
    /\ backend \in [Transcribers -> Backends \cup {"none"}] /\ audioSeen \in [Transcribers -> 0..2]
    /\ earlier \in [Transcribers -> Texts] /\ staged \in [Transcribers -> 0..2]
    /\ program \in [Transcribers -> {"off", "runs", "wrote"}]
    /\ captured \in [Transcribers -> Texts] /\ text \in [Transcribers -> Texts]
    /\ {failed, spoilt, disturbed} \subseteq [Transcribers -> BOOLEAN] /\ transcriptionFaults \in 0..MaxTranscriptionFaults

TranscriptionInit ==
    /\ shared \in {NoFile, Earlier} /\ work = [c \in Transcribers |-> Blank]
    /\ audio = [c \in Transcribers |-> 1] /\ directoryLock = Nobody
    /\ step = [c \in Transcribers |-> "idle"] /\ backend = [c \in Transcribers |-> "none"]
    /\ audioSeen = [c \in Transcribers |-> 0] /\ staged = [c \in Transcribers |-> 0]
    /\ earlier = [c \in Transcribers |-> NoFile] /\ captured = [c \in Transcribers |-> NoFile]
    /\ text = [c \in Transcribers |-> NoFile] /\ program = [c \in Transcribers |-> "off"]
    /\ failed = [c \in Transcribers |-> FALSE] /\ spoilt = [c \in Transcribers |-> FALSE]
    /\ disturbed = [c \in Transcribers |-> FALSE] /\ transcriptionFaults = 0

At(c, s) == step[c] = s
Proceeds(c, s) == step' = [step EXCEPT ![c] = s]
Raises(c) == failed' = [failed EXCEPT ![c] = TRUE]
Quiet == UNCHANGED <<audio, disturbed>>
NoFiles == UNCHANGED <<shared, work>>

\* A write to the path the program of c was given.
WritesOutput(c, t) ==
    /\ shared' = IF backend[c] \in OnStem THEN t ELSE shared
    /\ work' = IF backend[c] \in OnStem THEN work ELSE [work EXCEPT ![c] = t]

\* Where the three functions go on.
AfterLock(c) == IF backend[c] \in {"cpp", "output"} THEN "stages" ELSE "snapshots"
AfterSnapshot(c) == IF backend[c] = "cpp" THEN "runs" ELSE "stages"
AfterStaging(c) == IF backend[c] = "cpp" THEN "snapshots" ELSE "runs"
AfterProgram(c) == IF backend[c] \in Templates THEN "unstages" ELSE "reads"
AfterFailure(c) == IF backend[c] \in Templates THEN "unstages" ELSE "captures"
AfterRestoring(c) == IF backend[c] \in Templates THEN "unlocks" ELSE "unstages"

\* What the audio file is, by metadata and digest, and whether it still is that.
Identified(c) == audioSeen' = [audioSeen EXCEPT ![c] = audio[c]]
SameAudio(c) == audio[c] = audioSeen[c]

\* Private copies killed commands have left, when they are old enough.
OldCopies == {d \in Transcribers : step[d] = "killed" /\ staged[d] # 0}
RemovesOld(c, copy) == \E old \in SUBSET OldCopies :
    staged' = [d \in Transcribers |-> IF d = c THEN copy ELSE IF d \in old THEN 0 ELSE staged[d]]

\* Whoever has the lock and uses <stem>.txt.
Disturbs(c) ==
    disturbed' = [d \in Transcribers |-> disturbed[d] \/ (d # c /\ directoryLock = d /\ backend[d] \in OnStem)]

(* --- before the program --------------------------------------------------- *)

FirstStep(b) == IF b = "remote" THEN "sends" ELSE "locks"

\* The backend is resolved and the audio identified.
Preflight(c) ==
    /\ At(c, "idle") /\ Identified(c)
    /\ \E b \in Backends : backend' = [backend EXCEPT ![c] = b] /\ Proceeds(c, FirstStep(b))
    /\ Quiet /\ NoFiles
    /\ UNCHANGED <<directoryLock, earlier, staged, program, captured, text, failed, spoilt, transcriptionFaults>>

\* The lock is not waited for: "transcript output namespace is busy".
IsBusy(c) ==
    /\ At(c, "locks") /\ directoryLock # Nobody /\ Raises(c) /\ Proceeds(c, "failed")
    /\ Quiet /\ NoFiles
    /\ UNCHANGED <<directoryLock, backend, audioSeen, earlier, staged, program, captured, text, spoilt, transcriptionFaults>>

Locks_Ignored(c) ==
    /\ At(c, "locks") /\ directoryLock' = c
    /\ Proceeds(c, AfterLock(c))
    /\ Quiet /\ NoFiles /\ UNCHANGED <<commandVars, transcriptionFaults>>

Locks(c) ==
    /\ At(c, "locks") /\ directoryLock = Nobody /\ directoryLock' = c
    /\ Proceeds(c, AfterLock(c))
    /\ Quiet /\ NoFiles /\ UNCHANGED <<commandVars, transcriptionFaults>>

Snapshots(c) ==
    /\ At(c, "snapshots") /\ Proceeds(c, AfterSnapshot(c))
    /\ earlier' = [earlier EXCEPT ![c] = Generated(c)]
    /\ Quiet /\ NoFiles
    /\ UNCHANGED <<directoryLock, backend, audioSeen, staged, program, captured, text, failed, spoilt, transcriptionFaults>>

\* The audio is copied into a private directory, unless it is not the one that
\* was seen.
Stages(c) ==
    /\ At(c, "stages") /\ SameAudio(c) /\ Proceeds(c, AfterStaging(c))
    /\ RemovesOld(c, audio[c])
    /\ Quiet /\ NoFiles
    /\ UNCHANGED <<directoryLock, backend, audioSeen, earlier, program, captured, text, failed, spoilt, transcriptionFaults>>

\* It is not, or cannot be copied: a template restores its file, the others have
\* no copy to remove.
FindsOtherAudio(c) ==
    /\ At(c, "stages") /\ Raises(c) /\ Proceeds(c, IF backend[c] \in Templates THEN "captures" ELSE "unlocks")
    /\ RemovesOld(c, 0)
    /\ Quiet /\ NoFiles
    /\ UNCHANGED <<directoryLock, backend, audioSeen, earlier, program, captured, text, spoilt, transcriptionFaults>>

(* --- the program ---------------------------------------------------------- *)

Starts(c) ==
    /\ At(c, "runs") /\ program[c] = "off" /\ program' = [program EXCEPT ![c] = "runs"]
    /\ Quiet /\ NoFiles
    /\ UNCHANGED <<directoryLock, step, backend, audioSeen, earlier, staged, captured, text, failed, spoilt, transcriptionFaults>>

\* The program opens its file, or has written all of it.
ProgramWrites(c) ==
    /\ At(c, "runs") /\ backend[c] # "output" /\ program[c] = "runs"
    /\ \/ Generated(c) # Begun(c) /\ WritesOutput(c, Begun(c)) /\ UNCHANGED program
       \/ WritesOutput(c, Transcript(c)) /\ program' = [program EXCEPT ![c] = "wrote"]
    /\ UNCHANGED <<audio, directoryLock, step, backend, audioSeen, earlier, staged, captured, text, failed, spoilt, disturbed, transcriptionFaults>>

\* A program with a file ends well, whether or not it has written it; what a
\* template printed is kept.
ProgramEnds(c) ==
    /\ At(c, "runs") /\ backend[c] # "output" /\ (program[c] = "wrote" \/ (program[c] = "runs" /\ Generated(c) = earlier[c]))
    /\ program' = [program EXCEPT ![c] = "off"] /\ Proceeds(c, AfterProgram(c))
    /\ text' = IF backend[c] \in Templates THEN [text EXCEPT ![c] = Transcript(c)] ELSE text
    /\ Quiet /\ NoFiles
    /\ UNCHANGED <<directoryLock, backend, audioSeen, earlier, staged, captured, failed, spoilt, transcriptionFaults>>

\* It does not start, fails, or is stopped at the deadline.
ProgramFails(c) ==
    /\ At(c, "runs") /\ backend[c] # "output" /\ program' = [program EXCEPT ![c] = "off"] /\ Raises(c)
    /\ Proceeds(c, AfterFailure(c))
    /\ Quiet /\ NoFiles
    /\ UNCHANGED <<directoryLock, backend, audioSeen, earlier, staged, captured, text, spoilt, transcriptionFaults>>

\* The worker of faster-whisper answers on its output, or a template with neither
\* placeholder.
WorkerAnswers(c) ==
    /\ At(c, "runs") /\ backend[c] = "output" /\ program[c] = "runs" /\ program' = [program EXCEPT ![c] = "off"]
    /\ text' = [text EXCEPT ![c] = Transcript(c)] /\ Proceeds(c, "unstages")
    /\ Quiet /\ NoFiles
    /\ UNCHANGED <<directoryLock, backend, audioSeen, earlier, staged, captured, failed, spoilt, transcriptionFaults>>

WorkerFails(c) ==
    /\ At(c, "runs") /\ backend[c] = "output" /\ program' = [program EXCEPT ![c] = "off"]
    /\ Raises(c) /\ Proceeds(c, "unstages")
    /\ Quiet /\ NoFiles
    /\ UNCHANGED <<directoryLock, backend, audioSeen, earlier, staged, captured, text, spoilt, transcriptionFaults>>

(* --- after it -------------------------------------------------------------- *)

IsWritten(c) == Generated(c) \notin {NoFile, earlier[c]}

\* The text and the file it is from, captured and read in one step.
ReadsText(c) ==
    /\ text' = [text EXCEPT ![c] = Generated(c)]
    /\ captured' = [captured EXCEPT ![c] = Generated(c)]

ReadsFile(c) ==
    /\ At(c, "reads") /\ IsWritten(c) /\ ReadsText(c) /\ Proceeds(c, "restores")
    /\ Quiet /\ NoFiles
    /\ UNCHANGED <<directoryLock, backend, audioSeen, earlier, staged, program, failed, spoilt, transcriptionFaults>>

\* It is too long, or not text.
CannotRead(c) ==
    /\ At(c, "reads") /\ IsWritten(c) /\ Raises(c) /\ Proceeds(c, "captures")
    /\ Quiet /\ NoFiles
    /\ UNCHANGED <<directoryLock, backend, audioSeen, earlier, staged, program, captured, text, spoilt, transcriptionFaults>>

\* A file that was not written is not an answer.  Whisper leaves the old one alone.
FindsNoFile(c) ==
    /\ At(c, "reads") /\ ~IsWritten(c) /\ (Generated(c) # NoFile \/ backend[c] \notin Templates) /\ Raises(c)
    /\ Proceeds(c, IF backend[c] = "whisper" /\ Generated(c) # NoFile THEN "unstages" ELSE "captures")
    /\ Quiet /\ NoFiles
    /\ UNCHANGED <<directoryLock, backend, audioSeen, earlier, staged, program, captured, text, spoilt, transcriptionFaults>>

\* Without a file before or after it, a template has answered on its output.
ReadsAnswer(c) ==
    /\ At(c, "reads") /\ Generated(c) = NoFile /\ backend[c] \in Templates /\ Proceeds(c, "unlocks")
    /\ Quiet /\ NoFiles
    /\ UNCHANGED <<directoryLock, commandVars, transcriptionFaults>>

\* _OutputCleanupTracker.capture: the file to undo, as it is after a failure.
Captures(c) ==
    /\ At(c, "captures") /\ captured' = [captured EXCEPT ![c] = Generated(c)] /\ Proceeds(c, "restores")
    /\ Quiet /\ NoFiles
    /\ UNCHANGED <<directoryLock, backend, audioSeen, earlier, staged, program, text, failed, spoilt, transcriptionFaults>>

\* The earlier file comes back, or the new one is removed.
PutsBack(c) == WritesOutput(c, earlier[c])

\* cleanup_once: if the file is the captured one.
RestoresEarlier(c) ==
    /\ At(c, "restores") /\ (failed[c] \/ backend[c] # "text") /\ Generated(c) = captured[c] /\ PutsBack(c) /\ Proceeds(c, AfterRestoring(c))
    /\ Quiet /\ UNCHANGED <<directoryLock, commandVars, transcriptionFaults>>

\* The text of a template with {text} stays on the work path the caller owns.
LeavesWork(c) ==
    /\ At(c, "restores") /\ backend[c] = "text" /\ ~failed[c] /\ Proceeds(c, "unlocks")
    /\ Quiet /\ NoFiles /\ UNCHANGED <<directoryLock, commandVars, transcriptionFaults>>

\* It is another file now, or both attempts failed: the call raises, or the error
\* it raises gets a note.
CannotRestore(c) ==
    /\ At(c, "restores") /\ (failed[c] \/ backend[c] # "text") /\ Proceeds(c, AfterRestoring(c)) /\ Raises(c)
    /\ spoilt' = [spoilt EXCEPT ![c] = TRUE]
    /\ \/ Generated(c) # captured[c] /\ UNCHANGED transcriptionFaults
       \/ transcriptionFaults < MaxTranscriptionFaults /\ transcriptionFaults' = transcriptionFaults + 1
    /\ Quiet /\ NoFiles
    /\ UNCHANGED <<directoryLock, backend, audioSeen, earlier, staged, program, captured, text>>

\* The private copy goes; when it cannot, a call that would have returned raises.
Unstages(c) ==
    /\ At(c, "unstages")
    /\ \/ staged' = [staged EXCEPT ![c] = 0] /\ UNCHANGED <<failed, transcriptionFaults>>
       \/ transcriptionFaults < MaxTranscriptionFaults /\ transcriptionFaults' = transcriptionFaults + 1 /\ Raises(c) /\ UNCHANGED staged
    /\ Proceeds(c, IF backend[c] \notin Templates THEN "unlocks" ELSE IF failed'[c] THEN "captures" ELSE "reads")
    /\ Quiet /\ NoFiles
    /\ UNCHANGED <<directoryLock, backend, audioSeen, earlier, program, captured, text, spoilt>>

\* An empty text, or the placeholder of a program that heard nothing, is refused;
\* so is the call when the lock is not let go of properly.
Refuses(c) ==
    /\ At(c, "unlocks") /\ ~failed[c] /\ Raises(c)
    /\ Quiet /\ NoFiles
    /\ UNCHANGED <<directoryLock, step, backend, audioSeen, earlier, staged, program, captured, text, spoilt, transcriptionFaults>>

Unlocks(c) ==
    /\ At(c, "unlocks") /\ directoryLock' = Nobody
    /\ Proceeds(c, IF failed[c] THEN "failed" ELSE "returned")
    /\ Quiet /\ NoFiles /\ UNCHANGED <<commandVars, transcriptionFaults>>

(* --- the remote API -------------------------------------------------------- *)

\* The request carries the audio, read again.
Asks(c) == SameAudio(c)
Answered(c) == text' = [text EXCEPT ![c] = Text(c, audio[c])] /\ Proceeds(c, "returned")

\* It is answered, refused for its service tier, or fails.
Sends(c) ==
    /\ At(c, "sends") /\ Quiet /\ NoFiles
    /\ \/ Asks(c) /\ Answered(c) /\ UNCHANGED failed
       \/ Asks(c) /\ Proceeds(c, "resends") /\ UNCHANGED <<text, failed>>
       \/ Raises(c) /\ Proceeds(c, "failed") /\ UNCHANGED text
    /\ UNCHANGED <<directoryLock, backend, audioSeen, earlier, staged, program, captured, spoilt, transcriptionFaults>>

\* Once more, without the service tier, under the same deadline.
Resends(c) ==
    /\ At(c, "resends") /\ Quiet /\ NoFiles
    /\ \/ Asks(c) /\ Answered(c) /\ UNCHANGED failed
       \/ Raises(c) /\ Proceeds(c, "failed") /\ UNCHANGED text
    /\ UNCHANGED <<directoryLock, backend, audioSeen, earlier, staged, program, captured, spoilt, transcriptionFaults>>

(* --- the others ------------------------------------------------------------ *)

\* The command line stores the transcript, without the lock.
Stores(c) ==
    /\ At(c, "returned") /\ shared' = text[c] /\ Proceeds(c, "stored") /\ Disturbs(c)
    /\ UNCHANGED <<work, audio, directoryLock, commandVars, transcriptionFaults>>

\* The kernel drops the lock of a killed command; its program may go on.
CommandKilled(c) ==
    /\ step[c] \notin {"idle", "returned", "stored", "failed", "killed"} /\ Proceeds(c, "killed")
    /\ directoryLock' = IF directoryLock = c THEN Nobody ELSE directoryLock
    /\ \/ UNCHANGED program
       \/ program[c] # "off" /\ program' = [program EXCEPT ![c] = "off"]
    /\ Quiet /\ NoFiles
    /\ UNCHANGED <<backend, audioSeen, earlier, staged, captured, text, failed, spoilt, transcriptionFaults>>

OrphanWrites(c) ==
    /\ At(c, "killed") /\ program[c] = "runs" /\ backend[c] \in OnStem
    /\ shared' = Text(c, audioSeen[c]) /\ program' = [program EXCEPT ![c] = "off"] /\ Disturbs(c)
    /\ UNCHANGED <<work, audio, directoryLock, step, backend, audioSeen, earlier, staged, captured, text, failed, spoilt, transcriptionFaults>>

\* The audio is replaced, between being identified and being read: before and
\* after it makes no difference to the call.
AudioChanges(c) ==
    /\ step[c] \in {"locks", "snapshots", "stages", "sends", "resends"} /\ audio[c] = 1 /\ audio' = [audio EXCEPT ![c] = 2]
    /\ NoFiles /\ UNCHANGED <<directoryLock, step, commandVars, disturbed, transcriptionFaults>>

TranscriptionNext == \E c \in Transcribers :
    \/ Preflight(c) \/ IsBusy(c) \/ Locks(c) \/ Snapshots(c) \/ Stages(c) \/ FindsOtherAudio(c)
    \/ Starts(c) \/ ProgramWrites(c) \/ ProgramEnds(c) \/ ProgramFails(c) \/ WorkerAnswers(c) \/ WorkerFails(c)
    \/ ReadsFile(c) \/ CannotRead(c) \/ FindsNoFile(c) \/ ReadsAnswer(c) \/ Captures(c) \/ RestoresEarlier(c) \/ LeavesWork(c) \/ CannotRestore(c)
    \/ Unstages(c) \/ Refuses(c) \/ Unlocks(c) \/ Sends(c) \/ Resends(c)
    \/ Stores(c) \/ CommandKilled(c) \/ OrphanWrites(c) \/ AudioChanges(c)

TranscriptionSpec == TranscriptionInit /\ [][TranscriptionNext]_transcriptionVars

(***************************************************************************)
(* Properties.  The two writers the lock does not keep out are a transcript *)
(* that is stored and the program of a killed command: nothing is said of a *)
(* call they have disturbed.                                                *)
(***************************************************************************)

\* A call returns what its own program made of the audio it has seen, although
\* another command's program writes to the same file and the audio is replaced.
TextIsOwn ==
    \A c \in Transcribers : step[c] \in {"returned", "stored"} /\ ~disturbed[c] => text[c] = Text(c, audioSeen[c])

\* When a call lets go of the lock, the earlier transcript is there as it was,
\* however its program ended, unless the call says it could not put it back.
EarlierIsBack ==
    \A c \in Transcribers :
       step[c] = "unlocks" /\ backend[c] \in OnStem /\ ~disturbed[c] /\ ~spoilt[c] => shared = earlier[c]

TranscribesCleanly == TextIsOwn /\ EarlierIsBack
=============================================================================
