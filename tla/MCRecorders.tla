---------------------------- MODULE MCRecorders -----------------------------
(* The commands around a recorder, how one is started and how one is       *)
(* stopped, and the alarms, side by side: Recording, twice, RecorderStart,  *)
(* RecorderStop and Alarms.  They share no state; a behaviour is one of a   *)
(* part.                                                                    *)
EXTENDS Recording, Alarms, TLC

CONSTANTS c1, c2, k1, k2, Leader, Kids, NoPrey, ScansFail

MCDays == {{0, 1}, {1}}


VARIABLES
    part,   \* the module a behaviour is one of
    escapedOp, escapedPc, escapedTry, escapedStore, escapedLock,
    escapedProc, escapedScoped, escapedFile,
    stopScoped, vanished, stopLife, stopApart, now, phase, at, known,
    scopeTold, loop, todo, prey, pidfd, answer, struck,
    startScoped, startLife, startApart, quiet, members, start, identity,
    verified, finished, tree, complete

Escaped == INSTANCE Recording WITH
    op <- escapedOp, pc <- escapedPc, try <- escapedTry,
    store <- escapedStore, lock <- escapedLock, proc <- escapedProc,
    scoped <- escapedScoped, file <- escapedFile, Cmds <- {c1, c2},
    Backends <- 2, EscapesWrapping <- TRUE
Stopping == INSTANCE RecorderStop WITH
    scoped <- stopScoped, life <- stopLife, apart <- stopApart
Starting == INSTANCE RecorderStart WITH
    scoped <- startScoped, life <- startLife, apart <- startApart
escapedPart == <<escapedOp, escapedPc, escapedTry, escapedStore, escapedLock,
                 escapedProc, escapedScoped, escapedFile>>
stopPart == <<stopScoped, vanished, stopLife, stopApart, now, phase, at,
              known, scopeTold, loop, todo, prey, pidfd, answer, struck>>
startPart == <<startScoped, startLife, startApart, quiet, members, start,
               identity, verified, finished, tree, complete>>

allVars == <<part, vars, escapedPart, stopPart, startPart, alarmVars>>

\* A part that a behaviour is not about stays in one initial state.
AllInit ==
    /\ part \in {"record", "escaped", "stop", "start", "alarms"}
    /\ Init
    /\ Escaped!Init
    /\ Stopping!StopInit /\ (part = "stop" \/ ~stopScoped)
    /\ Starting!StartInit /\ (part = "start" \/ ~startScoped)
    /\ AlarmInit

AllNext ==
    /\ UNCHANGED part
    /\ IF part = "record" THEN Next ELSE UNCHANGED vars
    /\ IF part = "escaped" THEN Escaped!Next ELSE UNCHANGED escapedPart
    /\ IF part = "stop" THEN Stopping!StopNext ELSE UNCHANGED stopPart
    /\ IF part = "start" THEN Starting!StartNext ELSE UNCHANGED startPart
    /\ IF part = "alarms" THEN AlarmNext ELSE UNCHANGED alarmVars

AllSpec == AllInit /\ [][AllNext]_allVars
-----------------------------------------------------------------------------
\* Two commands, and two processes of a recorder, change places.
Swap == (c1 :> c2) @@ (c2 :> c1) @@ (k1 :> k2) @@ (k2 :> k1)
Symmetry == {[x \in DOMAIN Swap |-> IF swapped THEN Swap[x] ELSE x] : swapped \in BOOLEAN}

ASSUME RecordersConstants == Escaped!RecordingAssumption /\ Stopping!StopAssumption /\ Starting!StartAssumption

\* The variables of each module have the values it says.
RecorderTypesOK ==
    CASE part = "record" -> TypeOK
      [] part = "escaped" -> Escaped!TypeOK
      [] part = "stop" -> Stopping!StopTypeOK
      [] part = "start" -> Starting!StartTypeOK
      [] part = "alarms" -> AlarmTypeOK

\* recorder.py - only what belongs to a recorder is ever signalled; when it
\* was stopped, or its start has failed cleanly, nothing of it is left.
RecordersAreGone ==
    /\ part = "stop" => Stopping!SignalsOwn /\ Stopping!StoppedMeansGone
    /\ part = "start" => Starting!FailedStartIsClean

\* recorder.py:3986 - even when start_recorder raises past its own error type,
\* so that a recorder runs which nobody knows of, no audio is transcribed or
\* removed while it is written.
EscapedAudioKept == []Escaped!TranscribesStopped /\ Escaped!LiveAudioKept
=============================================================================
