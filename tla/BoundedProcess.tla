--------------------------- MODULE BoundedProcess ---------------------------
(***************************************************************************)
(* Running one command with a deadline and a limit to its output            *)
(* (run_process_bounded_output of command_chain.py).  A thread of its own   *)
(* creates the process, because that may take longer than the deadline; the *)
(* caller takes the process over, reads its output, and ends it and what it *)
(* has started.  A local model runs under a supervisor that answers with a  *)
(* frame on a status pipe.                                                  *)
(*                                                                         *)
(* The user may interrupt the caller while it waits or makes a call, and an *)
(* error of that call takes the same way; that an interrupt comes between   *)
(* two statements is left out.  What the command starts is one process that *)
(* may keep the pipes open.  Handing the process over does not fail.        *)
(***************************************************************************)
EXTENDS Naturals

CONSTANT MaxInterrupts
BoundedAssumption == MaxInterrupts \in Nat

VARIABLES
    caller,           \* where the caller is
    worker,           \* where the thread is
    root,             \* the process
    kid,              \* what it has started: it holds the pipes
    published,        \* the thread has handed the process over
    known,            \* the caller has the process
    identity,         \* _soc_process_identity is set
    direct,           \* a local model under its supervisor
    readEnd, writeEnd,  \* the caller's ends of the status pipe
    frame,            \* what was read from it
    late,             \* the deadline has passed
    attempt,          \* attempts of this cleanup that were interrupted
    confirmed,        \* what the last cleanup has returned
    outcome,          \* how the call ends
    noted,            \* its error says that the cleanup was not confirmed, or the supervisor failed
    interrupts

processVars == <<root, kid>>
launchVars == <<worker, published>>
pipeVars == <<readEnd, writeEnd, frame>>
callVars == <<direct, late, interrupts>>
boundedVars == <<caller, launchVars, processVars, known, identity, pipeVars, callVars,
                 attempt, confirmed, outcome, noted>>

BoundedTypeOK ==
    /\ caller \in {"opens", "starts", "awaits", "joins", "takes", "identifies", "reads", "drains", "finishes",
                   "kills", "collects", "concludes", "closes", "ended"}
    /\ worker \in {"none", "spawns", "publishes", "done"}
    /\ root \in {"none", "runs", "killed", "zombie", "reaped"} /\ kid \in {"none", "lives", "dead"}
    /\ {published, known, identity, direct, late, confirmed, noted} \subseteq BOOLEAN
    /\ {readEnd, writeEnd} \subseteq {"none", "open", "closed"}
    /\ frame \in {"unread", "whole", "partial"} /\ attempt \in 0..2
    /\ outcome \in {"none", "ok", "error"} /\ interrupts \in 0..MaxInterrupts

BoundedInit ==
    /\ caller = "opens" /\ worker = "none" /\ root = "none" /\ kid = "none"
    /\ published = FALSE /\ known = FALSE /\ identity = FALSE /\ direct \in BOOLEAN
    /\ readEnd = "none" /\ writeEnd = "none" /\ frame = "unread"
    /\ late = FALSE /\ attempt = 0 /\ confirmed = FALSE /\ outcome = "none" /\ noted = FALSE
    /\ interrupts = 0

Exists == root \in {"runs", "killed", "zombie"}
Closed(end) == IF end = "open" THEN "closed" ELSE end

-----------------------------------------------------------------------------
(* The process and the thread that creates it                              *)

Spawns ==
    /\ worker = "spawns" /\ worker' = "publishes" /\ root' = "runs"
    /\ UNCHANGED <<caller, published, kid, known, identity, pipeVars, callVars, attempt, confirmed, outcome, noted>>

SpawnFails ==
    /\ worker = "spawns" /\ worker' = "done"
    /\ UNCHANGED <<caller, published, processVars, known, identity, pipeVars, callVars,
                   attempt, confirmed, outcome, noted>>

Publishes ==
    /\ worker = "publishes" /\ worker' = "done" /\ published' = TRUE
    /\ UNCHANGED <<caller, processVars, known, identity, pipeVars, callVars, attempt, confirmed, outcome, noted>>

Forks ==
    /\ root = "runs" /\ kid = "none" /\ kid' = "lives"
    /\ UNCHANGED <<caller, launchVars, root, known, identity, pipeVars, callVars, attempt, confirmed, outcome, noted>>

RootEnds ==
    /\ root \in {"runs", "killed"} /\ root' = "zombie"
    /\ UNCHANGED <<caller, launchVars, kid, known, identity, pipeVars, callVars, attempt, confirmed, outcome, noted>>

KidEnds ==
    /\ kid = "lives" /\ kid' = "dead"
    /\ UNCHANGED <<caller, launchVars, root, known, identity, pipeVars, callVars, attempt, confirmed, outcome, noted>>

DeadlinePasses ==
    /\ ~late /\ late' = TRUE
    /\ UNCHANGED <<caller, launchVars, processVars, known, identity, pipeVars, direct, interrupts,
                   attempt, confirmed, outcome, noted>>

-----------------------------------------------------------------------------
(* Launching                                                               *)

Opens ==
    /\ caller = "opens" /\ caller' = "starts"
    /\ readEnd' = IF direct THEN "open" ELSE "none"
    /\ writeEnd' = readEnd'
    /\ UNCHANGED <<launchVars, processVars, known, identity, frame, callVars, attempt, confirmed, outcome, noted>>

OpenFails ==
    /\ caller = "opens" /\ caller' = "closes" /\ outcome' = "error"
    /\ UNCHANGED <<launchVars, processVars, known, identity, pipeVars, callVars, attempt, confirmed, noted>>

\* The deadline has passed, or there is no thread to be had: nothing is started.
StartsThread ==
    /\ caller = "starts"
    /\ \/ ~late /\ caller' = "awaits" /\ worker' = "spawns" /\ UNCHANGED outcome
       \/ caller' = "closes" /\ outcome' = "error" /\ UNCHANGED worker
    /\ UNCHANGED <<published, processVars, known, identity, pipeVars, callVars, attempt, confirmed, noted>>

Awaits ==
    /\ caller = "awaits" /\ (late \/ worker = "done") /\ caller' = "joins"
    /\ outcome' = IF late THEN "error" ELSE outcome
    /\ UNCHANGED <<launchVars, processVars, known, identity, pipeVars, callVars, attempt, confirmed, noted>>

\* What the thread has handed over so far.
Joins_NotWaiting ==
    /\ caller = "joins" /\ caller' = "takes" /\ known' = published
    /\ UNCHANGED <<launchVars, processVars, identity, pipeVars, callVars, attempt, confirmed, outcome, noted>>

Joins ==
    /\ caller = "joins" /\ worker = "done" /\ caller' = "takes" /\ known' = published
    /\ UNCHANGED <<launchVars, processVars, identity, pipeVars, callVars, attempt, confirmed, outcome, noted>>

\* The caller's write end is closed in any case, so that the frame can end.  A
\* process whose launch has failed this late is ended; its identity is read for
\* that, if it can be.
Takes ==
    /\ caller = "takes" /\ writeEnd' = Closed(writeEnd)
    /\ \/ ~known /\ caller' = "closes" /\ outcome' = "error" /\ UNCHANGED identity
       \/ known /\ outcome = "none" /\ caller' = "identifies" /\ UNCHANGED <<outcome, identity>>
       \/ known /\ (outcome = "error" \/ direct)
          /\ caller' = "kills" /\ outcome' = "error" /\ identity' \in BOOLEAN
    /\ UNCHANGED <<launchVars, processVars, known, readEnd, frame, callVars, attempt, confirmed, noted>>

\* Without an identity the process is killed at once.
Identifies ==
    /\ caller = "identifies"
    /\ \/ identity' = TRUE /\ caller' = "reads" /\ UNCHANGED outcome
       \/ caller' = "kills" /\ outcome' = "error" /\ UNCHANGED identity
    /\ UNCHANGED <<launchVars, processVars, known, pipeVars, callVars, attempt, confirmed, noted>>

-----------------------------------------------------------------------------
(* Reading                                                                 *)

SeesExit ==
    /\ caller = "reads" /\ root = "zombie" /\ root' = "reaped" /\ caller' = "drains"
    /\ UNCHANGED <<launchVars, kid, known, identity, pipeVars, callVars, attempt, confirmed, outcome, noted>>

\* The pipes are at their end, or the process has ended some time ago.
StopsReading ==
    /\ \/ caller = "drains"
       \/ caller = "reads" /\ kid # "lives"
    /\ caller' = "finishes"
    /\ UNCHANGED <<launchVars, processVars, known, identity, pipeVars, callVars, attempt, confirmed, outcome, noted>>

TimesOut_OnlyReading ==
    /\ late /\ caller = "reads" /\ caller' = "kills" /\ outcome' = "error"
    /\ UNCHANGED <<launchVars, processVars, known, identity, pipeVars, callVars, attempt, confirmed, noted>>

TimesOut ==
    /\ late /\ caller \in {"reads", "finishes"} /\ root # "reaped"
    /\ caller' = "kills" /\ outcome' = "error"
    /\ UNCHANGED <<launchVars, processVars, known, identity, pipeVars, callVars, attempt, confirmed, noted>>

TooMuch ==
    /\ caller \in {"reads", "drains"} /\ caller' = "kills" /\ outcome' = "error"
    /\ UNCHANGED <<launchVars, processVars, known, identity, pipeVars, callVars, attempt, confirmed, noted>>

\* The process is waited for, and what it has left behind is ended.
Finishes ==
    /\ caller = "finishes" /\ root \in {"zombie", "reaped"} /\ root' = "reaped" /\ caller' = "kills"
    /\ UNCHANGED <<launchVars, kid, known, identity, pipeVars, callVars, attempt, confirmed, outcome, noted>>

-----------------------------------------------------------------------------
(* The cleanup                                                             *)

\* The process and, if it was identified, whatever holds its pipes; the
\* supervisor of a local model is told to end, and ends its own.
KillsChild ==
    /\ caller = "kills" /\ caller' = "collects"
    /\ root' = IF root = "runs" THEN "killed" ELSE root
    /\ kid' \in CASE kid # "lives" -> {kid}
                   [] identity /\ ~direct -> {"dead"}
                   [] OTHER -> {"lives", "dead"}
    /\ UNCHANGED <<launchVars, known, identity, pipeVars, callVars, attempt, confirmed, outcome, noted>>

\* A scan, the identity or pidfd_open fails.
KillFails ==
    /\ caller \in {"kills", "collects"} /\ caller' = "concludes" /\ confirmed' = FALSE
    /\ UNCHANGED <<launchVars, processVars, known, identity, pipeVars, callVars, attempt, outcome, noted>>

\* The frame of a supervisor is whole once nobody has the pipe open any more.
ReadsFrame ==
    /\ readEnd' = Closed(readEnd)
    /\ frame' \in IF ~direct THEN {frame}
                  ELSE IF frame # "unread" THEN {frame}
                  ELSE IF writeEnd = "open" THEN {"partial"} ELSE {"whole", "partial"}

Collects ==
    /\ caller = "collects" /\ root \in {"zombie", "reaped"} /\ root' = "reaped"
    /\ caller' = "concludes" /\ ReadsFrame
    /\ confirmed' = (direct => frame' = "whole")
    /\ UNCHANGED <<launchVars, kid, known, identity, writeEnd, callVars, attempt, outcome, noted>>

\* A confirmed cleanup is not enough: the scan at the exit may have been
\* incomplete, or the frame may say that the deadline has passed.
Concludes ==
    /\ caller = "concludes" /\ caller' = "closes"
    /\ outcome' \in IF outcome = "none" /\ confirmed THEN {"ok", "error"} ELSE {"error"}
    /\ noted' = ~confirmed
    /\ UNCHANGED <<launchVars, processVars, known, identity, pipeVars, callVars, attempt, confirmed>>

\* A close that fails is an error, and is not repeated.
Closes ==
    /\ caller = "closes" /\ caller' = "ended"
    /\ readEnd' = Closed(readEnd) /\ writeEnd' = Closed(writeEnd)
    /\ outcome' \in {outcome, "error"}
    /\ UNCHANGED <<launchVars, processVars, known, identity, frame, callVars, attempt, confirmed, noted>>

-----------------------------------------------------------------------------
(* Interrupts                                                              *)

Interrupted(next) ==
    /\ interrupts < MaxInterrupts /\ interrupts' = interrupts + 1
    /\ caller' = next /\ outcome' = "error"

\* Before there is a process, while the thread is waited for, afterwards.
InterruptsCall ==
    /\ \/ caller = "opens" /\ Interrupted("closes") /\ UNCHANGED identity
       \/ caller \in {"awaits", "joins"} /\ Interrupted("joins") /\ UNCHANGED identity
       \/ caller = "identifies" /\ Interrupted("kills") /\ identity' \in BOOLEAN
       \/ caller \in {"reads", "drains", "finishes"} /\ Interrupted("kills") /\ UNCHANGED identity
    /\ UNCHANGED <<launchVars, processVars, known, pipeVars, direct, late, attempt, confirmed, noted>>

\* A cleanup that is interrupted is tried once more.
InterruptsCleanup ==
    /\ caller \in {"kills", "collects"} /\ attempt < 2
    /\ interrupts < MaxInterrupts /\ interrupts' = interrupts + 1
    /\ attempt' = attempt + 1
    /\ IF attempt' = 2
       THEN caller' = "concludes" /\ confirmed' = FALSE
       ELSE caller' = "kills" /\ UNCHANGED confirmed
    /\ UNCHANGED <<launchVars, processVars, known, identity, pipeVars, direct, late, outcome, noted>>

BoundedNext ==
    \/ Spawns \/ SpawnFails \/ Publishes \/ Forks \/ RootEnds \/ KidEnds \/ DeadlinePasses
    \/ Opens \/ OpenFails \/ StartsThread \/ Awaits \/ Joins \/ Takes \/ Identifies
    \/ SeesExit \/ StopsReading \/ TimesOut \/ TooMuch \/ Finishes
    \/ KillsChild \/ KillFails \/ Collects \/ Concludes \/ Closes \/ InterruptsCall \/ InterruptsCleanup

BoundedSpec == BoundedInit /\ [][BoundedNext]_boundedVars

\* The caller and the thread go on, the clock does, and what is killed ends.
BoundedFair(n) ==
    \/ n = 1 /\ (Opens \/ StartsThread \/ Awaits \/ Joins \/ Takes \/ Identifies \/ Finishes
                 \/ KillsChild \/ Collects \/ Concludes \/ Closes)
    \/ n = 2 /\ caller = "drains" /\ StopsReading
    \/ n = 3 /\ SeesExit
    \/ n = 4 /\ TimesOut
    \/ n = 5 /\ (Spawns \/ SpawnFails \/ Publishes)
    \/ n = 6 /\ DeadlinePasses
    \/ n = 7 /\ root = "killed" /\ RootEnds

BoundedFairness == \A n \in 1..7 : WF_boundedVars(BoundedFair(n))

-----------------------------------------------------------------------------
\* No command is lost: a call that has ended has collected the process it
\* started, or says that its cleanup was not confirmed; a call that reports
\* success has collected it, and neither end of the status pipe is left open.
ProcessAccounted ==
    caller = "ended" =>
        /\ Exists \/ worker \in {"spawns", "publishes"} => noted
        /\ outcome = "ok" => root = "reaped"
        /\ readEnd # "open" /\ writeEnd # "open"

\* A call ends, whatever the command and what it has started do: both may live
\* on and keep the pipes open.
CallHasEnded == caller = "ended"

=============================================================================
