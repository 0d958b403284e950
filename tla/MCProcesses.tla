---------------------------- MODULE MCProcesses -----------------------------
(* What must come to its end, side by side: the commands at the            *)
(* finalization lock, the processes that supervise others, the cleanup of  *)
(* an interrupted cancel, and the state store, whose writers are not       *)
(* killed here.  They share no state; a behaviour is one of a part.        *)
EXTENDS StateStore, CleanupClaims, ReadyAckGate, DirectSupervisor

CONSTANTS p1, p2, NoFile, Procs, Past, MaxRedirects, MaxSignals, MaxInterrupts

VARIABLES
    part,   \* the module a behaviour is one of
    path, away, lockBody, anchors, ctime, os, scope, lockPc, snap, mine,
    ownerRead, anchorRead, lockAttempt, goal,
    remoteSupervisor, remoteWorker, exitStatus, signalled, parentIs,
    armed, request, controlOpen, release, answer, redirects, fellBack,
    remoteLate, seenAfterRequest, remoteCleanupOk, candidate, response,
    scopedSupervisor, status, latch, socket, child, sent, runs, file,
    expected, held, scopedBound, primary, forwarded, scopedPending,
    scopedCleaning, signals,
    caller, boundedWorker, root, kid, published, boundedKnown, identity,
    direct, readEnd, writeEnd, boundedFrame, boundedLate,
    boundedAttempt, confirmed, boundedOutcome, noted, interrupts

Locking == INSTANCE FinalizationLock WITH
    body <- lockBody, pc <- lockPc, attempt <- lockAttempt
Remote == INSTANCE RemoteOperation WITH
    supervisor <- remoteSupervisor, worker <- remoteWorker,
    late <- remoteLate, cleanupOk <- remoteCleanupOk
Scoped == INSTANCE ScopedCommand WITH
    supervisor <- scopedSupervisor, bound <- scopedBound,
    pending <- scopedPending, cleaning <- scopedCleaning
Bounded == INSTANCE BoundedProcess WITH
    worker <- boundedWorker, known <- boundedKnown,
    frame <- boundedFrame, late <- boundedLate,
    attempt <- boundedAttempt, outcome <- boundedOutcome
lockPart == <<path, away, lockBody, anchors, ctime, os, scope, lockPc, snap,
              mine, ownerRead, anchorRead, lockAttempt, goal>>
remotePart == <<remoteSupervisor, remoteWorker, exitStatus, signalled,
                parentIs, armed, request, controlOpen, release, answer,
                redirects, fellBack, remoteLate, seenAfterRequest,
                remoteCleanupOk, candidate, response>>
scopedPart == <<scopedSupervisor, status, latch, socket, child, sent, runs,
                file, expected, held, scopedBound, primary, forwarded,
                scopedPending, scopedCleaning, signals>>
boundedPart == <<caller, boundedWorker, root, kid, published, boundedKnown,
                 identity, direct, readEnd, writeEnd, boundedFrame,
                 boundedLate, boundedAttempt, confirmed, boundedOutcome,
                 noted, interrupts>>

allVars == <<part, lockPart, gateVars, directVars, claimVars, remotePart,
             scopedPart, boundedPart, vars>>

\* A part that a behaviour is not about stays in one initial state.
AllInit ==
    /\ part \in {"lock", "gate", "direct", "claims", "remote", "scoped", "bounded", "store"}
    /\ Locking!Init /\ (part = "lock" \/ path = NoFile)
    /\ GateInit
    /\ DirectInit
    /\ ClaimsInit /\ (part = "claims" \/ (form = "none" /\ \A a \in Artifacts : name[a] = "owner"))
    /\ Remote!RemoteInit
    /\ Scoped!ScopedInit /\ (part = "scoped" \/ ~status)
    /\ Bounded!BoundedInit /\ (part = "bounded" \/ ~direct)
    /\ Init

AllNext ==
    /\ UNCHANGED part
    /\ IF part = "lock" THEN Locking!Next ELSE UNCHANGED lockPart
    /\ IF part = "gate" THEN GateNext ELSE UNCHANGED gateVars
    /\ IF part = "direct" THEN DirectNext ELSE UNCHANGED directVars
    /\ IF part = "claims" THEN ClaimsNext ELSE UNCHANGED claimVars
    /\ IF part = "remote" THEN Remote!RemoteNext ELSE UNCHANGED remotePart
    /\ IF part = "scoped" THEN Scoped!ScopedNext ELSE UNCHANGED scopedPart
    /\ IF part = "bounded" THEN Bounded!BoundedNext ELSE UNCHANGED boundedPart
    /\ IF part = "store" THEN Next ELSE UNCHANGED vars

AllSpec == AllInit /\ [][AllNext]_allVars
-----------------------------------------------------------------------------
\* The fairness each module states, of its part: its n-th fair step.
Fair(n) ==
    /\ UNCHANGED part
    /\ CASE part = "lock" -> (n = 1 /\ Locking!Command(p1)) \/ (n = 2 /\ Locking!Command(p2))
         [] part = "gate" -> GateFair(n)
         [] part = "direct" -> DirectFair(n)
         [] part = "claims" -> ClaimsFair(n)
         [] part = "remote" -> Remote!RemoteFair(n)
         [] part = "scoped" -> Scoped!ScopedFair(n)
         [] part = "bounded" -> Bounded!BoundedFair(n)
         [] part = "store" -> FALSE

\* The variables of the part.
partVars ==
    CASE part = "lock" -> lockPart [] part = "gate" -> gateVars [] part = "direct" -> directVars
      [] part = "claims" -> claimVars [] part = "remote" -> remotePart
      [] part = "scoped" -> scopedPart [] part = "bounded" -> boundedPart
      [] part = "store" -> vars

FairAll ==
    /\ AllSpec
    /\ \A n \in 1..8 : WF_partVars(Fair(n))
    /\ SF_partVars(UNCHANGED part /\ part = "direct" /\ PhaseEnds)

ASSUME ProcessesConstants ==
    /\ Remote!RemoteAssumption
    /\ Scoped!ScopedAssumption
    /\ Bounded!BoundedAssumption

\* The variables of each module have the values it says.
ProcessTypesOK ==
    CASE part = "lock" -> Locking!TypeOK
      [] part = "gate" -> GateTypeOK
      [] part = "direct" -> SupervisorTypeOK
      [] part = "claims" -> ClaimsTypeOK
      [] part = "remote" -> Remote!RemoteTypeOK
      [] part = "scoped" -> Scoped!ScopedTypeOK
      [] part = "bounded" -> Bounded!BoundedTypeOK
      [] part = "store" -> TypeOK

\* process_priority.py - the model runs only if the gate's caller knows that
\* it may; a scoped command runs once, and it is the file that was checked.
RunsAsChecked ==
    /\ part = "gate" => RunsOnlyReleased
    /\ part = "scoped" => Scoped!CommandRunsOnce /\ Scoped!ExecutesChecked

\* process_priority.py, remote_http.py, command_chain.py - a supervisor that
\* says nothing is left is right, and one that was signalled says so.
NothingOutlives ==
    /\ part = "direct" => EmptyIsEmpty /\ SignalKept
    /\ part = "remote" => Remote!AnsweredAlone
    /\ part = "bounded" => Bounded!ProcessAccounted

\* Whatever is waited for, supervised or cleaned up comes to its end: the
\* commands at the lock; a gate, its directory and its wrapper; the root of a
\* supervised tree; the claims of a cancel; a remote operation and its
\* worker; a signalled command; a bounded call.
EverythingEnds ==
    (CASE part = "gate" -> GateMustEnd
       [] part = "direct" -> RootMustEnd
       [] part = "scoped" -> primary
       [] part \in {"lock", "claims", "remote", "bounded"} -> TRUE
       [] part = "store" -> FALSE)
    ~>
    (CASE part = "lock" -> Locking!CommandsHaveEnded
       [] part = "gate" -> GateHasEnded
       [] part = "direct" -> RootHasEnded
       [] part = "claims" -> CleanupHasEnded
       [] part = "remote" -> Remote!RemoteHasEnded
       [] part = "scoped" -> Scoped!SignalHasEnded
       [] part = "bounded" -> Bounded!CallHasEnded
       [] part = "store" -> TRUE)
=============================================================================
