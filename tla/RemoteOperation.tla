-------------------------- MODULE RemoteOperation --------------------------
(***************************************************************************)
(* remote_http.py and remote_http_worker.py: one request to a model server *)
(* is made by a worker process of its own, which a supervisor starts,      *)
(* feeds through a control socket, and answers for.                        *)
(*                                                                         *)
(* The worker writes its answer, closes its output, and then waits: only   *)
(* when the supervisor has read the whole answer and sent the release for  *)
(* it does the worker exit, with a status that agrees with the answer.  A  *)
(* response is returned only when the worker was seen to be gone.          *)
(*                                                                         *)
(* The deadline of the network comes first, `late` = 1, and the one of the *)
(* cleanup after it, `late` = 2.  A failing call is a choice of the step.  *)
(* The worker cannot fork (_install_no_fork_boundary), so the scans for    *)
(* its descendants find none: they only succeed or fail.  A request is     *)
(* sent in two parts, and so is an answer.                                 *)
(***************************************************************************)
EXTENDS Naturals

CONSTANT MaxRedirects
RemoteAssumption == MaxRedirects \in Nat

VARIABLES
    supervisor,     \* where _run_operation is
    worker,         \* where the worker is
    exitStatus,     \* what the worker ended with
    signalled,      \* the signal on its way to the worker
    parentIs,       \* whom the worker took for its parent
    armed,          \* the end of the supervisor sends the worker SIGTERM
    request, controlOpen, release,   \* the control socket
    answer,         \* what the worker has written
    redirects, fellBack,             \* of the HTTP requests
    late,
    seenAfterRequest, cleanupOk, candidate, response    \* of the supervisor

controlVars == <<request, controlOpen, release>>
httpVars == <<redirects, fellBack>>
workerVars == <<worker, exitStatus, signalled, parentIs, armed, answer, httpVars>>
ownVars == <<seenAfterRequest, cleanupOk, candidate, response>>
remoteVars == <<workerVars, controlVars, late, supervisor, ownVars>>

WorkerAlive == worker \in {"boot", "binding", "loading", "request", "asking", "answering", "waiting"}
SupervisorRuns == supervisor \notin {"done", "dead"}

RemoteTypeOK ==
    /\ supervisor \in {"start", "spawned", "abandoning", "pump", "decode", "cleanup", "termed",
                       "wait", "release", "draining", "late_term", "conclude", "done", "dead"}
    /\ worker \in {"none", "boot", "binding", "loading", "request", "asking", "answering", "waiting",
                   "zombie", "gone"}
    /\ exitStatus \in {"none", "zero", "error", "signal"}
    /\ signalled \in {"none", "term", "kill"}
    /\ parentIs \in {"nobody", "supervisor", "other"} /\ armed \in BOOLEAN
    /\ request \in 0..2 /\ controlOpen \in BOOLEAN /\ release \in BOOLEAN
    /\ answer \in [kind : {"none", "ok", "error"}, parts : 0..2]
    /\ redirects \in 0..MaxRedirects /\ fellBack \in BOOLEAN
    /\ late \in 0..2
    /\ seenAfterRequest \in BOOLEAN /\ cleanupOk \in BOOLEAN
    /\ candidate \in {"none", "ok", "error"}
    /\ response \in {"none", "ok", "error", "failed", "unconfirmed"}

RemoteInit ==
    /\ supervisor = "start" /\ worker = "none" /\ exitStatus = "none" /\ signalled = "none"
    /\ parentIs = "nobody" /\ armed = FALSE
    /\ request = 0 /\ controlOpen = TRUE /\ release = FALSE
    /\ answer = [kind |-> "none", parts |-> 0]
    /\ redirects = 0 /\ fellBack = FALSE /\ late = 0
    /\ seenAfterRequest = FALSE /\ cleanupOk = TRUE /\ candidate = "none" /\ response = "none"

-----------------------------------------------------------------------------
(* The worker                                                              *)

WorkerGoes(here, next) ==
    /\ worker = here /\ worker' = next
    /\ UNCHANGED <<controlVars, late, supervisor, ownVars>>

WorkerEndsWith(status) ==
    /\ WorkerAlive /\ worker' = "zombie" /\ exitStatus' = status
    /\ UNCHANGED <<signalled, parentIs, armed, answer, httpVars, controlVars, late, supervisor, ownVars>>

\* Its parent is the supervisor, or whoever has adopted it.
ReadsParent ==
    /\ WorkerGoes("boot", "binding")
    /\ parentIs' = IF supervisor = "dead" THEN "other" ELSE "supervisor"
    /\ UNCHANGED <<exitStatus, signalled, armed, answer, httpVars>>

\* The parent is read again after the signal of its end was asked for.
ParentChanged == worker = "binding" /\ parentIs = "supervisor" /\ supervisor = "dead"

ArmsDeathSignal ==
    /\ ~ParentChanged
    /\ WorkerGoes("binding", "loading") /\ armed' = (supervisor # "dead")
    /\ UNCHANGED <<exitStatus, signalled, parentIs, answer, httpVars>>

LoadsRuntime ==
    /\ WorkerGoes("loading", "request")
    /\ UNCHANGED <<exitStatus, signalled, parentIs, armed, answer, httpVars>>

\* Only the process that the worker took for its parent is believed.
ReadsRequest ==
    /\ request = 2 /\ parentIs = "supervisor"
    /\ \/ WorkerGoes("request", "asking") /\ UNCHANGED answer
       \/ WorkerGoes("request", "answering") /\ answer' = [answer EXCEPT !.kind = "error"]
    /\ UNCHANGED <<exitStatus, signalled, parentIs, armed, httpVars>>

\* A frame of another sender, the end of the stream, or its own deadline.
RequestRefused == worker = "request" /\ WorkerEndsWith("error")

\* What the server says: go elsewhere, not with this service tier (which is
\* left out once), or an answer, as which every other failure counts.
Redirected ==
    /\ redirects < MaxRedirects /\ WorkerGoes("asking", "asking")
    /\ redirects' = redirects + 1
    /\ UNCHANGED <<exitStatus, signalled, parentIs, armed, answer, fellBack>>

TierRejected ==
    /\ ~fellBack /\ WorkerGoes("asking", "asking") /\ fellBack' = TRUE
    /\ UNCHANGED <<exitStatus, signalled, parentIs, armed, answer, redirects>>

ServerAnswers ==
    /\ WorkerGoes("asking", "answering")
    /\ \E kind \in {"ok", "error"} : answer' = [answer EXCEPT !.kind = kind]
    /\ UNCHANGED <<exitStatus, signalled, parentIs, armed, httpVars>>

WritesAnswer ==
    /\ WorkerGoes("answering", IF answer.parts = 1 THEN "waiting" ELSE "answering")
    /\ answer' = [answer EXCEPT !.parts = @ + 1]
    /\ UNCHANGED <<exitStatus, signalled, parentIs, armed, httpVars>>

Released ==
    /\ worker = "waiting" /\ release
    /\ WorkerEndsWith(IF answer.kind = "ok" THEN "zero" ELSE "error")

\* The control socket ends, or the worker notices the end of its parent.
Abandoned ==
    /\ \/ worker = "waiting" /\ ~release /\ ~controlOpen
       \/ worker \in {"answering", "waiting"} /\ supervisor = "dead"
    /\ WorkerEndsWith("error")

\* SIGALRM at the deadline of the network, or the deadline of the select.
OutOfTime_AfterAsking ==
    late > 0 /\ worker \in {"answering", "waiting"} /\ WorkerEndsWith("error")

OutOfTime == late > 0 /\ worker \in {"asking", "answering", "waiting"} /\ WorkerEndsWith("error")

\* The handler of SIGTERM exits; before it is installed the signal kills.
Signalled ==
    /\ signalled # "none"
    /\ \E status \in {"error", "signal"} :
          /\ status = "error" => signalled = "term" /\ worker \notin {"boot", "binding"}
          /\ WorkerEndsWith(status)

WorkerStarts == (ParentChanged /\ WorkerEndsWith("error")) \/ ReadsParent \/ ArmsDeathSignal \/ LoadsRuntime
WorkerStep ==
    \/ WorkerStarts \/ ReadsRequest \/ RequestRefused \/ WritesAnswer
    \/ Released \/ Abandoned \/ OutOfTime \/ Signalled

\* The kernel kills it, or a call of its start fails.
WorkerFails == \E status \in {"error", "signal"} : WorkerEndsWith(status)

Server == Redirected \/ TierRejected \/ ServerAnswers

-----------------------------------------------------------------------------
(* The supervisor until the cleanup                                        *)

SupervisorGoes(here, next) ==
    /\ supervisor = here /\ supervisor' = next
    /\ UNCHANGED <<parentIs, armed, answer, httpVars, late>>

NotStarted ==
    /\ SupervisorGoes("start", "done") /\ response' = "failed"
    /\ UNCHANGED <<worker, exitStatus, signalled, controlVars, seenAfterRequest, cleanupOk, candidate>>

Spawns ==
    /\ SupervisorGoes("start", "spawned") /\ worker' = "boot"
    /\ UNCHANGED <<exitStatus, signalled, controlVars, ownVars>>

BindsWorker ==
    /\ SupervisorGoes("spawned", "pump")
    /\ UNCHANGED <<worker, exitStatus, signalled, controlVars, ownVars>>

\* Without a pidfd the worker is killed as well, and nothing is confirmed.
BindFails ==
    /\ SupervisorGoes("spawned", "abandoning")
    /\ signalled' = "kill"
    /\ \E known \in {"failed", "unconfirmed"} : response' = known
    /\ UNCHANGED <<worker, exitStatus, controlVars, seenAfterRequest, cleanupOk, candidate>>

\* _abandon_spawned_worker waits for some seconds.
Abandons ==
    /\ SupervisorGoes("abandoning", "done") /\ controlOpen' = FALSE
    /\ \/ worker = "zombie" /\ worker' = "gone" /\ UNCHANGED response
       \/ response' = "unconfirmed" /\ UNCHANGED worker
    /\ UNCHANGED <<exitStatus, signalled, request, release, seenAfterRequest, cleanupOk, candidate>>

\* The children are scanned when the whole request is out.
SendsRequest ==
    /\ late = 0 /\ request < 2 /\ WorkerAlive
    /\ SupervisorGoes("pump", "pump")
    /\ request' = request + 1 /\ seenAfterRequest' = (request' = 2)
    /\ UNCHANGED <<worker, exitStatus, signalled, controlOpen, release, cleanupOk, candidate, response>>

\* The answer is complete and both ends of the output are closed.  A worker
\* that has ended by then was not released.
TakesAnswer ==
    /\ late = 0 /\ answer.parts = 2 /\ worker \in {"waiting", "zombie"} /\ seenAfterRequest
    /\ SupervisorGoes("pump", "decode")
    /\ cleanupOk' = WorkerAlive
    /\ UNCHANGED <<worker, exitStatus, signalled, controlVars, seenAfterRequest, candidate, response>>

\* Cancelled, out of time, a scan that failed, an output that is not an answer.
PumpFails ==
    /\ SupervisorGoes("pump", "cleanup") /\ response' = "failed"
    /\ UNCHANGED <<worker, exitStatus, signalled, controlVars, seenAfterRequest, cleanupOk, candidate>>

Decodes ==
    /\ SupervisorGoes("decode", "release")
    /\ \/ candidate' = answer.kind /\ UNCHANGED response
       \/ response' = "failed" /\ UNCHANGED candidate
    /\ UNCHANGED <<worker, exitStatus, signalled, controlVars, seenAfterRequest, cleanupOk>>

-----------------------------------------------------------------------------
(* _cleanup_worker_body                                                    *)

\* The worker is seen to have ended, which reaps it.
Reaped == worker \in {"zombie", "gone"} /\ worker' = "gone"

\* A signal that could not be sent, like a scan that failed, is remembered.
Sends(signal) ==
    \/ signalled' = signal /\ cleanupOk' \in {cleanupOk, FALSE}
    \/ UNCHANGED signalled /\ cleanupOk' = FALSE

ClosesControl ==
    /\ SupervisorGoes("cleanup", "termed") /\ controlOpen' = FALSE
    /\ \/ WorkerAlive /\ Sends("term") /\ UNCHANGED worker
       \/ Reaped /\ cleanupOk' \in {cleanupOk, FALSE} /\ UNCHANGED signalled
    /\ UNCHANGED <<exitStatus, request, release, seenAfterRequest, candidate, response>>

EndsInTime ==
    /\ Reaped /\ SupervisorGoes("termed", "conclude")
    /\ cleanupOk' \in {cleanupOk, FALSE}
    /\ UNCHANGED <<exitStatus, signalled, controlVars, seenAfterRequest, candidate, response>>

KillsWorker ==
    /\ WorkerAlive /\ Sends("kill")
    /\ \E here \in {"termed", "late_term"} : SupervisorGoes(here, "wait")
    /\ UNCHANGED <<worker, exitStatus, controlVars, seenAfterRequest, candidate, response>>

\* process.wait with what is left of the time
Waits ==
    /\ Reaped /\ SupervisorGoes("wait", "conclude")
    /\ cleanupOk' \in {cleanupOk, FALSE}
    /\ UNCHANGED <<exitStatus, signalled, controlVars, seenAfterRequest, candidate, response>>

-----------------------------------------------------------------------------
(* _cleanup_released_worker_body                                           *)

SendsRelease ==
    /\ SupervisorGoes("release", "draining")
    /\ \/ WorkerAlive /\ release' = TRUE /\ cleanupOk' \in {cleanupOk, FALSE} /\ UNCHANGED worker
       \/ WorkerAlive /\ cleanupOk' = FALSE /\ UNCHANGED <<worker, release>>
       \/ Reaped /\ cleanupOk' = FALSE /\ UNCHANGED release
    /\ UNCHANGED <<exitStatus, signalled, request, controlOpen, seenAfterRequest, candidate, response>>

\* It must end by itself, and write nothing more.
EndsReleased ==
    /\ Reaped /\ \E here \in {"draining", "late_term"} : SupervisorGoes(here, "conclude")
    /\ cleanupOk' \in {cleanupOk, FALSE}
    /\ UNCHANGED <<exitStatus, signalled, controlVars, seenAfterRequest, candidate, response>>

DoesNotEnd ==
    /\ WorkerAlive /\ cleanupOk' = FALSE
    /\ \/ SupervisorGoes("draining", "late_term") /\ signalled' = "term" /\ UNCHANGED response
       \/ SupervisorGoes("draining", "abandoning") /\ signalled' = "kill" /\ response' = "unconfirmed"
    /\ UNCHANGED <<worker, exitStatus, controlVars, seenAfterRequest, candidate>>

-----------------------------------------------------------------------------

\* Every step of the cleanup looks at its deadline first.
CleanupOutOfTime ==
    /\ late = 2
    /\ \E here \in {"cleanup", "termed", "wait", "release", "draining", "late_term", "conclude"} :
           SupervisorGoes(here, "conclude")
    /\ cleanupOk' = FALSE
    /\ UNCHANGED <<worker, exitStatus, signalled, controlVars, seenAfterRequest, candidate, response>>

\* The status of the worker must agree with its answer.
Answer_WhateverStatus == IF candidate # "none" THEN candidate ELSE "failed"

Answer ==
    IF <<candidate, exitStatus>> \in {<<"ok", "zero">>, <<"error", "error">>}
    THEN candidate ELSE "failed"

Concludes ==
    /\ SupervisorGoes("conclude", "done") /\ controlOpen' = FALSE
    /\ response' \in {IF cleanupOk THEN Answer ELSE "unconfirmed", "unconfirmed"}
    /\ UNCHANGED <<worker, exitStatus, signalled, request, release, seenAfterRequest, cleanupOk, candidate>>

SupervisorStep ==
    \/ NotStarted \/ Spawns \/ BindsWorker \/ BindFails \/ Abandons
    \/ SendsRequest \/ TakesAnswer \/ PumpFails \/ Decodes
    \/ ClosesControl \/ EndsInTime \/ KillsWorker \/ Waits
    \/ SendsRelease \/ EndsReleased \/ DoesNotEnd
    \/ CleanupOutOfTime \/ Concludes

SupervisorKilled ==
    /\ SupervisorRuns /\ supervisor # "start" /\ supervisor' = "dead" /\ controlOpen' = FALSE
    /\ signalled' = IF armed /\ signalled = "none" THEN "term" ELSE signalled
    /\ UNCHANGED <<worker, exitStatus, parentIs, armed, answer, httpVars, request, release, late, ownVars>>

DeadlinePasses == late < 2 /\ late' = late + 1 /\ UNCHANGED <<workerVars, controlVars, supervisor, ownVars>>

RemoteNext ==
    SupervisorStep \/ SupervisorKilled \/ WorkerStep \/ WorkerFails \/ Server \/ DeadlinePasses

RemoteSpec == RemoteInit /\ [][RemoteNext]_remoteVars

\* The server may never answer.
RemoteFair(n) == (n = 1 /\ SupervisorStep) \/ (n = 2 /\ WorkerStep) \/ (n = 3 /\ DeadlinePasses)

RemoteFairness == \A n \in 1..3 : WF_remoteVars(RemoteFair(n))

-----------------------------------------------------------------------------
\* Unless the supervisor reports that it could not confirm the cleanup, no
\* worker is left; and the answer it returns is one that the worker wrote for
\* the whole request and ended with, after the release when it is a result.
AnsweredAlone ==
    supervisor = "done" =>
        /\ response # "unconfirmed" => worker \in {"none", "gone"}
        /\ response \in {"ok", "error"} =>
              request = 2 /\ answer = [kind |-> response, parts |-> 2]
        /\ response = "ok" => release /\ exitStatus = "zero"

\* The operation ends, and so does its worker: whatever becomes of the
\* supervisor and of the server, which may never answer.
RemoteHasEnded == ~SupervisorRuns /\ ~WorkerAlive

=============================================================================
