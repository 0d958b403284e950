-------------------------- MODULE DirectSupervisor --------------------------
(***************************************************************************)
(* The supervisor of a local model that runs outside a systemd scope       *)
(* (_run_local_model_direct_supervisor, process_priority.py).  It binds    *)
(* itself to the controller that started it, becomes a subreaper, forks    *)
(* the root of the model's process tree, lets it through a gate of two     *)
(* pipes, watches it until it ends, a signal comes or the deadline passes, *)
(* kills whatever is left of the tree, and tells the controller what       *)
(* happened: one frame in a pipe, and the way it ends itself.              *)
(*                                                                         *)
(* A process that has ended stays a zombie until its parent waits for it;  *)
(* its children go to the supervisor while that lives.  SIGTERM is not     *)
(* recorded: a process may end at any time, and may ignore it.  The        *)
(* identities of processes (pidfds, start times) tell them apart.          *)
(***************************************************************************)
EXTENDS Naturals

CONSTANTS Root, Kids,            \* the process that is forked, and its descendants
          Supervisor, Outside    \* two more parents: Outside reaps at once

ASSUME SupervisorAssumption ==
    /\ Root \notin Kids
    /\ {Supervisor, Outside} \cap (Kids \cup {Root}) = {}
    /\ Supervisor # Outside

VARIABLES
    supStep,      \* where the supervisor is; `ended` and `killed` are final
    outcome,      \* the outcome it has in mind
    flags,        \* the flags of the frame
    received,     \* received_signal is set
    pending,      \* a forwarded signal is blocked and pending
    told,         \* one was sent after the handlers were installed
    cleanupOk,    \* cleanup_ok of the drain
    frame,        \* the frame written, if any
    returncode,   \* how the supervisor ended
    rootStep,     \* how far the root has come before its exec
    boundTo,      \* whose death kills the root (PDEATHSIG)
    groupPipe, gatePipe, armPipe,    \* P, G and A are in the pipe
    state, parent,                   \* of the root and the kids
    doomed,       \* who has a SIGKILL under way
    rootStatus,   \* how the root ended
    late,         \* the absolute deadline has passed
    controllerLives

Supervised == {Root} \cup Kids
Parents == Supervised \cup {Supervisor, Outside}
None == {"none"}

supervisorVars == <<supStep, outcome, flags, received, pending, told, cleanupOk, frame,
                    returncode>>
pipeVars == <<groupPipe, gatePipe, armPipe>>
treeVars == <<state, parent, doomed, rootStatus>>
directVars == <<supervisorVars, pipeVars, treeVars, rootStep, boundTo, late, controllerLives>>

Outcomes == {"FAILURE", "TARGET", "SIGNAL", "DEADLINE", "CLEANUP_FAILURE"}
Flags == {"BOUND", "HARDENED", "ROOT_BOUND", "GROUP_SEPARATED", "SECURITY_ARMED",
          "ROOT_REAPED", "TREE_EMPTY"}

SupervisorTypeOK ==
    /\ supStep \in {"starts", "bound", "hardened", "latching", "binds_root", "awaits_group",
                    "gate", "awaits_armed", "supervises", "cleans", "reaps_TERM",
                    "signals_TERM", "reaps_KILL", "signals_KILL", "empty", "drained",
                    "writes", "unblocks", "exits", "ended", "killed"}
    /\ outcome \in Outcomes /\ flags \subseteq Flags
    /\ received \in BOOLEAN /\ pending \in BOOLEAN /\ told \in BOOLEAN /\ cleanupOk \in BOOLEAN
    /\ frame \subseteq [outcome : Outcomes, flags : SUBSET Flags]
    /\ returncode \in {"none", "target", "signal", "failure", "killed"}
    /\ rootStep \in {"none", "forked", "asked", "asked_outside", "bound", "waits", "passed",
                     "armed", "runs"}
    /\ boundTo \in {Supervisor, Outside} \cup {None}
    /\ groupPipe \in BOOLEAN /\ gatePipe \in BOOLEAN /\ armPipe \in BOOLEAN
    /\ state \in [Supervised -> {"none", "alive", "zombie", "gone"}]
    /\ parent \in [Supervised -> Parents]
    /\ doomed \subseteq Supervised
    /\ rootStatus \in {"none", "exited", "signal"}
    /\ late \in BOOLEAN /\ controllerLives \in BOOLEAN

DirectInit ==
    /\ supStep = "starts" /\ outcome = "FAILURE" /\ flags = {}
    /\ received = FALSE /\ pending = FALSE /\ told = FALSE /\ cleanupOk = TRUE
    /\ frame = {} /\ returncode = "none"
    /\ rootStep = "none" /\ boundTo = None
    /\ groupPipe = FALSE /\ gatePipe = FALSE /\ armPipe = FALSE
    /\ state = [p \in Supervised |-> "none"] /\ parent = [p \in Supervised |-> Outside]
    /\ doomed = {} /\ rootStatus = "none"
    /\ late = FALSE /\ controllerLives = TRUE

SupervisorLives == supStep \notin {"ended", "killed"}
Blocked == supStep \in {"reaps_TERM", "signals_TERM", "reaps_KILL", "signals_KILL",
                        "empty", "drained", "writes", "unblocks"}
Waits == {"awaits_group", "gate", "awaits_armed", "supervises"}
Latched == {"latching", "binds_root"} \cup Waits
Latching == supStep \in Latched \cup {"cleans"}

Children == {p \in Supervised : parent[p] = Supervisor /\ state[p] \in {"alive", "zombie"}}
Alive(p) == state[p] = "alive"

-----------------------------------------------------------------------------
(* Processes                                                               *)

\* What the kernel does when the processes of a set end: their children go to
\* the supervisor, a subreaper, or to whoever reaps at once.
Die(ended) ==
    LET heir == IF SupervisorLives THEN Supervisor ELSE Outside
        heirs == [p \in Supervised |-> IF parent[p] \in ended THEN heir ELSE parent[p]]
    IN /\ parent' = heirs
       /\ state' = [p \in Supervised |->
             IF p \notin ended /\ state[p] # "zombie" THEN state[p]
             ELSE IF heirs[p] = Outside THEN "gone" ELSE "zombie"]
       /\ doomed' = doomed \ ended

\* The supervisor is gone: its children are adopted, and the root that bound
\* itself to it is killed.
Orphans ==
    /\ parent' = [p \in Supervised |-> IF parent[p] = Supervisor THEN Outside ELSE parent[p]]
    /\ state' = [p \in Supervised |-> IF parent[p] = Supervisor /\ state[p] = "zombie"
                                 THEN "gone" ELSE state[p]]
    /\ doomed' = IF boundTo = Supervisor /\ Alive(Root) THEN doomed \cup {Root} ELSE doomed
    /\ UNCHANGED rootStatus

Ends(p) ==
    /\ Alive(p)
    /\ Die({p})
    /\ rootStatus' \in IF p = Root THEN {"exited", "signal"} ELSE {rootStatus}
    /\ UNCHANGED <<supervisorVars, pipeVars, rootStep, boundTo, late, controllerLives>>

\* A process of the tree forks another one; once the root runs the model.
ForksKid(p, kid) ==
    /\ Alive(p) /\ (p = Root => rootStep = "runs")
    /\ state[kid] = "none"
    /\ state' = [state EXCEPT ![kid] = "alive"]
    /\ parent' = [parent EXCEPT ![kid] = p]
    /\ UNCHANGED <<supervisorVars, pipeVars, doomed, rootStatus, rootStep, boundTo, late,
                   controllerLives>>

\* A process of the tree waits for a child of its own.
ReapsKid(kid) ==
    /\ state[kid] = "zombie" /\ parent[kid] \in Supervised
    /\ state' = [state EXCEPT ![kid] = "gone"]
    /\ UNCHANGED <<supervisorVars, pipeVars, parent, doomed, rootStatus, rootStep, boundTo, late,
                   controllerLives>>

-----------------------------------------------------------------------------
(* The root before its exec                                                *)

RootGoes(from, to) ==
    /\ Alive(Root) /\ rootStep = from /\ rootStep' = to
    /\ UNCHANGED <<supervisorVars, treeVars, late, controllerLives>>

\* getppid: whoever is its parent by now.
RootAsks ==
    /\ \/ parent[Root] = Supervisor /\ RootGoes("forked", "asked")
       \/ parent[Root] = Outside /\ RootGoes("forked", "asked_outside")
    /\ UNCHANGED <<pipeVars, boundTo>>

\* The death signal is not asked for.
RootBinds_Unbound ==
    /\ \/ RootGoes("asked", "bound")
       \/ RootGoes("asked_outside", "bound")
    /\ UNCHANGED <<pipeVars, boundTo>>

\* prctl, and the parent is still the one that was asked for: somebody else if
\* the supervisor was gone by then.
RootBinds ==
    /\ \/ RootGoes("asked", "bound") /\ parent[Root] = Supervisor
       \/ RootGoes("asked_outside", "bound")
    /\ boundTo' = parent[Root]
    /\ UNCHANGED pipeVars

\* Nobody reads the pipe of a supervisor that is gone.
RootTellsGroup ==
    /\ RootGoes("bound", "waits")
    /\ supStep \in {"binds_root", "awaits_group", "cleans"}
    /\ groupPipe' = TRUE /\ UNCHANGED <<gatePipe, armPipe, boundTo>>

RootPasses ==
    /\ RootGoes("waits", "passed")
    /\ gatePipe
    /\ UNCHANGED <<pipeVars, boundTo>>

\* The limits and the seccomp filter, bound to the same parent.
RootArms ==
    /\ RootGoes("passed", "armed")
    /\ parent[Root] = Supervisor
    /\ supStep \in {"awaits_armed", "cleans"}
    /\ armPipe' = TRUE /\ UNCHANGED <<groupPipe, gatePipe, boundTo>>

RootExecs ==
    /\ RootGoes("armed", "runs") /\ ~late
    /\ UNCHANGED <<pipeVars, boundTo>>

\* Any check or call before the exec may fail; the root ends if the pipe it
\* writes to or reads from has nobody at the other end.
RootFails ==
    /\ Alive(Root) /\ rootStep \notin {"none", "runs"}
    /\ rootStep = "waits" =>
         ~SupervisorLives \/ gatePipe \/ supStep \notin {"binds_root", "awaits_group", "gate", "cleans"}
    /\ Die({Root})
    /\ rootStatus' = "exited"
    /\ UNCHANGED <<supervisorVars, pipeVars, rootStep, boundTo, late, controllerLives>>

-----------------------------------------------------------------------------
(* The supervisor up to the exec of the root                               *)

SignalsUnchanged == <<received, pending, told, cleanupOk, frame, returncode>>

Goes(from, to, gained) ==
    /\ supStep = from /\ supStep' = to
    /\ flags' = flags \cup gained
    /\ UNCHANGED <<outcome, SignalsUnchanged>>

Stops(from, why) ==
    /\ supStep = from /\ supStep' = "cleans"
    /\ outcome' = why
    /\ UNCHANGED SignalsUnchanged

RestUnchanged == UNCHANGED <<pipeVars, treeVars, rootStep, boundTo, late, controllerLives>>

\* PDEATHSIG first, then the parent is compared once more.
BindsController ==
    /\ controllerLives /\ Goes("starts", "bound", {"BOUND"})
    /\ RestUnchanged

\* Hardened, a subreaper, in a group of its own and without children.
Hardens == Goes("bound", "hardened", {"HARDENED"}) /\ RestUnchanged

Latches == Goes("hardened", "latching", {}) /\ RestUnchanged

\* A call that fails, or a check that is not met: a configuration that cannot
\* be used ends the process without a frame.
CallFails ==
    /\ \/ /\ supStep = "starts" /\ supStep' = "ended" /\ returncode' = "failure"
          /\ UNCHANGED <<outcome, received, pending, told, cleanupOk, frame>>
       \/ \E s \in {"starts", "bound", "hardened"} \cup (Latched \ {"supervises"}) :
            Stops(s, "FAILURE")
    /\ UNCHANGED flags
    /\ RestUnchanged

\* The descendants are counted in every round of the wait: too many, or more
\* than can be looked through.
DescendantsExceedLimit ==
    /\ Stops("supervises", "FAILURE")
    /\ UNCHANGED flags
    /\ RestUnchanged

LateBeforeFork ==
    /\ late /\ Stops("latching", "DEADLINE")
    /\ flags' = flags \cup {"TREE_EMPTY"}
    /\ RestUnchanged

Forks ==
    /\ ~late /\ Goes("latching", "binds_root", {})
    /\ rootStep' = "forked"
    /\ state' = [state EXCEPT ![Root] = "alive"]
    /\ parent' = [parent EXCEPT ![Root] = Supervisor]
    /\ UNCHANGED <<pipeVars, doomed, rootStatus, boundTo, late, controllerLives>>

\* The identity of the root can be read while nobody has waited for it.
BindsRoot == Goes("binds_root", "awaits_group", {"ROOT_BOUND"}) /\ RestUnchanged

\* A wait of the supervisor ends because of a signal or the deadline, or of
\* the end of the root, whose status is then kept.
Interrupted(step) ==
    /\ \/ received /\ step # "gate" /\ Stops(step, "SIGNAL")
       \/ late /\ Stops(step, "DEADLINE")
    /\ UNCHANGED flags
    /\ RestUnchanged

RootWaited(step) ==
    /\ step # "gate" /\ state[Root] = "zombie"
    /\ Stops(step, IF step = "supervises" THEN "TARGET" ELSE "FAILURE")
    /\ state' = [state EXCEPT ![Root] = "gone"]
    /\ flags' = flags \cup {"ROOT_REAPED"}
    /\ UNCHANGED <<pipeVars, parent, doomed, rootStatus, rootStep, boundTo, late,
                   controllerLives>>

GroupReady ==
    /\ groupPipe /\ Goes("awaits_group", "gate", {"GROUP_SEPARATED"})
    /\ groupPipe' = FALSE
    /\ UNCHANGED <<gatePipe, armPipe, treeVars, rootStep, boundTo, late, controllerLives>>

\* The controller is looked at once more; the root must still read the gate.
OpensGate ==
    /\ ~late /\ controllerLives /\ Alive(Root)
    /\ Goes("gate", "awaits_armed", {})
    /\ gatePipe' = TRUE
    /\ UNCHANGED <<groupPipe, armPipe, treeVars, rootStep, boundTo, late, controllerLives>>

Armed ==
    /\ armPipe /\ Goes("awaits_armed", "supervises", {"SECURITY_ARMED"})
    /\ RestUnchanged

-----------------------------------------------------------------------------
(* The supervisor's clean-up                                               *)

\* The forwarded signals are blocked from here on and the pipes are closed.
\* Without a root the supervisor only looks once that it has no child.
BeginsCleaning ==
    /\ supStep = "cleans"
    /\ cleanupOk' = TRUE
    /\ supStep' \in IF rootStep = "none" THEN {"drained"}
                   ELSE {"reaps_TERM", "reaps_KILL", "drained"}
    /\ UNCHANGED <<outcome, flags, received, pending, told, frame, returncode>>
    /\ RestUnchanged

\* waitpid for every zombie.
Waited == [p \in Supervised |-> IF p \in Children /\ state[p] = "zombie" THEN "gone" ELSE state[p]]

Reaping(phase) == IF phase = "TERM" THEN "reaps_TERM" ELSE "reaps_KILL"
Signalling(phase) == IF phase = "TERM" THEN "signals_TERM" ELSE "signals_KILL"

\* The loop ends when there is no child left and the list the kernel keeps
\* says the same; that list may also not be readable.
Reaps(phase) ==
    /\ supStep = Reaping(phase)
    /\ state' = Waited
    /\ flags' = IF Waited[Root] = "gone" THEN flags \cup {"ROOT_REAPED"} ELSE flags
    /\ \/ /\ \A p \in Children : state[p] = "zombie"
          /\ supStep' = "empty" /\ UNCHANGED cleanupOk
       \/ /\ \E p \in Children : Alive(p)
          /\ supStep' = Signalling(phase) /\ UNCHANGED cleanupOk
       \/ supStep' = Signalling(phase) /\ cleanupOk' = FALSE
    /\ UNCHANGED <<outcome, received, pending, told, frame, returncode, pipeVars, parent,
                   doomed, rootStatus, rootStep, boundTo, late, controllerLives>>

\* Every child of the list is signalled; one that cannot be found spoils the
\* clean-up.
Signals(phase, next) ==
    /\ supStep = Signalling(phase)
    /\ doomed' = IF phase = "KILL" THEN doomed \cup {p \in Children : Alive(p)} ELSE doomed
    /\ cleanupOk' \in {cleanupOk, FALSE}
    /\ supStep' = next
    /\ UNCHANGED <<outcome, flags, received, pending, told, frame, returncode, pipeVars, state,
                   parent, rootStatus, rootStep, boundTo, late, controllerLives>>

\* The phases end by the clock; both count from the beginning of the drain, so
\* that a supervisor that is held up may miss the second one.
PhaseEnds ==
    \/ Signals("TERM", "reaps_KILL") \/ Signals("TERM", "drained")
    \/ Signals("KILL", "drained")

NoChild_RootOnly == ~Alive(Root)

\* ECHILD of a last round of waitpid, and an empty list.
NoChild == Children \subseteq {p \in Supervised : state[p] = "zombie"}

\* After the drain: the flags, and a signal that is pending by now.
ChecksPending ==
    /\ supStep \in {"empty", "drained"}
    /\ state' = Waited
    /\ received' = (received \/ pending)
    /\ \E looks \in {TRUE, supStep = "empty"} :
         LET empty == NoChild /\ cleanupOk /\ looks
             settled == IF empty THEN outcome ELSE "CLEANUP_FAILURE"
         IN /\ flags' = flags \cup (IF empty THEN {"TREE_EMPTY"} ELSE {})
                              \cup (IF Waited[Root] = "gone"
                                    THEN {"ROOT_REAPED"} ELSE {})
            /\ outcome' = IF received' /\ settled # "CLEANUP_FAILURE" THEN "SIGNAL" ELSE settled
    /\ supStep' = "writes"
    /\ UNCHANGED <<pending, told, cleanupOk, frame, returncode, pipeVars, parent, doomed,
                   rootStatus, rootStep, boundTo, late, controllerLives>>

WritesFrame ==
    /\ supStep = "writes"
    /\ frame' \in {{}, {[outcome |-> outcome, flags |-> flags]}}
    /\ supStep' = "unblocks"
    /\ UNCHANGED <<outcome, flags, received, pending, told, cleanupOk, returncode>>
    /\ RestUnchanged

SupervisorEndsWith(code) ==
    /\ supStep' = "ended" /\ returncode' = code
    /\ Orphans
    /\ UNCHANGED <<outcome, flags, received, told, cleanupOk, frame, pipeVars, rootStep, boundTo,
                   late, controllerLives>>

Unblocks_ExitsBlocked ==
    /\ supStep = "unblocks"
    /\ supStep' = "exits" /\ UNCHANGED <<outcome, flags, received, pending, told, cleanupOk,
                                         frame, returncode>>
    /\ RestUnchanged

\* The default dispositions are back: what is pending ends the supervisor.
Unblocks ==
    /\ supStep = "unblocks"
    /\ IF pending
       THEN SupervisorEndsWith("signal") /\ UNCHANGED pending
       ELSE /\ supStep' = "exits"
            /\ UNCHANGED <<outcome, flags, received, pending, told, cleanupOk, frame, returncode>>
            /\ RestUnchanged

\* It ends the way the root did, by the signal it has got, or as failed.
Exits ==
    /\ supStep = "exits"
    /\ SupervisorEndsWith(
         IF frame = {} \/ outcome = "CLEANUP_FAILURE" THEN "failure"
         ELSE IF outcome = "TARGET" THEN (IF rootStatus = "signal" THEN "signal" ELSE "target")
         ELSE IF outcome = "SIGNAL" /\ received THEN "signal" ELSE "failure")
    /\ UNCHANGED pending

-----------------------------------------------------------------------------
(* What comes from outside                                                 *)

\* One of the forwarded signals.  Before the handlers are installed, and after
\* the default is back, it ends the supervisor.
SignalSent ==
    /\ SupervisorLives /\ ~told
    /\ IF Latching \/ Blocked
       THEN /\ told' = TRUE
            /\ received' = (received \/ Latching)
            /\ pending' = (pending \/ Blocked)
            /\ UNCHANGED <<supStep, outcome, flags, cleanupOk, frame, returncode>>
            /\ RestUnchanged
       ELSE SupervisorEndsWith("signal") /\ UNCHANGED pending

DirectKilled ==
    /\ SupervisorLives
    /\ supStep' = "killed" /\ returncode' = "killed"
    /\ Orphans
    /\ UNCHANGED <<outcome, flags, received, pending, told, cleanupOk, frame, pipeVars,
                   rootStep, boundTo, late, controllerLives>>

\* A supervisor that is bound to its controller is killed with it.
ControllerGone ==
    /\ controllerLives /\ controllerLives' = FALSE
    /\ IF SupervisorLives /\ supStep # "starts"
       THEN supStep' = "killed" /\ returncode' = "killed" /\ Orphans
       ELSE UNCHANGED <<supStep, returncode, treeVars>>
    /\ UNCHANGED <<outcome, flags, received, pending, told, cleanupOk, frame, pipeVars,
                   rootStep, boundTo, late>>

TimeIsUp ==
    /\ ~late /\ late' = TRUE
    /\ UNCHANGED <<supervisorVars, pipeVars, treeVars, rootStep, boundTo, controllerLives>>

-----------------------------------------------------------------------------
RootNext ==
    RootAsks \/ RootBinds \/ RootTellsGroup \/ RootPasses \/ RootArms \/ RootExecs \/ RootFails

Supervises ==
    \/ BindsController \/ Hardens \/ Latches \/ LateBeforeFork \/ Forks \/ BindsRoot
    \/ \E step \in Waits : Interrupted(step) \/ RootWaited(step)
    \/ GroupReady \/ OpensGate \/ Armed
    \/ BeginsCleaning \/ Reaps("TERM") \/ Reaps("KILL")
    \/ Signals("TERM", "reaps_TERM") \/ Signals("KILL", "reaps_KILL") \/ PhaseEnds
    \/ ChecksPending \/ WritesFrame \/ Unblocks \/ Exits

DirectNext ==
    \/ RootNext \/ Supervises \/ CallFails \/ DescendantsExceedLimit
    \/ \E p \in Supervised : Ends(p)
    \/ \E p \in Supervised, kid \in Kids : ForksKid(p, kid) \/ ReapsKid(kid)
    \/ SignalSent \/ DirectKilled \/ ControllerGone \/ TimeIsUp

DirectSpec == DirectInit /\ [][DirectNext]_directVars

\* Time passes, the supervisor and the root are scheduled, a SIGKILL arrives.
\* The loops that wait poll, so they see a deadline that has passed; the
\* phases of the drain end in the end.
DirectFair(n) ==
    \/ n = 1 /\ TimeIsUp
    \/ n = 2 /\ Supervises
    \/ n = 3 /\ RootNext
    \/ n = 4 /\ Root \in doomed /\ Ends(Root)
    \/ n = 5 /\ \E kid \in Kids \intersect doomed : Ends(kid)

DirectFairness == SF_directVars(PhaseEnds) /\ \A n \in 1..5 : WF_directVars(DirectFair(n))

-----------------------------------------------------------------------------
\* process_priority.py:1404 - a frame that says the tree is empty is the
\* controller's licence to go on: no process of the model is left, running or
\* not waited for.
EmptyIsEmpty ==
    \A f \in frame : "TREE_EMPTY" \in f.flags
                        => \A p \in Supervised : state[p] \in {"none", "gone"}

\* process_priority.py:5841 - once the handlers are installed no SIGTERM is
\* lost: the supervisor ends by it, unless the clean-up or the frame failed.
SignalKept ==
    told /\ supStep = "ended"
        => returncode = "signal" \/ frame = {}
           \/ \E f \in frame : f.outcome = "CLEANUP_FAILURE"

\* process_priority.py:5866 - the root does not outlive its deadline, nor its
\* supervisor, whenever that is killed.
RootMustEnd == late \/ ~SupervisorLives
RootHasEnded == ~Alive(Root)
=============================================================================
