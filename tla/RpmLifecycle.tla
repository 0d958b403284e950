---------------------------- MODULE RpmLifecycle ----------------------------
(***************************************************************************)
(* scripts/rpm-lifecycle-supervisor.py: run one command, and return what   *)
(* it returned when neither it nor anything it started is left.            *)
(*                                                                         *)
(* The supervisor is a child subreaper: whoever loses its parent below it  *)
(* becomes its direct child, and a direct child that has ended is a zombie *)
(* until the supervisor reaps it, so its process id is not reused.  When   *)
(* the root has ended, the supervisor repeats: list the direct children,   *)
(* bind those it does not know, signal and reap them, until it has seen    *)
(* the root alone twice; then it reaps the root.  Errors lead to a second  *)
(* procedure that kills at once.  Every read of the list may break off     *)
(* after part of it.                                                       *)
(*                                                                         *)
(* The time is 0 while the command may run, 1 when it is to end, 2 when it *)
(* is to be killed, 3 when the supervisor gives up; a command that is to   *)
(* end because of a signal to the supervisor counts as out of time.  The   *)
(* exit status, and what is reported on stderr, are left out, and so is    *)
(* the output of an identity helper.                                       *)
(***************************************************************************)
EXTENDS Naturals

CONSTANTS Root, Kids, Supervisor

ASSUME RpmAssumption == Root \notin Kids /\ Supervisor \notin Kids \cup {Root}

VARIABLES
    life, parent,   \* of each process
    apart,          \* the processes that left the group of the root
    rpmKilled,      \* got SIGKILL
    now,
    rpmAt,          \* where the supervisor is
    emergency,      \* whether it kills at once
    caller,         \* who is to go on after the draining: run, its `finally`
    rpmSeen, partial,\* the last list of direct children, and whether it broke off
    bound,          \* the direct children it has a binding for
    stable,         \* how often it has seen the root alone
    result

processVars == <<life, parent, apart>>
drainVars == <<emergency, caller, rpmSeen, partial, bound, stable>>
rpmVars == <<processVars, rpmKilled, now, rpmAt, drainVars, result>>

Processes == Kids \cup {Root}

RpmTypeOK ==
    /\ life \in [Processes -> {"unborn", "alive", "zombie", "gone"}]
    /\ parent \in [Processes -> Processes \cup {Supervisor}]
    /\ apart \subseteq Kids /\ rpmKilled \subseteq Processes
    /\ now \in 0..3
    /\ rpmAt \in {"launch", "watch", "snapshot", "reap", "bind", "left", "signal", "final", "settle",
               "raised", "drained", "undrained", "finally", "await", "unbound", "orphans",
               "finalize", "done"}
    /\ emergency \in BOOLEAN /\ caller \in {"run", "waiting", "finally"}
    /\ rpmSeen \subseteq Processes /\ partial \in BOOLEAN /\ bound \subseteq Kids
    /\ stable \in 0..1
    /\ result \in {"none", "returned", "raised"}

RpmInit ==
    /\ life = [p \in Processes |-> IF p = Root THEN "alive" ELSE "unborn"]
    /\ parent = [p \in Processes |-> Supervisor]
    /\ apart = {} /\ rpmKilled = {} /\ now = 0
    /\ rpmAt = "launch" /\ emergency = FALSE /\ caller = "run"
    /\ rpmSeen = {} /\ partial = FALSE /\ bound = {} /\ stable = 0
    /\ result = "none"

There(p) == life[p] \in {"alive", "zombie"}
Ended(S) == {p \in S : life[p] = "zombie"}
Direct == {p \in Processes : There(p) /\ parent[p] = Supervisor}

-----------------------------------------------------------------------------
(* The processes and the clock                                             *)

Forks(p, k) ==
    /\ life[p] = "alive" /\ p \notin rpmKilled /\ life[k] = "unborn"
    /\ life' = [life EXCEPT ![k] = "alive"]
    /\ parent' = [parent EXCEPT ![k] = p]
    /\ apart' = IF p \in apart THEN apart \cup {k} ELSE apart
    /\ UNCHANGED <<rpmKilled, now, rpmAt, drainVars, result>>

LeavesGroup(k) ==
    /\ life[k] = "alive" /\ k \notin rpmKilled
    /\ apart' = apart \cup {k}
    /\ UNCHANGED <<life, parent, rpmKilled, now, rpmAt, drainVars, result>>

\* Its children become children of the supervisor.
Exits(p) ==
    /\ life[p] = "alive"
    /\ life' = [life EXCEPT ![p] = "zombie"]
    /\ parent' = [q \in Processes |-> IF parent[q] = p THEN Supervisor ELSE parent[q]]
    /\ UNCHANGED <<apart, rpmKilled, now, rpmAt, drainVars, result>>

ReapedByParent(k) ==
    /\ life[k] = "zombie" /\ parent[k] # Supervisor
    /\ life' = [life EXCEPT ![k] = "gone"]
    /\ UNCHANGED <<parent, apart, rpmKilled, now, rpmAt, drainVars, result>>

TimePasses ==
    /\ now < 3 /\ now' = now + 1
    /\ UNCHANGED <<processVars, rpmKilled, rpmAt, drainVars, result>>

KernelNext ==
    \/ \E p \in Processes, k \in Kids : Forks(p, k)
    \/ \E k \in Kids : LeavesGroup(k) \/ ReapedByParent(k)
    \/ \E p \in Processes : Exits(p)
    \/ TimePasses

-----------------------------------------------------------------------------
(* Until the root has ended                                                *)

RpmGoes(here, next) == rpmAt = here /\ rpmAt' = next /\ UNCHANGED <<parent, apart, now, result>>

GroupAlive == {p \in Processes \ apart : life[p] = "alive"}

\* Binding the root may fail before the supervisor knows it, or after.
Launches ==
    /\ \E next \in {"watch", "finally", "unbound"} : RpmGoes("launch", next)
    /\ UNCHANGED <<life, rpmKilled, drainVars>>

\* SIGTERM, which is not modelled, comes before SIGKILL.
KillsGroup ==
    /\ now = 2 /\ GroupAlive \ rpmKilled # {}
    /\ RpmGoes("watch", "watch")
    /\ rpmKilled' = rpmKilled \cup GroupAlive
    /\ UNCHANGED <<life, drainVars>>

FindsRootEnded ==
    /\ life[Root] = "zombie" /\ now < 3
    /\ RpmGoes("watch", "snapshot") /\ emergency' = FALSE /\ caller' = "run"
    /\ UNCHANGED <<life, rpmKilled, rpmSeen, partial, bound, stable>>

GivesUp ==
    /\ now = 3
    /\ RpmGoes("watch", "finally")
    /\ UNCHANGED <<life, rpmKilled, drainVars>>

-----------------------------------------------------------------------------
(* drain_adopted_children and emergency_direct_cleanup                     *)

Drains(here, next) == now < 3 /\ RpmGoes(here, next) /\ UNCHANGED <<emergency, caller>>

Reaps(S) ==
    /\ life' = [p \in Processes |-> IF p \in Ended(S) THEN "gone" ELSE life[p]]
    /\ bound' = bound \ Ended(S)

\* One round begins with a list, or with part of it.
Snapshot ==
    /\ Drains("snapshot", "reap")
    /\ \/ rpmSeen' = Direct /\ partial' = FALSE
       \/ rpmSeen' \in SUBSET Direct /\ partial' = TRUE
    /\ UNCHANGED <<life, rpmKilled, bound, stable>>

ReapsReady ==
    /\ Drains("reap", "bind")
    /\ Reaps(bound) /\ rpmSeen' = rpmSeen \ Ended(bound)
    /\ UNCHANGED <<rpmKilled, partial, stable>>

\* What cannot be bound ends the draining, in an emergency it is passed over.
Binds ==
    /\ \E known \in SUBSET (rpmSeen \ {Root}) :
          /\ bound' = bound \cup known
          /\ Drains("bind", IF emergency \/ known = rpmSeen \ {Root} THEN "left" ELSE "raised")
    /\ UNCHANGED <<life, rpmKilled, rpmSeen, partial, stable>>

\* A binding whose process is not on the list, which broke off then: it is
\* reaped, and one that has not ended is an error, or is killed.
Leftovers ==
    LET missing == bound \ rpmSeen
        living == {k \in missing : life[k] = "alive"}
    IN  /\ Drains("left", IF emergency \/ living = {} THEN "signal" ELSE "raised")
        /\ Reaps(missing)
        /\ rpmKilled' = IF emergency THEN rpmKilled \cup living ELSE rpmKilled
        /\ UNCHANGED <<rpmSeen, partial, stable>>

\* Due for SIGKILL at the end of the grace, and when a list broke off.
Signals ==
    LET due == emergency \/ partial \/ now = 2
    IN  /\ Drains("signal", "final")
        /\ rpmKilled' = IF due THEN rpmKilled \cup (bound \cap rpmSeen) ELSE rpmKilled
        /\ Reaps(bound)
        /\ UNCHANGED <<rpmSeen, partial, stable>>

\* The root is the only direct child, and the only one with a binding.
Alone_DespiteError == Direct \cap rpmSeen \subseteq {Root} /\ bound = {}

Alone == ~partial /\ Direct = {Root} /\ bound = {}

\* A second list may break off too.
FinalSnapshot ==
    \/ /\ Alone /\ ~emergency
       /\ Drains("final", "settle") /\ UNCHANGED <<stable, life, rpmKilled, rpmSeen, partial, bound>>
    \/ /\ Alone /\ emergency
       /\ Drains("final", IF stable = 1 THEN "drained" ELSE "snapshot") /\ stable' = 1
       /\ UNCHANGED <<life, rpmKilled, rpmSeen, partial, bound>>
    \/ /\ Drains("final", "snapshot") /\ stable' = 0
       /\ UNCHANGED <<life, rpmKilled, rpmSeen, partial, bound>>

Settles ==
    /\ \/ Alone /\ Drains("settle", "drained")
       \/ Drains("settle", "snapshot")
    /\ UNCHANGED <<life, rpmKilled, rpmSeen, partial, bound, stable>>

\* An error while draining: the group is killed and the emergency begins.
DrainRaises ==
    /\ RpmGoes("raised", "snapshot")
    /\ emergency' = TRUE /\ stable' = 0
    /\ rpmKilled' = rpmKilled \cup GroupAlive
    /\ UNCHANGED <<life, caller, rpmSeen, partial, bound>>

DrainOutOfTime ==
    /\ now = 3
    /\ rpmAt \in {"snapshot", "reap", "bind", "left", "signal", "final", "settle"}
    /\ RpmGoes(rpmAt, "undrained")
    /\ UNCHANGED <<life, rpmKilled, drainVars>>

-----------------------------------------------------------------------------
(* What comes after it                                                     *)

ReapsRoot ==
    /\ rpmAt = "drained" /\ caller # "waiting"
    /\ life' = [life EXCEPT ![Root] = "gone"]
    /\ rpmAt' = IF caller = "run" THEN "done" ELSE "finalize"
    /\ result' = IF caller = "run" THEN "returned" ELSE result
    /\ UNCHANGED <<parent, apart, rpmKilled, now, drainVars>>

\* The draining before the root has ended is done once, whatever comes of it.
StopsWaiting ==
    /\ rpmAt \in {"drained", "undrained"} /\ caller = "waiting"
    /\ RpmGoes(rpmAt, "await")
    /\ UNCHANGED <<life, rpmKilled, drainVars>>

GivesUpDraining ==
    /\ caller # "waiting"
    /\ RpmGoes("undrained", IF caller = "run" THEN "finally" ELSE "finalize")
    /\ UNCHANGED <<life, rpmKilled, drainVars>>

\* The cleanup gets time of its own.
Finally ==
    /\ rpmAt = "finally" /\ now' = 2
    /\ rpmKilled' = rpmKilled \cup GroupAlive
    /\ IF life[Root] = "zombie"
       THEN rpmAt' = "snapshot" /\ emergency' = FALSE /\ caller' = "finally"
       ELSE rpmAt' = "snapshot" /\ emergency' = TRUE /\ caller' = "waiting"
    /\ stable' = 0
    /\ UNCHANGED <<processVars, rpmSeen, partial, bound, result>>

AwaitsRoot ==
    /\ life[Root] = "zombie" /\ now < 3
    /\ RpmGoes("await", "snapshot") /\ emergency' = FALSE /\ caller' = "finally"
    /\ UNCHANGED <<life, rpmKilled, rpmSeen, partial, bound, stable>>

AwaitsNoLonger ==
    /\ now = 3 /\ RpmGoes("await", "finalize") /\ UNCHANGED <<life, rpmKilled, drainVars>>

\* Without any binding the root is killed as the child it is, and what its
\* end has left is bound and killed as far as it can be.
KillsUnbound ==
    /\ rpmAt = "unbound" /\ rpmAt' = "orphans" /\ now' = 2
    /\ rpmKilled' = rpmKilled \cup GroupAlive
    /\ UNCHANGED <<processVars, drainVars, result>>

TakesOrphans ==
    /\ now < 3 /\ life[Root] # "alive"
    /\ life' = [life EXCEPT ![Root] = "gone"]
    /\ \/ RpmGoes("orphans", "finalize") /\ UNCHANGED <<rpmKilled, bound>>
       \/ /\ RpmGoes("orphans", "orphans")
          /\ \E known \in SUBSET (Direct \ {Root}) :
                 bound' = bound \cup known /\ rpmKilled' = rpmKilled \cup bound'
    /\ UNCHANGED <<emergency, caller, rpmSeen, partial, stable>>

OrphansOutOfTime ==
    /\ now = 3 /\ RpmGoes("orphans", "finalize") /\ UNCHANGED <<life, rpmKilled, drainVars>>

\* finalize_adopted_children: what has a binding is killed and reaped.
Finalizes ==
    /\ rpmAt = "finalize"
    /\ rpmKilled' = rpmKilled \cup bound /\ Reaps(bound)
    /\ IF bound' = {} \/ now = 3
       THEN rpmAt' = "done" /\ result' = "raised"
       ELSE rpmAt' = "finalize" /\ UNCHANGED result
    /\ UNCHANGED <<parent, apart, now, emergency, caller, rpmSeen, partial, stable>>

SupervisorNext ==
    \/ Launches \/ KillsGroup \/ FindsRootEnded \/ GivesUp
    \/ Snapshot \/ ReapsReady \/ Binds \/ Leftovers \/ Signals \/ FinalSnapshot \/ Settles
    \/ DrainRaises \/ DrainOutOfTime
    \/ ReapsRoot \/ StopsWaiting \/ GivesUpDraining
    \/ Finally \/ AwaitsRoot \/ AwaitsNoLonger
    \/ KillsUnbound \/ TakesOrphans \/ OrphansOutOfTime \/ Finalizes

RpmNext == KernelNext \/ SupervisorNext

RpmSpec == RpmInit /\ [][RpmNext]_rpmVars

-----------------------------------------------------------------------------
\* A run that returns an exit status leaves no process behind: not one that
\* daemonised, nor a zombie, nor one forked while the others were killed.
ReturnsAlone == result = "returned" => \A p \in Processes : ~There(p)

=============================================================================
