---------------------------- MODULE RecorderStart ---------------------------
(***************************************************************************)
(* start_recorder (recorder.py): spawning a recorder in a session of its   *)
(* own, waiting until it has entered its scope (when the caller runs in    *)
(* one) and has lived through the startup check; and when any of it fails, *)
(* or the user interrupts, ending what was started before the caller may   *)
(* try the next backend.                                                   *)
(*                                                                         *)
(* The recorder and its children live on meanwhile, as in RecorderStop: a  *)
(* child may leave the session, or close the log pipe it inherited.  What  *)
(* stop_process answers is taken from its promise there.                   *)
(***************************************************************************)
EXTENDS Naturals, FiniteSets

CONSTANTS Leader, Kids

StartAssumption == Leader \notin Kids

VARIABLES
    scoped,      \* parent_scope: the caller runs in a scope
    life, apart, \* of the processes, and the children out of the session
    quiet,       \* the children that do not hold the log pipe
    members,     \* the processes in the recorder's scope
    start,       \* where start_recorder is
    identity,    \* process_identity was captured
    verified,    \* verified_recorder_scope
    finished,    \* poll has returned a status
    tree,        \* the processes to kill
    complete     \* nothing has gone wrong with the clean-up

startKernelVars == <<life, apart, quiet, members>>
startVars == <<scoped, startKernelVars, start, identity, verified, finished, tree, complete>>

Started == Kids \cup {Leader}

StartTypeOK ==
    /\ scoped \in BOOLEAN
    /\ life \in [Started -> {"unborn", "alive", "zombie", "gone", "reused"}]
    /\ apart \subseteq Kids /\ quiet \subseteq Kids /\ members \subseteq Started
    /\ start \in {"spawns", "identifies", "scopes", "polls", "checks", "fails", "scans", "looks",
                  "again", "confirms", "holders", "unit", "kills", "leader", "session", "waits",
                  "communicates", "running", "clean", "incomplete"}
    /\ identity \in BOOLEAN /\ verified \in BOOLEAN /\ finished \in BOOLEAN
    /\ tree \subseteq Kids /\ complete \in BOOLEAN

StartInit ==
    /\ scoped \in BOOLEAN
    /\ life = [p \in Started |-> "unborn"]
    /\ apart = {} /\ quiet = {} /\ members = {}
    /\ start = "spawns" /\ identity = FALSE /\ verified = FALSE /\ finished = FALSE
    /\ tree = {} /\ complete = TRUE

Running(S) == {p \in S : life[p] = "alive"}
There(p) == life[p] \in {"alive", "zombie"}
Session == Kids \ apart
Holders == Running(Kids) \ quiet
Reaped == [life EXCEPT ![Leader] = IF @ = "zombie" THEN "gone" ELSE @]   \* poll

-----------------------------------------------------------------------------
(* The processes                                                           *)

Exits(p) ==
    /\ life[p] = "alive"
    /\ life' = [life EXCEPT ![p] = IF p = Leader THEN "zombie" ELSE "gone"]
    /\ UNCHANGED <<scoped, apart, quiet, members, start, identity, verified, finished, tree, complete>>

Forking(k) ==
    /\ life[k] = "unborn"
    /\ \E p \in Running(Started) :
         /\ apart' = IF p \in apart THEN apart \cup {k} ELSE apart
         /\ quiet' = IF p \in quiet THEN quiet \cup {k} ELSE quiet
         /\ members' = IF p \in members THEN members \cup {k} ELSE members
    /\ life' = [life EXCEPT ![k] = "alive"]
    /\ UNCHANGED <<scoped, start, identity, verified, finished, tree, complete>>

Daemonizes(k) ==
    /\ k \in Running(Kids)
    /\ \/ apart' = apart \cup {k} /\ UNCHANGED quiet
       \/ quiet' = quiet \cup {k} /\ UNCHANGED apart
    /\ UNCHANGED <<scoped, life, members, start, identity, verified, finished, tree, complete>>

\* The command of the scope, systemd-run, moves itself before it becomes the recorder.
EntersScope ==
    /\ scoped /\ life[Leader] = "alive" /\ Leader \notin members
    /\ \A k \in Kids : life[k] = "unborn"
    /\ members' = {Leader}
    /\ UNCHANGED <<scoped, life, apart, quiet, start, identity, verified, finished, tree, complete>>

Reuses(p) ==
    /\ life[p] = "gone" /\ (p = Leader => Running(Session) = {})
    /\ life' = [life EXCEPT ![p] = "reused"]
    /\ UNCHANGED <<scoped, apart, quiet, members, start, identity, verified, finished, tree, complete>>

-----------------------------------------------------------------------------
(* Starting                                                                *)

Goes(from, to) == start = from /\ start' = to
Unspoilt == UNCHANGED <<scoped, apart, quiet, members>>

Spawned ==
    /\ Goes("spawns", "identifies")
    /\ life' = [life EXCEPT ![Leader] = "alive"]
    /\ Unspoilt /\ UNCHANGED <<identity, verified, finished, tree, complete>>

\* The boot id may be unreadable.
Identified ==
    /\ Goes("identifies", IF scoped THEN "scopes" ELSE "checks")
    /\ identity' \in BOOLEAN
    /\ Unspoilt /\ UNCHANGED <<life, verified, finished, tree, complete>>

LooksForScope ==
    /\ Goes("scopes", "polls")
    /\ verified' = (Leader \in members /\ life[Leader] = "alive")
    /\ Unspoilt /\ UNCHANGED <<life, identity, finished, tree, complete>>

\* Ended, in the scope, or time to look again; a late scope is an error.
PollsScope ==
    /\ start = "polls"
    /\ life' = Reaped /\ finished' = (life[Leader] = "zombie")
    /\ IF finished' THEN start' = "fails" /\ UNCHANGED identity
       ELSE \/ start' = "fails" /\ UNCHANGED identity
            \/ start' = (IF verified THEN "checks" ELSE "scopes") /\ identity' = TRUE
    /\ Unspoilt /\ UNCHANGED <<verified, tree, complete>>

\* The last poll of the startup check.
Checked ==
    /\ start = "checks"
    /\ life' = Reaped /\ finished' = (life[Leader] = "zombie")
    /\ identity' \in {identity, ~finished'}
    /\ start' = IF ~finished' /\ identity' THEN "running" ELSE "fails"
    /\ Unspoilt /\ UNCHANGED <<verified, tree, complete>>

Interrupted ==
    /\ start \in {"identifies", "scopes", "polls", "checks"} /\ start' = "fails"
    /\ Unspoilt /\ UNCHANGED <<life, identity, verified, finished, tree, complete>>

-----------------------------------------------------------------------------
(* Cleaning up                                                             *)

\* _recording_process_identity_is_current.
IdentityHolds == identity /\ (There(Leader) \/ (life[Leader] = "gone" /\ finished))

\* stop_process, with the scope seen; when it gives up, the recorder and the
\* scope are looked at once more.
StopsScope ==
    /\ start = "fails" /\ verified
    /\ \E stopped \in BOOLEAN :
         /\ stopped => Running(members) = {} /\ ~There(Leader)
         /\ life' = Reaped /\ finished' = (finished \/ life[Leader] # "alive")
         /\ complete' = (stopped \/ (finished' /\ Running(members) = {}))
    /\ start' = "communicates"
    /\ Unspoilt /\ UNCHANGED <<identity, verified, tree>>

\* The descendants, which only a living leader has, before the poll; the scan
\* may fail.  Without the scope the leader must have ended first.
Scans ==
    /\ start = "fails" /\ ~verified /\ start' = "scans"
    /\ tree' = IF ~scoped /\ life[Leader] = "alive" THEN Running(Kids) ELSE {}
    /\ complete' \in {complete, FALSE}
    /\ Unspoilt /\ UNCHANGED <<life, identity, verified, finished>>

\* A recorder whose scope was not seen must have ended by itself.
PollsLeader ==
    /\ start = "scans"
    /\ life' = Reaped /\ finished' = (finished \/ life[Leader] = "zombie")
    /\ IF ~IdentityHolds \/ (scoped /\ ~finished')
       THEN start' = "communicates" /\ complete' = FALSE
       ELSE start' = "looks" /\ UNCHANGED complete
    /\ Unspoilt /\ UNCHANGED <<identity, verified, tree>>

\* Without asking for the rest of the session.
LooksAtGroup_LeaderOnly ==
    /\ start = "looks"
    /\ start' = IF finished THEN "holders" ELSE "confirms"
    /\ UNCHANGED complete
    /\ Unspoilt /\ UNCHANGED <<life, identity, verified, finished, tree>>

\* process_group_has_live_processes; whoever has ended in time holds the log or not.
LooksAtGroup ==
    /\ start = "looks"
    /\ IF scoped /\ Running(Session) # {} THEN start' = "communicates" /\ complete' = FALSE
       ELSE /\ start' = IF finished THEN (IF Running(Session) = {} THEN "holders" ELSE "again")
                        ELSE "confirms"
            /\ UNCHANGED complete
    /\ Unspoilt /\ UNCHANGED <<life, identity, verified, finished, tree>>

\* _process_pipe_holder_identities, with the group dead: a clean recorder is
\* done but for its descendants, or for its unit.
LooksAtHolders ==
    /\ start = "holders"
    /\ IF scoped
       THEN /\ IF Holders # {} THEN start' = "communicates" /\ complete' = FALSE
               ELSE start' = "unit" /\ UNCHANGED complete
            /\ UNCHANGED tree
       ELSE /\ start' = IF Holders = {} THEN "kills" ELSE "confirms"
            /\ tree' = tree \cup Holders /\ UNCHANGED complete
    /\ Unspoilt /\ UNCHANGED <<life, identity, verified, finished>>

\* With the group alive: its holders are killed with it.
AddsHolders ==
    /\ Goes("again", "confirms")
    /\ tree' = tree \cup Holders
    /\ Unspoilt /\ UNCHANGED <<life, identity, verified, finished, complete>>

\* _recorder_scope_unit_is_stably_gone; systemd keeps a unit with processes.
UnitGone ==
    /\ Goes("unit", "communicates")
    /\ \E absent \in BOOLEAN : (absent => Running(members) = {}) /\ complete' = absent
    /\ Unspoilt /\ UNCHANGED <<life, identity, verified, finished, tree>>

\* The identity once more before anything is killed.
Confirms ==
    /\ start = "confirms"
    /\ IF IdentityHolds THEN start' = "kills" /\ UNCHANGED complete
       ELSE start' = "communicates" /\ complete' = FALSE
    /\ Unspoilt /\ UNCHANGED <<life, identity, verified, finished, tree>>

\* _kill_output_process_tree: by pidfd, each only with its own start time.
KillsTree ==
    /\ Goes("kills", "leader")
    /\ life' = [p \in Started |-> IF p \in tree /\ life[p] = "alive" THEN "gone" ELSE life[p]]
    /\ complete' \in {complete, FALSE}
    /\ Unspoilt /\ UNCHANGED <<identity, verified, finished, tree>>

KillsLeader ==
    /\ Goes("leader", "session")
    /\ IF finished THEN UNCHANGED <<life, complete>>
       ELSE /\ life' = [life EXCEPT ![Leader] = IF @ = "alive" THEN "zombie" ELSE @]
            /\ complete' = (complete /\ There(Leader))
    /\ Unspoilt /\ UNCHANGED <<identity, verified, finished, tree>>

\* _wait_for_recorder_session_stop, up to a second; nothing signals the session.
AwaitsSession ==
    /\ Goes("session", "waits")
    /\ complete' = (complete /\ Running(Session \cup {Leader}) = {})
    /\ Unspoilt /\ UNCHANGED <<life, identity, verified, finished, tree>>

AwaitsTree ==
    /\ Goes("waits", "communicates")
    /\ complete' = (complete /\ Running(tree) = {})
    /\ Unspoilt /\ UNCHANGED <<life, identity, verified, finished, tree>>

\* communicate(timeout=1) waits for the recorder and reaps it.
Communicates ==
    /\ start = "communicates"
    /\ life' = Reaped /\ finished' = (finished \/ life[Leader] = "zombie")
    /\ complete' = (complete /\ finished')
    /\ start' = IF complete' THEN "clean" ELSE "incomplete"
    /\ Unspoilt /\ UNCHANGED <<identity, verified, tree>>

Starts == Spawned \/ Identified \/ LooksForScope \/ PollsScope \/ Checked \/ Interrupted
Cleans ==
    \/ StopsScope \/ Scans \/ PollsLeader \/ LooksAtGroup \/ LooksAtHolders \/ AddsHolders
    \/ UnitGone \/ Confirms \/ KillsTree \/ KillsLeader \/ AwaitsSession \/ AwaitsTree
    \/ Communicates
Processes ==
    \/ \E p \in Started : Exits(p) \/ Reuses(p)
    \/ \E k \in Kids : Forking(k) \/ Daemonizes(k)
    \/ EntersScope

StartNext == Starts \/ Cleans \/ Processes
StartSpec == StartInit /\ [][StartNext]_startVars

-----------------------------------------------------------------------------
(* Properties                                                              *)

\* A start that failed without saying that its clean-up is incomplete has left
\* nothing of the recorder: not the recorder, nothing in its session, nothing in
\* its scope, no descendant it had seen (cleanup_started_process).
FailedStartIsClean ==
    start = "clean" =>
        /\ ~There(Leader)
        /\ Running(IF verified THEN members ELSE Session \cup members \cup tree) = {}
=============================================================================
