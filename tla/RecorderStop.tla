---------------------------- MODULE RecorderStop ----------------------------
(***************************************************************************)
(* stop_process (recorder.py): ending a recorder from its process id and   *)
(* the identity (boot and start time) written down when it was started.    *)
(* INT, then TERM, then KILL, each with a deadline of its own, and the     *)
(* answer whether the recorder and everything it started is gone.          *)
(*                                                                         *)
(* The recorder runs meanwhile: it and its children end, are reaped, have  *)
(* their process ids reused, fork, and leave the session.  Every look into *)
(* /proc or into the scope is one step; so are opening a pidfd, the check  *)
(* behind it and the signal.  A recorder started under a priority scope is *)
(* looked for there, any other in its session and among its descendants.   *)
(*                                                                         *)
(* The process ids of members of a session are not reused for the session, *)
(* and a child that ended counts as gone at once: nothing in the code asks *)
(* for the difference.  The time is 0 before the deadline of INT, 1 before *)
(* that of TERM, 2 before that of KILL, 3 after it.                        *)
(***************************************************************************)
EXTENDS Naturals, FiniteSets

CONSTANTS
    Leader,     \* the recorder
    Kids,       \* what it may start
    NoPrey,     \* no process
    ScansFail   \* whether /proc and the scope may be unreadable

StopAssumption == Leader \notin Kids /\ NoPrey \notin Kids \cup {Leader} /\ ScansFail \in BOOLEAN

VARIABLES
    scoped,       \* the recorder was started in a scope of its own
    vanished,     \* systemd has removed the scope
    life,         \* of each process
    apart,        \* the children that left the session
    now,          \* the time
    phase,        \* 1 INT, 2 TERM, 3 KILL
    at,           \* where stop_process is
    known,        \* descendant_identities
    scopeTold,    \* scope_signal_sent
    loop, todo,   \* the loop over processes to signal, and what it has left
    prey, pidfd,  \* the process being signalled, and whose descriptor is open
    answer,       \* what stop_process returns
    struck        \* whether a process of somebody else got a signal

kernelVars == <<vanished, life, apart>>
aimVars == <<loop, todo, prey, pidfd>>
stopVars == <<scoped, kernelVars, now, phase, at, known, scopeTold, aimVars, answer, struck>>

Recorder == Kids \cup {Leader}

StopTypeOK ==
    /\ scoped \in BOOLEAN /\ vanished \in BOOLEAN
    /\ life \in [Recorder -> {"unborn", "alive", "zombie", "gone", "reused"}]
    /\ apart \subseteq Kids
    /\ now \in 0..3 /\ phase \in 1..3
    /\ at \in {"called", "safe", "refresh", "signal", "loop", "open", "check", "send",
               "observe", "settle", "past", "done"}
    /\ known \subseteq Kids
    /\ scopeTold \in BOOLEAN
    /\ loop \in {"leader", "kids", "scope"} /\ todo \subseteq Recorder
    /\ prey \in Recorder \cup {NoPrey} /\ pidfd \in {"none", "own", "other"}
    /\ answer \in {"none", "stopped", "refused"}
    /\ struck \in BOOLEAN

StopInit ==
    /\ scoped \in BOOLEAN /\ vanished = FALSE
    /\ life = [p \in Recorder |-> IF p = Leader THEN "alive" ELSE "unborn"]
    /\ apart = {}
    /\ now = 0 /\ phase = 1 /\ at = "called"
    /\ known = {} /\ scopeTold = FALSE
    /\ loop = "leader" /\ todo = {} /\ prey = NoPrey /\ pidfd = "none"
    /\ answer = "none" /\ struck = FALSE

Live(S) == {p \in S : life[p] = "alive"}
Present(p) == life[p] \in {"alive", "zombie"}
Absent(p) == life[p] \in {"zombie", "gone"}     \* _recording_process_is_absent
InSession == Kids \ apart

-----------------------------------------------------------------------------
(* The processes and the clock                                             *)

ProcessEnds(p) ==
    /\ life[p] = "alive"
    /\ life' = [life EXCEPT ![p] = IF p = Leader THEN "zombie" ELSE "gone"]
    /\ UNCHANGED <<scoped, vanished, apart, now, phase, at, known, scopeTold, aimVars, answer, struck>>

\* By init, or by the caller when it is the one that started the recorder.
LeaderReaped ==
    /\ life[Leader] = "zombie"
    /\ life' = [life EXCEPT ![Leader] = "gone"]
    /\ UNCHANGED <<scoped, vanished, apart, now, phase, at, known, scopeTold, aimVars, answer, struck>>

ProcessForks(k) ==
    /\ life[k] = "unborn"
    /\ \E p \in Live(Recorder) : apart' = IF p \in apart THEN apart \cup {k} ELSE apart
    /\ life' = [life EXCEPT ![k] = "alive"]
    /\ UNCHANGED <<scoped, vanished, now, phase, at, known, scopeTold, aimVars, answer, struck>>

LeavesSession(k) ==
    /\ k \in Live(Kids) \ apart
    /\ apart' = apart \cup {k}
    /\ UNCHANGED <<scoped, vanished, life, now, phase, at, known, scopeTold, aimVars, answer, struck>>

\* The kernel does not give the id of the leader away while it names a session.
PidReused(p) ==
    /\ life[p] = "gone"
    /\ p = Leader => Live(InSession) = {}
    /\ life' = [life EXCEPT ![p] = "reused"]
    /\ UNCHANGED <<scoped, vanished, apart, now, phase, at, known, scopeTold, aimVars, answer, struck>>

ScopeVanishes ==
    /\ scoped /\ ~vanished /\ \A p \in Recorder : ~Present(p)
    /\ vanished' = TRUE
    /\ UNCHANGED <<scoped, life, apart, now, phase, at, known, scopeTold, aimVars, answer, struck>>

TimePasses ==
    /\ now < 3 /\ at # "done"
    /\ now' = now + 1
    /\ UNCHANGED <<scoped, kernelVars, phase, at, known, scopeTold, aimVars, answer, struck>>

-----------------------------------------------------------------------------
(* What stop_process sees                                                  *)

\* refresh_scope_identities: a scope that is gone is believed only after a signal.
ScopeReadable == (scoped /\ vanished) => scopeTold

\* target_identity_still_safe: it is the recorder, or the recorder is gone and
\* something of it is left.
StillSafe ==
    /\ ScopeReadable
    /\ \/ Present(Leader)
       \/ /\ life[Leader] = "gone"
          /\ IF scoped THEN Live(Recorder) # {} ELSE Live(known \cup InSession) # {}

\* Without asking for the rest of the session.
TargetGone_LeaderOnly ==
    /\ ScopeReadable
    /\ scoped => Live(Recorder) = {}
    /\ Live(known) = {} /\ ~Present(Leader)

\* process_target_is_gone.
TargetGone ==
    /\ ScopeReadable
    /\ scoped => Live(Recorder) = {}
    /\ Live(known) = {} /\ ~Present(Leader) /\ Live(InSession) = {}

Reading == at \in {"called", "safe", "refresh", "signal", "loop", "check", "observe", "settle", "past"}
PhaseOver == now >= phase

Refuses ==
    /\ at' = "done" /\ answer' = "refused"
    /\ UNCHANGED <<scoped, kernelVars, now, phase, known, scopeTold, aimVars, struck>>

Stopped ==
    /\ at' = "done" /\ answer' = "stopped"
    /\ UNCHANGED <<scoped, kernelVars, now, phase, known, scopeTold, aimVars, struck>>

Proceeds(step) ==
    /\ at' = step
    /\ UNCHANGED <<scoped, kernelVars, now, phase, known, scopeTold, aimVars, answer, struck>>

\* An unreadable /proc or scope, or no time left, ends it anywhere.
ScanFails == ScansFail /\ Reading /\ Refuses
OutOfTime == now = 3 /\ at # "done" /\ Refuses

-----------------------------------------------------------------------------
(* The steps; each needs time to be left                                   *)

\* getpgid: a recorder that is gone must have left something in its session or
\* its scope.
Groups ==
    /\ at = "called" /\ now < 3
    /\ IF Present(Leader) \/ (life[Leader] = "gone" /\ ScopeReadable
                              /\ Live(IF scoped THEN Recorder ELSE InSession) # {})
       THEN Proceeds("safe") ELSE Refuses

\* target_identity_still_safe before each phase; the TERM phase is left out when
\* its time has passed.
Secures ==
    /\ at = "safe" /\ now < 3
    /\ IF ~StillSafe THEN Refuses
       ELSE IF phase = 2 /\ PhaseOver
       THEN /\ phase' = 3 /\ at' = "past"
            /\ UNCHANGED <<scoped, kernelVars, now, known, scopeTold, aimVars, answer, struck>>
       ELSE Proceeds("refresh")

\* What a living leader has as descendants, and what shares the session of one
\* that is there; what was known stays known.
Refreshes ==
    /\ at = "refresh" /\ now < 3
    /\ known' = known \cup (IF life[Leader] = "alive" THEN Live(Kids) ELSE {})
                      \cup (IF Present(Leader) THEN Live(InSession) ELSE {})
    /\ at' = "signal"
    /\ UNCHANGED <<scoped, kernelVars, now, phase, scopeTold, aimVars, answer, struck>>

\* signal_scope_targets.
EntersScopeLoop ==
    IF ~scoped THEN Proceeds("observe")
    ELSE IF ~ScopeReadable THEN Refuses
    ELSE /\ scopeTold' = TRUE /\ loop' = "scope" /\ todo' = Live(Recorder) /\ at' = "loop"
         /\ UNCHANGED <<scoped, kernelVars, now, phase, known, prey, pidfd, answer, struck>>

EntersKidsLoop ==
    /\ loop' = "kids" /\ todo' = known /\ prey' = NoPrey /\ pidfd' = "none" /\ at' = "loop"
    /\ UNCHANGED <<scoped, kernelVars, now, phase, known, scopeTold, answer, struck>>

AimsAt(p, which) ==
    /\ prey' = p /\ loop' = which /\ at' = "open"
    /\ UNCHANGED <<scoped, kernelVars, now, phase, known, scopeTold, todo, pidfd, answer, struck>>

\* signal_process_target: the leader first, the rest only when it is gone.
SignalsTarget ==
    /\ at = "signal" /\ ~PhaseOver
    /\ IF ~StillSafe THEN Refuses
       ELSE IF life[Leader] = "alive" THEN AimsAt(Leader, "leader")
       ELSE IF scoped THEN EntersScopeLoop
       ELSE IF Live(known) = {} THEN Refuses
       ELSE EntersKidsLoop

\* signal_descendant_targets and signal_scope_targets: one more process.  In the
\* loop over the scope the leader itself must not come up.
SignalsNext ==
    /\ at = "loop" /\ ~PhaseOver /\ todo # {}
    /\ \E p \in todo :
         IF ~ScopeReadable \/ life[p] = "reused" \/ (p = Leader /\ ~Absent(p)) THEN Refuses
         ELSE IF Absent(p)
         THEN /\ todo' = todo \ {p}
              /\ UNCHANGED <<scoped, kernelVars, now, phase, at, known, scopeTold, loop, prey, pidfd,
                             answer, struck>>
         ELSE AimsAt(p, loop)

LoopEnds ==
    /\ at = "loop" /\ ~PhaseOver /\ todo = {}
    /\ IF loop = "kids" THEN EntersScopeLoop ELSE Proceeds("observe")

\* pidfd_open: of whatever has the id now.
OpensPidfd ==
    /\ at = "open" /\ ~PhaseOver
    /\ IF life[prey] = "gone" THEN Refuses
       ELSE /\ pidfd' = IF life[prey] = "reused" THEN "other" ELSE "own"
            /\ at' = "check"
            /\ UNCHANGED <<scoped, kernelVars, now, phase, known, scopeTold, loop, todo, prey, answer, struck>>

\* The identity taken before the descriptor was open is believed.
ChecksIdentity_Before == at = "check" /\ ~PhaseOver /\ Proceeds("send")

\* The identity, and being in the scope, are looked at behind the open descriptor.
ChecksIdentity ==
    /\ at = "check" /\ ~PhaseOver
    /\ IF (IF scoped THEN life[prey] = "alive" /\ ~vanished ELSE Present(prey))
       THEN Proceeds("send") ELSE Refuses

SendsSignal ==
    /\ at = "send" /\ ~PhaseOver
    /\ IF pidfd = "own" /\ ~Present(prey) THEN Refuses
       ELSE /\ struck' = (struck \/ pidfd = "other")
            /\ prey' = NoPrey /\ pidfd' = "none" /\ at' = "loop"
            /\ IF loop = "leader" THEN loop' = "kids" /\ todo' = known
               ELSE todo' = todo \ {prey} /\ UNCHANGED loop
            /\ UNCHANGED <<scoped, kernelVars, now, phase, known, scopeTold, answer>>

\* The time of a phase passes while it still signals or waits.
PhaseEnds ==
    /\ at \in {"signal", "loop", "open", "check", "send", "observe", "settle"}
    /\ PhaseOver /\ now < 3
    /\ phase' = phase + 1
    /\ loop' = "leader" /\ todo' = {} /\ prey' = NoPrey /\ pidfd' = "none"
    /\ at' = "past"
    /\ UNCHANGED <<scoped, kernelVars, now, known, scopeTold, answer, struck>>

\* observe_target_until: gone, or else still safe.
Observes == at = "observe" /\ ~PhaseOver /\ IF TargetGone THEN Stopped ELSE Proceeds("settle")
Settles == at = "settle" /\ ~PhaseOver /\ IF StillSafe THEN Proceeds("observe") ELSE Refuses

\* Between two phases.
LooksAgain == at = "past" /\ now < 3 /\ IF TargetGone THEN Stopped ELSE Proceeds("safe")

\* The reused id of the leader names a group of its own: the group is not gone.
MistakesGroup == at \in {"observe", "past"} /\ now < 3 /\ life[Leader] = "reused" /\ Refuses

StopSteps ==
    \/ Groups \/ Secures \/ Refreshes \/ SignalsTarget \/ SignalsNext \/ LoopEnds
    \/ OpensPidfd \/ ChecksIdentity \/ SendsSignal
    \/ PhaseEnds \/ Observes \/ Settles \/ LooksAgain \/ MistakesGroup
    \/ ScanFails \/ OutOfTime

KernelSteps ==
    \/ \E p \in Recorder : ProcessEnds(p) \/ PidReused(p)
    \/ \E k \in Kids : ProcessForks(k) \/ LeavesSession(k)
    \/ LeaderReaped \/ ScopeVanishes \/ TimePasses

StopNext == StopSteps \/ KernelSteps
StopSpec == StopInit /\ [][StopNext]_stopVars

-----------------------------------------------------------------------------
(* Properties                                                              *)

\* No process but the recorder and what it started is ever signalled, however
\* fast the ids are reused: the identity is read again behind the pidfd
\* (_send_process_signal_with_pidfd).
SignalsOwn == ~struck

\* When the answer is that the recorder is stopped, it is dead, and so is all of
\* its scope; without a scope, everything in its session and every descendant
\* ever seen (process_target_is_gone).
StoppedMeansGone ==
    answer = "stopped" =>
        ~Present(Leader) /\ Live(IF scoped THEN Recorder ELSE known \cup InSession) = {}

\* A recorder that is still there is given up only when the time is over
\* (recorder.py:4577-4580).
KeepsTrying == [][answer = "none" /\ answer' = "refused" /\ now < 3 => life[Leader] # "alive"]_stopVars
=============================================================================
