--------------------------- MODULE ScopedCommand ---------------------------
(***************************************************************************)
(* Every command of the command line starts itself again inside a systemd  *)
(* scope of its own and supervises that second process                      *)
(* (ensure_soc_priority_scope of process_priority.py).  The wrapper in the  *)
(* scope sends one message, the latch, before it looks at the command.      *)
(* Without the message and with a failure the scope could not be had, and   *)
(* the supervisor runs the command itself.                                  *)
(*                                                                         *)
(* INT, TERM, HUP and QUIT are one signal, which is passed on to the group  *)
(* of the child; what is in that group besides the child is left out.  The  *)
(* executable, the only file that is compared here, may be replaced once.   *)
(***************************************************************************)
EXTENDS Naturals

CONSTANT MaxSignals   \* how often the supervisor is signalled
ScopedAssumption == MaxSignals \in Nat

VARIABLES
    supervisor,       \* where the supervisor is
    status,           \* status_invocation: the command has a deadline
    latch,            \* latch_state
    socket,           \* the latch is in the listener's queue
    child,            \* the process in the scope
    sent,             \* the strongest signal it has been sent
    runs,             \* where the command has begun to run
    file,             \* the executable at the path of the command
    expected,         \* the one the launch specification names
    held,             \* the one the wrapper has opened, or is executing
    bound,            \* the forwarder knows the child's group
    primary,          \* primary_signal is set
    forwarded,        \* primary_signal_forwarded
    pending,          \* signals that came before the child was known
    cleaning,         \* error_cleanup_active
    signals           \* how many signals have come

childVars == <<socket, child, sent, runs, file, expected, held>>
forwarderVars == <<bound, primary, forwarded, pending, cleaning, signals>>
fileVars == <<file, expected, held>>
scopedVars == <<supervisor, status, latch, childVars, forwarderVars>>

Gone == {"zero", "error", "signalled"}
Finished == {"scoped", "here", "interrupted", "refused", "killed"}
Installed == {"starts", "launched", "looks", "polls", "decides", "waits", "terms", "kills",
              "failed", "closes"}

ScopedTypeOK ==
    /\ supervisor \in Finished \cup Installed
    /\ latch \in {"none", "entered", "invalid"} /\ child \in Gone \cup {"none", "tool", "wrapper", "latched", "checked", "opened", "runs"}
    /\ sent \in {"none", "term", "kill"} /\ runs \subseteq {"scope", "here"}
    /\ {status, socket, bound, primary, forwarded, pending, cleaning} \subseteq BOOLEAN
    /\ signals \in 0..MaxSignals
    /\ {file, expected, held} \subseteq 0..2

ScopedInit ==
    /\ supervisor = "starts" /\ status \in BOOLEAN
    /\ latch = "none" /\ socket = FALSE /\ child = "none" /\ sent = "none" /\ runs = {}
    /\ file = 1 /\ expected = 0 /\ held = 0
    /\ bound = FALSE /\ primary = FALSE /\ forwarded = FALSE /\ pending = FALSE /\ cleaning = FALSE
    /\ signals = 0

Lives == child \notin Gone \cup {"none"}

\* A signal to the group of the child, which kill() refuses once it is gone.
Sends(signal) == sent' = IF Lives /\ sent # "kill" THEN signal ELSE sent

-----------------------------------------------------------------------------
(* The process in the scope                                                *)

Enters ==
    /\ child = "tool" /\ child' = "wrapper"
    /\ UNCHANGED <<supervisor, status, latch, socket, sent, runs, fileVars, forwarderVars>>

SendsLatch ==
    /\ child = "wrapper" /\ supervisor \notin Finished
    /\ child' = "latched" /\ socket' = TRUE
    /\ UNCHANGED <<supervisor, status, latch, sent, runs, fileVars, forwarderVars>>

\* The arguments name the executable and what it looked like.
ChecksArguments ==
    /\ child = "latched" /\ file = expected /\ child' = "checked"
    /\ UNCHANGED <<supervisor, status, latch, socket, sent, runs, fileVars, forwarderVars>>

OpensExecutable_Again ==
    /\ child = "checked" /\ child' = "opened" /\ held' = file
    /\ UNCHANGED <<supervisor, status, latch, socket, sent, runs, file, expected, forwarderVars>>

OpensExecutable ==
    /\ child = "checked" /\ file = expected /\ child' = "opened" /\ held' = file
    /\ UNCHANGED <<supervisor, status, latch, socket, sent, runs, file, expected, forwarderVars>>

Execs ==
    /\ child = "opened" /\ child' = "runs" /\ runs' = runs \cup {"scope"}
    /\ UNCHANGED <<supervisor, status, latch, socket, sent, fileVars, forwarderVars>>

Upgraded == \* a new file is renamed to the path
    /\ file = 1 /\ file' = 2
    /\ UNCHANGED <<supervisor, status, latch, socket, child, sent, runs, expected, held, forwarderVars>>

\* systemd-run has no bus, the wrapper refuses its arguments or does not reach
\* the listener, the command ends.
ChildEnds ==
    /\ Lives
    /\ \/ child' = "error"
       \/ child = "runs" /\ child' = "zero"
    /\ UNCHANGED <<supervisor, status, latch, socket, sent, runs, fileVars, forwarderVars>>

\* A command may also live on after a TERM.
Dies ==
    /\ Lives /\ sent # "none" /\ child' = "signalled"
    /\ UNCHANGED <<supervisor, status, latch, socket, sent, runs, fileVars, forwarderVars>>

-----------------------------------------------------------------------------
(* Signals to the supervisor                                               *)

Heard == \* handle of the signal forwarder
    /\ supervisor \in Installed /\ expected # 0 /\ signals < MaxSignals /\ signals' = signals + 1
    /\ primary' = (primary \/ ~cleaning)
    /\ IF bound
       THEN /\ Sends("term")
            /\ forwarded' = IF ~primary /\ ~cleaning THEN Lives ELSE forwarded
            /\ UNCHANGED pending
       ELSE pending' = TRUE /\ UNCHANGED <<forwarded, sent>>
    /\ UNCHANGED <<supervisor, status, latch, socket, child, runs, fileVars, bound, cleaning>>

Killed ==
    /\ supervisor \notin Finished /\ supervisor' = "killed"
    /\ UNCHANGED <<status, latch, childVars, forwarderVars>>

-----------------------------------------------------------------------------
(* The supervisor                                                          *)

\* What the executable looks like is put down before the handlers are installed.
Launches ==
    /\ supervisor = "starts" /\ expected # 0 /\ supervisor' = "launched" /\ child' = "tool"
    /\ UNCHANGED <<status, latch, socket, sent, runs, fileVars, forwarderVars>>

Specifies ==
    /\ supervisor = "starts" /\ expected = 0 /\ expected' = file
    /\ UNCHANGED <<supervisor, status, latch, socket, child, sent, runs, file, held, forwarderVars>>

\* Without a signal until here the command is run without a scope.
LaunchFails ==
    /\ supervisor = "starts" /\ expected # 0 /\ supervisor' = "failed" /\ cleaning' = TRUE
    /\ UNCHANGED <<status, latch, childVars, bound, primary, forwarded, pending, signals>>

Binds == \* the signals that have come are passed on
    /\ supervisor = "launched" /\ supervisor' = "looks"
    /\ bound' = TRUE /\ pending' = FALSE
    /\ IF pending
       THEN Sends("term") /\ forwarded' = Lives
       ELSE UNCHANGED <<sent, forwarded>>
    /\ UNCHANGED <<status, latch, socket, child, runs, fileVars, primary, cleaning, signals>>

\* begin_error_cleanup: what is still done is the same with and without a signal.
Terminates(next) == supervisor' = IF forwarded THEN "waits" ELSE next

SeesSignal ==
    /\ supervisor = "looks" /\ primary
    /\ Terminates("terms")
    /\ UNCHANGED <<status, latch, childVars, forwarderVars>>

Receives ==
    /\ supervisor = "looks" /\ ~primary /\ supervisor' = "polls"
    /\ latch' = IF socket THEN "entered" ELSE latch
    /\ socket' = FALSE
    /\ UNCHANGED <<status, child, sent, runs, fileVars, forwarderVars>>

ReceivesNothing == \* recvmsg fails
    /\ supervisor = "looks" /\ ~primary /\ supervisor' = "polls" /\ latch' = "invalid"
    /\ UNCHANGED <<status, childVars, forwarderVars>>

\* The latch may have come after it was looked for and before the child ended.
SeesEnd_NotAgain ==
    /\ supervisor = "polls" /\ child \in Gone /\ supervisor' = "closes"
    /\ UNCHANGED <<latch, status, childVars, forwarderVars>>

SeesEnd ==
    /\ supervisor = "polls" /\ child \in Gone /\ supervisor' = "closes"
    /\ latch' = IF socket /\ latch = "none" THEN "entered" ELSE latch
    /\ socket' = FALSE
    /\ UNCHANGED <<status, child, sent, runs, fileVars, forwarderVars>>

SeesNone ==
    /\ supervisor = "polls" /\ child \notin Gone /\ supervisor' = "decides"
    /\ UNCHANGED <<status, latch, childVars, forwarderVars>>

Polls == SeesEnd \/ SeesNone

Distrusts ==
    /\ supervisor = "decides" /\ latch = "invalid" /\ cleaning' = TRUE /\ Terminates("terms")
    /\ UNCHANGED <<status, latch, childVars, bound, primary, forwarded, pending, signals>>

Selects ==
    /\ supervisor = "decides" /\ latch # "invalid" /\ supervisor' = "looks"
    /\ UNCHANGED <<status, latch, childVars, forwarderVars>>

\* The wrapper has not answered in time, or a status command takes too long.
TimesOut ==
    /\ supervisor = "decides"
    /\ \/ latch = "none" /\ ~socket
       \/ latch = "entered" /\ status
    /\ cleaning' = TRUE /\ Terminates("terms")
    /\ UNCHANGED <<status, latch, childVars, bound, primary, forwarded, pending, signals>>

-----------------------------------------------------------------------------
(* Ending the child                                                        *)

StopsWaiting ==
    /\ supervisor \in {"waits", "terms", "kills"} /\ child \in Gone
    /\ supervisor' = IF primary THEN "interrupted" ELSE "refused"
    /\ UNCHANGED <<status, latch, childVars, forwarderVars>>

SendsTerm ==
    /\ supervisor = "terms" /\ sent = "none" /\ Sends("term")
    /\ UNCHANGED <<supervisor, status, latch, socket, child, runs, fileVars, forwarderVars>>

\* The time to wait for the child is over.
WaitIsOver ==
    /\ \/ supervisor = "waits" /\ supervisor' = "terms"
       \/ supervisor = "terms" /\ sent # "none" /\ supervisor' = "kills"
    /\ UNCHANGED <<status, latch, childVars, forwarderVars>>

SendsKill_TermAgain ==
    /\ supervisor = "kills" /\ sent # "kill" /\ Sends("term")
    /\ UNCHANGED <<supervisor, status, latch, socket, child, runs, fileVars, forwarderVars>>

SendsKill ==
    /\ supervisor = "kills" /\ sent # "kill" /\ Sends("kill")
    /\ UNCHANGED <<supervisor, status, latch, socket, child, runs, fileVars, forwarderVars>>

-----------------------------------------------------------------------------
(* What comes of it                                                        *)

Interrupts ==
    /\ \/ supervisor = "failed" /\ (primary \/ pending)
       \/ supervisor = "closes" /\ primary
    /\ supervisor' = "interrupted"
    /\ UNCHANGED <<status, latch, childVars, forwarderVars>>

\* The child failed before it sent the latch.
NotEntered == latch = "none" /\ child = "error"

MayFallBack == supervisor = "failed" \/ (supervisor = "closes" /\ NotEntered)

FallsBack ==
    /\ MayFallBack /\ ~primary /\ ~(supervisor = "failed" /\ pending) /\ ~status
    /\ file = expected
    /\ supervisor' = "here" /\ runs' = runs \cup {"here"}
    /\ UNCHANGED <<status, latch, socket, child, sent, fileVars, forwarderVars>>

\* The executable has changed, or status must not run without a supervisor.
RefusesFallback ==
    /\ MayFallBack /\ ~primary /\ ~(supervisor = "failed" /\ pending)
    /\ (status \/ file # expected)
    /\ supervisor' = "refused"
    /\ UNCHANGED <<status, latch, childVars, forwarderVars>>

Propagates ==
    /\ supervisor = "closes" /\ ~primary /\ ~NotEntered
    /\ supervisor' = "scoped"
    /\ UNCHANGED <<status, latch, childVars, forwarderVars>>

ScopedNext ==
    \/ Specifies \/ Upgraded \/ Enters \/ SendsLatch \/ ChecksArguments \/ OpensExecutable \/ Execs \/ ChildEnds \/ Dies \/ Heard \/ Killed
    \/ Launches \/ LaunchFails \/ Binds \/ SeesSignal \/ Receives \/ ReceivesNothing
    \/ Polls \/ Distrusts \/ Selects \/ TimesOut \/ StopsWaiting \/ SendsTerm \/ WaitIsOver \/ SendsKill
    \/ Interrupts \/ FallsBack \/ RefusesFallback \/ Propagates

ScopedSpec == ScopedInit /\ [][ScopedNext]_scopedVars

\* The supervisor goes on, its waits end, and what is killed dies.
ScopedFair(n) ==
    \/ n = 1 /\ (SeesSignal \/ Receives \/ Polls \/ Distrusts \/ Selects)
    \/ n = 2 /\ (Specifies \/ Launches \/ LaunchFails \/ Binds)
    \/ n = 3 /\ (StopsWaiting \/ SendsTerm \/ WaitIsOver \/ SendsKill)
    \/ n = 4 /\ (Interrupts \/ FallsBack \/ RefusesFallback \/ Propagates)
    \/ n = 5 /\ sent = "kill" /\ Dies

ScopedFairness == \A n \in 1..5 : WF_scopedVars(ScopedFair(n))

-----------------------------------------------------------------------------
\* A command is never run in its scope and by the supervisor as well: whatever
\* the order of the latch, the end of the child and the looks at both.
CommandRunsOnce == runs # {"scope", "here"} /\ (supervisor = "here" => ~Lives)

\* What runs in the scope is the file the supervisor put down, even when an
\* upgrade replaces it between any two of the looks at it.
ExecutesChecked == child = "runs" => held = expected

\* A signal the supervisor has heard as the first thing that went wrong ends
\* it with that signal and not before the command is gone, unless it is killed.
SignalHasEnded == supervisor = "killed" \/ (supervisor = "interrupted" /\ ~Lives)

=============================================================================
