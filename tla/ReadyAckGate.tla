---------------------------- MODULE ReadyAckGate ----------------------------
(***************************************************************************)
(* The gate in front of a local model (_LocalModelReadyAckGate and         *)
(* _wait_for_local_model_gate_ack, process_priority.py).  A controller     *)
(* makes a private directory with a datagram socket in it and spawns a     *)
(* wrapper in a scope of its own.  The wrapper binds a second socket       *)
(* there, says READY and waits.  The controller looks at the scope,        *)
(* removes both sockets and the directory, and answers ACK; only then, and *)
(* only if it finds the directory gone, the wrapper executes the model.    *)
(*                                                                         *)
(* Both sides clean up the same directory, one name at a time, and either  *)
(* may be killed or fail at any step.  A socket's name stands for its      *)
(* owner.  The identities of processes and directories (pidfds, inode      *)
(* numbers, nonces) are taken to tell apart what they should.              *)
(***************************************************************************)
EXTENDS Naturals, FiniteSets

CONSTANTS Controller, Wrapper   \* the two processes

ASSUME GateAssumption == Controller # Wrapper

VARIABLES
    gateState,        \* the state of the controller's gate object, or `dead`
    wrapperStep,      \* where the wrapper is
    domain,           \* the directory: absent, there or removed
    entries,          \* the names in it
    bound,            \* who has opened the directory and not seen it retired
    known,            \* the names each side knows to be its own to remove
    cleaning,         \* the names a side has still to unlink, or idle
    closes,           \* how often the controller has closed its resources
    mayHaveReleased,  \* release_may_have_occurred
    ready, ack,       \* the datagrams under way
    expired           \* whose deadline has passed

controllerVars == <<gateState, closes, mayHaveReleased, ready>>
directoryVars == <<domain, entries>>
ownerVars == <<bound, known, cleaning>>
gateVars == <<controllerVars, directoryVars, ownerVars, wrapperStep, ack, expired>>

Sides == {Controller, Wrapper}
Idle == {"idle"}    \* no clean-up under way

GateTypeOK ==
    /\ gateState \in {"none", "prepared", "spawn_bound", "ready_draining", "retires",
                      "ready_verified", "released", "invalid", "closed", "dead"}
    /\ wrapperStep \in {"none", "opens", "binds", "connects", "waits", "acked",
                        "succeeded", "launches", "runs", "fails", "failed", "dead"}
    /\ domain \in {"absent", "there", "removed"}
    /\ entries \subseteq Sides /\ (domain # "there" => entries = {})
    /\ bound \subseteq Sides
    /\ known \in [Sides -> SUBSET Sides]
    /\ cleaning \in [Sides -> (SUBSET Sides) \cup {Idle}]
    /\ closes \in 0..2 /\ mayHaveReleased \in BOOLEAN
    /\ ready \in 0..1 /\ ack \in 0..1
    /\ expired \subseteq Sides

GateInit ==
    /\ gateState = "none" /\ wrapperStep = "none"
    /\ domain = "absent" /\ entries = {}
    /\ bound = {} /\ known = [o \in Sides |-> {}]
    /\ cleaning = [o \in Sides |-> Idle]
    /\ closes = 0 /\ mayHaveReleased = FALSE
    /\ ready = 0 /\ ack = 0
    /\ expired = {}

ControllerLives == gateState # "dead"
Listening == gateState \in {"prepared", "spawn_bound", "ready_draining", "retires",
                            "ready_verified", "released"}
WrapperEnded == wrapperStep \in {"runs", "failed", "dead"}
Busy(o) == cleaning[o] # Idle

-----------------------------------------------------------------------------
(* Removing the directory, by whoever has opened it                        *)

\* Only the names the side knows of.
Disposable_Known(o) == entries \cap known[o]

\* What a clean-up unlinks: its own names, and whatever else is there, for
\* there are never more than two sockets.
Disposable(o) == entries

BeginsCleanup(o) == cleaning' = [cleaning EXCEPT ![o] = IF o \in bound THEN Disposable(o) ELSE {}]

Unlinks(o) ==
    /\ Busy(o) /\ cleaning[o] # {}
    /\ \E name \in cleaning[o] :
         /\ entries' = entries \ {name}
         /\ cleaning' = [cleaning EXCEPT ![o] = @ \ {name}]
    /\ UNCHANGED <<controllerVars, domain, bound, known, wrapperStep, ack, expired>>

\* The last step: the directory goes unless a socket was bound in it since.
\* The side that finds it gone, whoever removed it, owns nothing any more; the
\* other one keeps its claim, and the next close tries again.
RemovesDomain(o) ==
    /\ cleaning[o] = {}
    /\ cleaning' = [cleaning EXCEPT ![o] = Idle]
    /\ IF o \in bound /\ domain = "there" /\ entries # {}
       THEN UNCHANGED <<domain, bound, known>>
       ELSE /\ domain' = IF o \in bound THEN "removed" ELSE domain
            /\ bound' = bound \ {o}
            /\ known' = [known EXCEPT ![o] = {}]
    /\ IF o = Controller
       THEN /\ gateState' = IF o \notin bound' THEN "closed" ELSE "invalid"
            /\ UNCHANGED wrapperStep
       ELSE /\ wrapperStep' = IF wrapperStep = "succeeded" THEN "launches" ELSE "failed"
            /\ UNCHANGED gateState
    /\ UNCHANGED <<closes, mayHaveReleased, ready, entries, ack, expired>>

-----------------------------------------------------------------------------
(* The controller                                                          *)

\* mkdir, socket and bind; a failure closes what there is.
Prepares ==
    /\ gateState = "none"
    /\ domain' = "there" /\ bound' = bound \cup {Controller}
    /\ \/ /\ entries' = {Controller}
          /\ known' = [known EXCEPT ![Controller] = {Controller}]
          /\ gateState' = "prepared" /\ UNCHANGED cleaning
       \/ /\ gateState' = "invalid"
          /\ cleaning' = [cleaning EXCEPT ![Controller] = {}]
          /\ UNCHANGED <<entries, known>>
    /\ UNCHANGED <<closes, mayHaveReleased, ready, wrapperStep, ack, expired>>

\* The caller spawns the wrapper and names it to the gate.
Spawns ==
    /\ gateState = "prepared" /\ wrapperStep = "none"
    /\ wrapperStep' = "opens"
    /\ UNCHANGED <<controllerVars, directoryVars, ownerVars, ack, expired>>

\* _fail: the listener is closed with everything else and the error raised.
Invalidates ==
    /\ gateState' = "invalid"
    /\ closes' = IF closes < 2 THEN closes + 1 ELSE closes
    /\ BeginsCleanup(Controller)
    /\ ready' = 0

BindsSpawn ==
    /\ gateState = "prepared" /\ wrapperStep # "none"
    /\ IF wrapperStep \in {"failed", "dead"}
       THEN Invalidates
       ELSE gateState' = "spawn_bound" /\ UNCHANGED <<closes, cleaning, ready>>
    /\ UNCHANGED <<mayHaveReleased, directoryVars, bound, known, wrapperStep, ack, expired>>

\* The wrapper alone in its scope, both processes those they were, in time.
ScopeIsStable ==
    /\ wrapperStep \notin {"failed", "dead"}
    /\ Controller \notin expired

ReceivesReady ==
    /\ gateState = "spawn_bound" /\ ready = 1
    /\ ScopeIsStable /\ entries = Sides
    /\ gateState' = "ready_draining" /\ ready' = 0
    /\ UNCHANGED <<closes, mayHaveReleased, directoryVars, ownerVars, wrapperStep, ack, expired>>

\* Nothing more has arrived: the names found must be exactly the two sockets.
BeginsRetirement ==
    /\ gateState = "ready_draining" /\ ready = 0
    /\ ScopeIsStable /\ domain = "there" /\ entries = Sides
    /\ gateState' = "retires"
    /\ known' = [known EXCEPT ![Controller] = Sides]
    /\ UNCHANGED <<closes, mayHaveReleased, ready, directoryVars, bound, cleaning, wrapperStep,
                   ack, expired>>

\* The own socket first, then the peer's, then the directory.
Retires ==
    /\ gateState = "retires"
    /\ IF known[Controller] # {}
       THEN \E name \in known[Controller] :
              /\ name = Wrapper => Controller \notin known[Controller]
              /\ name \in entries
              /\ entries' = entries \ {name}
              /\ known' = [known EXCEPT ![Controller] = @ \ {name}]
              /\ UNCHANGED <<domain, bound, gateState>>
       ELSE /\ entries = {} /\ domain = "there"
            /\ domain' = "removed"
            /\ bound' = bound \ {Controller}
            /\ gateState' = "ready_verified"
            /\ UNCHANGED <<entries, known>>
    /\ UNCHANGED <<closes, mayHaveReleased, ready, cleaning, wrapperStep, ack, expired>>

\* Any of these checks and calls may find something wrong.
GateFails ==
    /\ gateState \in {"prepared", "spawn_bound", "ready_draining", "retires", "ready_verified"}
    /\ Invalidates
    /\ UNCHANGED <<mayHaveReleased, directoryVars, bound, known, wrapperStep, ack, expired>>

\* The flag only once the answer is known to be sent.
Releases_FlagAfterSend ==
    /\ gateState = "ready_verified" /\ ScopeIsStable
    /\ \/ /\ mayHaveReleased' = TRUE
          /\ ack' = 1 /\ gateState' = "released" /\ UNCHANGED <<closes, cleaning, ready>>
       \/ ack' \in {ack, 1} /\ Invalidates /\ UNCHANGED mayHaveReleased
    /\ UNCHANGED <<directoryVars, bound, known, wrapperStep, expired>>

\* The answer is sent once, fails, or an interrupt leaves that open: the
\* caller must take it for sent.
Releases ==
    /\ gateState = "ready_verified" /\ ScopeIsStable
    /\ mayHaveReleased' = TRUE
    /\ \/ ack' = 1 /\ gateState' = "released" /\ UNCHANGED <<closes, cleaning, ready>>
       \/ ack' \in {ack, 1} /\ Invalidates
    /\ UNCHANGED <<directoryVars, bound, known, wrapperStep, expired>>

\* The socket of the wrapper is full: the caller tries again.
SendBlocks ==
    /\ gateState = "ready_verified" /\ ScopeIsStable
    /\ mayHaveReleased' = TRUE
    /\ UNCHANGED <<gateState, closes, ready, directoryVars, ownerVars, wrapperStep, ack,
                   expired>>

\* The caller leaves the `with` block, then the owner of the resources is
\* finalised: if the first close could not remove the directory, a second one
\* is tried.
Closes ==
    /\ gateState \in {"prepared", "spawn_bound", "ready_draining", "ready_verified",
                      "released", "invalid"}
    /\ ~Busy(Controller) /\ closes < 2
    /\ Invalidates
    /\ UNCHANGED <<mayHaveReleased, directoryVars, bound, known, wrapperStep, ack, expired>>

-----------------------------------------------------------------------------
(* The wrapper                                                             *)

\* A wrapper that waits without a deadline.
WrapperFails_NoTimeout ==
    /\ wrapperStep \in {"opens", "binds", "connects", "waits", "acked"}
    /\ wrapperStep = "waits" => ack = 1
    /\ wrapperStep' = "fails"
    /\ BeginsCleanup(Wrapper)
    /\ UNCHANGED <<controllerVars, directoryVars, bound, known, ack, expired>>

\* Any check or call may find something wrong; what ends the waiting is the
\* answer or the deadline, not the end of the controller.
WrapperFails ==
    /\ wrapperStep \in {"opens", "binds", "connects", "waits", "acked"}
    /\ wrapperStep = "waits" => ack = 1 \/ Wrapper \in expired
    /\ wrapperStep' = "fails"
    /\ BeginsCleanup(Wrapper)
    /\ UNCHANGED <<controllerVars, directoryVars, bound, known, ack, expired>>

\* The directory of the address in its environment.
Opens ==
    /\ wrapperStep = "opens" /\ ControllerLives
    /\ domain = "there" /\ Controller \in entries
    /\ bound' = bound \cup {Wrapper}
    /\ known' = [known EXCEPT ![Wrapper] = {Controller}]
    /\ wrapperStep' = "binds"
    /\ UNCHANGED <<controllerVars, directoryVars, cleaning, ack, expired>>

Binds ==
    /\ wrapperStep = "binds" /\ domain = "there"
    /\ entries' = entries \cup {Wrapper}
    /\ known' = [known EXCEPT ![Wrapper] = Sides]
    /\ wrapperStep' = "connects"
    /\ UNCHANGED <<controllerVars, domain, bound, cleaning, ack, expired>>

SendsReady ==
    /\ wrapperStep = "connects"
    /\ Controller \in entries /\ Listening /\ Wrapper \notin expired
    /\ ready' = 1
    /\ wrapperStep' = "waits"
    /\ UNCHANGED <<gateState, closes, mayHaveReleased, directoryVars, ownerVars, ack,
                   expired>>

ReceivesAck ==
    /\ wrapperStep = "waits" /\ ack = 1
    /\ domain = "removed" /\ Wrapper \notin expired
    /\ wrapperStep' = "acked"
    /\ UNCHANGED <<controllerVars, directoryVars, ownerVars, ack, expired>>

\* Looks once more at the controller, the directory and the deadline.
Succeeds ==
    /\ wrapperStep = "acked"
    /\ ControllerLives /\ domain = "removed" /\ Wrapper \notin expired
    /\ wrapperStep' = "succeeded"
    /\ BeginsCleanup(Wrapper)
    /\ UNCHANGED <<controllerVars, directoryVars, bound, known, ack, expired>>

\* execve of the model, after a last look at the controller.
Runs ==
    /\ wrapperStep = "launches"
    /\ \/ ControllerLives /\ wrapperStep' = "runs"
       \/ wrapperStep' = "failed"
    /\ UNCHANGED <<controllerVars, directoryVars, ownerVars, ack, expired>>

-----------------------------------------------------------------------------
ControllerKilled ==
    /\ gateState \notin {"none", "dead"}
    /\ gateState' = "dead" /\ ready' = 0
    /\ cleaning' = [cleaning EXCEPT ![Controller] = Idle]
    /\ UNCHANGED <<closes, mayHaveReleased, directoryVars, bound, known, wrapperStep, ack, expired>>

WrapperKilled ==
    /\ wrapperStep \notin {"none", "runs", "failed", "dead"}
    /\ wrapperStep' = "dead" /\ ack' = 0
    /\ cleaning' = [cleaning EXCEPT ![Wrapper] = Idle]
    /\ UNCHANGED <<controllerVars, directoryVars, bound, known, expired>>

\* The wrapper's deadline is never later than the controller's.
DeadlinePasses ==
    /\ \E o \in Sides \ expired : /\ o = Controller => Wrapper \in expired
                                  /\ expired' = expired \cup {o}
    /\ UNCHANGED <<controllerVars, directoryVars, ownerVars, wrapperStep, ack>>

ControllerNext ==
    \/ Prepares \/ Spawns \/ BindsSpawn \/ ReceivesReady \/ BeginsRetirement
    \/ Retires \/ GateFails \/ Releases \/ SendBlocks \/ Closes
    \/ Unlinks(Controller) \/ RemovesDomain(Controller)

WrapperNext ==
    \/ WrapperFails \/ Opens \/ Binds \/ SendsReady \/ ReceivesAck \/ Succeeds \/ Runs
    \/ Unlinks(Wrapper) \/ RemovesDomain(Wrapper)

GateNext == ControllerNext \/ WrapperNext \/ ControllerKilled \/ WrapperKilled \/ DeadlinePasses

GateSpec == GateInit /\ [][GateNext]_gateVars

\* Both sides are scheduled and time passes; the caller leaves the `with`
\* block in the end.
GateFair(n) ==
    \/ n = 1 /\ DeadlinePasses
    \/ n = 2 /\ Closes
    \/ n = 3 /\ gateState = "retires" /\ (Retires \/ GateFails)
    \/ n = 4 /\ Unlinks(Controller)
    \/ n = 5 /\ Unlinks(Wrapper)
    \/ n = 6 /\ RemovesDomain(Controller)
    \/ n = 7 /\ RemovesDomain(Wrapper)
    \/ n = 8 /\ (WrapperFails \/ Opens \/ Binds \/ SendsReady \/ ReceivesAck \/ Succeeds \/ Runs)

GateFairness == \A n \in 1..8 : WF_gateVars(GateFair(n))

-----------------------------------------------------------------------------
\* process_priority.py:833 - a caller that reads release_may_have_occurred as
\* FALSE may start the model in another way: the wrapper has not run it, and
\* whatever is under way never will.
RunsOnlyReleased ==
    (wrapperStep \in {"acked", "succeeded", "launches", "runs"} \/ ack = 1) => mayHaveReleased

\* process_priority.py:4170, 4538 - a controller that was not killed gets rid
\* of the directory in the end, even if the wrapper was killed with a socket
\* in it; and the wrapper runs the model or gives up.
GateMustEnd == domain = "there" \/ wrapperStep # "none"
GateHasEnded ==
    /\ domain = "removed" \/ gateState = "dead"
    /\ wrapperStep = "none" \/ WrapperEnded
=============================================================================
