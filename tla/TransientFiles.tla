--------------------------- MODULE TransientFiles ---------------------------
(***************************************************************************)
(* The hidden files a transcriber writes its text to, before the text is   *)
(* processed and perhaps encrypted (_prepare_transient_transcript_path,    *)
(* _remove_transient_transcript_path and prune_stale_transient_transcripts *)
(* of cli.py).  Every command makes a file of its own and beside it an     *)
(* owner file with its process id and identity.  It removes both as soon   *)
(* as it has the text.  What killed commands leave is removed by the       *)
(* others, at their end: files an hour old whose owner does not run.       *)
(*                                                                         *)
(* No command takes an hour from making its file to making the owner file. *)
(***************************************************************************)
EXTENDS FiniteSets

CONSTANTS Commands

VARIABLES
    at,          \* where each command is
    file,        \* the commands whose file is there
    owner,       \* what each owner file says
    old,         \* the files that have not been written to for an hour
    recycled,    \* the dead commands whose process id another process has
    stale        \* the files a command has listed, to remove them

fileVars == <<file, owner, old>>
transientVars == <<at, fileVars, recycled, stale>>

TransientTypeOK ==
    /\ at \in [Commands -> {"idle", "made", "owned", "written", "unlinked", "prunes",
                            "removes", "ended", "dead"}]
    /\ file \subseteq Commands
    /\ owner \in [Commands -> {"none", "pid", "identity"}]
    /\ old \subseteq file /\ recycled \subseteq Commands
    /\ stale \in [Commands -> SUBSET Commands]

TransientInit ==
    /\ at = [c \in Commands |-> "idle"]
    /\ file = {} /\ owner = [c \in Commands |-> "none"] /\ old = {}
    /\ recycled = {} /\ stale = [c \in Commands |-> {}]

Goes(c, here, next) ==
    /\ at[c] = here /\ at' = [at EXCEPT ![c] = next]
    /\ UNCHANGED <<recycled, stale>>

-----------------------------------------------------------------------------
(* A command and its own file                                              *)

MakesFile(c) ==
    /\ Goes(c, "idle", "made")
    /\ file' = file \cup {c} /\ UNCHANGED <<owner, old>>

\* The identity of a process may be unreadable: then the id has to do.
MakesOwner(c) ==
    /\ Goes(c, "made", "owned")
    /\ \E says \in {"pid", "identity"} : owner' = [owner EXCEPT ![c] = says]
    /\ UNCHANGED <<file, old>>

\* Without an owner file there is no transcription: the file goes again.
MakingFails(c) ==
    /\ Goes(c, "made", "ended")
    /\ file' = file \ {c} /\ old' = old \ {c} /\ UNCHANGED owner

\* Unless the transcription fails, the text is written.
Transcribes(c) ==
    /\ Goes(c, "owned", "written")
    /\ old' \in {old, old \ {c}} /\ UNCHANGED <<file, owner>>

RemovesFile(c) ==
    /\ Goes(c, "written", "unlinked")
    /\ file' = file \ {c} /\ old' = old \ {c} /\ UNCHANGED owner

RemovesOwner(c) ==
    /\ Goes(c, "unlinked", "prunes")
    /\ owner' = [owner EXCEPT ![c] = "none"] /\ UNCHANGED <<file, old>>

\* A command that could not remove its files reports it, and prunes nothing.
RemovingFails(c) == Goes(c, at[c], "ended") /\ at[c] \in {"written", "unlinked"} /\ UNCHANGED fileVars

-----------------------------------------------------------------------------
(* What others left                                                        *)

Runs(c) == at[c] \notin {"ended", "dead"}

\* The owner of a file runs, as far as its owner file lets one tell.
OwnerActive(c) ==
    CASE owner[c] = "none"     -> FALSE
      [] owner[c] = "pid"      -> Runs(c) \/ c \in recycled
      [] owner[c] = "identity" -> Runs(c)

Stale_OldOnly == {c \in file : c \in old}

Stale == {c \in file : c \in old /\ ~OwnerActive(c)}

ListsStale(c) ==
    /\ at[c] = "prunes" /\ at' = [at EXCEPT ![c] = "removes"]
    /\ stale' = [stale EXCEPT ![c] = Stale]
    /\ UNCHANGED <<fileVars, recycled>>

\* A file is removed after its owner file, and only as it was when it was
\* listed: another command may have been faster.
RemovesStale(c) ==
    \E d \in stale[c] :
        /\ at[c] = "removes"
        /\ stale' = [stale EXCEPT ![c] = @ \ {d}]
        /\ IF owner[d] # "none"
           THEN \/ owner' = [owner EXCEPT ![d] = "none"] /\ file' = file \ {d} /\ old' = old \ {d}
                \/ owner' = [owner EXCEPT ![d] = "none"] /\ UNCHANGED <<file, old>>
                \/ UNCHANGED fileVars
           ELSE \/ file' = file \ {d} /\ old' = old \ {d} /\ UNCHANGED owner
                \/ UNCHANGED fileVars
        /\ UNCHANGED <<at, recycled>>

PruneEnds(c) ==
    /\ Goes(c, "removes", "ended") /\ stale[c] = {}
    /\ UNCHANGED fileVars

-----------------------------------------------------------------------------
(* Everything else                                                         *)

Killed(c) ==
    /\ at[c] \notin {"idle", "ended", "dead"}
    /\ at' = [at EXCEPT ![c] = "dead"] /\ stale' = [stale EXCEPT ![c] = {}]
    /\ UNCHANGED <<fileVars, recycled>>

IdRecycled(c) ==
    /\ ~Runs(c) /\ recycled' = recycled \cup {c}
    /\ UNCHANGED <<at, fileVars, stale>>

HourPasses(c) ==
    /\ c \in file /\ at[c] # "made" /\ old' = old \cup {c}
    /\ UNCHANGED <<at, file, owner, recycled, stale>>

TransientNext ==
    \E c \in Commands :
        \/ MakesFile(c) \/ MakesOwner(c) \/ MakingFails(c) \/ Transcribes(c)
        \/ RemovesFile(c) \/ RemovesOwner(c) \/ RemovingFails(c)
        \/ ListsStale(c) \/ RemovesStale(c) \/ PruneEnds(c)
        \/ Killed(c) \/ IdRecycled(c) \/ HourPasses(c)

TransientSpec == TransientInit /\ [][TransientNext]_transientVars

-----------------------------------------------------------------------------
\* The file a running command works with is there until the command itself
\* removes it, however old it is, and its owner file names the command.
OwnFileIsKept ==
    \A c \in Commands :
        /\ at[c] \in {"made", "owned", "written"} => c \in file
        /\ at[c] \in {"owned", "written"} => owner[c] # "none"

=============================================================================
