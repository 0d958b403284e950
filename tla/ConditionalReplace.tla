-------------------------- MODULE ConditionalReplace --------------------------
(***************************************************************************)
(* Replacing or removing a file only if it is still the file that was seen  *)
(* (_conditional_namespace_operation, path_safety.py).  The file is moved   *)
(* into a private transaction directory, checked there through the          *)
(* descriptor that was opened before, and removed or succeeded by the       *)
(* staged data; a failure moves it back.                                    *)
(*                                                                         *)
(* Meanwhile somebody else may rename a file of his own over the path, or   *)
(* write into whatever file he has open; calls fail; the command is killed. *)
(*                                                                         *)
(* What was seen is compared by identity, number of names, size and digest  *)
(* (require_same_version, as every caller in the program captures it): a    *)
(* file somebody has written into is another version.                       *)
(***************************************************************************)
EXTENDS Naturals

CONSTANT MaxFaults    \* bound on the calls that fail

ReplaceAssumption == MaxFaults \in Nat

Files == {"seen", "staged", "other"}
Places == {"path", "claimed", "stage"}

VARIABLES
    names,        \* which file each name holds; claimed and stage are in the transaction directory
    changed,      \* the files somebody else has written into
    expected,     \* ExpectedTarget: "seen", or "missing"
    replaces,     \* replacement_data is not None
    step,
    directory,    \* the transaction directory exists
    verified,     \* claim_verified
    committed,
    put,          \* the file of somebody else: not yet, renamed in, or renamed in between a look and an unlink
    replacedBy,   \* it took the place of this file
    faults

replaceVars == <<names, changed, expected, replaces, step, directory, verified, committed, put, replacedBy, faults>>

Named(f) == \E p \in Places : names[p] = f
Moved(from, to) == names' = [names EXCEPT ![from] = "none", ![to] = names[from]]
Dropped(p) == names' = [names EXCEPT ![p] = "none"]
Unchanged(p, f) == names[p] = f /\ f \notin changed

ReplaceTypeOK ==
    /\ names \in [Places -> Files \cup {"none"}] /\ changed \subseteq Files
    /\ expected \in {"seen", "missing"}
    /\ {replaces, directory, verified, committed} \subseteq BOOLEAN
    /\ step \in {"checks", "makes", "stages", "places", "opens", "looks", "claims", "syncs", "verifies", "activates",
                 "confirms", "inspects", "wipes", "unlinks", "commits", "cleans", "undoes", "removes", "restores", "discards", "ended", "killed"}
    /\ put \in {"no", "put", "late"} /\ replacedBy \in Files \cup {"none"} /\ faults \in 0..MaxFaults

\* The path holds the file that was seen, or, when none was, nothing.
ReplaceInit ==
    /\ expected \in {"seen", "missing"} /\ replaces \in BOOLEAN
    /\ names = [p \in Places |-> IF p = "path" /\ expected = "seen" THEN "seen" ELSE "none"]
    /\ changed = {} /\ put = "no" /\ replacedBy = "none"
    /\ step = IF expected = "missing" /\ ~replaces THEN "checks" ELSE "makes"
    /\ directory = FALSE /\ verified = FALSE /\ committed = FALSE /\ faults = 0

Goes(to) == step' = to
Keep == UNCHANGED <<expected, replaces, changed, put, replacedBy>>

(* --- the operation -------------------------------------------------------- *)

\* Nothing was there and nothing is to be put there: the answer is FALSE, or an
\* error if something is there now.
ChecksMissing ==
    /\ step = "checks" /\ Goes("ended")
    /\ Keep /\ UNCHANGED <<names, directory, verified, committed, faults>>

MakesTransaction ==
    /\ step = "makes" /\ directory' = TRUE
    /\ Goes(IF replaces THEN "stages" ELSE "opens")
    /\ Keep /\ UNCHANGED <<names, verified, committed, faults>>

StagesData ==
    /\ step = "stages" /\ names' = [names EXCEPT !["stage"] = "staged"]
    /\ Goes(IF expected = "missing" THEN "places" ELSE "opens")
    /\ Keep /\ UNCHANGED <<directory, verified, committed, faults>>

\* renameat2 without replacing: the first file of the path.
PlacesStaged ==
    /\ step = "places" /\ Keep /\ UNCHANGED <<directory, verified, committed, faults>>
    /\ \/ names["path"] = "none" /\ Moved("stage", "path") /\ Goes("confirms")
       \/ names["path"] # "none" /\ Goes("discards") /\ UNCHANGED names

\* The path is opened and compared with what was seen.
OpensSource ==
    /\ step = "opens" /\ Keep /\ UNCHANGED <<names, directory, verified, committed, faults>>
    /\ Goes(IF Unchanged("path", expected) THEN "looks" ELSE "discards")

\* The name still leads to the file that was opened.
LooksAtName ==
    /\ step = "looks" /\ Keep /\ UNCHANGED <<names, directory, verified, committed, faults>>
    /\ Goes(IF Unchanged("path", "seen") THEN "claims" ELSE "discards")

ClaimsPath ==
    /\ step = "claims" /\ names["path"] # "none"
    /\ Moved("path", "claimed") /\ Goes("syncs")
    /\ Keep /\ UNCHANGED <<directory, verified, committed, faults>>

SyncsClaim ==
    /\ step = "syncs" /\ Goes("verifies")
    /\ Keep /\ UNCHANGED <<names, directory, verified, committed, faults>>

\* Through the descriptor: the file that was opened still has its one name and
\* its contents.
Matches == Named("seen") /\ "seen" \notin changed

Verifies ==
    /\ step = "verifies" /\ verified' = Matches
    /\ Goes(IF ~Matches THEN "discards" ELSE IF replaces THEN "activates" ELSE "inspects")
    /\ Keep /\ UNCHANGED <<names, directory, committed, faults>>

Activates ==
    /\ step = "activates" /\ Keep /\ UNCHANGED <<directory, verified, committed, faults>>
    /\ \/ names["path"] = "none" /\ Moved("stage", "path") /\ Goes("confirms")
       \/ names["path"] # "none" /\ Goes("restores") /\ UNCHANGED names

\* What the path holds is what was staged.
Confirms ==
    /\ step = "confirms" /\ Keep /\ UNCHANGED <<names, directory, verified, faults>>
    /\ committed' = Unchanged("path", "staged")
    /\ Goes(IF committed' THEN (IF expected = "seen" THEN "inspects" ELSE "cleans")
            ELSE IF expected = "seen" THEN "undoes" ELSE "discards")

\* _unlink_verified_leaf: the claim is looked at, overwritten when a removal was
\* asked to (secure_wipe), and unlinked.
Inspects ==
    /\ step = "inspects" /\ Keep /\ UNCHANGED <<names, directory, verified, committed, faults>>
    /\ \/ ~Unchanged("claimed", "seen") /\ Goes(IF committed THEN "ended" ELSE "restores")
       \/ Unchanged("claimed", "seen") /\ Goes("unlinks")
       \/ Unchanged("claimed", "seen") /\ ~replaces /\ Goes("wipes")

Wipes ==
    /\ step = "wipes" /\ changed' = changed \cup {"seen"} /\ Goes("unlinks")
    /\ UNCHANGED <<names, expected, replaces, directory, verified, committed, put, replacedBy, faults>>

Unlinks ==
    /\ step = "unlinks" /\ Dropped("claimed") /\ Goes("commits")
    /\ Keep /\ UNCHANGED <<directory, verified, committed, faults>>

SyncsRemoval ==
    /\ step = "commits" /\ committed' = TRUE /\ Goes("cleans")
    /\ Keep /\ UNCHANGED <<names, directory, verified, faults>>

\* The directory goes once neither the claim nor the staged data is in it.
CleansUp ==
    /\ step = "cleans" /\ Goes("ended")
    /\ directory' = (names["claimed"] # "none" \/ names["stage"] # "none")
    /\ Keep /\ UNCHANGED <<names, verified, committed, faults>>

(* --- undoing it ----------------------------------------------------------- *)

LooksAtActivated_Blindly ==
    /\ step = "undoes" /\ Keep /\ UNCHANGED <<names, directory, verified, committed, faults>>
    /\ Goes("removes")

\* remove_activated_target_for_rollback: only the data this call has put there.
LooksAtActivated ==
    /\ step = "undoes" /\ Keep /\ UNCHANGED <<names, directory, verified, committed, faults>>
    /\ Goes(IF Unchanged("path", "staged") THEN "removes" ELSE "restores")

RemovesActivated ==
    /\ step = "removes" /\ Dropped("path") /\ Goes("restores")
    /\ Keep /\ UNCHANGED <<directory, verified, committed, faults>>

\* _restore_conditional_claim: not when the claim was written into, and not over
\* a file that has appeared.
Restorable == Unchanged("claimed", "seen") /\ names["path"] = "none"

Restores ==
    /\ step = "restores" /\ Goes("discards")
    /\ \/ Restorable /\ Moved("claimed", "path")
       \/ ~Restorable /\ UNCHANGED names
    /\ Keep /\ UNCHANGED <<directory, verified, committed, faults>>

\* An unverified claim stays where it is.
Discards ==
    /\ step = "discards" /\ Dropped("stage") /\ Goes("cleans")
    /\ Keep /\ UNCHANGED <<directory, verified, committed, faults>>

(* --- the others ----------------------------------------------------------- *)

\* Where the command may go when the call it is about to make fails.  The sync
\* after the unlink is made twice: by _unlink_verified_leaf, and by its caller,
\* who by then knows that the claim is gone.
AfterFault ==
    CASE step \in {"stages", "places", "opens", "looks", "claims", "syncs", "verifies"} -> {"discards"}
      [] step = "confirms" -> IF expected = "seen" THEN {"undoes"} ELSE {"discards"}
      [] step \in {"inspects", "wipes", "unlinks"} -> IF committed THEN {"ended"} ELSE {"restores"}
      [] step = "commits" -> IF committed THEN {"ended", "cleans"} ELSE {"restores", "cleans"}
      [] step \in {"activates", "undoes", "removes"} -> {"restores"}
      [] step = "restores" -> {"discards"}
      [] OTHER -> {"ended"}

\* An overwriting that fails may have overwritten a part.
Fault ==
    /\ step \notin {"ended", "killed"} /\ faults < MaxFaults /\ faults' = faults + 1
    /\ step' \in AfterFault
    /\ changed' \in {changed} \cup (IF step = "wipes" THEN {changed \cup {"seen"}} ELSE {})
    /\ UNCHANGED <<names, expected, replaces, directory, verified, committed, put, replacedBy>>

Killed ==
    /\ step \notin {"ended", "killed"} /\ Goes("killed")
    /\ Keep /\ UNCHANGED <<names, directory, verified, committed, faults>>

\* Somebody renames a file of his own to the path.
OtherReplaces ==
    /\ put = "no" /\ step # "ended"
    /\ put' = IF step = "removes" THEN "late" ELSE "put"
    /\ replacedBy' = names["path"]
    /\ names' = [names EXCEPT !["path"] = "other"]
    /\ UNCHANGED <<changed, expected, replaces, step, directory, verified, committed, faults>>

\* Somebody writes into a file he has open.
OtherWrites ==
    /\ step # "ended"
    /\ \E f \in {"seen", "staged"} \ changed : (names["path"] = f \/ (f = "seen" /\ Named(f))) /\ changed' = changed \cup {f}
    /\ UNCHANGED <<names, expected, replaces, step, directory, verified, committed, put, replacedBy, faults>>

\* Nothing more happens.
Done == step \in {"ended", "killed"} /\ UNCHANGED replaceVars

ReplaceNext ==
    \/ ChecksMissing \/ MakesTransaction \/ StagesData \/ PlacesStaged
    \/ OpensSource \/ LooksAtName \/ ClaimsPath \/ SyncsClaim \/ Verifies
    \/ Activates \/ Confirms \/ Inspects \/ Wipes \/ Unlinks \/ SyncsRemoval \/ CleansUp
    \/ LooksAtActivated \/ RemovesActivated \/ Restores \/ Discards
    \/ Fault \/ Killed \/ OtherReplaces \/ OtherWrites \/ Done

ReplaceSpec == ReplaceInit /\ [][ReplaceNext]_replaceVars

(***************************************************************************)
(* Properties.                                                             *)
(***************************************************************************)

\* The file somebody else has renamed to the path in the meantime is never lost:
\* it is at the path or, unverified, in the transaction directory.  (The one
\* window left is between the look and the unlink of the rollback.)
OtherIsKept == put = "put" => Named("other")

\* The file that was seen has a name until its successor is in place or, when it
\* is to be removed, until it was checked in the transaction directory, whatever
\* fails and whenever the command is killed; unless somebody else's file took its
\* place.
SeenIsKept ==
    expected = "seen" /\ replacedBy # "seen" => Named("seen") \/ (IF replaces THEN committed ELSE verified)

\* Nothing is lost to an operation that did not find what it expected, or fails.
ReplaceLosesNothing == OtherIsKept /\ SeenIsKept
=============================================================================
