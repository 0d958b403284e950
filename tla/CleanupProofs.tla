--------------------------- MODULE CleanupProofs ---------------------------
(***************************************************************************)
(* Proofs about what replaces and removes files: TransientFiles,           *)
(* ConditionalReplace, SettingsExport, Cleanup, KeptRecording and          *)
(* LocalInstall, as MCFiles has them, for any number of commands, of       *)
(* exports, of recordings, of installed items and of kills; and about the  *)
(* composed run.                                                           *)
(***************************************************************************)
EXTENDS MCFiles, FilesProofs, FiniteSetTheorems, WellFoundedInduction, TLAPS

-----------------------------------------------------------------------------
(* TransientFiles.  The owner of a file that was listed as stale has ended.*)
OwnersHaveEnded == \A c \in Commands : \A d \in stale[c] : transientAt[d] \in {"ended", "dead"}

(* A command has its file from making it to removing it, and its owner     *)
(* file names it; before the owner file is made the file is young.         *)
HasItsFile ==
    \A c \in Commands :
        /\ transientAt[c] \in {"made", "owned", "written"} => c \in file
        /\ transientAt[c] \in {"owned", "written"} => owner[c] # "none"
        /\ transientAt[c] = "made" => c \notin old
        /\ transientAt[c] \in {"idle", "unlinked", "prunes", "removes"} => c \notin file

TransientInv == Transient!TransientTypeOK /\ OwnersHaveEnded /\ HasItsFile

TransientStep(c) ==
    \/ Transient!MakesFile(c) \/ Transient!MakesOwner(c) \/ Transient!MakingFails(c)
    \/ Transient!Transcribes(c) \/ Transient!RemovesFile(c) \/ Transient!RemovesOwner(c)
    \/ Transient!RemovingFails(c) \/ Transient!ListsStale(c) \/ Transient!RemovesStale(c)
    \/ Transient!PruneEnds(c) \/ Transient!Killed(c) \/ Transient!IdRecycled(c)
    \/ Transient!HourPasses(c)

LEMMA TransientTypeKept ==
    ASSUME TransientInv, NEW c \in Commands, TransientStep(c)
    PROVE  Transient!TransientTypeOK'
<1>1. CASE Transient!MakesFile(c)
  BY <1>1 DEF Transient!MakesFile, Transient!Goes, TransientInv,
     Transient!TransientTypeOK
<1>2. CASE Transient!MakesOwner(c)
  BY <1>2 DEF Transient!MakesOwner, Transient!Goes, TransientInv,
     Transient!TransientTypeOK
<1>3. CASE Transient!MakingFails(c)
  BY <1>3 DEF Transient!MakingFails, Transient!Goes, TransientInv,
     Transient!TransientTypeOK
<1>4. CASE Transient!Transcribes(c)
  BY <1>4 DEF Transient!Transcribes, Transient!Goes, TransientInv,
     Transient!TransientTypeOK
<1>5. CASE Transient!RemovesFile(c)
  BY <1>5 DEF Transient!RemovesFile, Transient!Goes, TransientInv,
     Transient!TransientTypeOK
<1>6. CASE Transient!RemovesOwner(c)
  BY <1>6 DEF Transient!RemovesOwner, Transient!Goes, TransientInv,
     Transient!TransientTypeOK
<1>7. CASE Transient!RemovingFails(c)
  BY <1>7 DEF Transient!RemovingFails, Transient!Goes, Transient!fileVars,
     TransientInv, Transient!TransientTypeOK
<1>8. CASE Transient!ListsStale(c)
  BY <1>8 DEF Transient!ListsStale, Transient!fileVars, Transient!Stale,
     Transient!OwnerActive, Transient!Runs, TransientInv,
     Transient!TransientTypeOK
<1>9. CASE Transient!RemovesStale(c)
  BY <1>9 DEF Transient!RemovesStale, Transient!fileVars, TransientInv,
     Transient!TransientTypeOK
<1>10. CASE Transient!PruneEnds(c)
  BY <1>10 DEF Transient!PruneEnds, Transient!Goes, Transient!fileVars,
     TransientInv, Transient!TransientTypeOK
<1>11. CASE Transient!Killed(c)
  BY <1>11 DEF Transient!Killed, Transient!fileVars, TransientInv,
     Transient!TransientTypeOK
<1>12. CASE Transient!IdRecycled(c)
  BY <1>12 DEF Transient!IdRecycled, Transient!fileVars, Transient!Runs,
     TransientInv, Transient!TransientTypeOK
<1>13. CASE Transient!HourPasses(c)
  BY <1>13 DEF Transient!HourPasses, TransientInv, Transient!TransientTypeOK
<1> QED
  BY <1>1, <1>2, <1>3, <1>4, <1>5, <1>6, <1>7, <1>8, <1>9, <1>10, <1>11, <1>12,
     <1>13 DEF TransientStep

LEMMA OwnersHaveEndedKept ==
    ASSUME TransientInv, NEW c \in Commands, TransientStep(c)
    PROVE  OwnersHaveEnded'
<1>1. CASE Transient!MakesFile(c)
  BY <1>1 DEF Transient!MakesFile, Transient!Goes, TransientInv, OwnersHaveEnded,
     HasItsFile, Transient!TransientTypeOK
<1>2. CASE Transient!MakesOwner(c)
  BY <1>2 DEF Transient!MakesOwner, Transient!Goes, TransientInv, OwnersHaveEnded,
     HasItsFile, Transient!TransientTypeOK
<1>3. CASE Transient!MakingFails(c)
  BY <1>3 DEF Transient!MakingFails, Transient!Goes, TransientInv,
     OwnersHaveEnded, HasItsFile, Transient!TransientTypeOK
<1>4. CASE Transient!Transcribes(c)
  BY <1>4 DEF Transient!Transcribes, Transient!Goes, TransientInv,
     OwnersHaveEnded, HasItsFile, Transient!TransientTypeOK
<1>5. CASE Transient!RemovesFile(c)
  BY <1>5 DEF Transient!RemovesFile, Transient!Goes, TransientInv,
     OwnersHaveEnded, HasItsFile, Transient!TransientTypeOK
<1>6. CASE Transient!RemovesOwner(c)
  BY <1>6 DEF Transient!RemovesOwner, Transient!Goes, TransientInv,
     OwnersHaveEnded, HasItsFile, Transient!TransientTypeOK
<1>7. CASE Transient!RemovingFails(c)
  BY <1>7 DEF Transient!RemovingFails, Transient!Goes, Transient!fileVars,
     TransientInv, OwnersHaveEnded, HasItsFile, Transient!TransientTypeOK
<1>8. CASE Transient!ListsStale(c)
  BY <1>8 DEF Transient!ListsStale, Transient!fileVars, Transient!Stale,
     Transient!OwnerActive, Transient!Runs, TransientInv, OwnersHaveEnded,
     HasItsFile, Transient!TransientTypeOK
<1>9. CASE Transient!RemovesStale(c)
  BY <1>9 DEF Transient!RemovesStale, Transient!fileVars, TransientInv,
     OwnersHaveEnded, HasItsFile, Transient!TransientTypeOK
<1>10. CASE Transient!PruneEnds(c)
  BY <1>10 DEF Transient!PruneEnds, Transient!Goes, Transient!fileVars,
     TransientInv, OwnersHaveEnded, HasItsFile, Transient!TransientTypeOK
<1>11. CASE Transient!Killed(c)
  BY <1>11 DEF Transient!Killed, Transient!fileVars, TransientInv,
     OwnersHaveEnded, HasItsFile, Transient!TransientTypeOK
<1>12. CASE Transient!IdRecycled(c)
  BY <1>12 DEF Transient!IdRecycled, Transient!fileVars, Transient!Runs,
     TransientInv, OwnersHaveEnded, HasItsFile, Transient!TransientTypeOK
<1>13. CASE Transient!HourPasses(c)
  BY <1>13 DEF Transient!HourPasses, TransientInv, OwnersHaveEnded, HasItsFile,
     Transient!TransientTypeOK
<1> QED
  BY <1>1, <1>2, <1>3, <1>4, <1>5, <1>6, <1>7, <1>8, <1>9, <1>10, <1>11, <1>12,
     <1>13 DEF TransientStep

LEMMA HasItsFileKept ==
    ASSUME TransientInv, NEW c \in Commands, TransientStep(c)
    PROVE  HasItsFile'
<1>1. CASE Transient!MakesFile(c)
  BY <1>1 DEF Transient!MakesFile, Transient!Goes, TransientInv, OwnersHaveEnded,
     HasItsFile, Transient!TransientTypeOK
<1>2. CASE Transient!MakesOwner(c)
  BY <1>2 DEF Transient!MakesOwner, Transient!Goes, TransientInv, OwnersHaveEnded,
     HasItsFile, Transient!TransientTypeOK
<1>3. CASE Transient!MakingFails(c)
  BY <1>3 DEF Transient!MakingFails, Transient!Goes, TransientInv,
     OwnersHaveEnded, HasItsFile, Transient!TransientTypeOK
<1>4. CASE Transient!Transcribes(c)
  BY <1>4 DEF Transient!Transcribes, Transient!Goes, TransientInv,
     OwnersHaveEnded, HasItsFile, Transient!TransientTypeOK
<1>5. CASE Transient!RemovesFile(c)
  BY <1>5 DEF Transient!RemovesFile, Transient!Goes, TransientInv,
     OwnersHaveEnded, HasItsFile, Transient!TransientTypeOK
<1>6. CASE Transient!RemovesOwner(c)
  BY <1>6 DEF Transient!RemovesOwner, Transient!Goes, TransientInv,
     OwnersHaveEnded, HasItsFile, Transient!TransientTypeOK
<1>7. CASE Transient!RemovingFails(c)
  BY <1>7 DEF Transient!RemovingFails, Transient!Goes, Transient!fileVars,
     TransientInv, OwnersHaveEnded, HasItsFile, Transient!TransientTypeOK
<1>8. CASE Transient!ListsStale(c)
  BY <1>8 DEF Transient!ListsStale, Transient!fileVars, Transient!Stale,
     Transient!OwnerActive, Transient!Runs, TransientInv, OwnersHaveEnded,
     HasItsFile, Transient!TransientTypeOK
<1>9. CASE Transient!RemovesStale(c)
  BY <1>9 DEF Transient!RemovesStale, Transient!fileVars, TransientInv,
     OwnersHaveEnded, HasItsFile, Transient!TransientTypeOK
<1>10. CASE Transient!PruneEnds(c)
  BY <1>10 DEF Transient!PruneEnds, Transient!Goes, Transient!fileVars,
     TransientInv, OwnersHaveEnded, HasItsFile, Transient!TransientTypeOK
<1>11. CASE Transient!Killed(c)
  BY <1>11 DEF Transient!Killed, Transient!fileVars, TransientInv,
     OwnersHaveEnded, HasItsFile, Transient!TransientTypeOK
<1>12. CASE Transient!IdRecycled(c)
  BY <1>12 DEF Transient!IdRecycled, Transient!fileVars, Transient!Runs,
     TransientInv, OwnersHaveEnded, HasItsFile, Transient!TransientTypeOK
<1>13. CASE Transient!HourPasses(c)
  BY <1>13 DEF Transient!HourPasses, TransientInv, OwnersHaveEnded, HasItsFile,
     Transient!TransientTypeOK
<1> QED
  BY <1>1, <1>2, <1>3, <1>4, <1>5, <1>6, <1>7, <1>8, <1>9, <1>10, <1>11, <1>12,
     <1>13 DEF TransientStep

THEOREM TransientInvariant == Transient!TransientSpec => []TransientInv
<1>1. Transient!TransientInit => TransientInv
  BY DEF Transient!TransientInit, TransientInv, Transient!TransientTypeOK, OwnersHaveEnded, HasItsFile
<1>2. ASSUME TransientInv, Transient!TransientNext PROVE TransientInv'
  <2>1. PICK c \in Commands : TransientStep(c)
    BY <1>2 DEF Transient!TransientNext, TransientStep
  <2> QED
    BY <1>2, <2>1, TransientTypeKept, OwnersHaveEndedKept, HasItsFileKept DEF TransientInv
<1>3. TransientInv /\ UNCHANGED Transient!transientVars => TransientInv'
  BY DEF Transient!transientVars, Transient!fileVars, TransientInv, Transient!TransientTypeOK,
     OwnersHaveEnded, HasItsFile
<1> QED
  BY <1>1, <1>2, <1>3, PTL DEF Transient!TransientSpec

(* cli.py:3742 - the file a running command works with is there until the  *)
(* command itself removes it, however many commands prune and however old  *)
(* it is; and its owner file names the command.                            *)
THEOREM OwnFilesAreKept == Transient!TransientSpec => []Transient!OwnFileIsKept
<1>1. TransientInv => Transient!OwnFileIsKept
  BY DEF TransientInv, HasItsFile, Transient!OwnFileIsKept
<1> QED
  BY <1>1, TransientInvariant, PTL

-----------------------------------------------------------------------------
(* ConditionalReplace.  Which file is under which name, at every step.     *)
BeforeClaim == {"checks", "makes", "stages", "places", "opens", "looks", "claims"}
HoldingClaim == {"activates", "inspects", "wipes", "unlinks", "undoes", "removes"}

NamesAreRight ==
    /\ names["stage"] \in {"none", "staged"} /\ names["claimed"] \in {"none", "seen", "other"}
    /\ replaceStep \in BeforeClaim => names["claimed"] = "none" /\ names["path"] # "staged"
    /\ replaceStep \in {"syncs", "verifies", "commits", "restores"} \cup HoldingClaim => names["path"] # "seen"
    /\ replaceStep \in {"syncs", "verifies"} => names["claimed"] # "none"
    /\ replaceStep = "removes" => names["path"] = "staged" \/ put = "late"

\* What is still claimed was checked, and was what was expected.
ClaimIsSeen ==
    /\ replaceStep \in HoldingClaim => names["claimed"] = "seen" /\ verified
    /\ replaceStep = "confirms" /\ expected = "seen" =>
         names["claimed"] = "seen" /\ verified /\ names["path"] # "seen"
    /\ replaceStep \in HoldingClaim \cup {"syncs", "verifies", "commits"} => expected = "seen"
    /\ expected = "missing" => names["claimed"] = "none" /\ names["path"] # "seen"
    /\ replaceStep \in {"opens", "looks", "claims"} => expected = "seen"
    /\ replaceStep \in {"checks", "places"} => expected = "missing"
    /\ replaceStep = "makes" => expected = "seen" \/ replaces
    /\ replaceStep \in BeforeClaim \cup {"syncs", "verifies"} => ~verified

\* A removal comes after the successor is in place.
RemovesAfterCommit ==
    /\ replaceStep \in {"inspects", "wipes", "unlinks", "commits"} /\ replaces => committed
    /\ replaceStep \in {"commits", "confirms"} => verified \/ expected = "missing"
    /\ replaceStep \in {"activates", "stages", "places", "confirms", "undoes"} => replaces

OthersAreKept ==
    /\ put = "no" => ~Replace!Named("other") /\ replacedBy = "none"
    /\ Replace!OtherIsKept

ReplaceInv ==
    /\ Replace!ReplaceTypeOK /\ NamesAreRight /\ ClaimIsSeen /\ RemovesAfterCommit
    /\ OthersAreKept /\ Replace!SeenIsKept

LEMMA ReplaceTypeKept ==
    ASSUME Replace!ReplaceAssumption, ReplaceInv, Replace!ReplaceNext
    PROVE  Replace!ReplaceTypeOK'
<1>1. CASE Replace!ChecksMissing
  BY <1>1 DEF Replace!ChecksMissing, Replace!Goes, Replace!Keep, ReplaceInv,
     Replace!ReplaceTypeOK, Replace!Places, Replace!Files,
     Replace!ReplaceAssumption
<1>2. CASE Replace!MakesTransaction
  BY <1>2 DEF Replace!MakesTransaction, Replace!Goes, Replace!Keep, ReplaceInv,
     Replace!ReplaceTypeOK, Replace!Places, Replace!Files,
     Replace!ReplaceAssumption
<1>3. CASE Replace!StagesData
  BY <1>3 DEF Replace!StagesData, Replace!Goes, Replace!Keep, ReplaceInv,
     Replace!ReplaceTypeOK, Replace!Places, Replace!Files,
     Replace!ReplaceAssumption
<1>4. CASE Replace!PlacesStaged
  BY <1>4 DEF Replace!PlacesStaged, Replace!Goes, Replace!Keep, Replace!Moved,
     ReplaceInv, Replace!ReplaceTypeOK, Replace!Places, Replace!Files,
     Replace!ReplaceAssumption
<1>5. CASE Replace!OpensSource
  BY <1>5 DEF Replace!OpensSource, Replace!Goes, Replace!Keep, Replace!Unchanged,
     ReplaceInv, Replace!ReplaceTypeOK, Replace!Places, Replace!Files,
     Replace!ReplaceAssumption
<1>6. CASE Replace!LooksAtName
  BY <1>6 DEF Replace!LooksAtName, Replace!Goes, Replace!Keep, Replace!Unchanged,
     ReplaceInv, Replace!ReplaceTypeOK, Replace!Places, Replace!Files,
     Replace!ReplaceAssumption
<1>7. CASE Replace!ClaimsPath
  BY <1>7 DEF Replace!ClaimsPath, Replace!Goes, Replace!Keep, Replace!Moved,
     ReplaceInv, Replace!ReplaceTypeOK, Replace!Places, Replace!Files,
     Replace!ReplaceAssumption
<1>8. CASE Replace!SyncsClaim
  BY <1>8 DEF Replace!SyncsClaim, Replace!Goes, Replace!Keep, ReplaceInv,
     Replace!ReplaceTypeOK, Replace!Places, Replace!Files,
     Replace!ReplaceAssumption
<1>9. CASE Replace!Verifies
  BY <1>9 DEF Replace!Verifies, Replace!Goes, Replace!Keep, Replace!Matches,
     Replace!Named, ReplaceInv, Replace!ReplaceTypeOK, Replace!Places,
     Replace!Files, Replace!ReplaceAssumption
<1>10. CASE Replace!Activates
  BY <1>10 DEF Replace!Activates, Replace!Goes, Replace!Keep, Replace!Moved,
     ReplaceInv, Replace!ReplaceTypeOK, Replace!Places, Replace!Files,
     Replace!ReplaceAssumption
<1>11. CASE Replace!Confirms
  BY <1>11 DEF Replace!Confirms, Replace!Goes, Replace!Keep, Replace!Unchanged,
     ReplaceInv, Replace!ReplaceTypeOK, Replace!Places, Replace!Files,
     Replace!ReplaceAssumption
<1>12. CASE Replace!Inspects
  BY <1>12 DEF Replace!Inspects, Replace!Goes, Replace!Keep, Replace!Unchanged,
     ReplaceInv, Replace!ReplaceTypeOK, Replace!Places, Replace!Files,
     Replace!ReplaceAssumption
<1>13. CASE Replace!Wipes
  BY <1>13 DEF Replace!Wipes, Replace!Goes, ReplaceInv, Replace!ReplaceTypeOK,
     Replace!Places, Replace!Files, Replace!ReplaceAssumption
<1>14. CASE Replace!Unlinks
  BY <1>14 DEF Replace!Unlinks, Replace!Goes, Replace!Keep, Replace!Dropped,
     ReplaceInv, Replace!ReplaceTypeOK, Replace!Places, Replace!Files,
     Replace!ReplaceAssumption
<1>15. CASE Replace!SyncsRemoval
  BY <1>15 DEF Replace!SyncsRemoval, Replace!Goes, Replace!Keep, ReplaceInv,
     Replace!ReplaceTypeOK, Replace!Places, Replace!Files,
     Replace!ReplaceAssumption
<1>16. CASE Replace!CleansUp
  BY <1>16 DEF Replace!CleansUp, Replace!Goes, Replace!Keep, ReplaceInv,
     Replace!ReplaceTypeOK, Replace!Places, Replace!Files,
     Replace!ReplaceAssumption
<1>17. CASE Replace!LooksAtActivated
  BY <1>17 DEF Replace!LooksAtActivated, Replace!Goes, Replace!Keep,
     Replace!Unchanged, ReplaceInv, Replace!ReplaceTypeOK, Replace!Places,
     Replace!Files, Replace!ReplaceAssumption
<1>18. CASE Replace!RemovesActivated
  BY <1>18 DEF Replace!RemovesActivated, Replace!Goes, Replace!Keep,
     Replace!Dropped, ReplaceInv, Replace!ReplaceTypeOK, Replace!Places,
     Replace!Files, Replace!ReplaceAssumption
<1>19. CASE Replace!Restores
  BY <1>19 DEF Replace!Restores, Replace!Goes, Replace!Keep, Replace!Moved,
     Replace!Restorable, Replace!Unchanged, ReplaceInv, Replace!ReplaceTypeOK,
     Replace!Places, Replace!Files, Replace!ReplaceAssumption
<1>20. CASE Replace!Discards
  BY <1>20 DEF Replace!Discards, Replace!Goes, Replace!Keep, Replace!Dropped,
     ReplaceInv, Replace!ReplaceTypeOK, Replace!Places, Replace!Files,
     Replace!ReplaceAssumption
<1>21. CASE Replace!Fault
  BY <1>21 DEF Replace!Fault, Replace!AfterFault, ReplaceInv,
     Replace!ReplaceTypeOK, Replace!Places, Replace!Files,
     Replace!ReplaceAssumption
<1>22. CASE Replace!Killed
  BY <1>22 DEF Replace!Killed, Replace!Goes, Replace!Keep, ReplaceInv,
     Replace!ReplaceTypeOK, Replace!Places, Replace!Files,
     Replace!ReplaceAssumption
<1>23. CASE Replace!OtherReplaces
  BY <1>23 DEF Replace!OtherReplaces, ReplaceInv, Replace!ReplaceTypeOK,
     Replace!Places, Replace!Files, Replace!ReplaceAssumption
<1>24. CASE Replace!OtherWrites
  BY <1>24 DEF Replace!OtherWrites, Replace!Named, ReplaceInv,
     Replace!ReplaceTypeOK, Replace!Places, Replace!Files,
     Replace!ReplaceAssumption
<1>25. CASE Replace!Done
  BY <1>25 DEF Replace!Done, Replace!replaceVars, ReplaceInv,
     Replace!ReplaceTypeOK, Replace!Places, Replace!Files,
     Replace!ReplaceAssumption
<1> QED
  BY <1>1, <1>2, <1>3, <1>4, <1>5, <1>6, <1>7, <1>8, <1>9, <1>10, <1>11, <1>12,
     <1>13, <1>14, <1>15, <1>16, <1>17, <1>18, <1>19, <1>20, <1>21, <1>22, <1>23,
     <1>24, <1>25 DEF Replace!ReplaceNext

LEMMA NamesStayRight ==
    ASSUME ReplaceInv, Replace!ReplaceNext
    PROVE  NamesAreRight'
<1>1. CASE Replace!ChecksMissing
  BY <1>1 DEF Replace!ChecksMissing, Replace!Goes, Replace!Keep, ReplaceInv,
     Replace!ReplaceTypeOK, Replace!Places, Replace!Files, NamesAreRight,
     BeforeClaim, HoldingClaim, ClaimIsSeen, OthersAreKept, Replace!Named
<1>2. CASE Replace!MakesTransaction
  BY <1>2 DEF Replace!MakesTransaction, Replace!Goes, Replace!Keep, ReplaceInv,
     Replace!ReplaceTypeOK, Replace!Places, Replace!Files, NamesAreRight,
     BeforeClaim, HoldingClaim, ClaimIsSeen, OthersAreKept, Replace!Named
<1>3. CASE Replace!StagesData
  BY <1>3 DEF Replace!StagesData, Replace!Goes, Replace!Keep, ReplaceInv,
     Replace!ReplaceTypeOK, Replace!Places, Replace!Files, NamesAreRight,
     BeforeClaim, HoldingClaim, ClaimIsSeen, OthersAreKept, Replace!Named
<1>4. CASE Replace!PlacesStaged
  BY <1>4 DEF Replace!PlacesStaged, Replace!Goes, Replace!Keep, Replace!Moved,
     ReplaceInv, Replace!ReplaceTypeOK, Replace!Places, Replace!Files,
     NamesAreRight, BeforeClaim, HoldingClaim, ClaimIsSeen, OthersAreKept,
     Replace!Named
<1>5. CASE Replace!OpensSource
  BY <1>5 DEF Replace!OpensSource, Replace!Goes, Replace!Keep, Replace!Unchanged,
     ReplaceInv, Replace!ReplaceTypeOK, Replace!Places, Replace!Files,
     NamesAreRight, BeforeClaim, HoldingClaim, ClaimIsSeen, OthersAreKept,
     Replace!Named
<1>6. CASE Replace!LooksAtName
  BY <1>6 DEF Replace!LooksAtName, Replace!Goes, Replace!Keep, Replace!Unchanged,
     ReplaceInv, Replace!ReplaceTypeOK, Replace!Places, Replace!Files,
     NamesAreRight, BeforeClaim, HoldingClaim, ClaimIsSeen, OthersAreKept,
     Replace!Named
<1>7. CASE Replace!ClaimsPath
  BY <1>7 DEF Replace!ClaimsPath, Replace!Goes, Replace!Keep, Replace!Moved,
     ReplaceInv, Replace!ReplaceTypeOK, Replace!Places, Replace!Files,
     NamesAreRight, BeforeClaim, HoldingClaim, ClaimIsSeen, OthersAreKept,
     Replace!Named
<1>8. CASE Replace!SyncsClaim
  BY <1>8 DEF Replace!SyncsClaim, Replace!Goes, Replace!Keep, ReplaceInv,
     Replace!ReplaceTypeOK, Replace!Places, Replace!Files, NamesAreRight,
     BeforeClaim, HoldingClaim, ClaimIsSeen, OthersAreKept, Replace!Named
<1>9. CASE Replace!Verifies
  BY <1>9 DEF Replace!Verifies, Replace!Goes, Replace!Keep, Replace!Matches,
     Replace!Named, ReplaceInv, Replace!ReplaceTypeOK, Replace!Places,
     Replace!Files, NamesAreRight, BeforeClaim, HoldingClaim, ClaimIsSeen,
     OthersAreKept
<1>10. CASE Replace!Activates
  BY <1>10 DEF Replace!Activates, Replace!Goes, Replace!Keep, Replace!Moved,
     ReplaceInv, Replace!ReplaceTypeOK, Replace!Places, Replace!Files,
     NamesAreRight, BeforeClaim, HoldingClaim, ClaimIsSeen, OthersAreKept,
     Replace!Named
<1>11. CASE Replace!Confirms
  BY <1>11 DEF Replace!Confirms, Replace!Goes, Replace!Keep, Replace!Unchanged,
     ReplaceInv, Replace!ReplaceTypeOK, Replace!Places, Replace!Files,
     NamesAreRight, BeforeClaim, HoldingClaim, ClaimIsSeen, OthersAreKept,
     Replace!Named
<1>12. CASE Replace!Inspects
  BY <1>12 DEF Replace!Inspects, Replace!Goes, Replace!Keep, Replace!Unchanged,
     ReplaceInv, Replace!ReplaceTypeOK, Replace!Places, Replace!Files,
     NamesAreRight, BeforeClaim, HoldingClaim, ClaimIsSeen, OthersAreKept,
     Replace!Named
<1>13. CASE Replace!Wipes
  BY <1>13 DEF Replace!Wipes, Replace!Goes, ReplaceInv, Replace!ReplaceTypeOK,
     Replace!Places, Replace!Files, NamesAreRight, BeforeClaim, HoldingClaim,
     ClaimIsSeen, OthersAreKept, Replace!Named
<1>14. CASE Replace!Unlinks
  BY <1>14 DEF Replace!Unlinks, Replace!Goes, Replace!Keep, Replace!Dropped,
     ReplaceInv, Replace!ReplaceTypeOK, Replace!Places, Replace!Files,
     NamesAreRight, BeforeClaim, HoldingClaim, ClaimIsSeen, OthersAreKept,
     Replace!Named
<1>15. CASE Replace!SyncsRemoval
  BY <1>15 DEF Replace!SyncsRemoval, Replace!Goes, Replace!Keep, ReplaceInv,
     Replace!ReplaceTypeOK, Replace!Places, Replace!Files, NamesAreRight,
     BeforeClaim, HoldingClaim, ClaimIsSeen, OthersAreKept, Replace!Named
<1>16. CASE Replace!CleansUp
  BY <1>16 DEF Replace!CleansUp, Replace!Goes, Replace!Keep, ReplaceInv,
     Replace!ReplaceTypeOK, Replace!Places, Replace!Files, NamesAreRight,
     BeforeClaim, HoldingClaim, ClaimIsSeen, OthersAreKept, Replace!Named
<1>17. CASE Replace!LooksAtActivated
  BY <1>17 DEF Replace!LooksAtActivated, Replace!Goes, Replace!Keep,
     Replace!Unchanged, ReplaceInv, Replace!ReplaceTypeOK, Replace!Places,
     Replace!Files, NamesAreRight, BeforeClaim, HoldingClaim, ClaimIsSeen,
     OthersAreKept, Replace!Named
<1>18. CASE Replace!RemovesActivated
  BY <1>18 DEF Replace!RemovesActivated, Replace!Goes, Replace!Keep,
     Replace!Dropped, ReplaceInv, Replace!ReplaceTypeOK, Replace!Places,
     Replace!Files, NamesAreRight, BeforeClaim, HoldingClaim, ClaimIsSeen,
     OthersAreKept, Replace!Named
<1>19. CASE Replace!Restores
  BY <1>19 DEF Replace!Restores, Replace!Goes, Replace!Keep, Replace!Moved,
     Replace!Restorable, Replace!Unchanged, ReplaceInv, Replace!ReplaceTypeOK,
     Replace!Places, Replace!Files, NamesAreRight, BeforeClaim, HoldingClaim,
     ClaimIsSeen, OthersAreKept, Replace!Named
<1>20. CASE Replace!Discards
  BY <1>20 DEF Replace!Discards, Replace!Goes, Replace!Keep, Replace!Dropped,
     ReplaceInv, Replace!ReplaceTypeOK, Replace!Places, Replace!Files,
     NamesAreRight, BeforeClaim, HoldingClaim, ClaimIsSeen, OthersAreKept,
     Replace!Named
<1>21. CASE Replace!Fault
  BY <1>21 DEF Replace!Fault, Replace!AfterFault, ReplaceInv,
     Replace!ReplaceTypeOK, Replace!Places, Replace!Files, NamesAreRight,
     BeforeClaim, HoldingClaim, ClaimIsSeen, OthersAreKept, Replace!Named
<1>22. CASE Replace!Killed
  BY <1>22 DEF Replace!Killed, Replace!Goes, Replace!Keep, ReplaceInv,
     Replace!ReplaceTypeOK, Replace!Places, Replace!Files, NamesAreRight,
     BeforeClaim, HoldingClaim, ClaimIsSeen, OthersAreKept, Replace!Named
<1>23. CASE Replace!OtherReplaces
  BY <1>23 DEF Replace!OtherReplaces, ReplaceInv, Replace!ReplaceTypeOK,
     Replace!Places, Replace!Files, NamesAreRight, BeforeClaim, HoldingClaim,
     ClaimIsSeen, OthersAreKept, Replace!Named
<1>24. CASE Replace!OtherWrites
  BY <1>24 DEF Replace!OtherWrites, Replace!Named, ReplaceInv,
     Replace!ReplaceTypeOK, Replace!Places, Replace!Files, NamesAreRight,
     BeforeClaim, HoldingClaim, ClaimIsSeen, OthersAreKept
<1>25. CASE Replace!Done
  BY <1>25 DEF Replace!Done, Replace!replaceVars, ReplaceInv,
     Replace!ReplaceTypeOK, Replace!Places, Replace!Files, NamesAreRight,
     BeforeClaim, HoldingClaim, ClaimIsSeen, OthersAreKept, Replace!Named
<1> QED
  BY <1>1, <1>2, <1>3, <1>4, <1>5, <1>6, <1>7, <1>8, <1>9, <1>10, <1>11, <1>12,
     <1>13, <1>14, <1>15, <1>16, <1>17, <1>18, <1>19, <1>20, <1>21, <1>22, <1>23,
     <1>24, <1>25 DEF Replace!ReplaceNext

LEMMA ClaimStaysSeen ==
    ASSUME ReplaceInv, Replace!ReplaceNext
    PROVE  ClaimIsSeen'
<1>1. CASE Replace!ChecksMissing
  BY <1>1 DEF Replace!ChecksMissing, Replace!Goes, Replace!Keep, ReplaceInv,
     Replace!ReplaceTypeOK, Replace!Places, Replace!Files, NamesAreRight,
     BeforeClaim, HoldingClaim, ClaimIsSeen, RemovesAfterCommit, Replace!Named
<1>2. CASE Replace!MakesTransaction
  BY <1>2 DEF Replace!MakesTransaction, Replace!Goes, Replace!Keep, ReplaceInv,
     Replace!ReplaceTypeOK, Replace!Places, Replace!Files, NamesAreRight,
     BeforeClaim, HoldingClaim, ClaimIsSeen, RemovesAfterCommit, Replace!Named
<1>3. CASE Replace!StagesData
  BY <1>3 DEF Replace!StagesData, Replace!Goes, Replace!Keep, ReplaceInv,
     Replace!ReplaceTypeOK, Replace!Places, Replace!Files, NamesAreRight,
     BeforeClaim, HoldingClaim, ClaimIsSeen, RemovesAfterCommit, Replace!Named
<1>4. CASE Replace!PlacesStaged
  BY <1>4 DEF Replace!PlacesStaged, Replace!Goes, Replace!Keep, Replace!Moved,
     ReplaceInv, Replace!ReplaceTypeOK, Replace!Places, Replace!Files,
     NamesAreRight, BeforeClaim, HoldingClaim, ClaimIsSeen, RemovesAfterCommit,
     Replace!Named
<1>5. CASE Replace!OpensSource
  BY <1>5 DEF Replace!OpensSource, Replace!Goes, Replace!Keep, Replace!Unchanged,
     ReplaceInv, Replace!ReplaceTypeOK, Replace!Places, Replace!Files,
     NamesAreRight, BeforeClaim, HoldingClaim, ClaimIsSeen, RemovesAfterCommit,
     Replace!Named
<1>6. CASE Replace!LooksAtName
  BY <1>6 DEF Replace!LooksAtName, Replace!Goes, Replace!Keep, Replace!Unchanged,
     ReplaceInv, Replace!ReplaceTypeOK, Replace!Places, Replace!Files,
     NamesAreRight, BeforeClaim, HoldingClaim, ClaimIsSeen, RemovesAfterCommit,
     Replace!Named
<1>7. CASE Replace!ClaimsPath
  BY <1>7 DEF Replace!ClaimsPath, Replace!Goes, Replace!Keep, Replace!Moved,
     ReplaceInv, Replace!ReplaceTypeOK, Replace!Places, Replace!Files,
     NamesAreRight, BeforeClaim, HoldingClaim, ClaimIsSeen, RemovesAfterCommit,
     Replace!Named
<1>8. CASE Replace!SyncsClaim
  BY <1>8 DEF Replace!SyncsClaim, Replace!Goes, Replace!Keep, ReplaceInv,
     Replace!ReplaceTypeOK, Replace!Places, Replace!Files, NamesAreRight,
     BeforeClaim, HoldingClaim, ClaimIsSeen, RemovesAfterCommit, Replace!Named
<1>9. CASE Replace!Verifies
  BY <1>9 DEF Replace!Verifies, Replace!Goes, Replace!Keep, Replace!Matches,
     Replace!Named, ReplaceInv, Replace!ReplaceTypeOK, Replace!Places,
     Replace!Files, NamesAreRight, BeforeClaim, HoldingClaim, ClaimIsSeen,
     RemovesAfterCommit
<1>10. CASE Replace!Activates
  BY <1>10 DEF Replace!Activates, Replace!Goes, Replace!Keep, Replace!Moved,
     ReplaceInv, Replace!ReplaceTypeOK, Replace!Places, Replace!Files,
     NamesAreRight, BeforeClaim, HoldingClaim, ClaimIsSeen, RemovesAfterCommit,
     Replace!Named
<1>11. CASE Replace!Confirms
  BY <1>11 DEF Replace!Confirms, Replace!Goes, Replace!Keep, Replace!Unchanged,
     ReplaceInv, Replace!ReplaceTypeOK, Replace!Places, Replace!Files,
     NamesAreRight, BeforeClaim, HoldingClaim, ClaimIsSeen, RemovesAfterCommit,
     Replace!Named
<1>12. CASE Replace!Inspects
  BY <1>12 DEF Replace!Inspects, Replace!Goes, Replace!Keep, Replace!Unchanged,
     ReplaceInv, Replace!ReplaceTypeOK, Replace!Places, Replace!Files,
     NamesAreRight, BeforeClaim, HoldingClaim, ClaimIsSeen, RemovesAfterCommit,
     Replace!Named
<1>13. CASE Replace!Wipes
  BY <1>13 DEF Replace!Wipes, Replace!Goes, ReplaceInv, Replace!ReplaceTypeOK,
     Replace!Places, Replace!Files, NamesAreRight, BeforeClaim, HoldingClaim,
     ClaimIsSeen, RemovesAfterCommit, Replace!Named
<1>14. CASE Replace!Unlinks
  BY <1>14 DEF Replace!Unlinks, Replace!Goes, Replace!Keep, Replace!Dropped,
     ReplaceInv, Replace!ReplaceTypeOK, Replace!Places, Replace!Files,
     NamesAreRight, BeforeClaim, HoldingClaim, ClaimIsSeen, RemovesAfterCommit,
     Replace!Named
<1>15. CASE Replace!SyncsRemoval
  BY <1>15 DEF Replace!SyncsRemoval, Replace!Goes, Replace!Keep, ReplaceInv,
     Replace!ReplaceTypeOK, Replace!Places, Replace!Files, NamesAreRight,
     BeforeClaim, HoldingClaim, ClaimIsSeen, RemovesAfterCommit, Replace!Named
<1>16. CASE Replace!CleansUp
  BY <1>16 DEF Replace!CleansUp, Replace!Goes, Replace!Keep, ReplaceInv,
     Replace!ReplaceTypeOK, Replace!Places, Replace!Files, NamesAreRight,
     BeforeClaim, HoldingClaim, ClaimIsSeen, RemovesAfterCommit, Replace!Named
<1>17. CASE Replace!LooksAtActivated
  BY <1>17 DEF Replace!LooksAtActivated, Replace!Goes, Replace!Keep,
     Replace!Unchanged, ReplaceInv, Replace!ReplaceTypeOK, Replace!Places,
     Replace!Files, NamesAreRight, BeforeClaim, HoldingClaim, ClaimIsSeen,
     RemovesAfterCommit, Replace!Named
<1>18. CASE Replace!RemovesActivated
  BY <1>18 DEF Replace!RemovesActivated, Replace!Goes, Replace!Keep,
     Replace!Dropped, ReplaceInv, Replace!ReplaceTypeOK, Replace!Places,
     Replace!Files, NamesAreRight, BeforeClaim, HoldingClaim, ClaimIsSeen,
     RemovesAfterCommit, Replace!Named
<1>19. CASE Replace!Restores
  BY <1>19 DEF Replace!Restores, Replace!Goes, Replace!Keep, Replace!Moved,
     Replace!Restorable, Replace!Unchanged, ReplaceInv, Replace!ReplaceTypeOK,
     Replace!Places, Replace!Files, NamesAreRight, BeforeClaim, HoldingClaim,
     ClaimIsSeen, RemovesAfterCommit, Replace!Named
<1>20. CASE Replace!Discards
  BY <1>20 DEF Replace!Discards, Replace!Goes, Replace!Keep, Replace!Dropped,
     ReplaceInv, Replace!ReplaceTypeOK, Replace!Places, Replace!Files,
     NamesAreRight, BeforeClaim, HoldingClaim, ClaimIsSeen, RemovesAfterCommit,
     Replace!Named
<1>21. CASE Replace!Fault
  BY <1>21 DEF Replace!Fault, Replace!AfterFault, ReplaceInv,
     Replace!ReplaceTypeOK, Replace!Places, Replace!Files, NamesAreRight,
     BeforeClaim, HoldingClaim, ClaimIsSeen, RemovesAfterCommit, Replace!Named
<1>22. CASE Replace!Killed
  BY <1>22 DEF Replace!Killed, Replace!Goes, Replace!Keep, ReplaceInv,
     Replace!ReplaceTypeOK, Replace!Places, Replace!Files, NamesAreRight,
     BeforeClaim, HoldingClaim, ClaimIsSeen, RemovesAfterCommit, Replace!Named
<1>23. CASE Replace!OtherReplaces
  BY <1>23 DEF Replace!OtherReplaces, ReplaceInv, Replace!ReplaceTypeOK,
     Replace!Places, Replace!Files, NamesAreRight, BeforeClaim, HoldingClaim,
     ClaimIsSeen, RemovesAfterCommit, Replace!Named
<1>24. CASE Replace!OtherWrites
  BY <1>24 DEF Replace!OtherWrites, Replace!Named, ReplaceInv,
     Replace!ReplaceTypeOK, Replace!Places, Replace!Files, NamesAreRight,
     BeforeClaim, HoldingClaim, ClaimIsSeen, RemovesAfterCommit
<1>25. CASE Replace!Done
  BY <1>25 DEF Replace!Done, Replace!replaceVars, ReplaceInv,
     Replace!ReplaceTypeOK, Replace!Places, Replace!Files, NamesAreRight,
     BeforeClaim, HoldingClaim, ClaimIsSeen, RemovesAfterCommit, Replace!Named
<1> QED
  BY <1>1, <1>2, <1>3, <1>4, <1>5, <1>6, <1>7, <1>8, <1>9, <1>10, <1>11, <1>12,
     <1>13, <1>14, <1>15, <1>16, <1>17, <1>18, <1>19, <1>20, <1>21, <1>22, <1>23,
     <1>24, <1>25 DEF Replace!ReplaceNext

LEMMA StillAfterCommit ==
    ASSUME ReplaceInv, Replace!ReplaceNext
    PROVE  RemovesAfterCommit'
<1>1. CASE Replace!ChecksMissing
  BY <1>1 DEF Replace!ChecksMissing, Replace!Goes, Replace!Keep, ReplaceInv,
     Replace!ReplaceTypeOK, Replace!Places, Replace!Files, RemovesAfterCommit,
     ClaimIsSeen, HoldingClaim
<1>2. CASE Replace!MakesTransaction
  BY <1>2 DEF Replace!MakesTransaction, Replace!Goes, Replace!Keep, ReplaceInv,
     Replace!ReplaceTypeOK, Replace!Places, Replace!Files, RemovesAfterCommit,
     ClaimIsSeen, HoldingClaim
<1>3. CASE Replace!StagesData
  BY <1>3 DEF Replace!StagesData, Replace!Goes, Replace!Keep, ReplaceInv,
     Replace!ReplaceTypeOK, Replace!Places, Replace!Files, RemovesAfterCommit,
     ClaimIsSeen, HoldingClaim
<1>4. CASE Replace!PlacesStaged
  BY <1>4 DEF Replace!PlacesStaged, Replace!Goes, Replace!Keep, Replace!Moved,
     ReplaceInv, Replace!ReplaceTypeOK, Replace!Places, Replace!Files,
     RemovesAfterCommit, ClaimIsSeen, HoldingClaim
<1>5. CASE Replace!OpensSource
  BY <1>5 DEF Replace!OpensSource, Replace!Goes, Replace!Keep, Replace!Unchanged,
     ReplaceInv, Replace!ReplaceTypeOK, Replace!Places, Replace!Files,
     RemovesAfterCommit, ClaimIsSeen, HoldingClaim
<1>6. CASE Replace!LooksAtName
  BY <1>6 DEF Replace!LooksAtName, Replace!Goes, Replace!Keep, Replace!Unchanged,
     ReplaceInv, Replace!ReplaceTypeOK, Replace!Places, Replace!Files,
     RemovesAfterCommit, ClaimIsSeen, HoldingClaim
<1>7. CASE Replace!ClaimsPath
  BY <1>7 DEF Replace!ClaimsPath, Replace!Goes, Replace!Keep, Replace!Moved,
     ReplaceInv, Replace!ReplaceTypeOK, Replace!Places, Replace!Files,
     RemovesAfterCommit, ClaimIsSeen, HoldingClaim
<1>8. CASE Replace!SyncsClaim
  BY <1>8 DEF Replace!SyncsClaim, Replace!Goes, Replace!Keep, ReplaceInv,
     Replace!ReplaceTypeOK, Replace!Places, Replace!Files, RemovesAfterCommit,
     ClaimIsSeen, HoldingClaim
<1>9. CASE Replace!Verifies
  BY <1>9 DEF Replace!Verifies, Replace!Goes, Replace!Keep, Replace!Matches,
     Replace!Named, ReplaceInv, Replace!ReplaceTypeOK, Replace!Places,
     Replace!Files, RemovesAfterCommit, ClaimIsSeen, HoldingClaim
<1>10. CASE Replace!Activates
  BY <1>10 DEF Replace!Activates, Replace!Goes, Replace!Keep, Replace!Moved,
     ReplaceInv, Replace!ReplaceTypeOK, Replace!Places, Replace!Files,
     RemovesAfterCommit, ClaimIsSeen, HoldingClaim
<1>11. CASE Replace!Confirms
  BY <1>11 DEF Replace!Confirms, Replace!Goes, Replace!Keep, Replace!Unchanged,
     ReplaceInv, Replace!ReplaceTypeOK, Replace!Places, Replace!Files,
     RemovesAfterCommit, ClaimIsSeen, HoldingClaim
<1>12. CASE Replace!Inspects
  BY <1>12 DEF Replace!Inspects, Replace!Goes, Replace!Keep, Replace!Unchanged,
     ReplaceInv, Replace!ReplaceTypeOK, Replace!Places, Replace!Files,
     RemovesAfterCommit, ClaimIsSeen, HoldingClaim
<1>13. CASE Replace!Wipes
  BY <1>13 DEF Replace!Wipes, Replace!Goes, ReplaceInv, Replace!ReplaceTypeOK,
     Replace!Places, Replace!Files, RemovesAfterCommit, ClaimIsSeen, HoldingClaim
<1>14. CASE Replace!Unlinks
  BY <1>14 DEF Replace!Unlinks, Replace!Goes, Replace!Keep, Replace!Dropped,
     ReplaceInv, Replace!ReplaceTypeOK, Replace!Places, Replace!Files,
     RemovesAfterCommit, ClaimIsSeen, HoldingClaim
<1>15. CASE Replace!SyncsRemoval
  BY <1>15 DEF Replace!SyncsRemoval, Replace!Goes, Replace!Keep, ReplaceInv,
     Replace!ReplaceTypeOK, Replace!Places, Replace!Files, RemovesAfterCommit,
     ClaimIsSeen, HoldingClaim
<1>16. CASE Replace!CleansUp
  BY <1>16 DEF Replace!CleansUp, Replace!Goes, Replace!Keep, ReplaceInv,
     Replace!ReplaceTypeOK, Replace!Places, Replace!Files, RemovesAfterCommit,
     ClaimIsSeen, HoldingClaim
<1>17. CASE Replace!LooksAtActivated
  BY <1>17 DEF Replace!LooksAtActivated, Replace!Goes, Replace!Keep,
     Replace!Unchanged, ReplaceInv, Replace!ReplaceTypeOK, Replace!Places,
     Replace!Files, RemovesAfterCommit, ClaimIsSeen, HoldingClaim
<1>18. CASE Replace!RemovesActivated
  BY <1>18 DEF Replace!RemovesActivated, Replace!Goes, Replace!Keep,
     Replace!Dropped, ReplaceInv, Replace!ReplaceTypeOK, Replace!Places,
     Replace!Files, RemovesAfterCommit, ClaimIsSeen, HoldingClaim
<1>19. CASE Replace!Restores
  BY <1>19 DEF Replace!Restores, Replace!Goes, Replace!Keep, Replace!Moved,
     Replace!Restorable, Replace!Unchanged, ReplaceInv, Replace!ReplaceTypeOK,
     Replace!Places, Replace!Files, RemovesAfterCommit, ClaimIsSeen, HoldingClaim
<1>20. CASE Replace!Discards
  BY <1>20 DEF Replace!Discards, Replace!Goes, Replace!Keep, Replace!Dropped,
     ReplaceInv, Replace!ReplaceTypeOK, Replace!Places, Replace!Files,
     RemovesAfterCommit, ClaimIsSeen, HoldingClaim
<1>21. CASE Replace!Fault
  BY <1>21 DEF Replace!Fault, Replace!AfterFault, ReplaceInv,
     Replace!ReplaceTypeOK, Replace!Places, Replace!Files, RemovesAfterCommit,
     ClaimIsSeen, HoldingClaim
<1>22. CASE Replace!Killed
  BY <1>22 DEF Replace!Killed, Replace!Goes, Replace!Keep, ReplaceInv,
     Replace!ReplaceTypeOK, Replace!Places, Replace!Files, RemovesAfterCommit,
     ClaimIsSeen, HoldingClaim
<1>23. CASE Replace!OtherReplaces
  BY <1>23 DEF Replace!OtherReplaces, ReplaceInv, Replace!ReplaceTypeOK,
     Replace!Places, Replace!Files, RemovesAfterCommit, ClaimIsSeen, HoldingClaim
<1>24. CASE Replace!OtherWrites
  BY <1>24 DEF Replace!OtherWrites, Replace!Named, ReplaceInv,
     Replace!ReplaceTypeOK, Replace!Places, Replace!Files, RemovesAfterCommit,
     ClaimIsSeen, HoldingClaim
<1>25. CASE Replace!Done
  BY <1>25 DEF Replace!Done, Replace!replaceVars, ReplaceInv,
     Replace!ReplaceTypeOK, Replace!Places, Replace!Files, RemovesAfterCommit,
     ClaimIsSeen, HoldingClaim
<1> QED
  BY <1>1, <1>2, <1>3, <1>4, <1>5, <1>6, <1>7, <1>8, <1>9, <1>10, <1>11, <1>12,
     <1>13, <1>14, <1>15, <1>16, <1>17, <1>18, <1>19, <1>20, <1>21, <1>22, <1>23,
     <1>24, <1>25 DEF Replace!ReplaceNext

LEMMA OthersStayKept ==
    ASSUME ReplaceInv, Replace!ReplaceNext
    PROVE  OthersAreKept'
<1>1. CASE Replace!ChecksMissing
  BY <1>1 DEF Replace!ChecksMissing, Replace!Goes, Replace!Keep, ReplaceInv,
     Replace!ReplaceTypeOK, Replace!Places, Replace!Files, NamesAreRight,
     BeforeClaim, HoldingClaim, ClaimIsSeen, OthersAreKept, Replace!OtherIsKept,
     Replace!Named
<1>2. CASE Replace!MakesTransaction
  BY <1>2 DEF Replace!MakesTransaction, Replace!Goes, Replace!Keep, ReplaceInv,
     Replace!ReplaceTypeOK, Replace!Places, Replace!Files, NamesAreRight,
     BeforeClaim, HoldingClaim, ClaimIsSeen, OthersAreKept, Replace!OtherIsKept,
     Replace!Named
<1>3. CASE Replace!StagesData
  BY <1>3 DEF Replace!StagesData, Replace!Goes, Replace!Keep, ReplaceInv,
     Replace!ReplaceTypeOK, Replace!Places, Replace!Files, NamesAreRight,
     BeforeClaim, HoldingClaim, ClaimIsSeen, OthersAreKept, Replace!OtherIsKept,
     Replace!Named
<1>4. CASE Replace!PlacesStaged
  BY <1>4 DEF Replace!PlacesStaged, Replace!Goes, Replace!Keep, Replace!Moved,
     ReplaceInv, Replace!ReplaceTypeOK, Replace!Places, Replace!Files,
     NamesAreRight, BeforeClaim, HoldingClaim, ClaimIsSeen, OthersAreKept,
     Replace!OtherIsKept, Replace!Named
<1>5. CASE Replace!OpensSource
  BY <1>5 DEF Replace!OpensSource, Replace!Goes, Replace!Keep, Replace!Unchanged,
     ReplaceInv, Replace!ReplaceTypeOK, Replace!Places, Replace!Files,
     NamesAreRight, BeforeClaim, HoldingClaim, ClaimIsSeen, OthersAreKept,
     Replace!OtherIsKept, Replace!Named
<1>6. CASE Replace!LooksAtName
  BY <1>6 DEF Replace!LooksAtName, Replace!Goes, Replace!Keep, Replace!Unchanged,
     ReplaceInv, Replace!ReplaceTypeOK, Replace!Places, Replace!Files,
     NamesAreRight, BeforeClaim, HoldingClaim, ClaimIsSeen, OthersAreKept,
     Replace!OtherIsKept, Replace!Named
<1>7. CASE Replace!ClaimsPath
  BY <1>7 DEF Replace!ClaimsPath, Replace!Goes, Replace!Keep, Replace!Moved,
     ReplaceInv, Replace!ReplaceTypeOK, Replace!Places, Replace!Files,
     NamesAreRight, BeforeClaim, HoldingClaim, ClaimIsSeen, OthersAreKept,
     Replace!OtherIsKept, Replace!Named
<1>8. CASE Replace!SyncsClaim
  BY <1>8 DEF Replace!SyncsClaim, Replace!Goes, Replace!Keep, ReplaceInv,
     Replace!ReplaceTypeOK, Replace!Places, Replace!Files, NamesAreRight,
     BeforeClaim, HoldingClaim, ClaimIsSeen, OthersAreKept, Replace!OtherIsKept,
     Replace!Named
<1>9. CASE Replace!Verifies
  BY <1>9 DEF Replace!Verifies, Replace!Goes, Replace!Keep, Replace!Matches,
     Replace!Named, ReplaceInv, Replace!ReplaceTypeOK, Replace!Places,
     Replace!Files, NamesAreRight, BeforeClaim, HoldingClaim, ClaimIsSeen,
     OthersAreKept, Replace!OtherIsKept
<1>10. CASE Replace!Activates
  BY <1>10 DEF Replace!Activates, Replace!Goes, Replace!Keep, Replace!Moved,
     ReplaceInv, Replace!ReplaceTypeOK, Replace!Places, Replace!Files,
     NamesAreRight, BeforeClaim, HoldingClaim, ClaimIsSeen, OthersAreKept,
     Replace!OtherIsKept, Replace!Named
<1>11. CASE Replace!Confirms
  BY <1>11 DEF Replace!Confirms, Replace!Goes, Replace!Keep, Replace!Unchanged,
     ReplaceInv, Replace!ReplaceTypeOK, Replace!Places, Replace!Files,
     NamesAreRight, BeforeClaim, HoldingClaim, ClaimIsSeen, OthersAreKept,
     Replace!OtherIsKept, Replace!Named
<1>12. CASE Replace!Inspects
  BY <1>12 DEF Replace!Inspects, Replace!Goes, Replace!Keep, Replace!Unchanged,
     ReplaceInv, Replace!ReplaceTypeOK, Replace!Places, Replace!Files,
     NamesAreRight, BeforeClaim, HoldingClaim, ClaimIsSeen, OthersAreKept,
     Replace!OtherIsKept, Replace!Named
<1>13. CASE Replace!Wipes
  BY <1>13 DEF Replace!Wipes, Replace!Goes, ReplaceInv, Replace!ReplaceTypeOK,
     Replace!Places, Replace!Files, NamesAreRight, BeforeClaim, HoldingClaim,
     ClaimIsSeen, OthersAreKept, Replace!OtherIsKept, Replace!Named
<1>14. CASE Replace!Unlinks
  BY <1>14 DEF Replace!Unlinks, Replace!Goes, Replace!Keep, Replace!Dropped,
     ReplaceInv, Replace!ReplaceTypeOK, Replace!Places, Replace!Files,
     NamesAreRight, BeforeClaim, HoldingClaim, ClaimIsSeen, OthersAreKept,
     Replace!OtherIsKept, Replace!Named
<1>15. CASE Replace!SyncsRemoval
  BY <1>15 DEF Replace!SyncsRemoval, Replace!Goes, Replace!Keep, ReplaceInv,
     Replace!ReplaceTypeOK, Replace!Places, Replace!Files, NamesAreRight,
     BeforeClaim, HoldingClaim, ClaimIsSeen, OthersAreKept, Replace!OtherIsKept,
     Replace!Named
<1>16. CASE Replace!CleansUp
  BY <1>16 DEF Replace!CleansUp, Replace!Goes, Replace!Keep, ReplaceInv,
     Replace!ReplaceTypeOK, Replace!Places, Replace!Files, NamesAreRight,
     BeforeClaim, HoldingClaim, ClaimIsSeen, OthersAreKept, Replace!OtherIsKept,
     Replace!Named
<1>17. CASE Replace!LooksAtActivated
  BY <1>17 DEF Replace!LooksAtActivated, Replace!Goes, Replace!Keep,
     Replace!Unchanged, ReplaceInv, Replace!ReplaceTypeOK, Replace!Places,
     Replace!Files, NamesAreRight, BeforeClaim, HoldingClaim, ClaimIsSeen,
     OthersAreKept, Replace!OtherIsKept, Replace!Named
<1>18. CASE Replace!RemovesActivated
  BY <1>18 DEF Replace!RemovesActivated, Replace!Goes, Replace!Keep,
     Replace!Dropped, ReplaceInv, Replace!ReplaceTypeOK, Replace!Places,
     Replace!Files, NamesAreRight, BeforeClaim, HoldingClaim, ClaimIsSeen,
     OthersAreKept, Replace!OtherIsKept, Replace!Named
<1>19. CASE Replace!Restores
  BY <1>19 DEF Replace!Restores, Replace!Goes, Replace!Keep, Replace!Moved,
     Replace!Restorable, Replace!Unchanged, ReplaceInv, Replace!ReplaceTypeOK,
     Replace!Places, Replace!Files, NamesAreRight, BeforeClaim, HoldingClaim,
     ClaimIsSeen, OthersAreKept, Replace!OtherIsKept, Replace!Named
<1>20. CASE Replace!Discards
  BY <1>20 DEF Replace!Discards, Replace!Goes, Replace!Keep, Replace!Dropped,
     ReplaceInv, Replace!ReplaceTypeOK, Replace!Places, Replace!Files,
     NamesAreRight, BeforeClaim, HoldingClaim, ClaimIsSeen, OthersAreKept,
     Replace!OtherIsKept, Replace!Named
<1>21. CASE Replace!Fault
  BY <1>21 DEF Replace!Fault, Replace!AfterFault, ReplaceInv,
     Replace!ReplaceTypeOK, Replace!Places, Replace!Files, NamesAreRight,
     BeforeClaim, HoldingClaim, ClaimIsSeen, OthersAreKept, Replace!OtherIsKept,
     Replace!Named
<1>22. CASE Replace!Killed
  BY <1>22 DEF Replace!Killed, Replace!Goes, Replace!Keep, ReplaceInv,
     Replace!ReplaceTypeOK, Replace!Places, Replace!Files, NamesAreRight,
     BeforeClaim, HoldingClaim, ClaimIsSeen, OthersAreKept, Replace!OtherIsKept,
     Replace!Named
<1>23. CASE Replace!OtherReplaces
  BY <1>23 DEF Replace!OtherReplaces, ReplaceInv, Replace!ReplaceTypeOK,
     Replace!Places, Replace!Files, NamesAreRight, BeforeClaim, HoldingClaim,
     ClaimIsSeen, OthersAreKept, Replace!OtherIsKept, Replace!Named
<1>24. CASE Replace!OtherWrites
  BY <1>24 DEF Replace!OtherWrites, Replace!Named, ReplaceInv,
     Replace!ReplaceTypeOK, Replace!Places, Replace!Files, NamesAreRight,
     BeforeClaim, HoldingClaim, ClaimIsSeen, OthersAreKept, Replace!OtherIsKept
<1>25. CASE Replace!Done
  BY <1>25 DEF Replace!Done, Replace!replaceVars, ReplaceInv,
     Replace!ReplaceTypeOK, Replace!Places, Replace!Files, NamesAreRight,
     BeforeClaim, HoldingClaim, ClaimIsSeen, OthersAreKept, Replace!OtherIsKept,
     Replace!Named
<1> QED
  BY <1>1, <1>2, <1>3, <1>4, <1>5, <1>6, <1>7, <1>8, <1>9, <1>10, <1>11, <1>12,
     <1>13, <1>14, <1>15, <1>16, <1>17, <1>18, <1>19, <1>20, <1>21, <1>22, <1>23,
     <1>24, <1>25 DEF Replace!ReplaceNext

LEMMA SeenStaysKept ==
    ASSUME ReplaceInv, Replace!ReplaceNext
    PROVE  Replace!SeenIsKept'
<1>1. CASE Replace!ChecksMissing
  BY <1>1 DEF Replace!ChecksMissing, Replace!Goes, Replace!Keep, ReplaceInv,
     Replace!ReplaceTypeOK, Replace!Places, Replace!Files, NamesAreRight,
     BeforeClaim, HoldingClaim, ClaimIsSeen, RemovesAfterCommit,
     Replace!SeenIsKept, Replace!Named
<1>2. CASE Replace!MakesTransaction
  BY <1>2 DEF Replace!MakesTransaction, Replace!Goes, Replace!Keep, ReplaceInv,
     Replace!ReplaceTypeOK, Replace!Places, Replace!Files, NamesAreRight,
     BeforeClaim, HoldingClaim, ClaimIsSeen, RemovesAfterCommit,
     Replace!SeenIsKept, Replace!Named
<1>3. CASE Replace!StagesData
  BY <1>3 DEF Replace!StagesData, Replace!Goes, Replace!Keep, ReplaceInv,
     Replace!ReplaceTypeOK, Replace!Places, Replace!Files, NamesAreRight,
     BeforeClaim, HoldingClaim, ClaimIsSeen, RemovesAfterCommit,
     Replace!SeenIsKept, Replace!Named
<1>4. CASE Replace!PlacesStaged
  BY <1>4 DEF Replace!PlacesStaged, Replace!Goes, Replace!Keep, Replace!Moved,
     ReplaceInv, Replace!ReplaceTypeOK, Replace!Places, Replace!Files,
     NamesAreRight, BeforeClaim, HoldingClaim, ClaimIsSeen, RemovesAfterCommit,
     Replace!SeenIsKept, Replace!Named
<1>5. CASE Replace!OpensSource
  BY <1>5 DEF Replace!OpensSource, Replace!Goes, Replace!Keep, Replace!Unchanged,
     ReplaceInv, Replace!ReplaceTypeOK, Replace!Places, Replace!Files,
     NamesAreRight, BeforeClaim, HoldingClaim, ClaimIsSeen, RemovesAfterCommit,
     Replace!SeenIsKept, Replace!Named
<1>6. CASE Replace!LooksAtName
  BY <1>6 DEF Replace!LooksAtName, Replace!Goes, Replace!Keep, Replace!Unchanged,
     ReplaceInv, Replace!ReplaceTypeOK, Replace!Places, Replace!Files,
     NamesAreRight, BeforeClaim, HoldingClaim, ClaimIsSeen, RemovesAfterCommit,
     Replace!SeenIsKept, Replace!Named
<1>7. CASE Replace!ClaimsPath
  BY <1>7 DEF Replace!ClaimsPath, Replace!Goes, Replace!Keep, Replace!Moved,
     ReplaceInv, Replace!ReplaceTypeOK, Replace!Places, Replace!Files,
     NamesAreRight, BeforeClaim, HoldingClaim, ClaimIsSeen, RemovesAfterCommit,
     Replace!SeenIsKept, Replace!Named
<1>8. CASE Replace!SyncsClaim
  BY <1>8 DEF Replace!SyncsClaim, Replace!Goes, Replace!Keep, ReplaceInv,
     Replace!ReplaceTypeOK, Replace!Places, Replace!Files, NamesAreRight,
     BeforeClaim, HoldingClaim, ClaimIsSeen, RemovesAfterCommit,
     Replace!SeenIsKept, Replace!Named
<1>9. CASE Replace!Verifies
  BY <1>9 DEF Replace!Verifies, Replace!Goes, Replace!Keep, Replace!Matches,
     Replace!Named, ReplaceInv, Replace!ReplaceTypeOK, Replace!Places,
     Replace!Files, NamesAreRight, BeforeClaim, HoldingClaim, ClaimIsSeen,
     RemovesAfterCommit, Replace!SeenIsKept
<1>10. CASE Replace!Activates
  BY <1>10 DEF Replace!Activates, Replace!Goes, Replace!Keep, Replace!Moved,
     ReplaceInv, Replace!ReplaceTypeOK, Replace!Places, Replace!Files,
     NamesAreRight, BeforeClaim, HoldingClaim, ClaimIsSeen, RemovesAfterCommit,
     Replace!SeenIsKept, Replace!Named
<1>11. CASE Replace!Confirms
  BY <1>11 DEF Replace!Confirms, Replace!Goes, Replace!Keep, Replace!Unchanged,
     ReplaceInv, Replace!ReplaceTypeOK, Replace!Places, Replace!Files,
     NamesAreRight, BeforeClaim, HoldingClaim, ClaimIsSeen, RemovesAfterCommit,
     Replace!SeenIsKept, Replace!Named
<1>12. CASE Replace!Inspects
  BY <1>12 DEF Replace!Inspects, Replace!Goes, Replace!Keep, Replace!Unchanged,
     ReplaceInv, Replace!ReplaceTypeOK, Replace!Places, Replace!Files,
     NamesAreRight, BeforeClaim, HoldingClaim, ClaimIsSeen, RemovesAfterCommit,
     Replace!SeenIsKept, Replace!Named
<1>13. CASE Replace!Wipes
  BY <1>13 DEF Replace!Wipes, Replace!Goes, ReplaceInv, Replace!ReplaceTypeOK,
     Replace!Places, Replace!Files, NamesAreRight, BeforeClaim, HoldingClaim,
     ClaimIsSeen, RemovesAfterCommit, Replace!SeenIsKept, Replace!Named
<1>14. CASE Replace!Unlinks
  BY <1>14 DEF Replace!Unlinks, Replace!Goes, Replace!Keep, Replace!Dropped,
     ReplaceInv, Replace!ReplaceTypeOK, Replace!Places, Replace!Files,
     NamesAreRight, BeforeClaim, HoldingClaim, ClaimIsSeen, RemovesAfterCommit,
     Replace!SeenIsKept, Replace!Named
<1>15. CASE Replace!SyncsRemoval
  BY <1>15 DEF Replace!SyncsRemoval, Replace!Goes, Replace!Keep, ReplaceInv,
     Replace!ReplaceTypeOK, Replace!Places, Replace!Files, NamesAreRight,
     BeforeClaim, HoldingClaim, ClaimIsSeen, RemovesAfterCommit,
     Replace!SeenIsKept, Replace!Named
<1>16. CASE Replace!CleansUp
  BY <1>16 DEF Replace!CleansUp, Replace!Goes, Replace!Keep, ReplaceInv,
     Replace!ReplaceTypeOK, Replace!Places, Replace!Files, NamesAreRight,
     BeforeClaim, HoldingClaim, ClaimIsSeen, RemovesAfterCommit,
     Replace!SeenIsKept, Replace!Named
<1>17. CASE Replace!LooksAtActivated
  BY <1>17 DEF Replace!LooksAtActivated, Replace!Goes, Replace!Keep,
     Replace!Unchanged, ReplaceInv, Replace!ReplaceTypeOK, Replace!Places,
     Replace!Files, NamesAreRight, BeforeClaim, HoldingClaim, ClaimIsSeen,
     RemovesAfterCommit, Replace!SeenIsKept, Replace!Named
<1>18. CASE Replace!RemovesActivated
  BY <1>18 DEF Replace!RemovesActivated, Replace!Goes, Replace!Keep,
     Replace!Dropped, ReplaceInv, Replace!ReplaceTypeOK, Replace!Places,
     Replace!Files, NamesAreRight, BeforeClaim, HoldingClaim, ClaimIsSeen,
     RemovesAfterCommit, Replace!SeenIsKept, Replace!Named
<1>19. CASE Replace!Restores
  BY <1>19 DEF Replace!Restores, Replace!Goes, Replace!Keep, Replace!Moved,
     Replace!Restorable, Replace!Unchanged, ReplaceInv, Replace!ReplaceTypeOK,
     Replace!Places, Replace!Files, NamesAreRight, BeforeClaim, HoldingClaim,
     ClaimIsSeen, RemovesAfterCommit, Replace!SeenIsKept, Replace!Named
<1>20. CASE Replace!Discards
  BY <1>20 DEF Replace!Discards, Replace!Goes, Replace!Keep, Replace!Dropped,
     ReplaceInv, Replace!ReplaceTypeOK, Replace!Places, Replace!Files,
     NamesAreRight, BeforeClaim, HoldingClaim, ClaimIsSeen, RemovesAfterCommit,
     Replace!SeenIsKept, Replace!Named
<1>21. CASE Replace!Fault
  BY <1>21 DEF Replace!Fault, Replace!AfterFault, ReplaceInv,
     Replace!ReplaceTypeOK, Replace!Places, Replace!Files, NamesAreRight,
     BeforeClaim, HoldingClaim, ClaimIsSeen, RemovesAfterCommit,
     Replace!SeenIsKept, Replace!Named
<1>22. CASE Replace!Killed
  BY <1>22 DEF Replace!Killed, Replace!Goes, Replace!Keep, ReplaceInv,
     Replace!ReplaceTypeOK, Replace!Places, Replace!Files, NamesAreRight,
     BeforeClaim, HoldingClaim, ClaimIsSeen, RemovesAfterCommit,
     Replace!SeenIsKept, Replace!Named
<1>23. CASE Replace!OtherReplaces
  <2>1. /\ replacedBy' = names["path"] /\ replacedBy = "none"
        /\ \A p \in Replace!Places : p # "path" => names'[p] = names[p]
        /\ UNCHANGED <<expected, replaces, verified, committed>>
    BY <1>23 DEF Replace!OtherReplaces, ReplaceInv, OthersAreKept, Replace!ReplaceTypeOK
  <2>2. CASE names["path"] = "seen"
    BY <2>1, <2>2 DEF Replace!SeenIsKept
  <2>3. CASE names["path"] # "seen"
    <3>1. Replace!Named("seen") => Replace!Named("seen")'
      BY <2>1, <2>3 DEF Replace!Named
    <3> QED
      BY <3>1, <2>1 DEF ReplaceInv, Replace!SeenIsKept
  <2> QED
    BY <2>2, <2>3
<1>24. CASE Replace!OtherWrites
  BY <1>24 DEF Replace!OtherWrites, Replace!Named, ReplaceInv,
     Replace!ReplaceTypeOK, Replace!Places, Replace!Files, NamesAreRight,
     BeforeClaim, HoldingClaim, ClaimIsSeen, RemovesAfterCommit,
     Replace!SeenIsKept
<1>25. CASE Replace!Done
  BY <1>25 DEF Replace!Done, Replace!replaceVars, ReplaceInv,
     Replace!ReplaceTypeOK, Replace!Places, Replace!Files, NamesAreRight,
     BeforeClaim, HoldingClaim, ClaimIsSeen, RemovesAfterCommit,
     Replace!SeenIsKept, Replace!Named
<1> QED
  BY <1>1, <1>2, <1>3, <1>4, <1>5, <1>6, <1>7, <1>8, <1>9, <1>10, <1>11, <1>12,
     <1>13, <1>14, <1>15, <1>16, <1>17, <1>18, <1>19, <1>20, <1>21, <1>22, <1>23,
     <1>24, <1>25 DEF Replace!ReplaceNext

THEOREM ReplaceInvariant == Replace!ReplaceSpec => []ReplaceInv
<1>0. Replace!ReplaceAssumption
  BY FilesConstants DEF FilesConstants
<1>1. Replace!ReplaceInit => ReplaceInv
  <2> SUFFICES ASSUME Replace!ReplaceInit PROVE ReplaceInv
    OBVIOUS
  <2> USE DEF Replace!ReplaceInit, Replace!Places
  <2>1. Replace!ReplaceTypeOK
    <3>1. names \in [Replace!Places -> Replace!Files \cup {"none"}] /\ changed \subseteq Replace!Files
      BY DEF Replace!Files
    <3>2. {replaces, directory, verified, committed} \subseteq BOOLEAN
      OBVIOUS
    <3> QED
      BY <1>0, <3>1, <3>2 DEF Replace!ReplaceAssumption, Replace!ReplaceTypeOK
  <2>2. NamesAreRight /\ ClaimIsSeen
    BY DEF NamesAreRight, ClaimIsSeen, BeforeClaim, HoldingClaim
  <2>3. RemovesAfterCommit
    BY DEF RemovesAfterCommit
  <2>4. OthersAreKept /\ Replace!SeenIsKept
    BY DEF OthersAreKept, Replace!OtherIsKept, Replace!SeenIsKept, Replace!Named
  <2> QED
    BY <2>1, <2>2, <2>3, <2>4 DEF ReplaceInv
<1>2. ASSUME ReplaceInv, Replace!ReplaceNext PROVE ReplaceInv'
  BY <1>0, <1>2, ReplaceTypeKept, NamesStayRight, ClaimStaysSeen, StillAfterCommit, OthersStayKept,
     SeenStaysKept DEF ReplaceInv
<1>3. ReplaceInv /\ UNCHANGED Replace!replaceVars => ReplaceInv'
  BY DEF Replace!replaceVars, ReplaceInv, Replace!ReplaceTypeOK, NamesAreRight, ClaimIsSeen,
     RemovesAfterCommit, OthersAreKept, Replace!OtherIsKept, Replace!SeenIsKept, Replace!Named
<1> QED
  BY <1>1, <1>2, <1>3, PTL DEF Replace!ReplaceSpec

(* path_safety.py - whatever fails, however often, and whenever the        *)
(* command is killed: neither the file that was seen nor that of somebody  *)
(* else is lost to a replacement or a removal of the file that was seen.   *)
THEOREM ReplacementsLoseNothing == Replace!ReplaceSpec => []Replace!ReplaceLosesNothing
<1>1. ReplaceInv => Replace!ReplaceLosesNothing
  BY DEF ReplaceInv, OthersAreKept, Replace!ReplaceLosesNothing
<1> QED
  BY <1>1, ReplaceInvariant, PTL

-----------------------------------------------------------------------------
(* SettingsExport.  How far an export has come says what it has staged and *)
(* linked, and nobody else has its file before it exchanges.               *)
ExportSteps == Export!Ended \cup {"idle", "stages", "checks", "links", "compares", "ready", "exchanged",
                   "returns", "replaced", "placed", "cleans", "undoes", "restores", "tidies"}

OwnNames(x) ==
    /\ exportAt[x] \in {"idle", "stages"} => exportStaged[x] = Nothing
    /\ exportAt[x] \in {"checks", "links", "compares", "ready"} => exportStaged[x] = x
    /\ exportAt[x] = "ready" /\ existing[x] # Nothing => backup[x] = existing[x]
    /\ exportAt[x] \in {"exchanged", "replaced"} => backup[x] = existing[x]
    /\ exportAt[x] = "replaced" => exportStaged[x] = existing[x]
    /\ backup[x] # x

NotOutYet(x) ==
    exportAt[x] \in {"idle", "stages", "checks", "links", "compares", "ready"} =>
        /\ path # x
        /\ \A y \in Exports : backup[y] # x /\ (y # x => exportStaged[y] # x)

\* A name that is not taken away, unless an export succeeds: until then a
\* backup is only removed by one that has not come as far as its exchange.
SafeName(f, y) ==
    \/ exportStaged[y] = f
    \/ backup[y] = f /\ exportAt[y] \in {"placed", "cleans", "undoes", "restores", "tidies", "failed", "dead"}

HasName(f) == path = f \/ \E y \in Exports : SafeName(f, y)

OldHasName == (\E x \in Exports : existing[x] = Old) /\ (\A x \in Exports : exportAt[x] # "succeeded") => HasName(Old)

NewHasName(x) ==
    exportAt[x] \in {"cleans", "succeeded"} /\ (\A y \in Exports \ {x} : exportAt[y] # "succeeded") => HasName(x)

ExportInv ==
    /\ Export!ExportTypeOK
    /\ \A x \in Exports : OwnNames(x) /\ NotOutYet(x) /\ NewHasName(x)
    /\ OldHasName

ExportStep(x) ==
    \/ Export!Looks(x) \/ Export!Stages(x) \/ Export!Checks(x) \/ Export!LinksBackup(x) \/ Export!Compares(x)
    \/ Export!LinkIsWrong(x) \/ Export!Exchanges(x) \/ Export!Places(x) \/ Export!ReplacedIsRight(x) \/ Export!ReplacedIsWrong(x)
    \/ Export!ReturnsIt(x) \/ Export!RemovesReplaced(x) \/ Export!Commits(x) \/ Export!Cleans(x) \/ Export!Fails(x)
    \/ Export!Refused(x) \/ Export!UndoesPath(x) \/ Export!RestoresBackup(x) \/ Export!DoesNotUndo(x) \/ Export!Tidies(x)
    \/ Export!Killed(x)

LEMMA ExportTypeKept ==
    ASSUME Export!ExportTypeOK, NEW x \in Exports, ExportStep(x)
    PROVE  Export!ExportTypeOK'
<1>1. CASE Export!Looks(x)
  BY <1>1 DEF Export!Looks, Export!Goes, Export!ExportTypeOK, Export!Files,
     Export!Ended
<1>2. CASE Export!Stages(x)
  BY <1>2 DEF Export!Stages, Export!Goes, Export!ExportTypeOK, Export!Files,
     Export!Ended
<1>3. CASE Export!Checks(x)
  BY <1>3 DEF Export!Checks, Export!Goes, Export!ExportTypeOK, Export!Files,
     Export!Ended
<1>4. CASE Export!LinksBackup(x)
  BY <1>4 DEF Export!LinksBackup, Export!Goes, Export!ExportTypeOK, Export!Files,
     Export!Ended
<1>5. CASE Export!Compares(x)
  BY <1>5 DEF Export!Compares, Export!Goes, Export!ExportTypeOK, Export!Files,
     Export!Ended
<1>6. CASE Export!LinkIsWrong(x)
  BY <1>6 DEF Export!LinkIsWrong, Export!Goes, Export!ExportTypeOK, Export!Files,
     Export!Ended
<1>7. CASE Export!Exchanges(x)
  BY <1>7 DEF Export!Exchanges, Export!Goes, Export!ExportTypeOK, Export!Files,
     Export!Ended
<1>8. CASE Export!Places(x)
  BY <1>8 DEF Export!Places, Export!Goes, Export!ExportTypeOK, Export!Files,
     Export!Ended
<1>9. CASE Export!ReplacedIsRight(x)
  BY <1>9 DEF Export!ReplacedIsRight, Export!Own, Export!Goes,
     Export!ExportTypeOK, Export!Files, Export!Ended
<1>10. CASE Export!ReplacedIsWrong(x)
  BY <1>10 DEF Export!ReplacedIsWrong, Export!Own, Export!Goes,
     Export!ExportTypeOK, Export!Files, Export!Ended
<1>11. CASE Export!ReturnsIt(x)
  BY <1>11 DEF Export!ReturnsIt, Export!Goes, Export!ExportTypeOK, Export!Files,
     Export!Ended
<1>12. CASE Export!RemovesReplaced(x)
  BY <1>12 DEF Export!RemovesReplaced, Export!Goes, Export!ExportTypeOK,
     Export!Files, Export!Ended
<1>13. CASE Export!Commits(x)
  BY <1>13 DEF Export!Commits, Export!Own, Export!Goes, Export!ExportTypeOK,
     Export!Files, Export!Ended
<1>14. CASE Export!Cleans(x)
  BY <1>14 DEF Export!Cleans, Export!Goes, Export!ExportTypeOK, Export!Files,
     Export!Ended
<1>15. CASE Export!Fails(x)
  BY <1>15 DEF Export!Fails, Export!ExportTypeOK, Export!Files, Export!Ended
<1>16. CASE Export!Refused(x)
  BY <1>16 DEF Export!Refused, Export!Goes, Export!ExportTypeOK, Export!Files,
     Export!Ended
<1>17. CASE Export!UndoesPath(x)
  BY <1>17 DEF Export!UndoesPath, Export!Goes, Export!BackupIsRight,
     Export!PathIsOwn, Export!ExportTypeOK, Export!Files, Export!Ended
<1>18. CASE Export!RestoresBackup(x)
  BY <1>18 DEF Export!RestoresBackup, Export!Goes, Export!ExportTypeOK,
     Export!Files, Export!Ended
<1>19. CASE Export!DoesNotUndo(x)
  BY <1>19 DEF Export!DoesNotUndo, Export!Goes, Export!BackupIsRight,
     Export!PathIsOwn, Export!ExportTypeOK, Export!Files, Export!Ended
<1>20. CASE Export!Tidies(x)
  BY <1>20 DEF Export!Tidies, Export!Goes, Export!ExportTypeOK, Export!Files,
     Export!Ended
<1>21. CASE Export!Killed(x)
  BY <1>21 DEF Export!Killed, Export!Ended, Export!ExportTypeOK, Export!Files
<1> QED
  BY <1>1, <1>2, <1>3, <1>4, <1>5, <1>6, <1>7, <1>8, <1>9, <1>10, <1>11, <1>12,
     <1>13, <1>14, <1>15, <1>16, <1>17, <1>18, <1>19, <1>20, <1>21 DEF ExportStep

LEMMA OwnNamesKept ==
    ASSUME Export!ExportAssumption, Export!ExportTypeOK, NEW x \in Exports, ExportStep(x),
           NEW z \in Exports, OwnNames(x), OwnNames(z), NotOutYet(x), NotOutYet(z)
    PROVE  OwnNames(z)'
<1>1. CASE Export!Looks(x)
  BY <1>1 DEF Export!Looks, Export!Goes, Export!ExportTypeOK, Export!Files,
     Export!Ended, OwnNames, NotOutYet, Export!ExportAssumption
<1>2. CASE Export!Stages(x)
  BY <1>2 DEF Export!Stages, Export!Goes, Export!ExportTypeOK, Export!Files,
     Export!Ended, OwnNames, NotOutYet, Export!ExportAssumption
<1>3. CASE Export!Checks(x)
  BY <1>3 DEF Export!Checks, Export!Goes, Export!ExportTypeOK, Export!Files,
     Export!Ended, OwnNames, NotOutYet, Export!ExportAssumption
<1>4. CASE Export!LinksBackup(x)
  BY <1>4 DEF Export!LinksBackup, Export!Goes, Export!ExportTypeOK, Export!Files,
     Export!Ended, OwnNames, NotOutYet, Export!ExportAssumption
<1>5. CASE Export!Compares(x)
  BY <1>5 DEF Export!Compares, Export!Goes, Export!ExportTypeOK, Export!Files,
     Export!Ended, OwnNames, NotOutYet, Export!ExportAssumption
<1>6. CASE Export!LinkIsWrong(x)
  BY <1>6 DEF Export!LinkIsWrong, Export!Goes, Export!ExportTypeOK, Export!Files,
     Export!Ended, OwnNames, NotOutYet, Export!ExportAssumption
<1>7. CASE Export!Exchanges(x)
  BY <1>7 DEF Export!Exchanges, Export!Goes, Export!ExportTypeOK, Export!Files,
     Export!Ended, OwnNames, NotOutYet, Export!ExportAssumption
<1>8. CASE Export!Places(x)
  BY <1>8 DEF Export!Places, Export!Goes, Export!ExportTypeOK, Export!Files,
     Export!Ended, OwnNames, NotOutYet, Export!ExportAssumption
<1>9. CASE Export!ReplacedIsRight(x)
  BY <1>9 DEF Export!ReplacedIsRight, Export!Own, Export!Goes,
     Export!ExportTypeOK, Export!Files, Export!Ended, OwnNames, NotOutYet,
     Export!ExportAssumption
<1>10. CASE Export!ReplacedIsWrong(x)
  BY <1>10 DEF Export!ReplacedIsWrong, Export!Own, Export!Goes,
     Export!ExportTypeOK, Export!Files, Export!Ended, OwnNames, NotOutYet,
     Export!ExportAssumption
<1>11. CASE Export!ReturnsIt(x)
  BY <1>11 DEF Export!ReturnsIt, Export!Goes, Export!ExportTypeOK, Export!Files,
     Export!Ended, OwnNames, NotOutYet, Export!ExportAssumption
<1>12. CASE Export!RemovesReplaced(x)
  BY <1>12 DEF Export!RemovesReplaced, Export!Goes, Export!ExportTypeOK,
     Export!Files, Export!Ended, OwnNames, NotOutYet, Export!ExportAssumption
<1>13. CASE Export!Commits(x)
  BY <1>13 DEF Export!Commits, Export!Own, Export!Goes, Export!ExportTypeOK,
     Export!Files, Export!Ended, OwnNames, NotOutYet, Export!ExportAssumption
<1>14. CASE Export!Cleans(x)
  BY <1>14 DEF Export!Cleans, Export!Goes, Export!ExportTypeOK, Export!Files,
     Export!Ended, OwnNames, NotOutYet, Export!ExportAssumption
<1>15. CASE Export!Fails(x)
  BY <1>15 DEF Export!Fails, Export!ExportTypeOK, Export!Files, Export!Ended,
     OwnNames, NotOutYet, Export!ExportAssumption
<1>16. CASE Export!Refused(x)
  BY <1>16 DEF Export!Refused, Export!Goes, Export!ExportTypeOK, Export!Files,
     Export!Ended, OwnNames, NotOutYet, Export!ExportAssumption
<1>17. CASE Export!UndoesPath(x)
  BY <1>17 DEF Export!UndoesPath, Export!Goes, Export!BackupIsRight,
     Export!PathIsOwn, Export!ExportTypeOK, Export!Files, Export!Ended, OwnNames,
     NotOutYet, Export!ExportAssumption
<1>18. CASE Export!RestoresBackup(x)
  BY <1>18 DEF Export!RestoresBackup, Export!Goes, Export!ExportTypeOK,
     Export!Files, Export!Ended, OwnNames, NotOutYet, Export!ExportAssumption
<1>19. CASE Export!DoesNotUndo(x)
  BY <1>19 DEF Export!DoesNotUndo, Export!Goes, Export!BackupIsRight,
     Export!PathIsOwn, Export!ExportTypeOK, Export!Files, Export!Ended, OwnNames,
     NotOutYet, Export!ExportAssumption
<1>20. CASE Export!Tidies(x)
  BY <1>20 DEF Export!Tidies, Export!Goes, Export!ExportTypeOK, Export!Files,
     Export!Ended, OwnNames, NotOutYet, Export!ExportAssumption
<1>21. CASE Export!Killed(x)
  BY <1>21 DEF Export!Killed, Export!Ended, Export!ExportTypeOK, Export!Files,
     OwnNames, NotOutYet, Export!ExportAssumption
<1> QED
  BY <1>1, <1>2, <1>3, <1>4, <1>5, <1>6, <1>7, <1>8, <1>9, <1>10, <1>11, <1>12,
     <1>13, <1>14, <1>15, <1>16, <1>17, <1>18, <1>19, <1>20, <1>21 DEF ExportStep

LEMMA StillNotOut ==
    ASSUME Export!ExportAssumption, Export!ExportTypeOK, NEW x \in Exports, ExportStep(x),
           NEW z \in Exports, OwnNames(x), OwnNames(z), NotOutYet(x), NotOutYet(z)
    PROVE  NotOutYet(z)'
<1>1. CASE Export!Looks(x)
  BY <1>1 DEF Export!Looks, Export!Goes, Export!ExportTypeOK, Export!Files,
     Export!Ended, OwnNames, NotOutYet, Export!ExportAssumption
<1>2. CASE Export!Stages(x)
  BY <1>2 DEF Export!Stages, Export!Goes, Export!ExportTypeOK, Export!Files,
     Export!Ended, OwnNames, NotOutYet, Export!ExportAssumption
<1>3. CASE Export!Checks(x)
  BY <1>3 DEF Export!Checks, Export!Goes, Export!ExportTypeOK, Export!Files,
     Export!Ended, OwnNames, NotOutYet, Export!ExportAssumption
<1>4. CASE Export!LinksBackup(x)
  BY <1>4 DEF Export!LinksBackup, Export!Goes, Export!ExportTypeOK, Export!Files,
     Export!Ended, OwnNames, NotOutYet, Export!ExportAssumption
<1>5. CASE Export!Compares(x)
  BY <1>5 DEF Export!Compares, Export!Goes, Export!ExportTypeOK, Export!Files,
     Export!Ended, OwnNames, NotOutYet, Export!ExportAssumption
<1>6. CASE Export!LinkIsWrong(x)
  BY <1>6 DEF Export!LinkIsWrong, Export!Goes, Export!ExportTypeOK, Export!Files,
     Export!Ended, OwnNames, NotOutYet, Export!ExportAssumption
<1>7. CASE Export!Exchanges(x)
  BY <1>7 DEF Export!Exchanges, Export!Goes, Export!ExportTypeOK, Export!Files,
     Export!Ended, OwnNames, NotOutYet, Export!ExportAssumption
<1>8. CASE Export!Places(x)
  BY <1>8 DEF Export!Places, Export!Goes, Export!ExportTypeOK, Export!Files,
     Export!Ended, OwnNames, NotOutYet, Export!ExportAssumption
<1>9. CASE Export!ReplacedIsRight(x)
  BY <1>9 DEF Export!ReplacedIsRight, Export!Own, Export!Goes,
     Export!ExportTypeOK, Export!Files, Export!Ended, OwnNames, NotOutYet,
     Export!ExportAssumption
<1>10. CASE Export!ReplacedIsWrong(x)
  BY <1>10 DEF Export!ReplacedIsWrong, Export!Own, Export!Goes,
     Export!ExportTypeOK, Export!Files, Export!Ended, OwnNames, NotOutYet,
     Export!ExportAssumption
<1>11. CASE Export!ReturnsIt(x)
  BY <1>11 DEF Export!ReturnsIt, Export!Goes, Export!ExportTypeOK, Export!Files,
     Export!Ended, OwnNames, NotOutYet, Export!ExportAssumption
<1>12. CASE Export!RemovesReplaced(x)
  BY <1>12 DEF Export!RemovesReplaced, Export!Goes, Export!ExportTypeOK,
     Export!Files, Export!Ended, OwnNames, NotOutYet, Export!ExportAssumption
<1>13. CASE Export!Commits(x)
  BY <1>13 DEF Export!Commits, Export!Own, Export!Goes, Export!ExportTypeOK,
     Export!Files, Export!Ended, OwnNames, NotOutYet, Export!ExportAssumption
<1>14. CASE Export!Cleans(x)
  BY <1>14 DEF Export!Cleans, Export!Goes, Export!ExportTypeOK, Export!Files,
     Export!Ended, OwnNames, NotOutYet, Export!ExportAssumption
<1>15. CASE Export!Fails(x)
  BY <1>15 DEF Export!Fails, Export!ExportTypeOK, Export!Files, Export!Ended,
     OwnNames, NotOutYet, Export!ExportAssumption
<1>16. CASE Export!Refused(x)
  BY <1>16 DEF Export!Refused, Export!Goes, Export!ExportTypeOK, Export!Files,
     Export!Ended, OwnNames, NotOutYet, Export!ExportAssumption
<1>17. CASE Export!UndoesPath(x)
  BY <1>17 DEF Export!UndoesPath, Export!Goes, Export!BackupIsRight,
     Export!PathIsOwn, Export!ExportTypeOK, Export!Files, Export!Ended, OwnNames,
     NotOutYet, Export!ExportAssumption
<1>18. CASE Export!RestoresBackup(x)
  BY <1>18 DEF Export!RestoresBackup, Export!Goes, Export!ExportTypeOK,
     Export!Files, Export!Ended, OwnNames, NotOutYet, Export!ExportAssumption
<1>19. CASE Export!DoesNotUndo(x)
  BY <1>19 DEF Export!DoesNotUndo, Export!Goes, Export!BackupIsRight,
     Export!PathIsOwn, Export!ExportTypeOK, Export!Files, Export!Ended, OwnNames,
     NotOutYet, Export!ExportAssumption
<1>20. CASE Export!Tidies(x)
  BY <1>20 DEF Export!Tidies, Export!Goes, Export!ExportTypeOK, Export!Files,
     Export!Ended, OwnNames, NotOutYet, Export!ExportAssumption
<1>21. CASE Export!Killed(x)
  BY <1>21 DEF Export!Killed, Export!Ended, Export!ExportTypeOK, Export!Files,
     OwnNames, NotOutYet, Export!ExportAssumption
<1> QED
  BY <1>1, <1>2, <1>3, <1>4, <1>5, <1>6, <1>7, <1>8, <1>9, <1>10, <1>11, <1>12,
     <1>13, <1>14, <1>15, <1>16, <1>17, <1>18, <1>19, <1>20, <1>21 DEF ExportStep

LEMMA SafeNamesStay ==
    ASSUME Export!ExportTypeOK, NEW x \in Exports, ExportStep(x), ~Export!Cleans(x), OwnNames(x),
           NEW y \in Exports, NEW f \in Export!Files \ {x}, f # Nothing, path = f \/ SafeName(f, y)
    PROVE  path' = f \/ SafeName(f, y)' \/ SafeName(f, x)'
<1>1. CASE Export!Looks(x)
  BY <1>1 DEF Export!Looks, Export!Goes, Export!ExportTypeOK, Export!Files,
     Export!Ended, OwnNames, SafeName
<1>2. CASE Export!Stages(x)
  BY <1>2 DEF Export!Stages, Export!Goes, Export!ExportTypeOK, Export!Files,
     Export!Ended, OwnNames, SafeName
<1>3. CASE Export!Checks(x)
  BY <1>3 DEF Export!Checks, Export!Goes, Export!ExportTypeOK, Export!Files,
     Export!Ended, OwnNames, SafeName
<1>4. CASE Export!LinksBackup(x)
  BY <1>4 DEF Export!LinksBackup, Export!Goes, Export!ExportTypeOK, Export!Files,
     Export!Ended, OwnNames, SafeName
<1>5. CASE Export!Compares(x)
  BY <1>5 DEF Export!Compares, Export!Goes, Export!ExportTypeOK, Export!Files,
     Export!Ended, OwnNames, SafeName
<1>6. CASE Export!LinkIsWrong(x)
  BY <1>6 DEF Export!LinkIsWrong, Export!Goes, Export!ExportTypeOK, Export!Files,
     Export!Ended, OwnNames, SafeName
<1>7. CASE Export!Exchanges(x)
  BY <1>7 DEF Export!Exchanges, Export!Goes, Export!ExportTypeOK, Export!Files,
     Export!Ended, OwnNames, SafeName
<1>8. CASE Export!Places(x)
  BY <1>8 DEF Export!Places, Export!Goes, Export!ExportTypeOK, Export!Files,
     Export!Ended, OwnNames, SafeName
<1>9. CASE Export!ReplacedIsRight(x)
  BY <1>9 DEF Export!ReplacedIsRight, Export!Own, Export!Goes,
     Export!ExportTypeOK, Export!Files, Export!Ended, OwnNames, SafeName
<1>10. CASE Export!ReplacedIsWrong(x)
  BY <1>10 DEF Export!ReplacedIsWrong, Export!Own, Export!Goes,
     Export!ExportTypeOK, Export!Files, Export!Ended, OwnNames, SafeName
<1>11. CASE Export!ReturnsIt(x)
  BY <1>11 DEF Export!ReturnsIt, Export!Goes, Export!ExportTypeOK, Export!Files,
     Export!Ended, OwnNames, SafeName
<1>12. CASE Export!RemovesReplaced(x)
  BY <1>12 DEF Export!RemovesReplaced, Export!Goes, Export!ExportTypeOK,
     Export!Files, Export!Ended, OwnNames, SafeName
<1>13. CASE Export!Commits(x)
  BY <1>13 DEF Export!Commits, Export!Own, Export!Goes, Export!ExportTypeOK,
     Export!Files, Export!Ended, OwnNames, SafeName
<1>14. CASE Export!Cleans(x)
  BY <1>14
<1>15. CASE Export!Fails(x)
  BY <1>15 DEF Export!Fails, Export!ExportTypeOK, Export!Files, Export!Ended,
     OwnNames, SafeName
<1>16. CASE Export!Refused(x)
  BY <1>16 DEF Export!Refused, Export!Goes, Export!ExportTypeOK, Export!Files,
     Export!Ended, OwnNames, SafeName
<1>17. CASE Export!UndoesPath(x)
  BY <1>17 DEF Export!UndoesPath, Export!Goes, Export!BackupIsRight,
     Export!PathIsOwn, Export!ExportTypeOK, Export!Files, Export!Ended, OwnNames,
     SafeName, Export!Own
<1>18. CASE Export!RestoresBackup(x)
  BY <1>18 DEF Export!RestoresBackup, Export!Goes, Export!ExportTypeOK,
     Export!Files, Export!Ended, OwnNames, SafeName
<1>19. CASE Export!DoesNotUndo(x)
  BY <1>19 DEF Export!DoesNotUndo, Export!Goes, Export!BackupIsRight,
     Export!PathIsOwn, Export!ExportTypeOK, Export!Files, Export!Ended, OwnNames,
     SafeName
<1>20. CASE Export!Tidies(x)
  BY <1>20 DEF Export!Tidies, Export!Goes, Export!ExportTypeOK, Export!Files,
     Export!Ended, OwnNames, SafeName
<1>21. CASE Export!Killed(x)
  BY <1>21 DEF Export!Killed, Export!Ended, Export!ExportTypeOK, Export!Files,
     OwnNames, SafeName
<1> QED
  BY <1>1, <1>2, <1>3, <1>4, <1>5, <1>6, <1>7, <1>8, <1>9, <1>10, <1>11, <1>12,
     <1>13, <1>14, <1>15, <1>16, <1>17, <1>18, <1>19, <1>20, <1>21 DEF ExportStep

LEMMA HasNameStays ==
    ASSUME Export!ExportTypeOK, NEW x \in Exports, ExportStep(x), ~Export!Cleans(x), OwnNames(x),
           NEW f \in Export!Files \ {x}, f # Nothing, HasName(f)
    PROVE  HasName(f)'
<1>1. PICK y \in Exports : path = f \/ SafeName(f, y)
  BY DEF HasName
<1>2. path' = f \/ SafeName(f, y)' \/ SafeName(f, x)'
  BY <1>1, SafeNamesStay
<1> QED
  BY <1>2 DEF HasName

(* Who has seen the old file, when the others have succeeded.              *)
LEMMA LaterSteps ==
    ASSUME Export!ExportTypeOK, NEW x \in Exports, ExportStep(x)
    PROVE  /\ \A y \in Exports \ {x} : exportAt[y]' = exportAt[y] /\ existing[y]' = existing[y]
           /\ exportAt[x] \notin Export!Ended
           /\ exportAt'[x] = "cleans" => path' = x
           /\ existing'[x] = Old => existing[x] = Old \/ path' = Old
<1>1. CASE Export!Looks(x)
  BY <1>1 DEF Export!Looks, Export!Goes, Export!ExportTypeOK, Export!Files,
     Export!Ended
<1>2. CASE Export!Stages(x)
  BY <1>2 DEF Export!Stages, Export!Goes, Export!ExportTypeOK, Export!Files,
     Export!Ended
<1>3. CASE Export!Checks(x)
  BY <1>3 DEF Export!Checks, Export!Goes, Export!ExportTypeOK, Export!Files,
     Export!Ended
<1>4. CASE Export!LinksBackup(x)
  BY <1>4 DEF Export!LinksBackup, Export!Goes, Export!ExportTypeOK, Export!Files,
     Export!Ended
<1>5. CASE Export!Compares(x)
  BY <1>5 DEF Export!Compares, Export!Goes, Export!ExportTypeOK, Export!Files,
     Export!Ended
<1>6. CASE Export!LinkIsWrong(x)
  BY <1>6 DEF Export!LinkIsWrong, Export!Goes, Export!ExportTypeOK, Export!Files,
     Export!Ended
<1>7. CASE Export!Exchanges(x)
  BY <1>7 DEF Export!Exchanges, Export!Goes, Export!ExportTypeOK, Export!Files,
     Export!Ended
<1>8. CASE Export!Places(x)
  BY <1>8 DEF Export!Places, Export!Goes, Export!ExportTypeOK, Export!Files,
     Export!Ended
<1>9. CASE Export!ReplacedIsRight(x)
  BY <1>9 DEF Export!ReplacedIsRight, Export!Own, Export!Goes,
     Export!ExportTypeOK, Export!Files, Export!Ended
<1>10. CASE Export!ReplacedIsWrong(x)
  BY <1>10 DEF Export!ReplacedIsWrong, Export!Own, Export!Goes,
     Export!ExportTypeOK, Export!Files, Export!Ended
<1>11. CASE Export!ReturnsIt(x)
  BY <1>11 DEF Export!ReturnsIt, Export!Goes, Export!ExportTypeOK, Export!Files,
     Export!Ended
<1>12. CASE Export!RemovesReplaced(x)
  BY <1>12 DEF Export!RemovesReplaced, Export!Goes, Export!ExportTypeOK,
     Export!Files, Export!Ended
<1>13. CASE Export!Commits(x)
  BY <1>13 DEF Export!Commits, Export!Own, Export!Goes, Export!ExportTypeOK,
     Export!Files, Export!Ended
<1>14. CASE Export!Cleans(x)
  BY <1>14 DEF Export!Cleans, Export!Goes, Export!ExportTypeOK, Export!Files,
     Export!Ended
<1>15. CASE Export!Fails(x)
  BY <1>15 DEF Export!Fails, Export!ExportTypeOK, Export!Files, Export!Ended
<1>16. CASE Export!Refused(x)
  BY <1>16 DEF Export!Refused, Export!Goes, Export!ExportTypeOK, Export!Files,
     Export!Ended
<1>17. CASE Export!UndoesPath(x)
  BY <1>17 DEF Export!UndoesPath, Export!Goes, Export!BackupIsRight,
     Export!PathIsOwn, Export!ExportTypeOK, Export!Files, Export!Ended
<1>18. CASE Export!RestoresBackup(x)
  BY <1>18 DEF Export!RestoresBackup, Export!Goes, Export!ExportTypeOK,
     Export!Files, Export!Ended
<1>19. CASE Export!DoesNotUndo(x)
  BY <1>19 DEF Export!DoesNotUndo, Export!Goes, Export!BackupIsRight,
     Export!PathIsOwn, Export!ExportTypeOK, Export!Files, Export!Ended
<1>20. CASE Export!Tidies(x)
  BY <1>20 DEF Export!Tidies, Export!Goes, Export!ExportTypeOK, Export!Files,
     Export!Ended
<1>21. CASE Export!Killed(x)
  BY <1>21 DEF Export!Killed, Export!Ended, Export!ExportTypeOK, Export!Files
<1> QED
  BY <1>1, <1>2, <1>3, <1>4, <1>5, <1>6, <1>7, <1>8, <1>9, <1>10, <1>11, <1>12,
     <1>13, <1>14, <1>15, <1>16, <1>17, <1>18, <1>19, <1>20, <1>21 DEF ExportStep
(* An export succeeds when it has cleaned up.                              *)
LEMMA CleanedSucceeds ==
    ASSUME Export!ExportTypeOK, NEW x \in Exports, Export!Cleans(x)
    PROVE  exportAt'[x] = "succeeded"
  BY DEF Export!Cleans, Export!Goes, Export!ExportTypeOK

LEMMA OthersDoNotSucceed ==
    ASSUME Export!ExportTypeOK, NEW x \in Exports, ExportStep(x), ~Export!Cleans(x)
    PROVE  exportAt'[x] # "succeeded"
<1>1. CASE Export!Looks(x)
  BY <1>1 DEF Export!Looks, Export!Goes, Export!ExportTypeOK, Export!Files,
     Export!Ended
<1>2. CASE Export!Stages(x)
  BY <1>2 DEF Export!Stages, Export!Goes, Export!ExportTypeOK, Export!Files,
     Export!Ended
<1>3. CASE Export!Checks(x)
  BY <1>3 DEF Export!Checks, Export!Goes, Export!ExportTypeOK, Export!Files,
     Export!Ended
<1>4. CASE Export!LinksBackup(x)
  BY <1>4 DEF Export!LinksBackup, Export!Goes, Export!ExportTypeOK, Export!Files,
     Export!Ended
<1>5. CASE Export!Compares(x)
  BY <1>5 DEF Export!Compares, Export!Goes, Export!ExportTypeOK, Export!Files,
     Export!Ended
<1>6. CASE Export!LinkIsWrong(x)
  BY <1>6 DEF Export!LinkIsWrong, Export!Goes, Export!ExportTypeOK, Export!Files,
     Export!Ended
<1>7. CASE Export!Exchanges(x)
  BY <1>7 DEF Export!Exchanges, Export!Goes, Export!ExportTypeOK, Export!Files,
     Export!Ended
<1>8. CASE Export!Places(x)
  BY <1>8 DEF Export!Places, Export!Goes, Export!ExportTypeOK, Export!Files,
     Export!Ended
<1>9. CASE Export!ReplacedIsRight(x)
  BY <1>9 DEF Export!ReplacedIsRight, Export!Own, Export!Goes,
     Export!ExportTypeOK, Export!Files, Export!Ended
<1>10. CASE Export!ReplacedIsWrong(x)
  BY <1>10 DEF Export!ReplacedIsWrong, Export!Own, Export!Goes,
     Export!ExportTypeOK, Export!Files, Export!Ended
<1>11. CASE Export!ReturnsIt(x)
  BY <1>11 DEF Export!ReturnsIt, Export!Goes, Export!ExportTypeOK, Export!Files,
     Export!Ended
<1>12. CASE Export!RemovesReplaced(x)
  BY <1>12 DEF Export!RemovesReplaced, Export!Goes, Export!ExportTypeOK,
     Export!Files, Export!Ended
<1>13. CASE Export!Commits(x)
  BY <1>13 DEF Export!Commits, Export!Own, Export!Goes, Export!ExportTypeOK,
     Export!Files, Export!Ended
<1>14. CASE Export!Cleans(x)
  BY <1>14
<1>15. CASE Export!Fails(x)
  BY <1>15 DEF Export!Fails, Export!ExportTypeOK, Export!Files, Export!Ended
<1>16. CASE Export!Refused(x)
  BY <1>16 DEF Export!Refused, Export!Goes, Export!ExportTypeOK, Export!Files,
     Export!Ended
<1>17. CASE Export!UndoesPath(x)
  BY <1>17 DEF Export!UndoesPath, Export!Goes, Export!BackupIsRight,
     Export!PathIsOwn, Export!ExportTypeOK, Export!Files, Export!Ended
<1>18. CASE Export!RestoresBackup(x)
  BY <1>18 DEF Export!RestoresBackup, Export!Goes, Export!ExportTypeOK,
     Export!Files, Export!Ended
<1>19. CASE Export!DoesNotUndo(x)
  BY <1>19 DEF Export!DoesNotUndo, Export!Goes, Export!BackupIsRight,
     Export!PathIsOwn, Export!ExportTypeOK, Export!Files, Export!Ended
<1>20. CASE Export!Tidies(x)
  BY <1>20 DEF Export!Tidies, Export!Goes, Export!ExportTypeOK, Export!Files,
     Export!Ended
<1>21. CASE Export!Killed(x)
  BY <1>21 DEF Export!Killed, Export!Ended, Export!ExportTypeOK, Export!Files
<1> QED
  BY <1>1, <1>2, <1>3, <1>4, <1>5, <1>6, <1>7, <1>8, <1>9, <1>10, <1>11, <1>12,
     <1>13, <1>14, <1>15, <1>16, <1>17, <1>18, <1>19, <1>20, <1>21 DEF ExportStep

LEMMA OldKeepsName ==
    ASSUME Export!ExportAssumption, ExportInv, NEW x \in Exports, ExportStep(x)
    PROVE  OldHasName'
<1> SUFFICES ASSUME NEW y \in Exports, existing'[y] = Old, \A z \in Exports : exportAt'[z] # "succeeded"
             PROVE  HasName(Old)'
  BY DEF OldHasName
<1>1. ~Export!Cleans(x)
  BY CleanedSucceeds DEF ExportInv
<1>2. \A z \in Exports : exportAt[z] # "succeeded"
  BY LaterSteps DEF ExportInv, Export!Ended
<1>3. CASE existing[y] = Old
  <2>1. HasName(Old)
    BY <1>2, <1>3 DEF ExportInv, OldHasName
  <2> QED
    BY <1>1, <2>1, HasNameStays DEF ExportInv, Export!ExportAssumption, Export!Files
<1>4. CASE existing[y] # Old
  BY <1>4, LaterSteps DEF ExportInv, HasName
<1> QED
  BY <1>3, <1>4

LEMMA NewKeepsName ==
    ASSUME Export!ExportAssumption, ExportInv, NEW x \in Exports, ExportStep(x), NEW z \in Exports
    PROVE  NewHasName(z)'
<1> SUFFICES ASSUME exportAt'[z] \in {"cleans", "succeeded"}, \A y \in Exports \ {z} : exportAt'[y] # "succeeded"
             PROVE  HasName(z)'
  BY DEF NewHasName
<1>1. z # Nothing /\ z \in Export!Files
  BY DEF Export!ExportAssumption, Export!Files
<1>2. CASE z # x
  <2>1. ~Export!Cleans(x)
    BY <1>2, CleanedSucceeds DEF ExportInv
  <2>2. \A y \in Exports \ {z} : exportAt[y] # "succeeded"
    BY LaterSteps DEF ExportInv, Export!Ended
  <2>3. HasName(z)
    BY <1>2, <2>2, LaterSteps DEF ExportInv, NewHasName
  <2> QED
    BY <1>1, <1>2, <2>1, <2>3, HasNameStays DEF ExportInv
<1>3. CASE z = x /\ ~Export!Cleans(x)
  <2>1. path' = x
    BY <1>3, LaterSteps, OthersDoNotSucceed DEF ExportInv
  <2> QED
    BY <1>3, <2>1 DEF HasName
<1>4. CASE z = x /\ Export!Cleans(x)
  <2>1. /\ exportAt[x] = "cleans" /\ path' = path /\ exportStaged' = exportStaged
        /\ exportAt' = [exportAt EXCEPT ![x] = "succeeded"]
        /\ \A y \in Exports \ {x} : backup'[y] = backup[y]
    BY <1>4 DEF Export!Cleans, Export!Goes, ExportInv, Export!ExportTypeOK
  <2>2. \A y \in Exports \ {z} : exportAt[y] # "succeeded"
    BY LaterSteps DEF ExportInv, Export!Ended
  <2>3. HasName(x)
    BY <1>4, <2>1, <2>2 DEF ExportInv, NewHasName
  <2>4. CASE path = x
    BY <1>4, <2>1, <2>4 DEF HasName
  <2>5. ASSUME NEW y \in Exports, SafeName(x, y) PROVE HasName(x)'
    <3>1. SafeName(x, y)'
      BY <2>1, <2>5 DEF SafeName, ExportInv, OwnNames, Export!ExportTypeOK
    <3> QED
      BY <3>1 DEF HasName
  <2> QED
    BY <1>4, <2>3, <2>4, <2>5 DEF HasName
<1> QED
  BY <1>2, <1>3, <1>4

(* A name counts.                                                          *)
LEMMA NamesCount ==
    ASSUME Export!ExportAssumption, NEW f, HasName(f)
    PROVE  Export!Links(f) > 0
<1> DEFINE Staged == {y \in Exports : exportStaged[y] = f}
           Backups == {y \in Exports : backup[y] = f}
<1>1. IsFiniteSet(Staged) /\ IsFiniteSet(Backups)
  <2>1. Staged \subseteq Exports /\ Backups \subseteq Exports /\ IsFiniteSet(Exports)
    BY Zenon DEF Export!ExportAssumption, Export!IsFiniteSet, IsFiniteSet
  <2> QED
    BY <2>1, FS_Subset
<1>2. /\ Cardinality(Staged) \in Nat /\ Cardinality(Backups) \in Nat
      /\ Cardinality(Staged) = 0 <=> Staged = {}
      /\ Cardinality(Backups) = 0 <=> Backups = {}
  BY <1>1, FS_CardinalityType, FS_EmptySet
<1>3. path = f \/ Staged # {} \/ Backups # {}
  BY DEF HasName, SafeName
<1>4. Export!Links(f) = (IF path = f THEN 1 ELSE 0) + Cardinality(Staged) + Cardinality(Backups)
  BY Zenon DEF Export!Links, Export!Cardinality, Cardinality, Export!IsFiniteSet, IsFiniteSet
<1> HIDE DEF Staged, Backups
<1> QED
  BY <1>2, <1>3, <1>4

THEOREM ExportInvariant == Export!ExportSpec => []ExportInv
<1>0. Export!ExportAssumption
  BY FilesConstants DEF FilesConstants
<1>1. Export!ExportInit => ExportInv
  <2> SUFFICES ASSUME Export!ExportInit PROVE ExportInv
    OBVIOUS
  <2>1. Export!ExportTypeOK
    BY DEF Export!ExportInit, Export!ExportTypeOK, Export!Files, Export!Ended
  <2>2. /\ \A x \in Exports : /\ exportAt[x] = "idle" /\ exportStaged[x] = Nothing
                              /\ backup[x] = Nothing /\ existing[x] = Nothing
        /\ path \in {Old, Nothing}
    BY DEF Export!ExportInit
  <2>3. ASSUME NEW x \in Exports PROVE OwnNames(x) /\ NotOutYet(x) /\ NewHasName(x)
    BY <1>0, <2>2 DEF OwnNames, NotOutYet, NewHasName, Export!ExportAssumption
  <2>4. OldHasName
    BY <1>0, <2>2 DEF OldHasName, Export!ExportAssumption
  <2> QED
    BY <2>1, <2>3, <2>4 DEF ExportInv
<1>2. ASSUME ExportInv, Export!ExportNext PROVE ExportInv'
  <2>1. PICK x \in Exports : ExportStep(x)
    BY <1>2 DEF Export!ExportNext, ExportStep
  <2>2. Export!ExportTypeOK'
    BY <1>2, <2>1, ExportTypeKept DEF ExportInv
  <2>3. ASSUME NEW z \in Exports PROVE (OwnNames(z) /\ NotOutYet(z) /\ NewHasName(z))'
    BY <1>0, <1>2, <2>1, OwnNamesKept, StillNotOut, NewKeepsName DEF ExportInv
  <2>4. OldHasName'
    BY <1>0, <1>2, <2>1, OldKeepsName
  <2> QED
    BY <2>2, <2>3, <2>4 DEF ExportInv
<1>3. ExportInv /\ UNCHANGED Export!exportVars => ExportInv'
  BY DEF Export!exportVars, ExportInv, Export!ExportTypeOK, OwnNames, NotOutYet, NewHasName, OldHasName, HasName,
     SafeName
<1> QED
  BY <1>1, <1>2, <1>3, PTL DEF Export!ExportSpec

(* settings_export.py - for any number of exports at once, whatever fails  *)
(* and whoever is killed: the old file has a name until one of them has    *)
(* committed, and the file of the last that succeeded has one as well.     *)
THEOREM ExportsStayKept == Export!ExportSpec => []Export!ExportsAreKept
<1>0. Export!ExportAssumption
  BY FilesConstants DEF FilesConstants
<1>1. ExportInv => Export!ExportsAreKept
  <2> SUFFICES ASSUME ExportInv PROVE Export!ExportsAreKept
    OBVIOUS
  <2>1. ASSUME Export!Committed = {}, NEW x \in Exports, existing[x] = Old PROVE Export!Links(Old) > 0
    <3>1. HasName(Old)
      BY <2>1 DEF ExportInv, OldHasName, Export!Committed
    <3> QED
      BY <1>0, <3>1, NamesCount
  <2>2. ASSUME NEW x \in Exports, exportAt[x] = "succeeded",
               \A y \in Exports \ {x} : exportAt[y] \notin {"cleans", "succeeded"}
        PROVE  Export!Links(x) > 0
    <3>1. HasName(x)
      BY <2>2 DEF ExportInv, NewHasName
    <3> QED
      BY <1>0, <3>1, NamesCount
  <2> QED
    BY <2>1, <2>2 DEF Export!ExportsAreKept
<1> QED
  BY <1>1, ExportInvariant, PTL

-----------------------------------------------------------------------------
(* Cleanup.  What is in progress is the newest recording, so its group and *)
(* that of its trimmed audio, three files, are the first to be kept.       *)
InProgressIsNewest ==
    /\ status = "recording" => named = newest /\ newest > 0 /\ pruneText = Prune!None
    /\ status = "finalizing" => (named = newest /\ newest > 0) \/ (named = Prune!None /\ pruneText # Prune!None)
    /\ pruneDoing \in {"starting", "created"} => status \in {"idle", "done", "error"}
    /\ pruneDoing = "starting" => newest < MaxRecordings
    /\ pruneDoing = "created" => newest > 0
    /\ pruneDoing = "stopping" => status = "recording"
    /\ pruneDoing \in {"finalizing", "trimmed", "written", "tidied"} =>
           status = "finalizing" /\ pruneText = Prune!None
    /\ pruneDoing = "retrying" => status = "finalizing" /\ pruneText # Prune!None
    /\ pruneDoing = "failed" => status \in {"finalizing", "error"}
    /\ holder # "lifecycle" => pruneDoing = "nothing"

\* What is listed is of one directory, and nothing is of a later recording.
ListsOneDirectory ==
    /\ \A f \in pruneFiles \cup listed : f[2] <= newest
    /\ pruneAt = "prunes_texts" => \A f \in listed : f[1] = "text"
    /\ pruneAt = "prunes_recordings" => \A f \in listed : f[1] # "text"

SeenTextIsSpared == \A f \in saw : f[1] = "text" => f \in pruneActive

PruneOrder ==
    /\ Prune!CleanupTypeOK /\ InProgressIsNewest /\ ListsOneDirectory /\ SeenTextIsSpared

PruneInv == PruneOrder /\ Prune!NeededIsKept

(* A set of natural numbers has a least element.                           *)
LEMMA Least ==
    ASSUME NEW T, T \subseteq Nat, T # {}
    PROVE  \E m \in T : \A k \in T : m <= k
<1> DEFINE R == {ss \in Nat \X Nat : ss[1] < ss[2]}
<1>1. IsWellFoundedOn(R, Nat)
  BY NatLessThanWellFounded DEF OpToRel
<1>2. PICK m \in T : \A k \in T : <<k, m>> \notin R
  BY <1>1, WFMin
<1>3. ASSUME NEW k \in T PROVE m <= k
  <2>1. k \in Nat /\ m \in Nat
    OBVIOUS
  <2>2. <<k, m>> \in Nat \X Nat
    BY <2>1
  <2>3. ~(k < m)
    BY <1>2, <2>2
  <2> QED
    BY <2>1, <2>3
<1> QED
  BY <1>3

(* How many files of group i and younger ones are kept, when f says how    *)
(* many of the younger ones are.                                           *)
KeptBy(f, i, youngest) ==
    LET above == IF i = 2 * MaxRecordings + 2 THEN 0 ELSE f[i + 1]
    IN  IF /\ Prune!Group(i) \cap pruneActive = {} /\ i >= youngest
           /\ above + Prune!Cardinality(Prune!Group(i)) <= KeepRecordings
        THEN above + Prune!Cardinality(Prune!Group(i))
        ELSE above

(* The recursion over the groups defines a function: if it did not from    *)
(* some group on, there would be a last such group, and one more step of   *)
(* it could be done.                                                       *)
LEMMA KeptIsDefined ==
    ASSUME Prune!CleanupAssumption, NEW youngest
    PROVE  Prune!KeptFrom(youngest) =
               [i \in 2..(2 * MaxRecordings + 2) |-> KeptBy(Prune!KeptFrom(youngest), i, youngest)]
<1> DEFINE top == 2 * MaxRecordings + 2
           From(h, n) == h = [i \in (top - n)..top |-> KeptBy(h, i, youngest)]
           T == {n \in Nat : n <= top - 2 /\ ~ \E h : From(h, n)}
<1>0. top \in Nat /\ top >= 2
  BY DEF Prune!CleanupAssumption
<1>1. T = {}
  <2> SUFFICES ASSUME T # {} PROVE FALSE
    OBVIOUS
  <2>1. PICK m \in T : \A k \in T : m <= k
    BY Least
  <2>2. m \in Nat /\ m <= top - 2 /\ ~ \E h : From(h, m)
    OBVIOUS
  <2>3. CASE m = 0
    <3> DEFINE h == [i \in (top - m)..top |-> KeptBy(0, i, youngest)]
    <3>1. \A i \in (top - m)..top : i = top
      BY <1>0, <2>3
    <3>2. \A i \in (top - m)..top : KeptBy(h, i, youngest) = KeptBy(0, i, youngest)
      BY <3>1 DEF KeptBy
    <3>3. From(h, m)
      BY <3>2
    <3> QED
      BY <2>2, <3>3
  <2>4. CASE m # 0
    <3>1. m - 1 \in Nat /\ m - 1 <= top - 2 /\ m - 1 \notin T
      BY <1>0, <2>1, <2>2, <2>4
    <3>2. PICK g : From(g, m - 1)
      BY <3>1
    <3> DEFINE h == [i \in (top - m)..top |-> IF i = top - m THEN KeptBy(g, i, youngest) ELSE g[i]]
    <3>3. ASSUME NEW i \in (top - m)..top
          PROVE  h[i] = KeptBy(h, i, youngest)
      <4>1. KeptBy(h, i, youngest) = KeptBy(g, i, youngest)
        <5>1. CASE i = top
          BY <5>1 DEF KeptBy
        <5>2. CASE i # top
          <6>1. i + 1 \in (top - m)..top /\ i + 1 # top - m
            BY <1>0, <2>2, <5>2
          <6>2. h[i + 1] = g[i + 1]
            BY <6>1
          <6> QED
            BY <6>2 DEF KeptBy
        <5> QED
          BY <5>1, <5>2
      <4>2. CASE i = top - m
        BY <4>1, <4>2
      <4>3. CASE i # top - m
        <5>1. i \in (top - (m - 1))..top
          BY <1>0, <2>2, <4>3
        <5>2. g[i] = KeptBy(g, i, youngest)
          BY <3>2, <5>1
        <5> QED
          BY <4>1, <4>3, <5>2
      <4> QED
        BY <4>2, <4>3
    <3>4. From(h, m)
      BY <3>3
    <3> QED
      BY <2>2, <3>4
  <2> QED
    BY <2>3, <2>4
<1>2. PICK g : From(g, top - 2)
  <2>1. top - 2 \in Nat /\ top - 2 <= top - 2
    BY <1>0
  <2>2. top - 2 \notin T
    BY <1>1
  <2> QED
    BY <2>1, <2>2
<1> DEFINE P(h) == h = [i \in 2..(2 * MaxRecordings + 2) |-> KeptBy(h, i, youngest)]
<1>3. P(g)
  <2>1. top - (top - 2) = 2
    BY <1>0
  <2> QED
    BY <1>2, <2>1
<1>4. Prune!KeptFrom(youngest) = CHOOSE h : P(h)
  BY DEF Prune!KeptFrom, KeptBy
<1>5. P(CHOOSE h : P(h))
  <2> HIDE DEF P
  <2> QED
    BY <1>3
<1> QED
  BY <1>4, <1>5


LEMMA PairIsFinite ==
    ASSUME NEW a, NEW b
    PROVE  IsFiniteSet({a, b}) /\ Cardinality({a, b}) <= 2 /\ Cardinality({a, b}) \in Nat
<1>1. IsFiniteSet({a}) /\ Cardinality({a}) = 1
  BY FS_Singleton
<1>2. {a, b} = {a} \cup {b}
  OBVIOUS
<1>3. IsFiniteSet({a, b}) /\ Cardinality({a, b}) = (IF b \in {a} THEN 1 ELSE 1 + 1)
  BY <1>1, <1>2, FS_AddElement
<1> QED
  BY <1>3

(* What is recorded or finalized is of the newest group but that of its    *)
(* trimmed audio; both fit into any number to keep from three on.          *)
LEMMA NewestIsKept ==
    ASSUME Prune!CleanupAssumption, KeepRecordings >= 3, PruneInv, pruneAt = "prunes_recordings",
           newest > 0, NEW youngest \in Nat, youngest <= 2 * newest,
           NEW f \in Prune!DoomedRecordings(youngest)
    PROVE  ~(f[1] = "audio" /\ f[2] = newest)
<1> DEFINE top == 2 * MaxRecordings + 2
           kept == Prune!KeptFrom(youngest)
           Group(i) == Prune!Group(i)
<1>a. /\ MaxRecordings \in Nat /\ KeepRecordings \in Nat
      /\ newest \in Nat /\ newest <= MaxRecordings /\ listed \subseteq Prune!Files
  BY DEF PruneInv, PruneOrder, Prune!CleanupTypeOK, Prune!CleanupAssumption
<1>b. ASSUME NEW g \in listed
      PROVE  /\ g = <<g[1], g[2]>> /\ g[2] \in Nat /\ g[2] <= newest
             /\ g[1] \in {"audio", "log", "trimmed"}
  <2>1. g \in {"audio", "log", "trimmed", "text"} \X (1..MaxRecordings)
    BY <1>a DEF Prune!Files, Prune!Recordings
  <2>2. g = <<g[1], g[2]>> /\ g[1] \in {"audio", "log", "trimmed", "text"} /\ g[2] \in 1..MaxRecordings
    BY <2>1
  <2>3. g[2] <= newest /\ g[1] # "text"
    BY DEF PruneInv, PruneOrder, ListsOneDirectory
  <2> QED
    BY <1>a, <2>2, <2>3
<1>c. top \in Nat /\ newest > 0 /\ 2 * newest + 2 <= top /\ KeepRecordings >= 3
  BY <1>a
<1>1. \A i \in 2..top : kept[i] = KeptBy(kept, i, youngest)
  <2> HIDE DEF kept
  <2>1. kept = [i \in 2..top |-> KeptBy(kept, i, youngest)]
    BY KeptIsDefined DEF kept
  <2> QED
    BY <2>1
<1>2. \A i \in Nat : \A g \in Group(i) : g \in listed /\ 2 * g[2] + (IF g[1] = "trimmed" THEN 1 ELSE 0) = i
  BY DEF Prune!Group
<1>3. \A S : Prune!Cardinality(S) = Cardinality(S)
  BY Zenon DEF Prune!Cardinality, Cardinality, Prune!IsFiniteSet, IsFiniteSet
<1>d. \A i : Group(i) = Prune!Group(i)
  OBVIOUS
<1>e. \A h, i : KeptBy(h, i, youngest) =
                  LET above == IF i = top THEN 0 ELSE h[i + 1]
                  IN  IF /\ Group(i) \cap pruneActive = {} /\ i >= youngest
                         /\ above + Prune!Cardinality(Group(i)) <= KeepRecordings
                      THEN above + Prune!Cardinality(Group(i))
                      ELSE above
  BY DEF KeptBy
<1>f. PICK j \in 2..(2 * MaxRecordings + 1) :
           f \in Group(j) /\ Group(j) \cap pruneActive = {} /\ kept[j] = kept[j + 1]
  BY DEF Prune!DoomedRecordings
<1> HIDE DEF kept, Group
<1>4. \A i \in (2 * newest + 2)..top : Group(i) = {}
  <2> SUFFICES ASSUME NEW i \in (2 * newest + 2)..top, NEW g \in Group(i) PROVE FALSE
    OBVIOUS
  <2>1. g \in listed /\ 2 * g[2] + (IF g[1] = "trimmed" THEN 1 ELSE 0) = i /\ i \in Nat
    BY <1>2, <1>a, <1>c
  <2>2. g[2] \in Nat /\ g[2] <= newest
    BY <1>b, <2>1
  <2>3. i >= 2 * newest + 2
    BY <1>a, <1>c
  <2> QED
    BY <1>a, <2>1, <2>2, <2>3
<1>5. \A i \in (2 * newest + 2)..top : Prune!Cardinality(Group(i)) = 0
  BY <1>3, <1>4, FS_EmptySet
<1> DEFINE T == {k \in Nat : k <= top - (2 * newest + 2) /\ kept[top - k] # 0}
<1>6. T = {}
  <2> SUFFICES ASSUME T # {} PROVE FALSE
    OBVIOUS
  <2>1. PICK m \in T : \A k \in T : m <= k
    BY Least
  <2> DEFINE i == top - m
  <2>2. /\ m \in Nat /\ i \in (2 * newest + 2)..top /\ i \in 2..top /\ kept[i] # 0
        /\ m = 0 => i = top
        /\ m # 0 => m - 1 \in Nat /\ m - 1 \notin T /\ top - (m - 1) = i + 1 /\ i # top
    BY <1>a, <1>c, <2>1
  <2>3. (IF i = top THEN 0 ELSE kept[i + 1]) = 0
    BY <1>a, <1>c, <2>2
  <2>4. KeptBy(kept, i, youngest) = 0
    <3>1. Prune!Cardinality(Group(i)) = 0
      BY <1>5, <2>2
    <3> HIDE DEF i, top
    <3> QED
      BY <1>e, <2>3, <3>1
  <2> QED
    BY <1>1, <2>2, <2>4
<1> DEFINE n == 2 * newest
<1>7. n \in 2..top /\ n + 1 \in 2..top /\ n # top /\ n + 1 # top /\ n + 2 \in (2 * newest + 2)..top /\ n \in Nat /\ n >= youngest
  BY <1>a, <1>c
<1>8. kept[n + 2] = 0
  <2>1. top - (n + 2) \in Nat /\ top - (n + 2) <= top - (2 * newest + 2) /\ top - (top - (n + 2)) = n + 2
    BY <1>a, <1>c
  <2>2. top - (n + 2) \notin T
    BY <1>6
  <2> QED
    BY <2>1, <2>2
<1>9. Prune!Cardinality(Group(n + 1)) \in {0, 1}
  <2>1. Group(n + 1) \subseteq {<<"trimmed", newest>>}
    <3> SUFFICES ASSUME NEW g \in Group(n + 1) PROVE g = <<"trimmed", newest>>
      OBVIOUS
    <3>1. g \in listed /\ 2 * g[2] + (IF g[1] = "trimmed" THEN 1 ELSE 0) = n + 1
      BY <1>2, <1>7
    <3>2. g[1] = "trimmed" /\ g[2] = newest
      <4>1. g[2] \in Nat /\ g[1] \in {"audio", "log", "trimmed"}
        BY <1>b, <3>1
      <4> QED
        BY <1>a, <3>1, <4>1
    <3>3. g = <<g[1], g[2]>>
      BY <1>b, <3>1
    <3> QED
      BY <3>2, <3>3
  <2>2. Group(n + 1) = {} \/ Group(n + 1) = {<<"trimmed", newest>>}
    BY <2>1
  <2> QED
    BY <1>3, <2>2, FS_EmptySet, FS_Singleton
<1>10. kept[n + 1] \in {0, 1}
  <2>1. kept[n + 1] = KeptBy(kept, n + 1, youngest)
    BY <1>1, <1>7
  <2>2. n + 1 + 1 = n + 2
    BY <1>7
  <2> QED
    BY <1>7, <1>8, <1>9, <1>e, <2>1, <2>2
<1> SUFFICES ASSUME f[1] = "audio", f[2] = newest PROVE FALSE
  OBVIOUS
<1>12. j = n
  <2>1. f \in listed /\ 2 * f[2] + (IF f[1] = "trimmed" THEN 1 ELSE 0) = j
    BY <1>2, <1>f
  <2> QED
    BY <1>a, <2>1
<1>13. Prune!Cardinality(Group(n)) \in {1, 2}
  <2>1. Group(n) \subseteq {<<"audio", newest>>, <<"log", newest>>}
    <3> SUFFICES ASSUME NEW g \in Group(n) PROVE g \in {<<"audio", newest>>, <<"log", newest>>}
      OBVIOUS
    <3>1. g \in listed /\ 2 * g[2] + (IF g[1] = "trimmed" THEN 1 ELSE 0) = n
      BY <1>2, <1>7
    <3>2. g[1] \in {"audio", "log"} /\ g[2] = newest
      <4>1. g[2] \in Nat /\ g[1] \in {"audio", "log", "trimmed"}
        BY <1>b, <3>1
      <4> QED
        BY <1>a, <3>1, <4>1
    <3>3. g = <<g[1], g[2]>>
      BY <1>b, <3>1
    <3> QED
      BY <3>2, <3>3
  <2>3. /\ IsFiniteSet({<<"audio", newest>>, <<"log", newest>>})
        /\ Cardinality({<<"audio", newest>>, <<"log", newest>>}) <= 2
        /\ Cardinality({<<"audio", newest>>, <<"log", newest>>}) \in Nat
    BY PairIsFinite
  <2>4. /\ IsFiniteSet(Group(n)) /\ Cardinality(Group(n)) <= 2 /\ Cardinality(Group(n)) \in Nat
    BY <2>1, <2>3, FS_Subset, FS_CardinalityType
  <2>5. Cardinality(Group(n)) # 0
    BY <1>f, <1>12, <2>4, FS_EmptySet
  <2>6. Cardinality(Group(n)) \in {1, 2}
    BY <2>4, <2>5
  <2> QED
    BY <1>3, <2>6
<1>14. kept[n] = kept[n + 1] + Prune!Cardinality(Group(n))
  <2>1. kept[n] = KeptBy(kept, n, youngest)
    BY <1>1, <1>7
  <2>2. kept[n + 1] + Prune!Cardinality(Group(n)) <= KeepRecordings
    BY <1>a, <1>c, <1>10, <1>13
  <2>3. Group(n) \cap pruneActive = {}
    BY <1>f, <1>12
  <2> QED
    BY <1>7, <1>e, <2>1, <2>2, <2>3
<1> QED
  BY <1>10, <1>f, <1>12, <1>13, <1>14


LEMMA PruneTypeKept ==
    ASSUME Prune!CleanupAssumption, PruneOrder, Prune!CleanupNext
    PROVE  Prune!CleanupTypeOK'
<1>1. CASE Prune!Starts
  BY <1>1 DEF Prune!Starts, Prune!TakesLock, Prune!directoryVars, Prune!stateVars,
     Prune!pruneVars, Prune!None, PruneOrder, Prune!CleanupTypeOK,
     Prune!CleanupAssumption, Prune!Files, Prune!Recordings, Prune!Of,
     Prune!Artifacts, InProgressIsNewest, Prune!DoomedTexts, Prune!ActivePaths,
     Prune!InFlight, Prune!Transcripts, Prune!AudioInProgress
<1>2. CASE Prune!CreatesFiles
  BY <1>2 DEF Prune!CreatesFiles, Prune!Goes, Prune!pruneVars, Prune!stateVars,
     Prune!Artifacts, PruneOrder, Prune!CleanupTypeOK, Prune!CleanupAssumption,
     Prune!Files, Prune!Recordings, Prune!Of, Prune!None, InProgressIsNewest,
     Prune!DoomedTexts, Prune!ActivePaths, Prune!InFlight, Prune!Transcripts,
     Prune!AudioInProgress
<1>3. CASE Prune!CommitsRecording
  BY <1>3 DEF Prune!CommitsRecording, Prune!Goes, Prune!pruneVars,
     Prune!directoryVars, Prune!None, PruneOrder, Prune!CleanupTypeOK,
     Prune!CleanupAssumption, Prune!Files, Prune!Recordings, Prune!Of,
     Prune!Artifacts, InProgressIsNewest, Prune!DoomedTexts, Prune!ActivePaths,
     Prune!InFlight, Prune!Transcripts, Prune!AudioInProgress
<1>4. CASE Prune!StartFails
  BY <1>4 DEF Prune!StartFails, Prune!Goes, Prune!pruneVars, Prune!stateVars,
     Prune!Artifacts, PruneOrder, Prune!CleanupTypeOK, Prune!CleanupAssumption,
     Prune!Files, Prune!Recordings, Prune!Of, Prune!None, InProgressIsNewest,
     Prune!DoomedTexts, Prune!ActivePaths, Prune!InFlight, Prune!Transcripts,
     Prune!AudioInProgress
<1>5. CASE Prune!Stops
  BY <1>5 DEF Prune!Stops, Prune!TakesLock, Prune!directoryVars, Prune!stateVars,
     Prune!pruneVars, PruneOrder, Prune!CleanupTypeOK, Prune!CleanupAssumption,
     Prune!Files, Prune!Recordings, Prune!Of, Prune!Artifacts, Prune!None,
     InProgressIsNewest, Prune!DoomedTexts, Prune!ActivePaths, Prune!InFlight,
     Prune!Transcripts, Prune!AudioInProgress
<1>6. CASE Prune!Resumes
  BY <1>6 DEF Prune!Resumes, Prune!TakesLock, Prune!directoryVars,
     Prune!stateVars, Prune!pruneVars, Prune!None, PruneOrder,
     Prune!CleanupTypeOK, Prune!CleanupAssumption, Prune!Files, Prune!Recordings,
     Prune!Of, Prune!Artifacts, InProgressIsNewest, Prune!DoomedTexts,
     Prune!ActivePaths, Prune!InFlight, Prune!Transcripts, Prune!AudioInProgress
<1>7. CASE Prune!Finalizes
  BY <1>7 DEF Prune!Finalizes, Prune!Goes, Prune!pruneVars, Prune!directoryVars,
     PruneOrder, Prune!CleanupTypeOK, Prune!CleanupAssumption, Prune!Files,
     Prune!Recordings, Prune!Of, Prune!Artifacts, Prune!None, InProgressIsNewest,
     Prune!DoomedTexts, Prune!ActivePaths, Prune!InFlight, Prune!Transcripts,
     Prune!AudioInProgress
<1>8. CASE Prune!Trims
  BY <1>8 DEF Prune!Trims, Prune!Goes, Prune!pruneVars, Prune!stateVars,
     PruneOrder, Prune!CleanupTypeOK, Prune!CleanupAssumption, Prune!Files,
     Prune!Recordings, Prune!Of, Prune!Artifacts, Prune!None, InProgressIsNewest,
     Prune!DoomedTexts, Prune!ActivePaths, Prune!InFlight, Prune!Transcripts,
     Prune!AudioInProgress
<1>9. CASE Prune!Transcribes
  BY <1>9 DEF Prune!Transcribes, Prune!Goes, Prune!pruneVars, Prune!stateVars,
     PruneOrder, Prune!CleanupTypeOK, Prune!CleanupAssumption, Prune!Files,
     Prune!Recordings, Prune!Of, Prune!Artifacts, Prune!None, InProgressIsNewest,
     Prune!DoomedTexts, Prune!ActivePaths, Prune!InFlight, Prune!Transcripts,
     Prune!AudioInProgress
<1>10. CASE Prune!Tidies
  BY <1>10 DEF Prune!Tidies, Prune!Goes, Prune!pruneVars, Prune!stateVars,
     Prune!Artifacts, PruneOrder, Prune!CleanupTypeOK, Prune!CleanupAssumption,
     Prune!Files, Prune!Recordings, Prune!Of, Prune!None, InProgressIsNewest,
     Prune!DoomedTexts, Prune!ActivePaths, Prune!InFlight, Prune!Transcripts,
     Prune!AudioInProgress
<1>11. CASE Prune!CommitsDone
  BY <1>11 DEF Prune!CommitsDone, Prune!Goes, Prune!pruneVars,
     Prune!directoryVars, Prune!None, PruneOrder, Prune!CleanupTypeOK,
     Prune!CleanupAssumption, Prune!Files, Prune!Recordings, Prune!Of,
     Prune!Artifacts, InProgressIsNewest, Prune!DoomedTexts, Prune!ActivePaths,
     Prune!InFlight, Prune!Transcripts, Prune!AudioInProgress
<1>12. CASE Prune!RetryDone
  BY <1>12 DEF Prune!RetryDone, Prune!Goes, Prune!pruneVars, Prune!directoryVars,
     PruneOrder, Prune!CleanupTypeOK, Prune!CleanupAssumption, Prune!Files,
     Prune!Recordings, Prune!Of, Prune!Artifacts, Prune!None, InProgressIsNewest,
     Prune!DoomedTexts, Prune!ActivePaths, Prune!InFlight, Prune!Transcripts,
     Prune!AudioInProgress
<1>13. CASE Prune!FinalizeFails
  BY <1>13 DEF Prune!FinalizeFails, Prune!Goes, Prune!pruneVars, PruneOrder,
     Prune!CleanupTypeOK, Prune!CleanupAssumption, Prune!Files, Prune!Recordings,
     Prune!Of, Prune!Artifacts, Prune!None, InProgressIsNewest, Prune!DoomedTexts,
     Prune!ActivePaths, Prune!InFlight, Prune!Transcripts, Prune!AudioInProgress
<1>14. CASE Prune!OutputFails
  BY <1>14 DEF Prune!OutputFails, Prune!Goes, Prune!pruneVars, Prune!None,
     PruneOrder, Prune!CleanupTypeOK, Prune!CleanupAssumption, Prune!Files,
     Prune!Recordings, Prune!Of, Prune!Artifacts, InProgressIsNewest,
     Prune!DoomedTexts, Prune!ActivePaths, Prune!InFlight, Prune!Transcripts,
     Prune!AudioInProgress
<1>15. CASE Prune!PurgesFailed
  BY <1>15 DEF Prune!PurgesFailed, Prune!Goes, Prune!pruneVars, Prune!None,
     Prune!Artifacts, PruneOrder, Prune!CleanupTypeOK, Prune!CleanupAssumption,
     Prune!Files, Prune!Recordings, Prune!Of, InProgressIsNewest,
     Prune!DoomedTexts, Prune!ActivePaths, Prune!InFlight, Prune!Transcripts,
     Prune!AudioInProgress
<1>16. CASE Prune!Leaves
  BY <1>16 DEF Prune!Leaves, Prune!directoryVars, Prune!stateVars,
     Prune!pruneVars, PruneOrder, Prune!CleanupTypeOK, Prune!CleanupAssumption,
     Prune!Files, Prune!Recordings, Prune!Of, Prune!Artifacts, Prune!None,
     InProgressIsNewest, Prune!DoomedTexts, Prune!ActivePaths, Prune!InFlight,
     Prune!Transcripts, Prune!AudioInProgress
<1>17. CASE Prune!AsksForLock
  BY <1>17 DEF Prune!AsksForLock, Prune!Proceeds, Prune!directoryVars,
     Prune!stateVars, PruneOrder, Prune!CleanupTypeOK, Prune!CleanupAssumption,
     Prune!Files, Prune!Recordings, Prune!Of, Prune!Artifacts, Prune!None,
     InProgressIsNewest, Prune!DoomedTexts, Prune!ActivePaths, Prune!InFlight,
     Prune!Transcripts, Prune!AudioInProgress
<1>18. CASE Prune!AcquiresLock
  BY <1>18 DEF Prune!AcquiresLock, Prune!Proceeds, Prune!directoryVars,
     Prune!stateVars, PruneOrder, Prune!CleanupTypeOK, Prune!CleanupAssumption,
     Prune!Files, Prune!Recordings, Prune!Of, Prune!Artifacts, Prune!None,
     InProgressIsNewest, Prune!DoomedTexts, Prune!ActivePaths, Prune!InFlight,
     Prune!Transcripts, Prune!AudioInProgress
<1>19. CASE Prune!ReadsState
  BY <1>19 DEF Prune!ReadsState, Prune!Proceeds, Prune!directoryVars,
     Prune!stateVars, PruneOrder, Prune!CleanupTypeOK, Prune!CleanupAssumption,
     Prune!Files, Prune!Recordings, Prune!Of, Prune!Artifacts, Prune!None,
     InProgressIsNewest, Prune!DoomedTexts, Prune!ActivePaths, Prune!InFlight,
     Prune!Transcripts, Prune!AudioInProgress
<1>20. CASE Prune!ProtectsAll
  BY <1>20 DEF Prune!ProtectsAll, Prune!Proceeds, Prune!directoryVars,
     Prune!stateVars, Prune!Of, Prune!Audible, PruneOrder, Prune!CleanupTypeOK,
     Prune!CleanupAssumption, Prune!Files, Prune!Recordings, Prune!Artifacts,
     Prune!None, InProgressIsNewest, Prune!DoomedTexts, Prune!ActivePaths,
     Prune!InFlight, Prune!Transcripts, Prune!AudioInProgress
<1>21. CASE Prune!ListsTexts
  BY <1>21 DEF Prune!ListsTexts, Prune!Lists, Prune!Proceeds, Prune!directoryVars,
     Prune!stateVars, Prune!Of, PruneOrder, Prune!CleanupTypeOK,
     Prune!CleanupAssumption, Prune!Files, Prune!Recordings, Prune!Artifacts,
     Prune!None, InProgressIsNewest, Prune!DoomedTexts, Prune!ActivePaths,
     Prune!InFlight, Prune!Transcripts, Prune!AudioInProgress
<1>22. CASE Prune!PrunesTexts
  BY <1>22 DEF Prune!PrunesTexts, Prune!Prunes, Prune!Deletes, Prune!Of,
     Prune!stateVars, Prune!lifecycleVars, PruneOrder, Prune!CleanupTypeOK,
     Prune!CleanupAssumption, Prune!Files, Prune!Recordings, Prune!Artifacts,
     Prune!None, InProgressIsNewest, Prune!DoomedTexts, Prune!ActivePaths,
     Prune!InFlight, Prune!Transcripts, Prune!AudioInProgress
<1>23. CASE Prune!ListsRecordings
  BY <1>23 DEF Prune!ListsRecordings, Prune!Lists, Prune!Proceeds,
     Prune!directoryVars, Prune!stateVars, Prune!Of, Prune!Audible, PruneOrder,
     Prune!CleanupTypeOK, Prune!CleanupAssumption, Prune!Files, Prune!Recordings,
     Prune!Artifacts, Prune!None, InProgressIsNewest, Prune!DoomedTexts,
     Prune!ActivePaths, Prune!InFlight, Prune!Transcripts, Prune!AudioInProgress
<1>24. CASE Prune!PrunesRecordings
  BY <1>24 DEF Prune!PrunesRecordings, Prune!Prunes, Prune!Deletes, Prune!Of,
     Prune!stateVars, Prune!lifecycleVars, PruneOrder, Prune!CleanupTypeOK,
     Prune!CleanupAssumption, Prune!Files, Prune!Recordings, Prune!Artifacts,
     Prune!None, InProgressIsNewest, Prune!DoomedTexts, Prune!ActivePaths,
     Prune!InFlight, Prune!Transcripts, Prune!AudioInProgress
<1>25. CASE Prune!Ends
  BY <1>25 DEF Prune!Ends, Prune!Proceeds, Prune!directoryVars, Prune!stateVars,
     PruneOrder, Prune!CleanupTypeOK, Prune!CleanupAssumption, Prune!Files,
     Prune!Recordings, Prune!Of, Prune!Artifacts, Prune!None, InProgressIsNewest,
     Prune!DoomedTexts, Prune!ActivePaths, Prune!InFlight, Prune!Transcripts,
     Prune!AudioInProgress
<1> QED
  BY <1>1, <1>2, <1>3, <1>4, <1>5, <1>6, <1>7, <1>8, <1>9, <1>10, <1>11, <1>12,
     <1>13, <1>14, <1>15, <1>16, <1>17, <1>18, <1>19, <1>20, <1>21, <1>22, <1>23,
     <1>24, <1>25 DEF Prune!CleanupNext, Prune!Lifecycle, Prune!Cleaning

LEMMA ProgressStaysNewest ==
    ASSUME Prune!CleanupAssumption, PruneOrder, Prune!CleanupNext
    PROVE  InProgressIsNewest'
<1>1. CASE Prune!Starts
  BY <1>1 DEF Prune!Starts, Prune!TakesLock, Prune!directoryVars, Prune!stateVars,
     Prune!pruneVars, Prune!None, PruneOrder, Prune!CleanupTypeOK,
     Prune!CleanupAssumption, InProgressIsNewest
<1>2. CASE Prune!CreatesFiles
  BY <1>2 DEF Prune!CreatesFiles, Prune!Goes, Prune!pruneVars, Prune!stateVars,
     Prune!Artifacts, PruneOrder, Prune!CleanupTypeOK, Prune!CleanupAssumption,
     InProgressIsNewest
<1>3. CASE Prune!CommitsRecording
  BY <1>3 DEF Prune!CommitsRecording, Prune!Goes, Prune!pruneVars,
     Prune!directoryVars, Prune!None, PruneOrder, Prune!CleanupTypeOK,
     Prune!CleanupAssumption, InProgressIsNewest
<1>4. CASE Prune!StartFails
  BY <1>4 DEF Prune!StartFails, Prune!Goes, Prune!pruneVars, Prune!stateVars,
     Prune!Artifacts, PruneOrder, Prune!CleanupTypeOK, Prune!CleanupAssumption,
     InProgressIsNewest
<1>5. CASE Prune!Stops
  BY <1>5 DEF Prune!Stops, Prune!TakesLock, Prune!directoryVars, Prune!stateVars,
     Prune!pruneVars, PruneOrder, Prune!CleanupTypeOK, Prune!CleanupAssumption,
     InProgressIsNewest
<1>6. CASE Prune!Resumes
  BY <1>6 DEF Prune!Resumes, Prune!TakesLock, Prune!directoryVars,
     Prune!stateVars, Prune!pruneVars, Prune!None, PruneOrder,
     Prune!CleanupTypeOK, Prune!CleanupAssumption, InProgressIsNewest
<1>7. CASE Prune!Finalizes
  BY <1>7 DEF Prune!Finalizes, Prune!Goes, Prune!pruneVars, Prune!directoryVars,
     PruneOrder, Prune!CleanupTypeOK, Prune!CleanupAssumption, InProgressIsNewest
<1>8. CASE Prune!Trims
  BY <1>8 DEF Prune!Trims, Prune!Goes, Prune!pruneVars, Prune!stateVars,
     PruneOrder, Prune!CleanupTypeOK, Prune!CleanupAssumption, InProgressIsNewest
<1>9. CASE Prune!Transcribes
  BY <1>9 DEF Prune!Transcribes, Prune!Goes, Prune!pruneVars, Prune!stateVars,
     PruneOrder, Prune!CleanupTypeOK, Prune!CleanupAssumption, InProgressIsNewest
<1>10. CASE Prune!Tidies
  BY <1>10 DEF Prune!Tidies, Prune!Goes, Prune!pruneVars, Prune!stateVars,
     Prune!Artifacts, PruneOrder, Prune!CleanupTypeOK, Prune!CleanupAssumption,
     InProgressIsNewest
<1>11. CASE Prune!CommitsDone
  BY <1>11 DEF Prune!CommitsDone, Prune!Goes, Prune!pruneVars,
     Prune!directoryVars, Prune!None, PruneOrder, Prune!CleanupTypeOK,
     Prune!CleanupAssumption, InProgressIsNewest
<1>12. CASE Prune!RetryDone
  BY <1>12 DEF Prune!RetryDone, Prune!Goes, Prune!pruneVars, Prune!directoryVars,
     PruneOrder, Prune!CleanupTypeOK, Prune!CleanupAssumption, InProgressIsNewest
<1>13. CASE Prune!FinalizeFails
  BY <1>13 DEF Prune!FinalizeFails, Prune!Goes, Prune!pruneVars, PruneOrder,
     Prune!CleanupTypeOK, Prune!CleanupAssumption, InProgressIsNewest
<1>14. CASE Prune!OutputFails
  BY <1>14 DEF Prune!OutputFails, Prune!Goes, Prune!pruneVars, Prune!None,
     PruneOrder, Prune!CleanupTypeOK, Prune!CleanupAssumption, InProgressIsNewest
<1>15. CASE Prune!PurgesFailed
  BY <1>15 DEF Prune!PurgesFailed, Prune!Goes, Prune!pruneVars, Prune!None,
     Prune!Artifacts, PruneOrder, Prune!CleanupTypeOK, Prune!CleanupAssumption,
     InProgressIsNewest
<1>16. CASE Prune!Leaves
  BY <1>16 DEF Prune!Leaves, Prune!directoryVars, Prune!stateVars,
     Prune!pruneVars, PruneOrder, Prune!CleanupTypeOK, Prune!CleanupAssumption,
     InProgressIsNewest
<1>17. CASE Prune!AsksForLock
  BY <1>17 DEF Prune!AsksForLock, Prune!Proceeds, Prune!directoryVars,
     Prune!stateVars, PruneOrder, Prune!CleanupTypeOK, Prune!CleanupAssumption,
     InProgressIsNewest
<1>18. CASE Prune!AcquiresLock
  BY <1>18 DEF Prune!AcquiresLock, Prune!Proceeds, Prune!directoryVars,
     Prune!stateVars, PruneOrder, Prune!CleanupTypeOK, Prune!CleanupAssumption,
     InProgressIsNewest
<1>19. CASE Prune!ReadsState
  BY <1>19 DEF Prune!ReadsState, Prune!Proceeds, Prune!directoryVars,
     Prune!stateVars, PruneOrder, Prune!CleanupTypeOK, Prune!CleanupAssumption,
     InProgressIsNewest
<1>20. CASE Prune!ProtectsAll
  BY <1>20 DEF Prune!ProtectsAll, Prune!Proceeds, Prune!directoryVars,
     Prune!stateVars, Prune!Of, Prune!Audible, PruneOrder, Prune!CleanupTypeOK,
     Prune!CleanupAssumption, InProgressIsNewest
<1>21. CASE Prune!ListsTexts
  BY <1>21 DEF Prune!ListsTexts, Prune!Lists, Prune!Proceeds, Prune!directoryVars,
     Prune!stateVars, Prune!Of, PruneOrder, Prune!CleanupTypeOK,
     Prune!CleanupAssumption, InProgressIsNewest
<1>22. CASE Prune!PrunesTexts
  BY <1>22 DEF Prune!PrunesTexts, Prune!Prunes, Prune!Deletes, Prune!Of,
     Prune!stateVars, Prune!lifecycleVars, PruneOrder, Prune!CleanupTypeOK,
     Prune!CleanupAssumption, InProgressIsNewest
<1>23. CASE Prune!ListsRecordings
  BY <1>23 DEF Prune!ListsRecordings, Prune!Lists, Prune!Proceeds,
     Prune!directoryVars, Prune!stateVars, Prune!Of, Prune!Audible, PruneOrder,
     Prune!CleanupTypeOK, Prune!CleanupAssumption, InProgressIsNewest
<1>24. CASE Prune!PrunesRecordings
  BY <1>24 DEF Prune!PrunesRecordings, Prune!Prunes, Prune!Deletes, Prune!Of,
     Prune!stateVars, Prune!lifecycleVars, PruneOrder, Prune!CleanupTypeOK,
     Prune!CleanupAssumption, InProgressIsNewest
<1>25. CASE Prune!Ends
  BY <1>25 DEF Prune!Ends, Prune!Proceeds, Prune!directoryVars, Prune!stateVars,
     PruneOrder, Prune!CleanupTypeOK, Prune!CleanupAssumption, InProgressIsNewest
<1> QED
  BY <1>1, <1>2, <1>3, <1>4, <1>5, <1>6, <1>7, <1>8, <1>9, <1>10, <1>11, <1>12,
     <1>13, <1>14, <1>15, <1>16, <1>17, <1>18, <1>19, <1>20, <1>21, <1>22, <1>23,
     <1>24, <1>25 DEF Prune!CleanupNext, Prune!Lifecycle, Prune!Cleaning

LEMMA StillListsOne ==
    ASSUME Prune!CleanupAssumption, PruneOrder, Prune!CleanupNext
    PROVE  ListsOneDirectory'
<1>1. CASE Prune!Starts
  BY <1>1 DEF Prune!Starts, Prune!TakesLock, Prune!directoryVars, Prune!stateVars,
     Prune!pruneVars, Prune!None, PruneOrder, Prune!CleanupTypeOK,
     Prune!CleanupAssumption, Prune!Files, Prune!Recordings, Prune!Of,
     Prune!Artifacts, InProgressIsNewest, ListsOneDirectory
<1>2. CASE Prune!CreatesFiles
  BY <1>2 DEF Prune!CreatesFiles, Prune!Goes, Prune!pruneVars, Prune!stateVars,
     Prune!Artifacts, PruneOrder, Prune!CleanupTypeOK, Prune!CleanupAssumption,
     Prune!Files, Prune!Recordings, Prune!Of, Prune!None, InProgressIsNewest,
     ListsOneDirectory
<1>3. CASE Prune!CommitsRecording
  BY <1>3 DEF Prune!CommitsRecording, Prune!Goes, Prune!pruneVars,
     Prune!directoryVars, Prune!None, PruneOrder, Prune!CleanupTypeOK,
     Prune!CleanupAssumption, Prune!Files, Prune!Recordings, Prune!Of,
     Prune!Artifacts, InProgressIsNewest, ListsOneDirectory
<1>4. CASE Prune!StartFails
  BY <1>4 DEF Prune!StartFails, Prune!Goes, Prune!pruneVars, Prune!stateVars,
     Prune!Artifacts, PruneOrder, Prune!CleanupTypeOK, Prune!CleanupAssumption,
     Prune!Files, Prune!Recordings, Prune!Of, Prune!None, InProgressIsNewest,
     ListsOneDirectory
<1>5. CASE Prune!Stops
  BY <1>5 DEF Prune!Stops, Prune!TakesLock, Prune!directoryVars, Prune!stateVars,
     Prune!pruneVars, PruneOrder, Prune!CleanupTypeOK, Prune!CleanupAssumption,
     Prune!Files, Prune!Recordings, Prune!Of, Prune!Artifacts, Prune!None,
     InProgressIsNewest, ListsOneDirectory
<1>6. CASE Prune!Resumes
  BY <1>6 DEF Prune!Resumes, Prune!TakesLock, Prune!directoryVars,
     Prune!stateVars, Prune!pruneVars, Prune!None, PruneOrder,
     Prune!CleanupTypeOK, Prune!CleanupAssumption, Prune!Files, Prune!Recordings,
     Prune!Of, Prune!Artifacts, InProgressIsNewest, ListsOneDirectory
<1>7. CASE Prune!Finalizes
  BY <1>7 DEF Prune!Finalizes, Prune!Goes, Prune!pruneVars, Prune!directoryVars,
     PruneOrder, Prune!CleanupTypeOK, Prune!CleanupAssumption, Prune!Files,
     Prune!Recordings, Prune!Of, Prune!Artifacts, Prune!None, InProgressIsNewest,
     ListsOneDirectory
<1>8. CASE Prune!Trims
  BY <1>8 DEF Prune!Trims, Prune!Goes, Prune!pruneVars, Prune!stateVars,
     PruneOrder, Prune!CleanupTypeOK, Prune!CleanupAssumption, Prune!Files,
     Prune!Recordings, Prune!Of, Prune!Artifacts, Prune!None, InProgressIsNewest,
     ListsOneDirectory
<1>9. CASE Prune!Transcribes
  BY <1>9 DEF Prune!Transcribes, Prune!Goes, Prune!pruneVars, Prune!stateVars,
     PruneOrder, Prune!CleanupTypeOK, Prune!CleanupAssumption, Prune!Files,
     Prune!Recordings, Prune!Of, Prune!Artifacts, Prune!None, InProgressIsNewest,
     ListsOneDirectory
<1>10. CASE Prune!Tidies
  BY <1>10 DEF Prune!Tidies, Prune!Goes, Prune!pruneVars, Prune!stateVars,
     Prune!Artifacts, PruneOrder, Prune!CleanupTypeOK, Prune!CleanupAssumption,
     Prune!Files, Prune!Recordings, Prune!Of, Prune!None, InProgressIsNewest,
     ListsOneDirectory
<1>11. CASE Prune!CommitsDone
  BY <1>11 DEF Prune!CommitsDone, Prune!Goes, Prune!pruneVars,
     Prune!directoryVars, Prune!None, PruneOrder, Prune!CleanupTypeOK,
     Prune!CleanupAssumption, Prune!Files, Prune!Recordings, Prune!Of,
     Prune!Artifacts, InProgressIsNewest, ListsOneDirectory
<1>12. CASE Prune!RetryDone
  BY <1>12 DEF Prune!RetryDone, Prune!Goes, Prune!pruneVars, Prune!directoryVars,
     PruneOrder, Prune!CleanupTypeOK, Prune!CleanupAssumption, Prune!Files,
     Prune!Recordings, Prune!Of, Prune!Artifacts, Prune!None, InProgressIsNewest,
     ListsOneDirectory
<1>13. CASE Prune!FinalizeFails
  BY <1>13 DEF Prune!FinalizeFails, Prune!Goes, Prune!pruneVars, PruneOrder,
     Prune!CleanupTypeOK, Prune!CleanupAssumption, Prune!Files, Prune!Recordings,
     Prune!Of, Prune!Artifacts, Prune!None, InProgressIsNewest, ListsOneDirectory
<1>14. CASE Prune!OutputFails
  BY <1>14 DEF Prune!OutputFails, Prune!Goes, Prune!pruneVars, Prune!None,
     PruneOrder, Prune!CleanupTypeOK, Prune!CleanupAssumption, Prune!Files,
     Prune!Recordings, Prune!Of, Prune!Artifacts, InProgressIsNewest,
     ListsOneDirectory
<1>15. CASE Prune!PurgesFailed
  BY <1>15 DEF Prune!PurgesFailed, Prune!Goes, Prune!pruneVars, Prune!None,
     Prune!Artifacts, PruneOrder, Prune!CleanupTypeOK, Prune!CleanupAssumption,
     Prune!Files, Prune!Recordings, Prune!Of, InProgressIsNewest,
     ListsOneDirectory
<1>16. CASE Prune!Leaves
  BY <1>16 DEF Prune!Leaves, Prune!directoryVars, Prune!stateVars,
     Prune!pruneVars, PruneOrder, Prune!CleanupTypeOK, Prune!CleanupAssumption,
     Prune!Files, Prune!Recordings, Prune!Of, Prune!Artifacts, Prune!None,
     InProgressIsNewest, ListsOneDirectory
<1>17. CASE Prune!AsksForLock
  BY <1>17 DEF Prune!AsksForLock, Prune!Proceeds, Prune!directoryVars,
     Prune!stateVars, PruneOrder, Prune!CleanupTypeOK, Prune!CleanupAssumption,
     Prune!Files, Prune!Recordings, Prune!Of, Prune!Artifacts, Prune!None,
     InProgressIsNewest, ListsOneDirectory
<1>18. CASE Prune!AcquiresLock
  BY <1>18 DEF Prune!AcquiresLock, Prune!Proceeds, Prune!directoryVars,
     Prune!stateVars, PruneOrder, Prune!CleanupTypeOK, Prune!CleanupAssumption,
     Prune!Files, Prune!Recordings, Prune!Of, Prune!Artifacts, Prune!None,
     InProgressIsNewest, ListsOneDirectory
<1>19. CASE Prune!ReadsState
  BY <1>19 DEF Prune!ReadsState, Prune!Proceeds, Prune!directoryVars,
     Prune!stateVars, PruneOrder, Prune!CleanupTypeOK, Prune!CleanupAssumption,
     Prune!Files, Prune!Recordings, Prune!Of, Prune!Artifacts, Prune!None,
     InProgressIsNewest, ListsOneDirectory
<1>20. CASE Prune!ProtectsAll
  BY <1>20 DEF Prune!ProtectsAll, Prune!Proceeds, Prune!directoryVars,
     Prune!stateVars, Prune!Of, Prune!Audible, PruneOrder, Prune!CleanupTypeOK,
     Prune!CleanupAssumption, Prune!Files, Prune!Recordings, Prune!Artifacts,
     Prune!None, InProgressIsNewest, ListsOneDirectory
<1>21. CASE Prune!ListsTexts
  BY <1>21 DEF Prune!ListsTexts, Prune!Lists, Prune!Proceeds, Prune!directoryVars,
     Prune!stateVars, Prune!Of, PruneOrder, Prune!CleanupTypeOK,
     Prune!CleanupAssumption, Prune!Files, Prune!Recordings, Prune!Artifacts,
     Prune!None, InProgressIsNewest, ListsOneDirectory
<1>22. CASE Prune!PrunesTexts
  BY <1>22 DEF Prune!PrunesTexts, Prune!Prunes, Prune!Deletes, Prune!Of,
     Prune!stateVars, Prune!lifecycleVars, PruneOrder, Prune!CleanupTypeOK,
     Prune!CleanupAssumption, Prune!Files, Prune!Recordings, Prune!Artifacts,
     Prune!None, InProgressIsNewest, ListsOneDirectory
<1>23. CASE Prune!ListsRecordings
  BY <1>23 DEF Prune!ListsRecordings, Prune!Lists, Prune!Proceeds,
     Prune!directoryVars, Prune!stateVars, Prune!Of, Prune!Audible, PruneOrder,
     Prune!CleanupTypeOK, Prune!CleanupAssumption, Prune!Files, Prune!Recordings,
     Prune!Artifacts, Prune!None, InProgressIsNewest, ListsOneDirectory
<1>24. CASE Prune!PrunesRecordings
  BY <1>24 DEF Prune!PrunesRecordings, Prune!Prunes, Prune!Deletes, Prune!Of,
     Prune!stateVars, Prune!lifecycleVars, PruneOrder, Prune!CleanupTypeOK,
     Prune!CleanupAssumption, Prune!Files, Prune!Recordings, Prune!Artifacts,
     Prune!None, InProgressIsNewest, ListsOneDirectory
<1>25. CASE Prune!Ends
  BY <1>25 DEF Prune!Ends, Prune!Proceeds, Prune!directoryVars, Prune!stateVars,
     PruneOrder, Prune!CleanupTypeOK, Prune!CleanupAssumption, Prune!Files,
     Prune!Recordings, Prune!Of, Prune!Artifacts, Prune!None, InProgressIsNewest,
     ListsOneDirectory
<1> QED
  BY <1>1, <1>2, <1>3, <1>4, <1>5, <1>6, <1>7, <1>8, <1>9, <1>10, <1>11, <1>12,
     <1>13, <1>14, <1>15, <1>16, <1>17, <1>18, <1>19, <1>20, <1>21, <1>22, <1>23,
     <1>24, <1>25 DEF Prune!CleanupNext, Prune!Lifecycle, Prune!Cleaning

LEMMA SeenTextStaysSpared ==
    ASSUME Prune!CleanupAssumption, PruneOrder, Prune!CleanupNext
    PROVE  SeenTextIsSpared'
<1>1. CASE Prune!Starts
  BY <1>1 DEF Prune!Starts, Prune!TakesLock, Prune!directoryVars, Prune!stateVars,
     Prune!pruneVars, Prune!None, PruneOrder, Prune!CleanupTypeOK, Prune!Files,
     Prune!Recordings, Prune!Of, Prune!Artifacts, SeenTextIsSpared,
     Prune!ActivePaths, Prune!InFlight, Prune!Transcripts, Prune!AudioInProgress
<1>2. CASE Prune!CreatesFiles
  BY <1>2 DEF Prune!CreatesFiles, Prune!Goes, Prune!pruneVars, Prune!stateVars,
     Prune!Artifacts, PruneOrder, Prune!CleanupTypeOK, Prune!Files,
     Prune!Recordings, Prune!Of, Prune!None, SeenTextIsSpared, Prune!ActivePaths,
     Prune!InFlight, Prune!Transcripts, Prune!AudioInProgress
<1>3. CASE Prune!CommitsRecording
  BY <1>3 DEF Prune!CommitsRecording, Prune!Goes, Prune!pruneVars,
     Prune!directoryVars, Prune!None, PruneOrder, Prune!CleanupTypeOK,
     Prune!Files, Prune!Recordings, Prune!Of, Prune!Artifacts, SeenTextIsSpared,
     Prune!ActivePaths, Prune!InFlight, Prune!Transcripts, Prune!AudioInProgress
<1>4. CASE Prune!StartFails
  BY <1>4 DEF Prune!StartFails, Prune!Goes, Prune!pruneVars, Prune!stateVars,
     Prune!Artifacts, PruneOrder, Prune!CleanupTypeOK, Prune!Files,
     Prune!Recordings, Prune!Of, Prune!None, SeenTextIsSpared, Prune!ActivePaths,
     Prune!InFlight, Prune!Transcripts, Prune!AudioInProgress
<1>5. CASE Prune!Stops
  BY <1>5 DEF Prune!Stops, Prune!TakesLock, Prune!directoryVars, Prune!stateVars,
     Prune!pruneVars, PruneOrder, Prune!CleanupTypeOK, Prune!Files,
     Prune!Recordings, Prune!Of, Prune!Artifacts, Prune!None, SeenTextIsSpared,
     Prune!ActivePaths, Prune!InFlight, Prune!Transcripts, Prune!AudioInProgress
<1>6. CASE Prune!Resumes
  BY <1>6 DEF Prune!Resumes, Prune!TakesLock, Prune!directoryVars,
     Prune!stateVars, Prune!pruneVars, Prune!None, PruneOrder,
     Prune!CleanupTypeOK, Prune!Files, Prune!Recordings, Prune!Of,
     Prune!Artifacts, SeenTextIsSpared, Prune!ActivePaths, Prune!InFlight,
     Prune!Transcripts, Prune!AudioInProgress
<1>7. CASE Prune!Finalizes
  BY <1>7 DEF Prune!Finalizes, Prune!Goes, Prune!pruneVars, Prune!directoryVars,
     PruneOrder, Prune!CleanupTypeOK, Prune!Files, Prune!Recordings, Prune!Of,
     Prune!Artifacts, Prune!None, SeenTextIsSpared, Prune!ActivePaths,
     Prune!InFlight, Prune!Transcripts, Prune!AudioInProgress
<1>8. CASE Prune!Trims
  BY <1>8 DEF Prune!Trims, Prune!Goes, Prune!pruneVars, Prune!stateVars,
     PruneOrder, Prune!CleanupTypeOK, Prune!Files, Prune!Recordings, Prune!Of,
     Prune!Artifacts, Prune!None, SeenTextIsSpared, Prune!ActivePaths,
     Prune!InFlight, Prune!Transcripts, Prune!AudioInProgress
<1>9. CASE Prune!Transcribes
  BY <1>9 DEF Prune!Transcribes, Prune!Goes, Prune!pruneVars, Prune!stateVars,
     PruneOrder, Prune!CleanupTypeOK, Prune!Files, Prune!Recordings, Prune!Of,
     Prune!Artifacts, Prune!None, SeenTextIsSpared, Prune!ActivePaths,
     Prune!InFlight, Prune!Transcripts, Prune!AudioInProgress
<1>10. CASE Prune!Tidies
  BY <1>10 DEF Prune!Tidies, Prune!Goes, Prune!pruneVars, Prune!stateVars,
     Prune!Artifacts, PruneOrder, Prune!CleanupTypeOK, Prune!Files,
     Prune!Recordings, Prune!Of, Prune!None, SeenTextIsSpared, Prune!ActivePaths,
     Prune!InFlight, Prune!Transcripts, Prune!AudioInProgress
<1>11. CASE Prune!CommitsDone
  BY <1>11 DEF Prune!CommitsDone, Prune!Goes, Prune!pruneVars,
     Prune!directoryVars, Prune!None, PruneOrder, Prune!CleanupTypeOK,
     Prune!Files, Prune!Recordings, Prune!Of, Prune!Artifacts, SeenTextIsSpared,
     Prune!ActivePaths, Prune!InFlight, Prune!Transcripts, Prune!AudioInProgress
<1>12. CASE Prune!RetryDone
  BY <1>12 DEF Prune!RetryDone, Prune!Goes, Prune!pruneVars, Prune!directoryVars,
     PruneOrder, Prune!CleanupTypeOK, Prune!Files, Prune!Recordings, Prune!Of,
     Prune!Artifacts, Prune!None, SeenTextIsSpared, Prune!ActivePaths,
     Prune!InFlight, Prune!Transcripts, Prune!AudioInProgress
<1>13. CASE Prune!FinalizeFails
  BY <1>13 DEF Prune!FinalizeFails, Prune!Goes, Prune!pruneVars, PruneOrder,
     Prune!CleanupTypeOK, Prune!Files, Prune!Recordings, Prune!Of,
     Prune!Artifacts, Prune!None, SeenTextIsSpared, Prune!ActivePaths,
     Prune!InFlight, Prune!Transcripts, Prune!AudioInProgress
<1>14. CASE Prune!OutputFails
  BY <1>14 DEF Prune!OutputFails, Prune!Goes, Prune!pruneVars, Prune!None,
     PruneOrder, Prune!CleanupTypeOK, Prune!Files, Prune!Recordings, Prune!Of,
     Prune!Artifacts, SeenTextIsSpared, Prune!ActivePaths, Prune!InFlight,
     Prune!Transcripts, Prune!AudioInProgress
<1>15. CASE Prune!PurgesFailed
  BY <1>15 DEF Prune!PurgesFailed, Prune!Goes, Prune!pruneVars, Prune!None,
     Prune!Artifacts, PruneOrder, Prune!CleanupTypeOK, Prune!Files,
     Prune!Recordings, Prune!Of, SeenTextIsSpared, Prune!ActivePaths,
     Prune!InFlight, Prune!Transcripts, Prune!AudioInProgress
<1>16. CASE Prune!Leaves
  BY <1>16 DEF Prune!Leaves, Prune!directoryVars, Prune!stateVars,
     Prune!pruneVars, PruneOrder, Prune!CleanupTypeOK, Prune!Files,
     Prune!Recordings, Prune!Of, Prune!Artifacts, Prune!None, SeenTextIsSpared,
     Prune!ActivePaths, Prune!InFlight, Prune!Transcripts, Prune!AudioInProgress
<1>17. CASE Prune!AsksForLock
  BY <1>17 DEF Prune!AsksForLock, Prune!Proceeds, Prune!directoryVars,
     Prune!stateVars, PruneOrder, Prune!CleanupTypeOK, Prune!Files,
     Prune!Recordings, Prune!Of, Prune!Artifacts, Prune!None, SeenTextIsSpared,
     Prune!ActivePaths, Prune!InFlight, Prune!Transcripts, Prune!AudioInProgress
<1>18. CASE Prune!AcquiresLock
  BY <1>18 DEF Prune!AcquiresLock, Prune!Proceeds, Prune!directoryVars,
     Prune!stateVars, PruneOrder, Prune!CleanupTypeOK, Prune!Files,
     Prune!Recordings, Prune!Of, Prune!Artifacts, Prune!None, SeenTextIsSpared,
     Prune!ActivePaths, Prune!InFlight, Prune!Transcripts, Prune!AudioInProgress
<1>19. CASE Prune!ReadsState
  BY <1>19 DEF Prune!ReadsState, Prune!Proceeds, Prune!directoryVars,
     Prune!stateVars, PruneOrder, Prune!CleanupTypeOK, Prune!Files,
     Prune!Recordings, Prune!Of, Prune!Artifacts, Prune!None, SeenTextIsSpared,
     Prune!ActivePaths, Prune!InFlight, Prune!Transcripts, Prune!AudioInProgress
<1>20. CASE Prune!ProtectsAll
  BY <1>20 DEF Prune!ProtectsAll, Prune!Proceeds, Prune!directoryVars,
     Prune!stateVars, Prune!Of, Prune!Audible, PruneOrder, Prune!CleanupTypeOK,
     Prune!Files, Prune!Recordings, Prune!Artifacts, Prune!None, SeenTextIsSpared,
     Prune!ActivePaths, Prune!InFlight, Prune!Transcripts, Prune!AudioInProgress
<1>21. CASE Prune!ListsTexts
  BY <1>21 DEF Prune!ListsTexts, Prune!Lists, Prune!Proceeds, Prune!directoryVars,
     Prune!stateVars, Prune!Of, PruneOrder, Prune!CleanupTypeOK, Prune!Files,
     Prune!Recordings, Prune!Artifacts, Prune!None, SeenTextIsSpared,
     Prune!ActivePaths, Prune!InFlight, Prune!Transcripts, Prune!AudioInProgress
<1>22. CASE Prune!PrunesTexts
  BY <1>22 DEF Prune!PrunesTexts, Prune!Prunes, Prune!Deletes, Prune!Of,
     Prune!stateVars, Prune!lifecycleVars, PruneOrder, Prune!CleanupTypeOK,
     Prune!Files, Prune!Recordings, Prune!Artifacts, Prune!None, SeenTextIsSpared,
     Prune!ActivePaths, Prune!InFlight, Prune!Transcripts, Prune!AudioInProgress
<1>23. CASE Prune!ListsRecordings
  BY <1>23 DEF Prune!ListsRecordings, Prune!Lists, Prune!Proceeds,
     Prune!directoryVars, Prune!stateVars, Prune!Of, Prune!Audible, PruneOrder,
     Prune!CleanupTypeOK, Prune!Files, Prune!Recordings, Prune!Artifacts,
     Prune!None, SeenTextIsSpared, Prune!ActivePaths, Prune!InFlight,
     Prune!Transcripts, Prune!AudioInProgress
<1>24. CASE Prune!PrunesRecordings
  BY <1>24 DEF Prune!PrunesRecordings, Prune!Prunes, Prune!Deletes, Prune!Of,
     Prune!stateVars, Prune!lifecycleVars, PruneOrder, Prune!CleanupTypeOK,
     Prune!Files, Prune!Recordings, Prune!Artifacts, Prune!None, SeenTextIsSpared,
     Prune!ActivePaths, Prune!InFlight, Prune!Transcripts, Prune!AudioInProgress
<1>25. CASE Prune!Ends
  BY <1>25 DEF Prune!Ends, Prune!Proceeds, Prune!directoryVars, Prune!stateVars,
     PruneOrder, Prune!CleanupTypeOK, Prune!Files, Prune!Recordings, Prune!Of,
     Prune!Artifacts, Prune!None, SeenTextIsSpared, Prune!ActivePaths,
     Prune!InFlight, Prune!Transcripts, Prune!AudioInProgress
<1> QED
  BY <1>1, <1>2, <1>3, <1>4, <1>5, <1>6, <1>7, <1>8, <1>9, <1>10, <1>11, <1>12,
     <1>13, <1>14, <1>15, <1>16, <1>17, <1>18, <1>19, <1>20, <1>21, <1>22, <1>23,
     <1>24, <1>25 DEF Prune!CleanupNext, Prune!Lifecycle, Prune!Cleaning

LEMMA NeededStaysKept ==
    ASSUME Prune!CleanupAssumption, KeepRecordings >= 3, PruneInv, Prune!CleanupNext
    PROVE  Prune!NeededIsKept'
<1>1. CASE Prune!Starts
  BY <1>1 DEF Prune!Starts, Prune!TakesLock, Prune!directoryVars, Prune!stateVars,
     Prune!pruneVars, Prune!None, PruneInv, PruneOrder, Prune!CleanupTypeOK,
     Prune!Files, Prune!Recordings, Prune!Of, Prune!Artifacts, Prune!NeededIsKept
<1>2. CASE Prune!CreatesFiles
  BY <1>2 DEF Prune!CreatesFiles, Prune!Goes, Prune!pruneVars, Prune!stateVars,
     Prune!Artifacts, PruneInv, PruneOrder, Prune!CleanupTypeOK, Prune!Files,
     Prune!Recordings, Prune!Of, Prune!None, Prune!NeededIsKept
<1>3. CASE Prune!CommitsRecording
  BY <1>3 DEF Prune!CommitsRecording, Prune!Goes, Prune!pruneVars,
     Prune!directoryVars, Prune!None, PruneInv, PruneOrder, Prune!CleanupTypeOK,
     Prune!Files, Prune!Recordings, Prune!Of, Prune!Artifacts, Prune!NeededIsKept
<1>4. CASE Prune!StartFails
  BY <1>4 DEF Prune!StartFails, Prune!Goes, Prune!pruneVars, Prune!stateVars,
     Prune!Artifacts, PruneInv, PruneOrder, Prune!CleanupTypeOK, Prune!Files,
     Prune!Recordings, Prune!Of, Prune!None, Prune!NeededIsKept
<1>5. CASE Prune!Stops
  BY <1>5 DEF Prune!Stops, Prune!TakesLock, Prune!directoryVars, Prune!stateVars,
     Prune!pruneVars, PruneInv, PruneOrder, Prune!CleanupTypeOK, Prune!Files,
     Prune!Recordings, Prune!Of, Prune!Artifacts, Prune!None, Prune!NeededIsKept
<1>6. CASE Prune!Resumes
  BY <1>6 DEF Prune!Resumes, Prune!TakesLock, Prune!directoryVars,
     Prune!stateVars, Prune!pruneVars, Prune!None, PruneInv, PruneOrder,
     Prune!CleanupTypeOK, Prune!Files, Prune!Recordings, Prune!Of,
     Prune!Artifacts, Prune!NeededIsKept
<1>7. CASE Prune!Finalizes
  BY <1>7 DEF Prune!Finalizes, Prune!Goes, Prune!pruneVars, Prune!directoryVars,
     PruneInv, PruneOrder, Prune!CleanupTypeOK, Prune!Files, Prune!Recordings,
     Prune!Of, Prune!Artifacts, Prune!None, Prune!NeededIsKept
<1>8. CASE Prune!Trims
  BY <1>8 DEF Prune!Trims, Prune!Goes, Prune!pruneVars, Prune!stateVars, PruneInv,
     PruneOrder, Prune!CleanupTypeOK, Prune!Files, Prune!Recordings, Prune!Of,
     Prune!Artifacts, Prune!None, Prune!NeededIsKept
<1>9. CASE Prune!Transcribes
  BY <1>9 DEF Prune!Transcribes, Prune!Goes, Prune!pruneVars, Prune!stateVars,
     PruneInv, PruneOrder, Prune!CleanupTypeOK, Prune!Files, Prune!Recordings,
     Prune!Of, Prune!Artifacts, Prune!None, Prune!NeededIsKept
<1>10. CASE Prune!Tidies
  BY <1>10 DEF Prune!Tidies, Prune!Goes, Prune!pruneVars, Prune!stateVars,
     Prune!Artifacts, PruneInv, PruneOrder, Prune!CleanupTypeOK, Prune!Files,
     Prune!Recordings, Prune!Of, Prune!None, Prune!NeededIsKept
<1>11. CASE Prune!CommitsDone
  BY <1>11 DEF Prune!CommitsDone, Prune!Goes, Prune!pruneVars,
     Prune!directoryVars, Prune!None, PruneInv, PruneOrder, Prune!CleanupTypeOK,
     Prune!Files, Prune!Recordings, Prune!Of, Prune!Artifacts, Prune!NeededIsKept
<1>12. CASE Prune!RetryDone
  BY <1>12 DEF Prune!RetryDone, Prune!Goes, Prune!pruneVars, Prune!directoryVars,
     PruneInv, PruneOrder, Prune!CleanupTypeOK, Prune!Files, Prune!Recordings,
     Prune!Of, Prune!Artifacts, Prune!None, Prune!NeededIsKept
<1>13. CASE Prune!FinalizeFails
  BY <1>13 DEF Prune!FinalizeFails, Prune!Goes, Prune!pruneVars, PruneInv,
     PruneOrder, Prune!CleanupTypeOK, Prune!Files, Prune!Recordings, Prune!Of,
     Prune!Artifacts, Prune!None, Prune!NeededIsKept
<1>14. CASE Prune!OutputFails
  BY <1>14 DEF Prune!OutputFails, Prune!Goes, Prune!pruneVars, Prune!None,
     PruneInv, PruneOrder, Prune!CleanupTypeOK, Prune!Files, Prune!Recordings,
     Prune!Of, Prune!Artifacts, Prune!NeededIsKept
<1>15. CASE Prune!PurgesFailed
  BY <1>15 DEF Prune!PurgesFailed, Prune!Goes, Prune!pruneVars, Prune!None,
     Prune!Artifacts, PruneInv, PruneOrder, Prune!CleanupTypeOK, Prune!Files,
     Prune!Recordings, Prune!Of, Prune!NeededIsKept
<1>16. CASE Prune!Leaves
  BY <1>16 DEF Prune!Leaves, Prune!directoryVars, Prune!stateVars,
     Prune!pruneVars, PruneInv, PruneOrder, Prune!CleanupTypeOK, Prune!Files,
     Prune!Recordings, Prune!Of, Prune!Artifacts, Prune!None, Prune!NeededIsKept
<1>17. CASE Prune!AsksForLock
  BY <1>17 DEF Prune!AsksForLock, Prune!Proceeds, Prune!directoryVars,
     Prune!stateVars, PruneInv, PruneOrder, Prune!CleanupTypeOK, Prune!Files,
     Prune!Recordings, Prune!Of, Prune!Artifacts, Prune!None, Prune!NeededIsKept
<1>18. CASE Prune!AcquiresLock
  BY <1>18 DEF Prune!AcquiresLock, Prune!Proceeds, Prune!directoryVars,
     Prune!stateVars, PruneInv, PruneOrder, Prune!CleanupTypeOK, Prune!Files,
     Prune!Recordings, Prune!Of, Prune!Artifacts, Prune!None, Prune!NeededIsKept
<1>19. CASE Prune!ReadsState
  BY <1>19 DEF Prune!ReadsState, Prune!Proceeds, Prune!directoryVars,
     Prune!stateVars, PruneInv, PruneOrder, Prune!CleanupTypeOK, Prune!Files,
     Prune!Recordings, Prune!Of, Prune!Artifacts, Prune!None, Prune!NeededIsKept
<1>20. CASE Prune!ProtectsAll
  BY <1>20 DEF Prune!ProtectsAll, Prune!Proceeds, Prune!directoryVars,
     Prune!stateVars, Prune!Of, Prune!Audible, PruneInv, PruneOrder,
     Prune!CleanupTypeOK, Prune!Files, Prune!Recordings, Prune!Artifacts,
     Prune!None, Prune!NeededIsKept
<1>21. CASE Prune!ListsTexts
  BY <1>21 DEF Prune!ListsTexts, Prune!Lists, Prune!Proceeds, Prune!directoryVars,
     Prune!stateVars, Prune!Of, PruneInv, PruneOrder, Prune!CleanupTypeOK,
     Prune!Files, Prune!Recordings, Prune!Artifacts, Prune!None,
     Prune!NeededIsKept
<1>22. CASE Prune!PrunesTexts
  <2>1. pruneFiles \ pruneFiles' \subseteq Prune!DoomedTexts
    BY <1>22 DEF Prune!PrunesTexts, Prune!Prunes, Prune!Deletes
  <2>2. pruneAt = "prunes_texts" /\ lost' = lost \cup ((pruneFiles \ pruneFiles') \cap (Prune!AudioInProgress \cup Prune!Of({"text"}, saw)))
    BY <1>22 DEF Prune!PrunesTexts, Prune!Prunes, Prune!Deletes
  <2>3. ASSUME NEW f \in Prune!DoomedTexts
        PROVE  f \notin Prune!AudioInProgress /\ f \notin Prune!Of({"text"}, saw)
    <3>1. f \in listed /\ f \notin pruneActive
      BY DEF Prune!DoomedTexts
    <3>2. f[1] = "text"
      BY <2>2, <3>1 DEF PruneInv, PruneOrder, ListsOneDirectory
    <3> QED
      BY <3>1, <3>2 DEF PruneInv, PruneOrder, SeenTextIsSpared, Prune!AudioInProgress, Prune!Of
  <2> QED
    BY <2>1, <2>2, <2>3 DEF PruneInv, Prune!NeededIsKept
<1>23. CASE Prune!ListsRecordings
  BY <1>23 DEF Prune!ListsRecordings, Prune!Lists, Prune!Proceeds,
     Prune!directoryVars, Prune!stateVars, Prune!Of, Prune!Audible, PruneInv,
     PruneOrder, Prune!CleanupTypeOK, Prune!Files, Prune!Recordings,
     Prune!Artifacts, Prune!None, Prune!NeededIsKept
<1>24. CASE Prune!PrunesRecordings
  <2>1. PICK youngest \in 2..(2 * MaxRecordings + 1) :
            /\ youngest <= 2 * newest \/ newest = 0
            /\ Prune!Prunes("prunes_recordings", "ends", Prune!DoomedRecordings(youngest))
    BY <1>24 DEF Prune!PrunesRecordings
  <2>2. pruneFiles \ pruneFiles' \subseteq Prune!DoomedRecordings(youngest)
    BY <2>1 DEF Prune!Prunes, Prune!Deletes
  <2>3. pruneAt = "prunes_recordings" /\ lost' = lost \cup ((pruneFiles \ pruneFiles') \cap (Prune!AudioInProgress \cup Prune!Of({"text"}, saw)))
    BY <2>1 DEF Prune!Prunes, Prune!Deletes
  <2>4. MaxRecordings \in Nat /\ youngest \in Nat
    BY DEF Prune!CleanupAssumption
  <2>5. ASSUME NEW f \in Prune!DoomedRecordings(youngest)
        PROVE  f \notin Prune!AudioInProgress /\ f \notin Prune!Of({"text"}, saw)
    <3>1. f \in listed
      BY DEF Prune!DoomedRecordings, Prune!Group
    <3>2. f[1] # "text"
      BY <2>3, <3>1 DEF PruneInv, PruneOrder, ListsOneDirectory
    <3>3. ASSUME f \in Prune!AudioInProgress PROVE FALSE
      <4>1. f[1] = "audio" /\ f[2] = newest /\ newest > 0
        BY <3>3 DEF PruneInv, PruneOrder, InProgressIsNewest, Prune!AudioInProgress
      <4> QED
        BY <2>1, <2>3, <2>4, <4>1, NewestIsKept
    <3> QED
      BY <3>2, <3>3 DEF Prune!Of
  <2> QED
    BY <2>2, <2>3, <2>5 DEF PruneInv, Prune!NeededIsKept
<1>25. CASE Prune!Ends
  BY <1>25 DEF Prune!Ends, Prune!Proceeds, Prune!directoryVars, Prune!stateVars,
     PruneInv, PruneOrder, Prune!CleanupTypeOK, Prune!Files, Prune!Recordings,
     Prune!Of, Prune!Artifacts, Prune!None, Prune!NeededIsKept
<1> QED
  BY <1>1, <1>2, <1>3, <1>4, <1>5, <1>6, <1>7, <1>8, <1>9, <1>10, <1>11, <1>12,
     <1>13, <1>14, <1>15, <1>16, <1>17, <1>18, <1>19, <1>20, <1>21, <1>22, <1>23,
     <1>24, <1>25 DEF Prune!CleanupNext, Prune!Lifecycle, Prune!Cleaning

LEMMA PruneOrderInvariant == Prune!CleanupSpec => []PruneOrder
<1>0. Prune!CleanupAssumption
  BY FilesConstants DEF FilesConstants
<1>1. Prune!CleanupInit => PruneOrder
  BY <1>0 DEF Prune!CleanupInit, PruneOrder, Prune!CleanupTypeOK, InProgressIsNewest, ListsOneDirectory,
     SeenTextIsSpared, Prune!CleanupAssumption, Prune!None
<1>2. ASSUME PruneOrder, Prune!CleanupNext PROVE PruneOrder'
  BY <1>0, <1>2, PruneTypeKept, ProgressStaysNewest, StillListsOne, SeenTextStaysSpared DEF PruneOrder
<1>3. PruneOrder /\ UNCHANGED Prune!cleanupVars => PruneOrder'
  BY DEF Prune!cleanupVars, Prune!directoryVars, Prune!stateVars, Prune!lifecycleVars, Prune!pruneVars, PruneOrder,
     Prune!CleanupTypeOK, InProgressIsNewest, ListsOneDirectory, SeenTextIsSpared
<1> QED
  BY <1>1, <1>2, <1>3, PTL DEF Prune!CleanupSpec

LEMMA PruneInvariant == KeepRecordings >= 3 => (Prune!CleanupSpec => []PruneInv)
<1> SUFFICES ASSUME KeepRecordings >= 3 PROVE Prune!CleanupSpec => []PruneInv
  OBVIOUS
<1>0. Prune!CleanupAssumption
  BY FilesConstants DEF FilesConstants
<1>1. Prune!CleanupInit => Prune!NeededIsKept
  BY DEF Prune!CleanupInit, Prune!NeededIsKept
<1>2. ASSUME PruneOrder, Prune!NeededIsKept, Prune!CleanupNext PROVE Prune!NeededIsKept'
  BY <1>0, <1>2, NeededStaysKept DEF PruneInv
<1>3. Prune!NeededIsKept /\ UNCHANGED Prune!cleanupVars => Prune!NeededIsKept'
  BY DEF Prune!cleanupVars, Prune!directoryVars, Prune!stateVars, Prune!lifecycleVars, Prune!pruneVars,
     Prune!NeededIsKept
<1> QED
  BY PruneOrderInvariant, <1>1, <1>2, <1>3, PTL DEF Prune!CleanupSpec, PruneInv

(* cli.py - however many recordings are made while a clean-up goes on, and *)
(* however long ago it read the state: with at least three files to keep,  *)
(* it takes no audio in progress, and no transcript in use.                *)
THEOREM NeededStays == KeepRecordings >= 3 => (Prune!CleanupSpec => []Prune!NeededIsKept)
<1>1. PruneInv => Prune!NeededIsKept
  BY DEF PruneInv
<1> QED
  BY <1>1, PruneInvariant, PTL

-----------------------------------------------------------------------------
(* KeptRecording.  What a name holds, or held before the removal that is    *)
(* under way claimed it.                                                   *)
HeldAs(n) == IF keptStep \in {"wipes", "unlinks"} /\ n = leaf THEN keptFiles["claim"] ELSE keptFiles[n]

Lie(a, s, b, c) ==
    /\ HeldAs("artifact") = a /\ HeldAs("stable") = s /\ HeldAs("backup") = b /\ HeldAs("backupClaim") = c

Removing(name, onSuccess, onFailure) ==
    keptStep \in {"claims", "wipes", "unlinks"} /\ leaf = name /\ then = onSuccess /\ else = onFailure

Flags(t, b, g) == hadTarget = t /\ hadBackup = b /\ removed = g

\* No call may fail any more.
Spent == keptFaults >= MaxKeptFaults

\* What lies where until the better audio has the stable name ...
Looking ==
    /\ keptStep = "looks" /\ wiped = {} /\ ~keptActive /\ Flags(FALSE, FALSE, FALSE)
    /\ \E s, b \in {"none", "original"} : Lie("trimmed", s, b, "none") /\ (b # "none" => s # "none")

Clearing ==
    /\ Removing("backup", "links", "failed") /\ wiped = {} /\ ~keptActive /\ Flags(TRUE, FALSE, FALSE)
    /\ Lie("trimmed", "original", "original", "none")

Linking ==
    /\ keptStep = "links" /\ wiped = {} /\ ~keptActive /\ Flags(TRUE, FALSE, FALSE)
    /\ Lie("trimmed", "original", "none", "none")

Freeing ==
    /\ Removing("stable", "activates", "rollback") /\ wiped = {} /\ keptActive /\ Flags(TRUE, TRUE, FALSE)
    /\ Lie("trimmed", "original", "original", "none")

OldIsBackup == hadBackup = hadTarget /\ removed = hadTarget
OldBackup == IF hadTarget THEN "original" ELSE "none"

Activating ==
    /\ keptStep = "activates" /\ wiped = {} /\ keptActive /\ OldIsBackup
    /\ Lie("trimmed", "none", OldBackup, "none")

HasActivated ==
    /\ keptStep = "activated" /\ wiped = {} /\ keptActive /\ OldIsBackup
    /\ Lie("none", "trimmed", OldBackup, "none")

Dropping ==
    /\ Removing("backupClaim", "keeps", "backs") /\ keptActive /\ Flags(TRUE, TRUE, TRUE)
    /\ Lie("none", "trimmed", "none", "original")
    /\ wiped = IF keptStep = "unlinks" THEN {"original"} ELSE {}

\* ... while it is taken back ...
Backing ==
    /\ keptStep = "backs" /\ Spent /\ keptActive /\ Flags(TRUE, TRUE, TRUE) /\ wiped \subseteq {"original"}
    /\ \E c \in {"none", "original"} : Lie("none", "trimmed", "none", c) /\ (c = "none" => wiped = {"original"})

Rolling ==
    /\ keptStep = "rollback" /\ Spent /\ keptActive
    /\ \/ Lie("trimmed", "none", "none", "none") /\ wiped = {} /\ Flags(FALSE, FALSE, FALSE)
       \/ Lie("trimmed", "none", "original", "none") /\ wiped = {} /\ hadTarget /\ hadBackup
       \/ Lie("trimmed", "original", "original", "none") /\ wiped = {} /\ Flags(TRUE, TRUE, FALSE)
       \/ Lie("none", "trimmed", "none", "none") /\ wiped \subseteq {"original"}
       \/ Lie("none", "trimmed", "original", "none") /\ wiped \subseteq {"original"} /\ hadTarget

GivingUp ==
    /\ Removing("stable", "restores", "failed") /\ Spent /\ Lie("none", "trimmed", "original", "none")
    /\ wiped = IF keptStep = "unlinks" THEN {"trimmed"} ELSE {}

Unlinking ==
    /\ Removing("backup", "failed", "failed") /\ Spent /\ wiped = {}
    /\ Lie("trimmed", "original", "original", "none")

Restoring ==
    /\ keptStep = "restores" /\ Spent
    /\ \/ Lie("trimmed", "none", "original", "none") /\ wiped = {}
       \/ Lie("none", "none", "original", "none") /\ wiped = {"trimmed"}

\* ... and while it is stored in the other form.
StoredAs(s) == s \in {"original", "trimmed"} \ wiped /\ Lie("none", s, "none", "none")

Keeping == keptStep = "keeps" /\ wiped \subseteq {"original"} /\ \E s \in {"original", "trimmed"} : StoredAs(s)
Converting == keptStep = "converts" /\ wiped \subseteq {"original"} /\ \E s \in {"original", "trimmed"} : StoredAs(s)

Tidying ==
    /\ Removing("other", "ok", "failed") /\ HeldAs("other") = "stale"
    /\ \E s \in {"original", "trimmed"} : StoredAs(s)

Exchanging ==
    /\ Removing("stable", "ok", "undoes") /\ HeldAs("other") = "copy" /\ "copy" \notin wiped
    /\ \E s \in {"original", "trimmed"} : Lie("none", s, "none", "none") /\ (keptStep = "unlinks" <=> s \in wiped)

TakingBack ==
    /\ keptStep = "undoes" \/ Removing("other", "failed", "failed")
    /\ Spent /\ HeldAs("other") = "copy"
    /\ \E s \in {"original", "trimmed"} : StoredAs(s)

BeforeSettled ==
    /\ Looking \/ Clearing \/ Linking \/ Freeing \/ Activating \/ HasActivated \/ Dropping
       \/ Backing \/ Rolling \/ GivingUp \/ Unlinking \/ Restoring \/ Keeping \/ Converting
    /\ HeldAs("other") \in {"none", "stale"}

ClaimIsOpen ==
    IF keptStep \in {"wipes", "unlinks"}
    THEN leaf # "claim" /\ keptFiles[leaf] = "none" /\ keptFiles["claim"] # "none"
    ELSE keptStep \notin {"ok", "failed", "killed"} => keptFiles["claim"] = "none"

OutcomeIsStep == outcome = IF keptStep \in {"ok", "failed", "killed"} THEN keptStep ELSE "none"

Ending == keptStep \in {"ok", "failed", "killed"} /\ Kept!SpeechKept /\ Kept!StoredOnce

KeptInv ==
    /\ Kept!KeptTypeOK /\ ClaimIsOpen /\ OutcomeIsStep
    /\ BeforeSettled \/ Tidying \/ Exchanging \/ TakingBack \/ Ending


(* A claim is the only name of its file if no other name holds it.          *)
LEMMA LinksOfClaim ==
    ASSUME NEW i, keptFiles["claim"] = i
    PROVE  Kept!Links(i) = 1 <=> \A n \in Kept!Names \ {"claim"} : keptFiles[n] # i
<1> DEFINE S == {n \in Kept!Names : keptFiles[n] = i}
<1>0. "claim" \in S
  BY DEF Kept!Names
<1>1. IsFiniteSet(S)
  <2>1. IsFiniteSet(Kept!Names)
    <3>1. IsFiniteSet({"artifact", "stable"})
      BY PairIsFinite
    <3>2. IsFiniteSet({"backup", "claim"}) /\ IsFiniteSet({"backupClaim", "other"})
      BY PairIsFinite
    <3>3. IsFiniteSet({"artifact", "stable"} \cup {"backup", "claim"})
      BY <3>1, <3>2, FS_Union
    <3>4. IsFiniteSet({"artifact", "stable"} \cup {"backup", "claim"} \cup {"backupClaim", "other"})
      BY <3>2, <3>3, FS_Union
    <3>5. Kept!Names = {"artifact", "stable"} \cup {"backup", "claim"} \cup {"backupClaim", "other"}
      BY DEF Kept!Names
    <3> QED
      BY <3>4, <3>5
  <2> QED
    BY <2>1, FS_Subset
<1>2. Kept!Links(i) = Cardinality(S)
  BY DEF Kept!Links, Kept!Cardinality, Cardinality, Kept!IsFiniteSet, IsFiniteSet
<1>3. Cardinality(S) = 1 <=> \E m : S = {m}
  BY <1>1, FS_Singleton
<1> QED
  BY <1>0, <1>2, <1>3


Context == Clearing \/ Freeing \/ Dropping \/ GivingUp \/ Unlinking \/ Tidying \/ Exchanging \/ TakingBack

(* A removal under way is of one of eight kinds.                           *)
LEMMA RemovalHasContext ==
    ASSUME KeptInv, keptStep \in {"claims", "wipes", "unlinks"}
    PROVE  /\ Context
           /\ leaf \in Kept!Names \ {"claim"} /\ HeldAs(leaf) # "none"
           /\ Tidying \/ Exchanging \/ TakingBack \/ HeldAs("other") \in {"none", "stale"}
           /\ \A n \in Kept!Names : keptFiles[n] \in Kept!Inodes \cup {"none"}
<1>1. Context
  BY DEF Context, KeptInv, BeforeSettled, Ending, Looking, Linking, Activating,
     HasActivated, Backing, Rolling, Restoring, Keeping, Converting
<1>2. Tidying \/ Exchanging \/ TakingBack \/ HeldAs("other") \in {"none", "stale"}
  BY DEF KeptInv, BeforeSettled, Ending
<1>3. leaf \in Kept!Names \ {"claim"} /\ HeldAs(leaf) # "none"
  BY <1>1 DEF Context, Removing, Kept!Names, Lie, StoredAs, Clearing, Freeing,
     Dropping, GivingUp, Unlinking, Tidying, Exchanging, TakingBack
<1> QED
  BY <1>1, <1>2, <1>3 DEF KeptInv, Kept!KeptTypeOK

LEMMA MovedFile ==
    ASSUME Kept!KeptTypeOK, NEW a \in Kept!Names, NEW b \in Kept!Names, a # b
    PROVE  /\ Kept!Moved(a, b) \in [Kept!Names -> Kept!Inodes \cup {"none"}]
           /\ \A n \in Kept!Names :
                 Kept!Moved(a, b)[n] = IF n = b THEN keptFiles[a] ELSE IF n = a THEN "none" ELSE keptFiles[n]
BY DEF Kept!Moved, Kept!KeptTypeOK

LEMMA ClaimsKept ==
    ASSUME KeptInv, Kept!Claims
    PROVE  KeptInv'
<1>1. keptStep = "claims" /\ keptStep' = "wipes" /\ keptFiles' = Kept!Moved(leaf, "claim")
      /\ UNCHANGED <<wiped, leaf, then, else, keptActive, hadTarget, hadBackup, removed, existed, outcome, keptFaults>>
  BY DEF Kept!Claims, Kept!removalVars, Kept!stableVars
<1>2. Context /\ leaf \in Kept!Names \ {"claim"} /\ HeldAs(leaf) # "none"
  BY <1>1, RemovalHasContext
<1>3. "claim" \in Kept!Names
  BY DEF Kept!Names
<1>4. keptFiles' \in [Kept!Names -> Kept!Inodes \cup {"none"}]
      /\ \A n \in Kept!Names : keptFiles'[n] = IF n = "claim" THEN keptFiles[leaf]
                                              ELSE IF n = leaf THEN "none" ELSE keptFiles[n]
  BY <1>1, <1>2, <1>3, MovedFile DEF KeptInv
<1>5. \A n \in Kept!Names \ {"claim"} : HeldAs(n)' = HeldAs(n)
  BY <1>1, <1>2, <1>3, <1>4 DEF HeldAs
<1>6. HeldAs("artifact")' = HeldAs("artifact") /\ HeldAs("stable")' = HeldAs("stable")
      /\ HeldAs("backup")' = HeldAs("backup") /\ HeldAs("backupClaim")' = HeldAs("backupClaim")
      /\ HeldAs("other")' = HeldAs("other")
  BY <1>5 DEF Kept!Names
<1>7. ClaimIsOpen'
  BY <1>1, <1>2, <1>3, <1>4 DEF ClaimIsOpen, HeldAs
<1>8. Kept!KeptTypeOK' /\ OutcomeIsStep'
  BY <1>1, <1>4 DEF KeptInv, Kept!KeptTypeOK, OutcomeIsStep
<1> HIDE DEF HeldAs
<1>cClearing. Clearing => Clearing'
  BY <1>1, <1>6 DEF Clearing, Removing, Lie, Flags, Spent, StoredAs
<1>cFreeing. Freeing => Freeing'
  BY <1>1, <1>6 DEF Freeing, Removing, Lie, Flags, Spent, StoredAs
<1>cDropping. Dropping => Dropping'
  BY <1>1, <1>6 DEF Dropping, Removing, Lie, Flags, Spent, StoredAs
<1>cGivingUp. GivingUp => GivingUp'
  BY <1>1, <1>6 DEF GivingUp, Removing, Lie, Flags, Spent, StoredAs
<1>cUnlinking. Unlinking => Unlinking'
  BY <1>1, <1>6 DEF Unlinking, Removing, Lie, Flags, Spent, StoredAs
<1>cTidying. Tidying => Tidying'
  BY <1>1, <1>6 DEF Tidying, Removing, Lie, Flags, Spent, StoredAs
<1>cExchanging. Exchanging => Exchanging'
  BY <1>1, <1>6 DEF Exchanging, Removing, Lie, Flags, Spent, StoredAs
<1>cTakingBack. TakingBack => TakingBack'
  BY <1>1, <1>6 DEF TakingBack, Removing, Lie, Flags, Spent, StoredAs
<1>9. BeforeSettled' \/ Tidying' \/ Exchanging' \/ TakingBack'
  BY <1>1, <1>2, <1>6, RemovalHasContext, <1>cClearing, <1>cFreeing, <1>cDropping,
     <1>cGivingUp, <1>cUnlinking, <1>cTidying, <1>cExchanging, <1>cTakingBack DEF
     Context, BeforeSettled
<1> QED
  BY <1>7, <1>8, <1>9 DEF KeptInv

LEMMA WipesKept ==
    ASSUME KeptInv, Kept!Wipes
    PROVE  KeptInv'
<1>1. /\ keptStep = "wipes" /\ keptStep' = "unlinks"
      /\ wiped' = IF Kept!Links(keptFiles["claim"]) = 1 THEN wiped \cup {keptFiles["claim"]} ELSE wiped
      /\ UNCHANGED <<keptFiles, leaf, then, else, keptActive, hadTarget, hadBackup, removed, existed, outcome, keptFaults>>
  BY DEF Kept!Wipes, Kept!removalVars, Kept!stableVars
<1>2. Context /\ leaf \in Kept!Names \ {"claim"} /\ HeldAs(leaf) # "none"
  BY <1>1, RemovalHasContext
<1>3. HeldAs("artifact")' = HeldAs("artifact") /\ HeldAs("stable")' = HeldAs("stable")
      /\ HeldAs("backup")' = HeldAs("backup") /\ HeldAs("backupClaim")' = HeldAs("backupClaim")
      /\ HeldAs("other")' = HeldAs("other")
  BY <1>1 DEF HeldAs
<1>4. ClaimIsOpen'
  BY <1>1 DEF ClaimIsOpen, KeptInv
<1>5. keptFiles["claim"] = HeldAs(leaf) /\ keptFiles["claim"] # "none" /\ keptFiles[leaf] = "none"
  BY <1>1 DEF HeldAs, ClaimIsOpen, KeptInv
<1>6. Kept!KeptTypeOK' /\ OutcomeIsStep'
  BY <1>1, <1>2, <1>5 DEF KeptInv, Kept!KeptTypeOK, OutcomeIsStep, Kept!Names
<1>7. Kept!Links(keptFiles["claim"]) = 1
        <=> \A n \in Kept!Names \ {"claim", leaf} : HeldAs(n) # HeldAs(leaf)
  BY <1>1, <1>2, <1>5, LinksOfClaim DEF HeldAs
<1> HIDE DEF HeldAs
<1>cClearing. Clearing /\ HeldAs("other") \in {"none", "stale"} => Clearing'
  BY <1>1, <1>2, <1>3, <1>5, <1>7 DEF Clearing, Removing, Lie, Flags, Spent,
     StoredAs, Kept!Names
<1>cFreeing. Freeing /\ HeldAs("other") \in {"none", "stale"} => Freeing'
  BY <1>1, <1>2, <1>3, <1>5, <1>7 DEF Freeing, Removing, Lie, Flags, Spent,
     StoredAs, Kept!Names
<1>cDropping. Dropping /\ HeldAs("other") \in {"none", "stale"} => Dropping'
  BY <1>1, <1>2, <1>3, <1>5, <1>7 DEF Dropping, Removing, Lie, Flags, Spent,
     StoredAs, Kept!Names
<1>cGivingUp. GivingUp /\ HeldAs("other") \in {"none", "stale"} => GivingUp'
  BY <1>1, <1>2, <1>3, <1>5, <1>7 DEF GivingUp, Removing, Lie, Flags, Spent,
     StoredAs, Kept!Names
<1>cUnlinking. Unlinking /\ HeldAs("other") \in {"none", "stale"} => Unlinking'
  BY <1>1, <1>2, <1>3, <1>5, <1>7 DEF Unlinking, Removing, Lie, Flags, Spent,
     StoredAs, Kept!Names
<1>cTidying. Tidying => Tidying'
  BY <1>1, <1>2, <1>3, <1>5, <1>7 DEF Tidying, Removing, Lie, Flags, Spent,
     StoredAs, Kept!Names
<1>cExchanging. Exchanging => Exchanging'
  BY <1>1, <1>2, <1>3, <1>5, <1>7 DEF Exchanging, Removing, Lie, Flags, Spent,
     StoredAs, Kept!Names
<1>cTakingBack. TakingBack => TakingBack'
  BY <1>1, <1>2, <1>3, <1>5, <1>7 DEF TakingBack, Removing, Lie, Flags, Spent,
     StoredAs, Kept!Names
<1>9. BeforeSettled' \/ Tidying' \/ Exchanging' \/ TakingBack'
  BY <1>1, <1>2, <1>3, RemovalHasContext, <1>cClearing, <1>cFreeing, <1>cDropping,
     <1>cGivingUp, <1>cUnlinking, <1>cTidying, <1>cExchanging, <1>cTakingBack DEF
     Context, BeforeSettled
<1> QED
  BY <1>4, <1>6, <1>9 DEF KeptInv

(* Where one file alone is whole it is counted once.                       *)
LEMMA OneWhole ==
    ASSUME NEW F, NEW W, NEW m \in Kept!Names, F[m] \notin {"none", "stale"} \cup W,
           \A n \in Kept!Names \ {m} : F[n] \in {"none", "stale"} \cup W
    PROVE  Kept!Cardinality({n \in Kept!Names : F[n] \notin {"none", "stale"} \cup W}) = 1
<1>1. {n \in Kept!Names : F[n] \notin {"none", "stale"} \cup W} = {m}
  OBVIOUS
<1>2. Cardinality({m}) = 1
  BY FS_Singleton
<1> QED
  BY <1>1, <1>2, Zenon DEF Kept!Cardinality, Cardinality, Kept!IsFiniteSet, IsFiniteSet

LEMMA EndsFailed ==
    ASSUME keptStep' = "failed", outcome' = "failed",
           \E n \in {"artifact", "stable", "other"} : keptFiles'[n] \notin {"none", "stale"} \cup wiped'
    PROVE  Ending'
BY DEF Ending, Kept!SpeechKept, Kept!StoredOnce, Kept!Intact, Kept!Names

LEMMA EndsOk ==
    ASSUME keptStep' = "ok", outcome' = "ok", NEW m \in {"artifact", "stable", "other"},
           keptFiles'[m] \notin {"none", "stale"} \cup wiped',
           \A n \in Kept!Names \ {m} : keptFiles'[n] \in {"none", "stale"} \cup wiped'
    PROVE  Ending'
<1>1. m \in Kept!Names
  BY DEF Kept!Names
<1>2. Kept!Cardinality({n \in Kept!Names : keptFiles'[n] \notin {"none", "stale"} \cup wiped'}) = 1
  BY <1>1, OneWhole
<1>3. Kept!SpeechKept'
  BY <1>1 DEF Kept!SpeechKept, Kept!Intact
<1> QED
  BY <1>2, <1>3 DEF Ending, Kept!StoredOnce, Kept!Intact

LEMMA UnlinksKept ==
    ASSUME KeptInv, Kept!Unlinks
    PROVE  KeptInv'
<1>1. /\ keptStep = "unlinks" /\ keptFiles' = [keptFiles EXCEPT !["claim"] = "none"]
      /\ removed' = (removed \/ then = "activates")
      /\ IF then \in {"ok", "failed"} THEN keptStep' = then /\ outcome' = then
         ELSE keptStep' = then /\ UNCHANGED outcome
      /\ UNCHANGED <<wiped, leaf, then, else, keptActive, hadTarget, hadBackup, existed, keptFaults>>
  BY DEF Kept!Unlinks, Kept!removalVars, Kept!Goes, Kept!Ends
<1>2. Context /\ leaf \in Kept!Names \ {"claim"} /\ HeldAs(leaf) # "none"
  BY <1>1, RemovalHasContext
<1>3. then \in {"links", "activates", "keeps", "restores", "failed", "ok"}
  BY <1>1, <1>2 DEF Context, Removing, Clearing, Freeing, Dropping, GivingUp,
     Unlinking, Tidying, Exchanging, TakingBack
<1>4. keptStep' \notin {"claims", "wipes", "unlinks"}
  BY <1>1, <1>3
<1>5. /\ keptFiles' \in [Kept!Names -> Kept!Inodes \cup {"none"}]
      /\ keptFiles'["claim"] = "none" /\ keptFiles[leaf] = "none"
      /\ \A n \in Kept!Names \ {"claim"} : keptFiles'[n] = keptFiles[n]
  BY <1>1 DEF KeptInv, Kept!KeptTypeOK, Kept!Names, ClaimIsOpen
<1>6. /\ keptFiles'[leaf] = "none"
      /\ \A n \in Kept!Names \ {"claim", leaf} : keptFiles'[n] = HeldAs(n)
  BY <1>1, <1>2, <1>5 DEF HeldAs
<1>7. \A n \in Kept!Names : HeldAs(n)' = keptFiles'[n]
  BY <1>4 DEF HeldAs
<1>8. ClaimIsOpen' /\ Kept!KeptTypeOK' /\ OutcomeIsStep'
  <2>1. removed' \in BOOLEAN
    BY <1>1 DEF KeptInv, Kept!KeptTypeOK
  <2>2. ClaimIsOpen'
    BY <1>4, <1>5 DEF ClaimIsOpen
  <2>3. OutcomeIsStep'
    BY <1>1, <1>3 DEF OutcomeIsStep, KeptInv
  <2> QED
    BY <1>1, <1>3, <1>5, <2>1, <2>2, <2>3 DEF KeptInv, Kept!KeptTypeOK
<1> HIDE DEF HeldAs
<1>cClearing. Clearing /\ HeldAs("other") \in {"none", "stale"} => Linking' /\ HeldAs("other")' \in {"none", "stale"}
  BY <1>1, <1>6, <1>7 DEF Clearing, Linking, Removing, Lie, Flags, Spent,
     StoredAs, OldIsBackup, OldBackup, Kept!Names
<1>cFreeing. Freeing /\ HeldAs("other") \in {"none", "stale"} => Activating' /\ HeldAs("other")' \in {"none", "stale"}
  BY <1>1, <1>6, <1>7 DEF Freeing, Activating, Removing, Lie, Flags, Spent,
     StoredAs, OldIsBackup, OldBackup, Kept!Names
<1>cDropping. Dropping /\ HeldAs("other") \in {"none", "stale"} => Keeping' /\ HeldAs("other")' \in {"none", "stale"}
  BY <1>1, <1>6, <1>7 DEF Dropping, Keeping, Removing, Lie, Flags, Spent,
     StoredAs, OldIsBackup, OldBackup, Kept!Names
<1>cGivingUp. GivingUp /\ HeldAs("other") \in {"none", "stale"} => Restoring' /\ HeldAs("other")' \in {"none", "stale"}
  BY <1>1, <1>6, <1>7 DEF GivingUp, Restoring, Removing, Lie, Flags, Spent,
     StoredAs, OldIsBackup, OldBackup, Kept!Names
<1>u1. ASSUME Unlinking \/ TakingBack PROVE Ending'
  <2>1. keptStep' = "failed" /\ outcome' = "failed"
    BY <1>1, <1>u1 DEF Unlinking, TakingBack, Removing
  <2>2. keptFiles'["stable"] \notin {"none", "stale"} \cup wiped'
    BY <1>1, <1>6, <1>u1 DEF Unlinking, TakingBack, Removing, Lie, StoredAs, Kept!Names
  <2> QED
    BY <2>1, <2>2, EndsFailed
<1>u2. ASSUME Tidying PROVE Ending'
  <2>1. keptStep' = "ok" /\ outcome' = "ok"
    BY <1>1, <1>u2 DEF Tidying, Removing
  <2>2. /\ keptFiles'["stable"] \notin {"none", "stale"} \cup wiped'
        /\ \A n \in Kept!Names \ {"stable"} : keptFiles'[n] \in {"none", "stale"} \cup wiped'
    BY <1>1, <1>5, <1>6, <1>u2 DEF Tidying, Removing, Lie, StoredAs, Kept!Names
  <2> QED
    BY <2>1, <2>2, EndsOk
<1>u3. ASSUME Exchanging PROVE Ending'
  <2>1. keptStep' = "ok" /\ outcome' = "ok"
    BY <1>1, <1>u3 DEF Exchanging, Removing
  <2>2. /\ keptFiles'["other"] \notin {"none", "stale"} \cup wiped'
        /\ \A n \in Kept!Names \ {"other"} : keptFiles'[n] \in {"none", "stale"} \cup wiped'
    BY <1>1, <1>5, <1>6, <1>u3 DEF Exchanging, Removing, Lie, Kept!Names
  <2> QED
    BY <2>1, <2>2, EndsOk
<1>9. BeforeSettled' \/ Ending'
  BY <1>1, <1>2, RemovalHasContext, <1>cClearing, <1>cFreeing, <1>cDropping, <1>cGivingUp, <1>u1, <1>u2, <1>u3
     DEF Context, BeforeSettled
<1> QED
  BY <1>8, <1>9 DEF KeptInv

(* A removal that fails puts the file back or, after the unlink, has lost   *)
(* it; no other call may fail then.                                        *)
LEMMA RemovalFailsKept ==
    ASSUME Kept!KeptAssumption, MaxKeptFaults <= 1, ~RemovalMayFail, KeptInv, Kept!RemovalFails
    PROVE  KeptInv'
<1>1. /\ keptStep \in {"claims", "wipes", "unlinks"} /\ keptFaults' = keptFaults + 1
      /\ keptFaults < MaxKeptFaults
      /\ IF else \in {"ok", "failed"} THEN keptStep' = else /\ outcome' = else
         ELSE keptStep' = else /\ UNCHANGED outcome
      /\ then = "ok" /\ else = "undoes" => keptStep = "claims"
      /\ UNCHANGED <<leaf, then, else, keptActive, hadTarget, hadBackup, removed, existed>>
  BY DEF Kept!RemovalFails, Kept!removalVars, Kept!stableVars, Kept!Goes, Kept!Ends, Kept!Fault
<1>2. /\ Context /\ leaf \in Kept!Names \ {"claim"} /\ HeldAs(leaf) # "none"
      /\ Tidying \/ Exchanging \/ TakingBack \/ HeldAs("other") \in {"none", "stale"}
  BY <1>1, RemovalHasContext
<1>3. Spent' /\ ~Spent
  BY <1>1 DEF Spent, Kept!KeptAssumption, KeptInv, Kept!KeptTypeOK
<1>4. Clearing \/ Freeing \/ Dropping \/ Tidying \/ Exchanging
  BY <1>2, <1>3 DEF Context, GivingUp, Unlinking, TakingBack
<1>5. else \in {"failed", "rollback", "backs", "undoes"}
  BY <1>4 DEF Clearing, Freeing, Dropping, Tidying, Exchanging, Removing
<1> DEFINE IsBack == /\ keptFiles'["claim"] = "none"
                      /\ \A n \in Kept!Names \ {"claim"} : keptFiles'[n] = HeldAs(n)
           IsLost == /\ keptStep = "unlinks" /\ keptFiles'["claim"] = "none" /\ keptFiles'[leaf] = "none"
                   /\ \A n \in Kept!Names \ {"claim", leaf} : keptFiles'[n] = HeldAs(n)
<1>6. keptFiles' \in [Kept!Names -> Kept!Inodes \cup {"none"}] /\ (IsBack \/ IsLost)
  <2>1. "claim" \in Kept!Names
    BY DEF Kept!Names
  <2>2. CASE keptStep = "claims"
    <3>1. keptFiles' = keptFiles
      BY <2>2 DEF Kept!RemovalFails
    <3> QED
      BY <2>2, <3>1 DEF KeptInv, Kept!KeptTypeOK, ClaimIsOpen, HeldAs
  <2>3. CASE keptFiles' = Kept!Moved("claim", leaf) /\ keptStep # "claims"
    <3>1. /\ keptFiles' \in [Kept!Names -> Kept!Inodes \cup {"none"}]
          /\ \A n \in Kept!Names :
                keptFiles'[n] = IF n = leaf THEN keptFiles["claim"]
                                ELSE IF n = "claim" THEN "none" ELSE keptFiles[n]
      BY <1>2, <2>1, <2>3, MovedFile DEF KeptInv
    <3> QED
      BY <1>1, <1>2, <2>1, <2>3, <3>1 DEF HeldAs
  <2>4. CASE keptStep = "unlinks" /\ keptFiles' = [keptFiles EXCEPT !["claim"] = "none"]
    <3>1. /\ keptFiles' \in [Kept!Names -> Kept!Inodes \cup {"none"}]
          /\ keptFiles'["claim"] = "none" /\ keptFiles[leaf] = "none"
          /\ \A n \in Kept!Names \ {"claim"} : keptFiles'[n] = keptFiles[n]
      BY <2>1, <2>4 DEF KeptInv, Kept!KeptTypeOK, ClaimIsOpen
    <3> QED
      BY <1>2, <2>4, <3>1 DEF HeldAs
  <2> QED
    BY <1>1, <2>2, <2>3, <2>4 DEF Kept!RemovalFails
<1>7. \/ wiped' = wiped
      \/ /\ wiped' = wiped \cup {HeldAs(leaf)} /\ keptStep = "wipes"
         /\ \A n \in Kept!Names \ {"claim", leaf} : HeldAs(n) # HeldAs(leaf)
  <2>1. CASE keptStep = "wipes" /\ Kept!Links(keptFiles["claim"]) = 1
    <3>1. \A n \in Kept!Names \ {"claim"} : keptFiles[n] # keptFiles["claim"]
      BY <2>1, LinksOfClaim
    <3> QED
      BY <1>2, <2>1, <3>1 DEF Kept!RemovalFails, HeldAs
  <2>2. CASE ~(keptStep = "wipes" /\ Kept!Links(keptFiles["claim"]) = 1)
    BY <2>2 DEF Kept!RemovalFails
  <2> QED
    BY <2>1, <2>2
<1>8. \A n \in Kept!Names : HeldAs(n)' = keptFiles'[n]
  BY <1>1, <1>5 DEF HeldAs
<1>9. ClaimIsOpen' /\ Kept!KeptTypeOK' /\ OutcomeIsStep'
  <2>1. wiped' \subseteq Kept!Inodes
    <3>1. HeldAs(leaf) \in Kept!Inodes
      <4>1. "claim" \in Kept!Names
        BY DEF Kept!Names
      <4> QED
        BY <1>2, <4>1 DEF HeldAs, KeptInv, Kept!KeptTypeOK
    <3> QED
      BY <1>7, <3>1 DEF KeptInv, Kept!KeptTypeOK
  <2>2. keptFaults' \in 0..MaxKeptFaults
    BY <1>1 DEF KeptInv, Kept!KeptTypeOK, Kept!KeptAssumption
  <2>3. ClaimIsOpen'
    BY <1>1, <1>5, <1>6 DEF ClaimIsOpen
  <2>4. OutcomeIsStep'
    BY <1>1, <1>5 DEF OutcomeIsStep, KeptInv
  <2> QED
    BY <1>1, <1>5, <1>6, <2>1, <2>2, <2>3, <2>4 DEF KeptInv, Kept!KeptTypeOK
<1> HIDE DEF HeldAs
<1>10. ASSUME Clearing PROVE Ending'
  <2>1. keptStep' = "failed" /\ outcome' = "failed"
    BY <1>1, <1>10 DEF Clearing, Removing
  <2>2. keptFiles'["stable"] \notin {"none", "stale"} \cup wiped'
    BY <1>6, <1>7, <1>10 DEF Clearing, Removing, Lie, Kept!Names
  <2> QED
    BY <2>1, <2>2, EndsFailed
<1>11. ASSUME Freeing PROVE Rolling'
  <2>1. keptStep' = "rollback" /\ keptActive' /\ wiped' = {} /\ Flags(TRUE, TRUE, FALSE)'
    BY <1>1, <1>7, <1>11 DEF Freeing, Removing, Lie, Flags, Kept!Names
  <2>2. Lie("trimmed", "original", "original", "none")' \/ Lie("trimmed", "none", "original", "none")'
    BY <1>6, <1>8, <1>11 DEF Freeing, Removing, Lie, Kept!Names
  <2> QED
    BY <1>3, <2>1, <2>2 DEF Rolling, Flags
<1>12. ASSUME Dropping, HeldAs("other") \in {"none", "stale"} PROVE Backing'
  <2>1. keptStep' = "backs" /\ keptActive' /\ Flags(TRUE, TRUE, TRUE)'
    BY <1>1, <1>12 DEF Dropping, Removing, Flags
  <2>2. wiped' \subseteq {"original"}
    BY <1>7, <1>12 DEF Dropping, Removing, Lie
  <2>3. CASE IsBack
    <3>1. Lie("none", "trimmed", "none", "original")'
      BY <1>8, <1>12, <2>3 DEF Dropping, Removing, Lie, Kept!Names
    <3> QED
      BY <1>3, <2>1, <2>2, <3>1 DEF Backing
  <2>4. CASE IsLost
    <3>1. Lie("none", "trimmed", "none", "none")' /\ wiped' = {"original"}
      BY <1>7, <1>8, <1>12, <2>4 DEF Dropping, Removing, Lie, Kept!Names
    <3> QED
      BY <1>3, <2>1, <3>1 DEF Backing
  <2> QED
    BY <1>6, <2>3, <2>4
<1>13. ASSUME Tidying PROVE Ending'
  <2>1. keptStep' = "failed" /\ outcome' = "failed"
    BY <1>1, <1>13 DEF Tidying, Removing
  <2>2. keptFiles'["stable"] \notin {"none", "stale"} \cup wiped'
    BY <1>6, <1>7, <1>13 DEF Tidying, Removing, Lie, StoredAs, Kept!Names
  <2> QED
    BY <2>1, <2>2, EndsFailed
<1>14. ASSUME Exchanging PROVE TakingBack'
  <2>1. keptStep = "claims" /\ keptStep' = "undoes"
    BY <1>1, <1>14 DEF Exchanging, Removing
  <2>2. wiped' = wiped /\ IsBack
    BY <1>6, <1>7, <2>1
  <2>3. HeldAs("other")' = "copy"
    BY <1>8, <1>14, <2>2 DEF Exchanging, Kept!Names
  <2>4. \E m \in {"original", "trimmed"} : StoredAs(m)'
    BY <1>8, <1>14, <2>1, <2>2 DEF Exchanging, StoredAs, Lie, Kept!Names
  <2> QED
    BY <1>3, <2>1, <2>3, <2>4 DEF TakingBack
<1>15. Clearing \/ Freeing \/ Dropping => HeldAs("other")' \in {"none", "stale"}
  <2>1. Clearing \/ Freeing \/ Dropping => HeldAs("other") \in {"none", "stale"} /\ leaf # "other"
    BY <1>2 DEF Clearing, Freeing, Dropping, Tidying, Exchanging, TakingBack, Removing
  <2> QED
    BY <1>6, <1>8, <2>1 DEF Kept!Names
<1> QED
  BY <1>4, <1>2, <1>9, <1>10, <1>11, <1>12, <1>13, <1>14, <1>15
     DEF KeptInv, BeforeSettled, Clearing, Freeing, Dropping, Tidying, Exchanging, TakingBack, Removing


(* The other steps begin and end outside of a removal.                     *)
LEMMA PlainStep ==
    ASSUME Kept!KeptAssumption, MaxKeptFaults <= 1, KeptInv, keptStep \notin {"claims", "wipes", "unlinks"},
           keptStep \notin {"ok", "failed", "killed"},
           keptStep' \notin {"wipes", "unlinks"}
    PROVE  /\ \A n \in Kept!Names : HeldAs(n) = keptFiles[n] /\ HeldAs(n)' = keptFiles'[n]
           /\ keptFiles["claim"] = "none" /\ outcome = "none"
           /\ Kept!Fault => Spent' /\ ~Spent /\ keptFaults' \in 0..MaxKeptFaults
           /\ keptFiles \in [Kept!Names -> Kept!Inodes \cup {"none"}]
BY DEF HeldAs, KeptInv, Kept!KeptTypeOK, ClaimIsOpen, OutcomeIsStep, Kept!Fault, Spent, Kept!KeptAssumption

LEMMA LooksKept ==
    ASSUME Kept!KeptAssumption, MaxKeptFaults <= 1, KeptInv, Kept!Looks
    PROVE  KeptInv'
<1>1. keptStep = "looks" /\ keptStep' \notin {"wipes", "unlinks"}
  BY DEF Kept!Looks, Kept!removalVars, Kept!Holds, Kept!Removes
<1>2. Looking
      /\ HeldAs("other") \in {"none", "stale"}
  BY <1>1 DEF KeptInv, BeforeSettled, Ending, Removing, Clearing, Freeing,
     Dropping, GivingUp, Unlinking, Tidying, Exchanging, TakingBack, Looking,
     Linking, Activating, HasActivated, Backing, Rolling, Restoring, Keeping,
     Converting
<1>3. /\ \A n \in Kept!Names : HeldAs(n) = keptFiles[n] /\ HeldAs(n)' = keptFiles'[n]
      /\ keptFiles["claim"] = "none" /\ outcome = "none"
      /\ Kept!Fault => Spent' /\ ~Spent /\ keptFaults' \in 0..MaxKeptFaults
      /\ keptFiles \in [Kept!Names -> Kept!Inodes \cup {"none"}]
  BY <1>1, PlainStep
<1>4. Kept!KeptTypeOK'
  BY <1>3 DEF Kept!Looks, Kept!removalVars, Kept!Holds, Kept!Removes, KeptInv,
     Kept!KeptTypeOK, Kept!Names, Kept!Inodes<1>5. ClaimIsOpen' /\ OutcomeIsStep'
  BY <1>1, <1>3 DEF Kept!Looks, Kept!removalVars, Kept!Holds, Kept!Removes,
     ClaimIsOpen, OutcomeIsStep, Kept!Names
<1> HIDE DEF HeldAs
<1>6. Activating' \/ Clearing' \/ Linking'
  <2>1. PICK s \in {"none", "original"}, b \in {"none", "original"} :
           Lie("trimmed", s, b, "none") /\ (b # "none" => s # "none")
    BY <1>2 DEF Looking
  <2>2. /\ keptFiles["stable"] = s /\ keptFiles["backup"] = b /\ keptFiles' = keptFiles
        /\ Lie("trimmed", s, b, "none")'
    BY <1>3, <2>1 DEF Lie, Kept!Looks, Kept!Names
  <2>3. /\ wiped' = {} /\ hadBackup' = FALSE /\ removed' = FALSE
        /\ hadTarget' = (s # "none") /\ keptActive = FALSE
    BY <1>2, <2>2 DEF Looking, Flags, Kept!Looks, Kept!Holds, KeptInv, Kept!KeptTypeOK
  <2>4. CASE s = "none"
    <3>1. keptStep' = "activates" /\ keptActive' /\ b = "none"
      BY <2>1, <2>2, <2>4 DEF Kept!Looks, Kept!Holds
    <3> QED
      BY <2>2, <2>3, <2>4, <3>1 DEF Activating, OldIsBackup, OldBackup
  <2>5. CASE s = "original" /\ b = "original"
    <3>1. keptStep' = "claims" /\ leaf' = "backup" /\ then' = "links" /\ else' = "failed" /\ keptActive' = FALSE
      BY <2>2, <2>3, <2>5 DEF Kept!Looks, Kept!Holds, Kept!Removes
    <3> QED
      BY <2>2, <2>3, <2>5, <3>1 DEF Clearing, Removing, Flags
  <2>6. CASE s = "original" /\ b = "none"
    <3>1. keptStep' = "links" /\ keptActive' = FALSE
      BY <2>2, <2>3, <2>6 DEF Kept!Looks, Kept!Holds
    <3> QED
      BY <2>2, <2>3, <2>6, <3>1 DEF Linking, Flags
  <2> QED
    BY <2>1, <2>4, <2>5, <2>6
<1>7. HeldAs("other")' = HeldAs("other") \/ FALSE
  BY <1>1, <1>2, <1>3, <1>6 DEF Kept!Looks, Kept!removalVars, Kept!Holds,
     Kept!Removes, Kept!Names
<1> QED
  BY <1>2, <1>4, <1>5, <1>6, <1>7 DEF KeptInv, BeforeSettled

LEMMA LinksBackupKept ==
    ASSUME Kept!KeptAssumption, MaxKeptFaults <= 1, KeptInv, Kept!LinksBackup
    PROVE  KeptInv'
<1>1. keptStep = "links" /\ keptStep' \notin {"wipes", "unlinks"}
  BY DEF Kept!LinksBackup, Kept!Removes
<1>2. Linking
      /\ HeldAs("other") \in {"none", "stale"}
  BY <1>1 DEF KeptInv, BeforeSettled, Ending, Removing, Clearing, Freeing,
     Dropping, GivingUp, Unlinking, Tidying, Exchanging, TakingBack, Looking,
     Linking, Activating, HasActivated, Backing, Rolling, Restoring, Keeping,
     Converting
<1>3. /\ \A n \in Kept!Names : HeldAs(n) = keptFiles[n] /\ HeldAs(n)' = keptFiles'[n]
      /\ keptFiles["claim"] = "none" /\ outcome = "none"
      /\ Kept!Fault => Spent' /\ ~Spent /\ keptFaults' \in 0..MaxKeptFaults
      /\ keptFiles \in [Kept!Names -> Kept!Inodes \cup {"none"}]
  BY <1>1, PlainStep
<1>4. Kept!KeptTypeOK'
  BY <1>3 DEF Kept!LinksBackup, Kept!Removes, KeptInv, Kept!KeptTypeOK,
     Kept!Names, Kept!Inodes<1>5. ClaimIsOpen' /\ OutcomeIsStep'
  BY <1>1, <1>3 DEF Kept!LinksBackup, Kept!Removes, ClaimIsOpen, OutcomeIsStep,
     Kept!Names
<1> HIDE DEF HeldAs
<1>6. Freeing'
  BY <1>1, <1>2, <1>3 DEF Kept!LinksBackup, Kept!Removes, Linking, Freeing, Lie,
     Flags, StoredAs, OldIsBackup, OldBackup, Removing, Spent, Kept!Names<1>7. HeldAs("other")' = HeldAs("other") \/ FALSE
  BY <1>1, <1>2, <1>3, <1>6 DEF Kept!LinksBackup, Kept!Removes, Kept!Names
<1> QED
  BY <1>2, <1>4, <1>5, <1>6, <1>7 DEF KeptInv, BeforeSettled

LEMMA BackupFailsKept ==
    ASSUME Kept!KeptAssumption, MaxKeptFaults <= 1, KeptInv, Kept!BackupFails
    PROVE  KeptInv'
<1>1. keptStep = "links" /\ keptStep' \notin {"wipes", "unlinks"}
  BY DEF Kept!BackupFails, Kept!stableVars, Kept!Fault, Kept!Removes
<1>2. Linking
      /\ HeldAs("other") \in {"none", "stale"}
  BY <1>1 DEF KeptInv, BeforeSettled, Ending, Removing, Clearing, Freeing,
     Dropping, GivingUp, Unlinking, Tidying, Exchanging, TakingBack, Looking,
     Linking, Activating, HasActivated, Backing, Rolling, Restoring, Keeping,
     Converting
<1>3. /\ \A n \in Kept!Names : HeldAs(n) = keptFiles[n] /\ HeldAs(n)' = keptFiles'[n]
      /\ keptFiles["claim"] = "none" /\ outcome = "none"
      /\ Kept!Fault => Spent' /\ ~Spent /\ keptFaults' \in 0..MaxKeptFaults
      /\ keptFiles \in [Kept!Names -> Kept!Inodes \cup {"none"}]
  BY <1>1, PlainStep
<1>4. Kept!KeptTypeOK'
  BY <1>3 DEF Kept!BackupFails, Kept!stableVars, Kept!Fault, Kept!Removes,
     KeptInv, Kept!KeptTypeOK, Kept!Names, Kept!Inodes<1>5. ClaimIsOpen' /\ OutcomeIsStep'
  BY <1>1, <1>3 DEF Kept!BackupFails, Kept!stableVars, Kept!Fault, Kept!Removes,
     ClaimIsOpen, OutcomeIsStep, Kept!Names
<1> HIDE DEF HeldAs
<1>6. Unlinking'
  BY <1>1, <1>2, <1>3 DEF Kept!BackupFails, Kept!stableVars, Kept!Fault,
     Kept!Removes, Linking, Unlinking, Lie, Flags, StoredAs, OldIsBackup,
     OldBackup, Removing, Spent, Kept!Names<1>7. HeldAs("other")' = HeldAs("other") \/ FALSE
  BY <1>1, <1>2, <1>3, <1>6 DEF Kept!BackupFails, Kept!stableVars, Kept!Fault,
     Kept!Removes, Kept!Names
<1> QED
  BY <1>2, <1>4, <1>5, <1>6, <1>7 DEF KeptInv, BeforeSettled

LEMMA ActivatesKept ==
    ASSUME Kept!KeptAssumption, MaxKeptFaults <= 1, KeptInv, Kept!Activates
    PROVE  KeptInv'
<1>1. keptStep = "activates" /\ keptStep' \notin {"wipes", "unlinks"}
  BY DEF Kept!Activates, Kept!removalVars, Kept!stableVars, Kept!Moved
<1>2. Activating
      /\ HeldAs("other") \in {"none", "stale"}
  BY <1>1 DEF KeptInv, BeforeSettled, Ending, Removing, Clearing, Freeing,
     Dropping, GivingUp, Unlinking, Tidying, Exchanging, TakingBack, Looking,
     Linking, Activating, HasActivated, Backing, Rolling, Restoring, Keeping,
     Converting
<1>3. /\ \A n \in Kept!Names : HeldAs(n) = keptFiles[n] /\ HeldAs(n)' = keptFiles'[n]
      /\ keptFiles["claim"] = "none" /\ outcome = "none"
      /\ Kept!Fault => Spent' /\ ~Spent /\ keptFaults' \in 0..MaxKeptFaults
      /\ keptFiles \in [Kept!Names -> Kept!Inodes \cup {"none"}]
  BY <1>1, PlainStep
<1>4. Kept!KeptTypeOK'
  BY <1>3 DEF Kept!Activates, Kept!removalVars, Kept!stableVars, Kept!Moved,
     KeptInv, Kept!KeptTypeOK, Kept!Names, Kept!Inodes<1>5. ClaimIsOpen' /\ OutcomeIsStep'
  BY <1>1, <1>3 DEF Kept!Activates, Kept!removalVars, Kept!stableVars, Kept!Moved,
     ClaimIsOpen, OutcomeIsStep, Kept!Names
<1> HIDE DEF HeldAs
<1>6. HasActivated'
  BY <1>1, <1>2, <1>3 DEF Kept!Activates, Kept!removalVars, Kept!stableVars,
     Kept!Moved, Activating, HasActivated, Lie, Flags, StoredAs, OldIsBackup,
     OldBackup, Removing, Spent, Kept!Names<1>7. HeldAs("other")' = HeldAs("other") \/ FALSE
  BY <1>1, <1>2, <1>3, <1>6 DEF Kept!Activates, Kept!removalVars, Kept!stableVars,
     Kept!Moved, Kept!Names
<1> QED
  BY <1>2, <1>4, <1>5, <1>6, <1>7 DEF KeptInv, BeforeSettled

LEMMA ActivatedKept ==
    ASSUME Kept!KeptAssumption, MaxKeptFaults <= 1, KeptInv, Kept!Activated
    PROVE  KeptInv'
<1>1. keptStep = "activated" /\ keptStep' \notin {"wipes", "unlinks"}
  BY DEF Kept!Activated, Kept!removalVars, Kept!Moved, Kept!Removes
<1>2. HasActivated
      /\ HeldAs("other") \in {"none", "stale"}
  BY <1>1 DEF KeptInv, BeforeSettled, Ending, Removing, Clearing, Freeing,
     Dropping, GivingUp, Unlinking, Tidying, Exchanging, TakingBack, Looking,
     Linking, Activating, HasActivated, Backing, Rolling, Restoring, Keeping,
     Converting
<1>3. /\ \A n \in Kept!Names : HeldAs(n) = keptFiles[n] /\ HeldAs(n)' = keptFiles'[n]
      /\ keptFiles["claim"] = "none" /\ outcome = "none"
      /\ Kept!Fault => Spent' /\ ~Spent /\ keptFaults' \in 0..MaxKeptFaults
      /\ keptFiles \in [Kept!Names -> Kept!Inodes \cup {"none"}]
  BY <1>1, PlainStep
<1>4. Kept!KeptTypeOK'
  <2>1. keptFiles' \in [Kept!Names -> Kept!Inodes \cup {"none"}]
    <3>1. "backup" \in Kept!Names /\ "backupClaim" \in Kept!Names
      BY DEF Kept!Names
    <3> QED
      BY <1>3, <3>1, MovedFile DEF Kept!Activated, KeptInv
  <2>2. keptActive' \in BOOLEAN
    BY DEF Kept!Activated, KeptInv, Kept!KeptTypeOK
  <2>3. leaf' \in Kept!Names \cup {"none"}
    BY DEF Kept!Activated, Kept!Removes, Kept!removalVars, KeptInv, Kept!KeptTypeOK, Kept!Names
  <2>4. keptStep' \in {"claims", "keeps"} /\ UNCHANGED <<wiped, hadTarget, hadBackup, removed, existed, outcome, keptFaults>>
    BY DEF Kept!Activated, Kept!Removes
  <2> QED
    BY <2>1, <2>2, <2>3, <2>4 DEF KeptInv, Kept!KeptTypeOK
<1>5. ClaimIsOpen' /\ OutcomeIsStep'
  BY <1>1, <1>3 DEF Kept!Activated, Kept!removalVars, Kept!Moved, Kept!Removes,
     ClaimIsOpen, OutcomeIsStep, Kept!Names
<1> HIDE DEF HeldAs
<1>6. Dropping' \/ Keeping'
  BY <1>1, <1>2, <1>3 DEF Kept!Activated, Kept!removalVars, Kept!Moved,
     Kept!Removes, HasActivated, Dropping, Keeping, Lie, Flags, StoredAs,
     OldIsBackup, OldBackup, Removing, Spent, Kept!Names<1>7. HeldAs("other")' = HeldAs("other") \/ FALSE
  BY <1>1, <1>2, <1>3, <1>6 DEF Kept!Activated, Kept!removalVars, Kept!Moved,
     Kept!Removes, Kept!Names
<1> QED
  BY <1>2, <1>4, <1>5, <1>6, <1>7 DEF KeptInv, BeforeSettled

LEMMA BacksUpAgainKept ==
    ASSUME Kept!KeptAssumption, MaxKeptFaults <= 1, KeptInv, Kept!BacksUpAgain
    PROVE  KeptInv'
<1>1. keptStep = "backs" /\ keptStep' \notin {"wipes", "unlinks"}
  BY DEF Kept!BacksUpAgain, Kept!removalVars, Kept!stableVars, Kept!Holds,
     Kept!Moved
<1>2. Backing
      /\ HeldAs("other") \in {"none", "stale"}
  BY <1>1 DEF KeptInv, BeforeSettled, Ending, Removing, Clearing, Freeing,
     Dropping, GivingUp, Unlinking, Tidying, Exchanging, TakingBack, Looking,
     Linking, Activating, HasActivated, Backing, Rolling, Restoring, Keeping,
     Converting
<1>3. /\ \A n \in Kept!Names : HeldAs(n) = keptFiles[n] /\ HeldAs(n)' = keptFiles'[n]
      /\ keptFiles["claim"] = "none" /\ outcome = "none"
      /\ Kept!Fault => Spent' /\ ~Spent /\ keptFaults' \in 0..MaxKeptFaults
      /\ keptFiles \in [Kept!Names -> Kept!Inodes \cup {"none"}]
  BY <1>1, PlainStep
<1>4. Kept!KeptTypeOK'
  BY <1>3 DEF Kept!BacksUpAgain, Kept!removalVars, Kept!stableVars, Kept!Holds,
     Kept!Moved, KeptInv, Kept!KeptTypeOK, Kept!Names, Kept!Inodes<1>5. ClaimIsOpen' /\ OutcomeIsStep'
  BY <1>1, <1>3 DEF Kept!BacksUpAgain, Kept!removalVars, Kept!stableVars,
     Kept!Holds, Kept!Moved, ClaimIsOpen, OutcomeIsStep, Kept!Names
<1> HIDE DEF HeldAs
<1>6. Rolling'
  BY <1>1, <1>2, <1>3 DEF Kept!BacksUpAgain, Kept!removalVars, Kept!stableVars,
     Kept!Holds, Kept!Moved, Backing, Rolling, Lie, Flags, StoredAs, OldIsBackup,
     OldBackup, Removing, Spent, Kept!Names<1>7. HeldAs("other")' = HeldAs("other") \/ FALSE
  BY <1>1, <1>2, <1>3, <1>6 DEF Kept!BacksUpAgain, Kept!removalVars,
     Kept!stableVars, Kept!Holds, Kept!Moved, Kept!Names
<1> QED
  BY <1>2, <1>4, <1>5, <1>6, <1>7 DEF KeptInv, BeforeSettled

LEMMA RollsBackToArtifactKept ==
    ASSUME Kept!KeptAssumption, MaxKeptFaults <= 1, KeptInv, Kept!RollsBackToArtifact
    PROVE  KeptInv'
<1>1. keptStep = "rollback" /\ keptStep' \notin {"wipes", "unlinks"}
  BY DEF Kept!RollsBackToArtifact, Kept!removalVars, Kept!stableVars, Kept!Holds,
     Kept!Moved, Kept!Ends, Kept!Active
<1>2. Rolling
      /\ HeldAs("other") \in {"none", "stale"}
  BY <1>1 DEF KeptInv, BeforeSettled, Ending, Removing, Clearing, Freeing,
     Dropping, GivingUp, Unlinking, Tidying, Exchanging, TakingBack, Looking,
     Linking, Activating, HasActivated, Backing, Rolling, Restoring, Keeping,
     Converting
<1>3. /\ \A n \in Kept!Names : HeldAs(n) = keptFiles[n] /\ HeldAs(n)' = keptFiles'[n]
      /\ keptFiles["claim"] = "none" /\ outcome = "none"
      /\ Kept!Fault => Spent' /\ ~Spent /\ keptFaults' \in 0..MaxKeptFaults
      /\ keptFiles \in [Kept!Names -> Kept!Inodes \cup {"none"}]
  BY <1>1, PlainStep
<1>4. Kept!KeptTypeOK'
  BY <1>3 DEF Kept!RollsBackToArtifact, Kept!removalVars, Kept!stableVars,
     Kept!Holds, Kept!Moved, Kept!Ends, Kept!Active, KeptInv, Kept!KeptTypeOK,
     Kept!Names, Kept!Inodes<1>5. ClaimIsOpen' /\ OutcomeIsStep'
  BY <1>1, <1>3 DEF Kept!RollsBackToArtifact, Kept!removalVars, Kept!stableVars,
     Kept!Holds, Kept!Moved, Kept!Ends, Kept!Active, ClaimIsOpen, OutcomeIsStep,
     Kept!Names
<1> HIDE DEF HeldAs
<1>6. Ending'
  BY <1>1, <1>2, <1>3 DEF Kept!RollsBackToArtifact, Kept!removalVars,
     Kept!stableVars, Kept!Holds, Kept!Moved, Kept!Ends, Kept!Active, Rolling,
     Ending, Lie, Flags, StoredAs, OldIsBackup, OldBackup, Removing, Spent,
     Kept!Names, Kept!SpeechKept, Kept!StoredOnce, Kept!Intact<1>7. HeldAs("other")' = HeldAs("other") \/ Ending'
  BY <1>1, <1>2, <1>3, <1>6 DEF Kept!RollsBackToArtifact, Kept!removalVars,
     Kept!stableVars, Kept!Holds, Kept!Moved, Kept!Ends, Kept!Active, Kept!Names
<1> QED
  BY <1>2, <1>4, <1>5, <1>6, <1>7 DEF KeptInv, BeforeSettled

LEMMA RollsBackToOldKept ==
    ASSUME Kept!KeptAssumption, MaxKeptFaults <= 1, KeptInv, Kept!RollsBackToOld
    PROVE  KeptInv'
<1>1. keptStep = "rollback" /\ keptStep' \notin {"wipes", "unlinks"}
  BY DEF Kept!RollsBackToOld, Kept!removalVars, Kept!stableVars, Kept!Holds,
     Kept!Ends, Kept!Removes, Kept!Active, Kept!BackupUnchanged
<1>2. Rolling
      /\ HeldAs("other") \in {"none", "stale"}
  BY <1>1 DEF KeptInv, BeforeSettled, Ending, Removing, Clearing, Freeing,
     Dropping, GivingUp, Unlinking, Tidying, Exchanging, TakingBack, Looking,
     Linking, Activating, HasActivated, Backing, Rolling, Restoring, Keeping,
     Converting
<1>3. /\ \A n \in Kept!Names : HeldAs(n) = keptFiles[n] /\ HeldAs(n)' = keptFiles'[n]
      /\ keptFiles["claim"] = "none" /\ outcome = "none"
      /\ Kept!Fault => Spent' /\ ~Spent /\ keptFaults' \in 0..MaxKeptFaults
      /\ keptFiles \in [Kept!Names -> Kept!Inodes \cup {"none"}]
  BY <1>1, PlainStep
<1>4. Kept!KeptTypeOK'
  BY <1>3 DEF Kept!RollsBackToOld, Kept!removalVars, Kept!stableVars, Kept!Holds,
     Kept!Ends, Kept!Removes, Kept!Active, Kept!BackupUnchanged, KeptInv,
     Kept!KeptTypeOK, Kept!Names, Kept!Inodes<1>5. ClaimIsOpen' /\ OutcomeIsStep'
  BY <1>1, <1>3 DEF Kept!RollsBackToOld, Kept!removalVars, Kept!stableVars,
     Kept!Holds, Kept!Ends, Kept!Removes, Kept!Active, Kept!BackupUnchanged,
     ClaimIsOpen, OutcomeIsStep, Kept!Names
<1> HIDE DEF HeldAs
<1>6. GivingUp' \/ Ending'
  BY <1>1, <1>2, <1>3 DEF Kept!RollsBackToOld, Kept!removalVars, Kept!stableVars,
     Kept!Holds, Kept!Ends, Kept!Removes, Kept!Active, Kept!BackupUnchanged,
     Rolling, GivingUp, Ending, Lie, Flags, StoredAs, OldIsBackup, OldBackup,
     Removing, Spent, Kept!Names, Kept!SpeechKept, Kept!StoredOnce, Kept!Intact<1>7. HeldAs("other")' = HeldAs("other") \/ Ending'
  BY <1>1, <1>2, <1>3, <1>6 DEF Kept!RollsBackToOld, Kept!removalVars,
     Kept!stableVars, Kept!Holds, Kept!Ends, Kept!Removes, Kept!Active,
     Kept!BackupUnchanged, Kept!Names
<1> QED
  BY <1>2, <1>4, <1>5, <1>6, <1>7 DEF KeptInv, BeforeSettled

LEMMA RollsBackEarlyKept ==
    ASSUME Kept!KeptAssumption, MaxKeptFaults <= 1, KeptInv, Kept!RollsBackEarly
    PROVE  KeptInv'
<1>1. keptStep = "rollback" /\ keptStep' \notin {"wipes", "unlinks"}
  BY DEF Kept!RollsBackEarly, Kept!removalVars, Kept!stableVars, Kept!Holds,
     Kept!Ends, Kept!Removes, Kept!Active
<1>2. Rolling
      /\ HeldAs("other") \in {"none", "stale"}
  BY <1>1 DEF KeptInv, BeforeSettled, Ending, Removing, Clearing, Freeing,
     Dropping, GivingUp, Unlinking, Tidying, Exchanging, TakingBack, Looking,
     Linking, Activating, HasActivated, Backing, Rolling, Restoring, Keeping,
     Converting
<1>3. /\ \A n \in Kept!Names : HeldAs(n) = keptFiles[n] /\ HeldAs(n)' = keptFiles'[n]
      /\ keptFiles["claim"] = "none" /\ outcome = "none"
      /\ Kept!Fault => Spent' /\ ~Spent /\ keptFaults' \in 0..MaxKeptFaults
      /\ keptFiles \in [Kept!Names -> Kept!Inodes \cup {"none"}]
  BY <1>1, PlainStep
<1>4. Kept!KeptTypeOK'
  BY <1>3 DEF Kept!RollsBackEarly, Kept!removalVars, Kept!stableVars, Kept!Holds,
     Kept!Ends, Kept!Removes, Kept!Active, KeptInv, Kept!KeptTypeOK, Kept!Names,
     Kept!Inodes<1>5. ClaimIsOpen' /\ OutcomeIsStep'
  BY <1>1, <1>3 DEF Kept!RollsBackEarly, Kept!removalVars, Kept!stableVars,
     Kept!Holds, Kept!Ends, Kept!Removes, Kept!Active, ClaimIsOpen, OutcomeIsStep,
     Kept!Names
<1> HIDE DEF HeldAs
<1>6. Restoring' \/ Unlinking' \/ Ending'
  BY <1>1, <1>2, <1>3 DEF Kept!RollsBackEarly, Kept!removalVars, Kept!stableVars,
     Kept!Holds, Kept!Ends, Kept!Removes, Kept!Active, Rolling, Restoring,
     Unlinking, Ending, Lie, Flags, StoredAs, OldIsBackup, OldBackup, Removing,
     Spent, Kept!Names, Kept!SpeechKept, Kept!StoredOnce, Kept!Intact<1>7. HeldAs("other")' = HeldAs("other") \/ Ending'
  BY <1>1, <1>2, <1>3, <1>6 DEF Kept!RollsBackEarly, Kept!removalVars,
     Kept!stableVars, Kept!Holds, Kept!Ends, Kept!Removes, Kept!Active, Kept!Names
<1> QED
  BY <1>2, <1>4, <1>5, <1>6, <1>7 DEF KeptInv, BeforeSettled

LEMMA RestoresKept ==
    ASSUME Kept!KeptAssumption, MaxKeptFaults <= 1, KeptInv, Kept!Restores
    PROVE  KeptInv'
<1>1. keptStep = "restores" /\ keptStep' \notin {"wipes", "unlinks"}
  BY DEF Kept!Restores, Kept!removalVars, Kept!stableVars, Kept!Moved, Kept!Ends,
     Kept!BackupUnchanged
<1>2. Restoring
      /\ HeldAs("other") \in {"none", "stale"}
  BY <1>1 DEF KeptInv, BeforeSettled, Ending, Removing, Clearing, Freeing,
     Dropping, GivingUp, Unlinking, Tidying, Exchanging, TakingBack, Looking,
     Linking, Activating, HasActivated, Backing, Rolling, Restoring, Keeping,
     Converting
<1>3. /\ \A n \in Kept!Names : HeldAs(n) = keptFiles[n] /\ HeldAs(n)' = keptFiles'[n]
      /\ keptFiles["claim"] = "none" /\ outcome = "none"
      /\ Kept!Fault => Spent' /\ ~Spent /\ keptFaults' \in 0..MaxKeptFaults
      /\ keptFiles \in [Kept!Names -> Kept!Inodes \cup {"none"}]
  BY <1>1, PlainStep
<1>4. Kept!KeptTypeOK'
  BY <1>3 DEF Kept!Restores, Kept!removalVars, Kept!stableVars, Kept!Moved,
     Kept!Ends, Kept!BackupUnchanged, KeptInv, Kept!KeptTypeOK, Kept!Names,
     Kept!Inodes<1>5. ClaimIsOpen' /\ OutcomeIsStep'
  BY <1>1, <1>3 DEF Kept!Restores, Kept!removalVars, Kept!stableVars, Kept!Moved,
     Kept!Ends, Kept!BackupUnchanged, ClaimIsOpen, OutcomeIsStep, Kept!Names
<1> HIDE DEF HeldAs
<1>6. Ending'
  BY <1>1, <1>2, <1>3 DEF Kept!Restores, Kept!removalVars, Kept!stableVars,
     Kept!Moved, Kept!Ends, Kept!BackupUnchanged, Restoring, Ending, Lie, Flags,
     StoredAs, OldIsBackup, OldBackup, Removing, Spent, Kept!Names,
     Kept!SpeechKept, Kept!StoredOnce, Kept!Intact<1>7. HeldAs("other")' = HeldAs("other") \/ Ending'
  BY <1>1, <1>2, <1>3, <1>6 DEF Kept!Restores, Kept!removalVars, Kept!stableVars,
     Kept!Moved, Kept!Ends, Kept!BackupUnchanged, Kept!Names
<1> QED
  BY <1>2, <1>4, <1>5, <1>6, <1>7 DEF KeptInv, BeforeSettled

LEMMA KeepsKept ==
    ASSUME Kept!KeptAssumption, MaxKeptFaults <= 1, KeptInv, Kept!Keeps
    PROVE  KeptInv'
<1>1. keptStep = "keeps" /\ keptStep' \notin {"wipes", "unlinks"}
  BY DEF Kept!Keeps, Kept!removalVars, Kept!stableVars, Kept!Holds, Kept!Ends,
     Kept!Removes
<1>2. Keeping
      /\ HeldAs("other") \in {"none", "stale"}
  BY <1>1 DEF KeptInv, BeforeSettled, Ending, Removing, Clearing, Freeing,
     Dropping, GivingUp, Unlinking, Tidying, Exchanging, TakingBack, Looking,
     Linking, Activating, HasActivated, Backing, Rolling, Restoring, Keeping,
     Converting
<1>3. /\ \A n \in Kept!Names : HeldAs(n) = keptFiles[n] /\ HeldAs(n)' = keptFiles'[n]
      /\ keptFiles["claim"] = "none" /\ outcome = "none"
      /\ Kept!Fault => Spent' /\ ~Spent /\ keptFaults' \in 0..MaxKeptFaults
      /\ keptFiles \in [Kept!Names -> Kept!Inodes \cup {"none"}]
  BY <1>1, PlainStep
<1>4. Kept!KeptTypeOK'
  BY <1>3 DEF Kept!Keeps, Kept!removalVars, Kept!stableVars, Kept!Holds,
     Kept!Ends, Kept!Removes, KeptInv, Kept!KeptTypeOK, Kept!Names, Kept!Inodes<1>5. ClaimIsOpen' /\ OutcomeIsStep'
  BY <1>1, <1>3 DEF Kept!Keeps, Kept!removalVars, Kept!stableVars, Kept!Holds,
     Kept!Ends, Kept!Removes, ClaimIsOpen, OutcomeIsStep, Kept!Names
<1> HIDE DEF HeldAs
<1>6. Tidying' \/ Ending'
  <2>1. PICK s \in {"original", "trimmed"} : StoredAs(s)
    BY <1>2 DEF Keeping
  <2>2. keptFiles' = keptFiles /\ wiped' = wiped /\ StoredAs(s)'
    BY <1>3, <2>1 DEF Kept!Keeps, StoredAs, Lie, Kept!Names
  <2>3. CASE Kept!Holds("other")
    <3>1. keptStep' = "claims" /\ leaf' = "other" /\ then' = "ok" /\ else' = "failed"
      BY <2>3 DEF Kept!Keeps, Kept!Removes
    <3>2. HeldAs("other")' = "stale"
      BY <1>2, <1>3, <2>2, <2>3 DEF Kept!Holds, Kept!Names
    <3> QED
      BY <2>2, <3>1, <3>2 DEF Tidying, Removing
  <2>4. CASE ~Kept!Holds("other")
    <3>1. keptStep' = "ok" /\ outcome' = "ok"
      BY <2>4 DEF Kept!Keeps, Kept!Ends
    <3>2. keptFiles'["stable"] = s /\ s \in {"original", "trimmed"} \ wiped'
      BY <1>3, <2>1, <2>2 DEF StoredAs, Lie, Kept!Names
    <3>3. \A n \in Kept!Names \ {"stable"} : keptFiles'[n] = "none"
      BY <1>3, <2>1, <2>2, <2>4 DEF StoredAs, Lie, Kept!Names, Kept!Holds
    <3> QED
      BY <3>1, <3>2, <3>3, EndsOk
  <2> QED
    BY <2>3, <2>4
<1>7. HeldAs("other")' = HeldAs("other") \/ Ending'
  BY <1>1, <1>2, <1>3, <1>6 DEF Kept!Keeps, Kept!removalVars, Kept!stableVars,
     Kept!Holds, Kept!Ends, Kept!Removes, Kept!Names
<1> QED
  BY <1>2, <1>4, <1>5, <1>6, <1>7 DEF KeptInv, BeforeSettled

LEMMA EncryptsKept ==
    ASSUME Kept!KeptAssumption, MaxKeptFaults <= 1, KeptInv, Kept!Encrypts
    PROVE  KeptInv'
<1>1. keptStep = "keeps" /\ keptStep' \notin {"wipes", "unlinks"}
  BY DEF Kept!Encrypts, Kept!removalVars, Kept!stableVars, Kept!Holds
<1>2. Keeping
      /\ HeldAs("other") \in {"none", "stale"}
  BY <1>1 DEF KeptInv, BeforeSettled, Ending, Removing, Clearing, Freeing,
     Dropping, GivingUp, Unlinking, Tidying, Exchanging, TakingBack, Looking,
     Linking, Activating, HasActivated, Backing, Rolling, Restoring, Keeping,
     Converting
<1>3. /\ \A n \in Kept!Names : HeldAs(n) = keptFiles[n] /\ HeldAs(n)' = keptFiles'[n]
      /\ keptFiles["claim"] = "none" /\ outcome = "none"
      /\ Kept!Fault => Spent' /\ ~Spent /\ keptFaults' \in 0..MaxKeptFaults
      /\ keptFiles \in [Kept!Names -> Kept!Inodes \cup {"none"}]
  BY <1>1, PlainStep
<1>4. Kept!KeptTypeOK'
  BY <1>3 DEF Kept!Encrypts, Kept!removalVars, Kept!stableVars, Kept!Holds,
     KeptInv, Kept!KeptTypeOK, Kept!Names, Kept!Inodes<1>5. ClaimIsOpen' /\ OutcomeIsStep'
  BY <1>1, <1>3 DEF Kept!Encrypts, Kept!removalVars, Kept!stableVars, Kept!Holds,
     ClaimIsOpen, OutcomeIsStep, Kept!Names
<1> HIDE DEF HeldAs
<1>6. Converting'
  BY <1>1, <1>2, <1>3 DEF Kept!Encrypts, Kept!removalVars, Kept!stableVars,
     Kept!Holds, Keeping, Converting, Lie, Flags, StoredAs, OldIsBackup,
     OldBackup, Removing, Spent, Kept!Names<1>7. HeldAs("other")' = HeldAs("other") \/ FALSE
  BY <1>1, <1>2, <1>3, <1>6 DEF Kept!Encrypts, Kept!removalVars, Kept!stableVars,
     Kept!Holds, Kept!Names
<1> QED
  BY <1>2, <1>4, <1>5, <1>6, <1>7 DEF KeptInv, BeforeSettled

LEMMA DecryptsKept ==
    ASSUME Kept!KeptAssumption, MaxKeptFaults <= 1, KeptInv, Kept!Decrypts
    PROVE  KeptInv'
<1>1. keptStep = "keeps" /\ keptStep' \notin {"wipes", "unlinks"}
  BY DEF Kept!Decrypts, Kept!removalVars, Kept!stableVars, Kept!Holds, Kept!Ends
<1>2. Keeping
      /\ HeldAs("other") \in {"none", "stale"}
  BY <1>1 DEF KeptInv, BeforeSettled, Ending, Removing, Clearing, Freeing,
     Dropping, GivingUp, Unlinking, Tidying, Exchanging, TakingBack, Looking,
     Linking, Activating, HasActivated, Backing, Rolling, Restoring, Keeping,
     Converting
<1>3. /\ \A n \in Kept!Names : HeldAs(n) = keptFiles[n] /\ HeldAs(n)' = keptFiles'[n]
      /\ keptFiles["claim"] = "none" /\ outcome = "none"
      /\ Kept!Fault => Spent' /\ ~Spent /\ keptFaults' \in 0..MaxKeptFaults
      /\ keptFiles \in [Kept!Names -> Kept!Inodes \cup {"none"}]
  BY <1>1, PlainStep
<1>4. Kept!KeptTypeOK'
  BY <1>3 DEF Kept!Decrypts, Kept!removalVars, Kept!stableVars, Kept!Holds,
     Kept!Ends, KeptInv, Kept!KeptTypeOK, Kept!Names, Kept!Inodes<1>5. ClaimIsOpen' /\ OutcomeIsStep'
  BY <1>1, <1>3 DEF Kept!Decrypts, Kept!removalVars, Kept!stableVars, Kept!Holds,
     Kept!Ends, ClaimIsOpen, OutcomeIsStep, Kept!Names
<1> HIDE DEF HeldAs
<1>6. Converting' \/ Ending'
  BY <1>1, <1>2, <1>3 DEF Kept!Decrypts, Kept!removalVars, Kept!stableVars,
     Kept!Holds, Kept!Ends, Keeping, Converting, Ending, Lie, Flags, StoredAs,
     OldIsBackup, OldBackup, Removing, Spent, Kept!Names, Kept!SpeechKept,
     Kept!StoredOnce, Kept!Intact<1>7. HeldAs("other")' = HeldAs("other") \/ Ending'
  BY <1>1, <1>2, <1>3, <1>6 DEF Kept!Decrypts, Kept!removalVars, Kept!stableVars,
     Kept!Holds, Kept!Ends, Kept!Names
<1> QED
  BY <1>2, <1>4, <1>5, <1>6, <1>7 DEF KeptInv, BeforeSettled

LEMMA ConvertsKept ==
    ASSUME Kept!KeptAssumption, MaxKeptFaults <= 1, KeptInv, Kept!Converts
    PROVE  KeptInv'
<1>1. keptStep = "converts" /\ keptStep' \notin {"wipes", "unlinks"}
  BY DEF Kept!Converts, Kept!stableVars, Kept!Removes
<1>2. Converting
      /\ HeldAs("other") \in {"none", "stale"}
  BY <1>1 DEF KeptInv, BeforeSettled, Ending, Removing, Clearing, Freeing,
     Dropping, GivingUp, Unlinking, Tidying, Exchanging, TakingBack, Looking,
     Linking, Activating, HasActivated, Backing, Rolling, Restoring, Keeping,
     Converting
<1>3. /\ \A n \in Kept!Names : HeldAs(n) = keptFiles[n] /\ HeldAs(n)' = keptFiles'[n]
      /\ keptFiles["claim"] = "none" /\ outcome = "none"
      /\ Kept!Fault => Spent' /\ ~Spent /\ keptFaults' \in 0..MaxKeptFaults
      /\ keptFiles \in [Kept!Names -> Kept!Inodes \cup {"none"}]
  BY <1>1, PlainStep
<1>4. Kept!KeptTypeOK'
  BY <1>3 DEF Kept!Converts, Kept!stableVars, Kept!Removes, KeptInv,
     Kept!KeptTypeOK, Kept!Names, Kept!Inodes<1>5. ClaimIsOpen' /\ OutcomeIsStep'
  BY <1>1, <1>3 DEF Kept!Converts, Kept!stableVars, Kept!Removes, ClaimIsOpen,
     OutcomeIsStep, Kept!Names
<1> HIDE DEF HeldAs
<1>6. Exchanging'
  BY <1>1, <1>2, <1>3 DEF Kept!Converts, Kept!stableVars, Kept!Removes,
     Converting, Exchanging, Lie, Flags, StoredAs, OldIsBackup, OldBackup,
     Removing, Spent, Kept!Names<1>7. HeldAs("other")' = HeldAs("other") \/ Exchanging'
  BY <1>1, <1>2, <1>3, <1>6 DEF Kept!Converts, Kept!stableVars, Kept!Removes,
     Kept!Names
<1> QED
  BY <1>2, <1>4, <1>5, <1>6, <1>7 DEF KeptInv, BeforeSettled

LEMMA ConversionFailsKept ==
    ASSUME Kept!KeptAssumption, MaxKeptFaults <= 1, KeptInv, Kept!ConversionFails
    PROVE  KeptInv'
<1>1. keptStep = "converts" /\ keptStep' \notin {"wipes", "unlinks"}
  BY DEF Kept!ConversionFails, Kept!removalVars, Kept!stableVars, Kept!Ends,
     Kept!Fault
<1>2. Converting
      /\ HeldAs("other") \in {"none", "stale"}
  BY <1>1 DEF KeptInv, BeforeSettled, Ending, Removing, Clearing, Freeing,
     Dropping, GivingUp, Unlinking, Tidying, Exchanging, TakingBack, Looking,
     Linking, Activating, HasActivated, Backing, Rolling, Restoring, Keeping,
     Converting
<1>3. /\ \A n \in Kept!Names : HeldAs(n) = keptFiles[n] /\ HeldAs(n)' = keptFiles'[n]
      /\ keptFiles["claim"] = "none" /\ outcome = "none"
      /\ Kept!Fault => Spent' /\ ~Spent /\ keptFaults' \in 0..MaxKeptFaults
      /\ keptFiles \in [Kept!Names -> Kept!Inodes \cup {"none"}]
  BY <1>1, PlainStep
<1>4. Kept!KeptTypeOK'
  BY <1>3 DEF Kept!ConversionFails, Kept!removalVars, Kept!stableVars, Kept!Ends,
     Kept!Fault, KeptInv, Kept!KeptTypeOK, Kept!Names, Kept!Inodes<1>5. ClaimIsOpen' /\ OutcomeIsStep'
  BY <1>1, <1>3 DEF Kept!ConversionFails, Kept!removalVars, Kept!stableVars,
     Kept!Ends, Kept!Fault, ClaimIsOpen, OutcomeIsStep, Kept!Names
<1> HIDE DEF HeldAs
<1>6. Ending'
  BY <1>1, <1>2, <1>3 DEF Kept!ConversionFails, Kept!removalVars, Kept!stableVars,
     Kept!Ends, Kept!Fault, Converting, Ending, Lie, Flags, StoredAs, OldIsBackup,
     OldBackup, Removing, Spent, Kept!Names, Kept!SpeechKept, Kept!StoredOnce,
     Kept!Intact<1>7. HeldAs("other")' = HeldAs("other") \/ Ending'
  BY <1>1, <1>2, <1>3, <1>6 DEF Kept!ConversionFails, Kept!removalVars,
     Kept!stableVars, Kept!Ends, Kept!Fault, Kept!Names
<1> QED
  BY <1>2, <1>4, <1>5, <1>6, <1>7 DEF KeptInv, BeforeSettled

LEMMA UndoesKept ==
    ASSUME Kept!KeptAssumption, MaxKeptFaults <= 1, KeptInv, Kept!Undoes
    PROVE  KeptInv'
<1>1. keptStep = "undoes" /\ keptStep' \notin {"wipes", "unlinks"}
  BY DEF Kept!Undoes, Kept!removalVars, Kept!stableVars, Kept!Ends, Kept!Removes
<1>2. TakingBack
  BY <1>1 DEF KeptInv, BeforeSettled, Ending, Removing, Clearing, Freeing,
     Dropping, GivingUp, Unlinking, Tidying, Exchanging, TakingBack, Looking,
     Linking, Activating, HasActivated, Backing, Rolling, Restoring, Keeping,
     Converting
<1>3. /\ \A n \in Kept!Names : HeldAs(n) = keptFiles[n] /\ HeldAs(n)' = keptFiles'[n]
      /\ keptFiles["claim"] = "none" /\ outcome = "none"
      /\ Kept!Fault => Spent' /\ ~Spent /\ keptFaults' \in 0..MaxKeptFaults
      /\ keptFiles \in [Kept!Names -> Kept!Inodes \cup {"none"}]
  BY <1>1, PlainStep
<1>4. Kept!KeptTypeOK'
  BY <1>3 DEF Kept!Undoes, Kept!removalVars, Kept!stableVars, Kept!Ends,
     Kept!Removes, KeptInv, Kept!KeptTypeOK, Kept!Names, Kept!Inodes<1>5. ClaimIsOpen' /\ OutcomeIsStep'
  BY <1>1, <1>3 DEF Kept!Undoes, Kept!removalVars, Kept!stableVars, Kept!Ends,
     Kept!Removes, ClaimIsOpen, OutcomeIsStep, Kept!Names
<1> HIDE DEF HeldAs
<1>6. TakingBack' \/ Ending'
  BY <1>1, <1>2, <1>3 DEF Kept!Undoes, Kept!removalVars, Kept!stableVars,
     Kept!Ends, Kept!Removes, TakingBack, Ending, Lie, Flags, StoredAs,
     OldIsBackup, OldBackup, Removing, Spent, Kept!Names, Kept!SpeechKept,
     Kept!StoredOnce, Kept!Intact<1>7. HeldAs("other")' = HeldAs("other") \/ TakingBack' \/ Ending'
  BY <1>1, <1>2, <1>3, <1>6 DEF Kept!Undoes, Kept!removalVars, Kept!stableVars,
     Kept!Ends, Kept!Removes, Kept!Names
<1> QED
  BY <1>2, <1>4, <1>5, <1>6, <1>7 DEF KeptInv, BeforeSettled

LEMMA CallFailsKept ==
    ASSUME Kept!KeptAssumption, MaxKeptFaults <= 1, KeptInv, Kept!CallFails
    PROVE  KeptInv'
<1>1. /\ keptStep \in {"looks", "links", "activates", "activated"} /\ Kept!Fault
      /\ IF keptActive THEN keptStep' = "rollback" /\ UNCHANGED outcome
         ELSE keptStep' = "failed" /\ outcome' = "failed"
      /\ UNCHANGED <<keptFiles, wiped, leaf, then, else, keptActive, hadTarget, hadBackup, removed, existed>>
  BY DEF Kept!CallFails, Kept!Ends, Kept!removalVars, Kept!stableVars
<1>2. /\ Looking \/ Linking \/ Activating \/ HasActivated
      /\ HeldAs("other") \in {"none", "stale"}
  BY <1>1 DEF KeptInv, BeforeSettled, Ending, Removing, Clearing, Freeing,
     Dropping, GivingUp, Unlinking, Tidying, Exchanging, TakingBack, Looking,
     Linking, Activating, HasActivated, Backing, Rolling, Restoring, Keeping,
     Converting
<1>3. /\ \A n \in Kept!Names : HeldAs(n) = keptFiles[n] /\ HeldAs(n)' = keptFiles'[n]
      /\ keptFiles["claim"] = "none" /\ outcome = "none"
      /\ Spent' /\ ~Spent /\ keptFaults' \in 0..MaxKeptFaults
  BY <1>1, PlainStep
<1>4. Kept!KeptTypeOK' /\ ClaimIsOpen' /\ OutcomeIsStep'
  BY <1>1, <1>3 DEF KeptInv, Kept!KeptTypeOK, ClaimIsOpen, OutcomeIsStep
<1> HIDE DEF HeldAs
<1>5. \A n \in Kept!Names : HeldAs(n)' = HeldAs(n)
  BY <1>1, <1>3
<1>6. CASE Looking \/ Linking
  <2>1. keptStep' = "failed" /\ outcome' = "failed"
    BY <1>1, <1>6 DEF Looking, Linking
  <2>2. keptFiles'["artifact"] \notin {"none", "stale"} \cup wiped'
    BY <1>1, <1>3, <1>6 DEF Looking, Linking, Lie, Kept!Names
  <2>3. Ending'
    BY <2>1, <2>2, EndsFailed
  <2> QED
    BY <1>4, <2>3 DEF KeptInv
<1>7. CASE Activating \/ HasActivated
  <2>1. keptStep' = "rollback" /\ keptActive' /\ wiped' = {}
    BY <1>1, <1>7 DEF Activating, HasActivated
  <2>2. \/ Lie("trimmed", "none", "none", "none")' /\ Flags(FALSE, FALSE, FALSE)'
        \/ Lie("trimmed", "none", "original", "none")' /\ hadTarget' /\ hadBackup'
        \/ Lie("none", "trimmed", "none", "none")'
        \/ Lie("none", "trimmed", "original", "none")' /\ hadTarget'
    BY <1>1, <1>5, <1>7 DEF Activating, HasActivated, Lie, Flags, OldIsBackup, OldBackup, Kept!Names, KeptInv, Kept!KeptTypeOK
  <2>3. Rolling'
    BY <1>3, <2>1, <2>2 DEF Rolling
  <2>4. HeldAs("other")' \in {"none", "stale"}
    BY <1>2, <1>5 DEF Kept!Names
  <2> QED
    BY <1>4, <2>3, <2>4 DEF KeptInv, BeforeSettled
<1> QED
  BY <1>2, <1>6, <1>7

(* Until the command ends some name holds the speech.                      *)
LEMMA SpeechIsSomewhere ==
    ASSUME KeptInv
    PROVE  \E n \in Kept!Names : Kept!Intact(n)
<1>1. CASE Ending
  BY <1>1 DEF Ending, Kept!SpeechKept
<1>2. CASE ~Ending
  <2>1. PICK n \in {"artifact", "stable", "backup", "backupClaim", "other"} :
           HeldAs(n) \notin {"none", "stale"} \cup wiped
    <3>1. Looking => \E n \in {"artifact", "stable", "backup", "backupClaim", "other"} :
                    HeldAs(n) \notin {"none", "stale"} \cup wiped
      BY DEF Looking, Removing, Lie, Flags, StoredAs, OldIsBackup, OldBackup    <3>2. Linking => \E n \in {"artifact", "stable", "backup", "backupClaim", "other"} :
                    HeldAs(n) \notin {"none", "stale"} \cup wiped
      BY DEF Linking, Removing, Lie, Flags, StoredAs, OldIsBackup, OldBackup    <3>3. Activating => \E n \in {"artifact", "stable", "backup", "backupClaim", "other"} :
                    HeldAs(n) \notin {"none", "stale"} \cup wiped
      BY DEF Activating, Removing, Lie, Flags, StoredAs, OldIsBackup, OldBackup    <3>4. HasActivated => \E n \in {"artifact", "stable", "backup", "backupClaim", "other"} :
                    HeldAs(n) \notin {"none", "stale"} \cup wiped
      BY DEF HasActivated, Removing, Lie, Flags, StoredAs, OldIsBackup, OldBackup    <3>5. Backing => \E n \in {"artifact", "stable", "backup", "backupClaim", "other"} :
                    HeldAs(n) \notin {"none", "stale"} \cup wiped
      BY DEF Backing, Removing, Lie, Flags, StoredAs, OldIsBackup, OldBackup    <3>6. Rolling => \E n \in {"artifact", "stable", "backup", "backupClaim", "other"} :
                    HeldAs(n) \notin {"none", "stale"} \cup wiped
      BY DEF Rolling, Removing, Lie, Flags, StoredAs, OldIsBackup, OldBackup    <3>7. Restoring => \E n \in {"artifact", "stable", "backup", "backupClaim", "other"} :
                    HeldAs(n) \notin {"none", "stale"} \cup wiped
      BY DEF Restoring, Removing, Lie, Flags, StoredAs, OldIsBackup, OldBackup    <3>8. Keeping => \E n \in {"artifact", "stable", "backup", "backupClaim", "other"} :
                    HeldAs(n) \notin {"none", "stale"} \cup wiped
      BY DEF Keeping, Removing, Lie, Flags, StoredAs, OldIsBackup, OldBackup    <3>9. Converting => \E n \in {"artifact", "stable", "backup", "backupClaim", "other"} :
                    HeldAs(n) \notin {"none", "stale"} \cup wiped
      BY DEF Converting, Removing, Lie, Flags, StoredAs, OldIsBackup, OldBackup    <3>10. Clearing => \E n \in {"artifact", "stable", "backup", "backupClaim", "other"} :
                    HeldAs(n) \notin {"none", "stale"} \cup wiped
      BY DEF Clearing, Removing, Lie, Flags, StoredAs, OldIsBackup, OldBackup    <3>11. Freeing => \E n \in {"artifact", "stable", "backup", "backupClaim", "other"} :
                    HeldAs(n) \notin {"none", "stale"} \cup wiped
      BY DEF Freeing, Removing, Lie, Flags, StoredAs, OldIsBackup, OldBackup    <3>12. Dropping => \E n \in {"artifact", "stable", "backup", "backupClaim", "other"} :
                    HeldAs(n) \notin {"none", "stale"} \cup wiped
      BY DEF Dropping, Removing, Lie, Flags, StoredAs, OldIsBackup, OldBackup    <3>13. GivingUp => \E n \in {"artifact", "stable", "backup", "backupClaim", "other"} :
                    HeldAs(n) \notin {"none", "stale"} \cup wiped
      BY DEF GivingUp, Removing, Lie, Flags, StoredAs, OldIsBackup, OldBackup    <3>14. Unlinking => \E n \in {"artifact", "stable", "backup", "backupClaim", "other"} :
                    HeldAs(n) \notin {"none", "stale"} \cup wiped
      BY DEF Unlinking, Removing, Lie, Flags, StoredAs, OldIsBackup, OldBackup    <3>15. Tidying => \E n \in {"artifact", "stable", "backup", "backupClaim", "other"} :
                    HeldAs(n) \notin {"none", "stale"} \cup wiped
      BY DEF Tidying, Removing, Lie, Flags, StoredAs, OldIsBackup, OldBackup    <3>16. Exchanging => \E n \in {"artifact", "stable", "backup", "backupClaim", "other"} :
                    HeldAs(n) \notin {"none", "stale"} \cup wiped
      BY DEF Exchanging, Removing, Lie, Flags, StoredAs, OldIsBackup, OldBackup    <3>17. TakingBack => \E n \in {"artifact", "stable", "backup", "backupClaim", "other"} :
                    HeldAs(n) \notin {"none", "stale"} \cup wiped
      BY DEF TakingBack, Removing, Lie, Flags, StoredAs, OldIsBackup, OldBackup
    <3> QED
      BY <1>2, <3>1, <3>2, <3>3, <3>4, <3>5, <3>6, <3>7, <3>8, <3>9, <3>10, <3>11,
         <3>12, <3>13, <3>14, <3>15, <3>16, <3>17 DEF KeptInv, BeforeSettled
  <2>2. \E m \in Kept!Names : keptFiles[m] = HeldAs(n)
    BY DEF HeldAs, Kept!Names
  <2> QED
    BY <2>1, <2>2 DEF Kept!Intact
<1> QED
  BY <1>1, <1>2

LEMMA KilledKept ==
    ASSUME KeptInv, Kept!Killed
    PROVE  KeptInv'
<1>1. /\ keptStep' = "killed" /\ outcome' = "killed"
      /\ UNCHANGED <<keptFiles, wiped, leaf, then, else, keptActive, hadTarget, hadBackup, removed, existed, keptFaults>>
  BY DEF Kept!Killed, Kept!Ends, Kept!removalVars, Kept!stableVars
<1>2. Ending'
  BY <1>1, SpeechIsSomewhere DEF Ending, Kept!SpeechKept, Kept!StoredOnce, Kept!Intact
<1> QED
  BY <1>1, <1>2 DEF KeptInv, Kept!KeptTypeOK, ClaimIsOpen, OutcomeIsStep

LEMMA InitKept == Kept!KeptInit => KeptInv
<1> SUFFICES ASSUME Kept!KeptInit PROVE KeptInv
  OBVIOUS
<1>1. PICK s \in {"none", "original"}, a \in {"none", "trimmed"}, b \in {"none", "original"}, o \in {"none", "stale"} :
          /\ s = "none" => a # "none"
          /\ b # "none" => s # "none" /\ a # "none"
          /\ keptFiles = [n \in Kept!Names |-> CASE n = "stable" -> s [] n = "artifact" -> a
                                        [] n = "backup" -> b [] n = "other" -> o [] OTHER -> "none"]
          /\ keptStep = IF a = "none" THEN "keeps" ELSE "looks"
  BY DEF Kept!KeptInit
<1>2. /\ wiped = {} /\ leaf = "none" /\ keptActive = FALSE /\ hadTarget = FALSE /\ hadBackup = FALSE
      /\ removed = FALSE /\ existed = FALSE /\ outcome = "none" /\ keptFaults = 0
  BY DEF Kept!KeptInit
<1>3. /\ keptFiles["stable"] = s /\ keptFiles["artifact"] = a /\ keptFiles["backup"] = b
      /\ keptFiles["other"] = o /\ keptFiles["claim"] = "none" /\ keptFiles["backupClaim"] = "none"
  BY <1>1 DEF Kept!Names
<1>4. keptFiles \in [Kept!Names -> Kept!Inodes \cup {"none"}]
  BY <1>1 DEF Kept!Names, Kept!Inodes
<1>5. Kept!KeptTypeOK
  <2>1. 0 \in 0..MaxKeptFaults
    BY FilesConstants DEF Kept!KeptAssumption
  <2>2. keptStep \in {"keeps", "looks"}
    BY <1>1
  <2> QED
    BY <1>2, <1>4, <2>1, <2>2 DEF Kept!KeptTypeOK
<1>6. keptStep \in {"keeps", "looks"} /\ \A n : HeldAs(n) = keptFiles[n]
  BY <1>1 DEF HeldAs
<1>7. ClaimIsOpen /\ OutcomeIsStep /\ HeldAs("other") \in {"none", "stale"}
  BY <1>1, <1>2, <1>3, <1>6 DEF ClaimIsOpen, OutcomeIsStep
<1> HIDE DEF HeldAs
<1>8. CASE a = "none"
  <2>1. keptStep = "keeps" /\ s = "original" /\ b = "none"
    BY <1>1, <1>8
  <2>2. StoredAs("original")
    BY <1>2, <1>3, <1>6, <1>8, <2>1 DEF StoredAs, Lie
  <2>3. Keeping
    BY <1>2, <2>1, <2>2 DEF Keeping
  <2> QED
    BY <1>5, <1>7, <2>3 DEF KeptInv, BeforeSettled
<1>9. CASE a = "trimmed"
  <2>1. keptStep = "looks" /\ Lie("trimmed", s, b, "none")
    BY <1>1, <1>3, <1>6, <1>9 DEF Lie
  <2>2. Looking
    BY <1>1, <1>2, <2>1 DEF Looking, Flags
  <2> QED
    BY <1>5, <1>7, <2>2 DEF KeptInv, BeforeSettled
<1> QED
  BY <1>1, <1>8, <1>9

(* cli.py - with no more than one failing call, and no failing removal of  *)
(* the other form once its file is claimed, every step keeps the scenes.   *)
LEMMA KeptInvariant ==
    MaxKeptFaults <= 1 /\ ~RemovalMayFail => (Kept!KeptSpec => []KeptInv)
<1> SUFFICES ASSUME MaxKeptFaults <= 1, ~RemovalMayFail
             PROVE  Kept!KeptSpec => []KeptInv
  OBVIOUS
<1>1. KeptInv /\ [Kept!KeptNext]_(Kept!keptVars) => KeptInv'
  <2> SUFFICES ASSUME KeptInv, [Kept!KeptNext]_(Kept!keptVars) PROVE KeptInv'
    OBVIOUS
  <2>1. CASE Kept!Claims
    BY <2>1, ClaimsKept, FilesConstants
  <2>2. CASE Kept!Wipes
    BY <2>2, WipesKept, FilesConstants
  <2>3. CASE Kept!Unlinks
    BY <2>3, UnlinksKept, FilesConstants
  <2>4. CASE Kept!RemovalFails
    BY <2>4, RemovalFailsKept, FilesConstants
  <2>5. CASE Kept!Looks
    BY <2>5, LooksKept, FilesConstants
  <2>6. CASE Kept!LinksBackup
    BY <2>6, LinksBackupKept, FilesConstants
  <2>7. CASE Kept!BackupFails
    BY <2>7, BackupFailsKept, FilesConstants
  <2>8. CASE Kept!Activates
    BY <2>8, ActivatesKept, FilesConstants
  <2>9. CASE Kept!Activated
    BY <2>9, ActivatedKept, FilesConstants
  <2>10. CASE Kept!CallFails
    BY <2>10, CallFailsKept, FilesConstants
  <2>11. CASE Kept!BacksUpAgain
    BY <2>11, BacksUpAgainKept, FilesConstants
  <2>12. CASE Kept!RollsBackToArtifact
    BY <2>12, RollsBackToArtifactKept, FilesConstants
  <2>13. CASE Kept!RollsBackToOld
    BY <2>13, RollsBackToOldKept, FilesConstants
  <2>14. CASE Kept!RollsBackEarly
    BY <2>14, RollsBackEarlyKept, FilesConstants
  <2>15. CASE Kept!Restores
    BY <2>15, RestoresKept, FilesConstants
  <2>16. CASE Kept!Keeps
    BY <2>16, KeepsKept, FilesConstants
  <2>17. CASE Kept!Encrypts
    BY <2>17, EncryptsKept, FilesConstants
  <2>18. CASE Kept!Decrypts
    BY <2>18, DecryptsKept, FilesConstants
  <2>19. CASE Kept!Converts
    BY <2>19, ConvertsKept, FilesConstants
  <2>20. CASE Kept!ConversionFails
    BY <2>20, ConversionFailsKept, FilesConstants
  <2>21. CASE Kept!Undoes
    BY <2>21, UndoesKept, FilesConstants
  <2>22. CASE Kept!Killed
    BY <2>22, KilledKept, FilesConstants
  <2>23. CASE UNCHANGED Kept!keptVars
    <3>1. Kept!KeptTypeOK' /\ ClaimIsOpen' /\ OutcomeIsStep'
      BY <2>23 DEF Kept!keptVars, Kept!removalVars, Kept!stableVars, KeptInv, Kept!KeptTypeOK,
         ClaimIsOpen, OutcomeIsStep
    <3>2. BeforeSettled => BeforeSettled'
      BY <2>23 DEF Kept!keptVars, Kept!removalVars, Kept!stableVars, BeforeSettled, Looking,
         Clearing, Linking, Freeing, OldIsBackup, OldBackup, Activating, HasActivated, Dropping, Backing,
         Rolling, GivingUp, Unlinking, Restoring, StoredAs, Keeping, Converting, HeldAs, Lie, Removing, Flags, Spent
    <3>3. Tidying => Tidying'
      BY <2>23 DEF Kept!keptVars, Kept!removalVars, Kept!stableVars, Tidying, StoredAs, HeldAs, Lie,
         Removing, Flags, Spent, Unlinking, Kept!SpeechKept, Kept!StoredOnce, Kept!Intact
    <3>4. Exchanging => Exchanging'
      BY <2>23 DEF Kept!keptVars, Kept!removalVars, Kept!stableVars, Exchanging, StoredAs, HeldAs, Lie,
         Removing, Flags, Spent, Unlinking, Kept!SpeechKept, Kept!StoredOnce, Kept!Intact
    <3>5. TakingBack => TakingBack'
      BY <2>23 DEF Kept!keptVars, Kept!removalVars, Kept!stableVars, TakingBack, StoredAs, HeldAs, Lie,
         Removing, Flags, Spent, Unlinking, Kept!SpeechKept, Kept!StoredOnce, Kept!Intact
    <3>6. Ending => Ending'
      BY <2>23 DEF Kept!keptVars, Kept!removalVars, Kept!stableVars, Ending, Kept!SpeechKept,
         Kept!StoredOnce, Kept!Intact
    <3> QED
      BY <3>1, <3>2, <3>3, <3>4, <3>5, <3>6 DEF KeptInv
  <2> QED
    BY <2>1, <2>2, <2>3, <2>4, <2>5, <2>6, <2>7, <2>8, <2>9, <2>10, <2>11, <2>12, <2>13, <2>14, <2>15, <2>16, <2>17, <2>18, <2>19, <2>20, <2>21, <2>22, <2>23 DEF Kept!KeptNext
<1> QED
  BY InitKept, <1>1, PTL DEF Kept!KeptSpec

(* cli.py, finalize_recording and what keeps its audio - if no more than   *)
(* one call fails, and not the removal of the other form after its claim,  *)
(* then wherever the command is killed the recorded speech is whole in     *)
(* some file, and a recording that was stored is stored once.              *)
THEOREM KeptSpeechStays ==
    MaxKeptFaults <= 1 /\ ~RemovalMayFail => (Kept!KeptSpec => [](Kept!SpeechKept /\ Kept!StoredOnce))
<1> SUFFICES ASSUME MaxKeptFaults <= 1, ~RemovalMayFail
             PROVE  Kept!KeptSpec => [](Kept!SpeechKept /\ Kept!StoredOnce)
  OBVIOUS
<1>1. KeptInv => Kept!SpeechKept /\ Kept!StoredOnce
  <2> SUFFICES ASSUME KeptInv PROVE Kept!SpeechKept /\ Kept!StoredOnce
    OBVIOUS
  <2>1. CASE Ending
    BY <2>1 DEF Ending
  <2>2. CASE ~Ending
    <3>1. keptStep \notin {"ok", "failed", "killed"}
      BY <2>2 DEF KeptInv, BeforeSettled, Removing, Looking, Clearing, Linking, Freeing, Activating,
         HasActivated, Dropping, Backing, Rolling, GivingUp, Unlinking, Restoring, Keeping, Converting,
         Tidying, Exchanging, TakingBack
    <3>2. outcome = "none"
      BY <3>1 DEF KeptInv, OutcomeIsStep
    <3> QED
      BY <3>2, SpeechIsSomewhere DEF Kept!SpeechKept, Kept!StoredOnce
  <2> QED
    BY <2>1, <2>2
<1> QED
  BY <1>1, KeptInvariant, PTL

-----------------------------------------------------------------------------
(* The types of KeptRecording, for any number of failing calls: what is     *)
(* removed is there, which follows from where the command has come from.   *)
InRemoval == keptStep \in {"claims", "wipes", "unlinks"}
Deletions == {<<"backup", "links", "failed">>, <<"stable", "activates", "rollback">>,
             <<"backupClaim", "keeps", "backs">>, <<"stable", "restores", "failed">>,
             <<"backup", "failed", "failed">>, <<"other", "ok", "failed">>,
             <<"stable", "ok", "undoes">>, <<"other", "failed", "failed">>}
Frees(name, onSuccess) == InRemoval /\ leaf = name /\ then = onSuccess

RemovesWhatIsThere ==
    InRemoval => /\ <<leaf, then, else>> \in Deletions
                 /\ IF keptStep = "claims" THEN keptFiles[leaf] # "none" ELSE keptFiles["claim"] # "none"

KnowsWhatIsThere ==
    /\ keptStep \in {"looks", "links", "activates"} \/ Frees("backup", "links") \/ Frees("stable", "activates")
         => keptFiles["artifact"] # "none"
    /\ keptStep \in {"looks", "links"} \/ Frees("backup", "links") => ~hadBackup
    /\ keptStep \in {"links", "activated", "keeps", "converts"} \/ Frees("backup", "links")
         \/ Frees("backupClaim", "keeps") => keptFiles["stable"] # "none"
    /\ Frees("stable", "activates") \/ (hadBackup /\ keptStep \in {"activates", "activated"})
         \/ (hadBackup /\ ~removed /\ keptStep = "rollback") => keptFiles["backup"] # "none"
    /\ keptStep = "backs" \/ Frees("backupClaim", "keeps") \/ (hadBackup /\ keptStep \in {"activates", "activated"})
         => removed
    /\ keptStep = "undoes" \/ Frees("stable", "ok") => keptFiles["other"] # "none"

KeptTypesInv == Kept!KeptTypeOK /\ RemovesWhatIsThere /\ KnowsWhatIsThere

LEMMA KeptTypeKept ==
    ASSUME Kept!KeptAssumption, KeptTypesInv, Kept!KeptNext
    PROVE  Kept!KeptTypeOK'
<1>1. CASE Kept!Claims
  BY <1>1 DEF Kept!Claims, Kept!removalVars, Kept!stableVars, Kept!Moved,
     KeptTypesInv, Kept!KeptTypeOK, RemovesWhatIsThere, Deletions, InRemoval,
     Kept!Names, Kept!Inodes, Kept!KeptAssumption, KnowsWhatIsThere, Frees
<1>2. CASE Kept!Wipes
  BY <1>2 DEF Kept!Wipes, Kept!removalVars, Kept!stableVars, Kept!Links,
     Kept!Names, KeptTypesInv, Kept!KeptTypeOK, RemovesWhatIsThere, Deletions,
     InRemoval, Kept!Inodes, Kept!KeptAssumption, KnowsWhatIsThere, Frees
<1>3. CASE Kept!Unlinks
  BY <1>3 DEF Kept!Unlinks, Kept!removalVars, Kept!Goes, Kept!Ends, KeptTypesInv,
     Kept!KeptTypeOK, RemovesWhatIsThere, Deletions, InRemoval, Kept!Names,
     Kept!Inodes, Kept!KeptAssumption, KnowsWhatIsThere, Frees
<1>4. CASE Kept!RemovalFails
  BY <1>4 DEF Kept!RemovalFails, Kept!removalVars, Kept!stableVars, Kept!Moved,
     Kept!Fault, Kept!Goes, Kept!Ends, Kept!Links, Kept!Names, KeptTypesInv,
     Kept!KeptTypeOK, RemovesWhatIsThere, Deletions, InRemoval, Kept!Inodes,
     Kept!KeptAssumption, KnowsWhatIsThere, Frees
<1>5. CASE Kept!Looks
  BY <1>5 DEF Kept!Looks, Kept!removalVars, Kept!Holds, Kept!Removes,
     KeptTypesInv, Kept!KeptTypeOK, RemovesWhatIsThere, Deletions, InRemoval,
     Kept!Names, Kept!Inodes, Kept!KeptAssumption, KnowsWhatIsThere, Frees
<1>6. CASE Kept!LinksBackup
  BY <1>6 DEF Kept!LinksBackup, Kept!Removes, KeptTypesInv, Kept!KeptTypeOK,
     RemovesWhatIsThere, Deletions, InRemoval, Kept!Names, Kept!Inodes,
     Kept!KeptAssumption, KnowsWhatIsThere, Frees
<1>7. CASE Kept!BackupFails
  BY <1>7 DEF Kept!BackupFails, Kept!stableVars, Kept!Fault, Kept!Removes,
     KeptTypesInv, Kept!KeptTypeOK, RemovesWhatIsThere, Deletions, InRemoval,
     Kept!Names, Kept!Inodes, Kept!KeptAssumption, KnowsWhatIsThere, Frees
<1>8. CASE Kept!Activates
  BY <1>8 DEF Kept!Activates, Kept!removalVars, Kept!stableVars, Kept!Moved,
     KeptTypesInv, Kept!KeptTypeOK, RemovesWhatIsThere, Deletions, InRemoval,
     Kept!Names, Kept!Inodes, Kept!KeptAssumption, KnowsWhatIsThere, Frees
<1>9. CASE Kept!Activated
  BY <1>9 DEF Kept!Activated, Kept!removalVars, Kept!Moved, Kept!Removes,
     KeptTypesInv, Kept!KeptTypeOK, RemovesWhatIsThere, Deletions, InRemoval,
     Kept!Names, Kept!Inodes, Kept!KeptAssumption, KnowsWhatIsThere, Frees
<1>10. CASE Kept!CallFails
  BY <1>10 DEF Kept!CallFails, Kept!removalVars, Kept!stableVars, Kept!Ends,
     Kept!Fault, KeptTypesInv, Kept!KeptTypeOK, RemovesWhatIsThere, Deletions,
     InRemoval, Kept!Names, Kept!Inodes, Kept!KeptAssumption, KnowsWhatIsThere,
     Frees
<1>11. CASE Kept!BacksUpAgain
  BY <1>11 DEF Kept!BacksUpAgain, Kept!removalVars, Kept!stableVars, Kept!Holds,
     Kept!Moved, KeptTypesInv, Kept!KeptTypeOK, RemovesWhatIsThere, Deletions,
     InRemoval, Kept!Names, Kept!Inodes, Kept!KeptAssumption, KnowsWhatIsThere,
     Frees
<1>12. CASE Kept!RollsBackToArtifact
  BY <1>12 DEF Kept!RollsBackToArtifact, Kept!removalVars, Kept!stableVars,
     Kept!Holds, Kept!Moved, Kept!Ends, Kept!Active, KeptTypesInv,
     Kept!KeptTypeOK, RemovesWhatIsThere, Deletions, InRemoval, Kept!Names,
     Kept!Inodes, Kept!KeptAssumption, KnowsWhatIsThere, Frees
<1>13. CASE Kept!RollsBackToOld
  BY <1>13 DEF Kept!RollsBackToOld, Kept!removalVars, Kept!stableVars, Kept!Holds,
     Kept!Ends, Kept!Removes, Kept!Active, Kept!BackupUnchanged, KeptTypesInv,
     Kept!KeptTypeOK, RemovesWhatIsThere, Deletions, InRemoval, Kept!Names,
     Kept!Inodes, Kept!KeptAssumption, KnowsWhatIsThere, Frees
<1>14. CASE Kept!RollsBackEarly
  BY <1>14 DEF Kept!RollsBackEarly, Kept!removalVars, Kept!stableVars, Kept!Holds,
     Kept!Ends, Kept!Removes, Kept!Active, KeptTypesInv, Kept!KeptTypeOK,
     RemovesWhatIsThere, Deletions, InRemoval, Kept!Names, Kept!Inodes,
     Kept!KeptAssumption, KnowsWhatIsThere, Frees
<1>15. CASE Kept!Restores
  BY <1>15 DEF Kept!Restores, Kept!removalVars, Kept!stableVars, Kept!Moved,
     Kept!Ends, Kept!BackupUnchanged, KeptTypesInv, Kept!KeptTypeOK,
     RemovesWhatIsThere, Deletions, InRemoval, Kept!Names, Kept!Inodes,
     Kept!KeptAssumption, KnowsWhatIsThere, Frees
<1>16. CASE Kept!Keeps
  BY <1>16 DEF Kept!Keeps, Kept!removalVars, Kept!stableVars, Kept!Holds,
     Kept!Ends, Kept!Removes, KeptTypesInv, Kept!KeptTypeOK, RemovesWhatIsThere,
     Deletions, InRemoval, Kept!Names, Kept!Inodes, Kept!KeptAssumption,
     KnowsWhatIsThere, Frees
<1>17. CASE Kept!Encrypts
  BY <1>17 DEF Kept!Encrypts, Kept!removalVars, Kept!stableVars, Kept!Holds,
     KeptTypesInv, Kept!KeptTypeOK, RemovesWhatIsThere, Deletions, InRemoval,
     Kept!Names, Kept!Inodes, Kept!KeptAssumption, KnowsWhatIsThere, Frees
<1>18. CASE Kept!Decrypts
  BY <1>18 DEF Kept!Decrypts, Kept!removalVars, Kept!stableVars, Kept!Holds,
     Kept!Ends, KeptTypesInv, Kept!KeptTypeOK, RemovesWhatIsThere, Deletions,
     InRemoval, Kept!Names, Kept!Inodes, Kept!KeptAssumption, KnowsWhatIsThere,
     Frees
<1>19. CASE Kept!Converts
  BY <1>19 DEF Kept!Converts, Kept!stableVars, Kept!Removes, KeptTypesInv,
     Kept!KeptTypeOK, RemovesWhatIsThere, Deletions, InRemoval, Kept!Names,
     Kept!Inodes, Kept!KeptAssumption, KnowsWhatIsThere, Frees
<1>20. CASE Kept!ConversionFails
  BY <1>20 DEF Kept!ConversionFails, Kept!removalVars, Kept!stableVars, Kept!Ends,
     Kept!Fault, KeptTypesInv, Kept!KeptTypeOK, RemovesWhatIsThere, Deletions,
     InRemoval, Kept!Names, Kept!Inodes, Kept!KeptAssumption, KnowsWhatIsThere,
     Frees
<1>21. CASE Kept!Undoes
  BY <1>21 DEF Kept!Undoes, Kept!removalVars, Kept!stableVars, Kept!Ends,
     Kept!Removes, KeptTypesInv, Kept!KeptTypeOK, RemovesWhatIsThere, Deletions,
     InRemoval, Kept!Names, Kept!Inodes, Kept!KeptAssumption, KnowsWhatIsThere,
     Frees
<1>22. CASE Kept!Killed
  BY <1>22 DEF Kept!Killed, Kept!removalVars, Kept!stableVars, Kept!Ends,
     KeptTypesInv, Kept!KeptTypeOK, RemovesWhatIsThere, Deletions, InRemoval,
     Kept!Names, Kept!Inodes, Kept!KeptAssumption, KnowsWhatIsThere, Frees
<1> QED
  BY <1>1, <1>2, <1>3, <1>4, <1>5, <1>6, <1>7, <1>8, <1>9, <1>10, <1>11, <1>12,
     <1>13, <1>14, <1>15, <1>16, <1>17, <1>18, <1>19, <1>20, <1>21, <1>22 DEF
     Kept!KeptNext

LEMMA StillRemovesWhatIsThere ==
    ASSUME KeptTypesInv, Kept!KeptNext
    PROVE  RemovesWhatIsThere'
<1>1. CASE Kept!Claims
  BY <1>1 DEF Kept!Claims, Kept!removalVars, Kept!stableVars, Kept!Moved,
     KeptTypesInv, Kept!KeptTypeOK, RemovesWhatIsThere, Deletions, InRemoval,
     Kept!Names, Kept!Inodes, KnowsWhatIsThere, Frees
<1>2. CASE Kept!Wipes
  BY <1>2 DEF Kept!Wipes, Kept!removalVars, Kept!stableVars, Kept!Links,
     Kept!Names, KeptTypesInv, Kept!KeptTypeOK, RemovesWhatIsThere, Deletions,
     InRemoval, Kept!Inodes, KnowsWhatIsThere, Frees
<1>3. CASE Kept!Unlinks
  BY <1>3 DEF Kept!Unlinks, Kept!removalVars, Kept!Goes, Kept!Ends, KeptTypesInv,
     Kept!KeptTypeOK, RemovesWhatIsThere, Deletions, InRemoval, Kept!Names,
     Kept!Inodes, KnowsWhatIsThere, Frees
<1>4. CASE Kept!RemovalFails
  BY <1>4 DEF Kept!RemovalFails, Kept!removalVars, Kept!stableVars, Kept!Moved,
     Kept!Fault, Kept!Goes, Kept!Ends, Kept!Links, Kept!Names, KeptTypesInv,
     Kept!KeptTypeOK, RemovesWhatIsThere, Deletions, InRemoval, Kept!Inodes,
     KnowsWhatIsThere, Frees
<1>5. CASE Kept!Looks
  BY <1>5 DEF Kept!Looks, Kept!removalVars, Kept!Holds, Kept!Removes,
     KeptTypesInv, Kept!KeptTypeOK, RemovesWhatIsThere, Deletions, InRemoval,
     Kept!Names, Kept!Inodes, KnowsWhatIsThere, Frees
<1>6. CASE Kept!LinksBackup
  BY <1>6 DEF Kept!LinksBackup, Kept!Removes, KeptTypesInv, Kept!KeptTypeOK,
     RemovesWhatIsThere, Deletions, InRemoval, Kept!Names, Kept!Inodes,
     KnowsWhatIsThere, Frees
<1>7. CASE Kept!BackupFails
  BY <1>7 DEF Kept!BackupFails, Kept!stableVars, Kept!Fault, Kept!Removes,
     KeptTypesInv, Kept!KeptTypeOK, RemovesWhatIsThere, Deletions, InRemoval,
     Kept!Names, Kept!Inodes, KnowsWhatIsThere, Frees
<1>8. CASE Kept!Activates
  BY <1>8 DEF Kept!Activates, Kept!removalVars, Kept!stableVars, Kept!Moved,
     KeptTypesInv, Kept!KeptTypeOK, RemovesWhatIsThere, Deletions, InRemoval,
     Kept!Names, Kept!Inodes, KnowsWhatIsThere, Frees
<1>9. CASE Kept!Activated
  <2>1. CASE hadBackup
    <3>1. keptFiles["backup"] # "none"
      BY <1>9, <2>1 DEF Kept!Activated, KeptTypesInv, KnowsWhatIsThere
    <3>2. "backup" \in Kept!Names /\ "backupClaim" \in Kept!Names
      BY DEF Kept!Names
    <3>3. keptFiles'["backupClaim"] = keptFiles["backup"]
      BY <1>9, <2>1, <3>2, MovedFile DEF Kept!Activated, KeptTypesInv
    <3>4. keptStep' = "claims" /\ leaf' = "backupClaim" /\ then' = "keeps" /\ else' = "backs"
      BY <1>9, <2>1 DEF Kept!Activated, Kept!Removes
    <3> QED
      BY <3>1, <3>3, <3>4 DEF RemovesWhatIsThere, InRemoval, Deletions
  <2>2. CASE ~hadBackup
    BY <1>9, <2>2 DEF Kept!Activated, RemovesWhatIsThere, InRemoval
  <2> QED
    BY <2>1, <2>2
<1>10. CASE Kept!CallFails
  BY <1>10 DEF Kept!CallFails, Kept!removalVars, Kept!stableVars, Kept!Ends,
     Kept!Fault, KeptTypesInv, Kept!KeptTypeOK, RemovesWhatIsThere, Deletions,
     InRemoval, Kept!Names, Kept!Inodes, KnowsWhatIsThere, Frees
<1>11. CASE Kept!BacksUpAgain
  BY <1>11 DEF Kept!BacksUpAgain, Kept!removalVars, Kept!stableVars, Kept!Holds,
     Kept!Moved, KeptTypesInv, Kept!KeptTypeOK, RemovesWhatIsThere, Deletions,
     InRemoval, Kept!Names, Kept!Inodes, KnowsWhatIsThere, Frees
<1>12. CASE Kept!RollsBackToArtifact
  BY <1>12 DEF Kept!RollsBackToArtifact, Kept!removalVars, Kept!stableVars,
     Kept!Holds, Kept!Moved, Kept!Ends, Kept!Active, KeptTypesInv,
     Kept!KeptTypeOK, RemovesWhatIsThere, Deletions, InRemoval, Kept!Names,
     Kept!Inodes, KnowsWhatIsThere, Frees
<1>13. CASE Kept!RollsBackToOld
  BY <1>13 DEF Kept!RollsBackToOld, Kept!removalVars, Kept!stableVars, Kept!Holds,
     Kept!Ends, Kept!Removes, Kept!Active, Kept!BackupUnchanged, KeptTypesInv,
     Kept!KeptTypeOK, RemovesWhatIsThere, Deletions, InRemoval, Kept!Names,
     Kept!Inodes, KnowsWhatIsThere, Frees
<1>14. CASE Kept!RollsBackEarly
  BY <1>14 DEF Kept!RollsBackEarly, Kept!removalVars, Kept!stableVars, Kept!Holds,
     Kept!Ends, Kept!Removes, Kept!Active, KeptTypesInv, Kept!KeptTypeOK,
     RemovesWhatIsThere, Deletions, InRemoval, Kept!Names, Kept!Inodes,
     KnowsWhatIsThere, Frees
<1>15. CASE Kept!Restores
  BY <1>15 DEF Kept!Restores, Kept!removalVars, Kept!stableVars, Kept!Moved,
     Kept!Ends, Kept!BackupUnchanged, KeptTypesInv, Kept!KeptTypeOK,
     RemovesWhatIsThere, Deletions, InRemoval, Kept!Names, Kept!Inodes,
     KnowsWhatIsThere, Frees
<1>16. CASE Kept!Keeps
  BY <1>16 DEF Kept!Keeps, Kept!removalVars, Kept!stableVars, Kept!Holds,
     Kept!Ends, Kept!Removes, KeptTypesInv, Kept!KeptTypeOK, RemovesWhatIsThere,
     Deletions, InRemoval, Kept!Names, Kept!Inodes, KnowsWhatIsThere, Frees
<1>17. CASE Kept!Encrypts
  BY <1>17 DEF Kept!Encrypts, Kept!removalVars, Kept!stableVars, Kept!Holds,
     KeptTypesInv, Kept!KeptTypeOK, RemovesWhatIsThere, Deletions, InRemoval,
     Kept!Names, Kept!Inodes, KnowsWhatIsThere, Frees
<1>18. CASE Kept!Decrypts
  BY <1>18 DEF Kept!Decrypts, Kept!removalVars, Kept!stableVars, Kept!Holds,
     Kept!Ends, KeptTypesInv, Kept!KeptTypeOK, RemovesWhatIsThere, Deletions,
     InRemoval, Kept!Names, Kept!Inodes, KnowsWhatIsThere, Frees
<1>19. CASE Kept!Converts
  BY <1>19 DEF Kept!Converts, Kept!stableVars, Kept!Removes, KeptTypesInv,
     Kept!KeptTypeOK, RemovesWhatIsThere, Deletions, InRemoval, Kept!Names,
     Kept!Inodes, KnowsWhatIsThere, Frees
<1>20. CASE Kept!ConversionFails
  BY <1>20 DEF Kept!ConversionFails, Kept!removalVars, Kept!stableVars, Kept!Ends,
     Kept!Fault, KeptTypesInv, Kept!KeptTypeOK, RemovesWhatIsThere, Deletions,
     InRemoval, Kept!Names, Kept!Inodes, KnowsWhatIsThere, Frees
<1>21. CASE Kept!Undoes
  BY <1>21 DEF Kept!Undoes, Kept!removalVars, Kept!stableVars, Kept!Ends,
     Kept!Removes, KeptTypesInv, Kept!KeptTypeOK, RemovesWhatIsThere, Deletions,
     InRemoval, Kept!Names, Kept!Inodes, KnowsWhatIsThere, Frees
<1>22. CASE Kept!Killed
  BY <1>22 DEF Kept!Killed, Kept!removalVars, Kept!stableVars, Kept!Ends,
     KeptTypesInv, Kept!KeptTypeOK, RemovesWhatIsThere, Deletions, InRemoval,
     Kept!Names, Kept!Inodes, KnowsWhatIsThere, Frees
<1> QED
  BY <1>1, <1>2, <1>3, <1>4, <1>5, <1>6, <1>7, <1>8, <1>9, <1>10, <1>11, <1>12,
     <1>13, <1>14, <1>15, <1>16, <1>17, <1>18, <1>19, <1>20, <1>21, <1>22 DEF
     Kept!KeptNext

LEMMA StillKnowsWhatIsThere ==
    ASSUME KeptTypesInv, Kept!KeptNext
    PROVE  KnowsWhatIsThere'
<1>1. CASE Kept!Claims
  BY <1>1 DEF Kept!Claims, Kept!removalVars, Kept!stableVars, Kept!Moved,
     KeptTypesInv, Kept!KeptTypeOK, RemovesWhatIsThere, Deletions, InRemoval,
     Kept!Names, Kept!Inodes, KnowsWhatIsThere, Frees
<1>2. CASE Kept!Wipes
  BY <1>2 DEF Kept!Wipes, Kept!removalVars, Kept!stableVars, Kept!Links,
     Kept!Names, KeptTypesInv, Kept!KeptTypeOK, RemovesWhatIsThere, Deletions,
     InRemoval, Kept!Inodes, KnowsWhatIsThere, Frees
<1>3. CASE Kept!Unlinks
  BY <1>3 DEF Kept!Unlinks, Kept!removalVars, Kept!Goes, Kept!Ends, KeptTypesInv,
     Kept!KeptTypeOK, RemovesWhatIsThere, Deletions, InRemoval, Kept!Names,
     Kept!Inodes, KnowsWhatIsThere, Frees
<1>4. CASE Kept!RemovalFails
  <2>1. /\ InRemoval /\ UNCHANGED <<leaf, then, else, hadBackup, removed>>
        /\ <<leaf, then, else>> \in Deletions
        /\ keptStep' = else
    BY <1>4 DEF Kept!RemovalFails, Kept!Goes, Kept!Ends, Kept!removalVars, Kept!stableVars, InRemoval, KeptTypesInv,
       RemovesWhatIsThere, Deletions
  <2>2. leaf \in Kept!Names \ {"claim"} /\ "claim" \in Kept!Names
    BY <2>1 DEF Deletions, Kept!Names
  <2>3. \A n \in Kept!Names \ {"claim", leaf} : keptFiles'[n] = keptFiles[n]
    <3>1. \/ keptFiles' = keptFiles \/ keptFiles' = Kept!Moved("claim", leaf)
          \/ keptFiles' = [keptFiles EXCEPT !["claim"] = "none"]
      BY <1>4 DEF Kept!RemovalFails
    <3> QED
      BY <2>2, <3>1, MovedFile DEF KeptTypesInv, Kept!KeptTypeOK
  <2>4. keptStep' \in {"failed", "rollback", "backs", "undoes"}
    BY <2>1 DEF Deletions
  <2>5. keptStep' = "rollback" => keptFiles["backup"] # "none" /\ leaf = "stable"
    BY <2>1 DEF Deletions, KeptTypesInv, KnowsWhatIsThere, Frees
  <2>6. keptStep' = "backs" => removed
    BY <2>1 DEF Deletions, KeptTypesInv, KnowsWhatIsThere, Frees
  <2>7. keptStep' = "undoes" => keptFiles["other"] # "none" /\ leaf = "stable"
    BY <2>1 DEF Deletions, KeptTypesInv, KnowsWhatIsThere, Frees
  <2> QED
    BY <2>1, <2>3, <2>4, <2>5, <2>6, <2>7 DEF KnowsWhatIsThere, Frees, InRemoval, Kept!Names
<1>5. CASE Kept!Looks
  BY <1>5 DEF Kept!Looks, Kept!removalVars, Kept!Holds, Kept!Removes,
     KeptTypesInv, Kept!KeptTypeOK, RemovesWhatIsThere, Deletions, InRemoval,
     Kept!Names, Kept!Inodes, KnowsWhatIsThere, Frees
<1>6. CASE Kept!LinksBackup
  BY <1>6 DEF Kept!LinksBackup, Kept!Removes, KeptTypesInv, Kept!KeptTypeOK,
     RemovesWhatIsThere, Deletions, InRemoval, Kept!Names, Kept!Inodes,
     KnowsWhatIsThere, Frees
<1>7. CASE Kept!BackupFails
  BY <1>7 DEF Kept!BackupFails, Kept!stableVars, Kept!Fault, Kept!Removes,
     KeptTypesInv, Kept!KeptTypeOK, RemovesWhatIsThere, Deletions, InRemoval,
     Kept!Names, Kept!Inodes, KnowsWhatIsThere, Frees
<1>8. CASE Kept!Activates
  BY <1>8 DEF Kept!Activates, Kept!removalVars, Kept!stableVars, Kept!Moved,
     KeptTypesInv, Kept!KeptTypeOK, RemovesWhatIsThere, Deletions, InRemoval,
     Kept!Names, Kept!Inodes, KnowsWhatIsThere, Frees
<1>9. CASE Kept!Activated
  BY <1>9 DEF Kept!Activated, Kept!removalVars, Kept!Moved, Kept!Removes,
     KeptTypesInv, Kept!KeptTypeOK, RemovesWhatIsThere, Deletions, InRemoval,
     Kept!Names, Kept!Inodes, KnowsWhatIsThere, Frees
<1>10. CASE Kept!CallFails
  BY <1>10 DEF Kept!CallFails, Kept!removalVars, Kept!stableVars, Kept!Ends,
     Kept!Fault, KeptTypesInv, Kept!KeptTypeOK, RemovesWhatIsThere, Deletions,
     InRemoval, Kept!Names, Kept!Inodes, KnowsWhatIsThere, Frees
<1>11. CASE Kept!BacksUpAgain
  BY <1>11 DEF Kept!BacksUpAgain, Kept!removalVars, Kept!stableVars, Kept!Holds,
     Kept!Moved, KeptTypesInv, Kept!KeptTypeOK, RemovesWhatIsThere, Deletions,
     InRemoval, Kept!Names, Kept!Inodes, KnowsWhatIsThere, Frees
<1>12. CASE Kept!RollsBackToArtifact
  BY <1>12 DEF Kept!RollsBackToArtifact, Kept!removalVars, Kept!stableVars,
     Kept!Holds, Kept!Moved, Kept!Ends, Kept!Active, KeptTypesInv,
     Kept!KeptTypeOK, RemovesWhatIsThere, Deletions, InRemoval, Kept!Names,
     Kept!Inodes, KnowsWhatIsThere, Frees
<1>13. CASE Kept!RollsBackToOld
  BY <1>13 DEF Kept!RollsBackToOld, Kept!removalVars, Kept!stableVars, Kept!Holds,
     Kept!Ends, Kept!Removes, Kept!Active, Kept!BackupUnchanged, KeptTypesInv,
     Kept!KeptTypeOK, RemovesWhatIsThere, Deletions, InRemoval, Kept!Names,
     Kept!Inodes, KnowsWhatIsThere, Frees
<1>14. CASE Kept!RollsBackEarly
  BY <1>14 DEF Kept!RollsBackEarly, Kept!removalVars, Kept!stableVars, Kept!Holds,
     Kept!Ends, Kept!Removes, Kept!Active, KeptTypesInv, Kept!KeptTypeOK,
     RemovesWhatIsThere, Deletions, InRemoval, Kept!Names, Kept!Inodes,
     KnowsWhatIsThere, Frees
<1>15. CASE Kept!Restores
  BY <1>15 DEF Kept!Restores, Kept!removalVars, Kept!stableVars, Kept!Moved,
     Kept!Ends, Kept!BackupUnchanged, KeptTypesInv, Kept!KeptTypeOK,
     RemovesWhatIsThere, Deletions, InRemoval, Kept!Names, Kept!Inodes,
     KnowsWhatIsThere, Frees
<1>16. CASE Kept!Keeps
  BY <1>16 DEF Kept!Keeps, Kept!removalVars, Kept!stableVars, Kept!Holds,
     Kept!Ends, Kept!Removes, KeptTypesInv, Kept!KeptTypeOK, RemovesWhatIsThere,
     Deletions, InRemoval, Kept!Names, Kept!Inodes, KnowsWhatIsThere, Frees
<1>17. CASE Kept!Encrypts
  BY <1>17 DEF Kept!Encrypts, Kept!removalVars, Kept!stableVars, Kept!Holds,
     KeptTypesInv, Kept!KeptTypeOK, RemovesWhatIsThere, Deletions, InRemoval,
     Kept!Names, Kept!Inodes, KnowsWhatIsThere, Frees
<1>18. CASE Kept!Decrypts
  BY <1>18 DEF Kept!Decrypts, Kept!removalVars, Kept!stableVars, Kept!Holds,
     Kept!Ends, KeptTypesInv, Kept!KeptTypeOK, RemovesWhatIsThere, Deletions,
     InRemoval, Kept!Names, Kept!Inodes, KnowsWhatIsThere, Frees
<1>19. CASE Kept!Converts
  BY <1>19 DEF Kept!Converts, Kept!stableVars, Kept!Removes, KeptTypesInv,
     Kept!KeptTypeOK, RemovesWhatIsThere, Deletions, InRemoval, Kept!Names,
     Kept!Inodes, KnowsWhatIsThere, Frees
<1>20. CASE Kept!ConversionFails
  BY <1>20 DEF Kept!ConversionFails, Kept!removalVars, Kept!stableVars, Kept!Ends,
     Kept!Fault, KeptTypesInv, Kept!KeptTypeOK, RemovesWhatIsThere, Deletions,
     InRemoval, Kept!Names, Kept!Inodes, KnowsWhatIsThere, Frees
<1>21. CASE Kept!Undoes
  BY <1>21 DEF Kept!Undoes, Kept!removalVars, Kept!stableVars, Kept!Ends,
     Kept!Removes, KeptTypesInv, Kept!KeptTypeOK, RemovesWhatIsThere, Deletions,
     InRemoval, Kept!Names, Kept!Inodes, KnowsWhatIsThere, Frees
<1>22. CASE Kept!Killed
  BY <1>22 DEF Kept!Killed, Kept!removalVars, Kept!stableVars, Kept!Ends,
     KeptTypesInv, Kept!KeptTypeOK, RemovesWhatIsThere, Deletions, InRemoval,
     Kept!Names, Kept!Inodes, KnowsWhatIsThere, Frees
<1> QED
  BY <1>1, <1>2, <1>3, <1>4, <1>5, <1>6, <1>7, <1>8, <1>9, <1>10, <1>11, <1>12,
     <1>13, <1>14, <1>15, <1>16, <1>17, <1>18, <1>19, <1>20, <1>21, <1>22 DEF
     Kept!KeptNext


(* cli.py - the variables of KeptRecording keep their types, however many  *)
(* calls fail.                                                             *)
THEOREM KeptTypeCorrect == Kept!KeptSpec => []Kept!KeptTypeOK
<1>0. Kept!KeptAssumption
  BY FilesConstants DEF FilesConstants
<1>1. Kept!KeptInit => KeptTypesInv
  <2> SUFFICES ASSUME Kept!KeptInit PROVE KeptTypesInv
    OBVIOUS
  <2>1. 0 \in 0..MaxKeptFaults
    BY <1>0 DEF Kept!KeptAssumption
  <2>2. keptStep \in {"keeps", "looks"} /\ keptFiles \in [Kept!Names -> Kept!Inodes \cup {"none"}]
        /\ (keptStep = "looks" => keptFiles["artifact"] # "none")
        /\ (keptStep = "keeps" => keptFiles["stable"] # "none")
    BY DEF Kept!KeptInit, Kept!Names, Kept!Inodes
  <2>3. Kept!KeptTypeOK
    BY <2>1, <2>2 DEF Kept!KeptInit, Kept!KeptTypeOK
  <2>4. hadBackup = FALSE
    BY DEF Kept!KeptInit
  <2> QED
    BY <2>2, <2>3, <2>4 DEF KeptTypesInv, RemovesWhatIsThere, KnowsWhatIsThere, InRemoval, Frees
<1>2. KeptTypesInv /\ [Kept!KeptNext]_(Kept!keptVars) => KeptTypesInv'
  <2> SUFFICES ASSUME KeptTypesInv, [Kept!KeptNext]_(Kept!keptVars) PROVE KeptTypesInv'
    OBVIOUS
  <2>1. CASE Kept!KeptNext
    BY <1>0, <2>1, KeptTypeKept, StillRemovesWhatIsThere, StillKnowsWhatIsThere DEF KeptTypesInv
  <2>2. CASE UNCHANGED Kept!keptVars
    BY <2>2 DEF Kept!keptVars, Kept!removalVars, Kept!stableVars, KeptTypesInv, Kept!KeptTypeOK,
       RemovesWhatIsThere, KnowsWhatIsThere, InRemoval, Frees
  <2> QED
    BY <2>1, <2>2
<1>3. KeptTypesInv => Kept!KeptTypeOK
  BY DEF KeptTypesInv
<1> QED
  BY <1>1, <1>2, <1>3, PTL DEF Kept!KeptSpec

-----------------------------------------------------------------------------
(* LocalInstall.  Who may still change the rollback directory, and what is   *)
(* in it at every step.                                                     *)
Preparing == {"prepares", "stages", "journals"}
ItemSteps == {"inspects", "backs", "renames", "activates", "verifies"}
BackupSteps == {"backs", "renames"}
Undoings == {"exchanges", "swaps", "puts"} \cup Install!Removal
Started == {"prepares", "journals", "backs", "renames", "activates"}

UndoneAt(i) == installStep = "removes" \/ (installStep \in Install!Rollback /\ item < i)

\* While a script goes forward it is alone, and the phase is what it has written.
ScriptIsAlone ==
    /\ installStep \in Install!Forward => orphans = {} /\ ~rollbackFailed
    /\ phase = "none" => \A i \in Install!Items : saved[i] = "none"
    /\ installStep = "makes" => phase = "none"
    /\ installStep \in ItemSteps => phase = "recovery-required" /\ item >= 1
    /\ installStep \in Preparing \cup ItemSteps => ~cut /\ ~complete
    /\ installStep \in Install!Rollback => item <= recorded /\ ~complete
    /\ installStep \in Undoings => item >= 1
    /\ installStep = "removes" => ~rollbackFailed

\* How far the installation has got, and what it has found.
FoundSoFar ==
    /\ installStep \in Preparing => recorded = 0
    /\ installStep = "inspects" => recorded = item - 1
    /\ installStep \in {"backs", "renames", "activates"} => recorded = item
    /\ installStep = "verifies" => recorded = ItemCount
    /\ \A i \in Install!Items : i > recorded => former[i] = "none"
    /\ \A i \in Install!Items : former[i] # "new" /\ (saved[i] # "none" => former[i] # "none")
    /\ installStep \in Preparing => \A i \in Install!Items : site[i] # "new"
    /\ installStep \in ItemSteps \ {"verifies"} => \A i \in Install!Items : i >= item => site[i] # "new"
    /\ phase = "pre-activation" => recorded = 0
    /\ \A o \in orphans : o.step \in {"prepares", "journals"} => recorded = 0

TheirsIsNew ==
    \A i \in Install!Items :
       /\ theirs[i] # "put" => "other" \notin {site[i], saved[i], former[i]}
       /\ theirs[i] = "no" => destroyed[i] = "none"

\* A backup that is still to be made finds its place free, and the rollback has
\* noticed that it was missing.
LateBackups ==
    /\ \A o \in orphans : o.step \in BackupSteps =>
         /\ o.item \in Install!Items /\ former[o.item] # "none" /\ saved[o.item] = "none" /\ ~complete
         /\ UndoneAt(o.item) => rollbackFailed
    /\ \A o, p \in orphans : {o.step, p.step} \subseteq BackupSteps => o = p
    /\ installStep \in Install!Rollback \cup {"removes"} => \A o \in orphans : o.step \in Started

\* What the step at hand relies on.
StepIsReady ==
    /\ installStep \in BackupSteps => former[item] # "none" /\ saved[item] = "none"
    /\ installStep \in {"exchanges", "swaps", "puts"} => former[item] # "none" /\ saved[item] # "none"
    /\ installStep = "swaps" => saved[item] = former[item]
    /\ installStep \in Install!Removal => former[item] = "none"
    /\ \A o \in orphans : o.step \in Install!Removal => former[o.item] = "none"

UndoneIsBack ==
    ~complete /\ ~rollbackFailed => \A i \in Install!Items : UndoneAt(i) =>
       /\ saved[i] \in {"none", "new"}
       /\ former[i] # "none" /\ theirs[i] = "no" => site[i] = former[i]

\* Without a rollback the directory has what was found and nothing else.
BackupsAreFormer ==
    /\ installStep \in Preparing \cup ItemSteps => \A i \in Install!Items : saved[i] \in {"none", former[i]}
    /\ complete => /\ \A i \in Install!Items : saved[i] \in {"none", former[i]}
                   /\ \A o \in orphans : o.step \in {"removes", "cleans"}

LateRemovals ==
    \A o \in orphans : o.step = "removes" /\ ~complete =>
       /\ \A i \in Install!Items : saved[i] \in {"none", "new"}
       /\ \A p \in orphans : p.step \notin BackupSteps \cup {"exchanges", "swaps"}
       /\ installStep = "over"

InstallInv ==
    /\ Install!InstallTypeOK /\ ScriptIsAlone /\ Install!InstalledIsKept
    /\ ~cut => /\ FoundSoFar /\ TheirsIsNew /\ LateBackups /\ StepIsReady
               /\ UndoneIsBack /\ BackupsAreFormer /\ LateRemovals

LEMMA InstallTypeKept ==
    ASSUME ItemCount \in Nat \ {0}, InstallInv, Install!InstallNext
    PROVE  Install!InstallTypeOK'
<1>1. CASE Install!FindsNone \/ Install!Refuses \/ Install!CannotMake \/
             Install!Prepares
  BY <1>1 DEF Install!FindsNone, Install!Refuses, Install!CannotMake,
     Install!Prepares, Install!Goes, Install!Still, Install!SameRun,
     Install!SameFlags, Install!runVars, Install!SetsPhase, InstallInv,
     Install!InstallTypeOK, Install!Items, Install!Things, Install!Helpers,
     Install!HelperSteps, ScriptIsAlone, Preparing, ItemSteps, Undoings,
     Install!Forward, Install!Rollback, Install!Removal
<1>2. CASE Install!Begins
  <2>1. {rollbackFailed, complete, inTrap, cut}' \subseteq BOOLEAN
    BY <1>2 DEF Install!Begins, Install!Goes, Install!Still, Install!runVars,
       InstallInv, Install!InstallTypeOK
  <2>2. /\ site' \in [Install!Items -> Install!Things] /\ saved' \in [Install!Items -> Install!Things]
        /\ former' \in [Install!Items -> Install!Things] /\ destroyed' \in [Install!Items -> Install!Things]
        /\ residue' \in [Install!Items -> SUBSET Install!Things] /\ theirs' \in [Install!Items -> {"no", "put", "took", "gone"}]
    BY <1>2 DEF Install!Begins, Install!Goes, Install!Still, Install!runVars,
       InstallInv, Install!InstallTypeOK, ScriptIsAlone, Install!Things,
       Preparing, ItemSteps, Undoings, Install!Items
  <2>3. /\ installStep' \in Install!Forward \cup Install!Rollback \cup {"removes", "over"}
        /\ item' \in 0..ItemCount /\ recorded' \in 0..ItemCount
        /\ phase' \in {"none", "made", "pre-activation", "recovery-required"} /\ orphans' \subseteq Install!Helpers
    BY <1>2 DEF Install!Begins, Install!Goes, Install!Still, Install!runVars,
       InstallInv, Install!InstallTypeOK, ScriptIsAlone, Install!Forward,
       Install!Rollback, Install!Removal, Preparing, ItemSteps, Undoings
  <2> QED
    BY <2>1, <2>2, <2>3 DEF Install!InstallTypeOK
<1>3. CASE Install!Cleans \/ Install!Removes
  BY <1>3 DEF Install!Cleans, Install!Removes, Install!Goes, Install!SameRun,
     Install!SameFlags, Install!runVars, Install!RemovesTree, Install!RemovesAll,
     Install!Everywhere, InstallInv, Install!InstallTypeOK, Install!Items,
     Install!Things, Install!Helpers, Install!HelperSteps, ScriptIsAlone,
     Preparing, ItemSteps, Undoings, Install!Forward, Install!Rollback,
     Install!Removal
<1>4. CASE Install!Makes
  <2>1. {rollbackFailed, complete, inTrap, cut}' \subseteq BOOLEAN
    BY <1>4 DEF Install!Makes, Install!Goes, Install!SameFlags, Install!Everywhere,
       InstallInv, Install!InstallTypeOK
  <2>2. /\ site' \in [Install!Items -> Install!Things] /\ saved' \in [Install!Items -> Install!Things]
        /\ former' \in [Install!Items -> Install!Things] /\ destroyed' \in [Install!Items -> Install!Things]
        /\ residue' \in [Install!Items -> SUBSET Install!Things] /\ theirs' \in [Install!Items -> {"no", "put", "took", "gone"}]
    BY <1>4 DEF Install!Makes, Install!Goes, Install!SameFlags, Install!Everywhere,
       InstallInv, Install!InstallTypeOK, ScriptIsAlone, Install!Things,
       Preparing, ItemSteps, Undoings, Install!Items
  <2>3. /\ installStep' \in Install!Forward \cup Install!Rollback \cup {"removes", "over"}
        /\ item' \in 0..ItemCount /\ recorded' \in 0..ItemCount
        /\ phase' \in {"none", "made", "pre-activation", "recovery-required"} /\ orphans' \subseteq Install!Helpers
    BY <1>4 DEF Install!Makes, Install!Goes, Install!SameFlags, Install!Everywhere,
       InstallInv, Install!InstallTypeOK, ScriptIsAlone, Install!Forward,
       Install!Rollback, Install!Removal, Preparing, ItemSteps, Undoings
  <2> QED
    BY <2>1, <2>2, <2>3 DEF Install!InstallTypeOK
<1>5. CASE Install!Stages
  BY <1>5 DEF Install!Stages, Install!Goes, Install!Still, Install!SameRun,
     Install!SameFlags, Install!runVars, Install!Exits, Install!RollsBack,
     InstallInv, Install!InstallTypeOK, Install!Items, Install!Things,
     Install!Helpers, Install!HelperSteps, ScriptIsAlone, Preparing, ItemSteps,
     Undoings, Install!Forward, Install!Rollback, Install!Removal
<1>6. CASE Install!Journals
  BY <1>6 DEF Install!Journals, Install!SetsPhase, Install!FirstItem,
     Install!Goes, Install!SameFlags, Install!runVars, InstallInv,
     Install!InstallTypeOK, Install!Items, Install!Things, Install!Helpers,
     Install!HelperSteps, ScriptIsAlone, Preparing, ItemSteps, Undoings,
     Install!Forward, Install!Rollback, Install!Removal
<1>7. CASE Install!CannotJournal
  BY <1>7 DEF Install!CannotJournal, Install!Still, Install!SetsPhase,
     Install!RollsBack, Install!Goes, Install!runVars, InstallInv,
     Install!InstallTypeOK, Install!Items, Install!Things, Install!Helpers,
     Install!HelperSteps, ScriptIsAlone, Preparing, ItemSteps, Undoings,
     Install!Forward, Install!Rollback, Install!Removal
<1>8. CASE Install!Inspects
  BY <1>8 DEF Install!Inspects, Install!Goes, Install!Still, Install!SameFlags,
     InstallInv, Install!InstallTypeOK, Install!Items, Install!Things,
     Install!Helpers, Install!HelperSteps, ScriptIsAlone, Preparing, ItemSteps,
     Undoings, Install!Forward, Install!Rollback, Install!Removal
<1>9. CASE Install!LooksBeforeBackup \/ Install!ItemFails \/
             Install!VerificationFails
  BY <1>9 DEF Install!LooksBeforeBackup, Install!ItemFails,
     Install!VerificationFails, Install!Goes, Install!Still, Install!SameRun,
     Install!SameFlags, Install!runVars, Install!SameIdentity, Install!Fails,
     Install!RollsBack, Install!Exits, InstallInv, Install!InstallTypeOK,
     Install!Items, Install!Things, Install!Helpers, Install!HelperSteps,
     ScriptIsAlone, Preparing, ItemSteps, Undoings, Install!Forward,
     Install!Rollback, Install!Removal
<1>10. CASE Install!Renames
  BY <1>10 DEF Install!Renames, Install!Goes, Install!SameRun, Install!SameFlags,
     Install!runVars, Install!BacksUp, Install!SameIdentity, Install!Fails,
     Install!RollsBack, InstallInv, Install!InstallTypeOK, Install!Items,
     Install!Things, Install!Helpers, Install!HelperSteps, ScriptIsAlone,
     Preparing, ItemSteps, Undoings, Install!Forward, Install!Rollback,
     Install!Removal
<1>11. CASE Install!Activates
  <2>1. {rollbackFailed, complete, inTrap, cut}' \subseteq BOOLEAN
    BY <1>11 DEF Install!Activates, Install!Goes, Install!SameFlags, Install!Places,
       Install!Fails, Install!RollsBack, Install!runVars, InstallInv,
       Install!InstallTypeOK
  <2>2. /\ site' \in [Install!Items -> Install!Things] /\ saved' \in [Install!Items -> Install!Things]
        /\ former' \in [Install!Items -> Install!Things] /\ destroyed' \in [Install!Items -> Install!Things]
        /\ residue' \in [Install!Items -> SUBSET Install!Things] /\ theirs' \in [Install!Items -> {"no", "put", "took", "gone"}]
    BY <1>11 DEF Install!Activates, Install!Goes, Install!SameFlags, Install!Places,
       Install!Fails, Install!RollsBack, Install!runVars, InstallInv,
       Install!InstallTypeOK, ScriptIsAlone, Install!Things, Preparing, ItemSteps,
       Undoings, Install!Items
  <2>3. /\ installStep' \in Install!Forward \cup Install!Rollback \cup {"removes", "over"}
        /\ item' \in 0..ItemCount /\ recorded' \in 0..ItemCount
        /\ phase' \in {"none", "made", "pre-activation", "recovery-required"} /\ orphans' \subseteq Install!Helpers
    BY <1>11 DEF Install!Activates, Install!Goes, Install!SameFlags, Install!Places,
       Install!Fails, Install!RollsBack, Install!runVars, InstallInv,
       Install!InstallTypeOK, ScriptIsAlone, Install!Forward, Install!Rollback,
       Install!Removal, Preparing, ItemSteps, Undoings
  <2> QED
    BY <2>1, <2>2, <2>3 DEF Install!InstallTypeOK
<1>12. CASE Install!Verifies
  <2>1. {rollbackFailed, complete, inTrap, cut}' \subseteq BOOLEAN
    BY <1>12 DEF Install!Verifies, Install!Goes, Install!Still, Install!SameFlags,
       Install!SameIdentity, Install!runVars, InstallInv, Install!InstallTypeOK
  <2>2. /\ site' \in [Install!Items -> Install!Things] /\ saved' \in [Install!Items -> Install!Things]
        /\ former' \in [Install!Items -> Install!Things] /\ destroyed' \in [Install!Items -> Install!Things]
        /\ residue' \in [Install!Items -> SUBSET Install!Things] /\ theirs' \in [Install!Items -> {"no", "put", "took", "gone"}]
    BY <1>12 DEF Install!Verifies, Install!Goes, Install!Still, Install!SameFlags,
       Install!SameIdentity, Install!runVars, InstallInv, Install!InstallTypeOK,
       ScriptIsAlone, Install!Things, Preparing, ItemSteps, Undoings,
       Install!Items
  <2>3. /\ installStep' \in Install!Forward \cup Install!Rollback \cup {"removes", "over"}
        /\ item' \in 0..ItemCount /\ recorded' \in 0..ItemCount
        /\ phase' \in {"none", "made", "pre-activation", "recovery-required"} /\ orphans' \subseteq Install!Helpers
    BY <1>12 DEF Install!Verifies, Install!Goes, Install!Still, Install!SameFlags,
       Install!SameIdentity, Install!runVars, InstallInv, Install!InstallTypeOK,
       ScriptIsAlone, Install!Forward, Install!Rollback, Install!Removal,
       Preparing, ItemSteps, Undoings
  <2> QED
    BY <2>1, <2>2, <2>3 DEF Install!InstallTypeOK
<1>13. CASE Install!Undoes
  <2>1. {rollbackFailed, complete, inTrap, cut}' \subseteq BOOLEAN
    BY <1>13 DEF Install!Undoes, Install!Goes, Install!Still, Install!SameRun,
       Install!SameFlags, Install!runVars, Install!Undone, Install!CannotUndo,
       InstallInv, Install!InstallTypeOK
  <2>2. /\ site' \in [Install!Items -> Install!Things] /\ saved' \in [Install!Items -> Install!Things]
        /\ former' \in [Install!Items -> Install!Things] /\ destroyed' \in [Install!Items -> Install!Things]
        /\ residue' \in [Install!Items -> SUBSET Install!Things] /\ theirs' \in [Install!Items -> {"no", "put", "took", "gone"}]
    BY <1>13 DEF Install!Undoes, Install!Goes, Install!Still, Install!SameRun,
       Install!SameFlags, Install!runVars, Install!Undone, Install!CannotUndo,
       InstallInv, Install!InstallTypeOK, ScriptIsAlone, Install!Things,
       Preparing, ItemSteps, Undoings, Install!Items
  <2>3. /\ installStep' \in Install!Forward \cup Install!Rollback \cup {"removes", "over"}
        /\ item' \in 0..ItemCount /\ recorded' \in 0..ItemCount
        /\ phase' \in {"none", "made", "pre-activation", "recovery-required"} /\ orphans' \subseteq Install!Helpers
    BY <1>13 DEF Install!Undoes, Install!Goes, Install!Still, Install!SameRun,
       Install!SameFlags, Install!runVars, Install!Undone, Install!CannotUndo,
       InstallInv, Install!InstallTypeOK, ScriptIsAlone, Install!Forward,
       Install!Rollback, Install!Removal, Preparing, ItemSteps, Undoings
  <2> QED
    BY <2>1, <2>2, <2>3 DEF Install!InstallTypeOK
<1>14. CASE Install!LooksAgain
  BY <1>14 DEF Install!LooksAgain, Install!Goes, Install!Still, Install!SameRun,
     Install!SameFlags, Install!runVars, Install!SameIdentity, Install!Undone,
     InstallInv, Install!InstallTypeOK, Install!Items, Install!Things,
     Install!Helpers, Install!HelperSteps, ScriptIsAlone, Preparing, ItemSteps,
     Undoings, Install!Forward, Install!Rollback, Install!Removal
<1>15. CASE Install!LooksBeforeExchange
  BY <1>15 DEF Install!LooksBeforeExchange, Install!Goes, Install!Still,
     Install!SameRun, Install!SameFlags, Install!runVars, Install!SameIdentity,
     InstallInv, Install!InstallTypeOK, Install!Items, Install!Things,
     Install!Helpers, Install!HelperSteps, ScriptIsAlone, Preparing, ItemSteps,
     Undoings, Install!Forward, Install!Rollback, Install!Removal
<1>16. CASE Install!LooksBeforeRemoval
  BY <1>16 DEF Install!LooksBeforeRemoval, Install!Goes, Install!Still,
     Install!SameRun, Install!SameFlags, Install!runVars, Install!SameIdentity,
     InstallInv, Install!InstallTypeOK, Install!Items, Install!Things,
     Install!Helpers, Install!HelperSteps, ScriptIsAlone, Preparing, ItemSteps,
     Undoings, Install!Forward, Install!Rollback, Install!Removal
<1>17. CASE Install!UndoFails
  BY <1>17 DEF Install!UndoFails, Install!Still, Install!CannotUndo, Install!Goes,
     Install!runVars, Install!Rollback, Install!Removal, InstallInv,
     Install!InstallTypeOK, Install!Items, Install!Things, Install!Helpers,
     Install!HelperSteps, ScriptIsAlone, Preparing, ItemSteps, Undoings,
     Install!Forward
<1>18. CASE Install!RolledBack
  BY <1>18 DEF Install!RolledBack, Install!Still, Install!Cleanup, Install!Goes,
     Install!runVars, InstallInv, Install!InstallTypeOK, Install!Items,
     Install!Things, Install!Helpers, Install!HelperSteps, ScriptIsAlone,
     Preparing, ItemSteps, Undoings, Install!Forward, Install!Rollback,
     Install!Removal
<1>19. CASE Install!Swaps
  <2>1. {rollbackFailed, complete, inTrap, cut}' \subseteq BOOLEAN
    BY <1>19 DEF Install!Swaps, Install!Exchanges, Install!SameIdentity,
       Install!Undone, Install!Goes, Install!SameFlags, Install!runVars,
       Install!CannotUndo, InstallInv, Install!InstallTypeOK
  <2>2. /\ site' \in [Install!Items -> Install!Things] /\ saved' \in [Install!Items -> Install!Things]
        /\ former' \in [Install!Items -> Install!Things] /\ destroyed' \in [Install!Items -> Install!Things]
        /\ residue' \in [Install!Items -> SUBSET Install!Things] /\ theirs' \in [Install!Items -> {"no", "put", "took", "gone"}]
    BY <1>19 DEF Install!Swaps, Install!Exchanges, Install!SameIdentity,
       Install!Undone, Install!Goes, Install!SameFlags, Install!runVars,
       Install!CannotUndo, InstallInv, Install!InstallTypeOK, ScriptIsAlone,
       Install!Things, Preparing, ItemSteps, Undoings, Install!Items
  <2>3. /\ installStep' \in Install!Forward \cup Install!Rollback \cup {"removes", "over"}
        /\ item' \in 0..ItemCount /\ recorded' \in 0..ItemCount
        /\ phase' \in {"none", "made", "pre-activation", "recovery-required"} /\ orphans' \subseteq Install!Helpers
    BY <1>19 DEF Install!Swaps, Install!Exchanges, Install!SameIdentity,
       Install!Undone, Install!Goes, Install!SameFlags, Install!runVars,
       Install!CannotUndo, InstallInv, Install!InstallTypeOK, ScriptIsAlone,
       Install!Forward, Install!Rollback, Install!Removal, Preparing, ItemSteps,
       Undoings
  <2> QED
    BY <2>1, <2>2, <2>3 DEF Install!InstallTypeOK
<1>20. CASE Install!Restores
  <2>1. {rollbackFailed, complete, inTrap, cut}' \subseteq BOOLEAN
    BY <1>20 DEF Install!Restores, Install!PutsBack, Install!Undone, Install!Goes,
       Install!SameFlags, Install!runVars, Install!CannotUndo, InstallInv,
       Install!InstallTypeOK
  <2>2. /\ site' \in [Install!Items -> Install!Things] /\ saved' \in [Install!Items -> Install!Things]
        /\ former' \in [Install!Items -> Install!Things] /\ destroyed' \in [Install!Items -> Install!Things]
        /\ residue' \in [Install!Items -> SUBSET Install!Things] /\ theirs' \in [Install!Items -> {"no", "put", "took", "gone"}]
    BY <1>20 DEF Install!Restores, Install!PutsBack, Install!Undone, Install!Goes,
       Install!SameFlags, Install!runVars, Install!CannotUndo, InstallInv,
       Install!InstallTypeOK, ScriptIsAlone, Install!Things, Preparing, ItemSteps,
       Undoings, Install!Items
  <2>3. /\ installStep' \in Install!Forward \cup Install!Rollback \cup {"removes", "over"}
        /\ item' \in 0..ItemCount /\ recorded' \in 0..ItemCount
        /\ phase' \in {"none", "made", "pre-activation", "recovery-required"} /\ orphans' \subseteq Install!Helpers
    BY <1>20 DEF Install!Restores, Install!PutsBack, Install!Undone, Install!Goes,
       Install!SameFlags, Install!runVars, Install!CannotUndo, InstallInv,
       Install!InstallTypeOK, ScriptIsAlone, Install!Forward, Install!Rollback,
       Install!Removal, Preparing, ItemSteps, Undoings
  <2> QED
    BY <2>1, <2>2, <2>3 DEF Install!InstallTypeOK
<1>21. CASE Install!Claims
  <2>1. {rollbackFailed, complete, inTrap, cut}' \subseteq BOOLEAN
    BY <1>21 DEF Install!Claims, Install!TakesAway, Install!SameIdentity,
       Install!Undone, Install!Goes, Install!SameFlags, Install!runVars,
       Install!CannotUndo, Install!Seen, InstallInv, Install!InstallTypeOK
  <2>2. /\ site' \in [Install!Items -> Install!Things] /\ saved' \in [Install!Items -> Install!Things]
        /\ former' \in [Install!Items -> Install!Things] /\ destroyed' \in [Install!Items -> Install!Things]
        /\ residue' \in [Install!Items -> SUBSET Install!Things] /\ theirs' \in [Install!Items -> {"no", "put", "took", "gone"}]
    <3>1. /\ site' \in {site, [site EXCEPT ![item] = "none"]} /\ UNCHANGED <<saved, former, destroyed>>
          /\ residue' \in {residue, [residue EXCEPT ![item] = residue[item] \cup {site[item]}]}
          /\ theirs' \in {theirs, [theirs EXCEPT ![item] = "gone"]}
      BY <1>21 DEF Install!Claims, Install!TakesAway, Install!SameIdentity,
         Install!Undone, Install!Goes, Install!SameFlags, Install!runVars,
         Install!CannotUndo, Install!Seen
    <3>2. item \in Install!Items
      BY <1>21 DEF Install!Claims, InstallInv, Install!InstallTypeOK, ScriptIsAlone, Undoings, Install!Removal, Install!Items
    <3> QED
      BY <3>1, <3>2 DEF InstallInv, Install!InstallTypeOK, Install!Things
  <2>3. /\ installStep' \in Install!Forward \cup Install!Rollback \cup {"removes", "over"}
        /\ item' \in 0..ItemCount /\ recorded' \in 0..ItemCount
        /\ phase' \in {"none", "made", "pre-activation", "recovery-required"} /\ orphans' \subseteq Install!Helpers
    BY <1>21 DEF Install!Claims, Install!TakesAway, Install!SameIdentity,
       Install!Undone, Install!Goes, Install!SameFlags, Install!runVars,
       Install!CannotUndo, Install!Seen, InstallInv, Install!InstallTypeOK,
       ScriptIsAlone, Install!Forward, Install!Rollback, Install!Removal,
       Preparing, ItemSteps, Undoings
  <2> QED
    BY <2>1, <2>2, <2>3 DEF Install!InstallTypeOK
<1>22. CASE Install!Killed
  BY <1>22 DEF Install!Killed, Install!Goes, Install!Still, Install!SameFlags,
     Install!Orphans, Install!HelperSteps, Install!runVars, InstallInv,
     Install!InstallTypeOK, Install!Items, Install!Things, Install!Helpers,
     ScriptIsAlone, Preparing, ItemSteps, Undoings, Install!Forward,
     Install!Rollback, Install!Removal
<1>23. CASE Install!CutShort
  BY <1>23 DEF Install!CutShort, Install!Still, Install!Cleanup, Install!Goes,
     Install!Orphans, Install!HelperSteps, Install!Rollback, Install!Removal,
     InstallInv, Install!InstallTypeOK, Install!Items, Install!Things,
     Install!Helpers, ScriptIsAlone, Preparing, ItemSteps, Undoings,
     Install!Forward
<1>24. CASE Install!Signalled
  BY <1>24 DEF Install!Signalled, Install!Still, Install!RollsBack, Install!Goes,
     Install!runVars, Install!Orphans, Install!HelperSteps, Install!Forward,
     InstallInv, Install!InstallTypeOK, Install!Items, Install!Things,
     Install!Helpers, ScriptIsAlone, Preparing, ItemSteps, Undoings,
     Install!Rollback, Install!Removal
<1>25. CASE \E o \in orphans : Install!OrphanActs(o)
  <2>1. PICK o \in orphans : Install!OrphanActs(o)
    BY <1>25
  <2>2. UNCHANGED <<former, recorded, complete, cut, destroyed, installStep, item, rollbackFailed, inTrap>>
        /\ orphans' \subseteq orphans
    BY <2>1 DEF Install!OrphanActs, Install!WithoutIt, Install!runVars
  <2>3. /\ site' \in [Install!Items -> Install!Things] /\ saved' \in [Install!Items -> Install!Things]
        /\ residue' \in [Install!Items -> SUBSET Install!Things]
        /\ phase' \in {"none", "made", "pre-activation", "recovery-required"}
        /\ theirs' \in [Install!Items -> {"no", "put", "took", "gone"}]
    BY <2>1 DEF Install!OrphanActs, Install!BacksUp, Install!Places,
       Install!PutsBack, Install!Exchanges, Install!TakesAway, Install!SetsPhase,
       Install!RemovesTree, Install!RemovesAll, Install!Everywhere, Install!Seen,
       InstallInv, Install!InstallTypeOK, Install!Things
  <2> QED
    BY <2>2, <2>3 DEF InstallInv, Install!InstallTypeOK
<1>26. CASE \E o \in orphans : Install!OrphanLooks(o)
  BY <1>26 DEF Install!OrphanLooks, Install!Still, Install!SameIdentity,
     Install!runVars, Install!HelperSteps, InstallInv, Install!InstallTypeOK,
     Install!Items, Install!Things, Install!Helpers, ScriptIsAlone, Preparing,
     ItemSteps, Undoings, Install!Forward, Install!Rollback, Install!Removal
<1>27. CASE \E o \in orphans : Install!OrphanEnds(o)
  BY <1>27 DEF Install!OrphanEnds, Install!Still, Install!WithoutIt,
     Install!runVars, InstallInv, Install!InstallTypeOK, Install!Items,
     Install!Things, Install!Helpers, Install!HelperSteps, ScriptIsAlone,
     Preparing, ItemSteps, Undoings, Install!Forward, Install!Rollback,
     Install!Removal
<1>28. CASE \E i \in Install!Items : Install!Interferes(i)
  BY <1>28 DEF Install!Interferes, Install!SameFlags, InstallInv,
     Install!InstallTypeOK, ScriptIsAlone, Install!Forward, Install!Rollback,
     Install!Removal, Install!Things
<1> QED
  BY <1>1, <1>2, <1>3, <1>4, <1>5, <1>6, <1>7, <1>8, <1>9, <1>10, <1>11, <1>12,
     <1>13, <1>14, <1>15, <1>16, <1>17, <1>18, <1>19, <1>20, <1>21, <1>22, <1>23,
     <1>24, <1>25, <1>26, <1>27, <1>28 DEF Install!InstallNext

LEMMA ScriptStaysAlone ==
    ASSUME ItemCount \in Nat \ {0}, InstallInv, Install!InstallNext
    PROVE  ScriptIsAlone'
<1>1. CASE Install!Begins \/ Install!FindsNone \/ Install!Refuses \/
             Install!CannotMake \/ Install!Prepares
  BY <1>1 DEF Install!Begins, Install!FindsNone, Install!Refuses,
     Install!CannotMake, Install!Prepares, Install!Goes, Install!Still,
     Install!runVars, Install!SameRun, Install!SameFlags, Install!SetsPhase,
     InstallInv, Install!InstallTypeOK, Install!Items, Install!Things, FoundSoFar,
     ScriptIsAlone, Preparing, ItemSteps, Undoings, Install!Forward,
     Install!Rollback, Install!Removal
<1>2. CASE Install!Cleans \/ Install!Removes
  BY <1>2 DEF Install!Cleans, Install!Removes, Install!Goes, Install!SameRun,
     Install!SameFlags, Install!runVars, Install!RemovesTree, Install!RemovesAll,
     Install!Everywhere, InstallInv, Install!InstallTypeOK, Install!Items,
     Install!Things, FoundSoFar, ScriptIsAlone, Preparing, ItemSteps, Undoings,
     Install!Forward, Install!Rollback, Install!Removal
<1>3. CASE Install!Makes
  BY <1>3 DEF Install!Makes, Install!Goes, Install!SameFlags, Install!Everywhere,
     InstallInv, Install!InstallTypeOK, Install!Items, Install!Things, FoundSoFar,
     ScriptIsAlone, Preparing, ItemSteps, Undoings, Install!Forward,
     Install!Rollback, Install!Removal
<1>4. CASE Install!Stages \/ Install!Journals \/ Install!CannotJournal
  BY <1>4 DEF Install!Stages, Install!Journals, Install!CannotJournal,
     Install!Goes, Install!Still, Install!SameRun, Install!SameFlags,
     Install!runVars, Install!Exits, Install!RollsBack, Install!SetsPhase,
     Install!FirstItem, InstallInv, Install!InstallTypeOK, Install!Items,
     Install!Things, FoundSoFar, ScriptIsAlone, Preparing, ItemSteps, Undoings,
     Install!Forward, Install!Rollback, Install!Removal
<1>5. CASE Install!Inspects
  BY <1>5 DEF Install!Inspects, Install!Goes, Install!Still, Install!SameFlags,
     InstallInv, Install!InstallTypeOK, Install!Items, Install!Things, FoundSoFar,
     ScriptIsAlone, Preparing, ItemSteps, Undoings, Install!Forward,
     Install!Rollback, Install!Removal
<1>6. CASE Install!LooksBeforeBackup \/ Install!ItemFails \/
             Install!VerificationFails
  BY <1>6 DEF Install!LooksBeforeBackup, Install!ItemFails,
     Install!VerificationFails, Install!Goes, Install!Still, Install!SameRun,
     Install!SameFlags, Install!runVars, Install!SameIdentity, Install!Fails,
     Install!RollsBack, Install!Exits, InstallInv, Install!InstallTypeOK,
     Install!Items, Install!Things, FoundSoFar, ScriptIsAlone, Preparing,
     ItemSteps, Undoings, Install!Forward, Install!Rollback, Install!Removal
<1>7. CASE Install!Renames
  BY <1>7 DEF Install!Renames, Install!Goes, Install!SameRun, Install!SameFlags,
     Install!runVars, Install!BacksUp, Install!SameIdentity, Install!Fails,
     Install!RollsBack, InstallInv, Install!InstallTypeOK, Install!Items,
     Install!Things, FoundSoFar, ScriptIsAlone, Preparing, ItemSteps, Undoings,
     Install!Forward, Install!Rollback, Install!Removal
<1>8. CASE Install!Activates
  BY <1>8 DEF Install!Activates, Install!Goes, Install!SameFlags, Install!Places,
     Install!Fails, Install!RollsBack, Install!runVars, InstallInv,
     Install!InstallTypeOK, Install!Items, Install!Things, FoundSoFar,
     ScriptIsAlone, Preparing, ItemSteps, Undoings, Install!Forward,
     Install!Rollback, Install!Removal
<1>9. CASE Install!Verifies
  <2>1. /\ ~rollbackFailed /\ ~cut /\ ~complete /\ orphans = {} /\ phase = "recovery-required" /\ item >= 1
        /\ \A i \in Install!Items : phase = "none" => saved[i] = "none"
    BY <1>9 DEF Install!Verifies, Install!Goes, Install!Still, Install!SameFlags,
       Install!SameIdentity, Install!runVars, InstallInv, Install!InstallTypeOK,
       ScriptIsAlone, Install!Forward, Preparing, ItemSteps
  <2>2. UNCHANGED <<rollbackFailed, cut, orphans, phase, saved>>
    BY <1>9 DEF Install!Verifies, Install!Goes, Install!Still, Install!SameFlags,
       Install!SameIdentity, Install!runVars
  <2>3. CASE item < ItemCount
    <3>1. installStep' = "verifies" /\ item' = item + 1 /\ UNCHANGED complete
      BY <1>9, <2>3 DEF Install!Verifies, Install!Goes, Install!Still,
         Install!SameFlags, Install!SameIdentity, Install!runVars
    <3> QED
      BY <2>1, <2>2, <3>1 DEF ScriptIsAlone, Install!Forward, Install!Rollback, Install!Removal, Preparing, ItemSteps, Undoings,
         InstallInv, Install!InstallTypeOK
  <2>4. CASE ~(item < ItemCount)
    <3>1. installStep' = "removes"
      BY <1>9, <2>4 DEF Install!Verifies, Install!Goes, Install!Still,
         Install!SameFlags, Install!SameIdentity, Install!runVars
    <3> QED
      BY <2>1, <2>2, <3>1 DEF ScriptIsAlone, Install!Forward, Install!Rollback, Install!Removal, Preparing, ItemSteps, Undoings
  <2> QED
    BY <2>3, <2>4
<1>10. CASE Install!Undoes
  BY <1>10 DEF Install!Undoes, Install!Goes, Install!Still, Install!SameRun,
     Install!SameFlags, Install!runVars, Install!Undone, Install!CannotUndo,
     InstallInv, Install!InstallTypeOK, Install!Items, Install!Things, FoundSoFar,
     ScriptIsAlone, Preparing, ItemSteps, Undoings, Install!Forward,
     Install!Rollback, Install!Removal
<1>11. CASE Install!LooksBeforeExchange \/ Install!LooksBeforeRemoval \/
             Install!LooksAgain \/ Install!UndoFails \/ Install!RolledBack
  BY <1>11 DEF Install!LooksBeforeExchange, Install!LooksBeforeRemoval,
     Install!LooksAgain, Install!UndoFails, Install!RolledBack, Install!Goes,
     Install!Still, Install!SameRun, Install!SameFlags, Install!runVars,
     Install!SameIdentity, Install!Undone, Install!CannotUndo, Install!Rollback,
     Install!Removal, Install!Cleanup, InstallInv, Install!InstallTypeOK,
     Install!Items, Install!Things, FoundSoFar, ScriptIsAlone, Preparing,
     ItemSteps, Undoings, Install!Forward
<1>12. CASE Install!Swaps
  BY <1>12 DEF Install!Swaps, Install!Exchanges, Install!SameIdentity,
     Install!Undone, Install!Goes, Install!SameFlags, Install!runVars,
     Install!CannotUndo, InstallInv, Install!InstallTypeOK, Install!Items,
     Install!Things, FoundSoFar, ScriptIsAlone, Preparing, ItemSteps, Undoings,
     Install!Forward, Install!Rollback, Install!Removal
<1>13. CASE Install!Restores
  BY <1>13 DEF Install!Restores, Install!PutsBack, Install!Undone, Install!Goes,
     Install!SameFlags, Install!runVars, Install!CannotUndo, InstallInv,
     Install!InstallTypeOK, Install!Items, Install!Things, FoundSoFar,
     ScriptIsAlone, Preparing, ItemSteps, Undoings, Install!Forward,
     Install!Rollback, Install!Removal
<1>14. CASE Install!Claims
  BY <1>14 DEF Install!Claims, Install!TakesAway, Install!SameIdentity,
     Install!Undone, Install!Goes, Install!SameFlags, Install!runVars,
     Install!CannotUndo, Install!Seen, InstallInv, Install!InstallTypeOK,
     Install!Items, Install!Things, FoundSoFar, ScriptIsAlone, Preparing,
     ItemSteps, Undoings, Install!Forward, Install!Rollback, Install!Removal
<1>15. CASE Install!Killed \/ Install!CutShort
  BY <1>15 DEF Install!Killed, Install!CutShort, Install!Goes, Install!Still,
     Install!SameFlags, Install!Orphans, Install!HelperSteps, Install!runVars,
     Install!Cleanup, Install!Rollback, Install!Removal, InstallInv,
     Install!InstallTypeOK, Install!Items, Install!Things, FoundSoFar,
     ScriptIsAlone, Preparing, ItemSteps, Undoings, Install!Forward
<1>16. CASE Install!Signalled
  BY <1>16 DEF Install!Signalled, Install!Still, Install!RollsBack, Install!Goes,
     Install!runVars, Install!Orphans, Install!HelperSteps, Install!Forward,
     InstallInv, Install!InstallTypeOK, Install!Items, Install!Things, FoundSoFar,
     ScriptIsAlone, Preparing, ItemSteps, Undoings, Install!Rollback,
     Install!Removal
<1>17. CASE \E o \in orphans : Install!OrphanActs(o)
  BY <1>17 DEF Install!OrphanActs, Install!BacksUp, Install!Places,
     Install!PutsBack, Install!Exchanges, Install!TakesAway, Install!SetsPhase,
     Install!RemovesTree, Install!RemovesAll, Install!Everywhere,
     Install!WithoutIt, Install!runVars, Install!Seen, InstallInv,
     Install!InstallTypeOK, Install!Items, Install!Things, FoundSoFar,
     ScriptIsAlone, Preparing, ItemSteps, Undoings, Install!Forward,
     Install!Rollback, Install!Removal
<1>18. CASE \E o \in orphans : Install!OrphanLooks(o) \/ Install!OrphanEnds(o)
  BY <1>18 DEF Install!OrphanLooks, Install!OrphanEnds, Install!Still,
     Install!SameIdentity, Install!runVars, Install!HelperSteps,
     Install!WithoutIt, InstallInv, Install!InstallTypeOK, Install!Items,
     Install!Things, FoundSoFar, ScriptIsAlone, Preparing, ItemSteps, Undoings,
     Install!Forward, Install!Rollback, Install!Removal
<1>19. CASE \E i \in Install!Items : Install!Interferes(i)
  BY <1>19 DEF Install!Interferes, Install!SameFlags, InstallInv,
     Install!InstallTypeOK, Install!Items, Install!Things, FoundSoFar,
     ScriptIsAlone, Preparing, ItemSteps, Undoings, Install!Forward,
     Install!Rollback, Install!Removal
<1> QED
  BY <1>1, <1>2, <1>3, <1>4, <1>5, <1>6, <1>7, <1>8, <1>9, <1>10, <1>11, <1>12,
     <1>13, <1>14, <1>15, <1>16, <1>17, <1>18, <1>19 DEF Install!InstallNext

LEMMA FoundStays ==
    ASSUME ItemCount \in Nat \ {0}, InstallInv, ~cut, ~cut', Install!InstallNext
    PROVE  FoundSoFar'
<1>1. CASE Install!Begins \/ Install!FindsNone \/ Install!Refuses \/
             Install!CannotMake \/ Install!Prepares
  BY <1>1 DEF Install!Begins, Install!FindsNone, Install!Refuses,
     Install!CannotMake, Install!Prepares, Install!Goes, Install!Still,
     Install!runVars, Install!SameRun, Install!SameFlags, Install!SetsPhase,
     InstallInv, Install!InstallTypeOK, Install!Items, FoundSoFar, StepIsReady,
     LateBackups, BackupSteps, ScriptIsAlone, Preparing, ItemSteps, Undoings,
     Install!Forward, Install!Rollback, Install!Removal
<1>2. CASE Install!Cleans \/ Install!Removes
  BY <1>2 DEF Install!Cleans, Install!Removes, Install!Goes, Install!SameRun,
     Install!SameFlags, Install!runVars, Install!RemovesTree, Install!RemovesAll,
     Install!Everywhere, InstallInv, Install!InstallTypeOK, Install!Items,
     FoundSoFar, StepIsReady, LateBackups, BackupSteps, ScriptIsAlone, Preparing,
     ItemSteps, Undoings, Install!Forward, Install!Rollback, Install!Removal
<1>3. CASE Install!Makes
  BY <1>3 DEF Install!Makes, Install!Goes, Install!SameFlags, Install!Everywhere,
     InstallInv, Install!InstallTypeOK, Install!Items, FoundSoFar, StepIsReady,
     LateBackups, BackupSteps, ScriptIsAlone, Preparing, ItemSteps, Undoings,
     Install!Forward, Install!Rollback, Install!Removal
<1>4. CASE Install!Stages \/ Install!Journals \/ Install!CannotJournal
  BY <1>4 DEF Install!Stages, Install!Journals, Install!CannotJournal,
     Install!Goes, Install!Still, Install!SameRun, Install!SameFlags,
     Install!runVars, Install!Exits, Install!RollsBack, Install!SetsPhase,
     Install!FirstItem, InstallInv, Install!InstallTypeOK, Install!Items,
     FoundSoFar, StepIsReady, LateBackups, BackupSteps, ScriptIsAlone, Preparing,
     ItemSteps, Undoings, Install!Forward, Install!Rollback, Install!Removal
<1>5. CASE Install!Inspects
  <2>1. /\ item \in Install!Items /\ recorded = item - 1 /\ orphans = {} /\ recorded' = item /\ item' = item
        /\ installStep' \in {"activates", "backs"} /\ UNCHANGED <<site, saved, phase, orphans>>
        /\ phase # "pre-activation" /\ former' = [former EXCEPT ![item] = site[item]]
    BY <1>5 DEF Install!Inspects, Install!Goes, Install!Still, Install!SameFlags,
       InstallInv, Install!InstallTypeOK, ScriptIsAlone, FoundSoFar, Preparing,
       ItemSteps, Install!Items
  <2>2. /\ site[item] # "new" /\ saved[item] = "none"
        /\ \A i \in Install!Items : i >= item => site[i] # "new"
    BY <1>5 DEF Install!Inspects, Install!Goes, Install!Still, Install!SameFlags,
       InstallInv, Install!InstallTypeOK, ScriptIsAlone, FoundSoFar, Preparing,
       ItemSteps, Install!Items
  <2>3. former' \in [Install!Items -> Install!Things] /\ former'[item] # "new"
        /\ \A i \in Install!Items : i # item => former'[i] = former[i]
    BY <2>1, <2>2 DEF InstallInv, Install!InstallTypeOK
  <2>4. \A i \in Install!Items : former'[i] # "new" /\ (saved[i] # "none" => former'[i] # "none")
    BY <2>2, <2>3 DEF InstallInv, FoundSoFar
  <2>5. item \in Int /\ \A i \in Install!Items : i > recorded' => former'[i] = "none"
    BY <2>1, <2>3 DEF InstallInv, FoundSoFar, Install!Items
  <2> QED
    BY <2>1, <2>2, <2>4, <2>5 DEF FoundSoFar, Preparing, ItemSteps
<1>6. CASE Install!LooksBeforeBackup \/ Install!ItemFails \/
             Install!VerificationFails
  BY <1>6 DEF Install!LooksBeforeBackup, Install!ItemFails,
     Install!VerificationFails, Install!Goes, Install!Still, Install!SameRun,
     Install!SameFlags, Install!runVars, Install!SameIdentity, Install!Fails,
     Install!RollsBack, Install!Exits, InstallInv, Install!InstallTypeOK,
     Install!Items, FoundSoFar, StepIsReady, LateBackups, BackupSteps,
     ScriptIsAlone, Preparing, ItemSteps, Undoings, Install!Forward,
     Install!Rollback, Install!Removal
<1>7. CASE Install!Renames
  BY <1>7 DEF Install!Renames, Install!Goes, Install!SameRun, Install!SameFlags,
     Install!runVars, Install!BacksUp, Install!SameIdentity, Install!Fails,
     Install!RollsBack, InstallInv, Install!InstallTypeOK, Install!Items,
     FoundSoFar, StepIsReady, LateBackups, BackupSteps, ScriptIsAlone, Preparing,
     ItemSteps, Undoings, Install!Forward, Install!Rollback, Install!Removal
<1>8. CASE Install!Activates
  <2>0. UNCHANGED <<saved, phase, former, recorded, orphans>>
    BY <1>8 DEF Install!Activates, Install!Goes, Install!SameFlags, Install!Places,
       Install!Fails, Install!RollsBack, Install!runVars
  <2>1. /\ item \in Install!Items /\ recorded = item /\ orphans = {} /\ phase = "recovery-required"
        /\ UNCHANGED <<saved, phase, former, recorded, orphans>>
        /\ \A i \in Install!Items : i > item => site'[i] = site[i]
    BY <1>8, <2>0 DEF Install!Activates, Install!Goes, Install!SameFlags,
       Install!Places, Install!Fails, Install!RollsBack, Install!runVars,
       InstallInv, Install!InstallTypeOK, ScriptIsAlone, FoundSoFar, ItemSteps,
       Install!Items, Install!Forward
  <2>2. \/ installStep' = "inspects" /\ item' = item + 1
        \/ installStep' = "verifies" /\ recorded = ItemCount
        \/ installStep' = "undoes"
    BY <1>8 DEF Install!Activates, Install!Goes, Install!SameFlags, Install!Places,
       Install!Fails, Install!RollsBack, Install!runVars, InstallInv,
       Install!InstallTypeOK, ScriptIsAlone, FoundSoFar, Preparing, ItemSteps,
       Install!Items
  <2>3. \A i \in Install!Items : i > item => site[i] # "new"
    BY <1>8 DEF Install!Activates, Install!Goes, Install!SameFlags, Install!Places,
       Install!Fails, Install!RollsBack, Install!runVars, InstallInv,
       Install!InstallTypeOK, ScriptIsAlone, FoundSoFar, Preparing, ItemSteps,
       Install!Items
  <2> QED
    <3>1. /\ \A i \in Install!Items : i > recorded => former[i] = "none"
          /\ \A i \in Install!Items : former[i] # "new" /\ (saved[i] # "none" => former[i] # "none")
      BY DEF InstallInv, FoundSoFar
    <3>2. \A i \in Install!Items : i >= item + 1 => site'[i] # "new"
      BY <2>1, <2>3 DEF Install!Items
    <3> QED
      BY <2>1, <2>2, <3>1, <3>2 DEF FoundSoFar, Preparing, ItemSteps, Install!Items
<1>9. CASE Install!Verifies
  BY <1>9 DEF Install!Verifies, Install!Goes, Install!Still, Install!SameFlags,
     Install!SameIdentity, Install!runVars, InstallInv, Install!InstallTypeOK,
     Install!Items, FoundSoFar, StepIsReady, LateBackups, BackupSteps,
     ScriptIsAlone, Preparing, ItemSteps, Undoings, Install!Forward,
     Install!Rollback, Install!Removal
<1>10. CASE Install!Undoes
  BY <1>10 DEF Install!Undoes, Install!Goes, Install!Still, Install!SameRun,
     Install!SameFlags, Install!runVars, Install!Undone, Install!CannotUndo,
     InstallInv, Install!InstallTypeOK, Install!Items, FoundSoFar, StepIsReady,
     LateBackups, BackupSteps, ScriptIsAlone, Preparing, ItemSteps, Undoings,
     Install!Forward, Install!Rollback, Install!Removal
<1>11. CASE Install!LooksBeforeExchange \/ Install!LooksBeforeRemoval \/
             Install!LooksAgain \/ Install!UndoFails \/ Install!RolledBack
  BY <1>11 DEF Install!LooksBeforeExchange, Install!LooksBeforeRemoval,
     Install!LooksAgain, Install!UndoFails, Install!RolledBack, Install!Goes,
     Install!Still, Install!SameRun, Install!SameFlags, Install!runVars,
     Install!SameIdentity, Install!Undone, Install!CannotUndo, Install!Rollback,
     Install!Removal, Install!Cleanup, InstallInv, Install!InstallTypeOK,
     Install!Items, FoundSoFar, StepIsReady, LateBackups, BackupSteps,
     ScriptIsAlone, Preparing, ItemSteps, Undoings, Install!Forward
<1>12. CASE Install!Swaps
  BY <1>12 DEF Install!Swaps, Install!Exchanges, Install!SameIdentity,
     Install!Undone, Install!Goes, Install!SameFlags, Install!runVars,
     Install!CannotUndo, InstallInv, Install!InstallTypeOK, Install!Items,
     FoundSoFar, StepIsReady, LateBackups, BackupSteps, ScriptIsAlone, Preparing,
     ItemSteps, Undoings, Install!Forward, Install!Rollback, Install!Removal
<1>13. CASE Install!Restores
  BY <1>13 DEF Install!Restores, Install!PutsBack, Install!Undone, Install!Goes,
     Install!SameFlags, Install!runVars, Install!CannotUndo, InstallInv,
     Install!InstallTypeOK, Install!Items, FoundSoFar, StepIsReady, LateBackups,
     BackupSteps, ScriptIsAlone, Preparing, ItemSteps, Undoings, Install!Forward,
     Install!Rollback, Install!Removal
<1>14. CASE Install!Claims
  BY <1>14 DEF Install!Claims, Install!TakesAway, Install!SameIdentity,
     Install!Undone, Install!Goes, Install!SameFlags, Install!runVars,
     Install!CannotUndo, Install!Seen, InstallInv, Install!InstallTypeOK,
     Install!Items, FoundSoFar, StepIsReady, LateBackups, BackupSteps,
     ScriptIsAlone, Preparing, ItemSteps, Undoings, Install!Forward,
     Install!Rollback, Install!Removal
<1>15. CASE Install!Killed \/ Install!CutShort
  BY <1>15 DEF Install!Killed, Install!CutShort, Install!Goes, Install!Still,
     Install!SameFlags, Install!Orphans, Install!HelperSteps, Install!runVars,
     Install!Cleanup, Install!Rollback, Install!Removal, InstallInv,
     Install!InstallTypeOK, Install!Items, FoundSoFar, StepIsReady, LateBackups,
     BackupSteps, ScriptIsAlone, Preparing, ItemSteps, Undoings, Install!Forward
<1>16. CASE Install!Signalled
  BY <1>16 DEF Install!Signalled, Install!Still, Install!RollsBack, Install!Goes,
     Install!runVars, Install!Orphans, Install!HelperSteps, Install!Forward,
     InstallInv, Install!InstallTypeOK, Install!Items, FoundSoFar, StepIsReady,
     LateBackups, BackupSteps, ScriptIsAlone, Preparing, ItemSteps, Undoings,
     Install!Rollback, Install!Removal
<1>17. CASE \E o \in orphans : Install!OrphanActs(o)
  BY <1>17 DEF Install!OrphanActs, Install!BacksUp, Install!Places,
     Install!PutsBack, Install!Exchanges, Install!TakesAway, Install!SetsPhase,
     Install!RemovesTree, Install!RemovesAll, Install!Everywhere,
     Install!WithoutIt, Install!runVars, Install!Seen, InstallInv,
     Install!InstallTypeOK, Install!Items, FoundSoFar, StepIsReady, LateBackups,
     BackupSteps, ScriptIsAlone, Preparing, ItemSteps, Undoings, Install!Forward,
     Install!Rollback, Install!Removal
<1>18. CASE \E o \in orphans : Install!OrphanLooks(o) \/ Install!OrphanEnds(o)
  BY <1>18 DEF Install!OrphanLooks, Install!OrphanEnds, Install!Still,
     Install!SameIdentity, Install!runVars, Install!HelperSteps,
     Install!WithoutIt, InstallInv, Install!InstallTypeOK, Install!Items,
     FoundSoFar, StepIsReady, LateBackups, BackupSteps, ScriptIsAlone, Preparing,
     ItemSteps, Undoings, Install!Forward, Install!Rollback, Install!Removal
<1>19. CASE \E i \in Install!Items : Install!Interferes(i)
  <2>1. PICK i \in Install!Items : Install!Interferes(i)
    BY <1>19
  <2>2. /\ UNCHANGED <<saved, phase, former, recorded, item, installStep, orphans>>
        /\ \A j \in Install!Items : site'[j] \in {site[j], "other", "none"}
    BY <2>1 DEF Install!Interferes, Install!SameFlags, InstallInv, Install!InstallTypeOK
  <2> QED
    BY <2>2 DEF InstallInv, FoundSoFar, Preparing, ItemSteps
<1> QED
  BY <1>1, <1>2, <1>3, <1>4, <1>5, <1>6, <1>7, <1>8, <1>9, <1>10, <1>11, <1>12,
     <1>13, <1>14, <1>15, <1>16, <1>17, <1>18, <1>19 DEF Install!InstallNext

LEMMA TheirsStaysNew ==
    ASSUME ItemCount \in Nat \ {0}, InstallInv, ~cut, ~cut', Install!InstallNext
    PROVE  TheirsIsNew'
<1>1. CASE Install!Begins \/ Install!FindsNone \/ Install!Refuses \/
             Install!CannotMake \/ Install!Prepares
  BY <1>1 DEF Install!Begins, Install!FindsNone, Install!Refuses,
     Install!CannotMake, Install!Prepares, Install!Goes, Install!Still,
     Install!runVars, Install!SameRun, Install!SameFlags, Install!SetsPhase,
     InstallInv, Install!InstallTypeOK, Install!Items, TheirsIsNew, StepIsReady,
     FoundSoFar, ScriptIsAlone, Preparing, ItemSteps, Undoings, Install!Forward,
     Install!Rollback, Install!Removal
<1>2. CASE Install!Cleans \/ Install!Removes
  BY <1>2 DEF Install!Cleans, Install!Removes, Install!Goes, Install!SameRun,
     Install!SameFlags, Install!runVars, Install!RemovesTree, Install!RemovesAll,
     Install!Everywhere, InstallInv, Install!InstallTypeOK, Install!Items,
     TheirsIsNew, StepIsReady, FoundSoFar, ScriptIsAlone, Preparing, ItemSteps,
     Undoings, Install!Forward, Install!Rollback, Install!Removal
<1>3. CASE Install!Makes
  BY <1>3 DEF Install!Makes, Install!Goes, Install!SameFlags, Install!Everywhere,
     InstallInv, Install!InstallTypeOK, Install!Items, TheirsIsNew, StepIsReady,
     FoundSoFar, ScriptIsAlone, Preparing, ItemSteps, Undoings, Install!Forward,
     Install!Rollback, Install!Removal
<1>4. CASE Install!Stages \/ Install!Journals \/ Install!CannotJournal
  BY <1>4 DEF Install!Stages, Install!Journals, Install!CannotJournal,
     Install!Goes, Install!Still, Install!SameRun, Install!SameFlags,
     Install!runVars, Install!Exits, Install!RollsBack, Install!SetsPhase,
     Install!FirstItem, InstallInv, Install!InstallTypeOK, Install!Items,
     TheirsIsNew, StepIsReady, FoundSoFar, ScriptIsAlone, Preparing, ItemSteps,
     Undoings, Install!Forward, Install!Rollback, Install!Removal
<1>5. CASE Install!Inspects
  BY <1>5 DEF Install!Inspects, Install!Goes, Install!Still, Install!SameFlags,
     InstallInv, Install!InstallTypeOK, Install!Items, TheirsIsNew, StepIsReady,
     FoundSoFar, ScriptIsAlone, Preparing, ItemSteps, Undoings, Install!Forward,
     Install!Rollback, Install!Removal
<1>6. CASE Install!LooksBeforeBackup \/ Install!ItemFails \/
             Install!VerificationFails
  BY <1>6 DEF Install!LooksBeforeBackup, Install!ItemFails,
     Install!VerificationFails, Install!Goes, Install!Still, Install!SameRun,
     Install!SameFlags, Install!runVars, Install!SameIdentity, Install!Fails,
     Install!RollsBack, Install!Exits, InstallInv, Install!InstallTypeOK,
     Install!Items, TheirsIsNew, StepIsReady, FoundSoFar, ScriptIsAlone,
     Preparing, ItemSteps, Undoings, Install!Forward, Install!Rollback,
     Install!Removal
<1>7. CASE Install!Renames
  BY <1>7 DEF Install!Renames, Install!Goes, Install!SameRun, Install!SameFlags,
     Install!runVars, Install!BacksUp, Install!SameIdentity, Install!Fails,
     Install!RollsBack, InstallInv, Install!InstallTypeOK, Install!Items,
     TheirsIsNew, StepIsReady, FoundSoFar, ScriptIsAlone, Preparing, ItemSteps,
     Undoings, Install!Forward, Install!Rollback, Install!Removal
<1>8. CASE Install!Activates
  BY <1>8 DEF Install!Activates, Install!Goes, Install!SameFlags, Install!Places,
     Install!Fails, Install!RollsBack, Install!runVars, InstallInv,
     Install!InstallTypeOK, Install!Items, TheirsIsNew, StepIsReady, FoundSoFar,
     ScriptIsAlone, Preparing, ItemSteps, Undoings, Install!Forward,
     Install!Rollback, Install!Removal
<1>9. CASE Install!Verifies
  BY <1>9 DEF Install!Verifies, Install!Goes, Install!Still, Install!SameFlags,
     Install!SameIdentity, Install!runVars, InstallInv, Install!InstallTypeOK,
     Install!Items, TheirsIsNew, StepIsReady, FoundSoFar, ScriptIsAlone,
     Preparing, ItemSteps, Undoings, Install!Forward, Install!Rollback,
     Install!Removal
<1>10. CASE Install!Undoes
  BY <1>10 DEF Install!Undoes, Install!Goes, Install!Still, Install!SameRun,
     Install!SameFlags, Install!runVars, Install!Undone, Install!CannotUndo,
     InstallInv, Install!InstallTypeOK, Install!Items, TheirsIsNew, StepIsReady,
     FoundSoFar, ScriptIsAlone, Preparing, ItemSteps, Undoings, Install!Forward,
     Install!Rollback, Install!Removal
<1>11. CASE Install!LooksBeforeExchange \/ Install!LooksBeforeRemoval \/
             Install!LooksAgain \/ Install!UndoFails \/ Install!RolledBack
  BY <1>11 DEF Install!LooksBeforeExchange, Install!LooksBeforeRemoval,
     Install!LooksAgain, Install!UndoFails, Install!RolledBack, Install!Goes,
     Install!Still, Install!SameRun, Install!SameFlags, Install!runVars,
     Install!SameIdentity, Install!Undone, Install!CannotUndo, Install!Rollback,
     Install!Removal, Install!Cleanup, InstallInv, Install!InstallTypeOK,
     Install!Items, TheirsIsNew, StepIsReady, FoundSoFar, ScriptIsAlone,
     Preparing, ItemSteps, Undoings, Install!Forward
<1>12. CASE Install!Swaps
  BY <1>12 DEF Install!Swaps, Install!Exchanges, Install!SameIdentity,
     Install!Undone, Install!Goes, Install!SameFlags, Install!runVars,
     Install!CannotUndo, InstallInv, Install!InstallTypeOK, Install!Items,
     TheirsIsNew, StepIsReady, FoundSoFar, ScriptIsAlone, Preparing, ItemSteps,
     Undoings, Install!Forward, Install!Rollback, Install!Removal
<1>13. CASE Install!Restores
  BY <1>13 DEF Install!Restores, Install!PutsBack, Install!Undone, Install!Goes,
     Install!SameFlags, Install!runVars, Install!CannotUndo, InstallInv,
     Install!InstallTypeOK, Install!Items, TheirsIsNew, StepIsReady, FoundSoFar,
     ScriptIsAlone, Preparing, ItemSteps, Undoings, Install!Forward,
     Install!Rollback, Install!Removal
<1>14. CASE Install!Claims
  BY <1>14 DEF Install!Claims, Install!TakesAway, Install!SameIdentity,
     Install!Undone, Install!Goes, Install!SameFlags, Install!runVars,
     Install!CannotUndo, Install!Seen, InstallInv, Install!InstallTypeOK,
     Install!Items, TheirsIsNew, StepIsReady, FoundSoFar, ScriptIsAlone,
     Preparing, ItemSteps, Undoings, Install!Forward, Install!Rollback,
     Install!Removal
<1>15. CASE Install!Killed \/ Install!CutShort
  BY <1>15 DEF Install!Killed, Install!CutShort, Install!Goes, Install!Still,
     Install!SameFlags, Install!Orphans, Install!HelperSteps, Install!runVars,
     Install!Cleanup, Install!Rollback, Install!Removal, InstallInv,
     Install!InstallTypeOK, Install!Items, TheirsIsNew, StepIsReady, FoundSoFar,
     ScriptIsAlone, Preparing, ItemSteps, Undoings, Install!Forward
<1>16. CASE Install!Signalled
  BY <1>16 DEF Install!Signalled, Install!Still, Install!RollsBack, Install!Goes,
     Install!runVars, Install!Orphans, Install!HelperSteps, Install!Forward,
     InstallInv, Install!InstallTypeOK, Install!Items, TheirsIsNew, StepIsReady,
     FoundSoFar, ScriptIsAlone, Preparing, ItemSteps, Undoings, Install!Rollback,
     Install!Removal
<1>17. CASE \E o \in orphans : Install!OrphanActs(o)
  BY <1>17 DEF Install!OrphanActs, Install!BacksUp, Install!Places,
     Install!PutsBack, Install!Exchanges, Install!TakesAway, Install!SetsPhase,
     Install!RemovesTree, Install!RemovesAll, Install!Everywhere,
     Install!WithoutIt, Install!runVars, Install!Seen, InstallInv,
     Install!InstallTypeOK, Install!Items, TheirsIsNew, StepIsReady, FoundSoFar,
     ScriptIsAlone, Preparing, ItemSteps, Undoings, Install!Forward,
     Install!Rollback, Install!Removal
<1>18. CASE \E o \in orphans : Install!OrphanLooks(o) \/ Install!OrphanEnds(o)
  BY <1>18 DEF Install!OrphanLooks, Install!OrphanEnds, Install!Still,
     Install!SameIdentity, Install!runVars, Install!HelperSteps,
     Install!WithoutIt, InstallInv, Install!InstallTypeOK, Install!Items,
     TheirsIsNew, StepIsReady, FoundSoFar, ScriptIsAlone, Preparing, ItemSteps,
     Undoings, Install!Forward, Install!Rollback, Install!Removal
<1>19. CASE \E i \in Install!Items : Install!Interferes(i)
  BY <1>19 DEF Install!Interferes, Install!SameFlags, InstallInv,
     Install!InstallTypeOK, Install!Items, TheirsIsNew, StepIsReady, FoundSoFar,
     ScriptIsAlone, Preparing, ItemSteps, Undoings, Install!Forward,
     Install!Rollback, Install!Removal
<1> QED
  BY <1>1, <1>2, <1>3, <1>4, <1>5, <1>6, <1>7, <1>8, <1>9, <1>10, <1>11, <1>12,
     <1>13, <1>14, <1>15, <1>16, <1>17, <1>18, <1>19 DEF Install!InstallNext

LEMMA BackupsStayLate ==
    ASSUME ItemCount \in Nat \ {0}, InstallInv, ~cut, ~cut', Install!InstallNext
    PROVE  LateBackups'
<1>1. CASE Install!Begins \/ Install!FindsNone \/ Install!Refuses \/
             Install!CannotMake \/ Install!Prepares
  BY <1>1 DEF Install!Begins, Install!FindsNone, Install!Refuses,
     Install!CannotMake, Install!Prepares, Install!Goes, Install!Still,
     Install!runVars, Install!SameRun, Install!SameFlags, Install!SetsPhase,
     InstallInv, Install!InstallTypeOK, Install!Items, LateBackups, BackupSteps,
     Started, UndoneAt, StepIsReady, FoundSoFar, BackupsAreFormer, ScriptIsAlone,
     Preparing, ItemSteps, Undoings, Install!Forward, Install!Rollback,
     Install!Removal
<1>2. CASE Install!Cleans \/ Install!Removes
  BY <1>2 DEF Install!Cleans, Install!Removes, Install!Goes, Install!SameRun,
     Install!SameFlags, Install!runVars, Install!RemovesTree, Install!RemovesAll,
     Install!Everywhere, InstallInv, Install!InstallTypeOK, Install!Items,
     LateBackups, BackupSteps, Started, UndoneAt, StepIsReady, FoundSoFar,
     BackupsAreFormer, ScriptIsAlone, Preparing, ItemSteps, Undoings,
     Install!Forward, Install!Rollback, Install!Removal
<1>3. CASE Install!Makes
  BY <1>3 DEF Install!Makes, Install!Goes, Install!SameFlags, Install!Everywhere,
     InstallInv, Install!InstallTypeOK, Install!Items, LateBackups, BackupSteps,
     Started, UndoneAt, StepIsReady, FoundSoFar, BackupsAreFormer, ScriptIsAlone,
     Preparing, ItemSteps, Undoings, Install!Forward, Install!Rollback,
     Install!Removal
<1>4. CASE Install!Stages \/ Install!Journals \/ Install!CannotJournal
  BY <1>4 DEF Install!Stages, Install!Journals, Install!CannotJournal,
     Install!Goes, Install!Still, Install!SameRun, Install!SameFlags,
     Install!runVars, Install!Exits, Install!RollsBack, Install!SetsPhase,
     Install!FirstItem, InstallInv, Install!InstallTypeOK, Install!Items,
     LateBackups, BackupSteps, Started, UndoneAt, StepIsReady, FoundSoFar,
     BackupsAreFormer, ScriptIsAlone, Preparing, ItemSteps, Undoings,
     Install!Forward, Install!Rollback, Install!Removal
<1>5. CASE Install!Inspects
  BY <1>5 DEF Install!Inspects, Install!Goes, Install!Still, Install!SameFlags,
     InstallInv, Install!InstallTypeOK, Install!Items, LateBackups, BackupSteps,
     Started, UndoneAt, StepIsReady, FoundSoFar, BackupsAreFormer, ScriptIsAlone,
     Preparing, ItemSteps, Undoings, Install!Forward, Install!Rollback,
     Install!Removal
<1>6. CASE Install!LooksBeforeBackup \/ Install!ItemFails \/
             Install!VerificationFails
  BY <1>6 DEF Install!LooksBeforeBackup, Install!ItemFails,
     Install!VerificationFails, Install!Goes, Install!Still, Install!SameRun,
     Install!SameFlags, Install!runVars, Install!SameIdentity, Install!Fails,
     Install!RollsBack, Install!Exits, InstallInv, Install!InstallTypeOK,
     Install!Items, LateBackups, BackupSteps, Started, UndoneAt, StepIsReady,
     FoundSoFar, BackupsAreFormer, ScriptIsAlone, Preparing, ItemSteps, Undoings,
     Install!Forward, Install!Rollback, Install!Removal
<1>7. CASE Install!Renames
  BY <1>7 DEF Install!Renames, Install!Goes, Install!SameRun, Install!SameFlags,
     Install!runVars, Install!BacksUp, Install!SameIdentity, Install!Fails,
     Install!RollsBack, InstallInv, Install!InstallTypeOK, Install!Items,
     LateBackups, BackupSteps, Started, UndoneAt, StepIsReady, FoundSoFar,
     BackupsAreFormer, ScriptIsAlone, Preparing, ItemSteps, Undoings,
     Install!Forward, Install!Rollback, Install!Removal
<1>8. CASE Install!Activates
  BY <1>8 DEF Install!Activates, Install!Goes, Install!SameFlags, Install!Places,
     Install!Fails, Install!RollsBack, Install!runVars, InstallInv,
     Install!InstallTypeOK, Install!Items, LateBackups, BackupSteps, Started,
     UndoneAt, StepIsReady, FoundSoFar, BackupsAreFormer, ScriptIsAlone,
     Preparing, ItemSteps, Undoings, Install!Forward, Install!Rollback,
     Install!Removal
<1>9. CASE Install!Verifies
  BY <1>9 DEF Install!Verifies, Install!Goes, Install!Still, Install!SameFlags,
     Install!SameIdentity, Install!runVars, InstallInv, Install!InstallTypeOK,
     Install!Items, LateBackups, BackupSteps, Started, UndoneAt, StepIsReady,
     FoundSoFar, BackupsAreFormer, ScriptIsAlone, Preparing, ItemSteps, Undoings,
     Install!Forward, Install!Rollback, Install!Removal
<1>10. CASE Install!Undoes
  BY <1>10 DEF Install!Undoes, Install!Goes, Install!Still, Install!SameRun,
     Install!SameFlags, Install!runVars, Install!Undone, Install!CannotUndo,
     InstallInv, Install!InstallTypeOK, Install!Items, LateBackups, BackupSteps,
     Started, UndoneAt, StepIsReady, FoundSoFar, BackupsAreFormer, ScriptIsAlone,
     Preparing, ItemSteps, Undoings, Install!Forward, Install!Rollback,
     Install!Removal
<1>11. CASE Install!LooksBeforeExchange \/ Install!LooksBeforeRemoval \/
             Install!LooksAgain \/ Install!UndoFails \/ Install!RolledBack
  BY <1>11 DEF Install!LooksBeforeExchange, Install!LooksBeforeRemoval,
     Install!LooksAgain, Install!UndoFails, Install!RolledBack, Install!Goes,
     Install!Still, Install!SameRun, Install!SameFlags, Install!runVars,
     Install!SameIdentity, Install!Undone, Install!CannotUndo, Install!Rollback,
     Install!Removal, Install!Cleanup, InstallInv, Install!InstallTypeOK,
     Install!Items, LateBackups, BackupSteps, Started, UndoneAt, StepIsReady,
     FoundSoFar, BackupsAreFormer, ScriptIsAlone, Preparing, ItemSteps, Undoings,
     Install!Forward
<1>12. CASE Install!Swaps
  BY <1>12 DEF Install!Swaps, Install!Exchanges, Install!SameIdentity,
     Install!Undone, Install!Goes, Install!SameFlags, Install!runVars,
     Install!CannotUndo, InstallInv, Install!InstallTypeOK, Install!Items,
     LateBackups, BackupSteps, Started, UndoneAt, StepIsReady, FoundSoFar,
     BackupsAreFormer, ScriptIsAlone, Preparing, ItemSteps, Undoings,
     Install!Forward, Install!Rollback, Install!Removal
<1>13. CASE Install!Restores
  BY <1>13 DEF Install!Restores, Install!PutsBack, Install!Undone, Install!Goes,
     Install!SameFlags, Install!runVars, Install!CannotUndo, InstallInv,
     Install!InstallTypeOK, Install!Items, LateBackups, BackupSteps, Started,
     UndoneAt, StepIsReady, FoundSoFar, BackupsAreFormer, ScriptIsAlone,
     Preparing, ItemSteps, Undoings, Install!Forward, Install!Rollback,
     Install!Removal
<1>14. CASE Install!Claims
  BY <1>14 DEF Install!Claims, Install!TakesAway, Install!SameIdentity,
     Install!Undone, Install!Goes, Install!SameFlags, Install!runVars,
     Install!CannotUndo, Install!Seen, InstallInv, Install!InstallTypeOK,
     Install!Items, LateBackups, BackupSteps, Started, UndoneAt, StepIsReady,
     FoundSoFar, BackupsAreFormer, ScriptIsAlone, Preparing, ItemSteps, Undoings,
     Install!Forward, Install!Rollback, Install!Removal
<1>15. CASE Install!CutShort
  BY <1>15 DEF Install!CutShort, Install!Still, Install!Cleanup, Install!Goes,
     Install!Orphans, Install!HelperSteps, Install!Rollback, Install!Removal,
     InstallInv, Install!InstallTypeOK, Install!Items, LateBackups, BackupSteps,
     Started, UndoneAt, StepIsReady, FoundSoFar, BackupsAreFormer, ScriptIsAlone,
     Preparing, ItemSteps, Undoings, Install!Forward
<1>16. CASE Install!Killed
  BY <1>16 DEF Install!Killed, Install!Goes, Install!Still, Install!SameFlags,
     Install!Orphans, Install!HelperSteps, Install!runVars, InstallInv,
     Install!InstallTypeOK, Install!Items, LateBackups, BackupSteps, Started,
     UndoneAt, StepIsReady, FoundSoFar, BackupsAreFormer, ScriptIsAlone,
     Preparing, ItemSteps, Undoings, Install!Forward, Install!Rollback,
     Install!Removal
<1>17. CASE Install!Signalled
  <2>1. /\ orphans = {} /\ ~complete /\ installStep' = "undoes" /\ item' = recorded
        /\ UNCHANGED <<saved, former, complete>>
        /\ \/ orphans' = {}
           \/ installStep \in Started /\ orphans' = {[step |-> installStep, item |-> item]}
    BY <1>17 DEF Install!Signalled, Install!Still, Install!RollsBack, Install!Goes,
       Install!runVars, Install!Orphans, Install!HelperSteps, Install!Forward,
       InstallInv, Install!InstallTypeOK, ScriptIsAlone, FoundSoFar, StepIsReady,
       Preparing, ItemSteps, BackupSteps, Started
  <2>2. installStep \in BackupSteps =>
           item \in Install!Items /\ item = recorded /\ former[item] # "none" /\ saved[item] = "none"
    BY DEF InstallInv, Install!InstallTypeOK, ScriptIsAlone, FoundSoFar, StepIsReady, ItemSteps, BackupSteps,
       Install!Items
  <2> QED
    BY <2>1, <2>2 DEF LateBackups, UndoneAt, BackupSteps, Started, Install!Rollback, Install!Removal, Install!Items, InstallInv,
       Install!InstallTypeOK
<1>18. CASE \E o \in orphans : Install!OrphanActs(o)
  BY <1>18 DEF Install!OrphanActs, Install!BacksUp, Install!Places,
     Install!PutsBack, Install!Exchanges, Install!TakesAway, Install!SetsPhase,
     Install!RemovesTree, Install!RemovesAll, Install!Everywhere,
     Install!WithoutIt, Install!runVars, Install!Seen, InstallInv,
     Install!InstallTypeOK, Install!Items, LateBackups, BackupSteps, Started,
     UndoneAt, StepIsReady, FoundSoFar, BackupsAreFormer, ScriptIsAlone,
     Preparing, ItemSteps, Undoings, Install!Forward, Install!Rollback,
     Install!Removal
<1>19. CASE \E o \in orphans : Install!OrphanLooks(o)
  BY <1>19 DEF Install!OrphanLooks, Install!Still, Install!SameIdentity,
     Install!runVars, Install!HelperSteps, InstallInv, Install!InstallTypeOK,
     Install!Items, LateBackups, BackupSteps, Started, UndoneAt, StepIsReady,
     FoundSoFar, BackupsAreFormer, ScriptIsAlone, Preparing, ItemSteps, Undoings,
     Install!Forward, Install!Rollback, Install!Removal
<1>20. CASE \E o \in orphans : Install!OrphanEnds(o)
  BY <1>20 DEF Install!OrphanEnds, Install!Still, Install!WithoutIt,
     Install!runVars, InstallInv, Install!InstallTypeOK, Install!Items,
     LateBackups, BackupSteps, Started, UndoneAt, StepIsReady, FoundSoFar,
     BackupsAreFormer, ScriptIsAlone, Preparing, ItemSteps, Undoings,
     Install!Forward, Install!Rollback, Install!Removal
<1>21. CASE \E i \in Install!Items : Install!Interferes(i)
  BY <1>21 DEF Install!Interferes, Install!SameFlags, InstallInv,
     Install!InstallTypeOK, Install!Items, LateBackups, BackupSteps, Started,
     UndoneAt, StepIsReady, FoundSoFar, BackupsAreFormer, ScriptIsAlone,
     Preparing, ItemSteps, Undoings, Install!Forward, Install!Rollback,
     Install!Removal
<1> QED
  BY <1>1, <1>2, <1>3, <1>4, <1>5, <1>6, <1>7, <1>8, <1>9, <1>10, <1>11, <1>12,
     <1>13, <1>14, <1>15, <1>16, <1>17, <1>18, <1>19, <1>20, <1>21 DEF
     Install!InstallNext

LEMMA StepStaysReady ==
    ASSUME ItemCount \in Nat \ {0}, InstallInv, ~cut, ~cut', Install!InstallNext
    PROVE  StepIsReady'
<1>1. CASE Install!Begins \/ Install!FindsNone \/ Install!Refuses \/
             Install!CannotMake \/ Install!Prepares
  BY <1>1 DEF Install!Begins, Install!FindsNone, Install!Refuses,
     Install!CannotMake, Install!Prepares, Install!Goes, Install!Still,
     Install!runVars, Install!SameRun, Install!SameFlags, Install!SetsPhase,
     InstallInv, Install!InstallTypeOK, Install!Items, StepIsReady, FoundSoFar,
     LateBackups, BackupSteps, Started, ScriptIsAlone, Preparing, ItemSteps,
     Undoings, Install!Forward, Install!Rollback, Install!Removal
<1>2. CASE Install!Cleans \/ Install!Removes
  BY <1>2 DEF Install!Cleans, Install!Removes, Install!Goes, Install!SameRun,
     Install!SameFlags, Install!runVars, Install!RemovesTree, Install!RemovesAll,
     Install!Everywhere, InstallInv, Install!InstallTypeOK, Install!Items,
     StepIsReady, FoundSoFar, LateBackups, BackupSteps, Started, ScriptIsAlone,
     Preparing, ItemSteps, Undoings, Install!Forward, Install!Rollback,
     Install!Removal
<1>3. CASE Install!Makes
  BY <1>3 DEF Install!Makes, Install!Goes, Install!SameFlags, Install!Everywhere,
     InstallInv, Install!InstallTypeOK, Install!Items, StepIsReady, FoundSoFar,
     LateBackups, BackupSteps, Started, ScriptIsAlone, Preparing, ItemSteps,
     Undoings, Install!Forward, Install!Rollback, Install!Removal
<1>4. CASE Install!Stages \/ Install!Journals \/ Install!CannotJournal
  BY <1>4 DEF Install!Stages, Install!Journals, Install!CannotJournal,
     Install!Goes, Install!Still, Install!SameRun, Install!SameFlags,
     Install!runVars, Install!Exits, Install!RollsBack, Install!SetsPhase,
     Install!FirstItem, InstallInv, Install!InstallTypeOK, Install!Items,
     StepIsReady, FoundSoFar, LateBackups, BackupSteps, Started, ScriptIsAlone,
     Preparing, ItemSteps, Undoings, Install!Forward, Install!Rollback,
     Install!Removal
<1>5. CASE Install!Inspects
  BY <1>5 DEF Install!Inspects, Install!Goes, Install!Still, Install!SameFlags,
     InstallInv, Install!InstallTypeOK, Install!Items, StepIsReady, FoundSoFar,
     LateBackups, BackupSteps, Started, ScriptIsAlone, Preparing, ItemSteps,
     Undoings, Install!Forward, Install!Rollback, Install!Removal
<1>6. CASE Install!LooksBeforeBackup \/ Install!ItemFails \/
             Install!VerificationFails
  BY <1>6 DEF Install!LooksBeforeBackup, Install!ItemFails,
     Install!VerificationFails, Install!Goes, Install!Still, Install!SameRun,
     Install!SameFlags, Install!runVars, Install!SameIdentity, Install!Fails,
     Install!RollsBack, Install!Exits, InstallInv, Install!InstallTypeOK,
     Install!Items, StepIsReady, FoundSoFar, LateBackups, BackupSteps, Started,
     ScriptIsAlone, Preparing, ItemSteps, Undoings, Install!Forward,
     Install!Rollback, Install!Removal
<1>7. CASE Install!Renames
  BY <1>7 DEF Install!Renames, Install!Goes, Install!SameRun, Install!SameFlags,
     Install!runVars, Install!BacksUp, Install!SameIdentity, Install!Fails,
     Install!RollsBack, InstallInv, Install!InstallTypeOK, Install!Items,
     StepIsReady, FoundSoFar, LateBackups, BackupSteps, Started, ScriptIsAlone,
     Preparing, ItemSteps, Undoings, Install!Forward, Install!Rollback,
     Install!Removal
<1>8. CASE Install!Activates
  BY <1>8 DEF Install!Activates, Install!Goes, Install!SameFlags, Install!Places,
     Install!Fails, Install!RollsBack, Install!runVars, InstallInv,
     Install!InstallTypeOK, Install!Items, StepIsReady, FoundSoFar, LateBackups,
     BackupSteps, Started, ScriptIsAlone, Preparing, ItemSteps, Undoings,
     Install!Forward, Install!Rollback, Install!Removal
<1>9. CASE Install!Verifies
  BY <1>9 DEF Install!Verifies, Install!Goes, Install!Still, Install!SameFlags,
     Install!SameIdentity, Install!runVars, InstallInv, Install!InstallTypeOK,
     Install!Items, StepIsReady, FoundSoFar, LateBackups, BackupSteps, Started,
     ScriptIsAlone, Preparing, ItemSteps, Undoings, Install!Forward,
     Install!Rollback, Install!Removal
<1>10. CASE Install!Undoes
  BY <1>10 DEF Install!Undoes, Install!Goes, Install!Still, Install!SameRun,
     Install!SameFlags, Install!runVars, Install!Undone, Install!CannotUndo,
     InstallInv, Install!InstallTypeOK, Install!Items, StepIsReady, FoundSoFar,
     LateBackups, BackupSteps, Started, ScriptIsAlone, Preparing, ItemSteps,
     Undoings, Install!Forward, Install!Rollback, Install!Removal
<1>11. CASE Install!LooksBeforeExchange \/ Install!LooksBeforeRemoval \/
             Install!LooksAgain \/ Install!UndoFails \/ Install!RolledBack
  BY <1>11 DEF Install!LooksBeforeExchange, Install!LooksBeforeRemoval,
     Install!LooksAgain, Install!UndoFails, Install!RolledBack, Install!Goes,
     Install!Still, Install!SameRun, Install!SameFlags, Install!runVars,
     Install!SameIdentity, Install!Undone, Install!CannotUndo, Install!Rollback,
     Install!Removal, Install!Cleanup, InstallInv, Install!InstallTypeOK,
     Install!Items, StepIsReady, FoundSoFar, LateBackups, BackupSteps, Started,
     ScriptIsAlone, Preparing, ItemSteps, Undoings, Install!Forward
<1>12. CASE Install!Swaps
  BY <1>12 DEF Install!Swaps, Install!Exchanges, Install!SameIdentity,
     Install!Undone, Install!Goes, Install!SameFlags, Install!runVars,
     Install!CannotUndo, InstallInv, Install!InstallTypeOK, Install!Items,
     StepIsReady, FoundSoFar, LateBackups, BackupSteps, Started, ScriptIsAlone,
     Preparing, ItemSteps, Undoings, Install!Forward, Install!Rollback,
     Install!Removal
<1>13. CASE Install!Restores
  BY <1>13 DEF Install!Restores, Install!PutsBack, Install!Undone, Install!Goes,
     Install!SameFlags, Install!runVars, Install!CannotUndo, InstallInv,
     Install!InstallTypeOK, Install!Items, StepIsReady, FoundSoFar, LateBackups,
     BackupSteps, Started, ScriptIsAlone, Preparing, ItemSteps, Undoings,
     Install!Forward, Install!Rollback, Install!Removal
<1>14. CASE Install!Claims
  BY <1>14 DEF Install!Claims, Install!TakesAway, Install!SameIdentity,
     Install!Undone, Install!Goes, Install!SameFlags, Install!runVars,
     Install!CannotUndo, Install!Seen, InstallInv, Install!InstallTypeOK,
     Install!Items, StepIsReady, FoundSoFar, LateBackups, BackupSteps, Started,
     ScriptIsAlone, Preparing, ItemSteps, Undoings, Install!Forward,
     Install!Rollback, Install!Removal
<1>15. CASE Install!Killed \/ Install!CutShort
  BY <1>15 DEF Install!Killed, Install!CutShort, Install!Goes, Install!Still,
     Install!SameFlags, Install!Orphans, Install!HelperSteps, Install!runVars,
     Install!Cleanup, Install!Rollback, Install!Removal, InstallInv,
     Install!InstallTypeOK, Install!Items, StepIsReady, FoundSoFar, LateBackups,
     BackupSteps, Started, ScriptIsAlone, Preparing, ItemSteps, Undoings,
     Install!Forward
<1>16. CASE Install!Signalled
  BY <1>16 DEF Install!Signalled, Install!Still, Install!RollsBack, Install!Goes,
     Install!runVars, Install!Orphans, Install!HelperSteps, Install!Forward,
     InstallInv, Install!InstallTypeOK, Install!Items, StepIsReady, FoundSoFar,
     LateBackups, BackupSteps, Started, ScriptIsAlone, Preparing, ItemSteps,
     Undoings, Install!Rollback, Install!Removal
<1>17. CASE \E o \in orphans : Install!OrphanActs(o)
  BY <1>17 DEF Install!OrphanActs, Install!BacksUp, Install!Places,
     Install!PutsBack, Install!Exchanges, Install!TakesAway, Install!SetsPhase,
     Install!RemovesTree, Install!RemovesAll, Install!Everywhere,
     Install!WithoutIt, Install!runVars, Install!Seen, InstallInv,
     Install!InstallTypeOK, Install!Items, StepIsReady, FoundSoFar, LateBackups,
     BackupSteps, Started, ScriptIsAlone, Preparing, ItemSteps, Undoings,
     Install!Forward, Install!Rollback, Install!Removal
<1>18. CASE \E o \in orphans : Install!OrphanLooks(o)
  BY <1>18 DEF Install!OrphanLooks, Install!Still, Install!SameIdentity,
     Install!runVars, Install!HelperSteps, InstallInv, Install!InstallTypeOK,
     Install!Items, StepIsReady, FoundSoFar, LateBackups, BackupSteps, Started,
     ScriptIsAlone, Preparing, ItemSteps, Undoings, Install!Forward,
     Install!Rollback, Install!Removal
<1>19. CASE \E o \in orphans : Install!OrphanEnds(o)
  BY <1>19 DEF Install!OrphanEnds, Install!Still, Install!WithoutIt,
     Install!runVars, InstallInv, Install!InstallTypeOK, Install!Items,
     StepIsReady, FoundSoFar, LateBackups, BackupSteps, Started, ScriptIsAlone,
     Preparing, ItemSteps, Undoings, Install!Forward, Install!Rollback,
     Install!Removal
<1>20. CASE \E i \in Install!Items : Install!Interferes(i)
  BY <1>20 DEF Install!Interferes, Install!SameFlags, InstallInv,
     Install!InstallTypeOK, Install!Items, StepIsReady, FoundSoFar, LateBackups,
     BackupSteps, Started, ScriptIsAlone, Preparing, ItemSteps, Undoings,
     Install!Forward, Install!Rollback, Install!Removal
<1> QED
  BY <1>1, <1>2, <1>3, <1>4, <1>5, <1>6, <1>7, <1>8, <1>9, <1>10, <1>11, <1>12,
     <1>13, <1>14, <1>15, <1>16, <1>17, <1>18, <1>19, <1>20 DEF
     Install!InstallNext

LEMMA UndoneStaysBack ==
    ASSUME ItemCount \in Nat \ {0}, InstallInv, ~cut, ~cut', Install!InstallNext
    PROVE  UndoneIsBack'
<1>1. CASE Install!Begins \/ Install!FindsNone \/ Install!Refuses \/
             Install!CannotMake \/ Install!Prepares
  BY <1>1 DEF Install!Begins, Install!FindsNone, Install!Refuses,
     Install!CannotMake, Install!Prepares, Install!Goes, Install!Still,
     Install!runVars, Install!SameRun, Install!SameFlags, Install!SetsPhase,
     InstallInv, Install!InstallTypeOK, Install!Items, UndoneIsBack, UndoneAt,
     StepIsReady, FoundSoFar, LateBackups, BackupSteps, Started, ScriptIsAlone,
     Preparing, ItemSteps, Undoings, Install!Forward, Install!Rollback,
     Install!Removal
<1>2. CASE Install!Cleans \/ Install!Removes
  BY <1>2 DEF Install!Cleans, Install!Removes, Install!Goes, Install!SameRun,
     Install!SameFlags, Install!runVars, Install!RemovesTree, Install!RemovesAll,
     Install!Everywhere, InstallInv, Install!InstallTypeOK, Install!Items,
     UndoneIsBack, UndoneAt, StepIsReady, FoundSoFar, LateBackups, BackupSteps,
     Started, ScriptIsAlone, Preparing, ItemSteps, Undoings, Install!Forward,
     Install!Rollback, Install!Removal
<1>3. CASE Install!Makes
  BY <1>3 DEF Install!Makes, Install!Goes, Install!SameFlags, Install!Everywhere,
     InstallInv, Install!InstallTypeOK, Install!Items, UndoneIsBack, UndoneAt,
     StepIsReady, FoundSoFar, LateBackups, BackupSteps, Started, ScriptIsAlone,
     Preparing, ItemSteps, Undoings, Install!Forward, Install!Rollback,
     Install!Removal
<1>4. CASE Install!Stages \/ Install!Journals \/ Install!CannotJournal
  BY <1>4 DEF Install!Stages, Install!Journals, Install!CannotJournal,
     Install!Goes, Install!Still, Install!SameRun, Install!SameFlags,
     Install!runVars, Install!Exits, Install!RollsBack, Install!SetsPhase,
     Install!FirstItem, InstallInv, Install!InstallTypeOK, Install!Items,
     UndoneIsBack, UndoneAt, StepIsReady, FoundSoFar, LateBackups, BackupSteps,
     Started, ScriptIsAlone, Preparing, ItemSteps, Undoings, Install!Forward,
     Install!Rollback, Install!Removal
<1>5. CASE Install!Inspects
  BY <1>5 DEF Install!Inspects, Install!Goes, Install!Still, Install!SameFlags,
     InstallInv, Install!InstallTypeOK, Install!Items, UndoneIsBack, UndoneAt,
     StepIsReady, FoundSoFar, LateBackups, BackupSteps, Started, ScriptIsAlone,
     Preparing, ItemSteps, Undoings, Install!Forward, Install!Rollback,
     Install!Removal
<1>6. CASE Install!LooksBeforeBackup \/ Install!ItemFails \/
             Install!VerificationFails
  BY <1>6 DEF Install!LooksBeforeBackup, Install!ItemFails,
     Install!VerificationFails, Install!Goes, Install!Still, Install!SameRun,
     Install!SameFlags, Install!runVars, Install!SameIdentity, Install!Fails,
     Install!RollsBack, Install!Exits, InstallInv, Install!InstallTypeOK,
     Install!Items, UndoneIsBack, UndoneAt, StepIsReady, FoundSoFar, LateBackups,
     BackupSteps, Started, ScriptIsAlone, Preparing, ItemSteps, Undoings,
     Install!Forward, Install!Rollback, Install!Removal
<1>7. CASE Install!Renames
  BY <1>7 DEF Install!Renames, Install!Goes, Install!SameRun, Install!SameFlags,
     Install!runVars, Install!BacksUp, Install!SameIdentity, Install!Fails,
     Install!RollsBack, InstallInv, Install!InstallTypeOK, Install!Items,
     UndoneIsBack, UndoneAt, StepIsReady, FoundSoFar, LateBackups, BackupSteps,
     Started, ScriptIsAlone, Preparing, ItemSteps, Undoings, Install!Forward,
     Install!Rollback, Install!Removal
<1>8. CASE Install!Activates
  BY <1>8 DEF Install!Activates, Install!Goes, Install!SameFlags, Install!Places,
     Install!Fails, Install!RollsBack, Install!runVars, InstallInv,
     Install!InstallTypeOK, Install!Items, UndoneIsBack, UndoneAt, StepIsReady,
     FoundSoFar, LateBackups, BackupSteps, Started, ScriptIsAlone, Preparing,
     ItemSteps, Undoings, Install!Forward, Install!Rollback, Install!Removal
<1>9. CASE Install!Verifies
  BY <1>9 DEF Install!Verifies, Install!Goes, Install!Still, Install!SameFlags,
     Install!SameIdentity, Install!runVars, InstallInv, Install!InstallTypeOK,
     Install!Items, UndoneIsBack, UndoneAt, StepIsReady, FoundSoFar, LateBackups,
     BackupSteps, Started, ScriptIsAlone, Preparing, ItemSteps, Undoings,
     Install!Forward, Install!Rollback, Install!Removal
<1>10. CASE Install!Undoes
  BY <1>10 DEF Install!Undoes, Install!Goes, Install!Still, Install!SameRun,
     Install!SameFlags, Install!runVars, Install!Undone, Install!CannotUndo,
     InstallInv, Install!InstallTypeOK, Install!Items, UndoneIsBack, UndoneAt,
     StepIsReady, FoundSoFar, LateBackups, BackupSteps, Started, ScriptIsAlone,
     Preparing, ItemSteps, Undoings, Install!Forward, Install!Rollback,
     Install!Removal
<1>11. CASE Install!LooksBeforeExchange \/ Install!LooksBeforeRemoval \/
             Install!LooksAgain \/ Install!UndoFails \/ Install!RolledBack
  BY <1>11 DEF Install!LooksBeforeExchange, Install!LooksBeforeRemoval,
     Install!LooksAgain, Install!UndoFails, Install!RolledBack, Install!Goes,
     Install!Still, Install!SameRun, Install!SameFlags, Install!runVars,
     Install!SameIdentity, Install!Undone, Install!CannotUndo, Install!Rollback,
     Install!Removal, Install!Cleanup, InstallInv, Install!InstallTypeOK,
     Install!Items, UndoneIsBack, UndoneAt, StepIsReady, FoundSoFar, LateBackups,
     BackupSteps, Started, ScriptIsAlone, Preparing, ItemSteps, Undoings,
     Install!Forward
<1>12. CASE Install!Swaps
  BY <1>12 DEF Install!Swaps, Install!Exchanges, Install!SameIdentity,
     Install!Undone, Install!Goes, Install!SameFlags, Install!runVars,
     Install!CannotUndo, InstallInv, Install!InstallTypeOK, Install!Items,
     UndoneIsBack, UndoneAt, StepIsReady, FoundSoFar, LateBackups, BackupSteps,
     Started, ScriptIsAlone, Preparing, ItemSteps, Undoings, Install!Forward,
     Install!Rollback, Install!Removal
<1>13. CASE Install!Restores
  BY <1>13 DEF Install!Restores, Install!PutsBack, Install!Undone, Install!Goes,
     Install!SameFlags, Install!runVars, Install!CannotUndo, InstallInv,
     Install!InstallTypeOK, Install!Items, UndoneIsBack, UndoneAt, StepIsReady,
     FoundSoFar, LateBackups, BackupSteps, Started, ScriptIsAlone, Preparing,
     ItemSteps, Undoings, Install!Forward, Install!Rollback, Install!Removal
<1>14. CASE Install!Claims
  BY <1>14 DEF Install!Claims, Install!TakesAway, Install!SameIdentity,
     Install!Undone, Install!Goes, Install!SameFlags, Install!runVars,
     Install!CannotUndo, Install!Seen, InstallInv, Install!InstallTypeOK,
     Install!Items, UndoneIsBack, UndoneAt, StepIsReady, FoundSoFar, LateBackups,
     BackupSteps, Started, ScriptIsAlone, Preparing, ItemSteps, Undoings,
     Install!Forward, Install!Rollback, Install!Removal
<1>15. CASE Install!Killed \/ Install!CutShort
  BY <1>15 DEF Install!Killed, Install!CutShort, Install!Goes, Install!Still,
     Install!SameFlags, Install!Orphans, Install!HelperSteps, Install!runVars,
     Install!Cleanup, Install!Rollback, Install!Removal, InstallInv,
     Install!InstallTypeOK, Install!Items, UndoneIsBack, UndoneAt, StepIsReady,
     FoundSoFar, LateBackups, BackupSteps, Started, ScriptIsAlone, Preparing,
     ItemSteps, Undoings, Install!Forward
<1>16. CASE Install!Signalled
  BY <1>16 DEF Install!Signalled, Install!Still, Install!RollsBack, Install!Goes,
     Install!runVars, Install!Orphans, Install!HelperSteps, Install!Forward,
     InstallInv, Install!InstallTypeOK, Install!Items, UndoneIsBack, UndoneAt,
     StepIsReady, FoundSoFar, LateBackups, BackupSteps, Started, ScriptIsAlone,
     Preparing, ItemSteps, Undoings, Install!Rollback, Install!Removal
<1>17. CASE \E o \in orphans : Install!OrphanActs(o)
  BY <1>17 DEF Install!OrphanActs, Install!BacksUp, Install!Places,
     Install!PutsBack, Install!Exchanges, Install!TakesAway, Install!SetsPhase,
     Install!RemovesTree, Install!RemovesAll, Install!Everywhere,
     Install!WithoutIt, Install!runVars, Install!Seen, InstallInv,
     Install!InstallTypeOK, Install!Items, UndoneIsBack, UndoneAt, StepIsReady,
     FoundSoFar, LateBackups, BackupSteps, Started, ScriptIsAlone, Preparing,
     ItemSteps, Undoings, Install!Forward, Install!Rollback, Install!Removal
<1>18. CASE \E o \in orphans : Install!OrphanLooks(o) \/ Install!OrphanEnds(o)
  BY <1>18 DEF Install!OrphanLooks, Install!OrphanEnds, Install!Still,
     Install!SameIdentity, Install!runVars, Install!HelperSteps,
     Install!WithoutIt, InstallInv, Install!InstallTypeOK, Install!Items,
     UndoneIsBack, UndoneAt, StepIsReady, FoundSoFar, LateBackups, BackupSteps,
     Started, ScriptIsAlone, Preparing, ItemSteps, Undoings, Install!Forward,
     Install!Rollback, Install!Removal
<1>19. CASE \E i \in Install!Items : Install!Interferes(i)
  BY <1>19 DEF Install!Interferes, Install!SameFlags, InstallInv,
     Install!InstallTypeOK, Install!Items, UndoneIsBack, UndoneAt, StepIsReady,
     FoundSoFar, LateBackups, BackupSteps, Started, ScriptIsAlone, Preparing,
     ItemSteps, Undoings, Install!Forward, Install!Rollback, Install!Removal
<1> QED
  BY <1>1, <1>2, <1>3, <1>4, <1>5, <1>6, <1>7, <1>8, <1>9, <1>10, <1>11, <1>12,
     <1>13, <1>14, <1>15, <1>16, <1>17, <1>18, <1>19 DEF Install!InstallNext

LEMMA BackupsStayFormer ==
    ASSUME ItemCount \in Nat \ {0}, InstallInv, ~cut, ~cut', Install!InstallNext
    PROVE  BackupsAreFormer'
<1>1. CASE Install!Begins \/ Install!FindsNone \/ Install!Refuses \/
             Install!CannotMake \/ Install!Prepares
  BY <1>1 DEF Install!Begins, Install!FindsNone, Install!Refuses,
     Install!CannotMake, Install!Prepares, Install!Goes, Install!Still,
     Install!runVars, Install!SameRun, Install!SameFlags, Install!SetsPhase,
     InstallInv, Install!InstallTypeOK, Install!Items, BackupsAreFormer,
     FoundSoFar, StepIsReady, ScriptIsAlone, Preparing, ItemSteps, Undoings,
     Install!Forward, Install!Rollback, Install!Removal
<1>2. CASE Install!Cleans \/ Install!Removes
  BY <1>2 DEF Install!Cleans, Install!Removes, Install!Goes, Install!SameRun,
     Install!SameFlags, Install!runVars, Install!RemovesTree, Install!RemovesAll,
     Install!Everywhere, InstallInv, Install!InstallTypeOK, Install!Items,
     BackupsAreFormer, FoundSoFar, StepIsReady, ScriptIsAlone, Preparing,
     ItemSteps, Undoings, Install!Forward, Install!Rollback, Install!Removal
<1>3. CASE Install!Makes
  BY <1>3 DEF Install!Makes, Install!Goes, Install!SameFlags, Install!Everywhere,
     InstallInv, Install!InstallTypeOK, Install!Items, BackupsAreFormer,
     FoundSoFar, StepIsReady, ScriptIsAlone, Preparing, ItemSteps, Undoings,
     Install!Forward, Install!Rollback, Install!Removal
<1>4. CASE Install!Stages \/ Install!Journals \/ Install!CannotJournal
  BY <1>4 DEF Install!Stages, Install!Journals, Install!CannotJournal,
     Install!Goes, Install!Still, Install!SameRun, Install!SameFlags,
     Install!runVars, Install!Exits, Install!RollsBack, Install!SetsPhase,
     Install!FirstItem, InstallInv, Install!InstallTypeOK, Install!Items,
     BackupsAreFormer, FoundSoFar, StepIsReady, ScriptIsAlone, Preparing,
     ItemSteps, Undoings, Install!Forward, Install!Rollback, Install!Removal
<1>5. CASE Install!Inspects
  BY <1>5 DEF Install!Inspects, Install!Goes, Install!Still, Install!SameFlags,
     InstallInv, Install!InstallTypeOK, Install!Items, BackupsAreFormer,
     FoundSoFar, StepIsReady, ScriptIsAlone, Preparing, ItemSteps, Undoings,
     Install!Forward, Install!Rollback, Install!Removal
<1>6. CASE Install!LooksBeforeBackup \/ Install!ItemFails \/
             Install!VerificationFails
  BY <1>6 DEF Install!LooksBeforeBackup, Install!ItemFails,
     Install!VerificationFails, Install!Goes, Install!Still, Install!SameRun,
     Install!SameFlags, Install!runVars, Install!SameIdentity, Install!Fails,
     Install!RollsBack, Install!Exits, InstallInv, Install!InstallTypeOK,
     Install!Items, BackupsAreFormer, FoundSoFar, StepIsReady, ScriptIsAlone,
     Preparing, ItemSteps, Undoings, Install!Forward, Install!Rollback,
     Install!Removal
<1>7. CASE Install!Renames
  BY <1>7 DEF Install!Renames, Install!Goes, Install!SameRun, Install!SameFlags,
     Install!runVars, Install!BacksUp, Install!SameIdentity, Install!Fails,
     Install!RollsBack, InstallInv, Install!InstallTypeOK, Install!Items,
     BackupsAreFormer, FoundSoFar, StepIsReady, ScriptIsAlone, Preparing,
     ItemSteps, Undoings, Install!Forward, Install!Rollback, Install!Removal
<1>8. CASE Install!Activates
  BY <1>8 DEF Install!Activates, Install!Goes, Install!SameFlags, Install!Places,
     Install!Fails, Install!RollsBack, Install!runVars, InstallInv,
     Install!InstallTypeOK, Install!Items, BackupsAreFormer, FoundSoFar,
     StepIsReady, ScriptIsAlone, Preparing, ItemSteps, Undoings, Install!Forward,
     Install!Rollback, Install!Removal
<1>9. CASE Install!Verifies
  BY <1>9 DEF Install!Verifies, Install!Goes, Install!Still, Install!SameFlags,
     Install!SameIdentity, Install!runVars, InstallInv, Install!InstallTypeOK,
     Install!Items, BackupsAreFormer, FoundSoFar, StepIsReady, ScriptIsAlone,
     Preparing, ItemSteps, Undoings, Install!Forward, Install!Rollback,
     Install!Removal
<1>10. CASE Install!Undoes
  BY <1>10 DEF Install!Undoes, Install!Goes, Install!Still, Install!SameRun,
     Install!SameFlags, Install!runVars, Install!Undone, Install!CannotUndo,
     InstallInv, Install!InstallTypeOK, Install!Items, BackupsAreFormer,
     FoundSoFar, StepIsReady, ScriptIsAlone, Preparing, ItemSteps, Undoings,
     Install!Forward, Install!Rollback, Install!Removal
<1>11. CASE Install!LooksBeforeExchange \/ Install!LooksBeforeRemoval \/
             Install!LooksAgain \/ Install!UndoFails \/ Install!RolledBack
  BY <1>11 DEF Install!LooksBeforeExchange, Install!LooksBeforeRemoval,
     Install!LooksAgain, Install!UndoFails, Install!RolledBack, Install!Goes,
     Install!Still, Install!SameRun, Install!SameFlags, Install!runVars,
     Install!SameIdentity, Install!Undone, Install!CannotUndo, Install!Rollback,
     Install!Removal, Install!Cleanup, InstallInv, Install!InstallTypeOK,
     Install!Items, BackupsAreFormer, FoundSoFar, StepIsReady, ScriptIsAlone,
     Preparing, ItemSteps, Undoings, Install!Forward
<1>12. CASE Install!Swaps
  BY <1>12 DEF Install!Swaps, Install!Exchanges, Install!SameIdentity,
     Install!Undone, Install!Goes, Install!SameFlags, Install!runVars,
     Install!CannotUndo, InstallInv, Install!InstallTypeOK, Install!Items,
     BackupsAreFormer, FoundSoFar, StepIsReady, ScriptIsAlone, Preparing,
     ItemSteps, Undoings, Install!Forward, Install!Rollback, Install!Removal
<1>13. CASE Install!Restores
  BY <1>13 DEF Install!Restores, Install!PutsBack, Install!Undone, Install!Goes,
     Install!SameFlags, Install!runVars, Install!CannotUndo, InstallInv,
     Install!InstallTypeOK, Install!Items, BackupsAreFormer, FoundSoFar,
     StepIsReady, ScriptIsAlone, Preparing, ItemSteps, Undoings, Install!Forward,
     Install!Rollback, Install!Removal
<1>14. CASE Install!Claims
  BY <1>14 DEF Install!Claims, Install!TakesAway, Install!SameIdentity,
     Install!Undone, Install!Goes, Install!SameFlags, Install!runVars,
     Install!CannotUndo, Install!Seen, InstallInv, Install!InstallTypeOK,
     Install!Items, BackupsAreFormer, FoundSoFar, StepIsReady, ScriptIsAlone,
     Preparing, ItemSteps, Undoings, Install!Forward, Install!Rollback,
     Install!Removal
<1>15. CASE Install!Killed \/ Install!CutShort
  BY <1>15 DEF Install!Killed, Install!CutShort, Install!Goes, Install!Still,
     Install!SameFlags, Install!Orphans, Install!HelperSteps, Install!runVars,
     Install!Cleanup, Install!Rollback, Install!Removal, InstallInv,
     Install!InstallTypeOK, Install!Items, BackupsAreFormer, FoundSoFar,
     StepIsReady, ScriptIsAlone, Preparing, ItemSteps, Undoings, Install!Forward
<1>16. CASE Install!Signalled
  BY <1>16 DEF Install!Signalled, Install!Still, Install!RollsBack, Install!Goes,
     Install!runVars, Install!Orphans, Install!HelperSteps, Install!Forward,
     InstallInv, Install!InstallTypeOK, Install!Items, BackupsAreFormer,
     FoundSoFar, StepIsReady, ScriptIsAlone, Preparing, ItemSteps, Undoings,
     Install!Rollback, Install!Removal
<1>17. CASE \E o \in orphans : Install!OrphanActs(o)
  BY <1>17 DEF Install!OrphanActs, Install!BacksUp, Install!Places,
     Install!PutsBack, Install!Exchanges, Install!TakesAway, Install!SetsPhase,
     Install!RemovesTree, Install!RemovesAll, Install!Everywhere,
     Install!WithoutIt, Install!runVars, Install!Seen, InstallInv,
     Install!InstallTypeOK, Install!Items, BackupsAreFormer, FoundSoFar,
     StepIsReady, ScriptIsAlone, Preparing, ItemSteps, Undoings, Install!Forward,
     Install!Rollback, Install!Removal
<1>18. CASE \E o \in orphans : Install!OrphanLooks(o)
  <2>1. PICK o \in orphans : Install!OrphanLooks(o)
    BY <1>18
  <2>2. o.step \in {"backs", "exchanges", "unleafs", "leafs"} /\ UNCHANGED <<saved, former, installStep, complete>>
    BY <2>1 DEF Install!OrphanLooks, Install!Still, Install!runVars
  <2> QED
    BY <2>1, <2>2 DEF InstallInv, BackupsAreFormer
<1>19. CASE \E o \in orphans : Install!OrphanEnds(o)
  BY <1>19 DEF Install!OrphanEnds, Install!Still, Install!WithoutIt,
     Install!runVars, InstallInv, Install!InstallTypeOK, Install!Items,
     BackupsAreFormer, FoundSoFar, StepIsReady, ScriptIsAlone, Preparing,
     ItemSteps, Undoings, Install!Forward, Install!Rollback, Install!Removal
<1>20. CASE \E i \in Install!Items : Install!Interferes(i)
  BY <1>20 DEF Install!Interferes, Install!SameFlags, InstallInv,
     Install!InstallTypeOK, Install!Items, BackupsAreFormer, FoundSoFar,
     StepIsReady, ScriptIsAlone, Preparing, ItemSteps, Undoings, Install!Forward,
     Install!Rollback, Install!Removal
<1> QED
  BY <1>1, <1>2, <1>3, <1>4, <1>5, <1>6, <1>7, <1>8, <1>9, <1>10, <1>11, <1>12,
     <1>13, <1>14, <1>15, <1>16, <1>17, <1>18, <1>19, <1>20 DEF
     Install!InstallNext

LEMMA RemovalsStayLate ==
    ASSUME ItemCount \in Nat \ {0}, InstallInv, ~cut, ~cut', Install!InstallNext
    PROVE  LateRemovals'
<1>1. CASE Install!Begins \/ Install!FindsNone \/ Install!Refuses \/
             Install!CannotMake \/ Install!Prepares
  BY <1>1 DEF Install!Begins, Install!FindsNone, Install!Refuses,
     Install!CannotMake, Install!Prepares, Install!Goes, Install!Still,
     Install!runVars, Install!SameRun, Install!SameFlags, Install!SetsPhase,
     InstallInv, Install!InstallTypeOK, Install!Items, LateRemovals, UndoneIsBack,
     UndoneAt, LateBackups, BackupSteps, Started, ScriptIsAlone, Preparing,
     ItemSteps, Undoings, Install!Forward, Install!Rollback, Install!Removal
<1>2. CASE Install!Cleans \/ Install!Removes
  BY <1>2 DEF Install!Cleans, Install!Removes, Install!Goes, Install!SameRun,
     Install!SameFlags, Install!runVars, Install!RemovesTree, Install!RemovesAll,
     Install!Everywhere, InstallInv, Install!InstallTypeOK, Install!Items,
     LateRemovals, UndoneIsBack, UndoneAt, LateBackups, BackupSteps, Started,
     ScriptIsAlone, Preparing, ItemSteps, Undoings, Install!Forward,
     Install!Rollback, Install!Removal
<1>3. CASE Install!Makes
  BY <1>3 DEF Install!Makes, Install!Goes, Install!SameFlags, Install!Everywhere,
     InstallInv, Install!InstallTypeOK, Install!Items, LateRemovals, UndoneIsBack,
     UndoneAt, LateBackups, BackupSteps, Started, ScriptIsAlone, Preparing,
     ItemSteps, Undoings, Install!Forward, Install!Rollback, Install!Removal
<1>4. CASE Install!Stages \/ Install!Journals \/ Install!CannotJournal
  BY <1>4 DEF Install!Stages, Install!Journals, Install!CannotJournal,
     Install!Goes, Install!Still, Install!SameRun, Install!SameFlags,
     Install!runVars, Install!Exits, Install!RollsBack, Install!SetsPhase,
     Install!FirstItem, InstallInv, Install!InstallTypeOK, Install!Items,
     LateRemovals, UndoneIsBack, UndoneAt, LateBackups, BackupSteps, Started,
     ScriptIsAlone, Preparing, ItemSteps, Undoings, Install!Forward,
     Install!Rollback, Install!Removal
<1>5. CASE Install!Inspects
  BY <1>5 DEF Install!Inspects, Install!Goes, Install!Still, Install!SameFlags,
     InstallInv, Install!InstallTypeOK, Install!Items, LateRemovals, UndoneIsBack,
     UndoneAt, LateBackups, BackupSteps, Started, ScriptIsAlone, Preparing,
     ItemSteps, Undoings, Install!Forward, Install!Rollback, Install!Removal
<1>6. CASE Install!LooksBeforeBackup \/ Install!ItemFails \/
             Install!VerificationFails
  BY <1>6 DEF Install!LooksBeforeBackup, Install!ItemFails,
     Install!VerificationFails, Install!Goes, Install!Still, Install!SameRun,
     Install!SameFlags, Install!runVars, Install!SameIdentity, Install!Fails,
     Install!RollsBack, Install!Exits, InstallInv, Install!InstallTypeOK,
     Install!Items, LateRemovals, UndoneIsBack, UndoneAt, LateBackups,
     BackupSteps, Started, ScriptIsAlone, Preparing, ItemSteps, Undoings,
     Install!Forward, Install!Rollback, Install!Removal
<1>7. CASE Install!Renames
  BY <1>7 DEF Install!Renames, Install!Goes, Install!SameRun, Install!SameFlags,
     Install!runVars, Install!BacksUp, Install!SameIdentity, Install!Fails,
     Install!RollsBack, InstallInv, Install!InstallTypeOK, Install!Items,
     LateRemovals, UndoneIsBack, UndoneAt, LateBackups, BackupSteps, Started,
     ScriptIsAlone, Preparing, ItemSteps, Undoings, Install!Forward,
     Install!Rollback, Install!Removal
<1>8. CASE Install!Activates
  BY <1>8 DEF Install!Activates, Install!Goes, Install!SameFlags, Install!Places,
     Install!Fails, Install!RollsBack, Install!runVars, InstallInv,
     Install!InstallTypeOK, Install!Items, LateRemovals, UndoneIsBack, UndoneAt,
     LateBackups, BackupSteps, Started, ScriptIsAlone, Preparing, ItemSteps,
     Undoings, Install!Forward, Install!Rollback, Install!Removal
<1>9. CASE Install!Verifies
  BY <1>9 DEF Install!Verifies, Install!Goes, Install!Still, Install!SameFlags,
     Install!SameIdentity, Install!runVars, InstallInv, Install!InstallTypeOK,
     Install!Items, LateRemovals, UndoneIsBack, UndoneAt, LateBackups,
     BackupSteps, Started, ScriptIsAlone, Preparing, ItemSteps, Undoings,
     Install!Forward, Install!Rollback, Install!Removal
<1>10. CASE Install!Undoes
  BY <1>10 DEF Install!Undoes, Install!Goes, Install!Still, Install!SameRun,
     Install!SameFlags, Install!runVars, Install!Undone, Install!CannotUndo,
     InstallInv, Install!InstallTypeOK, Install!Items, LateRemovals, UndoneIsBack,
     UndoneAt, LateBackups, BackupSteps, Started, ScriptIsAlone, Preparing,
     ItemSteps, Undoings, Install!Forward, Install!Rollback, Install!Removal
<1>11. CASE Install!LooksBeforeExchange \/ Install!LooksBeforeRemoval \/
             Install!LooksAgain \/ Install!UndoFails \/ Install!RolledBack
  BY <1>11 DEF Install!LooksBeforeExchange, Install!LooksBeforeRemoval,
     Install!LooksAgain, Install!UndoFails, Install!RolledBack, Install!Goes,
     Install!Still, Install!SameRun, Install!SameFlags, Install!runVars,
     Install!SameIdentity, Install!Undone, Install!CannotUndo, Install!Rollback,
     Install!Removal, Install!Cleanup, InstallInv, Install!InstallTypeOK,
     Install!Items, LateRemovals, UndoneIsBack, UndoneAt, LateBackups,
     BackupSteps, Started, ScriptIsAlone, Preparing, ItemSteps, Undoings,
     Install!Forward
<1>12. CASE Install!Swaps
  BY <1>12 DEF Install!Swaps, Install!Exchanges, Install!SameIdentity,
     Install!Undone, Install!Goes, Install!SameFlags, Install!runVars,
     Install!CannotUndo, InstallInv, Install!InstallTypeOK, Install!Items,
     LateRemovals, UndoneIsBack, UndoneAt, LateBackups, BackupSteps, Started,
     ScriptIsAlone, Preparing, ItemSteps, Undoings, Install!Forward,
     Install!Rollback, Install!Removal
<1>13. CASE Install!Restores
  BY <1>13 DEF Install!Restores, Install!PutsBack, Install!Undone, Install!Goes,
     Install!SameFlags, Install!runVars, Install!CannotUndo, InstallInv,
     Install!InstallTypeOK, Install!Items, LateRemovals, UndoneIsBack, UndoneAt,
     LateBackups, BackupSteps, Started, ScriptIsAlone, Preparing, ItemSteps,
     Undoings, Install!Forward, Install!Rollback, Install!Removal
<1>14. CASE Install!Claims
  BY <1>14 DEF Install!Claims, Install!TakesAway, Install!SameIdentity,
     Install!Undone, Install!Goes, Install!SameFlags, Install!runVars,
     Install!CannotUndo, Install!Seen, InstallInv, Install!InstallTypeOK,
     Install!Items, LateRemovals, UndoneIsBack, UndoneAt, LateBackups,
     BackupSteps, Started, ScriptIsAlone, Preparing, ItemSteps, Undoings,
     Install!Forward, Install!Rollback, Install!Removal
<1>15. CASE Install!CutShort
  BY <1>15 DEF Install!CutShort, Install!Still, Install!Cleanup, Install!Goes,
     Install!Orphans, Install!HelperSteps, Install!Rollback, Install!Removal,
     InstallInv, Install!InstallTypeOK, Install!Items, LateRemovals, UndoneIsBack,
     UndoneAt, LateBackups, BackupSteps, Started, ScriptIsAlone, Preparing,
     ItemSteps, Undoings, Install!Forward
<1>16. CASE Install!Killed
  <2>1. /\ installStep' = "over" /\ UNCHANGED <<saved, complete>>
        /\ \/ orphans' = orphans
           \/ orphans' = orphans \cup {[step |-> installStep, item |-> item]}
    BY <1>16 DEF Install!Killed, Install!Goes, Install!Orphans, Install!Still, Install!runVars
  <2>2. CASE installStep = "removes" /\ ~complete
    <3>1. ~rollbackFailed /\ \A i \in Install!Items : saved[i] \in {"none", "new"}
      BY <2>2 DEF InstallInv, ScriptIsAlone, UndoneIsBack, UndoneAt
    <3>2. \A p \in orphans : p.step \notin BackupSteps \cup {"exchanges", "swaps"}
      BY <2>2, <3>1 DEF InstallInv, LateBackups, UndoneAt, Started, BackupSteps
    <3> QED
      BY <2>1, <2>2, <3>1, <3>2 DEF LateRemovals, BackupSteps
  <2>3. CASE installStep # "removes" \/ complete
    <3>1. \A o \in orphans : o.step = "removes" /\ ~complete => installStep = "over"
      BY DEF InstallInv, LateRemovals
    <3>2. installStep # "over"
      BY <1>16 DEF Install!Killed
    <3> QED
      BY <2>1, <2>3, <3>1, <3>2 DEF LateRemovals
  <2> QED
    BY <2>2, <2>3
<1>17. CASE Install!Signalled
  BY <1>17 DEF Install!Signalled, Install!Still, Install!RollsBack, Install!Goes,
     Install!runVars, Install!Orphans, Install!HelperSteps, Install!Forward,
     InstallInv, Install!InstallTypeOK, Install!Items, LateRemovals, UndoneIsBack,
     UndoneAt, LateBackups, BackupSteps, Started, ScriptIsAlone, Preparing,
     ItemSteps, Undoings, Install!Rollback, Install!Removal
<1>18. CASE \E o \in orphans : Install!OrphanActs(o)
  BY <1>18 DEF Install!OrphanActs, Install!BacksUp, Install!Places,
     Install!PutsBack, Install!Exchanges, Install!TakesAway, Install!SetsPhase,
     Install!RemovesTree, Install!RemovesAll, Install!Everywhere,
     Install!WithoutIt, Install!runVars, Install!Seen, InstallInv,
     Install!InstallTypeOK, Install!Items, LateRemovals, UndoneIsBack, UndoneAt,
     LateBackups, BackupSteps, Started, ScriptIsAlone, Preparing, ItemSteps,
     Undoings, Install!Forward, Install!Rollback, Install!Removal
<1>19. CASE \E o \in orphans : Install!OrphanLooks(o) \/ Install!OrphanEnds(o)
  BY <1>19 DEF Install!OrphanLooks, Install!OrphanEnds, Install!Still,
     Install!SameIdentity, Install!runVars, Install!HelperSteps,
     Install!WithoutIt, InstallInv, Install!InstallTypeOK, Install!Items,
     LateRemovals, UndoneIsBack, UndoneAt, LateBackups, BackupSteps, Started,
     ScriptIsAlone, Preparing, ItemSteps, Undoings, Install!Forward,
     Install!Rollback, Install!Removal
<1>20. CASE \E i \in Install!Items : Install!Interferes(i)
  BY <1>20 DEF Install!Interferes, Install!SameFlags, InstallInv,
     Install!InstallTypeOK, Install!Items, LateRemovals, UndoneIsBack, UndoneAt,
     LateBackups, BackupSteps, Started, ScriptIsAlone, Preparing, ItemSteps,
     Undoings, Install!Forward, Install!Rollback, Install!Removal
<1> QED
  BY <1>1, <1>2, <1>3, <1>4, <1>5, <1>6, <1>7, <1>8, <1>9, <1>10, <1>11, <1>12,
     <1>13, <1>14, <1>15, <1>16, <1>17, <1>18, <1>19, <1>20 DEF
     Install!InstallNext

LEMMA InstalledStaysKept ==
    ASSUME ItemCount \in Nat \ {0}, InstallInv, ~cut, ~cut', Install!InstallNext
    PROVE  Install!InstalledIsKept'
<1>1. CASE Install!Begins \/ Install!FindsNone \/ Install!Refuses \/
             Install!CannotMake \/ Install!Prepares
  BY <1>1 DEF Install!Begins, Install!FindsNone, Install!Refuses,
     Install!CannotMake, Install!Prepares, Install!Goes, Install!Still,
     Install!runVars, Install!SameRun, Install!SameFlags, Install!SetsPhase,
     InstallInv, Install!InstallTypeOK, Install!Items, Install!InstalledIsKept,
     Install!Kept, TheirsIsNew, FoundSoFar, StepIsReady, LateBackups, BackupSteps,
     UndoneIsBack, UndoneAt, BackupsAreFormer, LateRemovals, ScriptIsAlone,
     Preparing, ItemSteps, Undoings, Install!Forward, Install!Rollback,
     Install!Removal
<1>2. CASE Install!Cleans \/ Install!Removes
  BY <1>2 DEF Install!Cleans, Install!Removes, Install!Goes, Install!SameRun,
     Install!SameFlags, Install!runVars, Install!RemovesTree, Install!RemovesAll,
     Install!Everywhere, InstallInv, Install!InstallTypeOK, Install!Items,
     Install!InstalledIsKept, Install!Kept, TheirsIsNew, FoundSoFar, StepIsReady,
     LateBackups, BackupSteps, UndoneIsBack, UndoneAt, BackupsAreFormer,
     LateRemovals, ScriptIsAlone, Preparing, ItemSteps, Undoings, Install!Forward,
     Install!Rollback, Install!Removal
<1>3. CASE Install!Makes
  BY <1>3 DEF Install!Makes, Install!Goes, Install!SameFlags, Install!Everywhere,
     InstallInv, Install!InstallTypeOK, Install!Items, Install!InstalledIsKept,
     Install!Kept, TheirsIsNew, FoundSoFar, StepIsReady, LateBackups, BackupSteps,
     UndoneIsBack, UndoneAt, BackupsAreFormer, LateRemovals, ScriptIsAlone,
     Preparing, ItemSteps, Undoings, Install!Forward, Install!Rollback,
     Install!Removal
<1>4. CASE Install!Stages \/ Install!Journals \/ Install!CannotJournal
  BY <1>4 DEF Install!Stages, Install!Journals, Install!CannotJournal,
     Install!Goes, Install!Still, Install!SameRun, Install!SameFlags,
     Install!runVars, Install!Exits, Install!RollsBack, Install!SetsPhase,
     Install!FirstItem, InstallInv, Install!InstallTypeOK, Install!Items,
     Install!InstalledIsKept, Install!Kept, TheirsIsNew, FoundSoFar, StepIsReady,
     LateBackups, BackupSteps, UndoneIsBack, UndoneAt, BackupsAreFormer,
     LateRemovals, ScriptIsAlone, Preparing, ItemSteps, Undoings, Install!Forward,
     Install!Rollback, Install!Removal
<1>5. CASE Install!Inspects
  BY <1>5 DEF Install!Inspects, Install!Goes, Install!Still, Install!SameFlags,
     InstallInv, Install!InstallTypeOK, Install!Items, Install!InstalledIsKept,
     Install!Kept, TheirsIsNew, FoundSoFar, StepIsReady, LateBackups, BackupSteps,
     UndoneIsBack, UndoneAt, BackupsAreFormer, LateRemovals, ScriptIsAlone,
     Preparing, ItemSteps, Undoings, Install!Forward, Install!Rollback,
     Install!Removal
<1>6. CASE Install!LooksBeforeBackup \/ Install!ItemFails \/
             Install!VerificationFails
  BY <1>6 DEF Install!LooksBeforeBackup, Install!ItemFails,
     Install!VerificationFails, Install!Goes, Install!Still, Install!SameRun,
     Install!SameFlags, Install!runVars, Install!SameIdentity, Install!Fails,
     Install!RollsBack, Install!Exits, InstallInv, Install!InstallTypeOK,
     Install!Items, Install!InstalledIsKept, Install!Kept, TheirsIsNew,
     FoundSoFar, StepIsReady, LateBackups, BackupSteps, UndoneIsBack, UndoneAt,
     BackupsAreFormer, LateRemovals, ScriptIsAlone, Preparing, ItemSteps,
     Undoings, Install!Forward, Install!Rollback, Install!Removal
<1>7. CASE Install!Renames
  BY <1>7 DEF Install!Renames, Install!Goes, Install!SameRun, Install!SameFlags,
     Install!runVars, Install!BacksUp, Install!SameIdentity, Install!Fails,
     Install!RollsBack, InstallInv, Install!InstallTypeOK, Install!Items,
     Install!InstalledIsKept, Install!Kept, TheirsIsNew, FoundSoFar, StepIsReady,
     LateBackups, BackupSteps, UndoneIsBack, UndoneAt, BackupsAreFormer,
     LateRemovals, ScriptIsAlone, Preparing, ItemSteps, Undoings, Install!Forward,
     Install!Rollback, Install!Removal
<1>8. CASE Install!Activates
  BY <1>8 DEF Install!Activates, Install!Goes, Install!SameFlags, Install!Places,
     Install!Fails, Install!RollsBack, Install!runVars, InstallInv,
     Install!InstallTypeOK, Install!Items, Install!InstalledIsKept, Install!Kept,
     TheirsIsNew, FoundSoFar, StepIsReady, LateBackups, BackupSteps, UndoneIsBack,
     UndoneAt, BackupsAreFormer, LateRemovals, ScriptIsAlone, Preparing,
     ItemSteps, Undoings, Install!Forward, Install!Rollback, Install!Removal
<1>9. CASE Install!Verifies
  BY <1>9 DEF Install!Verifies, Install!Goes, Install!Still, Install!SameFlags,
     Install!SameIdentity, Install!runVars, InstallInv, Install!InstallTypeOK,
     Install!Items, Install!InstalledIsKept, Install!Kept, TheirsIsNew,
     FoundSoFar, StepIsReady, LateBackups, BackupSteps, UndoneIsBack, UndoneAt,
     BackupsAreFormer, LateRemovals, ScriptIsAlone, Preparing, ItemSteps,
     Undoings, Install!Forward, Install!Rollback, Install!Removal
<1>10. CASE Install!Undoes
  BY <1>10 DEF Install!Undoes, Install!Goes, Install!Still, Install!SameRun,
     Install!SameFlags, Install!runVars, Install!Undone, Install!CannotUndo,
     InstallInv, Install!InstallTypeOK, Install!Items, Install!InstalledIsKept,
     Install!Kept, TheirsIsNew, FoundSoFar, StepIsReady, LateBackups, BackupSteps,
     UndoneIsBack, UndoneAt, BackupsAreFormer, LateRemovals, ScriptIsAlone,
     Preparing, ItemSteps, Undoings, Install!Forward, Install!Rollback,
     Install!Removal
<1>11. CASE Install!LooksBeforeExchange \/ Install!LooksBeforeRemoval \/
             Install!LooksAgain \/ Install!UndoFails \/ Install!RolledBack
  BY <1>11 DEF Install!LooksBeforeExchange, Install!LooksBeforeRemoval,
     Install!LooksAgain, Install!UndoFails, Install!RolledBack, Install!Goes,
     Install!Still, Install!SameRun, Install!SameFlags, Install!runVars,
     Install!SameIdentity, Install!Undone, Install!CannotUndo, Install!Rollback,
     Install!Removal, Install!Cleanup, InstallInv, Install!InstallTypeOK,
     Install!Items, Install!InstalledIsKept, Install!Kept, TheirsIsNew,
     FoundSoFar, StepIsReady, LateBackups, BackupSteps, UndoneIsBack, UndoneAt,
     BackupsAreFormer, LateRemovals, ScriptIsAlone, Preparing, ItemSteps,
     Undoings, Install!Forward
<1>12. CASE Install!Swaps
  BY <1>12 DEF Install!Swaps, Install!Exchanges, Install!SameIdentity,
     Install!Undone, Install!Goes, Install!SameFlags, Install!runVars,
     Install!CannotUndo, InstallInv, Install!InstallTypeOK, Install!Items,
     Install!InstalledIsKept, Install!Kept, TheirsIsNew, FoundSoFar, StepIsReady,
     LateBackups, BackupSteps, UndoneIsBack, UndoneAt, BackupsAreFormer,
     LateRemovals, ScriptIsAlone, Preparing, ItemSteps, Undoings, Install!Forward,
     Install!Rollback, Install!Removal
<1>13. CASE Install!Restores
  BY <1>13 DEF Install!Restores, Install!PutsBack, Install!Undone, Install!Goes,
     Install!SameFlags, Install!runVars, Install!CannotUndo, InstallInv,
     Install!InstallTypeOK, Install!Items, Install!InstalledIsKept, Install!Kept,
     TheirsIsNew, FoundSoFar, StepIsReady, LateBackups, BackupSteps, UndoneIsBack,
     UndoneAt, BackupsAreFormer, LateRemovals, ScriptIsAlone, Preparing,
     ItemSteps, Undoings, Install!Forward, Install!Rollback, Install!Removal
<1>14. CASE Install!Claims
  BY <1>14 DEF Install!Claims, Install!TakesAway, Install!SameIdentity,
     Install!Undone, Install!Goes, Install!SameFlags, Install!runVars,
     Install!CannotUndo, Install!Seen, InstallInv, Install!InstallTypeOK,
     Install!Items, Install!InstalledIsKept, Install!Kept, TheirsIsNew,
     FoundSoFar, StepIsReady, LateBackups, BackupSteps, UndoneIsBack, UndoneAt,
     BackupsAreFormer, LateRemovals, ScriptIsAlone, Preparing, ItemSteps,
     Undoings, Install!Forward, Install!Rollback, Install!Removal
<1>15. CASE Install!Killed \/ Install!CutShort
  BY <1>15 DEF Install!Killed, Install!CutShort, Install!Goes, Install!Still,
     Install!SameFlags, Install!Orphans, Install!HelperSteps, Install!runVars,
     Install!Cleanup, Install!Rollback, Install!Removal, InstallInv,
     Install!InstallTypeOK, Install!Items, Install!InstalledIsKept, Install!Kept,
     TheirsIsNew, FoundSoFar, StepIsReady, LateBackups, BackupSteps, UndoneIsBack,
     UndoneAt, BackupsAreFormer, LateRemovals, ScriptIsAlone, Preparing,
     ItemSteps, Undoings, Install!Forward
<1>16. CASE Install!Signalled
  BY <1>16 DEF Install!Signalled, Install!Still, Install!RollsBack, Install!Goes,
     Install!runVars, Install!Orphans, Install!HelperSteps, Install!Forward,
     InstallInv, Install!InstallTypeOK, Install!Items, Install!InstalledIsKept,
     Install!Kept, TheirsIsNew, FoundSoFar, StepIsReady, LateBackups, BackupSteps,
     UndoneIsBack, UndoneAt, BackupsAreFormer, LateRemovals, ScriptIsAlone,
     Preparing, ItemSteps, Undoings, Install!Rollback, Install!Removal
<1>17. CASE \E o \in orphans : Install!OrphanActs(o)
  BY <1>17 DEF Install!OrphanActs, Install!BacksUp, Install!Places,
     Install!PutsBack, Install!Exchanges, Install!TakesAway, Install!SetsPhase,
     Install!RemovesTree, Install!RemovesAll, Install!Everywhere,
     Install!WithoutIt, Install!runVars, Install!Seen, InstallInv,
     Install!InstallTypeOK, Install!Items, Install!InstalledIsKept, Install!Kept,
     TheirsIsNew, FoundSoFar, StepIsReady, LateBackups, BackupSteps, UndoneIsBack,
     UndoneAt, BackupsAreFormer, LateRemovals, ScriptIsAlone, Preparing,
     ItemSteps, Undoings, Install!Forward, Install!Rollback, Install!Removal
<1>18. CASE \E o \in orphans : Install!OrphanLooks(o) \/ Install!OrphanEnds(o)
  BY <1>18 DEF Install!OrphanLooks, Install!OrphanEnds, Install!Still,
     Install!SameIdentity, Install!runVars, Install!HelperSteps,
     Install!WithoutIt, InstallInv, Install!InstallTypeOK, Install!Items,
     Install!InstalledIsKept, Install!Kept, TheirsIsNew, FoundSoFar, StepIsReady,
     LateBackups, BackupSteps, UndoneIsBack, UndoneAt, BackupsAreFormer,
     LateRemovals, ScriptIsAlone, Preparing, ItemSteps, Undoings, Install!Forward,
     Install!Rollback, Install!Removal
<1>19. CASE \E i \in Install!Items : Install!Interferes(i)
  BY <1>19 DEF Install!Interferes, Install!SameFlags, InstallInv,
     Install!InstallTypeOK, Install!Items, Install!InstalledIsKept, Install!Kept,
     TheirsIsNew, FoundSoFar, StepIsReady, LateBackups, BackupSteps, UndoneIsBack,
     UndoneAt, BackupsAreFormer, LateRemovals, ScriptIsAlone, Preparing,
     ItemSteps, Undoings, Install!Forward, Install!Rollback, Install!Removal
<1> QED
  BY <1>1, <1>2, <1>3, <1>4, <1>5, <1>6, <1>7, <1>8, <1>9, <1>10, <1>11, <1>12,
     <1>13, <1>14, <1>15, <1>16, <1>17, <1>18, <1>19 DEF Install!InstallNext

\* A new workspace is empty, whatever the last installation has left behind.
LEMMA MakesAnew ==
    ASSUME InstallInv, Install!Makes
    PROVE  /\ FoundSoFar' /\ TheirsIsNew' /\ LateBackups' /\ StepIsReady'
           /\ UndoneIsBack' /\ BackupsAreFormer' /\ LateRemovals' /\ Install!InstalledIsKept'
<1>1. /\ installStep' = "prepares" /\ phase' = "made" /\ recorded' = 0 /\ complete' = FALSE
      /\ orphans' = {} /\ item' = item
  BY DEF Install!Makes, Install!Goes, Install!SameFlags, InstallInv, ScriptIsAlone, Install!Forward
<1>2. \A i \in Install!Items :
         /\ site'[i] \in {"none", "old"} /\ saved'[i] = "none" /\ former'[i] = "none"
         /\ theirs'[i] = "no" /\ destroyed'[i] = "none"
  BY DEF Install!Makes, Install!Everywhere, InstallInv, ScriptIsAlone
<1>3. FoundSoFar' /\ TheirsIsNew' /\ StepIsReady' /\ BackupsAreFormer'
  BY <1>1, <1>2 DEF FoundSoFar, TheirsIsNew, StepIsReady, BackupsAreFormer, Preparing, ItemSteps, BackupSteps,
     Install!Removal
<1>4. LateBackups' /\ UndoneIsBack' /\ LateRemovals'
  BY <1>1, <1>2 DEF LateBackups, UndoneIsBack, LateRemovals, UndoneAt, Install!Rollback, Install!Removal
<1>5. Install!InstalledIsKept'
  BY <1>2 DEF Install!InstalledIsKept
<1> QED
  BY <1>3, <1>4, <1>5

LEMMA OnlyMakesAnew ==
    ASSUME cut, ~cut', Install!InstallNext
    PROVE  Install!Makes
<1>1. CASE Install!Begins \/ Install!FindsNone \/ Install!Refuses \/
             Install!CannotMake \/ Install!Prepares
  BY <1>1 DEF Install!Begins, Install!FindsNone, Install!Refuses,
     Install!CannotMake, Install!Prepares, Install!Goes, Install!Still,
     Install!runVars, Install!SameRun, Install!SameFlags, Install!SetsPhase
<1>2. CASE Install!Cleans \/ Install!Removes
  BY <1>2 DEF Install!Cleans, Install!Removes, Install!Goes, Install!SameRun,
     Install!SameFlags, Install!runVars, Install!RemovesTree, Install!RemovesAll,
     Install!Everywhere
<1>3. CASE Install!Makes
  BY <1>3 DEF Install!Makes, Install!Goes, Install!SameFlags, Install!Everywhere
<1>4. CASE Install!Stages \/ Install!Journals \/ Install!CannotJournal
  BY <1>4 DEF Install!Stages, Install!Journals, Install!CannotJournal,
     Install!Goes, Install!Still, Install!SameRun, Install!SameFlags,
     Install!runVars, Install!Exits, Install!RollsBack, Install!SetsPhase,
     Install!FirstItem
<1>5. CASE Install!Inspects
  BY <1>5 DEF Install!Inspects, Install!Goes, Install!Still, Install!SameFlags
<1>6. CASE Install!LooksBeforeBackup \/ Install!ItemFails \/
             Install!VerificationFails
  BY <1>6 DEF Install!LooksBeforeBackup, Install!ItemFails,
     Install!VerificationFails, Install!Goes, Install!Still, Install!SameRun,
     Install!SameFlags, Install!runVars, Install!SameIdentity, Install!Fails,
     Install!RollsBack, Install!Exits
<1>7. CASE Install!Renames
  BY <1>7 DEF Install!Renames, Install!Goes, Install!SameRun, Install!SameFlags,
     Install!runVars, Install!BacksUp, Install!SameIdentity, Install!Fails,
     Install!RollsBack
<1>8. CASE Install!Activates
  BY <1>8 DEF Install!Activates, Install!Goes, Install!SameFlags, Install!Places,
     Install!Fails, Install!RollsBack, Install!runVars
<1>9. CASE Install!Verifies
  BY <1>9 DEF Install!Verifies, Install!Goes, Install!Still, Install!SameFlags,
     Install!SameIdentity, Install!runVars
<1>10. CASE Install!Undoes
  BY <1>10 DEF Install!Undoes, Install!Goes, Install!Still, Install!SameRun,
     Install!SameFlags, Install!runVars, Install!Undone, Install!CannotUndo
<1>11. CASE Install!LooksBeforeExchange \/ Install!LooksBeforeRemoval \/
             Install!LooksAgain \/ Install!UndoFails \/ Install!RolledBack
  BY <1>11 DEF Install!LooksBeforeExchange, Install!LooksBeforeRemoval,
     Install!LooksAgain, Install!UndoFails, Install!RolledBack, Install!Goes,
     Install!Still, Install!SameRun, Install!SameFlags, Install!runVars,
     Install!SameIdentity, Install!Undone, Install!CannotUndo, Install!Rollback,
     Install!Removal, Install!Cleanup
<1>12. CASE Install!Swaps
  BY <1>12 DEF Install!Swaps, Install!Exchanges, Install!SameIdentity,
     Install!Undone, Install!Goes, Install!SameFlags, Install!runVars,
     Install!CannotUndo
<1>13. CASE Install!Restores
  BY <1>13 DEF Install!Restores, Install!PutsBack, Install!Undone, Install!Goes,
     Install!SameFlags, Install!runVars, Install!CannotUndo
<1>14. CASE Install!Claims
  BY <1>14 DEF Install!Claims, Install!TakesAway, Install!SameIdentity,
     Install!Undone, Install!Goes, Install!SameFlags, Install!runVars,
     Install!CannotUndo, Install!Seen
<1>15. CASE Install!Killed \/ Install!CutShort
  BY <1>15 DEF Install!Killed, Install!CutShort, Install!Goes, Install!Still,
     Install!SameFlags, Install!Orphans, Install!HelperSteps, Install!runVars,
     Install!Cleanup, Install!Rollback, Install!Removal
<1>16. CASE Install!Signalled
  BY <1>16 DEF Install!Signalled, Install!Still, Install!RollsBack, Install!Goes,
     Install!runVars, Install!Orphans, Install!HelperSteps, Install!Forward
<1>17. CASE \E o \in orphans : Install!OrphanActs(o)
  BY <1>17 DEF Install!OrphanActs, Install!BacksUp, Install!Places,
     Install!PutsBack, Install!Exchanges, Install!TakesAway, Install!SetsPhase,
     Install!RemovesTree, Install!RemovesAll, Install!Everywhere,
     Install!WithoutIt, Install!runVars, Install!Seen
<1>18. CASE \E o \in orphans : Install!OrphanLooks(o) \/ Install!OrphanEnds(o)
  BY <1>18 DEF Install!OrphanLooks, Install!OrphanEnds, Install!Still,
     Install!SameIdentity, Install!runVars, Install!HelperSteps, Install!WithoutIt
<1>19. CASE \E i \in Install!Items : Install!Interferes(i)
  BY <1>19 DEF Install!Interferes, Install!SameFlags
<1> QED
  BY <1>1, <1>2, <1>3, <1>4, <1>5, <1>6, <1>7, <1>8, <1>9, <1>10, <1>11, <1>12,
     <1>13, <1>14, <1>15, <1>16, <1>17, <1>18, <1>19 DEF Install!InstallNext

LEMMA InitInstall == ASSUME ItemCount \in Nat \ {0}, Install!InstallInit PROVE InstallInv
<1>1. /\ installStep = "over" /\ item = 0 /\ recorded = 0 /\ phase = "none" /\ orphans = {} /\ complete = FALSE
      /\ \A i \in Install!Items : /\ site[i] \in {"none", "old"} /\ saved[i] = "none" /\ former[i] = "none"
                                 /\ theirs[i] = "no" /\ destroyed[i] = "none"
  BY DEF Install!InstallInit, Install!Everywhere
<1>2. Install!InstallTypeOK
  <2>1. {rollbackFailed, complete, inTrap, cut} \subseteq BOOLEAN
    BY DEF Install!InstallInit
  <2>2. /\ site \in [Install!Items -> Install!Things] /\ saved \in [Install!Items -> Install!Things]
        /\ former \in [Install!Items -> Install!Things] /\ destroyed \in [Install!Items -> Install!Things]
        /\ residue \in [Install!Items -> SUBSET Install!Things] /\ theirs \in [Install!Items -> {"no", "put", "took", "gone"}]
    BY DEF Install!InstallInit, Install!Everywhere, Install!Things
  <2> QED
    BY <1>1, <2>1, <2>2 DEF Install!InstallTypeOK
<1>3. ScriptIsAlone
  BY <1>1 DEF ScriptIsAlone, Preparing, ItemSteps, Undoings, Install!Forward, Install!Rollback, Install!Removal
<1>4. FoundSoFar /\ TheirsIsNew /\ StepIsReady /\ BackupsAreFormer
  BY <1>1 DEF FoundSoFar, TheirsIsNew, StepIsReady, BackupsAreFormer, Preparing, ItemSteps, BackupSteps,
     Install!Removal
<1>5. LateBackups /\ UndoneIsBack /\ LateRemovals
  BY <1>1 DEF LateBackups, UndoneIsBack, LateRemovals, UndoneAt, Install!Rollback, Install!Removal
<1>6. Install!InstalledIsKept
  BY <1>1 DEF Install!InstalledIsKept
<1> QED
  BY <1>2, <1>3, <1>4, <1>5, <1>6 DEF InstallInv

LEMMA InstallStep ==
    ASSUME ItemCount \in Nat \ {0}, InstallInv, Install!InstallNext PROVE InstallInv'
<1>1. Install!InstallTypeOK' /\ ScriptIsAlone'
  BY InstallTypeKept, ScriptStaysAlone
<1>2. CASE cut'
  BY <1>1, <1>2 DEF InstallInv, Install!InstalledIsKept
<1>3. CASE ~cut' /\ cut
  BY <1>1, <1>3, OnlyMakesAnew, MakesAnew DEF InstallInv
<1>4. CASE ~cut' /\ ~cut
  BY <1>1, <1>4, FoundStays, TheirsStaysNew, BackupsStayLate, StepStaysReady, UndoneStaysBack, BackupsStayFormer,
     RemovalsStayLate, InstalledStaysKept DEF InstallInv
<1> QED
  BY <1>2, <1>3, <1>4

LEMMA InstallInvariant == Install!InstallSpec => []InstallInv
<1>1. Install!InstallInit => InstallInv
  BY InitInstall, FilesConstants DEF FilesConstants, Install!InstallAssumption
<1>2. InstallInv /\ [Install!InstallNext]_(Install!installVars) => InstallInv'
  <2> SUFFICES ASSUME InstallInv, UNCHANGED Install!installVars PROVE InstallInv'
    BY InstallStep, FilesConstants DEF FilesConstants, Install!InstallAssumption
  <2>1. UNCHANGED <<site, saved, residue, phase, former, installStep, item, recorded, rollbackFailed, complete,
                    inTrap, orphans, cut, theirs, destroyed>>
    BY DEF Install!installVars, Install!runVars
  <2>2. Install!InstallTypeOK' /\ ScriptIsAlone' /\ Install!InstalledIsKept'
    BY <2>1 DEF InstallInv, Install!InstallTypeOK, ScriptIsAlone, Install!InstalledIsKept, Install!Kept
  <2>3. ~cut => FoundSoFar' /\ TheirsIsNew' /\ StepIsReady' /\ BackupsAreFormer'
    BY <2>1 DEF InstallInv, FoundSoFar, TheirsIsNew, StepIsReady, BackupsAreFormer
  <2>4. ~cut => LateBackups' /\ UndoneIsBack' /\ LateRemovals'
    BY <2>1 DEF InstallInv, LateBackups, UndoneIsBack, LateRemovals, UndoneAt
  <2> QED
    BY <2>1, <2>2, <2>3, <2>4 DEF InstallInv
<1> QED
  BY <1>1, <1>2, PTL DEF Install!InstallSpec

(* scripts/install-local.sh - for any number of items, wherever the        *)
(* installation fails and whenever it is killed or signalled, other than   *)
(* while it rolls back: what was installed, and what somebody else puts    *)
(* there meanwhile, is kept, and an installation that failed and says      *)
(* nothing of its rollback has left the targets as it found them.          *)
THEOREM InstallsLoseNothing == Install!InstallSpec => []Install!InstallLosesNothing
<1>1. InstallInv => Install!InstallLosesNothing
  <2> SUFFICES ASSUME InstallInv PROVE Install!FailureLeavesNoTrace
    BY DEF InstallInv, Install!InstallLosesNothing
  <2> QED
    BY DEF InstallInv, UndoneIsBack, UndoneAt, Install!FailureLeavesNoTrace
<1> QED
  BY <1>1, InstallInvariant, PTL

-----------------------------------------------------------------------------
(* The run's behaviours are those of the parts, side by side.             *)
LEMMA FilePartsAreFollowed ==
    AllSpec => /\ Prune!CleanupSpec /\ Transient!TransientSpec
               /\ Export!ExportSpec /\ Kept!KeptSpec /\ Replace!ReplaceSpec
               /\ Spec /\ TranscriptionSpec /\ ModelSpec /\ LogSpec /\ KeySpec /\ RpmSpec
               /\ Install!InstallSpec
<1>1. AllInit => /\ Prune!CleanupInit /\ Transient!TransientInit
                 /\ Export!ExportInit /\ Kept!KeptInit /\ Replace!ReplaceInit
                 /\ Init /\ TranscriptionInit /\ ModelInit /\ LogInit /\ KeyInit /\ RpmInit
                 /\ Install!InstallInit
  BY DEF AllInit
<1>2. [AllNext]_allVars => [Prune!CleanupNext]_(Prune!cleanupVars)
  BY DEF AllNext, allVars, prunePart, Prune!cleanupVars, Prune!directoryVars, Prune!stateVars,
     Prune!lifecycleVars, Prune!pruneVars
<1>3. [AllNext]_allVars => [Transient!TransientNext]_(Transient!transientVars)
  BY DEF AllNext, allVars, transientPart, Transient!transientVars, Transient!fileVars
<1>4. [AllNext]_allVars => [Export!ExportNext]_(Export!exportVars)
  BY DEF AllNext, allVars, exportPart, Export!exportVars
<1>5. [AllNext]_allVars => [Kept!KeptNext]_(Kept!keptVars)
  BY DEF AllNext, allVars, keptPart, Kept!keptVars, Kept!removalVars, Kept!stableVars
<1>6. [AllNext]_allVars => [Replace!ReplaceNext]_(Replace!replaceVars)
  BY DEF AllNext, allVars, replacePart, Replace!replaceVars
<1>7. [AllNext]_allVars => [Next]_vars /\ [TranscriptionNext]_transcriptionVars /\ [ModelNext]_modelVars
  BY DEF AllNext, allVars
<1>8. [AllNext]_allVars => [LogNext]_logVars /\ [KeyNext]_keyVars /\ [RpmNext]_rpmVars
  BY DEF AllNext, allVars
<1>9. [AllNext]_allVars => [Install!InstallNext]_(Install!installVars)
  BY DEF AllNext, allVars, installPart, Install!installVars, Install!runVars
<1> QED
  BY <1>1, <1>2, <1>3, <1>4, <1>5, <1>6, <1>7, <1>8, <1>9, PTL
     DEF AllSpec, Prune!CleanupSpec, Transient!TransientSpec, Export!ExportSpec, Kept!KeptSpec,
         Replace!ReplaceSpec, Spec, TranscriptionSpec, ModelSpec, LogSpec, KeySpec, RpmSpec,
         Install!InstallSpec

(* cli.py - for any number of recordings, of commands and of kills: with   *)
(* at least three files to keep, cleanup takes neither what a recording or *)
(* a finalization in progress needs nor the file a running command works   *)
(* with.                                                                   *)
THEOREM FilesInUseAreKept == KeepRecordings >= 3 => (AllSpec => []FilesInUseKept)
<1>1. Prune!NeededIsKept /\ Transient!OwnFileIsKept => FilesInUseKept
  BY DEF FilesInUseKept
<1> QED
  BY <1>1, FilePartsAreFollowed, NeededStays, OwnFilesAreKept, PTL

(* settings_export.py, path_safety.py, cli.py, install-local.sh - for any  *)
(* number of exports, of items to install and of failures of a             *)
(* replacement, and for one failing call while a recording is kept, other  *)
(* than the removal of the other form after its claim: neither the speech, *)
(* nor what was installed, nor a file of somebody else is lost.            *)
THEOREM ReplacementsStayKept ==
    MaxKeptFaults <= 1 /\ ~RemovalMayFail => (AllSpec => []ReplacementsKeepData)
<1> SUFFICES ASSUME MaxKeptFaults <= 1, ~RemovalMayFail
             PROVE  AllSpec => []ReplacementsKeepData
  OBVIOUS
<1>1. /\ Export!ExportsAreKept /\ Replace!ReplaceLosesNothing
      /\ Kept!SpeechKept /\ Kept!StoredOnce /\ Install!InstallLosesNothing
      => ReplacementsKeepData
  BY DEF ReplacementsKeepData
<1> QED
  BY <1>1, FilePartsAreFollowed, ExportsStayKept, KeptSpeechStays, ReplacementsLoseNothing,
     InstallsLoseNothing, PTL

(* A behaviour is one of a part.                                          *)
PartIsOne ==
    part \in {"store", "transcribe", "model", "prune", "transient", "log", "key", "export", "kept",
              "replace", "rpm", "install"}

(* The types of the twelve modules, for every value of their constants.    *)
THEOREM FilesTypesStayOK == AllSpec => []FilesTypesOK
<1>1. /\ TypeOK /\ TranscriptionTypeOK /\ ModelTypeOK /\ Prune!CleanupTypeOK /\ Transient!TransientTypeOK
      /\ LogTypeOK /\ KeyTypeOK /\ Export!ExportTypeOK /\ Kept!KeptTypeOK /\ Replace!ReplaceTypeOK /\ RpmTypeOK
      /\ Install!InstallTypeOK /\ PartIsOne
      => FilesTypesOK
  BY DEF FilesTypesOK, PartIsOne
<1>2. AllInit => PartIsOne
  BY DEF AllInit, PartIsOne
<1>3. PartIsOne /\ [AllNext]_allVars => PartIsOne'
  BY DEF AllNext, allVars, PartIsOne
<1>4. TranscriptionInv => TranscriptionTypeOK
  BY DEF TranscriptionInv
<1>5. RpmInv => RpmTypeOK
  BY DEF RpmInv
<1>6. PruneOrder => Prune!CleanupTypeOK
  BY DEF PruneOrder
<1>7. TransientInv => Transient!TransientTypeOK
  BY DEF TransientInv
<1>8. ExportInv => Export!ExportTypeOK
  BY DEF ExportInv
<1>9. ReplaceInv => Replace!ReplaceTypeOK
  BY DEF ReplaceInv
<1>10. InstallInv => Install!InstallTypeOK
  BY DEF InstallInv
<1> QED
  BY <1>1, <1>2, <1>3, <1>4, <1>5, <1>6, <1>7, <1>8, <1>9, <1>10, FilePartsAreFollowed, StoreTypeCorrect,
     TranscriptionInvariant, ModelTypeCorrect, PruneOrderInvariant, TransientInvariant, LogTypeCorrect,
     KeyTypeCorrect, ExportInvariant, KeptTypeCorrect, ReplaceInvariant, RpmInvariant, InstallInvariant,
     PTL DEF AllSpec
=============================================================================
