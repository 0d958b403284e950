-------------------------- MODULE InsertionProofs --------------------------
(***************************************************************************)
(* Proofs about ClipboardInsertion, for any number of commands, of texts,  *)
(* of kills and of ticks: no text is pasted twice in a row too soon, and a *)
(* pending entry has a command that explains it.                           *)
(*                                                                         *)
(* While no lock of a living command was renamed away, who is past the     *)
(* lock owns it (OwnersOwn), so what a command saw of the state is what it *)
(* still holds when it is replaced (SeesEntry).  Then the state remembers  *)
(* the last paste as long as nobody else reserves (PastesAreRemembered),   *)
(* and a command that is about to paste has waited (PastersWaited).        *)
(***************************************************************************)
EXTENDS MCInsertion, FinalizationProofs, SequenceTheorems, TLAPS

(* The lock.  Unless one was renamed away from a living command, whoever   *)
(* is past it owns it; a lock that was seen written had a dead owner.      *)
Owns(p) ==
    /\ at[p] = "writes" => lockFile = [by |-> p, written |-> FALSE]
    /\ at[p] \in Inside => lockFile = [by |-> p, written |-> TRUE]

OwnersOwn == ~displaced => \A p \in Inserters : Owns(p)

SeenAreDead ==
    /\ lockFile # NoLock => lockFile.by \in Inserters \cup {Past}
    /\ \A p \in Inserters : pidOf[p] # "itself" => at[p] = "ended"
    /\ \A p \in Inserters : at[p] \in {"rechecks", "claims"} =>
         /\ lockSeen[p].by \in Inserters \cup {Past}
         /\ lockSeen[p].written => pidOf[lockSeen[p].by] # "itself"

(* Who has reserved, and that the one inside did so last.                  *)
Reserving == {"sets", "pastes", "commits", "fallsback", "refreshes"}

Unreserved == {"opens", "writes", "rechecks", "claims", "reads", "prepares", "reserves"}

ReservedInTime ==
    \A p \in Inserters : /\ at[p] \in Unreserved => reserved[p] = 0
                         /\ at[p] \in Reserving => reserved[p] # 0
                         /\ reserved[p] <= clock

InsideIsLatest ==
    ~displaced => \A p, q \in Inserters :
                    at[p] \in Inside /\ reserved[p] # 0 => reserved[q] <= reserved[p]

(* What the state holds while a command is between its reservation and its *)
(* paste, and what a command has seen of it that has not written it yet.   *)
OwnEntry ==
    ~displaced => \A p \in Inserters : at[p] \in {"sets", "pastes"} =>
                    entry = [text |-> Text[p], context |-> Context(p), time |-> reserved[p],
                             pending |-> TRUE]

SeesEntry ==
    ~displaced => \A p \in Inserters :
                    at[p] \in {"prepares", "reserves"} \/ (at[p] = "restores" /\ reserved[p] = 0) =>
                      entrySeen[p] = entry

WindowsArePasted == \A p \in Inserters : at[p] = "pastes" => p \notin windowless

(* The pastes: each of a command of its own, after its reservation.        *)
PastesAreReserved ==
    \A i \in DOMAIN pastes :
      /\ at[pastes[i].by] \in {"commits", "refreshes", "releases", "ended"}
      /\ pastes[i].by \notin windowless /\ reserved[pastes[i].by] # 0
      /\ reserved[pastes[i].by] <= pastes[i].time /\ pastes[i].time <= clock

PastesOnce == \A i, j \in DOMAIN pastes : pastes[i].by = pastes[j].by => i = j

(* No command but these has reserved since the paste i was.                *)
Undisturbed(i, S) ==
    \A r \in Inserters \ S : reserved[r] = 0 \/ reserved[r] < reserved[pastes[i].by]

Remembers(i) ==
    /\ entry.text = Text[pastes[i].by] /\ entry.context = "window"
    /\ entry.pending => reserved[pastes[i].by] <= entry.time
    /\ ~entry.pending => pastes[i].time <= entry.time

PastesAreRemembered ==
    ~displaced /\ ~torn => \A i \in DOMAIN pastes : Undisturbed(i, {pastes[i].by}) => Remembers(i)

Apart(i, time) ==
    \/ time - pastes[i].time > Duplicate
    \/ pastes[i].time - reserved[pastes[i].by] >= PendingFor - Duplicate

(* Who is about to paste has found that the last paste of its text is long *)
(* enough ago.                                                             *)
PastersWaited ==
    ~displaced /\ ~torn =>
      \A p \in Inserters \ windowless : at[p] \in {"prepares", "reserves", "sets", "pastes"} =>
        \A i \in DOMAIN pastes :
          Text[pastes[i].by] = Text[p] /\ Undisturbed(i, {pastes[i].by, p}) => Apart(i, clock)

(* The property: no text is pasted again too soon.                         *)
PastesAreApart ==
    ~displaced /\ ~torn =>
      \A i, j \in DOMAIN pastes :
        i < j /\ Text[pastes[i].by] = Text[pastes[j].by]
              /\ Undisturbed(i, {pastes[i].by, pastes[j].by}) => Apart(i, pastes[j].time)

(* A pending entry has a command that explains it, or will.                *)
Unsure == {"killed", "unrestored", "uncertain"}

UnsureHaveEnded == \A p \in Inserters : ended[p] \in Unsure => at[p] \in {"releases", "ended"}

EntryExplained ==
    ~displaced /\ entry.pending =>
      \E p \in Inserters : /\ Text[p] = entry.text /\ reserved[p] # 0
                           /\ at[p] \in Reserving \cup {"restores"} \/ ended[p] \in Unsure

SeenExplained ==
    ~displaced => \A q \in Inserters : at[q] \in {"prepares", "reserves", "restores"} \cup Reserving
                    /\ entrySeen[q].pending =>
      \E p \in Inserters : Text[p] = entrySeen[q].text /\ reserved[p] # 0 /\ ended[p] \in Unsure

InsertInv ==
    /\ InsertTypeOK /\ OwnersOwn /\ SeenAreDead /\ ReservedInTime /\ InsideIsLatest
    /\ OwnEntry /\ SeesEntry /\ WindowsArePasted /\ PastesAreReserved /\ PastesOnce
    /\ PastesAreRemembered /\ PastersWaited /\ UnsureHaveEnded /\ EntryExplained /\ SeenExplained
    /\ PastesAreApart


EndedHow == {"no", "inserted", "clipboard", "declined", "failed", "uncertain", "killed", "unrestored"}

LocksOK ==
    /\ lockFile \in [by : Inserters \cup {Past, NoFile}, written : BOOLEAN]
    /\ lockSeen \in [Inserters -> [by : Inserters \cup {Past, NoFile}, written : BOOLEAN]]
    /\ lockTime \in (-LockFor)..LastTick /\ displaced \in BOOLEAN

EntriesOK == entry \in Entries /\ entrySeen \in [Inserters -> Entries] /\ torn \in BOOLEAN

HistoryOK ==
    /\ reserved \in [Inserters -> 0..LastTick]
    /\ pastes \in Seq([by : Inserters, time : 1..LastTick])
    /\ clock \in 1..LastTick /\ windowless \subseteq Inserters


InsertStep(p) ==
    \/ DeclinesPaste(p) \/ Creates(p) \/ WritesPid(p) \/ Inspects(p)
    \/ GivesUp(p) \/ Rechecks(p) \/ Claims(p) \/ ReadsState(p) \/ Prepares(p)
    \/ Reserves(p) \/ SetsClipboard(p) \/ Pastes(p) \/ Commits(p)
    \/ FallsBack(p) \/ Refreshes(p) \/ Restores(p) \/ Releases(p)
    \/ Killed(p)

(* What the operators of the model return.                                 *)
LEMMA EntryTyped ==
    ASSUME InsertTypeOK, NEW p \in Inserters
    PROVE  /\ \A b \in BOOLEAN : Entry(p, Context(p), b) \in Entries /\ Entry(p, "clipboard", b) \in Entries
           /\ NoEntry \in Entries /\ entry \in Entries /\ entrySeen[p] \in Entries
           /\ Context(p) \in {"window", "nowindow"}
<1>1. Context(p) \in {"window", "nowindow"}
  BY DEF Context
<1>2. clock \in 0 .. LastTick
  BY InsertersAssumption DEF InsertersAssumption, InsertTypeOK
<1>3. Text[p] \in Texts
  BY DEF Texts
<1>4. NoEntry \in Entries
  BY InsertersAssumption DEF InsertersAssumption, NoEntry, Entries
<1>5. entry \in Entries /\ entrySeen[p] \in Entries
  BY DEF InsertTypeOK
<1> QED
  BY <1>1, <1>2, <1>3, <1>4, <1>5 DEF Entry, Entries, Contexts

LEMMA KeyTyped ==
    ASSUME NEW p \in Inserters PROVE Key(p) \in Texts \X {"window", "nowindow"}
<1>1. Text[p] \in Texts
  BY DEF Texts
<1> QED
  BY <1>1 DEF Key, Context

LEMMA PastesTyped ==
    ASSUME InsertTypeOK, NEW i \in DOMAIN pastes
    PROVE  /\ pastes[i].by \in Inserters /\ pastes[i].time \in Nat /\ clock \in Nat
           /\ reserved[pastes[i].by] \in Nat
<1>1. pastes \in Seq([by : Inserters, time : 1..LastTick])
  BY DEF InsertTypeOK
<1>2. pastes[i] \in [by : Inserters, time : 1..LastTick]
  BY <1>1, LenProperties, ElementOfSeq, Zenon
<1>3. reserved \in [Inserters -> 0..LastTick] /\ clock \in 1 .. LastTick
  BY DEF InsertTypeOK
<1> QED
  BY <1>2, <1>3

LEMMA PasteAdded ==
    ASSUME InsertTypeOK, NEW r, pastes' = Append(pastes, r)
    PROVE  /\ DOMAIN pastes' = DOMAIN pastes \cup {Len(pastes) + 1} /\ Len(pastes) + 1 \notin DOMAIN pastes
           /\ \A i \in DOMAIN pastes : pastes'[i] = pastes[i] /\ i < Len(pastes) + 1
           /\ pastes'[Len(pastes) + 1] = r
<1>1. pastes \in Seq([by : Inserters, time : 1..LastTick])
  BY DEF InsertTypeOK
<1> QED
  BY <1>1

LEMMA LedgerTyped ==
    ASSUME InsertTypeOK, NEW p \in Inserters
    PROVE  \A v \in 0 .. (LastTick + QuarantineFor) :
             [ledger EXCEPT ![Key(p)] = v]
               \in [Texts \X {"window", "nowindow"} -> 0 .. (LastTick + QuarantineFor)]
<1> DEFINE D == Texts \X {"window", "nowindow"}
           V == 0 .. (LastTick + QuarantineFor)
<1>1. Key(p) \in D /\ ledger \in [D -> V]
  BY KeyTyped DEF InsertTypeOK
<1> HIDE DEF D, V
<1>2. \A v \in V : [ledger EXCEPT ![Key(p)] = v] \in [D -> V]
  BY <1>1
<1> QED
  BY <1>2 DEF D, V

LEMMA QuarantineTyped ==
    ASSUME InsertTypeOK
    PROVE  /\ 0 \in 0 .. (LastTick + QuarantineFor)
           /\ clock + QuarantineFor \in 0 .. (LastTick + QuarantineFor)
BY InsertersAssumption DEF InsertersAssumption, InsertTypeOK, QuarantineFor

(* The steps of a command that has not pasted yet.                         *)
LEMMA PastersAre ==
    ASSUME InsertTypeOK, PastesAreReserved, NEW i \in DOMAIN pastes, NEW p \in Inserters,
           at[p] \notin {"commits", "refreshes", "releases", "ended"}
    PROVE  pastes[i].by # p
BY DEF PastesAreReserved

LEMMA StepsKept ==
    ASSUME InsertTypeOK, NEW p \in Inserters, InsertStep(p)
    PROVE  at' \in [Inserters -> Steps] /\ ended' \in [Inserters -> EndedHow]
<1>1. CASE DeclinesPaste(p)
  BY <1>1 DEF DeclinesPaste, Goes, lockVars, stateVars, Ends, InsertTypeOK, Steps,
     EndedHow, Context
<1>2. CASE Creates(p)
  BY <1>2 DEF Creates, Goes, lockVars, stateVars, InsertTypeOK, Steps, EndedHow,
     Context
<1>3. CASE WritesPid(p)
  BY <1>3 DEF WritesPid, Goes, lockVars, stateVars, InsertTypeOK, Steps, EndedHow,
     Context
<1>4. CASE Inspects(p)
  BY <1>4 DEF Inspects, Goes, lockVars, stateVars, InsertTypeOK, Steps, EndedHow,
     Context
<1>5. CASE GivesUp(p)
  BY <1>5 DEF GivesUp, Goes, lockVars, stateVars, Ends, InsertTypeOK, Steps,
     EndedHow, Context
<1>6. CASE Rechecks(p)
  BY <1>6 DEF Rechecks, Goes, lockVars, stateVars, InsertTypeOK, Steps, EndedHow,
     Context
<1>7. CASE Claims(p)
  BY <1>7 DEF Claims, Goes, lockVars, stateVars, OutlivedByOwner, InsertTypeOK,
     Steps, EndedHow, Context
<1>8. CASE ReadsState(p)
  BY <1>8 DEF ReadsState, Goes, lockVars, stateVars, InsertTypeOK, Steps,
     EndedHow, Context
<1>9. CASE Prepares(p)
  BY <1>9 DEF Prepares, Goes, lockVars, stateVars, InsertTypeOK, Steps, EndedHow,
     Context
<1>10. CASE Reserves(p)
  BY <1>10 DEF Reserves, Goes, lockVars, stateVars, Entry, Writes, WriteFails,
     InsertTypeOK, Steps, EndedHow, Context
<1>11. CASE SetsClipboard(p)
  BY <1>11 DEF SetsClipboard, Goes, lockVars, stateVars, InsertTypeOK, Steps,
     EndedHow, Context
<1>12. CASE Pastes(p)
  BY <1>12 DEF Pastes, Goes, lockVars, stateVars, InsertTypeOK, Steps, EndedHow,
     Context
<1>13. CASE Commits(p)
  BY <1>13 DEF Commits, Goes, lockVars, stateVars, Entry, Writes, WriteFails,
     InsertTypeOK, Steps, EndedHow, Context
<1>14. CASE FallsBack(p)
  BY <1>14 DEF FallsBack, Goes, lockVars, stateVars, Entry, Writes, WriteFails,
     Unquarantined, InsertTypeOK, Steps, EndedHow, Context
<1>15. CASE Refreshes(p)
  BY <1>15 DEF Refreshes, Goes, lockVars, stateVars, Entry, Writes, WriteFails,
     InsertTypeOK, Steps, EndedHow, Context
<1>16. CASE Restores(p)
  BY <1>16 DEF Restores, Goes, lockVars, stateVars, InsertTypeOK, Steps, EndedHow,
     Context
<1>17. CASE Releases(p)
  BY <1>17 DEF Releases, Goes, lockVars, stateVars, InsertTypeOK, Steps, EndedHow,
     Context
<1>18. CASE Killed(p)
  BY <1>18 DEF Killed, Goes, lockVars, stateVars, Ends, InsertTypeOK, Steps,
     EndedHow, Context
<1> QED
  BY <1>1, <1>2, <1>3, <1>4, <1>5, <1>6, <1>7, <1>8, <1>9, <1>10, <1>11, <1>12,
     <1>13, <1>14, <1>15, <1>16, <1>17, <1>18 DEF InsertStep

LEMMA LocksKept ==
    ASSUME InsertTypeOK, NEW p \in Inserters, InsertStep(p)
    PROVE  LocksOK'
<1>1. CASE DeclinesPaste(p)
  BY <1>1, InsertersAssumption DEF DeclinesPaste, Goes, lockVars, stateVars, Ends,
     InsertTypeOK, LocksOK, NoLock, LockFor
<1>2. CASE Creates(p)
  BY <1>2, InsertersAssumption DEF Creates, Goes, lockVars, stateVars,
     InsertersAssumption, InsertTypeOK, LocksOK, NoLock, LockFor
<1>3. CASE WritesPid(p)
  <2>1. [by |-> p, written |-> TRUE] \in [by : Inserters \cup {Past, NoFile}, written : BOOLEAN]
    OBVIOUS
  <2>2. NoLock \in [by : Inserters \cup {Past, NoFile}, written : BOOLEAN]
    BY DEF NoLock
  <2>3. 0 \in (-LockFor)..LastTick /\ clock \in (-LockFor)..LastTick
    BY InsertersAssumption DEF InsertersAssumption, LockFor, InsertTypeOK
  <2>4. /\ lockFile' \in {lockFile, NoLock, [by |-> p, written |-> TRUE]}
        /\ lockTime' \in {lockTime, 0, clock} /\ UNCHANGED <<lockSeen, displaced>>
    BY <1>3 DEF WritesPid
  <2> QED
    BY <2>1, <2>2, <2>3, <2>4 DEF LocksOK, InsertTypeOK
<1>4. CASE Inspects(p)
  BY <1>4, InsertersAssumption DEF Inspects, Goes, lockVars, stateVars,
     InsertTypeOK, LocksOK, NoLock, LockFor
<1>5. CASE GivesUp(p)
  BY <1>5, InsertersAssumption DEF GivesUp, Goes, lockVars, stateVars, Ends,
     InsertTypeOK, LocksOK, NoLock, LockFor
<1>6. CASE Rechecks(p)
  BY <1>6, InsertersAssumption DEF Rechecks, Goes, lockVars, stateVars,
     InsertTypeOK, LocksOK, NoLock, LockFor
<1>7. CASE Claims(p)
  BY <1>7, InsertersAssumption DEF Claims, Goes, lockVars, stateVars,
     OutlivedByOwner, InsertTypeOK, LocksOK, NoLock, LockFor
<1>8. CASE ReadsState(p)
  BY <1>8, InsertersAssumption DEF ReadsState, Goes, lockVars, stateVars,
     InsertTypeOK, LocksOK, NoLock, LockFor
<1>9. CASE Prepares(p)
  BY <1>9, InsertersAssumption DEF Prepares, Goes, lockVars, stateVars,
     InsertTypeOK, LocksOK, NoLock, LockFor
<1>10. CASE Reserves(p)
  BY <1>10, InsertersAssumption DEF Reserves, Goes, lockVars, stateVars, Entry,
     Writes, WriteFails, InsertTypeOK, LocksOK, NoLock, LockFor
<1>11. CASE SetsClipboard(p)
  BY <1>11, InsertersAssumption DEF SetsClipboard, Goes, lockVars, stateVars,
     InsertTypeOK, LocksOK, NoLock, LockFor
<1>12. CASE Pastes(p)
  BY <1>12, InsertersAssumption DEF Pastes, Goes, lockVars, stateVars,
     InsertTypeOK, LocksOK, NoLock, LockFor
<1>13. CASE Commits(p)
  BY <1>13, InsertersAssumption DEF Commits, Goes, lockVars, stateVars, Entry,
     Writes, WriteFails, InsertTypeOK, LocksOK, NoLock, LockFor
<1>14. CASE FallsBack(p)
  BY <1>14, InsertersAssumption DEF FallsBack, Goes, lockVars, stateVars, Entry,
     Writes, WriteFails, Unquarantined, InsertTypeOK, LocksOK, NoLock, LockFor
<1>15. CASE Refreshes(p)
  BY <1>15, InsertersAssumption DEF Refreshes, Goes, lockVars, stateVars, Entry,
     Writes, WriteFails, InsertTypeOK, LocksOK, NoLock, LockFor
<1>16. CASE Restores(p)
  BY <1>16, InsertersAssumption DEF Restores, Goes, lockVars, stateVars,
     InsertTypeOK, LocksOK, NoLock, LockFor
<1>17. CASE Releases(p)
  BY <1>17, InsertersAssumption DEF Releases, Goes, lockVars, stateVars,
     InsertTypeOK, LocksOK, NoLock, LockFor
<1>18. CASE Killed(p)
  BY <1>18, InsertersAssumption DEF Killed, Goes, lockVars, stateVars, Ends,
     InsertTypeOK, LocksOK, NoLock, LockFor
<1> QED
  BY <1>1, <1>2, <1>3, <1>4, <1>5, <1>6, <1>7, <1>8, <1>9, <1>10, <1>11, <1>12,
     <1>13, <1>14, <1>15, <1>16, <1>17, <1>18 DEF InsertStep

LEMMA EntriesKept ==
    ASSUME InsertTypeOK, NEW p \in Inserters, InsertStep(p)
    PROVE  EntriesOK'
<1>1. CASE DeclinesPaste(p)
  BY <1>1, InsertersAssumption DEF DeclinesPaste, Goes, lockVars, stateVars, Ends,
     InsertTypeOK, EntriesOK, Entries, NoEntry, Contexts, Context, Texts
<1>2. CASE Creates(p)
  BY <1>2, InsertersAssumption DEF Creates, Goes, lockVars, stateVars,
     InsertTypeOK, EntriesOK, Entries, NoEntry, Contexts, Context, Texts
<1>3. CASE WritesPid(p)
  BY <1>3, InsertersAssumption DEF WritesPid, Goes, lockVars, stateVars,
     InsertTypeOK, EntriesOK, Entries, NoEntry, Contexts, Context, Texts
<1>4. CASE Inspects(p)
  BY <1>4, InsertersAssumption DEF Inspects, Goes, lockVars, stateVars,
     InsertTypeOK, EntriesOK, Entries, NoEntry, Contexts, Context, Texts
<1>5. CASE GivesUp(p)
  BY <1>5, InsertersAssumption DEF GivesUp, Goes, lockVars, stateVars, Ends,
     InsertTypeOK, EntriesOK, Entries, NoEntry, Contexts, Context, Texts
<1>6. CASE Rechecks(p)
  BY <1>6, InsertersAssumption DEF Rechecks, Goes, lockVars, stateVars,
     InsertTypeOK, EntriesOK, Entries, NoEntry, Contexts, Context, Texts
<1>7. CASE Claims(p)
  BY <1>7, InsertersAssumption DEF Claims, Goes, lockVars, stateVars,
     OutlivedByOwner, InsertTypeOK, EntriesOK, Entries, NoEntry, Contexts,
     Context, Texts
<1>8. CASE ReadsState(p)
  BY <1>8, InsertersAssumption DEF ReadsState, Goes, lockVars, stateVars,
     InsertTypeOK, EntriesOK, Entries, NoEntry, Contexts, Context, Texts
<1>9. CASE Prepares(p)
  BY <1>9, InsertersAssumption DEF Prepares, Goes, lockVars, stateVars,
     InsertTypeOK, EntriesOK, Entries, NoEntry, Contexts, Context, Texts
<1>10. CASE Reserves(p)
  BY <1>10, EntryTyped DEF Reserves, Goes, Ends, lockVars, Writes, WriteFails, EntriesOK, InsertTypeOK
<1>11. CASE SetsClipboard(p)
  BY <1>11, InsertersAssumption DEF SetsClipboard, Goes, lockVars, stateVars,
     InsertTypeOK, EntriesOK, Entries, NoEntry, Contexts, Context, Texts
<1>12. CASE Pastes(p)
  BY <1>12, InsertersAssumption DEF Pastes, Goes, lockVars, stateVars,
     InsertTypeOK, EntriesOK, Entries, NoEntry, Contexts, Context, Texts
<1>13. CASE Commits(p)
  <2>1. entry' \in {entry, Entry(p, Context(p), FALSE)} /\ UNCHANGED <<entrySeen, torn>>
    BY <1>13 DEF Commits, Writes, WriteFails
  <2> QED
    BY <2>1, EntryTyped DEF EntriesOK, InsertTypeOK
<1>14. CASE FallsBack(p)
  BY <1>14, EntryTyped DEF FallsBack, Goes, Ends, lockVars, Writes, WriteFails, EntriesOK, InsertTypeOK
<1>15. CASE Refreshes(p)
  BY <1>15, EntryTyped DEF Refreshes, Goes, Ends, lockVars, Writes, WriteFails, EntriesOK, InsertTypeOK
<1>16. CASE Restores(p)
  BY <1>16, EntryTyped DEF Restores, Goes, Ends, lockVars, Writes, WriteFails, EntriesOK, InsertTypeOK
<1>17. CASE Releases(p)
  BY <1>17, InsertersAssumption DEF Releases, Goes, lockVars, stateVars,
     InsertTypeOK, EntriesOK, Entries, NoEntry, Contexts, Context, Texts
<1>18. CASE Killed(p)
  BY <1>18, EntryTyped DEF Killed, Goes, Ends, lockVars, Writes, WriteFails, EntriesOK, InsertTypeOK
<1> QED
  BY <1>1, <1>2, <1>3, <1>4, <1>5, <1>6, <1>7, <1>8, <1>9, <1>10, <1>11, <1>12,
     <1>13, <1>14, <1>15, <1>16, <1>17, <1>18 DEF InsertStep

LEMMA LedgerKept ==
    ASSUME InsertTypeOK, NEW p \in Inserters, InsertStep(p)
    PROVE  ledger' \in [Texts \X {"window", "nowindow"} -> 0..(LastTick + QuarantineFor)]
<1>1. CASE DeclinesPaste(p)
  BY <1>1, InsertersAssumption DEF DeclinesPaste, Goes, lockVars, stateVars, Ends,
     InsertTypeOK, Texts, Key, Context, QuarantineFor, InsertersAssumption
<1>2. CASE Creates(p)
  BY <1>2, InsertersAssumption DEF Creates, Goes, lockVars, stateVars,
     InsertTypeOK, Texts, Key, Context, QuarantineFor, InsertersAssumption
<1>3. CASE WritesPid(p)
  BY <1>3, InsertersAssumption DEF WritesPid, Goes, lockVars, stateVars,
     InsertTypeOK, Texts, Key, Context, QuarantineFor, InsertersAssumption
<1>4. CASE Inspects(p)
  BY <1>4, InsertersAssumption DEF Inspects, Goes, lockVars, stateVars,
     InsertTypeOK, Texts, Key, Context, QuarantineFor, InsertersAssumption
<1>5. CASE GivesUp(p)
  BY <1>5, InsertersAssumption DEF GivesUp, Goes, lockVars, stateVars, Ends,
     InsertTypeOK, Texts, Key, Context, QuarantineFor, InsertersAssumption
<1>6. CASE Rechecks(p)
  BY <1>6, InsertersAssumption DEF Rechecks, Goes, lockVars, stateVars,
     InsertTypeOK, Texts, Key, Context, QuarantineFor, InsertersAssumption
<1>7. CASE Claims(p)
  BY <1>7, InsertersAssumption DEF Claims, Goes, lockVars, stateVars,
     OutlivedByOwner, InsertTypeOK, Texts, Key, Context, QuarantineFor,
     InsertersAssumption
<1>8. CASE ReadsState(p)
  BY <1>8, InsertersAssumption DEF ReadsState, Goes, lockVars, stateVars,
     InsertTypeOK, Texts, Key, Context, QuarantineFor, InsertersAssumption
<1>9. CASE Prepares(p)
  BY <1>9, InsertersAssumption DEF Prepares, Goes, lockVars, stateVars,
     InsertTypeOK, Texts, Key, Context, QuarantineFor, InsertersAssumption
<1>10. CASE Reserves(p)
  BY <1>10, InsertersAssumption DEF Reserves, Goes, lockVars, stateVars, Entry,
     Writes, WriteFails, InsertTypeOK, Texts, Key, Context, QuarantineFor,
     InsertersAssumption
<1>11. CASE SetsClipboard(p)
  BY <1>11, InsertersAssumption DEF SetsClipboard, Goes, lockVars, stateVars,
     InsertTypeOK, Texts, Key, Context, QuarantineFor, InsertersAssumption
<1>12. CASE Pastes(p)
  BY <1>12, InsertersAssumption DEF Pastes, Goes, lockVars, stateVars,
     InsertTypeOK, Texts, Key, Context, QuarantineFor, InsertersAssumption
<1>13. CASE Commits(p)
  <2>1. ledger' \in {ledger, [ledger EXCEPT ![Key(p)] = 0],
                       [ledger EXCEPT ![Key(p)] = clock + QuarantineFor]}
    BY <1>13 DEF Commits, Unquarantined
  <2> QED
    BY <2>1, LedgerTyped, QuarantineTyped DEF InsertTypeOK
<1>14. CASE FallsBack(p)
  <2>1. ledger' \in {ledger, [ledger EXCEPT ![Key(p)] = 0],
                       [ledger EXCEPT ![Key(p)] = clock + QuarantineFor]}
    BY <1>14 DEF FallsBack, Unquarantined
  <2> QED
    BY <2>1, LedgerTyped, QuarantineTyped DEF InsertTypeOK
<1>15. CASE Refreshes(p)
  <2>1. ledger' \in {ledger, [ledger EXCEPT ![Key(p)] = 0],
                       [ledger EXCEPT ![Key(p)] = clock + QuarantineFor]}
    BY <1>15 DEF Refreshes, Unquarantined
  <2> QED
    BY <2>1, LedgerTyped, QuarantineTyped DEF InsertTypeOK
<1>16. CASE Restores(p)
  BY <1>16, InsertersAssumption DEF Restores, Goes, lockVars, stateVars,
     InsertTypeOK, Texts, Key, Context, QuarantineFor, InsertersAssumption
<1>17. CASE Releases(p)
  BY <1>17, InsertersAssumption DEF Releases, Goes, lockVars, stateVars,
     InsertTypeOK, Texts, Key, Context, QuarantineFor, InsertersAssumption
<1>18. CASE Killed(p)
  BY <1>18, InsertersAssumption DEF Killed, Goes, lockVars, stateVars, Ends,
     InsertTypeOK, Texts, Key, Context, QuarantineFor, InsertersAssumption
<1> QED
  BY <1>1, <1>2, <1>3, <1>4, <1>5, <1>6, <1>7, <1>8, <1>9, <1>10, <1>11, <1>12,
     <1>13, <1>14, <1>15, <1>16, <1>17, <1>18 DEF InsertStep

LEMMA PidsKept ==
    ASSUME InsertTypeOK, NEW p \in Inserters, InsertStep(p)
    PROVE  pidOf' \in [Inserters \cup {Past} -> {"itself", "nobody", "another"}]
<1>1. CASE DeclinesPaste(p)
  BY <1>1 DEF DeclinesPaste, Goes, lockVars, stateVars, Ends, InsertTypeOK
<1>2. CASE Creates(p)
  BY <1>2 DEF Creates, Goes, lockVars, stateVars, InsertTypeOK
<1>3. CASE WritesPid(p)
  BY <1>3 DEF WritesPid, Goes, lockVars, stateVars, InsertTypeOK
<1>4. CASE Inspects(p)
  BY <1>4 DEF Inspects, Goes, lockVars, stateVars, InsertTypeOK
<1>5. CASE GivesUp(p)
  BY <1>5 DEF GivesUp, Goes, lockVars, stateVars, Ends, InsertTypeOK
<1>6. CASE Rechecks(p)
  BY <1>6 DEF Rechecks, Goes, lockVars, stateVars, InsertTypeOK
<1>7. CASE Claims(p)
  BY <1>7 DEF Claims, Goes, lockVars, stateVars, OutlivedByOwner, InsertTypeOK
<1>8. CASE ReadsState(p)
  BY <1>8 DEF ReadsState, Goes, lockVars, stateVars, InsertTypeOK
<1>9. CASE Prepares(p)
  BY <1>9 DEF Prepares, Goes, lockVars, stateVars, InsertTypeOK
<1>10. CASE Reserves(p)
  BY <1>10 DEF Reserves, Goes, lockVars, stateVars, Entry, Writes, WriteFails,
     InsertTypeOK
<1>11. CASE SetsClipboard(p)
  BY <1>11 DEF SetsClipboard, Goes, lockVars, stateVars, InsertTypeOK
<1>12. CASE Pastes(p)
  BY <1>12 DEF Pastes, Goes, lockVars, stateVars, InsertTypeOK
<1>13. CASE Commits(p)
  BY <1>13 DEF Commits, Goes, lockVars, stateVars, Entry, Writes, WriteFails,
     InsertTypeOK
<1>14. CASE FallsBack(p)
  BY <1>14 DEF FallsBack, Goes, lockVars, stateVars, Entry, Writes, WriteFails,
     Unquarantined, InsertTypeOK
<1>15. CASE Refreshes(p)
  BY <1>15 DEF Refreshes, Goes, lockVars, stateVars, Entry, Writes, WriteFails,
     InsertTypeOK
<1>16. CASE Restores(p)
  BY <1>16 DEF Restores, Goes, lockVars, stateVars, InsertTypeOK
<1>17. CASE Releases(p)
  BY <1>17 DEF Releases, Goes, lockVars, stateVars, InsertTypeOK
<1>18. CASE Killed(p)
  BY <1>18 DEF Killed, Goes, lockVars, stateVars, Ends, InsertTypeOK
<1> QED
  BY <1>1, <1>2, <1>3, <1>4, <1>5, <1>6, <1>7, <1>8, <1>9, <1>10, <1>11, <1>12,
     <1>13, <1>14, <1>15, <1>16, <1>17, <1>18 DEF InsertStep

LEMMA HistoryKept ==
    ASSUME InsertTypeOK, NEW p \in Inserters, InsertStep(p)
    PROVE  HistoryOK'
<1>1. CASE DeclinesPaste(p)
  BY <1>1 DEF DeclinesPaste, Goes, lockVars, stateVars, Ends, InsertTypeOK,
     HistoryOK
<1>2. CASE Creates(p)
  BY <1>2 DEF Creates, Goes, lockVars, stateVars, InsertTypeOK, HistoryOK
<1>3. CASE WritesPid(p)
  BY <1>3 DEF WritesPid, Goes, lockVars, stateVars, InsertTypeOK, HistoryOK
<1>4. CASE Inspects(p)
  BY <1>4 DEF Inspects, Goes, lockVars, stateVars, InsertTypeOK, HistoryOK
<1>5. CASE GivesUp(p)
  BY <1>5 DEF GivesUp, Goes, lockVars, stateVars, Ends, InsertTypeOK, HistoryOK
<1>6. CASE Rechecks(p)
  BY <1>6 DEF Rechecks, Goes, lockVars, stateVars, InsertTypeOK, HistoryOK
<1>7. CASE Claims(p)
  BY <1>7 DEF Claims, Goes, lockVars, stateVars, OutlivedByOwner, InsertTypeOK,
     HistoryOK
<1>8. CASE ReadsState(p)
  BY <1>8 DEF ReadsState, Goes, lockVars, stateVars, InsertTypeOK, HistoryOK
<1>9. CASE Prepares(p)
  BY <1>9 DEF Prepares, Goes, lockVars, stateVars, InsertTypeOK, HistoryOK
<1>10. CASE Reserves(p)
  BY <1>10 DEF Reserves, Goes, lockVars, stateVars, Entry, Writes, WriteFails,
     InsertTypeOK, HistoryOK
<1>11. CASE SetsClipboard(p)
  BY <1>11 DEF SetsClipboard, Goes, lockVars, stateVars, InsertTypeOK, HistoryOK
<1>12. CASE Pastes(p)
  <2>1. UNCHANGED <<reserved, clock, windowless>>
    BY <1>12 DEF Pastes
  <2>2. [by |-> p, time |-> clock] \in [by : Inserters, time : 1..LastTick]
    BY DEF InsertTypeOK
  <2>3. pastes \in Seq([by : Inserters, time : 1..LastTick])
    BY DEF InsertTypeOK
  <2>4. pastes' \in {pastes, Append(pastes, [by |-> p, time |-> clock])}
    BY <1>12 DEF Pastes
  <2>5. pastes' \in Seq([by : Inserters, time : 1..LastTick])
    <3>1. Append(pastes, [by |-> p, time |-> clock]) \in Seq([by : Inserters, time : 1..LastTick])
      BY <2>2, <2>3, AppendProperties, Zenon
    <3> QED
      BY <2>3, <2>4, <3>1
  <2> QED
    BY <2>1, <2>5 DEF HistoryOK, InsertTypeOK
<1>13. CASE Commits(p)
  BY <1>13 DEF Commits, Goes, lockVars, stateVars, Entry, Writes, WriteFails,
     InsertTypeOK, HistoryOK
<1>14. CASE FallsBack(p)
  BY <1>14 DEF FallsBack, Goes, lockVars, stateVars, Entry, Writes, WriteFails,
     Unquarantined, InsertTypeOK, HistoryOK
<1>15. CASE Refreshes(p)
  BY <1>15 DEF Refreshes, Goes, lockVars, stateVars, Entry, Writes, WriteFails,
     InsertTypeOK, HistoryOK
<1>16. CASE Restores(p)
  BY <1>16 DEF Restores, Goes, lockVars, stateVars, InsertTypeOK, HistoryOK
<1>17. CASE Releases(p)
  BY <1>17 DEF Releases, Goes, lockVars, stateVars, InsertTypeOK, HistoryOK
<1>18. CASE Killed(p)
  BY <1>18 DEF Killed, Goes, lockVars, stateVars, Ends, InsertTypeOK, HistoryOK
<1> QED
  BY <1>1, <1>2, <1>3, <1>4, <1>5, <1>6, <1>7, <1>8, <1>9, <1>10, <1>11, <1>12,
     <1>13, <1>14, <1>15, <1>16, <1>17, <1>18 DEF InsertStep

LEMMA OwnersKept ==
    ASSUME InsertTypeOK, SeenAreDead, OwnersOwn, NEW p \in Inserters,
       InsertStep(p)
    PROVE  OwnersOwn'
<1>1. CASE DeclinesPaste(p)
  BY <1>1, InsertersAssumption DEF DeclinesPaste, Goes, lockVars, stateVars, Ends,
     InsertTypeOK, SeenAreDead, OwnersOwn, Owns, NoLock, Steps, Inside
<1>2. CASE Creates(p)
  BY <1>2, InsertersAssumption DEF Creates, Goes, lockVars, stateVars,
     InsertTypeOK, SeenAreDead, OwnersOwn, Owns, NoLock, Steps, Inside
<1>3. CASE WritesPid(p)
  <2>1. SUFFICES ASSUME ~displaced', NEW q \in Inserters PROVE Owns(q)'
    BY DEF OwnersOwn
  <2>2. /\ at[p] = "writes" /\ Owns(q) /\ lockFile = [by |-> p, written |-> FALSE]
        /\ lockFile' \in {[by |-> p, written |-> TRUE], NoLock}
        /\ lockFile' = NoLock => at' = [at EXCEPT ![p] = "opens"]
        /\ lockFile' # NoLock => at' = [at EXCEPT ![p] = "reads"]
    BY <1>3, <2>1, InsertersAssumption DEF WritesPid, Goes, OwnersOwn, Owns, NoLock, InsertersAssumption
  <2>3. q # p => at[q] \notin {"writes"} \cup Inside /\ at'[q] = at[q]
    BY <2>2 DEF Owns, InsertTypeOK
  <2>4. p # NoFile /\ at \in [Inserters -> Steps]
    BY InsertersAssumption DEF InsertersAssumption, InsertTypeOK
  <2> QED
    BY <2>2, <2>3, <2>4 DEF Owns, Inside, NoLock
<1>4. CASE Inspects(p)
  BY <1>4, InsertersAssumption DEF Inspects, Goes, lockVars, stateVars,
     InsertTypeOK, SeenAreDead, OwnersOwn, Owns, NoLock, Steps, Inside
<1>5. CASE GivesUp(p)
  BY <1>5, InsertersAssumption DEF GivesUp, Goes, lockVars, stateVars, Ends,
     InsertTypeOK, SeenAreDead, OwnersOwn, Owns, NoLock, Steps, Inside
<1>6. CASE Rechecks(p)
  BY <1>6, InsertersAssumption DEF Rechecks, Goes, lockVars, stateVars,
     InsertTypeOK, SeenAreDead, OwnersOwn, Owns, NoLock, Steps, Inside
<1>7. CASE Claims(p)
  <2>1. SUFFICES ASSUME ~displaced', NEW q \in Inserters PROVE Owns(q)'
    BY DEF OwnersOwn
  <2>2. /\ ~displaced /\ lockFile \in {NoLock, lockSeen[p]} /\ ~OutlivedByOwner
        /\ at[p] = "claims" /\ lockFile' = NoLock /\ at' = [at EXCEPT ![p] = "opens"]
    BY <1>7, <2>1 DEF Claims, Goes
  <2>3. Owns(q) /\ at[q] # "writes" /\ at[q] \notin Inside
    <3>1. Owns(q)
      BY <2>2 DEF OwnersOwn
    <3>2. at[q] = "writes" => OutlivedByOwner
      BY <3>1 DEF Owns, OutlivedByOwner
    <3>3. ASSUME at[q] \in Inside PROVE FALSE
      <4>1. lockFile = [by |-> q, written |-> TRUE]
        BY <3>1, <3>3 DEF Owns
      <4>2. lockFile # NoLock
        BY <4>1 DEF NoLock
      <4>3. pidOf[q] # "itself"
        BY <2>2, <4>1, <4>2 DEF SeenAreDead
      <4> QED
        BY <3>3, <4>3 DEF SeenAreDead, Inside
    <3> QED
      BY <2>2, <3>1, <3>2, <3>3
  <2>4. at'[q] \in {at[q], "opens"}
    BY <2>2 DEF InsertTypeOK
  <2> QED
    BY <2>3, <2>4 DEF Owns, Inside
<1>8. CASE ReadsState(p)
  BY <1>8, InsertersAssumption DEF ReadsState, Goes, lockVars, stateVars,
     InsertTypeOK, SeenAreDead, OwnersOwn, Owns, NoLock, Steps, Inside
<1>9. CASE Prepares(p)
  BY <1>9, InsertersAssumption DEF Prepares, Goes, lockVars, stateVars,
     InsertTypeOK, SeenAreDead, OwnersOwn, Owns, NoLock, Steps, Inside
<1>10. CASE Reserves(p)
  BY <1>10, InsertersAssumption DEF Reserves, Goes, lockVars, stateVars, Entry,
     Writes, WriteFails, InsertTypeOK, SeenAreDead, OwnersOwn, Owns, NoLock,
     Steps, Inside
<1>11. CASE SetsClipboard(p)
  BY <1>11, InsertersAssumption DEF SetsClipboard, Goes, lockVars, stateVars,
     InsertTypeOK, SeenAreDead, OwnersOwn, Owns, NoLock, Steps, Inside
<1>12. CASE Pastes(p)
  BY <1>12, InsertersAssumption DEF Pastes, Goes, lockVars, stateVars,
     InsertTypeOK, SeenAreDead, OwnersOwn, Owns, NoLock, Steps, Inside
<1>13. CASE Commits(p)
  BY <1>13, InsertersAssumption DEF Commits, Goes, lockVars, stateVars, Entry,
     Writes, WriteFails, InsertTypeOK, SeenAreDead, OwnersOwn, Owns, NoLock,
     Steps, Inside
<1>14. CASE FallsBack(p)
  BY <1>14, InsertersAssumption DEF FallsBack, Goes, lockVars, stateVars, Entry,
     Writes, WriteFails, Unquarantined, InsertTypeOK, SeenAreDead, OwnersOwn,
     Owns, NoLock, Steps, Inside
<1>15. CASE Refreshes(p)
  BY <1>15, InsertersAssumption DEF Refreshes, Goes, lockVars, stateVars, Entry,
     Writes, WriteFails, InsertTypeOK, SeenAreDead, OwnersOwn, Owns, NoLock,
     Steps, Inside
<1>16. CASE Restores(p)
  BY <1>16, InsertersAssumption DEF Restores, Goes, lockVars, stateVars,
     InsertTypeOK, SeenAreDead, OwnersOwn, Owns, NoLock, Steps, Inside
<1>17. CASE Releases(p)
  BY <1>17, InsertersAssumption DEF Releases, Goes, lockVars, stateVars,
     InsertTypeOK, SeenAreDead, OwnersOwn, Owns, NoLock, Steps, Inside
<1>18. CASE Killed(p)
  BY <1>18, InsertersAssumption DEF Killed, Goes, lockVars, stateVars, Ends,
     InsertTypeOK, SeenAreDead, OwnersOwn, Owns, NoLock, Steps, Inside
<1> QED
  BY <1>1, <1>2, <1>3, <1>4, <1>5, <1>6, <1>7, <1>8, <1>9, <1>10, <1>11, <1>12,
     <1>13, <1>14, <1>15, <1>16, <1>17, <1>18 DEF InsertStep

LEMMA SeenKept ==
    ASSUME InsertTypeOK, SeenAreDead, OwnersOwn, NEW p \in Inserters,
       InsertStep(p)
    PROVE  SeenAreDead'
<1>1. CASE DeclinesPaste(p)
  BY <1>1, InsertersAssumption DEF DeclinesPaste, Goes, lockVars, stateVars, Ends,
     InsertTypeOK, SeenAreDead, NoLock, Stale, Steps
<1>2. CASE Creates(p)
  BY <1>2, InsertersAssumption DEF Creates, Goes, lockVars, stateVars,
     InsertTypeOK, SeenAreDead, NoLock, Stale, Steps
<1>3. CASE WritesPid(p)
  BY <1>3, InsertersAssumption DEF WritesPid, Goes, lockVars, stateVars,
     InsertTypeOK, SeenAreDead, NoLock, Stale, Steps
<1>4. CASE Inspects(p)
  BY <1>4, InsertersAssumption DEF Inspects, Goes, lockVars, stateVars,
     InsertTypeOK, SeenAreDead, NoLock, Stale, Steps
<1>5. CASE GivesUp(p)
  BY <1>5, InsertersAssumption DEF GivesUp, Goes, lockVars, stateVars, Ends,
     InsertTypeOK, SeenAreDead, NoLock, Stale, Steps
<1>6. CASE Rechecks(p)
  BY <1>6, InsertersAssumption DEF Rechecks, Goes, lockVars, stateVars,
     InsertTypeOK, SeenAreDead, NoLock, Stale, Steps
<1>7. CASE Claims(p)
  BY <1>7, InsertersAssumption DEF Claims, Goes, lockVars, stateVars,
     OutlivedByOwner, InsertTypeOK, SeenAreDead, NoLock, Stale, Steps
<1>8. CASE ReadsState(p)
  BY <1>8, InsertersAssumption DEF ReadsState, Goes, lockVars, stateVars,
     InsertTypeOK, SeenAreDead, NoLock, Stale, Steps
<1>9. CASE Prepares(p)
  BY <1>9, InsertersAssumption DEF Prepares, Goes, lockVars, stateVars,
     InsertTypeOK, SeenAreDead, NoLock, Stale, Steps
<1>10. CASE Reserves(p)
  BY <1>10, InsertersAssumption DEF Reserves, Goes, lockVars, stateVars, Entry,
     Writes, WriteFails, InsertTypeOK, SeenAreDead, NoLock, Stale, Steps
<1>11. CASE SetsClipboard(p)
  BY <1>11, InsertersAssumption DEF SetsClipboard, Goes, lockVars, stateVars,
     InsertTypeOK, SeenAreDead, NoLock, Stale, Steps
<1>12. CASE Pastes(p)
  BY <1>12, InsertersAssumption DEF Pastes, Goes, lockVars, stateVars,
     InsertTypeOK, SeenAreDead, NoLock, Stale, Steps
<1>13. CASE Commits(p)
  BY <1>13, InsertersAssumption DEF Commits, Goes, lockVars, stateVars, Entry,
     Writes, WriteFails, InsertTypeOK, SeenAreDead, NoLock, Stale, Steps
<1>14. CASE FallsBack(p)
  BY <1>14, InsertersAssumption DEF FallsBack, Goes, lockVars, stateVars, Entry,
     Writes, WriteFails, Unquarantined, InsertTypeOK, SeenAreDead, NoLock, Stale,
     Steps
<1>15. CASE Refreshes(p)
  BY <1>15, InsertersAssumption DEF Refreshes, Goes, lockVars, stateVars, Entry,
     Writes, WriteFails, InsertTypeOK, SeenAreDead, NoLock, Stale, Steps
<1>16. CASE Restores(p)
  BY <1>16, InsertersAssumption DEF Restores, Goes, lockVars, stateVars,
     InsertTypeOK, SeenAreDead, NoLock, Stale, Steps
<1>17. CASE Releases(p)
  BY <1>17, InsertersAssumption DEF Releases, Goes, lockVars, stateVars,
     InsertTypeOK, SeenAreDead, NoLock, Stale, Steps
<1>18. CASE Killed(p)
  BY <1>18, InsertersAssumption DEF Killed, Goes, lockVars, stateVars, Ends,
     InsertTypeOK, SeenAreDead, NoLock, Stale, Steps
<1> QED
  BY <1>1, <1>2, <1>3, <1>4, <1>5, <1>6, <1>7, <1>8, <1>9, <1>10, <1>11, <1>12,
     <1>13, <1>14, <1>15, <1>16, <1>17, <1>18 DEF InsertStep

LEMMA ReservedKept ==
    ASSUME InsertTypeOK, ReservedInTime, NEW p \in Inserters, InsertStep(p)
    PROVE  ReservedInTime'
<1>1. CASE DeclinesPaste(p)
  BY <1>1 DEF DeclinesPaste, Goes, lockVars, stateVars, Ends, InsertTypeOK,
     ReservedInTime, Reserving, Unreserved, Context
<1>2. CASE Creates(p)
  BY <1>2 DEF Creates, Goes, lockVars, stateVars, InsertTypeOK, ReservedInTime,
     Reserving, Unreserved, Context
<1>3. CASE WritesPid(p)
  BY <1>3 DEF WritesPid, Goes, lockVars, stateVars, InsertTypeOK, ReservedInTime,
     Reserving, Unreserved, Context
<1>4. CASE Inspects(p)
  BY <1>4 DEF Inspects, Goes, lockVars, stateVars, InsertTypeOK, ReservedInTime,
     Reserving, Unreserved, Context
<1>5. CASE GivesUp(p)
  BY <1>5 DEF GivesUp, Goes, lockVars, stateVars, Ends, InsertTypeOK,
     ReservedInTime, Reserving, Unreserved, Context
<1>6. CASE Rechecks(p)
  BY <1>6 DEF Rechecks, Goes, lockVars, stateVars, InsertTypeOK, ReservedInTime,
     Reserving, Unreserved, Context
<1>7. CASE Claims(p)
  BY <1>7 DEF Claims, Goes, lockVars, stateVars, OutlivedByOwner, InsertTypeOK,
     ReservedInTime, Reserving, Unreserved, Context
<1>8. CASE ReadsState(p)
  BY <1>8 DEF ReadsState, Goes, lockVars, stateVars, InsertTypeOK, ReservedInTime,
     Reserving, Unreserved, Context
<1>9. CASE Prepares(p)
  BY <1>9 DEF Prepares, Goes, lockVars, stateVars, InsertTypeOK, ReservedInTime,
     Reserving, Unreserved, Context
<1>10. CASE Reserves(p)
  BY <1>10 DEF Reserves, Goes, lockVars, stateVars, Entry, Writes, WriteFails,
     InsertTypeOK, ReservedInTime, Reserving, Unreserved, Context
<1>11. CASE SetsClipboard(p)
  BY <1>11 DEF SetsClipboard, Goes, lockVars, stateVars, InsertTypeOK,
     ReservedInTime, Reserving, Unreserved, Context
<1>12. CASE Pastes(p)
  BY <1>12 DEF Pastes, Goes, lockVars, stateVars, InsertTypeOK, ReservedInTime,
     Reserving, Unreserved, Context
<1>13. CASE Commits(p)
  BY <1>13 DEF Commits, Goes, lockVars, stateVars, Entry, Writes, WriteFails,
     InsertTypeOK, ReservedInTime, Reserving, Unreserved, Context
<1>14. CASE FallsBack(p)
  BY <1>14 DEF FallsBack, Goes, lockVars, stateVars, Entry, Writes, WriteFails,
     Unquarantined, InsertTypeOK, ReservedInTime, Reserving, Unreserved, Context
<1>15. CASE Refreshes(p)
  BY <1>15 DEF Refreshes, Goes, lockVars, stateVars, Entry, Writes, WriteFails,
     InsertTypeOK, ReservedInTime, Reserving, Unreserved, Context
<1>16. CASE Restores(p)
  BY <1>16 DEF Restores, Goes, lockVars, stateVars, InsertTypeOK, ReservedInTime,
     Reserving, Unreserved, Context
<1>17. CASE Releases(p)
  BY <1>17 DEF Releases, Goes, lockVars, stateVars, InsertTypeOK, ReservedInTime,
     Reserving, Unreserved, Context
<1>18. CASE Killed(p)
  BY <1>18 DEF Killed, Goes, lockVars, stateVars, Ends, InsertTypeOK,
     ReservedInTime, Reserving, Unreserved, Context
<1> QED
  BY <1>1, <1>2, <1>3, <1>4, <1>5, <1>6, <1>7, <1>8, <1>9, <1>10, <1>11, <1>12,
     <1>13, <1>14, <1>15, <1>16, <1>17, <1>18 DEF InsertStep

LEMMA LatestKept ==
    ASSUME InsertTypeOK, OwnersOwn, ReservedInTime, InsideIsLatest, NEW p \in
       Inserters, InsertStep(p)
    PROVE  InsideIsLatest'
<1>1. CASE DeclinesPaste(p)
  BY <1>1 DEF DeclinesPaste, Goes, lockVars, stateVars, Ends, InsertTypeOK,
     OwnersOwn, Owns, ReservedInTime, InsideIsLatest, Reserving, Unreserved,
     Inside, Context
<1>2. CASE Creates(p)
  BY <1>2 DEF Creates, Goes, lockVars, stateVars, InsertTypeOK, OwnersOwn, Owns,
     ReservedInTime, InsideIsLatest, Reserving, Unreserved, Inside, Context
<1>3. CASE WritesPid(p)
  BY <1>3 DEF WritesPid, Goes, lockVars, stateVars, InsertTypeOK, OwnersOwn, Owns,
     ReservedInTime, InsideIsLatest, Reserving, Unreserved, Inside, Context
<1>4. CASE Inspects(p)
  BY <1>4 DEF Inspects, Goes, lockVars, stateVars, InsertTypeOK, OwnersOwn, Owns,
     ReservedInTime, InsideIsLatest, Reserving, Unreserved, Inside, Context
<1>5. CASE GivesUp(p)
  BY <1>5 DEF GivesUp, Goes, lockVars, stateVars, Ends, InsertTypeOK, OwnersOwn,
     Owns, ReservedInTime, InsideIsLatest, Reserving, Unreserved, Inside, Context
<1>6. CASE Rechecks(p)
  BY <1>6 DEF Rechecks, Goes, lockVars, stateVars, InsertTypeOK, OwnersOwn, Owns,
     ReservedInTime, InsideIsLatest, Reserving, Unreserved, Inside, Context
<1>7. CASE Claims(p)
  BY <1>7 DEF Claims, Goes, lockVars, stateVars, OutlivedByOwner, InsertTypeOK,
     OwnersOwn, Owns, ReservedInTime, InsideIsLatest, Reserving, Unreserved,
     Inside, Context
<1>8. CASE ReadsState(p)
  BY <1>8 DEF ReadsState, Goes, lockVars, stateVars, InsertTypeOK, OwnersOwn,
     Owns, ReservedInTime, InsideIsLatest, Reserving, Unreserved, Inside, Context
<1>9. CASE Prepares(p)
  BY <1>9 DEF Prepares, Goes, lockVars, stateVars, InsertTypeOK, OwnersOwn, Owns,
     ReservedInTime, InsideIsLatest, Reserving, Unreserved, Inside, Context
<1>10. CASE Reserves(p)
  BY <1>10 DEF Reserves, Goes, lockVars, stateVars, Entry, Writes, WriteFails,
     InsertTypeOK, OwnersOwn, Owns, ReservedInTime, InsideIsLatest, Reserving,
     Unreserved, Inside, Context
<1>11. CASE SetsClipboard(p)
  BY <1>11 DEF SetsClipboard, Goes, lockVars, stateVars, InsertTypeOK, OwnersOwn,
     Owns, ReservedInTime, InsideIsLatest, Reserving, Unreserved, Inside, Context
<1>12. CASE Pastes(p)
  BY <1>12 DEF Pastes, Goes, lockVars, stateVars, InsertTypeOK, OwnersOwn, Owns,
     ReservedInTime, InsideIsLatest, Reserving, Unreserved, Inside, Context
<1>13. CASE Commits(p)
  BY <1>13 DEF Commits, Goes, lockVars, stateVars, Entry, Writes, WriteFails,
     InsertTypeOK, OwnersOwn, Owns, ReservedInTime, InsideIsLatest, Reserving,
     Unreserved, Inside, Context
<1>14. CASE FallsBack(p)
  BY <1>14 DEF FallsBack, Goes, lockVars, stateVars, Entry, Writes, WriteFails,
     Unquarantined, InsertTypeOK, OwnersOwn, Owns, ReservedInTime, InsideIsLatest,
     Reserving, Unreserved, Inside, Context
<1>15. CASE Refreshes(p)
  BY <1>15 DEF Refreshes, Goes, lockVars, stateVars, Entry, Writes, WriteFails,
     InsertTypeOK, OwnersOwn, Owns, ReservedInTime, InsideIsLatest, Reserving,
     Unreserved, Inside, Context
<1>16. CASE Restores(p)
  BY <1>16 DEF Restores, Goes, lockVars, stateVars, InsertTypeOK, OwnersOwn, Owns,
     ReservedInTime, InsideIsLatest, Reserving, Unreserved, Inside, Context
<1>17. CASE Releases(p)
  BY <1>17 DEF Releases, Goes, lockVars, stateVars, InsertTypeOK, OwnersOwn, Owns,
     ReservedInTime, InsideIsLatest, Reserving, Unreserved, Inside, Context
<1>18. CASE Killed(p)
  BY <1>18 DEF Killed, Goes, lockVars, stateVars, Ends, InsertTypeOK, OwnersOwn,
     Owns, ReservedInTime, InsideIsLatest, Reserving, Unreserved, Inside, Context
<1> QED
  BY <1>1, <1>2, <1>3, <1>4, <1>5, <1>6, <1>7, <1>8, <1>9, <1>10, <1>11, <1>12,
     <1>13, <1>14, <1>15, <1>16, <1>17, <1>18 DEF InsertStep

LEMMA OwnKept ==
    ASSUME InsertTypeOK, OwnersOwn, ReservedInTime, OwnEntry, NEW p \in Inserters,
       InsertStep(p)
    PROVE  OwnEntry'
<1>1. CASE DeclinesPaste(p)
  BY <1>1 DEF DeclinesPaste, Goes, lockVars, stateVars, Ends, InsertTypeOK,
     OwnersOwn, Owns, ReservedInTime, OwnEntry, Reserving, Unreserved, Inside,
     Context
<1>2. CASE Creates(p)
  BY <1>2 DEF Creates, Goes, lockVars, stateVars, InsertTypeOK, OwnersOwn, Owns,
     ReservedInTime, OwnEntry, Reserving, Unreserved, Inside, Context
<1>3. CASE WritesPid(p)
  BY <1>3 DEF WritesPid, Goes, lockVars, stateVars, InsertTypeOK, OwnersOwn, Owns,
     ReservedInTime, OwnEntry, Reserving, Unreserved, Inside, Context
<1>4. CASE Inspects(p)
  BY <1>4 DEF Inspects, Goes, lockVars, stateVars, InsertTypeOK, OwnersOwn, Owns,
     ReservedInTime, OwnEntry, Reserving, Unreserved, Inside, Context
<1>5. CASE GivesUp(p)
  BY <1>5 DEF GivesUp, Goes, lockVars, stateVars, Ends, InsertTypeOK, OwnersOwn,
     Owns, ReservedInTime, OwnEntry, Reserving, Unreserved, Inside, Context
<1>6. CASE Rechecks(p)
  BY <1>6 DEF Rechecks, Goes, lockVars, stateVars, InsertTypeOK, OwnersOwn, Owns,
     ReservedInTime, OwnEntry, Reserving, Unreserved, Inside, Context
<1>7. CASE Claims(p)
  BY <1>7 DEF Claims, Goes, lockVars, stateVars, OutlivedByOwner, InsertTypeOK,
     OwnersOwn, Owns, ReservedInTime, OwnEntry, Reserving, Unreserved, Inside,
     Context
<1>8. CASE ReadsState(p)
  BY <1>8 DEF ReadsState, Goes, lockVars, stateVars, InsertTypeOK, OwnersOwn,
     Owns, ReservedInTime, OwnEntry, Reserving, Unreserved, Inside, Context
<1>9. CASE Prepares(p)
  BY <1>9 DEF Prepares, Goes, lockVars, stateVars, InsertTypeOK, OwnersOwn, Owns,
     ReservedInTime, OwnEntry, Reserving, Unreserved, Inside, Context
<1>10. CASE Reserves(p)
  BY <1>10 DEF Reserves, Goes, lockVars, stateVars, Entry, Writes, WriteFails,
     InsertTypeOK, OwnersOwn, Owns, ReservedInTime, OwnEntry, Reserving,
     Unreserved, Inside, Context
<1>11. CASE SetsClipboard(p)
  BY <1>11 DEF SetsClipboard, Goes, lockVars, stateVars, InsertTypeOK, OwnersOwn,
     Owns, ReservedInTime, OwnEntry, Reserving, Unreserved, Inside, Context
<1>12. CASE Pastes(p)
  BY <1>12 DEF Pastes, Goes, lockVars, stateVars, InsertTypeOK, OwnersOwn, Owns,
     ReservedInTime, OwnEntry, Reserving, Unreserved, Inside, Context
<1>13. CASE Commits(p)
  <2> SUFFICES ASSUME ~displaced', NEW q \in Inserters, at'[q] \in {"sets", "pastes"} PROVE FALSE
    BY DEF OwnEntry
  <2>1. at[p] = "commits" /\ at'[p] \in {"releases", "refreshes"} /\ ~displaced
        /\ \A r \in Inserters \ {p} : at'[r] = at[r]
    BY <1>13 DEF Commits, Goes, lockVars, InsertTypeOK
  <2>2. at[q] \in {"sets", "pastes"} /\ q # p
    BY <2>1
  <2> QED
    BY <2>1, <2>2 DEF OwnersOwn, Owns, Inside
<1>14. CASE FallsBack(p)
  BY <1>14 DEF FallsBack, Goes, lockVars, stateVars, Entry, Writes, WriteFails,
     Unquarantined, InsertTypeOK, OwnersOwn, Owns, ReservedInTime, OwnEntry,
     Reserving, Unreserved, Inside, Context
<1>15. CASE Refreshes(p)
  BY <1>15 DEF Refreshes, Goes, lockVars, stateVars, Entry, Writes, WriteFails,
     InsertTypeOK, OwnersOwn, Owns, ReservedInTime, OwnEntry, Reserving,
     Unreserved, Inside, Context
<1>16. CASE Restores(p)
  BY <1>16 DEF Restores, Goes, lockVars, stateVars, InsertTypeOK, OwnersOwn, Owns,
     ReservedInTime, OwnEntry, Reserving, Unreserved, Inside, Context
<1>17. CASE Releases(p)
  BY <1>17 DEF Releases, Goes, lockVars, stateVars, InsertTypeOK, OwnersOwn, Owns,
     ReservedInTime, OwnEntry, Reserving, Unreserved, Inside, Context
<1>18. CASE Killed(p)
  BY <1>18 DEF Killed, Goes, lockVars, stateVars, Ends, InsertTypeOK, OwnersOwn,
     Owns, ReservedInTime, OwnEntry, Reserving, Unreserved, Inside, Context
<1> QED
  BY <1>1, <1>2, <1>3, <1>4, <1>5, <1>6, <1>7, <1>8, <1>9, <1>10, <1>11, <1>12,
     <1>13, <1>14, <1>15, <1>16, <1>17, <1>18 DEF InsertStep

LEMMA SeesKept ==
    ASSUME InsertTypeOK, OwnersOwn, ReservedInTime, SeesEntry, NEW p \in
       Inserters, InsertStep(p)
    PROVE  SeesEntry'
<1>1. CASE DeclinesPaste(p)
  BY <1>1 DEF DeclinesPaste, Goes, lockVars, stateVars, Ends, InsertTypeOK,
     OwnersOwn, Owns, ReservedInTime, SeesEntry, Reserving, Unreserved, Inside,
     Context
<1>2. CASE Creates(p)
  BY <1>2 DEF Creates, Goes, lockVars, stateVars, InsertTypeOK, OwnersOwn, Owns,
     ReservedInTime, SeesEntry, Reserving, Unreserved, Inside, Context
<1>3. CASE WritesPid(p)
  BY <1>3 DEF WritesPid, Goes, lockVars, stateVars, InsertTypeOK, OwnersOwn, Owns,
     ReservedInTime, SeesEntry, Reserving, Unreserved, Inside, Context
<1>4. CASE Inspects(p)
  BY <1>4 DEF Inspects, Goes, lockVars, stateVars, InsertTypeOK, OwnersOwn, Owns,
     ReservedInTime, SeesEntry, Reserving, Unreserved, Inside, Context
<1>5. CASE GivesUp(p)
  BY <1>5 DEF GivesUp, Goes, lockVars, stateVars, Ends, InsertTypeOK, OwnersOwn,
     Owns, ReservedInTime, SeesEntry, Reserving, Unreserved, Inside, Context
<1>6. CASE Rechecks(p)
  BY <1>6 DEF Rechecks, Goes, lockVars, stateVars, InsertTypeOK, OwnersOwn, Owns,
     ReservedInTime, SeesEntry, Reserving, Unreserved, Inside, Context
<1>7. CASE Claims(p)
  BY <1>7 DEF Claims, Goes, lockVars, stateVars, OutlivedByOwner, InsertTypeOK,
     OwnersOwn, Owns, ReservedInTime, SeesEntry, Reserving, Unreserved, Inside,
     Context
<1>8. CASE ReadsState(p)
  BY <1>8 DEF ReadsState, Goes, lockVars, stateVars, InsertTypeOK, OwnersOwn,
     Owns, ReservedInTime, SeesEntry, Reserving, Unreserved, Inside, Context
<1>9. CASE Prepares(p)
  BY <1>9 DEF Prepares, Goes, lockVars, stateVars, InsertTypeOK, OwnersOwn, Owns,
     ReservedInTime, SeesEntry, Reserving, Unreserved, Inside, Context
<1>10. CASE Reserves(p)
  BY <1>10 DEF Reserves, Goes, lockVars, stateVars, Entry, Writes, WriteFails,
     InsertTypeOK, OwnersOwn, Owns, ReservedInTime, SeesEntry, Reserving,
     Unreserved, Inside, Context
<1>11. CASE SetsClipboard(p)
  BY <1>11 DEF SetsClipboard, Goes, lockVars, stateVars, InsertTypeOK, OwnersOwn,
     Owns, ReservedInTime, SeesEntry, Reserving, Unreserved, Inside, Context
<1>12. CASE Pastes(p)
  BY <1>12 DEF Pastes, Goes, lockVars, stateVars, InsertTypeOK, OwnersOwn, Owns,
     ReservedInTime, SeesEntry, Reserving, Unreserved, Inside, Context
<1>13. CASE Commits(p)
  BY <1>13 DEF Commits, Goes, lockVars, stateVars, Entry, Writes, WriteFails,
     InsertTypeOK, OwnersOwn, Owns, ReservedInTime, SeesEntry, Reserving,
     Unreserved, Inside, Context
<1>14. CASE FallsBack(p)
  BY <1>14 DEF FallsBack, Goes, lockVars, stateVars, Entry, Writes, WriteFails,
     Unquarantined, InsertTypeOK, OwnersOwn, Owns, ReservedInTime, SeesEntry,
     Reserving, Unreserved, Inside, Context
<1>15. CASE Refreshes(p)
  BY <1>15 DEF Refreshes, Goes, lockVars, stateVars, Entry, Writes, WriteFails,
     InsertTypeOK, OwnersOwn, Owns, ReservedInTime, SeesEntry, Reserving,
     Unreserved, Inside, Context
<1>16. CASE Restores(p)
  BY <1>16 DEF Restores, Goes, lockVars, stateVars, InsertTypeOK, OwnersOwn, Owns,
     ReservedInTime, SeesEntry, Reserving, Unreserved, Inside, Context
<1>17. CASE Releases(p)
  BY <1>17 DEF Releases, Goes, lockVars, stateVars, InsertTypeOK, OwnersOwn, Owns,
     ReservedInTime, SeesEntry, Reserving, Unreserved, Inside, Context
<1>18. CASE Killed(p)
  BY <1>18 DEF Killed, Goes, lockVars, stateVars, Ends, InsertTypeOK, OwnersOwn,
     Owns, ReservedInTime, SeesEntry, Reserving, Unreserved, Inside, Context
<1> QED
  BY <1>1, <1>2, <1>3, <1>4, <1>5, <1>6, <1>7, <1>8, <1>9, <1>10, <1>11, <1>12,
     <1>13, <1>14, <1>15, <1>16, <1>17, <1>18 DEF InsertStep

LEMMA WindowsKept ==
    ASSUME InsertTypeOK, WindowsArePasted, NEW p \in Inserters, InsertStep(p)
    PROVE  WindowsArePasted'
<1>1. CASE DeclinesPaste(p)
  BY <1>1 DEF DeclinesPaste, Goes, lockVars, stateVars, Ends, InsertTypeOK,
     WindowsArePasted, Context
<1>2. CASE Creates(p)
  BY <1>2 DEF Creates, Goes, lockVars, stateVars, InsertTypeOK, WindowsArePasted,
     Context
<1>3. CASE WritesPid(p)
  BY <1>3 DEF WritesPid, Goes, lockVars, stateVars, InsertTypeOK,
     WindowsArePasted, Context
<1>4. CASE Inspects(p)
  BY <1>4 DEF Inspects, Goes, lockVars, stateVars, InsertTypeOK, WindowsArePasted,
     Context
<1>5. CASE GivesUp(p)
  BY <1>5 DEF GivesUp, Goes, lockVars, stateVars, Ends, InsertTypeOK,
     WindowsArePasted, Context
<1>6. CASE Rechecks(p)
  BY <1>6 DEF Rechecks, Goes, lockVars, stateVars, InsertTypeOK, WindowsArePasted,
     Context
<1>7. CASE Claims(p)
  BY <1>7 DEF Claims, Goes, lockVars, stateVars, OutlivedByOwner, InsertTypeOK,
     WindowsArePasted, Context
<1>8. CASE ReadsState(p)
  BY <1>8 DEF ReadsState, Goes, lockVars, stateVars, InsertTypeOK,
     WindowsArePasted, Context
<1>9. CASE Prepares(p)
  BY <1>9 DEF Prepares, Goes, lockVars, stateVars, InsertTypeOK, WindowsArePasted,
     Context
<1>10. CASE Reserves(p)
  BY <1>10 DEF Reserves, Goes, lockVars, stateVars, Entry, Writes, WriteFails,
     InsertTypeOK, WindowsArePasted, Context
<1>11. CASE SetsClipboard(p)
  BY <1>11 DEF SetsClipboard, Goes, lockVars, stateVars, InsertTypeOK,
     WindowsArePasted, Context
<1>12. CASE Pastes(p)
  BY <1>12 DEF Pastes, Goes, lockVars, stateVars, InsertTypeOK, WindowsArePasted,
     Context
<1>13. CASE Commits(p)
  BY <1>13 DEF Commits, Goes, lockVars, stateVars, Entry, Writes, WriteFails,
     InsertTypeOK, WindowsArePasted, Context
<1>14. CASE FallsBack(p)
  BY <1>14 DEF FallsBack, Goes, lockVars, stateVars, Entry, Writes, WriteFails,
     Unquarantined, InsertTypeOK, WindowsArePasted, Context
<1>15. CASE Refreshes(p)
  BY <1>15 DEF Refreshes, Goes, lockVars, stateVars, Entry, Writes, WriteFails,
     InsertTypeOK, WindowsArePasted, Context
<1>16. CASE Restores(p)
  BY <1>16 DEF Restores, Goes, lockVars, stateVars, InsertTypeOK,
     WindowsArePasted, Context
<1>17. CASE Releases(p)
  BY <1>17 DEF Releases, Goes, lockVars, stateVars, InsertTypeOK,
     WindowsArePasted, Context
<1>18. CASE Killed(p)
  BY <1>18 DEF Killed, Goes, lockVars, stateVars, Ends, InsertTypeOK,
     WindowsArePasted, Context
<1> QED
  BY <1>1, <1>2, <1>3, <1>4, <1>5, <1>6, <1>7, <1>8, <1>9, <1>10, <1>11, <1>12,
     <1>13, <1>14, <1>15, <1>16, <1>17, <1>18 DEF InsertStep

LEMMA PastesReservedKept ==
    ASSUME InsertTypeOK, ReservedInTime, WindowsArePasted, PastesAreReserved, NEW
       p \in Inserters, InsertStep(p)
    PROVE  PastesAreReserved'
<1>1. CASE DeclinesPaste(p)
  <2> SUFFICES ASSUME NEW i \in DOMAIN pastes
      PROVE  /\ at'[pastes[i].by] \in {"commits", "refreshes", "releases", "ended"}
             /\ pastes[i].by \notin windowless /\ reserved[pastes[i].by] # 0
             /\ reserved'[pastes[i].by] = reserved[pastes[i].by]
             /\ reserved[pastes[i].by] <= pastes[i].time /\ pastes[i].time <= clock
    BY <1>1 DEF PastesAreReserved, DeclinesPaste, stateVars, lockVars
  <2>1. pastes[i].by # p
    BY <1>1, PastersAre DEF DeclinesPaste
  <2> QED
    BY <1>1, <2>1, PastesTyped DEF PastesAreReserved, DeclinesPaste, Goes, Ends, InsertTypeOK
<1>2. CASE Creates(p)
  <2> SUFFICES ASSUME NEW i \in DOMAIN pastes
      PROVE  /\ at'[pastes[i].by] \in {"commits", "refreshes", "releases", "ended"}
             /\ pastes[i].by \notin windowless /\ reserved[pastes[i].by] # 0
             /\ reserved'[pastes[i].by] = reserved[pastes[i].by]
             /\ reserved[pastes[i].by] <= pastes[i].time /\ pastes[i].time <= clock
    BY <1>2 DEF PastesAreReserved, Creates, stateVars, lockVars
  <2>1. pastes[i].by # p
    BY <1>2, PastersAre DEF Creates
  <2> QED
    BY <1>2, <2>1, PastesTyped DEF PastesAreReserved, Creates, Goes, Ends, InsertTypeOK
<1>3. CASE WritesPid(p)
  <2> SUFFICES ASSUME NEW i \in DOMAIN pastes
      PROVE  /\ at'[pastes[i].by] \in {"commits", "refreshes", "releases", "ended"}
             /\ pastes[i].by \notin windowless /\ reserved[pastes[i].by] # 0
             /\ reserved'[pastes[i].by] = reserved[pastes[i].by]
             /\ reserved[pastes[i].by] <= pastes[i].time /\ pastes[i].time <= clock
    BY <1>3 DEF PastesAreReserved, WritesPid, stateVars, lockVars
  <2>1. pastes[i].by # p
    BY <1>3, PastersAre DEF WritesPid
  <2> QED
    BY <1>3, <2>1, PastesTyped DEF PastesAreReserved, WritesPid, Goes, Ends, InsertTypeOK
<1>4. CASE Inspects(p)
  <2> SUFFICES ASSUME NEW i \in DOMAIN pastes
      PROVE  /\ at'[pastes[i].by] \in {"commits", "refreshes", "releases", "ended"}
             /\ pastes[i].by \notin windowless /\ reserved[pastes[i].by] # 0
             /\ reserved'[pastes[i].by] = reserved[pastes[i].by]
             /\ reserved[pastes[i].by] <= pastes[i].time /\ pastes[i].time <= clock
    BY <1>4 DEF PastesAreReserved, Inspects, stateVars, lockVars
  <2>1. pastes[i].by # p
    BY <1>4, PastersAre DEF Inspects
  <2> QED
    BY <1>4, <2>1, PastesTyped DEF PastesAreReserved, Inspects, Goes, Ends, InsertTypeOK
<1>5. CASE GivesUp(p)
  <2> SUFFICES ASSUME NEW i \in DOMAIN pastes
      PROVE  /\ at'[pastes[i].by] \in {"commits", "refreshes", "releases", "ended"}
             /\ pastes[i].by \notin windowless /\ reserved[pastes[i].by] # 0
             /\ reserved'[pastes[i].by] = reserved[pastes[i].by]
             /\ reserved[pastes[i].by] <= pastes[i].time /\ pastes[i].time <= clock
    BY <1>5 DEF PastesAreReserved, GivesUp, stateVars, lockVars
  <2>1. pastes[i].by # p
    BY <1>5, PastersAre DEF GivesUp
  <2> QED
    BY <1>5, <2>1, PastesTyped DEF PastesAreReserved, GivesUp, Goes, Ends, InsertTypeOK
<1>6. CASE Rechecks(p)
  <2> SUFFICES ASSUME NEW i \in DOMAIN pastes
      PROVE  /\ at'[pastes[i].by] \in {"commits", "refreshes", "releases", "ended"}
             /\ pastes[i].by \notin windowless /\ reserved[pastes[i].by] # 0
             /\ reserved'[pastes[i].by] = reserved[pastes[i].by]
             /\ reserved[pastes[i].by] <= pastes[i].time /\ pastes[i].time <= clock
    BY <1>6 DEF PastesAreReserved, Rechecks, stateVars, lockVars
  <2>1. pastes[i].by # p
    BY <1>6, PastersAre DEF Rechecks
  <2> QED
    BY <1>6, <2>1, PastesTyped DEF PastesAreReserved, Rechecks, Goes, Ends, InsertTypeOK
<1>7. CASE Claims(p)
  <2> SUFFICES ASSUME NEW i \in DOMAIN pastes
      PROVE  /\ at'[pastes[i].by] \in {"commits", "refreshes", "releases", "ended"}
             /\ pastes[i].by \notin windowless /\ reserved[pastes[i].by] # 0
             /\ reserved'[pastes[i].by] = reserved[pastes[i].by]
             /\ reserved[pastes[i].by] <= pastes[i].time /\ pastes[i].time <= clock
    BY <1>7 DEF PastesAreReserved, Claims, stateVars, lockVars
  <2>1. pastes[i].by # p
    BY <1>7, PastersAre DEF Claims
  <2> QED
    BY <1>7, <2>1, PastesTyped DEF PastesAreReserved, Claims, Goes, Ends, InsertTypeOK
<1>8. CASE ReadsState(p)
  <2> SUFFICES ASSUME NEW i \in DOMAIN pastes
      PROVE  /\ at'[pastes[i].by] \in {"commits", "refreshes", "releases", "ended"}
             /\ pastes[i].by \notin windowless /\ reserved[pastes[i].by] # 0
             /\ reserved'[pastes[i].by] = reserved[pastes[i].by]
             /\ reserved[pastes[i].by] <= pastes[i].time /\ pastes[i].time <= clock
    BY <1>8 DEF PastesAreReserved, ReadsState, stateVars, lockVars
  <2>1. pastes[i].by # p
    BY <1>8, PastersAre DEF ReadsState
  <2> QED
    BY <1>8, <2>1, PastesTyped DEF PastesAreReserved, ReadsState, Goes, Ends, InsertTypeOK
<1>9. CASE Prepares(p)
  <2> SUFFICES ASSUME NEW i \in DOMAIN pastes
      PROVE  /\ at'[pastes[i].by] \in {"commits", "refreshes", "releases", "ended"}
             /\ pastes[i].by \notin windowless /\ reserved[pastes[i].by] # 0
             /\ reserved'[pastes[i].by] = reserved[pastes[i].by]
             /\ reserved[pastes[i].by] <= pastes[i].time /\ pastes[i].time <= clock
    BY <1>9 DEF PastesAreReserved, Prepares, stateVars, lockVars
  <2>1. pastes[i].by # p
    BY <1>9, PastersAre DEF Prepares
  <2> QED
    BY <1>9, <2>1, PastesTyped DEF PastesAreReserved, Prepares, Goes, Ends, InsertTypeOK
<1>10. CASE Reserves(p)
  <2> SUFFICES ASSUME NEW i \in DOMAIN pastes
      PROVE  /\ at'[pastes[i].by] \in {"commits", "refreshes", "releases", "ended"}
             /\ pastes[i].by \notin windowless /\ reserved[pastes[i].by] # 0
             /\ reserved'[pastes[i].by] = reserved[pastes[i].by]
             /\ reserved[pastes[i].by] <= pastes[i].time /\ pastes[i].time <= clock
    BY <1>10 DEF PastesAreReserved, Reserves, stateVars, lockVars
  <2>1. pastes[i].by # p
    BY <1>10, PastersAre DEF Reserves
  <2> QED
    BY <1>10, <2>1, PastesTyped DEF PastesAreReserved, Reserves, Goes, Ends, InsertTypeOK
<1>11. CASE SetsClipboard(p)
  <2> SUFFICES ASSUME NEW i \in DOMAIN pastes
      PROVE  /\ at'[pastes[i].by] \in {"commits", "refreshes", "releases", "ended"}
             /\ pastes[i].by \notin windowless /\ reserved[pastes[i].by] # 0
             /\ reserved'[pastes[i].by] = reserved[pastes[i].by]
             /\ reserved[pastes[i].by] <= pastes[i].time /\ pastes[i].time <= clock
    BY <1>11 DEF PastesAreReserved, SetsClipboard, stateVars, lockVars
  <2>1. pastes[i].by # p
    BY <1>11, PastersAre DEF SetsClipboard
  <2> QED
    BY <1>11, <2>1, PastesTyped DEF PastesAreReserved, SetsClipboard, Goes, Ends, InsertTypeOK
<1>12. CASE Pastes(p)
  <2>1. at[p] = "pastes" /\ UNCHANGED <<clock, windowless, reserved>>
    BY <1>12 DEF Pastes
  <2>2. \A i \in DOMAIN pastes : pastes[i].by # p
    BY <2>1, PastersAre
  <2>3. \A i \in DOMAIN pastes : at'[pastes[i].by] = at[pastes[i].by]
    BY <1>12, <2>2, PastesTyped DEF Pastes, Goes, InsertTypeOK
  <2>4. CASE pastes' = pastes
    BY <2>1, <2>3, <2>4 DEF PastesAreReserved
  <2>5. CASE pastes' = Append(pastes, [by |-> p, time |-> clock])
    <3>1. at'[p] \in {"commits", "refreshes"} /\ p \notin windowless /\ reserved[p] # 0
          /\ reserved[p] <= clock
      BY <1>12, <2>1, <2>5 DEF Pastes, Goes, InsertTypeOK, ReservedInTime, Reserving, WindowsArePasted
    <3> QED
      BY <2>1, <2>3, <2>5, <3>1, PasteAdded DEF PastesAreReserved, InsertTypeOK
  <2> QED
    BY <1>12, <2>4, <2>5 DEF Pastes
<1>13. CASE Commits(p)
  <2> SUFFICES ASSUME NEW i \in DOMAIN pastes
      PROVE  /\ at'[pastes[i].by] \in {"commits", "refreshes", "releases", "ended"}
             /\ pastes[i].by \notin windowless /\ reserved[pastes[i].by] # 0
             /\ reserved'[pastes[i].by] = reserved[pastes[i].by]
             /\ reserved[pastes[i].by] <= pastes[i].time /\ pastes[i].time <= clock
    BY <1>13 DEF PastesAreReserved, Commits, stateVars, lockVars
  <2>1. at'[pastes[i].by] \in {at[pastes[i].by], at'[p]} /\ at'[p] \in {"refreshes", "releases", "ended"}
    BY <1>13, PastesTyped DEF Commits, Goes, Ends, InsertTypeOK
  <2> QED
    BY <1>13, <2>1, PastesTyped DEF PastesAreReserved, Commits, Goes, Ends, InsertTypeOK
<1>14. CASE FallsBack(p)
  <2> SUFFICES ASSUME NEW i \in DOMAIN pastes
      PROVE  /\ at'[pastes[i].by] \in {"commits", "refreshes", "releases", "ended"}
             /\ pastes[i].by \notin windowless /\ reserved[pastes[i].by] # 0
             /\ reserved'[pastes[i].by] = reserved[pastes[i].by]
             /\ reserved[pastes[i].by] <= pastes[i].time /\ pastes[i].time <= clock
    BY <1>14 DEF PastesAreReserved, FallsBack, stateVars, lockVars
  <2>1. pastes[i].by # p
    BY <1>14, PastersAre DEF FallsBack
  <2> QED
    BY <1>14, <2>1, PastesTyped DEF PastesAreReserved, FallsBack, Goes, Ends, InsertTypeOK
<1>15. CASE Refreshes(p)
  <2> SUFFICES ASSUME NEW i \in DOMAIN pastes
      PROVE  /\ at'[pastes[i].by] \in {"commits", "refreshes", "releases", "ended"}
             /\ pastes[i].by \notin windowless /\ reserved[pastes[i].by] # 0
             /\ reserved'[pastes[i].by] = reserved[pastes[i].by]
             /\ reserved[pastes[i].by] <= pastes[i].time /\ pastes[i].time <= clock
    BY <1>15 DEF PastesAreReserved, Refreshes, stateVars, lockVars
  <2>1. at'[pastes[i].by] \in {at[pastes[i].by], at'[p]} /\ at'[p] \in {"refreshes", "releases", "ended"}
    BY <1>15, PastesTyped DEF Refreshes, Goes, Ends, InsertTypeOK
  <2> QED
    BY <1>15, <2>1, PastesTyped DEF PastesAreReserved, Refreshes, Goes, Ends, InsertTypeOK
<1>16. CASE Restores(p)
  <2> SUFFICES ASSUME NEW i \in DOMAIN pastes
      PROVE  /\ at'[pastes[i].by] \in {"commits", "refreshes", "releases", "ended"}
             /\ pastes[i].by \notin windowless /\ reserved[pastes[i].by] # 0
             /\ reserved'[pastes[i].by] = reserved[pastes[i].by]
             /\ reserved[pastes[i].by] <= pastes[i].time /\ pastes[i].time <= clock
    BY <1>16 DEF PastesAreReserved, Restores, stateVars, lockVars
  <2>1. pastes[i].by # p
    BY <1>16, PastersAre DEF Restores
  <2> QED
    BY <1>16, <2>1, PastesTyped DEF PastesAreReserved, Restores, Goes, Ends, InsertTypeOK
<1>17. CASE Releases(p)
  <2> SUFFICES ASSUME NEW i \in DOMAIN pastes
      PROVE  /\ at'[pastes[i].by] \in {"commits", "refreshes", "releases", "ended"}
             /\ pastes[i].by \notin windowless /\ reserved[pastes[i].by] # 0
             /\ reserved'[pastes[i].by] = reserved[pastes[i].by]
             /\ reserved[pastes[i].by] <= pastes[i].time /\ pastes[i].time <= clock
    BY <1>17 DEF PastesAreReserved, Releases, stateVars, lockVars
  <2>1. at'[pastes[i].by] \in {at[pastes[i].by], at'[p]} /\ at'[p] \in {"refreshes", "releases", "ended"}
    BY <1>17, PastesTyped DEF Releases, Goes, Ends, InsertTypeOK
  <2> QED
    BY <1>17, <2>1, PastesTyped DEF PastesAreReserved, Releases, Goes, Ends, InsertTypeOK
<1>18. CASE Killed(p)
  <2> SUFFICES ASSUME NEW i \in DOMAIN pastes
      PROVE  /\ at'[pastes[i].by] \in {"commits", "refreshes", "releases", "ended"}
             /\ pastes[i].by \notin windowless /\ reserved[pastes[i].by] # 0
             /\ reserved'[pastes[i].by] = reserved[pastes[i].by]
             /\ reserved[pastes[i].by] <= pastes[i].time /\ pastes[i].time <= clock
    BY <1>18 DEF PastesAreReserved, Killed, stateVars, lockVars
  <2>1. at'[pastes[i].by] \in {at[pastes[i].by], at'[p]} /\ at'[p] \in {"refreshes", "releases", "ended"}
    BY <1>18, PastesTyped DEF Killed, Goes, Ends, InsertTypeOK
  <2> QED
    BY <1>18, <2>1, PastesTyped DEF PastesAreReserved, Killed, Goes, Ends, InsertTypeOK
<1> QED
  BY <1>1, <1>2, <1>3, <1>4, <1>5, <1>6, <1>7, <1>8, <1>9, <1>10, <1>11, <1>12,
     <1>13, <1>14, <1>15, <1>16, <1>17, <1>18 DEF InsertStep

LEMMA PastesOnceKept ==
    ASSUME InsertTypeOK, PastesAreReserved, PastesOnce, NEW p \in Inserters,
       InsertStep(p)
    PROVE  PastesOnce'
<1>1. CASE DeclinesPaste(p)
  BY <1>1 DEF DeclinesPaste, Goes, lockVars, stateVars, Ends, PastesOnce
<1>2. CASE Creates(p)
  BY <1>2 DEF Creates, Goes, lockVars, stateVars, PastesOnce
<1>3. CASE WritesPid(p)
  BY <1>3 DEF WritesPid, Goes, lockVars, stateVars, PastesOnce
<1>4. CASE Inspects(p)
  BY <1>4 DEF Inspects, Goes, lockVars, stateVars, PastesOnce
<1>5. CASE GivesUp(p)
  BY <1>5 DEF GivesUp, Goes, lockVars, stateVars, Ends, PastesOnce
<1>6. CASE Rechecks(p)
  BY <1>6 DEF Rechecks, Goes, lockVars, stateVars, PastesOnce
<1>7. CASE Claims(p)
  BY <1>7 DEF Claims, Goes, lockVars, stateVars, OutlivedByOwner, PastesOnce
<1>8. CASE ReadsState(p)
  BY <1>8 DEF ReadsState, Goes, lockVars, stateVars, PastesOnce
<1>9. CASE Prepares(p)
  BY <1>9 DEF Prepares, Goes, lockVars, stateVars, PastesOnce
<1>10. CASE Reserves(p)
  BY <1>10 DEF Reserves, Goes, lockVars, stateVars, Entry, Writes, WriteFails,
     PastesOnce
<1>11. CASE SetsClipboard(p)
  BY <1>11 DEF SetsClipboard, Goes, lockVars, stateVars, PastesOnce
<1>12. CASE Pastes(p)
  <2>1. \A i \in DOMAIN pastes : pastes[i].by # p
    BY <1>12, PastersAre DEF Pastes
  <2>2. CASE pastes' = pastes
    BY <2>2 DEF PastesOnce
  <2>3. CASE pastes' = Append(pastes, [by |-> p, time |-> clock])
    BY <2>1, <2>3, PasteAdded DEF PastesOnce
  <2> QED
    BY <1>12, <2>2, <2>3 DEF Pastes
<1>13. CASE Commits(p)
  BY <1>13 DEF Commits, Goes, lockVars, stateVars, Entry, Writes, WriteFails,
     PastesOnce
<1>14. CASE FallsBack(p)
  BY <1>14 DEF FallsBack, Goes, lockVars, stateVars, Entry, Writes, WriteFails,
     Unquarantined, PastesOnce
<1>15. CASE Refreshes(p)
  BY <1>15 DEF Refreshes, Goes, lockVars, stateVars, Entry, Writes, WriteFails,
     PastesOnce
<1>16. CASE Restores(p)
  BY <1>16 DEF Restores, Goes, lockVars, stateVars, PastesOnce
<1>17. CASE Releases(p)
  BY <1>17 DEF Releases, Goes, lockVars, stateVars, PastesOnce
<1>18. CASE Killed(p)
  BY <1>18 DEF Killed, Goes, lockVars, stateVars, Ends, PastesOnce
<1> QED
  BY <1>1, <1>2, <1>3, <1>4, <1>5, <1>6, <1>7, <1>8, <1>9, <1>10, <1>11, <1>12,
     <1>13, <1>14, <1>15, <1>16, <1>17, <1>18 DEF InsertStep

LEMMA UnsureKept ==
    ASSUME InsertTypeOK, UnsureHaveEnded, NEW p \in Inserters, InsertStep(p)
    PROVE  UnsureHaveEnded'
<1>1. CASE DeclinesPaste(p)
  BY <1>1 DEF DeclinesPaste, Goes, lockVars, stateVars, Ends, InsertTypeOK,
     UnsureHaveEnded, Unsure, Context
<1>2. CASE Creates(p)
  BY <1>2 DEF Creates, Goes, lockVars, stateVars, InsertTypeOK, UnsureHaveEnded,
     Unsure, Context
<1>3. CASE WritesPid(p)
  BY <1>3 DEF WritesPid, Goes, lockVars, stateVars, InsertTypeOK, UnsureHaveEnded,
     Unsure, Context
<1>4. CASE Inspects(p)
  BY <1>4 DEF Inspects, Goes, lockVars, stateVars, InsertTypeOK, UnsureHaveEnded,
     Unsure, Context
<1>5. CASE GivesUp(p)
  BY <1>5 DEF GivesUp, Goes, lockVars, stateVars, Ends, InsertTypeOK,
     UnsureHaveEnded, Unsure, Context
<1>6. CASE Rechecks(p)
  BY <1>6 DEF Rechecks, Goes, lockVars, stateVars, InsertTypeOK, UnsureHaveEnded,
     Unsure, Context
<1>7. CASE Claims(p)
  BY <1>7 DEF Claims, Goes, lockVars, stateVars, OutlivedByOwner, InsertTypeOK,
     UnsureHaveEnded, Unsure, Context
<1>8. CASE ReadsState(p)
  BY <1>8 DEF ReadsState, Goes, lockVars, stateVars, InsertTypeOK,
     UnsureHaveEnded, Unsure, Context
<1>9. CASE Prepares(p)
  BY <1>9 DEF Prepares, Goes, lockVars, stateVars, InsertTypeOK, UnsureHaveEnded,
     Unsure, Context
<1>10. CASE Reserves(p)
  BY <1>10 DEF Reserves, Goes, lockVars, stateVars, Entry, Writes, WriteFails,
     InsertTypeOK, UnsureHaveEnded, Unsure, Context
<1>11. CASE SetsClipboard(p)
  BY <1>11 DEF SetsClipboard, Goes, lockVars, stateVars, InsertTypeOK,
     UnsureHaveEnded, Unsure, Context
<1>12. CASE Pastes(p)
  BY <1>12 DEF Pastes, Goes, lockVars, stateVars, InsertTypeOK, UnsureHaveEnded,
     Unsure, Context
<1>13. CASE Commits(p)
  BY <1>13 DEF Commits, Goes, lockVars, stateVars, Entry, Writes, WriteFails,
     InsertTypeOK, UnsureHaveEnded, Unsure, Context
<1>14. CASE FallsBack(p)
  BY <1>14 DEF FallsBack, Goes, lockVars, stateVars, Entry, Writes, WriteFails,
     Unquarantined, InsertTypeOK, UnsureHaveEnded, Unsure, Context
<1>15. CASE Refreshes(p)
  BY <1>15 DEF Refreshes, Goes, lockVars, stateVars, Entry, Writes, WriteFails,
     InsertTypeOK, UnsureHaveEnded, Unsure, Context
<1>16. CASE Restores(p)
  BY <1>16 DEF Restores, Goes, lockVars, stateVars, InsertTypeOK, UnsureHaveEnded,
     Unsure, Context
<1>17. CASE Releases(p)
  BY <1>17 DEF Releases, Goes, lockVars, stateVars, InsertTypeOK, UnsureHaveEnded,
     Unsure, Context
<1>18. CASE Killed(p)
  BY <1>18 DEF Killed, Goes, lockVars, stateVars, Ends, InsertTypeOK,
     UnsureHaveEnded, Unsure, Context
<1> QED
  BY <1>1, <1>2, <1>3, <1>4, <1>5, <1>6, <1>7, <1>8, <1>9, <1>10, <1>11, <1>12,
     <1>13, <1>14, <1>15, <1>16, <1>17, <1>18 DEF InsertStep

LEMMA EntryExplainedKept ==
    ASSUME InsertTypeOK, OwnersOwn, ReservedInTime, UnsureHaveEnded,
       EntryExplained, SeenExplained, NEW p \in Inserters, InsertStep(p)
    PROVE  EntryExplained'
<1>1. CASE DeclinesPaste(p)
  BY <1>1 DEF DeclinesPaste, Goes, lockVars, stateVars, Ends, InsertTypeOK,
     OwnersOwn, Owns, ReservedInTime, UnsureHaveEnded, EntryExplained,
     SeenExplained, Unsure, Reserving, Unreserved, Inside, Context, NoEntry
<1>2. CASE Creates(p)
  BY <1>2 DEF Creates, Goes, lockVars, stateVars, InsertTypeOK, OwnersOwn, Owns,
     ReservedInTime, UnsureHaveEnded, EntryExplained, SeenExplained, Unsure,
     Reserving, Unreserved, Inside, Context, NoEntry
<1>3. CASE WritesPid(p)
  BY <1>3 DEF WritesPid, Goes, lockVars, stateVars, InsertTypeOK, OwnersOwn, Owns,
     ReservedInTime, UnsureHaveEnded, EntryExplained, SeenExplained, Unsure,
     Reserving, Unreserved, Inside, Context, NoEntry
<1>4. CASE Inspects(p)
  BY <1>4 DEF Inspects, Goes, lockVars, stateVars, InsertTypeOK, OwnersOwn, Owns,
     ReservedInTime, UnsureHaveEnded, EntryExplained, SeenExplained, Unsure,
     Reserving, Unreserved, Inside, Context, NoEntry
<1>5. CASE GivesUp(p)
  BY <1>5 DEF GivesUp, Goes, lockVars, stateVars, Ends, InsertTypeOK, OwnersOwn,
     Owns, ReservedInTime, UnsureHaveEnded, EntryExplained, SeenExplained, Unsure,
     Reserving, Unreserved, Inside, Context, NoEntry
<1>6. CASE Rechecks(p)
  BY <1>6 DEF Rechecks, Goes, lockVars, stateVars, InsertTypeOK, OwnersOwn, Owns,
     ReservedInTime, UnsureHaveEnded, EntryExplained, SeenExplained, Unsure,
     Reserving, Unreserved, Inside, Context, NoEntry
<1>7. CASE Claims(p)
  BY <1>7 DEF Claims, Goes, lockVars, stateVars, OutlivedByOwner, InsertTypeOK,
     OwnersOwn, Owns, ReservedInTime, UnsureHaveEnded, EntryExplained,
     SeenExplained, Unsure, Reserving, Unreserved, Inside, Context, NoEntry
<1>8. CASE ReadsState(p)
  BY <1>8 DEF ReadsState, Goes, lockVars, stateVars, InsertTypeOK, OwnersOwn,
     Owns, ReservedInTime, UnsureHaveEnded, EntryExplained, SeenExplained, Unsure,
     Reserving, Unreserved, Inside, Context, NoEntry
<1>9. CASE Prepares(p)
  BY <1>9 DEF Prepares, Goes, lockVars, stateVars, InsertTypeOK, OwnersOwn, Owns,
     ReservedInTime, UnsureHaveEnded, EntryExplained, SeenExplained, Unsure,
     Reserving, Unreserved, Inside, Context, NoEntry
<1>10. CASE Reserves(p)
  BY <1>10 DEF Reserves, Goes, lockVars, stateVars, Entry, Writes, WriteFails,
     InsertTypeOK, OwnersOwn, Owns, ReservedInTime, UnsureHaveEnded,
     EntryExplained, SeenExplained, Unsure, Reserving, Unreserved, Inside,
     Context, NoEntry
<1>11. CASE SetsClipboard(p)
  BY <1>11 DEF SetsClipboard, Goes, lockVars, stateVars, InsertTypeOK, OwnersOwn,
     Owns, ReservedInTime, UnsureHaveEnded, EntryExplained, SeenExplained, Unsure,
     Reserving, Unreserved, Inside, Context, NoEntry
<1>12. CASE Pastes(p)
  BY <1>12 DEF Pastes, Goes, lockVars, stateVars, InsertTypeOK, OwnersOwn, Owns,
     ReservedInTime, UnsureHaveEnded, EntryExplained, SeenExplained, Unsure,
     Reserving, Unreserved, Inside, Context, NoEntry
<1>13. CASE Commits(p)
  BY <1>13 DEF Commits, Goes, lockVars, stateVars, Entry, Writes, WriteFails,
     InsertTypeOK, OwnersOwn, Owns, ReservedInTime, UnsureHaveEnded,
     EntryExplained, SeenExplained, Unsure, Reserving, Unreserved, Inside,
     Context, NoEntry
<1>14. CASE FallsBack(p)
  BY <1>14 DEF FallsBack, Goes, lockVars, stateVars, Entry, Writes, WriteFails,
     Unquarantined, InsertTypeOK, OwnersOwn, Owns, ReservedInTime,
     UnsureHaveEnded, EntryExplained, SeenExplained, Unsure, Reserving,
     Unreserved, Inside, Context, NoEntry
<1>15. CASE Refreshes(p)
  BY <1>15 DEF Refreshes, Goes, lockVars, stateVars, Entry, Writes, WriteFails,
     InsertTypeOK, OwnersOwn, Owns, ReservedInTime, UnsureHaveEnded,
     EntryExplained, SeenExplained, Unsure, Reserving, Unreserved, Inside,
     Context, NoEntry
<1>16. CASE Restores(p)
  <2> SUFFICES ASSUME ~displaced', entry'.pending PROVE EntryExplained'
    BY DEF EntryExplained
  <2>1. /\ at[p] = "restores" /\ ~displaced /\ reserved' = reserved
        /\ \A r \in Inserters \ {p} : at'[r] = at[r] /\ ended'[r] = ended[r]
    BY <1>16 DEF Restores, Goes, lockVars, InsertTypeOK
  <2>2. CASE entry' = entrySeen[p]
    <3>1. PICK r \in Inserters : Text[r] = entrySeen[p].text /\ reserved[r] # 0 /\ ended[r] \in Unsure
      BY <2>1, <2>2 DEF SeenExplained
    <3>2. r # p
      BY <2>1, <3>1 DEF UnsureHaveEnded
    <3> QED
      BY <2>1, <2>2, <3>1, <3>2 DEF EntryExplained
  <2>3. CASE entry' = NoEntry
    BY <2>3 DEF NoEntry
  <2>4. CASE entry' = entry /\ ended' = [ended EXCEPT ![p] = "unrestored"]
    <3>1. PICK r \in Inserters : /\ Text[r] = entry.text /\ reserved[r] # 0
                                 /\ at[r] \in Reserving \cup {"restores"} \/ ended[r] \in Unsure
      BY <2>1, <2>4 DEF EntryExplained
    <3>2. ended'[p] \in Unsure
      BY <2>4 DEF Unsure, InsertTypeOK
    <3> QED
      BY <2>1, <2>4, <3>1, <3>2 DEF EntryExplained
  <2> QED
    BY <1>16, <2>2, <2>3, <2>4 DEF Restores
<1>17. CASE Releases(p)
  BY <1>17 DEF Releases, Goes, lockVars, stateVars, InsertTypeOK, OwnersOwn, Owns,
     ReservedInTime, UnsureHaveEnded, EntryExplained, SeenExplained, Unsure,
     Reserving, Unreserved, Inside, Context, NoEntry
<1>18. CASE Killed(p)
  BY <1>18 DEF Killed, Goes, lockVars, stateVars, Ends, InsertTypeOK, OwnersOwn,
     Owns, ReservedInTime, UnsureHaveEnded, EntryExplained, SeenExplained, Unsure,
     Reserving, Unreserved, Inside, Context, NoEntry
<1> QED
  BY <1>1, <1>2, <1>3, <1>4, <1>5, <1>6, <1>7, <1>8, <1>9, <1>10, <1>11, <1>12,
     <1>13, <1>14, <1>15, <1>16, <1>17, <1>18 DEF InsertStep

LEMMA SeenExplainedKept ==
    ASSUME InsertTypeOK, OwnersOwn, ReservedInTime, UnsureHaveEnded,
       EntryExplained, SeenExplained, NEW p \in Inserters, InsertStep(p)
    PROVE  SeenExplained'
<1>1. CASE DeclinesPaste(p)
  BY <1>1 DEF DeclinesPaste, Goes, lockVars, stateVars, Ends, InsertTypeOK,
     OwnersOwn, Owns, ReservedInTime, UnsureHaveEnded, EntryExplained,
     SeenExplained, Unsure, Reserving, Unreserved, Inside, Context, NoEntry
<1>2. CASE Creates(p)
  BY <1>2 DEF Creates, Goes, lockVars, stateVars, InsertTypeOK, OwnersOwn, Owns,
     ReservedInTime, UnsureHaveEnded, EntryExplained, SeenExplained, Unsure,
     Reserving, Unreserved, Inside, Context, NoEntry
<1>3. CASE WritesPid(p)
  BY <1>3 DEF WritesPid, Goes, lockVars, stateVars, InsertTypeOK, OwnersOwn, Owns,
     ReservedInTime, UnsureHaveEnded, EntryExplained, SeenExplained, Unsure,
     Reserving, Unreserved, Inside, Context, NoEntry
<1>4. CASE Inspects(p)
  BY <1>4 DEF Inspects, Goes, lockVars, stateVars, InsertTypeOK, OwnersOwn, Owns,
     ReservedInTime, UnsureHaveEnded, EntryExplained, SeenExplained, Unsure,
     Reserving, Unreserved, Inside, Context, NoEntry
<1>5. CASE GivesUp(p)
  BY <1>5 DEF GivesUp, Goes, lockVars, stateVars, Ends, InsertTypeOK, OwnersOwn,
     Owns, ReservedInTime, UnsureHaveEnded, EntryExplained, SeenExplained, Unsure,
     Reserving, Unreserved, Inside, Context, NoEntry
<1>6. CASE Rechecks(p)
  BY <1>6 DEF Rechecks, Goes, lockVars, stateVars, InsertTypeOK, OwnersOwn, Owns,
     ReservedInTime, UnsureHaveEnded, EntryExplained, SeenExplained, Unsure,
     Reserving, Unreserved, Inside, Context, NoEntry
<1>7. CASE Claims(p)
  BY <1>7 DEF Claims, Goes, lockVars, stateVars, OutlivedByOwner, InsertTypeOK,
     OwnersOwn, Owns, ReservedInTime, UnsureHaveEnded, EntryExplained,
     SeenExplained, Unsure, Reserving, Unreserved, Inside, Context, NoEntry
<1>8. CASE ReadsState(p)
  BY <1>8 DEF ReadsState, Goes, lockVars, stateVars, InsertTypeOK, OwnersOwn,
     Owns, ReservedInTime, UnsureHaveEnded, EntryExplained, SeenExplained, Unsure,
     Reserving, Unreserved, Inside, Context, NoEntry
<1>9. CASE Prepares(p)
  <2> SUFFICES ASSUME ~displaced', NEW q \in Inserters,
                      at'[q] \in {"prepares", "reserves", "restores"} \cup Reserving,
                      entrySeen'[q].pending
               PROVE  \E r \in Inserters : Text[r] = entrySeen'[q].text /\ reserved'[r] # 0 /\ ended'[r] \in Unsure
    BY DEF SeenExplained, Reserving, Unsure
  <2>1. /\ at[p] \in {"prepares", "reserves", "restores"} \cup Reserving
        /\ \A r \in Inserters \ {p} : at'[r] = at[r] /\ ended'[r] = ended[r] /\ reserved'[r] = reserved[r]
        /\ ~displaced /\ entrySeen' = entrySeen
    BY <1>9 DEF Prepares, Goes, lockVars, Reserving, InsertTypeOK
  <2>2. at[q] \in {"prepares", "reserves", "restores"} \cup Reserving
    BY <2>1
  <2>3. PICK r \in Inserters : Text[r] = entrySeen[q].text /\ reserved[r] # 0 /\ ended[r] \in Unsure
    BY <2>1, <2>2 DEF SeenExplained
  <2>4. r # p
    BY <2>1, <2>3 DEF UnsureHaveEnded, Reserving
  <2> QED
    BY <2>1, <2>3, <2>4
<1>10. CASE Reserves(p)
  <2> SUFFICES ASSUME ~displaced', NEW q \in Inserters,
                      at'[q] \in {"prepares", "reserves", "restores"} \cup Reserving,
                      entrySeen'[q].pending
               PROVE  \E r \in Inserters : Text[r] = entrySeen'[q].text /\ reserved'[r] # 0 /\ ended'[r] \in Unsure
    BY DEF SeenExplained, Reserving, Unsure
  <2>1. /\ at[p] \in {"prepares", "reserves", "restores"} \cup Reserving
        /\ \A r \in Inserters \ {p} : at'[r] = at[r] /\ ended'[r] = ended[r] /\ reserved'[r] = reserved[r]
        /\ ~displaced /\ entrySeen' = entrySeen
    BY <1>10 DEF Reserves, Goes, lockVars, Reserving, InsertTypeOK
  <2>2. at[q] \in {"prepares", "reserves", "restores"} \cup Reserving
    BY <2>1
  <2>3. PICK r \in Inserters : Text[r] = entrySeen[q].text /\ reserved[r] # 0 /\ ended[r] \in Unsure
    BY <2>1, <2>2 DEF SeenExplained
  <2>4. r # p
    BY <2>1, <2>3 DEF UnsureHaveEnded, Reserving
  <2> QED
    BY <2>1, <2>3, <2>4
<1>11. CASE SetsClipboard(p)
  BY <1>11 DEF SetsClipboard, Goes, lockVars, stateVars, InsertTypeOK, OwnersOwn,
     Owns, ReservedInTime, UnsureHaveEnded, EntryExplained, SeenExplained, Unsure,
     Reserving, Unreserved, Inside, Context, NoEntry
<1>12. CASE Pastes(p)
  <2> SUFFICES ASSUME ~displaced', NEW q \in Inserters,
                      at'[q] \in {"prepares", "reserves", "restores"} \cup Reserving,
                      entrySeen'[q].pending
               PROVE  \E r \in Inserters : Text[r] = entrySeen'[q].text /\ reserved'[r] # 0 /\ ended'[r] \in Unsure
    BY DEF SeenExplained, Reserving, Unsure
  <2>1. /\ at[p] \in {"prepares", "reserves", "restores"} \cup Reserving
        /\ \A r \in Inserters \ {p} : at'[r] = at[r] /\ ended'[r] = ended[r] /\ reserved'[r] = reserved[r]
        /\ ~displaced /\ entrySeen' = entrySeen
    BY <1>12 DEF Pastes, Goes, lockVars, Reserving, InsertTypeOK
  <2>2. at[q] \in {"prepares", "reserves", "restores"} \cup Reserving
    BY <2>1
  <2>3. PICK r \in Inserters : Text[r] = entrySeen[q].text /\ reserved[r] # 0 /\ ended[r] \in Unsure
    BY <2>1, <2>2 DEF SeenExplained
  <2>4. r # p
    BY <2>1, <2>3 DEF UnsureHaveEnded, Reserving
  <2> QED
    BY <2>1, <2>3, <2>4
<1>13. CASE Commits(p)
  <2> SUFFICES ASSUME ~displaced', NEW q \in Inserters,
                      at'[q] \in {"prepares", "reserves", "restores"} \cup Reserving,
                      entrySeen'[q].pending
               PROVE  \E r \in Inserters : Text[r] = entrySeen'[q].text /\ reserved'[r] # 0 /\ ended'[r] \in Unsure
    BY DEF SeenExplained, Reserving, Unsure
  <2>1. /\ at[p] \in {"prepares", "reserves", "restores"} \cup Reserving
        /\ \A r \in Inserters \ {p} : at'[r] = at[r] /\ ended'[r] = ended[r] /\ reserved'[r] = reserved[r]
        /\ ~displaced /\ entrySeen' = entrySeen
    BY <1>13 DEF Commits, Goes, lockVars, Reserving, InsertTypeOK
  <2>2. at[q] \in {"prepares", "reserves", "restores"} \cup Reserving
    BY <2>1
  <2>3. PICK r \in Inserters : Text[r] = entrySeen[q].text /\ reserved[r] # 0 /\ ended[r] \in Unsure
    BY <2>1, <2>2 DEF SeenExplained
  <2>4. r # p
    BY <2>1, <2>3 DEF UnsureHaveEnded, Reserving
  <2> QED
    BY <2>1, <2>3, <2>4
<1>14. CASE FallsBack(p)
  <2> SUFFICES ASSUME ~displaced', NEW q \in Inserters,
                      at'[q] \in {"prepares", "reserves", "restores"} \cup Reserving,
                      entrySeen'[q].pending
               PROVE  \E r \in Inserters : Text[r] = entrySeen'[q].text /\ reserved'[r] # 0 /\ ended'[r] \in Unsure
    BY DEF SeenExplained, Reserving, Unsure
  <2>1. /\ at[p] \in {"prepares", "reserves", "restores"} \cup Reserving
        /\ \A r \in Inserters \ {p} : at'[r] = at[r] /\ ended'[r] = ended[r] /\ reserved'[r] = reserved[r]
        /\ ~displaced /\ entrySeen' = entrySeen
    BY <1>14 DEF FallsBack, Goes, lockVars, Reserving, InsertTypeOK
  <2>2. at[q] \in {"prepares", "reserves", "restores"} \cup Reserving
    BY <2>1
  <2>3. PICK r \in Inserters : Text[r] = entrySeen[q].text /\ reserved[r] # 0 /\ ended[r] \in Unsure
    BY <2>1, <2>2 DEF SeenExplained
  <2>4. r # p
    BY <2>1, <2>3 DEF UnsureHaveEnded, Reserving
  <2> QED
    BY <2>1, <2>3, <2>4
<1>15. CASE Refreshes(p)
  BY <1>15 DEF Refreshes, Goes, lockVars, stateVars, Entry, Writes, WriteFails,
     InsertTypeOK, OwnersOwn, Owns, ReservedInTime, UnsureHaveEnded,
     EntryExplained, SeenExplained, Unsure, Reserving, Unreserved, Inside,
     Context, NoEntry
<1>16. CASE Restores(p)
  BY <1>16 DEF Restores, Goes, lockVars, stateVars, InsertTypeOK, OwnersOwn, Owns,
     ReservedInTime, UnsureHaveEnded, EntryExplained, SeenExplained, Unsure,
     Reserving, Unreserved, Inside, Context, NoEntry
<1>17. CASE Releases(p)
  BY <1>17 DEF Releases, Goes, lockVars, stateVars, InsertTypeOK, OwnersOwn, Owns,
     ReservedInTime, UnsureHaveEnded, EntryExplained, SeenExplained, Unsure,
     Reserving, Unreserved, Inside, Context, NoEntry
<1>18. CASE Killed(p)
  BY <1>18 DEF Killed, Goes, lockVars, stateVars, Ends, InsertTypeOK, OwnersOwn,
     Owns, ReservedInTime, UnsureHaveEnded, EntryExplained, SeenExplained, Unsure,
     Reserving, Unreserved, Inside, Context, NoEntry
<1> QED
  BY <1>1, <1>2, <1>3, <1>4, <1>5, <1>6, <1>7, <1>8, <1>9, <1>10, <1>11, <1>12,
     <1>13, <1>14, <1>15, <1>16, <1>17, <1>18 DEF InsertStep

(* What a step of a command does to the history.                           *)
StepHistory(p) ==
    /\ clock' = clock /\ windowless' = windowless
    /\ displaced => displaced'
    /\ torn => torn'
    /\ \A q \in Inserters \ {p} : at'[q] = at[q]
    /\ reserved' = reserved \/ (Reserves(p) /\ reserved' = [reserved EXCEPT ![p] = clock])
    /\ pastes' = pastes \/ (Pastes(p) /\ pastes' = Append(pastes, [by |-> p, time |-> clock]))
    /\ \/ entry' = entry \/ Reserves(p) \/ Commits(p) \/ FallsBack(p) \/ Refreshes(p)
       \/ Restores(p) \/ torn'
    /\ at'[p] \in {"prepares", "reserves", "sets", "pastes"} =>
         at[p] \in {"prepares", "reserves", "sets", "pastes"} \/ ReadsState(p)

LEMMA HistoryOfStep ==
    ASSUME InsertTypeOK, NEW p \in Inserters, InsertStep(p)
    PROVE  StepHistory(p)
<1>1. CASE DeclinesPaste(p)
  BY <1>1 DEF DeclinesPaste, Goes, lockVars, stateVars, Ends, InsertTypeOK,
     StepHistory, Context
<1>2. CASE Creates(p)
  BY <1>2 DEF Creates, Goes, lockVars, stateVars, InsertTypeOK, StepHistory,
     Context
<1>3. CASE WritesPid(p)
  BY <1>3 DEF WritesPid, Goes, lockVars, stateVars, InsertTypeOK, StepHistory,
     Context
<1>4. CASE Inspects(p)
  BY <1>4 DEF Inspects, Goes, lockVars, stateVars, InsertTypeOK, StepHistory,
     Context
<1>5. CASE GivesUp(p)
  BY <1>5 DEF GivesUp, Goes, lockVars, stateVars, Ends, InsertTypeOK, StepHistory,
     Context
<1>6. CASE Rechecks(p)
  BY <1>6 DEF Rechecks, Goes, lockVars, stateVars, InsertTypeOK, StepHistory,
     Context
<1>7. CASE Claims(p)
  BY <1>7 DEF Claims, Goes, lockVars, stateVars, OutlivedByOwner, InsertTypeOK,
     StepHistory, Context
<1>8. CASE ReadsState(p)
  BY <1>8 DEF ReadsState, Goes, lockVars, stateVars, InsertTypeOK, StepHistory,
     Context
<1>9. CASE Prepares(p)
  BY <1>9 DEF Prepares, Goes, lockVars, stateVars, InsertTypeOK, StepHistory,
     Context
<1>10. CASE Reserves(p)
  BY <1>10 DEF Reserves, Goes, lockVars, stateVars, Entry, Writes, WriteFails,
     InsertTypeOK, StepHistory, Context
<1>11. CASE SetsClipboard(p)
  BY <1>11 DEF SetsClipboard, Goes, lockVars, stateVars, InsertTypeOK,
     StepHistory, Context
<1>12. CASE Pastes(p)
  BY <1>12 DEF Pastes, Goes, lockVars, stateVars, InsertTypeOK, StepHistory,
     Context
<1>13. CASE Commits(p)
  BY <1>13 DEF Commits, Goes, lockVars, stateVars, Entry, Writes, WriteFails,
     InsertTypeOK, StepHistory, Context
<1>14. CASE FallsBack(p)
  BY <1>14 DEF FallsBack, Goes, lockVars, stateVars, Entry, Writes, WriteFails,
     Unquarantined, InsertTypeOK, StepHistory, Context
<1>15. CASE Refreshes(p)
  BY <1>15 DEF Refreshes, Goes, lockVars, stateVars, Entry, Writes, WriteFails,
     InsertTypeOK, StepHistory, Context
<1>16. CASE Restores(p)
  BY <1>16 DEF Restores, Goes, lockVars, stateVars, InsertTypeOK, StepHistory,
     Context
<1>17. CASE Releases(p)
  BY <1>17 DEF Releases, Goes, lockVars, stateVars, InsertTypeOK, StepHistory,
     Context
<1>18. CASE Killed(p)
  BY <1>18 DEF Killed, Goes, lockVars, stateVars, Ends, InsertTypeOK, StepHistory,
     Context
<1> QED
  BY <1>1, <1>2, <1>3, <1>4, <1>5, <1>6, <1>7, <1>8, <1>9, <1>10, <1>11, <1>12,
     <1>13, <1>14, <1>15, <1>16, <1>17, <1>18 DEF InsertStep

LEMMA PastesGrow ==
    ASSUME InsertTypeOK, PastesAreReserved, NEW p \in Inserters, StepHistory(p), NEW i \in DOMAIN pastes
    PROVE  /\ i \in DOMAIN pastes' /\ pastes'[i] = pastes[i] /\ pastes[i].by \in Inserters
           /\ reserved'[pastes[i].by] = reserved[pastes[i].by]
<1>1. i \in DOMAIN pastes' /\ pastes'[i] = pastes[i]
  BY PasteAdded DEF StepHistory
<1>2. Reserves(p) => pastes[i].by # p
  BY PastersAre DEF Reserves
<1> QED
  BY <1>1, <1>2, PastesTyped DEF StepHistory, InsertTypeOK

LEMMA PastesBegin ==
    ASSUME InsertTypeOK, NEW p \in Inserters, StepHistory(p), NEW i \in DOMAIN pastes', i \notin DOMAIN pastes
    PROVE  Pastes(p) /\ i = Len(pastes) + 1 /\ pastes'[i] = [by |-> p, time |-> clock]
BY PasteAdded DEF StepHistory

LEMMA UndisturbedBefore ==
    ASSUME InsertTypeOK, ReservedInTime, PastesAreReserved, NEW p \in Inserters, StepHistory(p),
           NEW i \in DOMAIN pastes, NEW S,
           \A r \in Inserters \ S : reserved'[r] = 0 \/ reserved'[r] < reserved[pastes[i].by]
    PROVE  Undisturbed(i, S) /\ (Reserves(p) => p \in S)
<1>1. clock \in Nat /\ clock > 0 /\ reserved[pastes[i].by] <= clock
  BY PastesTyped, InsertersAssumption DEF InsertersAssumption, InsertTypeOK, ReservedInTime
<1>2. Reserves(p) => p \in S
  <2>1. Reserves(p) => reserved'[p] = clock
    BY DEF Reserves, InsertTypeOK
  <2>2. clock # 0 /\ ~(clock < reserved[pastes[i].by])
    BY <1>1, PastesTyped
  <2> QED
    BY <2>1, <2>2
<1>3. reserved' = reserved \/ (p \in S /\ \A r \in Inserters \ {p} : reserved'[r] = reserved[r])
  BY <1>2 DEF StepHistory, InsertTypeOK
<1> QED
  BY <1>2, <1>3 DEF Undisturbed

LEMMA RememberedKept ==
    ASSUME InsertInv, NEW p \in Inserters, InsertStep(p) PROVE PastesAreRemembered'
<1>1. InsertTypeOK /\ StepHistory(p) /\ PastesAreReserved /\ ReservedInTime
  BY HistoryOfStep DEF InsertInv
<1> SUFFICES ASSUME ~displaced', ~torn', NEW i \in DOMAIN pastes', Undisturbed(i, {pastes[i].by})'
             PROVE  Remembers(i)'
  BY DEF PastesAreRemembered
<1>2. ~displaced /\ ~torn
  BY <1>1 DEF StepHistory
<1>3. CASE i \notin DOMAIN pastes
  <2>1. Pastes(p) /\ pastes'[i] = [by |-> p, time |-> clock]
    BY <1>1, <1>3, PastesBegin
  <2>2. entry' = entry /\ reserved' = reserved /\ at[p] = "pastes"
    BY <2>1 DEF Pastes, stateVars
  <2>3. entry = [text |-> Text[p], context |-> "window", time |-> reserved[p], pending |-> TRUE]
    BY <1>2, <2>2 DEF InsertInv, OwnEntry, WindowsArePasted, Context
  <2>4. reserved[p] \in Nat
    BY <1>1 DEF InsertTypeOK
  <2> QED
    BY <2>1, <2>2, <2>3, <2>4 DEF Remembers
<1>4. CASE i \in DOMAIN pastes
  <2> DEFINE o == pastes[i].by
  <2>1. o \in Inserters /\ pastes'[i] = pastes[i] /\ reserved'[o] = reserved[o]
    BY <1>1, <1>4, PastesGrow
  <2>2. \A r \in Inserters \ {o} : reserved'[r] = 0 \/ reserved'[r] < reserved[o]
    BY <2>1 DEF Undisturbed
  <2>3. Undisturbed(i, {o}) /\ (Reserves(p) => p = o)
    BY <1>1, <1>4, <2>2, UndisturbedBefore
  <2>4. Remembers(i)
    BY <1>2, <1>4, <2>3 DEF InsertInv, PastesAreRemembered
  <2>5. /\ at[o] \in {"commits", "refreshes", "releases", "ended"} /\ o \notin windowless
        /\ reserved[o] \in Nat /\ clock \in Nat /\ pastes[i].time \in Nat
        /\ reserved[o] <= pastes[i].time /\ pastes[i].time <= clock
    BY <1>1, <1>4, PastesTyped DEF PastesAreReserved
  <2>6. ASSUME p # o, at[p] \in Inside PROVE reserved[p] = 0
    <3>1. reserved[p] \in Nat /\ (reserved[p] = 0 \/ reserved[p] < reserved[o])
      BY <1>1, <2>3, <2>6 DEF Undisturbed, InsertTypeOK
    <3>2. reserved[p] # 0 => reserved[o] <= reserved[p]
      BY <1>2, <2>1, <2>6 DEF InsertInv, InsideIsLatest
    <3> QED
      BY <2>5, <3>1, <3>2
  <2> HIDE DEF o
  <2>7. CASE entry' = entry
    BY <2>1, <2>4, <2>7 DEF Remembers, o
  <2>8. CASE Reserves(p)
    BY <2>3, <2>5, <2>8 DEF Reserves
  <2>9. CASE Commits(p) \/ Refreshes(p)
    <3>1. p = o
      <4>1. at[p] \in {"commits", "refreshes"}
        BY <2>9 DEF Commits, Refreshes
      <4>2. reserved[p] # 0 /\ at[p] \in Inside
        BY <1>1, <4>1 DEF ReservedInTime, Reserving, Inside
      <4> QED
        BY <2>6, <4>2
    <3>2. Context(p) = "window"
      BY <2>5, <3>1 DEF Context
    <3>3. \/ entry' = entry
          \/ entry' = [text |-> Text[p], context |-> "window", time |-> clock, pending |-> FALSE]
          \/ entry' = [text |-> Text[p], context |-> "window", time |-> clock, pending |-> TRUE]
      BY <2>9, <3>2 DEF Commits, Refreshes, Writes, WriteFails, Entry
    <3>4. reserved[o] <= clock
      BY <2>5
    <3> QED
      BY <2>1, <2>4, <2>5, <3>1, <3>3, <3>4 DEF Remembers, o
  <2>10. CASE FallsBack(p)
    <3>1. at[p] = "fallsback" /\ at[p] \in Inside /\ reserved[p] # 0
      BY <1>1, <2>10 DEF FallsBack, ReservedInTime, Reserving, Inside
    <3> QED
      BY <2>5, <2>6, <3>1
  <2>11. CASE Restores(p)
    <3>1. at[p] = "restores" /\ at[p] \in Inside
      BY <2>11 DEF Restores, Inside
    <3>2. reserved[p] = 0
      BY <2>5, <2>6, <3>1
    <3>3. entrySeen[p] = entry
      BY <1>2, <3>1, <3>2 DEF InsertInv, SeesEntry
    <3>4. entry' = entry
      BY <1>2, <2>11, <3>3 DEF Restores
    <3> QED
      BY <2>7, <3>4
  <2> QED
    BY <1>1, <2>7, <2>8, <2>9, <2>10, <2>11 DEF StepHistory
<1> QED
  BY <1>3, <1>4

LEMMA WaitedKept ==
    ASSUME InsertInv, NEW p \in Inserters, InsertStep(p) PROVE PastersWaited'
<1>1. InsertTypeOK /\ StepHistory(p) /\ PastesAreReserved /\ ReservedInTime
  BY HistoryOfStep DEF InsertInv
<1> SUFFICES ASSUME ~displaced', ~torn', NEW q \in Inserters \ windowless',
                    at'[q] \in {"prepares", "reserves", "sets", "pastes"},
                    NEW i \in DOMAIN pastes', Text[pastes'[i].by] = Text[q],
                    Undisturbed(i, {pastes[i].by, q})'
             PROVE  Apart(i, clock)'
  BY DEF PastersWaited
<1>2. ~displaced /\ ~torn /\ q \notin windowless /\ clock' = clock
  BY <1>1 DEF StepHistory
<1>3. CASE i \notin DOMAIN pastes
  <2>1. Pastes(p)
    BY <1>1, <1>3, PastesBegin
  <2>2. at[p] = "pastes" /\ (at'[p] \in {"commits", "refreshes"} \/ at'[p] = "fallsback" \/ at'[p] = "refreshes")
    BY <1>1, <2>1 DEF Pastes, Goes, InsertTypeOK
  <2>3. p # q /\ at[q] = at'[q]
    BY <1>1, <2>2 DEF StepHistory
  <2>4. Owns(p) /\ Owns(q)
    BY <1>2 DEF InsertInv, OwnersOwn
  <2> QED
    BY <2>2, <2>3, <2>4 DEF Owns, Inside
<1>4. CASE i \in DOMAIN pastes
  <2> DEFINE o == pastes[i].by
  <2>1. o \in Inserters /\ pastes'[i] = pastes[i] /\ reserved'[o] = reserved[o]
    BY <1>1, <1>4, PastesGrow
  <2>2. \A r \in Inserters \ {o, q} : reserved'[r] = 0 \/ reserved'[r] < reserved[o]
    BY <2>1 DEF Undisturbed
  <2>3. Undisturbed(i, {o, q})
    BY <1>1, <1>4, <2>2, UndisturbedBefore
  <2>4. SUFFICES Apart(i, clock)
    BY <1>2, <2>1 DEF Apart
  <2>5. CASE at[q] \in {"prepares", "reserves", "sets", "pastes"}
    BY <1>2, <1>4, <2>1, <2>3, <2>5 DEF InsertInv, PastersWaited
  <2>6. CASE at[q] \notin {"prepares", "reserves", "sets", "pastes"}
    <3>1. q = p /\ ReadsState(p)
      BY <1>1, <2>6 DEF StepHistory
    <3>2. at[p] = "reads" /\ reserved[p] = 0
      BY <1>1, <3>1 DEF ReadsState, ReservedInTime, Unreserved
    <3>3. Undisturbed(i, {o})
      BY <2>3, <3>1, <3>2 DEF Undisturbed
    <3>4. Remembers(i)
      BY <1>2, <1>4, <3>3 DEF InsertInv, PastesAreRemembered
    <3>5. ~IsDuplicate(p, entry)
      BY <1>1, <3>1 DEF ReadsState, Goes, InsertTypeOK
    <3>6. Context(p) = "window"
      BY <1>2, <3>1 DEF Context
    <3>7. ~(clock - entry.time <= Window(entry.pending))
      BY <2>1, <3>1, <3>4, <3>5, <3>6 DEF IsDuplicate, Remembers
    <3>8. /\ reserved[o] \in Nat /\ clock \in Nat /\ pastes[i].time \in Nat /\ entry.time \in Nat
          /\ entry.pending \in BOOLEAN
      BY <1>1, <1>4, PastesTyped, EntryTyped DEF Entries
    <3>9. CASE entry.pending
      <4>1. ~(clock - entry.time <= 3) /\ reserved[o] <= entry.time
        BY <3>4, <3>7, <3>9 DEF Window, PendingFor, Remembers
      <4>2. pastes[i].time - reserved[o] >= 2 \/ clock - pastes[i].time > 1
        BY <3>8, <4>1
      <4> QED
        BY <4>2 DEF Apart, PendingFor, Duplicate
    <3>10. CASE ~entry.pending
      <4>1. ~(clock - entry.time <= 1) /\ pastes[i].time <= entry.time
        BY <3>4, <3>7, <3>10 DEF Window, Duplicate, Remembers
      <4>2. clock - pastes[i].time > 1
        BY <3>8, <4>1
      <4> QED
        BY <4>2 DEF Apart, Duplicate
    <3> QED
      BY <3>8, <3>9, <3>10
  <2> QED
    BY <2>5, <2>6
<1> QED
  BY <1>3, <1>4

LEMMA ApartKept ==
    ASSUME InsertInv, NEW p \in Inserters, InsertStep(p) PROVE PastesAreApart'
<1>1. InsertTypeOK /\ StepHistory(p) /\ PastesAreReserved /\ ReservedInTime
  BY HistoryOfStep DEF InsertInv
<1> SUFFICES ASSUME ~displaced', ~torn', NEW i \in DOMAIN pastes', NEW j \in DOMAIN pastes', i < j,
                    Text[pastes'[i].by] = Text[pastes'[j].by],
                    Undisturbed(i, {pastes[i].by, pastes[j].by})'
             PROVE  Apart(i, pastes[j].time)'
  BY DEF PastesAreApart
<1>2. ~displaced /\ ~torn
  BY <1>1 DEF StepHistory
<1>3. i \in DOMAIN pastes
  <2>1. pastes \in Seq([by : Inserters, time : 1..LastTick])
    BY <1>1 DEF InsertTypeOK
  <2>2. Len(pastes) \in Nat /\ DOMAIN pastes = 1 .. Len(pastes)
    BY <2>1, LenProperties, Zenon
  <2>3. j \in DOMAIN pastes \/ j = Len(pastes) + 1
    BY <1>1, PastesBegin
  <2>4. i \in DOMAIN pastes \/ i = Len(pastes) + 1
    BY <1>1, PastesBegin
  <2> QED
    BY <2>2, <2>3, <2>4
<1> DEFINE o == pastes[i].by
<1>4. o \in Inserters /\ pastes'[i] = pastes[i] /\ reserved'[o] = reserved[o]
  BY <1>1, <1>3, PastesGrow
<1>5. \A r \in Inserters \ {o, pastes'[j].by} : reserved'[r] = 0 \/ reserved'[r] < reserved[o]
  BY <1>4 DEF Undisturbed
<1>6. Undisturbed(i, {o, pastes'[j].by})
  BY <1>1, <1>3, <1>5, UndisturbedBefore
<1>7. SUFFICES Apart(i, pastes'[j].time)
  BY <1>4 DEF Apart
<1>8. CASE j \in DOMAIN pastes
  <2>1. pastes'[j] = pastes[j]
    BY <1>1, <1>8, PastesGrow
  <2> QED
    BY <1>2, <1>3, <1>4, <1>6, <1>8, <2>1 DEF InsertInv, PastesAreApart
<1>9. CASE j \notin DOMAIN pastes
  <2>1. Pastes(p) /\ pastes'[j] = [by |-> p, time |-> clock]
    BY <1>1, <1>9, PastesBegin
  <2>2. at[p] = "pastes" /\ p \notin windowless
    BY <2>1 DEF Pastes, InsertInv, WindowsArePasted
  <2> QED
    BY <1>2, <1>3, <1>4, <1>6, <2>1, <2>2 DEF InsertInv, PastersWaited
<1> QED
  BY <1>8, <1>9

(* The world: the clock, and the pids.                                     *)
LEMMA WorldKept ==
    ASSUME InsertInv, Ticks \/ (\E p \in Inserters \cup {Past} : PidReused(p)) \/ UNCHANGED insertVars
    PROVE  InsertInv'
<1>1. /\ UNCHANGED <<at, windowless, lockVars, entry, entrySeen, torn, ledger, reserved, pastes, ended>>
      /\ clock' \in {clock, clock + 1} /\ clock' \in 1 .. LastTick
  BY InsertersAssumption
     DEF InsertersAssumption, Ticks, PidReused, insertVars, stateVars, lockVars, InsertInv, InsertTypeOK
<1>2. /\ pidOf' \in [Inserters \cup {Past} -> {"itself", "nobody", "another"}]
      /\ \A p \in Inserters \cup {Past} : pidOf'[p] = "itself" <=> pidOf[p] = "itself"
  BY DEF Ticks, PidReused, insertVars, InsertInv, InsertTypeOK
<1>3. InsertTypeOK'
  BY <1>1, <1>2 DEF InsertInv, InsertTypeOK, lockVars
<1>4. OwnersOwn' /\ InsideIsLatest' /\ OwnEntry' /\ SeesEntry' /\ WindowsArePasted' /\ PastesOnce'
  BY <1>1 DEF InsertInv, OwnersOwn, Owns, InsideIsLatest, OwnEntry, SeesEntry, WindowsArePasted,
     PastesOnce, Context, lockVars
<1>5. SeenAreDead'
  BY <1>1, <1>2 DEF InsertInv, SeenAreDead, lockVars
<1>6. clock \in Nat /\ clock' \in Nat /\ clock <= clock'
  BY <1>1 DEF InsertInv, InsertTypeOK
<1>7. ReservedInTime'
  <2>1. \A p \in Inserters : reserved[p] \in Nat
    BY DEF InsertInv, InsertTypeOK
  <2> QED
    BY <1>1, <1>6, <2>1 DEF InsertInv, ReservedInTime
<1>8. \A i \in DOMAIN pastes : pastes[i].time \in Nat /\ reserved[pastes[i].by] \in Nat
  BY PastesTyped DEF InsertInv
<1>9. PastesAreReserved'
  BY <1>1, <1>6, <1>8 DEF InsertInv, PastesAreReserved
<1>10. PastesAreRemembered' /\ PastesAreApart'
  BY <1>1 DEF InsertInv, PastesAreRemembered, Remembers, Undisturbed, PastesAreApart, Apart, lockVars
<1>11. PastersWaited'
  <2>1. \A i \in DOMAIN pastes : Apart(i, clock) => Apart(i, clock')
    BY <1>6, <1>8 DEF Apart, Duplicate
  <2>2. UNCHANGED <<at, windowless, reserved, pastes, displaced, torn>>
    BY <1>1 DEF lockVars
  <2>3. \A i \in DOMAIN pastes : Apart(i, clock)' <=> Apart(i, clock')
    BY <2>2 DEF Apart
  <2> QED
    BY <2>1, <2>2, <2>3 DEF InsertInv, PastersWaited, Undisturbed
<1>12. UnsureHaveEnded' /\ EntryExplained' /\ SeenExplained'
  BY <1>1 DEF InsertInv, UnsureHaveEnded, EntryExplained, SeenExplained, lockVars
<1> QED
  BY <1>3, <1>4, <1>5, <1>7, <1>9, <1>10, <1>11, <1>12 DEF InsertInv

LEMMA TypesOfStepKept ==
    ASSUME InsertTypeOK, NEW p \in Inserters, InsertStep(p) PROVE InsertTypeOK'
BY StepsKept, LocksKept, EntriesKept, LedgerKept, PidsKept, HistoryKept
   DEF InsertTypeOK, EndedHow, LocksOK, EntriesOK, HistoryOK

LEMMA InitInserts == InsertInit => InsertInv
<1> SUFFICES ASSUME InsertInit PROVE InsertInv
  OBVIOUS
<1>1. 1 \in 1 .. LastTick /\ 0 \in 0 .. LastTick /\ 0 \in 0 .. (LastTick + QuarantineFor)
      /\ {-LockFor, 0} \subseteq (-LockFor) .. LastTick
  BY InsertersAssumption DEF InsertersAssumption, LockFor, QuarantineFor
<1>2. NoLock \in [by : Inserters \cup {Past, NoFile}, written : BOOLEAN]
      /\ [by : {Past}, written : BOOLEAN] \subseteq [by : Inserters \cup {Past, NoFile}, written : BOOLEAN]
  BY DEF NoLock
<1>3. NoEntry \in Entries /\ NoEntry.pending = FALSE
  BY <1>1 DEF NoEntry, Entries
<1>4. pastes = <<>> /\ <<>> \in Seq([by : Inserters, time : 1..LastTick]) /\ DOMAIN pastes = {}
  BY DEF InsertInit
<1>5. InsertTypeOK
  <2>1. clock \in 1 .. LastTick /\ at \in [Inserters -> Steps] /\ windowless \subseteq Inserters
    BY <1>1 DEF InsertInit, Steps
  <2>2. /\ lockFile \in [by : Inserters \cup {Past, NoFile}, written : BOOLEAN]
        /\ lockSeen \in [Inserters -> [by : Inserters \cup {Past, NoFile}, written : BOOLEAN]]
        /\ lockTime \in (-LockFor)..LastTick
    BY <1>1, <1>2 DEF InsertInit
  <2>3. entry \in Entries /\ entrySeen \in [Inserters -> Entries]
    BY <1>3 DEF InsertInit
  <2>4. /\ ledger \in [Texts \X {"window", "nowindow"} -> 0..(LastTick + QuarantineFor)]
        /\ pidOf \in [Inserters \cup {Past} -> {"itself", "nobody", "another"}]
        /\ reserved \in [Inserters -> 0..LastTick]
    BY <1>1 DEF InsertInit
  <2> QED
    BY <1>4, <2>1, <2>2, <2>3, <2>4 DEF InsertInit, InsertTypeOK
<1>6. OwnersOwn /\ ReservedInTime /\ InsideIsLatest /\ OwnEntry /\ SeesEntry /\ WindowsArePasted
  BY <1>1 DEF InsertInit, OwnersOwn, Owns, Inside, ReservedInTime, Reserving, InsideIsLatest, OwnEntry,
     SeesEntry, WindowsArePasted
<1>7. SeenAreDead
  BY InsertersAssumption DEF InsertersAssumption, InsertInit, SeenAreDead
<1>8. PastesAreReserved /\ PastesOnce /\ PastesAreRemembered /\ PastersWaited /\ PastesAreApart
  BY <1>4 DEF PastesAreReserved, PastesOnce, PastesAreRemembered, PastersWaited, PastesAreApart
<1>9. UnsureHaveEnded /\ EntryExplained /\ SeenExplained
  BY <1>3 DEF InsertInit, UnsureHaveEnded, Unsure, EntryExplained, SeenExplained
<1> QED
  BY <1>5, <1>6, <1>7, <1>8, <1>9 DEF InsertInv

LEMMA InsertInvariant == InsertSpec => []InsertInv
<1>1. ASSUME InsertInv, NEW p \in Inserters, InsertStep(p) PROVE InsertInv'
  BY <1>1, TypesOfStepKept, OwnersKept, SeenKept, ReservedKept, LatestKept, OwnKept, SeesKept, WindowsKept,
     PastesReservedKept, PastesOnceKept, RememberedKept, WaitedKept, ApartKept, UnsureKept,
     EntryExplainedKept, SeenExplainedKept
     DEF InsertInv
<1>2. InsertInv /\ [InsertNext]_insertVars => InsertInv'
  BY <1>1, WorldKept DEF InsertNext, InsertStep
<1> QED
  BY InitInserts, <1>2, PTL DEF InsertSpec

(* output.py - the three files and the commands keep their types.          *)
THEOREM InsertTypeCorrect == InsertSpec => []InsertTypeOK
<1>1. InsertInv => InsertTypeOK
  BY DEF InsertInv
<1> QED
  BY InsertInvariant, <1>1, PTL

(* output.py:3437, 3484, 3778 - no text is pasted again within a tick of   *)
(* its last paste, unless its lock or its state was lost; and a pending    *)
(* entry that outlives its command is explained.  For any number of        *)
(* commands, texts, kills and ticks.                                       *)
THEOREM PastesStayGuarded == InsertSpec => []PastesAreGuarded
<1>1. ASSUME InsertInv PROVE NoQuickDuplicate
  <2> SUFFICES ASSUME NEW i \in DOMAIN pastes, NEW j \in (i + 1)..Len(pastes), Consecutive(i, j),
                      ~displaced, ~torn
               PROVE  Apart(i, pastes[j].time)
    BY DEF NoQuickDuplicate, Apart
  <2>1. pastes \in Seq([by : Inserters, time : 1..LastTick])
    BY <1>1 DEF InsertInv, InsertTypeOK
  <2>2. Len(pastes) \in Nat /\ DOMAIN pastes = 1 .. Len(pastes)
    BY <2>1, LenProperties, Zenon
  <2>3. j \in DOMAIN pastes /\ i < j
    BY <2>2
  <2>4. Undisturbed(i, {pastes[i].by, pastes[j].by})
    BY DEF Consecutive, Undisturbed
  <2> QED
    BY <1>1, <2>3, <2>4 DEF InsertInv, PastesAreApart, Consecutive
<1>2. ASSUME InsertInv PROVE PendingExplained
  BY <1>2 DEF InsertInv, PendingExplained, EntryExplained, Reserving, Inside, Unsure
<1>3. InsertInv => PastesAreGuarded
  BY <1>1, <1>2 DEF PastesAreGuarded
<1> QED
  BY InsertInvariant, <1>3, PTL

-----------------------------------------------------------------------------
(* The run: the variables of both modules have the values they say.        *)
PartIsOne == part \in {"insert", "finalize"}

THEOREM InsertionTypesStayOK == AllSpec => []InsertionTypesOK
<1>1. AllInit => InsertInit /\ Init /\ PartIsOne
  BY DEF AllInit, PartIsOne
<1>2. [AllNext]_allVars => [InsertNext]_insertVars /\ [Next]_vars
  BY DEF AllNext, allVars
<1>3. PartIsOne /\ [AllNext]_allVars => PartIsOne'
  BY DEF AllNext, allVars, PartIsOne
<1>4. PartIsOne /\ InsertTypeOK /\ TypeOK => InsertionTypesOK
  BY DEF InsertionTypesOK, PartIsOne
<1> QED
  BY <1>1, <1>2, <1>3, <1>4, InsertTypeCorrect, TypeCorrect, PTL DEF AllSpec, InsertSpec, Spec
=============================================================================
