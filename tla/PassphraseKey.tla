--------------------------- MODULE PassphraseKey ----------------------------
(***************************************************************************)
(* The file with the passphrase that artifacts are encrypted with          *)
(* (artifact_crypto.py).  The command that finds none makes one, the       *)
(* command that finds a weak one replaces it and keeps the old passphrase  *)
(* in a history, and every command then encrypts with the passphrase it    *)
(* read or made.  No lock guards the file: the commands only ever rename   *)
(* without replacing, and compare the identities of what they move.        *)
(*                                                                         *)
(* A file is its passphrase and who wrote it; a passphrase is the command  *)
(* that made it, or "weak".  Left out: calls that fail other than for what *)
(* another command did, passphrases of the user's own, the keyring.        *)
(***************************************************************************)
CONSTANTS
    Commands,       \* the commands that encrypt
    Absent          \* no file

VARIABLES
    keyAt,          \* where each command is
    keyTarget,      \* the file at the path, or Absent
    keyBackup,      \* the file each command has a link of its own to, or Absent
    claimed,        \* the file each command has under a .cleanup name, or Absent
    keySeen,        \* the file each command means to replace, or Absent
    history,        \* the passphrases in the history
    read,           \* the history as each command read it
    used            \* the passphrases something was encrypted with

keyVars == <<keyAt, keyTarget, keyBackup, claimed, keySeen, history, read, used>>

Weak == [key |-> "weak", by |-> "user"]
Made(c) == [key |-> c, by |-> c]
Restored(c) == [key |-> keySeen[c].key, by |-> c]
Keys == Commands \cup {"weak"}
Files == [key : Keys, by : Commands \cup {"user"}]

ASSUME KeyAssumption == "weak" \notin Commands /\ Absent \notin Files

KeyTypeOK ==
    /\ keyAt \in [Commands -> {"idle", "makes", "rereads", "replaces", "reads", "keeps", "links",
                            "compares", "removes", "claims", "checks", "activates", "undoes",
                            "restores", "unlinks", "done", "dead"}]
    /\ keyTarget \in Files \cup {Absent}
    /\ {keyBackup, claimed, keySeen} \subseteq [Commands -> Files \cup {Absent}]
    /\ history \subseteq Keys /\ read \in [Commands -> SUBSET Keys] /\ used \subseteq Keys

KeyInit ==
    /\ keyAt = [c \in Commands |-> "idle"]
    /\ keyTarget \in {Absent, Weak}
    /\ keyBackup = [c \in Commands |-> Absent] /\ claimed = keyBackup /\ keySeen = keyBackup
    /\ history = {} /\ read = [c \in Commands |-> {}]
    /\ used = IF keyTarget = Weak THEN {"weak"} ELSE {}

KeyGoes(c, here, next) == keyAt[c] = here /\ keyAt' = [keyAt EXCEPT ![c] = next]

\* A file with a link more than its own is not private to anyone who reads it.
Private(file) == file # Absent /\ \A c \in Commands : keyBackup[c] # file

Encrypts(key) == used' = used \cup {key}

-----------------------------------------------------------------------------
(* Reading and making                                                      *)

FindsNone(c) ==
    /\ keyTarget = Absent /\ KeyGoes(c, "idle", "makes")
    /\ UNCHANGED <<keyTarget, keyBackup, claimed, keySeen, history, read, used>>

\* Reading, at first or after another command was faster: a weak passphrase
\* is replaced only by who found it at first.
ReadsKey(c) ==
    /\ keyAt[c] \in {"idle", "rereads"} /\ Private(keyTarget) /\ keyTarget.key # "weak"
    /\ keyAt' = [keyAt EXCEPT ![c] = "done"] /\ Encrypts(keyTarget.key)
    /\ UNCHANGED <<keyTarget, keyBackup, claimed, keySeen, history, read>>

FindsWeak(c) ==
    /\ keyTarget # Absent /\ keyTarget.key = "weak" /\ Private(keyTarget)
    /\ KeyGoes(c, "idle", "replaces")
    /\ UNCHANGED <<keyTarget, keyBackup, claimed, keySeen, history, read, used>>

Refused(c) ==
    /\ \/ keyAt[c] \in {"idle", "rereads"} /\ keyTarget # Absent /\ ~Private(keyTarget)
       \/ keyAt[c] = "rereads" /\ ~(keyTarget # Absent /\ keyTarget.key # "weak")
    /\ keyAt' = [keyAt EXCEPT ![c] = "done"]
    /\ UNCHANGED <<keyTarget, keyBackup, claimed, keySeen, history, read, used>>

Makes(c) ==
    /\ keyTarget = Absent /\ KeyGoes(c, "makes", "done")
    /\ keyTarget' = Made(c) /\ Encrypts(c)
    /\ UNCHANGED <<keyBackup, claimed, keySeen, history, read>>

\* Another command made one meanwhile: the own one is wiped.
MadeByAnother(c) ==
    /\ keyTarget # Absent /\ KeyGoes(c, "makes", "rereads")
    /\ UNCHANGED <<keyTarget, keyBackup, claimed, keySeen, history, read, used>>

-----------------------------------------------------------------------------
(* Replacing a weak one                                                    *)

Inspects(c) ==
    /\ keyAt[c] = "replaces" /\ keyAt' = [keyAt EXCEPT ![c] = IF keyTarget = Absent THEN "activates" ELSE "reads"]
    /\ keyTarget = Absent \/ Private(keyTarget)
    /\ keySeen' = [keySeen EXCEPT ![c] = keyTarget]
    /\ UNCHANGED <<keyTarget, keyBackup, claimed, history, read, used>>

ReadsPrevious(c) ==
    /\ keyTarget = keySeen[c] /\ Private(keyTarget) /\ KeyGoes(c, "reads", "keeps")
    /\ read' = [read EXCEPT ![c] = history]
    /\ UNCHANGED <<keyTarget, keyBackup, claimed, keySeen, history, used>>

KeepsPrevious_Own(c) ==
    /\ KeyGoes(c, "keeps", "links") /\ history' = {keySeen[c].key}
    /\ UNCHANGED <<keyTarget, keyBackup, claimed, keySeen, read, used>>

KeepsPrevious(c) ==
    /\ KeyGoes(c, "keeps", "links") /\ history' = read[c] \cup {keySeen[c].key}
    /\ UNCHANGED <<keyTarget, keyBackup, claimed, keySeen, read, used>>

LinksTarget(c) ==
    /\ keyTarget # Absent /\ KeyGoes(c, "links", "compares")
    /\ keyBackup' = [keyBackup EXCEPT ![c] = keyTarget]
    /\ UNCHANGED <<keyTarget, claimed, keySeen, history, read, used>>

\* The link is of the file that is to be replaced, and that is still there.
LinkIsRight(c) ==
    /\ keyBackup[c] = keySeen[c] /\ keyTarget = keySeen[c] /\ KeyGoes(c, "compares", "removes")
    /\ UNCHANGED <<keyTarget, keyBackup, claimed, keySeen, history, read, used>>

\* A link to another file stays: it is nobody's.
LinkIsWrong(c) ==
    /\ ~(keyBackup[c] = keySeen[c] /\ keyTarget = keySeen[c]) /\ KeyGoes(c, "compares", "done")
    /\ keyBackup' = [keyBackup EXCEPT ![c] = IF @ = keySeen[c] THEN Absent ELSE @]
    /\ UNCHANGED <<keyTarget, claimed, keySeen, history, read, used>>

SeesTarget(c) ==
    /\ keyTarget = keySeen[c] /\ KeyGoes(c, "removes", "claims")
    /\ UNCHANGED <<keyTarget, keyBackup, claimed, keySeen, history, read, used>>

ClaimsTarget(c) ==
    /\ keyTarget # Absent /\ KeyGoes(c, "claims", "checks")
    /\ claimed' = [claimed EXCEPT ![c] = keyTarget] /\ keyTarget' = Absent
    /\ UNCHANGED <<keyBackup, keySeen, history, read, used>>

RemovesTarget(c) ==
    /\ claimed[c] = keySeen[c] /\ KeyGoes(c, "checks", "activates")
    /\ claimed' = [claimed EXCEPT ![c] = Absent]
    /\ UNCHANGED <<keyTarget, keyBackup, keySeen, history, read, used>>

\* The new file is in place; the link to the old one is wiped and removed.
Activates(c) ==
    /\ keyTarget = Absent /\ KeyGoes(c, "activates", "unlinks")
    /\ keyTarget' = Made(c)
    /\ UNCHANGED <<keyBackup, claimed, keySeen, history, read, used>>

Unlinks(c) ==
    /\ KeyGoes(c, "unlinks", "done")
    /\ keyBackup' = [keyBackup EXCEPT ![c] = Absent] /\ Encrypts(c)
    /\ UNCHANGED <<keyTarget, claimed, keySeen, history, read>>

\* Another command made one: it is used, if it is any good.
ActivatedByAnother(c) ==
    /\ keyTarget # Absent /\ KeyGoes(c, "activates", "rereads")
    /\ keyBackup' = [keyBackup EXCEPT ![c] = Absent]
    /\ UNCHANGED <<keyTarget, claimed, keySeen, history, read, used>>

-----------------------------------------------------------------------------
(* Undoing it                                                              *)

\* Another command changed or removed the file: nothing was done yet, or the
\* link has to go, or the file it was a link to has to come back.
Disturbed(c) ==
    /\ \/ /\ keyAt[c] = "replaces" /\ keyTarget # Absent /\ ~Private(keyTarget)
          /\ keyAt' = [keyAt EXCEPT ![c] = "done"]
       \/ /\ keyAt[c] = "reads" /\ ~(keyTarget = keySeen[c] /\ Private(keyTarget))
          /\ keyAt' = [keyAt EXCEPT ![c] = "done"]
       \/ keyAt[c] = "links" /\ keyTarget = Absent /\ keyAt' = [keyAt EXCEPT ![c] = "done"]
       \/ keyAt[c] = "removes" /\ keyTarget # keySeen[c] /\ keyAt' = [keyAt EXCEPT ![c] = "undoes"]
       \/ keyAt[c] = "claims" /\ keyTarget = Absent /\ keyAt' = [keyAt EXCEPT ![c] = "undoes"]
    /\ UNCHANGED <<keyTarget, keyBackup, claimed, keySeen, history, read, used>>

\* Not the file that was looked at a moment before: it is put back if it can be.
GivesBack(c) ==
    /\ claimed[c] # keySeen[c] /\ KeyGoes(c, "checks", "undoes")
    /\ IF keyTarget = Absent
       THEN keyTarget' = claimed[c] /\ claimed' = [claimed EXCEPT ![c] = Absent]
       ELSE UNCHANGED <<keyTarget, claimed>>
    /\ UNCHANGED <<keyBackup, keySeen, history, read, used>>

UndoesLink(c) ==
    /\ keyTarget # Absent /\ KeyGoes(c, "undoes", "done")
    /\ keyBackup' = [keyBackup EXCEPT ![c] = Absent]
    /\ UNCHANGED <<keyTarget, claimed, keySeen, history, read, used>>

MustRestore(c) ==
    /\ keyTarget = Absent /\ KeyGoes(c, "undoes", "restores")
    /\ UNCHANGED <<keyTarget, keyBackup, claimed, keySeen, history, read, used>>

\* An atomic write: what came to the path since is replaced.
RestoresKey(c) ==
    /\ KeyGoes(c, "restores", "done")
    /\ keyTarget' = Restored(c) /\ keyBackup' = [keyBackup EXCEPT ![c] = Absent]
    /\ UNCHANGED <<claimed, keySeen, history, read, used>>

-----------------------------------------------------------------------------
KeyKilled(c) ==
    /\ keyAt[c] \notin {"idle", "done", "dead"} /\ keyAt' = [keyAt EXCEPT ![c] = "dead"]
    /\ UNCHANGED <<keyTarget, keyBackup, claimed, keySeen, history, read, used>>

KeyNext ==
    \E c \in Commands :
        \/ FindsNone(c) \/ ReadsKey(c) \/ FindsWeak(c) \/ Refused(c) \/ Makes(c) \/ MadeByAnother(c)
        \/ Inspects(c) \/ ReadsPrevious(c) \/ KeepsPrevious(c) \/ LinksTarget(c)
        \/ LinkIsRight(c) \/ LinkIsWrong(c) \/ SeesTarget(c) \/ ClaimsTarget(c) \/ RemovesTarget(c)
        \/ Activates(c) \/ Unlinks(c) \/ ActivatedByAnother(c)
        \/ Disturbed(c) \/ GivesBack(c) \/ UndoesLink(c) \/ MustRestore(c) \/ RestoresKey(c)
        \/ KeyKilled(c)

KeySpec == KeyInit /\ [][KeyNext]_keyVars

-----------------------------------------------------------------------------
\* What was encrypted with the weak passphrase before can be decrypted, however
\* many commands replace the file at one time and wherever they are killed.
EarlierIsReadable ==
    \/ "weak" \notin used \/ "weak" \in history
    \/ (keyTarget # Absent /\ keyTarget.key = "weak")
=============================================================================
