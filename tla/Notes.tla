-------------------------------- MODULE Notes --------------------------------
(***************************************************************************)
(* The notes of an account's transactions (backend/accounts/notes, and     *)
(* baseaccount.go): a file that is read when the account is initialized    *)
(* and written whenever a note changes, the merging of the files older     *)
(* versions of the app used, and the note of a transaction that is about   *)
(* to be sent (SendTx in coins/btc/transaction.go and coins/eth).          *)
(*                                                                         *)
(* write truncates the file and then fills it: a crash in between leaves a *)
(* file that cannot be read, and the account can not be initialized again. *)
(***************************************************************************)
EXTENDS Naturals, FiniteSets

CONSTANTS
    Txs,                \* transactions
    Texts,              \* notes
    Blank,              \* "", no note
    LegacyFiles,        \* identifiers the account had in older versions
    MaxCrashes

ASSUME NotesAssumption == Blank \notin Texts /\ "none" \notin LegacyFiles /\ "none" \notin Txs

VARIABLES
    file,               \* the notes in the account's file
    legible,            \* FALSE while the file is truncated
    legacy,             \* [LegacyFiles -> notes], with only blanks if it does not exist
    data,               \* Notes.data
    stage,              \* of the account: closed, migrating, open, failed
    writing,            \* data is being written
    merged,             \* the older file that was merged last, or NoFile
    proposedTxNote,
    sending,            \* the transaction SendTx has broadcast, or NoTx
    meant,              \* what the user wants the notes to be
    crashes

notesVars == <<file, legible, legacy, data, stage, writing, merged, proposedTxNote, sending, meant, crashes>>

NoFile == "none"
NoTx == "none"

NoteMap == [Txs -> Texts \cup {Blank}]
NoNotes == [t \in Txs |-> Blank]

\* MergeLegacy: notes that are there take priority.
Merge_LegacyWins(notes, old) == [t \in Txs |-> IF old[t] # Blank THEN old[t] ELSE notes[t]]
Merge(notes, old) == [t \in Txs |-> IF notes[t] # Blank THEN notes[t] ELSE old[t]]

\* The app has been updated.  An older file that exists has a note.
NotesInit ==
    /\ file \in NoteMap /\ legible = TRUE
    /\ legacy \in [LegacyFiles -> NoteMap]
    \* For one transaction there is a note in at most one of the older files.
    /\ \A f, g \in LegacyFiles : \A t \in Txs : f # g => legacy[f][t] = Blank \/ legacy[g][t] = Blank
    /\ data = NoNotes
    /\ stage = "closed" /\ writing = FALSE /\ merged = NoFile
    /\ proposedTxNote = Blank /\ sending = NoTx
    /\ meant = [t \in Txs |-> IF file[t] # Blank THEN file[t]
                              ELSE IF \E f \in LegacyFiles : legacy[f][t] # Blank
                                   THEN legacy[CHOOSE f \in LegacyFiles : legacy[f][t] # Blank][t]
                                   ELSE Blank]
    /\ crashes = 0

-----------------------------------------------------------------------------
(* Reading and writing *)

BeginWrite(notes) == data' = notes /\ writing' = TRUE /\ legible' = FALSE

EndWrite ==
    /\ writing
    /\ file' = data /\ legible' = TRUE /\ writing' = FALSE
    /\ UNCHANGED <<merged, legacy, data, stage, proposedTxNote, sending, meant, crashes>>

Initialize ==
    /\ stage = "closed"
    /\ IF legible THEN data' = file /\ stage' = "migrating"
       ELSE stage' = "failed" /\ UNCHANGED data
    /\ UNCHANGED <<merged, file, legible, legacy, writing, proposedTxNote, sending, meant, crashes>>

\* migrateLegacyNotes: an older file is merged, and removed once that is written.
MergeLegacy(f) ==
    /\ stage = "migrating" /\ ~writing /\ merged = NoFile /\ legacy[f] # NoNotes
    /\ merged' = f
    /\ BeginWrite(Merge(data, legacy[f]))
    /\ UNCHANGED <<file, legacy, stage, proposedTxNote, sending, meant, crashes>>

RemoveLegacy(f) ==
    /\ stage = "migrating" /\ merged = f /\ ~writing
    /\ legacy' = [legacy EXCEPT ![f] = NoNotes]
    /\ merged' = NoFile
    /\ UNCHANGED <<file, legible, data, stage, writing, proposedTxNote, sending, meant, crashes>>

Migrated ==
    /\ stage = "migrating" /\ ~writing
    /\ \A f \in LegacyFiles : legacy[f] = NoNotes
    /\ stage' = "open"
    /\ UNCHANGED <<merged, file, legible, legacy, data, writing, proposedTxNote, sending, meant, crashes>>

-----------------------------------------------------------------------------
(* Setting notes *)

\* Notes.SetTxNote: a blank note deletes the entry.
Entry(t, note) == [data EXCEPT ![t] = note]

SetTxNote(t, note) ==
    /\ stage = "open" /\ ~writing
    /\ BeginWrite(Entry(t, note))
    /\ meant' = [meant EXCEPT ![t] = note]

EditNote ==
    /\ \E t \in Txs, note \in Texts \cup {Blank} : SetTxNote(t, note)
    /\ UNCHANGED <<merged, file, legacy, stage, proposedTxNote, sending, crashes>>

ProposeTxNote ==
    /\ stage = "open"
    /\ proposedTxNote' \in Texts \cup {Blank}
    /\ UNCHANGED <<merged, file, legible, legacy, data, stage, writing, sending, meant, crashes>>

\* SendTx broadcasts the transaction, takes the proposed note and sets it.
Broadcast ==
    /\ stage = "open" /\ sending = NoTx
    /\ sending' \in {t \in Txs : data[t] = Blank}
    /\ UNCHANGED <<merged, file, legible, legacy, data, stage, writing, proposedTxNote, meant, crashes>>

GetAndClearProposedTxNote ==
    /\ sending # NoTx
    /\ SetTxNote(sending, proposedTxNote)
    /\ proposedTxNote' = Blank
    /\ sending' = NoTx
    /\ UNCHANGED <<merged, file, legacy, stage, crashes>>

\* What was being written may be lost, and everything else with it.
Crash ==
    /\ stage \in {"migrating", "open"} /\ crashes < MaxCrashes
    /\ crashes' = crashes + 1
    /\ stage' = "closed" /\ writing' = FALSE
    /\ data' = NoNotes /\ merged' = NoFile /\ proposedTxNote' = Blank /\ sending' = NoTx
    /\ UNCHANGED <<file, legible, legacy, meant>>

NotesNext ==
    \/ Initialize \/ EndWrite \/ Migrated \/ EditNote \/ ProposeTxNote
    \/ Broadcast \/ GetAndClearProposedTxNote \/ Crash
    \/ \E f \in LegacyFiles : MergeLegacy(f) \/ RemoveLegacy(f)

NotesSpec == NotesInit /\ [][NotesNext]_notesVars

-----------------------------------------------------------------------------
(* Properties *)

\* An open account shows the notes the user means it to: all those of older
\* files, the newer one for a transaction that had a note in both, every later
\* change - and no note that was deleted comes back, although the merging is
\* repeated when the app was killed before the older file was removed.
NotesAsMeant == stage = "open" => data = meant

\* No note is lost by a crash: a note is in the file or in an older one, or the
\* app was killed while it was writing.
NotesOnDisk ==
    legible => \A t \in Txs : meant[t] # Blank =>
                  file[t] = meant[t] \/ \E f \in LegacyFiles : legacy[f][t] = meant[t]

\* No note is lost, and none shown that the user does not mean.
NotesKept == NotesAsMeant /\ NotesOnDisk

-----------------------------------------------------------------------------
(* The inductive invariant *)

NotesTypeOK ==
    /\ file \in NoteMap /\ data \in NoteMap /\ meant \in NoteMap
    /\ legacy \in [LegacyFiles -> NoteMap]
    /\ legible \in BOOLEAN /\ writing \in BOOLEAN
    /\ stage \in {"closed", "migrating", "open", "failed"}
    /\ merged \in LegacyFiles \cup {NoFile}
    /\ proposedTxNote \in Texts \cup {Blank}
    /\ sending \in Txs \cup {NoTx}

\* The older files do not contradict each other.
LegacyAgrees ==
    \A f, g \in LegacyFiles : \A t \in Txs : f # g => legacy[f][t] = Blank \/ legacy[g][t] = Blank

\* Together with the older files, these notes are what the user means.
Completes(notes, t) ==
    IF notes[t] # Blank THEN meant[t] = notes[t]
    ELSE \/ \E f \in LegacyFiles : legacy[f][t] # Blank /\ meant[t] = legacy[f][t]
         \/ meant[t] = Blank /\ \A f \in LegacyFiles : legacy[f][t] = Blank

\* The notes in memory are complete once the account is initialized, and so is
\* the file, unless it is being written or was torn; an older file that was
\* merged has nothing that the notes lack.
NotesInv ==
    /\ NotesTypeOK
    /\ LegacyAgrees
    /\ legible => \A t \in Txs : Completes(file, t)
    /\ stage \in {"migrating", "open"} =>
         /\ \A t \in Txs : Completes(data, t)
         /\ writing => ~legible
         /\ ~writing => legible
         /\ legible => file = data
    /\ stage \notin {"migrating", "open"} => ~writing /\ merged = NoFile
    /\ merged # NoFile => /\ legacy[merged] # NoNotes
                          /\ \A t \in Txs : legacy[merged][t] # Blank => data[t] # Blank
    /\ stage = "open" => merged = NoFile /\ \A f \in LegacyFiles : legacy[f] = NoNotes
=============================================================================
