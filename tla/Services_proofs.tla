---------------------------- MODULE Services_proofs ----------------------------
(***************************************************************************)
(* Proofs about the smaller services of the backend: proving an address    *)
(* (AOPP), the notes of an account (Notes), sending (Sending), the         *)
(* configuration files (ConfigStore), the exchange rates (Rates), making   *)
(* a transaction (MakeTx), and lists of transactions and charts            *)
(* (Timeline).                                                             *)
(***************************************************************************)
EXTENDS AOPP, Notes, Sending, ConfigStore, Rates, MakeTx, Timeline, NatLemmas, TLAPS

-----------------------------------------------------------------------------
(* AOPP                                                                    *)

Fields == {"state", "callback", "message", "coin", "format", "accounts", "code", "script"}

\* The fields of a request, and what a change of its state leaves alone.
LEMMA FieldsAre == DOMAIN inactive = Fields
  BY DEF inactive, Fields

\* A request is told by four of its fields.
LEMMA SameRequest ==
  ASSUME NEW q, NEW r, r.callback = q.callback, r.message = q.message, r.coin = q.coin,
         r.format = q.format
  PROVE  /\ Requested(q) => Requested(r)
         /\ AnyFormat(r) <=> AnyFormat(q)
         /\ \A a : Fits(a, r) <=> Fits(a, q)
  BY DEF Requested, AnyFormat, Fits

\* aoppKeystoreRegistered: the accounts it finds fit the request.
LEMMA RegisteredOK ==
  ASSUME NEW q, DOMAIN q = Fields, Requested(q), q.state = "awaiting", NEW ks
  PROVE  /\ RequestOK(KeystoreRegistered(q, ks))
         /\ KeystoreRegistered(q, ks).state \in {"error", "syncing", "choosing"}
  <1> DEFINE found == Candidates(q, ks)
             r == KeystoreRegistered(q, ks)
  <1>1. \A a \in found : Fits(a, q)
    BY DEF Candidates, Fits
  <1>2. CASE ~CanSignMessage(ks, q.coin) \/ found = {}
    <2>1. r = [q EXCEPT !.state = "error"]
      BY <1>2 DEF KeystoreRegistered
    <2> QED BY <2>1, FieldsAre DEF RequestOK, Fields
  <1>3. CASE CanSignMessage(ks, q.coin) /\ found # {} /\ Cardinality(found) = 1
    <2> DEFINE a == CHOOSE b \in found : TRUE
    <2>1. a \in found
      BY <1>3
    <2>2. r = [[q EXCEPT !.accounts = found] EXCEPT !.state = "syncing", !.code = a]
      BY <1>3 DEF KeystoreRegistered, Chosen
    <2> HIDE DEF a, found, r
    <2>3. /\ DOMAIN r = Fields /\ r.state = "syncing" /\ r.code = a
          /\ r.callback = q.callback /\ r.message = q.message /\ r.coin = q.coin /\ r.format = q.format
      BY <2>2 DEF Fields
    <2>4. Requested(r) /\ Fits(r.code, r)
      BY <1>1, <2>1, <2>3, SameRequest
    <2>5. RequestOK(r)
      BY <2>3, <2>4, FieldsAre DEF RequestOK
    <2> QED BY <2>3, <2>5 DEF r
  <1>4. CASE CanSignMessage(ks, q.coin) /\ found # {} /\ Cardinality(found) # 1
    <2>1. r = [q EXCEPT !.state = "choosing", !.accounts = found]
      BY <1>4 DEF KeystoreRegistered
    <2> HIDE DEF found, r
    <2>2. /\ DOMAIN r = Fields /\ r.state = "choosing" /\ r.accounts = found
          /\ r.callback = q.callback /\ r.message = q.message /\ r.coin = q.coin /\ r.format = q.format
      BY <2>1 DEF Fields
    <2>3. Requested(r) /\ \A a \in r.accounts : Fits(a, r)
      BY <1>1, <2>2, SameRequest
    <2>4. RequestOK(r)
      BY <2>2, <2>3, FieldsAre DEF RequestOK
    <2> QED BY <2>2, <2>4 DEF r
  <1> QED BY <1>2, <1>3, <1>4

\* The address that is proved has the type that the request asks for.
LEMMA ScriptFits ==
  ASSUME NEW q, Fits(q.code, q), ~AnyFormat(q), ConfigIndex(q) \in DOMAIN Unused(q.code)
  PROVE  Unused(q.code)[ConfigIndex(q)] = q.format
  <1> DEFINE s == Conf[q.code].scripts
             i == ConfigIndex(q)
  <1>1. i \in DOMAIN s /\ s[i] = q.format
    BY DEF Fits, ConfigIndex, FindScriptType
  <1>2. CASE Conf[q.code].insured
    <2>1. Unused(q.code) = <<"p2wpkh">>
      BY <1>2 DEF Unused
    <2>2. i = 1
      BY <2>1
    <2>3. s[1] = "p2wpkh"
      BY <1>2, AccountsAssumption DEF Fits
    <2> QED BY <1>1, <2>1, <2>2, <2>3
  <1>3. CASE ~Conf[q.code].insured
    BY <1>1, <1>3 DEF Unused
  <1> QED BY <1>2, <1>3

\* No request, no proof.
LEMMA AoppInitInv == AoppInit => AoppInv
  <1> SUFFICES ASSUME AoppInit PROVE AoppInv
    OBVIOUS
  <1>1. RequestOK(aopp) /\ aopp.state = "inactive"
    BY DEF AoppInit, RequestOK, inactive
  <1>2. AoppSound
    BY <1>1 DEF AoppInit, AoppSound, ProofMatchesRequest, NotAwaitingTheRegistered
  <1> QED BY <1>1, <1>2 DEF AoppInit, AoppInv, HolderOK

\* What each step does to the request, the holder of the lock and the proof.
LEMMA AoppStepInv == AoppInv /\ [AoppNext]_aoppVars => AoppInv'
  <1> SUFFICES ASSUME AoppInv, [AoppNext]_aoppVars PROVE AoppInv'
    OBVIOUS
  <1>0. /\ RequestOK(aopp) /\ HolderOK /\ ProofMatchesRequest /\ NotAwaitingTheRegistered
        /\ plugged \in Keystores \cup {NoKeystore} /\ DOMAIN aopp = Fields
    BY FieldsAre DEF AoppInv, AoppSound, RequestOK
  <1>1. CASE HandleURI
    <2>1. PICK uri \in URIs : aopp' = Parsed(uri)
      BY <1>1 DEF HandleURI
    <2>2. holder = "free" /\ UNCHANGED <<keystore, plugged, holder, proof>>
      BY <1>1 DEF HandleURI, MayHandle, Locked
    <2>3. RequestOK(aopp') /\ aopp'.state \in {"user-approval", "error"}
      <3>1. CASE uri.flaw = ""
        <4>1. /\ DOMAIN aopp' = Fields /\ aopp'.state = "user-approval" /\ aopp'.callback = uri.id
              /\ aopp'.message = uri.id /\ aopp'.coin = uri.coin /\ aopp'.format = uri.format
          BY <2>1, <3>1 DEF Parsed, inactive, Fields
        <4>2. Requested(aopp')
          BY <3>1, <4>1 DEF Requested
        <4> QED BY <4>1, <4>2, FieldsAre DEF RequestOK
      <3>2. CASE uri.flaw # ""
        <4>1. DOMAIN aopp' = Fields /\ aopp'.state = "error"
          BY <2>1, <3>2 DEF Parsed, inactive, Fields
        <4> QED BY <4>1, FieldsAre DEF RequestOK
      <3> QED BY <3>1, <3>2
    <2> QED BY <1>0, <2>2, <2>3 DEF AoppInv, HolderOK, AoppSound, ProofMatchesRequest, NotAwaitingTheRegistered
  <1>2. CASE AOPPCancel
    <2>1. holder = "free" /\ UNCHANGED <<keystore, plugged, holder, proof>> /\ aopp' = inactive
      BY <1>2 DEF AOPPCancel, Locked
    <2>2. RequestOK(inactive) /\ inactive.state = "inactive"
      BY DEF RequestOK, inactive
    <2> QED BY <1>0, <2>1, <2>2 DEF AoppInv, HolderOK, AoppSound, ProofMatchesRequest, NotAwaitingTheRegistered
  <1>3. CASE AOPPApprove
    <2> DEFINE q == [aopp EXCEPT !.state = "awaiting"]
    <2>1. /\ aopp.state = "user-approval" /\ UNCHANGED <<keystore, plugged, proof>> /\ holder = "free"
          /\ \/ keystore = NoKeystore /\ aopp' = q /\ UNCHANGED holder
             \/ aopp' = KeystoreRegistered(q, keystore) /\ HoldWhile(aopp')
      BY <1>3 DEF AOPPApprove, Locked
    <2>2. /\ DOMAIN q = Fields /\ q.state = "awaiting" /\ q.callback = aopp.callback
          /\ q.message = aopp.message /\ q.coin = aopp.coin /\ q.format = aopp.format
      BY <1>0 DEF Fields
    <2> HIDE DEF q
    <2>3. Requested(q)
      BY <1>0, <2>1, <2>2, SameRequest DEF RequestOK
    <2>4. CASE keystore = NoKeystore /\ aopp' = q /\ UNCHANGED holder
      <3>1. RequestOK(q)
        BY <2>2, <2>3, FieldsAre DEF RequestOK
      <3> QED BY <1>0, <2>1, <2>2, <2>4, <3>1
              DEF AoppInv, HolderOK, AoppSound, ProofMatchesRequest, NotAwaitingTheRegistered
    <2>5. CASE aopp' = KeystoreRegistered(q, keystore) /\ HoldWhile(aopp')
      <3>1. RequestOK(aopp') /\ aopp'.state \in {"error", "syncing", "choosing"}
        BY <2>2, <2>3, <2>5, RegisteredOK
      <3> QED BY <1>0, <2>1, <2>5, <3>1
              DEF AoppInv, HolderOK, HoldWhile, AoppSound, ProofMatchesRequest, NotAwaitingTheRegistered
    <2> QED BY <2>1, <2>4, <2>5
  <1>4. CASE AOPPChooseAccount
    <2>1. PICK code \in aopp.accounts : aopp' = [aopp EXCEPT !.state = "syncing", !.code = code]
      BY <1>4 DEF AOPPChooseAccount, Chosen
    <2>2. aopp.state = "choosing" /\ UNCHANGED <<keystore, plugged, proof>> /\ HoldWhile(aopp')
      BY <1>4 DEF AOPPChooseAccount
    <2>3. /\ DOMAIN aopp' = Fields /\ aopp'.state = "syncing" /\ aopp'.code = code
          /\ aopp'.callback = aopp.callback /\ aopp'.message = aopp.message
          /\ aopp'.coin = aopp.coin /\ aopp'.format = aopp.format
      BY <1>0, <2>1 DEF Fields
    <2>4. Requested(aopp') /\ Fits(aopp'.code, aopp')
      <3>1. Requested(aopp) /\ Fits(code, aopp)
        BY <1>0, <2>2 DEF RequestOK
      <3> QED BY <2>3, <3>1, SameRequest
    <2>5. RequestOK(aopp')
      BY <2>3, <2>4, FieldsAre DEF RequestOK
    <2> QED BY <1>0, <2>2, <2>3, <2>5
            DEF AoppInv, HolderOK, HoldWhile, AoppSound, ProofMatchesRequest, NotAwaitingTheRegistered
  <1>5. CASE Plug \/ Unplug
    BY <1>0, <1>5 DEF Plug, Unplug, AoppInv, HolderOK, AoppSound, ProofMatchesRequest,
                      NotAwaitingTheRegistered
  <1>6. CASE RegisterKeystoreAOPP
    <2>1. /\ holder = "free" /\ keystore' = plugged /\ aopp' = KeystoreRegistered(aopp, plugged)
          /\ HoldWhile(aopp') /\ UNCHANGED <<plugged, proof>>
      BY <1>6 DEF RegisterKeystoreAOPP, Locked, OnRegister
    <2>2. CASE aopp.state = "awaiting"
      <3>1. RequestOK(aopp') /\ aopp'.state \in {"error", "syncing", "choosing"}
        BY <1>0, <2>1, <2>2, RegisteredOK DEF RequestOK
      <3> QED BY <1>0, <2>1, <3>1
              DEF AoppInv, HolderOK, HoldWhile, AoppSound, ProofMatchesRequest, NotAwaitingTheRegistered
    <2>3. CASE aopp.state # "awaiting"
      <3>1. aopp' = aopp
        BY <2>1, <2>3 DEF KeystoreRegistered
      <3> QED BY <1>0, <2>1, <2>3, <3>1
              DEF AoppInv, HolderOK, HoldWhile, AoppSound, ProofMatchesRequest, NotAwaitingTheRegistered
    <2> QED BY <2>2, <2>3
  <1>7. CASE DeregisterKeystoreAOPP
    BY <1>0, <1>7 DEF DeregisterKeystoreAOPP, AoppInv, HolderOK, AoppSound, ProofMatchesRequest,
                      NotAwaitingTheRegistered
  <1>8. CASE ChooseFails
    <2>1. aopp' = [aopp EXCEPT !.state = "error"] /\ holder' = "free" /\ UNCHANGED <<keystore, plugged, proof>>
      BY <1>8 DEF ChooseFails, Fail
    <2>2. DOMAIN aopp' = Fields /\ aopp'.state = "error"
      BY <1>0, <2>1 DEF Fields
    <2>3. RequestOK(aopp')
      BY <2>2, FieldsAre DEF RequestOK
    <2> QED BY <1>0, <2>1, <2>2, <2>3 DEF AoppInv, HolderOK, AoppSound, ProofMatchesRequest,
                      NotAwaitingTheRegistered
  <1>9. CASE Synced
    <2> DEFINE i == ConfigIndex(aopp)
    <2>1. holder = "syncing" /\ aopp.state = "syncing" /\ UNCHANGED <<keystore, plugged, proof>>
      BY <1>0, <1>9 DEF Synced, HolderOK
    <2>2. CASE UNCHANGED <<aopp, holder>>
      BY <1>0, <2>1, <2>2 DEF AoppInv, HolderOK, AoppSound, ProofMatchesRequest, NotAwaitingTheRegistered
    <2>3. CASE /\ i \in DOMAIN Unused(aopp.code) /\ holder' = "signing"
               /\ aopp' = [aopp EXCEPT !.state = "signing", !.script = Unused(aopp.code)[i]]
      <3>1. /\ DOMAIN aopp' = Fields /\ aopp'.state = "signing" /\ aopp'.script = Unused(aopp.code)[i]
            /\ aopp'.code = aopp.code /\ aopp'.callback = aopp.callback /\ aopp'.message = aopp.message
            /\ aopp'.coin = aopp.coin /\ aopp'.format = aopp.format
        BY <1>0, <2>3 DEF Fields
      <3>2. Requested(aopp) /\ Fits(aopp.code, aopp)
        BY <1>0, <2>1 DEF RequestOK
      <3>3. Requested(aopp') /\ Fits(aopp'.code, aopp') /\ (AnyFormat(aopp') <=> AnyFormat(aopp))
        BY <3>1, <3>2, SameRequest
      <3>4. AnyFormat(aopp') \/ aopp'.script = aopp'.format
        BY <2>3, <3>1, <3>2, <3>3, ScriptFits
      <3>5. RequestOK(aopp')
        BY <3>1, <3>3, FieldsAre DEF RequestOK
      <3> QED BY <1>0, <2>1, <2>3, <3>1, <3>4, <3>5
              DEF AoppInv, HolderOK, AoppSound, ProofMatchesRequest, NotAwaitingTheRegistered, AnyFormat
    <2> QED BY <1>9, <2>2, <2>3 DEF Synced
  <1>10. CASE Sign
    <2>1. /\ aopp.state = "signing" /\ UNCHANGED <<aopp, keystore, plugged>> /\ holder' = "posting"
          /\ proof' = [callback |-> 0, message |-> aopp.message, coin |-> Conf[aopp.code].coin,
                       script |-> aopp.script]
      BY <1>0, <1>10 DEF Sign, HolderOK
    <2>2. Conf[aopp.code].coin = aopp.coin
      BY <1>0, <2>1 DEF RequestOK, Fits
    <2> QED BY <1>0, <2>1, <2>2
            DEF AoppInv, HolderOK, AoppSound, ProofMatchesRequest, NotAwaitingTheRegistered
  <1>11. CASE Post
    <2>1. /\ aopp.state = "signing" /\ holder' = "free" /\ UNCHANGED <<keystore, plugged>>
          /\ proof = [callback |-> 0, message |-> aopp.message, coin |-> aopp.coin, script |-> aopp.script]
          /\ proof' = [proof EXCEPT !.callback = aopp.callback]
          /\ aopp' = [aopp EXCEPT !.state = "success"]
      BY <1>0, <1>11 DEF Post, HolderOK
    <2>2. /\ DOMAIN aopp' = Fields /\ aopp'.state = "success" /\ aopp'.callback = aopp.callback
          /\ aopp'.message = aopp.message /\ aopp'.coin = aopp.coin /\ aopp'.format = aopp.format
      BY <1>0, <2>1 DEF Fields
    <2>3. Requested(aopp)
      BY <1>0, <2>1 DEF RequestOK
    <2>4. RequestOK(aopp')
      BY <2>2, <2>3, SameRequest, FieldsAre DEF RequestOK
    <2>5. /\ proof'.callback = aopp.callback /\ proof'.message = aopp.message
          /\ proof'.coin = aopp.coin /\ proof'.script = aopp.script
      BY <2>1
    <2>6. AnyFormat(aopp) \/ aopp.script = aopp.format
      BY <1>0, <2>1 DEF HolderOK
    <2>7. ProofMatchesRequest'
      <3>1. PICK uri \in URIs : /\ uri.flaw = "" /\ aopp.callback = uri.id /\ aopp.message = uri.id
                                /\ aopp.coin = uri.coin /\ aopp.format = uri.format
        BY <2>3 DEF Requested
      <3> QED BY <2>5, <2>6, <3>1 DEF ProofMatchesRequest, AnyFormat
    <2> QED BY <1>0, <2>1, <2>2, <2>4, <2>7 DEF AoppInv, HolderOK, AoppSound, NotAwaitingTheRegistered
  <1>12. CASE UNCHANGED aoppVars
    BY <1>0, <1>12 DEF aoppVars, AoppInv, HolderOK, AoppSound, ProofMatchesRequest, NotAwaitingTheRegistered
  <1> QED BY <1>1, <1>2, <1>3, <1>4, <1>5, <1>6, <1>7, <1>8, <1>9, <1>10, <1>11, <1>12 DEF AoppNext

\* The inductive invariant of aopp.go.
THEOREM AoppInvariance == AoppSpec => []AoppInv
  BY AoppInitInv, AoppStepInv, PTL DEF AoppSpec

\* What reaches the callback of a request is the proof that the request asked for, and no request
\* waits for a keystore that is registered, for any URIs, accounts and keystores.
THEOREM AoppSoundHolds == AoppSpec => []AoppSound
  <1>1. AoppInv => AoppSound
    BY DEF AoppInv
  <1> QED BY <1>1, AoppInvariance, PTL

-----------------------------------------------------------------------------
(* Notes: they are the ones the user means, through the merging of older   *)
(* files and a crash at any write.                                         *)

\* The app starts with files that complete each other.
LEMMA NotesInitInv == NotesInit => NotesInv
<1> SUFFICES ASSUME NotesInit PROVE NotesInv
  OBVIOUS
<1> USE NotesAssumption DEF NotesInit
<1>1. meant \in NoteMap
  <2> SUFFICES ASSUME NEW t \in Txs
               PROVE  (IF file[t] # Blank THEN file[t]
                       ELSE IF \E f \in LegacyFiles : legacy[f][t] # Blank
                            THEN legacy[CHOOSE f \in LegacyFiles : legacy[f][t] # Blank][t]
                            ELSE Blank) \in Texts \cup {Blank}
    BY DEF NoteMap
  <2>1. CASE \E f \in LegacyFiles : legacy[f][t] # Blank
    <3>1. (CHOOSE f \in LegacyFiles : legacy[f][t] # Blank) \in LegacyFiles
      BY <2>1
    <3> QED BY <2>1, <3>1 DEF NoteMap
  <2>2. CASE ~\E f \in LegacyFiles : legacy[f][t] # Blank
    BY <2>2 DEF NoteMap
  <2> QED BY <2>1, <2>2
<1>2. NotesTypeOK
  BY <1>1 DEF NotesTypeOK, NoteMap, NoNotes, NoFile, NoTx
<1>3. ASSUME NEW t \in Txs PROVE Completes(file, t)
  <2>1. CASE file[t] = Blank /\ \E f \in LegacyFiles : legacy[f][t] # Blank
    <3> DEFINE c == CHOOSE f \in LegacyFiles : legacy[f][t] # Blank
    <3>1. c \in LegacyFiles /\ legacy[c][t] # Blank
      BY <2>1
    <3>2. meant[t] = legacy[c][t]
      BY <2>1
    <3> QED BY <2>1, <3>1, <3>2 DEF Completes
  <2>2. CASE ~(file[t] = Blank /\ \E f \in LegacyFiles : legacy[f][t] # Blank)
    BY <2>2 DEF Completes
  <2> QED BY <2>1, <2>2
<1> QED BY <1>2, <1>3 DEF NotesInv, LegacyAgrees, NoFile

\* A change of a note concerns an open account, whose older files are gone.
LEMMA SetTxNoteStep ==
    ASSUME NotesInv, NEW t \in Txs, NEW note \in Texts \cup {Blank}, SetTxNote(t, note),
           UNCHANGED <<merged, file, legacy, stage>>,
           proposedTxNote' \in Texts \cup {Blank}, sending' \in Txs \cup {NoTx}
    PROVE  NotesInv'
<1>1. data \in NoteMap /\ meant \in NoteMap /\ stage = "open" /\ merged = NoFile
  BY DEF NotesInv, NotesTypeOK, SetTxNote
<1>2. data' = [data EXCEPT ![t] = note] /\ meant' = [meant EXCEPT ![t] = note]
      /\ writing' = TRUE /\ legible' = FALSE
  BY DEF SetTxNote, BeginWrite, Entry
<1>3. \A f \in LegacyFiles, u \in Txs : legacy'[f][u] = Blank
  BY <1>1 DEF NotesInv, NoNotes
<1>4. \A u \in Txs : data[u] = meant[u]
  BY <1>1 DEF NotesInv, Completes, NoNotes
<1>5. \A u \in Txs : data'[u] = meant'[u]
  BY <1>1, <1>2, <1>4 DEF NoteMap
<1>6. \A u \in Txs : Completes(data, u)'
  BY <1>3, <1>5 DEF Completes
<1>7. NotesTypeOK' /\ LegacyAgrees'
  BY <1>1, <1>2 DEF NotesInv, NotesTypeOK, LegacyAgrees, NoteMap
<1> QED BY <1>1, <1>2, <1>6, <1>7 DEF NotesInv

\* Each action preserves the invariant.
LEMMA NotesStepInv == NotesInv /\ [NotesNext]_notesVars => NotesInv'
<1> SUFFICES ASSUME NotesInv, [NotesNext]_notesVars PROVE NotesInv'
  OBVIOUS
<1> USE NotesAssumption DEF NoFile, NoTx
<1>0. NotesTypeOK /\ LegacyAgrees
  BY DEF NotesInv
<1>1. CASE Initialize
  <2>1. NotesTypeOK' /\ LegacyAgrees'
    BY <1>0, <1>1 DEF Initialize, NotesTypeOK, LegacyAgrees
  <2>2. \A t \in Txs : Completes(file, t)' = Completes(file, t)
    BY <1>1 DEF Initialize, Completes
  <2>3. legible => \A t \in Txs : Completes(data, t)' = Completes(file, t)
    BY <1>1 DEF Initialize, Completes
  <2> QED BY <1>1, <2>1, <2>2, <2>3 DEF Initialize, NotesInv
<1>2. CASE EndWrite
  <2>1. NotesTypeOK' /\ LegacyAgrees'
    BY <1>0, <1>2 DEF EndWrite, NotesTypeOK, LegacyAgrees
  <2>2. \A t \in Txs : Completes(file, t)' = Completes(data, t)
    BY <1>2 DEF EndWrite, Completes
  <2>3. \A t \in Txs : Completes(data, t)' = Completes(data, t)
    BY <1>2 DEF EndWrite, Completes
  <2> QED BY <1>2, <2>1, <2>2, <2>3 DEF EndWrite, NotesInv
<1>3. CASE Migrated
  <2>1. NotesTypeOK' /\ LegacyAgrees'
    BY <1>0, <1>3 DEF Migrated, NotesTypeOK, LegacyAgrees
  <2>2. \A t \in Txs : Completes(file, t)' = Completes(file, t) /\ Completes(data, t)' = Completes(data, t)
    BY <1>3 DEF Migrated, Completes
  <2>3. merged = NoFile /\ stage' = "open" /\ UNCHANGED <<merged, legible, writing, file, data, legacy>>
    BY <1>0, <1>3 DEF Migrated, NotesInv, NotesTypeOK
  <2>4. \A f \in LegacyFiles : legacy'[f] = NoNotes'
    BY <1>3 DEF Migrated, NoNotes
  <2>5. stage = "migrating"
    BY <1>3 DEF Migrated
  <2> QED BY <2>1, <2>2, <2>3, <2>4, <2>5 DEF NotesInv
<1>4. CASE EditNote
  <2>1. PICK t \in Txs, note \in Texts \cup {Blank} : SetTxNote(t, note)
    BY <1>4 DEF EditNote
  <2>2. UNCHANGED <<merged, file, legacy, stage, proposedTxNote, sending>>
    BY <1>4 DEF EditNote
  <2>3. proposedTxNote' \in Texts \cup {Blank} /\ sending' \in Txs \cup {NoTx}
    BY <1>0, <2>2 DEF NotesTypeOK
  <2> QED BY <2>1, <2>2, <2>3, SetTxNoteStep
<1>5. CASE ProposeTxNote
  BY <1>5 DEF ProposeTxNote, NotesInv, NotesTypeOK, LegacyAgrees, Completes
<1>6. CASE Broadcast
  BY <1>6 DEF Broadcast, NotesInv, NotesTypeOK, LegacyAgrees, Completes
<1>7. CASE GetAndClearProposedTxNote
  <2>1. sending \in Txs /\ proposedTxNote \in Texts \cup {Blank}
    BY <1>0, <1>7 DEF GetAndClearProposedTxNote, NotesTypeOK
  <2> QED BY <1>7, <2>1, SetTxNoteStep DEF GetAndClearProposedTxNote
<1>8. CASE Crash
  <2>1. NotesTypeOK' /\ LegacyAgrees'
    <3>1. NoNotes \in NoteMap
      BY DEF NoNotes, NoteMap
    <3> QED BY <1>0, <1>8, <3>1 DEF Crash, NotesTypeOK, LegacyAgrees
  <2>2. \A t \in Txs : Completes(file, t)' = Completes(file, t)
    BY <1>8 DEF Crash, Completes
  <2> QED BY <1>8, <2>1, <2>2 DEF Crash, NotesInv
<1>9. ASSUME NEW f \in LegacyFiles, MergeLegacy(f) PROVE NotesInv'
  <2> DEFINE notes == Merge(data, legacy[f])
  <2>1. notes \in NoteMap
    BY DEF Merge, NoteMap, NotesInv, NotesTypeOK
  <2>2. \A t \in Txs : notes[t] = (IF data[t] # Blank THEN data[t] ELSE legacy[f][t])
    BY DEF Merge
  <2>3. data' = notes /\ merged' = f /\ UNCHANGED <<legacy, meant, file, stage, proposedTxNote, sending>>
        /\ writing' = TRUE /\ legible' = FALSE /\ stage = "migrating" /\ legacy[f] # NoNotes
    BY <1>9 DEF MergeLegacy, BeginWrite
  <2> HIDE DEF notes
  <2>4. ASSUME NEW t \in Txs PROVE Completes(data, t)'
    <3>1. Completes(data, t) /\ notes[t] = IF data[t] # Blank THEN data[t] ELSE legacy[f][t]
      BY <2>2, <2>3 DEF NotesInv
    <3>2. \A g \in LegacyFiles : g # f => legacy[f][t] = Blank \/ legacy[g][t] = Blank
      BY <1>0 DEF LegacyAgrees
    <3>3. CASE data[t] # Blank
      BY <2>3, <3>1, <3>3 DEF Completes
    <3>4. CASE data[t] = Blank /\ legacy[f][t] = Blank
      BY <2>3, <3>1, <3>4 DEF Completes
    <3>5. CASE data[t] = Blank /\ legacy[f][t] # Blank
      <4>1. meant[t] = legacy[f][t]
        BY <3>1, <3>2, <3>5 DEF Completes
      <4> QED BY <2>3, <3>1, <3>5, <4>1 DEF Completes
    <3> QED BY <3>3, <3>4, <3>5
  <2>5. NotesTypeOK' /\ LegacyAgrees'
    <3>1. data' \in NoteMap /\ merged' \in LegacyFiles
      BY <2>1, <2>3
    <3>2. LegacyAgrees'
      BY <1>0, <2>3 DEF LegacyAgrees
    <3> QED BY <1>0, <2>3, <3>1, <3>2 DEF NotesTypeOK
  <2>6. \A t \in Txs : legacy[f][t] # Blank => notes[t] # Blank
    BY <2>2
  <2> QED BY <2>3, <2>4, <2>5, <2>6 DEF NotesInv
<1>10. ASSUME NEW f \in LegacyFiles, RemoveLegacy(f) PROVE NotesInv'
  <2>1. \A t \in Txs : NoNotes[t] = Blank
    BY DEF NoNotes
  <2>2. NoNotes \in NoteMap
    BY DEF NoNotes, NoteMap
  <2>3. legacy' = [legacy EXCEPT ![f] = NoNotes] /\ merged = f /\ merged' = "none" /\ stage = "migrating"
        /\ UNCHANGED <<file, legible, data, stage, writing, proposedTxNote, sending, meant, crashes>>
    BY <1>10 DEF RemoveLegacy
  <2>4. \A t \in Txs : legacy[f][t] # Blank => data[t] # Blank
    BY <2>3 DEF NotesInv
  <2>5. NotesTypeOK' /\ LegacyAgrees'
    BY <2>1, <2>2, <2>3 DEF NotesInv, NotesTypeOK, LegacyAgrees
  <2>6. ASSUME NEW t \in Txs PROVE Completes(data, t)'
    BY <2>1, <2>3, <2>4 DEF NotesInv, NotesTypeOK, Completes
  <2>7. ~writing /\ legible /\ file = data
    BY <1>10 DEF RemoveLegacy, NotesInv
  <2> QED BY <2>3, <2>5, <2>6, <2>7 DEF NotesInv, Completes
<1>11. CASE UNCHANGED notesVars
  BY <1>11 DEF notesVars, NotesInv, NotesTypeOK, LegacyAgrees, Completes
<1> QED
  BY <1>1, <1>2, <1>3, <1>4, <1>5, <1>6, <1>7, <1>8, <1>9, <1>10, <1>11 DEF NotesNext

\* The inductive invariant of the notes: at each moment the file, or the notes
\* in memory, complete what the older files have.
THEOREM NotesInvariance == NotesSpec => []NotesInv
<1> QED
  BY NotesInitInv, NotesStepInv, PTL DEF NotesSpec

\* An open account shows the notes the user means it to, whatever was merged and however
\* often the app was killed during SetTxNote or MergeLegacy; and a note is in the file or
\* in an older one, unless a crash came between truncating the file and writing it.
THEOREM NotesKeptHolds == NotesSpec => []NotesKept
<1>1. ASSUME NotesInv PROVE NotesAsMeant
  <2> SUFFICES ASSUME stage = "open" PROVE data = meant
    BY DEF NotesAsMeant
  <2>1. \A t \in Txs : data[t] = meant[t]
    BY <1>1 DEF NotesInv, Completes, NoNotes
  <2> QED BY <1>1, <2>1 DEF NotesInv, NotesTypeOK, NoteMap
<1>2. NotesInv => NotesOnDisk
  BY DEF NotesInv, Completes, NotesOnDisk
<1>3. NotesInv => NotesKept
  BY <1>1, <1>2 DEF NotesKept
<1> QED
  BY <1>3, NotesInvariance, PTL

-----------------------------------------------------------------------------
(* Sending: SendTx broadcasts the transaction that the user confirmed.     *)

\* The request to the device is about the transaction it was built from.
LEMMA RequestTx == ASSUME NEW tx PROVE SigningRequest(tx).tx = tx
  BY DEF SigningRequest

\* At the start nothing is proposed, signed or sent.
LEMMA SendingInitInv == SendingInit => SendingInv
  BY DEF SendingInit, SendingInv, SentAsConfirmed

LEMMA SendingStepInv == SendingInv /\ [SendingNext]_sendingVars => SendingInv'
<1> SUFFICES ASSUME SendingInv, [SendingNext]_sendingVars PROVE SendingInv'
  OBVIOUS
<1>1. CASE UNCHANGED sendingVars
  BY <1>1 DEF sendingVars, SendingInv, SentAsConfirmed
<1>2. CASE \/ \E tx \in Forms : Edit(tx)
           \/ Propose
           \/ \E i \in DOMAIN requests : TxProposal(i) \/ Answer(i)
  \* Edits, requests and answers replace the active proposal, not the one being signed.
  BY <1>2 DEF Edit, Propose, TxProposal, Answer, signingVars, SendingInv, SentAsConfirmed
<1>3. CASE Send
  BY <1>3 DEF Send, SendingInv, SentAsConfirmed
<1>4. CASE TakeProposal
  BY <1>4 DEF TakeProposal, SendingInv, SentAsConfirmed
<1>5. CASE StartSigning
  <2>1. sender = [pc |-> "sign", tx |-> sender.tx]
    BY <1>5 DEF StartSigning, SendingInv
  <2>2. sender' = [pc |-> "device", tx |-> sender.tx] /\ sent' = NoProposal /\ confirmed' = confirmed
    BY <1>5, <2>1 DEF StartSigning, SendingInv
  <2>3. device'.tx = sender.tx
    BY <1>5, RequestTx DEF StartSigning
  <2> QED
    BY <2>2, <2>3 DEF SendingInv, SentAsConfirmed
<1>6. CASE SigningFails
  BY <1>6 DEF SigningFails, SendingInv, SentAsConfirmed
<1>7. CASE Confirm
  <2>1. sender = [pc |-> "device", tx |-> sender.tx] /\ device.tx = sender.tx
    BY <1>7 DEF Confirm, SendingInv
  <2>2. sender' = [pc |-> "signed", tx |-> sender.tx] /\ confirmed' = sender.tx /\ sent' = NoProposal
    BY <1>7, <2>1 DEF Confirm, SendingInv
  <2> QED
    BY <2>2 DEF SendingInv, SentAsConfirmed
<1>8. CASE Abort
  BY <1>8 DEF Abort, SendingInv, SentAsConfirmed
<1>9. CASE TransactionBroadcast
  BY <1>9 DEF TransactionBroadcast, Signed, SendingInv, SentAsConfirmed
<1>10. CASE Finish
  BY <1>10 DEF Finish, SendingInv, SentAsConfirmed
<1> QED
  BY <1>1, <1>2, <1>3, <1>4, <1>5, <1>6, <1>7, <1>8, <1>9, <1>10 DEF SendingNext

\* The invariant of SendTx, for any transactions, number of requests and firmware.
THEOREM SendingInvariance == SendingSpec => []SendingInv
<1> QED
  BY SendingInitInv, SendingStepInv, PTL DEF SendingSpec

\* SendTx broadcasts the transaction that the user confirmed on the device, whatever
\* proposals come in while it is signed.
THEOREM SentAsConfirmedHolds == SendingSpec => []SentAsConfirmed
<1>1. SendingInv => SentAsConfirmed
  BY DEF SendingInv
<1> QED
  BY SendingInvariance, <1>1, PTL

\* One turn of the loops of signBTCTransaction.
ConfigTurn(tx, i, configs) == IF Named(tx, i) THEN addScriptConfig(configs, TypeAt(tx, i)) ELSE configs

\* The number of inputs and outputs.
Parts(tx) == Len(tx.of.inputs) + Len(tx.of.outputs)

\* The loops compute what scriptConfigs says: the function it is defined by exists.
LEMMA ConfigsAfter ==
    ASSUME NEW tx, NEW N \in Nat, N = Parts(tx)
    PROVE  \A i \in 0..N : scriptConfigs(tx)[i] = IF i = 0 THEN <<>> ELSE ConfigTurn(tx, i, scriptConfigs(tx)[i - 1])
  <1>0. \A i \in 0..N : i # 0 => i - 1 \in 0..N
    OBVIOUS
  <1> DEFINE Body(f) == [i \in 0..N |-> IF i = 0 THEN <<>> ELSE ConfigTurn(tx, i, f[i - 1])]
             Good(f, k) == \A i \in 0..k : f[i] = IF i = 0 THEN <<>> ELSE ConfigTurn(tx, i, f[i - 1])
             K == {k \in Nat : \E f : Good(f, k)}
  <1>1. scriptConfigs(tx) = CHOOSE f : f = Body(f)
    BY DEF scriptConfigs, ConfigTurn, Parts
  <1>2. 0 \in K
    <2> DEFINE f == [i \in 0..0 |-> <<>>]
    <2>1. Good(f, 0)
      OBVIOUS
    <2> QED BY <2>1
  <1>3. ASSUME NEW k \in Nat, k \in K PROVE k + 1 \in K
    <2>1. PICK f : Good(f, k)
      BY <1>3
    <2> DEFINE g == [i \in 0..(k + 1) |-> IF i <= k THEN f[i] ELSE ConfigTurn(tx, k + 1, f[k])]
    <2>2. ASSUME NEW i \in 0..(k + 1) PROVE g[i] = IF i = 0 THEN <<>> ELSE ConfigTurn(tx, i, g[i - 1])
      <3>1. CASE i = 0
        BY <2>1, <3>1
      <3>2. CASE i # 0 /\ i <= k
        <4>1. i \in 0..k /\ i - 1 \in 0..(k + 1) /\ i - 1 <= k
          BY <3>2
        <4>2. g[i] = f[i] /\ g[i - 1] = f[i - 1]
          BY <3>2, <4>1
        <4> QED BY <2>1, <3>2, <4>1, <4>2
      <3>3. CASE i = k + 1
        <4>1. k \in 0..(k + 1) /\ (k + 1) - 1 = k /\ ~(k + 1 <= k) /\ k <= k /\ k + 1 # 0
          OBVIOUS
        <4>2. g[k + 1] = ConfigTurn(tx, k + 1, f[k]) /\ g[k] = f[k]
          BY <4>1
        <4> QED BY <3>3, <4>1, <4>2
      <3> QED BY <3>1, <3>2, <3>3
    <2> HIDE DEF g
    <2>3. Good(g, k + 1)
      BY <2>2
    <2> QED BY <2>3
  <1> HIDE DEF K
  <1>4. Nat \subseteq K
    BY <1>2, <1>3, NatInduct
  <1>5. PICK f : Good(f, N)
    BY <1>4 DEF K
  <1> DEFINE h == [i \in 0..N |-> f[i]]
  <1>6. h = Body(h)
    <2>1. ASSUME NEW i \in 0..N PROVE h[i] = IF i = 0 THEN <<>> ELSE ConfigTurn(tx, i, h[i - 1])
      <3>1. i # 0 => i - 1 \in 0..N
        BY <1>0
      <3>2. h[i] = f[i] /\ (i # 0 => h[i - 1] = f[i - 1])
        BY <3>1
      <3>3. f[i] = IF i = 0 THEN <<>> ELSE ConfigTurn(tx, i, f[i - 1])
        BY <1>5
      <3> HIDE DEF h
      <3> QED BY <3>2, <3>3
    <2> QED BY <2>1
  <1> HIDE DEF h, Body
  <1>7. scriptConfigs(tx) = Body(scriptConfigs(tx))
    <2>1. (CHOOSE x : x = Body(x)) = Body(CHOOSE x : x = Body(x))
      BY <1>6, Zenon
    <2> QED BY <1>1, <2>1, Zenon
  <1> DEFINE c == scriptConfigs(tx)
  <1> HIDE DEF c
  <1>8. c = Body(c)
    BY <1>7 DEF c
  <1>9. \A i \in 0..N : c[i] = IF i = 0 THEN <<>> ELSE ConfigTurn(tx, i, c[i - 1])
    BY <1>8 DEF Body
  <1> QED BY <1>9 DEF c

\* w begins with s and holds t.
ExtendsBy(w, s, t) ==
    /\ Len(s) <= Len(w) /\ \A k \in 1..Len(s) : w[k] = s[k]
    /\ \E k \in 1..Len(w) : w[k] = t

\* addScriptConfig extends the configurations by at most the type, which they then hold.
LEMMA AddRight ==
    ASSUME NEW T, NEW s \in Seq(T), NEW t \in T
    PROVE  addScriptConfig(s, t) \in Seq(T) /\ ExtendsBy(addScriptConfig(s, t), s, t)
  <1>1. CASE Contains(s, t)
    <2>1. addScriptConfig(s, t) = s
      BY <1>1 DEF addScriptConfig
    <2>2. \E k \in 1..Len(s) : s[k] = t
      BY <1>1 DEF Contains
    <2>3. ExtendsBy(s, s, t)
      BY <2>2 DEF ExtendsBy
    <2> QED BY <2>1, <2>3
  <1>2. CASE ~Contains(s, t)
    <2>1. addScriptConfig(s, t) = Append(s, t)
      BY <1>2 DEF addScriptConfig
    <2>2. Len(s) \in Nat /\ Len(Append(s, t)) = Len(s) + 1 /\ Append(s, t)[Len(s) + 1] = t
      OBVIOUS
    <2>3. \A k \in 1..Len(s) : Append(s, t)[k] = s[k]
      OBVIOUS
    <2>4. Append(s, t) \in Seq(T)
      OBVIOUS
    <2>5. ExtendsBy(Append(s, t), s, t)
      BY <2>2, <2>3 DEF ExtendsBy
    <2> QED BY <2>1, <2>4, <2>5
  <1> QED BY <1>1, <1>2

\* The configurations c are typed, none of them is ever moved, and the type of an input or output
\* that names one is among them.
OnlyGrows(c, tx, N, T) ==
    /\ \A i \in 0..N : c[i] \in Seq(T)
    /\ \A i \in 1..N : /\ Len(c[i - 1]) <= Len(c[i])
                       /\ \A k \in 1..Len(c[i - 1]) : c[i][k] = c[i - 1][k]
                       /\ Named(tx, i) => \E k \in 1..Len(c[i]) : c[i][k] = TypeAt(tx, i)

\* The loops keep to OnlyGrows.
LEMMA ConfigsRight ==
    ASSUME NEW T, NEW tx, NEW N \in Nat, N = Parts(tx),
           \A i \in 1..N : Named(tx, i) => TypeAt(tx, i) \in T
    PROVE  OnlyGrows(scriptConfigs(tx), tx, N, T)
  <1> DEFINE c == scriptConfigs(tx)
  <1>1. \A i \in 0..N : c[i] = IF i = 0 THEN <<>> ELSE ConfigTurn(tx, i, c[i - 1])
    BY ConfigsAfter
  <1> HIDE DEF c
  <1> DEFINE K == {i \in Nat : i <= N => c[i] \in Seq(T)}
  <1>3. 0 \in K
    <2>1. 0 \in 0..N /\ 0 = 0
      OBVIOUS
    <2>2. c[0] = <<>>
      BY <1>1, <2>1
    <2>3. <<>> \in Seq(T)
      OBVIOUS
    <2>4. c[0] \in Seq(T)
      BY <2>2, <2>3, Zenon
    <2> QED BY <2>4
  <1>4. ASSUME NEW i \in Nat, i \in K PROVE i + 1 \in K
    <2> SUFFICES ASSUME i + 1 <= N PROVE c[i + 1] \in Seq(T)
      OBVIOUS
    <2>1. i <= N /\ i + 1 \in 0..N /\ i + 1 \in 1..N /\ i + 1 # 0 /\ (i + 1) - 1 = i
      OBVIOUS
    <2>2. c[i] \in Seq(T)
      BY <1>4, <2>1
    <2>3. c[i + 1] = ConfigTurn(tx, i + 1, c[i])
      BY <1>1, <2>1
    <2> QED BY AddRight, <2>1, <2>2, <2>3 DEF ConfigTurn
  <1> HIDE DEF K
  <1>5. Nat \subseteq K
    BY <1>3, <1>4, NatInduct
  <1>6. \A i \in 0..N : c[i] \in Seq(T)
    BY <1>5 DEF K
  <1>7. ASSUME NEW i \in 1..N
        PROVE  /\ Len(c[i - 1]) <= Len(c[i])
               /\ \A k \in 1..Len(c[i - 1]) : c[i][k] = c[i - 1][k]
               /\ Named(tx, i) => \E k \in 1..Len(c[i]) : c[i][k] = TypeAt(tx, i)
    <2>1. i \in 0..N /\ i - 1 \in 0..N /\ i # 0
      OBVIOUS
    <2>2. c[i - 1] \in Seq(T) /\ c[i] = ConfigTurn(tx, i, c[i - 1])
      BY <1>1, <1>6, <2>1
    <2>3. CASE Named(tx, i)
      <3>1. c[i] = addScriptConfig(c[i - 1], TypeAt(tx, i)) /\ TypeAt(tx, i) \in T
        BY <2>2, <2>3 DEF ConfigTurn
      <3>2. ExtendsBy(c[i], c[i - 1], TypeAt(tx, i))
        BY AddRight, <2>2, <3>1
      <3> QED BY <3>2 DEF ExtendsBy
    <2>4. CASE ~Named(tx, i)
      <3>1. c[i] = c[i - 1]
        BY <2>2, <2>4 DEF ConfigTurn
      <3> QED BY <2>2, <2>4, <3>1
    <2> QED BY <2>3, <2>4
  <1> QED BY <1>6, <1>7 DEF c, OnlyGrows

\* What a configuration's position names once, it names in the request as sent.
LEMMA ConfigsKept ==
    ASSUME NEW T, NEW tx, NEW N \in Nat, N = Parts(tx),
           \A i \in 1..N : Named(tx, i) => TypeAt(tx, i) \in T,
           NEW i \in 1..N, Named(tx, i)
    PROVE  scriptConfigs(tx)[N][IndexOf(scriptConfigs(tx)[i], TypeAt(tx, i))] = TypeAt(tx, i)
  <1> DEFINE c == scriptConfigs(tx)
             x == IndexOf(c[i], TypeAt(tx, i))
  <1>1. /\ \A j \in 0..N : c[j] \in Seq(T)
        /\ \A j \in 1..N : /\ Len(c[j - 1]) <= Len(c[j])
                           /\ \A k \in 1..Len(c[j - 1]) : c[j][k] = c[j - 1][k]
                           /\ Named(tx, j) => \E k \in 1..Len(c[j]) : c[j][k] = TypeAt(tx, j)
    <2>1. OnlyGrows(c, tx, N, T)
      BY ConfigsRight
    <2> HIDE DEF c
    <2> QED BY <2>1 DEF OnlyGrows
  <1> HIDE DEF c
  <1>2. i \in 0..N
    OBVIOUS
  <1>3. x \in 1..Len(c[i]) /\ c[i][x] = TypeAt(tx, i)
    <2>1. \E k \in DOMAIN c[i] : c[i][k] = TypeAt(tx, i)
      BY <1>1, <1>2
    <2>2. DOMAIN c[i] = 1..Len(c[i])
      BY <1>1, <1>2
    <2> QED BY <2>1, <2>2 DEF IndexOf
  <1> HIDE DEF x
  <1> DEFINE K == {d \in Nat : i + d <= N => x \in 1..Len(c[i + d]) /\ c[i + d][x] = TypeAt(tx, i)}
  <1>4. 0 \in K
    <2>1. i + 0 = i
      OBVIOUS
    <2> QED BY <1>3, <2>1
  <1>5. ASSUME NEW d \in Nat, d \in K PROVE d + 1 \in K
    <2> SUFFICES ASSUME i + (d + 1) <= N
                 PROVE  x \in 1..Len(c[i + (d + 1)]) /\ c[i + (d + 1)][x] = TypeAt(tx, i)
      OBVIOUS
    <2> DEFINE j == i + (d + 1)
    <2>1. j \in 1..N /\ j \in 0..N /\ j - 1 = i + d /\ i + d <= N /\ i + d \in 0..N
      OBVIOUS
    <2>2. x \in 1..Len(c[i + d]) /\ c[i + d][x] = TypeAt(tx, i)
      BY <1>5, <2>1
    <2> HIDE DEF j
    <2>3. Len(c[i + d]) <= Len(c[j]) /\ c[j][x] = c[i + d][x]
      BY <1>1, <2>1, <2>2
    <2>4. Len(c[i + d]) \in Nat /\ Len(c[j]) \in Nat
      BY <1>1, <2>1
    <2>5. x \in 1..Len(c[j]) /\ c[j][x] = TypeAt(tx, i)
      BY <2>2, <2>3, <2>4
    <2> QED BY <2>5 DEF j
  <1> HIDE DEF K
  <1>6. N - i \in K /\ i + (N - i) = N
    <2>1. N - i \in Nat /\ i + (N - i) = N
      OBVIOUS
    <2> QED BY <1>4, <1>5, <2>1, NatInduct
  <1>7. c[N][x] = TypeAt(tx, i)
    BY <1>6 DEF K
  <1> QED BY <1>7 DEF c, x

\* The signatures made for the request are valid for the transaction.
SignedRight(request, tx) ==
    /\ SignedInputs(request) = tx.of.inputs
    /\ SignedOutputs(request) = [j \in DOMAIN tx.of.outputs |-> tx.of.outputs[j].type]

\* The device derives the script types of the transaction from the request it was sent.
LEMMA RequestFits ==
    ASSUME NEW tx, tx.of \in Forms
    PROVE  SignedRight(SigningRequest(tx), tx)
  <1> DEFINE ins == tx.of.inputs
             outs == tx.of.outputs
             N == Parts(tx)
             c == scriptConfigs(tx)
             T == STRING
             O == [type : STRING, ours : BOOLEAN, change : BOOLEAN]
             R == SigningRequest(tx)
             types == [j \in DOMAIN outs |-> outs[j].type]
  <1>1. ins \in Seq(T) /\ outs \in Seq(O)
    BY SendingAssumption
  <1>2. \A o \in O : o.type \in T
    OBVIOUS
  <1> HIDE DEF T, O
  <1>3. /\ Len(ins) \in Nat /\ Len(outs) \in Nat /\ DOMAIN ins = 1..Len(ins) /\ DOMAIN outs = 1..Len(outs)
        /\ \A i \in 1..Len(ins) : ins[i] \in T
        /\ \A j \in 1..Len(outs) : outs[j] \in O
    BY <1>1
  <1> HIDE DEF ins, outs
  <1>4. N \in Nat /\ N = Len(ins) + Len(outs)
    <2>1. N = Len(ins) + Len(outs)
      BY DEF Parts, ins, outs
    <2> HIDE DEF N
    <2> QED BY <1>3, <2>1
  <1> HIDE DEF N
  <1>5. \A i \in 1..Len(ins) : Named(tx, i) /\ TypeAt(tx, i) = ins[i] /\ i \in 1..N
    <2> SUFFICES ASSUME NEW i \in 1..Len(ins)
                 PROVE  Named(tx, i) /\ TypeAt(tx, i) = ins[i] /\ i \in 1..N
      OBVIOUS
    <2>1. i <= Len(ins) /\ i \in 1..N
      BY <1>3, <1>4
    <2> QED BY <2>1 DEF Named, TypeAt, ins
  <1>6. \A j \in 1..Len(outs) :
            /\ Len(ins) + j \in 1..N
            /\ Named(tx, Len(ins) + j) <=> Ours(outs[j])
            /\ TypeAt(tx, Len(ins) + j) = outs[j].type
    <2> SUFFICES ASSUME NEW j \in 1..Len(outs)
                 PROVE  /\ Len(ins) + j \in 1..N
                        /\ Named(tx, Len(ins) + j) <=> Ours(outs[j])
                        /\ TypeAt(tx, Len(ins) + j) = outs[j].type
      OBVIOUS
    <2>1. ~(Len(ins) + j <= Len(ins)) /\ (Len(ins) + j) - Len(ins) = j /\ Len(ins) + j \in 1..N
      BY <1>3, <1>4
    <2> QED BY <2>1 DEF Named, TypeAt, ins, outs
  <1>7. \A i \in 1..N : TypeAt(tx, i) \in T
    <2> SUFFICES ASSUME NEW i \in 1..N PROVE TypeAt(tx, i) \in T
      OBVIOUS
    <2>1. CASE i <= Len(ins)
      <3>1. i \in 1..Len(ins)
        BY <1>3, <1>4, <2>1
      <3> QED BY <1>3, <1>5, <3>1
    <2>2. CASE ~(i <= Len(ins))
      <3>1. i - Len(ins) \in 1..Len(outs) /\ Len(ins) + (i - Len(ins)) = i
        BY <1>3, <1>4, <2>2
      <3>2. TypeAt(tx, i) = outs[i - Len(ins)].type
        BY <1>6, <3>1
      <3> QED BY <1>2, <1>3, <3>1, <3>2
    <2> QED BY <2>1, <2>2
  <1>8. \A i \in 1..N : Named(tx, i) => c[N][IndexOf(c[i], TypeAt(tx, i))] = TypeAt(tx, i)
    <2> SUFFICES ASSUME NEW i \in 1..N, Named(tx, i)
                 PROVE  c[N][IndexOf(c[i], TypeAt(tx, i))] = TypeAt(tx, i)
      OBVIOUS
    <2>1. N = Parts(tx)
      BY DEF N
    <2>2. \A k \in 1..N : Named(tx, k) => TypeAt(tx, k) \in T
      BY <1>7
    <2> QED BY <1>4, <2>1, <2>2, ConfigsKept
  <1> HIDE DEF c
  <1>9. /\ R.configs = c[N]
        /\ R.inputs = [i \in DOMAIN ins |-> IndexOf(c[i], TypeAt(tx, i))]
        /\ R.outputs = [j \in DOMAIN outs |->
                           [ours |-> Ours(outs[j]), type |-> outs[j].type,
                            index |-> IF Ours(outs[j])
                                      THEN IndexOf(c[Len(ins) + j], TypeAt(tx, Len(ins) + j)) ELSE 0]]
    BY DEF SigningRequest, c, N, Parts, ins, outs
  <1> HIDE DEF R
  <1>10. SignedInputs(R) = ins
    <2>1. SignedInputs(R) = [i \in 1..Len(ins) |-> c[N][IndexOf(c[i], TypeAt(tx, i))]]
      BY <1>3, <1>9 DEF SignedInputs
    <2>2. \A i \in 1..Len(ins) : c[N][IndexOf(c[i], TypeAt(tx, i))] = ins[i]
      BY <1>5, <1>8
    <2>3. ins = [i \in 1..Len(ins) |-> ins[i]]
      BY <1>1
    <2> QED BY <2>1, <2>2, <2>3
  <1>11. SignedOutputs(R) = types
    <2>1. SignedOutputs(R) = [j \in 1..Len(outs) |->
             IF Ours(outs[j]) THEN c[N][IndexOf(c[Len(ins) + j], TypeAt(tx, Len(ins) + j))]
                              ELSE outs[j].type]
      BY <1>3, <1>9 DEF SignedOutputs
    <2>2. \A j \in 1..Len(outs) :
             Ours(outs[j]) => c[N][IndexOf(c[Len(ins) + j], TypeAt(tx, Len(ins) + j))] = outs[j].type
      BY <1>6, <1>8
    <2> QED BY <1>3, <2>1, <2>2
  <1> QED BY <1>10, <1>11 DEF SignedRight, R, ins, outs

\* At the start nothing is asked for or signed.
LEMMA FitInitInv == SendingInit => FitInv
  <1> SUFFICES ASSUME SendingInit PROVE FitInv
    OBVIOUS
  <1>1. requests \in Seq([pc : {"sent", "done", "failed", "answered"}, tx : [id : Nat, of : Forms]])
    BY DEF SendingInit
  <1>2. sender.pc = "idle"
    BY DEF SendingInit
  <1> QED BY <1>1, <1>2 DEF SendingInit, FitInv, SignaturesFit

\* The parts of the invariant: what was asked for, and what is being signed.
EnteredOK ==
    /\ dueRequest \in Forms \union {NoProposal}
    /\ requests \in Seq([pc : {"sent", "done", "failed", "answered"}, tx : [id : Nat, of : Forms]])
    /\ activeTxProposal # NoProposal => activeTxProposal.of \in Forms
SigningOK ==
    /\ sender.pc \in {"sign", "device", "signed"} => sender.tx.of \in Forms
    /\ sender.pc \in {"device", "signed"} => txValidityCheck(sender.tx)
    /\ SignaturesFit

\* The second part is kept by a step that leaves SendTx alone.
LEMMA SigningOKKept == SigningOK /\ UNCHANGED <<sender, device, broken>> => SigningOK'
  BY DEF SigningOK, txValidityCheck, SignedInputs, SignedOutputs, SignaturesFit

\* Every step keeps both parts; StartSigning by RequestFits.
LEMMA FitStepInv == SendingInv /\ FitInv /\ [SendingNext]_sendingVars => FitInv'
  <1> SUFFICES ASSUME SendingInv, EnteredOK, SigningOK, [SendingNext]_sendingVars PROVE EnteredOK' /\ SigningOK'
    BY DEF FitInv, EnteredOK, SigningOK
  <1> DEFINE Request == [pc : {"sent", "done", "failed", "answered"}, tx : [id : Nat, of : Forms]]
  <1>0. requests \in Seq(Request) /\ Len(requests) \in Nat /\ DOMAIN requests = 1..Len(requests)
    BY DEF EnteredOK
  <1>1. CASE UNCHANGED sendingVars
    BY <1>1, SigningOKKept DEF sendingVars, EnteredOK
  <1>2. ASSUME NEW tx \in Forms, Edit(tx) PROVE EnteredOK' /\ SigningOK'
    BY <1>2, SigningOKKept DEF Edit, signingVars, EnteredOK
  <1>3. CASE Propose
    <2> DEFINE r == [pc |-> "sent", tx |-> [id |-> Len(requests) + 1, of |-> dueRequest]]
    <2>1. dueRequest \in Forms /\ requests' = Append(requests, r)
      BY <1>3 DEF Propose, EnteredOK
    <2>2. r \in Request
      <3> DEFINE n == Len(requests) + 1
      <3>1. n \in Nat
        BY <1>0
      <3> HIDE DEF n
      <3>2. [pc |-> "sent", tx |-> [id |-> n, of |-> dueRequest]] \in Request
        BY <2>1, <3>1
      <3> QED BY <3>2 DEF n
    <2> HIDE DEF r, Request
    <2>3. requests' \in Seq(Request)
      BY <1>0, <2>1, <2>2
    <2> QED BY <1>3, <2>3, SigningOKKept DEF Propose, signingVars, EnteredOK, Request
  <1>4. ASSUME NEW i \in DOMAIN requests, NEW pc \in {"sent", "done", "failed", "answered"},
               requests' = [requests EXCEPT ![i].pc = pc]
        PROVE  requests' \in Seq(Request) /\ requests[i].tx.of \in Forms
    <2>1. requests[i] \in Request
      <3> HIDE DEF Request
      <3> QED BY <1>0
    <2>2. [requests[i] EXCEPT !.pc = pc] \in Request /\ requests[i].tx.of \in Forms
      BY <2>1
    <2> DEFINE r == [requests[i] EXCEPT !.pc = pc]
    <2>3. requests' = [requests EXCEPT ![i] = r]
      BY <1>4
    <2> HIDE DEF r, Request
    <2> QED BY <1>0, <2>2, <2>3 DEF r
  <1>5. ASSUME NEW i \in DOMAIN requests, TxProposal(i) PROVE EnteredOK' /\ SigningOK'
    <2>1. \/ requests' = [requests EXCEPT ![i].pc = "done"]
          \/ requests' = [requests EXCEPT ![i].pc = "failed"]
      BY <1>5 DEF TxProposal
    <2>2. requests' \in Seq(Request) /\ requests[i].tx.of \in Forms
      <3> HIDE DEF Request
      <3>1. "done" \in {"sent", "done", "failed", "answered"} /\ "failed" \in {"sent", "done", "failed", "answered"}
        OBVIOUS
      <3> QED BY <1>4, <2>1, <3>1, Zenon
    <2>3. activeTxProposal' = requests[i].tx \/ activeTxProposal' = activeTxProposal
      BY <1>5 DEF TxProposal
    <2>4. UNCHANGED <<dueRequest, sender, device, broken>>
      BY <1>5 DEF TxProposal, uiVars, signingVars
    <2> HIDE DEF Request
    <2> QED BY <2>2, <2>3, <2>4, SigningOKKept DEF EnteredOK, Request
  <1>6. ASSUME NEW i \in DOMAIN requests, Answer(i) PROVE EnteredOK' /\ SigningOK'
    <2>1. requests' \in Seq(Request)
      <3> HIDE DEF Request
      <3>1. "answered" \in {"sent", "done", "failed", "answered"} /\ requests' = [requests EXCEPT ![i].pc = "answered"]
        BY <1>6 DEF Answer
      <3> QED BY <1>4, <3>1, Zenon
    <2>2. UNCHANGED <<dueRequest, activeTxProposal, sender, device, broken>>
      BY <1>6 DEF Answer, signingVars
    <2> QED BY <2>1, <2>2, SigningOKKept DEF EnteredOK
  <1> DEFINE Kept == UNCHANGED <<dueRequest, requests, activeTxProposal>>
  <1>7. Kept => EnteredOK'
    BY DEF EnteredOK
  <1>8. CASE Send
    BY <1>7, <1>8 DEF Send, uiVars, SigningOK, SignaturesFit
  <1>9. CASE TakeProposal
    BY <1>7, <1>9 DEF TakeProposal, uiVars, EnteredOK, SigningOK, SignaturesFit
  <1>10. CASE StartSigning
    <2>1. sender.pc = "sign" /\ sender.tx.of \in Forms /\ sender = [pc |-> sender.pc, tx |-> sender.tx]
      BY <1>10 DEF StartSigning, SigningOK, SendingInv
    <2>2. sender'.tx = sender.tx
      BY <1>10, <2>1 DEF StartSigning
    <2>3. SignedRight(device', sender'.tx)
      BY <1>10, <2>1, <2>2, RequestFits DEF StartSigning
    <2>4. txValidityCheck(sender.tx)'
      BY <2>3 DEF SignedRight, txValidityCheck, SignedInputs, SignedOutputs
    <2> QED BY <1>7, <1>10, <2>1, <2>2, <2>4 DEF StartSigning, uiVars, SigningOK, SignaturesFit
  <1>11. CASE SigningFails
    BY <1>7, <1>11 DEF SigningFails, uiVars, SigningOK, SignaturesFit
  <1>12. CASE Confirm
    <2>1. sender.pc = "device" /\ sender = [pc |-> sender.pc, tx |-> sender.tx]
      BY <1>12 DEF Confirm, SendingInv
    <2>2. sender'.tx = sender.tx /\ UNCHANGED <<device, broken>>
      BY <1>12, <2>1 DEF Confirm
    <2>3. txValidityCheck(sender.tx)'
      BY <2>1, <2>2 DEF SigningOK, txValidityCheck, SignedInputs, SignedOutputs
    <2> QED BY <1>7, <1>12, <2>1, <2>2, <2>3 DEF Confirm, uiVars, SigningOK, SignaturesFit
  <1>13. CASE Abort
    BY <1>7, <1>13 DEF Abort, uiVars, SigningOK, SignaturesFit
  <1>14. CASE TransactionBroadcast
    BY <1>7, <1>14 DEF TransactionBroadcast, uiVars, SigningOK, SignaturesFit
  <1>15. CASE Finish
    BY <1>7, <1>15 DEF Finish, SigningOK, SignaturesFit
  <1> QED BY <1>1, <1>2, <1>3, <1>5, <1>6, <1>8, <1>9, <1>10, <1>11, <1>12, <1>13, <1>14, <1>15
          DEF SendingNext

\* The invariant of signing, for any transactions with any number of inputs and outputs of any
\* script types.
THEOREM FitInvariance == SendingSpec => []FitInv
<1> QED
  BY FitInitInv, FitStepInv, SendingInvariance, PTL DEF SendingSpec

\* The signatures of the BitBox02 are valid for the transaction, in whatever order the script
\* types of its inputs and outputs appear and whatever firmware it runs: txValidityCheck never
\* panics.
THEOREM SignaturesFitHolds == SendingSpec => []SignaturesFit
<1>1. FitInv => SignaturesFit
  BY DEF FitInv
<1> QED
  BY FitInvariance, <1>1, PTL

-----------------------------------------------------------------------------
(* The configuration files                                                 *)

\* An app configuration with some of its fields replaced.
LEMMA Replaced ==
  ASSUME NEW b, NEW f, NEW s, NEW n, NEW b2, NEW f2, NEW c,
         c = [backend |-> b, frontend |-> f, server |-> s, notify |-> n]
  PROVE  /\ [c EXCEPT !.backend = b2] = [backend |-> b2, frontend |-> f, server |-> s, notify |-> n]
         /\ [c EXCEPT !.backend = b2, !.frontend = f2] = [backend |-> b2, frontend |-> f2, server |-> s, notify |-> n]
  <1>1. [c EXCEPT !.backend = b2] = [backend |-> b2, frontend |-> f, server |-> s, notify |-> n]
    OBVIOUS
  <1>2. [c EXCEPT !.backend = b2, !.frontend = f2] = [backend |-> b2, frontend |-> f2, server |-> s, notify |-> n]
    <2> DEFINE d == [c EXCEPT !.backend = b2]
    <2>1. [c EXCEPT !.backend = b2, !.frontend = f2] = [d EXCEPT !.frontend = f2]
      OBVIOUS
    <2>2. d = [backend |-> b2, frontend |-> f, server |-> s, notify |-> n]
      BY <1>1
    <2> HIDE DEF d
    <2>3. [d EXCEPT !.frontend = f2] = [backend |-> b2, frontend |-> f2, server |-> s, notify |-> n]
      BY <2>2
    <2> QED BY <2>1, <2>3
  <1> QED BY <1>1, <1>2

LEMMA ReplacedServer ==
  ASSUME NEW b, NEW f, NEW s, NEW n, NEW s2, NEW c,
         c = [backend |-> b, frontend |-> f, server |-> s, notify |-> n]
  PROVE  [c EXCEPT !.server = s2] = [backend |-> b, frontend |-> f, server |-> s2, notify |-> n]
  OBVIOUS

\* Reading and migrating a file that the app wrote changes nothing.
LEMMA Settled ==
  ASSUME NEW c \in Configs
  PROVE  migrateElectrumX(Moved(Unmarshal(c))) = c
  <1>1. PICK b \in [Keys -> Settings \cup {Default}], s \in {"new", "own"}, n \in BOOLEAN :
          c = [backend |-> b, frontend |-> [k \in Keys |-> Absent], server |-> s, notify |-> n]
    BY DEF Configs
  <1>2. \A k \in Keys : b[k] # Absent
    BY ConfigAssumption
  <1>3. Unmarshal(c) = c
    <2>1. [k \in Keys |-> IF c.backend[k] = Absent THEN Default ELSE c.backend[k]] = b
      BY <1>1, <1>2
    <2>2. Unmarshal(c) = [c EXCEPT !.backend = b]
      BY <2>1 DEF Unmarshal
    <2> QED BY <1>1, <2>2
  <1>4. Moved(c) = c
    <2>1. [k \in Keys |-> IF c.frontend[k] # Absent THEN c.frontend[k] ELSE c.backend[k]] = b
      BY <1>1
    <2>2. Moved(c) = [c EXCEPT !.backend = b, !.frontend = [k \in Keys |-> Absent]]
      BY <2>1 DEF Moved
    <2> QED BY <1>1, <2>2
  <1>5. migrateElectrumX(c) = c
    BY <1>1 DEF migrateElectrumX
  <1> QED BY <1>3, <1>4, <1>5

\* The defaults are a configuration that the app works with.
LEMMA DefaultsOK ==
  /\ NewDefaultAppConfig \in Configs
  /\ migrateElectrumX(Moved(NewDefaultAppConfig)) = NewDefaultAppConfig
  <1> DEFINE d == NewDefaultAppConfig
  <1>1. d \in Configs
    BY DEF NewDefaultAppConfig, Configs
  <1>2. [k \in Keys |-> IF d.frontend[k] # Absent THEN d.frontend[k] ELSE d.backend[k]] = d.backend
    BY DEF NewDefaultAppConfig
  <1>3. Moved(d) = [d EXCEPT !.backend = d.backend, !.frontend = [k \in Keys |-> Absent]]
    BY <1>2 DEF Moved
  <1>4. Moved(d) = d
    BY <1>3 DEF NewDefaultAppConfig
  <1>5. migrateElectrumX(d) = d
    BY DEF migrateElectrumX, NewDefaultAppConfig
  <1> QED BY <1>1, <1>4, <1>5

\* What a migration makes of an older file: a configuration that the app works with, with what
\* the user had set.
LEMMA OldFileMigrated ==
  ASSUME NEW f \in OldFiles
  PROVE  LET c == Unmarshal(f)
             m == migrateElectrumX(Moved(c))
         IN  /\ m \in Configs
             /\ m.backend = [k \in Keys |-> IF c.frontend[k] # Absent THEN c.frontend[k] ELSE c.backend[k]]
             /\ m.server = IF c.server = "old" THEN "new" ELSE c.server
             /\ m.notify = FALSE
  <1>1. PICK b \in [Keys -> {Absent, Default}], g \in [Keys -> Settings \cup {Absent}], s \in {"old", "own"} :
          f = [backend |-> b, frontend |-> g, server |-> s, notify |-> FALSE]
    BY DEF OldFiles
  <1> DEFINE b1 == [k \in Keys |-> IF b[k] = Absent THEN Default ELSE b[k]]
             b2 == [k \in Keys |-> IF g[k] # Absent THEN g[k] ELSE b1[k]]
             none == [k \in Keys |-> Absent]
             s2 == IF s = "old" THEN "new" ELSE s
  <1>2. b2 \in [Keys -> Settings \cup {Default}]
    OBVIOUS
  <1>3. s2 \in {"new", "own"}
    OBVIOUS
  <1> HIDE DEF b2, s2
  <1>4. Unmarshal(f) = [backend |-> b1, frontend |-> g, server |-> s, notify |-> FALSE]
    <2>1. [k \in Keys |-> IF f.backend[k] = Absent THEN Default ELSE f.backend[k]] = b1
      BY <1>1
    <2>2. Unmarshal(f) = [f EXCEPT !.backend = b1]
      BY <2>1 DEF Unmarshal
    <2> QED BY <1>1, <2>2
  <1> DEFINE c == Unmarshal(f)
  <1>5. Moved(c) = [backend |-> b2, frontend |-> none, server |-> s, notify |-> FALSE]
    <2> HIDE DEF b1, c
    <2>1. [k \in Keys |-> IF c.frontend[k] # Absent THEN c.frontend[k] ELSE c.backend[k]] = b2
      BY <1>4 DEF b2, c
    <2>2. Moved(c) = [c EXCEPT !.backend = b2, !.frontend = none]
      BY <2>1 DEF Moved
    <2>3. c = [backend |-> b1, frontend |-> g, server |-> s, notify |-> FALSE]
      BY <1>4 DEF c
    <2> HIDE DEF none
    <2> QED BY <2>2, <2>3, Replaced
  <1>6. migrateElectrumX(Moved(c)) = [backend |-> b2, frontend |-> none, server |-> s2, notify |-> FALSE]
    <2> DEFINE m == Moved(c)
    <2>1. m.server = s
      BY <1>5
    <2>2. migrateElectrumX(m) = [m EXCEPT !.server = s2]
      BY <2>1 DEF migrateElectrumX, s2
    <2>3. m = [backend |-> b2, frontend |-> none, server |-> s, notify |-> FALSE]
      BY <1>5
    <2> DEFINE no == FALSE
    <2> HIDE DEF m, none, no
    <2>4. m = [backend |-> b2, frontend |-> none, server |-> s, notify |-> no]
      BY <2>3 DEF no
    <2>5. [m EXCEPT !.server = s2] = [backend |-> b2, frontend |-> none, server |-> s2, notify |-> no]
      BY <2>4, ReplacedServer
    <2>6. [m EXCEPT !.server = s2] = [backend |-> b2, frontend |-> none, server |-> s2, notify |-> FALSE]
      BY <2>5 DEF no
    <2> QED BY <2>2, <2>6 DEF m
  <1>7. [backend |-> b2, frontend |-> none, server |-> s2, notify |-> FALSE] \in Configs
    BY <1>2, <1>3 DEF Configs
  <1>8. b2 = [k \in Keys |-> IF c.frontend[k] # Absent THEN c.frontend[k] ELSE c.backend[k]]
    <2> HIDE DEF b1
    <2> QED BY <1>4 DEF b2
  <1>9. s2 = IF c.server = "old" THEN "new" ELSE c.server
    BY <1>4 DEF s2
  <1> HIDE DEF c
  <1> QED BY <1>6, <1>7, <1>8, <1>9 DEF c

\* A change of one setting, made to what the app has and to what the user means.
LEMMA ApplyConfig ==
  ASSUME NEW change \in Change, NEW c \in Configs
  PROVE  /\ Apply(change, c) \in Configs
         /\ \A i \in Intents : Apply(change, i) \in Intents
         /\ \A i \in Intents : Agrees(c, i) => Agrees(Apply(change, c), Apply(change, i))
         /\ \A i \in Intents : Apply(change, i).tokens = i.tokens
  <1>1. PICK b \in [Keys -> Settings \cup {Default}], s \in {"new", "own"}, n \in BOOLEAN :
          c = [backend |-> b, frontend |-> [k \in Keys |-> Absent], server |-> s, notify |-> n]
    BY DEF Configs
  <1>2. CASE change.key = "server"
    <2>1. change.to = "own"
      BY <1>2, ConfigAssumption DEF Change
    <2>2. Apply(change, c) = [backend |-> b, frontend |-> [k \in Keys |-> Absent], server |-> "own", notify |-> n]
      BY <1>1, <1>2, <2>1 DEF Apply
    <2>3. Apply(change, c) \in Configs
      BY <2>2 DEF Configs
    <2>4. ASSUME NEW i \in Intents
          PROVE  /\ Apply(change, i) \in Intents /\ Apply(change, i).tokens = i.tokens
                 /\ Apply(change, i).backend = i.backend /\ Apply(change, i).server = "own"
                 /\ Apply(change, i).notify = i.notify
      BY <1>2, <2>1 DEF Apply, Intents
    <2> QED BY <1>1, <2>2, <2>3, <2>4 DEF Agrees
  <1>3. CASE change.key # "server"
    <2> DEFINE With(f) == [f EXCEPT ![change.key] = change.to]
    <2>1. change.key \in Keys /\ change.to \in Settings
      BY <1>3 DEF Change
    <2>2. Apply(change, c) = [backend |-> With(b), frontend |-> [k \in Keys |-> Absent], server |-> s, notify |-> n]
      BY <1>1, <1>3 DEF Apply
    <2>3. With(b) \in [Keys -> Settings \cup {Default}]
      BY <2>1
    <2>4. Apply(change, c) \in Configs
      BY <2>2, <2>3 DEF Configs
    <2>5. ASSUME NEW i \in Intents
          PROVE  /\ Apply(change, i) \in Intents /\ Apply(change, i).tokens = i.tokens
                 /\ Apply(change, i).backend = With(i.backend) /\ Apply(change, i).server = i.server
                 /\ Apply(change, i).notify = i.notify
      <3>1. Apply(change, i) = [i EXCEPT !.backend = With(i.backend)]
        BY <1>3 DEF Apply, Intents
      <3>2. With(i.backend) \in [Keys -> Settings \cup {Default}]
        BY <2>1 DEF Intents
      <3> HIDE DEF With
      <3> QED BY <3>1, <3>2 DEF Intents
    <2>6. /\ Apply(change, c).backend = With(c.backend) /\ Apply(change, c).server = c.server
          /\ Apply(change, c).notify = c.notify
      <3> HIDE DEF With
      <3>1. c.backend = b /\ c.server = s /\ c.notify = n
        BY <1>1
      <3> QED BY <2>2, <3>1
    <2> HIDE DEF With
    <2>7. ASSUME NEW i \in Intents, Agrees(c, i) PROVE Agrees(Apply(change, c), Apply(change, i))
      BY <2>5, <2>6, <2>7 DEF Agrees
    <2> QED BY <2>4, <2>5, <2>7
  <1> QED BY <1>2, <1>3

LEMMA ConfigInitInv == ConfigInit => ConfigInv
  <1> SUFFICES ASSUME ConfigInit PROVE ConfigInv
    OBVIOUS
  <1> DEFINE m == migrateElectrumX(Moved(LoadedApp))
  <1>1. /\ up = FALSE /\ overlapped = FALSE /\ torn = FALSE /\ Idle /\ calls = [c \in Callers |-> [pc |-> "idle"]]
        /\ appConfig = NewDefaultAppConfig /\ accountsConfig = {} /\ lookup = NoConfig
        /\ pendingConfig = NoConfig
    BY DEF ConfigInit, Idle, newDefaultAccountsonfig
  <1>2. CASE appFile = NoConfig
    <2>1. LoadedApp = NewDefaultAppConfig /\ LoadedAccounts = {} /\ accountsFile = NoConfig
      BY <1>2 DEF LoadedApp, LoadedAccounts, Readable, newDefaultAccountsonfig, ConfigInit
    <2>2. m = NewDefaultAppConfig
      BY <2>1, DefaultsOK
    <2>3. intended = [backend |-> [k \in Keys |-> IF [j \in Keys |-> Absent][k] # Absent THEN [j \in Keys |-> Absent][k]
                                                 ELSE [j \in Keys |-> Default][k]],
                      server |-> "new", notify |-> FALSE, tokens |-> {}]
      BY <1>2, <2>1 DEF ConfigInit, NewDefaultAppConfig
    <2>4. intended = [backend |-> [k \in Keys |-> Default], server |-> "new", notify |-> FALSE, tokens |-> {}]
      <3>1. [k \in Keys |-> IF [j \in Keys |-> Absent][k] # Absent THEN [j \in Keys |-> Absent][k]
                                                 ELSE [j \in Keys |-> Default][k]] = [k \in Keys |-> Default]
        OBVIOUS
      <3> QED BY <2>3, <3>1
    <2>5. Agrees(m, intended)
      BY <2>2, <2>4 DEF Agrees, NewDefaultAppConfig
    <2>6. migrateActiveTokens(LoadedAccounts) = intended.tokens
      BY <2>1, <2>4 DEF migrateActiveTokens
    <2>7. intended \in Intents
      BY <2>4 DEF Intents
    <2>8. ConfigTypeOK
      BY <1>1, <1>2, <2>1, <2>7, DefaultsOK DEF ConfigTypeOK, Intents, Call
    <2> QED BY <1>1, <2>5, <2>6, <2>8 DEF ConfigInv, CurrentConfig, CurrentTokens, OneChange
  <1>3. CASE appFile # NoConfig
    <2>1. appFile \in OldFiles /\ accountsFile \in SUBSET Tokens
      BY <1>3 DEF ConfigInit
    <2>2. Readable(appFile) /\ Readable(accountsFile)
      BY <2>1, ConfigAssumption, OldFilesAssumption DEF Readable
    <2>3. LoadedApp = Unmarshal(appFile) /\ LoadedAccounts = accountsFile
      BY <2>2 DEF LoadedApp, LoadedAccounts
    <2> DEFINE c == Unmarshal(appFile)
    <2>4. /\ m \in Configs
          /\ m.backend = [k \in Keys |-> IF c.frontend[k] # Absent THEN c.frontend[k] ELSE c.backend[k]]
          /\ m.server = IF c.server = "old" THEN "new" ELSE c.server
          /\ m.notify = FALSE
      BY <2>1, <2>3, OldFileMigrated
    <2>5. accountsFile # NoConfig
      BY <2>2 DEF Readable
    <2> HIDE DEF m, c
    <2>6. intended = [backend |-> m.backend, server |-> m.server, notify |-> FALSE, tokens |-> accountsFile \ {Retired}]
      BY <1>3, <2>4, <2>5 DEF ConfigInit, c
    <2>7. intended \in Intents
      BY <2>1, <2>4, <2>6 DEF Intents, Configs
    <2>8. Agrees(m, intended) /\ migrateActiveTokens(LoadedAccounts) = intended.tokens
      BY <2>3, <2>4, <2>6 DEF Agrees, migrateActiveTokens
    <2>9. ConfigTypeOK
      BY <1>1, <2>1, <2>7, DefaultsOK DEF ConfigTypeOK, Intents, Call
    <2> QED BY <1>1, <2>8, <2>9 DEF ConfigInv, CurrentConfig, CurrentTokens, OneChange, m
  <1> QED BY <1>2, <1>3

\* What each step does to the files, to what the app has and to the calls under way.
LEMMA ConfigStepInv == ConfigInv /\ [ConfigNext]_configVars => ConfigInv'
  <1> SUFFICES ASSUME ConfigInv, [ConfigNext]_configVars PROVE ConfigInv'
    OBVIOUS
  <1>0. /\ appConfig \in Configs /\ accountsConfig \in SUBSET (Tokens \ {Retired}) /\ up \in BOOLEAN
        /\ appFile \in OldFiles \cup Configs \cup {NoConfig, Torn}
        /\ accountsFile \in (SUBSET Tokens) \cup {NoConfig, Torn}
        /\ lookup \in Configs \cup {NoConfig} /\ pendingConfig \in Configs \cup {NoConfig}
        /\ calls \in [Callers -> Call] /\ intended \in Intents
        /\ overlapped \in BOOLEAN /\ torn \in BOOLEAN
        /\ up => appFile = appConfig /\ accountsFile = accountsConfig
        /\ ~up => Idle
        /\ ~overlapped => OneChange
        /\ ~torn => CurrentTokens = intended.tokens
        /\ ~torn /\ ~overlapped => Agrees(CurrentConfig, intended)
    BY DEF ConfigInv, ConfigTypeOK, Intents
  \* What is left to show of a step after which the app runs, and after which it does not.
  <1>R. ASSUME ConfigTypeOK', up', appFile' = appConfig', accountsFile' = accountsConfig',
               ~overlapped' => OneChange', ~torn' => accountsConfig' = intended'.tokens,
               ~torn' /\ ~overlapped' => Agrees(appConfig', intended')
        PROVE  ConfigInv'
    BY <1>R DEF ConfigInv, CurrentTokens, CurrentConfig, Agrees
  <1>D. ASSUME Die, appConfig' = appConfig, accountsConfig' = accountsConfig, intended' = intended,
               overlapped' = overlapped, torn',
               \/ appFile' = appFile /\ accountsFile' = Torn
               \/ appFile' = Torn /\ accountsFile' = accountsFile
        PROVE  ConfigInv'
    <2>1. up' = FALSE /\ calls' = [c \in Callers |-> [pc |-> "idle"]] /\ lookup' = NoConfig /\ pendingConfig' = NoConfig
      BY <1>D DEF Die
    <2>2. Idle'
      BY <2>1 DEF Idle
    <2>3. calls' \in [Callers -> Call]
      BY <2>1 DEF Call
    <2>4. ConfigTypeOK'
      BY <1>0, <1>D, <2>1, <2>3 DEF ConfigTypeOK, Intents
    <2> QED BY <1>D, <2>1, <2>2, <2>4 DEF ConfigInv, OneChange
  <1>S. ASSUME DieInAppSave \/ DieInAccountsSave
        PROVE  ConfigInv'
    BY <1>D, <1>S DEF DieInAppSave, DieInAccountsSave
  <1>U. ASSUME up PROVE /\ ~torn => accountsConfig = intended.tokens
                        /\ ~torn /\ ~overlapped => Agrees(appConfig, intended)
    BY <1>0, <1>U DEF CurrentTokens, CurrentConfig
  <1>1. CASE NewConfig
    <2> DEFINE m == migrateElectrumX(Moved(LoadedApp))
    <2>1. /\ ~up /\ up' /\ appConfig' = m /\ appFile' = m
          /\ accountsConfig' = migrateActiveTokens(LoadedAccounts)
          /\ accountsFile' = migrateActiveTokens(LoadedAccounts)
          /\ UNCHANGED <<calls, lookup, pendingConfig, intended, overlapped, torn>>
      BY <1>1 DEF NewConfig, SetAppConfig, ModifyAccountsConfig
    <2>2. m \in Configs
      <3>1. CASE appFile \in OldFiles
        BY <3>1, OldFilesAssumption, OldFileMigrated DEF LoadedApp, Readable
      <3>2. CASE appFile \in Configs
        BY <3>2, ConfigAssumption, Settled DEF LoadedApp, Readable
      <3>3. CASE appFile \in {NoConfig, Torn}
        BY <3>3, DefaultsOK DEF LoadedApp, Readable
      <3> QED BY <1>0, <3>1, <3>2, <3>3
    <2>3. migrateActiveTokens(LoadedAccounts) \in SUBSET (Tokens \ {Retired})
      <3>1. LoadedAccounts \in SUBSET Tokens
        BY <1>0 DEF LoadedAccounts, Readable, newDefaultAccountsonfig
      <3> QED BY <3>1 DEF migrateActiveTokens
    <2>4. ConfigTypeOK'
      BY <1>0, <2>1, <2>2, <2>3 DEF ConfigTypeOK, Intents
    <2>5. OneChange'
      BY <1>0, <2>1 DEF Idle, OneChange
    <2>6. ~torn' => accountsConfig' = intended'.tokens
      BY <1>0, <2>1 DEF CurrentTokens
    <2>7. ~torn' /\ ~overlapped' => Agrees(appConfig', intended')
      BY <1>0, <2>1 DEF CurrentConfig
    <2> QED BY <1>R, <2>1, <2>4, <2>5, <2>6, <2>7
  <1>2. CASE NewConfigDies
    BY <1>2, <1>S DEF NewConfigDies
  <1>3. CASE Quit
    <2>1. /\ up /\ up' = FALSE /\ calls' = [c \in Callers |-> [pc |-> "idle"]] /\ lookup' = NoConfig /\ pendingConfig' = NoConfig
          /\ UNCHANGED <<appConfig, accountsConfig, appFile, accountsFile, intended, overlapped, torn>>
      BY <1>3 DEF Quit, Die
    <2>2. Idle' /\ calls' \in [Callers -> Call]
      BY <2>1 DEF Idle, Call
    <2>3. ConfigTypeOK'
      BY <1>0, <2>1, <2>2 DEF ConfigTypeOK, Intents
    <2>4. LoadedApp' = Unmarshal(appConfig) /\ LoadedAccounts' = accountsConfig
      <3>1. Readable(appConfig) /\ Readable(accountsConfig)
        BY <1>0, ConfigAssumption DEF Readable
      <3> QED BY <1>0, <2>1, <3>1 DEF LoadedApp, LoadedAccounts, Readable
    <2>5. CurrentConfig' = appConfig
      <3>1. CurrentConfig' = migrateElectrumX(Moved(LoadedApp'))
        BY <2>1 DEF CurrentConfig, migrateElectrumX, Moved
      <3> QED BY <1>0, <2>4, <3>1, Settled
    <2>6. CurrentTokens' = accountsConfig
      BY <1>0, <2>1, <2>4 DEF CurrentTokens, migrateActiveTokens
    <2> QED BY <1>U, <2>1, <2>2, <2>3, <2>5, <2>6 DEF ConfigInv, OneChange, Agrees
  \* The shape of a call, and that there is none while the app does not run.
  <1>C. ASSUME NEW c \in Callers
        PROVE  /\ calls[c].pc = "get" => calls[c].change \in Change
               /\ calls[c].pc \in {"got", "post"} => calls[c].change \in Change /\ calls[c].config \in Configs
               /\ calls[c].pc # "idle" => up
    <2>1. calls[c] \in Call
      BY <1>0
    <2>2. calls[c].pc = "get" => calls[c].change \in Change
      BY <2>1 DEF Call
    <2>3. calls[c].pc \in {"got", "post"} => calls[c].change \in Change /\ calls[c].config \in Configs
      BY <2>1 DEF Call
    <2> QED BY <1>0, <2>2, <2>3 DEF Idle
  \* The only call under way, if changes do not overlap.
  <1>O. ASSUME NEW c \in Callers, calls[c].pc # "idle", ~overlapped
        PROVE  /\ lookup = NoConfig /\ \A d \in Callers \ {c} : calls[d].pc = "idle"
               /\ calls[c].pc \in {"get", "got"} => pendingConfig = NoConfig
               /\ calls[c].pc = "got" => calls[c].config = appConfig
               /\ calls[c].pc = "post" => calls[c].config = Apply(calls[c].change, appConfig)
    BY <1>0, <1>O DEF OneChange, Idle
  <1>4. ASSUME NEW c \in Callers, NEW change \in Change, setConfig(c, change) PROVE ConfigInv'
    <2>1. /\ up /\ calls[c].pc = "idle" /\ calls' = [calls EXCEPT ![c] = [pc |-> "get", change |-> change]]
          /\ overlapped' = (overlapped \/ Busy)
          /\ UNCHANGED <<appConfig, accountsConfig, appFile, accountsFile, up, lookup, pendingConfig, intended, torn>>
      BY <1>4 DEF setConfig
    <2>2. calls' \in [Callers -> Call] /\ calls'[c].pc = "get" /\ \A d \in Callers \ {c} : calls'[d] = calls[d]
      <3>1. [pc |-> "get", change |-> change] \in Call
        BY DEF Call
      <3> QED BY <1>0, <2>1, <3>1
    <2>3. overlapped' \in BOOLEAN
      BY <1>0, <2>1 DEF Busy
    <2>4. ConfigTypeOK'
      BY <1>0, <2>1, <2>2, <2>3 DEF ConfigTypeOK, Intents
    <2>5. ASSUME ~overlapped' PROVE OneChange' /\ ~overlapped
      <3>1. ~overlapped /\ lookup = NoConfig /\ \A d \in Callers : calls[d].pc = "idle"
        BY <1>0, <2>1, <2>5 DEF Busy
      <3>2. pendingConfig = NoConfig
        BY <1>0, <3>1 DEF OneChange, Idle
      <3> QED BY <2>1, <2>2, <3>1, <3>2 DEF OneChange
    <2> QED BY <1>0, <1>R, <1>U, <2>1, <2>4, <2>5
  <1>5. ASSUME NEW c \in Callers, getAppConfig(c) PROVE ConfigInv'
    <2>1. /\ calls[c].pc = "get"
          /\ calls' = [calls EXCEPT ![c] = [pc |-> "got", change |-> calls[c].change, config |-> appConfig]]
          /\ UNCHANGED <<appConfig, accountsConfig, appFile, accountsFile, up, lookup, pendingConfig, intended, overlapped, torn>>
      BY <1>5 DEF getAppConfig
    <2>2. /\ calls' \in [Callers -> Call] /\ calls'[c].pc = "got" /\ calls'[c].config = appConfig
          /\ \A d \in Callers \ {c} : calls'[d] = calls[d]
      <3>1. [pc |-> "got", change |-> calls[c].change, config |-> appConfig] \in Call
        BY <1>0, <1>C, <2>1 DEF Call
      <3> QED BY <1>0, <2>1, <3>1
    <2>3. ConfigTypeOK' /\ up
      BY <1>0, <1>C, <2>1, <2>2 DEF ConfigTypeOK, Intents
    <2>4. ASSUME ~overlapped PROVE OneChange'
      BY <1>O, <2>1, <2>2, <2>4 DEF OneChange
    <2> QED BY <1>0, <1>R, <1>U, <2>1, <2>3, <2>4
  <1>6. ASSUME NEW c \in Callers, MergeConfig(c) PROVE ConfigInv'
    <2> DEFINE base == IF pendingConfig # NoConfig THEN pendingConfig ELSE calls[c].config
               next == Apply(calls[c].change, base)
    <2>1. /\ calls[c].pc = "got" /\ pendingConfig' = next
          /\ calls' = [calls EXCEPT ![c] = [pc |-> "post", change |-> calls[c].change, config |-> next]]
          /\ UNCHANGED <<appConfig, accountsConfig, appFile, accountsFile, up, lookup, intended, overlapped, torn>>
      BY <1>6 DEF MergeConfig
    <2>2. calls[c].change \in Change /\ base \in Configs
      BY <1>0, <1>C, <2>1
    <2>3. ~overlapped => next = Apply(calls[c].change, appConfig)
      BY <1>O, <2>1
    <2> HIDE DEF base
    <2>4. next \in Configs
      BY <2>2, ApplyConfig
    <2> HIDE DEF next
    <2>5. /\ calls' \in [Callers -> Call] /\ calls'[c].pc = "post" /\ calls'[c].config = next
          /\ calls'[c].change = calls[c].change /\ \A d \in Callers \ {c} : calls'[d] = calls[d]
      <3>1. [pc |-> "post", change |-> calls[c].change, config |-> next] \in Call
        BY <2>2, <2>4 DEF Call
      <3> QED BY <1>0, <2>1, <3>1
    <2>6. ConfigTypeOK' /\ up
      BY <1>0, <1>C, <2>1, <2>4, <2>5 DEF ConfigTypeOK, Intents
    <2>7. ASSUME ~overlapped PROVE OneChange'
      <3>1. calls'[c].config = Apply(calls[c].change, appConfig)
        BY <2>3, <2>5, <2>7
      <3>2. calls'[c].config = Apply(calls'[c].change, appConfig')
        BY <2>1, <2>5, <3>1
      <3>3. lookup' = NoConfig /\ \A d \in Callers \ {c} : calls'[d].pc = "idle"
        BY <1>O, <2>1, <2>5, <2>7
      <3> QED BY <2>5, <3>2, <3>3 DEF OneChange, Apply
    <2> QED BY <1>0, <1>R, <1>U, <2>1, <2>6, <2>7
  <1>7. ASSUME NEW c \in Callers, postAppConfig(c) PROVE ConfigInv'
    <2>1. CASE DieInAppSave
      BY <1>S, <2>1
    <2>2. CASE ~DieInAppSave
      <3> DEFINE config == calls[c].config
                 change == calls[c].change
      <3>1. /\ calls[c].pc = "post" /\ appConfig' = config /\ appFile' = config
            /\ calls' = [calls EXCEPT ![c] = [pc |-> "reply"]] /\ intended' = Apply(change, intended)
            /\ UNCHANGED <<accountsConfig, accountsFile, up, lookup, pendingConfig, overlapped, torn>>
        BY <1>7, <2>2 DEF postAppConfig, SetAppConfig
      <3>2. change \in Change /\ config \in Configs /\ up
        BY <1>C, <3>1
      <3>3. ~overlapped => config = Apply(change, appConfig)
        BY <1>O, <3>1
      <3> HIDE DEF config, change
      <3>4. /\ intended' \in Intents /\ intended'.tokens = intended.tokens
            /\ Agrees(appConfig, intended) => Agrees(Apply(change, appConfig), Apply(change, intended))
        BY <1>0, <3>1, <3>2, ApplyConfig
      <3>5. /\ calls' \in [Callers -> Call] /\ calls'[c].pc = "reply"
            /\ \A d \in Callers \ {c} : calls'[d] = calls[d]
        <4>1. [pc |-> "reply"] \in Call
          BY DEF Call
        <4> QED BY <1>0, <3>1, <4>1
      <3>6. ConfigTypeOK'
        BY <1>0, <3>1, <3>2, <3>4, <3>5 DEF ConfigTypeOK, Intents
      <3>7. ASSUME ~overlapped PROVE OneChange'
        BY <1>O, <3>1, <3>5, <3>7 DEF OneChange
      <3>8. ASSUME ~torn', ~overlapped' PROVE Agrees(appConfig', intended')
        BY <1>U, <3>1, <3>2, <3>3, <3>4, <3>8
      <3> QED BY <1>0, <1>R, <1>U, <3>1, <3>2, <3>4, <3>6, <3>7, <3>8
    <2> QED BY <2>1, <2>2
  <1>8. ASSUME NEW c \in Callers, Reply(c) PROVE ConfigInv'
    <2>1. /\ calls[c].pc = "reply" /\ pendingConfig' = NoConfig /\ calls' = [calls EXCEPT ![c] = [pc |-> "idle"]]
          /\ UNCHANGED <<appConfig, accountsConfig, appFile, accountsFile, up, lookup, intended, overlapped, torn>>
      BY <1>8 DEF Reply
    <2>2. calls' \in [Callers -> Call] /\ calls'[c].pc = "idle" /\ \A d \in Callers \ {c} : calls'[d] = calls[d]
      <3>1. [pc |-> "idle"] \in Call
        BY DEF Call
      <3> QED BY <1>0, <2>1, <3>1
    <2>3. ConfigTypeOK' /\ up
      BY <1>0, <1>C, <2>1, <2>2 DEF ConfigTypeOK, Intents
    <2>4. ASSUME ~overlapped PROVE OneChange'
      <3>1. lookup = NoConfig /\ \A d \in Callers \ {c} : calls[d].pc = "idle"
        BY <1>O, <2>1, <2>4
      <3> QED BY <2>1, <2>2, <3>1 DEF OneChange, Idle
    <2> QED BY <1>0, <1>R, <1>U, <2>1, <2>3, <2>4
  <1>9. CASE LookupInsuredAccounts
    <2>1. /\ up /\ lookup = NoConfig /\ lookup' = appConfig /\ overlapped' = (overlapped \/ Busy)
          /\ UNCHANGED <<appConfig, accountsConfig, appFile, accountsFile, up, calls, pendingConfig, intended, torn>>
      BY <1>9 DEF LookupInsuredAccounts
    <2>2. overlapped' \in BOOLEAN
      BY <1>0, <2>1 DEF Busy
    <2>3. ConfigTypeOK'
      BY <1>0, <2>1, <2>2 DEF ConfigTypeOK, Intents
    <2>4. ASSUME ~overlapped' PROVE OneChange' /\ ~overlapped
      <3>1. ~overlapped /\ \A d \in Callers : calls[d].pc = "idle"
        BY <1>0, <2>1, <2>4 DEF Busy
      <3>2. pendingConfig = NoConfig
        BY <1>0, <2>1, <3>1 DEF OneChange, Idle
      <3> QED BY <2>1, <3>1, <3>2 DEF OneChange
    <2> QED BY <1>0, <1>R, <1>U, <2>1, <2>3, <2>4
  <1>10. CASE NotifyCancellation
    <2>1. CASE DieInAppSave
      BY <1>S, <2>1
    <2>2. CASE ~DieInAppSave
      <3> DEFINE config == [lookup EXCEPT !.notify = TRUE]
      <3>1. /\ lookup # NoConfig /\ appConfig' = config /\ appFile' = config
            /\ intended' = [intended EXCEPT !.notify = TRUE] /\ lookup' = NoConfig
            /\ UNCHANGED <<accountsConfig, accountsFile, up, calls, pendingConfig, overlapped, torn>>
        BY <1>10, <2>2 DEF NotifyCancellation, SetAppConfig
      <3>2. /\ lookup \in Configs /\ config \in Configs /\ config.backend = lookup.backend
            /\ config.server = lookup.server /\ config.notify = TRUE
        BY <1>0, <3>1 DEF Configs
      <3>3. /\ intended' \in Intents /\ intended'.tokens = intended.tokens /\ intended'.notify = TRUE
            /\ intended'.backend = intended.backend /\ intended'.server = intended.server
        BY <1>0, <3>1 DEF Intents
      <3>4. up
        BY <1>0, <3>1 DEF Idle
      <3>5. ASSUME ~overlapped PROVE lookup = appConfig /\ OneChange'
        BY <1>0, <3>1, <3>5 DEF OneChange, Idle
      <3> HIDE DEF config
      <3>6. ConfigTypeOK'
        BY <1>0, <3>1, <3>2, <3>3 DEF ConfigTypeOK, Intents
      <3>7. ASSUME ~torn', ~overlapped' PROVE Agrees(appConfig', intended')
        BY <1>U, <3>1, <3>2, <3>3, <3>4, <3>5, <3>7 DEF Agrees
      <3> QED BY <1>0, <1>R, <1>U, <3>1, <3>3, <3>4, <3>5, <3>6, <3>7
    <2> QED BY <2>1, <2>2
  <1>11. ASSUME NEW t \in Tokens \ {Retired}, NEW on \in BOOLEAN, SetTokenActive(t, on) PROVE ConfigInv'
    <2>1. CASE DieInAccountsSave
      BY <1>S, <2>1
    <2>2. CASE ~DieInAccountsSave
      <3> DEFINE tokens == (accountsConfig \ {t}) \cup (IF on THEN {t} ELSE {})
      <3>1. /\ up /\ accountsConfig' = tokens /\ accountsFile' = tokens
            /\ intended' = [intended EXCEPT !.tokens = tokens]
            /\ UNCHANGED <<appConfig, appFile, up, calls, lookup, pendingConfig, overlapped, torn>>
        BY <1>11, <2>2 DEF SetTokenActive, ModifyAccountsConfig
      <3>2. tokens \in SUBSET (Tokens \ {Retired})
        BY <1>0
      <3> HIDE DEF tokens
      <3>3. /\ intended' \in Intents /\ intended'.tokens = tokens /\ intended'.notify = intended.notify
            /\ intended'.backend = intended.backend /\ intended'.server = intended.server
        BY <1>0, <3>1, <3>2 DEF Intents
      <3>4. ConfigTypeOK'
        BY <1>0, <3>1, <3>2, <3>3 DEF ConfigTypeOK, Intents
      <3>5. ASSUME ~overlapped PROVE OneChange'
        BY <1>0, <3>1, <3>5 DEF OneChange, Idle, Apply
      <3> QED BY <1>0, <1>R, <1>U, <3>1, <3>3, <3>4, <3>5 DEF Agrees
    <2> QED BY <2>1, <2>2
  <1>12. CASE UNCHANGED configVars
    BY <1>0, <1>12 DEF configVars, ConfigInv, ConfigTypeOK, Intents, OneChange, Idle, CurrentTokens, CurrentConfig,
       LoadedApp, LoadedAccounts, Readable, Agrees
  <1> QED BY <1>1, <1>2, <1>3, <1>4, <1>5, <1>6, <1>7, <1>8, <1>9, <1>10, <1>11, <1>12 DEF ConfigNext

\* ConfigInv holds in every reachable state: a file that the app wrote is read back as it was, and
\* the only change under way works on what the app has.
THEOREM ConfigInvariance == ConfigSpec => []ConfigInv
  BY ConfigInitInv, ConfigStepInv, PTL DEF ConfigSpec

\* Whatever the settings and however often the app is started, what the user has set is what it
\* uses, unless a write was cut off or two changes overlapped.
THEOREM SettingsKeptHolds == ConfigSpec => []SettingsKept
  <1>1. ConfigInv => SettingsKept
    BY DEF ConfigInv, SettingsKept, CurrentConfig, CurrentTokens, Agrees
  <1> QED BY <1>1, ConfigInvariance, PTL

-----------------------------------------------------------------------------
(* Exchange rates                                                          *)

\* A span of time that begins next to a set without holes, or ends next to it.
LEMMA ConvexExtends ==
  ASSUME NEW S, NEW lo \in Nat, NEW hi \in Nat, NEW from \in Nat, NEW end \in Nat, S \subseteq lo..hi, Convex(S),
         (from > 0 /\ from - 1 \in S) \/ end + 1 \in S
  PROVE  Convex(S \cup ((lo..hi) \cap (from..end)))
  <1> DEFINE R == (lo..hi) \cap (from..end)
  <1> SUFFICES ASSUME NEW x \in S \cup R, NEW y \in S \cup R, NEW z \in x..y
               PROVE  z \in S \cup R
    BY DEF Convex
  <1>1. x \in lo..hi /\ y \in lo..hi /\ z \in lo..hi /\ x <= z /\ z <= y
    OBVIOUS
  <1>2. CASE z \in from..end
    BY <1>1, <1>2
  <1>3. CASE z < from
    <2>1. x \in S
      BY <1>1, <1>3
    <2>2. CASE y \in S
      BY <2>1, <2>2 DEF Convex
    <2>3. CASE y \in R /\ from > 0 /\ from - 1 \in S
      <3>1. z \in x..(from - 1)
        BY <1>1, <1>3, <2>3
      <3> QED BY <2>1, <2>3, <3>1 DEF Convex
    <2>4. CASE y \in R /\ end + 1 \in S
      <3>1. z \in x..(end + 1)
        BY <1>1, <2>4
      <3> QED BY <2>1, <2>4, <3>1 DEF Convex
    <2> QED BY <2>2, <2>3, <2>4
  <1>4. CASE z > end /\ ~(z < from)
    <2>1. y \in S
      BY <1>1, <1>4
    <2>2. CASE x \in S
      BY <2>1, <2>2 DEF Convex
    <2>3. CASE x \in R /\ from > 0 /\ from - 1 \in S
      <3>1. z \in (from - 1)..y
        BY <1>1, <1>4, <2>3
      <3> QED BY <2>1, <2>3, <3>1 DEF Convex
    <2>4. CASE x \in R /\ end + 1 \in S
      <3>1. z \in (end + 1)..y
        BY <1>1, <1>4, <2>4
      <3> QED BY <2>1, <2>4, <3>1 DEF Convex
    <2> QED BY <2>2, <2>3, <2>4
  <1> QED BY <1>1, <1>2, <1>3, <1>4

\* The rates that a goroutine without a history fetches.
LEMMA FirstRatesOK ==
  ASSUME RatesTypeOK
  PROVE  /\ FirstRates \subseteq First..now /\ FirstRates # {} /\ Convex(FirstRates)
         /\ Back(now, Recent) \in Nat
  <1>1. First \in Nat /\ now \in Nat /\ Recent \in Nat /\ now >= First + Recent
    BY RatesAssumption DEF RatesTypeOK
  <1>2. Back(now, Recent) \in Nat
    BY <1>1 DEF Back
  <1>3. now \in FirstRates
    BY <1>1 DEF FirstRates, Back
  <1>4. Convex(FirstRates)
    BY <1>1, <1>2 DEF Convex, FirstRates
  <1> QED BY <1>2, <1>3, <1>4 DEF FirstRates

\* Storing what a goroutine has fetched, in memory or in the database, makes no hole.
LEMMA AddRates ==
  ASSUME RatesTypeOK, NEW S, S \subseteq First..now, Convex(S), history \subseteq S,
         history = {} => S \in {{}, FirstRates},
         NEW k \in Kinds, NEW j, JobTypeOK(j), Adjacent(k, j, history), Fetched(k, j)
  PROVE  /\ Convex(S \cup j.rates)
         /\ history = {} => k = "backfill" /\ j.rates = FirstRates
  <1>0. First \in Nat /\ now \in Nat /\ Recent \in Nat /\ now >= First + Recent /\ j.from \in Nat /\ j.to \in Nat
    BY RatesAssumption DEF RatesTypeOK, JobTypeOK
  <1>1. PICK end \in 0..now : (k = "backfill" => end = j.to) /\ j.rates = (First..now) \cap (j.from..end)
    BY DEF Fetched
  <1>2. CASE k = "backfill" /\ j.to = now /\ j.from = Back(now, Recent) /\ (history = {} \/ FirstRates \subseteq history)
    <2>1. j.rates = FirstRates
      BY <1>1, <1>2 DEF FirstRates
    <2>2. S \cup FirstRates \in {S, FirstRates}
      BY <1>2
    <2> QED BY <1>2, <2>1, <2>2, FirstRatesOK
  <1>3. CASE (j.from > 0 /\ j.from - 1 \in history) \/ (k = "backfill" /\ j.to + 1 \in history)
    <2>1. history # {}
      BY <1>3
    <2>2. (j.from > 0 /\ j.from - 1 \in S) \/ end + 1 \in S
      BY <1>1, <1>3
    <2>3. end \in Nat
      BY <1>0
    <2>4. Convex(S \cup ((First..now) \cap (j.from..end)))
      BY <1>0, <2>2, <2>3, ConvexExtends
    <2> QED BY <1>1, <2>1, <2>4
  <1> QED BY <1>0, <1>2, <1>3 DEF Adjacent, Kinds

\* The ends of a history that is not empty.
LEMMA EndsOK ==
  ASSUME RatesTypeOK, history # {}
  PROVE  /\ Max(history) \in history /\ \A t \in history : t <= Max(history)
         /\ Min(history) \in history /\ \A t \in history : t >= Min(history)
  <1>1. First \in Nat /\ now \in Nat /\ history \subseteq First..now
    BY RatesAssumption DEF RatesTypeOK
  <1>2. IsFiniteSet(history)
    <2>1. IsFiniteSet(First..now)
      BY <1>1, FS_Interval
    <2> QED BY <1>1, <2>1, FS_Subset
  <1>3. history \subseteq Nat
    BY <1>1
  <1>4. \E x \in history : \A y \in history : x >= y
    BY <1>2, <1>3, GreatestNat
  <1>5. \E x \in history : \A y \in history : x <= y
    BY <1>3, LeastNat
  <1>6. Max(history) \in history /\ \A t \in history : Max(history) >= t
    BY <1>4, Zenon DEF Max
  <1>7. Min(history) \in history /\ \A t \in history : Min(history) <= t
    BY <1>5, Zenon DEF Min
  <1> QED BY <1>3, <1>6, <1>7

\* Setting what one goroutine does leaves the others alone.
LEMMA SetJob ==
  ASSUME RatesTypeOK, NEW g \in 1..MaxGen, NEW k \in Kinds, NEW j, Set(g, k, j)
  PROVE  /\ DOMAIN job' = 1..MaxGen /\ \A h \in 1..MaxGen : DOMAIN job'[h] = Kinds
         /\ job'[g][k] = j
         /\ \A h \in 1..MaxGen, l \in Kinds : <<h, l>> # <<g, k>> => job'[h][l] = job[h][l]
  <1>1. DOMAIN job = 1..MaxGen /\ \A h \in 1..MaxGen : DOMAIN job[h] = Kinds
    BY DEF RatesTypeOK
  <1>2. job' = [job EXCEPT ![g] = [job[g] EXCEPT ![k] = j]]
    BY DEF Set
  <1>3. DOMAIN job' = 1..MaxGen /\ job'[g] = [job[g] EXCEPT ![k] = j] /\ \A h \in 1..MaxGen : h # g => job'[h] = job[h]
    BY <1>1, <1>2
  <1> QED BY <1>1, <1>3

\* The type of what a goroutine does, when it alone changes.
LEMMA SetTypeOK ==
  ASSUME RatesTypeOK, NEW g \in 1..MaxGen, NEW k \in Kinds, NEW j, Set(g, k, j), JobTypeOK(j),
         g <= gen \/ j.pc = "over", UNCHANGED <<now, gen, active>>,
         history' \subseteq First..now, historyDB' \subseteq First..now, missed' \subseteq First..now
  PROVE  RatesTypeOK'
  <1>1. /\ DOMAIN job' = 1..MaxGen /\ \A h \in 1..MaxGen : DOMAIN job'[h] = Kinds
        /\ job'[g][k] = j
        /\ \A h \in 1..MaxGen, l \in Kinds : <<h, l>> # <<g, k>> => job'[h][l] = job[h][l]
    BY SetJob
  <1>2. \A h \in 1..MaxGen, l \in Kinds : JobTypeOK(job'[h][l])
    BY <1>1 DEF RatesTypeOK
  <1>3. \A h \in 1..MaxGen, l \in Kinds : h > gen => job'[h][l].pc = "over"
    <2>1. MaxGen \in Nat /\ gen \in 0..MaxGen
      BY RatesAssumption DEF RatesTypeOK
    <2>2. ASSUME NEW h \in 1..MaxGen, NEW l \in Kinds, h > gen PROVE job'[h][l].pc = "over"
      <3>1. CASE <<h, l>> = <<g, k>>
        BY <1>1, <2>1, <2>2, <3>1
      <3>2. CASE <<h, l>> # <<g, k>>
        BY <1>1, <2>2, <3>2 DEF RatesTypeOK
      <3> QED BY <3>1, <3>2
    <2> QED BY <2>2
  <1> QED BY <1>1, <1>2, <1>3 DEF RatesTypeOK, JobTypeOK

\* A goroutine that is not over is one that was started.
LEMMA Started ==
  ASSUME RatesTypeOK, NEW g \in 1..MaxGen, NEW k \in Kinds, job[g][k].pc # "over"
  PROVE  g <= gen
  <1>1. MaxGen \in Nat /\ gen \in 0..MaxGen
    BY RatesAssumption DEF RatesTypeOK
  <1> QED BY <1>1 DEF RatesTypeOK

LEMMA IdleJobs ==
  ASSUME First \in Nat, now \in Nat
  PROVE  /\ JobTypeOK(Sleeping) /\ JobTypeOK(Over) /\ Sleeping.pc = "sleeping" /\ Over.pc = "over"
         /\ DOMAIN Sleeping = {"pc", "from", "to", "rates"} /\ Sleeping.rates = {}
  BY DEF JobTypeOK, Sleeping, Over

LEMMA RatesTypeStep == RatesTypeOK /\ [RatesNext]_ratesVars => RatesTypeOK'
  <1> SUFFICES ASSUME RatesTypeOK, [RatesNext]_ratesVars PROVE RatesTypeOK'
    OBVIOUS
  <1>0. First \in Nat \ {0} /\ MaxGen \in Nat /\ Recent \in Nat /\ MaxRange \in Nat
    BY RatesAssumption
  <1>1. /\ now \in Nat /\ now >= First + Recent
        /\ history \subseteq First..now /\ historyDB \subseteq First..now /\ missed \subseteq First..now
        /\ gen \in 0..MaxGen /\ active \in BOOLEAN
        /\ DOMAIN job = 1..MaxGen /\ \A g \in 1..MaxGen : DOMAIN job[g] = Kinds
        /\ \A g \in 1..MaxGen, k \in Kinds : JobTypeOK(job[g][k])
        /\ \A g \in 1..MaxGen, k \in Kinds : g > gen => job[g][k].pc = "over"
    BY DEF RatesTypeOK
  <1>I. /\ JobTypeOK(Sleeping) /\ JobTypeOK(Over) /\ Sleeping.pc = "sleeping" /\ Over.pc = "over"
        /\ DOMAIN Sleeping = {"pc", "from", "to", "rates"} /\ Sleeping.rates = {}
    BY <1>0, <1>1, IdleJobs
  <1>2. CASE ReconfigureHistory
    <2>1. CASE gen < MaxGen /\ active' = TRUE /\ gen' = gen + 1 /\ Load
               /\ job' = [job EXCEPT ![gen + 1] = [k \in Kinds |-> Sleeping]]
               /\ UNCHANGED <<now, historyDB, last, shown>>
      <3>1. history' \subseteq First..now /\ missed' \subseteq First..now
        BY <1>1, <2>1 DEF Load
      <3>2. /\ gen + 1 \in 1..MaxGen /\ DOMAIN job' = 1..MaxGen
            /\ job'[gen + 1] = [k \in Kinds |-> Sleeping]
            /\ \A g \in 1..MaxGen : g # gen + 1 => job'[g] = job[g]
        BY <1>0, <1>1, <2>1
      <3>3. \A g \in 1..MaxGen : DOMAIN job'[g] = Kinds /\ \A k \in Kinds : JobTypeOK(job'[g][k])
        BY <1>1, <1>I, <3>2
      <3>4. \A g \in 1..MaxGen, k \in Kinds : g > gen + 1 => job'[g][k].pc = "over"
        BY <1>0, <1>1, <3>2
      <3> QED BY <1>0, <1>1, <2>1, <3>1, <3>2, <3>3, <3>4 DEF RatesTypeOK, JobTypeOK
    <2>2. CASE active' = FALSE /\ UNCHANGED <<now, history, historyDB, gen, job, missed, last, shown, ratesFaults>>
      BY <1>1, <2>2 DEF RatesTypeOK, JobTypeOK
    <2> QED BY <1>2, <2>1, <2>2 DEF ReconfigureHistory
  <1>3. CASE Restart
    <2>1. /\ job' = [g \in 1..MaxGen |-> [k \in Kinds |-> Over]] /\ history' = {} /\ active' = FALSE
          /\ UNCHANGED <<now, historyDB, gen, missed>>
      BY <1>3 DEF Restart
    <2>2. \A g \in 1..MaxGen : DOMAIN job'[g] = Kinds /\ \A k \in Kinds : JobTypeOK(job'[g][k]) /\ job'[g][k].pc = "over"
      BY <1>I, <2>1
    <2> QED BY <1>1, <2>1, <2>2 DEF RatesTypeOK, JobTypeOK
  <1>4. CASE TimePasses
    <2>1. now' = now + 1 /\ UNCHANGED <<history, historyDB, gen, active, job, missed>>
      BY <1>4 DEF TimePasses
    <2>2. First..now \subseteq First..now' /\ now' \in Nat /\ now' >= First + Recent
      BY <1>0, <1>1, <2>1
    <2> QED BY <1>1, <2>1, <2>2 DEF RatesTypeOK, JobTypeOK
  <1>5. ASSUME NEW g \in 1..MaxGen, BeginUpdate(g) PROVE RatesTypeOK'
    <2> DEFINE j == [Sleeping EXCEPT !.pc = "fetch", !.from = NextStart]
    <2>1. /\ job[g]["update"].pc = "sleeping" /\ history # {} /\ Set(g, "update", j)
          /\ UNCHANGED <<now, history, historyDB, gen, active, missed>>
      BY <1>5 DEF BeginUpdate
    <2>2. NextStart \in Nat
      BY <1>0, <1>1, <2>1, EndsOK DEF NextStart, HistoryLatestTimestamp
    <2>3. JobTypeOK(j)
      BY <2>2 DEF JobTypeOK, Sleeping
    <2>4. g <= gen
      BY <2>1, Started DEF Kinds
    <2> HIDE DEF j
    <2> QED BY <1>1, <2>1, <2>3, <2>4, SetTypeOK DEF Kinds
  <1>6. ASSUME NEW g \in 1..MaxGen, BeginBackfill(g) PROVE RatesTypeOK'
    <2>1. /\ job[g]["backfill"].pc = "sleeping" /\ Set(g, "backfill", BackfillRange)
          /\ UNCHANGED <<now, history, historyDB, gen, active, missed>>
      BY <1>6 DEF BeginBackfill
    <2>2. JobTypeOK(BackfillRange)
      <3> DEFINE end == IF history = {} THEN now ELSE HistoryEarliestTimestamp - 1
                 from == Back(end, IF history = {} THEN Recent ELSE MaxRange)
      <3>1. end \in Nat
        <4>1. CASE history = {}
          BY <1>1, <4>1
        <4>2. CASE history # {}
          <5>1. Min(history) \in First..now
            BY <1>1, <4>2, EndsOK
          <5> QED BY <1>0, <1>1, <4>2, <5>1 DEF HistoryEarliestTimestamp
        <4> QED BY <4>1, <4>2
      <3>2. from \in Nat
        BY <1>0, <3>1 DEF Back
      <3>3. BackfillRange = [Sleeping EXCEPT !.pc = "fetch", !.to = end, !.from = from]
        BY DEF BackfillRange
      <3> HIDE DEF end, from
      <3> QED BY <3>1, <3>2, <3>3 DEF JobTypeOK, Sleeping
    <2>3. g <= gen
      BY <2>1, Started DEF Kinds
    <2> QED BY <1>1, <2>1, <2>2, <2>3, SetTypeOK DEF Kinds
  <1>7. ASSUME NEW g \in 1..MaxGen, NEW k \in Kinds, Fetch(g, k) PROVE RatesTypeOK'
    <2> DEFINE j == job[g][k]
               rates == (First..now) \cap (j.from..End(k, j))
               i == [j EXCEPT !.pc = "dump", !.rates = rates]
    <2>1. /\ j.pc = "fetch" /\ Set(g, k, i) /\ UNCHANGED <<now, history, historyDB, gen, active, missed>>
      BY <1>7 DEF Fetch
    <2>2. JobTypeOK(j) /\ g <= gen
      BY <1>1, <2>1, Started
    <2> HIDE DEF j, rates
    <2>3. JobTypeOK(i)
      BY <2>2 DEF JobTypeOK, rates
    <2> HIDE DEF i
    <2> QED BY <1>1, <2>1, <2>2, <2>3, SetTypeOK
  <1>8. ASSUME NEW g \in 1..MaxGen, NEW k \in Kinds, FetchFails(g, k) PROVE RatesTypeOK'
    <2>1. /\ job[g][k].pc = "fetch" /\ Set(g, k, Sleeping) /\ UNCHANGED <<now, history, historyDB, gen, active, missed>>
      BY <1>8 DEF FetchFails, AfterError
    <2>2. g <= gen
      BY <2>1, Started
    <2> QED BY <1>1, <1>I, <2>1, <2>2, SetTypeOK
  <1>9. ASSUME NEW g \in 1..MaxGen, NEW k \in Kinds, Dump(g, k) PROVE RatesTypeOK'
    <2> DEFINE j == job[g][k]
               i == [j EXCEPT !.pc = "append"]
    <2>1. /\ j.pc = "dump" /\ Set(g, k, i) /\ UNCHANGED <<now, history, gen, active>>
          /\ historyDB' \in {historyDB, historyDB \cup j.rates} /\ missed' \in {missed, missed \cup j.rates}
      BY <1>9 DEF Dump
    <2>2. JobTypeOK(j) /\ g <= gen
      BY <1>1, <2>1, Started
    <2> HIDE DEF j
    <2>3. JobTypeOK(i) /\ j.rates \subseteq First..now
      BY <2>2 DEF JobTypeOK
    <2>4. historyDB' \subseteq First..now /\ missed' \subseteq First..now
      BY <1>1, <2>1, <2>3
    <2> HIDE DEF i
    <2> QED BY <1>1, <2>1, <2>2, <2>3, <2>4, SetTypeOK
  <1>10. ASSUME NEW g \in 1..MaxGen, NEW k \in Kinds, AppendRates(g, k) PROVE RatesTypeOK'
    <2> DEFINE j == job[g][k]
               i == IF k = "backfill" /\ j.rates = {} THEN Over ELSE Sleeping
    <2>1. /\ j.pc = "append" /\ Set(g, k, i) /\ history' = history \cup j.rates
          /\ UNCHANGED <<now, historyDB, gen, active, missed>>
      BY <1>10 DEF AppendRates
    <2>2. JobTypeOK(j) /\ g <= gen /\ JobTypeOK(i)
      BY <1>1, <1>I, <2>1, Started
    <2> HIDE DEF j
    <2>3. history' \subseteq First..now
      BY <1>1, <2>1, <2>2 DEF JobTypeOK
    <2> HIDE DEF i
    <2> QED BY <1>1, <2>1, <2>2, <2>3, SetTypeOK
  <1>11. ASSUME NEW g \in 1..MaxGen, NEW k \in Kinds, Return(g, k) PROVE RatesTypeOK'
    <2>1. Set(g, k, Over) /\ UNCHANGED <<now, history, historyDB, gen, active, missed>>
      BY <1>11 DEF Return
    <2> QED BY <1>1, <1>I, <2>1, SetTypeOK
  <1>12. CASE LatestNext \/ UNCHANGED ratesVars
    <2>1. UNCHANGED <<now, history, historyDB, gen, active, job, missed>>
      BY <1>12 DEF LatestNext, UpdateLast, UpdateLastFails, ratesVars
    <2> QED BY <1>1, <2>1 DEF RatesTypeOK, JobTypeOK
  <1> QED BY <1>2, <1>3, <1>4, <1>5, <1>6, <1>7, <1>8, <1>9, <1>10, <1>11, <1>12
          DEF RatesNext, HistoryNext, HistoryStep

\* What is left to show of a step of one goroutine.
LEMMA SetComplete ==
  ASSUME RatesTypeOK, Complete, NEW g \in 1..MaxGen, NEW k \in Kinds, NEW j, Set(g, k, j), now' = now,
         history \subseteq history', historyDB \subseteq historyDB', history' \subseteq historyDB',
         Convex(history'), Convex(historyDB'), history = {} /\ history' # {} => FirstRates \subseteq history',
         AtWork(j) => Adjacent(k, j, history'), j.pc \in {"dump", "append"} => Fetched(k, j),
         j.pc = "append" => j.rates \subseteq historyDB',
         history' = {} /\ historyDB' # {} =>
            \/ ~active' /\ ~Pending'
            \/ historyDB' = FirstRates /\ \E h \in 1..MaxGen : job'[h]["backfill"].pc = "append"
  PROVE  Complete'
  <1>1. /\ job'[g][k] = j
        /\ \A h \in 1..MaxGen, l \in Kinds : <<h, l>> # <<g, k>> => job'[h][l] = job[h][l]
    BY SetJob
  <1>2. FirstRates' = FirstRates
    BY DEF FirstRates, Back
  <1>3. ASSUME NEW h \in 1..MaxGen, NEW l \in Kinds
        PROVE  /\ AtWork(job'[h][l]) => Adjacent(l, job'[h][l], history')
               /\ job'[h][l].pc \in {"dump", "append"} => Fetched(l, job'[h][l])
               /\ job'[h][l].pc = "append" => job'[h][l].rates \subseteq historyDB'
    <2>1. CASE <<h, l>> = <<g, k>>
      BY <1>1, <2>1
    <2>2. CASE <<h, l>> # <<g, k>>
      <3>1. job'[h][l] = job[h][l]
        BY <1>1, <2>2
      <3>2. /\ AtWork(job[h][l]) => Adjacent(l, job[h][l], history)
            /\ job[h][l].pc \in {"dump", "append"} => Fetched(l, job[h][l])
            /\ job[h][l].pc = "append" => job[h][l].rates \subseteq historyDB
        BY DEF Complete
      <3>3. Adjacent(l, job[h][l], history) => Adjacent(l, job[h][l], history')
        BY DEF Adjacent
      <3> QED BY <3>1, <3>2, <3>3
    <2> QED BY <2>1, <2>2
  <1>4. ASSUME NEW h \in 1..MaxGen, NEW l \in Kinds
        PROVE  /\ AtWork(job[h][l])' => Adjacent(l, job[h][l], history)'
               /\ job'[h][l].pc \in {"dump", "append"} => Fetched(l, job[h][l])'
    BY <1>2, <1>3 DEF AtWork, Adjacent, Fetched
  <1> QED BY <1>2, <1>3, <1>4 DEF Complete, Convex

\* The clause on an empty history, when the step leaves what is stored and no goroutine stops storing.
LEMMA StillEmpty ==
  ASSUME RatesTypeOK, Complete, NEW g \in 1..MaxGen, NEW k \in Kinds, NEW j, Set(g, k, j),
         UNCHANGED <<now, history, historyDB, active>>, job[g][k].pc # "append",
         active \/ AtWork(job[g][k]) \/ ~AtWork(j)
  PROVE  history' = {} /\ historyDB' # {} =>
            \/ ~active' /\ ~Pending'
            \/ historyDB' = FirstRates /\ \E h \in 1..MaxGen : job'[h]["backfill"].pc = "append"
  <1> SUFFICES ASSUME history = {}, historyDB # {}
               PROVE  \/ ~active' /\ ~Pending'
                      \/ historyDB = FirstRates /\ \E h \in 1..MaxGen : job'[h]["backfill"].pc = "append"
    OBVIOUS
  <1>1. /\ job'[g][k] = j
        /\ \A h \in 1..MaxGen, l \in Kinds : <<h, l>> # <<g, k>> => job'[h][l] = job[h][l]
    BY SetJob
  <1>2. CASE ~active /\ ~Pending
    <2>1. ~AtWork(j)
      BY <1>2 DEF Pending, AtWork
    <2> QED BY <1>1, <1>2, <2>1 DEF Pending, AtWork
  <1>3. ASSUME historyDB = FirstRates, NEW h \in 1..MaxGen, job[h]["backfill"].pc = "append"
        PROVE  job'[h]["backfill"].pc = "append"
    BY <1>1, <1>3 DEF Kinds
  <1> QED BY <1>2, <1>3 DEF Complete

LEMMA RatesCompleteStep ==
  RatesTypeOK /\ (missed = {} => Complete) /\ [RatesNext]_ratesVars => (missed' = {} => Complete')
  <1> SUFFICES ASSUME RatesTypeOK, missed = {} => Complete, [RatesNext]_ratesVars, missed' = {} PROVE Complete'
    OBVIOUS
  <1>0. First \in Nat \ {0} /\ MaxGen \in Nat /\ Recent \in Nat /\ MaxRange \in Nat
    BY RatesAssumption
  <1>1. /\ now \in Nat /\ now >= First + Recent
        /\ history \subseteq First..now /\ historyDB \subseteq First..now
        /\ gen \in 0..MaxGen /\ active \in BOOLEAN
        /\ DOMAIN job = 1..MaxGen /\ \A g \in 1..MaxGen : DOMAIN job[g] = Kinds
        /\ \A g \in 1..MaxGen, k \in Kinds : JobTypeOK(job[g][k])
        /\ \A g \in 1..MaxGen, k \in Kinds : g > gen => job[g][k].pc = "over"
    BY DEF RatesTypeOK
  <1>2. missed = {} /\ Complete
    <2>1. missed \subseteq missed'
      BY DEF RatesNext, HistoryNext, HistoryStep, ReconfigureHistory, Load, Restart, TimePasses, BeginUpdate,
         BeginBackfill, Fetch, FetchFails, Dump, AppendRates, Return, LatestNext, UpdateLast, UpdateLastFails, ratesVars
    <2> QED BY <2>1
  <1>3. /\ Convex(history) /\ Convex(historyDB) /\ history \subseteq historyDB
        /\ \A g \in 1..MaxGen, k \in Kinds :
              /\ AtWork(job[g][k]) => Adjacent(k, job[g][k], history)
              /\ job[g][k].pc \in {"dump", "append"} => Fetched(k, job[g][k])
              /\ job[g][k].pc = "append" => job[g][k].rates \subseteq historyDB
        /\ history = {} /\ historyDB # {} =>
              \/ ~active /\ ~Pending
              \/ historyDB = FirstRates /\ \E g \in 1..MaxGen : job[g]["backfill"].pc = "append"
    BY <1>2 DEF Complete
  <1>I. ~AtWork(Sleeping) /\ ~AtWork(Over) /\ Sleeping.pc = "sleeping" /\ Over.pc = "over"
    BY DEF AtWork, Sleeping, Over
  <1>4. CASE ReconfigureHistory
    <2>1. CASE gen < MaxGen /\ active' = TRUE /\ gen' = gen + 1 /\ Load
               /\ job' = [job EXCEPT ![gen + 1] = [k \in Kinds |-> Sleeping]]
               /\ UNCHANGED <<now, historyDB, last, shown>>
      <3>1. /\ gen + 1 \in 1..MaxGen
            /\ job'[gen + 1] = [k \in Kinds |-> Sleeping]
            /\ \A g \in 1..MaxGen : g # gen + 1 => job'[g] = job[g]
        BY <1>0, <1>1, <2>1
      <3>2. \A g \in 1..MaxGen, k \in Kinds : job'[g][k] = job[g][k] \/ job'[g][k].pc = "sleeping"
        BY <1>I, <3>1
      <3>3. \A g \in 1..MaxGen : job[g]["backfill"].pc = "append" => job'[g]["backfill"].pc = "append"
        <4>1. job[gen + 1]["backfill"].pc = "over"
          BY <1>0, <1>1, <3>1 DEF Kinds
        <4> QED BY <3>1, <4>1
      <3>4. FirstRates' = FirstRates
        BY <2>1 DEF FirstRates, Back
      <3>5. history' = historyDB \/ (history' = history /\ (history = {} => historyDB = {}))
        <4>1. CASE history' = historyDB
          BY <4>1
        <4>2. CASE history' = history /\ missed' = IF history = {} THEN missed \cup historyDB ELSE missed
          BY <4>2
        <4> QED BY <2>1, <4>1, <4>2 DEF Load
      <3>6. history = {} /\ history' # {} /\ Pending => FirstRates \subseteq history'
        BY <1>3, <3>5
      <3>7. ASSUME NEW g \in 1..MaxGen, NEW k \in Kinds
            PROVE  /\ AtWork(job[g][k])' => Adjacent(k, job[g][k], history)'
                   /\ job'[g][k].pc \in {"dump", "append"} => Fetched(k, job[g][k])'
                   /\ job'[g][k].pc = "append" => job'[g][k].rates \subseteq historyDB'
        <4>1. CASE job'[g][k].pc = "sleeping"
          BY <4>1 DEF AtWork
        <4>2. CASE job'[g][k] = job[g][k] /\ AtWork(job[g][k])
          <5>1. Pending
            BY <4>2 DEF Pending, AtWork
          <5>2. history \subseteq history' /\ (history = {} /\ history' # {} => FirstRates \subseteq history')
            BY <1>3, <3>5, <3>6, <5>1
          <5>3. Adjacent(k, job[g][k], history')
            BY <1>3, <4>2, <5>2 DEF Adjacent
          <5>4. Adjacent(k, job[g][k], history)'
            BY <2>1, <3>4, <4>2, <5>3 DEF Adjacent
          <5>5. job'[g][k].pc \in {"dump", "append"} => Fetched(k, job[g][k])'
            BY <1>3, <2>1, <4>2 DEF Fetched
          <5> QED BY <1>3, <2>1, <4>2, <5>4, <5>5
        <4>3. CASE job'[g][k] = job[g][k] /\ ~AtWork(job[g][k])
          BY <4>3 DEF AtWork
        <4> QED BY <3>2, <4>1, <4>2, <4>3
      <3>8. Convex(history)' /\ Convex(historyDB)' /\ history' \subseteq historyDB' /\ (history' = {} => historyDB' = {})
        BY <1>3, <2>1, <3>5 DEF Convex
      <3> QED BY <3>7, <3>8 DEF Complete
    <2>2. CASE active /\ active' = FALSE /\ UNCHANGED <<now, history, historyDB, gen, job, missed, last, shown, ratesFaults>>
      BY <1>3, <2>2 DEF Complete, Convex, AtWork, Adjacent, Fetched, FirstRates, Back, Pending
    <2> QED BY <1>4, <2>1, <2>2 DEF ReconfigureHistory
  <1>5. CASE Restart
    <2>1. /\ job' = [g \in 1..MaxGen |-> [k \in Kinds |-> Over]] /\ history' = {} /\ active' = FALSE
          /\ UNCHANGED <<now, historyDB, gen, missed>>
      BY <1>5 DEF Restart
    <2>2. \A g \in 1..MaxGen, k \in Kinds : job'[g][k].pc = "over"
      BY <1>I, <2>1
    <2> QED BY <1>3, <2>1, <2>2 DEF Complete, Convex, AtWork, Pending
  <1>6. CASE TimePasses
    <2>1. ~Pending /\ UNCHANGED <<history, historyDB, gen, active, job, missed>>
      BY <1>6 DEF TimePasses
    <2>2. \A g \in 1..MaxGen, k \in Kinds : job[g][k].pc \notin {"fetch", "dump", "append"}
      BY <2>1 DEF Pending
    <2>3. history = {} /\ historyDB # {} => ~active
      BY <1>3, <2>2 DEF Kinds
    <2> QED BY <1>3, <2>1, <2>2, <2>3 DEF Complete, Convex, AtWork, Pending
  <1>7. ASSUME NEW g \in 1..MaxGen, BeginUpdate(g) PROVE Complete'
    <2> DEFINE j == [Sleeping EXCEPT !.pc = "fetch", !.from = NextStart]
    <2>1. /\ job[g]["update"].pc = "sleeping" /\ history # {} /\ Set(g, "update", j)
          /\ UNCHANGED <<now, history, historyDB, gen, active, missed>>
      BY <1>7 DEF BeginUpdate
    <2>2. j.pc = "fetch" /\ j.from = Max(history) + 1
      BY DEF Sleeping, NextStart, HistoryLatestTimestamp
    <2>3. Max(history) \in history /\ Max(history) \in Nat
      BY <1>0, <1>1, <2>1, EndsOK
    <2> HIDE DEF j
    <2>4. Adjacent("update", j, history')
      BY <2>1, <2>2, <2>3 DEF Adjacent
    <2> QED BY <1>2, <1>3, <2>1, <2>2, <2>4, SetComplete DEF Kinds
  <1>8. ASSUME NEW g \in 1..MaxGen, BeginBackfill(g) PROVE Complete'
    <2> DEFINE j == BackfillRange
    <2>1. /\ job[g]["backfill"].pc = "sleeping" /\ Set(g, "backfill", j) /\ active
          /\ UNCHANGED <<now, history, historyDB, gen, active, missed>>
      BY <1>8 DEF BeginBackfill, Cancelled
    <2>2. j.pc = "fetch" /\ Adjacent("backfill", j, history)
      <3>1. CASE history = {}
        <4>1. j.pc = "fetch" /\ j.to = now /\ j.from = Back(now, Recent)
          BY <3>1 DEF BackfillRange, Sleeping
        <4> QED BY <3>1, <4>1 DEF Adjacent
      <3>2. CASE history # {}
        <4>1. j.pc = "fetch" /\ j.to = Min(history) - 1
          BY <3>2 DEF BackfillRange, Sleeping, HistoryEarliestTimestamp
        <4>2. Min(history) \in history /\ Min(history) \in Nat
          <5>1. Min(history) \in history
            BY <3>2, EndsOK
          <5>2. history \subseteq Nat
            BY <1>0, <1>1
          <5> QED BY <5>1, <5>2
        <4>3. j.to + 1 \in history
          BY <4>1, <4>2
        <4> QED BY <4>1, <4>3 DEF Adjacent
      <3> QED BY <3>1, <3>2
    <2> HIDE DEF j
    <2>3. history' = {} /\ historyDB' # {} =>
            \/ ~active' /\ ~Pending'
            \/ historyDB' = FirstRates /\ \E h \in 1..MaxGen : job'[h]["backfill"].pc = "append"
      BY <1>2, <2>1, StillEmpty DEF Kinds
    <2> QED BY <1>2, <1>3, <2>1, <2>2, <2>3, SetComplete DEF Kinds
  <1>9. ASSUME NEW g \in 1..MaxGen, NEW k \in Kinds, Fetch(g, k) PROVE Complete'
    <2> DEFINE j == job[g][k]
               end == End(k, j)
               i == [j EXCEPT !.pc = "dump", !.rates = (First..now) \cap (j.from..end)]
    <2>1. /\ j.pc = "fetch" /\ Set(g, k, i) /\ UNCHANGED <<now, history, historyDB, gen, active, missed>>
      BY <1>9 DEF Fetch
    <2>2. AtWork(j) /\ JobTypeOK(j) /\ Adjacent(k, j, history)
      BY <1>1, <1>3, <2>1 DEF AtWork
    <2>3. end \in 0..now /\ (k = "backfill" => end = j.to)
      <3> HIDE DEF j
      <3>1. j.from \in Nat /\ j.to \in Nat
        BY <2>2 DEF JobTypeOK
      <3>2. CASE k = "backfill"
        <4>1. j.to <= now
          BY <1>0, <1>1, <2>2, <3>1, <3>2 DEF Adjacent
        <4> QED BY <1>1, <3>1, <3>2, <4>1 DEF End
      <3>3. CASE k # "backfill"
        BY <1>0, <1>1, <3>1, <3>3 DEF End
      <3> QED BY <3>2, <3>3
    <2> HIDE DEF end, j
    <2>4. i.pc = "dump" /\ i.from = j.from /\ i.to = j.to /\ i.rates = (First..now) \cap (j.from..end)
      BY <2>2 DEF JobTypeOK
    <2> HIDE DEF i
    <2>5. Adjacent(k, i, history') /\ Fetched(k, i)
      BY <2>1, <2>2, <2>3, <2>4 DEF Adjacent, Fetched
    <2>6. history' = {} /\ historyDB' # {} =>
            \/ ~active' /\ ~Pending'
            \/ historyDB' = FirstRates /\ \E h \in 1..MaxGen : job'[h]["backfill"].pc = "append"
      BY <1>2, <2>1, <2>2, StillEmpty DEF j
    <2> QED BY <1>2, <1>3, <2>1, <2>4, <2>5, <2>6, SetComplete
  <1>10. ASSUME NEW g \in 1..MaxGen, NEW k \in Kinds, FetchFails(g, k) PROVE Complete'
    <2>1. /\ job[g][k].pc = "fetch" /\ Set(g, k, Sleeping) /\ UNCHANGED <<now, history, historyDB, gen, active, missed>>
      BY <1>10 DEF FetchFails, AfterError
    <2>2. history' = {} /\ historyDB' # {} =>
            \/ ~active' /\ ~Pending'
            \/ historyDB' = FirstRates /\ \E h \in 1..MaxGen : job'[h]["backfill"].pc = "append"
      BY <1>2, <1>I, <2>1, StillEmpty
    <2> QED BY <1>2, <1>3, <1>I, <2>1, <2>2, SetComplete
  <1>11. ASSUME NEW g \in 1..MaxGen, NEW k \in Kinds, Dump(g, k) PROVE Complete'
    <2> DEFINE j == job[g][k]
               i == [j EXCEPT !.pc = "append"]
    <2>1. j.pc = "dump" /\ Set(g, k, i) /\ UNCHANGED <<now, history, gen, active>>
      BY <1>11 DEF Dump
    <2>2. AtWork(j) /\ JobTypeOK(j) /\ Adjacent(k, j, history) /\ Fetched(k, j)
      BY <1>1, <1>3, <2>1 DEF AtWork
    <2>3. Pending
      BY <2>1 DEF Pending
    <2>4. historyDB' = historyDB \cup j.rates \/ (historyDB' = historyDB /\ j.rates = {})
      BY <1>11 DEF Dump
    <2>5. historyDB' = historyDB \cup j.rates
      BY <2>4
    <2>6. history = {} => historyDB \in {{}, FirstRates}
      BY <1>3, <2>3
    <2> HIDE DEF j
    <2>7. /\ Convex(historyDB \cup j.rates)
          /\ history = {} => k = "backfill" /\ j.rates = FirstRates
      BY <1>1, <1>3, <2>2, <2>6, AddRates
    <2>8. i.pc = "append" /\ i.from = j.from /\ i.to = j.to /\ i.rates = j.rates
      BY <2>2 DEF JobTypeOK
    <2> HIDE DEF i
    <2>9. Adjacent(k, i, history') /\ Fetched(k, i)
      BY <2>1, <2>2, <2>8 DEF Adjacent, Fetched
    <2>10. history' = {} => historyDB' = FirstRates /\ \E h \in 1..MaxGen : job'[h]["backfill"].pc = "append"
      <3>1. job'[g][k] = i
        BY <2>1, SetJob
      <3> QED BY <2>1, <2>5, <2>6, <2>7, <2>8, <3>1
    <2> QED BY <1>2, <1>3, <2>1, <2>5, <2>7, <2>8, <2>9, <2>10, SetComplete
  <1>12. ASSUME NEW g \in 1..MaxGen, NEW k \in Kinds, AppendRates(g, k) PROVE Complete'
    <2> DEFINE j == job[g][k]
               i == IF k = "backfill" /\ j.rates = {} THEN Over ELSE Sleeping
    <2>1. /\ j.pc = "append" /\ Set(g, k, i) /\ history' = history \cup j.rates
          /\ UNCHANGED <<now, historyDB, gen, active, missed>>
      BY <1>12 DEF AppendRates
    <2>2. AtWork(j) /\ JobTypeOK(j) /\ Adjacent(k, j, history) /\ Fetched(k, j) /\ j.rates \subseteq historyDB
      BY <1>1, <1>3, <2>1 DEF AtWork
    <2>3. ~AtWork(i) /\ i.pc \notin {"dump", "append"}
      BY <1>I
    <2> HIDE DEF j, i
    <2>4. /\ Convex(history \cup j.rates)
          /\ history = {} => j.rates = FirstRates
      BY <1>1, <1>3, <2>2, AddRates
    <2>5. history' # {}
      BY <2>1, <2>4, FirstRatesOK
    <2> QED BY <1>2, <1>3, <2>1, <2>2, <2>3, <2>4, <2>5, SetComplete
  <1>13. ASSUME NEW g \in 1..MaxGen, NEW k \in Kinds, Return(g, k) PROVE Complete'
    <2>1. /\ job[g][k].pc = "sleeping" /\ Set(g, k, Over) /\ UNCHANGED <<now, history, historyDB, gen, active, missed>>
      BY <1>13 DEF Return
    <2>2. history' = {} /\ historyDB' # {} =>
            \/ ~active' /\ ~Pending'
            \/ historyDB' = FirstRates /\ \E h \in 1..MaxGen : job'[h]["backfill"].pc = "append"
      BY <1>2, <1>I, <2>1, StillEmpty
    <2> QED BY <1>2, <1>3, <1>I, <2>1, <2>2, SetComplete
  <1>14. CASE LatestNext \/ UNCHANGED ratesVars
    <2>1. UNCHANGED <<now, history, historyDB, gen, active, job, missed>>
      BY <1>14 DEF LatestNext, UpdateLast, UpdateLastFails, ratesVars
    <2> QED BY <1>3, <2>1 DEF Complete, Convex, AtWork, Adjacent, Fetched, FirstRates, Back, Pending
  <1> QED BY <1>4, <1>5, <1>6, <1>7, <1>8, <1>9, <1>10, <1>11, <1>12, <1>13, <1>14
          DEF RatesNext, HistoryNext, HistoryStep

\* The latest rates: only UpdateLast sets them, and tells the frontend unless it knows.
LEMMA RatesShownStep == RatesShown /\ [RatesNext]_ratesVars => RatesShown'
  <1> SUFFICES ASSUME RatesShown, [RatesNext]_ratesVars PROVE RatesShown'
    OBVIOUS
  <1>1. CASE UpdateLast
    BY <1>1, RatesAssumption DEF UpdateLast, Changed, RatesShown
  <1>2. CASE UpdateLastFails
    BY <1>2 DEF UpdateLastFails, RatesShown
  <1>3. CASE HistoryNext \/ UNCHANGED ratesVars
    <2>1. UNCHANGED <<last, shown>> \/ last' = NoPrice
      BY <1>3 DEF HistoryNext, HistoryStep, ReconfigureHistory, Restart, TimePasses, BeginUpdate,
         BeginBackfill, Fetch, FetchFails, Dump, AppendRates, Return, ratesVars
    <2> QED BY <2>1 DEF RatesShown
  <1> QED BY <1>1, <1>2, <1>3 DEF RatesNext, LatestNext

LEMMA RatesInitInv == RatesInit => RatesInv
  <1> SUFFICES ASSUME RatesInit PROVE RatesInv
    OBVIOUS
  <1>1. First \in Nat \ {0} /\ InitialNow \in Nat /\ InitialNow >= First + Recent /\ MaxGen \in Nat
    BY RatesAssumption
  <1>2. JobTypeOK(Over) /\ Over.pc = "over"
    BY <1>1, IdleJobs DEF RatesInit
  <1>3. \A g \in 1..MaxGen : DOMAIN job[g] = Kinds /\ \A k \in Kinds : JobTypeOK(job[g][k]) /\ job[g][k].pc = "over"
    BY <1>2 DEF RatesInit
  <1>4. RatesTypeOK
    <2>1. now \in Nat /\ now >= First + Recent /\ history = {} /\ historyDB = {} /\ missed = {} /\ gen = 0
      BY <1>1 DEF RatesInit
    <2>2. DOMAIN job = 1..MaxGen
      BY DEF RatesInit
    <2>3. gen \in 0..MaxGen
      BY <1>1, <2>1
    <2>4. \A g \in 1..MaxGen : DOMAIN job[g] = Kinds /\ \A k \in Kinds : JobTypeOK(job[g][k])
      BY <1>3
    <2>5. \A g \in 1..MaxGen : g > gen => \A k \in Kinds : job[g][k].pc = "over"
      BY <1>3
    <2>6. active \in BOOLEAN
      BY DEF RatesInit
    <2> QED BY <2>1, <2>2, <2>3, <2>4, <2>5, <2>6 DEF RatesTypeOK
  <1>5. Complete
    BY <1>3 DEF RatesInit, Complete, Convex, AtWork
  <1> QED BY <1>4, <1>5 DEF RatesInit, RatesInv, RatesShown

\* RatesInv holds in every reachable state.
THEOREM RatesInvariance == RatesSpec => []RatesInv
  <1>1. RatesInv /\ [RatesNext]_ratesVars => RatesInv'
    BY RatesTypeStep, RatesCompleteStep, RatesShownStep DEF RatesInv
  <1> QED BY <1>1, RatesInitInv, PTL DEF RatesSpec

\* Whatever the number of generations, the size of a request and the time the app was not run, the
\* history has no holes unless a write or a first read failed, and the frontend is shown the rates.
THEOREM RatesSoundHolds == RatesSpec => []RatesSound
  <1>1. RatesInv => RatesSound
    <2> SUFFICES ASSUME RatesInv, missed = {}, history # {} PROVE Min(history)..Max(history) \subseteq history
      BY DEF RatesInv, RatesSound, NoHoles
    <2>1. Min(history) \in history /\ Max(history) \in history
      BY EndsOK DEF RatesInv
    <2> QED BY <2>1 DEF RatesInv, Complete, Convex
  <1> QED BY <1>1, RatesInvariance, PTL

-----------------------------------------------------------------------------
(* MakeTx                                                                  *)

Scripts == {"p2pkh", "p2sh", "p2wpkh", "p2tr"}

\* The sizes are those that the network counts.
LEMMA SizeFacts ==
    ASSUME NEW script \in Scripts
    PROVE  /\ sigScriptSize(script) \in Nat /\ sigScriptSize(script) < 253
           /\ calcInputSize(sigScriptSize(script)) = 41 + sigScriptSize(script)
           /\ witnessSize(script) \in Nat
           /\ (witnessSize(script) = 0 <=> script = "p2pkh")
  BY DEF Scripts, sigScriptSize, calcInputSize, witnessSize, VarIntSerializeSize

LEMMA WeightFacts ==
    ASSUME NEW script \in Scripts, NEW segwit \in BOOLEAN
    PROVE  /\ inputWeight(script, segwit) \in Nat
           /\ inputWeight(script, segwit) \in Int
           /\ \A less \in BOOLEAN : (less => segwit) => inputWeight(script, less) <= inputWeight(script, segwit)
           /\ 4 * (41 + sigScriptSize(script)) <= inputWeight(script, segwit)
           /\ segwit => 4 * (41 + sigScriptSize(script)) + (IF script = "p2pkh" THEN 1 ELSE witnessSize(script))
                            <= inputWeight(script, segwit)
  <1>1. VarIntSerializeSize(0) = 1
    BY DEF VarIntSerializeSize
  <1> QED BY <1>1, SizeFacts DEF inputWeight

LEMMA OutputFacts ==
    ASSUME NEW n \in Nat
    PROVE  outputSize(n) \in Nat /\ VarIntSerializeSize(n) \in Nat /\ VarIntSerializeSize(n) >= 1
           /\ \A m \in Nat : m <= n => VarIntSerializeSize(m) <= VarIntSerializeSize(n)
  BY DEF outputSize, VarIntSerializeSize

LEMMA ScriptOfCoin ==
    ASSUME NEW s \in Seq(Coin)
    PROVE  /\ Len(s) \in Nat /\ DOMAIN s = 1..Len(s) /\ IsFiniteSet(DOMAIN s)
           /\ \A i \in DOMAIN s : s[i].script \in Scripts /\ s[i].value \in Nat
  <1>1. Len(s) \in Nat /\ DOMAIN s = 1..Len(s) /\ \A i \in DOMAIN s : s[i] \in Coin
    OBVIOUS
  <1>2. IsFiniteSet(DOMAIN s)
    BY <1>1, FS_Interval
  <1> QED BY <1>1, <1>2, MakeTxAssumption DEF Coin, Scripts

\* The fields of a size.
Fixed(inputs, to, change) ==
    4 * (4 + 4 + VarIntSerializeSize(Len(inputs)) + VarIntSerializeSize(IF change = 0 THEN 1 ELSE 2)
         + outputSize(to) + outputSize(change))
Weights(inputs, segwit) == [i \in DOMAIN inputs |-> inputWeight(inputs[i].script, segwit)]
WeightOf(inputs) == SumFunctionOnSet(Weights(inputs, isSegwitTx(inputs)), DOMAIN inputs)
Marker(inputs) == IF isSegwitTx(inputs) THEN 2 ELSE 0

LEMMA EstimateIs ==
    ASSUME NEW inputs \in Seq(Coin), NEW to \in Nat, NEW change \in Nat
    PROVE  /\ estimateTxSize(inputs, to, change) = (Fixed(inputs, to, change) + WeightOf(inputs) + Marker(inputs) + 3) \div 4
           /\ Fixed(inputs, to, change) \in Nat /\ WeightOf(inputs) \in Nat /\ Marker(inputs) \in Nat
           /\ Fixed(inputs, to, change) >= 40
           /\ estimateTxSize(inputs, to, change) \in Nat /\ estimateTxSize(inputs, to, change) >= 10
  <1>1. estimateTxSize(inputs, to, change) = (Fixed(inputs, to, change) + WeightOf(inputs) + Marker(inputs) + 3) \div 4
    BY DEF estimateTxSize, RoundUp4, Fixed, WeightOf, Weights, Marker, SumOver, SumFunction
  <1>2. isSegwitTx(inputs) \in BOOLEAN
    BY DEF isSegwitTx
  <1>3. WeightOf(inputs) \in Nat
    <2>1. \A i \in DOMAIN inputs : Weights(inputs, isSegwitTx(inputs))[i] \in Nat
      BY <1>2, ScriptOfCoin, WeightFacts DEF Weights
    <2> QED BY <2>1, ScriptOfCoin, SumNat DEF WeightOf
  <1>4. Fixed(inputs, to, change) \in Nat /\ Fixed(inputs, to, change) >= 40
    <2>1. Len(inputs) \in Nat
      OBVIOUS
    <2>2. VarIntSerializeSize(Len(inputs)) \in Nat /\ VarIntSerializeSize(Len(inputs)) >= 1
      BY <2>1, OutputFacts
    <2>3. VarIntSerializeSize(IF change = 0 THEN 1 ELSE 2) = 1
      BY DEF VarIntSerializeSize
    <2>4. outputSize(to) \in Nat /\ outputSize(change) \in Nat
      BY OutputFacts
    <2> QED BY <2>2, <2>3, <2>4 DEF Fixed
  <1>5. Marker(inputs) \in Nat
    BY DEF Marker
  <1> QED BY <1>1, <1>3, <1>4, <1>5

\* A transaction is not larger than the estimate.
LEMMA EstimateCovers ==
    ASSUME NEW inputs \in Seq(Coin), NEW to \in Nat, NEW change \in Nat, NEW given \in {0, change}
    PROVE  SerializedSize(inputs, to, given) \in Nat /\ SerializedSize(inputs, to, given) <= estimateTxSize(inputs, to, change)
  <1> DEFINE D == DOMAIN inputs
             segwit == \E i \in DOMAIN inputs : inputs[i].script # "p2pkh"
             bare == [i \in D |-> 41 + sigScriptSize(inputs[i].script)]
             stacks == [i \in D |-> IF inputs[i].script = "p2pkh" THEN 1 ELSE witnessSize(inputs[i].script)]
             none == [i \in D |-> 0]
             weights == Weights(inputs, isSegwitTx(inputs))
             Sm(f) == SumFunctionOnSet(f, D)
             vi == VarIntSerializeSize(Len(inputs))
             base == 9 + vi + Sm(bare) + outputSize(to) + outputSize(given)
  <1>1. SerializedSize(inputs, to, given) = (3 * base + base + (IF segwit THEN 2 + Sm(stacks) ELSE 0) + 3) \div 4
    BY DEF SerializedSize, SumOver, SumFunction
  <1>2. IsFiniteSet(D) /\ Len(inputs) \in Nat /\ \A i \in D : inputs[i].script \in Scripts
    BY ScriptOfCoin
  <1>3. isSegwitTx(inputs) = segwit
    <2>1. \A i \in D : witnessSize(inputs[i].script) > 0 <=> inputs[i].script # "p2pkh"
      BY <1>2, SizeFacts
    <2> QED BY <2>1 DEF isSegwitTx
  <1>4. /\ \A i \in D : bare[i] \in Nat /\ stacks[i] \in Nat /\ none[i] \in Nat /\ weights[i] \in Nat
        /\ \A i \in D : 4 * bare[i] + none[i] <= weights[i]
        /\ segwit => \A i \in D : 4 * bare[i] + stacks[i] <= weights[i]
    <2>1. isSegwitTx(inputs) \in BOOLEAN
      BY DEF isSegwitTx
    <2> SUFFICES ASSUME NEW i \in D
                 PROVE  /\ bare[i] \in Nat /\ stacks[i] \in Nat /\ none[i] \in Nat /\ weights[i] \in Nat
                        /\ 4 * bare[i] + none[i] <= weights[i]
                        /\ isSegwitTx(inputs) => 4 * bare[i] + stacks[i] <= weights[i]
      BY <1>3
    <2>2. weights[i] = inputWeight(inputs[i].script, isSegwitTx(inputs)) /\ inputs[i].script \in Scripts
      BY <1>2 DEF Weights
    <2>3. /\ inputWeight(inputs[i].script, isSegwitTx(inputs)) \in Nat
          /\ 4 * (41 + sigScriptSize(inputs[i].script)) <= inputWeight(inputs[i].script, isSegwitTx(inputs))
          /\ isSegwitTx(inputs) =>
                4 * (41 + sigScriptSize(inputs[i].script))
                  + (IF inputs[i].script = "p2pkh" THEN 1 ELSE witnessSize(inputs[i].script))
                <= inputWeight(inputs[i].script, isSegwitTx(inputs))
      BY <2>1, <2>2, WeightFacts
    <2>4. sigScriptSize(inputs[i].script) \in Nat /\ witnessSize(inputs[i].script) \in Nat
      BY <2>2, SizeFacts
    <2> HIDE DEF weights
    <2> QED BY <2>2, <2>3, <2>4
  <1> HIDE DEF bare, stacks, none, weights, D, segwit
  <1>5. Sm(bare) \in Nat /\ Sm(stacks) \in Nat /\ Sm(none) \in Nat /\ Sm(weights) \in Nat
    BY <1>2, <1>4, SumNat
  <1>6. 4 * Sm(bare) + Sm(none) <= Sm(weights)
    <2>1. \A i \in D : bare[i] \in Int /\ none[i] \in Int /\ weights[i] \in Int /\ 4 * bare[i] + none[i] <= weights[i]
      BY <1>4
    <2> QED BY <1>2, <2>1, SumLinear
  <1>7. segwit => 4 * Sm(bare) + Sm(stacks) <= Sm(weights)
    <2> SUFFICES ASSUME segwit PROVE 4 * Sm(bare) + Sm(stacks) <= Sm(weights)
      OBVIOUS
    <2>1. \A i \in D : bare[i] \in Int /\ stacks[i] \in Int /\ weights[i] \in Int /\ 4 * bare[i] + stacks[i] <= weights[i]
      BY <1>4
    <2> QED BY <1>2, <2>1, SumLinear
  <1>8. WeightOf(inputs) = Sm(weights)
    BY DEF WeightOf, weights, D
  <1>9. vi \in Nat
    BY <1>2, OutputFacts
  <1>10. outputSize(to) \in Nat /\ outputSize(given) \in Nat /\ outputSize(change) \in Nat /\ outputSize(given) <= outputSize(change)
    <2>1. outputSize(0) = 0 /\ outputSize(to) \in Nat /\ outputSize(change) \in Nat
      BY OutputFacts DEF outputSize
    <2> QED BY <2>1
  <1>11. Fixed(inputs, to, change) = 4 * (9 + vi + outputSize(to) + outputSize(change))
    <2>1. VarIntSerializeSize(IF change = 0 THEN 1 ELSE 2) = 1
      BY DEF VarIntSerializeSize
    <2> HIDE DEF vi
    <2> QED BY <1>9, <1>10, <2>1 DEF Fixed, vi
  <1>12. Marker(inputs) = IF segwit THEN 2 ELSE 0
    BY <1>3 DEF Marker
  <1> HIDE DEF vi, Sm
  <1> DEFINE real == 3 * base + base + (IF segwit THEN 2 + Sm(stacks) ELSE 0)
             est == Fixed(inputs, to, change) + WeightOf(inputs) + Marker(inputs)
  <1>13. real \in Nat /\ real <= est
    <2> DEFINE b == Sm(bare)
               k == Sm(stacks)
               w == Sm(weights)
               g == outputSize(given)
               c == outputSize(change)
               o == outputSize(to)
    <2>1. b \in Nat /\ k \in Nat /\ w \in Nat /\ g \in Nat /\ c \in Nat /\ o \in Nat /\ vi \in Nat /\ g <= c
      BY <1>5, <1>9, <1>10
    <2>2. 4 * b <= w /\ (segwit => 4 * b + k <= w)
      BY <1>5, <1>6, <1>7
    <2>3. /\ real = 3 * (9 + vi + b + o + g) + (9 + vi + b + o + g) + (IF segwit THEN 2 + k ELSE 0)
          /\ est = 4 * (9 + vi + o + c) + w + (IF segwit THEN 2 ELSE 0)
      BY <1>8, <1>11, <1>12
    <2> HIDE DEF b, k, w, g, c, o, real, est
    <2>4. CASE segwit
      <3>1. real = 3 * (9 + vi + b + o + g) + (9 + vi + b + o + g) + (2 + k) /\ est = 4 * (9 + vi + o + c) + w + 2
        BY <2>3, <2>4
      <3> QED BY <2>1, <2>2, <2>4, <3>1
    <2>5. CASE ~segwit
      <3>1. real = 3 * (9 + vi + b + o + g) + (9 + vi + b + o + g) + 0 /\ est = 4 * (9 + vi + o + c) + w + 0
        BY <2>3, <2>5
      <3> QED BY <2>1, <2>2, <3>1
    <2> QED BY <2>4, <2>5
  <1>14. est \in Nat /\ estimateTxSize(inputs, to, change) = (est + 3) \div 4
    <2>1. estimateTxSize(inputs, to, change) = (est + 3) \div 4
      BY EstimateIs
    <2>2. Fixed(inputs, to, change) \in Nat /\ WeightOf(inputs) \in Nat /\ Marker(inputs) \in Nat
      BY EstimateIs
    <2>3. est \in Nat
      BY <2>2
    <2> QED BY <2>1, <2>3
  <1>15. SerializedSize(inputs, to, given) = (real + 3) \div 4
    BY <1>1
  <1> HIDE DEF real, est
  <1> QED BY <1>13, <1>14, <1>15

\* A fee is at least what the rate asks for.
LEMMA FeeFacts ==
    ASSUME NEW rate \in Nat, NEW size \in Nat
    PROVE  feeForSerializeSize(rate, size) \in Nat /\ feeForSerializeSize(rate, size) >= (rate * size) \div 1000
           /\ rate * size \in Nat
  <1>1. rate * size \in Nat
    OBVIOUS
  <1> DEFINE p == rate * size
  <1> HIDE DEF p
  <1>2. p \in Nat
    BY <1>1 DEF p
  <1>3. p \div 1000 \in Nat
    BY <1>2
  <1>4. feeForSerializeSize(rate, size) = IF p \div 1000 = 0 /\ rate > 0 THEN rate ELSE p \div 1000
    BY DEF feeForSerializeSize, p
  <1>5. feeForSerializeSize(rate, size) \in Nat /\ feeForSerializeSize(rate, size) >= p \div 1000
    BY <1>3, <1>4
  <1> QED BY <1>1, <1>5 DEF p

LEMMA ProductGrows ==
    ASSUME NEW a \in Nat, NEW b \in Nat, NEW m \in Nat, NEW n \in Nat, a <= b, m <= n
    PROVE  a * m <= b * n /\ (a * m) \div 1000 <= (b * n) \div 1000
  <1>1. a * m <= b * m /\ b * m <= b * n
    OBVIOUS
  <1>2. a * m \in Nat /\ b * m \in Nat /\ b * n \in Nat
    OBVIOUS
  <1>3. a * m <= b * n
    BY <1>1, <1>2
  <1>4. \A x, y \in Nat : x <= y => x \div 1000 <= y \div 1000
    OBVIOUS
  <1> QED BY <1>2, <1>3, <1>4

\* A larger transaction costs more, unless the fee of the smaller one would be nothing.
LEMMA FeeGrows ==
    ASSUME NEW rate \in Nat, NEW m \in Nat, NEW n \in Nat, m <= n, m >= 1
    PROVE  \/ feeForSerializeSize(rate, m) <= feeForSerializeSize(rate, n)
           \/ rate < 1000 /\ feeForSerializeSize(rate, m) = rate
  <1>1. (rate * m) \div 1000 <= (rate * n) \div 1000 /\ (rate * n) \div 1000 \in Int /\ (rate * m) \div 1000 \in Int
    BY ProductGrows, FeeFacts
  <1>2. feeForSerializeSize(rate, n) \in Nat /\ feeForSerializeSize(rate, n) >= (rate * n) \div 1000
    BY FeeFacts
  <1>3. CASE feeForSerializeSize(rate, m) = (rate * m) \div 1000
    BY <1>1, <1>2, <1>3
  <1>4. CASE feeForSerializeSize(rate, m) # (rate * m) \div 1000
    <2>1. (rate * m) \div 1000 = 0 /\ feeForSerializeSize(rate, m) = rate
      BY <1>4 DEF feeForSerializeSize
    <2>2. rate * m \in Nat /\ rate <= rate * m
      OBVIOUS
    <2>3. \A x \in Nat : x \div 1000 = 0 => x < 1000
      OBVIOUS
    <2> QED BY <2>1, <2>2, <2>3
  <1> QED BY <1>3, <1>4

LEMMA TotalIs ==
    ASSUME NEW s \in Seq(Coin)
    PROVE  Total(s) = SumFunctionOnSet([i \in DOMAIN s |-> s[i].value], DOMAIN s) /\ Total(s) \in Nat
  <1> DEFINE v == [i \in DOMAIN s |-> s[i].value]
  <1>1. Total(s) = SumFunctionOnSet(v, DOMAIN s)
    BY DEF Total, SumOver, SumFunction
  <1>2. IsFiniteSet(DOMAIN s) /\ \A i \in DOMAIN s : v[i] \in Nat
    BY ScriptOfCoin
  <1> HIDE DEF v
  <1>3. SumFunctionOnSet(v, DOMAIN s) \in Nat
    BY <1>2, SumNat
  <1> QED BY <1>1, <1>3 DEF v

\* Largest(k) is a sequence of k of the coins.
LEMMA LargestFacts ==
    ASSUME coins \in Seq(Coin), NEW k \in 0..Len(coins)
    PROVE  /\ Largest(k) \in Seq(Coin) /\ Len(Largest(k)) = k /\ DOMAIN Largest(k) = 1..k
           /\ \A i \in 1..k : Len(coins) + 1 - i \in DOMAIN coins /\ Largest(k)[i] = coins[Len(coins) + 1 - i]
  <1>1. Len(coins) \in Nat /\ DOMAIN coins = 1..Len(coins) /\ k \in Nat
    OBVIOUS
  <1>2. \A i \in 1..k : Len(coins) + 1 - i \in 1..Len(coins)
    BY <1>1
  <1>3. \A i \in 1..k : Largest(k)[i] = coins[Len(coins) + 1 - i] /\ Largest(k)[i] \in Coin
    BY <1>1, <1>2 DEF Largest
  <1>4. Largest(k) \in Seq(Coin) /\ Len(Largest(k)) = k /\ DOMAIN Largest(k) = 1..k
    BY <1>1, <1>3 DEF Largest
  <1> QED BY <1>1, <1>2, <1>3, <1>4

\* All coins, in the other order, are worth the same.
LEMMA TotalLargest ==
    ASSUME coins \in Seq(Coin)
    PROVE  Total(coins) <= Total(Largest(Len(coins)))
  <1> DEFINE n == Len(coins)
             D == DOMAIN coins
             v == [i \in D |-> coins[i].value]
             w == [i \in 1..n |-> Largest(n)[i].value]
             h == [i \in D |-> n + 1 - i]
  <1>1. n \in Nat /\ n \in 0..n /\ D = 1..n /\ IsFiniteSet(D)
    BY ScriptOfCoin
  <1>2. /\ Largest(n) \in Seq(Coin) /\ DOMAIN Largest(n) = 1..n
        /\ \A i \in 1..n : Largest(n)[i] = coins[n + 1 - i]
    BY <1>1, LargestFacts
  <1>3. Total(coins) = SumFunctionOnSet(v, D) /\ Total(Largest(n)) = SumFunctionOnSet(w, 1..n)
    BY <1>2, TotalIs
  <1>4. \A i \in D : coins[i].value \in Nat
    BY ScriptOfCoin
  <1> HIDE DEF n
  <1>5. \A i \in D : n + 1 - i \in 1..n /\ n + 1 - (n + 1 - i) = i
    BY <1>1
  <1>6. \A i \in D : h[i] \in 1..n /\ v[i] \in Int /\ v[i] <= w[h[i]]
    <2> SUFFICES ASSUME NEW i \in D PROVE n + 1 - i \in 1..n /\ coins[i].value \in Int /\ coins[i].value <= Largest(n)[n + 1 - i].value
      OBVIOUS
    <2>1. Largest(n)[n + 1 - i] = coins[n + 1 - (n + 1 - i)]
      BY <1>2, <1>5
    <2>2. Largest(n)[n + 1 - i] = coins[i]
      BY <1>5, <2>1
    <2> QED BY <1>4, <1>5, <2>2
  <1>7. \A i, j \in D : h[i] = h[j] => i = j
    BY <1>1
  <1>8. \A i \in 1..n : w[i] \in Nat
    BY <1>1, <1>2, ScriptOfCoin
  <1> HIDE DEF v, w, h, D
  <1>9. SumFunctionOnSet(v, D) <= SumFunctionOnSet(w, 1..n)
    BY <1>1, <1>6, <1>7, <1>8, SumInjection
  <1> QED BY <1>3, <1>9 DEF n

\* Fewer inputs make a smaller transaction.
LEMMA EstimateGrows ==
    ASSUME coins \in Seq(Coin), NEW k \in 0..Len(coins), NEW to \in Nat, NEW change \in Nat
    PROVE  estimateTxSize(Largest(k), to, change) <= estimateTxSize(coins, to, change)
  <1> DEFINE n == Len(coins)
             D == DOMAIN coins
             few == isSegwitTx(Largest(k))
             all == isSegwitTx(coins)
             f == Weights(Largest(k), few)
             g == Weights(coins, all)
             h == [i \in 1..k |-> n + 1 - i]
  <1>1. n \in Nat /\ D = 1..n /\ IsFiniteSet(D) /\ k \in Nat /\ k <= n /\ IsFiniteSet(1..k)
    BY ScriptOfCoin, FS_Interval
  <1>2. /\ Largest(k) \in Seq(Coin) /\ DOMAIN Largest(k) = 1..k /\ Len(Largest(k)) = k
        /\ \A i \in 1..k : n + 1 - i \in D /\ Largest(k)[i] = coins[n + 1 - i]
    BY LargestFacts
  <1>3. few \in BOOLEAN /\ all \in BOOLEAN /\ (few => all)
    BY <1>2 DEF isSegwitTx
  <1>4. \A i \in D : coins[i].script \in Scripts
    BY ScriptOfCoin
  <1> HIDE DEF n, few, all, D
  <1>5. ASSUME NEW i \in 1..k PROVE h[i] \in D /\ f[i] \in Int /\ f[i] <= g[h[i]]
    <2> DEFINE s == coins[n + 1 - i].script
    <2>1. h[i] = n + 1 - i /\ n + 1 - i \in D /\ s \in Scripts
      BY <1>2, <1>4
    <2>2. f[i] = inputWeight(s, few) /\ g[h[i]] = inputWeight(s, all)
      BY <1>2, <2>1 DEF Weights, D
    <2> HIDE DEF s, f, g, h
    <2>3. inputWeight(s, few) \in Int /\ inputWeight(s, few) <= inputWeight(s, all)
      BY <1>3, <2>1, WeightFacts
    <2> QED BY <2>1, <2>2, <2>3
  <1>6. \A i, j \in 1..k : h[i] = h[j] => i = j
    BY <1>1
  <1>7. \A i \in D : g[i] \in Nat
    BY <1>3, <1>4, WeightFacts DEF Weights, D
  <1>8. WeightOf(Largest(k)) = SumFunctionOnSet(f, 1..k) /\ WeightOf(coins) = SumFunctionOnSet(g, D)
    BY <1>2 DEF WeightOf, few, all, D
  <1> HIDE DEF f, g, h
  <1>9. WeightOf(Largest(k)) <= WeightOf(coins)
    <2>1. \A i \in 1..k : h[i] \in D /\ f[i] \in Int /\ f[i] <= g[h[i]]
      BY <1>5
    <2>2. SumFunctionOnSet(f, 1..k) <= SumFunctionOnSet(g, D)
      BY <1>1, <1>6, <1>7, <2>1, SumInjection
    <2> QED BY <1>8, <2>2
  <1>10. Fixed(Largest(k), to, change) <= Fixed(coins, to, change)
    <2> DEFINE a == VarIntSerializeSize(k)
               b == VarIntSerializeSize(n)
               c == VarIntSerializeSize(IF change = 0 THEN 1 ELSE 2)
               d == outputSize(to)
               e == outputSize(change)
    <2>1. a \in Nat /\ b \in Nat /\ a <= b
      BY <1>1, OutputFacts
    <2>2. c \in Nat /\ d \in Nat /\ e \in Nat
      BY OutputFacts
    <2>3. Fixed(Largest(k), to, change) = 4 * (4 + 4 + a + c + d + e) /\ Fixed(coins, to, change) = 4 * (4 + 4 + b + c + d + e)
      BY <1>2 DEF Fixed, n
    <2> HIDE DEF a, b, c, d, e
    <2> QED BY <2>1, <2>2, <2>3
  <1>11. Marker(Largest(k)) <= Marker(coins)
    BY <1>3 DEF Marker, few, all
  <1> DEFINE x == Fixed(Largest(k), to, change) + WeightOf(Largest(k)) + Marker(Largest(k)) + 3
             y == Fixed(coins, to, change) + WeightOf(coins) + Marker(coins) + 3
  <1>12. x \in Nat /\ y \in Nat /\ x <= y
    <2>1. /\ Fixed(Largest(k), to, change) \in Nat /\ WeightOf(Largest(k)) \in Nat /\ Marker(Largest(k)) \in Nat
          /\ Fixed(coins, to, change) \in Nat /\ WeightOf(coins) \in Nat /\ Marker(coins) \in Nat
      BY <1>2, EstimateIs
    <2>2. \A a, b, c, d, e, i \in Nat :
              a <= d /\ b <= e /\ c <= i =>
                  a + b + c + 3 \in Nat /\ d + e + i + 3 \in Nat /\ a + b + c + 3 <= d + e + i + 3
      OBVIOUS
    <2> QED BY <1>9, <1>10, <1>11, <2>1, <2>2
  <1>13. estimateTxSize(Largest(k), to, change) = x \div 4 /\ estimateTxSize(coins, to, change) = y \div 4
    BY <1>2, EstimateIs
  <1> HIDE DEF x, y
  <1> QED BY <1>12, <1>13

\* What the loop of NewTx keeps: the target is the fee of some selection, and the rate is not below the
\* minimum relay fee.
Requests == [amount : Amounts, to : RecipientSizes, custom : BOOLEAN, rate : FeeRates, minRelay : FeeRates]
MakeTxTypes == args \in Requests /\ coins \in Seq(Coin) /\ feeRatePerKb \in Nat /\ targetFee \in Nat
RateOK == proposal.status \in {"selecting", "made", "insufficient funds"} => feeRatePerKb >= args.minRelay
TargetOK == targetFee = 0 \/ (~Asked /\ \E k \in 0..Len(coins) : targetFee = RequiredFee(Largest(k)))
MakeInv ==
    /\ MakeTxTypes /\ RateOK /\ TargetOK
    /\ proposal.status = "asked" => targetFee = 0
    /\ ProposalSound

\* The types in the form that the proofs use.
LEMMA MakeTxFacts ==
    ASSUME MakeTxTypes
    PROVE  /\ args.amount \in Nat /\ args.to \in Nat /\ args.rate \in Nat /\ args.minRelay \in Nat
           /\ Len(coins) \in Nat /\ Total(coins) \in Nat
           /\ pkScriptSize(ChangeScript) \in Nat
  <1>1. args.amount \in Nat /\ args.to \in Nat /\ args.rate \in Nat /\ args.minRelay \in Nat
    BY MakeTxAssumption DEF MakeTxTypes, Requests
  <1>2. Len(coins) \in Nat /\ Total(coins) \in Nat
    <2>1. coins \in Seq(Coin)
      BY DEF MakeTxTypes
    <2>2. Len(coins) \in Nat
      BY <2>1
    <2>3. Total(coins) \in Nat
      BY <2>1, TotalIs
    <2> QED BY <2>2, <2>3
  <1>3. pkScriptSize(ChangeScript) \in Nat
    BY DEF pkScriptSize
  <1> QED BY <1>1, <1>2, <1>3

LEMMA RequiredFeeFacts ==
    ASSUME MakeTxTypes, NEW inputs \in Seq(Coin)
    PROVE  RequiredFee(inputs) \in Nat
  <1> DEFINE est == estimateTxSize(inputs, args.to, pkScriptSize(ChangeScript))
  <1>1. est \in Nat /\ feeRatePerKb \in Nat
    BY MakeTxFacts, EstimateIs DEF MakeTxTypes
  <1>2. RequiredFee(inputs) = feeForSerializeSize(feeRatePerKb, est)
    BY DEF RequiredFee
  <1> HIDE DEF est
  <1>3. feeForSerializeSize(feeRatePerKb, est) \in Nat
    BY <1>1, FeeFacts
  <1> QED BY <1>2, <1>3

\* What a rate asks for a size.
Asks(rate, size) == (rate * size) \div 1000

\* A fee for a size, at a rate, is enough for a smaller size and a lower rate.
LEMMA PaysForLess ==
    ASSUME NEW rate \in Nat, NEW relay \in Nat, NEW est \in Nat, NEW real \in Nat, relay <= rate, real <= est,
           NEW fee \in Int, fee >= feeForSerializeSize(rate, est)
    PROVE  fee >= Asks(rate, real) /\ fee >= Asks(relay, real)
  <1>1. feeForSerializeSize(rate, est) \in Nat /\ feeForSerializeSize(rate, est) >= (rate * est) \div 1000
    BY FeeFacts
  <1>2. (rate * real) \div 1000 <= (rate * est) \div 1000 /\ (relay * real) \div 1000 <= (rate * est) \div 1000
    BY ProductGrows
  <1>3. \A x, y \in Nat : (x * y) \div 1000 \in Int
    OBVIOUS
  <1>4. (rate * real) \div 1000 \in Int /\ (relay * real) \div 1000 \in Int /\ (rate * est) \div 1000 \in Int
    BY <1>3
  <1>5. \A a, b, c, d \in Int : a >= b /\ b >= c /\ d <= c => a >= d
    OBVIOUS
  <1>6. feeForSerializeSize(rate, est) \in Int
    BY <1>1
  <1>7. fee >= (rate * real) \div 1000 /\ fee >= (relay * real) \div 1000
    BY <1>1, <1>2, <1>4, <1>5, <1>6
  <1> QED BY <1>7 DEF Asks

\* A transaction that pays for its estimate pays for its size.
LEMMA FeeSuffices ==
    ASSUME MakeTxTypes, feeRatePerKb >= args.minRelay, NEW inputs \in Seq(Coin), NEW change \in Nat, NEW given \in {0, change},
           NEW fee \in Int, fee >= feeForSerializeSize(feeRatePerKb, estimateTxSize(inputs, args.to, change))
    PROVE  /\ fee >= Asks(feeRatePerKb, SerializedSize(inputs, args.to, given))
           /\ fee >= Asks(args.minRelay, SerializedSize(inputs, args.to, given))
  <1> DEFINE est == estimateTxSize(inputs, args.to, change)
             real == SerializedSize(inputs, args.to, given)
  <1>1. feeRatePerKb \in Nat /\ args.minRelay \in Nat /\ args.to \in Nat /\ args.minRelay <= feeRatePerKb
    BY MakeTxFacts DEF MakeTxTypes
  <1>2. est \in Nat /\ real \in Nat /\ real <= est
    BY <1>1, EstimateCovers, EstimateIs
  <1>3. fee >= feeForSerializeSize(feeRatePerKb, est)
    OBVIOUS
  <1> HIDE DEF est, real
  <1>4. fee >= Asks(feeRatePerKb, real) /\ fee >= Asks(args.minRelay, real)
    BY <1>1, <1>2, <1>3, PaysForLess
  <1> QED BY <1>4 DEF real

\* The parts of the property for a transaction that was made.
LEMMA MadeSound ==
    ASSUME MakeTxTypes, feeRatePerKb >= args.minRelay, UNCHANGED <<args, coins, feeRatePerKb>>,
           NEW inputs \in Seq(Coin), NEW amount, NEW change, NEW fee \in Int,
           proposal' = Made(inputs, amount, change, fee),
           Total(inputs) = amount + change + fee,
           change > 0 => ~isDustAmount(change, ChangeScript, feeRatePerKb),
           NEW size \in Nat, change > 0 => size = pkScriptSize(ChangeScript),
           fee >= feeForSerializeSize(feeRatePerKb, estimateTxSize(inputs, args.to, size))
    PROVE  ProposalSound'
  <1>1. /\ proposal'.status = "made" /\ proposal'.inputs = inputs /\ proposal'.amount = amount
        /\ proposal'.change = change /\ proposal'.fee = fee
    BY DEF Made
  <1>2. ChangeScript' = ChangeScript
    BY DEF ChangeScript
  <1>3. (ValueConserved)'
    BY <1>1, <1>2 DEF ValueConserved
  <1> DEFINE given == IF change > 0 THEN size ELSE 0
  <1>4. given \in {0, size}
    OBVIOUS
  <1>5. VirtualSize(proposal)' = SerializedSize(inputs, args.to, given)
    BY <1>1, <1>2 DEF VirtualSize
  <1> HIDE DEF given
  <1>6. /\ fee >= Asks(feeRatePerKb, SerializedSize(inputs, args.to, given))
        /\ fee >= Asks(args.minRelay, SerializedSize(inputs, args.to, given))
    BY <1>4, FeeSuffices
  <1>7. FeeCoversSize' /\ FeeIsRelayed'
    BY <1>1, <1>5, <1>6 DEF FeeCoversSize, FeeIsRelayed, Asks
  <1>8. ShortOfFunds'
    BY <1>1 DEF ShortOfFunds
  <1> QED BY <1>3, <1>7, <1>8 DEF ProposalSound

\* coinSelection finds a selection if there is one.
LEMMA SelectionFacts ==
    ASSUME MakeTxTypes, NEW m \in Nat, Selections(m) # {}
    PROVE  \E k \in 0..Len(coins) : coinSelection(m) = Largest(k) /\ Total(Largest(k)) >= m
  <1>1. Selections(m) \subseteq Nat
    BY MakeTxFacts DEF Selections
  <1>2. \E k \in Selections(m) : \A l \in Selections(m) : k <= l
    BY <1>1, LeastNat
  <1>3. PICK k \in Selections(m) : coinSelection(m) = Largest(k)
    BY <1>2, Zenon DEF coinSelection
  <1> QED BY <1>3 DEF Selections

\* An iteration that gives up has a reason to.
LEMMA GivesUp ==
    ASSUME MakeTxTypes, TargetOK, args.amount > 0, Selections(args.amount + targetFee) = {}
    PROVE  \/ Total(coins) < args.amount + RequiredFee(coins)
           \/ feeRatePerKb < 1000 /\ Total(coins) < args.amount + feeRatePerKb
  <1> DEFINE n == Len(coins)
             t == Total(coins)
             a == args.amount
             change == pkScriptSize(ChangeScript)
  <1>1. n \in Nat /\ n \in 0..n /\ t \in Nat /\ a \in Nat /\ args.to \in Nat /\ change \in Nat /\ targetFee \in Nat
        /\ feeRatePerKb \in Nat /\ coins \in Seq(Coin)
    BY MakeTxFacts DEF MakeTxTypes
  <1>2. ~(Total(Largest(n)) >= a + targetFee)
    BY <1>1 DEF Selections
  <1>3. Largest(n) \in Seq(Coin)
    BY <1>1, LargestFacts
  <1>4. t <= Total(Largest(n)) /\ Total(Largest(n)) \in Nat
    BY <1>1, <1>3, TotalLargest, TotalIs
  <1> HIDE DEF n, t, a
  <1>5. t < a + targetFee
    BY <1>1, <1>2, <1>4
  <1>6. RequiredFee(coins) \in Nat
    BY <1>1, RequiredFeeFacts
  <1>7. CASE targetFee = 0
    <2>1. t < a + RequiredFee(coins)
      BY <1>1, <1>5, <1>6, <1>7
    <2> QED BY <2>1 DEF t, a
  <1>8. ASSUME NEW k \in 0..Len(coins), targetFee = RequiredFee(Largest(k))
        PROVE  \/ Total(coins) < args.amount + RequiredFee(coins)
               \/ feeRatePerKb < 1000 /\ Total(coins) < args.amount + feeRatePerKb
    <2> DEFINE x == estimateTxSize(Largest(k), args.to, change)
               y == estimateTxSize(coins, args.to, change)
    <2>1. Largest(k) \in Seq(Coin)
      BY <1>1, LargestFacts
    <2>2. x \in Nat /\ x >= 10 /\ y \in Nat /\ x <= y
      BY <1>1, <2>1, EstimateIs, EstimateGrows
    <2>3. targetFee = feeForSerializeSize(feeRatePerKb, x) /\ RequiredFee(coins) = feeForSerializeSize(feeRatePerKb, y)
      BY <1>8 DEF RequiredFee
    <2> HIDE DEF x, y
    <2>4. \/ feeForSerializeSize(feeRatePerKb, x) <= feeForSerializeSize(feeRatePerKb, y)
          \/ feeRatePerKb < 1000 /\ feeForSerializeSize(feeRatePerKb, x) = feeRatePerKb
      <3>1. x >= 1
        BY <2>2
      <3> QED BY <1>1, <2>2, <3>1, FeeGrows
    <2>5. targetFee <= RequiredFee(coins) \/ (feeRatePerKb < 1000 /\ targetFee = feeRatePerKb)
      BY <2>3, <2>4
    <2>6. t < a + RequiredFee(coins) \/ (feeRatePerKb < 1000 /\ t < a + feeRatePerKb)
      <3>1. CASE targetFee <= RequiredFee(coins)
        BY <1>1, <1>5, <1>6, <3>1
      <3>2. CASE feeRatePerKb < 1000 /\ targetFee = feeRatePerKb
        BY <1>5, <3>2
      <3> QED BY <2>5, <3>1, <3>2
    <2> QED BY <2>6 DEF t, a
  <1> QED BY <1>7, <1>8 DEF TargetOK

LEMMA DetermineFeeKeeps ==
    ASSUME MakeInv, DetermineFee
    PROVE  MakeInv'
  <1>1. /\ Asked /\ feeRatePerKb' = getFeePerKb /\ UNCHANGED <<args, coins, targetFee>>
        /\ proposal'.status = (IF getFeePerKb = 0 THEN "no fee" ELSE "selecting") /\ targetFee = 0
    BY DEF DetermineFee, MakeInv, Asked
  <1>2. getFeePerKb \in Nat /\ (getFeePerKb # 0 => getFeePerKb >= args.minRelay)
    <2>1. args.rate \in Nat /\ args.minRelay \in Nat
      BY MakeTxFacts DEF MakeInv
    <2> QED BY <2>1 DEF getFeePerKb, FeeTarget, Raised
  <1>3. MakeTxTypes'
    BY <1>1, <1>2 DEF MakeTxTypes, MakeInv
  <1>4. RateOK'
    BY <1>1, <1>2 DEF RateOK
  <1>5. ProposalSound'
    BY <1>1 DEF ProposalSound, ValueConserved, FeeCoversSize, FeeIsRelayed, ShortOfFunds, IsMade
  <1> QED BY <1>1, <1>3, <1>4, <1>5 DEF MakeInv, TargetOK

LEMMA SpendAllKeeps ==
    ASSUME MakeInv, NewTxSpendAll
    PROVE  MakeInv'
  <1> DEFINE fee == feeForSerializeSize(feeRatePerKb, estimateTxSize(coins, args.to, 0))
  <1>1. /\ proposal.status = "selecting" /\ args.amount = 0 /\ UNCHANGED <<args, coins, feeRatePerKb, targetFee>>
        /\ proposal' = IF Total(coins) < fee THEN [status |-> "insufficient funds"]
                       ELSE Made(coins, Total(coins) - fee, 0, fee)
    BY DEF NewTxSpendAll
  <1>2. MakeTxTypes /\ coins \in Seq(Coin) /\ feeRatePerKb >= args.minRelay /\ args.to \in Nat /\ Total(coins) \in Nat
    BY <1>1, MakeTxFacts DEF MakeInv, RateOK, MakeTxTypes
  <1>3. fee \in Nat
    <2> DEFINE est == estimateTxSize(coins, args.to, 0)
    <2>1. est \in Nat /\ feeRatePerKb \in Nat
      BY <1>2, EstimateIs DEF MakeTxTypes
    <2> HIDE DEF est
    <2>2. feeForSerializeSize(feeRatePerKb, est) \in Nat
      BY <2>1, FeeFacts
    <2> QED BY <2>2 DEF est
  <1>4. ProposalSound' /\ proposal'.status \in {"made", "insufficient funds"}
    <2>1. CASE Total(coins) < fee
      <3>1. proposal'.status = "insufficient funds"
        BY <1>1, <2>1
      <3>2. ShortOfFunds'
        <4>1. (args.amount = 0)' /\ Total(coins)' = Total(coins) /\ fee' = fee
          BY <1>1
        <4>2. Total(coins) < args.amount + fee
          <5> HIDE DEF fee
          <5>1. 0 + fee = fee
            BY <1>3
          <5> QED BY <1>1, <2>1, <5>1
        <4> QED BY <1>1, <4>1, <4>2 DEF ShortOfFunds
      <3> QED BY <3>1, <3>2 DEF ProposalSound, ValueConserved, FeeCoversSize, FeeIsRelayed, IsMade
    <2>2. CASE ~(Total(coins) < fee)
      <3> DEFINE rest == Total(coins) - fee
      <3>1. proposal' = Made(coins, rest, 0, fee)
        BY <1>1, <2>2
      <3>2. Total(coins) = rest + 0 + fee /\ fee \in Int /\ fee >= fee
        BY <1>2, <1>3
      <3> HIDE DEF rest
      <3>3. ~(0 > 0) /\ 0 \in Nat
        OBVIOUS
      <3>4. ProposalSound'
        BY <1>1, <1>2, <3>1, <3>2, <3>3, MadeSound
      <3> QED BY <3>1, <3>4 DEF Made
    <2> QED BY <2>1, <2>2
  <1>5. TargetOK'
    <2>1. \A k \in 0..Len(coins) : RequiredFee(Largest(k))' = RequiredFee(Largest(k))
      <3>1. UNCHANGED <<args, coins, feeRatePerKb>>
        BY <1>1
      <3> QED BY <3>1 DEF RequiredFee, Largest, ChangeScript
    <2> QED BY <1>1, <1>4, <2>1 DEF MakeInv, TargetOK, Asked
  <1> QED BY <1>1, <1>2, <1>4, <1>5 DEF MakeInv, MakeTxTypes, RateOK

LEMMA SelectCoinsKeeps ==
    ASSUME MakeInv, SelectCoins
    PROVE  MakeInv'
  <1> DEFINE m == args.amount + targetFee
  <1>1. proposal.status = "selecting" /\ args.amount > 0 /\ UNCHANGED <<args, coins, feeRatePerKb>>
    BY DEF SelectCoins
  <1>2. /\ MakeTxTypes /\ coins \in Seq(Coin) /\ feeRatePerKb >= args.minRelay /\ args.to \in Nat
        /\ args.amount \in Nat /\ m \in Nat /\ pkScriptSize(ChangeScript) \in Nat /\ TargetOK
    BY <1>1, MakeTxFacts DEF MakeInv, RateOK, MakeTxTypes
  <1>3. \A k \in 0..Len(coins) : RequiredFee(Largest(k))' = RequiredFee(Largest(k))
    BY <1>1 DEF RequiredFee, Largest, ChangeScript
  <1>4. CASE Selections(m) = {}
    <2>1. proposal' = [status |-> "insufficient funds"] /\ UNCHANGED targetFee
      BY <1>4 DEF SelectCoins
    <2>2. proposal'.status = "insufficient funds"
      BY <2>1
    <2>3. \/ Total(coins) < args.amount + RequiredFee(coins)
          \/ feeRatePerKb < 1000 /\ Total(coins) < args.amount + feeRatePerKb
      BY <1>1, <1>2, <1>4, GivesUp
    <2>4. Total(coins)' = Total(coins) /\ RequiredFee(coins)' = RequiredFee(coins) /\ args.amount # 0
      BY <1>1, <1>2 DEF RequiredFee, ChangeScript
    <2>5. ShortOfFunds'
      BY <1>1, <2>3, <2>4 DEF ShortOfFunds
    <2>6. ProposalSound'
      BY <2>2, <2>5 DEF ProposalSound, ValueConserved, FeeCoversSize, FeeIsRelayed, IsMade
    <2>7. TargetOK'
      BY <1>1, <1>2, <1>3, <2>1, <2>2 DEF TargetOK, Asked
    <2> QED BY <1>1, <1>2, <2>1, <2>2, <2>6, <2>7 DEF MakeInv, MakeTxTypes, RateOK
  <1>5. CASE Selections(m) # {}
    <2>1. PICK k \in 0..Len(coins) : coinSelection(m) = Largest(k)
      BY <1>2, <1>5, SelectionFacts
    <2> DEFINE inputs == Largest(k)
               fee == RequiredFee(inputs)
    <2>2. inputs \in Seq(Coin) /\ Total(inputs) \in Nat /\ fee \in Nat
      BY <1>2, LargestFacts, TotalIs, RequiredFeeFacts
    <2>3. IF Total(inputs) - args.amount < fee
          THEN targetFee' = fee /\ UNCHANGED proposal
          ELSE proposal' = Finished(inputs) /\ UNCHANGED targetFee
      BY <1>5, <2>1 DEF SelectCoins, NextTarget
    <2>4. CASE Total(inputs) - args.amount < fee
      <3>1. targetFee' = RequiredFee(Largest(k)) /\ UNCHANGED proposal
        BY <2>3, <2>4
      <3>2. TargetOK'
        BY <1>1, <1>3, <3>1 DEF TargetOK, Asked
      <3>3. ProposalSound'
        BY <1>1, <3>1 DEF ProposalSound, ValueConserved, FeeCoversSize, FeeIsRelayed, ShortOfFunds, IsMade
      <3> QED BY <1>1, <1>2, <2>2, <3>1, <3>2, <3>3 DEF MakeInv, MakeTxTypes, RateOK
    <2>5. CASE ~(Total(inputs) - args.amount < fee)
      <3> DEFINE change == Total(inputs) - args.amount - fee
                 dust == isDustAmount(change, ChangeScript, feeRatePerKb)
                 given == IF dust THEN 0 ELSE change
                 paid == IF dust THEN Total(inputs) - args.amount ELSE fee
      <3>1. proposal' = Made(inputs, args.amount, given, paid) /\ UNCHANGED targetFee
        BY <2>3, <2>5 DEF Finished, FinalFee
      <3>2. paid \in Int /\ paid >= fee /\ Total(inputs) = args.amount + given + paid /\ (given > 0 => ~dust /\ given = change)
        <4> HIDE DEF inputs, fee
        <4>1. CASE dust
          BY <1>2, <2>2, <2>5, <4>1
        <4>2. CASE ~dust
          <5>1. given = change /\ paid = fee
            BY <4>2
          <5> HIDE DEF given, paid, dust
          <5> QED BY <1>2, <2>2, <2>5, <4>2, <5>1
        <4> QED BY <4>1, <4>2
      <3>3. given > 0 => ~isDustAmount(given, ChangeScript, feeRatePerKb)
        BY <3>2
      <3>4. paid >= feeForSerializeSize(feeRatePerKb, estimateTxSize(inputs, args.to, pkScriptSize(ChangeScript)))
        BY <3>2 DEF RequiredFee
      <3> HIDE DEF given, paid, inputs
      <3>5. ProposalSound'
        BY <1>1, <1>2, <2>2, <3>1, <3>2, <3>3, <3>4, MadeSound
      <3>6. proposal'.status = "made"
        BY <3>1 DEF Made
      <3>7. TargetOK'
        BY <1>1, <1>2, <1>3, <3>1, <3>6 DEF TargetOK, Asked
      <3> QED BY <1>1, <1>2, <3>1, <3>5, <3>6, <3>7 DEF MakeInv, MakeTxTypes, RateOK
    <2> QED BY <2>4, <2>5
  <1> QED BY <1>4, <1>5

\* Whatever the coins, the amount and the rates, newTx keeps its invariant.
THEOREM MakeTxInvariance == MakeTxSpec => []MakeInv
  <1>1. MakeTxInit => MakeInv
    <2> SUFFICES ASSUME MakeTxInit PROVE MakeInv
      OBVIOUS
    <2>1. coins \in Seq(Coin)
      BY DEF MakeTxInit
    <2>2. proposal.status = "asked" /\ targetFee = 0 /\ feeRatePerKb = 0 /\ args \in Requests
      BY DEF MakeTxInit, Requests
    <2> QED BY <2>1, <2>2 DEF MakeInv, MakeTxTypes, RateOK, TargetOK, ProposalSound, ValueConserved, FeeCoversSize,
              FeeIsRelayed, ShortOfFunds, IsMade
  <1>2. MakeInv /\ [MakeTxNext]_makeTxVars => MakeInv'
    <2> SUFFICES ASSUME MakeInv, [MakeTxNext]_makeTxVars PROVE MakeInv'
      OBVIOUS
    <2>1. CASE UNCHANGED makeTxVars
      <3>1. UNCHANGED <<args, coins, feeRatePerKb, targetFee, proposal>>
        BY <2>1 DEF makeTxVars
      <3>2. ChangeScript' = ChangeScript
        BY <3>1 DEF ChangeScript
      <3>3. \A k \in 0..Len(coins) : RequiredFee(Largest(k))' = RequiredFee(Largest(k))
        BY <3>1, <3>2 DEF RequiredFee, Largest
      <3>4. TargetOK'
        BY <3>1, <3>3 DEF MakeInv, TargetOK, Asked
      <3>5. VirtualSize(proposal)' = VirtualSize(proposal) /\ RequiredFee(coins)' = RequiredFee(coins)
        BY <3>1, <3>2 DEF VirtualSize, RequiredFee
      <3>6. ProposalSound'
        <4>1. ValueConserved'
          BY <3>1, <3>2 DEF MakeInv, ProposalSound, ValueConserved, IsMade
        <4>2. FeeCoversSize' /\ FeeIsRelayed'
          BY <3>1, <3>5 DEF MakeInv, ProposalSound, FeeCoversSize, FeeIsRelayed, IsMade
        <4>3. ShortOfFunds'
          BY <3>1, <3>5 DEF MakeInv, ProposalSound, ShortOfFunds
        <4> QED BY <4>1, <4>2, <4>3 DEF ProposalSound
      <3> QED BY <3>1, <3>4, <3>6 DEF MakeInv, MakeTxTypes, RateOK
    <2> QED BY <2>1, DetermineFeeKeeps, SpendAllKeeps, SelectCoinsKeeps DEF MakeTxNext
  <1> QED BY <1>1, <1>2, PTL DEF MakeTxSpec

\* A proposal adds up, pays for its real size, and is refused only for want of money.
THEOREM ProposalSoundHolds == MakeTxSpec => []ProposalSound
  <1>1. MakeInv => ProposalSound
    BY DEF MakeInv
  <1> QED BY <1>1, MakeTxInvariance, PTL

-----------------------------------------------------------------------------
(* Ordered transactions and charts                                         *)

\* What the assumption says of a set of transactions.
TxsOK(set) ==
    /\ IsFiniteSet(set)
    /\ \A tx \in set : /\ tx.height \in Int /\ tx.failed \in BOOLEAN
                       /\ tx.amount \in Int /\ tx.fee \in Int

\* The ordered transactions are all of them, each one once.
LEMMA OrderFacts ==
    ASSUME NEW set, IsFiniteSet(set), NEW s \in Orders(set)
    PROVE  /\ Len(s) \in Nat /\ DOMAIN s = 1..Len(s) /\ s \in [1..Len(s) -> set]
           /\ \A i, j \in 1..Len(s) : s[i] = s[j] => i = j
           /\ \A tx \in set : \E i \in 1..Len(s) : s[i] = tx
<1> DEFINE n == Cardinality(set)
<1>1. n \in Nat /\ IsFiniteSet(1..n) /\ Cardinality(1..n) = n
  <2>1. n \in Nat
    BY FS_CardinalityType
  <2>2. 0 \in Int /\ 1 \in Int /\ n \in Int
    BY <2>1
  <2> HIDE DEF n
  <2> QED
    BY <2>1, <2>2, FS_Interval
<1>2. s \in [1..n -> set] /\ \A i, j \in 1..n : i # j => s[i] # s[j]
  BY DEF Orders, SetToSeqs
<1> HIDE DEF n
<1>3. Len(s) = n /\ DOMAIN s = 1..n
  BY <1>1, <1>2
<1>4. s \in Injection(1..n, set)
  BY <1>2 DEF Injection, IsInjective
<1>5. s \in Surjection(1..n, set)
  BY <1>1, <1>4, FS_Injection DEF n
<1>6. \A tx \in set : \E i \in 1..n : s[i] = tx
  BY <1>5 DEF Surjection
<1> QED
  BY <1>1, <1>2, <1>3, <1>6

\* What follows a confirmed transaction is confirmed, in its block or below it.
LEMMA NewestFirst ==
    ASSUME NEW set, TxsOK(set), NEW s \in Orders(set), NEW i \in 1..Len(s), NEW j \in 1..Len(s), i < j,
           isConfirmed(s[i])
    PROVE  isConfirmed(s[j]) /\ s[j].height <= s[i].height
<1>1. DOMAIN s = 1..Len(s) /\ s[i] \in set /\ s[j] \in set
  BY OrderFacts DEF TxsOK
<1>2. s[i].height \in Int /\ s[j].height \in Int
  BY <1>1 DEF TxsOK
<1>3. CASE s[j] \in Block(set, s[i])
  BY <1>2, <1>3 DEF Block, isConfirmed
<1>4. CASE s[j] \notin Block(set, s[i])
  <2>1. ~(Less(s[i], s[j]) /\ ~Less(s[j], s[i]))
    BY <1>1, <1>4 DEF Orders
  <2>2. s[i].height # s[j].height
    BY <1>1, <1>4 DEF Block
  <2> QED
    BY <1>2, <2>1, <2>2 DEF Less, isConfirmed
<1> QED
  BY <1>3, <1>4

\* What a transaction does to the balance is a number.
LEMMA EffectType ==
    ASSUME NEW set, TxsOK(set), NEW tx \in set
    PROVE  Effect(tx) \in Int
  BY DEF TxsOK, Effect

\* The transactions of a list from an entry on.
From(s, i) == {s[k] : k \in i..Len(s)}

\* The running balance sums up the transactions from the last one up.
LEMMA BalanceOfTail ==
    ASSUME NEW set, TxsOK(set), NEW s \in Orders(set), NEW f, \A tx \in set : f[tx] = Effect(tx)
    PROVE  /\ DOMAIN Balances(s) = 1..Len(s) /\ Len(Balances(s)) = Len(s)
           /\ \A i \in 1..Len(s) : /\ Balances(s)[i].tx = s[i]
                                   /\ Balances(s)[i].balance = SumFunctionOnSet(f, From(s, i))
<1> DEFINE n == Len(s)
           Body(b) == [i \in 1..n + 1 |-> IF i = n + 1 THEN 0 ELSE b[i + 1] + Effect(s[i])]
           bal == CHOOSE b : b = Body(b)
           Rest(i) == {s[k] : k \in i..n}
           g == [i \in 1..n + 1 |-> SumFunctionOnSet(f, Rest(i))]
<1>1. /\ n \in Nat /\ s \in [1..n -> set] /\ \A i, j \in 1..n : s[i] = s[j] => i = j
  BY OrderFacts DEF TxsOK
<1>2. Balances(s) = [i \in 1..n |-> [tx |-> s[i], balance |-> bal[i]]]
  BY DEF Balances
<1> HIDE DEF n
<1>3. \A i \in 1..n + 1 : Rest(i) \in SUBSET set /\ IsFiniteSet(Rest(i))
  <2> SUFFICES ASSUME NEW i \in 1..n + 1 PROVE Rest(i) \in SUBSET set /\ IsFiniteSet(Rest(i))
    OBVIOUS
  <2>1. Rest(i) \in SUBSET set
    BY <1>1
  <2> QED
    BY <2>1, FS_Subset DEF TxsOK
<1>4. \A tx \in set : f[tx] \in Int
  BY EffectType
<1>5. g[n + 1] = 0
  <2>1. Rest(n + 1) = {}
    BY <1>1
  <2> QED
    BY <1>1, <2>1, SumEmpty
<1>6. ASSUME NEW i \in 1..n PROVE g[i] = g[i + 1] + Effect(s[i])
  <2>1. i \in 1..n + 1 /\ i + 1 \in 1..n + 1 /\ s[i] \in set
    BY <1>1
  <2>2. Rest(i) = Rest(i + 1) \cup {s[i]}
    <3>1. i..n = (i + 1..n) \cup {i}
      BY <1>1
    <3> QED
      BY <3>1
  <2>3. s[i] \notin Rest(i + 1)
    BY <1>1
  <2> DEFINE U == Rest(i + 1)
             x == s[i]
  <2>4. IsFiniteSet(U) /\ x \notin U /\ \A y \in U \cup {x} : f[y] \in Int
    BY <1>3, <1>4, <2>1, <2>3
  <2>5. Rest(i) = U \cup {x} /\ g[i] = SumFunctionOnSet(f, Rest(i)) /\ g[i + 1] = SumFunctionOnSet(f, U) /\ f[x] = Effect(s[i])
    BY <2>1, <2>2
  <2> HIDE DEF U, x, Tail, g
  <2>6. SumFunctionOnSet(f, U \cup {x}) = SumFunctionOnSet(f, U) + f[x]
    BY <2>4, SumAdd
  <2> QED
    BY <2>5, <2>6
<1>7. g = Body(g)
  <2>1. ASSUME NEW i \in 1..n + 1 PROVE g[i] = Body(g)[i]
    <3>1. i \in 1..n \/ i = n + 1
      BY <1>1
    <3>2. Body(g)[i] = IF i = n + 1 THEN 0 ELSE g[i + 1] + Effect(s[i])
      BY DEF Body
    <3> HIDE DEF g, Body
    <3> QED
      BY <1>1, <1>5, <1>6, <3>1, <3>2
  <2>2. DOMAIN g = 1..n + 1 /\ DOMAIN Body(g) = 1..n + 1 /\ g = [i \in 1..n + 1 |-> g[i]]
    OBVIOUS
  <2>3. Body(g) = [i \in 1..n + 1 |-> Body(g)[i]]
    OBVIOUS
  <2> HIDE DEF g, Body
  <2> QED
    BY <2>1, <2>2, <2>3
<1> HIDE DEF g, Rest
<1>8. bal = Body(bal)
  BY <1>7
<1> HIDE DEF bal
<1>9. bal[n + 1] = 0 /\ \A i \in 1..n : bal[i] = bal[i + 1] + Effect(s[i])
  <2>1. \A i \in 1..n + 1 : bal[i] = IF i = n + 1 THEN 0 ELSE bal[i + 1] + Effect(s[i])
    BY <1>8
  <2> QED
    BY <1>1, <2>1
<1> HIDE DEF Body
<1> DEFINE S == {m \in Nat : m <= n => bal[n + 1 - m] = g[n + 1 - m]}
<1>10. 0 \in S
  BY <1>1, <1>5, <1>9
<1>11. ASSUME NEW m \in Nat, m \in S PROVE m + 1 \in S
  <2> SUFFICES ASSUME m + 1 <= n PROVE bal[n + 1 - (m + 1)] = g[n + 1 - (m + 1)]
    OBVIOUS
  <2> DEFINE i == n - m
  <2>1. i \in 1..n /\ i + 1 = n + 1 - m /\ n + 1 - (m + 1) = i /\ m <= n
    BY <1>1
  <2>2. bal[i + 1] = g[i + 1]
    BY <1>11, <2>1
  <2> HIDE DEF i
  <2> QED
    BY <1>6, <1>9, <2>1, <2>2
<1>12. Nat \subseteq S
  <2> HIDE DEF S
  <2> QED
    BY <1>10, <1>11, NatInduct
<1>13. ASSUME NEW i \in 1..n PROVE bal[i] = g[i]
  <2>1. n + 1 - i \in Nat /\ n + 1 - i <= n /\ n + 1 - (n + 1 - i) = i
    BY <1>1
  <2>2. n + 1 - i \in S
    BY <1>12, <2>1
  <2> QED
    BY <2>1, <2>2
<1>14. \A i \in 1..n : g[i] = SumFunctionOnSet(f, From(s, i))
  BY <1>1 DEF g, Rest, From, n
<1>15. /\ DOMAIN Balances(s) = 1..n /\ Len(Balances(s)) = n
       /\ \A i \in 1..n : Balances(s)[i].tx = s[i] /\ Balances(s)[i].balance = bal[i]
  BY <1>1, <1>2
<1> QED
  BY <1>13, <1>14, <1>15 DEF n

\* What the invariant says of the data of an account.
LEMMA AccountFacts ==
    ASSUME TimelineInv, NEW a \in Accs
    PROVE  /\ TxsOK(txs[a])
           /\ \A tx \in txs[a] : /\ Effects[tx] = Effect(tx)
                                 /\ isConfirmed(tx) => Timestamp(tx) \in Nat
           /\ \A tx, u \in txs[a] : /\ isConfirmed(tx) /\ isConfirmed(u) /\ tx.height <= u.height
                                    /\ Timestamp(tx) # 0 /\ Timestamp(u) # 0
                                    => Timestamp(tx) <= Timestamp(u)
           /\ known[a][1] \in Nat /\ known[a][2] \in Nat
<1>1. txs[a] \in ChartAccounts[a] /\ known[a] \in Known[a] /\ times \in HeightTimes
  BY DEF TimelineInv
<1>2. /\ IsFiniteSet(txs[a])
      /\ \A tx \in txs[a] : /\ tx.height \in Int /\ tx.failed \in BOOLEAN
                            /\ tx.amount \in Int /\ tx.fee \in Int /\ tx.height <= Len(times)
  BY <1>1, TimelineAssumption DEF Accs
<1>3. /\ times \in Seq(Nat)
      /\ \A i, k \in 1..Len(times) : i <= k /\ times[i] # 0 /\ times[k] # 0 => times[i] <= times[k]
  BY <1>1, TimelineAssumption
<1>4. known[a] \in Nat \X Nat
  BY <1>1, TimelineAssumption DEF Accs
<1>5. TxsOK(txs[a])
  BY <1>2 DEF TxsOK
<1>6. \A tx \in txs[a] : Effects[tx] = Effect(tx)
  BY DEF Effects
<1>7. \A tx \in txs[a] : isConfirmed(tx) => /\ tx.height \in 1..Len(times) /\ times[tx.height] \in Nat
                                            /\ Timestamp(tx) = times[tx.height]
  BY <1>2, <1>3 DEF isConfirmed, Timestamp
<1>8. ASSUME NEW tx \in txs[a], NEW u \in txs[a], isConfirmed(tx), isConfirmed(u), tx.height <= u.height,
             Timestamp(tx) # 0, Timestamp(u) # 0
      PROVE  Timestamp(tx) <= Timestamp(u)
  BY <1>3, <1>7, <1>8
<1> QED
  BY <1>4, <1>5, <1>6, <1>7, <1>8

\* What an account was worth is a number.
LEMMA WorthType ==
    ASSUME TimelineInv, NEW a \in Accs, NEW t
    PROVE  /\ Worth(t)[a] \in Int /\ Worth(t)[a] = Sum(ConfirmedBy(a, t))
           /\ ConfirmedBy(a, t) = {} => Worth(t)[a] = 0
<1>1. TxsOK(txs[a]) /\ \A tx \in txs[a] : Effects[tx] = Effect(tx)
  BY AccountFacts
<1>2. \A tx \in txs[a] : Effects[tx] \in Int
  BY <1>1, EffectType
<1> DEFINE C == ConfirmedBy(a, t)
<1>3. C \in SUBSET txs[a] /\ IsFiniteSet(txs[a])
  BY <1>1 DEF ConfirmedBy, TxsOK
<1>4. IsFiniteSet(C) /\ \A x \in C : Effects[x] \in Int
  BY <1>2, <1>3, FS_Subset
<1>5. Worth(t)[a] = SumFunctionOnSet(Effects, C)
  BY DEF Worth, Sum
<1> HIDE DEF C
<1>6. SumFunctionOnSet(Effects, C) \in Int
  BY <1>4, SumType
<1>7. C = {} => SumFunctionOnSet(Effects, C) = 0
  BY SumEmpty
<1> QED
  BY <1>5, <1>6, <1>7 DEF C, Sum

\* The earliest of the latest times.
LEMMA UntilFacts ==
    ASSUME TimelineInv, NEW a \in Accs
    PROVE  until \in Nat /\ until <= known[a][2]
<1> DEFINE T == {known[b][2] : b \in Accs}
<1>1. T \subseteq Nat /\ known[a][2] \in T
  BY AccountFacts
<1>2. until = Min(T)
  BY DEF until, HistoryLatestTimestampAll
<1> HIDE DEF T
<1>3. \E x \in T : \A y \in T : x <= y
  BY <1>1, LeastNat
<1>4. Min(T) \in T /\ \A y \in T : Min(T) <= y
  BY <1>3, Zenon DEF Min
<1> QED
  BY <1>1, <1>2, <1>4

\* Every entry is a transaction of the account, with a time if it is confirmed.
LEMMA EntryFacts ==
    ASSUME TimelineInv, NEW a \in Accs, NEW s \in Orders(txs[a]), ~NotAvailable(Balances(s))
    PROVE  /\ Len(s) \in Nat /\ DOMAIN Balances(s) = 1..Len(s) /\ Len(Balances(s)) = Len(s)
           /\ \A i \in 1..Len(s) : /\ s[i] \in txs[a] /\ Balances(s)[i].tx = s[i]
                                   /\ Balances(s)[i].balance = Sum(From(s, i))
                                   /\ isConfirmed(s[i]) => Timestamp(s[i]) \in Nat \ {0}
           /\ \A i, j \in 1..Len(s) : i <= j /\ isConfirmed(s[i]) =>
                isConfirmed(s[j]) /\ Timestamp(s[j]) <= Timestamp(s[i])
           /\ \A tx \in txs[a] : \E i \in 1..Len(s) : s[i] = tx
<1>1. TxsOK(txs[a]) /\ IsFiniteSet(txs[a]) /\ \A tx \in txs[a] : Effects[tx] = Effect(tx)
  BY AccountFacts DEF TxsOK
<1>2. /\ Len(s) \in Nat /\ \A i \in 1..Len(s) : s[i] \in txs[a]
      /\ \A tx \in txs[a] : \E i \in 1..Len(s) : s[i] = tx
  BY <1>1, OrderFacts
<1>3. /\ DOMAIN Balances(s) = 1..Len(s) /\ Len(Balances(s)) = Len(s)
      /\ \A i \in 1..Len(s) : /\ Balances(s)[i].tx = s[i]
                              /\ Balances(s)[i].balance = SumFunctionOnSet(Effects, From(s, i))
  BY <1>1, BalanceOfTail
<1>4. \A i \in 1..Len(s) : isConfirmed(s[i]) => Timestamp(s[i]) \in Nat \ {0}
  BY <1>2, <1>3, AccountFacts DEF NotAvailable
<1>5. ASSUME NEW i \in 1..Len(s), NEW j \in 1..Len(s), i <= j, isConfirmed(s[i])
      PROVE  isConfirmed(s[j]) /\ Timestamp(s[j]) <= Timestamp(s[i])
  <2>1. isConfirmed(s[j]) /\ s[j].height <= s[i].height
    <3>1. CASE i = j
      BY <1>1, <1>2, <1>5, <3>1 DEF TxsOK
    <3>2. CASE i < j
      BY <1>1, <1>5, <3>2, NewestFirst
    <3> QED
      BY <1>2, <1>5, <3>1, <3>2
  <2> QED
    BY <1>2, <1>4, <1>5, <2>1, AccountFacts
<1> QED
  BY <1>2, <1>3, <1>4, <1>5 DEF Sum

\* Timeseries finds the balance of the account at a point in time.
LEMMA ValueIsWorth ==
    ASSUME TimelineInv, NEW a \in Accs, NEW s \in Orders(txs[a]), ~NotAvailable(Balances(s)), NEW t \in Int
    PROVE  ValueAt(Balances(s), t) = Worth(t)[a]
<1> DEFINE n == Len(s)
           entries == Balances(s)
           found == {i \in DOMAIN entries : AtOrBefore(entries[i], t)}
<1>1. found = {i \in 1..n : isConfirmed(s[i]) /\ Timestamp(s[i]) <= t} /\ n \in Nat
  <2>1. n \in Nat /\ DOMAIN entries = 1..n /\ \A i \in 1..n : entries[i].tx = s[i]
    BY EntryFacts
  <2> HIDE DEF entries, n
  <2> QED
    BY <2>1 DEF AtOrBefore
<1>2. \A tx : tx \in ConfirmedBy(a, t) <=> \E i \in found : s[i] = tx
  <2>1. (\A i \in 1..n : s[i] \in txs[a]) /\ \A tx \in txs[a] : \E i \in 1..n : s[i] = tx
    BY EntryFacts
  <2> QED
    BY <1>1, <2>1 DEF ConfirmedBy
<1>3. ValueAt(entries, t) = IF found = {} THEN 0 ELSE entries[Min(found)].balance
  BY DEF ValueAt
<1>4. CASE found = {}
  BY <1>2, <1>3, <1>4, WorthType
<1>5. CASE found # {}
  <2> DEFINE m == Min(found)
  <2>1. found \subseteq Nat
    BY <1>1
  <2>2. \E x \in found : \A y \in found : x <= y
    <3> HIDE DEF found
    <3> QED
      BY <1>5, <2>1, LeastNat
  <2>3. m \in found /\ \A y \in found : m <= y
    BY <2>2, Zenon DEF Min
  <2> HIDE DEF m, found
  <2>4. m \in 1..n /\ isConfirmed(s[m]) /\ Timestamp(s[m]) <= t
    BY <1>1, <2>3
  <2>5. ASSUME NEW k \in m..n PROVE k \in found
    <3>1. k \in 1..n /\ m <= k
      BY <1>1, <2>4
    <3>2. isConfirmed(s[k]) /\ Timestamp(s[k]) <= Timestamp(s[m]) /\ Timestamp(s[k]) \in Nat /\ Timestamp(s[m]) \in Nat
      BY <2>4, <3>1, EntryFacts
    <3> QED
      BY <1>1, <2>4, <3>1, <3>2
  <2>6. \A k \in found : k \in m..n
    BY <1>1, <2>3
  <2>7. ConfirmedBy(a, t) = From(s, m)
    BY <1>2, <2>5, <2>6 DEF From
  <2>8. entries[m].balance = Sum(From(s, m))
    BY <2>4, EntryFacts
  <2>9. Worth(t)[a] = Sum(ConfirmedBy(a, t))
    BY WorthType
  <2> QED
    BY <1>3, <1>5, <2>7, <2>8, <2>9 DEF m
<1> QED
  BY <1>4, <1>5

\* An account was not worth anything before its earliest transaction.
LEMMA WorthFromEarliest ==
    ASSUME TimelineInv, NEW a \in Accs, NEW s \in Orders(txs[a]), ~NotAvailable(Balances(s))
    PROVE  /\ EarliestTime(Balances(s)) \in Nat
           /\ EarliestTime(Balances(s)) # 0 => txs[a] # {}
           /\ \A t \in Int : Worth(t)[a] # 0 => EarliestTime(Balances(s)) # 0 /\ EarliestTime(Balances(s)) <= t
<1> DEFINE n == Len(s)
           entries == Balances(s)
<1>1. n \in Nat /\ DOMAIN entries = 1..n /\ Len(entries) = n
  BY EntryFacts
<1>2. CASE n = 0
  <2>1. txs[a] = {} /\ \A t : ConfirmedBy(a, t) = {}
    BY <1>2, EntryFacts DEF ConfirmedBy
  <2>2. entries = <<>>
    BY <1>1, <1>2 DEF Balances
  <2> QED
    BY <2>1, <2>2, WorthType DEF EarliestTime
<1>3. CASE n # 0
  <2>1. n \in 1..n
    BY <1>1, <1>3
  <2>2. EarliestTime(entries) = Timestamp(s[n]) /\ s[n] \in txs[a]
    <3>1. entries # <<>>
      BY <1>1, <1>3
    <3>2. Last(entries).tx = s[n] /\ s[n] \in txs[a]
      BY <1>1, <2>1, EntryFacts DEF Last
    <3> QED
      BY <3>1, <3>2 DEF EarliestTime
  <2>3. Timestamp(s[n]) \in Nat
    <3>1. CASE isConfirmed(s[n])
      BY <2>2, <3>1, AccountFacts
    <3>2. CASE ~isConfirmed(s[n])
      BY <3>2 DEF isConfirmed, Timestamp
    <3> QED
      BY <3>1, <3>2
  <2>4. ASSUME NEW t \in Int, Worth(t)[a] # 0 PROVE Timestamp(s[n]) # 0 /\ Timestamp(s[n]) <= t
    <3>1. PICK tx \in ConfirmedBy(a, t) : TRUE
      BY <2>4, WorthType
    <3>2. tx \in txs[a] /\ isConfirmed(tx) /\ Timestamp(tx) <= t
      BY <3>1 DEF ConfirmedBy
    <3>3. PICK i \in 1..n : s[i] = tx
      BY <3>2, EntryFacts
    <3>4. isConfirmed(s[n]) /\ Timestamp(s[n]) <= Timestamp(s[i])
      BY <1>1, <2>1, <3>2, <3>3, EntryFacts
    <3>5. Timestamp(s[n]) \in Nat \ {0} /\ Timestamp(s[i]) \in Nat
      BY <2>1, <3>2, <3>3, <3>4, EntryFacts
    <3> QED
      BY <3>2, <3>3, <3>4, <3>5
  <2> QED
    BY <2>2, <2>3, <2>4
<1> QED
  BY <1>2, <1>3

\* The first entry has all transactions behind it, and one that is the first of its block
\* those up to its height.
LEMMA ListsBalance == TimelineInv => BalanceIsSum
<1> SUFFICES ASSUME TimelineInv, NEW a \in Accs, NEW i \in DOMAIN ordered[a],
                    \/ i = 1
                    \/ isConfirmed(ordered[a][i].tx) /\ ordered[a][i - 1].tx.height # ordered[a][i].tx.height
             PROVE  ordered[a][i].balance =
                        Sum(IF i = 1 THEN txs[a]
                            ELSE {tx \in txs[a] : isConfirmed(tx) /\ tx.height <= ordered[a][i].tx.height})
  BY DEF BalanceIsSum
<1>1. PICK s \in Orders(txs[a]) : ordered[a] = Balances(s)
  <2>1. ordered[a] # <<>>
    OBVIOUS
  <2> QED
    BY <2>1 DEF TimelineInv, ListsRight
<1>2. TxsOK(txs[a]) /\ IsFiniteSet(txs[a]) /\ \A tx \in txs[a] : Effects[tx] = Effect(tx) /\ tx.height \in Int
  BY AccountFacts DEF TxsOK
<1> DEFINE n == Len(s)
<1>3. /\ n \in Nat /\ \A k \in 1..n : s[k] \in txs[a] /\ s[k].height \in Int
      /\ \A tx \in txs[a] : \E k \in 1..n : s[k] = tx
  BY <1>2, OrderFacts
<1>4. /\ DOMAIN ordered[a] = 1..n
      /\ \A k \in 1..n : ordered[a][k].tx = s[k] /\ ordered[a][k].balance = Sum(From(s, k))
  BY <1>1, <1>2, BalanceOfTail DEF Sum
<1>5. i \in 1..n
  BY <1>4
<1>6. CASE i = 1
  <2>1. From(s, 1) = txs[a]
    BY <1>3 DEF From
  <2> QED
    BY <1>4, <1>5, <1>6, <2>1
<1>7. CASE i # 1
  <2>1. i - 1 \in 1..n /\ isConfirmed(s[i]) /\ s[i - 1].height # s[i].height
    BY <1>3, <1>4, <1>5, <1>7
  <2>2. ASSUME NEW k \in i..n PROVE isConfirmed(s[k]) /\ s[k].height <= s[i].height
    <3>1. CASE k = i
      BY <1>3, <1>5, <2>1, <3>1
    <3>2. CASE k # i
      BY <1>2, <1>3, <1>5, <2>1, <3>2, NewestFirst
    <3> QED
      BY <3>1, <3>2
  <2>3. ASSUME NEW k \in 1..n, k \notin i..n PROVE ~(isConfirmed(s[k]) /\ s[k].height <= s[i].height)
    <3> SUFFICES ASSUME isConfirmed(s[k]), s[k].height <= s[i].height PROVE FALSE
      OBVIOUS
    <3>1. k <= i - 1 /\ k \in Nat
      BY <1>3, <1>5, <2>3
    <3>2. isConfirmed(s[i - 1]) /\ s[i - 1].height <= s[k].height
      <4>1. CASE k = i - 1
        BY <1>3, <4>1
      <4>2. CASE k < i - 1
        BY <1>2, <2>1, <4>2, NewestFirst
      <4> QED
        BY <2>1, <3>1, <4>1, <4>2
    <3>3. s[i].height <= s[i - 1].height
      <4>1. i - 1 < i
        BY <1>5
      <4> QED
        BY <1>2, <1>5, <2>1, <3>2, <4>1, NewestFirst
    <3>4. s[i].height \in Int /\ s[i - 1].height \in Int /\ s[k].height \in Int
      BY <1>3, <1>5, <2>1
    <3> QED
      BY <2>1, <3>2, <3>3, <3>4
  <2>4. From(s, i) = {tx \in txs[a] : isConfirmed(tx) /\ tx.height <= s[i].height}
    <3>1. \A tx : tx \in From(s, i) <=> \E k \in i..n : s[k] = tx
      BY DEF From
    <3>2. i..n \subseteq 1..n
      BY <1>3, <1>5
    <3> HIDE DEF n
    <3> QED
      BY <1>3, <2>2, <2>3, <3>1, <3>2
  <2> QED
    BY <1>4, <1>5, <1>7, <2>4
<1> QED
  BY <1>6, <1>7

\* Nothing in all sums up to nothing.
LEMMA SumOfNone ==
    ASSUME NEW S, IsFiniteSet(S), NEW f, \A x \in S : f[x] = 0
    PROVE  SumFunctionOnSet(f, S) = 0
<1>1. \A x \in S : f[x] \in Int /\ 1 * f[x] + f[x] <= f[x] /\ (-2) * f[x] + f[x] <= f[x]
  OBVIOUS
<1>2. SumFunctionOnSet(f, S) \in Int
  BY <1>1, SumType
<1>3. 1 * SumFunctionOnSet(f, S) + SumFunctionOnSet(f, S) <= SumFunctionOnSet(f, S)
  BY <1>1, SumLinear
<1>4. (-2) * SumFunctionOnSet(f, S) + SumFunctionOnSet(f, S) <= SumFunctionOnSet(f, S)
  BY <1>1, SumLinear
<1> QED
  BY <1>2, <1>3, <1>4

\* The value that an account adds to a point is what it was worth.
LEMMA PricedWorth ==
    ASSUME TimelineInv, NEW a \in Accs, NEW s \in Orders(txs[a]), ~NotAvailable(Balances(s)),
           ~PriceMissing(a, Balances(s)), NEW t \in Nat
    PROVE  /\ ValueAt(Balances(s), t) * HistoricalPriceAt(a, t) \in Int
           /\ t <= until => ValueAt(Balances(s), t) * HistoricalPriceAt(a, t) = Worth(t)[a]
<1>1. ValueAt(Balances(s), t) = Worth(t)[a] /\ Worth(t)[a] \in Int
  BY ValueIsWorth, WorthType
<1>2. HistoricalPriceAt(a, t) \in {0, 1}
  BY DEF HistoricalPriceAt
<1>3. ASSUME t <= until, Worth(t)[a] # 0 PROVE HistoricalPriceAt(a, t) = 1
  <2>1. EarliestTime(Balances(s)) <= t /\ EarliestTime(Balances(s)) \in Nat
    BY <1>3, WorthFromEarliest
  <2>2. known[a][1] <= EarliestTime(Balances(s)) /\ known[a][1] \in Nat
    BY <2>1, AccountFacts DEF PriceMissing
  <2>3. t <= known[a][2]
    BY <1>3, UntilFacts, AccountFacts
  <2> QED
    BY <2>1, <2>2, <2>3 DEF HistoricalPriceAt
<1> QED
  BY <1>1, <1>2, <1>3

\* An account is added to a series.
LEMMA AddSeries ==
    ASSUME TimelineInv, NEW a \in Accs, NEW s \in Orders(txs[a]), ~NotAvailable(Balances(s)),
           ~PriceMissing(a, Balances(s)), NEW A \in SUBSET Accs, a \notin A,
           NEW entries \in SUBSET [time : Nat, value : Int], NEW grid \in SUBSET Nat, IsTotal(entries, grid, A),
           NEW T \in SUBSET Nat, \A t \in T : t <= until => t \in grid,
           \A t \in grid : t <= until /\ (Worth(t)[a] # 0 => t \in T),
           NEW series, series = {[time |-> t, value |-> ValueAt(Balances(s), t)] : t \in T}
    PROVE  /\ addChartData(a, series, entries) \in SUBSET [time : Nat, value : Int]
           /\ IsTotal(addChartData(a, series, entries), grid, A \cup {a})
<1> DEFINE value(t) == IF \E e \in series : e.time = t
                       THEN (CHOOSE e \in series : e.time = t).value * HistoricalPriceAt(a, t) ELSE 0
           old(t) == IF \E e \in entries : e.time = t THEN (CHOOSE e \in entries : e.time = t).value ELSE 0
           ts == {e.time : e \in entries \cup series}
           new == addChartData(a, series, entries)
<1>1. new = {[time |-> t, value |-> old(t) + value(t)] : t \in ts}
  BY DEF addChartData
<1>2. \A e : e \in series <=> \E t \in T : e = [time |-> t, value |-> ValueAt(Balances(s), t)]
  OBVIOUS
<1>3. ts \in SUBSET Nat /\ \A t \in ts : t \in T \/ \E e \in entries : e.time = t
  BY <1>2
<1>4. (\A t \in T : t \in ts) /\ \A e \in entries : e.time \in ts
  <2>1. \A e \in entries \cup series : e.time \in ts
    OBVIOUS
  <2>2. ASSUME NEW t \in T PROVE t \in ts
    <3> DEFINE x == [time |-> t, value |-> ValueAt(Balances(s), t)]
    <3>1. x \in series /\ x.time = t
      BY <1>2
    <3> QED
      BY <2>1, <3>1
  <2> QED
    BY <2>1, <2>2
<1>5. ASSUME NEW t \in Nat
      PROVE  /\ value(t) \in Int /\ (t \in T /\ t <= until => value(t) = Worth(t)[a])
             /\ t \notin T => value(t) = 0
  <2>1. CASE t \in T
    <3> DEFINE x == [time |-> t, value |-> ValueAt(Balances(s), t)]
    <3>1. x \in series /\ x.time = t /\ x.value = ValueAt(Balances(s), t) /\ \A e \in series : e.time = t => e = x
      BY <1>2, <2>1
    <3> HIDE DEF x
    <3>2. value(t) = x.value * HistoricalPriceAt(a, t)
      BY <3>1
    <3> QED
      BY <2>1, <3>1, <3>2, PricedWorth
  <2>2. CASE t \notin T
    BY <1>2, <2>2
  <2> QED
    BY <2>1, <2>2
<1>6. ASSUME NEW t \in Nat
      PROVE  old(t) \in Int /\ (t \in grid => old(t) = SumFunctionOnSet(Worth(t), A))
  <2>1. CASE \E e \in entries : e.time = t
    <3>1. PICK x \in entries : x.time = t
      BY <2>1
    <3>2. \A e \in entries : e.time = t => e = x
      BY <3>1 DEF IsTotal
    <3>3. old(t) = x.value
      BY <3>1, <3>2
    <3>4. t \in grid => x.value = SumFunctionOnSet(Worth(t), A)
      BY <3>1 DEF IsTotal
    <3> QED
      BY <3>1, <3>3, <3>4
  <2>2. CASE ~\E e \in entries : e.time = t
    <3>1. old(t) = 0
      BY <2>2
    <3>2. ASSUME t \in grid PROVE SumFunctionOnSet(Worth(t), A) = 0
      <4>1. \A b \in A : Worth(t)[b] = 0
        BY <2>2, <3>2 DEF IsTotal
      <4>2. IsFiniteSet(A)
        BY FS_Subset, TimelineAssumption DEF Accs
      <4> QED
        BY <4>1, <4>2, SumOfNone
    <3> QED
      BY <3>1, <3>2
  <2> QED
    BY <2>1, <2>2
<1> HIDE DEF value, old
<1>7. \A t \in ts : old(t) + value(t) \in Int
  BY <1>3, <1>5, <1>6
<1>8. new \in SUBSET [time : Nat, value : Int]
  BY <1>1, <1>3, <1>7
<1>9. ASSUME NEW t \in grid PROVE old(t) + value(t) = SumFunctionOnSet(Worth(t), A \cup {a})
  <2>1. value(t) = Worth(t)[a] /\ old(t) = SumFunctionOnSet(Worth(t), A)
    BY <1>5, <1>6
  <2>2. \A b \in A \cup {a} : Worth(t)[b] \in Int
    BY WorthType
  <2>3. IsFiniteSet(A)
    BY FS_Subset, TimelineAssumption DEF Accs
  <2>4. SumFunctionOnSet(Worth(t), A \cup {a}) = SumFunctionOnSet(Worth(t), A) + Worth(t)[a]
    BY <2>2, <2>3, SumAdd
  <2> QED
    BY <2>1, <2>4
<1>10. \A e, f \in new : e.time = f.time => e = f
  BY <1>1
<1>11. ASSUME NEW e \in new, e.time <= until
       PROVE  e.time \in grid /\ e.value = SumFunctionOnSet(Worth(e.time), A \cup {a})
  <2>1. PICK t \in ts : e = [time |-> t, value |-> old(t) + value(t)]
    BY <1>1
  <2>2. t \in grid
    BY <1>3, <1>11, <2>1 DEF IsTotal
  <2> QED
    BY <1>9, <2>1, <2>2
<1>12. ASSUME NEW t \in grid, NEW b \in A \cup {a}, Worth(t)[b] # 0 PROVE \E e \in new : e.time = t
  <2>1. t \in ts
    BY <1>4, <1>12 DEF IsTotal
  <2> DEFINE x == [time |-> t, value |-> old(t) + value(t)]
  <2>2. x \in new /\ x.time = t
    BY <1>1, <2>1
  <2> HIDE DEF new, x
  <2> QED
    BY <2>2
<1> HIDE DEF new
<1> QED
  BY <1>8, <1>10, <1>11, <1>12 DEF IsTotal, new

\* Multiples of a day.
LEMMA Multiples ==
    ASSUME NEW x \in Nat, x % Day = 0, NEW y \in Nat
    PROVE  (y - x) % Day = 0 <=> y % Day = 0
<1> DEFINE d == Day
<1>1. d \in Nat \ {0}
  BY TimelineAssumption
<1> HIDE DEF d
<1>2. \A t \in Int : (t \div d) \in Int /\ t = d * (t \div d) + (t % d)
  BY <1>1
<1>3. \A q \in Int : d * q \in Int /\ (d * q) % d = 0
  BY <1>1
<1>4. PICK p \in Int : x = d * p
  BY <1>1, <1>2 DEF d
<1>5. ASSUME (y - x) % d = 0 PROVE y % d = 0
  <2>1. PICK q \in Int : y - x = d * q
    <3>1. y - x \in Int
      OBVIOUS
    <3>2. ((y - x) \div d) \in Int /\ y - x = d * ((y - x) \div d) + 0
      BY <1>2, <1>5, <3>1
    <3>3. d * ((y - x) \div d) + 0 = d * ((y - x) \div d)
      BY <1>3, <3>2
    <3> QED
      BY <3>2, <3>3
  <2>2. y = d * (p + q)
    BY <1>1, <1>4, <2>1
  <2>3. p + q \in Int
    OBVIOUS
  <2> QED
    BY <1>3, <2>2, <2>3
<1>6. ASSUME y % d = 0 PROVE (y - x) % d = 0
  <2>1. PICK q \in Int : y = d * q
    BY <1>1, <1>2, <1>6
  <2>2. y - x = d * (q - p)
    BY <1>1, <1>4, <2>1
  <2>3. q - p \in Int
    OBVIOUS
  <2> QED
    BY <1>3, <2>2, <2>3
<1> QED
  BY <1>5, <1>6 DEF d

\* The beginning of a day.
LEMMA TruncateFacts ==
    ASSUME NEW t \in Nat
    PROVE  Truncate(t) \in Nat /\ Truncate(t) <= t /\ Truncate(t) % Day = 0
<1> DEFINE d == Day
<1>1. d \in Nat \ {0}
  BY TimelineAssumption
<1> HIDE DEF d
<1>2. (t \div d) \in Nat /\ t = d * (t \div d) + (t % d) /\ t % d \in 0..d - 1
  BY <1>1
<1>3. t - (t % d) = d * (t \div d) /\ d * (t \div d) \in Nat
  BY <1>1, <1>2
<1>4. \A q \in Nat : (d * q) % d = 0
  BY <1>1
<1> QED
  BY <1>2, <1>3, <1>4 DEF Truncate, d

\* The daily points of an account are those days from its first transaction on.
LEMMA DailySteps ==
    ASSUME TimelineInv, NEW a \in Accs, NEW e \in Nat
    PROVE  /\ Steps(Truncate(e), until, Day) \in SUBSET Nat
           /\ \A t \in Steps(Truncate(e), until, Day) : t <= until => t \in DailyTimes
           /\ DailyTimes \in SUBSET Nat /\ \A t \in DailyTimes : t <= until
           /\ \A t \in DailyTimes : e <= t => t \in Steps(Truncate(e), until, Day)
<1> DEFINE start == Truncate(e)
<1>1. until \in Nat /\ start \in Nat /\ start <= e /\ start % Day = 0
  BY UntilFacts, TruncateFacts
<1> HIDE DEF start
<1>2. \A t \in Nat : (t - start) % Day = 0 <=> t % Day = 0
  BY <1>1, Multiples
<1>3. \A t \in Steps(start, until, Day) : t \in Nat /\ start <= t /\ t % Day = 0
  BY <1>1, <1>2 DEF Steps
<1>4. \A t \in DailyTimes : t \in Nat /\ t <= until /\ t % Day = 0
  BY <1>1 DEF DailyTimes
<1>5. \A t \in Steps(start, until, Day) : t <= until => t \in DailyTimes
  BY <1>1, <1>3 DEF DailyTimes
<1>6. ASSUME NEW t \in DailyTimes, e <= t PROVE t \in Steps(start, until, Day)
  BY <1>1, <1>2, <1>4, <1>6 DEF Steps
<1> QED
  BY <1>3, <1>4, <1>5, <1>6 DEF start

\* The fine points are the same for all accounts.
LEMMA HourlySteps ==
    ASSUME TimelineInv, NEW a \in Accs
    PROVE  /\ Steps(hourlyFrom, until, 1) \in SUBSET Nat
           /\ \A t \in Steps(hourlyFrom, until, 1) : t <= until => t \in HourlyTimes
           /\ HourlyTimes \in SUBSET Nat /\ \A t \in HourlyTimes : t <= until
           /\ \A t \in HourlyTimes : t \in Steps(hourlyFrom, until, 1)
<1>1. Now - Day \in Nat
  BY TimelineAssumption
<1>2. until \in Nat /\ hourlyFrom \in Nat
  BY <1>1, UntilFacts, TruncateFacts DEF hourlyFrom
<1>3. \A t \in Int : t % 1 = 0
  OBVIOUS
<1> QED
  BY <1>2, <1>3 DEF Steps, HourlyTimes

\* The accounts and rates do not change while the chart is made.
LEMMA SameAccounts ==
    ASSUME UNCHANGED <<txs, times, known>>
    PROVE  /\ until' = until /\ DailyTimes' = DailyTimes /\ HourlyTimes' = HourlyTimes
           /\ \A t : Worth(t)' = Worth(t) /\ WorthAt(t)' = WorthAt(t)
           /\ \A set : Orders(set)' = Orders(set)
<1>1. until' = until
  BY DEF until, HistoryLatestTimestampAll
<1>2. DailyTimes' = DailyTimes /\ HourlyTimes' = HourlyTimes
  BY <1>1 DEF DailyTimes, HourlyTimes, hourlyFrom, Truncate
<1>3. ASSUME NEW t PROVE Worth(t)' = Worth(t)
  BY DEF Worth, Sum, Effects, ConfirmedBy, Timestamp
<1>4. ASSUME NEW t PROVE WorthAt(t)' = WorthAt(t)
  BY <1>3 DEF WorthAt
<1> QED
  BY <1>1, <1>2, <1>3, <1>4

\* A chart begins without points.
LEMMA TimelineInitInv == TimelineInit => TimelineInv
<1> SUFFICES ASSUME TimelineInit PROVE TimelineInv
  OBVIOUS
<1>1. /\ \A a \in Accs : txs[a] \in ChartAccounts[a] /\ known[a] \in Known[a]
      /\ times \in HeightTimes /\ ordered = [a \in Accs |-> <<>>]
  BY DEF TimelineInit
<1>2. chart = [status |-> "working", todo |-> Accs, missing |-> FALSE,
               daily |-> {}, hourly |-> {}, points |-> {}]
  BY DEF TimelineInit
<1>3. ListsRight
  BY <1>1 DEF ListsRight
<1>4. ChartRight
  BY <1>2 DEF ChartRight, IsTotal
<1>5. ChartIsTotal /\ ChartHasAllDays
  BY <1>2 DEF ChartIsTotal, ChartHasAllDays
<1> QED
  BY <1>1, <1>2, <1>3, <1>4, <1>5 DEF TimelineInv

\* An account without transactions that have a time adds nothing.
LEMMA SkipSeries ==
    ASSUME TimelineInv, NEW a \in Accs, NEW A \in SUBSET Accs, a \notin A,
           NEW entries \in SUBSET [time : Nat, value : Int], NEW grid \in SUBSET Nat, IsTotal(entries, grid, A),
           \A t \in Nat : Worth(t)[a] = 0
    PROVE  IsTotal(entries, grid, A \cup {a})
<1>1. ASSUME NEW t \in Nat PROVE SumFunctionOnSet(Worth(t), A \cup {a}) = SumFunctionOnSet(Worth(t), A)
  <2>1. \A b \in A \cup {a} : Worth(t)[b] \in Int
    BY WorthType
  <2>2. IsFiniteSet(A)
    BY FS_Subset, TimelineAssumption DEF Accs
  <2>3. SumFunctionOnSet(Worth(t), A \cup {a}) = SumFunctionOnSet(Worth(t), A) + Worth(t)[a]
    BY <2>1, <2>2, SumAdd
  <2>4. SumFunctionOnSet(Worth(t), A) \in Int
    BY <2>1, <2>2, SumType
  <2> QED
    BY <2>3, <2>4
<1> QED
  BY <1>1 DEF IsTotal

\* The next account of the chart.
LEMMA AddAccountKeeps ==
    ASSUME TimelineInv, NEW a \in Accs, AddAccount(a)
    PROVE  TimelineInv'
<1>1. chart.status = "working" /\ a \in chart.todo /\ UNCHANGED <<txs, times, known>>
  BY DEF AddAccount
<1>2. PICK s \in Orders(txs[a]) :
        /\ ordered' = [ordered EXCEPT ![a] = Balances(s)]
        /\ chart' =
             IF chart.missing \/ until = 0 \/ NotAvailable(Balances(s))
             THEN [chart EXCEPT !.todo = chart.todo \ {a}, !.missing = TRUE]
             ELSE IF EarliestTime(Balances(s)) = 0 THEN [chart EXCEPT !.todo = chart.todo \ {a}]
             ELSE IF PriceMissing(a, Balances(s)) THEN [chart EXCEPT !.todo = chart.todo \ {a}, !.missing = TRUE]
             ELSE [chart EXCEPT !.todo = chart.todo \ {a},
                      !.daily = addChartData(a, Timeseries(Balances(s), Truncate(EarliestTime(Balances(s))), until, Day), @),
                      !.hourly = addChartData(a, Timeseries(Balances(s), hourlyFrom, until, 1), @)]
  BY DEF AddAccount
<1> DEFINE entries == Balances(s)
           E == EarliestTime(entries)
           day == Timeseries(entries, Truncate(E), until, Day)
           hour == Timeseries(entries, hourlyFrom, until, 1)
           daily == addChartData(a, day, chart.daily)
           hourly == addChartData(a, hour, chart.hourly)
           done == Accs \ chart.todo
<1>3. /\ DOMAIN chart = {"status", "todo", "missing", "daily", "hourly", "points"}
      /\ chart.todo \subseteq Accs
      /\ chart.daily \in SUBSET [time : Nat, value : Int] /\ chart.hourly \in SUBSET [time : Nat, value : Int]
  BY DEF TimelineInv, ChartRight
<1>4. ListsRight'
  BY <1>1, <1>2, SameAccounts DEF TimelineInv, ListsRight
<1>5. Accs \ (chart.todo \ {a}) = done \cup {a} /\ done \in SUBSET Accs /\ a \notin done
  BY <1>1
<1>6. /\ chart'.status = "working" /\ DOMAIN chart' = DOMAIN chart /\ chart'.todo = chart.todo \ {a}
      /\ \/ chart'.missing = TRUE /\ chart'.daily = chart.daily /\ chart'.hourly = chart.hourly
         \/ /\ chart'.missing = chart.missing /\ chart'.daily = chart.daily /\ chart'.hourly = chart.hourly
            /\ ~chart.missing /\ ~NotAvailable(entries) /\ E = 0
         \/ /\ chart'.missing = chart.missing /\ chart'.daily = daily /\ chart'.hourly = hourly
            /\ ~chart.missing /\ ~NotAvailable(entries) /\ E # 0 /\ ~PriceMissing(a, entries)
  <2>1. CASE chart.missing \/ until = 0 \/ NotAvailable(entries)
    BY <1>1, <1>2, <1>3, <2>1
  <2>2. CASE ~(chart.missing \/ until = 0 \/ NotAvailable(entries)) /\ E = 0
    BY <1>1, <1>2, <1>3, <2>2
  <2>3. CASE ~(chart.missing \/ until = 0 \/ NotAvailable(entries)) /\ E # 0 /\ PriceMissing(a, entries)
    BY <1>1, <1>2, <1>3, <2>3
  <2>4. CASE ~(chart.missing \/ until = 0 \/ NotAvailable(entries)) /\ E # 0 /\ ~PriceMissing(a, entries)
    BY <1>1, <1>2, <1>3, <2>4
  <2> QED
    BY <2>1, <2>2, <2>3, <2>4
<1>7. ASSUME ~NotAvailable(entries), E # 0 PROVE txs[a] # {}
  BY <1>7, WorthFromEarliest
<1>8. ASSUME ~chart.missing
      PROVE  IsTotal(chart.daily, DailyTimes, done) /\ IsTotal(chart.hourly, HourlyTimes, done)
  BY <1>1, <1>8 DEF TimelineInv, ChartRight
<1>9. DailyTimes \in SUBSET Nat /\ HourlyTimes \in SUBSET Nat
  BY DailySteps, HourlySteps
<1>10. ASSUME ~chart.missing, ~NotAvailable(entries), E = 0
       PROVE  IsTotal(chart.daily, DailyTimes, done \cup {a}) /\ IsTotal(chart.hourly, HourlyTimes, done \cup {a})
  <2>1. \A t \in Nat : Worth(t)[a] = 0
    BY <1>10, WorthFromEarliest
  <2> HIDE DEF done
  <2> QED
    BY <1>3, <1>5, <1>8, <1>9, <1>10, <2>1, SkipSeries
<1>11. ASSUME ~chart.missing, ~NotAvailable(entries), ~PriceMissing(a, entries)
       PROVE  /\ daily \in SUBSET [time : Nat, value : Int] /\ hourly \in SUBSET [time : Nat, value : Int]
              /\ IsTotal(daily, DailyTimes, done \cup {a}) /\ IsTotal(hourly, HourlyTimes, done \cup {a})
  <2>1. E \in Nat /\ \A t \in Int : Worth(t)[a] # 0 => E <= t
    BY <1>11, WorthFromEarliest
  <2> DEFINE D == Steps(Truncate(E), until, Day)
             H == Steps(hourlyFrom, until, 1)
  <2>2. /\ D \in SUBSET Nat /\ \A t \in D : t <= until => t \in DailyTimes
        /\ \A t \in DailyTimes : t <= until /\ (Worth(t)[a] # 0 => t \in D)
    <3> HIDE DEF E
    <3> QED
      BY <1>9, <2>1, DailySteps
  <2>3. /\ H \in SUBSET Nat /\ \A t \in H : t <= until => t \in HourlyTimes
        /\ \A t \in HourlyTimes : t <= until /\ (Worth(t)[a] # 0 => t \in H)
    BY HourlySteps
  <2>4. /\ day = {[time |-> t, value |-> ValueAt(entries, t)] : t \in D}
        /\ hour = {[time |-> t, value |-> ValueAt(entries, t)] : t \in H}
    BY DEF Timeseries
  <2> HIDE DEF D, H, day, hour, done
  <2>5. daily \in SUBSET [time : Nat, value : Int] /\ IsTotal(daily, DailyTimes, done \cup {a})
    BY <1>3, <1>5, <1>8, <1>9, <1>11, <2>2, <2>4, AddSeries
  <2>6. hourly \in SUBSET [time : Nat, value : Int] /\ IsTotal(hourly, HourlyTimes, done \cup {a})
    BY <1>3, <1>5, <1>8, <1>9, <1>11, <2>3, <2>4, AddSeries
  <2> QED
    BY <2>5, <2>6
<1> HIDE DEF daily, hourly, done, entries, E
<1>12. /\ chart'.daily \cup chart'.hourly # {} => \E b \in Accs : txs[b] # {}
       /\ chart'.daily \in SUBSET [time : Nat, value : Int] /\ chart'.hourly \in SUBSET [time : Nat, value : Int]
  <2>1. chart.daily \cup chart.hourly # {} => \E b \in Accs : txs[b] # {}
    BY DEF TimelineInv, ChartRight
  <2>2. CASE chart'.daily = chart.daily /\ chart'.hourly = chart.hourly
    BY <1>3, <2>1, <2>2
  <2>3. CASE chart'.daily = daily /\ chart'.hourly = hourly /\ ~chart.missing /\ ~NotAvailable(entries)
             /\ E # 0 /\ ~PriceMissing(a, entries)
    BY <1>7, <1>11, <2>3
  <2> QED
    BY <1>6, <2>2, <2>3
<1>13. ~chart'.missing => /\ IsTotal(chart'.daily, DailyTimes, done \cup {a})
                          /\ IsTotal(chart'.hourly, HourlyTimes, done \cup {a})
  BY <1>6, <1>10, <1>11
<1>14. (chart.todo \subseteq Accs)' /\ (Accs \ chart.todo)' = done \cup {a}
  BY <1>3, <1>5, <1>6 DEF Accs
<1>15. ChartRight'
  <2>0. /\ until' = until /\ DailyTimes' = DailyTimes /\ HourlyTimes' = HourlyTimes
        /\ \A t : Worth(t)' = Worth(t)
    BY <1>1, SameAccounts
  <2>1. ASSUME ~chart'.missing PROVE IsTotal(chart.daily, DailyTimes, Accs \ chart.todo)'
    <3>1. IsTotal(chart'.daily, DailyTimes, done \cup {a})
      BY <1>13, <2>1
    <3> QED
      BY <1>14, <2>0, <3>1 DEF IsTotal
  <2>2. ASSUME ~chart'.missing PROVE IsTotal(chart.hourly, HourlyTimes, Accs \ chart.todo)'
    <3>1. IsTotal(chart'.hourly, HourlyTimes, done \cup {a})
      BY <1>13, <2>2
    <3> QED
      BY <1>14, <2>0, <3>1 DEF IsTotal
  <2> QED
    BY <1>1, <1>12, <1>14, <2>1, <2>2 DEF ChartRight, Accs
<1>16. ChartIsTotal' /\ ChartHasAllDays'
  BY <1>6 DEF ChartIsTotal, ChartHasAllDays
<1> QED
  BY <1>1, <1>3, <1>4, <1>6, <1>15, <1>16 DEF TimelineInv

\* Cut keeps every point with a positive value.
LEMMA CutKeeps ==
    ASSUME NEW entries \in SUBSET [time : Nat, value : Int], NEW e \in entries, e.value > 0
    PROVE  e \in Cut(entries)
<1> DEFINE positive == {x.time : x \in {y \in entries : y.value > 0}}
<1>1. positive \subseteq Nat /\ e.time \in positive
  OBVIOUS
<1>2. \E x \in positive : \A y \in positive : x <= y
  <2> HIDE DEF positive
  <2> QED
    BY <1>1, LeastNat
<1>3. Min(positive) \in positive /\ \A y \in positive : Min(positive) <= y
  BY <1>2, Zenon DEF Min
<1>4. e.time >= Min(positive) /\ positive # {}
  BY <1>1, <1>3
<1> QED
  BY <1>4 DEF Cut

\* All accounts are in the chart.
LEMMA ReturnChartKeeps ==
    ASSUME TimelineInv, ReturnChart
    PROVE  TimelineInv'
<1>1. /\ chart.status = "working" /\ chart.todo = {} /\ UNCHANGED <<txs, times, known, ordered>>
      /\ chart' = [chart EXCEPT !.status = "done",
                                !.missing = @ /\ \E a \in Accs : txs[a] # {},
                                !.points = Cut(chart.daily)]
  BY DEF ReturnChart
<1>2. DOMAIN chart = {"status", "todo", "missing", "daily", "hourly", "points"}
  BY DEF TimelineInv
<1>3. /\ DOMAIN chart' = DOMAIN chart /\ chart'.status = "done" /\ chart'.todo = chart.todo
      /\ chart'.daily = chart.daily /\ chart'.hourly = chart.hourly /\ chart'.points = Cut(chart.daily)
  BY <1>1, <1>2
<1>4. chart'.missing = (chart.missing /\ \E a \in Accs : txs[a] # {})
  BY <1>1, <1>2
<1>5. ListsRight'
  BY <1>1, SameAccounts DEF TimelineInv, ListsRight
<1>6. ChartRight'
  BY <1>1, <1>3 DEF TimelineInv, ChartRight, Accs
<1>7. ASSUME ~chart'.missing
      PROVE  /\ \A e \in chart.daily \cup chart.hourly : e.time <= until => e.value = WorthAt(e.time)
             /\ \A t \in 1..until : t % Day = 0 /\ WorthAt(t) > 0 =>
                    \E e \in Cut(chart.daily) : e.time = t /\ e.value = WorthAt(t)
  <2>1. IsFiniteSet(Accs)
    BY TimelineAssumption DEF Accs
  <2>2. CASE chart.missing
    <3>1. \A a \in Accs : txs[a] = {}
      BY <1>4, <1>7, <2>2
    <3>2. chart.daily \cup chart.hourly = {}
      BY <3>1 DEF TimelineInv, ChartRight
    <3>3. ASSUME NEW t PROVE WorthAt(t) = 0
      <4>1. \A a \in Accs : Worth(t)[a] = 0
        BY <3>1, WorthType DEF ConfirmedBy
      <4> QED
        BY <2>1, <4>1, SumOfNone DEF WorthAt
    <3> QED
      BY <3>2, <3>3
  <2>3. CASE ~chart.missing
    <3>1. /\ IsTotal(chart.daily, DailyTimes, Accs) /\ IsTotal(chart.hourly, HourlyTimes, Accs)
          /\ chart.daily \in SUBSET [time : Nat, value : Int]
      BY <1>1, <2>3 DEF TimelineInv, ChartRight
    <3>2. \A e \in chart.daily \cup chart.hourly : e.time <= until => e.value = WorthAt(e.time)
      BY <3>1 DEF IsTotal, WorthAt
    <3>3. ASSUME NEW t \in 1..until, t % Day = 0, WorthAt(t) > 0
          PROVE  \E e \in Cut(chart.daily) : e.time = t /\ e.value = WorthAt(t)
      <4>1. PICK a \in Accs : Worth(t)[a] # 0
        <5>1. ASSUME \A a \in Accs : Worth(t)[a] = 0 PROVE WorthAt(t) = 0
          BY <2>1, <5>1, SumOfNone DEF WorthAt
        <5> QED
          BY <3>3, <5>1
      <4>2. until \in Nat
        BY UntilFacts
      <4>3. t \in DailyTimes /\ t <= until
        BY <3>3, <4>2 DEF DailyTimes
      <4>4. PICK e \in chart.daily : e.time = t
        BY <3>1, <4>1, <4>3 DEF IsTotal
      <4>5. e.value = WorthAt(t)
        BY <3>2, <4>3, <4>4
      <4>6. e \in Cut(chart.daily)
        BY <3>1, <3>3, <4>4, <4>5, CutKeeps
      <4> QED
        BY <4>4, <4>5, <4>6
    <3> QED
      BY <3>2, <3>3
  <2> QED
    BY <2>2, <2>3
<1>8. until' = until /\ \A t : WorthAt(t)' = WorthAt(t)
  BY <1>1, SameAccounts
<1>9. ChartIsTotal' /\ ChartHasAllDays'
  BY <1>3, <1>7, <1>8 DEF ChartIsTotal, ChartHasAllDays
<1> QED
  BY <1>1, <1>2, <1>3, <1>5, <1>6, <1>9 DEF TimelineInv

\* Every step keeps lists and series right.
LEMMA TimelineStepInv == TimelineInv /\ [TimelineNext]_timelineVars => TimelineInv'
<1> SUFFICES ASSUME TimelineInv, [TimelineNext]_timelineVars PROVE TimelineInv'
  OBVIOUS
<1>1. CASE \E a \in Accs : AddAccount(a)
  BY <1>1, AddAccountKeeps
<1>2. CASE ReturnChart
  BY <1>2, ReturnChartKeeps
<1>3. CASE AccountFails
  <2>1. UNCHANGED <<txs, times, known, ordered>> /\ chart' = [chart EXCEPT !.status = "error"]
    BY <1>3 DEF AccountFails
  <2>2. /\ DOMAIN chart' = DOMAIN chart /\ chart'.status = "error" /\ chart'.todo = chart.todo
        /\ chart'.daily = chart.daily /\ chart'.hourly = chart.hourly
    BY <2>1 DEF TimelineInv
  <2>3. ListsRight'
    BY <2>1, SameAccounts DEF TimelineInv, ListsRight
  <2>4. ChartRight' /\ ChartIsTotal' /\ ChartHasAllDays'
    BY <2>1, <2>2 DEF TimelineInv, ChartRight, ChartIsTotal, ChartHasAllDays, Accs
  <2> QED
    BY <2>1, <2>2, <2>3, <2>4 DEF TimelineInv
<1>4. CASE UNCHANGED timelineVars
  <2>1. UNCHANGED <<txs, times, known, ordered, chart>>
    BY <1>4 DEF timelineVars
  <2>2. ListsRight'
    BY <2>1, SameAccounts DEF TimelineInv, ListsRight
  <2>3. ChartRight'
    <3>1. until' = until /\ DailyTimes' = DailyTimes /\ HourlyTimes' = HourlyTimes /\ \A t : Worth(t)' = Worth(t)
      BY <2>1, SameAccounts
    <3>2. /\ IsTotal(chart.daily, DailyTimes, Accs \ chart.todo) => IsTotal(chart.daily, DailyTimes, Accs \ chart.todo)'
          /\ IsTotal(chart.hourly, HourlyTimes, Accs \ chart.todo) => IsTotal(chart.hourly, HourlyTimes, Accs \ chart.todo)'
      BY <2>1, <3>1 DEF IsTotal, Accs
    <3> QED
      BY <2>1, <3>2 DEF TimelineInv, ChartRight, Accs
  <2>4. ChartIsTotal' /\ ChartHasAllDays'
    BY <2>1, SameAccounts DEF TimelineInv, ChartIsTotal, ChartHasAllDays
  <2> QED
    BY <2>1, <2>2, <2>3, <2>4 DEF TimelineInv
<1> QED
  BY <1>1, <1>2, <1>3, <1>4 DEF TimelineNext

\* Lists of transactions have the order of the blocks, and the series that a chart is made
\* of are the totals of the accounts that were added, wherever these were worth something.
THEOREM TimelineInvariance == TimelineSpec => []TimelineInv
  BY TimelineInitInv, TimelineStepInv, PTL DEF TimelineSpec

\* For any accounts, transactions, known rates and times of blocks that do not decrease,
\* and in whatever order the transactions of a block are listed: the running balances and
\* every point of the chart are what the accounts had then, and no such day is left out.
THEOREM BalancesRightHolds == TimelineSpec => []BalancesRight
<1>1. TimelineInv => BalancesRight
  BY ListsBalance DEF TimelineInv, BalancesRight
<1> QED
  BY <1>1, TimelineInvariance, PTL
=============================================================================
