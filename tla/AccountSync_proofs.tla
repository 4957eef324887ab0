------------------------- MODULE AccountSync_proofs -------------------------
(***************************************************************************)
(* The buckets of the transaction index stay consistent with each other,   *)
(* and an account that syncs with a server only does to them what          *)
(* TransactionsIndex allows, for any wallet, block tree and server.  Its   *)
(* chains keep the gap limit, with any number of goroutines.               *)
(***************************************************************************)
EXTENDS AccountSync, NatLemmas, FiniteSetTheorems, TLAPS

-----------------------------------------------------------------------------
(* TransactionsIndex                                                       *)

\* The sets UpdateAddressHistory works with: what is listed and what is gone are
\* disjoint, and what is deleted is part of what is gone.
LEMMA UpdateSets ==
    ASSUME TypeOK, NEW a \in Addrs, NEW h \in Histories
    PROVE  /\ DOMAIN h \subseteq TxIds
           /\ \A t \in DOMAIN h : h[t] \in Heights
           /\ Gone(a, h) \subseteq TxIds
           /\ Emptied(a, h) \subseteq Gone(a, h)
           /\ Gone(a, h) \cap DOMAIN h = {}
           /\ Gone(a, h) \subseteq DOMAIN addressHistories[a]
<1>1. PICK S \in SUBSET TxIds : h \in [S -> Heights]
  BY DEF Histories
<1>2. addressHistories[a] \in Histories
  BY DEF TypeOK
<1>3. PICK R \in SUBSET TxIds : addressHistories[a] \in [R -> Heights]
  BY <1>2 DEF Histories
<1> QED
  BY <1>1, <1>3 DEF Gone, Emptied

\* The record of the new history is a history for every address.
LEMMA UpdateTypeOK ==
    ASSUME TypeOK, NEW a \in Addrs, NEW h \in Histories, UpdateAddressHistory(a, h)
    PROVE  TypeOK'
<1> USE ConstantsAssumption
<1>1. /\ DOMAIN h \subseteq TxIds /\ \A t \in DOMAIN h : h[t] \in Heights
      /\ Emptied(a, h) \subseteq TxIds
  BY UpdateSets
<1>2. txs' \in SUBSET TxIds /\ msgTx' \in SUBSET TxIds /\ verified' \in SUBSET TxIds
      /\ unverifiedTransactions' \in SUBSET TxIds
  BY <1>1 DEF TypeOK, UpdateAddressHistory, UpdateTxRecords
<1>3. height' \in [TxIds -> Heights]
  BY <1>1 DEF TypeOK, UpdateAddressHistory, UpdateTxRecords
<1>4. addresses' \in [TxIds -> SUBSET Addrs]
  BY <1>1 DEF TypeOK, UpdateAddressHistory, UpdateTxRecords
<1>5. headerTimestamp' \in [TxIds -> Headers \cup {NoHeader}]
  BY <1>1 DEF TypeOK, UpdateAddressHistory, UpdateTxRecords
<1>6. inputs' \in [OutPoints -> TxIds \cup {NoTx}]
  BY <1>1 DEF TypeOK, UpdateAddressHistory, UpdateInputs
<1>7. outputs' \in SUBSET OutPoints
  BY <1>1 DEF TypeOK, UpdateAddressHistory, UpdateOutputs
<1>8. addressHistories' \in [Addrs -> Histories]
  BY DEF TypeOK, UpdateAddressHistory, PutAddressHistory
<1>9. unnotified' \in SUBSET TxIds /\ seen' \in SUBSET TxIds
  BY <1>1 DEF TypeOK, UpdateAddressHistory, UpdateNotifier, NotifierWrites
<1>10. jobs' \in SUBSET Jobs
  BY <1>1 DEF TypeOK, UpdateAddressHistory, NewlyConfirmed, NewJob, Jobs
<1> QED
  BY <1>2, <1>3, <1>4, <1>5, <1>6, <1>7, <1>8, <1>9, <1>10 DEF TypeOK

\* UpdateAddressHistory keeps the transaction records, the histories and the
\* notifier in step, and forgets no transaction.
LEMMA UpdateHistoriesIndexed ==
    ASSUME IndexInv, NEW a \in Addrs, NEW h \in Histories, UpdateAddressHistory(a, h)
    PROVE  HistoriesIndexed' /\ NoneForgotten' /\ NotifiedOnce'
<1> DEFINE L == DOMAIN h
           G == Gone(a, h)
           E == Emptied(a, h)
<1>1. /\ L \subseteq TxIds /\ G \subseteq TxIds /\ E \subseteq G /\ G \cap L = {}
      /\ G = DOMAIN addressHistories[a] \ L
      /\ E = {t \in G : addresses[t] \ {a} = {}}
  BY UpdateSets DEF IndexInv, Gone, Emptied
<1>2. /\ txs' = (txs \ E) \cup L /\ msgTx' = (msgTx \ E) \cup L
      /\ verified' = verified \ E
      /\ unverifiedTransactions' = unverifiedTransactions \cup (L \ verified)
      /\ \A t \in TxIds : addresses'[t] = IF t \in L THEN addresses[t] \cup {a}
                                          ELSE IF t \in G THEN addresses[t] \ {a}
                                          ELSE addresses[t]
  BY DEF UpdateAddressHistory, UpdateTxRecords
<1>3. /\ addressHistories'[a] = h
      /\ \A b \in Addrs \ {a} : addressHistories'[b] = addressHistories[b]
  BY DEF IndexInv, TypeOK, UpdateAddressHistory, PutAddressHistory
<1>4. \A t \in TxIds, b \in Addrs : b \in addresses'[t] <=> t \in DOMAIN addressHistories'[b]
  <2> SUFFICES ASSUME NEW t \in TxIds, NEW b \in Addrs
               PROVE  b \in addresses'[t] <=> t \in DOMAIN addressHistories'[b]
    OBVIOUS
  <2>1. b \in addresses[t] <=> t \in DOMAIN addressHistories[b]
    BY DEF IndexInv, HistoriesIndexed
  <2>2. CASE b = a
    <3>1. DOMAIN addressHistories'[b] = L
      BY <1>3, <2>2
    <3>2. a \in addresses'[t] <=> t \in L
      BY <1>1, <1>2, <2>1, <2>2
    <3> QED
      BY <2>2, <3>1, <3>2
  <2>3. CASE b # a
    <3>1. addressHistories'[b] = addressHistories[b]
      BY <1>3, <2>3
    <3>2. b \in addresses'[t] <=> b \in addresses[t]
      BY <1>2, <2>3
    <3> QED
      BY <2>1, <3>1, <3>2
  <2> QED
    BY <2>2, <2>3
<1>5. \A t \in TxIds : t \in msgTx' <=> addresses'[t] # {}
  <2> SUFFICES ASSUME NEW t \in TxIds
               PROVE  t \in msgTx' <=> addresses'[t] # {}
    OBVIOUS
  <2>1. t \in msgTx <=> addresses[t] # {}
    BY DEF IndexInv, HistoriesIndexed
  <2>2. CASE t \in L
    BY <1>2, <2>2
  <2>3. CASE t \in G
    <3>1. a \in addresses[t]
      BY <1>1, <2>3 DEF IndexInv, HistoriesIndexed
    <3> QED
      BY <1>1, <1>2, <2>1, <2>3, <3>1
  <2>4. CASE t \notin L /\ t \notin G
    BY <1>1, <1>2, <2>1, <2>4
  <2> QED
    BY <2>2, <2>3, <2>4
<1>6. msgTx' \subseteq txs'
  BY <1>2 DEF IndexInv, HistoriesIndexed
<1>7. NoneForgotten'
  BY <1>1, <1>2 DEF IndexInv, NoneForgotten
<1>8. NotifiedOnce'
  BY <1>1, <1>2 DEF IndexInv, NotifiedOnce, UpdateAddressHistory, UpdateNotifier, NotifierWrites
<1> QED
  BY <1>4, <1>5, <1>6, <1>7, <1>8 DEF HistoriesIndexed

\* UpdateAddressHistory keeps the inputs and outputs buckets in step with the
\* stored transactions.
LEMMA UpdateInputsOutputs ==
    ASSUME IndexInv, NEW a \in Addrs, NEW h \in Histories, UpdateAddressHistory(a, h)
    PROVE  InputsIndexed' /\ OutputsIndexed' /\ SpentIsRecorded'
<1> DEFINE L == DOMAIN h
           G == Gone(a, h)
           E == Emptied(a, h)
<1> USE ConstantsAssumption
<1>1. /\ L \subseteq TxIds /\ E \subseteq G /\ G \subseteq TxIds /\ G \cap L = {}
      /\ E = {t \in G : addresses[t] \ {a} = {}}
  BY UpdateSets DEF IndexInv, Emptied
<1>2. /\ msgTx' = (msgTx \ E) \cup L
      /\ \A t \in TxIds : addresses'[t] = IF t \in L THEN addresses[t] \cup {a}
                                          ELSE IF t \in G THEN addresses[t] \ {a}
                                          ELSE addresses[t]
  BY DEF UpdateAddressHistory, UpdateTxRecords
<1>3. PICK spender \in [SpentBy(L) -> L] :
        /\ \A o \in SpentBy(L) : o \in TxIns[spender[o]]
        /\ inputs' = [o \in OutPoints |-> IF o \in SpentBy(L) THEN spender[o]
                                          ELSE IF o \in SpentBy(E) THEN NoTx
                                          ELSE inputs[o]]
  BY DEF UpdateAddressHistory, UpdateInputs
<1>4. \A T, o : o \in SpentBy(T) <=> \E t \in T : o \in TxIns[t]
  BY DEF SpentBy
<1>5. InputsIndexed'
  <2> SUFFICES ASSUME NEW o \in OutPoints, inputs'[o] # NoTx
               PROVE  inputs'[o] \in msgTx' /\ o \in TxIns[inputs'[o]]
    BY DEF InputsIndexed, isInputSpent
  <2>1. CASE o \in SpentBy(L)
    <3>1. inputs'[o] = spender[o] /\ spender[o] \in L /\ o \in TxIns[spender[o]]
      BY <1>3, <2>1
    <3> QED
      BY <1>2, <3>1
  <2>2. CASE o \notin SpentBy(L)
    <3>1. inputs'[o] = inputs[o] /\ o \notin SpentBy(E)
      BY <1>3, <2>2
    <3>2. inputs[o] \in msgTx /\ o \in TxIns[inputs[o]]
      BY <3>1 DEF IndexInv, InputsIndexed, isInputSpent
    <3>3. inputs[o] \notin E
      BY <1>4, <3>1, <3>2
    <3> QED
      BY <1>2, <3>1, <3>2, <3>3
  <2> QED
    BY <2>1, <2>2
<1>6. outputs' = {o \in outputs : Creator[o] \notin E}
                 \cup {o \in OutPoints : Creator[o] \in L /\ Owner[o] = a}
  BY DEF UpdateAddressHistory, UpdateOutputs
<1>7. \A o \in outputs' : Creator[o] \in msgTx'
  BY <1>2, <1>6 DEF IndexInv, OutputsIndexed
<1>8. ASSUME NEW t \in msgTx', NEW o \in Outs(t), Owner[o] \in addresses'[t]
      PROVE  o \in outputs'
  <2>1. o \in OutPoints /\ Creator[o] = t
    BY DEF Outs
  <2>2. CASE t \in L /\ Owner[o] = a
    BY <1>6, <2>1, <2>2
  <2>3. CASE ~(t \in L /\ Owner[o] = a)
    <3>1. t \in TxIds
      BY <1>1, <1>2 DEF IndexInv, TypeOK
    <3>2. Owner[o] \in addresses[t]
      <4>1. addresses'[t] = IF t \in L THEN addresses[t] \cup {a}
                            ELSE IF t \in G THEN addresses[t] \ {a}
                            ELSE addresses[t]
        BY <1>2, <3>1
      <4>2. CASE t \in L
        BY <1>8, <2>3, <4>1, <4>2
      <4>3. CASE t \notin L
        BY <1>8, <4>1, <4>3
      <4> QED
        BY <4>2, <4>3
    <3>3. t \in msgTx
      BY <3>1, <3>2 DEF IndexInv, HistoriesIndexed
    <3>4. o \in outputs
      BY <3>2, <3>3 DEF IndexInv, OutputsIndexed
    <3>5. t \notin E
      BY <1>1, <1>2, <1>8, <3>1
    <3> QED
      BY <1>6, <2>1, <3>4, <3>5
  <2> QED
    BY <2>2, <2>3
<1>9. OutputsIndexed'
  BY <1>7, <1>8 DEF OutputsIndexed, Outs
<1>10. ASSUME NoDoubleSpend, NEW t \in msgTx', NEW o \in TxIns[t]
       PROVE  inputs'[o] = t
  <2>1. t \in TxIds /\ o \in OutPoints
    BY <1>1, <1>2 DEF IndexInv, TypeOK
  <2>2. \A u \in TxIds : o \in TxIns[u] => u = t
    BY <1>10, <2>1 DEF NoDoubleSpend
  <2>3. CASE t \in L
    <3>1. o \in SpentBy(L)
      BY <1>4, <2>3
    <3>2. spender[o] \in L /\ o \in TxIns[spender[o]]
      BY <1>3, <3>1
    <3> QED
      BY <1>1, <1>3, <2>1, <2>2, <3>1, <3>2
  <2>4. CASE t \notin L
    <3>1. t \in msgTx /\ t \notin E
      BY <1>2, <2>4
    <3>2. o \notin SpentBy(L) /\ o \notin SpentBy(E)
      BY <1>1, <1>4, <2>2, <2>4, <3>1
    <3>3. inputs[o] = t
      BY <1>10, <3>1 DEF IndexInv, SpentIsRecorded
    <3> QED
      BY <1>3, <2>1, <3>2, <3>3
  <2> QED
    BY <2>3, <2>4
<1>11. SpentIsRecorded'
  BY <1>10 DEF SpentIsRecorded, NoDoubleSpend
<1> QED
  BY <1>5, <1>9, <1>11

\* UpdateAddressHistory keeps what verification has found out.
LEMMA UpdateVerification ==
    ASSUME IndexInv, NEW a \in Addrs, NEW h \in Histories, UpdateAddressHistory(a, h)
    PROVE  VerifiedInBlock' /\ JobsSound'
<1>1. /\ verified' = verified \ Emptied(a, h)
      /\ \A t \in TxIds : headerTimestamp'[t] = IF t \in Emptied(a, h) THEN NoHeader
                                                ELSE headerTimestamp[t]
  BY DEF UpdateAddressHistory, UpdateTxRecords
<1>2. VerifiedInBlock'
  BY <1>1 DEF IndexInv, TypeOK, VerifiedInBlock
<1>3. \A j \in jobs' : j \in jobs \/ j.pc = "start"
  BY DEF UpdateAddressHistory, NewJob
<1>4. JobsSound'
  BY <1>3 DEF IndexInv, JobsSound
<1> QED
  BY <1>2, <1>4

\* The goroutines of verifyTransactions and the notifier keep the index intact.
LEMMA VerifyIndexInv ==
    ASSUME IndexInv,
           \/ verifyTransactions
           \/ \E j \in jobs, hdr \in Headers \cup {NoHeader} : GetHeader(j, hdr)
           \/ \E j \in jobs, ok \in BOOLEAN : GetMerkle(j, ok)
           \/ \E J \in SUBSET jobs : JobsEnd(J)
    PROVE  IndexInv'
<1>1. UNCHANGED <<dbVars, notifierVars>>
  BY DEF verifyTransactions, GetHeader, GetMerkle, JobsEnd
<1>2. jobs' \in SUBSET Jobs /\ JobsSound'
  <2>1. CASE verifyTransactions
    BY <2>1, ConstantsAssumption DEF IndexInv, TypeOK, verifyTransactions, NewJob, Jobs, JobsSound
  <2>2. ASSUME NEW j \in jobs, NEW hdr \in Headers \cup {NoHeader}, GetHeader(j, hdr)
        PROVE  jobs' \in SUBSET Jobs /\ JobsSound'
    BY <2>2 DEF IndexInv, TypeOK, GetHeader, Jobs, JobsSound
  <2>3. ASSUME NEW j \in jobs, NEW ok \in BOOLEAN, GetMerkle(j, ok)
        PROVE  jobs' \in SUBSET Jobs /\ JobsSound'
    BY <2>3 DEF IndexInv, TypeOK, GetMerkle, MerkleOk, Jobs, JobsSound
  <2>4. CASE \E J \in SUBSET jobs : JobsEnd(J)
    BY <2>4 DEF IndexInv, TypeOK, JobsEnd, JobsSound
  <2> QED
    BY <2>1, <2>2, <2>3, <2>4
<1> QED
  BY <1>1, <1>2 DEF IndexInv, TypeOK, HistoriesIndexed, InputsIndexed, OutputsIndexed, VerifiedInBlock,
     NoneForgotten, NotifiedOnce, SpentIsRecorded, isInputSpent, dbVars, txRecords, notifierVars

\* MarkTxVerified keeps the index intact, also for a transaction that was
\* removed while it was being verified.
LEMMA MarkIndexInv ==
    ASSUME IndexInv, NEW j \in jobs, MarkTxVerified(j)
    PROVE  IndexInv'
<1>1. j \in Jobs /\ j.tx \in TxIds /\ j.header \in Headers /\ j.tx \in BlockTxs[j.header]
  BY DEF IndexInv, TypeOK, JobsSound, MarkTxVerified, Jobs
<1>2. TypeOK'
  BY <1>1 DEF IndexInv, TypeOK, MarkTxVerified, notifierVars
<1>3. VerifiedInBlock'
  BY <1>1, ConstantsAssumption DEF IndexInv, TypeOK, VerifiedInBlock, MarkTxVerified
<1>4. HistoriesIndexed' /\ InputsIndexed' /\ OutputsIndexed' /\ SpentIsRecorded'
  BY DEF IndexInv, HistoriesIndexed, InputsIndexed, OutputsIndexed, SpentIsRecorded, isInputSpent, MarkTxVerified
<1>5. NoneForgotten' /\ NotifiedOnce'
  BY DEF IndexInv, NoneForgotten, NotifiedOnce, MarkTxVerified, notifierVars
<1>6. JobsSound'
  BY DEF IndexInv, JobsSound, MarkTxVerified
<1> QED
  BY <1>2, <1>3, <1>4, <1>5, <1>6 DEF IndexInv

\* So does a crash in the middle of an update.
LEMMA CrashIndexInv ==
    ASSUME IndexInv, NEW a \in Addrs, NEW h \in Histories, CrashInUpdate(a, h)
    PROVE  IndexInv'
<1>1. DOMAIN h \subseteq TxIds
  BY UpdateSets DEF IndexInv
<1>2. PICK D \in SUBSET Emptied(a, h), P \in SUBSET DOMAIN h : NotifierWrites(D, P)
  BY DEF CrashInUpdate
<1>3. unnotified' \in SUBSET TxIds /\ seen' \in SUBSET TxIds /\ NotifiedOnce'
  BY <1>1, <1>2 DEF IndexInv, TypeOK, NotifiedOnce, NotifierWrites
<1>4. jobs' = {} /\ UNCHANGED dbVars
  BY DEF CrashInUpdate
<1> QED
  BY <1>3, <1>4 DEF IndexInv, TypeOK, HistoriesIndexed, InputsIndexed, OutputsIndexed, VerifiedInBlock,
     NoneForgotten, SpentIsRecorded, JobsSound, isInputSpent, dbVars, txRecords

\* An empty database is consistent.
LEMMA IndexInitInv == IndexInit => IndexInv
<1> SUFFICES ASSUME IndexInit PROVE IndexInv
  OBVIOUS
<1> USE ConstantsAssumption
<1>1. [t \in {} |-> 0] \in Histories
  <2>1. [t \in {} |-> 0] \in [{} -> Heights]
    OBVIOUS
  <2> QED
    BY <2>1 DEF Histories
<1>2. TypeOK
  BY <1>1 DEF IndexInit, TypeOK
<1>3. HistoriesIndexed
  BY DEF IndexInit, HistoriesIndexed
<1> QED
  BY <1>2, <1>3 DEF IndexInit, IndexInv, InputsIndexed, isInputSpent, OutputsIndexed, VerifiedInBlock,
     NoneForgotten, NotifiedOnce, SpentIsRecorded, JobsSound

\* Every step keeps the index consistent.
LEMMA IndexNextInv == IndexInv /\ [IndexNext]_indexVars => IndexInv'
<1> SUFFICES ASSUME IndexInv, [IndexNext]_indexVars PROVE IndexInv'
  OBVIOUS
<1>1. ASSUME NEW a \in Addrs, NEW h \in Histories, UpdateAddressHistory(a, h)
      PROVE  IndexInv'
  <2>1. TypeOK'
    BY <1>1, UpdateTypeOK DEF IndexInv
  <2> QED
    BY <1>1, <2>1, UpdateHistoriesIndexed, UpdateInputsOutputs, UpdateVerification DEF IndexInv
<1>2. ASSUME \/ verifyTransactions
             \/ \E j \in jobs, hdr \in Headers \cup {NoHeader} : GetHeader(j, hdr)
             \/ \E j \in jobs, ok \in BOOLEAN : GetMerkle(j, ok)
             \/ \E J \in SUBSET jobs : JobsEnd(J)
      PROVE  IndexInv'
  BY <1>2, VerifyIndexInv
<1>3. ASSUME NEW j \in jobs, MarkTxVerified(j) PROVE IndexInv'
  BY <1>3, MarkIndexInv
<1>4. CASE MarkAllNotified
  BY <1>4 DEF MarkAllNotified, dbVars, txRecords, IndexInv, TypeOK, HistoriesIndexed, InputsIndexed,
     isInputSpent, OutputsIndexed, VerifiedInBlock, NoneForgotten, NotifiedOnce, SpentIsRecorded, JobsSound
<1>5. ASSUME NEW a \in Addrs, NEW h \in Histories, CrashInUpdate(a, h)
      PROVE  IndexInv'
  BY <1>5, CrashIndexInv
<1>6. CASE UNCHANGED indexVars
  BY <1>6 DEF indexVars, notifierVars, dbVars, txRecords, IndexInv, TypeOK, HistoriesIndexed, InputsIndexed,
     isInputSpent, OutputsIndexed, VerifiedInBlock, NoneForgotten, NotifiedOnce, SpentIsRecorded, JobsSound
<1> QED
  BY <1>1, <1>2, <1>3, <1>4, <1>5, <1>6 DEF IndexNext

\* The inductive invariant of the transaction index, for every wallet and every
\* sequence of server replies.
THEOREM IndexInvariance == IndexSpec => []IndexInv
<1> QED
  BY IndexInitInv, IndexNextInv, PTL DEF IndexSpec

\* removeTxForAddress, which dereferences the stored body of whatever the
\* previous history lists, always finds one.
THEOREM HistoriesIndexedHolds == IndexSpec => []HistoriesIndexed
<1>1. IndexInv => HistoriesIndexed
  BY DEF IndexInv
<1> QED
  BY IndexInvariance, <1>1, PTL

\* No coin of ours is hidden by a transaction that was removed, Balance and SpendableOutputs
\* always find the transaction that created an output, and in a wallet without double
\* spends every spent output is recorded as spent.
THEOREM CoinsIndexedHolds == IndexSpec => []CoinsIndexed
<1>1. IndexInv => CoinsIndexed
  BY DEF IndexInv, CoinsIndexed
<1> QED
  BY IndexInvariance, <1>1, PTL

\* A confirmation time always comes from a block that contains the transaction, and no
\* stored transaction is lost to verification: what is not verified is on the list.
THEOREM VerificationSoundHolds == IndexSpec => []VerificationSound
<1>1. IndexInv => VerificationSound
  BY DEF IndexInv, VerificationSound
<1> QED
  BY IndexInvariance, <1>1, PTL

\* The notifier never announces a transaction a second time, crashes in the middle of
\* an update included.
THEOREM NotifiedOnceHolds == IndexSpec => []NotifiedOnce
<1>1. IndexInv => NotifiedOnce
  BY DEF IndexInv
<1> QED
  BY IndexInvariance, <1>1, PTL

\* The buckets hold what they are meant to hold, whatever histories a server sends.
THEOREM IndexTypeCorrect == IndexSpec => []TypeOK
<1>1. IndexInv => TypeOK
  BY DEF IndexInv
<1> QED
  BY IndexInvariance, <1>1, PTL

-----------------------------------------------------------------------------
(* AccountSync                                                             *)

\* What the server answers is a history.
LEMMA ServerHistoryType ==
    ASSUME SyncTypeOK, NEW a \in Addrs
    PROVE  ServerHistory(a) \in Histories
<1> USE ConstantsAssumption, ChainsAssumption
<1> DEFINE S == Touching(a) \cap Present
<1>1. S \in SUBSET TxIds
  BY DEF Touching
<1>2. ASSUME NEW t \in S, t \notin mempool PROVE ConfirmedAt(t) \in Heights
  <2>1. Branch[tip] \subseteq Headers
    BY DEF SyncTypeOK
  <2>2. \E b \in Branch[tip] : t \in BlockTxs[b]
    BY <1>2 DEF Present, Mined
  <2>3. (CHOOSE b \in Branch[tip] : t \in BlockTxs[b]) \in Branch[tip]
    BY <2>2
  <2> QED
    BY <2>1, <2>3 DEF ConfirmedAt
<1>3. ServerHistory(a) = [t \in S |-> IF t \in mempool THEN 0 ELSE ConfirmedAt(t)]
  BY DEF ServerHistory
<1>4. ServerHistory(a) \in [S -> Heights]
  BY <1>2, <1>3
<1> QED
  BY <1>1, <1>4 DEF Histories

\* The header that verifyTransaction gets is one of that height.
LEMMA LocalHeaderType ==
    ASSUME SyncTypeOK, NEW h
    PROVE  /\ LocalHeader(h) \in Headers \cup {NoHeader}
           /\ LocalHeader(h) # NoHeader => HeaderHeight[LocalHeader(h)] = h
<1> USE ConstantsAssumption, ChainsAssumption
<1>1. Branch[localTip] \subseteq Headers
  BY DEF SyncTypeOK
<1>2. CASE \E b \in Branch[localTip] : HeaderHeight[b] = h
  <2> DEFINE c == CHOOSE b \in Branch[localTip] : HeaderHeight[b] = h
  <2>1. c \in Branch[localTip] /\ HeaderHeight[c] = h
    BY <1>2
  <2>2. LocalHeader(h) = c
    BY <1>2 DEF LocalHeader
  <2> HIDE DEF c
  <2> QED
    BY <1>1, <2>1, <2>2
<1>3. CASE ~ \E b \in Branch[localTip] : HeaderHeight[b] = h
  BY <1>3 DEF LocalHeader
<1> QED
  BY <1>2, <1>3

\* Where a goroutine is tells what it holds.
LEMMA ProcHolds ==
    ASSUME SyncTypeOK, NEW p \in Procs
    PROVE  /\ procs[p].pc # "idle" => procs[p].addr \in Addrs
           /\ procs[p].pc \in {"got", "apply"} => procs[p] \in [pc : {"got", "apply"}, addr : Addrs, hist : Histories]
<1>1. procs[p] \in ProcStates
  BY DEF SyncTypeOK
<1> QED
  BY <1>1 DEF ProcStates

\* A step replaces the state of one goroutine.
LEMMA ProcStep ==
    ASSUME SyncTypeOK, NEW p \in Procs, NEW e \in ProcStates, procs' = [procs EXCEPT ![p] = e],
           UNCHANGED <<tip, localTip>>
    PROVE  SyncTypeOK'
  BY DEF SyncTypeOK

\* Goroutines only ever hold histories of addresses of the account.
LEMMA SyncTypeStep == SyncTypeOK /\ [Next]_vars => SyncTypeOK'
<1> SUFFICES ASSUME SyncTypeOK, [Next]_vars PROVE SyncTypeOK'
  OBVIOUS
<1>0. Idle \in ProcStates
  BY DEF Idle, ProcStates
<1>1. ASSUME NEW t \in TxIds, Broadcast(t) PROVE SyncTypeOK'
  BY <1>1 DEF Broadcast, SyncTypeOK, headersVars, accountVars
<1>2. ASSUME NEW b \in Headers, NewBlock(b) PROVE SyncTypeOK'
  BY <1>2 DEF NewBlock, SyncTypeOK, headersVars, accountVars
<1>3. CASE HeadersSync
  <2>1. localTip' = tip /\ UNCHANGED <<tip, procs>>
    BY <1>3, Zenon DEF HeadersSync, serverVars, accountVars
  <2> QED
    BY <2>1 DEF SyncTypeOK
<1>4. ASSUME NEW p \in Procs, NEW a \in Addrs, Notify(p, a) PROVE SyncTypeOK'
  <2>1. [pc |-> "start", addr |-> a, status |-> ServerHistory(a)] \in ProcStates
    BY ServerHistoryType DEF ProcStates
  <2>2. procs' = [procs EXCEPT ![p] = [pc |-> "start", addr |-> a, status |-> ServerHistory(a)]]
        /\ UNCHANGED <<tip, localTip>>
    BY <1>4, Zenon DEF Notify, headersVars
  <2> QED
    BY <2>1, <2>2, ProcStep
<1>5. ASSUME NEW p \in Procs, Start(p) PROVE SyncTypeOK'
  <2>1. [pc |-> "fetch", addr |-> procs[p].addr] \in ProcStates
    BY <1>5, ProcHolds DEF Start, ProcStates
  <2>2. /\ UNCHANGED <<tip, localTip>>
        /\ \/ procs' = [procs EXCEPT ![p] = Idle]
           \/ procs' = [procs EXCEPT ![p] = [pc |-> "fetch", addr |-> procs[p].addr]]
    BY <1>5, Zenon DEF Start, End, serverVars, headersVars
  <2> QED
    BY <1>0, <2>1, <2>2, ProcStep
<1>6. ASSUME NEW p \in Procs, NEW ok \in BOOLEAN, Fetch(p, ok) PROVE SyncTypeOK'
  <2>1. procs[p].addr \in Addrs
    BY <1>6, ProcHolds DEF Fetch
  <2>2. [pc |-> "got", addr |-> procs[p].addr, hist |-> ServerHistory(procs[p].addr)] \in ProcStates
    BY <2>1, ServerHistoryType DEF ProcStates
  <2>3. /\ UNCHANGED <<tip, localTip>>
        /\ \/ procs' = [procs EXCEPT ![p] = Idle]
           \/ procs' = [procs EXCEPT ![p] = [pc |-> "got", addr |-> procs[p].addr,
                                             hist |-> ServerHistory(procs[p].addr)]]
    BY <1>6, Zenon DEF Fetch, End, serverVars, headersVars
  <2> QED
    BY <1>0, <2>2, <2>3, ProcStep
<1>7. ASSUME NEW p \in Procs, Got(p) PROVE SyncTypeOK'
  <2>1. procs[p] \in [pc : {"got", "apply"}, addr : Addrs, hist : Histories]
    BY <1>7, ProcHolds DEF Got
  <2>2. [procs[p] EXCEPT !.pc = "apply"] \in ProcStates
    BY <2>1 DEF ProcStates
  <2>3. procs' = [procs EXCEPT ![p] = Idle] \/ procs' = [procs EXCEPT ![p].pc = "apply"]
    BY <1>7, Zenon DEF Got, End
  <2>4. [procs EXCEPT ![p].pc = "apply"] = [procs EXCEPT ![p] = [procs[p] EXCEPT !.pc = "apply"]]
    BY DEF SyncTypeOK
  <2>5. UNCHANGED <<tip, localTip>>
    BY <1>7, Zenon DEF Got, serverVars, headersVars
  <2> QED
    BY <1>0, <2>2, <2>3, <2>4, <2>5, ProcStep
<1>8. ASSUME NEW p \in Procs, Apply(p) PROVE SyncTypeOK'
  <2>1. [pc |-> "ensure", addr |-> procs[p].addr] \in ProcStates
    BY <1>8, ProcHolds DEF Apply, ProcStates
  <2>2. procs' = [procs EXCEPT ![p] = [pc |-> "ensure", addr |-> procs[p].addr]]
        /\ UNCHANGED <<tip, localTip>>
    BY <1>8, Zenon DEF Apply, serverVars, headersVars
  <2> QED
    BY <2>1, <2>2, ProcStep
<1>9. ASSUME NEW p \in Procs, Ensure(p) PROVE SyncTypeOK'
  <2>1. procs' = [procs EXCEPT ![p] = Idle] /\ UNCHANGED <<tip, localTip>>
    BY <1>9, Zenon DEF Ensure, End, serverVars, headersVars
  <2> QED
    BY <1>0, <2>1, ProcStep
<1>10. CASE HandleSynced \/ Verify \/ Close \/ Failover \/ GetUnused
  <2>1. UNCHANGED <<tip, localTip, procs>>
    BY <1>10, Zenon DEF HandleSynced, Verify, Close, Failover, GetUnused, serverVars, headersVars, accountVars
  <2> QED
    BY <2>1 DEF SyncTypeOK
<1>11. CASE Restart
  <2>1. procs' = [p \in Procs |-> Idle] /\ UNCHANGED <<tip, localTip>>
    BY <1>11, Zenon DEF Restart
  <2> QED
    BY <1>0, <2>1 DEF SyncTypeOK
<1>12. CASE UNCHANGED vars
  BY <1>12 DEF vars, serverVars, headersVars, accountVars, SyncTypeOK
<1> QED
  BY <1>1, <1>2, <1>3, <1>4, <1>5, <1>6, <1>7, <1>8, <1>9, <1>10, <1>11, <1>12 DEF Next

\* Every step of the account is a step of the index or leaves it alone.
LEMMA IndexStep == SyncTypeOK /\ [Next]_vars => [IndexNext]_indexVars
<1> SUFFICES ASSUME SyncTypeOK, [Next]_vars PROVE [IndexNext]_indexVars
  OBVIOUS
<1>1. ASSUME NEW p \in Procs, procs[p].pc = "apply"
      PROVE  procs[p].addr \in Addrs /\ procs[p].hist \in Histories
  BY <1>1, ProcHolds
<1>2. ASSUME NEW p \in Procs, Apply(p) PROVE [IndexNext]_indexVars
  <2>1. procs[p].addr \in Addrs /\ procs[p].hist \in Histories
    BY <1>1, <1>2 DEF Apply
  <2>2. UpdateAddressHistory(procs[p].addr, procs[p].hist) \/ UNCHANGED indexVars
    BY <1>2, Zenon DEF Apply
  <2> QED
    BY <2>1, <2>2, Zenon DEF IndexNext
<1>3. CASE HandleSynced
  <2>1. verifyTransactions \/ UNCHANGED indexVars
    BY <1>3, Zenon DEF HandleSynced
  <2> QED
    BY <2>1, Zenon DEF IndexNext
<1>4. CASE Verify
  <2>1. PICK j \in jobs :
          \/ GetHeader(j, LocalHeader(j.height))
          \/ GetMerkle(j, MerkleOk(j))
          \/ GetMerkle(j, FALSE)
          \/ MarkTxVerified(j)
          \/ jobs' = jobs \ {j} /\ UNCHANGED <<dbVars, notifierVars>>
    BY <1>4, Zenon DEF Verify
  <2>2. CASE GetHeader(j, LocalHeader(j.height))
    <3>1. /\ LocalHeader(j.height) \in Headers \cup {NoHeader}
          /\ LocalHeader(j.height) # NoHeader => HeaderHeight[LocalHeader(j.height)] = j.height
      BY LocalHeaderType
    <3> QED
      BY <2>2, <3>1, Zenon DEF IndexNext
  <2>3. CASE GetMerkle(j, MerkleOk(j)) \/ GetMerkle(j, FALSE)
    <3>1. MerkleOk(j) \in BOOLEAN
      BY DEF MerkleOk
    <3> QED
      BY <2>3, <3>1, Zenon DEF IndexNext
  <2>4. CASE MarkTxVerified(j)
    BY <2>4, Zenon DEF IndexNext
  <2>5. CASE jobs' = jobs \ {j} /\ UNCHANGED <<dbVars, notifierVars>>
    <3>1. jobs \ {j} \in SUBSET jobs /\ jobs \ {j} # jobs
      OBVIOUS
    <3>2. JobsEnd(jobs \ {j})
      BY <2>5, <3>1, Zenon DEF JobsEnd
    <3> QED
      BY <3>1, <3>2, Zenon DEF IndexNext
  <2> QED
    BY <2>1, <2>2, <2>3, <2>4, <2>5, Zenon
<1>5. CASE Restart
  <2>1. \/ jobs' = {} /\ UNCHANGED <<dbVars, notifierVars>>
        \/ \E p \in Procs : procs[p].pc = "apply" /\ CrashInUpdate(procs[p].addr, procs[p].hist)
    BY <1>5, Zenon DEF Restart
  <2>2. CASE jobs' = {} /\ UNCHANGED <<dbVars, notifierVars>>
    <3>1. CASE jobs = {}
      BY <2>2, <3>1 DEF indexVars
    <3>2. CASE jobs # {}
      <4>1. JobsEnd({}) /\ {} \in SUBSET jobs
        BY <2>2, <3>2, Zenon DEF JobsEnd
      <4> QED
        BY <4>1, Zenon DEF IndexNext
    <3> QED
      BY <3>1, <3>2
  <2>3. CASE \E p \in Procs : procs[p].pc = "apply" /\ CrashInUpdate(procs[p].addr, procs[p].hist)
    BY <1>1, <2>3, Zenon DEF IndexNext
  <2> QED
    BY <2>1, <2>2, <2>3, Zenon
<1>6. CASE UNCHANGED vars
  BY <1>6 DEF vars
<1>7. CASE \/ \E t \in TxIds : Broadcast(t)
           \/ \E b \in Headers : NewBlock(b)
           \/ HeadersSync \/ Close \/ Failover \/ GetUnused
           \/ \E p \in Procs : \/ \E a \in Addrs : Notify(p, a)
                               \/ Start(p) \/ Got(p) \/ Ensure(p)
                               \/ \E ok \in BOOLEAN : Fetch(p, ok)
  <2>1. UNCHANGED indexVars
    BY <1>7, Zenon DEF Broadcast, NewBlock, HeadersSync, Close, Failover, GetUnused, Notify, Start, Got, Ensure, Fetch
  <2> QED
    BY <2>1
<1> QED
  BY <1>2, <1>3, <1>4, <1>5, <1>6, <1>7, Zenon DEF Next

\* Nothing runs before the first notification.
LEMMA InitSyncType == Init => SyncTypeOK
<1> SUFFICES ASSUME Init PROVE SyncTypeOK
  OBVIOUS
<1>1. tip = NoHeader /\ localTip = NoHeader /\ procs = [p \in Procs |-> Idle]
  BY Zenon DEF Init
<1> QED
  BY <1>1 DEF SyncTypeOK, ProcStates, Idle

\* The account implements the transaction index.
THEOREM Refinement == Spec => IndexSpec
<1>1. Init => IndexInit
  BY DEF Init
<1>2. Init => SyncTypeOK
  BY InitSyncType
<1> QED
  BY <1>1, <1>2, SyncTypeStep, IndexStep, PTL DEF Spec, IndexSpec

\* So whatever an account does, its index stays consistent.
THEOREM AccountIndexConsistent == Spec => []IndexInv
  BY Refinement, IndexInvariance, PTL

-----------------------------------------------------------------------------
(* The gap limit                                                           *)

\* The loop in ensureAddresses ends with a chain that is long enough.
LEMMA EnsuredLenIsEnough ==
    ASSUME NEW c \in Chains, NEW n \in Nat, n <= Len(ChainAddrs[c])
    PROVE  /\ EnsuredLen(c, n) \in Nat
           /\ n <= EnsuredLen(c, n) /\ EnsuredLen(c, n) <= Len(ChainAddrs[c])
           /\ \/ unusedTailCount(c, EnsuredLen(c, n)) >= GapLimit[c]
              \/ EnsuredLen(c, n) = Len(ChainAddrs[c])
<1> DEFINE enough == {m \in n..Len(ChainAddrs[c]) : unusedTailCount(c, m) >= GapLimit[c]}
           m == CHOOSE x \in enough : \A k \in enough : x <= k
<1>1. Len(ChainAddrs[c]) \in Nat
  BY ChainsAssumption
<1>2. CASE enough = {}
  <2>1. EnsuredLen(c, n) = Len(ChainAddrs[c])
    BY <1>2, Zenon DEF EnsuredLen
  <2> QED
    BY <1>1, <2>1
<1>3. CASE enough # {}
  <2>1. EnsuredLen(c, n) = m
    BY <1>3, Zenon DEF EnsuredLen
  <2>2. enough \subseteq Nat
    BY <1>1
  <2>3. \E x \in enough : \A k \in enough : x <= k
    BY <1>3, <2>2, LeastNat, Zenon
  <2>4. m \in enough
    BY <2>3, Zenon
  <2>5. m \in n..Len(ChainAddrs[c]) /\ unusedTailCount(c, m) >= GapLimit[c]
    BY <2>4, Zenon
  <2> HIDE DEF m
  <2> QED
    BY <1>1, <2>1, <2>5
<1> QED
  BY <1>2, <1>3

\* A used address is followed by at least as many addresses as the unused tail has.
LEMMA TailAfterUsed ==
    ASSUME NEW c \in Chains, NEW n \in Nat, NEW i \in 1..n, isAddressUsed(ChainAddrs[c][i])
    PROVE  unusedTailCount(c, n) \in Nat /\ i + unusedTailCount(c, n) <= n
<1> DEFINE tail == {j \in 1..n : \A k \in j..n : ~isAddressUsed(ChainAddrs[c][k])}
<1>1. tail \subseteq (i + 1)..n
  <2> SUFFICES ASSUME NEW j \in tail, ~ (j > i) PROVE FALSE
    OBVIOUS
  <2>1. i \in j..n
    OBVIOUS
  <2> QED
    BY <2>1
<1>2. IsFiniteSet((i + 1)..n) /\ Cardinality((i + 1)..n) = IF i + 1 > n THEN 0 ELSE n - (i + 1) + 1
  BY FS_Interval
<1>3. IsFiniteSet(tail) /\ Cardinality(tail) <= Cardinality((i + 1)..n)
  BY <1>1, <1>2, FS_Subset, Zenon
<1>4. Cardinality(tail) \in Nat
  BY <1>3, FS_CardinalityType
<1>5. unusedTailCount(c, n) = Cardinality(tail)
  BY Zenon DEF unusedTailCount
<1> QED
  BY <1>2, <1>3, <1>4, <1>5

\* A chain on which nothing was ever used: its tail is all of it.
LEMMA TailOfUnused ==
    ASSUME NEW c \in Chains, NEW n \in Nat, n <= Len(ChainAddrs[c]),
           \A a \in Addrs : ~isAddressUsed(a)
    PROVE  unusedTailCount(c, n) = n
<1>1. \A k \in 1..n : ~isAddressUsed(ChainAddrs[c][k])
  BY ChainsAssumption
<1>2. {j \in 1..n : \A k \in j..n : ~isAddressUsed(ChainAddrs[c][k])} = 1..n
  BY <1>1
<1>3. Cardinality(1..n) = n
  BY FS_Interval
<1> QED
  BY <1>2, <1>3 DEF unusedTailCount

\* A step that leaves the chains alone, drops no subscription, and does not hide
\* from the account that a history was stored.
LEMMA GapQuiet ==
    ASSUME GapInv, UNCHANGED chainLen,
           sub' \in [Addrs -> SubStates],
           \A a \in Addrs : sub[a] # "none" => sub'[a] # "none",
           closing' = "open" /\ (\A p \in Procs : procs'[p].pc # "ensure")
           => /\ closing = "open" /\ \A p \in Procs : procs[p].pc # "ensure"
              /\ UNCHANGED addressHistories
    PROVE  GapInv'
<1>1. /\ chainLen' \in [Chains -> Nat]
      /\ \A c \in Chains : chainLen'[c] <= Len(ChainAddrs[c])
  BY DEF GapInv
<1>2. ASSUME NEW c \in Chains, NEW i \in 1..chainLen'[c] PROVE sub'[ChainAddrs[c][i]] # "none"
  <2>1. i \in 1..Len(ChainAddrs[c])
    BY <1>1, ChainsAssumption
  <2>2. ChainAddrs[c][i] \in Addrs
    BY <2>1, ChainsAssumption
  <2> QED
    BY <2>2 DEF GapInv
<1>3. ASSUME closing' = "open", \A p \in Procs : procs'[p].pc # "ensure" PROVE GapKept'
  <2>1. GapKept /\ UNCHANGED <<chainLen, addressHistories>>
    BY <1>3 DEF GapInv
  <2> QED
    BY <2>1 DEF GapKept, unusedTailCount, isAddressUsed
<1> QED
  BY <1>1, <1>2, <1>3 DEF GapInv

\* A step of one goroutine that is not in ensureAddresses.
LEMMA GapProc ==
    ASSUME SyncTypeOK, GapInv, NEW p \in Procs, NEW e, procs[p].pc # "ensure",
           procs' = [procs EXCEPT ![p] = e],
           UNCHANGED <<chainLen, closing>>, UNCHANGED addressHistories \/ e.pc = "ensure",
           sub' \in [Addrs -> SubStates],
           \A a \in Addrs : sub[a] # "none" => sub'[a] # "none"
    PROVE  GapInv'
<1>1. procs'[p] = e /\ \A q \in Procs \ {p} : procs'[q] = procs[q]
  BY DEF SyncTypeOK
<1> QED
  BY <1>1, GapQuiet

\* ensureAddresses establishes the gap on every chain, from whatever the database has.
LEMMA GapEnsured ==
    ASSUME NEW n \in [Chains -> Nat], \A c \in Chains : n[c] <= Len(ChainAddrs[c]),
           chainLen' = [c \in Chains |-> EnsuredLen(c, n[c])],
           UNCHANGED addressHistories
    PROVE  /\ chainLen' \in [Chains -> Nat]
           /\ \A c \in Chains : n[c] <= chainLen'[c] /\ chainLen'[c] <= Len(ChainAddrs[c])
           /\ GapKept'
<1>1. ASSUME NEW c \in Chains
      PROVE  /\ chainLen'[c] \in Nat /\ n[c] <= chainLen'[c] /\ chainLen'[c] <= Len(ChainAddrs[c])
             /\ \/ unusedTailCount(c, chainLen'[c]) >= GapLimit[c]
                \/ chainLen'[c] = Len(ChainAddrs[c])
  <2>1. chainLen'[c] = EnsuredLen(c, n[c])
    OBVIOUS
  <2> QED
    BY <2>1, EnsuredLenIsEnough
<1>2. GapKept'
  BY <1>1 DEF GapKept, unusedTailCount, isAddressUsed
<1>3. chainLen' \in [Chains -> Nat]
  BY <1>1
<1> QED
  BY <1>1, <1>2, <1>3

\* Initialize leaves each chain with gapLimit addresses, none of them used.
LEMMA GapInit == Init => GapInv
<1> SUFFICES ASSUME Init PROVE GapInv
  OBVIOUS
<1>1. /\ chainLen = [c \in Chains |-> GapLimit[c]]
      /\ sub = [a \in Addrs |-> IF \E c \in Chains : a \in {ChainAddrs[c][i] : i \in 1..GapLimit[c]}
                                THEN "pending" ELSE "none"]
      /\ addressHistories = [a \in Addrs |-> [t \in {} |-> 0]]
  BY Zenon DEF Init, IndexInit
<1>2. \A c \in Chains : /\ chainLen[c] \in Nat /\ chainLen[c] = GapLimit[c]
                        /\ GapLimit[c] <= Len(ChainAddrs[c])
  BY <1>1, ChainsAssumption
<1>3. \A a \in Addrs : ~isAddressUsed(a)
  BY <1>1 DEF isAddressUsed
<1>4. GapKept
  <2> SUFFICES ASSUME NEW c \in Chains PROVE unusedTailCount(c, chainLen[c]) >= GapLimit[c]
    BY DEF GapKept
  <2>1. unusedTailCount(c, chainLen[c]) = chainLen[c]
    BY <1>2, <1>3, TailOfUnused
  <2> QED
    BY <1>2, <2>1
<1>5. ASSUME NEW c \in Chains, NEW i \in 1..chainLen[c] PROVE sub[ChainAddrs[c][i]] # "none"
  <2>1. i \in 1..GapLimit[c] /\ i \in 1..Len(ChainAddrs[c])
    BY <1>2, ChainsAssumption
  <2>2. ChainAddrs[c][i] \in Addrs
    BY <2>1, ChainsAssumption
  <2> QED
    BY <1>1, <2>1, <2>2
<1>6. chainLen \in [Chains -> Nat] /\ sub \in [Addrs -> SubStates]
  BY <1>1, <1>2 DEF SubStates
<1> QED
  BY <1>2, <1>4, <1>5, <1>6 DEF GapInv

\* Every step keeps the gap, or leaves a goroutine that will restore it.
LEMMA GapStep == SyncTypeOK /\ GapInv /\ [Next]_vars => GapInv'
<1> SUFFICES ASSUME SyncTypeOK, GapInv, [Next]_vars PROVE GapInv'
  OBVIOUS
<1>0. sub \in [Addrs -> SubStates]
  BY DEF GapInv
<1>1. CASE \/ \E t \in TxIds : Broadcast(t)
           \/ \E b \in Headers : NewBlock(b)
           \/ HeadersSync \/ GetUnused \/ UNCHANGED vars
  <2>1. UNCHANGED <<chainLen, sub, procs, closing, addressHistories>>
    BY <1>1, Zenon DEF Broadcast, NewBlock, HeadersSync, GetUnused, vars, accountVars, indexVars, dbVars
  <2> QED
    BY <1>0, <2>1, GapQuiet
<1>2. CASE HandleSynced \/ Verify
  <2>1. UNCHANGED <<chainLen, sub, procs, closing>>
    BY <1>2, Zenon DEF HandleSynced, Verify
  <2>2. UNCHANGED addressHistories
    BY <1>2, Zenon DEF HandleSynced, Verify, verifyTransactions, GetHeader, GetMerkle, MarkTxVerified, indexVars, dbVars
  <2> QED
    BY <1>0, <2>1, <2>2, GapQuiet
<1>3. ASSUME NEW p \in Procs, NEW a \in Addrs, Notify(p, a) PROVE GapInv'
  <2>1. /\ procs[p].pc = "idle"
        /\ procs' = [procs EXCEPT ![p] = [pc |-> "start", addr |-> a, status |-> ServerHistory(a)]]
        /\ sub' = [sub EXCEPT ![a] = "active"]
        /\ UNCHANGED <<chainLen, closing, addressHistories>>
    BY <1>3, Zenon DEF Notify, indexVars, dbVars
  <2>2. sub' \in [Addrs -> SubStates] /\ \A b \in Addrs : sub[b] # "none" => sub'[b] # "none"
    BY <1>0, <2>1 DEF SubStates
  <2> QED
    BY <2>1, <2>2, GapProc
<1>4. ASSUME NEW p \in Procs, Start(p) \/ (\E ok \in BOOLEAN : Fetch(p, ok)) \/ Got(p) PROVE GapInv'
  <2>1. /\ procs[p].pc \in {"start", "fetch", "got"}
        /\ UNCHANGED <<chainLen, sub, closing, addressHistories>>
    BY <1>4, Zenon DEF Start, Fetch, Got, indexVars, dbVars
  <2>2. PICK e : procs' = [procs EXCEPT ![p] = e]
    <3>1. CASE Start(p) \/ \E ok \in BOOLEAN : Fetch(p, ok)
      BY <3>1, Zenon DEF Start, Fetch, End
    <3>2. CASE Got(p)
      BY <3>2 DEF Got, End, SyncTypeOK
    <3> QED
      BY <1>4, <3>1, <3>2
  <2>3. procs[p].pc # "ensure"
    BY <2>1
  <2> QED
    BY <1>0, <2>1, <2>2, <2>3, GapProc
<1>5. ASSUME NEW p \in Procs, Apply(p) PROVE GapInv'
  <2>1. /\ procs[p].pc = "apply"
        /\ procs' = [procs EXCEPT ![p] = [pc |-> "ensure", addr |-> procs[p].addr]]
        /\ UNCHANGED <<chainLen, sub, closing>>
    BY <1>5, Zenon DEF Apply
  <2> QED
    BY <1>0, <2>1, GapProc
<1>6. ASSUME NEW p \in Procs, Ensure(p), ensureAddresses PROVE GapInv'
  <2>1. /\ chainLen' = [c \in Chains |-> EnsuredLen(c, chainLen[c])]
        /\ sub' = [a \in Addrs |-> IF \E c \in Chains : a \in {ChainAddrs[c][i] : i \in chainLen[c]+1..chainLen'[c]}
                                   THEN "pending" ELSE sub[a]]
        /\ UNCHANGED addressHistories
    BY <1>6, Zenon DEF Ensure, ensureAddresses, indexVars, dbVars
  <2>2. /\ chainLen \in [Chains -> Nat] /\ chainLen' \in [Chains -> Nat]
        /\ \A c \in Chains : chainLen[c] <= chainLen'[c] /\ chainLen'[c] <= Len(ChainAddrs[c])
        /\ GapKept'
    BY <2>1, GapEnsured DEF GapInv
  <2>3. ASSUME NEW c \in Chains, NEW i \in 1..chainLen'[c] PROVE sub'[ChainAddrs[c][i]] # "none"
    <3>1. i \in 1..Len(ChainAddrs[c])
      BY <2>2, ChainsAssumption
    <3>2. ChainAddrs[c][i] \in Addrs
      BY <3>1, ChainsAssumption
    <3>3. CASE i \in 1..chainLen[c]
      BY <2>1, <3>2, <3>3 DEF GapInv
    <3>4. CASE i \in chainLen[c]+1..chainLen'[c]
      BY <2>1, <3>2, <3>4
    <3> QED
      BY <2>2, <3>3, <3>4
  <2>4. sub' \in [Addrs -> SubStates]
    BY <1>0, <2>1 DEF SubStates
  <2> QED
    BY <2>2, <2>3, <2>4 DEF GapInv
<1>7. ASSUME NEW p \in Procs, Ensure(p), ~ensureAddresses PROVE GapInv'
  <2>1. closing' = "closed" /\ UNCHANGED <<chainLen, sub>>
    BY <1>7, Zenon DEF Ensure
  <2> QED
    BY <1>0, <2>1, GapQuiet
<1>8. CASE Close
  <2>1. closing' # "open" /\ UNCHANGED <<chainLen, sub>>
    BY <1>8 DEF Close
  <2> QED
    BY <1>0, <2>1, GapQuiet
<1>9. CASE Failover
  <2>1. /\ sub' = [a \in Addrs |-> IF sub[a] = "active" THEN "pending" ELSE sub[a]]
        /\ UNCHANGED <<chainLen, procs, closing, addressHistories>>
    BY <1>9, Zenon DEF Failover, indexVars, dbVars
  <2>2. sub' \in [Addrs -> SubStates] /\ \A a \in Addrs : sub[a] # "none" => sub'[a] # "none"
    BY <1>0, <2>1 DEF SubStates
  <2> QED
    BY <2>1, <2>2, GapQuiet
<1>10. CASE Restart
  <2>1. /\ chainLen' = [c \in Chains |-> EnsuredLen(c, 0)]
        /\ sub' = [a \in Addrs |-> IF \E c \in Chains : a \in {ChainAddrs[c][i] : i \in 1..chainLen'[c]}
                                   THEN "pending" ELSE "none"]
        /\ UNCHANGED addressHistories
    BY <1>10, Zenon DEF Restart, CrashInUpdate, dbVars
  <2> DEFINE none == [c \in Chains |-> 0]
  <2>2. /\ none \in [Chains -> Nat] /\ \A c \in Chains : none[c] <= Len(ChainAddrs[c])
        /\ chainLen' = [c \in Chains |-> EnsuredLen(c, none[c])]
    BY <2>1, ChainsAssumption
  <2>3. /\ chainLen' \in [Chains -> Nat]
        /\ \A c \in Chains : chainLen'[c] <= Len(ChainAddrs[c])
        /\ GapKept'
    BY <2>1, <2>2, GapEnsured
  <2>4. ASSUME NEW c \in Chains, NEW i \in 1..chainLen'[c] PROVE sub'[ChainAddrs[c][i]] # "none"
    <3>1. i \in 1..Len(ChainAddrs[c])
      BY <2>3, ChainsAssumption
    <3>2. ChainAddrs[c][i] \in Addrs
      BY <3>1, ChainsAssumption
    <3> QED
      BY <2>1, <3>2
  <2>5. sub' \in [Addrs -> SubStates]
    BY <2>1 DEF SubStates
  <2> QED
    BY <2>3, <2>4, <2>5 DEF GapInv
<1> QED
  BY <1>1, <1>2, <1>3, <1>4, <1>5, <1>6, <1>7, <1>8, <1>9, <1>10, Zenon DEF Next

\* While no subscription and no goroutine is outstanding the chains are long enough
\* and watched: the unused tail lies behind every used address.
LEMMA GapInvWatched == GapInv => GapWatched
<1> SUFFICES ASSUME GapInv, ~Busy, closing = "open"
             PROVE  /\ GapKept
                    /\ \A c \in Chains : \A i \in 1..chainLen[c], k \in 1..Len(ChainAddrs[c]) :
                        isAddressUsed(ChainAddrs[c][i]) /\ k <= i + GapLimit[c]
                        => ChainAddrs[c][k] \in Known(c) /\ sub[ChainAddrs[c][k]] = "active"
  BY Zenon DEF GapWatched
<1>1. (\A p \in Procs : procs[p].pc # "ensure") /\ (\A a \in Addrs : sub[a] # "pending")
  BY DEF Busy
<1>2. GapKept
  BY <1>1 DEF GapInv
<1>3. ASSUME NEW c \in Chains, NEW i \in 1..chainLen[c], NEW k \in 1..Len(ChainAddrs[c]),
             isAddressUsed(ChainAddrs[c][i]), k <= i + GapLimit[c]
      PROVE  ChainAddrs[c][k] \in Known(c) /\ sub[ChainAddrs[c][k]] = "active"
  <2>1. chainLen[c] \in Nat /\ GapLimit[c] \in Nat /\ ChainAddrs[c][k] \in Addrs
    BY ChainsAssumption DEF GapInv
  <2>2. unusedTailCount(c, chainLen[c]) \in Nat /\ i + unusedTailCount(c, chainLen[c]) <= chainLen[c]
    BY <1>3, <2>1, TailAfterUsed
  <2>3. k \in 1..chainLen[c]
    <3>1. CASE unusedTailCount(c, chainLen[c]) >= GapLimit[c]
      BY <1>3, <2>1, <2>2, <3>1
    <3>2. CASE chainLen[c] = Len(ChainAddrs[c])
      BY <3>2
    <3> QED
      BY <1>2, <3>1, <3>2 DEF GapKept
  <2>4. ChainAddrs[c][k] \in Known(c)
    BY <2>3 DEF Known
  <2>5. sub[ChainAddrs[c][k]] \in SubStates /\ sub[ChainAddrs[c][k]] # "none"
    BY <2>1, <2>3 DEF GapInv
  <2> QED
    BY <1>1, <2>1, <2>4, <2>5 DEF SubStates
<1> QED
  BY <1>2, <1>3

\* However many onAddressStatus goroutines run, whatever each of them stores, and
\* whenever the app dies: an idle account has the addresses within the gap limit
\* and is subscribed to them.
THEOREM GapWatchedHolds == Spec => []GapWatched
<1>1. Init => SyncTypeOK
  BY InitSyncType
<1> QED
  BY <1>1, GapInit, SyncTypeStep, GapStep, GapInvWatched, PTL DEF Spec

-----------------------------------------------------------------------------
(* Verification                                                            *)

\* A transaction is at one height of a branch.
LEMMA InChainUnique ==
    ASSUME SyncTypeOK, NEW t, NEW h, NEW k, InChain(t, h), InChain(t, k)
    PROVE  h = k
<1>1. PICK b \in Branch[tip] : HeaderHeight[b] = h /\ t \in BlockTxs[b]
  BY DEF InChain
<1>2. PICK d \in Branch[tip] : HeaderHeight[d] = k /\ t \in BlockTxs[d]
  BY DEF InChain
<1>3. tip \in Headers
  BY <1>1, ChainsAssumption DEF SyncTypeOK
<1>4. BlockTxs[b] \cap BlockTxs[d] # {}
  BY <1>1, <1>2
<1>5. b = d
  BY <1>3, <1>4, ChainsAssumption
<1> QED
  BY <1>1, <1>2, <1>5

\* The server reports the height of the block that has the transaction.
LEMMA ServerHeights ==
    ASSUME NEW a \in Addrs, NEW t \in DOMAIN ServerHistory(a), ServerHistory(a)[t] > 0
    PROVE  InChain(t, ServerHistory(a)[t])
<1>1. t \in Touching(a) \cap Present
  BY DEF ServerHistory
<1>2. ServerHistory(a)[t] = IF t \in mempool THEN 0 ELSE ConfirmedAt(t)
  BY <1>1 DEF ServerHistory
<1>3. t \notin mempool /\ ServerHistory(a)[t] = ConfirmedAt(t)
  BY <1>2
<1>4. \E b \in Branch[tip] : t \in BlockTxs[b]
  BY <1>1, <1>3 DEF Present, Mined
<1> DEFINE b == CHOOSE b \in Branch[tip] : t \in BlockTxs[b]
<1>5. b \in Branch[tip] /\ t \in BlockTxs[b]
  BY <1>4, Zenon
<1>6. ConfirmedAt(t) = HeaderHeight[b]
  BY Zenon DEF ConfirmedAt
<1> HIDE DEF b
<1> QED
  BY <1>3, <1>5, <1>6 DEF InChain

\* A step that leaves the index, the headers and the best chain alone; goroutines may
\* get hold of right heights.
LEMMA VerifyQuiet ==
    ASSUME VerifyInv,
           UNCHANGED <<height, msgTx, verified, jobs, tip, localTip, eventSynced>>,
           UNCHANGED <<reorged, restarts, lostVerifications>>,
           closing' = "open" => closing = "open",
           \A p \in Procs : HistRight(p) => HistRight(p)'
    PROVE  VerifyInv'
<1>1. HeightsRight => HeightsRight'
  BY DEF HeightsRight, InChain
<1>2. ToBeVerified => ToBeVerified'
  BY DEF ToBeVerified
<1> QED
  BY <1>1, <1>2 DEF VerifyInv

\* One goroutine goes on, and holds what the server has, or no history.
LEMMA VerifyProc ==
    ASSUME SyncTypeOK, NEW p \in Procs, NEW e, procs' = [procs EXCEPT ![p] = e], UNCHANGED tip,
           \/ e.pc \notin {"got", "apply"}
           \/ \A t \in DOMAIN e.hist : e.hist[t] > 0 => InChain(t, e.hist[t])
    PROVE  \A q \in Procs : HistRight(q) => HistRight(q)'
<1>1. procs'[p] = e /\ \A q \in Procs \ {p} : procs'[q] = procs[q]
  BY DEF SyncTypeOK
<1> QED
  BY <1>1 DEF HistRight, InChain

\* UpdateAddressHistory starts a goroutine for what it makes confirmed; what was
\* confirmed before keeps its height.
LEMMA VerifyApply ==
    ASSUME SyncTypeOK, IndexInv, HeightsRight, ToBeVerified, NEW a \in Addrs, NEW h \in Histories,
           \A t \in DOMAIN h : h[t] > 0 => InChain(t, h[t]),
           UpdateAddressHistory(a, h),
           UNCHANGED <<tip, localTip, eventSynced, restarts, lostVerifications, closing>>,
           \A p \in Procs : HistRight(p) => HistRight(p)'
    PROVE  HeightsRight' /\ ToBeVerified'
<1> DEFINE E == Emptied(a, h)
           new == NewlyConfirmed(h)
<1>1. /\ TypeOK
      /\ DOMAIN h \subseteq TxIds /\ (\A t \in DOMAIN h : h[t] \in Heights)
      /\ E \subseteq TxIds /\ E \cap DOMAIN h = {}
  BY UpdateSets DEF IndexInv
<1>2. /\ msgTx' = (msgTx \ E) \cup DOMAIN h
      /\ verified' = verified \ E
      /\ \A t \in TxIds : height'[t] = IF t \in DOMAIN h THEN h[t] ELSE IF t \in E THEN 0 ELSE height[t]
      /\ jobs' = jobs \cup {NewJob(t, h[t]) : t \in new}
  BY DEF UpdateAddressHistory, UpdateTxRecords
<1>3. \A t \in new : NewJob(t, h[t]).tx = t /\ NewJob(t, h[t]).height = h[t] /\ NewJob(t, h[t]).pc = "start"
  BY DEF NewJob
<1>4. new = {t \in DOMAIN h : height[t] <= 0 /\ h[t] > 0}
  BY DEF NewlyConfirmed
<1>5. \A t \in TxIds : height[t] \in Nat
  BY <1>1, ConstantsAssumption DEF TypeOK
<1> HIDE DEF E, new
<1>6. HeightsRight'
  <2>1. \A t, k : InChain(t, k)' <=> InChain(t, k)
    BY DEF InChain
  <2>2. ASSUME NEW t \in TxIds, height'[t] > 0 PROVE InChain(t, height'[t])
    BY <1>1, <1>2, <2>2 DEF HeightsRight
  <2>3. ASSUME NEW t \in TxIds \ msgTx' PROVE height'[t] = 0
    BY <1>1, <1>2, <2>3 DEF HeightsRight
  <2>4. ASSUME NEW j \in jobs' PROVE /\ j.height > 0 => InChain(j.tx, j.height)
                                     /\ j.pc = "header" => j.tx \in BlockTxs[j.header]
    <3>1. CASE j \in jobs
      BY <3>1 DEF HeightsRight
    <3>2. CASE \E t \in new : j = NewJob(t, h[t])
      BY <1>3, <1>4, <3>2
    <3> QED
      BY <1>2, <3>1, <3>2
  <2>5. Branch[localTip'] \subseteq Branch[tip']
    BY DEF HeightsRight
  <2>6. \A p \in Procs : HistRight(p)'
    BY DEF HeightsRight
  <2> QED
    BY <2>1, <2>2, <2>3, <2>4, <2>5, <2>6 DEF HeightsRight
<1>7. ToBeVerified'
  <2> SUFFICES ASSUME closing' = "open", lostVerifications' = 0, restarts' = 0,
                      NEW t \in msgTx' \ verified', height'[t] > 0
               PROVE  \/ eventSynced'
                      \/ \A b \in Branch[localTip'] : HeaderHeight[b] # height'[t]
                      \/ \E j \in jobs' : j.tx = t /\ j.height = height'[t]
    BY DEF ToBeVerified
  <2>1. t \in TxIds /\ t \notin E
    BY <1>1, <1>2 DEF TypeOK
  <2>2. CASE t \in new
    BY <1>2, <1>3, <1>4, <2>1, <2>2
  <2>3. CASE t \notin new
    <3>1. height[t] > 0 /\ height'[t] = height[t]
      <4>1. CASE t \in DOMAIN h
        <5>1. height[t] > 0 /\ height'[t] = h[t] /\ h[t] > 0
          BY <1>2, <1>4, <1>5, <2>1, <2>3, <4>1
        <5>2. InChain(t, height[t]) /\ InChain(t, h[t])
          BY <2>1, <4>1, <5>1 DEF HeightsRight
        <5> QED
          BY <5>1, <5>2, InChainUnique
      <4>2. CASE t \notin DOMAIN h
        BY <1>2, <2>1, <4>2
      <4> QED
        BY <4>1, <4>2
    <3>2. t \in msgTx \ verified
      BY <1>1, <1>2, <2>1, <3>1 DEF HeightsRight
    <3> QED
      BY <1>2, <3>1, <3>2 DEF ToBeVerified
  <2> QED
    BY <2>2, <2>3
<1> QED
  BY <1>6, <1>7

\* A goroutine that has the header of a confirmed transaction has the right one and
\* gets its proof; if there is none yet, the headers are still to come.
LEMMA VerifyJobs ==
    ASSUME SyncTypeOK, IndexInv, VerifyInv, Verify
    PROVE  VerifyInv'
<1>1. /\ UNCHANGED <<tip, localTip, eventSynced, reorged, restarts, procs, closing>>
      /\ lostVerifications' \in {lostVerifications, lostVerifications + 1}
  BY DEF Verify, serverVars, headersVars
<1>2. UNCHANGED <<msgTx, height>>
  BY Zenon DEF Verify, GetHeader, GetMerkle, MarkTxVerified, dbVars, txRecords
<1>3. restarts' \in Nat /\ lostVerifications' \in Nat
  BY <1>1 DEF VerifyInv
<1> SUFFICES ASSUME ~reorged PROVE HeightsRight' /\ ToBeVerified'
  BY <1>1, <1>3 DEF VerifyInv
<1>4. HeightsRight /\ ToBeVerified
  BY DEF VerifyInv
<1>5. \A t, k : InChain(t, k)' <=> InChain(t, k)
  BY <1>1 DEF InChain
<1>6. jobs \subseteq Jobs
  BY DEF IndexInv, TypeOK
<1>7. ASSUME NEW j \in jobs, NEW J, jobs' = (jobs \ {j}) \cup J,
             \A i \in J : /\ i.tx = j.tx /\ i.height = j.height
                          /\ i.pc = "header" => i.tx \in BlockTxs[i.header]
      PROVE  HeightsRight'
  BY <1>1, <1>2, <1>4, <1>5, <1>7 DEF HeightsRight, HistRight
<1>8. ASSUME NEW j \in jobs, NEW J, jobs' = (jobs \ {j}) \cup J, verified \subseteq verified',
             lostVerifications' = 0 /\ closing' = "open" /\ j.tx \notin verified' /\ j.height > 0 =>
                 \/ \E i \in J : i.tx = j.tx /\ i.height = j.height
                 \/ \A b \in Branch[localTip] : HeaderHeight[b] # j.height
      PROVE  ToBeVerified'
  <2> SUFFICES ASSUME closing' = "open", lostVerifications' = 0, restarts' = 0,
                      NEW t \in msgTx' \ verified', height'[t] > 0
               PROVE  \/ eventSynced'
                      \/ \A b \in Branch[localTip'] : HeaderHeight[b] # height'[t]
                      \/ \E i \in jobs' : i.tx = t /\ i.height = height'[t]
    BY DEF ToBeVerified
  <2>1. lostVerifications = 0 /\ closing = "open" /\ restarts = 0
    BY <1>1 DEF VerifyInv
  <2>2. t \in msgTx \ verified /\ height[t] > 0 /\ height'[t] = height[t]
    BY <1>2, <1>8
  <2>3. \/ eventSynced
        \/ \A b \in Branch[localTip] : HeaderHeight[b] # height[t]
        \/ \E i \in jobs : i.tx = t /\ i.height = height[t]
    BY <1>4, <2>1, <2>2 DEF ToBeVerified
  <2>4. ASSUME NEW i \in jobs, i.tx = t, i.height = height[t]
        PROVE  \/ \A b \in Branch[localTip] : HeaderHeight[b] # height[t]
               \/ \E k \in jobs' : k.tx = t /\ k.height = height[t]
    <3>1. CASE i = j
      BY <1>8, <2>2, <2>4, <3>1
    <3>2. CASE i # j
      BY <1>8, <2>4, <3>2
    <3> QED
      BY <3>1, <3>2
  <2> QED
    BY <1>1, <2>2, <2>3, <2>4
<1>9. PICK j \in jobs :
        \/ GetHeader(j, LocalHeader(j.height))
        \/ GetMerkle(j, MerkleOk(j))
        \/ lostVerifications' = lostVerifications + 1 /\ GetMerkle(j, FALSE)
        \/ MarkTxVerified(j)
        \/ /\ closing \in {"dbClosed", "closed"} /\ jobs' = jobs \ {j}
           /\ UNCHANGED <<dbVars, notifierVars>>
  BY Zenon DEF Verify
<1>10. j \in Jobs
  BY <1>6
<1>11. CASE GetHeader(j, LocalHeader(j.height))
  <2> DEFINE hdr == LocalHeader(j.height)
             J == IF j.height <= 0 \/ hdr = NoHeader THEN {} ELSE {[j EXCEPT !.pc = "header", !.header = hdr]}
  <2>1. jobs' = (jobs \ {j}) \cup J /\ verified' = verified
    BY <1>11 DEF GetHeader, dbVars, txRecords
  <2>2. CASE J = {}
    <3>1. j.height > 0 => hdr = NoHeader
      BY <1>10, <2>2, ConstantsAssumption DEF Jobs
    <3>2. hdr = NoHeader => \A b \in Branch[localTip] : HeaderHeight[b] # j.height
      <4>1. Branch[localTip] \subseteq Headers
        BY ChainsAssumption DEF SyncTypeOK
      <4>2. (\E b \in Branch[localTip] : HeaderHeight[b] = j.height)
            => hdr = CHOOSE b \in Branch[localTip] : HeaderHeight[b] = j.height
        BY Zenon DEF LocalHeader
      <4>3. (\E b \in Branch[localTip] : HeaderHeight[b] = j.height) => hdr \in Branch[localTip]
        BY <4>2
      <4> QED
        BY <4>1, <4>3, ConstantsAssumption
    <3> HIDE DEF hdr
    <3> QED
      BY <1>7, <1>8, <2>1, <2>2, <3>1, <3>2
  <2>3. CASE J # {}
    <3>1. hdr # NoHeader /\ J = {[j EXCEPT !.pc = "header", !.header = hdr]} /\ j.height > 0
      BY <1>10, <2>3, ConstantsAssumption DEF Jobs
    <3>2. hdr \in Branch[localTip] /\ HeaderHeight[hdr] = j.height
      <4>1. \E b \in Branch[localTip] : HeaderHeight[b] = j.height
        BY <3>1, Zenon DEF LocalHeader
      <4>2. hdr = CHOOSE b \in Branch[localTip] : HeaderHeight[b] = j.height
        BY <4>1, Zenon DEF LocalHeader
      <4> QED
        BY <4>1, <4>2
    <3> HIDE DEF hdr
    <3>3. PICK b \in Branch[tip] : HeaderHeight[b] = j.height /\ j.tx \in BlockTxs[b]
      BY <1>4, <3>1 DEF HeightsRight, InChain
    <3>4. hdr \in Branch[tip] /\ tip \in Headers
      BY <1>4, <3>2, ChainsAssumption DEF HeightsRight, SyncTypeOK
    <3>5. hdr = b
      BY <3>2, <3>3, <3>4, ChainsAssumption
    <3> DEFINE i == [j EXCEPT !.pc = "header", !.header = hdr]
    <3>6. i.tx = j.tx /\ i.height = j.height /\ i.header = hdr
      BY <1>10 DEF Jobs
    <3>7. J = {i}
      BY <3>1
    <3> HIDE DEF i, J
    <3>8. HeightsRight'
      BY <1>7, <2>1, <3>3, <3>5, <3>6, <3>7
    <3>9. ToBeVerified'
      BY <1>8, <2>1, <3>6, <3>7
    <3> QED
      BY <3>8, <3>9
  <2> QED
    BY <2>2, <2>3
<1>12. CASE GetMerkle(j, MerkleOk(j))
  <2>1. MerkleOk(j) /\ j.pc = "header"
    BY <1>4, <1>12 DEF HeightsRight, GetMerkle, MerkleOk
  <2> DEFINE i == [j EXCEPT !.pc = "proved"]
             J == {i}
  <2>2. jobs' = (jobs \ {j}) \cup J /\ verified' = verified
    BY <1>12, <2>1 DEF GetMerkle, dbVars, txRecords
  <2>3. i.tx = j.tx /\ i.height = j.height /\ i.pc # "header"
    BY <1>10 DEF Jobs
  <2> HIDE DEF i
  <2>4. /\ i \in J
        /\ \A k \in J : k.tx = j.tx /\ k.height = j.height /\ k.pc # "header"
    BY <2>3
  <2> HIDE DEF J
  <2>5. HeightsRight'
    BY <1>7, <2>2, <2>4
  <2>6. ToBeVerified'
    BY <1>8, <2>2, <2>4
  <2> QED
    BY <2>5, <2>6
<1>13. ASSUME jobs' = jobs \ {j}, verified \subseteq verified',
              lostVerifications' # 0 \/ closing' # "open" \/ j.tx \in verified'
       PROVE  HeightsRight' /\ ToBeVerified'
  <2> DEFINE J == {}
  <2>1. jobs' = (jobs \ {j}) \cup J /\ \A k \in J : FALSE
    BY <1>13
  <2> HIDE DEF J
  <2>2. HeightsRight'
    BY <1>7, <2>1
  <2>3. ToBeVerified'
    BY <1>8, <1>13, <2>1
  <2> QED
    BY <2>2, <2>3
<1>14. CASE lostVerifications' = lostVerifications + 1 /\ GetMerkle(j, FALSE)
  <2>1. jobs' = jobs \ {j} /\ verified' = verified /\ lostVerifications' # 0
    BY <1>14 DEF GetMerkle, dbVars, txRecords, VerifyInv
  <2> QED
    BY <1>13, <2>1
<1>15. CASE MarkTxVerified(j)
  <2>1. jobs' = jobs \ {j} /\ verified' = verified \cup {j.tx}
    BY <1>15 DEF MarkTxVerified
  <2> QED
    BY <1>13, <2>1
<1>16. CASE closing \in {"dbClosed", "closed"} /\ jobs' = jobs \ {j} /\ UNCHANGED <<dbVars, notifierVars>>
  <2>1. jobs' = jobs \ {j} /\ verified' = verified /\ closing' # "open"
    BY <1>1, <1>16 DEF dbVars, txRecords
  <2> QED
    BY <1>13, <2>1
<1> QED
  BY <1>9, <1>11, <1>12, <1>14, <1>15, <1>16

\* Nothing is confirmed yet.
LEMMA VerifyInit == Init => VerifyInv
<1> SUFFICES ASSUME Init PROVE VerifyInv
  OBVIOUS
<1>1. /\ height = [t \in TxIds |-> 0] /\ msgTx = {} /\ jobs = {}
      /\ tip = NoHeader /\ localTip = NoHeader /\ procs = [p \in Procs |-> Idle]
      /\ restarts = 0 /\ lostVerifications = 0
  BY Zenon DEF Init, IndexInit
<1>2. HeightsRight
  BY <1>1 DEF HeightsRight, HistRight, Idle
<1>3. ToBeVerified
  BY <1>1 DEF ToBeVerified
<1> QED
  BY <1>1, <1>2, <1>3 DEF VerifyInv

\* Every step leaves someone to verify what is confirmed.
LEMMA VerifyStep == SyncTypeOK /\ IndexInv /\ VerifyInv /\ [Next]_vars => VerifyInv'
<1> SUFFICES ASSUME SyncTypeOK, IndexInv, VerifyInv, [Next]_vars PROVE VerifyInv'
  OBVIOUS
<1>1. ASSUME UNCHANGED indexVars PROVE UNCHANGED <<height, msgTx, verified, jobs>>
  BY <1>1, Zenon DEF indexVars, dbVars, txRecords
<1>2. CASE \/ \E t \in TxIds : Broadcast(t)
           \/ Close \/ Failover \/ GetUnused \/ UNCHANGED vars
  <2>1. /\ UNCHANGED indexVars
        /\ UNCHANGED <<tip, localTip, eventSynced, reorged, restarts, lostVerifications, procs>>
    BY <1>2, Zenon DEF Broadcast, Close, Failover, GetUnused, vars, serverVars, headersVars, accountVars, userVars
  <2>2. closing' = "open" => closing = "open"
    BY <1>2 DEF Broadcast, Close, Failover, GetUnused, vars, accountVars
  <2>3. \A p \in Procs : HistRight(p) => HistRight(p)'
    BY <2>1 DEF HistRight, InChain
  <2> QED
    BY <1>1, <2>1, <2>2, <2>3, VerifyQuiet
<1>3. ASSUME NEW b \in Headers, NewBlock(b) PROVE VerifyInv'
  <2>1. /\ UNCHANGED <<height, msgTx, verified, jobs>>
        /\ UNCHANGED <<localTip, eventSynced, restarts, lostVerifications, procs, closing>>
        /\ tip' = b /\ reorged' = (reorged \/ ~(Branch[tip] \subseteq Branch[b]))
    BY <1>1, <1>3, Zenon DEF NewBlock, headersVars, accountVars, userVars
  <2>2. ASSUME ~reorged' PROVE HeightsRight' /\ ToBeVerified'
    <3>1. ~reorged /\ Branch[tip] \subseteq Branch[tip']
      BY <2>1, <2>2
    <3>2. \A t, k : InChain(t, k) => InChain(t, k)'
      BY <3>1 DEF InChain
    <3>3. HeightsRight'
      <4>1. \A p \in Procs : HistRight(p)'
        BY <2>1, <3>1, <3>2 DEF VerifyInv, HeightsRight, HistRight
      <4> QED
        BY <2>1, <3>1, <3>2, <4>1 DEF VerifyInv, HeightsRight
    <3>4. ToBeVerified'
      BY <2>1, <3>1 DEF VerifyInv, ToBeVerified
    <3> QED
      BY <3>3, <3>4
  <2> QED
    BY <2>1, <2>2 DEF VerifyInv
<1>4. CASE HeadersSync
  <2>1. /\ UNCHANGED <<height, msgTx, verified, jobs>>
        /\ UNCHANGED <<tip, reorged, restarts, procs, closing>>
        /\ localTip' = tip
        /\ \/ eventSynced' = (eventSynced \/ closing = "open") /\ UNCHANGED lostVerifications
           \/ lostVerifications' = lostVerifications + 1
    BY <1>1, <1>4, Zenon DEF HeadersSync, serverVars, accountVars
  <2>2. HeightsRight => HeightsRight'
    BY <2>1 DEF HeightsRight, HistRight, InChain
  <2>3. lostVerifications' # 0 \/ (eventSynced' = (eventSynced \/ closing = "open") /\ UNCHANGED lostVerifications)
    BY <2>1 DEF VerifyInv
  <2>4. closing' = "open" /\ lostVerifications' = 0 => eventSynced'
    BY <2>1, <2>3, Zenon
  <2>5. ToBeVerified'
    BY <2>4 DEF ToBeVerified
  <2>6. restarts' \in Nat /\ lostVerifications' \in Nat
    BY <2>1 DEF VerifyInv
  <2> QED
    BY <2>1, <2>2, <2>5, <2>6 DEF VerifyInv
<1>5. ASSUME NEW p \in Procs,
             \/ \E a \in Addrs : Notify(p, a)
             \/ Start(p) \/ (\E ok \in BOOLEAN : Fetch(p, ok)) \/ Got(p) \/ Ensure(p)
      PROVE  VerifyInv'
  <2>1. /\ UNCHANGED indexVars
        /\ UNCHANGED <<tip, localTip, eventSynced, reorged, restarts, lostVerifications, closing>>
    BY <1>5, Zenon DEF Notify, Start, Fetch, Got, Ensure, serverVars, headersVars, userVars
  <2>2. \A q \in Procs : HistRight(q) => HistRight(q)'
    <3>1. CASE \E a \in Addrs : Notify(p, a)
      <4>1. PICK a \in Addrs : procs' = [procs EXCEPT ![p] = [pc |-> "start", addr |-> a, status |-> ServerHistory(a)]]
        BY <3>1, Zenon DEF Notify
      <4> QED
        BY <2>1, <4>1, VerifyProc
    <3>2. CASE Start(p)
      <4>1. \/ procs' = [procs EXCEPT ![p] = Idle]
            \/ procs' = [procs EXCEPT ![p] = [pc |-> "fetch", addr |-> procs[p].addr]]
        BY <3>2, Zenon DEF Start, End
      <4>2. Idle.pc = "idle"
        BY DEF Idle
      <4> QED
        BY <2>1, <4>1, <4>2, VerifyProc
    <3>3. CASE \E ok \in BOOLEAN : Fetch(p, ok)
      <4> DEFINE a == procs[p].addr
      <4>1. a \in Addrs
        BY <3>3, ProcHolds DEF Fetch
      <4>2. \/ procs' = [procs EXCEPT ![p] = Idle]
            \/ procs' = [procs EXCEPT ![p] = [pc |-> "got", addr |-> a, hist |-> ServerHistory(a)]]
        BY <3>3, Zenon DEF Fetch, End
      <4>3. Idle.pc = "idle"
        BY DEF Idle
      <4>4. \A t \in DOMAIN ServerHistory(a) : ServerHistory(a)[t] > 0 => InChain(t, ServerHistory(a)[t])
        BY <4>1, ServerHeights
      <4> QED
        BY <2>1, <4>2, <4>3, <4>4, VerifyProc
    <3>4. CASE Got(p)
      <4>1. procs[p] \in [pc : {"got", "apply"}, addr : Addrs, hist : Histories]
        BY <3>4, ProcHolds DEF Got
      <4>2. procs' = [procs EXCEPT ![p] = Idle] \/ procs' = [procs EXCEPT ![p].pc = "apply"]
        BY <3>4, Zenon DEF Got, End
      <4>3. CASE procs' = [procs EXCEPT ![p] = Idle]
        BY <2>1, <4>3, VerifyProc DEF Idle
      <4>4. CASE procs' = [procs EXCEPT ![p].pc = "apply"]
        <5>1. /\ procs'[p].hist = procs[p].hist /\ procs[p].pc \in {"got", "apply"}
              /\ \A q \in Procs \ {p} : procs'[q] = procs[q]
          BY <4>1, <4>4 DEF SyncTypeOK
        <5> QED
          BY <2>1, <5>1 DEF HistRight, InChain
      <4> QED
        BY <4>2, <4>3, <4>4
    <3>5. CASE Ensure(p)
      <4>1. procs' = [procs EXCEPT ![p] = Idle] /\ Idle.pc = "idle"
        BY <3>5, Zenon DEF Ensure, End, Idle
      <4> QED
        BY <2>1, <4>1, VerifyProc
    <3> QED
      BY <1>5, <3>1, <3>2, <3>3, <3>4, <3>5
  <2> QED
    BY <1>1, <2>1, <2>2, VerifyQuiet
<1>6. ASSUME NEW p \in Procs, Apply(p) PROVE VerifyInv'
  <2> DEFINE a == procs[p].addr
             h == procs[p].hist
  <2>1. /\ procs[p].pc = "apply"
        /\ procs' = [procs EXCEPT ![p] = [pc |-> "ensure", addr |-> a]]
        /\ UNCHANGED <<tip, localTip, eventSynced, reorged, restarts, lostVerifications, closing>>
        /\ UpdateAddressHistory(a, h) \/ UNCHANGED indexVars
    BY <1>6, Zenon DEF Apply, serverVars, headersVars, userVars
  <2>2. a \in Addrs /\ h \in Histories
    BY <2>1, ProcHolds
  <2>3. \A q \in Procs : HistRight(q) => HistRight(q)'
    BY <2>1, VerifyProc
  <2>4. CASE UNCHANGED indexVars
    BY <1>1, <2>1, <2>3, <2>4, VerifyQuiet
  <2>5. CASE UpdateAddressHistory(a, h)
    <3>1. ASSUME ~reorged PROVE HeightsRight' /\ ToBeVerified'
      <4>1. HeightsRight /\ ToBeVerified
        BY <3>1 DEF VerifyInv
      <4>2. \A t \in DOMAIN h : h[t] > 0 => InChain(t, h[t])
        BY <2>1, <4>1 DEF HeightsRight, HistRight
      <4> HIDE DEF a, h
      <4> QED
        BY <2>1, <2>2, <2>3, <2>5, <4>1, <4>2, VerifyApply
    <3> QED
      BY <2>1, <3>1 DEF VerifyInv
  <2> QED
    BY <2>1, <2>4, <2>5
<1>7. CASE HandleSynced
  <2>1. UNCHANGED <<tip, localTip, reorged, restarts, lostVerifications, procs, closing>>
    BY <1>7, Zenon DEF HandleSynced, serverVars, userVars
  <2>2. CASE closing # "open" /\ UNCHANGED indexVars
    <3>1. HeightsRight => HeightsRight'
      BY <1>1, <2>1, <2>2 DEF HeightsRight, HistRight, InChain
    <3>2. ToBeVerified'
      BY <2>1, <2>2 DEF ToBeVerified
    <3> QED
      BY <2>1, <3>1, <3>2 DEF VerifyInv
  <2>3. CASE verifyTransactions
    <3>1. /\ UNCHANGED <<height, msgTx, verified>>
          /\ jobs' = jobs \cup {NewJob(t, height[t]) : t \in unverifiedTransactions}
      BY <2>3, Zenon DEF verifyTransactions, dbVars, txRecords
    <3>2. \A t \in unverifiedTransactions :
            /\ t \in TxIds
            /\ NewJob(t, height[t]).tx = t /\ NewJob(t, height[t]).height = height[t]
            /\ NewJob(t, height[t]).pc = "start"
      BY DEF NewJob, IndexInv, TypeOK
    <3>3. msgTx \subseteq verified \cup unverifiedTransactions
      BY DEF IndexInv, VerificationSound, NoneForgotten
    <3>4. HeightsRight => HeightsRight'
      <4> SUFFICES ASSUME HeightsRight PROVE HeightsRight'
        OBVIOUS
      <4>1. \A t, k : InChain(t, k)' <=> InChain(t, k)
        BY <2>1 DEF InChain
      <4>2. ASSUME NEW j \in jobs' PROVE /\ j.height > 0 => InChain(j.tx, j.height)
                                         /\ j.pc = "header" => j.tx \in BlockTxs[j.header]
        <5>1. CASE j \in jobs
          BY <5>1 DEF HeightsRight
        <5>2. CASE \E t \in unverifiedTransactions : j = NewJob(t, height[t])
          BY <3>2, <5>2 DEF HeightsRight
        <5> QED
          BY <3>1, <5>1, <5>2
      <4> QED
        BY <2>1, <3>1, <4>1, <4>2 DEF HeightsRight, HistRight
    <3>5. ToBeVerified'
      <4> SUFFICES ASSUME NEW t \in msgTx' \ verified'
                   PROVE  \E j \in jobs' : j.tx = t /\ j.height = height'[t]
        BY DEF ToBeVerified
      <4>1. t \in unverifiedTransactions /\ NewJob(t, height[t]) \in jobs'
        BY <3>1, <3>3
      <4> QED
        BY <3>1, <3>2, <4>1
    <3> QED
      BY <2>1, <3>4, <3>5 DEF VerifyInv
  <2> QED
    BY <1>7, <2>2, <2>3 DEF HandleSynced
<1>8. CASE Verify
  BY <1>8, VerifyJobs
<1>9. CASE Restart
  <2>1. /\ restarts' = restarts + 1 /\ procs' = [p \in Procs |-> Idle]
        /\ UNCHANGED <<tip, localTip, reorged, lostVerifications>>
        /\ jobs' = {} /\ UNCHANGED dbVars
    BY <1>9, Zenon DEF Restart, CrashInUpdate
  <2>2. UNCHANGED <<height, msgTx>>
    BY <2>1, Zenon DEF dbVars, txRecords
  <2>3. HeightsRight => HeightsRight'
    BY <2>1, <2>2 DEF HeightsRight, HistRight, InChain, Idle
  <2>4. ToBeVerified' /\ restarts' \in Nat
    BY <2>1 DEF ToBeVerified, VerifyInv
  <2> QED
    BY <2>1, <2>3, <2>4 DEF VerifyInv
<1> QED
  BY <1>2, <1>3, <1>4, <1>5, <1>6, <1>7, <1>8, <1>9, Zenon DEF Next

\* At rest, with the headers of the best chain, nobody is left to verify it.
LEMMA VerifyInvVerified == VerifyInv /\ IndexInv => ConfirmedVerified
<1> SUFFICES ASSUME VerifyInv, IndexInv, Quiescent, Working, localTip = tip,
                    lostVerifications = 0, restarts = 0, ~reorged,
                    NEW t \in msgTx, height[t] > 0, t \notin verified
             PROVE  FALSE
  BY DEF ConfirmedVerified
<1>1. InChain(t, height[t])
  BY DEF VerifyInv, HeightsRight, IndexInv, TypeOK
<1>2. PICK b \in Branch[localTip] : HeaderHeight[b] = height[t]
  BY <1>1 DEF InChain
<1>3. jobs = {} /\ ~eventSynced /\ closing = "open"
  BY DEF Quiescent, Working
<1> QED
  BY <1>2, <1>3 DEF VerifyInv, ToBeVerified

\* Whichever of history and headers comes first, and with any number of goroutines:
\* when an account comes to rest, its confirmed transactions are verified, unless a
\* request failed, the app was restarted or the chain was reorganised.
THEOREM ConfirmedVerifiedHolds == Spec => []ConfirmedVerified
  BY InitSyncType, VerifyInit, SyncTypeStep, VerifyStep, VerifyInvVerified, AccountIndexConsistent, PTL DEF Spec

-----------------------------------------------------------------------------
(* Histories                                                               *)

\* The history of an address at the server changes with its best chain and mempool only.
LEMMA SameServer ==
    ASSUME UNCHANGED <<tip, mempool>>, NEW a
    PROVE  ServerHistory(a)' = ServerHistory(a)
  BY DEF ServerHistory, Present, Mined, ConfirmedAt, Touching, Outs

\* A step that only concerns other addresses.
LEMMA NotifiedSame ==
    ASSUME NEW a \in Addrs, Notified(a), UNCHANGED <<tip, mempool>>,
           a \in dirty => a \in dirty', sub'[a] = "active" => sub[a] = "active",
           addressHistories'[a] = addressHistories[a],
           \A p \in Procs : Handles(p, a) \/ Handles(p, a)' => procs'[p] = procs[p]
    PROVE  Notified(a)'
<1>1. \A p \in Procs : Handles(p, a)' <=> Handles(p, a)
  BY DEF Handles
<1>2. ServerHistory(a)' = ServerHistory(a)
  BY SameServer
<1>3. \A p \in Procs : Handles(p, a) /\ HoldsCurrent(p, a) => HoldsCurrent(p, a)'
  BY <1>2 DEF HoldsCurrent
<1> QED
  BY <1>1, <1>2, <1>3 DEF Notified

\* The goroutine p of address b goes on.
LEMMA NotifiedProc ==
    ASSUME SyncTypeOK, NotifiedInv, NEW p \in Procs, NEW e, procs' = [procs EXCEPT ![p] = e],
           NEW b \in Addrs, procs[p].pc # "idle" => procs[p].addr = b, e.pc # "idle" => e.addr = b,
           UNCHANGED <<tip, mempool, closing>>, fatalError => fatalError',
           \A a \in Addrs \ {b} : /\ a \in dirty => a \in dirty'
                                  /\ sub'[a] = "active" => sub[a] = "active"
                                  /\ addressHistories'[a] = addressHistories[a],
           closing = "open" /\ ~fatalError' /\ Notified(b) => Notified(b)'
    PROVE  NotifiedInv'
<1> SUFFICES ASSUME closing = "open", ~fatalError', NEW a \in Addrs PROVE Notified(a)'
  BY DEF NotifiedInv
<1>1. procs'[p] = e /\ \A q \in Procs \ {p} : procs'[q] = procs[q]
  BY DEF SyncTypeOK
<1>2. Notified(a)
  BY DEF NotifiedInv
<1>3. CASE a # b
  <2>1. ~Handles(p, a) /\ ~Handles(p, a)'
    BY <1>1, <1>3 DEF Handles
  <2> QED
    BY <1>1, <1>2, <1>3, <2>1, NotifiedSame
<1>4. CASE a = b
  BY <1>2, <1>4
<1> QED
  BY <1>3, <1>4

\* A notification: its goroutine has the current status.
LEMMA NotifiedNotify ==
    ASSUME SyncTypeOK, NotifiedInv, NEW p \in Procs, NEW b \in Addrs, Notify(p, b)
    PROVE  NotifiedInv'
<1> DEFINE e == [pc |-> "start", addr |-> b, status |-> ServerHistory(b)]
<1>1. /\ procs[p].pc = "idle" /\ procs' = [procs EXCEPT ![p] = e]
      /\ sub' = [sub EXCEPT ![b] = "active"] /\ dirty' = dirty \ {b}
      /\ UNCHANGED <<tip, mempool, closing, fatalError, addressHistories>>
  BY Zenon DEF Notify, indexVars, dbVars
<1>2. procs'[p] = e
  BY <1>1 DEF SyncTypeOK
<1>3. ServerHistory(b)' = ServerHistory(b)
  BY <1>1, SameServer
<1>4. Handles(p, b)' /\ HoldsCurrent(p, b)'
  BY <1>2, <1>3 DEF Handles, HoldsCurrent
<1>5. Notified(b)'
  BY <1>4 DEF Notified
<1>6. \A a \in Addrs \ {b} : (a \in dirty => a \in dirty') /\ sub'[a] = sub[a]
  BY <1>1
<1>7. e.pc = "start" /\ e.addr = b
  OBVIOUS
<1> HIDE DEF e
<1> QED
  BY <1>1, <1>5, <1>6, <1>7, NotifiedProc

\* If a goroutine is the only one of its address, it holds what the server has, unless
\* another notification is on its way.
LEMMA HandlerCurrent ==
    ASSUME OnePerAddress, NEW p \in Procs, NEW b \in Addrs, Handles(p, b), Notified(b),
           sub[b] = "active"
    PROVE  b \in dirty \/ HoldsCurrent(p, b)
  BY DEF Notified, Handles, OnePerAddress

\* The only goroutine of an address leaves, and what the server has is stored.
LEMMA LeavesStored ==
    ASSUME SyncTypeOK, OnePerAddress, NEW p \in Procs, NEW b \in Addrs, Handles(p, b), Notified(b),
           NEW e, procs' = [procs EXCEPT ![p] = e], e.pc \in {"idle", "ensure"},
           UNCHANGED <<tip, mempool, sub, dirty>>,
           HoldsCurrent(p, b) => addressHistories'[b] = ServerHistory(b)
    PROVE  Notified(b)'
<1> SUFFICES ASSUME sub[b] = "active", b \notin dirty PROVE Notified(b)'
  BY DEF Notified
<1>1. procs'[p] = e /\ \A q \in Procs \ {p} : procs'[q] = procs[q]
  BY DEF SyncTypeOK
<1>2. \A q \in Procs : ~Handles(q, b)'
  BY <1>1 DEF Handles, OnePerAddress
<1>3. addressHistories'[b] = ServerHistory(b)'
  BY HandlerCurrent, SameServer
<1> QED
  BY <1>2, <1>3 DEF Notified

\* The goroutine of an address goes on with what the server has.
LEMMA GoesOn ==
    ASSUME SyncTypeOK, OnePerAddress, NEW p \in Procs, NEW b \in Addrs, Handles(p, b), Notified(b),
           NEW e, procs' = [procs EXCEPT ![p] = e], e.pc \in {"start", "fetch", "got", "apply"}, e.addr = b,
           UNCHANGED <<tip, mempool, sub, dirty>>,
           HoldsCurrent(p, b) => /\ e.pc = "start" => e.status = ServerHistory(b)
                                 /\ e.pc \in {"got", "apply"} => e.hist = ServerHistory(b)
    PROVE  Notified(b)'
<1> SUFFICES ASSUME sub[b] = "active", b \notin dirty PROVE Notified(b)'
  BY DEF Notified
<1>1. procs'[p] = e
  BY DEF SyncTypeOK
<1>2. ServerHistory(b)' = ServerHistory(b)
  BY SameServer
<1>3. Handles(p, b)' /\ HoldsCurrent(p, b)'
  BY <1>1, <1>2, HandlerCurrent DEF Handles, HoldsCurrent
<1> QED
  BY <1>3 DEF Notified

\* onAddressStatus compares the status with what is stored, and fetches the history.
LEMMA NotifiedStart ==
    ASSUME SyncTypeOK, OnePerAddress, NotifiedInv, NEW p \in Procs, Start(p)
    PROVE  NotifiedInv'
<1>1. PICK b \in Addrs : procs[p].addr = b
  BY ProcHolds DEF Start
<1>2. /\ procs[p].pc = "start" /\ UNCHANGED <<tip, mempool, dirty, sub, closing, fatalError, addressHistories>>
      /\ \/ procs' = [procs EXCEPT ![p] = Idle] /\ (closing = "open" => procs[p].status = addressHistories[b])
         \/ procs' = [procs EXCEPT ![p] = [pc |-> "fetch", addr |-> b]]
  BY <1>1, Zenon DEF Start, End, indexVars, dbVars, serverVars
<1>3. Handles(p, b) /\ Idle.pc = "idle"
  BY <1>1, <1>2 DEF Handles, Idle
<1>4. CASE procs' = [procs EXCEPT ![p] = Idle] /\ (closing = "open" => procs[p].status = addressHistories[b])
  <2>1. closing = "open" /\ HoldsCurrent(p, b) => addressHistories'[b] = ServerHistory(b)
    BY <1>2, <1>4 DEF HoldsCurrent
  <2>2. closing = "open" /\ Notified(b) => Notified(b)'
    BY <1>2, <1>3, <1>4, <2>1, LeavesStored
  <2> QED
    BY <1>1, <1>2, <1>3, <1>4, <2>2, NotifiedProc
<1>5. CASE procs' = [procs EXCEPT ![p] = [pc |-> "fetch", addr |-> b]]
  <2> DEFINE e == [pc |-> "fetch", addr |-> b]
  <2>1. e.pc = "fetch" /\ e.addr = b /\ procs' = [procs EXCEPT ![p] = e]
    BY <1>5
  <2> HIDE DEF e
  <2>2. Notified(b) => Notified(b)'
    BY <1>2, <1>3, <2>1, GoesOn
  <2> QED
    BY <1>1, <1>2, <2>1, <2>2, NotifiedProc
<1> QED
  BY <1>2, <1>4, <1>5

\* The history is what the server has, or the request fails for good.
LEMMA NotifiedFetch ==
    ASSUME SyncTypeOK, OnePerAddress, NotifiedInv, NEW p \in Procs, NEW ok \in BOOLEAN, Fetch(p, ok)
    PROVE  NotifiedInv'
<1>1. PICK b \in Addrs : procs[p].addr = b
  BY ProcHolds DEF Fetch
<1> DEFINE e == [pc |-> "got", addr |-> b, hist |-> ServerHistory(b)]
<1>2. /\ procs[p].pc = "fetch" /\ UNCHANGED <<tip, mempool, dirty, sub, closing, addressHistories>>
      /\ \/ fatalError'
         \/ procs' = [procs EXCEPT ![p] = e] /\ UNCHANGED fatalError
  BY <1>1, Zenon DEF Fetch, indexVars, dbVars, serverVars
<1>3. e.pc = "got" /\ e.addr = b /\ e.hist = ServerHistory(b)
  OBVIOUS
<1> HIDE DEF e
<1>4. CASE fatalError'
  BY <1>4 DEF NotifiedInv
<1>5. CASE procs' = [procs EXCEPT ![p] = e] /\ UNCHANGED fatalError
  <2>1. Handles(p, b)
    BY <1>1, <1>2 DEF Handles
  <2>2. Notified(b) => Notified(b)'
    BY <1>2, <1>3, <1>5, <2>1, GoesOn
  <2> QED
    BY <1>1, <1>2, <1>3, <1>5, <2>2, NotifiedProc
<1> QED
  BY <1>2, <1>4, <1>5

\* The history waits to be stored; an account that was closed drops it.
LEMMA NotifiedGot ==
    ASSUME SyncTypeOK, OnePerAddress, NotifiedInv, NEW p \in Procs, Got(p)
    PROVE  NotifiedInv'
<1>1. procs[p].addr \in Addrs /\ procs[p] \in [pc : {"got", "apply"}, addr : Addrs, hist : Histories]
  BY ProcHolds DEF Got
<1>2. PICK b \in Addrs : procs[p].addr = b
  BY <1>1
<1> DEFINE e == [procs[p] EXCEPT !.pc = "apply"]
<1>3. /\ procs[p].pc = "got" /\ UNCHANGED <<tip, mempool, dirty, sub, closing, fatalError, addressHistories>>
      /\ closing = "closed" \/ procs' = [procs EXCEPT ![p].pc = "apply"]
  BY Zenon DEF Got, indexVars, dbVars, serverVars
<1>4. e.pc = "apply" /\ e.addr = b /\ e.hist = procs[p].hist
  BY <1>1, <1>2
<1>5. procs' = [procs EXCEPT ![p].pc = "apply"] => procs' = [procs EXCEPT ![p] = e]
  OBVIOUS
<1> HIDE DEF e
<1>6. CASE closing = "closed"
  BY <1>3, <1>6 DEF NotifiedInv
<1>7. CASE procs' = [procs EXCEPT ![p] = e]
  <2>1. Handles(p, b) /\ (HoldsCurrent(p, b) => e.hist = ServerHistory(b))
    BY <1>2, <1>3, <1>4 DEF Handles, HoldsCurrent
  <2>2. /\ UNCHANGED <<tip, mempool, dirty, sub>>
        /\ e.pc \in {"start", "fetch", "got", "apply"} /\ e.pc # "start"
        /\ HoldsCurrent(p, b) => e.hist = ServerHistory(b)
    BY <1>3, <1>4, <2>1
  <2>3. Notified(b) => Notified(b)'
    BY <1>4, <1>7, <2>1, <2>2, GoesOn
  <2>4. /\ UNCHANGED <<tip, mempool, dirty, sub, closing, fatalError, addressHistories>>
    BY <1>3
  <2> QED
    BY <1>2, <1>4, <1>7, <2>3, <2>4, NotifiedProc
<1> QED
  BY <1>3, <1>5, <1>6, <1>7

\* UpdateAddressHistory stores what the server has.
LEMMA NotifiedApply ==
    ASSUME SyncTypeOK, TypeOK, OnePerAddress, NotifiedInv, NEW p \in Procs, Apply(p)
    PROVE  NotifiedInv'
<1>1. PICK b \in Addrs : procs[p].addr = b
  BY ProcHolds DEF Apply
<1> DEFINE e == [pc |-> "ensure", addr |-> b]
<1>2. /\ procs[p].pc = "apply" /\ procs' = [procs EXCEPT ![p] = e]
      /\ UNCHANGED <<tip, mempool, dirty, sub, closing, fatalError>>
      /\ closing # "open" \/ UpdateAddressHistory(b, procs[p].hist)
  BY <1>1, Zenon DEF Apply, serverVars
<1>3. e.pc = "ensure" /\ e.addr = b
  OBVIOUS
<1> HIDE DEF e
<1>4. CASE closing # "open"
  BY <1>2, <1>4 DEF NotifiedInv
<1>5. CASE UpdateAddressHistory(b, procs[p].hist)
  <2>1. addressHistories' = [addressHistories EXCEPT ![b] = procs[p].hist]
    BY <1>5, Zenon DEF UpdateAddressHistory, PutAddressHistory
  <2>2. addressHistories'[b] = procs[p].hist /\ \A a \in Addrs \ {b} : addressHistories'[a] = addressHistories[a]
    BY <2>1 DEF TypeOK
  <2>3. Handles(p, b) /\ (HoldsCurrent(p, b) => addressHistories'[b] = ServerHistory(b))
    BY <1>1, <1>2, <2>2 DEF Handles, HoldsCurrent
  <2>4. Notified(b) => Notified(b)'
    BY <1>2, <1>3, <2>3, LeavesStored
  <2> QED
    BY <1>1, <1>2, <1>3, <2>2, <2>4, NotifiedProc
<1> QED
  BY <1>2, <1>4, <1>5

\* ensureAddresses leaves what is subscribed alone, and subscribes to the rest.
LEMMA NotifiedEnsure ==
    ASSUME SyncTypeOK, NotifiedInv, NEW p \in Procs, Ensure(p)
    PROVE  NotifiedInv'
<1>1. PICK b \in Addrs : procs[p].addr = b
  BY ProcHolds DEF Ensure
<1>2. /\ procs[p].pc = "ensure" /\ procs' = [procs EXCEPT ![p] = Idle] /\ Idle.pc = "idle"
      /\ UNCHANGED <<tip, mempool, dirty, closing, fatalError, addressHistories>>
  BY Zenon DEF Ensure, End, Idle, indexVars, dbVars, serverVars
<1>3. \A a \in Addrs : sub'[a] = "active" => sub[a] = "active"
  <2>1. CASE UNCHANGED sub
    BY <2>1
  <2>2. CASE ensureAddresses
    BY <2>2 DEF ensureAddresses
  <2> QED
    BY <2>1, <2>2 DEF Ensure
<1>4. \A q \in Procs : Handles(q, b) \/ Handles(q, b)' => procs'[q] = procs[q]
  BY <1>2 DEF Handles, SyncTypeOK
<1>5. Notified(b) => Notified(b)'
  BY <1>2, <1>3, <1>4, NotifiedSame
<1> QED
  BY <1>1, <1>2, <1>3, <1>5, NotifiedProc

\* The server changes: it will notify the change to everyone who is subscribed.
LEMMA NotifiedServer ==
    ASSUME NotifiedInv, MarkChanged, UNCHANGED <<procs, sub, closing, fatalError, addressHistories>>
    PROVE  NotifiedInv'
<1> SUFFICES ASSUME closing = "open", ~fatalError, NEW a \in Addrs, sub[a] = "active", a \notin dirty'
             PROVE  Notified(a)'
  BY DEF NotifiedInv, Notified
<1>1. a \notin dirty /\ ServerHistory(a)' = ServerHistory(a)
  BY DEF MarkChanged
<1>2. Notified(a)
  BY DEF NotifiedInv
<1>3. \A p \in Procs : /\ Handles(p, a)' <=> Handles(p, a)
                       /\ HoldsCurrent(p, a) => HoldsCurrent(p, a)'
  BY <1>1 DEF Handles, HoldsCurrent
<1> QED
  BY <1>1, <1>2, <1>3 DEF Notified

\* A step of the headers, of a verification or of a reader.
LEMMA NotifiedQuiet ==
    ASSUME NotifiedInv, closing' = "open" => closing = "open",
           UNCHANGED <<tip, mempool, dirty, procs, sub, fatalError, addressHistories>>
    PROVE  NotifiedInv'
<1> SUFFICES ASSUME closing' = "open", ~fatalError, NEW a \in Addrs PROVE Notified(a)'
  BY DEF NotifiedInv
<1> QED
  BY NotifiedSame DEF NotifiedInv

\* Nothing is subscribed for good yet.
LEMMA NotifiedInit == Init => NotifiedInv
  BY DEF Init, NotifiedInv, Notified

\* While there is one goroutine for an address, every step keeps what it holds current.
LEMMA NotifiedStep ==
    SyncTypeOK /\ TypeOK /\ OnePerAddress /\ NotifiedInv /\ [Next]_vars => NotifiedInv'
<1> SUFFICES ASSUME SyncTypeOK, TypeOK, OnePerAddress, NotifiedInv, [Next]_vars PROVE NotifiedInv'
  OBVIOUS
<1>1. CASE \/ \E t \in TxIds : Broadcast(t)
           \/ \E b \in Headers : NewBlock(b)
  <2>1. MarkChanged /\ UNCHANGED <<procs, sub, closing, fatalError, addressHistories>>
    BY <1>1, Zenon DEF Broadcast, NewBlock, accountVars, indexVars, dbVars
  <2> QED
    BY <2>1, NotifiedServer
<1>2. CASE HeadersSync \/ HandleSynced \/ Verify \/ GetUnused \/ UNCHANGED vars
  <2>1. UNCHANGED <<tip, mempool, dirty, procs, sub, fatalError, closing>>
    BY <1>2, Zenon DEF HeadersSync, HandleSynced, Verify, GetUnused, vars, serverVars, accountVars
  <2>2. UNCHANGED addressHistories
    BY <1>2, Zenon DEF HeadersSync, HandleSynced, Verify, GetUnused, vars, verifyTransactions, GetHeader, GetMerkle,
       MarkTxVerified, indexVars, dbVars
  <2> QED
    BY <2>1, <2>2, NotifiedQuiet
<1>3. CASE Close
  <2>1. closing' # "open"
    BY <1>3 DEF Close
  <2> QED
    BY <2>1 DEF NotifiedInv
<1>4. CASE Failover
  <2>1. sub' = [a \in Addrs |-> IF sub[a] = "active" THEN "pending" ELSE sub[a]]
    BY <1>4, Zenon DEF Failover
  <2> QED
    BY <2>1 DEF NotifiedInv, Notified
<1>5. CASE Restart
  <2>1. sub' = [a \in Addrs |-> IF \E c \in Chains : a \in {ChainAddrs[c][i] : i \in 1..chainLen'[c]}
                               THEN "pending" ELSE "none"]
    BY <1>5, Zenon DEF Restart
  <2> QED
    BY <2>1 DEF NotifiedInv, Notified
<1> QED
  BY <1>1, <1>2, <1>3, <1>4, <1>5, NotifiedNotify, NotifiedStart, NotifiedFetch, NotifiedGot, NotifiedApply,
     NotifiedEnsure, Zenon DEF Next

\* At rest every known address is subscribed to and has nothing on its way, and the
\* chains reach far enough behind the used addresses.
LEMMA NotifiedInSync == NotifiedInv /\ GapInv => InSync
<1> SUFFICES ASSUME NotifiedInv, GapInv, Quiescent, Working PROVE UpToDate
  BY DEF InSync
<1>1. ASSUME NEW c \in Chains, NEW i \in 1..chainLen[c]
      PROVE  /\ ChainAddrs[c][i] \in Addrs /\ i \in 1..Len(ChainAddrs[c])
             /\ addressHistories[ChainAddrs[c][i]] = ServerHistory(ChainAddrs[c][i])
  <2>1. i \in 1..Len(ChainAddrs[c]) /\ ChainAddrs[c][i] \in Addrs
    BY ChainsAssumption DEF GapInv
  <2>2. sub[ChainAddrs[c][i]] = "active"
    BY <2>1 DEF GapInv, SubStates, Quiescent
  <2>3. \A p \in Procs : ~Handles(p, ChainAddrs[c][i])
    BY DEF Quiescent, Handles
  <2> QED
    BY <2>1, <2>2, <2>3 DEF NotifiedInv, Notified, Quiescent, Working
<1>2. \A a \in KnownAddrs : addressHistories[a] = ServerHistory(a)
  BY <1>1 DEF KnownAddrs, Known
<1>3. ~Busy /\ closing = "open"
  BY DEF Quiescent, Working, Busy
<1>4. ASSUME NEW c \in Chains, NEW i \in 1..Len(ChainAddrs[c]), NEW k \in 1..Len(ChainAddrs[c]),
             k <= i + GapLimit[c], ChainAddrs[c][i] \in Known(c),
             DOMAIN ServerHistory(ChainAddrs[c][i]) # {}
      PROVE  ChainAddrs[c][k] \in Known(c)
  <2>1. PICK j \in 1..chainLen[c] : ChainAddrs[c][i] = ChainAddrs[c][j]
    BY <1>4 DEF Known
  <2>2. i = j
    BY <1>1, <2>1, ChainsAssumption
  <2>3. isAddressUsed(ChainAddrs[c][i])
    BY <1>1, <1>4, <2>1 DEF isAddressUsed
  <2> QED
    BY <1>3, <1>4, <2>1, <2>2, <2>3, GapInvWatched DEF GapWatched
<1> QED
  BY <1>2, <1>4 DEF UpToDate

\* As long as no two goroutines are in onAddressStatus for the same address, an
\* account that comes to rest has the histories the server has, and knows every address
\* that the gap limit asks for: through lost connections, restarts, reorganisations and
\* replaced transactions, with any number of addresses and goroutines.
THEOREM InSyncHolds == Spec /\ []OnePerAddress => []InSync
<1>1. SyncTypeOK /\ IndexInv /\ OnePerAddress /\ NotifiedInv /\ [Next]_vars => NotifiedInv'
  BY NotifiedStep DEF IndexInv
<1> QED
  BY <1>1, InitSyncType, SyncTypeStep, NotifiedInit, GapInit, GapStep, NotifiedInSync, AccountIndexConsistent, PTL DEF Spec
=============================================================================
