-------------------------- MODULE TransactionsIndex --------------------------
(***************************************************************************)
(* The transaction index of a BTC/LTC account: the buckets of its bbolt    *)
(* database (backend/coins/btc/db/transactionsdb), the operations on them  *)
(* (backend/coins/btc/transactions) and the notifier database that is      *)
(* written along with them (backend/notifier.go).                          *)
(*                                                                         *)
(* The server is not trusted and its answers may be applied late and out   *)
(* of order, so UpdateAddressHistory takes any history at all.  One write  *)
(* transaction of bbolt is one action.  AccountSync says where histories   *)
(* come from.                                                              *)
(***************************************************************************)
EXTENDS Integers, FiniteSets

CONSTANTS
    TxIds,      \* transaction hashes
    Addrs,      \* the account's addresses (script hashes)
    OutPoints,  \* transaction outputs, ours or not
    TxIns,      \* [TxIds -> SUBSET OutPoints], what a transaction spends
    Creator,    \* [OutPoints -> TxIds \cup {NoTx}], NoTx: made outside the model
    Owner,      \* [OutPoints -> Addrs \cup {NotOurs}]
    Headers,    \* block headers of every branch of the chain
    HeaderHeight,   \* [Headers -> Nat \ {0}]
    BlockTxs,   \* [Headers -> SUBSET TxIds], what the Merkle root commits to
    Heights,    \* heights the server may report; 0 means unconfirmed
    NoTx, NotOurs, NoHeader,
    MaxJobs     \* bound: verifications in flight

ASSUME ConstantsAssumption ==
    /\ TxIns \in [TxIds -> SUBSET OutPoints]
    /\ Creator \in [OutPoints -> TxIds \cup {NoTx}]
    /\ Owner \in [OutPoints -> Addrs \cup {NotOurs}]
    /\ HeaderHeight \in [Headers -> Heights]
    /\ BlockTxs \in [Headers -> SUBSET TxIds]
    /\ Heights \subseteq Nat /\ 0 \in Heights
    /\ NoTx \notin TxIds /\ NotOurs \notin Addrs /\ NoHeader \notin Headers

VARIABLES
    \* bucket "transactions", one variable per field of DBTxInfo
    txs,                \* hashes that have a record
    msgTx,              \* records with Tx # nil
    height,             \* Height, 0 in the record that TxInfo makes up
    addresses,          \* Addresses
    verified,           \* records with Verified # nil
    headerTimestamp,    \* HeaderTimestamp: the header it was taken from
    \* the other buckets
    unverifiedTransactions, inputs, outputs, addressHistories,
    \* the account's buckets of the notifier database
    unnotified, seen,
    \* verifyTransaction goroutines
    jobs

txRecords == <<txs, msgTx, height, addresses, verified, headerTimestamp>>
dbVars == <<txRecords, unverifiedTransactions, inputs, outputs, addressHistories>>
notifierVars == <<unnotified, seen>>
indexVars == <<dbVars, notifierVars, jobs>>

\* An address history as the server reports it: hash |-> height, in some order
\* that only Status() depends on.  A reply with a duplicate hash is refused.
Histories == UNION {[S -> Heights] : S \in SUBSET TxIds}

Jobs == [tx : TxIds, height : Heights, pc : {"start", "header", "proved"},
         header : Headers \cup {NoHeader}]

Outs(t) == {o \in OutPoints : Creator[o] = t}
NewJob(t, h) == [tx |-> t, height |-> h, pc |-> "start", header |-> NoHeader]

TypeOK ==
    /\ txs \in SUBSET TxIds
    /\ msgTx \in SUBSET TxIds
    /\ height \in [TxIds -> Heights]
    /\ addresses \in [TxIds -> SUBSET Addrs]
    /\ verified \in SUBSET TxIds
    /\ headerTimestamp \in [TxIds -> Headers \cup {NoHeader}]
    /\ unverifiedTransactions \in SUBSET TxIds
    /\ inputs \in [OutPoints -> TxIds \cup {NoTx}]
    /\ outputs \in SUBSET OutPoints
    /\ addressHistories \in [Addrs -> Histories]
    /\ unnotified \in SUBSET TxIds
    /\ seen \in SUBSET TxIds
    /\ jobs \in SUBSET Jobs

\* A new account: the database files do not exist yet.
IndexInit ==
    /\ txs = {} /\ msgTx = {} /\ verified = {} /\ unverifiedTransactions = {}
    /\ height = [t \in TxIds |-> 0]
    /\ addresses = [t \in TxIds |-> {}]
    /\ headerTimestamp = [t \in TxIds |-> NoHeader]
    /\ inputs = [o \in OutPoints |-> NoTx]
    /\ outputs = {}
    /\ addressHistories = [a \in Addrs |-> [t \in {} |-> 0]]
    /\ unnotified = {} /\ seen = {}
    /\ jobs = {}

-----------------------------------------------------------------------------
\* UpdateAddressHistory: entries of the previous history that are gone.
Gone(a, h) == DOMAIN addressHistories[a] \ DOMAIN h

\* removeTxForAddress: of those, the ones that touch none of our addresses any
\* more and are deleted with everything they put into the index.
Emptied(a, h) == {t \in Gone(a, h) : addresses[t] \ {a} = {}}

SpentBy(T) == UNION {TxIns[t] : t \in T}

\* RemoveAddressFromTx and DeleteTx for what is gone, PutTx and AddAddressToTx
\* for what is listed.  DeleteTx leaves the unverified bucket alone.
UpdateTxRecords(a, h) ==
    /\ txs' = (txs \ Emptied(a, h)) \cup DOMAIN h
    /\ msgTx' = (msgTx \ Emptied(a, h)) \cup DOMAIN h
    /\ height' = [t \in TxIds |-> IF t \in DOMAIN h THEN h[t]
                                  ELSE IF t \in Emptied(a, h) THEN 0
                                  ELSE height[t]]
    /\ addresses' = [t \in TxIds |-> IF t \in DOMAIN h THEN addresses[t] \cup {a}
                                     ELSE IF t \in Gone(a, h) THEN addresses[t] \ {a}
                                     ELSE addresses[t]]
    /\ verified' = verified \ Emptied(a, h)
    /\ headerTimestamp' = [t \in TxIds |-> IF t \in Emptied(a, h) THEN NoHeader
                                           ELSE headerTimestamp[t]]
    /\ unverifiedTransactions' = unverifiedTransactions \cup (DOMAIN h \ verified)

\* DeleteInput for every input of a deleted transaction, whoever is recorded
\* there; PutInput for every input of a listed one.  If two listed transactions
\* spend the same output the one listed last stays, which is either of them.
UpdateInputs_OnlyOurs(a, h) ==
    \E spender \in [{o \in SpentBy(DOMAIN h) : Owner[o] = a} -> DOMAIN h] :
        /\ \A o \in DOMAIN spender : o \in TxIns[spender[o]]
        /\ inputs' = [o \in OutPoints |-> IF o \in DOMAIN spender THEN spender[o]
                                          ELSE IF o \in SpentBy(Emptied(a, h)) THEN NoTx
                                          ELSE inputs[o]]
UpdateInputs(a, h) ==
    \E spender \in [SpentBy(DOMAIN h) -> DOMAIN h] :
        /\ \A o \in DOMAIN spender : o \in TxIns[spender[o]]
        /\ inputs' = [o \in OutPoints |-> IF o \in DOMAIN spender THEN spender[o]
                                          ELSE IF o \in SpentBy(Emptied(a, h)) THEN NoTx
                                          ELSE inputs[o]]

\* DeleteOutput for the outputs of a deleted transaction, PutOutput for those of
\* a listed one that pay this address.
UpdateOutputs(a, h) ==
    outputs' = {o \in outputs : Creator[o] \notin Emptied(a, h)}
               \cup {o \in OutPoints : Creator[o] \in DOMAIN h /\ Owner[o] = a}

\* notifier.Delete for D, then notifier.Put for P.  Each call commits in a
\* database of its own; notifyNewTxs between two of them is not modelled here.
NotifierWrites_ForgetsSeen(D, P) ==
    /\ unnotified' = (unnotified \ D) \cup P
    /\ seen' = seen \ D
NotifierWrites(D, P) ==
    /\ unnotified' = (unnotified \ D) \cup (P \ seen)
    /\ seen' = seen \ D
UpdateNotifier(a, h) == NotifierWrites(Emptied(a, h), DOMAIN h)

\* "Newly confirmed tx. Try to verify it."
NewlyConfirmed_Never(h) == {}
NewlyConfirmed(h) == {t \in DOMAIN h : height[t] <= 0 /\ h[t] > 0}

PutAddressHistory_Skipped(a, h) ==
    addressHistories' = IF DOMAIN h = {} THEN addressHistories
                        ELSE [addressHistories EXCEPT ![a] = h]
PutAddressHistory(a, h) == addressHistories' = [addressHistories EXCEPT ![a] = h]

UpdateAddressHistory(a, h) ==
    /\ UpdateTxRecords(a, h)
    /\ UpdateInputs(a, h)
    /\ UpdateOutputs(a, h)
    /\ PutAddressHistory(a, h)
    /\ UpdateNotifier(a, h)
    /\ jobs' = jobs \cup {NewJob(t, h[t]) : t \in NewlyConfirmed(h)}
    /\ Cardinality(jobs') <= MaxJobs

\* The app dies before the index commits: what was written to the notifier stays.
CrashInUpdate(a, h) ==
    /\ \E D \in SUBSET Emptied(a, h), P \in SUBSET DOMAIN h :
        /\ P # {} => D = Emptied(a, h)
        /\ NotifierWrites(D, P)
    /\ jobs' = {}
    /\ UNCHANGED dbVars

-----------------------------------------------------------------------------
\* onHeadersEvent(EventSynced), verifyTransactions: a goroutine for every entry
\* of the unverified bucket, with the height TxInfo reports.
verifyTransactions ==
    /\ jobs' = jobs \cup {NewJob(t, height[t]) : t \in unverifiedTransactions}
    /\ Cardinality(jobs') <= MaxJobs
    /\ UNCHANGED <<dbVars, notifierVars>>

\* verifyTransaction up to the header: nothing to do for an unconfirmed
\* transaction or when the headers are not synced to this height.
GetHeader(j, hdr) ==
    /\ j \in jobs /\ j.pc = "start"
    /\ jobs' = (jobs \ {j}) \cup
               IF j.height <= 0 \/ hdr = NoHeader THEN {}
               ELSE {[j EXCEPT !.pc = "header", !.header = hdr]}
    /\ UNCHANGED <<dbVars, notifierVars>>

\* GetMerkle and the comparison with the header's Merkle root.  The call may
\* fail; a proof that hashes to the root exists only for the block's own
\* transactions.
MerkleOk_Unchecked(j) == TRUE
MerkleOk(j) == j.tx \in BlockTxs[j.header]

GetMerkle(j, ok) ==
    /\ j \in jobs /\ j.pc = "header"
    /\ ok => MerkleOk(j)
    /\ jobs' = (jobs \ {j}) \cup IF ok THEN {[j EXCEPT !.pc = "proved"]} ELSE {}
    /\ UNCHANGED <<dbVars, notifierVars>>

\* MarkTxVerified, a write transaction of its own.  modifyTx makes a new record,
\* with Tx = nil, if there is none.
MarkTxVerified(j) ==
    /\ j \in jobs /\ j.pc = "proved"
    /\ jobs' = jobs \ {j}
    /\ txs' = txs \cup {j.tx}
    /\ verified' = verified \cup {j.tx}
    /\ headerTimestamp' = [headerTimestamp EXCEPT ![j.tx] = j.header]
    /\ unverifiedTransactions' = unverifiedTransactions \ {j.tx}
    /\ UNCHANGED <<msgTx, height, addresses, inputs, outputs, addressHistories, notifierVars>>

\* notifier.MarkAllNotified
MarkAllNotified ==
    /\ unnotified # {}
    /\ seen' = seen \cup unnotified
    /\ unnotified' = {}
    /\ UNCHANGED <<dbVars, jobs>>

\* verifyTransaction goroutines end without a result: the app dies, or the
\* database was closed under them.
JobsEnd(J) ==
    /\ J # jobs
    /\ jobs' = J
    /\ UNCHANGED <<dbVars, notifierVars>>

IndexNext ==
    \/ \E a \in Addrs, h \in Histories : UpdateAddressHistory(a, h) \/ CrashInUpdate(a, h)
    \/ verifyTransactions
    \/ \E j \in jobs, hdr \in Headers \cup {NoHeader} :
        /\ hdr # NoHeader => HeaderHeight[hdr] = j.height
        /\ GetHeader(j, hdr)
    \/ \E j \in jobs, ok \in BOOLEAN : GetMerkle(j, ok)
    \/ \E j \in jobs : MarkTxVerified(j)
    \/ \E J \in SUBSET jobs : JobsEnd(J)
    \/ MarkAllNotified

IndexSpec == IndexInit /\ [][IndexNext]_indexVars

-----------------------------------------------------------------------------
\* isInputSpent, allInputsOurs; SpendableOutputs and the two parts of Balance.
isInputSpent(o) == inputs[o] # NoTx
allInputsOurs(t) == TxIns[t] \subseteq outputs
confirmed(o) == height[Creator[o]] > 0
SpendableOutputs == {o \in outputs : /\ ~isInputSpent(o)
                                     /\ confirmed(o) \/ allInputsOurs(Creator[o])}
Incoming == {o \in outputs : ~isInputSpent(o)} \ SpendableOutputs

-----------------------------------------------------------------------------
\* The three buckets written by UpdateAddressHistory tell the same story: a
\* transaction lists an address exactly if the address' history lists the
\* transaction, and then its body is stored.  removeTxForAddress dereferences
\* that body without a check.
HistoriesIndexed ==
    /\ \A t \in TxIds, a \in Addrs : a \in addresses[t] <=> t \in DOMAIN addressHistories[a]
    /\ \A t \in TxIds : t \in msgTx <=> addresses[t] # {}
    /\ msgTx \subseteq txs

\* The inputs bucket only names transactions that are stored and do spend the
\* output: no coin of ours is hidden by a transaction that was removed.
InputsIndexed ==
    \A o \in OutPoints : isInputSpent(o) => inputs[o] \in msgTx /\ o \in TxIns[inputs[o]]

\* The outputs bucket has every output of a stored transaction that pays an
\* address whose history lists it, and nothing of a removed transaction: Balance
\* and SpendableOutputs look up the creating transaction without a check.
OutputsIndexed ==
    /\ \A o \in outputs : Creator[o] \in msgTx
    /\ \A t \in msgTx : \A o \in Outs(t) : Owner[o] \in addresses[t] => o \in outputs

\* A timestamp shown to the user comes from a header whose Merkle root commits
\* to the transaction, whatever the server and the scheduler did in between.
VerifiedInBlock ==
    /\ \A t \in verified : headerTimestamp[t] # NoHeader
    /\ \A t \in TxIds : headerTimestamp[t] # NoHeader =>
           t \in verified /\ t \in BlockTxs[headerTimestamp[t]]

\* No stored transaction falls through the cracks of verification: it is either
\* verified or still in the bucket that EventSynced works through.
NoneForgotten == msgTx \subseteq verified \cup unverifiedTransactions

\* A transaction that the user was told about does not wait to be announced again,
\* whatever the updates and crashes in between wrote to the notifier's database.
NotifiedOnce == unnotified \cap seen = {}

\* As long as no two transactions of the wallet spend the same output, a spent
\* output is recorded as spent, so that it is neither available nor incoming.
\* (With a double spend this fails: see SpentIsNotAvailable in AccountSync.)
NoDoubleSpend == \A t, u \in TxIds : t # u => TxIns[t] \cap TxIns[u] = {}
SpentIsRecorded ==
    NoDoubleSpend => \A t \in msgTx : \A o \in TxIns[t] : inputs[o] = t

\* The coins of the wallet are those of its stored transactions, whatever the order
\* in which the histories of several addresses come in.
CoinsIndexed == InputsIndexed /\ OutputsIndexed /\ SpentIsRecorded

\* Verification is sound, and forgets no transaction.
VerificationSound == VerifiedInBlock /\ NoneForgotten

\* What makes the above inductive: a goroutine holds a header from its second
\* step on, and one that compared the Merkle roots holds the right one.
JobsSound ==
    \A j \in jobs : /\ j.pc # "start" => j.header \in Headers
                    /\ j.pc = "proved" => j.tx \in BlockTxs[j.header]

IndexInv ==
    /\ TypeOK
    /\ HistoriesIndexed
    /\ InputsIndexed
    /\ OutputsIndexed
    /\ VerifiedInBlock
    /\ NoneForgotten
    /\ NotifiedOnce
    /\ SpentIsRecorded
    /\ JobsSound
=============================================================================
