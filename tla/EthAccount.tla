------------------------------ MODULE EthAccount ------------------------------
(***************************************************************************)
(* An Ethereum or ERC20 account (backend/coins/eth/account.go): the poll   *)
(* goroutine, the goroutines that update the outgoing transactions, and    *)
(* the user's TxProposal, SendTx and WalletConnect calls, against a node   *)
(* that loses transactions, lags and reorganises its chain.                *)
(*                                                                         *)
(* A step ends where the code waits: for updateLock, for the database      *)
(* (bbolt has one write transaction at a time, and every transaction here  *)
(* is one), for the network, the keystore or a channel.                    *)
(***************************************************************************)
EXTENDS Integers, Sequences, FiniteSets, FiniteSetsExt, Functions

CONSTANTS
    Nonces,         \* 0..n
    Recipients,     \* "self" is the account's own address
    Amounts,        \* amounts that the user enters
    Funds,          \* what the address held at first
    Fee,            \* gasLimit * gasFeeCap
    IsErc20,        \* an ERC20 account: amounts are tokens, fees are not
    Outcomes,       \* of executing a transaction, a subset of BOOLEAN
    Complete,       \* NumConfirmationsComplete, 12
    NodeLags,       \* may the node answer with an old nonce?
    Workers,        \* bound: goroutines in updateOutgoingTransactions
    NoTx,
    MaxHeight,      \* bound: blocks
    MaxTroubles     \* bound: how many of Troubles happen in a behaviour

\* What the node, the network, the app and WalletConnect may do, each at most once.
Troubles == {"lost", "reorg", "fault", "crash", "walletconnect"}

Tx == [nonce : Nonces, to : Recipients, value : 0..Funds]
Blocks == [tx : Tx \cup {NoTx}, ok : BOOLEAN]
Records == [height : Nat, success : BOOLEAN]

ASSUME EthAssumption ==
    /\ NoTx \notin Tx /\ "none" \notin Workers /\ Nonces \subseteq Nat
    /\ Funds \in Nat /\ Fee \in Nat /\ Amounts \subseteq 0..Funds
    /\ Complete \in Nat \ {0} /\ MaxHeight \in Nat /\ MaxTroubles \in Nat
    /\ Outcomes \subseteq BOOLEAN /\ IsErc20 \in BOOLEAN /\ NodeLags \in BOOLEAN

VARIABLES
    chain,          \* the node's blocks, each with at most one of our transactions
    mempool,
    troubles,
    status,         \* "new", "open" or "closed"
    poll,           \* where the poll goroutine is
    conf,           \* confirmedTransactions
    out,            \* outgoingTransactions, [SUBSET Tx -> Records]
    blockNumber,    \* during an update, whose requests are the only ones to use it
    nextNonce, balance, offline, synced,
    transactions,   \* the identifiers in account.transactions
    initDone,       \* has poll called initDone?
    proposal,       \* activeTxProposal
    proposing,      \* the transaction newTx waits for a keystore with, or NoTx
    send, sendTx,   \* SendTx: where it is, and its transaction
    db,             \* bucketOutgoingTransactions, [SUBSET Tx -> Records]
    dbHolder,       \* the goroutine whose transaction is open for more than a step
    worker,         \* [Workers -> where it is]
    tip,            \* [Workers -> tipHeight]
    draft,          \* the open transaction of dbHolder
    sent            \* history: the transactions for which SendTx returned nil

nodeVars == <<chain, mempool>>
shownVars == <<nextNonce, balance, transactions>>
pollVars == <<poll, blockNumber, conf, out, offline, initDone>>
userVars == <<proposal, proposing, send, sendTx, sent>>
workerVars == <<dbHolder, worker, tip, draft>>
vars == <<nodeVars, troubles, status, shownVars, pollVars, synced, userVars, db, workerVars>>

Updating == poll \in {"source", "outgoing", "nonce", "balance"}

TypeOK ==
    /\ chain \in Seq(Blocks) /\ mempool \subseteq Tx
    /\ troubles \subseteq Troubles /\ status \in {"new", "open", "closed"}
    /\ poll \in {"none", "idle", "source", "outgoing", "nonce", "balance"}
    /\ conf \subseteq Tx /\ DOMAIN out \subseteq Tx
    /\ blockNumber \in Nat /\ nextNonce \in Nat /\ balance \in Int
    /\ transactions \subseteq Tx
    /\ offline \in BOOLEAN /\ synced \in BOOLEAN /\ initDone \in BOOLEAN
    /\ proposal \in Tx \cup {NoTx} /\ proposing \in Tx \cup {NoTx}
    /\ send \in {"idle", "broadcast", "store", "enqueue"}
    /\ sendTx \in Tx \cup {NoTx} /\ (send = "idle" <=> sendTx = NoTx)
    /\ DOMAIN db \subseteq Tx /\ (\A t \in DOMAIN db : db[t] \in Records)
    /\ dbHolder \in Workers \cup {"none"}
    /\ worker \in [Workers -> {"off", "begin", "loop"}]
    /\ tip \in [Workers -> Nat]
    /\ DOMAIN draft \subseteq Tx /\ (\A t \in DOMAIN draft : draft[t] \in Records)
    /\ sent \subseteq Tx

None == [t \in {} |-> [height |-> 0, success |-> FALSE]]

\* What a start of the app sets.
Start ==
    /\ poll = "none" /\ conf = {} /\ out = None /\ offline = FALSE /\ initDone = FALSE
    /\ synced = FALSE
    /\ blockNumber = 0 /\ nextNonce = 0 /\ balance = 0 /\ transactions = {}
    /\ proposal = NoTx /\ proposing = NoTx /\ send = "idle" /\ sendTx = NoTx
    /\ dbHolder = "none" /\ draft = None
    /\ worker = [w \in Workers |-> "off"]
    /\ tip = [w \in Workers |-> 0]

\* NewAccount
Init ==
    /\ status = "new" /\ Start
    /\ chain = <<>> /\ mempool = {} /\ troubles = {}
    /\ db = None /\ sent = {}

-----------------------------------------------------------------------------
(* The node and Etherscan.                                                 *)

Included == {i \in 1..Len(chain) : chain[i].tx # NoTx}
Mined == {chain[i].tx : i \in Included}
HeightOf(t) == IF t \in Mined THEN CHOOSE i \in Included : chain[i].tx = t ELSE 0
MinedNonce == Cardinality(Included)

\* What a transaction costs its sender.
Value(t) == IF t.to = "self" THEN 0 ELSE t.value
Spent(t, ok) == (IF ok THEN Value(t) ELSE 0) + (IF IsErc20 THEN 0 ELSE Fee)

Balance == Funds - SumFunction([i \in Included |-> Spent(chain[i].tx, chain[i].ok)])

\* A node refuses what it knows and what conflicts with what it knows.
Accepts(t) == t.nonce >= MinedNonce /\ \A u \in mempool : u.nonce # t.nonce

\* eth_getTransactionCount with "pending", which "might be out of date due to latency".
PendingNonceAt ==
    LET upTo == {n \in MinedNonce..(MinedNonce + Cardinality(mempool)) :
                    \A k \in MinedNonce..(n - 1) : \E t \in mempool : t.nonce = k}
    IN  IF NodeLags THEN upTo ELSE {Max(upTo)}

Trouble(kind) ==
    /\ kind \notin troubles /\ Cardinality(troubles) < MaxTroubles
    /\ troubles' = troubles \cup {kind}

NewBlock(t, ok) ==
    /\ Len(chain) < MaxHeight
    /\ t # NoTx => t \in mempool /\ t.nonce = MinedNonce
    /\ chain' = Append(chain, [tx |-> t, ok |-> ok])
    /\ mempool' = mempool \ {t}
    /\ UNCHANGED troubles

Reorg ==
    /\ chain # <<>> /\ Trouble("reorg")
    /\ chain' = SubSeq(chain, 1, Len(chain) - 1)
    /\ mempool' = mempool \cup ({chain[Len(chain)].tx} \ {NoTx})

\* "By experience, [SendTransaction] can succeed and still the transaction will be lost"
Lose(t) ==
    /\ Trouble("lost")
    /\ mempool' = mempool \ {t}
    /\ UNCHANGED chain

Node ==
    /\ \/ \E t \in mempool \cup {NoTx}, ok \in Outcomes : NewBlock(t, ok)
       \/ Reorg
       \/ \E t \in mempool : Lose(t)
    /\ UNCHANGED <<status, shownVars, pollVars, synced, userVars, db, workerVars>>

-----------------------------------------------------------------------------
(* Initialize and poll.                                                    *)

\* Synchronizer: who counts the requests down to zero sets synced.
OthersOff(W) == \A w \in Workers \ W : worker[w] = "off"
CountOut(w) == synced' = (synced \/ (initDone /\ ~Updating /\ OthersOff({w})))

Initialize ==
    /\ status = "new"
    /\ status' = "open" /\ poll' = "idle"
    /\ UNCHANGED <<nodeVars, troubles, shownVars, blockNumber, conf, out, offline, initDone, synced>>
    /\ UNCHANGED <<userVars, db, workerVars>>

\* SendTx goes on, or returns.
GotoSend(s) == send' = s /\ sendTx' = IF s = "idle" THEN NoTx ELSE sendTx

Quit ==
    /\ poll = "idle" /\ status = "closed"
    /\ poll' = "none"
    /\ UNCHANGED <<nodeVars, troubles, status, shownVars, blockNumber, conf, out, offline, initDone, synced>>
    /\ UNCHANGED <<userVars, db, workerVars>>

\* The end of update, with or without an error, and the rest of poll's round.
EndUpdate(failed) ==
    /\ poll' = IF status = "closed" THEN "none" ELSE "idle"
    /\ offline' = failed /\ initDone' = TRUE
    /\ blockNumber' = 0 /\ conf' = {} /\ out' = None
    /\ synced' = (synced \/ OthersOff({}))

\* The timer fires, or SendTx hands over its update; both can still win against quitChan
\* in the select.  update takes updateLock and asks for the height of the chain.
ReceiveEnqueued == send = "enqueue" /\ GotoSend("idle") /\ sent' = sent \cup {sendTx}
Wake_TimerOnly == UNCHANGED <<send, sendTx, sent>>
Wake == UNCHANGED <<send, sendTx, sent>> \/ ReceiveEnqueued

UpdateFails ==
    /\ Trouble("fault")
    /\ \/ poll = "idle" /\ proposing = NoTx /\ Wake
       \/ poll \in {"source", "nonce", "balance"} /\ UNCHANGED <<send, sendTx, sent>>
    /\ EndUpdate(TRUE)
    /\ UNCHANGED <<nodeVars, status, shownVars, proposal, proposing, db, workerVars>>

BlockNumber(w) ==
    /\ poll = "idle" /\ proposing = NoTx
    /\ worker[w] = "off"
    /\ Wake
    /\ blockNumber' = Len(chain)
    /\ worker' = [worker EXCEPT ![w] = "begin"]
    /\ tip' = [tip EXCEPT ![w] = Len(chain)]
    /\ poll' = "source"
    /\ UNCHANGED <<nodeVars, troubles, status, shownVars, conf, out, offline, initDone>>
    /\ UNCHANGED <<synced, proposal, proposing, db, dbHolder, draft>>

\* Etherscan's transactions up to blockNumber, without duplicates.
TransactionsSource == {t \in Mined : HeightOf(t) <= blockNumber}
GetTransactions ==
    /\ poll = "source"
    /\ conf' = TransactionsSource
    /\ poll' = "outgoing"
    /\ UNCHANGED <<nodeVars, troubles, status, shownVars, blockNumber, out, offline, initDone, synced>>
    /\ UNCHANGED <<userVars, db, workerVars>>

\* The stored transactions that the source does not have.  A closed database is an error.
outgoingTransactions ==
    /\ poll = "outgoing" /\ dbHolder = "none"
    /\ \/ status = "closed" /\ EndUpdate(TRUE)
       \/ /\ status # "closed"
          /\ out' = [t \in DOMAIN db \ conf |-> db[t]]
          /\ poll' = "nonce"
          /\ UNCHANGED <<blockNumber, conf, offline, initDone, synced>>
    /\ UNCHANGED <<nodeVars, troubles, status, shownVars, userVars, db, workerVars>>

\* The list is sorted by descending nonce and its last element is used.
LocalNonce == Min({t.nonce : t \in DOMAIN out}) + 1
NextNonce(nodeNonce) ==
    IF DOMAIN out # {} /\ LocalNonce > nodeNonce THEN LocalNonce ELSE nodeNonce

SetNonce ==
    /\ poll = "nonce"
    /\ \E n \in PendingNonceAt : nextNonce' = NextNonce(n)
    /\ transactions' = DOMAIN out \cup conf
    /\ poll' = "balance"
    /\ UNCHANGED <<nodeVars, troubles, status, blockNumber, balance, conf, out, offline>>
    /\ UNCHANGED <<initDone, synced, userVars, db, workerVars>>

\* TransactionData: the difference is computed in uint64 and converted to int.
numConfirmations(rec) == IF rec.height > 0 THEN blockNumber - rec.height + 1 ELSE 0
txStatus(rec) ==
    IF numConfirmations(rec) = 0 THEN "pending"
    ELSE IF ~rec.success THEN "failed"
    ELSE IF numConfirmations(rec) >= Complete THEN "complete"
    ELSE "pending"

SpentBy(S) == SumFunction([t \in S |-> Spent(t, TRUE)])
pendingTxsAmount_NewestOnly == SpentBy({t \in DOMAIN out : t.nonce = Max({u.nonce : u \in DOMAIN out})})
pendingTxsAmount == SpentBy({t \in DOMAIN out : txStatus(out[t]) = "pending"})

SetBalance ==
    /\ poll = "balance"
    /\ balance' = Balance - pendingTxsAmount
    /\ EndUpdate(FALSE)
    /\ UNCHANGED <<nodeVars, troubles, status, nextNonce, transactions>>
    /\ UNCHANGED <<userVars, db, workerVars>>

-----------------------------------------------------------------------------
(* updateOutgoingTransactions                                              *)

Begin(w) ==
    /\ worker[w] = "begin" /\ dbHolder = "none"
    /\ \/ /\ status # "closed"
          /\ dbHolder' = w /\ draft' = db
          /\ worker' = [worker EXCEPT ![w] = "loop"]
          /\ UNCHANGED <<synced, tip>>
       \/ /\ status = "closed"
          /\ worker' = [worker EXCEPT ![w] = "off"]
          /\ tip' = [tip EXCEPT ![w] = 0]
          /\ CountOut(w)
          /\ UNCHANGED <<dbHolder, draft>>
    /\ UNCHANGED <<nodeVars, troubles, status, shownVars, pollVars, userVars, db>>

NeedsUpdate_OnlyNew(rec, height, ok, tipHeight) == rec.height = 0
\* Is the record out of date?  tipHeight - BlockNumber wraps around below zero.
NeedsUpdate(rec, height, ok, tipHeight) ==
    \/ rec.height = 0
    \/ height <= tipHeight /\ tipHeight - height < Complete
    \/ rec.success # ok

\* A receipt was found.
UpdateRecord(rec, t, tipHeight) ==
    LET h == HeightOf(t) IN
    IF NeedsUpdate(rec, h, chain[h].ok, tipHeight)
    THEN [height |-> h, success |-> chain[h].ok]
    ELSE rec

\* No receipt, and the node does not know the transaction: it is sent again.  Of two
\* with the same nonce the node takes the first.
Rebroadcast(S) ==
    LET missing == {t \in S : t \notin Mined \cup mempool /\ Accepts(t)} IN
    \E R \in SUBSET missing :
        /\ \A t \in missing : \E u \in R : u.nonce = t.nonce
        /\ \A t, u \in R : t.nonce = u.nonce => t = u
        /\ mempool' = mempool \cup R

\* The loop over the stored transactions, of which some requests may fail, and Commit.
Commit(w) ==
    /\ worker[w] = "loop"
    /\ \E failed \in SUBSET DOMAIN draft :
        /\ IF failed = {} THEN UNCHANGED troubles ELSE Trouble("fault")
        /\ db' = [t \in DOMAIN draft |->
                    IF t \in Mined \ failed THEN UpdateRecord(draft[t], t, tip[w]) ELSE draft[t]]
        /\ Rebroadcast(DOMAIN draft \ failed)
    /\ draft' = None /\ dbHolder' = "none"
    /\ worker' = [worker EXCEPT ![w] = "off"]
    /\ tip' = [tip EXCEPT ![w] = 0]
    /\ CountOut(w)
    /\ UNCHANGED <<chain, status, shownVars, pollVars, userVars>>

-----------------------------------------------------------------------------
(* TxProposal, SendTx and EthSignWalletConnectTx                           *)

\* The values that newTx accepts: an entered amount, or all there is.
Affordable ==
    IF IsErc20 THEN {v \in Amounts : v <= balance} \cup {balance}
    ELSE {v \in Amounts : v + Fee <= balance}
         \cup (IF balance - Fee >= 0 THEN {balance - Fee} ELSE {})

\* newTx up to ConnectKeystore, with updateLock held until it returns.  Bound: the user
\* makes no proposal while SendTx runs.
TxProposal ==
    /\ status = "open" /\ synced
    /\ ~Updating /\ proposing = NoTx /\ send = "idle"
    /\ nextNonce \in Nonces
    /\ \E v \in Affordable \cap 0..Funds, r \in Recipients :
        proposing' = [nonce |-> nextNonce, to |-> r, value |-> v]
    /\ UNCHANGED <<nodeVars, troubles, status, shownVars, pollVars, synced, proposal>>
    /\ UNCHANGED <<send, sendTx, sent, db, workerVars>>

\* The keystore is there, or the wait for it failed.
ProposalReady ==
    /\ proposing # NoTx
    /\ proposal' \in {proposal, proposing}
    /\ proposing' = NoTx
    /\ UNCHANGED <<nodeVars, troubles, status, shownVars, pollVars, synced>>
    /\ UNCHANGED <<send, sendTx, sent, db, workerVars>>

SendTx ==
    /\ status = "open" /\ send = "idle" /\ proposal # NoTx
    /\ ~Updating /\ proposing = NoTx
    /\ send' = "broadcast" /\ sendTx' = proposal
    /\ UNCHANGED <<nodeVars, troubles, status, shownVars, pollVars, synced, proposal, proposing>>
    /\ UNCHANGED <<sent, db, workerVars>>

\* ConnectKeystore, SignTransaction, SendTransaction.  The user may abort the first two,
\* and a request that failed may still have reached the node.
Broadcast ==
    /\ send = "broadcast"
    /\ \/ UNCHANGED troubles /\ UNCHANGED mempool /\ GotoSend("idle")
       \/ /\ Accepts(sendTx) /\ UNCHANGED troubles
          /\ mempool' = mempool \cup {sendTx} /\ GotoSend("store")
       \/ /\ Accepts(sendTx) /\ Trouble("fault")
          /\ mempool' \in {mempool, mempool \cup {sendTx}} /\ GotoSend("idle")
    /\ UNCHANGED <<chain, status, shownVars, pollVars, synced, proposal>>
    /\ UNCHANGED <<proposing, sent, db, workerVars>>

\* storePendingOutgoingTransaction, then the note.
MayStore_NoLock == send = "store"
MayStore == send = "store" /\ dbHolder = "none"
Store ==
    db' = [t \in DOMAIN db \cup {sendTx} |->
                IF t = sendTx THEN [height |-> 0, success |-> FALSE] ELSE db[t]]
storePendingOutgoingTransaction ==
    /\ MayStore
    /\ \/ status = "closed" /\ GotoSend("idle") /\ UNCHANGED db
       \/ status # "closed" /\ Store /\ GotoSend("enqueue")
    /\ UNCHANGED <<nodeVars, troubles, status, shownVars, pollVars, synced, proposal, proposing>>
    /\ UNCHANGED <<sent, workerVars>>

\* Signed and sent, but not stored.
EthSignWalletConnectTx ==
    /\ status = "open" /\ nextNonce \in Nonces
    /\ Trouble("walletconnect")
    /\ \E v \in Amounts, r \in Recipients :
        LET t == [nonce |-> nextNonce, to |-> r, value |-> v] IN
        /\ Accepts(t)
        /\ mempool' = mempool \cup {t}
    /\ UNCHANGED <<chain, status, shownVars, pollVars, synced>>
    /\ UNCHANGED <<userVars, db, workerVars>>

-----------------------------------------------------------------------------
\* Close: bbolt waits for an open transaction.
Close ==
    /\ status = "open" /\ dbHolder = "none"
    /\ status' = "closed" /\ synced' = FALSE
    /\ UNCHANGED <<nodeVars, troubles, shownVars, pollVars, userVars, db, workerVars>>

Crash ==
    /\ Trouble("crash")
    /\ status' = "new" /\ poll' = "none"
    /\ blockNumber' = 0 /\ conf' = {} /\ out' = None /\ offline' = FALSE
    /\ initDone' = FALSE /\ synced' = FALSE
    /\ nextNonce' = 0 /\ balance' = 0 /\ transactions' = {}
    /\ proposal' = NoTx /\ proposing' = NoTx /\ send' = "idle" /\ sendTx' = NoTx
    /\ dbHolder' = "none" /\ draft' = None
    /\ worker' = [w \in Workers |-> "off"]
    /\ tip' = [w \in Workers |-> 0]
    /\ UNCHANGED <<nodeVars, db, sent>>

Poll ==
    \/ Quit \/ GetTransactions \/ outgoingTransactions \/ SetNonce \/ SetBalance
    \/ \E w \in Workers : BlockNumber(w)
Work(w) == Begin(w) \/ Commit(w)
User ==
    TxProposal \/ ProposalReady \/ SendTx \/ Broadcast
    \/ storePendingOutgoingTransaction \/ EthSignWalletConnectTx

Next ==
    \/ Node
    \/ Initialize
    \/ Poll
    \/ UpdateFails
    \/ \E w \in Workers : Work(w)
    \/ User
    \/ Close
    \/ Crash

\* Goroutines run, requests are answered, a keystore that is waited for comes or
\* the wait ends.  The timer and SendTx's channel are both served again and again.
Fairness ==
    /\ WF_vars(Initialize)
    /\ WF_vars(Poll)
    /\ SF_vars(ReceiveEnqueued /\ \E w \in Workers : BlockNumber(w))
    /\ \A w \in Workers : WF_vars(Work(w)) /\ SF_vars(Begin(w))
    /\ SF_vars(\E w \in Workers : BlockNumber(w))
    /\ SF_vars(outgoingTransactions)
    /\ WF_vars(ProposalReady) /\ WF_vars(Broadcast)
    /\ SF_vars(storePendingOutgoingTransaction)

Spec == Init /\ [][Next]_vars
FairSpec == Spec /\ Fairness

-----------------------------------------------------------------------------
\* Once SendTx has stored a transaction, the record survives crashes and the
\* write transactions of updateOutgoingTransactions that run at the same time.
SentIsStored ==
    /\ sent \subseteq DOMAIN db
    /\ send = "enqueue" => sendTx \in DOMAIN db

\* An open transaction starts from what is stored: nothing is written behind its back.
DraftIsCurrent == dbHolder # "none" => DOMAIN draft = DOMAIN db

\* After an update that followed a SendTx, the balance that proposals are checked
\* against does not count on money that was sent, mined or not; except that a
\* reorganisation between two requests of an update may undo what was counted.
AtRest == poll = "idle" /\ status = "open" /\ initDone /\ ~offline /\ send # "enqueue"
Replaced(t) == \E u \in Mined : u # t /\ u.nonce = t.nonce
Debit(t) == IF t \in Mined THEN Spent(t, chain[HeightOf(t)].ok) ELSE Spent(t, TRUE)
BalanceAccountsForSent ==
    AtRest /\ "reorg" \notin troubles =>
        balance <= Funds - SumFunction([t \in {u \in sent : ~Replaced(u)} |-> Debit(t)])

\* "In case the nodeNonce is not up to date, we fall back to our stored last nonce to
\* compute the next nonce": the next nonce is not that of a transaction in the list.
NextNonceIsFresh ==
    AtRest => \A t \in transactions : t.nonce < nextNonce

\* A stored transaction that the node lost gets to the node again, unless another one
\* has taken its nonce or the account is closed.
StoredGetsBroadcast ==
    \A t \in Tx : t \in DOMAIN db ~>
        (t \in mempool \/ t \in Mined \/ Replaced(t) \/ status = "closed"
         \/ \E u \in mempool : u.nonce = t.nonce)

\* The stored height of a mined transaction ends up right, through reorganisations
\* and receipts newer than the tip they are compared with, if the account looks
\* again before the transaction is Complete blocks deep.
HeightsSettle ==
    <>[](status = "open" =>
            \A t \in DOMAIN db \cap Mined :
                \/ db[t].height = HeightOf(t)
                \/ Len(chain) - HeightOf(t) >= Complete)

\* What becomes of a stored transaction: the node gets it, and its height becomes right.
OutgoingSettle == StoredGetsBroadcast /\ HeightsSettle

\* SendTx returns, and Initialize's first synchronisation ends, unless the account is closed.
SendReturns == send # "idle" ~> (send = "idle" \/ status = "closed")
FirstSyncEnds == status = "open" ~> (synced \/ status # "open")

\* Neither the user nor WaitSynchronized is left waiting.
NobodyWaits == SendReturns /\ FirstSyncEnds

\* What is stored and confirmed is a log that only grows.
Log == INSTANCE OutgoingLog WITH stored <- DOMAIN db, confirmed <- sent
LogSpec == Log!LogSpec
=============================================================================
