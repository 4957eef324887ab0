-------------------------- MODULE EthAccount_proofs --------------------------
(***************************************************************************)
(* Proofs about EthAccount: what SendTx confirmed stays stored, the        *)
(* account implements OutgoingLog, and the balance that proposals are      *)
(* checked against accounts for what was sent, for any nonces, amounts,    *)
(* fees and any number of goroutines in updateOutgoingTransactions.        *)
(***************************************************************************)
EXTENDS EthAccount, NatLemmas, TLAPS

\* The transactions that the user's calls hold.
Held ==
    /\ proposal \in Tx \cup {NoTx} /\ proposing \in Tx \cup {NoTx}
    /\ sendTx \in Tx \cup {NoTx} /\ (send # "idle" => sendTx \in Tx)

\* An open transaction belongs to the worker in its loop.
Locked ==
    /\ worker \in [Workers -> {"off", "begin", "loop"}]
    /\ \A w \in Workers : worker[w] = "loop" => dbHolder = w

IInv == Held /\ Locked /\ DraftIsCurrent /\ SentIsStored

\* NewAccount, or a restart, holds nothing.
LEMMA InitIInv == Init => IInv
  BY DEF Init, Start, IInv, Held, Locked, DraftIsCurrent, SentIsStored, None

\* Steps that leave the user's transactions, the database and the workers alone.
LEMMA Frame ==
    IInv /\ UNCHANGED <<userVars, db, workerVars>> => IInv'
  BY DEF IInv, Held, Locked, DraftIsCurrent, SentIsStored, userVars, workerVars

\* A poll step, which may receive the update that SendTx enqueued.
LEMMA PollKeeps ==
    ASSUME IInv, UpdateFails \/ \E w \in Workers : BlockNumber(w)
    PROVE  IInv'
  <1>1. UNCHANGED <<db, dbHolder, draft, proposal, proposing>>
    BY DEF UpdateFails, BlockNumber, workerVars
  <1>2. \/ UNCHANGED <<send, sendTx, sent>>
        \/ send = "enqueue" /\ send' = "idle" /\ sendTx' = NoTx /\ sent' = sent \cup {sendTx}
    BY DEF UpdateFails, BlockNumber, Wake, ReceiveEnqueued, GotoSend
  <1>3. Held' /\ SentIsStored' /\ DraftIsCurrent'
    BY <1>1, <1>2 DEF IInv, Held, SentIsStored, DraftIsCurrent
  <1>4. \/ UNCHANGED worker
        \/ \E w \in Workers : worker[w] = "off" /\ worker' = [worker EXCEPT ![w] = "begin"]
    BY DEF UpdateFails, BlockNumber, workerVars
  <1>5. Locked'
    BY <1>1, <1>4 DEF IInv, Locked
  <1> QED BY <1>3, <1>5 DEF IInv

\* Begin copies the database, Commit writes the copy back: the database keeps its keys.
LEMMA WorkKeeps ==
    ASSUME IInv, NEW w \in Workers, Work(w)
    PROVE  IInv' /\ DOMAIN db' = DOMAIN db /\ UNCHANGED sent
  <1>1. UNCHANGED userVars
    BY DEF Work, Begin, Commit
  <1>2. CASE Begin(w)
    <2>1. UNCHANGED db BY <1>2 DEF Begin
    <2>2. Locked' BY <1>2, EthAssumption DEF Begin, IInv, Locked
    <2>3. DraftIsCurrent' BY <1>2 DEF Begin, IInv, DraftIsCurrent
    <2> QED BY <1>1, <2>1, <2>2, <2>3 DEF IInv, Held, SentIsStored, userVars
  <1>3. CASE Commit(w)
    <2>1. DOMAIN draft = DOMAIN db
      BY <1>3, EthAssumption DEF Commit, IInv, Locked, DraftIsCurrent
    <2>2. DOMAIN db' = DOMAIN db
      BY <1>3, <2>1 DEF Commit
    <2>3. Locked'
      BY <1>3, EthAssumption DEF Commit, IInv, Locked
    <2>4. DraftIsCurrent' BY <1>3 DEF Commit, DraftIsCurrent
    <2> QED BY <1>1, <2>2, <2>3, <2>4 DEF IInv, Held, SentIsStored, userVars
  <1> QED BY <1>2, <1>3 DEF Work

\* Of the user's steps only storePendingOutgoingTransaction writes, and only when no
\* other transaction is open; it adds a transaction.
LEMMA UserKeeps ==
    ASSUME IInv, User
    PROVE  /\ IInv' /\ UNCHANGED sent
           /\ \/ DOMAIN db' = DOMAIN db
              \/ \E t \in Tx : DOMAIN db' = DOMAIN db \cup {t}
  <1>1. UNCHANGED <<workerVars, sent>>
    BY DEF User, TxProposal, ProposalReady, SendTx, Broadcast,
           storePendingOutgoingTransaction, EthSignWalletConnectTx, userVars
  <1>2. Locked' BY <1>1 DEF IInv, Locked, workerVars
  <1>3. CASE TxProposal
    BY <1>1, <1>2, <1>3 DEF TxProposal, IInv, Held, SentIsStored, DraftIsCurrent, workerVars, Tx
  <1>4. CASE ProposalReady
    BY <1>1, <1>2, <1>4 DEF ProposalReady, IInv, Held, SentIsStored, DraftIsCurrent, workerVars
  <1>5. CASE SendTx
    BY <1>1, <1>2, <1>5 DEF SendTx, IInv, Held, SentIsStored, DraftIsCurrent, workerVars
  <1>6. CASE Broadcast
    <2>1. UNCHANGED <<db, proposal, proposing>> /\ send' \in {"idle", "store"}
          /\ sendTx' = (IF send' = "idle" THEN NoTx ELSE sendTx) /\ send # "idle"
      BY <1>6 DEF Broadcast, GotoSend
    <2> QED BY <1>1, <1>2, <2>1 DEF IInv, Held, SentIsStored, DraftIsCurrent, workerVars
  <1>7. CASE storePendingOutgoingTransaction
    <2>1. sendTx \in Tx /\ dbHolder = "none" /\ UNCHANGED <<proposal, proposing>>
      BY <1>7 DEF storePendingOutgoingTransaction, MayStore, IInv, Held
    <2>2. CASE status = "closed"
      BY <1>1, <1>2, <1>7, <2>1, <2>2 DEF storePendingOutgoingTransaction, GotoSend, IInv, Held,
             SentIsStored, DraftIsCurrent, workerVars
    <2>3. CASE status # "closed"
      <3>1. DOMAIN db' = DOMAIN db \cup {sendTx} /\ send' = "enqueue" /\ sendTx' = sendTx
        BY <1>7, <2>3 DEF storePendingOutgoingTransaction, Store, GotoSend
      <3> QED BY <1>1, <1>2, <2>1, <3>1 DEF IInv, Held, SentIsStored, DraftIsCurrent, workerVars
    <2> QED BY <2>2, <2>3
  <1>8. CASE EthSignWalletConnectTx
    BY <1>8, Frame DEF EthSignWalletConnectTx, userVars
  <1> QED BY <1>3, <1>4, <1>5, <1>6, <1>7, <1>8 DEF User

\* A crash keeps the database and what was promised.
LEMMA CrashKeeps ==
    ASSUME IInv, Crash
    PROVE  IInv' /\ UNCHANGED <<db, sent>>
  BY DEF IInv, Crash, Held, Locked, SentIsStored, DraftIsCurrent

\* The step of the induction, with what it does to the log.
LEMMA NextIInv ==
    ASSUME IInv, [Next]_vars
    PROVE  /\ IInv'
           /\ \/ DOMAIN db' = DOMAIN db /\ UNCHANGED sent
              \/ \E t \in Tx : DOMAIN db' = DOMAIN db \cup {t} /\ UNCHANGED sent
              \/ \E t \in DOMAIN db \cap Tx : DOMAIN db' = DOMAIN db /\ sent' = sent \cup {t}
  <1>1. CASE Node \/ Initialize \/ Close \/ Quit \/ GetTransactions \/ outgoingTransactions
             \/ SetNonce \/ SetBalance \/ UNCHANGED vars
    <2>1. UNCHANGED <<userVars, db, workerVars>>
      BY <1>1 DEF Node, Initialize, Close, Quit, GetTransactions, outgoingTransactions,
             SetNonce, SetBalance, vars
    <2> QED BY <2>1, Frame DEF userVars
  <1>2. CASE UpdateFails \/ \E w \in Workers : BlockNumber(w)
    <2>1. UNCHANGED db BY <1>2 DEF UpdateFails, BlockNumber
    <2>2. UNCHANGED sent \/ (send = "enqueue" /\ sent' = sent \cup {sendTx})
      BY <1>2 DEF UpdateFails, BlockNumber, Wake, ReceiveEnqueued
    <2>3. send = "enqueue" => sendTx \in DOMAIN db \cap Tx
      BY DEF IInv, Held, SentIsStored
    <2> QED BY <1>2, <2>1, <2>2, <2>3, PollKeeps
  <1>3. CASE \E w \in Workers : Work(w)
    BY <1>3, WorkKeeps
  <1>4. CASE User
    BY <1>4, UserKeeps
  <1>5. CASE Crash
    BY <1>5, CrashKeeps
  <1> QED BY <1>1, <1>2, <1>3, <1>4, <1>5 DEF Next, Poll

\* The inductive invariant holds in every behaviour.
THEOREM EthInvariance == Spec => []IInv
  <1>1. IInv /\ [Next]_vars => IInv' BY NextIInv
  <1> QED BY <1>1, InitIInv, PTL DEF Spec

\* What SendTx confirmed is on disk, through crashes and concurrent write transactions.
THEOREM SentIsStoredHolds == Spec => []SentIsStored
  <1>1. IInv => SentIsStored BY DEF IInv
  <1> QED BY <1>1, EthInvariance, PTL

\* An account implements the log: records are only added, and only recorded
\* transactions are confirmed.
THEOREM LogRefinement == Spec => LogSpec
  <1>1. Init => Log!LogInit
    BY DEF Init, None, Log!LogInit
  <1>2. IInv /\ [Next]_vars => [Log!LogNext]_(Log!logVars)
    <2> SUFFICES ASSUME IInv, [Next]_vars
                 PROVE  [Log!LogNext]_(Log!logVars)
      OBVIOUS
    <2> QED BY NextIInv DEF Log!LogNext, Log!Store, Log!Confirm, Log!logVars
  <1> QED BY <1>1, <1>2, EthInvariance, PTL DEF Spec, LogSpec, Log!LogSpec

-----------------------------------------------------------------------------
(* The balance                                                             *)

\* What the node and the database hold.
Stored ==
    /\ chain \in Seq(Blocks) /\ mempool \subseteq Tx
    /\ DOMAIN db \subseteq Tx /\ IsFiniteSet(DOMAIN db)
    /\ status = "new" => poll = "none" /\ ~initDone

\* A record with a height is one of a mined transaction.
RecordOK(rec, t) == rec.height \in Nat /\ (rec.height > 0 => t \in Mined)
RecordsOK ==
    /\ \A t \in DOMAIN db : RecordOK(db[t], t)
    /\ \A t \in DOMAIN draft : RecordOK(draft[t], t)

\* Every nonce is mined once.
MinedOnce ==
    /\ \A i \in Included : chain[i].tx.nonce < MinedNonce
    /\ \A i, j \in Included : chain[i].tx.nonce = chain[j].tx.nonce => i = j

\* From the request for the outgoing transactions on, an update has every transaction that was sent:
\* either the source had it, and then it is mined, or it is among the stored ones.
UpdateOK ==
    /\ poll \in {"outgoing", "nonce", "balance"} => conf \subseteq Mined
    /\ poll \in {"nonce", "balance"} =>
        /\ sent \subseteq DOMAIN out \cup conf
        /\ DOMAIN out \subseteq Tx /\ IsFiniteSet(DOMAIN out)
        /\ \A t \in DOMAIN out : RecordOK(out[t], t)

\* What was sent and can still be mined, or is.
Live == {t \in sent : ~Replaced(t)}
Owed == SumFunction([t \in Live |-> Debit(t)])
BalanceOK == poll = "idle" /\ initDone /\ ~offline => balance \in Int /\ balance <= Funds - Owed

BInv ==
    /\ Stored
    /\ "reorg" \notin troubles => RecordsOK /\ MinedOnce /\ UpdateOK /\ BalanceOK

\* The blocks with our transactions.
LEMMA ChainFacts ==
    ASSUME Stored
    PROVE  /\ Len(chain) \in Nat /\ IsFiniteSet(Included) /\ Included \subseteq Nat
           /\ MinedNonce \in Nat
           /\ \A i \in Included : i \in 1..Len(chain) /\ chain[i].tx \in Tx /\ chain[i].ok \in BOOLEAN
           /\ \A t \in Mined : t \in Tx /\ HeightOf(t) \in Included /\ chain[HeightOf(t)].tx = t
  <1>1. Len(chain) \in Nat /\ \A i \in 1..Len(chain) : chain[i] \in Blocks
    BY DEF Stored
  <1>2. IsFiniteSet(1..Len(chain))
    BY <1>1, FS_Interval
  <1>3. IsFiniteSet(Included) /\ Included \subseteq Nat
    BY <1>1, <1>2, FS_Subset DEF Included
  <1>4. MinedNonce \in Nat
    BY <1>3, FS_CardinalityType DEF MinedNonce
  <1>5. \A i \in Included : i \in 1..Len(chain) /\ chain[i].tx \in Tx /\ chain[i].ok \in BOOLEAN
    BY <1>1 DEF Included, Blocks
  <1>6. \A t \in Mined : t \in Tx /\ HeightOf(t) \in Included /\ chain[HeightOf(t)].tx = t
    BY <1>5 DEF Mined, HeightOf
  <1> QED BY <1>1, <1>3, <1>4, <1>5, <1>6

\* What a transaction costs is not negative, and if it fails it costs no more.
LEMMA SpentFacts ==
    ASSUME NEW t \in Tx, NEW ok \in BOOLEAN
    PROVE  Spent(t, ok) \in Nat /\ Spent(t, ok) \in Int /\ Spent(t, ok) <= Spent(t, TRUE)
  <1>1. Value(t) \in Nat
    BY EthAssumption DEF Value, Tx
  <1>2. (IF IsErc20 THEN 0 ELSE Fee) \in Nat
    BY EthAssumption
  <1> QED BY <1>1, <1>2 DEF Spent

LEMMA DebitFacts ==
    ASSUME Stored, NEW t \in Tx
    PROVE  Debit(t) \in Nat /\ Debit(t) \in Int /\ Debit(t) <= Spent(t, TRUE)
  <1>1. CASE t \in Mined
    BY <1>1, ChainFacts, SpentFacts DEF Debit
  <1>2. CASE t \notin Mined
    BY <1>2, SpentFacts DEF Debit
  <1> QED BY <1>1, <1>2

\* The same after a step.
LEMMA DebitFactsNext ==
    (Stored => \A t \in Tx : Debit(t) \in Nat /\ Debit(t) \in Int /\ Debit(t) <= Spent(t, TRUE))'
  <1>1. Stored => \A t \in Tx : Debit(t) \in Nat /\ Debit(t) \in Int /\ Debit(t) <= Spent(t, TRUE)
    BY DebitFacts
  <1> QED BY <1>1, PTL

\* SetBalance: the blocks account for the mined ones, and the pending ones are taken off.
LEMMA BalanceComputed ==
    ASSUME IInv, Stored, MinedOnce, UpdateOK, poll = "balance"
    PROVE  Balance - pendingTxsAmount \in Int /\ Balance - pendingTxsAmount <= Funds - Owed
  <1> DEFINE old == Live \cap Mined
             fresh == Live \ Mined
             debit == [t \in Live |-> Debit(t)]
             block == [i \in Included |-> Spent(chain[i].tx, chain[i].ok)]
             pending == {t \in DOMAIN out : txStatus(out[t]) = "pending"}
             amount == [t \in pending |-> Spent(t, TRUE)]
             height == [t \in Live |-> HeightOf(t)]
             self == [t \in Live |-> t]
  <1>1. sent \subseteq DOMAIN db /\ DOMAIN db \subseteq Tx /\ IsFiniteSet(DOMAIN db)
    BY DEF IInv, SentIsStored, Stored
  <1>2. Live \subseteq Tx /\ IsFiniteSet(Live) /\ IsFiniteSet(old) /\ IsFiniteSet(fresh)
    BY <1>1, FS_Subset DEF Live
  <1>3. IsFiniteSet(pending) /\ pending \subseteq Tx
    BY FS_Subset DEF UpdateOK
  <1>4. SumFunctionOnSet(debit, old) <= SumFunctionOnSet(block, Included)
    <2>1. \A t \in old : height[t] \in Included /\ debit[t] \in Int /\ debit[t] <= block[height[t]]
      <3> SUFFICES ASSUME NEW t \in old PROVE HeightOf(t) \in Included /\ Debit(t) \in Int /\ Debit(t) <= Spent(chain[HeightOf(t)].tx, chain[HeightOf(t)].ok)
        OBVIOUS
      <3>1. t \in Mined /\ t \in Tx
        BY <1>2
      <3>2. HeightOf(t) \in Included /\ chain[HeightOf(t)].tx = t
        BY <3>1, ChainFacts
      <3>3. Debit(t) = Spent(t, chain[HeightOf(t)].ok) /\ Debit(t) \in Nat
        BY <3>1, DebitFacts DEF Debit
      <3> QED BY <3>2, <3>3
    <2>2. \A t, u \in old : height[t] = height[u] => t = u
      BY ChainFacts
    <2>3. \A i \in Included : block[i] \in Nat
      BY ChainFacts, SpentFacts
    <2>4. IsFiniteSet(Included)
      BY ChainFacts
    <2> HIDE DEF old, debit, block, height
    <2> QED BY <1>2, <2>1, <2>2, <2>3, <2>4, SumInjection
  <1>5. SumFunctionOnSet(debit, fresh) <= SumFunctionOnSet(amount, pending)
    <2>1. \A t \in fresh : self[t] \in pending /\ debit[t] \in Int /\ debit[t] <= amount[self[t]]
      <3> SUFFICES ASSUME NEW t \in fresh PROVE t \in pending /\ Debit(t) \in Int /\ Debit(t) <= Spent(t, TRUE)
        OBVIOUS
      <3>1. t \in DOMAIN out /\ RecordOK(out[t], t) /\ t \notin Mined
        BY DEF UpdateOK, Live
      <3>2. numConfirmations(out[t]) = 0
        BY <3>1 DEF RecordOK, numConfirmations
      <3>3. t \in pending
        BY <3>1, <3>2 DEF txStatus
      <3> QED BY <1>2, <3>3, DebitFacts
    <2>2. \A t, u \in fresh : self[t] = self[u] => t = u
      OBVIOUS
    <2>3. \A t \in pending : amount[t] \in Nat
      BY <1>3, SpentFacts
    <2> HIDE DEF fresh, debit, pending, amount, self
    <2> QED BY <1>2, <1>3, <2>1, <2>2, <2>3, SumInjection
  <1>6. SumFunctionOnSet(debit, Live) = SumFunctionOnSet(debit, old) + SumFunctionOnSet(debit, fresh)
    <2>1. old \cap fresh = {} /\ old \cup fresh = Live
      OBVIOUS
    <2>2. \A t \in old \cup fresh : debit[t] \in Int
      BY <1>2, DebitFacts
    <2> HIDE DEF old, fresh, debit
    <2>3. SumFunctionOnSet(debit, old \cup fresh) = SumFunctionOnSet(debit, old) + SumFunctionOnSet(debit, fresh)
      BY <1>2, <2>1, <2>2, SumUnion
    <2> QED BY <2>1, <2>3
  <1>7. Owed = SumFunctionOnSet(debit, Live) /\ Balance = Funds - SumFunctionOnSet(block, Included)
        /\ pendingTxsAmount = SumFunctionOnSet(amount, pending)
    BY DEF Owed, Balance, pendingTxsAmount, SpentBy, SumFunction
  <1>8. /\ SumFunctionOnSet(debit, old) \in Int /\ SumFunctionOnSet(debit, fresh) \in Int
        /\ SumFunctionOnSet(block, Included) \in Int /\ SumFunctionOnSet(amount, pending) \in Int
    <2>1. (\A t \in old : debit[t] \in Int) /\ (\A t \in fresh : debit[t] \in Int)
      BY <1>2, DebitFacts
    <2>2. (\A i \in Included : block[i] \in Int) /\ IsFiniteSet(Included)
      BY ChainFacts, SpentFacts
    <2>3. \A t \in pending : amount[t] \in Int
      BY <1>3, SpentFacts
    <2> HIDE DEF old, fresh, debit, block, pending, amount
    <2> QED BY <1>2, <1>3, <2>1, <2>2, <2>3, SumType
  <1> HIDE DEF old, fresh, debit, block, pending, amount
  <1>9. Funds \in Int
    BY EthAssumption
  <1> QED BY <1>4, <1>5, <1>6, <1>7, <1>8, <1>9

\* The chain of a step without a reorganisation.
ChainStep ==
    \/ UNCHANGED chain
    \/ \E t \in mempool \cup {NoTx}, ok \in Outcomes : NewBlock(t, ok)

\* The database and the node keep their types.
LEMMA StoredNext ==
    ASSUME IInv, Stored, [Next]_vars
    PROVE  Stored'
  <1>1. DOMAIN db' \subseteq Tx /\ IsFiniteSet(DOMAIN db')
    BY NextIInv, FS_AddElement DEF Stored
  <1>2. mempool' \subseteq Tx
    <2>1. CASE Node
      <3>1. Reorg => chain[Len(chain)] \in Blocks
        BY DEF Stored, Reorg
      <3> QED BY <2>1, <3>1 DEF Node, NewBlock, Reorg, Lose, Stored, Blocks
    <2>2. ASSUME NEW w \in Workers, Commit(w) PROVE mempool' \subseteq Tx
      <3>1. DOMAIN draft \subseteq Tx
        BY <2>2, EthAssumption DEF Commit, IInv, Locked, DraftIsCurrent, Stored
      <3> QED BY <2>2, <3>1 DEF Commit, Rebroadcast, Stored
    <2>3. CASE Broadcast
      BY <2>3 DEF Broadcast, IInv, Held, Stored
    <2>4. CASE EthSignWalletConnectTx
      BY <2>4, EthAssumption DEF EthSignWalletConnectTx, Stored, Tx
    <2>5. CASE UNCHANGED mempool
      BY <2>5 DEF Stored
    <2>6. \/ Node \/ (\E w \in Workers : Commit(w)) \/ Broadcast \/ EthSignWalletConnectTx \/ UNCHANGED mempool
      BY DEF Next, Initialize, Poll, Quit, GetTransactions, outgoingTransactions, SetNonce, SetBalance, BlockNumber,
             UpdateFails, Work, Begin, User, TxProposal, ProposalReady, SendTx, storePendingOutgoingTransaction,
             Close, Crash, vars, nodeVars
    <2> QED BY <2>1, <2>2, <2>3, <2>4, <2>5, <2>6
  <1>3. chain' \in Seq(Blocks)
    <2>1. CASE Node
      <3>1. ASSUME NEW t \in mempool \cup {NoTx}, NEW ok \in Outcomes, NewBlock(t, ok) PROVE chain' \in Seq(Blocks)
        <4>1. [tx |-> t, ok |-> ok] \in Blocks
          BY EthAssumption DEF Stored, Blocks
        <4> QED BY <3>1, <4>1 DEF NewBlock, Stored
      <3>2. CASE Reorg
        <4>1. chain # <<>> /\ chain' = SubSeq(chain, 1, Len(chain) - 1) /\ chain \in Seq(Blocks)
          BY <3>2 DEF Reorg, Stored
        <4> QED BY <4>1
      <3> QED BY <2>1, <3>1, <3>2 DEF Node, Lose, Stored
    <2>2. CASE UNCHANGED chain
      BY <2>2 DEF Stored
    <2>3. Node \/ UNCHANGED chain
      BY DEF Next, Initialize, Poll, Quit, GetTransactions, outgoingTransactions, SetNonce, SetBalance, BlockNumber,
             UpdateFails, Work, Begin, Commit, User, TxProposal, ProposalReady, SendTx, Broadcast,
             storePendingOutgoingTransaction, EthSignWalletConnectTx, Close, Crash, vars, nodeVars
    <2> QED BY <2>1, <2>2, <2>3
  <1>4. status' = "new" => poll' = "none" /\ ~initDone'
    BY DEF Stored, Next, Node, Initialize, Poll, Quit, GetTransactions, outgoingTransactions, SetNonce, SetBalance,
           BlockNumber, UpdateFails, EndUpdate, Work, Begin, Commit, User, TxProposal, ProposalReady, SendTx, Broadcast,
           storePendingOutgoingTransaction, EthSignWalletConnectTx, Close, Crash, vars, pollVars
  <1> QED BY <1>1, <1>2, <1>3, <1>4 DEF Stored

\* As long as there was no reorganisation the chain only grows.
LEMMA ChainNext ==
    ASSUME [Next]_vars, "reorg" \notin troubles'
    PROVE  "reorg" \notin troubles /\ ChainStep
  <1>1. CASE Node
    BY <1>1 DEF Node, NewBlock, Reorg, Lose, Trouble, ChainStep
  <1>2. CASE ~Node
    <2>1. UNCHANGED chain
      BY <1>2 DEF Next, Initialize, Poll, Quit, GetTransactions, outgoingTransactions, SetNonce, SetBalance, BlockNumber,
             UpdateFails, Work, Begin, Commit, User, TxProposal, ProposalReady, SendTx, Broadcast,
             storePendingOutgoingTransaction, EthSignWalletConnectTx, Close, Crash, vars, nodeVars
    <2>2. troubles \subseteq troubles'
      BY <1>2 DEF Next, Initialize, Poll, Quit, GetTransactions, outgoingTransactions, SetNonce, SetBalance, BlockNumber,
             UpdateFails, Work, Begin, Commit, User, TxProposal, ProposalReady, SendTx, Broadcast, Trouble,
             storePendingOutgoingTransaction, EthSignWalletConnectTx, Close, Crash, vars
    <2> QED BY <2>1, <2>2 DEF ChainStep
  <1> QED BY <1>1, <1>2

\* A block more: what was mined stays where it is, and a nonce is mined once.
LEMMA GrowKeeps ==
    ASSUME Stored, Stored', MinedOnce, NEW t \in mempool \cup {NoTx}, NEW ok \in Outcomes, NewBlock(t, ok)
    PROVE  /\ MinedOnce' /\ Included \subseteq Included'
           /\ \A i \in Included : chain'[i] = chain[i]
           /\ \A i \in Included' \ Included : chain'[i].tx = t
  <1> DEFINE n == Len(chain)
  <1>1. n \in Nat /\ Len(chain') = n + 1 /\ (\A i \in 1..n : chain'[i] = chain[i])
        /\ chain'[n + 1] = [tx |-> t, ok |-> ok]
    BY DEF NewBlock, Stored
  <1> HIDE DEF n
  <1>2. Included \subseteq 1..n /\ \A i \in Included : chain'[i] = chain[i]
    BY <1>1 DEF Included, n
  <1>3. Included \subseteq Included' /\ Included' \subseteq Included \cup {n + 1} /\ (n + 1 \in Included' <=> t # NoTx)
    BY <1>1, <1>2 DEF Included, n
  <1>4. \A i \in Included' \ Included : chain'[i].tx = t
    BY <1>1, <1>3
  <1>5. CASE t = NoTx
    <2>1. Included' = Included
      BY <1>3, <1>5
    <2>2. MinedNonce' = MinedNonce
      BY <2>1 DEF MinedNonce
    <2> QED BY <1>2, <1>4, <2>1, <2>2 DEF MinedOnce
  <1>6. CASE t # NoTx
    <2>1. Included' = Included \cup {n + 1} /\ n + 1 \notin Included
      <3>1. n + 1 \notin 1..n
        BY <1>1
      <3>2. n + 1 \in Included'
        BY <1>3, <1>6
      <3> QED BY <1>2, <1>3, <3>1, <3>2
    <2>2. IsFiniteSet(Included) /\ MinedNonce \in Nat
      BY ChainFacts
    <2>3. MinedNonce' = MinedNonce + 1
      BY <2>1, <2>2, FS_AddElement DEF MinedNonce
    <2>4. t.nonce = MinedNonce
      BY <1>6 DEF NewBlock
    <2>5. \A i \in Included : chain[i].tx.nonce \in Nat
      BY ChainFacts, EthAssumption DEF Tx
    <2>6. \A i \in Included' : i = n + 1 \/ i \in Included
      BY <2>1
    <2>7. chain'[n + 1].tx.nonce = MinedNonce
      BY <1>1, <2>4
    <2>8. \A i \in Included : chain'[i].tx.nonce < MinedNonce /\ chain'[i].tx.nonce \in Nat
      BY <1>2, <2>5 DEF MinedOnce
    <2>9. \A i \in Included' : chain'[i].tx.nonce < MinedNonce'
      BY <2>2, <2>3, <2>6, <2>7, <2>8
    <2>10. ASSUME NEW i \in Included', NEW j \in Included', chain'[i].tx.nonce = chain'[j].tx.nonce PROVE i = j
      <3>1. CASE i \in Included /\ j \in Included
        BY <1>2, <2>10, <3>1 DEF MinedOnce
      <3>2. CASE i = n + 1 /\ j \in Included
        BY <2>2, <2>7, <2>8, <2>10, <3>2
      <3>3. CASE j = n + 1 /\ i \in Included
        BY <2>2, <2>7, <2>8, <2>10, <3>3
      <3> QED BY <2>6, <3>1, <3>2, <3>3
    <2> QED BY <1>2, <1>3, <1>4, <2>9, <2>10 DEF MinedOnce
  <1> QED BY <1>2, <1>3, <1>4, <1>5, <1>6

LEMMA ChainKeeps ==
    ASSUME Stored, Stored', MinedOnce, ChainStep
    PROVE  /\ MinedOnce' /\ Mined \subseteq Mined'
           /\ \A t \in Tx : Debit(t)' <= Debit(t) /\ (Replaced(t) => Replaced(t)')
  <1>1. CASE UNCHANGED chain
    <2>1. MinedOnce' /\ Mined' = Mined
      BY <1>1 DEF MinedOnce, Included, MinedNonce, Mined
    <2>2. ASSUME NEW t \in Tx PROVE Debit(t)' <= Debit(t) /\ (Replaced(t) => Replaced(t)')
      <3>1. HeightOf(t)' = HeightOf(t)
        BY <1>1, <2>1 DEF HeightOf, Included
      <3>2. Debit(t)' = Debit(t)
        BY <1>1, <2>1, <3>1 DEF Debit, Spent, Value
      <3>3. Replaced(t)' = Replaced(t)
        BY <2>1 DEF Replaced
      <3>4. Debit(t) \in Int
        BY DebitFacts
      <3> QED BY <3>2, <3>3, <3>4
    <2> QED BY <2>1, <2>2
  <1>2. ASSUME NEW t \in mempool \cup {NoTx}, NEW ok \in Outcomes, NewBlock(t, ok)
        PROVE  /\ MinedOnce' /\ Mined \subseteq Mined'
               /\ \A u \in Tx : Debit(u)' <= Debit(u) /\ (Replaced(u) => Replaced(u)')
    <2>1. /\ MinedOnce' /\ Included \subseteq Included'
          /\ \A i \in Included : chain'[i] = chain[i]
      BY <1>2, GrowKeeps
    <2>2. Mined \subseteq Mined'
      BY <2>1 DEF Mined
    <2>3. ASSUME NEW u \in Tx PROVE Debit(u)' <= Debit(u)
      <3>1. CASE u \in Mined
        <4> DEFINE i == HeightOf(u)
        <4>1. i \in Included /\ chain[i].tx = u
          BY <3>1, ChainFacts
        <4> HIDE DEF i
        <4>2. i \in Included' /\ chain'[i] = chain[i]
          BY <2>1, <4>1
        <4>3. HeightOf(u)' = i
          <5>1. u \in Mined' /\ chain'[i].tx = u
            BY <2>2, <3>1, <4>1, <4>2
          <5>2. \A k \in Included' : chain'[k].tx = u => k = i
            BY <2>1, <4>2, <5>1 DEF MinedOnce
          <5> QED BY <4>2, <5>1, <5>2 DEF HeightOf
        <4>4. u \in Mined'
          BY <2>2, <3>1
        <4>5. Debit(u)' = Debit(u)
          BY <3>1, <4>2, <4>3, <4>4 DEF Debit, i, Spent, Value
        <4>6. Debit(u) \in Int
          BY DebitFacts
        <4> QED BY <4>5, <4>6
      <3>2. CASE u \notin Mined
        <4>1. Debit(u) = Spent(u, TRUE)
          BY <3>2 DEF Debit
        <4>2. Debit(u)' <= Spent(u, TRUE)'
          BY DebitFactsNext
        <4>3. Spent(u, TRUE)' = Spent(u, TRUE)
          BY DEF Spent, Value
        <4> QED BY <4>1, <4>2, <4>3
      <3> QED BY <3>1, <3>2
    <2>4. \A u \in Tx : Replaced(u) => Replaced(u)'
      BY <2>2 DEF Replaced
    <2> QED BY <2>1, <2>2, <2>3, <2>4
  <1> QED BY <1>1, <1>2 DEF ChainStep

\* Unless more is sent, what is owed does not grow.
LEMMA OwedShrinks ==
    ASSUME IInv, Stored, Stored', MinedOnce, ChainStep, UNCHANGED sent
    PROVE  Owed \in Int /\ Owed' \in Int /\ Owed' <= Owed
  <1> DEFINE debit == [t \in Live |-> Debit(t)]
             self == [t \in Live |-> t]
  <1>1. Live \subseteq Tx /\ IsFiniteSet(Live) /\ Live' \subseteq Live /\ IsFiniteSet(Live')
    <2>1. sent \subseteq Tx /\ IsFiniteSet(sent)
      BY FS_Subset DEF IInv, SentIsStored, Stored
    <2>2. Live \subseteq Tx /\ IsFiniteSet(Live)
      BY <2>1, FS_Subset DEF Live
    <2>3. Live' \subseteq Live
      BY <2>1, ChainKeeps DEF Live
    <2> QED BY <2>2, <2>3, FS_Subset
  <1>2. \A t \in Live' : self[t] \in Live /\ debit'[t] \in Int /\ debit'[t] <= debit[self[t]]
    <2> SUFFICES ASSUME NEW t \in Live' PROVE t \in Live /\ Debit(t)' \in Int /\ Debit(t)' <= Debit(t)
      BY <1>1
    <2>1. t \in Live /\ t \in Tx
      BY <1>1
    <2>2. Debit(t)' \in Int
      BY <2>1, DebitFactsNext
    <2> QED BY <2>1, <2>2, ChainKeeps
  <1>3. \A t, u \in Live' : self[t] = self[u] => t = u
    BY <1>1
  <1>4. \A t \in Live : debit[t] \in Nat /\ debit[t] \in Int
    BY <1>1, DebitFacts
  <1>5. Owed = SumFunctionOnSet(debit, Live) /\ Owed' = SumFunctionOnSet(debit', Live')
    BY DEF Owed, SumFunction
  <1> HIDE DEF debit, self
  <1>6. Owed' <= Owed
    BY <1>1, <1>2, <1>3, <1>4, <1>5, SumInjection
  <1>7. Owed \in Int /\ Owed' \in Int
    BY <1>1, <1>2, <1>4, <1>5, SumType
  <1> QED BY <1>6, <1>7

\* A record stays right while the chain grows.
LEMMA RecordsNext ==
    ASSUME IInv, Stored, RecordsOK, Mined \subseteq Mined', [Next]_vars
    PROVE  RecordsOK'
  <1> USE DEF RecordOK
  <1>1. CASE UNCHANGED <<db, draft>>
    BY <1>1 DEF RecordsOK
  <1>2. ASSUME NEW w \in Workers, Begin(w) PROVE RecordsOK'
    BY <1>2 DEF RecordsOK, Begin
  <1>3. ASSUME NEW w \in Workers, Commit(w) PROVE RecordsOK'
    <2>1. PICK failed \in SUBSET DOMAIN draft :
              db' = [t \in DOMAIN draft |->
                        IF t \in Mined \ failed THEN UpdateRecord(draft[t], t, tip[w]) ELSE draft[t]]
      BY <1>3 DEF Commit
    <2>2. draft' = None
      BY <1>3 DEF Commit
    <2>3. ASSUME NEW t \in DOMAIN draft PROVE db'[t].height \in Nat /\ (db'[t].height > 0 => t \in Mined')
      <3>1. CASE t \in Mined \ failed
        <4>1. db'[t] = UpdateRecord(draft[t], t, tip[w])
          BY <2>1, <3>1
        <4>2. HeightOf(t) \in Nat
          BY <3>1, ChainFacts
        <4>3. UpdateRecord(draft[t], t, tip[w]).height \in Nat
          BY <4>2 DEF UpdateRecord, RecordsOK
        <4> QED BY <3>1, <4>1, <4>3
      <3>2. CASE t \notin Mined \ failed
        <4>1. db'[t] = draft[t]
          BY <2>1, <3>2
        <4> QED BY <4>1 DEF RecordsOK
      <3> QED BY <3>1, <3>2
    <2> QED BY <2>1, <2>2, <2>3 DEF RecordsOK, None
  <1>4. CASE storePendingOutgoingTransaction
    <2>1. UNCHANGED draft
      BY <1>4 DEF storePendingOutgoingTransaction, workerVars
    <2>2. CASE Store
      <3>1. \A t \in DOMAIN db' : db'[t] = [height |-> 0, success |-> FALSE] \/ (t \in DOMAIN db /\ db'[t] = db[t])
        BY <2>2 DEF Store
      <3>2. \A t \in DOMAIN db' : db'[t].height = 0 \/ (t \in DOMAIN db /\ db'[t] = db[t])
        BY <3>1
      <3> QED BY <2>1, <3>2 DEF RecordsOK
    <2> QED BY <1>1, <1>4, <2>1, <2>2 DEF storePendingOutgoingTransaction
  <1>5. CASE Crash
    BY <1>5 DEF Crash, RecordsOK, None
  <1>6. \/ UNCHANGED <<db, draft>> \/ Crash \/ storePendingOutgoingTransaction
        \/ \E w \in Workers : Begin(w) \/ Commit(w)
    BY DEF Next, Node, Initialize, Poll, Quit, GetTransactions, outgoingTransactions, SetNonce, SetBalance, BlockNumber,
           UpdateFails, Work, User, TxProposal, ProposalReady, SendTx, Broadcast,
           EthSignWalletConnectTx, Close, vars, workerVars
  <1> QED BY <1>1, <1>2, <1>3, <1>4, <1>5, <1>6

LEMMA UpdateNext ==
    ASSUME IInv, Stored, RecordsOK, UpdateOK, Mined \subseteq Mined', [Next]_vars
    PROVE  UpdateOK'
  <1> USE DEF RecordOK
  <1>1. CASE UNCHANGED <<poll, conf, out, sent>>
    BY <1>1 DEF UpdateOK
  <1>2. CASE GetTransactions
    BY <1>2 DEF GetTransactions, UpdateOK, TransactionsSource
  <1>3. CASE outgoingTransactions
    <2>1. CASE status = "closed"
      BY <1>3, <2>1 DEF outgoingTransactions, EndUpdate, UpdateOK
    <2>2. CASE status # "closed"
      <3>1. poll = "outgoing" /\ out' = [t \in DOMAIN db \ conf |-> db[t]] /\ UNCHANGED <<conf, sent>>
        BY <1>3, <2>2 DEF outgoingTransactions, userVars
      <3>2. IsFiniteSet(DOMAIN out') /\ DOMAIN out' \subseteq Tx
        BY <3>1, FS_Subset DEF Stored
      <3>3. sent' \subseteq DOMAIN out' \cup conf'
        BY <3>1 DEF IInv, SentIsStored
      <3> QED BY <3>1, <3>2, <3>3 DEF UpdateOK, RecordsOK
    <2> QED BY <2>1, <2>2
  <1>4. CASE SetNonce
    BY <1>4 DEF SetNonce, UpdateOK, userVars
  <1>5. CASE poll' \in {"none", "idle", "source"}
    BY <1>5 DEF UpdateOK
  <1>6. \/ UNCHANGED <<poll, conf, out, sent>> \/ GetTransactions \/ outgoingTransactions \/ SetNonce
        \/ poll' \in {"none", "idle", "source"}
    BY DEF Next, Node, Initialize, Poll, Quit, SetBalance, BlockNumber, UpdateFails, EndUpdate, Work, Begin, Commit,
           User, TxProposal, ProposalReady, SendTx, Broadcast, storePendingOutgoingTransaction,
           EthSignWalletConnectTx, Close, Crash, vars, pollVars, userVars
  <1> QED BY <1>1, <1>2, <1>3, <1>4, <1>5, <1>6

LEMMA BalanceNext ==
    ASSUME IInv, Stored, Stored', MinedOnce, UpdateOK, BalanceOK, ChainStep, [Next]_vars
    PROVE  BalanceOK'
  <1>1. CASE UNCHANGED <<poll, initDone, offline, balance, sent>>
    <2>1. Owed \in Int /\ Owed' \in Int /\ Owed' <= Owed /\ Funds \in Int
      BY <1>1, OwedShrinks, EthAssumption
    <2> QED BY <1>1, <2>1 DEF BalanceOK
  <1>2. CASE SetBalance
    <2>1. UNCHANGED sent /\ balance' = Balance - pendingTxsAmount /\ poll = "balance"
      BY <1>2 DEF SetBalance, userVars
    <2>2. balance' \in Int /\ balance' <= Funds - Owed
      BY <2>1, BalanceComputed
    <2>3. Owed \in Int /\ Owed' \in Int /\ Owed' <= Owed /\ Funds \in Int
      BY <2>1, OwedShrinks, EthAssumption
    <2>4. balance' <= Funds - Owed'
      <3>1. \A a, b, c, d \in Int : a <= b - c /\ d <= c => a <= b - d
        OBVIOUS
      <3> QED BY <2>2, <2>3, <3>1
    <2> QED BY <2>2, <2>4 DEF BalanceOK
  <1>3. CASE Initialize
    BY <1>3 DEF Initialize, Stored, BalanceOK
  <1>4. CASE poll' # "idle" \/ offline'
    BY <1>4 DEF BalanceOK
  <1>5. \/ UNCHANGED <<poll, initDone, offline, balance, sent>> \/ SetBalance \/ Initialize
        \/ poll' # "idle" \/ offline'
    BY DEF Next, Node, Poll, Quit, GetTransactions, outgoingTransactions, SetNonce, BlockNumber, UpdateFails, EndUpdate,
           Work, Begin, Commit, User, TxProposal, ProposalReady, SendTx, Broadcast, storePendingOutgoingTransaction,
           EthSignWalletConnectTx, Close, Crash, vars, pollVars, userVars, shownVars
  <1> QED BY <1>1, <1>2, <1>3, <1>4, <1>5

\* Every update finds the transactions that were sent before it, in the chain or among the stored ones.
THEOREM BalanceInvariance == Spec => [](IInv /\ BInv)
  <1>1. Init => IInv /\ BInv
    <2> SUFFICES ASSUME Init PROVE IInv /\ BInv
      OBVIOUS
    <2>1. Stored
      BY FS_EmptySet DEF Init, Start, Stored, None
    <2>2. RecordsOK /\ UpdateOK /\ BalanceOK
      BY DEF Init, Start, None, RecordsOK, UpdateOK, BalanceOK
    <2>3. Included = {}
      BY DEF Init, Included
    <2>4. MinedOnce
      BY <2>3 DEF MinedOnce
    <2> QED BY <2>1, <2>2, <2>4, InitIInv DEF BInv
  <1>2. IInv /\ BInv /\ [Next]_vars => IInv' /\ BInv'
    <2> SUFFICES ASSUME IInv, BInv, [Next]_vars PROVE IInv' /\ BInv'
      OBVIOUS
    <2>1. IInv'
      BY NextIInv
    <2>2. Stored /\ Stored'
      BY StoredNext DEF BInv
    <2>3. ASSUME "reorg" \notin troubles' PROVE RecordsOK' /\ MinedOnce' /\ UpdateOK' /\ BalanceOK'
      <3>1. ChainStep /\ RecordsOK /\ MinedOnce /\ UpdateOK /\ BalanceOK
        BY <2>3, ChainNext DEF BInv
      <3>2. MinedOnce' /\ Mined \subseteq Mined'
        BY <2>2, <3>1, ChainKeeps
      <3> QED BY <2>2, <3>1, <3>2, RecordsNext, UpdateNext, BalanceNext
    <2> QED BY <2>1, <2>2, <2>3 DEF BInv
  <1> QED BY <1>1, <1>2, PTL DEF Spec

\* The balance that proposals are checked against does not count on money that was sent.
THEOREM BalanceAccountsForSentHolds == Spec => []BalanceAccountsForSent
  <1>1. BInv => BalanceAccountsForSent
    <2>1. Owed = SumFunction([t \in {u \in sent : ~Replaced(u)} |-> Debit(t)])
      BY DEF Owed, Live
    <2> QED BY <2>1 DEF BInv, BalanceOK, BalanceAccountsForSent, AtRest
  <1> QED BY <1>1, BalanceInvariance, PTL
=============================================================================
