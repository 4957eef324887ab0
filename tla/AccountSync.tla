----------------------------- MODULE AccountSync -----------------------------
(***************************************************************************)
(* How a BTC/LTC account keeps its transaction index in sync with an       *)
(* Electrum server (backend/coins/btc/account.go): address subscriptions,  *)
(* one onAddressStatus goroutine per status notification, the address      *)
(* chains that grow with the gap limit, transaction verification when the  *)
(* headers are synced, Close, and a crash of the app.                      *)
(*                                                                         *)
(* The server is honest here: it has a best chain and a mempool, and       *)
(* answers from its state at the moment of the call.  The account's        *)
(* requests counter is above zero exactly while some task is outstanding   *)
(* (Synchronizer!CounterIsOutstanding), which Busy says directly.          *)
(***************************************************************************)
EXTENDS TransactionsIndex, Sequences

CONSTANTS
    Chains,         \* the receive and change chain of each subaccount
    ChainAddrs,     \* [Chains -> Seq(Addrs)], addresses in derivation order
    GapLimit,       \* [Chains -> Nat \ {0}]
    Branch,         \* [Headers \cup {NoHeader} -> SUBSET Headers], the branch
                    \* of the block tree that ends in a header, that included
    Procs,          \* bound: onAddressStatus goroutines alive at the same time
    MaxFailovers,   \* bound: times the Electrum client changes servers
    MaxRestarts,    \* bound: crashes of the app
    MaxLost         \* bound: GetMerkle requests that fail, EventSynced not fired

ASSUME ChainsAssumption ==
    /\ ChainAddrs \in [Chains -> Seq(Addrs)]
    /\ GapLimit \in [Chains -> Nat \ {0}]
    /\ \A c \in Chains : GapLimit[c] <= Len(ChainAddrs[c])
    /\ Branch \in [Headers \cup {NoHeader} -> SUBSET Headers]
    /\ Branch[NoHeader] = {}
    /\ \A c \in Chains : \A i, k \in 1..Len(ChainAddrs[c]) : ChainAddrs[c][i] = ChainAddrs[c][k] => i = k
    \* a branch has one block at each height, and a transaction in one block only
    /\ \A hdr \in Headers : \A b, d \in Branch[hdr] :
        HeaderHeight[b] = HeaderHeight[d] \/ BlockTxs[b] \cap BlockTxs[d] # {} => b = d

VARIABLES
    \* the server
    tip, mempool,
    broadcast,      \* transactions that were ever in the mempool
    dirty,          \* subscribed addresses with a change that is not notified yet
    reorged,        \* history: a new best chain did not extend the one before
    \* the headers module, see Headers: the verified tip, and a goroutine that
    \* is about to run the callback for EventSynced
    localTip, eventSynced,
    \* the account
    chainLen,       \* length of addressChain.addresses, for each chain
    sub,            \* "none"; "pending" until the first callback; "active"
    procs,          \* goroutines in onAddressStatus
    synced,         \* account.synced
    loaded,         \* history: addresses whose onAddressStatus ended normally
    fatalError,
    closing,        \* Close: "open", "locked", "dbClosed", "closed"
    panicked,       \* a goroutine panicked: the app is gone
    reader,         \* GetUnusedReceiveAddresses: "idle", "synced", "failed"
    failovers, restarts, lostVerifications

serverVars == <<tip, mempool, broadcast, dirty, reorged>>
headersVars == <<localTip, eventSynced>>
userVars == <<reader, failovers, restarts, lostVerifications>>
accountVars == <<chainLen, sub, procs, synced, loaded, fatalError, closing, panicked>>
vars == <<indexVars, serverVars, headersVars, accountVars, userVars>>

-----------------------------------------------------------------------------
\* The server's view of the chain.
Mined(hdr) == UNION {BlockTxs[b] : b \in Branch[hdr]}
Present == mempool \cup Mined(tip)
HeightOf(hdr) == IF hdr = NoHeader THEN 0 ELSE HeaderHeight[hdr]
Touching(a) == {t \in TxIds : \E o \in TxIns[t] \cup Outs(t) : Owner[o] = a}
ConfirmedAt(t) == HeaderHeight[CHOOSE b \in Branch[tip] : t \in BlockTxs[b]]

\* The reply to ScriptHashGetHistory, of which the status is a hash.
ServerHistory(a) ==
    [t \in Touching(a) \cap Present |-> IF t \in mempool THEN 0 ELSE ConfirmedAt(t)]

\* Every change of an address' history is notified to its subscriber.
MarkChanged ==
    dirty' = dirty \cup {a \in Addrs : sub[a] = "active" /\ ServerHistory(a)' # ServerHistory(a)}

\* Transactions of S that cannot stay next to T, their children included.
Conflicting(S, T) ==
    LET direct == {u \in S : \E t \in T \ {u} : TxIns[u] \cap TxIns[t] # {}}
    IN  direct \cup {u \in S : \E o \in TxIns[u] : Creator[o] \in direct}

\* The header the headers module has at a height.
LocalHeader(h) ==
    IF \E b \in Branch[localTip] : HeaderHeight[b] = h
    THEN CHOOSE b \in Branch[localTip] : HeaderHeight[b] = h
    ELSE NoHeader

-----------------------------------------------------------------------------
Idle == [pc |-> "idle"]

Known(c) == {ChainAddrs[c][i] : i \in 1..chainLen[c]}
KnownAddrs == UNION {Known(c) : c \in Chains}

isAddressUsed(a) == DOMAIN addressHistories[a] # {}

\* unusedTailCount of the first n addresses of a chain.
unusedTailCount(c, n) ==
    Cardinality({i \in 1..n : \A k \in i..n : ~isAddressUsed(ChainAddrs[c][k])})

\* Does someone hold a reference on the account's requests counter?
Busy ==
    \/ \E a \in Addrs : sub[a] = "pending"
    \/ \E p \in Procs : procs[p].pc \in {"fetch", "got", "apply", "ensure"}
    \/ \E j \in jobs : j.pc # "start"

\* onSyncFinished, when the counter returns to zero.
SyncStep == synced' = IF Busy /\ ~Busy' THEN TRUE ELSE synced

\* The length of a chain after the loop in ensureAddresses ("for {
\* EnsureAddresses ... }") that starts with n addresses.  The model has no
\* address beyond the end of ChainAddrs.
EnsuredLen_OffByOne(c, n) ==
    LET enough == {m \in n..Len(ChainAddrs[c]) : unusedTailCount(c, m) >= GapLimit[c] - 1}
    IN  IF enough = {} THEN Len(ChainAddrs[c]) ELSE CHOOSE m \in enough : \A k \in enough : m <= k
EnsuredLen(c, n) ==
    LET enough == {m \in n..Len(ChainAddrs[c]) : unusedTailCount(c, m) >= GapLimit[c]}
    IN  IF enough = {} THEN Len(ChainAddrs[c]) ELSE CHOOSE m \in enough : \A k \in enough : m <= k

\* A mutant: new addresses are not subscribed to.
ensureAddresses_NoSubscribe ==
    /\ chainLen' = [c \in Chains |-> EnsuredLen(c, chainLen[c])]
    /\ UNCHANGED sub

\* ensureAddresses: extend every chain and subscribe to the new addresses.
ensureAddresses ==
    /\ chainLen' = [c \in Chains |-> EnsuredLen(c, chainLen[c])]
    /\ sub' = [a \in Addrs |-> IF \E c \in Chains : a \in {ChainAddrs[c][i] : i \in chainLen[c]+1..chainLen'[c]}
                               THEN "pending" ELSE sub[a]]

\* Goroutines in onAddressStatus, by what they hold at each point.
ProcStates ==
    [pc : {"idle"}]
    \cup [pc : {"start"}, addr : Addrs, status : Histories]
    \cup [pc : {"fetch", "ensure"}, addr : Addrs]
    \cup [pc : {"got", "apply"}, addr : Addrs, hist : Histories]

\* The part of the type invariant that the refinement of IndexSpec rests on.
SyncTypeOK ==
    /\ tip \in Headers \cup {NoHeader}
    /\ localTip \in Headers \cup {NoHeader}
    /\ procs \in [Procs -> ProcStates]

\* Initialize with an empty database: ensureAddresses has just subscribed to the
\* first addresses of each chain.
Init ==
    /\ IndexInit
    /\ tip = NoHeader /\ mempool = {} /\ broadcast = {} /\ dirty = {} /\ reorged = FALSE
    /\ localTip = NoHeader /\ eventSynced = FALSE
    /\ chainLen = [c \in Chains |-> GapLimit[c]]
    /\ sub = [a \in Addrs |-> IF \E c \in Chains : a \in {ChainAddrs[c][i] : i \in 1..GapLimit[c]}
                              THEN "pending" ELSE "none"]
    /\ procs = [p \in Procs |-> Idle]
    /\ synced = FALSE /\ loaded = {} /\ fatalError = FALSE
    /\ closing = "open" /\ panicked = FALSE
    /\ reader = "idle" /\ failovers = 0 /\ restarts = 0 /\ lostVerifications = 0

-----------------------------------------------------------------------------
\* The server accepts a transaction, which may replace others (RBF).
Broadcast(t) ==
    /\ t \notin broadcast \cup Present
    /\ \A o \in TxIns[t] : Creator[o] \in Present \cup {NoTx}
    /\ Conflicting({t}, Mined(tip)) = {}
    /\ mempool' = (mempool \ Conflicting(mempool, {t})) \cup {t}
    /\ broadcast' = broadcast \cup {t}
    /\ UNCHANGED <<tip, reorged>>
    /\ MarkChanged
    /\ UNCHANGED <<indexVars, headersVars, accountVars, userVars>>

\* The best chain grows, possibly on another branch: transactions of orphaned
\* blocks go back to the mempool unless the new branch spends their inputs.
NewBlock(b) ==
    /\ HeaderHeight[b] > HeightOf(tip)
    /\ tip' = b
    /\ reorged' = (reorged \/ ~(Branch[tip] \subseteq Branch[b]))
    /\ LET back == Present \ Mined(b) IN mempool' = back \ Conflicting(back, Mined(b))
    /\ broadcast' = broadcast \cup Mined(b)
    /\ MarkChanged
    /\ UNCHANGED <<indexVars, headersVars, accountVars, userVars>>

\* The headers module catches up with the server and fires EventSynced, which
\* starts a goroutine for every callback that is still subscribed.  It does not
\* fire when its last batch was full, see Headers!SyncedAtTheEnd.
HeadersSync ==
    /\ localTip # tip
    /\ localTip' = tip
    /\ \/ /\ eventSynced' = (eventSynced \/ closing = "open")
          /\ UNCHANGED lostVerifications
       \/ /\ lostVerifications < MaxLost
          /\ lostVerifications' = lostVerifications + 1
          /\ UNCHANGED eventSynced
    /\ UNCHANGED <<indexVars, serverVars, accountVars, reader, failovers, restarts>>

-----------------------------------------------------------------------------
\* A callback of ScriptHashSubscribe with the current status: the first one
\* after subscribing, or a change.  It starts the goroutine and then, the first
\* time, runs the teardown that counts the subscription out.
Notify(p, a) ==
    /\ procs[p].pc = "idle"
    /\ sub[a] = "pending" \/ (sub[a] = "active" /\ a \in dirty)
    /\ procs' = [procs EXCEPT ![p] = [pc |-> "start", addr |-> a, status |-> ServerHistory(a)]]
    /\ sub' = [sub EXCEPT ![a] = "active"]
    /\ dirty' = dirty \ {a}
    /\ UNCHANGED <<indexVars, tip, mempool, broadcast, reorged, headersVars, userVars>>
    /\ UNCHANGED <<chainLen, loaded, fatalError, closing, panicked>>
    /\ SyncStep

\* The goroutine ends; SyncStep counts it out.
End(p) == procs' = [procs EXCEPT ![p] = Idle]

\* onAddressStatus up to IncRequestsCounter.  isClosed waits while Close holds
\* the lock; a database error is only possible after that.
Start(p) ==
    /\ procs[p].pc = "start"
    /\ closing \in {"open", "closed"}
    /\ LET a == procs[p].addr IN
       IF closing = "closed"
       THEN End(p) /\ UNCHANGED loaded
       ELSE IF procs[p].status = addressHistories[a]
       THEN End(p) /\ loaded' = loaded \cup {a}
       ELSE /\ procs' = [procs EXCEPT ![p] = [pc |-> "fetch", addr |-> a]]
            /\ UNCHANGED loaded
    /\ UNCHANGED <<indexVars, serverVars, headersVars, userVars>>
    /\ UNCHANGED <<chainLen, sub, fatalError, closing, panicked>>
    /\ SyncStep

\* ScriptHashGetHistory is answered, or fails for good.
Fetch(p, ok) ==
    /\ procs[p].pc = "fetch"
    /\ IF ok
       THEN /\ procs' = [procs EXCEPT ![p] = [pc |-> "got", addr |-> procs[p].addr,
                                              hist |-> ServerHistory(procs[p].addr)]]
            /\ UNCHANGED fatalError
       ELSE /\ fatalError' = TRUE
            /\ End(p)
    /\ UNCHANGED <<indexVars, serverVars, headersVars, userVars>>
    /\ UNCHANGED <<chainLen, sub, loaded, closing, panicked>>
    /\ SyncStep

\* "Safe some work in case account was closed in the meantime."
Got(p) ==
    /\ procs[p].pc = "got"
    /\ closing \in {"open", "closed"}
    /\ IF closing = "closed"
       THEN End(p)
       ELSE procs' = [procs EXCEPT ![p].pc = "apply"]
    /\ UNCHANGED <<indexVars, serverVars, headersVars, userVars>>
    /\ UNCHANGED <<chainLen, sub, loaded, fatalError, closing, panicked>>
    /\ SyncStep

\* A mutant: the update is not one database transaction.
Apply_TornWrite(p) ==
    /\ procs[p].pc = "apply"
    /\ closing = "open"
    /\ UpdateTxRecords(procs[p].addr, procs[p].hist)
    /\ procs' = [procs EXCEPT ![p] = [pc |-> "ensure", addr |-> procs[p].addr]]
    /\ UNCHANGED <<inputs, outputs, addressHistories, notifierVars, jobs>>
    /\ UNCHANGED <<serverVars, headersVars, userVars>>
    /\ UNCHANGED <<chainLen, sub, synced, loaded, fatalError, closing, panicked>>

\* transactions.UpdateAddressHistory: it returns early if it sees the closed
\* flag; if it looked before Close set the flag it goes on, and panics when the
\* database is closed by then.
Apply(p) ==
    /\ procs[p].pc = "apply"
    /\ \/ /\ closing \in {"open", "locked"}
          /\ UpdateAddressHistory(procs[p].addr, procs[p].hist)
          /\ UNCHANGED panicked
       \/ /\ closing # "open"
          /\ UNCHANGED <<indexVars, panicked>>
       \/ /\ closing \in {"dbClosed", "closed"}
          /\ panicked' = TRUE
          /\ UNCHANGED indexVars
    /\ procs' = [procs EXCEPT ![p] = [pc |-> "ensure", addr |-> procs[p].addr]]
    /\ UNCHANGED <<serverVars, headersVars, userVars>>
    /\ UNCHANGED <<chainLen, sub, synced, loaded, fatalError, closing>>

\* ensureAddresses at the end of onAddressStatus; with the database closed it
\* waits for Close to finish and gives up.
Ensure(p) ==
    /\ procs[p].pc = "ensure"
    /\ \/ /\ closing \in {"open", "locked"}
          /\ ensureAddresses
          /\ loaded' = loaded \cup {procs[p].addr}
       \/ /\ closing = "closed"
          /\ UNCHANGED <<chainLen, sub, loaded>>
    /\ End(p)
    /\ UNCHANGED <<indexVars, serverVars, headersVars, userVars, fatalError, closing, panicked>>
    /\ SyncStep

-----------------------------------------------------------------------------
\* onHeadersEvent(EventSynced).  The goroutine may have been started before Close
\* unsubscribed, and verifyTransactions panics if it cannot read the database.
HandleSynced ==
    /\ eventSynced
    /\ eventSynced' = FALSE
    /\ \/ /\ closing \in {"open", "locked"}
          /\ verifyTransactions
          /\ UNCHANGED panicked
       \/ /\ closing \in {"dbClosed", "closed"}
          /\ panicked' = TRUE
          /\ UNCHANGED indexVars
    /\ UNCHANGED <<localTip, serverVars, userVars>>
    /\ UNCHANGED <<chainLen, sub, procs, synced, loaded, fatalError, closing>>

\* The verifyTransaction goroutines of TransactionsIndex; MarkTxVerified only
\* logs an error when the database is closed.
Verify ==
    /\ \E j \in jobs :
        \/ GetHeader(j, LocalHeader(j.height)) /\ UNCHANGED lostVerifications
        \/ GetMerkle(j, MerkleOk(j)) /\ UNCHANGED lostVerifications
        \/ /\ lostVerifications < MaxLost
           /\ lostVerifications' = lostVerifications + 1
           /\ GetMerkle(j, FALSE)
        \/ closing \in {"open", "locked"} /\ MarkTxVerified(j) /\ UNCHANGED lostVerifications
        \/ /\ closing \in {"dbClosed", "closed"} /\ j.pc = "proved"
           /\ jobs' = jobs \ {j}
           /\ UNCHANGED <<dbVars, notifierVars, lostVerifications>>
    /\ UNCHANGED <<serverVars, headersVars, reader, failovers, restarts>>
    /\ UNCHANGED <<chainLen, sub, procs, loaded, fatalError, closing, panicked>>
    /\ SyncStep

\* Close takes the lock, closes transactions and then the database.
Close ==
    /\ \/ closing = "open" /\ closing' = "locked" /\ synced' = FALSE
       \/ closing = "locked" /\ closing' = "dbClosed" /\ UNCHANGED synced
       \/ closing = "dbClosed" /\ closing' = "closed" /\ UNCHANGED synced
    /\ UNCHANGED <<indexVars, serverVars, headersVars, userVars>>
    /\ UNCHANGED <<chainLen, sub, procs, loaded, fatalError, panicked>>

\* The Electrum client connects to another server: every subscription is made
\* again, and onConnectionStatusChanged resets the sync status.
Failover ==
    /\ failovers < MaxFailovers
    /\ failovers' = failovers + 1
    /\ sub' = [a \in Addrs |-> IF sub[a] = "active" THEN "pending" ELSE sub[a]]
    /\ dirty' = {}
    /\ synced' = FALSE
    /\ UNCHANGED <<indexVars, tip, mempool, broadcast, reorged, headersVars, reader, restarts, lostVerifications>>
    /\ UNCHANGED <<chainLen, procs, loaded, fatalError, closing, panicked>>

\* The app dies at any moment, also half way through UpdateAddressHistory, and is
\* started again: what is committed to the databases survives.
Restart ==
    /\ restarts < MaxRestarts
    /\ restarts' = restarts + 1
    /\ chainLen' = [c \in Chains |-> EnsuredLen(c, 0)]
    /\ sub' = [a \in Addrs |-> IF \E c \in Chains : a \in {ChainAddrs[c][i] : i \in 1..chainLen'[c]}
                               THEN "pending" ELSE "none"]
    /\ procs' = [p \in Procs |-> Idle]
    /\ \/ jobs' = {} /\ UNCHANGED <<dbVars, notifierVars>>
       \/ /\ closing \in {"open", "locked"}
          /\ \E p \in Procs : /\ procs[p].pc = "apply"
                              /\ CrashInUpdate(procs[p].addr, procs[p].hist)
    /\ synced' = FALSE /\ loaded' = {} /\ fatalError' = FALSE
    /\ closing' = "open" /\ panicked' = FALSE /\ eventSynced' = FALSE
    /\ reader' = "idle" /\ dirty' = {}
    /\ UNCHANGED <<tip, mempool, broadcast, reorged, localTip, failovers, lostVerifications>>

\* GetUnusedReceiveAddresses: WaitSynchronized, then GetUnused of a chain, which
\* may report "concurrency error: Addresses not synced correctly".
GetUnused ==
    /\ closing = "open"
    /\ \/ /\ reader = "idle" /\ ~Busy
          /\ reader' = "synced"
       \/ /\ reader = "synced"
          /\ \E c \in Chains :
                reader' = IF unusedTailCount(c, chainLen[c]) >= GapLimit[c]
                          THEN "idle" ELSE "failed"
    /\ UNCHANGED <<indexVars, serverVars, headersVars, accountVars, failovers, restarts, lostVerifications>>

Next ==
    /\ ~panicked
    /\ \/ \E t \in TxIds : Broadcast(t)
       \/ \E b \in Headers : NewBlock(b)
       \/ HeadersSync
       \/ \E p \in Procs : \/ \E a \in Addrs : Notify(p, a)
                           \/ Start(p)
                           \/ \E ok \in BOOLEAN : Fetch(p, ok)
                           \/ Got(p)
                           \/ Apply(p)
                           \/ Ensure(p)
       \/ HandleSynced
       \/ Verify
       \/ Close
       \/ Failover
       \/ Restart
       \/ GetUnused

\* Goroutines run, the server delivers notifications and answers, and the
\* headers module catches up; nothing makes Fetch fail, Close or crash.
Fairness ==
    /\ \A p \in Procs :
        /\ WF_vars(Start(p) \/ Fetch(p, TRUE) \/ Got(p) \/ Apply(p) \/ Ensure(p))
        /\ \A a \in Addrs : SF_vars(Notify(p, a))
    /\ WF_vars(HeadersSync)
    /\ WF_vars(HandleSynced)
    /\ WF_vars(Verify)

Spec == Init /\ [][Next]_vars
FairSpec == Spec /\ Fairness

-----------------------------------------------------------------------------
Quiescent ==
    /\ dirty = {} /\ ~eventSynced /\ jobs = {}
    /\ \A p \in Procs : procs[p].pc = "idle"
    /\ \A a \in Addrs : sub[a] # "pending"
Working == closing = "open" /\ ~fatalError /\ ~panicked

\* Each chain ends in gapLimit unused addresses (or at the end of the model's
\* addresses), so that GetUnused does not fail.
GapKept ==
    \A c \in Chains : \/ unusedTailCount(c, chainLen[c]) >= GapLimit[c]
                     \/ chainLen[c] = Len(ChainAddrs[c])

\* Whenever the account is idle, however many onAddressStatus goroutines ran and
\* whatever history each of them stored: GetUnused, called at such a moment, does
\* not fail, and every address that follows a used one at a distance of at most
\* the gap limit is known and watched, so that a payment to it will be seen.
GapWatched ==
    ~Busy /\ closing = "open" =>
        /\ GapKept
        /\ \A c \in Chains : \A i \in 1..chainLen[c], k \in 1..Len(ChainAddrs[c]) :
            isAddressUsed(ChainAddrs[c][i]) /\ k <= i + GapLimit[c]
            => ChainAddrs[c][k] \in Known(c) /\ sub[ChainAddrs[c][k]] = "active"

\* Why it holds: only ensureAddresses appends to a chain, and subscribes to what it
\* appends; a goroutine that has stored a history has ensureAddresses still to run.
SubStates == {"none", "pending", "active"}
GapInv ==
    /\ chainLen \in [Chains -> Nat]
    /\ \A c \in Chains : chainLen[c] <= Len(ChainAddrs[c])
    /\ sub \in [Addrs -> SubStates]
    /\ \A c \in Chains : \A i \in 1..chainLen[c] : sub[ChainAddrs[c][i]] # "none"
    /\ closing = "open" /\ (\A p \in Procs : procs[p].pc # "ensure") => GapKept

\* The index has what the server has: the history of every known address, and so
\* "all funds, with respect to the gap limit": an address that follows a used one
\* at a distance of at most the gap limit is known.
UpToDate ==
    /\ \A a \in KnownAddrs : addressHistories[a] = ServerHistory(a)
    /\ \A c \in Chains : \A i, k \in 1..Len(ChainAddrs[c]) :
        /\ i < k /\ k <= i + GapLimit[c]
        /\ ChainAddrs[c][i] \in Known(c) /\ DOMAIN ServerHistory(ChainAddrs[c][i]) # {}
        => ChainAddrs[c][k] \in Known(c)

\* When all notifications are handled, the index is up to date.  onAddressStatus
\* claims it of concurrent calls too: "that only leads to too much work
\* (downloading the history again), not an invalid state".
InSync == Quiescent /\ Working => UpToDate

\* It holds as long as no two goroutines are in onAddressStatus for the same address:
\* then what an address' goroutine holds, or what is stored if there is none, is what
\* the server has, or another notification is on its way.
OnePerAddress ==
    \A p, q \in Procs : procs[p].pc # "idle" /\ procs[q].pc # "idle" /\ procs[p].addr = procs[q].addr => p = q
Handles(p, a) == procs[p].pc \in {"start", "fetch", "got", "apply"} /\ procs[p].addr = a
HoldsCurrent(p, a) ==
    /\ procs[p].pc = "start" => procs[p].status = ServerHistory(a)
    /\ procs[p].pc \in {"got", "apply"} => procs[p].hist = ServerHistory(a)
Notified(a) ==
    sub[a] = "active" =>
        \/ a \in dirty
        \/ \E p \in Procs : Handles(p, a) /\ HoldsCurrent(p, a)
        \/ (\A p \in Procs : ~Handles(p, a)) /\ addressHistories[a] = ServerHistory(a)
NotifiedInv == closing = "open" /\ ~fatalError => \A a \in Addrs : Notified(a)

\* A confirmed transaction does not stay unverified until the next block: when
\* the headers arrive before the history, UpdateAddressHistory starts the
\* verification; when they arrive after it, EventSynced does.  A failed GetMerkle,
\* a missing EventSynced or a crash does delay it, and so does a reorganisation,
\* which may move the transaction to another height: that does not count as newly
\* confirmed.
ConfirmedVerified ==
    /\ Quiescent /\ Working /\ localTip = tip
    /\ lostVerifications = 0 /\ restarts = 0 /\ ~reorged
    => \A t \in msgTx : height[t] > 0 => t \in verified

\* Why it holds.  Without a reorganisation a height that the server reported stays
\* right, wherever it is kept, and a header that is looked up for it is the right one.
InChain(t, h) == \E b \in Branch[tip] : HeaderHeight[b] = h /\ t \in BlockTxs[b]
HistRight(p) ==
    procs[p].pc \in {"got", "apply"} =>
        \A t \in DOMAIN procs[p].hist : procs[p].hist[t] > 0 => InChain(t, procs[p].hist[t])
HeightsRight ==
    /\ Branch[localTip] \subseteq Branch[tip]
    /\ \A t \in TxIds : height[t] > 0 => InChain(t, height[t])
    /\ \A t \in TxIds \ msgTx : height[t] = 0
    /\ \A p \in Procs : HistRight(p)
    /\ \A j \in jobs : /\ j.height > 0 => InChain(j.tx, j.height)
                       /\ j.pc = "header" => j.tx \in BlockTxs[j.header]

\* So someone is still to verify a confirmed transaction that is not verified: the
\* callback for EventSynced, the headers once they arrive, or a goroutine.
ToBeVerified ==
    closing = "open" /\ lostVerifications = 0 /\ restarts = 0 =>
        \A t \in msgTx \ verified : height[t] > 0 =>
            \/ eventSynced
            \/ \A b \in Branch[localTip] : HeaderHeight[b] # height[t]
            \/ \E j \in jobs : j.tx = t /\ j.height = height[t]

VerifyInv ==
    /\ restarts \in Nat /\ lostVerifications \in Nat
    /\ ~reorged => HeightsRight /\ ToBeVerified

\* In the end the account comes to rest with an index that is up to date, unless it
\* was closed or gave up after a failed request.  This includes InSync: nothing
\* would bring an account at rest up to date later.
EventuallyInSync == <>[](Working => Quiescent /\ UpToDate)

\* "What is spent can not be available nor incoming": when all is handled, no
\* output that a stored transaction spends counts as available or incoming.
SpentIsNotAvailable ==
    Quiescent => \A t \in msgTx : TxIns[t] \cap (SpendableOutputs \cup Incoming) = {}

\* "synced indicates whether the account has loaded and finished the initial sync
\* of the addresses."
SyncedMeansLoaded == synced /\ closing = "open" /\ ~fatalError => KnownAddrs \subseteq loaded

\* "Time of confirmation. nil for unconfirmed tx": only a confirmed transaction
\* has a timestamp.
TimestampOnlyIfConfirmed == \A t \in msgTx : headerTimestamp[t] # NoHeader => height[t] > 0

\* "TxHash is the same as Tx.TxHash()": every record has its transaction, which
\* Transactions() dereferences.
RecordsHaveTx == txs = msgTx

\* Results that arrive after Close are ignored, they do not bring the app down.
NoPanic == ~panicked

\* GetUnusedReceiveAddresses, which waits until the account is synchronized and
\* then panics on an error, never gets one.
GetUnusedSucceeds == reader # "failed"

=============================================================================
