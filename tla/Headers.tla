------------------------------- MODULE Headers -------------------------------
(***************************************************************************)
(* Syncing of block headers (backend/coins/btc/headers) into a flat file   *)
(* of 80-byte records (backend/coins/btc/db/headersdb).                    *)
(*                                                                         *)
(* headers.lock is held from the request to the end of processBatch, so    *)
(* only the server, the subscription callback update and a crash           *)
(* interleave with a batch.  The difficulty and proof of work of a header  *)
(* depend on its ancestors only, so canConnect's checks of them are a set  *)
(* of headers, Sound.                                                      *)
(***************************************************************************)
EXTENDS Integers, Sequences

CONSTANTS
    Hdrs,           \* block headers
    Zero, NoHdr,    \* a record of zero bytes; no header
    Parent,         \* [Hdrs -> Hdrs \cup {NoHdr}], PrevBlock
    Sound,          \* headers with the right difficulty and enough work
    Genesis,        \* net.GenesisHash
    CpHeight, CpHash,   \* checkpoint()
    ChainTo,        \* [tips an honest server may have -> Seq(Hdrs)], the chain to it
    ReorgLimit,     \* reorgLimit, 100
    FirstBatch,     \* headersPerBatch at first, 10
    Max,            \* the maximum that every reply names as the server's
    MaxReply,       \* bound: headers in a forged reply, which may exceed the request
    MaxFaults,      \* bound: requests that fail or get a forged reply
    MaxCrashes,     \* bound: crashes of the app
    MaxZeroes       \* bound: zero records an interrupted write may leave

ASSUME HeadersAssumption ==
    /\ Parent \in [Hdrs -> Hdrs \cup {NoHdr}]
    /\ Genesis \in Hdrs /\ CpHash \in Hdrs /\ Sound \subseteq Hdrs
    /\ Zero \notin Hdrs /\ NoHdr \notin Hdrs
    /\ CpHeight \in Nat \ {0}
    /\ ReorgLimit \in Nat \ {0}
    /\ FirstBatch \in Nat \ {0}
    /\ Max \in Nat \ {0} /\ MaxReply \in Nat
    /\ DOMAIN ChainTo \subseteq Hdrs /\ Genesis \in DOMAIN ChainTo
    /\ \A b \in DOMAIN ChainTo : ChainTo[b] \in Seq(Hdrs)
    /\ MaxZeroes \in Nat

VARIABLES
    serverTip,
    announced,      \* has the subscription delivered the server's tip?
    file,           \* the headers file: the record of height h is file[h + 1]
    pc,             \* "idle", "batch" in processBatch, "closed", "down", "new"
    kicked,         \* kickChan, of capacity 1, is full
    headersPerBatch,
    targetHeight,
    batch,          \* the headers that are left to process
    got,            \* len(blockHeaders)
    lastEvent,      \* the last of EventSyncing and EventSynced
    faults, crashes

syncVars == <<pc, kicked, headersPerBatch, batch, got, lastEvent>>
boundVars == <<faults, crashes>>
vars == <<serverTip, announced, file, targetHeight, syncVars, boundVars>>

Tip == Len(file) - 1
ServerHeight == Len(ChainTo[serverTip]) - 1

min(a, b) == IF a < b THEN a ELSE b

TypeOK ==
    /\ serverTip \in DOMAIN ChainTo /\ announced \in BOOLEAN
    /\ file \in Seq(Hdrs \cup {Zero})
    /\ pc \in {"idle", "batch", "closed", "down", "new"}
    /\ kicked \in BOOLEAN
    /\ headersPerBatch \in Nat \ {0}
    /\ targetHeight \in Int
    /\ batch \in Seq(Hdrs)
    /\ got \in Nat
    /\ lastEvent \in {"none", "syncing", "synced"}

\* NewHeaders, after NewDB created the file.
Init ==
    /\ serverTip = Genesis /\ announced = FALSE
    /\ file = <<>>
    /\ pc = "new" /\ kicked = FALSE
    /\ headersPerBatch = FirstBatch /\ targetHeight = 0
    /\ batch = <<>> /\ got = 0 /\ lastEvent = "none"
    /\ faults = 0 /\ crashes = 0

-----------------------------------------------------------------------------
\* The best chain of the server gets higher.
NewServerTip(b) ==
    /\ Len(ChainTo[b]) > Len(ChainTo[serverTip])
    /\ serverTip' = b
    /\ announced' = FALSE
    /\ UNCHANGED <<file, targetHeight, syncVars, boundVars>>

\* Initialize: start download() and subscribe.
Initialize ==
    /\ pc = "new"
    /\ pc' = "idle"
    /\ kicked' = TRUE
    /\ announced' = FALSE
    /\ UNCHANGED <<serverTip, file, targetHeight, headersPerBatch, batch, got, lastEvent>>
    /\ UNCHANGED boundVars

\* update, called by the subscription.
update ==
    /\ ~announced /\ pc \in {"idle", "batch", "closed"}
    /\ announced' = TRUE
    /\ kicked' = TRUE
    /\ targetHeight' = ServerHeight
    /\ UNCHANGED <<serverTip, file, pc, headersPerBatch, batch, got, lastEvent>>
    /\ UNCHANGED boundVars

-----------------------------------------------------------------------------
\* blockchain.Headers(tip+1, headersPerBatch): what the server's chain has, and
\* all that may come instead.
BatchSize == min(Max, headersPerBatch)
HonestReply == LET chain == ChainTo[serverTip]
               IN  SubSeq(chain, Tip + 2, min(Tip + 1 + BatchSize, Len(chain)))
ForgedReplies == UNION {[1..k -> Hdrs] : k \in 0..MaxReply}

\* download takes the kick and sends the request.
Download ==
    /\ pc = "idle" /\ kicked
    /\ kicked' = FALSE
    /\ \/ batch' = HonestReply /\ UNCHANGED faults
       \/ /\ faults < MaxFaults
          /\ faults' = faults + 1
          /\ batch' \in ForgedReplies
    /\ got' = Len(batch')
    /\ pc' = "batch"
    /\ UNCHANGED <<serverTip, announced, file, targetHeight, headersPerBatch, lastEvent, crashes>>

\* The request fails: nothing is tried again until the next kick.
DownloadFails ==
    /\ pc = "idle" /\ kicked
    /\ faults < MaxFaults
    /\ kicked' = FALSE
    /\ faults' = faults + 1
    /\ UNCHANGED <<serverTip, announced, file, targetHeight, pc, headersPerBatch, batch, got>>
    /\ UNCHANGED <<lastEvent, crashes>>

\* canConnect: errPrevHash, any other error, or none.
PrevHashError(h) == file # <<>> /\ Parent[h] # file[Len(file)]
OtherError_NoCheckpoint(h) ==
    \/ file = <<>> /\ h # Genesis
    \/ file # <<>> /\ h \notin Sound
OtherError(h) ==
    \/ file = <<>> /\ h # Genesis
    \/ Len(file) = CpHeight /\ h # CpHash
    \/ file # <<>> /\ h \notin Sound

\* One round of the loop in processBatch.
PutHeader(h) ==
    /\ file' = Append(file, h)
    /\ batch' = Tail(batch)
    /\ UNCHANGED <<pc, kicked>>

\* RevertTo(max(tip - reorgLimit, -1))
reorg_NoKick ==
    /\ file' = SubSeq(file, 1, Len(file) - ReorgLimit)
    /\ pc' = "idle" /\ batch' = <<>>
    /\ UNCHANGED kicked
reorg ==
    /\ file' = SubSeq(file, 1, Len(file) - ReorgLimit)
    /\ kicked' = TRUE
    /\ pc' = "idle" /\ batch' = <<>>

Abort ==
    /\ pc' = "idle" /\ batch' = <<>>
    /\ UNCHANGED <<file, kicked>>

ProcessHeader ==
    /\ pc = "batch" /\ batch # <<>>
    /\ LET h == Head(batch) IN
       \/ PrevHashError(h) /\ reorg
       \/ ~PrevHashError(h) /\ OtherError(h) /\ Abort
       \/ ~PrevHashError(h) /\ ~OtherError(h) /\ PutHeader(h)
    /\ UNCHANGED <<serverTip, announced, targetHeight, headersPerBatch, got, lastEvent>>
    /\ UNCHANGED boundVars

\* The end of processBatch: Flush, then "there might be more" or EventSynced.
FinishBatch ==
    /\ pc = "batch" /\ batch = <<>>
    /\ pc' = "idle"
    /\ IF got = BatchSize
       THEN kicked' = TRUE /\ lastEvent' = "syncing"
       ELSE /\ UNCHANGED kicked
            /\ lastEvent' = IF got # 0 THEN "synced" ELSE lastEvent
    /\ headersPerBatch' = Max
    /\ UNCHANGED <<serverTip, announced, file, targetHeight, batch, got, boundVars>>

-----------------------------------------------------------------------------
\* Close waits for the lock.
Close ==
    /\ pc = "idle"
    /\ pc' = "closed"
    /\ UNCHANGED <<serverTip, announced, file, targetHeight, kicked, headersPerBatch, batch, got>>
    /\ UNCHANGED <<lastEvent, boundVars>>

\* The app dies.  An interrupted WriteAt may have made the file longer without
\* writing the data.
Crash(z) ==
    /\ crashes < MaxCrashes
    /\ crashes' = crashes + 1
    /\ z > 0 => pc = "batch" /\ batch # <<>>
    /\ file' = file \o [i \in 1..z |-> Zero]
    /\ pc' = "down"
    /\ kicked' = FALSE /\ headersPerBatch' = FirstBatch /\ targetHeight' = 0
    /\ batch' = <<>> /\ got' = 0 /\ lastEvent' = "none"
    /\ UNCHANGED <<serverTip, announced, faults>>

\* NewDB: a round of fixTrailingZeroesHeaders, which ends at a real header.
TrailingZero_OnlyOne == file # <<>> /\ file[Len(file)] = Zero
                        /\ ~(Len(file) > 1 /\ file[Len(file) - 1] = Zero)
TrailingZero == file # <<>> /\ file[Len(file)] = Zero
NewDB ==
    /\ pc = "down"
    /\ \/ TrailingZero /\ file' = SubSeq(file, 1, Len(file) - 1) /\ UNCHANGED pc
       \/ ~TrailingZero /\ UNCHANGED file /\ pc' = "new"
    /\ UNCHANGED <<serverTip, announced, targetHeight, kicked, headersPerBatch, batch, got>>
    /\ UNCHANGED <<lastEvent, boundVars>>

Next ==
    \/ \E b \in DOMAIN ChainTo : NewServerTip(b)
    \/ Initialize
    \/ update
    \/ Download
    \/ DownloadFails
    \/ ProcessHeader
    \/ FinishBatch
    \/ Close
    \/ \E z \in 0..MaxZeroes : Crash(z)
    \/ NewDB

\* The app starts, the download goroutine runs, requests are answered and the
\* subscription delivers; nothing makes a request fail, Close or a crash happen.
Fairness ==
    /\ WF_vars(NewDB)
    /\ WF_vars(Initialize)
    /\ WF_vars(update)
    /\ WF_vars(Download \/ ProcessHeader \/ FinishBatch)

Spec == Init /\ [][Next]_vars
FairSpec == Spec /\ Fairness

-----------------------------------------------------------------------------
\* VerifiedHeaderByHeight, with NoHdr for nil.
VerifiedHeaderByHeight(h) ==
    IF Tip < CpHeight \/ Tip < h THEN NoHdr ELSE file[h + 1]

\* Record i of the file follows on the records before it.
Connected(i) ==
    IF i = 1 THEN file[i] = Genesis
    ELSE file[i] \in Sound /\ Parent[file[i]] = file[i - 1]

\* Whatever the server sends and whenever the app dies, the headers the program
\* works with are a chain of sound headers that starts at the genesis block.
ChainConnected == pc # "down" => \A i \in 1..Len(file) : Connected(i)

\* A header that transactions are verified against is on the chain through the
\* checkpoint, also while that chain is being replaced.
VerifiedThroughCheckpoint ==
    pc # "down" => \A h \in 0..Tip :
        VerifiedHeaderByHeight(h) # NoHdr =>
            Tip >= CpHeight /\ file[CpHeight + 1] = CpHash

\* With an honest server the file ends up as the server's chain, through batches,
\* forks deeper than reorgLimit and crashes, unless a request failed (nothing
\* retries it before the next block) or the headers were closed.
CatchesUp ==
    <>[](pc # "closed" /\ faults = 0 => file = ChainTo[serverTip])

\* "EventSyncing is fired when the headers are syncing (a batch was downloaded but
\* more are coming). At the end, EventSynced is fired."
SyncedAtTheEnd ==
    lastEvent = "syncing" ~> (lastEvent # "syncing" \/ pc \in {"closed", "down"} \/ faults > 0)

\* What makes the two invariants inductive: a record is zero or connected and, at
\* the checkpoint, the right one; zero records are at the end, and gone once NewDB
\* has opened the file.
RecordsSound ==
    \A i \in 1..Len(file) : file[i] # Zero =>
        Connected(i) /\ (i = CpHeight + 1 => file[i] = CpHash)
ZeroesAtEnd ==
    /\ \A i, j \in 1..Len(file) : i <= j /\ file[i] = Zero => file[j] = Zero
    /\ pc # "down" => \A i \in 1..Len(file) : file[i] # Zero
IInv == TypeOK /\ RecordsSound /\ ZeroesAtEnd
=============================================================================
