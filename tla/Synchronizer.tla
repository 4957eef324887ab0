---------------------------- MODULE Synchronizer ----------------------------
(***************************************************************************)
(* The reference counter that every account uses to know whether it is     *)
(* syncing (backend/coins/btc/synchronizer/synchronizer.go), together with *)
(* the callbacks that BaseAccount installs in it                           *)
(* (backend/accounts/baseaccount.go).                                      *)
(*                                                                         *)
(* A task is a goroutine, a subscription or a download that called         *)
(* IncRequestsCounter and owes one call of the function it got back.  A    *)
(* waiter is a goroutine inside WaitSynchronized.  Each critical section   *)
(* of waitLock is one action; WaitSynchronized gives the lock back before  *)
(* it blocks, so it is two.                                                *)
(***************************************************************************)
EXTENDS Integers, FiniteSets

CONSTANTS
    Tasks,      \* the goroutines that count themselves in and out
    Waiters,    \* the goroutines that call WaitSynchronized
    MaxChans    \* bound: number of wait channels a behaviour may create

ASSUME TasksAssumption == IsFiniteSet(Tasks)
ASSUME MaxChansAssumption == MaxChans \in Nat \ {0}

VARIABLES
    requestsCounter,    \* synchronizer.requestsCounter
    wait,               \* synchronizer.wait: a channel number, 0 for nil
    chans,              \* number of channels made so far
    closedChans,        \* the channels that close() was called on
    synced,             \* account.synced
    lastEvent,          \* the last of SyncStarted and SyncDone sent to OnEvent
    running,            \* the tasks that still owe their done() call
    pc,                 \* where each waiter is: "idle", "blocked" or "returned"
    waitsOn,            \* the local variable "wait" of each waiter
    owed                \* history: tasks that ran when the waiter read the counter
                        \* and have not called done() since

vars == <<requestsCounter, wait, chans, closedChans, synced, lastEvent, running,
          pc, waitsOn, owed>>

syncVars == <<requestsCounter, wait, chans, closedChans, synced, lastEvent, running>>
waiterVars == <<pc, waitsOn, owed>>

TypeOK ==
    /\ requestsCounter \in Int
    /\ wait \in 0..MaxChans
    /\ chans \in 0..MaxChans
    /\ closedChans \in SUBSET (1..MaxChans)
    /\ synced \in BOOLEAN
    /\ lastEvent \in {"none", "SyncStarted", "SyncDone"}
    /\ running \in SUBSET Tasks
    /\ pc \in [Waiters -> {"idle", "blocked", "returned"}]
    /\ waitsOn \in [Waiters -> 0..MaxChans]
    /\ owed \in [Waiters -> SUBSET Tasks]

\* NewSynchronizer, and the zero value of BaseAccount.synced.
Init ==
    /\ requestsCounter = 0
    /\ wait = 0
    /\ chans = 0
    /\ closedChans = {}
    /\ synced = FALSE
    /\ lastEvent = "none"
    /\ running = {}
    /\ pc = [w \in Waiters |-> "idle"]
    /\ waitsOn = [w \in Waiters |-> 0]
    /\ owed = [w \in Waiters |-> {}]

-----------------------------------------------------------------------------
\* requestsCounter++ and requestsCounter--.
CountIn == requestsCounter' = requestsCounter + 1
CountOut == requestsCounter' = requestsCounter - 1

\* onSyncStarted and a fresh channel, when the counter was first incremented.
FirstIn ==
    /\ chans < MaxChans
    /\ lastEvent' = "SyncStarted"
    /\ chans' = chans + 1
    /\ wait' = chans + 1

IncRequestsCounter(t) ==
    /\ t \notin running
    /\ running' = running \cup {t}
    /\ CountIn
    /\ \/ requestsCounter' = 1 /\ FirstIn
       \/ requestsCounter' # 1 /\ UNCHANGED <<lastEvent, chans, wait>>
    /\ UNCHANGED <<closedChans, synced>>
    /\ UNCHANGED waiterVars

\* onSyncFinished, then everyone waiting is woken up by closing the channel.
LastOut_NoClose ==
    /\ synced' = TRUE
    /\ lastEvent' = "SyncDone"
    /\ wait' = 0
    /\ UNCHANGED closedChans
LastOut ==
    /\ synced' = TRUE
    /\ lastEvent' = "SyncDone"
    /\ closedChans' = closedChans \cup {wait}
    /\ wait' = 0

\* The test that ends the sync phase.
IsLastOut_OffByOne == requestsCounter' <= 1
IsLastOut == requestsCounter' = 0

\* A negative counter panics in the code; CounterIsOutstanding excludes it.
decRequestsCounter(t) ==
    /\ t \in running
    /\ running' = running \ {t}
    /\ CountOut
    /\ \/ IsLastOut /\ LastOut
       \/ ~IsLastOut /\ UNCHANGED <<synced, lastEvent, closedChans, wait>>
    /\ owed' = [w \in Waiters |-> owed[w] \ {t}]
    /\ UNCHANGED <<chans, pc, waitsOn>>

-----------------------------------------------------------------------------
\* WaitSynchronized, up to the unlock: the counter and the channel are read
\* together.  With a counter of zero it returns at once.
WaitBegin(w) ==
    /\ pc[w] # "blocked"
    /\ pc' = [pc EXCEPT ![w] = IF requestsCounter = 0 THEN "returned" ELSE "blocked"]
    /\ waitsOn' = [waitsOn EXCEPT ![w] = wait]
    /\ owed' = [owed EXCEPT ![w] = running]
    /\ UNCHANGED syncVars

\* "<-wait": receiving from a closed channel returns, from a nil channel never.
WaitEnd(w) ==
    /\ pc[w] = "blocked"
    /\ waitsOn[w] # 0
    /\ waitsOn[w] \in closedChans
    /\ pc' = [pc EXCEPT ![w] = "returned"]
    /\ UNCHANGED <<waitsOn, owed>>
    /\ UNCHANGED syncVars

\* ResetSynced (on reconnect) and BaseAccount.Close: a plain atomic store, not
\* under waitLock.
ResetSynced ==
    /\ synced
    /\ synced' = FALSE
    /\ UNCHANGED <<requestsCounter, wait, chans, closedChans, lastEvent, running>>
    /\ UNCHANGED waiterVars

Next ==
    \/ \E t \in Tasks : IncRequestsCounter(t) \/ decRequestsCounter(t)
    \/ \E w \in Waiters : WaitBegin(w) \/ WaitEnd(w)
    \/ ResetSynced

\* Every caller calls the function it got back ("must be called after the task
\* has finished"; all callers defer it or run it in a once), and the Go runtime
\* wakes a goroutine whose channel was closed.
Fairness ==
    /\ \A t \in Tasks : WF_vars(decRequestsCounter(t))
    /\ \A w \in Waiters : WF_vars(WaitEnd(w))

Spec == Init /\ [][Next]_vars /\ Fairness
SafetySpec == Init /\ [][Next]_vars

-----------------------------------------------------------------------------
\* The counter is the number of tasks that still owe a done() call, so
\* decRequestsCounter never reaches its panic("request counter cannot be
\* negative").
CounterIsOutstanding == requestsCounter = Cardinality(running)

\* There is a channel to wait on exactly while tasks are outstanding, it is open,
\* and onSyncStarted/onSyncFinished have told the observers so.
ChannelMatchesCounter ==
    /\ (requestsCounter > 0) <=> (wait # 0)
    /\ wait \notin closedChans
    /\ (requestsCounter > 0) <=> (lastEvent = "SyncStarted")

\* A goroutine blocked in WaitSynchronized is never blocked on a nil channel or
\* on an open channel nobody holds any more: there is still someone to wake it.
WaiterHasWaker ==
    \A w \in Waiters : pc[w] = "blocked" =>
        /\ waitsOn[w] # 0
        /\ waitsOn[w] = wait \/ waitsOn[w] \in closedChans

\* "WaitSynchronized blocks until all pending synchronization tasks are
\* finished": when it returns, no task that was pending when it was called is
\* still pending, however many new tasks have come in meanwhile.
NoEarlyReturn ==
    \A w \in Waiters : pc[w] = "returned" => owed[w] = {}

\* WaitSynchronized is right: it does not return too early, and it does not block
\* where nobody will wake it.
WaitIsRight == NoEarlyReturn /\ WaiterHasWaker

\* What makes the invariants above inductive: channels are numbered in the order
\* they are made, only the newest can be open, a waiter is owed only by running
\* tasks, and by none once its channel is closed.
ChannelsInOrder ==
    /\ closedChans \subseteq 1..chans
    /\ wait \in {0, chans}
    /\ \A w \in Waiters : owed[w] \subseteq running
    /\ \A w \in Waiters :
        pc[w] = "blocked" /\ waitsOn[w] \in closedChans => owed[w] = {}

IInv ==
    /\ TypeOK
    /\ CounterIsOutstanding
    /\ ChannelMatchesCounter
    /\ ChannelsInOrder
    /\ WaiterHasWaker
    /\ NoEarlyReturn

\* onSyncFinished is the only place that sets synced, so an account turns synced
\* only at a moment when nothing is outstanding.
SyncedOnlyWhenIdle == [][~synced /\ synced' => requestsCounter' = 0]_vars

\* Everyone blocked in WaitSynchronized gets out, even when new tasks come in
\* before the blocked goroutine is scheduled again, provided the counter keeps
\* coming back to zero.  (Without the proviso it is false: tasks that overlap
\* without end starve every waiter, also one whose own tasks are long done.)
WaitersReturn ==
    []<>(requestsCounter = 0) =>
        \A w \in Waiters : (pc[w] = "blocked") ~> (pc[w] = "returned")
=============================================================================
