---------------------------- MODULE Accounts_proofs ----------------------------
(***************************************************************************)
(* Proofs about the accounts of the app: the requests counter that every   *)
(* BTC/LTC account has (Synchronizer), and which accounts are persisted    *)
(* and loaded (Accounts).                                                  *)
(***************************************************************************)
EXTENDS Synchronizer, Accounts, NatLemmas, FiniteSetTheorems, TLAPS

-----------------------------------------------------------------------------
(* Synchronizer                                                            *)

\* A counter that equals the number of running tasks is a natural number, zero
\* only when nothing runs, and follows one task coming in or going out.
LEMMA RunningCount ==
    ASSUME TypeOK, NEW t \in Tasks
    PROVE  /\ IsFiniteSet(running)
           /\ Cardinality(running) \in Nat
           /\ Cardinality(running) = 0 <=> running = {}
           /\ t \notin running => Cardinality(running \cup {t}) = Cardinality(running) + 1
           /\ t \in running => Cardinality(running \ {t}) = Cardinality(running) - 1
<1>1. IsFiniteSet(running)
  BY FS_Subset, TasksAssumption DEF TypeOK
<1>2. Cardinality(running) \in Nat
  BY <1>1, FS_CardinalityType
<1>3. Cardinality(running) = 0 <=> running = {}
  BY <1>1, FS_EmptySet
<1>4. t \notin running => Cardinality(running \cup {t}) = Cardinality(running) + 1
  BY <1>1, FS_AddElement
<1>5. t \in running => Cardinality(running \ {t}) = Cardinality(running) - 1
  BY <1>1, FS_RemoveElement
<1> QED
  BY <1>1, <1>2, <1>3, <1>4, <1>5

\* An empty account has no outstanding task: Init establishes the invariant.
LEMMA InitIInv == Init => IInv
<1> SUFFICES ASSUME Init PROVE IInv
  OBVIOUS
<1>1. TypeOK
  <2>1. synced \in BOOLEAN
    BY Zenon DEF Init
  <2>2. requestsCounter \in Int /\ wait \in 0..MaxChans /\ chans \in 0..MaxChans
    BY MaxChansAssumption DEF Init
  <2>3. waitsOn \in [Waiters -> 0..MaxChans]
    BY MaxChansAssumption DEF Init
  <2> QED
    BY <2>1, <2>2, <2>3, Zenon DEF Init, TypeOK
<1>2. CounterIsOutstanding
  BY FS_EmptySet DEF Init, CounterIsOutstanding
<1>3. ChannelMatchesCounter /\ ChannelsInOrder /\ WaiterHasWaker /\ NoEarlyReturn
  BY DEF Init, ChannelMatchesCounter, ChannelsInOrder, WaiterHasWaker, NoEarlyReturn
<1> QED
  BY <1>1, <1>2, <1>3 DEF IInv

\* IncRequestsCounter preserves the invariant.
LEMMA IncIInv ==
    ASSUME IInv, NEW t \in Tasks, IncRequestsCounter(t)
    PROVE  IInv'
<1> USE MaxChansAssumption
<1>1. /\ Cardinality(running) \in Nat
      /\ Cardinality(running') = Cardinality(running) + 1
  BY RunningCount DEF IInv, IncRequestsCounter
<1>2. requestsCounter \in Nat /\ requestsCounter' = requestsCounter + 1
  BY <1>1 DEF IInv, CounterIsOutstanding, IncRequestsCounter, CountIn
<1>3. CounterIsOutstanding'
  BY <1>1, <1>2 DEF IInv, CounterIsOutstanding
<1>4. TypeOK'
  BY <1>2 DEF IInv, TypeOK, IncRequestsCounter, FirstIn, waiterVars
<1>5. ChannelMatchesCounter' /\ ChannelsInOrder'
  BY <1>2 DEF IInv, TypeOK, ChannelMatchesCounter, ChannelsInOrder, IncRequestsCounter, FirstIn, waiterVars
<1>6. WaiterHasWaker'
  BY <1>2 DEF IInv, TypeOK, ChannelMatchesCounter, WaiterHasWaker, IncRequestsCounter, FirstIn, waiterVars
<1>7. NoEarlyReturn'
  BY DEF IInv, NoEarlyReturn, IncRequestsCounter, waiterVars
<1> QED
  BY <1>3, <1>4, <1>5, <1>6, <1>7 DEF IInv

\* decRequestsCounter preserves the invariant.
LEMMA DecIInv ==
    ASSUME IInv, NEW t \in Tasks, decRequestsCounter(t)
    PROVE  IInv'
<1> USE MaxChansAssumption
<1>0. /\ \/ closedChans' = closedChans \cup {wait} /\ wait' = 0
         \/ UNCHANGED <<closedChans, wait>>
      /\ UNCHANGED chans
  BY Zenon DEF decRequestsCounter, LastOut
<1>1. /\ Cardinality(running) \in Nat
      /\ Cardinality(running) # 0
      /\ Cardinality(running') = Cardinality(running) - 1
      /\ running' = running \ {t}
  BY RunningCount DEF IInv, decRequestsCounter
<1>2. requestsCounter \in Nat /\ requestsCounter > 0 /\ requestsCounter' = requestsCounter - 1
  BY <1>1 DEF IInv, CounterIsOutstanding, decRequestsCounter, CountOut
<1>23. wait \in 1..MaxChans /\ wait = chans
  BY <1>2 DEF IInv, TypeOK, ChannelMatchesCounter, ChannelsInOrder
<1>3. CounterIsOutstanding'
  BY <1>1, <1>2 DEF IInv, CounterIsOutstanding
<1>4. TypeOK'
  <2>1. synced' \in BOOLEAN
    <3>1. synced \in BOOLEAN
      BY DEF IInv, TypeOK
    <3>2. synced' = TRUE \/ synced' = synced
      BY Zenon DEF decRequestsCounter, LastOut
    <3> QED
      BY <3>1, <3>2, Zenon
  <2>2. requestsCounter' \in Int /\ wait' \in 0..MaxChans /\ closedChans' \in SUBSET (1..MaxChans)
    <3>1. closedChans \subseteq 1..MaxChans /\ wait \in 0..MaxChans
      BY DEF IInv, TypeOK
    <3>2. requestsCounter' \in Int /\ wait' \in 0..MaxChans
      BY <1>0, <1>2, <3>1
    <3>3. \A c \in closedChans' : c \in closedChans \/ c = wait
      BY <1>0
    <3> QED
      BY <1>23, <3>1, <3>2, <3>3
  <2>3. lastEvent' \in {"none", "SyncStarted", "SyncDone"}
    BY DEF IInv, TypeOK, decRequestsCounter, LastOut
  <2>4. UNCHANGED <<chans, pc, waitsOn>> /\ owed' \in [Waiters -> SUBSET Tasks]
    BY DEF IInv, TypeOK, decRequestsCounter
  <2> QED
    BY <1>1, <2>1, <2>2, <2>3, <2>4 DEF IInv, TypeOK
<1>5. requestsCounter' = 0 => running' = {}
  BY <1>3, <1>4, RunningCount, FS_Subset, FS_EmptySet, TasksAssumption DEF CounterIsOutstanding, TypeOK
<1>6. ChannelMatchesCounter'
  BY <1>2 DEF IInv, TypeOK, ChannelMatchesCounter, ChannelsInOrder, decRequestsCounter, LastOut, IsLastOut
<1>7. \A w \in Waiters : owed'[w] = owed[w] \ {t}
  BY DEF IInv, TypeOK, decRequestsCounter
<1>8. ChannelsInOrder'
  <2>1. closedChans' \subseteq 1..chans' /\ wait' \in {0, chans'}
    <3>1. closedChans \subseteq 1..chans
      BY DEF IInv, ChannelsInOrder
    <3>2. \A c \in closedChans' : c \in closedChans \/ c = wait
      BY <1>0
    <3>3. wait \in 1..chans /\ wait = chans
      BY <1>23
    <3>4. closedChans' \subseteq 1..chans
      BY <3>1, <3>2, <3>3
    <3> QED
      BY <1>0, <1>23, <3>4
  <2>2. \A w \in Waiters : owed'[w] \subseteq running'
    BY <1>1, <1>7 DEF IInv, ChannelsInOrder
  <2>3. CASE requestsCounter' = 0
    BY <1>5, <2>1, <2>2, <2>3 DEF ChannelsInOrder
  <2>4. CASE requestsCounter' # 0
    <3>1. UNCHANGED <<closedChans, pc, waitsOn>>
      BY <2>4 DEF decRequestsCounter, IsLastOut
    <3> QED
      BY <1>7, <2>1, <2>2, <3>1 DEF IInv, ChannelsInOrder
  <2> QED
    BY <2>3, <2>4
<1>9. WaiterHasWaker'
  BY <1>2 DEF IInv, TypeOK, ChannelMatchesCounter, WaiterHasWaker, decRequestsCounter, LastOut, IsLastOut
<1>10. NoEarlyReturn'
  BY <1>7 DEF IInv, TypeOK, NoEarlyReturn, decRequestsCounter
<1> QED
  BY <1>3, <1>4, <1>6, <1>8, <1>9, <1>10 DEF IInv

\* Both halves of WaitSynchronized preserve the invariant.
LEMMA WaitIInv ==
    ASSUME IInv, NEW w \in Waiters, WaitBegin(w) \/ WaitEnd(w)
    PROVE  IInv'
<1>1. UNCHANGED syncVars
  BY DEF WaitBegin, WaitEnd
<1>2. TypeOK'
  BY <1>1 DEF IInv, TypeOK, WaitBegin, WaitEnd, syncVars
<1>3. CounterIsOutstanding' /\ ChannelMatchesCounter'
  BY <1>1 DEF IInv, CounterIsOutstanding, ChannelMatchesCounter, syncVars
<1>4. CASE WaitBegin(w)
  <2>1. requestsCounter = 0 => running = {}
    BY FS_Subset, FS_EmptySet, TasksAssumption DEF IInv, TypeOK, CounterIsOutstanding
  <2>2. requestsCounter \in Nat
    BY FS_Subset, FS_CardinalityType, TasksAssumption DEF IInv, TypeOK, CounterIsOutstanding
  <2>3. /\ owed'[w] = running /\ waitsOn'[w] = wait
        /\ pc'[w] = IF requestsCounter = 0 THEN "returned" ELSE "blocked"
        /\ \A v \in Waiters \ {w} : owed'[v] = owed[v] /\ waitsOn'[v] = waitsOn[v] /\ pc'[v] = pc[v]
    BY <1>4 DEF IInv, TypeOK, WaitBegin
  <2>4. ChannelsInOrder'
    BY <1>1, <2>2, <2>3 DEF IInv, ChannelsInOrder, ChannelMatchesCounter, syncVars
  <2>5. WaiterHasWaker'
    BY <1>1, <2>2, <2>3 DEF IInv, WaiterHasWaker, ChannelMatchesCounter, syncVars
  <2>6. NoEarlyReturn'
    BY <2>1, <2>3 DEF IInv, NoEarlyReturn
  <2> QED
    BY <1>2, <1>3, <2>4, <2>5, <2>6 DEF IInv
<1>5. CASE WaitEnd(w)
  <2>1. /\ pc'[w] = "returned" /\ owed[w] = {} /\ UNCHANGED <<waitsOn, owed>>
        /\ \A v \in Waiters \ {w} : pc'[v] = pc[v]
    BY <1>5 DEF IInv, TypeOK, ChannelsInOrder, WaitEnd
  <2>2. ChannelsInOrder' /\ WaiterHasWaker' /\ NoEarlyReturn'
    BY <1>1, <2>1 DEF IInv, ChannelsInOrder, WaiterHasWaker, NoEarlyReturn, syncVars
  <2> QED
    BY <1>2, <1>3, <2>2 DEF IInv
<1> QED
  BY <1>4, <1>5

\* Every step of the specification preserves the invariant.
LEMMA NextIInv == IInv /\ [Next]_vars => IInv'
<1> SUFFICES ASSUME IInv, [Next]_vars PROVE IInv'
  OBVIOUS
<1>1. CASE \E t \in Tasks : IncRequestsCounter(t) \/ decRequestsCounter(t)
  BY <1>1, IncIInv, DecIInv
<1>2. CASE \E w \in Waiters : WaitBegin(w) \/ WaitEnd(w)
  BY <1>2, WaitIInv
<1>3. CASE ResetSynced
  BY <1>3 DEF ResetSynced, waiterVars, IInv, TypeOK, CounterIsOutstanding, ChannelMatchesCounter,
              ChannelsInOrder, WaiterHasWaker, NoEarlyReturn
<1>4. CASE UNCHANGED vars
  BY <1>4 DEF vars, IInv, TypeOK, CounterIsOutstanding, ChannelMatchesCounter,
              ChannelsInOrder, WaiterHasWaker, NoEarlyReturn
<1> QED
  BY <1>1, <1>2, <1>3, <1>4 DEF Next

\* The inductive invariant holds in every reachable state.
THEOREM Invariance == SafetySpec => []IInv
<1> QED
  BY InitIInv, NextIInv, PTL DEF SafetySpec

\* WaitSynchronized never returns while a task that was pending when it was called is
\* still pending, and a goroutine blocked in it always has someone left to wake it.
THEOREM WaitIsRightHolds == SafetySpec => []WaitIsRight
<1>1. IInv => WaitIsRight
  BY DEF IInv, WaitIsRight
<1> QED
  BY Invariance, <1>1, PTL

\* The counter is exactly the number of outstanding tasks; it cannot go negative
\* and the panic in decRequestsCounter is unreachable.
THEOREM CounterIsOutstandingHolds == SafetySpec => []CounterIsOutstanding
<1>1. IInv => CounterIsOutstanding
  BY DEF IInv
<1> QED
  BY Invariance, <1>1, PTL

\* BaseAccount.synced turns TRUE only at a moment when nothing is outstanding.
THEOREM SyncedOnlyWhenIdleHolds == SafetySpec => SyncedOnlyWhenIdle
<1>1. [Next]_vars => [~synced /\ synced' => requestsCounter' = 0]_vars
  BY DEF Next, vars, IncRequestsCounter, decRequestsCounter, IsLastOut, WaitBegin, WaitEnd,
         ResetSynced, syncVars
<1> QED
  BY <1>1, PTL DEF SafetySpec, SyncedOnlyWhenIdle

\* Counter, channels and waiters keep their types; in particular wait is a channel that was made.
THEOREM TypeCorrect == SafetySpec => []TypeOK
<1>1. IInv => TypeOK
  BY DEF IInv
<1> QED
  BY Invariance, <1>1, PTL

\* wait is open exactly while tasks are outstanding, whatever the order in which they
\* count in and out.
THEOREM ChannelMatchesCounterHolds == SafetySpec => []ChannelMatchesCounter
<1>1. IInv => ChannelMatchesCounter
  BY DEF IInv
<1> QED
  BY Invariance, <1>1, PTL

-----------------------------------------------------------------------------
(* Accounts                                                                *)

\* The code of an account and of the one before it.
LEMMA CodeFacts ==
    ASSUME NEW c \in Codes
    PROVE  /\ c = [root |-> c.root, coin |-> c.coin, n |-> c.n]
           /\ c.root \in Roots /\ c.coin \in Coins /\ c.n \in 0..MaxNumber
           /\ [c EXCEPT !.n = @ - 1] = [root |-> c.root, coin |-> c.coin, n |-> c.n - 1]
  BY DEF Codes

\* A config whose accounts were changed but not added to.
LEMMA UpdateOK ==
    ASSUME NEW k, ConfigOK(k), NEW f \in [DOMAIN k.accounts -> Account],
           NEW w, w \in [DOMAIN w -> BOOLEAN],
           \A c \in DOMAIN k.accounts : Unseen(f[c]) /\ (k.accounts[c].used => f[c].used)
    PROVE  ConfigOK([accounts |-> f, watchonly |-> w])
  <1> DEFINE k2 == [accounts |-> f, watchonly |-> w]
  <1>1. k2.accounts = f /\ k2.watchonly = w /\ DOMAIN f = DOMAIN k.accounts
    OBVIOUS
  <1> HIDE DEF k2
  <1>2. ASSUME NEW c \in DOMAIN f PROVE Follows(k2, c)
    <2>1. Follows(k, c)
      BY <1>1 DEF ConfigOK
    <2> QED BY <1>1, <2>1 DEF Follows
  <1>3. k2 = [accounts |-> k2.accounts, watchonly |-> k2.watchonly]
    BY <1>1 DEF k2
  <1>4. DOMAIN k2.accounts \subseteq Codes
    BY <1>1 DEF ConfigOK
  <1> QED BY <1>1, <1>2, <1>3, <1>4 DEF ConfigOK, k2

\* What NewAccount makes.
LEMMA NewAccountOK ==
    ASSUME NEW k, NEW ks \in Keystores, NEW coin, NEW hidden \in BOOLEAN
    PROVE  NewAccount(k, ks, coin, hidden) \in Account /\ Unseen(NewAccount(k, ks, coin, hidden))
  <1> DEFINE a == NewAccount(k, ks, coin, hidden)
  <1>1. NewWatch(k, ks.root, hidden) \in Watches /\ (hidden => NewWatch(k, ks.root, hidden) # "true")
    BY DEF NewWatch, Watches
  <1>2. SupportedScripts(ks, coin) \in SUBSET {"wpkh", "tr", "eth"}
    BY DEF SupportedScripts
  <1>3. a.hidden = hidden /\ a.used = FALSE /\ a.watch = NewWatch(k, ks.root, hidden)
    BY DEF NewAccount
  <1>4. Unseen(a)
    BY <1>1, <1>3 DEF Unseen
  <1>5. a \in Account
    BY <1>1, <1>2 DEF NewAccount, Account
  <1> QED BY <1>4, <1>5

\* createAndPersistAccountConfig adds at most this account, and changes no other.
Added(k, p, c) ==
    /\ ConfigOK(p) /\ p.watchonly = k.watchonly
    /\ DOMAIN k.accounts \subseteq DOMAIN p.accounts
    /\ DOMAIN p.accounts \subseteq DOMAIN k.accounts \union {c}
    /\ \A d \in DOMAIN k.accounts : p.accounts[d] = k.accounts[d]

LEMMA PersistOK ==
    ASSUME NEW k, ConfigOK(k), NEW ks \in Keystores, NEW coin \in {"btc", "eth"}, NEW hidden \in BOOLEAN,
           NEW n \in 0..MaxNumber, Follows(k, [root |-> ks.root, coin |-> coin, n |-> n])
    PROVE  Added(k, Persist(k, ks, coin, n, hidden), [root |-> ks.root, coin |-> coin, n |-> n])
  <1> DEFINE c == [root |-> ks.root, coin |-> coin, n |-> n]
             p == Persist(k, ks, coin, n, hidden)
             a == NewAccount(k, ks, coin, hidden)
             f == [d \in DOMAIN k.accounts \union {c} |-> IF d = c THEN a ELSE k.accounts[d]]
  <1>1. CASE SupportedScripts(ks, coin) = {} \/ c \in DOMAIN k.accounts
    <2>1. p = k
      BY <1>1 DEF Persist
    <2> QED BY <2>1 DEF Added
  <1>2. CASE ~(SupportedScripts(ks, coin) = {} \/ c \in DOMAIN k.accounts)
    <2>1. coin \in ks.coins
      BY <1>2 DEF SupportedScripts
    <2>2. c \in Codes
      BY <2>1, AccountsAssumption DEF Codes, Roots
    <2>3. k = [accounts |-> k.accounts, watchonly |-> k.watchonly] /\ k.accounts \in [DOMAIN k.accounts -> Account]
      BY DEF ConfigOK
    <2>4. p = [k EXCEPT !.accounts = f]
      BY <1>2 DEF Persist
    <2>5. a \in Account /\ Unseen(a)
      BY NewAccountOK
    <2>12. Follows(k, c)
      OBVIOUS
    <2> HIDE DEF p, f, a, c
    <2>6. p = [accounts |-> f, watchonly |-> k.watchonly]
      BY <2>3, <2>4
    <2>7. p.accounts = f /\ p.watchonly = k.watchonly
      BY <2>6
    <2>8. DOMAIN f = DOMAIN k.accounts \union {c} /\ f[c] = a /\ \A d \in DOMAIN k.accounts : f[d] = k.accounts[d]
      BY <1>2 DEF f
    <2>9. f \in [DOMAIN f -> Account]
      BY <2>3, <2>5, <2>8 DEF f
    <2>10. ASSUME NEW d \in DOMAIN f PROVE Unseen(f[d]) /\ Follows(p, d)
      <3>1. Follows(k, d)
        BY <2>8, <2>12 DEF ConfigOK
      <3>2. Follows(p, d)
        BY <2>7, <2>8, <3>1 DEF Follows
      <3>3. Unseen(f[d])
        BY <2>5, <2>8 DEF ConfigOK
      <3> QED BY <3>2, <3>3
    <2>11. ConfigOK(p)
      BY <2>2, <2>6, <2>7, <2>8, <2>9, <2>10 DEF ConfigOK
    <2> QED BY <2>7, <2>8, <2>11 DEF p, c, Added
  <1> QED BY <1>1, <1>2

\* The number of the last account, and that account.
LEMMA HighestFacts ==
    ASSUME NEW k, ConfigOK(k), NEW root, NEW coin
    PROVE  LET h == HighestNumber(k, root, coin)
           IN  h \in -1..MaxNumber /\ (h # -1 => [root |-> root, coin |-> coin, n |-> h] \in DOMAIN k.accounts)
  <1> DEFINE N == {c.n : c \in Owned(k, root, coin)}
             h == HighestNumber(k, root, coin)
  <1>1. \A c \in Owned(k, root, coin) : /\ c \in DOMAIN k.accounts /\ c.n \in 0..MaxNumber
                                        /\ c = [root |-> root, coin |-> coin, n |-> c.n]
    BY CodeFacts DEF Owned, ConfigOK
  <1>2. N \subseteq 0..MaxNumber /\ N \subseteq Nat
    BY <1>1, AccountsAssumption
  <1>3. IsFiniteSet(N)
    <2>1. IsFiniteSet(0..MaxNumber)
      <3>1. 0 \in Int /\ MaxNumber \in Int
        BY AccountsAssumption
      <3> QED BY <3>1, FS_Interval
    <2> QED BY <1>2, <2>1, FS_Subset
  <1>4. h = CHOOSE x \in N \union {-1} : \A y \in N \union {-1} : x >= y
    BY DEF HighestNumber, Max
  <1> HIDE DEF N, h
  <1>5. \E x \in N \union {-1} : \A y \in N \union {-1} : x >= y
    <2>1. CASE N = {}
      BY <2>1
    <2>2. CASE N # {}
      <3>1. PICK x \in N : \A y \in N : y <= x
        BY <1>2, <1>3, <2>2, GreatestNat
      <3>2. x \in N \union {-1} /\ \A y \in N \union {-1} : x >= y
        BY <1>2, <3>1
      <3> QED BY <3>2
    <2> QED BY <2>1, <2>2
  <1>6. h \in N \union {-1}
    BY <1>4, <1>5
  <1>7. h # -1 => \E c \in Owned(k, root, coin) : h = c.n
    BY <1>6 DEF N
  <1>8. h \in -1..MaxNumber
    BY <1>2, <1>6, AccountsAssumption
  <1>9. h # -1 => [root |-> root, coin |-> coin, n |-> h] \in DOMAIN k.accounts
    BY <1>1, <1>7
  <1> QED BY <1>8, <1>9 DEF h

\* The first account that is added, and one behind the last, follow what is there.
LEMMA FirstFollows ==
    ASSUME NEW k, NEW root, NEW coin PROVE Follows(k, [root |-> root, coin |-> coin, n |-> 0])
  BY DEF Follows

\* Discovery and the user add behind the last account, beyond the limit only if it is used.
LEMMA NextFollows ==
    ASSUME NEW k, ConfigOK(k), NEW root, NEW coin, NEW h, h = HighestNumber(k, root, coin),
           h + 1 > HardLimit => k.accounts[[root |-> root, coin |-> coin, n |-> h]].used
    PROVE  Follows(k, [root |-> root, coin |-> coin, n |-> h + 1])
  <1> DEFINE c == [root |-> root, coin |-> coin, n |-> h + 1]
             p == [root |-> root, coin |-> coin, n |-> h]
  <1>1. h \in -1..MaxNumber /\ (h # -1 => p \in DOMAIN k.accounts)
    BY HighestFacts
  <1>2. h \in Int
    BY <1>1, AccountsAssumption
  <1>3. c.n = h + 1 /\ [c EXCEPT !.n = @ - 1] = p
    BY <1>2
  <1> HIDE DEF c, p
  <1>4. h + 1 > 0 => h # -1
    BY <1>2
  <1>5. h + 1 > HardLimit => k.accounts[p].used
    BY DEF p
  <1>6. Follows(k, c)
    BY <1>1, <1>3, <1>4, <1>5 DEF Follows
  <1> QED BY <1>6 DEF c

\* An account as Shown.
LEMMA ShownOK ==
    ASSUME NEW k, NEW root, NEW a \in Account
    PROVE  /\ Shown(k, root, a) \in Account /\ ~Shown(k, root, a).hidden
           /\ Shown(k, root, a).used = a.used
           /\ a.watch = "true" => Shown(k, root, a).watch = "true"
  BY DEF Shown, Account, Watches

\* GetOrAddKeystore changes no account.
LEMMA GetOrAddOK ==
    ASSUME NEW k, ConfigOK(k), NEW root
    PROVE  /\ ConfigOK(GetOrAddKeystore(k, root)) /\ GetOrAddKeystore(k, root).accounts = k.accounts
  <1> DEFINE w == [r \in DOMAIN k.watchonly \union {root} |-> r \in DOMAIN k.watchonly /\ k.watchonly[r]]
  <1>1. k = [accounts |-> k.accounts, watchonly |-> k.watchonly] /\ k.accounts \in [DOMAIN k.accounts -> Account]
        /\ k.watchonly \in [DOMAIN k.watchonly -> BOOLEAN]
    BY DEF ConfigOK
  <1>2. GetOrAddKeystore(k, root) = [k EXCEPT !.watchonly = w]
    BY DEF GetOrAddKeystore
  <1>3. w \in [DOMAIN w -> BOOLEAN]
    BY <1>1
  <1> HIDE DEF w
  <1>4. GetOrAddKeystore(k, root) = [accounts |-> k.accounts, watchonly |-> w]
    BY <1>1, <1>2
  <1>5. ConfigOK([accounts |-> k.accounts, watchonly |-> w])
    BY <1>1, <1>3, UpdateOK DEF ConfigOK
  <1> QED BY <1>4, <1>5

\* A config with some accounts replaced.
LEMMA ChangeOK ==
    ASSUME NEW k, ConfigOK(k), NEW f \in [DOMAIN k.accounts -> Account],
           \A c \in DOMAIN k.accounts : Unseen(f[c]) /\ (k.accounts[c].used => f[c].used),
           NEW k2, k2 = [k EXCEPT !.accounts = f]
    PROVE  ConfigOK(k2) /\ k2.accounts = f /\ k2.watchonly = k.watchonly
  <1>1. k = [accounts |-> k.accounts, watchonly |-> k.watchonly] /\ k.watchonly \in [DOMAIN k.watchonly -> BOOLEAN]
    BY DEF ConfigOK
  <1>2. k2 = [accounts |-> f, watchonly |-> k.watchonly]
    BY <1>1
  <1>3. ConfigOK([accounts |-> f, watchonly |-> k.watchonly])
    BY <1>1, UpdateOK
  <1> QED BY <1>2, <1>3

\* The same for one account.
Changed(k, c, a) == [k EXCEPT !.accounts[c] = a]
OneChanged(k, k2, c, a) ==
    /\ ConfigOK(k2) /\ DOMAIN k2.accounts = DOMAIN k.accounts /\ k2.watchonly = k.watchonly
    /\ c \in DOMAIN k.accounts => k2.accounts[c] = a
    /\ \A d \in DOMAIN k.accounts : d # c => k2.accounts[d] = k.accounts[d]

LEMMA ChangeOneOK ==
    ASSUME NEW k, ConfigOK(k), NEW c, NEW a,
           c \in DOMAIN k.accounts => a \in Account /\ Unseen(a) /\ (k.accounts[c].used => a.used)
    PROVE  OneChanged(k, Changed(k, c, a), c, a)
  <1> DEFINE k2 == Changed(k, c, a)
  <1> DEFINE f == [k.accounts EXCEPT ![c] = a]
  <1>1. k.accounts \in [DOMAIN k.accounts -> Account] /\ \A d \in DOMAIN k.accounts : Unseen(k.accounts[d])
    BY DEF ConfigOK
  <1>2. /\ f \in [DOMAIN k.accounts -> Account]
        /\ c \in DOMAIN k.accounts => f[c] = a
        /\ \A d \in DOMAIN k.accounts : d # c => f[d] = k.accounts[d]
    BY <1>1
  <1>3. k2 = [k EXCEPT !.accounts = f]
    BY DEF Changed
  <1> HIDE DEF f, k2
  <1>4. \A d \in DOMAIN k.accounts : Unseen(f[d]) /\ (k.accounts[d].used => f[d].used)
    BY <1>1, <1>2
  <1>5. ConfigOK(k2) /\ k2.accounts = f /\ k2.watchonly = k.watchonly
    BY <1>2, <1>3, <1>4, ChangeOK
  <1> QED BY <1>2, <1>5 DEF OneChanged, k2

-----------------------------------------------------------------------------
\* initAccounts loads accounts of the config only, each with a reason.
LEMMA InitAccountsOK ==
    ASSUME NEW k, NEW ks, NEW force, NEW flags, DOMAIN loaded \subseteq DOMAIN k.accounts,
           initAccounts(k, ks, force, flags)
    PROVE  /\ DOMAIN loaded' \subseteq DOMAIN k.accounts
           /\ \A c \in DOMAIN loaded' : Belongs(c.root, ks) \/ IsAccountWatchonly(k, c)
  <1> DEFINE keep == Kept(k, ks, force)
             S == Loadable(k, ks)
  <1>1. DOMAIN loaded' = keep \union (S \ keep)
    BY DEF initAccounts, Load
  <1>2. keep \subseteq DOMAIN loaded /\ \A c \in keep : Belongs(c.root, ks) \/ IsAccountWatchonly(k, c)
    BY DEF Kept
  <1>3. S \subseteq DOMAIN k.accounts /\ \A c \in S : Belongs(c.root, ks) \/ IsAccountWatchonly(k, c)
    BY DEF Loadable
  <1> HIDE DEF keep, S
  <1> QED BY <1>1, <1>2, <1>3

\* The configs that registerKeystore makes.
LEMMA DefaultOK ==
    ASSUME NEW k, ConfigOK(k), NEW ks \in Keystores, NEW coins
    PROVE  /\ ConfigOK(DefaultAccounts(k, ks, coins))
           /\ DOMAIN k.accounts \subseteq DOMAIN DefaultAccounts(k, ks, coins).accounts
  <1> DEFINE P(x, coin) == Persist(x, ks, coin, 0, FALSE)
             btc == IF "btc" \in coins THEN P(k, "btc") ELSE k
  <1>1. ASSUME NEW x, ConfigOK(x), NEW coin \in {"btc", "eth"}
        PROVE  ConfigOK(P(x, coin)) /\ DOMAIN x.accounts \subseteq DOMAIN P(x, coin).accounts
    <2>1. FALSE \in BOOLEAN /\ 0 \in 0..MaxNumber
      BY AccountsAssumption
    <2>2. Follows(x, [root |-> ks.root, coin |-> coin, n |-> 0])
      BY FirstFollows
    <2> QED BY <1>1, <2>1, <2>2, PersistOK DEF Added
  <1>2. DefaultAccounts(k, ks, coins) = IF "eth" \in coins THEN P(btc, "eth") ELSE btc
    BY DEF DefaultAccounts
  <1> HIDE DEF P
  <1>3. ConfigOK(btc) /\ DOMAIN k.accounts \subseteq DOMAIN btc.accounts
    BY <1>1
  <1> HIDE DEF btc
  <1>4. ConfigOK(P(btc, "eth")) /\ DOMAIN btc.accounts \subseteq DOMAIN P(btc, "eth").accounts
    BY <1>1, <1>3
  <1> QED BY <1>2, <1>3, <1>4

\* maybeAddP2TR only adds a script type.
LEMMA AddP2TROK ==
    ASSUME NEW k, ConfigOK(k), NEW ks
    PROVE  ConfigOK(AddP2TR(k, ks)) /\ DOMAIN AddP2TR(k, ks).accounts = DOMAIN k.accounts
  <1> DEFINE G(a) == IF "wpkh" \in a.scripts /\ ks.taproot /\ "btc" \in ks.coins
                     THEN [a EXCEPT !.scripts = @ \cup {"tr"}] ELSE a
             S == OfRoot(k, ks.root)
             f == [c \in DOMAIN k.accounts |-> IF c \in S THEN G(k.accounts[c]) ELSE k.accounts[c]]
  <1>1. AddP2TR(k, ks) = [k EXCEPT !.accounts = f]
    BY DEF AddP2TR, SetIn
  <1>2. \A a \in Account : G(a) \in Account /\ G(a).hidden = a.hidden /\ G(a).used = a.used /\ G(a).watch = a.watch
    BY DEF Account
  <1> HIDE DEF G, S
  <1>3. k.accounts \in [DOMAIN k.accounts -> Account] /\ \A c \in DOMAIN k.accounts : Unseen(k.accounts[c])
    BY DEF ConfigOK
  <1>4. f \in [DOMAIN k.accounts -> Account]
    BY <1>2, <1>3
  <1>5. \A c \in DOMAIN k.accounts : Unseen(f[c]) /\ (k.accounts[c].used => f[c].used)
    BY <1>2, <1>3 DEF Unseen
  <1> HIDE DEF f
  <1>6. ConfigOK(AddP2TR(k, ks)) /\ AddP2TR(k, ks).accounts = f
    BY <1>1, <1>4, <1>5, ChangeOK
  <1> QED BY <1>4, <1>6

\* A keystore is registered, with its accounts or without them.
LEMMA RegisterInv ==
    ASSUME AccountsInv, NEW ks \in Keystores, registerKeystore(ks) PROVE AccountsInv'
  <1> DEFINE known == GetOrAddKeystore(cfg, ks.root)
             isNew == OfRoot(known, ks.root) = {}
             full == IF isNew THEN DefaultAccounts(known, ks, Coins) ELSE AddP2TR(known, ks)
  <1>1. ConfigOK(known) /\ known.accounts = cfg.accounts
    BY GetOrAddOK DEF AccountsInv
  <1>2. keystore' = ks /\ initAccounts(cfg', ks, FALSE, tokens)
        /\ \/ cfg' = full /\ disk' = full
           \/ cfg' \in {known, DefaultAccounts(known, ks, {"btc"})} /\ disk' = disk
    BY DEF registerKeystore, ModifyAccountsConfig
  <1>3. ConfigOK(full) /\ DOMAIN cfg.accounts \subseteq DOMAIN full.accounts
    <2> HIDE DEF known, isNew
    <2> QED BY <1>1, DefaultOK, AddP2TROK
  <1>4. ConfigOK(DefaultAccounts(known, ks, {"btc"}))
        /\ DOMAIN cfg.accounts \subseteq DOMAIN DefaultAccounts(known, ks, {"btc"}).accounts
    <2> HIDE DEF known
    <2> QED BY <1>1, DefaultOK
  <1> DEFINE some == DefaultAccounts(known, ks, {"btc"})
  <1> HIDE DEF full, known, some
  <1>5. ConfigOK(cfg') /\ ConfigOK(disk') /\ DOMAIN cfg.accounts \subseteq DOMAIN cfg'.accounts
    BY <1>1, <1>2, <1>3, <1>4 DEF AccountsInv, some
  <1>6. /\ DOMAIN loaded' \subseteq DOMAIN cfg'.accounts
        /\ \A c \in DOMAIN loaded' : Belongs(c.root, ks) \/ IsAccountWatchonly(cfg', c)
    <2>1. DOMAIN loaded \subseteq DOMAIN cfg'.accounts
      BY <1>5 DEF AccountsInv
    <2> QED BY <1>2, <2>1, InitAccountsOK
  <1>7. LoadedIsJustified'
    BY <1>2, <1>6 DEF LoadedIsJustified, Belongs, IsAccountWatchonly, IsKeystoreWatchonly
  <1>8. ConfigOK(cfg)' /\ ConfigOK(disk)'
    BY <1>5 DEF ConfigOK, Unseen, Follows
  <1> QED BY <1>2, <1>6, <1>7, <1>8 DEF AccountsInv

\* A step that loads the accounts of the config anew.
LEMMA ReloadInv ==
    ASSUME AccountsInv, UNCHANGED <<cfg, disk>>, keystore' \in Keystores \union {NoKeystore},
           NEW force, NEW flags, initAccounts(cfg, keystore', force, flags)
    PROVE  AccountsInv'
  <1>1. /\ DOMAIN loaded' \subseteq DOMAIN cfg.accounts
        /\ \A c \in DOMAIN loaded' : Belongs(c.root, keystore') \/ IsAccountWatchonly(cfg, c)
    BY InitAccountsOK DEF AccountsInv
  <1>2. LoadedIsJustified'
    BY <1>1 DEF LoadedIsJustified, Belongs, IsAccountWatchonly, IsKeystoreWatchonly
  <1>3. ConfigOK(cfg)' /\ ConfigOK(disk)'
    BY DEF AccountsInv, ConfigOK, Unseen, Follows
  <1> QED BY <1>1, <1>2, <1>3 DEF AccountsInv

\* A step that saves a config with the accounts of the old one, and is followed by another.
LEMMA SavedInv ==
    ASSUME AccountsInv, NEW k, ConfigOK(k), DOMAIN cfg.accounts \subseteq DOMAIN k.accounts,
           ModifyAccountsConfig(k), UNCHANGED <<keystore, loaded>>, op' # Idle
    PROVE  AccountsInv'
  <1>1. ConfigOK(cfg)' /\ ConfigOK(disk)'
    BY DEF ModifyAccountsConfig, ConfigOK, Unseen, Follows
  <1>2. DOMAIN loaded' \subseteq DOMAIN cfg'.accounts
    BY DEF AccountsInv, ModifyAccountsConfig
  <1>3. LoadedIsJustified'
    BY DEF LoadedIsJustified, Idle
  <1> QED BY <1>1, <1>2, <1>3 DEF AccountsInv

\* The discovery adds an account of the connected keystore behind the last one.
LEMMA DiscoveryInv == ASSUME AccountsInv, maybeAddHiddenUnusedAccounts PROVE AccountsInv'
  <1> DEFINE ks == keystore
             h == HighestNumber(cfg, ks.root, "btc")
             k == Persist(cfg, ks, "btc", h + 1, TRUE)
             c == [root |-> ks.root, coin |-> "btc", n |-> h + 1]
             added == DOMAIN k.accounts \ DOMAIN cfg.accounts
  <1>1. CASE ~(keystore # NoKeystore /\ NeedsHidden(cfg, keystore) /\ h < MaxNumber)
    <2>1. UNCHANGED <<cfg, disk, keystore, loaded, op>>
      BY <1>1 DEF maybeAddHiddenUnusedAccounts, loadVars
    <2> QED BY <2>1 DEF AccountsInv, ConfigOK, Unseen, Follows, LoadedIsJustified, Belongs,
                        IsAccountWatchonly, IsKeystoreWatchonly
  <1>2. CASE keystore # NoKeystore /\ NeedsHidden(cfg, keystore) /\ h < MaxNumber
    <2>1. cfg' = k /\ disk' = k /\ UNCHANGED <<keystore, op>>
      BY <1>2 DEF maybeAddHiddenUnusedAccounts, ModifyAccountsConfig
    <2>2. DOMAIN loaded' = DOMAIN loaded \union added
      <3>1. Load(k, DOMAIN loaded \union added, DOMAIN loaded, DOMAIN tokens, tokens, checks)
        BY <1>2 DEF maybeAddHiddenUnusedAccounts
      <3> HIDE DEF k, added
      <3> QED BY <3>1 DEF Load
    <2>3. ks \in Keystores /\ ConfigOK(cfg)
      BY <1>2 DEF AccountsInv
    <2>4. h \in -1..MaxNumber /\ h + 1 \in 0..MaxNumber
      <3>1. h \in -1..MaxNumber
        BY <2>3, HighestFacts
      <3> HIDE DEF h
      <3> QED BY <1>2, <3>1, AccountsAssumption
    <2>5. h + 1 > HardLimit => cfg.accounts[[root |-> ks.root, coin |-> "btc", n |-> h]].used
      <3>1. h < HardLimit \/ cfg.accounts[[root |-> ks.root, coin |-> "btc", n |-> h]].used
        BY <1>2 DEF NeedsHidden
      <3> HIDE DEF h
      <3>2. h + 1 > HardLimit => ~(h < HardLimit)
        BY <2>4, AccountsAssumption
      <3> QED BY <3>1, <3>2
    <2>6. Follows(cfg, c)
      BY <2>3, <2>5, NextFollows
    <2>7. /\ ConfigOK(k) /\ k.watchonly = cfg.watchonly
          /\ DOMAIN cfg.accounts \subseteq DOMAIN k.accounts
          /\ DOMAIN k.accounts \subseteq DOMAIN cfg.accounts \union {c}
          /\ \A d \in DOMAIN cfg.accounts : k.accounts[d] = cfg.accounts[d]
      <3>1. TRUE \in BOOLEAN /\ "btc" \in {"btc", "eth"}
        OBVIOUS
      <3> HIDE DEF h, ks
      <3> QED BY <2>3, <2>4, <2>6, <3>1, PersistOK DEF c, Added
    <2>8. c.root = ks.root
      OBVIOUS
    <2> HIDE DEF k, c, h, ks
    <2>9. ConfigOK(cfg)' /\ ConfigOK(disk)'
      BY <2>1, <2>7 DEF ConfigOK, Unseen, Follows
    <2>10. DOMAIN loaded' \subseteq DOMAIN cfg'.accounts
      BY <2>1, <2>2, <2>7 DEF AccountsInv
    <2>11. ASSUME op = Idle, NEW d \in DOMAIN loaded'
           PROVE  Belongs(d.root, keystore) \/ IsAccountWatchonly(k, d)
      <3>1. CASE d \in DOMAIN loaded
        <4>1. Belongs(d.root, keystore) \/ IsAccountWatchonly(cfg, d)
          BY <2>11, <3>1 DEF AccountsInv, LoadedIsJustified
        <4>2. d \in DOMAIN cfg.accounts
          BY <3>1 DEF AccountsInv
        <4> QED BY <2>7, <4>1, <4>2 DEF IsAccountWatchonly, IsKeystoreWatchonly
      <3>2. CASE d \notin DOMAIN loaded
        <4>1. d = c
          BY <2>2, <2>7, <2>11, <3>2
        <4> QED BY <1>2, <2>8, <4>1 DEF Belongs, ks
      <3> QED BY <3>1, <3>2
    <2>12. LoadedIsJustified'
      BY <2>1, <2>11 DEF LoadedIsJustified, Belongs, IsAccountWatchonly, IsKeystoreWatchonly
    <2> QED BY <2>1, <2>9, <2>10, <2>12 DEF AccountsInv
  <1> QED BY <1>1, <1>2

\* An account that is found to be used is shown, and stays watched if it was.
LEMMA CheckInv == ASSUME AccountsInv, NEW x, checkAccountUsed(x) PROVE AccountsInv'
  <1>0. UNCHANGED <<keystore, loaded, op>>
    BY DEF checkAccountUsed
  <1>1. CASE UNCHANGED <<cfg, disk>>
    BY <1>0, <1>1 DEF AccountsInv, ConfigOK, Unseen, Follows, LoadedIsJustified, Belongs,
                      IsAccountWatchonly, IsKeystoreWatchonly
  <1>2. CASE ModifyAccountsConfig(MarkUsed(cfg, x))
    <2> DEFINE k == MarkUsed(cfg, x)
               s == Shown(cfg, x.root, cfg.accounts[x])
               a == [s EXCEPT !.used = TRUE]
    <2>1. k = Changed(cfg, x, a)
      BY DEF MarkUsed, Changed
    <2>2. ConfigOK(cfg) /\ cfg.accounts \in [DOMAIN cfg.accounts -> Account]
      BY DEF AccountsInv, ConfigOK
    <2>3. ASSUME x \in DOMAIN cfg.accounts
          PROVE  /\ a \in Account /\ ~a.hidden /\ a.used
                 /\ cfg.accounts[x].watch = "true" => a.watch = "true"
      <3>1. /\ s \in Account /\ ~s.hidden
            /\ cfg.accounts[x].watch = "true" => s.watch = "true"
        BY <2>2, <2>3, ShownOK
      <3> HIDE DEF s
      <3> QED BY <3>1 DEF Account
    <2> HIDE DEF k, a, s
    <2>4. x \in DOMAIN cfg.accounts => a \in Account /\ Unseen(a) /\ (cfg.accounts[x].used => a.used)
      BY <2>3 DEF Unseen
    <2>5. /\ ConfigOK(k) /\ DOMAIN k.accounts = DOMAIN cfg.accounts /\ k.watchonly = cfg.watchonly
          /\ x \in DOMAIN cfg.accounts => k.accounts[x] = a
          /\ \A d \in DOMAIN cfg.accounts : d # x => k.accounts[d] = cfg.accounts[d]
      BY <2>1, <2>2, <2>4, ChangeOneOK DEF OneChanged
    <2>6. cfg' = k /\ disk' = k
      BY <1>2 DEF ModifyAccountsConfig, k
    <2>7. \A d \in DOMAIN cfg.accounts : IsAccountWatchonly(cfg, d) => IsAccountWatchonly(k, d)
      BY <2>3, <2>5 DEF IsAccountWatchonly, IsKeystoreWatchonly
    <2>8. op = Idle => \A d \in DOMAIN loaded : Belongs(d.root, keystore) \/ IsAccountWatchonly(k, d)
      BY <2>7 DEF AccountsInv, LoadedIsJustified
    <2>9. LoadedIsJustified'
      BY <1>0, <2>6, <2>8 DEF LoadedIsJustified, Belongs, IsAccountWatchonly, IsKeystoreWatchonly
    <2>10. ConfigOK(cfg)' /\ ConfigOK(disk)'
      BY <2>5, <2>6 DEF ConfigOK, Unseen, Follows
    <2> QED BY <1>0, <2>5, <2>6, <2>9, <2>10 DEF AccountsInv
  <1> QED BY <1>1, <1>2 DEF checkAccountUsed

\* The user's operations change accounts as their kind allows, and another step follows.
LEMMA CreateInv ==
    ASSUME AccountsInv, NEW coin \in Coins, CreateAndPersistAccountConfig(coin) PROVE AccountsInv'
  <1> DEFINE hidden == findHiddenAccount(cfg, keystore, coin)
             h == HighestNumber(cfg, keystore.root, coin)
             k == Persist(cfg, keystore, coin, h + 1, FALSE)
             c == CHOOSE c \in hidden : \A d \in hidden : c.n <= d.n
             a == Shown(cfg, c.root, cfg.accounts[c])
             shown == [cfg EXCEPT !.accounts[c] = a]
  <1>1. /\ UNCHANGED <<keystore, loaded>> /\ op' = [kind |-> "reinitialize"] /\ keystore # NoKeystore
        /\ \/ ModifyAccountsConfig(shown)
           \/ MayAdd(cfg, keystore, coin) /\ ModifyAccountsConfig(k)
    BY DEF CreateAndPersistAccountConfig, loadVars
  <1>2. op' # Idle
    BY <1>1 DEF Idle
  <1>3. ConfigOK(cfg) /\ keystore \in Keystores
    BY <1>1 DEF AccountsInv
  <1>4. CASE ModifyAccountsConfig(shown)
    <2>1. c \in DOMAIN cfg.accounts => a \in Account /\ Unseen(a) /\ (cfg.accounts[c].used => a.used)
      <3> HIDE DEF c
      <3> QED BY <1>3, ShownOK DEF ConfigOK, Unseen
    <2> HIDE DEF c, a
    <2>3. shown = Changed(cfg, c, a)
      BY DEF Changed
    <2> HIDE DEF shown
    <2>2. ConfigOK(shown) /\ DOMAIN shown.accounts = DOMAIN cfg.accounts
      BY <1>3, <2>1, <2>3, ChangeOneOK DEF OneChanged
    <2> QED BY <1>1, <1>2, <1>4, <2>2, SavedInv
  <1>5. CASE MayAdd(cfg, keystore, coin) /\ ModifyAccountsConfig(k)
    <2>1. h + 1 < HardLimit /\ h + 1 <= MaxNumber
      BY <1>5 DEF MayAdd
    <2>2. h \in -1..MaxNumber
      BY <1>3, HighestFacts
    <2> HIDE DEF h
    <2>3. h + 1 \in 0..MaxNumber /\ ~(h + 1 > HardLimit)
      BY <2>1, <2>2, AccountsAssumption
    <2>4. Follows(cfg, [root |-> keystore.root, coin |-> coin, n |-> h + 1])
      BY <1>3, <2>3, NextFollows DEF h
    <2>5. coin \in {"btc", "eth"} /\ FALSE \in BOOLEAN
      BY AccountsAssumption
    <2>6. ConfigOK(k) /\ DOMAIN cfg.accounts \subseteq DOMAIN k.accounts
      BY <1>3, <2>3, <2>4, <2>5, PersistOK DEF Added
    <2> HIDE DEF k
    <2> QED BY <1>1, <1>2, <1>5, <2>6, SavedInv
  <1> QED BY <1>1, <1>4, <1>5

\* SetAccountActive.
LEMMA SetActiveInv ==
    ASSUME AccountsInv, NEW c, NEW active \in BOOLEAN, SetAccountActive(c, active) PROVE AccountsInv'
  <1> DEFINE a == [cfg.accounts[c] EXCEPT !.inactive = ~active]
             k == Changed(cfg, c, a)
  <1>1. UNCHANGED <<keystore, loaded>> /\ op' # Idle /\ ModifyAccountsConfig(k)
    BY DEF SetAccountActive, loadVars, Idle, Changed
  <1>2. ConfigOK(cfg) /\ cfg.accounts \in [DOMAIN cfg.accounts -> Account]
        /\ \A d \in DOMAIN cfg.accounts : Unseen(cfg.accounts[d])
    BY DEF AccountsInv, ConfigOK
  <1>3. c \in DOMAIN cfg.accounts => a \in Account /\ Unseen(a) /\ (cfg.accounts[c].used => a.used)
    BY <1>2 DEF Account, Unseen
  <1> HIDE DEF a
  <1>4. ConfigOK(k) /\ DOMAIN k.accounts = DOMAIN cfg.accounts
    BY <1>2, <1>3, ChangeOneOK DEF OneChanged
  <1> HIDE DEF k
  <1> QED BY <1>1, <1>4, SavedInv

\* SetTokenActive.
LEMMA SetTokenInv ==
    ASSUME AccountsInv, NEW c, NEW t \in Tokens, NEW active \in BOOLEAN, SetTokenActive(c, t, active)
    PROVE  AccountsInv'
  <1> DEFINE T == cfg.accounts[c].tokens
             a == [cfg.accounts[c] EXCEPT !.tokens = IF active THEN T \union {t} ELSE T \ {t}]
             k == Changed(cfg, c, a)
  <1>1. UNCHANGED <<keystore, loaded>> /\ op' # Idle /\ ModifyAccountsConfig(k)
    BY DEF SetTokenActive, loadVars, Idle, Changed
  <1>2. ConfigOK(cfg) /\ cfg.accounts \in [DOMAIN cfg.accounts -> Account]
        /\ \A d \in DOMAIN cfg.accounts : Unseen(cfg.accounts[d])
    BY DEF AccountsInv, ConfigOK
  <1>3. c \in DOMAIN cfg.accounts => a \in Account /\ Unseen(a) /\ (cfg.accounts[c].used => a.used)
    BY <1>2 DEF Account, Unseen
  <1> HIDE DEF a
  <1>4. ConfigOK(k) /\ DOMAIN k.accounts = DOMAIN cfg.accounts
    BY <1>2, <1>3, ChangeOneOK DEF OneChanged
  <1> HIDE DEF k
  <1> QED BY <1>1, <1>4, SavedInv

\* AccountSetWatch watches no account that is hidden.
LEMMA SetWatchInv ==
    ASSUME AccountsInv, NEW F, NEW w \in Watches, SetWatch(F, w), UNCHANGED <<keystore, loaded>>,
           w = "true" => \A c \in F \intersect DOMAIN cfg.accounts : ~cfg.accounts[c].hidden
    PROVE  AccountsInv'
  <1> DEFINE G(a) == [a EXCEPT !.watch = w]
             f == [c \in DOMAIN cfg.accounts |-> IF c \in F THEN G(cfg.accounts[c]) ELSE cfg.accounts[c]]
             k == [cfg EXCEPT !.accounts = f]
  <1>1. ModifyAccountsConfig(k) /\ op' # Idle
    BY DEF SetWatch, SetIn, Idle
  <1>2. ConfigOK(cfg) /\ cfg.accounts \in [DOMAIN cfg.accounts -> Account]
        /\ \A d \in DOMAIN cfg.accounts : Unseen(cfg.accounts[d])
    BY DEF AccountsInv, ConfigOK
  <1>3. \A a \in Account : G(a) \in Account /\ G(a).hidden = a.hidden /\ G(a).used = a.used /\ G(a).watch = w
    BY DEF Account
  <1> HIDE DEF G
  <1>4. f \in [DOMAIN cfg.accounts -> Account]
    BY <1>2, <1>3
  <1>5. \A c \in DOMAIN cfg.accounts : Unseen(f[c]) /\ (cfg.accounts[c].used => f[c].used)
    BY <1>2, <1>3 DEF Unseen
  <1> HIDE DEF f
  <1>6. ConfigOK(k) /\ DOMAIN k.accounts = DOMAIN cfg.accounts
    BY <1>2, <1>4, <1>5, ChangeOK
  <1> HIDE DEF k
  <1> QED BY <1>1, <1>6, SavedInv

\* SetWatchonly changes the flag of a keystore only.
LEMMA SetWatchonlyInv ==
    ASSUME AccountsInv, NEW root, NEW on \in BOOLEAN, SetWatchonly(root, on) PROVE AccountsInv'
  <1> DEFINE w == [cfg.watchonly EXCEPT ![root] = on]
             k == [cfg EXCEPT !.watchonly = w]
  <1>1. UNCHANGED <<keystore, loaded>> /\ op' # Idle /\ ModifyAccountsConfig(k)
    BY DEF SetWatchonly, loadVars, Idle
  <1>2. ConfigOK(cfg) /\ cfg.accounts \in [DOMAIN cfg.accounts -> Account]
        /\ (\A d \in DOMAIN cfg.accounts : Unseen(cfg.accounts[d]))
        /\ cfg = [accounts |-> cfg.accounts, watchonly |-> cfg.watchonly]
        /\ cfg.watchonly \in [DOMAIN cfg.watchonly -> BOOLEAN]
    BY DEF AccountsInv, ConfigOK
  <1>3. w \in [DOMAIN w -> BOOLEAN]
    BY <1>2
  <1> HIDE DEF w
  <1>4. k = [accounts |-> cfg.accounts, watchonly |-> w]
    BY <1>2
  <1>5. ConfigOK([accounts |-> cfg.accounts, watchonly |-> w])
    BY <1>2, <1>3, UpdateOK
  <1>6. ConfigOK(k) /\ k.accounts = cfg.accounts
    BY <1>4, <1>5
  <1> HIDE DEF k
  <1> QED BY <1>1, <1>6, SavedInv

\* After a restart the accounts are those of the file.
LEMMA RestartInv == ASSUME AccountsInv, Restart PROVE AccountsInv'
  <1>1. cfg' = disk /\ disk' = disk /\ keystore' = NoKeystore
    BY DEF Restart
  <1>2. DOMAIN loaded' = Loadable(disk, NoKeystore)
    BY DEF Restart, Load
  <1>3. /\ DOMAIN loaded' \subseteq DOMAIN disk.accounts
        /\ \A c \in DOMAIN loaded' : IsAccountWatchonly(disk, c)
    BY <1>2 DEF Loadable, Belongs
  <1>4. LoadedIsJustified'
    BY <1>1, <1>3 DEF LoadedIsJustified, IsAccountWatchonly, IsKeystoreWatchonly
  <1>5. ConfigOK(cfg)' /\ ConfigOK(disk)'
    BY <1>1 DEF AccountsInv, ConfigOK, Unseen, Follows
  <1> QED BY <1>1, <1>3, <1>4, <1>5 DEF AccountsInv

\* At the start there are no accounts.
LEMMA AccountsInitInv == AccountsInit => AccountsInv
  <1> SUFFICES ASSUME AccountsInit PROVE AccountsInv
    OBVIOUS
  <1>1. DOMAIN EmptyConfig.accounts = {} /\ DOMAIN EmptyConfig.watchonly = {}
    BY DEF EmptyConfig
  <1>2. EmptyConfig = [accounts |-> EmptyConfig.accounts, watchonly |-> EmptyConfig.watchonly]
        /\ EmptyConfig.accounts \in [{} -> Account] /\ EmptyConfig.watchonly \in [{} -> BOOLEAN]
    BY DEF EmptyConfig
  <1>3. ConfigOK(EmptyConfig)
    BY <1>1, <1>2 DEF ConfigOK
  <1>4. DOMAIN loaded = {}
    BY DEF AccountsInit
  <1> QED BY <1>3, <1>4 DEF AccountsInit, AccountsInv, LoadedIsJustified

\* Every step keeps the invariant.
LEMMA AccountsStepInv == AccountsInv /\ [AccountsNext]_accountsVars => AccountsInv'
  <1> SUFFICES ASSUME AccountsInv, [AccountsNext]_accountsVars PROVE AccountsInv'
    OBVIOUS
  <1>1. CASE UNCHANGED accountsVars
    BY <1>1 DEF accountsVars, loadVars, AccountsInv, ConfigOK, Unseen, Follows, LoadedIsJustified, Belongs,
                IsAccountWatchonly, IsKeystoreWatchonly
  <1>2. ASSUME NEW ks \in Keystores, registerKeystore(ks) PROVE AccountsInv'
    BY <1>2, RegisterInv
  <1>3. CASE DeregisterKeystore
    BY <1>3, ReloadInv DEF DeregisterKeystore
  <1>4. CASE Goroutine
    BY <1>4, DiscoveryInv, CheckInv DEF Goroutine
  <1>5. CASE User
    <2>1. ASSUME NEW c \in Visible, NEW w \in {"true", "false"}, AccountSetWatch(c, w) PROVE AccountsInv'
      BY <2>1, SetWatchInv DEF AccountSetWatch, Visible, Watches, loadVars
    <2> QED BY <1>5, <2>1, CreateInv, SetActiveInv, SetTokenInv, SetWatchonlyInv DEF User
  <1>6. CASE ReinitializeAccounts
    BY <1>6, ReloadInv DEF ReinitializeAccounts, AccountsInv
  <1>7. CASE WatchLoaded
    BY <1>7, ReloadInv DEF WatchLoaded, AccountsInv
  <1>8. CASE WatchAccounts
    <2>1. CASE op.on
      BY <1>8, <2>1, SetWatchInv DEF WatchAccounts, Filter, Watches, loadVars
    <2>2. CASE ~op.on
      BY <1>8, <2>2, SetWatchInv DEF WatchAccounts, Filter, Watches, loadVars
    <2> QED BY <2>1, <2>2
  <1>9. CASE Restart
    BY <1>9, RestartInv
  <1> QED BY <1>1, <1>2, <1>3, <1>4, <1>5, <1>6, <1>7, <1>8, <1>9 DEF AccountsNext, Rest

\* The invariant of the accounts, for any keystores, coins, tokens, transactions and limits.
THEOREM AccountsInvariance == AccountsSpec => []AccountsInv
<1> QED
  BY AccountsInitInv, AccountsStepInv, PTL DEF AccountsSpec

\* Whatever is plugged in, added, watched, found or killed in whatever order: no account that is
\* only scanned is watched or used, none is loaded without its keystore unless it is watched, and
\* the accounts are numbered without gaps, beyond the limit only behind used ones.
THEOREM AccountsAreRightHolds == AccountsSpec => []AccountsAreRight
<1>1. AccountsInv => AccountsAreRight
  BY DEF AccountsInv, AccountsAreRight, HiddenIsUnseen, ScanIsBounded, ConfigOK
<1> QED
  BY AccountsInvariance, <1>1, PTL
================================================================================
