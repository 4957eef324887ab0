------------------------------ MODULE Timeline ------------------------------
(***************************************************************************)
(* Balances over time: the ordered transactions of an account with their   *)
(* running balance and the time series made from them (backend/accounts/   *)
(* transaction.go), and the chart of the value of all accounts             *)
(* (backend/chart.go) at the historical exchange rates.                    *)
(*                                                                         *)
(* Each account has a coin of its own.  A rate that is known is 1, and the *)
(* rates of a coin are known from a first to a last point in time.  A day  *)
(* has Day units of time; the fine series is made of single units.  The    *)
(* current total, appended as a last point at the latest rates, is left    *)
(* out.                                                                    *)
(***************************************************************************)
EXTENDS Integers, Sequences, SequencesExt, FiniteSets, FiniteSetsExt

CONSTANTS
    ChartAccounts,      \* [accounts -> sets of transactions they may have]
    Known,              \* [accounts -> set of <<first, last>> for which rates may be known]
    HeightTimes,        \* possible times of blocks; 0 if the header is not there yet
    Day, Now            \* length of a day; the current time

ASSUME TimelineAssumption ==
    /\ IsFiniteSet(DOMAIN ChartAccounts) /\ Day \in Nat \ {0} /\ Now \in Nat /\ Day <= Now
    /\ \A a \in DOMAIN ChartAccounts : Known[a] \subseteq Nat \X Nat
    \* the time of a block is not before that of the one below it
    /\ \A h \in HeightTimes : /\ h \in Seq(Nat)
                              /\ \A i, k \in 1..Len(h) : i <= k /\ h[i] # 0 /\ h[k] # 0 => h[i] <= h[k]
    /\ \A a \in DOMAIN ChartAccounts : \A set \in ChartAccounts[a] :
        /\ IsFiniteSet(set)
        /\ \A tx \in set : /\ tx.height \in Int /\ tx.created \in Int /\ tx.failed \in BOOLEAN
                           /\ tx.amount \in Int /\ tx.fee \in Int
                           /\ \A h \in HeightTimes : tx.height <= Len(h)

VARIABLES
    txs,                \* [account -> set of its transactions]
    times,              \* [height -> time of the block]
    known,              \* [account -> <<first, last>>], <<0, 0>> if no rates are known
    ordered,            \* [account -> OrderedTransactions, oldest last], once it was asked
    chart               \* ChartData: status, accounts still to do, and its result so far

timelineVars == <<txs, times, known, ordered, chart>>

Accs == DOMAIN ChartAccounts

TimelineInit ==
    /\ txs \in {f \in [Accs -> UNION {ChartAccounts[a] : a \in Accs}] : \A a \in Accs : f[a] \in ChartAccounts[a]}
    /\ times \in HeightTimes
    /\ known \in {f \in [Accs -> UNION {Known[a] : a \in Accs}] : \A a \in Accs : f[a] \in Known[a]}
    /\ ordered = [a \in Accs |-> <<>>]
    /\ chart = [status |-> "working", todo |-> Accs, missing |-> FALSE,
                daily |-> {}, hourly |-> {}, points |-> {}]

Timestamp(tx) == IF tx.height > 0 THEN times[tx.height] ELSE 0

-----------------------------------------------------------------------------
(* OrderedTransactions *)

isConfirmed(tx) == tx.height > 0

\* byHeight.Less: unconfirmed transactions come last, those of one block in the
\* order they were first seen in.  One that has no such time is not less than another
\* of its block; two unconfirmed ones, one of which has none, are less than each other.
Less(s, t) ==
    IF s.height = t.height /\ s.created # 0 /\ t.created # 0 THEN s.created < t.created
    ELSE IF t.height <= 0 THEN TRUE
    ELSE IF s.height <= 0 THEN FALSE
    ELSE s.height < t.height

\* The transactions in the block of tx, or the unconfirmed ones.
Block(set, tx) == {u \in set : u.height = tx.height \/ (~isConfirmed(u) /\ ~isConfirmed(tx))}

\* sort.Sort is not stable: any order that agrees with Less may result, newest first.
\* Within a block Less is an order only if all were seen at a known time: otherwise what
\* comes out there depends on how the list was before.
Orders(set) ==
    LET seen(tx) == \A u \in Block(set, tx) : u.height = tx.height /\ u.created # 0
    IN  {s \in SetToSeqs(set) :
            \A i, j \in DOMAIN s :
                i < j /\ (s[j] \notin Block(set, s[i]) \/ seen(s[i])) => ~(Less(s[i], s[j]) /\ ~Less(s[j], s[i]))}

\* What a transaction does to the balance.  The fee is paid even if it failed.
Effect(tx) ==
    CASE tx.type = "receive" -> IF tx.failed THEN 0 ELSE tx.amount
      [] tx.type = "send" -> (IF tx.failed THEN 0 ELSE -tx.amount) - tx.fee
      [] OTHER -> -tx.fee

\* The running balance, from the last entry up.
Balances(s) ==
    LET n == Len(s)
        bal[i \in 1..n + 1] == IF i = n + 1 THEN 0 ELSE bal[i + 1] + Effect(s[i])
    IN  [i \in 1..n |-> [tx |-> s[i], balance |-> bal[i]]]

-----------------------------------------------------------------------------
(* Timeseries *)

AtOrBefore(entry, t) == isConfirmed(entry.tx) /\ Timestamp(entry.tx) <= t

\* sort.Search: the first entry for which it holds, if it holds for all after it.
ValueAt(entries, t) ==
    LET found == {i \in DOMAIN entries : AtOrBefore(entries[i], t)} IN
    IF found = {} THEN 0 ELSE entries[Min(found)].balance

\* The start is there even if it is after the end.
Steps(start, end, interval) ==
    {start} \cup {t \in start..end : (t - start) % interval = 0}

Timeseries(entries, start, end, interval) ==
    {[time |-> t, value |-> ValueAt(entries, t)] : t \in Steps(start, end, interval)}

\* ErrNotAvailable: a header is missing.
NotAvailable(entries) ==
    \E i \in DOMAIN entries : isConfirmed(entries[i].tx) /\ Timestamp(entries[i].tx) = 0

\* 0 if there is no transaction with a time.
EarliestTime(entries) ==
    IF entries = <<>> THEN 0 ELSE Timestamp(Last(entries).tx)

-----------------------------------------------------------------------------
(* Rates *)

HistoricalPriceAt(a, t) == IF known[a][1] <= t /\ t <= known[a][2] THEN 1 ELSE 0

HistoryLatestTimestampAll_Latest == Max({known[a][2] : a \in Accs})

\* The earliest of the latest timestamps; 0 if there are none for a coin.
HistoryLatestTimestampAll == Min({known[a][2] : a \in Accs})

-----------------------------------------------------------------------------
(* ChartData *)

Truncate(t) == t - (t % Day)

until == HistoryLatestTimestampAll

\* The fine points begin a day ago.
hourlyFrom == Truncate(Now - Day)

addChartData(a, series, entries) ==
    LET value(t) == IF \E e \in series : e.time = t
                    THEN (CHOOSE e \in series : e.time = t).value * HistoricalPriceAt(a, t) ELSE 0
        old(t) == IF \E e \in entries : e.time = t THEN (CHOOSE e \in entries : e.time = t).value ELSE 0
    IN  {[time |-> t, value |-> old(t) + value(t)] : t \in {e.time : e \in entries \cup series}}

\* There are transactions of the account that have no rate.
PriceMissing(a, entries) ==
    known[a][1] = 0 \/ EarliestTime(entries) < known[a][1]

\* One account.  An account whose transactions have no time is left out.
AddAccount(a) ==
    /\ chart.status = "working" /\ a \in chart.todo
    /\ \E order \in Orders(txs[a]) :
          LET entries == Balances(order)
              start == Truncate(EarliestTime(entries))
              rest == chart.todo \ {a}
          IN  /\ ordered' = [ordered EXCEPT ![a] = entries]
              /\ chart' =
                    IF chart.missing \/ until = 0 \/ NotAvailable(entries)
                    THEN [chart EXCEPT !.todo = rest, !.missing = TRUE]
                    ELSE IF EarliestTime(entries) = 0 THEN [chart EXCEPT !.todo = rest]
                    ELSE IF PriceMissing(a, entries) THEN [chart EXCEPT !.todo = rest, !.missing = TRUE]
                    ELSE [chart EXCEPT !.todo = rest,
                             !.daily = addChartData(a, Timeseries(entries, start, until, Day), @),
                             !.hourly = addChartData(a, Timeseries(entries, hourlyFrom, until, 1), @)]
    /\ UNCHANGED <<txs, times, known>>

\* An account cannot be initialized, or has no balance.
AccountFails ==
    /\ chart.status = "working" /\ chart.todo # {}
    /\ chart' = [chart EXCEPT !.status = "error"]
    /\ UNCHANGED <<txs, times, known, ordered>>

\* toSortedSlice: leading zeroes are cut, but for the last one.
Cut(entries) ==
    LET positive == {e.time : e \in {x \in entries : x.value > 0}} IN
    IF positive = {} THEN {}
    ELSE {e \in entries : e.time >= Min(positive)
                          \/ e.time = Max({0} \cup {x.time : x \in {y \in entries : y.time < Min(positive)}})}

\* Without transactions nothing is missing.
ReturnChart ==
    /\ chart.status = "working" /\ chart.todo = {}
    /\ chart' = [chart EXCEPT !.status = "done",
                              !.missing = @ /\ \E a \in Accs : txs[a] # {},
                              !.points = Cut(chart.daily)]
    /\ UNCHANGED <<txs, times, known, ordered>>

TimelineNext == (\E a \in Accs : AddAccount(a)) \/ AccountFails \/ ReturnChart

TimelineSpec == TimelineInit /\ [][TimelineNext]_timelineVars

-----------------------------------------------------------------------------
(* Properties *)

\* The change of the balance by those of set.
Effects == [tx \in UNION {txs[a] : a \in Accs} |-> Effect(tx)]
Sum(set) == SumFunctionOnSet(Effects, set)

\* Whatever the order within a block and among the unconfirmed, the running
\* balance after the last transaction of a block is that of the chain at that
\* height, and the first entry has the balance with the unconfirmed ones.
BalanceIsSum ==
    \A a \in Accs : \A i \in DOMAIN ordered[a] :
        LET here == ordered[a][i] IN
        (i = 1 \/ (isConfirmed(here.tx) /\ ordered[a][i - 1].tx.height # here.tx.height)) =>
            here.balance = Sum(IF i = 1 THEN txs[a]
                               ELSE {tx \in txs[a] : isConfirmed(tx) /\ tx.height <= here.tx.height})

\* What an account, and what all accounts were worth at t: their confirmed
\* transactions up to then.
ConfirmedBy(a, t) == {tx \in txs[a] : isConfirmed(tx) /\ Timestamp(tx) <= t}
Worth(t) == [a \in Accs |-> Sum(ConfirmedBy(a, t))]
WorthAt(t) == SumFunctionOnSet(Worth(t), Accs)

\* A point of the chart is what all accounts were worth then, at rates that
\* were known (an unknown one would be counted as 0): the daily points up to
\* the time for which all rates are known, and the fine ones of these.
ChartIsTotal ==
    chart.status = "done" /\ ~chart.missing =>
        \A e \in chart.daily \cup chart.hourly : e.time <= until => e.value = WorthAt(e.time)

\* No day on which the accounts were worth something is cut from the chart.
ChartHasAllDays ==
    chart.status = "done" /\ ~chart.missing =>
        \A t \in 1..until : t % Day = 0 /\ WorthAt(t) > 0 =>
            \E e \in chart.points : e.time = t /\ e.value = WorthAt(t)

\* Lists and charts show what the accounts have, and had.
BalancesRight == BalanceIsSum /\ ChartIsTotal /\ ChartHasAllDays

\* Why it holds.  A list has the order of the blocks, so that the balance in an entry is
\* that of the entries from it on.
ListsRight ==
    /\ DOMAIN ordered = Accs
    /\ \A a \in Accs : ordered[a] = <<>> \/ \E s \in Orders(txs[a]) : ordered[a] = Balances(s)

\* The points of a series are the totals of the accounts done so far, at the times of
\* grid, and there is one wherever an account was worth something.
IsTotal(entries, grid, done) ==
    /\ \A e, f \in entries : e.time = f.time => e = f
    /\ \A e \in entries : e.time <= until =>
        e.time \in grid /\ e.value = SumFunctionOnSet(Worth(e.time), done)
    /\ \A t \in grid, a \in done : Worth(t)[a] # 0 => \E e \in entries : e.time = t

DailyTimes == {t \in 0..until : t % Day = 0}
HourlyTimes == hourlyFrom..until

ChartRight ==
    /\ chart.todo \subseteq Accs
    /\ chart.daily \cup chart.hourly # {} => \E a \in Accs : txs[a] # {}
    /\ \A e \in chart.daily \cup chart.hourly : e \in [time : Nat, value : Int]
    /\ chart.status = "working" /\ ~chart.missing =>
        /\ IsTotal(chart.daily, DailyTimes, Accs \ chart.todo)
        /\ IsTotal(chart.hourly, HourlyTimes, Accs \ chart.todo)

TimelineInv ==
    /\ \A a \in Accs : txs[a] \in ChartAccounts[a] /\ known[a] \in Known[a]
    /\ times \in HeightTimes
    /\ DOMAIN chart = {"status", "todo", "missing", "daily", "hourly", "points"}
    /\ ListsRight /\ ChartRight /\ ChartIsTotal /\ ChartHasAllDays
=============================================================================
