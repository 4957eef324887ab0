-------------------------------- MODULE Rates --------------------------------
(***************************************************************************)
(* Exchange rates (backend/rates): the latest ones, asked for periodically *)
(* and shown by the frontend, and the history of one coin/fiat pair, which *)
(* is extended at both ends by two goroutines, and cached in a database.   *)
(* Calling ReconfigureHistory cancels the goroutines and starts new ones;  *)
(* a cancelled one that has its answer already still stores it.            *)
(*                                                                         *)
(* A point in time is a natural number; the server has a rate for each     *)
(* from First up to now.  One unit of time is longer than an iteration of  *)
(* a goroutine, whose call times out after ten seconds.                    *)
(***************************************************************************)
EXTENDS Naturals, FiniteSets, FiniteSetsExt

CONSTANTS
    First,              \* the server has no older rates
    InitialNow, MaxNow, \* the time at the start; bound on it
    Recent,             \* what is fetched when there is nothing yet (90 days)
    MaxRange,           \* maxGeckoRange
    MaxGen,             \* bound on the number of times the goroutines are started
    MaxFaults,          \* bound on failing requests, writes and loads
    Prices, NoPrice     \* values of the latest rates, nil

ASSUME RatesAssumption ==
    /\ First \in Nat \ {0} /\ InitialNow >= First + Recent /\ MaxNow >= InitialNow
    /\ InitialNow \in Nat /\ Recent \in Nat /\ MaxRange \in Nat \ {0} /\ MaxGen \in Nat
    /\ NoPrice \notin Prices

VARIABLES
    now,
    history,            \* timestamps of updater.history[key]
    historyDB,          \* timestamps in the bucket of the pair
    gen,                \* goroutines are those of generations 1..gen
    active,             \* the generation gen is not cancelled (historyGo[key] exists)
    job,                \* [generation -> [kind -> what the goroutine does]]
    missed,            \* timestamps that could not be written, or not be read into an empty history
    last, shown,        \* updater.last; what the frontend was told
    ratesFaults

ratesVars == <<now, history, historyDB, gen, active, job, missed, last, shown, ratesFaults>>

Kinds == {"update", "backfill"}

Sleeping == [pc |-> "sleeping", from |-> 0, to |-> 0, rates |-> {}]
Over == [Sleeping EXCEPT !.pc = "over"]

RatesInit ==
    /\ now = InitialNow
    /\ history = {} /\ historyDB = {}
    /\ gen = 0 /\ active = FALSE
    /\ job = [g \in 1..MaxGen |-> [k \in Kinds |-> Over]]
    /\ missed = {}
    /\ last = NoPrice /\ shown = NoPrice
    /\ ratesFaults = 0

Fault == ratesFaults < MaxFaults /\ ratesFaults' = ratesFaults + 1

Cancelled(g) == ~active \/ g # gen

Set(g, k, j) == job' = [job EXCEPT ![g][k] = j]

-----------------------------------------------------------------------------
(* History *)

\* loadHistoryBucket: if it fails, what is in memory is kept.
Load ==
    \/ history' = historyDB /\ UNCHANGED <<missed, ratesFaults>>
    \/ /\ Fault /\ UNCHANGED history
       /\ missed' = IF history = {} THEN missed \cup historyDB ELSE missed

ReconfigureHistory ==
    \/ /\ gen < MaxGen
       /\ active' = TRUE
       /\ gen' = gen + 1
       /\ Load
       /\ job' = [job EXCEPT ![gen + 1] = [k \in Kinds |-> Sleeping]]
       /\ UNCHANGED <<now, historyDB, last, shown>>
    \/ /\ active
       /\ active' = FALSE
       /\ UNCHANGED <<now, history, historyDB, gen, job, missed, last, shown, ratesFaults>>

HistoryLatestTimestamp == Max(history)
HistoryEarliestTimestamp == Min(history)

\* The end of the range of an update is only known when the request is sent.
NextStart_AfterNow == now
NextStart == HistoryLatestTimestamp + 1

BeginUpdate(g) ==
    /\ job[g]["update"].pc = "sleeping" /\ ~Cancelled(g)
    /\ history # {}
    /\ Set(g, "update", [Sleeping EXCEPT !.pc = "fetch", !.from = NextStart])
    /\ UNCHANGED <<now, history, historyDB, gen, active, missed, last, shown, ratesFaults>>

\* start is too early for the server when the beginning is near.
Back(t, n) == IF t > n THEN t - n ELSE 0

BackfillRange ==
    LET end == IF history = {} THEN now ELSE HistoryEarliestTimestamp - 1 IN
    [Sleeping EXCEPT !.pc = "fetch", !.to = end,
                     !.from = Back(end, IF history = {} THEN Recent ELSE MaxRange)]

BeginBackfill(g) ==
    /\ job[g]["backfill"].pc = "sleeping" /\ ~Cancelled(g)
    /\ Set(g, "backfill", BackfillRange)
    /\ UNCHANGED <<now, history, historyDB, gen, active, missed, last, shown, ratesFaults>>

End(k, j) ==
    IF k = "backfill" THEN j.to
    ELSE IF now - j.from > MaxRange THEN j.from + MaxRange ELSE now

\* fetchGeckoMarketRange fails if the context is done.
Fetch(g, k) ==
    LET j == job[g][k] IN
    /\ j.pc = "fetch" /\ ~Cancelled(g)
    /\ Set(g, k, [j EXCEPT !.pc = "dump", !.rates = (First..now) \cap (j.from..End(k, j))])
    /\ UNCHANGED <<now, history, historyDB, gen, active, missed, last, shown, ratesFaults>>

\* Whatever the error, the goroutine sleeps and tries again.
AfterError_GivesUp == Over
AfterError == Sleeping

FetchFails(g, k) ==
    /\ job[g][k].pc = "fetch"
    /\ IF Cancelled(g) THEN UNCHANGED ratesFaults ELSE Fault
    /\ Set(g, k, AfterError)
    /\ UNCHANGED <<now, history, historyDB, gen, active, missed, last, shown>>

Dump(g, k) ==
    LET j == job[g][k] IN
    /\ j.pc = "dump"
    /\ \/ historyDB' = historyDB \cup j.rates /\ UNCHANGED <<missed, ratesFaults>>
       \/ Fault /\ missed' = missed \cup j.rates /\ UNCHANGED historyDB
    /\ Set(g, k, [j EXCEPT !.pc = "append"])
    /\ UNCHANGED <<now, history, gen, active, last, shown>>

\* backfillHistory returns when there are no older rates.
AppendRates(g, k) ==
    LET j == job[g][k] IN
    /\ j.pc = "append"
    /\ history' = history \cup j.rates
    /\ Set(g, k, IF k = "backfill" /\ j.rates = {} THEN Over ELSE Sleeping)
    /\ UNCHANGED <<now, historyDB, gen, active, missed, last, shown, ratesFaults>>

Return(g, k) ==
    /\ job[g][k].pc = "sleeping" /\ Cancelled(g)
    /\ Set(g, k, Over)
    /\ UNCHANGED <<now, history, historyDB, gen, active, missed, last, shown, ratesFaults>>

HistoryStep(g) ==
    \/ BeginUpdate(g) \/ BeginBackfill(g)
    \/ \E k \in Kinds : Fetch(g, k) \/ FetchFails(g, k) \/ Dump(g, k) \/ AppendRates(g, k) \/ Return(g, k)

-----------------------------------------------------------------------------
(* The latest rates *)

\* A failure is not told to the frontend, and rates that did not change are not either.
UpdateLastFails ==
    /\ Fault
    /\ last' = NoPrice
    /\ UNCHANGED <<now, history, historyDB, gen, active, job, missed, shown>>

Changed(rates) == rates # last

UpdateLast ==
    /\ \E rates \in Prices :
          IF Changed(rates) THEN last' = rates /\ shown' = rates
          ELSE last' = rates /\ UNCHANGED shown
    /\ UNCHANGED <<now, history, historyDB, gen, active, job, missed, ratesFaults>>

-----------------------------------------------------------------------------

Pending == \E g \in 1..MaxGen, k \in Kinds : job[g][k].pc \in {"fetch", "dump", "append"}

TimePasses ==
    /\ now < MaxNow /\ ~Pending
    /\ now' = now + 1
    /\ UNCHANGED <<history, historyDB, gen, active, job, missed, last, shown, ratesFaults>>

\* The app is killed and started again; StartCurrentRates and
\* ReconfigureHistory follow.
Restart ==
    /\ 0 < gen /\ gen < MaxGen
    /\ job' = [g \in 1..MaxGen |-> [k \in Kinds |-> Over]]
    /\ history' = {} /\ active' = FALSE
    /\ last' = NoPrice /\ shown' = NoPrice
    /\ UNCHANGED <<now, historyDB, gen, missed, ratesFaults>>

HistoryNext ==
    \/ ReconfigureHistory \/ Restart \/ TimePasses
    \/ \E g \in 1..MaxGen : HistoryStep(g)

\* lastUpdateLoop, which has nothing in common with the history but the limit
\* on the calls.
LatestNext == UpdateLast \/ UpdateLastFails

RatesNext == HistoryNext \/ LatestNext

\* Each goroutine goes on; time passes.
RatesFairness ==
    /\ WF_ratesVars(TimePasses)
    /\ \A g \in 1..MaxGen :
          /\ WF_ratesVars(BeginUpdate(g)) /\ WF_ratesVars(BeginBackfill(g))
          /\ \A k \in Kinds : WF_ratesVars(Fetch(g, k) \/ Dump(g, k) \/ AppendRates(g, k))

RatesSpec == RatesInit /\ [][RatesNext]_ratesVars /\ RatesFairness

-----------------------------------------------------------------------------
(* Properties *)

\* The history has no holes, in which HistoricalPriceAt would interpolate over
\* any length of time, whatever the interleaving of the goroutines of several
\* generations, restarts and failing requests - unless a write to the database
\* failed, or after a restart a read of it: the goroutines then start anew from
\* now, and the hole stays for ever once the database is loaded again.
NoHoles == missed = {} /\ history # {} => Min(history)..Max(history) \subseteq history

\* After a failure the frontend is told the rates again.
RatesShown == last # NoPrice => shown = last

\* The rates that are used, old and new, are complete.
RatesSound == NoHoles /\ RatesShown

\* The inductive invariant behind NoHoles. A goroutine works next to what is in memory, or, if
\* nothing was there when it began, on the recent past, as any other that does.
AtWork(j) == j.pc \in {"fetch", "dump", "append"}
Convex(S) == \A x, y \in S : x..y \subseteq S
FirstRates == (First..now) \cap (Back(now, Recent)..now)

Adjacent(k, j, S) ==
    IF k = "update" THEN j.from \in Nat \ {0} /\ j.from - 1 \in S
    ELSE \/ j.to + 1 \in S
         \/ j.to = now /\ j.from = Back(now, Recent) /\ (S = {} \/ FirstRates \subseteq S)

Fetched(k, j) ==
    \E end \in 0..now : (k = "backfill" => end = j.to) /\ j.rates = (First..now) \cap (j.from..end)

JobTypeOK(j) ==
    j \in [pc : {"sleeping", "over", "fetch", "dump", "append"}, from : Nat, to : Nat,
           rates : SUBSET (First..now)]

RatesTypeOK ==
    /\ now \in Nat /\ now >= First + Recent
    /\ history \subseteq First..now /\ historyDB \subseteq First..now /\ missed \subseteq First..now
    /\ gen \in 0..MaxGen /\ active \in BOOLEAN
    /\ DOMAIN job = 1..MaxGen
    /\ \A g \in 1..MaxGen : DOMAIN job[g] = Kinds /\ \A k \in Kinds : JobTypeOK(job[g][k])
    /\ \A g \in 1..MaxGen : g > gen => \A k \in Kinds : job[g][k].pc = "over"

Complete ==
    /\ Convex(history) /\ Convex(historyDB) /\ history \subseteq historyDB
    /\ \A g \in 1..MaxGen, k \in Kinds :
          /\ AtWork(job[g][k]) => Adjacent(k, job[g][k], history)
          /\ job[g][k].pc \in {"dump", "append"} => Fetched(k, job[g][k])
          /\ job[g][k].pc = "append" => job[g][k].rates \subseteq historyDB
    /\ history = {} /\ historyDB # {} =>
          \/ ~active /\ ~Pending
          \/ historyDB = FirstRates /\ \E g \in 1..MaxGen : job[g]["backfill"].pc = "append"

RatesInv == RatesTypeOK /\ (missed = {} => Complete) /\ RatesShown

\* As long as the pair is wanted, the whole history is fetched in the end.
HistoryComplete == <>[](active /\ missed = {} => First..now \subseteq history)
=============================================================================
