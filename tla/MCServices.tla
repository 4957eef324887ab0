------------------------------ MODULE MCServices ------------------------------
(***************************************************************************)
(* The smaller services of the backend, one at a time: they share no state *)
(* in the models, so that nothing is gained by interleaving them.          *)
(***************************************************************************)
EXTENDS AOPP, Rates, MakeTx, Notes, Timeline, Sending, ConfigStore

VARIABLE service        \* which of them runs; the others keep their initial state

\* Two accounts of one keystore that differ in the insurance, its ETH account, and an account of
\* another keystore.
MCAccts == {"b1", "b2", "e1", "c1"}

MCConf ==
    LET btc(owner, insured, watch) == [owner |-> owner, coin |-> "btc", insured |-> insured,
                                       scripts |-> <<"p2wpkh", "p2sh">>, watch |-> watch]
    IN  [a \in MCAccts |->
            CASE a = "b1" -> btc("k1", FALSE, TRUE)
              [] a = "b2" -> btc("k1", TRUE, FALSE)
              [] a = "c1" -> btc("k2", FALSE, FALSE)
              [] OTHER -> [btc("k1", FALSE, FALSE) EXCEPT !.coin = "eth", !.scripts = <<"eth">>]]

MCURIs ==
    {[id |-> 1, flaw |-> "", coin |-> "btc", format |-> "any"],
     [id |-> 2, flaw |-> "", coin |-> "btc", format |-> "p2sh"],
     [id |-> 3, flaw |-> "", coin |-> "eth", format |-> "any"],
     [id |-> 4, flaw |-> "msg", coin |-> "btc", format |-> "any"]}

\* Transactions of two accounts: confirmed ones in one block or in several, unconfirmed ones (0)
\* and ones whose inputs are not (-1), with or without a time at which they were first seen.
MCTx(n, kinds, heights, created) ==
    {[id |-> n, height |-> h, created |-> c, type |-> k[1], failed |-> k[2], amount |-> k[3],
      fee |-> IF k[1] = "receive" THEN 0 ELSE 1] : h \in heights, c \in created, k \in kinds}

MCFirst == MCTx(1, {<<"receive", FALSE, 5>>}, {1, 2}, {1})
MCSecond == MCTx(2, {<<"send", FALSE, 2>>, <<"send", TRUE, 2>>, <<"self", FALSE, 2>>},
                 {0, 1, 2}, {0, 2})
MCThird == MCTx(3, {<<"receive", FALSE, 7>>}, {-1, 2}, {0})
MCOther == MCTx(3, {<<"receive", FALSE, 7>>}, {0, 2, 3}, {1})

MCChartAccounts ==
    [a \in {"a", "b"} |->
        IF a = "b" THEN {{}} \cup {{t} : t \in MCOther}
        ELSE {{t, u} : t \in MCFirst, u \in MCSecond}
             \cup {{t, u, v} : t \in MCFirst, u \in MCSecond, v \in MCThird}]

MCKnown == [a \in {"a", "b"} |-> IF a = "a" THEN {<<1, 7>>, <<3, 6>>, <<0, 0>>} ELSE {<<1, 6>>, <<4, 7>>}]

MCHeightTimes == {<<2, 4, 5>>, <<3, 3, 6>>, <<2, 0, 5>>}

\* A payment with change, all coins of one type, and inputs of several types to an address of
\* the account.
MCForms ==
    LET output(type, ours, change) == [type |-> type, ours |-> ours, change |-> change]
    IN  {[inputs |-> <<"p2wpkh">>,
          outputs |-> <<output("p2wpkh", FALSE, FALSE), output("p2wpkh", TRUE, TRUE)>>],
         [inputs |-> <<"p2tr", "p2tr">>, outputs |-> <<output("p2tr", FALSE, FALSE)>>],
         [inputs |-> <<"p2wpkh-p2sh", "p2wpkh", "p2wpkh-p2sh">>,
          outputs |-> <<output("p2tr", TRUE, FALSE), output("p2wpkh", TRUE, TRUE)>>]}

Services == {"aopp", "history", "latest", "maketx", "notes", "timeline", "sending", "config"}

\* One initial state stands for those of a service that does not run. Of three coins two have the
\* same script type.
MCInit ==
    /\ service \in Services
    /\ AoppInit /\ RatesInit
    /\ IF service = "maketx" THEN MakeTxInit /\ (Len(coins) = 3 => coins[1].script = coins[2].script)
       ELSE /\ args = [amount |-> 0, to |-> 0, custom |-> FALSE, rate |-> 0, minRelay |-> 0]
            /\ coins = <<>> /\ feeRatePerKb = 0 /\ targetFee = 0
            /\ proposal = [status |-> "asked"]
    /\ IF service = "notes" THEN NotesInit
       ELSE /\ file = NoNotes /\ legible = TRUE /\ legacy = [f \in LegacyFiles |-> NoNotes]
            /\ data = NoNotes /\ stage = "closed" /\ writing = FALSE /\ merged = NoFile
            /\ proposedTxNote = Blank /\ sending = NoTx /\ meant = NoNotes /\ crashes = 0
    /\ IF service = "timeline" THEN TimelineInit
       ELSE /\ txs = <<>> /\ times = <<>> /\ known = <<>> /\ ordered = [a \in Accs |-> <<>>]
            /\ chart = [status |-> "working"]
    /\ SendingInit
    /\ service # "sending" => marksOurs
    /\ ConfigInit
    /\ service # "config" => appFile = NoConfig

\* The services that do not run keep their state.
Others ==
    /\ service # "aopp" => UNCHANGED aoppVars
    /\ service \notin {"history", "latest"} => UNCHANGED ratesVars
    /\ service # "maketx" => UNCHANGED makeTxVars
    /\ service # "notes" => UNCHANGED notesVars
    /\ service # "timeline" => UNCHANGED timelineVars
    /\ service # "sending" => UNCHANGED sendingVars
    /\ service # "config" => UNCHANGED configVars

MCNext ==
    /\ UNCHANGED service
    /\ \/ service = "aopp" /\ AoppNext /\ Others
       \/ service = "history" /\ HistoryNext /\ Others
       \/ service = "latest" /\ LatestNext /\ Others
       \/ service = "maketx" /\ MakeTxNext /\ Others
       \/ service = "notes" /\ NotesNext /\ Others
       \/ service = "timeline" /\ TimelineNext /\ Others
       \/ service = "sending" /\ SendingNext /\ Others
       \/ service = "config" /\ ConfigNext /\ Others

MCFairness ==
    \/ service = "aopp" /\ AoppFairness
    \/ service = "history" /\ RatesFairness
    \/ service = "maketx" /\ MakeTxFairness
    \/ service \in {"latest", "notes", "timeline", "sending", "config"}

MCVars == <<service, aoppVars, ratesVars, makeTxVars, notesVars, timelineVars, sendingVars, configVars>>

MCSpec == MCInit /\ [][MCNext]_MCVars /\ MCFairness
=============================================================================
