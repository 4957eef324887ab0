------------------------------- MODULE MakeTx -------------------------------
(***************************************************************************)
(* Making a Bitcoin or Litecoin transaction (backend/coins/btc: newTx in   *)
(* transaction.go, feeTargets in account.go, and the package maketx).      *)
(*                                                                         *)
(* A request says how much is to be sent ("all", or an amount), to an      *)
(* address of which size, and what is known about fees.  NewTx selects the *)
(* largest coins, sees what fee a transaction with these coins needs, and  *)
(* selects again as long as the fee is not covered.                        *)
(***************************************************************************)
EXTENDS Integers, Sequences, FiniteSets, Functions

CONSTANTS
    Values,             \* values of coins, in satoshi
    ScriptTypes,        \* script types of the account's coins
    MaxCoins,           \* bound on their number
    Amounts,            \* amounts to send, 0 for all
    FeeRates,              \* fee rates per 1000 vbytes; 0 is used for an unknown one
    RecipientSizes      \* sizes of the pkScript of the recipient

ASSUME MakeTxAssumption ==
    /\ ScriptTypes \subseteq {"p2pkh", "p2sh", "p2wpkh", "p2tr"}
    /\ Values \subseteq Nat \ {0} /\ Amounts \subseteq Nat /\ RecipientSizes \subseteq Nat
    /\ MaxCoins \in Nat
    /\ 0 \in FeeRates /\ FeeRates \subseteq Nat

VARIABLES
    args,               \* the request, with what the servers say about fees
    coins,              \* the spendable coins, by ascending value
    feeRatePerKb,
    targetFee,
    proposal            \* [status], and the transaction if status = "made"

makeTxVars == <<args, coins, feeRatePerKb, targetFee, proposal>>

Coin == [value : Values, script : ScriptTypes]

\* byValue: among the coins of the same value the order is arbitrary but fixed.
Ascending(s) == \A i \in 1..Len(s) - 1 : s[i].value <= s[i + 1].value

MakeTxInit ==
    /\ args \in [amount : Amounts, to : RecipientSizes, custom : BOOLEAN, rate : FeeRates, minRelay : FeeRates]
    /\ coins \in {s \in UNION {[1..n -> Coin] : n \in 0..MaxCoins} : Ascending(s)}
    /\ feeRatePerKb = 0 /\ targetFee = 0
    /\ proposal = [status |-> "asked"]

-----------------------------------------------------------------------------
(* The size of a transaction *)

VarIntSerializeSize(n) == IF n < 253 THEN 1 ELSE 3

calcInputSize(sigScriptSize) ==
    32 + 4 + VarIntSerializeSize(sigScriptSize) + sigScriptSize + 4

outputSize(pkScriptSize) ==
    IF pkScriptSize = 0 THEN 0 ELSE 8 + VarIntSerializeSize(pkScriptSize) + pkScriptSize

\* sigScriptWitnessSize: signatures of 72 (with low S, and the hash type) and
\* of 64 bytes, keys of 33.
sigScriptSize(script) ==
    CASE script = "p2pkh" -> 1 + 72 + 1 + 33
      [] script = "p2sh" -> 1 + 22
      [] OTHER -> 0

witnessSize(script) ==
    CASE script = "p2pkh" -> 0
      [] script = "p2tr" -> 1 + 1 + 64
      [] OTHER -> 1 + 1 + 72 + 1 + 33

SumOver(s, f(_)) == SumFunction([i \in DOMAIN s |-> f(s[i])])

RoundUp4(weight) == (weight + 3) \div 4

estimateTxSize_NoChange(inputs, outputPkScriptSize, changePkScriptSize) ==
    RoundUp4(4 * (4 + 4 + 1 + 1 + outputSize(outputPkScriptSize))
             + SumOver(inputs, LAMBDA c : 4 * calcInputSize(sigScriptSize(c.script)) + witnessSize(c.script))
             + 2)

isSegwitTx(inputs) == \E i \in DOMAIN inputs : witnessSize(inputs[i].script) > 0

\* With a witness for one input, the others have an empty one.
inputWeight(script, segwit) ==
    4 * calcInputSize(sigScriptSize(script)) + witnessSize(script)
    + (IF segwit /\ witnessSize(script) = 0 THEN VarIntSerializeSize(0) ELSE 0)

\* In vbytes.  A change of size 0 is none.
estimateTxSize(inputs, outputPkScriptSize, changePkScriptSize) ==
    RoundUp4(4 * (4 + 4 + VarIntSerializeSize(Len(inputs))
                  + VarIntSerializeSize(IF changePkScriptSize = 0 THEN 1 ELSE 2)
                  + outputSize(outputPkScriptSize) + outputSize(changePkScriptSize))
             + SumOver(inputs, LAMBDA c : inputWeight(c.script, isSegwitTx(inputs)))
             + (IF isSegwitTx(inputs) THEN 2 ELSE 0))

pkScriptSize(script) ==
    CASE script = "p2pkh" -> 25 [] script = "p2sh" -> 23 [] script = "p2wpkh" -> 22 [] OTHER -> 34

\* Amounts are far from the cap at MaxSatoshi.
feeForSerializeSize(ratePerKb, size) ==
    LET fee == (ratePerKb * size) \div 1000 IN
    IF fee = 0 /\ ratePerKb > 0 THEN ratePerKb ELSE fee

isDustAmount(amount, script, ratePerKb) ==
    (amount * 1000) \div (3 * (outputSize(pkScriptSize(script)) + calcInputSize(sigScriptSize(script)))) < ratePerKb

-----------------------------------------------------------------------------
(* Fees *)

\* feeTargets, for the target that was chosen: an estimate below the minimum
\* relay fee is raised to it, and it stands in for an unknown estimate.
Raised(rate, minRelay) == IF rate < minRelay THEN minRelay ELSE rate

FeeTarget == Raised(args.rate, args.minRelay)

\* getFeePerKb: 0 if the rate is refused or unknown.  A custom one needs the
\* minimum relay fee.
getFeePerKb ==
    IF args.custom
    THEN IF args.minRelay = 0 \/ args.rate < args.minRelay THEN 0 ELSE args.rate
    ELSE FeeTarget

-----------------------------------------------------------------------------
(* Coins *)

Total(s) == SumOver(s, LAMBDA c : c.value)

Largest(k) == [i \in 1..k |-> coins[Len(coins) + 1 - i]]

\* coinSelection: the shortest run of the largest coins that is enough, or none.
Selections(minAmount) == {k \in 0..Len(coins) : Total(Largest(k)) >= minAmount}

coinSelection(minAmount) ==
    Largest(CHOOSE k \in Selections(minAmount) : \A l \in Selections(minAmount) : k <= l)

\* pickChangeAddress, for a unified account and for one with a single script type.
ChangeScript ==
    IF Cardinality(ScriptTypes) = 1 THEN CHOOSE s \in ScriptTypes : TRUE
    ELSE IF \E i \in DOMAIN coins : coins[i].script = "p2tr" THEN "p2tr"
    ELSE IF "p2wpkh" \in ScriptTypes THEN "p2wpkh"
    ELSE CHOOSE s \in ScriptTypes : TRUE

-----------------------------------------------------------------------------
(* newTx *)

Asked == proposal.status = "asked"

DetermineFee ==
    /\ Asked
    /\ feeRatePerKb' = getFeePerKb
    /\ proposal' = [status |-> IF getFeePerKb = 0 THEN "no fee" ELSE "selecting"]
    /\ UNCHANGED <<args, coins, targetFee>>

Made(inputs, amount, change, fee) ==
    [status |-> "made", inputs |-> inputs, amount |-> amount, change |-> change, fee |-> fee]

NewTxSpendAll ==
    /\ proposal.status = "selecting" /\ args.amount = 0
    /\ LET fee == feeForSerializeSize(feeRatePerKb, estimateTxSize(coins, args.to, 0)) IN
       proposal' = IF Total(coins) < fee THEN [status |-> "insufficient funds"]
                   ELSE Made(coins, Total(coins) - fee, 0, fee)
    /\ UNCHANGED <<args, coins, feeRatePerKb, targetFee>>

RequiredFee(inputs) ==
    feeForSerializeSize(feeRatePerKb, estimateTxSize(inputs, args.to, pkScriptSize(ChangeScript)))

\* A change that is dust is left to the miners.
FinalFee(inputs, change) ==
    IF isDustAmount(change, ChangeScript, feeRatePerKb)
    THEN Total(inputs) - args.amount ELSE RequiredFee(inputs)

Finished(inputs) ==
    LET change == Total(inputs) - args.amount - RequiredFee(inputs) IN
    Made(inputs, args.amount,
         IF isDustAmount(change, ChangeScript, feeRatePerKb) THEN 0 ELSE change,
         FinalFee(inputs, change))

NextTarget_Same(fee) == targetFee
NextTarget(fee) == fee

\* One iteration of the loop of NewTx.
SelectCoins ==
    /\ proposal.status = "selecting" /\ args.amount > 0
    /\ IF Selections(args.amount + targetFee) = {}
       THEN proposal' = [status |-> "insufficient funds"] /\ UNCHANGED targetFee
       ELSE LET inputs == coinSelection(args.amount + targetFee)
                fee == RequiredFee(inputs)
            IN  IF Total(inputs) - args.amount < fee
                THEN targetFee' = NextTarget(fee) /\ UNCHANGED proposal
                ELSE proposal' = Finished(inputs) /\ UNCHANGED targetFee
    /\ UNCHANGED <<args, coins, feeRatePerKb>>

MakeTxNext == DetermineFee \/ NewTxSpendAll \/ SelectCoins

MakeTxFairness == WF_makeTxVars(MakeTxNext)

MakeTxSpec == MakeTxInit /\ [][MakeTxNext]_makeTxVars /\ MakeTxFairness

-----------------------------------------------------------------------------
(* Properties *)

IsMade == proposal.status = "made"

\* Nothing is lost: the coins that are spent are the amount, the change and the
\* fee that is shown to the user; change is given only if it is worth spending.
ValueConserved ==
    IsMade => /\ Total(proposal.inputs) = proposal.amount + proposal.change + proposal.fee
              /\ proposal.change > 0 => ~isDustAmount(proposal.change, ChangeScript, feeRatePerKb)

\* The size as the network counts it (BIP 141): three times the transaction
\* without the witnesses, and once with them, over four.
SerializedSize(inputs, to, change) ==
    LET segwit == \E i \in DOMAIN inputs : inputs[i].script # "p2pkh"
        base == 9 + VarIntSerializeSize(Len(inputs)) + SumOver(inputs, LAMBDA c : 41 + sigScriptSize(c.script))
                  + outputSize(to) + outputSize(change)
        stack == SumOver(inputs, LAMBDA c : IF c.script = "p2pkh" THEN 1 ELSE witnessSize(c.script))
    IN  (3 * base + base + (IF segwit THEN 2 + stack ELSE 0) + 3) \div 4

VirtualSize(tx) ==
    SerializedSize(tx.inputs, args.to, IF tx.change > 0 THEN pkScriptSize(ChangeScript) ELSE 0)

\* The fee of the transaction is not below what the rate asks for its real
\* size, although the rate is applied to an estimate, before it is known which
\* outputs there are.
FeeCoversSize ==
    IsMade => proposal.fee >= (feeRatePerKb * VirtualSize(proposal)) \div 1000

\* Nor is it below the minimum relay fee, if that is known, whatever the rate
\* comes from.
FeeIsRelayed ==
    IsMade => proposal.fee >= (args.minRelay * VirtualSize(proposal)) \div 1000

\* The search for coins gives up only if all coins together do not cover the
\* amount and the fee for spending them all; except at a rate below one satoshi per vbyte,
\* where feeForSerializeSize asks more for a transaction so small that its fee would be 0
\* than for a larger one.
ShortOfFunds ==
    proposal.status = "insufficient funds" =>
        \/ Total(coins) < args.amount + (IF args.amount = 0
                                         THEN feeForSerializeSize(feeRatePerKb, estimateTxSize(coins, args.to, 0))
                                         ELSE RequiredFee(coins))
        \/ feeRatePerKb < 1000 /\ Total(coins) < args.amount + feeRatePerKb

\* The outcome of newTx is right: a transaction that adds up and is paid for, or an error
\* for which there is a reason.
ProposalSound == ValueConserved /\ FeeCoversSize /\ FeeIsRelayed /\ ShortOfFunds

\* The loop of NewTx ends.
ProposalEnds ==
    proposal.status = "selecting" ~> proposal.status \in {"made", "insufficient funds"}
=============================================================================
