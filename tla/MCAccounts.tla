------------------------------ MODULE MCAccounts ------------------------------
(***************************************************************************)
(* Instances of Accounts: two devices with the same seed, of which one is  *)
(* an older one that only supports Bitcoin, and one with another seed.     *)
(***************************************************************************)
EXTENDS Accounts

Multi == [root |-> "r1", coins |-> {"btc", "eth"}, taproot |-> TRUE, multi |-> TRUE]
BtcOnly == [root |-> "r1", coins |-> {"btc"}, taproot |-> FALSE, multi |-> TRUE]
Other == [root |-> "r2", coins |-> {"btc"}, taproot |-> TRUE, multi |-> TRUE]

JustOne == {Multi}
OneSeed == {Multi, BtcOnly}
TwoSeeds == {Multi, Other}
BtcAccount(n) == [root |-> "r1", coin |-> "btc", n |-> n]
SomeUsed == {BtcAccount(1), BtcAccount(2)}
=============================================================================
