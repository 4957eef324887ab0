------------------------------- MODULE Accounts -------------------------------
(***************************************************************************)
(* The accounts of the app (backend/accounts.go, backend/backend.go,       *)
(* backend/config): which accounts are persisted, which are loaded, and    *)
(* the discovery of used accounts, while keystores come and go, the user   *)
(* changes settings and the app is killed.                                 *)
(*                                                                         *)
(* A step holds accountsAndKeystoreLock or the lock of the accounts        *)
(* config.  An operation that takes first the one and then the other is    *)
(* two steps; in between, devices and goroutines go on.  Names of          *)
(* accounts, extended public keys and testnets are left out, and unified   *)
(* accounts are assumed (the BitBox01 is not modelled here).               *)
(***************************************************************************)
EXTENDS Integers, FiniteSets, FiniteSetsExt

CONSTANTS
    Keystores,      \* [root, coins, taproot, multi]: what may be plugged in
    NoKeystore,
    Coins,          \* "btc" or "eth"; the former has accounts discovery
    Tokens,         \* ERC20 tokens
    OnChain,        \* the accounts that have a transaction
    HardLimit,      \* accountsHardLimit, 5
    MaxNumber,      \* bound: account numbers
    MaxOps,         \* bound: operations of the user
    MaxTroubles     \* bound: kinds of trouble in a behaviour

Roots == {ks.root : ks \in Keystores}
Codes == [root : Roots, coin : Coins, n : 0..MaxNumber]
\* An ERC20 account and the ETH account it belongs to.
TokenCodes == [root : Roots, coin : Coins, n : 0..MaxNumber, token : Tokens]
Parent(x) == [root |-> x.root, coin |-> x.coin, n |-> x.n]
Watches == {"nil", "false", "true"}
Troubles == {"crash", "xpub"}

ASSUME AccountsAssumption ==
    /\ HardLimit \in Nat \ {0} /\ MaxNumber \in Nat /\ MaxOps \in Nat /\ MaxTroubles \in Nat
    /\ NoKeystore \notin Keystores /\ Coins \subseteq {"btc", "eth"}
    /\ \A ks \in Keystores : ks.coins \subseteq Coins

VARIABLES
    cfg,        \* AccountsConfig in memory: accounts by code, watchonly by fingerprint
    disk,       \* the accounts config file
    keystore,   \* the connected keystore
    loaded,     \* backend.accounts: the script types each was created with, by code
    tokens,     \* the ERC20 accounts in backend.accounts: the Watch flag of their config
    checks,     \* accounts for which a checkAccountUsed goroutine runs
    discover,   \* does a maybeAddHiddenUnusedAccounts goroutine run?
    op,         \* the rest of the user's operation, after its first lock
    ops, troubles

loadVars == <<loaded, tokens, checks>>
accountsVars == <<cfg, disk, keystore, loadVars, discover, op, ops, troubles>>

Idle == [kind |-> "idle"]

-----------------------------------------------------------------------------
(* The config.                                                             *)

Owned(k, root, coin) == {c \in DOMAIN k.accounts : c.root = root /\ c.coin = coin}
OfRoot(k, root) == {c \in DOMAIN k.accounts : c.root = root}
IsKeystoreWatchonly(k, root) == root \in DOMAIN k.watchonly /\ k.watchonly[root]
IsAccountWatchonly(k, c) ==
    IsKeystoreWatchonly(k, c.root) /\ k.accounts[c].watch = "true"

SetIn(k, S, F(_)) ==
    [k EXCEPT !.accounts = [c \in DOMAIN @ |-> IF c \in S THEN F(@[c]) ELSE @[c]]]

\* Start with an empty config; NewConfig reads what was saved.
EmptyConfig == [accounts |-> <<>>, watchonly |-> <<>>]
ModifyAccountsConfig(k) == cfg' = k /\ disk' = k

\* A keystore can derive nothing for a coin that it does not support.
SupportedScripts(ks, coin) ==
    IF coin \notin ks.coins THEN {}
    ELSE IF coin = "btc" THEN {"wpkh"} \cup (IF ks.taproot THEN {"tr"} ELSE {})
    ELSE {"eth"}

\* An account that was added to be scanned is not watched.
NewWatch(k, root, hidden) ==
    IF ~hidden /\ IsKeystoreWatchonly(k, root) THEN "true" ELSE "nil"

NewAccount(k, ks, coin, hidden) ==
    [used |-> FALSE, hidden |-> hidden, inactive |-> FALSE, tokens |-> {},
     watch |-> NewWatch(k, ks.root, hidden), scripts |-> SupportedScripts(ks, coin)]

\* createAndPersistAccountConfig, persistBTCAccountConfig, persistETHAccountConfig and
\* persistAccount.  Unsupported accounts are skipped, existing ones stay.
Persist(k, ks, coin, n, hidden) ==
    LET c == [root |-> ks.root, coin |-> coin, n |-> n] IN
    IF SupportedScripts(ks, coin) = {} \/ c \in DOMAIN k.accounts THEN k
    ELSE [k EXCEPT !.accounts = [d \in DOMAIN @ \union {c} |->
                                    IF d = c THEN NewAccount(k, ks, coin, hidden) ELSE @[d]]]

\* -1 if there is none.
HighestNumber(k, root, coin) == Max({c.n : c \in Owned(k, root, coin)} \cup {-1})

\* Whoever is shown to the user now becomes watched if its keystore is.
Shown(k, root, acct) ==
    [acct EXCEPT !.hidden = FALSE,
                 !.watch = IF IsKeystoreWatchonly(k, root) THEN "true" ELSE @]

-----------------------------------------------------------------------------
(* Loading accounts.  accountsAndKeystoreLock is held.                     *)

Belongs(root, ks) == ks # NoKeystore /\ ks.root = root

\* uninitAccounts
Kept(k, ks, force) ==
    {c \in DOMAIN loaded : ~force /\ (Belongs(c.root, ks) \/ IsAccountWatchonly(k, c))}
KeptTokens(k, ks, force, flags) ==
    {x \in DOMAIN flags :
        ~force /\ (Belongs(x.root, ks)
                   \/ (IsKeystoreWatchonly(k, x.root) /\ flags[x] = "true"))}

\* initPersistedAccounts
Loadable_IgnoresKeystore(k, ks) == {c \in DOMAIN k.accounts : k.accounts[c].watch # "false"}
Loadable(k, ks) ==
    {c \in DOMAIN k.accounts :
        \/ IsAccountWatchonly(k, c)
        \/ Belongs(c.root, ks) /\ k.accounts[c].scripts \subseteq SupportedScripts(ks, c.coin)}

\* createAndAddAccount and addAccount: for a new account, its tokens and its check.
\* flags are the Watch flags of the loaded tokens.
Load(k, S, keep, keepTokens, flags, running) ==
    LET new == S \ keep
        newTokens == {x \in TokenCodes : Parent(x) \in new /\ x.token \in k.accounts[Parent(x)].tokens}
                        \ keepTokens
    IN  /\ loaded' = [c \in keep \cup new |->
                        IF c \in keep THEN loaded[c] ELSE k.accounts[c].scripts]
        /\ tokens' = [x \in keepTokens \cup newTokens |->
                        IF x \in keepTokens THEN flags[x] ELSE k.accounts[Parent(x)].watch]
        /\ checks' = running \cup new \cup newTokens

initAccounts(k, ks, force, flags) ==
    Load(k, Loadable(k, ks), Kept(k, ks, force), KeptTokens(k, ks, force, flags), flags, checks)

AccountsInit ==
    /\ cfg = EmptyConfig /\ disk = EmptyConfig
    /\ keystore = NoKeystore /\ loaded = <<>> /\ tokens = <<>> /\ checks = {}
    /\ discover = FALSE /\ op = Idle /\ ops = 0 /\ troubles = {}

Trouble(kind) ==
    /\ kind \notin troubles /\ Cardinality(troubles) < MaxTroubles
    /\ troubles' = troubles \cup {kind}

-----------------------------------------------------------------------------
(* Keystores.                                                              *)

\* maybeAddP2TR
AddP2TR(k, ks) ==
    SetIn(k, OfRoot(k, ks.root),
          LAMBDA a : IF "wpkh" \in a.scripts /\ ks.taproot /\ "btc" \in ks.coins
                     THEN [a EXCEPT !.scripts = @ \cup {"tr"}] ELSE a)

GetOrAddKeystore(k, root) ==
    [k EXCEPT !.watchonly = [r \in DOMAIN @ \union {root} |-> r \in DOMAIN @ /\ @[r]]]

\* persistDefaultAccountConfigs: BTC, then ETH.
DefaultAccounts(k, ks, coins) ==
    LET btc == IF "btc" \in coins THEN Persist(k, ks, "btc", 0, FALSE) ELSE k
    IN  IF "eth" \in coins THEN Persist(btc, ks, "eth", 0, FALSE) ELSE btc

\* The accounts are updated if there are some, and added otherwise.  An error leaves
\* what was done in memory and saves nothing.
registerKeystore(ks) ==
    LET known == GetOrAddKeystore(cfg, ks.root)
        isNew == OfRoot(known, ks.root) = {}
        full == IF isNew THEN DefaultAccounts(known, ks, Coins) ELSE AddP2TR(known, ks)
    IN  /\ ks # keystore
        /\ keystore' = ks
        /\ \/ ModifyAccountsConfig(full) /\ UNCHANGED troubles
           \/ /\ Trouble("xpub")
              /\ cfg' \in {known} \cup (IF isNew THEN {DefaultAccounts(known, ks, {"btc"})} ELSE {})
              /\ UNCHANGED disk
        /\ initAccounts(cfg', ks, FALSE, tokens)
        /\ discover' = TRUE
        /\ UNCHANGED <<op, ops>>

DeregisterKeystore ==
    /\ keystore # NoKeystore
    /\ keystore' = NoKeystore
    /\ initAccounts(cfg, NoKeystore, FALSE, tokens)
    /\ UNCHANGED <<cfg, disk, discover, op, ops, troubles>>

-----------------------------------------------------------------------------
(* Discovery.                                                              *)

\* The highest account is used, or the first accounts are not scanned yet.
NeedsHidden_IgnoresUsed(k, ks) == HighestNumber(k, ks.root, "btc") < HardLimit
NeedsHidden(k, ks) ==
    LET n == HighestNumber(k, ks.root, "btc")
    IN  \/ n < HardLimit
        \/ k.accounts[[root |-> ks.root, coin |-> "btc", n |-> n]].used

maybeAddHiddenUnusedAccounts ==
    /\ discover
    /\ discover' = FALSE
    /\ IF keystore # NoKeystore /\ NeedsHidden(cfg, keystore)
          /\ HighestNumber(cfg, keystore.root, "btc") < MaxNumber
       THEN LET n == HighestNumber(cfg, keystore.root, "btc") + 1
                k == Persist(cfg, keystore, "btc", n, TRUE)
            IN  /\ ModifyAccountsConfig(k)
                /\ Load(k, DOMAIN loaded \cup (DOMAIN k.accounts \ DOMAIN cfg.accounts),
                        DOMAIN loaded, DOMAIN tokens, tokens, checks)
       ELSE UNCHANGED <<cfg, disk, loadVars>>
    /\ UNCHANGED <<keystore, op, ops, troubles>>

\* The account may be closed before its transactions are known.  ERC20 accounts are
\* not in the config, and looking one up is an error.
MarkUsed(k, c) ==
    [k EXCEPT !.accounts[c] = [Shown(k, c.root, @) EXCEPT !.used = TRUE]]
checkAccountUsed(x) ==
    /\ x \in checks
    /\ checks' = checks \ {x}
    /\ \/ x \notin DOMAIN loaded \cup DOMAIN tokens /\ UNCHANGED <<cfg, disk, discover>>
       \/ x \in OnChain /\ x \in Codes /\ ModifyAccountsConfig(MarkUsed(cfg, x)) /\ discover' = TRUE
       \/ x \in OnChain /\ x \notin Codes /\ UNCHANGED <<cfg, disk, discover>>
       \/ x \notin OnChain /\ discover' = TRUE /\ UNCHANGED <<cfg, disk>>
    /\ UNCHANGED <<keystore, loaded, tokens, op, ops, troubles>>

-----------------------------------------------------------------------------
(* The user.  Bound: one operation at a time.                              *)

Begins == op = Idle /\ ops < MaxOps /\ ops' = ops + 1
Visible == {c \in DOMAIN cfg.accounts : ~cfg.accounts[c].hidden}

\* nextAccountNumber
MayAdd(k, ks, coin) ==
    LET n == HighestNumber(k, ks.root, coin) + 1
    IN  n < HardLimit /\ n <= MaxNumber /\ (n >= 1 => ks.multi) /\ coin \in ks.coins
findHiddenAccount(k, ks, coin) == {c \in Owned(k, ks.root, coin) : k.accounts[c].hidden}

CreateAndPersistAccountConfig(coin) ==
    /\ Begins /\ keystore # NoKeystore
    /\ LET hidden == findHiddenAccount(cfg, keystore, coin) IN
       \/ /\ hidden # {}
          /\ LET c == CHOOSE c \in hidden : \A d \in hidden : c.n <= d.n
             IN  ModifyAccountsConfig([cfg EXCEPT !.accounts[c] = Shown(cfg, c.root, @)])
       \/ /\ hidden = {} /\ MayAdd(cfg, keystore, coin)
          /\ ModifyAccountsConfig(Persist(cfg, keystore, coin,
                                          HighestNumber(cfg, keystore.root, coin) + 1, FALSE))
    /\ op' = [kind |-> "reinitialize"]
    /\ UNCHANGED <<keystore, loadVars, discover, troubles>>

SetAccountActive(c, active) ==
    /\ Begins /\ c \in Visible
    /\ ModifyAccountsConfig([cfg EXCEPT !.accounts[c].inactive = ~active])
    /\ op' = [kind |-> "reinitialize"]
    /\ UNCHANGED <<keystore, loadVars, discover, troubles>>

SetTokenActive(c, t, active) ==
    /\ Begins /\ c \in Visible /\ c.coin = "eth"
    /\ ModifyAccountsConfig([cfg EXCEPT !.accounts[c].tokens =
                                IF active THEN @ \cup {t} ELSE @ \ {t}])
    /\ op' = [kind |-> "reinitialize"]
    /\ UNCHANGED <<keystore, loadVars, discover, troubles>>

ReinitializeAccounts ==
    /\ op.kind = "reinitialize" /\ op' = Idle
    /\ initAccounts(cfg, keystore, TRUE, tokens)
    /\ UNCHANGED <<cfg, disk, keystore, discover, ops, troubles>>

\* AccountSetWatch: first the config, then the tokens and the loaded accounts.
SetWatch(F, w) ==
    /\ ModifyAccountsConfig(SetIn(cfg, F, LAMBDA a : [a EXCEPT !.watch = w]))
    /\ op' = [kind |-> "watch", watch |-> w]

AccountSetWatch(c, w) ==
    /\ Begins /\ c \in Visible
    /\ SetWatch({c}, w)
    /\ UNCHANGED <<keystore, loadVars, discover, troubles>>

SetWatchonly(root, watchonly) ==
    /\ Begins /\ root \in DOMAIN cfg.watchonly
    /\ ModifyAccountsConfig([cfg EXCEPT !.watchonly[root] = watchonly])
    /\ op' = [kind |-> "watchonly", root |-> root, on |-> watchonly]
    /\ UNCHANGED <<keystore, loadVars, discover, troubles>>

\* Accounts() and the filter, and with them the config, are read later.
Filter ==
    IF op.on THEN {c \in DOMAIN cfg.accounts \cap DOMAIN loaded : ~cfg.accounts[c].hidden}
    ELSE OfRoot(cfg, op.root)
WatchAccounts ==
    /\ op.kind = "watchonly"
    /\ SetWatch(Filter, IF op.on THEN "true" ELSE "nil")
    /\ UNCHANGED <<keystore, loadVars, discover, ops, troubles>>

\* The tokens of all loaded ETH accounts get the flag.
FollowWatch(x) == Parent(x) \in DOMAIN loaded /\ x.token \in cfg.accounts[Parent(x)].tokens
WatchLoaded ==
    /\ op.kind = "watch" /\ op' = Idle
    /\ initAccounts(cfg, keystore, FALSE,
                    [x \in DOMAIN tokens |-> IF FollowWatch(x) THEN op.watch ELSE tokens[x]])
    /\ UNCHANGED <<cfg, disk, keystore, discover, ops, troubles>>

-----------------------------------------------------------------------------
\* The app is killed and started again: NewConfig, Start.
Restart ==
    /\ Trouble("crash")
    /\ cfg' = disk /\ UNCHANGED disk
    /\ keystore' = NoKeystore /\ discover' = FALSE /\ op' = Idle
    /\ Load(disk, Loadable(disk, NoKeystore), {}, {}, tokens, {})
    /\ UNCHANGED ops

Goroutine == maybeAddHiddenUnusedAccounts \/ \E x \in checks : checkAccountUsed(x)
Rest == ReinitializeAccounts \/ WatchAccounts \/ WatchLoaded

User ==
    \/ \E coin \in Coins : CreateAndPersistAccountConfig(coin)
    \/ \E c \in Visible :
        \/ \E active \in BOOLEAN : SetAccountActive(c, active)
        \/ \E t \in Tokens, active \in BOOLEAN : SetTokenActive(c, t, active)
        \/ \E w \in {"true", "false"} : AccountSetWatch(c, w)
    \/ \E root \in Roots, on \in BOOLEAN : SetWatchonly(root, on)

AccountsNext ==
    \/ \E ks \in Keystores : registerKeystore(ks)
    \/ DeregisterKeystore
    \/ Goroutine
    \/ User
    \/ Rest
    \/ Restart

\* Goroutines run to their end, and so does an operation of the user.
AccountsFairness == WF_accountsVars(Goroutine) /\ WF_accountsVars(Rest)
AccountsSpec == AccountsInit /\ [][AccountsNext]_accountsVars
AccountsFairSpec == AccountsSpec /\ AccountsFairness
-----------------------------------------------------------------------------
Account == [used : BOOLEAN, hidden : BOOLEAN, inactive : BOOLEAN, tokens : SUBSET Tokens,
            watch : Watches, scripts : SUBSET {"wpkh", "tr", "eth"}]

AccountsTypeOK ==
    /\ \A k \in {cfg, disk} :
        /\ DOMAIN k.accounts \subseteq Codes /\ DOMAIN k.watchonly \subseteq Roots
        /\ \A c \in DOMAIN k.accounts : c.root \in DOMAIN k.watchonly
        /\ \A c \in DOMAIN k.accounts : k.accounts[c] \in Account
    /\ keystore \in Keystores \cup {NoKeystore}
    /\ DOMAIN loaded \subseteq DOMAIN cfg.accounts
    /\ DOMAIN tokens \subseteq {x \in TokenCodes : Parent(x) \in DOMAIN cfg.accounts}
    /\ checks \subseteq Codes \cup TokenCodes
    /\ discover \in BOOLEAN /\ ops \in 0..MaxOps /\ troubles \subseteq Troubles

\* An account that is only being scanned never appears by itself: it is not watched
\* ("Otherwise the account would appear automatically once it received funds, even if
\* [...] the keystore is never connected again"), and a used one is not hidden.  This
\* holds for what is saved, too, so also after a restart.
Unseen(a) == a.hidden => a.watch # "true" /\ ~a.used
HiddenIsUnseen == \A k \in {cfg, disk} : \A c \in DOMAIN k.accounts : Unseen(k.accounts[c])

\* When no operation is half done, an account is loaded only if its keystore is
\* connected or it is watched: disabling watch-only, unplugging and replacing a
\* keystore in any order leave no account of another wallet behind.
LoadedIsJustified ==
    op = Idle =>
        \A c \in DOMAIN loaded : Belongs(c.root, keystore) \/ IsAccountWatchonly(cfg, c)

\* Accounts are numbered without gaps, whoever adds them, and beyond the limit only
\* behind a used account: discovery skips nothing and ends.
Follows(k, c) ==
    LET previous == [c EXCEPT !.n = @ - 1] IN
    c.n > 0 => /\ previous \in DOMAIN k.accounts
               /\ c.n > HardLimit => k.accounts[previous].used
ScanIsBounded == \A k \in {cfg, disk} : \A c \in DOMAIN k.accounts : Follows(k, c)

\* The accounts are as they should be, in the config and in memory: none is shown that
\* is only scanned, none is loaded without reason, and the scan leaves no gap.
AccountsAreRight == HiddenIsUnseen /\ LoadedIsJustified /\ ScanIsBounded

\* The inductive invariant behind it: of a config, in memory or on disk, and of what is loaded.
ConfigOK(k) ==
    /\ k = [accounts |-> k.accounts, watchonly |-> k.watchonly]
    /\ DOMAIN k.accounts \subseteq Codes /\ k.accounts \in [DOMAIN k.accounts -> Account]
    /\ k.watchonly \in [DOMAIN k.watchonly -> BOOLEAN]
    /\ \A c \in DOMAIN k.accounts : Unseen(k.accounts[c]) /\ Follows(k, c)
AccountsInv ==
    /\ ConfigOK(cfg) /\ ConfigOK(disk)
    /\ keystore \in Keystores \cup {NoKeystore} /\ DOMAIN loaded \subseteq DOMAIN cfg.accounts
    /\ LoadedIsJustified

\* A used account that discovery can reach is shown in the end, if a keystore that has
\* all its script types stays connected: every account that was scanned starts the next
\* scan, whatever was unplugged, created or killed before.
Reachable(c) ==
    \A n \in 0..(c.n - 1) : n < HardLimit \/ [c EXCEPT !.n = n] \in OnChain
EventuallyDiscovered ==
    \A c \in {d \in OnChain \cap Codes : d.coin = "btc"} :
        Reachable(c) /\ <>[](Belongs(c.root, keystore) /\ keystore.taproot) => <>(c \in Visible)

\* "This ensures that removing a keystore after setting an ETH account including tokens
\* to watchonly results in the account *and* the tokens remaining loaded": the active
\* tokens of a loaded account are loaded, and no others.
TokensWithParent ==
    op = Idle =>
        DOMAIN tokens = {x \in TokenCodes : /\ Parent(x) \in DOMAIN loaded
                                            /\ x.token \in cfg.accounts[Parent(x)].tokens}
=============================================================================
