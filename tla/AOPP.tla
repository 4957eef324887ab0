-------------------------------- MODULE AOPP --------------------------------
(***************************************************************************)
(* Proving to a third party that an address is the user's (backend/        *)
(* aopp.go).  A URI clicked outside of the app starts a request; the user  *)
(* approves it, plugs a device in if there is none, chooses an account;    *)
(* the app waits for the account to be synced, has the device sign the     *)
(* message of the request and posts the proof to the request's callback.   *)
(*                                                                         *)
(* All of it happens under accountsAndKeystoreLock.  In particular the     *)
(* lock is held while waiting for the sync, the user and the third party:  *)
(* `holder' is the step the function that holds the lock is in.  The       *)
(* device can be unplugged at any time, but the backend hears of it only   *)
(* when the lock is free.                                                  *)
(***************************************************************************)
EXTENDS Naturals, Sequences, FiniteSets

CONSTANTS
    URIs,               \* [id, flaw, coin, format]: the links that can be clicked
    Accts,              \* accounts in the accounts config
    Conf,               \* [Accts -> [owner, coin, scripts, insured, watch]]
    SignsETH,           \* keystores that can sign Ethereum messages
    NoKeystore

\* As accounts.go makes the signing configurations: one of each type, native segwit first.
ASSUME AccountsAssumption ==
    \A a \in Accts :
        /\ Conf[a].owner # NoKeystore
        /\ DOMAIN Conf[a].scripts = 1..Len(Conf[a].scripts) /\ Len(Conf[a].scripts) \in Nat \ {0}
        /\ \A i, j \in DOMAIN Conf[a].scripts : Conf[a].scripts[i] = Conf[a].scripts[j] => i = j
        /\ Conf[a].insured => Conf[a].scripts[1] = "p2wpkh"

VARIABLES
    aopp,               \* Backend.aopp
    keystore,           \* Backend.keystore
    plugged,            \* the keystore of the device that is plugged in
    holder,             \* "free", or what the holder of the lock is waiting for
    proof,              \* the last proof that was posted
    panicked            \* the app is gone

aoppVars == <<aopp, keystore, plugged, holder, proof, panicked>>

Keystores == {Conf[a].owner : a \in Accts}

inactive == [state |-> "inactive", callback |-> 0, message |-> 0, coin |-> "", format |-> "",
             accounts |-> {}, code |-> "", script |-> ""]

AoppInit ==
    /\ aopp = inactive
    /\ keystore = NoKeystore /\ plugged = NoKeystore
    /\ holder = "free"
    /\ proof = [callback |-> 0]
    /\ panicked = FALSE

\* An operation of the backend that takes the lock.
Locked == ~panicked /\ holder = "free"

-----------------------------------------------------------------------------
(* Choosing an account *)

\* backend.accounts: those of the keystore, and the ones that are watched.
LoadedAccts == {a \in Accts : Conf[a].owner = keystore \/ Conf[a].watch}

\* FindScriptType: a position in the account's signing configurations, 0 for none.
FindScriptType(a, format) ==
    IF \E i \in DOMAIN Conf[a].scripts : Conf[a].scripts[i] = format
    THEN CHOOSE i \in DOMAIN Conf[a].scripts : Conf[a].scripts[i] = format
    ELSE 0

AnyFormat(request) == request.coin # "btc" \/ request.format = "any"

\* Those of the loaded accounts ks can make the proof with.
Candidates(request, ks) ==
    {a \in Accts : /\ Conf[a].owner = ks
                   /\ Conf[a].coin = request.coin
                   /\ AnyFormat(request) \/ FindScriptType(a, request.format) # 0}

CanSignMessage(ks, coin) == coin = "btc" \/ ks \in SignsETH

\* aoppChooseAccount up to the point where it waits for the sync.
Chosen(request, code) == [request EXCEPT !.state = "syncing", !.code = code]

\* aoppKeystoreRegistered, ks being the registered keystore.  A single
\* candidate is chosen right away.
KeystoreRegistered(request, ks) ==
    LET found == Candidates(request, ks) IN
    IF request.state # "awaiting" THEN request
    ELSE IF ~CanSignMessage(ks, request.coin) \/ found = {} THEN [request EXCEPT !.state = "error"]
    ELSE IF Cardinality(found) = 1
    THEN Chosen([request EXCEPT !.accounts = found], CHOOSE a \in found : TRUE)
    ELSE [request EXCEPT !.state = "choosing", !.accounts = found]

\* The function that changed the state to `request' keeps the lock if it chose an account.
HoldWhile(request) == holder' = IF request.state = "syncing" THEN "syncing" ELSE "free"

-----------------------------------------------------------------------------
(* The frontend and the operating system *)

\* handleAOPP: what is read from the URI before a flaw is found is kept.
Parsed(uri) ==
    [inactive EXCEPT !.state = IF uri.flaw = "" THEN "user-approval" ELSE "error",
                     !.callback = IF uri.flaw \in {"version", "callback"} THEN 0 ELSE uri.id,
                     !.coin = IF uri.flaw \in {"version", "callback", "asset"} THEN "" ELSE uri.coin,
                     !.message = IF uri.flaw = "" THEN uri.id ELSE 0,
                     !.format = IF uri.flaw = "" THEN uri.format ELSE ""]

MayHandle_Posting == ~panicked /\ holder \in {"free", "posting"}
MayHandle == Locked

HandleURI ==
    /\ MayHandle
    /\ \E uri \in URIs : aopp' = Parsed(uri)
    /\ UNCHANGED <<keystore, plugged, holder, proof, panicked>>

AOPPCancel ==
    /\ Locked
    /\ aopp' = inactive
    /\ UNCHANGED <<keystore, plugged, holder, proof, panicked>>

AOPPApprove ==
    /\ Locked /\ aopp.state = "user-approval"
    /\ LET waiting == [aopp EXCEPT !.state = "awaiting"] IN
       IF keystore = NoKeystore
       THEN aopp' = waiting /\ UNCHANGED holder
       ELSE /\ aopp' = KeystoreRegistered(waiting, keystore)
            /\ HoldWhile(KeystoreRegistered(waiting, keystore))
    /\ UNCHANGED <<keystore, plugged, proof, panicked>>

AOPPChooseAccount ==
    /\ Locked /\ aopp.state = "choosing"
    /\ \E code \in aopp.accounts : aopp' = Chosen(aopp, code)
    /\ HoldWhile(aopp')
    /\ UNCHANGED <<keystore, plugged, proof, panicked>>

-----------------------------------------------------------------------------
(* Devices *)

Plug ==
    /\ ~panicked /\ plugged = NoKeystore
    /\ plugged' \in Keystores
    /\ UNCHANGED <<aopp, keystore, holder, proof, panicked>>

Unplug ==
    /\ ~panicked /\ plugged # NoKeystore
    /\ plugged' = NoKeystore
    /\ UNCHANGED <<aopp, keystore, holder, proof, panicked>>

OnRegister(request, ks) == KeystoreRegistered(request, ks)

RegisterKeystoreAOPP ==
    /\ Locked /\ plugged # NoKeystore /\ keystore = NoKeystore
    /\ keystore' = plugged
    /\ aopp' = OnRegister(aopp, plugged)
    /\ HoldWhile(aopp')
    /\ UNCHANGED <<plugged, proof, panicked>>

\* It leaves the request alone: an account of the keystore that is gone can
\* still be chosen.
DeregisterKeystoreAOPP ==
    /\ Locked /\ keystore # NoKeystore /\ plugged # keystore
    /\ keystore' = NoKeystore
    /\ UNCHANGED <<aopp, plugged, holder, proof, panicked>>

-----------------------------------------------------------------------------
(* aoppChooseAccount, after the account was chosen *)

Fail_Silent == aopp
Fail == [aopp EXCEPT !.state = "error"]

ChooseFails ==
    /\ ~panicked /\ holder # "free"
    /\ aopp' = Fail
    /\ holder' = "free"
    /\ UNCHANGED <<keystore, plugged, proof, panicked>>

\* The position of the signing configuration whose address is proved.
ConfigIndex(request) ==
    IF AnyFormat(request) THEN 1 ELSE FindScriptType(request.code, request.format)

\* GetUnusedReceiveAddresses: an insured account has addresses of one type only.
Unused(a) == IF Conf[a].insured THEN <<"p2wpkh">> ELSE Conf[a].scripts

\* The account is synced, and has an unused address at the position of the
\* signing configuration.
Synced ==
    /\ ~panicked /\ holder = "syncing" /\ aopp.code \in LoadedAccts
    /\ LET i == ConfigIndex(aopp) IN
       IF i \notin DOMAIN Unused(aopp.code) \/ keystore = NoKeystore
       THEN panicked' = TRUE /\ UNCHANGED <<aopp, holder>>
       ELSE /\ aopp' = [aopp EXCEPT !.state = "signing", !.script = Unused(aopp.code)[i]]
            /\ holder' = "signing"
            /\ UNCHANGED panicked
    /\ UNCHANGED <<keystore, plugged, proof>>

\* The user confirms on the device, which must be there.
Sign ==
    /\ ~panicked /\ holder = "signing" /\ plugged = keystore
    /\ proof' = [callback |-> 0, message |-> aopp.message, coin |-> Conf[aopp.code].coin,
                 script |-> aopp.script]
    /\ holder' = "posting"
    /\ UNCHANGED <<aopp, keystore, plugged, panicked>>

Post ==
    /\ ~panicked /\ holder = "posting"
    /\ proof' = [proof EXCEPT !.callback = aopp.callback]
    /\ aopp' = [aopp EXCEPT !.state = "success"]
    /\ holder' = "free"
    /\ UNCHANGED <<keystore, plugged, panicked>>

AoppNext ==
    \/ HandleURI \/ AOPPCancel \/ AOPPApprove \/ AOPPChooseAccount
    \/ Plug \/ Unplug \/ RegisterKeystoreAOPP \/ DeregisterKeystoreAOPP
    \/ ChooseFails \/ Synced \/ Sign \/ Post

\* A sync, a signature and a post end one way or another.
AoppFairness == WF_aoppVars(ChooseFails \/ Synced \/ Sign \/ Post)

AoppSpec == AoppInit /\ [][AoppNext]_aoppVars /\ AoppFairness

-----------------------------------------------------------------------------
(* Properties *)

\* What reaches a callback is the proof its request asked for: the message is
\* that of the request (although a newer request may come in at any time), the
\* coin is the coin, and the address has the format of the request.
ProofMatchesRequest ==
    proof.callback # 0 =>
        \E uri \in URIs : /\ uri.id = proof.callback /\ uri.flaw = ""
                          /\ proof.message = uri.id
                          /\ proof.coin = uri.coin
                          /\ uri.coin = "btc" /\ uri.format # "any" => proof.script = uri.format

\* A request does not wait for a keystore that is there: aoppKeystoreRegistered
\* is called both by registerKeystore and by AOPPApprove.
NotAwaitingTheRegistered == aopp.state = "awaiting" => keystore = NoKeystore

\* A request is answered with its own proof, and notices the keystore it waits for.
AoppSound == ProofMatchesRequest /\ NotAwaitingTheRegistered

\* The inductive invariant behind AoppSound: a request that is not over is one of the URIs', an
\* account that is chosen, or may be, fits it, and the lock is held by its own steps only.
Requested(request) ==
    \E uri \in URIs : /\ uri.flaw = "" /\ request.callback = uri.id /\ request.message = uri.id
                      /\ request.coin = uri.coin /\ request.format = uri.format
Fits(a, request) ==
    /\ a \in Accts /\ Conf[a].coin = request.coin
    /\ AnyFormat(request) \/ FindScriptType(a, request.format) # 0
RequestOK(request) ==
    /\ DOMAIN request = DOMAIN inactive
    /\ request.state \notin {"inactive", "error"} => Requested(request)
    /\ request.state = "choosing" => \A a \in request.accounts : Fits(a, request)
    /\ request.state \in {"syncing", "signing"} => Fits(request.code, request)
HolderOK ==
    /\ holder \in {"free", "syncing", "signing", "posting"}
    /\ holder = "syncing" <=> aopp.state = "syncing"
    /\ holder \in {"signing", "posting"} <=> aopp.state = "signing"
    /\ aopp.state = "signing" => AnyFormat(aopp) \/ aopp.script = aopp.format
    /\ holder = "posting" =>
        proof = [callback |-> 0, message |-> aopp.message, coin |-> aopp.coin, script |-> aopp.script]
AoppInv == RequestOK(aopp) /\ HolderOK /\ AoppSound /\ plugged \in Keystores \cup {NoKeystore}

\* A request whose account was chosen comes to an end the frontend shows
\* (aoppSetError or success), whatever is unplugged meanwhile.
ChosenEnds == aopp.state \in {"syncing", "signing"} ~> aopp.state \in {"success", "error"} \/ panicked
=============================================================================
