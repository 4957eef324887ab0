--------------------------- MODULE ConnectKeystore ---------------------------
(***************************************************************************)
(* Waiting for the user to plug in the right keystore: connectKeystore     *)
(* (backend/connectkeystore.go), the loop around it that an account runs   *)
(* to sign or to show an address (AccountConfig.ConnectKeystore in         *)
(* backend/accounts.go), and the three sources of events it waits for:     *)
(* registerKeystore and DeregisterKeystore on the USB goroutine, and       *)
(* CancelConnectKeystore.                                                  *)
(*                                                                         *)
(* registerKeystore and DeregisterKeystore hold accountsAndKeystoreLock    *)
(* while usb # "idle".  Every critical section of connectKeystore's own    *)
(* lock is one step, except that a callback sends on an unbuffered channel *)
(* with the lock held: the lock is taken exactly while sender # NoSender.  *)
(***************************************************************************)
EXTENDS Integers, FiniteSets

CONSTANTS
    Requests,       \* calls of ConnectKeystore that may run at the same time
    Fingerprints, Wanted,   \* [Requests -> Fingerprints]
    None, NoSender,
    MaxConnects,    \* bound: [Requests -> Nat], calls of connect() by a request
    MaxChanges,     \* bound: keystores registered
    MaxCancels,     \* bound: calls of CancelConnectKeystore
    MaxTimeouts     \* bound: timeouts of 20 minutes that expire

ASSUME ConnectAssumption ==
    /\ Wanted \in [Requests -> Fingerprints]
    /\ None \notin Fingerprints \cup (Requests \X Nat)
    /\ "usb" \notin Requests
    /\ Fingerprints \cap {"none", "replaced", "abort", "timeout"} = {}

VARIABLES
    keystore,       \* backend.keystore, by its root fingerprint
    usb,            \* "idle", "register" or "deregister"
    \* connectKeystore; a channel is named by its request and its connect() call
    connectKeystoreCallback, cancelFunc, retryCallback,
    sender,         \* who is in a callback's send
    \* the requests
    pc, currentKeystore,
    connects,       \* number of the current call of connect()
    ctx,            \* "none" or the cause the context was cancelled with
    installing,     \* goroutines that are to install the callback of a call
    answer,         \* what ConnectKeystore returns: a keystore or an error
    changes, cancels, timeouts

ckVars == <<connectKeystoreCallback, cancelFunc, retryCallback, sender>>
boundVars == <<changes, cancels, timeouts>>
vars == <<keystore, usb, ckVars, pc, currentKeystore, connects, ctx, installing,
          answer, boundVars>>

Chan(r) == <<r, connects[r]>>
LockFree == sender = NoSender

TypeOK ==
    /\ keystore \in Fingerprints \cup {None}
    /\ usb \in {"idle", "register", "deregister"}
    /\ {connectKeystoreCallback, cancelFunc, retryCallback} \subseteq (Requests \X Nat) \cup {None}
    /\ pc \in [Requests -> {"idle", "prompt", "connect", "replace", "compare", "select",
                            "wrong", "retryWait", "retryTimeout", "return"}]
    /\ currentKeystore \in [Requests -> Fingerprints \cup {None}]
    /\ connects \in [Requests -> Nat]
    /\ ctx \in [Requests -> {"none", "replaced", "abort"}]
    /\ installing \subseteq Requests \X Nat
    /\ answer \in [Requests -> Fingerprints \cup {"none", "replaced", "abort", "timeout"}]

Init ==
    /\ keystore = None /\ usb = "idle"
    /\ connectKeystoreCallback = None /\ cancelFunc = None /\ retryCallback = None
    /\ sender = NoSender
    /\ pc = [r \in Requests |-> "idle"]
    /\ currentKeystore = [r \in Requests |-> None]
    /\ connects = [r \in Requests |-> 0]
    /\ ctx = [r \in Requests |-> "none"]
    /\ installing = {}
    /\ answer = [r \in Requests |-> "none"]
    /\ changes = 0 /\ cancels = 0 /\ timeouts = 0

Goto(r, l) == pc' = [pc EXCEPT ![r] = l]
Return(r, a) == Goto(r, "return") /\ answer' = [answer EXCEPT ![r] = a]

-----------------------------------------------------------------------------
\* An account calls ConnectKeystore: the prompt is shown.
Request(r) ==
    /\ pc[r] = "idle"
    /\ Goto(r, "prompt")
    /\ answer' = [answer EXCEPT ![r] = "none"]
    /\ UNCHANGED <<keystore, usb, ckVars, currentKeystore, connects, ctx, installing, boundVars>>

\* backend.Keystore(), the argument of connect().
Keystore(r) ==
    /\ pc[r] = "prompt" /\ connects[r] < MaxConnects[r]
    /\ usb = "idle"
    /\ currentKeystore' = [currentKeystore EXCEPT ![r] = keystore]
    /\ connects' = [connects EXCEPT ![r] = @ + 1]
    /\ ctx' = [ctx EXCEPT ![r] = "none"]
    /\ Goto(r, "connect")
    /\ UNCHANGED <<keystore, usb, ckVars, installing, answer, boundVars>>

\* connect: is another call running?
AlreadyRunning(r) ==
    /\ pc[r] = "connect" /\ LockFree
    /\ Goto(r, IF connectKeystoreCallback # None THEN "replace" ELSE "compare")
    /\ UNCHANGED <<keystore, usb, ckVars, currentKeystore, connects, ctx, installing, answer, boundVars>>

\* cancel(cause), up to retryCallback(false).
cancel_KeepsCallback(agent, cause) ==
    /\ LockFree
    /\ cancelFunc' = None
    /\ ctx' = IF cancelFunc = None THEN ctx
              ELSE [r \in Requests |-> IF cancelFunc = Chan(r) /\ ctx[r] = "none" THEN cause ELSE ctx[r]]
    /\ sender' = IF retryCallback = None THEN NoSender
                 ELSE [by |-> agent, to |-> retryCallback, retry |-> FALSE]
    /\ UNCHANGED <<connectKeystoreCallback, retryCallback>>
cancel(agent, cause) ==
    /\ LockFree
    /\ cancelFunc' = None
    /\ connectKeystoreCallback' = IF cancelFunc = None THEN connectKeystoreCallback ELSE None
    /\ ctx' = IF cancelFunc = None THEN ctx
              ELSE [r \in Requests |-> IF cancelFunc = Chan(r) /\ ctx[r] = "none" THEN cause ELSE ctx[r]]
    /\ sender' = IF retryCallback = None THEN NoSender
                 ELSE [by |-> agent, to |-> retryCallback, retry |-> FALSE]
    /\ UNCHANGED retryCallback

\* "new prompt takes precedence"
Replace(r) ==
    /\ pc[r] = "replace"
    /\ cancel(r, "replaced")
    /\ Goto(r, "compare")
    /\ UNCHANGED <<keystore, usb, currentKeystore, connects, installing, answer, boundVars>>

\* The rest of connect, up to the select.
compareRootFingerprint_Any(r, k) == TRUE
compareRootFingerprint(r, k) == k = Wanted[r]
Compare(r) ==
    /\ pc[r] = "compare" /\ (sender # NoSender => sender.by # r)
    /\ LET k == currentKeystore[r] IN
       \/ k # None /\ compareRootFingerprint(r, k) /\ Return(r, k) /\ UNCHANGED installing
       \/ k # None /\ ~compareRootFingerprint(r, k) /\ Goto(r, "wrong") /\ UNCHANGED <<answer, installing>>
       \/ k = None /\ Goto(r, "select") /\ installing' = installing \cup {Chan(r)} /\ UNCHANGED answer
    /\ UNCHANGED <<keystore, usb, ckVars, currentKeystore, connects, ctx, boundVars>>

\* The goroutine that installs the callback.
Install(i) ==
    /\ LockFree
    /\ installing' = installing \ {i}
    /\ connectKeystoreCallback' = i
    /\ cancelFunc' = i
    /\ UNCHANGED <<keystore, usb, retryCallback, sender, pc, currentKeystore, connects, ctx, answer, boundVars>>

\* case <-ctx.Done(), by cancel() or by the timeout.
CtxDone(r) ==
    /\ pc[r] = "select"
    /\ \/ ctx[r] # "none" /\ Return(r, ctx[r]) /\ UNCHANGED timeouts
       \/ /\ timeouts < MaxTimeouts
          /\ timeouts' = timeouts + 1
          /\ Return(r, "timeout")
    /\ UNCHANGED <<keystore, usb, ckVars, currentKeystore, connects, ctx, installing, changes, cancels>>

\* ErrWrongKeystore: wait for another keystore.
SetRetryConnect(r) ==
    /\ LockFree
    /\ \/ pc[r] = "wrong" /\ retryCallback' = Chan(r) /\ Goto(r, "retryWait") /\ UNCHANGED answer
       \/ pc[r] = "retryTimeout" /\ retryCallback' = None /\ Return(r, "timeout")
    /\ UNCHANGED <<keystore, usb, connectKeystoreCallback, cancelFunc, sender, currentKeystore>>
    /\ UNCHANGED <<connects, ctx, installing, boundVars>>

\* case <-time.After(timeout)
RetryTimeout(r) ==
    /\ pc[r] = "retryWait" /\ timeouts < MaxTimeouts
    /\ timeouts' = timeouts + 1
    /\ Goto(r, "retryTimeout")
    /\ UNCHANGED <<keystore, usb, ckVars, currentKeystore, connects, ctx, installing, answer, changes, cancels>>

\* ConnectKeystore returns, after a last notification.
Done(r) ==
    /\ pc[r] = "return"
    /\ Goto(r, "idle")
    /\ UNCHANGED <<keystore, usb, ckVars, currentKeystore, connects, ctx, installing, answer, boundVars>>

-----------------------------------------------------------------------------
\* registerKeystore up to onConnect; DeregisterKeystore up to onDisconnect.
registerKeystore(k) ==
    /\ usb = "idle" /\ changes < MaxChanges
    /\ changes' = changes + 1
    /\ usb' = "register" /\ keystore' = k
    /\ UNCHANGED <<ckVars, pc, currentKeystore, connects, ctx, installing, answer, cancels, timeouts>>

DeregisterKeystore ==
    /\ usb = "idle" /\ keystore # None
    /\ usb' = "deregister" /\ keystore' = None
    /\ UNCHANGED <<ckVars, pc, currentKeystore, connects, ctx, installing, answer, boundVars>>

\* onConnect: with a callback, its send; otherwise registerKeystore returns.
onConnect ==
    /\ usb = "register" /\ LockFree
    /\ IF connectKeystoreCallback = None
       THEN usb' = "idle" /\ UNCHANGED sender
       ELSE UNCHANGED usb /\ sender' = [by |-> "usb", to |-> connectKeystoreCallback]
    /\ UNCHANGED <<connectKeystoreCallback, cancelFunc, retryCallback>>
    /\ UNCHANGED <<keystore, pc, currentKeystore, connects, ctx, installing, answer, boundVars>>

onDisconnect ==
    /\ usb = "deregister" /\ LockFree
    /\ IF retryCallback = None
       THEN usb' = "idle" /\ UNCHANGED sender
       ELSE UNCHANGED usb /\ sender' = [by |-> "usb", to |-> retryCallback, retry |-> TRUE]
    /\ UNCHANGED <<connectKeystoreCallback, cancelFunc, retryCallback>>
    /\ UNCHANGED <<keystore, pc, currentKeystore, connects, ctx, installing, answer, boundVars>>

CancelConnectKeystore ==
    /\ cancels < MaxCancels
    /\ cancels' = cancels + 1
    /\ cancel("ui", "abort")
    /\ UNCHANGED <<keystore, usb, pc, currentKeystore, connects, installing, answer, changes, timeouts>>

\* The request receives from the channel, the sender clears the callback and
\* releases the lock.
ReceiveResult(r) ==
    /\ ~LockFree /\ sender.by = "usb" /\ usb = "register"
    /\ pc[r] = "select" /\ sender.to = Chan(r)
    /\ IF compareRootFingerprint(r, keystore) THEN Return(r, keystore)
       ELSE Goto(r, "wrong") /\ UNCHANGED answer
    /\ connectKeystoreCallback' = None /\ cancelFunc' = None
    /\ sender' = NoSender /\ usb' = "idle"
    /\ UNCHANGED <<keystore, retryCallback, currentKeystore, connects, ctx, installing, boundVars>>

ReceiveRetry_KeepsCallback(r) ==
    /\ ~LockFree /\ (sender.by = "usb" => usb = "deregister")
    /\ pc[r] = "retryWait" /\ sender.to = Chan(r)
    /\ IF sender.retry THEN Goto(r, "prompt") /\ UNCHANGED answer ELSE Return(r, "abort")
    /\ sender' = NoSender
    /\ usb' = IF sender.by = "usb" THEN "idle" ELSE usb
    /\ UNCHANGED <<keystore, connectKeystoreCallback, cancelFunc, retryCallback>>
    /\ UNCHANGED <<currentKeystore, connects, ctx, installing, boundVars>>
ReceiveRetry(r) ==
    /\ ~LockFree /\ (sender.by = "usb" => usb = "deregister")
    /\ pc[r] = "retryWait" /\ sender.to = Chan(r)
    /\ IF sender.retry THEN Goto(r, "prompt") /\ UNCHANGED answer ELSE Return(r, "abort")
    /\ retryCallback' = None
    /\ sender' = NoSender
    /\ usb' = IF sender.by = "usb" THEN "idle" ELSE usb
    /\ UNCHANGED <<keystore, connectKeystoreCallback, cancelFunc>>
    /\ UNCHANGED <<currentKeystore, connects, ctx, installing, boundVars>>

Step(r) ==
    \/ Keystore(r) \/ AlreadyRunning(r) \/ Replace(r) \/ Compare(r)
    \/ SetRetryConnect(r) \/ Done(r) \/ ReceiveResult(r) \/ ReceiveRetry(r)

Next ==
    \/ \E r \in Requests : Request(r) \/ Step(r) \/ CtxDone(r) \/ RetryTimeout(r)
    \/ \E i \in installing : Install(i)
    \/ \E k \in Fingerprints : registerKeystore(k)
    \/ DeregisterKeystore
    \/ onConnect
    \/ onDisconnect
    \/ CancelConnectKeystore

\* Goroutines run, and the mutexes are fair enough that a goroutine which waits
\* for one that is free again and again gets it (sync.Mutex starvation mode);
\* nobody has to plug in a keystore or cancel, and no timeout has to expire.
Fairness ==
    /\ \A r \in Requests : SF_vars(Step(r)) /\ WF_vars(ctx[r] # "none" /\ CtxDone(r))
    /\ SF_vars(\E i \in installing : Install(i))
    /\ SF_vars(onConnect)
    /\ SF_vars(onDisconnect)

Spec == Init /\ [][Next]_vars
FairSpec == Spec /\ Fairness

-----------------------------------------------------------------------------
\* As long as no timeout has expired, a callback that is installed has a receiver:
\* onConnect, which sends to it with both locks held, is not left alone.  The same
\* holds of the context.
CallbackHasReceiver ==
    timeouts = 0 =>
        /\ cancelFunc = connectKeystoreCallback
        /\ connectKeystoreCallback # None =>
            \E r \in Requests : pc[r] = "select" /\ connectKeystoreCallback = Chan(r)

\* So has a retry callback: onDisconnect and cancel do not wait for ever.
RetryHasReceiver ==
    timeouts = 0 /\ retryCallback # None =>
        \E r \in Requests : pc[r] = "retryWait" /\ retryCallback = Chan(r)

\* Nobody sends, with locks held, to a request that has given up.
SendersHaveReceiver == CallbackHasReceiver /\ RetryHasReceiver

\* ConnectKeystore never returns a keystore of another wallet.
RightKeystore == \A r \in Requests : answer[r] \in Fingerprints => answer[r] = Wanted[r]

\* Registering or deregistering a keystore comes to an end, so that
\* accountsAndKeystoreLock is released, unless a timeout expires.
UsbReturnsInTime == usb # "idle" ~> (usb = "idle" \/ timeouts > 0)

-----------------------------------------------------------------------------
Quiet == usb = "idle" /\ LockFree /\ installing = {} /\ \A r \in Requests : ctx[r] = "none"

\* "Only one such call is supported at once. If another call is aleady ongoing,
\* `errReplaced` is returned."
OneAtATime == Quiet => Cardinality({r \in Requests : pc[r] = "select"}) <= 1

\* "connect blocks until the keystore with the given rootFingerprint is connected
\* and then returns that keystore."
NotBlockedWhenConnected ==
    Quiet => \A r \in Requests : pc[r] = "select" => keystore # Wanted[r]

\* "It will resolve a pending call to `connect()`": registerKeystore, which calls
\* onConnect with accountsAndKeystoreLock held, always comes to an end.
UsbReturns == usb # "idle" ~> usb = "idle"

-----------------------------------------------------------------------------
(* The inductive invariant behind CallbackHasReceiver and RetryHasReceiver.  *)

\* The call that a channel belongs to waits in its select, and was not cancelled.
Waits(i) == \E r \in Requests : i = Chan(r) /\ pc[r] = "select" /\ ctx[r] = "none"

\* A callback, installed or still to be installed, belongs to a waiting call, and no
\* goroutine will install the one that is there once more.
CallbacksWait ==
    /\ cancelFunc = connectKeystoreCallback
    /\ connectKeystoreCallback # None => Waits(connectKeystoreCallback)
    /\ connectKeystoreCallback \notin installing
    /\ \A i \in installing : Waits(i)

\* Nobody cancels a call before its callback is installed.
NotCancelledEarly ==
    \A r \in Requests : pc[r] \in {"connect", "replace", "compare"} => ctx[r] = "none"

\* The USB goroutine sends from within registerKeystore or DeregisterKeystore, and the
\* former to the callback that is installed.
SendsToCallback ==
    sender # NoSender /\ sender.by = "usb" =>
        /\ usb # "idle"
        /\ usb = "register" => sender.to = connectKeystoreCallback

NoRetryTimeout == \A r \in Requests : pc[r] # "retryTimeout"

InTime == CallbacksWait /\ NotCancelledEarly /\ SendsToCallback /\ NoRetryTimeout
IInv ==
    /\ TypeOK
    /\ timeouts \in Nat
    /\ RightKeystore
    /\ timeouts = 0 => InTime
    /\ RetryHasReceiver
=============================================================================
