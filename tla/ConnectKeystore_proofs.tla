------------------------ MODULE ConnectKeystore_proofs ------------------------
(***************************************************************************)
(* Proofs about ConnectKeystore: until a timeout expires every callback    *)
(* has a receiver, and no request ever returns the keystore of another     *)
(* wallet.                                                                 *)
(***************************************************************************)
EXTENDS ConnectKeystore, TLAPS

\* The actions of a request, to split Next by.
LEMMA NextCases ==
    ASSUME Next
    PROVE  \/ \E r \in Requests : \/ Request(r) \/ Keystore(r) \/ AlreadyRunning(r) \/ Replace(r)
                                  \/ Compare(r) \/ SetRetryConnect(r) \/ Done(r)
                                  \/ ReceiveResult(r) \/ ReceiveRetry(r) \/ CtxDone(r) \/ RetryTimeout(r)
           \/ \E i \in installing : Install(i)
           \/ \E k \in Fingerprints : registerKeystore(k)
           \/ DeregisterKeystore \/ onConnect \/ onDisconnect \/ CancelConnectKeystore
  BY DEF Next, Step

-----------------------------------------------------------------------------
\* At the start there is no keystore, no callback and no request.
LEMMA InitIInv == Init => IInv
  BY ConnectAssumption
  DEF Init, IInv, TypeOK, RightKeystore, InTime, CallbacksWait, NotCancelledEarly,
      SendsToCallback, NoRetryTimeout, RetryHasReceiver

-----------------------------------------------------------------------------
\* Every action keeps the types, and a request returns a keystore only after
\* compareRootFingerprint accepted it.
LEMMA TypeStep == IInv /\ [Next]_vars => TypeOK' /\ timeouts' \in Nat /\ RightKeystore'
<1> SUFFICES ASSUME IInv, [Next]_vars
             PROVE  TypeOK' /\ timeouts' \in Nat /\ RightKeystore'
  OBVIOUS
<1>0. TypeOK /\ timeouts \in Nat /\ RightKeystore
  BY DEF IInv
<1> USE <1>0, ConnectAssumption DEF TypeOK, RightKeystore, Goto, Return, Chan
<1>1. CASE UNCHANGED vars
  BY <1>1 DEF vars, ckVars, boundVars
<1>2. ASSUME NEW r \in Requests, Request(r) \/ Keystore(r) \/ AlreadyRunning(r) \/ Done(r) \/ RetryTimeout(r)
      PROVE  TypeOK' /\ timeouts' \in Nat /\ RightKeystore'
  BY <1>2 DEF Request, Keystore, AlreadyRunning, Done, RetryTimeout, ckVars, boundVars
<1>3. ASSUME NEW r \in Requests, Replace(r)
      PROVE  TypeOK' /\ timeouts' \in Nat /\ RightKeystore'
  BY <1>3 DEF Replace, cancel, boundVars
<1>4. ASSUME NEW r \in Requests, Compare(r)
      PROVE  TypeOK' /\ timeouts' \in Nat /\ RightKeystore'
  BY <1>4 DEF Compare, compareRootFingerprint, ckVars, boundVars
<1>5. ASSUME NEW r \in Requests, SetRetryConnect(r)
      PROVE  TypeOK' /\ timeouts' \in Nat /\ RightKeystore'
  BY <1>5 DEF SetRetryConnect, boundVars
<1>6. ASSUME NEW r \in Requests, ReceiveResult(r)
      PROVE  TypeOK' /\ timeouts' \in Nat /\ RightKeystore'
  BY <1>6 DEF ReceiveResult, compareRootFingerprint, boundVars
<1>7. ASSUME NEW r \in Requests, ReceiveRetry(r)
      PROVE  TypeOK' /\ timeouts' \in Nat /\ RightKeystore'
  BY <1>7 DEF ReceiveRetry, boundVars
<1>8. ASSUME NEW r \in Requests, CtxDone(r)
      PROVE  TypeOK' /\ timeouts' \in Nat /\ RightKeystore'
  BY <1>8 DEF CtxDone, ckVars
<1>9. ASSUME NEW i \in installing, Install(i)
      PROVE  TypeOK' /\ timeouts' \in Nat /\ RightKeystore'
  BY <1>9 DEF Install, boundVars
<1>10. ASSUME NEW k \in Fingerprints, registerKeystore(k)
       PROVE  TypeOK' /\ timeouts' \in Nat /\ RightKeystore'
  BY <1>10 DEF registerKeystore, ckVars
<1>11. CASE DeregisterKeystore \/ onConnect \/ onDisconnect
  BY <1>11 DEF DeregisterKeystore, onConnect, onDisconnect, ckVars, boundVars
<1>12. CASE CancelConnectKeystore
  BY <1>12 DEF CancelConnectKeystore, cancel
<1> QED
  BY <1>1, <1>2, <1>3, <1>4, <1>5, <1>6, <1>7, <1>8, <1>9, <1>10, <1>11, <1>12, NextCases

-----------------------------------------------------------------------------
\* A retry callback is installed for a request that is in retryWait, which leaves it
\* only by receiving from that callback, or by a timeout.
LEMMA RetryStep == IInv /\ [Next]_vars => RetryHasReceiver'
<1> SUFFICES ASSUME IInv, [Next]_vars, timeouts' = 0, retryCallback' # None
             PROVE  (\E q \in Requests : pc[q] = "retryWait" /\ retryCallback = Chan(q))'
  BY DEF RetryHasReceiver
<1>0. TypeOK /\ timeouts \in Nat /\ RetryHasReceiver /\ (timeouts = 0 => NoRetryTimeout)
  BY DEF IInv, InTime
<1> USE <1>0, ConnectAssumption DEF TypeOK, RetryHasReceiver, Goto, Return, Chan
<1>1. CASE UNCHANGED vars
  BY <1>1 DEF vars, ckVars, boundVars
<1>2. ASSUME NEW r \in Requests, Request(r) \/ Keystore(r) \/ AlreadyRunning(r) \/ Done(r) \/ RetryTimeout(r)
      PROVE  (\E q \in Requests : pc[q] = "retryWait" /\ retryCallback = Chan(q))'
  BY <1>2 DEF Request, Keystore, AlreadyRunning, Done, RetryTimeout, ckVars, boundVars
<1>3. ASSUME NEW r \in Requests, Replace(r)
      PROVE  (\E q \in Requests : pc[q] = "retryWait" /\ retryCallback = Chan(q))'
  BY <1>3 DEF Replace, cancel, boundVars
<1>4. ASSUME NEW r \in Requests, Compare(r)
      PROVE  (\E q \in Requests : pc[q] = "retryWait" /\ retryCallback = Chan(q))'
  BY <1>4 DEF Compare, ckVars, boundVars
<1>5. ASSUME NEW r \in Requests, SetRetryConnect(r)
      PROVE  (\E q \in Requests : pc[q] = "retryWait" /\ retryCallback = Chan(q))'
  BY <1>5 DEF SetRetryConnect, NoRetryTimeout, boundVars
<1>6. ASSUME NEW r \in Requests, ReceiveResult(r)
      PROVE  (\E q \in Requests : pc[q] = "retryWait" /\ retryCallback = Chan(q))'
  BY <1>6 DEF ReceiveResult, boundVars
<1>7. ASSUME NEW r \in Requests, ReceiveRetry(r)
      PROVE  (\E q \in Requests : pc[q] = "retryWait" /\ retryCallback = Chan(q))'
  BY <1>7 DEF ReceiveRetry
<1>8. ASSUME NEW r \in Requests, CtxDone(r)
      PROVE  (\E q \in Requests : pc[q] = "retryWait" /\ retryCallback = Chan(q))'
  BY <1>8 DEF CtxDone, ckVars
<1>9. ASSUME NEW i \in installing, Install(i)
      PROVE  (\E q \in Requests : pc[q] = "retryWait" /\ retryCallback = Chan(q))'
  BY <1>9 DEF Install, boundVars
<1>10. ASSUME NEW k \in Fingerprints, registerKeystore(k)
       PROVE  (\E q \in Requests : pc[q] = "retryWait" /\ retryCallback = Chan(q))'
  BY <1>10 DEF registerKeystore, ckVars
<1>11. CASE DeregisterKeystore \/ onConnect \/ onDisconnect
  BY <1>11 DEF DeregisterKeystore, onConnect, onDisconnect, ckVars, boundVars
<1>12. CASE CancelConnectKeystore
  BY <1>12 DEF CancelConnectKeystore, cancel
<1> QED
  BY <1>1, <1>2, <1>3, <1>4, <1>5, <1>6, <1>7, <1>8, <1>9, <1>10, <1>11, <1>12, NextCases

-----------------------------------------------------------------------------
\* cancel, of a new request or of the user: the cancelled call loses its callback, and
\* no other call is touched.
LEMMA CancelInTime ==
    ASSUME TypeOK, InTime, NEW agent, agent # "usb", NEW cause, cancel(agent, cause),
           UNCHANGED <<usb, connects, installing>>,
           \A r \in Requests : /\ pc'[r] = "select" <=> pc[r] = "select"
                               /\ pc'[r] # "retryTimeout"
                               /\ pc'[r] \in {"connect", "replace", "compare"}
                                     => pc[r] \in {"connect", "replace", "compare"}
    PROVE  InTime'
<1> USE ConnectAssumption DEF TypeOK, InTime, Chan, LockFree, cancel
<1>1. ASSUME NEW r \in Requests, ctx'[r] # ctx[r]
      PROVE  cancelFunc # None /\ cancelFunc = Chan(r)
  BY <1>1
<1>2. CallbacksWait'
  <2>1. cancelFunc' = connectKeystoreCallback' /\ connectKeystoreCallback' = None
    BY DEF CallbacksWait
  <2>2. None \notin installing
    OBVIOUS
  <2>3. ASSUME NEW i \in installing PROVE Waits(i)'
    <3>1. PICK r \in Requests : i = Chan(r) /\ pc[r] = "select" /\ ctx[r] = "none"
      BY DEF CallbacksWait, Waits
    <3>2. cancelFunc # Chan(r)
      BY <3>1 DEF CallbacksWait
    <3> QED
      BY <1>1, <3>1, <3>2 DEF Waits
  <2> QED
    BY <2>1, <2>2, <2>3 DEF CallbacksWait
<1>3. NotCancelledEarly'
  <2> SUFFICES ASSUME NEW r \in Requests, pc'[r] \in {"connect", "replace", "compare"}
               PROVE  ctx'[r] = "none"
    BY DEF NotCancelledEarly
  <2>1. pc[r] \in {"connect", "replace", "compare"} /\ ctx[r] = "none"
    BY DEF NotCancelledEarly
  <2>2. ~(cancelFunc # None /\ cancelFunc = Chan(r))
    BY <2>1 DEF CallbacksWait, Waits
  <2> QED
    BY <1>1, <2>1, <2>2
<1>4. SendsToCallback'
  BY DEF SendsToCallback
<1>5. NoRetryTimeout'
  BY DEF NoRetryTimeout
<1> QED
  BY <1>2, <1>3, <1>4, <1>5

\* A step of one request that leaves the callbacks and the lock alone keeps InTime, unless
\* the request leaves its select with a callback that is installed or will be.
LEMMA QuietInTime ==
    ASSUME TypeOK, InTime,
           UNCHANGED <<connectKeystoreCallback, cancelFunc, sender, usb, installing>>,
           NEW r \in Requests, NEW l, l # "retryTimeout", pc' = [pc EXCEPT ![r] = l],
           \A q \in Requests \ {r} : ctx'[q] = ctx[q] /\ connects'[q] = connects[q],
           l \in {"connect", "replace", "compare"} => ctx'[r] = "none",
           pc[r] = "select" => ctx[r] # "none"
    PROVE  InTime'
<1> USE ConnectAssumption DEF TypeOK, InTime, Chan
<1>1. ASSUME NEW i, Waits(i) PROVE Waits(i)'
  BY <1>1 DEF Waits
<1>2. CallbacksWait'
  BY <1>1 DEF CallbacksWait
<1> QED
  BY <1>2 DEF NotCancelledEarly, SendsToCallback, NoRetryTimeout

\* Until a timeout expires, calls of connect and callbacks stay in step.
LEMMA InTimeStep == IInv /\ [Next]_vars /\ timeouts' = 0 => InTime'
<1> SUFFICES ASSUME IInv, [Next]_vars, timeouts' = 0
             PROVE  InTime'
  OBVIOUS
<1>0. TypeOK /\ timeouts \in Nat /\ (timeouts = 0 => InTime)
  BY DEF IInv
<1> USE <1>0, ConnectAssumption
<1>1. CASE UNCHANGED vars
  BY <1>1 DEF vars, ckVars, boundVars, InTime, CallbacksWait, Waits, Chan, NotCancelledEarly,
              SendsToCallback, NoRetryTimeout
<1>2. ASSUME NEW r \in Requests, Request(r) PROVE InTime'
  <2>1. timeouts = 0 /\ UNCHANGED <<ckVars, usb, installing, ctx, connects>>
        /\ pc' = [pc EXCEPT ![r] = "prompt"] /\ pc[r] = "idle"
    BY <1>2 DEF Request, Goto, boundVars
  <2> QED
    BY <2>1, QuietInTime DEF ckVars
<1>3. ASSUME NEW r \in Requests, Keystore(r) PROVE InTime'
  <2>1. timeouts = 0 /\ UNCHANGED <<ckVars, usb, installing>>
        /\ pc' = [pc EXCEPT ![r] = "connect"] /\ pc[r] = "prompt"
        /\ ctx' = [ctx EXCEPT ![r] = "none"] /\ connects' = [connects EXCEPT ![r] = @ + 1]
    BY <1>3 DEF Keystore, Goto, boundVars
  <2> QED
    BY <2>1, QuietInTime DEF ckVars, TypeOK
<1>4. ASSUME NEW r \in Requests, AlreadyRunning(r) PROVE InTime'
  <2>1. timeouts = 0 /\ UNCHANGED <<ckVars, usb, installing, ctx, connects>>
    BY <1>4 DEF AlreadyRunning, boundVars
  <2>2. PICK l \in {"replace", "compare"} : pc' = [pc EXCEPT ![r] = l]
    BY <1>4 DEF AlreadyRunning, Goto
  <2>3. pc[r] = "connect" /\ ctx[r] = "none"
    BY <1>4, <2>1 DEF AlreadyRunning, InTime, NotCancelledEarly
  <2> QED
    BY <2>1, <2>2, <2>3, QuietInTime DEF ckVars
<1>5. ASSUME NEW r \in Requests, Replace(r) PROVE InTime'
  <2>1. timeouts = 0 /\ cancel(r, "replaced") /\ UNCHANGED <<usb, connects, installing>>
        /\ pc' = [pc EXCEPT ![r] = "compare"] /\ pc[r] = "replace"
    BY <1>5 DEF Replace, Goto, boundVars
  <2>2. NoRetryTimeout
    BY <2>1 DEF InTime
  <2> QED
    BY <2>1, <2>2, CancelInTime DEF TypeOK, NoRetryTimeout
<1>6. ASSUME NEW r \in Requests, Compare(r) PROVE InTime'
  <2>1. timeouts = 0 /\ UNCHANGED <<ckVars, usb, ctx, connects>> /\ pc[r] = "compare" /\ ctx[r] = "none"
    BY <1>6 DEF Compare, boundVars, InTime, NotCancelledEarly
  <2>2. CASE UNCHANGED installing
    <3>1. PICK l \in {"return", "wrong", "select"} : pc' = [pc EXCEPT ![r] = l]
      BY <1>6 DEF Compare, Goto, Return
    <3> QED
      BY <2>1, <2>2, <3>1, QuietInTime DEF ckVars
  <2>3. CASE installing' = installing \cup {Chan(r)} /\ pc' = [pc EXCEPT ![r] = "select"]
    <3>1. Waits(Chan(r))'
      BY <2>1, <2>3 DEF Waits, Chan, TypeOK
    <3>2. ASSUME NEW i, Waits(i) PROVE Waits(i)' /\ i # Chan(r)
      BY <2>1, <2>3, <3>2 DEF Waits, Chan, TypeOK
    <3>3. connectKeystoreCallback \notin installing'
      BY <2>1, <2>3, <3>2 DEF InTime, CallbacksWait, Chan, TypeOK
    <3>4. CallbacksWait'
      BY <2>1, <2>3, <3>1, <3>2, <3>3 DEF InTime, CallbacksWait, Chan, ckVars
    <3> QED
      BY <2>1, <2>3, <3>4 DEF InTime, NotCancelledEarly, SendsToCallback, NoRetryTimeout, ckVars, TypeOK
  <2> QED
    BY <1>6, <2>2, <2>3 DEF Compare, Goto
<1>7. ASSUME NEW r \in Requests, SetRetryConnect(r) PROVE InTime'
  <2>1. timeouts = 0 /\ UNCHANGED <<connectKeystoreCallback, cancelFunc, sender, usb, installing, ctx, connects>>
    BY <1>7 DEF SetRetryConnect, boundVars
  <2>2. pc[r] = "wrong" /\ pc' = [pc EXCEPT ![r] = "retryWait"]
    BY <1>7, <2>1 DEF SetRetryConnect, Goto, InTime, NoRetryTimeout
  <2> QED
    BY <2>1, <2>2, QuietInTime
<1>8. ASSUME NEW r \in Requests, Done(r) PROVE InTime'
  <2>1. timeouts = 0 /\ UNCHANGED <<ckVars, usb, installing, ctx, connects>>
        /\ pc' = [pc EXCEPT ![r] = "idle"] /\ pc[r] = "return"
    BY <1>8 DEF Done, Goto, boundVars
  <2> QED
    BY <2>1, QuietInTime DEF ckVars
<1>9. ASSUME NEW r \in Requests, CtxDone(r) PROVE InTime'
  <2>1. timeouts = 0 /\ ctx[r] # "none" /\ pc' = [pc EXCEPT ![r] = "return"]
        /\ UNCHANGED <<ckVars, usb, installing, ctx, connects>>
    BY <1>9 DEF CtxDone, Return, Goto
  <2> QED
    BY <2>1, QuietInTime DEF ckVars
<1>10. ASSUME NEW r \in Requests, RetryTimeout(r) PROVE FALSE
  BY <1>10 DEF RetryTimeout
<1>11. ASSUME NEW r \in Requests, ReceiveResult(r) PROVE InTime'
  <2>1. timeouts = 0 /\ InTime /\ UNCHANGED <<installing, ctx, connects>>
        /\ connectKeystoreCallback' = None /\ cancelFunc' = None /\ sender' = NoSender
    BY <1>11 DEF ReceiveResult, boundVars
  <2>2. PICK l \in {"return", "wrong"} : pc' = [pc EXCEPT ![r] = l]
    BY <1>11 DEF ReceiveResult, Return, Goto
  <2>3. connectKeystoreCallback = Chan(r)
    BY <1>11, <2>1 DEF ReceiveResult, LockFree, InTime, SendsToCallback
  <2>4. ASSUME NEW i \in installing PROVE Waits(i)' /\ i # None
    BY <2>1, <2>2, <2>3 DEF InTime, CallbacksWait, Waits, Chan, TypeOK
  <2> QED
    BY <2>1, <2>2, <2>4 DEF InTime, CallbacksWait, NotCancelledEarly, SendsToCallback, NoRetryTimeout, TypeOK
<1>12. ASSUME NEW r \in Requests, ReceiveRetry(r) PROVE InTime'
  <2>1. timeouts = 0 /\ InTime /\ UNCHANGED <<connectKeystoreCallback, cancelFunc, installing, ctx, connects>>
        /\ sender' = NoSender /\ pc[r] = "retryWait"
    BY <1>12 DEF ReceiveRetry, boundVars
  <2>2. PICK l \in {"return", "prompt"} : pc' = [pc EXCEPT ![r] = l]
    BY <1>12 DEF ReceiveRetry, Return, Goto
  <2>3. ASSUME NEW i, Waits(i) PROVE Waits(i)'
    BY <2>1, <2>2, <2>3 DEF Waits, Chan, TypeOK
  <2> QED
    BY <2>1, <2>2, <2>3 DEF InTime, CallbacksWait, NotCancelledEarly, SendsToCallback, NoRetryTimeout, TypeOK
<1>13. ASSUME NEW i \in installing, Install(i) PROVE InTime'
  <2>1. timeouts = 0 /\ InTime /\ UNCHANGED <<usb, sender, pc, ctx, connects>> /\ sender = NoSender
        /\ installing' = installing \ {i} /\ connectKeystoreCallback' = i /\ cancelFunc' = i
    BY <1>13 DEF Install, LockFree, boundVars
  <2>2. ASSUME NEW j \in installing PROVE Waits(j)'
    BY <2>1 DEF InTime, CallbacksWait, Waits, Chan
  <2> QED
    BY <2>1, <2>2 DEF InTime, CallbacksWait, NotCancelledEarly, SendsToCallback, NoRetryTimeout
<1>14. CASE \/ \E k \in Fingerprints : registerKeystore(k)
            \/ DeregisterKeystore \/ onConnect \/ onDisconnect
  <2>1. timeouts = 0 /\ InTime
        /\ UNCHANGED <<connectKeystoreCallback, cancelFunc, installing, pc, ctx, connects>>
    BY <1>14 DEF registerKeystore, DeregisterKeystore, onConnect, onDisconnect, ckVars, boundVars
  <2>2. SendsToCallback'
    BY <1>14, <2>1 DEF registerKeystore, DeregisterKeystore, onConnect, onDisconnect, ckVars, LockFree,
                       InTime, SendsToCallback
  <2> QED
    BY <2>1, <2>2 DEF InTime, CallbacksWait, Waits, Chan, NotCancelledEarly, NoRetryTimeout
<1>15. CASE CancelConnectKeystore
  <2>1. timeouts = 0 /\ InTime /\ cancel("ui", "abort") /\ UNCHANGED <<usb, connects, installing, pc>>
    BY <1>15 DEF CancelConnectKeystore
  <2>2. NoRetryTimeout
    BY <2>1 DEF InTime
  <2> QED
    BY <2>1, <2>2, CancelInTime DEF NoRetryTimeout
<1> QED
  BY <1>1, <1>2, <1>3, <1>4, <1>5, <1>6, <1>7, <1>8, <1>9, <1>10, <1>11, <1>12, <1>13, <1>14, <1>15, NextCases

-----------------------------------------------------------------------------
\* The inductive invariant, for any requests, wallets and numbers of events.
THEOREM ConnectInvariance == Spec => []IInv
<1>1. IInv /\ [Next]_vars => IInv'
  BY TypeStep, RetryStep, InTimeStep DEF IInv
<1> QED
  BY <1>1, InitIInv, PTL DEF Spec

\* No request ever returns the keystore of another wallet.
THEOREM RightKeystoreHolds == Spec => []RightKeystore
<1>1. IInv => RightKeystore
  BY DEF IInv
<1> QED
  BY <1>1, ConnectInvariance, PTL

\* Until a timeout expires, onConnect sends to a request that is in its select, and
\* onDisconnect and cancel to one that waits for a retry.
THEOREM SendersHaveReceiverHolds == Spec => []SendersHaveReceiver
<1>1. IInv => SendersHaveReceiver
  BY DEF IInv, InTime, CallbacksWait, Waits, SendersHaveReceiver, CallbackHasReceiver
<1> QED
  BY ConnectInvariance, <1>1, PTL

\* Requests, callbacks and answers keep their types.
THEOREM ConnectTypeCorrect == Spec => []TypeOK
<1>1. IInv => TypeOK
  BY DEF IInv
<1> QED
  BY <1>1, ConnectInvariance, PTL
=============================================================================
