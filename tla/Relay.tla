-------------------------------- MODULE Relay --------------------------------
(***************************************************************************)
(* The BitBox01 and the mobile app it is paired with: the channel through  *)
(* the relay server (backend/devices/bitbox/relay), pairing (pairing.go),  *)
(* listening for the mobile, and signing with its confirmation             *)
(* (device.go).                                                            *)
(*                                                                         *)
(* Goroutines share a channel: whoever pulls a message that another one    *)
(* waits for puts it into the channel's buffer.  The user makes one        *)
(* request at a time ("It is not safe for concurrent use"), but pairing   *)
(* and listening go on in the background.  Contents of messages are left   *)
(* out except for what the desktop decides on; the mobile, the relay       *)
(* server and the device are external.                                     *)
(***************************************************************************)
EXTENDS Integers, Sequences, SequencesExt, FiniteSets, FiniteSetsExt

CONSTANTS
    Chans, Nil,         \* channels; nil
    Inputs,             \* signature hashes of a transaction
    BatchSize,          \* signatureBatchSize, 15
    MaxPings,           \* bound: pings of the mobile
    MaxSigned,          \* bound: transactions to sign
    MaxTroubles         \* bound: failures

ASSUME RelayAssumption == Nil \notin Chans /\ Inputs \in Nat /\ BatchSize \in Nat \ {0}

VARIABLES
    channel,            \* Device.channel
    file,               \* the channel in channel.json
    stopped,            \* Device.closed
    server,             \* messages from the mobile on the relay server, by channel
    buffer,             \* messageBuffer, by channel
    wait,               \* the goroutines in waitForValue
    pairing,            \* goroutines in processPairing: the stage of each, by channel
    listening,          \* goroutines in listenForMobile
    fresh,              \* channels that no pairing has used yet
    sign,               \* the transaction that is being signed
    due,                \* how many messages of the mobile no waiter was given yet, by channel
    pings, signed, trouble

relayVars == <<channel, file, stopped, server, buffer, wait, pairing, listening, fresh,
               sign, due, pings, signed, trouble>>

Stages == <<"id", "hash_ecdh_pubkey", "ecdh_pubkey", "ecdh">>
Pairer(c) == [kind |-> "pair", chan |-> c]
Listener(c) == [kind |-> "listen", chan |-> c]
Signer == [kind |-> "sign"]
NotSigning == [at |-> "idle"]
Put(f, k, v) == [x \in DOMAIN f \cup {k} |-> IF x = k THEN v ELSE f[x]]
Drop(f, k) == [x \in DOMAIN f \ {k} |-> f[x]]

RelayInit ==
    /\ channel = Nil /\ file = Nil /\ stopped = FALSE
    /\ server = [c \in Chans |-> <<>>] /\ buffer = [c \in Chans |-> <<>>]
    /\ wait = <<>> /\ pairing = <<>> /\ listening = {} /\ fresh = Chans
    /\ sign = NotSigning /\ due = [c \in Chans |-> 0] /\ pings = 0 /\ signed = 0 /\ trouble = 0

Fails == trouble < MaxTroubles /\ trouble' = trouble + 1

-----------------------------------------------------------------------------
(* The mobile.                                                             *)

PushFromMobile(c, name) ==
    /\ server' = [server EXCEPT ![c] = Append(@, name)]
    /\ due' = [due EXCEPT ![c] = @ + 1]

\* It scanned the code and answers each stage of the pairing.
MobilePairs(c) ==
    /\ c \in DOMAIN pairing /\ pairing[c].at = "wait" /\ ~pairing[c].sent
    /\ pairing' = [pairing EXCEPT ![c].sent = TRUE]
    /\ PushFromMobile(c, Stages[pairing[c].stage])
    /\ UNCHANGED <<channel, file, stopped, buffer, wait, listening, fresh, sign, pings, signed, trouble>>

\* Its user confirms or aborts.
MobileConfirms ==
    /\ sign.at = "pin" /\ sign.echo # Nil
    /\ PushFromMobile(sign.echo, "pin")
    /\ sign' = [sign EXCEPT !.echo = Nil]
    /\ UNCHANGED <<channel, file, stopped, buffer, wait, pairing, listening, fresh, pings, signed, trouble>>

-----------------------------------------------------------------------------
(* waitForValue.                                                           *)

WaitFor(g, c, name) == wait' = Put(wait, g, [at |-> "look", chan |-> c, name |-> name])
IsWaiting(g) == g \in DOMAIN wait
At(g, pc) == IsWaiting(g) /\ wait[g].at = pc
Continue(g, pc) == wait' = [wait EXCEPT ![g].at = pc]

\* What the callers do with the value, or without one.
Got(g) ==
    CASE g.kind = "pair" -> pairing' = [pairing EXCEPT ![g.chan].at = "got"] /\ UNCHANGED sign
      [] g.kind = "sign" -> sign' = [sign EXCEPT !.at = "got"] /\ UNCHANGED pairing
      [] OTHER -> UNCHANGED <<pairing, sign>>
GotNothing(g) ==
    CASE g.kind = "pair" -> pairing' = Drop(pairing, g.chan) /\ UNCHANGED sign
      [] g.kind = "sign" -> sign' = NotSigning /\ UNCHANGED pairing
      [] OTHER -> UNCHANGED <<pairing, sign>>

\* The first buffered message with the name.
Find(c, name) ==
    LET found == {i \in 1..Len(buffer[c]) : buffer[c][i] = name}
    IN  IF found = {} THEN 0 ELSE Min(found)
LooksFor_Nothing(g) == 0
LooksFor(g) == Find(wait[g].chan, wait[g].name)
Deliver(g) ==
    /\ wait' = Drop(wait, g) /\ Got(g)
    /\ due' = [due EXCEPT ![wait[g].chan] = @ - 1]
Look(g) ==
    /\ At(g, "look")
    /\ IF LooksFor(g) # 0
       THEN /\ buffer' = [buffer EXCEPT ![wait[g].chan] = RemoveAt(@, LooksFor(g))]
            /\ Deliver(g)
       ELSE Continue(g, "pull") /\ UNCHANGED <<buffer, due, pairing, sign>>
    /\ UNCHANGED <<channel, file, stopped, server, listening, fresh, pings, signed, trouble>>

Pull(g) ==
    /\ At(g, "pull")
    /\ LET c == wait[g].chan IN
       /\ server[c] # <<>>
       /\ server' = [server EXCEPT ![c] = Tail(@)]
       /\ IF Head(server[c]) = wait[g].name
          THEN Deliver(g)
          ELSE /\ wait' = [wait EXCEPT ![g] = [at |-> "keep", chan |-> c, name |-> @.name,
                                               msg |-> Head(server[c])]]
               /\ UNCHANGED <<due, pairing, sign>>
    /\ UNCHANGED <<channel, file, stopped, buffer, listening, fresh, pings, signed, trouble>>

Kept_Not(b, m) == b
Kept(b, m) == Append(b, m)
Keep(g) ==
    /\ At(g, "keep")
    /\ buffer' = [buffer EXCEPT ![wait[g].chan] = Kept(@, wait[g].msg)]
    /\ wait' = [wait EXCEPT ![g] = [at |-> "look", chan |-> @.chan, name |-> @.name]]
    /\ UNCHANGED <<channel, file, stopped, server, pairing, listening, fresh, sign, due, pings, signed, trouble>>

\* Nothing came for a while: look again.
PullNothing(g) ==
    /\ At(g, "pull") /\ server[wait[g].chan] = <<>>
    /\ Continue(g, "look")
    /\ UNCHANGED <<channel, file, stopped, server, buffer, pairing, listening, fresh, sign, due, pings, signed, trouble>>

\* Nothing came until the deadline, or the server is down.  A ping has a second for its
\* answer, the other waits have minutes.
GiveUp(g) ==
    /\ At(g, "pull") /\ server[wait[g].chan] = <<>>
    /\ IF g.kind = "listen" THEN UNCHANGED trouble ELSE Fails
    /\ wait' = Drop(wait, g) /\ GotNothing(g)
    /\ UNCHANGED <<channel, file, stopped, server, buffer, listening, fresh, due, pings, signed>>

-----------------------------------------------------------------------------
(* Pairing.                                                                *)

\* The former pairing is forgotten first.
Forget == file' = Nil /\ channel' = Nil
StartPairing(c) ==
    /\ ~stopped /\ sign = NotSigning /\ fresh # {}
    /\ c = (CHOOSE k \in fresh : TRUE) /\ fresh' = fresh \ {c}
    /\ IF channel # Nil THEN Forget ELSE UNCHANGED <<file, channel>>
    /\ pairing' = Put(pairing, c, [at |-> "wait", stage |-> 1, sent |-> FALSE])
    /\ WaitFor(Pairer(c), c, Stages[1])
    /\ UNCHANGED <<stopped, server, buffer, listening, sign, due, pings, signed, trouble>>

\* The value is passed to the device and the answer to the mobile.  A locked device is not
\* paired again.  "challenge" repeats the last stage.
PairingStep(c) ==
    /\ c \in DOMAIN pairing /\ pairing[c].at = "got"
    /\ LET stage == pairing[c].stage IN
       \/ /\ stage < Len(Stages)
          /\ pairing' = [pairing EXCEPT ![c] = [at |-> "wait", stage |-> stage + 1, sent |-> FALSE]]
          /\ WaitFor(Pairer(c), c, Stages[stage + 1])
          /\ UNCHANGED trouble
       \/ /\ stage \in {1, Len(Stages)}
          /\ pairing' = [pairing EXCEPT ![c].at = "finish"] /\ UNCHANGED <<wait, trouble>>
       \/ pairing' = Drop(pairing, c) /\ Fails /\ UNCHANGED wait
    /\ UNCHANGED <<channel, file, stopped, server, buffer, listening, fresh, sign, due, pings, signed>>

\* Store the channel, activate pairing on the device, use the channel and listen.
finishPairing(c) ==
    /\ c \in DOMAIN pairing /\ pairing[c].at = "finish"
    /\ pairing' = Drop(pairing, c)
    /\ \/ file' = c /\ channel' = c /\ listening' = listening \cup {Listener(c)} /\ UNCHANGED trouble
       \/ file' \in {file, c} /\ Fails /\ UNCHANGED <<channel, listening>>
    /\ UNCHANGED <<stopped, server, buffer, wait, fresh, sign, due, pings, signed>>

-----------------------------------------------------------------------------
(* listenForMobile.                                                        *)

Listens == ~stopped /\ channel # Nil
\* Bound: the mobile is asked so often; later pings are not answered.
PingMobile(g) ==
    /\ g \in listening /\ ~IsWaiting(g)
    /\ IF Listens
       THEN /\ WaitFor(g, channel, "action")
            /\ UNCHANGED listening
            /\ \/ PushFromMobile(channel, "action") /\ pings < MaxPings /\ pings' = pings + 1
               \/ UNCHANGED <<server, due, pings>>
       ELSE listening' = listening \ {g} /\ UNCHANGED <<wait, server, due, pings>>
    /\ UNCHANGED <<channel, file, stopped, buffer, pairing, fresh, sign, signed, trouble>>

-----------------------------------------------------------------------------
(* Signing.                                                                *)

\* Steps of at most BatchSize signatures.
Upper(i) == IF i + BatchSize > Inputs THEN Inputs ELSE i + BatchSize
Batch(i) == [k \in 1..(Upper(i) - i) |-> i + k]

Sign ==
    /\ ~stopped /\ sign = NotSigning /\ signed < MaxSigned /\ signed' = signed + 1
    /\ \E paired \in BOOLEAN : sign' = [at |-> "echo", paired |-> paired, i |-> 0, sigs |-> <<>>, echo |-> Nil]
    /\ UNCHANGED <<channel, file, stopped, server, buffer, wait, pairing, listening, fresh,
                   due, pings, trouble>>

\* The first call returns the echo, which the mobile shows.  Then its PIN is awaited.
SignEcho ==
    /\ sign.at = "echo"
    /\ \/ /\ sign.paired /\ channel # Nil
          /\ sign' = [sign EXCEPT !.at = "pin", !.echo = channel]
          /\ WaitFor(Signer, channel, "pin") /\ UNCHANGED trouble
       \/ /\ sign.paired /\ channel = Nil
          /\ sign' = NotSigning /\ UNCHANGED <<wait, trouble>>
       \/ ~sign.paired /\ sign' = [sign EXCEPT !.at = "got"] /\ UNCHANGED <<wait, trouble>>
       \/ sign' = NotSigning /\ Fails /\ UNCHANGED wait
    /\ UNCHANGED <<channel, file, stopped, server, buffer, pairing, listening, fresh, due, pings, signed>>

\* The second call returns the signatures of the batch, or the user aborts.
SignBatch ==
    /\ sign.at = "got"
    /\ \/ LET sigs == sign.sigs \o Batch(sign.i)
              i == sign.i + BatchSize
          IN  /\ sign' = IF i < Inputs
                         THEN [sign EXCEPT !.at = "echo", !.sigs = sigs, !.i = i, !.echo = Nil]
                         ELSE [at |-> "done", sigs |-> sigs]
              /\ UNCHANGED trouble
       \/ sign' = NotSigning /\ Fails
    /\ UNCHANGED <<channel, file, stopped, server, buffer, wait, pairing, listening, fresh, due, pings, signed>>

ReturnSignatures ==
    /\ sign.at = "done" /\ sign' = NotSigning
    /\ UNCHANGED <<channel, file, stopped, server, buffer, wait, pairing, listening, fresh, due, pings, signed, trouble>>

-----------------------------------------------------------------------------
\* The device is unplugged; goroutines notice it later.
CloseBitBox ==
    /\ ~stopped /\ stopped' = TRUE
    /\ UNCHANGED <<channel, file, server, buffer, wait, pairing, listening, fresh, sign, due, pings, signed, trouble>>

WaitForValue(g) == Look(g) \/ Pull(g) \/ Keep(g) \/ PullNothing(g)
Signing == SignEcho \/ SignBatch \/ ReturnSignatures
RelayNext ==
    \/ \E c \in Chans : MobilePairs(c) \/ StartPairing(c) \/ PairingStep(c) \/ finishPairing(c)
    \/ MobileConfirms \/ Sign \/ Signing \/ CloseBitBox
    \/ \E g \in DOMAIN wait : WaitForValue(g) \/ GiveUp(g)
    \/ \E g \in listening : PingMobile(g)

\* Goroutines run, the mobile answers an echo, and a ping that is not answered times out.
RelayFairness ==
    /\ WF_relayVars(MobileConfirms) /\ WF_relayVars(Signing \/ WaitForValue(Signer))
    /\ \A c \in Chans : /\ WF_relayVars(PingMobile(Listener(c)) \/ WaitForValue(Listener(c)))
                       /\ SF_relayVars(GiveUp(Listener(c)))
RelaySpec == RelayInit /\ [][RelayNext]_relayVars /\ RelayFairness
-----------------------------------------------------------------------------
\* Goroutines that wait for different answers on one channel lose none: a message was
\* given to the one that waits for it, or is on the server, in the buffer or on its way
\* into it.
Keepers(c) == {g \in DOMAIN wait : wait[g].at = "keep" /\ wait[g].chan = c}
NoMessageLost ==
    \A c \in Chans : due[c] = Len(server[c]) + Len(buffer[c]) + Cardinality(Keepers(c))

\* A channel that is in use was saved, so that it survives a restart, through repeated and
\* overlapping pairings and failures.
ChannelIsSaved == channel # Nil => file # Nil

\* The signatures are those of all inputs in their order, whatever the size of the batches.
FirstInputs(n) == [k \in 1..n |-> k]
AllInputsSigned == sign.at = "done" => sign.sigs = FirstInputs(Inputs)

\* Goroutines that share a channel, pairings that overlap and signing in batches leave
\* nothing out.
RelaySound == NoMessageLost /\ ChannelIsSaved /\ AllInputsSigned

\* The inductive invariant behind RelaySound: a goroutine waits for one value at a time, so that
\* none that is on its way into the buffer is overwritten.
Waiters == {Pairer(c) : c \in Chans} \cup {Listener(c) : c \in Chans} \cup {Signer}
Names == {Stages[n] : n \in 1..Len(Stages)} \cup {"pin", "action"}

MessagesOK ==
    /\ server \in [Chans -> Seq(Names)] /\ buffer \in [Chans -> Seq(Names)] /\ due \in [Chans -> Int]
    /\ NoMessageLost

WaitTypeOK ==
    /\ DOMAIN wait \subseteq Waiters /\ IsFiniteSet(DOMAIN wait)
    /\ \A g \in DOMAIN wait : wait[g] \in [at : {"look", "pull"}, chan : Chans, name : Names]
                                   \cup [at : {"keep"}, chan : Chans, name : Names, msg : Names]

WaitOK ==
    /\ WaitTypeOK
    /\ \A c \in Chans : Pairer(c) \in DOMAIN wait => c \in DOMAIN pairing /\ pairing[c].at = "wait"
    /\ Signer \in DOMAIN wait => sign.at = "pin"

PairingOK ==
    /\ channel \in Chans \cup {Nil} /\ file \in Chans \cup {Nil} /\ ChannelIsSaved
    /\ fresh \subseteq Chans /\ DOMAIN pairing \subseteq Chans \ fresh
    /\ \A c \in DOMAIN pairing :
          pairing[c] \in [at : {"wait", "got", "finish"}, stage : 1..Len(Stages), sent : BOOLEAN]
    /\ listening \subseteq {Listener(c) : c \in Chans}

SignOK ==
    \/ sign = NotSigning
    \/ /\ sign \in [at : {"echo", "pin", "got"}, paired : BOOLEAN, i : 0..Inputs, sigs : {sign.sigs},
                     echo : Chans \cup {Nil}]
       /\ sign.sigs = FirstInputs(sign.i)
    \/ sign = [at |-> "done", sigs |-> FirstInputs(Inputs)]

RelayInv == MessagesOK /\ WaitOK /\ PairingOK /\ SignOK

\* Signing ends: the answer of the mobile reaches it, also if the goroutine that listens
\* pulled it from the server.
SigningEnds == sign.at # "idle" ~> sign.at = "idle"

\* After the device was unplugged, no goroutine goes on listening for its mobile.
ListenersStop == stopped ~> listening = {}

\* Every goroutine that waits for the mobile stops waiting in the end.
RelayEnds == SigningEnds /\ ListenersStop
=============================================================================
