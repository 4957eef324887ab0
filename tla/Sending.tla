------------------------------- MODULE Sending -------------------------------
(***************************************************************************)
(* Sending from a BTC/LTC account: the send form proposes a transaction at *)
(* every edit (send.tsx), the requests run concurrently in the backend and *)
(* each replaces the account's active proposal; SendTx takes the active    *)
(* one, has the BitBox02 show and sign it, checks the signatures and       *)
(* broadcasts it (transaction.go, sign.go, bitbox02/keystore.go).          *)
(*                                                                         *)
(* A transaction has inputs and outputs: an input the script type of the   *)
(* address it spends from, an output its script type, whether its address  *)
(* is the account's (ours) and whether it is the change.                   *)
(***************************************************************************)
EXTENDS Naturals, Sequences, SequencesExt

CONSTANTS
    Forms,              \* the transactions the user may enter
    MaxRequests,        \* bound: requests for a proposal
    FirmwareMarksOurs,  \* the firmware is 9.15.0 or newer
    NoProposal

ASSUME SendingAssumption ==
    /\ FirmwareMarksOurs \subseteq BOOLEAN
    /\ \A tx \in Forms : /\ tx.inputs \in Seq(STRING)
                         /\ tx.outputs \in Seq([type : STRING, ours : BOOLEAN, change : BOOLEAN])

VARIABLES
    form,               \* what is entered, or NoProposal
    dueRequest,         \* what is proposed when proposeTimeout fires, or NoProposal
    requests,           \* sequence of the requests for a proposal
    lastProposal,       \* the last of them, 0 after its answer was used
    valid, isUpdatingProposal,
    activeTxProposal,   \* of the account
    sender,             \* SendTx: its step and its transaction
    marksOurs,          \* the version of the firmware, as far as it matters
    device,             \* what the BitBox02 was asked to sign
    confirmed,          \* the transaction the user confirmed on it
    sent,               \* the transaction that was broadcast
    broken              \* the transaction validity check has panicked

sendingVars == <<form, dueRequest, requests, lastProposal, valid, isUpdatingProposal,
                 activeTxProposal, sender, marksOurs, device, confirmed, sent, broken>>

uiVars == <<form, dueRequest, lastProposal, valid, isUpdatingProposal>>
signingVars == <<sender, device, confirmed, sent, broken>>

SendingInit ==
    /\ form = NoProposal /\ dueRequest = NoProposal
    /\ requests = <<>> /\ lastProposal = 0
    /\ valid = FALSE /\ isUpdatingProposal = FALSE
    /\ activeTxProposal = NoProposal
    /\ sender = [pc |-> "idle"]
    /\ marksOurs \in FirmwareMarksOurs
    /\ device = NoProposal /\ confirmed = NoProposal /\ sent = NoProposal
    /\ broken = FALSE

(***************************************************************************)
(* The send form.                                                          *)
(***************************************************************************)
\* validateAndDisplayFee; while the form is being sent a dialog covers it.
Edit(tx) ==
    /\ sender.pc = "idle" /\ Len(requests) < MaxRequests
    /\ form' = tx /\ dueRequest' = tx /\ isUpdatingProposal' = TRUE
    /\ UNCHANGED <<requests, lastProposal, valid, activeTxProposal, marksOurs, signingVars>>

\* The timeout of 400 ms: proposeTx.
Propose ==
    /\ dueRequest # NoProposal
    /\ dueRequest' = NoProposal
    /\ requests' = Append(requests, [pc |-> "sent", tx |-> [id |-> Len(requests) + 1, of |-> dueRequest]])
    /\ lastProposal' = Len(requests) + 1
    /\ UNCHANGED <<form, valid, isUpdatingProposal, activeTxProposal, marksOurs, signingVars>>

\* The answer; txProposal uses it only if this is the most recent request.
Answer(i) ==
    /\ requests[i].pc \in {"done", "failed"}
    /\ requests' = [requests EXCEPT ![i].pc = "answered"]
    /\ IF i = lastProposal
       THEN /\ valid' = (requests[i].pc = "done") /\ isUpdatingProposal' = FALSE
            /\ lastProposal' = 0
       ELSE UNCHANGED <<valid, isUpdatingProposal, lastProposal>>
    /\ UNCHANGED <<form, dueRequest, activeTxProposal, marksOurs, signingVars>>

(***************************************************************************)
(* postAccountTxProposal: TxProposal holds activeTxProposalLock from newTx *)
(* to the assignment. The requests run in no particular order.             *)
(***************************************************************************)
TxProposal(i) ==
    /\ requests[i].pc = "sent"
    /\ \/ requests' = [requests EXCEPT ![i].pc = "done"] /\ activeTxProposal' = requests[i].tx
       \/ requests' = [requests EXCEPT ![i].pc = "failed"] /\ UNCHANGED activeTxProposal
    /\ UNCHANGED <<uiVars, marksOurs, signingVars>>

(***************************************************************************)
(* SendTx.                                                                 *)
(***************************************************************************)
\* The button, and connectKeystore, which may fail.
Send ==
    /\ sender.pc = "idle" /\ form # NoProposal /\ valid /\ ~isUpdatingProposal
    /\ sender' = [pc |-> "start"]
    /\ UNCHANGED <<uiVars, requests, activeTxProposal, marksOurs, device, confirmed, sent, broken>>

\* The active proposal is read under its lock, and used after that.
TakeProposal ==
    /\ sender.pc = "start"
    /\ sender' = IF activeTxProposal = NoProposal THEN [pc |-> "failed"]
                                            ELSE [pc |-> "sign", tx |-> activeTxProposal]
    /\ UNCHANGED <<uiVars, requests, activeTxProposal, marksOurs, device, confirmed, sent, broken>>

\* addScriptConfig: the script types in the order in which they are first used.
addScriptConfig(configs, type) == IF Contains(configs, type) THEN configs ELSE Append(configs, type)

\* Its result: the position of a type among them.
IndexOf_Last(configs, type) == Len(configs)
IndexOf(configs, type) == CHOOSE i \in DOMAIN configs : configs[i] = type

\* isOurs: older firmware does not know outputs of the wallet other than the change.
Ours(output) == output.ours /\ (output.change \/ marksOurs)

\* The inputs and then the outputs, in the order of signBTCTransaction's loops: which of them name a
\* script configuration, and of what type.
Named(tx, i) == i <= Len(tx.of.inputs) \/ Ours(tx.of.outputs[i - Len(tx.of.inputs)])
TypeAt(tx, i) ==
    IF i <= Len(tx.of.inputs) THEN tx.of.inputs[i] ELSE tx.of.outputs[i - Len(tx.of.inputs)].type

\* The configurations after so many of them.
scriptConfigs(tx) ==
    LET after[i \in 0..Len(tx.of.inputs) + Len(tx.of.outputs)] ==
            IF i = 0 THEN <<>>
            ELSE IF Named(tx, i) THEN addScriptConfig(after[i - 1], TypeAt(tx, i)) ELSE after[i - 1]
    IN  after

\* The request signBTCTransaction builds: every input, and every output marked as ours, names a
\* script configuration; the device derives the output's script from it.
SigningRequest(tx) ==
    LET n == Len(tx.of.inputs)
        position(i) == IndexOf(scriptConfigs(tx)[i], TypeAt(tx, i))
    IN  [tx |-> tx, configs |-> scriptConfigs(tx)[n + Len(tx.of.outputs)],
         inputs |-> [i \in DOMAIN tx.of.inputs |-> position(i)],
         outputs |-> [j \in DOMAIN tx.of.outputs |->
                         [ours |-> Ours(tx.of.outputs[j]), type |-> tx.of.outputs[j].type,
                          index |-> IF Ours(tx.of.outputs[j]) THEN position(n + j) ELSE 0]]]

\* ConnectKeystore and then signBTCTransaction up to BTCSign.
StartSigning ==
    /\ sender.pc = "sign"
    /\ device' = SigningRequest(sender.tx)
    /\ sender' = [sender EXCEPT !.pc = "device"]
    /\ UNCHANGED <<uiVars, requests, activeTxProposal, marksOurs, confirmed, sent, broken>>

\* The keystore is not connected, or a previous transaction (needed unless every input is
\* taproot) cannot be fetched.
SigningFails ==
    /\ sender.pc = "sign"
    /\ sender' = [pc |-> "failed"]
    /\ UNCHANGED <<uiVars, requests, activeTxProposal, marksOurs, device, confirmed, sent, broken>>

\* The user confirms what the BitBox02 shows: the outputs that are not ours, and the fee.
Confirm ==
    /\ sender.pc = "device"
    /\ confirmed' = device.tx
    /\ sender' = [sender EXCEPT !.pc = "signed"]
    /\ UNCHANGED <<uiVars, requests, activeTxProposal, marksOurs, device, sent, broken>>

\* The user rejects it (ErrSigningAborted), or the device is unplugged.
Abort ==
    /\ sender.pc = "device"
    /\ device' = NoProposal
    /\ sender' = [pc |-> "aborted"]
    /\ UNCHANGED <<uiVars, requests, activeTxProposal, marksOurs, confirmed, sent, broken>>

\* What the device has signed: the script types it derived from the configurations.
SignedInputs(request) == [i \in DOMAIN request.inputs |-> request.configs[request.inputs[i]]]
SignedOutputs(request) ==
    [j \in DOMAIN request.outputs |->
        LET output == request.outputs[j]
        IN  IF output.ours THEN request.configs[output.index] ELSE output.type]

\* txValidityCheck: the signatures are valid for this transaction.
txValidityCheck(tx) ==
    /\ SignedInputs(device) = tx.of.inputs
    /\ SignedOutputs(device) = [j \in DOMAIN tx.of.outputs |-> tx.of.outputs[j].type]

\* The transaction that is broadcast.
Signed_Active == activeTxProposal
Signed == sender.tx

TransactionBroadcast ==
    /\ sender.pc = "signed"
    /\ IF ~txValidityCheck(sender.tx)
       THEN broken' = TRUE /\ sender' = [pc |-> "failed"] /\ UNCHANGED sent
       ELSE \/ sent' = Signed /\ sender' = [pc |-> "sent"] /\ UNCHANGED broken
            \/ sender' = [pc |-> "failed"] /\ UNCHANGED <<sent, broken>>
    /\ device' = NoProposal
    /\ UNCHANGED <<uiVars, requests, activeTxProposal, marksOurs, confirmed>>

\* postAccountSendTx answers: the form is cleared if the transaction was sent.
Finish ==
    /\ sender.pc \in {"sent", "aborted", "failed"}
    /\ form' = IF sender.pc = "sent" THEN NoProposal ELSE form
    /\ sender' = [pc |-> "idle"]
    /\ confirmed' = NoProposal /\ sent' = NoProposal
    /\ UNCHANGED <<dueRequest, requests, lastProposal, valid, isUpdatingProposal,
                   activeTxProposal, marksOurs, device, broken>>

SendingNext ==
    \/ \E tx \in Forms : Edit(tx)
    \/ Propose
    \/ \E i \in DOMAIN requests : TxProposal(i) \/ Answer(i)
    \/ Send \/ TakeProposal \/ StartSigning \/ SigningFails \/ Confirm \/ Abort
    \/ TransactionBroadcast \/ Finish

SendingSpec == SendingInit /\ [][SendingNext]_sendingVars

(***************************************************************************)
(* Properties.                                                             *)
(***************************************************************************)
\* What is broadcast is what the user has confirmed on the device, though proposals arrive while
\* the transaction is signed and replace the active one (SendTx uses it after the unlock).
SentAsConfirmed == sent # NoProposal => sent = confirmed

\* Every input and every output of ours names the script configuration of its own address, in
\* whatever order the script types appear: the signatures are valid and txValidityCheck does not
\* panic. Older firmware, to which fewer outputs are marked, included.
SignaturesFit == ~broken

\* The inductive invariant behind SentAsConfirmed: SendTx works on one transaction from the
\* moment it took the proposal, the device was given that one, and nothing is sent before.
SendingInv ==
    /\ sender.pc \in {"sign", "device", "signed"} => sender = [pc |-> sender.pc, tx |-> sender.tx]
    /\ sender.pc = "device" => device.tx = sender.tx
    /\ sender.pc = "signed" => confirmed = sender.tx
    /\ sender.pc # "sent" => sent = NoProposal
    /\ SentAsConfirmed

\* The inductive invariant behind SignaturesFit: what is proposed and sent was entered in the form,
\* and what the device was given to sign fits the transaction until the check is made.
FitInv ==
    /\ dueRequest \in Forms \union {NoProposal}
    /\ requests \in Seq([pc : {"sent", "done", "failed", "answered"}, tx : [id : Nat, of : Forms]])
    /\ activeTxProposal # NoProposal => activeTxProposal.of \in Forms
    /\ sender.pc \in {"sign", "device", "signed"} => sender.tx.of \in Forms
    /\ sender.pc \in {"device", "signed"} => txValidityCheck(sender.tx)
    /\ SignaturesFit

\* The form uses an answer "only if this is the most recent proposal" (send.tsx), so that what is
\* sent is what it shows. The backend does not order the requests: TLC refutes it.
SentAsShown == sent # NoProposal => sent.of = form
=============================================================================
