------------------------------ MODULE UsbDevices ------------------------------
(***************************************************************************)
(* Plugged-in devices (backend/devices/usb/manager.go), their registration *)
(* at the backend and their keystore (backend/backend.go,                  *)
(* backend/devices/bitbox02/device.go).                                    *)
(*                                                                         *)
(* The manager is one goroutine that compares the devices it knows with    *)
(* those that are enumerated.  A BitBox02 is initialized in a goroutine of *)
(* its own, whose events register and deregister the keystore.  The        *)
(* identifier of a device is its path and product: the same for a device   *)
(* that was unplugged and plugged in again, of which the manager may see   *)
(* nothing.  USB and the firmware are external.                            *)
(***************************************************************************)
EXTENDS Integers, FiniteSets

CONSTANTS
    Ids,            \* identifiers of the devices
    Bootloaders,    \* those that are in bootloader mode
    None,
    Polls,          \* how often checkIfRemoved looks, 5
    MaxHang,        \* bound: consecutive empty enumerations
    MaxPlugged,     \* bound: how often devices are plugged in
    MaxFailures     \* bound: failures to open or to initialize a device

\* What checkIfRemoved relies on: the enumerations that come back empty are fewer than its looks.
ASSUME UsbAssumption ==
    /\ Polls \in Nat /\ MaxHang \in Nat /\ MaxFailures \in Nat
    /\ MaxHang * MaxFailures < Polls
    /\ None \notin [id : Ids, session : Nat]

VARIABLES
    port,           \* the devices that are plugged in: when each was, by identifier
    hang,           \* the next enumerations that come back empty
    plugged,        \* number of times a device was plugged in
    devices,        \* manager.devices: which session the handle belongs to, by identifier
    closed,         \* the handles that were closed
    registered,     \* backend.devices
    manager,        \* where the manager's goroutine is
    init,           \* goroutines that initialize a device, by identifier and session
    held,           \* who holds accountsAndKeystoreLock to register a keystore
    keystoreOf,     \* the device whose keystore is registered
    failures

usbVars == <<port, hang, plugged, devices, closed, registered, manager, init, held, keystoreOf, failures>>

Handle(id, s) == [id |-> id, session |-> s]
\* A handle works as long as its device was not unplugged, nor the handle closed.
Works(h) == h.id \in DOMAIN port /\ port[h.id] = h.session /\ h \notin closed
deviceInfos == IF hang > 0 THEN {} ELSE DOMAIN port
Enumerated == hang' = IF hang > 0 THEN hang - 1 ELSE 0
Without(f, k) == [x \in DOMAIN f \ {k} |-> f[x]]
With(f, k, v) == [x \in DOMAIN f \cup {k} |-> IF x = k THEN v ELSE f[x]]

UsbInit ==
    /\ port = <<>> /\ hang = 0 /\ plugged = 0
    /\ devices = <<>> /\ closed = {} /\ registered = {} /\ manager = [at |-> "check"]
    /\ init = <<>> /\ held = None /\ keystoreOf = None /\ failures = 0

-----------------------------------------------------------------------------
(* The hardware.                                                           *)

Plug(id) ==
    /\ id \notin DOMAIN port /\ plugged < MaxPlugged
    /\ plugged' = plugged + 1 /\ port' = With(port, id, plugged')
    /\ UNCHANGED <<hang, devices, closed, registered, manager, init, held, keystoreOf, failures>>

Unplug(id) ==
    /\ id \in DOMAIN port
    /\ port' = Without(port, id)
    /\ UNCHANGED <<hang, plugged, devices, closed, registered, manager, init, held, keystoreOf, failures>>

\* "device enumeration hangs waiting for the device, and can be empty for a very short
\* amount of time even though the device is still plugged in"
Hang ==
    /\ hang = 0 /\ failures < MaxFailures
    /\ hang' = MaxHang /\ failures' = failures + 1
    /\ UNCHANGED <<port, plugged, devices, closed, registered, manager, init, held, keystoreOf>>

-----------------------------------------------------------------------------
(* The manager.                                                            *)

\* checkIfRemoved: one of its looks.
Gone(id, looks) == id \notin deviceInfos /\ looks = Polls
checkIfRemoved(id) ==
    /\ manager.at = "check" /\ id \in DOMAIN devices
    /\ LET looks == 1 + (IF "looks" \in DOMAIN manager THEN manager.looks ELSE 0) IN
       manager' = CASE Gone(id, looks) -> [at |-> "close", id |-> id]
                    [] id \in deviceInfos -> [at |-> "insert"]
                    [] OTHER -> [at |-> "check", looks |-> looks]
    /\ Enumerated
    /\ UNCHANGED <<port, plugged, devices, closed, registered, init, held, keystoreOf, failures>>

\* The device is closed first; its goroutines only get errors from then on.
CloseDevice ==
    /\ manager.at = "close"
    /\ closed' = closed \cup {Handle(manager.id, devices[manager.id])}
    /\ devices' = Without(devices, manager.id)
    /\ manager' = [manager EXCEPT !.at = "unregister"]
    /\ UNCHANGED <<port, hang, plugged, registered, init, held, keystoreOf, failures>>

\* onUnregister is Backend.Deregister, which waits for the lock.
Deregister ==
    /\ manager.at = "unregister" /\ held = None
    /\ registered' = registered \ {manager.id}
    /\ keystoreOf' = None
    /\ manager' = [at |-> "insert"]
    /\ UNCHANGED <<port, hang, plugged, devices, closed, init, held, failures>>

\* Backend.Register.  A device that could not be initialized stays registered.
Register(h) ==
    /\ registered' = registered \cup {h.id}
    /\ \/ h.id \in Bootloaders /\ UNCHANGED <<init, failures>>
       \/ h.id \in Bootloaders /\ failures < MaxFailures /\ failures' = failures + 1 /\ UNCHANGED init
       \/ h.id \notin Bootloaders /\ init' = With(init, h, "init") /\ UNCHANGED failures

Insert ==
    /\ manager.at = "insert"
    /\ manager' = [at |-> "check"]
    /\ \/ /\ DOMAIN devices = {}
          /\ \E id \in deviceInfos :
              \/ /\ devices' = With(devices, id, port[id]) /\ Register(Handle(id, port[id]))
                 /\ closed' = closed \ {Handle(id, port[id])}
              \/ /\ failures < MaxFailures /\ failures' = failures + 1
                 /\ UNCHANGED <<devices, closed, registered, init>>
       \/ /\ DOMAIN devices # {} \/ deviceInfos = {}
          /\ UNCHANGED <<devices, closed, registered, init, failures>>
    /\ Enumerated
    /\ UNCHANGED <<port, plugged, held, keystoreOf>>

\* Nothing was known: the loop goes straight to the insertions.
NothingToCheck ==
    /\ manager.at = "check" /\ DOMAIN devices = {}
    /\ manager' = [at |-> "insert"]
    /\ UNCHANGED <<port, hang, plugged, devices, closed, registered, init, held, keystoreOf, failures>>

-----------------------------------------------------------------------------
(* A BitBox02.                                                             *)

Goto(h, pc) == init' = [init EXCEPT ![h] = pc]
Finish(h) == init' = Without(init, h)

\* Device.Init: pairing and unlocking end in StatusInitialized, or in an error if the
\* device is gone.  Then the event is fired.
Unlock_NoEvent(h) ==
    /\ init[h] = "init"
    /\ Finish(h)
    /\ UNCHANGED <<port, hang, plugged, devices, closed, registered, manager, held, keystoreOf, failures>>
Unlock(h) ==
    /\ init[h] = "init"
    /\ IF Works(h) THEN Goto(h, "event") ELSE Finish(h)
    /\ UNCHANGED <<port, hang, plugged, devices, closed, registered, manager, held, keystoreOf, failures>>

\* registerKeystore: with the lock, the fingerprint is read from the device.
Proceeds_Always(h) == TRUE
Proceeds(h) == Works(h)
ReadFingerprint(h) ==
    /\ init[h] = "event" /\ held = None
    /\ IF Proceeds(h) THEN held' = h /\ Goto(h, "register") ELSE UNCHANGED held /\ Finish(h)
    /\ UNCHANGED <<port, hang, plugged, devices, closed, registered, manager, keystoreOf, failures>>

SetKeystore(h) ==
    /\ init[h] = "register"
    /\ keystoreOf' = h /\ held' = None /\ Finish(h)
    /\ UNCHANGED <<port, hang, plugged, devices, closed, registered, manager, failures>>

\* Reset: EventKeystoreGone, then the device is initialized again.
ResetBitBox02(h) ==
    /\ keystoreOf = h /\ Works(h) /\ held = None /\ h \notin DOMAIN init
    /\ keystoreOf' = None /\ init' = With(init, h, "init")
    /\ UNCHANGED <<port, hang, plugged, devices, closed, registered, manager, held, failures>>

Listen == NothingToCheck \/ (\E id \in Ids : checkIfRemoved(id)) \/ CloseDevice \/ Deregister \/ Insert
Initializing == \E h \in DOMAIN init : Unlock(h) \/ ReadFingerprint(h) \/ SetKeystore(h)

UsbNext ==
    \/ \E id \in Ids : Plug(id) \/ Unplug(id)
    \/ Hang
    \/ Listen
    \/ Initializing
    \/ \E id \in Ids, s \in 1..MaxPlugged : ResetBitBox02(Handle(id, s))

UsbFairness == WF_usbVars(Listen) /\ WF_usbVars(Initializing)
UsbSpec == UsbInit /\ [][UsbNext]_usbVars /\ UsbFairness
-----------------------------------------------------------------------------
\* The registered keystore belongs to the device that the manager has opened, except while
\* that device is being removed: a goroutine that comes late, with the event of a device
\* that is already closed and deregistered, does not bring its keystore back.
KeystoreHasDevice ==
    /\ keystoreOf # None /\ manager.at # "unregister" =>
        keystoreOf.id \in DOMAIN devices /\ devices[keystoreOf.id] = keystoreOf.session
    /\ DOMAIN devices \subseteq registered

\* The inductive invariant behind KeystoreHasDevice and NoFalseRemoval.
Open(h) == h.id \in DOMAIN devices /\ devices[h.id] = h.session
Unmoved(id) == id \in DOMAIN port /\ port[id] = devices[id]
UsbTypeOK ==
    /\ plugged \in Nat /\ hang \in Nat /\ failures \in 0..MaxFailures
    /\ DOMAIN port \subseteq Ids /\ \A id \in DOMAIN port : port[id] \in 0..plugged
    /\ DOMAIN devices \subseteq Ids /\ \A id \in DOMAIN devices : devices[id] \in 0..plugged
    /\ DOMAIN init \subseteq [id : Ids, session : Nat]
    /\ keystoreOf \in [id : Ids, session : Nat] \cup {None}

\* Where the manager is, and how many of its looks a hanging enumeration explains.
ManagerOK ==
    \/ manager \in {[at |-> "check"], [at |-> "insert"]}
    \/ \E n \in 0..(Polls - 1) :
        /\ manager = [at |-> "check", looks |-> n]
        /\ \A id \in DOMAIN devices : Unmoved(id) => n + hang <= MaxHang * failures
    \/ \E id \in DOMAIN devices : manager = [at |-> "close", id |-> id] /\ ~Unmoved(id)
    \/ \E id \in Ids \ DOMAIN devices : manager = [at |-> "unregister", id |-> id]

\* A goroutine has the handle of the open device, or one that was closed; it registers a keystore
\* only of the open device, or while that is about to be deregistered.
GoroutinesOK ==
    \A h \in DOMAIN init :
        /\ Open(h) \/ h \in closed
        /\ init[h] = "register" => held = h /\ (Open(h) \/ manager.at = "unregister")

UsbInv ==
    /\ UsbTypeOK /\ ManagerOK /\ GoroutinesOK
    /\ \A a, b \in DOMAIN devices : a = b
    /\ hang <= MaxHang * failures
    /\ keystoreOf # None => Open(keystoreOf) \/ (manager.at = "unregister" /\ keystoreOf \in closed)
    /\ DOMAIN devices \subseteq registered

\* A device that stays plugged in is not removed because an enumeration came back empty.
NoFalseRemoval ==
    [][\A id \in DOMAIN devices :
        id \notin DOMAIN devices' => id \notin DOMAIN port \/ port[id] # devices[id]]_usbVars

\* A device that stays plugged in alone is registered in the end and, if it is a BitBox02,
\* its keystore is, unless it was unplugged for a moment that the manager did not see.
Alone(id) == DOMAIN port = {id}
Unseen(id) == id \in DOMAIN devices /\ id \in DOMAIN port /\ devices[id] # port[id]
EventuallyRegistered ==
    \A id \in Ids :
        <>[](Alone(id) /\ ~Unseen(id)) =>
            <>[](id \in registered) /\ (id \notin Bootloaders => []<>(keystoreOf # None /\ keystoreOf.id = id))

\* A device that stays plugged in gets registered and stays so.
StaysRegistered == NoFalseRemoval /\ EventuallyRegistered
=============================================================================
