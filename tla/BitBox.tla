-------------------------------- MODULE BitBox --------------------------------
(***************************************************************************)
(* The API of the BitBox01 (backend/devices/bitbox): what the app believes *)
(* about the device, what the device is, and what the backend was told.    *)
(*                                                                         *)
(* A command is a request and a reply.  It may fail (the user aborts, the  *)
(* SD card is missing, ...), and its reply may be lost, after which the    *)
(* app does not know what the device did.  The JSON and the encryption of  *)
(* a message are abstracted to the PIN that it was encrypted with, and     *)
(* password policies and names to valid ones.  The firmware is external.   *)
(***************************************************************************)
EXTENDS Integers

CONSTANTS
    PINs, NoPIN,
    MaxAttempts,    \* failed attempts after which the device erases itself, 15
    ChunkNumbers,   \* the chunk number is a byte: 256
    Sizes,          \* sizes of firmware files, in chunks
    MaxLost,        \* bound: lost replies
    MaxPlugs        \* bound: how often the device is plugged in

ASSUME BitBoxAssumption == NoPIN \notin PINs /\ ChunkNumbers \in Nat \ {0} /\ Sizes \subseteq Nat

VARIABLES
    fw,             \* the device
    flash,          \* its firmware: which chunk of the file is where
    dbb,            \* the app's Device
    upgrade,        \* bootloaderStatus, and the upload that is running
    keystore,       \* has the backend got the keystore?
    lost, plugs

bitboxVars == <<fw, flash, dbb, upgrade, keystore, lost, plugs>>

Versions == {"old", "supported", "newer"}
Empty == [i \in 0..(ChunkNumbers - 1) |-> -1]
NoUpgrade == [upgrading |-> FALSE, successful |-> FALSE, size |-> 0, next |-> 0, sent |-> 0]

-----------------------------------------------------------------------------
(* The firmware, and how a command is sent to it.                          *)

Wiped(f) == [f EXCEPT !.pin = NoPIN, !.hidden = NoPIN, !.seeded = FALSE,
                      !.attempts = 0, !.lock = FALSE]
Accepts(f, pin) == pin # NoPIN /\ pin \in {f.pin, f.hidden}
Denied(f) ==
    IF f.pin = NoPIN THEN f
    ELSE IF f.attempts + 1 = MaxAttempts THEN Wiped(f) ELSE [f EXCEPT !.attempts = @ + 1]

Result(f, reply) == [fw |-> f, reply |-> reply]
Executed(f, g) == {Result(f, "error"), Result(g, "ok"), Result(g, "lost")}
SendPlain(f, F(_)) == Executed(f, F(f))
SendEncrypt(f, pin, F(_)) ==
    IF Accepts(f, pin) THEN LET g == [f EXCEPT !.attempts = 0] IN Executed(g, F(g))
    ELSE {Result(Denied(f), "denied"), Result(Denied(f), "lost")}
\* A second command, if the first one succeeded.
Then(results, G(_)) ==
    {r \in results : r.reply # "ok"} \cup UNION {G(r.fw) : r \in {r \in results : r.reply = "ok"}}
Same(f) == f

CountLost(r) ==
    /\ r.reply = "lost" => lost < MaxLost
    /\ lost' = IF r.reply = "lost" THEN lost + 1 ELSE lost

-----------------------------------------------------------------------------
(* The app's view.                                                         *)

Status(d) ==
    IF d.bootloader THEN "bootloader"
    ELSE IF (d.seeded \/ d.pin # NoPIN) /\ d.version = "old" THEN "requireFirmwareUpgrade"
    ELSE IF (d.seeded \/ d.pin # NoPIN) /\ d.version = "newer" THEN "requireAppUpgrade"
    ELSE IF d.seeded THEN "seeded"
    ELSE IF d.pin # NoPIN THEN "loggedIn"
    ELSE IF d.initialized THEN "initialized"
    ELSE "uninitialized"

\* EventKeystoreAvailable makes the backend read the root fingerprint; without it the
\* keystore is not registered.
onStatusChanged(d) ==
    \/ Status(d) = "seeded" /\ keystore' \in {TRUE, keystore}
    \/ Status(d) = "uninitialized" /\ keystore' = FALSE
    \/ Status(d) \notin {"seeded", "uninitialized"} /\ UNCHANGED keystore

NoDevice == [open |-> FALSE, bootloader |-> FALSE, initialized |-> FALSE, pin |-> NoPIN,
             seeded |-> FALSE, version |-> "supported"]

BitBoxInit ==
    /\ fw \in [pin : {NoPIN}, hidden : {NoPIN}, seeded : {FALSE}, backup : {FALSE},
               attempts : {0}, bootlock : BOOLEAN, lock : {FALSE}, version : Versions]
    /\ flash = Empty /\ dbb = NoDevice /\ upgrade = NoUpgrade
    /\ keystore = FALSE /\ lost = 0 /\ plugs = 0

\* NewDevice: ping, until the device is ready.  A device with an unlocked bootloader
\* starts it if the user wants so, and if its firmware is not complete.
NewDevice ==
    /\ ~dbb.open /\ plugs < MaxPlugs /\ plugs' = plugs + 1
    /\ \/ /\ ~upgrade.upgrading
          /\ dbb' = [NoDevice EXCEPT !.open = TRUE, !.initialized = fw.pin # NoPIN,
                                     !.version = fw.version]
       \/ ~fw.bootlock /\ dbb' = [NoDevice EXCEPT !.open = TRUE, !.bootloader = TRUE]
    /\ upgrade' = NoUpgrade
    /\ UNCHANGED <<fw, flash, keystore, lost>>

\* The manager closes and deregisters a device that was removed.
Close ==
    /\ dbb.open
    /\ dbb' = NoDevice /\ keystore' = FALSE
    /\ upgrade' = [upgrade EXCEPT !.upgrading = @ /\ ~upgrade.successful]
    /\ UNCHANGED <<fw, flash, lost, plugs>>

\* Send, and if the reply is the expected one, update the device and fire the event.
Call(results, d) ==
    /\ dbb.open /\ ~dbb.bootloader
    /\ \E r \in results :
        /\ fw' = r.fw /\ CountLost(r)
        /\ IF r.reply = "ok" THEN dbb' = d /\ onStatusChanged(d) ELSE UNCHANGED <<dbb, keystore>>
    /\ UNCHANGED <<flash, upgrade, plugs>>

\* The commands that change nothing in the app: no event is fired.
Command(results) ==
    /\ dbb.open /\ ~dbb.bootloader
    /\ \E r \in results : fw' = r.fw /\ CountLost(r)
    /\ UNCHANGED <<flash, dbb, upgrade, keystore, plugs>>

-----------------------------------------------------------------------------
(* The operations.                                                         *)

SetPassword(pin) ==
    /\ Status(dbb) = "uninitialized"
    /\ Call(IF fw.pin = NoPIN THEN SendPlain(fw, LAMBDA f : [f EXCEPT !.pin = pin])
            ELSE {Result(fw, "error")},
            [dbb EXCEPT !.pin = pin])

\* The device replaces the PIN that the command was encrypted with.
Repinned(f, old, new) ==
    IF f.pin = old THEN [f EXCEPT !.pin = new] ELSE [f EXCEPT !.hidden = new]
ChangePassword_KeepsPIN(old, new) ==
    /\ dbb.pin = old /\ new \notin {fw.pin, fw.hidden}
    /\ Call(SendEncrypt(fw, old, LAMBDA f : Repinned(f, old, new)), dbb)
ChangePassword(old, new) ==
    /\ dbb.pin = old /\ new \notin {fw.pin, fw.hidden}
    /\ Call(SendEncrypt(fw, old, LAMBDA f : Repinned(f, old, new)), [dbb EXCEPT !.pin = new])

\* Only the main PIN creates a hidden one: in the hidden wallet the device changes nothing.
Hides(f, pin, hidden) == IF f.pin = pin THEN [f EXCEPT !.hidden = hidden] ELSE f
SetHiddenPassword(pin) ==
    /\ fw.seeded /\ pin # fw.pin
    /\ Command(SendEncrypt(fw, dbb.pin, LAMBDA f : Hides(f, dbb.pin, pin)))

\* A failed login says how many attempts remain.  If none, a ping tells whether the
\* device was reset.  After a login, the bootloader is locked.
LoggedIn(d, pin, f) == [d EXCEPT !.pin = pin, !.seeded = f.seeded]
Forgotten_KeepsSeeded(d) == [d EXCEPT !.initialized = FALSE, !.pin = NoPIN]
Forgotten(d) == [d EXCEPT !.initialized = FALSE, !.seeded = FALSE, !.pin = NoPIN]
Login(pin) ==
    /\ dbb.open /\ ~dbb.bootloader /\ dbb.initialized
    /\ \E r \in SendEncrypt(fw, pin, Same) :
        \/ /\ r.reply = "ok"
           /\ LET d == LoggedIn(dbb, pin, r.fw) IN dbb' = d /\ onStatusChanged(d)
           /\ IF r.fw.bootlock THEN fw' = r.fw /\ UNCHANGED lost
              ELSE \E l \in SendEncrypt(r.fw, pin, LAMBDA f : [f EXCEPT !.bootlock = TRUE]) :
                    fw' = l.fw /\ CountLost(l)
        \/ /\ r.reply = "denied" /\ r.fw.pin = NoPIN
           /\ fw' = r.fw
           /\ \E ping \in SendPlain(r.fw, Same) :
                /\ CountLost([reply |-> IF ping.reply = "ok" THEN "ok" ELSE "lost"])
                /\ IF ping.reply = "ok"
                   THEN dbb' = Forgotten(dbb) /\ onStatusChanged(dbb')
                   ELSE UNCHANGED <<dbb, keystore>>
        \/ /\ r.reply # "ok" /\ (r.reply = "denied" => r.fw.pin # NoPIN)
           /\ fw' = r.fw /\ CountLost(r) /\ UNCHANGED <<dbb, keystore>>
    /\ UNCHANGED <<flash, upgrade, plugs>>

\* The device seeds itself and writes the backup, which may be unreadable; the second
\* command compares it with the seed.
Seeded(f) == {[f EXCEPT !.seeded = TRUE, !.backup = b] : b \in BOOLEAN}
Check(f) == IF f.backup THEN SendEncrypt(f, dbb.pin, Same) ELSE {Result(f, "error"), Result(f, "lost")}
seed(f, source) ==
    Then(IF source = "backup"
         THEN IF f.backup THEN SendEncrypt(f, dbb.pin, LAMBDA h : [h EXCEPT !.seeded = TRUE])
              ELSE {Result(f, "error")}
         ELSE UNION {SendEncrypt(f, dbb.pin, LAMBDA h : [h EXCEPT !.seeded = TRUE, !.backup = g.backup]) :
                        g \in Seeded(f)},
         Check)

\* SetName, then seed.
CreateWallet ==
    Call(Then(SendEncrypt(fw, dbb.pin, Same), LAMBDA f : seed(f, "create")),
         [dbb EXCEPT !.seeded = TRUE])
RestoreBackup == Call(seed(fw, "backup"), [dbb EXCEPT !.seeded = TRUE])
CreateBackup ==
    fw.seeded /\ Command(SendEncrypt(fw, dbb.pin, LAMBDA f : [f EXCEPT !.backup = TRUE]))
EraseBackup == Command(SendEncrypt(fw, dbb.pin, LAMBDA f : [f EXCEPT !.backup = FALSE]))

\* CheckBackup, BackupList, Blink, Random, DeviceInfo, xpub
Query == Command(SendEncrypt(fw, dbb.pin, Same))

Reset(pin) ==
    /\ dbb.pin = pin /\ ~fw.lock
    /\ Call(SendEncrypt(fw, pin, Wiped), Forgotten(dbb))

UnlockBootloader ==
    ~fw.lock /\ Command(SendEncrypt(fw, dbb.pin, LAMBDA f : [f EXCEPT !.bootlock = FALSE]))
LockBootloader == Command(SendEncrypt(fw, dbb.pin, LAMBDA f : [f EXCEPT !.bootlock = TRUE]))
Lock == Command(SendEncrypt(fw, dbb.pin, LAMBDA f : [f EXCEPT !.lock = TRUE]))

-----------------------------------------------------------------------------
(* Upgrading the firmware in the bootloader.  The chunk number is a byte   *)
(* that wraps around; a file that makes it do so is too big.               *)

BootloaderUpgradeFirmware(size) ==
    /\ dbb.open /\ dbb.bootloader /\ ~upgrade.upgrading
    /\ upgrade' = [NoUpgrade EXCEPT !.upgrading = TRUE, !.size = size]
    /\ flash' = Empty
    /\ UNCHANGED <<fw, dbb, keystore, lost, plugs>>

NextChunk(n) == (n + 1) % ChunkNumbers
Failed(u) == [u EXCEPT !.upgrading = FALSE]
Advance(u) ==
    LET v == [u EXCEPT !.next = NextChunk(@), !.sent = @ + 1]
    IN  IF v.next = 0 THEN Failed(v) ELSE v
bootloaderSendBin ==
    /\ dbb.open /\ upgrade.upgrading /\ upgrade.sent < upgrade.size
    /\ \/ flash' = [flash EXCEPT ![upgrade.next] = upgrade.sent] /\ upgrade' = Advance(upgrade)
       \/ flash' \in {flash, [flash EXCEPT ![upgrade.next] = upgrade.sent]} /\ upgrade' = Failed(upgrade)
    /\ UNCHANGED <<fw, dbb, keystore, lost, plugs>>

\* The device accepts the signatures if the file is there as a whole.
Complete(f, size) == \A i \in 0..(size - 1) : i < ChunkNumbers /\ f[i] = i
bootloaderSendSigs ==
    /\ dbb.open /\ upgrade.upgrading /\ ~upgrade.successful /\ upgrade.sent = upgrade.size
    /\ \/ /\ Complete(flash, upgrade.size)
          /\ upgrade' = [upgrade EXCEPT !.successful = TRUE]
          /\ fw' = [fw EXCEPT !.version = "supported"]
       \/ upgrade' = Failed(upgrade) /\ UNCHANGED fw
    /\ UNCHANGED <<flash, dbb, keystore, lost, plugs>>

-----------------------------------------------------------------------------
\* The requests of the frontend, one at a time.
Requests ==
    \/ \E pin \in PINs : SetPassword(pin) \/ SetHiddenPassword(pin) \/ Login(pin) \/ Reset(pin)
    \/ \E old, new \in PINs : ChangePassword(old, new)
    \/ CreateWallet \/ RestoreBackup \/ CreateBackup \/ EraseBackup
    \/ Query \/ UnlockBootloader \/ LockBootloader \/ Lock
    \/ \E size \in Sizes : BootloaderUpgradeFirmware(size)

BitBoxNext == NewDevice \/ Close \/ Requests \/ bootloaderSendBin \/ bootloaderSendSigs
BitBoxSpec == BitBoxInit /\ [][BitBoxNext]_bitboxVars
-----------------------------------------------------------------------------
\* As long as no reply was lost, the backend has a keystore only while a device with a
\* wallet and a supported firmware is plugged in, whatever was changed, reset or locked
\* out: the app never forgets to take it back.
KeystoreIsReal ==
    lost = 0 /\ keystore => dbb.open /\ fw.seeded /\ fw.version = "supported"

\* The inductive invariant behind KeystoreIsReal and DoesNoHarm.
Firmwares == [pin : PINs \cup {NoPIN}, hidden : PINs \cup {NoPIN}, seeded : BOOLEAN, backup : BOOLEAN,
              attempts : Nat, bootlock : BOOLEAN, lock : BOOLEAN, version : Versions]
Views == [open : BOOLEAN, bootloader : BOOLEAN, initialized : BOOLEAN, pin : PINs \cup {NoPIN},
          seeded : BOOLEAN, version : Versions]
BitBoxTypeOK ==
    /\ fw \in Firmwares /\ dbb \in Views
    /\ upgrade \in [upgrading : BOOLEAN, successful : BOOLEAN, size : Nat, next : Nat, sent : Nat]
    /\ keystore \in BOOLEAN /\ lost \in Nat

\* What the app knows of the device is so, unless a reply was lost.
Knows(d, f) ==
    /\ d.pin # NoPIN => Accepts(f, d.pin)
    /\ d.seeded => f.seeded /\ d.pin # NoPIN
InUse == dbb.open /\ ~dbb.bootloader
ViewOK ==
    /\ lost = 0 => Knows(dbb, fw) /\ (keystore => dbb.seeded /\ dbb.version = "supported")
    /\ ~InUse => dbb.pin = NoPIN /\ ~dbb.seeded /\ ~keystore
    /\ InUse => dbb.version = fw.version /\ ~upgrade.upgrading

\* What was not sent yet was not written.
FlashOK ==
    upgrade.upgrading =>
        /\ upgrade.next = upgrade.sent /\ upgrade.next < ChunkNumbers
        /\ DOMAIN flash = 0..(ChunkNumbers - 1)
        /\ \A i \in upgrade.next..(ChunkNumbers - 1) : flash[i] = -1

BitBoxInv == BitBoxTypeOK /\ ViewOK /\ FlashOK

\* As long as no reply was lost, only a wrong PIN that the user typed costs one of the
\* attempts after which the device erases itself: the app never sends a command with a PIN
\* that the device no longer has.
AttemptsAreTheUsers ==
    [][lost' = 0 /\ fw'.attempts > fw.attempts => dbb.pin = NoPIN \/ Accepts(fw, dbb.pin)]_bitboxVars

\* A wallet is in use only if its backup could be read back.
BackupBeforeUse == [][~dbb.seeded /\ dbb'.seeded /\ ~fw.seeded => fw'.backup]_bitboxVars

\* A chunk that was written is not overwritten by a later one of the same file, so that a
\* file with more chunks than chunk numbers is refused before it destroys its beginning.
NothingOverwritten ==
    [][upgrade'.sent > upgrade.sent => flash[upgrade.next] = -1]_bitboxVars

\* No step of the app harms the device: neither the attempts that are left, nor the only
\* copy of a wallet, nor the firmware that is being written.
DoesNoHarm == AttemptsAreTheUsers /\ BackupBeforeUse /\ NothingOverwritten
=============================================================================
