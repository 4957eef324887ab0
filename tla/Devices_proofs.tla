---------------------------- MODULE Devices_proofs ----------------------------
(***************************************************************************)
(* Proofs about the devices: the API of the BitBox01 (BitBox) and its      *)
(* mobile (Relay), the manager of the USB devices (UsbDevices) and the     *)
(* upgrades of the BitBox02 (FirmwareUpgrade).                             *)
(***************************************************************************)
EXTENDS BitBox, UsbDevices, FirmwareUpgrade, Relay, NatLemmas, SequenceTheorems, TLAPS

-----------------------------------------------------------------------------
(* BitBox                                                                  *)

\* What a failed attempt does to the device.
LEMMA DeniedType ==
  ASSUME NEW f \in Firmwares
  PROVE  /\ Wiped(f) \in Firmwares /\ Wiped(f).version = f.version
         /\ Denied(f) \in Firmwares /\ Denied(f).version = f.version
  <1>1. Wiped(f) \in Firmwares /\ Wiped(f).version = f.version
    BY DEF Wiped, Firmwares
  <1>2. [f EXCEPT !.attempts = @ + 1] \in Firmwares /\ [f EXCEPT !.attempts = @ + 1].version = f.version
    <2>1. f.attempts \in Nat
      BY DEF Firmwares
    <2> QED BY <2>1 DEF Firmwares
  <1> QED BY <1>1, <1>2 DEF Denied

\* Whether the backend has the keystore is a Boolean, and follows from the new status.
LEMMA StatusChange ==
  ASSUME NEW d \in Views, keystore \in BOOLEAN, onStatusChanged(d)
  PROVE  /\ keystore' \in BOOLEAN
         /\ keystore' => keystore \/ (d.seeded /\ d.version = "supported")
         /\ Status(d) = "uninitialized" => ~keystore'
  <1>1. Status(d) = "seeded" => d.seeded /\ d.version = "supported"
    <2>1. d.version \in {"old", "supported", "newer"}
      BY DEF Views, Versions
    <2>2. CASE ~d.seeded
      BY <2>2 DEF Status
    <2>3. CASE d.seeded /\ d.version = "old"
      BY <2>3 DEF Status
    <2>4. CASE d.seeded /\ d.version = "newer"
      BY <2>4 DEF Status
    <2> QED BY <2>1, <2>2, <2>3, <2>4
  <1>2. CASE Status(d) = "seeded"
    <2>1. keystore' = TRUE \/ keystore' = keystore
      BY <1>2 DEF onStatusChanged
    <2> QED BY <1>1, <1>2, <2>1
  <1>3. CASE Status(d) = "uninitialized"
    <2>1. keystore' = FALSE
      BY <1>3 DEF onStatusChanged
    <2> QED BY <1>3, <2>1
  <1>4. CASE Status(d) \notin {"seeded", "uninitialized"}
    <2>1. keystore' = keystore
      BY <1>4 DEF onStatusChanged
    <2> QED BY <1>4, <2>1
  <1> QED BY <1>2, <1>3, <1>4

\* The results of a command leave the app and the device in step, if none is lost.
ResultsOK(R, d) ==
  \A r \in R :
    /\ r.fw \in Firmwares /\ r.fw.version = fw.version
    /\ Knows(dbb, fw) /\ r.reply # "lost" => Knows(IF r.reply = "ok" THEN d ELSE dbb, r.fw)

\* A command that may change the app's view.
LEMMA CallInv ==
  ASSUME BitBoxInv, NEW R, NEW d \in Views, Call(R, d), ResultsOK(R, d),
         d.open = dbb.open, d.bootloader = dbb.bootloader, d.version = dbb.version,
         dbb.seeded => d.seeded \/ Status(d) = "uninitialized"
  PROVE  BitBoxInv'
  <1>1. PICK r \in R :
          /\ fw' = r.fw /\ CountLost(r)
          /\ IF r.reply = "ok" THEN dbb' = d /\ onStatusChanged(d) ELSE UNCHANGED <<dbb, keystore>>
    BY DEF Call
  <1>2. UNCHANGED <<flash, upgrade>> /\ dbb.open /\ ~dbb.bootloader
    BY DEF Call
  <1>3. BitBoxTypeOK /\ ViewOK /\ FlashOK
    BY DEF BitBoxInv
  <1>4. r.fw \in Firmwares /\ r.fw.version = fw.version
        /\ (Knows(dbb, fw) /\ r.reply # "lost" => Knows(IF r.reply = "ok" THEN d ELSE dbb, r.fw))
    BY DEF ResultsOK
  <1>5. lost' \in Nat /\ (lost' = 0 => lost = 0 /\ r.reply # "lost")
    BY <1>1, <1>3 DEF CountLost, BitBoxTypeOK
  <1>6. CASE r.reply = "ok"
    <2>1. /\ keystore' \in BOOLEAN
          /\ keystore' => keystore \/ (d.seeded /\ d.version = "supported")
          /\ Status(d) = "uninitialized" => ~keystore'
      BY <1>1, <1>3, <1>6, StatusChange DEF BitBoxTypeOK
    <2>2. dbb' = d
      BY <1>1, <1>6
    <2>3. BitBoxTypeOK'
      BY <1>1, <1>2, <1>3, <1>4, <1>5, <2>1, <2>2 DEF BitBoxTypeOK
    <2>4. lost' = 0 => Knows(dbb', fw')
      BY <1>1, <1>3, <1>4, <1>5, <1>6, <2>2 DEF ViewOK
    <2>5. lost' = 0 /\ keystore' => d.seeded /\ d.version = "supported"
      BY <1>3, <1>5, <2>1 DEF ViewOK
    <2>6. ViewOK'
      BY <1>1, <1>2, <1>3, <1>4, <2>2, <2>4, <2>5 DEF ViewOK, InUse, Knows
    <2> QED BY <1>2, <1>3, <2>3, <2>6 DEF BitBoxInv, FlashOK
  <1>7. CASE r.reply # "ok"
    <2>1. UNCHANGED <<dbb, keystore>>
      BY <1>1, <1>7
    <2>2. BitBoxTypeOK'
      BY <1>1, <1>2, <1>3, <1>4, <1>5, <2>1 DEF BitBoxTypeOK
    <2>3. ViewOK'
      BY <1>1, <1>2, <1>3, <1>4, <1>5, <1>7, <2>1 DEF ViewOK, InUse, Knows
    <2> QED BY <1>2, <1>3, <2>1, <2>2, <2>3 DEF BitBoxInv, FlashOK
  <1> QED BY <1>6, <1>7

\* A command that changes nothing in the app.
LEMMA CommandInv ==
  ASSUME BitBoxInv, NEW R, Command(R), ResultsOK(R, dbb)
  PROVE  BitBoxInv'
  <1>1. PICK r \in R : fw' = r.fw /\ CountLost(r)
    BY DEF Command
  <1>2. UNCHANGED <<flash, dbb, upgrade, keystore>>
    BY DEF Command
  <1>3. BitBoxTypeOK /\ ViewOK /\ FlashOK
    BY DEF BitBoxInv
  <1>4. r.fw \in Firmwares /\ r.fw.version = fw.version
        /\ (Knows(dbb, fw) /\ r.reply # "lost" => Knows(dbb, r.fw))
    BY DEF ResultsOK
  <1>5. lost' \in Nat /\ (lost' = 0 => lost = 0 /\ r.reply # "lost")
    BY <1>1, <1>3 DEF CountLost, BitBoxTypeOK
  <1>6. BitBoxTypeOK'
    BY <1>1, <1>2, <1>3, <1>4, <1>5 DEF BitBoxTypeOK
  <1>7. ViewOK'
    BY <1>1, <1>2, <1>3, <1>4, <1>5 DEF ViewOK, InUse, Knows
  <1> QED BY <1>2, <1>3, <1>6, <1>7 DEF BitBoxInv, FlashOK

\* The results of one encrypted command that makes h of the device.
Sent(f, pin, h) ==
  IF Accepts(f, pin) THEN Executed([f EXCEPT !.attempts = 0], h)
  ELSE {Result(Denied(f), "denied"), Result(Denied(f), "lost")}

LEMMA SentOK ==
  ASSUME BitBoxInv, NEW d, NEW h \in Firmwares, h.version = fw.version,
         Accepts(fw, dbb.pin) /\ Knows(dbb, fw) => Knows(d, h)
  PROVE  ResultsOK(Sent(fw, dbb.pin, h), d)
  <1> DEFINE g == [fw EXCEPT !.attempts = 0]
  <1>1. fw \in Firmwares
    BY DEF BitBoxInv, BitBoxTypeOK
  <1>2. g \in Firmwares /\ g.version = fw.version /\ (Knows(dbb, fw) => Knows(dbb, g))
    BY <1>1 DEF Firmwares, Knows, Accepts
  <1> HIDE DEF g
  <1>3. CASE Accepts(fw, dbb.pin)
    <2>1. Sent(fw, dbb.pin, h) = {Result(g, "error"), Result(h, "ok"), Result(h, "lost")}
      BY <1>3 DEF Sent, Executed, g
    <2> QED BY <1>2, <1>3, <2>1 DEF ResultsOK, Result
  <1>4. CASE ~Accepts(fw, dbb.pin)
    <2>1. Sent(fw, dbb.pin, h) = {Result(Denied(fw), "denied"), Result(Denied(fw), "lost")}
      BY <1>4 DEF Sent
    <2>2. Knows(dbb, fw) => Knows(dbb, Denied(fw))
      BY <1>4 DEF Knows
    <2> QED BY <1>1, <2>1, <2>2, DeniedType DEF ResultsOK, Result
  <1> QED BY <1>3, <1>4

\* What happens to the firmware's PINs and wallet is told by these fields.
LEMMA KnowsSame ==
  ASSUME NEW d, NEW f, NEW g, Knows(d, f), f.pin = g.pin, f.hidden = g.hidden, f.seeded => g.seeded
  PROVE  Knows(d, g)
  BY DEF Knows, Accepts

\* The commands that leave the PINs and the wallet alone.
LEMMA PlainCommands ==
  ASSUME BitBoxInv,
         \/ Query \/ CreateBackup \/ EraseBackup \/ UnlockBootloader \/ LockBootloader \/ Lock
  PROVE  BitBoxInv'
  <1> DEFINE g == [fw EXCEPT !.attempts = 0]
  <1>1. fw \in Firmwares
    BY DEF BitBoxInv, BitBoxTypeOK
  <1>2. ASSUME NEW h \in Firmwares, h.version = fw.version, h.pin = fw.pin, h.hidden = fw.hidden,
               h.seeded = fw.seeded, Command(Sent(fw, dbb.pin, h))
        PROVE  BitBoxInv'
    <2>1. Knows(dbb, fw) => Knows(dbb, h)
      BY <1>2, KnowsSame
    <2>2. ResultsOK(Sent(fw, dbb.pin, h), dbb)
      BY <1>2, <2>1, SentOK
    <2> QED BY <1>2, <2>2, CommandInv
  <1>3. CASE Query
    <2>1. g \in Firmwares /\ g.version = fw.version /\ g.pin = fw.pin /\ g.hidden = fw.hidden
          /\ g.seeded = fw.seeded
      BY <1>1 DEF Firmwares
    <2>2. Command(Sent(fw, dbb.pin, g))
      BY <1>3 DEF Query, SendEncrypt, Sent, Same
    <2> QED BY <1>2, <2>1, <2>2
  <1>4. CASE CreateBackup
    <2> DEFINE h == [g EXCEPT !.backup = TRUE]
    <2>1. h \in Firmwares /\ h.version = fw.version /\ h.pin = fw.pin /\ h.hidden = fw.hidden
          /\ h.seeded = fw.seeded
      BY <1>1 DEF Firmwares
    <2>2. Command(Sent(fw, dbb.pin, h))
      BY <1>4 DEF CreateBackup, SendEncrypt, Sent
    <2> QED BY <1>2, <2>1, <2>2
  <1>5. CASE EraseBackup
    <2> DEFINE h == [g EXCEPT !.backup = FALSE]
    <2>1. h \in Firmwares /\ h.version = fw.version /\ h.pin = fw.pin /\ h.hidden = fw.hidden
          /\ h.seeded = fw.seeded
      BY <1>1 DEF Firmwares
    <2>2. Command(Sent(fw, dbb.pin, h))
      BY <1>5 DEF EraseBackup, SendEncrypt, Sent
    <2> QED BY <1>2, <2>1, <2>2
  <1>6. CASE UnlockBootloader
    <2> DEFINE h == [g EXCEPT !.bootlock = FALSE]
    <2>1. h \in Firmwares /\ h.version = fw.version /\ h.pin = fw.pin /\ h.hidden = fw.hidden
          /\ h.seeded = fw.seeded
      BY <1>1 DEF Firmwares
    <2>2. Command(Sent(fw, dbb.pin, h))
      BY <1>6 DEF UnlockBootloader, SendEncrypt, Sent
    <2> QED BY <1>2, <2>1, <2>2
  <1>7. CASE LockBootloader
    <2> DEFINE h == [g EXCEPT !.bootlock = TRUE]
    <2>1. h \in Firmwares /\ h.version = fw.version /\ h.pin = fw.pin /\ h.hidden = fw.hidden
          /\ h.seeded = fw.seeded
      BY <1>1 DEF Firmwares
    <2>2. Command(Sent(fw, dbb.pin, h))
      BY <1>7 DEF LockBootloader, SendEncrypt, Sent
    <2> QED BY <1>2, <2>1, <2>2
  <1>8. CASE Lock
    <2> DEFINE h == [g EXCEPT !.lock = TRUE]
    <2>1. h \in Firmwares /\ h.version = fw.version /\ h.pin = fw.pin /\ h.hidden = fw.hidden
          /\ h.seeded = fw.seeded
      BY <1>1 DEF Firmwares
    <2>2. Command(Sent(fw, dbb.pin, h))
      BY <1>8 DEF Lock, SendEncrypt, Sent
    <2> QED BY <1>2, <2>1, <2>2
  <1> QED BY <1>3, <1>4, <1>5, <1>6, <1>7, <1>8

\* The commands that change a PIN.
LEMMA PinCommands ==
  ASSUME BitBoxInv, NEW pin \in PINs,
         \/ SetPassword(pin) \/ SetHiddenPassword(pin) \/ Reset(pin)
         \/ \E old \in PINs : ChangePassword(old, pin)
  PROVE  BitBoxInv'
  <1> DEFINE g == [fw EXCEPT !.attempts = 0]
  <1> USE BitBoxAssumption
  <1>1. fw \in Firmwares /\ dbb \in Views /\ g \in Firmwares
    BY DEF BitBoxInv, BitBoxTypeOK, Firmwares
  <1>2. CASE SetPassword(pin)
    <2> DEFINE h == [fw EXCEPT !.pin = pin]
               d == [dbb EXCEPT !.pin = pin]
               R == IF fw.pin = NoPIN THEN {Result(fw, "error"), Result(h, "ok"), Result(h, "lost")}
                    ELSE {Result(fw, "error")}
    <2>1. Call(R, d) /\ ~dbb.seeded
      BY <1>2 DEF SetPassword, SendPlain, Executed, Status
    <2>2. /\ h \in Firmwares /\ h.version = fw.version /\ d \in Views
          /\ d.open = dbb.open /\ d.bootloader = dbb.bootloader /\ d.version = dbb.version
          /\ d.seeded = dbb.seeded
      BY <1>1 DEF Firmwares, Views
    <2>3. Knows(d, h)
      BY <1>1, <2>1 DEF Knows, Accepts, Firmwares, Views
    <2> HIDE DEF h, d
    <2>4. ResultsOK(R, d)
      BY <1>1, <2>2, <2>3 DEF ResultsOK, Result
    <2> HIDE DEF R
    <2> QED BY <2>1, <2>2, <2>4, CallInv
  <1>3. CASE SetHiddenPassword(pin)
    <2> DEFINE h == Hides(g, dbb.pin, pin)
    <2>1. Command(Sent(fw, dbb.pin, h))
      BY <1>3 DEF SetHiddenPassword, SendEncrypt, Sent
    <2>2. h \in Firmwares /\ h.version = fw.version
      BY <1>1 DEF Hides, Firmwares
    <2>3. Accepts(fw, dbb.pin) /\ Knows(dbb, fw) => Knows(dbb, h)
      BY <1>1 DEF Knows, Accepts, Hides, Firmwares
    <2> HIDE DEF h
    <2>4. ResultsOK(Sent(fw, dbb.pin, h), dbb)
      BY <2>2, <2>3, SentOK
    <2> QED BY <2>1, <2>4, CommandInv
  <1>4. CASE Reset(pin)
    <2> DEFINE h == Wiped(g)
               d == Forgotten(dbb)
    <2>1. Call(Sent(fw, dbb.pin, h), d)
      BY <1>4 DEF Reset, SendEncrypt, Sent
    <2>2. h \in Firmwares /\ h.version = g.version /\ g.version = fw.version
      BY <1>1, DeniedType DEF Firmwares
    <2>3. /\ d \in Views /\ d.open = dbb.open /\ d.bootloader = dbb.bootloader
          /\ d.version = dbb.version /\ ~d.seeded /\ d.pin = NoPIN /\ ~d.initialized
      BY <1>1 DEF Forgotten, Views
    <2>4. Knows(d, h)
      BY <2>3 DEF Knows
    <2> HIDE DEF h, d
    <2>5. Status(d) = "uninitialized"
      BY <2>1, <2>3 DEF Call, Status
    <2>6. ResultsOK(Sent(fw, dbb.pin, h), d)
      BY <2>2, <2>4, SentOK
    <2> QED BY <2>1, <2>3, <2>5, <2>6, CallInv
  <1>5. ASSUME NEW old \in PINs, ChangePassword(old, pin) PROVE BitBoxInv'
    <2> DEFINE h == Repinned(g, old, pin)
               d == [dbb EXCEPT !.pin = pin]
    <2>1. Call(Sent(fw, dbb.pin, h), d) /\ dbb.pin = old
      BY <1>5 DEF ChangePassword, SendEncrypt, Sent
    <2>2. h \in Firmwares /\ h.version = fw.version
      BY <1>1 DEF Repinned, Firmwares
    <2>3. /\ d \in Views /\ d.open = dbb.open /\ d.bootloader = dbb.bootloader
          /\ d.version = dbb.version /\ d.seeded = dbb.seeded /\ d.pin = pin
      BY <1>1 DEF Views
    <2>4. Knows(dbb, fw) => Knows(d, h)
      <3>1. Accepts(h, pin) /\ h.seeded = fw.seeded
        BY <1>1 DEF Accepts, Repinned, Firmwares
      <3> HIDE DEF h, d
      <3> QED BY <2>3, <3>1 DEF Knows
    <2> HIDE DEF h, d
    <2>5. ResultsOK(Sent(fw, dbb.pin, h), d)
      BY <2>2, <2>4, SentOK
    <2> QED BY <2>1, <2>3, <2>5, CallInv
  <1> QED BY <1>2, <1>3, <1>4, <1>5

\* Seeding: the steps of the wallet commands keep the PINs and never unseed the device.
PINsKept(f, h) ==
  /\ h \in Firmwares /\ h.version = f.version /\ h.pin = f.pin /\ h.hidden = f.hidden
  /\ f.seeded => h.seeded
\* Either the PIN is the device's, and the results keep it, or nothing succeeds.
ResultsKeep(R, f, pin) ==
  \A r \in R : IF Accepts(f, pin) THEN PINsKept(f, r.fw)
               ELSE r.reply # "ok" /\ r.fw \in Firmwares /\ r.fw.version = f.version

LEMMA SentKeeps ==
  ASSUME NEW f \in Firmwares, NEW pin, NEW h, PINsKept(f, h)
  PROVE  /\ ResultsKeep(Sent(f, pin, h), f, pin)
         /\ \A r \in Sent(f, pin, h) : r.reply = "ok" => r.fw = h
  <1> DEFINE g == [f EXCEPT !.attempts = 0]
  <1>1. PINsKept(f, g)
    BY DEF PINsKept, Firmwares
  <1> HIDE DEF g
  <1>2. CASE Accepts(f, pin)
    <2>1. Sent(f, pin, h) = {Result(g, "error"), Result(h, "ok"), Result(h, "lost")}
      BY <1>2 DEF Sent, Executed, g
    <2> QED BY <1>1, <1>2, <2>1 DEF ResultsKeep, Result
  <1>3. CASE ~Accepts(f, pin)
    <2>1. Sent(f, pin, h) = {Result(Denied(f), "denied"), Result(Denied(f), "lost")}
      BY <1>3 DEF Sent
    <2> QED BY <1>3, <2>1, DeniedType DEF ResultsKeep, Result
  <1> QED BY <1>2, <1>3

\* The wallet commands end well only if the device has a wallet whose backup could be read.
LEMMA SeedKeeps ==
  ASSUME NEW f \in Firmwares, NEW source
  PROVE  /\ ResultsKeep(seed(f, source), f, dbb.pin)
         /\ \A r \in seed(f, source) : r.reply = "ok" => r.fw.seeded /\ r.fw.backup
  <1> DEFINE g == [f EXCEPT !.attempts = 0]
             First == IF source = "backup"
                      THEN IF f.backup THEN Sent(f, dbb.pin, [g EXCEPT !.seeded = TRUE])
                           ELSE {Result(f, "error")}
                      ELSE UNION {Sent(f, dbb.pin, [g EXCEPT !.seeded = TRUE, !.backup = k.backup]) :
                                    k \in Seeded(f)}
  <1>1. seed(f, source) = {r \in First : r.reply # "ok"}
                          \cup UNION {Check(r.fw) : r \in {r \in First : r.reply = "ok"}}
    BY DEF seed, Then, SendEncrypt, Sent
  <1>2. ResultsKeep(First, f, dbb.pin) /\ \A r \in First : r.reply = "ok" => r.fw.seeded
    <2>1. CASE source = "backup" /\ f.backup
      <3> DEFINE h == [g EXCEPT !.seeded = TRUE]
      <3>1. PINsKept(f, h) /\ h.seeded
        BY DEF PINsKept, Firmwares
      <3>2. First = Sent(f, dbb.pin, h)
        BY <2>1
      <3> HIDE DEF h, First
      <3> QED BY <3>1, <3>2, SentKeeps
    <2>2. CASE source = "backup" /\ ~f.backup
      BY <2>2 DEF ResultsKeep, Result, PINsKept
    <2>3. CASE source # "backup"
      <3>1. ASSUME NEW r \in First
            PROVE  \E b \in BOOLEAN : r \in Sent(f, dbb.pin, [g EXCEPT !.seeded = TRUE, !.backup = b])
        <4>1. PICK k \in Seeded(f) : r \in Sent(f, dbb.pin, [g EXCEPT !.seeded = TRUE, !.backup = k.backup])
          BY <2>3, <3>1
        <4>2. k.backup \in BOOLEAN
          BY <4>1 DEF Seeded, Firmwares
        <4> QED BY <4>1, <4>2
      <3>2. ASSUME NEW b \in BOOLEAN
            PROVE  /\ PINsKept(f, [g EXCEPT !.seeded = TRUE, !.backup = b])
                   /\ [g EXCEPT !.seeded = TRUE, !.backup = b].seeded
        BY DEF PINsKept, Firmwares
      <3> HIDE DEF First
      <3>3. ASSUME NEW r \in First
            PROVE  /\ IF Accepts(f, dbb.pin) THEN PINsKept(f, r.fw)
                      ELSE r.reply # "ok" /\ r.fw \in Firmwares /\ r.fw.version = f.version
                   /\ r.reply = "ok" => r.fw.seeded
        <4>1. PICK b \in BOOLEAN : r \in Sent(f, dbb.pin, [g EXCEPT !.seeded = TRUE, !.backup = b])
          BY <3>1
        <4> DEFINE h == [g EXCEPT !.seeded = TRUE, !.backup = b]
        <4>2. PINsKept(f, h) /\ h.seeded
          BY <3>2
        <4>3. r \in Sent(f, dbb.pin, h)
          BY <4>1
        <4> HIDE DEF h
        <4> QED BY <4>2, <4>3, SentKeeps DEF ResultsKeep
      <3> QED BY <3>3 DEF ResultsKeep
    <2> QED BY <2>1, <2>2, <2>3
  <1>3. ASSUME NEW q \in First, q.reply = "ok", NEW r \in Check(q.fw)
        PROVE  /\ IF Accepts(f, dbb.pin) THEN PINsKept(f, r.fw) ELSE FALSE
               /\ r.reply = "ok" => r.fw.seeded /\ r.fw.backup
    <2> HIDE DEF First
    <2> DEFINE h == [q.fw EXCEPT !.attempts = 0]
    <2>1. Accepts(f, dbb.pin) /\ PINsKept(f, q.fw) /\ q.fw.seeded /\ q.fw \in Firmwares
      BY <1>2, <1>3 DEF ResultsKeep, PINsKept
    <2>2. Accepts(q.fw, dbb.pin)
      BY <2>1 DEF Accepts, PINsKept
    <2>3. CASE q.fw.backup
      <3>1. PINsKept(q.fw, h) /\ h.backup
        BY <2>1, <2>3 DEF PINsKept, Firmwares
      <3>2. r \in Sent(q.fw, dbb.pin, h)
        BY <1>3, <2>3 DEF Check, SendEncrypt, Sent, Same
      <3> HIDE DEF h
      <3>3. PINsKept(q.fw, r.fw) /\ (r.reply = "ok" => r.fw = h)
        BY <2>1, <2>2, <3>1, <3>2, SentKeeps DEF ResultsKeep
      <3> QED BY <2>1, <3>1, <3>3 DEF PINsKept
    <2>4. CASE ~q.fw.backup
      BY <1>3, <2>1, <2>4 DEF Check, Result
    <2> QED BY <2>3, <2>4
  <1>4. ASSUME NEW r \in seed(f, source)
        PROVE  \/ r \in First /\ r.reply # "ok"
               \/ \E q \in First : q.reply = "ok" /\ r \in Check(q.fw)
    <2> HIDE DEF First
    <2> QED BY <1>1, <1>4
  <1> HIDE DEF First
  <1>5. ASSUME NEW r \in seed(f, source)
        PROVE  /\ IF Accepts(f, dbb.pin) THEN PINsKept(f, r.fw)
                  ELSE r.reply # "ok" /\ r.fw \in Firmwares /\ r.fw.version = f.version
               /\ r.reply = "ok" => r.fw.seeded /\ r.fw.backup
    <2>1. CASE r \in First /\ r.reply # "ok"
      BY <1>2, <2>1 DEF ResultsKeep
    <2>2. CASE \E q \in First : q.reply = "ok" /\ r \in Check(q.fw)
      BY <1>3, <2>2
    <2> QED BY <1>4, <2>1, <2>2
  <1> QED BY <1>5 DEF ResultsKeep

\* CreateWallet and RestoreBackup.
WalletResults ==
  {Then(SendEncrypt(fw, dbb.pin, Same), LAMBDA f : seed(f, "create")), seed(fw, "backup")}

LEMMA WalletKeeps ==
  ASSUME fw \in Firmwares, NEW R \in WalletResults
  PROVE  /\ ResultsKeep(R, fw, dbb.pin)
         /\ \A r \in R : r.reply = "ok" => r.fw.seeded /\ r.fw.backup
  <1> DEFINE g == [fw EXCEPT !.attempts = 0]
             First == Sent(fw, dbb.pin, g)
  <1>1. CASE R = seed(fw, "backup")
    BY <1>1, SeedKeeps
  <1>2. CASE R = Then(SendEncrypt(fw, dbb.pin, Same), LAMBDA f : seed(f, "create"))
    <2>1. R = {r \in First : r.reply # "ok"}
              \cup UNION {seed(r.fw, "create") : r \in {r \in First : r.reply = "ok"}}
      BY <1>2 DEF Then, SendEncrypt, Sent, Same
    <2>2. PINsKept(fw, g)
      BY DEF PINsKept, Firmwares
    <2> HIDE DEF g
    <2>3. ResultsKeep(First, fw, dbb.pin)
      BY <2>2, SentKeeps
    <2> HIDE DEF First
    <2>4. ASSUME NEW r \in R
          PROVE  /\ IF Accepts(fw, dbb.pin) THEN PINsKept(fw, r.fw)
                    ELSE r.reply # "ok" /\ r.fw \in Firmwares /\ r.fw.version = fw.version
                 /\ r.reply = "ok" => r.fw.seeded /\ r.fw.backup
      <3>1. CASE r \in First /\ r.reply # "ok"
        BY <2>3, <3>1 DEF ResultsKeep
      <3>2. ASSUME NEW q \in First, q.reply = "ok", r \in seed(q.fw, "create")
            PROVE  /\ Accepts(fw, dbb.pin) /\ PINsKept(fw, r.fw)
                   /\ r.reply = "ok" => r.fw.seeded /\ r.fw.backup
        <4>1. Accepts(fw, dbb.pin) /\ PINsKept(fw, q.fw) /\ q.fw \in Firmwares
          BY <2>3, <3>2 DEF ResultsKeep, PINsKept
        <4>2. Accepts(q.fw, dbb.pin)
          BY <4>1 DEF Accepts, PINsKept
        <4>3. PINsKept(q.fw, r.fw) /\ (r.reply = "ok" => r.fw.seeded /\ r.fw.backup)
          BY <3>2, <4>1, <4>2, SeedKeeps DEF ResultsKeep
        <4> QED BY <4>1, <4>3 DEF PINsKept
      <3> QED BY <2>1, <3>1, <3>2
    <2> QED BY <2>4 DEF ResultsKeep
  <1> QED BY <1>1, <1>2 DEF WalletResults

LEMMA WalletCommands ==
  ASSUME BitBoxInv, CreateWallet \/ RestoreBackup
  PROVE  BitBoxInv'
  <1> DEFINE d == [dbb EXCEPT !.seeded = TRUE]
  <1>1. fw \in Firmwares /\ dbb \in Views
    BY DEF BitBoxInv, BitBoxTypeOK
  <1>2. PICK R \in WalletResults : Call(R, d)
    BY DEF CreateWallet, RestoreBackup, WalletResults
  <1>3. /\ d \in Views /\ d.open = dbb.open /\ d.bootloader = dbb.bootloader
        /\ d.version = dbb.version /\ d.seeded /\ d.pin = dbb.pin
    BY <1>1 DEF Views
  <1> HIDE DEF d
  <1>4. ResultsOK(R, d)
    <2> SUFFICES ASSUME NEW r \in R
                 PROVE  /\ r.fw \in Firmwares /\ r.fw.version = fw.version
                        /\ Knows(dbb, fw) /\ r.reply # "lost" =>
                             Knows(IF r.reply = "ok" THEN d ELSE dbb, r.fw)
      BY DEF ResultsOK
    <2>1. /\ IF Accepts(fw, dbb.pin) THEN PINsKept(fw, r.fw)
             ELSE r.reply # "ok" /\ r.fw \in Firmwares /\ r.fw.version = fw.version
          /\ r.reply = "ok" => r.fw.seeded
      BY <1>1, WalletKeeps DEF ResultsKeep
    <2>2. CASE Accepts(fw, dbb.pin)
      <3>1. Knows(dbb, fw) => Knows(dbb, r.fw)
        BY <2>1, <2>2, KnowsSame DEF PINsKept
      <3>2. r.reply = "ok" => Knows(d, r.fw)
        BY <1>3, <2>1, <2>2 DEF Knows, Accepts, PINsKept
      <3> QED BY <2>1, <2>2, <3>1, <3>2 DEF PINsKept
    <2>3. CASE ~Accepts(fw, dbb.pin)
      <3>1. Knows(dbb, fw) => Knows(dbb, r.fw)
        BY <2>3 DEF Knows
      <3> QED BY <2>1, <2>3, <3>1
    <2> QED BY <2>2, <2>3
  <1> QED BY <1>2, <1>3, <1>4, CallInv

\* Login: a wrong PIN costs an attempt, and the last one the wallet.
LEMMA LoginInv ==
  ASSUME BitBoxInv, NEW pin \in PINs, Login(pin)
  PROVE  BitBoxInv'
  <1> DEFINE g == [fw EXCEPT !.attempts = 0]
  <1>1. /\ fw \in Firmwares /\ dbb \in Views /\ ViewOK /\ FlashOK /\ BitBoxTypeOK
        /\ keystore \in BOOLEAN /\ lost \in Nat
    BY DEF BitBoxInv, BitBoxTypeOK
  <1>2. dbb.open /\ ~dbb.bootloader /\ UNCHANGED <<flash, upgrade>>
    BY DEF Login
  <1>3. PICK r \in Sent(fw, pin, g) :
        \/ /\ r.reply = "ok"
           /\ dbb' = LoggedIn(dbb, pin, r.fw) /\ onStatusChanged(LoggedIn(dbb, pin, r.fw))
           /\ IF r.fw.bootlock THEN fw' = r.fw /\ UNCHANGED lost
              ELSE \E l \in Sent(r.fw, pin, [[r.fw EXCEPT !.attempts = 0] EXCEPT !.bootlock = TRUE]) :
                    fw' = l.fw /\ CountLost(l)
        \/ /\ r.reply = "denied" /\ r.fw.pin = NoPIN
           /\ fw' = r.fw
           /\ \/ /\ lost' = lost /\ dbb' = Forgotten(dbb) /\ onStatusChanged(dbb')
              \/ lost' = lost + 1 /\ UNCHANGED <<dbb, keystore>>
        \/ /\ r.reply # "ok" /\ (r.reply = "denied" => r.fw.pin # NoPIN)
           /\ fw' = r.fw /\ CountLost(r) /\ UNCHANGED <<dbb, keystore>>
    <2>1. PICK r \in SendEncrypt(fw, pin, Same) :
        \/ /\ r.reply = "ok"
           /\ dbb' = LoggedIn(dbb, pin, r.fw) /\ onStatusChanged(LoggedIn(dbb, pin, r.fw))
           /\ IF r.fw.bootlock THEN fw' = r.fw /\ UNCHANGED lost
              ELSE \E l \in SendEncrypt(r.fw, pin, LAMBDA f : [f EXCEPT !.bootlock = TRUE]) :
                    fw' = l.fw /\ CountLost(l)
        \/ /\ r.reply = "denied" /\ r.fw.pin = NoPIN
           /\ fw' = r.fw
           /\ \E ping \in SendPlain(r.fw, Same) :
                /\ CountLost([reply |-> IF ping.reply = "ok" THEN "ok" ELSE "lost"])
                /\ IF ping.reply = "ok"
                   THEN dbb' = Forgotten(dbb) /\ onStatusChanged(dbb')
                   ELSE UNCHANGED <<dbb, keystore>>
        \/ /\ r.reply # "ok" /\ (r.reply = "denied" => r.fw.pin # NoPIN)
           /\ fw' = r.fw /\ CountLost(r) /\ UNCHANGED <<dbb, keystore>>
      BY DEF Login
    <2>2. SendEncrypt(fw, pin, Same) = Sent(fw, pin, g)
      BY DEF SendEncrypt, Sent, Same
    <2>3. SendEncrypt(r.fw, pin, LAMBDA f : [f EXCEPT !.bootlock = TRUE])
          = Sent(r.fw, pin, [[r.fw EXCEPT !.attempts = 0] EXCEPT !.bootlock = TRUE])
      BY DEF SendEncrypt, Sent
    <2>4. ASSUME NEW ping, CountLost([reply |-> IF ping.reply = "ok" THEN "ok" ELSE "lost"])
          PROVE  lost' = IF ping.reply = "ok" THEN lost ELSE lost + 1
      BY <2>4 DEF CountLost
    <2> HIDE DEF g
    <2> QED BY <2>1, <2>2, <2>3, <2>4
  <1>4. PINsKept(fw, g)
    BY <1>1 DEF PINsKept, Firmwares
  <1> HIDE DEF g
  <1>5. /\ IF Accepts(fw, pin) THEN PINsKept(fw, r.fw)
           ELSE r.reply # "ok" /\ r.fw \in Firmwares /\ r.fw.version = fw.version
        /\ r.fw \in Firmwares /\ r.fw.version = fw.version
    BY <1>1, <1>3, <1>4, SentKeeps DEF ResultsKeep, PINsKept
  <1>6. CASE /\ r.reply = "ok"
             /\ dbb' = LoggedIn(dbb, pin, r.fw) /\ onStatusChanged(LoggedIn(dbb, pin, r.fw))
             /\ IF r.fw.bootlock THEN fw' = r.fw /\ UNCHANGED lost
                ELSE \E l \in Sent(r.fw, pin, [[r.fw EXCEPT !.attempts = 0] EXCEPT !.bootlock = TRUE]) :
                      fw' = l.fw /\ CountLost(l)
    <2> DEFINE d == LoggedIn(dbb, pin, r.fw)
               h == [[r.fw EXCEPT !.attempts = 0] EXCEPT !.bootlock = TRUE]
    <2>1. Accepts(fw, pin) /\ PINsKept(fw, r.fw) /\ Accepts(r.fw, pin)
      BY <1>5, <1>6 DEF PINsKept, Accepts
    <2>2. PINsKept(r.fw, h)
      BY <1>5 DEF PINsKept, Firmwares
    <2>3. /\ d \in Views /\ d.open = dbb.open /\ d.bootloader = dbb.bootloader
          /\ d.version = dbb.version /\ d.seeded = r.fw.seeded /\ d.pin = pin
      BY <1>1, <1>5 DEF LoggedIn, Views, Firmwares
    <2>4. dbb' = d /\ onStatusChanged(d)
      BY <1>6
    <2> HIDE DEF d, h
    <2>5. PINsKept(r.fw, fw') /\ lost' \in Nat /\ (lost' = 0 => lost = 0)
      <3>1. CASE r.fw.bootlock
        BY <1>1, <1>5, <1>6, <3>1 DEF PINsKept
      <3>2. CASE ~r.fw.bootlock
        <4>1. PICK l \in Sent(r.fw, pin, h) : fw' = l.fw /\ CountLost(l)
          BY <1>6, <3>2 DEF h
        <4>2. PINsKept(r.fw, l.fw)
          BY <1>5, <2>1, <2>2, <4>1, SentKeeps DEF ResultsKeep
        <4> QED BY <1>1, <4>1, <4>2 DEF CountLost
      <3> QED BY <3>1, <3>2
    <2>6. PINsKept(fw, fw')
      BY <2>1, <2>5 DEF PINsKept
    <2>7. keystore' \in BOOLEAN /\ (keystore' => keystore \/ (d.seeded /\ d.version = "supported"))
      BY <1>1, <2>3, <2>4, StatusChange
    <2>8. Knows(dbb', fw')
      BY <2>1, <2>3, <2>4, <2>5, BitBoxAssumption DEF Knows, PINsKept, Accepts
    <2>9. keystore' /\ lost' = 0 => d.seeded /\ d.version = "supported"
      BY <1>1, <2>1, <2>3, <2>5, <2>7 DEF ViewOK, Knows, PINsKept
    <2>10. BitBoxTypeOK'
      BY <1>1, <1>2, <2>3, <2>4, <2>5, <2>7 DEF BitBoxTypeOK, PINsKept
    <2>11. ViewOK'
      BY <1>1, <1>2, <2>3, <2>4, <2>6, <2>8, <2>9 DEF ViewOK, InUse, PINsKept
    <2> QED BY <1>1, <1>2, <2>10, <2>11 DEF BitBoxInv, FlashOK
  <1>7. CASE /\ fw' = r.fw /\ lost' = lost /\ dbb' = Forgotten(dbb) /\ onStatusChanged(dbb')
    <2> DEFINE d == Forgotten(dbb)
    <2>1. /\ d \in Views /\ d.open = dbb.open /\ d.bootloader = dbb.bootloader
          /\ d.version = dbb.version /\ ~d.seeded /\ d.pin = NoPIN /\ ~d.initialized
      BY <1>1 DEF Forgotten, Views
    <2>2. dbb' = d /\ onStatusChanged(d)
      BY <1>7
    <2> HIDE DEF d
    <2>3. Status(d) = "uninitialized"
      BY <1>2, <2>1 DEF Status
    <2>4. keystore' \in BOOLEAN /\ ~keystore'
      BY <1>1, <2>1, <2>2, <2>3, StatusChange
    <2>5. BitBoxTypeOK'
      BY <1>1, <1>2, <1>5, <1>7, <2>1, <2>2, <2>4 DEF BitBoxTypeOK
    <2>6. ViewOK'
      BY <1>1, <1>2, <1>5, <1>7, <2>1, <2>2, <2>4 DEF ViewOK, InUse, Knows
    <2> QED BY <1>1, <1>2, <2>5, <2>6 DEF BitBoxInv, FlashOK
  <1>8. CASE fw' = r.fw /\ lost' \in Nat /\ lost' > 0 /\ UNCHANGED <<dbb, keystore>>
    <2>1. BitBoxTypeOK'
      BY <1>1, <1>2, <1>5, <1>8 DEF BitBoxTypeOK
    <2>2. ViewOK'
      BY <1>1, <1>2, <1>5, <1>8 DEF ViewOK, InUse
    <2> QED BY <1>1, <1>2, <1>8, <2>1, <2>2 DEF BitBoxInv, FlashOK
  <1>9. CASE /\ r.reply # "ok" /\ r.reply # "lost" /\ (r.reply = "denied" => r.fw.pin # NoPIN)
             /\ fw' = r.fw /\ lost' = lost /\ UNCHANGED <<dbb, keystore>>
    <2>1. r.fw.pin = fw.pin /\ r.fw.hidden = fw.hidden /\ r.fw.seeded = fw.seeded
      <3>1. CASE Accepts(fw, pin)
        <4>1. Sent(fw, pin, g) = {Result(g, "error"), Result(g, "ok"), Result(g, "lost")}
          BY <3>1 DEF Sent, Executed, g
        <4>2. r.fw = g
          BY <1>3, <4>1 DEF Result
        <4> QED BY <1>1, <4>2 DEF g, Firmwares
      <3>2. CASE ~Accepts(fw, pin)
        <4>1. Sent(fw, pin, g) = {Result(Denied(fw), "denied"), Result(Denied(fw), "lost")}
          BY <3>2 DEF Sent
        <4>2. r.fw = Denied(fw) /\ r.fw.pin # NoPIN
          BY <1>3, <1>9, <4>1 DEF Result
        <4>3. Wiped(fw).pin = NoPIN
          BY <1>1 DEF Wiped, Firmwares
        <4>4. Denied(fw) = fw \/ Denied(fw) = [fw EXCEPT !.attempts = @ + 1]
          BY <4>2, <4>3 DEF Denied
        <4> QED BY <1>1, <4>2, <4>4 DEF Firmwares
      <3> QED BY <3>1, <3>2
    <2>2. Knows(dbb, fw) => Knows(dbb, r.fw)
      BY <2>1, KnowsSame
    <2>3. BitBoxTypeOK'
      BY <1>1, <1>2, <1>5, <1>9 DEF BitBoxTypeOK
    <2>4. ViewOK'
      BY <1>1, <1>2, <1>5, <1>9, <2>2 DEF ViewOK, InUse
    <2> QED BY <1>1, <1>2, <1>9, <2>3, <2>4 DEF BitBoxInv, FlashOK
  <1>10. CASE r.reply = "lost" /\ CountLost(r) /\ fw' = r.fw /\ UNCHANGED <<dbb, keystore>>
    BY <1>1, <1>8, <1>10 DEF CountLost
  <1>11. CASE /\ r.reply # "ok" /\ r.reply # "lost" /\ (r.reply = "denied" => r.fw.pin # NoPIN)
              /\ fw' = r.fw /\ CountLost(r) /\ UNCHANGED <<dbb, keystore>>
    BY <1>9, <1>11 DEF CountLost
  <1>12. CASE fw' = r.fw /\ lost' = lost + 1 /\ UNCHANGED <<dbb, keystore>>
    BY <1>1, <1>8, <1>12
  <1> QED BY <1>3, <1>6, <1>7, <1>10, <1>11, <1>12

\* Plugging in and unplugging, with or without the bootloader.
LEMMA PluggingInv ==
  ASSUME BitBoxInv, NewDevice \/ Close
  PROVE  BitBoxInv'
  <1>1. /\ fw \in Firmwares /\ dbb \in Views /\ ViewOK /\ FlashOK /\ keystore \in BOOLEAN /\ lost \in Nat
        /\ upgrade \in [upgrading : BOOLEAN, successful : BOOLEAN, size : Nat, next : Nat, sent : Nat]
    BY DEF BitBoxInv, BitBoxTypeOK
  <1>2. CASE NewDevice
    <2>1. ~keystore
      BY <1>1, <1>2 DEF NewDevice, ViewOK, InUse
    <2>2. fw.version \in Versions /\ (fw.pin # NoPIN) \in BOOLEAN
      BY <1>1 DEF Firmwares
    <2>3. /\ dbb' \in Views /\ dbb'.pin = NoPIN /\ ~dbb'.seeded
          /\ dbb'.open /\ (dbb'.bootloader \/ dbb'.version = fw.version)
      BY <1>2, <2>2 DEF NewDevice, NoDevice, Views, Versions
    <2>4. UNCHANGED <<fw, keystore, lost>> /\ upgrade' = NoUpgrade
      BY <1>2 DEF NewDevice
    <2>5. BitBoxTypeOK'
      BY <1>1, <2>3, <2>4 DEF BitBoxTypeOK, NoUpgrade
    <2>6. ViewOK'
      BY <2>1, <2>3, <2>4 DEF ViewOK, InUse, Knows, NoUpgrade
    <2>7. FlashOK'
      BY <2>4 DEF FlashOK, NoUpgrade
    <2> QED BY <2>5, <2>6, <2>7 DEF BitBoxInv
  <1>3. CASE Close
    <2>1. /\ dbb' = NoDevice /\ keystore' = FALSE /\ UNCHANGED <<fw, flash, lost>>
          /\ upgrade' = [upgrade EXCEPT !.upgrading = @ /\ ~upgrade.successful]
      BY <1>3 DEF Close
    <2>2. /\ upgrade' \in [upgrading : BOOLEAN, successful : BOOLEAN, size : Nat, next : Nat, sent : Nat]
          /\ upgrade'.next = upgrade.next /\ upgrade'.sent = upgrade.sent
          /\ upgrade'.upgrading => upgrade.upgrading
      BY <1>1, <2>1
    <2>3. BitBoxTypeOK'
      BY <1>1, <2>1, <2>2 DEF BitBoxTypeOK, NoDevice, Views, Versions
    <2>4. ViewOK'
      BY <2>1 DEF ViewOK, InUse, Knows, NoDevice
    <2>5. FlashOK'
      BY <1>1, <2>1, <2>2 DEF FlashOK
    <2> QED BY <2>3, <2>4, <2>5 DEF BitBoxInv
  <1> QED BY <1>2, <1>3

\* One chunk further: the number of the next chunk is that of the chunks sent, or it wrapped around.
LEMMA AdvanceIs ==
  ASSUME BitBoxInv, upgrade.upgrading
  PROVE  /\ Advance(upgrade) \in [upgrading : BOOLEAN, successful : BOOLEAN, size : Nat, next : Nat, sent : Nat]
         /\ Advance(upgrade).upgrading =>
              /\ Advance(upgrade).next = upgrade.next + 1 /\ Advance(upgrade).sent = upgrade.sent + 1
              /\ upgrade.next + 1 < ChunkNumbers
         /\ Failed(upgrade) \in [upgrading : BOOLEAN, successful : BOOLEAN, size : Nat, next : Nat, sent : Nat]
         /\ ~Failed(upgrade).upgrading /\ Failed(upgrade).sent = upgrade.sent
         /\ Advance(upgrade).successful = upgrade.successful
  <1> DEFINE n == NextChunk(upgrade.next)
             v == [upgrade EXCEPT !.next = n, !.sent = @ + 1]
  <1>1. /\ upgrade \in [upgrading : BOOLEAN, successful : BOOLEAN, size : Nat, next : Nat, sent : Nat]
        /\ upgrade.next < ChunkNumbers /\ ChunkNumbers \in Nat \ {0}
    BY BitBoxAssumption DEF BitBoxInv, BitBoxTypeOK, FlashOK
  <1>2. n = IF upgrade.next + 1 = ChunkNumbers THEN 0 ELSE upgrade.next + 1
    <2>1. upgrade.next \in Nat
      BY <1>1
    <2>2. CASE upgrade.next + 1 = ChunkNumbers
      BY <1>1, <2>2 DEF NextChunk
    <2>3. CASE upgrade.next + 1 < ChunkNumbers
      BY <1>1, <2>1, <2>3 DEF NextChunk
    <2> QED BY <1>1, <2>1, <2>2, <2>3
  <1>3. n \in Nat
    BY <1>1, <1>2
  <1> HIDE DEF n
  <1>4. v \in [upgrading : BOOLEAN, successful : BOOLEAN, size : Nat, next : Nat, sent : Nat]
        /\ v.next = n /\ v.sent = upgrade.sent + 1 /\ v.upgrading = upgrade.upgrading
        /\ v.successful = upgrade.successful
    <2>1. upgrade.sent \in Nat /\ upgrade.sent + 1 \in Nat
      BY <1>1
    <2> QED BY <1>1, <1>3, <2>1
  <1>5. Advance(upgrade) = IF n = 0 THEN Failed(v) ELSE v
    BY <1>1, <1>4 DEF Advance, n
  <1>6. ASSUME NEW u \in [upgrading : BOOLEAN, successful : BOOLEAN, size : Nat, next : Nat, sent : Nat]
        PROVE  /\ Failed(u) \in [upgrading : BOOLEAN, successful : BOOLEAN, size : Nat, next : Nat, sent : Nat]
               /\ ~Failed(u).upgrading /\ Failed(u).sent = u.sent /\ Failed(u).successful = u.successful
    BY DEF Failed
  <1> HIDE DEF v
  <1>7. CASE n = 0
    BY <1>1, <1>4, <1>5, <1>6, <1>7
  <1>8. CASE n # 0
    <2>1. upgrade.next + 1 < ChunkNumbers /\ n = upgrade.next + 1
      BY <1>1, <1>2, <1>8
    <2> QED BY <1>1, <1>4, <1>5, <1>6, <1>8, <2>1
  <1> QED BY <1>7, <1>8

\* The upgrade in the bootloader.
LEMMA BootloaderInv ==
  ASSUME BitBoxInv,
         \/ \E size \in Sizes : BootloaderUpgradeFirmware(size)
         \/ bootloaderSendBin \/ bootloaderSendSigs
  PROVE  BitBoxInv'
  <1> DEFINE U == [upgrading : BOOLEAN, successful : BOOLEAN, size : Nat, next : Nat, sent : Nat]
  <1>1. /\ fw \in Firmwares /\ dbb \in Views /\ ViewOK /\ FlashOK /\ keystore \in BOOLEAN /\ lost \in Nat
        /\ upgrade \in U /\ ChunkNumbers \in Nat \ {0}
    BY BitBoxAssumption DEF BitBoxInv, BitBoxTypeOK
  <1>2. ASSUME NEW size \in Sizes, BootloaderUpgradeFirmware(size) PROVE BitBoxInv'
    <2>1. /\ upgrade' \in U /\ upgrade'.next = 0 /\ upgrade'.sent = 0
          /\ flash' = Empty /\ UNCHANGED <<fw, dbb, keystore, lost>> /\ ~InUse
      BY <1>2, BitBoxAssumption DEF BootloaderUpgradeFirmware, NoUpgrade, InUse
    <2>2. BitBoxTypeOK'
      BY <1>1, <2>1 DEF BitBoxTypeOK
    <2>3. ViewOK'
      BY <1>1, <2>1 DEF ViewOK, InUse
    <2>4. FlashOK'
      BY <1>1, <2>1 DEF FlashOK, Empty
    <2> QED BY <2>2, <2>3, <2>4 DEF BitBoxInv
  <1>3. CASE bootloaderSendBin
    <2>1. dbb.open /\ upgrade.upgrading /\ UNCHANGED <<fw, dbb, keystore, lost>> /\ ~InUse
      BY <1>1, <1>3 DEF bootloaderSendBin, ViewOK
    <2>2. upgrade' \in U
      BY <1>3, <2>1, AdvanceIs DEF bootloaderSendBin
    <2>3. BitBoxTypeOK'
      BY <1>1, <2>1, <2>2 DEF BitBoxTypeOK
    <2>4. ViewOK'
      BY <1>1, <2>1 DEF ViewOK, InUse
    <2>5. FlashOK'
      <3>1. CASE flash' = [flash EXCEPT ![upgrade.next] = upgrade.sent] /\ upgrade' = Advance(upgrade)
        <4> SUFFICES ASSUME upgrade'.upgrading
                     PROVE  /\ upgrade'.next = upgrade'.sent /\ upgrade'.next < ChunkNumbers
                            /\ DOMAIN flash' = 0..(ChunkNumbers - 1)
                            /\ \A i \in upgrade'.next..(ChunkNumbers - 1) : flash'[i] = -1
          BY DEF FlashOK
        <4>1. /\ upgrade'.next = upgrade.next + 1 /\ upgrade'.sent = upgrade.sent + 1
              /\ upgrade.next + 1 < ChunkNumbers
          BY <2>1, <3>1, AdvanceIs
        <4>2. /\ upgrade.next = upgrade.sent /\ DOMAIN flash = 0..(ChunkNumbers - 1)
              /\ \A i \in upgrade.next..(ChunkNumbers - 1) : flash[i] = -1
              /\ upgrade.next \in Nat
          BY <1>1, <2>1 DEF FlashOK
        <4>3. ASSUME NEW i \in upgrade'.next..(ChunkNumbers - 1) PROVE flash'[i] = -1
          <5>1. i \in upgrade.next..(ChunkNumbers - 1) /\ i # upgrade.next /\ i \in DOMAIN flash
            BY <1>1, <4>1, <4>2
          <5> QED BY <3>1, <4>2, <5>1
        <4> QED BY <3>1, <4>1, <4>2, <4>3
      <3>2. CASE upgrade' = Failed(upgrade)
        BY <2>1, <3>2, AdvanceIs DEF FlashOK
      <3> QED BY <1>3, <3>1, <3>2 DEF bootloaderSendBin
    <2> QED BY <2>3, <2>4, <2>5 DEF BitBoxInv
  <1>4. CASE bootloaderSendSigs
    <2>1. dbb.open /\ upgrade.upgrading /\ UNCHANGED <<flash, dbb, keystore, lost>> /\ ~InUse
      BY <1>1, <1>4 DEF bootloaderSendSigs, ViewOK
    <2>2. CASE /\ upgrade' = [upgrade EXCEPT !.successful = TRUE]
               /\ fw' = [fw EXCEPT !.version = "supported"]
      <3>1. /\ upgrade' \in U /\ upgrade'.upgrading = upgrade.upgrading
            /\ upgrade'.next = upgrade.next /\ upgrade'.sent = upgrade.sent
        BY <1>1, <2>2
      <3>2. fw' \in Firmwares
        BY <1>1, <2>2 DEF Firmwares, Versions
      <3>3. fw'.pin = fw.pin /\ fw'.hidden = fw.hidden /\ fw'.seeded = fw.seeded
        BY <1>1, <2>2 DEF Firmwares
      <3>4. BitBoxTypeOK'
        BY <1>1, <2>1, <3>1, <3>2 DEF BitBoxTypeOK
      <3>5. ViewOK'
        BY <1>1, <2>1, <3>3 DEF ViewOK, InUse, Knows, Accepts
      <3>6. FlashOK'
        BY <1>1, <2>1, <3>1 DEF FlashOK
      <3> QED BY <3>4, <3>5, <3>6 DEF BitBoxInv
    <2>3. CASE upgrade' = Failed(upgrade) /\ UNCHANGED fw
      <3>1. upgrade' \in U /\ ~upgrade'.upgrading
        BY <2>1, <2>3, AdvanceIs
      <3>2. BitBoxTypeOK'
        BY <1>1, <2>1, <2>3, <3>1 DEF BitBoxTypeOK
      <3>3. ViewOK'
        BY <1>1, <2>1, <2>3 DEF ViewOK, InUse
      <3> QED BY <3>1, <3>2, <3>3 DEF BitBoxInv, FlashOK
    <2> QED BY <1>4, <2>2, <2>3 DEF bootloaderSendSigs
  <1> QED BY <1>2, <1>3, <1>4

\* The app and the BitBox01 are in step as long as no reply is lost.
THEOREM BitBoxInvariance == BitBoxSpec => []BitBoxInv
  <1>1. BitBoxInit => BitBoxInv
    <2> SUFFICES ASSUME BitBoxInit PROVE BitBoxInv
      OBVIOUS
    <2>0. fw \in Firmwares
      <3>1. fw \in [pin : {NoPIN}, hidden : {NoPIN}, seeded : {FALSE}, backup : {FALSE},
                    attempts : {0}, bootlock : BOOLEAN, lock : {FALSE}, version : Versions]
        BY DEF BitBoxInit
      <3>2. fw = [pin |-> fw.pin, hidden |-> fw.hidden, seeded |-> fw.seeded, backup |-> fw.backup,
                  attempts |-> fw.attempts, bootlock |-> fw.bootlock, lock |-> fw.lock, version |-> fw.version]
        BY <3>1
      <3>3. /\ fw.pin = NoPIN /\ fw.hidden = NoPIN /\ fw.seeded \in BOOLEAN /\ fw.backup \in BOOLEAN
            /\ fw.attempts = 0 /\ fw.bootlock \in BOOLEAN /\ fw.lock \in BOOLEAN /\ fw.version \in Versions
        BY <3>1
      <3> QED BY <3>2, <3>3 DEF Firmwares
    <2>1. dbb \in Views
      BY DEF BitBoxInit, Views, NoDevice, Versions
    <2>2. BitBoxTypeOK
      BY <2>0, <2>1 DEF BitBoxInit, BitBoxTypeOK, NoUpgrade
    <2>3. ViewOK
      BY DEF BitBoxInit, ViewOK, NoDevice, InUse, Knows
    <2>4. FlashOK
      BY DEF BitBoxInit, FlashOK, NoUpgrade
    <2> QED BY <2>2, <2>3, <2>4 DEF BitBoxInv
  <1>2. BitBoxInv /\ [BitBoxNext]_bitboxVars => BitBoxInv'
    <2> SUFFICES ASSUME BitBoxInv, [BitBoxNext]_bitboxVars PROVE BitBoxInv'
      OBVIOUS
    <2>1. CASE NewDevice \/ Close
      BY <2>1, PluggingInv
    <2>2. CASE Requests
      BY <2>2, PinCommands, LoginInv, WalletCommands, PlainCommands, BootloaderInv DEF Requests
    <2>3. CASE bootloaderSendBin \/ bootloaderSendSigs
      BY <2>3, BootloaderInv
    <2>4. CASE UNCHANGED bitboxVars
      BY <2>4 DEF bitboxVars, BitBoxInv, BitBoxTypeOK, ViewOK, FlashOK, InUse
    <2> QED BY <2>1, <2>2, <2>3, <2>4 DEF BitBoxNext
  <1> QED BY <1>1, <1>2, PTL DEF BitBoxSpec

\* The keystore that the backend has from a BitBox01 belongs to a device with a wallet and a
\* supported firmware, for every sequence of calls in which no reply is lost.
THEOREM KeystoreIsRealHolds == BitBoxSpec => []KeystoreIsReal
  <1>1. BitBoxInv => KeystoreIsReal
    BY DEF BitBoxInv, ViewOK, InUse, Knows, KeystoreIsReal
  <1> QED BY <1>1, BitBoxInvariance, PTL

\* Nothing succeeds in making a new wallet of a device unless its backup was read back.
LEMMA SeededHasBackup ==
  ASSUME BitBoxInv, BitBoxNext, ~dbb.seeded, dbb'.seeded, ~fw.seeded
  PROVE  fw'.backup
  <1>1. fw \in Firmwares /\ dbb \in Views
    BY DEF BitBoxInv, BitBoxTypeOK
  <1>2. CASE CreateWallet \/ RestoreBackup
    <2>1. PICK R \in WalletResults : Call(R, [dbb EXCEPT !.seeded = TRUE])
      BY <1>2 DEF CreateWallet, RestoreBackup, WalletResults
    <2>2. PICK r \in R : r.reply = "ok" /\ fw' = r.fw
      BY <2>1 DEF Call
    <2> QED BY <1>1, <2>2, WalletKeeps
  <1>3. ASSUME NEW pin \in PINs, Login(pin) PROVE FALSE
    <2> DEFINE g == [fw EXCEPT !.attempts = 0]
    <2>1. PICK r \in SendEncrypt(fw, pin, Same) :
            (r.reply = "ok" /\ dbb' = LoggedIn(dbb, pin, r.fw)) \/ dbb' = Forgotten(dbb) \/ dbb' = dbb
      BY <1>3 DEF Login
    <2>2. r.reply = "ok" => r.fw = g
      BY DEF SendEncrypt, Same, Executed, Result
    <2>3. LoggedIn(dbb, pin, g).seeded = fw.seeded /\ ~Forgotten(dbb).seeded
      BY <1>1 DEF LoggedIn, Forgotten, Views, Firmwares
    <2> QED BY <2>1, <2>2, <2>3
  <1>4. ASSUME dbb' = dbb \/ dbb' = NoDevice \/ dbb' = Forgotten(dbb)
               \/ \E pin \in PINs : dbb' = [dbb EXCEPT !.pin = pin]
        PROVE  FALSE
    <2>1. \A pin \in PINs : [dbb EXCEPT !.pin = pin].seeded = dbb.seeded
      BY <1>1 DEF Views
    <2>2. ~NoDevice.seeded /\ ~Forgotten(dbb).seeded
      BY <1>1 DEF NoDevice, Forgotten, Views
    <2> QED BY <1>4, <2>1, <2>2
  <1>5. ASSUME NewDevice PROVE FALSE
    BY <1>5 DEF NewDevice, NoDevice
  <1> QED BY <1>2, <1>3, <1>4, <1>5 DEF BitBoxNext, Requests, Close, SetPassword, SetHiddenPassword, Reset,
        ChangePassword, CreateBackup, EraseBackup, Query, UnlockBootloader, LockBootloader, Lock,
        BootloaderUpgradeFirmware, bootloaderSendBin, bootloaderSendSigs, Call, Command

\* A chunk is only written where nothing was.
LEMMA ChunkIsFree ==
  ASSUME BitBoxInv, BitBoxNext, upgrade'.sent > upgrade.sent
  PROVE  flash[upgrade.next] = -1
  <1>1. upgrade.sent \in Nat /\ upgrade.next \in Nat
        /\ upgrade \in [upgrading : BOOLEAN, successful : BOOLEAN, size : Nat, next : Nat, sent : Nat]
    BY DEF BitBoxInv, BitBoxTypeOK
  <1>2. CASE bootloaderSendBin
    BY <1>1, <1>2, BitBoxAssumption DEF bootloaderSendBin, BitBoxInv, FlashOK
  <1>3. ASSUME upgrade'.sent = upgrade.sent \/ upgrade'.sent = 0 PROVE FALSE
    BY <1>1, <1>3
  <1>4. CASE NewDevice \/ Close \/ bootloaderSendSigs \/ \E size \in Sizes : BootloaderUpgradeFirmware(size)
    <2>1. CASE NewDevice
      BY <1>3, <2>1 DEF NewDevice, NoUpgrade
    <2>2. CASE Close
      BY <1>1, <1>3, <2>2 DEF Close
    <2>3. CASE bootloaderSendSigs
      BY <1>1, <1>3, <2>3 DEF bootloaderSendSigs, Failed
    <2>4. ASSUME NEW size \in Sizes, BootloaderUpgradeFirmware(size) PROVE FALSE
      BY <1>3, <2>4 DEF BootloaderUpgradeFirmware, NoUpgrade
    <2> QED BY <1>4, <2>1, <2>2, <2>3, <2>4
  <1> QED BY <1>2, <1>3, <1>4 DEF BitBoxNext, Requests, SetPassword, SetHiddenPassword, Login, Reset,
        ChangePassword, CreateWallet, RestoreBackup, CreateBackup, EraseBackup, Query, UnlockBootloader,
        LockBootloader, Lock, Call, Command

\* The app spends no attempts of its own, uses no wallet without a backup, and overwrites no
\* chunk, for every number of PINs, attempts, chunks and lost replies.
THEOREM DoesNoHarmHolds == BitBoxSpec => DoesNoHarm
  <1> DEFINE A == lost' = 0 /\ fw'.attempts > fw.attempts => dbb.pin = NoPIN \/ Accepts(fw, dbb.pin)
             B == ~dbb.seeded /\ dbb'.seeded /\ ~fw.seeded => fw'.backup
             C == upgrade'.sent > upgrade.sent => flash[upgrade.next] = -1
  <1>1. BitBoxInv /\ BitBoxInv' /\ [BitBoxNext]_bitboxVars => [A]_bitboxVars
    <2> SUFFICES ASSUME BitBoxInv, BitBoxInv', BitBoxNext, lost' = 0 PROVE lost = 0
      BY DEF BitBoxInv, ViewOK, Knows
    <2>1. lost' = lost \/ lost' = lost + 1
      BY DEF BitBoxNext, NewDevice, Close, Requests, SetPassword, SetHiddenPassword, Login, Reset,
        ChangePassword, CreateWallet, RestoreBackup, CreateBackup, EraseBackup, Query, UnlockBootloader,
        LockBootloader, Lock, Call, Command, CountLost, BootloaderUpgradeFirmware, bootloaderSendBin,
        bootloaderSendSigs
    <2> QED BY <2>1 DEF BitBoxInv, BitBoxTypeOK
  <1>2. BitBoxInv /\ [BitBoxNext]_bitboxVars => [B]_bitboxVars
    BY SeededHasBackup
  <1>3. BitBoxInv /\ [BitBoxNext]_bitboxVars => [C]_bitboxVars
    BY ChunkIsFree
  <1> QED BY <1>1, <1>2, <1>3, BitBoxInvariance, PTL
          DEF BitBoxSpec, DoesNoHarm, AttemptsAreTheUsers, BackupBeforeUse, NothingOverwritten

-----------------------------------------------------------------------------
(* UsbDevices                                                              *)

\* A fresh manager knows no device.
LEMMA UsbInitInv == UsbInit => UsbInv
  <1> SUFFICES ASSUME UsbInit PROVE UsbInv
    OBVIOUS
  <1>1. DOMAIN <<>> = {}
    OBVIOUS
  <1>2. UsbTypeOK
    BY <1>1, UsbAssumption DEF UsbInit, UsbTypeOK
  <1>3. ManagerOK
    BY DEF UsbInit, ManagerOK
  <1>4. GoroutinesOK
    BY <1>1 DEF UsbInit, GoroutinesOK
  <1> QED BY <1>1, <1>2, <1>3, <1>4, UsbAssumption DEF UsbInit, UsbInv

\* The numbers and the sets of devices.
LEMMA UsbTypeStep == UsbInv /\ [UsbNext]_usbVars => UsbTypeOK'
  <1> SUFFICES ASSUME UsbInv, [UsbNext]_usbVars PROVE UsbTypeOK'
    OBVIOUS
  <1> USE UsbAssumption DEF UsbInv, UsbTypeOK
  <1>1. ASSUME NEW id \in Ids, Plug(id) PROVE UsbTypeOK'
    BY <1>1 DEF Plug, With
  <1>2. ASSUME NEW id \in Ids, Unplug(id) PROVE UsbTypeOK'
    BY <1>2 DEF Unplug, Without
  <1>3. CASE Hang
    BY <1>3 DEF Hang
  <1>4. CASE NothingToCheck
    BY <1>4 DEF NothingToCheck
  <1>5. ASSUME NEW id \in Ids, checkIfRemoved(id) PROVE UsbTypeOK'
    BY <1>5 DEF checkIfRemoved, Enumerated
  <1>6. CASE CloseDevice
    BY <1>6 DEF CloseDevice, Without
  <1>7. CASE Deregister
    BY <1>7 DEF Deregister
  <1>8. CASE Insert
    <2>1. CASE \E id \in deviceInfos : devices' = With(devices, id, port[id])
                                       /\ Register(Handle(id, port[id]))
      <3>1. PICK id \in DOMAIN port : devices' = With(devices, id, port[id])
                                      /\ Register(Handle(id, port[id]))
        BY <2>1 DEF deviceInfos
      <3>2. Handle(id, port[id]) \in [id : Ids, session : Nat]
        BY DEF Handle
      <3>3. UNCHANGED <<port, plugged, keystoreOf>> /\ hang' \in Nat
        BY <1>8 DEF Insert, Enumerated
      <3>4. DOMAIN init' \subseteq [id : Ids, session : Nat] /\ failures' \in 0..MaxFailures
        BY <3>1, <3>2 DEF Register, With
      <3>5. DOMAIN devices' \subseteq Ids /\ \A d \in DOMAIN devices' : devices'[d] \in 0..plugged
        BY <3>1 DEF With
      <3> QED BY <3>3, <3>4, <3>5
    <2>2. CASE UNCHANGED <<devices, init>> /\ failures' \in 0..MaxFailures
      BY <1>8, <2>2 DEF Insert, Enumerated
    <2> QED BY <1>8, <2>1, <2>2 DEF Insert
  <1>9. ASSUME NEW h \in DOMAIN init, Unlock(h) \/ ReadFingerprint(h) \/ SetKeystore(h)
        PROVE  UsbTypeOK'
    BY <1>9 DEF Unlock, ReadFingerprint, SetKeystore, Goto, Finish, Without
  <1>10. ASSUME NEW id \in Ids, NEW s \in 1..MaxPlugged, ResetBitBox02(Handle(id, s))
         PROVE  UsbTypeOK'
    BY <1>10 DEF ResetBitBox02, With, Handle
  <1>11. CASE UNCHANGED usbVars
    BY <1>11 DEF usbVars
  <1> QED BY <1>1, <1>2, <1>3, <1>4, <1>5, <1>6, <1>7, <1>8, <1>9, <1>10, <1>11
          DEF UsbNext, Listen, Initializing

\* The enumerations that come back empty are too few for checkIfRemoved.
LEMMA HangBound ==
  ASSUME UsbInv
  PROVE  /\ MaxHang * failures < Polls
         /\ MaxHang * (failures + 1) = MaxHang * failures + MaxHang
         /\ MaxHang * failures \in Nat
  <1>1. failures \in Nat /\ failures <= MaxFailures /\ MaxHang \in Nat /\ MaxFailures \in Nat
    BY UsbAssumption DEF UsbInv, UsbTypeOK
  <1>2. MaxHang * failures <= MaxHang * MaxFailures
    BY <1>1
  <1> QED BY <1>1, <1>2, UsbAssumption

\* A handle is the identifier and the session of its device.
LEMMA HandleIs ==
  ASSUME NEW h \in [id : Ids, session : Nat]
  PROVE  h = Handle(h.id, h.session)
  BY DEF Handle

\* The manager's goroutine: a device that was not moved is not about to be closed.
LEMMA ManagerStep == UsbInv /\ [UsbNext]_usbVars => ManagerOK'
  <1> SUFFICES ASSUME UsbInv, [UsbNext]_usbVars PROVE ManagerOK'
    OBVIOUS
  <1> USE UsbAssumption, HangBound
  <1>0. /\ plugged \in Nat /\ hang \in Nat /\ failures \in Nat /\ ManagerOK
        /\ hang <= MaxHang * failures
        /\ \A id \in DOMAIN devices : devices[id] \in 0..plugged
        /\ \A a, b \in DOMAIN devices : a = b
    BY DEF UsbInv, UsbTypeOK
  <1>1. ASSUME NEW id \in Ids, Plug(id) PROVE ManagerOK'
    <2>1. ASSUME NEW d \in DOMAIN devices, Unmoved(d)' PROVE Unmoved(d)
      BY <1>0, <1>1, <2>1 DEF Plug, With, Unmoved
    <2> QED BY <1>0, <1>1, <2>1 DEF Plug, ManagerOK
  <1>2. ASSUME NEW id \in Ids, Unplug(id) PROVE ManagerOK'
    <2>1. ASSUME NEW d \in DOMAIN devices, Unmoved(d)' PROVE Unmoved(d)
      BY <1>2, <2>1 DEF Unplug, Without, Unmoved
    <2> QED BY <1>0, <1>2, <2>1 DEF Unplug, ManagerOK
  <1>3. CASE Hang
    BY <1>0, <1>3 DEF Hang, ManagerOK, Unmoved
  <1>4. CASE NothingToCheck
    BY <1>4 DEF NothingToCheck, ManagerOK
  <1>5. ASSUME NEW id \in Ids, checkIfRemoved(id) PROVE ManagerOK'
    <2> DEFINE n == IF "looks" \in DOMAIN manager THEN manager.looks ELSE 0
    <2>1. /\ n \in 0..(Polls - 1)
          /\ \A d \in DOMAIN devices : Unmoved(d) => n + hang <= MaxHang * failures
      BY <1>0, <1>5 DEF checkIfRemoved, ManagerOK
    <2>2. /\ manager' = CASE Gone(id, 1 + n) -> [at |-> "close", id |-> id]
                          [] id \in deviceInfos -> [at |-> "insert"]
                          [] OTHER -> [at |-> "check", looks |-> 1 + n]
          /\ id \in DOMAIN devices /\ UNCHANGED <<port, devices, failures>>
          /\ hang' = IF hang > 0 THEN hang - 1 ELSE 0
      BY <1>5 DEF checkIfRemoved, Enumerated
    <2> HIDE DEF n
    <2>3. ASSUME id \notin deviceInfos, NEW d \in DOMAIN devices, Unmoved(d) PROVE hang > 0
      BY <1>0, <2>2, <2>3 DEF deviceInfos, Unmoved
    <2>4. CASE Gone(id, 1 + n)
      <3>1. ~Unmoved(id)
        BY <1>0, <2>1, <2>2, <2>3, <2>4 DEF Gone
      <3> QED BY <2>2, <2>4, <3>1 DEF ManagerOK, Unmoved
    <2>5. CASE id \in deviceInfos
      BY <2>2, <2>5 DEF ManagerOK, Gone
    <2>6. CASE id \notin deviceInfos /\ ~Gone(id, 1 + n)
      <3>1. manager' = [at |-> "check", looks |-> 1 + n]
        BY <2>2, <2>6
      <3>3. 1 + n \in 0..(Polls - 1)
        BY <2>1, <2>6 DEF Gone
      <3>2. ASSUME NEW d \in DOMAIN devices', Unmoved(d)' PROVE (1 + n) + hang' <= MaxHang * failures'
        BY <1>0, <2>1, <2>2, <2>3, <2>6, <3>2 DEF Unmoved
      <3> QED BY <3>1, <3>2, <3>3 DEF ManagerOK
    <2> QED BY <2>4, <2>5, <2>6
  <1>6. CASE CloseDevice
    <2>1. PICK id \in DOMAIN devices : manager = [at |-> "close", id |-> id]
      BY <1>0, <1>6 DEF CloseDevice, ManagerOK
    <2>2. id \in Ids
      BY DEF UsbInv, UsbTypeOK
    <2> QED BY <1>6, <2>1, <2>2 DEF CloseDevice, ManagerOK, Without
  <1>7. CASE Deregister
    BY <1>7 DEF Deregister, ManagerOK
  <1>8. CASE Insert
    BY <1>8 DEF Insert, ManagerOK
  <1>9. ASSUME NEW h \in DOMAIN init, Unlock(h) \/ ReadFingerprint(h) \/ SetKeystore(h)
        PROVE  ManagerOK'
    BY <1>0, <1>9 DEF Unlock, ReadFingerprint, SetKeystore, ManagerOK, Unmoved
  <1>10. ASSUME NEW id \in Ids, NEW s \in 1..MaxPlugged, ResetBitBox02(Handle(id, s))
         PROVE  ManagerOK'
    BY <1>0, <1>10 DEF ResetBitBox02, ManagerOK, Unmoved
  <1>11. CASE UNCHANGED usbVars
    BY <1>0, <1>11 DEF usbVars, ManagerOK, Unmoved
  <1> QED BY <1>1, <1>2, <1>3, <1>4, <1>5, <1>6, <1>7, <1>8, <1>9, <1>10, <1>11
          DEF UsbNext, Listen, Initializing

\* The goroutines that initialize a device, and the keystore they registered.
LEMMA GoroutinesStep ==
  UsbInv /\ [UsbNext]_usbVars =>
    /\ GoroutinesOK'
    /\ (keystoreOf # None => Open(keystoreOf) \/ (manager.at = "unregister" /\ keystoreOf \in closed))'
  <1> DEFINE KeystoreOK ==
        keystoreOf # None => Open(keystoreOf) \/ (manager.at = "unregister" /\ keystoreOf \in closed)
             Handles == [id : Ids, session : Nat]
  <1> SUFFICES ASSUME UsbInv, [UsbNext]_usbVars PROVE GoroutinesOK' /\ KeystoreOK'
    OBVIOUS
  <1>0. /\ GoroutinesOK /\ KeystoreOK /\ ManagerOK /\ None \notin Handles
        /\ DOMAIN init \subseteq Handles /\ keystoreOf \in Handles \cup {None}
    BY UsbAssumption DEF UsbInv, UsbTypeOK
  <1>1. ASSUME NEW id \in Ids, Plug(id) \/ Unplug(id) PROVE GoroutinesOK' /\ KeystoreOK'
    BY <1>0, <1>1 DEF Plug, Unplug, GoroutinesOK, Open
  <1>2. CASE Hang
    BY <1>0, <1>2 DEF Hang, GoroutinesOK, Open
  <1>3. CASE NothingToCheck
    BY <1>0, <1>3 DEF NothingToCheck, GoroutinesOK, Open
  <1>4. ASSUME NEW id \in Ids, checkIfRemoved(id) PROVE GoroutinesOK' /\ KeystoreOK'
    BY <1>0, <1>4 DEF checkIfRemoved, GoroutinesOK, Open
  <1>5. CASE CloseDevice
    <2>1. PICK id \in DOMAIN devices : manager = [at |-> "close", id |-> id]
      BY <1>0, <1>5 DEF CloseDevice, ManagerOK
    <2>2. /\ closed' = closed \cup {Handle(id, devices[id])} /\ devices' = Without(devices, id)
          /\ manager'.at = "unregister" /\ UNCHANGED <<init, held, keystoreOf>>
      BY <1>5, <2>1 DEF CloseDevice
    <2>3. ASSUME NEW h \in Handles, Open(h) PROVE Open(h)' \/ h \in closed'
      <3>1. h = Handle(h.id, h.session)
        BY HandleIs
      <3> QED BY <2>2, <2>3, <3>1 DEF Open, Without
    <2>4. GoroutinesOK'
      BY <1>0, <2>2, <2>3 DEF GoroutinesOK
    <2>5. KeystoreOK'
      <3>1. CASE keystoreOf = None
        BY <2>2, <3>1
      <3>2. CASE keystoreOf # None
        <4>1. Open(keystoreOf) /\ keystoreOf \in Handles
          BY <1>0, <2>1, <3>2
        <4>2. Open(keystoreOf)' \/ keystoreOf \in closed'
          BY <2>2, <2>3, <4>1 DEF Open
        <4> QED BY <2>2, <4>2
      <3> QED BY <3>1, <3>2
    <2> QED BY <2>4, <2>5
  <1>6. CASE Deregister
    <2>1. \A h \in DOMAIN init : init[h] # "register"
      BY <1>0, <1>6 DEF Deregister, GoroutinesOK
    <2>2. UNCHANGED <<init, devices, closed>> /\ keystoreOf' = None
      BY <1>6 DEF Deregister
    <2> QED BY <1>0, <2>1, <2>2 DEF GoroutinesOK, Open
  <1>7. CASE Insert
    <2>1. manager.at = "insert" /\ UNCHANGED <<port, held, keystoreOf>>
      BY <1>7 DEF Insert
    <2>2. CASE UNCHANGED <<devices, closed, init>>
      BY <1>0, <2>1, <2>2 DEF GoroutinesOK, Open
    <2>3. CASE /\ DOMAIN devices = {}
               /\ \E id \in deviceInfos :
                    /\ devices' = With(devices, id, port[id]) /\ Register(Handle(id, port[id]))
                    /\ closed' = closed \ {Handle(id, port[id])}
      <3>1. PICK id \in DOMAIN port :
              /\ devices' = With(devices, id, port[id]) /\ Register(Handle(id, port[id]))
              /\ closed' = closed \ {Handle(id, port[id])}
        BY <2>3 DEF deviceInfos
      <3>2. Open(Handle(id, port[id]))'
        BY <2>1, <3>1 DEF Open, Handle, With
      <3>3. \A h \in DOMAIN init : h \in closed /\ init[h] # "register"
        BY <1>0, <2>1, <2>3 DEF GoroutinesOK, Open
      <3>4. \A h \in DOMAIN init' :
              h = Handle(id, port[id]) \/ (h \in DOMAIN init /\ init'[h] = init[h])
        BY <3>1 DEF Register, With
      <3>5. Handle(id, port[id]) \in DOMAIN init' => init'[Handle(id, port[id])] # "register"
        BY <3>1, <3>3 DEF Register, With
      <3>6. GoroutinesOK'
        BY <2>1, <3>1, <3>2, <3>3, <3>4, <3>5 DEF GoroutinesOK
      <3>7. keystoreOf' = None
        BY <1>0, <2>1, <2>3 DEF Open
      <3> QED BY <3>6, <3>7
    <2> QED BY <1>7, <2>2, <2>3 DEF Insert
  <1>8. ASSUME NEW h \in DOMAIN init, Unlock(h) PROVE GoroutinesOK' /\ KeystoreOK'
    BY <1>0, <1>8 DEF Unlock, Goto, Finish, Without, GoroutinesOK, Open
  <1>9. ASSUME NEW h \in DOMAIN init, ReadFingerprint(h) PROVE GoroutinesOK' /\ KeystoreOK'
    <2>1. \A g \in DOMAIN init : init[g] # "register"
      BY <1>0, <1>9 DEF ReadFingerprint, GoroutinesOK
    <2>2. Proceeds(h) => Open(h)
      BY <1>0 DEF Proceeds, Works, GoroutinesOK
    <2> QED BY <1>0, <1>9, <2>1, <2>2 DEF ReadFingerprint, Goto, Finish, Without, GoroutinesOK, Open
  <1>10. ASSUME NEW h \in DOMAIN init, SetKeystore(h) PROVE GoroutinesOK' /\ KeystoreOK'
    <2>1. \A g \in DOMAIN init : g # h => init[g] # "register"
      BY <1>0, <1>10 DEF SetKeystore, GoroutinesOK
    <2>2. Open(h) \/ (manager.at = "unregister" /\ h \in closed)
      BY <1>0, <1>10 DEF SetKeystore, GoroutinesOK
    <2> QED BY <1>0, <1>10, <2>1, <2>2 DEF SetKeystore, Finish, Without, GoroutinesOK, Open
  <1>11. ASSUME NEW id \in Ids, NEW s \in 1..MaxPlugged, ResetBitBox02(Handle(id, s))
         PROVE  GoroutinesOK' /\ KeystoreOK'
    <2> DEFINE h == Handle(id, s)
    <2>1. Open(h)
      <3>1. h \in Handles
        BY DEF Handle
      <3> QED BY <1>0, <1>11, <3>1 DEF ResetBitBox02, Works
    <2> QED BY <1>0, <1>11, <2>1 DEF ResetBitBox02, With, GoroutinesOK, Open
  <1>12. CASE UNCHANGED usbVars
    BY <1>0, <1>12 DEF usbVars, GoroutinesOK, Open
  <1> QED BY <1>1, <1>2, <1>3, <1>4, <1>5, <1>6, <1>7, <1>8, <1>9, <1>10, <1>11, <1>12
          DEF UsbNext, Listen, Initializing

\* At most one device is open, it is registered, and few enumerations hang.
LEMMA OneDeviceStep ==
  UsbInv /\ [UsbNext]_usbVars =>
    /\ (\A a, b \in DOMAIN devices : a = b)' /\ (hang <= MaxHang * failures)'
    /\ (DOMAIN devices \subseteq registered)'
  <1> DEFINE One == \A a, b \in DOMAIN devices : a = b
             Few == hang <= MaxHang * failures
             Known == DOMAIN devices \subseteq registered
  <1> SUFFICES ASSUME UsbInv, [UsbNext]_usbVars PROVE One' /\ Few' /\ Known'
    OBVIOUS
  <1> USE UsbAssumption, HangBound
  <1>0. One /\ Few /\ Known /\ hang \in Nat /\ failures \in Nat /\ ManagerOK
    BY DEF UsbInv, UsbTypeOK
  <1>1. ASSUME NEW id \in Ids, Plug(id) \/ Unplug(id) PROVE One' /\ Few' /\ Known'
    BY <1>0, <1>1 DEF Plug, Unplug
  <1>2. CASE Hang
    BY <1>0, <1>2 DEF Hang
  <1>3. CASE NothingToCheck
    BY <1>0, <1>3 DEF NothingToCheck
  <1>4. ASSUME NEW id \in Ids, checkIfRemoved(id) PROVE One' /\ Few' /\ Known'
    BY <1>0, <1>4 DEF checkIfRemoved, Enumerated
  <1>5. CASE CloseDevice
    BY <1>0, <1>5 DEF CloseDevice, Without
  <1>6. CASE Deregister
    <2>1. manager.id \notin DOMAIN devices
      BY <1>0, <1>6 DEF Deregister, ManagerOK
    <2> QED BY <1>0, <1>6, <2>1 DEF Deregister
  <1>7. CASE Insert
    <2>1. Few'
      <3>1. hang' <= hang /\ hang' \in Nat
        BY <1>0, <1>7 DEF Insert, Enumerated
      <3>2. failures' = failures \/ failures' = failures + 1
        BY <1>7 DEF Insert, Register
      <3> QED BY <1>0, <3>1, <3>2
    <2>2. One' /\ Known'
      BY <1>0, <1>7 DEF Insert, Register, With, Handle
    <2> QED BY <2>1, <2>2
  <1>8. ASSUME NEW h \in DOMAIN init, Unlock(h) \/ ReadFingerprint(h) \/ SetKeystore(h)
        PROVE  One' /\ Few' /\ Known'
    BY <1>0, <1>8 DEF Unlock, ReadFingerprint, SetKeystore
  <1>9. ASSUME NEW id \in Ids, NEW s \in 1..MaxPlugged, ResetBitBox02(Handle(id, s))
        PROVE  One' /\ Few' /\ Known'
    BY <1>0, <1>9 DEF ResetBitBox02
  <1>10. CASE UNCHANGED usbVars
    BY <1>0, <1>10 DEF usbVars
  <1> QED BY <1>1, <1>2, <1>3, <1>4, <1>5, <1>6, <1>7, <1>8, <1>9, <1>10
          DEF UsbNext, Listen, Initializing

\* The inductive invariant of manager.go and of the goroutines of the devices.
THEOREM UsbInvariance == UsbSpec => []UsbInv
  <1>1. UsbInit => UsbInv
    BY UsbInitInv
  <1>2. UsbInv /\ [UsbNext]_usbVars => UsbInv'
    BY UsbTypeStep, ManagerStep, GoroutinesStep, OneDeviceStep DEF UsbInv
  <1> QED BY <1>1, <1>2, PTL DEF UsbSpec

\* Whatever the devices do and however late their goroutines come, the registered keystore is
\* that of the device that is open, and an open device is registered.
THEOREM KeystoreHasDeviceHolds == UsbSpec => []KeystoreHasDevice
  <1>1. UsbInv => KeystoreHasDevice
    BY DEF UsbInv, KeystoreHasDevice, Open
  <1> QED BY <1>1, UsbInvariance, PTL

\* manager.go closes only a device that was unplugged: the empty enumerations of a device that
\* is still there are fewer than the looks of checkIfRemoved.
THEOREM NoFalseRemovalHolds == UsbSpec => NoFalseRemoval
  <1> DEFINE Step == \A id \in DOMAIN devices :
               id \notin DOMAIN devices' => id \notin DOMAIN port \/ port[id] # devices[id]
  <1>1. UsbInv /\ [UsbNext]_usbVars => [Step]_usbVars
    <2> SUFFICES ASSUME UsbInv, UsbNext, NEW id \in DOMAIN devices, id \notin DOMAIN devices'
                 PROVE  ~Unmoved(id)
      BY DEF Unmoved
    <2>1. CASE CloseDevice
      <3>1. PICK d \in DOMAIN devices : manager = [at |-> "close", id |-> d] /\ ~Unmoved(d)
        BY <2>1 DEF UsbInv, ManagerOK, CloseDevice
      <3> QED BY <2>1, <3>1 DEF CloseDevice, Without
    <2>2. CASE Insert
      BY <2>2 DEF Insert, With
    <2>3. CASE UNCHANGED devices
      BY <2>3
    <2> QED BY <2>1, <2>2, <2>3 DEF UsbNext, Listen, Initializing, Plug, Unplug, Hang, NothingToCheck,
              checkIfRemoved, Deregister, Unlock, ReadFingerprint, SetKeystore, ResetBitBox02
  <1> QED BY <1>1, UsbInvariance, PTL DEF UsbSpec, NoFalseRemoval

-----------------------------------------------------------------------------
(* FirmwareUpgrade                                                         *)

\* The latest of the bundled firmwares is one of them.
LEMMA LatestBundled == Latest \in Bundled /\ \A b \in Bundled : Latest >= b
  BY UpgradeAssumption, GreatestNat DEF Latest, Max

\* nextFirmware is bundled, and between a version and the next firmware there is no other.
LEMMA NextFirmwareIs ==
  ASSUME NEW v \in Nat
  PROVE  /\ nextFirmware(v) \in Bundled
         /\ \A b \in Bundled : b < nextFirmware(v) => b <= v
  <1> DEFINE Above == {b \in Bundled : b > v}
  <1>1. CASE \E b \in Bundled : b > v
    <2>1. Above \subseteq Nat /\ Above # {}
      BY <1>1, UpgradeAssumption
    <2>2. Min(Above) \in Above /\ \A y \in Above : Min(Above) <= y
      BY <2>1, LeastNat DEF Min
    <2>3. nextFirmware(v) = Min(Above)
      BY <1>1 DEF nextFirmware
    <2> HIDE DEF Above
    <2>4. ASSUME NEW b \in Bundled, b < nextFirmware(v) PROVE b <= v
      <3>1. b \in Nat /\ Min(Above) \in Nat
        BY <2>1, <2>2, UpgradeAssumption
      <3>2. b \notin Above
        BY <2>2, <2>3, <2>4, <3>1
      <3> QED BY <3>1, <3>2 DEF Above
    <2> QED BY <2>2, <2>3, <2>4 DEF Above
  <1>2. CASE ~\E b \in Bundled : b > v
    <2>1. nextFirmware(v) = Latest
      BY <1>2 DEF nextFirmware
    <2> QED BY <1>2, <2>1, LatestBundled, UpgradeAssumption
  <1> QED BY <1>1, <1>2

\* A firmware is flashed after all intermediate ones before it have run.
LEMMA FlashedInOrder ==
  ASSUME UpgradeInv, ~firmwareBootRequired(version)
  PROVE  /\ nextFirmware(version) \in Nat
         /\ \A b \in Intermediate : b < nextFirmware(version) => b \in ran
  <1>1. nextFirmware(version) \in Bundled
        /\ \A b \in Bundled : b < nextFirmware(version) => b <= version
    BY NextFirmwareIs DEF UpgradeInv
  <1>2. ASSUME NEW b \in Intermediate, b < nextFirmware(version) PROVE b \in ran
    <2>1. b \in Bundled /\ b \in Nat /\ b # version
      BY <1>2, UpgradeAssumption DEF Intermediate, firmwareBootRequired
    <2>2. b <= version
      BY <1>1, <1>2, <2>1
    <2> QED BY <2>1, <2>2 DEF UpgradeInv
  <1> QED BY <1>1, <1>2, UpgradeAssumption

\* Every intermediate firmware below the version that the bootloader reports has run.
THEOREM UpgradeInvariance == UpgradeSpec => []UpgradeInv
  <1>1. UpgradeInit => UpgradeInv
    BY UpgradeAssumption DEF UpgradeInit, UpgradeInv
  <1>2. UpgradeInv /\ [UpgradeNext]_upgradeVars => UpgradeInv'
    <2> SUFFICES ASSUME UpgradeInv, [UpgradeNext]_upgradeVars PROVE UpgradeInv'
      OBVIOUS
    <2>1. CASE UNCHANGED <<version, ran>>
      BY <2>1 DEF UpgradeInv
    <2>2. CASE UpgradeFirmware /\ firmwareBootRequired(version)
      <3>1. CASE Run
        <4>1. \A b \in Intermediate : b \in Nat
          BY UpgradeAssumption DEF Intermediate
        <4> QED BY <3>1, <4>1 DEF Run, UpgradeInv
      <3> QED BY <2>1, <2>2, <3>1 DEF UpgradeFirmware, Reboot
    <2>3. CASE UpgradeFirmware /\ ~firmwareBootRequired(version)
      <3>1. /\ nextFirmware(version) \in Nat
            /\ \A b \in Intermediate : b < nextFirmware(version) => b \in ran
        BY <2>3, FlashedInOrder
      <3>2. /\ ran' = ran \cup {nextFirmware(version)}
            /\ version' \in {nextFirmware(version), nextFirmware(version) + 1}
        BY <2>3 DEF UpgradeFirmware
      <3>3. \A b \in Intermediate : b \in Nat
        BY UpgradeAssumption DEF Intermediate
      <3> QED BY <3>1, <3>2, <3>3 DEF UpgradeInv
    <2>4. CASE UpgradeFirmwareNoBoot
      BY <2>4, FlashedInOrder DEF UpgradeFirmwareNoBoot, UpgradeInv
    <2> QED BY <2>1, <2>2, <2>3, <2>4
            DEF UpgradeNext, EnterBootloader, RequestUpgrade, Interrupted, upgradeVars
  <1> QED BY <1>1, <1>2, PTL DEF UpgradeSpec

\* bitbox02bootloader flashes a firmware only after every older intermediate one has run, for
\* every list of bundled firmwares and however often it is interrupted.
THEOREM NoneSkippedHolds == UpgradeSpec => NoneSkipped
  <1> DEFINE Step == installed' # installed /\ installed' \in Bundled =>
               \A b \in Intermediate : b < installed' => b \in ran
  <1>1. UpgradeInv /\ [UpgradeNext]_upgradeVars => [Step]_upgradeVars
    <2> SUFFICES ASSUME UpgradeInv, UpgradeNext, installed' # installed, installed' \in Bundled,
                        NEW b \in Intermediate, b < installed'
                 PROVE  b \in ran
      OBVIOUS
    <2>1. CASE installed' = nextFirmware(version) /\ ~firmwareBootRequired(version)
      BY <2>1, FlashedInOrder
    <2>2. CASE Interrupted
      BY <2>2, UpgradeAssumption DEF Interrupted, Broken, NoFirmware
    <2> QED BY <2>1, <2>2
            DEF UpgradeNext, EnterBootloader, RequestUpgrade, UpgradeFirmware, UpgradeFirmwareNoBoot
  <1> QED BY <1>1, UpgradeInvariance, PTL DEF UpgradeSpec, NoneSkipped

-----------------------------------------------------------------------------
(* The mobile of the BitBox01                                              *)

\* Taking a value from a function.
LEMMA DropFacts ==
  ASSUME NEW f, NEW k
  PROVE  /\ DOMAIN Drop(f, k) = DOMAIN f \ {k}
         /\ \A x \in DOMAIN f \ {k} : Drop(f, k)[x] = f[x]
  BY DEF Drop

\* The goroutines are told apart by their kind and channel.
LEMMA WaitersDiffer ==
  /\ \A c : Pairer(c) # Signer /\ Listener(c) # Signer
  /\ \A c, d : Pairer(c) # Listener(d) /\ (Pairer(c) = Pairer(d) => c = d)
  /\ \A c : Pairer(c).kind = "pair" /\ Pairer(c).chan = c /\ Listener(c).kind = "listen"
  /\ Signer.kind = "sign"
  <1>1. \A c : Pairer(c).kind = "pair" /\ Pairer(c).chan = c /\ Listener(c).kind = "listen"
    BY DEF Pairer, Listener
  <1>2. Signer.kind = "sign"
    BY DEF Signer
  <1> QED BY <1>1, <1>2

\* A goroutine that did not wait begins to: no message was on its way with it.
LEMMA WaitForOK ==
  ASSUME WaitTypeOK, NEW g \in Waiters, g \notin DOMAIN wait, NEW c \in Chans, NEW name \in Names,
         WaitFor(g, c, name)
  PROVE  /\ WaitTypeOK' /\ DOMAIN wait' = DOMAIN wait \cup {g}
         /\ \A d \in Chans : Keepers(d)' = Keepers(d)
  <1> DEFINE w == [at |-> "look", chan |-> c, name |-> name]
  <1>1. /\ DOMAIN wait' = DOMAIN wait \cup {g} /\ wait'[g] = w
        /\ \A h \in DOMAIN wait : wait'[h] = wait[h]
    <2>1. wait' = [x \in DOMAIN wait \cup {g} |-> IF x = g THEN w ELSE wait[x]]
      BY DEF WaitFor, Put
    <2> HIDE DEF w
    <2> QED BY <2>1
  <1>2. w \in [at : {"look", "pull"}, chan : Chans, name : Names] /\ w.at = "look"
    OBVIOUS
  <1> HIDE DEF w
  <1>3. IsFiniteSet(DOMAIN wait')
    BY <1>1, FS_AddElement DEF WaitTypeOK
  <1>4. WaitTypeOK'
    BY <1>1, <1>2, <1>3 DEF WaitTypeOK, Waiters, Names, Stages, Pairer, Listener, Signer
  <1>5. \A d \in Chans : Keepers(d)' = Keepers(d)
    BY <1>1, <1>2 DEF Keepers
  <1> QED BY <1>1, <1>4, <1>5

\* A goroutine that is not about to put a message into the buffer stops waiting.
LEMMA EndWaitOK ==
  ASSUME WaitTypeOK, NEW g \in DOMAIN wait, wait[g].at # "keep", wait' = Drop(wait, g)
  PROVE  /\ WaitTypeOK' /\ DOMAIN wait' = DOMAIN wait \ {g}
         /\ \A d \in Chans : Keepers(d)' = Keepers(d)
  <1>1. DOMAIN wait' = DOMAIN wait \ {g} /\ \A h \in DOMAIN wait' : wait'[h] = wait[h]
    BY DropFacts
  <1>2. IsFiniteSet(DOMAIN wait')
    BY <1>1, FS_RemoveElement DEF WaitTypeOK
  <1>3. WaitTypeOK'
    BY <1>1, <1>2 DEF WaitTypeOK, Waiters, Names, Stages, Pairer, Listener, Signer
  <1>4. \A d \in Chans : Keepers(d)' = Keepers(d)
    BY <1>1 DEF Keepers
  <1> QED BY <1>1, <1>3, <1>4

\* It looks, or pulls, next.
LEMMA ContinueOK ==
  ASSUME WaitTypeOK, NEW g \in DOMAIN wait, wait[g].at # "keep", NEW pc \in {"look", "pull"}, Continue(g, pc)
  PROVE  /\ WaitTypeOK' /\ DOMAIN wait' = DOMAIN wait
         /\ \A d \in Chans : Keepers(d)' = Keepers(d)
  <1>1. wait[g] \in [at : {"look", "pull"}, chan : Chans, name : Names]
    BY DEF WaitTypeOK
  <1> DEFINE w == [wait[g] EXCEPT !.at = pc]
  <1>2. w \in [at : {"look", "pull"}, chan : Chans, name : Names] /\ w.at = pc
    BY <1>1
  <1>3. DOMAIN wait' = DOMAIN wait /\ wait'[g] = w /\ \A h \in DOMAIN wait : h # g => wait'[h] = wait[h]
    BY DEF Continue
  <1> HIDE DEF w
  <1>4. WaitTypeOK'
    BY <1>2, <1>3 DEF WaitTypeOK, Waiters, Names, Stages, Pairer, Listener, Signer
  <1>5. \A d \in Chans : Keepers(d)' = Keepers(d)
    BY <1>2, <1>3 DEF Keepers
  <1> QED BY <1>3, <1>4, <1>5

LEMMA KeepersFinite ==
  ASSUME WaitTypeOK, NEW c
  PROVE  IsFiniteSet(Keepers(c)) /\ Cardinality(Keepers(c)) \in Nat
  <1>1. IsFiniteSet(Keepers(c))
    BY FS_Subset DEF WaitTypeOK, Keepers
  <1> QED BY <1>1, FS_CardinalityType

\* The messages, when no goroutine takes one or puts one into the buffer.
LEMMA MessagesSame ==
  ASSUME MessagesOK, UNCHANGED <<server, buffer, due>>, \A d \in Chans : Keepers(d)' = Keepers(d)
  PROVE  MessagesOK'
  BY DEF MessagesOK, NoMessageLost, Names, Stages

LEMMA PushOK ==
  ASSUME MessagesOK, WaitTypeOK, NEW c \in Chans, NEW name \in Names, PushFromMobile(c, name), UNCHANGED buffer,
         \A d \in Chans : Keepers(d)' = Keepers(d)
  PROVE  MessagesOK'
  <1>1. server \in [Chans -> Seq(Names)] /\ buffer \in [Chans -> Seq(Names)] /\ due \in [Chans -> Int] /\ NoMessageLost
    BY DEF MessagesOK
  <1>2. server' = [server EXCEPT ![c] = Append(server[c], name)] /\ due' = [due EXCEPT ![c] = due[c] + 1]
    BY DEF PushFromMobile
  <1> HIDE DEF Names
  <1>3. /\ Append(server[c], name) \in Seq(Names) /\ Len(Append(server[c], name)) = Len(server[c]) + 1
    BY <1>1
  <1>4. server' \in [Chans -> Seq(Names)] /\ due' \in [Chans -> Int]
    BY <1>1, <1>2, <1>3
  <1>5. ASSUME NEW d \in Chans PROVE due'[d] = Len(server'[d]) + Len(buffer'[d]) + Cardinality(Keepers(d)')
    <2>1. due[d] = Len(server[d]) + Len(buffer[d]) + Cardinality(Keepers(d))
      BY <1>1 DEF NoMessageLost
    <2>2. Len(server[d]) \in Nat /\ Len(buffer[d]) \in Nat /\ Cardinality(Keepers(d)) \in Nat
      BY <1>1, KeepersFinite
    <2>3. CASE d = c
      BY <1>1, <1>2, <1>3, <2>1, <2>2, <2>3
    <2>4. CASE d # c
      BY <1>1, <1>2, <2>1, <2>4
    <2> QED BY <2>3, <2>4
  <1> QED BY <1>1, <1>4, <1>5 DEF MessagesOK, NoMessageLost, Names, Stages

\* The message that a goroutine was waiting for is taken from the buffer or from the server.
LEMMA DeliverOK ==
  ASSUME MessagesOK, WaitTypeOK, NEW g \in DOMAIN wait, wait[g].at # "keep", Deliver(g), NEW q \in Seq(Names),
         LET c == wait[g].chan
         IN  \/ Len(q) = Len(buffer[c]) - 1 /\ buffer' = [buffer EXCEPT ![c] = q] /\ UNCHANGED server
             \/ Len(q) = Len(server[c]) - 1 /\ server' = [server EXCEPT ![c] = q] /\ UNCHANGED buffer
  PROVE  MessagesOK' /\ WaitTypeOK' /\ DOMAIN wait' = DOMAIN wait \ {g}
  <1> DEFINE c == wait[g].chan
  <1>1. server \in [Chans -> Seq(Names)] /\ buffer \in [Chans -> Seq(Names)] /\ due \in [Chans -> Int] /\ NoMessageLost
    BY DEF MessagesOK
  <1>2. /\ WaitTypeOK' /\ DOMAIN wait' = DOMAIN wait \ {g}
        /\ \A d \in Chans : Keepers(d)' = Keepers(d)
    BY EndWaitOK DEF Deliver
  <1>3. c \in Chans
    BY DEF WaitTypeOK
  <1>4. due' = [due EXCEPT ![c] = due[c] - 1]
    BY DEF Deliver
  <1>5. \/ Len(q) = Len(buffer[c]) - 1 /\ buffer' = [buffer EXCEPT ![c] = q] /\ UNCHANGED server
        \/ Len(q) = Len(server[c]) - 1 /\ server' = [server EXCEPT ![c] = q] /\ UNCHANGED buffer
    OBVIOUS
  <1> HIDE DEF c, Names
  <1>6. server' \in [Chans -> Seq(Names)] /\ buffer' \in [Chans -> Seq(Names)] /\ due' \in [Chans -> Int]
    <2>1. due' \in [Chans -> Int]
      BY <1>1, <1>3, <1>4
    <2>2. server' \in [Chans -> Seq(Names)]
      BY <1>1, <1>3, <1>5
    <2>3. buffer' \in [Chans -> Seq(Names)]
      BY <1>1, <1>3, <1>5
    <2> QED BY <2>1, <2>2, <2>3
  <1>7. ASSUME NEW d \in Chans PROVE due'[d] = Len(server'[d]) + Len(buffer'[d]) + Cardinality(Keepers(d)')
    <2>1. due[d] = Len(server[d]) + Len(buffer[d]) + Cardinality(Keepers(d))
      BY <1>1 DEF NoMessageLost
    <2>2. Len(server[d]) \in Nat /\ Len(buffer[d]) \in Nat /\ Cardinality(Keepers(d)) \in Nat
      BY <1>1, KeepersFinite
    <2>3. CASE d = c
      <3>1. due'[d] = due[d] - 1 /\ Cardinality(Keepers(d)') = Cardinality(Keepers(d))
        BY <1>1, <1>2, <1>3, <1>4, <2>3
      <3>2. Len(server'[d]) + Len(buffer'[d]) = Len(server[d]) + Len(buffer[d]) - 1
        <4>1. CASE Len(q) = Len(buffer[c]) - 1 /\ buffer' = [buffer EXCEPT ![c] = q] /\ UNCHANGED server
          <5>1. server'[d] = server[d] /\ buffer'[d] = q /\ Len(q) = Len(buffer[d]) - 1
            BY <1>1, <1>3, <2>3, <4>1
          <5> QED BY <2>2, <5>1
        <4>2. CASE Len(q) = Len(server[c]) - 1 /\ server' = [server EXCEPT ![c] = q] /\ UNCHANGED buffer
          <5>1. server'[d] = q /\ buffer'[d] = buffer[d] /\ Len(q) = Len(server[d]) - 1
            BY <1>1, <1>3, <2>3, <4>2
          <5> QED BY <2>2, <5>1
        <4> QED BY <1>5, <4>1, <4>2
      <3>3. Len(server'[d]) \in Nat /\ Len(buffer'[d]) \in Nat
        BY <1>6
      <3>4. due'[d] = (Len(server[d]) + Len(buffer[d]) + Cardinality(Keepers(d))) - 1
        BY <2>1, <3>1
      <3>5. due'[d] = Len(server'[d]) + Len(buffer'[d]) + Cardinality(Keepers(d))
        <4> DEFINE a == Len(server[d])
                   b == Len(buffer[d])
                   k == Cardinality(Keepers(d))
                   x == Len(server'[d])
                   y == Len(buffer'[d])
        <4>1. a \in Nat /\ b \in Nat /\ k \in Nat /\ x \in Nat /\ y \in Nat /\ x + y = a + b - 1
          BY <2>2, <3>2, <3>3
        <4> HIDE DEF a, b, k, x, y
        <4>2. (a + b + k) - 1 = x + y + k
          BY <4>1
        <4> QED BY <3>4, <4>2 DEF a, b, k, x, y
      <3> QED BY <3>1, <3>5
    <2>4. CASE d # c
      BY <1>1, <1>2, <1>3, <1>4, <1>5, <2>1, <2>4
    <2> QED BY <2>3, <2>4
  <1> QED BY <1>2, <1>6, <1>7 DEF MessagesOK, NoMessageLost, Names, Stages

\* Taking a message out of the buffer.
LEMMA RemoveAtOK ==
  ASSUME NEW S, NEW s \in Seq(S), NEW i \in 1..Len(s)
  PROVE  RemoveAt(s, i) \in Seq(S) /\ Len(RemoveAt(s, i)) = Len(s) - 1
  <1>1. Len(s) \in Nat /\ \A j \in 1..Len(s) : s[j] \in S
    OBVIOUS
  <1> DEFINE a == SubSeq(s, 1, i - 1)
             b == SubSeq(s, i + 1, Len(s))
  <1>2. a \in Seq(S) /\ Len(a) = i - 1
    <2>1. i - 1 \in Int /\ \A j \in 1..(i - 1) : s[j] \in S
      BY <1>1
    <2> QED BY <1>1, <2>1, SubSeqProperties
  <1>3. b \in Seq(S) /\ Len(b) = Len(s) - i
    <2>1. i + 1 \in Int /\ \A j \in (i + 1)..Len(s) : s[j] \in S
      BY <1>1
    <2> QED BY <1>1, <2>1, SubSeqProperties
  <1>4. RemoveAt(s, i) = a \o b
    BY DEF RemoveAt
  <1> HIDE DEF a, b
  <1> QED BY <1>1, <1>2, <1>3, <1>4, ConcatProperties

LEMMA LooksForOK ==
  ASSUME MessagesOK, WaitTypeOK, NEW g \in DOMAIN wait, LooksFor(g) # 0
  PROVE  LooksFor(g) \in 1..Len(buffer[wait[g].chan])
  <1> DEFINE c == wait[g].chan
             found == {i \in 1..Len(buffer[c]) : buffer[c][i] = wait[g].name}
  <1>1. c \in Chans /\ buffer[c] \in Seq(Names)
    BY DEF WaitTypeOK, MessagesOK
  <1>2. Len(buffer[c]) \in Nat
    BY <1>1
  <1>3. LooksFor(g) = IF found = {} THEN 0 ELSE Min(found)
    BY DEF LooksFor, Find
  <1>4. found # {}
    BY <1>3
  <1>5. found \subseteq Nat
    BY <1>2
  <1>6. \E x \in found : \A y \in found : x <= y
    BY <1>4, <1>5, LeastNat
  <1>7. Min(found) \in found
    BY <1>6, Zenon DEF Min
  <1> QED BY <1>3, <1>4, <1>7

\* The signatures of one batch more.
LEMMA BatchOK ==
  ASSUME NEW i \in 0..Inputs
  PROVE  /\ FirstInputs(i) \o Batch(i) = FirstInputs(Upper(i)) /\ Upper(i) \in 0..Inputs
         /\ Upper(i) = IF i + BatchSize < Inputs THEN i + BatchSize ELSE Inputs
  <1>1. i \in Nat /\ Inputs \in Nat /\ BatchSize \in Nat \ {0} /\ i <= Inputs
    BY RelayAssumption
  <1>2. /\ Upper(i) \in 0..Inputs /\ Upper(i) >= i
        /\ Upper(i) = IF i + BatchSize < Inputs THEN i + BatchSize ELSE Inputs
    BY <1>1 DEF Upper
  <1> DEFINE u == Upper(i)
             s == FirstInputs(i)
             t == Batch(i)
             r == FirstInputs(u)
  <1>3. u \in Nat /\ u >= i /\ u - i \in Nat
    BY <1>1, <1>2
  <1>4. t = [k \in 1..(u - i) |-> i + k]
    BY DEF Batch
  <1> HIDE DEF u
  <1>5. s \in Seq(Nat) /\ Len(s) = i /\ \A k \in 1..i : s[k] = k
    BY <1>1 DEF FirstInputs
  <1>6. t \in Seq(Nat) /\ Len(t) = u - i /\ \A k \in 1..(u - i) : t[k] = i + k
    <2> HIDE DEF t
    <2> QED BY <1>1, <1>3, <1>4
  <1>7. r \in Seq(Nat) /\ Len(r) = u /\ \A k \in 1..u : r[k] = k
    BY <1>3 DEF FirstInputs
  <1> HIDE DEF s, t, r
  <1>8. /\ s \o t \in Seq(Nat) /\ Len(s \o t) = Len(s) + Len(t)
        /\ \A k \in 1..(Len(s) + Len(t)) : (s \o t)[k] = IF k <= Len(s) THEN s[k] ELSE t[k - Len(s)]
    BY <1>5, <1>6, ConcatProperties
  <1>9. Len(s) + Len(t) = u
    BY <1>1, <1>3, <1>5, <1>6
  <1>10. ASSUME NEW k \in 1..u PROVE (s \o t)[k] = r[k]
    <2>1. (s \o t)[k] = IF k <= i THEN s[k] ELSE t[k - i]
      BY <1>5, <1>8, <1>9
    <2>2. k \in Nat /\ k > 0 /\ k <= u
      BY <1>3
    <2>3. CASE k <= i
      BY <1>1, <1>5, <1>7, <2>1, <2>2, <2>3
    <2>4. CASE k > i
      <3>1. k - i \in 1..(u - i)
        BY <1>1, <1>3, <2>2, <2>4
      <3>2. t[k - i] = i + (k - i)
        BY <1>6, <3>1
      <3>3. t[k - i] = k /\ ~(k <= i)
        BY <1>1, <2>2, <2>4, <3>2
      <3> QED BY <1>7, <2>1, <3>3
    <2>5. k <= i \/ k > i
      BY <1>1, <2>2
    <2> QED BY <2>3, <2>4, <2>5
  <1>11. s \o t = r
    BY <1>7, <1>8, <1>9, <1>10, SeqEqual
  <1>12. FirstInputs(i) \o Batch(i) = FirstInputs(Upper(i))
    BY <1>11, Zenon DEF s, t, r, u
  <1> QED BY <1>2, <1>12

\* What a caller of waitForValue does when it ends.
LEMMA WaitEnds ==
  ASSUME WaitOK, PairingOK, SignOK, NEW g \in DOMAIN wait, WaitTypeOK', DOMAIN wait' = DOMAIN wait \ {g},
         Got(g) \/ GotNothing(g), UNCHANGED <<channel, file, fresh, listening>>
  PROVE  WaitOK' /\ PairingOK' /\ SignOK'
  <1>1. /\ \A c \in Chans : Pairer(c) \in DOMAIN wait => c \in DOMAIN pairing /\ pairing[c].at = "wait"
        /\ Signer \in DOMAIN wait => sign.at = "pin"
        /\ DOMAIN wait \subseteq Waiters
    BY DEF WaitOK, WaitTypeOK
  <1>2. /\ DOMAIN pairing \subseteq Chans \ fresh
        /\ \A c \in DOMAIN pairing :
              pairing[c] \in [at : {"wait", "got", "finish"}, stage : 1..Len(Stages), sent : BOOLEAN]
    BY DEF PairingOK
  <1>3. ASSUME NEW c \in Chans, g = Pairer(c) PROVE WaitOK' /\ PairingOK' /\ SignOK'
    <2>1. g.kind = "pair" /\ g.chan = c /\ c \in DOMAIN pairing
      BY <1>1, <1>3, WaitersDiffer
    <2>2. (pairing' = [pairing EXCEPT ![c].at = "got"] \/ pairing' = Drop(pairing, c)) /\ UNCHANGED sign
      BY <2>1 DEF Got, GotNothing
    <2>3. /\ DOMAIN pairing' \subseteq DOMAIN pairing /\ DOMAIN pairing \ {c} \subseteq DOMAIN pairing'
          /\ \A d \in DOMAIN pairing \ {c} : pairing'[d] = pairing[d]
          /\ c \in DOMAIN pairing' => pairing'[c] = [pairing[c] EXCEPT !.at = "got"]
      <3>1. CASE pairing' = [pairing EXCEPT ![c].at = "got"]
        BY <2>1, <3>1
      <3>2. CASE pairing' = Drop(pairing, c)
        <4>1. DOMAIN pairing' = DOMAIN pairing \ {c} /\ \A d \in DOMAIN pairing \ {c} : pairing'[d] = pairing[d]
          BY <3>2 DEF Drop
        <4> QED BY <4>1
      <3> QED BY <2>2, <3>1, <3>2
    <2>4. [pairing[c] EXCEPT !.at = "got"] \in [at : {"wait", "got", "finish"}, stage : 1..Len(Stages), sent : BOOLEAN]
      BY <1>2, <2>1
    <2>5. PairingOK'
      BY <1>2, <2>3, <2>4 DEF PairingOK, ChannelIsSaved, Stages, Listener
    <2>6. \A d \in Chans : Pairer(d) \in DOMAIN wait' => d \in DOMAIN pairing' /\ pairing'[d].at = "wait"
      BY <1>1, <1>3, <2>3
    <2>7. Signer \in DOMAIN wait' => sign'.at = "pin"
      BY <1>1, <2>2
    <2> QED BY <2>2, <2>5, <2>6, <2>7 DEF WaitOK, SignOK, FirstInputs, NotSigning, Pairer, Signer
  <1>4. CASE g = Signer
    <2>1. g.kind = "sign" /\ sign.at = "pin"
      BY <1>1, <1>4, WaitersDiffer
    <2>2. (sign' = [sign EXCEPT !.at = "got"] \/ sign' = NotSigning) /\ UNCHANGED pairing
      BY <2>1 DEF Got, GotNothing
    <2>3. SignOK'
      <3>1. CASE sign' = NotSigning
        BY <3>1 DEF SignOK, NotSigning
      <3>2. CASE sign' = [sign EXCEPT !.at = "got"]
        <4>1. /\ sign \in [at : {"echo", "pin", "got"}, paired : BOOLEAN, i : 0..Inputs, sigs : {sign.sigs}, echo : Chans \cup {Nil}]
              /\ sign.sigs = FirstInputs(sign.i)
          BY <2>1 DEF SignOK, NotSigning
        <4>2. /\ sign' \in [at : {"echo", "pin", "got"}, paired : BOOLEAN, i : 0..Inputs, sigs : {sign'.sigs}, echo : Chans \cup {Nil}]
              /\ sign'.sigs = sign.sigs /\ sign'.i = sign.i
          BY <3>2, <4>1
        <4> QED BY <4>1, <4>2 DEF SignOK, FirstInputs
      <3> QED BY <2>2, <3>1, <3>2
    <2>4. PairingOK'
      BY <2>2 DEF PairingOK, ChannelIsSaved, Stages, Listener
    <2> QED BY <1>1, <1>4, <2>2, <2>3, <2>4 DEF WaitOK, Pairer, Signer
  <1>5. ASSUME NEW c \in Chans, g = Listener(c) PROVE WaitOK' /\ PairingOK' /\ SignOK'
    <2>1. g.kind = "listen"
      BY <1>5, WaitersDiffer
    <2>2. UNCHANGED <<pairing, sign>>
      BY <2>1 DEF Got, GotNothing
    <2> QED BY <1>1, <2>2 DEF WaitOK, PairingOK, SignOK, ChannelIsSaved, Stages, Listener, Pairer, Signer, FirstInputs, NotSigning
  <1> QED BY <1>1, <1>3, <1>4, <1>5 DEF Waiters

\* The message that a goroutine pulled for another one is on its way into the buffer.
LEMMA KeepsOK ==
  ASSUME MessagesOK, WaitTypeOK, NEW g \in DOMAIN wait, NEW c \in Chans, c = wait[g].chan, wait[g].at = "pull",
         NEW q \in Seq(Names), Len(q) = Len(server[c]) - 1, server' = [server EXCEPT ![c] = q],
         NEW w \in [at : {"keep"}, chan : {c}, name : Names, msg : Names], wait' = [wait EXCEPT ![g] = w],
         UNCHANGED <<buffer, due>>
  PROVE  MessagesOK' /\ WaitTypeOK'
  <1>1. server \in [Chans -> Seq(Names)] /\ buffer \in [Chans -> Seq(Names)] /\ due \in [Chans -> Int] /\ NoMessageLost
    BY DEF MessagesOK
  <1>2. w.at = "keep" /\ w.chan = c /\ w \in [at : {"keep"}, chan : Chans, name : Names, msg : Names]
    OBVIOUS
  <1>3. DOMAIN wait' = DOMAIN wait /\ wait'[g] = w /\ \A h \in DOMAIN wait : h # g => wait'[h] = wait[h]
    OBVIOUS
  <1>4. WaitTypeOK'
    BY <1>2, <1>3 DEF WaitTypeOK, Waiters, Names, Stages, Pairer, Listener, Signer
  <1>5. g \notin Keepers(c) /\ Keepers(c)' = Keepers(c) \cup {g}
    BY <1>2, <1>3 DEF Keepers
  <1>6. \A d \in Chans : d # c => Keepers(d)' = Keepers(d)
    BY <1>2, <1>3 DEF Keepers
  <1>7. server' \in [Chans -> Seq(Names)]
    BY <1>1
  <1> HIDE DEF Names
  <1>8. ASSUME NEW d \in Chans PROVE due'[d] = Len(server'[d]) + Len(buffer'[d]) + Cardinality(Keepers(d)')
    <2>1. due[d] = Len(server[d]) + Len(buffer[d]) + Cardinality(Keepers(d))
      BY <1>1 DEF NoMessageLost
    <2>2. Len(server[d]) \in Nat /\ Len(buffer[d]) \in Nat /\ Cardinality(Keepers(d)) \in Nat
      BY <1>1, KeepersFinite
    <2>3. CASE d = c
      <3>1. Cardinality(Keepers(d)') = Cardinality(Keepers(d)) + 1
        BY <1>5, <2>3, KeepersFinite, FS_AddElement
      <3>2. Len(server'[d]) = Len(server[d]) - 1
        BY <1>1, <2>3
      <3> DEFINE a == Len(server[d])
                 b == Len(buffer[d])
                 k == Cardinality(Keepers(d))
      <3> HIDE DEF a, b, k
      <3>3. a \in Nat /\ b \in Nat /\ k \in Nat /\ due[d] = a + b + k
        BY <2>1, <2>2 DEF a, b, k
      <3>4. due[d] = (a - 1) + b + (k + 1)
        BY <3>3
      <3> QED BY <3>1, <3>2, <3>4 DEF a, b, k
    <2>4. CASE d # c
      BY <1>1, <1>6, <2>1, <2>4
    <2> QED BY <2>3, <2>4
  <1> QED BY <1>1, <1>4, <1>7, <1>8 DEF MessagesOK, NoMessageLost, Names, Stages

\* It is in the buffer.
LEMMA KeptOK ==
  ASSUME MessagesOK, WaitTypeOK, NEW g \in DOMAIN wait, NEW c \in Chans, c = wait[g].chan, wait[g].at = "keep",
         buffer' = [buffer EXCEPT ![c] = Append(buffer[c], wait[g].msg)],
         NEW w \in [at : {"look"}, chan : {c}, name : Names], wait' = [wait EXCEPT ![g] = w],
         UNCHANGED <<server, due>>
  PROVE  MessagesOK' /\ WaitTypeOK'
  <1>1. server \in [Chans -> Seq(Names)] /\ buffer \in [Chans -> Seq(Names)] /\ due \in [Chans -> Int] /\ NoMessageLost
    BY DEF MessagesOK
  <1>2. w.at = "look" /\ w.chan = c /\ w \in [at : {"look", "pull"}, chan : Chans, name : Names]
    OBVIOUS
  <1>3. DOMAIN wait' = DOMAIN wait /\ wait'[g] = w /\ \A h \in DOMAIN wait : h # g => wait'[h] = wait[h]
    OBVIOUS
  <1>4. WaitTypeOK'
    BY <1>2, <1>3 DEF WaitTypeOK, Waiters, Names, Stages, Pairer, Listener, Signer
  <1>5. g \in Keepers(c) /\ Keepers(c)' = Keepers(c) \ {g}
    BY <1>2, <1>3 DEF Keepers
  <1>6. \A d \in Chans : d # c => Keepers(d)' = Keepers(d)
    BY <1>2, <1>3 DEF Keepers
  <1>7. wait[g].msg \in Names
    BY DEF WaitTypeOK
  <1> HIDE DEF Names
  <1>8. buffer' \in [Chans -> Seq(Names)] /\ Len(buffer'[c]) = Len(buffer[c]) + 1
    <2> DEFINE b == Append(buffer[c], wait[g].msg)
    <2>1. b \in Seq(Names) /\ Len(b) = Len(buffer[c]) + 1
      BY <1>1, <1>7
    <2> HIDE DEF b
    <2>2. buffer' = [buffer EXCEPT ![c] = b]
      BY DEF b
    <2> QED BY <1>1, <2>1, <2>2
  <1>9. ASSUME NEW d \in Chans PROVE due'[d] = Len(server'[d]) + Len(buffer'[d]) + Cardinality(Keepers(d)')
    <2>1. due[d] = Len(server[d]) + Len(buffer[d]) + Cardinality(Keepers(d))
      BY <1>1 DEF NoMessageLost
    <2>2. Len(server[d]) \in Nat /\ Len(buffer[d]) \in Nat /\ Cardinality(Keepers(d)) \in Nat
      BY <1>1, KeepersFinite
    <2>3. CASE d = c
      <3>1. Cardinality(Keepers(d)') = Cardinality(Keepers(d)) - 1
        BY <1>5, <2>3, KeepersFinite, FS_RemoveElement
      <3>2. Len(buffer'[d]) = Len(buffer[d]) + 1
        BY <1>8, <2>3
      <3> DEFINE a == Len(server[d])
                 b == Len(buffer[d])
                 k == Cardinality(Keepers(d))
      <3> HIDE DEF a, b, k
      <3>3. a \in Nat /\ b \in Nat /\ k \in Nat /\ due[d] = a + b + k
        BY <2>1, <2>2 DEF a, b, k
      <3>4. due[d] = a + (b + 1) + (k - 1)
        BY <3>3
      <3> QED BY <3>1, <3>2, <3>4 DEF a, b, k
    <2>4. CASE d # c
      BY <1>1, <1>6, <2>1, <2>4
    <2> QED BY <2>3, <2>4
  <1> QED BY <1>1, <1>4, <1>8, <1>9 DEF MessagesOK, NoMessageLost, Names, Stages

\* It is as it was for the pairings and the signatures.
LEMMA WaitSame ==
  ASSUME WaitOK, PairingOK, SignOK, WaitTypeOK', DOMAIN wait' = DOMAIN wait,
         UNCHANGED <<channel, file, fresh, listening, pairing, sign>>
  PROVE  WaitOK' /\ PairingOK' /\ SignOK'
  <1>1. /\ \A c \in Chans : Pairer(c) \in DOMAIN wait => c \in DOMAIN pairing /\ pairing[c].at = "wait"
        /\ Signer \in DOMAIN wait => sign.at = "pin"
    BY DEF WaitOK
  <1>2. WaitOK'
    BY <1>1 DEF WaitOK, Pairer, Signer
  <1>3. PairingOK'
    BY DEF PairingOK, ChannelIsSaved, Stages, Listener
  <1>4. SignOK'
    BY DEF SignOK, FirstInputs, NotSigning
  <1> QED BY <1>2, <1>3, <1>4

LEMMA RelayInitInv == RelayInit => RelayInv
  <1> SUFFICES ASSUME RelayInit PROVE RelayInv
    OBVIOUS
  <1>1. DOMAIN wait = {} /\ DOMAIN pairing = {}
    BY DEF RelayInit
  <1>2. \A c \in Chans : Keepers(c) = {}
    BY <1>1 DEF Keepers
  <1>3. \A c \in Chans : Cardinality(Keepers(c)) = 0 /\ Len(server[c]) = 0 /\ Len(buffer[c]) = 0 /\ due[c] = 0
    BY <1>2, FS_EmptySet DEF RelayInit
  <1>4. MessagesOK
    <2>1. server \in [Chans -> Seq(Names)] /\ buffer \in [Chans -> Seq(Names)] /\ due \in [Chans -> Int]
      BY DEF RelayInit
    <2> QED BY <1>3, <2>1 DEF MessagesOK, NoMessageLost
  <1>5. WaitOK
    BY <1>1, FS_EmptySet DEF WaitOK, WaitTypeOK
  <1>6. PairingOK
    BY <1>1 DEF RelayInit, PairingOK, ChannelIsSaved
  <1>7. SignOK
    BY DEF RelayInit, SignOK
  <1> QED BY <1>4, <1>5, <1>6, <1>7 DEF RelayInv

\* What each step does to the messages, the goroutines that wait, the pairings and the signatures.
LEMMA RelayStepInv == RelayInv /\ [RelayNext]_relayVars => RelayInv'
  <1> SUFFICES ASSUME RelayInv, [RelayNext]_relayVars PROVE RelayInv'
    OBVIOUS
  <1> DEFINE Pairings == [at : {"wait", "got", "finish"}, stage : 1..Len(Stages), sent : BOOLEAN]
             Signs(s) == /\ s \in [at : {"echo", "pin", "got"}, paired : BOOLEAN, i : 0..Inputs, sigs : {s.sigs},
                                   echo : Chans \cup {Nil}]
                         /\ s.sigs = FirstInputs(s.i)
  <1>0. MessagesOK /\ WaitTypeOK /\ WaitOK /\ PairingOK /\ SignOK
    BY DEF RelayInv, WaitOK
  <1>1. /\ \A c \in Chans : Pairer(c) \in DOMAIN wait => c \in DOMAIN pairing /\ pairing[c].at = "wait"
        /\ Signer \in DOMAIN wait => sign.at = "pin"
        /\ \A g \in DOMAIN wait : g \in Waiters /\ wait[g].chan \in Chans /\ wait[g].name \in Names
                                  /\ wait[g].at \in {"look", "pull", "keep"}
    BY <1>0 DEF WaitOK, WaitTypeOK
  <1>2. /\ channel \in Chans \cup {Nil} /\ file \in Chans \cup {Nil} /\ (channel # Nil => file # Nil)
        /\ fresh \subseteq Chans /\ DOMAIN pairing \subseteq Chans \ fresh
        /\ \A c \in DOMAIN pairing : pairing[c] \in Pairings
        /\ listening \subseteq {Listener(c) : c \in Chans}
    BY <1>0 DEF PairingOK, ChannelIsSaved
  <1>3. sign = NotSigning \/ Signs(sign) \/ sign = [at |-> "done", sigs |-> FirstInputs(Inputs)]
    BY <1>0 DEF SignOK
  <1>N. Stages[1] \in Names /\ Stages[2] \in Names /\ Stages[3] \in Names /\ Stages[4] \in Names /\ Len(Stages) = 4
        /\ "pin" \in Names /\ "action" \in Names
    BY DEF Names, Stages
  <1>K. UNCHANGED wait => WaitTypeOK' /\ \A d \in Chans : Keepers(d)' = Keepers(d)
    BY <1>0 DEF WaitTypeOK, Keepers, Waiters, Names, Stages, Pairer, Listener, Signer
  <1>P. UNCHANGED <<channel, file, pairing, listening, fresh>> => PairingOK'
    BY <1>0 DEF PairingOK, ChannelIsSaved, Stages, Listener
  <1>S. UNCHANGED sign => SignOK'
    BY <1>0 DEF SignOK, FirstInputs, NotSigning
  <1>M. UNCHANGED <<server, buffer, due, wait>> => MessagesOK'
    BY <1>0, <1>K, MessagesSame
  \* The goroutines that wait, when the pairings go on.
  <1>W. ASSUME WaitTypeOK', UNCHANGED wait, UNCHANGED sign \/ Signer \notin DOMAIN wait,
               \A c \in Chans : Pairer(c) \in DOMAIN wait => c \in DOMAIN pairing' /\ pairing'[c].at = "wait"
        PROVE  WaitOK'
    BY <1>1, <1>W DEF WaitOK, Pairer, Signer
  <1> HIDE DEF Pairings, Signs
  <1>4. ASSUME NEW c \in Chans, MobilePairs(c) PROVE RelayInv'
    <2>1. /\ c \in DOMAIN pairing /\ pairing[c].at = "wait" /\ pairing' = [pairing EXCEPT ![c].sent = TRUE]
          /\ PushFromMobile(c, Stages[pairing[c].stage])
          /\ UNCHANGED <<channel, file, buffer, wait, listening, fresh, sign>>
      BY <1>4 DEF MobilePairs
    <2>2. pairing[c] \in Pairings /\ Stages[pairing[c].stage] \in Names
      <3>1. pairing[c] \in Pairings
        BY <1>2, <2>1
      <3>2. pairing[c].stage \in 1..4
        BY <1>N, <3>1 DEF Pairings
      <3> QED BY <1>N, <3>1, <3>2
    <2>3. MessagesOK'
      BY <1>0, <1>K, <2>1, <2>2, PushOK
    <2>4. /\ DOMAIN pairing' = DOMAIN pairing /\ pairing'[c].at = "wait" /\ pairing'[c] \in Pairings
          /\ \A d \in DOMAIN pairing : d # c => pairing'[d] = pairing[d]
      BY <2>1, <2>2 DEF Pairings
    <2>5. PairingOK'
      BY <1>2, <2>1, <2>4 DEF PairingOK, ChannelIsSaved, Stages, Listener, Pairings
    <2>6. WaitOK'
      BY <1>1, <1>K, <1>W, <2>1, <2>4
    <2> QED BY <1>S, <2>1, <2>3, <2>5, <2>6 DEF RelayInv
  <1>5. CASE MobileConfirms
    <2>1. /\ sign.at = "pin" /\ sign.echo # Nil /\ PushFromMobile(sign.echo, "pin") /\ sign' = [sign EXCEPT !.echo = Nil]
          /\ UNCHANGED <<channel, file, buffer, wait, pairing, listening, fresh>>
      BY <1>5 DEF MobileConfirms
    <2>2. Signs(sign)
      BY <1>3, <2>1 DEF NotSigning
    <2>3. sign.echo \in Chans
      BY <2>1, <2>2 DEF Signs
    <2>4. MessagesOK'
      BY <1>0, <1>K, <1>N, <2>1, <2>3, PushOK
    <2>5. Signs(sign') /\ sign'.at = "pin"
      BY <2>1, <2>2 DEF Signs
    <2>6. SignOK'
      BY <2>5 DEF SignOK, Signs, FirstInputs
    <2>7. WaitOK'
      BY <1>1, <1>K, <2>1, <2>5 DEF WaitOK, Pairer, Signer
    <2> QED BY <1>P, <2>1, <2>4, <2>6, <2>7 DEF RelayInv
  <1>6. ASSUME NEW c \in Chans, StartPairing(c) PROVE RelayInv'
    <2> DEFINE p == [at |-> "wait", stage |-> 1, sent |-> FALSE]
    <2>1. /\ c \in fresh /\ fresh' = fresh \ {c} /\ pairing' = Put(pairing, c, p) /\ WaitFor(Pairer(c), c, Stages[1])
          /\ UNCHANGED <<server, buffer, listening, sign, due>>
          /\ (file' = Nil /\ channel' = Nil) \/ (UNCHANGED <<file, channel>>)
      BY <1>6 DEF StartPairing, Forget
    <2>2. p \in Pairings /\ p.at = "wait"
      BY <1>N DEF Pairings
    <2> HIDE DEF p
    <2>3. c \notin DOMAIN pairing /\ Pairer(c) \notin DOMAIN wait /\ Pairer(c) \in Waiters
      BY <1>1, <1>2, <2>1 DEF Waiters
    <2>4. DOMAIN pairing' = DOMAIN pairing \cup {c} /\ pairing'[c] = p /\ \A d \in DOMAIN pairing : pairing'[d] = pairing[d]
      BY <2>1, <2>3 DEF Put
    <2>5. /\ WaitTypeOK' /\ DOMAIN wait' = DOMAIN wait \cup {Pairer(c)}
          /\ \A d \in Chans : Keepers(d)' = Keepers(d)
      BY <1>0, <1>N, <2>1, <2>3, WaitForOK
    <2>6. MessagesOK'
      BY <1>0, <2>1, <2>5, MessagesSame
    <2>7. PairingOK'
      BY <1>2, <2>1, <2>2, <2>4 DEF PairingOK, ChannelIsSaved, Stages, Listener, Pairings
    <2>8. WaitOK'
      <3>1. \A d \in Chans : Pairer(d) \in DOMAIN wait' => d \in DOMAIN pairing' /\ pairing'[d].at = "wait"
        BY <1>1, <2>2, <2>4, <2>5, WaitersDiffer
      <3>2. Signer \in DOMAIN wait' => sign'.at = "pin"
        BY <1>1, <2>1, <2>5, WaitersDiffer
      <3> QED BY <2>5, <3>1, <3>2 DEF WaitOK, Pairer, Signer
    <2> QED BY <1>S, <2>1, <2>6, <2>7, <2>8 DEF RelayInv
  <1>7. ASSUME NEW c \in Chans, PairingStep(c) PROVE RelayInv'
    <2> DEFINE stage == pairing[c].stage
    <2>1. /\ c \in DOMAIN pairing /\ pairing[c].at = "got"
          /\ UNCHANGED <<channel, file, server, buffer, listening, fresh, sign, due>>
      BY <1>7 DEF PairingStep
    <2>2. pairing[c] \in Pairings /\ stage \in 1..4
      BY <1>2, <1>N, <2>1 DEF Pairings
    <2>3. Pairer(c) \notin DOMAIN wait /\ Pairer(c) \in Waiters
      BY <1>1, <2>1 DEF Waiters
    <2>4. CASE /\ stage < Len(Stages)
               /\ pairing' = [pairing EXCEPT ![c] = [at |-> "wait", stage |-> stage + 1, sent |-> FALSE]]
               /\ WaitFor(Pairer(c), c, Stages[stage + 1])
      <3> DEFINE p == [at |-> "wait", stage |-> stage + 1, sent |-> FALSE]
      <3>1. p \in Pairings /\ p.at = "wait" /\ Stages[stage + 1] \in Names
        BY <1>N, <2>2, <2>4 DEF Pairings
      <3>2. DOMAIN pairing' = DOMAIN pairing /\ pairing'[c] = p /\ \A d \in DOMAIN pairing : d # c => pairing'[d] = pairing[d]
        BY <2>1, <2>4
      <3> HIDE DEF p
      <3>3. /\ WaitTypeOK' /\ DOMAIN wait' = DOMAIN wait \cup {Pairer(c)}
            /\ \A d \in Chans : Keepers(d)' = Keepers(d)
        BY <1>0, <2>3, <2>4, <3>1, WaitForOK
      <3>4. MessagesOK'
        BY <1>0, <2>1, <3>3, MessagesSame
      <3>5. PairingOK'
        BY <1>2, <2>1, <3>1, <3>2 DEF PairingOK, ChannelIsSaved, Stages, Listener, Pairings
      <3>6. WaitOK'
        <4>1. \A d \in Chans : Pairer(d) \in DOMAIN wait' => d \in DOMAIN pairing' /\ pairing'[d].at = "wait"
          <5> SUFFICES ASSUME NEW d \in Chans, Pairer(d) \in DOMAIN wait'
                       PROVE  d \in DOMAIN pairing' /\ pairing'[d].at = "wait"
            OBVIOUS
          <5>1. CASE d = c
            BY <2>1, <3>1, <3>2, <5>1
          <5>2. CASE d # c
            BY <1>1, <3>2, <3>3, <5>2, WaitersDiffer
          <5> QED BY <5>1, <5>2
        <4>2. Signer \in DOMAIN wait' => sign'.at = "pin"
          BY <1>1, <2>1, <3>3, WaitersDiffer
        <4> QED BY <3>3, <4>1, <4>2 DEF WaitOK, Pairer, Signer
      <3> QED BY <1>S, <2>1, <3>4, <3>5, <3>6 DEF RelayInv
    <2>5. CASE (pairing' = [pairing EXCEPT ![c].at = "finish"] \/ pairing' = Drop(pairing, c)) /\ UNCHANGED wait
      <3>1. /\ DOMAIN pairing' \subseteq DOMAIN pairing /\ DOMAIN pairing \ {c} \subseteq DOMAIN pairing'
            /\ \A d \in DOMAIN pairing \ {c} : pairing'[d] = pairing[d]
            /\ c \in DOMAIN pairing' => pairing'[c] = [pairing[c] EXCEPT !.at = "finish"]
        <4>1. CASE pairing' = [pairing EXCEPT ![c].at = "finish"]
          BY <2>1, <4>1
        <4>2. CASE pairing' = Drop(pairing, c)
          <5>1. DOMAIN pairing' = DOMAIN pairing \ {c} /\ \A d \in DOMAIN pairing \ {c} : pairing'[d] = pairing[d]
            BY <4>2 DEF Drop
          <5> QED BY <5>1
        <4> QED BY <2>5, <4>1, <4>2
      <3>2. [pairing[c] EXCEPT !.at = "finish"] \in Pairings
        BY <2>2 DEF Pairings
      <3>3. PairingOK'
        BY <1>2, <2>1, <3>1, <3>2 DEF PairingOK, ChannelIsSaved, Stages, Listener, Pairings
      <3>4. WaitOK'
        BY <1>1, <1>K, <1>W, <2>1, <2>3, <2>5, <3>1
      <3> QED BY <1>M, <1>S, <2>1, <2>5, <3>3, <3>4 DEF RelayInv
    <2> QED BY <1>7, <2>4, <2>5 DEF PairingStep
  <1>8. ASSUME NEW c \in Chans, finishPairing(c) PROVE RelayInv'
    <2>1. /\ c \in DOMAIN pairing /\ pairing[c].at = "finish" /\ pairing' = Drop(pairing, c)
          /\ \/ file' = c /\ channel' = c /\ listening' = listening \cup {Listener(c)}
             \/ file' \in {file, c} /\ UNCHANGED <<channel, listening>>
          /\ UNCHANGED <<server, buffer, wait, fresh, sign, due>>
      BY <1>8 DEF finishPairing
    <2>2. DOMAIN pairing' = DOMAIN pairing \ {c} /\ \A d \in DOMAIN pairing \ {c} : pairing'[d] = pairing[d]
      BY <2>1 DEF Drop
    <2>3. c # Nil
      BY RelayAssumption
    <2>4. PairingOK'
      <3>1. /\ channel' \in Chans \cup {Nil} /\ file' \in Chans \cup {Nil} /\ (channel' # Nil => file' # Nil)
        BY <1>2, <2>1, <2>3
      <3>2. listening' \subseteq {Listener(d) : d \in Chans}
        BY <1>2, <2>1
      <3> QED BY <1>2, <2>1, <2>2, <3>1, <3>2 DEF PairingOK, ChannelIsSaved, Stages, Listener, Pairings
    <2>5. WaitOK'
      BY <1>1, <1>K, <1>W, <2>1, <2>2
    <2> QED BY <1>M, <1>S, <2>1, <2>4, <2>5 DEF RelayInv
  <1>9. ASSUME NEW g \in DOMAIN wait, Look(g) PROVE RelayInv'
    <2>1. wait[g].at = "look" /\ UNCHANGED <<channel, file, server, listening, fresh>>
      BY <1>9 DEF Look, At
    <2>2. CASE LooksFor(g) # 0
      <3> DEFINE c == wait[g].chan
                 q == RemoveAt(buffer[c], LooksFor(g))
      <3>1. buffer' = [buffer EXCEPT ![c] = q] /\ Deliver(g)
        BY <1>9, <2>2 DEF Look
      <3>2. buffer[c] \in Seq(Names)
        BY <1>0, <1>1 DEF MessagesOK
      <3>3. q \in Seq(Names) /\ Len(q) = Len(buffer[c]) - 1
        BY <1>0, <2>2, <3>2, LooksForOK, RemoveAtOK
      <3> HIDE DEF q
      <3>4. MessagesOK' /\ WaitTypeOK' /\ DOMAIN wait' = DOMAIN wait \ {g}
        BY <1>0, <2>1, <3>1, <3>3, DeliverOK
      <3> QED BY <1>0, <2>1, <3>1, <3>4, WaitEnds DEF Deliver, RelayInv
    <2>3. CASE LooksFor(g) = 0
      <3>1. Continue(g, "pull") /\ UNCHANGED <<buffer, due, pairing, sign>>
        BY <1>9, <2>3 DEF Look
      <3>2. WaitTypeOK' /\ DOMAIN wait' = DOMAIN wait /\ \A d \in Chans : Keepers(d)' = Keepers(d)
        BY <1>0, <2>1, <3>1, ContinueOK
      <3>3. MessagesOK'
        BY <1>0, <2>1, <3>1, <3>2, MessagesSame
      <3> QED BY <1>1, <1>P, <1>S, <2>1, <3>1, <3>2, <3>3 DEF RelayInv, WaitOK, Pairer, Signer
    <2> QED BY <2>2, <2>3
  <1>10. ASSUME NEW g \in DOMAIN wait, Pull(g) PROVE RelayInv'
    <2> PICK c \in Chans : c = wait[g].chan
      BY <1>1
    <2> DEFINE q == Tail(server[c])
               m == Head(server[c])
    <2>1. /\ wait[g].at = "pull" /\ server[c] # <<>> /\ server' = [server EXCEPT ![c] = q]
          /\ UNCHANGED <<channel, file, buffer, listening, fresh>>
      BY <1>10 DEF Pull, At
    <2>2. server[c] \in Seq(Names)
      BY <1>0 DEF MessagesOK
    <2>3. q \in Seq(Names) /\ Len(q) = Len(server[c]) - 1 /\ m \in Names
      BY <2>1, <2>2, HeadTailProperties
    <2>4. CASE m = wait[g].name
      <3>1. Deliver(g)
        BY <1>10, <2>4 DEF Pull
      <3> HIDE DEF q
      <3>2. MessagesOK' /\ WaitTypeOK' /\ DOMAIN wait' = DOMAIN wait \ {g}
        BY <1>0, <2>1, <2>3, <3>1, DeliverOK
      <3> QED BY <1>0, <2>1, <3>1, <3>2, WaitEnds DEF Deliver, RelayInv
    <2>5. CASE m # wait[g].name
      <3> DEFINE w == [at |-> "keep", chan |-> c, name |-> wait[g].name, msg |-> m]
      <3>1. wait' = [wait EXCEPT ![g] = w] /\ UNCHANGED <<due, pairing, sign>>
        BY <1>10, <2>5 DEF Pull
      <3> HIDE DEF q, m
      <3>2. w \in [at : {"keep"}, chan : {c}, name : Names, msg : Names]
        BY <1>1, <2>3
      <3> HIDE DEF w
      <3>3. MessagesOK' /\ WaitTypeOK'
        BY <1>0, <2>1, <2>3, <3>1, <3>2, KeepsOK
      <3>4. DOMAIN wait' = DOMAIN wait
        BY <3>1
      <3> QED BY <1>0, <2>1, <3>1, <3>3, <3>4, WaitSame DEF RelayInv
    <2> QED BY <2>4, <2>5
  <1>11. ASSUME NEW g \in DOMAIN wait, Keep(g) PROVE RelayInv'
    <2> PICK c \in Chans : c = wait[g].chan
      BY <1>1
    <2> DEFINE w == [at |-> "look", chan |-> c, name |-> wait[g].name]
    <2>1. /\ wait[g].at = "keep" /\ buffer' = [buffer EXCEPT ![c] = Append(buffer[c], wait[g].msg)]
          /\ wait' = [wait EXCEPT ![g] = w]
          /\ UNCHANGED <<channel, file, server, pairing, listening, fresh, sign, due>>
      <3>1. wait[g].at = "keep" /\ UNCHANGED <<channel, file, server, pairing, listening, fresh, sign, due>>
        BY <1>11 DEF Keep, At
      <3>2. buffer' = [buffer EXCEPT ![wait[g].chan] = Append(buffer[wait[g].chan], wait[g].msg)]
        BY <1>11, Zenon DEF Keep, Kept
      <3>3. wait' = [wait EXCEPT ![g] = [at |-> "look", chan |-> wait[g].chan, name |-> wait[g].name]]
        BY <1>11, Zenon DEF Keep
      <3> QED BY <3>1, <3>2, <3>3
    <2>2. w \in [at : {"look"}, chan : {c}, name : Names]
      BY <1>1
    <2> HIDE DEF w
    <2>3. MessagesOK' /\ WaitTypeOK'
      BY <1>0, <2>1, <2>2, KeptOK
    <2>4. DOMAIN wait' = DOMAIN wait
      BY <2>1
    <2> QED BY <1>0, <2>1, <2>3, <2>4, WaitSame DEF RelayInv
  <1>12. ASSUME NEW g \in DOMAIN wait, PullNothing(g) PROVE RelayInv'
    <2>1. /\ wait[g].at = "pull" /\ Continue(g, "look")
          /\ UNCHANGED <<channel, file, server, buffer, pairing, listening, fresh, sign, due>>
      BY <1>12 DEF PullNothing, At
    <2>2. WaitTypeOK' /\ DOMAIN wait' = DOMAIN wait /\ \A d \in Chans : Keepers(d)' = Keepers(d)
      BY <1>0, <2>1, ContinueOK
    <2>3. MessagesOK'
      BY <1>0, <2>1, <2>2, MessagesSame
    <2> QED BY <1>0, <2>1, <2>2, <2>3, WaitSame DEF RelayInv
  <1>13. ASSUME NEW g \in DOMAIN wait, GiveUp(g) PROVE RelayInv'
    <2>1. /\ wait[g].at = "pull" /\ wait' = Drop(wait, g) /\ GotNothing(g)
          /\ UNCHANGED <<channel, file, server, buffer, listening, fresh, due>>
      BY <1>13 DEF GiveUp, At
    <2>2. WaitTypeOK' /\ DOMAIN wait' = DOMAIN wait \ {g} /\ \A d \in Chans : Keepers(d)' = Keepers(d)
      BY <1>0, <2>1, EndWaitOK
    <2>3. MessagesOK'
      BY <1>0, <2>1, <2>2, MessagesSame
    <2> QED BY <1>0, <2>1, <2>2, <2>3, WaitEnds DEF RelayInv
  <1>14. ASSUME NEW g \in listening, PingMobile(g) PROVE RelayInv'
    <2>1. g \notin DOMAIN wait /\ UNCHANGED <<channel, file, buffer, pairing, fresh, sign>>
      BY <1>14 DEF PingMobile, IsWaiting
    <2>2. PICK c \in Chans : g = Listener(c)
      BY <1>2
    <2>3. g \in Waiters
      BY <2>2 DEF Waiters
    <2>4. CASE Listens
      <3>1. WaitFor(g, channel, "action") /\ UNCHANGED listening
            /\ (PushFromMobile(channel, "action") \/ UNCHANGED <<server, due>>)
        BY <1>14, <2>4 DEF PingMobile
      <3>2. PICK k \in Chans : k = channel
        BY <1>2, <2>4 DEF Listens
      <3>3. /\ WaitTypeOK' /\ DOMAIN wait' = DOMAIN wait \cup {g}
            /\ \A d \in Chans : Keepers(d)' = Keepers(d)
        BY <1>0, <1>N, <2>1, <2>3, <3>1, <3>2, WaitForOK
      <3>4. MessagesOK'
        <4>1. CASE PushFromMobile(channel, "action")
          BY <1>0, <1>N, <2>1, <3>2, <3>3, <4>1, PushOK
        <4>2. CASE UNCHANGED <<server, due>>
          BY <1>0, <2>1, <3>3, <4>2, MessagesSame
        <4> QED BY <3>1, <4>1, <4>2
      <3>5. WaitOK'
        <4>1. \A d \in Chans : Pairer(d) \in DOMAIN wait' => d \in DOMAIN pairing' /\ pairing'[d].at = "wait"
          BY <1>1, <2>1, <2>2, <3>3, WaitersDiffer
        <4>2. Signer \in DOMAIN wait' => sign'.at = "pin"
          BY <1>1, <2>1, <2>2, <3>3, WaitersDiffer
        <4> QED BY <3>3, <4>1, <4>2 DEF WaitOK, Pairer, Signer
      <3> QED BY <1>P, <1>S, <2>1, <3>1, <3>4, <3>5 DEF RelayInv
    <2>5. CASE ~Listens
      <3>1. listening' = listening \ {g} /\ UNCHANGED <<wait, server, due>>
        BY <1>14, <2>5 DEF PingMobile
      <3>2. PairingOK'
        BY <1>2, <2>1, <3>1 DEF PairingOK, ChannelIsSaved, Stages, Listener, Pairings
      <3>3. WaitOK'
        BY <1>1, <1>K, <1>W, <2>1, <3>1
      <3> QED BY <1>M, <1>S, <2>1, <3>1, <3>2, <3>3 DEF RelayInv
    <2> QED BY <2>4, <2>5
  <1>15. CASE Sign
    <2>1. sign = NotSigning /\ UNCHANGED <<channel, file, server, buffer, wait, pairing, listening, fresh, due>>
      BY <1>15 DEF Sign
    <2>2. PICK paired \in BOOLEAN : sign' = [at |-> "echo", paired |-> paired, i |-> 0, sigs |-> <<>>, echo |-> Nil]
      BY <1>15 DEF Sign
    <2>3. sign'.sigs = FirstInputs(sign'.i)
      BY <2>2 DEF FirstInputs
    <2>4. sign' \in [at : {"echo", "pin", "got"}, paired : BOOLEAN, i : 0..Inputs, sigs : {sign'.sigs}, echo : Chans \cup {Nil}]
      BY <2>2, RelayAssumption
    <2>5. SignOK'
      BY <2>3, <2>4 DEF SignOK, FirstInputs
    <2>6. Signer \notin DOMAIN wait
      BY <1>1, <2>1 DEF NotSigning
    <2>7. WaitOK'
      BY <1>1, <1>K, <1>W, <2>1, <2>6
    <2> QED BY <1>M, <1>P, <2>1, <2>5, <2>7 DEF RelayInv
  <1>16. CASE SignEcho
    <2>1. sign.at = "echo" /\ UNCHANGED <<channel, file, server, buffer, pairing, listening, fresh, due>>
      BY <1>16 DEF SignEcho
    <2>2. Signs(sign) /\ Signer \notin DOMAIN wait
      BY <1>1, <1>3, <2>1 DEF NotSigning
    <2>3. CASE UNCHANGED wait
      <3>1. sign' = NotSigning \/ sign' = [sign EXCEPT !.at = "got"]
        <4>1. ~(WaitFor(Signer, channel, "pin"))
          BY <2>2, <2>3 DEF WaitFor, Put
        <4> QED BY <1>16, <4>1 DEF SignEcho
      <3>2. SignOK'
        <4>1. CASE sign' = NotSigning
          BY <4>1 DEF SignOK, NotSigning
        <4>2. CASE sign' = [sign EXCEPT !.at = "got"]
          <5>1. Signs(sign')
            BY <2>2, <4>2 DEF Signs
          <5> QED BY <5>1 DEF SignOK, Signs, FirstInputs
        <4> QED BY <3>1, <4>1, <4>2
      <3>3. WaitOK'
        BY <1>1, <1>K, <1>W, <2>1, <2>2, <2>3
      <3> QED BY <1>M, <1>P, <2>1, <2>3, <3>2, <3>3 DEF RelayInv
    <2>4. CASE /\ channel # Nil /\ sign' = [sign EXCEPT !.at = "pin", !.echo = channel] /\ WaitFor(Signer, channel, "pin")
      <3>1. PICK k \in Chans : k = channel
        BY <1>2, <2>4
      <3>2. Signer \in Waiters
        BY DEF Waiters
      <3>3. /\ WaitTypeOK' /\ DOMAIN wait' = DOMAIN wait \cup {Signer}
            /\ \A d \in Chans : Keepers(d)' = Keepers(d)
        BY <1>0, <1>N, <2>2, <2>4, <3>1, <3>2, WaitForOK
      <3>4. MessagesOK'
        BY <1>0, <2>1, <3>3, MessagesSame
      <3>5. Signs(sign') /\ sign'.at = "pin"
        BY <2>2, <2>4, <3>1 DEF Signs
      <3>6. SignOK'
        BY <3>5 DEF SignOK, Signs, FirstInputs
      <3>7. WaitOK'
        <4>1. \A d \in Chans : Pairer(d) \in DOMAIN wait' => d \in DOMAIN pairing' /\ pairing'[d].at = "wait"
          BY <1>1, <2>1, <3>3, WaitersDiffer
        <4> QED BY <3>3, <3>5, <4>1 DEF WaitOK, Pairer, Signer
      <3> QED BY <1>P, <2>1, <3>4, <3>6, <3>7 DEF RelayInv
    <2> QED BY <1>16, <2>3, <2>4 DEF SignEcho
  <1>17. CASE SignBatch
    <2> DEFINE sigs == sign.sigs \o Batch(sign.i)
               i == sign.i + BatchSize
    <2>1. /\ sign.at = "got" /\ UNCHANGED <<channel, file, server, buffer, wait, pairing, listening, fresh, due>>
          /\ \/ sign' = IF i < Inputs THEN [sign EXCEPT !.at = "echo", !.sigs = sigs, !.i = i, !.echo = Nil]
                                      ELSE [at |-> "done", sigs |-> sigs]
             \/ sign' = NotSigning
      BY <1>17 DEF SignBatch
    <2>2. Signs(sign) /\ Signer \notin DOMAIN wait
      BY <1>1, <1>3, <2>1 DEF NotSigning
    <2>3. sign.i \in 0..Inputs /\ sign.sigs = FirstInputs(sign.i)
      BY <2>2 DEF Signs
    <2>4. sigs = FirstInputs(Upper(sign.i)) /\ Upper(sign.i) \in 0..Inputs /\ Upper(sign.i) = IF i < Inputs THEN i ELSE Inputs
      BY <2>3, BatchOK
    <2> HIDE DEF sigs, i
    <2>5. SignOK'
      <3>1. CASE sign' = NotSigning
        BY <3>1 DEF SignOK, NotSigning
      <3>2. CASE i < Inputs /\ sign' = [sign EXCEPT !.at = "echo", !.sigs = sigs, !.i = i, !.echo = Nil]
        <4>1. i \in 0..Inputs /\ sigs = FirstInputs(i)
          BY <2>4, <3>2
        <4>2. sign' \in [at : {"echo", "pin", "got"}, paired : BOOLEAN, i : 0..Inputs, sigs : {sign'.sigs}, echo : Chans \cup {Nil}]
              /\ sign'.sigs = sigs /\ sign'.i = i
          BY <2>2, <3>2, <4>1 DEF Signs
        <4> QED BY <4>1, <4>2 DEF SignOK, FirstInputs
      <3>3. CASE ~(i < Inputs) /\ sign' = [at |-> "done", sigs |-> sigs]
        BY <2>4, <3>3 DEF SignOK, FirstInputs
      <3> QED BY <2>1, <3>1, <3>2, <3>3
    <2>6. WaitOK'
      BY <1>1, <1>K, <1>W, <2>1, <2>2
    <2> QED BY <1>M, <1>P, <2>1, <2>5, <2>6 DEF RelayInv
  <1>18. CASE ReturnSignatures
    <2>1. sign.at = "done" /\ sign' = NotSigning /\ UNCHANGED <<channel, file, server, buffer, wait, pairing, listening, fresh, due>>
      BY <1>18 DEF ReturnSignatures
    <2>2. Signer \notin DOMAIN wait
      BY <1>1, <2>1
    <2>3. WaitOK'
      BY <1>1, <1>K, <1>W, <2>1, <2>2
    <2>4. SignOK'
      BY <2>1 DEF SignOK, NotSigning
    <2> QED BY <1>M, <1>P, <2>1, <2>3, <2>4 DEF RelayInv
  <1>19. CASE CloseBitBox \/ UNCHANGED relayVars
    <2>1. UNCHANGED <<channel, file, server, buffer, wait, pairing, listening, fresh, sign, due>>
      BY <1>19 DEF CloseBitBox, relayVars
    <2>2. WaitTypeOK' /\ DOMAIN wait' = DOMAIN wait
      BY <1>K, <2>1
    <2> QED BY <1>0, <1>M, <2>1, <2>2, WaitSame DEF RelayInv
  <1> QED BY <1>4, <1>5, <1>6, <1>7, <1>8, <1>9, <1>10, <1>11, <1>12, <1>13, <1>14, <1>15, <1>16, <1>17, <1>18, <1>19
          DEF RelayNext, WaitForValue, Signing

\* The channel, the goroutines that share it and the signatures are as RelayInv says, in every state.
THEOREM RelayInvariance == RelaySpec => []RelayInv
  <1> QED BY RelayInitInv, RelayStepInv, PTL DEF RelaySpec

\* No message of the mobile is lost, a channel that is in use was saved, and every input is signed: for
\* any number of channels, inputs and goroutines.
THEOREM RelaySoundHolds == RelaySpec => []RelaySound
  <1>1. RelayInv => RelaySound
    <2> SUFFICES ASSUME RelayInv PROVE RelaySound
      OBVIOUS
    <2>1. NoMessageLost /\ ChannelIsSaved
      BY DEF RelayInv, MessagesOK, PairingOK
    <2>2. AllInputsSigned
      BY DEF RelayInv, SignOK, AllInputsSigned, NotSigning
    <2> QED BY <2>1, <2>2 DEF RelaySound
  <1> QED BY <1>1, RelayInvariance, PTL
=============================================================================
