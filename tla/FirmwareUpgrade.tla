--------------------------- MODULE FirmwareUpgrade ---------------------------
(***************************************************************************)
(* Upgrading a BitBox02 (backend/devices/bitbox02bootloader): from one     *)
(* bundled firmware to the next, of which all but the last have to be run  *)
(* once before the next one may be flashed.  The bootloader and the        *)
(* firmware are external: the version of the firmware is known to the      *)
(* bootloader even if there is none, or half of one.                       *)
(***************************************************************************)
EXTENDS Integers, FiniteSets, FiniteSetsExt

CONSTANTS
    Bundled,            \* monotonic versions of the bundled firmwares: 36, 38
    Shipped,            \* versions that a device may be delivered with, firmware or not
    MaxInterruptions    \* bound: how often flashing is interrupted

ASSUME UpgradeAssumption ==
    Bundled \subseteq Nat /\ Bundled # {} /\ IsFiniteSet(Bundled) /\ Shipped \subseteq Nat

Broken == -1            \* a part of a firmware
NoFirmware == -2

VARIABLES
    mode,               \* "off", "bootloader" or "firmware"
    version,            \* monotonic firmware version, as the bootloader reports it
    installed,          \* the firmware that is flashed
    ran,                \* the bundled firmwares that were run
    requested,          \* did the user ask for an upgrade, or Init continue one?
    interruptions

upgradeVars == <<mode, version, installed, ran, requested, interruptions>>

Latest == Max(Bundled)
Intermediate == Bundled \ {Latest}

\* An intermediate firmware that was flashed and did not run yet.
firmwareBootRequired(v) == v \in Intermediate
nextFirmware_Latest(v) == Latest
nextFirmware(v) == IF \E b \in Bundled : b > v THEN Min({b \in Bundled : b > v}) ELSE Latest

\* VersionInfo.  Versions differ in their hash, so a firmware of the latest version with
\* another hash is not complete.
canUpgrade(v, f) == f = NoFirmware \/ Latest > v \/ (Latest = v /\ f # Latest)
\* Init continues after an intermediate firmware has run, which adds one to the version.
continues(v) == \E b \in Intermediate : v = b + 1

UpgradeInit ==
    /\ mode = "off" /\ version \in Shipped /\ installed \in {NoFirmware, version}
    /\ ran = {b \in Intermediate : b < version} /\ requested = FALSE /\ interruptions = 0

\* The device enters the bootloader if the user wants so, or if its firmware is incomplete.
EnterBootloader ==
    /\ mode # "bootloader"
    /\ mode' = "bootloader"
    /\ requested' = continues(version)
    /\ UNCHANGED <<version, installed, ran, interruptions>>

RequestUpgrade ==
    /\ mode = "bootloader" /\ ~requested /\ canUpgrade(version, installed)
    /\ requested' = TRUE
    /\ UNCHANGED <<mode, version, installed, ran, interruptions>>

\* Running an intermediate firmware adds one to the version.
Run ==
    /\ mode' = "firmware" /\ ran' = ran \cup {installed}
    /\ version' = IF installed \in Intermediate /\ version = installed THEN version + 1 ELSE version
Reboot ==
    /\ requested' = FALSE
    /\ IF installed \in {Broken, NoFirmware} THEN mode' = "off" /\ UNCHANGED <<version, ran>> ELSE Run

\* UpgradeFirmware: boot the intermediate firmware first, or flash the next one, which
\* ends with its signature and version, and a reboot.
UpgradeFirmware ==
    /\ mode = "bootloader" /\ requested
    /\ \/ /\ firmwareBootRequired(version)
          /\ Reboot /\ UNCHANGED <<installed, interruptions>>
       \/ /\ ~firmwareBootRequired(version)
          /\ installed' = nextFirmware(version)
          /\ mode' = "firmware" /\ requested' = FALSE /\ ran' = ran \cup {installed'}
          /\ version' = IF installed' \in Intermediate THEN installed' + 1 ELSE installed'
          /\ UNCHANGED interruptions

\* The upgrade succeeded, but the device was unplugged before it booted the firmware.
UpgradeFirmwareNoBoot ==
    /\ mode = "bootloader" /\ requested /\ ~firmwareBootRequired(version)
    /\ interruptions < MaxInterruptions /\ interruptions' = interruptions + 1
    /\ installed' = nextFirmware(version) /\ version' = installed'
    /\ mode' = "off" /\ requested' = FALSE /\ UNCHANGED ran

\* The device is unplugged, or a chunk fails.  What was flashed is lost.
Interrupted ==
    /\ mode = "bootloader" /\ requested /\ ~firmwareBootRequired(version)
    /\ interruptions < MaxInterruptions /\ interruptions' = interruptions + 1
    /\ installed' \in {Broken, NoFirmware}
    /\ mode' \in {"off", "bootloader"} /\ requested' = FALSE
    /\ UNCHANGED <<version, ran>>

UpgradeNext ==
    EnterBootloader \/ RequestUpgrade \/ UpgradeFirmware \/ UpgradeFirmwareNoBoot \/ Interrupted

\* The user accepts what the app offers, and plugs the device in again.
UpgradeFairness ==
    WF_upgradeVars(EnterBootloader) /\ WF_upgradeVars(RequestUpgrade) /\ SF_upgradeVars(UpgradeFirmware)
UpgradeSpec == UpgradeInit /\ [][UpgradeNext]_upgradeVars /\ UpgradeFairness
-----------------------------------------------------------------------------
\* "Each one has to be flashed and booted before being able to continue upgrading": a
\* firmware is flashed only after every older intermediate one has run, also if the device
\* was unplugged between flashing and booting it.
NoneSkipped ==
    [][installed' # installed /\ installed' \in Bundled =>
        \A b \in Intermediate : b < installed' => b \in ran]_upgradeVars

\* The inductive invariant behind NoneSkipped.
UpgradeInv == version \in Nat /\ \A b \in Intermediate : b < version => b \in ran

\* Whatever is interrupted, the user is offered upgrades until the latest firmware is there
\* as a whole.
EventuallyLatest == <>[](installed = Latest)

\* The latest firmware is reached, by way of all that come before it.
UpgradesInOrder == NoneSkipped /\ EventuallyLatest
=============================================================================
