------------------------------ MODULE MCDevices ------------------------------
(***************************************************************************)
(* The parts of the devices package, one at a time: they share no state,   *)
(* so that nothing is gained by interleaving them.                         *)
(***************************************************************************)
EXTENDS BitBox, UsbDevices, FirmwareUpgrade, Relay

VARIABLE part           \* which of them runs; the others keep their initial state

MCInit ==
    /\ part \in {"bitbox", "usb", "upgrade", "relay"}
    /\ BitBoxInit /\ UsbInit /\ UpgradeInit /\ RelayInit
    /\ part # "bitbox" => fw.version = "newer" /\ fw.bootlock
    /\ part # "upgrade" => version = Latest /\ installed = Latest

MCNext ==
    /\ UNCHANGED part
    /\ \/ part = "bitbox" /\ BitBoxNext /\ UNCHANGED <<usbVars, upgradeVars, relayVars>>
       \/ part = "usb" /\ UsbNext /\ UNCHANGED <<bitboxVars, upgradeVars, relayVars>>
       \/ part = "upgrade" /\ UpgradeNext /\ UNCHANGED <<bitboxVars, usbVars, relayVars>>
       \/ part = "relay" /\ RelayNext /\ UNCHANGED <<bitboxVars, usbVars, upgradeVars>>

MCFairness ==
    \/ part = "bitbox"
    \/ part = "usb" /\ UsbFairness
    \/ part = "upgrade" /\ UpgradeFairness
    \/ part = "relay" /\ RelayFairness

MCSpec == MCInit /\ [][MCNext]_<<part, bitboxVars, usbVars, upgradeVars, relayVars>> /\ MCFairness
=============================================================================
