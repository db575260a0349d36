--------------------------- MODULE MCTransmitter ----------------------------
(* Small instances of the transmitter for TLC.                             *)
EXTENDS Transmitter, TLC

\* A serial line and a BT LE link: the two that send in pieces.
PiecesKind == "S2" :> "serial" @@ "BLE" :> "ble"

\* A bus that stalls, and WiFi, which answers with errors and never asks for
\* a retry.
FailingKind == "CAN" :> "can" @@ "WIFI" :> "wifi"

SppKind == "SPP" :> "spp"
BleKind == "BLE" :> "ble"

Symmetry == Permutations(Message) \cup Permutations(Sender)
=============================================================================
