-------------------------- MODULE MCSensorRegistry --------------------------
(* A small instrument for TLC: two sensors of its own, the vario filter in *)
(* the middle of the order and the battery voltage at its end, and the     *)
(* devices that bring a sensor.                                            *)
EXTENDS SensorRegistry

Prios == [ty \in Type |-> CASE ty = "magneto" -> 8 [] ty = "vario" -> 10
                            [] ty = "position" -> 11 [] OTHER -> 15]
OneEach == [d \in Device |-> CASE d = "flarm" -> "position" [] d = "temp" -> "temperature"
                              [] d = "flap" -> "flap_position"]
\* The legacy and the current magnetic sensor.
BothMagnetic == [d \in Device |-> "magneto"]
=============================================================================
