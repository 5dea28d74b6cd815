--------------------------- MODULE MCBleProvision ---------------------------
(***************************************************************************)
(* Small instances of BleProvision: one or two writes, the second shorter, *)
(* so that it leaves the end of the first name in the buffer.              *)
(***************************************************************************)
EXTENDS BleProvision

MCOneWrite == <<[name |-> 2, word |-> 1]>>
MCTwoWrites == <<[name |-> 2, word |-> 1], [name |-> 1, word |-> 1]>>

MCNames == UNION {[1..n -> 1..Len(Writes)] : n \in 1..BufLen}
MCContains == [s \in MCNames |-> {s}]
MCOneId == {0}
MCNoId == -1

\* The network the phone names is known already, or none is.
MCKnown == {[id |-> 0, ssid |-> <<1, 1>>, key |-> "WPA-PSK", on |-> TRUE]}
MCNoneKnown == {}

=============================================================================
