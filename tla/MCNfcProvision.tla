--------------------------- MODULE MCNfcProvision ---------------------------
(***************************************************************************)
(* One card with an identifier of four bytes and two different blocks.     *)
(***************************************************************************)
EXTENDS NfcProvision

MCUid == <<1, 2, 3, 4>>
MCBlock == [b \in {1, 2} |-> [i \in 1..16 |-> 64 + b]]
=============================================================================
