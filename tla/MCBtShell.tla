----------------------------- MODULE MCBtShell -----------------------------
(***************************************************************************)
(* The Bluetooth demo with two streaming threads, two connection handles,  *)
(* a table of two visited slots and one more, handles for two services.    *)
(***************************************************************************)
EXTENDS BtShell

\* Numbers at and past the ends of the ranges; an address has 17 characters.
MCWord == {[int |-> n, len |-> 5] : n \in {-1, 0, 16, 101, 65536}} \cup {[int |-> 2, len |-> 17]}
=============================================================================
