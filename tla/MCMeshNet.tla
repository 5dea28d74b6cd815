----------------------------- MODULE MCMeshNet -----------------------------
(***************************************************************************)
(* One node whose operator sends commands and two others; the first        *)
(* publishes to the second and the second to the third.  The second may be *)
(* enabled twice.                                                          *)
(***************************************************************************)
EXTENDS MeshNet, TLC

CONSTANTS n1, n2, n3

MCSubscribers == (n1 :> {n2}) @@ (n2 :> {n3}) @@ (n3 :> {})
MCMaxEnables == (n1 :> 1) @@ (n2 :> 2) @@ (n3 :> 1)
=============================================================================
