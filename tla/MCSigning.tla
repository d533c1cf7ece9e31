------------------------------ MODULE MCSigning ------------------------------
(***************************************************************************)
(* Bundles for Signing: of some missions there can be two, one of them     *)
(* broken.                                                                 *)
(***************************************************************************)
EXTENDS Signing

TwoEach == {<<1, 11>>, <<1, 12>>, <<2, 11>>, <<2, 12>>}
ThreeMissions == TwoEach \cup {<<3, 11>>}
OneBroken == {<<2, 12>>}
=============================================================================
