------------------------- MODULE MCRazorpayCheckout -------------------------
(***************************************************************************)
(* Instances of RazorpayCheckout for TLC.                                  *)
(***************************************************************************)
EXTENDS RazorpayCheckout, TLC

Symmetry == Permutations(Orders)
=============================================================================
