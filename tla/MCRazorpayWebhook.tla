------------------------- MODULE MCRazorpayWebhook --------------------------
(***************************************************************************)
(* Instances of RazorpayWebhook for TLC.                                   *)
(***************************************************************************)
EXTENDS RazorpayWebhook, TLC

\* Orders are interchangeable; used by the runs without temporal properties.
OrderSymmetry == Permutations(Orders)
=============================================================================
