------------------------------- MODULE Texts --------------------------------
(***************************************************************************)
(* The empty text: a setting that is given without a value, a link without *)
(* a label, an issue key that is not there.                                *)
(***************************************************************************)
Empty == ""
=============================================================================
