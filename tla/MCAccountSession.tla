------------------------- MODULE MCAccountSession -------------------------
(* Two accounts.                                                           *)
EXTENDS AccountSession

CONSTANTS anna, bert
=============================================================================
