--------------------------- MODULE MCCrmDelivery ---------------------------
(* Small instances of CrmDelivery for TLC: all its constants are sets of    *)
(* model values or numbers, which the configurations give.                  *)
EXTENDS CrmDelivery
=============================================================================
