------------------------------- MODULE MCBilling -------------------------------
(* One paid plan beside the free one.                                      *)
EXTENDS Billing

MCPaid == {"pro"}
===============================================================================
