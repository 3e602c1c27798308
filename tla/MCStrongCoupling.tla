--------------------------- MODULE MCStrongCoupling ---------------------------
(* Instances of StrongCoupling for TLC.                                    *)
EXTENDS StrongCoupling
===============================================================================
