--------------------------- MODULE MCVaraAdmission ---------------------------
(* Small instances of VaraAdmission.  Each transaction runs once, so three *)
(* of them are three concurrent RPCs started in any order.  They are       *)
(* interchangeable (Symmetry), which is used only where no liveness is     *)
(* checked.                                                                *)
EXTENDS VaraAdmission, TLC

Symmetry == Permutations(Tx)
=============================================================================
