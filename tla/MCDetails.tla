------------------------------ MODULE MCDetails ------------------------------
(* The node details alone, for a bounded number of acts. *)
EXTENDS Details
=============================================================================
