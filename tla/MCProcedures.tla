----------------------------- MODULE MCProcedures -----------------------------
(* Small instances of the functions that work by themselves.               *)
EXTENDS Procedures

AllFunctions ==
    {Waiting, Restarting, Copying, Sizing, Naming, CheckingConfig, CheckingRules, Starting}

MCJobNames == {Reserved[i] : i \in 1..3} \cup {"", "node-exporter"}

(***************************************************************************)
(* Sizes of up to six bits under a mantissa of three: some are floats,     *)
(* some lie between two, and some half way.                                *)
(***************************************************************************)
DiskSizes  == 1..40
DiskLimits == {2, 7, 20, 21, 40, 70}
=============================================================================
