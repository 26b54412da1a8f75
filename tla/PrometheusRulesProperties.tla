---------------------- MODULE PrometheusRulesProperties ----------------------
(* Properties of the rules endpoints only.                                 *)
EXTENDS PrometheusRules, HandlerProperties

(***************************************************************************)
(* A request changes nothing but its own file and that file's versions,    *)
(* although each of its updates rewrites a whole map.                      *)
(***************************************************************************)
OnlyOwnFileChanges ==
    [][\A f \in Files :
           \/ /\ Current'[f] = Current[f]
              /\ \A t \in Times : Archive'[<<f, t>>] = Archive[<<f, t>>]
           \/ \E r \in InFlight : req[r].op \in {"put", "delete"} /\ req[r].file = f]_vars

-----------------------------------------------------------------------------
(* Said of the endpoints, but not so.                                      *)

(***************************************************************************)
(* "*This action cannot be undone.*" (router.go, DELETE): a file whose     *)
(* deletion has been accepted comes back only through a PUT of that file.  *)
(***************************************************************************)
DeletionIsFinal ==
    [][\A d \in Requests :
           LET f == req[d].file IN
           /\ pc[d] = "done" /\ req[d].op = "delete" /\ reply[d].code = 202
           /\ Current[f] = None
           /\ Current'[f] # None
           => \E r \in InFlight : req[r].op = "put" /\ req[r].file = f]_vars
=============================================================================
