-------------------------------- MODULE Startup --------------------------------
(***************************************************************************)
(* The start of the server: main (cmd/cirith/main.go) registers the flags  *)
(* of the logging library and parses the command line; GetConfig           *)
(* (handlers/config.go) then registers the server's own flags and parses   *)
(* it again.  A flag that is not registered ends the program (external:    *)
(* package flag), and what follows the first plain argument is not looked  *)
(* at.  The namespace, the addresses of NAT gateways and the OCI file do   *)
(* not change where the start ends up, or have no effect at all, and are   *)
(* left out.                                                               *)
(***************************************************************************)
EXTENDS Procedure, Sequences, Naturals

CONSTANT MaxArgs    (* the longest command line considered                 *)

ASSUME StartupAssumption == MaxArgs \in Nat

ZapFlags     == {"zap-log-level"}
HandlerFlags == {"kubeconfig", "vminame", "namespace"}
Arguments    == ZapFlags \cup HandlerFlags \cup {"v", "plain"}

VARIABLES
    args,       (* the command line                                        *)
    env,        (* is VMI_NAME in the environment?                         *)
    cluster,    (* does the process run in a pod?                          *)
    set         (* the flags that have been given their values             *)

startVars == <<args, env, cluster, set>>
Starting  == "main"

StartInit ==
    /\ args \in Input(Starting, UNION {[1..n -> Arguments] : n \in 0..MaxArgs})
    /\ env \in Input(Starting, BOOLEAN)
    /\ cluster \in Input(Starting, BOOLEAN)
    /\ set = {}

(* The flags of the command line.                                          *)
Given == {args[i] : i \in {j \in DOMAIN args : \A k \in 1..j : args[k] # "plain"}}

-----------------------------------------------------------------------------
Parse(registered, next) ==
    IF Given \subseteq registered
    THEN GoTo(next) /\ set' = set \cup Given
    ELSE Return("usage") /\ UNCHANGED set

main ==
    /\ At(Starting, "called")
    /\ Parse(ZapFlags, "flags")
    /\ UNCHANGED <<args, env, cluster>>

GetConfig ==
    /\ At(Starting, "flags")
    /\ Parse(ZapFlags \cup HandlerFlags, "kube")
    /\ UNCHANGED <<args, env, cluster>>

(* As in the code; but main has parsed the command line before, so that no *)
(* server that gets here was given a kubeconfig, or below the name of a    *)
(* VMI, by a flag.                                                         *)
BuildConfig ==
    /\ At(Starting, "kube")
    /\ IF cluster \/ "kubeconfig" \in set THEN GoTo("name") ELSE Return("fatal")
    /\ UNCHANGED startVars

(* The clients are made even when that fails, which is only logged.        *)
FindName ==
    /\ At(Starting, "name")
    /\ IF "vminame" \in set \/ env THEN GoTo("serving") ELSE Return("fatal")
    /\ UNCHANGED startVars

(* The listener fails: main returns.                                       *)
ListenEnds ==
    /\ At(Starting, "serving")
    /\ Return("quit")
    /\ UNCHANGED startVars

StartSteps == main \/ GetConfig \/ BuildConfig \/ FindName
StartNext  == StartSteps \/ ListenEnds
=============================================================================
