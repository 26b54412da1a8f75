---------------------- MODULE PrometheusConfigProperties ----------------------
(* Properties of the configuration endpoints only.                         *)
EXTENDS PrometheusConfig, HandlerProperties

(***************************************************************************)
(* "The user-provided content will replace the current Prometheus          *)
(* configuration" (router.go): where no call fails, a PUT whose body has   *)
(* passed validation is answered, and its body has been in force.          *)
(***************************************************************************)
PutTakesEffect ==
    [][\A r \in Requests :
           /\ req[r] # None /\ req[r].op = "put"
           /\ pc[r] \in Running \ {"arrived"} /\ pc'[r] = "done" /\ reply'[r].code # 500
           => reply'[r].code \in {200, 202} /\ req[r].body \in served[req[r].file]]_vars

-----------------------------------------------------------------------------
(* The endpoints with a history: have the requests so far come one by one? *)

VARIABLE alone

aloneVars == <<vars, alone>>

AloneInit == Init /\ alone = TRUE
AloneNext == Next /\ alone' = (alone /\ OneInFlight')
AloneSpec == AloneInit /\ [][AloneNext]_aloneVars

(***************************************************************************)
(* AreVersionedFiles, where there is a configuration to begin with, and as *)
(* long as no two requests are in progress at once.                        *)
(***************************************************************************)
IsVersionedFileAlone ==
    /\ Store!Init
    /\ [][alone' /\ (\A f \in Files : Current[f] # None)
              => [Store!Next]_(Store!filesVars)]_aloneVars

(***************************************************************************)
(* UndoneByNewest, as long as no two requests are in progress at once.     *)
(***************************************************************************)
NewestVersionUndoes ==
    [][alone' => \A r \in Requests : UndoneByNewest(r)]_aloneVars
=============================================================================
