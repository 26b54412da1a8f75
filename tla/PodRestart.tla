------------------------------ MODULE PodRestart ------------------------------
(***************************************************************************)
(* RestartPodsByLabel (helper.go): list the pods with a label and delete   *)
(* them one by one, by name, so that their controller replaces them.  The  *)
(* pods are external: one that is deleted, or that goes on its own, makes  *)
(* room for a new pod, of the same name where the controller keeps names.  *)
(* The loop of deletePods returns after the first deletion that succeeds   *)
(* and goes on after one that fails.                                       *)
(***************************************************************************)
EXTENDS Procedure

CONSTANT PodNames

VARIABLES
    pods,       (* the names for which there is a pod                      *)
    listed,     (* the names the list holds                                *)
    todo,       (* those the loop has not come to                          *)
    gone        (* history: listed names whose pod, as listed, is no more  *)

podVars    == <<pods, listed, todo, gone>>
Restarting == "RestartPodsByLabel"

PodInit ==
    /\ pods \in Input(Restarting, SUBSET PodNames)
    /\ listed = {} /\ todo = {} /\ gone = {}

-----------------------------------------------------------------------------
(* The VMI may tell to skip everything else, or fail to be read.           *)
ReadVMI ==
    /\ At(Restarting, "called")
    /\ GoTo("list") \/ Return("nil") \/ Return("error")
    /\ UNCHANGED podVars

(* No pod to restart is an error.                                          *)
ListPods ==
    /\ At(Restarting, "list")
    /\ \/ pods # {} /\ GoTo("delete") /\ listed' = pods /\ todo' = pods
       \/ Return("error") /\ UNCHANGED <<listed, todo>>
    /\ UNCHANGED <<pods, gone>>

(* A success ends the loop; a failure is forgotten.                        *)
AfterDelete(p, answered) ==
    /\ todo' = todo \ {p}
    /\ IF answered \/ todo' = {} THEN Return("nil") ELSE GoTo("delete")

(* The deletion of the next pod: done and answered, done without answer,   *)
(* or not done, because it failed or there is no such pod any more.        *)
DeletePod(p) ==
    /\ At(Restarting, "delete") /\ p \in todo
    /\ \/ /\ p \in pods /\ pods' = pods \ {p} /\ gone' = gone \cup {p}
          /\ \E answered \in BOOLEAN : AfterDelete(p, answered)
       \/ AfterDelete(p, FALSE) /\ UNCHANGED <<pods, gone>>
    /\ UNCHANGED listed

-----------------------------------------------------------------------------
PodVanishes(p) ==
    /\ Within(Restarting) /\ p \in pods
    /\ pods' = pods \ {p}
    /\ gone' = gone \cup ({p} \cap listed)
    /\ UNCHANGED <<callVars, listed, todo>>

PodIsReplaced(p) ==
    /\ Within(Restarting) /\ p \notin pods
    /\ pods' = pods \cup {p}
    /\ UNCHANGED <<callVars, listed, todo, gone>>

Restart == ReadVMI \/ ListPods \/ \E p \in PodNames : DeletePod(p)
PodNext == Restart \/ \E p \in PodNames : PodVanishes(p) \/ PodIsReplaced(p)

-----------------------------------------------------------------------------
(***************************************************************************)
(* "deleting all pods (sequentially) that have the given label": a restart *)
(* that had pods to delete and reports success leaves none of them.        *)
(***************************************************************************)
RestartDeletesAll == Done(Restarting) /\ result = "nil" => listed = gone
=============================================================================
