------------------------------ MODULE Procedures ------------------------------
(***************************************************************************)
(* A call of any one of the functions that work by themselves.  A step of  *)
(* one of them leaves alone what the others have.                          *)
(***************************************************************************)
EXTENDS EndpointWait, PodRestart, CopyFile, StorageSizing, NameChecks,
        DocumentChecks, Startup

allVars == <<callVars, waitVars, podVars, copyVars, sizeVars, nameVars, doc, startVars>>

Init ==
    /\ CallInit /\ WaitInit /\ PodInit /\ CopyInit /\ SizeInit /\ NameInit
    /\ DocInit /\ StartInit

Next ==
    \/ WaitNext  /\ UNCHANGED <<podVars, copyVars, sizeVars, nameVars, doc, startVars>>
    \/ PodNext   /\ UNCHANGED <<waitVars, copyVars, sizeVars, nameVars, doc, startVars>>
    \/ CopyNext  /\ UNCHANGED <<waitVars, podVars, sizeVars, nameVars, doc, startVars>>
    \/ SizeNext  /\ UNCHANGED <<waitVars, podVars, copyVars, nameVars, doc, startVars>>
    \/ Put       /\ UNCHANGED <<waitVars, podVars, copyVars, sizeVars, doc, startVars>>
    \/ Validate  /\ UNCHANGED <<waitVars, podVars, copyVars, sizeVars, nameVars, startVars>>
    \/ StartNext /\ UNCHANGED <<waitVars, podVars, copyVars, sizeVars, nameVars, doc>>

(***************************************************************************)
(* The function runs on, and its goroutine with it.  Nothing is assumed of *)
(* the endpoint and the pods, and nothing of a stream but that it does not *)
(* hang.                                                                   *)
(***************************************************************************)
Runs == WaitSteps \/ Restart \/ CopySteps \/ SizeNext \/ Put \/ Validate \/ StartSteps

Spec == Init /\ [][Next]_allVars /\ WF_allVars(Runs /\ Next)

-----------------------------------------------------------------------------
(***************************************************************************)
(* Every function returns, or serves: the retries come to an end however   *)
(* the endpoint behaves, the loop over the pods whatever fails and however *)
(* pods come and go, and writing, reading and unpacking an archive do not  *)
(* wait for each other for ever.                                           *)
(***************************************************************************)
EveryFunctionReturns == <>(pc \in {"returned", "serving"})
=============================================================================
