---------------------------- MODULE VersionedFiles ----------------------------
(***************************************************************************)
(* What the endpoints promise about their files, free of maps, keys,       *)
(* copies and API calls: each step concerns one file; no content is        *)
(* replaced before it has been saved as a version; a version leaves by age *)
(* and number only; all of them leave together once their file is gone.    *)
(***************************************************************************)
EXTENDS Integers, FiniteSets

CONSTANTS
    Files,
    Bodies,                         (* the contents a file may have        *)
    None,                           (* no file, no version                 *)
    MaxTime, MaxBackupFiles, MaxBackupHours

VARIABLES
    current,    (* the content of each file                                *)
    archive,    (* its versions, by the time they were saved               *)
    now         (* the clock                                               *)

filesVars == <<current, archive, now>>

Times == 0..MaxTime

Init == now \in Times

(* A version may expire when it has reached the age limit and enough newer *)
(* ones remain.                                                            *)
MayExpire(versions, t, u) ==
    /\ u - t >= MaxBackupHours
    /\ Cardinality({v \in Times : v > t /\ versions[v] # None}) >= MaxBackupFiles

(* The current content becomes the version of the time u at which that was *)
(* decided.                                                                *)
Save(f) ==
    /\ current[f] # None
    /\ \E u \in 0..now, expired \in SUBSET Times :
           LET saved == [archive[f] EXCEPT ![u] = current[f]] IN
           /\ \A t \in expired : MayExpire(saved, t, u)
           /\ archive' = [archive EXCEPT ![f] =
                  [t \in Times |-> IF t \in expired THEN None ELSE saved[t]]]
    /\ UNCHANGED <<current, now>>

Replace(f) ==
    /\ current[f] # None => \E t \in Times : archive[f][t] = current[f]
    /\ \E b \in Bodies : current' = [current EXCEPT ![f] = b]
    /\ UNCHANGED <<archive, now>>

Remove(f) ==
    /\ current' = [current EXCEPT ![f] = None]
    /\ UNCHANGED <<archive, now>>

Purge(f) ==
    /\ current[f] = None
    /\ archive' = [archive EXCEPT ![f] = [t \in Times |-> None]]
    /\ UNCHANGED <<current, now>>

Tick ==
    /\ now' = now + 1
    /\ UNCHANGED <<current, archive>>

Next ==
    \/ \E f \in Files : Save(f) \/ Replace(f) \/ Remove(f) \/ Purge(f)
    \/ Tick

Spec == Init /\ [][Next]_filesVars
=============================================================================
