-------------------------- MODULE ConfigMapClients --------------------------
(***************************************************************************)
(* updateConfigMapByName under the most general client: any number of      *)
(* requests, each of which at some point hands it a name and an arbitrary  *)
(* new content.  Every handler of the server is a special case, so what    *)
(* holds here holds for each of them.  The calls are shown to implement    *)
(* VerifiedWrite.                                                          *)
(***************************************************************************)
EXTENDS ConfigMaps

CONSTANT InitialContents    (* the contents the maps may start with        *)

ASSUME InitialAssumption == InitialContents \subseteq [Names -> MapData]

Init == \E contents \in InitialContents : StoreInit(contents)

(* A handler enters the function.                                          *)
Enter(r) ==
    /\ call[r].phase = "idle"
    /\ \E n \in Names, m \in MapData : BeginUpdate(r, n, m)
    /\ UNCHANGED cm

Next == \E r \in Requests : Enter(r) \/ UpdateStep(r) \/ UpdateFault(r)

Spec == Init /\ [][Next]_storeVars

(* A call that has begun runs on, and the API server answers.              *)
FairSpec == Spec /\ \A r \in Requests : WF_storeVars(UpdateStep(r))

(* A phase of the code as the phase of the blind write it stands for.      *)
Abstract(phase) ==
    CASE phase = "idle"                -> "idle"
      [] phase \in {"get", "put"}      -> "asked"
      [] phase \in {"poll", "missed"}  -> "written"
      [] phase = "ok"                  -> "ok"
      [] phase \in Failed              -> "err"

Op(c) == [st |-> Abstract(c.phase), name |-> c.name, content |-> c.updated]

op == [r \in Requests |-> Op(call[r])]

VW == INSTANCE VerifiedWrite WITH
          Contents <- MapData, Initial <- InitialContents, data <- Contents

(***************************************************************************)
(* Every step of the function is a step of VerifiedWrite or invisible to   *)
(* it: the content of a map changes at most once per call, to exactly what *)
(* the caller asked for, and success is answered only while it is there.   *)
(***************************************************************************)
IsVerifiedWrite == VW!Spec

(***************************************************************************)
(* Every call returns: none polls for ever for a content that another call *)
(* has overwritten.                                                        *)
(***************************************************************************)
EveryCallReturns ==
    \A r \in Requests : (call[r].phase \in Active) ~> (call[r].phase \in Failed \cup {"ok"})

=============================================================================
