--------------------------- MODULE ConfigMapLemmas ---------------------------
(***************************************************************************)
(* Lemmas about the ConfigMap library, for the proofs of the modules that  *)
(* run it.                                                                 *)
(***************************************************************************)
EXTENDS ConfigMaps, TLAPS

(* The empty content is a content, and the idle call is a call.            *)
LEMMA NoCallType == EmptyMap \in MapData /\ NoCall \in Calls
<1>1. EmptyMap \in MapData
  BY DEF EmptyMap, MapData
<1>2. (CHOOSE n \in Names : TRUE) \in Names
  BY StoreAssumption
<1> QED  BY <1>1, <1>2 DEF NoCall, Calls, Phases

(* Whatever a map is overwritten with, the store stays a store, and the    *)
(* overwritten map's version moves on exactly if its content changes.      *)
LEMMA StoredFacts ==
    ASSUME cm \in [Names -> [data: MapData, rv: Nat]],
           NEW n \in Names, NEW m \in MapData
    PROVE  /\ Stored(n, m) \in [Names -> [data: MapData, rv: Nat]]
           /\ Stored(n, m)[n].data = m
           /\ \A k \in Names : k # n => Stored(n, m)[k] = cm[k]
           /\ m = cm[n].data => Stored(n, m)[n].rv = cm[n].rv
           /\ m # cm[n].data => Stored(n, m)[n].rv = cm[n].rv + 1
  BY DEF Stored

(* What one step inside a call of request r does: nothing to the calls of  *)
(* others, to what its own call is for, or to the store but the one        *)
(* accepted PUT.                                                           *)
LEMMA UpdateFacts ==
    ASSUME StoreTypeOK, NEW r \in Requests, UpdateStep(r) \/ UpdateFault(r)
    PROVE  /\ call[r].phase \in Active
           /\ call' = [call EXCEPT ![r] = call'[r]]
           /\ call'[r] \in Calls
           /\ call'[r].phase # "idle"
           /\ call'[r].name = call[r].name
           /\ call'[r].updated = call[r].updated
           /\ \/ cm' = cm
              \/ /\ call[r].phase = "put"
                 /\ cm' = Stored(call[r].name, call[r].updated)
<1> USE DEF StoreTypeOK, Calls, Phases, Active, Failed
<1>1. CASE UpdateGet(r)
  BY <1>1 DEF UpdateGet
<1>2. CASE UpdatePut(r)
  <2>1. cm' = Stored(call[r].name, call[r].updated)
    BY <1>2 DEF UpdatePut
  <2>2. cm'[call[r].name].rv \in Nat
    BY <2>1, StoredFacts
  <2> QED  BY <1>2, <2>1, <2>2 DEF UpdatePut
<1>3. CASE UpdateConflict(r)
  BY <1>3 DEF UpdateConflict
<1>4. CASE PollHit(r) \/ PollMiss(r) \/ PollTimeout(r)
  BY <1>4 DEF PollHit, PollMiss, PollTimeout
<1>5. CASE UpdateFault(r)
  BY <1>5 DEF UpdateFault, UpdatePutLost, UpdateFails
<1> QED  BY <1>1, <1>2, <1>3, <1>4, <1>5 DEF UpdateStep

(* A call succeeds when a poll sees what it wrote.                         *)
LEMMA SuccessIsSeen ==
    ASSUME StoreTypeOK, NEW r \in Requests, UpdateStep(r) \/ UpdateFault(r),
           call'[r].phase = "ok"
    PROVE  cm' = cm /\ cm[call[r].name].data = call[r].updated
  BY DEF StoreTypeOK, Calls, UpdateStep, UpdateFault, UpdateGet, UpdatePut, UpdateConflict,
         PollHit, PollMiss, PollTimeout, UpdatePutLost, UpdateFails

(* A step of a call leaves the other map alone; a call that waits has not  *)
(* changed its own; one that succeeded sees its content there.             *)
LEMMA CallProgress ==
    ASSUME StoreTypeOK, NEW r \in Requests, UpdateStep(r) \/ UpdateFault(r)
    PROVE  /\ \A n \in Names \ {call[r].name} : cm'[n] = cm[n]
           /\ call'[r].phase \in {"get", "put"} =>
                  cm' = cm /\ call[r].phase \in {"get", "put"}
           /\ call'[r].phase = "ok" =>
                  cm' = cm /\ cm[call[r].name].data = call[r].updated
<1>1. \A n \in Names \ {call[r].name} : cm'[n] = cm[n]
  <2>1. cm' = cm \/ cm' = Stored(call[r].name, call[r].updated)
    BY UpdateFacts
  <2>2. DOMAIN cm = Names
    BY DEF StoreTypeOK
  <2> QED  BY <2>1, <2>2 DEF Stored
<1>2. call'[r].phase \in {"get", "put"} => cm' = cm /\ call[r].phase \in {"get", "put"}
  BY DEF StoreTypeOK, Calls, UpdateStep, UpdateFault, UpdateGet, UpdatePut, UpdateConflict,
         PollHit, PollMiss, PollTimeout, UpdatePutLost, UpdateFails
<1> QED  BY <1>1, <1>2, SuccessIsSeen
=============================================================================
