--------------------------- MODULE ConfigMapProofs ---------------------------
(***************************************************************************)
(* Proofs about updateConfigMapByName under the most general client, for   *)
(* any sets of requests, maps, keys and values.                            *)
(***************************************************************************)
EXTENDS ConfigMapClients, ConfigMapLemmas

Inv == StoreTypeOK /\ TimeoutMeansInterference

Step(r) == Enter(r) \/ UpdateStep(r) \/ UpdateFault(r)

(* What one step of request r does to the store and to the calls: nothing  *)
(* to the calls of others, nothing to the store but the one accepted PUT.  *)
LEMMA StepFacts ==
    ASSUME StoreTypeOK, NEW r \in Requests, Step(r)
    PROVE  /\ \E c \in Calls : call' = [call EXCEPT ![r] = c]
           /\ \/ cm' = cm
              \/ /\ call[r].phase = "put"
                 /\ cm' = Stored(call[r].name, call[r].updated)
<1>1. CASE Enter(r)
  BY <1>1 DEF Enter, BeginUpdate, StoreTypeOK, Calls, Phases, Active
<1> QED  BY <1>1, UpdateFacts DEF Step

LEMMA InitInv == Init => Inv
<1> SUFFICES ASSUME NEW contents \in InitialContents, StoreInit(contents)
             PROVE  Inv
  BY DEF Init
<1>1. contents \in [Names -> MapData]
  BY InitialAssumption
<1>2. StoreTypeOK
  BY <1>1, NoCallType DEF StoreInit, StoreTypeOK
<1>3. \A r \in Requests : call[r].phase = "idle"
  BY DEF StoreInit, NoCall
<1> QED  BY <1>2, <1>3 DEF Inv, TimeoutMeansInterference, NotSpurious

LEMMA StepType == StoreTypeOK /\ [Next]_storeVars => StoreTypeOK'
<1> SUFFICES ASSUME StoreTypeOK, [Next]_storeVars PROVE StoreTypeOK'
  OBVIOUS
<1>1. CASE UNCHANGED storeVars
  BY <1>1 DEF storeVars, StoreTypeOK
<1>2. ASSUME NEW r \in Requests, Step(r) PROVE StoreTypeOK'
  <2>1. PICK c \in Calls : call' = [call EXCEPT ![r] = c]
    BY <1>2, StepFacts
  <2>2. cm' \in [Names -> [data: MapData, rv: Nat]]
    <3>1. call[r].name \in Names /\ call[r].updated \in MapData
      BY DEF StoreTypeOK, Calls
    <3>2. Stored(call[r].name, call[r].updated) \in [Names -> [data: MapData, rv: Nat]]
      BY <3>1, StoredFacts DEF StoreTypeOK
    <3> QED  BY <1>2, StepFacts, <3>2 DEF StoreTypeOK
  <2> QED  BY <2>1, <2>2 DEF StoreTypeOK
<1> QED  BY <1>1, <1>2 DEF Next, Step

(***************************************************************************)
(* The store and the calls keep their types.                               *)
(***************************************************************************)
THEOREM TypeCorrect == Spec => []StoreTypeOK
<1>1. Init => StoreTypeOK
  BY InitInv DEF Inv
<1> QED  BY <1>1, StepType, PTL DEF Spec

(* Versions never go back, and a map that kept its version kept its        *)
(* content.                                                                *)
LEMMA VersionsGrow ==
    ASSUME StoreTypeOK, NEW r \in Requests, Step(r), NEW n \in Names
    PROVE  /\ cm'[n].rv >= cm[n].rv
           /\ cm'[n].rv = cm[n].rv => cm'[n].data = cm[n].data
<1> USE DEF StoreTypeOK, Calls
<1>1. CASE cm' = cm
  BY <1>1
<1>2. CASE cm' = Stored(call[r].name, call[r].updated)
  <2>1. call[r].name \in Names /\ call[r].updated \in MapData
    OBVIOUS
  <2>2. CASE n = call[r].name
    BY <1>2, <2>1, <2>2, StoredFacts
  <2>3. CASE n # call[r].name
    BY <1>2, <2>1, <2>3, StoredFacts
  <2> QED  BY <2>2, <2>3
<1> QED  BY <1>1, <1>2, StepFacts

LEMMA Above == \A a, b \in Nat : a >= b /\ a # b => a > b
  OBVIOUS

(* The call that takes the step: its own update leaves it what it wrote,   *)
(* and it only misses content that has been written over.                  *)
LEMMA OwnStep ==
    ASSUME Inv, NEW r \in Requests, Step(r)
    PROVE  NotSpurious(call[r])'
<1> USE DEF Inv, StoreTypeOK, Calls, NotSpurious
<1>1. CASE Enter(r)
  BY <1>1 DEF Enter, BeginUpdate
<1>2. CASE UpdateGet(r)
  BY <1>2 DEF UpdateGet
<1>3. CASE UpdatePut(r)
  <2>1. call[r].name \in Names /\ call[r].updated \in MapData
    OBVIOUS
  <2>2. /\ cm'[call[r].name].data = call[r].updated
        /\ cm'[call[r].name].rv \in Nat
    BY <1>3, <2>1, StoredFacts DEF UpdatePut
  <2>3. call'[r] = [call[r] EXCEPT !.phase = "poll", !.rv = cm'[call[r].name].rv]
    BY <1>3 DEF UpdatePut
  <2> QED  BY <2>2, <2>3
<1>4. CASE UpdateConflict(r) \/ PollHit(r) \/ UpdateFault(r)
  BY <1>4 DEF UpdateConflict, PollHit, UpdateFault, UpdatePutLost, UpdateFails
<1>5. CASE PollMiss(r)
  <2>1. NotSpurious(call[r])
    BY DEF TimeoutMeansInterference
  <2>2. call[r].name \in Names /\ cm[call[r].name].rv \in Nat /\ call[r].rv \in Nat
    OBVIOUS
  <2>3. cm[call[r].name].rv >= call[r].rv /\ cm[call[r].name].rv # call[r].rv
    BY <1>5, <2>1, Zenon DEF PollMiss
  <2>4. cm[call[r].name].rv > call[r].rv
    BY <2>2, <2>3, Above, Zenon
  <2> QED  BY <1>5, <2>4 DEF PollMiss
<1>6. CASE PollTimeout(r)
  <2>1. NotSpurious(call[r])
    BY DEF TimeoutMeansInterference
  <2> QED  BY <1>6, <2>1 DEF PollTimeout
<1> QED  BY <1>1, <1>2, <1>3, <1>4, <1>5, <1>6 DEF Step, UpdateStep

LEMMA StepTimeout == Inv /\ [Next]_storeVars => TimeoutMeansInterference'
<1> SUFFICES ASSUME Inv, [Next]_storeVars, NEW q \in Requests
             PROVE  NotSpurious(call[q])'
  BY DEF TimeoutMeansInterference
<1>0. NotSpurious(call[q]) /\ call[q] \in Calls
  BY DEF Inv, TimeoutMeansInterference, StoreTypeOK
<1>1. CASE UNCHANGED storeVars
  BY <1>0, <1>1 DEF storeVars, NotSpurious
<1>2. ASSUME NEW r \in Requests, Step(r), r # q PROVE NotSpurious(call[q])'
  <2>1. call'[q] = call[q]
    BY <1>2, StepFacts DEF Inv, StoreTypeOK
  <2>2. /\ cm'[call[q].name].rv >= cm[call[q].name].rv
        /\ cm'[call[q].name].rv = cm[call[q].name].rv =>
               cm'[call[q].name].data = cm[call[q].name].data
    BY <1>0, <1>2, VersionsGrow DEF Inv, Calls
  <2>3. cm[call[q].name].rv \in Nat /\ cm'[call[q].name].rv \in Nat /\ call[q].rv \in Nat
    BY <1>0, StepType DEF Inv, StoreTypeOK, Calls
  <2> QED  BY <1>0, <2>1, <2>2, <2>3 DEF NotSpurious
<1> QED  BY <1>1, <1>2, OwnStep DEF Next, Step

(***************************************************************************)
(* A wait for an update, and its timeout, are always due to another write  *)
(* of the same map.                                                        *)
(***************************************************************************)
THEOREM TimeoutsAreGenuine == Spec => []TimeoutMeansInterference
<1>1. Inv /\ [Next]_storeVars => Inv'
  BY StepType, StepTimeout DEF Inv
<1>2. Inv => TimeoutMeansInterference
  BY DEF Inv
<1> QED  BY InitInv, <1>1, <1>2, PTL DEF Spec

-----------------------------------------------------------------------------
(* The abstract state before and after a step of request r.                *)
LEMMA OpStep ==
    ASSUME StoreTypeOK, NEW r \in Requests, NEW c \in Calls,
           call' = [call EXCEPT ![r] = c]
    PROVE  op' = [op EXCEPT ![r] = Op(c)] /\ op[r] = Op(call[r])
<1>1. \A q \in Requests : call'[q] = IF q = r THEN c ELSE call[q]
  BY DEF StoreTypeOK
<1>2. op' = [q \in Requests |-> Op(call'[q])]
  BY DEF op, Op, Abstract, Failed
<1>3. op = [q \in Requests |-> Op(call[q])]
  BY DEF op
<1>4. op' = [q \in Requests |-> IF q = r THEN Op(c) ELSE op[q]]
  BY <1>1, <1>2, <1>3
<1>5. op = [q \in Requests |-> op[q]] /\ op[r] = Op(call[r])
  BY <1>3
<1> QED  BY <1>4, <1>5

LEMMA ContentsStep ==
    ASSUME StoreTypeOK, NEW n \in Names, NEW m \in MapData
    PROVE  /\ cm' = Stored(n, m) => Contents' = [Contents EXCEPT ![n] = m]
           /\ cm' = cm => Contents' = Contents
           /\ Contents[n] = cm[n].data
<1>1. ASSUME cm' = Stored(n, m) PROVE Contents' = [Contents EXCEPT ![n] = m]
  <2>1. \A k \in Names : cm'[k].data = IF k = n THEN m ELSE cm[k].data
    <3>1. /\ Stored(n, m)[n].data = m
          /\ \A k \in Names : k # n => Stored(n, m)[k] = cm[k]
      BY StoredFacts DEF StoreTypeOK
    <3> QED  BY <1>1, <3>1
  <2>2. Contents' = [k \in Names |-> IF k = n THEN m ELSE cm[k].data]
    BY <2>1 DEF Contents
  <2> QED  BY <2>2 DEF Contents
<1> QED  BY <1>1 DEF Contents

LEMMA AbstractPhases ==
    /\ Abstract("idle") = "idle" /\ Abstract("ok") = "ok"
    /\ Abstract("get") = "asked" /\ Abstract("put") = "asked"
    /\ Abstract("poll") = "written" /\ Abstract("missed") = "written"
    /\ Abstract("err") = "err" /\ Abstract("timeout") = "err"
  BY Zenon DEF Abstract, Failed

(* Every step is a step of the blind write, or invisible to it.            *)
LEMMA StepRefines == StoreTypeOK /\ [Next]_storeVars => [VW!Next]_VW!vars
<1> SUFFICES ASSUME StoreTypeOK, [Next]_storeVars PROVE [VW!Next]_VW!vars
  OBVIOUS
<1>1. CASE UNCHANGED storeVars
  BY <1>1 DEF storeVars, VW!vars, Contents, op, Op, Abstract, Failed
<1>2. ASSUME NEW r \in Requests, Step(r) PROVE [VW!Next]_VW!vars
  <2> DEFINE c == call'[r]
             b == call[r]
  <2>1. c \in Calls /\ b \in Calls /\ call' = [call EXCEPT ![r] = c]
    BY <1>2, StepFacts DEF StoreTypeOK
  <2>2. op' = [op EXCEPT ![r] = Op(c)] /\ op[r] = Op(b)
    BY <2>1, OpStep
  <2>3. b.name \in Names /\ b.updated \in MapData
    BY <2>1 DEF Calls
  <2>4. ASSUME NEW st, Op(c) = [Op(b) EXCEPT !.st = st]
        PROVE  op' = [op EXCEPT ![r].st = st]
    BY <2>2, <2>4
  <2>5. CASE Enter(r)
    <3>1. PICK n \in Names, m \in MapData :
              c = [phase |-> "get", name |-> n, updated |-> m, rv |-> 0]
      BY <2>1, <2>5 DEF Enter, BeginUpdate, StoreTypeOK
    <3>2. b.phase = "idle" /\ cm' = cm
      BY <2>5 DEF Enter
    <3>3. Op(c) = [st |-> "asked", name |-> n, content |-> m] /\ op[r].st = "idle"
      BY <2>2, <3>1, <3>2, AbstractPhases DEF Op
    <3>4. VW!Ask(r)
      BY <2>2, <2>3, <3>2, <3>3, ContentsStep DEF VW!Ask
    <3> QED  BY <3>4 DEF VW!Next
  <2>6. CASE UpdateGet(r) \/ PollMiss(r)
    <3>1. /\ c.name = b.name /\ c.updated = b.updated /\ cm' = cm
          /\ \/ b.phase = "get" /\ c.phase = "put"
             \/ b.phase \in {"poll", "missed"} /\ c.phase = "missed"
      BY <2>6 DEF UpdateGet, PollMiss, StoreTypeOK, Calls
    <3>2. Op(c) = Op(b)
      BY <3>1, AbstractPhases DEF Op
    <3>3. op' = op
      BY <2>2, <3>2 DEF op
    <3> QED  BY <2>3, <3>1, <3>3, ContentsStep DEF VW!vars
  <2>7. ASSUME NEW next \in {"poll", "err"}, b.phase = "put", c.phase = next,
               c.name = b.name, c.updated = b.updated,
               cm' = Stored(b.name, b.updated)
        PROVE  VW!Next
    <3>1. Op(c) = [Op(b) EXCEPT !.st = Abstract(next)] /\ op[r].st = "asked"
      BY <2>2, <2>7, AbstractPhases DEF Op
    <3>2. Contents' = [Contents EXCEPT ![op[r].name] = op[r].content]
      BY <2>2, <2>3, <2>7, ContentsStep DEF Op
    <3>3. VW!Write(r, Abstract(next))
      BY <2>4, <3>1, <3>2 DEF VW!Write
    <3> QED  BY <2>7, <3>3, AbstractPhases DEF VW!Next
  <2>8. CASE UpdatePut(r) \/ UpdatePutLost(r)
    <3>1. /\ c.phase \in {"poll", "err"} /\ b.phase = "put"
          /\ c.name = b.name /\ c.updated = b.updated
          /\ cm' = Stored(b.name, b.updated)
      BY <2>8 DEF UpdatePut, UpdatePutLost, StoreTypeOK, Calls
    <3> QED  BY <2>7, <3>1
  <2>9. CASE PollHit(r)
    <3>1. /\ c.name = b.name /\ c.updated = b.updated /\ cm' = cm
          /\ b.phase \in {"poll", "missed"} /\ c.phase = "ok"
          /\ cm[b.name].data = b.updated
      BY <2>9 DEF PollHit, StoreTypeOK, Calls
    <3>2. Op(c) = [Op(b) EXCEPT !.st = "ok"] /\ op[r].st = "written"
      BY <2>2, <3>1, AbstractPhases DEF Op
    <3>3. Contents[op[r].name] = op[r].content /\ Contents' = Contents
      BY <2>2, <2>3, <3>1, ContentsStep DEF Op
    <3>4. VW!Confirm(r)
      BY <2>4, <3>2, <3>3 DEF VW!Confirm
    <3> QED  BY <3>4 DEF VW!Next
  <2>10. CASE UpdateConflict(r) \/ PollTimeout(r) \/ UpdateFails(r)
    <3>1. /\ c.name = b.name /\ c.updated = b.updated /\ cm' = cm
          /\ b.phase \in Active /\ c.phase \in Failed
      BY <2>10 DEF UpdateConflict, PollTimeout, UpdateFails, StoreTypeOK, Calls,
                   Active, Failed
    <3>2. Op(c) = [Op(b) EXCEPT !.st = "err"] /\ op[r].st \in {"asked", "written"}
      BY <2>2, <3>1, AbstractPhases DEF Op, Active, Failed
    <3>3. VW!Refuse(r)
      BY <2>3, <2>4, <3>1, <3>2, ContentsStep DEF VW!Refuse
    <3> QED  BY <3>3 DEF VW!Next
  <2> QED  BY <1>2, <2>5, <2>6, <2>8, <2>9, <2>10
              DEF Step, UpdateStep, UpdateFault
<1> QED  BY <1>1, <1>2 DEF Next, Step

LEMMA InitRefines == Init => VW!Init
<1> SUFFICES ASSUME NEW contents \in InitialContents, StoreInit(contents)
             PROVE  VW!Init
  BY DEF Init
<1>1. contents \in [Names -> MapData]
  BY InitialAssumption
<1>2. Contents = contents
  BY <1>1 DEF StoreInit, Contents
<1>3. \A r \in Requests : Op(call[r]) \in [st: {"idle"}, name: Names, content: MapData]
  BY NoCallType, AbstractPhases DEF StoreInit, NoCall, Calls, Op
<1> QED  BY <1>2, <1>3 DEF VW!Init, op

(***************************************************************************)
(* updateConfigMapByName implements the blind verified write.              *)
(***************************************************************************)
THEOREM Refinement == Spec => IsVerifiedWrite
  BY TypeCorrect, InitRefines, StepRefines, PTL DEF Spec, IsVerifiedWrite, VW!Spec
=============================================================================
