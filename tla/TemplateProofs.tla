---------------------------- MODULE TemplateProofs ----------------------------
(***************************************************************************)
(* Theorems about the template handlers, for any number of concurrent      *)
(* requests and any templates, with failures and crashes.                  *)
(***************************************************************************)
EXTENDS TemplateProperties, ConfigMapLemmas

Started(r) == pc[r] # "new" => req[r] \in RequestSet
Silent(r)  == pc[r] = "new" => reply[r] = NoReply

TypeInv == TypeOK /\ \A r \in Requests : Started(r) /\ Silent(r)

(* The template f had the body b at the start, or b was sent for it.       *)
Known(f, b) ==
    \/ \E m \in InitialContents : m[f] = b
    \/ \E r \in Requests : pc[r] # "new" /\ req[r].file = f /\ req[r].body = b

(***************************************************************************)
(* What makes TemplatesAreGenuine true: no map on its way to the store     *)
(* holds a foreign body either.                                            *)
(***************************************************************************)
Recorded  == \A f \in Keys : Template[f] \in stored[f] \cup {None}
Explained == \A f \in Keys : \A b \in stored[f] : Known(f, b)
Sent(r)   == \A f \in Keys : call[r].updated[f] = None \/ Known(f, call[r].updated[f])
Told(r)   == pc[r] # "new" /\ req[r].op = "get" =>
                \A b \in reply[r].content : Known(req[r].file, b)

GenuineInv ==
    TypeInv /\ Recorded /\ Explained /\ \A r \in Requests : Sent(r) /\ Told(r)

-----------------------------------------------------------------------------
LEMMA TheName ==
    /\ Templates \in Names /\ \A n \in Names : n = Templates
    /\ EmptyMap \in MapData /\ NoCall \in Calls
  BY TemplatesAssumption, NoCallType

LEMMA MapFacts ==
    ASSUME TypeInv
    PROVE  Template \in MapData
  BY TheName DEF TypeInv, TypeOK, StoreTypeOK, Template

LEMMA RequestFacts ==
    ASSUME NEW q \in RequestSet
    PROVE  /\ q.op = "put" => q.body \in Values
           /\ q.file # None => q.file \in Keys
  BY DEF RequestSet

(* A step inside a call writes to the store what the call carries, or      *)
(* nothing, and changes no call but in its progress.                       *)
LEMMA CallStep ==
    ASSUME TypeInv, NEW r \in Requests, UpdateStep(r) \/ UpdateFault(r)
    PROVE  /\ StoreTypeOK'
           /\ Template' = Template \/ Template' = call[r].updated
           /\ \A q \in Requests : call'[q].updated = call[q].updated
<1> DEFINE n == call[r].name
           m == call[r].updated
<1>1. StoreTypeOK /\ n \in Names /\ m \in MapData
  BY DEF TypeInv, TypeOK, StoreTypeOK, Calls
<1>2. /\ Stored(n, m) \in [Names -> [data: MapData, rv: Nat]]
      /\ Stored(n, m)[n].data = m
  BY <1>1, StoredFacts DEF StoreTypeOK
<1>3. cm' = cm \/ cm' = Stored(n, m)
  BY <1>1, UpdateFacts
<1>4. call' = [call EXCEPT ![r] = call'[r]] /\ call'[r] \in Calls /\ call'[r].updated = m
  BY <1>1, UpdateFacts
<1>5. StoreTypeOK'
  BY <1>1, <1>2, <1>3, <1>4 DEF StoreTypeOK
<1>6. Template' = Template \/ Template' = m
  BY <1>1, <1>2, <1>3, TheName DEF Template
<1> QED  BY <1>1, <1>4, <1>5, <1>6 DEF StoreTypeOK

-----------------------------------------------------------------------------
(* Types.                                                                  *)

LEMMA AnswerTypes ==
    ASSUME TypeInv, NEW r \in Requests, pc[r] # "new",
           NEW code \in {0, 200, 202, 400, 500},
           NEW content \in SUBSET (Keys \cup Values), Answer(r, code, content)
    PROVE  TypeInv'
  BY TheName DEF Answer, TypeInv, TypeOK, StoreTypeOK, Replies, Started, Silent

LEMMA ChangeTypes ==
    ASSUME TypeInv, NEW r \in Requests, pc[r] # "new", NEW m \in MapData, Change(r, m)
    PROVE  TypeInv'
<1>1. [phase |-> "get", name |-> Templates, updated |-> m, rv |-> 0] \in Calls
  BY TheName DEF Calls, Phases, Active
<1> QED  BY <1>1 DEF Change, BeginUpdate, TypeInv, TypeOK, StoreTypeOK, Started, Silent

LEMMA UpdateTypes ==
    ASSUME TypeInv, NEW r \in Requests, Update(r)
    PROVE  TypeInv'
<1>1. StoreTypeOK' /\ UNCHANGED <<req, pc, reply>> /\ Record
  BY CallStep DEF Update
<1>2. Template' \in MapData
  BY <1>1, TheName DEF StoreTypeOK, Template
<1>3. stored' \in [Keys -> SUBSET Values]
  BY <1>1, <1>2 DEF Record, TypeInv, TypeOK, MapData
<1> QED  BY <1>1, <1>3 DEF TypeInv, TypeOK, Started, Silent

-----------------------------------------------------------------------------
(* Bodies.                                                                 *)

LEMMA KnownStays ==
    ASSUME \A q \in Requests : pc[q] # "new" => pc'[q] # "new" /\ req'[q] = req[q],
           NEW f, NEW b, Known(f, b)
    PROVE  Known(f, b)'
  BY DEF Known

(* A step of one request that leaves the store alone.                      *)
LEMMA QuietStep ==
    ASSUME GenuineInv, TypeInv', UNCHANGED <<cm, stored>>,
           \A q \in Requests : pc[q] # "new" => pc'[q] # "new" /\ req'[q] = req[q],
           \A q \in Requests : Sent(q)' /\ Told(q)'
    PROVE  GenuineInv'
<1>1. Recorded' /\ Explained'
  BY KnownStays DEF GenuineInv, Recorded, Explained, Template
<1> QED  BY <1>1 DEF GenuineInv

(* What the requests that make no step hold.                               *)
LEMMA Others ==
    ASSUME GenuineInv, NEW q \in Requests,
           \A p \in Requests : pc[p] # "new" => pc'[p] # "new" /\ req'[p] = req[p],
           pc'[q] = pc[q], req'[q] = req[q], reply'[q] = reply[q],
           call'[q].updated = call[q].updated
    PROVE  Sent(q)' /\ Told(q)'
  BY KnownStays DEF GenuineInv, Sent, Told

LEMMA AnswerGenuine ==
    ASSUME GenuineInv, NEW r \in Requests, pc[r] # "new",
           NEW code \in {0, 200, 202, 400, 500},
           NEW content \in SUBSET (Keys \cup Values), Answer(r, code, content),
           req[r].op = "get" => \A b \in content : Known(req[r].file, b)
    PROVE  GenuineInv'
<1>1. TypeInv' /\ TypeInv
  BY AnswerTypes DEF GenuineInv
<1> USE DEF Answer
<1>2. DOMAIN pc = Requests /\ DOMAIN reply = Requests /\ DOMAIN call = Requests
  BY <1>1 DEF TypeInv, TypeOK, StoreTypeOK
<1>3. \A q \in Requests : pc[q] # "new" => pc'[q] # "new" /\ req'[q] = req[q]
  BY <1>2
<1>4. Sent(r)'
  <2>1. call'[r].updated = EmptyMap
    BY <1>2 DEF NoCall
  <2> QED  BY <2>1 DEF Sent, EmptyMap
<1>5. Told(r)'
  <2>1. req' = req /\ reply'[r].content = content
    BY <1>2
  <2> QED  BY <2>1, <1>3, KnownStays DEF Told
<1>6. ASSUME NEW q \in Requests, q # r PROVE Sent(q)' /\ Told(q)'
  BY <1>2, <1>3, <1>6, Others
<1> QED  BY <1>1, <1>3, <1>4, <1>5, <1>6, QuietStep

LEMMA ChangeGenuine ==
    ASSUME GenuineInv, NEW r \in Requests, pc[r] = "arrived", NEW m \in MapData,
           Change(r, m), \A f \in Keys : m[f] = None \/ Known(f, m[f])
    PROVE  GenuineInv'
<1>1. TypeInv' /\ TypeInv
  BY ChangeTypes DEF GenuineInv
<1> USE DEF Change, BeginUpdate
<1>2. DOMAIN pc = Requests /\ DOMAIN call = Requests
  BY <1>1 DEF TypeInv, TypeOK, StoreTypeOK
<1>3. \A q \in Requests : pc[q] # "new" => pc'[q] # "new" /\ req'[q] = req[q]
  BY <1>2
<1>4. Sent(r)'
  <2>1. call'[r].updated = m
    BY <1>2
  <2> QED  BY <2>1, <1>3, KnownStays DEF Sent
<1>5. Told(r)'
  BY <1>3, KnownStays DEF GenuineInv, Told
<1>6. ASSUME NEW q \in Requests, q # r PROVE Sent(q)' /\ Told(q)'
  BY <1>2, <1>3, <1>6, Others
<1> QED  BY <1>1, <1>3, <1>4, <1>5, <1>6, QuietStep

LEMMA UpdateGenuine ==
    ASSUME GenuineInv, NEW r \in Requests, Update(r)
    PROVE  GenuineInv'
<1>1. TypeInv' /\ TypeInv
  BY UpdateTypes DEF GenuineInv
<1>2. /\ Template' = Template \/ Template' = call[r].updated
      /\ \A q \in Requests : call'[q].updated = call[q].updated
      /\ UNCHANGED <<req, pc, reply>> /\ Record
  BY <1>1, CallStep DEF Update
<1>3. \A q \in Requests : Sent(q)' /\ Told(q)'
  BY <1>2, Others
<1>4. Recorded'
  BY <1>2 DEF Record, Recorded
<1>5. ASSUME NEW f \in Keys, NEW b \in stored'[f] PROVE Known(f, b)'
  <2>1. b \in stored[f] \/ (b = Template'[f] /\ b # None)
    BY <1>2 DEF Record
  <2>2. Known(f, b)
    BY <1>2, <2>1 DEF GenuineInv, Recorded, Explained, Sent
  <2> QED  BY <1>2, <2>2, KnownStays
<1>6. Explained'
  BY <1>5 DEF Explained
<1> QED  BY <1>1, <1>3, <1>4, <1>6 DEF GenuineInv

LEMMA ArriveGenuine ==
    ASSUME GenuineInv, NEW r \in Requests, Arrive(r)
    PROVE  GenuineInv'
<1> USE DEF Arrive
<1>1. TypeInv'
  BY DEF GenuineInv, TypeInv, TypeOK, StoreTypeOK, Started, Silent
<1>2. DOMAIN pc = Requests /\ DOMAIN req = Requests /\ reply[r].content = {}
  BY DEF GenuineInv, TypeInv, TypeOK, Silent, NoReply
<1>3. \A q \in Requests : pc[q] # "new" => pc'[q] # "new" /\ req'[q] = req[q]
  BY <1>2
<1>4. Sent(r)' /\ Told(r)'
  BY <1>2, <1>3, KnownStays DEF GenuineInv, Sent, Told
<1>5. ASSUME NEW q \in Requests, q # r PROVE Sent(q)' /\ Told(q)'
  BY <1>2, <1>3, <1>5, Others
<1> QED  BY <1>1, <1>3, <1>4, <1>5, QuietStep

LEMMA CrashGenuine == GenuineInv /\ Crash => GenuineInv'
<1> SUFFICES ASSUME GenuineInv, Crash PROVE GenuineInv'
  OBVIOUS
<1> USE DEF Crash
<1>1. TypeInv'
  BY TheName DEF GenuineInv, TypeInv, TypeOK, StoreTypeOK, Started, Silent, InFlight
<1>2. \A q \in Requests : pc[q] # "new" => pc'[q] # "new" /\ req'[q] = req[q]
  BY DEF GenuineInv, TypeInv, TypeOK
<1>3. ASSUME NEW q \in Requests PROVE Sent(q)' /\ Told(q)'
  <2>1. pc'[q] # "new" => pc[q] # "new"
    BY DEF InFlight
  <2>2. Told(q)'
    BY <1>2, <2>1, KnownStays DEF GenuineInv, Told
  <2>3. call'[q].updated \in {EmptyMap, call[q].updated}
    BY DEF NoCall
  <2>4. Sent(q)'
    BY <1>2, <2>3, KnownStays DEF GenuineInv, Sent, EmptyMap
  <2> QED  BY <2>2, <2>4
<1> QED  BY <1>1, <1>2, <1>3, QuietStep

(* The steps that answer.                                                  *)
Answering(r) ==
    \/ Reject(r) \/ ReadFails(r) \/ UpdateReturns(r)
    \/ GetAllAlertmanagerTemplatesFileNames(r)
    \/ GetAlertmanagerTemplate(r)
    \/ DeleteAlertmanagerTemplate(r) /\ Template[req[r].file] = None

LEMMA AnsweringGenuine ==
    ASSUME GenuineInv, NEW r \in Requests, Answering(r)
    PROVE  GenuineInv'
<1>1. TypeInv /\ Template \in MapData
  BY MapFacts DEF GenuineInv
<1>2. CASE Reject(r) \/ ReadFails(r) \/ UpdateReturns(r)
  <2>1. PICK code \in {0, 200, 202, 400, 500} : Answer(r, code, {}) /\ pc[r] # "new"
    BY <1>2 DEF Reject, ReadFails, UpdateReturns, Panic, NoReply
  <2> QED  BY <2>1, AnswerGenuine
<1>3. CASE GetAllAlertmanagerTemplatesFileNames(r)
  BY <1>3, AnswerGenuine DEF GetAllAlertmanagerTemplatesFileNames
<1>4. CASE GetAlertmanagerTemplate(r) /\ Template[req[r].file] # None
  <2> DEFINE f == req[r].file
  <2>1. f \in Keys /\ pc[r] # "new"
    BY <1>1, <1>4, RequestFacts DEF GetAlertmanagerTemplate, Asked, TypeInv, Started
  <2>2. Template[f] \in Values /\ Known(f, Template[f])
    BY <1>1, <1>4, <2>1 DEF MapData, GenuineInv, Recorded, Explained
  <2>3. Answer(r, 200, {Template[f]})
    BY <1>4 DEF GetAlertmanagerTemplate
  <2> QED  BY <2>1, <2>2, <2>3, AnswerGenuine
<1>5. CASE (GetAlertmanagerTemplate(r) \/ DeleteAlertmanagerTemplate(r))
             /\ Template[req[r].file] = None
  <2>1. Answer(r, 400, {}) /\ pc[r] # "new"
    BY <1>5 DEF GetAlertmanagerTemplate, DeleteAlertmanagerTemplate, Asked
  <2> QED  BY <2>1, AnswerGenuine
<1> QED  BY <1>2, <1>3, <1>4, <1>5 DEF Answering

(* The steps that hand a changed copy over for the update.                 *)
LEMMA ChangingGenuine ==
    ASSUME GenuineInv, NEW r \in Requests,
           \/ PutAlertmanagerTemplate(r)
           \/ DeleteAlertmanagerTemplate(r) /\ Template[req[r].file] # None
    PROVE  GenuineInv'
<1> DEFINE f == req[r].file
<1>1. TypeInv /\ Template \in MapData
  BY MapFacts DEF GenuineInv
<1>2. pc[r] = "arrived" /\ f \in Keys /\ (req[r].op = "put" => req[r].body \in Values)
  BY <1>1, RequestFacts
     DEF PutAlertmanagerTemplate, DeleteAlertmanagerTemplate, Asked, TypeInv, Started
<1>3. PICK b \in Values \cup {None} :
          /\ Change(r, [Template EXCEPT ![f] = b])
          /\ b = None \/ b = req[r].body
  BY <1>2 DEF PutAlertmanagerTemplate, DeleteAlertmanagerTemplate, Asked
<1> DEFINE m == [Template EXCEPT ![f] = b]
<1>4. m \in MapData
  BY <1>1 DEF MapData
<1>5. ASSUME NEW g \in Keys, m[g] # None PROVE Known(g, m[g])
  <2>1. CASE g = f
    <3>1. m[g] = req[r].body
      BY <1>1, <1>3, <1>5, <2>1 DEF MapData
    <3> QED  BY <1>2, <2>1, <3>1 DEF Known
  <2>2. CASE g # f
    <3>1. m[g] = Template[g]
      BY <1>1, <2>2 DEF MapData
    <3> QED  BY <1>5, <3>1 DEF GenuineInv, Recorded, Explained
  <2> QED  BY <2>1, <2>2
<1> QED  BY <1>2, <1>3, <1>4, <1>5, ChangeGenuine

LEMMA StepGenuine == GenuineInv /\ [Next]_vars => GenuineInv'
<1> SUFFICES ASSUME GenuineInv, [Next]_vars PROVE GenuineInv'
  OBVIOUS
<1>1. CASE UNCHANGED vars
  <2>1. UNCHANGED <<cm, call, req, pc, reply, stored>>
    BY <1>1 DEF vars
  <2>2. TypeInv'
    BY <2>1 DEF GenuineInv, TypeInv, TypeOK, StoreTypeOK, Started, Silent
  <2>3. \A q \in Requests : Sent(q)' /\ Told(q)'
    BY <2>1, Others
  <2> QED  BY <2>1, <2>2, <2>3, QuietStep
<1>2. ASSUME NEW r \in Requests,
             \/ Arrive(r) \/ Update(r) \/ Answering(r)
             \/ PutAlertmanagerTemplate(r)
             \/ DeleteAlertmanagerTemplate(r) /\ Template[req[r].file] # None
      PROVE  GenuineInv'
  BY <1>2, ArriveGenuine, UpdateGenuine, AnsweringGenuine, ChangingGenuine
<1> QED  BY <1>1, <1>2, CrashGenuine DEF Next, Answering

LEMMA InitGenuine == Init => GenuineInv
<1> SUFFICES ASSUME Init PROVE GenuineInv
  OBVIOUS
<1>1. PICK m \in InitialContents : StoreInit([n \in Names |-> m])
  BY DEF Init
<1>2. m \in MapData /\ Template = m
  BY <1>1, TheName, TemplatesAssumption DEF StoreInit, Template
<1>3. StoreTypeOK
  BY <1>1, <1>2, TheName DEF StoreInit, StoreTypeOK
<1>4. TypeInv
  BY <1>2, <1>3 DEF Init, TypeInv, TypeOK, Started, Silent, NoReply, Replies, MapData
<1>5. Recorded /\ Explained
  BY <1>2 DEF Init, Recorded, Explained, Known
<1>6. \A r \in Requests : Sent(r) /\ Told(r)
  BY <1>1 DEF StoreInit, NoCall, EmptyMap, Init, Sent, Told
<1> QED  BY <1>4, <1>5, <1>6 DEF GenuineInv

LEMMA Safety == Spec => []GenuineInv
  BY InitGenuine, StepGenuine, PTL DEF Spec

(***************************************************************************)
(* The variables of the template handlers keep their types.                *)
(***************************************************************************)
THEOREM TemplatesTypeCorrect == Spec => []TypeOK
<1>1. GenuineInv => TypeOK
  BY DEF GenuineInv, TypeInv
<1> QED  BY <1>1, Safety, PTL

(***************************************************************************)
(* However many requests write back stale copies of the whole map, no      *)
(* template ever has, and no GET returns, a body that was not there at the *)
(* start or sent for that very template.                                   *)
(***************************************************************************)
THEOREM TemplatesStayGenuine == Spec => []TemplatesAreGenuine
<1>1. GenuineInv => TemplatesAreGenuine
  BY DEF GenuineInv, Explained, Told, Known, TemplatesAreGenuine
<1> QED  BY <1>1, Safety, PTL

-----------------------------------------------------------------------------
(***************************************************************************)
(* Requests that come one by one: an update that waits to be applied       *)
(* changes one template of the map as it is.                               *)
(***************************************************************************)
Waits(r) == call[r].phase \in {"get", "put"}

OneChange(old, new) ==
    \E f \in Keys, b \in Values \cup {None} : new = [old EXCEPT ![f] = b]

Fresh(r) ==
    /\ call[r].phase # "idle" => pc[r] = "updating"
    /\ Waits(r) => OneChange(Template, call[r].updated)

FreshInv == GenuineInv /\ OneInFlight /\ \A r \in Requests : Fresh(r)
AloneInv == GenuineInv /\ (alone => FreshInv)

LEMMA Bystander ==
    ASSUME FreshInv, OneInFlight', NEW r \in Requests,
           r \in InFlight \/ r \in InFlight', NEW q \in Requests \ {r},
           pc'[q] = pc[q], call'[q] = call[q]
    PROVE  Fresh(q)'
<1>1. pc[q] # "updating" \/ pc'[q] # "updating"
  BY DEF FreshInv, OneInFlight, InFlight
<1> QED  BY <1>1 DEF FreshInv, Fresh, Waits

LEMMA AnsweringFresh ==
    ASSUME FreshInv, GenuineInv', OneInFlight', NEW r \in Requests,
           Answering(r) \/ Arrive(r)
    PROVE  FreshInv'
<1>1. DOMAIN pc = Requests /\ DOMAIN call = Requests /\ Fresh(r)
  BY DEF FreshInv, GenuineInv, TypeInv, TypeOK, StoreTypeOK
<1>2. ASSUME NEW code, NEW content, Answer(r, code, content), r \in InFlight
      PROVE  FreshInv'
  <2>1. Fresh(r)'
    BY <1>1, <1>2 DEF Answer, NoCall, Fresh, Waits
  <2>2. ASSUME NEW q \in Requests \ {r} PROVE Fresh(q)'
    BY <1>2, Bystander DEF Answer
  <2> QED  BY <2>1, <2>2 DEF FreshInv
<1>3. CASE Answering(r)
  <2>1. \E code, content : Answer(r, code, content)
    BY <1>3 DEF Answering, Reject, ReadFails, Panic, UpdateReturns,
                GetAllAlertmanagerTemplatesFileNames, GetAlertmanagerTemplate,
                DeleteAlertmanagerTemplate
  <2>2. r \in InFlight
    BY <1>3 DEF Answering, Reject, ReadFails, UpdateReturns, Asked, InFlight,
                GetAllAlertmanagerTemplatesFileNames, GetAlertmanagerTemplate,
                DeleteAlertmanagerTemplate
  <2> QED  BY <1>2, <2>1, <2>2
<1>4. CASE Arrive(r)
  <2>1. Fresh(r)' /\ r \in InFlight'
    BY <1>1, <1>4 DEF Arrive, Fresh, Waits, InFlight
  <2>2. ASSUME NEW q \in Requests \ {r} PROVE Fresh(q)'
    BY <1>4, <2>1, Bystander DEF Arrive
  <2> QED  BY <2>1, <2>2 DEF FreshInv
<1> QED  BY <1>3, <1>4

LEMMA ChangingFresh ==
    ASSUME FreshInv, GenuineInv', OneInFlight', NEW r \in Requests,
           \/ PutAlertmanagerTemplate(r)
           \/ DeleteAlertmanagerTemplate(r) /\ Template[req[r].file] # None
    PROVE  FreshInv'
<1>1. DOMAIN pc = Requests /\ DOMAIN call = Requests /\ TypeInv
  BY DEF FreshInv, GenuineInv, TypeInv, TypeOK, StoreTypeOK
<1>2. PICK f \in Keys, b \in Values \cup {None} : Change(r, [Template EXCEPT ![f] = b])
  <2>1. req[r].file \in Keys /\ (req[r].op = "put" => req[r].body \in Values)
    BY <1>1, RequestFacts
       DEF PutAlertmanagerTemplate, DeleteAlertmanagerTemplate, Asked, TypeInv, Started
  <2> QED  BY <2>1 DEF PutAlertmanagerTemplate, DeleteAlertmanagerTemplate, Asked
<1>3. OneChange(Template', call'[r].updated)
  <2>1. Template' = Template /\ call'[r].updated = [Template EXCEPT ![f] = b]
    BY <1>1, <1>2 DEF Change, BeginUpdate, Template
  <2> QED  BY <2>1 DEF OneChange
<1>4. Fresh(r)' /\ r \in InFlight'
  BY <1>1, <1>2, <1>3 DEF Change, Fresh, Waits, InFlight
<1>5. ASSUME NEW q \in Requests \ {r} PROVE Fresh(q)'
  BY <1>2, <1>4, Bystander DEF Change, BeginUpdate
<1> QED  BY <1>4, <1>5 DEF FreshInv

LEMMA UpdateFresh ==
    ASSUME FreshInv, GenuineInv', OneInFlight', NEW r \in Requests, Update(r)
    PROVE  /\ FreshInv'
           /\ Template' = Template \/ OneChange(Template, Template')
<1>1. /\ UpdateStep(r) \/ UpdateFault(r)
      /\ UNCHANGED <<req, pc, reply>> /\ StoreTypeOK /\ Fresh(r)
      /\ call[r].name = Templates
  BY TheName DEF Update, FreshInv, GenuineInv, TypeInv, TypeOK, StoreTypeOK, Calls
<1>2. /\ call[r].phase # "idle" /\ call' = [call EXCEPT ![r] = call'[r]]
      /\ call'[r].updated = call[r].updated
      /\ cm' = cm \/ (Waits(r) /\ cm' = Stored(call[r].name, call[r].updated))
  BY <1>1, UpdateFacts DEF Active, Waits
<1>3. pc[r] = "updating" /\ r \in InFlight
  BY <1>1, <1>2 DEF Fresh, InFlight
<1>4. Fresh(r)'
  <2>1. call'[r].phase \in {"get", "put"} => cm' = cm /\ call[r].phase \in {"get", "put"}
    BY <1>1, CallProgress
  <2> QED  BY <1>1, <1>2, <1>3, <2>1 DEF Fresh, Waits, OneChange, Template
<1>5. ASSUME NEW q \in Requests \ {r} PROVE Fresh(q)'
  <2>1. pc'[q] = pc[q] /\ call'[q] = call[q]
    BY <1>1, <1>2 DEF StoreTypeOK
  <2> QED  BY <1>3, <2>1, Bystander
<1>6. Template' = Template \/ OneChange(Template, Template')
  <2>1. CASE cm' = cm
    BY <2>1 DEF Template
  <2>2. CASE Waits(r) /\ cm' = Stored(call[r].name, call[r].updated)
    <3>1. Template' = call[r].updated
      BY <1>1, <2>2, TheName DEF Stored, StoreTypeOK, Template
    <3> QED  BY <1>1, <2>2, <3>1 DEF Fresh
  <2> QED  BY <1>2, <2>1, <2>2
<1> QED  BY <1>4, <1>5, <1>6 DEF FreshInv

LEMMA NextFresh ==
    ASSUME FreshInv, [Next]_vars, OneInFlight'
    PROVE  FreshInv' /\ (Template' = Template \/ OneChange(Template, Template'))
<1>1. GenuineInv'
  BY StepGenuine DEF FreshInv
<1>2. CASE Crash
  <2>1. ASSUME NEW q \in Requests PROVE Fresh(q)'
    <3>1. CASE q \in InFlight
      BY <1>2, <3>1 DEF Crash, NoCall, Fresh, Waits
    <3>2. CASE q \notin InFlight
      BY <1>2, <3>2 DEF Crash, FreshInv, Fresh, Waits, InFlight
    <3> QED  BY <3>1, <3>2
  <2> QED  BY <1>1, <1>2, <2>1 DEF FreshInv, Crash, Template
<1>3. CASE UNCHANGED vars
  <2>1. ASSUME NEW q \in Requests PROVE Fresh(q)'
    <3>1. call' = call /\ pc' = pc /\ Template' = Template /\ Fresh(q)
      BY <1>3 DEF vars, FreshInv, Template
    <3> QED  BY <3>1 DEF Fresh, Waits
  <2> QED  BY <1>1, <1>3, <2>1 DEF FreshInv, vars, Template
<1>4. ASSUME NEW r \in Requests, Answering(r) \/ Arrive(r)
      PROVE  FreshInv' /\ Template' = Template
  <2>1. cm' = cm
    BY <1>4 DEF Arrive, Answering, Reject, ReadFails, Panic, UpdateReturns, Answer,
                GetAllAlertmanagerTemplatesFileNames, GetAlertmanagerTemplate,
                DeleteAlertmanagerTemplate
  <2> QED  BY <1>1, <1>4, <2>1, AnsweringFresh DEF Template
<1>5. ASSUME NEW r \in Requests,
             \/ PutAlertmanagerTemplate(r)
             \/ DeleteAlertmanagerTemplate(r) /\ Template[req[r].file] # None
      PROVE  FreshInv' /\ Template' = Template
  <2>1. cm' = cm
    BY <1>5 DEF PutAlertmanagerTemplate, DeleteAlertmanagerTemplate, Change
  <2> QED  BY <1>1, <1>5, <2>1, ChangingFresh DEF Template
<1>6. ASSUME NEW r \in Requests, Update(r)
      PROVE  FreshInv' /\ (Template' = Template \/ OneChange(Template, Template'))
  BY <1>1, <1>6, UpdateFresh
<1> QED  BY <1>2, <1>3, <1>4, <1>5, <1>6 DEF Next, Answering

LEMMA AlwaysAlone == AloneSpec => []AloneInv
<1>1. AloneInit => AloneInv
  <2> SUFFICES ASSUME Init PROVE FreshInv
    BY DEF AloneInit, AloneInv, FreshInv
  <2>1. GenuineInv
    BY InitGenuine
  <2>2. \A r \in Requests : Fresh(r)
    <3>1. call = [r \in Requests |-> NoCall] /\ NoCall.phase = "idle"
      BY DEF Init, StoreInit, NoCall
    <3> QED  BY <3>1 DEF Fresh, Waits
  <2>3. OneInFlight
    BY DEF Init, OneInFlight, InFlight
  <2> QED  BY <2>1, <2>2, <2>3 DEF FreshInv
<1>2. AloneInv /\ [AloneNext]_aloneVars => AloneInv'
  <2> SUFFICES ASSUME AloneInv, [AloneNext]_aloneVars PROVE AloneInv'
    OBVIOUS
  <2>1. [Next]_vars
    BY DEF AloneNext, aloneVars
  <2>2. GenuineInv'
    BY <2>1, StepGenuine DEF AloneInv
  <2>3. ASSUME alone' PROVE FreshInv'
    <3>1. FreshInv /\ OneInFlight'
      <4>1. CASE AloneNext
        BY <2>3, <4>1, Zenon DEF AloneNext, AloneInv
      <4>2. CASE UNCHANGED aloneVars
        BY <2>3, <4>2 DEF aloneVars, vars, AloneInv, FreshInv, OneInFlight, InFlight
      <4> QED  BY <4>1, <4>2
    <3> QED  BY <2>1, <3>1, NextFresh
  <2> QED  BY <2>2, <2>3 DEF AloneInv
<1> QED  BY <1>1, <1>2, PTL DEF AloneSpec

(***************************************************************************)
(* As long as no two requests have been in progress at once, each step     *)
(* stores or deletes one template of a set or does nothing: whichever      *)
(* calls fail, and whenever the server is restarted.                       *)
(***************************************************************************)
THEOREM TemplatesAreAStore == AloneSpec => IsTemplateStoreAlone
<1>1. AloneInit => Store!Init
  <2>1. Init => TypeInv
    BY InitGenuine DEF GenuineInv
  <2> QED  BY <2>1, MapFacts DEF AloneInit, Store!Init, MapData
<1>2. ASSUME AloneInv, [AloneNext]_aloneVars, alone'
      PROVE  [Store!Next]_Template
  <2>1. CASE AloneNext
    <3>1. FreshInv /\ OneInFlight' /\ Next
      BY <1>2, <2>1, Zenon DEF AloneNext, AloneInv
    <3>2. Template' = Template \/ OneChange(Template, Template')
      BY <3>1, NextFresh
    <3> QED  BY <3>2 DEF OneChange, Store!Next, Store!Put, Store!Delete
  <2>2. CASE UNCHANGED aloneVars
    BY <2>2 DEF aloneVars, vars, Template
  <2> QED  BY <1>2, <2>1, <2>2
<1>3. AloneInv /\ [AloneNext]_aloneVars => [alone' => [Store!Next]_Template]_aloneVars
  BY <1>2
<1> QED  BY <1>1, <1>3, AlwaysAlone, PTL DEF AloneSpec, IsTemplateStoreAlone
=============================================================================
