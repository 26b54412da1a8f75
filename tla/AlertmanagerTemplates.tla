------------------------ MODULE AlertmanagerTemplates ------------------------
(***************************************************************************)
(* The handlers of handlers/alertmanagertemplateshandler.go: list, get,    *)
(* put and delete the notification templates of Alertmanager, all of them  *)
(* keys of one ConfigMap.  A handler reads the name of the map from the    *)
(* VMI resource, then the map, changes one key of its copy and hands the   *)
(* whole copy to updateConfigMapByName.  There are no versions.  (The      *)
(* router has no routes to these handlers; the model assumes some.)        *)
(***************************************************************************)
EXTENDS ConfigMaps, FiniteSets

CONSTANTS
    Templates,      (* the name of the ConfigMap                           *)
    MaxInflight,    (* how many requests may be in progress at once        *)
    MayFail,        (* may API calls fail and the server crash?            *)
    InitialContents (* what the map may hold to begin with                 *)

ASSUME TemplatesAssumption ==
    /\ Names = {Templates}
    /\ MaxInflight \in Nat \ {0}
    /\ MayFail \in BOOLEAN
    /\ InitialContents \subseteq MapData

VARIABLES
    req,        (* per goroutine, the request                              *)
    pc,         (* per goroutine, how far its handler has come             *)
    reply,      (* per goroutine, what it answered                         *)
    stored      (* history: per template, every body it ever had           *)

vars == <<cm, call, req, pc, reply, stored>>

Template == cm[Templates].data

(* None stands for a name that is turned down: it has no letter or digit,  *)
(* or, in PUT, does not end in ".tmpl".                                    *)
RequestSet ==
    [op: {"list", "get", "delete"}, file: Keys \cup {None}, body: {None}]
        \cup [op: {"put"}, file: Keys \cup {None}, body: Values]

Replies  == [code: {0, 200, 202, 400, 500}, content: SUBSET (Keys \cup Values)]
NoReply  == [code |-> 0, content |-> {}]
InFlight == {r \in Requests : pc[r] \in {"arrived", "updating"}}

TypeOK ==
    /\ StoreTypeOK
    /\ req \in [Requests -> RequestSet \cup {None}]
    /\ pc \in [Requests -> {"new", "arrived", "updating", "done"}]
    /\ reply \in [Requests -> Replies]
    /\ stored \in [Keys -> SUBSET Values]

Init ==
    /\ \E m \in InitialContents : StoreInit([n \in Names |-> m])
    /\ req = [r \in Requests |-> None]
    /\ pc = [r \in Requests |-> "new"]
    /\ reply = [r \in Requests |-> NoReply]
    /\ stored = [f \in Keys |-> {Template[f]} \ {None}]

-----------------------------------------------------------------------------
Record == stored' = [f \in Keys |-> stored[f] \cup ({Template'[f]} \ {None})]

Answer(r, code, content) ==
    /\ pc' = [pc EXCEPT ![r] = "done"]
    /\ reply' = [reply EXCEPT ![r] = [code |-> code, content |-> content]]
    /\ call' = [call EXCEPT ![r] = NoCall]
    /\ UNCHANGED <<cm, req, stored>>

(* net/http drops the connection of a handler that panics.                 *)
Panic(r) == Answer(r, NoReply.code, NoReply.content)

Arrive(r) ==
    /\ pc[r] = "new"
    /\ Cardinality(InFlight) < MaxInflight
    /\ \E q \in RequestSet : req' = [req EXCEPT ![r] = q]
    /\ pc' = [pc EXCEPT ![r] = "arrived"]
    /\ UNCHANGED <<cm, call, reply, stored>>

(* PUT reads the body first.                                               *)
Reject(r) ==
    /\ pc[r] = "arrived"
    /\ \/ req[r].op # "list" /\ req[r].file = None /\ Answer(r, 400, {})
       \/ req[r].op = "put" /\ Answer(r, 500, {})

(* The VMI resource or the ConfigMap cannot be read: 500, but GET and      *)
(* DELETE go on without the resource and panic, as all of them do when it  *)
(* names no ConfigMap.                                                     *)
ReadFails(r) ==
    /\ MayFail /\ pc[r] = "arrived" /\ (req[r].op = "list" \/ req[r].file # None)
    /\ Answer(r, 500, {}) \/ Panic(r)

GetAllAlertmanagerTemplatesFileNames(r) ==
    /\ pc[r] = "arrived" /\ req[r].op = "list"
    /\ Answer(r, 200, {f \in Keys : Template[f] # None})

Asked(r, op) == pc[r] = "arrived" /\ req[r].op = op /\ req[r].file # None

(* Faulty variant: whether the template is there is not asked.             *)
GetUnasked(r) ==
    /\ Asked(r, "get")
    /\ Answer(r, 200, {Template[req[r].file]})

GetAlertmanagerTemplate(r) ==
    /\ Asked(r, "get")
    /\ IF Template[req[r].file] = None
       THEN Answer(r, 400, {})
       ELSE Answer(r, 200, {Template[req[r].file]})

Change(r, m) ==
    /\ BeginUpdate(r, Templates, m)
    /\ pc' = [pc EXCEPT ![r] = "updating"]
    /\ UNCHANGED <<cm, req, reply, stored>>

DeleteAlertmanagerTemplate(r) ==
    /\ Asked(r, "delete")
    /\ IF Template[req[r].file] = None
       THEN Answer(r, 400, {})
       ELSE Change(r, [Template EXCEPT ![req[r].file] = None])

(* Faulty variant: a new template starts a new map.                        *)
PutNewMap(r) ==
    /\ Asked(r, "put")
    /\ IF Template[req[r].file] = None
       THEN Change(r, [EmptyMap EXCEPT ![req[r].file] = req[r].body])
       ELSE Change(r, [Template EXCEPT ![req[r].file] = req[r].body])

(* Faulty variant: the body goes to the first template found.              *)
PutFirstFound(r) ==
    /\ Asked(r, "put")
    /\ \E f \in Keys : /\ Template[f] # None \/ f = req[r].file
                       /\ Change(r, [Template EXCEPT ![f] = req[r].body])

PutAlertmanagerTemplate(r) ==
    /\ Asked(r, "put")
    /\ Change(r, [Template EXCEPT ![req[r].file] = req[r].body])

(* The call to updateConfigMapByName, and what follows its return.         *)
Update(r) ==
    /\ UpdateStep(r) \/ (MayFail /\ UpdateFault(r))
    /\ UNCHANGED <<req, pc, reply>>
    /\ Record

UpdateReturns(r) ==
    /\ pc[r] = "updating"
    /\ \/ call[r].phase = "ok" /\ Answer(r, 202, {})
       \/ call[r].phase \in Failed /\ Answer(r, 500, {})

Crash ==
    /\ MayFail /\ InFlight # {}
    /\ pc' = [r \in Requests |-> IF r \in InFlight THEN "done" ELSE pc[r]]
    /\ call' = [r \in Requests |-> IF r \in InFlight THEN NoCall ELSE call[r]]
    /\ UNCHANGED <<cm, req, reply, stored>>

Next ==
    \/ \E r \in Requests : \/ Arrive(r)
                           \/ Reject(r)
                           \/ ReadFails(r)
                           \/ GetAllAlertmanagerTemplatesFileNames(r)
                           \/ GetAlertmanagerTemplate(r)
                           \/ DeleteAlertmanagerTemplate(r)
                           \/ PutAlertmanagerTemplate(r)
                           \/ Update(r)
                           \/ UpdateReturns(r)
    \/ Crash

Spec == Init /\ [][Next]_vars

-----------------------------------------------------------------------------
(***************************************************************************)
(* However many requests write back their stale copies, a template only    *)
(* ever has bodies it had at the start or that were put for it, and GET    *)
(* returns one of those.                                                   *)
(***************************************************************************)
TemplatesAreGenuine ==
    \A f \in Keys : \A b \in stored[f] \cup
            UNION {reply[r].content : r \in {q \in Requests :
                       pc[q] # "new" /\ req[q].op = "get" /\ req[q].file = f}} :
        \/ \E m \in InitialContents : m[f] = b
        \/ \E r \in Requests : pc[r] # "new" /\ req[r].file = f /\ req[r].body = b

(* The set of templates the map stands for.                                *)
Store == INSTANCE TemplateStore WITH
             Names <- Keys, Bodies <- Values, templates <- Template
=============================================================================
