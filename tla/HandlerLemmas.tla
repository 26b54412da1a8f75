---------------------------- MODULE HandlerLemmas ----------------------------
(***************************************************************************)
(* Invariants of the handlers that keep versions, and the lemmas that the  *)
(* steps they share preserve them: for any number of concurrent requests,  *)
(* any files, contents, limits and prefix relation.                        *)
(***************************************************************************)
EXTENDS HandlerProperties, ConfigMapLemmas, FiniteSetTheorems

(* The first map holds current files only, the second one versions.        *)
CurrentContent ==
    {m \in MapData : /\ \A k \in VersionKeys : m[k] = None
                     /\ \A f \in Files : m[f] # Blank}
VersionContent == {m \in MapData : \A f \in Files : m[f] = None}

Shape(n) == IF n = CurrentMap THEN CurrentContent ELSE VersionContent


(***************************************************************************)
(* The inductive type invariant.  Beyond TypeOK it keeps the copies and    *)
(* the contents on their way to the store apart in the same way, and ties  *)
(* the position of a handler to the kind of its request.                   *)
(***************************************************************************)
Types ==
    /\ StoreTypeOK
    /\ req \in [Requests -> RequestSet \cup {None}]
    /\ pc \in [Requests -> Running \cup {"new", "done"}]
    /\ reply \in [Requests -> Replies]
    /\ now \in Times
    /\ cur \in [Requests -> CurrentContent]
    /\ sav \in [Requests -> VersionContent]

Shapes ==
    /\ \A n \in Names : cm[n].data \in Shape(n)
    /\ \A r \in Requests : call[r].updated \in Shape(call[r].name)

Positions ==
    \A r \in Requests :
        /\ pc[r] # "new" => req[r] \in RequestSet
        /\ pc[r] = "readOne" /\ req[r].op = "get" => req[r].version # None
        /\ pc[r] \in {"backup", "replace", "create"} => req[r].op = "put"
        /\ pc[r] \in {"remove", "purge"} => req[r].op = "delete"
        /\ call[r].phase # "idle" => pc[r] \in Updating

TypeInv == Types /\ Shapes /\ Positions

-----------------------------------------------------------------------------
(* Contents.                                                               *)

LEMMA MapNames ==
    /\ CurrentMap \in Names /\ VersionsMap \in Names
    /\ CurrentMap # VersionsMap
    /\ Shape(CurrentMap) = CurrentContent
    /\ Shape(VersionsMap) = VersionContent
    /\ \A n \in Names : n = CurrentMap \/ n = VersionsMap
  BY HandlersAssumption DEF Shape

LEMMA EmptyShapes == EmptyMap \in CurrentContent /\ EmptyMap \in VersionContent
  BY VersionsAssumption, HandlersAssumption
     DEF VersionKeys, EmptyMap, MapData, CurrentContent, VersionContent

LEMMA KeyFacts ==
    /\ \A f \in Files : f \in Keys /\ f \notin VersionKeys
    /\ \A k \in VersionKeys : k \in Keys /\ k \notin Files
    /\ \A f \in Files, t \in Times : <<f, t>> \in VersionKeys
  BY VersionsAssumption DEF VersionKeys

(* Writing a file, or removing keys, keeps a content in its shape.         *)
LEMMA CurrentUpdates ==
    ASSUME NEW m \in CurrentContent, NEW f \in Files, NEW b \in Bodies
    PROVE  [m EXCEPT ![f] = b] \in CurrentContent
  BY KeyFacts DEF CurrentContent, MapData, Bodies

LEMMA VersionUpdates ==
    ASSUME NEW m \in VersionContent, NEW k \in VersionKeys, NEW b \in Values
    PROVE  [m EXCEPT ![k] = b] \in VersionContent
  BY KeyFacts DEF VersionContent, MapData, Bodies

LEMMA WithoutShape ==
    ASSUME NEW S
    PROVE  /\ \A m \in CurrentContent : Without(m, S) \in CurrentContent
           /\ \A m \in VersionContent : Without(m, S) \in VersionContent
  BY KeyFacts, HandlersAssumption DEF CurrentContent, VersionContent, MapData, Without

LEMMA PrunedShape ==
    ASSUME NEW m \in VersionContent, NEW f, NEW t, NEW p \in Pruned(m, f, t)
    PROVE  p \in VersionContent
<1>1. p = m \/ \E S : p = Without(m, S)
  BY DEF Pruned
<1> QED  BY <1>1, WithoutShape

-----------------------------------------------------------------------------
(* One lemma per shape a step has.                                         *)

LEMMA AnswerTypes ==
    ASSUME TypeInv, NEW r \in Requests, NEW code \in {0, 200, 202, 400, 404, 500},
           NEW content \in SUBSET (Keys \cup Bodies), pc[r] \in Running,
           Answer(r, code, content)
    PROVE  TypeInv'
<1> USE DEF TypeInv, Answer
<1>1. Types'
  BY EmptyShapes, NoCallType DEF Types, StoreTypeOK, Replies
<1>2. NoCall.updated = EmptyMap /\ NoCall.phase = "idle"
  BY DEF NoCall
<1>3. Shapes'
  BY <1>2, EmptyShapes DEF Shapes, Types, StoreTypeOK, Shape
<1>4. Positions'
  BY <1>2 DEF Positions, Types, StoreTypeOK, Running, Updating
<1> QED  BY <1>1, <1>3, <1>4

LEMMA AskTypes ==
    ASSUME TypeInv, NEW r \in Requests, NEW n \in Names, NEW m \in Shape(n),
           NEW next \in Updating, Ask(r, n, m, next), req[r] \in RequestSet,
           req[r].op = IF next \in {"remove", "purge"} THEN "delete" ELSE "put"
    PROVE  TypeInv'
<1> USE DEF TypeInv, Ask, BeginUpdate
<1>1. m \in MapData
  BY DEF Shape, CurrentContent, VersionContent
<1>2. Types'
  BY <1>1 DEF Types, StoreTypeOK, Calls, Phases, Active, Running
<1>3. Shapes'
  BY DEF Shapes, Types, StoreTypeOK
<1>4. Positions'
  BY DEF Positions, Types, StoreTypeOK, Updating
<1> QED  BY <1>2, <1>3, <1>4

LEMMA UpdateTypes ==
    ASSUME TypeInv, NEW r \in Requests, UpdateMap(r) \/ UpdateMapFails(r)
    PROVE  TypeInv'
<1>1. UpdateStep(r) \/ UpdateFault(r)
  BY DEF UpdateMap, UpdateMapFails
<1>2. UNCHANGED <<req, pc, cur, sav, reply, now>>
  BY DEF UpdateMap, UpdateMapFails
<1> DEFINE n == call[r].name
           m == call[r].updated
<1>3. n \in Names /\ m \in MapData /\ m \in Shape(n)
  BY DEF TypeInv, Types, Shapes, StoreTypeOK, Calls
<1>4. StoreTypeOK
  BY DEF TypeInv, Types
<1>5. call' \in [Requests -> Calls]
  BY <1>1, <1>4, UpdateFacts DEF StoreTypeOK
<1>6. \A q \in Requests : call'[q].updated = call[q].updated /\ call'[q].name = call[q].name
  BY <1>1, <1>4, UpdateFacts DEF StoreTypeOK
<1>7. /\ cm' \in [Names -> [data: MapData, rv: Nat]]
      /\ \A k \in Names : cm'[k].data \in Shape(k)
  <2>1. CASE cm' = cm
    BY <2>1, <1>4 DEF TypeInv, Shapes, StoreTypeOK
  <2>2. CASE cm' = Stored(n, m)
    <3>1. /\ Stored(n, m) \in [Names -> [data: MapData, rv: Nat]]
          /\ Stored(n, m)[n].data = m
          /\ \A k \in Names : k # n => Stored(n, m)[k] = cm[k]
      BY <1>3, <1>4, StoredFacts DEF StoreTypeOK
    <3> QED  BY <2>2, <1>3, <3>1 DEF TypeInv, Shapes
  <2> QED  BY <1>1, <1>4, <2>1, <2>2, UpdateFacts
<1>8. Shapes'
  BY <1>6, <1>7 DEF TypeInv, Shapes
<1>9. Types'
  BY <1>2, <1>5, <1>7 DEF TypeInv, Types, StoreTypeOK
<1>10. Positions'
  <2>1. call[r].phase # "idle" /\ \A q \in Requests : q # r => call'[q] = call[q]
    BY <1>1, <1>4, UpdateFacts DEF StoreTypeOK, Active
  <2> QED  BY <1>2, <2>1 DEF TypeInv, Positions
<1> QED  BY <1>8, <1>9, <1>10 DEF TypeInv

-----------------------------------------------------------------------------
(* The steps both endpoints have.                                          *)

LEMMA RequestFacts ==
    ASSUME NEW q \in RequestSet
    PROVE  /\ q.file \in Files
           /\ q.op = "put" => q.body \in Bodies
           /\ q.op \in AllOperations
           /\ q.op = "get" => q.version \in Times \cup {None}
  BY HandlersAssumption DEF RequestSet, AllOperations

LEMMA CopyTypes ==
    ASSUME TypeInv, NEW r \in Requests,
           \/ /\ pc[r] = "arrived" /\ (req[r].op = "get" => req[r].version # None)
              /\ TakeCurrent(r)
           \/ ReadSaved(r)
    PROVE  TypeInv'
<1>1. Current \in CurrentContent /\ Archive \in VersionContent
  BY MapNames DEF TypeInv, Shapes, Current, Archive
<1> QED  BY <1>1 DEF TakeCurrent, ReadSaved, TypeInv, Types, Shapes, Positions,
                     StoreTypeOK, Running, Updating

LEMMA BackupTypes ==
    ASSUME TypeInv, NEW r \in Requests, req[r] \in RequestSet, req[r].op = "put",
           NEW content \in Values, Backup(r, content)
    PROVE  TypeInv'
<1> DEFINE f == req[r].file
           saved == [sav[r] EXCEPT ![<<f, now>>] = content]
<1>1. <<f, now>> \in VersionKeys /\ sav[r] \in VersionContent
  BY RequestFacts, KeyFacts DEF TypeInv, Types
<1>2. saved \in VersionContent
  BY <1>1, VersionUpdates
<1>3. PICK m \in Pruned(saved, f, now) : Ask(r, VersionsMap, m, "backup")
  BY DEF Backup
<1>4. m \in Shape(VersionsMap)
  BY <1>2, <1>3, PrunedShape, MapNames
<1> QED  BY <1>3, <1>4, AskTypes, MapNames DEF Updating

LEMMA ReplaceTypes ==
    ASSUME TypeInv, NEW r \in Requests, req[r] \in RequestSet, req[r].op = "put",
           NEW next \in {"replace", "create"}, Replace(r, next)
    PROVE  TypeInv'
<1>1. [cur[r] EXCEPT ![req[r].file] = req[r].body] \in Shape(CurrentMap)
  BY RequestFacts, CurrentUpdates, MapNames DEF TypeInv, Types
<1> QED  BY <1>1, AskTypes, MapNames DEF Replace, Updating

(* An update in progress belongs to a handler that asked for it.           *)
LEMMA UpdateRuns ==
    ASSUME TypeInv, NEW r \in Requests, UpdateMap(r) \/ UpdateMapFails(r) \/ UpdateError(r)
    PROVE  pc[r] \in Updating
<1>1. call[r].phase # "idle"
  BY UpdateFacts DEF UpdateMap, UpdateMapFails, UpdateError, TypeInv, Types, Active, Failed
<1> QED  BY <1>1 DEF TypeInv, Positions

(* The other steps of a request that are the same at both endpoints.       *)
Common(r) ==
    \/ ReadFails(r) \/ PutIdentical(r) \/ ReadSaved(r)
    \/ UpdateMap(r) \/ UpdateMapFails(r) \/ UpdateError(r) \/ Finish(r)

LEMMA CommonRuns ==
    ASSUME TypeInv, NEW r \in Requests, Common(r)
    PROVE  pc[r] \in Running /\ req[r] \in RequestSet
<1>1. pc[r] \in Running
  BY UpdateRuns DEF Common, ReadFails, PutIdentical, PutStart, ReadSaved, Finish, Updated,
                    Running, Updating
<1> QED  BY <1>1 DEF TypeInv, Positions, Running, Updating

LEMMA CommonTypes ==
    ASSUME TypeInv, NEW r \in Requests, Common(r)
    PROVE  TypeInv'
<1>1. pc[r] \in Running
  BY CommonRuns
<1>2. CASE ReadFails(r) \/ PutIdentical(r) \/ UpdateError(r) \/ Finish(r)
  BY <1>1, <1>2, AnswerTypes DEF NoReply, ReadFails, PutIdentical, UpdateError, Finish
<1>3. CASE ReadSaved(r)
  BY <1>1, <1>3, CopyTypes
<1> QED  BY <1>2, <1>3, UpdateTypes DEF Common

LEMMA ArriveTypes ==
    ASSUME TypeInv, NEW r \in Requests, Arrive(r)
    PROVE  TypeInv'
  BY DEF Arrive, TypeInv, Types, Shapes, Positions, StoreTypeOK, Running, Updating

LEMMA CrashTypes == TypeInv /\ Crash => TypeInv'
<1> SUFFICES ASSUME TypeInv, Crash PROVE TypeInv'
  OBVIOUS
<1>1. Types'
  BY EmptyShapes, NoCallType DEF Crash, TypeInv, Types, StoreTypeOK, InFlight
<1>2. \A r \in Requests : call'[r].updated \in Shape(call'[r].name)
  <2>1. NoCall.updated \in Shape(NoCall.name)
    BY EmptyShapes DEF NoCall, Shape
  <2> QED  BY <2>1 DEF Crash, TypeInv, Shapes
<1>3. Shapes'
  BY <1>2 DEF Crash, TypeInv, Shapes
<1>4. Positions'
  <2>1. NoCall.phase = "idle"
    BY DEF NoCall
  <2> QED  BY <2>1 DEF Crash, TypeInv, Positions, InFlight, Running, Updating
<1> QED  BY <1>1, <1>3, <1>4 DEF TypeInv

LEMMA TickTypes == TypeInv /\ Tick => TypeInv'
  BY VersionsAssumption DEF Tick, TypeInv, Types, Shapes, Positions, StoreTypeOK, Times

LEMMA StutterTypes == TypeInv /\ UNCHANGED vars => TypeInv'
  BY DEF vars, TypeInv, Types, Shapes, Positions, StoreTypeOK

LEMMA InitTypes == Init => TypeInv
<1> SUFFICES ASSUME Init PROVE TypeInv
  OBVIOUS
<1>1. PICK contents \in InitialContents : StoreInit(contents)
  BY DEF Init
<1>2. /\ contents[CurrentMap] \in CurrentContent
      /\ contents[VersionsMap] \in VersionContent
      /\ contents \in [Names -> MapData]
  BY MapNames, HandlersAssumption DEF CurrentContent, VersionContent
<1>3. StoreTypeOK
  BY <1>1, <1>2, NoCallType DEF StoreInit, StoreTypeOK
<1>4. Types
  BY <1>3, EmptyShapes, VersionsAssumption
     DEF Init, Types, Times, Replies, NoReply
<1>5. NoCall.updated \in Shape(NoCall.name)
  BY EmptyShapes DEF NoCall, Shape
<1>6. Shapes
  BY <1>1, <1>2, <1>5, MapNames DEF StoreInit, Shapes
<1>7. Positions
  BY <1>1 DEF StoreInit, NoCall, Init, Positions, Running, Updating
<1> QED  BY <1>4, <1>6, <1>7 DEF TypeInv

LEMMA TypeInvIsEnough == TypeInv => TypeOK
  BY MapNames DEF TypeInv, Types, Shapes, TypeOK, CurrentContent, VersionContent,
                  Current, Archive

-----------------------------------------------------------------------------
(***************************************************************************)
(* The inductive invariant behind ContentsAreGenuine.  Whatever a handler  *)
(* holds a copy of, or has asked to be stored, is content the file has had *)
(* before, but for the one body a PUT is about to store; and what a file   *)
(* has had came from the start or from a PUT that got past validation.     *)
(***************************************************************************)
Kept(f) == served[f] \cup {None, Blank}

Own(r, f) == IF pc[r] \in {"replace", "create"} /\ req[r].file = f
             THEN {req[r].body} ELSE {}

Stores(f) ==
    /\ Current[f] \in Kept(f)
    /\ \A t \in Times : Archive[<<f, t>>] \in Kept(f)

Copies(r, f) ==
    /\ cur[r][f] \in Kept(f)
    /\ \A t \in Times : sav[r][<<f, t>>] \in Kept(f)

Asked(r, f) ==
    /\ call[r].name = CurrentMap => call[r].updated[f] \in Kept(f) \cup Own(r, f)
    /\ call[r].name = VersionsMap =>
           \A t \in Times : call[r].updated[<<f, t>>] \in Kept(f)

Returned(r) ==
    /\ pc[r] \in Running \cup {"new"} => reply[r] = NoReply
    /\ reply[r].code = 200 /\ req[r].op = "get" =>
           reply[r].content \subseteq served[req[r].file]

Original(f, b) ==
    \E c \in InitialContents :
        c[CurrentMap][f] = b \/ \E t \in Times : c[VersionsMap][<<f, t>>] = b

Submitted(r, f, b) ==
    /\ pc[r] \notin {"new", "arrived"}
    /\ req[r].op = "put" /\ req[r].file = f /\ req[r].body = b
    /\ reply[r].code # 400

Sources(f) ==
    \A b \in served[f] : Original(f, b) \/ \E r \in Requests : Submitted(r, f, b)

Genuine ==
    /\ \A f \in Files : Stores(f) /\ Sources(f)
    /\ \A r \in Requests : Returned(r) /\ \A f \in Files : Copies(r, f) /\ Asked(r, f)

GenuineInv == TypeInv /\ Genuine

(* What the history gains in a step.                                       *)
LEMMA ServedGrows ==
    ASSUME GenuineInv, Record
    PROVE  \A f \in Files : /\ served[f] \subseteq served'[f]
                            /\ Kept(f) \subseteq Kept(f)'
                            /\ Current'[f] \in Kept(f)'
                            /\ cm' = cm => served'[f] = served[f]
                            /\ served'[f] \subseteq served[f] \cup {Current'[f]}
<1> SUFFICES ASSUME NEW f \in Files
             PROVE  /\ served[f] \subseteq served'[f]
                    /\ Kept(f) \subseteq Kept(f)'
                    /\ Current'[f] \in Kept(f)'
                    /\ cm' = cm => served'[f] = served[f]
                    /\ served'[f] \subseteq served[f] \cup {Current'[f]}
  OBVIOUS
<1>1. served'[f] = served[f] \cup ({Current'[f]} \ {None})
  BY DEF Record
<1>2. Current[f] \in Kept(f) /\ Current[f] # Blank
  BY TypeInvIsEnough DEF GenuineInv, Genuine, Stores, TypeOK
<1>3. cm' = cm => Current' = Current
  BY DEF Current
<1> QED  BY <1>1, <1>2, <1>3 DEF Kept

(* The requests that have not moved keep what the invariant says of them,  *)
(* and so does whoever has submitted a body.                               *)
LEMMA Others ==
    ASSUME GenuineInv, Record, NEW q \in Requests, req'[q] = req[q],
           pc'[q] = pc[q], reply'[q] = reply[q], cur'[q] = cur[q],
           sav'[q] = sav[q], call'[q].name = call[q].name,
           call'[q].updated = call[q].updated
    PROVE  /\ Returned(q)'
           /\ \A f \in Files : Copies(q, f)' /\ Asked(q, f)'
<1>1. \A f \in Files : served[f] \subseteq served'[f] /\ Kept(f) \subseteq Kept(f)'
  BY ServedGrows
<1>2. Returned(q)'
  <2>1. ASSUME reply[q].code = 200, req[q].op = "get"
        PROVE  req[q].file \in Files
    <3>1. reply[q] # NoReply
      BY <2>1 DEF NoReply
    <3>2. pc[q] = "done"
      BY <3>1 DEF GenuineInv, Genuine, Returned, TypeInv, Types
    <3>3. req[q] \in RequestSet
      BY <3>2 DEF GenuineInv, TypeInv, Positions
    <3> QED  BY <3>3, RequestFacts
  <2> QED  BY <1>1, <2>1 DEF GenuineInv, Genuine, Returned
<1>3. ASSUME NEW f \in Files PROVE Copies(q, f)' /\ Asked(q, f)'
  BY <1>1 DEF GenuineInv, Genuine, Copies, Asked, Own
<1> QED  BY <1>2, <1>3

LEMMA SubmittedStays ==
    ASSUME NEW r \in Requests, NEW f, NEW b, Submitted(r, f, b),
           req'[r] = req[r], pc'[r] \notin {"new", "arrived"},
           reply'[r].code # 400
    PROVE  Submitted(r, f, b)'
  BY DEF Submitted

(* The history keeps its sources when no content is new.                   *)
LEMMA SourcesStay ==
    ASSUME GenuineInv, Record, cm' = cm,
           \A q \in Requests, f \in Files :
               \A b \in served[f] : Submitted(q, f, b) => Submitted(q, f, b)'
    PROVE  \A f \in Files : Stores(f)' /\ Sources(f)'
<1> SUFFICES ASSUME NEW f \in Files PROVE Stores(f)' /\ Sources(f)'
  OBVIOUS
<1>1. served'[f] = served[f] /\ Kept(f)' = Kept(f)
  BY ServedGrows DEF Kept
<1>2. Stores(f)'
  BY <1>1 DEF GenuineInv, Genuine, Stores, Current, Archive
<1>3. Sources(f)'
  BY <1>1 DEF GenuineInv, Genuine, Sources, Original
<1> QED  BY <1>2, <1>3

LEMMA EmptyIsKept ==
    \A f \in Files : /\ EmptyMap[f] \in Kept(f)
                     /\ \A t \in Times : EmptyMap[<<f, t>>] \in Kept(f)
  BY KeyFacts DEF EmptyMap, Kept

-----------------------------------------------------------------------------
(* Again one lemma per shape of a step.                                    *)

LEMMA AnswerGenuine ==
    ASSUME GenuineInv, TypeInv', NEW r \in Requests, NEW code, NEW content,
           pc[r] \in Running, Answer(r, code, content),
           code = 400 => pc[r] = "arrived",
           code = 200 /\ req[r].op = "get" => content \subseteq served[req[r].file]
    PROVE  GenuineInv'
<1> USE DEF Answer
<1>1. pc \in [Requests -> Running \cup {"new", "done"}] /\ DOMAIN reply = Requests
      /\ DOMAIN call = Requests /\ DOMAIN cur = Requests /\ DOMAIN sav = Requests
  BY DEF GenuineInv, TypeInv, Types, StoreTypeOK
<1>2. req[r] \in RequestSet /\ req[r].file \in Files
  BY RequestFacts DEF GenuineInv, TypeInv, Positions, Running, Updating
<1>3. Returned(r)'
  <2>1. pc'[r] = "done" /\ reply'[r] = [code |-> code, content |-> content]
    BY <1>1
  <2> QED  BY <1>2, <2>1, ServedGrows DEF Returned, Running, Updating
<1>4. ASSUME NEW f \in Files PROVE Copies(r, f)' /\ Asked(r, f)'
  <2>1. cur'[r] = EmptyMap /\ sav'[r] = EmptyMap /\ call'[r].updated = EmptyMap
    BY <1>1 DEF NoCall
  <2> QED  BY <2>1, EmptyIsKept, ServedGrows DEF Copies, Asked
<1>5. ASSUME NEW q \in Requests, q # r
      PROVE  Returned(q)' /\ \A f \in Files : Copies(q, f)' /\ Asked(q, f)'
  BY <1>1, <1>5, Others
<1>6. ASSUME NEW q \in Requests, NEW f \in Files, NEW b \in served[f], Submitted(q, f, b)
      PROVE  Submitted(q, f, b)'
  BY <1>1, <1>6, SubmittedStays DEF Submitted
<1>7. \A f \in Files : Stores(f)' /\ Sources(f)'
  BY <1>6, SourcesStay
<1> QED  BY <1>3, <1>4, <1>5, <1>7 DEF GenuineInv, Genuine

LEMMA AskGenuine ==
    ASSUME GenuineInv, TypeInv', NEW r \in Requests, NEW n, NEW m,
           NEW next \in Updating, pc[r] \notin {"new", "arrived"}, pc[r] \in Running,
           Ask(r, n, m, next),
           \A f \in Files :
               /\ n = CurrentMap =>
                     m[f] \in Kept(f) \cup IF next \in {"replace", "create"} /\ req[r].file = f
                                           THEN {req[r].body} ELSE {}
               /\ n = VersionsMap => \A t \in Times : m[<<f, t>>] \in Kept(f)
    PROVE  GenuineInv'
<1> USE DEF Ask, BeginUpdate
<1>1. DOMAIN pc = Requests /\ DOMAIN call = Requests
  BY DEF GenuineInv, TypeInv, Types, StoreTypeOK
<1>2. pc'[r] = next /\ call'[r].name = n /\ call'[r].updated = m
  BY <1>1
<1>3. Returned(r)'
  <2>1. reply[r] = NoReply
    BY DEF GenuineInv, Genuine, Returned
  <2> QED  BY <2>1 DEF Returned, NoReply
<1>4. ASSUME NEW f \in Files PROVE Copies(r, f)' /\ Asked(r, f)'
  BY <1>2, ServedGrows DEF GenuineInv, Genuine, Copies, Asked, Own
<1>5. ASSUME NEW q \in Requests, q # r
      PROVE  Returned(q)' /\ \A f \in Files : Copies(q, f)' /\ Asked(q, f)'
  BY <1>1, <1>5, Others
<1>6. ASSUME NEW q \in Requests, NEW f \in Files, NEW b \in served[f], Submitted(q, f, b)
      PROVE  Submitted(q, f, b)'
  BY <1>1, <1>2, <1>6, SubmittedStays DEF Submitted, Updating
<1>7. \A f \in Files : Stores(f)' /\ Sources(f)'
  BY <1>6, SourcesStay
<1> QED  BY <1>3, <1>4, <1>5, <1>7 DEF GenuineInv, Genuine

(* The accepted PUT of an update is the only step that gives a file a      *)
(* content it never had: the body of the request that makes it.            *)
LEMMA UpdateGenuine ==
    ASSUME GenuineInv, TypeInv', NEW r \in Requests, UpdateMap(r) \/ UpdateMapFails(r)
    PROVE  GenuineInv'
<1>1. (UpdateStep(r) \/ UpdateFault(r)) /\ Record
      /\ UNCHANGED <<req, pc, cur, sav, reply, now>>
  BY DEF UpdateMap, UpdateMapFails
<1> DEFINE n == call[r].name
           m == call[r].updated
<1>2. StoreTypeOK /\ n \in Names /\ m \in MapData
  BY DEF GenuineInv, TypeInv, Types, StoreTypeOK, Calls
<1>3. pc[r] \in Updating
  BY <1>1, <1>2, UpdateFacts DEF GenuineInv, TypeInv, Positions, Active
<1>4. \A q \in Requests : call'[q].updated = call[q].updated /\ call'[q].name = call[q].name
  BY <1>1, <1>2, UpdateFacts DEF StoreTypeOK
<1>5. \A q \in Requests : /\ Returned(q)'
                          /\ \A f \in Files : Copies(q, f)' /\ Asked(q, f)'
  BY <1>1, <1>4, Others
<1>6. ASSUME NEW q \in Requests, NEW f, NEW b, Submitted(q, f, b)
      PROVE  Submitted(q, f, b)'
  BY <1>1, <1>6 DEF Submitted
<1>7. CASE cm' = cm
  BY <1>1, <1>5, <1>6, <1>7, SourcesStay DEF GenuineInv, Genuine
<1>8. CASE cm' = Stored(n, m)
  <2>1. ASSUME NEW f \in Files PROVE Stores(f)' /\ Sources(f)'
    <3>1. cm'[n].data = m /\ \A k \in Names : k # n => cm'[k] = cm[k]
      BY <1>2, <1>8, StoredFacts DEF StoreTypeOK
    <3>2. /\ Kept(f) \subseteq Kept(f)' /\ Current'[f] \in Kept(f)'
          /\ served'[f] \subseteq served[f] \cup {Current'[f]}
      BY <1>1, ServedGrows
    <3>3. \A t \in Times : Archive'[<<f, t>>] \in Kept(f)
      BY <3>1, MapNames DEF Archive, GenuineInv, Genuine, Stores, Asked
    <3>4. Current'[f] \in Kept(f) \cup Own(r, f)
      BY <3>1, MapNames DEF Current, GenuineInv, Genuine, Stores, Asked
    <3>5. Stores(f)'
      BY <3>2, <3>3 DEF Stores
    <3>6. ASSUME NEW b \in served'[f]
          PROVE  Original(f, b) \/ \E q \in Requests : Submitted(q, f, b)'
      <4>1. CASE b \in served[f]
        BY <4>1, <1>6 DEF GenuineInv, Genuine, Sources
      <4>2. CASE b \in Own(r, f)
        <5>1. pc[r] \in {"replace", "create"} /\ req[r].file = f /\ req[r].body = b
          BY <4>2 DEF Own
        <5>2. req[r].op = "put" /\ reply[r] = NoReply
          BY <5>1 DEF GenuineInv, TypeInv, Positions, Genuine, Returned, Running, Updating
        <5>3. Submitted(r, f, b)
          BY <5>1, <5>2 DEF Submitted, NoReply
        <5> QED  BY <5>3, <1>6
      <4>3. b \in {None, Blank} => b \in served[f]
        <5>1. Current'[f] # Blank
          BY MapNames DEF TypeInv, Shapes, Current, CurrentContent
        <5> QED  BY <1>1, <5>1 DEF Record
      <4> QED  BY <3>2, <3>4, <4>1, <4>2, <4>3 DEF Kept
    <3>7. Sources(f)'
      BY <3>6 DEF Sources, Original
    <3> QED  BY <3>5, <3>7
  <2> QED  BY <1>5, <2>1 DEF GenuineInv, Genuine
<1> QED  BY <1>1, <1>2, <1>7, <1>8, UpdateFacts

(* A step that only takes a copy of a map.                                 *)
LEMMA CopyGenuine ==
    ASSUME GenuineInv, TypeInv', NEW r \in Requests,
           (pc[r] = "arrived" /\ TakeCurrent(r)) \/ ReadSaved(r)
    PROVE  GenuineInv'
<1>0. /\ Record /\ pc[r] \in {"arrived", "readOne"}
      /\ pc' = [pc EXCEPT ![r] = IF pc[r] = "arrived" THEN "readOne" ELSE "readBoth"]
      /\ cur' \in {cur, [cur EXCEPT ![r] = Current]}
      /\ sav' \in {sav, [sav EXCEPT ![r] = Archive]}
      /\ UNCHANGED <<cm, call, req, reply, now>>
  BY DEF TakeCurrent, ReadSaved
<1>1. DOMAIN pc = Requests /\ DOMAIN cur = Requests /\ DOMAIN sav = Requests
  BY DEF GenuineInv, TypeInv, Types
<1>2. Returned(r)'
  <2>1. reply[r] = NoReply
    BY <1>0 DEF GenuineInv, Genuine, Returned, Running
  <2> QED  BY <1>0, <2>1 DEF Returned, NoReply
<1>3. ASSUME NEW f \in Files PROVE Copies(r, f)' /\ Asked(r, f)'
  <2>1. Kept(f) \subseteq Kept(f)' /\ Own(r, f) = {}
    BY <1>0, ServedGrows DEF Own
  <2>2. Copies(r, f)'
    BY <1>0, <1>1, <2>1 DEF GenuineInv, Genuine, Stores, Copies
  <2>3. Asked(r, f)'
    BY <1>0, <2>1 DEF GenuineInv, Genuine, Asked, Own
  <2> QED  BY <2>2, <2>3
<1>4. ASSUME NEW q \in Requests, q # r
      PROVE  Returned(q)' /\ \A f \in Files : Copies(q, f)' /\ Asked(q, f)'
  BY <1>0, <1>1, <1>4, Others
<1>5. ASSUME NEW q \in Requests, NEW f \in Files, NEW b \in served[f], Submitted(q, f, b)
      PROVE  Submitted(q, f, b)'
  BY <1>0, <1>1, <1>5, SubmittedStays DEF Submitted
<1>6. \A f \in Files : Stores(f)' /\ Sources(f)'
  BY <1>0, <1>5, SourcesStay
<1> QED  BY <1>2, <1>3, <1>4, <1>6 DEF GenuineInv, Genuine

LEMMA BackupGenuine ==
    ASSUME GenuineInv, TypeInv', NEW r \in Requests,
           req[r] \in RequestSet, pc[r] = "readBoth",
           NEW content \in Kept(req[r].file), Backup(r, content)
    PROVE  GenuineInv'
<1> DEFINE f == req[r].file
           saved == [sav[r] EXCEPT ![<<f, now>>] = content]
<1>1. PICK m \in Pruned(saved, f, now) : Ask(r, VersionsMap, m, "backup")
  BY DEF Backup
<1>2. sav[r] \in MapData
  BY DEF GenuineInv, TypeInv, Types, VersionContent
<1>3. \A g \in Files, t \in Times : saved[<<g, t>>] \in Kept(g)
  BY <1>2, KeyFacts DEF GenuineInv, Genuine, MapData, Copies
<1>4. \A g \in Files, t \in Times : m[<<g, t>>] \in Kept(g)
  <2>1. CASE m = saved
    BY <1>3, <2>1
  <2>2. ASSUME NEW S, m = Without(saved, S)
        PROVE  \A g \in Files, t \in Times : m[<<g, t>>] \in Kept(g)
    BY <1>3, <2>2, KeyFacts DEF Without, Kept
  <2> QED  BY <1>1, <2>1, <2>2 DEF Pruned
<1>5. CurrentMap # VersionsMap /\ pc[r] \in Running /\ pc[r] \notin {"new", "arrived"}
  BY MapNames DEF Running
<1> HIDE DEF f, saved
<1> QED  BY <1>1, <1>4, <1>5, AskGenuine DEF Updating

LEMMA ReplaceGenuine ==
    ASSUME GenuineInv, TypeInv', NEW r \in Requests, req[r] \in RequestSet,
           pc[r] \in {"readBoth", "backup"}, NEW next \in {"replace", "create"},
           Replace(r, next)
    PROVE  GenuineInv'
<1> DEFINE f == req[r].file
           m == [cur[r] EXCEPT ![f] = req[r].body]
<1>1. f \in Files /\ cur[r] \in MapData
  BY RequestFacts DEF GenuineInv, TypeInv, Types, CurrentContent
<1>2. \A g \in Files : m[g] \in Kept(g) \cup IF f = g THEN {req[r].body} ELSE {}
  BY <1>1, KeyFacts DEF GenuineInv, Genuine, Copies, MapData
<1>3. Ask(r, CurrentMap, m, next)
  BY DEF Replace
<1>4. CurrentMap # VersionsMap /\ pc[r] \in Running /\ pc[r] \notin {"new", "arrived"}
  BY MapNames DEF Running, Updating
<1>5. next \in Updating
  BY DEF Updating
<1> HIDE DEF m
<1> QED  BY <1>2, <1>3, <1>4, <1>5, AskGenuine

LEMMA CommonGenuine ==
    ASSUME GenuineInv, NEW r \in Requests, Common(r)
    PROVE  GenuineInv'
<1>1. TypeInv' /\ pc[r] \in Running
  BY CommonRuns, CommonTypes DEF GenuineInv
<1>2. CASE ReadFails(r) \/ PutIdentical(r) \/ UpdateError(r) \/ Finish(r)
  <2>1. PICK code : /\ Answer(r, code, {}) /\ code # 400
                    /\ code = 200 => req[r].op # "get"
    BY <1>2 DEF NoReply, ReadFails, PutIdentical, PutStart, UpdateError, Finish
  <2> QED  BY <1>1, <2>1, AnswerGenuine
<1>3. CASE ReadSaved(r)
  BY <1>1, <1>3, CopyGenuine
<1> QED  BY <1>1, <1>2, <1>3, UpdateGenuine DEF Common

(* The steps outside the handlers leave the store and every copy alone.    *)
LEMMA ArriveGenuine ==
    ASSUME GenuineInv, NEW r \in Requests, Arrive(r)
    PROVE  GenuineInv'
<1> USE DEF Arrive
<1>1. TypeInv' /\ DOMAIN pc = Requests /\ DOMAIN req = Requests
  BY ArriveTypes DEF GenuineInv, TypeInv, Types
<1>2. Returned(r)'
  <2>1. reply[r] = NoReply
    BY DEF GenuineInv, Genuine, Returned
  <2> QED  BY <2>1 DEF Returned, NoReply
<1>3. ASSUME NEW f \in Files PROVE Copies(r, f)' /\ Asked(r, f)'
  <2>1. Own(r, f) = {} /\ Own(r, f)' = {}
    BY <1>1 DEF Own
  <2> QED  BY <2>1, ServedGrows DEF GenuineInv, Genuine, Copies, Asked
<1>4. ASSUME NEW q \in Requests, q # r
      PROVE  Returned(q)' /\ \A f \in Files : Copies(q, f)' /\ Asked(q, f)'
  BY <1>1, <1>4, Others
<1>5. ASSUME NEW q \in Requests, NEW f \in Files, NEW b \in served[f], Submitted(q, f, b)
      PROVE  Submitted(q, f, b)'
  BY <1>1, <1>5, SubmittedStays DEF Submitted
<1>6. \A f \in Files : Stores(f)' /\ Sources(f)'
  BY <1>5, SourcesStay
<1> QED  BY <1>1, <1>2, <1>3, <1>4, <1>6 DEF GenuineInv, Genuine

LEMMA CrashGenuine == GenuineInv /\ Crash => GenuineInv'
<1> SUFFICES ASSUME GenuineInv, Crash PROVE GenuineInv'
  OBVIOUS
<1> USE DEF Crash
<1>1. TypeInv' /\ Record
  BY CrashTypes DEF GenuineInv
<1>2. ASSUME NEW q \in Requests, q \notin InFlight
      PROVE  Returned(q)' /\ \A f \in Files : Copies(q, f)' /\ Asked(q, f)'
  BY <1>1, <1>2, Others
<1>3. ASSUME NEW q \in InFlight
      PROVE  Returned(q)' /\ \A f \in Files : Copies(q, f)' /\ Asked(q, f)'
  <2>1. q \in Requests /\ reply'[q] = NoReply
    BY DEF InFlight, GenuineInv, Genuine, Returned
  <2>2. cur'[q] = EmptyMap /\ sav'[q] = EmptyMap /\ call'[q].updated = EmptyMap
    BY <2>1 DEF NoCall
  <2>3. Returned(q)'
    BY <2>1 DEF Returned, NoReply
  <2> QED  BY <2>2, <2>3, <1>1, EmptyIsKept, ServedGrows DEF Copies, Asked
<1>4. ASSUME NEW q \in Requests, NEW f \in Files, NEW b \in served[f], Submitted(q, f, b)
      PROVE  Submitted(q, f, b)'
  BY <1>1, <1>4, SubmittedStays DEF Submitted, InFlight
<1>5. \A f \in Files : Stores(f)' /\ Sources(f)'
  BY <1>1, <1>4, SourcesStay
<1> QED  BY <1>1, <1>2, <1>3, <1>5 DEF GenuineInv, Genuine

LEMMA TickGenuine == GenuineInv /\ Tick => GenuineInv'
<1> SUFFICES ASSUME GenuineInv, Tick PROVE GenuineInv'
  OBVIOUS
<1> USE DEF Tick
<1>1. TypeInv' /\ Record
  BY TickTypes DEF GenuineInv
<1>2. \A q \in Requests : Returned(q)' /\ \A f \in Files : Copies(q, f)' /\ Asked(q, f)'
  BY <1>1, Others
<1>3. \A f \in Files : Stores(f)' /\ Sources(f)'
  BY <1>1, SourcesStay DEF Submitted
<1> QED  BY <1>1, <1>2, <1>3 DEF GenuineInv, Genuine

LEMMA StutterGenuine == GenuineInv /\ UNCHANGED vars => GenuineInv'
<1> SUFFICES ASSUME GenuineInv, UNCHANGED vars PROVE GenuineInv'
  OBVIOUS
<1>1. TypeInv'
  BY StutterTypes DEF GenuineInv
<1>2. UNCHANGED <<cm, call, req, pc, cur, sav, reply, served>>
  BY DEF vars
<1>3. \A f \in Files : Stores(f)' /\ Sources(f)'
  <2>1. \A f \in Files : Stores(f)'
    BY <1>2 DEF GenuineInv, Genuine, Stores, Kept, Current, Archive
  <2>2. \A f \in Files : Sources(f)'
    BY <1>2 DEF GenuineInv, Genuine, Sources, Original, Submitted
  <2> QED  BY <2>1, <2>2
<1>4. ASSUME NEW r \in Requests
      PROVE  Returned(r)' /\ \A f \in Files : Copies(r, f)' /\ Asked(r, f)'
  <2>1. Returned(r)'
    BY <1>2 DEF GenuineInv, Genuine, Returned
  <2>2. ASSUME NEW f \in Files PROVE Copies(r, f)'
    BY <1>2 DEF GenuineInv, Genuine, Copies, Kept
  <2>3. ASSUME NEW f \in Files PROVE Asked(r, f)'
    BY <1>2 DEF GenuineInv, Genuine, Asked, Own, Kept
  <2> QED  BY <2>1, <2>2, <2>3
<1> QED  BY <1>1, <1>3, <1>4 DEF GenuineInv, Genuine

LEMMA InitGenuine == Init => GenuineInv
<1> SUFFICES ASSUME Init PROVE GenuineInv
  OBVIOUS
<1>1. PICK contents \in InitialContents : StoreInit(contents)
  BY DEF Init
<1>2. /\ Current = contents[CurrentMap] /\ Archive = contents[VersionsMap]
      /\ \A r \in Requests : call[r].updated = EmptyMap
  BY <1>1, MapNames DEF StoreInit, Current, Archive, NoCall
<1>3. \A f \in Files : served[f] = BodiesOf(f)
  BY DEF Init
<1>4. \A f \in Files : Stores(f)
  BY <1>3 DEF Stores, BodiesOf, Kept
<1>5. \A f \in Files : Sources(f)
  BY <1>2, <1>3 DEF BodiesOf, Sources, Original
<1>6. \A r \in Requests : Returned(r)
  BY DEF Init, Returned, NoReply
<1>7. \A r \in Requests, f \in Files : Copies(r, f) /\ Asked(r, f)
  BY <1>2, EmptyIsKept DEF Init, Copies, Asked
<1> QED  BY <1>4, <1>5, <1>6, <1>7, InitTypes DEF GenuineInv, Genuine

LEMMA GenuineInvIsEnough == GenuineInv => ContentsAreGenuine
<1> SUFFICES ASSUME GenuineInv PROVE ContentsAreGenuine
  OBVIOUS
<1>1. \A f \in Files : BodiesOf(f) \subseteq served[f]
  BY DEF GenuineInv, Genuine, Stores, Kept, BodiesOf
<1>2. \A r \in Requests :
          reply[r].code = 200 /\ req[r].op = "get" =>
              reply[r].content \subseteq served[req[r].file]
  BY DEF GenuineInv, Genuine, Returned
<1>3. ASSUME NEW f \in Files, NEW b \in served[f]
      PROVE  \/ Original(f, b)
             \/ \E r \in Requests : /\ pc[r] # "new" /\ req[r].op = "put"
                                    /\ req[r].file = f /\ req[r].body = b
                                    /\ reply[r].code # 400
  BY DEF GenuineInv, Genuine, Sources, Submitted
<1> QED  BY <1>1, <1>2, <1>3 DEF ContentsAreGenuine, Original

-----------------------------------------------------------------------------
(***************************************************************************)
(* The inductive invariant behind VersionsAreBounded: every content of the *)
(* versions map, in the store, copied, or on its way to the store, keeps   *)
(* to the limits, and has no version from after the time now.              *)
(***************************************************************************)
BoundedInv ==
    /\ TypeInv
    /\ Limited(Archive, now)
    /\ \A r \in Requests :
           /\ Limited(sav[r], now)
           /\ call[r].name = VersionsMap => Limited(call[r].updated, now)

LEMMA TimesFinite ==
    \A T \in SUBSET Times : IsFiniteSet(T) /\ Cardinality(T) \in Nat
<1>1. IsFiniteSet(Times)
  BY FS_Interval, VersionsAssumption DEF Times
<1> QED  BY <1>1, FS_Subset, FS_CardinalityType

(* There are no more times than keys with these times.                     *)
LEMMA TimesAndKeys ==
    ASSUME NEW f, NEW T \in SUBSET Times, NEW S, IsFiniteSet(S),
           \A t \in T : <<f, t>> \in S
    PROVE  Cardinality(T) <= Cardinality(S)
<1> DEFINE key == [t \in T |-> <<f, t>>]
<1>1. key \in Injection(T, S)
  BY DEF Injection, IsInjective
<1> QED  BY <1>1, FS_Injection

LEMMA MatchingFinite ==
    \A m, f : IsFiniteSet(Matching(m, f)) /\ Cardinality(Matching(m, f)) \in Nat
<1>1. IsFiniteSet(VersionKeys)
  BY TimesFinite, FilesAssumption, FS_Product DEF VersionKeys
<1>2. \A m, f : Matching(m, f) \in SUBSET VersionKeys
  BY DEF Matching
<1> QED  BY <1>1, <1>2, FS_Subset, FS_CardinalityType

(* Versions may be taken away.                                             *)
LEMMA FewerVersions ==
    ASSUME NEW m, NEW n, NEW latest \in Times, Limited(m, latest),
           \A f \in Files : TimesOf(n, f) \subseteq TimesOf(m, f)
    PROVE  Limited(n, latest)
<1> SUFFICES ASSUME NEW f \in Files, NEW t \in TimesOf(n, f)
             PROVE  /\ t <= latest
                    /\ Cardinality(After(n, f, t)) >= MaxBackupFiles =>
                           \A u \in TimesOf(n, f) : u - t < MaxBackupHours
  BY DEF Limited
<1>1. /\ After(n, f, t) \in SUBSET After(m, f, t)
      /\ After(m, f, t) \in SUBSET Times /\ After(n, f, t) \in SUBSET Times
  BY DEF After, TimesOf
<1>2. Cardinality(After(n, f, t)) <= Cardinality(After(m, f, t))
  BY <1>1, TimesFinite, FS_Subset
<1>3. Cardinality(After(n, f, t)) >= MaxBackupFiles =>
          Cardinality(After(m, f, t)) >= MaxBackupFiles
  BY <1>1, <1>2, TimesFinite, VersionsAssumption
<1> QED  BY <1>3 DEF Limited

LEMMA EmptyIsLimited == \A latest : Limited(EmptyMap, latest)
<1>1. \A f \in Files : TimesOf(EmptyMap, f) = {}
  BY KeyFacts DEF TimesOf, EmptyMap
<1> QED  BY <1>1 DEF Limited

LEMMA WithoutIsLimited ==
    ASSUME NEW m, NEW S, NEW latest \in Times, Limited(m, latest)
    PROVE  Limited(Without(m, S), latest)
<1>1. \A f \in Files : TimesOf(Without(m, S), f) \subseteq TimesOf(m, f)
  BY KeyFacts DEF TimesOf, Without
<1> QED  BY <1>1, FewerVersions

(* The pruning loop: saving one more version keeps to the limits.          *)
LEMMA PrunedIsLimited ==
    ASSUME NEW m \in MapData, NEW f \in Files, NEW latest \in Times,
           NEW content, Limited(m, latest),
           NEW p \in Pruned([m EXCEPT ![<<f, latest>>] = content], f, latest)
    PROVE  Limited(p, latest)
<1> DEFINE saved == [m EXCEPT ![<<f, latest>>] = content]
<1>1. \A g \in Files : TimesOf(saved, g) \subseteq
          TimesOf(m, g) \cup (IF g = f THEN {latest} ELSE {})
  BY KeyFacts DEF TimesOf, MapData
<1>2. \A g \in Files : TimesOf(p, g) \subseteq TimesOf(saved, g)
  BY KeyFacts DEF Pruned, TimesOf, Without
<1>3. ASSUME NEW g \in Files \ {f}, NEW t \in TimesOf(p, g)
      PROVE  /\ t <= latest
             /\ Cardinality(After(p, g, t)) >= MaxBackupFiles =>
                    \A u \in TimesOf(p, g) : u - t < MaxBackupHours
  <2> DEFINE q == [k \in Keys |-> IF k \in VersionKeys /\ k[1] = g THEN p[k] ELSE None]
  <2>1. TimesOf(q, g) = TimesOf(p, g)
    BY KeyFacts DEF TimesOf
  <2>2. \A h \in Files : TimesOf(q, h) \subseteq TimesOf(m, h)
    BY <1>1, <1>2, <2>1, KeyFacts DEF TimesOf
  <2> HIDE DEF q
  <2>3. Limited(q, latest)
    BY <2>2, FewerVersions
  <2> QED  BY <2>1, <2>3 DEF Limited, After
<1>4. ASSUME NEW t \in TimesOf(p, f) PROVE t <= latest
  <2>1. t = latest \/ t \in TimesOf(m, f)
    BY <1>1, <1>2
  <2>2. latest <= latest
    BY VersionsAssumption DEF Times
  <2> QED  BY <2>1, <2>2 DEF Limited
<1>5. ASSUME NEW t \in TimesOf(p, f), Cardinality(After(p, f, t)) >= MaxBackupFiles
      PROVE  latest - t < MaxBackupHours
  <2> DEFINE T == After(p, f, t)
             all == Matching(saved, f)
  <2>1. /\ t \in Times /\ t \notin T
        /\ T \in SUBSET Times /\ T \cup {t} \in SUBSET Times
    BY VersionsAssumption DEF TimesOf, After, Times
  <2>2. Cardinality(T \cup {t}) > MaxBackupFiles
    <3>1. Cardinality(T \cup {t}) = Cardinality(T) + 1
      BY <2>1, TimesFinite, FS_AddElement
    <3> QED  BY <1>5, <2>1, <3>1, TimesFinite, VersionsAssumption
  <2>3. \A u \in T \cup {t} : <<f, u>> \in all /\ u \in Times
    BY <1>2, <2>1, KeyFacts DEF After, TimesOf, Matching, VersionKeys
  <2>4. ASSUME NEW S \in SUBSET all, \A u \in T \cup {t} : <<f, u>> \in S
        PROVE  Cardinality(S) > MaxBackupFiles
    <3>1. IsFiniteSet(S) /\ Cardinality(S) \in Nat
      BY MatchingFinite, FS_Subset, FS_CardinalityType
    <3>2. Cardinality(T \cup {t}) <= Cardinality(S)
      BY <2>1, <2>4, <3>1, TimesAndKeys
    <3> QED  BY <2>1, <2>2, <3>1, <3>2, TimesFinite, VersionsAssumption
  <2>5. ~(Cardinality(all) <= MaxBackupFiles)
    <3>1. Cardinality(all) > MaxBackupFiles /\ Cardinality(all) \in Nat
      BY <2>3, <2>4, MatchingFinite, FS_CardinalityType
    <3> QED  BY <3>1, VersionsAssumption
  <2>6. PICK S \in Newest(saved, f) :
            p = Without(saved, {k \in all \ S : IsOldVersion(k, f, latest)})
    BY <2>5 DEF Pruned
  <2>7. /\ S \in SUBSET all /\ Cardinality(S) = MaxBackupFiles
        /\ \A k \in S, l \in all \ S : KeyTime(k, f) >= KeyTime(l, f)
    BY <2>6 DEF Newest
  <2>8. PICK u \in T \cup {t} : <<f, u>> \notin S
    <3>1. ~(Cardinality(S) > MaxBackupFiles)
      BY <2>7, VersionsAssumption
    <3> QED  BY <2>4, <2>7, <3>1
  <2>9. \A v : KeyTime(<<f, v>>, f) = v
    BY DEF KeyTime
  <2>10. <<f, t>> \notin S
    <3>1. CASE u = t
      BY <2>8, <3>1
    <3>2. CASE u \in T
      <4>1. u > t /\ ~(t >= u)
        BY <2>1, <3>2, VersionsAssumption DEF After, Times
      <4> QED  BY <2>3, <2>7, <2>8, <2>9, <4>1
    <3> QED  BY <2>8, <3>1, <3>2
  <2>11. ~IsOldVersion(<<f, t>>, f, latest)
    <3>1. p[<<f, t>>] # None /\ <<f, t>> \in Keys
      BY <2>1, KeyFacts DEF TimesOf
    <3> QED  BY <2>3, <2>6, <2>10, <3>1 DEF Without
  <2> QED  BY <2>1, <2>9, <2>11, VersionsAssumption DEF IsOldVersion, Times
<1>6. ASSUME NEW t \in TimesOf(p, f), Cardinality(After(p, f, t)) >= MaxBackupFiles,
             NEW u \in TimesOf(p, f)
      PROVE  u - t < MaxBackupHours
  <2>1. latest - t < MaxBackupHours /\ u <= latest
    BY <1>4, <1>5, <1>6
  <2>2. t \in Times /\ u \in Times
    BY DEF TimesOf
  <2> QED  BY <2>1, <2>2, VersionsAssumption DEF Times
<1> QED  BY <1>3, <1>4, <1>6 DEF Limited

-----------------------------------------------------------------------------
(* Every step copies, asks for or stores contents within the limits.       *)
LEMMA BoundedMoves ==
    ASSUME BoundedInv, TypeInv', now <= now',
           Archive' = Archive \/ Limited(Archive', now),
           \A r \in Requests : sav'[r] \in {sav[r], Archive, EmptyMap},
           \A r \in Requests :
               call'[r].name = VersionsMap =>
                   \/ call'[r].name = call[r].name /\ call'[r].updated = call[r].updated
                   \/ Limited(call'[r].updated, now)
    PROVE  BoundedInv'
<1>1. now \in Times /\ now' \in Times
  BY DEF BoundedInv, TypeInv, Types
<1>2. ASSUME NEW m, Limited(m, now) PROVE Limited(m, now')
  <2>1. \A f \in Files : \A t \in TimesOf(m, f) : t <= now => t <= now'
    BY <1>1, VersionsAssumption DEF TimesOf, Times
  <2> QED  BY <1>2, <2>1 DEF Limited
<1>3. Limited(Archive', now')
  BY <1>2 DEF BoundedInv
<1>4. \A r \in Requests : Limited(sav'[r], now')
  BY <1>2, EmptyIsLimited DEF BoundedInv
<1>5. \A r \in Requests :
          call'[r].name = VersionsMap => Limited(call'[r].updated, now')
  BY <1>2 DEF BoundedInv
<1> QED  BY <1>3, <1>4, <1>5 DEF BoundedInv

LEMMA AnswerBounded ==
    ASSUME BoundedInv, TypeInv', NEW r \in Requests, NEW code, NEW content,
           Answer(r, code, content)
    PROVE  BoundedInv'
<1>1. NoCall.updated = EmptyMap
  BY DEF NoCall
<1>2. /\ Archive' = Archive /\ now' = now
      /\ \A q \in Requests : /\ sav'[q] \in {sav[q], EmptyMap}
                             /\ call'[q] \in {call[q], NoCall}
  BY DEF Answer, Archive, BoundedInv, TypeInv, Types, StoreTypeOK
<1>3. now <= now'
  BY <1>2, VersionsAssumption DEF BoundedInv, TypeInv, Types, Times
<1> QED  BY <1>1, <1>2, <1>3, BoundedMoves, EmptyIsLimited

LEMMA AskBounded ==
    ASSUME BoundedInv, TypeInv', NEW r \in Requests, NEW n, NEW m, NEW next,
           Ask(r, n, m, next), n = VersionsMap => Limited(m, now)
    PROVE  BoundedInv'
<1>1. /\ Archive' = Archive /\ now' = now /\ sav' = sav
      /\ \A q \in Requests : \/ call'[q] = call[q]
                             \/ call'[q].name = n /\ call'[q].updated = m
  BY DEF Ask, BeginUpdate, Archive, BoundedInv, TypeInv, Types, StoreTypeOK
<1>2. now <= now'
  BY <1>1, VersionsAssumption DEF BoundedInv, TypeInv, Types, Times
<1> QED  BY <1>1, <1>2, BoundedMoves

LEMMA BackupBounded ==
    ASSUME BoundedInv, TypeInv', NEW r \in Requests, req[r] \in RequestSet,
           NEW content, Backup(r, content)
    PROVE  BoundedInv'
<1> DEFINE f == req[r].file
           saved == [sav[r] EXCEPT ![<<f, now>>] = content]
<1>1. PICK m \in Pruned(saved, f, now) : Ask(r, VersionsMap, m, "backup")
  BY DEF Backup
<1>2. sav[r] \in MapData /\ now \in Times /\ Limited(sav[r], now) /\ f \in Files
  BY RequestFacts DEF BoundedInv, TypeInv, Types, VersionContent
<1>3. Limited(m, now)
  BY <1>1, <1>2, PrunedIsLimited
<1> HIDE DEF f, saved
<1> QED  BY <1>1, <1>3, AskBounded

LEMMA UpdateBounded ==
    ASSUME BoundedInv, NEW r \in Requests, UpdateMap(r) \/ UpdateMapFails(r)
    PROVE  BoundedInv'
<1>1. /\ UpdateStep(r) \/ UpdateFault(r)
      /\ UNCHANGED <<req, pc, cur, sav, reply, now>>
  BY DEF UpdateMap, UpdateMapFails
<1>2. TypeInv' /\ StoreTypeOK /\ call[r].name \in Names /\ call[r].updated \in MapData
  BY UpdateTypes DEF BoundedInv, TypeInv, Types, StoreTypeOK, Calls
<1>3. \A q \in Requests : call'[q].updated = call[q].updated /\ call'[q].name = call[q].name
  BY <1>1, <1>2, UpdateFacts DEF StoreTypeOK
<1>4. Archive' = Archive \/ Limited(Archive', now)
  <2>1. CASE cm' = cm
    BY <2>1 DEF Archive
  <2>2. CASE cm' = Stored(call[r].name, call[r].updated)
    <3>1. /\ cm'[call[r].name].data = call[r].updated
          /\ \A k \in Names : k # call[r].name => cm'[k] = cm[k]
      BY <1>2, <2>2, StoredFacts DEF StoreTypeOK
    <3> QED  BY <1>2, <3>1, MapNames DEF Archive, BoundedInv
  <2> QED  BY <1>1, <1>2, <2>1, <2>2, UpdateFacts
<1>5. now <= now'
  BY <1>1, VersionsAssumption DEF BoundedInv, TypeInv, Types, Times
<1> QED  BY <1>1, <1>2, <1>3, <1>4, <1>5, BoundedMoves

(* A step that only takes a copy of a map.                                 *)
LEMMA CopyBounded ==
    ASSUME BoundedInv, TypeInv', NEW r \in Requests, TakeCurrent(r) \/ ReadSaved(r)
    PROVE  BoundedInv'
<1>1. /\ Archive' = Archive /\ now' = now /\ call' = call
      /\ \A q \in Requests : sav'[q] \in {sav[q], Archive}
  BY DEF TakeCurrent, ReadSaved, Archive, BoundedInv, TypeInv, Types
<1>2. now <= now'
  BY <1>1, VersionsAssumption DEF BoundedInv, TypeInv, Types, Times
<1> QED  BY <1>1, <1>2, BoundedMoves

LEMMA CommonBounded ==
    ASSUME BoundedInv, NEW r \in Requests, Common(r)
    PROVE  BoundedInv'
<1>1. TypeInv'
  BY CommonTypes DEF BoundedInv
<1>2. CASE ReadFails(r) \/ PutIdentical(r) \/ UpdateError(r) \/ Finish(r)
  BY <1>1, <1>2, AnswerBounded DEF NoReply, ReadFails, PutIdentical, UpdateError, Finish
<1>3. CASE ReadSaved(r)
  BY <1>1, <1>3, CopyBounded DEF ReadSaved
<1> QED  BY <1>1, <1>2, <1>3, UpdateBounded DEF Common

(* The steps outside the handlers.                                         *)
LEMMA OutsideBounded ==
    ASSUME BoundedInv, (\E r \in Requests : Arrive(r)) \/ Tick \/ Crash \/ UNCHANGED vars
    PROVE  BoundedInv'
<1>1. TypeInv' /\ NoCall.updated = EmptyMap
  BY ArriveTypes, TickTypes, CrashTypes, StutterTypes DEF BoundedInv, NoCall
<1>2. /\ Archive' = Archive
      /\ \A q \in Requests : /\ sav'[q] \in {sav[q], EmptyMap}
                             /\ call'[q] \in {call[q], NoCall}
  BY DEF Arrive, Tick, Crash, vars, Archive
<1>3. now <= now'
  BY VersionsAssumption
     DEF Arrive, Tick, Crash, vars, BoundedInv, TypeInv, Types, Times
<1> QED  BY <1>1, <1>2, <1>3, BoundedMoves, EmptyIsLimited

LEMMA InitBounded == Init => BoundedInv
<1> SUFFICES ASSUME Init PROVE BoundedInv
  OBVIOUS
<1>1. PICK contents \in InitialContents :
          StoreInit(contents) /\ Limited(contents[VersionsMap], now)
  BY DEF Init
<1>2. Archive = contents[VersionsMap]
  BY <1>1, MapNames DEF StoreInit, Archive
<1>4. Limited(Archive, now)
  BY <1>1, <1>2
<1>5. \A r \in Requests : sav[r] = EmptyMap /\ call[r].updated = EmptyMap
  BY <1>1 DEF Init, StoreInit, NoCall
<1> QED  BY <1>4, <1>5, InitTypes, EmptyIsLimited DEF BoundedInv

LEMMA BoundedInvIsEnough == BoundedInv => VersionsAreBounded
  BY DEF BoundedInv, Limited, TimesOf, After, VersionsAreBounded, Saved

-----------------------------------------------------------------------------
(***************************************************************************)
(* The inductive invariant behind AnswersAreTrue: what a handler concludes *)
(* from its copies, and from the updates that succeeded, it has witnessed. *)
(***************************************************************************)
Evidence(r) ==
    LET f     == req[r].file
        asked == call[r].updated
        known == witnessed[r]
        ok    == call[r].phase = "ok"
    IN  /\ pc[r] \in Running => Facts(r) \subseteq known
        /\ pc[r] \in {"readOne", "readBoth"} =>
               /\ cur[r][f] = req[r].body => "inForce" \in known
               /\ cur[r][f] = None => "missing" \in known
        /\ pc[r] = "backup" =>
               /\ call[r].name = VersionsMap
               /\ cur[r][f] # None =>
                      /\ \E t \in Times : asked[<<f, t>>] = cur[r][f]
                      /\ ok => "backedUp" \in known
        /\ pc[r] \in {"replace", "create"} =>
               /\ call[r].name = CurrentMap /\ asked[f] = req[r].body
               /\ pc[r] = "replace" => "backedUp" \in known
               /\ ok => "inForce" \in known
        /\ pc[r] = "remove" =>
               /\ call[r].name = CurrentMap /\ asked[f] = None
               /\ ok => "absent" \in known
        /\ pc[r] = "purge" =>
               /\ call[r].name = VersionsMap /\ Matching(asked, f) = {}
               /\ "absent" \in known
               /\ ok => "purged" \in known

TruthInv == TypeInv /\ \A r \in Requests : Evidence(r)

(* What the history gains for a request in progress.                       *)
LEMMA Witnessing ==
    ASSUME Record, NEW r \in Requests, pc'[r] \in Running
    PROVE  /\ witnessed[r] \subseteq witnessed'[r]
           /\ Facts(r)' \subseteq witnessed'[r]
           /\ Current'[req'[r].file] = req'[r].body => "inForce" \in witnessed'[r]
           /\ Current'[req'[r].file] = None => {"absent", "missing"} \subseteq witnessed'[r]
           /\ /\ cur'[r][req'[r].file] # None
              /\ \E t \in Times : Archive'[<<req'[r].file, t>>] = cur'[r][req'[r].file]
              => "backedUp" \in witnessed'[r]
           /\ Matching(Archive', req'[r].file) = {} => "purged" \in witnessed'[r]
<1>1. r \in InFlight'
  BY DEF InFlight
<1>2. witnessed'[r] = witnessed[r] \cup Facts(r)'
  BY <1>1 DEF Record
<1> HIDE DEF Record
<1> QED  BY <1>2 DEF Facts, Matching

(* A request that is not in progress needs no evidence, and one that has   *)
(* not moved keeps it.                                                     *)
LEMMA NoEvidence ==
    ASSUME NEW r \in Requests, pc'[r] \in {"new", "done"}
    PROVE  Evidence(r)'
  BY DEF Evidence, Running, Updating

LEMMA EvidenceStays ==
    ASSUME TruthInv, Record, NEW r \in Requests, req'[r] = req[r], pc'[r] = pc[r],
           cur'[r] = cur[r], call'[r] = call[r]
    PROVE  Evidence(r)'
<1>1. CASE pc'[r] \in Running
  <2>1. witnessed[r] \subseteq witnessed'[r] /\ Facts(r)' \subseteq witnessed'[r]
    BY <1>1, Witnessing
  <2> QED  BY <1>1, <2>1 DEF TruthInv, Evidence
<1>2. CASE pc'[r] \notin Running
  <2>1. pc[r] \in Running \cup {"new", "done"}
    BY DEF TruthInv, TypeInv, Types
  <2> QED  BY <1>2, <2>1, NoEvidence
<1> QED  BY <1>1, <1>2

-----------------------------------------------------------------------------
LEMMA AnswerEvident ==
    ASSUME TruthInv, TypeInv', NEW r \in Requests, NEW code, NEW content,
           Answer(r, code, content)
    PROVE  TruthInv'
<1>1. /\ DOMAIN pc = Requests /\ DOMAIN cur = Requests /\ DOMAIN call = Requests
      /\ Record
  BY DEF Answer, TruthInv, TypeInv, Types, StoreTypeOK
<1>2. Evidence(r)'
  BY <1>1, NoEvidence DEF Answer
<1>3. ASSUME NEW q \in Requests \ {r} PROVE Evidence(q)'
  BY <1>1, EvidenceStays DEF Answer
<1> QED  BY <1>2, <1>3 DEF TruthInv

LEMMA CopyEvident ==
    ASSUME TruthInv, TypeInv', NEW r \in Requests,
           (pc[r] = "arrived" /\ TakeCurrent(r)) \/ ReadSaved(r)
    PROVE  TruthInv'
<1>1. /\ DOMAIN pc = Requests /\ DOMAIN cur = Requests /\ DOMAIN sav = Requests
      /\ Record /\ UNCHANGED <<cm, call, req>>
  BY DEF TakeCurrent, ReadSaved, TruthInv, TypeInv, Types
<1>2. pc'[r] \in {"readOne", "readBoth"}
  BY <1>1 DEF TakeCurrent, ReadSaved
<1>3. Evidence(r)'
  <2>1. /\ witnessed[r] \subseteq witnessed'[r] /\ Facts(r)' \subseteq witnessed'[r]
        /\ Current'[req[r].file] = req[r].body => "inForce" \in witnessed'[r]
        /\ Current'[req[r].file] = None => "missing" \in witnessed'[r]
    BY <1>1, <1>2, Witnessing DEF Running
  <2>2. \/ cur'[r] = Current'
        \/ cur'[r] = cur[r] /\ pc[r] = "readOne"
    BY <1>1 DEF TakeCurrent, ReadSaved, Current
  <2>3. /\ cur'[r][req[r].file] = req[r].body => "inForce" \in witnessed'[r]
        /\ cur'[r][req[r].file] = None => "missing" \in witnessed'[r]
    BY <2>1, <2>2 DEF TruthInv, Evidence
  <2> QED  BY <1>1, <1>2, <2>1, <2>3 DEF Evidence
<1>4. ASSUME NEW q \in Requests \ {r} PROVE Evidence(q)'
  BY <1>1, EvidenceStays DEF TakeCurrent, ReadSaved
<1> QED  BY <1>3, <1>4 DEF TruthInv

LEMMA AskEvident ==
    ASSUME TruthInv, TypeInv', NEW r \in Requests, NEW n, NEW m, NEW next \in Updating,
           Ask(r, n, m, next),
           next = "backup" =>
               /\ n = VersionsMap
               /\ cur[r][req[r].file] # None =>
                      \E t \in Times : m[<<req[r].file, t>>] = cur[r][req[r].file],
           next \in {"replace", "create"} => n = CurrentMap /\ m[req[r].file] = req[r].body,
           next = "replace" => "backedUp" \in witnessed[r],
           next = "remove" => n = CurrentMap /\ m[req[r].file] = None,
           next = "purge" => /\ n = VersionsMap /\ Matching(m, req[r].file) = {}
                             /\ "absent" \in witnessed[r]
    PROVE  TruthInv'
<1>1. /\ DOMAIN pc = Requests /\ DOMAIN call = Requests
      /\ Record /\ UNCHANGED <<req, cur>>
  BY DEF Ask, TruthInv, TypeInv, Types, StoreTypeOK
<1>2. /\ pc'[r] = next /\ call'[r].name = n /\ call'[r].updated = m
      /\ call'[r].phase # "ok"
  BY <1>1 DEF Ask, BeginUpdate
<1>3. witnessed[r] \subseteq witnessed'[r] /\ Facts(r)' \subseteq witnessed'[r]
  BY <1>1, <1>2, Witnessing DEF Running
<1>4. next \notin {"readOne", "readBoth"}
  BY DEF Updating
<1>5. Evidence(r)'
  BY <1>1, <1>2, <1>3, <1>4 DEF Evidence
<1>6. ASSUME NEW q \in Requests \ {r} PROVE Evidence(q)'
  BY <1>1, EvidenceStays DEF Ask, BeginUpdate
<1> QED  BY <1>5, <1>6 DEF TruthInv

(* The version just saved is never pruned.                                 *)
LEMMA SavedIsSpared ==
    ASSUME NEW m \in MapData, NEW f \in Files, NEW latest \in Times, NEW content,
           NEW p \in Pruned([m EXCEPT ![<<f, latest>>] = content], f, latest)
    PROVE  p[<<f, latest>>] = content
<1> DEFINE key   == <<f, latest>>
           saved == [m EXCEPT ![key] = content]
<1>1. key \in Keys /\ saved[key] = content
  BY KeyFacts DEF MapData
<1>2. ~IsOldVersion(key, f, latest)
  BY VersionsAssumption DEF IsOldVersion, KeyTime, Times
<1>3. p = saved \/ \E S : p = Without(saved, {k \in S : IsOldVersion(k, f, latest)})
  BY DEF Pruned
<1> QED  BY <1>1, <1>2, <1>3 DEF Without

LEMMA BackupEvident ==
    ASSUME TruthInv, TypeInv', NEW r \in Requests, req[r] \in RequestSet,
           NEW content, Backup(r, content),
           cur[r][req[r].file] # None => content = cur[r][req[r].file]
    PROVE  TruthInv'
<1> DEFINE f == req[r].file
           saved == [sav[r] EXCEPT ![<<f, now>>] = content]
<1>1. PICK m \in Pruned(saved, f, now) : Ask(r, VersionsMap, m, "backup")
  BY DEF Backup
<1>2. sav[r] \in MapData /\ now \in Times /\ f \in Files
  BY RequestFacts DEF TruthInv, TypeInv, Types, VersionContent
<1>3. m[<<f, now>>] = content
  BY <1>1, <1>2, SavedIsSpared
<1>4. "backup" \in Updating /\ "backup" \notin {"replace", "create", "remove", "purge"}
  BY DEF Updating
<1>5. cur[r][f] # None => \E t \in Times : m[<<f, t>>] = cur[r][f]
  BY <1>2, <1>3
<1> HIDE DEF f, saved
<1> QED  BY <1>1, <1>4, <1>5, AskEvident DEF f

LEMMA ReplaceEvident ==
    ASSUME TruthInv, TypeInv', NEW r \in Requests, req[r] \in RequestSet,
           NEW next \in {"replace", "create"}, Replace(r, next),
           next = "replace" => "backedUp" \in witnessed[r]
    PROVE  TruthInv'
<1>1. cur[r] \in MapData /\ req[r].file \in Keys
  BY RequestFacts, KeyFacts DEF TruthInv, TypeInv, Types, CurrentContent
<1>2. [cur[r] EXCEPT ![req[r].file] = req[r].body][req[r].file] = req[r].body
  BY <1>1 DEF MapData
<1> QED  BY <1>2, AskEvident DEF Replace, Updating

LEMMA UpdateEvident ==
    ASSUME TruthInv, NEW r \in Requests, UpdateMap(r) \/ UpdateMapFails(r)
    PROVE  TruthInv'
<1>1. /\ UpdateStep(r) \/ UpdateFault(r)
      /\ UNCHANGED <<req, pc, cur, sav, reply, now>> /\ Record
  BY DEF UpdateMap, UpdateMapFails
<1>2. TypeInv' /\ TypeInv /\ StoreTypeOK /\ pc[r] \in Updating
  BY UpdateTypes, UpdateRuns DEF TruthInv, TypeInv, Types
<1>3. /\ call'[r].updated = call[r].updated /\ call'[r].name = call[r].name
      /\ \A q \in Requests \ {r} : call'[q] = call[q]
  BY <1>1, <1>2, UpdateFacts DEF StoreTypeOK
<1>4. ASSUME NEW q \in Requests \ {r} PROVE Evidence(q)'
  BY <1>1, <1>3, EvidenceStays
<1> DEFINE f == req[r].file
           asked == call[r].updated
<1>5. /\ witnessed[r] \subseteq witnessed'[r] /\ Facts(r)' \subseteq witnessed'[r]
      /\ Current'[f] = req[r].body => "inForce" \in witnessed'[r]
      /\ Current'[f] = None => "absent" \in witnessed'[r]
      /\ /\ cur[r][f] # None
         /\ \E t \in Times : Archive'[<<f, t>>] = cur[r][f]
         => "backedUp" \in witnessed'[r]
      /\ Matching(Archive', f) = {} => "purged" \in witnessed'[r]
  BY <1>1, <1>2, Witnessing DEF Running
<1>6. call'[r].phase = "ok" =>
          /\ call[r].name = CurrentMap => Current' = asked
          /\ call[r].name = VersionsMap => Archive' = asked
  BY <1>1, <1>2, SuccessIsSeen DEF Current, Archive
<1>7. Evidence(r)'
  <2>1. Evidence(r)
    BY DEF TruthInv
  <2>2. CASE pc[r] = "backup"
    BY <1>1, <1>3, <1>5, <1>6, <2>1, <2>2 DEF Evidence
  <2>3. CASE pc[r] \in {"replace", "create"}
    BY <1>1, <1>3, <1>5, <1>6, <2>1, <2>3 DEF Evidence
  <2>4. CASE pc[r] = "remove"
    BY <1>1, <1>3, <1>5, <1>6, <2>1, <2>4 DEF Evidence
  <2>5. CASE pc[r] = "purge"
    BY <1>1, <1>3, <1>5, <1>6, <2>1, <2>5 DEF Evidence
  <2> QED  BY <1>2, <2>2, <2>3, <2>4, <2>5 DEF Updating
<1> QED  BY <1>2, <1>4, <1>7 DEF TruthInv

LEMMA CommonEvident ==
    ASSUME TruthInv, NEW r \in Requests, Common(r)
    PROVE  TruthInv'
<1>1. TypeInv'
  BY CommonTypes DEF TruthInv
<1>2. CASE ReadFails(r) \/ PutIdentical(r) \/ UpdateError(r) \/ Finish(r)
  BY <1>1, <1>2, AnswerEvident DEF NoReply, ReadFails, PutIdentical, UpdateError, Finish
<1>3. CASE ReadSaved(r)
  BY <1>1, <1>3, CopyEvident
<1> QED  BY <1>2, <1>3, UpdateEvident DEF Common

LEMMA OutsideEvident ==
    ASSUME TruthInv, (\E r \in Requests : Arrive(r)) \/ Tick \/ Crash \/ UNCHANGED vars
    PROVE  TruthInv'
<1>1. TypeInv'
  BY ArriveTypes, TickTypes, CrashTypes, StutterTypes DEF TruthInv
<1>2. DOMAIN pc = Requests /\ DOMAIN req = Requests
  BY DEF TruthInv, TypeInv, Types
<1>3. ASSUME NEW r \in Requests, Arrive(r), NEW q \in Requests PROVE Evidence(q)'
  <2>1. CASE q = r
    <3>1. pc'[q] = "arrived" /\ Record
      BY <1>2, <1>3, <2>1 DEF Arrive
    <3>2. Facts(q)' \subseteq witnessed'[q]
      BY <3>1, Witnessing DEF Running
    <3> QED  BY <3>1, <3>2 DEF Evidence
  <2>2. CASE q # r
    BY <1>2, <1>3, <2>2, EvidenceStays DEF Arrive
  <2> QED  BY <2>1, <2>2
<1>4. ASSUME Tick, NEW q \in Requests PROVE Evidence(q)'
  BY <1>4, EvidenceStays DEF Tick
<1>5. ASSUME Crash, NEW q \in Requests PROVE Evidence(q)'
  <2>1. CASE q \in InFlight
    BY <1>5, <2>1, NoEvidence DEF Crash
  <2>2. CASE q \notin InFlight
    BY <1>5, <2>2, EvidenceStays DEF Crash
  <2> QED  BY <2>1, <2>2
<1>6. ASSUME UNCHANGED vars, NEW q \in Requests PROVE Evidence(q)'
  <2>1. Facts(q)' = Facts(q)
    BY <1>6 DEF vars, Facts, Current, Archive, Matching
  <2> QED  BY <1>6, <2>1 DEF vars, TruthInv, Evidence
<1> QED  BY <1>1, <1>3, <1>4, <1>5, <1>6 DEF TruthInv

LEMMA InitEvident == Init => TruthInv
<1> SUFFICES ASSUME Init PROVE TruthInv
  OBVIOUS
<1>1. \A r \in Requests : Evidence(r)
  BY DEF Init, Evidence, Running, Updating
<1> QED  BY <1>1, InitTypes DEF TruthInv

-----------------------------------------------------------------------------
(* The answers.                                                            *)
AnswersTrueNow == \A r \in Requests : Answered(r) => Promised(r) \subseteq witnessed[r]

LEMMA SilenceIsTrue ==
    ASSUME reply' = reply
    PROVE  AnswersTrueNow
  BY DEF AnswersTrueNow, Answered

LEMMA AnswerIsTrue ==
    ASSUME TypeInv, NEW r \in Requests, NEW code, NEW content, Answer(r, code, content),
           code = 202 =>
               \/ pc[r] = "replace" /\ {"inForce", "backedUp"} \subseteq witnessed[r]
               \/ pc[r] = "create" /\ "inForce" \in witnessed[r]
               \/ pc[r] = "purge" /\ {"absent", "purged"} \subseteq witnessed[r],
           code = 200 /\ req[r].op = "put" => "inForce" \in witnessed[r],
           code = 404 => "missing" \in witnessed[r]
    PROVE  AnswersTrueNow
<1>1. /\ reply'[r].code = code
      /\ \A q \in Requests \ {r} : reply'[q] = reply[q]
  BY DEF TypeInv, Types, Answer
<1>2. \A q \in Requests : Answered(q) => q = r
  BY <1>1 DEF Answered
<1>3. Promised(r) \subseteq witnessed[r]
  BY <1>1 DEF Promised
<1> QED  BY <1>2, <1>3 DEF AnswersTrueNow

LEMMA CommonIsTrue ==
    ASSUME TruthInv, NEW r \in Requests, Common(r)
    PROVE  AnswersTrueNow
<1>1. TypeInv /\ Evidence(r)
  BY DEF TruthInv
<1>2. CASE ReadFails(r) \/ UpdateError(r)
  BY <1>1, <1>2, AnswerIsTrue DEF NoReply, ReadFails, UpdateError
<1>3. CASE PutIdentical(r)
  <2>1. "inForce" \in witnessed[r]
    BY <1>1, <1>3 DEF PutIdentical, PutStart, Evidence
  <2> QED  BY <1>1, <1>3, <2>1, AnswerIsTrue DEF PutIdentical
<1>4. CASE Finish(r)
  <2>1. \/ pc[r] = "replace" /\ {"inForce", "backedUp"} \subseteq witnessed[r]
        \/ pc[r] = "create" /\ "inForce" \in witnessed[r]
        \/ pc[r] = "purge" /\ {"absent", "purged"} \subseteq witnessed[r]
    BY <1>1, <1>4 DEF Finish, Updated, Evidence
  <2> QED  BY <1>1, <1>4, <2>1, AnswerIsTrue DEF Finish
<1>5. CASE ReadSaved(r) \/ UpdateMap(r) \/ UpdateMapFails(r)
  BY <1>5, SilenceIsTrue DEF ReadSaved, UpdateMap, UpdateMapFails
<1> QED  BY <1>2, <1>3, <1>4, <1>5 DEF Common

LEMMA OutsideIsTrue ==
    ASSUME (\E r \in Requests : Arrive(r)) \/ Tick \/ Crash \/ UNCHANGED vars
    PROVE  AnswersTrueNow
  BY SilenceIsTrue DEF Arrive, Tick, Crash, vars

-----------------------------------------------------------------------------
(***************************************************************************)
(* The inductive invariant behind the properties of requests that come one *)
(* by one: the copies of the one request in progress are not stale, and an *)
(* update that waits to be applied finds its map as its handler knows it.  *)
(***************************************************************************)

(* What a PUT saves: the text it found, the empty one if it found none.    *)
FoundText(r) ==
    LET found == cur[r][req[r].file] IN IF found = None THEN Blank ELSE found

(* No version of f is younger than u.                                      *)
NoneYounger(m, f, u) == \A t \in TimesOf(m, f) : t <= u

Fresh(r) ==
    LET f     == req[r].file
        asked == call[r].updated
        waits == call[r].phase \in {"get", "put"}
        ok    == call[r].phase = "ok"
    IN  /\ pc[r] \in {"readOne", "readBoth", "backup"} => cur[r] = Current
        /\ pc[r] \in {"readBoth", "remove"} => sav[r] = Archive
        /\ pc[r] = "backup" =>
               /\ call[r].name = VersionsMap
               /\ \E u \in 0..now :
                      /\ asked \in Pruned([sav[r] EXCEPT ![<<f, u>>] = FoundText(r)], f, u)
                      /\ NoneYounger(sav[r], f, u)
               /\ waits => sav[r] = Archive
               /\ ok => Archive = asked
        /\ pc[r] \in {"replace", "create"} =>
               /\ call[r].name = CurrentMap /\ asked = [cur[r] EXCEPT ![f] = req[r].body]
               /\ waits => cur[r] = Current
               /\ ok => Current = asked
        /\ pc[r] = "create" => cur[r][f] = None
        /\ pc[r] = "replace" =>
               /\ cur[r][f] # None
               /\ \E u \in Times : /\ Archive[<<f, u>>] = cur[r][f]
                                    /\ NoneYounger(Archive, f, u)
        /\ pc[r] = "remove" =>
               /\ call[r].name = CurrentMap /\ asked = Without(cur[r], {f})
               /\ waits => cur[r] = Current
               /\ ok => Current = asked
        /\ pc[r] = "purge" =>
               /\ call[r].name = VersionsMap
               /\ asked = Without(sav[r], Matching(sav[r], f))
               /\ Current[f] = None
               /\ waits => sav[r] = Archive
               /\ ok => Archive = asked

FreshInv == BoundedInv /\ OneInFlight /\ \A r \in Requests : Fresh(r)

-----------------------------------------------------------------------------
(* What does not concern the request in progress.                          *)

LEMMA NotFreshYet ==
    ASSUME NEW q \in Requests, pc'[q] \in {"new", "arrived", "done"}
    PROVE  Fresh(q)'
  BY DEF Fresh

LEMMA Bystander ==
    ASSUME FreshInv, NEW r \in Requests, pc[r] \in Running,
           NEW q \in Requests \ {r}, pc'[q] = pc[q]
    PROVE  Fresh(q)'
<1>1. pc[q] \notin Running
  BY DEF FreshInv, OneInFlight, InFlight
<1>2. pc[q] \in {"new", "done"}
  BY <1>1 DEF FreshInv, BoundedInv, TypeInv, Types
<1> QED  BY <1>2, NotFreshYet

LEMMA NobodyArrives ==
    ASSUME FreshInv, \A q \in Requests : pc'[q] \in Running => pc[q] \in Running
    PROVE  OneInFlight'
  BY DEF FreshInv, OneInFlight, InFlight

-----------------------------------------------------------------------------
LEMMA AnswerFresh ==
    ASSUME FreshInv, BoundedInv', NEW r \in Requests, pc[r] \in Running,
           NEW code, NEW content, Answer(r, code, content)
    PROVE  FreshInv'
<1>1. pc' = [pc EXCEPT ![r] = "done"] /\ DOMAIN pc = Requests
  BY DEF Answer, FreshInv, BoundedInv, TypeInv, Types
<1>2. OneInFlight'
  BY <1>1, NobodyArrives DEF Running, Updating
<1>3. Fresh(r)'
  BY <1>1, NotFreshYet
<1>4. ASSUME NEW q \in Requests \ {r} PROVE Fresh(q)'
  BY <1>1, Bystander
<1> QED  BY <1>2, <1>3, <1>4 DEF FreshInv

LEMMA CopyFresh ==
    ASSUME FreshInv, BoundedInv', NEW r \in Requests,
           (pc[r] = "arrived" /\ TakeCurrent(r)) \/ ReadSaved(r)
    PROVE  FreshInv'
<1>1. /\ DOMAIN pc = Requests /\ DOMAIN cur = Requests /\ DOMAIN sav = Requests
      /\ UNCHANGED <<cm, call, req>> /\ pc[r] \in Running
  BY DEF TakeCurrent, ReadSaved, FreshInv, BoundedInv, TypeInv, Types, Running
<1>2. OneInFlight' /\ \A q \in Requests \ {r} : pc'[q] = pc[q]
  <2>1. \A q \in Requests \ {r} : pc'[q] = pc[q]
    BY <1>1 DEF TakeCurrent, ReadSaved
  <2> QED  BY <1>1, <2>1, NobodyArrives
<1>3. Fresh(r)'
  <2>1. CASE TakeCurrent(r)
    BY <1>1, <2>1 DEF TakeCurrent, Fresh, Current
  <2>2. CASE ReadSaved(r)
    <3>1. cur[r] = Current
      BY <2>2 DEF ReadSaved, FreshInv, Fresh
    <3> QED  BY <1>1, <2>2, <3>1 DEF ReadSaved, Fresh, Current, Archive
  <2> QED  BY <2>1, <2>2
<1>4. ASSUME NEW q \in Requests \ {r} PROVE Fresh(q)'
  BY <1>1, <1>2, Bystander
<1> QED  BY <1>2, <1>3, <1>4 DEF FreshInv

(* The handler asks for an update, and is as Fresh demands of the next     *)
(* position.                                                               *)
LEMMA AskFresh ==
    ASSUME FreshInv, BoundedInv', NEW r \in Requests, pc[r] \in Running,
           NEW n, NEW m, NEW next \in Updating, Ask(r, n, m, next),
           next = "backup" =>
               /\ n = VersionsMap /\ cur[r] = Current /\ sav[r] = Archive
               /\ \E u \in 0..now :
                      /\ m \in Pruned([sav[r] EXCEPT ![<<req[r].file, u>>] = FoundText(r)],
                                      req[r].file, u)
                      /\ NoneYounger(sav[r], req[r].file, u),
           next \in {"replace", "create"} =>
               /\ n = CurrentMap /\ m = [cur[r] EXCEPT ![req[r].file] = req[r].body]
               /\ cur[r] = Current,
           next = "create" => cur[r][req[r].file] = None,
           next = "replace" =>
               /\ cur[r][req[r].file] # None
               /\ \E u \in Times : /\ Archive[<<req[r].file, u>>] = cur[r][req[r].file]
                                    /\ NoneYounger(Archive, req[r].file, u),
           next = "remove" =>
               /\ n = CurrentMap /\ m = Without(cur[r], {req[r].file})
               /\ cur[r] = Current /\ sav[r] = Archive,
           next = "purge" =>
               /\ n = VersionsMap /\ m = Without(sav[r], Matching(sav[r], req[r].file))
               /\ Current[req[r].file] = None /\ sav[r] = Archive
    PROVE  FreshInv'
<1>1. /\ DOMAIN pc = Requests /\ DOMAIN call = Requests
      /\ UNCHANGED <<cm, req, cur, sav, now>>
      /\ pc' = [pc EXCEPT ![r] = next]
  BY DEF Ask, FreshInv, BoundedInv, TypeInv, Types, StoreTypeOK
<1>2. call'[r].phase = "get" /\ call'[r].name = n /\ call'[r].updated = m
  BY <1>1 DEF Ask, BeginUpdate
<1>3. OneInFlight' /\ \A q \in Requests \ {r} : pc'[q] = pc[q]
  <2>1. \A q \in Requests \ {r} : pc'[q] = pc[q]
    BY <1>1
  <2> QED  BY <2>1, NobodyArrives
<1>4. Current' = Current /\ Archive' = Archive /\ FoundText(r)' = FoundText(r)
  BY <1>1 DEF Current, Archive, FoundText
<1>5. Fresh(r)'
  <2>1. pc'[r] = next /\ pc'[r] \notin {"readOne", "readBoth"}
    BY <1>1 DEF Updating
  <2> QED  BY <1>1, <1>2, <1>4, <2>1 DEF Fresh, NoneYounger, TimesOf
<1>6. ASSUME NEW q \in Requests \ {r} PROVE Fresh(q)'
  BY <1>3, Bystander
<1> QED  BY <1>3, <1>5, <1>6 DEF FreshInv

LEMMA BackupFresh ==
    ASSUME FreshInv, BoundedInv', NEW r \in Requests, pc[r] = "readBoth",
           req[r] \in RequestSet, Backup(r, FoundText(r))
    PROVE  FreshInv'
<1> DEFINE f == req[r].file
           saved == [sav[r] EXCEPT ![<<f, now>>] = FoundText(r)]
<1>1. PICK m \in Pruned(saved, f, now) : Ask(r, VersionsMap, m, "backup")
  BY DEF Backup
<1>2. cur[r] = Current /\ sav[r] = Archive
  BY DEF FreshInv, Fresh
<1>3. now \in 0..now /\ NoneYounger(sav[r], f, now)
  <2>1. f \in Files /\ now \in Times /\ Limited(sav[r], now)
    BY RequestFacts DEF FreshInv, BoundedInv, TypeInv, Types
  <2> QED  BY <2>1, VersionsAssumption DEF Limited, NoneYounger, Times
<1>4. /\ "backup" \in Updating
      /\ "backup" \notin {"replace", "create", "remove", "purge"} /\ pc[r] \in Running
  BY DEF Updating, Running
<1>5. \E u \in 0..now : /\ m \in Pruned([sav[r] EXCEPT ![<<f, u>>] = FoundText(r)], f, u)
                        /\ NoneYounger(sav[r], f, u)
  BY <1>3
<1> HIDE DEF f, saved
<1> QED  BY <1>1, <1>2, <1>4, <1>5, AskFresh DEF f

(* The time at which a pruned map was saved has the text that was found.   *)
LEMMA BackupIsNewest ==
    ASSUME FreshInv, NEW r \in Requests, req[r].file \in Files,
           Updated(r, "backup")
    PROVE  \E u \in Times : /\ Archive[<<req[r].file, u>>] = FoundText(r)
                            /\ NoneYounger(Archive, req[r].file, u)
<1> DEFINE f == req[r].file
           SavedAt(u) == [sav[r] EXCEPT ![<<f, u>>] = FoundText(r)]
<1>1. PICK u \in 0..now : Archive \in Pruned(SavedAt(u), f, u) /\ NoneYounger(sav[r], f, u)
  BY DEF Updated, FreshInv, Fresh
<1>2. u \in Times /\ sav[r] \in MapData
  BY VersionsAssumption
     DEF FreshInv, BoundedInv, TypeInv, Types, VersionContent, Times
<1>3. Archive[<<f, u>>] = FoundText(r)
  BY <1>1, <1>2, SavedIsSpared
<1>4. ASSUME NEW t \in TimesOf(Archive, f) PROVE t <= u
  <2>1. t \in TimesOf(SavedAt(u), f)
    BY <1>1, KeyFacts DEF Pruned, TimesOf, Without
  <2>2. t = u \/ t \in TimesOf(sav[r], f)
    BY <1>2, <2>1, KeyFacts DEF TimesOf, MapData
  <2> QED  BY <1>1, <1>2, <2>2, VersionsAssumption DEF NoneYounger, Times
<1> QED  BY <1>2, <1>3, <1>4 DEF NoneYounger

LEMMA ReplaceFresh ==
    ASSUME FreshInv, BoundedInv', NEW r \in Requests, req[r] \in RequestSet,
           NEW next \in {"replace", "create"}, Replace(r, next),
           next = "replace" => Updated(r, "backup") /\ cur[r][req[r].file] # None,
           next = "create" => pc[r] = "readBoth" /\ cur[r][req[r].file] = None
    PROVE  FreshInv'
<1>1. pc[r] \in {"readBoth", "backup"} /\ pc[r] \in Running
  BY DEF Updated, Running, Updating
<1>2. cur[r] = Current
  BY <1>1 DEF FreshInv, Fresh
<1>3. next = "replace" =>
          \E u \in Times : /\ Archive[<<req[r].file, u>>] = cur[r][req[r].file]
                           /\ NoneYounger(Archive, req[r].file, u)
  BY BackupIsNewest, RequestFacts DEF FoundText
<1> QED  BY <1>1, <1>2, <1>3, AskFresh DEF Replace, Updating

LEMMA UpdateFresh ==
    ASSUME FreshInv, BoundedInv', NEW r \in Requests, UpdateMap(r) \/ UpdateMapFails(r)
    PROVE  FreshInv'
<1>1. /\ UpdateStep(r) \/ UpdateFault(r)
      /\ UNCHANGED <<req, pc, cur, sav, reply, now>>
  BY DEF UpdateMap, UpdateMapFails
<1>2. StoreTypeOK /\ pc[r] \in Updating /\ TypeInv
  BY UpdateRuns DEF FreshInv, BoundedInv, TypeInv, Types
<1>3. call'[r].updated = call[r].updated /\ call'[r].name = call[r].name
  BY <1>1, <1>2, UpdateFacts
<1>4. /\ call[r].name # CurrentMap => Current' = Current
      /\ call[r].name # VersionsMap => Archive' = Archive
      /\ call'[r].phase \in {"get", "put"} =>
             /\ Current' = Current /\ Archive' = Archive
             /\ call[r].phase \in {"get", "put"}
      /\ call'[r].phase = "ok" =>
             /\ call[r].name = CurrentMap => Current' = call[r].updated
             /\ call[r].name = VersionsMap => Archive' = call[r].updated
  BY <1>1, <1>2, CallProgress, MapNames DEF Current, Archive
<1>5. FoundText(r)' = FoundText(r) /\ Fresh(r)
  BY <1>1 DEF FoundText, FreshInv
<1>6. Fresh(r)'
  <2>1. CASE pc[r] = "backup"
    BY <1>1, <1>3, <1>4, <1>5, <2>1, MapNames DEF Fresh, NoneYounger, TimesOf
  <2>2. CASE pc[r] \in {"replace", "create"}
    BY <1>1, <1>3, <1>4, <1>5, <2>2, MapNames DEF Fresh, NoneYounger, TimesOf
  <2>3. CASE pc[r] = "remove"
    BY <1>1, <1>3, <1>4, <1>5, <2>3, MapNames DEF Fresh
  <2>4. CASE pc[r] = "purge"
    BY <1>1, <1>3, <1>4, <1>5, <2>4, MapNames DEF Fresh
  <2> QED  BY <1>2, <2>1, <2>2, <2>3, <2>4 DEF Updating
<1>7. OneInFlight'
  BY <1>1, NobodyArrives
<1>8. ASSUME NEW q \in Requests \ {r} PROVE Fresh(q)'
  BY <1>1, <1>2, Bystander DEF Running
<1> QED  BY <1>6, <1>7, <1>8 DEF FreshInv

LEMMA CommonFresh ==
    ASSUME FreshInv, NEW r \in Requests, Common(r)
    PROVE  FreshInv'
<1>1. BoundedInv' /\ pc[r] \in Running
  BY CommonBounded, CommonRuns DEF FreshInv, BoundedInv
<1>2. CASE ReadFails(r) \/ PutIdentical(r) \/ UpdateError(r) \/ Finish(r)
  BY <1>1, <1>2, AnswerFresh DEF NoReply, ReadFails, PutIdentical, UpdateError, Finish
<1> QED  BY <1>1, <1>2, CopyFresh, UpdateFresh DEF Common

LEMMA OutsideFresh ==
    ASSUME FreshInv, OneInFlight',
           (\E r \in Requests : Arrive(r)) \/ Tick \/ Crash \/ UNCHANGED vars
    PROVE  FreshInv'
<1>1. BoundedInv' /\ TypeInv
  BY OutsideBounded DEF FreshInv, BoundedInv
<1>2. DOMAIN pc = Requests /\ now \in Nat
  BY <1>1, VersionsAssumption DEF TypeInv, Types, Times
<1>3. ASSUME NEW r \in Requests, Arrive(r), NEW q \in Requests PROVE Fresh(q)'
  <2>1. CASE q = r
    BY <1>2, <1>3, <2>1, NotFreshYet DEF Arrive
  <2>2. CASE q # r
    <3>1. pc'[r] \in Running /\ pc'[q] = pc[q]
      BY <1>2, <1>3, <2>2 DEF Arrive, Running
    <3>2. pc'[q] \notin Running
      BY <2>2, <3>1 DEF OneInFlight, InFlight
    <3> QED  BY <1>1, <3>1, <3>2, NotFreshYet DEF TypeInv, Types
  <2> QED  BY <2>1, <2>2
<1>4. ASSUME Tick, NEW q \in Requests PROVE Fresh(q)'
  <2>1. /\ UNCHANGED <<cm, call, req, pc, cur, sav>>
        /\ \A u \in 0..now : u \in 0..now'
    BY <1>2, <1>4 DEF Tick
  <2>2. Fresh(q) /\ Current' = Current /\ Archive' = Archive /\ FoundText(q)' = FoundText(q)
    BY <2>1 DEF FreshInv, Current, Archive, FoundText
  <2> QED  BY <2>1, <2>2 DEF Fresh, NoneYounger, TimesOf
<1>5. ASSUME Crash, NEW q \in Requests PROVE Fresh(q)'
  BY <1>1, <1>5, NotFreshYet DEF Crash, InFlight, TypeInv, Types
<1>6. ASSUME UNCHANGED vars, NEW q \in Requests PROVE Fresh(q)'
  <2>1. Fresh(q) /\ Current' = Current /\ Archive' = Archive /\ FoundText(q)' = FoundText(q)
    BY <1>6 DEF vars, FreshInv, Current, Archive, FoundText
  <2> QED  BY <1>6, <2>1 DEF vars, Fresh, NoneYounger, TimesOf
<1> QED  BY <1>1, <1>3, <1>4, <1>5, <1>6 DEF FreshInv

LEMMA InitFresh == Init => FreshInv
<1> SUFFICES ASSUME Init PROVE FreshInv
  OBVIOUS
<1>1. ASSUME NEW r \in Requests PROVE Fresh(r)
  <2>1. pc[r] = "new"
    BY DEF Init
  <2> QED  BY <2>1 DEF Fresh
<1>2. OneInFlight
  BY DEF Init, OneInFlight, InFlight, Running, Updating
<1> QED  BY <1>1, <1>2, InitBounded DEF FreshInv

(* Where at most one request is let in, there is at most one.              *)
LEMMA OneIsLetIn ==
    ASSUME MaxInflight = 1, FreshInv, NEW r \in Requests, Arrive(r)
    PROVE  OneInFlight'
<1>1. DOMAIN pc = Requests
  BY DEF FreshInv, BoundedInv, TypeInv, Types
<1>2. InFlight = {}
  <2> SUFFICES ASSUME NEW q \in InFlight PROVE FALSE
    OBVIOUS
  <2>1. InFlight = {q}
    BY DEF FreshInv, OneInFlight
  <2>2. Cardinality(InFlight) = 1
    BY <2>1, FS_Singleton
  <2> QED  BY <2>2 DEF Arrive
<1> QED  BY <1>1, <1>2 DEF Arrive, OneInFlight, InFlight

-----------------------------------------------------------------------------
(***************************************************************************)
(* What the store sees of requests that come one by one.                   *)
(***************************************************************************)
Saves(f) ==
    /\ Current' = Current
    /\ \E u \in 0..now :
           Archive' \in Pruned([Archive EXCEPT ![<<f, u>>] =
                                   IF Current[f] = None THEN Blank ELSE Current[f]], f, u)

Replaces(f) ==
    /\ Current[f] # None => \E t \in Times : Archive[<<f, t>>] = Current[f]
    /\ \E b \in Bodies : Current' = [Current EXCEPT ![f] = b]
    /\ Archive' = Archive

Removes(f) == Current' = Without(Current, {f}) /\ Archive' = Archive

Purges(f) ==
    /\ Current[f] = None
    /\ Current' = Current /\ Archive' = Without(Archive, Matching(Archive, f))

(* A step of the request r that writes.                                    *)
Writes(r) ==
    LET f == req[r].file IN
    /\ f \in Files /\ r \in InFlight /\ req[r].op \in {"put", "delete"} /\ now' = now
    /\ \/ pc[r] = "backup" /\ cur[r] = Current /\ Saves(f)
       \/ Replaces(f)
       \/ Removes(f)
       \/ Purges(f)

LEMMA UpdateWrites ==
    ASSUME FreshInv, NEW r \in Requests, UpdateMap(r) \/ UpdateMapFails(r)
    PROVE  (cm' = cm /\ now' = now) \/ Writes(r)
<1> DEFINE f == req[r].file
<1>1. /\ UpdateStep(r) \/ UpdateFault(r)
      /\ UNCHANGED <<req, pc, cur, sav, reply, now>>
  BY DEF UpdateMap, UpdateMapFails
<1>2. StoreTypeOK /\ pc[r] \in Updating /\ TypeInv /\ Fresh(r)
  BY UpdateRuns DEF FreshInv, BoundedInv, TypeInv, Types
<1>3. /\ req[r] \in RequestSet /\ r \in InFlight
      /\ req[r].op = IF pc[r] \in {"remove", "purge"} THEN "delete" ELSE "put"
  BY <1>2 DEF TypeInv, Positions, Updating, InFlight, Running
<1>4. f \in Files /\ (req[r].op = "put" => req[r].body \in Bodies)
  BY <1>3, RequestFacts
<1>5. CASE cm' = cm
  BY <1>1, <1>5
<1>6. CASE call[r].phase = "put" /\ cm' = Stored(call[r].name, call[r].updated)
  <2>1. call[r].name \in Names /\ call[r].updated \in MapData
    BY <1>2 DEF StoreTypeOK, Calls
  <2>2. /\ cm'[call[r].name].data = call[r].updated
        /\ \A n \in Names : n # call[r].name => cm'[n] = cm[n]
    BY <1>2, <1>6, <2>1, StoredFacts DEF StoreTypeOK
  <2>3. /\ call[r].name = CurrentMap => Current' = call[r].updated /\ Archive' = Archive
        /\ call[r].name = VersionsMap => Archive' = call[r].updated /\ Current' = Current
    BY <2>2, MapNames DEF Current, Archive
  <2>4. CASE pc[r] = "backup"
    <3>1. cur[r] = Current /\ sav[r] = Archive /\ call[r].name = VersionsMap
      BY <1>2, <1>6, <2>4 DEF Fresh
    <3>2. PICK u \in 0..now :
              call[r].updated \in Pruned([sav[r] EXCEPT ![<<f, u>>] = FoundText(r)], f, u)
      BY <1>2, <2>4 DEF Fresh
    <3>3. Saves(f)
      BY <2>3, <3>1, <3>2 DEF Saves, FoundText
    <3> QED  BY <1>1, <1>3, <1>4, <2>4, <3>1, <3>3 DEF Writes
  <2>5. CASE pc[r] \in {"replace", "create"}
    <3>1. /\ cur[r] = Current /\ call[r].name = CurrentMap
          /\ call[r].updated = [cur[r] EXCEPT ![f] = req[r].body]
          /\ cur[r][f] # None => \E u \in Times : Archive[<<f, u>>] = cur[r][f]
      BY <1>2, <1>6, <2>5 DEF Fresh
    <3>2. Replaces(f)
      BY <1>3, <1>4, <2>3, <2>5, <3>1 DEF Replaces
    <3> QED  BY <1>1, <1>3, <1>4, <3>2 DEF Writes
  <2>6. CASE pc[r] = "remove"
    <3>1. Removes(f)
      BY <1>2, <1>6, <2>3, <2>6 DEF Fresh, Removes
    <3> QED  BY <1>1, <1>3, <1>4, <3>1 DEF Writes
  <2>7. CASE pc[r] = "purge"
    <3>1. Purges(f)
      BY <1>2, <1>6, <2>3, <2>7 DEF Fresh, Purges
    <3> QED  BY <1>1, <1>3, <1>4, <3>1 DEF Writes
  <2> QED  BY <1>2, <2>4, <2>5, <2>6, <2>7 DEF Updating
<1> QED  BY <1>1, <1>2, <1>5, <1>6, UpdateFacts

(* A version that has been pruned at the time u, when p was left.          *)
Expired(p, f, u, t) ==
    /\ p[<<f, t>>] = None
    /\ u - t >= MaxBackupHours
    /\ Cardinality(After(p, f, t)) >= MaxBackupFiles

(* The pruning loop takes versions of this file only, provided that no     *)
(* name begins with another one, and takes them by age and number.         *)
LEMMA PrunedByPolicy ==
    ASSUME NoPrefixes, NEW m, NEW f \in Files, NEW u \in Times,
           NEW p \in Pruned(m, f, u)
    PROVE  /\ \A g \in Files \ {f} : \A t \in Times : p[<<g, t>>] = m[<<g, t>>]
           /\ \A t \in Times : p[<<f, t>>] # m[<<f, t>>] => Expired(p, f, u, t)
<1>1. CASE p = m
  BY <1>1
<1>2. CASE p # m
  <2> DEFINE all == Matching(m, f)
  <2>1. PICK S \in Newest(m, f) :
            p = Without(m, {k \in all \ S : IsOldVersion(k, f, u)})
    BY <1>2 DEF Pruned
  <2>2. /\ S \in SUBSET all /\ Cardinality(S) = MaxBackupFiles
        /\ \A k \in S, l \in all \ S : KeyTime(k, f) >= KeyTime(l, f)
    BY <2>1 DEF Newest
  <2>3. \A k \in all : k = <<f, k[2]>> /\ k[2] \in Times /\ k \in Keys
    BY VersionsAssumption DEF Matching, NoPrefixes, VersionKeys
  <2>4. \A v : KeyTime(<<f, v>>, f) = v
    BY DEF KeyTime
  <2>5. ASSUME NEW g \in Files \ {f}, NEW t \in Times
        PROVE  p[<<g, t>>] = m[<<g, t>>]
    <3>1. <<g, t>> \notin all /\ <<g, t>> \in Keys
      BY <2>3, KeyFacts
    <3> QED  BY <2>1, <3>1 DEF Without
  <2>6. ASSUME NEW t \in Times, p[<<f, t>>] # m[<<f, t>>]
        PROVE  Expired(p, f, u, t)
    <3> DEFINE T == After(p, f, t)
               time == [k \in S |-> k[2]]
    <3>1. <<f, t>> \in Keys
      BY KeyFacts
    <3>2. <<f, t>> \in all \ S /\ IsOldVersion(<<f, t>>, f, u) /\ p[<<f, t>>] = None
      BY <2>1, <2>6, <3>1 DEF Without
    <3>3. ASSUME NEW k \in S PROVE k[2] \in T
      <4>1. k \in all /\ k = <<f, k[2]>> /\ k[2] \in Times /\ k \in Keys
        BY <2>2, <2>3
      <4>2. k[2] >= t /\ k[2] # t
        BY <2>2, <2>4, <3>2, <4>1
      <4>3. k[2] > t
        BY <4>1, <4>2, VersionsAssumption DEF Times
      <4>4. p[k] = m[k] /\ m[k] # None
        BY <2>1, <4>1 DEF Without, Matching
      <4> QED  BY <4>1, <4>3, <4>4 DEF After, TimesOf
    <3>4. time \in Injection(S, T)
      <4>1. time \in [S -> T]
        BY <3>3
      <4>2. ASSUME NEW k \in S, NEW l \in S, time[k] = time[l] PROVE k = l
        BY <2>2, <2>3, <4>2
      <4> QED  BY <4>1, <4>2 DEF Injection, IsInjective
    <3>5. T \in SUBSET Times
      BY DEF After, TimesOf
    <3> HIDE DEF T, time
    <3>6. IsFiniteSet(T) /\ Cardinality(T) \in Nat
      BY <3>5, TimesFinite
    <3>7. Cardinality(S) <= Cardinality(T)
      BY <3>4, <3>6, FS_Injection
    <3>8. Cardinality(T) >= MaxBackupFiles
      BY <2>2, <3>6, <3>7, VersionsAssumption
    <3>9. u - t >= MaxBackupHours
      BY <2>4, <3>2 DEF IsOldVersion
    <3> QED  BY <3>2, <3>8, <3>9 DEF T, Expired
  <2> QED  BY <2>5, <2>6
<1> QED  BY <1>1, <1>2

-----------------------------------------------------------------------------
(* What follows for the properties.                                        *)

LEMMA ContentTypes ==
    ASSUME FreshInv
    PROVE  /\ Current \in CurrentContent /\ Current \in MapData
           /\ Archive \in VersionContent /\ Archive \in MapData
           /\ now \in Times
           /\ \A u \in 0..now : u \in Times /\ \A t \in Times : u - t <= now - t
<1>1. Current \in CurrentContent /\ Archive \in VersionContent /\ now \in Times
  BY MapNames DEF FreshInv, BoundedInv, TypeInv, Types, Shapes, Current, Archive
<1> QED  BY <1>1, VersionsAssumption DEF CurrentContent, VersionContent, Times

(* What a save under the time u makes of the versions of f, before any of  *)
(* them expires.                                                           *)
Text(f) == IF Current[f] = None THEN Blank ELSE Current[f]

SavedText(f, u, t) == IF t = u THEN Text(f) ELSE Archive[<<f, t>>]

LEMMA SavesFacts ==
    ASSUME FreshInv, NoPrefixes, NEW f \in Files, Saves(f)
    PROVE  \E u \in 0..now :
               /\ \A g \in Files \ {f} : \A t \in Times : Archive'[<<g, t>>] = Archive[<<g, t>>]
               /\ \A t \in Times :
                      Archive'[<<f, t>>] # SavedText(f, u, t) => Expired(Archive', f, u, t)
<1> DEFINE SavedAt(u) == [Archive EXCEPT ![<<f, u>>] = Text(f)]
<1>1. PICK u \in 0..now : Archive' \in Pruned(SavedAt(u), f, u)
  BY DEF Saves, Text
<1>2. u \in Times /\ <<f, u>> \in Keys /\ Archive \in MapData
  BY ContentTypes, KeyFacts
<1>3. /\ \A g \in Files \ {f} : \A t \in Times : SavedAt(u)[<<g, t>>] = Archive[<<g, t>>]
      /\ \A t \in Times : SavedAt(u)[<<f, t>>] = SavedText(f, u, t)
  BY <1>2, KeyFacts DEF MapData, SavedText
<1> HIDE DEF SavedAt
<1>4. /\ \A g \in Files \ {f} : \A t \in Times : Archive'[<<g, t>>] = SavedAt(u)[<<g, t>>]
      /\ \A t \in Times :
             Archive'[<<f, t>>] # SavedAt(u)[<<f, t>>] => Expired(Archive', f, u, t)
  BY <1>1, <1>2, PrunedByPolicy
<1> QED  BY <1>3, <1>4

LEMMA PurgesFacts ==
    ASSUME NoPrefixes, NEW f \in Files, Purges(f), NEW t \in Times
    PROVE  /\ Archive'[<<f, t>>] = None
           /\ \A g \in Files \ {f} : Archive'[<<g, t>>] = Archive[<<g, t>>]
<1>1. ASSUME NEW g \in Files
      PROVE  /\ <<g, t>> \in Keys
             /\ <<g, t>> \in Matching(Archive, f) <=> g = f /\ Archive[<<g, t>>] # None
  BY KeyFacts DEF Matching, NoPrefixes
<1> QED  BY <1>1 DEF Purges, Without

LEMMA ChangesOwnFile ==
    ASSUME FreshInv, NoPrefixes, NEW f \in Files,
           Saves(f) \/ Replaces(f) \/ Removes(f) \/ Purges(f),
           NEW g \in Files \ {f}
    PROVE  /\ Current'[g] = Current[g]
           /\ \A t \in Times : Archive'[<<g, t>>] = Archive[<<g, t>>]
<1>1. g \in Keys
  BY KeyFacts
<1>2. CASE Saves(f)
  BY <1>2, SavesFacts DEF Saves
<1>3. CASE Replaces(f) \/ Removes(f)
  BY <1>1, <1>3, ContentTypes DEF Replaces, Removes, Without, MapData
<1>4. CASE Purges(f)
  BY <1>4, PurgesFacts DEF Purges
<1> QED  BY <1>2, <1>3, <1>4

LEMMA WritesOwnFile ==
    ASSUME FreshInv, NoPrefixes, NEW r \in Requests, Writes(r),
           NEW g \in Files \ {req[r].file}
    PROVE  /\ Current'[g] = Current[g]
           /\ \A t \in Times : Archive'[<<g, t>>] = Archive[<<g, t>>]
<1>1. PICK f \in Files : f = req[r].file
  BY DEF Writes
<1>2. Saves(f) \/ Replaces(f) \/ Removes(f) \/ Purges(f)
  BY <1>1 DEF Writes, Saves, Replaces, Removes, Purges
<1> QED  BY <1>1, <1>2, ChangesOwnFile

(* No content is replaced unless it is among the versions; nothing about   *)
(* other files is needed for that.                                         *)
LEMMA WritesSaved ==
    ASSUME FreshInv, NEW r \in Requests, Writes(r), NEW g \in Files,
           Current[g] # None, Current'[g] \notin {None, Current[g]}
    PROVE  \E t \in Times : Archive[<<g, t>>] = Current[g]
<1> DEFINE f == req[r].file
<1>1. f \in Files /\ f \in Keys /\ g \in Keys /\ Current \in MapData
  BY ContentTypes, KeyFacts DEF Writes
<1>2. ~Saves(f) /\ ~Purges(f) /\ ~Removes(f)
  BY <1>1 DEF Saves, Purges, Removes, Without
<1>3. Replaces(f)
  BY <1>2 DEF Writes
<1> QED  BY <1>1, <1>3 DEF Replaces, MapData

LEMMA WritesLeave ==
    ASSUME FreshInv, NoPrefixes, NEW r \in Requests, Writes(r),
           NEW g \in Files, NEW t \in Saved(g), Archive'[<<g, t>>] = None
    PROVE  \/ Current[g] = None
           \/ /\ now - t >= MaxBackupHours
              /\ Cardinality({u \in Saved(g)' : u > t}) >= MaxBackupFiles
<1> DEFINE f == req[r].file
<1>1. f \in Files /\ t \in Times /\ Archive[<<g, t>>] # None
  BY DEF Writes, Saved
<1>2. g = f
  BY <1>1, WritesOwnFile
<1>3. CASE Saves(f)
  <2>1. PICK u \in 0..now :
            Archive'[<<f, t>>] # SavedText(f, u, t) => Expired(Archive', f, u, t)
    BY <1>1, <1>3, SavesFacts
  <2>2. SavedText(f, u, t) # None
    BY <1>1, <1>2, HandlersAssumption DEF Text, SavedText
  <2>3. Expired(Archive', f, u, t)
    BY <1>1, <1>2, <2>1, <2>2
  <2>4. u - t <= now - t /\ u \in Nat /\ t \in Nat /\ now \in Nat
    BY <1>1, ContentTypes, VersionsAssumption DEF Times
  <2>5. now - t >= MaxBackupHours
    BY <2>3, <2>4, VersionsAssumption DEF Expired
  <2>6. {v \in Saved(g)' : v > t} = After(Archive', f, t)
    BY <1>2 DEF Saved, After, TimesOf
  <2> QED  BY <2>3, <2>5, <2>6 DEF Expired
<1>4. CASE Replaces(f) \/ Removes(f)
  BY <1>1, <1>4 DEF Replaces, Removes
<1>5. CASE Purges(f)
  BY <1>2, <1>5 DEF Purges
<1> QED  BY <1>3, <1>4, <1>5 DEF Writes

(* The abstract specification counts with its own instance of FiniteSets.  *)
LEMMA StoreCounts == \A S : Store!Cardinality(S) = Cardinality(S)
  BY DEF Store!Cardinality, Cardinality

(* The abstract specification: a change of one file is one of its steps,   *)
(* if what is saved was there.                                             *)
LEMMA ChangesRefine ==
    ASSUME FreshInv, NoPrefixes, NEW f \in Files, now' = now,
           \/ Current[f] # None /\ Saves(f)
           \/ Replaces(f) \/ Removes(f) \/ Purges(f)
    PROVE  Store!Next
<1> DEFINE files    == [g \in Files |-> Current[g]]
           versions == [g \in Files |-> [t \in Times |-> Archive[<<g, t>>]]]
<1>1. now' = now /\ f \in Keys /\ Files \subseteq Keys
      /\ Current \in MapData
  BY KeyFacts, ContentTypes
<1>2. \A g \in Files \ {f} : /\ Current'[g] = Current[g]
                             /\ \A t \in Times : Archive'[<<g, t>>] = Archive[<<g, t>>]
  BY ChangesOwnFile
<1>3. CASE Current[f] # None /\ Saves(f)
  <2>1. PICK u \in 0..now :
            \A t \in Times :
                Archive'[<<f, t>>] # SavedText(f, u, t) => Expired(Archive', f, u, t)
    BY <1>1, <1>3, SavesFacts
  <2> DEFINE expired == {t \in Times : Archive'[<<f, t>>] # SavedText(f, u, t)}
             saved == [versions[f] EXCEPT ![u] = files[f]]
  <2>2. u \in Times /\ Current[f] # None /\ files' = files
    BY <1>1, <1>3, ContentTypes DEF Saves
  <2>3. \A t \in Times : saved[t] = SavedText(f, u, t)
    BY <1>1, <2>2 DEF SavedText, Text
  <2>4. ASSUME NEW t \in expired PROVE Store!MayExpire(saved, t, u)
    <3>1. t \in Times /\ Expired(Archive', f, u, t)
      BY <2>1
    <3> DEFINE later == {v \in Store!Times : v > t /\ saved[v] # None}
    <3>2. After(Archive', f, t) \in SUBSET later
      <4> SUFFICES ASSUME NEW v \in After(Archive', f, t) PROVE v \in later
        OBVIOUS
      <4>1. v \in Times /\ v > t /\ Archive'[<<f, v>>] # None
        BY DEF After, TimesOf
      <4>2. Archive'[<<f, v>>] = SavedText(f, u, v)
        BY <2>1, <4>1 DEF Expired
      <4> QED  BY <2>3, <4>1, <4>2 DEF Store!Times, Times
    <3>3. later \in SUBSET Times
      BY DEF Store!Times, Times
    <3> HIDE DEF later
    <3>4. Cardinality(later) >= MaxBackupFiles
      BY <3>1, <3>2, <3>3, TimesFinite, FS_Subset, VersionsAssumption DEF Expired
    <3> QED  BY <3>1, <3>4, StoreCounts DEF Expired, later, Store!MayExpire
  <2>5. versions' = [versions EXCEPT ![f] =
                        [t \in Times |-> IF t \in expired THEN None ELSE saved[t]]]
    <3>1. ASSUME NEW t \in Times
          PROVE  Archive'[<<f, t>>] = IF t \in expired THEN None ELSE saved[t]
      BY <2>1, <2>3 DEF Expired
    <3>2. [t \in Times |-> Archive'[<<f, t>>]]
              = [t \in Times |-> IF t \in expired THEN None ELSE saved[t]]
      BY <3>1
    <3>3. \A g \in Files \ {f} : [t \in Times |-> Archive'[<<g, t>>]] = versions[g]
      BY <1>2
    <3> HIDE DEF expired, saved
    <3> QED  BY <3>2, <3>3
  <2>6. expired \in SUBSET Times /\ files[f] # None
    BY <1>1, <2>2
  <2> HIDE DEF expired, saved, files, versions
  <2>7. /\ files[f] # None /\ files' = files /\ now' = now
        /\ \E v \in 0..now, old \in SUBSET Times :
               LET s == [versions[f] EXCEPT ![v] = files[f]] IN
               /\ \A t \in old : Store!MayExpire(s, t, v)
               /\ versions' = [versions EXCEPT ![f] =
                                  [t \in Times |-> IF t \in old THEN None ELSE s[t]]]
    BY <1>1, <2>2, <2>4, <2>5, <2>6 DEF saved
  <2>8. Store!Save(f)
    BY <2>7 DEF Store!Save, Store!Times, Times, files, versions
  <2> QED  BY <1>1, <2>8 DEF Store!Next
<1>4. CASE Replaces(f)
  <2>1. Store!Replace(f)
    BY <1>1, <1>4 DEF Replaces, Store!Replace, Store!Times, Times, MapData
  <2> QED  BY <1>1, <2>1 DEF Store!Next
<1>5. CASE Removes(f)
  <2>1. \A g \in Files : Current'[g] = IF g = f THEN None ELSE Current[g]
    BY <1>1, <1>5 DEF Removes, Without
  <2>2. Store!Remove(f)
    BY <1>1, <1>5, <2>1 DEF Removes, Store!Remove
  <2> QED  BY <1>1, <2>2 DEF Store!Next
<1>6. CASE Purges(f)
  <2>1. \A t \in Times : Archive'[<<f, t>>] = None
    BY <1>1, <1>6, PurgesFacts
  <2>2. versions' = [versions EXCEPT ![f] = [t \in Times |-> None]]
    BY <1>1, <1>2, <2>1
  <2>3. files[f] = None /\ files' = files
    BY <1>1, <1>6 DEF Purges
  <2>4. Store!Purge(f)
    BY <1>1, <2>2, <2>3 DEF Store!Purge, Store!Times, Times
  <2> QED  BY <1>1, <2>4 DEF Store!Next
<1> QED  BY <1>3, <1>4, <1>5, <1>6

LEMMA WritesRefine ==
    ASSUME FreshInv, NoPrefixes, NEW r \in Requests, Writes(r),
           pc[r] = "backup" => Current[req[r].file] # None
    PROVE  Store!Next
<1>1. PICK f \in Files : f = req[r].file
  BY DEF Writes
<1>2. /\ now' = now
      /\ \/ Current[f] # None /\ Saves(f)
         \/ Replaces(f) \/ Removes(f) \/ Purges(f)
  BY <1>1 DEF Writes, Saves, Replaces, Removes, Purges
<1> QED  BY <1>2, ChangesRefine

LEMMA StoreRests ==
    ASSUME cm' = cm, now' = now \/ now' = now + 1
    PROVE  [Store!Next]_(Store!filesVars)
<1>1. Current' = Current /\ Archive' = Archive
  BY DEF Current, Archive
<1> QED  BY <1>1 DEF Store!Next, Store!Tick, Store!filesVars

(* The newest version is what the PUT replaced: known as soon as the save  *)
(* has succeeded, and nothing happens to the versions before the answer.   *)
LEMMA NewestUndoes == FreshInv => \A r \in Requests : UndoneByNewest(r)
<1> SUFFICES ASSUME FreshInv, NEW r \in Requests, pc[r] = "replace"
             PROVE  \E t \in Saved(req[r].file) :
                        /\ \A u \in Saved(req[r].file) : u <= t
                        /\ Archive[<<req[r].file, t>>] = cur[r][req[r].file]
  BY DEF UndoneByNewest
<1>1. Fresh(r)
  BY DEF FreshInv
<1> QED  BY <1>1 DEF Fresh, NoneYounger, TimesOf, Saved

-----------------------------------------------------------------------------
(* The answers, when they are given.                                       *)
AnswersHold == \A r \in Requests : Answered(r) => Promised(r) \subseteq Facts(r)

LEMMA SilenceHolds ==
    ASSUME reply' = reply
    PROVE  AnswersHold
  BY DEF AnswersHold, Answered

LEMMA AnswerHolds ==
    ASSUME TypeInv, NEW r \in Requests, NEW code, NEW content, Answer(r, code, content),
           code = 202 =>
               \/ pc[r] = "replace" /\ {"inForce", "backedUp"} \subseteq Facts(r)
               \/ pc[r] = "create" /\ "inForce" \in Facts(r)
               \/ pc[r] = "purge" /\ {"absent", "purged"} \subseteq Facts(r),
           code = 200 /\ req[r].op = "put" => "inForce" \in Facts(r),
           code = 404 => "missing" \in Facts(r)
    PROVE  AnswersHold
<1>1. /\ reply'[r].code = code
      /\ \A q \in Requests \ {r} : reply'[q] = reply[q]
  BY DEF TypeInv, Types, Answer
<1>2. \A q \in Requests : Answered(q) => q = r
  BY <1>1 DEF Answered
<1>3. Promised(r) \subseteq Facts(r)
  BY <1>1 DEF Promised
<1> QED  BY <1>2, <1>3 DEF AnswersHold

(* An update that succeeded has left what the handler meant to leave.      *)
LEMMA SuccessHolds ==
    ASSUME FreshInv, NEW r \in Requests, req[r] \in RequestSet, call[r].phase = "ok"
    PROVE  /\ pc[r] = "replace" => {"inForce", "backedUp"} \subseteq Facts(r)
           /\ pc[r] = "create" => "inForce" \in Facts(r)
           /\ pc[r] = "purge" => {"absent", "purged"} \subseteq Facts(r)
<1> DEFINE f == req[r].file
<1>1. Fresh(r) /\ f \in Files /\ f \in Keys /\ cur[r] \in MapData
  BY RequestFacts, KeyFacts DEF FreshInv, BoundedInv, TypeInv, Types, CurrentContent
<1>2. CASE pc[r] \in {"replace", "create"}
  <2>1. Current = [cur[r] EXCEPT ![f] = req[r].body]
    BY <1>1, <1>2 DEF Fresh
  <2>2. Current[f] = req[r].body
    BY <1>1, <2>1 DEF MapData
  <2>3. pc[r] = "replace" =>
            cur[r][f] # None /\ \E u \in Times : Archive[<<f, u>>] = cur[r][f]
    BY <1>1 DEF Fresh
  <2> QED  BY <1>2, <2>2, <2>3 DEF Facts
<1>3. CASE pc[r] = "purge"
  <2>1. Current[f] = None /\ Archive = Without(sav[r], Matching(sav[r], f))
    BY <1>1, <1>3 DEF Fresh
  <2>2. Matching(Archive, f) = {}
    BY <2>1, KeyFacts DEF Matching, Without
  <2> QED  BY <1>3, <2>1, <2>2 DEF Facts
<1> QED  BY <1>2, <1>3

LEMMA CommonHolds ==
    ASSUME FreshInv, NEW r \in Requests, Common(r)
    PROVE  AnswersHold
<1>1. TypeInv /\ req[r] \in RequestSet /\ Fresh(r)
  BY CommonRuns DEF FreshInv, BoundedInv
<1>2. CASE ReadFails(r) \/ UpdateError(r)
  BY <1>1, <1>2, AnswerHolds DEF NoReply, ReadFails, UpdateError
<1>3. CASE PutIdentical(r)
  <2>1. "inForce" \in Facts(r)
    BY <1>1, <1>3 DEF PutIdentical, PutStart, Fresh, Facts
  <2> QED  BY <1>1, <1>3, <2>1, AnswerHolds DEF PutIdentical
<1>4. CASE Finish(r)
  <2>1. \/ pc[r] = "replace" /\ {"inForce", "backedUp"} \subseteq Facts(r)
        \/ pc[r] = "create" /\ "inForce" \in Facts(r)
        \/ pc[r] = "purge" /\ {"absent", "purged"} \subseteq Facts(r)
    BY <1>1, <1>4, SuccessHolds DEF Finish, Updated
  <2> QED  BY <1>1, <1>4, <2>1, AnswerHolds DEF Finish
<1>5. CASE ReadSaved(r) \/ UpdateMap(r) \/ UpdateMapFails(r)
  BY <1>5, SilenceHolds DEF ReadSaved, UpdateMap, UpdateMapFails
<1> QED  BY <1>2, <1>3, <1>4, <1>5 DEF Common

LEMMA OutsideHolds ==
    ASSUME (\E r \in Requests : Arrive(r)) \/ Tick \/ Crash \/ UNCHANGED vars
    PROVE  AnswersHold
  BY SilenceHolds DEF Arrive, Tick, Crash, vars
=============================================================================
