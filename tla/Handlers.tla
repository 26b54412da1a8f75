------------------------------- MODULE Handlers -------------------------------
(***************************************************************************)
(* What the handlers of /prometheus/rules and /prometheus/config share.    *)
(* The server keeps nothing between requests: the current files are in one *)
(* ConfigMap, their older versions in a second one, and a handler works on *)
(* private copies of both.  net/http runs every request in a goroutine of  *)
(* its own, and no lock is held between a handler's reads and its writes.  *)
(*                                                                         *)
(* One action per call to the API server, the computation up to the next   *)
(* call included.  Whether a body or a name passes validation (promtool's  *)
(* verdict included) is a free choice.                                     *)
(***************************************************************************)
EXTENDS Versions

CONSTANTS
    CurrentMap,     (* the name of the ConfigMap with the current files    *)
    VersionsMap,    (* the name of the one with their older versions       *)
    Blank,          (* the empty text, what Go reads for a missing key     *)
    Operations,     (* the endpoints in use, a subset of AllOperations     *)
    MaxInflight,    (* how many requests may be in progress at once        *)
    MayFail,        (* may API calls fail and the server crash?            *)
    InitialContents (* what the two maps may hold to begin with            *)

AllOperations == {"list", "versions", "get", "put", "delete"}
Bodies        == Values \ {Blank}

ASSUME HandlersAssumption ==
    /\ CurrentMap # VersionsMap /\ Names = {CurrentMap, VersionsMap}
    /\ Blank # None
    /\ Operations \subseteq AllOperations
    /\ MaxInflight \in Nat \ {0}
    /\ MayFail \in BOOLEAN
    /\ InitialContents \subseteq [Names -> MapData]
    /\ \A c \in InitialContents :
           /\ \A k \in VersionKeys : c[CurrentMap][k] = None
           /\ \A f \in Files : c[VersionsMap][f] = None /\ c[CurrentMap][f] # Blank

VARIABLES
    req,        (* per goroutine, the request                              *)
    pc,         (* per goroutine, how far its handler has come             *)
    cur, sav,   (* per goroutine, its copies of the two maps               *)
    reply,      (* per goroutine, what it answered                         *)
    now,        (* the wall clock                                          *)
    served,     (* history: per file, every content it ever had            *)
    witnessed   (* history: per goroutine, the facts about its file that   *)
                (* were true at some moment since the request arrived      *)

history == <<served, witnessed>>
vars    == <<cm, call, req, pc, cur, sav, reply, now, served, witnessed>>

RequestSet ==
    LET Request(ops, bodies, versions) ==
            [op: ops \cap Operations, file: Files, body: bodies, version: versions]
    IN  Request({"list", "versions", "delete"}, {None}, {None})
            \cup Request({"get"}, {None}, Times \cup {None})
            \cup Request({"put"}, Bodies, {None})

(* Where a handler stands: before its first read, after the first, after   *)
(* the second, in the update it asked for, answered.                       *)
Updating == {"backup", "replace", "create", "remove", "purge"}
Running  == {"arrived", "readOne", "readBoth"} \cup Updating
InFlight == {r \in Requests : pc[r] \in Running}

Replies == [code: {0, 200, 202, 400, 404, 500},
            content: SUBSET (Keys \cup Bodies)]
NoReply == [code |-> 0, content |-> {}]

Current == cm[CurrentMap].data
Archive == cm[VersionsMap].data
BodiesOf(f) ==
    ({Current[f]} \cup {Archive[<<f, t>>] : t \in Times}) \ {None, Blank}

TypeOK ==
    /\ StoreTypeOK
    /\ req \in [Requests -> RequestSet \cup {None}]
    /\ pc \in [Requests -> Running \cup {"new", "done"}]
    /\ cur \in [Requests -> MapData] /\ sav \in [Requests -> MapData]
    /\ reply \in [Requests -> Replies]
    /\ now \in Times
    /\ \A k \in VersionKeys : Current[k] = None
    /\ \A f \in Files : Archive[f] = None /\ Current[f] # Blank

(* The server is started at any time, and finds versions which earlier     *)
(* requests have pruned.                                                   *)
Init ==
    /\ now \in Times
    /\ \E contents \in InitialContents :
           StoreInit(contents) /\ Limited(contents[VersionsMap], now)
    /\ req = [r \in Requests |-> None]
    /\ pc = [r \in Requests |-> "new"]
    /\ cur = [r \in Requests |-> EmptyMap]
    /\ sav = [r \in Requests |-> EmptyMap]
    /\ reply = [r \in Requests |-> NoReply]
    /\ served = [f \in Files |-> BodiesOf(f)]
    /\ witnessed = [r \in Requests |-> {}]

-----------------------------------------------------------------------------
(* The history, kept by every step.  The facts that bear on an answer: the *)
(* file has the body of the request; there is no such file; what was asked *)
(* for is missing; the body the request found is saved among the versions; *)
(* there are no versions.                                                  *)

Facts(r) ==
    LET f == req[r].file
        t == req[r].version
        Fact(name, condition) == IF condition THEN {name} ELSE {}
    IN  Fact("inForce", Current[f] = req[r].body)
        \cup Fact("absent", Current[f] = None)
        \cup Fact("missing", \/ Current[f] = None
                             \/ t # None /\ Archive[<<f, t>>] \in {None, Blank})
        \cup Fact("backedUp", /\ cur[r][f] # None
                              /\ \E u \in Times : Archive[<<f, u>>] = cur[r][f])
        \cup Fact("purged", Matching(Archive, f) = {})

Record ==
    /\ served' = [f \in Files |-> served[f] \cup ({Current'[f]} \ {None})]
    /\ witnessed' = [r \in Requests |-> IF r \in InFlight'
                                        THEN witnessed[r] \cup Facts(r)' ELSE {}]

-----------------------------------------------------------------------------
(* Requests and answers.                                                   *)

(* The handler returns: it wrote an answer and its locals are gone.        *)
Answer(r, code, content) ==
    /\ pc' = [pc EXCEPT ![r] = "done"]
    /\ reply' = [reply EXCEPT ![r] = [code |-> code, content |-> content]]
    /\ cur' = [cur EXCEPT ![r] = EmptyMap]
    /\ sav' = [sav EXCEPT ![r] = EmptyMap]
    /\ call' = [call EXCEPT ![r] = NoCall]
    /\ UNCHANGED <<cm, req, now>>
    /\ Record

Arrive(r) ==
    /\ pc[r] = "new"
    /\ Cardinality(InFlight) < MaxInflight
    /\ \E q \in RequestSet : req' = [req EXCEPT ![r] = q]
    /\ pc' = [pc EXCEPT ![r] = "arrived"]
    /\ UNCHANGED <<cm, call, cur, sav, reply, now>>
    /\ Record

(* getConfigMapByPath fails, or panics when the VMI names no ConfigMap.    *)
ReadFails(r) ==
    /\ MayFail
    /\ pc[r] \in {"arrived", "readOne"}
    /\ \E code \in {500, NoReply.code} : Answer(r, code, {})

TakeCurrent(r) ==
    /\ cur' = [cur EXCEPT ![r] = Current]
    /\ pc' = [pc EXCEPT ![r] = "readOne"]
    /\ UNCHANGED <<cm, call, req, sav, reply, now>>
    /\ Record

ReadSaved(r) ==
    /\ pc[r] = "readOne" /\ req[r].op \in {"put", "delete"}
    /\ sav' = [sav EXCEPT ![r] = Archive]
    /\ pc' = [pc EXCEPT ![r] = "readBoth"]
    /\ UNCHANGED <<cm, call, req, cur, reply, now>>
    /\ Record

-----------------------------------------------------------------------------
(* Updates: ask for one, and go on when it has succeeded.                  *)

Ask(r, n, m, next) ==
    /\ BeginUpdate(r, n, m)
    /\ pc' = [pc EXCEPT ![r] = next]
    /\ UNCHANGED <<cm, req, cur, sav, reply, now>>
    /\ Record

Updated(r, at) == pc[r] = at /\ call[r].phase = "ok"

UpdateError(r) ==
    /\ call[r].phase \in Failed
    /\ Answer(r, 500, {})

Finish(r) ==
    /\ \E at \in {"replace", "create", "purge"} : Updated(r, at)
    /\ Answer(r, 202, {})

UpdateMap(r) ==
    /\ UpdateStep(r)
    /\ UNCHANGED <<req, pc, cur, sav, reply, now>>
    /\ Record

UpdateMapFails(r) ==
    /\ MayFail
    /\ UpdateFault(r)
    /\ UNCHANGED <<req, pc, cur, sav, reply, now>>
    /\ Record

-----------------------------------------------------------------------------
(* The parts of PUT that both endpoints have.                              *)

PutStart(r) == pc[r] = "readBoth" /\ req[r].op = "put"

PutIdentical(r) ==
    /\ PutStart(r)
    /\ cur[r][req[r].file] = req[r].body
    /\ Answer(r, 200, {})

(* Save a content under the current time, expire old versions, and write   *)
(* both changes at once.                                                   *)
Backup(r, content) ==
    LET f == req[r].file
        saved == [sav[r] EXCEPT ![<<f, now>>] = content]
    IN  \E m \in Pruned(saved, f, now) : Ask(r, VersionsMap, m, "backup")

Replace(r, next) ==
    Ask(r, CurrentMap, [cur[r] EXCEPT ![req[r].file] = req[r].body], next)

-----------------------------------------------------------------------------
(* The clock, and a crash.                                                 *)

Tick ==
    /\ now < MaxTime
    /\ now' = now + 1
    /\ UNCHANGED <<cm, call, req, pc, cur, sav, reply>>
    /\ Record

(* The process dies and is restarted: whatever was in progress is gone and *)
(* its clients get no answer.                                              *)
Crash ==
    /\ MayFail /\ InFlight # {}
    /\ LET Survivors(v, dead) == [r \in Requests |-> IF r \in InFlight THEN dead ELSE v[r]]
       IN  /\ pc' = Survivors(pc, "done")
           /\ cur' = Survivors(cur, EmptyMap)
           /\ sav' = Survivors(sav, EmptyMap)
           /\ call' = Survivors(call, NoCall)
    /\ UNCHANGED <<cm, req, reply, now>>
    /\ Record
=============================================================================
