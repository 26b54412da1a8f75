----------------------------- MODULE ConfigMaps -----------------------------
(***************************************************************************)
(* The ConfigMaps the server keeps all its state in, and the one function  *)
(* through which every handler writes them, updateConfigMapByName of       *)
(* handlers/helper.go.  The ConfigMaps live in the Kubernetes API server   *)
(* (external): a read is linearizable, an update is accepted only if the   *)
(* resource version it carries is still the current one, and any call may  *)
(* fail, an update also after it has been applied.                         *)
(*                                                                         *)
(* The function takes the whole new content of the map.  It reads the map  *)
(* again only to get a fresh resource version, overwrites the content and  *)
(* then polls until a read returns exactly the content it wrote.  One      *)
(* action per call to the API server.  The module has no Next of its own:  *)
(* the handler modules run these actions next to theirs, and               *)
(* ConfigMapClients runs them under the most general client.               *)
(***************************************************************************)
EXTENDS Server, Integers

CONSTANTS
    Names,      (* the names of the ConfigMaps                             *)
    Keys        (* the keys any of them may hold                           *)

ASSUME StoreAssumption == Names # {} /\ None \notin Values

VARIABLES
    cm,         (* the store: per name its data and its resource version   *)
    call        (* per request, the updateConfigMapByName call it is in    *)

storeVars == <<cm, call>>

(***************************************************************************)
(* The content of a map: which value each key has, None when it has none.  *)
(* An empty content comes back from the API server as a nil map.           *)
(***************************************************************************)
MapData  == [Keys -> Values \cup {None}]
EmptyMap == [k \in Keys |-> None]

Active   == {"get", "put", "poll", "missed"}
Failed   == {"err", "timeout"}
Phases   == {"idle", "ok"} \cup Active \cup Failed

(***************************************************************************)
(* rv is the resource version of the map read by the call's own GET and,   *)
(* once its update has been accepted, the version that update produced.    *)
(***************************************************************************)
Calls  == [phase: Phases, name: Names, updated: MapData, rv: Nat]
NoCall == [phase |-> "idle", name |-> CHOOSE n \in Names : TRUE,
           updated |-> EmptyMap, rv |-> 0]

StoreTypeOK ==
    /\ cm \in [Names -> [data: MapData, rv: Nat]]
    /\ call \in [Requests -> Calls]

Contents == [n \in Names |-> cm[n].data]

StoreInit(contents) ==
    /\ cm = [n \in Names |-> [data |-> contents[n], rv |-> 0]]
    /\ call = [r \in Requests |-> NoCall]

-----------------------------------------------------------------------------
(***************************************************************************)
(* What an accepted update leaves in the store.  The API server keeps the  *)
(* resource version when the new content equals the old one.               *)
(***************************************************************************)
Stored(n, m) ==
    [cm EXCEPT ![n] = [data |-> m,
                       rv |-> IF m = cm[n].data THEN cm[n].rv
                                                ELSE cm[n].rv + 1]]

(* The caller hands over the name of a map and its whole new content.      *)
BeginUpdate(r, n, m) ==
    call' = [call EXCEPT ![r] = [phase |-> "get", name |-> n,
                                 updated |-> m, rv |-> 0]]

(* Faulty variant: an update without a resource version.                   *)
UpdateGetNoVersion(r) ==
    /\ call[r].phase = "get"
    /\ call' = [call EXCEPT ![r].phase = "put", ![r].rv = None]
    /\ UNCHANGED cm

(* The GET for a fresh resource version; its data are thrown away.         *)
UpdateGet(r) ==
    /\ call[r].phase = "get"
    /\ call' = [call EXCEPT ![r].phase = "put",
                            ![r].rv = cm[call[r].name].rv]
    /\ UNCHANGED cm

(* The PUT is accepted and answered.                                       *)
UpdatePut(r) ==
    /\ call[r].phase = "put"
    /\ cm[call[r].name].rv = call[r].rv
    /\ cm' = Stored(call[r].name, call[r].updated)
    /\ call' = [call EXCEPT ![r].phase = "poll",
                            ![r].rv = cm'[call[r].name].rv]

(* The PUT is accepted and its answer lost: the call returns the error.    *)
UpdatePutLost(r) ==
    /\ call[r].phase = "put"
    /\ cm[call[r].name].rv = call[r].rv
    /\ cm' = Stored(call[r].name, call[r].updated)
    /\ call' = [call EXCEPT ![r].phase = "err"]

(* Another write came between this call's GET and its PUT.                 *)
UpdateConflict(r) ==
    /\ call[r].phase = "put"
    /\ cm[call[r].name].rv # call[r].rv
    /\ call' = [call EXCEPT ![r].phase = "err"]
    /\ UNCHANGED cm

(* The GET, the PUT or a poll fails without an effect.                     *)
UpdateFails(r) ==
    /\ call[r].phase \in Active
    /\ call' = [call EXCEPT ![r].phase = "err"]
    /\ UNCHANGED cm

-----------------------------------------------------------------------------
(* Faulty variant: the result of the poll is not compared.                 *)
PollHitUnverified(r) ==
    /\ call[r].phase \in {"poll", "missed"}
    /\ call' = [call EXCEPT ![r].phase = "ok"]
    /\ UNCHANGED cm

(***************************************************************************)
(* The poll, every 300 ms for 10 s, the first one at once.  A poll that    *)
(* sees other content than was written starts or continues the wait; only  *)
(* after such a miss can the wait time out.                                *)
(***************************************************************************)
PollHit(r) ==
    /\ call[r].phase \in {"poll", "missed"}
    /\ cm[call[r].name].data = call[r].updated
    /\ call' = [call EXCEPT ![r].phase = "ok"]
    /\ UNCHANGED cm

(* Faulty variant: the comparison of the contents never succeeds.          *)
PollMissAlways(r) ==
    /\ call[r].phase \in {"poll", "missed"}
    /\ call' = [call EXCEPT ![r].phase = "missed"]
    /\ UNCHANGED cm

PollMiss(r) ==
    /\ call[r].phase \in {"poll", "missed"}
    /\ cm[call[r].name].data # call[r].updated
    /\ call' = [call EXCEPT ![r].phase = "missed"]
    /\ UNCHANGED cm

(* Faulty variant: the time limit is missed.                               *)
PollNoTimeout(r) ==
    /\ call[r].phase = "missed"
    /\ cm[call[r].name].data = call[r].updated
    /\ call' = [call EXCEPT ![r].phase = "timeout"]
    /\ UNCHANGED cm

PollTimeout(r) ==
    /\ call[r].phase = "missed"
    /\ call' = [call EXCEPT ![r].phase = "timeout"]
    /\ UNCHANGED cm

(* Every step of a call when the API server answers every request.         *)
UpdateStep(r) ==
    \/ UpdateGet(r)
    \/ UpdatePut(r)
    \/ UpdateConflict(r)
    \/ PollHit(r)
    \/ PollMiss(r)
    \/ PollTimeout(r)

(* The steps in which the API server, or the connection to it, fails.      *)
UpdateFault(r) == UpdatePutLost(r) \/ UpdateFails(r)

-----------------------------------------------------------------------------
(***************************************************************************)
(* A call waits, or has given up waiting, only because somebody else wrote *)
(* the map after it: as long as the resource version its own update        *)
(* produced is the current one, the map holds what the call wrote, and a   *)
(* poll that missed or timed out is proof that the version has moved on.   *)
(* A 500 "verification ... timed out" is therefore never spurious: it      *)
(* reports an interfering write, not a slow API server.                    *)
(***************************************************************************)
NotSpurious(c) ==
    /\ c.phase \in {"poll", "missed", "timeout"} =>
           /\ cm[c.name].rv >= c.rv
           /\ cm[c.name].rv = c.rv => cm[c.name].data = c.updated
    /\ c.phase \in {"missed", "timeout"} => cm[c.name].rv > c.rv

TimeoutMeansInterference == \A r \in Requests : NotSpurious(call[r])

=============================================================================
