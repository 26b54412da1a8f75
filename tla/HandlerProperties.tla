-------------------------- MODULE HandlerProperties --------------------------
(***************************************************************************)
(* What should be true of the endpoints that keep versions.  The first     *)
(* group holds however many requests run at once and whatever fails; the   *)
(* second needs the requests to come one after the other, though any of    *)
(* them may still fail or be cut off by a crash half way.                  *)
(***************************************************************************)
EXTENDS Handlers

Answered(r) == pc[r] \in Running /\ reply[r] = NoReply /\ reply'[r] # NoReply

(* What the client may conclude from the answer it is given.               *)
Promised(r) ==
    LET code == reply'[r].code IN
    CASE code = 202 /\ pc[r] = "replace" -> {"inForce", "backedUp"}
      [] code = 202 /\ pc[r] = "create"  -> {"inForce"}
      [] code = 202 /\ pc[r] = "purge"   -> {"absent", "purged"}
      [] code = 200 /\ req[r].op = "put" -> {"inForce"}
      [] code = 404 -> {"missing"}
      [] OTHER -> {}

Saved(f) == {t \in Times : Archive[<<f, t>>] # None}

OneInFlight == \A r, q \in InFlight : r = q

(* No file name begins with another one.                                   *)
NoPrefixes == \A f, g \in Files : <<g, f>> \in Extends => g = f

-----------------------------------------------------------------------------
(* With any number of concurrent requests.                                 *)

(***************************************************************************)
(* No answer is a lie about the whole time the request took: an accepted   *)
(* body was in force, and the content a PUT found was among the versions,  *)
(* a deleted file and its versions were gone, what a 404 denies was        *)
(* missing, at some moment between the arrival of the request and the      *)
(* answer.  Guards the order of the two updates and the use of their       *)
(* results in PUT and DELETE.                                              *)
(***************************************************************************)
AnswersAreTrue ==
    [][\A r \in Requests : Answered(r) => Promised(r) \subseteq witnessed[r]]_vars

(***************************************************************************)
(* Every saved version, and everything a GET returns, is a content the     *)
(* very same file really had; and every content a file ever had was there  *)
(* from the beginning or was put for this file by a request that was not   *)
(* turned down.  Guards the handlers' stale private copies, which they     *)
(* write back whole: old content may return, but never foreign content.    *)
(***************************************************************************)
ContentsAreGenuine ==
    /\ \A f \in Files : BodiesOf(f) \subseteq served[f]
    /\ \A r \in Requests :
           reply[r].code = 200 /\ req[r].op = "get" =>
               reply[r].content \subseteq served[req[r].file]
    /\ \A f \in Files : \A b \in served[f] :
           \/ \E c \in InitialContents :
                  c[CurrentMap][f] = b
                  \/ \E t \in Times : c[VersionsMap][<<f, t>>] = b
           \/ \E r \in Requests : /\ pc[r] # "new"
                                  /\ req[r].op = "put"
                                  /\ req[r].file = f /\ req[r].body = b
                                  /\ reply[r].code # 400

(***************************************************************************)
(* The versions of a file never pile up: one that is older than            *)
(* MaxBackupFiles others is less than MaxBackupHours older than the newest *)
(* of them.  Guards the pruning loop of PUT, also when a stale copy of the *)
(* versions map is written back.                                           *)
(***************************************************************************)
VersionsAreBounded ==
    \A f \in Files : \A t \in Saved(f) :
        Cardinality({u \in Saved(f) : u > t}) >= MaxBackupFiles =>
            \A u \in Saved(f) : u - t < MaxBackupHours

(***************************************************************************)
(* Every request that reaches a handler is answered, or lost in a crash:   *)
(* no update waits for ever for a content that another request has         *)
(* overwritten.                                                            *)
(***************************************************************************)
EveryRequestEnds ==
    \A r \in Requests : (pc[r] \in Running) ~> (pc[r] = "done")

-----------------------------------------------------------------------------
(* One request at a time.                                                  *)

(***************************************************************************)
(* What an answer promises still holds when it is given.                   *)
(***************************************************************************)
AnswersHoldNow ==
    [][\A r \in Requests : Answered(r) => Promised(r) \subseteq Facts(r)]_vars

(***************************************************************************)
(* The files with their versions are versioned files in the sense of the   *)
(* abstract specification, although a save, a replacement and a deletion   *)
(* each take several API calls, rewrite whole maps that hold other files   *)
(* too, and may stop anywhere.                                             *)
(***************************************************************************)
Store == INSTANCE VersionedFiles WITH
             current <- [f \in Files |-> Current[f]],
             archive <- [f \in Files |-> [t \in Times |-> Archive[<<f, t>>]]]

AreVersionedFiles == Store!Spec

(***************************************************************************)
(* "If the file already exists, a copy will be saved prior to replacement" *)
(* and "The older configuration is saved to a file" (router.go): when the  *)
(* content of a file changes, the content it had is among its versions,    *)
(* also if the PUT then fails or is cut off.                               *)
(***************************************************************************)
BackupBeforeReplace ==
    [][\A f \in Files :
           /\ Current[f] # None
           /\ Current'[f] \notin {None, Current[f]}
           => \E t \in Times : Archive[<<f, t>>] = Current[f]]_vars

(***************************************************************************)
(* A version disappears only when its file has been deleted, or when it is *)
(* MaxBackupHours old and at least MaxBackupFiles newer versions of the    *)
(* same file remain (the comments in PUT's pruning loop).                  *)
(***************************************************************************)
VersionsLeaveOnlyByPolicy ==
    [][\A f \in Files : \A t \in Saved(f) :
           Archive'[<<f, t>>] # None
           \/ Current[f] = None
           \/ /\ now - t >= MaxBackupHours
              /\ Cardinality({u \in Saved(f)' : u > t}) >= MaxBackupFiles]_vars

(***************************************************************************)
(* The way to undo a PUT: when it is accepted, the newest version of the   *)
(* file, by its time, is the content that PUT found and replaced.          *)
(***************************************************************************)
UndoneByNewest(r) ==
    LET f == req[r].file IN
    Answered(r) /\ reply'[r].code = 202 /\ pc[r] = "replace" =>
        \E t \in Saved(f) : /\ \A u \in Saved(f) : u <= t
                            /\ Archive[<<f, t>>] = cur[r][f]
=============================================================================
