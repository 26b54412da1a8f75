--------------------------- MODULE PrometheusConfig ---------------------------
(***************************************************************************)
(* The handlers of /prometheus/config                                      *)
(* (handlers/prometheusconfighandler.go): read the configuration or a      *)
(* version of it, list the versions, replace the configuration.  There is  *)
(* one file, the key "prometheus.yml" of the ConfigMap                     *)
(* "prometheus-config"; its older versions are in                          *)
(* "prometheus-config-versions".  An empty ConfigMap is read as a nil map. *)
(***************************************************************************)
EXTENDS Handlers

ASSUME ConfigAssumption ==
    /\ Cardinality(Files) = 1
    /\ Blank \in Values
    /\ Operations \subseteq {"get", "versions", "put"}

(* A version that is no timestamp, or an unusable body.  A configuration   *)
(* with a job that has no name makes the validation panic (DocumentChecks).*)
Reject(r) ==
    /\ pc[r] = "arrived"
    /\ \/ /\ req[r].op = "put" \/ req[r].version # None
          /\ Answer(r, 400, {})
       \/ req[r].op = "put" /\ Answer(r, 500, {})
       \/ req[r].op = "put" /\ Answer(r, NoReply.code, NoReply.content)

-----------------------------------------------------------------------------
(* GET: every one of them reads a single map.                              *)

GetPrometheusConfig(r) ==
    /\ pc[r] = "arrived" /\ req[r].op = "get" /\ req[r].version = None
    /\ LET body == Current[req[r].file]
       IN  IF body = None THEN Answer(r, 500, {}) ELSE Answer(r, 200, {body})

(* Faulty variant: the empty text is served.                               *)
GetBlankVersion(r) ==
    /\ pc[r] = "arrived" /\ req[r].op = "get" /\ req[r].version # None
    /\ LET body == Archive[<<req[r].file, req[r].version>>]
       IN  IF body = None THEN Answer(r, 404, {}) ELSE Answer(r, 200, {body})

(* A version without a text is as good as none.                            *)
GetVersion(r) ==
    /\ pc[r] = "arrived" /\ req[r].op = "get" /\ req[r].version # None
    /\ LET body == Archive[<<req[r].file, req[r].version>>]
       IN  IF body \in {None, Blank} THEN Answer(r, 404, {}) ELSE Answer(r, 200, {body})

GetPrometheusVersions(r) ==
    /\ pc[r] = "arrived" /\ req[r].op = "versions"
    /\ Answer(r, 200, Matching(Archive, req[r].file))

ReadCurrent(r) ==
    /\ pc[r] = "arrived" /\ req[r].op = "put"
    /\ TakeCurrent(r)

Read(r) ==
    \/ GetPrometheusConfig(r)
    \/ GetVersion(r)
    \/ GetPrometheusVersions(r)
    \/ ReadCurrent(r)
    \/ ReadSaved(r)

-----------------------------------------------------------------------------
(* PUT *)

(* Faulty variant: nothing is saved.                                       *)
PutNoBackup(r) ==
    /\ PutStart(r)
    /\ cur[r][req[r].file] # req[r].body
    /\ Replace(r, "replace")

(* Faulty variant: the new body is saved instead of the old one.           *)
PutBackupOfBody(r) ==
    /\ PutStart(r)
    /\ cur[r][req[r].file] # req[r].body
    /\ Backup(r, req[r].body)

(* The configuration about to be replaced becomes a version, a missing one *)
(* the empty text.                                                         *)
PutBackup(r) ==
    /\ PutStart(r)
    /\ LET found == cur[r][req[r].file]
       IN  /\ found # req[r].body
           /\ Backup(r, IF found = None THEN Blank ELSE found)

(* Faulty variant: the error of the first update is ignored.               *)
PutReplaceUnchecked(r) ==
    /\ pc[r] = "backup" /\ call[r].phase \in {"ok"} \cup Failed
    /\ cur[r][req[r].file] # None
    /\ Replace(r, "replace")

PutReplace(r) ==
    /\ Updated(r, "backup")
    /\ cur[r][req[r].file] # None
    /\ Replace(r, "replace")

(* The assignment to the nil map of an empty ConfigMap panics.  net/http   *)
(* drops the connection: the client gets no answer.                        *)
PutPanic(r) ==
    /\ Updated(r, "backup")
    /\ cur[r][req[r].file] = None
    /\ Answer(r, NoReply.code, NoReply.content)

PutPrometheusConfig(r) ==
    PutIdentical(r) \/ PutBackup(r) \/ PutReplace(r) \/ PutPanic(r)

-----------------------------------------------------------------------------
(* What a handler does when the API server answers.                        *)
Progress(r) ==
    \/ Read(r)
    \/ PutPrometheusConfig(r)
    \/ UpdateMap(r)
    \/ UpdateError(r)
    \/ Finish(r)

Next ==
    \/ \E r \in Requests : \/ Arrive(r)
                           \/ Reject(r)
                           \/ Progress(r)
                           \/ ReadFails(r)
                           \/ UpdateMapFails(r)
    \/ Tick
    \/ Crash

Spec == Init /\ [][Next]_vars

(* Every goroutine runs on, and the API server answers.                    *)
Fairness == \A r \in Requests : WF_vars(Reject(r) \/ Progress(r))
=============================================================================
