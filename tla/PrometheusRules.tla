--------------------------- MODULE PrometheusRules ---------------------------
(***************************************************************************)
(* The handlers of /prometheus/rules (handlers/prometheushandler.go): list *)
(* the rule files, list the versions of one, read one, replace or create   *)
(* one, delete one.  The files are in the ConfigMap "alertrules", their    *)
(* older versions in "alertrules-versions".                                *)
(***************************************************************************)
EXTENDS Handlers

(* A rule file is never empty: validation wants its groups.                *)
ASSUME RulesAssumption == Blank \notin Values

(* An unusable name, version or body: 400, or 500 when the body of a PUT   *)
(* cannot be read or parsed.  Nothing has been read yet.  Without a        *)
(* temporary file for promtool the handler panics, and answers nothing.    *)
Reject(r) ==
    /\ pc[r] = "arrived"
    /\ req[r].op # "list"
    /\ \/ Answer(r, 400, {})
       \/ req[r].op = "put" /\ Answer(r, 500, {})
       \/ req[r].op = "put" /\ MayFail /\ Answer(r, NoReply.code, NoReply.content)

-----------------------------------------------------------------------------
(* GET: the list, the versions of a file, a file, a version of a file.     *)

GetPrometheusRuleNames(r) ==
    /\ pc[r] = "arrived" /\ req[r].op = "list"
    /\ Answer(r, 200, {k \in Keys : Current[k] # None})

(* Any endpoint but PUT and DELETE gives up at once on an unknown file.    *)
FileNotFound(r) ==
    /\ pc[r] = "arrived" /\ req[r].op \in {"versions", "get"}
    /\ Current[req[r].file] = None
    /\ Answer(r, 404, {})

GetCurrent(r) ==
    /\ pc[r] = "arrived" /\ req[r].op = "get" /\ req[r].version = None
    /\ Current[req[r].file] # None
    /\ Answer(r, 200, {Current[req[r].file]})

(* Every other request that reads on.                                      *)
ReadCurrent(r) ==
    /\ pc[r] = "arrived"
    /\ \/ req[r].op \in {"put", "delete"}
       \/ /\ req[r].op = "versions" \/ (req[r].op = "get" /\ req[r].version # None)
          /\ Current[req[r].file] # None
    /\ TakeCurrent(r)

GetPrometheusRuleVersions(r) ==
    /\ pc[r] = "readOne" /\ req[r].op = "versions"
    /\ Answer(r, 200, Matching(Archive, req[r].file))

GetVersion(r) ==
    /\ pc[r] = "readOne" /\ req[r].op = "get"
    /\ LET body == Archive[<<req[r].file, req[r].version>>]
       IN  IF body = None THEN Answer(r, 404, {}) ELSE Answer(r, 200, {body})

Read(r) ==
    \/ GetPrometheusRuleNames(r)
    \/ FileNotFound(r)
    \/ GetCurrent(r)
    \/ ReadCurrent(r)
    \/ GetPrometheusRuleVersions(r)
    \/ GetVersion(r)
    \/ ReadSaved(r)

-----------------------------------------------------------------------------
(* PUT *)

(* Faulty variant: nothing is saved.                                       *)
PutNoBackup(r) ==
    /\ PutStart(r)
    /\ cur[r][req[r].file] \notin {None, req[r].body}
    /\ Replace(r, "replace")

(* Faulty variant: the new body is saved instead of the old one.           *)
PutBackupOfBody(r) ==
    /\ PutStart(r)
    /\ cur[r][req[r].file] \notin {None, req[r].body}
    /\ Backup(r, req[r].body)

(* Faulty variant: the version is added to the wrong copy.                 *)
PutBackupMixed(r) ==
    /\ PutStart(r)
    /\ cur[r][req[r].file] \notin {None, req[r].body}
    /\ LET f == req[r].file
           saved == [cur[r] EXCEPT ![<<f, now>>] = cur[r][f]]
       IN  \E m \in Pruned(saved, f, now) : Ask(r, VersionsMap, m, "backup")

PutBackup(r) ==
    /\ PutStart(r)
    /\ cur[r][req[r].file] \notin {None, req[r].body}
    /\ Backup(r, cur[r][req[r].file])

(* Faulty variant: the error of the first update is ignored.               *)
PutReplaceUnchecked(r) ==
    /\ pc[r] = "backup" /\ call[r].phase \in {"ok"} \cup Failed
    /\ Replace(r, "replace")

PutReplace(r) ==
    /\ Updated(r, "backup")
    /\ Replace(r, "replace")

PutCreate(r) ==
    /\ PutStart(r)
    /\ cur[r][req[r].file] = None
    /\ Replace(r, "create")

PutPrometheusRules(r) ==
    PutIdentical(r) \/ PutBackup(r) \/ PutReplace(r) \/ PutCreate(r)

-----------------------------------------------------------------------------
(* DELETE *)

DeleteStart(r) == pc[r] = "readBoth" /\ req[r].op = "delete"

DeleteMissing(r) ==
    /\ DeleteStart(r)
    /\ cur[r][req[r].file] = None
    /\ Answer(r, 404, {})

DeleteCurrent(r) ==
    /\ DeleteStart(r)
    /\ cur[r][req[r].file] # None
    /\ Ask(r, CurrentMap, Without(cur[r], {req[r].file}), "remove")

(* Faulty variant: the versions are looked up in the wrong copy.           *)
DeleteNoVersions(r) ==
    /\ Updated(r, "remove")
    /\ Ask(r, VersionsMap, Without(sav[r], Matching(cur[r], req[r].file)), "purge")

(* The versions deleted are those of the map read before the update of     *)
(* "alertrules".                                                           *)
DeleteVersions(r) ==
    /\ Updated(r, "remove")
    /\ Ask(r, VersionsMap, Without(sav[r], Matching(sav[r], req[r].file)), "purge")

DeletePrometheusRules(r) ==
    DeleteMissing(r) \/ DeleteCurrent(r) \/ DeleteVersions(r)

-----------------------------------------------------------------------------
(* What a handler does when the API server answers.                        *)
Progress(r) ==
    \/ Read(r)
    \/ PutPrometheusRules(r)
    \/ DeletePrometheusRules(r)
    \/ UpdateMap(r)
    \/ UpdateError(r)
    \/ Finish(r)

Next ==
    \/ \E r \in Requests : \/ Arrive(r)
                           \/ Reject(r)
                           \/ Progress(r)
                           \/ ReadFails(r)
                           \/ UpdateMapFails(r)
    \/ Tick
    \/ Crash

Spec == Init /\ [][Next]_vars
=============================================================================
