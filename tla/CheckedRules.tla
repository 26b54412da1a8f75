----------------------------- MODULE CheckedRules -----------------------------
(***************************************************************************)
(* The rules endpoints with the validation of the bodies: the handlers of  *)
(* PrometheusRules, and for every PUT the check of TempFiles it waits for  *)
(* before it reads the maps.  What PrometheusRules leaves open, whether a  *)
(* body is turned down, is decided here by the check.                      *)
(***************************************************************************)
EXTENDS PrometheusRulesProperties, TempFiles

(* Faults come together: who lets files fail lets calls fail.              *)
ASSUME CheckedAssumption == ChecksMayFail => MayFail

checkedVars == <<vars, tempVars>>

Validating(r) == pc[r] = "arrived" /\ req[r].op = "put"
Verdict(r)    == IF task[r].at = "done" THEN task[r].verdict ELSE None

CheckedInit == Init /\ TempInit

-----------------------------------------------------------------------------
(* Faulty variant: the error of the check is dropped.                      *)
VerdictIgnored(r) == Validating(r) => task[r].at = "done"

(* Everything else a PUT does comes after an error-free check.             *)
Validated(r) == Validating(r) => Verdict(r) = "valid"

CheckBody(r) ==
    /\ Validating(r)
    /\ Start(r, req[r].body) \/ GoOn(r)
    /\ UNCHANGED vars

(* Before the check a PUT is turned down for its name or its form; after   *)
(* it, for its verdict.  Without a temporary file the handler means to log *)
(* its name, and panics.                                                   *)
TurnDown(r) ==
    \/ req[r].op # "put" /\ Reject(r)
    \/ /\ Validating(r)
       /\ \/ task[r].at = "new" /\ \E code \in {400, 500} : Answer(r, code, {})
          \/ Verdict(r) \in {"invalid", "error"} /\ Answer(r, 400, {})
          \/ Verdict(r) = "unsaved" /\ Answer(r, NoReply.code, NoReply.content)

Serve(r) ==
    \/ CheckBody(r)
    \/ /\ \/ pc[r] = "arrived" /\ TurnDown(r)
          \/ Validated(r) /\ (Progress(r) \/ ReadFails(r))
          \/ UpdateMapFails(r)
       /\ UNCHANGED tempVars

CheckedNext ==
    \/ \E r \in Requests : Serve(r) \/ (Arrive(r) /\ UNCHANGED tempVars)
    \/ Tick /\ UNCHANGED tempVars
    \/ Crash /\ ServerDies

CheckedSpec == CheckedInit /\ [][CheckedNext]_checkedVars

-----------------------------------------------------------------------------
(***************************************************************************)
(* No invalid rules are ever in force unless a check shared its temporary  *)
(* file: whatever was in a rule file was there at the start, or promtool   *)
(* accepts it, or its PUT had another check under the same file name while *)
(* it was checked.                                                         *)
(***************************************************************************)
InForceIsValid ==
    \A f \in Files : \A b \in served[f] \ Valid :
        \/ \E c \in InitialContents :
               c[CurrentMap][f] = b \/ \E t \in Times : c[VersionsMap][<<f, t>>] = b
        \/ \E r \in Requests : /\ pc[r] # "new" /\ req[r].op = "put"
                               /\ req[r].file = f /\ req[r].body = b
                               /\ sharers[r] # {}

(***************************************************************************)
(* "Validate with promtool": an accepted body is one promtool accepts.     *)
(***************************************************************************)
AcceptedIsValid ==
    \A r \in Requests :
        pc[r] = "done" /\ reply[r].code = 202 /\ req[r].op = "put" => req[r].body \in Valid
=============================================================================
