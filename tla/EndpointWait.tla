----------------------------- MODULE EndpointWait -----------------------------
(***************************************************************************)
(* WaitForEndpointAvailable and Retry (helper.go): up to Steps requests to *)
(* an endpoint, with growing pauses, until one is answered with status     *)
(* 200.  Retry never lets an error of an attempt end the loop; it keeps    *)
(* the error and returns it in the end.  The endpoint changes as it likes, *)
(* and a request to one that is up may still fail.                         *)
(***************************************************************************)
EXTENDS Procedure, Naturals

CONSTANT Steps      (* of EndpointBackoffSchedule                          *)

ASSUME StepsAssumption == Steps \in Nat \ {0}

VARIABLES
    endpoint,   (* down, up but not answering 200, or ready                *)
    left,       (* how many attempts the schedule still has                *)
    made,       (* history: how many attempts were made                    *)
    lastErr,    (* whether an attempt has ended in an error                *)
    seen        (* history: what the attempts met                          *)

waitVars == <<endpoint, left, made, lastErr, seen>>
Waiting  == "WaitForEndpointAvailable"
EndpointStates == {"down", "starting", "ready"}

WaitInit ==
    /\ endpoint \in Input(Waiting, EndpointStates)
    /\ left = Steps /\ lastErr = FALSE
    /\ made = 0 /\ seen = {}

-----------------------------------------------------------------------------
(* Retry returns the last error there was, whatever came of the loop.      *)
RetryReturns(outcome, failed) == Return(IF failed THEN "error" ELSE outcome)

(* Faulty variant: the loop gives up before its last attempt.              *)
GivesUpEarly(failed) ==
    /\ left' = left - 1
    /\ IF left = 2 THEN RetryReturns("timeout", failed) ELSE GoTo("pause")

(* After an attempt without success the loop pauses, or is over.           *)
GoesOn(failed) ==
    /\ left' = left - 1
    /\ IF left = 1 THEN RetryReturns("timeout", failed) ELSE GoTo("pause")

Attempt ==
    /\ At(Waiting, "called")
    /\ \/ /\ endpoint = "ready"
          /\ RetryReturns("nil", lastErr)
          /\ seen' = seen \cup {"ready"}
          /\ UNCHANGED <<left, lastErr>>
       \/ /\ endpoint = "starting"
          /\ GoesOn(lastErr)
          /\ seen' = seen \cup {"starting"}
          /\ UNCHANGED lastErr
       \/ /\ lastErr' = TRUE
          /\ GoesOn(TRUE)
          /\ seen' = seen \cup {"down"}
    /\ made' = made + 1
    /\ UNCHANGED endpoint

Pause ==
    /\ At(Waiting, "pause")
    /\ GoTo("called")
    /\ UNCHANGED waitVars

EndpointChanges ==
    /\ Within(Waiting)
    /\ endpoint' \in EndpointStates
    /\ UNCHANGED <<callVars, left, made, lastErr, seen>>

WaitSteps == Attempt \/ Pause
WaitNext  == WaitSteps \/ EndpointChanges

-----------------------------------------------------------------------------
(***************************************************************************)
(* No success is reported that was not seen, and the wait is given up only *)
(* after all of its attempts, reported as a timeout only when all of them  *)
(* were answered.  (An error may hide a success: Retry returns the error   *)
(* of an attempt also when a later one found the endpoint ready.)          *)
(***************************************************************************)
ResultsAreEarned ==
    Done(Waiting) =>
        /\ result = "nil" => seen \in {{"ready"}, {"starting", "ready"}}
        /\ "ready" \notin seen => made = Steps
        /\ result = "timeout" => seen = {"starting"}
        /\ result = "error" => "down" \in seen
=============================================================================
