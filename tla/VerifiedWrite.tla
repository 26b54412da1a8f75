--------------------------- MODULE VerifiedWrite ---------------------------
(***************************************************************************)
(* What updateConfigMapByName promises its caller, without resource        *)
(* versions, polls or timers.  It is a blind write: the map becomes what   *)
(* the caller asked for at one instant, whatever it held before.  The      *)
(* write happens at most once.  "ok" is answered only at an instant at     *)
(* which the map holds what the caller asked for; "err" says nothing: the  *)
(* write may or may not have happened.                                     *)
(***************************************************************************)
CONSTANTS Requests, Names, Contents, Initial

VARIABLES
    data,       (* per name, the content of the map                        *)
    op          (* per request, its write                                  *)

vars == <<data, op>>

Init ==
    /\ data \in Initial
    /\ op \in [Requests -> [st: {"idle"}, name: Names, content: Contents]]

Ask(r) ==
    /\ op[r].st = "idle"
    /\ \E n \in Names, c \in Contents :
           op' = [op EXCEPT ![r] = [st |-> "asked", name |-> n, content |-> c]]
    /\ UNCHANGED data

Write(r, next) ==
    /\ op[r].st = "asked"
    /\ data' = [data EXCEPT ![op[r].name] = op[r].content]
    /\ op' = [op EXCEPT ![r].st = next]

Confirm(r) ==
    /\ op[r].st = "written"
    /\ data[op[r].name] = op[r].content
    /\ op' = [op EXCEPT ![r].st = "ok"]
    /\ UNCHANGED data

Refuse(r) ==
    /\ op[r].st \in {"asked", "written"}
    /\ op' = [op EXCEPT ![r].st = "err"]
    /\ UNCHANGED data

Next == \E r \in Requests :
            \/ Ask(r)
            \/ Write(r, "written")
            \/ Write(r, "err")
            \/ Confirm(r)
            \/ Refuse(r)

Spec == Init /\ [][Next]_vars
=============================================================================
