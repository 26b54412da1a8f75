------------------------------- MODULE Procedure -------------------------------
(***************************************************************************)
(* One call of one of the functions that work by themselves: which one it  *)
(* is, where it stands, and what it returned.  What else a function has is *)
(* declared in its own module, and is None while another one is called.    *)
(***************************************************************************)
CONSTANTS
    Called,     (* the functions that may be called                        *)
    None

VARIABLES function, pc, result

callVars == <<function, pc, result>>

CallInit == function \in Called /\ pc = "called" /\ result = "none"

At(f, where) == function = f /\ pc = where
Within(f)    == function = f /\ pc # "returned"
Done(f)      == function = f /\ pc = "returned"

(* The inputs a call of f may find.                                        *)
Input(f, inputs) == IF function = f THEN inputs ELSE {None}

GoTo(where) == pc' = where /\ UNCHANGED <<function, result>>
Return(r)   == pc' = "returned" /\ result' = r /\ UNCHANGED function
=============================================================================
