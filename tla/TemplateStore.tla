---------------------------- MODULE TemplateStore ----------------------------
(***************************************************************************)
(* What the template endpoints promise: a set of named templates, of which *)
(* a request stores or deletes one, at once and without touching the rest. *)
(***************************************************************************)
CONSTANTS Names, Bodies, None

VARIABLE templates

Init == templates \in [Names -> Bodies \cup {None}]

Put(n)    == \E b \in Bodies : templates' = [templates EXCEPT ![n] = b]
Delete(n) == templates' = [templates EXCEPT ![n] = None]

Next == \E n \in Names : Put(n) \/ Delete(n)
Spec == Init /\ [][Next]_templates
=============================================================================
