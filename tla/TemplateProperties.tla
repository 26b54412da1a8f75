-------------------------- MODULE TemplateProperties --------------------------
(* What the template handlers promise as long as requests come one by one. *)
EXTENDS AlertmanagerTemplates

OneInFlight == \A r, q \in InFlight : r = q

(* The handlers with a history: have the requests so far come one by one?  *)
VARIABLE alone

aloneVars == <<vars, alone>>

AloneInit == Init /\ alone = TRUE
AloneNext == Next /\ alone' = (alone /\ OneInFlight')
AloneSpec == AloneInit /\ [][AloneNext]_aloneVars

(***************************************************************************)
(* As long as no two requests are in progress at once, the handlers store  *)
(* or delete one template of a set, although every update rewrites the     *)
(* whole map and may be cut off anywhere.                                  *)
(***************************************************************************)
IsTemplateStoreAlone ==
    Store!Init /\ [][alone' => [Store!Next]_Template]_aloneVars
=============================================================================
