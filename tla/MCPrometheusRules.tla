-------------------------- MODULE MCPrometheusRules --------------------------
(* Model-checking instances of the rules endpoints.                        *)
EXTENDS PrometheusRulesProperties, TLC

CONSTANTS f1, f2, b1, b2

MCNames == {CurrentMap, VersionsMap}
MCKeys  == Files \cup VersionKeys

Maps(rules, archive) ==
    [n \in Names |-> IF n = CurrentMap THEN rules @@ EmptyMap
                                         ELSE archive @@ EmptyMap]

Empty == Maps(<<>>, <<>>)

(* f1 exists and was replaced at time 0; f2 exists and never was.          *)
OneReplaced == Maps(f1 :> b1 @@ f2 :> b1, <<f1, 0>> :> b2)

(* f1 was replaced at the times 0 and 1.                                   *)
TwoReplaced == Maps(f1 :> b1, <<f1, 0>> :> b1 @@ <<f1, 1>> :> b2)

(* f1 had been replaced at time 0 when its deletion failed half way.       *)
HalfDeleted == Maps(<<>>, <<f1, 0>> :> b2)

MCFromOneReplaced == {OneReplaced}
MCFromAny         == {Empty, OneReplaced, TwoReplaced, HalfDeleted}

MCNoExtends  == {}
MCF2ExtendsF1 == {<<f2, f1>>}

MCSymmetry == Permutations(Requests)
=============================================================================
