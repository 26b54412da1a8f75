-------------------------- MODULE MCPrometheusConfig --------------------------
(* Model-checking instances of the configuration endpoints.                *)
EXTENDS PrometheusConfigProperties, TLC

CONSTANTS yml, b1, b2

MCKeys  == Files \cup VersionKeys
MCNames == {CurrentMap, VersionsMap}

Maps(config, archive) ==
    [n \in Names |-> IF n = CurrentMap THEN config @@ EmptyMap
                                       ELSE archive @@ EmptyMap]

(* Nothing there; a configuration that was replaced at time 0.             *)
Empty       == Maps(<<>>, <<>>)
OneReplaced == Maps(yml :> b1, <<yml, 0>> :> b2)

MCEmpty     == {Empty}
MCEither    == {Empty, OneReplaced}
MCNoExtends == {}

MCSpec == AloneSpec /\ Fairness
=============================================================================
