---------------------------- MODULE MCCheckedRules ----------------------------
(* Small instances of the rules endpoints with their validation.           *)
EXTENDS CheckedRules, TLC

CONSTANTS f1, f2, good, bad

MCNames == {CurrentMap, VersionsMap}
MCKeys  == Files \cup VersionKeys

Maps(rules, archive) ==
    [n \in Names |-> IF n = CurrentMap THEN rules @@ EmptyMap
                                         ELSE archive @@ EmptyMap]

(* There are no rules; f1 exists and was replaced at time 0, f2 exists and *)
(* never was.                                                              *)
NoRules     == Maps(<<>>, <<>>)
OneReplaced == Maps(f1 :> good @@ f2 :> good, <<f1, 0>> :> bad)

MCNoRules   == {NoRules}
MCEither    == {NoRules, OneReplaced}
MCNoExtends == {}
MCSymmetry  == Permutations(Requests)
=============================================================================
