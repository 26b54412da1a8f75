------------------------------ MODULE NameChecks ------------------------------
(***************************************************************************)
(* The names of rule files: what PUT lets through (its own test of the     *)
(* suffix and validateName), and what the API server takes as the key of a *)
(* ConfigMap (external; ValidateConfigMapKeyName in helper.go is meant for *)
(* the same, but only its test calls it).  A name is its length, the kinds *)
(* of characters in it before the suffix, whether it is "." or begins with *)
(* "..", and whether it ends in ".rules".                                  *)
(***************************************************************************)
EXTENDS Procedure, Naturals, FiniteSets

CONSTANTS
    MaxLength       (* of the names considered                             *)

ASSUME NamesAssumption == MaxLength \in Nat

KeyLimit    == 253  (* the longest key of a ConfigMap                      *)
StampLength == 20   (* of "-" and the time in the key of a version         *)
SuffixLength == 6   (* of ".rules"                                         *)

(* Letters, digits and "_"; "-"; "."; and everything else.                 *)
Kinds == {"word", "dash", "dot", "other"}

(* What fits into the length: a character of each kind, and ".." at the    *)
(* beginning besides, where the suffix does not bring the second dot.      *)
FileNames ==
    {n \in [length: 1..MaxLength, stem: SUBSET Kinds, dots: BOOLEAN, rules: BOOLEAN] :
        LET rest == IF n.rules THEN n.length - SuffixLength ELSE n.length
        IN  /\ Cardinality(n.stem) <= rest /\ (n.stem = {} => rest = 0)
            /\ n.stem = {"dot"} => n.dots
            /\ n.dots => n.stem = {"dot"} \/ ("dot" \in n.stem /\ Cardinality(n.stem) < rest)}

VARIABLES
    name,       (* of the file in question                                 *)
    stored      (* how often its content was stored: created, replaced     *)

nameVars == <<name, stored>>
Naming   == "PutPrometheusRules"

NameInit == name \in Input(Naming, FileNames) /\ stored = 0

-----------------------------------------------------------------------------
(* Faulty variant: the expression is anchored, and the suffix forgotten.   *)
ValidateAnchored(n) == n.stem \subseteq {"word", "dash"} /\ ~n.rules

(* The expression is not anchored: one word character anywhere, those of   *)
(* the suffix included, will do.                                           *)
validateName(n) == "word" \in n.stem \/ n.rules

IsConfigMapKey(n) ==
    n.length \in 1..KeyLimit /\ "other" \notin n.stem /\ ~n.dots

(* ".rules" alone is no name.                                              *)
PutAccepts(n) == n.rules /\ n.stem # {} /\ validateName(n)

(* The key a version of the file is saved under.                           *)
VersionKey(n) ==
    [n EXCEPT !.length = @ + StampLength, !.stem = @ \cup {"word", "dash", "dot"},
              !.rules = FALSE]

(* The first PUT creates the file, the next one saves a version of it and  *)
(* replaces it.  The API server refuses a key it does not like.            *)
Put ==
    /\ Within(Naming)
    /\ LET key == IF stored = 0 THEN name ELSE VersionKey(name) IN
       \/ ~PutAccepts(name) /\ Return("400") /\ UNCHANGED stored
       \/ /\ PutAccepts(name) /\ ~IsConfigMapKey(key)
          /\ Return("500") /\ UNCHANGED stored
       \/ /\ PutAccepts(name) /\ IsConfigMapKey(key)
          /\ stored' = stored + 1
          /\ IF stored = 1 THEN Return("202") ELSE GoTo("created")
    /\ UNCHANGED name

-----------------------------------------------------------------------------
(* "Rules names may contain only ASCII A-Za-z0-9-_"                        *)
Documented == name.rules /\ name.stem # {} /\ name.stem \subseteq {"word", "dash"}

(***************************************************************************)
(* A file may have any name of the documented characters and a length that *)
(* the API server takes: it can be created, and replaced too, unless its   *)
(* name is so long that the key of its version, which is longer by         *)
(* StampLength, is none: nothing tells when the file is created.           *)
(***************************************************************************)
DocumentedNamesWork ==
    Done(Naming) /\ Documented =>
        stored = IF name.length <= KeyLimit - StampLength THEN 2
                 ELSE IF name.length <= KeyLimit THEN 1 ELSE 0
=============================================================================
