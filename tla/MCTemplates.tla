----------------------------- MODULE MCTemplates -----------------------------
(* A small instance of the template handlers.                              *)
EXTENDS TemplateProperties, TLC

CONSTANTS t1, t2, b1

(* No templates, and one.                                                  *)
MCInitial  == {EmptyMap, [EmptyMap EXCEPT ![t1] = b1]}
MCSymmetry == Permutations(Requests)
=============================================================================
