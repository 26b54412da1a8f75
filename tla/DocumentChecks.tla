---------------------------- MODULE DocumentChecks ----------------------------
(***************************************************************************)
(* The handlers' own validation of a body, before promtool:                *)
(* ValidateVMIPrometheusElements looks for what the operator put into      *)
(* prometheus.yml, its first three scrape jobs among it, and               *)
(* ValidatePrometheusRuleElements for the groups of a rule file.  A        *)
(* document is a record of what they ask of the parsed JSON.               *)
(***************************************************************************)
EXTENDS Procedure, Naturals, Sequences

CONSTANTS
    JobNames,   (* the names of jobs that may occur, the empty one too     *)
    NoName,     (* a job without a job_name, or with one that is no text   *)
    NoArray,    (* "scrape_configs" or "groups" missing, or no array       *)
    MaxJobs

Reserved == <<"prometheus", "PushGateway", "kubernetes-pods">>

ASSUME DocumentsAssumption ==
    /\ {Reserved[i] : i \in 1..3} \cup {""} \subseteq JobNames
    /\ NoName \notin JobNames
    /\ MaxJobs \in Nat

Configs ==
    [null: BOOLEAN, scrape_interval: BOOLEAN, rule_files: BOOLEAN,
     jobs: {NoArray} \cup UNION {[1..n -> JobNames \cup {NoName}] : n \in 0..MaxJobs}]

(* The empty object, or one with so many groups.                           *)
Rules == [empty: BOOLEAN, groups: {NoArray} \cup 0..2]

VARIABLE doc    (* the document in the body of a PUT                       *)

CheckingConfig == "ValidateVMIPrometheusElements"
CheckingRules  == "ValidatePrometheusRuleElements"

DocInit ==
    doc \in IF function = CheckingConfig THEN Configs ELSE Input(CheckingRules, Rules)

-----------------------------------------------------------------------------
HasElements(d) ==
    /\ ~d.null /\ d.scrape_interval /\ d.rule_files
    /\ d.jobs # NoArray /\ Len(d.jobs) >= 3

(* Faulty variant: only as many jobs are compared as are reserved but one. *)
ConfigVerdictTwoJobs(d) ==
    IF ~HasElements(d) THEN "refused"
    ELSE LET wrong == {i \in 1..2 : d.jobs[i] # Reserved[i]} IN
         IF wrong = {} THEN "accepted"
         ELSE LET first == CHOOSE i \in wrong : \A j \in wrong : i <= j
              IN  IF d.jobs[first] \in {NoName, ""} THEN "panic" ELSE "refused"

(* The first job that is not the one expected decides.  Without a name the *)
(* type assertion fails; with an empty one there is no error to report.    *)
ConfigVerdict(d) ==
    IF ~HasElements(d) THEN "refused"
    ELSE LET wrong == {i \in 1..3 : d.jobs[i] # Reserved[i]} IN
         IF wrong = {} THEN "accepted"
         ELSE LET first == CHOOSE i \in wrong : \A j \in wrong : i <= j
              IN  IF d.jobs[first] \in {NoName, ""} THEN "panic" ELSE "refused"

RuleVerdict(d) == IF d.empty \/ d.groups = NoArray THEN "refused" ELSE "accepted"

Validate ==
    /\ \/ At(CheckingConfig, "called") /\ Return(ConfigVerdict(doc))
       \/ At(CheckingRules, "called") /\ Return(RuleVerdict(doc))
    /\ UNCHANGED doc

-----------------------------------------------------------------------------
(***************************************************************************)
(* A configuration is accepted only if it has every element and job of the *)
(* operator's in its place ("customers have not removed stuff added by VMI *)
(* Team"), and one that has them all is accepted whatever else it holds; a *)
(* panic is confined to documents in which a reserved job has no name.     *)
(***************************************************************************)
ReservedPartsAreKept ==
    Done(CheckingConfig) =>
        LET Kept(i) == doc.jobs # NoArray /\ i \in DOMAIN doc.jobs /\ doc.jobs[i] = Reserved[i]
        IN  /\ result = "accepted" <=>
                   ~doc.null /\ doc.scrape_interval /\ doc.rule_files /\ \A i \in 1..3 : Kept(i)
            /\ result = "panic" => \E i \in 1..3 : /\ doc.jobs[i] \in {NoName, ""}
                                                   /\ \A j \in 1..(i - 1) : Kept(j)
=============================================================================
