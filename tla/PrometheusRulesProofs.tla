------------------------ MODULE PrometheusRulesProofs ------------------------
(***************************************************************************)
(* Theorems about the rules endpoints: the lemmas of HandlerLemmas put     *)
(* together over their steps.                                              *)
(***************************************************************************)
EXTENDS PrometheusRulesProperties, HandlerLemmas

(* A handler's step is one of a request that is in progress.               *)
LEMMA RequestRuns ==
    ASSUME TypeInv, NEW r \in Requests,
           Reject(r) \/ Read(r) \/ PutPrometheusRules(r) \/ DeletePrometheusRules(r)
    PROVE  pc[r] \in Running /\ req[r] \in RequestSet /\ req[r].file \in Files
<1>1. pc[r] \in Running
  BY DEF Reject, Read, GetPrometheusRuleNames, FileNotFound, GetCurrent, ReadCurrent,
         GetPrometheusRuleVersions, GetVersion, ReadSaved,
         PutPrometheusRules, PutIdentical, PutBackup, PutReplace, PutCreate, PutStart,
         DeletePrometheusRules, DeleteMissing, DeleteCurrent, DeleteVersions,
         DeleteStart, Updated, Running, Updating
<1> QED  BY <1>1, RequestFacts DEF TypeInv, Positions, Running, Updating

-----------------------------------------------------------------------------
(* Types.                                                                  *)

LEMMA ReadTypes ==
    ASSUME TypeInv, NEW r \in Requests, Read(r)
    PROVE  TypeInv'
<1> DEFINE f == req[r].file
<1>1. pc[r] \in Running /\ req[r] \in RequestSet /\ f \in Files /\ f \in Keys
  BY RequestRuns, KeyFacts
<1>2. Current \in CurrentContent /\ Archive \in VersionContent
  BY MapNames DEF TypeInv, Shapes, Current, Archive
<1>3. Current \in [Keys -> Values \cup {None}] /\ Archive \in [Keys -> Bodies \cup {None}]
      /\ Current[f] # Blank
  BY <1>1, <1>2, RulesAssumption DEF CurrentContent, VersionContent, MapData, Bodies
<1>4. CASE GetPrometheusRuleNames(r)
  BY <1>1, <1>4, AnswerTypes DEF GetPrometheusRuleNames
<1>5. CASE FileNotFound(r)
  BY <1>1, <1>5, AnswerTypes DEF FileNotFound
<1>6. CASE GetCurrent(r)
  <2>1. {Current[f]} \in SUBSET (Keys \cup Bodies)
    BY <1>1, <1>3, <1>6 DEF GetCurrent, Bodies
  <2> QED  BY <1>1, <1>6, <2>1, AnswerTypes DEF GetCurrent
<1>7. CASE ReadCurrent(r)
  BY <1>7, CopyTypes DEF ReadCurrent
<1>8. CASE GetPrometheusRuleVersions(r)
  <2>1. Matching(Archive, f) \in SUBSET (Keys \cup Bodies)
    BY KeyFacts DEF Matching
  <2> QED  BY <1>1, <1>8, <2>1, AnswerTypes DEF GetPrometheusRuleVersions
<1>9. CASE GetVersion(r)
  <2> DEFINE body == Archive[<<f, req[r].version>>]
  <2>1. CASE body = None
    BY <1>1, <1>9, <2>1, AnswerTypes DEF GetVersion
  <2>2. CASE body # None
    <3>1. req[r].version \in Times /\ <<f, req[r].version>> \in Keys
      BY <1>1, <1>9, RequestFacts, KeyFacts DEF GetVersion, TypeInv, Positions
    <3>2. {body} \in SUBSET (Keys \cup Bodies)
      BY <2>2, <3>1, <1>3
    <3> QED  BY <1>1, <1>9, <2>2, <3>2, AnswerTypes DEF GetVersion
  <2> QED  BY <2>1, <2>2
<1>10. CASE ReadSaved(r)
  BY <1>10, CopyTypes
<1> QED  BY <1>4, <1>5, <1>6, <1>7, <1>8, <1>9, <1>10 DEF Read

LEMMA PutTypes ==
    ASSUME TypeInv, NEW r \in Requests, PutPrometheusRules(r)
    PROVE  TypeInv'
<1> DEFINE f == req[r].file
<1>1. req[r] \in RequestSet /\ f \in Files /\ req[r].op = "put"
  BY RequestRuns
     DEF PutPrometheusRules, PutIdentical, PutBackup, PutReplace, PutCreate, PutStart,
         Updated, TypeInv, Positions
<1>2. CASE PutIdentical(r)
  BY <1>2, CommonTypes DEF Common
<1>3. CASE PutBackup(r)
  <2>1. cur[r][f] \in Values
    BY <1>1, <1>3, KeyFacts DEF PutBackup, TypeInv, Types, CurrentContent, MapData
  <2> QED  BY <1>1, <1>3, <2>1, BackupTypes DEF PutBackup
<1>4. CASE PutReplace(r)
  BY <1>1, <1>4, ReplaceTypes DEF PutReplace
<1>5. CASE PutCreate(r)
  BY <1>1, <1>5, ReplaceTypes DEF PutCreate
<1> QED  BY <1>2, <1>3, <1>4, <1>5 DEF PutPrometheusRules

LEMMA DeleteTypes ==
    ASSUME TypeInv, NEW r \in Requests, DeletePrometheusRules(r)
    PROVE  TypeInv'
<1>1. pc[r] \in Running /\ req[r] \in RequestSet /\ req[r].op = "delete"
  BY RequestRuns
     DEF DeletePrometheusRules, DeleteMissing, DeleteCurrent, DeleteVersions,
         DeleteStart, Updated, TypeInv, Positions
<1>2. \A S : /\ Without(cur[r], S) \in Shape(CurrentMap)
             /\ Without(sav[r], S) \in Shape(VersionsMap)
  BY MapNames, WithoutShape DEF TypeInv, Types
<1>3. CASE DeleteMissing(r)
  BY <1>1, <1>3, AnswerTypes DEF DeleteMissing
<1>4. CASE DeleteCurrent(r)
  BY <1>1, <1>2, <1>4, AskTypes, MapNames DEF DeleteCurrent, Updating
<1>5. CASE DeleteVersions(r)
  BY <1>1, <1>2, <1>5, AskTypes, MapNames DEF DeleteVersions, Updating
<1> QED  BY <1>3, <1>4, <1>5 DEF DeletePrometheusRules

LEMMA NextTypes == TypeInv /\ [Next]_vars => TypeInv'
<1> SUFFICES ASSUME TypeInv, [Next]_vars PROVE TypeInv'
  OBVIOUS
<1>1. ASSUME NEW r \in Requests, Reject(r) PROVE TypeInv'
  BY <1>1, RequestRuns, AnswerTypes DEF Reject, NoReply
<1>2. ASSUME NEW r \in Requests, Common(r) \/ Arrive(r) PROVE TypeInv'
  BY <1>2, CommonTypes, ArriveTypes
<1>3. CASE Tick \/ Crash \/ UNCHANGED vars
  BY <1>3, TickTypes, CrashTypes, StutterTypes
<1> QED  BY <1>1, <1>2, <1>3, ReadTypes, PutTypes, DeleteTypes DEF Next, Progress, Common

(***************************************************************************)
(* Every variable of the rules endpoints keeps its type, "alertrules" only *)
(* ever holds current files, and "alertrules-versions" only versions.      *)
(***************************************************************************)
THEOREM RulesTypeCorrect == Spec => []TypeOK
<1>1. Spec => []TypeInv
  BY InitTypes, NextTypes, PTL DEF Spec
<1> QED  BY <1>1, TypeInvIsEnough, PTL

-----------------------------------------------------------------------------
(* Contents.                                                               *)

LEMMA ReadGenuine ==
    ASSUME GenuineInv, NEW r \in Requests, Read(r)
    PROVE  GenuineInv'
<1> DEFINE f == req[r].file
<1>1. pc[r] \in Running /\ req[r] \in RequestSet /\ f \in Files
  BY RequestRuns DEF GenuineInv
<1>2. TypeInv'
  BY ReadTypes DEF GenuineInv
<1>3. Stores(f)
  BY <1>1 DEF GenuineInv, Genuine
<1>4. CASE GetPrometheusRuleNames(r)
  BY <1>1, <1>2, <1>4, AnswerGenuine DEF GetPrometheusRuleNames
<1>5. CASE FileNotFound(r)
  BY <1>1, <1>2, <1>5, AnswerGenuine DEF FileNotFound
<1>6. CASE GetCurrent(r)
  <2>1. Current[f] # Blank
    BY <1>1, TypeInvIsEnough DEF GenuineInv, TypeOK
  <2>2. {Current[f]} \subseteq served[f]
    BY <1>3, <1>6, <2>1 DEF GetCurrent, Stores, Kept
  <2> QED  BY <1>1, <1>2, <1>6, <2>2, AnswerGenuine DEF GetCurrent
<1>7. CASE ReadCurrent(r)
  BY <1>2, <1>7, CopyGenuine DEF ReadCurrent
<1>8. CASE GetPrometheusRuleVersions(r)
  BY <1>1, <1>2, <1>8, AnswerGenuine DEF GetPrometheusRuleVersions
<1>9. CASE GetVersion(r)
  <2> DEFINE body == Archive[<<f, req[r].version>>]
  <2>1. CASE body = None
    BY <1>1, <1>2, <1>9, <2>1, AnswerGenuine DEF GetVersion
  <2>2. CASE body # None
    <3>1. req[r].version \in Times
      BY <1>1, <1>9, RequestFacts DEF GetVersion, GenuineInv, TypeInv, Positions
    <3>2. body # Blank
      <4>1. <<f, req[r].version>> \in Keys /\ Archive \in MapData
        BY <1>1, <3>1, KeyFacts, MapNames
           DEF GenuineInv, TypeInv, Shapes, Archive, VersionContent
      <4> QED  BY <4>1, RulesAssumption, HandlersAssumption DEF MapData
    <3>3. {body} \subseteq served[f]
      BY <1>3, <2>2, <3>1, <3>2 DEF Stores, Kept
    <3> QED  BY <1>1, <1>2, <1>9, <2>2, <3>3, AnswerGenuine DEF GetVersion
  <2> QED  BY <2>1, <2>2
<1>10. CASE ReadSaved(r)
  BY <1>2, <1>10, CopyGenuine
<1> QED  BY <1>4, <1>5, <1>6, <1>7, <1>8, <1>9, <1>10 DEF Read

LEMMA PutGenuine ==
    ASSUME GenuineInv, NEW r \in Requests, PutPrometheusRules(r)
    PROVE  GenuineInv'
<1> DEFINE f == req[r].file
<1>1. req[r] \in RequestSet /\ f \in Files
  BY RequestRuns DEF GenuineInv
<1>2. TypeInv'
  BY PutTypes DEF GenuineInv
<1>3. CASE PutIdentical(r)
  BY <1>3, CommonGenuine DEF Common
<1>4. CASE PutBackup(r)
  <2>1. cur[r][f] \in Kept(f)
    BY <1>1 DEF GenuineInv, Genuine, Copies
  <2> QED  BY <1>1, <1>2, <1>4, <2>1, BackupGenuine DEF PutBackup, PutStart
<1>5. CASE PutReplace(r)
  BY <1>1, <1>2, <1>5, ReplaceGenuine DEF PutReplace, Updated
<1>6. CASE PutCreate(r)
  BY <1>1, <1>2, <1>6, ReplaceGenuine DEF PutCreate, PutStart
<1> QED  BY <1>3, <1>4, <1>5, <1>6 DEF PutPrometheusRules

LEMMA DeleteGenuine ==
    ASSUME GenuineInv, NEW r \in Requests, DeletePrometheusRules(r)
    PROVE  GenuineInv'
<1>1. pc[r] \in Running /\ pc[r] \notin {"new", "arrived"}
  BY RequestRuns
     DEF GenuineInv, DeletePrometheusRules, DeleteMissing, DeleteCurrent,
         DeleteVersions, DeleteStart, Updated
<1>2. TypeInv'
  BY DeleteTypes DEF GenuineInv
<1>3. ASSUME NEW S, NEW g \in Files
      PROVE  /\ Without(cur[r], S)[g] \in Kept(g)
             /\ \A t \in Times : Without(sav[r], S)[<<g, t>>] \in Kept(g)
  BY KeyFacts DEF GenuineInv, Genuine, Copies, Without, Kept
<1>4. CurrentMap # VersionsMap
  BY MapNames
<1>5. CASE DeleteMissing(r)
  BY <1>1, <1>2, <1>5, AnswerGenuine DEF DeleteMissing
<1>6. CASE DeleteCurrent(r)
  BY <1>1, <1>2, <1>3, <1>4, <1>6, AskGenuine DEF DeleteCurrent, Updating
<1>7. CASE DeleteVersions(r)
  <2>1. PICK S : Ask(r, VersionsMap, Without(sav[r], S), "purge")
    BY <1>7 DEF DeleteVersions
  <2>2. "purge" \in Updating /\ "purge" \notin {"replace", "create"}
    BY DEF Updating
  <2> QED  BY <1>1, <1>2, <1>3, <1>4, <2>1, <2>2, AskGenuine
<1> QED  BY <1>5, <1>6, <1>7 DEF DeletePrometheusRules

LEMMA NextGenuine == GenuineInv /\ [Next]_vars => GenuineInv'
<1> SUFFICES ASSUME GenuineInv, [Next]_vars PROVE GenuineInv'
  OBVIOUS
<1>1. TypeInv'
  BY NextTypes DEF GenuineInv
<1>2. ASSUME NEW r \in Requests, Reject(r) PROVE GenuineInv'
  <2>1. pc[r] \in Running /\ pc[r] = "arrived"
    BY <1>2 DEF Reject, Running
  <2> QED  BY <1>1, <1>2, <2>1, AnswerGenuine DEF Reject, NoReply
<1>3. ASSUME NEW r \in Requests, Common(r) \/ Arrive(r) PROVE GenuineInv'
  BY <1>3, CommonGenuine, ArriveGenuine
<1>4. CASE Tick \/ Crash \/ UNCHANGED vars
  BY <1>4, TickGenuine, CrashGenuine, StutterGenuine
<1> QED  BY <1>2, <1>3, <1>4, ReadGenuine, PutGenuine, DeleteGenuine
         DEF Next, Progress, Common

(***************************************************************************)
(* Whatever a GET returns, and whatever is saved as a version of a file,   *)
(* was once the current content of that same file; and whatever a file     *)
(* ever contained was there at the start or came with a PUT for it that    *)
(* passed validation: however many requests write back their stale copies. *)
(***************************************************************************)
THEOREM RulesAreGenuine == Spec => []ContentsAreGenuine
<1>1. Spec => []GenuineInv
  BY InitGenuine, NextGenuine, PTL DEF Spec
<1> QED  BY <1>1, GenuineInvIsEnough, PTL

-----------------------------------------------------------------------------
(* Limits.                                                                 *)

LEMMA NextBounded == BoundedInv /\ [Next]_vars => BoundedInv'
<1> SUFFICES ASSUME BoundedInv, [Next]_vars PROVE BoundedInv'
  OBVIOUS
<1>1. TypeInv /\ TypeInv'
  BY NextTypes DEF BoundedInv
<1>2. ASSUME NEW r \in Requests, Reject(r) \/ Read(r) PROVE BoundedInv'
  <2>1. CASE ReadCurrent(r) \/ ReadSaved(r)
    BY <1>1, <2>1, CopyBounded DEF ReadCurrent
  <2>2. CASE ~(ReadCurrent(r) \/ ReadSaved(r))
    <3>1. \E code, content : Answer(r, code, content)
      BY <1>2, <2>2 DEF Reject, Read, GetPrometheusRuleNames, FileNotFound, GetCurrent,
                        GetPrometheusRuleVersions, GetVersion
    <3> QED  BY <1>1, <3>1, AnswerBounded
  <2> QED  BY <2>1, <2>2
<1>3. ASSUME NEW r \in Requests, PutPrometheusRules(r) PROVE BoundedInv'
  <2>1. req[r] \in RequestSet
    BY <1>1, <1>3, RequestRuns
  <2>2. CASE PutIdentical(r)
    BY <2>2, CommonBounded DEF Common
  <2>3. CASE PutBackup(r)
    BY <1>1, <2>1, <2>3, BackupBounded DEF PutBackup
  <2>4. CASE PutReplace(r) \/ PutCreate(r)
    BY <1>1, <2>4, AskBounded, MapNames DEF PutReplace, PutCreate, Replace
  <2> QED  BY <1>3, <2>2, <2>3, <2>4 DEF PutPrometheusRules
<1>4. ASSUME NEW r \in Requests, DeletePrometheusRules(r) PROVE BoundedInv'
  <2>1. CASE DeleteMissing(r)
    BY <1>1, <2>1, AnswerBounded DEF DeleteMissing
  <2>2. CASE DeleteCurrent(r)
    BY <1>1, <2>2, AskBounded, MapNames DEF DeleteCurrent
  <2>3. CASE DeleteVersions(r)
    <3>1. PICK S : Ask(r, VersionsMap, Without(sav[r], S), "purge")
      BY <2>3 DEF DeleteVersions
    <3>2. Limited(Without(sav[r], S), now)
      BY WithoutIsLimited DEF BoundedInv, TypeInv, Types
    <3> QED  BY <1>1, <3>1, <3>2, AskBounded
  <2> QED  BY <1>4, <2>1, <2>2, <2>3 DEF DeletePrometheusRules
<1> QED  BY <1>2, <1>3, <1>4, CommonBounded, OutsideBounded DEF Next, Progress, Common

(***************************************************************************)
(* However many requests prune and write back stale copies of the versions *)
(* map, for whatever files, limits and prefix relation: the versions of a  *)
(* file never pile up.                                                     *)
(***************************************************************************)
THEOREM RulesVersionsAreBounded == Spec => []VersionsAreBounded
<1>1. Spec => []BoundedInv
  BY InitBounded, NextBounded, PTL DEF Spec
<1> QED  BY <1>1, BoundedInvIsEnough, PTL

-----------------------------------------------------------------------------
(* Answers.                                                                *)

(* A PUT saves a file it has found.                                        *)
Found == \A r \in Requests : pc[r] = "backup" => cur[r][req[r].file] # None

LEMMA NextFound == TypeInv /\ Found /\ [Next]_vars => Found'
<1> SUFFICES ASSUME TypeInv, Found, [Next]_vars, NEW q \in Requests, pc'[q] = "backup"
             PROVE  cur'[q][req'[q].file] # None
  BY DEF Found
<1>1. DOMAIN pc = Requests /\ DOMAIN req = Requests /\ DOMAIN cur = Requests
  BY DEF TypeInv, Types
<1>2. ASSUME pc'[q] = pc[q], req'[q] = req[q], cur'[q] = cur[q]
      PROVE  cur'[q][req'[q].file] # None
  BY <1>2 DEF Found
<1>3. ASSUME NEW r \in Requests, NEW code, NEW content, Answer(r, code, content)
      PROVE  cur'[q][req'[q].file] # None
  BY <1>1, <1>2, <1>3 DEF Answer
<1>4. ASSUME NEW r \in Requests, NEW n, NEW m, NEW next, next # "backup",
             Ask(r, n, m, next)
      PROVE  cur'[q][req'[q].file] # None
  BY <1>1, <1>2, <1>4 DEF Ask
<1>5. ASSUME NEW r \in Requests, Reject(r) \/ ReadFails(r) \/ UpdateError(r) \/ Finish(r)
      PROVE  cur'[q][req'[q].file] # None
  BY <1>3, <1>5 DEF Reject, ReadFails, UpdateError, Finish
<1>6. ASSUME NEW r \in Requests, Read(r) PROVE cur'[q][req'[q].file] # None
  <2>1. CASE ReadCurrent(r) \/ ReadSaved(r)
    BY <1>1, <1>2, <2>1 DEF ReadCurrent, TakeCurrent, ReadSaved
  <2>2. CASE ~(ReadCurrent(r) \/ ReadSaved(r))
    <3>1. \E code, content : Answer(r, code, content)
      BY <1>6, <2>2 DEF Read, GetPrometheusRuleNames, FileNotFound, GetCurrent,
                        GetPrometheusRuleVersions, GetVersion
    <3> QED  BY <1>3, <3>1
  <2> QED  BY <2>1, <2>2
<1>7. ASSUME NEW r \in Requests, PutPrometheusRules(r) PROVE cur'[q][req'[q].file] # None
  <2>1. CASE PutBackup(r)
    <3>1. cur[r][req[r].file] # None /\ UNCHANGED <<req, cur>>
      BY <2>1 DEF PutBackup, Backup, Ask
    <3>2. q # r => pc'[q] = pc[q]
      BY <1>1, <2>1 DEF PutBackup, Backup, Ask
    <3> QED  BY <1>2, <3>1, <3>2
  <2>2. CASE PutIdentical(r)
    BY <1>3, <2>2 DEF PutIdentical
  <2>3. CASE PutReplace(r) \/ PutCreate(r)
    BY <1>4, <2>3 DEF PutReplace, PutCreate, Replace
  <2> QED  BY <1>7, <2>1, <2>2, <2>3 DEF PutPrometheusRules
<1>8. ASSUME NEW r \in Requests, DeletePrometheusRules(r)
      PROVE  cur'[q][req'[q].file] # None
  BY <1>3, <1>4, <1>8 DEF DeletePrometheusRules, DeleteMissing, DeleteCurrent, DeleteVersions
<1>9. ASSUME NEW r \in Requests, UpdateMap(r) \/ UpdateMapFails(r)
      PROVE  cur'[q][req'[q].file] # None
  BY <1>2, <1>9 DEF UpdateMap, UpdateMapFails
<1>10. ASSUME NEW r \in Requests, Arrive(r) PROVE cur'[q][req'[q].file] # None
  BY <1>1, <1>2, <1>10 DEF Arrive
<1>11. CASE Tick \/ UNCHANGED vars
  BY <1>2, <1>11 DEF Tick, vars
<1>12. CASE Crash
  BY <1>2, <1>12 DEF Crash
<1> QED  BY <1>5, <1>6, <1>7, <1>8, <1>9, <1>10, <1>11, <1>12 DEF Next, Progress

(* The other reads, and a rejection, answer at once.                       *)
LEMMA ReadAnswers ==
    ASSUME TypeInv, NEW r \in Requests, Reject(r) \/ Read(r),
           ~(ReadCurrent(r) \/ ReadSaved(r))
    PROVE  \E code, content :
               /\ Answer(r, code, content) /\ code # 202
               /\ code = 200 => req[r].op # "put"
               /\ code = 404 => \/ Current[req[r].file] = None
                                \/ /\ req[r].version # None
                                   /\ Archive[<<req[r].file, req[r].version>>] = None
<1>1. CASE GetVersion(r)
  BY <1>1 DEF GetVersion, TypeInv, Positions
<1>2. CASE Reject(r)
  BY <1>2 DEF Reject, NoReply
<1>3. CASE GetPrometheusRuleNames(r)
  BY <1>3 DEF GetPrometheusRuleNames
<1>4. CASE FileNotFound(r)
  BY <1>4 DEF FileNotFound
<1>5. CASE GetCurrent(r)
  BY <1>5 DEF GetCurrent
<1>6. CASE GetPrometheusRuleVersions(r)
  BY <1>6 DEF GetPrometheusRuleVersions
<1> QED  BY <1>1, <1>2, <1>3, <1>4, <1>5, <1>6 DEF Read

LEMMA ReadEvident ==
    ASSUME TruthInv, NEW r \in Requests, Reject(r) \/ Read(r)
    PROVE  TruthInv' /\ AnswersTrueNow
<1>1. TypeInv /\ TypeInv' /\ Evidence(r)
  BY NextTypes DEF TruthInv, Next, Progress
<1>2. pc[r] \in Running /\ Facts(r) \subseteq witnessed[r]
  BY <1>1, RequestRuns DEF Evidence
<1>3. CASE ReadCurrent(r) \/ ReadSaved(r)
  <2>1. reply' = reply
    BY <1>3 DEF ReadCurrent, TakeCurrent, ReadSaved
  <2> QED  BY <1>1, <1>3, <2>1, CopyEvident, SilenceIsTrue DEF ReadCurrent
<1>4. CASE ~(ReadCurrent(r) \/ ReadSaved(r))
  <2>1. PICK code, content :
            /\ Answer(r, code, content) /\ code # 202
            /\ code = 200 => req[r].op # "put"
            /\ code = 404 => \/ Current[req[r].file] = None
                             \/ /\ req[r].version # None
                                /\ Archive[<<req[r].file, req[r].version>>] = None
    BY <1>1, <1>4, ReadAnswers
  <2>2. code = 404 => "missing" \in witnessed[r]
    BY <1>2, <2>1 DEF Facts
  <2> QED  BY <1>1, <2>1, <2>2, AnswerEvident, AnswerIsTrue
<1> QED  BY <1>3, <1>4

LEMMA PutEvident ==
    ASSUME TruthInv, Found, NEW r \in Requests, PutPrometheusRules(r)
    PROVE  TruthInv' /\ AnswersTrueNow
<1>1. TypeInv /\ TypeInv' /\ Evidence(r) /\ req[r] \in RequestSet
  BY PutTypes, RequestRuns DEF TruthInv
<1>2. CASE PutIdentical(r)
  BY <1>2, CommonEvident, CommonIsTrue DEF Common
<1>3. CASE PutBackup(r)
  <2>1. reply' = reply
    BY <1>3 DEF PutBackup, Backup, Ask
  <2> QED  BY <1>1, <1>3, <2>1, BackupEvident, SilenceIsTrue DEF PutBackup
<1>4. CASE PutReplace(r)
  <2>1. "backedUp" \in witnessed[r]
    BY <1>1, <1>4 DEF PutReplace, Updated, Evidence, Found
  <2>2. reply' = reply
    BY <1>4 DEF PutReplace, Replace, Ask
  <2> QED  BY <1>1, <1>4, <2>1, <2>2, ReplaceEvident, SilenceIsTrue DEF PutReplace
<1>5. CASE PutCreate(r)
  <2>1. reply' = reply
    BY <1>5 DEF PutCreate, Replace, Ask
  <2> QED  BY <1>1, <1>5, <2>1, ReplaceEvident, SilenceIsTrue DEF PutCreate
<1> QED  BY <1>2, <1>3, <1>4, <1>5 DEF PutPrometheusRules

LEMMA DeleteEvident ==
    ASSUME TruthInv, NEW r \in Requests, DeletePrometheusRules(r)
    PROVE  TruthInv' /\ AnswersTrueNow
<1>1. TypeInv /\ TypeInv' /\ Evidence(r) /\ req[r].file \in Files
  BY DeleteTypes, RequestRuns DEF TruthInv
<1>2. CASE DeleteMissing(r)
  <2>1. "missing" \in witnessed[r]
    BY <1>1, <1>2 DEF DeleteMissing, DeleteStart, Evidence
  <2> QED  BY <1>1, <1>2, <2>1, AnswerEvident, AnswerIsTrue DEF DeleteMissing
<1>3. CASE DeleteCurrent(r)
  <2>1. Without(cur[r], {req[r].file})[req[r].file] = None
    BY <1>1, KeyFacts DEF Without
  <2>2. reply' = reply
    BY <1>3 DEF DeleteCurrent, Ask
  <2>3. "remove" \in Updating /\ "remove" \notin {"backup", "replace", "create", "purge"}
    BY DEF Updating
  <2> QED  BY <1>1, <1>3, <2>1, <2>2, <2>3, AskEvident, SilenceIsTrue DEF DeleteCurrent
<1>4. CASE DeleteVersions(r)
  <2> DEFINE f    == req[r].file
             kept == Without(sav[r], Matching(sav[r], f))
  <2>1. Matching(kept, f) = {}
    BY KeyFacts DEF Matching, Without
  <2>2. "absent" \in witnessed[r]
    BY <1>1, <1>4 DEF DeleteVersions, Updated, Evidence
  <2>3. reply' = reply /\ Ask(r, VersionsMap, kept, "purge")
    BY <1>4 DEF DeleteVersions, Ask
  <2>4. "purge" \in Updating /\ "purge" \notin {"backup", "replace", "create", "remove"}
    BY DEF Updating
  <2> HIDE DEF kept
  <2> QED  BY <1>1, <2>1, <2>2, <2>3, <2>4, AskEvident, SilenceIsTrue
<1> QED  BY <1>2, <1>3, <1>4 DEF DeletePrometheusRules

LEMMA NextEvident ==
    TruthInv /\ Found /\ [Next]_vars => TruthInv' /\ Found' /\ AnswersTrueNow
<1> SUFFICES ASSUME TruthInv, Found, [Next]_vars
             PROVE  TruthInv' /\ Found' /\ AnswersTrueNow
  OBVIOUS
<1>1. Found'
  BY NextFound DEF TruthInv
<1>2. TruthInv' /\ AnswersTrueNow
  BY ReadEvident, PutEvident, DeleteEvident, CommonEvident, CommonIsTrue,
     OutsideEvident, OutsideIsTrue
     DEF Next, Progress, Common
<1> QED  BY <1>1, <1>2

(***************************************************************************)
(* No answer of the rules endpoints is a lie about the whole time its      *)
(* request took, however many requests overwrite each other's updates,     *)
(* whatever fails, and whenever the server is restarted.                   *)
(***************************************************************************)
THEOREM RulesAnswersAreTrue == Spec => AnswersAreTrue
<1>1. Init => TruthInv /\ Found
  BY InitEvident DEF Init, Found
<1>2. TruthInv /\ Found /\ [Next]_vars =>
          [\A r \in Requests : Answered(r) => Promised(r) \subseteq witnessed[r]]_vars
  BY NextEvident DEF AnswersTrueNow
<1> QED  BY <1>1, <1>2, NextEvident, PTL DEF Spec, AnswersAreTrue

-----------------------------------------------------------------------------
(***************************************************************************)
(* Requests that come one by one, though any of them may fail or be cut    *)
(* off by a crash half way.                                                *)
(***************************************************************************)
LEMMA ReadFresh ==
    ASSUME FreshInv, BoundedInv', NEW r \in Requests, Reject(r) \/ Read(r)
    PROVE  FreshInv'
<1>1. TypeInv /\ pc[r] \in Running
  BY RequestRuns DEF FreshInv, BoundedInv
<1>2. CASE ReadCurrent(r) \/ ReadSaved(r)
  BY <1>2, CopyFresh DEF ReadCurrent
<1>3. CASE ~(ReadCurrent(r) \/ ReadSaved(r))
  <2>1. \E code, content : Answer(r, code, content)
    BY <1>1, <1>3, ReadAnswers
  <2> QED  BY <1>1, <2>1, AnswerFresh
<1> QED  BY <1>2, <1>3

LEMMA PutFresh ==
    ASSUME FreshInv, Found, BoundedInv', NEW r \in Requests, PutPrometheusRules(r)
    PROVE  FreshInv'
<1>1. req[r] \in RequestSet
  BY RequestRuns DEF FreshInv, BoundedInv
<1>2. CASE PutIdentical(r)
  BY <1>2, CommonFresh DEF Common
<1>3. CASE PutBackup(r)
  <2>1. pc[r] = "readBoth" /\ FoundText(r) = cur[r][req[r].file]
    BY <1>3 DEF PutBackup, PutStart, FoundText
  <2> QED  BY <1>1, <1>3, <2>1, BackupFresh DEF PutBackup
<1>4. CASE PutReplace(r)
  <2>1. Updated(r, "backup") /\ cur[r][req[r].file] # None /\ Replace(r, "replace")
    BY <1>4 DEF PutReplace, Updated, Found
  <2> QED  BY <1>1, <2>1, ReplaceFresh
<1>5. CASE PutCreate(r)
  BY <1>1, <1>5, ReplaceFresh DEF PutCreate, PutStart
<1> QED  BY <1>2, <1>3, <1>4, <1>5 DEF PutPrometheusRules

LEMMA DeleteFresh ==
    ASSUME FreshInv, BoundedInv', NEW r \in Requests, DeletePrometheusRules(r)
    PROVE  FreshInv'
<1>1. /\ pc[r] \in Running /\ req[r].file \in Files /\ req[r].file \in Keys /\ Fresh(r)
      /\ {"remove", "purge"} \subseteq Updating
  BY RequestRuns, KeyFacts DEF FreshInv, BoundedInv, Updating
<1>2. CASE DeleteMissing(r)
  BY <1>1, <1>2, AnswerFresh DEF DeleteMissing
<1>3. CASE DeleteCurrent(r)
  <2>1. cur[r] = Current /\ sav[r] = Archive
    BY <1>1, <1>3 DEF DeleteCurrent, DeleteStart, Fresh
  <2>2. Ask(r, CurrentMap, Without(cur[r], {req[r].file}), "remove")
    BY <1>3 DEF DeleteCurrent
  <2> QED  BY <1>1, <2>1, <2>2, AskFresh
<1>4. CASE DeleteVersions(r)
  <2>1. /\ sav[r] = Archive /\ Current = Without(cur[r], {req[r].file})
        /\ Ask(r, VersionsMap, Without(sav[r], Matching(sav[r], req[r].file)), "purge")
    BY <1>1, <1>4 DEF DeleteVersions, Updated, Fresh
  <2>2. Current[req[r].file] = None
    BY <1>1, <2>1 DEF Without
  <2> QED  BY <1>1, <2>1, <2>2, AskFresh
<1> QED  BY <1>2, <1>3, <1>4 DEF DeletePrometheusRules

LEMMA NextFresh ==
    ASSUME MaxInflight = 1, FreshInv, Found, [Next]_vars
    PROVE  FreshInv' /\ Found'
<1>1. BoundedInv' /\ Found'
  BY NextBounded, NextFound DEF FreshInv, BoundedInv
<1>2. ASSUME (\E r \in Requests : Arrive(r)) \/ Tick \/ Crash \/ UNCHANGED vars
      PROVE  FreshInv'
  <2>1. OneInFlight'
    <3>1. CASE \E r \in Requests : Arrive(r)
      BY <3>1, OneIsLetIn
    <3>2. CASE Tick \/ Crash \/ UNCHANGED vars
      BY <3>2, NobodyArrives DEF Tick, Crash, vars, InFlight, Running, Updating
    <3> QED  BY <1>2, <3>1, <3>2
  <2> QED  BY <1>2, <2>1, OutsideFresh
<1> QED  BY <1>1, <1>2, ReadFresh, PutFresh, DeleteFresh, CommonFresh
         DEF Next, Progress, Common

(* A step that writes is one of an update, and saves what was there.       *)
LEMMA NextWrites ==
    ASSUME FreshInv, Found, [Next]_vars
    PROVE  \/ cm' = cm /\ (now' = now \/ now' = now + 1)
           \/ \E r \in Requests :
                  Writes(r) /\ (pc[r] = "backup" => Current[req[r].file] # None)
<1>1. CASE \E r \in Requests : UpdateMap(r) \/ UpdateMapFails(r)
  <2>1. PICK r \in Requests : UpdateMap(r) \/ UpdateMapFails(r)
    BY <1>1
  <2>2. (cm' = cm /\ now' = now) \/ Writes(r)
    BY <2>1, UpdateWrites
  <2>3. pc[r] = "backup" => Current[req[r].file] # None
    <3>1. pc[r] = "backup" => cur[r] = Current
      BY DEF FreshInv, Fresh
    <3> QED  BY <3>1 DEF Found
  <2> QED  BY <2>2, <2>3
<1>2. CASE ~ \E r \in Requests : UpdateMap(r) \/ UpdateMapFails(r)
  <2>1. ASSUME NEW r \in Requests,
               Reject(r) \/ Read(r) \/ DeletePrometheusRules(r)
        PROVE  cm' = cm /\ now' = now
    BY <2>1 DEF Reject, Read, GetPrometheusRuleNames, FileNotFound, GetCurrent, ReadCurrent,
                TakeCurrent, GetPrometheusRuleVersions, GetVersion, ReadSaved, Answer,
                DeletePrometheusRules, DeleteMissing, DeleteCurrent, DeleteVersions, Ask
  <2>2. ASSUME NEW r \in Requests,
               PutPrometheusRules(r) \/ ReadFails(r) \/ UpdateError(r) \/ Finish(r) \/ Arrive(r)
        PROVE  cm' = cm /\ now' = now
    BY <2>2 DEF PutPrometheusRules, PutIdentical, PutBackup, PutReplace, PutCreate, Replace,
                Backup, Ask, ReadFails, UpdateError, Finish, Answer, Arrive
  <2> QED  BY <1>2, <2>1, <2>2 DEF Next, Progress, Tick, Crash, vars
<1> QED  BY <1>1, <1>2

LEMMA NextHolds ==
    ASSUME FreshInv, Found, [Next]_vars
    PROVE  AnswersHold
<1>1. ASSUME NEW r \in Requests, Reject(r) \/ Read(r) PROVE AnswersHold
  <2>1. TypeInv
    BY DEF FreshInv, BoundedInv
  <2>2. CASE ReadCurrent(r) \/ ReadSaved(r)
    BY <2>2, SilenceHolds DEF ReadCurrent, TakeCurrent, ReadSaved
  <2>3. CASE ~(ReadCurrent(r) \/ ReadSaved(r))
    <3>1. PICK code, content :
              /\ Answer(r, code, content) /\ code # 202
              /\ code = 200 => req[r].op # "put"
              /\ code = 404 => \/ Current[req[r].file] = None
                               \/ /\ req[r].version # None
                                  /\ Archive[<<req[r].file, req[r].version>>] = None
      BY <1>1, <2>1, <2>3, ReadAnswers
    <3>2. code = 404 => "missing" \in Facts(r)
      BY <3>1 DEF Facts
    <3> QED  BY <2>1, <3>1, <3>2, AnswerHolds
  <2> QED  BY <2>2, <2>3
<1>2. ASSUME NEW r \in Requests, PutPrometheusRules(r) PROVE AnswersHold
  <2>1. CASE PutIdentical(r)
    BY <2>1, CommonHolds DEF Common
  <2>2. CASE PutBackup(r) \/ PutReplace(r) \/ PutCreate(r)
    BY <2>2, SilenceHolds DEF PutBackup, PutReplace, PutCreate, Backup, Replace, Ask
  <2> QED  BY <1>2, <2>1, <2>2 DEF PutPrometheusRules
<1>3. ASSUME NEW r \in Requests, DeletePrometheusRules(r) PROVE AnswersHold
  <2>1. CASE DeleteMissing(r)
    <3>1. "missing" \in Facts(r)
      BY <2>1 DEF DeleteMissing, DeleteStart, FreshInv, Fresh, Facts
    <3> QED  BY <2>1, <3>1, AnswerHolds DEF DeleteMissing, FreshInv, BoundedInv
  <2>2. CASE DeleteCurrent(r) \/ DeleteVersions(r)
    BY <2>2, SilenceHolds DEF DeleteCurrent, DeleteVersions, Ask
  <2> QED  BY <1>3, <2>1, <2>2 DEF DeletePrometheusRules
<1> QED  BY <1>1, <1>2, <1>3, CommonHolds, OutsideHolds DEF Next, Progress, Common

-----------------------------------------------------------------------------
LEMMA AlwaysFresh ==
    ASSUME MaxInflight = 1
    PROVE  Spec => [](FreshInv /\ Found)
<1>1. Init => FreshInv /\ Found
  BY InitFresh DEF Init, Found
<1>2. FreshInv /\ Found /\ [Next]_vars => (FreshInv /\ Found)'
  BY NextFresh
<1> QED  BY <1>1, <1>2, PTL DEF Spec

(***************************************************************************)
(* The rules endpoints implement the abstract versioned files when their   *)
(* requests come one by one and no name begins with another one: for any   *)
(* files, contents and limits, whichever calls fail and whenever the       *)
(* server is restarted.                                                    *)
(***************************************************************************)
THEOREM RulesAreVersionedFiles ==
    ASSUME MaxInflight = 1, NoPrefixes
    PROVE  Spec => AreVersionedFiles
<1>1. Init => Store!Init
  BY DEF Init, Store!Init, Store!Times, Times
<1>2. FreshInv /\ Found /\ [Next]_vars => [Store!Next]_(Store!filesVars)
  BY NextWrites, WritesRefine, StoreRests
<1> QED  BY <1>1, <1>2, AlwaysFresh, PTL DEF Spec, AreVersionedFiles, Store!Spec

(***************************************************************************)
(* What a 202, a 200 for a PUT, or a 404 says is still so when it is given *)
(* to requests that come one by one; the names do not matter for this.     *)
(***************************************************************************)
THEOREM RulesAnswersHoldNow ==
    ASSUME MaxInflight = 1
    PROVE  Spec => AnswersHoldNow
<1>1. FreshInv /\ Found /\ [Next]_vars =>
          [\A r \in Requests : Answered(r) => Promised(r) \subseteq Facts(r)]_vars
  BY NextHolds DEF AnswersHold
<1> QED  BY <1>1, AlwaysFresh, PTL DEF Spec, AnswersHoldNow

(***************************************************************************)
(* Before the content of a rule file is replaced it has been saved among   *)
(* the versions, also when the PUT then fails or is cut off.               *)
(***************************************************************************)
THEOREM RulesAreSavedFirst ==
    ASSUME MaxInflight = 1
    PROVE  Spec => BackupBeforeReplace
<1>1. ASSUME FreshInv, Found, [Next]_vars, NEW f \in Files,
             Current[f] # None, Current'[f] \notin {None, Current[f]}
      PROVE  \E t \in Times : Archive[<<f, t>>] = Current[f]
  BY <1>1, NextWrites, WritesSaved DEF Current
<1>2. FreshInv /\ Found /\ [Next]_vars =>
          [\A f \in Files :
               /\ Current[f] # None
               /\ Current'[f] \notin {None, Current[f]}
               => \E t \in Times : Archive[<<f, t>>] = Current[f]]_vars
  BY <1>1
<1> QED  BY <1>2, AlwaysFresh, PTL DEF Spec, BackupBeforeReplace

(***************************************************************************)
(* A version disappears only when its file is gone, or when it is old      *)
(* enough and enough newer ones of the same file remain: provided that no  *)
(* name begins with another one, for the pruning loop counts the versions  *)
(* of such files too.                                                      *)
(***************************************************************************)
THEOREM RulesVersionsLeaveByPolicy ==
    ASSUME MaxInflight = 1, NoPrefixes
    PROVE  Spec => VersionsLeaveOnlyByPolicy
<1>1. ASSUME FreshInv, Found, [Next]_vars, NEW f \in Files, NEW t \in Saved(f)
      PROVE  \/ Archive'[<<f, t>>] # None
             \/ Current[f] = None
             \/ /\ now - t >= MaxBackupHours
                /\ Cardinality({u \in Saved(f)' : u > t}) >= MaxBackupFiles
  <2>1. CASE cm' = cm
    BY <2>1 DEF Saved, Archive
  <2>2. CASE \E r \in Requests : Writes(r)
    BY <1>1, <2>2, WritesLeave
  <2> QED  BY <1>1, <2>1, <2>2, NextWrites
<1>2. FreshInv /\ Found /\ [Next]_vars =>
          [\A f \in Files : \A t \in Saved(f) :
               Archive'[<<f, t>>] # None
               \/ Current[f] = None
               \/ /\ now - t >= MaxBackupHours
                  /\ Cardinality({u \in Saved(f)' : u > t}) >= MaxBackupFiles]_vars
  BY <1>1
<1> QED  BY <1>2, AlwaysFresh, PTL DEF Spec, VersionsLeaveOnlyByPolicy

(***************************************************************************)
(* A request changes only its own file and the versions of that file,      *)
(* although it rewrites whole maps.                                        *)
(***************************************************************************)
THEOREM RulesChangeOwnFileOnly ==
    ASSUME MaxInflight = 1, NoPrefixes
    PROVE  Spec => OnlyOwnFileChanges
<1>1. ASSUME FreshInv, Found, [Next]_vars, NEW f \in Files
      PROVE  \/ /\ Current'[f] = Current[f]
                /\ \A t \in Times : Archive'[<<f, t>>] = Archive[<<f, t>>]
             \/ \E r \in InFlight : req[r].op \in {"put", "delete"} /\ req[r].file = f
  <2>1. CASE cm' = cm
    BY <2>1 DEF Current, Archive
  <2>2. CASE \E r \in Requests : Writes(r)
    <3>1. PICK r \in Requests : Writes(r)
      BY <2>2
    <3>2. CASE req[r].file = f
      BY <3>1, <3>2 DEF Writes
    <3>3. CASE req[r].file # f
      BY <1>1, <3>1, <3>3, WritesOwnFile
    <3> QED  BY <3>2, <3>3
  <2> QED  BY <1>1, <2>1, <2>2, NextWrites
<1>2. FreshInv /\ Found /\ [Next]_vars =>
          [\A f \in Files :
               \/ /\ Current'[f] = Current[f]
                  /\ \A t \in Times : Archive'[<<f, t>>] = Archive[<<f, t>>]
               \/ \E r \in InFlight : req[r].op \in {"put", "delete"} /\ req[r].file = f]_vars
  BY <1>1
<1> QED  BY <1>2, AlwaysFresh, PTL DEF Spec, OnlyOwnFileChanges

(***************************************************************************)
(* Taking the newest version, by its time, undoes the accepted replacement *)
(* of a rule file.                                                         *)
(***************************************************************************)
THEOREM RulesUndoneByNewest ==
    ASSUME MaxInflight = 1
    PROVE  Spec => [][\A r \in Requests : UndoneByNewest(r)]_vars
<1>1. FreshInv => [\A r \in Requests : UndoneByNewest(r)]_vars
  BY NewestUndoes
<1> QED  BY <1>1, AlwaysFresh, PTL DEF Spec
=============================================================================
