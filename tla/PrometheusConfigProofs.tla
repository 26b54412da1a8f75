------------------------ MODULE PrometheusConfigProofs ------------------------
(***************************************************************************)
(* Theorems about the configuration endpoints: the lemmas of HandlerLemmas *)
(* put together over their steps.                                          *)
(***************************************************************************)
EXTENDS PrometheusConfigProperties, HandlerLemmas

(* A handler's step is one of a request that is in progress.               *)
LEMMA RequestRuns ==
    ASSUME TypeInv, NEW r \in Requests,
           Reject(r) \/ Read(r) \/ PutPrometheusConfig(r)
    PROVE  pc[r] \in Running /\ req[r] \in RequestSet /\ req[r].file \in Files
<1>1. pc[r] \in Running
  BY DEF Reject, Read, GetPrometheusConfig, GetVersion, GetPrometheusVersions,
         ReadCurrent, ReadSaved, PutPrometheusConfig, PutIdentical, PutBackup,
         PutReplace, PutPanic, PutStart, Updated, Running, Updating
<1> QED  BY <1>1, RequestFacts DEF TypeInv, Positions, Running, Updating

-----------------------------------------------------------------------------
(* Types.                                                                  *)

LEMMA ReadTypes ==
    ASSUME TypeInv, NEW r \in Requests, Read(r)
    PROVE  TypeInv'
<1> DEFINE f == req[r].file
<1>1. pc[r] \in Running /\ req[r] \in RequestSet /\ f \in Files /\ f \in Keys
  BY RequestRuns, KeyFacts
<1>2. Current \in CurrentContent /\ Archive \in VersionContent
  BY MapNames DEF TypeInv, Shapes, Current, Archive
<1>3. CASE GetPrometheusConfig(r)
  <2>1. Current[f] \in Bodies \cup {None}
    BY <1>1, <1>2 DEF CurrentContent, MapData, Bodies
  <2> QED  BY <1>1, <1>3, <2>1, AnswerTypes DEF GetPrometheusConfig
<1>4. CASE GetVersion(r)
  <2>1. Archive[<<f, req[r].version>>] \in Bodies \cup {None, Blank}
    <3>1. <<f, req[r].version>> \in Keys
      BY <1>1, <1>4, RequestFacts, KeyFacts DEF GetVersion
    <3> QED  BY <1>2, <3>1 DEF VersionContent, MapData, Bodies
  <2> QED  BY <1>1, <1>4, <2>1, AnswerTypes DEF GetVersion
<1>5. CASE GetPrometheusVersions(r)
  <2>1. Matching(Archive, f) \in SUBSET (Keys \cup Bodies)
    BY KeyFacts DEF Matching
  <2> QED  BY <1>1, <1>5, <2>1, AnswerTypes DEF GetPrometheusVersions
<1>6. CASE ReadCurrent(r) \/ ReadSaved(r)
  BY <1>6, CopyTypes DEF ReadCurrent
<1> QED  BY <1>3, <1>4, <1>5, <1>6 DEF Read

LEMMA PutTypes ==
    ASSUME TypeInv, NEW r \in Requests, PutPrometheusConfig(r)
    PROVE  TypeInv'
<1> DEFINE f == req[r].file
<1>1. pc[r] \in Running /\ req[r] \in RequestSet /\ f \in Files /\ req[r].op = "put"
  BY RequestRuns
     DEF PutPrometheusConfig, PutIdentical, PutBackup, PutReplace, PutPanic, PutStart,
         Updated, TypeInv, Positions
<1>2. CASE PutIdentical(r)
  BY <1>2, CommonTypes DEF Common
<1>3. CASE PutBackup(r)
  <2>1. cur[r][f] \in Values \cup {None}
    BY <1>1, KeyFacts DEF TypeInv, Types, CurrentContent, MapData
  <2>2. (IF cur[r][f] = None THEN Blank ELSE cur[r][f]) \in Values
    BY <2>1, ConfigAssumption
  <2> QED  BY <1>1, <1>3, <2>2, BackupTypes DEF PutBackup
<1>4. CASE PutReplace(r)
  BY <1>1, <1>4, ReplaceTypes DEF PutReplace
<1>5. CASE PutPanic(r)
  BY <1>1, <1>5, AnswerTypes DEF PutPanic, NoReply
<1> QED  BY <1>2, <1>3, <1>4, <1>5 DEF PutPrometheusConfig

LEMMA NextTypes == TypeInv /\ [Next]_vars => TypeInv'
<1> SUFFICES ASSUME TypeInv, [Next]_vars PROVE TypeInv'
  OBVIOUS
<1>1. ASSUME NEW r \in Requests, Reject(r) PROVE TypeInv'
  BY <1>1, RequestRuns, AnswerTypes DEF Reject, NoReply
<1>2. ASSUME NEW r \in Requests, Common(r) \/ Arrive(r) PROVE TypeInv'
  BY <1>2, CommonTypes, ArriveTypes
<1>3. CASE Tick \/ Crash \/ UNCHANGED vars
  BY <1>3, TickTypes, CrashTypes, StutterTypes
<1> QED  BY <1>1, <1>2, <1>3, ReadTypes, PutTypes DEF Next, Progress, Common

(***************************************************************************)
(* Every variable of the configuration endpoints keeps its type;           *)
(* "prometheus-config" never holds a version or an empty text.             *)
(***************************************************************************)
THEOREM ConfigTypeCorrect == Spec => []TypeOK
<1>1. Spec => []TypeInv
  BY InitTypes, NextTypes, PTL DEF Spec
<1> QED  BY <1>1, TypeInvIsEnough, PTL

-----------------------------------------------------------------------------
(* Contents.                                                               *)

LEMMA ReadGenuine ==
    ASSUME GenuineInv, NEW r \in Requests, Read(r)
    PROVE  GenuineInv'
<1> DEFINE f == req[r].file
<1>1. pc[r] \in Running /\ req[r] \in RequestSet /\ f \in Files
  BY RequestRuns DEF GenuineInv
<1>2. TypeInv' /\ Current[f] # Blank
  BY <1>1, ReadTypes, TypeInvIsEnough DEF GenuineInv, TypeOK
<1>3. Stores(f)
  BY <1>1 DEF GenuineInv, Genuine
<1>4. CASE GetPrometheusConfig(r)
  <2>1. Current[f] # None => {Current[f]} \subseteq served[f]
    BY <1>2, <1>3 DEF Stores, Kept
  <2> QED  BY <1>1, <1>2, <1>4, <2>1, AnswerGenuine DEF GetPrometheusConfig
<1>5. CASE GetVersion(r)
  <2> DEFINE body == Archive[<<f, req[r].version>>]
  <2>1. req[r].version \in Times
    BY <1>1, <1>5, RequestFacts DEF GetVersion
  <2>2. body \notin {None, Blank} => {body} \subseteq served[f]
    BY <1>3, <2>1 DEF Stores, Kept
  <2> QED  BY <1>1, <1>2, <1>5, <2>2, AnswerGenuine DEF GetVersion
<1>6. CASE GetPrometheusVersions(r)
  BY <1>1, <1>2, <1>6, AnswerGenuine DEF GetPrometheusVersions
<1>7. CASE ReadCurrent(r) \/ ReadSaved(r)
  BY <1>2, <1>7, CopyGenuine DEF ReadCurrent
<1> QED  BY <1>4, <1>5, <1>6, <1>7 DEF Read

LEMMA PutGenuine ==
    ASSUME GenuineInv, NEW r \in Requests, PutPrometheusConfig(r)
    PROVE  GenuineInv'
<1> DEFINE f == req[r].file
<1>1. pc[r] \in Running /\ req[r] \in RequestSet /\ f \in Files
  BY RequestRuns DEF GenuineInv
<1>2. TypeInv'
  BY PutTypes DEF GenuineInv
<1>3. CASE PutIdentical(r)
  BY <1>3, CommonGenuine DEF Common
<1>4. CASE PutBackup(r)
  <2>1. (IF cur[r][f] = None THEN Blank ELSE cur[r][f]) \in Kept(f)
    BY <1>1 DEF GenuineInv, Genuine, Copies, Kept
  <2> QED  BY <1>1, <1>2, <1>4, <2>1, BackupGenuine DEF PutBackup, PutStart
<1>5. CASE PutReplace(r)
  BY <1>1, <1>2, <1>5, ReplaceGenuine DEF PutReplace, Updated
<1>6. CASE PutPanic(r)
  BY <1>1, <1>2, <1>6, AnswerGenuine DEF PutPanic, NoReply
<1> QED  BY <1>3, <1>4, <1>5, <1>6 DEF PutPrometheusConfig

LEMMA NextGenuine == GenuineInv /\ [Next]_vars => GenuineInv'
<1> SUFFICES ASSUME GenuineInv, [Next]_vars PROVE GenuineInv'
  OBVIOUS
<1>1. TypeInv'
  BY NextTypes DEF GenuineInv
<1>2. ASSUME NEW r \in Requests, Reject(r) PROVE GenuineInv'
  <2>1. pc[r] \in Running /\ pc[r] = "arrived"
    BY <1>2 DEF Reject, Running
  <2> QED  BY <1>1, <1>2, <2>1, AnswerGenuine DEF Reject, NoReply
<1>3. ASSUME NEW r \in Requests, Common(r) \/ Arrive(r) PROVE GenuineInv'
  BY <1>3, CommonGenuine, ArriveGenuine
<1>4. CASE Tick \/ Crash \/ UNCHANGED vars
  BY <1>4, TickGenuine, CrashGenuine, StutterGenuine
<1> QED  BY <1>2, <1>3, <1>4, ReadGenuine, PutGenuine DEF Next, Progress, Common

(***************************************************************************)
(* A configuration a GET returns was once in force, and so was every       *)
(* version but the empty one saved when there was no configuration; and    *)
(* whatever was in force was there at the start or came with a PUT that    *)
(* passed validation: however many requests write back their stale copies. *)
(***************************************************************************)
THEOREM ConfigIsGenuine == Spec => []ContentsAreGenuine
<1>1. Spec => []GenuineInv
  BY InitGenuine, NextGenuine, PTL DEF Spec
<1> QED  BY <1>1, GenuineInvIsEnough, PTL

-----------------------------------------------------------------------------
(* Limits.                                                                 *)

LEMMA NextBounded == BoundedInv /\ [Next]_vars => BoundedInv'
<1> SUFFICES ASSUME BoundedInv, [Next]_vars PROVE BoundedInv'
  OBVIOUS
<1>1. TypeInv /\ TypeInv'
  BY NextTypes DEF BoundedInv
<1>2. ASSUME NEW r \in Requests, Reject(r) \/ Read(r) PROVE BoundedInv'
  <2>1. CASE ReadCurrent(r) \/ ReadSaved(r)
    BY <1>1, <2>1, CopyBounded DEF ReadCurrent
  <2>2. CASE ~(ReadCurrent(r) \/ ReadSaved(r))
    <3>1. \E code, content : Answer(r, code, content)
      BY <1>2, <2>2 DEF Reject, Read, GetPrometheusConfig, GetVersion, GetPrometheusVersions
    <3> QED  BY <1>1, <3>1, AnswerBounded
  <2> QED  BY <2>1, <2>2
<1>3. ASSUME NEW r \in Requests, PutPrometheusConfig(r) PROVE BoundedInv'
  <2>1. req[r] \in RequestSet
    BY <1>1, <1>3, RequestRuns
  <2>2. CASE PutIdentical(r)
    BY <2>2, CommonBounded DEF Common
  <2>3. CASE PutBackup(r)
    BY <1>1, <2>1, <2>3, BackupBounded DEF PutBackup
  <2>4. CASE PutReplace(r)
    BY <1>1, <2>4, AskBounded, MapNames DEF PutReplace, Replace
  <2>5. CASE PutPanic(r)
    BY <1>1, <2>5, AnswerBounded DEF PutPanic
  <2> QED  BY <1>3, <2>2, <2>3, <2>4, <2>5 DEF PutPrometheusConfig
<1> QED  BY <1>2, <1>3, CommonBounded, OutsideBounded DEF Next, Progress, Common

(***************************************************************************)
(* The versions of the configuration never pile up either, empty ones      *)
(* included.                                                               *)
(***************************************************************************)
THEOREM ConfigVersionsAreBounded == Spec => []VersionsAreBounded
<1>1. Spec => []BoundedInv
  BY InitBounded, NextBounded, PTL DEF Spec
<1> QED  BY <1>1, BoundedInvIsEnough, PTL

-----------------------------------------------------------------------------
(* Answers.                                                                *)

(* What a reading handler may answer.                                      *)
LEMMA ReadAnswers ==
    ASSUME NEW r \in Requests, Reject(r) \/ Read(r), ~(ReadCurrent(r) \/ ReadSaved(r))
    PROVE  \E code, content :
               /\ Answer(r, code, content) /\ code # 202
               /\ code = 200 => req[r].op # "put"
               /\ code = 404 => "missing" \in Facts(r)
<1>1. CASE GetVersion(r)
  BY <1>1 DEF GetVersion, Facts
<1>2. CASE Reject(r)
  BY <1>2 DEF Reject, NoReply
<1>3. CASE GetPrometheusConfig(r)
  BY <1>3 DEF GetPrometheusConfig
<1>4. CASE GetPrometheusVersions(r)
  BY <1>4 DEF GetPrometheusVersions
<1> QED  BY <1>1, <1>2, <1>3, <1>4 DEF Read

LEMMA ReadEvident ==
    ASSUME TruthInv, NEW r \in Requests, Reject(r) \/ Read(r)
    PROVE  TruthInv' /\ AnswersTrueNow
<1>1. TypeInv /\ TypeInv' /\ Evidence(r)
  BY NextTypes DEF TruthInv, Next, Progress
<1>2. pc[r] \in Running /\ Facts(r) \subseteq witnessed[r]
  BY <1>1, RequestRuns DEF Evidence
<1>3. CASE ReadCurrent(r) \/ ReadSaved(r)
  <2>1. reply' = reply
    BY <1>3 DEF ReadCurrent, TakeCurrent, ReadSaved
  <2> QED  BY <1>1, <1>3, <2>1, CopyEvident, SilenceIsTrue DEF ReadCurrent
<1>4. CASE ~(ReadCurrent(r) \/ ReadSaved(r))
  <2>1. PICK code, content :
            /\ Answer(r, code, content) /\ code # 202
            /\ code = 200 => req[r].op # "put"
            /\ code = 404 => "missing" \in Facts(r)
    BY <1>4, ReadAnswers
  <2>2. code = 404 => "missing" \in witnessed[r]
    BY <1>2, <2>1
  <2>3. code = 200 => req[r].op # "put"
    BY <2>1
  <2> QED  BY <1>1, <2>1, <2>2, <2>3, AnswerEvident, AnswerIsTrue
<1> QED  BY <1>3, <1>4

LEMMA PutEvident ==
    ASSUME TruthInv, NEW r \in Requests, PutPrometheusConfig(r)
    PROVE  TruthInv' /\ AnswersTrueNow
<1>1. TypeInv /\ TypeInv' /\ Evidence(r) /\ req[r] \in RequestSet
  BY PutTypes, RequestRuns DEF TruthInv
<1>2. CASE PutIdentical(r)
  BY <1>2, CommonEvident, CommonIsTrue DEF Common
<1>3. CASE PutBackup(r)
  <2> DEFINE found == cur[r][req[r].file]
             saved == IF found = None THEN Blank ELSE found
  <2>1. reply' = reply /\ Backup(r, saved)
    BY <1>3 DEF PutBackup, Backup, Ask
  <2>2. found # None => saved = found
    OBVIOUS
  <2> HIDE DEF saved
  <2> QED  BY <1>1, <2>1, <2>2, BackupEvident, SilenceIsTrue
<1>4. CASE PutReplace(r)
  <2>1. "backedUp" \in witnessed[r]
    BY <1>1, <1>4 DEF PutReplace, Updated, Evidence
  <2>2. reply' = reply
    BY <1>4 DEF PutReplace, Replace, Ask
  <2> QED  BY <1>1, <1>4, <2>1, <2>2, ReplaceEvident, SilenceIsTrue DEF PutReplace
<1>5. CASE PutPanic(r)
  BY <1>1, <1>5, AnswerEvident, AnswerIsTrue DEF PutPanic, NoReply
<1> QED  BY <1>2, <1>3, <1>4, <1>5 DEF PutPrometheusConfig

LEMMA NextEvident == TruthInv /\ [Next]_vars => TruthInv' /\ AnswersTrueNow
  BY ReadEvident, PutEvident, CommonEvident, CommonIsTrue, OutsideEvident, OutsideIsTrue
     DEF Next, Progress, Common

(***************************************************************************)
(* No answer of the configuration endpoints is a lie about the whole time  *)
(* its request took: a 202 stands for a configuration that was in force,   *)
(* and for a saved copy of the one that its PUT had read.  (That need not  *)
(* be the one it replaced, when another PUT came in between.)              *)
(***************************************************************************)
THEOREM ConfigAnswersAreTrue == Spec => AnswersAreTrue
<1>1. Init => TruthInv
  BY InitEvident DEF Init
<1>2. TruthInv /\ [Next]_vars =>
          [\A r \in Requests : Answered(r) => Promised(r) \subseteq witnessed[r]]_vars
  BY NextEvident DEF AnswersTrueNow
<1> QED  BY <1>1, <1>2, NextEvident, PTL DEF Spec, AnswersAreTrue

-----------------------------------------------------------------------------
(***************************************************************************)
(* Requests that come one by one, though any of them may fail or be cut    *)
(* off by a crash half way: the history says how long they have.           *)
(***************************************************************************)
AloneInv == alone => FreshInv

(* There is but one name, which begins with no other.                      *)
LEMMA OneFile == NoPrefixes
<1>1. \E f : Files = {f}
  BY FS_Singleton, FilesAssumption, ConfigAssumption
<1> QED  BY <1>1 DEF NoPrefixes

LEMMA ReadFresh ==
    ASSUME FreshInv, BoundedInv', NEW r \in Requests, Reject(r) \/ Read(r)
    PROVE  FreshInv'
<1>1. pc[r] \in Running
  BY RequestRuns DEF FreshInv, BoundedInv
<1>2. CASE ReadCurrent(r) \/ ReadSaved(r)
  BY <1>2, CopyFresh DEF ReadCurrent
<1>3. CASE ~(ReadCurrent(r) \/ ReadSaved(r))
  <2>1. \E code, content : Answer(r, code, content)
    BY <1>3 DEF Reject, Read, GetPrometheusConfig, GetVersion, GetPrometheusVersions
  <2> QED  BY <1>1, <2>1, AnswerFresh
<1> QED  BY <1>2, <1>3

LEMMA PutFresh ==
    ASSUME FreshInv, BoundedInv', NEW r \in Requests, PutPrometheusConfig(r)
    PROVE  FreshInv'
<1>1. req[r] \in RequestSet /\ pc[r] \in Running
  BY RequestRuns DEF FreshInv, BoundedInv
<1>2. CASE PutIdentical(r)
  BY <1>2, CommonFresh DEF Common
<1>3. CASE PutBackup(r)
  BY <1>1, <1>3, BackupFresh DEF PutBackup, PutStart, FoundText
<1>4. CASE PutReplace(r)
  BY <1>1, <1>4, ReplaceFresh DEF PutReplace
<1>5. CASE PutPanic(r)
  BY <1>1, <1>5, AnswerFresh DEF PutPanic
<1> QED  BY <1>2, <1>3, <1>4, <1>5 DEF PutPrometheusConfig

LEMMA NextFresh ==
    ASSUME FreshInv, [Next]_vars, OneInFlight'
    PROVE  FreshInv'
<1>1. BoundedInv'
  BY NextBounded DEF FreshInv
<1> QED  BY <1>1, ReadFresh, PutFresh, CommonFresh, OutsideFresh DEF Next, Progress, Common

(* A step that writes is one of an update.                                 *)
LEMMA NextWrites ==
    ASSUME FreshInv, [Next]_vars
    PROVE  \/ cm' = cm /\ (now' = now \/ now' = now + 1)
           \/ \E r \in Requests : Writes(r)
<1>1. CASE \E r \in Requests : UpdateMap(r) \/ UpdateMapFails(r)
  BY <1>1, UpdateWrites
<1>2. CASE ~ \E r \in Requests : UpdateMap(r) \/ UpdateMapFails(r)
  <2>1. ASSUME NEW r \in Requests, Reject(r) \/ Read(r)
        PROVE  cm' = cm /\ now' = now
    BY <2>1 DEF Reject, Read, GetPrometheusConfig, GetVersion, GetPrometheusVersions,
                ReadCurrent, TakeCurrent, ReadSaved, Answer
  <2>2. ASSUME NEW r \in Requests,
               \/ PutPrometheusConfig(r) \/ ReadFails(r) \/ UpdateError(r)
               \/ Finish(r) \/ Arrive(r)
        PROVE  cm' = cm /\ now' = now
    BY <2>2 DEF PutPrometheusConfig, PutIdentical, PutBackup, PutReplace, PutPanic, Replace,
                Backup, Ask, ReadFails, UpdateError, Finish, Answer, Arrive
  <2> QED  BY <1>2, <2>1, <2>2 DEF Next, Progress, Tick, Crash, vars
<1> QED  BY <1>1, <1>2

LEMMA AlwaysAlone == AloneSpec => []AloneInv
<1>1. AloneInit => AloneInv
  BY InitFresh DEF AloneInit, AloneInv
<1>2. AloneInv /\ [AloneNext]_aloneVars => AloneInv'
  <2> SUFFICES ASSUME AloneInv, [AloneNext]_aloneVars, alone' PROVE FreshInv'
    BY DEF AloneInv
  <2>1. CASE AloneNext
    <3>1. alone /\ OneInFlight' /\ Next
      BY <2>1, Zenon DEF AloneNext
    <3> QED  BY <3>1, NextFresh DEF AloneInv
  <2>2. CASE UNCHANGED aloneVars
    <3>1. FreshInv /\ UNCHANGED vars
      BY <2>2 DEF aloneVars, AloneInv
    <3>2. OneInFlight'
      BY <3>1, NobodyArrives DEF vars
    <3> QED  BY <3>1, <3>2, OutsideFresh
  <2> QED  BY <2>1, <2>2
<1> QED  BY <1>1, <1>2, PTL DEF AloneSpec

(***************************************************************************)
(* As long as no two requests have been in progress at once, the           *)
(* configuration with its versions is a versioned file in the sense of the *)
(* abstract specification, whichever calls fail and whenever the server is *)
(* restarted; only what is saved for a missing configuration is not.       *)
(***************************************************************************)
THEOREM ConfigIsVersionedFile == AloneSpec => IsVersionedFileAlone
<1>1. AloneInit => Store!Init
  BY DEF AloneInit, Init, Store!Init, Store!Times, Times
<1>2. ASSUME AloneInv, [AloneNext]_aloneVars, alone', \A f \in Files : Current[f] # None
      PROVE  [Store!Next]_(Store!filesVars)
  <2>1. CASE AloneNext
    <3>1. FreshInv /\ Next
      BY <1>2, <2>1 DEF AloneNext, AloneInv
    <3>2. CASE \E r \in Requests : Writes(r)
      <4>1. PICK r \in Requests : Writes(r)
        BY <3>2
      <4>2. Current[req[r].file] # None
        BY <1>2, <4>1 DEF Writes
      <4> QED  BY <3>1, <4>1, <4>2, OneFile, WritesRefine
    <3> QED  BY <3>1, <3>2, NextWrites, StoreRests
  <2>2. CASE UNCHANGED aloneVars
    BY <2>2, StoreRests DEF aloneVars, vars
  <2> QED  BY <1>2, <2>1, <2>2
<1>3. AloneInv /\ [AloneNext]_aloneVars =>
          [alone' /\ (\A f \in Files : Current[f] # None)
               => [Store!Next]_(Store!filesVars)]_aloneVars
  BY <1>2
<1> QED  BY <1>1, <1>3, AlwaysAlone, PTL DEF AloneSpec, IsVersionedFileAlone

(***************************************************************************)
(* As long as no two requests have been in progress at once, taking the    *)
(* newest version undoes the replacement of the configuration.             *)
(***************************************************************************)
THEOREM ConfigUndoneByNewest == AloneSpec => NewestVersionUndoes
<1>1. AloneInv /\ [AloneNext]_aloneVars =>
          [alone' => \A r \in Requests : UndoneByNewest(r)]_aloneVars
  BY NewestUndoes DEF AloneNext, AloneInv
<1> QED  BY <1>1, AlwaysAlone, PTL DEF AloneSpec, NewestVersionUndoes

-----------------------------------------------------------------------------
(***************************************************************************)
(* The same when no request is let in before the one before it is over.    *)
(***************************************************************************)
LEMMA AlwaysFresh ==
    ASSUME MaxInflight = 1
    PROVE  Spec => []FreshInv
<1>1. Init => FreshInv
  BY InitFresh
<1>2. ASSUME FreshInv, [Next]_vars PROVE FreshInv'
  <2>1. OneInFlight'
    <3>1. CASE \E r \in Requests : Arrive(r)
      BY <1>2, <3>1, OneIsLetIn
    <3>2. CASE Tick \/ Crash \/ UNCHANGED vars
      BY <1>2, <3>2, NobodyArrives DEF Tick, Crash, vars, InFlight, Running, Updating
    <3>3. CASE \E r \in Requests : \/ Reject(r) \/ Progress(r)
                                   \/ ReadFails(r) \/ UpdateMapFails(r)
      <4>1. BoundedInv'
        BY <1>2, NextBounded DEF FreshInv
      <4> QED  BY <1>2, <3>3, <4>1, ReadFresh, PutFresh, CommonFresh
               DEF Progress, Common, FreshInv
    <3> QED  BY <1>2, <3>1, <3>2, <3>3 DEF Next
  <2> QED  BY <1>2, <2>1, NextFresh
<1> QED  BY <1>1, <1>2, PTL DEF Spec

LEMMA NextHolds ==
    ASSUME FreshInv, [Next]_vars
    PROVE  AnswersHold
<1>1. TypeInv
  BY DEF FreshInv, BoundedInv
<1>2. ASSUME NEW r \in Requests, Reject(r) \/ Read(r) PROVE AnswersHold
  <2>1. CASE ReadCurrent(r) \/ ReadSaved(r)
    BY <2>1, SilenceHolds DEF ReadCurrent, TakeCurrent, ReadSaved
  <2>2. CASE ~(ReadCurrent(r) \/ ReadSaved(r))
    <3>1. PICK code, content :
              /\ Answer(r, code, content) /\ code # 202
              /\ code = 200 => req[r].op # "put"
              /\ code = 404 => "missing" \in Facts(r)
      BY <1>2, <2>2, ReadAnswers
    <3> QED  BY <1>1, <3>1, AnswerHolds
  <2> QED  BY <2>1, <2>2
<1>3. ASSUME NEW r \in Requests, PutPrometheusConfig(r) PROVE AnswersHold
  <2>1. CASE PutIdentical(r)
    BY <2>1, CommonHolds DEF Common
  <2>2. CASE PutBackup(r) \/ PutReplace(r)
    BY <2>2, SilenceHolds DEF PutBackup, PutReplace, Backup, Replace, Ask
  <2>3. CASE PutPanic(r)
    BY <1>1, <2>3, AnswerHolds DEF PutPanic, NoReply
  <2> QED  BY <1>3, <2>1, <2>2, <2>3 DEF PutPrometheusConfig
<1> QED  BY <1>2, <1>3, CommonHolds, OutsideHolds DEF Next, Progress, Common

(***************************************************************************)
(* What a 202, a 200 for a PUT, or a 404 of the configuration endpoints    *)
(* says is still so when it is given to requests that come one by one.     *)
(***************************************************************************)
THEOREM ConfigAnswersHoldNow ==
    ASSUME MaxInflight = 1
    PROVE  Spec => AnswersHoldNow
<1>1. FreshInv /\ [Next]_vars =>
          [\A r \in Requests : Answered(r) => Promised(r) \subseteq Facts(r)]_vars
  BY NextHolds DEF AnswersHold
<1> QED  BY <1>1, AlwaysFresh, PTL DEF Spec, AnswersHoldNow

(***************************************************************************)
(* Before the configuration is replaced it has been saved among the        *)
(* versions, also when the PUT then fails, panics or is cut off.           *)
(***************************************************************************)
THEOREM ConfigIsSavedFirst ==
    ASSUME MaxInflight = 1
    PROVE  Spec => BackupBeforeReplace
<1>1. ASSUME FreshInv, [Next]_vars, NEW f \in Files,
             Current[f] # None, Current'[f] \notin {None, Current[f]}
      PROVE  \E t \in Times : Archive[<<f, t>>] = Current[f]
  BY <1>1, NextWrites, WritesSaved DEF Current
<1>2. FreshInv /\ [Next]_vars =>
          [\A f \in Files :
               /\ Current[f] # None
               /\ Current'[f] \notin {None, Current[f]}
               => \E t \in Times : Archive[<<f, t>>] = Current[f]]_vars
  BY <1>1
<1> QED  BY <1>2, AlwaysFresh, PTL DEF Spec, BackupBeforeReplace

(***************************************************************************)
(* A version of the configuration disappears only when there is none, or   *)
(* when it is old enough and enough newer ones remain: there are no other  *)
(* names that the pruning loop could confuse it with.                      *)
(***************************************************************************)
THEOREM ConfigVersionsLeaveByPolicy ==
    ASSUME MaxInflight = 1
    PROVE  Spec => VersionsLeaveOnlyByPolicy
<1>1. ASSUME FreshInv, [Next]_vars, NEW f \in Files, NEW t \in Saved(f)
      PROVE  \/ Archive'[<<f, t>>] # None
             \/ Current[f] = None
             \/ /\ now - t >= MaxBackupHours
                /\ Cardinality({u \in Saved(f)' : u > t}) >= MaxBackupFiles
  <2>1. CASE cm' = cm
    BY <2>1 DEF Saved, Archive
  <2>2. CASE \E r \in Requests : Writes(r)
    BY <1>1, <2>2, OneFile, WritesLeave
  <2> QED  BY <1>1, <2>1, <2>2, NextWrites
<1>2. FreshInv /\ [Next]_vars =>
          [\A f \in Files : \A t \in Saved(f) :
               Archive'[<<f, t>>] # None
               \/ Current[f] = None
               \/ /\ now - t >= MaxBackupHours
                  /\ Cardinality({u \in Saved(f)' : u > t}) >= MaxBackupFiles]_vars
  BY <1>1
<1> QED  BY <1>2, AlwaysFresh, PTL DEF Spec, VersionsLeaveOnlyByPolicy
=============================================================================
