-------------------------- MODULE CheckedRulesProofs --------------------------
(***************************************************************************)
(* Theorems about the temporary files, and about the rules endpoints with  *)
(* the validation of the bodies.  The composition is an instance of each   *)
(* of its two parts, so that what is proved of them holds of it; what it   *)
(* adds is an invariant that links a handler to the check it waits for.    *)
(***************************************************************************)
EXTENDS CheckedRules, PrometheusRulesProofs

(***************************************************************************)
(* The temporary files, for any number of checks and names: TempInv says   *)
(* which file each name and each check refers to.  Files never change      *)
(* their name, so checks that use different names never touch the same     *)
(* file, and checks that use one name know each other.                     *)
(***************************************************************************)

(* A file with the name s was created under it.                            *)
CreatedAs(i, s) == i \in Requests /\ task[i].at # "new" /\ task[i].slot = s

References ==
    /\ \A s \in Slots : names[s] # None => CreatedAs(names[s], s)
    /\ \A c \in Requests :
           /\ task[c].at \in Using => task[c].slot \in Slots /\ task[c].body \in Values
           /\ task[c].at \in {"created", "reading"} => CreatedAs(task[c].fd, task[c].slot)

SharersKnown ==
    \A c, d \in Requests :
        c # d /\ c \in Users(task[c].slot) /\ d \in Users(task[c].slot) => d \in sharers[c]

(* What a check that shares its name with nobody finds.                    *)
OwnText(c) ==
    LET mine == task[c] IN
    /\ mine.at = "created" => names[mine.slot] = mine.fd /\ text[mine.fd] = Empty
    /\ mine.at = "written" => /\ names[mine.slot] # None
                              /\ text[names[mine.slot]] = mine.body
    /\ mine.at = "reading" => text[mine.fd] = mine.body
    /\ mine.at \in {"new", "created", "written", "reading"} => mine.verdict = None
    /\ mine.verdict = "valid" => mine.body \in Valid
    /\ mine.verdict = "invalid" => mine.body \notin Valid

Undisturbed == \A c \in Requests : sharers[c] = {} => OwnText(c)

TempInv ==
    TempTypeOK /\ References /\ SharersKnown /\ Undisturbed /\ FilesAreAccountedFor

-----------------------------------------------------------------------------
LEMMA TempInitInv == TempInit => TempInv
<1> SUFFICES ASSUME TempInit PROVE TempInv
  OBVIOUS
<1> DEFINE unstarted == [at |-> "new", body |-> None, slot |-> None,
                         fd |-> None, verdict |-> None]
<1>1. unstarted \in Tasks
  BY DEF Tasks
<1>2. \A c \in Requests : task[c] = unstarted
  BY DEF TempInit
<1>3. TempTypeOK
  BY <1>1 DEF TempInit, TempTypeOK, Texts
<1>4. References /\ SharersKnown /\ FilesAreAccountedFor
  BY <1>2 DEF TempInit, References, SharersKnown, FilesAreAccountedFor, Users, Using
<1>5. Undisturbed
  BY <1>2, TempFilesAssumption DEF Undisturbed, OwnText, Verdicts
<1> QED  BY <1>3, <1>4, <1>5 DEF TempInv

LEMMA JudgeTypes ==
    ASSUME TempTypeOK, NEW c \in Requests, NEW v \in Verdicts, Judge(c, v)
    PROVE  TempTypeOK'
<1>1. [task[c] EXCEPT !.at = "judged", !.fd = None, !.verdict = v] \in Tasks
  BY DEF TempTypeOK, Tasks, Using
<1> QED  BY <1>1 DEF Judge, TempTypeOK

(* A step of d that leaves the name and the body of every check alone.     *)
LEMMA StepKeeps ==
    ASSUME TempInv, NEW d \in Requests, GoOn(d)
    PROVE  /\ TempTypeOK'
           /\ \A c \in Requests \ {d} : task'[c] = task[c]
           /\ task'[d].slot = task[d].slot /\ task'[d].body = task[d].body
           /\ task[d].at \in Using /\ task'[d].at # "new"
           /\ sharers' = sharers
<1>1. task[d].at \in Using /\ task[d].slot \in Slots
  BY DEF GoOn, WriteFile, WriteFails, PromtoolOpens, PromtoolReads, PromtoolFails,
         RemoveFile, Using, TempInv, References, Judge
<1>2. task[d].at \in {"created", "reading"} => task[d].fd \in Requests
  BY DEF TempInv, References, CreatedAs
<1>3. CASE WriteFile(d)
  <2>1. [task[d] EXCEPT !.at = "written", !.fd = None] \in Tasks
    BY DEF TempInv, TempTypeOK, Tasks, Using
  <2>2. text' \in [Requests -> Texts]
    BY <1>1, <1>2, <1>3 DEF WriteFile, TempInv, References, TempTypeOK, Texts
  <2> QED  BY <1>1, <1>3, <2>1, <2>2 DEF WriteFile, TempInv, TempTypeOK, Tasks
<1>4. CASE WriteFails(d)
  <2>1. [task[d] EXCEPT !.at = "done", !.fd = None, !.verdict = "unsaved"] \in Tasks
    BY DEF TempInv, TempTypeOK, Tasks, Verdicts
  <2>2. text' \in [Requests -> Texts]
    BY <1>2, <1>4 DEF WriteFails, TempInv, TempTypeOK, Texts
  <2> QED  BY <1>1, <1>4, <2>1, <2>2 DEF WriteFails, TempInv, TempTypeOK, Tasks
<1>5. ASSUME NEW v \in Verdicts, Judge(d, v)
      PROVE  /\ TempTypeOK' /\ sharers' = sharers
             /\ \A c \in Requests \ {d} : task'[c] = task[c]
             /\ task'[d].slot = task[d].slot /\ task'[d].body = task[d].body
             /\ task'[d].at # "new"
  BY <1>5, JudgeTypes DEF Judge, TempInv, TempTypeOK, Tasks
<1>6. CASE PromtoolReads(d) \/ PromtoolFails(d)
  <2>1. \E v \in Verdicts : Judge(d, v)
    BY <1>6 DEF PromtoolReads, PromtoolFails, Verdicts
  <2> QED  BY <1>1, <1>5, <2>1
<1>8. CASE PromtoolOpens(d)
  <2>1. CASE Judge(d, "invalid")
    BY <1>1, <1>5, <2>1 DEF Verdicts
  <2>2. CASE ~Judge(d, "invalid")
    BY <1>1, <1>8, <2>2 DEF PromtoolOpens, TempInv, TempTypeOK, Tasks, Using
  <2> QED  BY <2>1, <2>2
<1>7. CASE RemoveFile(d)
  BY <1>1, <1>7 DEF RemoveFile, TempInv, TempTypeOK, Tasks, Using
<1> QED  BY <1>3, <1>4, <1>6, <1>7, <1>8 DEF GoOn

LEMMA StepSharers ==
    ASSUME TempInv, NEW d \in Requests, GoOn(d)
    PROVE  SharersKnown'
  BY StepKeeps DEF TempInv, SharersKnown, Users

LEMMA StepReferences ==
    ASSUME TempInv, NEW d \in Requests, GoOn(d)
    PROVE  References'
<1>1. \A i, s : CreatedAs(i, s) => CreatedAs(i, s)'
  BY StepKeeps DEF CreatedAs, TempInv, TempTypeOK
<1>2. \A s \in Slots : names'[s] # None => names'[s] = names[s]
  BY DEF GoOn, WriteFile, WriteFails, PromtoolOpens, PromtoolReads, PromtoolFails,
         RemoveFile, Judge, TempInv, TempTypeOK
<1>3. task'[d].at \in Using => task[d].at \in Using
  BY StepKeeps
<1>4. task'[d].at \in {"created", "reading"} => CreatedAs(task'[d].fd, task'[d].slot)
  <2>1. CASE PromtoolOpens(d)
    BY <2>1, StepKeeps
       DEF PromtoolOpens, Judge, TempInv, References, TempTypeOK, Tasks, Using
  <2>2. CASE ~PromtoolOpens(d)
    BY <2>2 DEF GoOn, WriteFile, WriteFails, PromtoolReads, PromtoolFails,
                RemoveFile, Judge, TempInv, TempTypeOK, Tasks
  <2> QED  BY <2>1, <2>2
<1> QED  BY <1>1, <1>2, <1>3, <1>4, StepKeeps DEF References, TempInv

LEMMA StepAccounts ==
    ASSUME TempInv, NEW d \in Requests, GoOn(d)
    PROVE  FilesAreAccountedFor'
<1> SUFFICES ASSUME NEW s \in Slots, names'[s] # None
             PROVE  names'[s] \in Users(s)' \/ task'[names'[s]].verdict = "unsaved"
  BY DEF FilesAreAccountedFor
<1>1. names'[s] = names[s] /\ CreatedAs(names[s], s)
  BY DEF GoOn, WriteFile, WriteFails, PromtoolOpens, PromtoolReads, PromtoolFails,
         RemoveFile, Judge, TempInv, TempTypeOK, References
<1>2. CASE names[s] # d
  BY <1>1, <1>2, StepKeeps DEF TempInv, FilesAreAccountedFor, Users, CreatedAs
<1>3. CASE names[s] = d
  <2>1. CASE RemoveFile(d)
    BY <1>1, <1>3, <2>1, TempFilesAssumption
       DEF RemoveFile, CreatedAs, TempInv, TempTypeOK
  <2>2. CASE WriteFails(d)
    BY <1>1, <1>3, <2>2 DEF WriteFails, TempInv, TempTypeOK, Tasks
  <2>3. CASE WriteFile(d) \/ PromtoolOpens(d) \/ PromtoolReads(d) \/ PromtoolFails(d)
    BY <1>1, <1>3, <2>3
       DEF WriteFile, PromtoolOpens, PromtoolReads, PromtoolFails, Judge, Users,
           CreatedAs, Using, TempInv, TempTypeOK, Tasks
  <2> QED  BY <2>1, <2>2, <2>3 DEF GoOn
<1> QED  BY <1>2, <1>3

(* A check that uses another name leaves c's file and its name alone.      *)
LEMMA OthersLeaveAlone ==
    ASSUME TempInv, NEW c \in Requests, NEW d \in Requests \ {c}, GoOn(d),
           task[c].at \in Using, task[d].slot # task[c].slot
    PROVE  /\ names'[task[c].slot] = names[task[c].slot]
           /\ \A i : CreatedAs(i, task[c].slot) => text'[i] = text[i]
<1>1. task[d].at \in Using /\ task[d].slot \in Slots /\ task[c].slot \in Slots
  BY StepKeeps DEF TempInv, References
<1>2. names'[task[c].slot] = names[task[c].slot]
  BY <1>1 DEF GoOn, WriteFile, WriteFails, PromtoolOpens, PromtoolReads, PromtoolFails,
              RemoveFile, Judge, TempInv, TempTypeOK
<1>3. ASSUME NEW i, CreatedAs(i, task[c].slot) PROVE text'[i] = text[i]
  BY <1>3 DEF CreatedAs, GoOn, WriteFile, WriteFails, PromtoolOpens, PromtoolReads,
              PromtoolFails, RemoveFile, Judge, TempInv, TempTypeOK, References
<1> QED  BY <1>2, <1>3

LEMMA StepUndisturbed ==
    ASSUME TempInv, NEW d \in Requests, GoOn(d)
    PROVE  Undisturbed'
<1> SUFFICES ASSUME NEW c \in Requests, sharers[c] = {} PROVE OwnText(c)'
  BY StepKeeps DEF Undisturbed
<1>1. OwnText(c)
  BY DEF TempInv, Undisturbed
<1>2. CASE c = d
  <2>1. task[d].slot \in Slots /\ task[d].body \in Values
        /\ (task[d].at \in {"created", "reading"} => task[d].fd \in Requests)
    BY StepKeeps DEF TempInv, References, CreatedAs
  <2>2. CASE WriteFile(d)
    BY <1>1, <1>2, <2>1, <2>2, TempFilesAssumption
       DEF WriteFile, OwnText, TempInv, TempTypeOK, Tasks, References, CreatedAs
  <2>3. CASE WriteFails(d)
    BY <1>2, <2>3 DEF WriteFails, OwnText, TempInv, TempTypeOK, Tasks
  <2>4. CASE PromtoolOpens(d)
    BY <1>1, <1>2, <2>1, <2>4, TempFilesAssumption
       DEF PromtoolOpens, Judge, OwnText, TempInv, TempTypeOK, Tasks
  <2>5. CASE PromtoolReads(d)
    BY <1>1, <1>2, <2>1, <2>5
       DEF PromtoolReads, Judge, OwnText, TempInv, TempTypeOK, Tasks
  <2>6. CASE PromtoolFails(d) \/ RemoveFile(d)
    BY <1>1, <1>2, <2>6
       DEF PromtoolFails, RemoveFile, Judge, OwnText, TempInv, TempTypeOK, Tasks
  <2> QED  BY <2>2, <2>3, <2>4, <2>5, <2>6 DEF GoOn
<1>3. CASE c # d /\ task[c].at \in {"created", "written", "reading"}
  <2>1. task[c].at \in Using /\ c \in Users(task[c].slot) /\ task[d].at \in Using
    BY <1>3, StepKeeps DEF Using, Users
  <2>2. task[d].slot # task[c].slot
    BY <1>3, <2>1 DEF TempInv, SharersKnown, Users
  <2>3. /\ names'[task[c].slot] = names[task[c].slot]
        /\ \A i : CreatedAs(i, task[c].slot) => text'[i] = text[i]
    BY <1>3, <2>1, <2>2, OthersLeaveAlone
  <2>4. /\ task[c].at \in {"created", "reading"} => CreatedAs(task[c].fd, task[c].slot)
        /\ names[task[c].slot] # None => CreatedAs(names[task[c].slot], task[c].slot)
    BY <2>1 DEF TempInv, References
  <2>5. task'[c] = task[c]
    BY <1>3, StepKeeps
  <2> QED  BY <1>1, <1>3, <2>3, <2>4, <2>5 DEF OwnText
<1>4. CASE c # d /\ task[c].at \notin {"created", "written", "reading"}
  BY <1>1, <1>4, StepKeeps DEF OwnText
<1> QED  BY <1>2, <1>3, <1>4

-----------------------------------------------------------------------------
LEMMA CreateInv ==
    ASSUME TempInv, NEW c \in Requests, NEW s \in Slots, NEW b \in Values,
           CreateFile(c, s, b)
    PROVE  TempInv'
<1> DEFINE file == IF names[s] = None THEN c ELSE names[s]
<1> DEFINE started == [at |-> "created", body |-> b, slot |-> s,
                       fd |-> file, verdict |-> None]
<1>1. /\ task[c].at = "new"
      /\ names' = [names EXCEPT ![s] = file]
      /\ text' = [text EXCEPT ![file] = Empty]
      /\ task' = [task EXCEPT ![c] = started]
  BY DEF CreateFile
<1>2. file \in Requests /\ file # None
  BY TempFilesAssumption DEF TempInv, TempTypeOK
<1>3. TempTypeOK'
  <2>1. started \in Tasks
    BY <1>2 DEF Tasks, Using
  <2>2. sharers' \in [Requests -> SUBSET Requests]
    BY DEF CreateFile, TempInv, TempTypeOK, Users
  <2> HIDE DEF started, file
  <2> QED  BY <1>1, <1>2, <2>1, <2>2 DEF TempInv, TempTypeOK, Texts
<1>4. task'[c] = started /\ \A d \in Requests \ {c} : task'[d] = task[d]
  BY <1>1 DEF TempInv, TempTypeOK
<1>5. \A i, t : CreatedAs(i, t) => CreatedAs(i, t)' /\ i # c
  BY <1>1, <1>4 DEF CreatedAs
<1>6. file \in Requests /\ task'[file].at # "new" /\ task'[file].slot = s
  <2>1. CASE names[s] = None
    BY <1>2, <1>4, <2>1
  <2>2. CASE names[s] # None
    BY <1>2, <1>4, <1>5, <2>2 DEF TempInv, References, CreatedAs
  <2> QED  BY <2>1, <2>2
<1>7. References'
  <2>1. names'[s] = file /\ \A t \in Slots \ {s} : names'[t] = names[t]
    BY <1>1 DEF TempInv, TempTypeOK
  <2>2. \A t \in Slots : names'[t] # None =>
            /\ names'[t] \in Requests
            /\ task'[names'[t]].at # "new" /\ task'[names'[t]].slot = t
    BY <1>5, <1>6, <2>1 DEF TempInv, References, CreatedAs
  <2>3. /\ task'[c].slot = s /\ task'[c].body = b /\ task'[c].fd = file
    BY <1>4
  <2> QED  BY <1>4, <1>5, <1>6, <2>2, <2>3 DEF References, TempInv, CreatedAs
<1>8. /\ sharers'[c] = Users(s)
      /\ \A d \in Requests : sharers[d] \subseteq sharers'[d] \/ d = c
      /\ \A d \in Users(s) : c \in sharers'[d]
  <2>1. sharers' = [d \in Requests |-> IF d = c THEN Users(s)
                                    ELSE IF d \in Users(s) THEN sharers[d] \cup {c}
                                    ELSE sharers[d]]
    BY DEF CreateFile
  <2>2. c \notin Users(s) /\ Users(s) \subseteq Requests
    BY <1>1 DEF Users, Using
  <2> QED  BY <2>1, <2>2
<1>9. SharersKnown'
  <2> SUFFICES ASSUME NEW d \in Requests, NEW e \in Requests, d # e,
                      d \in Users(task[d].slot)', e \in Users(task[d].slot)'
               PROVE  e \in sharers'[d]
    BY DEF SharersKnown
  <2>1. CASE d = c
    BY <1>4, <1>8, <2>1 DEF Users
  <2>2. CASE e = c
    BY <1>4, <1>8, <2>2 DEF Users
  <2>3. CASE c \notin {d, e}
    BY <1>4, <1>8, <2>3 DEF Users, TempInv, SharersKnown
  <2> QED  BY <2>1, <2>2, <2>3
<1>10. Undisturbed'
  <2> SUFFICES ASSUME NEW d \in Requests, sharers'[d] = {} PROVE OwnText(d)'
    BY DEF Undisturbed
  <2>1. CASE d = c
    BY <1>1, <1>2, <1>4, <2>1, TempFilesAssumption
       DEF OwnText, TempInv, TempTypeOK, Verdicts
  <2>2. CASE d # c
    <3>1. OwnText(d) /\ task'[d] = task[d]
      BY <1>4, <1>8, <2>2 DEF TempInv, Undisturbed
    <3>2. CASE task[d].at \in {"created", "written", "reading"}
      <4>1. d \notin Users(s) /\ task[d].at \in Using
        BY <1>8, <3>2 DEF Using
      <4>2. task[d].slot # s /\ task[d].slot \in Slots
        BY <4>1 DEF Users, TempInv, References
      <4>3. names'[task[d].slot] = names[task[d].slot]
        BY <1>1, <4>2 DEF TempInv, TempTypeOK
      <4>4. ASSUME NEW i, CreatedAs(i, task[d].slot) PROVE text'[i] = text[i]
        BY <1>1, <1>5, <4>2, <4>4 DEF CreatedAs, TempInv, TempTypeOK, References
      <4>5. /\ task[d].at \in {"created", "reading"} => CreatedAs(task[d].fd, task[d].slot)
            /\ names[task[d].slot] # None => CreatedAs(names[task[d].slot], task[d].slot)
        BY <4>2 DEF TempInv, References
      <4> QED  BY <3>1, <3>2, <4>3, <4>4, <4>5 DEF OwnText
    <3>3. CASE task[d].at \notin {"created", "written", "reading"}
      BY <3>1, <3>3 DEF OwnText
    <3> QED  BY <3>2, <3>3
  <2> QED  BY <2>1, <2>2
<1>11. FilesAreAccountedFor'
  <2> SUFFICES ASSUME NEW t \in Slots, names'[t] # None
               PROVE  names'[t] \in Users(t)' \/ task'[names'[t]].verdict = "unsaved"
    BY DEF FilesAreAccountedFor
  <2>1. CASE names[t] = None
    BY <1>1, <1>4, <2>1 DEF Users, Using, TempInv, TempTypeOK
  <2>2. CASE names[t] # None
    <3>1. names'[t] = names[t] /\ CreatedAs(names[t], t)
      BY <1>1, <2>2 DEF TempInv, TempTypeOK, References
    <3> QED  BY <1>4, <1>5, <2>2, <3>1 DEF Users, CreatedAs, TempInv, FilesAreAccountedFor
  <2> QED  BY <2>1, <2>2
<1> QED  BY <1>3, <1>7, <1>9, <1>10, <1>11 DEF TempInv

LEMMA CreateFailsInv ==
    ASSUME TempInv, NEW c \in Requests, NEW b \in Values,
           CreateFails(c, b)
    PROVE  TempInv'
<1>1. /\ task[c].at = "new" /\ names' = names /\ text' = text /\ sharers' = sharers
      /\ task'[c].at = "done" /\ task'[c].verdict = "unsaved"
      /\ \A d \in Requests \ {c} : task'[d] = task[d]
  BY DEF CreateFails, TempInv, TempTypeOK, Tasks
<1>2. TempTypeOK'
  <2>1. [task[c] EXCEPT !.at = "done", !.body = b, !.verdict = "unsaved"]
            \in Tasks
    <3>1. task[c] \in Tasks
      BY DEF TempInv, TempTypeOK
    <3> QED  BY <3>1 DEF Tasks, Verdicts
  <2>2. task' \in [Requests -> Tasks]
    BY <2>1 DEF CreateFails, TempInv, TempTypeOK
  <2> QED  BY <1>1, <2>2 DEF TempInv, TempTypeOK
<1>3. \A i, t : CreatedAs(i, t) => CreatedAs(i, t)'
  BY <1>1 DEF CreatedAs
<1>4. References'
  BY <1>1, <1>3 DEF TempInv, References, Using
<1>5. SharersKnown'
  BY <1>1 DEF TempInv, SharersKnown, Users, Using
<1>6. Undisturbed'
  <2> SUFFICES ASSUME NEW d \in Requests, sharers[d] = {} PROVE OwnText(d)'
    BY <1>1 DEF Undisturbed
  <2>1. CASE d = c
    BY <1>1, <2>1 DEF OwnText
  <2>2. CASE d # c
    <3>1. OwnText(d) /\ task'[d] = task[d]
      BY <1>1, <2>2 DEF TempInv, Undisturbed
    <3> QED  BY <1>1, <3>1 DEF OwnText
  <2> QED  BY <2>1, <2>2
<1>7. FilesAreAccountedFor'
  BY <1>1 DEF TempInv, FilesAreAccountedFor, Users, Using, References, CreatedAs
<1> QED  BY <1>2, <1>4, <1>5, <1>6, <1>7 DEF TempInv

LEMMA ServerDiesInv ==
    ASSUME TempInv, ServerDies
    PROVE  TempInv'
<1>1. ASSUME NEW c \in Requests
      PROVE  /\ task'[c].at \in {"new", "done"} /\ task'[c] \in Tasks
             /\ task'[c].body = task[c].body /\ task'[c].verdict = task[c].verdict
             /\ task'[c].at = "new" => task[c].at = "new"
  <2>1. task[c] \in Tasks /\ task'[c] = IF task[c].at \in Using
            THEN [task[c] EXCEPT !.at = "done", !.fd = None] ELSE task[c]
    BY DEF ServerDies, TempInv, TempTypeOK
  <2>2. CASE task[c].at \in Using
    <3>1. [task[c] EXCEPT !.at = "done", !.fd = None] \in Tasks
      BY <2>1 DEF Tasks
    <3> QED  BY <2>1, <2>2, <3>1 DEF Tasks
  <2>3. CASE task[c].at \notin Using
    BY <2>1, <2>3 DEF Tasks
  <2> QED  BY <2>2, <2>3
<1>2. TempTypeOK'
  <2>1. task' \in [Requests -> Tasks]
    BY <1>1 DEF ServerDies
  <2> QED  BY <2>1 DEF ServerDies, TempInv, TempTypeOK
<1>3. References' /\ SharersKnown' /\ FilesAreAccountedFor'
  BY <1>1 DEF ServerDies, References, SharersKnown, FilesAreAccountedFor, Users, Using
<1>4. Undisturbed'
  <2> SUFFICES ASSUME NEW c \in Requests, sharers[c] = {} PROVE OwnText(c)'
    BY DEF ServerDies, Undisturbed
  <2>1. OwnText(c)
    BY DEF TempInv, Undisturbed
  <2> QED  BY <1>1, <2>1 DEF OwnText
<1> QED  BY <1>2, <1>3, <1>4 DEF TempInv

LEMMA TempStep == TempInv /\ [TempNext]_tempVars => TempInv'
<1> SUFFICES ASSUME TempInv, [TempNext]_tempVars PROVE TempInv'
  OBVIOUS
<1>1. ASSUME NEW c \in Requests, GoOn(c) PROVE TempInv'
  BY <1>1, StepKeeps, StepSharers, StepReferences, StepAccounts, StepUndisturbed
     DEF TempInv
<1>2. ASSUME NEW c \in Requests, NEW b \in Values, Start(c, b)
      PROVE  TempInv'
  BY <1>2, CreateInv, CreateFailsInv DEF Start
<1>3. CASE UNCHANGED tempVars
  BY <1>3 DEF tempVars, TempInv, TempTypeOK, References, SharersKnown, Undisturbed,
              FilesAreAccountedFor, Users, OwnText, CreatedAs
<1> QED  BY <1>1, <1>2, <1>3, ServerDiesInv DEF TempNext

LEMMA TempSafety == TempSpec => []TempInv
  BY TempInitInv, TempStep, PTL DEF TempSpec

(***************************************************************************)
(* The verdict of promtool on a body whose file name no other check drew   *)
(* at the same time is right, however many checks run and fail, and        *)
(* whatever they left behind under that name.                              *)
(***************************************************************************)
THEOREM VerdictsAreRight == TempSpec => []UnsharedVerdictsAreRight
<1>1. TempInv => UnsharedVerdictsAreRight
  BY DEF TempInv, Undisturbed, OwnText, UnsharedVerdictsAreRight
<1> QED  BY <1>1, TempSafety, PTL

(***************************************************************************)
(* No file stays behind but those of checks that failed to write them.     *)
(***************************************************************************)
THEOREM NoFileStaysBehind == TempSpec => []FilesAreAccountedFor
<1>1. TempInv => FilesAreAccountedFor
  BY DEF TempInv
<1> QED  BY <1>1, TempSafety, PTL

-----------------------------------------------------------------------------
(* The composition.                                                        *)

(* A check is the check of a PUT's own body, and a PUT that reads the maps *)
(* has been told that its body is valid.                                   *)
Linked(r) ==
    /\ task[r].at # "new" =>
           pc[r] # "new" /\ req[r].op = "put" /\ task[r].body = req[r].body
    /\ task[r].verdict = "unsaved" => ChecksMayFail
    /\ pc[r] \in Running \ {"arrived"} /\ req[r].op = "put" => Verdict(r) = "valid"

(* Whatever a file ever had was there at the start or had a good verdict.  *)
VouchedFor(r, f, b) ==
    /\ pc[r] # "new" /\ req[r].op = "put" /\ req[r].file = f /\ req[r].body = b
    /\ Verdict(r) = "valid"

Vouched ==
    \A f \in Files : \A b \in served[f] :
        Original(f, b) \/ \E r \in Requests : VouchedFor(r, f, b)

CheckedInv == GenuineInv /\ TempInv /\ (\A r \in Requests : Linked(r)) /\ Vouched

-----------------------------------------------------------------------------
(* What the steps of a handler do to the positions and the requests.       *)
Handler(r) == Reject(r) \/ Progress(r) \/ ReadFails(r) \/ UpdateMapFails(r)

LEMMA HandlerMoves ==
    ASSUME TypeInv, NEW r \in Requests, Handler(r)
    PROVE  /\ pc[r] \in Running /\ req' = req
           /\ pc'[r] \notin {"new", "arrived"}
           /\ \A q \in Requests \ {r} : pc'[q] = pc[q]
<1>1. DOMAIN pc = Requests
  BY DEF TypeInv, Types
<1>2. pc[r] \in Running
  BY RequestRuns, CommonRuns DEF Handler, Progress, Common
<1>3. ASSUME NEW code, NEW content, Answer(r, code, content)
      PROVE  /\ req' = req /\ pc'[r] \notin {"new", "arrived"}
             /\ \A q \in Requests \ {r} : pc'[q] = pc[q]
  BY <1>1, <1>3 DEF Answer
<1>4. ASSUME NEW n, NEW m, NEW next \in Updating, Ask(r, n, m, next)
      PROVE  /\ req' = req /\ pc'[r] \notin {"new", "arrived"}
             /\ \A q \in Requests \ {r} : pc'[q] = pc[q]
  BY <1>1, <1>4 DEF Ask, Updating
<1>5. CASE Reject(r) \/ ReadFails(r) \/ UpdateError(r) \/ Finish(r)
  BY <1>2, <1>3, <1>5 DEF Reject, ReadFails, UpdateError, Finish
<1>6. CASE UpdateMap(r) \/ UpdateMapFails(r)
  <2>1. pc[r] \in Updating
    BY <1>6, UpdateRuns
  <2> QED  BY <1>2, <1>6, <2>1 DEF UpdateMap, UpdateMapFails, Updating
<1>7. CASE Read(r)
  <2>1. CASE ReadCurrent(r) \/ ReadSaved(r)
    BY <1>1, <1>2, <2>1 DEF ReadCurrent, TakeCurrent, ReadSaved
  <2>2. CASE GetVersion(r)
    <3>1. \E code, content : Answer(r, code, content)
      BY <2>2 DEF GetVersion
    <3> QED  BY <1>2, <1>3, <3>1
  <2>3. CASE \/ GetPrometheusRuleNames(r) \/ FileNotFound(r) \/ GetCurrent(r)
             \/ GetPrometheusRuleVersions(r)
    BY <1>2, <1>3, <2>3
       DEF GetPrometheusRuleNames, FileNotFound, GetCurrent, GetPrometheusRuleVersions
  <2> QED  BY <1>7, <2>1, <2>2, <2>3 DEF Read
<1>8. CASE PutPrometheusRules(r)
  <2>1. \/ \E code, content : Answer(r, code, content)
        \/ \E n, m : \E next \in Updating : Ask(r, n, m, next)
    BY <1>8 DEF PutPrometheusRules, PutIdentical, PutBackup, PutReplace, PutCreate,
                Backup, Replace, Updating
  <2> QED  BY <1>2, <1>3, <1>4, <2>1
<1>9. CASE DeletePrometheusRules(r)
  <2>1. \/ \E code, content : Answer(r, code, content)
        \/ \E n, m : \E next \in Updating : Ask(r, n, m, next)
    BY <1>9 DEF DeletePrometheusRules, DeleteMissing, DeleteCurrent, DeleteVersions,
                Updating
  <2> QED  BY <1>2, <1>3, <1>4, <2>1
<1> QED  BY <1>5, <1>6, <1>7, <1>8, <1>9 DEF Handler, Progress

(* A handler's step changes the store only if it is an update's.           *)
LEMMA HandlerWrites ==
    ASSUME NEW r \in Requests, Handler(r), cm' # cm
    PROVE  UpdateMap(r) \/ UpdateMapFails(r)
<1>1. ASSUME NEW code, NEW content, Answer(r, code, content) PROVE FALSE
  BY <1>1 DEF Answer
<1>2. ASSUME NEW n, NEW m, NEW next, Ask(r, n, m, next) PROVE FALSE
  BY <1>2 DEF Ask
<1>3. ~Reject(r) /\ ~ReadFails(r) /\ ~UpdateError(r) /\ ~Finish(r)
  BY <1>1 DEF Reject, ReadFails, UpdateError, Finish
<1>4. ~Read(r)
  <2>1. ~GetVersion(r)
    BY <1>1 DEF GetVersion
  <2> QED  BY <1>1, <2>1 DEF Read, ReadCurrent, TakeCurrent, ReadSaved,
               GetPrometheusRuleNames, FileNotFound, GetCurrent,
               GetPrometheusRuleVersions
<1>5. ~PutPrometheusRules(r)
  BY <1>1, <1>2 DEF PutPrometheusRules, PutIdentical, PutBackup, PutReplace, PutCreate,
                    Backup, Replace
<1>6. ~DeletePrometheusRules(r)
  BY <1>1, <1>2 DEF DeletePrometheusRules, DeleteMissing, DeleteCurrent, DeleteVersions
<1> QED  BY <1>3, <1>4, <1>5, <1>6 DEF Handler, Progress

(* Content that is new to a file is the body of a PUT that is storing it.  *)
LEMMA NewContent ==
    ASSUME GenuineInv, [Next]_vars, NEW f \in Files, NEW b \in served'[f] \ served[f]
    PROVE  \E r \in Requests : /\ pc[r] \in {"replace", "create"} /\ req[r].op = "put"
                               /\ req[r].file = f /\ req[r].body = b
<1>1. cm' # cm
  <2> SUFFICES ASSUME cm' = cm PROVE FALSE
    OBVIOUS
  <2>1. CASE Record
    BY <2>1, ServedGrows
  <2>2. CASE UNCHANGED vars
    BY <2>2 DEF vars
  <2>3. CASE Next
    <3>1. ASSUME NEW r \in Requests, Handler(r) PROVE Record
      BY <3>1 DEF Handler, Progress, Reject, ReadFails, UpdateMapFails, UpdateMap,
                  UpdateError, Finish, Answer, Ask, Read, GetPrometheusRuleNames,
                  FileNotFound, GetCurrent, ReadCurrent, TakeCurrent, ReadSaved,
                  GetPrometheusRuleVersions, GetVersion, PutPrometheusRules,
                  PutIdentical, PutBackup, PutReplace, PutCreate, Backup, Replace,
                  DeletePrometheusRules, DeleteMissing, DeleteCurrent, DeleteVersions
    <3>2. Record
      BY <2>3, <3>1 DEF Next, Handler, Arrive, Tick, Crash
    <3> QED  BY <2>1, <3>2
  <2> QED  BY <2>2, <2>3
<1>2. PICK r \in Requests : UpdateMap(r) \/ UpdateMapFails(r)
  <2>1. \A r \in Requests : ~Arrive(r)
    BY <1>1 DEF Arrive
  <2>2. ~Tick /\ ~Crash /\ ~UNCHANGED vars
    BY <1>1 DEF Tick, Crash, vars
  <2>3. \E r \in Requests : Handler(r)
    BY <2>1, <2>2 DEF Next, Handler
  <2> QED  BY <1>1, <2>3, HandlerWrites
<1>3. (UpdateStep(r) \/ UpdateFault(r)) /\ Record
  BY <1>2 DEF UpdateMap, UpdateMapFails
<1> DEFINE n == call[r].name
           m == call[r].updated
<1>4. StoreTypeOK /\ n \in Names /\ m \in MapData
  BY DEF GenuineInv, TypeInv, Types, StoreTypeOK, Calls
<1>5. cm' = Stored(n, m)
  BY <1>1, <1>3, <1>4, UpdateFacts
<1>6. cm'[n].data = m /\ \A k \in Names : k # n => cm'[k] = cm[k]
  BY <1>4, <1>5, StoredFacts DEF StoreTypeOK
<1>7. served'[f] = served[f] \cup ({Current'[f]} \ {None})
  BY <1>3 DEF Record
<1>8. Current'[f] \in Kept(f) \cup Own(r, f)
  BY <1>6, MapNames DEF Current, GenuineInv, Genuine, Stores, Asked
<1>9. Current'[f] # Blank
  <2>1. TypeInv'
    BY NextTypes DEF GenuineInv
  <2> QED  BY <2>1, MapNames DEF TypeInv, Shapes, Current, CurrentContent
<1>10. b \in Own(r, f)
  BY <1>7, <1>8, <1>9 DEF Kept
<1> QED  BY <1>10 DEF Own, GenuineInv, TypeInv, Positions

-----------------------------------------------------------------------------
(* What a check keeps: its body, once it has one, and its final verdict.   *)
LEMMA ChecksSettle ==
    ASSUME TempInv, [TempNext]_tempVars, NEW c \in Requests
    PROVE  /\ task[c].at # "new" => task'[c].at # "new" /\ task'[c].body = task[c].body
           /\ task[c].at = "done" => task'[c] = task[c]
           /\ task'[c].verdict = "unsaved" => task[c].verdict = "unsaved" \/ ChecksMayFail
<1>1. task \in [Requests -> Tasks]
  BY DEF TempInv, TempTypeOK
<1>2. ASSUME NEW d \in Requests, GoOn(d)
      PROVE  task'[d].verdict = "unsaved" => task[d].verdict = "unsaved" \/ ChecksMayFail
  BY <1>1, <1>2 DEF GoOn, WriteFile, WriteFails, PromtoolOpens, PromtoolReads,
                    PromtoolFails, RemoveFile, Judge, Tasks
<1>3. ASSUME NEW d \in Requests, GoOn(d)
      PROVE  /\ task[d].at \in Using /\ task'[d].at # "new" /\ task'[d].body = task[d].body
             /\ \A e \in Requests \ {d} : task'[e] = task[e]
  BY <1>3, StepKeeps
<1>4. CASE \E d \in Requests : GoOn(d)
  BY <1>2, <1>3, <1>4 DEF Using
<1>5. CASE \E d \in Requests : \E b \in Values : Start(d, b)
  <2>1. PICK d \in Requests, b \in Values : Start(d, b)
    BY <1>5
  <2>2. /\ task[d].at = "new" /\ \A e \in Requests \ {d} : task'[e] = task[e]
    BY <1>1, <2>1 DEF Start, CreateFile, CreateFails
  <2>3. task'[d].verdict = "unsaved" => ChecksMayFail
    BY <1>1, <2>1, TempFilesAssumption DEF Start, CreateFile, CreateFails, Verdicts
  <2> QED  BY <2>2, <2>3
<1>6. CASE ServerDies
  BY <1>1, <1>6 DEF ServerDies, Using, Tasks
<1>7. CASE UNCHANGED tempVars
  BY <1>7 DEF tempVars
<1> QED  BY <1>4, <1>5, <1>6, <1>7 DEF TempNext

-----------------------------------------------------------------------------
LEMMA TurnsDown ==
    ASSUME CheckedInv, NEW r \in Requests, pc[r] = "arrived", TurnDown(r)
    PROVE  Reject(r)
<1>1. Verdict(r) = "unsaved" => MayFail
  BY CheckedAssumption, TempFilesAssumption DEF Verdict, CheckedInv, Linked, Verdicts
<1> QED  BY <1>1 DEF TurnDown, Validating, Reject

(* A request stays what it is.                                             *)
LEMMA RequestsStay ==
    ASSUME TypeInv, [Next]_vars, NEW r \in Requests, pc[r] # "new"
    PROVE  req'[r] = req[r] /\ pc'[r] # "new"
<1>1. ASSUME NEW q \in Requests, Handler(q) PROVE req'[r] = req[r] /\ pc'[r] # "new"
  BY <1>1, HandlerMoves
<1>2. ASSUME NEW q \in Requests, Arrive(q) PROVE req'[r] = req[r] /\ pc'[r] # "new"
  BY <1>2 DEF Arrive, TypeInv, Types
<1>3. CASE Tick \/ Crash \/ UNCHANGED vars
  BY <1>3 DEF Tick, Crash, vars
<1> QED  BY <1>1, <1>2, <1>3 DEF Next, Handler

(* The composition is an instance of both of its parts.                    *)
LEMMA CheckedSteps ==
    CheckedInv /\ [CheckedNext]_checkedVars => [Next]_vars /\ [TempNext]_tempVars
<1> SUFFICES ASSUME CheckedInv, [CheckedNext]_checkedVars
             PROVE  [Next]_vars /\ [TempNext]_tempVars
  OBVIOUS
<1>1. ASSUME NEW r \in Requests, CheckBody(r)
      PROVE  UNCHANGED vars /\ TempNext
  <2>1. req[r] \in RequestSet
    BY <1>1 DEF CheckBody, Validating, CheckedInv, GenuineInv, TypeInv, Positions
  <2>2. req[r].body \in Values
    BY <1>1, <2>1, RequestFacts DEF CheckBody, Validating, Bodies
  <2> QED  BY <1>1, <2>2 DEF CheckBody, TempNext
<1>2. ASSUME NEW r \in Requests, pc[r] = "arrived", TurnDown(r)
      PROVE  Reject(r)
  BY <1>2, TurnsDown
<1>3. ASSUME NEW r \in Requests, Serve(r)
      PROVE  [Next]_vars /\ [TempNext]_tempVars
  BY <1>1, <1>2, <1>3 DEF Serve, Next
<1>4. CASE \E r \in Requests : Arrive(r) /\ UNCHANGED tempVars
  BY <1>4 DEF Next
<1>5. CASE (Tick /\ UNCHANGED tempVars) \/ (Crash /\ ServerDies)
  BY <1>5 DEF Next, TempNext
<1>6. CASE UNCHANGED checkedVars
  BY <1>6 DEF checkedVars
<1> QED  BY <1>3, <1>4, <1>5, <1>6 DEF CheckedNext

(* What a step of the composition does to the link of one request.         *)
LEMMA LinkKept ==
    ASSUME CheckedInv, [CheckedNext]_checkedVars, NEW r \in Requests
    PROVE  Linked(r)'
<1>1. /\ task[r].at # "new" => task'[r].at # "new" /\ task'[r].body = task[r].body
      /\ task[r].at = "done" => task'[r] = task[r]
      /\ task'[r].verdict = "unsaved" => task[r].verdict = "unsaved" \/ ChecksMayFail
  BY CheckedSteps, ChecksSettle DEF CheckedInv
<1>2. Linked(r) /\ TypeInv
  BY DEF CheckedInv, GenuineInv
<1>3. task'[r].verdict = "unsaved" => ChecksMayFail
  BY <1>1, <1>2 DEF Linked
<1>4. Verdict(r) = "valid" => Verdict(r)' = "valid"
  BY <1>1, TempFilesAssumption DEF Verdict, Verdicts
<1>5. ASSUME pc'[r] = pc[r], req'[r] = req[r], task'[r] = task[r]
      PROVE  Linked(r)'
  BY <1>2, <1>5 DEF Linked, Verdict
<1>6. ASSUME NEW q \in Requests, CheckBody(q) PROVE Linked(r)'
  <2>1. UNCHANGED <<req, pc>> /\ Validating(q)
    BY <1>6 DEF CheckBody, vars
  <2>2. CASE q = r
    <3>1. task[r].at = "new" => task'[r].body = req[r].body
      BY <1>6, <2>2 DEF CheckBody, Start, GoOn, CreateFile, CreateFails, WriteFile,
                        WriteFails, PromtoolOpens, PromtoolReads, PromtoolFails,
                        RemoveFile, Judge, CheckedInv, TempInv, TempTypeOK, Tasks
    <3> QED  BY <1>1, <1>2, <1>3, <2>1, <2>2, <3>1 DEF Linked, Validating
  <2>3. CASE q # r
    <3>1. task'[r] = task[r]
      BY <1>6, <2>3, StepKeeps
         DEF CheckBody, Start, CreateFile, CreateFails, CheckedInv, TempInv, TempTypeOK
    <3> QED  BY <1>5, <2>1, <3>1
  <2> QED  BY <2>2, <2>3
<1>7. ASSUME NEW q \in Requests, Handler(q), UNCHANGED tempVars,
             Validated(q) \/ pc'[q] \notin Running
      PROVE  Linked(r)'
  <2>1. /\ pc[q] \in Running /\ req' = req
        /\ pc'[q] \notin {"new", "arrived"}
        /\ \A p \in Requests \ {q} : pc'[p] = pc[p]
    BY <1>2, <1>7, HandlerMoves
  <2>2. task' = task
    BY <1>7 DEF tempVars
  <2>3. CASE q = r
    <3>1. pc'[r] \in Running /\ req[r].op = "put" => Verdict(r) = "valid"
      BY <1>2, <1>7, <2>1, <2>3 DEF Linked, Validated, Validating
    <3> QED  BY <1>2, <1>4, <2>1, <2>2, <2>3, <3>1 DEF Linked
  <2> QED  BY <1>5, <2>1, <2>2, <2>3
<1>8. ASSUME NEW q \in Requests, Serve(q) PROVE Linked(r)'
  <2>1. CASE CheckBody(q)
    BY <1>6, <2>1
  <2>2. CASE pc[q] = "arrived" /\ TurnDown(q) /\ UNCHANGED tempVars
    <3>1. [Next]_vars /\ Handler(q)
      BY <2>2, CheckedSteps, TurnsDown DEF Handler
    <3>2. pc'[q] = "done"
      BY <1>2, <2>2 DEF TurnDown, Reject, Answer, TypeInv, Types
    <3> QED  BY <1>7, <2>2, <3>1, <3>2 DEF Running, Updating
  <2>3. CASE Validated(q) /\ (Progress(q) \/ ReadFails(q)) /\ UNCHANGED tempVars
    BY <1>7, <2>3 DEF Handler
  <2>4. CASE UpdateMapFails(q) /\ UNCHANGED tempVars
    <3>1. pc[q] \in Updating
      BY <1>2, <2>4, UpdateRuns
    <3>2. Validated(q)
      BY <3>1 DEF Validated, Validating, Updating
    <3> QED  BY <1>7, <2>4, <3>2 DEF Handler
  <2> QED  BY <1>8, <2>1, <2>2, <2>3, <2>4 DEF Serve
<1>9. ASSUME NEW q \in Requests, Arrive(q), UNCHANGED tempVars PROVE Linked(r)'
  <2>1. task' = task /\ pc[q] = "new" /\ pc'[q] = "arrived"
    BY <1>2, <1>9 DEF Arrive, tempVars, TypeInv, Types
  <2>2. q # r => pc'[r] = pc[r] /\ req'[r] = req[r]
    BY <1>2, <1>9 DEF Arrive, TypeInv, Types
  <2> QED  BY <1>2, <1>5, <2>1, <2>2 DEF Linked, Running
<1>10. CASE Tick /\ UNCHANGED tempVars
  BY <1>5, <1>10 DEF Tick, tempVars
<1>11. CASE Crash /\ ServerDies
  <2>1. req' = req /\ (pc'[r] = pc[r] \/ pc'[r] = "done") /\ (pc'[r] # pc[r] => pc[r] # "new")
        /\ (pc[r] \in Running => pc'[r] = "done")
    BY <1>11 DEF Crash, InFlight, Running, Updating
  <2>2. task'[r].at # "new" => task[r].at # "new"
    BY <1>11 DEF ServerDies, Using, CheckedInv, TempInv, TempTypeOK
  <2> QED  BY <1>1, <1>2, <1>3, <2>1, <2>2 DEF Linked, Running, Updating
<1>12. CASE UNCHANGED checkedVars
  BY <1>5, <1>12 DEF checkedVars, vars, tempVars
<1> QED  BY <1>8, <1>9, <1>10, <1>11, <1>12 DEF CheckedNext

LEMMA VouchedKept == CheckedInv /\ [CheckedNext]_checkedVars => Vouched'
<1> SUFFICES ASSUME CheckedInv, [CheckedNext]_checkedVars,
                    NEW f \in Files, NEW b \in served'[f], ~Original(f, b)
             PROVE  \E r \in Requests : VouchedFor(r, f, b)'
  BY DEF Vouched, Original
<1>1. PICK r \in Requests : VouchedFor(r, f, b)
  <2>1. CASE b \in served[f]
    BY <2>1 DEF CheckedInv, Vouched
  <2>2. CASE b \notin served[f]
    <3>1. PICK r \in Requests : /\ pc[r] \in {"replace", "create"} /\ req[r].op = "put"
                                /\ req[r].file = f /\ req[r].body = b
      BY <2>2, CheckedSteps, NewContent DEF CheckedInv
    <3>2. Verdict(r) = "valid"
      BY <3>1 DEF CheckedInv, Linked, Running, Updating
    <3> QED  BY <3>1, <3>2 DEF VouchedFor
  <2> QED  BY <2>1, <2>2
<1>2. task[r].at = "done" /\ task[r].verdict = "valid"
  BY <1>1, TempFilesAssumption DEF VouchedFor, Verdict, Verdicts
<1>3. task'[r] = task[r]
  BY <1>2, CheckedSteps, ChecksSettle DEF CheckedInv
<1>4. req'[r] = req[r] /\ pc'[r] # "new"
  BY <1>1, CheckedSteps, RequestsStay DEF VouchedFor, CheckedInv, GenuineInv
<1> QED  BY <1>1, <1>3, <1>4 DEF VouchedFor, Verdict

LEMMA CheckedInitInv == CheckedInit => CheckedInv
<1> SUFFICES ASSUME CheckedInit PROVE CheckedInv
  OBVIOUS
<1>1. GenuineInv /\ TempInv
  BY InitGenuine, TempInitInv DEF CheckedInit
<1>2. \A r \in Requests : /\ pc[r] = "new"
                          /\ task[r].at = "new" /\ task[r].verdict = None
  BY DEF CheckedInit, Init, TempInit
<1>3. \A r \in Requests : Linked(r)
  BY <1>2, TempFilesAssumption DEF Linked, Running, Updating, Verdicts
<1>4. Vouched
  BY <1>1, <1>2 DEF Vouched, GenuineInv, Genuine, Sources, Submitted
<1> QED  BY <1>1, <1>3, <1>4 DEF CheckedInv

LEMMA CheckedStep == CheckedInv /\ [CheckedNext]_checkedVars => CheckedInv'
<1> SUFFICES ASSUME CheckedInv, [CheckedNext]_checkedVars PROVE CheckedInv'
  OBVIOUS
<1>1. GenuineInv' /\ TempInv'
  BY CheckedSteps, NextGenuine, TempStep DEF CheckedInv
<1>2. \A r \in Requests : Linked(r)'
  BY LinkKept
<1> QED  BY <1>1, <1>2, VouchedKept DEF CheckedInv

LEMMA CheckedSafety == CheckedSpec => []CheckedInv
  BY CheckedInitInv, CheckedStep, PTL DEF CheckedSpec

(***************************************************************************)
(* The endpoints with the validation do nothing the endpoints without it   *)
(* could not do: the free choice of PrometheusRules, whether a body is     *)
(* turned down or the handler panics, covers what promtool and the file    *)
(* system decide here.  What is proved of Spec holds of CheckedSpec.       *)
(***************************************************************************)
THEOREM ChecksFitTheHandlers == CheckedSpec => Spec
<1>1. CheckedInit => Init
  BY DEF CheckedInit
<1> QED  BY <1>1, CheckedSafety, CheckedSteps, PTL DEF CheckedSpec, Spec

(***************************************************************************)
(* And each check goes through the steps of TempFiles, however the         *)
(* handlers around it are interleaved: a crash takes the checks with it.   *)
(***************************************************************************)
THEOREM HandlersFitTheChecks == CheckedSpec => TempSpec
<1>1. CheckedInit => TempInit
  BY DEF CheckedInit
<1> QED  BY <1>1, CheckedSafety, CheckedSteps, PTL DEF CheckedSpec, TempSpec

(***************************************************************************)
(* Content that promtool would not accept is in force only if it was there *)
(* at the start or if its PUT shared its temporary file name with another  *)
(* check: stale copies, crashes, lost answers and files left behind by     *)
(* checks that failed never bring unvalidated rules into force.            *)
(***************************************************************************)
THEOREM OnlyValidInForce == CheckedSpec => []InForceIsValid
<1>1. CheckedInv => InForceIsValid
  <2> SUFFICES ASSUME CheckedInv, NEW f \in Files, NEW b \in served[f] \ Valid,
                      ~Original(f, b)
               PROVE  \E r \in Requests : /\ pc[r] # "new" /\ req[r].op = "put"
                                          /\ req[r].file = f /\ req[r].body = b
                                          /\ sharers[r] # {}
    BY DEF InForceIsValid, Original
  <2>1. PICK r \in Requests : VouchedFor(r, f, b)
    BY DEF CheckedInv, Vouched
  <2>2. task[r].at = "done" /\ task[r].verdict = "valid"
    BY <2>1, TempFilesAssumption DEF VouchedFor, Verdict, Verdicts
  <2>3. task[r].body = b
    BY <2>1, <2>2 DEF VouchedFor, CheckedInv, Linked
  <2>4. sharers[r] # {}
    BY <2>2, <2>3 DEF CheckedInv, TempInv, Undisturbed, OwnText
  <2> QED  BY <2>1, <2>4 DEF VouchedFor
<1> QED  BY <1>1, CheckedSafety, PTL

(***************************************************************************)
(* So the composition keeps what its two parts promise.                    *)
(***************************************************************************)
THEOREM CheckedRulesKeepPromises ==
    CheckedSpec => /\ []TypeOK
                   /\ []ContentsAreGenuine
                   /\ []VersionsAreBounded
                   /\ []UnsharedVerdictsAreRight
                   /\ []FilesAreAccountedFor
                   /\ AnswersAreTrue
  BY ChecksFitTheHandlers, HandlersFitTheChecks, RulesTypeCorrect, RulesAreGenuine,
     RulesVersionsAreBounded, RulesAnswersAreTrue, VerdictsAreRight, NoFileStaysBehind
=============================================================================
