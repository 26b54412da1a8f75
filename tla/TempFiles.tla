------------------------------ MODULE TempFiles ------------------------------
(***************************************************************************)
(* The last step of validating a PUT: saveDataToTempFile (helper.go) puts  *)
(* the body into a file of the temporary directory, and                    *)
(* checkPrometheusRules or checkPrometheusConfig runs promtool on it and   *)
(* removes it.  The file has one of only 32 names, drawn at random, and    *)
(* nothing keeps two checks from drawing the same one at the same time.    *)
(*                                                                         *)
(* os.Create truncates a file that is there; writing puts the body at its  *)
(* beginning; promtool opens it by its name; removing takes the name away, *)
(* whatever file has it by then.  A file (inode) is identified with the    *)
(* check that created it.                                                  *)
(***************************************************************************)
EXTENDS Server

CONSTANTS
    Slots,      (* the 32 file names                                       *)
    Valid,      (* the bodies promtool accepts                             *)
    Empty,      (* the text of a file just truncated                       *)
    Mixed,      (* one body followed by the end of a longer one, or a part *)
                (* of a body: promtool's verdict is open                   *)
    ChecksMayFail   (* may files and promtool fail?                        *)

Texts == Values \cup {Empty, Mixed}

(* A check that could not save its body is "unsaved", one that could not   *)
(* run promtool ends in an "error".                                        *)
Verdicts == {"valid", "invalid", "error", "unsaved"}

ASSUME TempFilesAssumption ==
    /\ Valid \subseteq Values
    /\ {Empty, Mixed, None} \cap Values = {} /\ Empty # Mixed
    /\ None \notin Requests \cup Verdicts
    /\ ChecksMayFail \in BOOLEAN

VARIABLES
    names,      (* per name, the file that has it                          *)
    text,       (* per file, what is in it                                 *)
    task,       (* per check, where it stands                              *)
    sharers     (* history: per check, the checks that used the same name  *)
                (* while it did                                            *)

tempVars == <<names, text, task, sharers>>

(* fd is the file the check, or its promtool, has open.                    *)
Using == {"created", "written", "reading", "judged"}
Tasks ==
    [at: Using \cup {"new", "done"}, body: Values \cup {None},
     slot: Slots \cup {None}, fd: Requests \cup {None}, verdict: Verdicts \cup {None}]

TempTypeOK ==
    /\ names \in [Slots -> Requests \cup {None}]
    /\ text \in [Requests -> Texts]
    /\ task \in [Requests -> Tasks]
    /\ sharers \in [Requests -> SUBSET Requests]

TempInit ==
    /\ names = [s \in Slots |-> None]
    /\ text = [c \in Requests |-> Empty]
    /\ task = [c \in Requests |->
                  [at |-> "new", body |-> None, slot |-> None,
                   fd |-> None, verdict |-> None]]
    /\ sharers = [c \in Requests |-> {}]

Users(s) == {c \in Requests : task[c].at \in Using /\ task[c].slot = s}

-----------------------------------------------------------------------------
(* saveDataToTempFile *)

(* Faulty variant: a file that is there is not truncated.                  *)
CreateUntruncated(c, s, b) ==
    /\ task[c].at = "new"
    /\ LET file == IF names[s] = None THEN c ELSE names[s] IN
       /\ names' = [names EXCEPT ![s] = file]
       /\ task' = [task EXCEPT ![c] = [at |-> "created", body |-> b,
                                       slot |-> s, fd |-> file, verdict |-> None]]
    /\ sharers' = [d \in Requests |-> IF d = c THEN Users(s)
                                    ELSE IF d \in Users(s) THEN sharers[d] \cup {c}
                                    ELSE sharers[d]]
    /\ UNCHANGED text

CreateFile(c, s, b) ==
    /\ task[c].at = "new"
    /\ LET file == IF names[s] = None THEN c ELSE names[s] IN
       /\ names' = [names EXCEPT ![s] = file]
       /\ text' = [text EXCEPT ![file] = Empty]
       /\ task' = [task EXCEPT ![c] = [at |-> "created", body |-> b,
                                       slot |-> s, fd |-> file, verdict |-> None]]
    /\ sharers' = [d \in Requests |-> IF d = c THEN Users(s)
                                    ELSE IF d \in Users(s) THEN sharers[d] \cup {c}
                                    ELSE sharers[d]]

CreateFails(c, b) ==
    /\ ChecksMayFail /\ task[c].at = "new"
    /\ task' = [task EXCEPT ![c].at = "done", ![c].body = b,
                            ![c].verdict = "unsaved"]
    /\ UNCHANGED <<names, text, sharers>>

(* The end of a longer body may remain behind a shorter one.               *)
WriteFile(c) ==
    /\ task[c].at = "created"
    /\ LET file == task[c].fd
           body == task[c].body
       IN  \E t \in IF text[file] \in {Empty, body} THEN {body} ELSE {body, Mixed} :
               text' = [text EXCEPT ![file] = t]
    /\ task' = [task EXCEPT ![c].at = "written", ![c].fd = None]
    /\ UNCHANGED <<names, sharers>>

(* A part of the body may have been written.  The file stays behind.       *)
WriteFails(c) ==
    /\ ChecksMayFail /\ task[c].at = "created"
    /\ text' = [text EXCEPT ![task[c].fd] = Mixed]
    /\ task' = [task EXCEPT ![c].at = "done", ![c].fd = None, ![c].verdict = "unsaved"]
    /\ UNCHANGED <<names, sharers>>

-----------------------------------------------------------------------------
(* promtool, and the deferred removal of the file.                         *)

Judge(c, verdict) ==
    /\ task' = [task EXCEPT ![c].at = "judged", ![c].fd = None, ![c].verdict = verdict]
    /\ UNCHANGED <<names, text, sharers>>

PromtoolOpens(c) ==
    /\ task[c].at = "written"
    /\ LET file == names[task[c].slot] IN
       \/ file = None /\ Judge(c, "invalid")
       \/ /\ file # None
          /\ task' = [task EXCEPT ![c].at = "reading", ![c].fd = file]
          /\ UNCHANGED <<names, text, sharers>>

PromtoolReads(c) ==
    /\ task[c].at = "reading"
    /\ LET found == text[task[c].fd] IN
       \/ found \notin Values \ Valid /\ Judge(c, "valid")
       \/ found \notin Valid /\ Judge(c, "invalid")

PromtoolFails(c) ==
    /\ ChecksMayFail /\ task[c].at = "written"
    /\ Judge(c, "error")

(* Faulty variant: the file is removed after a success only.               *)
RemoveIfValid(c) ==
    /\ task[c].at = "judged"
    /\ names' = IF task[c].verdict = "valid"
                THEN [names EXCEPT ![task[c].slot] = None] ELSE names
    /\ task' = [task EXCEPT ![c].at = "done"]
    /\ UNCHANGED <<text, sharers>>

RemoveFile(c) ==
    /\ task[c].at = "judged"
    /\ names' = [names EXCEPT ![task[c].slot] = None]
    /\ task' = [task EXCEPT ![c].at = "done"]
    /\ UNCHANGED <<text, sharers>>

-----------------------------------------------------------------------------
Start(c, b) ==
    \/ \E s \in Slots : CreateFile(c, s, b)
    \/ CreateFails(c, b)

GoOn(c) ==
    \/ WriteFile(c)
    \/ WriteFails(c)
    \/ PromtoolOpens(c)
    \/ PromtoolReads(c)
    \/ PromtoolFails(c)
    \/ RemoveFile(c)

(* The server dies, and its container with the temporary directory.        *)
ServerDies ==
    /\ names' = [s \in Slots |-> None]
    /\ task' = [c \in Requests |-> IF task[c].at \in Using
                                   THEN [task[c] EXCEPT !.at = "done", !.fd = None]
                                   ELSE task[c]]
    /\ UNCHANGED <<text, sharers>>

TempNext ==
    \/ \E c \in Requests :
           \/ \E b \in Values : Start(c, b)
           \/ GoOn(c)
    \/ ServerDies

TempSpec == TempInit /\ [][TempNext]_tempVars

-----------------------------------------------------------------------------
(***************************************************************************)
(* As long as no other check uses the same name, the verdict is that on    *)
(* the check's own body, whatever an earlier check left in the file.       *)
(* Guards the truncation and the order of writing, reading and removing.   *)
(***************************************************************************)
UnsharedVerdictsAreRight ==
    \A c \in Requests : sharers[c] = {} =>
        /\ task[c].verdict = "valid" => task[c].body \in Valid
        /\ task[c].verdict = "invalid" => task[c].body \notin Valid

(***************************************************************************)
(* The temporary directory does not fill up: a file has its name only      *)
(* while the check that created it is in progress, or after that check     *)
(* failed to write it, although checks remove each other's files.          *)
(***************************************************************************)
FilesAreAccountedFor ==
    \A s \in Slots : names[s] # None =>
        names[s] \in Users(s) \/ task[names[s]].verdict = "unsaved"
=============================================================================
