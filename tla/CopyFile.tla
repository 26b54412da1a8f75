------------------------------- MODULE CopyFile -------------------------------
(***************************************************************************)
(* copyFile (helper.go): a goroutine writes a tar archive into a pipe, and *)
(* the exec request to the pod is given the other end as the input of "tar *)
(* xf -".  A write to the pipe blocks until somebody reads it.  The stream *)
(* library and the pod are external: the stream copies the pipe to the     *)
(* pod while it lasts, it ends with success only when the pod's tar has    *)
(* unpacked all there was to read, and it may fail before or after it has  *)
(* begun to read.  makeTar fails when it cannot write the header for the   *)
(* file name, or when the header it has written leaves no room for data;   *)
(* the archive is closed all the same, and so is the pipe.                 *)
(***************************************************************************)
EXTENDS Procedure, Naturals

CONSTANT Blocks     (* the archive's: its header, the data, its end        *)

ASSUME BlocksAssumption == Blocks \in Nat \ {0, 1}

VARIABLES
    writer,     (* the goroutine: writing, or ended with the pipe closed   *)
    rest,       (* how many blocks it has still to write                   *)
    read,       (* how many blocks were read from the pipe                 *)
    atEnd,      (* whether the end of the pipe was seen                    *)
    unpacked    (* how many the pod's tar has                              *)

copyVars == <<writer, rest, read, atEnd, unpacked>>
Copying  == "copyFile"

CopyInit ==
    /\ writer = "writing" /\ rest = Blocks
    /\ read = 0 /\ atEnd = FALSE /\ unpacked = 0

-----------------------------------------------------------------------------
(* The executor is made and the connection is there, or copyFile returns.  *)
SetUp ==
    /\ At(Copying, "called")
    /\ GoTo("stream") \/ Return("error")
    /\ UNCHANGED copyVars

(* A write and the read it waits for.                                      *)
Transfer ==
    /\ At(Copying, "stream") /\ rest > 0
    /\ rest' = rest - 1 /\ read' = read + 1
    /\ UNCHANGED <<callVars, writer, atEnd, unpacked>>

(* At the header, or after it at the data: what is left to write is the    *)
(* end of the archive.  The error is logged, and nobody else is told.      *)
MakeTarFails ==
    /\ function = Copying /\ read \in {0, 1} /\ rest > 1
    /\ rest' = 1
    /\ UNCHANGED <<callVars, writer, read, atEnd, unpacked>>

(* Faulty variant: the pipe is never closed.                               *)
WriterNeverCloses ==
    /\ function = Copying /\ writer = "writing" /\ rest = 0
    /\ UNCHANGED <<callVars, copyVars>>

(* The goroutine runs on after copyFile has returned.                      *)
WriterEnds ==
    /\ function = Copying /\ writer = "writing" /\ rest = 0
    /\ writer' = "ended"
    /\ UNCHANGED <<callVars, rest, read, atEnd, unpacked>>

SeeEnd ==
    /\ At(Copying, "stream") /\ writer = "ended" /\ ~atEnd
    /\ atEnd' = TRUE
    /\ UNCHANGED <<callVars, writer, rest, read, unpacked>>

Unpack ==
    /\ At(Copying, "stream") /\ unpacked < read
    /\ unpacked' = unpacked + 1
    /\ UNCHANGED <<callVars, writer, rest, read, atEnd>>

(* That the stream knows when tar is done is an assumption.                *)
StreamDone ==
    /\ At(Copying, "stream") /\ atEnd /\ unpacked = read
    /\ Return("nil")
    /\ UNCHANGED copyVars

StreamFails ==
    /\ At(Copying, "stream")
    /\ Return("error")
    /\ UNCHANGED copyVars

CopySteps == SetUp \/ Transfer \/ WriterEnds \/ SeeEnd \/ Unpack \/ StreamDone
CopyNext  == CopySteps \/ MakeTarFails \/ StreamFails
=============================================================================
