------------------------------ MODULE Versions ------------------------------
(***************************************************************************)
(* The keys under which older versions of a file are kept in a versions    *)
(* ConfigMap, and the helpers of handlers/helper.go that select, order and *)
(* expire them.  A version key is the file name, a dash and a timestamp    *)
(* with a resolution of one second; here it is the pair <<file, time>>.    *)
(* The current content of a file is kept under the bare file name.         *)
(***************************************************************************)
EXTENDS ConfigMaps, FiniteSets

CONSTANTS
    Files,          (* the names of the files                              *)
    Extends,        (* <<g, f>>: the name g begins with the whole name f,  *)
                    (* as "a.rules-b.rules" begins with "a.rules"          *)
    MaxTime,        (* bound of the clock, whose unit is the second        *)
    MaxBackupFiles, (* constants.go: 10                                    *)
    MaxBackupHours  (* constants.go: 48 hours, in units of the clock       *)

Times       == 0..MaxTime
VersionKeys == Files \X Times

ASSUME VersionsAssumption ==
    /\ Extends \subseteq Files \X Files
    /\ MaxTime \in Nat
    /\ MaxBackupFiles \in Nat \ {0}
    /\ MaxBackupHours \in Nat \ {0}
    /\ Keys = Files \cup VersionKeys
    /\ Files \cap VersionKeys = {}

(* However many names there could be, a ConfigMap holds a few.             *)
ASSUME FilesAssumption == IsFiniteSet(Files)

Without(m, S) == [k \in Keys |-> IF k \in S THEN None ELSE m[k]]

(* Faulty variant of Matching: the name is not looked at.                  *)
AnyVersion(m, f) == {k \in VersionKeys : m[k] # None}

(* The keys sortKeysFromConfigMap returns for the file f: every key that   *)
(* begins with the name f, whatever follows it.                            *)
Matching(m, f) ==
    {k \in VersionKeys : m[k] # None /\ (k[1] = f \/ <<k[1], f>> \in Extends)}

(* The time the helpers read from a key.  A key of another file leaves     *)
(* garbage once "f-" has been cut away, time.Parse fails, and its error is *)
(* ignored: the key is taken to be from the year 1.                        *)
ZeroTime == -MaxBackupHours

KeyTime(k, f) == IF k[1] = f THEN k[2] ELSE ZeroTime

(* Faulty variant of IsOldVersion: > for >=.                               *)
IsOlderVersion(k, f, now) == now - KeyTime(k, f) > MaxBackupHours

(* isOldVersion *)
IsOldVersion(k, f, now) == now - KeyTime(k, f) >= MaxBackupHours

(* Faulty variant of Newest: one version too few is spared.                *)
NewestButOne(m, f) ==
    {S \in SUBSET Matching(m, f) :
        /\ Cardinality(S) = MaxBackupFiles - 1
        /\ \A k \in S, l \in Matching(m, f) \ S : KeyTime(k, f) >= KeyTime(l, f)}

(* The first MaxBackupFiles keys of the sorted list, as a set.  Keys of    *)
(* equal time come in any order, so there may be several such sets.        *)
Newest(m, f) ==
    {S \in SUBSET Matching(m, f) :
        /\ Cardinality(S) = MaxBackupFiles
        /\ \A k \in S, l \in Matching(m, f) \ S : KeyTime(k, f) >= KeyTime(l, f)}

(* The contents the pruning loop of a PUT at time now may leave.  The loop *)
(* only runs when there are more than MaxBackupFiles matching keys.        *)
Pruned(m, f, now) ==
    IF Cardinality(Matching(m, f)) <= MaxBackupFiles
    THEN {m}
    ELSE {Without(m, {k \in Matching(m, f) \ S : IsOldVersion(k, f, now)}) :
              S \in Newest(m, f)}

(* The versions of a file in a map, and whether a map keeps to the limits  *)
(* and has no version from after a certain time, as pruning leaves it.     *)
TimesOf(m, f) == {t \in Times : m[<<f, t>>] # None}
After(m, f, t) == {u \in TimesOf(m, f) : u > t}

Limited(m, latest) ==
    \A f \in Files : \A t \in TimesOf(m, f) :
        /\ t <= latest
        /\ Cardinality(After(m, f, t)) >= MaxBackupFiles =>
               \A u \in TimesOf(m, f) : u - t < MaxBackupHours
=============================================================================
