---------------------------- MODULE StorageSizing ----------------------------
(***************************************************************************)
(* modifyStorageCapacity (helper.go): read the size of a disk, and the     *)
(* largest and the smallest size allowed, from the VMI, each with an API   *)
(* call of its own; multiply the size by 2 or by 1/2 as a 32 bit float;    *)
(* refuse the result when it is out of the limits.  A size that is not     *)
(* there, or could not be read, is an error; a limit that is not there, or *)
(* could not be read, is replaced by a default.                            *)
(***************************************************************************)
EXTENDS Procedure, Integers

CONSTANTS
    Bits,           (* of the mantissa of a float32: 24                    *)
    MaxExponent,    (* the sizes have up to Bits + MaxExponent bits        *)
    Sizes,          (* the sizes the VMI may name                          *)
    Limits,         (* the limits it may name                              *)
    defaultMaxSize,
    defaultMinSize

ASSUME SizingAssumption ==
    /\ Bits \in Nat \ {0} /\ MaxExponent \in Nat
    /\ Sizes \subseteq 1..(2^(Bits + MaxExponent) - 1)
    /\ Limits \cup {defaultMaxSize, defaultMinSize} \subseteq Nat \ {0}
    /\ None \notin Sizes \cup Limits

VARIABLES
    vmi,        (* what the spec of the VMI says                           *)
    op,         (* what is to be done                                      *)
    got,        (* what has been read of it                                *)
    newSize     (* the size the disk is given, or 0                        *)

sizeVars == <<vmi, op, got, newSize>>
Sizing   == "modifyStorageCapacity"

SizeInit ==
    /\ vmi \in Input(Sizing, [size: Sizes \cup {None}, max: Limits \cup {None},
                             min: Limits \cup {None}])
    /\ op \in Input(Sizing, {"double", "halve"})
    /\ got = [size |-> None, max |-> None, min |-> None]
    /\ newSize = 0

-----------------------------------------------------------------------------
(* The distance of two neighbours among the floats around n.               *)
Units        == {2^e : e \in 0..MaxExponent}
IsUnit(n, u) == n < 2^Bits * u /\ (u = 1 \/ 2 * n >= 2^Bits * u)
Ulp(n)       == CHOOSE u \in Units : IsUnit(n, u)

(* What follows by induction from SizingAssumption: the powers are powers, *)
(* and every size lies among the floats.                                   *)
ASSUME UnitsAssumption ==
    /\ 2^Bits \in Nat \ {0, 1} /\ Units \subseteq Nat \ {0}
    /\ \A n \in Sizes : \E u \in Units : IsUnit(n, u)

(* To the nearest float, to the even one of two as near.                   *)
ToFloat(n) ==
    LET u == Ulp(n)
        q == n \div u
        r == n % u
    IN  u * IF 2 * r > u \/ (2 * r = u /\ q % 2 = 1) THEN q + 1 ELSE q

(* Halving and doubling are exact; back to an integer, the half is lost.   *)
NewSize(n) == IF op = "double" THEN 2 * ToFloat(n) ELSE ToFloat(n) \div 2

OrDefault(limit, default) == IF limit = None THEN default ELSE limit

(* Faulty variant: the smallest size is not looked at.                     *)
CheckedMaxOnly(new, max, min) ==
    IF new > max THEN Return("too large") /\ UNCHANGED newSize
    ELSE Return("resized") /\ newSize' = new

Checked(new, max, min) ==
    \/ new > max /\ Return("too large") /\ UNCHANGED newSize
    \/ new <= max /\ new < min /\ Return("too small") /\ UNCHANGED newSize
    \/ new \in min..max /\ Return("resized") /\ newSize' = new

-----------------------------------------------------------------------------
(* A value that could not be read is as good as absent.                    *)
Read(f) ==
    /\ \E v \in {vmi[f], None} : got' = [got EXCEPT ![f] = v]
    /\ UNCHANGED <<vmi, op>>

ReadSize ==
    /\ At(Sizing, "called")
    /\ Read("size")
    /\ IF got'.size = None THEN Return("no size") ELSE GoTo("max")
    /\ UNCHANGED newSize

ReadMax ==
    /\ At(Sizing, "max")
    /\ Read("max")
    /\ GoTo("min")
    /\ UNCHANGED newSize

ReadMin ==
    /\ At(Sizing, "min")
    /\ Read("min")
    /\ Checked(NewSize(got.size), OrDefault(got.max, defaultMaxSize),
               OrDefault(got'.min, defaultMinSize))

SizeNext == ReadSize \/ ReadMax \/ ReadMin

-----------------------------------------------------------------------------
(***************************************************************************)
(* "double returns an error if current capacity is already at maxSize",    *)
(* "halve returns and error if current capacity is already at minSizeGb",  *)
(* and a size within the limits stays there, wherever the VMI could be     *)
(* read.  (Where it could not be, the defaults take the place of its       *)
(* limits; and a size whose double is out of the limits is refused where   *)
(* the comment says "limited".)                                            *)
(***************************************************************************)
LimitsHold ==
    Done(Sizing) /\ result = "resized" /\ got = vmi =>
        LET max == OrDefault(vmi.max, defaultMaxSize)
            min == OrDefault(vmi.min, defaultMinSize)
        IN  /\ vmi.size # (IF op = "double" THEN max ELSE min)
            /\ vmi.size \in min..max => newSize \in min..max
=============================================================================
