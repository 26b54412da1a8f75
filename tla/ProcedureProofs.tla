---------------------------- MODULE ProcedureProofs ----------------------------
(***************************************************************************)
(* Theorems about the functions that work by themselves, for any number of *)
(* attempts and of jobs, names of any length, and any sizes and limits.    *)
(* A function has an invariant of its own, which binds only while it is    *)
(* the one that was called.                                                *)
(***************************************************************************)
EXTENDS Procedures, SequenceTheorems, TLAPS

(* The attempts so far were all without success, and lastErr tells whether *)
(* one of them ended in an error.                                          *)
WaitInv ==
    function = Waiting =>
        /\ lastErr => "down" \in seen
        /\ ~lastErr => "down" \notin seen
        /\ pc \in {"called", "pause"} =>
               /\ left \in 1..Steps /\ made = Steps - left
               /\ seen \subseteq {"starting", "down"}
        /\ ResultsAreEarned

(* What was read of the VMI is what it says, or nothing; the size came     *)
(* from a size that was read, and passed the limits.                       *)
SizeInv ==
    function = Sizing =>
        /\ vmi \in [size: Sizes \cup {None}, max: Limits \cup {None},
                    min: Limits \cup {None}]
        /\ got \in [size: {vmi.size, None}, max: {vmi.max, None}, min: {vmi.min, None}]
        /\ pc \in {"max", "min"} => got.size # None
        /\ pc = "returned" /\ result = "resized" =>
               /\ got.size # None
               /\ newSize = NewSize(got.size)
               /\ newSize \in OrDefault(got.min, defaultMinSize)..
                              OrDefault(got.max, defaultMaxSize)

(* A file is at the step of its life that its counter says.         *)
NameInv ==
    function = Naming =>
        /\ name \in FileNames
        /\ pc = "called" => stored = 0
        /\ pc = "created" =>
               stored = 1 /\ (Documented => name.length <= KeyLimit)
        /\ pc \in {"called", "created", "returned"}
        /\ DocumentedNamesWork

(* The document is one that may come, and what was returned its verdict.   *)
DocInv ==
    function = CheckingConfig =>
        doc \in Configs /\ (pc = "returned" => result = ConfigVerdict(doc))

-----------------------------------------------------------------------------
(* A step is one of the function that was called.                          *)
LEMMA OneFunction ==
    ASSUME [Next]_allVars
    PROVE  /\ function' = function
           /\ function = Waiting => WaitNext \/ UNCHANGED <<callVars, waitVars>>
           /\ function = Sizing => SizeNext \/ UNCHANGED <<callVars, sizeVars>>
           /\ function = Naming => Put \/ UNCHANGED <<callVars, nameVars>>
           /\ function = CheckingConfig => Validate \/ UNCHANGED <<callVars, doc>>
<1> USE DEF At, Within, GoTo, Return, Waiting, Restarting, Copying, Sizing, Naming,
            CheckingConfig, CheckingRules, Starting
<1>1. WaitNext => function = Waiting /\ function' = function
  BY DEF WaitNext, WaitSteps, Attempt, GoesOn, RetryReturns, Pause, EndpointChanges, callVars
<1>2. PodNext => function = Restarting /\ function' = function
  BY DEF PodNext, Restart, ReadVMI, ListPods, DeletePod, AfterDelete, PodVanishes,
         PodIsReplaced, callVars
<1>3. CopyNext => function = Copying /\ function' = function
  BY DEF CopyNext, CopySteps, SetUp, Transfer, MakeTarFails, WriterEnds, SeeEnd, Unpack,
         StreamDone, StreamFails, callVars
<1>4. SizeNext => function = Sizing /\ function' = function
  BY DEF SizeNext, ReadSize, ReadMax, ReadMin, Checked
<1>5. Put => function = Naming /\ function' = function
  BY DEF Put
<1>6. Validate => function \in {CheckingConfig, CheckingRules} /\ function' = function
  BY DEF Validate
<1>7. StartNext => function = Starting /\ function' = function
  BY DEF StartNext, StartSteps, main, GetConfig, Parse, BuildConfig, FindName, ListenEnds
<1>8. CASE UNCHANGED allVars
  BY <1>8 DEF allVars, callVars
<1>9. CASE Next
  BY <1>1, <1>2, <1>3, <1>4, <1>5, <1>6, <1>7, <1>9 DEF Next
<1> QED  BY <1>8, <1>9

-----------------------------------------------------------------------------
LEMMA WaitInitInv == Init => WaitInv
<1> SUFFICES ASSUME Init, function = Waiting PROVE WaitInv
  BY DEF WaitInv
<1>1. pc = "called" /\ left = Steps /\ made = 0 /\ seen = {} /\ ~lastErr
  BY DEF Init, CallInit, WaitInit
<1> QED  BY <1>1, StepsAssumption DEF WaitInv, ResultsAreEarned, Done

LEMMA WaitKept ==
    ASSUME WaitInv, [Next]_allVars
    PROVE  WaitInv'
<1>1. /\ function' = function
      /\ function = Waiting => WaitNext \/ UNCHANGED <<callVars, waitVars>>
  BY OneFunction
<1> SUFFICES ASSUME function = Waiting PROVE WaitInv'
  BY <1>1 DEF WaitInv
<1> USE StepsAssumption DEF WaitInv, ResultsAreEarned, Done
<1>2. CASE Attempt
  <2>1. /\ pc = "called" /\ left \in 1..Steps /\ made = Steps - left
        /\ seen \subseteq {"starting", "down"} /\ made' = made + 1
        /\ lastErr => "down" \in seen
        /\ ~lastErr => "down" \notin seen
    BY <1>2 DEF Attempt, At
  <2>2. CASE /\ RetryReturns("nil", lastErr)
             /\ seen' = seen \cup {"ready"} /\ lastErr' = lastErr
    <3>1. CASE lastErr
      BY <1>1, <2>1, <2>2, <3>1 DEF RetryReturns, Return
    <3>2. CASE ~lastErr
      <4>1. seen \subseteq {"starting"}
        BY <2>1, <3>2
      <4> QED  BY <1>1, <2>1, <2>2, <3>2, <4>1 DEF RetryReturns, Return
    <3> QED  BY <3>1, <3>2
  <2>3. CASE /\ GoesOn(lastErr)
             /\ seen' = seen \cup {"starting"} /\ lastErr' = lastErr
    <3>1. CASE left # 1
      BY <1>1, <2>1, <2>3, <3>1 DEF GoesOn, GoTo
    <3>2. CASE left = 1 /\ lastErr
      BY <1>1, <2>1, <2>3, <3>2 DEF GoesOn, RetryReturns, Return
    <3>3. CASE left = 1 /\ ~lastErr
      <4>1. seen' = {"starting"}
        BY <2>1, <2>3, <3>3
      <4> QED  BY <1>1, <2>1, <2>3, <3>3, <4>1 DEF GoesOn, RetryReturns, Return
    <3> QED  BY <3>1, <3>2, <3>3
  <2>4. CASE /\ GoesOn(TRUE)
             /\ seen' = seen \cup {"down"} /\ lastErr' = TRUE
    <3>1. CASE left # 1
      BY <1>1, <2>1, <2>4, <3>1 DEF GoesOn, GoTo
    <3>2. CASE left = 1
      BY <1>1, <2>1, <2>4, <3>2 DEF GoesOn, RetryReturns, Return
    <3> QED  BY <3>1, <3>2
  <2> QED  BY <1>2, <2>2, <2>3, <2>4 DEF Attempt
<1>3. CASE Pause
  BY <1>1, <1>3 DEF Pause, At, GoTo, waitVars
<1>4. CASE EndpointChanges \/ UNCHANGED <<callVars, waitVars>>
  BY <1>1, <1>4 DEF EndpointChanges, callVars, waitVars
<1> QED  BY <1>1, <1>2, <1>3, <1>4 DEF WaitNext, WaitSteps

(***************************************************************************)
(* The wait for an endpoint reports no success it has not seen, gives up   *)
(* only after all of its attempts, and names the right reason: for any     *)
(* schedule, however the endpoint behaves.                                 *)
(***************************************************************************)
THEOREM WaitsAreEarned == Spec => []ResultsAreEarned
<1>1. WaitInv => ResultsAreEarned
  BY DEF WaitInv, ResultsAreEarned, Done
<1>2. WaitInv /\ [Next]_allVars => WaitInv'
  BY WaitKept
<1> QED  BY <1>1, <1>2, WaitInitInv, PTL DEF Spec

-----------------------------------------------------------------------------
LEMMA Product ==
    ASSUME NEW a \in Nat \ {0, 1}, NEW b \in Nat \ {0}
    PROVE  a * b \in Nat /\ a * b >= 2 * b
<1>1. (a - 2) * b >= 0 /\ (a - 2) * b = a * b - 2 * b
  OBVIOUS
<1> QED  BY <1>1

LEMMA Quotient ==
    ASSUME NEW n \in Nat, NEW u \in Nat \ {0}
    PROVE  /\ n \div u \in Nat /\ n % u \in 0..(u - 1)
           /\ n = u * (n \div u) + (n % u)
<1>1. n % u \in 0..(u - 1)
  OBVIOUS
<1>2. n \div u \in Int
  OBVIOUS
<1>3. n = u * (n \div u) + (n % u)
  OBVIOUS
<1>4. n \div u >= 0
  <2> DEFINE q == n \div u
  <2>1. q \in Int /\ n < u * q + u
    BY <1>1, <1>2, <1>3
  <2> HIDE DEF q
  <2>2. ASSUME q < 0 PROVE FALSE
    <3>1. u * (-1 - q) >= 0 /\ u * (-1 - q) = -u - u * q
      BY <2>1, <2>2
    <3>2. u * q \in Int
      BY <2>1
    <3> QED  BY <2>1, <3>1, <3>2
  <2> QED  BY <2>1, <2>2 DEF q
<1> QED  BY <1>1, <1>2, <1>3, <1>4

(* Two floats around a size are as far apart as the unit says, and the     *)
(* size has some bits to spare, or is a float itself.                      *)
LEMMA UlpFacts ==
    ASSUME NEW n \in Sizes
    PROVE  /\ n \in Nat \ {0}
           /\ Ulp(n) \in Nat \ {0}
           /\ Ulp(n) = 1 \/ n >= Ulp(n)
<1>1. n \in Nat \ {0}
  BY SizingAssumption
<1>2. Ulp(n) \in Units /\ IsUnit(n, Ulp(n))
  BY UnitsAssumption DEF Ulp
<1>3. Ulp(n) \in Nat \ {0}
  BY <1>2, UnitsAssumption
<1>4. 2^Bits * Ulp(n) >= 2 * Ulp(n)
  BY <1>3, Product, UnitsAssumption
<1>5. 2^Bits * Ulp(n) \in Nat
  BY <1>3, Product, UnitsAssumption
<1>6. Ulp(n) = 1 \/ 2 * n >= 2^Bits * Ulp(n)
  BY <1>2 DEF IsUnit
<1> QED  BY <1>1, <1>3, <1>4, <1>5, <1>6

(* A float is half a unit from its size at most, and never as little as    *)
(* the half of it.                                                         *)
LEMMA ToFloatFacts ==
    ASSUME NEW n \in Sizes
    PROVE  /\ ToFloat(n) \in Nat
           /\ 2 * ToFloat(n) - 2 * n \in -Ulp(n)..Ulp(n)
           /\ 2 * ToFloat(n) > n
           /\ ToFloat(n) \div 2 < n
<1> DEFINE u == Ulp(n)
           q == n \div u
           r == n % u
<1>1. n \in Nat \ {0} /\ u \in Nat \ {0} /\ (u = 1 \/ n >= u)
  BY UlpFacts
<1>2. q \in Nat /\ r \in 0..(u - 1) /\ n = u * q + r
  BY <1>1, Quotient
<1>3. ToFloat(n) = u * (IF 2 * r > u \/ (2 * r = u /\ q % 2 = 1) THEN q + 1 ELSE q)
  BY DEF ToFloat
<1> HIDE DEF u, q, r
<1>4. u * q \in Nat /\ u * (q + 1) = u * q + u
  BY <1>1, <1>2
<1>5. \/ 2 * r >= u /\ ToFloat(n) = u * q + u
      \/ 2 * r <= u /\ ToFloat(n) = u * q
  BY <1>1, <1>2, <1>3, <1>4
<1>6. ToFloat(n) \in Nat /\ 2 * ToFloat(n) - 2 * n \in -u..u
  BY <1>1, <1>2, <1>4, <1>5
<1>7. u = 1 => ToFloat(n) = n
  BY <1>1, <1>2, <1>4, <1>5
<1>8. n = u => ToFloat(n) = n
  <2>1. CASE q = 0
    BY <1>1, <1>2, <2>1
  <2>2. CASE q # 0
    <3>1. u * q >= u
      <4>1. u * (q - 1) >= 0 /\ u * (q - 1) = u * q - u
        BY <1>1, <1>2, <2>2
      <4> QED  BY <4>1, <1>1, <1>4
    <3> QED  BY <3>1, <1>1, <1>2, <1>4, <1>5
  <2> QED  BY <2>1, <2>2
<1>9. 2 * ToFloat(n) > n /\ ToFloat(n) \div 2 < n
  BY <1>1, <1>6, <1>7, <1>8
<1> QED  BY <1>6, <1>9 DEF u

-----------------------------------------------------------------------------
LEMMA SizeInitInv == Init => SizeInv
<1> SUFFICES ASSUME Init, function = Sizing PROVE SizeInv
  BY DEF SizeInv
<1>1. vmi \in [size: Sizes \cup {None}, max: Limits \cup {None}, min: Limits \cup {None}]
  BY DEF Init, SizeInit, Input
<1>2. pc = "called" /\ got = [size |-> None, max |-> None, min |-> None]
  BY DEF Init, CallInit, SizeInit
<1> QED  BY <1>1, <1>2 DEF SizeInv

LEMMA SizeKept ==
    ASSUME SizeInv, [Next]_allVars
    PROVE  SizeInv'
<1>1. /\ function' = function
      /\ function = Sizing => SizeNext \/ UNCHANGED <<callVars, sizeVars>>
  BY OneFunction
<1> SUFFICES ASSUME function = Sizing PROVE SizeInv'
  BY <1>1 DEF SizeInv
<1>2. /\ vmi \in [size: Sizes \cup {None}, max: Limits \cup {None}, min: Limits \cup {None}]
      /\ got \in [size: {vmi.size, None}, max: {vmi.max, None}, min: {vmi.min, None}]
  BY DEF SizeInv
<1>3. CASE ReadSize
  <2>1. PICK v \in {vmi.size, None} : got' = [got EXCEPT !["size"] = v]
    BY <1>3 DEF ReadSize, Read
  <2>2. vmi' = vmi /\ got'.size = v /\ got'.max = got.max /\ got'.min = got.min
    BY <1>2, <1>3, <2>1 DEF ReadSize, Read
  <2>3. got' \in [size: {vmi.size, None}, max: {vmi.max, None}, min: {vmi.min, None}]
    BY <1>2, <2>1
  <2>4. \/ pc' = "max" /\ got'.size # None
        \/ pc' = "returned" /\ result' = "no size"
    BY <1>3 DEF ReadSize, Return, GoTo
  <2> QED  BY <1>1, <1>2, <2>2, <2>3, <2>4 DEF SizeInv
<1>4. CASE ReadMax
  <2>1. PICK v \in {vmi.max, None} : got' = [got EXCEPT !["max"] = v]
    BY <1>4 DEF ReadMax, Read
  <2>2. vmi' = vmi /\ got'.size = got.size
    BY <1>2, <1>4, <2>1 DEF ReadMax, Read
  <2>3. got' \in [size: {vmi.size, None}, max: {vmi.max, None}, min: {vmi.min, None}]
    BY <1>2, <2>1
  <2>4. got.size # None /\ pc' = "min"
    BY <1>4 DEF ReadMax, At, GoTo, SizeInv
  <2> QED  BY <1>1, <1>2, <2>2, <2>3, <2>4 DEF SizeInv
<1>5. CASE ReadMin
  <2>1. PICK v \in {vmi.min, None} : got' = [got EXCEPT !["min"] = v]
    BY <1>5 DEF ReadMin, Read
  <2>2. vmi' = vmi /\ op' = op /\ got'.size = got.size /\ got'.max = got.max
    BY <1>2, <1>5, <2>1 DEF ReadMin, Read
  <2>3. got' \in [size: {vmi.size, None}, max: {vmi.max, None}, min: {vmi.min, None}]
    BY <1>2, <2>1
  <2>4. got.size # None
    BY <1>5 DEF ReadMin, At, SizeInv
  <2>5. pc' = "returned"
    BY <1>5 DEF ReadMin, Checked, Return
  <2>6. result' = "resized" =>
            /\ newSize' = NewSize(got.size)
            /\ NewSize(got.size) \in OrDefault(got'.min, defaultMinSize)..
                                     OrDefault(got.max, defaultMaxSize)
    BY <1>5 DEF ReadMin, Checked, Return
  <2>7. NewSize(got.size)' = NewSize(got.size)
    BY <2>2 DEF NewSize
  <2> QED  BY <1>1, <1>2, <2>2, <2>3, <2>4, <2>5, <2>6, <2>7 DEF SizeInv, OrDefault
<1>6. CASE UNCHANGED <<callVars, sizeVars>>
  <2>1. /\ vmi' = vmi /\ op' = op /\ got' = got /\ newSize' = newSize
        /\ pc' = pc /\ result' = result
    BY <1>6 DEF callVars, sizeVars
  <2> QED  BY <1>1, <2>1 DEF SizeInv, NewSize, OrDefault
<1> QED  BY <1>1, <1>3, <1>4, <1>5, <1>6 DEF SizeNext

(* What is resized was read, and to a size that floats around it allow.    *)
LEMMA Resized ==
    ASSUME SizeInv, Done(Sizing), result = "resized"
    PROVE  /\ got.size = vmi.size /\ vmi.size \in Sizes
           /\ newSize = NewSize(vmi.size)
           /\ newSize \in OrDefault(got.min, defaultMinSize)..
                          OrDefault(got.max, defaultMaxSize)
  BY DEF SizeInv, Done

(* The way through a float never turns a change into none or into the      *)
(* opposite.                                                               *)
LEMMA ResizedTheRightWay ==
    ASSUME SizeInv, Done(Sizing), result = "resized"
    PROVE  IF op = "double" THEN newSize > vmi.size ELSE newSize < vmi.size
<1> DEFINE n == vmi.size
           f == ToFloat(n)
<1>1. n \in Sizes /\ newSize = IF op = "double" THEN 2 * f ELSE f \div 2
  BY Resized DEF NewSize
<1>2. f \in Nat /\ 2 * f > n /\ f \div 2 < n
  BY <1>1, ToFloatFacts
<1> HIDE DEF n, f
<1>3. IF op = "double" THEN newSize > n ELSE newSize < n
  BY <1>1, <1>2
<1> QED  BY <1>3 DEF n

(***************************************************************************)
(* No disk is doubled that has its largest size, or halved that has its    *)
(* smallest one, and one within its limits stays there, whatever they are, *)
(* provided that modifyStorageCapacity could read them.                    *)
(***************************************************************************)
THEOREM LimitsAreKept == Spec => []LimitsHold
<1>1. SizeInv => LimitsHold
  <2> SUFFICES ASSUME SizeInv, Done(Sizing), result = "resized", got = vmi
               PROVE  LimitsHold
    BY DEF LimitsHold
  <2> DEFINE max == OrDefault(vmi.max, defaultMaxSize)
             min == OrDefault(vmi.min, defaultMinSize)
  <2>1. newSize \in min..max /\ vmi.size \in Sizes
    BY Resized
  <2>2. max \in Nat /\ min \in Nat /\ vmi.size \in Nat
    <3>1. vmi.max \in Limits \cup {None} /\ vmi.min \in Limits \cup {None}
      BY DEF SizeInv, Done
    <3> QED  BY <2>1, <3>1, SizingAssumption, UlpFacts DEF OrDefault
  <2>3. IF op = "double" THEN newSize > vmi.size ELSE newSize < vmi.size
    BY ResizedTheRightWay
  <2> HIDE DEF max, min
  <2>4. vmi.size # (IF op = "double" THEN max ELSE min)
    BY <2>1, <2>2, <2>3
  <2> QED  BY <2>1, <2>4 DEF LimitsHold, max, min
<1>2. SizeInv /\ [Next]_allVars => SizeInv'
  BY SizeKept
<1> QED  BY <1>1, <1>2, SizeInitInv, PTL DEF Spec

-----------------------------------------------------------------------------
(* The API server takes a documented name that is not too long, and the    *)
(* key of a version likewise.                                              *)
LEMMA KeyFacts ==
    ASSUME NEW n \in FileNames, n.stem # {}, n.stem \subseteq {"word", "dash"}
    PROVE  /\ IsConfigMapKey(n) <=> n.length <= KeyLimit
           /\ IsConfigMapKey(VersionKey(n)) <=> n.length <= KeyLimit - StampLength
<1>1. n \in [length: 1..MaxLength, stem: SUBSET Kinds, dots: BOOLEAN, rules: BOOLEAN]
  BY DEF FileNames
<1>2. n.length \in Nat /\ n.length >= 1
  BY <1>1, NamesAssumption
<1>3. ~n.dots
  BY DEF FileNames
<1>4. /\ VersionKey(n).length = n.length + StampLength
      /\ VersionKey(n).stem = n.stem \cup {"word", "dash", "dot"}
      /\ VersionKey(n).dots = n.dots
  BY <1>1 DEF VersionKey
<1> QED  BY <1>2, <1>3, <1>4 DEF IsConfigMapKey, KeyLimit, StampLength

LEMMA NameInitInv == Init => NameInv
  BY DEF Init, CallInit, NameInit, NameInv, Input, DocumentedNamesWork, Done

LEMMA NameKept ==
    ASSUME NameInv, [Next]_allVars
    PROVE  NameInv'
<1>1. /\ function' = function
      /\ function = Naming => Put \/ UNCHANGED <<callVars, nameVars>>
  BY OneFunction
<1> SUFFICES ASSUME function = Naming PROVE NameInv'
  BY <1>1 DEF NameInv
<1>2. CASE Put
  <2>1. /\ name \in FileNames /\ name' = name
        /\ \/ pc = "called" /\ stored = 0
           \/ pc = "created" /\ stored = 1
    BY <1>2 DEF Put, Within, NameInv
  <2>2. Documented' = Documented
    BY <2>1 DEF Documented
  <2>3. \/ ~PutAccepts(name) /\ pc' = "returned" /\ stored' = stored
        \/ stored = 0 /\ ~IsConfigMapKey(name) /\ pc' = "returned" /\ stored' = 0
        \/ stored = 0 /\ IsConfigMapKey(name) /\ pc' = "created" /\ stored' = 1
        \/ stored = 1 /\ ~IsConfigMapKey(VersionKey(name)) /\ pc' = "returned" /\ stored' = 1
        \/ stored = 1 /\ IsConfigMapKey(VersionKey(name)) /\ pc' = "returned" /\ stored' = 2
    BY <1>2, <2>1 DEF Put, Return, GoTo
  <2>4. ASSUME Documented
        PROVE  /\ PutAccepts(name) /\ name.length \in Nat
               /\ IsConfigMapKey(name) <=> name.length <= KeyLimit
               /\ IsConfigMapKey(VersionKey(name)) <=> name.length <= KeyLimit - StampLength
    <3>1. name.length \in Nat
      BY <2>1, NamesAssumption DEF FileNames
    <3> QED  BY <2>1, <2>4, <3>1, KeyFacts DEF Documented, PutAccepts, validateName
  <2>5. ASSUME Documented, stored = 1 PROVE name.length <= KeyLimit
    BY <2>1, <2>4, <2>5 DEF NameInv
  <2>6. ASSUME Documented, pc' = "returned"
        PROVE  stored' = IF name.length <= KeyLimit - StampLength THEN 2
                         ELSE IF name.length <= KeyLimit THEN 1 ELSE 0
    BY <2>3, <2>4, <2>5, <2>6 DEF KeyLimit, StampLength
  <2>7. DocumentedNamesWork'
    BY <2>1, <2>2, <2>6 DEF DocumentedNamesWork, Done
  <2>8. pc' = "created" => stored' = 1 /\ IsConfigMapKey(name)
    BY <2>1, <2>3
  <2> QED  BY <1>1, <2>1, <2>2, <2>3, <2>4, <2>7, <2>8 DEF NameInv
<1>3. CASE UNCHANGED <<callVars, nameVars>>
  BY <1>1, <1>3 DEF NameInv, DocumentedNamesWork, Documented, Done, callVars, nameVars
<1> QED  BY <1>1, <1>2, <1>3

(***************************************************************************)
(* PUT turns no documented rule file name down, of any length that the API *)
(* server takes, and replaces the file unless the key of a version would   *)
(* be too long: though the handler's test and the API server's are         *)
(* different ones.                                                         *)
(***************************************************************************)
THEOREM DocumentedNamesAreStored == Spec => []DocumentedNamesWork
<1>1. NameInv => DocumentedNamesWork
  BY DEF NameInv, DocumentedNamesWork, Done
<1>2. NameInv /\ [Next]_allVars => NameInv'
  BY NameKept
<1> QED  BY <1>1, <1>2, NameInitInv, PTL DEF Spec

-----------------------------------------------------------------------------
LEMMA DocInitInv == Init => DocInv
  BY DEF Init, CallInit, DocInit, DocInv

LEMMA DocKept ==
    ASSUME DocInv, [Next]_allVars
    PROVE  DocInv'
<1>1. /\ function' = function
      /\ function = CheckingConfig => Validate \/ UNCHANGED <<callVars, doc>>
  BY OneFunction
<1> SUFFICES ASSUME function = CheckingConfig PROVE DocInv'
  BY <1>1 DEF DocInv
<1>2. CASE Validate
  <2>1. doc' = doc /\ result' = ConfigVerdict(doc)
    BY <1>2 DEF Validate, At, Return, CheckingConfig, CheckingRules
  <2>2. ConfigVerdict(doc)' = ConfigVerdict(doc)
    BY <2>1 DEF ConfigVerdict, HasElements
  <2> QED  BY <1>1, <2>1, <2>2 DEF DocInv
<1>3. CASE UNCHANGED <<callVars, doc>>
  <2>1. doc' = doc /\ result' = result /\ pc' = pc
    BY <1>3 DEF callVars
  <2>2. ConfigVerdict(doc)' = ConfigVerdict(doc)
    BY <2>1 DEF ConfigVerdict, HasElements
  <2> QED  BY <1>1, <2>1, <2>2 DEF DocInv
<1> QED  BY <1>1, <1>2, <1>3

LEMMA JobsFacts ==
    ASSUME NEW d \in Configs, d.jobs # NoArray
    PROVE  Len(d.jobs) \in Nat /\ DOMAIN d.jobs = 1..Len(d.jobs)
<1>1. d.jobs \in UNION {[1..n -> JobNames \cup {NoName}] : n \in 0..MaxJobs}
  BY DEF Configs
<1>2. PICK n \in 0..MaxJobs : d.jobs \in [1..n -> JobNames \cup {NoName}]
  BY <1>1
<1>3. n \in Nat
  <2>1. MaxJobs \in Nat
    BY DocumentsAssumption
  <2> QED  BY <2>1
<1>4. d.jobs \in Seq(JobNames \cup {NoName})
  BY <1>2, <1>3, SeqDef
<1> QED  BY <1>4, LenProperties

(* What the loop over the reserved jobs comes to.                          *)
LEMMA VerdictFacts ==
    ASSUME NEW d \in Configs, HasElements(d)
    PROVE  LET wrong == {i \in 1..3 : d.jobs[i] # Reserved[i]} IN
           /\ ConfigVerdict(d) = "accepted" <=> wrong = {}
           /\ ConfigVerdict(d) = "panic" =>
                  \E i \in wrong : /\ d.jobs[i] \in {NoName, ""}
                                   /\ \A j \in wrong : i <= j
<1> DEFINE wrong == {i \in 1..3 : d.jobs[i] # Reserved[i]}
           first == CHOOSE i \in wrong : \A j \in wrong : i <= j
<1>1. ConfigVerdict(d) =
          IF wrong = {} THEN "accepted"
          ELSE IF d.jobs[first] \in {NoName, ""} THEN "panic" ELSE "refused"
  BY DEF ConfigVerdict
<1>2. ASSUME wrong # {} PROVE first \in wrong /\ \A j \in wrong : first <= j
  <2>1. wrong \subseteq {1, 2, 3}
    OBVIOUS
  <2> HIDE DEF wrong
  <2>2. \E i \in wrong : \A j \in wrong : i <= j
    <3>1. CASE 1 \in wrong
      BY <2>1, <3>1
    <3>2. CASE 1 \notin wrong /\ 2 \in wrong
      BY <2>1, <3>2
    <3>3. CASE 1 \notin wrong /\ 2 \notin wrong
      <4>1. 3 \in wrong /\ \A j \in wrong : j = 3
        BY <1>2, <2>1, <3>3
      <4> QED  BY <4>1
    <3> QED  BY <3>1, <3>2, <3>3
  <2> QED  BY <2>2
<1> HIDE DEF wrong, first
<1>3. ConfigVerdict(d) = "accepted" <=> wrong = {}
  BY <1>1
<1>4. ConfigVerdict(d) = "panic" => wrong # {} /\ d.jobs[first] \in {NoName, ""}
  BY <1>1
<1>5. ConfigVerdict(d) = "panic" =>
          \E i \in wrong : /\ d.jobs[i] \in {NoName, ""}
                           /\ \A j \in wrong : i <= j
  BY <1>2, <1>4
<1> QED  BY <1>3, <1>5 DEF wrong

(***************************************************************************)
(* ValidateVMIPrometheusElements accepts a configuration exactly when all  *)
(* that the operator put there is in its place, and panics only over a     *)
(* reserved job without a name: for any number of jobs, of any names.      *)
(***************************************************************************)
THEOREM ReservedPartsStay == Spec => []ReservedPartsAreKept
<1>1. DocInv => ReservedPartsAreKept
  <2> SUFFICES ASSUME DocInv, Done(CheckingConfig) PROVE ReservedPartsAreKept
    BY DEF ReservedPartsAreKept
  <2> DEFINE Kept(i) == doc.jobs # NoArray /\ i \in DOMAIN doc.jobs
                                           /\ doc.jobs[i] = Reserved[i]
             wrong   == {i \in 1..3 : doc.jobs[i] # Reserved[i]}
  <2>1. doc \in Configs /\ result = ConfigVerdict(doc)
    BY DEF DocInv, Done
  <2>2. CASE HasElements(doc)
    <3>1. /\ doc.jobs # NoArray /\ ~doc.null /\ doc.scrape_interval /\ doc.rule_files
          /\ \A i \in 1..3 : i \in DOMAIN doc.jobs
      BY <2>1, <2>2, JobsFacts DEF HasElements
    <3>2. \A i \in 1..3 : Kept(i) <=> i \notin wrong
      BY <3>1
    <3>3. /\ result = "accepted" <=> wrong = {}
          /\ result = "panic" =>
                 \E i \in wrong : /\ doc.jobs[i] \in {NoName, ""}
                                  /\ \A j \in wrong : i <= j
      BY <2>1, <2>2, VerdictFacts
    <3>4. wrong \subseteq 1..3
      OBVIOUS
    <3> HIDE DEF Kept, wrong
    <3>5. wrong = {} <=> \A i \in 1..3 : Kept(i)
      BY <3>2, <3>4
    <3>6. ASSUME NEW i \in wrong, \A j \in wrong : i <= j
          PROVE  \A j \in 1..(i - 1) : Kept(j)
      BY <3>2, <3>4, <3>6
    <3>7. result = "panic" => \E i \in 1..3 : /\ doc.jobs[i] \in {NoName, ""}
                                              /\ \A j \in 1..(i - 1) : Kept(j)
      BY <3>3, <3>4, <3>6
    <3>8. result = "accepted" <=>
              ~doc.null /\ doc.scrape_interval /\ doc.rule_files /\ \A i \in 1..3 : Kept(i)
      BY <3>1, <3>3, <3>5
    <3> QED  BY <3>7, <3>8 DEF ReservedPartsAreKept, Kept
  <2>3. CASE ~HasElements(doc)
    <3>1. result = "refused"
      BY <2>1, <2>3 DEF ConfigVerdict
    <3>2. ~(~doc.null /\ doc.scrape_interval /\ doc.rule_files /\ \A i \in 1..3 : Kept(i))
      BY <2>1, <2>3, JobsFacts DEF HasElements
    <3> HIDE DEF Kept
    <3>3. /\ result = "accepted" <=>
                 ~doc.null /\ doc.scrape_interval /\ doc.rule_files /\ \A i \in 1..3 : Kept(i)
          /\ result # "panic"
      BY <3>1, <3>2
    <3> QED  BY <3>3 DEF ReservedPartsAreKept, Kept
  <2> QED  BY <2>2, <2>3
<1>2. DocInv /\ [Next]_allVars => DocInv'
  BY DocKept
<1> QED  BY <1>1, <1>2, DocInitInv, PTL DEF Spec

=============================================================================
