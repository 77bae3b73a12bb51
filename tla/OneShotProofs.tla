--------------------------- MODULE OneShotProofs ---------------------------
(* Theorems about OneShot: transcode_complete_into and the calls of the    *)
(* value codecs, for every transcoder and codec, honest or not.            *)
EXTENDS OneShot, TLAPS

----------------------------------------------------------------------------
(* The capacity planners.                                                  *)

LEMMA CheckedAddFacts ==
    ASSUME NEW a \in Nat, NEW b \in Nat
    PROVE  /\ CheckedAdd(a, b) \in Nat
           /\ CheckedAdd(a, b) # Overflow =>
                 /\ CheckedAdd(a, b) = a + b
                 /\ a + b <= UsizeMax
           /\ CheckedAdd(a, b) <= UsizeMax => CheckedAdd(a, b) = a + b
  BY UsizeMaxAssumption DEF CheckedAdd, Overflow

LEMMA CheckedMulFacts ==
    ASSUME NEW a \in Nat, NEW b \in Nat
    PROVE  /\ CheckedMul(a, b) \in Nat /\ a * b \in Nat
           /\ CheckedMul(a, b) <= UsizeMax => CheckedMul(a, b) = a * b /\ a <= UsizeMax
<1>1. a * b \in Nat
  OBVIOUS
<1> QED BY <1>1, UsizeMaxAssumption DEF CheckedMul, Overflow

\* Reading an input unit by unit adds up.
LEMMA ProductSplits ==
    ASSUME NEW n \in Nat, NEW k \in 0..n, NEW p \in Nat
    PROVE  /\ k * p \in Nat /\ (n - k) * p \in Nat /\ n * p \in Nat
           /\ k * p + (n - k) * p = n * p
  OBVIOUS

LEMMA Bounds ==
    /\ PerUnit \in Nat /\ MaxHeld \in Nat /\ MaxReset \in Nat /\ MaxTrailer \in Nat
    /\ MaxOutput \in Nat /\ UsizeMax \in Nat /\ MaxInput \in Nat
  BY OneShotAssumption, UsizeMaxAssumption, ValueCodecsAssumption

LEMMA PlannersFacts ==
    ASSUME NEW n \in Nat
    PROVE  MaxTranscodeOutputLen(n) \in Nat /\ MaxFinishOutputLen \in Nat
<1>1. CheckedMul(n, PerUnit) \in Nat
  BY Bounds, CheckedMulFacts
<1> QED BY <1>1, Bounds, CheckedAddFacts DEF MaxTranscodeOutputLen, MaxFinishOutputLen

LEMMA CapacityFacts ==
    ASSUME NEW m, NEW bound, PlannedCapacityFailure(m, 0, bound) = "none"
    PROVE  bound # Overflow /\ ~(m - 0 < bound)
<1>1. bound # Overflow /\ CapacityFailure(m, 0, bound) = "none"
  BY DEF PlannedCapacityFailure
<1> QED BY <1>1 DEF CapacityFailure

\* An output that passes the check has room for every phase, and no count
\* overflows.
LEMMA PlanFits ==
    ASSUME NEW n \in Nat, NEW m \in Nat,
           PlannedCapacityFailure(m, 0, SumOutputBounds(MaxReset, MaxTranscodeOutputLen(n),
                                                        MaxFinishOutputLen)) = "none"
    PROVE  LET plan == MaxReset + (MaxHeld + n * PerUnit) + (MaxHeld + MaxTrailer)
           IN  /\ MaxFinishOutputLen = MaxHeld + MaxTrailer
               /\ n <= UsizeMax /\ plan <= UsizeMax /\ plan <= m
<1> DEFINE mul == CheckedMul(n, PerUnit)
           t == MaxTranscodeOutputLen(n)
           f == MaxFinishOutputLen
           rt == CheckedAdd(MaxReset, t)
           sum == CheckedAdd(rt, f)
<1>1. /\ mul \in Nat /\ n * PerUnit \in Nat
      /\ mul <= UsizeMax => mul = n * PerUnit /\ n <= UsizeMax
  BY Bounds, CheckedMulFacts
<1>2. t = CheckedAdd(MaxHeld, mul) /\ f = CheckedAdd(MaxHeld, MaxTrailer)
  BY DEF MaxTranscodeOutputLen, MaxFinishOutputLen
<1>3. sum # Overflow /\ ~(m - 0 < sum)
  <2>1. SumOutputBounds(MaxReset, MaxTranscodeOutputLen(n), MaxFinishOutputLen) = sum
    BY DEF SumOutputBounds
  <2> QED BY <2>1, CapacityFacts
<1> HIDE DEF mul, t, f
<1>4. /\ t \in Nat /\ (t <= UsizeMax => t = MaxHeld + mul)
      /\ f \in Nat /\ (f <= UsizeMax => f = MaxHeld + MaxTrailer)
  BY <1>1, <1>2, Bounds, CheckedAddFacts
<1>5. rt \in Nat /\ (rt <= UsizeMax => rt = MaxReset + t)
  BY <1>4, Bounds, CheckedAddFacts
<1> HIDE DEF rt
<1>6. sum \in Nat /\ sum = rt + f /\ rt + f <= UsizeMax
  BY <1>3, <1>4, <1>5, CheckedAddFacts
<1> HIDE DEF sum
<1>7. rt <= UsizeMax /\ f <= UsizeMax
  BY <1>4, <1>5, <1>6, Bounds
<1>8. t <= UsizeMax
  BY <1>4, <1>5, <1>7, Bounds
<1>9. mul <= UsizeMax
  BY <1>1, <1>4, <1>8, Bounds
<1>10. sum <= m
  BY <1>3, <1>6
<1>11. sum = MaxReset + (MaxHeld + n * PerUnit) + (MaxHeld + MaxTrailer)
  BY <1>1, <1>4, <1>5, <1>6, <1>7, <1>8, <1>9
<1> QED BY <1>1, <1>4, <1>6, <1>7, <1>9, <1>10, <1>11 DEF f

----------------------------------------------------------------------------
(* The reports of the transcoder.                                          *)

LEMMA HonestFacts ==
    ASSUME NEW n \in Nat, NEW m \in Nat, NEW a \in Honest(n, m), held \in 0..MaxHeld
    PROVE  /\ a.tag \in ProgressTags /\ a.required \in Nat
           /\ a.read \in 0..n /\ a.written \in 0..m /\ a.kept \in 0..MaxHeld
           /\ a.written + a.kept - held \in 0..(a.read * PerUnit)
           /\ a.tag = "Complete" => a.read = n
           /\ a.tag = "NeedInput" => a.read < n /\ a.required = n - a.read + 1
           /\ a.tag = "NeedOutput" => /\ a.required > m - a.written
                                      /\ a.required <= a.kept + (n - a.read) * PerUnit
<1>1. /\ a \in [tag : ProgressTags, required : 0..(MaxHeld + n * PerUnit + 1),
                read : 0..n, written : 0..m, kept : 0..MaxHeld]
      /\ Possible(a.read, a.written, a.kept)
      /\ CASE a.tag = "Complete" -> a.required = 0 /\ a.read = n
             [] a.tag = "NeedInput" -> a.read < n /\ a.required = n - a.read + 1
             [] a.tag = "NeedOutput" ->
                   /\ a.required > m - a.written
                   /\ a.required <= a.kept + (n - a.read) * PerUnit
  BY DEF Honest
<1>2. /\ a.tag \in ProgressTags /\ a.required \in 0..(MaxHeld + n * PerUnit + 1)
      /\ a.read \in 0..n /\ a.written \in 0..m /\ a.kept \in 0..MaxHeld
  BY <1>1
<1>3. a.required \in Nat
  BY <1>2
<1>4. a.written + a.kept - held \in 0..(a.read * PerUnit)
  BY <1>1 DEF Possible
<1>5. CASE a.tag = "Complete"
  BY <1>1, <1>2, <1>3, <1>4, <1>5
<1>6. CASE a.tag = "NeedInput"
  BY <1>1, <1>2, <1>3, <1>4, <1>6
<1>7. CASE a.tag = "NeedOutput"
  BY <1>1, <1>2, <1>3, <1>4, <1>7
<1> QED BY <1>2, <1>5, <1>6, <1>7 DEF ProgressTags

LEMMA AnswerFacts ==
    ASSUME NEW n \in Nat, NEW m \in Nat, NEW a \in Answers(n, m), held \in 0..MaxHeld,
           faulty \in BOOLEAN
    PROVE  /\ a.tag \in ProgressTags /\ a.required \in Nat
           /\ a.read \in Nat /\ a.written \in Nat /\ a.kept \in 0..MaxHeld
           /\ ~faulty => a \in Honest(n, m)
<1>1. CASE a \in Honest(n, m)
  BY <1>1, HonestFacts
<1>2. CASE a \in Dishonest(n, m) /\ faulty
  <2>1. PICK t \in ProgressTags, q \in {1, n + m + 1}, r \in {0, n, n + 1}, w \in {0, m, m + 1} :
            a = Report(t, q, r, w, 0)
    BY <1>2 DEF Dishonest
  <2>2. q \in Nat /\ r \in Nat /\ w \in Nat /\ 0 \in 0..MaxHeld
    BY Bounds
  <2> QED BY <1>2, <2>1, <2>2 DEF Report
<1> QED BY <1>1, <1>2 DEF Answers

----------------------------------------------------------------------------
(* Encoding a value.                                                       *)

LEMMA FinishEncodeFacts ==
    ASSUME NEW at \in Nat, NEW v \in Encode!FinishEncode(at)
    PROVE  /\ v.n \in Nat
           /\ v.res # "Ok" => v.n = 0
           /\ v.res = "Panic" => faulty
<1> USE ValueCodecsAssumption
<1>1. CASE v = Encode!Result("FinishError", 0)
  BY <1>1 DEF Encode!Result
<1>2. CASE \E n \in Encode!Writes(EncodeFinish) :
             v = IF n > EncodeFinish THEN Encode!Result("Panic", 0)
                 ELSE Encode!Result("Ok", at + n)
  <2>1. PICK n \in Encode!Writes(EncodeFinish) :
             v = IF n > EncodeFinish THEN Encode!Result("Panic", 0)
                 ELSE Encode!Result("Ok", at + n)
    BY <1>2
  <2>2. n \in Nat /\ (n > EncodeFinish => faulty)
    BY <2>1 DEF Encode!Writes
  <2>3. CASE n > EncodeFinish
    BY <2>1, <2>2, <2>3 DEF Encode!Result
  <2>4. CASE ~(n > EncodeFinish)
    BY <2>1, <2>2, <2>4 DEF Encode!Result
  <2> QED BY <2>3, <2>4
<1> QED BY <1>1, <1>2 DEF Encode!FinishEncode

LEMMA EncodeOfFacts ==
    ASSUME NEW len \in Nat, NEW at \in Nat, NEW v \in Encode!EncodeOf(len, at)
    PROVE  /\ v.n \in Nat
           /\ v.res # "Ok" => v.n = 0
           /\ v.res = "Panic" => faulty
<1>1. CASE v = Encode!Result("EncodeError", 0)
  BY <1>1 DEF Encode!Result
<1>2. CASE v \in Encode!FinishEncode(at + len)
  <2>1. at + len \in Nat
    OBVIOUS
  <2> QED BY <1>2, <2>1, FinishEncodeFacts
<1>3. CASE faulty /\ v = Encode!Result("Panic", 0)
  BY <1>3 DEF Encode!Result
<1>4. v = Encode!Result("EncodeError", 0)
      \/ \E n \in IF faulty THEN Encode!Writes(EncodeValue) ELSE {len} :
            v \in IF n # len THEN {Encode!Result("Panic", 0)} ELSE Encode!FinishEncode(at + n)
  BY DEF Encode!EncodeOf
<1> QED BY <1>1, <1>2, <1>3, <1>4

\* Units are counted for a success only, and only a codec that breaks its
\* bounds makes an assertion fail.
LEMMA EncodeCompleteFacts ==
    ASSUME NEW units \in Nat, NEW v \in Encode!EncodeComplete(units, units)
    PROVE  /\ v.n \in Nat
           /\ v.res # "Ok" => v.n = 0
           /\ v.res = "Panic" => faulty
<1> USE ValueCodecsAssumption
<1>1. CASE v = Encode!Result("ResetError", 0)
  BY <1>1 DEF Encode!Result
<1>2. CASE \E n \in Encode!Writes(EncodeReset) :
             v \in IF n > EncodeReset THEN {Encode!Result("Panic", 0)}
                   ELSE Encode!EncodeValueIn(units, n)
  <2>1. PICK n \in Encode!Writes(EncodeReset) :
             v \in IF n > EncodeReset THEN {Encode!Result("Panic", 0)}
                   ELSE Encode!EncodeValueIn(units, n)
    BY <1>2
  <2>2. n \in Nat /\ (n > EncodeReset => faulty)
    BY <2>1 DEF Encode!Writes
  <2>3. CASE n > EncodeReset
    BY <2>1, <2>2, <2>3 DEF Encode!Result
  <2>4. CASE v \in Encode!EncodeValueIn(units, n)
    <3>1. CASE v = Encode!Result("Unencodable", 0)
      BY <3>1 DEF Encode!Result
    <3>2. CASE \E len \in Encode!Writes(EncodeValue) :
               v \in IF len > EncodeValue THEN {Encode!Result("Panic", 0)}
                     ELSE IF Encode!CapacityFailure(units, n, len + EncodeFinish) # "none"
                     THEN {Encode!Result("InsufficientOutput", 0)}
                     ELSE Encode!EncodeOf(len, n)
      <4>1. PICK len \in Encode!Writes(EncodeValue) :
               \/ len > EncodeValue /\ v = Encode!Result("Panic", 0)
               \/ v = Encode!Result("InsufficientOutput", 0)
               \/ v \in Encode!EncodeOf(len, n)
        BY <3>2
      <4>2. len \in Nat /\ (len > EncodeValue => faulty)
        BY <4>1 DEF Encode!Writes
      <4>3. CASE len > EncodeValue /\ v = Encode!Result("Panic", 0)
        BY <4>2, <4>3 DEF Encode!Result
      <4>4. CASE v = Encode!Result("InsufficientOutput", 0)
        BY <4>4 DEF Encode!Result
      <4>5. CASE v \in Encode!EncodeOf(len, n)
        BY <2>2, <4>2, <4>5, EncodeOfFacts
      <4> QED BY <4>1, <4>3, <4>4, <4>5
    <3> QED BY <2>4, <3>1, <3>2 DEF Encode!EncodeValueIn
  <2> QED BY <2>1, <2>2, <2>3, <2>4
<1>3. ~(units < units)
  OBVIOUS
<1> QED BY <1>1, <1>2, <1>3 DEF Encode!EncodeComplete

LEMMA UnitsNat == Encode!MaxCompleteEncodeUnits \in Nat
<1>1. EncodeReset \in Nat /\ EncodeValue \in Nat /\ EncodeFinish \in Nat
  BY ValueCodecsAssumption
<1>2. \A a, b \in Nat : Encode!CheckedAdd(a, b) \in Nat
  BY UsizeMaxAssumption DEF Encode!CheckedAdd, Encode!Overflow
<1> QED BY <1>1, <1>2 DEF Encode!MaxCompleteEncodeUnits

----------------------------------------------------------------------------
(* Decoding a value.                                                       *)

\* A decode succeeds on exactly one value, and fails on one only with an error
\* of the codec's own.
LEMMA DecodeExactFacts ==
    ASSUME NEW len \in Nat, NEW width \in MinUnits..MaxUnits, faulty \in BOOLEAN,
           NEW d \in DecodeExact(len, width)
    PROVE  /\ d.res = "Ok" => d.read = len
           /\ (~faulty /\ d.res = "Ok") => width = len
           /\ (~faulty /\ width = len) =>
                 d.res \notin {"Panic", "TrailingInput", "IncompleteInput"}
<1> USE ValueCodecsAssumption
<1>0. MinUnits \in Nat /\ MaxUnits \in Nat /\ width \in Nat /\ MinUnits <= width
      /\ width <= MaxUnits
  OBVIOUS
<1>1. CASE d = Decoded("ResetError", 0) \/ d = Decoded("DecodeError", 0)
  BY <1>1 DEF Decoded
<1>2. CASE faulty /\ d = Decoded("Panic", 0)
  BY <1>2 DEF Decoded
<1>3. CASE (len < MinUnits \/ width > len \/ faulty) /\ d = Decoded("IncompleteInput", 0)
  <2>1. ~faulty => width # len
    BY <1>0, <1>3
  <2> QED BY <1>3, <2>1 DEF Decoded
<1>4. CASE \E n \in Reads(len, width) : d \in AcceptRead(len, n)
  <2>1. PICK n \in Reads(len, width) : d \in AcceptRead(len, n)
    BY <1>4
  <2>2. n \in Nat /\ (~faulty => n = width /\ n <= len)
    BY <1>0, <2>1 DEF Reads
  <2>3. CASE n > len \/ n > MaxUnits
    <3>1. d = Decoded("Panic", n) /\ faulty
      BY <1>0, <2>1, <2>2, <2>3 DEF AcceptRead
    <3> QED BY <3>1 DEF Decoded
  <2>4. CASE ~(n > len \/ n > MaxUnits) /\ n < len
    <3>1. d = Decoded("TrailingInput", n) /\ (~faulty => width # len)
      BY <1>0, <2>1, <2>2, <2>4 DEF AcceptRead
    <3> QED BY <3>1 DEF Decoded
  <2>5. CASE ~(n > len \/ n > MaxUnits) /\ ~(n < len)
    <3>1. n = len /\ d \in FinishDecode(n)
      BY <2>1, <2>2, <2>5 DEF AcceptRead
    <3>2. \/ d = Decoded("FinishError", n) \/ d = Decoded("Ok", n)
          \/ faulty /\ d = Decoded("Panic", n)
      BY <3>1 DEF FinishDecode
    <3> QED BY <2>2, <3>1, <3>2 DEF Decoded
  <2> QED BY <2>3, <2>4, <2>5
<1> QED BY <1>1, <1>2, <1>3, <1>4 DEF DecodeExact

----------------------------------------------------------------------------
(* Steps of the calls.                                                     *)

\* The state that calls keep between them.
KeepOK ==
    /\ faulty \in BOOLEAN
    /\ overrides \in BOOLEAN
    /\ emits \in BOOLEAN
    /\ vec \in Nat
    /\ told \in Nat
    /\ ~faulty => vec = told

LEMMA Parts ==
    ASSUME IInv
    PROVE  /\ KeepOK /\ held \in 0..MaxHeld
           /\ CallOnFreshStream /\ PlanHolds /\ CompleteStreamIsWhole /\ ValueIsWhole
  BY DEF IInv, KeepOK

LEMMA FromParts ==
    ASSUME KeepOK', held' \in 0..MaxHeld, CallOnFreshStream', PlanHolds',
           CompleteStreamIsWhole', ValueIsWhole'
    PROVE  IInv'
  BY DEF IInv, KeepOK

LEMMA OthersKept ==
    ASSUME KeepOK, UNCHANGED otherVars
    PROVE  /\ KeepOK' /\ faulty' = faulty /\ overrides' = overrides
           /\ vec' = vec /\ told' = told /\ emits' = emits
  BY DEF KeepOK, otherVars, valueVars

\* What a transcoder call returns is not about values.
LEMMA NotAboutValues ==
    ASSUME ret'.op \in {"complete", "none"}
    PROVE  ValueIsWhole'
<1>1. ret'.op # "encode" /\ ret'.op \notin DecodeCalls
  BY DEF DecodeCalls
<1> QED BY <1>1 DEF ValueIsWhole

\* No call runs.
LEMMA NoCallRuns ==
    ASSUME call' = NoCall
    PROVE  CallOnFreshStream' /\ PlanHolds'
  BY DEF CallOnFreshStream, PlanHolds

\* A call returns an error.
LEMMA EndsIInv ==
    ASSUME IInv, NEW res, NEW ran \in BOOLEAN, Ends(res, ran), UNCHANGED otherVars,
           held' \in 0..MaxHeld, res # "Ok",
           (~faulty /\ ran) =>
              res \notin CapacityFailures \cup {"Panic", "InvalidProgress", "Refused"}
    PROVE  IInv'
<1>1. /\ KeepOK' /\ faulty' = faulty
  BY Parts, OthersKept
<1>2. ret' = [op |-> "complete", res |-> res, ran |-> ran] /\ call' = NoCall
  BY DEF Ends
<1>3. ret'.op = "complete" /\ ret'.res = res /\ ret'.ran = ran
  BY <1>2
<1>4. ValueIsWhole'
  BY <1>3, NotAboutValues
<1>5. CompleteStreamIsWhole'
  BY <1>1, <1>3 DEF CompleteStreamIsWhole
<1> QED BY <1>1, <1>2, <1>4, <1>5, NoCallRuns, FromParts

LEMMA FailsIInv ==
    ASSUME IInv, NEW res, Fails(res), res # "Ok",
           ~faulty => res \notin CapacityFailures \cup {"Panic", "InvalidProgress", "Refused"}
    PROVE  IInv'
<1>1. Ends(res, TRUE) /\ UNCHANGED otherVars /\ held' \in 0..MaxHeld
  BY Parts DEF Fails
<1> QED BY <1>1, EndsIInv

\* The call goes on and has returned nothing.
LEMMA GoesOnIInv ==
    ASSUME IInv, UNCHANGED otherVars, held' \in 0..MaxHeld, ret' = ret \/ ret' = NoReturn,
           CallOnFreshStream', PlanHolds'
    PROVE  IInv'
<1>1. KeepOK' /\ faulty' = faulty /\ vec' = vec /\ told' = told
  BY Parts, OthersKept
<1>2. CASE ret' = ret
  <2>1. CompleteStreamIsWhole' /\ ValueIsWhole'
    BY <1>1, <1>2, Parts DEF CompleteStreamIsWhole, ValueIsWhole
  <2> QED BY <1>1, <2>1, FromParts
<1>3. CASE ret' = NoReturn
  <2>1. ret'.op = "none"
    BY <1>3 DEF NoReturn
  <2>2. CompleteStreamIsWhole' /\ ValueIsWhole'
    BY <2>1, NotAboutValues DEF CompleteStreamIsWhole
  <2> QED BY <1>1, <2>2, FromParts
<1> QED BY <1>2, <1>3

LEMMA InitIInv == Init => IInv
<1> SUFFICES ASSUME Init PROVE IInv
  OBVIOUS
<1>1. /\ faulty \in BOOLEAN /\ emits \in BOOLEAN /\ vec = 0 /\ told = 0 /\ ret = NoReturn
      /\ overrides \in BOOLEAN /\ held = 0 /\ call = NoCall
  BY DEF Init, ValueInit
<1>2. ret.op = "none"
  BY <1>1 DEF NoReturn
<1>3. CallOnFreshStream /\ PlanHolds
  BY <1>1 DEF CallOnFreshStream, PlanHolds
<1>4. CompleteStreamIsWhole /\ ValueIsWhole
  BY <1>2 DEF CompleteStreamIsWhole, ValueIsWhole, DecodeCalls
<1>5. held \in 0..MaxHeld
  BY <1>1, Bounds
<1> QED BY <1>1, <1>3, <1>4, <1>5 DEF IInv

LEMMA AbandonIInv == ASSUME IInv, Abandon PROVE IInv'
<1>1. /\ call' = NoCall /\ held' \in 0..MaxHeld /\ ret' = ret /\ UNCHANGED otherVars
  BY DEF Abandon
<1> QED BY <1>1, NoCallRuns, GoesOnIInv

LEMMA BeginIInv ==
    ASSUME IInv, NEW n \in Nat, NEW m \in Nat, Begin(n, m)
    PROVE  IInv'
<1> USE Parts
<1>1. UNCHANGED <<transcoderVars, otherVars>> /\ held' = held /\ faulty' = faulty
  BY OthersKept DEF Begin, transcoderVars
<1>2. PICK r \in Planned(MaxReset), t \in Planned(MaxTranscodeOutputLen(n)),
           f \in Planned(MaxFinishOutputLen) :
          \/ /\ PlannedCapacityFailure(m, 0, SumOutputBounds(r, t, f)) # "none"
             /\ Ends(PlannedCapacityFailure(m, 0, SumOutputBounds(r, t, f)), FALSE)
          \/ /\ PlannedCapacityFailure(m, 0, SumOutputBounds(r, t, f)) = "none"
             /\ call' = [pc |-> "reset", input |-> n, output |-> m,
                         reset |-> r, finish |-> f, cursor |-> 0, made |-> 0]
             /\ ret' = NoReturn
  BY DEF Begin
<1>3. CASE Ends(PlannedCapacityFailure(m, 0, SumOutputBounds(r, t, f)), FALSE)
  <2>1. PlannedCapacityFailure(m, 0, SumOutputBounds(r, t, f)) # "Ok"
    BY DEF PlannedCapacityFailure, CapacityFailure
  <2> QED BY <1>1, <1>3, <2>1, EndsIInv
<1>4. CASE /\ PlannedCapacityFailure(m, 0, SumOutputBounds(r, t, f)) = "none"
           /\ call' = [pc |-> "reset", input |-> n, output |-> m,
                       reset |-> r, finish |-> f, cursor |-> 0, made |-> 0]
           /\ ret' = NoReturn
  <2>1. Overflow \in Nat /\ MaxReset \in Nat /\ MaxFinishOutputLen \in Nat
    BY Bounds, PlannersFacts DEF Overflow
  <2>2. r \in Nat /\ f \in Nat
    BY <2>1 DEF Planned
  <2>3. /\ call'.pc = "reset" /\ call'.input = n /\ call'.output = m /\ call'.reset = r
        /\ call'.finish = f /\ call'.cursor = 0 /\ call' \in Calls
    BY <1>4, <2>2 DEF Calls
  <2>4. CallOnFreshStream'
    BY <2>3 DEF CallOnFreshStream
  <2>5. PlanHolds'
    <3>1. ASSUME ~faulty
          PROVE  LET plan == MaxReset + (MaxHeld + n * PerUnit) + (MaxHeld + MaxTrailer)
                 IN  /\ r = MaxReset /\ f = MaxHeld + MaxTrailer
                     /\ n <= UsizeMax /\ plan <= UsizeMax /\ plan <= m
      <4>1. r = MaxReset /\ t = MaxTranscodeOutputLen(n) /\ f = MaxFinishOutputLen
        BY <3>1 DEF Planned
      <4> QED BY <1>4, <4>1, PlanFits
    <3> QED BY <1>1, <2>3, <3>1 DEF PlanHolds
  <2> QED BY <1>1, <1>4, <2>4, <2>5, GoesOnIInv
<1> QED BY <1>2, <1>3, <1>4

LEMMA Running ==
    ASSUME IInv, call.pc \in {"reset", "transcode", "finish"}
    PROVE  /\ call # NoCall /\ call \in Calls
           /\ call.input \in Nat /\ call.output \in Nat /\ call.reset \in Nat
           /\ call.finish \in Nat /\ call.cursor \in Nat /\ call.made \in Nat
           /\ call.cursor <= call.output
           /\ call.pc # "reset" => st = "open" /\ ~stale
           /\ call.pc = "transcode" => held = 0
           /\ Available \in Nat /\ call.cursor + Available = call.output
           /\ held \in Nat /\ held <= MaxHeld /\ faulty \in BOOLEAN
<1>1. call # NoCall
  BY DEF NoCall
<1>2. /\ call \in Calls
      /\ call.cursor <= call.output
      /\ call.pc # "reset" => st = "open" /\ ~stale
      /\ call.pc = "transcode" => held = 0
  BY <1>1, Parts DEF CallOnFreshStream
<1>3. /\ call.input \in Nat /\ call.output \in Nat /\ call.reset \in Nat
      /\ call.finish \in Nat /\ call.cursor \in Nat /\ call.made \in Nat
  BY <1>2 DEF Calls
<1>4. Available \in Nat /\ call.cursor + Available = call.output
  BY <1>2, <1>3 DEF Available
<1>5. held \in Nat /\ held <= MaxHeld /\ faulty \in BOOLEAN
  BY Parts, Bounds DEF KeepOK
<1> QED BY <1>1, <1>2, <1>3, <1>4, <1>5

\* What an honest transcoder finds.
LEMMA PlanFacts ==
    ASSUME IInv, call # NoCall, ~faulty, NEW p, p = call.input * PerUnit
    PROVE  /\ call.reset = MaxReset
           /\ call.finish = MaxHeld + MaxTrailer
           /\ call.input <= UsizeMax
           /\ MaxReset + (MaxHeld + p) + (MaxHeld + MaxTrailer) <= UsizeMax
           /\ MaxReset + (MaxHeld + p) + (MaxHeld + MaxTrailer) <= call.output
           /\ call.pc = "transcode" => call.cursor <= MaxReset /\ call.made = call.cursor
           /\ call.pc = "finish" =>
                 /\ call.made = call.cursor + held
                 /\ call.cursor + (MaxHeld + MaxTrailer) <= call.output
  BY Parts DEF PlanHolds

LEMMA ResetStepIInv == ASSUME IInv, ResetStep PROVE IInv'
<1>1. call.pc = "reset"
  BY DEF ResetStep
<1>2. /\ call # NoCall /\ call \in Calls /\ call.input \in Nat /\ call.output \in Nat
      /\ call.reset \in Nat
  BY <1>1, Running
<1> DEFINE p == call.input * PerUnit
<1>3. p \in Nat
  BY <1>2, Bounds, CheckedMulFacts
<1>4. ~faulty => /\ call.reset = MaxReset
                 /\ MaxReset + (MaxHeld + p) + (MaxHeld + MaxTrailer) <= call.output
  BY <1>2, PlanFacts
<1> HIDE DEF p
<1>5. ~faulty => MaxReset <= call.output
  BY <1>2, <1>3, <1>4, Bounds
<1>6. CASE Fails("ResetError")
  BY <1>6, FailsIInv DEF CapacityFailures
<1>7. ASSUME NEW n \in WriteCounts(MaxReset), n > call.reset \/ n > call.output, Fails("Panic")
      PROVE  IInv'
  <2>1. faulty
    BY <1>2, <1>4, <1>5, <1>7, Bounds DEF WriteCounts
  <2> QED BY <1>7, <2>1, FailsIInv
<1>8. ASSUME NEW n \in WriteCounts(MaxReset), n <= call.reset, n <= call.output,
             st' = "open", held' = 0, stale' = FALSE,
             call' = [call EXCEPT !.pc = "transcode", !.cursor = n, !.made = n],
             ret' = ret, UNCHANGED otherVars
      PROVE  IInv'
  <2>1. n \in Nat /\ (~faulty => n <= MaxReset) /\ 0 \in 0..MaxHeld
    BY <1>8, Bounds DEF WriteCounts
  <2>2. /\ call' \in Calls /\ call'.pc = "transcode" /\ call'.cursor = n /\ call'.made = n
        /\ call'.input = call.input /\ call'.output = call.output
        /\ call'.reset = call.reset /\ call'.finish = call.finish
    BY <1>2, <1>8, <2>1 DEF Calls
  <2>3. CallOnFreshStream'
    BY <1>8, <2>1, <2>2 DEF CallOnFreshStream
  <2>4. faulty' = faulty
    BY <1>8, Parts, OthersKept
  <2>5. PlanHolds'
    BY <1>2, <2>1, <2>2, <2>4, Parts DEF PlanHolds
  <2> QED BY <1>8, <2>1, <2>3, <2>5, GoesOnIInv
<1> QED BY <1>6, <1>7, <1>8 DEF ResetStep

----------------------------------------------------------------------------
(* The transcode phase.                                                    *)

\* A report of an honest transcoder passes validation, and never lacks room.
LEMMA HonestPasses ==
    ASSUME NEW n \in Nat, NEW m \in Nat, NEW cursor \in Nat, NEW a \in Honest(n, m),
           held = 0, n <= UsizeMax, n * PerUnit <= m, cursor + n * PerUnit <= UsizeMax
    PROVE  /\ Validate(a, 0, n, cursor, m) = "none"
           /\ a.tag \in {"Complete", "NeedInput"}
           /\ a.written + a.kept <= n * PerUnit
<1> DEFINE rp == a.read * PerUnit
           np == n * PerUnit
           tp == (n - a.read) * PerUnit
<1>1. /\ a.tag \in ProgressTags /\ a.required \in Nat
      /\ a.read \in 0..n /\ a.written \in 0..m /\ a.kept \in 0..MaxHeld
      /\ a.written + a.kept - held \in 0..rp
      /\ a.tag = "Complete" => a.read = n
      /\ a.tag = "NeedInput" => a.read < n /\ a.required = n - a.read + 1
      /\ a.tag = "NeedOutput" => /\ a.required > m - a.written
                                 /\ a.required <= a.kept + tp
  <2>1. held \in 0..MaxHeld
    BY Bounds
  <2> QED BY <2>1, HonestFacts
<1>2. rp \in Nat /\ tp \in Nat /\ np \in Nat /\ rp + tp = np
  BY <1>1, Bounds, ProductSplits
<1>3. np <= m /\ cursor + np <= UsizeMax
  OBVIOUS
<1> HIDE DEF rp, np, tp
<1>4. /\ a.read \in Nat /\ a.read <= n /\ a.written \in Nat /\ a.written <= m
      /\ a.kept \in Nat /\ a.written + a.kept <= rp
  BY <1>1, Bounds
<1>5. a.written + a.kept <= np
  BY <1>2, <1>4
<1>6. a.tag # "NeedOutput"
  <2> SUFFICES ASSUME a.tag = "NeedOutput" PROVE FALSE
    OBVIOUS
  <2>1. a.required > m - a.written /\ a.required <= a.kept + tp
    BY <1>1
  <2> QED BY <1>1, <1>2, <1>3, <1>4, <2>1
<1>7. /\ ~(a.read > n) /\ ~(a.written > m)
      /\ ~(0 + a.read > UsizeMax) /\ ~(cursor + a.written > UsizeMax)
  BY <1>2, <1>3, <1>4, <1>5, Bounds
<1>8. a.tag \in {"Complete", "NeedInput"}
  BY <1>1, <1>6 DEF ProgressTags
<1>9. Validate(a, 0, n, cursor, m) =
        CASE a.tag = "Complete" /\ a.read # n -> "CompleteWithRemainingInput"
          [] a.tag = "NeedInput" /\ a.required <= n - a.read -> "SatisfiedNeed"
          [] a.tag = "NeedOutput" /\ a.required <= m - a.written -> "SatisfiedNeed"
          [] OTHER -> "none"
  BY <1>7 DEF Validate
<1>10. /\ ~(a.tag = "Complete" /\ a.read # n)
       /\ ~(a.tag = "NeedInput" /\ a.required <= n - a.read)
       /\ ~(a.tag = "NeedOutput" /\ a.required <= m - a.written)
  <2>1. a.tag = "NeedInput" => ~(a.required <= n - a.read)
    BY <1>1, <1>4
  <2> QED BY <1>1, <1>6, <2>1
<1> QED BY <1>5, <1>8, <1>9, <1>10 DEF np

LEMMA ValidatedFacts ==
    ASSUME NEW a, NEW n, NEW cursor, NEW m, Validate(a, 0, n, cursor, m) = "none"
    PROVE  ~(a.written > m)
  BY DEF Validate

\* What the step makes of a report.
LEMMA OutcomeFacts ==
    ASSUME NEW a, a.tag \in ProgressTags, overrides \in BOOLEAN,
           NEW failure, failure = IF TranscodeEof(a) # "none" THEN TranscodeEof(a)
                                  ELSE CompleteProgress(a)
    PROVE  /\ failure # "Ok"
           /\ failure = "none" =>
                 Validate(a, 0, call.input, call.cursor, Available) = "none"
           /\ (/\ Validate(a, 0, call.input, call.cursor, Available) = "none"
               /\ a.tag \in {"Complete", "NeedInput"}) =>
                 failure \in {"none", "IncompleteInput"}
<1> DEFINE v == Validate(a, 0, call.input, call.cursor, Available)
<1>1. TranscodeEof(a) \in {"none", "InvalidProgress", "IncompleteInput"}
  BY DEF TranscodeEof
<1>2. v = "none" => TranscodeEof(a) \in {"none", "IncompleteInput"}
  BY DEF TranscodeEof
<1>3. CompleteProgress(a) \in {"none", "Panic", "InsufficientOutput", "IncompleteInput"}
      /\ (CompleteProgress(a) = "none" => v = "none")
      /\ (v = "none" /\ a.tag \in {"Complete", "NeedInput"} =>
            CompleteProgress(a) \in {"none", "IncompleteInput"})
  <2>1. CASE v # "none"
    BY <2>1 DEF CompleteProgress
  <2>2. CASE v = "none"
    <3>1. CompleteProgress(a) = CASE a.tag = "Complete" -> "none"
                                  [] a.tag = "NeedOutput" -> "InsufficientOutput"
                                  [] a.tag = "NeedInput" -> "IncompleteInput"
      BY <2>2 DEF CompleteProgress
    <3>2. CASE a.tag = "Complete"
      BY <2>2, <3>1, <3>2
    <3>3. CASE a.tag = "NeedOutput"
      BY <2>2, <3>1, <3>3
    <3>4. CASE a.tag = "NeedInput"
      BY <2>2, <3>1, <3>4
    <3> QED BY <3>2, <3>3, <3>4 DEF ProgressTags
  <2> QED BY <2>1, <2>2
<1> QED BY <1>1, <1>2, <1>3

LEMMA TranscodeStepIInv == ASSUME IInv, TranscodeStep PROVE IInv'
<1>1. call.pc = "transcode"
  BY DEF TranscodeStep
<1>2. /\ call # NoCall /\ call \in Calls
      /\ call.input \in Nat /\ call.output \in Nat /\ call.reset \in Nat
      /\ call.finish \in Nat /\ call.cursor \in Nat /\ call.made \in Nat
      /\ st = "open" /\ ~stale /\ held = 0
      /\ Available \in Nat /\ call.cursor + Available = call.output
      /\ faulty \in BOOLEAN /\ overrides \in BOOLEAN /\ held \in 0..MaxHeld
  BY <1>1, Running, Parts DEF KeepOK
<1> DEFINE p == call.input * PerUnit
<1>3. p \in Nat
  BY <1>2, Bounds, CheckedMulFacts
<1>4. ~faulty =>
        /\ call.input <= UsizeMax
        /\ MaxReset + (MaxHeld + p) + (MaxHeld + MaxTrailer) <= UsizeMax
        /\ MaxReset + (MaxHeld + p) + (MaxHeld + MaxTrailer) <= call.output
        /\ call.cursor <= MaxReset /\ call.made = call.cursor
  BY <1>1, <1>2, PlanFacts
<1>5. ~faulty => p <= Available /\ call.cursor + p <= UsizeMax
  <2> HIDE DEF p
  <2> QED BY <1>2, <1>3, <1>4, Bounds
<1>6. CASE Fails(IF st = "open" THEN "TranscodeError" ELSE "Refused")
  <2>1. Fails("TranscodeError")
    BY <1>2, <1>6
  <2> QED BY <2>1, FailsIInv DEF CapacityFailures
<1>7. ASSUME NEW a \in Answers(call.input, Available),
             NEW failure, failure = IF TranscodeEof(a) # "none" THEN TranscodeEof(a)
                                    ELSE CompleteProgress(a),
             \/ failure # "none" /\ Fails(failure)
             \/ /\ failure = "none"
                /\ held' = a.kept
                /\ call' = [call EXCEPT !.pc = "finish",
                               !.cursor = @ + a.written,
                               !.made = @ + a.written + a.kept - held]
                /\ UNCHANGED <<st, stale, ret, otherVars>>
      PROVE  IInv'
  <2>1. /\ a.tag \in ProgressTags /\ a.required \in Nat
        /\ a.read \in Nat /\ a.written \in Nat /\ a.kept \in 0..MaxHeld
        /\ ~faulty => a \in Honest(call.input, Available)
    BY <1>2, AnswerFacts
  <2>2. ~faulty => /\ Validate(a, 0, call.input, call.cursor, Available) = "none"
                   /\ a.tag \in {"Complete", "NeedInput"}
                   /\ a.written + a.kept <= p
    BY <1>2, <1>4, <1>5, <2>1, HonestPasses
  <2>3. /\ failure # "Ok"
        /\ failure = "none" => Validate(a, 0, call.input, call.cursor, Available) = "none"
        /\ ~faulty => failure \in {"none", "IncompleteInput"}
    BY <1>2, <1>7, <2>1, <2>2, OutcomeFacts
  <2>4. CASE failure # "none" /\ Fails(failure)
    BY <2>3, <2>4, FailsIInv DEF CapacityFailures
  <2>5. CASE /\ failure = "none"
             /\ held' = a.kept
             /\ call' = [call EXCEPT !.pc = "finish",
                            !.cursor = @ + a.written,
                            !.made = @ + a.written + a.kept - held]
             /\ UNCHANGED <<st, stale, ret, otherVars>>
    <3>1. a.written <= Available /\ a.kept \in Nat /\ a.kept <= MaxHeld
      BY <1>2, <2>1, <2>3, <2>5, ValidatedFacts, Bounds
    <3>2. /\ call.cursor + a.written \in Nat /\ call.cursor + a.written <= call.output
          /\ call.made + a.written + a.kept - held = call.made + a.written + a.kept
          /\ call.made + a.written + a.kept \in Nat
      BY <1>2, <2>1, <3>1
    <3>3. /\ call' \in Calls /\ call'.pc = "finish"
          /\ call'.cursor = call.cursor + a.written
          /\ call'.made = call.made + a.written + a.kept
          /\ call'.input = call.input /\ call'.output = call.output
          /\ call'.reset = call.reset /\ call'.finish = call.finish
      BY <1>2, <2>5, <3>2 DEF Calls
    <3>4. CallOnFreshStream'
      BY <1>2, <2>5, <3>2, <3>3 DEF CallOnFreshStream
    <3>5. faulty' = faulty
      BY <2>5, Parts, OthersKept
    <3>6. ~faulty => /\ call'.made = call'.cursor + held'
                     /\ call'.cursor + (MaxHeld + MaxTrailer) <= call'.output
      <4> HIDE DEF p
      <4>1. ~faulty => call.made + a.written + a.kept = (call.cursor + a.written) + a.kept
        BY <1>2, <1>4, <2>1, <3>1
      <4>2. ~faulty => (call.cursor + a.written) + (MaxHeld + MaxTrailer) <= call.output
        BY <1>2, <1>3, <1>4, <2>1, <2>2, <3>1, Bounds
      <4> QED BY <2>5, <3>3, <4>1, <4>2
    <3>7. PlanHolds'
      BY <1>2, <3>3, <3>5, <3>6, Parts DEF PlanHolds
    <3> QED BY <2>1, <2>5, <3>4, <3>7, GoesOnIInv
  <2> QED BY <1>7, <2>4, <2>5
<1> QED BY <1>6, <1>7 DEF TranscodeStep

----------------------------------------------------------------------------
(* The finish phase.                                                       *)

LEMMA FinishStepIInv == ASSUME IInv, FinishStep PROVE IInv'
<1>1. call.pc = "finish"
  BY DEF FinishStep
<1>2. /\ call # NoCall
      /\ call.input \in Nat /\ call.output \in Nat
      /\ call.finish \in Nat /\ call.cursor \in Nat /\ call.made \in Nat
      /\ st = "open" /\ ~stale
      /\ Available \in Nat /\ call.cursor + Available = call.output
      /\ faulty \in BOOLEAN /\ held \in Nat /\ held <= MaxHeld
  BY <1>1, Running
<1>3. ~faulty => /\ call.finish = MaxHeld + MaxTrailer
                 /\ call.made = call.cursor + held
                 /\ call.cursor + (MaxHeld + MaxTrailer) <= call.output
  BY <1>1, <1>2, PlanFacts
<1>4. CASE Fails(IF st = "open" THEN "FinishError" ELSE "Refused")
  <2>1. Fails("FinishError")
    BY <1>2, <1>4
  <2> QED BY <2>1, FailsIInv DEF CapacityFailures
<1>5. ASSUME NEW n \in WriteCounts(MaxFinishOutputLen),
             faulty \/ n \in held..(held + MaxTrailer)
      PROVE  n \in Nat /\ (~faulty => ~(n > call.finish \/ n > Available))
  <2>1. MaxFinishOutputLen \in Nat
    BY Bounds, CheckedAddFacts DEF MaxFinishOutputLen
  <2>2. n \in Nat
    BY <2>1 DEF WriteCounts
  <2>3. ~faulty => n <= MaxHeld + MaxTrailer
    BY <1>2, <1>5, <2>2, Bounds
  <2> QED BY <1>2, <1>3, <2>2, <2>3, Bounds
<1>6. ASSUME NEW n \in WriteCounts(MaxFinishOutputLen),
             faulty \/ n \in held..(held + MaxTrailer),
             n > call.finish \/ n > Available, Fails("Panic")
      PROVE  IInv'
  <2>1. faulty
    BY <1>2, <1>5, <1>6
  <2> QED BY <1>6, <2>1, FailsIInv
<1>7. ASSUME NEW n \in WriteCounts(MaxFinishOutputLen),
             faulty \/ n \in held..(held + MaxTrailer),
             n <= call.finish, n <= Available,
             ret' = [op |-> "complete", res |-> "Ok",
                     n |-> call.cursor + n, made |-> call.made + n - held,
                     output |-> call.output, stale |-> stale],
             call' = NoCall, held' = 0, UNCHANGED otherVars
      PROVE  IInv'
  <2>1. n \in Nat
    BY <1>5, <1>7
  <2>2. /\ ret'.op = "complete" /\ ret'.res = "Ok" /\ ret'.n = call.cursor + n
        /\ ret'.made = call.made + n - held /\ ret'.output = call.output
        /\ ret'.stale = stale
    BY <1>7
  <2>3. call.cursor + n <= call.output
    BY <1>2, <1>7, <2>1
  <2>4. ~faulty => call.cursor + n = call.made + n - held
    BY <1>2, <1>3, <2>1
  <2>5. KeepOK' /\ faulty' = faulty
    BY <1>7, Parts, OthersKept
  <2>6. CompleteStreamIsWhole'
    BY <1>2, <2>2, <2>3, <2>4, <2>5 DEF CompleteStreamIsWhole
  <2>7. ValueIsWhole'
    BY <2>2, NotAboutValues
  <2>8. held' \in 0..MaxHeld
    BY <1>7, Bounds
  <2> QED BY <1>7, <2>5, <2>6, <2>7, <2>8, NoCallRuns, FromParts
<1> QED BY <1>4, <1>6, <1>7 DEF FinishStep

----------------------------------------------------------------------------
(* The value codecs.                                                       *)

\* A call of a codec leaves the transcoder alone.
LEMMA ValueKeepsTranscoder ==
    ASSUME IInv, UNCHANGED <<side, overrides, transcoderVars, call>>, faulty' = faulty,
           emits' = emits
    PROVE  held' \in 0..MaxHeld /\ CallOnFreshStream' /\ PlanHolds'
<1>1. UNCHANGED <<st, held, stale, call>>
  BY DEF transcoderVars
<1> QED BY <1>1, Parts DEF CallOnFreshStream, PlanHolds

LEMMA EncodeIntoIInv ==
    ASSUME IInv, EncodeInto, UNCHANGED <<side, overrides, transcoderVars, call, faulty, emits>>
    PROVE  IInv'
<1> USE Parts
<1>1. held' \in 0..MaxHeld /\ CallOnFreshStream' /\ PlanHolds'
  BY ValueKeepsTranscoder
<1> DEFINE units == Encode!MaxCompleteEncodeUnits
<1>2. /\ vec' \in Nat /\ told' \in Nat /\ ret'.op = "encode"
      /\ ~faulty => vec' = told'
  <2>1. vec \in Nat /\ told \in Nat /\ (~faulty => vec = told)
    BY DEF KeepOK
  <2>2. CASE /\ \E res \in EncodeRefused(vec) : ret' = [op |-> "encode", res |-> res]
             /\ UNCHANGED <<vec, told>>
    BY <2>1, <2>2
  <2>3. ASSUME NEW v \in Encode!EncodeComplete(units, units),
               vec' = Truncated(vec, units, v), told' = told + v.n,
               ret' = [op |-> "encode", res |-> v.res]
        PROVE  /\ vec' \in Nat /\ told' \in Nat /\ ret'.op = "encode"
               /\ ~faulty => vec' = told'
    <3>1. units \in Nat
      BY UnitsNat
    <3>2. /\ v.n \in Nat
          /\ v.res # "Ok" => v.n = 0
          /\ v.res = "Panic" => faulty
      BY <2>3, <3>1, EncodeCompleteFacts
    <3> HIDE DEF units
    <3>3. CASE v.res = "Ok"
      <4>1. vec' = vec + v.n
        BY <2>3, <3>3 DEF Truncated
      <4> QED BY <2>1, <2>3, <3>2, <4>1
    <3>4. CASE v.res = "Panic"
      <4>1. vec' = vec + units
        BY <2>3, <3>4 DEF Truncated
      <4> QED BY <2>1, <2>3, <3>1, <3>2, <3>4, <4>1
    <3>5. CASE v.res \notin {"Ok", "Panic"}
      <4>1. vec' = vec
        BY <2>3, <3>5 DEF Truncated
      <4> QED BY <2>1, <2>3, <3>2, <3>5, <4>1
    <3> QED BY <3>3, <3>4, <3>5
  <2> QED BY <2>2, <2>3 DEF EncodeInto
<1>3. KeepOK'
  BY <1>2 DEF KeepOK
<1>4. CompleteStreamIsWhole' /\ ValueIsWhole'
  BY <1>2 DEF CompleteStreamIsWhole, ValueIsWhole, DecodeCalls, KeepOK
<1> QED BY <1>1, <1>3, <1>4, FromParts

LEMMA NewVectorIInv ==
    ASSUME IInv, NewVector, UNCHANGED <<side, overrides, transcoderVars, call, faulty, emits>>
    PROVE  IInv'
<1> USE Parts
<1>1. held' \in 0..MaxHeld /\ CallOnFreshStream' /\ PlanHolds'
  BY ValueKeepsTranscoder
<1>2. vec' = 0 /\ told' = 0 /\ ret' = ret
  BY DEF NewVector
<1>3. KeepOK'
  BY <1>2 DEF KeepOK
<1>4. CompleteStreamIsWhole'
  BY <1>2 DEF CompleteStreamIsWhole
<1>5. ValueIsWhole'
  BY <1>2 DEF ValueIsWhole
<1> QED BY <1>1, <1>3, <1>4, <1>5, FromParts

LEMMA DecodeIInv ==
    ASSUME IInv, NEW op \in DecodeCalls, NEW len \in Nat, NEW width \in MinUnits..MaxUnits,
           NEW room, Decode(op, len, width, room),
           UNCHANGED <<side, overrides, transcoderVars, call, faulty, emits>>
    PROVE  IInv'
<1> USE Parts
<1>1. held' \in 0..MaxHeld /\ CallOnFreshStream' /\ PlanHolds'
  BY ValueKeepsTranscoder
<1>2. vec' = vec /\ told' = told /\ faulty \in BOOLEAN
  BY DEF Decode, KeepOK
<1>3. KeepOK'
  BY <1>2 DEF KeepOK
<1>4. PICK d : /\ DecodeReturns(op, len, width, d)
               /\ d.res = "Ok" => d.read = len
               /\ (~faulty /\ d.res = "Ok") => width = len
               /\ (~faulty /\ width = len) =>
                     d.res \notin {"Panic", "TrailingInput", "IncompleteInput"}
  <2>1. ASSUME NEW res \in DecodeRefused(op, room),
               DecodeReturns(op, len, width, Decoded(res, 0))
        PROVE  \E d : /\ DecodeReturns(op, len, width, d)
                      /\ d.res = "Ok" => d.read = len
                      /\ (~faulty /\ d.res = "Ok") => width = len
                      /\ (~faulty /\ width = len) =>
                            d.res \notin {"Panic", "TrailingInput", "IncompleteInput"}
    <3>1. res \in {"UnsupportedDecodeLifecycleOutput", "InsufficientOutput",
                   "AllocationFailed"}
      BY <2>1 DEF DecodeRefused
    <3>2. Decoded(res, 0).res = res
      BY DEF Decoded
    <3> WITNESS Decoded(res, 0)
    <3> QED BY <2>1, <3>1, <3>2
  <2>2. ASSUME NEW d \in DecodeExact(len, width), DecodeReturns(op, len, width, d)
        PROVE  \E e : /\ DecodeReturns(op, len, width, e)
                      /\ e.res = "Ok" => e.read = len
                      /\ (~faulty /\ e.res = "Ok") => width = len
                      /\ (~faulty /\ width = len) =>
                            e.res \notin {"Panic", "TrailingInput", "IncompleteInput"}
    BY <1>2, <2>2, DecodeExactFacts
  <2> QED BY <2>1, <2>2 DEF Decode
<1>5. /\ ret'.op = op /\ ret'.res = d.res /\ ret'.read = d.read /\ ret'.len = len
      /\ ret'.width = width
  BY <1>4 DEF DecodeReturns
<1>6. op # "encode" /\ op # "complete"
  BY DEF DecodeCalls
<1>7. CompleteStreamIsWhole'
  BY <1>5, <1>6 DEF CompleteStreamIsWhole
<1>8. ValueIsWhole'
  BY <1>4, <1>5, <1>6 DEF ValueIsWhole
<1> QED BY <1>1, <1>3, <1>7, <1>8, FromParts

LEMMA ValueCallIInv == ASSUME IInv, ValueCall PROVE IInv'
<1>1. ValueNext /\ UNCHANGED <<side, overrides, transcoderVars, call, faulty, emits>>
  BY DEF ValueCall, ValueNext
<1>2. CASE EncodeInto
  BY <1>1, <1>2, EncodeIntoIInv
<1>3. CASE NewVector
  BY <1>1, <1>3, NewVectorIInv
<1>4. ASSUME NEW op \in DecodeCalls, NEW len \in 0..MaxInput, NEW width \in MinUnits..MaxUnits,
             NEW room \in {0, 1}, Decode(op, len, width, room)
      PROVE  IInv'
  <2>1. len \in Nat
    BY Bounds
  <2> QED BY <1>1, <1>4, <2>1, DecodeIInv
<1> QED BY <1>1, <1>2, <1>3, <1>4 DEF ValueNext

----------------------------------------------------------------------------
LEMMA NextIInv == IInv /\ [Next]_vars => IInv'
<1> SUFFICES ASSUME IInv, [Next]_vars PROVE IInv'
  OBVIOUS
<1>1. CASE UNCHANGED vars
  <2>1. UNCHANGED <<faulty, emits, vec, told, ret, side, overrides, st, held, stale, call>>
    BY <1>1 DEF vars, otherVars, valueVars, transcoderVars
  <2> QED BY <2>1 DEF IInv, CallOnFreshStream, PlanHolds, CompleteStreamIsWhole, ValueIsWhole
<1>2. ASSUME NEW n \in 0..MaxInput, NEW m \in 0..MaxOutput, Begin(n, m) PROVE IInv'
  <2>1. n \in Nat /\ m \in Nat
    BY Bounds
  <2> QED BY <1>2, <2>1, BeginIInv
<1> QED BY <1>1, <1>2, ResetStepIInv, TranscodeStepIInv, FinishStepIInv, AbandonIInv,
           ValueCallIInv DEF Next

\* The invariant holds of every sequence of one-shot calls (transcoder.rs,
\* codec_value_encoder.rs, codec_value_decoder.rs), whatever bounds the
\* transcoder or codec has and whether it keeps them or not.
THEOREM InductiveInvariant == Spec => []IInv
  BY InitIInv, NextIInv, PTL DEF Spec

\* A successful transcode_complete_into has written one whole stream and
\* nothing else; one whose output passed the check of the planned bounds runs
\* out of no room, and the count it returns lies in the output even when the
\* transcoder lies about its bounds.
THEOREM CompleteStream == Spec => []CompleteStreamIsWhole
<1>1. IInv => CompleteStreamIsWhole
  BY DEF IInv
<1> QED BY <1>1, InductiveInvariant, PTL

\* The caller's vector is its successful encodings and nothing else, and a
\* decode succeeds exactly on one value (encode_into, decode,
\* decode_lifecycle and decode_lifecycle_with_scratch).
THEOREM WholeValues == Spec => []ValueIsWhole
<1>1. IInv => ValueIsWhole
  BY DEF IInv
<1> QED BY <1>1, InductiveInvariant, PTL

=============================================================================
