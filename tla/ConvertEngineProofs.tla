------------------------- MODULE ConvertEngineProofs -------------------------
(* Theorems about ConvertEngine, for every stream, every pair of codecs,   *)
(* every unit bound and every set of windows.                              *)
EXTENDS ConvertEngineProps, TLAPS

----------------------------------------------------------------------------
(* One decode attempt.                                                     *)

\* What apply_incomplete_decode makes of a non-empty tail.
LEMMA ApplyIncompleteFacts ==
    ASSUME NEW t \in Actions, NEW avail \in Nat \ {0}
    PROVE  LET o == ApplyIncomplete(t, avail)
           IN  /\ o.kind \in {"Emitted", "Skipped", "Error"}
               /\ o.n \in Nat
               /\ o.kind = "Emitted" => o.n \in 1..avail /\ o.sub = "tail"
               /\ o.kind = "Skipped" => o.n \in 1..avail
  BY DEF ApplyIncomplete, Actions, Outcome

\* decode_one on avail > 0 visible units consumes between one and avail of
\* them, asks for more than it sees only while more may come, and trips an
\* assertion only when codec or hooks are faulty.
LEMMA DecodeOneFacts ==
    ASSUME NEW item \in Items, NEW t \in Actions, NEW avail \in Nat \ {0},
           NEW e \in BOOLEAN, NEW o \in DecodeOne(item, t, avail, e)
    PROVE  /\ o.kind \in OutcomeKinds
           /\ o.n \in Nat
           /\ o.kind = "Emitted" => /\ o.n \in 1..avail
                                    /\ o.sub \in {"value", "replacement", "tail"}
           /\ o.kind = "Skipped" => o.n \in 1..avail
           /\ o.kind = "NeedInput" => o.n > avail /\ o.n <= MaxUnits /\ ~e
           /\ o.kind = "Panic" => faulty
<1> USE ConvertEngineAssumption
<1>1. CASE avail < MinUnits
  <2>1. CASE e
    BY <1>1, <2>1, ApplyIncompleteFacts DEF DecodeOne, OutcomeKinds
  <2>2. CASE ~e
    BY <1>1, <2>2 DEF DecodeOne, Outcome, OutcomeKinds
  <2> QED BY <2>1, <2>2
<1>2. CASE ~(avail < MinUnits)
  <2> DEFINE answers == CodecDecode(item, avail, e)
  <2>0. /\ item.width \in MinUnits..MaxUnits
        /\ item.consumed \in 1..MaxUnits
        /\ item.consumed <= item.width
        /\ item.action \in Actions
        /\ item.kind \in {"value", "munch", "invalid"}
    BY DEF ItemType
  <2>1. \A a \in answers : a.n \in Nat \ {0} /\ a.res \in {"Ok", "Incomplete", "Invalid"}
    BY <1>2, <2>0 DEF CodecDecode, HonestDecode, Answer
  <2>2. ~faulty => \A a \in answers :
                      /\ a.res = "Ok" => a.n <= avail /\ a.n <= MaxUnits
                      /\ a.res = "Incomplete" => a.n > avail /\ a.n <= MaxUnits
                      /\ a.res = "Invalid" => item.width <= avail
    BY <1>2, <2>0 DEF CodecDecode, HonestDecode, Answer
  <2>3. \/ \E a \in answers : a.res = "Ok" /\ o = ApplyOk(a.n, avail)
        \/ \E a \in answers : /\ a.res = "Incomplete"
                              /\ o = ApplyIncompleteAnswer(a.n, t, avail, e)
        \/ \E a \in answers : /\ a.res = "Invalid"
                              /\ \E n \in HookConsumed(item) :
                                    o = ApplyInvalid(item, n, avail)
    BY <1>2 DEF DecodeOne
  <2> HIDE DEF answers
  <2>4. CASE \E a \in answers : a.res = "Ok" /\ o = ApplyOk(a.n, avail)
    BY <2>1, <2>2, <2>4 DEF ApplyOk, Outcome, OutcomeKinds
  <2>5. CASE \E a \in answers : /\ a.res = "Incomplete"
                                /\ o = ApplyIncompleteAnswer(a.n, t, avail, e)
    <3> PICK a \in answers : /\ a.res = "Incomplete"
                             /\ o = ApplyIncompleteAnswer(a.n, t, avail, e)
      BY <2>5
    <3>1. CASE a.n <= avail \/ a.n > MaxUnits
      BY <2>1, <2>2, <3>1 DEF ApplyIncompleteAnswer, Outcome, OutcomeKinds
    <3>2. CASE ~(a.n <= avail \/ a.n > MaxUnits) /\ ~e
      BY <2>1, <3>2 DEF ApplyIncompleteAnswer, Outcome, OutcomeKinds
    <3>3. CASE ~(a.n <= avail \/ a.n > MaxUnits) /\ e
      BY <2>1, <3>3, ApplyIncompleteFacts DEF ApplyIncompleteAnswer, OutcomeKinds
    <3> QED BY <3>1, <3>2, <3>3
  <2>6. CASE \E a \in answers : /\ a.res = "Invalid"
                                /\ \E n \in HookConsumed(item) :
                                      o = ApplyInvalid(item, n, avail)
    <3>1. PICK a \in answers, n \in HookConsumed(item) :
             a.res = "Invalid" /\ o = ApplyInvalid(item, n, avail)
      BY <2>6
    <3>2. n \in Nat \ {0} /\ (~faulty => n <= avail)
      BY <2>0, <2>2, <3>1 DEF HookConsumed
    <3>3. CASE item.action = "Reject"
      BY <3>1, <3>3 DEF ApplyInvalid, Outcome, OutcomeKinds
    <3>4. CASE item.action # "Reject" /\ n > avail
      BY <3>1, <3>2, <3>4 DEF ApplyInvalid, Outcome, OutcomeKinds
    <3>5. CASE item.action = "Skip" /\ ~(n > avail)
      BY <3>1, <3>2, <3>5 DEF ApplyInvalid, Outcome, OutcomeKinds
    <3>6. CASE item.action = "Emit" /\ ~(n > avail)
      BY <3>1, <3>2, <3>6 DEF ApplyInvalid, Outcome, OutcomeKinds
    <3> QED BY <2>0, <3>3, <3>4, <3>5, <3>6 DEF Actions
  <2> QED BY <2>3, <2>4, <2>5, <2>6
<1> QED BY <1>1, <1>2

\* What decode_one makes of the units it sees is what ConvertStream makes of
\* the whole rest of the stream, or a request for more.
LEMMA DecodeOneIsWhole ==
    ASSUME ~faulty, NEW item \in Items, tail \in Actions,
           NEW avail \in Nat \ {0}, NEW rest \in Nat, avail <= rest,
           NEW e \in BOOLEAN, e => avail = rest,
           NEW o \in DecodeOne(item, tail, avail, e)
    PROVE  /\ o.kind = "Emitted" => /\ Abstract!Whole(item, rest).act = "Emit"
                                    /\ Abstract!Whole(item, rest).n = o.n
                                    /\ Abstract!Whole(item, rest).sub = o.sub
           /\ o.kind = "Skipped" => /\ Abstract!Whole(item, rest).act = "Skip"
                                    /\ Abstract!Whole(item, rest).n = o.n
           /\ o.kind = "Error" => Abstract!Whole(item, rest).act = "Reject"
<1> USE ConvertEngineAssumption DEF Outcome, Actions
<1>0. /\ item.width \in MinUnits..MaxUnits
      /\ item.consumed \in 1..MaxUnits /\ item.consumed <= item.width
      /\ item.action \in Actions
      /\ item.kind \in {"value", "munch", "invalid"}
  BY DEF ItemType
<1>1. CASE avail < MinUnits /\ e
  <2>1. o = ApplyIncomplete(tail, rest)
    BY <1>1 DEF DecodeOne
  <2> QED BY <1>1, <2>1 DEF ApplyIncomplete, Abstract!Whole
<1>2. CASE avail < MinUnits /\ ~e
  BY <1>2 DEF DecodeOne
<1>3. CASE ~(avail < MinUnits)
  <2>1. PICK a \in HonestDecode(item, avail, e) :
          \/ a.res = "Ok" /\ o = ApplyOk(a.n, avail)
          \/ a.res = "Incomplete" /\ o = ApplyIncompleteAnswer(a.n, tail, avail, e)
          \/ a.res = "Invalid" /\ o = ApplyInvalid(item, item.consumed, avail)
    BY <1>3 DEF DecodeOne, CodecDecode, HookConsumed
  <2>2. CASE item.width <= avail /\ item.kind # "invalid"
    <3>1. a.res = "Ok" /\ a.n = item.width
      BY <2>2 DEF HonestDecode, Answer
    <3>2. o = ApplyOk(item.width, avail)
      BY <2>1, <3>1
    <3> QED BY <1>0, <1>3, <2>2, <3>2 DEF ApplyOk, Abstract!Whole
  <2>3. CASE item.width <= avail /\ item.kind = "invalid"
    <3>1. a.res = "Invalid"
      BY <2>3 DEF HonestDecode, Answer
    <3>2. o = ApplyInvalid(item, item.consumed, avail)
      BY <2>1, <3>1
    <3> QED BY <1>0, <1>3, <2>3, <3>2 DEF ApplyInvalid, Abstract!Whole
  <2>4. CASE ~(item.width <= avail) /\ e /\ item.kind = "munch"
    <3>1. a.res = "Ok" /\ a.n = avail
      BY <2>4 DEF HonestDecode, Answer
    <3>2. o = ApplyOk(avail, avail)
      BY <2>1, <3>1
    <3> QED BY <1>0, <1>3, <2>4, <3>2 DEF ApplyOk, Abstract!Whole
  <2>5. CASE ~(item.width <= avail) /\ ~(e /\ item.kind = "munch")
    <3>1. a.res = "Incomplete" /\ a.n \in (avail + 1)..item.width
      BY <2>5 DEF HonestDecode, Answer
    <3>2. o = IF ~e THEN Outcome("NeedInput", a.n, "item") ELSE ApplyIncomplete(tail, avail)
      BY <1>0, <2>1, <3>1 DEF ApplyIncompleteAnswer
    <3>3. CASE ~e
      BY <3>2, <3>3
    <3>4. CASE e
      <4>1. o = ApplyIncomplete(tail, rest) /\ item.width > rest /\ ~(rest < MinUnits)
        BY <1>0, <1>3, <2>5, <3>2, <3>4
      <4> QED BY <2>5, <3>4, <4>1 DEF ApplyIncomplete, Abstract!Whole
    <3> QED BY <3>3, <3>4
  <2> QED BY <2>2, <2>3, <2>4, <2>5
<1> QED BY <1>1, <1>2, <1>3

----------------------------------------------------------------------------
(* One encode attempt.                                                     *)

\* The tail shared by values and replacements, whatever counts the codec
\* answers: it writes what it asked for and what there is room for.
LEMMA EncodeEncodableFacts ==
    ASSUME NEW t \in TargetType, NEW avail \in Nat,
           NEW o \in EncodeEncodable(t, avail)
    PROVE  /\ o.kind \in EncodeOutcomeKinds
           /\ o.n \in Nat
           /\ o.kind = "Consumed" => /\ o.n <= avail /\ o.n <= MaxEncode
                                     /\ t.kind # "fails"
                                     /\ Lies(t) \/ o.n = t.len
           /\ o.kind = "NeedOutput" => o.n > avail /\ o.n <= MaxEncode
           /\ o.kind = "Error" => Lies(t) \/ t.kind = "fails"
           /\ o.kind = "Panic" => Lies(t)
<1> USE EncodeStepAssumption
<1>1. t.len \in 0..MaxEncode /\ MaxEncode \in Nat
  BY DEF TargetType
<1>2. CASE o = EncodeOutcome("Error", 0) /\ Lies(t)
  BY <1>2 DEF EncodeOutcome, EncodeOutcomeKinds
<1>3. CASE \E a \in EncodeAnswers(t) : o = EncodeSized(t, avail, a[1], a[2])
  <2>1. PICK a \in EncodeAnswers(t) : o = EncodeSized(t, avail, a[1], a[2])
    BY <1>3
  <2>2. /\ a[1] \in Nat /\ a[2] \in Nat
        /\ ~Lies(t) => a[1] = t.len /\ a[2] = t.len
    BY <1>1, <2>1 DEF EncodeAnswers
  <2> QED BY <1>1, <2>1, <2>2 DEF EncodeSized, EncodeOutcome, EncodeOutcomeKinds
<1> QED BY <1>2, <1>3 DEF EncodeEncodable

\* encode_one writes no more than there is room for, asks for more than there
\* is but never more than the widest encoding, and trips an assertion only when codec or hooks lie.
LEMMA EncodeOneFacts ==
    ASSUME NEW t \in TargetType, NEW avail \in Nat,
           NEW o \in EncodeOne(t, avail)
    PROVE  /\ o.kind \in EncodeOutcomeKinds
           /\ o.n \in Nat
           /\ o.kind = "Consumed" => /\ o.n <= avail /\ o.n <= MaxEncode
                                     /\ o.n \in Abstract!Widths(t)
           /\ o.kind = "NeedOutput" => o.n > avail /\ o.n <= MaxEncode
           /\ o.kind = "Error" => Abstract!Unencodable(t)
           /\ o.kind = "Panic" => Lies(t)
<1> USE EncodeStepAssumption
<1>1. /\ t.kind \in {"ok", "fails", "lies", "unencodable"}
      /\ t.action \in {"Reject", "Skip", "Replace", "Misreplace"}
      /\ t.len \in 0..MaxEncode /\ MaxEncode \in Nat
  BY DEF TargetType
<1>2. CASE t.kind # "unencodable"
  <2>1. o \in EncodeEncodable(t, avail)
    BY <1>2 DEF EncodeOne, AsksHook
  <2> QED
    BY <1>1, <1>2, <2>1, EncodeEncodableFacts
       DEF AsksHook, Lies, Abstract!Widths, Abstract!Unencodable, Abstract!Lies
<1>3. CASE t.kind = "unencodable" /\ ~AsksHook(t, avail)
  BY <1>1, <1>3 DEF EncodeOne, AsksHook, UnencodableRoom, EncodeOutcome, EncodeOutcomeKinds
<1>4. CASE t.kind = "unencodable" /\ AsksHook(t, avail)
  <2>1. o \in ApplyUnencodable(t, avail) /\ avail >= MaxEncode
    BY <1>4 DEF EncodeOne, AsksHook, UnencodableRoom
  <2>2. CASE t.action \in {"Reject", "Skip"}
    BY <1>1, <1>4, <2>1, <2>2
       DEF ApplyUnencodable, EncodeOutcome, EncodeOutcomeKinds, Lies,
           Abstract!Widths, Abstract!Unencodable, Abstract!Lies
  <2>3. CASE o = EncodeOutcome("Panic", 0) /\ t.action = "Misreplace"
    BY <1>1, <1>4, <2>3 DEF EncodeOutcome, EncodeOutcomeKinds, Lies
  <2>4. CASE /\ o \in EncodeEncodable(t, avail)
             /\ t.action \in {"Replace", "Misreplace"}
    BY <1>1, <1>4, <2>1, <2>4, EncodeEncodableFacts
       DEF Lies, Abstract!Widths, Abstract!Unencodable, Abstract!Lies
  <2> QED BY <1>1, <2>1, <2>2, <2>3, <2>4 DEF ApplyUnencodable
<1> QED BY <1>2, <1>3, <1>4

----------------------------------------------------------------------------
(* What the steps share.                                                   *)

\* Every return is a tag with three numbers.
LEMMA ReturnType ==
    /\ \A tag \in Tags : Return(tag) \in Returns /\ Return(tag).tag = tag
    /\ \A tag \in Tags, k \in Nat : Wrote(tag, k) \in Returns /\ Wrote(tag, k).tag = tag
    /\ \A tag \in Tags, i \in Nat, j \in Nat, k \in Nat :
          Progress(tag, i, j, k) \in Returns /\ Progress(tag, i, j, k).tag = tag
  BY DEF Return, Wrote, Progress, Returns

\* The failures a preflight check names are tags of a return, and no panic.
LEMMA FailureTagFacts ==
    /\ \A p \in Phases : /\ OnTranscodeFailure(p) \in Tags \ {"Panic"}
                         /\ OnFinishFailure(p) \in Tags \ {"Panic"}
    /\ \A a, b, c, d : IndexFailure(a, b, c, d) \in Tags \ {"Panic"}
    /\ \A a, b, c : /\ CapacityFailure(a, b, c) \in Tags \ {"Panic"}
                    /\ PlannedCapacityFailure(a, b, c) \in Tags \ {"Panic"}
  BY DEF OnTranscodeFailure, OnFinishFailure, IndexFailure, CapacityFailure,
         PlannedCapacityFailure, Phases, Tags, LifecycleFailures, IndexFailures,
         CapacityFailures

\* The types of a state, its cursors as numbers.
LEMMA Types ==
    ASSUME IInv
    PROVE  /\ faulty \in BOOLEAN /\ failed \in BOOLEAN /\ eof \in BOOLEAN
           /\ phase \in Phases /\ dPhase \in Phases /\ ePhase \in Phases
           /\ stream \in [1..StreamLen -> Items]
           /\ tail \in Tails /\ tail \in Actions
           /\ target \in [0..(StreamLen - 1) -> Targets]
           /\ mark \in MarkTargets /\ mark \in TargetType
           /\ visible \in Nat /\ visible <= StreamLen
           /\ base \in Nat /\ base <= inCur
           /\ inCur \in Nat /\ inCur <= visible
           /\ outStart \in Nat /\ outLen \in Nat /\ outCur \in Nat /\ queue \in Nat
           /\ buf \in Seq(Encodings) /\ delivered \in Seq(Encodings)
           /\ pending = <<>> \/ pending \in [{1} -> Values]
  BY ConvertEngineAssumption DEF IInv, TypeOK, CallsInStep

\* The numbers among them.
LEMMA Numbers ==
    ASSUME IInv
    PROVE  /\ visible \in Nat /\ visible <= StreamLen /\ StreamLen \in Nat
           /\ base \in Nat /\ base <= inCur /\ inCur \in Nat /\ inCur <= visible
           /\ outStart \in Nat /\ outLen \in Nat /\ outCur \in Nat /\ queue \in Nat
           /\ MaxEncode \in Nat /\ EMaxReset \in Nat /\ EMaxFinish \in Nat
  BY Types, ConvertEngineAssumption, EncodeStepAssumption

\* The room of a running call, as encode_one is told it.
LEMMA RoomFacts ==
    ASSUME IInv, pc # "idle"
    PROVE  /\ outStart <= outCur /\ outCur <= outLen
           /\ AvailableOutput \in Nat /\ AvailableOutput = outLen - outCur
  BY Types DEF IInv, TypeOK, AvailableOutput

\* A value in the slot encodes as a value of the stream.
LEMMA PendingFacts ==
    ASSUME IInv, pending # <<>>
    PROVE  /\ pending[1] \in Values
           /\ pending[1].at \in 0..(StreamLen - 1)
           /\ TargetOf(pending[1]) = target[pending[1].at]
           /\ TargetOf(pending[1]) \in TargetType
           /\ Lies(TargetOf(pending[1])) => LyingTarget
<1>1. pending[1] \in Values
  BY Types
<1>2. /\ pending[1].sub \notin {"reset", "finish"}
      /\ pending[1].at \in Nat /\ pending[1].at < StreamLen
  BY <1>1 DEF IInv, SlotInStep, Values
<1>3. pending[1].at \in 0..(StreamLen - 1)
  BY <1>2, ConvertEngineAssumption
<1>4. TargetOf(pending[1]) = target[pending[1].at]
  BY <1>2 DEF TargetOf
<1>5. target[pending[1].at] \in Targets /\ pending[1].at \in DOMAIN target
  BY <1>3, Types
<1> QED BY <1>1, <1>3, <1>4, <1>5, EncodeStepAssumption DEF LyingTarget

\* An encoding of a value is one, and it extends what was written.
LEMMA EncodingType ==
    ASSUME IInv, NEW v \in Values, NEW n \in Nat
    PROVE  /\ Encoding(v, n) \in Encodings
           /\ Append(buf, Encoding(v, n)) \in Seq(Encodings)
           /\ Append(delivered \o buf, Encoding(v, n))
                = delivered \o Append(buf, Encoding(v, n))
<1>1. Encoding(v, n) \in Encodings
  BY DEF Encoding, Encodings, Values
<1>2. buf \in Seq(Encodings) /\ delivered \in Seq(Encodings)
  BY Types
<1> HIDE DEF IInv
<1> DEFINE e == Encoding(v, n)
<1> HIDE DEF e
<1>3. e \in Encodings
  BY <1>1 DEF e
<1>4. Append(buf, e) \in Seq(Encodings)
  BY <1>2, <1>3
<1>5. Append(delivered \o buf, e) = delivered \o Append(buf, e)
  BY <1>2, <1>3
<1> QED BY <1>1, <1>4, <1>5 DEF e

\* Between calls only what the caller and the guards keep matters.
LEMMA LeaveIInv ==
    ASSUME IInv, pc # "idle", Leave, UNCHANGED <<sourceVars, visible, inCur>>,
           phase' \in Phases, dPhase' \in Phases, ePhase' \in Phases,
           phase' \in Active => dPhase' = "Fresh" /\ ePhase' = "Fresh",
           phase' = "Finished" => dPhase' = "Finished" /\ ePhase' = "Finished",
           pending' = <<>> \/ pending' = pending,
           \/ base' = inCur /\ failed' = failed
           \/ base' = base /\ failed' = TRUE /\ pending' = <<>>
           \/ base' = base /\ failed' = failed /\ pc \notin TranscodeSteps,
           ret' \in Returns, ~faulty /\ ~LyingTarget => ret'.tag # "Panic"
    PROVE  IInv'
<1> USE ConvertEngineAssumption
<1>1. /\ UNCHANGED <<faulty, stream, tail, target, mark, visible, inCur>>
      /\ pc' = "idle" /\ eof' = FALSE /\ outStart' = 0 /\ outLen' = 0
      /\ outCur' = 0 /\ queue' = 0 /\ buf' = <<>> /\ delivered' = delivered \o buf
  BY DEF Leave, sourceVars
<1>2. /\ base' \in Nat /\ base' <= inCur /\ failed' \in BOOLEAN
      /\ ~failed' => inCur = base'
      /\ failed' => pending' = <<>>
  <2>1. /\ failed => pending = <<>>
        /\ pc \notin TranscodeSteps /\ ~failed => inCur = base
    BY DEF IInv, CallsInStep, SlotInStep
  <2>2. CASE base' = inCur /\ failed' = failed
    BY <2>1, <2>2, Types
  <2>3. CASE base' = base /\ failed' = TRUE /\ pending' = <<>>
    <3>1. failed' \in BOOLEAN /\ failed'
      BY <2>3, Zenon
    <3> QED BY <2>3, <3>1, Types
  <2>4. CASE base' = base /\ failed' = failed /\ pc \notin TranscodeSteps
    BY <2>1, <2>4, Types
  <2> QED BY <2>2, <2>3, <2>4
<1>3. delivered' \in Seq(Encodings) /\ buf' \in Seq(Encodings)
  BY <1>1, Types
<1>4. TypeOK'
  <2>1. /\ visible' \in 0..StreamLen /\ base' \in 0..StreamLen /\ inCur' \in 0..StreamLen
        /\ outStart' \in Nat /\ outLen' \in Nat /\ outCur' \in Nat /\ queue' \in Nat
    BY <1>1, <1>2, Types
  <2>2. /\ faulty' \in BOOLEAN /\ stream' \in [1..StreamLen -> Items] /\ tail' \in Tails
        /\ target' \in [0..(StreamLen - 1) -> Targets] /\ mark' \in MarkTargets
        /\ pending' = <<>> \/ pending' \in [{1} -> Values]
    BY <1>1, Types
  <2>3. eof' \in BOOLEAN
    BY <1>1, Zenon
  <2> QED BY <1>1, <1>2, <1>3, <2>1, <2>2, <2>3 DEF TypeOK
<1>5. InnerEnginesInStep' /\ CallsInStep'
  BY <1>1, <1>2, Types
     DEF InnerEnginesInStep, CallsInStep, ResetSteps, TranscodeSteps, FinishSteps
<1>6. SlotInStep'
  BY <1>1, <1>2 DEF IInv, SlotInStep, ResetSteps, Abstract!Whole
<1>7. RoomIsReserved'
  BY <1>1 DEF RoomIsReserved, Reserved
<1>8. ReservedOutputSuffices'
  BY <1>1 DEF ReservedOutputSuffices, LyingTarget
<1> QED BY <1>4, <1>5, <1>6, <1>7, <1>8 DEF IInv

\* A step inside a call: the types, the cursors and the last return.
LEMMA StepTypes ==
    ASSUME IInv, pc # "idle",
           UNCHANGED <<sourceVars, visible, base, eof, windowVars, delivered, failed, ret>>,
           phase' \in Phases, dPhase' \in Phases, ePhase' \in Phases,
           pending' = <<>> \/ pending' \in [{1} -> Values],
           pc' \in ResetSteps \cup TranscodeSteps \cup FinishSteps,
           inCur' \in Nat, inCur <= inCur', inCur' <= visible,
           outCur' \in Nat, outCur <= outCur', outCur' <= outLen,
           queue' \in Nat, buf' \in Seq(Encodings)
    PROVE  TypeOK' /\ ReservedOutputSuffices'
<1> USE ConvertEngineAssumption
<1>1. UNCHANGED <<faulty, stream, tail, target, mark, visible, base, eof,
                  outStart, outLen, delivered, failed, ret>>
  BY DEF sourceVars, windowVars
<1>2. /\ visible' \in 0..StreamLen /\ base' \in 0..StreamLen /\ inCur' \in 0..StreamLen
      /\ base' <= inCur' /\ inCur' <= visible' /\ outStart' <= outCur' /\ outCur' <= outLen'
  BY <1>1, Numbers, RoomFacts
<1>3. /\ faulty' \in BOOLEAN /\ failed' \in BOOLEAN /\ eof' \in BOOLEAN
      /\ ret' \in Returns
  BY <1>1 DEF IInv, TypeOK
<1>4. TypeOK'
  BY <1>1, <1>2, <1>3, Types DEF TypeOK
<1>5. ReservedOutputSuffices'
  BY <1>1 DEF IInv, ReservedOutputSuffices, LyingTarget
<1> QED BY <1>4, <1>5

\* A call that is refused before it starts changes nothing but the return, and
\* the phase only on the way into the stream.
LEMMA RefusedIInv ==
    ASSUME IInv, pc = "idle",
           UNCHANGED <<dPhase, ePhase, pending, sourceVars, visible, base, pc, eof,
                       inCur, windowVars, outCur, queue, buf, delivered, failed>>,
           phase' = phase \/ (phase = "Fresh" /\ phase' = "Streaming"),
           ret' \in Returns, ret'.tag # "Panic"
    PROVE  IInv'
<1>1. UNCHANGED <<dPhase, ePhase, pending, faulty, stream, tail, target, mark,
                  visible, base, pc, eof, inCur, outStart, outLen, outCur, queue,
                  buf, delivered, failed>>
  BY DEF sourceVars, windowVars
<1>2. TypeOK'
  BY <1>1 DEF IInv, TypeOK, Phases
<1>3. InnerEnginesInStep'
  BY <1>1 DEF IInv, InnerEnginesInStep, Active, TranscodeSteps
<1>4. CallsInStep'
  BY <1>1 DEF IInv, CallsInStep, ResetSteps, TranscodeSteps, FinishSteps
<1>5. SlotInStep'
  BY <1>1 DEF IInv, SlotInStep, Abstract!Whole
<1>6. RoomIsReserved'
  BY <1>1 DEF IInv, RoomIsReserved, Reserved
<1>7. ReservedOutputSuffices'
  BY DEF ReservedOutputSuffices
<1> QED BY <1>2, <1>3, <1>4, <1>5, <1>6, <1>7 DEF IInv

----------------------------------------------------------------------------
(* Capacity planning.                                                      *)

\* A planned bound that is not refused is there, behind the index.
LEMMA PlannedRoom ==
    ASSUME NEW w \in Windows, NEW bound,
           PlannedCapacityFailure(w[2], w[1], bound) = "none"
    PROVE  /\ w[1] \in Nat /\ w[2] \in Nat /\ w[1] <= w[2]
           /\ bound # Overflow
           /\ bound \in Nat => bound <= w[2] - w[1]
<1>1. w[1] \in Nat /\ w[2] \in Nat
  BY ConvertEngineAssumption
<1> QED BY <1>1 DEF PlannedCapacityFailure, CapacityFailure

\* Checked arithmetic is exact or reports an overflow, and an overflow is
\* passed on.
LEMMA CheckedFacts ==
    ASSUME NEW a \in Nat, NEW b \in Nat
    PROVE  /\ CheckedAdd(a, b) \in Nat
           /\ CheckedAdd(a, b) # Overflow
                => CheckedAdd(a, b) = a + b /\ a # Overflow /\ b # Overflow
           /\ EncodedLen(a) \in Nat
           /\ EncodedLen(a) # Overflow => EncodedLen(a) = a * MaxEncode
<1> USE EncodeStepAssumption, UsizeMaxAssumption
<1>1. a * MaxEncode \in Nat
  OBVIOUS
<1> QED BY <1>1 DEF CheckedAdd, CheckedMul, EncodedLen, Overflow

\* The room reset and finish are sure of when they start.
LEMMA PlannedBounds ==
    /\ MaxResetOutputLen \in Nat
    /\ MaxResetOutputLen # Overflow
         => MaxResetOutputLen = DMaxReset * MaxEncode + EMaxReset
    /\ CurrentFinishOutputLen \in Nat
    /\ CurrentFinishOutputLen # Overflow
         => CurrentFinishOutputLen = (IF pending = <<>> THEN 0 ELSE MaxEncode)
                                       + DMaxFinish * MaxEncode + EMaxFinish
<1> USE ConvertEngineAssumption, EncodeStepAssumption
<1>1. MaxResetOutputLen \in Nat /\ (MaxResetOutputLen # Overflow
         => MaxResetOutputLen = DMaxReset * MaxEncode + EMaxReset)
  BY CheckedFacts DEF MaxResetOutputLen
<1>2. PendingOutputLen \in Nat /\ (PendingOutputLen # Overflow
         => PendingOutputLen = IF pending = <<>> THEN 0 ELSE MaxEncode)
  <2>1. EncodedLen(1) \in Nat /\ (EncodedLen(1) # Overflow => EncodedLen(1) = MaxEncode)
    BY CheckedFacts
  <2> QED BY <2>1 DEF PendingOutputLen
<1> DEFINE first == CheckedAdd(PendingOutputLen, EncodedLen(DMaxFinish))
<1>3. first \in Nat /\ (first # Overflow
         => first = (IF pending = <<>> THEN 0 ELSE MaxEncode) + DMaxFinish * MaxEncode)
  <2>1. EncodedLen(DMaxFinish) \in Nat
        /\ (EncodedLen(DMaxFinish) # Overflow
              => EncodedLen(DMaxFinish) = DMaxFinish * MaxEncode)
    BY CheckedFacts
  <2>2. first \in Nat /\ (first # Overflow
           => /\ first = PendingOutputLen + EncodedLen(DMaxFinish)
              /\ PendingOutputLen # Overflow /\ EncodedLen(DMaxFinish) # Overflow)
    BY <1>2, <2>1, CheckedFacts
  <2> QED BY <1>2, <2>1, <2>2
<1>4. CurrentFinishOutputLen = CheckedAdd(first, EMaxFinish)
  BY DEF CurrentFinishOutputLen, SumConvertOutputBounds
<1> HIDE DEF first
<1>5. CurrentFinishOutputLen \in Nat /\ (CurrentFinishOutputLen # Overflow
         => CurrentFinishOutputLen = first + EMaxFinish /\ first # Overflow)
  BY <1>3, <1>4, CheckedFacts
<1> QED BY <1>1, <1>3, <1>5

\* What fewer values can need, and what one less leaves.
LEMMA RoomPerValue ==
    ASSUME NEW m \in Nat, NEW n \in Nat
    PROVE  /\ m * MaxEncode \in Nat
           /\ m <= n => m * MaxEncode <= n * MaxEncode
           /\ n > 0 => /\ (n - 1) * MaxEncode = n * MaxEncode - MaxEncode
                       /\ MaxEncode <= n * MaxEncode
<1> USE EncodeStepAssumption
<1>1. m * MaxEncode \in Nat
  OBVIOUS
<1>2. ASSUME m <= n PROVE m * MaxEncode <= n * MaxEncode
  <2>1. PICK k \in Nat : n = m + k
    BY <1>2
  <2>2. n * MaxEncode = m * MaxEncode + k * MaxEncode /\ k * MaxEncode \in Nat
    BY <2>1
  <2> QED BY <1>1, <2>2
<1>3. ASSUME n > 0 PROVE /\ (n - 1) * MaxEncode = n * MaxEncode - MaxEncode
                         /\ MaxEncode <= n * MaxEncode
  <2>1. PICK k \in Nat : n = k + 1
    BY <1>3
  <2>2. n * MaxEncode = k * MaxEncode + MaxEncode /\ k * MaxEncode \in Nat
    BY <2>1
  <2> QED BY <2>1, <2>2
<1> QED BY <1>1, <1>2, <1>3

\* Wherever a value is encoded on reserved output, there is room for the widest.
LEMMA QueueRoom ==
    ASSUME IInv, \/ pc \in {"resetValues", "finishValues"} /\ queue > 0
                 \/ pc = "finishDrain" /\ pending # <<>>
    PROVE  MaxEncode <= outLen - outCur
<1> USE ConvertEngineAssumption, EncodeStepAssumption
<1> DEFINE mine == queue * MaxEncode
           all == DMaxFinish * MaxEncode
<1>1. /\ mine \in Nat /\ all \in Nat /\ (queue > 0 => MaxEncode <= mine)
      /\ outLen \in Nat /\ outCur \in Nat /\ MaxEncode \in Nat /\ EMaxFinish \in Nat
  BY Types, RoomPerValue
<1>2. /\ pc = "resetValues" => mine <= outLen - outCur
      /\ pc = "finishValues" => mine + EMaxFinish <= outLen - outCur
      /\ pc = "finishDrain" /\ pending # <<>>
           => MaxEncode + all + EMaxFinish <= outLen - outCur
  BY DEF IInv, RoomIsReserved, Reserved
<1> HIDE DEF mine, all
<1> QED BY <1>1, <1>2

----------------------------------------------------------------------------
(* The inductive invariant, step by step: between calls and reset.         *)

LEMMA InitIInv == Init => IInv
<1> SUFFICES ASSUME Init PROVE IInv
  OBVIOUS
<1> USE ConvertEngineAssumption DEF Init
<1>1. Return("none") \in Returns /\ Return("none").tag = "none"
  BY ReturnType DEF Tags
<1>2. <<>> \in Seq(Encodings)
  OBVIOUS
<1>3. eof \in BOOLEAN /\ failed \in BOOLEAN /\ ~failed
  BY Zenon
<1>4. TypeOK
  BY <1>1, <1>2, <1>3 DEF TypeOK, NewGuard, Phases
<1>5. InnerEnginesInStep
  BY DEF InnerEnginesInStep, NewGuard, Active, TranscodeSteps
<1>6. CallsInStep
  BY DEF CallsInStep, NewGuard, ResetSteps, TranscodeSteps, FinishSteps
<1>7. SlotInStep
  BY DEF SlotInStep, ResetSteps
<1>8. RoomIsReserved
  BY DEF RoomIsReserved, Reserved
<1>9. ReservedOutputSuffices
  BY <1>1 DEF ReservedOutputSuffices
<1> QED BY <1>4, <1>5, <1>6, <1>7, <1>8, <1>9 DEF IInv

LEMMA ArriveIInv == ASSUME IInv, Arrive PROVE IInv'
<1> USE ConvertEngineAssumption
<1>1. /\ UNCHANGED <<phase, dPhase, ePhase, pending, faulty, stream, tail, target,
                     mark, base, pc, eof, inCur, outStart, outLen, outCur, queue,
                     buf, delivered, failed, ret>>
      /\ pc = "idle" /\ visible' = visible + 1 /\ visible < StreamLen
  BY DEF Arrive, guardVars, sourceVars, windowVars
<1>2. visible' \in 0..StreamLen /\ inCur <= visible'
  BY <1>1, Types
<1>3. TypeOK'
  BY <1>1, <1>2 DEF IInv, TypeOK
<1>4. InnerEnginesInStep'
  BY <1>1 DEF IInv, InnerEnginesInStep
<1>5. CallsInStep'
  BY <1>1, <1>2 DEF IInv, CallsInStep, TranscodeSteps
<1>6. SlotInStep'
  BY <1>1 DEF IInv, SlotInStep, Abstract!Whole
<1>7. RoomIsReserved'
  BY <1>1 DEF IInv, RoomIsReserved, Reserved
<1>8. ReservedOutputSuffices'
  BY <1>1 DEF IInv, ReservedOutputSuffices, LyingTarget
<1> QED BY <1>3, <1>4, <1>5, <1>6, <1>7, <1>8 DEF IInv

LEMMA ResetRefusedIInv ==
    ASSUME IInv, NEW w \in Windows, ResetRefused(w) PROVE IInv'
<1>1. /\ pc = "idle"
      /\ UNCHANGED <<dPhase, ePhase, pending, sourceVars, visible, base, pc, eof,
                     inCur, windowVars, outCur, queue, buf, delivered, failed>>
      /\ phase' = phase
      /\ ret' = Return(PlannedCapacityFailure(w[2], w[1], MaxResetOutputLen))
  BY DEF ResetRefused, guardVars
<1>2. ret' \in Returns /\ ret'.tag # "Panic"
  BY <1>1, FailureTagFacts, ReturnType
<1> QED BY <1>1, <1>2, RefusedIInv

LEMMA ResetBeginIInv ==
    ASSUME IInv, NEW w \in Windows, ResetBegin(w) PROVE IInv'
<1> USE ConvertEngineAssumption
<1>1. /\ UNCHANGED <<dPhase, ePhase, faulty, stream, tail, target, mark, eof, queue, buf>>
      /\ pc = "idle" /\ pc' = "resetEncoder" /\ phase' = "Poisoned" /\ pending' = <<>>
      /\ outStart' = w[1] /\ outLen' = w[2] /\ outCur' = w[1]
      /\ visible' = 0 /\ base' = 0 /\ inCur' = 0 /\ delivered' = <<>>
      /\ failed' = FALSE /\ ret' = Return("none")
  BY DEF ResetBegin, sourceVars, OnResetStart
<1>2. ret' \in Returns /\ ret'.tag # "Panic"
  BY <1>1, ReturnType DEF Tags
<1>3. /\ w[1] \in Nat /\ w[2] \in Nat /\ w[1] <= w[2]
      /\ DMaxReset * MaxEncode + EMaxReset <= w[2] - w[1]
  BY PlannedRoom, PlannedBounds DEF ResetBegin
<1>4. failed' \in BOOLEAN /\ ~failed'
  BY <1>1, Zenon
<1>5. delivered' \in Seq(Encodings)
  BY <1>1
<1>6. TypeOK'
  BY <1>1, <1>2, <1>3, <1>4, <1>5 DEF IInv, TypeOK, Phases, ResetSteps
<1>7. InnerEnginesInStep'
  BY <1>1 DEF InnerEnginesInStep, Active, TranscodeSteps
<1>8. CallsInStep'
  BY <1>1, <1>4 DEF CallsInStep, ResetSteps, TranscodeSteps, FinishSteps
<1>9. SlotInStep'
  BY <1>1 DEF SlotInStep
<1>10. RoomIsReserved'
  BY <1>1, <1>3 DEF RoomIsReserved, Reserved
<1>11. ReservedOutputSuffices'
  BY <1>2 DEF ReservedOutputSuffices
<1> QED BY <1>6, <1>7, <1>8, <1>9, <1>10, <1>11 DEF IInv

\* A reset or finish that ends in an error: its guard was poisoned before any
\* user code ran, so the engines behind it may be anywhere.
LEMMA LeaveWithIInv ==
    ASSUME IInv, pc \in ResetSteps \cup FinishSteps, NEW tag \in Tags, LeaveWith(tag),
           tag = "Panic" => faulty \/ LyingTarget,
           dPhase' \in Phases, ePhase' \in Phases,
           pending' = <<>> \/ pending' = pending
    PROVE  IInv'
<1>1. /\ ret' = Return(tag) /\ Leave
      /\ UNCHANGED <<phase, sourceVars, visible, base, inCur, failed>>
  BY DEF LeaveWith
<1>2. phase' = "Poisoned" /\ pc # "idle" /\ pc \notin TranscodeSteps
  BY <1>1 DEF IInv, CallsInStep, ResetSteps, FinishSteps, TranscodeSteps
<1>3. ret' \in Returns /\ (~faulty /\ ~LyingTarget => ret'.tag # "Panic")
  BY <1>1, ReturnType
<1> QED BY <1>1, <1>2, <1>3, LeaveIInv DEF Phases, Active

\* encode_pending in a reset or finish with room for the widest encoding is
\* never short of room: it ends in an encode error, or codec or hooks lie.
LEMMA AbortsIInv ==
    ASSUME IInv, pc \in {"resetValues", "finishDrain", "finishValues"},
           MaxEncode <= outLen - outCur,
           NEW t \in TargetType, Lies(t) => LyingTarget, NEW v,
           NEW o \in EncodeOne(t, AvailableOutput), Aborts(v, o),
           UNCHANGED <<dPhase, ePhase>>
    PROVE  /\ IInv'
           /\ pending' = <<>>
           /\ o.kind = "Error" \/ Lies(t)
           /\ \E tag \in Tags : LeaveWith(tag)
<1>1. AvailableOutput \in Nat /\ AvailableOutput = outLen - outCur /\ pc # "idle"
  BY RoomFacts
<1>2. /\ o.n \in Nat
      /\ o.kind = "Consumed" => o.n <= AvailableOutput
      /\ o.kind = "NeedOutput" => o.n > AvailableOutput /\ o.n <= MaxEncode
      /\ o.kind = "Panic" => Lies(t)
  BY <1>1, EncodeOneFacts
<1>3. o.kind # "NeedOutput"
  BY <1>1, <1>2, EncodeStepAssumption, Types
<1>4. Panics(o) => o.kind = "Panic"
  BY <1>1, <1>2, <1>3 DEF Panics
<1>5. PICK tag \in {"EncodeError", "Panic"} : LeaveWith(tag) /\ (tag = "Panic" => Lies(t))
        /\ pending' = <<>> /\ (o.kind = "Error" \/ Lies(t))
  BY <1>2, <1>3, <1>4 DEF Aborts
<1>6. tag \in Tags
  BY DEF Tags
<1>7. UNCHANGED <<dPhase, ePhase>> => dPhase' \in Phases /\ ePhase' \in Phases
  BY Types
<1> QED BY <1>5, <1>6, <1>7, LeaveWithIInv DEF ResetSteps, FinishSteps

LEMMA ResetEncoderIInv == ASSUME IInv, ResetEncoder PROVE IInv'
<1> USE ConvertEngineAssumption
<1> DEFINE refused == CapacityFailure(outLen, outCur, EMaxReset)
<1>0. pc = "resetEncoder" /\ UNCHANGED <<dPhase, pending>>
  BY DEF ResetEncoder
<1>1. CASE /\ ePhase' = IF refused = "none" THEN OnResetStart ELSE ePhase
           /\ \E tag \in FailureTags("ResetError", LyingTarget) :
                 LeaveWith(IF refused = "none" THEN tag ELSE refused)
  <2>1. PICK tag \in FailureTags("ResetError", LyingTarget) :
               LeaveWith(IF refused = "none" THEN tag ELSE refused)
    BY <1>1
  <2> DEFINE t == IF refused = "none" THEN tag ELSE refused
  <2>2. t \in Tags /\ (t = "Panic" => LyingTarget)
    BY <2>1, FailureTagFacts DEF FailureTags, Tags
  <2>3. ePhase' \in Phases /\ dPhase' \in Phases
    BY <1>0, <1>1, Types DEF OnResetStart, Phases
  <2> HIDE DEF t
  <2>4. LeaveWith(t)
    BY <2>1 DEF t
  <2> QED BY <1>0, <2>2, <2>3, <2>4, LeaveWithIInv DEF ResetSteps
<1>2. CASE /\ refused = "none" /\ ePhase' = OnResetSuccess /\ pc' = "resetDecoder"
           /\ \E written \in 0..EMaxReset : outCur' = outCur + written
           /\ UNCHANGED <<phase, sourceVars, visible, base, eof, inCur, windowVars,
                          queue, buf, delivered, failed, ret>>
  <2>1. PICK written \in 0..EMaxReset : outCur' = outCur + written
    BY <1>2
  <2>2. /\ UNCHANGED <<phase, dPhase, pending, faulty, stream, tail, target, mark,
                       visible, base, eof, inCur, outLen, queue, buf, failed>>
        /\ ePhase' = "Fresh" /\ pc' = "resetDecoder"
    BY <1>0, <1>2 DEF sourceVars, windowVars, OnResetSuccess
  <2>3. /\ DMaxReset * MaxEncode + EMaxReset <= outLen - outCur
        /\ DMaxReset * MaxEncode \in Nat
    BY <1>0, RoomPerValue DEF IInv, RoomIsReserved, Reserved
  <2>4. /\ outCur' \in Nat /\ outCur <= outCur' /\ outCur' <= outLen
        /\ DMaxReset * MaxEncode <= outLen' - outCur'
    <3> DEFINE rest == DMaxReset * MaxEncode
    <3>1. outLen \in Nat /\ outCur \in Nat /\ EMaxReset \in Nat
      BY Types
    <3>2. rest \in Nat /\ rest + EMaxReset <= outLen - outCur
      BY <2>3
    <3>3. written \in Nat /\ written <= EMaxReset
      OBVIOUS
    <3> HIDE DEF rest
    <3>4. /\ outCur' \in Nat /\ outCur <= outCur' /\ outCur' <= outLen
          /\ rest <= outLen - outCur'
      BY <2>1, <3>1, <3>2, <3>3
    <3> QED BY <2>2, <3>4 DEF rest
  <2>5. TypeOK' /\ ReservedOutputSuffices'
    BY <1>0, <1>2, <2>2, <2>4, Types, StepTypes DEF Phases, ResetSteps
  <2>6. InnerEnginesInStep'
    BY <1>0, <2>2 DEF IInv, InnerEnginesInStep, CallsInStep, ResetSteps, Active,
                      TranscodeSteps
  <2>7. CallsInStep'
    BY <1>0, <2>2 DEF IInv, CallsInStep, ResetSteps, TranscodeSteps, FinishSteps
  <2>8. SlotInStep'
    BY <1>0, <2>2 DEF IInv, SlotInStep, ResetSteps
  <2>9. RoomIsReserved'
    BY <2>2, <2>4 DEF RoomIsReserved, Reserved
  <2> QED BY <2>5, <2>6, <2>7, <2>8, <2>9 DEF IInv
<1> QED BY <1>1, <1>2 DEF ResetEncoder

LEMMA ResetDecoderIInv == ASSUME IInv, ResetDecoder PROVE IInv'
<1> USE ConvertEngineAssumption
<1>0. pc = "resetDecoder" /\ UNCHANGED <<ePhase, pending>>
  BY DEF ResetDecoder
<1>1. CASE LeaveWith("AllocationFailed") /\ UNCHANGED dPhase
  BY <1>0, <1>1, Types, LeaveWithIInv DEF ResetSteps, Tags
<1>2. CASE /\ dPhase' = OnResetStart
           /\ \E tag \in FailureTags("ResetError", faulty) : LeaveWith(tag)
  <2>1. PICK tag \in FailureTags("ResetError", faulty) : LeaveWith(tag)
    BY <1>2
  <2>2. tag \in Tags /\ (tag = "Panic" => faulty)
    BY DEF FailureTags, Tags
  <2> QED
    BY <1>0, <1>2, <2>1, <2>2, Types, LeaveWithIInv
       DEF ResetSteps, OnResetStart, Phases
<1>3. CASE /\ dPhase' = OnResetSuccess /\ pc' = "resetValues" /\ queue' \in 0..DMaxReset
           /\ UNCHANGED <<phase, sourceVars, visible, base, eof, inCur, windowVars,
                          outCur, buf, delivered, failed, ret>>
  <2>1. /\ UNCHANGED <<phase, ePhase, pending, faulty, stream, tail, target, mark,
                       visible, base, eof, inCur, outLen, outCur, buf, failed>>
        /\ dPhase' = "Fresh" /\ pc' = "resetValues"
        /\ queue' \in Nat /\ queue' <= DMaxReset
    BY <1>0, <1>3 DEF sourceVars, windowVars, OnResetSuccess
  <2>2. queue' * MaxEncode <= DMaxReset * MaxEncode /\ queue' * MaxEncode \in Nat
        /\ DMaxReset * MaxEncode \in Nat
    BY <2>1, RoomPerValue
  <2>3. DMaxReset * MaxEncode <= outLen - outCur
    BY <1>0 DEF IInv, RoomIsReserved, Reserved
  <2>4. TypeOK' /\ ReservedOutputSuffices'
    BY <1>0, <1>3, <2>1, Types, RoomFacts, StepTypes DEF Phases, ResetSteps
  <2>5. InnerEnginesInStep'
    BY <1>0, <2>1 DEF IInv, InnerEnginesInStep, CallsInStep, ResetSteps, Active,
                      TranscodeSteps
  <2>6. CallsInStep'
    BY <1>0, <2>1 DEF IInv, CallsInStep, ResetSteps, TranscodeSteps, FinishSteps
  <2>7. SlotInStep'
    BY <1>0, <2>1 DEF IInv, SlotInStep, ResetSteps
  <2>8. RoomIsReserved'
    <3> DEFINE mine == queue' * MaxEncode
               all == DMaxReset * MaxEncode
    <3>1. mine \in Nat /\ all \in Nat /\ mine <= all /\ all <= outLen - outCur
      BY <2>2, <2>3
    <3> HIDE DEF mine, all
    <3>2. mine <= outLen - outCur
      BY <3>1, Numbers
    <3> QED BY <2>1, <3>2 DEF RoomIsReserved, Reserved, mine
  <2> QED BY <2>4, <2>5, <2>6, <2>7, <2>8 DEF IInv
<1> QED BY <1>1, <1>2, <1>3 DEF ResetDecoder

\* What Accept and the queue say of the room: one value less, at most
\* MaxEncode units less.
LEMMA AcceptRoom ==
    ASSUME IInv, pc # "idle", NEW t \in TargetType, NEW v \in Values,
           NEW o \in EncodeOne(t, AvailableOutput), Accept(v, o)
    PROVE  /\ o.n \in Nat /\ o.n <= MaxEncode /\ o.n \in Abstract!Widths(t)
           /\ outCur' = outCur + o.n
           /\ outCur' \in Nat /\ outCur <= outCur' /\ outCur' <= outLen
           /\ buf' = Append(buf, Encoding(v, o.n)) /\ buf' \in Seq(Encodings)
           /\ delivered \o buf' = Append(delivered \o buf, Encoding(v, o.n))
           /\ pending' = <<>>
<1>1. /\ o.kind = "Consumed" /\ outCur' = outCur + o.n
      /\ buf' = Append(buf, Encoding(v, o.n)) /\ pending' = <<>>
  BY DEF Accept
<1>2. /\ o.n \in Nat /\ o.n <= outLen - outCur
      /\ o.n <= MaxEncode /\ o.n \in Abstract!Widths(t)
  BY <1>1, RoomFacts, EncodeOneFacts
<1>3. outCur' \in Nat /\ outCur <= outCur' /\ outCur' <= outLen
  BY <1>1, <1>2, Types
<1> QED BY <1>1, <1>2, <1>3, EncodingType

LEMMA ResetValueIInv == ASSUME IInv, ResetValue PROVE IInv'
<1> USE ConvertEngineAssumption, EncodeStepAssumption
<1>0. pc = "resetValues" /\ queue > 0 /\ UNCHANGED <<dPhase, ePhase>>
  BY DEF ResetValue
<1> DEFINE v == Value("reset", 0)
<1>1. PICK o \in EncodeOne(mark, AvailableOutput) :
        \/ /\ Accept(v, o)
           /\ queue' = queue - 1
           /\ UNCHANGED <<phase, sourceVars, visible, base, pc, eof, inCur,
                          windowVars, delivered, failed, ret>>
        \/ Aborts(v, o)
  BY DEF ResetValue
<1>2. /\ queue * MaxEncode <= outLen - outCur /\ queue * MaxEncode \in Nat
      /\ (queue - 1) * MaxEncode = queue * MaxEncode - MaxEncode
      /\ MaxEncode <= queue * MaxEncode
  BY <1>0, Types, RoomPerValue DEF IInv, RoomIsReserved, Reserved
<1>3. v \in Values /\ mark \in TargetType /\ (Lies(mark) => LyingTarget)
  BY Types DEF Value, Values, LyingTarget
<1> HIDE DEF v
<1>4. CASE Aborts(v, o)
  <2>1. MaxEncode <= outLen - outCur
    BY <1>0, QueueRoom
  <2> QED BY <1>0, <1>3, <1>4, <2>1, AbortsIInv
<1>5. CASE /\ Accept(v, o)
           /\ queue' = queue - 1
           /\ UNCHANGED <<phase, sourceVars, visible, base, pc, eof, inCur,
                          windowVars, delivered, failed, ret>>
  <2>1. /\ UNCHANGED <<phase, dPhase, ePhase, faulty, stream, tail, target, mark,
                       visible, base, pc, eof, inCur, outLen, failed>>
        /\ queue' \in Nat /\ queue' = queue - 1
    BY <1>0, <1>5, Types DEF sourceVars, windowVars
  <2>2. /\ o.n \in Nat /\ o.n <= MaxEncode /\ outCur' = outCur + o.n
        /\ outCur' \in Nat /\ outCur <= outCur' /\ outCur' <= outLen
        /\ buf' \in Seq(Encodings) /\ pending' = <<>>
    BY <1>0, <1>3, <1>5, AcceptRoom
  <2>3. TypeOK' /\ ReservedOutputSuffices'
    BY <1>0, <1>5, <2>1, <2>2, Types, StepTypes DEF ResetSteps
  <2>4. InnerEnginesInStep'
    BY <2>1 DEF IInv, InnerEnginesInStep
  <2>5. CallsInStep'
    BY <1>0, <2>1 DEF IInv, CallsInStep, ResetSteps, TranscodeSteps, FinishSteps
  <2>6. SlotInStep'
    BY <1>0, <2>1, <2>2 DEF IInv, SlotInStep
  <2>7. RoomIsReserved'
    <3> DEFINE mine == queue' * MaxEncode
               all == queue * MaxEncode
    <3>1. /\ mine = all - MaxEncode /\ all \in Nat /\ all <= outLen - outCur
      BY <1>2, <2>1
    <3> HIDE DEF mine, all
    <3>2. /\ outLen \in Nat /\ outCur \in Nat /\ MaxEncode \in Nat
          /\ o.n \in Nat /\ o.n <= MaxEncode /\ outCur' = outCur + o.n
      BY <2>2, Types
    <3>3. mine <= outLen - outCur'
      BY ONLY <3>1, <3>2
    <3> QED BY <1>0, <2>1, <3>3 DEF RoomIsReserved, Reserved, mine
  <2> QED BY <2>3, <2>4, <2>5, <2>6, <2>7 DEF IInv
<1> QED BY <1>1, <1>4, <1>5

LEMMA ResetDoneIInv == ASSUME IInv, ResetDone PROVE IInv'
<1>1. /\ pc = "resetValues" /\ phase' = "Fresh" /\ Leave
      /\ ret' = Wrote("ResetOk", outCur - outStart)
      /\ UNCHANGED <<dPhase, ePhase, pending, sourceVars, visible, base, inCur, failed>>
  BY DEF ResetDone, OnResetSuccess
<1>2. dPhase' = "Fresh" /\ ePhase' = "Fresh" /\ pc \notin TranscodeSteps
  BY <1>1 DEF IInv, CallsInStep, TranscodeSteps
<1>3. outCur - outStart \in Nat
  BY <1>1, Numbers, RoomFacts
<1>4. ret' \in Returns /\ ret'.tag # "Panic"
  BY <1>1, <1>3, ReturnType DEF Tags
<1> QED BY <1>1, <1>2, <1>4, LeaveIInv DEF Phases

----------------------------------------------------------------------------
(* The inductive invariant: transcode.                                     *)

\* on_transcode lets a call through in the active phases only.
LEMMA TranscodePhase ==
    ASSUME IInv
    PROVE  OnTranscodeFailure(phase) = "none"
             => phase \in Active /\ OnTranscode(phase) = "Streaming"
  BY Types DEF OnTranscodeFailure, OnTranscode, Active, Phases

LEMMA BeginIInv ==
    ASSUME IInv, NEW e \in BOOLEAN, NEW w \in Windows, Begin(e, w) PROVE IInv'
<1> USE ConvertEngineAssumption
<1>0. /\ pc = "idle" /\ (e => visible = StreamLen) /\ ~failed /\ inCur = base
      /\ UNCHANGED <<dPhase, ePhase, pending, sourceVars, visible, base, queue, buf,
                     delivered, failed>>
  BY DEF Begin, IInv, CallsInStep, TranscodeSteps
<1>1. CASE BeginRefused
  <2>1. ret' \in Returns /\ ret'.tag # "Panic"
    BY <1>1, Types, FailureTagFacts, ReturnType DEF BeginRefused
  <2> QED BY <1>0, <1>1, <2>1, RefusedIInv DEF BeginRefused
<1>2. CASE BeginBadIndex(w)
  <2>1. ret' \in Returns /\ ret'.tag # "Panic"
    BY <1>2, FailureTagFacts, ReturnType DEF BeginBadIndex
  <2>2. phase' = phase \/ (phase = "Fresh" /\ phase' = "Streaming")
    BY <1>2 DEF BeginBadIndex, OnTranscode
  <2> QED BY <1>0, <1>2, <2>1, <2>2, RefusedIInv DEF BeginBadIndex
<1>3. CASE BeginSteps(e, w)
  <2>1. /\ UNCHANGED <<dPhase, ePhase, pending, faulty, stream, tail, target, mark,
                       visible, base, queue, buf, delivered, failed>>
        /\ phase \in Active /\ phase' = "Streaming" /\ pc' = "drain" /\ eof' = e
        /\ inCur' = inCur /\ outStart' = w[1] /\ outLen' = w[2] /\ outCur' = w[1]
        /\ ret' = Return("none")
    BY <1>0, <1>3, TranscodePhase DEF BeginSteps, sourceVars
  <2>2. w[1] \in Nat /\ w[2] \in Nat /\ w[1] <= w[2]
    BY <1>3 DEF BeginSteps, IndexFailure
  <2>3. ret' \in Returns /\ ret'.tag # "Panic"
    BY <2>1, ReturnType DEF Tags
  <2>4. TypeOK'
    <3>1. /\ outStart' <= outCur' /\ outCur' <= outLen' /\ base' <= inCur'
          /\ inCur' <= visible'
      BY <2>1, <2>2, Numbers
    <3>2. eof' \in BOOLEAN
      BY <2>1, Zenon
    <3> QED BY <2>1, <2>2, <2>3, <3>1, <3>2 DEF IInv, TypeOK, Phases, TranscodeSteps
  <2>5. InnerEnginesInStep'
    BY <2>1 DEF IInv, InnerEnginesInStep
  <2>6. CallsInStep'
    BY <1>0, <2>1, Types DEF CallsInStep, ResetSteps, TranscodeSteps, FinishSteps
  <2>7. SlotInStep'
    BY <2>1 DEF IInv, SlotInStep, ResetSteps, Abstract!Whole
  <2>8. RoomIsReserved'
    BY <2>1, <2>2 DEF RoomIsReserved, Reserved
  <2>9. ReservedOutputSuffices'
    BY <2>3 DEF ReservedOutputSuffices
  <2> QED BY <2>4, <2>5, <2>6, <2>7, <2>8, <2>9 DEF IInv
<1> QED BY <1>1, <1>2, <1>3 DEF Begin

\* A transcode call that stops with progress; the slot is left as it is.
LEMMA StopWithIInv ==
    ASSUME IInv, pc \in TranscodeSteps, NEW tag \in ProgressTags, NEW required \in Nat,
           StopWith(tag, required), UNCHANGED pending
    PROVE  IInv'
<1>1. /\ ret' = Progress(tag, required, inCur - base, outCur - outStart) /\ base' = inCur
      /\ Leave /\ UNCHANGED <<phase, dPhase, ePhase, sourceVars, visible, inCur, failed>>
  BY DEF StopWith, guardVars
<1>2. inCur - base \in Nat /\ outCur - outStart \in Nat /\ pc # "idle"
  BY Numbers, RoomFacts DEF TranscodeSteps
<1>3. ret' \in Returns /\ ret'.tag # "Panic"
  BY <1>1, <1>2, ReturnType DEF Tags, ProgressTags
<1>4. /\ phase' \in Active => dPhase' = "Fresh" /\ ePhase' = "Fresh"
      /\ phase' = "Finished" => dPhase' = "Finished" /\ ePhase' = "Finished"
  BY <1>1 DEF IInv, InnerEnginesInStep
<1> QED BY <1>1, <1>2, <1>3, <1>4, Types, LeaveIInv

\* A transcode call that fails; the slot is empty then.
LEMMA StopFailedIInv ==
    ASSUME IInv, pc \in TranscodeSteps, NEW tag \in Tags, StopFailed(tag),
           tag = "Panic" => faulty \/ LyingTarget, pending' = <<>>
    PROVE  IInv'
<1>1. /\ ret' = Return(tag) /\ failed' = TRUE
      /\ Leave /\ UNCHANGED <<phase, dPhase, ePhase, sourceVars, visible, base, inCur>>
  BY DEF StopFailed, guardVars
<1>2. ret' \in Returns /\ (~faulty /\ ~LyingTarget => ret'.tag # "Panic") /\ pc # "idle"
  BY <1>1, ReturnType DEF TranscodeSteps
<1>3. /\ phase' \in Active => dPhase' = "Fresh" /\ ePhase' = "Fresh"
      /\ phase' = "Finished" => dPhase' = "Finished" /\ ePhase' = "Finished"
  BY <1>1 DEF IInv, InnerEnginesInStep
<1> QED BY <1>1, <1>2, <1>3, Types, LeaveIInv

\* The assertions behind encode_one fire only where it answered Panic itself.
LEMMA PanicsFacts ==
    ASSUME IInv, pc # "idle", NEW t \in TargetType, NEW o \in EncodeOne(t, AvailableOutput)
    PROVE  Panics(o) <=> o.kind = "Panic"
<1>1. AvailableOutput \in Nat
  BY RoomFacts
<1>2. /\ o.n \in Nat
      /\ o.kind = "Consumed" => o.n <= AvailableOutput
      /\ o.kind = "NeedOutput" => o.n > AvailableOutput
  BY <1>1, EncodeOneFacts
<1> QED BY <1>1, <1>2 DEF Panics

LEMMA EncodePendingIInv == ASSUME IInv, EncodePending PROVE IInv'
<1> USE EncodeStepAssumption
<1> DEFINE v == pending[1]
           t == TargetOf(pending[1])
<1>0. /\ pc \in {"drain", "encode"} /\ pending # <<>> /\ pc \in TranscodeSteps
      /\ pc # "idle" /\ v \in Values /\ t \in TargetType /\ (Lies(t) => LyingTarget)
  BY PendingFacts DEF EncodePending, TranscodeSteps
<1>1. PICK o \in EncodeOne(t, AvailableOutput) :
        \/ /\ Accept(v, o)
           /\ pc' = "loop"
           /\ UNCHANGED <<guardVars, sourceVars, visible, base, eof, inCur,
                          windowVars, queue, delivered, failed, ret>>
        \/ /\ o.kind = "NeedOutput"
           /\ ~Panics(o)
           /\ UNCHANGED pending
           /\ StopWith("NeedOutput", o.n)
        \/ /\ o.kind = "Error"
           /\ pending' = <<>>
           /\ StopFailed("EncodeError")
        \/ /\ Panics(o)
           /\ pending' = <<>>
           /\ StopFailed("Panic")
  BY DEF EncodePending
<1> HIDE DEF v, t
<1>2. o.n \in Nat /\ (Panics(o) => Lies(t))
  BY <1>0, RoomFacts, EncodeOneFacts, PanicsFacts
<1>3. CASE /\ Accept(v, o)
           /\ pc' = "loop"
           /\ UNCHANGED <<guardVars, sourceVars, visible, base, eof, inCur,
                          windowVars, queue, delivered, failed, ret>>
  <2>1. /\ UNCHANGED <<phase, dPhase, ePhase, faulty, stream, tail, target, mark,
                       visible, base, eof, inCur, outLen, queue, failed>>
        /\ pc' = "loop"
    BY <1>3 DEF guardVars, sourceVars, windowVars
  <2>2. /\ outCur' \in Nat /\ outCur <= outCur' /\ outCur' <= outLen
        /\ buf' \in Seq(Encodings) /\ pending' = <<>>
    BY <1>0, <1>3, AcceptRoom
  <2>3. TypeOK' /\ ReservedOutputSuffices'
    BY <1>0, <1>3, <2>1, <2>2, Types, StepTypes DEF TranscodeSteps
  <2>4. InnerEnginesInStep'
    BY <1>0, <2>1 DEF IInv, InnerEnginesInStep, TranscodeSteps
  <2>5. CallsInStep'
    BY <1>0, <2>1 DEF IInv, CallsInStep, ResetSteps, TranscodeSteps, FinishSteps
  <2>6. SlotInStep'
    BY <2>1, <2>2 DEF SlotInStep
  <2>7. RoomIsReserved'
    BY <2>1, <2>2, Types DEF RoomIsReserved, Reserved
  <2> QED BY <2>3, <2>4, <2>5, <2>6, <2>7 DEF IInv
<1>4. CASE UNCHANGED pending /\ StopWith("NeedOutput", o.n)
  BY <1>0, <1>2, <1>4, StopWithIInv DEF ProgressTags
<1>5. CASE pending' = <<>> /\ StopFailed("EncodeError")
  BY <1>0, <1>5, StopFailedIInv DEF Tags
<1>6. CASE Panics(o) /\ pending' = <<>> /\ StopFailed("Panic")
  BY <1>0, <1>2, <1>6, StopFailedIInv DEF Tags
<1> QED BY <1>1, <1>3, <1>4, <1>5, <1>6

LEMMA NothingPendingIInv == ASSUME IInv, NothingPending PROVE IInv'
<1>1. /\ UNCHANGED <<phase, dPhase, ePhase, pending, faulty, stream, tail, target, mark,
                     visible, base, eof, inCur, outLen, outCur, queue, buf, failed>>
      /\ pc = "drain" /\ pc' = "loop" /\ pending = <<>>
  BY DEF NothingPending, guardVars, sourceVars, windowVars
<1>2. TypeOK' /\ ReservedOutputSuffices'
  BY <1>1, Types, RoomFacts, StepTypes DEF NothingPending, TranscodeSteps
<1>3. InnerEnginesInStep'
  BY <1>1 DEF IInv, InnerEnginesInStep, TranscodeSteps
<1>4. CallsInStep'
  BY <1>1 DEF IInv, CallsInStep, ResetSteps, TranscodeSteps, FinishSteps
<1>5. SlotInStep'
  BY <1>1 DEF SlotInStep
<1>6. RoomIsReserved'
  BY <1>1, Types, RoomFacts DEF RoomIsReserved, Reserved
<1> QED BY <1>2, <1>3, <1>4, <1>5, <1>6 DEF IInv

\* The item at the input cursor, and what decode_one is told of the input.
LEMMA AtItem ==
    ASSUME IInv, pc = "loop", HasInput
    PROVE  /\ stream[inCur + 1] \in Items
           /\ AvailableInput \in Nat \ {0}
           /\ AvailableInput <= StreamLen - inCur /\ StreamLen - inCur \in Nat
           /\ eof => AvailableInput = StreamLen - inCur
           /\ inCur < StreamLen
<1> USE ConvertEngineAssumption
<1>1. inCur < visible /\ inCur \in Nat /\ visible \in Nat /\ visible <= StreamLen
  BY Types DEF HasInput
<1>2. eof => visible = StreamLen
  BY DEF IInv, CallsInStep, TranscodeSteps
<1>3. inCur + 1 \in 1..StreamLen
  BY <1>1
<1> QED BY <1>1, <1>2, <1>3, Types DEF AvailableInput

LEMMA StopIInv == ASSUME IInv, StopComplete \/ StopNeedInput PROVE IInv'
<1>1. CASE StopComplete
  BY <1>1, StopWithIInv DEF StopComplete, TranscodeSteps, ProgressTags
<1>2. CASE StopNeedInput
  <2>1. MinUnits \in Nat
    BY ConvertEngineAssumption
  <2> QED BY <1>2, <2>1, StopWithIInv DEF StopNeedInput, TranscodeSteps, ProgressTags
<1> QED BY <1>1, <1>2

\* convert_next decoded a value into the slot, or skipped a span.
Emits(o) ==
    /\ o.kind = "Emitted"
    /\ o.n \in 1..AvailableInput
    /\ o.sub \in {"value", "replacement", "tail"}
    /\ pending' = <<Value(o.sub, inCur)>>
    /\ inCur' = inCur + o.n
    /\ pc' = "encode"
    /\ UNCHANGED <<guardVars, sourceVars, visible, base, eof, windowVars, outCur,
                   queue, buf, delivered, failed, ret>>

Skips(o) ==
    /\ o.kind = "Skipped"
    /\ o.n \in 1..AvailableInput
    /\ inCur' = inCur + o.n
    /\ UNCHANGED <<guardVars, pending, sourceVars, visible, base, pc, eof, windowVars,
                   outCur, queue, buf, delivered, failed, ret>>

\* convert_next and its outcomes; a faulty codec cannot reach beyond the input
\* it was shown, because decode_one has checked its count before.
LEMMA ConvertNextCases ==
    ASSUME IInv, ConvertNext
    PROVE  /\ pc = "loop" /\ HasInput /\ pending = <<>>
           /\ \E o \in DecodeOne(stream[inCur + 1], tail, AvailableInput, eof) :
                 /\ o.n \in Nat
                 /\ \/ Emits(o)
                    \/ Skips(o)
                    \/ StopWith("NeedInput", o.n) /\ UNCHANGED pending
                    \/ o.kind = "Error" /\ StopFailed("DecodeError") /\ pending' = <<>>
                    \/ faulty /\ StopFailed("Panic") /\ pending' = <<>>
<1>1. pc = "loop" /\ HasInput /\ pending = <<>>
  BY DEF ConvertNext, IInv, SlotInStep
<1>2. PICK o \in DecodeOne(stream[inCur + 1], tail, AvailableInput, eof) :
          \/ /\ o.kind = "Emitted"
             /\ ~ReadsBeyond(o)
             /\ pending' = <<Value(o.sub, inCur)>>
             /\ inCur' = inCur + o.n
             /\ pc' = "encode"
             /\ UNCHANGED <<guardVars, sourceVars, visible, base, eof, windowVars,
                            outCur, queue, buf, delivered, failed, ret>>
          \/ /\ o.kind = "Skipped"
             /\ ~ReadsBeyond(o)
             /\ inCur' = inCur + o.n
             /\ UNCHANGED <<guardVars, pending, sourceVars, visible, base, pc, eof,
                            windowVars, outCur, queue, buf, delivered, failed, ret>>
          \/ /\ o.kind = "NeedInput"
             /\ StopWith("NeedInput", o.n)
             /\ UNCHANGED pending
          \/ /\ o.kind = "Error"
             /\ StopFailed("DecodeError")
             /\ UNCHANGED pending
          \/ /\ o.kind = "Panic" \/ ReadsBeyond(o)
             /\ StopFailed("Panic")
             /\ pending' = IF o.kind = "Emitted" THEN <<Value(o.sub, inCur)>>
                           ELSE pending
  BY DEF ConvertNext
<1>3. /\ o.n \in Nat
      /\ o.kind = "Emitted" => /\ o.n \in 1..AvailableInput
                               /\ o.sub \in {"value", "replacement", "tail"}
      /\ o.kind = "Skipped" => o.n \in 1..AvailableInput
      /\ o.kind = "Panic" => faulty
  BY <1>1, AtItem, Types, DecodeOneFacts
<1>4. ~ReadsBeyond(o)
  BY <1>1, <1>3, AtItem DEF ReadsBeyond
<1> QED BY <1>1, <1>2, <1>3, <1>4 DEF Emits, Skips

LEMMA ConvertNextIInv == ASSUME IInv, ConvertNext PROVE IInv'
<1> USE ConvertEngineAssumption
<1>0. pc = "loop" /\ HasInput /\ pending = <<>> /\ pc \in TranscodeSteps /\ pc # "idle"
  BY ConvertNextCases DEF TranscodeSteps
<1>1. PICK o \in DecodeOne(stream[inCur + 1], tail, AvailableInput, eof) :
        /\ o.n \in Nat
        /\ \/ Emits(o)
           \/ Skips(o)
           \/ StopWith("NeedInput", o.n) /\ UNCHANGED pending
           \/ o.kind = "Error" /\ StopFailed("DecodeError") /\ pending' = <<>>
           \/ faulty /\ StopFailed("Panic") /\ pending' = <<>>
  BY ConvertNextCases
<1>2. CASE StopWith("NeedInput", o.n) /\ UNCHANGED pending
  BY <1>0, <1>1, <1>2, StopWithIInv DEF ProgressTags
<1>3. CASE StopFailed("DecodeError") /\ pending' = <<>>
  BY <1>0, <1>3, StopFailedIInv DEF Tags
<1>4. CASE faulty /\ StopFailed("Panic") /\ pending' = <<>>
  BY <1>0, <1>4, StopFailedIInv DEF Tags
<1>5. ASSUME o.n \in 1..AvailableInput, inCur' = inCur + o.n,
             pc' \in {"loop", "encode"},
             pending' = <<>> \/ pending' \in [{1} -> Values], SlotInStep',
             UNCHANGED <<guardVars, sourceVars, visible, base, eof, windowVars,
                         outCur, queue, buf, delivered, failed, ret>>
      PROVE  IInv'
  <2>1. UNCHANGED <<phase, dPhase, ePhase, faulty, stream, tail, target, mark, visible,
                    base, eof, outLen, outCur, queue, buf, failed>>
    BY <1>5 DEF guardVars, sourceVars, windowVars
  <2>2. inCur' \in Nat /\ inCur <= inCur' /\ inCur' <= visible /\ base <= inCur'
    <3>1. inCur \in Nat /\ visible \in Nat /\ base \in Nat /\ base <= inCur
      BY Types
    <3>2. o.n \in Nat /\ o.n <= visible - inCur
      BY <1>5, <3>1 DEF AvailableInput
    <3> QED BY <1>5, <3>1, <3>2
  <2>3. TypeOK' /\ ReservedOutputSuffices'
    BY <1>0, <1>5, <2>1, <2>2, Types, RoomFacts, StepTypes DEF TranscodeSteps
  <2>4. InnerEnginesInStep'
    BY <1>0, <1>5, <2>1 DEF IInv, InnerEnginesInStep, TranscodeSteps
  <2>5. CallsInStep'
    BY <1>0, <1>5, <2>1, <2>2
       DEF IInv, CallsInStep, ResetSteps, TranscodeSteps, FinishSteps
  <2>6. RoomIsReserved'
    <3>1. Reserved' = 0
      BY <1>5 DEF Reserved
    <3>2. 0 <= outLen - outCur
      BY <1>0, RoomFacts
    <3> QED BY <2>1, <3>1, <3>2 DEF RoomIsReserved
  <2> QED BY <1>5, <2>3, <2>4, <2>5, <2>6 DEF IInv
<1>6. CASE Skips(o)
  <2>1. pending' = <<>> /\ pc' = "loop"
    BY <1>0, <1>6 DEF Skips
  <2>2. SlotInStep'
    BY <2>1 DEF SlotInStep
  <2> QED BY <1>5, <1>6, <2>1, <2>2 DEF Skips
<1>7. CASE Emits(o)
  <2>1. UNCHANGED <<faulty, stream, tail, failed>> /\ ~failed
    BY <1>0, <1>7 DEF Emits, sourceVars, IInv, CallsInStep
  <2>2. /\ pending'[1] = Value(o.sub, inCur) /\ pending' # <<>>
        /\ pending'[1].at = inCur /\ pending'[1].sub = o.sub
    BY <1>7 DEF Emits, Value
  <2>3. Value(o.sub, inCur) \in Values
    BY <1>7, Types DEF Emits, Value, Values
  <2>4. pending' \in [{1} -> Values]
    BY <1>7, <2>3 DEF Emits
  <2>5. ~faulty => LET r == Abstract!Whole(stream[inCur + 1], StreamLen - inCur)
                   IN  r.act = "Emit" /\ r.sub = o.sub /\ r.n = o.n
    <3>1. /\ stream[inCur + 1] \in Items /\ AvailableInput \in Nat \ {0}
          /\ AvailableInput <= StreamLen - inCur /\ StreamLen - inCur \in Nat
          /\ eof => AvailableInput = StreamLen - inCur
      BY <1>0, AtItem
    <3>2. tail \in Actions /\ eof \in BOOLEAN
      BY Types
    <3>3. o.kind = "Emitted"
      BY <1>7 DEF Emits
    <3> QED BY <3>1, <3>2, <3>3, DecodeOneIsWhole
  <2>6. SlotInStep'
    <3>1. ~faulty' =>
             LET r == Abstract!Whole(stream[pending'[1].at + 1],
                                     StreamLen - pending'[1].at)
             IN  r.act = "Emit" /\ r.sub = pending'[1].sub /\ pending'[1].at + r.n = inCur'
      BY <1>7, <2>1, <2>2, <2>5 DEF Emits
    <3>2. ~faulty' =>
             LET r == (Abstract!Whole(stream[pending[1].at + 1],
                                      StreamLen - pending[1].at))'
             IN  r.act = "Emit" /\ r.sub = pending'[1].sub /\ pending'[1].at + r.n = inCur'
      BY <2>1, <3>1 DEF Abstract!Whole
    <3>3. inCur < StreamLen
      BY <1>0, AtItem
    <3> QED BY <1>7, <2>1, <2>2, <3>2, <3>3 DEF Emits, SlotInStep, ResetSteps
  <2> QED BY <1>5, <1>7, <2>4, <2>6 DEF Emits
<1> QED BY <1>1, <1>2, <1>3, <1>4, <1>6, <1>7

----------------------------------------------------------------------------
(* The inductive invariant: finish.                                        *)

LEMMA FinishRefusedIInv ==
    ASSUME IInv, NEW w \in Windows, FinishRefused(w) PROVE IInv'
<1>1. /\ pc = "idle" /\ phase' = phase /\ ret' = Return(FinishFailure(w))
      /\ UNCHANGED <<dPhase, ePhase, pending, sourceVars, visible, base, pc, eof,
                     inCur, windowVars, outCur, queue, buf, delivered, failed>>
  BY DEF FinishRefused, guardVars
<1>2. FinishFailure(w) \in Tags \ {"Panic"}
  BY Types, FailureTagFacts DEF FinishFailure
<1>3. ret' \in Returns /\ ret'.tag # "Panic"
  BY <1>1, <1>2, ReturnType
<1> QED BY <1>1, <1>3, RefusedIInv

LEMMA FinishBeginIInv ==
    ASSUME IInv, NEW w \in Windows, FinishBegin(w) PROVE IInv'
<1> USE ConvertEngineAssumption
<1>1. /\ UNCHANGED <<dPhase, ePhase, pending, faulty, stream, tail, target, mark,
                     visible, base, eof, inCur, queue, buf, delivered, failed>>
      /\ pc = "idle" /\ pc' = "finishDrain" /\ phase' = "Poisoned"
      /\ outStart' = w[1] /\ outLen' = w[2] /\ outCur' = w[1] /\ ret' = Return("none")
      /\ FinishFailure(w) = "none"
  BY DEF FinishBegin, sourceVars, OnFinishStart
<1>2. /\ phase \in Active
      /\ PlannedCapacityFailure(w[2], w[1], CurrentFinishOutputLen) = "none"
  BY <1>1, Types DEF FinishFailure, OnFinishFailure, Active, Phases
<1>3. w[1] \in Nat /\ w[2] \in Nat /\ w[1] <= w[2]
  BY <1>2, PlannedRoom
<1>4. (IF pending = <<>> THEN 0 ELSE MaxEncode) + DMaxFinish * MaxEncode + EMaxFinish
         <= w[2] - w[1]
  BY <1>2, PlannedRoom, PlannedBounds
<1>5. ret' \in Returns /\ ret'.tag # "Panic"
  BY <1>1, ReturnType DEF Tags
<1>6. TypeOK'
  <2>1. /\ outStart' <= outCur' /\ outCur' <= outLen' /\ base' <= inCur'
        /\ inCur' <= visible'
    BY <1>1, <1>3, Numbers
  <2> QED BY <1>1, <1>3, <1>5, <2>1 DEF IInv, TypeOK, Phases, FinishSteps
<1>7. InnerEnginesInStep'
  BY <1>1, <1>2 DEF IInv, InnerEnginesInStep, Active
<1>8. CallsInStep'
  BY <1>1, Types DEF IInv, CallsInStep, ResetSteps, TranscodeSteps, FinishSteps
<1>9. SlotInStep'
  BY <1>1 DEF IInv, SlotInStep, ResetSteps, Abstract!Whole
<1>10. RoomIsReserved'
  BY <1>1, <1>4 DEF RoomIsReserved, Reserved
<1>11. ReservedOutputSuffices'
  BY <1>5 DEF ReservedOutputSuffices
<1> QED BY <1>6, <1>7, <1>8, <1>9, <1>10, <1>11 DEF IInv

\* A step of finish that moves on to the next one with the slot empty.
LEMMA FinishStepIInv ==
    ASSUME IInv, pc \in FinishSteps, pc' \in {"finishDecoder", "finishValues", "finishEncoder"},
           UNCHANGED <<phase, ePhase, sourceVars, visible, base, eof, inCur, windowVars,
                       delivered, failed, ret>>,
           ePhase = "Fresh",
           dPhase' = IF pc' = "finishDecoder" THEN "Fresh" ELSE "Finished",
           pending' = <<>>, queue' \in Nat, buf' \in Seq(Encodings),
           outCur' \in Nat, outCur <= outCur', outCur' <= outLen, RoomIsReserved'
    PROVE  IInv'
<1>1. UNCHANGED <<phase, ePhase, visible, base, inCur, failed>> /\ pc # "idle"
  BY DEF FinishSteps
<1>2. phase' = "Poisoned" /\ (~failed => inCur = base)
  BY <1>1 DEF IInv, CallsInStep, FinishSteps, TranscodeSteps
<1>3. TypeOK' /\ ReservedOutputSuffices'
  BY <1>1, Types, StepTypes DEF FinishSteps, Phases
<1>4. InnerEnginesInStep'
  BY <1>1, <1>2 DEF InnerEnginesInStep, Active, TranscodeSteps
<1>5. CallsInStep'
  BY <1>1, <1>2, Types DEF CallsInStep, ResetSteps, TranscodeSteps, FinishSteps
<1>6. SlotInStep'
  BY DEF SlotInStep
<1> QED BY <1>3, <1>4, <1>5, <1>6 DEF IInv

LEMMA FinishDrainIInv == ASSUME IInv, FinishDrain PROVE IInv'
<1> USE ConvertEngineAssumption, EncodeStepAssumption
<1> DEFINE final == DMaxFinish * MaxEncode + EMaxFinish
           v == pending[1]
           t == TargetOf(pending[1])
<1>0. /\ pc = "finishDrain" /\ pc \in FinishSteps /\ UNCHANGED <<dPhase, ePhase>>
      /\ dPhase = "Fresh" /\ ePhase = "Fresh"
  BY DEF FinishDrain, FinishSteps, IInv, InnerEnginesInStep
<1>1. /\ final \in Nat
      /\ (IF pending = <<>> THEN 0 ELSE MaxEncode) + final <= outLen - outCur
      /\ outLen \in Nat /\ outCur \in Nat /\ outCur <= outLen
  <2>1. DMaxFinish * MaxEncode \in Nat
    BY RoomPerValue
  <2>2. Reserved = (IF pending = <<>> THEN 0 ELSE MaxEncode)
                     + DMaxFinish * MaxEncode + EMaxFinish
    BY <1>0 DEF Reserved
  <2>3. Reserved <= outLen - outCur
    BY DEF IInv, RoomIsReserved
  <2>4. outLen \in Nat /\ outCur \in Nat /\ outCur <= outLen
    BY <1>0, Types, RoomFacts
  <2> DEFINE first == IF pending = <<>> THEN 0 ELSE MaxEncode
             all == DMaxFinish * MaxEncode
  <2>5. first \in Nat /\ all \in Nat /\ first + all + EMaxFinish <= outLen - outCur
    BY <2>1, <2>2, <2>3
  <2> HIDE DEF first, all
  <2>6. all + EMaxFinish \in Nat /\ first + (all + EMaxFinish) <= outLen - outCur
    BY <2>4, <2>5
  <2> QED BY <2>4, <2>6 DEF first, all
<1>2. CASE /\ pending = <<>> /\ pc' = "finishDecoder"
           /\ UNCHANGED <<phase, pending, sourceVars, visible, base, eof, inCur,
                          windowVars, outCur, queue, buf, delivered, failed, ret>>
  <2>1. RoomIsReserved'
    BY <1>1, <1>2 DEF RoomIsReserved, Reserved, windowVars
  <2> QED BY <1>0, <1>1, <1>2, <2>1, Types, FinishStepIInv
<1>3. CASE /\ pending # <<>>
           /\ \E o \in EncodeOne(t, AvailableOutput) :
                \/ /\ Accept(v, o)
                   /\ pc' = "finishDecoder"
                   /\ UNCHANGED <<phase, sourceVars, visible, base, eof, inCur,
                                  windowVars, queue, delivered, failed, ret>>
                \/ Aborts(v, o)
  <2>1. PICK o \in EncodeOne(t, AvailableOutput) :
                \/ /\ Accept(v, o)
                   /\ pc' = "finishDecoder"
                   /\ UNCHANGED <<phase, sourceVars, visible, base, eof, inCur,
                                  windowVars, queue, delivered, failed, ret>>
                \/ Aborts(v, o)
    BY <1>3
  <2>2. v \in Values /\ t \in TargetType /\ (Lies(t) => LyingTarget)
    BY <1>3, PendingFacts
  <2> HIDE DEF v, t, final
  <2>3. CASE Aborts(v, o)
    <3>1. MaxEncode <= outLen - outCur
      BY <1>0, <1>3, QueueRoom
    <3> QED BY <1>0, <2>2, <2>3, <3>1, AbortsIInv
  <2>4. CASE /\ Accept(v, o)
             /\ pc' = "finishDecoder"
             /\ UNCHANGED <<phase, sourceVars, visible, base, eof, inCur,
                            windowVars, queue, delivered, failed, ret>>
    <3>1. /\ o.n \in Nat /\ o.n <= MaxEncode /\ outCur' = outCur + o.n
          /\ outCur' \in Nat /\ outCur <= outCur' /\ outCur' <= outLen
          /\ buf' \in Seq(Encodings) /\ pending' = <<>>
      BY <1>0, <2>2, <2>4, AcceptRoom
    <3>2. final <= outLen - outCur'
      BY <1>1, <1>3, <3>1
    <3>3. RoomIsReserved'
      BY <2>4, <3>2 DEF RoomIsReserved, Reserved, windowVars, final
    <3> QED BY <1>0, <2>4, <3>1, <3>3, Types, FinishStepIInv
  <2> QED BY <2>1, <2>3, <2>4
<1> QED BY <1>2, <1>3 DEF FinishDrain

LEMMA FinishDecoderIInv == ASSUME IInv, FinishDecoder PROVE IInv'
<1> USE ConvertEngineAssumption
<1>0. /\ pc = "finishDecoder" /\ pc \in FinishSteps /\ UNCHANGED <<ePhase, pending>>
      /\ dPhase = "Fresh" /\ ePhase = "Fresh" /\ pending = <<>>
  BY DEF FinishDecoder, FinishSteps, IInv, InnerEnginesInStep, SlotInStep
<1>1. OnFinishFailure(dPhase) = "none"
  BY <1>0 DEF OnFinishFailure
<1>2. CASE LeaveWith("AllocationFailed") /\ UNCHANGED dPhase
  BY <1>0, <1>2, Types, LeaveWithIInv DEF Tags
<1>3. CASE /\ dPhase' = OnFinishStart
           /\ \E tag \in FailureTags("FinishError", faulty) : LeaveWith(tag)
  <2>1. PICK tag \in FailureTags("FinishError", faulty) : LeaveWith(tag)
    BY <1>3
  <2>2. tag \in Tags /\ (tag = "Panic" => faulty)
    BY DEF FailureTags, Tags
  <2> QED BY <1>0, <1>3, <2>1, <2>2, Types, LeaveWithIInv DEF OnFinishStart, Phases
<1>4. CASE /\ dPhase' = OnFinishSuccess /\ pc' = "finishValues" /\ queue' \in 0..DMaxFinish
           /\ UNCHANGED <<phase, sourceVars, visible, base, eof, inCur,
                          windowVars, outCur, buf, delivered, failed, ret>>
  <2> DEFINE mine == queue' * MaxEncode
             all == DMaxFinish * MaxEncode
  <2>1. queue' \in Nat /\ queue' <= DMaxFinish
    BY <1>4
  <2>2. mine \in Nat /\ all \in Nat /\ mine <= all /\ all + EMaxFinish <= outLen - outCur
    BY <1>0, <2>1, RoomPerValue DEF IInv, RoomIsReserved, Reserved
  <2> HIDE DEF mine, all
  <2>3. mine + EMaxFinish <= outLen - outCur
    BY <2>2, Numbers
  <2>4. RoomIsReserved'
    BY <1>4, <2>3 DEF RoomIsReserved, Reserved, windowVars, mine
  <2> QED BY <1>0, <1>4, <2>1, <2>4, Types, RoomFacts, FinishStepIInv DEF OnFinishSuccess
<1> QED BY <1>1, <1>2, <1>3, <1>4 DEF FinishDecoder

LEMMA FinishValueIInv == ASSUME IInv, FinishValue PROVE IInv'
<1> USE ConvertEngineAssumption, EncodeStepAssumption
<1> DEFINE v == Value("finish", 0)
<1>0. /\ pc = "finishValues" /\ pc \in FinishSteps /\ UNCHANGED <<dPhase, ePhase>>
      /\ dPhase = "Finished" /\ ePhase = "Fresh" /\ pending = <<>>
  BY DEF FinishValue, FinishSteps, IInv, CallsInStep, SlotInStep
<1>1. /\ queue * MaxEncode + EMaxFinish <= outLen - outCur /\ queue * MaxEncode \in Nat
  BY <1>0, Types, RoomPerValue DEF IInv, RoomIsReserved, Reserved
<1>2. CASE /\ queue = 0 /\ pc' = "finishEncoder"
           /\ UNCHANGED <<phase, pending, sourceVars, visible, base, eof, inCur,
                          windowVars, outCur, queue, buf, delivered, failed, ret>>
  <2>1. EMaxFinish <= outLen - outCur
    BY <1>1, <1>2
  <2>2. RoomIsReserved'
    BY <1>2, <2>1 DEF RoomIsReserved, Reserved, windowVars
  <2> QED BY <1>0, <1>2, <2>2, Types, RoomFacts, FinishStepIInv
<1>3. CASE /\ queue > 0
           /\ \E o \in EncodeOne(mark, AvailableOutput) :
                \/ /\ Accept(v, o)
                   /\ queue' = queue - 1
                   /\ UNCHANGED <<phase, sourceVars, visible, base, pc, eof, inCur,
                                  windowVars, delivered, failed, ret>>
                \/ Aborts(v, o)
  <2> DEFINE mine == (queue - 1) * MaxEncode
             all == queue * MaxEncode
  <2>1. PICK o \in EncodeOne(mark, AvailableOutput) :
                \/ /\ Accept(v, o)
                   /\ queue' = queue - 1
                   /\ UNCHANGED <<phase, sourceVars, visible, base, pc, eof, inCur,
                                  windowVars, delivered, failed, ret>>
                \/ Aborts(v, o)
    BY <1>3
  <2>2. v \in Values /\ mark \in TargetType /\ (Lies(mark) => LyingTarget)
    BY Types DEF Value, Values, LyingTarget
  <2>3. /\ mine = all - MaxEncode /\ all \in Nat /\ MaxEncode <= all
        /\ all + EMaxFinish <= outLen - outCur
        /\ outLen \in Nat /\ outCur \in Nat /\ MaxEncode \in Nat /\ EMaxFinish \in Nat
    BY <1>1, <1>3, Types, RoomPerValue
  <2> HIDE DEF v, mine, all
  <2>4. CASE Aborts(v, o)
    <3>1. MaxEncode <= outLen - outCur
      BY <1>0, <1>3, QueueRoom
    <3> QED BY <1>0, <2>2, <2>4, <3>1, AbortsIInv
  <2>5. CASE /\ Accept(v, o)
             /\ queue' = queue - 1
             /\ UNCHANGED <<phase, sourceVars, visible, base, pc, eof, inCur,
                            windowVars, delivered, failed, ret>>
    <3>1. /\ o.n \in Nat /\ o.n <= MaxEncode /\ outCur' = outCur + o.n
          /\ outCur' \in Nat /\ outCur <= outCur' /\ outCur' <= outLen
          /\ buf' \in Seq(Encodings) /\ pending' = <<>>
      BY <1>0, <2>2, <2>5, AcceptRoom
    <3>2. mine + EMaxFinish <= outLen - outCur'
      BY ONLY <2>3, <3>1
    <3>3. RoomIsReserved'
      BY <1>0, <2>5, <3>2 DEF RoomIsReserved, Reserved, windowVars, mine
    <3>4. queue' \in Nat /\ pc' = "finishValues"
      BY <1>0, <1>3, <2>5, Types
    <3> QED BY <1>0, <2>5, <3>1, <3>3, <3>4, FinishStepIInv
  <2> QED BY <2>1, <2>4, <2>5
<1> QED BY <1>2, <1>3 DEF FinishValue

\* The room finish has left for the encoder is enough for it, and its guard
\* was never finished before: only its own codec can still fail.
LEMMA FinishEncoderCases ==
    ASSUME IInv, FinishEncoder
    PROVE  /\ pc = "finishEncoder" /\ UNCHANGED <<dPhase, pending>>
           /\ \/ /\ ePhase' = "Poisoned"
                 /\ \E tag \in FailureTags("FinishError", LyingTarget) : LeaveWith(tag)
              \/ /\ ePhase' = "Finished"
                 /\ phase' = "Finished"
                 /\ \E written \in 0..EMaxFinish :
                       ret' = Wrote("FinishOk", outCur + written - outStart)
                 /\ Leave
                 /\ UNCHANGED <<sourceVars, visible, base, inCur, failed>>
<1>1. pc = "finishEncoder" /\ UNCHANGED <<dPhase, pending>> /\ ePhase = "Fresh"
  BY DEF FinishEncoder, IInv, CallsInStep
<1>2. EMaxFinish <= outLen - outCur
  BY <1>1 DEF IInv, RoomIsReserved, Reserved
<1>3. CapacityFailure(outLen, outCur, EMaxFinish) = "none"
  BY <1>1, <1>2, Types, RoomFacts, ConvertEngineAssumption DEF CapacityFailure
<1>4. OnFinishFailure(ePhase) = "none"
  BY <1>1 DEF OnFinishFailure
<1> QED BY <1>1, <1>3, <1>4 DEF FinishEncoder, OnFinishStart, OnFinishSuccess

LEMMA FinishEncoderIInv == ASSUME IInv, FinishEncoder PROVE IInv'
<1> USE ConvertEngineAssumption
<1>0. pc = "finishEncoder" /\ UNCHANGED <<dPhase, pending>> /\ dPhase = "Finished"
      /\ pc \notin TranscodeSteps
  BY FinishEncoderCases DEF IInv, CallsInStep, TranscodeSteps
<1>1. CASE /\ ePhase' = "Poisoned"
           /\ \E tag \in FailureTags("FinishError", LyingTarget) : LeaveWith(tag)
  <2>1. PICK tag \in FailureTags("FinishError", LyingTarget) : LeaveWith(tag)
    BY <1>1
  <2>2. tag \in Tags /\ (tag = "Panic" => LyingTarget)
    BY DEF FailureTags, Tags
  <2> QED BY <1>0, <1>1, <2>1, <2>2, LeaveWithIInv DEF FinishSteps, Phases
<1>2. CASE /\ ePhase' = "Finished" /\ phase' = "Finished"
           /\ \E written \in 0..EMaxFinish :
                 ret' = Wrote("FinishOk", outCur + written - outStart)
           /\ Leave
           /\ UNCHANGED <<sourceVars, visible, base, inCur, failed>>
  <2>1. PICK written \in 0..EMaxFinish :
               ret' = Wrote("FinishOk", outCur + written - outStart)
    BY <1>2
  <2>2. outCur + written - outStart \in Nat
    <3>1. outStart <= outCur /\ written \in Nat
      BY <1>0, <2>1, RoomFacts
    <3> QED BY <3>1, Numbers
  <2>3. ret' \in Returns /\ ret'.tag # "Panic"
    BY <2>1, <2>2, ReturnType DEF Tags
  <2> QED BY <1>0, <1>2, <2>3, LeaveIInv DEF Phases, Active
<1> QED BY <1>1, <1>2, FinishEncoderCases

LEMMA NextIInv == IInv /\ [Next]_vars => IInv'
<1> SUFFICES ASSUME IInv, [Next]_vars PROVE IInv'
  OBVIOUS
<1>1. CASE UNCHANGED vars
  <2>1. UNCHANGED <<phase, dPhase, ePhase, pending, faulty, stream, tail, target, mark,
                    visible, base, pc, eof, inCur, outStart, outLen, outCur, queue,
                    buf, delivered, failed, ret>>
    BY <1>1 DEF vars, guardVars, sourceVars, windowVars
  <2> QED
    BY <2>1 DEF IInv, TypeOK, InnerEnginesInStep, CallsInStep, SlotInStep,
                RoomIsReserved, Reserved, ReservedOutputSuffices, LyingTarget,
                Abstract!Whole
<1>2. CASE Arrive \/ Reset
  BY <1>2, ArriveIInv, ResetRefusedIInv, ResetBeginIInv, ResetEncoderIInv,
     ResetDecoderIInv, ResetValueIInv, ResetDoneIInv DEF Reset
<1>3. CASE Transcode \/ Loop
  BY <1>3, BeginIInv, EncodePendingIInv, NothingPendingIInv, StopIInv, ConvertNextIInv
     DEF Transcode, Loop
<1>4. CASE Finish
  BY <1>4, FinishRefusedIInv, FinishBeginIInv, FinishDrainIInv, FinishDecoderIInv,
     FinishValueIInv, FinishEncoderIInv DEF Finish
<1> QED BY <1>1, <1>2, <1>3, <1>4 DEF Next, Transcoder

\* Conversion: the inductive invariant.
THEOREM InductiveInvariant == Spec => []IInv
  BY InitIInv, NextIInv, PTL DEF Spec

\* Whatever the two codecs and their hooks answer, the cursors of a call stay
\* inside the caller's slices, and the engines are called past their own guards
\* only between a whole reset and a finish.
THEOREM SafeConverter == Spec => []SafeForAnyCodec
<1>1. IInv => SafeForAnyCodec
  BY DEF IInv, SafeForAnyCodec
<1> QED BY <1>1, InductiveInvariant, PTL

\* The output that reset and finish reserve before they start is enough for a
\* waiting value and for everything decoder and encoder still write: while
\* codecs and hooks keep their contracts no assertion fires.
THEOREM ReservedSuffices == Spec => []ReservedOutputSuffices
<1>1. IInv => ReservedOutputSuffices
  BY DEF IInv
<1> QED BY <1>1, InductiveInvariant, PTL

----------------------------------------------------------------------------
(* The bounds: what is written stays within the plan.                      *)

\* A step that leaves slot and output alone.
LEMMA QuietPlan ==
    ASSUME IInv, PlanIsKept, UNCHANGED <<pending, buf, delivered>>
    PROVE  Encoded' = Encoded /\ Encoded \in Nat /\ EncodingsAreNarrow'
<1>1. Len(delivered) \in Nat /\ Len(buf) \in Nat
  BY Types
<1> QED BY <1>1 DEF PlanIsKept, EncodingsAreNarrow, Encoded

\* A call that returns, with the slot as it was or emptied.
LEMMA LeavePlan ==
    ASSUME IInv, PlanIsKept, Leave, inCur' = inCur,
           pending' = <<>> \/ pending' = pending,
           phase' \in Active => Encoded <= DMaxReset + inCur
    PROVE  PlanIsKept'
<1> USE ConvertEngineAssumption
<1>1. /\ pc' = "idle" /\ buf' = <<>> /\ delivered' = delivered \o buf
  BY DEF Leave
<1>2. buf \in Seq(Encodings) /\ delivered \in Seq(Encodings) /\ inCur \in Nat
  BY Types
<1>3. /\ Len(delivered) \in Nat /\ Len(buf) \in Nat
      /\ Len(delivered') = Len(delivered) + Len(buf) /\ Len(buf') = 0
  BY <1>1, <1>2
<1>4. Encoded \in Nat /\ Encoded' \in Nat /\ Encoded' <= Encoded
  BY <1>3 DEF Encoded
<1>5. UnitsArePaid'
  BY <1>1 DEF UnitsArePaid, TranscodeSteps
<1>6. EncodingsArePlanned'
  BY <1>1, <1>2, <1>4 DEF PlanIsKept, EncodingsArePlanned, TranscodeSteps
<1>7. EncodingsAreNarrow'
  <2>1. \A i \in DOMAIN delivered' : delivered'[i].len <= MaxEncode
    <3> SUFFICES ASSUME NEW i \in DOMAIN delivered' PROVE delivered'[i].len <= MaxEncode
      OBVIOUS
    <3>1. CASE i \in DOMAIN delivered
      BY <1>1, <1>2, <3>1 DEF PlanIsKept, EncodingsAreNarrow
    <3>2. CASE i \notin DOMAIN delivered
      <4>1. i - Len(delivered) \in DOMAIN buf /\ delivered'[i] = buf[i - Len(delivered)]
        BY <1>1, <1>2, <3>2
      <4> QED BY <4>1 DEF PlanIsKept, EncodingsAreNarrow
    <3> QED BY <3>1, <3>2
  <2> QED BY <1>1, <2>1 DEF EncodingsAreNarrow
<1> QED BY <1>5, <1>6, <1>7 DEF PlanIsKept

\* A reset or finish that fails: its guard is poisoned.
LEMMA LeaveWithPlan ==
    ASSUME IInv, PlanIsKept, pc \in ResetSteps \cup FinishSteps, NEW tag, LeaveWith(tag),
           pending' = <<>> \/ pending' = pending
    PROVE  PlanIsKept'
<1>1. Leave /\ inCur' = inCur /\ phase' = "Poisoned"
  BY DEF LeaveWith, IInv, CallsInStep
<1> QED BY <1>1, LeavePlan DEF Active

\* A transcode call that returns.
LEMMA StopPlan ==
    ASSUME IInv, PlanIsKept, pc \in TranscodeSteps,
           pending' = <<>> \/ pending' = pending,
           \/ \E tag, required : StopWith(tag, required)
           \/ \E tag : StopFailed(tag)
    PROVE  PlanIsKept'
<1>1. Leave /\ inCur' = inCur
  BY DEF StopWith, StopFailed
<1>2. Encoded <= DMaxReset + inCur
  BY DEF PlanIsKept, EncodingsArePlanned
<1> QED BY <1>1, <1>2, LeavePlan

\* A value that is encoded: one encoding more, within the codec's bound.
LEMMA AcceptPlan ==
    ASSUME IInv, PlanIsKept, pc # "idle", NEW t \in TargetType, NEW v \in Values,
           NEW o \in EncodeOne(t, AvailableOutput), Accept(v, o), delivered' = delivered
    PROVE  /\ Encoded \in Nat
           /\ Encoded' = IF pending = <<>> THEN Encoded + 1 ELSE Encoded
           /\ EncodingsAreNarrow'
<1> DEFINE e == Encoding(v, o.n)
<1>1. /\ o.n \in Nat /\ o.n <= MaxEncode /\ buf' = Append(buf, e) /\ pending' = <<>>
  BY AcceptRoom
<1>2. e.len = o.n
  BY DEF Encoding
<1>3. buf \in Seq(Encodings) /\ delivered \in Seq(Encodings)
  BY Types
<1> HIDE DEF e
<1>4. /\ Len(delivered) \in Nat /\ Len(buf) \in Nat /\ Len(buf') = Len(buf) + 1
  BY <1>1, <1>3
<1>5. Encoded \in Nat /\ Encoded' = IF pending = <<>> THEN Encoded + 1 ELSE Encoded
  BY <1>1, <1>4 DEF Encoded
<1>6. \A i \in DOMAIN buf' : buf'[i].len <= MaxEncode
  <2> SUFFICES ASSUME NEW i \in DOMAIN buf' PROVE buf'[i].len <= MaxEncode
    OBVIOUS
  <2>1. CASE i \in DOMAIN buf
    BY <1>1, <1>3, <2>1 DEF PlanIsKept, EncodingsAreNarrow
  <2>2. CASE i \notin DOMAIN buf
    <3>1. buf'[i] = e
      BY <1>1, <1>3, <2>2
    <3> QED BY <1>1, <1>2, <3>1
  <2> QED BY <2>1, <2>2
<1>7. EncodingsAreNarrow'
  BY <1>6 DEF PlanIsKept, EncodingsAreNarrow
<1> QED BY <1>5, <1>7

\* The sums of the plan: some values are encoded, some still wait their turn.
LEMMA PlannedSums ==
    ASSUME NEW done \in Nat, NEW waiting \in Nat,
           NEW first \in Nat, NEW read \in Nat, NEW last \in Nat
    PROVE  /\ done = 0 /\ waiting <= first => /\ done + waiting <= first
                                             /\ done <= first + read + last
           /\ done <= first + read /\ waiting <= last
                => /\ done + waiting <= first + read + last
                   /\ done <= first + read + last
  OBVIOUS

LEMMA InitPlan == Init => PlanIsKept
<1> SUFFICES ASSUME Init PROVE PlanIsKept
  OBVIOUS
<1> USE ConvertEngineAssumption
<1>1. pc = "idle" /\ delivered = <<>> /\ buf = <<>> /\ pending = <<>> /\ inCur = 0
  BY DEF Init
<1>2. Encoded = 0
  BY <1>1 DEF Encoded
<1> QED
  BY <1>1, <1>2 DEF PlanIsKept, UnitsArePaid, EncodingsArePlanned, EncodingsAreNarrow,
                    TranscodeSteps

\* Steps between calls that start none.
LEMMA IdlePlan ==
    ASSUME IInv, PlanIsKept, pc = "idle", pc' = "idle",
           UNCHANGED <<pending, buf, delivered, inCur>>,
           phase' \in Active => phase \in Active
    PROVE  PlanIsKept'
<1>1. UnitsArePaid'
  BY DEF UnitsArePaid, TranscodeSteps
<1>2. EncodingsArePlanned'
  BY QuietPlan DEF PlanIsKept, EncodingsArePlanned, TranscodeSteps
<1> QED BY <1>1, <1>2, QuietPlan DEF PlanIsKept

LEMMA ResetPlan == ASSUME IInv, PlanIsKept, Reset PROVE PlanIsKept'
<1> USE ConvertEngineAssumption
<1>1. ASSUME NEW w \in Windows, ResetRefused(w) PROVE PlanIsKept'
  BY <1>1, IdlePlan DEF ResetRefused, guardVars
<1>2. ASSUME NEW w \in Windows, ResetBegin(w) PROVE PlanIsKept'
  <2>1. /\ pc' = "resetEncoder" /\ pending' = <<>> /\ delivered' = <<>> /\ inCur' = 0
        /\ buf' = <<>>
    BY <1>2 DEF ResetBegin, IInv, CallsInStep
  <2>2. Encoded' = 0
    BY <2>1 DEF Encoded
  <2> QED
    BY <2>1, <2>2 DEF PlanIsKept, UnitsArePaid, EncodingsArePlanned, EncodingsAreNarrow,
                      TranscodeSteps
<1>3. CASE ResetEncoder
  <2>1. pc = "resetEncoder" /\ pending' = pending
    BY <1>3 DEF ResetEncoder
  <2>2. CASE \E tag : LeaveWith(tag)
    BY <2>1, <2>2, LeaveWithPlan DEF ResetSteps
  <2>3. CASE pc' = "resetDecoder" /\ UNCHANGED <<inCur, buf, delivered>>
    <3>1. Encoded' = 0 /\ EncodingsAreNarrow' /\ inCur' \in Nat
      BY <2>1, <2>3, QuietPlan, Types DEF PlanIsKept, EncodingsArePlanned
    <3> QED
      BY <2>3, <3>1 DEF PlanIsKept, UnitsArePaid, EncodingsArePlanned, TranscodeSteps
  <2> QED BY <1>3, <2>2, <2>3 DEF ResetEncoder
<1>4. CASE ResetDecoder
  <2>1. pc = "resetDecoder" /\ pending' = pending
    BY <1>4 DEF ResetDecoder
  <2>2. CASE \E tag : LeaveWith(tag)
    BY <2>1, <2>2, LeaveWithPlan DEF ResetSteps
  <2>3. CASE pc' = "resetValues" /\ queue' \in 0..DMaxReset
             /\ UNCHANGED <<inCur, buf, delivered>>
    <3>1. Encoded' = 0 /\ EncodingsAreNarrow' /\ inCur' \in Nat
      BY <2>1, <2>3, QuietPlan, Types DEF PlanIsKept, EncodingsArePlanned
    <3>2. queue' \in Nat /\ queue' <= DMaxReset
      BY <2>3
    <3>3. EncodingsArePlanned'
      <4>1. Encoded' + queue' <= DMaxReset /\ Encoded' <= DMaxReset + inCur' + DMaxFinish
        <5>1. DMaxReset \in Nat /\ DMaxFinish \in Nat
          OBVIOUS
        <5> QED BY <3>1, <3>2, <5>1, PlannedSums
      <4> QED BY <2>3, <4>1 DEF EncodingsArePlanned, TranscodeSteps
    <3> QED BY <2>3, <3>1, <3>3 DEF PlanIsKept, UnitsArePaid, TranscodeSteps
  <2> QED BY <1>4, <2>2, <2>3 DEF ResetDecoder
<1>5. CASE ResetValue
  <2> DEFINE v == Value("reset", 0)
  <2>1. PICK o \in EncodeOne(mark, AvailableOutput) :
          \/ /\ Accept(v, o) /\ queue' = queue - 1
             /\ UNCHANGED <<pc, inCur, delivered>>
          \/ Aborts(v, o)
    BY <1>5 DEF ResetValue
  <2>2. pc = "resetValues" /\ queue > 0 /\ UNCHANGED <<dPhase, ePhase>> /\ pending = <<>>
    BY <1>5 DEF ResetValue, IInv, SlotInStep, ResetSteps
  <2>3. v \in Values /\ mark \in TargetType /\ (Lies(mark) => LyingTarget)
    BY Types DEF Value, Values, LyingTarget
  <2> HIDE DEF v
  <2>4. CASE Aborts(v, o)
    <3>1. pending' = <<>> /\ \E tag \in Tags : LeaveWith(tag)
      BY <2>2, <2>3, <2>4, QueueRoom, AbortsIInv
    <3> QED BY <2>2, <3>1, LeaveWithPlan DEF ResetSteps
  <2>5. CASE /\ Accept(v, o) /\ queue' = queue - 1
             /\ UNCHANGED <<pc, inCur, delivered>>
    <3>1. Encoded \in Nat /\ Encoded' = Encoded + 1 /\ EncodingsAreNarrow'
      BY <2>2, <2>3, <2>5, AcceptPlan
    <3>2. Encoded + queue <= DMaxReset /\ queue \in Nat /\ inCur \in Nat
      BY <2>2, Types DEF PlanIsKept, EncodingsArePlanned
    <3> QED
      BY <2>2, <2>5, <3>1, <3>2
         DEF PlanIsKept, UnitsArePaid, EncodingsArePlanned, TranscodeSteps
  <2> QED BY <2>1, <2>4, <2>5
<1>6. CASE ResetDone
  <2>1. pc = "resetValues" /\ queue = 0 /\ Leave /\ UNCHANGED <<pending, inCur>>
    BY <1>6 DEF ResetDone
  <2>2. Encoded <= DMaxReset + inCur
    <3>1. Encoded + 0 <= DMaxReset /\ inCur \in Nat
      BY <2>1, Types DEF PlanIsKept, EncodingsArePlanned
    <3>2. Encoded \in Nat
      BY Types DEF Encoded
    <3> QED BY <3>1, <3>2
  <2> QED BY <2>1, <2>2, LeavePlan
<1> QED BY <1>1, <1>2, <1>3, <1>4, <1>5, <1>6 DEF Reset

\* A step of transcode that stays in the call: what a value in the slot or in the
\* output costs, and the unit that pays for it.
LEMMA TranscodePlan ==
    ASSUME IInv, PlanIsKept, pc \in TranscodeSteps, pc' \in TranscodeSteps,
           UNCHANGED <<base, outStart, outLen, ret>>,
           NEW k \in Nat, inCur' = inCur + k, NEW n \in Nat, outCur' = outCur + n,
           n + (IF pending' = <<>> THEN 0 ELSE MaxEncode)
             <= (IF pending = <<>> THEN 0 ELSE MaxEncode) + (IF k = 0 THEN 0 ELSE MaxEncode),
           Encoded' \in Int, Encoded \in Int, Encoded' <= Encoded + k,
           EncodingsAreNarrow'
    PROVE  PlanIsKept'
<1> USE ConvertEngineAssumption, EncodeStepAssumption
<1> DEFINE before == inCur - base + 1
           after == inCur' - base' + 1
           waits == IF pending = <<>> THEN 0 ELSE MaxEncode
           waits2 == IF pending' = <<>> THEN 0 ELSE MaxEncode
           pays == IF k = 0 THEN 0 ELSE MaxEncode
           b == before * MaxEncode
           a == after * MaxEncode
<1>1. /\ inCur \in Nat /\ base \in Nat /\ base <= inCur
      /\ outCur \in Nat /\ outStart \in Nat /\ MaxEncode \in Nat
  BY Numbers
<1>2. before \in Nat /\ after \in Nat /\ after = before + k
  BY <1>1
<1>3. b \in Nat /\ a \in Nat /\ a >= b + pays
  <2> DEFINE grown == k * MaxEncode
  <2> HIDE DEF before, after
  <2>1. a = b + grown /\ b \in Nat /\ grown \in Nat
    BY <1>1, <1>2
  <2>2. pays <= grown /\ pays \in Nat
    BY <1>1, RoomPerValue
  <2> HIDE DEF a, b, grown, pays
  <2> QED BY <2>1, <2>2
<1>4. outCur - outStart + waits <= b /\ outLen <= UsizeMax /\ ret.tag = "none"
  BY DEF PlanIsKept, UnitsArePaid
<1>5. waits \in Nat /\ waits2 \in Nat /\ pays \in Nat /\ n + waits2 <= waits + pays
  BY <1>1
<1> HIDE DEF waits, waits2, pays, a, b
<1>6. outCur' - outStart + waits2 <= a
  BY <1>1, <1>3, <1>4, <1>5
<1>7. UnitsArePaid'
  BY <1>4, <1>6 DEF UnitsArePaid, waits2, a
<1>8. EncodingsArePlanned'
  <2>1. Encoded <= DMaxReset + inCur
    BY DEF PlanIsKept, EncodingsArePlanned
  <2>2. Encoded' <= DMaxReset + inCur'
    BY <1>1, <2>1
  <2>3. Encoded' <= DMaxReset + inCur' + DMaxFinish
    BY <1>1, <2>2
  <2> QED BY <2>2, <2>3 DEF EncodingsArePlanned, TranscodeSteps
<1> QED BY <1>7, <1>8 DEF PlanIsKept

LEMMA BeginPlan ==
    ASSUME IInv, PlanIsKept, NEW e \in BOOLEAN, NEW w \in Windows, Begin(e, w)
    PROVE  PlanIsKept'
<1> USE ConvertEngineAssumption, EncodeStepAssumption
<1>0. pc = "idle" /\ ~failed /\ UNCHANGED <<pending, buf, delivered, base>>
  BY DEF Begin
<1>1. CASE BeginRefused
  BY <1>0, <1>1, IdlePlan DEF BeginRefused
<1>2. CASE BeginBadIndex(w)
  <2>1. phase \in Active
    BY <1>2, TranscodePhase DEF BeginBadIndex
  <2> QED BY <1>0, <1>2, <2>1, IdlePlan DEF BeginBadIndex
<1>3. CASE BeginSteps(e, w)
  <2>1. /\ pc' = "drain" /\ inCur' = base /\ outStart' = w[1] /\ outLen' = w[2]
        /\ outCur' = w[1] /\ phase \in Active
    BY <1>3, TranscodePhase DEF BeginSteps
  <2>2. inCur = base /\ base \in Nat
    BY <1>0, Types DEF IInv, CallsInStep, TranscodeSteps
  <2>3. UnitsArePaid'
    <3>1. w[1] \in Nat /\ w[2] <= UsizeMax
      OBVIOUS
    <3>2. (inCur' - base' + 1) * MaxEncode = MaxEncode /\ outCur' - outStart' = 0
      BY <1>0, <2>1, <2>2, <3>1
    <3> QED BY <1>3, <2>1, <3>1, <3>2 DEF UnitsArePaid, BeginSteps, Return, Progress
  <2>4. Encoded <= DMaxReset + inCur
    BY <1>0, <2>1 DEF PlanIsKept, EncodingsArePlanned
  <2>5. EncodingsArePlanned'
    BY <1>0, <2>1, <2>2, <2>4, QuietPlan DEF EncodingsArePlanned, TranscodeSteps
  <2> QED BY <1>0, <2>3, <2>5, QuietPlan DEF PlanIsKept
<1> QED BY <1>1, <1>2, <1>3 DEF Begin

LEMMA LoopPlan == ASSUME IInv, PlanIsKept, Loop PROVE PlanIsKept'
<1> USE ConvertEngineAssumption, EncodeStepAssumption
<1>1. CASE EncodePending
  <2> DEFINE v == pending[1]
             t == TargetOf(pending[1])
  <2>0. /\ pc \in {"drain", "encode"} /\ pc \in TranscodeSteps /\ pc # "idle"
        /\ pending # <<>> /\ v \in Values /\ t \in TargetType
    BY <1>1, PendingFacts DEF EncodePending, TranscodeSteps
  <2>1. PICK o \in EncodeOne(t, AvailableOutput) :
          \/ /\ Accept(v, o) /\ pc' = "loop"
             /\ UNCHANGED <<base, inCur, outStart, outLen, delivered, ret>>
          \/ UNCHANGED pending /\ StopWith("NeedOutput", o.n)
          \/ pending' = <<>> /\ StopFailed("EncodeError")
          \/ pending' = <<>> /\ StopFailed("Panic")
    BY <1>1 DEF EncodePending, windowVars
  <2> HIDE DEF v, t
  <2>2. CASE /\ Accept(v, o) /\ pc' = "loop"
             /\ UNCHANGED <<base, inCur, outStart, outLen, delivered, ret>>
    <3>1. Encoded \in Nat /\ Encoded' = Encoded /\ EncodingsAreNarrow'
      BY <2>0, <2>2, AcceptPlan
    <3>2. o.n \in Nat /\ o.n <= MaxEncode /\ outCur' = outCur + o.n /\ pending' = <<>>
      BY <2>0, <2>2, AcceptRoom
    <3>3. inCur' = inCur + 0 /\ pc' \in TranscodeSteps
      BY <2>2, Types DEF TranscodeSteps
    <3>4. o.n + (IF pending' = <<>> THEN 0 ELSE MaxEncode)
            <= (IF pending = <<>> THEN 0 ELSE MaxEncode) + (IF 0 = 0 THEN 0 ELSE MaxEncode)
      BY <2>0, <3>2
    <3>5. Encoded' \in Int /\ Encoded \in Int /\ Encoded' <= Encoded + 0
      BY <3>1
    <3> QED BY <2>0, <2>2, <3>1, <3>2, <3>3, <3>4, <3>5, TranscodePlan
  <2> QED BY <2>0, <2>1, <2>2, StopPlan
<1>2. CASE NothingPending
  <2>1. /\ pc = "drain" /\ pc' = "loop" /\ pending = <<>>
        /\ UNCHANGED <<pending, base, inCur, outStart, outLen, outCur, buf, delivered,
                       ret>>
    BY <1>2 DEF NothingPending, windowVars
  <2>2. /\ pc \in TranscodeSteps /\ pc' \in TranscodeSteps
        /\ inCur' = inCur + 0 /\ outCur' = outCur + 0
    BY <2>1, Types DEF TranscodeSteps
  <2>3. /\ Encoded' \in Int /\ Encoded \in Int /\ Encoded' <= Encoded + 0
        /\ EncodingsAreNarrow'
    BY <2>1, QuietPlan
  <2>4. 0 + (IF pending' = <<>> THEN 0 ELSE MaxEncode)
          <= (IF pending = <<>> THEN 0 ELSE MaxEncode) + (IF 0 = 0 THEN 0 ELSE MaxEncode)
    BY <2>1
  <2> QED BY <2>1, <2>2, <2>3, <2>4, TranscodePlan
<1>3. CASE StopComplete
  BY <1>3, StopPlan DEF StopComplete, TranscodeSteps
<1>4. CASE StopNeedInput
  BY <1>4, StopPlan DEF StopNeedInput, TranscodeSteps
<1>5. CASE ConvertNext
  <2>0. pc = "loop" /\ pc \in TranscodeSteps /\ HasInput /\ pending = <<>>
    BY <1>5, ConvertNextCases DEF TranscodeSteps
  <2>1. PICK o \in DecodeOne(stream[inCur + 1], tail, AvailableInput, eof) :
          /\ o.n \in Nat
          /\ \/ Emits(o)
             \/ Skips(o)
             \/ StopWith("NeedInput", o.n) /\ UNCHANGED pending
             \/ o.kind = "Error" /\ StopFailed("DecodeError") /\ pending' = <<>>
             \/ faulty /\ StopFailed("Panic") /\ pending' = <<>>
    BY <1>5, ConvertNextCases
  <2>2. CASE Emits(o) \/ Skips(o)
    <3>1. /\ UNCHANGED <<base, outStart, outLen, outCur, buf, delivered, ret>>
          /\ inCur' = inCur + o.n /\ pc' \in TranscodeSteps
          /\ o.n \in 1..AvailableInput
      BY <2>0, <2>2 DEF Emits, Skips, windowVars, TranscodeSteps
    <3>2. outCur' = outCur + 0 /\ o.n # 0 /\ o.n >= 1
      BY <2>0, <2>1, <3>1, Types
    <3>3. 0 + (IF pending' = <<>> THEN 0 ELSE MaxEncode)
            <= (IF pending = <<>> THEN 0 ELSE MaxEncode) + (IF o.n = 0 THEN 0 ELSE MaxEncode)
      BY <2>0, <3>2
    <3>4. Encoded' \in Int /\ Encoded \in Int /\ Encoded' <= Encoded + o.n
      <4>1. Len(delivered) \in Nat /\ Len(buf) \in Nat
        BY Types
      <4> QED BY <2>0, <2>1, <3>1, <3>2, <4>1 DEF Encoded
    <3>5. EncodingsAreNarrow'
      BY <3>1 DEF PlanIsKept, EncodingsAreNarrow
    <3> QED BY <2>0, <2>1, <3>1, <3>2, <3>3, <3>4, <3>5, TranscodePlan
  <2> QED BY <2>0, <2>1, <2>2, StopPlan
<1> QED BY <1>1, <1>2, <1>3, <1>4, <1>5 DEF Loop

\* A step of finish that moves on: the values of the decoder's finish are planned
\* beyond those of the stream.
LEMMA FinishStepPlan ==
    ASSUME IInv, PlanIsKept, pc' \in {"finishDecoder", "finishValues", "finishEncoder"},
           inCur' = inCur, Encoded' \in Int, EncodingsAreNarrow',
           pc' = "finishDecoder" => Encoded' <= DMaxReset + inCur,
           pc' = "finishValues" => Encoded' + queue' <= DMaxReset + inCur + DMaxFinish,
           Encoded' <= DMaxReset + inCur + DMaxFinish
    PROVE  PlanIsKept'
<1>1. UnitsArePaid'
  BY DEF UnitsArePaid, TranscodeSteps
<1>2. EncodingsArePlanned'
  BY DEF EncodingsArePlanned, TranscodeSteps
<1> QED BY <1>1, <1>2 DEF PlanIsKept

LEMMA FinishPlan == ASSUME IInv, PlanIsKept, Finish PROVE PlanIsKept'
<1> USE ConvertEngineAssumption
<1>0. inCur \in Nat /\ queue \in Nat
  BY Types
<1>1. ASSUME NEW w \in Windows, FinishRefused(w) PROVE PlanIsKept'
  BY <1>1, IdlePlan DEF FinishRefused, guardVars
<1>2. ASSUME NEW w \in Windows, FinishBegin(w) PROVE PlanIsKept'
  <2>1. /\ pc = "idle" /\ pc' = "finishDrain" /\ OnFinishFailure(phase) = "none"
        /\ UNCHANGED <<pending, inCur, buf, delivered>>
    BY <1>2 DEF FinishBegin, FinishFailure
  <2>2. phase \in Active
    BY <2>1, Types DEF OnFinishFailure, Phases, Active
  <2>3. Encoded <= DMaxReset + inCur /\ Encoded <= DMaxReset + inCur + DMaxFinish
    BY <2>1, <2>2 DEF PlanIsKept, EncodingsArePlanned
  <2>4. EncodingsArePlanned'
    BY <2>1, <2>3, QuietPlan DEF EncodingsArePlanned
  <2> QED BY <2>1, <2>4, QuietPlan DEF PlanIsKept, UnitsArePaid, TranscodeSteps
<1>3. CASE FinishDrain
  <2> DEFINE v == pending[1]
             t == TargetOf(pending[1])
  <2>0. pc = "finishDrain" /\ UNCHANGED <<dPhase, ePhase>>
    BY <1>3 DEF FinishDrain
  <2>1. Encoded <= DMaxReset + inCur
    BY <2>0 DEF PlanIsKept, EncodingsArePlanned
  <2>2. CASE pc' = "finishDecoder" /\ UNCHANGED <<pending, inCur, buf, delivered>>
    <3>1. Encoded' = Encoded /\ Encoded \in Nat /\ EncodingsAreNarrow'
      BY <2>2, QuietPlan
    <3> QED BY <1>0, <2>1, <2>2, <3>1, FinishStepPlan
  <2>3. CASE /\ pending # <<>>
             /\ \E o \in EncodeOne(t, AvailableOutput) :
                   \/ Accept(v, o) /\ pc' = "finishDecoder" /\ UNCHANGED <<inCur, delivered>>
                   \/ Aborts(v, o)
    <3>1. PICK o \in EncodeOne(t, AvailableOutput) :
                   \/ Accept(v, o) /\ pc' = "finishDecoder" /\ UNCHANGED <<inCur, delivered>>
                   \/ Aborts(v, o)
      BY <2>3
    <3>2. v \in Values /\ t \in TargetType /\ (Lies(t) => LyingTarget)
      BY <2>3, PendingFacts
    <3> HIDE DEF v, t
    <3>3. CASE Aborts(v, o)
      <4>1. pending' = <<>> /\ \E tag \in Tags : LeaveWith(tag)
        BY <2>0, <2>3, <3>2, <3>3, QueueRoom, AbortsIInv
      <4> QED BY <2>0, <4>1, LeaveWithPlan DEF FinishSteps
    <3>4. CASE Accept(v, o) /\ pc' = "finishDecoder" /\ UNCHANGED <<inCur, delivered>>
      <4>1. Encoded \in Nat /\ Encoded' = Encoded /\ EncodingsAreNarrow'
        BY <2>0, <2>3, <3>2, <3>4, AcceptPlan
      <4> QED BY <1>0, <2>1, <3>4, <4>1, FinishStepPlan
    <3> QED BY <3>1, <3>3, <3>4
  <2> QED BY <1>3, <2>2, <2>3 DEF FinishDrain
<1>4. CASE FinishDecoder
  <2>0. pc = "finishDecoder" /\ UNCHANGED pending
    BY <1>4 DEF FinishDecoder
  <2>1. CASE \E tag : LeaveWith(tag)
    BY <2>0, <2>1, LeaveWithPlan DEF FinishSteps
  <2>2. CASE pc' = "finishValues" /\ queue' \in 0..DMaxFinish
             /\ UNCHANGED <<inCur, buf, delivered>>
    <3>1. Encoded' = Encoded /\ Encoded \in Nat /\ EncodingsAreNarrow'
      BY <2>0, <2>2, QuietPlan
    <3>2. Encoded <= DMaxReset + inCur /\ queue' \in Nat /\ queue' <= DMaxFinish
      BY <2>0, <2>2 DEF PlanIsKept, EncodingsArePlanned
    <3>3. /\ Encoded' + queue' <= DMaxReset + inCur + DMaxFinish
          /\ Encoded' <= DMaxReset + inCur + DMaxFinish
      <4>1. DMaxReset \in Nat /\ DMaxFinish \in Nat
        OBVIOUS
      <4> QED BY <1>0, <3>1, <3>2, <4>1, PlannedSums
    <3> QED BY <2>2, <3>1, <3>3, FinishStepPlan
  <2> QED BY <1>4, <2>1, <2>2 DEF FinishDecoder
<1>5. CASE FinishValue
  <2> DEFINE v == Value("finish", 0)
  <2>0. pc = "finishValues" /\ pending = <<>> /\ UNCHANGED <<dPhase, ePhase>>
    BY <1>5 DEF FinishValue, IInv, SlotInStep
  <2>1. Encoded + queue <= DMaxReset + inCur + DMaxFinish
    BY <2>0 DEF PlanIsKept, EncodingsArePlanned
  <2>2. CASE pc' = "finishEncoder" /\ UNCHANGED <<pending, inCur, buf, delivered>>
    <3>1. Encoded' = Encoded /\ Encoded \in Nat /\ EncodingsAreNarrow'
      BY <2>2, QuietPlan
    <3> QED BY <1>0, <2>1, <2>2, <3>1, FinishStepPlan
  <2>3. CASE /\ queue > 0
             /\ \E o \in EncodeOne(mark, AvailableOutput) :
                   \/ Accept(v, o) /\ queue' = queue - 1 /\ UNCHANGED <<pc, inCur, delivered>>
                   \/ Aborts(v, o)
    <3>1. PICK o \in EncodeOne(mark, AvailableOutput) :
                   \/ Accept(v, o) /\ queue' = queue - 1 /\ UNCHANGED <<pc, inCur, delivered>>
                   \/ Aborts(v, o)
      BY <2>3
    <3>2. v \in Values /\ mark \in TargetType /\ (Lies(mark) => LyingTarget)
      BY Types DEF Value, Values, LyingTarget
    <3> HIDE DEF v
    <3>3. CASE Aborts(v, o)
      <4>1. pending' = <<>> /\ \E tag \in Tags : LeaveWith(tag)
        BY <2>0, <2>3, <3>2, <3>3, QueueRoom, AbortsIInv
      <4> QED BY <2>0, <4>1, LeaveWithPlan DEF FinishSteps
    <3>4. CASE Accept(v, o) /\ queue' = queue - 1 /\ UNCHANGED <<pc, inCur, delivered>>
      <4>1. Encoded \in Nat /\ Encoded' = Encoded + 1 /\ EncodingsAreNarrow'
        BY <2>0, <3>2, <3>4, AcceptPlan
      <4>2. /\ Encoded' + queue' <= DMaxReset + inCur + DMaxFinish
            /\ Encoded' <= DMaxReset + inCur + DMaxFinish
        BY <1>0, <2>1, <2>3, <3>4, <4>1
      <4> QED BY <2>0, <3>4, <4>1, <4>2, FinishStepPlan
    <3> QED BY <3>1, <3>3, <3>4
  <2> QED BY <1>5, <2>2, <2>3 DEF FinishValue
<1>6. CASE FinishEncoder
  <2>0. pc = "finishEncoder" /\ UNCHANGED pending
    BY <1>6, FinishEncoderCases
  <2>1. CASE \E tag : LeaveWith(tag)
    BY <2>0, <2>1, LeaveWithPlan DEF FinishSteps
  <2>2. CASE phase' = "Finished" /\ Leave /\ inCur' = inCur
    BY <2>0, <2>2, LeavePlan DEF Active
  <2> QED BY <1>6, <2>1, <2>2, FinishEncoderCases
<1> QED BY <1>1, <1>2, <1>3, <1>4, <1>5, <1>6 DEF Finish

LEMMA NextPlan == IInv /\ PlanIsKept /\ [Next]_vars => PlanIsKept'
<1> SUFFICES ASSUME IInv, PlanIsKept, [Next]_vars PROVE PlanIsKept'
  OBVIOUS
<1>1. CASE UNCHANGED vars
  <2>1. UNCHANGED <<phase, pending, base, pc, inCur, outStart, outLen, outCur, queue,
                    buf, delivered, ret>>
    BY <1>1 DEF vars, guardVars, windowVars
  <2> QED
    BY <2>1 DEF PlanIsKept, UnitsArePaid, EncodingsArePlanned, EncodingsAreNarrow, Encoded
<1>2. CASE Arrive
  BY <1>2, IdlePlan DEF Arrive, guardVars
<1> QED
  BY <1>1, <1>2, ResetPlan, BeginPlan, LoopPlan, FinishPlan DEF Next, Transcoder, Transcode

\* Checked sums grow with what is added.
LEMMA CheckedGrows ==
    ASSUME NEW a \in Nat, NEW b \in Nat, NEW c \in Nat, a <= b
    PROVE  CheckedAdd(a, c) <= CheckedAdd(b, c)
  BY UsizeMaxAssumption DEF CheckedAdd, Overflow

\* What is pending now needs no more than what could be.
LEMMA CurrentFinishIsPlanned == CurrentFinishOutputLen <= MaxFinishOutputLen
<1> USE ConvertEngineAssumption
<1> DEFINE one == EncodedLen(1)
           mine == EncodedLen(DMaxFinish)
<1>1. one \in Nat /\ mine \in Nat
  BY CheckedFacts
<1>2. PendingOutputLen \in Nat /\ PendingOutputLen <= one
  BY <1>1 DEF PendingOutputLen
<1> HIDE DEF one, mine
<1> DEFINE now == CheckedAdd(PendingOutputLen, mine)
           most == CheckedAdd(one, mine)
<1>3. now \in Nat /\ most \in Nat /\ now <= most
  BY <1>1, <1>2, CheckedFacts, CheckedGrows
<1> HIDE DEF now, most
<1>4. CheckedAdd(now, EMaxFinish) <= CheckedAdd(most, EMaxFinish)
  BY <1>3, CheckedGrows
<1> QED
  BY <1>4 DEF CurrentFinishOutputLen, MaxFinishOutputLen, SumConvertOutputBounds,
              now, most, one, mine

\* The room of one value.
LEMMA OneEncoded ==
    EncodedLen(1) \in Nat /\ (EncodedLen(1) # Overflow => EncodedLen(1) = MaxEncode)
<1>1. EncodedLen(1) \in Nat /\ (EncodedLen(1) # Overflow => EncodedLen(1) = 1 * MaxEncode)
  BY CheckedFacts
<1> QED BY <1>1, EncodeStepAssumption

\* The bound of one transcode call.
LEMMA TranscodeBound ==
    ASSUME NEW n \in Nat
    PROVE  /\ MaxTranscodeOutputLen(n) \in Nat
           /\ MaxTranscodeOutputLen(n) # Overflow
                => MaxTranscodeOutputLen(n) = n * MaxEncode + MaxEncode
<1> DEFINE all == EncodedLen(n)
           one == EncodedLen(1)
<1>1. /\ all \in Nat /\ (all # Overflow => all = n * MaxEncode)
      /\ one \in Nat /\ (one # Overflow => one = MaxEncode)
  <2>1. one \in Nat /\ (one # Overflow => one = MaxEncode)
    BY OneEncoded
  <2>2. all \in Nat /\ (all # Overflow => all = n * MaxEncode)
    BY CheckedFacts
  <2> QED BY <2>1, <2>2
<1> HIDE DEF all, one
<1>2. /\ CheckedAdd(all, one) \in Nat
      /\ CheckedAdd(all, one) # Overflow
           => CheckedAdd(all, one) = all + one /\ all # Overflow /\ one # Overflow
  BY <1>1, CheckedFacts
<1>3. MaxTranscodeOutputLen(n) = CheckedAdd(all, one)
  BY DEF MaxTranscodeOutputLen, all, one
<1> QED BY <1>1, <1>2, <1>3

\* The bound of a whole stream, when it does not overflow.
LEMMA TotalBound ==
    ASSUME NEW n \in Nat, MaxTotalOutputLen(n) # Overflow
    PROVE  MaxTotalOutputLen(n) = DMaxReset * MaxEncode + EMaxReset
                                    + (n * MaxEncode + MaxEncode)
                                    + (MaxEncode + DMaxFinish * MaxEncode + EMaxFinish)
<1> USE ConvertEngineAssumption, EncodeStepAssumption
<1> DEFINE one == EncodedLen(1)
           mine == EncodedLen(DMaxFinish)
<1>1. /\ one \in Nat /\ (one # Overflow => one = MaxEncode)
      /\ mine \in Nat /\ (mine # Overflow => mine = DMaxFinish * MaxEncode)
  <2>1. one \in Nat /\ (one # Overflow => one = MaxEncode)
    BY OneEncoded
  <2>2. mine \in Nat /\ (mine # Overflow => mine = DMaxFinish * MaxEncode)
    BY CheckedFacts
  <2> QED BY <2>1, <2>2
<1> HIDE DEF one, mine
<1> DEFINE both == CheckedAdd(one, mine)
<1>2. both \in Nat /\ (both # Overflow
         => both = one + mine /\ one # Overflow /\ mine # Overflow)
  BY <1>1, CheckedFacts
<1> HIDE DEF both
<1>3. MaxFinishOutputLen = CheckedAdd(both, EMaxFinish)
  BY DEF MaxFinishOutputLen, SumConvertOutputBounds, both, one, mine
<1>4. MaxFinishOutputLen \in Nat /\ (MaxFinishOutputLen # Overflow
         => MaxFinishOutputLen = both + EMaxFinish /\ both # Overflow)
  BY <1>2, <1>3, CheckedFacts
<1>5. MaxFinishOutputLen # Overflow
         => MaxFinishOutputLen = MaxEncode + DMaxFinish * MaxEncode + EMaxFinish
  BY <1>1, <1>2, <1>4
<1> DEFINE first == CheckedAdd(MaxResetOutputLen, MaxTranscodeOutputLen(n))
<1>6. first \in Nat /\ (first # Overflow
         => /\ first = MaxResetOutputLen + MaxTranscodeOutputLen(n)
            /\ MaxResetOutputLen # Overflow /\ MaxTranscodeOutputLen(n) # Overflow)
  BY PlannedBounds, TranscodeBound, CheckedFacts
<1> HIDE DEF first
<1>7. MaxTotalOutputLen(n) = CheckedAdd(first, MaxFinishOutputLen)
  BY DEF MaxTotalOutputLen, SumConvertOutputBounds, first
<1>8. /\ MaxTotalOutputLen(n) = first + MaxFinishOutputLen
      /\ first # Overflow /\ MaxFinishOutputLen # Overflow
  BY <1>4, <1>6, <1>7, CheckedFacts
<1> QED BY <1>5, <1>6, <1>8, PlannedBounds, TranscodeBound

\* A call that asks for more room had less than its bound.
LEMMA NeedOutputIsUnplanned ==
    ASSUME IInv, PlanIsKept, Next, pc \in TranscodeSteps, ret'.tag = "NeedOutput"
    PROVE  outLen - outStart < MaxTranscodeOutputLen(visible - base)
<1> USE EncodeStepAssumption, UsizeMaxAssumption
<1>1. ret.tag = "none" /\ outLen <= UsizeMax
  BY DEF PlanIsKept, UnitsArePaid
<1>2. EncodePending
  <2>1. CASE NothingPending \/ StopComplete \/ StopNeedInput
    BY <1>1, <2>1 DEF NothingPending, StopComplete, StopNeedInput, StopWith, Progress
  <2>2. CASE ConvertNext
    BY <1>1, <2>2 DEF ConvertNext, StopWith, StopFailed, Progress, Return
  <2>3. ~(Arrive \/ Reset \/ Transcode \/ Finish)
    BY DEF Arrive, Reset, ResetRefused, ResetBegin, ResetEncoder, ResetDecoder, ResetValue,
           ResetDone, Transcode, Begin, Finish, FinishRefused, FinishBegin, FinishDrain,
           FinishDecoder, FinishValue, FinishEncoder, TranscodeSteps
  <2> QED BY <2>1, <2>2, <2>3 DEF Next, Transcoder, Loop
<1> DEFINE t == TargetOf(pending[1])
<1>3. PICK o \in EncodeOne(t, AvailableOutput) : o.kind = "NeedOutput"
  BY <1>1, <1>2 DEF EncodePending, StopFailed, Return, Progress
<1>4. pending # <<>> /\ t \in TargetType /\ pc # "idle"
  BY <1>2, PendingFacts DEF EncodePending
<1>5. o.n \in Nat /\ o.n > outLen - outCur /\ o.n <= MaxEncode
  BY <1>3, <1>4, RoomFacts, EncodeOneFacts
<1> DEFINE k == inCur - base
           n == visible - base
           u == outCur - outStart
<1>6. /\ outLen \in Nat /\ outCur \in Nat /\ outStart \in Nat /\ MaxEncode \in Nat
      /\ k \in Nat /\ n \in Nat /\ k <= n /\ u \in Nat
  BY <1>4, Numbers, RoomFacts
<1>7. u + MaxEncode <= (k + 1) * MaxEncode
  BY <1>4 DEF PlanIsKept, UnitsArePaid
<1>8. outLen - outStart < u + MaxEncode
  BY <1>5, <1>6
<1> HIDE DEF k, n, u
<1>9. (k + 1) * MaxEncode <= n * MaxEncode + MaxEncode
  <2>1. (k + 1) * MaxEncode = k * MaxEncode + MaxEncode
    BY <1>6
  <2>2. k * MaxEncode <= n * MaxEncode /\ k * MaxEncode \in Nat /\ n * MaxEncode \in Nat
    BY <1>6, RoomPerValue
  <2> QED BY <1>6, <2>1, <2>2
<1>10. outLen - outStart < n * MaxEncode + MaxEncode
  <2> DEFINE x == (k + 1) * MaxEncode
             y == n * MaxEncode
  <2>1. x \in Nat /\ y \in Nat /\ u + MaxEncode <= x /\ x <= y + MaxEncode
    BY <1>6, <1>7, <1>9
  <2> HIDE DEF x, y
  <2>2. outLen - outStart < y + MaxEncode
    BY <1>6, <1>8, <2>1
  <2> QED BY <2>2 DEF y
<1>11. outLen - outStart < MaxTranscodeOutputLen(n)
  <2>1. CASE MaxTranscodeOutputLen(n) = Overflow
    BY <1>1, <1>6, <2>1 DEF Overflow
  <2>2. CASE MaxTranscodeOutputLen(n) # Overflow
    BY <1>6, <1>10, <2>2, TranscodeBound
  <2> QED BY <2>1, <2>2
<1> QED BY <1>11 DEF n

\* What a stream has come to fits its bound, at the widest.
LEMMA TotalSuffices ==
    ASSUME IInv, PlanIsKept
    PROVE  LET out == delivered \o buf
           IN  /\ MaxTotalOutputLen(visible) # Overflow =>
                     Len(out) * MaxEncode + EMaxReset + EMaxFinish
                       <= MaxTotalOutputLen(visible)
               /\ \A i \in DOMAIN out : out[i].len <= MaxEncode
<1> USE ConvertEngineAssumption, EncodeStepAssumption
<1> DEFINE out == delivered \o buf
           n == Len(out)
           plan == DMaxReset + visible + DMaxFinish
<1>1. buf \in Seq(Encodings) /\ delivered \in Seq(Encodings)
  BY Types
<1>2. n = Len(delivered) + Len(buf) /\ n \in Nat /\ Len(delivered) \in Nat /\ Len(buf) \in Nat
  BY <1>1
<1>3. n <= plan /\ plan \in Nat
  <2>1. n <= Encoded /\ Encoded \in Nat
    BY <1>2 DEF Encoded
  <2>2. Encoded <= DMaxReset + inCur + DMaxFinish
    BY DEF PlanIsKept, EncodingsArePlanned
  <2>3. /\ DMaxReset \in Nat /\ DMaxFinish \in Nat /\ n \in Nat
        /\ inCur \in Nat /\ visible \in Nat /\ inCur <= visible
    BY <1>2, Numbers
  <2> HIDE DEF n
  <2> QED BY ONLY <2>1, <2>2, <2>3
<1>4. n * MaxEncode <= DMaxReset * MaxEncode + visible * MaxEncode + DMaxFinish * MaxEncode
  <2>1. n * MaxEncode <= plan * MaxEncode
    BY <1>2, <1>3, RoomPerValue
  <2>2. plan * MaxEncode
          = DMaxReset * MaxEncode + visible * MaxEncode + DMaxFinish * MaxEncode
    BY Numbers
  <2> QED BY <2>1, <2>2
<1>5. ASSUME MaxTotalOutputLen(visible) # Overflow
      PROVE  n * MaxEncode + EMaxReset + EMaxFinish <= MaxTotalOutputLen(visible)
  <2> DEFINE x == n * MaxEncode
             a == DMaxReset * MaxEncode
             b == visible * MaxEncode
             c == DMaxFinish * MaxEncode
  <2>1. x \in Nat /\ a \in Nat /\ b \in Nat /\ c \in Nat /\ x <= a + b + c
    BY <1>2, <1>4, Numbers, RoomPerValue
  <2>2. MaxTotalOutputLen(visible)
          = a + EMaxReset + (b + MaxEncode) + (MaxEncode + c + EMaxFinish)
    BY <1>5, Numbers, TotalBound
  <2> HIDE DEF x, a, b, c
  <2>3. x + EMaxReset + EMaxFinish <= MaxTotalOutputLen(visible)
    BY <2>1, <2>2
  <2> QED BY <2>3 DEF x
<1>6. ASSUME NEW i \in DOMAIN out PROVE out[i].len <= MaxEncode
  <2>1. CASE i \in DOMAIN delivered
    BY <1>1, <2>1 DEF PlanIsKept, EncodingsAreNarrow
  <2>2. CASE i \notin DOMAIN delivered
    <3>1. i - Len(delivered) \in DOMAIN buf /\ out[i] = buf[i - Len(delivered)]
      BY <1>1, <2>2
    <3> QED BY <3>1 DEF PlanIsKept, EncodingsAreNarrow
  <2> QED BY <2>1, <2>2
<1> QED BY <1>5, <1>6

\* A caller that reserves the planned bounds is never asked for more: not by a
\* transcode call that first encodes a value of an earlier one, not by finish, and
\* not over a whole stream in however many calls.
THEOREM BoundsSuffice == Spec => OutputBoundSuffices
<1> DEFINE Asks == (pc \in TranscodeSteps) /\ ret'.tag = "NeedOutput"
                     => outLen - outStart < MaxTranscodeOutputLen(visible - base)
           Fits == LET out == delivered \o buf
                   IN  /\ MaxTotalOutputLen(visible) # Overflow =>
                             Len(out) * MaxEncode + EMaxReset + EMaxFinish
                               <= MaxTotalOutputLen(visible)
                       /\ \A i \in DOMAIN out : out[i].len <= MaxEncode
<1>1. Spec => [](IInv /\ PlanIsKept)
  BY InductiveInvariant, InitPlan, NextPlan, PTL DEF Spec
<1>2. IInv /\ PlanIsKept /\ [Next]_vars => [Asks]_vars
  BY NeedOutputIsUnplanned
<1>3. IInv /\ PlanIsKept => Fits
  BY TotalSuffices
<1> HIDE DEF Asks, Fits
<1>4. Spec => [][Asks]_vars
  BY <1>1, <1>2, PTL DEF Spec
<1>5. Spec => [](CurrentFinishOutputLen <= MaxFinishOutputLen)
  BY CurrentFinishIsPlanned, PTL
<1>6. Spec => []Fits
  BY <1>1, <1>3, PTL
<1> QED BY <1>4, <1>5, <1>6 DEF OutputBoundSuffices, Asks, Fits

----------------------------------------------------------------------------
(* The refinement: what each step is to the stream as a whole.             *)

\* A lying decoder promises nothing, and that is what the mapping says.
LEMMA FaultyRefines ==
    ASSUME faulty, UNCHANGED <<faulty, stream, tail, target, mark>>
    PROVE  UNCHANGED Abstract!vars
  BY DEF Abstract!vars, Abstract!sourceVars

\* The abstract state at each step of a call and between calls.
LEMMA StateFacts ==
    ASSUME IInv
    PROVE  /\ pc \in ResetSteps => AbstractState = "opening"
           /\ pc \in TranscodeSteps => AbstractState = "open"
           /\ pc \in {"finishDrain", "finishDecoder"}
                => AbstractState = IF failed THEN "rejected" ELSE "open"
           /\ pc \in {"finishValues", "finishEncoder"} => AbstractState = "closing"
           /\ pc = "idle" /\ phase \in Active
                => AbstractState = IF failed THEN "rejected" ELSE "open"
           /\ pc = "idle" /\ phase = "Poisoned" => AbstractState = "broken"
           /\ pc = "idle" /\ phase = "Finished" => AbstractState = "done"
<1>1. pc \in TranscodeSteps => phase = "Streaming" /\ ~failed
  BY DEF IInv, CallsInStep
<1> QED BY <1>1 DEF AbstractState, ResetSteps, TranscodeSteps, Active

\* A call that returns hands over what it has written.
LEMMA LeaveKeepsOut ==
    ASSUME IInv, Leave PROVE delivered' \o buf' = delivered \o buf
<1>1. buf' = <<>> /\ delivered' = delivered \o buf /\ delivered \o buf \in Seq(Encodings)
  BY Types DEF Leave
<1> QED BY <1>1

\* A value in the slot is what the stream holds at the abstract position, and
\* the input cursor is where it ends.
LEMMA SlotIsResult ==
    ASSUME IInv, ~faulty, pending # <<>>
    PROVE  /\ AbstractPos = pending[1].at /\ AbstractPos < StreamLen
           /\ Abstract!Result.act = "Emit" /\ Abstract!Result.sub = pending[1].sub
           /\ AbstractPos + Abstract!Result.n = inCur
  BY DEF IInv, SlotInStep, AbstractPos, Abstract!Result

\* A step that moves neither the state, the position nor the output.
LEMMA QuietRefines ==
    ASSUME ~faulty, UNCHANGED <<faulty, stream, tail, target, mark>>,
           AbstractState' = AbstractState, AbstractPos' = AbstractPos,
           delivered' \o buf' = delivered \o buf
    PROVE  UNCHANGED Abstract!vars
  BY DEF Abstract!vars, Abstract!sourceVars

\* A reset or finish that ends in an error; a value may leave with it.
LEMMA BreakRefines ==
    ASSUME IInv, ~faulty, pc \in ResetSteps \cup FinishSteps, NEW tag, LeaveWith(tag),
           pending' = <<>> \/ pending' = pending
    PROVE  Abstract!Next
<1>1. /\ UNCHANGED <<faulty, stream, tail, target, mark, phase, inCur>> /\ Leave
      /\ pc' = "idle"
  BY DEF LeaveWith, Leave, sourceVars
<1>2. phase' = "Poisoned"
  BY <1>1 DEF IInv, CallsInStep
<1>3. AbstractState' = "broken"
  BY <1>1, <1>2 DEF AbstractState, ResetSteps, Active
<1>4. delivered' \o buf' = delivered \o buf
  BY <1>1, LeaveKeepsOut
<1>5. \/ AbstractPos' = AbstractPos
      \/ AbstractPos < StreamLen /\ AbstractPos' = AbstractPos + Abstract!Result.n
  <2>1. CASE pending' = pending
    BY <1>1, <2>1 DEF AbstractPos
  <2>2. CASE pending' # pending
    <3>1. pending' = <<>> /\ AbstractPos' = inCur
      BY <1>1, <2>2 DEF AbstractPos
    <3> QED BY <2>2, <3>1, SlotIsResult
  <2> QED BY <2>1, <2>2
<1> QED BY <1>1, <1>3, <1>4, <1>5 DEF Abstract!Next, Abstract!Break, Abstract!sourceVars

\* A value of the decoder's own reset or finish is encoded.
LEMMA MarkRefines ==
    ASSUME IInv, ~faulty, pc \in {"resetValues", "finishValues"}, pc' = pc,
           NEW o \in EncodeOne(mark, AvailableOutput),
           Accept(Value(IF pc = "resetValues" THEN "reset" ELSE "finish", 0), o),
           UNCHANGED <<faulty, stream, tail, target, mark, inCur, delivered>>
    PROVE  Abstract!Next
<1> DEFINE sub == IF pc = "resetValues" THEN "reset" ELSE "finish"
           v == Value(sub, 0)
<1>1. v \in Values /\ mark \in TargetType /\ pc # "idle"
  BY Types DEF Value, Values
<1>2. /\ o.n \in Abstract!Widths(mark) /\ pending' = <<>>
      /\ delivered \o buf' = Append(delivered \o buf, Encoding(v, o.n))
  BY <1>1, AcceptRoom
<1>3. Encoding(v, o.n) = [sub |-> sub, at |-> 0, len |-> o.n]
  BY DEF Encoding, Value
<1>4. pending = <<>> /\ AbstractPos' = AbstractPos
  BY <1>2 DEF IInv, SlotInStep, ResetSteps, AbstractPos
<1>5. /\ AbstractState = IF pc = "resetValues" THEN "opening" ELSE "closing"
      /\ AbstractState' = AbstractState
  BY DEF AbstractState, ResetSteps
<1>6. sub = IF AbstractState = "opening" THEN "reset" ELSE "finish"
  BY <1>5
<1>7. \E n \in Abstract!Widths(mark) :
         delivered' \o buf' = Append(delivered \o buf, [sub |-> sub, at |-> 0, len |-> n])
  BY <1>2, <1>3
<1> HIDE DEF sub
<1> QED
  BY <1>4, <1>5, <1>6, <1>7 DEF Abstract!Next, Abstract!Mark, Abstract!sourceVars

\* The value in the slot is encoded.
LEMMA TakeRefines ==
    ASSUME IInv, ~faulty, pc \in {"drain", "encode", "finishDrain"}, pending # <<>>,
           NEW o \in EncodeOne(TargetOf(pending[1]), AvailableOutput),
           Accept(pending[1], o), AbstractState' = AbstractState,
           UNCHANGED <<faulty, stream, tail, target, mark, inCur, delivered>>
    PROVE  Abstract!Next
<1> DEFINE v == pending[1]
<1>1. /\ v \in Values /\ TargetOf(v) \in TargetType /\ pc # "idle"
      /\ TargetOf(v) = target[v.at]
  BY PendingFacts
<1>2. /\ o.n \in Abstract!Widths(target[v.at]) /\ pending' = <<>>
      /\ delivered \o buf' = Append(delivered \o buf, Encoding(v, o.n))
  BY <1>1, AcceptRoom
<1>3. AbstractState = "open"
  BY StateFacts DEF TranscodeSteps, IInv, SlotInStep
<1>4. /\ AbstractPos = v.at /\ AbstractPos < StreamLen
      /\ Abstract!Result.act = "Emit" /\ Abstract!Result.sub = v.sub
      /\ AbstractPos + Abstract!Result.n = inCur
  BY SlotIsResult
<1>5. AbstractPos' = inCur
  BY <1>2 DEF AbstractPos
<1>6. Encoding(v, o.n) = [sub |-> Abstract!Result.sub, at |-> AbstractPos, len |-> o.n]
  BY <1>4 DEF Encoding
<1>7. \E n \in Abstract!Widths(target[AbstractPos]) :
         delivered' \o buf'
           = Append(delivered \o buf,
                    [sub |-> Abstract!Result.sub, at |-> AbstractPos, len |-> n])
  BY <1>2, <1>4, <1>6
<1> QED
  BY <1>3, <1>4, <1>5, <1>7 DEF Abstract!Next, Abstract!Take, Abstract!sourceVars

\* A transcode call that fails, on the item or on the value in the slot.
LEMMA RefuseRefines ==
    ASSUME IInv, ~faulty, pc \in TranscodeSteps, NEW tag, StopFailed(tag), pending' = <<>>,
           IF pending = <<>>
           THEN inCur < StreamLen
                  /\ Abstract!Whole(stream[inCur + 1], StreamLen - inCur).act = "Reject"
           ELSE Abstract!Unencodable(TargetOf(pending[1]))
    PROVE  Abstract!Next
<1>1. /\ UNCHANGED <<faulty, stream, tail, target, mark, phase, inCur>> /\ Leave
      /\ pc' = "idle" /\ failed'
  BY DEF StopFailed, Leave, guardVars, sourceVars
<1>2. AbstractState = "open" /\ phase = "Streaming"
  BY StateFacts DEF IInv, CallsInStep
<1>3. AbstractState' = "rejected"
  BY <1>1, <1>2 DEF AbstractState, ResetSteps, Active
<1>4. delivered' \o buf' = delivered \o buf
  BY <1>1, LeaveKeepsOut
<1>5. AbstractPos' = inCur
  BY <1>1 DEF AbstractPos
<1>6. CASE pending = <<>>
  <2>1. AbstractPos = inCur
    BY <1>6 DEF AbstractPos
  <2>2. AbstractPos < StreamLen /\ Abstract!Result.act = "Reject"
    BY <1>6, <2>1 DEF Abstract!Result
  <2> QED
    BY <1>1, <1>2, <1>3, <1>4, <1>5, <2>1, <2>2
       DEF Abstract!Next, Abstract!Refuse, Abstract!sourceVars
<1>7. CASE pending # <<>>
  <2>1. /\ AbstractPos < StreamLen /\ Abstract!Result.act = "Emit"
        /\ AbstractPos + Abstract!Result.n = inCur
        /\ Abstract!Unencodable(target[AbstractPos])
    BY <1>7, SlotIsResult, PendingFacts
  <2> QED
    BY <1>1, <1>2, <1>3, <1>4, <1>5, <2>1
       DEF Abstract!Next, Abstract!Refuse, Abstract!sourceVars
<1> QED BY <1>6, <1>7

LEMMA ResetRefines ==
    ASSUME IInv, ~faulty, UNCHANGED <<faulty, stream, tail, target, mark>>, Reset
    PROVE  [Abstract!Next]_(Abstract!vars)
<1>1. ASSUME NEW w \in Windows, ResetRefused(w) PROVE UNCHANGED Abstract!vars
  BY <1>1, QuietRefines DEF ResetRefused, guardVars, AbstractState, AbstractPos
<1>2. ASSUME NEW w \in Windows, ResetBegin(w) PROVE Abstract!Next
  <2>1. /\ pc' = "resetEncoder" /\ pending' = <<>> /\ inCur' = 0
        /\ delivered' = <<>> /\ buf' = <<>>
    BY <1>2 DEF ResetBegin, IInv, CallsInStep
  <2>2. AbstractState' = "opening" /\ AbstractPos' = 0 /\ delivered' \o buf' = <<>>
    BY <2>1 DEF AbstractState, AbstractPos, ResetSteps
  <2> QED BY <2>2 DEF Abstract!Next, Abstract!Open, Abstract!sourceVars
<1>3. CASE ResetEncoder \/ ResetDecoder
  <2>1. pc \in ResetSteps /\ UNCHANGED pending
    BY <1>3 DEF ResetEncoder, ResetDecoder, ResetSteps
  <2>2. CASE \E tag \in Tags : LeaveWith(tag)
    BY <2>1, <2>2, BreakRefines
  <2>3. CASE pc' \in ResetSteps /\ UNCHANGED <<inCur, buf, delivered>>
    BY <2>1, <2>3, QuietRefines DEF AbstractState, AbstractPos
  <2>4. \/ \E tag \in Tags : LeaveWith(tag)
        \/ pc' \in ResetSteps /\ UNCHANGED <<inCur, buf, delivered>>
    BY <1>3, FailureTagFacts
       DEF ResetEncoder, ResetDecoder, ResetSteps, FailureTags, Tags
  <2> QED BY <2>2, <2>3, <2>4
<1>4. CASE ResetValue
  <2>0. pc = "resetValues" /\ queue > 0 /\ UNCHANGED <<dPhase, ePhase>>
    BY <1>4 DEF ResetValue
  <2>1. PICK o \in EncodeOne(mark, AvailableOutput) :
          \/ /\ Accept(Value("reset", 0), o)
             /\ UNCHANGED <<pc, inCur, delivered>>
          \/ Aborts(Value("reset", 0), o)
    BY <1>4 DEF ResetValue
  <2>2. CASE Accept(Value("reset", 0), o) /\ UNCHANGED <<pc, inCur, delivered>>
    BY <2>0, <2>2, MarkRefines
  <2>3. CASE Aborts(Value("reset", 0), o)
    <3>1. MaxEncode <= outLen - outCur
      BY <2>0, QueueRoom
    <3>2. mark \in TargetType /\ (Lies(mark) => LyingTarget)
      BY Types DEF LyingTarget
    <3>3. pending' = <<>> /\ \E tag \in Tags : LeaveWith(tag)
      BY <2>0, <2>3, <3>1, <3>2, AbortsIInv
    <3> QED BY <2>0, <3>3, BreakRefines DEF ResetSteps
  <2> QED BY <2>1, <2>2, <2>3
<1>5. CASE ResetDone
  <2>1. /\ pc = "resetValues" /\ ~failed /\ pc' = "idle" /\ phase' = "Fresh" /\ Leave
        /\ UNCHANGED <<pending, inCur, failed>>
    BY <1>5 DEF ResetDone, Leave, OnResetSuccess, IInv, CallsInStep, ResetSteps
  <2>2. AbstractState = "opening" /\ AbstractState' = "open" /\ AbstractPos' = AbstractPos
    BY <2>1 DEF AbstractState, AbstractPos, ResetSteps, Active
  <2>3. delivered' \o buf' = delivered \o buf
    BY <2>1, LeaveKeepsOut
  <2> QED BY <2>2, <2>3 DEF Abstract!Next, Abstract!Opened, Abstract!sourceVars
<1> QED BY <1>1, <1>2, <1>3, <1>4, <1>5 DEF Reset

LEMMA TranscodeRefines ==
    ASSUME IInv, ~faulty, UNCHANGED <<faulty, stream, tail, target, mark>>, Transcode
    PROVE  UNCHANGED Abstract!vars
<1>1. PICK e \in BOOLEAN, w \in Windows : Begin(e, w)
  BY DEF Transcode
<1>2. /\ pc = "idle" /\ ~failed /\ inCur = base
      /\ UNCHANGED <<pending, buf, delivered, failed>>
  BY <1>1 DEF Begin, IInv, CallsInStep, TranscodeSteps
<1>3. CASE BeginRefused
  BY <1>2, <1>3, QuietRefines DEF BeginRefused, AbstractState, AbstractPos
<1>4. CASE BeginBadIndex(w) \/ BeginSteps(e, w)
  <2>1. /\ phase \in Active /\ phase' = "Streaming" /\ pc' \in {"idle", "drain"}
        /\ inCur' = inCur
    BY <1>2, <1>4, TranscodePhase DEF BeginBadIndex, BeginSteps
  <2>2. AbstractState' = AbstractState /\ AbstractPos' = AbstractPos
    BY <1>2, <2>1 DEF AbstractState, AbstractPos, ResetSteps, Active
  <2> QED BY <1>2, <2>2, QuietRefines
<1> QED BY <1>1, <1>3, <1>4 DEF Begin

\* A transcode call that stops with progress.
LEMMA StopWithRefines ==
    ASSUME IInv, ~faulty, UNCHANGED <<faulty, stream, tail, target, mark>>,
           pc \in TranscodeSteps, NEW tag, NEW required, StopWith(tag, required),
           UNCHANGED pending
    PROVE  UNCHANGED Abstract!vars
<1>1. pc' = "idle" /\ Leave /\ UNCHANGED <<phase, inCur, failed>>
  BY DEF StopWith, Leave, guardVars
<1>2. phase = "Streaming" /\ ~failed /\ AbstractState = "open"
  BY StateFacts DEF IInv, CallsInStep
<1>3. AbstractState' = "open" /\ AbstractPos' = AbstractPos
  BY <1>1, <1>2 DEF AbstractState, AbstractPos, ResetSteps, Active
<1> QED BY <1>1, <1>2, <1>3, LeaveKeepsOut, QuietRefines

LEMMA EncodePendingRefines ==
    ASSUME IInv, ~faulty, UNCHANGED <<faulty, stream, tail, target, mark>>, EncodePending
    PROVE  [Abstract!Next]_(Abstract!vars)
<1> DEFINE t == TargetOf(pending[1])
<1>0. /\ pc \in {"drain", "encode"} /\ pc \in TranscodeSteps /\ pc # "idle"
      /\ pending # <<>> /\ t \in TargetType
  BY PendingFacts DEF EncodePending, TranscodeSteps
<1>1. PICK o \in EncodeOne(t, AvailableOutput) :
        \/ /\ Accept(pending[1], o)
           /\ pc' = "loop"
           /\ UNCHANGED <<guardVars, inCur, delivered, failed>>
        \/ StopWith("NeedOutput", o.n) /\ UNCHANGED pending
        \/ o.kind = "Error" /\ pending' = <<>> /\ StopFailed("EncodeError")
        \/ Panics(o) /\ pending' = <<>> /\ StopFailed("Panic")
  BY DEF EncodePending
<1>2. CASE /\ Accept(pending[1], o)
           /\ pc' = "loop"
           /\ UNCHANGED <<guardVars, inCur, delivered, failed>>
  <2>1. AbstractState' = AbstractState
    BY <1>0, <1>2 DEF AbstractState, guardVars, ResetSteps, IInv, CallsInStep, Active
  <2> QED BY <1>0, <1>2, <2>1, TakeRefines
<1>3. CASE StopWith("NeedOutput", o.n) /\ UNCHANGED pending
  BY <1>0, <1>3, StopWithRefines
<1>4. CASE \/ o.kind = "Error" /\ pending' = <<>> /\ StopFailed("EncodeError")
           \/ Panics(o) /\ pending' = <<>> /\ StopFailed("Panic")
  <2>1. o.kind = "Error" \/ o.kind = "Panic"
    BY <1>0, <1>4, PanicsFacts
  <2>2. Abstract!Unencodable(t)
    BY <1>0, <2>1, RoomFacts, EncodeOneFacts DEF Lies, Abstract!Lies, Abstract!Unencodable
  <2> QED BY <1>0, <1>4, <2>2, RefuseRefines
<1> QED BY <1>1, <1>2, <1>3, <1>4

LEMMA ConvertNextRefines ==
    ASSUME IInv, ~faulty, UNCHANGED <<faulty, stream, tail, target, mark>>, ConvertNext
    PROVE  [Abstract!Next]_(Abstract!vars)
<1>0. /\ pc = "loop" /\ pc \in TranscodeSteps /\ HasInput /\ pending = <<>>
      /\ AbstractPos = inCur /\ AbstractState = "open"
      /\ phase = "Streaming" /\ ~failed
  BY ConvertNextCases, StateFacts DEF TranscodeSteps, AbstractPos, IInv, CallsInStep
<1>1. PICK o \in DecodeOne(stream[inCur + 1], tail, AvailableInput, eof) :
        \/ Emits(o)
        \/ Skips(o)
        \/ StopWith("NeedInput", o.n) /\ UNCHANGED pending
        \/ o.kind = "Error" /\ StopFailed("DecodeError") /\ pending' = <<>>
  BY ConvertNextCases
<1> DEFINE r == Abstract!Whole(stream[inCur + 1], StreamLen - inCur)
<1>2. /\ o.kind = "Skipped" => r.act = "Skip" /\ r.n = o.n
      /\ o.kind = "Error" => r.act = "Reject"
      /\ inCur < StreamLen
  BY <1>0, AtItem, Types, DecodeOneIsWhole
<1>3. CASE Emits(o)
  <2>1. /\ pending' # <<>> /\ pending'[1].at = inCur /\ pc' = "encode"
        /\ UNCHANGED <<phase, failed, buf, delivered>>
    BY <1>3 DEF Emits, Value, guardVars
  <2>2. AbstractPos' = AbstractPos /\ AbstractState' = AbstractState
    BY <1>0, <2>1 DEF AbstractPos, AbstractState, ResetSteps, Active
  <2> QED BY <2>1, <2>2, QuietRefines
<1>4. CASE Skips(o)
  <2>1. /\ pending' = <<>> /\ inCur' = inCur + o.n /\ o.kind = "Skipped"
        /\ UNCHANGED <<pc, phase, failed, buf, delivered>>
    BY <1>0, <1>4 DEF Skips, guardVars
  <2>2. AbstractPos' = AbstractPos + o.n /\ AbstractState' = "open"
    BY <1>0, <2>1 DEF AbstractPos, AbstractState, ResetSteps, Active
  <2>3. Abstract!Result = r
    BY <1>0 DEF Abstract!Result
  <2> HIDE DEF r
  <2> QED
    BY <1>0, <1>2, <2>1, <2>2, <2>3 DEF Abstract!Next, Abstract!Take, Abstract!sourceVars
<1>5. CASE StopWith("NeedInput", o.n) /\ UNCHANGED pending
  BY <1>0, <1>5, StopWithRefines
<1>6. CASE o.kind = "Error" /\ StopFailed("DecodeError") /\ pending' = <<>>
  BY <1>0, <1>2, <1>6, RefuseRefines
<1> QED BY <1>1, <1>3, <1>4, <1>5, <1>6

LEMMA LoopRefines ==
    ASSUME IInv, ~faulty, UNCHANGED <<faulty, stream, tail, target, mark>>, Loop
    PROVE  [Abstract!Next]_(Abstract!vars)
<1>1. CASE NothingPending
  <2>1. /\ pc = "drain" /\ pc' = "loop" /\ phase = "Streaming"
        /\ UNCHANGED <<phase, pending, inCur, buf, delivered, failed>>
    BY <1>1 DEF NothingPending, guardVars, IInv, CallsInStep, TranscodeSteps
  <2>2. AbstractPos' = AbstractPos /\ AbstractState' = AbstractState
    BY <2>1 DEF AbstractPos, AbstractState, ResetSteps, Active
  <2> QED BY <2>1, <2>2, QuietRefines
<1>2. CASE StopComplete \/ StopNeedInput
  <2>1. pc \in TranscodeSteps /\ UNCHANGED pending
        /\ \/ StopWith("Complete", 0)
           \/ StopWith("NeedInput", MinUnits)
    BY <1>2 DEF StopComplete, StopNeedInput, TranscodeSteps
  <2> QED BY <2>1, StopWithRefines
<1> QED BY <1>1, <1>2, EncodePendingRefines, ConvertNextRefines DEF Loop

LEMMA FinishRefines ==
    ASSUME IInv, ~faulty, UNCHANGED <<faulty, stream, tail, target, mark>>, Finish
    PROVE  [Abstract!Next]_(Abstract!vars)
<1>1. ASSUME NEW w \in Windows, FinishRefused(w) PROVE UNCHANGED Abstract!vars
  BY <1>1, QuietRefines DEF FinishRefused, guardVars, AbstractState, AbstractPos
<1>2. ASSUME NEW w \in Windows, FinishBegin(w) PROVE UNCHANGED Abstract!vars
  <2>1. /\ pc = "idle" /\ pc' = "finishDrain" /\ FinishFailure(w) = "none"
        /\ UNCHANGED <<pending, inCur, buf, delivered, failed>>
    BY <1>2 DEF FinishBegin
  <2>2. phase \in Active
    BY <2>1, Types DEF FinishFailure, OnFinishFailure, Active, Phases
  <2>3. AbstractPos' = AbstractPos /\ AbstractState' = AbstractState
    BY <2>1, <2>2 DEF AbstractPos, AbstractState, ResetSteps
  <2> QED BY <2>1, <2>3, QuietRefines
<1>3. CASE FinishDrain
  <2>0. pc = "finishDrain" /\ UNCHANGED <<dPhase, ePhase>>
    BY <1>3 DEF FinishDrain
  <2>1. CASE /\ pending = <<>> /\ pc' = "finishDecoder"
             /\ UNCHANGED <<phase, pending, inCur, buf, delivered, failed>>
    <3>1. AbstractPos' = AbstractPos /\ AbstractState' = AbstractState
      BY <2>0, <2>1 DEF AbstractPos, AbstractState, ResetSteps
    <3> QED BY <2>1, <3>1, QuietRefines
  <2>2. CASE /\ pending # <<>>
             /\ \E o \in EncodeOne(TargetOf(pending[1]), AvailableOutput) :
                  \/ /\ Accept(pending[1], o) /\ pc' = "finishDecoder"
                     /\ UNCHANGED <<inCur, delivered, failed>>
                  \/ Aborts(pending[1], o)
    <3>1. PICK o \in EncodeOne(TargetOf(pending[1]), AvailableOutput) :
                  \/ /\ Accept(pending[1], o) /\ pc' = "finishDecoder"
                     /\ UNCHANGED <<inCur, delivered, failed>>
                  \/ Aborts(pending[1], o)
      BY <2>2
    <3>2. CASE /\ Accept(pending[1], o) /\ pc' = "finishDecoder"
               /\ UNCHANGED <<inCur, delivered, failed>>
      <4>1. AbstractState' = AbstractState
        BY <2>0, <3>2 DEF AbstractState, ResetSteps
      <4> QED BY <2>0, <2>2, <3>2, <4>1, TakeRefines
    <3>3. CASE Aborts(pending[1], o)
      <4>1. MaxEncode <= outLen - outCur
        BY <2>0, <2>2, QueueRoom
      <4>2. pending' = <<>> /\ \E tag \in Tags : LeaveWith(tag)
        BY <2>0, <2>2, <3>3, <4>1, PendingFacts, AbortsIInv
      <4> QED BY <2>0, <4>2, BreakRefines DEF FinishSteps
    <3> QED BY <3>1, <3>2, <3>3
  <2> QED BY <1>3, <2>1, <2>2 DEF FinishDrain
<1>4. CASE FinishDecoder
  <2>0. pc = "finishDecoder" /\ UNCHANGED pending /\ OnFinishFailure(dPhase) \in Tags
    BY <1>4, Types, FailureTagFacts DEF FinishDecoder
  <2>1. CASE \E tag \in Tags : LeaveWith(tag)
    BY <2>0, <2>1, BreakRefines DEF FinishSteps
  <2>2. CASE pc' = "finishValues" /\ UNCHANGED <<inCur, buf, delivered>>
    <3>1. /\ AbstractState \in {"open", "rejected"} /\ AbstractState' = "closing"
          /\ AbstractPos' = AbstractPos
      BY <2>0, <2>2 DEF AbstractState, AbstractPos, ResetSteps
    <3> QED BY <2>2, <3>1 DEF Abstract!Next, Abstract!Close, Abstract!sourceVars
  <2> QED BY <1>4, <2>0, <2>1, <2>2 DEF FinishDecoder, FailureTags, Tags
<1>5. CASE FinishValue
  <2>0. pc = "finishValues" /\ UNCHANGED <<dPhase, ePhase>>
    BY <1>5 DEF FinishValue
  <2>1. CASE /\ pc' = "finishEncoder"
             /\ UNCHANGED <<pending, inCur, buf, delivered>>
    <3>1. AbstractPos' = AbstractPos /\ AbstractState' = AbstractState
      BY <2>0, <2>1 DEF AbstractPos, AbstractState, ResetSteps
    <3> QED BY <2>1, <3>1, QuietRefines
  <2>2. CASE /\ queue > 0
             /\ \E o \in EncodeOne(mark, AvailableOutput) :
                  \/ /\ Accept(Value("finish", 0), o) /\ UNCHANGED <<pc, inCur, delivered>>
                  \/ Aborts(Value("finish", 0), o)
    <3>1. PICK o \in EncodeOne(mark, AvailableOutput) :
                  \/ /\ Accept(Value("finish", 0), o) /\ UNCHANGED <<pc, inCur, delivered>>
                  \/ Aborts(Value("finish", 0), o)
      BY <2>2
    <3>2. CASE Accept(Value("finish", 0), o) /\ UNCHANGED <<pc, inCur, delivered>>
      BY <2>0, <3>2, MarkRefines
    <3>3. CASE Aborts(Value("finish", 0), o)
      <4>1. MaxEncode <= outLen - outCur
        BY <2>0, <2>2, QueueRoom
      <4>2. mark \in TargetType /\ (Lies(mark) => LyingTarget)
        BY Types DEF LyingTarget
      <4>3. pending' = <<>> /\ \E tag \in Tags : LeaveWith(tag)
        BY <2>0, <3>3, <4>1, <4>2, AbortsIInv
      <4> QED BY <2>0, <4>3, BreakRefines DEF FinishSteps
    <3> QED BY <3>1, <3>2, <3>3
  <2> QED BY <1>5, <2>1, <2>2 DEF FinishValue
<1>6. CASE FinishEncoder
  <2>0. pc = "finishEncoder" /\ UNCHANGED pending
    BY <1>6, FinishEncoderCases
  <2>1. CASE \E tag \in FailureTags("FinishError", LyingTarget) : LeaveWith(tag)
    BY <2>0, <2>1, BreakRefines DEF FinishSteps
  <2>2. CASE phase' = "Finished" /\ Leave /\ UNCHANGED inCur
    <3>1. AbstractState = "closing" /\ AbstractState' = "done" /\ AbstractPos' = AbstractPos
      BY <2>0, <2>2 DEF Leave, AbstractState, AbstractPos, ResetSteps, Active
    <3>2. delivered' \o buf' = delivered \o buf
      BY <2>2, LeaveKeepsOut
    <3> QED BY <3>1, <3>2 DEF Abstract!Next, Abstract!Closed, Abstract!sourceVars
  <2> QED BY <1>6, <2>1, <2>2, FinishEncoderCases
<1> QED BY <1>1, <1>2, <1>3, <1>4, <1>5, <1>6 DEF Finish

\* However calls, windows and failures cut a conversion into pieces, every value
\* of the stream is encoded once and in order, the decoder's reset values before
\* them and its finish values after them: the converter implements ConvertStream.
THEOREM ConverterImplementsStream == Spec => ImplementsConvertStream
<1>1. Init => Abstract!Init
  <2> SUFFICES ASSUME Init PROVE Abstract!Init
    OBVIOUS
  <2>1. AbstractState = "new" /\ AbstractPos = 0 /\ delivered \o buf = <<>>
    BY DEF Init, AbstractState, AbstractPos, ResetSteps, NewGuard, Active
  <2> QED BY <2>1 DEF Init, Abstract!Init
<1>2. IInv /\ [Next]_vars => [Abstract!Next]_(Abstract!vars)
  <2> SUFFICES ASSUME IInv, [Next]_vars PROVE [Abstract!Next]_(Abstract!vars)
    OBVIOUS
  <2>1. UNCHANGED <<faulty, stream, tail, target, mark>>
    BY DEF Next, Transcoder, Arrive, Reset, ResetRefused, ResetBegin, ResetEncoder,
           ResetDecoder, ResetValue, ResetDone, Transcode, Begin, Loop, EncodePending,
           NothingPending, StopComplete, StopNeedInput, ConvertNext, Finish,
           FinishRefused, FinishBegin, FinishDrain, FinishDecoder, FinishValue,
           FinishEncoder, LeaveWith, Aborts, StopWith, StopFailed, sourceVars, vars
  <2>2. CASE faulty
    BY <2>1, <2>2, FaultyRefines
  <2>3. CASE ~faulty /\ Arrive
    BY <2>1, <2>3, QuietRefines DEF Arrive, guardVars, AbstractState, AbstractPos
  <2>4. CASE ~faulty /\ Transcoder
    BY <2>1, <2>4, ResetRefines, TranscodeRefines, LoopRefines, FinishRefines
       DEF Transcoder
  <2>5. CASE ~faulty /\ UNCHANGED vars
    BY <2>1, <2>5, QuietRefines DEF vars, guardVars, AbstractState, AbstractPos
  <2> QED BY <2>2, <2>3, <2>4, <2>5 DEF Next
<1> QED
  BY <1>1, <1>2, InductiveInvariant, PTL
     DEF Spec, ImplementsConvertStream, Abstract!Spec

=============================================================================
