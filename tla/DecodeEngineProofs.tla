------------------------- MODULE DecodeEngineProofs -------------------------
(* Theorems about DecodeEngine, for every stream length, every unit bound, *)
(* every set of items, windows and tail policies.                          *)
EXTENDS DecodeEngineProps, TLAPS

----------------------------------------------------------------------------
(* One decode attempt.                                                     *)

\* What apply_incomplete_decode makes of a non-empty tail.
LEMMA ApplyIncompleteFacts ==
    ASSUME NEW t \in Actions, NEW avail \in Nat \ {0}
    PROVE  LET o == ApplyIncomplete(t, avail)
           IN  /\ o.kind \in {"Emitted", "Skipped", "Error"}
               /\ o.n \in Nat
               /\ o.kind = "Emitted" => o.n \in 1..avail /\ o.sub = "tail"
               /\ o.kind = "Skipped" => o.n \in 1..avail
  BY DEF ApplyIncomplete, Actions, Outcome

\* decode_one on avail > 0 visible units consumes between one and avail of
\* them, asks for more than it sees only while more may come, and trips an
\* assertion only when codec or hooks are faulty.
LEMMA DecodeOneFacts ==
    ASSUME NEW item \in Items, NEW t \in Actions, NEW avail \in Nat \ {0},
           NEW e \in BOOLEAN, NEW o \in DecodeOne(item, t, avail, e)
    PROVE  /\ o.kind \in OutcomeKinds
           /\ o.n \in Nat
           /\ o.kind = "Emitted" => /\ o.n \in 1..avail
                                    /\ o.sub \in {"value", "replacement", "tail"}
           /\ o.kind = "Skipped" => o.n \in 1..avail
           /\ o.kind = "NeedInput" => o.n > avail /\ o.n <= MaxUnits /\ ~e
           /\ o.kind = "Panic" => Faulty
<1> USE DecodeStepAssumption
<1>1. CASE avail < MinUnits
  <2>1. CASE e
    BY <1>1, <2>1, ApplyIncompleteFacts DEF DecodeOne, OutcomeKinds
  <2>2. CASE ~e
    BY <1>1, <2>2 DEF DecodeOne, Outcome, OutcomeKinds
  <2> QED BY <2>1, <2>2
<1>2. CASE ~(avail < MinUnits)
  <2> DEFINE answers == CodecDecode(item, avail, e)
  <2>0. /\ item.width \in MinUnits..MaxUnits
        /\ item.consumed \in 1..MaxUnits
        /\ item.consumed <= item.width
        /\ item.action \in Actions
        /\ item.kind \in {"value", "munch", "invalid"}
    BY DEF ItemType
  <2>1. \A a \in answers : a.n \in Nat \ {0} /\ a.res \in {"Ok", "Incomplete", "Invalid"}
    BY <1>2, <2>0 DEF CodecDecode, HonestDecode, Answer
  <2>2. ~Faulty => \A a \in answers :
                      /\ a.res = "Ok" => a.n <= avail /\ a.n <= MaxUnits
                      /\ a.res = "Incomplete" => a.n > avail /\ a.n <= MaxUnits
                      /\ a.res = "Invalid" => item.width <= avail
    BY <1>2, <2>0 DEF CodecDecode, HonestDecode, Answer
  <2>3. \/ \E a \in answers : a.res = "Ok" /\ o = ApplyOk(a.n, avail)
        \/ \E a \in answers : /\ a.res = "Incomplete"
                              /\ o = ApplyIncompleteAnswer(a.n, t, avail, e)
        \/ \E a \in answers : /\ a.res = "Invalid"
                              /\ \E n \in HookConsumed(item) :
                                    o = ApplyInvalid(item, n, avail)
    BY <1>2 DEF DecodeOne
  <2> HIDE DEF answers
  <2>4. CASE \E a \in answers : a.res = "Ok" /\ o = ApplyOk(a.n, avail)
    BY <2>1, <2>2, <2>4 DEF ApplyOk, Outcome, OutcomeKinds
  <2>5. CASE \E a \in answers : /\ a.res = "Incomplete"
                                /\ o = ApplyIncompleteAnswer(a.n, t, avail, e)
    <3> PICK a \in answers : /\ a.res = "Incomplete"
                             /\ o = ApplyIncompleteAnswer(a.n, t, avail, e)
      BY <2>5
    <3>1. CASE a.n <= avail \/ a.n > MaxUnits
      BY <2>1, <2>2, <3>1 DEF ApplyIncompleteAnswer, Outcome, OutcomeKinds
    <3>2. CASE ~(a.n <= avail \/ a.n > MaxUnits) /\ ~e
      BY <2>1, <3>2 DEF ApplyIncompleteAnswer, Outcome, OutcomeKinds
    <3>3. CASE ~(a.n <= avail \/ a.n > MaxUnits) /\ e
      BY <2>1, <3>3, ApplyIncompleteFacts DEF ApplyIncompleteAnswer, OutcomeKinds
    <3> QED BY <3>1, <3>2, <3>3
  <2>6. CASE \E a \in answers : /\ a.res = "Invalid"
                                /\ \E n \in HookConsumed(item) :
                                      o = ApplyInvalid(item, n, avail)
    <3>1. PICK a \in answers, n \in HookConsumed(item) :
             a.res = "Invalid" /\ o = ApplyInvalid(item, n, avail)
      BY <2>6
    <3>2. n \in Nat \ {0} /\ (~Faulty => n <= avail)
      BY <2>0, <2>2, <3>1 DEF HookConsumed
    <3>3. CASE item.action = "Reject"
      BY <3>1, <3>3 DEF ApplyInvalid, Outcome, OutcomeKinds
    <3>4. CASE item.action # "Reject" /\ n > avail
      BY <3>1, <3>2, <3>4 DEF ApplyInvalid, Outcome, OutcomeKinds
    <3>5. CASE item.action = "Skip" /\ ~(n > avail)
      BY <3>1, <3>2, <3>5 DEF ApplyInvalid, Outcome, OutcomeKinds
    <3>6. CASE item.action = "Emit" /\ ~(n > avail)
      BY <3>1, <3>2, <3>6 DEF ApplyInvalid, Outcome, OutcomeKinds
    <3> QED BY <2>0, <3>3, <3>4, <3>5, <3>6 DEF Actions
  <2> QED BY <2>3, <2>4, <2>5, <2>6
<1> QED BY <1>1, <1>2

----------------------------------------------------------------------------
(* The inductive invariant.                                                *)

\* k values of a reset or a finish are a sequence of values.
LEMMA MarksType ==
    ASSUME NEW k \in Nat, NEW sub \in {"reset", "finish"}
    PROVE  Marks(sub, k) \in Seq(Values)
  BY DEF Marks, Value, Values

\* Every return is a tag with three numbers.
LEMMA ReturnType ==
    /\ \A tag \in Tags : Return(tag) \in Returns /\ Return(tag).tag = tag
    /\ \A tag \in Tags, k \in Nat : Wrote(tag, k) \in Returns /\ Wrote(tag, k).tag = tag
    /\ \A tag \in Tags, i \in Nat, j \in Nat, k \in Nat :
          Progress(tag, i, j, k) \in Returns /\ Progress(tag, i, j, k).tag = tag
  BY DEF Return, Wrote, Progress, Returns

\* The failures a preflight check names are tags of a return, and no panic.
LEMMA FailureTagFacts ==
    /\ \A p \in Phases : /\ OnTranscodeFailure(p) \in Tags \ {"Panic"}
                         /\ OnFinishFailure(p) \in Tags \ {"Panic"}
    /\ \A a, b, c, d : IndexFailure(a, b, c, d) \in Tags \ {"Panic"}
    /\ \A a, b, c : /\ CapacityFailure(a, b, c) \in Tags \ {"Panic"}
                    /\ PlannedCapacityFailure(a, b, c) \in Tags \ {"Panic"}
  BY DEF OnTranscodeFailure, OnFinishFailure, IndexFailure, CapacityFailure,
         PlannedCapacityFailure, Tags, LifecycleFailures, IndexFailures,
         CapacityFailures, Phases

LEMMA InitIInv == Init => IInv
<1> USE DecodeStepAssumption, DecodeEngineAssumption, UsizeMaxAssumption
<1> SUFFICES ASSUME Init PROVE IInv
  OBVIOUS
<1>1. TypeOK
  <2>1. ret \in Returns
    BY ReturnType DEF Init, Tags
  <2>2. buf \in Seq(Values) /\ delivered \in Seq(Values)
    BY DEF Init
  <2>3. eof \in BOOLEAN /\ failed \in BOOLEAN
    BY Zenon DEF Init
  <2>4. /\ visible \in 0..StreamLen /\ base \in 0..StreamLen /\ inCur \in 0..StreamLen
        /\ outStart \in Nat /\ outLen \in Nat
    BY DEF Init
  <2> QED
    BY <2>1, <2>2, <2>3, <2>4 DEF Init, TypeOK, Phases, NewGuard, UserStates
<1>2. DecodesOnlyOpenStreams
  BY DEF Init, DecodesOnlyOpenStreams, NewGuard, Active
<1>3. CursorsStayInBuffers /\ CallsLeaveNoState
  BY DEF Init, CursorsStayInBuffers, CallsLeaveNoState
<1>4. HonestCodecNeverPanics
  BY DEF Init, HonestCodecNeverPanics, Return, Progress
<1> QED BY <1>1, <1>2, <1>3, <1>4 DEF IInv

LEMMA ArriveIInv == IInv /\ Arrive => IInv'
<1> USE DecodeStepAssumption, DecodeEngineAssumption, UsizeMaxAssumption
<1> SUFFICES ASSUME IInv, Arrive PROVE IInv'
  OBVIOUS
<1> USE DEF Arrive, engineVars, sourceVars, callVars
<1>1. TypeOK'
  BY DEF IInv, TypeOK
<1>2. DecodesOnlyOpenStreams' /\ HonestCodecNeverPanics'
  BY DEF IInv, DecodesOnlyOpenStreams, HonestCodecNeverPanics
<1>3. CursorsStayInBuffers' /\ CallsLeaveNoState'
  BY DEF IInv, TypeOK, CursorsStayInBuffers, CallsLeaveNoState
<1> QED BY <1>1, <1>2, <1>3 DEF IInv

LEMMA ResetIInv == IInv /\ Reset => IInv'
<1> USE DecodeStepAssumption, DecodeEngineAssumption, UsizeMaxAssumption
<1> SUFFICES ASSUME IInv, Reset PROVE IInv'
  OBVIOUS
<1>0. /\ pc = "idle"
      /\ UNCHANGED <<stream, tail, pc, eof, outStart, outLen, buf>>
  BY DEF Reset, sourceVars
<1>1. PICK w \in Windows :
        \/ ResetRefused(w)
        \/ ResetFails
        \/ ResetPanics
        \/ \E written \in 0..MaxReset : ResetSucceeds(written)
  BY DEF Reset
<1>2. CASE ResetRefused(w)
  <2>1. /\ ret' = Return(CapacityFailure(w[2], w[1], MaxReset))
        /\ UNCHANGED <<phase, codec, hooks, visible, base, inCur, delivered, failed>>
    BY <1>2 DEF ResetRefused, engineVars
  <2>2. /\ ret' \in Returns
        /\ ret'.tag # "Panic"
    <3>1. CapacityFailure(w[2], w[1], MaxReset) \in Tags \ {"Panic"}
      BY FailureTagFacts
    <3> QED BY <2>1, <3>1, ReturnType
  <2> QED
    BY <1>0, <2>1, <2>2 DEF IInv, TypeOK, DecodesOnlyOpenStreams,
       CursorsStayInBuffers, CallsLeaveNoState, HonestCodecNeverPanics
<1>3. CASE ResetFails \/ ResetPanics
  <2>1. /\ phase' = "Poisoned" /\ codec' = "broken" /\ hooks' = "open"
        /\ UNCHANGED <<visible, base, inCur, delivered, failed>>
    BY <1>3 DEF ResetFails, ResetPanics, OnResetStart
  <2>2. \/ ret' = Return("ResetError")
        \/ Faulty /\ ret' = Return("Panic")
    BY <1>3 DEF ResetFails, ResetPanics
  <2>3. /\ ret' \in Returns
        /\ ~Faulty => ret'.tag # "Panic"
    <3>1. {"ResetError", "Panic"} \subseteq Tags
      BY DEF Tags
    <3>2. /\ Return("ResetError") \in Returns /\ Return("Panic") \in Returns
          /\ Return("ResetError").tag = "ResetError"
      BY <3>1, ReturnType
    <3> QED BY <2>2, <3>2
  <2> QED
    BY <1>0, <2>1, <2>3 DEF IInv, TypeOK, DecodesOnlyOpenStreams, Active, Phases,
       UserStates, CursorsStayInBuffers, CallsLeaveNoState, HonestCodecNeverPanics
<1>4. CASE \E written \in 0..MaxReset : ResetSucceeds(written)
  <2>1. PICK written \in 0..MaxReset : ResetSucceeds(written)
    BY <1>4
  <2>2. /\ phase' = "Fresh" /\ codec' = "open" /\ hooks' = "open"
        /\ visible' = 0 /\ base' = 0 /\ inCur' = 0 /\ failed' = FALSE
        /\ delivered' = Marks("reset", written)
        /\ ret' = Wrote("ResetOk", written)
    BY <2>1 DEF ResetSucceeds, OnResetSuccess
  <2>3. /\ ret' \in Returns
        /\ ret'.tag # "Panic"
        /\ delivered' \in Seq(Values)
    <3>1. written \in Nat /\ "ResetOk" \in Tags /\ "ResetOk" # "Panic"
      BY DEF Tags
    <3> QED BY <2>2, <3>1, ReturnType, MarksType
  <2>4. TypeOK'
    <3>1. failed' \in BOOLEAN /\ eof' \in BOOLEAN
      BY <1>0, <2>2, Zenon DEF IInv, TypeOK
    <3>2. visible' \in 0..StreamLen /\ base' \in 0..StreamLen /\ inCur' \in 0..StreamLen
      BY <2>2
    <3> QED
      BY <1>0, <2>2, <2>3, <3>1, <3>2 DEF IInv, TypeOK, Phases, UserStates
  <2>5. DecodesOnlyOpenStreams' /\ HonestCodecNeverPanics'
    BY <1>0, <2>2, <2>3 DEF DecodesOnlyOpenStreams, Active, HonestCodecNeverPanics
  <2>6. CursorsStayInBuffers' /\ CallsLeaveNoState'
    BY <1>0, <2>2 DEF IInv, CursorsStayInBuffers, CallsLeaveNoState
  <2> QED BY <2>4, <2>5, <2>6 DEF IInv
<1> QED BY <1>1, <1>2, <1>3, <1>4

LEMMA TranscodeIInv == IInv /\ Transcode => IInv'
<1> USE DecodeStepAssumption, DecodeEngineAssumption, UsizeMaxAssumption
<1> SUFFICES ASSUME IInv, NEW e \in BOOLEAN, NEW w \in Windows, Begin(e, w)
             PROVE  IInv'
  BY DEF Transcode
<1>0. /\ pc = "idle" /\ ~failed /\ (e => visible = StreamLen)
      /\ UNCHANGED <<stream, tail, visible, base, delivered, failed>>
      /\ w[1] \in Nat /\ w[2] \in Nat
  BY DEF Begin, sourceVars
<1>1. \/ BeginRefused
      \/ \E i : BeginBadIndex(i, w)
      \/ BeginLoop(e, w)
  BY DEF Begin
<1>2. CASE BeginRefused
  <2>1. /\ ret' = Return(OnTranscodeFailure(phase))
        /\ UNCHANGED <<phase, codec, hooks, pc, eof, inCur, outStart, outLen, buf>>
    BY <1>2 DEF BeginRefused, engineVars, callVars
  <2>2. /\ ret' \in Returns
        /\ ret'.tag # "Panic"
    <3>1. OnTranscodeFailure(phase) \in Tags \ {"Panic"}
      BY FailureTagFacts DEF IInv, TypeOK
    <3> QED BY <2>1, <3>1, ReturnType
  <2> QED
    BY <1>0, <2>1, <2>2 DEF IInv, TypeOK, DecodesOnlyOpenStreams,
       CursorsStayInBuffers, CallsLeaveNoState, HonestCodecNeverPanics
<1>a. OnTranscodeFailure(phase) = "none"
        => phase \in Active /\ OnTranscode(phase) = "Streaming"
  BY DEF OnTranscodeFailure, OnTranscode, Active, IInv, TypeOK, Phases
<1>3. CASE \E i : BeginBadIndex(i, w)
  <2>1. PICK i : BeginBadIndex(i, w)
    BY <1>3
  <2>2. /\ phase' = "Streaming" /\ phase \in Active
        /\ ret' = Return(IndexFailure(visible, i, w[2], w[1]))
        /\ UNCHANGED <<codec, hooks, pc, eof, inCur, outStart, outLen, buf>>
    BY <2>1, <1>a DEF BeginBadIndex, callVars
  <2>3. /\ ret' \in Returns
        /\ ret'.tag # "Panic"
    <3>1. IndexFailure(visible, i, w[2], w[1]) \in Tags \ {"Panic"}
      BY FailureTagFacts
    <3> QED BY <2>2, <3>1, ReturnType
  <2> QED
    BY <1>0, <2>2, <2>3 DEF IInv, TypeOK, Phases, DecodesOnlyOpenStreams,
       CursorsStayInBuffers, CallsLeaveNoState, HonestCodecNeverPanics
<1>4. CASE BeginLoop(e, w)
  <2>1. /\ phase' = "Streaming" /\ phase \in Active
        /\ pc' = "loop" /\ eof' = e /\ inCur' = base
        /\ outStart' = w[1] /\ outLen' = w[2] /\ buf' = <<>>
        /\ ret' = Return("none")
        /\ UNCHANGED <<codec, hooks>>
    BY <1>4, <1>a DEF BeginLoop
  <2>2. w[1] <= w[2]
    BY <1>0, <1>4 DEF BeginLoop, IndexFailure
  <2>3. /\ ret' \in Returns
        /\ ret'.tag = "none"
    BY <2>1, ReturnType DEF Tags
  <2>4. TypeOK' /\ DecodesOnlyOpenStreams' /\ HonestCodecNeverPanics'
    BY <1>0, <2>1, <2>3 DEF IInv, TypeOK, Phases, DecodesOnlyOpenStreams,
       HonestCodecNeverPanics
  <2>5. CursorsStayInBuffers' /\ CallsLeaveNoState'
    BY <1>0, <2>1, <2>2, <2>3 DEF IInv, TypeOK, CursorsStayInBuffers,
       CallsLeaveNoState, OutCur
  <2> QED BY <2>4, <2>5 DEF IInv
<1> QED BY <1>1, <1>2, <1>3, <1>4

----------------------------------------------------------------------------
(* The steps of the loop.                                                  *)

\* What leaving the loop does, whichever way.
LEMMA LeaveLoopFacts ==
    ASSUME IInv, pc = "loop", LeaveLoop
    PROVE  /\ pc' = "idle" /\ eof' = FALSE /\ outStart' = 0 /\ outLen' = 0
           /\ buf' = <<>>
           /\ UNCHANGED <<phase, codec, hooks, stream, tail, visible, inCur>>
           /\ delivered' \in Seq(Values)
           /\ eof' \in BOOLEAN
           /\ DecodesOnlyOpenStreams'
           /\ CursorsStayInBuffers'
<1>1. /\ pc' = "idle" /\ eof' = FALSE /\ outStart' = 0 /\ outLen' = 0
      /\ buf' = <<>> /\ delivered' = delivered \o buf
      /\ UNCHANGED <<phase, codec, hooks, stream, tail, visible, inCur>>
  BY DEF LeaveLoop, engineVars, sourceVars
<1>2. delivered' \in Seq(Values)
  BY <1>1 DEF IInv, TypeOK
<1>3. eof' \in BOOLEAN
  BY <1>1, Zenon
<1>4. DecodesOnlyOpenStreams' /\ CursorsStayInBuffers'
  BY <1>1 DEF IInv, DecodesOnlyOpenStreams, CursorsStayInBuffers
<1> QED BY <1>1, <1>2, <1>3, <1>4

LEMMA LeaveLoopTypes ==
    ASSUME IInv, pc = "loop", LeaveLoop, base' = inCur \/ base' = base,
           failed' \in BOOLEAN, ret' \in Returns
    PROVE  TypeOK'
<1>1. /\ pc' = "idle" /\ outStart' = 0 /\ outLen' = 0 /\ buf' = <<>>
      /\ UNCHANGED <<phase, codec, hooks, stream, tail, visible, inCur>>
      /\ delivered' \in Seq(Values) /\ eof' \in BOOLEAN
  BY LeaveLoopFacts
<1>2. /\ phase' \in Phases /\ codec' \in UserStates /\ hooks' \in UserStates
      /\ stream' \in [Positions -> Items] /\ tail' \in Tails
      /\ visible' \in 0..StreamLen /\ inCur' \in 0..StreamLen
      /\ base' \in 0..StreamLen
  BY <1>1 DEF IInv, TypeOK
<1>3. outStart' \in Nat /\ outLen' \in Nat /\ buf' \in Seq(Values)
  BY <1>1
<1> QED BY <1>1, <1>2, <1>3 DEF TypeOK

LEMMA StopWithIInv ==
    ASSUME IInv, pc = "loop", NEW tag \in ProgressTags, NEW required \in Nat,
           StopWith(tag, required)
    PROVE  IInv'
<1> USE DecodeStepAssumption, DecodeEngineAssumption, UsizeMaxAssumption
<1>1. /\ ret' = Progress(tag, required, ReadCount, WrittenCount)
      /\ base' = inCur /\ failed' = failed /\ LeaveLoop
  BY DEF StopWith
<1>2. ReadCount \in Nat /\ WrittenCount \in Nat
  BY DEF ReadCount, WrittenCount, OutCur, IInv, TypeOK, CursorsStayInBuffers
<1>3. ret' \in Returns /\ ret'.tag # "Panic"
  <2>1. tag \in Tags /\ tag # "Panic"
    BY DEF ProgressTags, Tags
  <2> QED BY <1>1, <1>2, <2>1, ReturnType
<1>4. ~failed
  BY DEF IInv, CallsLeaveNoState
<1>5. TypeOK'
  <2>1. failed' \in BOOLEAN
    BY <1>1, Zenon DEF IInv, TypeOK
  <2> QED BY <1>1, <1>3, <2>1, LeaveLoopTypes
<1>6. CallsLeaveNoState' /\ HonestCodecNeverPanics'
  BY <1>1, <1>3, <1>4, LeaveLoopFacts
     DEF IInv, CallsLeaveNoState, HonestCodecNeverPanics
<1> QED BY <1>1, <1>5, <1>6, LeaveLoopFacts DEF IInv

LEMMA StopFailedIInv ==
    ASSUME IInv, pc = "loop", NEW tag \in {"DecodeError", "Panic"},
           tag = "Panic" => Faulty, StopFailed(tag)
    PROVE  IInv'
<1> USE DecodeStepAssumption, DecodeEngineAssumption, UsizeMaxAssumption
<1>1. /\ ret' = Return(tag) /\ failed' = TRUE /\ base' = base /\ LeaveLoop
  BY DEF StopFailed
<1>2. ret' \in Returns /\ (~Faulty => ret'.tag # "Panic")
  <2>1. tag \in Tags
    BY DEF Tags
  <2> QED BY <1>1, <2>1, ReturnType
<1>3. failed' \in BOOLEAN
  BY <1>1, Zenon
<1>4. TypeOK'
  BY <1>1, <1>2, <1>3, LeaveLoopTypes
<1>5. CallsLeaveNoState' /\ HonestCodecNeverPanics'
  BY <1>1, <1>2, LeaveLoopFacts DEF IInv, CallsLeaveNoState, HonestCodecNeverPanics
<1> QED BY <1>1, <1>4, <1>5, LeaveLoopFacts DEF IInv

LEMMA StopIInv ==
    IInv /\ (StopComplete \/ StopNeedInput \/ StopNeedOutput) => IInv'
<1> USE DecodeStepAssumption
<1>1. IInv /\ StopComplete => IInv'
  BY StopWithIInv DEF StopComplete, ProgressTags
<1>2. IInv /\ StopNeedInput => IInv'
  BY StopWithIInv DEF StopNeedInput, ProgressTags
<1>3. IInv /\ StopNeedOutput => IInv'
  BY StopWithIInv DEF StopNeedOutput, ProgressTags
<1> QED BY <1>1, <1>2, <1>3

\* The state in which the loop reaches decode_one, and what the outcome is then
\* known to be. The assertions of DecodeState never fire: those of decode_one
\* come first.
LEMMA ReachesDecodeOneFacts ==
    ASSUME IInv, ReachesDecodeOne,
           NEW o \in DecodeOne(stream[inCur + 1], tail, AvailableInput, eof)
    PROVE  /\ pc = "loop"
           /\ AvailableInput \in Nat \ {0}
           /\ stream[inCur + 1] \in Items
           /\ OutCur < outLen
           /\ OutcomeFits(o)
           /\ o.kind \in OutcomeKinds
           /\ o.n \in Nat
           /\ o.kind = "Emitted" => /\ o.n \in 1..AvailableInput
                                    /\ o.sub \in {"value", "replacement", "tail"}
           /\ o.kind = "Skipped" => o.n \in 1..AvailableInput
           /\ o.kind = "NeedInput" => o.n > AvailableInput /\ ~eof
           /\ o.kind = "Panic" => Faulty
<1> USE DecodeStepAssumption, DecodeEngineAssumption, UsizeMaxAssumption
<1>1. /\ pc = "loop" /\ inCur < visible /\ OutCur # outLen
      /\ visible \in 0..StreamLen /\ inCur \in 0..StreamLen
      /\ OutCur \in Nat /\ outLen \in Nat /\ OutCur <= outLen
  BY DEF ReachesDecodeOne, HasInput, NeedsOutput, OutCur, IInv, TypeOK,
         CursorsStayInBuffers
<1>2. AvailableInput \in Nat \ {0} /\ inCur + 1 \in Positions /\ OutCur < outLen
  BY <1>1 DEF AvailableInput, Positions
<1>3. stream[inCur + 1] \in Items /\ tail \in Actions /\ eof \in BOOLEAN
  BY <1>2 DEF IInv, TypeOK
<1>4. /\ o.kind \in OutcomeKinds
      /\ o.n \in Nat
      /\ o.kind = "Emitted" => /\ o.n \in 1..AvailableInput
                               /\ o.sub \in {"value", "replacement", "tail"}
      /\ o.kind = "Skipped" => o.n \in 1..AvailableInput
      /\ o.kind = "NeedInput" => o.n > AvailableInput /\ ~eof
      /\ o.kind = "Panic" => Faulty
  BY <1>2, <1>3, DecodeOneFacts
<1>5. OutcomeFits(o)
  BY <1>1, <1>2, <1>4 DEF OutcomeFits, AvailableOutput
<1> QED BY <1>1, <1>2, <1>3, <1>4, <1>5

LEMMA DecodeIInv == IInv /\ Decode => IInv'
<1> USE DecodeStepAssumption, DecodeEngineAssumption, UsizeMaxAssumption
<1> SUFFICES ASSUME IInv, ReachesDecodeOne,
                    NEW o \in DecodeOne(stream[inCur + 1], tail, AvailableInput, eof),
                    \/ OutcomeFits(o) /\ AcceptEmitted(o)
                    \/ OutcomeFits(o) /\ AcceptSkipped(o)
                    \/ AcceptNeedInput(o)
                    \/ o.kind = "Error" /\ StopFailed("DecodeError")
                    \/ (o.kind = "Panic" \/ ~OutcomeFits(o)) /\ StopFailed("Panic")
             PROVE  IInv'
  BY DEF Decode
<1>1. CASE AcceptEmitted(o)
  <2>1. /\ inCur' = inCur + o.n
        /\ buf' = Append(buf, Value(o.sub, inCur))
        /\ UNCHANGED <<phase, codec, hooks, stream, tail, visible, base, pc, eof,
                       outStart, outLen, delivered, failed, ret>>
        /\ o.kind = "Emitted"
    BY <1>1 DEF AcceptEmitted, engineVars, sourceVars
  <2>2. inCur' \in 0..StreamLen /\ base <= inCur' /\ inCur' <= visible
    BY <2>1, ReachesDecodeOneFacts
       DEF AvailableInput, IInv, TypeOK, CursorsStayInBuffers
  <2>3. Value(o.sub, inCur) \in Values
    BY <2>1, ReachesDecodeOneFacts DEF Value, Values, IInv, TypeOK
  <2>4. buf' \in Seq(Values) /\ Len(buf') = Len(buf) + 1
    BY <2>1, <2>3 DEF IInv, TypeOK
  <2>5. OutCur' <= outLen'
    BY <2>1, <2>4, ReachesDecodeOneFacts DEF OutCur, IInv, TypeOK
  <2>6. TypeOK' /\ DecodesOnlyOpenStreams' /\ HonestCodecNeverPanics'
    BY <2>1, <2>2, <2>4 DEF IInv, TypeOK, DecodesOnlyOpenStreams, HonestCodecNeverPanics
  <2>7. CursorsStayInBuffers' /\ CallsLeaveNoState'
    BY <2>1, <2>2, <2>5, ReachesDecodeOneFacts
       DEF IInv, CursorsStayInBuffers, CallsLeaveNoState
  <2> QED BY <2>6, <2>7 DEF IInv
<1>2. CASE AcceptSkipped(o)
  <2>1. /\ inCur' = inCur + o.n
        /\ UNCHANGED <<phase, codec, hooks, stream, tail, visible, base, pc, eof,
                       outStart, outLen, buf, delivered, failed, ret>>
        /\ o.kind = "Skipped"
    BY <1>2 DEF AcceptSkipped, engineVars, sourceVars
  <2>2. inCur' \in 0..StreamLen /\ base <= inCur' /\ inCur' <= visible
    BY <2>1, ReachesDecodeOneFacts
       DEF AvailableInput, IInv, TypeOK, CursorsStayInBuffers
  <2>3. TypeOK' /\ DecodesOnlyOpenStreams' /\ HonestCodecNeverPanics'
    BY <2>1, <2>2 DEF IInv, TypeOK, DecodesOnlyOpenStreams, HonestCodecNeverPanics
  <2>4. CursorsStayInBuffers' /\ CallsLeaveNoState'
    BY <2>1, <2>2, ReachesDecodeOneFacts
       DEF IInv, CursorsStayInBuffers, CallsLeaveNoState, OutCur
  <2> QED BY <2>3, <2>4 DEF IInv
<1>3. CASE AcceptNeedInput(o)
  BY <1>3, ReachesDecodeOneFacts, StopWithIInv DEF AcceptNeedInput, ProgressTags
<1>4. CASE o.kind = "Error" /\ StopFailed("DecodeError")
  BY <1>4, ReachesDecodeOneFacts, StopFailedIInv
<1>5. CASE (o.kind = "Panic" \/ ~OutcomeFits(o)) /\ StopFailed("Panic")
  BY <1>5, ReachesDecodeOneFacts, StopFailedIInv
<1> QED BY <1>1, <1>2, <1>3, <1>4, <1>5

----------------------------------------------------------------------------
LEMMA FinishIInv == IInv /\ Finish => IInv'
<1> USE DecodeStepAssumption, DecodeEngineAssumption, UsizeMaxAssumption
<1> SUFFICES ASSUME IInv, Finish PROVE IInv'
  OBVIOUS
<1>0. /\ pc = "idle"
      /\ UNCHANGED <<stream, tail, visible, base, pc, eof, inCur, outStart, outLen,
                     buf, failed>>
  BY DEF Finish, sourceVars, callVars
<1>1. PICK hookBound \in HookBounds, w \in Windows :
        \/ FinishRefused(hookBound, w)
        \/ FinishCodecFails
        \/ FinishHooksFail
        \/ \E finished \in 0..MaxFinish, written \in 0..hookBound :
              FinishSucceeds(finished, written)
  BY DEF Finish
<1>2. CASE FinishRefused(hookBound, w)
  <2>1. /\ ret' = Return(FinishFailure(hookBound, w))
        /\ UNCHANGED <<phase, codec, hooks, delivered>>
    BY <1>2 DEF FinishRefused, engineVars
  <2>2. /\ ret' \in Returns
        /\ ret'.tag # "Panic"
    <3>1. FinishFailure(hookBound, w) \in Tags \ {"Panic"}
      BY FailureTagFacts DEF FinishFailure, IInv, TypeOK
    <3> QED BY <2>1, <3>1, ReturnType
  <2> QED
    BY <1>0, <2>1, <2>2 DEF IInv, TypeOK, DecodesOnlyOpenStreams,
       CursorsStayInBuffers, CallsLeaveNoState, HonestCodecNeverPanics
<1>3. CASE FinishCodecFails \/ FinishHooksFail
  <2>1. /\ phase' = "Poisoned" /\ codec' \in UserStates /\ hooks' \in UserStates
        /\ delivered' = delivered
    BY <1>3 DEF FinishCodecFails, FinishHooksFail, OnFinishStart, UserStates, IInv, TypeOK
  <2>2. \/ ret' = Return("FinishError") \/ ret' = Return("HookFinishError")
        \/ Faulty /\ ret' = Return("Panic")
    BY <1>3 DEF FinishCodecFails, FinishHooksFail
  <2>3. /\ ret' \in Returns
        /\ ~Faulty => ret'.tag # "Panic"
    <3>1. {"FinishError", "HookFinishError", "Panic"} \subseteq Tags
      BY DEF Tags
    <3>2. /\ Return("FinishError") \in Returns /\ Return("HookFinishError") \in Returns
          /\ Return("Panic") \in Returns
          /\ Return("FinishError").tag = "FinishError"
          /\ Return("HookFinishError").tag = "HookFinishError"
      BY <3>1, ReturnType
    <3> QED BY <2>2, <3>2
  <2> QED
    BY <1>0, <2>1, <2>3 DEF IInv, TypeOK, DecodesOnlyOpenStreams, Active, Phases,
       CursorsStayInBuffers, CallsLeaveNoState, HonestCodecNeverPanics
<1>4. CASE \E finished \in 0..MaxFinish, written \in 0..hookBound :
             FinishSucceeds(finished, written)
  <2>1. PICK finished \in 0..MaxFinish, written \in 0..hookBound :
          FinishSucceeds(finished, written)
    BY <1>4
  <2>2. finished + written \in Nat
    OBVIOUS
  <2>3. /\ phase' = "Finished" /\ codec' = "closed" /\ hooks' = "closed"
        /\ ret' = Wrote("FinishOk", finished + written)
        /\ delivered' = delivered \o Marks("finish", finished + written)
    BY <2>1 DEF FinishSucceeds, OnFinishSuccess
  <2>4. /\ ret' \in Returns
        /\ ret'.tag # "Panic"
    <3>1. "FinishOk" \in Tags /\ "FinishOk" # "Panic"
      BY DEF Tags
    <3> QED BY <2>2, <2>3, <3>1, ReturnType
  <2>5. delivered' \in Seq(Values)
    BY <2>2, <2>3, MarksType DEF IInv, TypeOK
  <2> QED
    BY <1>0, <2>3, <2>4, <2>5 DEF IInv, TypeOK, Phases, UserStates, Active,
       DecodesOnlyOpenStreams, CursorsStayInBuffers, CallsLeaveNoState,
       HonestCodecNeverPanics
<1> QED BY <1>1, <1>2, <1>3, <1>4

LEMMA StutterIInv == IInv /\ UNCHANGED vars => IInv'
  BY DEF IInv, TypeOK, DecodesOnlyOpenStreams, CursorsStayInBuffers, OutCur,
         CallsLeaveNoState, HonestCodecNeverPanics, vars, engineVars, sourceVars,
         callVars

LEMMA NextIInv == IInv /\ [Next]_vars => IInv'
  BY ArriveIInv, ResetIInv, TranscodeIInv, StopIInv, DecodeIInv, FinishIInv,
     StutterIInv DEF Next, Transcoder, Loop

----------------------------------------------------------------------------
(* The theorems.                                                           *)

\* The conjunction of the safety invariants is inductive: no call sequence,
\* window, stream or answer of codec and hooks leaves it.
THEOREM InductiveInvariant == Spec => []IInv
  BY InitIInv, NextIInv, PTL DEF Spec

\* Every variable keeps its type, the reported counts of a progress included:
\* read and written are never negative.
THEOREM TypeCorrect == Spec => []TypeOK
<1>1. IInv => TypeOK
  BY DEF IInv
<1> QED BY <1>1, InductiveInvariant, PTL

\* Codec and hooks decode only between a complete reset and the first finish
\* that passes its preflight.
THEOREM OpenStreamsOnly == Spec => []DecodesOnlyOpenStreams
<1>1. IInv => DecodesOnlyOpenStreams
  BY DEF IInv
<1> QED BY <1>1, InductiveInvariant, PTL

\* The assertions of decode_one and DecodeState keep the cursors inside the
\* caller's slices whatever codec and hooks report.
THEOREM CursorsInBuffers == Spec => []CursorsStayInBuffers
<1>1. IInv => CursorsStayInBuffers
  BY DEF IInv
<1> QED BY <1>1, InductiveInvariant, PTL

\* No assertion of the engine fires for a codec and hooks that keep their
\* contracts.
THEOREM NoPanic == Spec => []HonestCodecNeverPanics
<1>1. IInv => HonestCodecNeverPanics
  BY DEF IInv
<1> QED BY <1>1, InductiveInvariant, PTL

----------------------------------------------------------------------------
(* Action properties.                                                      *)

\* An iteration of the loop goes on without touching what the caller sees, or
\* returns a progress that the cursors justify, or returns an error.
Continues ==
    UNCHANGED <<phase, codec, hooks, visible, base, pc, delivered, failed, ret>>

Justified(tag, required) ==
    \/ tag = "Complete" /\ ~HasInput
    \/ tag = "NeedInput" /\ required > AvailableInput /\ ~eof
    \/ tag = "NeedOutput" /\ required = 1 /\ NeedsOutput

LEMMA LoopStepFacts ==
    ASSUME IInv, Loop
    PROVE  /\ pc = "loop"
           /\ \/ Continues
              \/ \E tag \in ProgressTags, required \in Nat :
                    StopWith(tag, required) /\ Justified(tag, required)
              \/ StopFailed("DecodeError")
              \/ StopFailed("Panic")
<1> USE DecodeStepAssumption
<1>1. CASE StopComplete
  BY <1>1 DEF StopComplete, Justified, ProgressTags
<1>2. CASE StopNeedInput
  BY <1>2 DEF StopNeedInput, Justified, ProgressTags, AvailableInput, IInv, TypeOK
<1>3. CASE StopNeedOutput
  BY <1>3 DEF StopNeedOutput, Justified, ProgressTags
<1>4. CASE Decode
  <2>0. ReachesDecodeOne /\ pc = "loop"
    BY <1>4 DEF Decode, ReachesDecodeOne
  <2>1. PICK o \in DecodeOne(stream[inCur + 1], tail, AvailableInput, eof) :
           \/ OutcomeFits(o) /\ AcceptEmitted(o)
           \/ OutcomeFits(o) /\ AcceptSkipped(o)
           \/ AcceptNeedInput(o)
           \/ o.kind = "Error" /\ StopFailed("DecodeError")
           \/ (o.kind = "Panic" \/ ~OutcomeFits(o)) /\ StopFailed("Panic")
    BY <1>4 DEF Decode
  <2>2. CASE AcceptEmitted(o) \/ AcceptSkipped(o)
    BY <2>0, <2>2 DEF AcceptEmitted, AcceptSkipped, Continues, engineVars
  <2>3. CASE AcceptNeedInput(o)
    <3>1. o.n \in Nat /\ o.n > AvailableInput /\ ~eof
      BY <2>0, <2>3, ReachesDecodeOneFacts DEF AcceptNeedInput
    <3> QED BY <2>0, <2>3, <3>1 DEF AcceptNeedInput, Justified, ProgressTags
  <2> QED BY <2>0, <2>1, <2>2, <2>3
<1> QED BY <1>1, <1>2, <1>3, <1>4 DEF Loop

\* Outside the loop no call is running.
LEMMA IdleSteps ==
    ASSUME Arrive \/ Reset \/ Transcode \/ Finish
    PROVE  pc = "idle"
  BY DEF Arrive, Reset, Transcode, Begin, Finish

\* Every Ok(progress) the engine returns passes TranscodeProgress::validate
\* with the bounds of its call, faulty codecs and hooks included.
THEOREM ProgressIsValid == Spec => ProgressHonoursContract
<1> DEFINE A == pc = "loop" /\ pc' = "idle" /\ ~failed'
                  => Validate(ret', base, visible - base, outStart, outLen - outStart)
                       = "none"
<1>1. IInv /\ [Next]_vars => [A]_vars
  <2> SUFFICES ASSUME IInv, Next, pc = "loop", pc' = "idle", ~failed'
               PROVE  Validate(ret', base, visible - base, outStart, outLen - outStart)
                        = "none"
    OBVIOUS
  <2>1. Loop
    BY IdleSteps DEF Next, Transcoder
  <2>2. PICK tag \in ProgressTags, required \in Nat :
           StopWith(tag, required) /\ Justified(tag, required)
    BY <2>1, LoopStepFacts DEF Continues, StopFailed
  <2>3. ret' = Progress(tag, required, inCur - base, Len(buf))
    BY <2>2 DEF StopWith, ReadCount, WrittenCount, OutCur, IInv, TypeOK
  <2>4. /\ base \in Nat /\ inCur \in Nat /\ visible \in Nat /\ visible <= UsizeMax
        /\ base <= inCur /\ inCur <= visible
        /\ outStart \in Nat /\ outLen \in Nat /\ Len(buf) \in Nat
        /\ outStart + Len(buf) <= outLen /\ outLen <= UsizeMax
    BY DecodeEngineAssumption, UsizeMaxAssumption
       DEF IInv, TypeOK, CursorsStayInBuffers, CallsLeaveNoState, OutCur
  <2>5. \/ tag = "Complete" /\ inCur = visible
        \/ tag = "NeedInput" /\ required > visible - inCur
        \/ tag = "NeedOutput" /\ required = 1 /\ outStart + Len(buf) = outLen
    BY <2>2, <2>4 DEF Justified, HasInput, AvailableInput, NeedsOutput, OutCur
  <2> QED
    BY <2>3, <2>4, <2>5, UsizeMaxAssumption DEF Validate, Progress
<1> QED BY <1>1, InductiveInvariant, PTL DEF Spec, ProgressHonoursContract

\* A call that announced the end of input never asks for more input.
THEOREM EofNeedsNoInput == Spec => EofNeverNeedsInput
<1> DEFINE A == pc = "loop" /\ eof => ret'.tag # "NeedInput"
<1>1. IInv /\ [Next]_vars => [A]_vars
  <2> SUFFICES ASSUME IInv, Next, pc = "loop", eof
               PROVE  ret'.tag # "NeedInput"
    OBVIOUS
  <2>1. Loop
    BY IdleSteps DEF Next, Transcoder
  <2>2. CASE Continues
    BY <2>2 DEF Continues, IInv, CallsLeaveNoState
  <2>3. CASE \E tag \in ProgressTags, required \in Nat :
               StopWith(tag, required) /\ Justified(tag, required)
    BY <2>3 DEF StopWith, Justified, Progress
  <2>4. CASE StopFailed("DecodeError") \/ StopFailed("Panic")
    BY <2>4 DEF StopFailed, Return, Progress
  <2> QED BY <2>1, <2>2, <2>3, <2>4, LoopStepFacts
<1> QED BY <1>1, InductiveInvariant, PTL DEF Spec, EofNeverNeedsInput

\* A call refused for its output window changes nothing: it can be repeated.
THEOREM CapacityRetryable == Spec => CapacityFailureIsRetryable
<1> DEFINE Kept == UNCHANGED <<phase, codec, hooks, base, delivered, failed>>
           A == ret'.tag \in CapacityFailures
                  => UNCHANGED <<engineVars, base, delivered, failed>>
<1>1. IInv /\ [Next]_vars => [A]_vars
  <2> SUFFICES ASSUME IInv, Next, ret'.tag \in CapacityFailures
               PROVE  Kept
    BY DEF engineVars
  <2>1. CASE Arrive
    BY <2>1 DEF Arrive, engineVars
  <2>2. CASE Reset
    <3>1. PICK w \in Windows :
            \/ ResetRefused(w)
            \/ ResetFails
            \/ ResetPanics
            \/ \E written \in 0..MaxReset : ResetSucceeds(written)
      BY <2>2 DEF Reset
    <3> QED
      BY <3>1 DEF ResetRefused, ResetFails, ResetPanics, ResetSucceeds, engineVars,
         Return, Wrote, Progress, CapacityFailures
  <2>3. CASE Transcode
    <3>1. PICK e \in BOOLEAN, w \in Windows : Begin(e, w)
      BY <2>3 DEF Transcode
    <3>2. phase \in Phases
      BY DEF IInv, TypeOK
    <3> QED
      BY <3>1, <3>2 DEF Begin, BeginRefused, BeginBadIndex, BeginLoop, Return, Progress,
         OnTranscodeFailure, IndexFailure, CapacityFailures, Phases, engineVars
  <2>4. CASE Loop
    <3>1. CASE Continues
      BY <3>1 DEF Continues
    <3>2. CASE \E tag \in ProgressTags, required \in Nat : StopWith(tag, required)
      BY <3>2 DEF StopWith, Progress, ProgressTags, CapacityFailures
    <3>3. CASE StopFailed("DecodeError") \/ StopFailed("Panic")
      BY <3>3 DEF StopFailed, Return, Progress, CapacityFailures
    <3> QED BY <2>4, <3>1, <3>2, <3>3, LoopStepFacts
  <2>5. CASE Finish
    <3>1. PICK hookBound \in HookBounds, w \in Windows :
            \/ FinishRefused(hookBound, w)
            \/ FinishCodecFails
            \/ FinishHooksFail
            \/ \E finished \in 0..MaxFinish, written \in 0..hookBound :
                  FinishSucceeds(finished, written)
      BY <2>5 DEF Finish
    <3>2. UNCHANGED <<base, failed>>
      BY <2>5 DEF Finish
    <3> QED
      BY <3>1, <3>2 DEF FinishRefused, FinishCodecFails, FinishHooksFail,
         FinishSucceeds, engineVars, Return, Wrote, Progress, CapacityFailures
  <2> QED BY <2>1, <2>2, <2>3, <2>4, <2>5 DEF Next, Transcoder
<1> QED BY <1>1, InductiveInvariant, PTL DEF Spec, CapacityFailureIsRetryable

----------------------------------------------------------------------------
(* The output bound of the default hooks.                                  *)

\* Every value of the running call was paid for with at least one unit.
ValuesCostInput == pc = "loop" => Len(buf) <= inCur - base

LEMMA ValuesCostInputStep == IInv /\ ValuesCostInput /\ [Next]_vars => ValuesCostInput'
<1> SUFFICES ASSUME IInv, ValuesCostInput, [Next]_vars, pc' = "loop"
             PROVE  Len(buf') <= inCur' - base'
  BY DEF ValuesCostInput
<1>0. base \in Nat /\ inCur \in Nat /\ buf \in Seq(Values)
  BY DecodeEngineAssumption DEF IInv, TypeOK
<1>1. CASE Arrive \/ Reset \/ Finish
  BY <1>1 DEF Arrive, Reset, Finish, callVars
<1>2. CASE Transcode
  <2>1. PICK e \in BOOLEAN, w \in Windows : Begin(e, w)
    BY <1>2 DEF Transcode
  <2>2. buf' = <<>> /\ inCur' = base /\ base' = base
    BY <2>1 DEF Begin, BeginRefused, BeginBadIndex, BeginLoop, callVars
  <2> QED BY <1>0, <2>2
<1>3. CASE StopComplete \/ StopNeedInput \/ StopNeedOutput
  BY <1>3 DEF StopComplete, StopNeedInput, StopNeedOutput, StopWith, LeaveLoop
<1>4. CASE Decode
  <2>0. ReachesDecodeOne /\ pc = "loop"
    BY <1>4 DEF Decode, ReachesDecodeOne
  <2>1. PICK o \in DecodeOne(stream[inCur + 1], tail, AvailableInput, eof) :
           AcceptEmitted(o) \/ AcceptSkipped(o)
    BY <1>4 DEF Decode, AcceptNeedInput, StopWith, StopFailed, LeaveLoop
  <2>2. o.n \in Nat /\ 1 <= o.n
    <3>1. o.kind \in {"Emitted", "Skipped"}
      BY <2>1 DEF AcceptEmitted, AcceptSkipped
    <3>2. /\ AvailableInput \in Nat /\ o.n \in Nat
          /\ o.kind = "Emitted" => o.n \in 1..AvailableInput
          /\ o.kind = "Skipped" => o.n \in 1..AvailableInput
      BY <2>0, ReachesDecodeOneFacts
    <3> QED BY <3>1, <3>2
  <2>3. /\ inCur' = inCur + o.n /\ base' = base
        /\ buf' = buf \/ buf' = Append(buf, Value(o.sub, inCur))
        /\ Len(buf) <= inCur - base
    BY <2>0, <2>1 DEF AcceptEmitted, AcceptSkipped, ValuesCostInput
  <2>4. Len(buf') <= Len(buf) + 1 /\ Len(buf) \in Nat /\ Len(buf') \in Nat
    <3>1. CASE buf' = buf
      BY <1>0, <3>1
    <3>2. CASE buf' = Append(buf, Value(o.sub, inCur))
      <4>1. o.kind = "Emitted" => Value(o.sub, inCur) \in Values
        BY <1>0, <2>0, ReachesDecodeOneFacts DEF Value, Values
      <4>2. o.kind = "Emitted" \/ buf' = buf
        BY <2>1 DEF AcceptEmitted, AcceptSkipped
      <4> QED BY <1>0, <3>1, <3>2, <4>1, <4>2
    <3> QED BY <2>3, <3>1, <3>2
  <2> QED BY <1>0, <2>2, <2>3, <2>4
<1>5. CASE UNCHANGED vars
  BY <1>5 DEF vars, callVars, ValuesCostInput
<1> QED BY <1>1, <1>2, <1>3, <1>4, <1>5 DEF Next, Transcoder, Loop

\* A call asks for room with input left and its window full.
LEMMA AsksForRoom ==
    ASSUME IInv, Next, pc = "loop", ret'.tag = "NeedOutput"
    PROVE  HasInput /\ NeedsOutput
<1>1. Loop
  BY IdleSteps DEF Next, Transcoder
<1>2. CASE StopComplete \/ StopNeedInput
  BY <1>2 DEF StopComplete, StopNeedInput, StopWith, Progress
<1>3. CASE StopNeedOutput
  BY <1>3 DEF StopNeedOutput
<1>4. CASE Decode
  <2>1. ret'.tag # "NeedOutput"
    BY <1>4 DEF Decode, AcceptEmitted, AcceptSkipped, AcceptNeedInput, StopWith,
       StopFailed, Return, Progress, IInv, CallsLeaveNoState
  <2> QED BY <2>1
<1> QED BY <1>1, <1>2, <1>3, <1>4 DEF Loop

\* With the bound of the default hooks, one value for every input unit, a
\* caller that reserves the bound is never asked for more room, whatever codec
\* and hooks do.
THEOREM DefaultBoundSuffices ==
    ASSUME ~Strict
    PROVE  Spec => OutputBoundSuffices
<1> DEFINE A == pc = "loop" /\ ret'.tag = "NeedOutput"
                  => outLen - outStart < MaxTranscodeOutputLen(visible - base)
<1>1. Init => ValuesCostInput
  BY DEF Init, ValuesCostInput
<1>2. IInv /\ ValuesCostInput /\ [Next]_vars => [A]_vars
  <2> SUFFICES ASSUME IInv, ValuesCostInput, Next, pc = "loop", ret'.tag = "NeedOutput"
               PROVE  outLen - outStart < MaxTranscodeOutputLen(visible - base)
    OBVIOUS
  <2>2. HasInput /\ NeedsOutput
    BY AsksForRoom
  <2>3. /\ base \in Nat /\ inCur \in Nat /\ visible \in Nat
        /\ outStart \in Nat /\ outLen \in Nat /\ Len(buf) \in Nat
    BY DecodeEngineAssumption DEF IInv, TypeOK
  <2> QED
    BY <2>2, <2>3 DEF HasInput, NeedsOutput, OutCur, ValuesCostInput, MaxTranscodeOutputLen
<1> QED
  BY <1>1, <1>2, ValuesCostInputStep, InductiveInvariant, PTL
     DEF Spec, OutputBoundSuffices

----------------------------------------------------------------------------
(* The output bound of the strict adapter.                                 *)

\* Rejecting what is malformed and what is cut, an honest codec takes at least
\* its minimum for every value it emits.
LEMMA StrictDecodeOne ==
    ASSUME ~Faulty, NEW item \in Items, item.action = "Reject",
           NEW avail \in Nat \ {0}, NEW e \in BOOLEAN,
           NEW o \in DecodeOne(item, "Reject", avail, e)
    PROVE  /\ o.kind = "Emitted" => o.n \in Nat /\ MinUnits <= o.n
           /\ o.kind # "Skipped"
<1> USE DecodeStepAssumption
<1>0. item.width \in MinUnits..MaxUnits
  BY DEF ItemType
<1>1. CASE avail < MinUnits
  BY <1>1 DEF DecodeOne, ApplyIncomplete, Outcome
<1>2. CASE ~(avail < MinUnits)
  <2>1. PICK a \in HonestDecode(item, avail, e) :
          \/ a.res = "Ok" /\ o = ApplyOk(a.n, avail)
          \/ a.res = "Incomplete" /\ o = ApplyIncompleteAnswer(a.n, "Reject", avail, e)
          \/ /\ a.res = "Invalid"
             /\ \E n \in HookConsumed(item) : o = ApplyInvalid(item, n, avail)
    BY <1>2 DEF DecodeOne, CodecDecode
  <2>2. a.n \in Nat /\ MinUnits <= a.n
    BY <1>0, <1>2 DEF HonestDecode, Answer
  <2>3. CASE a.res = "Ok" /\ o = ApplyOk(a.n, avail)
    BY <2>2, <2>3 DEF ApplyOk, Outcome
  <2>4. CASE a.res = "Incomplete" /\ o = ApplyIncompleteAnswer(a.n, "Reject", avail, e)
    BY <2>4 DEF ApplyIncompleteAnswer, ApplyIncomplete, Outcome
  <2>5. CASE \E n \in HookConsumed(item) : o = ApplyInvalid(item, n, avail)
    BY <2>5 DEF ApplyInvalid, Outcome
  <2> QED BY <2>1, <2>3, <2>4, <2>5
<1> QED BY <1>1, <1>2

\* The hooks never change, and every value of the running call was paid for
\* with at least the minimum.
ValuesCostMinimum ==
    /\ StrictPolicy
    /\ pc = "loop" => Len(buf) * MinUnits <= inCur - base

LEMMA ValuesCostMinimumStep ==
    ASSUME ~Faulty, IInv, ValuesCostMinimum, [Next]_vars
    PROVE  ValuesCostMinimum'
<1> USE DecodeStepAssumption
<1>0. base \in Nat /\ inCur \in Nat /\ Len(buf) \in Nat /\ buf \in Seq(Values)
  BY DecodeEngineAssumption DEF IInv, TypeOK
<1>1. StrictPolicy'
  <2>1. UNCHANGED <<stream, tail>>
    BY DEF Next, Transcoder, Loop, Arrive, Reset, Transcode, Begin, StopComplete,
           StopNeedInput, StopNeedOutput, Decode, AcceptEmitted, AcceptSkipped,
           AcceptNeedInput, StopWith, StopFailed, LeaveLoop, Finish, vars, sourceVars
  <2> QED BY <2>1 DEF ValuesCostMinimum, StrictPolicy
<1> SUFFICES ASSUME pc' = "loop"
             PROVE  Len(buf') * MinUnits <= inCur' - base'
  BY <1>1 DEF ValuesCostMinimum
<1>2. CASE Arrive \/ Reset \/ Finish
  BY <1>2 DEF Arrive, Reset, Finish, callVars
<1>3. CASE Transcode
  <2>1. PICK e \in BOOLEAN, w \in Windows : Begin(e, w)
    BY <1>3 DEF Transcode
  <2>2. buf' = <<>> /\ inCur' = base /\ base' = base
    BY <2>1 DEF Begin, BeginRefused, BeginBadIndex, BeginLoop, callVars
  <2> QED BY <1>0, <2>2
<1>4. CASE StopComplete \/ StopNeedInput \/ StopNeedOutput
  BY <1>4 DEF StopComplete, StopNeedInput, StopNeedOutput, StopWith, LeaveLoop
<1>5. CASE Decode
  <2>0. ReachesDecodeOne /\ pc = "loop"
    BY <1>5 DEF Decode, ReachesDecodeOne
  <2>1. PICK o \in DecodeOne(stream[inCur + 1], tail, AvailableInput, eof) :
           AcceptEmitted(o) \/ AcceptSkipped(o)
    BY <1>5 DEF Decode, AcceptNeedInput, StopWith, StopFailed, LeaveLoop
  <2>2. /\ AvailableInput \in Nat \ {0} /\ inCur + 1 \in Positions
        /\ stream[inCur + 1] \in Items /\ eof \in BOOLEAN
    BY <2>0, ReachesDecodeOneFacts, DecodeEngineAssumption
       DEF IInv, TypeOK, Positions, AvailableInput, ReachesDecodeOne, HasInput
  <2>3. tail = "Reject" /\ stream[inCur + 1].action = "Reject"
    BY <2>2 DEF ValuesCostMinimum, StrictPolicy
  <2>4. /\ o.kind = "Emitted" => o.n \in Nat /\ MinUnits <= o.n
        /\ o.kind # "Skipped"
    BY <2>1, <2>2, <2>3, StrictDecodeOne
  <2>5. /\ inCur' = inCur + o.n /\ base' = base /\ o.kind = "Emitted"
        /\ buf' = Append(buf, Value(o.sub, inCur))
    BY <2>1, <2>4 DEF AcceptEmitted, AcceptSkipped
  <2>6. Value(o.sub, inCur) \in Values
    BY <1>0, <2>0, <2>1, <2>5, ReachesDecodeOneFacts DEF Value, Values
  <2>7. Len(buf') = Len(buf) + 1
    BY <1>0, <2>5, <2>6
  <2>8. (Len(buf) + 1) * MinUnits = Len(buf) * MinUnits + MinUnits
    BY <1>0
  <2>9. Len(buf) * MinUnits \in Nat /\ Len(buf) * MinUnits <= inCur - base
    BY <1>0, <2>0 DEF ValuesCostMinimum
  <2> QED BY <1>0, <2>4, <2>5, <2>7, <2>8, <2>9
<1>6. CASE UNCHANGED vars
  BY <1>6 DEF vars, callVars, ValuesCostMinimum
<1> QED BY <1>2, <1>3, <1>4, <1>5, <1>6 DEF Next, Transcoder, Loop

\* Rounding up: what k blocks of m units leave over needs one more block.
LEMMA RoundedUp ==
    ASSUME NEW m \in Nat \ {0}, NEW n \in Nat, NEW k \in Nat, k * m < n
    PROVE  k < (n + m - 1) \div m
<1> DEFINE q == (n + m - 1) \div m
<1>1. q \in Int /\ n + m - 1 = m * q + ((n + m - 1) % m) /\ (n + m - 1) % m \in 0..(m - 1)
  OBVIOUS
<1>2. n <= m * q
  BY <1>1
<1> HIDE DEF q
<1>3. k * m < m * q
  BY <1>1, <1>2
<1>4. CASE q <= k
  <2>1. m * (k - q) >= 0 /\ m * (k - q) = k * m - m * q
    BY <1>1, <1>4
  <2> QED BY <1>1, <1>3, <2>1
<1> QED BY <1>1, <1>4 DEF q

\* The strict adapter promises a tighter bound than the default, one value for
\* every MinUnits units rounded up. For a codec that keeps its contract it is
\* enough as well.
THEOREM StrictBoundSuffices ==
    ASSUME Strict, ~Faulty
    PROVE  Spec => OutputBoundSuffices
<1> DEFINE A == pc = "loop" /\ ret'.tag = "NeedOutput"
                  => outLen - outStart < MaxTranscodeOutputLen(visible - base)
<1>1. Init => ValuesCostMinimum
  BY DEF Init, ValuesCostMinimum
<1>2. IInv /\ ValuesCostMinimum /\ [Next]_vars => [A]_vars
  <2> SUFFICES ASSUME IInv, ValuesCostMinimum, Next, pc = "loop", ret'.tag = "NeedOutput"
               PROVE  outLen - outStart < MaxTranscodeOutputLen(visible - base)
    OBVIOUS
  <2>1. HasInput /\ NeedsOutput
    BY AsksForRoom
  <2>2. /\ base \in Nat /\ inCur \in Nat /\ visible \in Nat
        /\ outStart \in Nat /\ outLen \in Nat /\ Len(buf) \in Nat
    BY DecodeEngineAssumption DEF IInv, TypeOK
  <2>3. Len(buf) * MinUnits \in Nat
    BY <2>2, DecodeStepAssumption
  <2>4. visible - base \in Nat /\ Len(buf) * MinUnits < visible - base
    BY <2>1, <2>2, <2>3 DEF HasInput, ValuesCostMinimum
  <2>5. Len(buf) < (visible - base + MinUnits - 1) \div MinUnits
    BY <2>2, <2>4, RoundedUp, DecodeStepAssumption
  <2>6. outLen - outStart = Len(buf)
    BY <2>1, <2>2 DEF NeedsOutput, OutCur
  <2> QED BY <2>5, <2>6 DEF MaxTranscodeOutputLen
<1>3. IInv /\ ValuesCostMinimum /\ [Next]_vars => ValuesCostMinimum'
  BY ValuesCostMinimumStep
<1> QED
  BY <1>1, <1>2, <1>3, InductiveInvariant, PTL DEF Spec, OutputBoundSuffices

----------------------------------------------------------------------------
(* The refinement, for codecs and hooks that keep their contracts.         *)

\* What decode_one makes of the units it sees is what DecodeStream makes of
\* the whole rest of the stream, or a request for more.
LEMMA DecodeOneIsWhole ==
    ASSUME ~Faulty, NEW item \in Items, tail \in Actions,
           NEW avail \in Nat \ {0}, NEW rest \in Nat, avail <= rest,
           NEW e \in BOOLEAN, e => avail = rest,
           NEW o \in DecodeOne(item, tail, avail, e)
    PROVE  /\ o.kind = "Emitted" => /\ Abstract!Whole(item, rest).act = "Emit"
                                    /\ Abstract!Whole(item, rest).n = o.n
                                    /\ Abstract!Whole(item, rest).sub = o.sub
           /\ o.kind = "Skipped" => /\ Abstract!Whole(item, rest).act = "Skip"
                                    /\ Abstract!Whole(item, rest).n = o.n
           /\ o.kind = "Error" => Abstract!Whole(item, rest).act = "Reject"
<1> USE DecodeStepAssumption DEF Outcome, Actions
<1>0. /\ item.width \in MinUnits..MaxUnits
      /\ item.consumed \in 1..MaxUnits /\ item.consumed <= item.width
      /\ item.action \in Actions
      /\ item.kind \in {"value", "munch", "invalid"}
  BY DEF ItemType
<1>1. CASE avail < MinUnits /\ e
  <2>1. o = ApplyIncomplete(tail, rest)
    BY <1>1 DEF DecodeOne
  <2> QED BY <1>1, <2>1 DEF ApplyIncomplete, Abstract!Whole
<1>2. CASE avail < MinUnits /\ ~e
  BY <1>2 DEF DecodeOne
<1>3. CASE ~(avail < MinUnits)
  <2>1. PICK a \in HonestDecode(item, avail, e) :
          \/ a.res = "Ok" /\ o = ApplyOk(a.n, avail)
          \/ a.res = "Incomplete" /\ o = ApplyIncompleteAnswer(a.n, tail, avail, e)
          \/ a.res = "Invalid" /\ o = ApplyInvalid(item, item.consumed, avail)
    BY <1>3 DEF DecodeOne, CodecDecode, HookConsumed
  <2>2. CASE item.width <= avail /\ item.kind # "invalid"
    <3>1. a.res = "Ok" /\ a.n = item.width
      BY <2>2 DEF HonestDecode, Answer
    <3>2. o = ApplyOk(item.width, avail)
      BY <2>1, <3>1
    <3> QED BY <1>0, <1>3, <2>2, <3>2 DEF ApplyOk, Abstract!Whole
  <2>3. CASE item.width <= avail /\ item.kind = "invalid"
    <3>1. a.res = "Invalid"
      BY <2>3 DEF HonestDecode, Answer
    <3>2. o = ApplyInvalid(item, item.consumed, avail)
      BY <2>1, <3>1
    <3> QED BY <1>0, <1>3, <2>3, <3>2 DEF ApplyInvalid, Abstract!Whole
  <2>4. CASE ~(item.width <= avail) /\ e /\ item.kind = "munch"
    <3>1. a.res = "Ok" /\ a.n = avail
      BY <2>4 DEF HonestDecode, Answer
    <3>2. o = ApplyOk(avail, avail)
      BY <2>1, <3>1
    <3> QED BY <1>0, <1>3, <2>4, <3>2 DEF ApplyOk, Abstract!Whole
  <2>5. CASE ~(item.width <= avail) /\ ~(e /\ item.kind = "munch")
    <3>1. a.res = "Incomplete" /\ a.n \in (avail + 1)..item.width
      BY <2>5 DEF HonestDecode, Answer
    <3>2. o = IF ~e THEN Outcome("NeedInput", a.n, "item") ELSE ApplyIncomplete(tail, avail)
      BY <1>0, <2>1, <3>1 DEF ApplyIncompleteAnswer
    <3>3. CASE ~e
      BY <3>2, <3>3
    <3>4. CASE e
      <4>1. o = ApplyIncomplete(tail, rest) /\ item.width > rest /\ ~(rest < MinUnits)
        BY <1>0, <1>3, <2>5, <3>2, <3>4
      <4> QED BY <2>5, <3>4, <4>1 DEF ApplyIncomplete, Abstract!Whole
    <3> QED BY <3>3, <3>4
  <2> QED BY <2>2, <2>3, <2>4, <2>5
<1> QED BY <1>1, <1>2, <1>3

LEMMA ResetRefines == ASSUME ~Faulty, IInv, Reset PROVE [Abstract!Next]_(Abstract!vars)
<1>0. /\ buf = <<>> /\ buf' = <<>> /\ delivered \in Seq(Values)
      /\ UNCHANGED <<stream, tail>>
  BY DEF Reset, sourceVars, IInv, CallsLeaveNoState, TypeOK
<1>1. PICK w \in Windows :
        \/ ResetRefused(w)
        \/ ResetFails
        \/ \E written \in 0..MaxReset : ResetSucceeds(written)
  BY DEF Reset, ResetPanics
<1>2. CASE ResetRefused(w)
  BY <1>0, <1>2 DEF ResetRefused, engineVars, Abstract!vars, AbstractState
<1>3. CASE ResetFails
  <2>1. AbstractState' = "broken"
    BY <1>3 DEF ResetFails, OnResetStart, AbstractState
  <2> QED BY <1>0, <1>3, <2>1 DEF ResetFails, Abstract!Next, Abstract!Break
<1>4. CASE \E written \in 0..MaxReset : ResetSucceeds(written)
  <2>1. PICK written \in 0..MaxReset : ResetSucceeds(written)
    BY <1>4
  <2>2. AbstractState' = "open"
    BY <2>1 DEF ResetSucceeds, OnResetSuccess, AbstractState
  <2>3. Marks("reset", written) \in Seq(Values)
    BY MarksType, DecodeEngineAssumption
  <2>4. (delivered \o buf)' = Marks("reset", written)
    BY <1>0, <2>1, <2>3 DEF ResetSucceeds
  <2>5. (delivered \o buf)' = [i \in 1..written |-> [sub |-> "reset", at |-> 0]]
    BY <2>4 DEF Marks, Value
  <2> QED
    BY <1>0, <2>1, <2>2, <2>5 DEF ResetSucceeds, Abstract!Next, Abstract!Open
<1> QED BY <1>1, <1>2, <1>3, <1>4

LEMMA TranscodeRefines == ASSUME IInv, Transcode PROVE UNCHANGED Abstract!vars
<1>0. /\ ~failed /\ inCur = base /\ buf = <<>> /\ phase \in Phases
      /\ UNCHANGED <<stream, tail, delivered, failed>>
  BY DEF Transcode, Begin, sourceVars, IInv, CallsLeaveNoState, TypeOK
<1>1. PICK e \in BOOLEAN, w \in Windows :
        \/ BeginRefused \/ BeginBadIndex(visible + 1, w)
        \/ BeginBadIndex(base, w) \/ BeginLoop(e, w)
  BY DEF Transcode, Begin
<1>2. inCur' = inCur /\ buf' = buf
  BY <1>0, <1>1 DEF BeginRefused, BeginBadIndex, BeginLoop, callVars
<1>3. phase' = phase \/ (phase \in Active /\ phase' \in Active)
  BY <1>0, <1>1 DEF BeginRefused, BeginBadIndex, BeginLoop, engineVars,
     OnTranscodeFailure, OnTranscode, Phases, Active
<1>4. AbstractState' = AbstractState
  BY <1>0, <1>3 DEF AbstractState, Active
<1> QED BY <1>0, <1>2, <1>4 DEF Abstract!vars

\* Leaving the loop moves what was written to what was delivered.
LEMMA LeaveLoopRefines ==
    ASSUME IInv, pc = "loop", LeaveLoop
    PROVE  /\ UNCHANGED <<phase, inCur, stream, tail>>
           /\ (delivered \o buf)' = delivered \o buf
  BY DEF LeaveLoop, engineVars, sourceVars, IInv, TypeOK

LEMMA StopWithRefines ==
    ASSUME IInv, pc = "loop", NEW tag, NEW required, StopWith(tag, required)
    PROVE  UNCHANGED Abstract!vars
<1>1. failed' = failed
  BY DEF StopWith
<1>2. UNCHANGED <<phase, inCur, stream, tail>> /\ (delivered \o buf)' = delivered \o buf
  BY LeaveLoopRefines DEF StopWith
<1>3. AbstractState' = AbstractState
  BY <1>1, <1>2 DEF AbstractState
<1> QED BY <1>2, <1>3 DEF Abstract!vars

LEMMA DecodeRefines == ASSUME ~Faulty, IInv, Decode PROVE [Abstract!Next]_(Abstract!vars)
<1> USE DecodeEngineAssumption
<1>0. /\ pc = "loop" /\ ReachesDecodeOne /\ ~failed /\ phase \in Active
      /\ AbstractState = "open"
  BY DEF Decode, ReachesDecodeOne, IInv, CallsLeaveNoState, DecodesOnlyOpenStreams,
         Active, AbstractState
<1>1. PICK o \in DecodeOne(stream[inCur + 1], tail, AvailableInput, eof) :
          \/ AcceptEmitted(o)
          \/ AcceptSkipped(o)
          \/ AcceptNeedInput(o)
          \/ o.kind = "Error" /\ StopFailed("DecodeError")
          \/ (o.kind = "Panic" \/ ~OutcomeFits(o)) /\ StopFailed("Panic")
  BY DEF Decode
<1>2. /\ AvailableInput \in Nat \ {0} /\ stream[inCur + 1] \in Items
      /\ OutcomeFits(o) /\ o.kind # "Panic"
      /\ o.kind = "Emitted" => o.sub \in {"value", "replacement", "tail"}
  BY <1>0, ReachesDecodeOneFacts
<1>3. /\ inCur \in Nat /\ inCur < StreamLen /\ StreamLen - inCur \in Nat
      /\ AvailableInput <= StreamLen - inCur
      /\ eof => AvailableInput = StreamLen - inCur
  BY <1>0 DEF IInv, TypeOK, CallsLeaveNoState, AvailableInput, ReachesDecodeOne, HasInput
<1>4. tail \in Actions /\ eof \in BOOLEAN
  BY DEF IInv, TypeOK
<1>5. /\ o.kind = "Emitted" => /\ Abstract!Result.act = "Emit"
                               /\ Abstract!Result.n = o.n
                               /\ Abstract!Result.sub = o.sub
      /\ o.kind = "Skipped" => /\ Abstract!Result.act = "Skip"
                               /\ Abstract!Result.n = o.n
      /\ o.kind = "Error" => Abstract!Result.act = "Reject"
  BY <1>2, <1>3, <1>4, DecodeOneIsWhole DEF Abstract!Result
<1>6. delivered \in Seq(Values) /\ buf \in Seq(Values)
  BY DEF IInv, TypeOK
<1>7. CASE AcceptEmitted(o)
  <2>1. /\ inCur' = inCur + o.n
        /\ buf' = Append(buf, Value(o.sub, inCur))
        /\ UNCHANGED <<phase, stream, tail, delivered, failed>>
        /\ o.kind = "Emitted"
    BY <1>7 DEF AcceptEmitted, engineVars, sourceVars
  <2>2. Value(o.sub, inCur) \in Values
    BY <1>2, <1>3, <2>1 DEF Value, Values
  <2>3. (delivered \o buf)' = Append(delivered \o buf, Value(o.sub, inCur))
    BY <1>6, <2>1, <2>2
  <2>4. AbstractState' = "open"
    BY <1>0, <2>1 DEF AbstractState, Active
  <2> QED
    BY <1>0, <1>3, <1>5, <2>1, <2>3, <2>4 DEF Value, Abstract!Next, Abstract!Take
<1>8. CASE AcceptSkipped(o)
  <2>1. /\ inCur' = inCur + o.n
        /\ UNCHANGED <<phase, stream, tail, delivered, buf, failed>>
        /\ o.kind = "Skipped"
    BY <1>8 DEF AcceptSkipped, engineVars, sourceVars
  <2>2. AbstractState' = "open"
    BY <1>0, <2>1 DEF AbstractState, Active
  <2> QED
    BY <1>0, <1>3, <1>5, <2>1, <2>2 DEF Abstract!Next, Abstract!Take
<1>9. CASE AcceptNeedInput(o)
  BY <1>0, <1>9, StopWithRefines DEF AcceptNeedInput
<1>10. CASE o.kind = "Error" /\ StopFailed("DecodeError")
  <2>1. failed' = TRUE /\ LeaveLoop
    BY <1>10 DEF StopFailed
  <2>2. UNCHANGED <<phase, inCur, stream, tail>> /\ (delivered \o buf)' = delivered \o buf
    BY <1>0, <2>1, LeaveLoopRefines
  <2>3. AbstractState' = "rejected"
    BY <1>0, <2>1, <2>2 DEF AbstractState, Active
  <2> QED BY <1>0, <1>3, <1>5, <1>10, <2>2, <2>3 DEF Abstract!Next, Abstract!Refuse
<1> QED BY <1>1, <1>2, <1>7, <1>8, <1>9, <1>10

LEMMA FinishRefines == ASSUME IInv, Finish PROVE [Abstract!Next]_(Abstract!vars)
<1>0. /\ buf = <<>> /\ delivered \in Seq(Values) /\ phase \in Phases
      /\ UNCHANGED <<stream, tail, inCur, buf, failed>>
  BY DEF Finish, callVars, sourceVars, IInv, CallsLeaveNoState, TypeOK
<1>1. PICK hookBound \in HookBounds, w \in Windows :
        \/ FinishRefused(hookBound, w)
        \/ FinishCodecFails
        \/ FinishHooksFail
        \/ /\ FinishFailure(hookBound, w) = "none"
           /\ \E finished \in 0..MaxFinish, written \in 0..hookBound :
                 FinishSucceeds(finished, written)
  BY DEF Finish
<1>2. CASE FinishRefused(hookBound, w)
  BY <1>0, <1>2 DEF FinishRefused, engineVars, Abstract!vars, AbstractState
<1>3. CASE FinishCodecFails \/ FinishHooksFail
  <2>1. AbstractState' = "broken" /\ delivered' = delivered
    BY <1>3 DEF FinishCodecFails, FinishHooksFail, OnFinishStart, AbstractState
  <2> QED BY <1>0, <2>1 DEF Abstract!Next, Abstract!Break
<1>4. CASE /\ FinishFailure(hookBound, w) = "none"
           /\ \E finished \in 0..MaxFinish, written \in 0..hookBound :
                 FinishSucceeds(finished, written)
  <2>1. PICK finished \in 0..MaxFinish, written \in 0..hookBound :
          FinishSucceeds(finished, written)
    BY <1>4
  <2>2. phase \in Active
    BY <1>0, <1>4 DEF FinishFailure, OnFinishFailure, Phases, Active
  <2>3. finished + written \in 0..UsizeMax
    BY <1>4, <2>2, DecodeEngineAssumption, UsizeMaxAssumption
       DEF FinishFailure, OnFinishFailure, Active, PlannedCapacityFailure,
           MaxFinishOutputLen, CheckedAdd, Overflow
  <2>4. AbstractState \in {"open", "rejected"} /\ AbstractState' = "done"
    BY <2>1, <2>2 DEF FinishSucceeds, OnFinishSuccess, AbstractState, Active
  <2> DEFINE marks == [i \in 1..(finished + written) |-> [sub |-> "finish", at |-> 0]]
  <2>5. marks = Marks("finish", finished + written) /\ marks \in Seq(Values)
    BY <2>3, UsizeMaxAssumption, MarksType DEF Marks, Value
  <2>6. delivered' = delivered \o marks /\ buf' = <<>>
    BY <1>0, <2>1, <2>5 DEF FinishSucceeds
  <2> HIDE DEF marks
  <2>7. (delivered \o buf)' = (delivered \o buf) \o marks
    BY <1>0, <2>5, <2>6
  <2> QED
    BY <1>0, <2>3, <2>4, <2>7 DEF marks, Abstract!Next, Abstract!Close
<1> QED BY <1>1, <1>2, <1>3, <1>4

\* However a stream is cut into calls, however much room each call has and how
\* often it is repeated, a decoder whose codec and hooks keep their contracts
\* delivers what one that sees all of the stream at once would deliver.
THEOREM DecoderImplementsStream ==
    ASSUME ~Faulty
    PROVE  Spec => ImplementsDecodeStream
<1>1. Init => Abstract!Init
  BY DEF Init, Positions, Abstract!Init, AbstractState, NewGuard
<1>2. IInv /\ [Next]_vars => [Abstract!Next]_(Abstract!vars)
  <2>1. IInv /\ (StopComplete \/ StopNeedInput \/ StopNeedOutput) => UNCHANGED Abstract!vars
    BY StopWithRefines DEF StopComplete, StopNeedInput, StopNeedOutput
  <2>2. UNCHANGED vars \/ Arrive => UNCHANGED Abstract!vars
    BY DEF vars, Arrive, engineVars, sourceVars, callVars, Abstract!vars, AbstractState
  <2> QED
    BY <2>1, <2>2, ResetRefines, TranscodeRefines, DecodeRefines, FinishRefines
       DEF Next, Transcoder, Loop
<1> QED
  BY <1>1, <1>2, InductiveInvariant, PTL DEF Spec, ImplementsDecodeStream, Abstract!Spec

=============================================================================
