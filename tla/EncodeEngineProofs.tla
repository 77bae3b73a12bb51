------------------------- MODULE EncodeEngineProofs -------------------------
(* Theorems about EncodeEngine, for every sequence of values, every unit   *)
(* bound and every set of windows.                                         *)
EXTENDS EncodeEngineProps, TLAPS

----------------------------------------------------------------------------
(* One encode attempt.                                                     *)

\* The tail shared by values and replacements, whatever counts the codec
\* answers: it writes what it asked for and what there is room for.
LEMMA EncodeEncodableFacts ==
    ASSUME NEW target \in Targets, NEW avail \in Nat,
           NEW o \in EncodeEncodable(target, avail)
    PROVE  /\ o.kind \in EncodeOutcomeKinds
           /\ o.n \in Nat
           /\ o.kind = "Consumed" => /\ o.n <= avail /\ o.n <= MaxEncode
                                     /\ target.kind # "fails"
                                     /\ Lies(target) \/ o.n = target.len
           /\ o.kind = "NeedOutput" => o.n > avail /\ o.n <= MaxEncode
           /\ o.kind = "Error" => Lies(target) \/ target.kind = "fails"
           /\ o.kind = "Panic" => Lies(target)
<1> USE EncodeStepAssumption
<1>1. target.len \in 0..MaxEncode /\ MaxEncode \in Nat
  BY DEF TargetType
<1>2. CASE o = EncodeOutcome("Error", 0) /\ Lies(target)
  BY <1>2 DEF EncodeOutcome, EncodeOutcomeKinds
<1>3. CASE \E a \in EncodeAnswers(target) : o = EncodeSized(target, avail, a[1], a[2])
  <2>1. PICK a \in EncodeAnswers(target) : o = EncodeSized(target, avail, a[1], a[2])
    BY <1>3
  <2>2. /\ a[1] \in Nat /\ a[2] \in Nat
        /\ ~Lies(target) => a[1] = target.len /\ a[2] = target.len
    BY <1>1, <2>1 DEF EncodeAnswers
  <2> QED BY <1>1, <2>1, <2>2 DEF EncodeSized, EncodeOutcome, EncodeOutcomeKinds
<1> QED BY <1>2, <1>3 DEF EncodeEncodable

\* encode_one writes no more than there is room for, asks for more than there
\* is and never more than the widest encoding, asks no hook before it knows of
\* that room, and trips an assertion only when codec or hooks lie.
LEMMA EncodeOneFacts ==
    ASSUME NEW target \in Targets, NEW avail \in Nat,
           NEW o \in EncodeOne(target, avail)
    PROVE  /\ o.kind \in EncodeOutcomeKinds
           /\ o.n \in Nat
           /\ o.kind = "Consumed" => /\ o.n <= avail /\ o.n <= MaxEncode
                                     /\ o.n \in Abstract!Widths(target)
           /\ o.kind = "NeedOutput" => /\ o.n > avail /\ o.n <= MaxEncode
                                       /\ ~AsksHook(target, avail)
           /\ o.kind = "Error" => Abstract!MayReject(target)
           /\ o.kind = "Panic" => Lies(target)
<1> USE EncodeStepAssumption
<1>1. /\ target.kind \in {"ok", "fails", "lies", "unencodable"}
      /\ target.action \in {"Reject", "Skip", "Replace", "Misreplace"}
      /\ target.len \in 0..MaxEncode /\ MaxEncode \in Nat
  BY DEF TargetType
<1>2. CASE target.kind # "unencodable"
  <2>1. o \in EncodeEncodable(target, avail)
    BY <1>2 DEF EncodeOne, AsksHook
  <2> QED
    BY <1>1, <1>2, <2>1, EncodeEncodableFacts
       DEF AsksHook, Lies, Abstract!Widths, Abstract!MayReject, Abstract!Lies
<1>3. CASE target.kind = "unencodable" /\ ~AsksHook(target, avail)
  BY <1>1, <1>3 DEF EncodeOne, AsksHook, UnencodableRoom, EncodeOutcome, EncodeOutcomeKinds
<1>4. CASE target.kind = "unencodable" /\ AsksHook(target, avail)
  <2>1. o \in ApplyUnencodable(target, avail) /\ avail >= MaxEncode
    BY <1>4 DEF EncodeOne, AsksHook, UnencodableRoom
  <2>2. CASE target.action \in {"Reject", "Skip"}
    BY <1>1, <1>4, <2>1, <2>2
       DEF ApplyUnencodable, EncodeOutcome, EncodeOutcomeKinds, Lies,
           Abstract!Widths, Abstract!MayReject, Abstract!Lies
  <2>3. CASE o = EncodeOutcome("Panic", 0) /\ target.action = "Misreplace"
    BY <1>1, <1>4, <2>3 DEF EncodeOutcome, EncodeOutcomeKinds, Lies
  <2>4. CASE /\ o \in EncodeEncodable(target, avail)
             /\ target.action \in {"Replace", "Misreplace"}
    BY <1>1, <1>4, <2>1, <2>4, EncodeEncodableFacts
       DEF Lies, Abstract!Widths, Abstract!MayReject, Abstract!Lies
  <2> QED BY <1>1, <2>1, <2>2, <2>3, <2>4 DEF ApplyUnencodable
<1> QED BY <1>2, <1>3, <1>4

----------------------------------------------------------------------------
(* The inductive invariant.                                                *)

\* Every return is a tag with three numbers.
LEMMA ReturnType ==
    /\ \A tag \in Tags : Return(tag) \in Returns /\ Return(tag).tag = tag
    /\ \A tag \in Tags, k \in Nat : Wrote(tag, k) \in Returns /\ Wrote(tag, k).tag = tag
    /\ \A tag \in Tags, i \in Nat, j \in Nat, k \in Nat :
          Progress(tag, i, j, k) \in Returns /\ Progress(tag, i, j, k).tag = tag
  BY DEF Return, Wrote, Progress, Returns

\* The failures a preflight check names are tags of a return, and no panic.
LEMMA FailureTagFacts ==
    /\ \A p \in Phases : /\ OnTranscodeFailure(p) \in Tags \ {"Panic"}
                         /\ OnFinishFailure(p) \in Tags \ {"Panic"}
    /\ \A a, b, c, d : IndexFailure(a, b, c, d) \in Tags \ {"Panic"}
    /\ \A a, b, c : /\ CapacityFailure(a, b, c) \in Tags \ {"Panic"}
                    /\ PlannedCapacityFailure(a, b, c) \in Tags \ {"Panic"}
  BY DEF OnTranscodeFailure, OnFinishFailure, IndexFailure, CapacityFailure,
         PlannedCapacityFailure, Tags, LifecycleFailures, IndexFailures,
         CapacityFailures, Phases

\* The failures of user code.
LEMMA UserFailureFacts ==
    ASSUME NEW tag \in {"ResetError", "FinishError", "HookFinishError", "EncodeError"},
           NEW r, r = Return(tag) \/ (~HonestTarget /\ r = Return("Panic"))
    PROVE  r \in Returns /\ (HonestTarget => r.tag # "Panic")
<1>1. tag \in Tags /\ "Panic" \in Tags
  BY DEF Tags
<1>2. /\ Return(tag) \in Returns /\ Return("Panic") \in Returns
      /\ Return(tag).tag = tag
  BY <1>1, ReturnType
<1> QED BY <1>2

LEMMA InitIInv == Init => IInv
<1> USE EncodeStepAssumption, EncodeEngineAssumption, UsizeMaxAssumption
<1> SUFFICES ASSUME Init PROVE IInv
  OBVIOUS
<1>1. ret \in Returns /\ ret.tag = "none"
  BY ReturnType DEF Init, Tags
<1>2. TypeOK
  <2>1. buf \in Seq(Chunks) /\ delivered \in Seq(Chunks)
    BY DEF Init
  <2>2. failed \in BOOLEAN
    BY Zenon DEF Init
  <2>3. asked \in [1..SourceLen -> Nat]
    BY DEF Init
  <2> QED BY <1>1, <2>1, <2>2, <2>3 DEF Init, TypeOK, Phases, NewGuard, UserStates
<1>3. EncodesOnlyOpenStreams /\ CallsLeaveNoState /\ UnitsCostValues
  BY DEF Init, EncodesOnlyOpenStreams, NewGuard, Active, CallsLeaveNoState,
         UnitsCostValues
<1>4. HookAskedOncePerValue /\ HooksAskedInOrder
  BY DEF Init, HookAskedOncePerValue, HooksAskedInOrder
<1> QED BY <1>1, <1>2, <1>3, <1>4 DEF IInv, SafeForAnyTarget

LEMMA ResetIInv == IInv /\ Reset => IInv'
<1> USE EncodeStepAssumption, EncodeEngineAssumption, UsizeMaxAssumption
<1> SUFFICES ASSUME IInv, Reset PROVE IInv'
  OBVIOUS
<1>0. /\ pc = "idle"
      /\ UNCHANGED <<source, pc, inLen, outStart, outLen, outCur, buf>>
      /\ HonestTarget' = HonestTarget
  BY DEF Reset, HonestTarget
<1>1. PICK w \in Windows :
        \/ ResetRefused(w)
        \/ ResetFails
        \/ \E written \in 0..MaxReset : ResetSucceeds(written)
  BY DEF Reset
<1>2. CASE ResetRefused(w)
  <2>1. /\ ret' = Return(CapacityFailure(w[2], w[1], MaxReset))
        /\ UNCHANGED <<phase, codec, hooks, base, inCur, delivered, asked, failed>>
    BY <1>2 DEF ResetRefused, engineVars
  <2>2. ret' \in Returns /\ ret'.tag # "Panic"
    <3>1. CapacityFailure(w[2], w[1], MaxReset) \in Tags \ {"Panic"}
      BY FailureTagFacts
    <3> QED BY <2>1, <3>1, ReturnType
  <2> QED
    BY <1>0, <2>1, <2>2 DEF IInv, SafeForAnyTarget, TypeOK, EncodesOnlyOpenStreams,
       HookAskedOncePerValue, CallsLeaveNoState, HooksAskedInOrder, UnitsCostValues
<1>3. CASE ResetFails
  <2>1. /\ phase' = "Poisoned" /\ codec' = "broken" /\ hooks' = "open"
        /\ UNCHANGED <<base, inCur, delivered, asked, failed>>
    BY <1>3 DEF ResetFails, OnResetStart
  <2>2. ret' = Return("ResetError") \/ (~HonestTarget /\ ret' = Return("Panic"))
    BY <1>3 DEF ResetFails
  <2>3. ret' \in Returns /\ (HonestTarget => ret'.tag # "Panic")
    BY <2>2, UserFailureFacts
  <2> QED
    BY <1>0, <2>1, <2>3 DEF IInv, SafeForAnyTarget, TypeOK, EncodesOnlyOpenStreams,
       Active, Phases, UserStates, HookAskedOncePerValue, CallsLeaveNoState,
       HooksAskedInOrder, UnitsCostValues
<1>4. CASE \E written \in 0..MaxReset : ResetSucceeds(written)
  <2>1. PICK written \in 0..MaxReset : ResetSucceeds(written)
    BY <1>4
  <2>2. /\ phase' = "Fresh" /\ codec' = "open" /\ hooks' = "open"
        /\ base' = 0 /\ inCur' = 0 /\ failed' = FALSE
        /\ delivered' = <<Chunk("reset", 0, written)>>
        /\ asked' = [i \in 1..SourceLen |-> 0]
        /\ ret' = Wrote("ResetOk", written)
    BY <2>1 DEF ResetSucceeds, OnResetSuccess
  <2>3. ret' \in Returns /\ ret'.tag # "Panic"
    <3>1. written \in Nat /\ "ResetOk" \in Tags /\ "ResetOk" # "Panic"
      BY DEF Tags
    <3> QED BY <2>2, <3>1, ReturnType
  <2>4. delivered' \in Seq(Chunks)
    BY <2>2 DEF Chunk, Chunks
  <2>5. TypeOK'
    <3>1. failed' \in BOOLEAN
      BY <2>2, Zenon
    <3>2. base' \in 0..SourceLen /\ inCur' \in 0..SourceLen
          /\ asked' \in [1..SourceLen -> Nat]
      BY <2>2
    <3> QED
      BY <1>0, <2>2, <2>3, <2>4, <3>1, <3>2
         DEF IInv, SafeForAnyTarget, TypeOK, Phases, UserStates
  <2>6. SafeForAnyTarget'
    BY <1>0, <2>2, <2>3, <2>5 DEF SafeForAnyTarget, EncodesOnlyOpenStreams
  <2>7. HookAskedOncePerValue' /\ HooksAskedInOrder'
    BY <2>2 DEF HookAskedOncePerValue, HooksAskedInOrder
  <2> QED
    BY <1>0, <2>2, <2>6, <2>7 DEF IInv, CallsLeaveNoState, UnitsCostValues
<1> QED BY <1>1, <1>2, <1>3, <1>4

LEMMA TranscodeIInv == IInv /\ Transcode => IInv'
<1> USE EncodeStepAssumption, EncodeEngineAssumption, UsizeMaxAssumption
<1> SUFFICES ASSUME IInv, Transcode PROVE IInv'
  OBVIOUS
<1>0. /\ pc = "idle" /\ ~failed
      /\ UNCHANGED <<source, base, delivered, asked, failed>>
      /\ HonestTarget' = HonestTarget
  BY DEF Transcode, HonestTarget
<1>1. PICK w \in Windows, n \in 0..SourceLen :
        \/ BeginRefused \/ EofBadIndex(w)
        \/ BeginBadIndex(n, w) \/ BeginLoop(n, w)
  BY DEF Transcode, Begin, EofGoesOn
<1>2. w[1] \in Nat /\ w[2] \in Nat /\ w[2] <= UsizeMax
  OBVIOUS
<1>3. OnTranscodeFailure(phase) = "none"
        => phase \in Active /\ OnTranscode(phase) = "Streaming"
  BY DEF OnTranscodeFailure, OnTranscode, Active, IInv, SafeForAnyTarget, TypeOK, Phases
<1>4. CASE BeginRefused \/ EofBadIndex(w) \/ BeginBadIndex(n, w)
  <2>1. /\ UNCHANGED <<codec, hooks, pc, inLen, inCur, outStart, outLen, outCur, buf>>
        /\ phase' = phase \/ (phase \in Active /\ phase' = "Streaming")
    BY <1>3, <1>4 DEF BeginRefused, EofBadIndex, BeginBadIndex, engineVars, callVars
  <2>2. ret' \in Returns /\ ret'.tag # "Panic"
    <3>1. \E tag \in Tags \ {"Panic"} : ret' = Return(tag)
      BY <1>4, FailureTagFacts
         DEF BeginRefused, EofBadIndex, BeginBadIndex, IInv, SafeForAnyTarget, TypeOK
    <3> QED BY <3>1, ReturnType
  <2> QED
    BY <1>0, <2>1, <2>2 DEF IInv, SafeForAnyTarget, TypeOK, EncodesOnlyOpenStreams,
       Active, Phases, HookAskedOncePerValue, CallsLeaveNoState, HooksAskedInOrder,
       UnitsCostValues
<1>5. CASE BeginLoop(n, w)
  <2>1. /\ phase' = "Streaming" /\ phase \in Active
        /\ pc' = "loop" /\ inLen' = n /\ inCur' = base
        /\ outStart' = w[1] /\ outLen' = w[2] /\ outCur' = w[1] /\ buf' = <<>>
        /\ ret' = Return("none")
        /\ UNCHANGED <<codec, hooks>>
    BY <1>3, <1>5 DEF BeginLoop
  <2>2. base <= n /\ w[1] <= w[2] /\ inCur = base
    BY <1>0, <1>2, <1>5
       DEF BeginLoop, IndexFailure, IInv, SafeForAnyTarget, TypeOK, CallsLeaveNoState
  <2>3. ret' \in Returns /\ ret'.tag = "none"
    <3>1. "none" \in Tags
      BY DEF Tags
    <3> QED BY <2>1, <3>1, ReturnType
  <2>4. TypeOK'
    BY <1>0, <1>2, <2>1, <2>2, <2>3 DEF IInv, SafeForAnyTarget, TypeOK, Phases
  <2>5. SafeForAnyTarget'
    BY <1>0, <2>1, <2>3, <2>4
       DEF IInv, SafeForAnyTarget, EncodesOnlyOpenStreams
  <2>6. UnitsCostValues'
    <3>1. outCur' - outStart' = 0 /\ inCur' - base' = 0
      BY <1>0, <1>2, <2>1 DEF IInv, SafeForAnyTarget, TypeOK
    <3> QED BY <3>1 DEF UnitsCostValues
  <2> QED
    BY <1>0, <1>2, <2>1, <2>2, <2>3, <2>5, <2>6
       DEF IInv, CallsLeaveNoState, HookAskedOncePerValue, HooksAskedInOrder
<1> QED BY <1>1, <1>4, <1>5

----------------------------------------------------------------------------
(* The steps of the loop.                                                  *)

\* Leaving the loop keeps what does not depend on how the call ended.
LEMMA LeaveLoopFacts ==
    ASSUME IInv, pc = "loop", LeaveLoop, base' = inCur \/ base' = base,
           failed' \in BOOLEAN, ret' \in Returns,
           asked' \in [1..SourceLen -> Nat]
    PROVE  /\ TypeOK'
           /\ EncodesOnlyOpenStreams'
           /\ UnitsCostValues'
           /\ pc' = "idle" /\ buf' = <<>> /\ inCur' = inCur
           /\ HonestTarget' = HonestTarget
<1> USE EncodeStepAssumption, EncodeEngineAssumption, UsizeMaxAssumption
<1>1. /\ pc' = "idle" /\ inLen' = 0 /\ outStart' = 0 /\ outLen' = 0 /\ outCur' = 0
      /\ buf' = <<>> /\ delivered' = delivered \o buf
      /\ UNCHANGED <<phase, codec, hooks, source, inCur>>
  BY DEF LeaveLoop, engineVars
<1>2. delivered' \in Seq(Chunks) /\ buf' \in Seq(Chunks)
  BY <1>1 DEF IInv, SafeForAnyTarget, TypeOK
<1>3. TypeOK'
  BY <1>1, <1>2 DEF IInv, SafeForAnyTarget, TypeOK
<1> QED
  BY <1>1, <1>3 DEF IInv, SafeForAnyTarget, EncodesOnlyOpenStreams, UnitsCostValues,
     HonestTarget

LEMMA StopWithIInv ==
    ASSUME IInv, pc = "loop", NEW tag \in ProgressTags, NEW required \in Nat,
           StopWith(tag, required), UNCHANGED asked
    PROVE  IInv'
<1>1. /\ ret' = Progress(tag, required, inCur - base, outCur - outStart)
      /\ base' = inCur /\ failed' = failed /\ LeaveLoop
  BY DEF StopWith
<1>2. inCur - base \in Nat /\ outCur - outStart \in Nat
  BY EncodeEngineAssumption DEF IInv, SafeForAnyTarget, TypeOK
<1>3. ret' \in Returns /\ ret'.tag # "Panic"
  <2>1. tag \in Tags /\ tag # "Panic"
    BY DEF ProgressTags, Tags
  <2> QED BY <1>1, <1>2, <2>1, ReturnType
<1>4. failed' \in BOOLEAN
  BY <1>1, Zenon DEF IInv, SafeForAnyTarget, TypeOK
<1>5. asked' \in [1..SourceLen -> Nat]
  BY DEF IInv, SafeForAnyTarget, TypeOK
<1>6. /\ TypeOK' /\ EncodesOnlyOpenStreams' /\ UnitsCostValues'
      /\ pc' = "idle" /\ buf' = <<>> /\ inCur' = inCur
  BY <1>1, <1>3, <1>4, <1>5, LeaveLoopFacts
<1> QED
  BY <1>1, <1>3, <1>6 DEF IInv, SafeForAnyTarget, CallsLeaveNoState,
     HookAskedOncePerValue, HooksAskedInOrder

LEMMA StopFailedIInv ==
    ASSUME IInv, pc = "loop", NEW tag \in {"EncodeError", "Panic"},
           tag = "Panic" => ~HonestTarget, StopFailed(tag),
           asked' \in [1..SourceLen -> Nat], HookAskedOncePerValue'
    PROVE  IInv'
<1>1. ret' = Return(tag) /\ failed' = TRUE /\ base' = base /\ LeaveLoop
  BY DEF StopFailed
<1>2. ret' \in Returns /\ (HonestTarget => ret'.tag # "Panic")
  <2>1. CASE tag = "EncodeError"
    BY <1>1, <2>1, UserFailureFacts
  <2>2. CASE tag = "Panic"
    <3>1. ret' = Return("Panic") /\ ~HonestTarget
      BY <1>1, <2>2
    <3> QED BY <3>1, UserFailureFacts
  <2> QED BY <2>1, <2>2
<1>3. failed' \in BOOLEAN
  BY <1>1, Zenon
<1>4. /\ TypeOK' /\ EncodesOnlyOpenStreams' /\ UnitsCostValues'
      /\ pc' = "idle" /\ buf' = <<>> /\ HonestTarget' = HonestTarget
  BY <1>1, <1>2, <1>3, LeaveLoopFacts
<1> QED
  BY <1>1, <1>2, <1>4 DEF IInv, SafeForAnyTarget, CallsLeaveNoState, HooksAskedInOrder

LEMMA StopCompleteIInv == IInv /\ StopComplete => IInv'
  BY StopWithIInv DEF StopComplete, ProgressTags

\* The state in which the loop reaches encode_one, and what the outcome is then
\* known to be. The assertions of EncodeState never fire: those of encode_one
\* come first.
LEMMA ReachesEncodeOneFacts ==
    ASSUME IInv, pc = "loop", HasInput, NEW o \in EncodeOne(Current, AvailableOutput)
    PROVE  /\ inCur + 1 \in 1..SourceLen
           /\ inCur + 1 <= inLen
           /\ AvailableOutput = outLen - outCur
           /\ AvailableOutput \in Nat
           /\ Current \in Targets
           /\ OutcomeFits(o)
           /\ o.kind \in EncodeOutcomeKinds
           /\ o.n \in Nat
           /\ o.kind = "Consumed" => /\ o.n <= AvailableOutput /\ o.n <= MaxEncode
                                     /\ o.n \in Abstract!Widths(Current)
           /\ o.kind = "NeedOutput" => /\ o.n > AvailableOutput /\ o.n <= MaxEncode
                                       /\ ~AsksHook(Current, AvailableOutput)
           /\ o.kind = "Error" => Abstract!MayReject(Current)
           /\ o.kind = "Panic" => Lies(Current)
<1> USE EncodeStepAssumption, EncodeEngineAssumption
<1>1. /\ inCur + 1 \in 1..SourceLen /\ inCur + 1 <= inLen
      /\ AvailableOutput = outLen - outCur /\ AvailableOutput \in Nat
  BY DEF HasInput, AvailableOutput, IInv, SafeForAnyTarget, TypeOK
<1>2. Current \in Targets
  BY <1>1 DEF Current, IInv, SafeForAnyTarget, TypeOK
<1>3. /\ o.kind \in EncodeOutcomeKinds
      /\ o.n \in Nat
      /\ o.kind = "Consumed" => /\ o.n <= AvailableOutput /\ o.n <= MaxEncode
                                /\ o.n \in Abstract!Widths(Current)
      /\ o.kind = "NeedOutput" => /\ o.n > AvailableOutput /\ o.n <= MaxEncode
                                  /\ ~AsksHook(Current, AvailableOutput)
      /\ o.kind = "Error" => Abstract!MayReject(Current)
      /\ o.kind = "Panic" => Lies(Current)
  BY <1>1, <1>2, EncodeOneFacts
<1>4. OutcomeFits(o)
  BY <1>3 DEF OutcomeFits
<1> QED BY <1>1, <1>2, <1>3, <1>4

\* The hook of the current value is asked at most once more, for the first time.
LEMMA AskedFacts ==
    ASSUME IInv, pc = "loop", HasInput,
           asked' = IF AsksHook(Current, AvailableOutput)
                    THEN [asked EXCEPT ![inCur + 1] = @ + 1]
                    ELSE asked
    PROVE  /\ asked' \in [1..SourceLen -> Nat]
           /\ HookAskedOncePerValue'
           /\ \A i \in 1..SourceLen : i > inCur + 1 => asked'[i] = 0
<1> USE EncodeEngineAssumption
<1>1. /\ asked \in [1..SourceLen -> Nat] /\ inCur \in 0..SourceLen
      /\ inCur + 1 \in 1..SourceLen
  BY DEF HasInput, IInv, SafeForAnyTarget, TypeOK
<1>2. /\ \A i \in 1..SourceLen : i > inCur => asked[i] = 0
      /\ \A i \in 1..SourceLen : asked[i] <= 1
  BY DEF IInv, CallsLeaveNoState, HooksAskedInOrder, HookAskedOncePerValue
<1>3. asked[inCur + 1] = 0
  BY <1>1, <1>2
<1>4. asked' = asked \/ asked' = [asked EXCEPT ![inCur + 1] = 1]
  BY <1>1, <1>3
<1> QED BY <1>1, <1>2, <1>4 DEF HookAskedOncePerValue

\* (k + 1) * m in terms of k * m.
LEMMA NextMultiple ==
    ASSUME NEW k \in Nat, NEW m \in Nat
    PROVE  (k + 1) * m = k * m + m /\ k * m \in Nat
  OBVIOUS

LEMMA EncodeIInv == IInv /\ Encode => IInv'
<1> USE EncodeStepAssumption, EncodeEngineAssumption, UsizeMaxAssumption
<1> SUFFICES ASSUME IInv, Encode PROVE IInv'
  OBVIOUS
<1>0. /\ pc = "loop" /\ HasInput
      /\ asked' = IF AsksHook(Current, AvailableOutput)
                  THEN [asked EXCEPT ![inCur + 1] = @ + 1]
                  ELSE asked
  BY DEF Encode
<1>1. PICK o \in EncodeOne(Current, AvailableOutput) :
          \/ OutcomeFits(o) /\ AcceptConsumed(o)
          \/ OutcomeFits(o) /\ AcceptNeedOutput(o)
          \/ o.kind = "Error" /\ StopFailed("EncodeError")
          \/ (o.kind = "Panic" \/ ~OutcomeFits(o)) /\ StopFailed("Panic")
  BY DEF Encode
<1>2. /\ asked' \in [1..SourceLen -> Nat]
      /\ HookAskedOncePerValue'
      /\ \A i \in 1..SourceLen : i > inCur + 1 => asked'[i] = 0
  BY <1>0, AskedFacts
<1>3. CASE AcceptConsumed(o)
  <2>1. /\ inCur' = inCur + 1 /\ outCur' = outCur + o.n
        /\ buf' = Append(buf, Chunk("value", inCur + 1, o.n))
        /\ UNCHANGED <<phase, codec, hooks, source, base, pc, inLen, outStart, outLen,
                       delivered, failed, ret>>
        /\ o.kind = "Consumed"
    BY <1>3 DEF AcceptConsumed, engineVars
  <2>2. /\ o.n \in Nat /\ o.n <= outLen - outCur /\ o.n <= MaxEncode
        /\ inCur + 1 \in 1..SourceLen /\ inCur + 1 <= inLen
    BY <1>0, <2>1, ReachesEncodeOneFacts
  <2>3. Chunk("value", inCur + 1, o.n) \in Chunks
    BY <2>2 DEF Chunk, Chunks
  <2>4. buf' \in Seq(Chunks)
    BY <2>1, <2>3 DEF IInv, SafeForAnyTarget, TypeOK
  <2>a. /\ base \in 0..SourceLen /\ inLen \in 0..SourceLen /\ inCur \in 0..SourceLen
        /\ outStart \in Nat /\ outLen \in Nat /\ outCur \in Nat
        /\ base <= inCur /\ outStart <= outCur /\ outCur <= outLen
    BY <1>0 DEF IInv, SafeForAnyTarget, TypeOK
  <2>b. /\ inCur' \in 0..SourceLen /\ outCur' \in Nat
        /\ base' <= inCur' /\ inCur' <= inLen'
        /\ outStart' <= outCur' /\ outCur' <= outLen'
    BY <2>1, <2>2, <2>a
  <2>5. TypeOK'
    BY <1>0, <1>2, <2>1, <2>4, <2>b DEF IInv, SafeForAnyTarget, TypeOK
  <2>6. SafeForAnyTarget'
    BY <2>1, <2>5 DEF IInv, SafeForAnyTarget, EncodesOnlyOpenStreams, HonestTarget
  <2>7. UnitsCostValues'
    <3>1. /\ inCur - base \in Nat /\ inCur' - base' = (inCur - base) + 1
          /\ outCur' - outStart' = (outCur - outStart) + o.n
          /\ outCur - outStart \in Nat
      BY <2>1, <2>2, <2>a
    <3>2. outCur - outStart <= (inCur - base) * MaxEncode
      BY <1>0 DEF IInv, UnitsCostValues
    <3> DEFINE k == inCur - base
               u == outCur - outStart
    <3>3. (k + 1) * MaxEncode = k * MaxEncode + MaxEncode /\ k * MaxEncode \in Nat
      BY <3>1, NextMultiple
    <3>4. u + o.n <= k * MaxEncode + MaxEncode
      BY <2>2, <3>1, <3>2, <3>3
    <3> QED BY <3>1, <3>3, <3>4 DEF UnitsCostValues
  <2> QED
    BY <1>0, <1>2, <2>1, <2>6, <2>7 DEF IInv, CallsLeaveNoState, HooksAskedInOrder
<1>4. CASE AcceptNeedOutput(o)
  <2>1. o.kind = "NeedOutput" /\ StopWith("NeedOutput", o.n)
    BY <1>4 DEF AcceptNeedOutput
  <2>2. asked' = asked /\ o.n \in Nat
    BY <1>0, <2>1, ReachesEncodeOneFacts
  <2> QED BY <1>0, <2>1, <2>2, StopWithIInv DEF ProgressTags
<1>5. CASE o.kind = "Error" /\ StopFailed("EncodeError")
  BY <1>0, <1>2, <1>5, StopFailedIInv
<1>6. CASE (o.kind = "Panic" \/ ~OutcomeFits(o)) /\ StopFailed("Panic")
  <2>1. Lies(Current) /\ inCur + 1 \in 1..SourceLen
    BY <1>0, <1>6, ReachesEncodeOneFacts
  <2>2. ~HonestTarget
    BY <2>1 DEF HonestTarget, Current
  <2> QED BY <1>0, <1>2, <1>6, <2>2, StopFailedIInv
<1> QED BY <1>1, <1>3, <1>4, <1>5, <1>6

----------------------------------------------------------------------------
LEMMA FinishIInv == IInv /\ Finish => IInv'
<1> USE EncodeStepAssumption, EncodeEngineAssumption, UsizeMaxAssumption
<1> SUFFICES ASSUME IInv, Finish PROVE IInv'
  OBVIOUS
<1>0. /\ pc = "idle"
      /\ UNCHANGED <<source, base, pc, inLen, inCur, outStart, outLen, outCur, buf,
                     asked, failed>>
      /\ HonestTarget' = HonestTarget
  BY DEF Finish, callVars, HonestTarget
<1>1. PICK hookBound \in HookBounds, w \in Windows :
        \/ FinishRefused(hookBound, w)
        \/ FinishCodecFails
        \/ FinishHooksFail
        \/ \E finished \in 0..MaxFinish, written \in 0..hookBound :
              FinishSucceeds(finished, written)
  BY DEF Finish
<1> DEFINE Kept == /\ codec' \in UserStates /\ hooks' \in UserStates
                   /\ delivered' \in Seq(Chunks)
                   /\ ret' \in Returns
                   /\ HonestTarget => ret'.tag # "Panic"
                   /\ \/ phase' = phase /\ codec' = codec /\ hooks' = hooks
                      \/ phase' \in {"Poisoned", "Finished"}
<1>2. ASSUME FinishRefused(hookBound, w) PROVE Kept
  <2>1. /\ ret' = Return(FinishFailure(hookBound, w))
        /\ UNCHANGED <<phase, codec, hooks, delivered>>
    BY <1>2 DEF FinishRefused, engineVars
  <2>2. FinishFailure(hookBound, w) \in Tags \ {"Panic"}
    BY FailureTagFacts DEF FinishFailure, IInv, SafeForAnyTarget, TypeOK
  <2>3. ret' \in Returns /\ ret'.tag # "Panic"
    BY <2>1, <2>2, ReturnType
  <2> QED BY <2>1, <2>3 DEF IInv, SafeForAnyTarget, TypeOK
<1>3. ASSUME FinishCodecFails \/ FinishHooksFail PROVE Kept
  <2>1. /\ phase' = "Poisoned" /\ codec' \in UserStates /\ hooks' \in UserStates
        /\ delivered' = delivered
    BY <1>3 DEF FinishCodecFails, FinishHooksFail, OnFinishStart, UserStates, IInv,
       SafeForAnyTarget, TypeOK
  <2>2. \E tag \in {"FinishError", "HookFinishError"} :
          ret' = Return(tag) \/ (~HonestTarget /\ ret' = Return("Panic"))
    BY <1>3 DEF FinishCodecFails, FinishHooksFail
  <2>3. ret' \in Returns /\ (HonestTarget => ret'.tag # "Panic")
    BY <2>2, UserFailureFacts
  <2> QED BY <2>1, <2>3 DEF IInv, SafeForAnyTarget, TypeOK
<1>4. ASSUME \E finished \in 0..MaxFinish, written \in 0..hookBound :
               FinishSucceeds(finished, written)
      PROVE  Kept
  <2>1. PICK finished \in 0..MaxFinish, written \in 0..hookBound :
          FinishSucceeds(finished, written)
    BY <1>4
  <2>2. finished + written \in Nat
    OBVIOUS
  <2>3. /\ phase' = "Finished" /\ codec' = "closed" /\ hooks' = "closed"
        /\ ret' = Wrote("FinishOk", finished + written)
        /\ delivered' = Append(delivered, Chunk("finish", 0, finished + written))
    BY <2>1 DEF FinishSucceeds, OnFinishSuccess
  <2>4. ret' \in Returns /\ ret'.tag # "Panic"
    <3>1. "FinishOk" \in Tags /\ "FinishOk" # "Panic"
      BY DEF Tags
    <3> QED BY <2>2, <2>3, <3>1, ReturnType
  <2>5. delivered' \in Seq(Chunks)
    <3>1. Chunk("finish", 0, finished + written) \in Chunks
      BY <2>2 DEF Chunk, Chunks
    <3> QED BY <2>3, <3>1 DEF IInv, SafeForAnyTarget, TypeOK
  <2> QED BY <2>3, <2>4, <2>5 DEF UserStates
<1>5. Kept
  BY <1>1, <1>2, <1>3, <1>4
<1>6. SafeForAnyTarget'
  BY <1>0, <1>5 DEF IInv, SafeForAnyTarget, TypeOK, EncodesOnlyOpenStreams, Active, Phases
<1> QED
  BY <1>0, <1>6 DEF IInv, HookAskedOncePerValue, CallsLeaveNoState, HooksAskedInOrder,
     UnitsCostValues

LEMMA StutterIInv == IInv /\ UNCHANGED vars => IInv'
  BY DEF IInv, SafeForAnyTarget, TypeOK, EncodesOnlyOpenStreams, HonestTarget,
         HookAskedOncePerValue, CallsLeaveNoState, HooksAskedInOrder, UnitsCostValues,
         vars, engineVars, callVars

LEMMA NextIInv == IInv /\ [Next]_vars => IInv'
  BY ResetIInv, TranscodeIInv, StopCompleteIInv, EncodeIInv, FinishIInv, StutterIInv
     DEF Next, Transcoder

----------------------------------------------------------------------------
(* The theorems.                                                           *)

\* The inductive invariant holds whatever the calls, windows, values and
\* answers of codec and hooks are.
THEOREM InductiveInvariant == Spec => []IInv
  BY InitIInv, NextIInv, PTL DEF Spec

\* The cursors stay in the caller's slices and the engine in its lifecycle
\* whatever the codec answers, and no assertion fires while codec and hooks
\* keep their contracts.
THEOREM SafeEncoder == Spec => []SafeForAnyTarget
<1>1. IInv => SafeForAnyTarget
  BY DEF IInv
<1> QED BY <1>1, InductiveInvariant, PTL

\* The hook of an unencodable value is asked once, however often the calls that
\* reach the value run out of room.
THEOREM HookAskedOnce == Spec => []HookAskedOncePerValue
<1>1. IInv => HookAskedOncePerValue
  BY DEF IInv
<1> QED BY <1>1, InductiveInvariant, PTL

\* Products grow with their first factor.
LEMMA MultiplesGrow ==
    ASSUME NEW a \in Nat, NEW b \in Nat, NEW m \in Nat, a <= b
    PROVE  a * m <= b * m /\ a * m \in Nat /\ b * m \in Nat
  OBVIOUS

\* A caller that reserves the planned bound is never asked for more room.
THEOREM BoundSuffices == Spec => OutputBoundSuffices
<1> USE EncodeStepAssumption, EncodeEngineAssumption, UsizeMaxAssumption
<1> DEFINE A == pc = "loop" /\ ret'.tag = "NeedOutput"
                  => outLen - outStart < MaxTranscodeOutputLen(inLen - base)
<1>1. IInv /\ [Next]_vars => [A]_vars
  <2> SUFFICES ASSUME IInv, Next, pc = "loop", ret'.tag = "NeedOutput"
               PROVE  outLen - outStart < MaxTranscodeOutputLen(inLen - base)
    OBVIOUS
  <2>1. CASE StopComplete
    BY <2>1 DEF StopComplete, StopWith, Progress
  <2>2. CASE Encode
    <3>1. HasInput
      BY <2>2 DEF Encode
    <3>2. PICK o \in EncodeOne(Current, AvailableOutput) : AcceptNeedOutput(o)
      BY <2>2 DEF Encode, AcceptConsumed, StopFailed, Return, Progress, IInv,
         CallsLeaveNoState
    <3>3. o.n > outLen - outCur /\ o.n <= MaxEncode /\ inCur + 1 <= inLen /\ o.n \in Nat
      BY <3>1, <3>2, ReachesEncodeOneFacts DEF AcceptNeedOutput
    <3>4. /\ base \in Nat /\ inLen \in Nat /\ inCur \in Nat
          /\ outStart \in Nat /\ outLen \in Nat /\ outCur \in Nat
          /\ base <= inCur /\ outStart <= outCur /\ outCur <= outLen
          /\ outLen <= UsizeMax
      BY DEF IInv, SafeForAnyTarget, TypeOK, CallsLeaveNoState
    <3> DEFINE k == inCur - base
               u == outCur - outStart
               n == inLen - base
    <3>5. /\ k \in Nat /\ u \in Nat /\ n \in Nat /\ k + 1 \in Nat /\ k + 1 <= n
          /\ outLen - outStart < u + MaxEncode /\ outLen - outStart < UsizeMax + 1
      BY <3>3, <3>4
    <3>6. u <= k * MaxEncode
      BY DEF IInv, UnitsCostValues
    <3> HIDE DEF k, u, n
    <3>7. (k + 1) * MaxEncode = k * MaxEncode + MaxEncode /\ k * MaxEncode \in Nat
      BY <3>5, NextMultiple
    <3>8. (k + 1) * MaxEncode <= n * MaxEncode /\ n * MaxEncode \in Nat
      BY <3>5, MultiplesGrow
    <3>9. outLen - outStart < n * MaxEncode
      BY <3>4, <3>5, <3>6, <3>7, <3>8
    <3> QED
      BY <3>4, <3>5, <3>9 DEF MaxTranscodeOutputLen, CheckedMul, Overflow, n
  <2>3. CASE Reset \/ Transcode \/ Finish
    BY <2>3 DEF Reset, Transcode, Finish
  <2> QED BY <2>1, <2>2, <2>3 DEF Next, Transcoder
<1> QED BY <1>1, InductiveInvariant, PTL DEF Spec, OutputBoundSuffices

----------------------------------------------------------------------------
(* The refinement.                                                         *)

LEMMA ResetRefines == IInv /\ Reset => [Abstract!Next]_(Abstract!vars)
<1> SUFFICES ASSUME IInv, Reset PROVE [Abstract!Next]_(Abstract!vars)
  OBVIOUS
<1>0. /\ buf = <<>> /\ buf' = <<>> /\ source' = source /\ delivered \in Seq(Chunks)
  BY DEF Reset, IInv, CallsLeaveNoState, SafeForAnyTarget, TypeOK
<1>1. PICK w \in Windows :
        \/ ResetRefused(w)
        \/ ResetFails
        \/ \E written \in 0..MaxReset : ResetSucceeds(written)
  BY DEF Reset
<1>2. CASE ResetRefused(w)
  BY <1>0, <1>2 DEF ResetRefused, engineVars, Abstract!vars, AbstractState
<1>3. CASE ResetFails
  <2>1. AbstractState' = "broken"
    BY <1>3 DEF ResetFails, OnResetStart, AbstractState
  <2> QED BY <1>0, <1>3, <2>1 DEF ResetFails, Abstract!Next, Abstract!Break
<1>4. CASE \E written \in 0..MaxReset : ResetSucceeds(written)
  <2>1. PICK written \in 0..MaxReset : ResetSucceeds(written)
    BY <1>4
  <2>2. AbstractState' = "open"
    BY <2>1 DEF ResetSucceeds, OnResetSuccess, AbstractState
  <2>3. (delivered \o buf)' = <<Chunk("reset", 0, written)>>
    BY <1>0, <2>1 DEF ResetSucceeds, Chunk
  <2> QED
    BY <1>0, <2>1, <2>2, <2>3 DEF ResetSucceeds, Chunk, Abstract!Next, Abstract!Open
<1> QED BY <1>1, <1>2, <1>3, <1>4

LEMMA TranscodeRefines == IInv /\ Transcode => UNCHANGED Abstract!vars
<1> SUFFICES ASSUME IInv, Transcode PROVE UNCHANGED Abstract!vars
  OBVIOUS
<1>0. /\ ~failed /\ inCur = base /\ buf = <<>> /\ phase \in Phases
      /\ UNCHANGED <<source, delivered, failed>>
  BY DEF Transcode, IInv, CallsLeaveNoState, SafeForAnyTarget, TypeOK
<1>1. PICK w \in Windows, n \in 0..SourceLen :
        \/ BeginRefused \/ EofBadIndex(w)
        \/ BeginBadIndex(n, w) \/ BeginLoop(n, w)
  BY EncodeEngineAssumption DEF Transcode, Begin, EofGoesOn
<1>2. inCur' = inCur /\ buf' = buf
  BY <1>0, <1>1 DEF BeginRefused, EofBadIndex, BeginBadIndex, BeginLoop, callVars
<1>3. phase' = phase \/ (phase \in Active /\ phase' \in Active)
  BY <1>0, <1>1 DEF BeginRefused, EofBadIndex, BeginBadIndex, BeginLoop, engineVars,
     OnTranscodeFailure, OnTranscode, Phases, Active
<1>4. AbstractState' = AbstractState
  BY <1>0, <1>3 DEF AbstractState, Active
<1> QED BY <1>0, <1>2, <1>4 DEF Abstract!vars

\* Leaving the loop moves what was written to what was delivered.
LEMMA LeaveLoopRefines ==
    ASSUME IInv, pc = "loop", LeaveLoop
    PROVE  /\ UNCHANGED <<phase, inCur, source>>
           /\ (delivered \o buf)' = delivered \o buf
  BY DEF LeaveLoop, engineVars, IInv, SafeForAnyTarget, TypeOK

LEMMA StopWithRefines ==
    ASSUME IInv, pc = "loop", NEW tag, NEW required, StopWith(tag, required)
    PROVE  UNCHANGED Abstract!vars
<1>1. failed' = failed
  BY DEF StopWith
<1>2. UNCHANGED <<phase, inCur, source>> /\ (delivered \o buf)' = delivered \o buf
  BY LeaveLoopRefines DEF StopWith
<1>3. AbstractState' = AbstractState
  BY <1>1, <1>2 DEF AbstractState
<1> QED BY <1>2, <1>3 DEF Abstract!vars

LEMMA EncodeRefines == IInv /\ Encode => [Abstract!Next]_(Abstract!vars)
<1> SUFFICES ASSUME IInv, Encode PROVE [Abstract!Next]_(Abstract!vars)
  OBVIOUS
<1>0. /\ pc = "loop" /\ HasInput /\ ~failed /\ phase \in Active
      /\ AbstractState = "open"
  BY DEF Encode, IInv, CallsLeaveNoState, SafeForAnyTarget, EncodesOnlyOpenStreams,
         Active, AbstractState
<1>1. PICK o \in EncodeOne(Current, AvailableOutput) :
          \/ OutcomeFits(o) /\ AcceptConsumed(o)
          \/ OutcomeFits(o) /\ AcceptNeedOutput(o)
          \/ o.kind = "Error" /\ StopFailed("EncodeError")
          \/ (o.kind = "Panic" \/ ~OutcomeFits(o)) /\ StopFailed("Panic")
  BY DEF Encode
<1>2. inCur < SourceLen /\ Current = source[inCur + 1]
  BY <1>0, EncodeEngineAssumption
     DEF HasInput, Current, IInv, SafeForAnyTarget, TypeOK
<1>3. CASE AcceptConsumed(o)
  <2>1. /\ inCur' = inCur + 1
        /\ buf' = Append(buf, Chunk("value", inCur + 1, o.n))
        /\ UNCHANGED <<phase, source, delivered, failed>>
        /\ o.kind = "Consumed"
    BY <1>3 DEF AcceptConsumed, engineVars
  <2>2. o.n \in Abstract!Widths(source[inCur + 1]) /\ o.n \in Nat /\ inCur + 1 \in Nat
    BY <1>0, <1>2, <2>1, ReachesEncodeOneFacts
  <2>3. Chunk("value", inCur + 1, o.n) \in Chunks
    BY <2>2 DEF Chunk, Chunks
  <2>4. (delivered \o buf)' = Append(delivered \o buf, Chunk("value", inCur + 1, o.n))
    <3>1. delivered \in Seq(Chunks) /\ buf \in Seq(Chunks)
      BY DEF IInv, SafeForAnyTarget, TypeOK
    <3> QED BY <2>1, <2>3, <3>1
  <2>5. AbstractState' = "open"
    BY <1>0, <2>1 DEF AbstractState, Active
  <2> QED
    BY <1>0, <1>2, <2>1, <2>2, <2>4, <2>5 DEF Chunk, Abstract!Next, Abstract!Take
<1>4. CASE AcceptNeedOutput(o)
  BY <1>0, <1>4, StopWithRefines DEF AcceptNeedOutput
<1>5. CASE /\ o.kind = "Error" \/ o.kind = "Panic" \/ ~OutcomeFits(o)
           /\ StopFailed("EncodeError") \/ StopFailed("Panic")
  <2>1. Abstract!MayReject(source[inCur + 1])
    BY <1>0, <1>2, <1>5, ReachesEncodeOneFacts
       DEF Lies, Abstract!MayReject, Abstract!Lies
  <2>2. failed' = TRUE /\ LeaveLoop
    BY <1>5 DEF StopFailed
  <2>3. UNCHANGED <<phase, inCur, source>> /\ (delivered \o buf)' = delivered \o buf
    BY <1>0, <2>2, LeaveLoopRefines
  <2>4. AbstractState' = "rejected"
    BY <1>0, <2>2, <2>3 DEF AbstractState, Active
  <2> QED BY <1>0, <1>2, <2>1, <2>3, <2>4 DEF Abstract!Next, Abstract!Refuse
<1> QED BY <1>1, <1>3, <1>4, <1>5

LEMMA FinishRefines == IInv /\ Finish => [Abstract!Next]_(Abstract!vars)
<1> SUFFICES ASSUME IInv, Finish PROVE [Abstract!Next]_(Abstract!vars)
  OBVIOUS
<1>0. /\ buf = <<>> /\ delivered \in Seq(Chunks) /\ phase \in Phases
      /\ UNCHANGED <<source, inCur, buf, failed>>
  BY DEF Finish, callVars, IInv, CallsLeaveNoState, SafeForAnyTarget, TypeOK
<1>1. PICK hookBound \in HookBounds, w \in Windows :
        \/ FinishRefused(hookBound, w)
        \/ FinishCodecFails
        \/ FinishHooksFail
        \/ /\ FinishFailure(hookBound, w) = "none"
           /\ \E finished \in 0..MaxFinish, written \in 0..hookBound :
                 FinishSucceeds(finished, written)
  BY DEF Finish
<1>2. CASE FinishRefused(hookBound, w)
  BY <1>0, <1>2 DEF FinishRefused, engineVars, Abstract!vars, AbstractState
<1>3. CASE FinishCodecFails \/ FinishHooksFail
  <2>1. AbstractState' = "broken" /\ delivered' = delivered
    BY <1>3 DEF FinishCodecFails, FinishHooksFail, OnFinishStart, AbstractState
  <2> QED BY <1>0, <2>1 DEF Abstract!Next, Abstract!Break
<1>4. CASE /\ FinishFailure(hookBound, w) = "none"
           /\ \E finished \in 0..MaxFinish, written \in 0..hookBound :
                 FinishSucceeds(finished, written)
  <2>1. PICK finished \in 0..MaxFinish, written \in 0..hookBound :
          FinishSucceeds(finished, written)
    BY <1>4
  <2>2. phase \in Active
    BY <1>0, <1>4 DEF FinishFailure, OnFinishFailure, Phases, Active
  <2>3. finished + written \in 0..UsizeMax
    BY <1>4, <2>2, EncodeEngineAssumption, UsizeMaxAssumption
       DEF FinishFailure, OnFinishFailure, Active, PlannedCapacityFailure,
           MaxFinishOutputLen, CheckedAdd, Overflow
  <2>4. AbstractState \in {"open", "rejected"} /\ AbstractState' = "done"
    BY <2>1, <2>2 DEF FinishSucceeds, OnFinishSuccess, AbstractState, Active
  <2>5. Chunk("finish", 0, finished + written) \in Chunks
    BY <2>3, UsizeMaxAssumption DEF Chunk, Chunks
  <2>6. (delivered \o buf)'
          = Append(delivered \o buf, Chunk("finish", 0, finished + written))
    BY <1>0, <2>1, <2>5 DEF FinishSucceeds
  <2> QED
    BY <1>0, <2>3, <2>4, <2>6 DEF Chunk, Abstract!Next, Abstract!Close
<1> QED BY <1>1, <1>2, <1>3, <1>4

\* What the encoder delivers does not depend on how the values were cut into
\* calls or on how often a call ran out of room: each value is encoded whole,
\* exactly once and in order, or the stream is rejected at it.
THEOREM EncoderImplementsStream == Spec => ImplementsEncodeStream
<1>1. Init => Abstract!Init
  BY DEF Init, Abstract!Init, AbstractState, NewGuard
<1>2. IInv /\ [Next]_vars => [Abstract!Next]_(Abstract!vars)
  <2>1. IInv /\ StopComplete => UNCHANGED Abstract!vars
    BY StopWithRefines DEF StopComplete
  <2>2. UNCHANGED vars => UNCHANGED Abstract!vars
    BY DEF vars, engineVars, callVars, Abstract!vars, AbstractState
  <2> QED
    BY <2>1, <2>2, ResetRefines, TranscodeRefines, EncodeRefines, FinishRefines
       DEF Next, Transcoder
<1> QED
  BY <1>1, <1>2, InductiveInvariant, PTL DEF Spec, ImplementsEncodeStream, Abstract!Spec

=============================================================================
