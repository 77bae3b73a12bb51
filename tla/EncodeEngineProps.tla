------------------------- MODULE EncodeEngineProps -------------------------
(* What makes TranscodeEncodeEngine correct.                               *)
EXTENDS EncodeEngine

\* Types, and the unchecked cursors of a running call: however wrong encode_len
\* and the written counts are, they stay inside the caller's slices.
TypeOK ==
    /\ phase \in Phases
    /\ codec \in UserStates
    /\ hooks \in UserStates
    /\ source \in [1..SourceLen -> Targets]
    /\ base \in 0..SourceLen
    /\ pc \in {"idle", "loop"}
    /\ inLen \in 0..SourceLen
    /\ inCur \in 0..SourceLen
    /\ outStart \in Nat
    /\ outLen \in Nat
    /\ outCur \in Nat
    /\ buf \in Seq(Chunks)
    /\ delivered \in Seq(Chunks)
    /\ asked \in [1..SourceLen -> Nat]
    /\ failed \in BOOLEAN
    /\ ret \in Returns
    /\ pc = "loop" => /\ base <= inCur /\ inCur <= inLen
                      /\ outStart <= outCur /\ outCur <= outLen

\* The encoding codec and hooks are called for values only between a reset
\* that succeeded as a whole and the first finish that got past its preflight.
EncodesOnlyOpenStreams ==
    /\ phase \in Active => codec = "open" /\ hooks = "open"
    /\ pc = "loop" => phase = "Streaming"

\* Whatever the codec answers, the cursors stay in the buffers and the engine
\* in its lifecycle; none of its assertions can fire while codec and hooks keep
\* their documented contracts.
SafeForAnyTarget ==
    /\ TypeOK
    /\ EncodesOnlyOpenStreams
    /\ HonestTarget => ret.tag # "Panic"

\* A value whose call ran out of room is presented again: its hook, which may
\* keep state of its own, has then not been asked about it yet.
HookAskedOncePerValue == \A i \in 1..SourceLen : asked[i] <= 1

\* A caller that reserves max_transcode_output_len for its values is never
\* asked for more room, though unencodable values are preflighted at the
\* widest encoding and written at the replacement's.
OutputBoundSuffices ==
    [][pc = "loop" /\ ret'.tag = "NeedOutput"
         => outLen - outStart < MaxTranscodeOutputLen(inLen - base)]_vars

----------------------------------------------------------------------------
(* The inductive invariant of the proofs.                                  *)

\* Between calls nothing of the last call is left over, and unless it failed
\* the caller knows exactly how far the encoder got.
CallsLeaveNoState ==
    /\ pc = "idle" => buf = <<>> /\ (~failed => inCur = base)
    /\ pc = "loop" => ~failed /\ ret.tag = "none" /\ outLen <= UsizeMax

\* Nobody has asked about a value that was not reached yet; after a failure
\* only a reset goes on, and it forgets what was asked.
HooksAskedInOrder ==
    ~failed => \A i \in 1..SourceLen : i > inCur => asked[i] = 0

\* The values of the running call were paid for with the widest encoding.
UnitsCostValues ==
    pc = "loop" => outCur - outStart <= (inCur - base) * MaxEncode

IInv ==
    /\ SafeForAnyTarget
    /\ HookAskedOncePerValue
    /\ CallsLeaveNoState
    /\ HooksAskedInOrder
    /\ UnitsCostValues

----------------------------------------------------------------------------
AbstractState ==
    CASE phase = "Uninitialized" -> "new"
      [] phase = "Finished"      -> "done"
      [] phase = "Poisoned"      -> "broken"
      [] OTHER                   -> IF failed THEN "rejected" ELSE "open"

Abstract == INSTANCE EncodeStream
    WITH st <- AbstractState, pos <- inCur, out <- delivered \o buf,
         MaxOpen <- MaxReset, MaxClose <- UsizeMax

\* What the engine delivers does not depend on how the values were cut into
\* calls, nor on how often a call ran out of room: it implements EncodeStream.
ImplementsEncodeStream == Abstract!Spec

----------------------------------------------------------------------------
\* The steps of a caller that drives one sequence of values to its end.
CallerNext ==
    \/ phase = "Uninitialized" /\ Reset
    \/ phase \in Active /\ base < SourceLen /\ Transcode
    \/ StopComplete \/ Encode
    \/ phase \in Active /\ base = SourceLen /\ Finish

\* The loop is sequential code; the caller keeps offering all its values with
\* room for the widest encoding.
FairSpec ==
    /\ Spec
    /\ WF_vars(StopComplete \/ Encode)
    /\ SF_vars(/\ pc = "idle" /\ ~failed
               /\ phase \in Active /\ base < SourceLen
               /\ \E w \in Windows : w[2] >= w[1] + MaxEncode
                                     /\ BeginLoop(SourceLen, w)
               /\ UNCHANGED <<source, base, delivered, asked, failed>>)

\* Once a caller does nothing but drive its values, whatever calls came before,
\* an open sequence is encoded to its end or rejected: a value that does not
\* fit the rest of a window is not starved, and one that writes nothing is not
\* retried forever.
SourceIsEncoded ==
    <>[][CallerNext]_vars
      => []<>(base = SourceLen \/ failed \/ phase \notin Active)

=============================================================================
