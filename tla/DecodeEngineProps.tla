------------------------- MODULE DecodeEngineProps -------------------------
(* What makes TranscodeDecodeEngine correct.                               *)
EXTENDS DecodeEngine

TypeOK ==
    /\ phase \in Phases
    /\ codec \in UserStates
    /\ hooks \in UserStates
    /\ stream \in [Positions -> Items]
    /\ tail \in Tails
    /\ visible \in 0..StreamLen
    /\ base \in 0..StreamLen
    /\ pc \in {"idle", "loop"}
    /\ eof \in BOOLEAN
    /\ inCur \in 0..StreamLen
    /\ outStart \in Nat
    /\ outLen \in Nat
    /\ buf \in Seq(Values)
    /\ delivered \in Seq(Values)
    /\ failed \in BOOLEAN
    /\ ret \in Returns

\* The codec and the hooks are called for stream data only between a reset
\* that succeeded as a whole and the first finish that got past its preflight
\* checks: a reset or finish that fails half way, with one of the two objects
\* already closed, leaves an engine that refuses to decode.
DecodesOnlyOpenStreams ==
    /\ phase \in Active => codec = "open" /\ hooks = "open"
    /\ pc = "loop" => phase = "Streaming"

\* However wrong the counts are that codec and hooks report, the unchecked
\* cursors of a running call stay inside the caller's slices.
CursorsStayInBuffers ==
    pc = "loop" => /\ base <= inCur /\ inCur <= visible
                   /\ OutCur <= outLen

\* Between calls nothing of the last call is left over, and unless it failed
\* the caller knows exactly how far the decoder got.
CallsLeaveNoState ==
    /\ base <= visible /\ inCur <= visible
    /\ pc = "idle" => buf = <<>> /\ (~failed => inCur = base)
    /\ pc = "loop" /\ eof => visible = StreamLen
    /\ pc = "loop" => ~failed /\ ret.tag = "none" /\ outLen <= UsizeMax

\* None of the engine's assertions can fire while codec and hooks keep their
\* documented contracts.
HonestCodecNeverPanics == ~Faulty => ret.tag # "Panic"

\* Every Ok(progress) passes TranscodeProgress::validate for the very bounds
\* of its call: this is what buffered drivers rely on to move their cursors.
ProgressHonoursContract ==
    [][pc = "loop" /\ pc' = "idle" /\ ~failed'
         => Validate(ret', base, visible - base, outStart, outLen - outStart)
              = "none"]_vars

\* A caller that reserves max_transcode_output_len for the visible input is
\* never asked for more room, not even for a tail that is then rejected.
OutputBoundSuffices ==
    [][pc = "loop" /\ ret'.tag = "NeedOutput"
         => outLen - outStart < MaxTranscodeOutputLen(visible - base)]_vars

\* A call that announced the end of input never asks for more input.
EofNeverNeedsInput ==
    [][pc = "loop" /\ eof => ret'.tag # "NeedInput"]_vars

\* A refused output window costs nothing: the same call can be repeated with
\* a larger one, because no user code ran and the lifecycle did not move.
CapacityFailureIsRetryable ==
    [][ret'.tag \in CapacityFailures
         => UNCHANGED <<engineVars, base, delivered, failed>>]_vars

----------------------------------------------------------------------------
\* The inductive invariant of the proofs: the safety invariants, closed under
\* the steps by what a call leaves behind.
IInv ==
    /\ TypeOK
    /\ DecodesOnlyOpenStreams
    /\ CursorsStayInBuffers
    /\ CallsLeaveNoState
    /\ HonestCodecNeverPanics

----------------------------------------------------------------------------
\* The engine as a decoder of streams. inCur and delivered \o buf move with
\* every decoded value, so a call cut short is visible to the abstraction.
AbstractState ==
    CASE phase = "Uninitialized" -> "new"
      [] phase = "Finished"      -> "done"
      [] phase = "Poisoned"      -> "broken"
      [] OTHER                   -> IF failed THEN "rejected" ELSE "open"

Abstract == INSTANCE DecodeStream
    WITH st <- AbstractState, pos <- inCur, out <- delivered \o buf,
         MaxOpen <- MaxReset, MaxClose <- UsizeMax

\* What the engine delivers does not depend on how the stream was cut into
\* calls: it implements DecodeStream.
ImplementsDecodeStream == Abstract!Spec

----------------------------------------------------------------------------
\* A caller that drives one stream to its end: it resets once, feeds what
\* arrives, announces the end, offers at least one free slot to each of its
\* calls, and finishes when everything is consumed.
Drained == base = StreamLen /\ visible = StreamLen

CallerNext ==
    \/ Arrive
    \/ phase = "Uninitialized" /\ Reset
    \/ phase \in Active /\ ~Drained /\ Transcode
    \/ Loop
    \/ phase \in Active /\ Drained /\ Finish

\* The running call is ordinary sequential code, so its loop is weakly fair.
\* The source delivers, and the caller keeps calling: strongly fair, because
\* both are disabled while a call runs.
CallerSpec ==
    /\ Init
    /\ [][CallerNext]_vars
    /\ WF_vars(Loop)
    /\ SF_vars(Arrive)
    /\ SF_vars(/\ phase \in Active
               /\ ~Drained
               /\ \E w \in Windows : w[1] < w[2] /\ Begin(TRUE, w))

\* Every stream that was opened is consumed to its last unit or rejected: no
\* tail, no refill and no short output window makes the caller loop forever.
StreamIsConsumed ==
    (phase = "Fresh") ~> (Drained \/ failed)

=============================================================================
