----------------------- MODULE AsyncEncodeOutputProps -----------------------
(* What the asynchronous encode bridge promises a caller who may drop its  *)
(* futures ("Polls one cancellation-safe encoder operation").              *)
EXTENDS AsyncEncodeOutput

AsyncTypeOK ==
    /\ faulty \in BOOLEAN
    /\ cap \in 1..MaxCap
    /\ pend \in 0..cap
    /\ encSt \in {"new", "open", "done", "broken"}
    /\ held \in 0..MaxHeld
    /\ asked \in Nat
    /\ base \in 0..SourceLen
    /\ spare \in 1..Overflow
    /\ fut \in [kind : Kinds \cup {"none"}, n : 0..(SourceLen + 1), reserved : BOOLEAN]
    /\ ret \in AsyncTags

\* What an open encoder last asked for, and nothing once that is served.
RoomIsRemembered == encSt = "open" => spare = AtLeastOne(asked)

\* However polls, drops and failures alternate: the state keeps its types, the
\* units committed lie inside the buffer whatever the encoder reports; the
\* bridge commits every unit of a report it accepts, once, where the drain of
\* this poll has left off, and none of a call that fails or is refused; the
\* room remembered for the next poll_transcode is neither forgotten nor kept
\* too long (required_spare); and an encoder that keeps its contract is never
\* refused. What a drain delivers is the output's own doing.
CancellationIsSafe ==
    /\ AsyncTypeOK
    /\ owed = pend + held
    /\ RoomIsRemembered
    /\ ~faulty => ret \notin {"InvalidData", "Panic"}

\* With what the next poll relies on, CancellationIsSafe is inductive: a future
\* is one of a kind, and the room remembered from a NeedOutput can be reserved.
AsyncIInv ==
    /\ CancellationIsSafe
    /\ fut.kind = "none" => fut = NoFuture
    /\ ~faulty => spare <= UsizeMax

----------------------------------------------------------------------------
(* A caller who writes its stream and may give up any future that is       *)
(* pending, to create it again.                                            *)

CreateNext ==
    \/ encSt = "open" /\ base < SourceLen /\ Create("transcode", SourceLen - base)
    \/ encSt = "open" /\ base = SourceLen /\ Create("finish", 0)
    \/ encSt # "open" /\ pend > 0 /\ Create("flush", 0)

PollReady == Poll /\ ret' # "Pending"

AsyncFairSpec ==
    /\ AsyncSpec
    /\ WF_asyncVars(CreateNext)
    /\ SF_asyncVars(PollReady)

\* Once the caller only drives its stream and the output is reliable, the
\* stream is finished, or the encoder has rejected a value, and every unit is
\* delivered, although the caller drops pending futures as often as it likes:
\* the room an encoder asked for is remembered until it is called again. The
\* output is only assumed to be ready again and again.
WrittenDespiteDrops ==
    <>[][(CreateNext \/ Poll \/ Drop) /\ ret' \notin {"IoError", "OutOfMemory"}]_asyncVars =>
        []<>(faulty \/ (encSt # "open" /\ pend = 0))

=============================================================================
