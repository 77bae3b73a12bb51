------------------------- MODULE EncodeBridgeProofs -------------------------
(* Theorems about the two encode bridges, for every encoder and every      *)
(* buffer: EncodeOutput, with steps, batches, single values and raw writes *)
(* mixed in any order, and AsyncEncodeOutput, however polls, drops and     *)
(* failures alternate. They share the writer, the encoder and the step     *)
(* that accepts or refuses a report, and so the lemmas about those.        *)
EXTENDS EncodeOutputProps, AsyncEncodeOutputProps, TLAPS

\* The caller's values and the bounds an encoder plans for them are usize
\* values. A bound that overflows is refused before the encoder is called, so
\* that "an honest encoder is never refused" is a claim about the others.
BoundsFit ==
    /\ SourceLen <= UsizeMax
    /\ MaxReset <= UsizeMax
    /\ MaxHeld + MaxFinish <= UsizeMax
    /\ MaxHeld + MaxEncode <= UsizeMax
    /\ MaxHeld + SourceLen * MaxEncode <= UsizeMax

EncoderStates == {"new", "open", "done", "broken"}

\* What both bridges keep of writer and encoder.
BridgeTypeOK ==
    /\ faulty \in BOOLEAN
    /\ cap \in 1..MaxCap
    /\ pend \in 0..cap
    /\ encSt \in EncoderStates
    /\ held \in 0..MaxHeld
    /\ asked \in Nat
    /\ base \in 0..SourceLen

----------------------------------------------------------------------------
(* Arithmetic of the bounds.                                               *)

\* Products of a number of values with the widest encoding.
LEMMA RoomPerValue ==
    ASSUME NEW m \in Nat, NEW n \in Nat, m <= n
    PROVE  /\ m * MaxEncode \in Nat
           /\ n * MaxEncode \in Nat
           /\ (n - m) * MaxEncode \in Nat
           /\ n * MaxEncode = m * MaxEncode + (n - m) * MaxEncode
<1> USE EncodeBridgeAssumption
<1>1. PICK k \in Nat : n = m + k
  <2>1. n - m \in Nat /\ n = m + (n - m)
    OBVIOUS
  <2> QED BY <2>1
<1>2. n - m = k
  BY <1>1
<1>3. n * MaxEncode = m * MaxEncode + k * MaxEncode
  BY <1>1
<1> QED BY <1>2, <1>3

\* The bounds the bridges ask for, when they fit.
LEMMA BoundFacts ==
    ASSUME BoundsFit, NEW n \in Nat, n <= SourceLen
    PROVE  /\ MaxTranscodeOutputLen(n) = MaxHeld + n * MaxEncode
           /\ MaxTranscodeOutputLen(n) \in Nat
           /\ MaxTranscodeOutputLen(n) <= UsizeMax
           /\ MaxFinishOutputLen = MaxHeld + MaxFinish
<1> USE EncodeBridgeAssumption, UsizeMaxAssumption
<1> DEFINE k == n * MaxEncode
           all == SourceLen * MaxEncode
<1>1. k \in Nat /\ all \in Nat /\ k <= all
  BY RoomPerValue
<1>2. MaxHeld + all <= UsizeMax /\ MaxEncode <= UsizeMax /\ SourceLen <= UsizeMax
      /\ MaxHeld + MaxFinish <= UsizeMax
  BY DEF BoundsFit
<1>3. CheckedMul(n, MaxEncode) = k
  <2> HIDE DEF k, all
  <2>1. n <= UsizeMax /\ MaxEncode <= UsizeMax /\ k <= UsizeMax
    BY <1>1, <1>2
  <2> QED BY <2>1 DEF CheckedMul, k
<1>4. CheckedAdd(MaxHeld, k) = MaxHeld + k
  <2> HIDE DEF k, all
  <2> QED BY <1>1, <1>2 DEF CheckedAdd
<1>5. MaxFinishOutputLen = MaxHeld + MaxFinish
  BY <1>2 DEF MaxFinishOutputLen, CheckedAdd
<1>6. MaxTranscodeOutputLen(n) = MaxHeld + k
  BY <1>3, <1>4 DEF MaxTranscodeOutputLen
<1> HIDE DEF k, all
<1>7. MaxHeld + k \in Nat /\ MaxHeld + k <= UsizeMax
  BY <1>1, <1>2
<1> QED BY <1>5, <1>6, <1>7 DEF k

----------------------------------------------------------------------------
(* The writer.                                                             *)

\* A drain delivers buffered units only, and one that succeeds makes the room.
LEMMA EnsureSpareFacts ==
    ASSUME NEW p \in Nat, NEW c \in Nat, NEW count \in Nat, p <= c,
           NEW d \in EnsureSpare(p, c, count)
    PROVE  /\ d.j \in 0..p
           /\ d.res \in {"ok", "error"}
           /\ d.res = "ok" => p - d.j + count <= c
<1>1. CASE p + count <= c
  BY <1>1 DEF EnsureSpare, Drained
<1>2. CASE ~(p + count <= c) /\ \E i \in 1..p : p - i + count <= c /\ d = Drained(i, "ok")
  BY <1>2 DEF Drained
<1>3. CASE ~(p + count <= c) /\ \E i \in 0..(p - 1) : d = Drained(i, "error")
  BY <1>3 DEF Drained
<1> QED BY <1>1, <1>2, <1>3 DEF EnsureSpare, Failing

LEMMA FlushAllFacts ==
    ASSUME NEW p \in Nat, NEW d \in FlushAll(p)
    PROVE  d.j \in 0..p /\ d.res \in {"ok", "error"}
  BY DEF FlushAll, Failing, Drained

\* A buffer that may grow to count units stays within what can be allocated.
LEMMA GrownFacts ==
    ASSUME BridgeTypeOK, NEW count \in Nat, MayAllocate(count)
    PROVE  /\ Grown(count) \in 1..MaxCap
           /\ cap <= Grown(count)
           /\ count <= Grown(count)
           /\ count <= UsizeMax
  BY EncodeBridgeAssumption, UsizeMaxAssumption DEF BridgeTypeOK, MayAllocate, Grown

----------------------------------------------------------------------------
(* The reports of an encoder.                                              *)

\* An encoder that keeps its contract. What it keeps back, writes and asks for
\* comes from the values it was given and from what it held before.
LEMMA HonestFacts ==
    ASSUME held \in 0..MaxHeld, NEW n \in Nat, NEW m \in Nat, NEW a \in Honest(n, m)
    PROVE  /\ a.honest
           /\ a.tag \in {"Complete", "NeedOutput"}
           /\ a.read \in 0..n
           /\ a.written \in 0..m
           /\ a.new \in Int
           /\ held + a.new - a.written \in 0..MaxHeld
           /\ a.required \in 0..(MaxHeld + n * MaxEncode)
           /\ a.tag = "Complete" => a.read = n /\ a.required = 0
           /\ a.tag = "NeedOutput" =>
                 /\ a.required > 0
                 /\ a.required > m - a.written
                 /\ a.required + a.written <= held + n * MaxEncode
<1> USE EncodeBridgeAssumption
<1>0. n * MaxEncode \in Nat
  BY RoomPerValue
<1>1. CASE \E w \in 0..m, kept \in 0..MaxHeld :
             a = Report("Complete", 0, n, w, w + kept - held, TRUE)
  BY <1>0, <1>1 DEF Report
<1>2. CASE \E r \in 0..n, w \in 0..m, kept \in 0..MaxHeld,
              q \in 1..(MaxHeld + n * MaxEncode) :
             /\ q > m - w
             /\ q <= kept + (n - r) * MaxEncode
             /\ Possible(r, w, kept)
             /\ a = Report("NeedOutput", q, r, w, w + kept - held, TRUE)
  <2>1. PICK r \in 0..n, w \in 0..m, kept \in 0..MaxHeld,
             q \in 1..(MaxHeld + n * MaxEncode) :
             /\ q > m - w
             /\ q <= kept + (n - r) * MaxEncode
             /\ Possible(r, w, kept)
             /\ a = Report("NeedOutput", q, r, w, w + kept - held, TRUE)
    BY <1>2
  <2> DEFINE all == n * MaxEncode
             mine == r * MaxEncode
             rest == (n - r) * MaxEncode
  <2>2. all \in Nat /\ mine \in Nat /\ rest \in Nat /\ all = mine + rest
    BY RoomPerValue
  <2>3. w + kept - held <= mine /\ q <= kept + rest /\ q \in 1..(MaxHeld + all)
    BY <2>1, <2>2 DEF Possible
  <2> HIDE DEF all, mine, rest
  <2>4. q + w <= held + all
    BY <2>1, <2>2, <2>3
  <2>5. q \in 0..(MaxHeld + all)
    BY <2>2, <2>3
  <2> QED BY <2>1, <2>4, <2>5 DEF Report, all
<1> QED BY <1>1, <1>2 DEF Honest

LEMMA DishonestFacts ==
    ASSUME NEW n \in Nat, NEW m \in Nat, NEW a \in Dishonest(n, m)
    PROVE  /\ ~a.honest
           /\ a.tag \in ProgressTags
           /\ a.read \in Nat
           /\ a.written \in Nat
           /\ a.required \in 1..(m + 1)
  BY DEF Dishonest, Report

\* validate_encode_progress lets only those reports pass whose counts lie in
\* the window and whose request the window does not satisfy already.
LEMMA AcceptedFacts ==
    ASSUME base \in 0..SourceLen,
           NEW n \in Nat, NEW m \in Nat, NEW index \in Nat, NEW a,
           a.read \in Nat, a.written \in Nat, a.required \in Nat,
           a.tag \in ProgressTags,
           EncodeFailure(a, n, index, m) = "none"
    PROVE  /\ a.read <= n
           /\ a.written <= m
           /\ a.tag \in {"Complete", "NeedOutput"}
           /\ a.tag = "Complete" => a.read = n
           /\ a.tag = "NeedOutput" => a.required > m - a.written
<1>1. Validate(a, base, n, index, m) = "none" /\ a.tag # "NeedInput"
  BY DEF EncodeFailure
<1>2. a.read <= n /\ a.written <= m
  BY <1>1 DEF Validate
<1>3. CASE a.tag = "Complete"
  BY <1>1, <1>2, <1>3 DEF Validate
<1>4. CASE a.tag = "NeedOutput"
  BY <1>1, <1>2, <1>4 DEF Validate
<1> QED BY <1>1, <1>2, <1>3, <1>4 DEF ProgressTags

\* An honest report passes.
LEMMA HonestIsAccepted ==
    ASSUME BridgeTypeOK, BoundsFit,
           NEW n \in Nat, n <= SourceLen - base,
           NEW m \in Nat, NEW index \in Nat, index + m <= MaxCap,
           NEW a \in Honest(n, m)
    PROVE  EncodeFailure(a, n, index, m) = "none"
<1> USE EncodeBridgeAssumption, UsizeMaxAssumption
<1>1. /\ a.tag \in {"Complete", "NeedOutput"}
      /\ a.read \in 0..n
      /\ a.written \in 0..m
      /\ a.required \in Int
      /\ a.tag = "Complete" => a.read = n
      /\ a.tag = "NeedOutput" => a.required > m - a.written
  BY HonestFacts, RoomPerValue DEF BridgeTypeOK
<1>2. base + a.read <= UsizeMax /\ index + a.written <= UsizeMax
  BY <1>1 DEF BridgeTypeOK, BoundsFit
<1>3. /\ ~(a.read > n) /\ ~(a.written > m)
      /\ ~(base + a.read > UsizeMax \/ index + a.written > UsizeMax)
      /\ ~(a.tag = "Complete" /\ a.read # n)
      /\ ~(a.tag = "NeedInput" /\ a.required <= n - a.read)
      /\ ~(a.tag = "NeedOutput" /\ a.required <= m - a.written)
  BY <1>1, <1>2 DEF BridgeTypeOK
<1>4. Validate(a, base, n, index, m) = "none"
  BY <1>3 DEF Validate
<1> QED BY <1>1, <1>4 DEF EncodeFailure

----------------------------------------------------------------------------
(* One encoder call.                                                       *)

\* A report that is accepted in a window of the buffer. Its units fit there,
\* the encoder is left with what it kept back, and every unit made is written
\* or kept.
LEMMA EncodeAcceptsFacts ==
    ASSUME BridgeTypeOK, owed \in Int,
           NEW n \in Nat, NEW m \in Nat, m <= MaxCap, NEW index \in Nat,
           NEW d, d.j \in Int,
           NEW a \in Answers(n, m), EncodeAccepts(a, n, index, m, d)
    PROVE  /\ a.read \in 0..n
           /\ a.written \in 0..m
           /\ a.tag \in {"Complete", "NeedOutput"}
           /\ a.tag = "Complete" => a.read = n
           /\ a.tag = "NeedOutput" => asked' > m - a.written /\ asked' > 0
           /\ asked' \in Nat /\ asked' = a.required
           /\ ~faulty => /\ asked' <= MaxHeld + n * MaxEncode
                         /\ a.tag = "NeedOutput" =>
                               asked' + a.written <= held + n * MaxEncode
           /\ asked' <= MaxCap + 1 \/ asked' <= MaxHeld + n * MaxEncode
           /\ encSt' \in EncoderStates
           /\ held' \in 0..MaxHeld
           /\ owed' = owed - held + held' + a.written - d.j
<1> USE EncodeBridgeAssumption, UsizeMaxAssumption
<1>1. /\ EncodeFailure(a, n, index, m) = "none" /\ EncoderMoves(a, d)
      /\ held \in 0..MaxHeld /\ encSt \in EncoderStates /\ base \in 0..SourceLen
      /\ n * MaxEncode \in Nat
  BY RoomPerValue DEF EncodeAccepts, BridgeTypeOK
<1>2. CASE a \in Honest(n, m)
  <2>1. /\ a.honest
        /\ a.tag \in {"Complete", "NeedOutput"}
        /\ a.read \in 0..n
        /\ a.written \in 0..m
        /\ a.new \in Int
        /\ held + a.new - a.written \in 0..MaxHeld
        /\ a.required \in 0..(MaxHeld + n * MaxEncode)
        /\ a.tag = "Complete" => a.read = n /\ a.required = 0
        /\ a.tag = "NeedOutput" =>
              /\ a.required > 0
              /\ a.required > m - a.written
              /\ a.required + a.written <= held + n * MaxEncode
    BY <1>1, <1>2, HonestFacts
  <2>2. /\ held' = held + a.new - a.written /\ asked' = a.required
        /\ owed' = owed + a.new - d.j /\ encSt' = encSt
    BY <1>1, <2>1 DEF EncoderMoves, Makes
  <2> QED BY <1>1, <2>1, <2>2
<1>3. CASE faulty /\ a \in Dishonest(n, m)
  <2>1. /\ ~a.honest
        /\ a.tag \in ProgressTags
        /\ a.read \in Nat
        /\ a.written \in Nat
        /\ a.required \in 1..(m + 1)
    BY <1>3, DishonestFacts
  <2>2. /\ a.read <= n
        /\ a.written <= m
        /\ a.tag \in {"Complete", "NeedOutput"}
        /\ a.tag = "Complete" => a.read = n
        /\ a.tag = "NeedOutput" => a.required > m - a.written
    BY <1>1, <2>1, AcceptedFacts
  <2>3. /\ held' = 0 /\ asked' = a.required
        /\ owed' = owed + (a.written - held) - d.j /\ encSt' = "broken"
    BY <1>1, <2>1 DEF EncoderMoves, Makes
  <2> QED BY <1>1, <1>3, <2>1, <2>2, <2>3 DEF EncoderStates
<1> QED BY <1>2, <1>3 DEF Answers

\* An error, or a report that is refused: an honest one is not.
LEMMA EncodeFailsFacts ==
    ASSUME BridgeTypeOK, BoundsFit, owed \in Int,
           NEW n \in Nat, n <= SourceLen - base,
           NEW m \in Nat, NEW index \in Nat, index + m <= MaxCap,
           NEW d, d.j \in Int, EncodeFails(n, index, m, d)
    PROVE  /\ ret' \in {"EncoderError", "InvalidData"}
           /\ ~faulty => ret' = "EncoderError"
           /\ encSt' \in EncoderStates
           /\ held' \in 0..MaxHeld
           /\ asked' \in Nat
           /\ owed' = owed - held + held' - d.j
<1> USE EncodeBridgeAssumption
<1>0. held \in 0..MaxHeld /\ asked \in Nat /\ encSt \in EncoderStates
  BY DEF BridgeTypeOK
<1>1. CASE encSt # "open" /\ ret' = "EncoderError" /\ EncoderRests(d)
  BY <1>0, <1>1 DEF EncoderRests, Makes, encoderVars
<1>2. CASE /\ EncoderBreaks(d)
           /\ ret' \in {"EncoderError"} \cup
                  ({EncodeFailure(a, n, index, m) : a \in Answers(n, m)} \ {"none"})
  <2>1. ret' \in {"EncoderError", "InvalidData"}
    BY <1>2 DEF EncodeFailure
  <2>2. ASSUME ~faulty, ret' # "EncoderError" PROVE FALSE
    <3>1. PICK a \in Honest(n, m) : ret' = EncodeFailure(a, n, index, m) /\ ret' # "none"
      BY <1>2, <2>2 DEF Answers
    <3> QED BY <3>1, HonestIsAccepted
  <2>3. held' = 0 /\ asked' = 0 /\ encSt' = "broken" /\ owed' = owed - held - d.j
    BY <1>0, <1>2 DEF EncoderBreaks, Makes
  <2> QED BY <1>0, <2>1, <2>2, <2>3 DEF EncoderStates
<1> QED BY <1>1, <1>2 DEF EncodeFails

\* One step of an encoder on n values and the m units that d left.
LEMMA StepEncoderFacts ==
    ASSUME BridgeTypeOK, BoundsFit, owed = pend + held,
           NEW n \in Nat, n <= SourceLen - base, NEW m \in Nat,
           NEW d, d.j \in 0..pend, pend - d.j + m <= MaxCap,
           StepEncoder(n, m, d)
    PROVE  /\ encSt' \in EncoderStates
           /\ held' \in 0..MaxHeld
           /\ asked' \in Nat
           /\ base' \in 0..SourceLen
           /\ pend' \in 0..(pend - d.j + m)
           /\ owed' = pend' + held'
           /\ ret' \in {"Complete", "NeedOutput", "EncoderError", "InvalidData"}
           /\ ~faulty => ret' # "InvalidData"
           /\ ret' = "NeedOutput" => asked' \in 1..Overflow
           /\ ~faulty => (ret' = "NeedOutput" => asked' <= UsizeMax)
<1> USE EncodeBridgeAssumption, UsizeMaxAssumption
<1>1. /\ pend \in Nat /\ held \in 0..MaxHeld /\ base \in 0..SourceLen
      /\ pend - d.j \in Nat /\ d.j \in Int /\ owed \in Int /\ m <= MaxCap
  BY DEF BridgeTypeOK
<1> DEFINE k == n * MaxEncode
<1>2. k \in Nat /\ MaxHeld + k <= UsizeMax
  <2>1. n <= SourceLen
    BY <1>1
  <2> QED BY <2>1, BoundFacts, RoomPerValue
<1>3. CASE EncodeFails(n, pend - d.j, m, d) /\ Drain(d, 0) /\ UNCHANGED base
  <2>1. /\ ret' \in {"EncoderError", "InvalidData"}
        /\ ~faulty => ret' = "EncoderError"
        /\ encSt' \in EncoderStates
        /\ held' \in 0..MaxHeld
        /\ asked' \in Nat
        /\ owed' = owed - held + held' - d.j
    BY <1>1, <1>3, EncodeFailsFacts
  <2> QED BY <1>1, <1>3, <2>1 DEF Drain
<1>4. CASE \E a \in Answers(n, m) :
             /\ EncodeAccepts(a, n, pend - d.j, m, d)
             /\ Drain(d, a.written)
             /\ base' = base + a.read
             /\ ret' = a.tag
  <2>1. PICK a \in Answers(n, m) :
             /\ EncodeAccepts(a, n, pend - d.j, m, d)
             /\ Drain(d, a.written)
             /\ base' = base + a.read
             /\ ret' = a.tag
    BY <1>4
  <2>2. /\ a.read \in 0..n
        /\ a.written \in 0..m
        /\ a.tag \in {"Complete", "NeedOutput"}
        /\ a.tag = "NeedOutput" => asked' > 0
        /\ asked' \in Nat
        /\ ~faulty => asked' <= MaxHeld + k
        /\ asked' <= MaxCap + 1 \/ asked' <= MaxHeld + k
        /\ encSt' \in EncoderStates
        /\ held' \in 0..MaxHeld
        /\ owed' = owed - held + held' + a.written - d.j
    BY <1>1, <2>1, EncodeAcceptsFacts
  <2>3. pend' = pend - d.j + a.written
    BY <2>1 DEF Drain
  <2> HIDE DEF k
  <2> QED BY <1>1, <1>2, <2>1, <2>2, <2>3 DEF Overflow
<1> QED BY <1>3, <1>4 DEF StepEncoder

\* An encoder that is still open after a step was served, or asks for room.
LEMMA OpenAfterStep ==
    ASSUME NEW n \in Nat, NEW m \in Nat, NEW d, StepEncoder(n, m, d), encSt' = "open"
    PROVE  \/ ret' = "Complete" /\ asked' = 0
           \/ ret' = "NeedOutput" /\ asked' # 0
<1>1. CASE EncodeFails(n, pend - d.j, m, d)
  BY <1>1 DEF EncodeFails, EncoderRests, EncoderBreaks, encoderVars
<1>2. CASE \E a \in Answers(n, m) :
             EncodeAccepts(a, n, pend - d.j, m, d) /\ ret' = a.tag
  <2>1. PICK a \in Answers(n, m) :
             EncodeAccepts(a, n, pend - d.j, m, d) /\ ret' = a.tag
    BY <1>2
  <2>2. EncoderMoves(a, d)
    BY <2>1 DEF EncodeAccepts
  <2>3. a.honest /\ asked' = a.required
    BY <2>2 DEF EncoderMoves
  <2>4. a \in Honest(n, m)
    BY <2>3 DEF Answers, Dishonest, Report
  <2>5. \/ a.tag = "Complete" /\ a.required = 0
        \/ a.tag = "NeedOutput" /\ a.required # 0
    BY <2>4, EncodeBridgeAssumption DEF Honest, Report
  <2> QED BY <2>1, <2>3, <2>5
<1> QED BY <1>1, <1>2 DEF StepEncoder

----------------------------------------------------------------------------
(* The blocking bridge.                                                    *)

\* BoundsFit, for the bounds that only the blocking bridge computes: finish
\* counts the buffered units too, and a single value its three phases.
OutputBoundsFit ==
    /\ BoundsFit
    /\ MaxCap + MaxHeld + MaxFinish <= UsizeMax
    /\ EncodeReset + EncodeValue + EncodeFinish <= UsizeMax

\* What no call with a contract-keeping encoder returns.
Blames == {"InvalidData", "BoundInsufficient", "InsufficientOutput", "Panic"}

CallType == [count : 0..SourceLen, read : 0..SourceLen, left : 0..MaxRaw, calls : {0}]

\* What the invariant says of writer, encoder and call.
LEMMA Types ==
    ASSUME IInv
    PROVE  /\ BridgeTypeOK
           /\ pend \in Nat /\ cap \in Nat /\ pend <= cap /\ owed = pend + held
           /\ held \in 0..MaxHeld /\ owed \in Int
           /\ base \in 0..SourceLen /\ asked \in Nat /\ encSt \in EncoderStates
           /\ call \in CallType /\ call.read = 0
  BY EncodeBridgeAssumption, UsizeMaxAssumption
     DEF IInv, SafeForAnyEncoder, TypeOK, NoUnitLostOrInvented, BatchHasRoom,
         BridgeTypeOK, EncoderStates, CallType

LEMMA NoCallType == NoCall \in CallType /\ NoCall.read = 0
  BY EncodeBridgeAssumption, EncodeOutputAssumption DEF NoCall, CallType

----------------------------------------------------------------------------
(* The inductive invariant, from what a step leaves.                       *)

LEMMA InitIInv == Init => IInv
<1> SUFFICES ASSUME Init PROVE IInv
  OBVIOUS
<1> USE EncodeBridgeAssumption, UsizeMaxAssumption DEF Init, BridgeInit
<1>1. call \in CallType /\ call.read = 0
  BY NoCallType
<1>2. TypeOK
  BY <1>1 DEF TypeOK, Tags, CallType
<1> QED
  BY <1>1, <1>2 DEF IInv, SafeForAnyEncoder, NoUnitLostOrInvented, BatchHasRoom

\* A caller that has read nothing in its call is where it was.
LEMMA NothingRead ==
    ASSUME NEW b \in 0..SourceLen, NEW r, r = 0
    PROVE  b + r <= SourceLen
  BY EncodeBridgeAssumption

\* A step that ends outside the batch loop.
LEMMA StepIInv ==
    ASSUME IInv, faulty' = faulty,
           cap' \in 1..MaxCap, pend' \in 0..cap', encSt' \in EncoderStates,
           held' \in 0..MaxHeld, asked' \in Nat, base' \in 0..SourceLen,
           owed' = pend' + held',
           pc' \in {"idle", "flush", "write"}, call' \in CallType, call'.read = 0,
           ret' \in Tags, ~faulty => ret' \notin Blames
    PROVE  IInv'
<1> USE EncodeBridgeAssumption
<1>1. base' + call'.read <= SourceLen
  BY NothingRead
<1>2. TypeOK'
  BY <1>1 DEF IInv, SafeForAnyEncoder, TypeOK, EncoderStates, CallType
<1>3. SafeForAnyEncoder'
  BY <1>2 DEF SafeForAnyEncoder, Blames
<1> QED BY <1>3 DEF IInv, NoUnitLostOrInvented, BatchHasRoom

\* A call that returns before it touches anything.
LEMMA RefusedIInv ==
    ASSUME IInv, pc = "idle", faulty' = faulty, NEW tag \in Tags,
           ~faulty => tag \notin Blames, Refused(tag), UNCHANGED callVars
    PROVE  IInv'
<1>1. /\ pend' = pend /\ owed' = owed /\ cap' = cap /\ encSt' = encSt /\ held' = held
      /\ asked' = asked /\ base' = base /\ pc' = pc /\ call' = call /\ ret' = tag
  BY DEF Refused, writerVars, encoderVars, callVars
<1>2. BridgeTypeOK /\ owed = pend + held /\ call \in CallType /\ call.read = 0
      /\ encSt \in EncoderStates
  BY Types
<1> QED BY <1>1, <1>2, StepIInv DEF BridgeTypeOK

\* A drain after which encoder and caller are where they were.
LEMMA DrainedIInv ==
    ASSUME IInv, faulty' = faulty, NEW d, d.j \in 0..pend,
           cap' \in 1..MaxCap, cap <= cap',
           Drain(d, 0), EncoderRests(d), base' = base, call' = call,
           pc' \in {"idle", "flush", "write"}, ret' \in Tags \ Blames
    PROVE  IInv'
<1> USE EncodeBridgeAssumption
<1>1. /\ BridgeTypeOK /\ owed = pend + held /\ call \in CallType /\ call.read = 0
      /\ encSt \in EncoderStates /\ pend \in Nat /\ cap \in Nat /\ pend <= cap
      /\ held \in 0..MaxHeld
  BY Types
<1>2. /\ pend' = pend - d.j /\ owed' = owed - d.j /\ encSt' = encSt /\ held' = held
      /\ asked' = asked
  BY <1>1 DEF Drain, EncoderRests, Makes, encoderVars
<1>3. pend' \in 0..cap' /\ owed' = pend' + held'
  BY <1>1, <1>2
<1> QED BY <1>1, <1>2, <1>3, StepIInv DEF BridgeTypeOK

\* A reservation of count units that fails, in the allocator or in the drain.
LEMMA ReservationFailsIInv ==
    ASSUME IInv, pc = "idle", faulty' = faulty, UNCHANGED callVars,
           NEW overflow \in {"InvalidData", "InvalidInput"},
           NEW count \in Nat, ~faulty => count <= UsizeMax,
           \/ \E tag \in ReservationFailure(count, overflow) : Refused(tag)
           \/ /\ MayAllocate(count)
              /\ cap' = Grown(count)
              /\ \E d \in EnsureSpare(pend, Grown(count), count) :
                    /\ Drain(d, 0)
                    /\ ret' = "IoError"
                    /\ EncoderRests(d)
                    /\ UNCHANGED base
    PROVE  IInv'
<1> USE EncodeBridgeAssumption, UsizeMaxAssumption
<1>1. CASE \E tag \in ReservationFailure(count, overflow) : Refused(tag)
  <2>1. PICK tag \in ReservationFailure(count, overflow) : Refused(tag)
    BY <1>1
  <2>2. tag \in {"InvalidData", "InvalidInput", "OutOfMemory"} /\ (~faulty => tag # "InvalidData")
    BY <2>1 DEF ReservationFailure
  <2>3. tag \in Tags /\ (~faulty => tag \notin Blames)
    BY <2>2 DEF Tags, IoFailures, Blames
  <2> QED BY <2>1, <2>3, RefusedIInv
<1>2. CASE /\ MayAllocate(count)
           /\ cap' = Grown(count)
           /\ \E d \in EnsureSpare(pend, Grown(count), count) :
                 /\ Drain(d, 0)
                 /\ ret' = "IoError"
                 /\ EncoderRests(d)
                 /\ UNCHANGED base
  <2>1. PICK d \in EnsureSpare(pend, cap', count) :
                 /\ Drain(d, 0)
                 /\ ret' = "IoError"
                 /\ EncoderRests(d)
                 /\ UNCHANGED base
    BY <1>2
  <2>2. cap' \in 1..MaxCap /\ cap <= cap' /\ cap' \in Nat
    BY <1>2, Types, GrownFacts
  <2>3. d.j \in 0..pend
    BY <2>2, Types, EnsureSpareFacts
  <2>4. ret' \in Tags \ Blames
    BY <2>1 DEF Tags, IoFailures, Blames
  <2> QED BY <2>1, <2>2, <2>3, <2>4, DrainedIInv DEF callVars
<1> QED BY <1>1, <1>2

\* The window a reservation of count units leaves.
LEMMA ReservedFacts ==
    ASSUME IInv, NEW count \in Nat, MayAllocate(count),
           NEW d \in EnsureSpare(pend, Grown(count), count), d.res = "ok"
    PROVE  /\ Grown(count) \in 1..MaxCap
           /\ cap <= Grown(count)
           /\ count <= UsizeMax
           /\ d.j \in 0..pend
           /\ Spare(d, count) \in Nat
           /\ count <= Spare(d, count)
           /\ pend - d.j + Spare(d, count) = Grown(count)
<1> USE EncodeBridgeAssumption, UsizeMaxAssumption
<1> DEFINE c == Grown(count)
<1>1. /\ c \in 1..MaxCap /\ cap <= c /\ count <= c /\ count <= UsizeMax
      /\ pend \in Nat /\ cap \in Nat /\ pend <= cap
  BY Types, GrownFacts
<1>2. Spare(d, count) = c - (pend - d.j)
  BY DEF Spare
<1> HIDE DEF c
<1>3. d.j \in 0..pend /\ pend - d.j + count <= c
  BY <1>1, EnsureSpareFacts DEF c
<1>4. /\ c - (pend - d.j) \in Nat /\ count <= c - (pend - d.j)
      /\ pend - d.j + (c - (pend - d.j)) = c
  BY <1>1, <1>3
<1> QED BY <1>1, <1>2, <1>3, <1>4 DEF c

----------------------------------------------------------------------------
(* ensure_spare_capacity, flush, reset.                                    *)

LEMMA EnsureSpareCallIInv ==
    ASSUME OutputBoundsFit, IInv, EnsureSpareCall PROVE IInv'
<1> USE EncodeBridgeAssumption, UsizeMaxAssumption
<1>1. PICK count \in 0..(MaxEncode + MaxHeld) : EnsureSpareOf(count)
  BY DEF EnsureSpareCall
<1>2. count \in Nat /\ count <= UsizeMax
  BY DEF OutputBoundsFit, BoundsFit
<1>3. pc = "idle" /\ faulty' = faulty
  BY <1>1 DEF EnsureSpareOf
<1>4. \/ /\ UNCHANGED callVars
         /\ \/ \E tag \in ReservationFailure(count, "InvalidData") : Refused(tag)
            \/ /\ MayAllocate(count)
               /\ cap' = Grown(count)
               /\ \E d \in EnsureSpare(pend, Grown(count), count) :
                     /\ Drain(d, 0)
                     /\ ret' = "IoError"
                     /\ EncoderRests(d)
                     /\ UNCHANGED base
      \/ /\ MayAllocate(count)
         /\ cap' = Grown(count)
         /\ \E d \in EnsureSpare(pend, Grown(count), count) :
               /\ d.res = "ok"
               /\ Drain(d, 0)
               /\ ret' = "SpareOk"
               /\ EncoderRests(d)
               /\ UNCHANGED <<base, callVars>>
  BY <1>1 DEF EnsureSpareOf, Reserved, ReservedOr
<1>5. CASE /\ UNCHANGED callVars
           /\ \/ \E tag \in ReservationFailure(count, "InvalidData") : Refused(tag)
              \/ /\ MayAllocate(count)
                 /\ cap' = Grown(count)
                 /\ \E d \in EnsureSpare(pend, Grown(count), count) :
                       /\ Drain(d, 0)
                       /\ ret' = "IoError"
                       /\ EncoderRests(d)
                       /\ UNCHANGED base
  BY <1>2, <1>3, <1>5, ReservationFailsIInv
<1>6. CASE /\ MayAllocate(count)
           /\ cap' = Grown(count)
           /\ \E d \in EnsureSpare(pend, Grown(count), count) :
                 /\ d.res = "ok"
                 /\ Drain(d, 0)
                 /\ ret' = "SpareOk"
                 /\ EncoderRests(d)
                 /\ UNCHANGED <<base, callVars>>
  <2>1. PICK d \in EnsureSpare(pend, Grown(count), count) :
                 /\ d.res = "ok"
                 /\ Drain(d, 0)
                 /\ ret' = "SpareOk"
                 /\ EncoderRests(d)
                 /\ UNCHANGED <<base, callVars>>
    BY <1>6
  <2>2. cap' \in 1..MaxCap /\ cap <= cap' /\ d.j \in 0..pend
    BY <1>2, <1>6, <2>1, ReservedFacts
  <2>3. ret' \in Tags \ Blames
    BY <2>1 DEF Tags, Blames
  <2> QED BY <1>3, <2>1, <2>2, <2>3, DrainedIInv DEF callVars
<1> QED BY <1>4, <1>5, <1>6

LEMMA FlushIInv == ASSUME IInv, Flush \/ FinishFlushes PROVE IInv'
<1>1. PICK d \in FlushAll(pend) :
          /\ Drain(d, 0)
          /\ EncoderRests(d)
          /\ ret' \in {"FlushOk", "FlushedOk", "IoError"}
  BY DEF Flush, FinishFlushes
<1>2. /\ faulty' = faulty /\ cap' = cap /\ base' = base /\ call' = call /\ pc' = "idle"
  BY DEF Flush, FinishFlushes, callVars
<1>3. d.j \in 0..pend /\ cap \in 1..MaxCap /\ cap \in Nat
  BY Types, FlushAllFacts DEF BridgeTypeOK
<1>4. ret' \in Tags \ Blames
  BY <1>1 DEF Tags, IoFailures, Blames
<1> QED BY <1>1, <1>2, <1>3, <1>4, DrainedIInv

LEMMA ResetIInv == ASSUME OutputBoundsFit, IInv, Reset PROVE IInv'
<1> USE EncodeBridgeAssumption, UsizeMaxAssumption
<1>1. PICK bound \in Planned(MaxReset) :
         Reserved(bound, LAMBDA d : /\ ResetFails(d) \/ ResetSucceeds(d)
                                    /\ UNCHANGED callVars)
  BY DEF Reset
<1>2. /\ bound \in Nat /\ (~faulty => bound <= UsizeMax)
      /\ bound <= UsizeMax => bound = MaxReset
  BY <1>1 DEF Planned, Overflow, OutputBoundsFit, BoundsFit
<1>3. pc = "idle" /\ faulty' = faulty
  BY DEF Reset
<1>4. CASE /\ UNCHANGED callVars
           /\ \/ \E tag \in ReservationFailure(bound, "InvalidData") : Refused(tag)
              \/ /\ MayAllocate(bound)
                 /\ cap' = Grown(bound)
                 /\ \E d \in EnsureSpare(pend, Grown(bound), bound) :
                       /\ Drain(d, 0)
                       /\ ret' = "IoError"
                       /\ EncoderRests(d)
                       /\ UNCHANGED base
  BY <1>2, <1>3, <1>4, ReservationFailsIInv
<1>5. CASE /\ MayAllocate(bound)
           /\ cap' = Grown(bound)
           /\ \E d \in EnsureSpare(pend, Grown(bound), bound) :
                 /\ d.res = "ok"
                 /\ ResetFails(d) \/ ResetSucceeds(d)
                 /\ UNCHANGED callVars
  <2>1. PICK d \in EnsureSpare(pend, Grown(bound), bound) :
                 /\ d.res = "ok"
                 /\ ResetFails(d) \/ ResetSucceeds(d)
                 /\ UNCHANGED callVars
    BY <1>5
  <2> DEFINE m == Spare(d, bound)
  <2>2. /\ cap' \in 1..MaxCap /\ bound = MaxReset /\ d.j \in 0..pend /\ m \in Nat
        /\ MaxReset <= m /\ pend - d.j + m = cap'
    BY <1>2, <1>5, <2>1, ReservedFacts
  <2> HIDE DEF m
  <2>3. /\ pend \in Nat /\ owed = pend + held /\ held \in 0..MaxHeld /\ base \in 0..SourceLen
        /\ call \in CallType /\ call.read = 0
    BY Types
  <2>4. CASE ResetFails(d)
    <3>1. /\ pend' = pend - d.j /\ owed' = owed - held - d.j /\ held' = 0 /\ asked' = 0
          /\ encSt' = "broken" /\ base' = base
          /\ ret' = "EncoderError" \/ (faulty /\ ret' = "Panic")
      BY <2>2, <2>3, <2>4 DEF ResetFails, EncoderBreaks, Makes, Drain
    <3>2. /\ pend' \in 0..cap' /\ owed' = pend' + held' /\ encSt' \in EncoderStates
          /\ ret' \in Tags /\ (~faulty => ret' \notin Blames)
      BY <2>2, <2>3, <3>1 DEF EncoderStates, Tags, IoFailures, Blames
    <3> QED BY <1>3, <2>1, <2>2, <2>3, <3>1, <3>2, StepIInv DEF callVars
  <2>5. CASE ResetSucceeds(d)
    <3>1. PICK w \in 0..MaxReset : Makes(w - held, d) /\ Drain(d, w)
      BY <2>5 DEF ResetSucceeds
    <3>2. /\ pend' = pend - d.j + w /\ owed' = owed + (w - held) - d.j /\ held' = 0
          /\ asked' = 0 /\ encSt' = "open" /\ base' = 0 /\ ret' = "ResetOk"
      BY <2>5, <3>1 DEF ResetSucceeds, Makes, Drain
    <3>3. /\ pend' \in 0..cap' /\ owed' = pend' + held' /\ encSt' \in EncoderStates
          /\ ret' \in Tags /\ ret' \notin Blames
      BY <2>2, <2>3, <3>1, <3>2 DEF EncoderStates, Tags, Blames
    <3> QED BY <1>3, <2>1, <2>2, <2>3, <3>2, <3>3, StepIInv DEF callVars
  <2> QED BY <2>1, <2>4, <2>5
<1> QED BY <1>1, <1>4, <1>5 DEF Reserved, ReservedOr

----------------------------------------------------------------------------
(* transcode_step.                                                         *)

LEMMA StepOfIInv ==
    ASSUME OutputBoundsFit, IInv, NEW n \in 1..(SourceLen - base), StepOf(n)
    PROVE  IInv'
<1> USE EncodeBridgeAssumption, UsizeMaxAssumption
<1>1. PICK bound \in Planned(StepBound) :
         Reserved(bound, LAMBDA d : /\ StepEncoder(n, Spare(d, bound), d)
                                    /\ UNCHANGED callVars)
  BY DEF StepOf
<1>2. n \in Nat /\ n <= SourceLen - base /\ 1 <= SourceLen
  BY Types
<1>3. /\ bound \in Nat /\ (~faulty => bound <= UsizeMax)
  <2>1. /\ MaxTranscodeOutputLen(1) = MaxHeld + 1 * MaxEncode
        /\ MaxTranscodeOutputLen(1) \in Nat
        /\ MaxTranscodeOutputLen(1) <= UsizeMax
    BY <1>2, BoundFacts DEF OutputBoundsFit
  <2>2. StepBound \in Nat /\ StepBound <= UsizeMax
    BY <2>1 DEF StepBound, AtLeastOne
  <2> QED BY <1>1, <2>2 DEF Planned, Overflow
<1>4. pc = "idle" /\ faulty' = faulty
  BY DEF StepOf
<1>5. CASE /\ UNCHANGED callVars
           /\ \/ \E tag \in ReservationFailure(bound, "InvalidData") : Refused(tag)
              \/ /\ MayAllocate(bound)
                 /\ cap' = Grown(bound)
                 /\ \E d \in EnsureSpare(pend, Grown(bound), bound) :
                       /\ Drain(d, 0)
                       /\ ret' = "IoError"
                       /\ EncoderRests(d)
                       /\ UNCHANGED base
  BY <1>3, <1>4, <1>5, ReservationFailsIInv
<1>6. CASE /\ MayAllocate(bound)
           /\ cap' = Grown(bound)
           /\ \E d \in EnsureSpare(pend, Grown(bound), bound) :
                 /\ d.res = "ok"
                 /\ StepEncoder(n, Spare(d, bound), d)
                 /\ UNCHANGED callVars
  <2>1. PICK d \in EnsureSpare(pend, Grown(bound), bound) :
                 /\ d.res = "ok"
                 /\ StepEncoder(n, Spare(d, bound), d)
                 /\ UNCHANGED callVars
    BY <1>6
  <2> DEFINE m == Spare(d, bound)
  <2>2. /\ cap' \in 1..MaxCap /\ d.j \in 0..pend /\ m \in Nat /\ pend - d.j + m = cap'
    BY <1>3, <1>6, <2>1, ReservedFacts
  <2>3. StepEncoder(n, m, d)
    BY <2>1
  <2> HIDE DEF m
  <2>4. /\ BridgeTypeOK /\ owed = pend + held /\ pend - d.j + m <= MaxCap
        /\ call \in CallType /\ call.read = 0
    BY <2>2, Types
  <2>5. /\ encSt' \in EncoderStates
        /\ held' \in 0..MaxHeld
        /\ asked' \in Nat
        /\ base' \in 0..SourceLen
        /\ pend' \in 0..(pend - d.j + m)
        /\ owed' = pend' + held'
        /\ ret' \in {"Complete", "NeedOutput", "EncoderError", "InvalidData"}
        /\ ~faulty => ret' # "InvalidData"
    BY <1>2, <2>2, <2>3, <2>4, StepEncoderFacts DEF OutputBoundsFit
  <2>6. ret' \in Tags /\ (~faulty => ret' \notin Blames)
    BY <2>5 DEF Tags, ProgressTags, IoFailures, Blames
  <2> QED BY <1>4, <2>1, <2>2, <2>4, <2>5, <2>6, StepIInv DEF callVars
<1> QED BY <1>1, <1>5, <1>6 DEF Reserved, ReservedOr

LEMMA TranscodeStepIInv == ASSUME OutputBoundsFit, IInv, TranscodeStep PROVE IInv'
<1>1. CASE \E n \in 1..(SourceLen - base) : StepOf(n)
  BY <1>1, StepOfIInv
<1>2. CASE /\ pc = "idle"
           /\ Refused("InvalidInput") \/ Refused("Complete")
           /\ UNCHANGED <<faulty, callVars>>
  <2>1. {"InvalidInput", "Complete"} \subseteq Tags \ Blames
    BY DEF Tags, ProgressTags, IoFailures, Blames
  <2> QED BY <1>2, <2>1, RefusedIInv
<1> QED BY <1>1, <1>2 DEF TranscodeStep, Refused

----------------------------------------------------------------------------
(* The batch call.                                                         *)

LEMMA TranscodeIInv == ASSUME OutputBoundsFit, IInv, Transcode PROVE IInv'
<1> USE EncodeBridgeAssumption, UsizeMaxAssumption
<1>1. pc = "idle" /\ faulty' = faulty
  BY DEF Transcode
<1>2. CASE /\ Refused("InvalidInput") \/ Refused("BatchOk")
           /\ UNCHANGED callVars
  <2>1. {"InvalidInput", "BatchOk"} \subseteq Tags \ Blames
    BY DEF Tags, IoFailures, Blames
  <2> QED BY <1>1, <1>2, <2>1, RefusedIInv
<1>3. CASE \E n \in 1..(SourceLen - base) :
             \E bound \in Planned(BatchBound(n)) :
                Reserved(bound, LAMBDA d : BatchStarts(n, d))
  <2>1. PICK n \in 1..(SourceLen - base) :
             \E bound \in Planned(BatchBound(n)) :
                Reserved(bound, LAMBDA d : BatchStarts(n, d))
    BY <1>3
  <2>2. PICK bound \in Planned(BatchBound(n)) :
                Reserved(bound, LAMBDA d : BatchStarts(n, d))
    BY <2>1
  <2>3. n \in Nat /\ n <= SourceLen /\ n \in 1..(SourceLen - base) /\ n \in 0..SourceLen
    BY Types
  <2>4. BatchBound(n) \in Nat /\ BatchBound(n) <= UsizeMax
    <3>1. MaxTranscodeOutputLen(n) \in Nat /\ MaxTranscodeOutputLen(n) <= UsizeMax
      BY <2>3, BoundFacts DEF OutputBoundsFit
    <3>2. 1 <= UsizeMax
      OBVIOUS
    <3> QED BY <3>1, <3>2 DEF BatchBound, AtLeastOne
  <2>5. /\ bound \in Nat /\ (~faulty => bound <= UsizeMax)
        /\ bound <= UsizeMax => bound = BatchBound(n)
    BY <2>2, <2>4 DEF Planned, Overflow
  <2>6. CASE /\ UNCHANGED callVars
             /\ \/ \E tag \in ReservationFailure(bound, "InvalidData") : Refused(tag)
                \/ /\ MayAllocate(bound)
                   /\ cap' = Grown(bound)
                   /\ \E d \in EnsureSpare(pend, Grown(bound), bound) :
                         /\ Drain(d, 0)
                         /\ ret' = "IoError"
                         /\ EncoderRests(d)
                         /\ UNCHANGED base
    BY <1>1, <2>5, <2>6, ReservationFailsIInv
  <2>7. CASE /\ MayAllocate(bound)
             /\ cap' = Grown(bound)
             /\ \E d \in EnsureSpare(pend, Grown(bound), bound) :
                   d.res = "ok" /\ BatchStarts(n, d)
    <3>1. PICK d \in EnsureSpare(pend, Grown(bound), bound) :
                   d.res = "ok" /\ BatchStarts(n, d)
      BY <2>7
    <3> DEFINE m == Spare(d, bound)
    <3>2. /\ cap' \in 1..MaxCap /\ bound = BatchBound(n) /\ d.j \in 0..pend /\ m \in Nat
          /\ bound <= m /\ pend - d.j + m = cap'
      BY <2>5, <2>7, <3>1, ReservedFacts
    <3> HIDE DEF m
    <3>3. /\ BridgeTypeOK /\ pend \in Nat /\ owed = pend + held /\ held \in 0..MaxHeld
          /\ base \in 0..SourceLen /\ encSt \in EncoderStates /\ asked \in Nat
      BY Types
    <3>4. /\ pend' = pend - d.j /\ owed' = owed - d.j /\ held' = held /\ asked' = asked
          /\ encSt' = encSt /\ base' = base /\ pc' = "loop" /\ ret' = "none"
          /\ call' = [count |-> n, read |-> 0, left |-> 0, calls |-> 0]
      BY <3>1, <3>2, <3>3
         DEF BatchStarts, Drain, EncoderRests, Makes, encoderVars, NoCall
    <3>5. pend' \in 0..cap' /\ owed' = pend' + held' /\ cap' - pend' = m
      BY <3>2, <3>3, <3>4
    <3>6. /\ call' \in CallType /\ call'.read = 0 /\ call'.count = n
      BY <2>3, <3>4, EncodeOutputAssumption DEF CallType
    <3>7. base' + call'.read <= SourceLen
      BY <3>3, <3>4, <3>6, NothingRead
    <3>8. TypeOK'
      BY <1>1, <3>2, <3>3, <3>4, <3>5, <3>6, <3>7
         DEF TypeOK, BridgeTypeOK, EncoderStates, CallType, Tags
    <3>9. BatchHasRoom'
      <4>1. call'.count \in 1..(SourceLen - base') /\ BatchBound(call'.count) <= cap' - pend'
        BY <2>3, <2>4, <3>2, <3>4, <3>5, <3>6
      <4> QED BY <3>4, <3>6, <4>1 DEF BatchHasRoom, BatchBound, AtLeastOne,
                MaxTranscodeOutputLen, CheckedAdd, CheckedMul, Overflow
    <3> QED BY <3>4, <3>5, <3>8, <3>9 DEF IInv, SafeForAnyEncoder, NoUnitLostOrInvented
  <2> QED BY <2>2, <2>6, <2>7 DEF Reserved, ReservedOr
<1> QED BY <1>2, <1>3 DEF Transcode, Refused

\* One iteration is all the loop has: a report that passes validation completes
\* the batch or proves its bound insufficient, and an honest one the former.
LEMMA LoopEncodesIInv == ASSUME OutputBoundsFit, IInv, LoopEncodes PROVE IInv'
<1> USE EncodeBridgeAssumption, UsizeMaxAssumption
<1> DEFINE n == call.count - call.read
           m == cap - pend
<1>1. pc = "loop" /\ faulty' = faulty /\ cap' = cap
  BY DEF LoopEncodes
<1>2. /\ BridgeTypeOK /\ pend \in Nat /\ cap \in 1..MaxCap /\ owed = pend + held
      /\ held \in 0..MaxHeld /\ owed \in Int /\ base \in 0..SourceLen /\ call.read = 0
      /\ call.count \in 1..(SourceLen - base) /\ pend <= cap
      /\ BatchBound(call.count) <= cap - pend /\ call.count \in 0..SourceLen
  BY <1>1, Types DEF IInv, BatchHasRoom, BridgeTypeOK, CallType
<1>3. /\ n \in Nat /\ n <= SourceLen - base /\ n <= SourceLen /\ n = call.count
      /\ m \in Nat /\ m <= MaxCap /\ pend + m = cap /\ BatchBound(n) <= m
  BY <1>2
<1>4. MaxHeld + n * MaxEncode <= m /\ n * MaxEncode \in Nat
  <2> HIDE DEF n, m
  <2>1. /\ MaxTranscodeOutputLen(n) = MaxHeld + n * MaxEncode
        /\ MaxTranscodeOutputLen(n) \in Nat
    BY <1>3, BoundFacts DEF OutputBoundsFit
  <2>2. n * MaxEncode \in Nat
    BY <1>3, RoomPerValue
  <2> QED BY <1>3, <2>1, <2>2 DEF BatchBound, AtLeastOne
<1>5. NoDrain.j = 0
  BY DEF NoDrain, Drained
<1> HIDE DEF n, m
<1>6. CASE /\ EncodeFails(n, pend, m, NoDrain)
           /\ LeaveCall
           /\ UNCHANGED <<pend, base>>
  <2>1. /\ ret' \in {"EncoderError", "InvalidData"}
        /\ ~faulty => ret' = "EncoderError"
        /\ encSt' \in EncoderStates
        /\ held' \in 0..MaxHeld
        /\ asked' \in Nat
        /\ owed' = owed - held + held' - NoDrain.j
    BY <1>2, <1>3, <1>5, <1>6, EncodeFailsFacts DEF OutputBoundsFit
  <2>2. owed' = pend' + held' /\ pend' \in 0..cap'
    BY <1>1, <1>2, <1>5, <1>6, <2>1
  <2>3. ret' \in Tags /\ (~faulty => ret' \notin Blames)
    BY <2>1 DEF Tags, IoFailures, Blames
  <2> QED BY <1>1, <1>2, <1>6, <2>1, <2>2, <2>3, NoCallType, StepIInv DEF LeaveCall
<1>7. CASE \E a \in Answers(n, m) :
             /\ EncodeAccepts(a, n, pend, m, NoDrain)
             /\ Drain(NoDrain, a.written)
             /\ BatchEnds(a, m)
  <2>1. PICK a \in Answers(n, m) :
             /\ EncodeAccepts(a, n, pend, m, NoDrain)
             /\ Drain(NoDrain, a.written)
             /\ BatchEnds(a, m)
    BY <1>7
  <2>2. /\ a.read \in 0..n
        /\ a.written \in 0..m
        /\ a.tag \in {"Complete", "NeedOutput"}
        /\ a.tag = "NeedOutput" => asked' > m - a.written
        /\ asked' \in Nat /\ asked' = a.required
        /\ ~faulty => (a.tag = "NeedOutput" => asked' + a.written <= held + n * MaxEncode)
        /\ encSt' \in EncoderStates
        /\ held' \in 0..MaxHeld
        /\ owed' = owed - held + held' + a.written - NoDrain.j
    <3>1. /\ BridgeTypeOK /\ owed \in Int /\ n \in Nat /\ m \in Nat /\ m <= MaxCap
          /\ pend \in Nat /\ NoDrain.j \in Int
      BY <1>2, <1>3, <1>5
    <3> QED BY <2>1, <3>1, EncodeAcceptsFacts
  <2>3. pend' = pend + a.written
    BY <1>2, <1>5, <2>1, <2>2 DEF Drain
  <2>4. pend' \in 0..cap' /\ owed' = pend' + held'
    BY <1>1, <1>2, <1>3, <1>5, <2>2, <2>3
  <2>5. a.tag = "NeedOutput" => m - a.written < a.required
    BY <1>3, <2>2
  <2>6. a.tag = "NeedOutput" => faulty
    <3> DEFINE k == n * MaxEncode
    <3>1. k \in Nat /\ MaxHeld + k <= m
      BY <1>4
    <3>2. (~faulty /\ a.tag = "NeedOutput") => asked' + a.written <= held + k
      BY <2>2
    <3> HIDE DEF k
    <3> QED BY <1>2, <1>3, <2>2, <3>1, <3>2
  <2>7. /\ pc' = "idle" /\ call' = NoCall
        /\ \/ ret' = "BatchOk" /\ base' = base + call.read + a.read
           \/ faulty /\ ret' = "BoundInsufficient" /\ base' = base
    BY <2>1, <2>2, <2>5, <2>6 DEF BatchEnds, BoundInsufficient, LeaveCall
  <2>8. base' \in 0..SourceLen
    BY <1>2, <1>3, <2>2, <2>7
  <2>9. ret' \in Tags /\ (~faulty => ret' \notin Blames)
    BY <2>7 DEF Tags, Blames
  <2> QED BY <1>1, <1>2, <2>2, <2>4, <2>7, <2>8, <2>9, NoCallType, StepIInv
<1> QED BY <1>6, <1>7 DEF LoopEncodes, n, m

----------------------------------------------------------------------------
(* finish and finish_to_buffer.                                            *)

LEMMA FinishInBufferIInv ==
    ASSUME OutputBoundsFit, IInv, pc = "idle", faulty' = faulty, call' = call,
           pc' \in {"idle", "flush"}, FinishInBuffer
    PROVE  IInv'
<1> USE EncodeBridgeAssumption, UsizeMaxAssumption
<1>1. /\ BridgeTypeOK /\ pend \in Nat /\ cap \in 1..MaxCap /\ owed = pend + held
      /\ held \in 0..MaxHeld /\ owed \in Int /\ base \in 0..SourceLen /\ pend <= cap
      /\ call \in CallType /\ call.read = 0 /\ encSt \in EncoderStates /\ asked \in Nat
  BY Types DEF BridgeTypeOK
<1>2. PICK bound \in Planned(MaxFinishOutputLen) :
        \/ \E tag \in ReservationFailure(FinishBound(bound), "InvalidData") : Refused(tag)
        \/ /\ MayAllocate(FinishBound(bound))
           /\ cap' = Grown(FinishBound(bound))
           /\ \/ FinishFails(NoDrain) /\ UNCHANGED pend
              \/ \E w \in 0..bound :
                    FinishSucceeds(w, NoDrain) /\ Drain(NoDrain, w)
           /\ UNCHANGED base
  BY DEF FinishInBuffer
<1>3. bound \in Nat /\ (~faulty => bound = MaxHeld + MaxFinish)
  <2>1. MaxFinishOutputLen = MaxHeld + MaxFinish
    BY BoundFacts DEF OutputBoundsFit
  <2> QED BY <1>2, <2>1 DEF Planned, Overflow
<1>4. /\ FinishBound(bound) \in Nat
      /\ FinishBound(bound) <= UsizeMax => FinishBound(bound) = pend + bound
      /\ ~faulty => FinishBound(bound) <= UsizeMax
  BY <1>1, <1>3 DEF FinishBound, CheckedAdd, Overflow, OutputBoundsFit
<1>5. NoDrain.j = 0
  BY DEF NoDrain, Drained
<1>6. CASE \E tag \in ReservationFailure(FinishBound(bound), "InvalidData") : Refused(tag)
  <2>1. PICK tag \in ReservationFailure(FinishBound(bound), "InvalidData") : Refused(tag)
    BY <1>6
  <2>2. tag \in {"InvalidData", "OutOfMemory"} /\ (~faulty => tag # "InvalidData")
    BY <1>4, <2>1 DEF ReservationFailure
  <2>3. tag \in Tags /\ (~faulty => tag \notin Blames)
    BY <2>2 DEF Tags, IoFailures, Blames
  <2>4. /\ pend' = pend /\ owed' = owed /\ cap' = cap /\ encSt' = encSt /\ held' = held
        /\ asked' = asked /\ base' = base /\ ret' = tag
    BY <2>1 DEF Refused, writerVars, encoderVars
  <2> QED BY <1>1, <2>3, <2>4, StepIInv
<1>7. CASE /\ MayAllocate(FinishBound(bound))
           /\ cap' = Grown(FinishBound(bound))
           /\ \/ FinishFails(NoDrain) /\ UNCHANGED pend
              \/ \E w \in 0..bound :
                    FinishSucceeds(w, NoDrain) /\ Drain(NoDrain, w)
           /\ UNCHANGED base
  <2>1. cap' \in 1..MaxCap /\ cap <= cap' /\ pend + bound <= cap'
    BY <1>1, <1>4, <1>7, GrownFacts
  <2>2. CASE FinishFails(NoDrain) /\ UNCHANGED pend
    <3>1. /\ encSt' \in EncoderStates /\ held' \in 0..MaxHeld /\ asked' \in Nat
          /\ owed' = owed - held + held'
          /\ ret' = "EncoderError" \/ (faulty /\ ret' = "Panic")
      <4>1. CASE ret' = "EncoderError" /\ EncoderRests(NoDrain)
        BY <1>1, <1>5, <4>1 DEF EncoderRests, Makes, encoderVars
      <4>2. CASE EncoderBreaks(NoDrain) /\ (ret' = "EncoderError" \/ (faulty /\ ret' = "Panic"))
        BY <1>1, <1>5, <4>2 DEF EncoderBreaks, Makes, EncoderStates
      <4> QED BY <2>2, <4>1, <4>2 DEF FinishFails
    <3>2. ret' \in Tags /\ (~faulty => ret' \notin Blames)
      BY <3>1 DEF Tags, IoFailures, Blames
    <3>3. pend' \in 0..cap' /\ owed' = pend' + held'
      BY <1>1, <2>1, <2>2, <3>1
    <3> QED BY <1>1, <1>7, <2>1, <3>1, <3>2, <3>3, StepIInv
  <2>3. CASE \E w \in 0..bound : FinishSucceeds(w, NoDrain) /\ Drain(NoDrain, w)
    <3>1. PICK w \in 0..bound : FinishSucceeds(w, NoDrain) /\ Drain(NoDrain, w)
      BY <2>3
    <3>2. /\ encSt' = "done" /\ held' = 0 /\ asked' = 0 /\ ret' = "FinishOk"
          /\ owed' = owed + (w - held) /\ pend' = pend + w
      BY <1>1, <1>5, <3>1 DEF FinishSucceeds, Makes, Drain
    <3>3. pend' \in 0..cap' /\ owed' = pend' + held' /\ encSt' \in EncoderStates
          /\ ret' \in Tags /\ ret' \notin Blames
      BY <1>1, <1>3, <2>1, <3>1, <3>2 DEF EncoderStates, Tags, Blames
    <3> QED BY <1>1, <1>7, <2>1, <3>2, <3>3, StepIInv
  <2> QED BY <1>7, <2>2, <2>3
<1> QED BY <1>2, <1>6, <1>7

LEMMA FinishIInv == ASSUME OutputBoundsFit, IInv, FinishToBuffer \/ Finish PROVE IInv'
<1>1. /\ pc = "idle" /\ faulty' = faulty /\ call' = call /\ pc' \in {"idle", "flush"}
      /\ FinishInBuffer
  BY DEF FinishToBuffer, Finish, callVars
<1> QED BY <1>1, FinishInBufferIInv

----------------------------------------------------------------------------
(* write_encoded_with.                                                     *)

\* encode_finish ends a value with at most its bound more, or with nothing.
LEMMA FinishEncodeFacts ==
    ASSUME NEW at \in Nat, NEW v \in Value!FinishEncode(at)
    PROVE  /\ v.n \in 0..(at + EncodeFinish)
           /\ v.res \in {"Ok", "FinishError", "Panic"}
           /\ v.res = "Panic" => faulty
<1> USE EncodeOutputAssumption
<1>1. CASE v = Value!Result("FinishError", 0)
  BY <1>1 DEF Value!Result
<1>2. CASE \E n \in Value!Writes(EncodeFinish) :
             v = IF n > EncodeFinish THEN Value!Result("Panic", 0)
                 ELSE Value!Result("Ok", at + n)
  <2>1. PICK n \in Value!Writes(EncodeFinish) :
             v = IF n > EncodeFinish THEN Value!Result("Panic", 0)
                 ELSE Value!Result("Ok", at + n)
    BY <1>2
  <2>2. n \in Nat /\ (n > EncodeFinish => faulty)
    BY <2>1 DEF Value!Writes
  <2> QED BY <2>1, <2>2 DEF Value!Result
<1> QED BY <1>1, <1>2 DEF Value!FinishEncode

LEMMA EncodeOfFacts ==
    ASSUME NEW len \in 0..EncodeValue, NEW at \in Nat, NEW v \in Value!EncodeOf(len, at)
    PROVE  /\ v.n \in 0..(at + EncodeValue + EncodeFinish)
           /\ v.res \in {"Ok", "FinishError", "EncodeError", "Panic"}
           /\ v.res = "Panic" => faulty
<1> USE EncodeOutputAssumption
<1>1. CASE v = Value!Result("EncodeError", 0)
  BY <1>1 DEF Value!Result
<1>2. CASE v \in Value!FinishEncode(at + len)
  <2>1. at + len \in Nat
    OBVIOUS
  <2>2. v.n \in 0..(at + len + EncodeFinish) /\ v.res \in {"Ok", "FinishError", "Panic"}
        /\ (v.res = "Panic" => faulty)
    BY <1>2, <2>1, FinishEncodeFacts
  <2> QED BY <2>2
<1>3. CASE faulty /\ v = Value!Result("Panic", 0)
  BY <1>3 DEF Value!Result
<1>4. v = Value!Result("EncodeError", 0)
      \/ \E n \in IF faulty THEN Value!Writes(EncodeValue) ELSE {len} :
            v \in IF n # len THEN {Value!Result("Panic", 0)} ELSE Value!FinishEncode(at + n)
  BY DEF Value!EncodeOf
<1> QED BY <1>1, <1>2, <1>3, <1>4

\* The whole value fits the room that was reserved for it, and an honest codec
\* trips no assertion and no capacity check.
LEMMA EncodeCompleteFacts ==
    ASSUME OutputBoundsFit, NEW room \in Nat, Value!MaxCompleteEncodeUnits <= room,
           NEW v \in Value!EncodeComplete(Value!MaxCompleteEncodeUnits, room)
    PROVE  /\ v.n \in 0..Value!MaxCompleteEncodeUnits
           /\ v.res \in {"Ok", "ResetError", "Unencodable", "EncodeError", "FinishError",
                         "Panic"}
           /\ v.res = "Panic" => faulty
<1> USE EncodeOutputAssumption, UsizeMaxAssumption
<1> DEFINE all == Value!MaxCompleteEncodeUnits
<1>1. all = EncodeReset + EncodeValue + EncodeFinish /\ all \in Nat
  BY DEF Value!MaxCompleteEncodeUnits, OutputBoundsFit, CheckedAdd,
         Value!CheckedAdd, Value!Overflow, Overflow
<1> HIDE DEF all
<1>2. CASE v = Value!Result("ResetError", 0)
  BY <1>1, <1>2 DEF Value!Result, all
<1>3. CASE \E n \in Value!Writes(EncodeReset) :
             v \in IF n > EncodeReset THEN {Value!Result("Panic", 0)}
                   ELSE Value!EncodeValueIn(room, n)
  <2>1. PICK n \in Value!Writes(EncodeReset) :
             v \in IF n > EncodeReset THEN {Value!Result("Panic", 0)}
                   ELSE Value!EncodeValueIn(room, n)
    BY <1>3
  <2>2. n \in Nat /\ (n > EncodeReset => faulty)
    BY <2>1 DEF Value!Writes
  <2>3. CASE n > EncodeReset
    BY <1>1, <2>1, <2>2, <2>3 DEF Value!Result, all
  <2>4. CASE v = Value!Result("Unencodable", 0)
    BY <1>1, <2>4 DEF Value!Result, all
  <2>5. CASE n <= EncodeReset /\ \E len \in Value!Writes(EncodeValue) :
               v \in IF len > EncodeValue THEN {Value!Result("Panic", 0)}
                     ELSE IF Value!CapacityFailure(room, n, len + EncodeFinish) # "none"
                     THEN {Value!Result("InsufficientOutput", 0)}
                     ELSE Value!EncodeOf(len, n)
    <3>1. PICK len \in Value!Writes(EncodeValue) :
               v \in IF len > EncodeValue THEN {Value!Result("Panic", 0)}
                     ELSE IF Value!CapacityFailure(room, n, len + EncodeFinish) # "none"
                     THEN {Value!Result("InsufficientOutput", 0)}
                     ELSE Value!EncodeOf(len, n)
      BY <2>5
    <3>2. len \in Nat /\ (len > EncodeValue => faulty)
      BY <3>1 DEF Value!Writes
    <3>3. CASE len > EncodeValue
      BY <1>1, <3>1, <3>2, <3>3 DEF Value!Result, all
    <3>4. CASE len <= EncodeValue
      <4>1. EncodeReset + EncodeValue + EncodeFinish <= room
        BY <1>1 DEF all
      <4>2. ~(n > room) /\ ~(room - n < len + EncodeFinish)
        BY <2>2, <2>5, <3>2, <3>4, <4>1
      <4>3. Value!CapacityFailure(room, n, len + EncodeFinish) = "none"
        BY <4>2 DEF Value!CapacityFailure
      <4>4. v \in Value!EncodeOf(len, n) /\ len \in 0..EncodeValue
        BY <3>1, <3>2, <3>4, <4>3
      <4>5. /\ v.n \in 0..(n + EncodeValue + EncodeFinish)
            /\ v.res \in {"Ok", "FinishError", "EncodeError", "Panic"}
            /\ v.res = "Panic" => faulty
        BY <2>2, <4>4, EncodeOfFacts
      <4>6. v.n \in 0..all
        BY <1>1, <2>2, <2>5, <4>5
      <4> QED BY <4>5, <4>6 DEF all
    <3> QED BY <3>2, <3>3, <3>4
  <2> QED BY <2>1, <2>2, <2>3, <2>4, <2>5 DEF Value!EncodeValueIn
<1> QED BY <1>1, <1>2, <1>3 DEF Value!EncodeComplete, all

LEMMA WriteEncodedWithIInv ==
    ASSUME OutputBoundsFit, IInv, WriteEncodedWith PROVE IInv'
<1> USE EncodeBridgeAssumption, EncodeOutputAssumption, UsizeMaxAssumption
<1> DEFINE all == Value!MaxCompleteEncodeUnits
<1>1. all \in Nat /\ all <= UsizeMax
  BY DEF Value!MaxCompleteEncodeUnits, OutputBoundsFit, CheckedAdd,
         Value!CheckedAdd, Value!Overflow, Overflow
<1>2. pc = "idle" /\ faulty' = faulty /\ ReservedOr("InvalidInput", all, WriteValue)
  BY DEF WriteEncodedWith
<1> HIDE DEF all
<1>3. CASE /\ UNCHANGED callVars
           /\ \/ \E tag \in ReservationFailure(all, "InvalidInput") : Refused(tag)
              \/ /\ MayAllocate(all)
                 /\ cap' = Grown(all)
                 /\ \E d \in EnsureSpare(pend, Grown(all), all) :
                       /\ Drain(d, 0)
                       /\ ret' = "IoError"
                       /\ EncoderRests(d)
                       /\ UNCHANGED base
  BY <1>1, <1>2, <1>3, ReservationFailsIInv
<1>4. CASE /\ MayAllocate(all)
           /\ cap' = Grown(all)
           /\ \E d \in EnsureSpare(pend, Grown(all), all) :
                 d.res = "ok" /\ WriteValue(d)
  <2>1. PICK d \in EnsureSpare(pend, Grown(all), all) : d.res = "ok" /\ WriteValue(d)
    BY <1>4
  <2> DEFINE m == Spare(d, all)
  <2>2. /\ cap' \in 1..MaxCap /\ d.j \in 0..pend /\ m \in Nat
        /\ all <= m /\ pend - d.j + m = cap'
    BY <1>1, <1>4, <2>1, ReservedFacts
  <2>3. PICK v \in Value!EncodeComplete(all, m) :
        /\ Drain(d, v.n)
        /\ Makes(v.n, d)
        /\ ret' = CASE v.res = "Ok" -> "ValueOk"
                    [] v.res \in {"Panic", "InsufficientOutput"} -> v.res
                    [] OTHER -> "EncoderError"
        /\ UNCHANGED <<encoderVars, base, callVars>>
    BY <2>1 DEF WriteValue, all
  <2> HIDE DEF m
  <2>4. /\ v.n \in 0..all
        /\ v.res \in {"Ok", "ResetError", "Unencodable", "EncodeError", "FinishError",
                      "Panic"}
        /\ v.res = "Panic" => faulty
    BY <2>2, <2>3, EncodeCompleteFacts DEF all
  <2>5. /\ BridgeTypeOK /\ pend \in Nat /\ owed = pend + held /\ held \in 0..MaxHeld
        /\ base \in 0..SourceLen /\ encSt \in EncoderStates /\ asked \in Nat
        /\ call \in CallType /\ call.read = 0
    BY Types
  <2>6. /\ pend' = pend - d.j + v.n /\ owed' = owed + v.n - d.j /\ held' = held
        /\ asked' = asked /\ encSt' = encSt /\ base' = base /\ pc' = pc /\ call' = call
    BY <2>3 DEF Drain, Makes, encoderVars, callVars
  <2>7. pend' \in 0..cap' /\ owed' = pend' + held'
    BY <1>1, <2>2, <2>4, <2>5, <2>6
  <2>8. ret' \in {"ValueOk", "EncoderError", "Panic"} /\ (ret' = "Panic" => faulty)
    BY <2>3, <2>4
  <2>9. ret' \in Tags /\ (~faulty => ret' \notin Blames)
    BY <2>8 DEF Tags, IoFailures, Blames
  <2> QED BY <1>2, <2>2, <2>5, <2>6, <2>7, <2>9, StepIInv
<1> QED BY <1>2, <1>3, <1>4 DEF ReservedOr

----------------------------------------------------------------------------
(* write_all.                                                              *)

\* Units of one raw write: those delivered were buffered, those buffered fit.
LEMMA WriteSomeFacts ==
    ASSUME NEW p \in Nat, NEW c \in Nat, p <= c, NEW n \in Nat,
           NEW w \in WriteSome(p, c, n)
    PROVE  /\ w.j \in 0..p
           /\ w.k \in 0..n
           /\ w.res \in {"ok", "direct", "zero", "interrupted", "error"}
           /\ w.res \in {"ok", "direct"} \/ w.k = 0
           /\ w.res # "direct" => p - w.j + w.k <= c
<1>1. CASE \E j \in 0..p, k \in 1..n :
             p - j + k <= c /\ w = [j |-> j, k |-> k, res |-> "ok"]
  BY <1>1
<1>2. CASE \E k \in 1..n : w = [j |-> p, k |-> k, res |-> "direct"]
  BY <1>2
<1>3. CASE \E j \in 0..p, r \in {"zero", "interrupted", "error"} :
             w = [j |-> j, k |-> 0, res |-> r]
  BY <1>3
<1> QED BY <1>1, <1>2, <1>3 DEF WriteSome, Failing

LEMMA WriteAllIInv ==
    ASSUME IInv, WriteAll \/ WriteAllDone \/ WriteAllStep PROVE IInv'
<1> USE EncodeBridgeAssumption, EncodeOutputAssumption
<1>1. /\ BridgeTypeOK /\ pend \in Nat /\ cap \in Nat /\ pend <= cap /\ owed = pend + held
      /\ held \in 0..MaxHeld /\ base \in 0..SourceLen /\ encSt \in EncoderStates
      /\ asked \in Nat /\ call \in CallType /\ call.read = 0 /\ cap \in 1..MaxCap
  BY Types DEF BridgeTypeOK
<1>2. CASE WriteAll \/ WriteAllDone
  <2>1. /\ faulty' = faulty /\ pend' = pend /\ owed' = owed /\ cap' = cap
        /\ encSt' = encSt /\ held' = held /\ asked' = asked /\ base' = base
        /\ pc' \in {"idle", "write"} /\ ret' \in {"none", "RawOk"}
        /\ call' \in {NoCall, [NoCall EXCEPT !.left = MaxRaw]}
    BY <1>2 DEF WriteAll, WriteAllDone, LeaveCall, writerVars, encoderVars
  <2>2. call' \in CallType /\ call'.read = 0
    BY <2>1 DEF NoCall, CallType
  <2>3. ret' \in Tags /\ ret' \notin Blames
    BY <2>1 DEF Tags, Blames
  <2> QED BY <1>1, <2>1, <2>2, <2>3, StepIInv DEF BridgeTypeOK
<1>3. CASE WriteAllStep
  <2>1. PICK w \in WriteSome(pend, cap, call.left) :
          /\ WriteTakes(w)
          /\ \/ /\ w.res \in {"ok", "direct", "interrupted"}
                /\ call' = [call EXCEPT !.left = @ - Counted(w)]
                /\ UNCHANGED <<pc, ret>>
             \/ /\ w.res \in {"zero", "error"}
                /\ LeaveCall
                /\ ret' = (IF w.res = "zero" THEN "WriteZero" ELSE "IoError")
    BY <1>3 DEF WriteAllStep
  <2>2. /\ faulty' = faulty /\ cap' = cap /\ encSt' = encSt /\ held' = held
        /\ asked' = asked /\ base' = base /\ pc = "write"
    BY <1>3 DEF WriteAllStep, encoderVars
  <2>3. call.left \in 0..MaxRaw
    BY <1>1 DEF CallType
  <2>4. /\ w.j \in 0..pend
        /\ w.k \in 0..call.left
        /\ w.res # "direct" => pend - w.j + w.k <= cap
    BY <1>1, <2>1, <2>3, WriteSomeFacts
  <2> DEFINE b == Buffered(w)
  <2>5. Counted(w) = w.k
    BY <1>1, <2>1, <2>3, WriteSomeFacts DEF Counted
  <2>6. b \in 0..w.k /\ pend - w.j + b <= cap
    BY <1>1, <2>3, <2>4 DEF Buffered
  <2>7. pend' = pend - w.j + b /\ owed' = owed + w.k - (w.j + w.k - b)
    BY <2>1, <2>5 DEF WriteTakes, Delivered
  <2> HIDE DEF b
  <2>8. pend' \in 0..cap' /\ owed' = pend' + held'
    BY <1>1, <2>2, <2>3, <2>4, <2>6, <2>7
  <2>9. ret \in Tags /\ (~faulty => ret \notin Blames)
    BY DEF IInv, SafeForAnyEncoder, TypeOK, Blames
  <2>10. /\ pc' \in {"idle", "write"} /\ call' \in CallType /\ call'.read = 0
        /\ ret' \in Tags /\ (~faulty => ret' \notin Blames)
    <3>1. CASE call' = [call EXCEPT !.left = @ - w.k] /\ UNCHANGED <<pc, ret>>
      <4>1. call.left - w.k \in 0..MaxRaw
        BY <2>3, <2>4
      <4> QED BY <1>1, <2>2, <2>9, <3>1, <4>1 DEF CallType
    <3>2. CASE LeaveCall /\ ret' \in {"WriteZero", "IoError"}
      BY <3>2, NoCallType DEF LeaveCall, Tags, IoFailures, Blames
    <3> QED BY <2>1, <2>5, <3>1, <3>2
  <2> QED BY <1>1, <2>2, <2>8, <2>10, StepIInv
<1> QED BY <1>2, <1>3

LEMMA NextIInv == ASSUME OutputBoundsFit PROVE IInv /\ [Next]_vars => IInv'
<1> SUFFICES ASSUME IInv, [Next]_vars PROVE IInv'
  OBVIOUS
<1>1. CASE UNCHANGED vars
  BY <1>1 DEF vars, writerVars, encoderVars, callVars, IInv, SafeForAnyEncoder, TypeOK,
         NoUnitLostOrInvented, BatchHasRoom, BatchBound, AtLeastOne,
         MaxTranscodeOutputLen, CheckedAdd, CheckedMul, Overflow
<1> QED BY <1>1, EnsureSpareCallIInv, FlushIInv, ResetIInv, TranscodeStepIInv,
           TranscodeIInv, LoopEncodesIInv, FinishIInv, WriteEncodedWithIInv, WriteAllIInv
       DEF Next

----------------------------------------------------------------------------
(* The theorems about the blocking bridge.                                 *)

\* The inductive invariant of the blocking encode bridge: any output, any order
\* of calls, any encoder and codec whose bounds fit usize.
THEOREM InductiveInvariant == ASSUME OutputBoundsFit PROVE Spec => []IInv
  BY InitIInv, NextIInv, PTL DEF Spec

\* Whatever the encoder reports, units are committed inside the buffer and the
\* batch loop ends in its first iteration; an encoder that keeps its contract
\* is never refused and finds the room it needs.
THEOREM SafeBridge == ASSUME OutputBoundsFit PROVE Spec => []SafeForAnyEncoder
<1>1. IInv => SafeForAnyEncoder
  BY DEF IInv
<1> QED BY <1>1, InductiveInvariant, PTL

\* The bridge commits the units of every report it accepts and every value it
\* encodes whole, once, and of nothing else, and write_all counts exactly the
\* units the output took, over interrupted and failing writes.
THEOREM UnitsConserved == ASSUME OutputBoundsFit PROVE Spec => []NoUnitLostOrInvented
<1>1. IInv => NoUnitLostOrInvented
  BY DEF IInv
<1> QED BY <1>1, InductiveInvariant, PTL

----------------------------------------------------------------------------
(* The asynchronous bridge.                                                *)

\* What the invariant says of writer and encoder.
LEMMA AsyncTypes ==
    ASSUME AsyncIInv
    PROVE  /\ BridgeTypeOK
           /\ pend \in Nat /\ cap \in Nat /\ owed = pend + held
           /\ held \in 0..MaxHeld /\ owed \in Int
           /\ spare \in 1..Overflow
  BY EncodeBridgeAssumption, UsizeMaxAssumption
     DEF AsyncIInv, CancellationIsSafe, AsyncTypeOK, BridgeTypeOK, EncoderStates

----------------------------------------------------------------------------
(* Between polls.                                                          *)

LEMMA AsyncInitIInv == AsyncInit => AsyncIInv
<1> SUFFICES ASSUME AsyncInit PROVE AsyncIInv
  OBVIOUS
<1> USE EncodeBridgeAssumption, UsizeMaxAssumption DEF AsyncInit, BridgeInit
<1>1. fut \in [kind : Kinds \cup {"none"}, n : 0..(SourceLen + 1), reserved : BOOLEAN]
  BY DEF NoFuture, Future
<1>2. AsyncTypeOK
  BY <1>1 DEF AsyncTypeOK, AsyncTags, Overflow
<1> QED
  BY <1>2 DEF AsyncIInv, CancellationIsSafe, RoomIsRemembered, AtLeastOne

\* A step that leaves writer, encoder and caller alone.
LEMMA AsyncQuietIInv ==
    ASSUME AsyncIInv, UNCHANGED <<faulty, writerVars, encoderVars, base, spare>>,
           fut' \in [kind : Kinds \cup {"none"}, n : 0..(SourceLen + 1), reserved : BOOLEAN],
           fut'.kind = "none" => fut' = NoFuture,
           ret' \in AsyncTags, ~faulty => ret' \notin {"InvalidData", "Panic"}
    PROVE  AsyncIInv'
<1>1. /\ faulty' = faulty /\ pend' = pend /\ owed' = owed /\ cap' = cap /\ encSt' = encSt
      /\ held' = held /\ asked' = asked /\ base' = base /\ spare' = spare
  BY DEF writerVars, encoderVars
<1>2. AsyncTypeOK'
  BY <1>1 DEF AsyncIInv, CancellationIsSafe, AsyncTypeOK
<1>3. CancellationIsSafe'
  BY <1>1, <1>2 DEF AsyncIInv, CancellationIsSafe, RoomIsRemembered, AtLeastOne
<1>4. (fut.kind = "none" => fut = NoFuture)'
  OBVIOUS
<1> QED BY <1>1, <1>3, <1>4 DEF AsyncIInv

LEMMA CreateAnyIInv == ASSUME AsyncIInv, CreateAny PROVE AsyncIInv'
<1> USE EncodeBridgeAssumption
<1>1. PICK kind \in Kinds, n \in 0..(SourceLen - base + 1) : Create(kind, n)
  BY DEF CreateAny
<1>2. /\ fut' = [kind |-> kind, n |-> n, reserved |-> FALSE] /\ ret' = "none"
      /\ UNCHANGED <<faulty, writerVars, encoderVars, base, spare>>
  BY <1>1 DEF Create, Future
<1>3. n \in 0..(SourceLen + 1) /\ kind # "none"
  BY <1>1, AsyncTypes DEF BridgeTypeOK, Kinds
<1> QED BY <1>2, <1>3, AsyncQuietIInv DEF AsyncTags

LEMMA DropIInv == ASSUME AsyncIInv, Drop PROVE AsyncIInv'
<1> USE EncodeBridgeAssumption
<1>1. /\ fut' = NoFuture /\ ret' = "none"
      /\ UNCHANGED <<faulty, writerVars, encoderVars, base, spare>>
  BY DEF Drop
<1>2. NoFuture \in [kind : Kinds \cup {"none"}, n : 0..(SourceLen + 1), reserved : BOOLEAN]
  BY DEF NoFuture, Future
<1> QED BY <1>1, <1>2, AsyncQuietIInv DEF AsyncTags

----------------------------------------------------------------------------
(* Polls.                                                                  *)

\* A poll that ends with the writer at pend' units of cap' and the encoder
\* holding held'.
LEMMA PollIInv ==
    ASSUME AsyncIInv, faulty' = faulty,
           cap' \in 1..MaxCap, pend' \in 0..cap', encSt' \in EncoderStates,
           held' \in 0..MaxHeld, asked' \in Nat, base' \in 0..SourceLen,
           owed' = pend' + held',
           spare' \in 1..Overflow, ~faulty => spare' <= UsizeMax,
           RoomIsRemembered',
           ret' \in AsyncTags, ~faulty => ret' \notin {"InvalidData", "Panic"},
           fut' = NoFuture \/ (fut # NoFuture /\ fut' = [fut EXCEPT !.reserved = TRUE])
    PROVE  AsyncIInv'
<1> USE EncodeBridgeAssumption
<1>1. /\ fut' \in [kind : Kinds \cup {"none"}, n : 0..(SourceLen + 1), reserved : BOOLEAN]
      /\ fut'.kind = "none" => fut' = NoFuture
  <2>1. CASE fut' = NoFuture
    BY <2>1 DEF NoFuture, Future
  <2>2. CASE fut # NoFuture /\ fut' = [fut EXCEPT !.reserved = TRUE]
    BY <2>2 DEF AsyncIInv, CancellationIsSafe, AsyncTypeOK
  <2> QED BY <2>1, <2>2
<1>2. AsyncTypeOK'
  BY <1>1 DEF AsyncIInv, CancellationIsSafe, AsyncTypeOK, EncoderStates
<1> QED BY <1>1, <1>2 DEF AsyncIInv, CancellationIsSafe, NoFuture

LEMMA PollTrivialIInv == ASSUME AsyncIInv, PollTrivial, UNCHANGED faulty PROVE AsyncIInv'
<1> USE EncodeBridgeAssumption
<1>1. /\ fut' = NoFuture /\ ret' \in {"InvalidInput", "Complete"}
      /\ UNCHANGED <<faulty, writerVars, encoderVars, base, spare>>
  BY DEF PollTrivial, Refused
<1>2. NoFuture \in [kind : Kinds \cup {"none"}, n : 0..(SourceLen + 1), reserved : BOOLEAN]
  BY DEF NoFuture, Future
<1> QED BY <1>1, <1>2, AsyncQuietIInv DEF AsyncTags, ProgressTags, IoFailures

\* A poll that does not call the encoder.
LEMMA StillRemembered ==
    ASSUME AsyncIInv, encSt' = encSt, asked' = asked, spare' = spare
    PROVE  RoomIsRemembered'
  BY DEF AsyncIInv, CancellationIsSafe, RoomIsRemembered, AtLeastOne

\* The output blocks or fails: what was delivered is delivered.
LEMMA BlocksIInv ==
    ASSUME AsyncIInv, NEW d, d.j \in 0..pend, Blocks(d), fut # NoFuture,
           cap' \in 1..MaxCap, cap <= cap', faulty' = faulty
    PROVE  AsyncIInv'
<1>1. /\ pend' = pend - d.j /\ owed' = owed - d.j /\ encSt' = encSt /\ held' = held
      /\ asked' = asked /\ base' = base /\ spare' = spare
      /\ ret' \in {"Pending", "IoError"}
      /\ fut' = NoFuture \/ fut' = [fut EXCEPT !.reserved = TRUE]
  BY AsyncTypes DEF Blocks, Drain, EncoderRests, Makes, encoderVars
<1>2. pend' \in 0..cap' /\ owed' = pend' + held'
  BY <1>1, AsyncTypes, EncodeBridgeAssumption DEF BridgeTypeOK
<1>3. BridgeTypeOK /\ spare \in 1..Overflow /\ (~faulty => spare <= UsizeMax)
  BY AsyncTypes DEF AsyncIInv
<1> QED BY <1>1, <1>2, <1>3, StillRemembered, PollIInv DEF BridgeTypeOK, AsyncTags, IoFailures

LEMMA PollFlushingIInv == ASSUME AsyncIInv, PollFlushing, fut # NoFuture, UNCHANGED faulty PROVE AsyncIInv'
<1> USE EncodeBridgeAssumption
<1>1. PICK d \in PollFlush :
         \/ d.res = "ok" /\ fut' = NoFuture /\ ret' = "FlushOk"
            /\ Drain(d, 0) /\ EncoderRests(d) /\ UNCHANGED <<base, spare>>
         \/ Blocks(d)
  BY DEF PollFlushing
<1>2. d.j \in 0..pend
  BY AsyncTypes, FlushAllFacts DEF PollFlush, Drained
<1>3. cap' = cap /\ cap' \in 1..MaxCap /\ cap <= cap'
  BY AsyncTypes DEF PollFlushing, BridgeTypeOK
<1>4. CASE Blocks(d)
  BY <1>2, <1>3, <1>4, BlocksIInv
<1>5. CASE d.res = "ok" /\ fut' = NoFuture /\ ret' = "FlushOk"
            /\ Drain(d, 0) /\ EncoderRests(d) /\ UNCHANGED <<base, spare>>
  <2>1. /\ pend' = pend - d.j /\ owed' = owed - d.j /\ encSt' = encSt /\ held' = held
        /\ asked' = asked /\ base' = base /\ spare' = spare
    BY <1>2, <1>5, AsyncTypes DEF Drain, EncoderRests, Makes, encoderVars
  <2>2. pend' \in 0..cap' /\ owed' = pend' + held'
    BY <1>2, <1>3, <2>1, AsyncTypes DEF BridgeTypeOK
  <2>3. BridgeTypeOK /\ spare \in 1..Overflow /\ (~faulty => spare <= UsizeMax)
    BY AsyncTypes DEF AsyncIInv
  <2>4. ret' = "FlushOk" /\ ret' \in AsyncTags
    BY <1>5 DEF AsyncTags
  <2> QED BY <1>3, <1>5, <2>4, <2>1, <2>2, <2>3, StillRemembered, PollIInv DEF BridgeTypeOK
<1> QED BY <1>1, <1>4, <1>5

\* The room a poll asks for. An honest encoder's can be represented, and what
\* can be allocated is what the encoder planned.
LEMMA RoomWantedFacts ==
    ASSUME BoundsFit, AsyncIInv, fut # NoFuture, fut.kind # "flush",
           fut.kind = "transcode" => fut.n \in 1..(SourceLen - base),
           NEW wanted \in RoomWanted(fut)
    PROVE  /\ wanted \in Nat
           /\ ~faulty => wanted <= UsizeMax
           /\ fut.kind \in {"reset", "transcode", "finish", "drain"}
           /\ fut.kind = "reset" /\ wanted <= UsizeMax => wanted = MaxReset
<1> USE EncodeBridgeAssumption, UsizeMaxAssumption
<1>1. fut.kind \in {"reset", "transcode", "finish", "drain"}
  BY DEF AsyncIInv, CancellationIsSafe, AsyncTypeOK, Kinds
<1>2. CASE fut.kind = "reset"
  BY <1>2 DEF RoomWanted, Planned, BoundsFit, Overflow
<1>3. CASE fut.kind = "finish"
  <2>1. MaxFinishOutputLen = MaxHeld + MaxFinish
    BY BoundFacts
  <2> QED BY <1>3, <2>1 DEF RoomWanted, Planned, BoundsFit, Overflow
<1>4. CASE fut.kind = "drain"
  BY <1>4, AsyncTypes DEF RoomWanted, BridgeTypeOK
<1>5. CASE fut.kind = "transcode"
  <2>1. 1 <= SourceLen
    BY <1>5, AsyncTypes DEF BridgeTypeOK
  <2> DEFINE b == MaxTranscodeOutputLen(1)
  <2>2. b \in Nat /\ b <= UsizeMax
    BY <2>1, BoundFacts
  <2> HIDE DEF b
  <2>3. PICK p \in Planned(b) : wanted = TranscodeRoom(p)
    BY <1>5 DEF RoomWanted, b
  <2>4. p \in Nat /\ (~faulty => p <= UsizeMax)
    BY <2>2, <2>3 DEF Planned, Overflow
  <2>5. spare \in Nat /\ (~faulty => spare <= UsizeMax)
    BY AsyncTypes DEF AsyncIInv
  <2>6. spare \in 1..Overflow
    BY AsyncTypes
  <2>7. AtLeastOne(p) \in Nat /\ (~faulty => AtLeastOne(p) <= UsizeMax)
    BY <2>4, EncodeBridgeAssumption DEF AtLeastOne
  <2> QED BY <1>1, <1>5, <2>3, <2>4, <2>5, <2>7 DEF TranscodeRoom
<1> QED BY <1>1, <1>2, <1>3, <1>4, <1>5

\* The encoder is called on the room a poll has made: m units behind what d
\* left in the buffer, as many as were wanted at least.
LEMMA ReadyIInv ==
    ASSUME BoundsFit, AsyncIInv, fut # NoFuture, faulty' = faulty,
           fut.kind \in {"reset", "transcode", "finish", "drain"},
           fut.kind = "transcode" => fut.n \in 1..(SourceLen - base),
           cap' \in 1..MaxCap, NEW d, d.j \in 0..pend,
           NEW m \in Nat, pend - d.j + m = cap',
           fut.kind = "reset" => MaxReset <= m,
           Ready(d, m)
    PROVE  AsyncIInv'
<1> USE EncodeBridgeAssumption, UsizeMaxAssumption
<1>1. /\ BridgeTypeOK /\ owed = pend + held /\ pend \in Nat /\ held \in 0..MaxHeld
      /\ base \in 0..SourceLen /\ asked \in Nat /\ encSt \in EncoderStates
      /\ spare \in 1..Overflow /\ (~faulty => spare <= UsizeMax) /\ d.j \in Int
      /\ pend - d.j \in 0..cap' /\ m <= MaxCap
  BY AsyncTypes DEF AsyncIInv, BridgeTypeOK
<1>2. fut' = NoFuture
  BY DEF Ready
<1>3. CASE fut.kind = "reset"
  <2>1. ResetBody(d)
    BY <1>3 DEF Ready
  <2>2. /\ pend' \in 0..cap' /\ encSt' \in EncoderStates /\ held' = 0 /\ asked' = 0
        /\ base' \in 0..SourceLen /\ owed' = pend' + held'
    <3>1. CASE ResetFails(d)
      BY <1>1, <3>1 DEF ResetFails, EncoderBreaks, Makes, Drain, EncoderStates
    <3>2. CASE ResetSucceeds(d)
      <4>1. PICK w \in 0..MaxReset : Makes(w - held, d) /\ Drain(d, w)
        BY <3>2 DEF ResetSucceeds
      <4>2. /\ owed' = owed + (w - held) - d.j /\ pend' = pend - d.j + w /\ held' = 0
            /\ w <= m
        BY <1>3, <3>2, <4>1 DEF Makes, Drain, ResetSucceeds
      <4> QED BY <1>1, <3>2, <4>1, <4>2 DEF ResetSucceeds, EncoderStates
    <3> QED BY <2>1, <3>1, <3>2 DEF ResetBody
  <2>3. /\ spare' \in 1..Overflow /\ (~faulty => spare' <= UsizeMax)
    BY <1>1, <2>1 DEF ResetBody, Overflow
  <2>4. ret' \in AsyncTags /\ (~faulty => ret' \notin {"InvalidData", "Panic"})
    BY <2>1 DEF ResetBody, ResetFails, ResetSucceeds, AsyncTags, IoFailures
  <2>5. RoomIsRemembered'
    BY <2>1 DEF ResetBody, ResetFails, ResetSucceeds, EncoderBreaks, RoomIsRemembered,
                AtLeastOne
  <2> QED BY <1>2, <2>2, <2>3, <2>4, <2>5, PollIInv
<1>4. CASE fut.kind = "transcode"
  <2>1. StepEncoder(fut.n, m, d) /\ spare' = Hint(ret', asked')
    BY <1>4 DEF Ready, TranscodeBody
  <2>2. fut.n \in Nat /\ fut.n <= SourceLen - base
    BY <1>1, <1>4
  <2>3. /\ encSt' \in EncoderStates
        /\ held' \in 0..MaxHeld
        /\ asked' \in Nat
        /\ base' \in 0..SourceLen
        /\ pend' \in 0..(pend - d.j + m)
        /\ owed' = pend' + held'
        /\ ret' \in {"Complete", "NeedOutput", "EncoderError", "InvalidData"}
        /\ ~faulty => ret' # "InvalidData"
        /\ ret' = "NeedOutput" => asked' \in 1..Overflow
        /\ ~faulty => (ret' = "NeedOutput" => asked' <= UsizeMax)
    BY <1>1, <2>1, <2>2, StepEncoderFacts
  <2>4. /\ spare' \in 1..Overflow /\ (~faulty => spare' <= UsizeMax)
    BY <1>1, <2>1, <2>3 DEF Hint, Overflow
  <2>5. ret' \in AsyncTags /\ (~faulty => ret' \notin {"InvalidData", "Panic"})
    BY <2>3 DEF AsyncTags, ProgressTags, IoFailures
  <2>6. RoomIsRemembered'
    BY <2>1, <2>2, OpenAfterStep DEF RoomIsRemembered, AtLeastOne, Hint
  <2> QED BY <1>2, <2>3, <2>4, <2>5, <2>6, PollIInv
<1>5. CASE fut.kind = "finish"
  <2>1. FinishBody(d, m)
    BY <1>5 DEF Ready
  <2>2. /\ pend' \in 0..cap' /\ encSt' \in EncoderStates /\ held' \in 0..MaxHeld
        /\ asked' \in Nat /\ owed' = pend' + held'
        /\ ret' \in AsyncTags /\ (~faulty => ret' \notin {"InvalidData", "Panic"})
    <3>1. CASE FinishFails(d) /\ Drain(d, 0)
      <4>1. CASE encSt # "open" /\ ret' = "EncoderError" /\ EncoderRests(d)
        BY <1>1, <3>1, <4>1 DEF EncoderRests, Makes, encoderVars, Drain, AsyncTags, IoFailures
      <4>2. CASE EncoderBreaks(d) /\ (ret' = "EncoderError" \/ (faulty /\ ret' = "Panic"))
        BY <1>1, <3>1, <4>2 DEF EncoderBreaks, Makes, Drain, EncoderStates, AsyncTags, IoFailures
      <4> QED BY <3>1, <4>1, <4>2 DEF FinishFails
    <3>2. CASE \E w \in 0..m : FinishSucceeds(w, d) /\ Drain(d, w)
      <4>1. PICK w \in 0..m : FinishSucceeds(w, d) /\ Drain(d, w)
        BY <3>2
      <4>2. /\ owed' = owed + (w - held) - d.j /\ pend' = pend - d.j + w /\ held' = 0
            /\ encSt' = "done" /\ asked' = 0 /\ ret' = "FinishOk"
        BY <4>1 DEF FinishSucceeds, Makes, Drain
      <4> QED BY <1>1, <4>1, <4>2 DEF EncoderStates, AsyncTags
    <3> QED BY <2>1, <3>1, <3>2 DEF FinishBody
  <2>3. RoomIsRemembered'
    BY <2>1 DEF FinishBody, FinishFails, FinishSucceeds, EncoderRests, EncoderBreaks,
                encoderVars, RoomIsRemembered
  <2> QED BY <1>1, <1>2, <2>1, <2>2, <2>3, PollIInv DEF FinishBody
<1>6. CASE fut.kind = "drain"
  <2>1. DrainBody(d)
    BY <1>6 DEF Ready
  <2>2. /\ pend' = pend - d.j /\ owed' = owed - d.j /\ encSt' = encSt /\ held' = held
        /\ asked' = asked /\ base' = base /\ spare' = spare /\ ret' = "DrainOk"
    BY <1>1, <2>1 DEF DrainBody, Drain, EncoderRests, Makes, encoderVars
  <2>3. ret' \in AsyncTags /\ ret' \notin {"InvalidData", "Panic"} /\ owed' = pend' + held'
    BY <1>1, <2>2 DEF AsyncTags
  <2> QED BY <1>1, <1>2, <2>2, <2>3, StillRemembered, PollIInv
<1> QED BY <1>3, <1>4, <1>5, <1>6

LEMMA PollReservingIInv ==
    ASSUME BoundsFit, AsyncIInv, fut # NoFuture, UNCHANGED faulty, fut.kind # "flush",
           fut.kind = "transcode" => fut.n \in 1..(SourceLen - base),
           NEW wanted \in RoomWanted(fut), PollReserving(wanted)
    PROVE  AsyncIInv'
<1> USE EncodeBridgeAssumption, UsizeMaxAssumption
<1>1. /\ wanted \in Nat
      /\ ~faulty => wanted <= UsizeMax
      /\ fut.kind \in {"reset", "transcode", "finish", "drain"}
      /\ fut.kind = "reset" /\ wanted <= UsizeMax => wanted = MaxReset
  BY RoomWantedFacts
<1>2. BridgeTypeOK /\ pend \in Nat /\ cap \in Nat /\ pend <= cap
  BY AsyncTypes DEF BridgeTypeOK
<1>3. CASE \E tag \in ReservationFailure(wanted, "InvalidData") :
             Refused(tag) /\ fut' = NoFuture /\ UNCHANGED spare
  <2>1. PICK tag \in ReservationFailure(wanted, "InvalidData") :
             Refused(tag) /\ fut' = NoFuture /\ UNCHANGED spare
    BY <1>3
  <2>2. tag \in {"InvalidData", "OutOfMemory"} /\ (~faulty => tag # "InvalidData")
    BY <1>1, <2>1 DEF ReservationFailure
  <2>3. /\ ret' = tag /\ UNCHANGED <<faulty, writerVars, encoderVars, base, spare>>
    BY <2>1 DEF Refused
  <2>4. NoFuture \in [kind : Kinds \cup {"none"}, n : 0..(SourceLen + 1), reserved : BOOLEAN]
    BY DEF NoFuture, Future
  <2> QED BY <2>1, <2>2, <2>3, <2>4, AsyncQuietIInv DEF AsyncTags, IoFailures
<1>4. CASE /\ MayAllocate(wanted)
           /\ cap' = Grown(wanted)
           /\ \E d \in PollEnsureSpare(wanted) :
                 \/ d.res = "ok" /\ Ready(d, Spare(d, wanted))
                 \/ Blocks(d)
  <2>1. PICK d \in PollEnsureSpare(wanted) :
                 \/ d.res = "ok" /\ Ready(d, Spare(d, wanted))
                 \/ Blocks(d)
    BY <1>4
  <2>2. cap' = Grown(wanted) /\ cap' \in 1..MaxCap /\ cap <= cap' /\ wanted <= UsizeMax
    BY <1>1, <1>2, <1>4, GrownFacts
  <2>3. d.j \in 0..pend /\ (d.res = "ok" => pend - d.j + wanted <= cap')
    <3>1. CASE d \in EnsureSpare(pend, cap', wanted)
      <4>1. cap' \in Nat /\ pend <= cap'
        BY <1>2, <2>2
      <4> QED BY <1>1, <1>2, <3>1, <4>1, EnsureSpareFacts
    <3>2. CASE \E i \in 0..pend : d = Drained(i, "pending")
      BY <3>2 DEF Drained
    <3> QED BY <2>1, <2>2, <3>1, <3>2 DEF PollEnsureSpare
  <2>4. CASE Blocks(d)
    BY <2>2, <2>3, <2>4, BlocksIInv
  <2>5. CASE d.res = "ok" /\ Ready(d, Spare(d, wanted))
    <3> DEFINE m == Spare(d, wanted)
    <3>1. m = cap' - (pend - d.j)
      BY <2>2 DEF Spare
    <3>2. m \in Nat /\ pend - d.j + m = cap' /\ wanted <= m
      BY <1>1, <1>2, <2>2, <2>3, <2>5, <3>1
    <3>3. Ready(d, m)
      BY <2>5
    <3> HIDE DEF m
    <3> QED BY <1>1, <2>2, <2>3, <3>2, <3>3, ReadyIInv
  <2> QED BY <2>1, <2>4, <2>5
<1> QED BY <1>3, <1>4 DEF PollReserving

LEMMA AsyncNextIInv == ASSUME BoundsFit PROVE AsyncIInv /\ [AsyncNext]_asyncVars => AsyncIInv'
<1> SUFFICES ASSUME AsyncIInv, [AsyncNext]_asyncVars PROVE AsyncIInv'
  OBVIOUS
<1>1. CASE CreateAny
  BY <1>1, CreateAnyIInv
<1>2. CASE Poll
  BY <1>2, PollTrivialIInv, PollFlushingIInv, PollReservingIInv DEF Poll
<1>3. CASE Drop
  BY <1>3, DropIInv
<1>4. CASE UNCHANGED asyncVars
  BY <1>4 DEF asyncVars, writerVars, encoderVars, AsyncIInv, CancellationIsSafe, AsyncTypeOK,
              RoomIsRemembered, AtLeastOne
<1> QED BY <1>1, <1>2, <1>3, <1>4 DEF AsyncNext

----------------------------------------------------------------------------
(* The theorems about the asynchronous bridge.                             *)

\* The inductive invariant of the asynchronous encode bridge: any output, any
\* order of polls and drops, any encoder whose bounds fit usize.
THEOREM AsyncInductiveInvariant == ASSUME BoundsFit PROVE AsyncSpec => []AsyncIInv
  BY AsyncInitIInv, AsyncNextIInv, PTL DEF AsyncSpec

\* A future may be dropped after any poll: units are committed inside the
\* buffer, those of an accepted report once and no others, the room the encoder
\* asked for is remembered exactly until it is served, and an encoder that
\* keeps its contract is never refused.
THEOREM CancellationSafe == ASSUME BoundsFit PROVE AsyncSpec => []CancellationIsSafe
<1>1. AsyncIInv => CancellationIsSafe
  BY DEF AsyncIInv
<1> QED BY <1>1, AsyncInductiveInvariant, PTL


=============================================================================
