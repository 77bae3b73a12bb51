------------------------- MODULE DecodeBridgeProofs -------------------------
(* Theorems about DecodeInput and AsyncDecodeInput: steps, batches,        *)
(* refills, raw reads and seeks, or futures polled and dropped, in any     *)
(* order, for every decoder and every source. The lemmas on the reader and *)
(* the decoder are those of DecodeBridge and serve both.                   *)
EXTENDS DecodeInputProps, AsyncDecodeInputProps, SequenceTheorems, TLAPS

\* The parts of the type invariant.
SourceOK ==
    /\ arrived \in 0..StreamLen
    /\ fetched \in 0..arrived
    /\ eofSeen \in BOOLEAN
    /\ consumed \in 0..fetched
    /\ cap \in Nat
    /\ Unread <= cap

DecoderOK ==
    /\ decSt \in {"new", "open", "done", "broken", "lied", "stale"}
    /\ decNext \in Nat
    /\ decLast \in [eof : BOOLEAN, tag : {"none"} \cup ProgressTags]
    /\ made \in Nat
    /\ held \in 0..MaxHeld
    /\ held <= made
    /\ decSt = "open" => decNext = consumed

CallOK ==
    /\ eofRetry \in BOOLEAN
    /\ pc \in {"idle", "loop", "refill", "eof"}
    /\ call \in Calls
    /\ call.written <= call.count
    /\ out \in Seq(Nat)
    /\ got \in Seq(Nat)
    /\ lost \in BOOLEAN

Returns == [tag : Tags, required : Nat, read : Nat, written : Nat]

ReturnOK ==
    /\ ret \in Returns
    /\ ret.tag = "BatchOk" => \E r \in Ranges : ret.written <= r[2]

LEMMA IInvParts ==
    ASSUME IInv
    PROVE  SourceOK /\ DecoderOK /\ CallOK /\ ReturnOK /\ SlotsFollowGot /\ CallInStep
             /\ EndIsRemembered
  BY DEF IInv, TypeOK, SourceOK, DecoderOK, CallOK, ReturnOK, Returns

LEMMA PartsIInv ==
    ASSUME SourceOK', DecoderOK', CallOK', ReturnOK', SlotsFollowGot', CallInStep',
           EndIsRemembered'
    PROVE  IInv'
  BY DEF IInv, TypeOK, SourceOK, DecoderOK, CallOK, ReturnOK, Returns

----------------------------------------------------------------------------
(* Refills.                                                                *)

LEMMA FillMoreFacts ==
    ASSUME NEW u \in Nat, NEW c \in Nat, u <= c, NEW w \in Nat, NEW f \in FillMore(u, c, w)
    PROVE  /\ f.k \in 0..w
           /\ u + f.k <= c
           /\ f.res \in {"more", "end", "error"}
           /\ f.res = "more" => f.k > 0
           /\ f.res # "more" => f.k = 0
<1>1. CASE f = Fill(0, "end") \/ f = Fill(0, "error")
  BY <1>1 DEF Fill
<1>2. CASE \E k \in 1..w : u + k <= c /\ f = Fill(k, "more")
  BY <1>2 DEF Fill
<1> QED BY <1>1, <1>2 DEF FillMore, Failing

LEMMA FillUntilFacts ==
    ASSUME NEW u \in Nat, NEW c \in Nat, u <= c, NEW w \in Nat, NEW count \in Nat, count <= c,
           NEW f \in FillUntil(u, c, w, count)
    PROVE  /\ f.k \in 0..w
           /\ u + f.k <= c
           /\ f.res \in {"more", "end", "error"}
<1>1. CASE f = Fill(0, "more")
  BY <1>1 DEF Fill
<1>2. CASE u + w < count /\ f = Fill(w, "end")
  BY <1>2 DEF Fill
<1>3. CASE \E k \in 1..w : u + k \in count..c /\ f = Fill(k, "more")
  BY <1>3 DEF Fill
<1>4. CASE \E k \in 0..w : u + k < count /\ f = Fill(k, "error")
  BY <1>4 DEF Fill
<1> QED BY <1>1, <1>2, <1>3, <1>4 DEF FillUntil, Failing

\* A refill within what the source has and what the buffer holds, and units
\* that leave the buffer afterwards.
LEMMA FetchSourceOK ==
    ASSUME SourceOK, NEW f, f.k \in 0..Waiting, Fetch(f),
           cap' \in Nat, Unread + f.k <= cap',
           NEW k \in 0..(Unread + f.k), consumed' = consumed + k
    PROVE  /\ SourceOK'
           /\ fetched' = fetched + f.k
           /\ eofSeen' = (f.res = "end" \/ (eofSeen /\ f.k = 0))
<1>1. /\ fetched' = fetched + f.k /\ arrived' = arrived
      /\ eofSeen' = (f.res = "end" \/ (eofSeen /\ f.k = 0))
  BY DEF Fetch
<1>2. /\ arrived \in Nat /\ fetched \in Nat /\ consumed \in Nat /\ f.k \in Nat
      /\ arrived <= StreamLen /\ fetched <= arrived /\ consumed <= fetched
      /\ f.k <= arrived - fetched /\ k \in Nat /\ k <= fetched - consumed + f.k
      /\ fetched - consumed + f.k <= cap'
  BY DecodeBridgeAssumption DEF SourceOK, Unread, Waiting
<1>3. eofSeen' \in BOOLEAN
  BY <1>1
<1> QED BY <1>1, <1>2, <1>3, DecodeBridgeAssumption DEF SourceOK, Unread

\* Counts of the source and the buffer.
LEMMA Counts ==
    ASSUME SourceOK
    PROVE  /\ Unread \in Nat /\ Waiting \in Nat /\ consumed \in Nat /\ fetched \in Nat
           /\ cap \in Nat /\ Unread <= cap
  BY DecodeBridgeAssumption DEF SourceOK, Unread, Waiting

LEMMA GrownFacts ==
    ASSUME SourceOK, NEW count \in Nat
    PROVE  Grown(count) \in Nat /\ cap <= Grown(count) /\ count <= Grown(count)
  BY Counts DEF Grown

----------------------------------------------------------------------------
(* The reports of a decoder.                                               *)

LEMMA AnswerFacts ==
    ASSUME held \in 0..MaxHeld, NEW n \in Nat, NEW m \in Nat, NEW eof \in BOOLEAN,
           NEW a \in Answers(n, m, eof)
    PROVE  /\ a.tag \in ProgressTags
           /\ a.required \in Nat /\ a.read \in Nat /\ a.written \in Nat
           /\ a.honest \in BOOLEAN
           /\ a.honest => /\ a.new \in Nat
                          /\ held + a.new - a.written \in 0..MaxHeld
                          /\ eof /\ a.tag = "Complete" => held + a.new = a.written
<1> USE DecodeBridgeAssumption
<1>1. CASE \E w \in 0..m, k \in 0..n :
             /\ Possible(n, w, k)
             /\ eof => held + k = w
             /\ a = Report("Complete", 0, n, w, k, TRUE)
  BY <1>1 DEF Report, Possible, ProgressTags
<1>2. CASE \E r \in 0..n, w \in 0..m, k \in 0..n, q \in 1..MaxNeed :
             Possible(r, w, k) /\ a = Report("NeedInput", q, r, w, k, TRUE)
  BY <1>2 DEF Report, Possible, ProgressTags
<1>3. CASE \E r \in 0..n, w \in 0..m, k \in 0..n, q \in 1..MaxRoom :
             Possible(r, w, k) /\ a = Report("NeedOutput", q, r, w, k, TRUE)
  BY <1>3 DEF Report, Possible, ProgressTags
<1>4. CASE \E t \in ProgressTags, q \in 1..MaxNeed, r \in 0..(n + 1), w \in 0..(m + 1) :
             a = Report(t, q, r, w, 0, FALSE)
  BY <1>4 DEF Report
<1>5. a \in Honest(n, m, eof) \/ a \in Dishonest(n, m)
  BY DEF Answers
<1>6. a \in Dishonest(n, m) =>
         \E t \in ProgressTags, q \in 1..MaxNeed, r \in 0..(n + 1), w \in 0..(m + 1) :
             a = Report(t, q, r, w, 0, FALSE)
  BY DEF Dishonest
<1>7. a \in Honest(n, m, eof) =>
        \/ \E w \in 0..m, k \in 0..n :
             /\ Possible(n, w, k)
             /\ eof => held + k = w
             /\ a = Report("Complete", 0, n, w, k, TRUE)
        \/ \E r \in 0..n, w \in 0..m, k \in 0..n, q \in 1..MaxNeed :
             Possible(r, w, k) /\ a = Report("NeedInput", q, r, w, k, TRUE)
        \/ \E r \in 0..n, w \in 0..m, k \in 0..n, q \in 1..MaxRoom :
             Possible(r, w, k) /\ a = Report("NeedOutput", q, r, w, k, TRUE)
  BY DEF Honest
<1> QED BY <1>1, <1>2, <1>3, <1>4, <1>5, <1>6, <1>7

\* What validation lets pass.
LEMMA ValidatedFacts ==
    ASSUME NEW n \in Nat, NEW m \in Nat, NEW index \in Nat, NEW eof \in BOOLEAN, NEW a,
           a.tag \in ProgressTags, a.required \in Nat, a.read \in Nat, a.written \in Nat,
           DecodeFailure(a, n, index, m, eof) = "none"
    PROVE  /\ a.read <= n
           /\ a.written <= m
           /\ a.tag = "Complete" => a.read = n
           /\ eof => a.tag # "NeedInput"
<1>1. Validate(a, 0, n, index, m) = "none" /\ (eof => a.tag # "NeedInput")
  BY DEF DecodeFailure
<1>2. a.read <= n /\ a.written <= m
  BY <1>1 DEF Validate
<1>3. a.tag = "Complete" => a.read = n
  BY <1>1, <1>2 DEF Validate
<1> QED BY <1>1, <1>2, <1>3

\* An accepted report: the decoder stays in step with the buffer, or is known
\* to have lied.
Accepted(a, n, m, eof) ==
    /\ DecoderOK'
    /\ a.tag \in ProgressTags
    /\ a.required \in Nat /\ a.read \in 0..n /\ a.written \in 0..m
    /\ a.honest \in BOOLEAN
    /\ a.tag = "Complete" => a.read = n
    /\ eof => a.tag # "NeedInput"
    /\ consumed' = consumed + a.read
    /\ decLast' = [eof |-> eof, tag |-> a.tag]
    /\ decSt = "open"
    /\ decSt' = IF a.honest THEN "open" ELSE "lied"
    /\ a.honest => /\ made' - held' = made - held + a.written
                   /\ eof /\ a.tag = "Complete" => held' = 0

LEMMA DecodeAcceptsFacts ==
    ASSUME DecoderOK, consumed \in Nat,
           NEW n \in Nat, NEW m \in Nat, NEW index \in Nat, NEW eof \in BOOLEAN,
           NEW a \in Answers(n, m, eof), DecodeAccepts(a, n, index, m, eof)
    PROVE  Accepted(a, n, m, eof)
<1> USE DecodeBridgeAssumption
<1>1. /\ decSt = "open" /\ DecodeFailure(a, n, index, m, eof) = "none"
      /\ DecoderMoves(a, eof) /\ consumed' = consumed + a.read
  BY DEF DecodeAccepts
<1>2. /\ held \in 0..MaxHeld /\ made \in Nat /\ held <= made /\ decNext = consumed
  BY <1>1 DEF DecoderOK
<1>3. /\ a.tag \in ProgressTags
      /\ a.required \in Nat /\ a.read \in Nat /\ a.written \in Nat
      /\ a.honest \in BOOLEAN
      /\ a.honest => /\ a.new \in Nat
                     /\ held + a.new - a.written \in 0..MaxHeld
                     /\ eof /\ a.tag = "Complete" => held + a.new = a.written
  BY <1>2, AnswerFacts
<1>4. /\ a.read <= n
      /\ a.written <= m
      /\ a.tag = "Complete" => a.read = n
      /\ eof => a.tag # "NeedInput"
  BY <1>1, <1>3, ValidatedFacts
<1>5. decLast' = [eof |-> eof, tag |-> a.tag]
      /\ decLast' \in [eof : BOOLEAN, tag : {"none"} \cup ProgressTags]
  BY <1>1, <1>3 DEF DecoderMoves
<1>6. CASE a.honest
  <2>1. /\ decNext' = decNext + a.read /\ made' = made + a.new
        /\ held' = held + a.new - a.written /\ decSt' = "open"
    BY <1>1, <1>6 DEF DecoderMoves
  <2>2. /\ decNext' \in Nat /\ made' \in Nat /\ held' \in 0..MaxHeld /\ held' <= made'
        /\ decNext' = consumed' /\ made' - held' = made - held + a.written
        /\ eof /\ a.tag = "Complete" => held' = 0
    BY <1>1, <1>2, <1>3, <1>6, <2>1
  <2> QED BY <1>1, <1>3, <1>4, <1>5, <1>6, <2>1, <2>2 DEF DecoderOK, Accepted
<1>7. CASE ~a.honest
  <2>1. decNext' = 0 /\ made' = 0 /\ held' = 0 /\ decSt' = "lied"
    BY <1>1, <1>7 DEF DecoderMoves
  <2> QED BY <1>1, <1>3, <1>4, <1>5, <1>7, <2>1 DEF DecoderOK, Accepted
<1> QED BY <1>3, <1>6, <1>7

\* A refused call: nothing is consumed and the decoder is not open afterwards.
LEMMA DecodeFailsFacts ==
    ASSUME DecoderOK, NEW f, f.k \in Nat,
           NEW n \in Nat, NEW m \in Nat, NEW index \in Nat, NEW eof \in BOOLEAN,
           DecodeFails(f, n, index, m, eof)
    PROVE  /\ DecoderOK'
           /\ consumed' = consumed /\ made' = made /\ held' = held
           /\ decSt' # "open"
           /\ decSt' # "lied" => decSt # "lied"
           /\ decLast' = NoAnswer \/ (f.k = 0 /\ decLast' = decLast)
           /\ ret' \in {Return("DecoderError"), Return("InvalidData")}
<1>1. consumed' = consumed
  BY DEF DecodeFails
<1>2. NoAnswer \in [eof : BOOLEAN, tag : {"none"} \cup ProgressTags]
  BY DEF NoAnswer
<1>3. CASE DecoderRefuses /\ DecoderWaits(f)
  BY <1>1, <1>2, <1>3 DEF DecoderRefuses, DecoderWaits, DecoderOK
<1>4. CASE decSt = "open" /\ DecoderBreaks /\ ret' = Return("DecoderError")
  BY <1>1, <1>2, <1>4 DEF DecoderBreaks, DecoderOK
<1>5. CASE /\ decSt = "open"
           /\ \E a \in Answers(n, m, eof) :
                /\ DecodeFailure(a, n, index, m, eof) # "none"
                /\ ret' = Return(DecodeFailure(a, n, index, m, eof))
                /\ decSt' = IF a.honest THEN "broken" ELSE "lied"
           /\ decLast' = NoAnswer
           /\ UNCHANGED <<decNext, made, held>>
  <2>1. decSt' \in {"broken", "lied"} /\ ret' = Return("InvalidData")
    BY <1>5 DEF DecodeFailure
  <2> QED BY <1>1, <1>2, <1>5, <2>1 DEF DecoderOK
<1> QED BY <1>3, <1>4, <1>5 DEF DecodeFails

----------------------------------------------------------------------------
(* The values of the caller.                                               *)

\* A sequence of rising values goes on with the next ones.
LEMMA AppendRun ==
    ASSUME NEW g \in Seq(Nat), NEW top \in Nat, NEW v \in Seq(Nat),
           \A i, j \in 1..Len(g) : i < j => g[i] < g[j],
           \A i \in 1..Len(g) : g[i] \in 1..top,
           \A i \in 1..Len(v) : v[i] = top + i
    PROVE  /\ g \o v \in Seq(Nat)
           /\ Len(g \o v) = Len(g) + Len(v)
           /\ \A i, j \in 1..Len(g \o v) : i < j => (g \o v)[i] < (g \o v)[j]
           /\ \A i \in 1..Len(g \o v) : (g \o v)[i] \in 1..(top + Len(v))
<1> DEFINE h == g \o v
<1>1. Len(g) \in Nat /\ Len(v) \in Nat
  BY LenProperties
<1>2. /\ h \in Seq(Nat) /\ Len(h) = Len(g) + Len(v)
      /\ \A i \in 1..(Len(g) + Len(v)) : h[i] = IF i <= Len(g) THEN g[i] ELSE v[i - Len(g)]
  BY ConcatProperties
<1> HIDE DEF h
<1>3. \A i \in 1..Len(h) :
         /\ i <= Len(g) => h[i] = g[i] /\ i \in 1..Len(g)
         /\ i > Len(g) => h[i] = top + (i - Len(g)) /\ i - Len(g) \in 1..Len(v)
  <2> TAKE i \in 1..Len(h)
  <2>1. i \in Nat /\ i >= 1 /\ i <= Len(g) + Len(v)
    BY <1>1, <1>2
  <2>2. h[i] = IF i <= Len(g) THEN g[i] ELSE v[i - Len(g)]
    BY <1>1, <1>2, <2>1
  <2>3. CASE i <= Len(g)
    BY <1>1, <2>1, <2>2, <2>3
  <2>4. CASE i > Len(g)
    <3>1. i - Len(g) \in 1..Len(v)
      BY <1>1, <2>1, <2>4
    <3>2. v[i - Len(g)] = top + (i - Len(g))
      BY <3>1
    <3> QED BY <1>1, <2>1, <2>2, <2>4, <3>1, <3>2
  <2> QED BY <1>1, <2>1, <2>3, <2>4
<1>4. \A i \in 1..Len(h) : h[i] \in 1..(top + Len(v))
  <2> TAKE i \in 1..Len(h)
  <2>1. CASE i <= Len(g)
    <3>1. h[i] \in 1..top
      BY <1>3, <2>1
    <3> QED BY <1>1, <3>1
  <2>2. CASE i > Len(g)
    BY <1>1, <1>2, <1>3, <2>2
  <2> QED BY <1>1, <1>2, <2>1, <2>2
<1>5. ASSUME NEW i \in 1..Len(h), NEW j \in 1..Len(h), i < j PROVE h[i] < h[j]
  <2>0. i \in Nat /\ j \in Nat /\ Len(g) \in Nat
    BY <1>1, <1>2
  <2>1. CASE j <= Len(g)
    <3>1. i <= Len(g)
      BY <1>5, <2>0, <2>1
    <3> QED BY <1>3, <1>5, <2>1, <3>1
  <2>2. CASE i <= Len(g) /\ j > Len(g)
    <3>1. h[i] \in 1..top
      BY <1>3, <2>2
    <3>2. h[j] = top + (j - Len(g)) /\ j - Len(g) \in 1..Len(v)
      BY <1>3, <2>2
    <3> QED BY <1>1, <3>1, <3>2
  <2>3. CASE i > Len(g) /\ j > Len(g)
    <3>1. h[i] = top + (i - Len(g)) /\ h[j] = top + (j - Len(g))
      BY <1>3, <2>3
    <3> QED BY <1>5, <2>0, <3>1
  <2> QED BY <2>0, <2>1, <2>2, <2>3
<1> QED BY <1>2, <1>4, <1>5 DEF h

\* The values of one answer: the next ones, if the decoder is honest.
LEMMA ValuesFacts ==
    ASSUME made \in Nat, held \in Nat, held <= made, NEW a, a.written \in Nat
    PROVE  /\ Values(a) \in Seq(Nat)
           /\ Len(Values(a)) = a.written
           /\ a.honest => \A i \in 1..a.written : Values(a)[i] = made - held + i
<1>1. Values(a) \in [1..a.written -> Nat]
  BY DEF Values
<1>2. Values(a) \in Seq(Nat)
  BY <1>1, SeqDef
<1>3. DOMAIN Values(a) = 1..a.written
  BY DEF Values
<1>4. Len(Values(a)) = a.written
  BY <1>2, <1>3, LenProperties
<1>5. a.honest => \A i \in 1..a.written : Values(a)[i] = made - held + i
  BY DEF Values
<1> QED BY <1>2, <1>4, <1>5

\* What is told between calls.
LEMMA IdleSlots ==
    ASSUME pc = "idle", CallInStep, made \in Nat, held \in Nat, SlotsFollowGot
    PROVE  /\ call.written = 0
           /\ decSt # "lied" =>
                /\ \A i, j \in 1..Len(got) : i < j => got[i] < got[j]
                /\ \A i \in 1..Len(got) : got[i] \in 1..(made - held)
                /\ decSt = "open" /\ ~lost => Len(got) = made - held
<1>1. call = NoCall /\ call.written = 0
  BY DEF CallInStep, NoCall
<1>2. made - held - 0 = made - held
  OBVIOUS
<1> QED BY <1>1, <1>2 DEF SlotsFollowGot

LEMMA NoSlots ==
    ASSUME NEW m \in Nat, NEW h \in Nat, h <= m, NEW w, w = 0
    PROVE  m - h - w = m - h /\ w <= m - h /\ \A s \in 1..w : FALSE
  OBVIOUS

\* And how to get back there.
LEMMA SlotsIdle ==
    ASSUME made' \in Nat, held' \in Nat, held' <= made', call'.written = 0,
           decSt' # "lied" =>
                /\ \A i, j \in 1..Len(got') : i < j => got'[i] < got'[j]
                /\ \A i \in 1..Len(got') : got'[i] \in 1..(made' - held')
                /\ decSt' = "open" /\ ~lost' => Len(got') = made' - held'
    PROVE  SlotsFollowGot'
<1>1. /\ made' - held' - call'.written = made' - held'
      /\ call'.written <= made' - held'
      /\ \A s \in 1..call'.written : FALSE
  BY NoSlots
<1> QED BY <1>1 DEF SlotsFollowGot

\* A step that tells the caller nothing.
LEMMA SlotsKeep ==
    ASSUME SlotsFollowGot, UNCHANGED <<call, out, got, lost, made, held>>,
           decSt' # "lied" => decSt # "lied", decSt' = "open" => decSt = "open"
    PROVE  SlotsFollowGot'
  BY DEF SlotsFollowGot

LEMMA ConcatFacts ==
    ASSUME NEW g \in Seq(Nat), NEW v \in Seq(Nat)
    PROVE  g \o v \in Seq(Nat) /\ Len(g \o v) = Len(g) + Len(v)
  BY ConcatProperties

\* A call between batches that tells the values of an accepted answer.
LEMMA SlotsGrow ==
    ASSUME pc = "idle", CallInStep, CallOK, SlotsFollowGot, DecoderOK, DecoderOK',
           call' = call, lost' = lost, NEW a, a.written \in Nat,
           decSt = "open", decSt' = IF a.honest THEN "open" ELSE "lied",
           a.honest => made' - held' = made - held + a.written,
           got' = got \o Values(a)
    PROVE  SlotsFollowGot' /\ got' \in Seq(Nat)
<1>1. /\ made \in Nat /\ held \in Nat /\ held <= made /\ got \in Seq(Nat)
      /\ made' \in Nat /\ held' \in Nat /\ held' <= made'
  BY DecodeBridgeAssumption DEF DecoderOK, CallOK
<1>2. call'.written = 0
  BY DEF CallInStep, NoCall
<1>3. /\ Values(a) \in Seq(Nat)
      /\ Len(Values(a)) = a.written
      /\ a.honest => \A i \in 1..a.written : Values(a)[i] = made - held + i
  BY <1>1, ValuesFacts
<1>4. got' \in Seq(Nat) /\ Len(got') = Len(got) + a.written
  <2>1. got \o Values(a) \in Seq(Nat) /\ Len(got \o Values(a)) = Len(got) + Len(Values(a))
    BY <1>1, <1>3, ConcatFacts
  <2> QED BY <1>3, <2>1
<1>5. CASE ~a.honest
  BY <1>4, <1>5 DEF SlotsFollowGot
<1>6. CASE a.honest
  <2>1. /\ \A i, j \in 1..Len(got) : i < j => got[i] < got[j]
        /\ \A i \in 1..Len(got) : got[i] \in 1..(made - held)
        /\ ~lost => Len(got) = made - held
    BY <1>1, IdleSlots
  <2>2. made - held \in Nat
    BY <1>1
  <2>3. \A i \in 1..Len(Values(a)) : Values(a)[i] = made - held + i
    BY <1>3, <1>6
  <2>4. /\ \A i, j \in 1..Len(got') : i < j => got'[i] < got'[j]
        /\ \A i \in 1..Len(got') : got'[i] \in 1..(made - held + a.written)
    BY <1>1, <1>3, <2>1, <2>2, <2>3, AppendRun
  <2>5. /\ \A i \in 1..Len(got') : got'[i] \in 1..(made' - held')
        /\ ~lost' => Len(got') = made' - held'
    BY <1>4, <1>6, <2>1, <2>4
  <2>6. SlotsFollowGot'
    BY <1>1, <1>2, <1>6, <2>4, <2>5, SlotsIdle
  <2> QED BY <1>4, <2>6
<1> QED BY <1>5, <1>6

----------------------------------------------------------------------------
(* Returns, and the end of input.                                          *)

LEMMA ReturnPlain ==
    ASSUME NEW t \in Tags, t # "BatchOk", NEW q \in Nat, NEW k \in Nat, NEW w \in Nat,
           ret' = Progress(t, q, k, w)
    PROVE  ReturnOK' /\ ret'.tag = t /\ ret'.written = w
<1>1. ret'.tag = t /\ ret'.written = w /\ ret' \in Returns
  BY DEF Progress, Returns
<1> QED BY <1>1 DEF ReturnOK

LEMMA ReturnBatch ==
    ASSUME NEW w \in Nat, NEW r \in Ranges, w <= r[2], ret' = Wrote("BatchOk", w)
    PROVE  ReturnOK' /\ ret'.tag = "BatchOk" /\ ret'.written = w
<1>1. ret'.tag = "BatchOk" /\ ret'.written = w /\ ret' \in Returns
  BY DEF Wrote, Progress, Returns, Tags
<1> QED BY <1>1 DEF ReturnOK

\* The returns of the model that report no count.
LEMMA ReturnTag ==
    ASSUME NEW t \in {"none", "Filled", "EndOfInput", "RawOk", "ValueOk", "Panic",
                      "InvalidInput", "InvalidData", "IoError", "OutOfMemory",
                      "DecoderError"},
           ret' = Return(t)
    PROVE  ReturnOK' /\ ret'.tag = t /\ t # "BatchOk" /\ t # "ResetOk"
<1>1. t \in Tags /\ t # "BatchOk" /\ t # "ResetOk"
  BY DEF Tags, IoFailures
<1> QED BY <1>1, ReturnPlain DEF Return

\* A refill keeps eof_retry_pending exactly as long as no unit comes.
LEMMA RefillRemembers ==
    ASSUME EndIsRemembered, NEW f, Fetch(f),
           eofRetry' => eofRetry /\ f.k = 0, f.k = 0 => eofRetry' = eofRetry,
           decLast' = [eof |-> TRUE, tag |-> "NeedOutput"] => f.k = 0 /\ decLast' = decLast
    PROVE  EndIsRemembered'
  BY DEF EndIsRemembered, Fetch

LEMMA NotEndAnswer ==
    /\ NoAnswer # [eof |-> TRUE, tag |-> "NeedOutput"]
    /\ \A t : [eof |-> FALSE, tag |-> t] # [eof |-> TRUE, tag |-> "NeedOutput"]
    /\ \A t : [eof |-> TRUE, tag |-> t] = [eof |-> TRUE, tag |-> "NeedOutput"] => t = "NeedOutput"
<1>1. \A e, t : /\ [eof |-> e, tag |-> t].eof = e
                /\ [eof |-> e, tag |-> t].tag = t
  OBVIOUS
<1>2. \A t : [eof |-> FALSE, tag |-> t] # [eof |-> TRUE, tag |-> "NeedOutput"]
  BY <1>1
<1>3. \A t : [eof |-> TRUE, tag |-> t] = [eof |-> TRUE, tag |-> "NeedOutput"] => t = "NeedOutput"
  BY <1>1
<1> QED BY <1>2, <1>3 DEF NoAnswer

LEMMA FillUntilFlagFacts ==
    ASSUME NEW f, FillUntilFlag(f), eofRetry \in BOOLEAN
    PROVE  /\ eofRetry' \in BOOLEAN
           /\ eofRetry' => eofRetry /\ f.k = 0
           /\ f.k = 0 => eofRetry' = eofRetry
  BY DEF FillUntilFlag

LEMMA FillMoreFlagFacts ==
    ASSUME NEW f, FillMoreFlag(f), eofRetry \in BOOLEAN, f.k \in Nat,
           f.res = "more" => f.k > 0, f.res # "more" => f.k = 0
    PROVE  /\ eofRetry' \in BOOLEAN
           /\ eofRetry' => eofRetry /\ f.k = 0
           /\ f.k = 0 => eofRetry' = eofRetry
<1>1. NoFetch.k = 0
  BY DEF NoFetch, Fill
<1>2. f.k = 0 => f.res # "more"
  OBVIOUS
<1>3. f.k # 0 => f.res = "more" /\ f # NoFetch
  BY <1>1
<1> QED BY <1>2, <1>3 DEF FillMoreFlag

\* The refill of a step.
LEMMA StepFetchFacts ==
    ASSUME SourceOK, eofRetry \in BOOLEAN, NEW f \in StepFetches, FillMoreFlag(f)
    PROVE  /\ f.k \in 0..Waiting
           /\ Unread + f.k <= cap
           /\ f.res \in {"more", "end", "error"}
           /\ f.res # "more" => f.k = 0
           /\ eofRetry' \in BOOLEAN
           /\ eofRetry' => eofRetry /\ f.k = 0
           /\ f.k = 0 => eofRetry' = eofRetry
<1>1. /\ Unread \in Nat /\ Waiting \in Nat /\ cap \in Nat /\ Unread <= cap
  BY Counts
<1>2. CASE Unread = 0
  <2>1. f \in FillMore(0, cap, Waiting)
    BY <1>2 DEF StepFetches
  <2>2. /\ f.k \in 0..Waiting /\ 0 + f.k <= cap
        /\ f.res \in {"more", "end", "error"}
        /\ f.res = "more" => f.k > 0
        /\ f.res # "more" => f.k = 0
    BY <1>1, <2>1, FillMoreFacts
  <2>3. f.k \in Nat
    BY <1>1, <2>2
  <2>4. /\ eofRetry' \in BOOLEAN
        /\ eofRetry' => eofRetry /\ f.k = 0
        /\ f.k = 0 => eofRetry' = eofRetry
    BY <2>2, <2>3, FillMoreFlagFacts
  <2> QED BY <1>1, <1>2, <2>2, <2>4
<1>3. CASE Unread # 0
  <2>1. f = NoFetch
    BY <1>3 DEF StepFetches
  <2>2. f.k = 0 /\ f.res = "more"
    BY <2>1 DEF NoFetch, Fill
  <2>3. eofRetry' = eofRetry
    BY <2>1 DEF FillMoreFlag
  <2> QED BY <1>1, <2>2, <2>3
<1> QED BY <1>2, <1>3

\* Units that leave the buffer without a refill.
LEMMA ConsumeSourceOK ==
    ASSUME SourceOK, UNCHANGED <<sourceVars, cap>>, NEW k \in 0..Unread,
           consumed' = consumed + k
    PROVE  SourceOK'
<1>1. /\ arrived \in Nat /\ fetched \in Nat /\ consumed \in Nat /\ cap \in Nat
      /\ arrived <= StreamLen /\ fetched <= arrived /\ consumed <= fetched
      /\ fetched - consumed <= cap /\ k \in Nat /\ k <= fetched - consumed
      /\ eofSeen \in BOOLEAN
  BY DecodeBridgeAssumption DEF SourceOK, Unread
<1>2. arrived' = arrived /\ fetched' = fetched /\ eofSeen' = eofSeen /\ cap' = cap
  BY DEF sourceVars
<1> QED BY <1>1, <1>2, DecodeBridgeAssumption DEF SourceOK, Unread

\* An operation past the decoder, or a refused call: the caller's values stay.
LEMMA PassedByFacts ==
    ASSUME DecoderOK, DecoderPassedBy
    PROVE  /\ DecoderOK'
           /\ decLast' = NoAnswer /\ UNCHANGED <<made, held>>
           /\ decSt' # "lied" => decSt # "lied"
           /\ decSt' # "open"
<1>1. NoAnswer \in [eof : BOOLEAN, tag : {"none"} \cup ProgressTags]
  BY DEF NoAnswer
<1> QED BY <1>1 DEF DecoderOK, DecoderPassedBy

LEMMA WaitsFacts ==
    ASSUME DecoderOK, NEW f, f.k \in Nat, DecoderWaits(f), consumed' = consumed
    PROVE  /\ DecoderOK'
           /\ UNCHANGED <<decSt, made, held>>
           /\ decLast' = [eof |-> TRUE, tag |-> "NeedOutput"] => f.k = 0 /\ decLast' = decLast
<1>1. NoAnswer \in [eof : BOOLEAN, tag : {"none"} \cup ProgressTags]
  BY DEF NoAnswer
<1>2. CASE f.k > 0
  BY <1>1, <1>2, NotEndAnswer DEF DecoderOK, DecoderWaits
<1>3. CASE f.k = 0
  BY <1>3 DEF DecoderOK, DecoderWaits
<1> QED BY <1>2, <1>3

\* Between calls, the parts are enough.
LEMMA IdleIInv ==
    ASSUME IInv, pc = "idle", UNCHANGED callVars,
           SourceOK', DecoderOK', ReturnOK', SlotsFollowGot', EndIsRemembered',
           eofRetry' \in BOOLEAN, got' \in Seq(Nat), lost' \in BOOLEAN
    PROVE  IInv'
<1>1. CallOK /\ CallInStep
  BY IInvParts
<1>2. UNCHANGED <<pc, call, out>>
  BY DEF callVars
<1>3. CallOK'
  BY <1>1, <1>2 DEF CallOK
<1>4. CallInStep'
  BY <1>1, <1>2 DEF CallInStep
<1> QED BY <1>3, <1>4, PartsIInv

----------------------------------------------------------------------------
(* The invariant, action by action.                                        *)

LEMMA InitIInv == Init => IInv
<1> SUFFICES ASSUME Init PROVE IInv
  OBVIOUS
<1> USE DecodeBridgeAssumption
<1>1. /\ arrived \in 0..StreamLen /\ fetched = 0 /\ eofSeen = FALSE /\ consumed = 0
      /\ cap = FirstCap /\ decSt = "new" /\ decNext = 0 /\ decLast = NoAnswer
      /\ made = 0 /\ held = 0 /\ got = <<>> /\ ret = Return("none")
      /\ eofRetry = FALSE /\ pc = "idle" /\ call = NoCall /\ out = <<>> /\ lost = FALSE
  BY DEF Init, BridgeInit
<1>2. ret.tag = "none" /\ ret \in Returns
  BY <1>1 DEF Return, Progress, Returns, Tags
<1>3. call.written = 0 /\ call.count = 0 /\ call \in Calls
  BY <1>1 DEF NoCall, Calls
<1>4. <<>> \in Seq(Nat) /\ Len(<<>>) = 0
  BY EmptySeq
<1>5. decLast \in [eof : BOOLEAN, tag : {"none"} \cup ProgressTags]
  BY <1>1 DEF NoAnswer
<1>6. Unread <= cap
  BY <1>1 DEF Unread
<1>7. TypeOK
  <2>1. SourceOK
    <3>1. fetched \in 0..arrived /\ consumed \in 0..fetched
      BY <1>1
    <3> QED BY <1>1, <1>6, <3>1 DEF SourceOK
  <2>2. DecoderOK
    <3>1. held \in 0..MaxHeld /\ made \in Nat /\ held <= made /\ decNext \in Nat
      BY <1>1
    <3>2. decSt \in {"new", "open", "done", "broken", "lied", "stale"} /\ decSt # "open"
      BY <1>1
    <3> QED BY <1>5, <3>1, <3>2 DEF DecoderOK
  <2>3. CallOK
    <3>1. out \in Seq(Nat) /\ got \in Seq(Nat)
      BY <1>1, <1>4
    <3>2. call.written <= call.count
      BY <1>3
    <3> QED BY <1>1, <1>3, <3>1, <3>2 DEF CallOK
  <2>4. ReturnOK
    BY <1>2 DEF ReturnOK
  <2> QED
    BY <2>1, <2>2, <2>3, <2>4 DEF TypeOK, SourceOK, DecoderOK, CallOK, ReturnOK, Returns
<1>8. SlotsFollowGot
  BY <1>1, <1>3, <1>4 DEF SlotsFollowGot
<1>9. CallInStep
  BY <1>1 DEF CallInStep
<1>10. EndIsRemembered
  BY <1>1, NotEndAnswer DEF EndIsRemembered
<1> QED BY <1>1, <1>7, <1>8, <1>9, <1>10 DEF IInv

LEMMA ArriveIInv == ASSUME IInv, Arrive PROVE IInv'
<1> USE IInvParts
<1>1. /\ arrived < StreamLen /\ arrived' = arrived + 1
      /\ UNCHANGED <<fetched, eofSeen, consumed, cap, decSt, decNext, decLast, made, held,
                     got, ret, eofRetry, pc, call, out, lost>>
  BY DEF Arrive, SourceGrows, bufferVars, decoderVars, callVars
<1>2. SourceOK'
  <2>1. /\ arrived \in Nat /\ fetched \in Nat /\ fetched <= arrived
        /\ consumed \in 0..fetched /\ eofSeen \in BOOLEAN /\ cap \in Nat
        /\ fetched - consumed <= cap /\ StreamLen \in Nat
    BY DecodeBridgeAssumption DEF SourceOK, Unread
  <2>2. arrived + 1 \in 0..StreamLen /\ fetched \in 0..(arrived + 1)
    BY <1>1, <2>1
  <2> QED BY <1>1, <2>1, <2>2 DEF SourceOK, Unread
<1>3. DecoderOK' /\ CallOK' /\ ReturnOK'
  BY <1>1 DEF DecoderOK, CallOK, ReturnOK
<1>4. SlotsFollowGot'
  BY <1>1, SlotsKeep
<1>5. CallInStep' /\ EndIsRemembered'
  BY <1>1 DEF CallInStep, EndIsRemembered
<1> QED BY <1>2, <1>3, <1>4, <1>5, PartsIInv

\* A return that leaves everything else as it was.
LEMMA SameIInv ==
    ASSUME IInv, pc = "idle", ReturnOK',
           UNCHANGED <<sourceVars, adapterVars, decoderVars, callVars, resultVars>>
    PROVE  IInv'
<1> USE IInvParts
<1>1. UNCHANGED <<arrived, fetched, eofSeen, consumed, cap, decSt, decNext, decLast, made,
                  held, got, eofRetry, pc, call, out, lost>>
  BY DEF sourceVars, adapterVars, bufferVars, decoderVars, callVars, resultVars
<1>2. SourceOK'
  BY <1>1 DEF SourceOK, Unread
<1>3. DecoderOK' /\ eofRetry' \in BOOLEAN /\ got' \in Seq(Nat) /\ lost' \in BOOLEAN
  BY <1>1 DEF DecoderOK, CallOK
<1>4. SlotsFollowGot'
  BY <1>1, SlotsKeep
<1>5. EndIsRemembered'
  BY <1>1 DEF EndIsRemembered
<1> QED BY <1>2, <1>3, <1>4, <1>5, IdleIInv

\* The decoder changed, nothing else did.
LEMMA LifecycleIInv ==
    ASSUME IInv, pc = "idle", UNCHANGED <<sourceVars, adapterVars, callVars>>,
           decSt' \in {"new", "open", "done", "broken", "lied", "stale"},
           decLast' = NoAnswer, UNCHANGED <<decNext, made, held, got, lost>>,
           decSt' # "open", decSt' # "lied" => decSt # "lied", ReturnOK'
    PROVE  IInv'
<1> USE IInvParts
<1>1. UNCHANGED <<arrived, fetched, eofSeen, consumed, cap, eofRetry, pc, call, out>>
  BY DEF sourceVars, adapterVars, bufferVars, callVars
<1>2. SourceOK'
  BY <1>1 DEF SourceOK, Unread
<1>3. NoAnswer \in [eof : BOOLEAN, tag : {"none"} \cup ProgressTags]
  BY DEF NoAnswer
<1>4. DecoderOK' /\ eofRetry' \in BOOLEAN /\ got' \in Seq(Nat) /\ lost' \in BOOLEAN
  BY <1>1, <1>3 DEF DecoderOK, CallOK
<1>5. SlotsFollowGot'
  BY <1>1, SlotsKeep
<1>6. EndIsRemembered'
  BY <1>1, NotEndAnswer DEF EndIsRemembered
<1> QED BY <1>2, <1>4, <1>5, <1>6, IdleIInv

LEMMA LifecycleRefusedFacts ==
    ASSUME NEW max, NEW r, LifecycleRefused(max, r)
    PROVE  ReturnOK' /\ ret'.tag # "ResetOk"
<1>1. BoundFailure(max, r) \in {"InvalidData", "InvalidInput"}
  BY DEF LifecycleRefused, BoundFailure
<1>2. ret' = Return(BoundFailure(max, r))
  BY DEF LifecycleRefused
<1> QED BY <1>1, <1>2, ReturnTag

LEMMA LifecycleBreaksIInv ==
    ASSUME IInv, pc = "idle", UNCHANGED <<sourceVars, adapterVars, callVars>>,
           lost' = lost, LifecycleBreaks
    PROVE  IInv'
<1>1. ReturnOK'
  <2>1. ret' = Return("DecoderError") \/ ret' = Return("Panic")
    BY DEF LifecycleBreaks
  <2> QED BY <2>1, ReturnTag
<1>2. /\ decSt' = IF decSt = "lied" THEN "lied" ELSE "broken"
      /\ decLast' = NoAnswer
      /\ UNCHANGED <<decNext, made, held, got>>
  BY DEF LifecycleBreaks, DecoderBreaks
<1>3. /\ decSt' \in {"new", "open", "done", "broken", "lied", "stale"}
      /\ decSt' # "open" /\ (decSt' # "lied" => decSt # "lied")
  BY <1>2
<1> QED BY <1>1, <1>2, <1>3, LifecycleIInv

LEMMA ResetIInv == ASSUME IInv, Reset PROVE IInv'
<1> USE IInvParts
<1>1. /\ pc = "idle" /\ ResetBody /\ lost' = (lost /\ ret'.tag # "ResetOk")
      /\ UNCHANGED <<sourceVars, adapterVars, callVars>>
  BY DEF Reset
<1>2. PICK r \in Ranges : \/ LifecycleRefused(MaxReset, r)
                          \/ LifecycleBreaks
                          \/ ResetSucceeds
  BY <1>1 DEF ResetBody
<1>3. lost \in BOOLEAN /\ lost' \in BOOLEAN
  BY <1>1 DEF CallOK
<1>4. CASE LifecycleRefused(MaxReset, r)
  <2>1. ReturnOK' /\ lost' = lost
    BY <1>1, <1>3, <1>4, LifecycleRefusedFacts
  <2>2. UNCHANGED <<decoderVars, resultVars>>
    BY <1>4, <2>1 DEF LifecycleRefused, resultVars
  <2> QED BY <1>1, <2>1, <2>2, SameIInv
<1>5. CASE LifecycleBreaks
  <2>1. ret'.tag # "ResetOk"
    <3>1. ret' = Return("DecoderError") \/ ret' = Return("Panic")
      BY <1>5 DEF LifecycleBreaks
    <3> QED BY <3>1, ReturnTag
  <2>2. lost' = lost
    BY <1>1, <1>3, <2>1
  <2> QED BY <1>1, <1>5, <2>2, LifecycleBreaksIInv
<1>6. CASE ResetSucceeds
  <2>1. /\ decSt' = "open" /\ decNext' = consumed /\ decLast' = NoAnswer
        /\ made' = 0 /\ held' = 0 /\ got' = <<>>
    BY <1>6 DEF ResetSucceeds
  <2>2. ReturnOK' /\ ret'.tag = "ResetOk"
    <3>1. PICK w \in 0..MaxReset : ret' = Wrote("ResetOk", w)
      BY <1>6 DEF ResetSucceeds
    <3>2. w \in Nat /\ "ResetOk" \in Tags
      BY DecodeBridgeAssumption DEF Tags
    <3> QED BY <3>1, <3>2, ReturnPlain DEF Wrote
  <2>3. UNCHANGED <<arrived, fetched, eofSeen, consumed, cap, eofRetry, pc, call, out>>
    BY <1>1 DEF sourceVars, adapterVars, bufferVars, callVars
  <2>4. SourceOK'
    BY <2>3 DEF SourceOK, Unread
  <2>5. NoAnswer \in [eof : BOOLEAN, tag : {"none"} \cup ProgressTags]
    BY DEF NoAnswer
  <2>6. DecoderOK'
    BY <2>1, <2>3, <2>5, DecodeBridgeAssumption DEF DecoderOK, SourceOK
  <2>7. /\ got' \in Seq(Nat) /\ Len(got') = 0 /\ eofRetry' \in BOOLEAN
        /\ lost' = FALSE
    <3>1. <<>> \in Seq(Nat) /\ Len(<<>>) = 0
      BY EmptySeq
    <3> QED BY <1>1, <2>1, <2>2, <2>3, <3>1 DEF CallOK
  <2>8. SlotsFollowGot'
    <3>1. call'.written = 0
      BY <1>1, <2>3 DEF CallInStep, NoCall
    <3>2. \A i \in 1..Len(got') : FALSE
      BY <2>7
    <3>3. Len(got') = made' - held'
      BY <2>1, <2>7
    <3>4. made' \in Nat /\ held' \in Nat /\ held' <= made'
      BY <2>1
    <3> QED BY <3>1, <3>2, <3>3, <3>4, SlotsIdle
  <2>9. EndIsRemembered'
    BY <2>1, <2>3, NotEndAnswer DEF EndIsRemembered
  <2> QED BY <1>1, <1>3, <2>2, <2>4, <2>6, <2>7, <2>8, <2>9, IdleIInv
<1> QED BY <1>2, <1>4, <1>5, <1>6

LEMMA FinishIInv == ASSUME IInv, Finish PROVE IInv'
<1>1. /\ pc = "idle" /\ FinishBody
      /\ UNCHANGED <<sourceVars, adapterVars, callVars, lost>>
  BY DEF Finish
<1>2. PICK r \in Ranges : \/ LifecycleRefused(MaxFinish, r)
                          \/ DecoderRefuses /\ UNCHANGED <<decoderVars, got>>
                          \/ LifecycleBreaks
                          \/ FinishSucceeds
  BY <1>1 DEF FinishBody
<1>3. CASE LifecycleRefused(MaxFinish, r)
  <2>1. ReturnOK'
    BY <1>3, LifecycleRefusedFacts
  <2>2. UNCHANGED <<decoderVars, resultVars>>
    BY <1>1, <1>3 DEF LifecycleRefused, resultVars
  <2> QED BY <1>1, <2>1, <2>2, SameIInv
<1>4. CASE DecoderRefuses /\ UNCHANGED <<decoderVars, got>>
  <2>1. ReturnOK'
    BY <1>4, ReturnTag DEF DecoderRefuses
  <2>2. UNCHANGED <<decoderVars, resultVars>>
    BY <1>1, <1>4 DEF resultVars
  <2> QED BY <1>1, <2>1, <2>2, SameIInv
<1>5. CASE LifecycleBreaks
  BY <1>1, <1>5, LifecycleBreaksIInv
<1>6. CASE FinishSucceeds
  <2>1. /\ decSt = "open" /\ decSt' = "done" /\ decLast' = NoAnswer
        /\ UNCHANGED <<decNext, made, held, got>>
    BY <1>6 DEF FinishSucceeds
  <2>2. ReturnOK'
    <3>1. PICK w \in 0..MaxFinish : ret' = Wrote("FinishOk", w)
      BY <1>6 DEF FinishSucceeds
    <3>2. w \in Nat /\ "FinishOk" \in Tags
      BY DecodeBridgeAssumption DEF Tags
    <3> QED BY <3>1, <3>2, ReturnPlain DEF Wrote
  <2> QED BY <1>1, <2>1, <2>2, LifecycleIInv
<1> QED BY <1>2, <1>3, <1>4, <1>5, <1>6

----------------------------------------------------------------------------
(* Steps.                                                                  *)

LEMMA RangeFacts ==
    ASSUME NEW r \in Ranges
    PROVE  r[1] \in Nat /\ r[2] \in Nat /\ r[3] \in Nat
  BY DecodeBridgeAssumption

LEMMA StepTrivialIInv ==
    ASSUME IInv, pc = "idle", NEW r \in Ranges, StepTrivial(r),
           UNCHANGED <<eofRetry, callVars, lost>>
    PROVE  IInv'
<1>1. UNCHANGED <<sourceVars, adapterVars, decoderVars, callVars, resultVars>>
  BY DEF StepTrivial, adapterVars, resultVars
<1>2. ReturnOK'
  <2>1. ret' = Return("InvalidInput") \/ ret' = Progress("Complete", 0, 0, 0)
    BY DEF StepTrivial
  <2>2. "Complete" \in Tags /\ "Complete" # "BatchOk"
    BY DEF Tags, ProgressTags
  <2> QED BY <2>1, <2>2, ReturnTag, ReturnPlain
<1> QED BY <1>1, <1>2, SameIInv

\* A failed decoder call between batches, after a refill f.
LEMMA FailedStepIInv ==
    ASSUME IInv, pc = "idle", UNCHANGED <<callVars, got, lost, cap>>,
           NEW f, f.k \in 0..Waiting, Unread + f.k <= cap, Fetch(f),
           eofRetry' \in BOOLEAN, eofRetry' => eofRetry /\ f.k = 0,
           f.k = 0 => eofRetry' = eofRetry,
           NEW n \in Nat, NEW m \in Nat, NEW index \in Nat, NEW eof \in BOOLEAN,
           DecodeFails(f, n, index, m, eof)
    PROVE  IInv'
<1> USE IInvParts
<1>1. Unread \in Nat /\ Waiting \in Nat /\ f.k \in Nat /\ consumed \in Nat /\ cap \in Nat
  BY Counts
<1>2. /\ DecoderOK'
      /\ consumed' = consumed /\ made' = made /\ held' = held
      /\ decSt' # "open"
      /\ decSt' # "lied" => decSt # "lied"
      /\ decLast' = NoAnswer \/ (f.k = 0 /\ decLast' = decLast)
      /\ ret' \in {Return("DecoderError"), Return("InvalidData")}
  BY <1>1, DecodeFailsFacts
<1>3. SourceOK'
  <2>1. 0 \in 0..(Unread + f.k) /\ consumed' = consumed + 0 /\ cap' = cap
    BY <1>1, <1>2
  <2> QED BY <1>1, <2>1, FetchSourceOK
<1>4. ReturnOK'
  BY <1>2, ReturnTag
<1>5. SlotsFollowGot'
  BY <1>2, SlotsKeep DEF callVars
<1>6. EndIsRemembered'
  BY <1>2, NotEndAnswer, RefillRemembers
<1> QED BY <1>2, <1>3, <1>4, <1>5, <1>6, IdleIInv DEF CallOK

\* An accepted answer between batches.
LEMMA AcceptedIInv ==
    ASSUME IInv, pc = "idle", UNCHANGED <<callVars, lost>>, SourceOK', ReturnOK',
           EndIsRemembered', eofRetry' \in BOOLEAN,
           NEW n \in Nat, NEW m \in Nat, NEW index \in Nat, NEW eof \in BOOLEAN,
           NEW a \in Answers(n, m, eof), DecodeAccepts(a, n, index, m, eof),
           got' = got \o Values(a)
    PROVE  IInv'
<1> USE IInvParts
<1>1. consumed \in Nat
  BY Counts
<1>2. /\ DecoderOK' /\ a.written \in Nat /\ decSt = "open"
      /\ decSt' = IF a.honest THEN "open" ELSE "lied"
      /\ a.honest => made' - held' = made - held + a.written
  BY <1>1, DecodeAcceptsFacts DEF Accepted
<1>3. call' = call
  BY DEF callVars
<1>4. SlotsFollowGot' /\ got' \in Seq(Nat)
  BY <1>2, <1>3, SlotsGrow
<1>5. lost' \in BOOLEAN
  BY DEF CallOK
<1> QED BY <1>2, <1>4, <1>5, IdleIInv

LEMMA AnswerTag ==
    ASSUME NEW a, a.tag \in ProgressTags, a.required \in Nat, a.read \in Nat,
           a.written \in Nat, ret' = Progress(a.tag, a.required, a.read, a.written)
    PROVE  ReturnOK'
<1>1. a.tag \in Tags /\ a.tag # "BatchOk"
  BY DEF Tags, ProgressTags
<1> QED BY <1>1, ReturnPlain

LEMMA TranscodeStepIInv == ASSUME IInv, TranscodeStep PROVE IInv'
<1> USE IInvParts
<1>1. pc = "idle" /\ UNCHANGED <<callVars, lost>>
  BY DEF TranscodeStep
<1>2. PICK r \in Ranges :
          \/ StepTrivial(r) /\ UNCHANGED eofRetry
          \/ /\ \E f \in StepFetches :
                   /\ Fetch(f)
                   /\ FillMoreFlag(f)
                   /\ StepStarves(f) \/ StepDecodes(f, r)
             /\ UNCHANGED cap
  BY DEF TranscodeStep
<1>3. r[1] \in Nat /\ r[2] \in Nat
  BY RangeFacts
<1>4. CASE StepTrivial(r) /\ UNCHANGED eofRetry
  BY <1>1, <1>4, StepTrivialIInv
<1>5. ASSUME NEW f \in StepFetches, Fetch(f), FillMoreFlag(f),
             StepStarves(f) \/ StepDecodes(f, r), cap' = cap
      PROVE  IInv'
  <2>1. Unread \in Nat /\ Waiting \in Nat /\ consumed \in Nat /\ cap \in Nat
        /\ eofRetry \in BOOLEAN
    BY Counts DEF CallOK
  <2>2. /\ f.k \in 0..Waiting
        /\ Unread + f.k <= cap
        /\ f.res \in {"more", "end", "error"}
        /\ f.res # "more" => f.k = 0
        /\ eofRetry' \in BOOLEAN
        /\ eofRetry' => eofRetry /\ f.k = 0
        /\ f.k = 0 => eofRetry' = eofRetry
    BY <1>5, <2>1, StepFetchFacts
  <2>3. f.k \in Nat /\ Unread + f.k \in Nat
    BY <2>1, <2>2
  <2>4. CASE StepStarves(f)
    <3>1. /\ ret' = Return("EndOfInput") \/ ret' = Return("IoError")
          /\ DecoderWaits(f) /\ consumed' = consumed /\ got' = got
      BY <2>4 DEF StepStarves
    <3>2. ReturnOK'
      BY <3>1, ReturnTag
    <3>3. DecoderOK' /\ UNCHANGED <<decSt, made, held>>
          /\ (decLast' = [eof |-> TRUE, tag |-> "NeedOutput"] => f.k = 0 /\ decLast' = decLast)
      BY <2>3, <3>1, WaitsFacts
    <3>4. SourceOK'
      <4>1. 0 \in 0..(Unread + f.k) /\ consumed' = consumed + 0
        BY <2>1, <2>3, <3>1
      <4> QED BY <1>5, <2>1, <2>2, <4>1, FetchSourceOK
    <3>5. EndIsRemembered'
      BY <1>5, <2>2, <3>3, RefillRemembers
    <3>6. SlotsFollowGot'
      BY <1>1, <3>1, <3>3, SlotsKeep DEF callVars
    <3> QED BY <1>1, <2>2, <3>1, <3>2, <3>3, <3>4, <3>5, <3>6, IdleIInv DEF CallOK
  <2>5. CASE StepDecodes(f, r)
    <3>1. CASE DecodeFails(f, Unread + f.k, r[1], r[2], FALSE) /\ got' = got
      BY <1>1, <1>3, <1>5, <2>2, <2>3, <3>1, FailedStepIInv
    <3>2. ASSUME NEW a \in Answers(Unread + f.k, r[2], FALSE),
                 DecodeAccepts(a, Unread + f.k, r[1], r[2], FALSE), StepDone(a)
          PROVE  IInv'
      <4>1. /\ a.tag \in ProgressTags /\ a.required \in Nat
            /\ a.read \in 0..(Unread + f.k) /\ a.written \in 0..r[2]
            /\ consumed' = consumed + a.read
            /\ decLast' = [eof |-> FALSE, tag |-> a.tag]
        <5>1. Accepted(a, Unread + f.k, r[2], FALSE)
          BY <1>3, <2>1, <2>3, <3>2, DecodeAcceptsFacts
        <5> QED BY <5>1 DEF Accepted
      <4>2. SourceOK'
        BY <1>5, <2>1, <2>2, <4>1, FetchSourceOK
      <4>3. got' = got \o Values(a) /\ ReturnOK'
        BY <1>3, <2>3, <3>2, <4>1, AnswerTag DEF StepDone
      <4>4. EndIsRemembered'
        BY <1>5, <2>2, <4>1, NotEndAnswer, RefillRemembers
      <4> QED BY <1>1, <1>3, <2>2, <2>3, <3>2, <4>2, <4>3, <4>4, AcceptedIInv
    <3> QED BY <2>5, <3>1, <3>2 DEF StepDecodes
  <2> QED BY <1>5, <2>4, <2>5
<1> QED BY <1>2, <1>4, <1>5

\* The decoder is told of the end on the retained units, and accepts.
LEMMA EofAcceptedIInv ==
    ASSUME IInv, pc = "idle", eofSeen, UNCHANGED <<sourceVars, cap, callVars, lost>>,
           NEW r \in Ranges, NEW a \in Answers(Unread, r[2], TRUE),
           DecodeAccepts(a, Unread, r[1], r[2], TRUE), EofFlag(a),
           got' = got \o Values(a), ReturnOK'
    PROVE  IInv'
<1> USE IInvParts
<1>1. Unread \in Nat /\ consumed \in Nat /\ r[1] \in Nat /\ r[2] \in Nat
  BY Counts, RangeFacts
<1>2. /\ a.read \in 0..Unread /\ consumed' = consumed + a.read
      /\ decLast' = [eof |-> TRUE, tag |-> a.tag]
  <2>1. Accepted(a, Unread, r[2], TRUE)
    BY <1>1, DecodeAcceptsFacts
  <2> QED BY <2>1 DEF Accepted
<1>3. SourceOK'
  BY <1>2, ConsumeSourceOK
<1>4. eofRetry' = (a.tag = "NeedOutput") /\ eofSeen' = eofSeen /\ eofRetry' \in BOOLEAN
  BY DEF EofFlag, sourceVars
<1>5. EndIsRemembered'
  BY <1>2, <1>4, NotEndAnswer DEF EndIsRemembered
<1> QED BY <1>1, <1>3, <1>4, <1>5, AcceptedIInv

LEMMA NoFetchFacts ==
    ASSUME SourceOK, UNCHANGED sourceVars
    PROVE  /\ NoFetch.k = 0 /\ NoFetch.k \in 0..Waiting /\ Unread + NoFetch.k <= cap
           /\ Fetch(NoFetch)
<1>1. NoFetch.k = 0 /\ NoFetch.res = "more"
  BY DEF NoFetch, Fill
<1>2. /\ Unread \in Nat /\ Waiting \in Nat /\ fetched \in Nat /\ cap \in Nat
      /\ Unread <= cap
  BY Counts
<1>3. /\ fetched + 0 = fetched /\ eofSeen \in BOOLEAN
      /\ UNCHANGED <<arrived, fetched, eofSeen>>
  BY <1>2 DEF SourceOK, sourceVars
<1>4. Fetch(NoFetch)
  BY <1>1, <1>3 DEF Fetch
<1> QED BY <1>1, <1>2, <1>4

\* The decoder is told of the end on the retained units, and fails.
LEMMA EofFailedIInv ==
    ASSUME IInv, pc = "idle", UNCHANGED <<sourceVars, cap, callVars, eofRetry, got, lost>>,
           NEW r \in Ranges, DecodeFails(NoFetch, Unread, r[1], r[2], TRUE)
    PROVE  IInv'
<1> USE IInvParts
<1>1. Unread \in Nat /\ r[1] \in Nat /\ r[2] \in Nat /\ eofRetry' \in BOOLEAN
  BY Counts, RangeFacts DEF CallOK
<1>2. /\ NoFetch.k = 0 /\ NoFetch.k \in 0..Waiting /\ Unread + NoFetch.k <= cap
      /\ Fetch(NoFetch)
  BY NoFetchFacts
<1> QED BY <1>1, <1>2, FailedStepIInv

LEMMA TranscodeEofStepIInv == ASSUME IInv, TranscodeEofStep PROVE IInv'
<1> USE IInvParts
<1>1. pc = "idle" /\ eofSeen /\ UNCHANGED <<callVars, lost>>
  BY DEF TranscodeEofStep
<1>2. PICK r \in Ranges :
          \/ StepTrivial(r) /\ UNCHANGED eofRetry
          \/ /\ \/ /\ DecodeFails(NoFetch, Unread, r[1], r[2], TRUE)
                   /\ UNCHANGED <<eofRetry, got>>
                \/ \E a \in Answers(Unread, r[2], TRUE) :
                      /\ DecodeAccepts(a, Unread, r[1], r[2], TRUE)
                      /\ EofFlag(a)
                      /\ StepDone(a)
             /\ UNCHANGED <<sourceVars, cap>>
  BY DEF TranscodeEofStep
<1>3. CASE StepTrivial(r) /\ UNCHANGED eofRetry
  BY <1>1, <1>3, StepTrivialIInv
<1>4. CASE /\ DecodeFails(NoFetch, Unread, r[1], r[2], TRUE)
           /\ UNCHANGED <<eofRetry, got>> /\ UNCHANGED <<sourceVars, cap>>
  BY <1>1, <1>4, EofFailedIInv
<1>5. ASSUME NEW a \in Answers(Unread, r[2], TRUE),
             DecodeAccepts(a, Unread, r[1], r[2], TRUE), EofFlag(a), StepDone(a),
             UNCHANGED <<sourceVars, cap>>
      PROVE  IInv'
  <2>1. Unread \in Nat /\ consumed \in Nat /\ r[1] \in Nat /\ r[2] \in Nat
    BY Counts, RangeFacts
  <2>2. /\ a.tag \in ProgressTags /\ a.required \in Nat /\ a.read \in Nat
        /\ a.written \in Nat
    <3>1. Accepted(a, Unread, r[2], TRUE)
      BY <1>5, <2>1, DecodeAcceptsFacts
    <3> QED BY <2>1, <3>1 DEF Accepted
  <2>3. got' = got \o Values(a) /\ ReturnOK'
    BY <1>5, <2>2, AnswerTag DEF StepDone
  <2> QED BY <1>1, <1>5, <2>3, EofAcceptedIInv
<1> QED BY <1>2, <1>3, <1>4, <1>5

----------------------------------------------------------------------------
(* The batch call.                                                         *)

LEMMA TranscodeIInv == ASSUME IInv, Transcode PROVE IInv'
<1> USE IInvParts
<1>1. pc = "idle"
  BY DEF Transcode
<1>2. PICK r \in Ranges : \/ BatchEmpty(r)
                          \/ BatchResumes(r)
                          \/ r[2] > 0 /\ BatchStarts(r)
  BY DEF Transcode
<1>3. Unread \in Nat /\ consumed \in Nat /\ r[1] \in Nat /\ r[2] \in Nat
  BY Counts, RangeFacts
<1>4. CASE BatchEmpty(r)
  <2>1. ret' = Return("InvalidInput") \/ ret' = Wrote("BatchOk", 0)
    BY <1>4 DEF BatchEmpty
  <2>2. ReturnOK'
    <3>1. 0 \in Nat /\ 0 <= r[2]
      BY <1>3
    <3> QED BY <2>1, <3>1, ReturnTag, ReturnBatch
  <2> QED BY <1>1, <1>4, <2>2, SameIInv DEF BatchEmpty
<1>5. CASE BatchResumes(r)
  <2>1. eofRetry /\ eofSeen /\ UNCHANGED <<sourceVars, cap, callVars>>
    BY <1>5 DEF BatchResumes, EndIsRemembered
  <2>2. CASE DecodeFails(NoFetch, Unread, r[1], r[2], TRUE) /\ UNCHANGED <<eofRetry, resultVars>>
    BY <1>1, <2>1, <2>2, EofFailedIInv DEF resultVars
  <2>3. ASSUME NEW a \in Answers(Unread, r[2], TRUE),
               DecodeAccepts(a, Unread, r[1], r[2], TRUE), EofFlag(a),
               ret' = Wrote("BatchOk", a.written), got' = got \o Values(a), lost' = lost
        PROVE  IInv'
    <3>1. a.written \in Nat /\ a.written <= r[2]
      <4>1. Accepted(a, Unread, r[2], TRUE)
        BY <1>3, <2>3, DecodeAcceptsFacts
      <4> QED BY <1>3, <4>1 DEF Accepted
    <3>2. ReturnOK'
      BY <2>3, <3>1, ReturnBatch
    <3> QED BY <1>1, <2>1, <2>3, <3>2, EofAcceptedIInv
  <2> QED BY <1>5, <2>2, <2>3 DEF BatchResumes
<1>6. CASE r[2] > 0 /\ BatchStarts(r)
  <2>1. /\ ~eofRetry /\ pc' = "loop" /\ ret' = Return("none")
        /\ call' = [index |-> r[1], count |-> r[2], written |-> 0, need |-> 0]
        /\ out' = [s \in 1..r[2] |-> 0]
        /\ UNCHANGED <<arrived, fetched, eofSeen, consumed, cap, decSt, decNext, decLast,
                       made, held, got, eofRetry, lost>>
    BY <1>6 DEF BatchStarts, sourceVars, adapterVars, bufferVars, decoderVars, resultVars
  <2>2. call'.count = r[2] /\ call'.written = 0 /\ call' \in Calls
    BY <1>3, <2>1 DEF Calls
  <2>3. out' \in Seq(Nat) /\ Len(out') = r[2]
    <3>1. [s \in 1..r[2] |-> 0] \in Seq(Nat)
      BY <1>3, SeqDef
    <3>2. DOMAIN [s \in 1..r[2] |-> 0] = 1..r[2]
      OBVIOUS
    <3>3. Len([s \in 1..r[2] |-> 0]) = r[2]
      BY <1>3, <3>1, <3>2, LenProperties
    <3> QED BY <2>1, <3>1, <3>3
  <2>4. ReturnOK' /\ ret'.tag = "none"
    BY <2>1, ReturnTag
  <2>5. SourceOK' /\ DecoderOK' /\ EndIsRemembered'
    BY <2>1 DEF SourceOK, Unread, DecoderOK, EndIsRemembered
  <2>6. CallOK'
    <3>1. call'.written <= call'.count
      BY <1>3, <2>2
    <3> QED BY <2>1, <2>2, <2>3, <3>1 DEF CallOK
  <2>7. SlotsFollowGot'
    <3>1. made \in Nat /\ held \in Nat /\ held <= made
      BY DecodeBridgeAssumption DEF DecoderOK
    <3>2. decSt # "lied" =>
                /\ \A i, j \in 1..Len(got) : i < j => got[i] < got[j]
                /\ \A i \in 1..Len(got) : got[i] \in 1..(made - held)
                /\ decSt = "open" /\ ~lost => Len(got) = made - held
      BY <1>1, <3>1, IdleSlots
    <3> QED BY <2>1, <2>2, <3>1, <3>2, SlotsIdle
  <2>8. CallInStep'
    <3>1. call'.written < call'.count
      BY <1>3, <1>6, <2>2
    <3> QED BY <2>1, <2>2, <2>3, <2>4, <3>1 DEF CallInStep
  <2> QED BY <2>4, <2>5, <2>6, <2>7, <2>8, PartsIInv
<1> QED BY <1>2, <1>4, <1>5, <1>6

\* The call is left: what remains to be seen is the caller's values.
LEMMA LeaveIInv ==
    ASSUME IInv, LeaveBatch, SourceOK', DecoderOK', ReturnOK', EndIsRemembered',
           eofRetry' \in BOOLEAN, got' \in Seq(Nat), lost' \in BOOLEAN,
           decSt' # "lied" =>
                /\ \A i, j \in 1..Len(got') : i < j => got'[i] < got'[j]
                /\ \A i \in 1..Len(got') : got'[i] \in 1..(made' - held')
                /\ decSt' = "open" /\ ~lost' => Len(got') = made' - held'
    PROVE  IInv'
<1>1. pc' = "idle" /\ call' = NoCall /\ out' = <<>>
  BY DEF LeaveBatch
<1>2. call'.written = 0 /\ call'.count = 0 /\ call' \in Calls
  BY <1>1 DEF NoCall, Calls
<1>3. CallOK'
  <2>1. out' \in Seq(Nat)
    BY <1>1, EmptySeq
  <2>2. call'.written <= call'.count
    BY <1>2
  <2> QED BY <1>1, <1>2, <2>1, <2>2 DEF CallOK
<1>4. CallInStep'
  BY <1>1 DEF CallInStep
<1>5. SlotsFollowGot'
  <2>1. made' \in Nat /\ held' \in Nat /\ held' <= made'
    BY DecodeBridgeAssumption DEF DecoderOK
  <2> QED BY <1>2, <2>1, SlotsIdle
<1> QED BY <1>3, <1>4, <1>5, PartsIInv

LEMMA MoreRoom ==
    ASSUME NEW m \in Nat, NEW h \in Nat, NEW w \in Nat, h <= m, w <= m - h
    PROVE  /\ m - h - w \in Nat
           /\ 1..(m - h - w) \subseteq 1..(m - h)
           /\ w = 0 => m - h - w = m - h
  OBVIOUS

\* A batch call that fails tells none of the values it has written.
LEMMA BatchFailsIInv ==
    ASSUME IInv, pc # "idle", BatchFails, SourceOK', DecoderOK', ReturnOK',
           EndIsRemembered', eofRetry' \in BOOLEAN, UNCHANGED <<made, held>>,
           decSt' # "lied" => decSt # "lied", decSt' = "open" => decSt = "open"
    PROVE  IInv'
<1> USE IInvParts
<1>1. lost' = (lost \/ call.written > 0) /\ LeaveBatch /\ got' = got
  BY DEF BatchFails
<1>2. /\ made \in Nat /\ held \in Nat /\ held <= made /\ call.written \in Nat
      /\ got \in Seq(Nat) /\ lost \in BOOLEAN
  BY DecodeBridgeAssumption DEF DecoderOK, CallOK, Calls
<1>3. lost' \in BOOLEAN /\ got' \in Seq(Nat) /\ (~lost' => ~lost /\ call.written = 0)
  <2>1. (call.written > 0) = (call.written # 0)
    BY <1>2
  <2>2. lost' = (lost \/ call.written # 0)
    BY <1>1, <2>1, Zenon
  <2> QED BY <1>1, <1>2, <2>2, Zenon
<1>4. ASSUME decSt' # "lied"
      PROVE  /\ \A i, j \in 1..Len(got) : i < j => got[i] < got[j]
             /\ \A i \in 1..Len(got) : got[i] \in 1..(made - held)
             /\ decSt' = "open" /\ ~lost' => Len(got) = made - held
  <2>1. /\ call.written <= made - held
        /\ \A i, j \in 1..Len(got) : i < j => got[i] < got[j]
        /\ \A i \in 1..Len(got) : got[i] \in 1..(made - held - call.written)
        /\ decSt = "open" /\ ~lost => Len(got) = made - held - call.written
    BY <1>4 DEF SlotsFollowGot
  <2>2. /\ 1..(made - held - call.written) \subseteq 1..(made - held)
        /\ call.written = 0 => made - held - call.written = made - held
    BY <1>2, <2>1, MoreRoom
  <2> QED BY <1>3, <2>1, <2>2
<1> QED BY <1>1, <1>3, <1>4, LeaveIInv

\* Counts of the running call.
LEMMA CallCounts ==
    ASSUME IInv, pc # "idle"
    PROVE  /\ call.written \in Nat /\ call.count \in Nat /\ call.index \in Nat
           /\ call.need \in Nat
           /\ call.written < call.count /\ Remaining \in Nat
           /\ call.index + call.written \in Nat
           /\ call.written + Remaining = call.count
           /\ out \in Seq(Nat) /\ Len(out) = call.count
           /\ ~eofRetry /\ ret.tag = "none"
           /\ made \in Nat /\ held \in Nat /\ held <= made
<1>1. CallOK /\ CallInStep /\ DecoderOK
  BY IInvParts
<1>2. /\ call.written \in Nat /\ call.count \in Nat /\ call.index \in Nat
      /\ call.need \in Nat /\ call.written < call.count
      /\ out \in Seq(Nat) /\ Len(out) = call.count
      /\ ~eofRetry /\ ret.tag = "none"
  BY <1>1 DEF CallOK, CallInStep, Calls
<1>3. made \in Nat /\ held \in Nat /\ held <= made
  BY <1>1, DecodeBridgeAssumption DEF DecoderOK
<1> QED BY <1>2, <1>3 DEF Remaining

LEMMA FunctionSeq ==
    ASSUME NEW n \in Nat, NEW o \in [1..n -> Nat]
    PROVE  o \in Seq(Nat) /\ Len(o) = n
<1>1. o \in Seq(Nat)
  BY SeqDef
<1> QED BY <1>1, LenProperties

\* Arithmetic of one slot.
LEMMA SlotNumber ==
    ASSUME NEW m \in Nat, NEW h \in Nat, h <= m, NEW w \in Nat, NEW s \in Nat, s > w
    PROVE  m - h + s - w \in Nat /\ m - h + s - w = m - h - w + s
  OBVIOUS

\* The slots after an answer: the values go on where the earlier ones ended.
LEMMA SlotsOf ==
    ASSUME IInv, pc # "idle", NEW a, a.written \in Nat,
           call.written + a.written <= call.count
    PROVE  /\ Slots(a) \in Seq(Nat)
           /\ Len(Slots(a)) = call.count
           /\ decSt # "lied" =>
                 \A s \in 1..(call.written + a.written) :
                     Slots(a)[s] = made - held - call.written + s
<1> USE IInvParts
<1>1. /\ call.written \in Nat /\ call.count \in Nat
      /\ out \in Seq(Nat) /\ Len(out) = call.count
      /\ made \in Nat /\ held \in Nat /\ held <= made
  BY CallCounts
<1>2. ASSUME NEW s \in 1..call.count
      PROVE  (IF s \in (call.written + 1)..(call.written + a.written)
              THEN made - held + s - call.written ELSE out[s]) \in Nat
  <2>1. CASE s \in (call.written + 1)..(call.written + a.written)
    <3>1. s \in Nat /\ s > call.written
      BY <1>1, <2>1
    <3> QED BY <1>1, <2>1, <3>1, SlotNumber
  <2>2. CASE s \notin (call.written + 1)..(call.written + a.written)
    <3>1. out[s] \in Nat
      BY <1>1, ElementOfSeq
    <3> QED BY <2>2, <3>1
  <2> QED BY <2>1, <2>2
<1>3. Slots(a) \in [1..call.count -> Nat]
  BY <1>2 DEF Slots
<1>4. Slots(a) \in Seq(Nat) /\ Len(Slots(a)) = call.count
  BY <1>1, <1>3, FunctionSeq
<1>6. ASSUME decSt # "lied", NEW s \in 1..(call.written + a.written)
      PROVE  Slots(a)[s] = made - held - call.written + s
  <2>1. s \in 1..call.count /\ s \in Nat
    BY <1>1
  <2>2. Slots(a)[s] = IF s \in (call.written + 1)..(call.written + a.written)
                      THEN made - held + s - call.written ELSE out[s]
    BY <2>1 DEF Slots
  <2>3. CASE s \in 1..call.written
    <3>1. s \notin (call.written + 1)..(call.written + a.written)
      BY <1>1, <2>3
    <3>2. out[s] = made - held - call.written + s
      BY <1>6, <2>3 DEF SlotsFollowGot
    <3> QED BY <2>2, <3>1, <3>2
  <2>4. CASE s > call.written
    <3>1. s \in (call.written + 1)..(call.written + a.written)
      BY <1>1, <2>1, <2>4
    <3>2. made - held + s - call.written = made - held - call.written + s
      BY <1>1, <2>1, <2>4, SlotNumber
    <3> QED BY <2>2, <3>1, <3>2
  <2> QED BY <1>1, <2>1, <2>3, <2>4
<1> QED BY <1>4, <1>6

\* The values a returning call adds.
LEMMA FirstSlots ==
    ASSUME NEW o \in Seq(Nat), NEW w \in Nat, w <= Len(o)
    PROVE  /\ SubSeq(o, 1, w) \in Seq(Nat)
           /\ Len(SubSeq(o, 1, w)) = w
           /\ \A i \in 1..w : SubSeq(o, 1, w)[i] = o[i]
<1>1. Len(o) \in Nat /\ 1 \in 1..(Len(o) + 1) /\ w \in (1 - 1)..Len(o)
  BY LenProperties
<1>2. /\ SubSeq(o, 1, w) \in Seq(Nat)
      /\ Len(SubSeq(o, 1, w)) = IF 1 <= w THEN w - 1 + 1 ELSE 0
      /\ \A i \in 1..(w - 1 + 1) : SubSeq(o, 1, w)[i] = o[1 + i - 1]
  BY <1>1, SubSeqProperties
<1>3. Len(SubSeq(o, 1, w)) = w
  BY <1>2
<1>4. ASSUME NEW i \in 1..w PROVE SubSeq(o, 1, w)[i] = o[i]
  <2>1. 1 + i - 1 = i /\ i \in 1..(w - 1 + 1)
    OBVIOUS
  <2> QED BY <1>2, <2>1
<1> QED BY <1>2, <1>3, <1>4

LEMMA TotalFits ==
    ASSUME NEW w \in Nat, NEW rest \in Nat, NEW count, w + rest = count, NEW k \in 0..rest
    PROVE  k \in Nat /\ w + k \in Nat /\ w + k <= count
  OBVIOUS

\* An accepted answer ends the call.
LEMMA BatchReturnsIInv ==
    ASSUME IInv, pc # "idle", SourceOK', EndIsRemembered', eofRetry' \in BOOLEAN,
           NEW n \in Nat, NEW eof \in BOOLEAN, NEW a \in Answers(n, Remaining, eof),
           DecodeAccepts(a, n, call.index + call.written, Remaining, eof),
           BatchReturns(call.written + a.written, Slots(a))
    PROVE  IInv'
<1> DEFINE total == call.written + a.written
           new == SubSeq(Slots(a), 1, total)
           base == made - held - call.written
<1> USE IInvParts
<1>1. /\ call.written \in Nat /\ call.count \in Nat /\ Remaining \in Nat
      /\ call.index + call.written \in Nat
      /\ call.written + Remaining = call.count
      /\ made \in Nat /\ held \in Nat /\ held <= made /\ consumed \in Nat
      /\ got \in Seq(Nat) /\ lost \in BOOLEAN
  <2>1. /\ call.written \in Nat /\ call.count \in Nat /\ Remaining \in Nat
        /\ call.index + call.written \in Nat
        /\ call.written + Remaining = call.count
        /\ made \in Nat /\ held \in Nat /\ held <= made
    BY CallCounts
  <2>2. consumed \in Nat
    BY Counts
  <2> QED BY <2>1, <2>2 DEF CallOK
<1>2. Accepted(a, n, Remaining, eof)
  BY <1>1, DecodeAcceptsFacts
<1>3. /\ DecoderOK' /\ a.written \in 0..Remaining /\ decSt = "open"
      /\ decSt' = IF a.honest THEN "open" ELSE "lied"
      /\ a.honest => made' - held' = made - held + a.written
  BY <1>2 DEF Accepted
<1>4. a.written \in Nat /\ total \in Nat /\ total <= call.count
  BY <1>1, <1>3, TotalFits
<1>5. /\ Slots(a) \in Seq(Nat) /\ Len(Slots(a)) = call.count
      /\ \A s \in 1..total : Slots(a)[s] = base + s
  BY <1>3, <1>4, SlotsOf
<1>6. /\ new \in Seq(Nat) /\ Len(new) = total
      /\ \A i \in 1..total : new[i] = Slots(a)[i]
  BY <1>4, <1>5, FirstSlots
<1>7. \A i \in 1..Len(new) : new[i] = base + i
  BY <1>5, <1>6
<1>8. /\ ret' = Wrote("BatchOk", total) /\ got' = got \o new /\ LeaveBatch /\ lost' = lost
  BY DEF BatchReturns
<1>9. ReturnOK'
  <2>1. PICK r \in Ranges : call.count = r[2]
    BY DEF CallInStep
  <2> QED BY <1>4, <1>8, <2>1, ReturnBatch
<1>10. got' \in Seq(Nat)
  <2>1. got \o new \in Seq(Nat)
    BY <1>1, <1>6, ConcatFacts
  <2> QED BY <1>8, <2>1
<1>11. ASSUME decSt' # "lied"
       PROVE  /\ \A i, j \in 1..Len(got') : i < j => got'[i] < got'[j]
              /\ \A i \in 1..Len(got') : got'[i] \in 1..(made' - held')
              /\ decSt' = "open" /\ ~lost' => Len(got') = made' - held'
  <2>1. made' - held' = made - held + a.written
    BY <1>3, <1>11
  <2>2. /\ call.written <= made - held
        /\ \A i, j \in 1..Len(got) : i < j => got[i] < got[j]
        /\ \A i \in 1..Len(got) : got[i] \in 1..base
        /\ ~lost => Len(got) = base
    BY <1>3 DEF SlotsFollowGot
  <2>3. base \in Nat /\ base + total = made - held + a.written
    BY <1>1, <1>4, <2>2
  <2> HIDE DEF base, new
  <2>4. /\ Len(got \o new) = Len(got) + Len(new)
        /\ \A i, j \in 1..Len(got \o new) : i < j => (got \o new)[i] < (got \o new)[j]
        /\ \A i \in 1..Len(got \o new) : (got \o new)[i] \in 1..(base + Len(new))
    BY <1>1, <1>6, <1>7, <2>2, <2>3, AppendRun
  <2>5. base + Len(new) = made' - held'
    BY <1>6, <2>1, <2>3
  <2> HIDE DEF total
  <2>6. Len(new) = total /\ total \in Nat
    BY <1>4, <1>6
  <2>7. ~lost => Len(got \o new) = base + Len(new)
    BY <2>2, <2>4
  <2> QED BY <1>8, <2>4, <2>5, <2>7
<1> QED BY <1>1, <1>3, <1>8, <1>9, <1>10, <1>11, LeaveIInv

\* An accepted streaming answer lets the loop go on.
LEMMA LoopContinuesIInv ==
    ASSUME IInv, pc = "loop", SourceOK', UNCHANGED <<eofSeen, eofRetry>>,
           NEW n \in Nat, NEW a \in Answers(n, Remaining, FALSE),
           DecodeAccepts(a, n, call.index + call.written, Remaining, FALSE),
           LoopContinues(a)
    PROVE  IInv'
<1> USE IInvParts
<1>0. pc # "idle"
  OBVIOUS
<1>1. /\ call.written \in Nat /\ call.count \in Nat /\ Remaining \in Nat
      /\ call.index \in Nat /\ call.index + call.written \in Nat
      /\ call.written + Remaining = call.count
      /\ made \in Nat /\ held \in Nat /\ held <= made /\ consumed \in Nat
      /\ got \in Seq(Nat) /\ lost \in BOOLEAN /\ ~eofRetry /\ ret.tag = "none"
  <2>1. /\ call.written \in Nat /\ call.count \in Nat /\ Remaining \in Nat
        /\ call.index \in Nat /\ call.index + call.written \in Nat
        /\ call.written + Remaining = call.count
        /\ made \in Nat /\ held \in Nat /\ held <= made /\ ~eofRetry /\ ret.tag = "none"
    BY <1>0, CallCounts
  <2>2. consumed \in Nat
    BY Counts
  <2> QED BY <2>1, <2>2 DEF CallOK
<1>2. Accepted(a, n, Remaining, FALSE)
  BY <1>1, DecodeAcceptsFacts
<1>3. /\ DecoderOK' /\ a.written \in 0..Remaining /\ decSt = "open" /\ a.required \in Nat
      /\ decSt' = IF a.honest THEN "open" ELSE "lied"
      /\ a.honest => made' - held' = made - held + a.written
      /\ decLast' = [eof |-> FALSE, tag |-> a.tag]
  BY <1>2 DEF Accepted
<1>4. /\ call.written + a.written < call.count
      /\ pc' \in {"refill", "loop"}
      /\ call' = [call EXCEPT !.written = call.written + a.written, !.need = a.required]
      /\ out' = Slots(a)
      /\ UNCHANGED <<got, lost, ret>>
  BY DEF LoopContinues, resultVars
<1>5. a.written \in Nat /\ call.written + a.written <= call.count
      /\ call.written + a.written \in Nat
  BY <1>1, <1>3, TotalFits
<1>6. /\ call' \in Calls /\ call'.written = call.written + a.written
      /\ call'.count = call.count
  <2>1. call \in Calls
    BY DEF CallOK
  <2> QED BY <1>3, <1>4, <1>5, <2>1 DEF Calls
<1>7. /\ out' \in Seq(Nat) /\ Len(out') = call.count
      /\ \A s \in 1..(call.written + a.written) :
             out'[s] = made - held - call.written + s
  <2>1. /\ Slots(a) \in Seq(Nat) /\ Len(Slots(a)) = call.count
        /\ \A s \in 1..(call.written + a.written) :
               Slots(a)[s] = made - held - call.written + s
    BY <1>0, <1>3, <1>5, SlotsOf
  <2> QED BY <1>4, <2>1
<1>8. CallOK'
  <2>1. call'.written <= call'.count
    BY <1>5, <1>6
  <2> QED BY <1>1, <1>4, <1>6, <1>7, <2>1 DEF CallOK
<1>9. ReturnOK'
  BY <1>4 DEF ReturnOK
<1>10. SlotsFollowGot'
  <2>1. CASE a.honest
    <3>1. /\ call.written <= made - held
          /\ \A i, j \in 1..Len(got) : i < j => got[i] < got[j]
          /\ \A i \in 1..Len(got) : got[i] \in 1..(made - held - call.written)
          /\ ~lost => Len(got) = made - held - call.written
      BY <1>3 DEF SlotsFollowGot
    <3>2. made' - held' - call'.written = made - held - call.written
      <4>1. made' - held' = made - held + a.written
        BY <1>3, <2>1
      <4> QED BY <1>1, <1>5, <1>6, <4>1
    <3>3. call'.written <= made' - held'
      <4>1. made' - held' = made - held + a.written
        BY <1>3, <2>1
      <4> QED BY <1>1, <1>5, <1>6, <3>1, <4>1
    <3>4. \A s \in 1..call'.written : out'[s] = made' - held' - call'.written + s
      BY <1>6, <1>7, <3>2
    <3> QED BY <1>4, <3>1, <3>2, <3>3, <3>4 DEF SlotsFollowGot
  <2>2. CASE ~a.honest
    BY <1>3, <2>2 DEF SlotsFollowGot
  <2> QED BY <2>1, <2>2
<1>11. CallInStep'
  <2>1. call'.written < call'.count /\ Len(out') = call'.count
    BY <1>4, <1>6, <1>7
  <2>2. decSt' \in {"open", "lied"}
    BY <1>3
  <2>3. \E r \in Ranges : call'.count = r[2]
    BY <1>0, <1>6 DEF CallInStep
  <2> QED BY <1>1, <1>4, <2>1, <2>2, <2>3 DEF CallInStep
<1>12. EndIsRemembered'
  BY <1>1, <1>3, NotEndAnswer DEF EndIsRemembered
<1> QED BY <1>3, <1>8, <1>9, <1>10, <1>11, <1>12, PartsIInv

\* A decoder call of the loop fails.
LEMMA LoopFailsIInv ==
    ASSUME IInv, pc # "idle", UNCHANGED <<sourceVars, cap, eofRetry>>, NEW eof \in BOOLEAN,
           DecodeFails(NoFetch, Unread, call.index + call.written, Remaining, eof),
           BatchFails
    PROVE  IInv' /\ decSt' # "open"
<1> USE IInvParts
<1>1. /\ Unread \in Nat /\ Remaining \in Nat /\ call.index + call.written \in Nat
      /\ consumed \in Nat /\ NoFetch.k \in Nat
  BY CallCounts, Counts, NoFetchFacts
<1>2. /\ DecoderOK'
      /\ consumed' = consumed /\ made' = made /\ held' = held
      /\ decSt' # "open"
      /\ decSt' # "lied" => decSt # "lied"
      /\ decLast' = NoAnswer \/ decLast' = decLast
      /\ ret' \in {Return("DecoderError"), Return("InvalidData")}
  BY <1>1, DecodeFailsFacts
<1>3. SourceOK'
  <2>1. 0 \in 0..Unread /\ consumed' = consumed + 0
    BY <1>1, <1>2
  <2> QED BY <2>1, ConsumeSourceOK
<1>4. ReturnOK'
  BY <1>2, ReturnTag
<1>5. EndIsRemembered'
  BY <1>2, NotEndAnswer DEF EndIsRemembered, sourceVars
<1>6. eofRetry' \in BOOLEAN
  BY DEF CallOK
<1> QED BY <1>2, <1>3, <1>4, <1>5, <1>6, BatchFailsIInv

LEMMA LoopDecodesIInv == ASSUME IInv, LoopDecodes PROVE IInv'
<1> USE IInvParts
<1>1. pc = "loop" /\ pc # "idle" /\ UNCHANGED <<sourceVars, cap, eofRetry>>
  BY DEF LoopDecodes
<1>2. /\ Unread \in Nat /\ Remaining \in Nat /\ call.index + call.written \in Nat
      /\ consumed \in Nat /\ ~eofRetry
  BY <1>1, CallCounts, Counts
<1>3. CASE /\ DecodeFails(NoFetch, Unread, call.index + call.written, Remaining, FALSE)
           /\ BatchFails
  BY <1>1, <1>3, LoopFailsIInv
<1>4. ASSUME NEW a \in Answers(Unread, Remaining, FALSE),
             DecodeAccepts(a, Unread, call.index + call.written, Remaining, FALSE),
             LoopContinues(a) \/ LoopReturns(a)
      PROVE  IInv'
  <2>1. Accepted(a, Unread, Remaining, FALSE)
    BY <1>2, <1>4, DecodeAcceptsFacts
  <2>2. a.read \in 0..Unread /\ consumed' = consumed + a.read
        /\ decLast' = [eof |-> FALSE, tag |-> a.tag]
    BY <2>1 DEF Accepted
  <2>3. SourceOK' /\ UNCHANGED <<eofSeen, eofRetry>>
    BY <1>1, <2>2, ConsumeSourceOK DEF sourceVars
  <2>4. EndIsRemembered' /\ eofRetry' \in BOOLEAN
    BY <1>1, <1>2, <2>2, NotEndAnswer DEF EndIsRemembered, CallOK
  <2>5. CASE LoopContinues(a)
    BY <1>1, <1>2, <1>4, <2>3, <2>5, LoopContinuesIInv
  <2>6. CASE LoopReturns(a)
    BY <1>1, <1>2, <1>4, <2>3, <2>4, <2>6, BatchReturnsIInv DEF LoopReturns
  <2> QED BY <1>4, <2>5, <2>6
<1> QED BY <1>3, <1>4 DEF LoopDecodes

LEMMA LoopEndsIInv == ASSUME IInv, LoopEnds PROVE IInv'
<1> USE IInvParts
<1>1. pc = "eof" /\ pc # "idle" /\ UNCHANGED <<sourceVars, cap>>
  BY DEF LoopEnds
<1>2. /\ Unread \in Nat /\ Remaining \in Nat /\ call.index + call.written \in Nat
      /\ consumed \in Nat /\ eofSeen
  BY <1>1, CallCounts, Counts DEF CallInStep
<1>3. CASE /\ DecodeFails(NoFetch, Unread, call.index + call.written, Remaining, TRUE)
           /\ BatchFails /\ UNCHANGED eofRetry
  BY <1>1, <1>3, LoopFailsIInv
<1>4. ASSUME NEW a \in Answers(Unread, Remaining, TRUE),
             DecodeAccepts(a, Unread, call.index + call.written, Remaining, TRUE),
             EofFlag(a), BatchReturns(call.written + a.written, Slots(a))
      PROVE  IInv'
  <2>1. Accepted(a, Unread, Remaining, TRUE)
    BY <1>2, <1>4, DecodeAcceptsFacts
  <2>2. a.read \in 0..Unread /\ consumed' = consumed + a.read
        /\ decLast' = [eof |-> TRUE, tag |-> a.tag]
    BY <2>1 DEF Accepted
  <2>3. SourceOK' /\ eofSeen'
    BY <1>1, <1>2, <2>2, ConsumeSourceOK DEF sourceVars
  <2>4. eofRetry' = (a.tag = "NeedOutput") /\ eofRetry' \in BOOLEAN
    BY <1>4 DEF EofFlag
  <2>5. EndIsRemembered'
    BY <2>2, <2>3, <2>4, NotEndAnswer DEF EndIsRemembered
  <2> QED BY <1>1, <1>2, <1>4, <2>3, <2>4, <2>5, BatchReturnsIInv
<1> QED BY <1>3, <1>4 DEF LoopEnds

\* The loop goes on after a refill, or fails.
LEMMA RefilledIInv ==
    ASSUME IInv, pc # "idle", NEW f, f.k \in 0..Waiting, cap' \in Nat,
           Unread + f.k <= cap', Fetch(f), DecoderWaits(f), consumed' = consumed,
           eofRetry' \in BOOLEAN, eofRetry' => eofRetry /\ f.k = 0,
           f.k = 0 => eofRetry' = eofRetry,
           \/ /\ pc' \in {"loop", "eof"}
              /\ pc' = "eof" => f.res = "end"
              /\ UNCHANGED <<call, out, resultVars, ret>>
           \/ ret' = Return("IoError") /\ BatchFails
    PROVE  IInv'
<1> USE IInvParts
<1>1. /\ Unread \in Nat /\ Waiting \in Nat /\ f.k \in Nat /\ consumed \in Nat
      /\ ~eofRetry
  <2>1. Unread \in Nat /\ Waiting \in Nat /\ consumed \in Nat
    BY Counts
  <2>2. f.k \in Nat
    BY <2>1
  <2>3. ~eofRetry
    BY DEF CallInStep
  <2> QED BY <2>1, <2>2, <2>3
<1>2. DecoderOK' /\ UNCHANGED <<decSt, made, held>>
      /\ (decLast' = [eof |-> TRUE, tag |-> "NeedOutput"] => f.k = 0 /\ decLast' = decLast)
  BY <1>1, WaitsFacts
<1>3. SourceOK' /\ eofSeen' = (f.res = "end" \/ (eofSeen /\ f.k = 0))
  <2>1. 0 \in 0..(Unread + f.k) /\ consumed' = consumed + 0
    BY <1>1
  <2> QED BY <2>1, FetchSourceOK
<1>4. EndIsRemembered'
  BY <1>2, RefillRemembers
<1>5. CASE ret' = Return("IoError") /\ BatchFails
  <2>1. ReturnOK'
    BY <1>5, ReturnTag
  <2> QED BY <1>2, <1>3, <1>4, <1>5, <2>1, BatchFailsIInv
<1>6. CASE /\ pc' \in {"loop", "eof"}
           /\ pc' = "eof" => f.res = "end"
           /\ UNCHANGED <<call, out, resultVars, ret>>
  <2>1. UNCHANGED <<call, out, got, lost, ret>>
    BY <1>6 DEF resultVars
  <2>2. ReturnOK'
    BY <2>1 DEF ReturnOK
  <2>3. CallOK'
    BY <1>6, <2>1 DEF CallOK
  <2>4. SlotsFollowGot'
    BY <1>2, <2>1, SlotsKeep
  <2>5. CallInStep'
    <3>1. pc' # "idle" /\ ~eofRetry' /\ (pc' = "eof" => eofSeen')
      BY <1>1, <1>3, <1>6
    <3> QED BY <1>2, <2>1, <3>1 DEF CallInStep
  <2> QED BY <1>2, <1>3, <1>4, <2>2, <2>3, <2>4, <2>5, PartsIInv
<1> QED BY <1>5, <1>6

LEMMA LoopFillsIInv == ASSUME IInv, LoopFills PROVE IInv'
<1> USE IInvParts
<1>1. PICK f \in FillMore(0, cap, Waiting) :
          /\ Fetch(f) /\ FillMoreFlag(f) /\ DecoderWaits(f)
          /\ \/ f.res = "more" /\ UNCHANGED <<callVars, resultVars, ret>>
             \/ f.res = "end" /\ pc' = "eof" /\ UNCHANGED <<call, out, resultVars, ret>>
             \/ f.res = "error" /\ ret' = Return("IoError") /\ BatchFails
  BY DEF LoopFills
<1>2. pc = "loop" /\ pc # "idle" /\ Unread = 0 /\ consumed' = consumed /\ cap' = cap
  BY DEF LoopFills
<1>3. Waiting \in Nat /\ cap \in Nat /\ eofRetry \in BOOLEAN
  BY Counts DEF CallOK
<1>4. /\ f.k \in 0..Waiting
      /\ 0 + f.k <= cap
      /\ f.res = "more" => f.k > 0
      /\ f.res # "more" => f.k = 0
  BY <1>3, FillMoreFacts
<1>5. f.k \in Nat
  BY <1>3, <1>4
<1>6. /\ eofRetry' \in BOOLEAN
      /\ eofRetry' => eofRetry /\ f.k = 0
      /\ f.k = 0 => eofRetry' = eofRetry
  BY <1>1, <1>3, <1>4, <1>5, FillMoreFlagFacts
<1>7. cap' \in Nat /\ Unread + f.k <= cap'
  BY <1>2, <1>3, <1>4
<1>8. \/ /\ pc' \in {"loop", "eof"}
         /\ pc' = "eof" => f.res = "end"
         /\ UNCHANGED <<call, out, resultVars, ret>>
      \/ ret' = Return("IoError") /\ BatchFails
  BY <1>1, <1>2 DEF callVars
<1> QED BY <1>1, <1>2, <1>4, <1>6, <1>7, <1>8, RefilledIInv

\* fill_until after the buffer has grown.
LEMMA GrownFillFacts ==
    ASSUME SourceOK, eofRetry \in BOOLEAN, NEW count \in Nat, cap' = Grown(count),
           NEW f \in FillUntil(Unread, Grown(count), Waiting, count)
    PROVE  /\ f.k \in 0..Waiting /\ f.k \in Nat
           /\ f.res \in {"more", "end", "error"}
           /\ cap' \in Nat /\ Unread + f.k <= cap'
<1>1. Unread \in Nat /\ Waiting \in Nat /\ cap \in Nat /\ Unread <= cap
  BY Counts
<1>2. Grown(count) \in Nat /\ cap <= Grown(count) /\ count <= Grown(count)
  BY GrownFacts
<1>3. Unread <= Grown(count)
  BY <1>1, <1>2
<1>4. /\ f.k \in 0..Waiting
      /\ Unread + f.k <= Grown(count)
      /\ f.res \in {"more", "end", "error"}
  BY <1>1, <1>2, <1>3, FillUntilFacts
<1> QED BY <1>1, <1>2, <1>4

LEMMA LoopRefillsIInv == ASSUME IInv, LoopRefills PROVE IInv'
<1> USE IInvParts
<1>1. pc = "refill" /\ pc # "idle"
  BY DEF LoopRefills
<1>2. call.need \in Nat /\ eofRetry \in BOOLEAN
  BY <1>1, CallCounts DEF CallOK
<1>3. CASE /\ ret' = Return("OutOfMemory")
           /\ BatchFails
           /\ UNCHANGED <<sourceVars, adapterVars, decoderVars>>
  <2>1. UNCHANGED <<arrived, fetched, eofSeen, consumed, cap, eofRetry, decSt, decNext,
                    decLast, made, held>>
    BY <1>3 DEF sourceVars, adapterVars, bufferVars, decoderVars
  <2>2. SourceOK' /\ DecoderOK' /\ EndIsRemembered' /\ eofRetry' \in BOOLEAN
    BY <1>2, <2>1 DEF SourceOK, Unread, DecoderOK, EndIsRemembered
  <2>3. ReturnOK'
    BY <1>3, ReturnTag
  <2> QED BY <1>1, <1>3, <2>1, <2>2, <2>3, BatchFailsIInv
<1>4. ASSUME cap' = Grown(call.need), consumed' = consumed,
             NEW f \in FillUntil(Unread, Grown(call.need), Waiting, call.need),
             Fetch(f), FillUntilFlag(f), DecoderWaits(f),
             \/ f.res = "more" /\ pc' = "loop" /\ UNCHANGED <<call, out, resultVars, ret>>
             \/ f.res = "end" /\ pc' = "eof" /\ UNCHANGED <<call, out, resultVars, ret>>
             \/ f.res = "error" /\ ret' = Return("IoError") /\ BatchFails
      PROVE  IInv'
  <2>1. f.k \in 0..Waiting /\ cap' \in Nat /\ Unread + f.k <= cap'
    BY <1>2, <1>4, GrownFillFacts
  <2>2. /\ eofRetry' \in BOOLEAN
        /\ eofRetry' => eofRetry /\ f.k = 0
        /\ f.k = 0 => eofRetry' = eofRetry
    BY <1>2, <1>4, FillUntilFlagFacts
  <2>3. \/ /\ pc' \in {"loop", "eof"}
           /\ pc' = "eof" => f.res = "end"
           /\ UNCHANGED <<call, out, resultVars, ret>>
        \/ ret' = Return("IoError") /\ BatchFails
    BY <1>4
  <2> QED BY <1>1, <1>4, <2>1, <2>2, <2>3, RefilledIInv
<1> QED BY <1>3, <1>4 DEF LoopRefills

----------------------------------------------------------------------------
(* The operations that go past the decoder.                                *)

LEMMA FillUntilCallIInv == ASSUME IInv, FillUntilCall PROVE IInv'
<1> USE IInvParts
<1>1. pc = "idle" /\ UNCHANGED <<callVars, resultVars>>
  BY DEF FillUntilCall
<1>2. PICK count \in 0..MaxNeed :
          \/ /\ ret' = Return("OutOfMemory")
             /\ UNCHANGED <<sourceVars, adapterVars, decoderVars>>
          \/ /\ cap' = Grown(count)
             /\ \E f \in FillUntil(Unread, Grown(count), Waiting, count) :
                   /\ Fetch(f)
                   /\ FillUntilFlag(f)
                   /\ DecoderWaits(f)
                   /\ Refilled(f)
             /\ UNCHANGED consumed
  BY DEF FillUntilCall
<1>3. count \in Nat /\ eofRetry \in BOOLEAN /\ consumed \in Nat
  BY Counts, DecodeBridgeAssumption DEF CallOK
<1>4. CASE /\ ret' = Return("OutOfMemory")
           /\ UNCHANGED <<sourceVars, adapterVars, decoderVars>>
  BY <1>1, <1>4, ReturnTag, SameIInv
<1>5. ASSUME cap' = Grown(count), consumed' = consumed,
             NEW f \in FillUntil(Unread, Grown(count), Waiting, count),
             Fetch(f), FillUntilFlag(f), DecoderWaits(f), Refilled(f)
      PROVE  IInv'
  <2>1. /\ f.k \in 0..Waiting /\ f.k \in Nat /\ cap' \in Nat /\ Unread + f.k <= cap'
        /\ f.res \in {"more", "end", "error"}
    BY <1>3, <1>5, GrownFillFacts
  <2>2. /\ eofRetry' \in BOOLEAN
        /\ eofRetry' => eofRetry /\ f.k = 0
        /\ f.k = 0 => eofRetry' = eofRetry
    BY <1>3, <1>5, FillUntilFlagFacts
  <2>3. DecoderOK' /\ UNCHANGED <<decSt, made, held>>
        /\ (decLast' = [eof |-> TRUE, tag |-> "NeedOutput"] => f.k = 0 /\ decLast' = decLast)
    BY <1>5, <2>1, WaitsFacts
  <2>4. SourceOK'
    <3>1. 0 \in 0..(Unread + f.k) /\ consumed' = consumed + 0
      BY <1>3, <1>5, <2>1, Counts
    <3> QED BY <1>5, <2>1, <3>1, FetchSourceOK
  <2>5. EndIsRemembered'
    BY <1>5, <2>2, <2>3, RefillRemembers
  <2>6. ReturnOK'
    <3>1. \/ ret' = Return("Filled") \/ ret' = Return("EndOfInput")
          \/ ret' = Return("IoError")
      BY <1>5, <2>1 DEF Refilled
    <3> QED BY <3>1, ReturnTag
  <2>7. UNCHANGED <<call, out, got, lost>>
    BY <1>1 DEF callVars, resultVars
  <2>8. SlotsFollowGot'
    BY <2>3, <2>7, SlotsKeep
  <2> QED BY <1>1, <2>2, <2>3, <2>4, <2>5, <2>6, <2>7, <2>8, IdleIInv DEF CallOK
<1> QED BY <1>2, <1>4, <1>5

\* Units went past the decoder; eof_retry_pending is cleared, or was left with
\* the source as it is.
LEMMA PassedByIInv ==
    ASSUME IInv, pc = "idle", UNCHANGED <<callVars, resultVars>>, DecoderPassedBy,
           SourceOK', ReturnOK', eofRetry' = FALSE \/ UNCHANGED <<eofRetry, eofSeen>>
    PROVE  IInv'
<1> USE IInvParts
<1>1. /\ DecoderOK'
      /\ decLast' = NoAnswer /\ UNCHANGED <<made, held>>
      /\ decSt' # "lied" => decSt # "lied"
      /\ decSt' # "open"
  BY PassedByFacts
<1>2. UNCHANGED <<call, out, got, lost>>
  BY DEF callVars, resultVars
<1>3. SlotsFollowGot'
  BY <1>1, <1>2, SlotsKeep
<1>4. EndIsRemembered' /\ eofRetry' \in BOOLEAN
  <2>1. decLast' # [eof |-> TRUE, tag |-> "NeedOutput"]
    BY <1>1, NotEndAnswer
  <2>2. CASE eofRetry' = FALSE
    BY <2>1, <2>2 DEF EndIsRemembered
  <2>3. CASE UNCHANGED <<eofRetry, eofSeen>>
    BY <2>1, <2>3 DEF EndIsRemembered, CallOK
  <2> QED BY <2>2, <2>3
<1> QED BY <1>1, <1>2, <1>3, <1>4, IdleIInv DEF CallOK

LEMMA ConsumeIInv == ASSUME IInv, Consume PROVE IInv'
<1> USE IInvParts
<1>1. pc = "idle" /\ UNCHANGED <<sourceVars, cap, eofRetry, callVars, resultVars>>
  BY DEF Consume
<1>2. CASE ret' = Return("Panic") /\ UNCHANGED <<consumed, decoderVars>>
  <2>1. UNCHANGED adapterVars
    BY <1>1, <1>2 DEF adapterVars, bufferVars
  <2> QED BY <1>1, <1>2, <2>1, ReturnTag, SameIInv
<1>3. ASSUME NEW k \in 1..Unread, consumed' = consumed + k, DecoderPassedBy,
             ret' = Return("RawOk")
      PROVE  IInv'
  <2>1. k \in 0..Unread
    BY Counts
  <2>2. SourceOK'
    BY <1>1, <1>3, <2>1, ConsumeSourceOK
  <2> QED BY <1>1, <1>3, <2>2, ReturnTag, PassedByIInv DEF sourceVars
<1> QED BY <1>2, <1>3 DEF Consume, ConsumeBody

LEMMA RawReadIInv == ASSUME IInv, RawRead PROVE IInv'
<1> USE IInvParts
<1>1. /\ pc = "idle" /\ eofRetry' = FALSE /\ DecoderPassedBy
      /\ UNCHANGED <<callVars, resultVars>>
  BY DEF RawRead
<1>2. Unread \in Nat /\ Waiting \in Nat /\ cap \in Nat
  BY Counts
<1>3. ASSUME NEW k \in 1..Unread, consumed' = consumed + k, ret' = Return("RawOk"),
             UNCHANGED <<sourceVars, cap>>
      PROVE  IInv'
  <2>1. k \in 0..Unread
    BY <1>2
  <2>2. SourceOK'
    BY <1>3, <2>1, ConsumeSourceOK
  <2> QED BY <1>1, <1>3, <2>2, ReturnTag, PassedByIInv
<1>4. ASSUME Unread = 0, NEW f \in FillMore(0, cap, Waiting), Fetch(f), cap' = cap,
             NEW k \in 0..f.k, consumed' = consumed + k,
             ret' = Return(IF f.res = "error" THEN "IoError" ELSE "RawOk")
      PROVE  IInv'
  <2>1. f.k \in 0..Waiting /\ 0 + f.k <= cap
    BY <1>2, FillMoreFacts
  <2>2. Unread + f.k <= cap' /\ cap' \in Nat /\ k \in 0..(Unread + f.k)
    BY <1>2, <1>4, <2>1
  <2>3. SourceOK'
    BY <1>4, <2>1, <2>2, FetchSourceOK
  <2>4. ret' = Return("IoError") \/ ret' = Return("RawOk")
    BY <1>4
  <2> QED BY <1>1, <2>3, <2>4, ReturnTag, PassedByIInv
<1> QED BY <1>3, <1>4 DEF RawRead

LEMMA SeekIInv == ASSUME IInv, Seek PROVE IInv'
<1> USE IInvParts
<1>1. pc = "idle" /\ UNCHANGED <<arrived, cap, callVars, resultVars>>
  BY DEF Seek
<1>2. ASSUME NEW p \in 0..arrived, fetched' = p, consumed' = p, eofSeen' = FALSE,
             eofRetry' = FALSE, DecoderPassedBy, ret' = Return("RawOk")
      PROVE  IInv'
  <2>1. /\ arrived \in 0..StreamLen /\ cap \in Nat /\ p \in Nat /\ p <= arrived
        /\ arrived \in Nat
    BY DecodeBridgeAssumption DEF SourceOK
  <2>2. p \in 0..p /\ p - p <= cap
    BY <2>1
  <2>3. SourceOK'
    BY <1>1, <1>2, <2>1, <2>2 DEF SourceOK, Unread
  <2> QED BY <1>1, <1>2, <2>3, ReturnTag, PassedByIInv
<1>3. CASE /\ ret' = Return("IoError")
           /\ UNCHANGED <<fetched, eofSeen, consumed, eofRetry, decoderVars>>
  <2>1. UNCHANGED <<sourceVars, adapterVars>>
    BY <1>1, <1>3 DEF sourceVars, adapterVars, bufferVars
  <2> QED BY <1>1, <1>3, <2>1, ReturnTag, SameIInv
<1> QED BY <1>2, <1>3 DEF Seek

LEMMA ReadDecodedIInv == ASSUME IInv, ReadDecoded PROVE IInv'
<1> USE IInvParts
<1>1. pc = "idle" /\ UNCHANGED <<callVars, resultVars>>
  BY DEF ReadDecoded
<1>2. CASE ret' = Return("InvalidInput") /\ UNCHANGED <<sourceVars, adapterVars, decoderVars>>
  BY <1>1, <1>2, ReturnTag, SameIInv
<1>3. ASSUME NEW count \in 1..MaxNeed, eofRetry' = FALSE, cap' = Grown(count),
             DecoderPassedBy, ret' = Return("ValueOk"),
             NEW f \in FillUntil(Unread, Grown(count), Waiting, count), Fetch(f),
             NEW k \in 0..(Unread + f.k), consumed' = consumed + k
      PROVE  IInv'
  <2>1. count \in Nat /\ eofRetry \in BOOLEAN
    BY DecodeBridgeAssumption DEF CallOK
  <2>2. f.k \in 0..Waiting /\ cap' \in Nat /\ Unread + f.k <= cap'
    BY <1>3, <2>1, GrownFillFacts
  <2>3. SourceOK'
    BY <1>3, <2>2, FetchSourceOK
  <2> QED BY <1>1, <1>3, <2>3, ReturnTag, PassedByIInv
<1> QED BY <1>2, <1>3 DEF ReadDecoded

----------------------------------------------------------------------------
LEMMA NextIInv == IInv /\ [Next]_vars => IInv'
<1> SUFFICES ASSUME IInv, [Next]_vars PROVE IInv'
  OBVIOUS
<1>1. CASE UNCHANGED vars
  BY <1>1 DEF vars, sourceVars, adapterVars, bufferVars, decoderVars, callVars, resultVars,
              IInv, TypeOK, Unread, SlotsFollowGot, CallInStep, EndIsRemembered
<1>2. CASE Next
  BY <1>2, ArriveIInv, ResetIInv, FinishIInv, TranscodeStepIInv, TranscodeEofStepIInv,
     TranscodeIInv, LoopFillsIInv, LoopDecodesIInv, LoopRefillsIInv, LoopEndsIInv,
     FillUntilCallIInv, ConsumeIInv, RawReadIInv, SeekIInv, ReadDecodedIInv DEF Next
<1> QED BY <1>1, <1>2

\* The invariant holds of every behaviour of the bridge
\* (transcode_decode_input.rs): whatever steps, batches, refills, raw reads and
\* seeks are mixed, whatever the source and the decoder do.
THEOREM InductiveInvariant == Spec => []IInv
  BY InitIInv, NextIInv, PTL DEF Spec

\* Types, and what validation protects: no report of a decoder takes more
\* units out of the buffer than were read into it, or tells the caller of more
\* values than the call had slots for (transcode_progress_validation.rs,
\* consume).
THEOREM TypeCorrect == Spec => []TypeOK
<1>1. IInv => TypeOK
  BY DEF IInv
<1> QED BY <1>1, InductiveInvariant, PTL

\* An open decoder sees every unit once and in order, and the caller is told
\* of every value once and in order; only a failed batch call loses values
\* (transcode, transcode_step and transcode_eof_step).
THEOREM InOrder == Spec => []DeliveredInOrder
<1>1. ASSUME IInv PROVE DeliveredInOrder
  <2> USE <1>1, IInvParts
  <2>1. decSt = "open" => decNext = consumed
    BY DEF DecoderOK
  <2>2. ASSUME decSt # "lied"
        PROVE  /\ \A i, j \in 1..Len(got) : i < j => got[i] < got[j]
               /\ \A i \in 1..Len(got) : got[i] \in 1..(made - held)
               /\ pc = "idle" /\ decSt = "open" /\ ~lost => Len(got) = made - held
    <3>1. /\ call.written <= made - held
          /\ \A i, j \in 1..Len(got) : i < j => got[i] < got[j]
          /\ \A i \in 1..Len(got) : got[i] \in 1..(made - held - call.written)
      BY <2>2 DEF SlotsFollowGot
    <3>2. made \in Nat /\ held \in Nat /\ held <= made /\ call.written \in Nat
      BY DecodeBridgeAssumption DEF DecoderOK, CallOK, Calls
    <3>3. 1..(made - held - call.written) \subseteq 1..(made - held)
      BY <3>1, <3>2, MoreRoom
    <3>4. pc = "idle" /\ decSt = "open" /\ ~lost => Len(got) = made - held
      BY <2>2, <3>2, IdleSlots
    <3> QED BY <3>1, <3>3, <3>4
  <2> QED BY <2>1, <2>2 DEF DeliveredInOrder
<1> QED BY <1>1, InductiveInvariant, PTL

\* eof_retry_pending is never stale, the batch announces the end of input only
\* after the source reported it, and goes on announcing it to a decoder that
\* ran out of output there.
THEOREM EndKept == Spec => BatchKeepsEndOfInput
<1>1. ASSUME IInv
      PROVE  /\ eofRetry \/ LoopEnds => eofSeen
             /\ LoopDecodes => decLast # [eof |-> TRUE, tag |-> "NeedOutput"]
  <2>1. CallInStep /\ EndIsRemembered
    BY <1>1, IInvParts
  <2>2. LoopEnds => pc = "eof"
    BY DEF LoopEnds
  <2>3. LoopDecodes => pc = "loop"
    BY DEF LoopDecodes
  <2> QED BY <2>1, <2>2, <2>3 DEF CallInStep, EndIsRemembered
<1> QED BY <1>1, InductiveInvariant, PTL DEF BatchKeepsEndOfInput

\* The batch call returns short only for want of output, or at the end of
\* input with no unit and no value left behind (doc of transcode).
THEOREM ShortReturns == Spec => ShortReturnIsExplained
<1> DEFINE Short == pc # "idle" /\ decSt' = "open" /\ ret'.tag = "BatchOk"
                      /\ ret'.written < call.count
           Explained == \/ decLast'.tag = "NeedOutput"
                        \/ /\ decLast' = [eof |-> TRUE, tag |-> "Complete"]
                           /\ eofSeen /\ Unread' = 0 /\ held' = 0
<1>1. ASSUME IInv, Next, Short PROVE Explained
  <2> USE <1>1, IInvParts
  <2>1. /\ Unread \in Nat /\ Remaining \in Nat /\ call.index + call.written \in Nat
        /\ consumed \in Nat /\ fetched \in Nat /\ ret.tag = "none"
        /\ call.written \in Nat /\ call.count \in Nat
        /\ call.written + Remaining = call.count
    BY CallCounts, Counts
  <2>2. ret' # ret
    BY <2>1
  <2>3. ret' # Return("IoError") /\ ret' # Return("OutOfMemory")
    BY DEF Return, Progress
  <2>4. ~Arrive /\ ~LoopFills /\ ~LoopRefills
    BY <2>2, <2>3 DEF Arrive, SourceGrows, LoopFills, LoopRefills
  <2>5. LoopDecodes \/ LoopEnds
    BY <2>4 DEF Next, Reset, Finish, TranscodeStep, TranscodeEofStep, Transcode,
                FillUntilCall, Consume, RawRead, Seek, ReadDecoded
  <2>6. CASE LoopDecodes
    <3>1. UNCHANGED <<sourceVars, cap, eofRetry>>
      BY <2>6 DEF LoopDecodes
    <3>2. ~(/\ DecodeFails(NoFetch, Unread, call.index + call.written, Remaining, FALSE)
            /\ BatchFails)
      BY <3>1, LoopFailsIInv
    <3>3. PICK a \in Answers(Unread, Remaining, FALSE) :
             /\ DecodeAccepts(a, Unread, call.index + call.written, Remaining, FALSE)
             /\ LoopContinues(a) \/ LoopReturns(a)
      BY <2>6, <3>2 DEF LoopDecodes
    <3>4. Accepted(a, Unread, Remaining, FALSE)
      BY <2>1, <3>3, DecodeAcceptsFacts
    <3>5. LoopReturns(a)
      BY <2>2, <3>3 DEF LoopContinues
    <3>6. ret'.written = call.written + a.written
      BY <3>5 DEF LoopReturns, BatchReturns, Wrote, Progress
    <3>7. a.tag = "NeedOutput"
      <4>1. a.written \in Nat
        BY <2>1, <3>4 DEF Accepted
      <4> QED BY <2>1, <3>5, <3>6, <4>1 DEF LoopReturns
    <3> QED BY <3>4, <3>7 DEF Accepted
  <2>7. CASE LoopEnds
    <3>1. pc = "eof" /\ UNCHANGED <<sourceVars, cap>>
      BY <2>7 DEF LoopEnds
    <3>2. ~(/\ DecodeFails(NoFetch, Unread, call.index + call.written, Remaining, TRUE)
            /\ BatchFails /\ UNCHANGED eofRetry)
      BY <3>1, LoopFailsIInv
    <3>3. PICK a \in Answers(Unread, Remaining, TRUE) :
             DecodeAccepts(a, Unread, call.index + call.written, Remaining, TRUE)
      BY <2>7, <3>2 DEF LoopEnds
    <3>4. Accepted(a, Unread, Remaining, TRUE)
      BY <2>1, <3>3, DecodeAcceptsFacts
    <3>5. /\ a.tag \in {"Complete", "NeedOutput"} /\ a.honest
          /\ decLast' = [eof |-> TRUE, tag |-> a.tag]
          /\ consumed' = consumed + a.read
          /\ a.tag = "Complete" => a.read = Unread /\ held' = 0
      BY <3>4 DEF Accepted, ProgressTags
    <3>6. eofSeen /\ fetched' = fetched
      BY <3>1 DEF CallInStep, sourceVars
    <3>7. a.tag = "Complete" => Unread' = 0
      BY <2>1, <3>5, <3>6 DEF Unread
    <3> QED BY <3>5, <3>6, <3>7
  <2> QED BY <2>5, <2>6, <2>7
<1>2. IInv /\ [Next]_vars => [Short => Explained]_vars
  BY <1>1
<1> QED BY <1>2, InductiveInvariant, PTL DEF Spec, ShortReturnIsExplained

----------------------------------------------------------------------------
(* AsyncDecodeInput: futures that are polled and dropped.                  *)

Futures == [kind : Kinds \cup {"none"}, range : Ranges \cup {NoRange}, count : 0..MaxNeed]

AsyncReturns == [tag : AsyncTags, required : Nat, read : Nat, written : Nat]

AsyncReturnOK == ret \in AsyncReturns

\* The caller of a future, and what it knows of the values.
CallerOK == fut \in Futures /\ need \in 0..MaxNeed

Told ==
    /\ got \in Seq(Nat)
    /\ decSt = "open" => got = [i \in 1..(made - held) |-> i]

LEMMA AsyncParts ==
    ASSUME AsyncIInv
    PROVE  SourceOK /\ DecoderOK /\ CallerOK /\ AsyncReturnOK /\ Told
  BY DEF AsyncIInv, CancellationIsSafe, AsyncTypeOK, SourceOK, DecoderOK, CallerOK,
         AsyncReturnOK, Told, Futures, AsyncReturns

LEMMA PartsAsync ==
    ASSUME SourceOK', DecoderOK', CallerOK', AsyncReturnOK', Told'
    PROVE  AsyncIInv'
  BY DEF AsyncIInv, CancellationIsSafe, AsyncTypeOK, SourceOK, DecoderOK, CallerOK,
         AsyncReturnOK, Told, Futures, AsyncReturns

\* What a call returns, and what it leaves the caller to provide.
LEMMA AsyncReturnPlain ==
    ASSUME NEW t \in AsyncTags, NEW q \in Nat, NEW k \in Nat, NEW w \in Nat,
           ret' = Progress(t, q, k, w)
    PROVE  AsyncReturnOK' /\ ret'.tag = t /\ ret'.required = q
  BY DEF Progress, AsyncReturns, AsyncReturnOK

LEMMA AsyncReturnTag ==
    ASSUME NEW t \in {"none", "Pending", "Filled", "EndOfInput", "RawOk", "Panic",
                      "InvalidInput", "InvalidData", "IoError", "OutOfMemory",
                      "DecoderError"},
           ret' = Return(t)
    PROVE  AsyncReturnOK' /\ ret'.tag = t /\ t # "NeedInput"
<1>1. t \in AsyncTags /\ t # "NeedInput"
  BY DEF AsyncTags, IoFailures
<1> QED BY <1>1, AsyncReturnPlain DEF Return

LEMMA NeedsKept ==
    ASSUME CallerOK, Needs, ret'.tag # "NeedInput"
    PROVE  need' \in 0..MaxNeed
<1>1. need' = need \/ need' = 0
  BY DEF Needs
<1> QED BY <1>1, DecodeBridgeAssumption DEF CallerOK

\* Every report that asks for units, a lie or not, asks for few enough.
LEMMA NeedInputFacts ==
    ASSUME NEW n \in Nat, NEW m \in Nat, NEW eof \in BOOLEAN, NEW a \in Answers(n, m, eof),
           a.tag = "NeedInput"
    PROVE  a.required \in 0..MaxNeed
<1> USE DecodeBridgeAssumption
<1>1. CASE a \in Dishonest(n, m)
  <2>1. \E t \in ProgressTags, q \in 1..MaxNeed, r \in 0..(n + 1), w \in 0..(m + 1) :
             a = Report(t, q, r, w, 0, FALSE)
    BY <1>1 DEF Dishonest
  <2> QED BY <2>1 DEF Report
<1>2. CASE a \in Honest(n, m, eof)
  <2>1. \/ \E w \in 0..m, k \in 0..n : a = Report("Complete", 0, n, w, k, TRUE)
        \/ \E r \in 0..n, w \in 0..m, k \in 0..n, q \in 1..MaxNeed :
             a = Report("NeedInput", q, r, w, k, TRUE)
        \/ \E r \in 0..n, w \in 0..m, k \in 0..n, q \in 1..MaxRoom :
             a = Report("NeedOutput", q, r, w, k, TRUE)
    BY <1>2 DEF Honest
  <2>2. \E r \in 0..n, w \in 0..m, k \in 0..n, q \in 1..MaxNeed :
             a = Report("NeedInput", q, r, w, k, TRUE)
    BY <2>1 DEF Report
  <2> QED BY <2>2 DEF Report
<1> QED BY <1>1, <1>2 DEF Answers

\* The caller's values are a run that goes on with the next ones.
LEMMA RunFacts ==
    ASSUME NEW n \in Nat, NEW g, g = [i \in 1..n |-> i]
    PROVE  g \in Seq(Nat) /\ Len(g) = n /\ \A i \in 1..n : g[i] = i
<1>1. g \in [1..n -> Nat] /\ DOMAIN g = 1..n /\ \A i \in 1..n : g[i] = i
  OBVIOUS
<1>2. g \in Seq(Nat)
  BY <1>1, SeqDef
<1> QED BY <1>1, <1>2, LenProperties

LEMMA RunGrows ==
    ASSUME NEW n \in Nat, NEW w \in Nat,
           NEW g \in Seq(Nat), Len(g) = n, \A i \in 1..n : g[i] = i,
           NEW v \in Seq(Nat), Len(v) = w, \A i \in 1..w : v[i] = n + i
    PROVE  g \o v = [i \in 1..(n + w) |-> i]
<1> DEFINE h == g \o v
<1>1. /\ h \in Seq(Nat) /\ Len(h) = n + w
      /\ \A i \in 1..(n + w) : h[i] = IF i <= n THEN g[i] ELSE v[i - n]
  BY ConcatProperties
<1> HIDE DEF h
<1>2. \A i \in 1..(n + w) : h[i] = i
  <2> TAKE i \in 1..(n + w)
  <2>1. CASE i <= n
    <3>1. i \in 1..n
      BY <2>1
    <3> QED BY <1>1, <2>1, <3>1
  <2>2. CASE i > n
    <3>1. i - n \in 1..w
      BY <2>2
    <3>2. v[i - n] = n + (i - n)
      BY <3>1
    <3> QED BY <1>1, <2>2, <3>2
  <2> QED BY <2>1, <2>2
<1>3. h = [i \in 1..(n + w) |-> h[i]]
  BY <1>1, LenProperties
<1> QED BY <1>2, <1>3 DEF h

\* A step that tells the caller nothing new.
LEMMA ToldKeeps ==
    ASSUME Told, got' = got, made' = made, held' = held, decSt' = "open" => decSt = "open"
    PROVE  Told'
  BY DEF Told

\* An accepted answer is told.
LEMMA ToldGrows ==
    ASSUME Told, DecoderOK, NEW a, NEW n, NEW m \in Nat, NEW eof \in BOOLEAN,
           Accepted(a, n, m, eof), got' = got \o Values(a)
    PROVE  Told'
<1>1. /\ made \in Nat /\ held \in Nat /\ held <= made /\ a.written \in Nat
      /\ made - held \in Nat /\ decSt = "open"
      /\ decSt' = "open" => a.honest
      /\ a.honest => made' - held' = made - held + a.written
  BY DecodeBridgeAssumption DEF DecoderOK, Accepted
<1>2. got \in Seq(Nat) /\ got = [i \in 1..(made - held) |-> i]
  BY <1>1 DEF Told
<1>3. /\ Values(a) \in Seq(Nat) /\ Len(Values(a)) = a.written
      /\ a.honest => \A i \in 1..a.written : Values(a)[i] = made - held + i
  BY <1>1, ValuesFacts
<1>4. got' \in Seq(Nat)
  BY <1>2, <1>3, ConcatFacts
<1>5. Len(got) = made - held /\ \A i \in 1..(made - held) : got[i] = i
  BY <1>1, <1>2, RunFacts
<1>6. a.honest => got' = [i \in 1..(made - held + a.written) |-> i]
  BY <1>1, <1>2, <1>3, <1>5, RunGrows
<1> QED BY <1>1, <1>4, <1>6 DEF Told

----------------------------------------------------------------------------
LEMMA AsyncInitIInv == AsyncInit => AsyncIInv
<1> SUFFICES ASSUME AsyncInit PROVE AsyncIInv
  OBVIOUS
<1> USE DecodeBridgeAssumption
<1>1. /\ arrived \in 0..StreamLen /\ fetched = 0 /\ eofSeen = FALSE /\ consumed = 0
      /\ cap = FirstCap /\ decSt = "new" /\ decNext = 0 /\ decLast = NoAnswer
      /\ made = 0 /\ held = 0 /\ got = <<>> /\ ret = Return("none")
      /\ fut = NoFuture /\ need = 0
  BY DEF AsyncInit, BridgeInit
<1>2. SourceOK
  <2>1. fetched \in 0..arrived /\ consumed \in 0..fetched /\ Unread <= cap
    BY <1>1 DEF Unread
  <2> QED BY <1>1, <2>1 DEF SourceOK
<1>3. DecoderOK
  <2>1. decLast \in [eof : BOOLEAN, tag : {"none"} \cup ProgressTags]
    BY <1>1 DEF NoAnswer
  <2>2. held \in 0..MaxHeld /\ made \in Nat /\ held <= made /\ decNext \in Nat
    BY <1>1
  <2>3. decSt \in {"new", "open", "done", "broken", "lied", "stale"} /\ decSt # "open"
    BY <1>1
  <2> QED BY <2>1, <2>2, <2>3 DEF DecoderOK
<1>4. CallerOK
  BY <1>1 DEF CallerOK, NoFuture, Future, Futures
<1>5. AsyncReturnOK
  BY <1>1 DEF Return, Progress, AsyncReturns, AsyncTags, AsyncReturnOK
<1>6. Told
  BY <1>1, EmptySeq DEF Told
<1> QED BY <1>2, <1>3, <1>4, <1>5, <1>6
        DEF AsyncIInv, CancellationIsSafe, AsyncTypeOK, SourceOK, DecoderOK, CallerOK,
            AsyncReturnOK, Told, Futures, AsyncReturns

LEMMA AsyncArriveIInv == ASSUME AsyncIInv, AsyncArrive PROVE AsyncIInv'
<1> USE AsyncParts
<1>1. /\ arrived < StreamLen /\ arrived' = arrived + 1
      /\ UNCHANGED <<fetched, eofSeen, consumed, cap, decSt, decNext, decLast, made, held,
                     got, ret, fut, need>>
  BY DEF AsyncArrive, SourceGrows, bufferVars, decoderVars, callerVars
<1>2. SourceOK'
  <2>1. /\ arrived \in Nat /\ fetched \in Nat /\ fetched <= arrived
        /\ consumed \in 0..fetched /\ eofSeen \in BOOLEAN /\ cap \in Nat
        /\ fetched - consumed <= cap /\ StreamLen \in Nat
    BY DecodeBridgeAssumption DEF SourceOK, Unread
  <2>2. arrived + 1 \in 0..StreamLen /\ fetched \in 0..(arrived + 1)
    BY <1>1, <2>1
  <2> QED BY <1>1, <2>1, <2>2 DEF SourceOK, Unread
<1>3. DecoderOK' /\ CallerOK' /\ AsyncReturnOK' /\ Told'
  BY <1>1 DEF DecoderOK, CallerOK, AsyncReturnOK, Told
<1> QED BY <1>2, <1>3, PartsAsync

\* The source and the buffer as they were.
LEMMA SourceKept ==
    ASSUME SourceOK, UNCHANGED <<sourceVars, bufferVars>>
    PROVE  SourceOK'
  BY DEF SourceOK, sourceVars, bufferVars, Unread

LEMMA DecoderKept ==
    ASSUME DecoderOK, UNCHANGED <<decoderVars, consumed>>
    PROVE  DecoderOK'
  BY DEF DecoderOK, decoderVars

\* A call that changes nothing but what it returned and the future.
LEMMA AsyncSameIInv ==
    ASSUME AsyncIInv, UNCHANGED <<sourceVars, bufferVars, decoderVars, got>>,
           fut' \in Futures, need' \in 0..MaxNeed, AsyncReturnOK'
    PROVE  AsyncIInv'
<1>1. SourceOK' /\ DecoderOK' /\ Told'
  BY AsyncParts, SourceKept, DecoderKept, ToldKeeps DEF bufferVars, decoderVars
<1> QED BY <1>1, PartsAsync DEF CallerOK

\* reset and finish leave the decoder broken.
LEMMA AsyncBreaksIInv ==
    ASSUME AsyncIInv, LifecycleBreaks, UNCHANGED <<sourceVars, bufferVars, fut>>,
           need' \in 0..MaxNeed
    PROVE  AsyncIInv'
<1> USE AsyncParts
<1>1. DecoderBreaks /\ got' = got /\ (ret' = Return("DecoderError") \/ ret' = Return("Panic"))
  BY DEF LifecycleBreaks
<1>2. NoAnswer \in [eof : BOOLEAN, tag : {"none"} \cup ProgressTags]
  BY DEF NoAnswer
<1>3. DecoderOK' /\ decSt' # "open" /\ made' = made /\ held' = held
  BY <1>1, <1>2 DEF DecoderBreaks, DecoderOK
<1>4. SourceOK' /\ Told'
  BY <1>1, <1>3, SourceKept, ToldKeeps
<1>5. AsyncReturnOK'
  BY <1>1, AsyncReturnTag
<1> QED BY <1>3, <1>4, <1>5, PartsAsync DEF CallerOK

LEMMA AsyncRefusedFacts ==
    ASSUME NEW max, NEW r, LifecycleRefused(max, r)
    PROVE  AsyncReturnOK' /\ ret'.tag # "NeedInput"
<1>1. ret' = Return("InvalidData") \/ ret' = Return("InvalidInput")
  BY DEF LifecycleRefused, BoundFailure
<1> QED BY <1>1, AsyncReturnTag

LEMMA AsyncResetIInv == ASSUME AsyncIInv, AsyncReset PROVE AsyncIInv'
<1> USE AsyncParts
<1>1. ResetBody /\ Needs /\ UNCHANGED <<sourceVars, bufferVars, fut>> /\ fut \in Futures
  BY DEF AsyncReset, CallerOK
<1>2. PICK r \in Ranges : \/ LifecycleRefused(MaxReset, r)
                          \/ LifecycleBreaks
                          \/ ResetSucceeds
  BY <1>1 DEF ResetBody
<1>3. CASE LifecycleRefused(MaxReset, r)
  <2>1. AsyncReturnOK' /\ need' \in 0..MaxNeed
    BY <1>1, <1>3, AsyncRefusedFacts, NeedsKept
  <2> QED BY <1>1, <1>3, <2>1, AsyncSameIInv DEF LifecycleRefused
<1>4. CASE LifecycleBreaks
  <2>1. ret' = Return("DecoderError") \/ ret' = Return("Panic")
    BY <1>4 DEF LifecycleBreaks
  <2>2. need' \in 0..MaxNeed
    BY <1>1, <2>1, AsyncReturnTag, NeedsKept
  <2> QED BY <1>1, <1>4, <2>2, AsyncBreaksIInv
<1>5. CASE ResetSucceeds
  <2>1. /\ decSt' = "open" /\ decNext' = consumed /\ decLast' = NoAnswer
        /\ made' = 0 /\ held' = 0 /\ got' = <<>>
    BY <1>5 DEF ResetSucceeds
  <2>2. AsyncReturnOK' /\ ret'.tag = "ResetOk"
    <3>1. PICK w \in 0..MaxReset : ret' = Wrote("ResetOk", w)
      BY <1>5 DEF ResetSucceeds
    <3>2. w \in Nat /\ "ResetOk" \in AsyncTags
      BY DecodeBridgeAssumption DEF AsyncTags
    <3> QED BY <3>1, <3>2, AsyncReturnPlain DEF Wrote
  <2>3. need' \in 0..MaxNeed
    BY <1>1, <2>2, NeedsKept
  <2>4. SourceOK' /\ consumed' = consumed
    BY <1>1, SourceKept DEF bufferVars
  <2>5. NoAnswer \in [eof : BOOLEAN, tag : {"none"} \cup ProgressTags]
    BY DEF NoAnswer
  <2>6. DecoderOK'
    BY <2>1, <2>4, <2>5, DecodeBridgeAssumption DEF DecoderOK, SourceOK
  <2>7. Told'
    <3>1. <<>> \in Seq(Nat)
      BY EmptySeq
    <3>2. 1..0 = {}
      OBVIOUS
    <3>3. <<>> = [i \in 1..0 |-> i]
      BY <3>2
    <3>4. made' - held' = 0
      BY <2>1
    <3> QED BY <2>1, <3>1, <3>3, <3>4 DEF Told
  <2> QED BY <1>1, <2>2, <2>3, <2>4, <2>6, <2>7, PartsAsync DEF CallerOK
<1> QED BY <1>2, <1>3, <1>4, <1>5

LEMMA AsyncFinishIInv == ASSUME AsyncIInv, AsyncFinish PROVE AsyncIInv'
<1> USE AsyncParts
<1>1. /\ FinishBody /\ UNCHANGED <<sourceVars, bufferVars, fut, need>>
      /\ fut' \in Futures /\ need' \in 0..MaxNeed
  BY DEF AsyncFinish, callerVars, CallerOK
<1>2. PICK r \in Ranges : \/ LifecycleRefused(MaxFinish, r)
                          \/ DecoderRefuses /\ UNCHANGED <<decoderVars, got>>
                          \/ LifecycleBreaks
                          \/ FinishSucceeds
  BY <1>1 DEF FinishBody
<1>3. CASE LifecycleRefused(MaxFinish, r)
  BY <1>1, <1>3, AsyncRefusedFacts, AsyncSameIInv DEF LifecycleRefused
<1>4. CASE DecoderRefuses /\ UNCHANGED <<decoderVars, got>>
  BY <1>1, <1>4, AsyncReturnTag, AsyncSameIInv DEF DecoderRefuses
<1>5. CASE LifecycleBreaks
  BY <1>1, <1>5, AsyncBreaksIInv
<1>6. CASE FinishSucceeds
  <2>1. /\ decSt' = "done" /\ decLast' = NoAnswer
        /\ UNCHANGED <<decNext, made, held, got>>
    BY <1>6 DEF FinishSucceeds
  <2>2. AsyncReturnOK'
    <3>1. PICK w \in 0..MaxFinish : ret' = Wrote("FinishOk", w)
      BY <1>6 DEF FinishSucceeds
    <3>2. w \in Nat /\ "FinishOk" \in AsyncTags
      BY DecodeBridgeAssumption DEF AsyncTags
    <3> QED BY <3>1, <3>2, AsyncReturnPlain DEF Wrote
  <2>3. NoAnswer \in [eof : BOOLEAN, tag : {"none"} \cup ProgressTags]
    BY DEF NoAnswer
  <2>4. DecoderOK'
    BY <2>1, <2>3 DEF DecoderOK
  <2>5. SourceOK' /\ Told'
    BY <1>1, <2>1, SourceKept, ToldKeeps
  <2> QED BY <1>1, <2>2, <2>4, <2>5, PartsAsync DEF CallerOK
<1> QED BY <1>2, <1>3, <1>4, <1>5, <1>6

\* Units went past the decoder.
LEMMA AsyncPassedByIInv ==
    ASSUME AsyncIInv, DecoderPassedBy, SourceOK', got' = got, fut' \in Futures, need' = need,
           AsyncReturnOK'
    PROVE  AsyncIInv'
<1>1. DecoderOK' /\ Told'
  BY AsyncParts, PassedByFacts, ToldKeeps
<1> QED BY <1>1, AsyncParts, PartsAsync DEF CallerOK

LEMMA AsyncConsumeIInv == ASSUME AsyncIInv, AsyncConsume PROVE AsyncIInv'
<1> USE AsyncParts
<1>1. /\ ConsumeBody /\ UNCHANGED <<sourceVars, cap, got, fut, need>>
      /\ fut' \in Futures /\ need' \in 0..MaxNeed
  BY DEF AsyncConsume, callerVars, CallerOK
<1>2. CASE ret' = Return("Panic") /\ UNCHANGED <<consumed, decoderVars>>
  <2>1. UNCHANGED bufferVars
    BY <1>1, <1>2 DEF bufferVars
  <2> QED BY <1>1, <1>2, <2>1, AsyncReturnTag, AsyncSameIInv
<1>3. ASSUME NEW k \in 1..Unread, consumed' = consumed + k, DecoderPassedBy,
             ret' = Return("RawOk")
      PROVE  AsyncIInv'
  <2>1. k \in 0..Unread
    BY Counts
  <2>2. SourceOK'
    BY <1>1, <1>3, <2>1, ConsumeSourceOK
  <2> QED BY <1>1, <1>3, <2>2, AsyncReturnTag, AsyncPassedByIInv
<1> QED BY <1>1, <1>2, <1>3 DEF ConsumeBody

----------------------------------------------------------------------------
(* Decoder calls, with the refill f that came before them.                 *)

LEMMA AsyncFailedIInv ==
    ASSUME AsyncIInv, NEW f, f.k \in 0..Waiting, Unread + f.k <= cap, Fetch(f), cap' = cap,
           NEW n \in Nat, NEW m \in Nat, NEW index \in Nat, NEW eof \in BOOLEAN,
           DecodeFails(f, n, index, m, eof), got' = got, Needs, fut' \in Futures
    PROVE  AsyncIInv'
<1> USE AsyncParts
<1>1. Unread \in Nat /\ Waiting \in Nat /\ consumed \in Nat /\ cap \in Nat /\ f.k \in Nat
  BY Counts
<1>2. /\ DecoderOK'
      /\ consumed' = consumed /\ made' = made /\ held' = held
      /\ decSt' # "open"
      /\ ret' \in {Return("DecoderError"), Return("InvalidData")}
  BY <1>1, DecodeFailsFacts
<1>3. SourceOK'
  <2>1. 0 \in 0..(Unread + f.k) /\ consumed' = consumed + 0
    BY <1>1, <1>2
  <2> QED BY <1>1, <2>1, FetchSourceOK
<1>4. AsyncReturnOK' /\ need' \in 0..MaxNeed
  BY <1>2, AsyncReturnTag, NeedsKept
<1>5. Told'
  BY <1>2, ToldKeeps
<1> QED BY <1>2, <1>3, <1>4, <1>5, PartsAsync DEF CallerOK

LEMMA AsyncAcceptedIInv ==
    ASSUME AsyncIInv, NEW f, f.k \in 0..Waiting, Unread + f.k <= cap, Fetch(f), cap' = cap,
           NEW n \in Nat, n = Unread + f.k, NEW m \in Nat, NEW index \in Nat,
           NEW eof \in BOOLEAN, NEW a \in Answers(n, m, eof),
           DecodeAccepts(a, n, index, m, eof), StepDone(a), Needs, fut' \in Futures
    PROVE  AsyncIInv'
<1> USE AsyncParts
<1>1. Unread \in Nat /\ Waiting \in Nat /\ consumed \in Nat /\ cap \in Nat
  BY Counts
<1>2. Accepted(a, n, m, eof)
  BY <1>1, DecodeAcceptsFacts
<1>3. /\ DecoderOK' /\ a.tag \in ProgressTags /\ a.required \in Nat
      /\ a.read \in 0..(Unread + f.k) /\ a.written \in 0..m
      /\ consumed' = consumed + a.read
  BY <1>2 DEF Accepted
<1>4. SourceOK'
  BY <1>1, <1>3, FetchSourceOK
<1>5. got' = got \o Values(a) /\ ret' = Progress(a.tag, a.required, a.read, a.written)
  BY DEF StepDone
<1>6. Told'
  BY <1>2, <1>5, ToldGrows
<1>7. AsyncReturnOK' /\ ret'.tag = a.tag /\ ret'.required = a.required
  <2>1. a.tag \in AsyncTags /\ a.read \in Nat /\ a.written \in Nat
    BY <1>3 DEF AsyncTags
  <2> QED BY <1>3, <1>5, <2>1, AsyncReturnPlain
<1>8. need' \in 0..MaxNeed
  <2>1. CASE a.tag = "NeedInput"
    <3>1. need' = a.required
      BY <1>7, <2>1 DEF Needs
    <3> QED BY <2>1, <3>1, NeedInputFacts
  <2>2. CASE a.tag # "NeedInput"
    BY <1>7, <2>2, NeedsKept
  <2> QED BY <2>1, <2>2
<1> QED BY <1>3, <1>4, <1>6, <1>7, <1>8, PartsAsync DEF CallerOK

\* The caller's range is refused, or has no slots.
LEMMA AsyncTrivialIInv ==
    ASSUME AsyncIInv, NEW r, StepTrivial(r), Needs, fut' \in Futures
    PROVE  AsyncIInv'
<1>1. ret' = Return("InvalidInput") \/ ret' = Progress("Complete", 0, 0, 0)
  BY DEF StepTrivial
<1>2. "Complete" \in AsyncTags
  BY DEF AsyncTags, ProgressTags
<1>3. AsyncReturnOK' /\ ret'.tag # "NeedInput"
  BY <1>1, <1>2, AsyncReturnTag, AsyncReturnPlain
<1>4. need' \in 0..MaxNeed
  BY <1>3, AsyncParts, NeedsKept
<1> QED BY <1>3, <1>4, AsyncSameIInv DEF StepTrivial

LEMMA AsyncEofStepIInv == ASSUME AsyncIInv, AsyncTranscodeEofStep PROVE AsyncIInv'
<1> USE AsyncParts
<1>1. PICK r \in Ranges : EofStep(r)
  BY DEF AsyncTranscodeEofStep
<1>2. /\ Needs /\ fut' \in Futures /\ r[1] \in Nat /\ r[2] \in Nat
      /\ Unread \in Nat /\ cap \in Nat /\ Unread <= cap
  BY <1>1, RangeFacts, Counts DEF EofStep, CallerOK
<1>3. CASE StepTrivial(r)
  BY <1>2, <1>3, AsyncTrivialIInv
<1>4. ASSUME UNCHANGED <<sourceVars, cap>>
      PROVE  /\ NoFetch.k \in 0..Waiting /\ Unread + NoFetch.k <= cap /\ Fetch(NoFetch)
             /\ NoFetch.k = 0 /\ cap' = cap /\ Unread = Unread + NoFetch.k
  BY <1>2, <1>4, NoFetchFacts
<1>5. CASE /\ DecodeFails(NoFetch, Unread, r[1], r[2], TRUE) /\ got' = got
           /\ UNCHANGED <<sourceVars, cap>>
  BY <1>2, <1>4, <1>5, AsyncFailedIInv
<1>6. ASSUME NEW a \in Answers(Unread, r[2], TRUE), UNCHANGED <<sourceVars, cap>>,
             DecodeAccepts(a, Unread, r[1], r[2], TRUE), StepDone(a)
      PROVE  AsyncIInv'
  BY <1>2, <1>4, <1>6, AsyncAcceptedIInv
<1> QED BY <1>1, <1>3, <1>5, <1>6 DEF EofStep

----------------------------------------------------------------------------
(* Futures.                                                                *)

LEMMA NoFutureOK == NoFuture \in Futures
  BY DecodeBridgeAssumption DEF NoFuture, Future, Futures

LEMMA CreateIInv ==
    ASSUME AsyncIInv, NEW f \in Futures, Create(f)
    PROVE  AsyncIInv'
<1>1. /\ fut' = f /\ need' = need /\ ret' = Return("none")
      /\ UNCHANGED <<sourceVars, bufferVars, decoderVars, got>>
  BY DEF Create
<1>2. need' \in 0..MaxNeed
  BY <1>1, AsyncParts DEF CallerOK
<1> QED BY <1>1, <1>2, AsyncReturnTag, AsyncSameIInv

LEMMA CreateAnyIInv == ASSUME AsyncIInv, CreateAny PROVE AsyncIInv'
<1>1. ASSUME NEW r \in Ranges, Create(Future("transcode", r, 0)) PROVE AsyncIInv'
  <2>1. Future("transcode", r, 0) \in Futures
    BY DecodeBridgeAssumption DEF Future, Futures, Kinds
  <2> QED BY <1>1, <2>1, CreateIInv
<1>2. ASSUME NEW count \in 0..MaxNeed, Create(Future("fillUntil", NoRange, count))
      PROVE  AsyncIInv'
  <2>1. Future("fillUntil", NoRange, count) \in Futures
    BY DEF Future, Futures, Kinds
  <2> QED BY <1>2, <2>1, CreateIInv
<1>3. ASSUME NEW kind \in {"fillMore", "read"}, Create(Future(kind, NoRange, 0))
      PROVE  AsyncIInv'
  <2>1. Future(kind, NoRange, 0) \in Futures
    BY DecodeBridgeAssumption DEF Future, Futures, Kinds
  <2> QED BY <1>3, <2>1, CreateIInv
<1> QED BY <1>1, <1>2, <1>3 DEF CreateAny

LEMMA DropIInv == ASSUME AsyncIInv, Drop PROVE AsyncIInv'
<1>1. /\ fut' = NoFuture /\ need' = need /\ ret' = Return("none")
      /\ UNCHANGED <<sourceVars, bufferVars, decoderVars, got>>
  BY DEF Drop
<1>2. need' \in 0..MaxNeed
  BY <1>1, AsyncParts DEF CallerOK
<1> QED BY <1>1, <1>2, NoFutureOK, AsyncReturnTag, AsyncSameIInv

\* What a poll may find; only a poll that may block again ends in "pending".
LEMMA PollFillMoreFacts ==
    ASSUME SourceOK, NEW f \in PollFillMore
    PROVE  /\ f.k \in 0..Waiting
           /\ Unread + f.k <= cap
           /\ f.res \in {"more", "end", "error", "pending"}
<1>1. Unread \in Nat /\ Waiting \in Nat /\ cap \in Nat /\ Unread <= cap
  BY Counts
<1>2. CASE f = Fill(0, "pending")
  <2>1. f.k = 0 /\ f.res = "pending"
    BY <1>2 DEF Fill
  <2> QED BY <1>1, <2>1
<1>3. CASE f \in FillMore(Unread, cap, Waiting)
  BY <1>1, <1>3, FillMoreFacts
<1> QED BY <1>2, <1>3 DEF PollFillMore

LEMMA PollFillUntilFacts ==
    ASSUME SourceOK, NEW count \in Nat, NEW f \in PollFillUntil(count)
    PROVE  /\ f.k \in 0..Waiting
           /\ Grown(count) \in Nat
           /\ Unread + f.k <= Grown(count)
           /\ f.res \in {"more", "end", "error", "pending"}
<1>1. Unread \in Nat /\ Waiting \in Nat /\ cap \in Nat /\ Unread <= cap
  BY Counts
<1>2. Grown(count) \in Nat /\ cap <= Grown(count) /\ count <= Grown(count)
  BY GrownFacts
<1>3. CASE \E k \in 0..Waiting : Unread + k < count /\ f = Fill(k, "pending")
  <2>1. PICK k \in 0..Waiting : Unread + k < count /\ f = Fill(k, "pending")
    BY <1>3
  <2>2. f.k = k /\ f.res = "pending"
    BY <2>1 DEF Fill
  <2> QED BY <1>1, <1>2, <2>1, <2>2
<1>4. CASE f \in FillUntil(Unread, Grown(count), Waiting, count)
  <2>1. Unread <= Grown(count)
    BY <1>1, <1>2
  <2> QED BY <1>1, <1>2, <1>4, <2>1, FillUntilFacts
<1> QED BY <1>3, <1>4 DEF PollFillUntil

\* Only a refill happened: whether the future stays or not, no unit is lost.
LEMMA RefillIInv ==
    ASSUME AsyncIInv, NEW f, f.k \in 0..Waiting, cap' \in Nat, Unread + f.k <= cap',
           Fetch(f), DecoderWaits(f), consumed' = consumed, got' = got,
           fut' \in Futures, need' \in 0..MaxNeed, AsyncReturnOK'
    PROVE  AsyncIInv'
<1> USE AsyncParts
<1>1. Unread \in Nat /\ Waiting \in Nat /\ consumed \in Nat /\ f.k \in Nat
  BY Counts
<1>2. DecoderOK' /\ UNCHANGED <<decSt, made, held>>
  BY <1>1, WaitsFacts
<1>3. SourceOK'
  <2>1. 0 \in 0..(Unread + f.k) /\ consumed' = consumed + 0
    BY <1>1
  <2> QED BY <2>1, FetchSourceOK
<1>4. Told'
  BY <1>2, ToldKeeps
<1> QED BY <1>2, <1>3, <1>4, PartsAsync DEF CallerOK

LEMMA BlocksIInv ==
    ASSUME AsyncIInv, NEW f, f.k \in 0..Waiting, cap' \in Nat, Unread + f.k <= cap', Blocks(f),
           need' \in 0..MaxNeed
    PROVE  AsyncIInv'
<1>1. /\ Fetch(f) /\ DecoderWaits(f) /\ ret' = Return("Pending")
      /\ UNCHANGED <<consumed, got, fut>>
  BY DEF Blocks
<1>2. AsyncReturnOK' /\ fut' \in Futures
  BY <1>1, AsyncReturnTag, AsyncParts DEF CallerOK
<1> QED BY <1>1, <1>2, RefillIInv

LEMMA FillEndsIInv ==
    ASSUME AsyncIInv, NEW f, f.k \in 0..Waiting, cap' \in Nat, Unread + f.k <= cap',
           f.res \in {"more", "end", "error", "pending"}, FillEnds(f), need' \in 0..MaxNeed
    PROVE  AsyncIInv'
<1>1. /\ Fetch(f) /\ DecoderWaits(f) /\ Refilled(f) /\ fut' = NoFuture /\ f.res # "pending"
      /\ UNCHANGED <<consumed, got>>
  BY DEF FillEnds
<1>2. ret' = Return("Filled") \/ ret' = Return("EndOfInput") \/ ret' = Return("IoError")
  BY <1>1 DEF Refilled
<1>3. AsyncReturnOK'
  BY <1>2, AsyncReturnTag
<1> QED BY <1>1, <1>3, NoFutureOK, RefillIInv

\* The decoder is called only on a refill that did not block.
LEMMA PollTranscodeIInv == ASSUME AsyncIInv, PollTranscode PROVE AsyncIInv'
<1> USE AsyncParts
<1>1. Needs /\ fut.kind = "transcode" /\ fut \in Futures
  BY DEF PollTranscode, CallerOK
<1>2. fut.range[1] \in Nat /\ fut.range[2] \in Nat
  <2>1. fut.range \in Ranges \/ fut.range = NoRange
    BY <1>1 DEF Futures
  <2> QED BY <2>1, RangeFacts DEF NoRange
<1>3. /\ Unread \in Nat /\ Waiting \in Nat /\ consumed \in Nat /\ cap \in Nat
      /\ Unread <= cap
  BY Counts
<1>4. CASE StepTrivial(fut.range) /\ fut' = NoFuture
  BY <1>1, <1>4, NoFutureOK, AsyncTrivialIInv
<1>5. ASSUME NEW f \in TranscodeFetches, cap' = cap,
             \/ Blocks(f)
             \/ /\ Fetch(f)
                /\ \/ f.res \in {"end", "error"} /\ StepStarves(f)
                   \/ StepDecodes(f, fut.range)
                /\ fut' = NoFuture
      PROVE  AsyncIInv'
  <2>1. f.k \in 0..Waiting /\ Unread + f.k <= cap
    <3>1. CASE f \in PollFillMore
      BY <3>1, PollFillMoreFacts
    <3>2. CASE f = NoFetch
      <4>1. f.k = 0
        BY <3>2 DEF NoFetch, Fill
      <4> QED BY <1>3, <4>1
    <3> QED BY <3>1, <3>2 DEF TranscodeFetches
  <2>2. f.k \in Nat /\ Unread + f.k \in Nat /\ cap' \in Nat /\ Unread + f.k <= cap'
    BY <1>3, <1>5, <2>1
  <2>3. CASE Blocks(f)
    <3>1. ret' = Return("Pending")
      BY <2>3 DEF Blocks
    <3>2. need' \in 0..MaxNeed
      BY <1>1, <3>1, AsyncReturnTag, NeedsKept
    <3> QED BY <2>1, <2>2, <2>3, <3>2, BlocksIInv
  <2>4. CASE Fetch(f) /\ StepStarves(f) /\ fut' = NoFuture
    <3>1. /\ ret' = Return("EndOfInput") \/ ret' = Return("IoError")
          /\ DecoderWaits(f) /\ consumed' = consumed /\ got' = got
      BY <2>4 DEF StepStarves
    <3>2. AsyncReturnOK' /\ need' \in 0..MaxNeed
      BY <1>1, <3>1, AsyncReturnTag, NeedsKept
    <3> QED BY <2>1, <2>2, <2>4, <3>1, <3>2, NoFutureOK, RefillIInv
  <2>5. CASE /\ Fetch(f) /\ fut' = NoFuture
             /\ DecodeFails(f, Unread + f.k, fut.range[1], fut.range[2], FALSE) /\ got' = got
    BY <1>1, <1>2, <1>5, <2>1, <2>2, <2>5, NoFutureOK, AsyncFailedIInv
  <2>6. ASSUME Fetch(f), fut' = NoFuture,
               NEW a \in Answers(Unread + f.k, fut.range[2], FALSE),
               DecodeAccepts(a, Unread + f.k, fut.range[1], fut.range[2], FALSE), StepDone(a)
        PROVE  AsyncIInv'
    BY <1>1, <1>2, <1>5, <2>1, <2>2, <2>6, NoFutureOK, AsyncAcceptedIInv
  <2> QED BY <1>5, <2>3, <2>4, <2>5, <2>6 DEF StepDecodes
<1> QED BY <1>4, <1>5 DEF PollTranscode

LEMMA PollFillIInv == ASSUME AsyncIInv, PollFill PROVE AsyncIInv'
<1> USE AsyncParts
<1>1. need' \in 0..MaxNeed /\ fut \in Futures /\ cap \in Nat
  BY Counts DEF PollFill, CallerOK
<1>2. ASSUME NEW f \in PollFillMore, Blocks(f) \/ FillEnds(f), cap' = cap PROVE AsyncIInv'
  <2>1. /\ f.k \in 0..Waiting /\ Unread + f.k <= cap' /\ cap' \in Nat
        /\ f.res \in {"more", "end", "error", "pending"}
    BY <1>1, <1>2, PollFillMoreFacts
  <2> QED BY <1>1, <1>2, <2>1, BlocksIInv, FillEndsIInv
<1>3. ASSUME cap' = Grown(fut.count), NEW f \in PollFillUntil(fut.count),
             Blocks(f) \/ FillEnds(f)
      PROVE  AsyncIInv'
  <2>1. fut.count \in Nat
    BY <1>1, DecodeBridgeAssumption DEF Futures
  <2>2. /\ f.k \in 0..Waiting /\ Unread + f.k <= cap' /\ cap' \in Nat
        /\ f.res \in {"more", "end", "error", "pending"}
    BY <1>3, <2>1, PollFillUntilFacts
  <2> QED BY <1>1, <1>3, <2>2, BlocksIInv, FillEndsIInv
<1>4. CASE /\ ret' = Return("OutOfMemory") /\ fut' = NoFuture
           /\ UNCHANGED <<sourceVars, bufferVars, decoderVars, got>>
  BY <1>1, <1>4, NoFutureOK, AsyncReturnTag, AsyncSameIInv
<1> QED BY <1>2, <1>3, <1>4 DEF PollFill

LEMMA PollReadIInv == ASSUME AsyncIInv, PollRead PROVE AsyncIInv'
<1> USE AsyncParts
<1>1. UNCHANGED <<cap, need>> /\ need' \in 0..MaxNeed
  BY DEF PollRead, CallerOK
<1>2. Unread \in Nat /\ Waiting \in Nat /\ cap \in Nat
  BY Counts
<1>3. ASSUME NEW k \in 1..Unread, consumed' = consumed + k, DecoderPassedBy,
             ret' = Return("RawOk"), fut' = NoFuture, UNCHANGED <<sourceVars, got>>
      PROVE  AsyncIInv'
  <2>1. k \in 0..Unread
    BY <1>2
  <2>2. SourceOK'
    BY <1>1, <1>3, <2>1, ConsumeSourceOK
  <2> QED BY <1>1, <1>3, <2>2, NoFutureOK, AsyncReturnTag, AsyncPassedByIInv
<1>4. ASSUME NEW f \in PollFillMore, Blocks(f) PROVE AsyncIInv'
  <2>1. f.k \in 0..Waiting /\ Unread + f.k <= cap' /\ cap' \in Nat
    BY <1>1, <1>2, <1>4, PollFillMoreFacts
  <2> QED BY <1>1, <1>4, <2>1, BlocksIInv
<1>5. ASSUME NEW f \in PollFillMore, Fetch(f), NEW k \in 0..f.k, consumed' = consumed + k,
             DecoderPassedBy, fut' = NoFuture, got' = got,
             ret' = Return(IF f.res = "error" THEN "IoError" ELSE "RawOk")
      PROVE  AsyncIInv'
  <2>1. f.k \in 0..Waiting /\ Unread + f.k <= cap
    BY <1>5, PollFillMoreFacts
  <2>2. Unread + f.k <= cap' /\ cap' \in Nat /\ k \in 0..(Unread + f.k)
    BY <1>1, <1>2, <1>5, <2>1
  <2>3. SourceOK'
    BY <1>5, <2>1, <2>2, FetchSourceOK
  <2>4. ret' = Return("IoError") \/ ret' = Return("RawOk")
    BY <1>5
  <2> QED BY <1>1, <1>5, <2>3, <2>4, NoFutureOK, AsyncReturnTag, AsyncPassedByIInv
<1> QED BY <1>3, <1>4, <1>5 DEF PollRead

LEMMA AsyncNextIInv == AsyncIInv /\ [AsyncNext]_asyncVars => AsyncIInv'
<1> SUFFICES ASSUME AsyncIInv, [AsyncNext]_asyncVars PROVE AsyncIInv'
  OBVIOUS
<1>1. CASE UNCHANGED asyncVars
  <2>1. /\ UNCHANGED <<sourceVars, bufferVars, decoderVars, got>> /\ ret' = ret
        /\ fut' = fut /\ need' = need
    BY <1>1 DEF asyncVars, callerVars
  <2>2. AsyncReturnOK' /\ fut' \in Futures /\ need' \in 0..MaxNeed
    BY <2>1, AsyncParts DEF AsyncReturnOK, CallerOK
  <2> QED BY <2>1, <2>2, AsyncSameIInv
<1>2. CASE AsyncNext
  BY <1>2, AsyncArriveIInv, AsyncResetIInv, AsyncFinishIInv, AsyncConsumeIInv,
     AsyncEofStepIInv, CreateAnyIInv, DropIInv, PollTranscodeIInv, PollFillIInv, PollReadIInv
     DEF AsyncNext, Poll
<1> QED BY <1>1, <1>2

\* The invariant holds of every behaviour of the asynchronous bridge
\* (async_transcode_decode_input.rs), whatever the source and the decoder do
\* and whichever futures are dropped.
THEOREM AsyncInductiveInvariant == AsyncSpec => []AsyncIInv
  BY AsyncInitIInv, AsyncNextIInv, PTL DEF AsyncSpec

\* Dropping a future after any poll loses no unit and no value: an open
\* decoder has seen exactly the consumed units, and the caller has been told
\* of exactly the values it has written (poll_transcode, poll_fill_more,
\* poll_fill_until and poll_read_unchecked).
THEOREM CancellationSafe == AsyncSpec => []CancellationIsSafe
<1>1. AsyncIInv => CancellationIsSafe
  BY DEF AsyncIInv
<1> QED BY <1>1, AsyncInductiveInvariant, PTL

=============================================================================
