------------------------- MODULE DecodeDriverProofs -------------------------
(* Theorems about DecodeDriver, for every stream, every way the source     *)
(* hands it out, every unit bound and every capacity to start with.        *)
EXTENDS DecodeDriverProps, TLAPS

----------------------------------------------------------------------------
(* The parts of a step.                                                    *)

\* A refill stays inside buffer and source, and it ends with "more" only when
\* the goal is reached and with "end" only when the whole source cannot reach it.
LEMMA FillUntilFacts ==
    ASSUME NEW unread \in Nat, NEW size \in Nat, NEW waiting \in Nat,
           NEW count \in Nat, unread <= size, count <= size,
           NEW f \in FillUntil(unread, size, waiting, count)
    PROVE  /\ f.k \in 0..waiting
           /\ unread + f.k <= size
           /\ f.res \in {"more", "end", "error"}
           /\ f.res = "more" => unread + f.k >= count
           /\ f.res = "end" => f.k = waiting /\ unread + waiting < count
<1>1. CASE unread >= count
  BY <1>1 DEF FillUntil, Fill
<1>2. CASE ~(unread >= count)
  <2>1. f \in (IF unread + waiting < count THEN {Fill(waiting, "end")}
               ELSE {Fill(k, "more") :
                       k \in {j \in 1..waiting : unread + j \in count..size}})
             \cup {Fill(k, "error") : k \in {j \in 0..waiting : unread + j < count}}
    BY <1>2 DEF FillUntil, Failing
  <2> QED BY <1>2, <2>1 DEF Fill
<1> QED BY <1>1, <1>2

\* What a codec may answer, and what it answers when it keeps its contract.
LEMMA CodecDecodeFacts ==
    ASSUME NEW item \in Items, NEW avail \in Nat, MinUnits <= avail,
           NEW e \in BOOLEAN, NEW a \in CodecDecode(item, avail, e)
    PROVE  /\ a.res \in {"Ok", "Incomplete", "Invalid"}
           /\ a.n \in Nat
           /\ ~faulty /\ a.res = "Ok"
                => \/ /\ item.kind # "invalid"
                      /\ a.n = item.width /\ item.width <= avail
                   \/ /\ e /\ item.kind = "munch"
                      /\ a.n = avail /\ item.width > avail
           /\ ~faulty /\ a.res = "Incomplete"
                => /\ a.n > avail /\ a.n <= item.width
                   /\ ~(e /\ item.kind = "munch")
           /\ ~faulty /\ a.res = "Invalid"
                => item.kind = "invalid" /\ item.width <= avail
<1> USE DecodeDriverAssumption
<1>0. item.width \in MinUnits..MaxUnits /\ item.kind \in {"value", "munch", "invalid"}
  BY DEF ItemType
<1>1. CASE a \in HonestDecode(item, avail, e)
  <2>1. CASE item.width <= avail
    BY <1>0, <1>1, <2>1 DEF HonestDecode, Answer
  <2>2. CASE ~(item.width <= avail) /\ e /\ item.kind = "munch"
    BY <1>0, <1>1, <2>2 DEF HonestDecode, Answer
  <2>3. CASE ~(item.width <= avail) /\ ~(e /\ item.kind = "munch")
    BY <1>0, <1>1, <2>3 DEF HonestDecode, Answer
  <2> QED BY <2>1, <2>2, <2>3
<1>2. CASE a \notin HonestDecode(item, avail, e)
  BY <1>2 DEF CodecDecode, Answer
<1> QED BY <1>1, <1>2

\* Numbers a state of the driver is made of.
LEMMA Counts ==
    ASSUME IInv
    PROVE  /\ fetched \in Nat /\ consumed \in Nat /\ cap \in Nat /\ start \in Nat
           /\ need \in Nat /\ need <= MaxUnits
           /\ fetched <= StreamLen /\ consumed <= fetched /\ start <= consumed
           /\ Unread \in Nat /\ Unread <= cap /\ StreamLen - fetched \in Nat
  BY DecodeDriverAssumption DEF IInv, SafeForAnyCodec, TypeOK, Unread

\* In front of a decode attempt there is an item, and the minimum is visible.
LEMMA AtItem ==
    ASSUME IInv, pc \in {"decode", "refill", "retry"}
    PROVE  /\ Item \in Items /\ Item \in ItemType /\ Item.consumed <= Item.width
           /\ consumed < StreamLen /\ MinUnits <= Unread
           /\ Window \in Nat /\ MinUnits <= Window /\ Window <= Unread
           /\ Window <= MaxUnits
<1> USE DecodeDriverAssumption
<1>1. MinUnits <= Unread
  BY DEF IInv, SafeForAnyCodec, TypeOK, CallsKeepWindow
<1>2. consumed < StreamLen /\ consumed + 1 \in 1..StreamLen
  BY <1>1, Counts DEF Unread
<1>3. Item \in Items
  BY <1>2 DEF Item, IInv, SafeForAnyCodec, TypeOK
<1> QED BY <1>1, <1>2, <1>3, Counts DEF Window


LEMMA InitIInv == Init => IInv
  BY DecodeDriverAssumption
     DEF Init, IInv, SafeForAnyCodec, TypeOK, Unread, Returns, NeverWaitsForNextValue,
         CallsKeepWindow, AcceptedIsWhole

\* Between calls only the types and the last return matter.
LEMMA IdleIInv ==
    ASSUME IInv, pc' = "idle", UNCHANGED <<faulty, stream>>,
           fetched' \in 0..StreamLen, consumed' \in 0..fetched',
           cap' \in Nat, fetched' - consumed' <= cap',
           need' \in 0..MaxUnits, start' \in 0..consumed',
           values' \in Seq((0..StreamLen) \X (0..StreamLen)),
           ret' \in Returns, ~faulty => ret' \notin {"InvalidData", "Panic"}
    PROVE  IInv'
<1>1. TypeOK'
  <2>1. faulty \in BOOLEAN /\ stream \in [1..StreamLen -> Items]
    BY DEF IInv, SafeForAnyCodec, TypeOK
  <2> QED BY <2>1 DEF TypeOK, Unread
<1> QED
  BY <1>1 DEF IInv, SafeForAnyCodec, NeverWaitsForNextValue, CallsKeepWindow, AcceptedIsWhole

----------------------------------------------------------------------------
(* The inductive invariant.                                                *)

LEMMA ReadBeginsIInv == ASSUME IInv, ReadBegins PROVE IInv'
<1> USE DecodeDriverAssumption
<1>0. /\ UNCHANGED <<faulty, stream, fetched, consumed, need>>
      /\ faulty \in BOOLEAN /\ stream \in [1..StreamLen -> Items]
      /\ fetched \in 0..StreamLen /\ consumed \in 0..fetched /\ cap \in Nat
      /\ Unread <= cap /\ need \in 0..MaxUnits /\ start \in 0..consumed
      /\ values \in Seq((0..StreamLen) \X (0..StreamLen)) /\ ret \in Returns
      /\ fetched - consumed = Unread
  BY DEF ReadBegins, sourceVars, IInv, SafeForAnyCodec, TypeOK, Unread
<1>1. CASE /\ \/ Leave("Refused") \/ Leave("ResetError") \/ Leave("OutOfMemory")
              \/ faulty /\ Leave("Panic")
           /\ UNCHANGED <<cap, start>>
  BY <1>0, <1>1, IdleIInv DEF Leave, Returns
<1>2. CASE /\ pc' = "prepare" /\ cap' = Grown(MinUnits) /\ start' = consumed
           /\ ret' = "none" /\ UNCHANGED values
  <2>1. cap' \in Nat /\ cap <= cap' /\ MinUnits <= cap'
    BY <1>0, <1>2 DEF Grown
  <2>2. Unread' \in Nat /\ Unread' <= cap'
    BY <1>0, <2>1 DEF Unread
  <2>3. SafeForAnyCodec'
    BY <1>0, <1>2, <2>1, <2>2 DEF SafeForAnyCodec, TypeOK, Returns
  <2>4. NeverWaitsForNextValue'
    <3>1. consumed < StreamLen => Item' \in Items
      BY <1>0 DEF Item
    <3> QED
      BY <1>0, <1>2, <3>1 DEF NeverWaitsForNextValue, Goal, PrepareGoal, ItemType
  <2>5. CallsKeepWindow' /\ AcceptedIsWhole'
    BY <1>0, <1>2, <2>1 DEF CallsKeepWindow, AcceptedIsWhole
  <2> QED BY <2>3, <2>4, <2>5 DEF IInv
<1> QED BY <1>1, <1>2 DEF ReadBegins

LEMMA PrepareWindowIInv == ASSUME IInv, PrepareWindow PROVE IInv'
<1> USE DecodeDriverAssumption
<1>0. /\ pc = "prepare" /\ UNCHANGED <<faulty, stream, cap, need, start>>
      /\ faulty \in BOOLEAN /\ stream \in [1..StreamLen -> Items]
      /\ values \in Seq((0..StreamLen) \X (0..StreamLen)) /\ ret \in Returns
      /\ need \in 0..MaxUnits /\ MinUnits <= cap /\ start = consumed
      /\ ~faulty => ret \notin {"InvalidData", "Panic"}
  BY DEF PrepareWindow, sourceVars, IInv, SafeForAnyCodec, TypeOK, CallsKeepWindow
<1>1. PICK f \in FillUntil(Unread, cap, StreamLen - fetched, MinUnits) :
        /\ fetched' = fetched + f.k
        /\ \/ /\ f.res = "more" /\ pc' = "decode"
              /\ UNCHANGED <<consumed, values, ret>>
           \/ /\ f.res = "end" /\ consumed' = fetched + f.k
              /\ Leave("UnexpectedEof")
           \/ f.res = "error" /\ Leave("IoError") /\ UNCHANGED consumed
  BY DEF PrepareWindow, PrepareGoal
<1>2. /\ f.k \in Nat /\ f.k <= StreamLen - fetched /\ Unread + f.k <= cap
      /\ f.res = "more" => Unread + f.k >= MinUnits
  BY <1>0, Counts, FillUntilFacts
<1>3. fetched' \in 0..StreamLen /\ fetched <= fetched'
  BY <1>1, <1>2, Counts
<1>4. CASE f.res = "more" /\ pc' = "decode" /\ UNCHANGED <<consumed, values, ret>>
  <2>1. Unread' \in Nat /\ Unread' <= cap' /\ Unread' >= MinUnits
    BY <1>0, <1>1, <1>2, <1>4, Counts DEF Unread
  <2>2. consumed' \in 0..fetched' /\ start' \in 0..consumed' /\ cap' \in Nat
    BY <1>0, <1>3, <1>4, Counts
  <2>3. SafeForAnyCodec'
    BY <1>0, <1>3, <1>4, <2>1, <2>2 DEF SafeForAnyCodec, TypeOK
  <2> QED
    BY <1>0, <1>4, <2>3
       DEF IInv, NeverWaitsForNextValue, CallsKeepWindow, AcceptedIsWhole
<1>5. CASE f.res = "end" /\ consumed' = fetched + f.k /\ Leave("UnexpectedEof")
  <2>1. /\ pc' = "idle" /\ ret' = "UnexpectedEof" /\ values' = values
        /\ consumed' = fetched'
    BY <1>1, <1>5 DEF Leave
  <2>2. start' \in Nat /\ fetched' \in Nat /\ start' <= fetched'
    BY <1>0, <1>3, Counts
  <2>3. /\ fetched' \in 0..fetched' /\ start' \in 0..fetched'
        /\ fetched' - fetched' <= cap' /\ cap' \in Nat
    BY <1>0, <2>2, Counts
  <2> QED BY <1>0, <1>3, <2>1, <2>3, IdleIInv DEF Returns
<1>6. CASE f.res = "error" /\ Leave("IoError") /\ UNCHANGED consumed
  <2>1. pc' = "idle" /\ ret' = "IoError" /\ values' = values
    BY <1>6 DEF Leave
  <2>2. /\ consumed' \in 0..fetched' /\ start' \in 0..consumed' /\ cap' \in Nat
        /\ fetched' - consumed' <= cap'
    BY <1>0, <1>1, <1>2, <1>3, <1>6, Counts DEF Unread
  <2> QED BY <1>0, <1>3, <2>1, <2>2, IdleIInv DEF Returns
<1> QED BY <1>1, <1>4, <1>5, <1>6

\* A value was accepted, or its count refused.
LEMMA AcceptIInv ==
    ASSUME IInv, pc \in {"decode", "retry"}, NEW avail \in Nat, avail <= Unread,
           NEW n \in Nat, Accept(n, avail),
           UNCHANGED <<faulty, stream, fetched, cap, need, start>>,
           ~faulty => n <= avail /\ n \in Reader!ValueUnits
    PROVE  IInv'
<1> USE DecodeDriverAssumption
<1>0. /\ faulty \in BOOLEAN /\ stream \in [1..StreamLen -> Items]
      /\ fetched \in 0..StreamLen /\ cap \in Nat /\ need \in 0..MaxUnits
      /\ values \in Seq((0..StreamLen) \X (0..StreamLen)) /\ ret \in Returns
      /\ ~faulty => ret \notin {"InvalidData", "Panic"}
      /\ start = consumed /\ MinUnits <= cap
  BY DEF IInv, SafeForAnyCodec, TypeOK, CallsKeepWindow
<1>1. CASE n > avail /\ Leave("InvalidData") /\ UNCHANGED consumed
  <2>1. pc' = "idle" /\ ret' = "InvalidData" /\ values' = values /\ faulty
    BY <1>1 DEF Leave
  <2>2. /\ consumed' \in 0..fetched' /\ start' \in 0..consumed'
        /\ fetched' - consumed' <= cap'
    BY <1>0, <1>1, Counts DEF Unread
  <2> QED BY <1>0, <2>1, <2>2, IdleIInv DEF Returns
<1>2. CASE /\ n <= avail /\ consumed' = consumed + n /\ pc' = "finish"
           /\ UNCHANGED <<values, ret>>
  <2>1. /\ consumed' \in 0..fetched' /\ start' \in 0..consumed'
        /\ Unread' \in Nat /\ Unread' <= cap'
    BY <1>0, <1>2, Counts DEF Unread
  <2>2. SafeForAnyCodec'
    BY <1>0, <1>2, <2>1 DEF SafeForAnyCodec, TypeOK
  <2>3. AcceptedIsWhole'
    <3> SUFFICES ASSUME ~faulty PROVE (consumed - start \in Reader!ValueUnits)'
      BY DEF AcceptedIsWhole
    <3>1. consumed' - start' = n
      BY <1>0, <1>2, Counts
    <3>2. Reader!ValueUnits' = Reader!ValueUnits
      BY <1>0, <1>2 DEF Reader!ValueUnits, Reader!Whole, Reader!Cut, Reader!Rest
    <3> QED BY <3>1, <3>2
  <2> QED
    BY <1>0, <1>2, <2>2, <2>3 DEF IInv, NeverWaitsForNextValue, CallsKeepWindow
<1> QED BY <1>1, <1>2 DEF Accept

\* A malformed value was passed over, or its count refused.
LEMMA RejectIInv ==
    ASSUME IInv, pc \in {"decode", "retry"}, NEW avail \in Nat, avail <= Unread,
           NEW hint \in Hints, Reject(hint, avail), Item.width <= avail \/ faulty,
           UNCHANGED <<faulty, stream, fetched, cap, need, start>>
    PROVE  IInv'
<1> USE DecodeDriverAssumption
<1>0. /\ values \in Seq((0..StreamLen) \X (0..StreamLen))
      /\ fetched \in 0..StreamLen /\ cap \in Nat /\ need \in 0..MaxUnits
      /\ start = consumed
  BY DEF IInv, SafeForAnyCodec, TypeOK, CallsKeepWindow
<1>1. hint \in Nat /\ (~faulty => hint <= avail)
  BY AtItem DEF Hints, ItemType
<1>2. CASE hint > avail /\ Leave("InvalidData") /\ UNCHANGED consumed
  <2>1. pc' = "idle" /\ ret' = "InvalidData" /\ values' = values /\ faulty
    BY <1>1, <1>2 DEF Leave
  <2>2. /\ consumed' \in 0..fetched' /\ start' \in 0..consumed'
        /\ fetched' - consumed' <= cap'
    BY <1>0, <1>2, Counts DEF Unread
  <2> QED BY <1>0, <2>1, <2>2, IdleIInv DEF Returns
<1>3. CASE hint <= avail /\ consumed' = consumed + hint /\ Leave("Rejected")
  <2>1. pc' = "idle" /\ ret' = "Rejected" /\ values' = values
    BY <1>3 DEF Leave
  <2>2. /\ consumed' \in 0..fetched' /\ start' \in 0..consumed'
        /\ fetched' - consumed' <= cap'
    BY <1>0, <1>1, <1>3, Counts DEF Unread
  <2> QED BY <1>0, <2>1, <2>2, IdleIInv DEF Returns
<1> QED BY <1>2, <1>3 DEF Reject

\* A call that leaves the buffer alone ends.
LEMMA LeaveIInv ==
    ASSUME IInv, NEW r \in Returns, Leave(r),
           ~faulty => r \notin {"InvalidData", "Panic"},
           UNCHANGED <<faulty, stream, fetched, consumed, cap, need, start>>
    PROVE  IInv'
<1>1. /\ fetched \in 0..StreamLen /\ consumed \in 0..fetched /\ cap \in Nat
      /\ fetched - consumed <= cap /\ need \in 0..MaxUnits /\ start \in 0..consumed
      /\ values \in Seq((0..StreamLen) \X (0..StreamLen))
  BY DEF IInv, SafeForAnyCodec, TypeOK, Unread
<1> QED BY <1>1, IdleIInv DEF Leave

LEMMA DecodeWindowIInv == ASSUME IInv, DecodeWindow PROVE IInv'
<1> USE DecodeDriverAssumption
<1>0. /\ pc = "decode" /\ UNCHANGED <<faulty, stream, fetched, cap, start>>
      /\ start = consumed
  BY DEF DecodeWindow, sourceVars, IInv, CallsKeepWindow
<1>1. PICK a \in CodecDecode(Item, Window, FALSE) :
        \/ a.res = "Ok" /\ Accept(a.n, Window) /\ UNCHANGED need
        \/ /\ a.res = "Incomplete" /\ a.n > MaxUnits
           /\ Leave("Panic") /\ UNCHANGED <<consumed, need>>
        \/ /\ a.res = "Incomplete" /\ a.n <= MaxUnits
           /\ RefillAfterIncomplete(a.n, Window)
        \/ /\ a.res = "Invalid" /\ \E hint \in Hints : Reject(hint, Window)
           /\ UNCHANGED need
  BY DEF DecodeWindow
<1>2. /\ Item \in Items /\ Item.width \in MinUnits..MaxUnits
      /\ Window \in Nat /\ MinUnits <= Window /\ Window <= Unread
  BY <1>0, AtItem DEF ItemType
<1>3. /\ a.n \in Nat
      /\ ~faulty /\ a.res = "Ok" => /\ Item.kind # "invalid" /\ a.n = Item.width
                                    /\ Item.width <= Window
      /\ ~faulty /\ a.res = "Incomplete" => a.n > Window /\ a.n <= Item.width
      /\ ~faulty /\ a.res = "Invalid" => Item.width <= Window
  BY <1>2, CodecDecodeFacts
<1>4. CASE a.res = "Ok" /\ Accept(a.n, Window) /\ UNCHANGED need
  <2>1. ~faulty => a.n \in Reader!ValueUnits
    <3> SUFFICES ASSUME ~faulty PROVE a.n \in Reader!ValueUnits
      OBVIOUS
    <3>1. Unread <= StreamLen - consumed /\ Unread \in Nat /\ StreamLen - consumed \in Nat
      BY Counts DEF Unread
    <3>2. Item.width <= StreamLen - consumed /\ MinUnits <= StreamLen - consumed
      BY <1>2, <1>3, <1>4, <3>1
    <3> QED
      BY <1>0, <1>3, <1>4, <3>2 DEF Reader!ValueUnits, Reader!Whole, Reader!Rest, Item
  <2> QED BY <1>0, <1>2, <1>3, <1>4, <2>1, AcceptIInv
<1>5. CASE /\ a.res = "Incomplete" /\ a.n > MaxUnits
           /\ Leave("Panic") /\ UNCHANGED <<consumed, need>>
  BY <1>0, <1>2, <1>3, <1>5, LeaveIInv DEF Returns
<1>6. CASE /\ a.res = "Incomplete" /\ a.n <= MaxUnits
           /\ RefillAfterIncomplete(a.n, Window)
  <2>1. CASE Window >= a.n /\ Leave("InvalidData") /\ UNCHANGED <<consumed, need>>
    BY <1>0, <1>2, <1>3, <1>6, <2>1, LeaveIInv DEF Returns
  <2>2. CASE /\ Window < a.n /\ pc' = "refill" /\ need' = a.n
             /\ UNCHANGED <<consumed, values, ret>>
    <3>1. Unread' = Unread /\ Item' = Item
      BY <1>0, <2>2 DEF Unread, Item
    <3>2. need' \in 0..MaxUnits
      BY <1>3, <1>6, <2>2
    <3>3. SafeForAnyCodec'
      BY <1>0, <2>2, <3>1, <3>2 DEF IInv, SafeForAnyCodec, TypeOK
    <3>4. NeverWaitsForNextValue'
      BY <1>0, <1>3, <1>6, <2>2, <3>1 DEF NeverWaitsForNextValue, Goal
    <3>5. CallsKeepWindow' /\ AcceptedIsWhole'
      BY <1>0, <1>2, <2>2, <3>1, Counts DEF IInv, CallsKeepWindow, AcceptedIsWhole
    <3> QED BY <3>3, <3>4, <3>5 DEF IInv
  <2> QED BY <1>6, <2>1, <2>2 DEF RefillAfterIncomplete
<1>7. CASE /\ a.res = "Invalid" /\ \E hint \in Hints : Reject(hint, Window)
           /\ UNCHANGED need
  BY <1>0, <1>2, <1>3, <1>7, RejectIInv
<1> QED BY <1>1, <1>4, <1>5, <1>6, <1>7

LEMMA RefillIInv == ASSUME IInv, Refill PROVE IInv'
<1> USE DecodeDriverAssumption
<1>0. /\ pc = "refill" /\ UNCHANGED <<faulty, stream, consumed, need, start>>
      /\ faulty \in BOOLEAN /\ stream \in [1..StreamLen -> Items]
      /\ values \in Seq((0..StreamLen) \X (0..StreamLen)) /\ ret \in Returns
      /\ need \in 0..MaxUnits /\ MinUnits <= cap /\ start = consumed
      /\ ~faulty => ret \notin {"InvalidData", "Panic"}
  BY DEF Refill, sourceVars, IInv, SafeForAnyCodec, TypeOK, CallsKeepWindow
<1>1. CASE Leave("OutOfMemory") /\ UNCHANGED <<fetched, cap>>
  BY <1>0, <1>1, LeaveIInv DEF Returns
<1>2. CASE /\ cap' = Grown(need)
           /\ \E f \in FillUntil(Unread, Grown(need), StreamLen - fetched, need) :
                /\ fetched' = fetched + f.k
                /\ \/ f.res = "more" /\ pc' = "prepare" /\ UNCHANGED <<values, ret>>
                   \/ f.res = "end" /\ pc' = "retry" /\ UNCHANGED <<values, ret>>
                   \/ f.res = "error" /\ Leave("IoError")
  <2>1. PICK f \in FillUntil(Unread, Grown(need), StreamLen - fetched, need) :
          /\ fetched' = fetched + f.k
          /\ \/ f.res = "more" /\ pc' = "prepare" /\ UNCHANGED <<values, ret>>
             \/ f.res = "end" /\ pc' = "retry" /\ UNCHANGED <<values, ret>>
             \/ f.res = "error" /\ Leave("IoError")
    BY <1>2
  <2>2. cap' \in Nat /\ cap <= cap' /\ need <= cap' /\ Unread <= cap'
    BY <1>2, Counts DEF Grown
  <2>3. /\ f.k \in Nat /\ f.k <= StreamLen - fetched /\ Unread + f.k <= cap'
        /\ f.res = "end" => f.k = StreamLen - fetched
    <3>1. f \in FillUntil(Unread, cap', StreamLen - fetched, need)
      BY <1>2
    <3>2. /\ f.k \in 0..(StreamLen - fetched) /\ Unread + f.k <= cap'
          /\ f.res = "end" => f.k = StreamLen - fetched
      BY <2>2, <3>1, Counts, FillUntilFacts
    <3> QED BY <3>2, Counts
  <2>4. /\ fetched' \in 0..StreamLen /\ fetched <= fetched'
        /\ Unread' \in Nat /\ Unread' <= cap' /\ Unread <= Unread'
        /\ f.res = "end" => fetched' = StreamLen
    <3>1. /\ fetched' \in 0..StreamLen /\ fetched <= fetched'
          /\ f.res = "end" => fetched' = StreamLen
      BY <2>1, <2>3, Counts
    <3>2. Unread' = Unread + f.k
      BY <1>0, <2>1, <2>3, Counts DEF Unread
    <3> QED BY <2>3, <3>1, <3>2, Counts
  <2>5. consumed' \in 0..fetched' /\ start' \in 0..consumed'
    BY <1>0, <2>4, Counts
  <2>6. CASE f.res = "error" /\ Leave("IoError")
    <3>1. pc' = "idle" /\ ret' = "IoError" /\ values' = values
      BY <2>6 DEF Leave
    <3>2. fetched' - consumed' <= cap'
      BY <2>4 DEF Unread
    <3> QED BY <1>0, <2>2, <2>4, <2>5, <3>1, <3>2, IdleIInv DEF Returns
  <2>7. CASE /\ f.res \in {"more", "end"} /\ UNCHANGED <<values, ret>>
             /\ f.res = "more" => pc' = "prepare"
             /\ f.res = "end" => pc' = "retry"
    <3>1. MinUnits <= Unread' /\ MinUnits <= cap'
      BY <1>0, <2>2, <2>4, AtItem, Counts
    <3>2. SafeForAnyCodec'
      BY <1>0, <2>2, <2>4, <2>5, <2>7, <3>1 DEF SafeForAnyCodec, TypeOK
    <3>3. Item' = Item /\ Item \in Items /\ Item.width \in MinUnits..MaxUnits
      BY <1>0, AtItem DEF Item, ItemType
    <3>4. NeverWaitsForNextValue'
      BY <2>7, <3>3 DEF NeverWaitsForNextValue, Goal, PrepareGoal
    <3>5. CallsKeepWindow' /\ AcceptedIsWhole'
      BY <1>0, <2>4, <2>7, <3>1 DEF CallsKeepWindow, AcceptedIsWhole
    <3> QED BY <3>2, <3>4, <3>5 DEF IInv
  <2> QED BY <2>1, <2>6, <2>7
<1> QED BY <1>1, <1>2 DEF Refill

LEMMA RetryAtEofIInv == ASSUME IInv, RetryAtEof PROVE IInv'
<1> USE DecodeDriverAssumption
<1>0. /\ pc = "retry" /\ UNCHANGED <<faulty, stream, fetched, cap, need, start>>
      /\ fetched = StreamLen /\ start = consumed
  BY DEF RetryAtEof, sourceVars, IInv, CallsKeepWindow
<1>1. PICK a \in CodecDecode(Item, Unread, TRUE) :
        \/ a.res = "Ok" /\ Accept(a.n, Unread)
        \/ a.res = "Incomplete" /\ Truncated(a.n)
        \/ a.res = "Invalid" /\ \E hint \in Hints : Reject(hint, Unread)
  BY DEF RetryAtEof
<1>2. /\ Item \in Items /\ Item.width \in MinUnits..MaxUnits
      /\ Unread \in Nat /\ MinUnits <= Unread
  BY <1>0, AtItem, Counts DEF ItemType
<1>3. /\ a.n \in Nat
      /\ ~faulty /\ a.res = "Ok"
           => \/ /\ Item.kind # "invalid"
                 /\ a.n = Item.width /\ Item.width <= Unread
              \/ /\ Item.kind = "munch"
                 /\ a.n = Unread /\ Item.width > Unread
      /\ ~faulty /\ a.res = "Incomplete" => a.n > Unread /\ a.n <= Item.width
      /\ ~faulty /\ a.res = "Invalid" => Item.width <= Unread
  BY <1>2, CodecDecodeFacts
<1>4. CASE a.res = "Ok" /\ Accept(a.n, Unread)
  <2>1. Unread = StreamLen - consumed
    BY <1>0 DEF Unread
  <2>2. ~faulty => a.n \in Reader!ValueUnits
    BY <1>0, <1>2, <1>3, <1>4, <2>1
       DEF Reader!ValueUnits, Reader!Whole, Reader!Cut, Reader!Rest, Item
  <2> QED BY <1>0, <1>2, <1>3, <1>4, <2>2, AcceptIInv
<1>5. CASE a.res = "Incomplete" /\ Truncated(a.n)
  <2>1. CASE /\ a.n > MaxUnits \/ a.n <= Unread
             /\ Leave("Panic") \/ Leave("InvalidData")
             /\ UNCHANGED consumed
    BY <1>0, <1>2, <1>3, <1>5, <2>1, LeaveIInv DEF Returns
  <2>2. CASE consumed' = fetched /\ Leave("UnexpectedEof")
    <3>1. pc' = "idle" /\ ret' = "UnexpectedEof" /\ values' = values
      BY <2>2 DEF Leave
    <3>2. /\ consumed' \in 0..fetched' /\ start' \in 0..consumed'
          /\ fetched' - consumed' <= cap' /\ fetched' \in 0..StreamLen /\ cap' \in Nat
      BY <1>0, <2>2, Counts
    <3>3. values \in Seq((0..StreamLen) \X (0..StreamLen)) /\ need' \in 0..MaxUnits
      BY <1>0 DEF IInv, SafeForAnyCodec, TypeOK
    <3> QED BY <1>0, <3>1, <3>2, <3>3, IdleIInv DEF Returns
  <2> QED BY <1>5, <2>1, <2>2 DEF Truncated
<1>6. CASE a.res = "Invalid" /\ \E hint \in Hints : Reject(hint, Unread)
  BY <1>0, <1>2, <1>3, <1>6, RejectIInv
<1> QED BY <1>1, <1>4, <1>5, <1>6

LEMMA ReadEndsIInv == ASSUME IInv, ReadEnds PROVE IInv'
<1> USE DecodeDriverAssumption
<1>0. UNCHANGED <<faulty, stream, fetched, consumed, cap, need, start>>
  BY DEF ReadEnds, sourceVars, bufferVars
<1>1. CASE Leave("FinishError") \/ (faulty /\ Leave("Panic"))
  BY <1>0, <1>1, LeaveIInv DEF Returns
<1>2. CASE pc' = "idle" /\ ret' = "Value" /\ values' = Append(values, <<start, consumed>>)
  <2>1. /\ fetched \in 0..StreamLen /\ consumed \in 0..fetched /\ cap \in Nat
        /\ fetched - consumed <= cap /\ need \in 0..MaxUnits /\ start \in 0..consumed
        /\ values \in Seq((0..StreamLen) \X (0..StreamLen))
    BY DEF IInv, SafeForAnyCodec, TypeOK, Unread
  <2>2. <<start, consumed>> \in (0..StreamLen) \X (0..StreamLen)
    BY <2>1
  <2>3. values' \in Seq((0..StreamLen) \X (0..StreamLen))
    BY <1>2, <2>1, <2>2
  <2> QED BY <1>0, <1>2, <2>1, <2>3, IdleIInv DEF Returns
<1> QED BY <1>1, <1>2 DEF ReadEnds

LEMMA NextIInv == IInv /\ [Next]_vars => IInv'
<1>1. ASSUME IInv, UNCHANGED vars PROVE IInv'
  BY <1>1 DEF vars, sourceVars, bufferVars, IInv, SafeForAnyCodec, TypeOK, Unread,
     NeverWaitsForNextValue, Goal, Item, CallsKeepWindow, AcceptedIsWhole,
     Reader!ValueUnits, Reader!Whole, Reader!Cut, Reader!Rest
<1> QED
  BY <1>1, ReadBeginsIInv, PrepareWindowIInv, DecodeWindowIInv, RefillIInv,
     RetryAtEofIInv, ReadEndsIInv DEF Next

\* Reading single values: the inductive invariant.
THEOREM InductiveInvariant == Spec => []IInv
  BY InitIInv, NextIInv, PTL DEF Spec

\* Whatever counts and hints a codec reports, read_one consumes only units it
\* has read, shows the codec at least its minimum and buffers no more than the
\* capacity; a codec that keeps its contract is never accused.
THEOREM SafeReader == Spec => []SafeForAnyCodec
<1>1. IInv => SafeForAnyCodec
  BY DEF IInv
<1> QED BY <1>1, InductiveInvariant, PTL

\* read_one waits for no unit behind the value it reads, so that a peer which
\* answers value by value cannot be waited for in vain.
THEOREM NoReadAhead == Spec => []NeverWaitsForNextValue
<1>1. IInv => NeverWaitsForNextValue
  BY DEF IInv
<1> QED BY <1>1, InductiveInvariant, PTL

----------------------------------------------------------------------------
(* The refinement: what each step is to a reader of the stream.            *)

\* A lying codec promises nothing, and that is what the mapping says.
LEMMA FaultyRefines ==
    ASSUME faulty, UNCHANGED <<faulty, stream>>
    PROVE  UNCHANGED Reader!vars
  BY DEF Reader!vars

\* Nothing is taken from the stream before the call that took it returns.
LEMMA QuietRefines ==
    ASSUME IInv, pc # "finish", UNCHANGED <<faulty, stream, values>>,
           \/ consumed' = consumed /\ pc' # "finish"
           \/ pc' = "finish" /\ start' = consumed
    PROVE  UNCHANGED Reader!vars
  BY DEF Reader!vars

LEMMA RejectRefines ==
    ASSUME IInv, ~faulty, pc \in {"decode", "retry"}, NEW avail \in Nat, avail <= Unread,
           NEW hint \in Hints, Reject(hint, avail), Item.width <= avail,
           Item.kind = "invalid", UNCHANGED <<faulty, stream, start>>
    PROVE  [Reader!Next]_(Reader!vars)
<1> USE DecodeDriverAssumption
<1>1. /\ Item.consumed \in Nat /\ Item.width \in Nat /\ Item.consumed <= avail
      /\ MinUnits <= Unread /\ Unread <= StreamLen - consumed
  BY AtItem, Counts DEF ItemType, Unread
<1>2. pc' = "idle" /\ values' = values
  BY DEF Reject, Leave
<1>3. CASE Item.action = "Reject"
  <2>1. consumed' = consumed
    BY <1>3, Counts DEF Reject, Hints
  <2> QED BY <1>2, <2>1, QuietRefines
<1>4. CASE Item.action # "Reject"
  <2>1. consumed' = consumed + Item.consumed
    BY <1>1, <1>4 DEF Reject, Hints
  <2>2. Item.width <= StreamLen - consumed /\ MinUnits <= StreamLen - consumed
    BY <1>1, Counts
  <2> QED
    BY <1>2, <1>4, <2>1, <2>2
       DEF Item, Reader!Next, Reader!PassOver, Reader!Whole, Reader!Rest
<1> QED BY <1>3, <1>4

\* The rest of the stream is neither a value nor a malformed one.
LEMMA DropTailRefines ==
    ASSUME IInv, ~faulty, pc \in {"prepare", "retry"},
           \/ StreamLen - consumed < MinUnits
           \/ Item.width > StreamLen - consumed /\ Item.kind # "munch",
           StreamLen - consumed < MinUnits \/ Item.width \in Nat,
           pc' = "idle", consumed' = StreamLen, UNCHANGED <<faulty, stream, values>>
    PROVE  [Reader!Next]_(Reader!vars)
<1>1. StreamLen - consumed \in Nat /\ MinUnits \in Nat
  BY Counts, DecodeDriverAssumption
<1> QED
  BY <1>1 DEF Item, Reader!Next, Reader!DropTail, Reader!Whole, Reader!Cut, Reader!Rest

LEMMA PrepareWindowRefines ==
    ASSUME IInv, ~faulty, PrepareWindow PROVE [Reader!Next]_(Reader!vars)
<1> USE DecodeDriverAssumption
<1>0. pc = "prepare" /\ MinUnits <= cap /\ UNCHANGED <<faulty, stream>>
  BY DEF PrepareWindow, sourceVars, IInv, CallsKeepWindow
<1>1. PICK f \in FillUntil(Unread, cap, StreamLen - fetched, MinUnits) :
        \/ f.res = "more" /\ pc' = "decode" /\ UNCHANGED <<consumed, values>>
        \/ f.res = "end" /\ consumed' = fetched + f.k /\ Leave("UnexpectedEof")
        \/ f.res = "error" /\ Leave("IoError") /\ UNCHANGED consumed
  BY DEF PrepareWindow, PrepareGoal
<1>2. CASE f.res = "end" /\ consumed' = fetched + f.k /\ Leave("UnexpectedEof")
  <2>1. f.k = StreamLen - fetched /\ Unread + (StreamLen - fetched) < MinUnits
    BY <1>0, <1>2, Counts, FillUntilFacts
  <2>2. consumed' = StreamLen /\ StreamLen - consumed < MinUnits
    BY <1>2, <2>1, Counts DEF Unread
  <2> QED BY <1>0, <1>2, <2>2, DropTailRefines DEF Leave
<1>3. CASE f.res # "end"
  BY <1>0, <1>1, <1>3, QuietRefines DEF Leave
<1> QED BY <1>1, <1>2, <1>3

LEMMA DecodeWindowRefines ==
    ASSUME IInv, ~faulty, DecodeWindow PROVE [Reader!Next]_(Reader!vars)
<1>0. /\ pc = "decode" /\ UNCHANGED <<faulty, stream, fetched, cap, start>>
      /\ start = consumed
  BY DEF DecodeWindow, sourceVars, IInv, CallsKeepWindow
<1>1. PICK a \in CodecDecode(Item, Window, FALSE) :
        \/ Accept(a.n, Window)
        \/ Leave("Panic") /\ UNCHANGED consumed
        \/ RefillAfterIncomplete(a.n, Window)
        \/ a.res = "Invalid" /\ \E hint \in Hints : Reject(hint, Window)
  BY DEF DecodeWindow
<1>2. Item \in Items /\ Window \in Nat /\ MinUnits <= Window /\ Window <= Unread
  BY <1>0, AtItem
<1>3. CASE Accept(a.n, Window)
  BY <1>0, <1>3, QuietRefines DEF Accept, Leave
<1>4. CASE \/ Leave("Panic") /\ UNCHANGED consumed
           \/ RefillAfterIncomplete(a.n, Window)
  BY <1>0, <1>4, QuietRefines DEF RefillAfterIncomplete, Leave
<1>5. CASE a.res = "Invalid" /\ \E hint \in Hints : Reject(hint, Window)
  <2>1. Item.kind = "invalid" /\ Item.width <= Window
    BY <1>2, <1>5, CodecDecodeFacts
  <2> QED BY <1>0, <1>2, <1>5, <2>1, RejectRefines
<1> QED BY <1>1, <1>3, <1>4, <1>5

LEMMA RefillRefines == ASSUME IInv, Refill PROVE UNCHANGED Reader!vars
<1>1. /\ pc = "refill" /\ UNCHANGED <<faulty, stream, consumed, values>>
      /\ pc' # "finish"
  BY DEF Refill, sourceVars, Leave
<1> QED BY <1>1, QuietRefines

LEMMA RetryAtEofRefines ==
    ASSUME IInv, ~faulty, RetryAtEof PROVE [Reader!Next]_(Reader!vars)
<1>0. /\ pc = "retry" /\ UNCHANGED <<faulty, stream, fetched, cap, start>>
      /\ start = consumed /\ fetched = StreamLen /\ Unread = StreamLen - consumed
  BY DEF RetryAtEof, sourceVars, IInv, CallsKeepWindow, Unread
<1>1. PICK a \in CodecDecode(Item, Unread, TRUE) :
        \/ Accept(a.n, Unread)
        \/ a.res = "Incomplete" /\ Truncated(a.n)
        \/ a.res = "Invalid" /\ \E hint \in Hints : Reject(hint, Unread)
  BY DEF RetryAtEof
<1>2. Item \in Items /\ Unread \in Nat /\ MinUnits <= Unread /\ Item.width \in Nat
  BY <1>0, AtItem, Counts, DecodeDriverAssumption DEF ItemType
<1>3. CASE Accept(a.n, Unread)
  BY <1>0, <1>3, QuietRefines DEF Accept, Leave
<1>4. CASE a.res = "Incomplete" /\ Truncated(a.n)
  <2>1. a.n \in Nat /\ a.n > Unread /\ a.n <= Item.width /\ Item.kind # "munch"
    BY <1>2, <1>4, CodecDecodeFacts
  <2>2. CASE Leave("Panic") /\ UNCHANGED consumed
    BY <1>0, <2>2, QuietRefines DEF Leave
  <2>3. CASE consumed' = fetched /\ Leave("UnexpectedEof")
    <3>1. Item.width > StreamLen - consumed
      BY <1>0, <1>2, <2>1
    <3> QED BY <1>0, <1>2, <2>1, <2>3, <3>1, DropTailRefines DEF Leave
  <2> QED BY <1>2, <1>4, <2>1, <2>2, <2>3 DEF Truncated
<1>5. CASE a.res = "Invalid" /\ \E hint \in Hints : Reject(hint, Unread)
  <2>1. Item.kind = "invalid" /\ Item.width <= Unread
    BY <1>2, <1>5, CodecDecodeFacts
  <2> QED BY <1>0, <1>2, <1>5, <2>1, RejectRefines
<1> QED BY <1>1, <1>3, <1>4, <1>5

LEMMA ReadEndsRefines == ASSUME IInv, ~faulty, ReadEnds PROVE [Reader!Next]_(Reader!vars)
<1>1. /\ pc = "finish" /\ pc' = "idle"
      /\ UNCHANGED <<faulty, stream, consumed, start>>
      /\ \/ values' = Append(values, <<start, consumed>>)
         \/ values' = values
  BY DEF ReadEnds, Leave, sourceVars, bufferVars
<1>2. PICK n \in Reader!ValueUnits : n = consumed - start
  BY <1>1 DEF IInv, AcceptedIsWhole
<1>3. consumed = start + n
  BY <1>2, Counts
<1>4. CASE values' = Append(values, <<start, consumed>>)
  BY <1>1, <1>3, <1>4 DEF Reader!Next, Reader!Read
<1>5. CASE values' = values
  BY <1>1, <1>3, <1>5 DEF Reader!Next, Reader!Lose
<1> QED BY <1>1, <1>4, <1>5

\* However the source cuts the stream and wherever a refill fails, each read
\* returns, passes over or drops what the stream holds at its position: the
\* driver implements ValueReader.
THEOREM DriverImplementsReader == Spec => ImplementsValueReader
<1>1. Init => Reader!Init
  BY DEF Init, Reader!Init
<1>2. IInv /\ [Next]_vars => [Reader!Next]_(Reader!vars)
  <2> SUFFICES ASSUME IInv, [Next]_vars PROVE [Reader!Next]_(Reader!vars)
    OBVIOUS
  <2>1. UNCHANGED <<faulty, stream>>
    BY DEF Next, ReadBegins, PrepareWindow, DecodeWindow, Refill, RetryAtEof,
           ReadEnds, vars, sourceVars
  <2>2. CASE faulty
    BY <2>1, <2>2, FaultyRefines
  <2>3. CASE ~faulty /\ ReadBegins
    <3>1. /\ pc # "finish" /\ pc' # "finish" /\ UNCHANGED <<consumed, values>>
      BY <2>3 DEF ReadBegins, Leave
    <3> QED BY <2>1, <3>1, QuietRefines
  <2>4. CASE UNCHANGED vars
    BY <2>4 DEF vars, sourceVars, bufferVars, Reader!vars
  <2> QED
    BY <2>2, <2>3, <2>4, PrepareWindowRefines, DecodeWindowRefines, RefillRefines,
       RetryAtEofRefines, ReadEndsRefines DEF Next
<1> QED
  BY <1>1, <1>2, InductiveInvariant, PTL DEF Spec, ImplementsValueReader, Reader!Spec

=============================================================================
