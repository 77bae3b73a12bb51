----------------------------- MODULE DecodeStep -----------------------------
(* One decode attempt of the engines: what a Codec and its decode hooks    *)
(* may answer for the value that starts at the cursor, and what            *)
(* TranscodeDecodeEngine::decode_one makes of the answer.                  *)
(*                                                                         *)
(* The bytes of the stream are abstracted to the item a decoder positioned *)
(* at each unit would find there:                                          *)
(*   "value"   a value of width units;                                     *)
(*   "munch"   the same, but decode_eof also accepts the prefix the end of *)
(*             the input leaves of it;                                     *)
(*   "invalid" a malformed span of width units: the hooks answer action,   *)
(*             advancing by consumed units when they skip or emit.         *)
(* A codec that sees fewer than width units answers Incomplete with any    *)
(* requirement above what it sees and up to the width.                     *)
(* Faulty codecs and hooks answer any count up to MaxUnits + 1: the        *)
(* engines' assertions are then what keeps the cursors inside the buffers. *)
EXTENDS Integers

CONSTANTS MinUnits,      \* Codec::MIN_UNITS_PER_VALUE
          MaxUnits,      \* Codec::MAX_DECODE_UNITS_PER_VALUE
          Items,         \* the items a stream may hold
          Faulty         \* TRUE: codec and hooks may break their contracts

Actions == {"Reject", "Skip", "Emit"}

ItemType == [kind     : {"value", "munch", "invalid"},
             width    : MinUnits..MaxUnits,
             action   : Actions,
             consumed : 1..MaxUnits]

\* assert_unit_bounds, and a hook policy that answers from the malformed span
\* alone. The documentation allows any count the decoder sees; a policy that
\* used that freedom would decode differently for every way of cutting the
\* stream into calls.
ASSUME DecodeStepAssumption ==
    /\ MinUnits \in Nat \ {0}
    /\ MaxUnits \in Nat
    /\ MinUnits <= MaxUnits
    /\ Faulty \in BOOLEAN
    /\ Items \subseteq ItemType
    /\ \A i \in Items : i.consumed <= i.width

\* Codec::decode and Codec::decode_eof: Ok and Incomplete carry a count.
Answer(res, n) == [res |-> res, n |-> n]

HonestDecode(item, avail, eof) ==
    IF item.width <= avail
    THEN {Answer(IF item.kind = "invalid" THEN "Invalid" ELSE "Ok", item.width)}
    ELSE IF eof /\ item.kind = "munch"
    THEN {Answer("Ok", avail)}
    ELSE {Answer("Incomplete", r) : r \in (avail + 1)..item.width}

\* Mutant: decode_eof is called although more input may come.
CodecDecodeAlwaysEof(item, avail, eof) == HonestDecode(item, avail, TRUE)

CodecDecode(item, avail, eof) ==
    HonestDecode(item, avail, eof)
      \cup (IF Faulty
            THEN {Answer(res, n) : res \in {"Ok", "Incomplete", "Invalid"},
                                   n \in 1..(MaxUnits + 1)}
            ELSE {})

\* The units handle_invalid_decode asks to consume.
HookConsumed(item) ==
    {item.consumed} \cup (IF Faulty THEN 1..(MaxUnits + 1) ELSE {})

\* DecodeOutcome, the error return and the failed assertion.
Outcome(kind, n, sub) == [kind |-> kind, n |-> n, sub |-> sub]

OutcomeKinds == {"Emitted", "Skipped", "NeedInput", "Error", "Panic"}

\* Mutant: the tail is consumed together with the unit that never came.
ApplyIncompleteOneMore(tail, avail) ==
    CASE tail = "Reject" -> Outcome("Error", 0, "tail")
      [] tail = "Skip"   -> Outcome("Skipped", avail + 1, "tail")
      [] tail = "Emit"   -> Outcome("Emitted", avail + 1, "tail")

\* apply_incomplete_decode: Skip and Emit take the whole tail.
ApplyIncomplete(tail, avail) ==
    CASE tail = "Reject" -> Outcome("Error", 0, "tail")
      [] tail = "Skip"   -> Outcome("Skipped", avail, "tail")
      [] tail = "Emit"   -> Outcome("Emitted", avail, "tail")

\* apply_invalid_decode_action with bound_consumed's assertion.
ApplyInvalid(item, n, avail) ==
    IF item.action = "Reject" THEN Outcome("Error", 0, "item")
    ELSE IF n > avail THEN Outcome("Panic", 0, "item")
    ELSE IF item.action = "Skip" THEN Outcome("Skipped", n, "item")
    ELSE Outcome("Emitted", n, "replacement")

\* The arm for Ok((value, consumed)) with its two assertions.
ApplyOk(n, avail) ==
    IF n > avail \/ n > MaxUnits
    THEN Outcome("Panic", 0, "item")
    ELSE Outcome("Emitted", n, "value")

\* Mutant: the end of input is forgotten.
ApplyIncompleteAnswerNoEof(n, tail, avail, eof) ==
    IF n <= avail \/ n > MaxUnits
    THEN Outcome("Panic", 0, "item")
    ELSE Outcome("NeedInput", n, "item")

\* The arm for DecodeFailure::Incomplete with its two assertions.
ApplyIncompleteAnswer(n, tail, avail, eof) ==
    IF n <= avail \/ n > MaxUnits
    THEN Outcome("Panic", 0, "item")
    ELSE IF ~eof THEN Outcome("NeedInput", n, "item")
    ELSE ApplyIncomplete(tail, avail)

\* decode_one on the item at the cursor with avail > 0 units visible. tail is
\* what handle_incomplete_decode answers.
DecodeOne(item, tail, avail, eof) ==
    IF avail < MinUnits
    THEN {IF eof THEN ApplyIncomplete(tail, avail)
          ELSE Outcome("NeedInput", MinUnits, "item")}
    ELSE LET answers == CodecDecode(item, avail, eof)
             with(res) == {a.n : a \in {b \in answers : b.res = res}}
         IN  {ApplyOk(n, avail) : n \in with("Ok")}
               \cup {ApplyIncompleteAnswer(n, tail, avail, eof) :
                         n \in with("Incomplete")}
               \cup (IF with("Invalid") = {} THEN {}
                     ELSE {ApplyInvalid(item, n, avail) :
                               n \in HookConsumed(item)})

=============================================================================
