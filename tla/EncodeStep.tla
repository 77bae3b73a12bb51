----------------------------- MODULE EncodeStep -----------------------------
(* One encode attempt of the engines: TranscodeEncodeEngine::encode_one on *)
(* a value, with what the target codec and the encode hooks answer for it. *)
(* A value is abstracted to its target:                                    *)
(*   "ok"          the codec encodes it in exactly len units (len may be   *)
(*                 0: a codec that buffers);                               *)
(*   "fails"       encode_len answers len and encode returns an error;     *)
(*   "unencodable" can_encode_value is false and the hooks answer action,  *)
(*                 a replacement being len units wide;                     *)
(*   "lies"        encode_len and encode answer any counts, or an error:   *)
(*                 the contract is broken, as by the hooks' action         *)
(*                 "Misreplace", whose replacement lies or is itself       *)
(*                 unencodable.                                            *)
EXTENDS Integers

CONSTANTS MaxEncode,     \* Codec::MAX_ENCODE_UNITS_PER_VALUE
          Targets        \* the values to encode

TargetType == [kind   : {"ok", "fails", "lies", "unencodable"},
               len    : 0..MaxEncode,
               action : {"Reject", "Skip", "Replace", "Misreplace"}]

ASSUME EncodeStepAssumption ==
    /\ MaxEncode \in Nat
    /\ Targets \subseteq TargetType

Lies(target) ==
    \/ target.kind = "lies"
    \/ target.kind = "unencodable" /\ target.action = "Misreplace"

\* encode_len's answer and the count encode reports after it.
EncodeAnswers(target) ==
    IF Lies(target) THEN (0..(MaxEncode + 1)) \X (0..(MaxEncode + 1))
    ELSE {<<target.len, target.len>>}

\* EncodeOutcome, the error return and the failed assertion.
EncodeOutcome(kind, n) == [kind |-> kind, n |-> n]

EncodeOutcomeKinds == {"Consumed", "NeedOutput", "Error", "Panic"}

\* Mutant: the width is not compared with the room left.
EncodeSizedNoRoomCheck(target, avail, required, written) ==
    IF required > MaxEncode THEN EncodeOutcome("Panic", 0)
    ELSE IF target.kind = "fails" THEN EncodeOutcome("Error", 0)
    ELSE IF written # required THEN EncodeOutcome("Panic", 0)
    ELSE EncodeOutcome("Consumed", required)

\* The tail encode_encodable_value and encode_replacement_value share: the
\* exact width is reserved before the codec writes, and checked after it.
EncodeSized(target, avail, required, written) ==
    IF required > MaxEncode THEN EncodeOutcome("Panic", 0)
    ELSE IF avail < required THEN EncodeOutcome("NeedOutput", required)
    ELSE IF target.kind = "fails" THEN EncodeOutcome("Error", 0)
    ELSE IF written # required THEN EncodeOutcome("Panic", 0)
    ELSE EncodeOutcome("Consumed", required)

EncodeEncodable(target, avail) ==
    {EncodeSized(target, avail, a[1], a[2]) : a \in EncodeAnswers(target)}
        \cup (IF Lies(target) THEN {EncodeOutcome("Error", 0)} ELSE {})

\* apply_unencodable_action; a replacement must itself be encodable.
ApplyUnencodable(target, avail) ==
    CASE target.action = "Reject"  -> {EncodeOutcome("Error", 0)}
      [] target.action = "Skip"    -> {EncodeOutcome("Consumed", 0)}
      [] target.action = "Replace" -> EncodeEncodable(target, avail)
      [] target.action = "Misreplace" ->
            EncodeEncodable(target, avail) \cup {EncodeOutcome("Panic", 0)}

\* Mutant: the hooks are asked before any room is known to be there.
UnencodableRoomNone == 0

\* The room an unencodable value needs before its hook is asked: the
\* replacement is not known yet.
UnencodableRoom == MaxEncode

\* TRUE when encode_one calls handle_unencodable_encode.
AsksHook(target, avail) ==
    target.kind = "unencodable" /\ avail >= UnencodableRoom

EncodeOne(target, avail) ==
    CASE target.kind # "unencodable" -> EncodeEncodable(target, avail)
      [] AsksHook(target, avail)     -> ApplyUnencodable(target, avail)
      [] OTHER                       -> {EncodeOutcome("NeedOutput", MaxEncode)}

=============================================================================
