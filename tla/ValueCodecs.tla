---------------------------- MODULE ValueCodecs ----------------------------
(* CodecValueEncoder and CodecValueDecoder (value/codec_value_encoder.rs,  *)
(* codec_value_decoder.rs, codec_value_lifecycle.rs): one value through a  *)
(* whole codec lifecycle per call. The caller appends encoded values to    *)
(* one vector, and decodes inputs of which it expects that they hold one   *)
(* value and nothing else.                                                 *)
EXTENDS TranscodeContract

CONSTANTS EncodeReset, EncodeValue, EncodeFinish,  \* the codec's encode bounds
          MinUnits, MaxUnits,      \* units of a value that is decoded
          MaxInput                 \* longest input

ASSUME ValueCodecsAssumption ==
    /\ {EncodeReset, EncodeValue, EncodeFinish, MaxInput} \subseteq Nat
    /\ MinUnits \in Nat \ {0}
    /\ MaxUnits \in Nat /\ MinUnits <= MaxUnits

VARIABLES
    faulty,      \* the codec or transcoder may break its contract; constant
    emits,       \* decode reset and finish may emit a value each; constant
    vec,         \* units in the caller's vector
    told,        \* units its successful calls say they appended
    ret          \* the last call and what it returned

Encode == INSTANCE ValueLifecycle WITH FaultyCodec <- faulty

NoReturn == [op |-> "none", res |-> "Ok"]

ValueInit ==
    /\ faulty \in BOOLEAN
    /\ emits \in BOOLEAN
    /\ vec = 0
    /\ told = 0
    /\ ret = NoReturn

----------------------------------------------------------------------------
(* Encoding.                                                               *)

\* Mutant: only a success truncates the vector.
TruncatedOnSuccess(original, units, v) ==
    IF v.res = "Ok" THEN original + v.n ELSE original + units

\* The length of a vector that was resized by units for a call that came to
\* v: truncated, except when the call unwinds.
Truncated(original, units, v) ==
    CASE v.res = "Ok" -> original + v.n
      [] v.res = "Panic" -> original + units
      [] OTHER -> original

\* encode_into up to the codec: the bound or the new length overflows, or the
\* allocation fails.
EncodeRefused(original) ==
    IF CheckedAdd(original, Encode!MaxCompleteEncodeUnits) = Overflow
    THEN {"OutputLengthOverflow"} ELSE {"AllocationFailed"}

EncodeInto ==
    LET units == Encode!MaxCompleteEncodeUnits
    IN  \/ /\ \E res \in EncodeRefused(vec) : ret' = [op |-> "encode", res |-> res]
           /\ UNCHANGED <<vec, told>>
        \/ /\ "OutputLengthOverflow" \notin EncodeRefused(vec)
           /\ \E v \in Encode!EncodeComplete(units, units) :
                 /\ vec' = Truncated(vec, units, v)
                 /\ told' = told + v.n
                 /\ ret' = [op |-> "encode", res |-> v.res]

\* encode, or the caller takes a vector of its own: it starts empty.
NewVector ==
    /\ vec' = 0
    /\ told' = 0
    /\ UNCHANGED ret

----------------------------------------------------------------------------
(* Decoding. An input has len units, and width is what its first value     *)
(* takes; a codec that keeps its contract reads no other number of units.  *)

LifecycleValues == IF emits THEN 1 ELSE 0

Decoded(res, read) == [res |-> res, read |-> read]

\* decode_finish with its assertion.
FinishDecode(read) ==
    {Decoded("FinishError", read), Decoded("Ok", read)}
    \cup (IF faulty THEN {Decoded("Panic", read)} ELSE {})

\* What decode_eof says it read.
Reads(len, width) ==
    IF faulty THEN 1..(len + MaxUnits + 1)
    ELSE IF width <= len THEN {width} ELSE {}

\* The assertions on the count, and the check for trailing input.
AcceptRead(len, read) ==
    IF read > len \/ read > MaxUnits THEN {Decoded("Panic", read)}
    ELSE IF read < len THEN {Decoded("TrailingInput", read)}
    ELSE FinishDecode(read)

\* decode_exact_complete_value after the capacity checks.
DecodeExact(len, width) ==
    {Decoded("ResetError", 0)}
    \cup (IF faulty THEN {Decoded("Panic", 0)} ELSE {})
    \cup (IF len < MinUnits THEN {Decoded("IncompleteInput", 0)}
          ELSE {Decoded("DecodeError", 0)}
               \cup (IF width > len \/ faulty THEN {Decoded("IncompleteInput", 0)}
                     ELSE {})
               \cup UNION {AcceptRead(len, n) : n \in Reads(len, width)})

\* The capacity checks that come before the first hook, on caller-owned
\* buffers of room values each.
DecodeRefused(op, room) ==
    CASE op = "decode" /\ emits -> {"UnsupportedDecodeLifecycleOutput"}
      [] op = "decode_lifecycle_with_scratch" /\ room < LifecycleValues
            -> {"InsufficientOutput"}
      [] op = "decode_lifecycle" -> {"AllocationFailed"}
      [] OTHER -> {}

\* decode, decode_lifecycle (which owns buffers of the right size) and
\* decode_lifecycle_with_scratch.
DecodeCalls == {"decode", "decode_lifecycle", "decode_lifecycle_with_scratch"}

DecodeReturns(op, len, width, d) ==
    ret' = [op |-> op, res |-> d.res, read |-> d.read, len |-> len, width |-> width]

Decode(op, len, width, room) ==
    LET refused == DecodeRefused(op, room)
    IN  /\ \/ \E res \in refused :
                 DecodeReturns(op, len, width, Decoded(res, 0))
           \/ /\ refused \in {{}, {"AllocationFailed"}}
              /\ \E d \in DecodeExact(len, width) : DecodeReturns(op, len, width, d)
        /\ UNCHANGED <<vec, told>>

ValueNext ==
    /\ \/ EncodeInto
       \/ NewVector
       \/ \E op \in DecodeCalls, len \in 0..MaxInput,
             width \in MinUnits..MaxUnits, room \in {0, 1} :
             Decode(op, len, width, room)
    /\ UNCHANGED <<faulty, emits>>

============================================================================
