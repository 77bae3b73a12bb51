--------------------------- MODULE ValueLifecycle ---------------------------
(* One whole value through a codec, lifecycle included:                    *)
(* value/codec_value_lifecycle.rs, used by the value encoders and decoders *)
(* and by the single-value calls of the I/O bridges. Each operator is the  *)
(* set of results its function may come to, over everything the codec may  *)
(* answer: a result is an outcome and a number of units.                   *)
EXTENDS TranscodeContract

CONSTANTS EncodeReset,   \* Codec::MAX_ENCODE_RESET_UNITS
          EncodeValue,   \* Codec::MAX_ENCODE_UNITS_PER_VALUE
          EncodeFinish,  \* Codec::MAX_ENCODE_FINISH_UNITS
          FaultyCodec    \* TRUE: the codec may exceed its bounds

Result(res, n) == [res |-> res, n |-> n]

\* What a call bounded by max may say it wrote.
Writes(max) == 0..(IF FaultyCodec THEN max + 1 ELSE max)

\* max_complete_encode_units.
MaxCompleteEncodeUnits ==
    CheckedAdd(CheckedAdd(EncodeReset, EncodeValue), EncodeFinish)

\* encode_finish with its assertion, after at units.
FinishEncode(at) ==
    {Result("FinishError", 0)}
    \cup {IF n > EncodeFinish THEN Result("Panic", 0)
          ELSE Result("Ok", at + n) : n \in Writes(EncodeFinish)}

\* encode of a value of len units: the length it reports must be len.
EncodeOf(len, at) ==
    {Result("EncodeError", 0)}
    \cup UNION {IF n # len THEN {Result("Panic", 0)} ELSE FinishEncode(at + n) :
                    n \in IF FaultyCodec THEN Writes(EncodeValue) ELSE {len}}

\* can_encode_value, encode_len and the capacity check that the reservation
\* of room units makes redundant for codecs that keep their bounds.
EncodeValueIn(room, at) ==
    {Result("Unencodable", 0)}
    \cup UNION {IF len > EncodeValue THEN {Result("Panic", 0)}
                ELSE IF CapacityFailure(room, at, len + EncodeFinish) # "none"
                THEN {Result("InsufficientOutput", 0)}
                ELSE EncodeOf(len, at) : len \in Writes(EncodeValue)}

\* encode_complete_value_into_reserved: reserved units are asserted, room of
\* them are really there.
EncodeComplete(reserved, room) ==
    IF room < reserved THEN {Result("Panic", 0)}
    ELSE {Result("ResetError", 0)}
         \cup UNION {IF n > EncodeReset THEN {Result("Panic", 0)}
                     ELSE EncodeValueIn(room, n) : n \in Writes(EncodeReset)}

=============================================================================
