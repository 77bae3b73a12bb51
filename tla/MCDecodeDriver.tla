--------------------------- MODULE MCDecodeDriver ---------------------------
(* The instances TLC checks DecodeDriver on.                               *)
EXTENDS DecodeDriverProps

Value(w) == [kind |-> "value", width |-> w, action |-> "Reject", consumed |-> 1]

Munch(w) == [kind |-> "munch", width |-> w, action |-> "Reject", consumed |-> 1]

Malformed(w, act, n) ==
    [kind |-> "invalid", width |-> w, action |-> act, consumed |-> n]

\* Widths two and three: a tail below the minimum, a prefix that is a value
\* at the end, a malformed span that is passed over in part and one that is
\* not.
SomeItems == {Value(2), Value(3), Munch(3), Malformed(3, "Skip", 1),
              Malformed(2, "Reject", 1)}

=============================================================================
