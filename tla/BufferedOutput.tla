--------------------------- MODULE BufferedOutput ---------------------------
(* The writer below the encode bridges: qubit_io::BufferedOutput over an   *)
(* Output, seen through the calls the bridges make. It is a library. pend  *)
(* units are buffered, cap is the capacity. A drain delivers j of the      *)
(* buffered units, oldest first, and ends with "ok" or "error"; what it    *)
(* did not deliver stays buffered.                                         *)
EXTENDS Integers

CONSTANT IoErrors        \* TRUE: writes, allocations and flushes may fail

ASSUME IoErrorsAssumption == IoErrors \in BOOLEAN

Drained(j, res) == [j |-> j, res |-> res]

Failing(S) == IF IoErrors THEN S ELSE {}

\* ensure_spare_capacity(count), with cap >= count.
EnsureSpare(pend, cap, count) ==
    IF pend + count <= cap THEN {Drained(0, "ok")}
    ELSE {Drained(j, "ok") : j \in {i \in 1..pend : pend - i + count <= cap}}
         \cup Failing({Drained(j, "error") : j \in 0..(pend - 1)})

\* flush: the units, then the wrapped output, which may be what fails.
FlushAll(pend) ==
    {Drained(pend, "ok")} \cup Failing({Drained(j, "error") : j \in 0..pend})

\* Output::write of n units: j buffered ones make room, then k of the n are
\* buffered or, past an empty buffer, delivered. An output may also take
\* nothing, be interrupted, or fail.
WriteSome(pend, cap, n) ==
    {[j |-> x[1], k |-> x[2], res |-> "ok"] :
        x \in {y \in (0..pend) \X (1..n) : pend - y[1] + y[2] <= cap}}
    \cup {[j |-> pend, k |-> k, res |-> "direct"] : k \in 1..n}
    \cup Failing({[j |-> j, k |-> 0, res |-> r] :
                     j \in 0..pend, r \in {"zero", "interrupted", "error"}})

=============================================================================
