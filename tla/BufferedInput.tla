---------------------------- MODULE BufferedInput ----------------------------
(* The reader below the decode bridges: qubit_io::BufferedInput over an    *)
(* Input, seen through the calls the bridges make. It is a library. Of its *)
(* buffer only counts matter: unread units buffered, cap the capacity,     *)
(* waiting what the source could still give. A refill gets k units and     *)
(* ends with "more" (enough is buffered), "end" (the source returned       *)
(* zero) or "error".                                                       *)
EXTENDS Integers

CONSTANT IoErrors        \* TRUE: reads, allocations and seeks may fail

ASSUME IoErrorsAssumption == IoErrors \in BOOLEAN

Fill(k, res) == [k |-> k, res |-> res]

\* Every error a call may end with, none when I/O is reliable.
Failing(S) == IF IoErrors THEN S ELSE {}

\* fill_more: one successful read.
FillMore(unread, cap, waiting) ==
    (IF waiting = 0 THEN {Fill(0, "end")}
     ELSE {Fill(k, "more") : k \in {j \in 1..waiting : unread + j <= cap}})
      \cup Failing({Fill(0, "error")})

\* fill_until: reads until count units are buffered; what arrived before an
\* error or the end stays buffered. cap >= count.
FillUntil(unread, cap, waiting, count) ==
    IF unread >= count THEN {Fill(0, "more")}
    ELSE (IF unread + waiting < count THEN {Fill(waiting, "end")}
          ELSE {Fill(k, "more") :
                    k \in {j \in 1..waiting : unread + j \in count..cap}})
         \cup Failing({Fill(k, "error") :
                           k \in {j \in 0..waiting : unread + j < count}})

=============================================================================
