----------------------- MODULE ValueCodecRegistryProps -----------------------
(* What the registries promise to the threads of a program.                *)
EXTENDS ValueCodecRegistry, Bags

IdsOf(regs) == {regs[i].id : i \in DOMAIN regs}

Twice(regs) ==
    {id \in Ids : Cardinality({i \in DOMAIN regs : regs[i].id = id}) > 1}

\* What every call has to come to, from the bag of the registrations alone.
\* An id is found in a registry iff it was registered, with its descriptor;
\* an error names the least duplicate and each of its declarations, in order.
Describes(result, regs) ==
    IF Twice(regs) = {}
    THEN /\ result.tag = "Ok"
         /\ ToBag(result.regs) = ToBag(regs)
         /\ IsSorted(result.regs, LAMBDA r, s : r.id <= s.id)
         /\ \A id \in Ids :
               Get(result, id) = {r \in Range(regs) : r.id = id}
    ELSE LET least == Min(Twice(regs))
         IN  /\ result.tag = "DuplicateId"
             /\ result.id = least
             /\ IsSorted(result.sources, <=)
             /\ \A d \in Descriptors :
                    Cardinality({i \in DOMAIN result.sources : result.sources[i] = d})
                      = Cardinality({i \in DOMAIN regs :
                                        regs[i] = [id |-> least, desc |-> d]})

(* Whoever asks for a registry, first or later, for the shared one or for  *)
(* one of its own, is given the same answer: it does not depend on the     *)
(* order in which the linker left the factories or on who won the race to  *)
(* build (try_global, from_registrations, build). global panics exactly    *)
(* when that answer is an error, and the codec that an erased call runs is *)
(* one that was registered under the id, for the type it was given.        *)
SameAnswerForEveryone ==
    /\ \A w \in Wires :
          cell[w] \notin {Uninit, Busy} => Describes(cell[w], linked[w])
    /\ \A t \in Threads :
          /\ at[t].pc = "has" => Describes(at[t].result, linked[at[t].wire])
          /\ at[t].pc = "panicked" => Twice(linked[at[t].wire]) # {}
          /\ at[t].pc = "ran" =>
                /\ [id |-> at[t].id, desc |-> at[t].codec]
                      \in Range(linked[at[t].wire])
                /\ (at[t].outcome = "TypeMismatch") <=> (at[t].type # at[t].codec)

\* Why they all agree: the inventory does not change, a call names one of its
\* wires, and what a thread or a cell has was built from it.
IInv ==
    /\ DOMAIN linked = Wires /\ DOMAIN cell = Wires /\ DOMAIN at = Threads
    /\ \A w \in Wires : linked[w] \in Seq(Registrations)
    /\ \A t \in Threads :
          /\ at[t].pc \in {"building", "waiting", "has"} => at[t].wire \in Wires
          /\ at[t].pc = "id" =>
                at[t].bytes \in Seq(ByteClasses) /\ at[t].outcome = Validate(at[t].bytes)
    /\ SameAnswerForEveryone

Segments(bytes) ==
    LET dots == {i \in 1..Len(bytes) : bytes[i] = "dot"} \cup {0, Len(bytes) + 1}
    IN  {SubSeq(bytes, i + 1, Min({j \in dots : j > i}) - 1) :
            i \in dots \ {Len(bytes) + 1}}

WellFormed(segment) ==
    /\ segment # <<>>
    /\ segment[1] = "letter"
    /\ Range(segment) \subseteq {"letter", "digit", "underscore"}

(* try_new accepts exactly the ids whose dot-separated segments are all    *)
(* well formed, and the error of a rejected one is true of it: EmptySegment *)
(* only when a segment is empty, InvalidSegment only when one that is not  *)
(* empty is malformed (validate, validate_segment).                        *)
IdErrorIsTrue ==
    \A t \in Threads : at[t].pc = "id" =>
        LET segments == Segments(at[t].bytes)
        IN  CASE at[t].outcome = "Ok" -> \A s \in segments : WellFormed(s)
              [] at[t].outcome = "Empty" -> at[t].bytes = <<>>
              [] at[t].outcome = "EmptySegment" -> <<>> \in segments
              [] at[t].outcome = "InvalidSegment" ->
                    \E s \in segments : s # <<>> /\ ~WellFormed(s)

-----------------------------------------------------------------------------
\* What TLC links: three registrations of string codecs and one of bytes.
MCMaxLinked == [w \in Wires |-> IF w = "string" THEN 3 ELSE 1]

=============================================================================
