------------------------- MODULE ValueCodecRegistry -------------------------
(* The registries of named value codecs (value/value_codec_registry.rs,    *)
(* the two wire specialisations under value_codec_registry/, the           *)
(* registrations and the type-erased descriptors). The registration macros *)
(* leave a factory per codec in the program's inventory, in an order that  *)
(* the linker picks. The first thread that asks for the process-wide       *)
(* registry of a wire freezes it, the others wait for that and share the   *)
(* outcome, an error included.                                             *)
(*                                                                         *)
(* An id is its rank in the order of the id strings; a descriptor is the   *)
(* rank of the place it is declared at, which also stands for its codec    *)
(* and for the value type it encodes.                                      *)
EXTENDS ValueCodecId, FiniteSets

CONSTANTS Threads,       \* callers
          Wires,         \* the kinds of registry: string and bytes
          Ids,           \* ids, by rank
          Descriptors,   \* descriptors, by rank of their declaration
          MaxLinked,     \* most registrations linked for each wire
          MaxId          \* most bytes of an id that is validated

ASSUME RegistryAssumption ==
    /\ Ids \subseteq Nat
    /\ Descriptors \subseteq Nat
    /\ MaxLinked \in [Wires -> Nat]
    /\ MaxId \in Nat

VARIABLES
    linked,      \* the inventory of each wire, in link order; never changes
    cell,        \* the OnceLock of each wire
    at           \* what each thread is doing

vars == <<linked, cell, at>>

Registrations == [id : Ids, desc : Descriptors]

----------------------------------------------------------------------------
(* Freezing a registry.                                                    *)

Frozen(regs, indices) == [tag |-> "Ok", regs |-> regs, indices |-> indices]

DuplicateId(id, sources) == [tag |-> "DuplicateId", id |-> id, sources |-> sources]

\* The ways to put keys in order, as the place each one comes from. Equal keys
\* stay in the order they are in, which leaves one way.
SortOrders(keys) ==
    {order \in [DOMAIN keys -> DOMAIN keys] :
        \A i, j \in DOMAIN keys : i < j =>
            \/ keys[order[i]] < keys[order[j]]
            \/ keys[order[i]] = keys[order[j]] /\ order[i] < order[j]}

Rearranged(s, order) == [i \in DOMAIN s |-> s[order[i]]]

\* Mutant: duplicates are looked for in link order.
SortedUnsorted(regs) == {regs}

\* sort_by_key(id).
Sorted(regs) ==
    {Rearranged(regs, order) :
        order \in SortOrders([i \in DOMAIN regs |-> regs[i].id])}

\* The sources of the run of equal ids that begins at i, sorted.
SourcesFrom(regs, i) ==
    LET run == {j \in i..Len(regs) : \A k \in i..j : regs[k].id = regs[i].id}
        sources == [j \in 1..Cardinality(run) |-> regs[i + j - 1].desc]
    IN  {Rearranged(sources, order) : order \in SortOrders(sources)}

\* build, on registrations that sort_by_key has ordered: the first pair of
\* neighbours with one id is reported, or every id is given its position.
Freeze(regs) ==
    LET twins == {i \in 1..(Len(regs) - 1) : regs[i].id = regs[i + 1].id}
    IN  IF twins # {}
        THEN {DuplicateId(regs[Min(twins)].id, sources) :
                 sources \in SourcesFrom(regs, Min(twins))}
        ELSE {Frozen(regs, [id \in {regs[i].id : i \in DOMAIN regs} |->
                               CHOOSE i \in DOMAIN regs : regs[i].id = id])}

BuildRegistry(regs) == UNION {Freeze(sorted) : sorted \in Sorted(regs)}

EmptyRegistry == Frozen(<<>>, <<>>)

\* get(id): the registration at the position the index names, as a set of at
\* most one.
Get(registry, id) ==
    IF id \in DOMAIN registry.indices
    THEN {registry.regs[registry.indices[id]]} ELSE {}

----------------------------------------------------------------------------
(* Threads. A thread is idle, in a call on the registry of a wire, or it   *)
(* has what its last call gave it.                                         *)

Uninit == [tag |-> "Uninit"]
Busy == [tag |-> "Busy"]

Idle == [pc |-> "idle"]

In(pc, op, wire) == [pc |-> pc, op |-> op, wire |-> wire]

\* The outcome of a call that built a registry of, or was handed the shared
\* one for, the registrations of a wire.
Has(wire, result) == [pc |-> "has", wire |-> wire, result |-> result]

\* What an erased encode or decode gave: the codec found under id ran, or
\* refused a value of the type of descriptor type.
Ran(wire, id, type, outcome, codec) ==
    [pc |-> "ran", wire |-> wire, id |-> id, type |-> type,
     outcome |-> outcome, codec |-> codec]

Init ==
    /\ linked \in {f \in [Wires -> UNION {BoundedSeq(Registrations, n) :
                                             n \in Range(MaxLinked)}] :
                      \A w \in Wires : Len(f[w]) <= MaxLinked[w]}
    /\ cell = [w \in Wires |-> Uninit]
    /\ at = [t \in Threads |-> Idle]

\* try_global hands the cached result on; global panics on an error.
Returned(op, wire, result) ==
    IF op = "global" /\ result.tag # "Ok" THEN [pc |-> "panicked", wire |-> wire]
    ELSE Has(wire, result)

\* get_or_init on a full cell, on an empty one, and on one that another
\* thread is filling.
EnterFull(t, op, w) ==
    /\ cell[w] \notin {Uninit, Busy}
    /\ at' = [at EXCEPT ![t] = Returned(op, w, cell[w])]
    /\ UNCHANGED cell

EnterFirst(t, op, w) ==
    /\ cell[w] = Uninit
    /\ cell' = [cell EXCEPT ![w] = Busy]
    /\ at' = [at EXCEPT ![t] = In("building", op, w)]

EnterBusy(t, op, w) ==
    /\ cell[w] = Busy
    /\ at' = [at EXCEPT ![t] = In("waiting", op, w)]
    /\ UNCHANGED cell

TryGlobal(t, op, w) ==
    /\ at[t] = Idle
    /\ EnterFull(t, op, w) \/ EnterFirst(t, op, w) \/ EnterBusy(t, op, w)
    /\ UNCHANGED linked

\* The closure of get_or_init: every factory is called, the registry built,
\* and the outcome kept, an error too. A factory that the macros declare makes
\* a record of constants: it cannot panic or ask for the registry itself.
Build(t) ==
    /\ at[t].pc = "building"
    /\ \E result \in BuildRegistry(linked[at[t].wire]) :
          /\ cell' = [cell EXCEPT ![at[t].wire] = result]
          /\ at' = [at EXCEPT ![t] = Returned(at[t].op, at[t].wire, result)]
    /\ UNCHANGED linked

\* A cell that was being filled is full when it no longer is.
Wake(t) ==
    /\ at[t].pc = "waiting"
    /\ cell[at[t].wire] \notin {Uninit, Busy}
    /\ at' = [at EXCEPT ![t] = Returned(at[t].op, at[t].wire, cell[at[t].wire])]
    /\ UNCHANGED <<linked, cell>>

\* from_registrations: a registry of the caller's own, here of the same
\* registrations given in the opposite order.
FromRegistrations(t, w) ==
    /\ at[t] = Idle
    /\ \E result \in BuildRegistry(Reverse(linked[w])) :
          at' = [at EXCEPT ![t] = Has(w, result)]
    /\ UNCHANGED <<linked, cell>>

\* empty(): no registrations.
Empty(t, w) ==
    /\ at[t] = Idle
    /\ linked[w] = <<>>
    /\ at' = [at EXCEPT ![t] = Has(w, EmptyRegistry)]
    /\ UNCHANGED <<linked, cell>>

\* A registered codec on a value of its own type, and on an input: the Serde
\* JSON codecs serialize and parse, or fail.
CodecEncodes == {"Ok", "EncodeFailed"}

CodecDecodes == {"Ok", "DecodeFailed"}

\* descriptor().encode(value): the value's type is checked, then a new
\* default codec runs. decode has no type to check.
EncodeOutcomes(reg, type) ==
    IF type # reg.desc THEN {"TypeMismatch"} ELSE CodecEncodes

DecodeOutcomes == CodecDecodes

Execute(t, id) ==
    /\ at[t].pc = "has"
    /\ at[t].result.tag = "Ok"
    /\ \E reg \in Get(at[t].result, id), type \in Descriptors :
          \E outcome \in EncodeOutcomes(reg, type) \cup
                         (IF type = reg.desc THEN DecodeOutcomes ELSE {}) :
              at' = [at EXCEPT ![t] = Ran(at[t].wire, id, type, outcome, reg.desc)]
    /\ UNCHANGED <<linked, cell>>

\* ValueCodecId::try_new, which reads nothing but its argument: it is enough
\* to look at it in a program that links nothing and does nothing else.
TryNew(t) ==
    /\ at = [u \in Threads |-> Idle]
    /\ linked = [w \in Wires |-> <<>>]
    /\ \E bytes \in BoundedSeq(ByteClasses, MaxId) :
          at' = [at EXCEPT ![t] =
                    [pc |-> "id", bytes |-> bytes, outcome |-> Validate(bytes)]]
    /\ UNCHANGED <<linked, cell>>

\* The thread is done with what it has.
Drop(t) ==
    /\ at[t].pc \in {"has", "ran", "panicked", "id"}
    /\ at' = [at EXCEPT ![t] = Idle]
    /\ UNCHANGED <<linked, cell>>

Next ==
    \E t \in Threads :
        \/ \E w \in Wires, op \in {"try_global", "global"} : TryGlobal(t, op, w)
        \/ Build(t)
        \/ Wake(t)
        \/ \E w \in Wires : FromRegistrations(t, w) \/ Empty(t, w)
        \/ \E id \in Ids : Execute(t, id)
        \/ TryNew(t)
        \/ Drop(t)

Spec == Init /\ [][Next]_vars

=============================================================================
