---------------------------- MODULE TraceCompare ----------------------------
(***************************************************************************)
(* tools/nvdla_test_framework/trace.py: how the register trace of a run on *)
(* the virtual platform is parsed, normalised and compared with another.   *)
(* A transaction is [interface, operation, register, data, response]; a    *)
(* register stands for its offset.                                         *)
(***************************************************************************)
EXTENDS Integers, Sequences, FiniteSets

CONSTANTS
    StateRegisters,     \* whose reads poll: *_S_STATUS, *_S_POINTER, INTR_STATUS, INTR_MASK
    AddressRegisters,   \* whose writes are addresses of DMA buffers
    HighRegisters,      \* those of them that hold the upper half
    OutputRegisters,    \* those of them that may be zero
    ExtmemBase, ExtmemHigh,
    InterruptStatus,    \* GLB_S_INTR_STATUS_0, a set of bits
    Masked              \* what an address is replaced by

LOCAL INSTANCE SequencesExt
LOCAL INSTANCE FiniteSetsExt

-----------------------------------------------------------------------------
(* canonicalize_vp_trace: a log has transactions, malformed ones and noise. *)

Transactions(log) == SelectSeq(log, LAMBDA l : l.kind = "transaction")
OnInterface(log, interface) == SelectSeq(Transactions(log), LAMBDA l : l.event.interface = interface)
ParseFails(log) == \E k \in DOMAIN log : log[k].kind = "malformed"
NotOk(log) == {k \in DOMAIN Transactions(log) : Transactions(log)[k].event.response # "ok"}
ParseStatus(log) ==
    IF ~ParseFails(log) /\ NotOk(log) = {} /\ OnInterface(log, "csb") # <<>> THEN 0 ELSE 1
Events(log) ==
    LET csb == OnInterface(log, "csb")
    IN  [k \in DOMAIN csb |-> csb[k].event]

-----------------------------------------------------------------------------
(* normalize_csb_events.                                                   *)

IsStateRead(e) == e.operation = "read" /\ e.register \in StateRegisters
IsAddressWrite(e) == e.operation = "write" /\ e.register \in AddressRegisters

ValidAddress(e) ==
    IF e.register \in HighRegisters THEN e.data = 0
    ELSE \/ e.data = 0 /\ e.register \in OutputRegisters
         \/ e.data \in ExtmemBase..ExtmemHigh /\ e.data % 4 = 0

NormalizationErrors(events) ==
    {k \in DOMAIN events : \/ events[k].response # "ok"
                           \/ IsAddressWrite(events[k]) /\ ~ValidAddress(events[k])}

\* A state read is dropped if the last one of that register saw the same value.
Repeats(events, k) ==
    LET before == {j \in 1..(k - 1) : IsStateRead(events[j]) /\ events[j].register = events[k].register}
    IN  IsStateRead(events[k]) /\ before # {} /\ events[Max(before)].data = events[k].data

Normalize(events) ==
    LET Mask(e) == IF IsAddressWrite(e) THEN [e EXCEPT !.data = Masked] ELSE e
    IN  FlattenSeq([k \in DOMAIN events |-> IF Repeats(events, k) THEN <<>> ELSE <<Mask(events[k])>>])

-----------------------------------------------------------------------------
(* compare_normalized_traces: the interrupts apart from everything else.   *)

Programming(events) == SelectSeq(events, LAMBDA e : e.register # InterruptStatus)
Interrupts(events) == SelectSeq(events, LAMBDA e : e.register = InterruptStatus)

Occurrences(events, e) == Cardinality({k \in DOMAIN events : events[k] = e})
Surplus(events, others) ==
    MapThenSumSet(LAMBDA e : Max({0, Occurrences(events, e) - Occurrences(others, e)}), ToSet(events))

SameLocation(d, e) == d.operation = e.operation /\ d.register = e.register

\* _compare_sequence.
CompareSequence(reference, candidate) ==
    LET common == 1..Min({Len(reference), Len(candidate)})
        differ == {k \in common : reference[k] # candidate[k]}
        values == {k \in differ : SameLocation(reference[k], candidate[k]) /\ reference[k].data # candidate[k].data}
    IN  [match |-> reference = candidate,
         missing |-> Surplus(reference, candidate), unexpected |-> Surplus(candidate, reference),
         valueMismatched |-> Cardinality(values),
         reordered |-> Cardinality({k \in differ \ values : /\ reference[k] \in ToSet(candidate)
                                                            /\ candidate[k] \in ToSet(reference)}),
         firstMismatch |-> IF differ # {} THEN Min(differ)
                           ELSE IF Len(reference) # Len(candidate) THEN Max(common \cup {0}) + 1 ELSE 0]

\* _summarize_interrupt_service: from each status that was read, the same value
\* written and then none read; where that fails the reading goes on after the
\* part that fitted.
Acknowledges(events, k) ==
    /\ k + 1 <= Len(events) /\ events[k + 1].operation = "write" /\ events[k + 1].data = events[k].data
Confirms(events, k) == k <= Len(events) /\ events[k].operation = "read" /\ events[k].data = {}

Service(events) ==
    LET n == Len(events)
        after[k \in 1..(n + 3)] ==
            IF k > n THEN [valid |-> TRUE, served |-> <<>>]
            ELSE LET Error(next) == [after[next] EXCEPT !.valid = FALSE]
                     e == events[k]
                 IN  IF e.operation = "read" /\ e.data = {} THEN after[k + 1]
                     ELSE IF e.operation # "read" THEN Error(k + 1)
                     ELSE IF k + 1 > n THEN Error(n + 1)
                     ELSE IF ~Acknowledges(events, k) THEN Error(k + 1)
                     ELSE IF k + 2 > n THEN Error(n + 1)
                     ELSE IF ~Confirms(events, k + 2) THEN Error(k + 2)
                     ELSE [after[k + 3] EXCEPT !.served = <<e.data>> \o @]
    IN  after[1]

BitCount(served, bit) == Cardinality({k \in DOMAIN served : bit \in served[k]})
BitsOf(served) == UNION {served[k] : k \in DOMAIN served}
SameBatches(r, c) == r = c
SameBits(r, c) == \A bit \in BitsOf(r) \cup BitsOf(c) : BitCount(r, bit) = BitCount(c, bit)

CompareInterrupts(reference, candidate) ==
    LET r == Service(reference)
        c == Service(candidate)
    IN  [match |-> r.valid /\ c.valid /\ SameBits(r.served, c.served), reference |-> r, candidate |-> c]

CompareTraces(reference, candidate) ==
    LET programming == CompareSequence(Programming(reference), Programming(candidate))
        interrupts == CompareInterrupts(Interrupts(reference), Interrupts(candidate))
    IN  [match |-> programming.match /\ interrupts.match, programming |-> programming, interrupts |-> interrupts]

-----------------------------------------------------------------------------
(* compare_trace_artifacts: the artifacts of two runs, a hash that neither *)
(* of them recorded being the same in both.                                *)

CompareArtifacts(reference, candidate) ==
    LET trace == CompareTraces(Normalize(reference.events), Normalize(candidate.events))
    IN  IF reference.status # "pass" THEN "reference_invalid"
        ELSE IF reference.output # candidate.output THEN "output_mismatch"
        ELSE IF candidate.status # "pass" THEN "runtime_failure"
        ELSE IF \/ reference.hashes # candidate.hashes
                \/ NormalizationErrors(reference.events) # {} \/ NormalizationErrors(candidate.events) # {}
                \/ ~trace.match
             THEN "trace_mismatch"
        ELSE "pass"
=============================================================================
