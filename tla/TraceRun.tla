------------------------------ MODULE TraceRun ------------------------------
(***************************************************************************)
(* A run on the virtual platform as its register trace shows it: a driver  *)
(* that programs one operation after the other, an accelerator that ends   *)
(* them in its own time, and an interrupt service that reads the status,   *)
(* writes it back and reads it again.  Two such runs differ in how often   *)
(* they poll, in where their buffers are and in what happens while the     *)
(* service is at work.  The driver and the accelerator are outside the     *)
(* repository; trace.py states what it expects of them.                    *)
(***************************************************************************)
EXTENDS TraceCompare
LOCAL INSTANCE SequencesExt

CONSTANTS
    Program,        \* the operations of the reference: [bit, needs], needs before it
    Programs,       \* the operations that a candidate may run instead
    Buffers,        \* where a candidate may have its buffers
    MaxPolls        \* bound: further reads while it waits

VARIABLES
    program, issued, running, ended,
    buffer,
    status,         \* bits of ended operations
    handled,        \* operations whose bit has been acknowledged
    servicePc, seen,
    polls,
    raced,          \* an operation ended while the service was at work
    trace

hardwareVars == <<running, ended, status>>
serviceVars  == <<servicePc, seen, handled>>
vars == <<program, buffer, issued, hardwareVars, serviceVars, polls, raced, trace>>

Pointer == "S_POINTER"
Address == "ADDR_LOW"
Enable  == "OP_ENABLE"

Transaction(operation, register, data) ==
    [interface |-> "csb", operation |-> operation, register |-> register, data |-> data, response |-> "ok"]

Programs1(p, k, where) ==
    <<Transaction("read", Pointer, 0), Transaction("write", Address, where), Transaction("write", Enable, p[k].value)>>
Serves(bits) ==
    <<Transaction("read", InterruptStatus, bits), Transaction("write", InterruptStatus, bits),
      Transaction("read", InterruptStatus, {})>>

\* The reference ran its operations one at a time.
Reference ==
    FoldLeft(LAMBDA acc, k : acc \o Programs1(Program, k, ExtmemBase) \o Serves({Program[k].bit}), <<>>,
             [k \in DOMAIN Program |-> k])

TraceInit ==
    /\ program \in Programs /\ buffer \in Buffers
    /\ issued = 0 /\ running = {} /\ ended = {} /\ status = {} /\ handled = {}
    /\ servicePc = "idle" /\ seen = {} /\ polls = 0 /\ raced = FALSE
    /\ trace = <<>>

Records(events) == trace' = trace \o events

\* The next operation, once those it needs have been handled.
ProgramNext ==
    /\ issued < Len(program) /\ program[issued + 1].needs \subseteq handled
    /\ issued' = issued + 1 /\ running' = running \cup {issued + 1}
    /\ Records(Programs1(program, issued + 1, buffer))
    /\ UNCHANGED <<program, buffer, ended, status, serviceVars, polls, raced>>

\* The driver looks again at what it waits for.
Poll ==
    /\ polls < MaxPolls /\ polls' = polls + 1 /\ issued > 0
    /\ Records(<<Transaction("read", Pointer, 0)>>)
    /\ UNCHANGED <<program, buffer, issued, hardwareVars, serviceVars, raced>>

OperationEnds(op) ==
    /\ op \in running /\ running' = running \ {op} /\ ended' = ended \cup {op}
    /\ status' = status \cup {program[op].bit}
    /\ raced' = (raced \/ servicePc # "idle")
    /\ UNCHANGED <<program, buffer, issued, serviceVars, polls, trace>>

ReadStatus ==
    /\ servicePc = "idle" /\ status # {}
    /\ seen' = status /\ servicePc' = "acknowledge"
    /\ Records(<<Transaction("read", InterruptStatus, status)>>)
    /\ UNCHANGED <<program, buffer, issued, hardwareVars, handled, polls, raced>>

Acknowledge ==
    /\ servicePc = "acknowledge" /\ servicePc' = "confirm"
    /\ status' = status \ seen
    /\ handled' = handled \cup {op \in ended : program[op].bit \in seen}
    /\ Records(<<Transaction("write", InterruptStatus, seen)>>)
    /\ UNCHANGED <<program, buffer, issued, running, ended, seen, polls, raced>>

Confirm ==
    /\ servicePc = "confirm" /\ servicePc' = "idle"
    /\ Records(<<Transaction("read", InterruptStatus, status)>>)
    /\ UNCHANGED <<program, buffer, issued, hardwareVars, handled, seen, polls, raced>>

TraceNext == ProgramNext \/ Poll \/ ReadStatus \/ Acknowledge \/ Confirm \/ \E op \in running : OperationEnds(op)

RunOver == issued = Len(program) /\ running = {} /\ status = {} /\ servicePc = "idle"

-----------------------------------------------------------------------------
\* What a platform prints of its transactions: others than those of the
\* registers too, and lines that are none.
Printed(events) ==
    <<[kind |-> "noise"]>> \o
    FlattenSeq([k \in DOMAIN events |->
        <<[kind |-> "transaction", event |-> events[k]],
          [kind |-> "transaction", event |-> [events[k] EXCEPT !.interface = "dbb"]]>>])
Artifact(log) ==
    [status |-> IF ParseStatus(log) = 0 THEN "pass" ELSE "fail", events |-> Events(log), output |-> "golden", hashes |-> <<>>]

\* The comparison sees the program and nothing but the program: two runs that
\* returned the same output pass exactly if they programmed the same operations
\* in the same order, however often they polled, wherever in the memory pool
\* their buffers were and however their interrupts fell together, unless an
\* operation ended while the service was at work.
TracesMatchIfEquivalent ==
    RunOver =>
        LET verdict == CompareArtifacts(Artifact(Printed(Reference)), Artifact(Printed(trace)))
            comparison == CompareTraces(Normalize(Reference), Normalize(trace))
            pooled == buffer \in ExtmemBase..ExtmemHigh /\ buffer % 4 = 0
        IN  /\ verdict = (IF program = Program /\ ~raced /\ pooled THEN "pass" ELSE "trace_mismatch")
            /\ comparison.match => \A op \in ended :
                BitCount(comparison.interrupts.candidate.served, program[op].bit)
                  = Cardinality({other \in ended : program[other].bit = program[op].bit})
=============================================================================
