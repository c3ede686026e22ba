------------------------------ MODULE VpConsole ------------------------------
(***************************************************************************)
(* The serial console that vp.py and stock.py have in common: a virtual    *)
(* platform writes it, a reader thread moves it to a queue, and the host   *)
(* takes it from there until it has seen what it waits for.  A token       *)
(* stands for the bytes that a predicate of the host tells apart.          *)
(***************************************************************************)
EXTENDS Integers, Sequences, FiniteSets

CONSTANTS
    NoStatus,       \* a status without digits, or that is not there
    TroubleAt       \* where a guest is when kernel or platform may report trouble
ASSUME NoStatusAssumption == NoStatus \notin Int

VARIABLES
    console,        \* what the platform has written
    delivered,      \* how much of it the reader has put into the queue
    taken,          \* how much of it the host has taken from there
    vp,             \* the process of the platform
    signal,         \* the last signal the host has sent to it
    reader,         \* "late" is one that the host has given up
    typed,          \* what the host has written to the guest and nobody has read
    host,           \* what the host does next
    seen            \* what its last _drain_until returned

outputVars  == <<console, vp>>
readerVars  == <<delivered, reader>>
hostVars    == <<taken, signal, typed, host, seen>>
consoleVars == <<outputVars, readerVars, hostVars>>

LOCAL INSTANCE SequencesExt

Token(kind) == [kind |-> kind, name |-> "", value |-> NoStatus]
Status(name, value) == [kind |-> "status", name |-> name, value |-> value]

serial == SubSeq(console, 1, taken)
Shows(text, kind) == \E k \in DOMAIN text : text[k].kind = kind
\* text.rstrip().endswith("#"): a prompt, or a number sign in any other line
\* at the moment it is the last byte that was read.
EndsWithPrompt(text) == text # <<>> /\ Last(text).kind \in {"prompt", "banner"}

\* _extract_status: the first one that has digits.
Statuses(text, name) ==
    {k \in DOMAIN text : text[k].kind = "status" /\ text[k].name = name /\ text[k].value # NoStatus}
Extract(text, name) ==
    LET found == Statuses(text, name) IN IF found = {} THEN NoStatus ELSE text[Min(found)].value

ConsoleInit ==
    /\ console = <<>> /\ delivered = 0 /\ taken = 0
    /\ vp = "none" /\ signal = "none" /\ reader = "none"
    /\ typed = <<>> /\ seen = FALSE

-----------------------------------------------------------------------------
(* The reader and the process.                                             *)

\* _reader_thread, until there is nothing to read: the host may stop at any byte
\* of what was delivered, so delivering less of it would show it nothing else.
Deliver ==
    /\ reader \in {"reading", "late"} /\ delivered < Len(console)
    /\ delivered' = Len(console)
    /\ UNCHANGED <<reader, outputVars, hostVars>>

EndOfFile ==
    /\ reader = "reading" /\ delivered = Len(console) /\ vp = "ended"
    /\ reader' = "done"
    /\ UNCHANGED <<delivered, outputVars, hostVars>>

\* A process may ignore the first signal, never the second one.
Die ==
    /\ vp = "running" /\ signal # "none"
    /\ vp' = "ended"
    /\ UNCHANGED <<console, readerVars, hostVars>>

-----------------------------------------------------------------------------
(* The host.                                                               *)

Spawn(next) ==
    /\ vp' = "running" /\ reader' = "reading" /\ host' = next
    /\ UNCHANGED <<console, delivered, taken, signal, typed, seen>>

Proceed(next) == host' = next /\ UNCHANGED <<taken, signal, typed, seen>>

\* _send: a pipe whose reader has ended raises, and nothing catches that.
Send(line, next) ==
    IF vp = "ended" THEN Proceed("raised")
    ELSE /\ typed' = Append(typed, line) /\ host' = next
         /\ UNCHANGED <<taken, signal, seen>>

\* What the host has when it has taken k of the console, and how much it may take.
Text(k) == SubSeq(console, 1, k)
Offered == taken..delivered

\* _drain_until: chunk after chunk, until its predicate holds of everything
\* taken so far; hits are the amounts of which it does.
\* It gives up at its deadline (what it would leave in the queue might as well
\* be delivered later), or when the process has ended and the queue is empty,
\* even if the reader has more to deliver.
Drain(hits, next) ==
    LET Returns(result, k) == seen' = result /\ taken' = k /\ host' = next
        later == hits \ {taken}
    IN  /\ \/ later # {} /\ Returns(TRUE, Min(later))
           \/ taken = delivered /\ Returns(taken \in hits, taken)
           \/ taken < delivered /\ later = {} /\ Returns(FALSE, delivered)
        /\ UNCHANGED <<signal, typed>>

Terminate ==
    /\ host = "stop"
    /\ IF vp = "ended" THEN Proceed("join")
       ELSE signal' = "term" /\ host' = "wait" /\ UNCHANGED <<taken, typed, seen>>

AwaitForever ==
    /\ host = "wait"
    /\ vp = "ended" /\ Proceed("join")
\* proc.wait(timeout=10), then proc.kill().
AwaitEnd ==
    /\ host = "wait"
    /\ \/ vp = "ended" /\ Proceed("join")
       \/ vp # "ended" /\ signal' = "kill" /\ host' = "join" /\ UNCHANGED <<taken, typed, seen>>

\* reader.join(timeout=5): a reader that has not ended by then is given up, and
\* goes on.
NoJoin == host = "join" /\ Proceed("collect") /\ UNCHANGED reader
Join ==
    /\ host = "join" /\ Proceed("collect")
    /\ reader' = IF reader = "done" THEN "done" ELSE "late"

\* The queue is emptied; a reader that was given up may have filled it with any
\* part of the rest by then, and a last _drain_until may see more of it.
Collect ==
    /\ host = "collect"
    /\ taken' \in IF reader = "done" THEN {delivered} ELSE Offered
    /\ host' = "judge"
    /\ UNCHANGED <<signal, typed, seen>>

HostTail ==
    /\ \/ (Terminate \/ AwaitEnd \/ Collect) /\ UNCHANGED reader
       \/ Join
    /\ UNCHANGED <<outputVars, delivered>>

-----------------------------------------------------------------------------
(* The guest and the platform.                                             *)

Running == vp = "running" /\ signal # "kill"

Say(tokens) == console' = console \o tokens
Hears(line) == typed # <<>> /\ Head(typed) = line
Read == typed' = Tail(typed) /\ UNCHANGED <<taken, signal, host, seen>>

\* The terminal echoes the line that it reads; a long one may be broken.
Echoes(line) == {<<>>, <<Token(line)>>}

\* The kernel or the platform prints one of KERNEL_BAD_PATTERNS while the guest
\* is there.  The first one counts.
Trouble(there) ==
    /\ Running /\ there \in TroubleAt /\ ~Shows(console, "bad")
    /\ Say(<<Token("bad")>>)
    /\ UNCHANGED <<vp, readerVars, hostVars>>

-----------------------------------------------------------------------------
\* What the host judges is everything the platform has written, unless it has
\* given the reader up.
WholeLog == host = "done" /\ reader # "late" => taken = Len(console)

\* No trouble was printed, or only where a reader that was given up had not
\* brought the host yet.
NoTroubleSeen == \A k \in DOMAIN console : console[k].kind = "bad" => reader = "late" /\ taken < k
=============================================================================
