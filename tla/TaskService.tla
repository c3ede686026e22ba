----------------------------- MODULE TaskService -----------------------------
(***************************************************************************)
(* What the emulator promises to its callers, without threads, mutex or    *)
(* condition variable: tasks are performed one by one in the order they    *)
(* were submitted, each at most once; a shutdown may drop those that are   *)
(* pending; a blocking call is released only when its task is no longer    *)
(* pending.                                                                *)
(***************************************************************************)
EXTENDS Integers, Sequences

VARIABLES
    last,       \* the number of the last task submitted
    pending,    \* the tasks not yet performed, oldest first
    performed,  \* the tasks performed, in that order
    dropped,    \* the tasks a shutdown dropped
    owed        \* the tasks whose blocking submitter still waits

vars == <<last, pending, performed, dropped, owed>>

IsPending(t) == \E k \in DOMAIN pending : pending[k] = t

Init == last = 0 /\ pending = <<>> /\ performed = <<>> /\ dropped = {} /\ owed = {}

Submit ==
    /\ last' = last + 1
    /\ pending' = Append(pending, last + 1)
    /\ owed' \in {owed, owed \cup {last + 1}}
    /\ UNCHANGED <<performed, dropped>>

Perform ==
    /\ pending # <<>>
    /\ performed' = Append(performed, Head(pending))
    /\ pending' = Tail(pending)
    /\ UNCHANGED <<last, dropped, owed>>

Drop ==
    /\ dropped' = dropped \cup {pending[k] : k \in DOMAIN pending}
    /\ pending' = <<>>
    /\ UNCHANGED <<last, performed, owed>>

Release ==
    /\ \E t \in owed : ~IsPending(t) /\ owed' = owed \ {t}
    /\ UNCHANGED <<last, pending, performed, dropped>>

Next == Submit \/ Perform \/ Drop \/ Release

Spec == Init /\ [][Next]_vars
=============================================================================
