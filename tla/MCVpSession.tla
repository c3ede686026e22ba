----------------------------- MODULE MCVpSession -----------------------------
(* Both programs that drive a virtual platform through its console.          *)
EXTENDS VpHost, StockControl

VARIABLE lane           \* which of them runs

vpVars == <<lane, sessionVars, stockVars>>

\* The variables of the program that does not run keep one value.
SessionIdle ==
    /\ mode = "smoke" /\ rootfs = "login" /\ guest = "off"
    /\ module = NoStatus /\ dri = NoStatus /\ server = 1 /\ client = 97 /\ compare = 97 /\ status = 97
    /\ writable = NoStatus /\ statusFile = <<>> /\ exits = <<>> /\ output = "none"
    /\ login = FALSE /\ completed = FALSE /\ manifest = NoManifest

Init ==
    \/ lane = "modern" /\ SessionInit /\ StockIdle
    \/ lane = "stock" /\ StockInit /\ SessionIdle

Next ==
    \/ lane = "modern" /\ SessionNext /\ UNCHANGED <<lane, stockVars>>
    \/ lane = "stock" /\ StockNext /\ UNCHANGED <<lane, guestVars, verdictVars>>

\* Time passes for the host.  Nothing is assumed of the guest, of the platform
\* or of the reader: every wait of the host has a deadline.
HostSteps ==
    \/ lane = "modern" /\ (Prepare \/ Reference \/ ModernHost) /\ UNCHANGED <<lane, stockVars>>
    \/ lane = "stock" /\ (StockPrepare \/ StockHost) /\ UNCHANGED <<lane, guestVars, verdictVars>>

Spec == Init /\ [][Next]_vpVars /\ WF_vpVars(HostSteps)

-----------------------------------------------------------------------------
\* _run_modern_vp 1152-1178, stock.py 437-462: a pass is earned.
PassIsEarned == SessionPassIsEarned /\ StockPassIsEarned

\* Whoever judges a console judges all that the platform has written on it,
\* although _drain_until gives up as soon as the queue is empty, unless the five
\* seconds of reader.join have passed.
LogIsWhole == WholeLog

\* The host returns whatever the guest does, also if a signal is ignored.
HostReturns == <>(host \in {"done", "raised"})

\* docs/driver-correctness-test-strategy.md:28: a pass of the smoke utility is
\* a number of runs that all passed.
SmokeRunsPass == SessionSmokeRunsPass
=============================================================================
