----------------------------- MODULE StockControl -----------------------------
(***************************************************************************)
(* run_stock_sdp_control: the stock image, driven through its console, with *)
(* the upstream client run by docker exec in the container.                *)
(***************************************************************************)
EXTENDS VpConsole

VARIABLES
    stockGuest,     \* what the guest does next
    sshd,           \* has it a running ssh daemon
    stockOutput,    \* results/o_000000.dimg
    clientStatus,   \* client_status
    stockLogin, shell,
    served,         \* did the daemon run when the client needed it
    outcome         \* status and classification of the manifest

stockVars == <<stockGuest, sshd, stockOutput, clientStatus, stockLogin, shell, served, outcome>>
controlVars == <<stockOutput, clientStatus, stockLogin, shell, served, outcome>>

LOCAL INSTANCE SequencesExt

StockIdle ==
    /\ stockGuest = "off" /\ sshd = FALSE /\ stockOutput = "none"
    /\ clientStatus = 125 /\ stockLogin = FALSE /\ shell = FALSE /\ served = FALSE
    /\ outcome = [status |-> "none", classification |-> "none"]
StockInit == ConsoleInit /\ host = "prepare" /\ StockIdle

-----------------------------------------------------------------------------
(* The guest.                                                              *)

Runs(pc) == Running /\ stockGuest = pc
StockKeeps == UNCHANGED <<vp, readerVars, controlVars>>

StockBoot ==
    /\ Runs("off")
    /\ \E banner \in {<<>>, <<Token("banner"), Token("text")>>} : Say(banner \o <<Token("login")>>)
    /\ stockGuest' = "user"
    /\ StockKeeps /\ UNCHANGED <<sshd, hostVars>>

StockUser ==
    /\ Runs("user") /\ typed # <<>> /\ Read
    /\ \E answer \in {"prompt", "Password:"} :
        /\ Say(<<Token(answer)>>)
        /\ stockGuest' = IF answer = "prompt" THEN "shell" ELSE "password"
    /\ StockKeeps /\ UNCHANGED sshd

StockPassword ==
    /\ Runs("password") /\ typed # <<>> /\ Read
    /\ Say(<<Token("prompt")>>) /\ stockGuest' = "shell"
    /\ StockKeeps /\ UNCHANGED sshd

\* The terminal echoes the command, and its markers, before it is executed.
StockShell ==
    /\ Runs("shell") /\ typed # <<>> /\ Read
    /\ \E echo \in Echoes(Head(typed)) : Say(echo)
    /\ stockGuest' = IF Hears("setup") \/ Hears("final") THEN Head(typed) ELSE "shell"
    /\ StockKeeps /\ UNCHANGED sshd

StockSetup ==
    /\ Runs("setup")
    /\ \E drm, m, ssh \in {0, 1} :
        /\ Say(<<Status("drm_load", drm), Status("module_load", m), Status("sshd_start", ssh)>>)
        /\ sshd' = (ssh = 0)
    /\ stockGuest' = "shell"
    /\ StockKeeps /\ UNCHANGED hostVars

StockFinal ==
    /\ Runs("final")
    /\ Say(<<Token("dmesg"), Status("exit", 0)>>)
    /\ stockGuest' = "poweroff"
    /\ StockKeeps /\ UNCHANGED <<sshd, hostVars>>

StockPowerOff ==
    /\ Runs("poweroff")
    /\ vp' = "ended" /\ stockGuest' = "off"
    /\ UNCHANGED <<console, readerVars, hostVars, controlVars, sshd>>

StockGuest ==
    \/ StockBoot \/ StockUser \/ StockPassword \/ StockShell \/ StockSetup \/ StockFinal \/ StockPowerOff

-----------------------------------------------------------------------------
(* The host.                                                               *)

ControlKeeps == UNCHANGED <<outputVars, readerVars, stockGuest, sshd>>
Step(pc) == host = pc /\ ControlKeeps
JudgesNothing == UNCHANGED <<stockOutput, clientStatus, served, outcome>>

StockPrepare ==
    /\ host = "prepare"
    /\ \/ Spawn("boot") /\ UNCHANGED stockVars
       \/ Proceed("raised") /\ UNCHANGED <<outputVars, readerVars, stockVars>>   \* a workload that is not there

ShowsLogin(text) == Shows(text, "login")
PromptOrPassword(text) == EndsWithPrompt(text) \/ Shows(text, "Password:")
\* The pattern matches the echo of the command too.
SshdStarted(text) == Shows(text, "setup") \/ Extract(text, "sshd_start") # NoStatus
FinalSeen(text) == Shows(text, "final") \/ Extract(text, "exit") = 0

StockAwaits ==
    /\ \/ Step("boot") /\ Drain({k \in Offered : ShowsLogin(Text(k))}, "user")
       \/ Step("await-shell") /\ Drain({k \in Offered : PromptOrPassword(Text(k))}, "password")
       \/ Step("await-password") /\ Drain({k \in Offered : EndsWithPrompt(Text(k))}, "setup")
       \/ Step("await-sshd") /\ Drain({k \in Offered : SshdStarted(Text(k))}, "client")
       \/ Step("await-final") /\ Drain({k \in Offered : FinalSeen(Text(k))}, "stop")
    /\ UNCHANGED controlVars

StockSendRoot ==
    /\ Step("user")
    /\ stockLogin' = seen
    /\ IF seen THEN Send("root", "await-shell") ELSE Proceed("stop")
    /\ JudgesNothing /\ UNCHANGED shell

StockSendPassword ==
    /\ Step("password")
    /\ IF Shows(serial, "Password:") /\ ~EndsWithPrompt(serial) THEN Send("nvdla", "await-password")
       ELSE Proceed("setup")
    /\ UNCHANGED controlVars

StockSendSetup ==
    /\ Step("setup")
    /\ shell' = seen
    /\ IF seen THEN Send("setup", "await-sshd") ELSE Proceed("stop")
    /\ JudgesNothing /\ UNCHANGED stockLogin

\* stock-ssh-client-control.py waits for the server, and has a deadline for the
\* client as long as the server's terminal is open; docker exec has one for both.
StockClient ==
    /\ Step("client")
    /\ \E result \in {0, 1, 2, 124}, data \in {"golden", "zero", "other"} :
        /\ result = 0 => sshd
        /\ ~sshd => result \in {2, 124}
        /\ clientStatus' = result /\ served' = sshd
        /\ stockOutput' = IF result = 0 THEN data ELSE stockOutput
    /\ Proceed("final")
    /\ UNCHANGED <<stockLogin, shell, outcome>>

StockSendFinal == Step("final") /\ Send("final", "await-final") /\ UNCHANGED controlVars

StockPasses(text) ==
    /\ shell /\ Extract(text, "sshd_start") = 0 /\ clientStatus = 0
    /\ stockOutput = "golden" /\ ~Shows(text, "bad")
\* The stock runtime says that it passed, and returns a payload of zeros.
ZeroOutput(text) ==
    /\ \A name \in {"drm_load", "module_load", "sshd_start"} : Extract(text, name) = 0
    /\ clientStatus = 0 /\ stockOutput = "zero" /\ ~Shows(text, "bad")

StockJudge ==
    /\ Step("judge")
    /\ outcome' = [status |-> IF StockPasses(serial) THEN "pass" ELSE "fail",
                   classification |-> IF StockPasses(serial) THEN "pass"
                                      ELSE IF ZeroOutput(serial) THEN "runtime_pass_zero_output_golden_mismatch"
                                      ELSE "none"]
    /\ Proceed("done")
    /\ UNCHANGED <<stockOutput, clientStatus, stockLogin, shell, served>>

StockHost ==
    \/ StockAwaits \/ StockSendRoot \/ StockSendPassword \/ StockSendSetup \/ StockClient \/ StockSendFinal
    \/ HostTail /\ UNCHANGED stockVars
    \/ StockJudge

StockNext ==
    \/ StockPrepare \/ StockHost \/ StockGuest
    \/ (Deliver \/ EndOfFile \/ Die \/ Trouble(stockGuest)) /\ UNCHANGED stockVars

-----------------------------------------------------------------------------
\* A pass, and the excuse of the stock runtime, need a client that was served
\* by a daemon that was up when it connected, and no trouble on the console, as
\* far as a reader that was given up has brought it.
StockPassIsEarned ==
    outcome.classification # "none" =>
        /\ served /\ shell /\ clientStatus = 0
        /\ stockOutput = (IF outcome.status = "pass" THEN "golden" ELSE "zero")
        /\ NoTroubleSeen
=============================================================================
