-------------------------------- MODULE VpHost --------------------------------
(***************************************************************************)
(* The host of a session of VpSession: run_vp_test, _run_modern_vp and     *)
(* _run_modern_serial, and classify_sdp_small_diagnostic of its artifact.  *)
(***************************************************************************)
EXTENDS VpSession

LOCAL INSTANCE SequencesExt

Ends(result, diagnosis) == manifest' = [status |-> result, diagnosis |-> diagnosis]
HostKeeps == UNCHANGED <<outputVars, readerVars, guestVars>>

\* _check_required_paths, _resolve_workload, _build_smoke_binary: without all
\* of its files nothing runs; nor does it without the platform's command.
Required == {"kernel", "rootfs", "module", "runner", "dtb", "vp_binary"}
RequiredFor(m) == Required \cup IF m = "runtime" THEN {"runtime_binary", "workload"} ELSE {"smoke_source"}
Missing == {{}} \cup {{file} : file \in RequiredFor(mode)}
Builds == IF mode = "smoke" THEN {"pass", "blocked", "fail"} ELSE {"pass"}

Prepare ==
    /\ host = "prepare"
    /\ \E missing \in Missing, build \in Builds, command \in BOOLEAN :
        IF missing = {} /\ build = "pass" /\ command
        THEN Spawn("boot") /\ UNCHANGED <<guestVars, verdictVars>>
        ELSE /\ Ends(IF missing = {} /\ build # "pass" THEN build ELSE "blocked", "none")
             /\ Proceed("done")
             /\ HostKeeps /\ UNCHANGED <<login, completed>>

\* The reference lane judges two commands: the boot of the stock image, which
\* its timeout ends, and the help of the compiler.
ReferenceBoots(boot) == boot.banner /\ boot.login /\ ~boot.bad /\ boot.code \in {0, 124}
CompilerSmoke(compiler) == compiler.code = 0 /\ compiler.usage
Reference ==
    /\ host = "prepare"
    /\ \E boot \in [banner : BOOLEAN, login : BOOLEAN, bad : BOOLEAN, code : {0, 1, 124}],
          compiler \in [code : {0, 1}, usage : BOOLEAN] :
        \/ /\ Ends(IF ReferenceBoots(boot) /\ CompilerSmoke(compiler) THEN "pass" ELSE "fail", "reference")
           /\ exits' = <<boot.code, compiler.code>>
           /\ Proceed("done")
        \/ Proceed("raised") /\ UNCHANGED <<exits, manifest>>     \* docker has not returned in time
    /\ UNCHANGED <<outputVars, readerVars, mode, rootfs, guest, module, dri, server, client, compare, status,
                   writable, statusFile, output, login, completed>>

-----------------------------------------------------------------------------
\* The echo of the command that the host types has the marker, but no digits.
HasExit(text) == Shows(text, "marker") \/ Extract(text, "exit") # NoStatus
HasLoginShellOrScriptExit(text) == Shows(text, "login") \/ EndsWithPrompt(text) \/ HasExit(text)

Booting == host = "boot" /\ Drain({k \in Offered : HasLoginShellOrScriptExit(Text(k))}, "greeted") /\ HostKeeps /\ UNCHANGED verdictVars

Greeted ==
    /\ host = "greeted"
    /\ login' = (Shows(serial, "login") \/ EndsWithPrompt(serial))
    /\ IF Shows(serial, "login") THEN Send("root", "shell")
       ELSE Proceed(IF login' THEN "type" ELSE "script")
    /\ HostKeeps /\ UNCHANGED <<completed, manifest>>

AwaitShell == host = "shell" /\ Drain({k \in Offered : EndsWithPrompt(Text(k))}, "type") /\ HostKeeps /\ UNCHANGED verdictVars
TypeCommand == host = "type" /\ Send("command", "script") /\ HostKeeps /\ UNCHANGED verdictVars
AwaitExit == host = "script" /\ Drain({k \in Offered : HasExit(Text(k))}, "exited") /\ HostKeeps /\ UNCHANGED verdictVars

Exited ==
    /\ host = "exited"
    /\ completed' = seen
    /\ Proceed(IF seen THEN "grace" ELSE "stop")
    /\ HostKeeps /\ UNCHANGED <<login, manifest>>

Grace == host = "grace" /\ Drain({}, "stop") /\ HostKeeps /\ UNCHANGED verdictVars

-----------------------------------------------------------------------------
(* The judgement.                                                          *)

Bad(text) == Shows(text, "bad")
\* _extract_probe_config, _workload_config_check: the manifest of a workload may
\* name no configuration it is for, and then any will do.
ProbeConfig(text) ==
    LET found == {k \in DOMAIN text : text[k].kind = "probe"} IN IF found = {} THEN "none" ELSE text[Min(found)].name
\* compare_exact_files.
HostCompare == [status |-> IF output = "golden" THEN "pass" ELSE "fail",
                reason |-> IF output = "none" THEN "missing expected or actual file" ELSE "files differ"]

UserspaceSeen(text) == login \/ Shows(text, "autorun") \/ completed \/ HasExit(text)
ConfigFails(text, named) == named /\ ProbeConfig(text) # "match"
PassConditions(text, named) ==
    /\ UserspaceSeen(text) /\ (completed \/ HasExit(text))
    /\ \A name \in {"module_load", "dev_dri", "exit"} : Extract(text, name) = 0
    /\ \A name \in IF mode = "smoke" THEN {"smoke"}
                   ELSE {"runtime_server_ready", "runtime_client", "runtime_compare", "runtime"} :
            Extract(text, name) = 0
    /\ mode = "runtime" => HostCompare.status = "pass" /\ ~ConfigFails(text, named)
    /\ ~Bad(text)

\* classify_sdp_small_diagnostic knows two ways to fail.
SdpShape(text, shape) ==
    LET found == {k \in DOMAIN text : text[k].kind = "sdp"}
    IN  found # {} /\ (\E k \in found : text[k].name = "completed") = (shape = "completed")
Boots(text) == ProbeConfig(text) = "match" /\ Extract(text, "module_load") = 0 /\ Extract(text, "dev_dri") = 0
KnownTimeout(text) ==
    Boots(text) /\ ~Bad(text) /\ output = "none" /\ SdpShape(text, "stuck")
KnownZeroOutput(text) ==
    /\ Boots(text) /\ ~Bad(text)
    /\ Extract(text, "runtime_client") = 0 /\ Extract(text, "runtime_server_ready") = 0
    /\ output = "zero" /\ HostCompare.reason = "files differ"
    /\ SdpShape(text, "completed")
Diagnosis(text, named) ==
    IF mode = "smoke" THEN "none"
    ELSE IF PassConditions(text, named) THEN "pass"
    ELSE IF KnownTimeout(text) THEN "known_sdp_completion_timeout"
    ELSE IF KnownZeroOutput(text) THEN "known_sdp_zero_output_golden_mismatch"
    ELSE "unexpected_sdp_failure"

Judge ==
    /\ host = "judge"
    /\ \E named \in BOOLEAN : Ends(IF PassConditions(serial, named) THEN "pass" ELSE "fail", Diagnosis(serial, named))
    /\ completed' = (completed \/ HasExit(serial))
    /\ Proceed("done")
    /\ HostKeeps /\ UNCHANGED login

ModernHost ==
    \/ Booting \/ Greeted \/ AwaitShell \/ TypeCommand \/ AwaitExit \/ Exited \/ Grace
    \/ HostTail /\ UNCHANGED <<guestVars, verdictVars>>
    \/ Judge

SessionNext ==
    \/ Prepare \/ Reference \/ ModernHost
    \/ Guest
    \/ (Deliver \/ EndOfFile \/ Die \/ Trouble(guest)) /\ UNCHANGED <<guestVars, verdictVars>>

-----------------------------------------------------------------------------
\* A pass has been earned: all of the runs were made, the last of them ended
\* well, and for a workload each of them and the output that was copied; no
\* trouble was printed, not even after the last status, unless a reader that was
\* given up has not brought it.  The same goes for a failure that is excused as
\* a known one.
SessionPassIsEarned ==
    /\ manifest.status = "pass" /\ manifest.diagnosis # "reference" =>
        /\ Len(exits) = Repeat /\ Last(exits) = 0
        /\ mode = "runtime" => ToSet(exits) = {0} /\ output = "golden"
        /\ NoTroubleSeen
    /\ manifest.diagnosis \in {"known_sdp_completion_timeout", "known_sdp_zero_output_golden_mismatch"} =>
        NoTroubleSeen /\ Last(exits) # 0
    /\ manifest.status = "pass" /\ manifest.diagnosis = "reference" => exits[1] # 1 /\ exits[2] = 0

\* Every run of the utility that a pass counts has passed.
SessionSmokeRunsPass ==
    manifest.status = "pass" /\ manifest.diagnosis = "none" => ToSet(exits) = {0}
=============================================================================
