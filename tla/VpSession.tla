------------------------------ MODULE VpSession ------------------------------
(***************************************************************************)
(* run_vp_test: the modern lane boots a platform whose guest loads the     *)
(* module and runs a workload or the smoke utility Repeat times, and judges *)
(* what the console and the output directory show of it; the reference     *)
(* lane judges two commands in the image.                                  *)
(***************************************************************************)
EXTENDS VpConsole

CONSTANT Repeat         \* max(1, repeat)
ASSUME RepeatAssumption == Repeat \in Nat \ {0}

LOCAL INSTANCE SequencesExt

VARIABLES
    mode,       \* of the modern lane: "runtime" or "smoke"
    rootfs,     \* does its image run the script by itself, or show a login
    guest,      \* what the guest does next
    module, dri, server, client, compare, status,   \* the variables of its script
    writable,   \* the status of the mount of the output directory
    statusFile, \* /tmp/runtime.status: what the smoke utility has left of its exit code
    exits,      \* of each run of the workload or of the utility, how it really ended
    output,     \* runtime-output/o_000000.dimg on the host
    login,      \* login_seen
    completed,  \* script_completed
    manifest    \* what the host has decided

scriptVars == <<module, dri, server, client, compare, status, writable, statusFile, exits>>
guestVars  == <<mode, rootfs, guest, scriptVars, output>>
verdictVars == <<login, completed, manifest>>
sessionVars == <<consoleVars, guestVars, verdictVars>>

NoManifest == [status |-> "none", diagnosis |-> "none"]

SessionInit ==
    /\ ConsoleInit /\ host = "prepare"
    /\ mode \in {"runtime", "smoke"} /\ rootfs \in {"autorun", "login"}
    /\ guest = "off"
    /\ module = NoStatus /\ dri = NoStatus /\ server = 1 /\ client = 97 /\ compare = 97 /\ status = 97
    /\ writable = NoStatus /\ statusFile = <<>> /\ exits = <<>>
    /\ output = "none"
    /\ login = FALSE /\ completed = FALSE /\ manifest = NoManifest

-----------------------------------------------------------------------------
(* The guest.  Any of its steps may never come.                            *)

GuestKeeps == UNCHANGED <<vp, readerVars, verdictVars, mode, rootfs>>
HostUntouched == UNCHANGED hostVars
ScriptUntouched == UNCHANGED <<scriptVars, output>>

\* The kernel prints its version, whose number sign may be read as a prompt.
Boot ==
    /\ Running /\ guest = "off"
    /\ \E banner \in {<<>>, <<Token("banner"), Token("text")>>} : Say(banner)
    /\ guest' = rootfs
    /\ GuestKeeps /\ HostUntouched /\ ScriptUntouched

\* write_rootfs_autorun_script.
Autorun ==
    /\ Running /\ guest = "autorun"
    /\ \E mounted \in {0, 1} :
        /\ Say(<<Token("autorun"), Status("payload_mount", mounted)>>)
        /\ IF mounted = 0 THEN guest' = "script" /\ UNCHANGED status
           ELSE guest' = "exit" /\ status' = 1
    /\ GuestKeeps /\ HostUntouched /\ UNCHANGED <<module, dri, server, client, compare, writable, statusFile, exits, output>>

Getty ==
    /\ Running /\ guest = "login"
    /\ Say(<<Token("login")>>) /\ guest' = "user"
    /\ GuestKeeps /\ HostUntouched /\ ScriptUntouched

\* Whatever is typed at the prompt for a user is taken for one.
User ==
    /\ Running /\ guest = "user" /\ typed # <<>> /\ Read
    /\ IF Hears("root") THEN Say(<<Token("prompt")>>) /\ guest' = "shell"
       ELSE \E echo \in Echoes("marker") : Say(echo) /\ guest' = "login"
    /\ GuestKeeps /\ ScriptUntouched

Shell ==
    /\ Running /\ guest = "shell" /\ typed # <<>> /\ Read
    /\ IF Hears("root") THEN Say(<<Token("prompt")>>) /\ UNCHANGED guest
       ELSE \E echo \in Echoes("marker") : Say(echo) /\ guest' = "script"
    /\ GuestKeeps /\ ScriptUntouched

\* The mount for the output, the module, what its probe says and the device.
Script ==
    /\ Running /\ guest = "script"
    /\ \E w, m, d \in {0, 1}, config \in {"match", "other"} :
        /\ m = 1 => d = 1
        /\ d = 1 \/ mode = "smoke" => w = 1 /\ config = "match"
        /\ writable' = (IF mode = "runtime" THEN w ELSE 1) /\ module' = m /\ dri' = d
        /\ Say(<<Status("module_load", m)>>
                 \o (IF m = 0 THEN <<[kind |-> "probe", name |-> config, value |-> NoStatus]>> ELSE <<>>)
                 \o <<Status("dev_dri", d)>>)
    /\ guest' = mode
    /\ GuestKeeps /\ HostUntouched /\ UNCHANGED <<server, client, compare, status, statusFile, exits, output>>

DeviceReady == module = 0 /\ dri = 0
\* The directory is there; a render node in it is looked for once, before the loop.
NodeSeen == IF exits = <<>> THEN BOOLEAN ELSE {TRUE}

\* nvdla_flatbuf_client.py: what the server may answer to each of its commands.
Commands == <<"GET_WELCOME", "RUN_FLATBUF", "GET_NUMOUTPUTS", "GET_OUTPUT", "SHUTDOWN">>
Fine == [k \in 1..5 |-> "fine"]
Conversations == {Fine} \cup {[Fine EXCEPT ![k] = fault] : k \in 1..5, fault \in {"ERR", "closed"}}
                        \cup {[Fine EXCEPT ![2] = "FAILED"], [Fine EXCEPT ![3] = "zero"]}

\* _check_response, and PASSED in the answer to RUN_FLATBUF.  The answer to
\* GET_OUTPUT is a file whatever it says.
Raises(k, answer) == answer = "closed" \/ answer = "FAILED" \/ (answer = "ERR" /\ Commands[k] # "GET_OUTPUT")
RunProtocol(answers, data) ==
    LET Reached(k) == \A j \in 1..(k - 1) : ~Raises(j, answers[j])
    IN  [status |-> IF Reached(6) THEN 0 ELSE 1,
         file |-> IF ~Reached(5) \/ answers[3] = "zero" THEN "none"
                  ELSE IF answers[4] = "ERR" THEN "other" ELSE data]

\* What the kernel's log shows of an operation of the SDP engine.
Sdp(answers) ==
    <<[kind |-> "sdp", name |-> IF answers[2] = "closed" THEN "stuck" ELSE "completed", value |-> NoStatus]>>

\* One turn of the script's loop: server, client, comparison and copies.
GoesOn == TRUE
RunsOn == client' = 0 /\ compare' = 0
RuntimeRun ==
    /\ Running /\ guest = "runtime" /\ Len(exits) < Repeat
    /\ \E node \in NodeSeen :
       IF ~(DeviceReady /\ node)
       THEN /\ client' = 98 /\ compare' = 98 /\ Say(<<>>)
            /\ exits' = Append(exits, 98) /\ UNCHANGED <<server, output>>
       ELSE \E ready \in {0, 1}, answers \in Conversations, data \in {"golden", "zero", "other"} :
            LET run == RunProtocol(answers, data)
                file == IF ready = 0 THEN run.file ELSE "none"
            IN  /\ answers # Fine \/ ready = 1 => data = "golden"
                /\ server' = ready
                /\ client' = (IF ready = 0 THEN run.status ELSE 125)
                /\ compare' = (IF client' # 0 THEN 126 ELSE IF file = "golden" THEN 0 ELSE 1)
                /\ output' = IF writable = 0 /\ file # "none" THEN file ELSE output
                /\ exits' = Append(exits, IF client' = 0 /\ file = "golden" THEN 0 ELSE 1)
                /\ Say(IF ready = 0 THEN Sdp(answers) ELSE <<>>)
    /\ status' = IF client' = 0 /\ compare' = 0 THEN 0 ELSE 1
    /\ guest' = IF RunsOn /\ Len(exits') < Repeat THEN "runtime" ELSE "report"
    /\ GuestKeeps /\ HostUntouched /\ UNCHANGED <<module, dri, writable, statusFile>>

\* The smoke utility runs in the background; its exit code is written by a
\* shell that first creates the file.
SmokeStart ==
    /\ Running /\ guest = "smoke" /\ Len(exits) < Repeat
    /\ \E node \in NodeSeen :
       IF DeviceReady /\ node THEN statusFile' = <<>> /\ guest' = "poll" /\ UNCHANGED <<status, exits>>
       ELSE status' = 98 /\ guest' = "report" /\ exits' = Append(exits, 98) /\ UNCHANGED statusFile
    /\ Say(<<>>)
    /\ GuestKeeps /\ HostUntouched /\ UNCHANGED <<module, dri, server, client, compare, writable, output>>

SmokeExit ==
    /\ Running /\ guest = "poll" /\ statusFile = <<>>
    /\ \E code \in {0, 1} : exits' = Append(exits, code)
    /\ statusFile' = <<NoStatus>>
    /\ Say(<<>>)
    /\ GuestKeeps /\ HostUntouched
    /\ UNCHANGED <<guest, module, dri, server, client, compare, status, writable, output>>

SmokeWrite ==
    /\ Running /\ guest = "poll" /\ statusFile = <<NoStatus>>
    /\ statusFile' = <<Last(exits)>>
    /\ Say(<<>>)
    /\ GuestKeeps /\ HostUntouched
    /\ UNCHANGED <<guest, module, dri, server, client, compare, status, writable, exits, output>>

\* The script reads the file as soon as it is there; to compare nothing with
\* zero is an error, and not a reason to leave the loop.
SmokePoll ==
    /\ Running /\ guest = "poll"
    /\ \/ statusFile # <<>> /\ status' = Head(statusFile) /\ UNCHANGED exits
       \/ statusFile = <<>> /\ status' = 124 /\ exits' = Append(exits, 124)
    /\ guest' = IF status' \in {0, NoStatus} /\ Len(exits') < Repeat THEN "smoke" ELSE "report"
    /\ Say(<<>>)
    /\ GuestKeeps /\ HostUntouched /\ UNCHANGED <<module, dri, server, client, compare, writable, statusFile, output>>

\* The last statuses of the script, and its exit code.
ReportStatus ==
    /\ Running /\ guest = "report"
    /\ Say(IF mode = "runtime"
           THEN <<Status("runtime_server_ready", server), Status("runtime_client", client),
                  Status("runtime_compare", compare), Status("runtime", status)>>
           ELSE <<Status("smoke", status)>>)
    /\ status' = IF DeviceReady /\ status = 0 THEN 0 ELSE 1
    /\ guest' = "exit"
    /\ GuestKeeps /\ HostUntouched
    /\ UNCHANGED <<module, dri, server, client, compare, writable, statusFile, exits, output>>

Exit ==
    /\ Running /\ guest = "exit"
    /\ Say(<<Status("exit", status)>>) /\ guest' = "poweroff"
    /\ GuestKeeps /\ HostUntouched /\ ScriptUntouched

PowerOff ==
    /\ Running /\ guest = "poweroff"
    /\ vp' = "ended" /\ guest' = "off"
    /\ UNCHANGED <<console, readerVars, hostVars, verdictVars, mode, rootfs, scriptVars, output>>

Guest ==
    \/ Boot \/ Autorun \/ Getty \/ User \/ Shell \/ Script \/ RuntimeRun
    \/ SmokeStart \/ SmokeExit \/ SmokeWrite \/ SmokePoll
    \/ ReportStatus \/ Exit \/ PowerOff
=============================================================================
