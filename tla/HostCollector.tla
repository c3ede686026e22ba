---------------------------- MODULE HostCollector ----------------------------
(***************************************************************************)
(* run_board_benchmark.sh on the host, the loop of run_benchmark_campaign  *)
(* around it, and what they see of the board: benchmark sessions that end  *)
(* with an archive or without one, and one link to the latest archive.     *)
(*                                                                         *)
(* A session that lost its connection goes on: nothing on the board ends   *)
(* it.  /tmp does not survive a boot, and neither does a session.  Each    *)
(* ssh or scp of the script is one action, and each of them may fail.      *)
(***************************************************************************)
EXTENDS Integers, Sequences

CONSTANTS
    Jobs,           \* sessions of a campaign
    MaxBoots,       \* bound: boots of the board
    MaxSessions,    \* bound: sessions ever started
    MaxCampaigns    \* bound: campaigns ever started

ASSUME CollectorAssumption == Jobs \in Nat \ {0} /\ {MaxBoots, MaxSessions, MaxCampaigns} \subseteq Nat

VARIABLES
    boot,               \* /proc/sys/kernel/random/boot_id, as a number
    remote,             \* the sessions that run on the board
    archives,           \* /tmp: the archives, with the session and its status
    latest,             \* the session whose archive LATEST names, or None
    hostPc, exitStatus,
    session,            \* the session this invocation started, the last one so far
    BOOT_ID, BENCHMARK_STATUS, REMOTE_ARCHIVE,
    StateFile,          \* the content of $STATE: the boot id of the last archive saved
    saved,              \* the archives the host announced as saved
    severed,            \* the boots on which a session lost its connection
    campaign, job, campaigns

boardVars    == <<boot, remote, archives, latest>>
scriptVars   == <<BOOT_ID, BENCHMARK_STATUS, REMOTE_ARCHIVE, session>>
hostVars     == <<hostPc, exitStatus, StateFile, saved, severed, scriptVars>>
campaignVars == <<campaign, job, campaigns>>
vars == <<boardVars, hostVars, campaignVars>>

None == 0
Lost == 255     \* what ssh returns when it has no connection

Init ==
    /\ boot = 1 /\ remote = {} /\ archives = {} /\ latest = None
    /\ hostPc = "idle" /\ exitStatus = 0 /\ session = 0
    /\ BOOT_ID = None /\ StateFile = None /\ BENCHMARK_STATUS = 0 /\ REMOTE_ARCHIVE = None
    /\ saved = <<>> /\ severed = {}
    /\ campaign = "none" /\ job = 0 /\ campaigns = 0

-----------------------------------------------------------------------------
(* The host script.                                                        *)

Exit(status) == hostPc' = "exited" /\ exitStatus' = status
Proceed(label) == hostPc' = label /\ UNCHANGED exitStatus

Reach ==
    /\ hostPc = "reach"
    /\ Proceed("identify") \/ Exit(Lost)
    /\ UNCHANGED <<StateFile, saved, severed, scriptVars, boardVars, campaignVars>>

AcceptsAnyBoot == TRUE
AcceptsBoot == StateFile # boot

Identify ==
    /\ hostPc = "identify"
    /\ \/ /\ BOOT_ID' = boot
          /\ IF AcceptsBoot THEN Proceed("start") ELSE Exit(1)
       \/ Exit(Lost) /\ UNCHANGED BOOT_ID
    /\ UNCHANGED <<StateFile, saved, severed, session, BENCHMARK_STATUS, REMOTE_ARCHIVE, boardVars, campaignVars>>

\* ssh runs the benchmark, or fails to; set +e keeps either status.
StartSession ==
    /\ hostPc = "start" /\ session < MaxSessions
    /\ session' = session + 1
    /\ \/ remote' = remote \cup {session + 1} /\ Proceed("running") /\ UNCHANGED BENCHMARK_STATUS
       \/ BENCHMARK_STATUS' = Lost /\ Proceed("locate") /\ UNCHANGED remote
    /\ UNCHANGED <<boot, archives, latest, BOOT_ID, REMOTE_ARCHIVE, StateFile, saved, severed, campaignVars>>

\* The status of the session reaches the host that still waits for it.
Answers(s, status) ==
    IF hostPc = "running" /\ s = session
    THEN Proceed("locate") /\ BENCHMARK_STATUS' = status
    ELSE UNCHANGED <<hostPc, exitStatus, BENCHMARK_STATUS>>

OldestArchive ==
    IF archives = {} THEN None
    ELSE (CHOOSE a \in archives : \A b \in archives : a.session <= b.session).session
LatestArchive == latest

Locate ==
    /\ hostPc = "locate"
    /\ \/ REMOTE_ARCHIVE' = LatestArchive /\ Proceed("copy")
       \/ Exit(Lost) /\ UNCHANGED REMOTE_ARCHIVE
    /\ UNCHANGED <<StateFile, saved, severed, BOOT_ID, BENCHMARK_STATUS, session, boardVars, campaignVars>>

\* scp, and tar -t of the copy.
Copy ==
    /\ hostPc = "copy"
    /\ \/ (\E a \in archives : a.session = REMOTE_ARCHIVE) /\ Proceed("remember")
       \/ Exit(1)
    /\ UNCHANGED <<StateFile, saved, severed, scriptVars, boardVars, campaignVars>>

ExitsZero == 0
ScriptStatus == BENCHMARK_STATUS

\* An archive holds the boot of its session, its name the one the script read.
Remember ==
    /\ hostPc = "remember"
    /\ StateFile' = BOOT_ID
    /\ \E a \in archives :
        /\ a.session = REMOTE_ARCHIVE
        /\ saved' = Append(saved, [name |-> BOOT_ID, boot |-> a.boot, session |-> a.session,
                                   passed |-> a.status = 0, own |-> session, exit |-> ScriptStatus,
                                   campaign |-> IF campaign = "active" THEN campaigns ELSE None])
    /\ Exit(ScriptStatus)
    /\ UNCHANGED <<severed, scriptVars, boardVars, campaignVars>>

\* The script, or its connection, is interrupted; the session is not.
Sever == severed' = severed \cup {boot}

LoseConnection ==
    /\ hostPc = "running" /\ Sever
    /\ Proceed("locate") /\ BENCHMARK_STATUS' = Lost
    /\ UNCHANGED <<StateFile, saved, BOOT_ID, REMOTE_ARCHIVE, session, boardVars, campaignVars>>

Interrupt ==
    /\ hostPc \notin {"idle", "exited"} /\ Exit(130)
    /\ IF hostPc = "running" THEN Sever ELSE UNCHANGED severed
    /\ UNCHANGED <<StateFile, saved, scriptVars, boardVars, campaignVars>>

-----------------------------------------------------------------------------
(* The board.                                                              *)

\* finish writes an archive of its own name, then replaces the link.
FinishSession(s) ==
    /\ s \in remote /\ remote' = remote \ {s}
    /\ \E status \in {0, 1} :
        /\ archives' = archives \cup {[session |-> s, status |-> status, boot |-> boot]}
        /\ Answers(s, status)
    /\ latest' = s
    /\ UNCHANGED <<boot, StateFile, saved, severed, BOOT_ID, REMOTE_ARCHIVE, session, campaignVars>>

\* set -e: a session ends before its finish, or within it after the link is gone.
AbortSession(s) ==
    /\ s \in remote /\ remote' = remote \ {s}
    /\ Answers(s, 1)
    /\ latest' \in {latest, None}
    /\ UNCHANGED <<boot, archives, StateFile, saved, severed, BOOT_ID, REMOTE_ARCHIVE, session, campaignVars>>

Boots ==
    /\ boot < MaxBoots /\ boot' = boot + 1
    /\ remote' = {} /\ archives' = {} /\ latest' = None

\* The operator, or the board by itself.
Reboot ==
    /\ Boots
    /\ IF hostPc = "running" THEN Proceed("locate") /\ BENCHMARK_STATUS' = Lost
       ELSE UNCHANGED <<hostPc, exitStatus, BENCHMARK_STATUS>>
    /\ hostPc # "remember"      \* the copy is on the host: the same as a reboot after it
    /\ UNCHANGED <<StateFile, saved, severed, BOOT_ID, REMOTE_ARCHIVE, session, campaignVars>>

-----------------------------------------------------------------------------
(* The campaign: its sessions one after the other, until one fails.        *)

\* Its first prompt asks for a freshly booted board, the later ones for a power
\* cycle: all that it waits for is a key, and the operator may have done neither.
StartCampaign ==
    /\ hostPc = "idle" /\ campaign # "active" /\ campaigns < MaxCampaigns
    /\ Boots \/ UNCHANGED boardVars
    /\ campaign' = "active" /\ campaigns' = campaigns + 1 /\ job' = 1
    /\ Proceed("reach")
    /\ UNCHANGED <<StateFile, saved, severed, scriptVars>>

RunByHand ==
    /\ hostPc = "idle" /\ campaign # "active"
    /\ Proceed("reach")
    /\ UNCHANGED <<StateFile, saved, severed, scriptVars, boardVars, campaignVars>>

MoreJobs == job < Jobs
NeverStops == FALSE
MustStop == exitStatus # 0

NextJob ==
    /\ hostPc = "exited" /\ campaign = "active"
    /\ IF MustStop THEN campaign' = "stopped" /\ Proceed("idle") /\ UNCHANGED job
       ELSE IF MoreJobs THEN job' = job + 1 /\ Proceed("reach") /\ UNCHANGED campaign
       ELSE campaign' = "complete" /\ Proceed("idle") /\ UNCHANGED job
    /\ UNCHANGED <<campaigns, StateFile, saved, severed, scriptVars, boardVars>>

EndByHand ==
    /\ hostPc = "exited" /\ campaign # "active"
    /\ Proceed("idle")
    /\ UNCHANGED <<StateFile, saved, severed, scriptVars, boardVars, campaignVars>>

Host == Reach \/ Identify \/ StartSession \/ Locate \/ Copy \/ Remember \/ LoseConnection \/ Interrupt
Board == Reboot \/ \E s \in remote : FinishSession(s) \/ AbortSession(s)
Operator == StartCampaign \/ RunByHand \/ NextJob \/ EndByHand

Next == Host \/ Board \/ Operator

Spec == Init /\ [][Next]_vars

-----------------------------------------------------------------------------
NamedForItsBoot(entry) == entry.name = entry.boot

\* No boot is measured twice unnoticed: of two saved archives of one boot, one
\* is named for another boot than the one it holds.
FreshBoots ==
    \A i, j \in DOMAIN saved :
        i # j /\ NamedForItsBoot(saved[i]) /\ NamedForItsBoot(saved[j]) => saved[i].boot # saved[j].boot

\* A script that returns 0 has saved the passing archive of the session it ran
\* itself, unless an earlier session of that boot had lost its connection.
SuccessIsOwn ==
    \A k \in DOMAIN saved :
        saved[k].exit = 0 /\ saved[k].boot \notin severed =>
            saved[k].session = saved[k].own /\ saved[k].passed

\* A complete campaign has a saved archive for each of its sessions and none
\* besides, each of them passing unless an earlier session of its boot, before
\* the campaign, had lost its connection.
CampaignIsWhole ==
    campaign = "complete" =>
        LET whole == {k \in DOMAIN saved : saved[k].campaign = campaigns} IN
        /\ \E first \in DOMAIN saved : whole = first .. first + Jobs - 1
        /\ \A k \in whole : saved[k].exit = 0 /\ (saved[k].boot \notin severed => saved[k].passed)

\* What is saved is what the session that was run has archived.
SavedIsOwn == \A k \in DOMAIN saved : saved[k].session = saved[k].own
=============================================================================
