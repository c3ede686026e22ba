------------------------- MODULE HostCollectorProofs -------------------------
(***************************************************************************)
(* Proofs about run_board_benchmark.sh and the campaign around it, for any *)
(* number of boots, sessions and campaigns of any length.                  *)
(*                                                                         *)
(* Why a boot is not measured twice: what $STATE holds is never newer than *)
(* the board, and an accepted boot is another one.  Why success is the     *)
(* session's own: on a boot on which no connection was lost no session of  *)
(* an earlier invocation is still running.                                 *)
(***************************************************************************)
EXTENDS HostCollector, TLAPS

Codes == {0, 1, 130, Lost}
Archives == [session : Nat, status : {0, 1}, boot : Nat]
Entry == [name : Nat, boot : Nat, session : Nat, passed : BOOLEAN, own : Nat, exit : Codes, campaign : Nat]

Accepted == {"start", "running", "locate", "copy", "remember"}
Afterwards == {"locate", "copy", "remember"}
InScript == {"reach", "identify"} \cup Accepted

\* Numbers of sessions and boots are given out in order; an archive is of a
\* session that is over, and of this boot.
Numbered ==
    /\ boot \in Nat \ {0} /\ session \in Nat
    /\ remote \subseteq 1 .. session
    /\ archives \subseteq Archives
    /\ \A a \in archives : a.session \in 1 .. session /\ a.session \notin remote /\ a.boot = boot
    /\ latest \in Nat /\ REMOTE_ARCHIVE \in Nat /\ BOOT_ID \in Nat
    /\ severed \subseteq 1 .. boot
    /\ hostPc \in {"idle", "exited"} \cup InScript
    /\ exitStatus \in Codes /\ BENCHMARK_STATUS \in Codes
    /\ saved \in Seq(Entry)

\* The names of the saved archives, the state file and the accepted boot are
\* in the order of the boots.
Named ==
    /\ StateFile \in 0 .. boot
    /\ hostPc \in Accepted => StateFile < BOOT_ID /\ BOOT_ID <= boot
    /\ \A k \in 1 .. Len(saved) : saved[k].name <= StateFile
    /\ \A i, j \in 1 .. Len(saved) : i < j => saved[i].name < saved[j].name

\* On a boot without a lost connection only the script's own session runs,
\* and after a status of 0 only its passing archive can be found.
Unsevered ==
    boot \notin severed =>
        /\ remote \subseteq IF hostPc = "running" THEN {session} ELSE {}
        /\ hostPc \in Afterwards /\ BENCHMARK_STATUS = 0 =>
             /\ latest \in {None, session}
             /\ \A a \in archives : a.session = session => a.status = 0
        /\ hostPc \in {"copy", "remember"} /\ BENCHMARK_STATUS = 0 =>
             \A a \in archives : a.session = REMOTE_ARCHIVE => a.session = session

\* The last n saved archives are those of this campaign, and all passed but
\* those of a boot on which a connection was lost.
EndsWith(n) ==
    /\ n <= Len(saved)
    /\ \A k \in 1 .. Len(saved) :
         /\ saved[k].campaign = campaigns <=> k > Len(saved) - n
         /\ saved[k].campaign = campaigns => saved[k].exit = 0 /\ (saved[k].boot \notin severed => saved[k].passed)

\* A campaign that is still going to run a session has saved an archive for
\* each session before.
Campaigning ==
    /\ campaigns \in Nat /\ job \in Nat
    /\ campaign \in {"none", "active", "stopped", "complete"}
    /\ \A k \in 1 .. Len(saved) : saved[k].campaign <= campaigns
    /\ campaign \in {"active", "complete"} => campaigns > 0
    /\ campaign = "active" =>
         /\ hostPc # "idle" /\ job \in 1 .. Jobs
         /\ hostPc \in InScript => EndsWith(job - 1)
         /\ hostPc = "exited" /\ exitStatus = 0 => EndsWith(job)

Inv == Numbered /\ Named /\ Unsevered /\ Campaigning /\ SuccessIsOwn /\ CampaignIsWhole

-----------------------------------------------------------------------------
LEMMA InvInit == Init => Inv
  <1> SUFFICES ASSUME Init PROVE Inv
    OBVIOUS
  <1>1. saved = <<>> /\ saved \in Seq(Entry) /\ Len(saved) = 0 /\ DOMAIN saved = {}
    BY DEF Init
  <1>2. Numbered
    BY <1>1 DEF Init, Numbered, None, Codes
  <1>3. Named /\ Unsevered
    BY <1>1 DEF Init, Named, Unsevered, None, Accepted, Afterwards
  <1>4. Campaigning /\ SuccessIsOwn /\ CampaignIsWhole
    BY <1>1 DEF Init, Campaigning, SuccessIsOwn, CampaignIsWhole
  <1> QED
    BY <1>2, <1>3, <1>4 DEF Inv

\* A step that saves nothing keeps what is saved, as long as no campaign begins
\* or becomes complete.
LEMMA NothingSaved ==
    ASSUME SuccessIsOwn, CampaignIsWhole, saved' = saved, severed \subseteq severed',
           campaigns' = campaigns, campaign' = "complete" => campaign = "complete"
    PROVE  SuccessIsOwn' /\ CampaignIsWhole'
  BY DEF SuccessIsOwn, CampaignIsWhole

\* The steps of the host script but the one that saves.
LEMMA HostStep ==
    ASSUME Inv, Reach \/ Identify \/ StartSession \/ Locate \/ Copy \/ LoseConnection \/ Interrupt
    PROVE  Inv'
  <1> USE DEF boardVars, scriptVars, campaignVars, Exit, Proceed, Sever
  <1>a. /\ Numbered /\ Named /\ Unsevered /\ Campaigning /\ SuccessIsOwn /\ CampaignIsWhole
        /\ UNCHANGED <<saved, campaign, campaigns, job, boot, archives, latest, StateFile>>
        /\ severed \subseteq severed'
    BY DEF Inv, Reach, Identify, StartSession, Locate, Copy, LoseConnection, Interrupt
  <1>b. SuccessIsOwn' /\ CampaignIsWhole'
    BY <1>a, NothingSaved
  <1>1. CASE Reach
    <2>1. Numbered'
      BY <1>1, <1>a DEF Reach, Numbered, Codes, InScript
    <2>2. Named' /\ Unsevered' /\ Campaigning'
      BY <1>1, <1>a DEF Reach, Named, Unsevered, Campaigning, EndsWith, Accepted, Afterwards, InScript, Lost
    <2> QED
      BY <2>1, <2>2, <1>b DEF Inv
  <1>2. CASE Identify
    <2>1. Numbered'
      BY <1>2, <1>a DEF Identify, Numbered, Codes, InScript, Accepted
    <2>2. Named' /\ Unsevered' /\ Campaigning'
      BY <1>2, <1>a DEF Identify, AcceptsBoot, Numbered, Named, Unsevered, Campaigning, EndsWith, Accepted,
                        Afterwards, InScript, Lost
    <2> QED
      BY <2>1, <2>2, <1>b DEF Inv
  <1>3. CASE StartSession
    <2>a. /\ hostPc = "start" /\ session' = session + 1 /\ session \in Nat
          /\ \/ remote' = remote \cup {session + 1} /\ hostPc' = "running" /\ UNCHANGED BENCHMARK_STATUS
             \/ BENCHMARK_STATUS' = Lost /\ hostPc' = "locate" /\ UNCHANGED remote
          /\ UNCHANGED <<severed, exitStatus, BOOT_ID, REMOTE_ARCHIVE>>
      BY <1>3, <1>a DEF StartSession, Numbered
    <2>b. /\ remote' \subseteq 1 .. session'
          /\ \A x \in archives : x.session \in 1 .. session' /\ x.session \notin remote'
      <3>1. \A x \in archives : x.session \in 1 .. session /\ x.session \notin remote
        BY <1>a DEF Numbered
      <3>2. remote \subseteq 1 .. session
        BY <1>a DEF Numbered
      <3>3. 1 .. session \subseteq 1 .. session' /\ session + 1 \in 1 .. session' /\ session + 1 \notin 1 .. session
        BY <2>a
      <3> QED
        BY <2>a, <3>1, <3>2, <3>3
    <2>1. Numbered'
      BY <1>a, <2>a, <2>b DEF Numbered, Codes, InScript, Accepted
    <2>2. Named'
      BY <1>3, <1>a DEF StartSession, Named, Accepted
    <2>3. Unsevered'
      BY <1>a, <2>a DEF Unsevered, Afterwards, Lost
    <2>4. Campaigning'
      BY <1>3, <1>a DEF StartSession, Campaigning, EndsWith, Accepted, Afterwards, InScript, Lost
    <2> QED
      BY <2>1, <2>2, <2>3, <2>4, <1>b DEF Inv
  <1>4. CASE Locate
    <2>1. Numbered' /\ Named'
      BY <1>4, <1>a DEF Locate, LatestArchive, Numbered, Named, Codes, InScript, Accepted
    <2>2. Unsevered'
      BY <1>4, <1>a DEF Locate, LatestArchive, Numbered, Unsevered, Afterwards, Lost, None
    <2>3. Campaigning'
      BY <1>4, <1>a DEF Locate, Campaigning, EndsWith, Accepted, Afterwards, InScript, Lost
    <2> QED
      BY <2>1, <2>2, <2>3, <1>b DEF Inv
  <1>5. CASE Copy
    <2>1. Numbered' /\ Named'
      BY <1>5, <1>a DEF Copy, Numbered, Named, Codes, InScript, Accepted
    <2>2. Unsevered'
      BY <1>5, <1>a DEF Copy, Numbered, Unsevered, Afterwards
    <2>3. Campaigning'
      BY <1>5, <1>a DEF Copy, Campaigning, EndsWith, Accepted, Afterwards, InScript
    <2> QED
      BY <2>1, <2>2, <2>3, <1>b DEF Inv
  <1>6. CASE LoseConnection
    <2>a. /\ hostPc = "running" /\ hostPc' = "locate" /\ BENCHMARK_STATUS' = Lost
          /\ severed' = severed \cup {boot} /\ boot \in 1 .. boot
          /\ UNCHANGED <<exitStatus, remote, BOOT_ID, REMOTE_ARCHIVE, session>>
      BY <1>6, <1>a DEF LoseConnection, Numbered
    <2>1. Numbered' /\ Named' /\ Unsevered'
      BY <2>a, <1>a DEF Numbered, Named, Unsevered, Codes, InScript, Accepted
    <2>2. Campaigning'
      BY <2>a, <1>a DEF Campaigning, EndsWith, Accepted, Afterwards, InScript, Lost
    <2> QED
      BY <2>1, <2>2, <1>b DEF Inv
  <1>7. CASE Interrupt
    <2>a. /\ hostPc # "idle" /\ hostPc' = "exited" /\ exitStatus' = 130
          /\ IF hostPc = "running" THEN boot \in severed' ELSE severed' = severed
          /\ severed' \subseteq severed \cup {boot} /\ boot \in 1 .. boot
          /\ UNCHANGED <<remote, BENCHMARK_STATUS, BOOT_ID, REMOTE_ARCHIVE, session>>
      BY <1>7, <1>a DEF Interrupt, Numbered
    <2>1. Numbered' /\ Named'
      BY <2>a, <1>a DEF Numbered, Named, Codes, InScript, Accepted
    <2>2. Unsevered'
      BY <2>a, <1>a DEF Unsevered, Afterwards
    <2>3. Campaigning'
      BY <2>a, <1>a DEF Campaigning, EndsWith, Accepted, Afterwards, InScript
    <2> QED
      BY <2>1, <2>2, <2>3, <1>b DEF Inv
  <1> QED
    BY <1>1, <1>2, <1>3, <1>4, <1>5, <1>6, <1>7

\* A session that ends answers only the invocation that waits for it.
LEMMA FinishSessionStep == ASSUME Inv, NEW s \in remote, FinishSession(s) PROVE Inv'
  <1> USE DEF Proceed, campaignVars
  <1>a. /\ Numbered /\ Named /\ Unsevered /\ Campaigning /\ SuccessIsOwn /\ CampaignIsWhole
        /\ UNCHANGED <<saved, campaign, campaigns, job, boot, StateFile, severed, BOOT_ID, REMOTE_ARCHIVE, session>>
        /\ remote' = remote \ {s} /\ latest' = s
    BY DEF Inv, FinishSession
  <1>b. SuccessIsOwn' /\ CampaignIsWhole'
    BY <1>a, NothingSaved
  <1>1. PICK status \in {0, 1} :
          /\ archives' = archives \cup {[session |-> s, status |-> status, boot |-> boot]}
          /\ Answers(s, status)
    BY DEF FinishSession
  <1>2. /\ UNCHANGED exitStatus
        /\ \/ hostPc = "running" /\ s = session /\ hostPc' = "locate" /\ BENCHMARK_STATUS' = status
           \/ ~(hostPc = "running" /\ s = session) /\ UNCHANGED <<hostPc, BENCHMARK_STATUS>>
    BY <1>1 DEF Answers
  <1>3. s \in 1 .. session /\ s \in Nat
    BY <1>a DEF Numbered
  <1> DEFINE new == [session |-> s, status |-> status, boot |-> boot]
  <1>4. new \in Archives /\ new.session = s /\ new.status = status /\ new.boot = boot
    BY <1>a, <1>3 DEF Numbered, Archives
  <1>5. archives' = archives \cup {new}
    BY <1>1
  <1> HIDE DEF new
  <1>6. Numbered'
    <2>1. \A a \in archives' : a.session \in 1 .. session /\ a.session \notin remote' /\ a.boot = boot
      BY <1>a, <1>3, <1>4, <1>5 DEF Numbered
    <2>2. archives' \subseteq Archives /\ BENCHMARK_STATUS' \in Codes
          /\ hostPc' \in {"idle", "exited"} \cup InScript
      BY <1>a, <1>2, <1>4, <1>5 DEF Numbered, Codes, InScript, Accepted
    <2> QED
      BY <1>a, <1>2, <1>3, <2>1, <2>2 DEF Numbered
  <1>7. Named'
    BY <1>a, <1>2 DEF Named, Accepted
  <1>8. Unsevered'
    <2> SUFFICES ASSUME boot \notin severed
                 PROVE  /\ remote' \subseteq IF hostPc' = "running" THEN {session} ELSE {}
                        /\ hostPc' \in Afterwards /\ BENCHMARK_STATUS' = 0 =>
                             /\ latest' \in {None, session}
                             /\ \A a \in archives' : a.session = session => a.status = 0
                        /\ hostPc' \in {"copy", "remember"} /\ BENCHMARK_STATUS' = 0 =>
                             \A a \in archives' : a.session = REMOTE_ARCHIVE => a.session = session
      BY <1>a DEF Unsevered
    <2>1. hostPc = "running" /\ s = session /\ hostPc' = "locate" /\ BENCHMARK_STATUS' = status /\ remote' = {}
      BY <1>a, <1>2 DEF Unsevered
    <2>2. \A a \in archives : a.session # session
      BY <1>a, <2>1 DEF Numbered
    <2> QED
      BY <1>a, <1>4, <1>5, <2>1, <2>2
  <1>9. Campaigning'
    BY <1>a, <1>2 DEF Campaigning, EndsWith, Accepted, Afterwards, InScript
  <1> QED
    BY <1>b, <1>6, <1>7, <1>8, <1>9 DEF Inv

LEMMA AbortSessionStep == ASSUME Inv, NEW s \in remote, AbortSession(s) PROVE Inv'
  <1> USE DEF Proceed, campaignVars
  <1>a. /\ Numbered /\ Named /\ Unsevered /\ Campaigning /\ SuccessIsOwn /\ CampaignIsWhole
        /\ UNCHANGED <<saved, campaign, campaigns, job, boot, archives, StateFile, severed, BOOT_ID,
                       REMOTE_ARCHIVE, session, exitStatus>>
        /\ remote' = remote \ {s} /\ latest' \in {latest, None}
        /\ \/ hostPc = "running" /\ s = session /\ hostPc' = "locate" /\ BENCHMARK_STATUS' = 1
           \/ ~(hostPc = "running" /\ s = session) /\ UNCHANGED <<hostPc, BENCHMARK_STATUS>>
    BY DEF Inv, AbortSession, Answers
  <1>b. SuccessIsOwn' /\ CampaignIsWhole'
    BY <1>a, NothingSaved
  <1>1. Numbered' /\ Named'
    BY <1>a DEF Numbered, Named, Codes, InScript, Accepted, None
  <1>2. Unsevered'
    BY <1>a DEF Unsevered, Afterwards
  <1>3. Campaigning'
    BY <1>a DEF Campaigning, EndsWith, Accepted, Afterwards, InScript
  <1> QED
    BY <1>b, <1>1, <1>2, <1>3 DEF Inv

\* After a boot nothing runs and nothing can be found.
LEMMA RebootStep == ASSUME Inv, Reboot PROVE Inv'
  <1> USE DEF Proceed, campaignVars
  <1>a. /\ Numbered /\ Named /\ Unsevered /\ Campaigning /\ SuccessIsOwn /\ CampaignIsWhole
        /\ UNCHANGED <<saved, campaign, campaigns, job, StateFile, severed, BOOT_ID, REMOTE_ARCHIVE, session, exitStatus>>
        /\ boot' = boot + 1 /\ boot' \in Nat \ {0} /\ boot' \notin severed
        /\ remote' = {} /\ archives' = {} /\ latest' = None
        /\ \/ hostPc = "running" /\ hostPc' = "locate" /\ BENCHMARK_STATUS' = Lost
           \/ hostPc # "running" /\ UNCHANGED <<hostPc, BENCHMARK_STATUS>>
    BY DEF Inv, Reboot, Boots, Numbered
  <1>b. SuccessIsOwn' /\ CampaignIsWhole'
    BY <1>a, NothingSaved
  <1>1. Numbered'
    <2>1. severed \subseteq 1 .. boot'
      BY <1>a DEF Numbered
    <2> QED
      BY <1>a, <2>1 DEF Numbered, Codes, InScript, Accepted, None
  <1>2. Named'
    BY <1>a DEF Numbered, Named, Accepted
  <1>3. Unsevered'
    BY <1>a DEF Unsevered
  <1>4. Campaigning'
    BY <1>a DEF Campaigning, EndsWith, Accepted, Afterwards, InScript
  <1> QED
    BY <1>b, <1>1, <1>2, <1>3, <1>4 DEF Inv

\* The archive that is saved, its name and its verdict.
LEMMA RememberStep == ASSUME Inv, Remember PROVE Inv'
  <1>a. /\ Numbered /\ Named /\ Unsevered /\ Campaigning /\ SuccessIsOwn /\ CampaignIsWhole
        /\ UNCHANGED <<severed, BOOT_ID, BENCHMARK_STATUS, REMOTE_ARCHIVE, session, boot, remote, archives, latest,
                       campaign, job, campaigns>>
        /\ hostPc = "remember" /\ StateFile' = BOOT_ID
        /\ hostPc' = "exited" /\ exitStatus' = BENCHMARK_STATUS
    BY DEF Inv, Remember, Exit, ScriptStatus, scriptVars, boardVars, campaignVars
  <1>1. PICK a \in archives :
          /\ a.session = REMOTE_ARCHIVE
          /\ saved' = Append(saved, [name |-> BOOT_ID, boot |-> a.boot, session |-> a.session,
                                     passed |-> a.status = 0, own |-> session, exit |-> ScriptStatus,
                                     campaign |-> IF campaign = "active" THEN campaigns ELSE None])
    BY DEF Remember
  <1> DEFINE e == [name |-> BOOT_ID, boot |-> a.boot, session |-> a.session,
                   passed |-> a.status = 0, own |-> session, exit |-> ScriptStatus,
                   campaign |-> IF campaign = "active" THEN campaigns ELSE None]
  <1>2. a \in Archives /\ a.boot = boot /\ BOOT_ID \in Nat /\ session \in Nat /\ BENCHMARK_STATUS \in Codes
    BY <1>a DEF Numbered
  <1>3. /\ e \in Entry /\ e.name = BOOT_ID /\ e.boot = boot /\ e.session = a.session /\ e.own = session
        /\ e.passed <=> a.status = 0
        /\ e.exit = BENCHMARK_STATUS
        /\ e.campaign = IF campaign = "active" THEN campaigns ELSE 0
    BY <1>a, <1>2 DEF Archives, Entry, ScriptStatus, None, Campaigning
  <1>4. saved' = Append(saved, e) /\ saved \in Seq(Entry)
    BY <1>a, <1>1 DEF Numbered
  <1> HIDE DEF e
  <1>5. /\ saved' \in Seq(Entry) /\ Len(saved') = Len(saved) + 1 /\ saved'[Len(saved')] = e
        /\ DOMAIN saved' = 1 .. Len(saved') /\ DOMAIN saved = 1 .. Len(saved) /\ Len(saved) \in Nat
        /\ \A k \in 1 .. Len(saved') : k # Len(saved') => k \in 1 .. Len(saved) /\ saved'[k] = saved[k]
    <2> DEFINE S == Entry
    <2>1. e \in S /\ saved \in Seq(S)
      BY <1>3, <1>4
    <2> HIDE DEF S
    <2>2. /\ saved' \in Seq(S) /\ Len(saved') = Len(saved) + 1 /\ saved'[Len(saved')] = e
          /\ DOMAIN saved' = 1 .. Len(saved') /\ DOMAIN saved = 1 .. Len(saved) /\ Len(saved) \in Nat
          /\ \A k \in 1 .. Len(saved') : k # Len(saved') => k \in 1 .. Len(saved) /\ saved'[k] = saved[k]
      BY <1>4, <2>1
    <2> QED
      BY <2>2 DEF S
  <1>6. boot \notin severed /\ BENCHMARK_STATUS = 0 => e.session = e.own /\ e.passed
    BY <1>a, <1>1, <1>3 DEF Unsevered, Afterwards
  <1>7. Numbered'
    BY <1>a, <1>5 DEF Numbered, InScript, Accepted
  <1>8. Named'
    <2>1. StateFile < BOOT_ID /\ BOOT_ID <= boot /\ boot \in Nat /\ StateFile \in 0 .. boot
      BY <1>a DEF Named, Numbered, Accepted
    <2>2. \A k \in 1 .. Len(saved) : saved[k].name \in Nat /\ saved[k].name < BOOT_ID
      <3>1. \A k \in 1 .. Len(saved) : saved[k] \in Entry /\ saved[k].name <= StateFile
        BY <1>a, <1>4 DEF Named
      <3> QED
        BY <2>1, <3>1, <1>2 DEF Entry
    <2>3. StateFile' \in 0 .. boot'
      BY <1>a, <1>2, <2>1
    <2>4. \A k \in 1 .. Len(saved') : saved'[k].name <= StateFile'
      BY <1>a, <1>2, <1>3, <1>5, <2>2
    <2>5. \A i, j \in 1 .. Len(saved') : i < j => saved'[i].name < saved'[j].name
      <3> SUFFICES ASSUME NEW i \in 1 .. Len(saved'), NEW j \in 1 .. Len(saved'), i < j
                   PROVE  saved'[i].name < saved'[j].name
        OBVIOUS
      <3>1. CASE j = Len(saved')
        BY <3>1, <1>3, <1>5, <2>2
      <3>2. CASE j # Len(saved')
        BY <3>2, <1>5, <1>a DEF Named
      <3> QED
        BY <3>1, <3>2
    <2> QED
      BY <1>a, <2>3, <2>4, <2>5 DEF Named, Accepted
  <1>9. Unsevered'
    BY <1>a DEF Unsevered, Afterwards
  <1>10. SuccessIsOwn'
    BY <1>a, <1>3, <1>5, <1>6 DEF SuccessIsOwn
  <1>11. CASE campaign # "active"
    <2>1. e.campaign = 0
      BY <1>3, <1>11
    <2>2. Campaigning'
      BY <1>a, <1>5, <2>1, <1>11 DEF Campaigning
    <2>3. CampaignIsWhole'
      <3> SUFFICES ASSUME campaign = "complete" PROVE CampaignIsWhole'
        BY <1>a DEF CampaignIsWhole
      <3>1. campaigns # 0
        BY <1>a DEF Campaigning
      <3> DEFINE whole == {k \in DOMAIN saved : saved[k].campaign = campaigns}
                 wholeNow == {k \in DOMAIN saved' : saved'[k].campaign = campaigns}
      <3>2. wholeNow = whole
        BY <1>5, <2>1, <3>1
      <3>3. /\ \E first \in DOMAIN saved : whole = first .. first + Jobs - 1
            /\ \A k \in whole : saved[k].exit = 0 /\ (saved[k].boot \notin severed => saved[k].passed)
        BY <1>a DEF CampaignIsWhole
      <3>4. DOMAIN saved \subseteq DOMAIN saved' /\ \A k \in whole : saved'[k] = saved[k]
        BY <1>5
      <3> HIDE DEF whole
      <3>5. /\ \E first \in DOMAIN saved' : wholeNow = first .. first + Jobs - 1
            /\ \A k \in wholeNow : saved'[k].exit = 0 /\ (saved'[k].boot \notin severed => saved'[k].passed)
        BY <3>2, <3>3, <3>4
      <3> QED
        BY <3>5, <1>a DEF CampaignIsWhole
    <2> QED
      BY <1>7, <1>8, <1>9, <1>10, <2>2, <2>3 DEF Inv
  <1>12. CASE campaign = "active"
    <2>1. e.campaign = campaigns /\ campaigns \in Nat /\ job \in 1 .. Jobs /\ Jobs \in Nat
      BY <1>3, <1>12, <1>a, CollectorAssumption DEF Campaigning
    <2>2. EndsWith(job - 1)
      BY <1>12, <1>a DEF Campaigning, InScript, Accepted
    <2>3. BENCHMARK_STATUS = 0 => e.exit = 0 /\ (e.boot \notin severed => e.passed)
      BY <1>3, <1>6
    <2>4. BENCHMARK_STATUS = 0 => EndsWith(job)'
      <3> SUFFICES ASSUME BENCHMARK_STATUS = 0 PROVE EndsWith(job)'
        OBVIOUS
      <3>1. e.exit = 0 /\ (e.boot \notin severed => e.passed)
        BY <2>3
      <3>2. \A k \in 1 .. Len(saved') :
              /\ saved'[k].campaign = campaigns <=> k > Len(saved') - job
              /\ saved'[k].campaign = campaigns => saved'[k].exit = 0 /\ (saved'[k].boot \notin severed => saved'[k].passed)
        <4> SUFFICES ASSUME NEW k \in 1 .. Len(saved')
                     PROVE  /\ saved'[k].campaign = campaigns <=> k > Len(saved') - job
                            /\ saved'[k].campaign = campaigns => saved'[k].exit = 0 /\ (saved'[k].boot \notin severed => saved'[k].passed)
          OBVIOUS
        <4>1. CASE k = Len(saved')
          BY <4>1, <1>5, <2>1, <3>1
        <4>2. CASE k # Len(saved')
          BY <4>2, <1>5, <2>1, <2>2 DEF EndsWith
        <4> QED
          BY <4>1, <4>2
      <3> QED
        BY <3>2, <1>5, <1>a, <2>1, <2>2 DEF EndsWith
    <2>5. Campaigning'
      <3>1. \A k \in 1 .. Len(saved') : saved'[k].campaign <= campaigns
        BY <1>a, <1>5, <2>1 DEF Campaigning
      <3> QED
        BY <1>a, <1>12, <2>1, <2>3, <2>4, <3>1 DEF Campaigning, Afterwards, InScript, Accepted
    <2> QED
      BY <1>7, <1>8, <1>9, <1>10, <2>5, <1>12, <1>a DEF Inv, CampaignIsWhole
  <1> QED
    BY <1>11, <1>12

\* A campaign begins on a board that has just booted, or has not, with a number
\* of its own.
LEMMA StartCampaignStep == ASSUME Inv, StartCampaign PROVE Inv'
  <1>a. /\ Numbered /\ Named /\ Unsevered /\ Campaigning /\ SuccessIsOwn /\ CampaignIsWhole
        /\ UNCHANGED <<saved, StateFile, severed, BOOT_ID, REMOTE_ARCHIVE, session, BENCHMARK_STATUS, exitStatus>>
        /\ \/ /\ boot' = boot + 1 /\ boot' \in Nat \ {0} /\ boot' \notin severed
              /\ remote' = {} /\ archives' = {} /\ latest' = None
           \/ UNCHANGED <<boot, remote, archives, latest>>
        /\ hostPc = "idle" /\ hostPc' = "reach"
        /\ campaign' = "active" /\ campaigns' = campaigns + 1 /\ job' = 1
    BY DEF Inv, StartCampaign, Boots, Numbered, Proceed, scriptVars, boardVars
  <1>1. Numbered'
    <2>1. severed \subseteq 1 .. boot'
      BY <1>a DEF Numbered
    <2>2. CASE UNCHANGED <<boot, remote, archives, latest>>
      BY <1>a, <2>2 DEF Numbered, InScript
    <2>3. CASE boot' = boot + 1 /\ boot' \in Nat \ {0} /\ remote' = {} /\ archives' = {} /\ latest' = None
      BY <1>a, <2>1, <2>3 DEF Numbered, InScript, None
    <2> QED
      BY <1>a, <2>2, <2>3
  <1>2. Named'
    BY <1>a DEF Numbered, Named, Accepted
  <1>3. Unsevered'
    BY <1>a DEF Unsevered, Afterwards
  <1>4. Campaigning'
    <2>1. \A k \in 1 .. Len(saved) : saved[k].campaign \in Nat /\ saved[k].campaign <= campaigns
      <3>1. \A k \in 1 .. Len(saved) : saved[k] \in Entry
        BY <1>a DEF Numbered
      <3> QED
        BY <3>1, <1>a DEF Campaigning, Entry
    <2>2. Len(saved) \in Nat /\ campaigns \in Nat
      BY <1>a DEF Numbered, Campaigning
    <2>3. EndsWith(job - 1)'
      BY <1>a, <2>1, <2>2 DEF EndsWith
    <2>4. 1 \in 1 .. Jobs
      BY CollectorAssumption
    <2> QED
      BY <1>a, <2>1, <2>2, <2>3, <2>4 DEF Campaigning, Afterwards, InScript
  <1>5. SuccessIsOwn' /\ CampaignIsWhole'
    BY <1>a DEF SuccessIsOwn, CampaignIsWhole
  <1> QED
    BY <1>1, <1>2, <1>3, <1>4, <1>5 DEF Inv

LEMMA ByHandStep == ASSUME Inv, RunByHand \/ EndByHand PROVE Inv'
  <1>a. /\ Numbered /\ Named /\ Unsevered /\ Campaigning /\ SuccessIsOwn /\ CampaignIsWhole
        /\ UNCHANGED <<saved, StateFile, severed, BOOT_ID, REMOTE_ARCHIVE, session, BENCHMARK_STATUS, exitStatus,
                       boot, remote, archives, latest, campaign, campaigns, job>>
        /\ campaign # "active"
        /\ hostPc \in {"idle", "exited"} /\ hostPc' \in {"idle", "reach"}
    BY DEF Inv, RunByHand, EndByHand, Proceed, scriptVars, boardVars, campaignVars
  <1>1. Numbered' /\ Named'
    BY <1>a DEF Numbered, Named, InScript, Accepted
  <1>2. Unsevered' /\ Campaigning'
    BY <1>a DEF Unsevered, Campaigning, Afterwards
  <1> QED
    BY <1>a, <1>1, <1>2, NothingSaved DEF Inv

\* The next session of a campaign, or its end: complete after the last one.
LEMMA NextJobStep == ASSUME Inv, NextJob PROVE Inv'
  <1>a. /\ Numbered /\ Named /\ Unsevered /\ Campaigning /\ SuccessIsOwn /\ CampaignIsWhole
        /\ UNCHANGED <<saved, StateFile, severed, BOOT_ID, REMOTE_ARCHIVE, session, BENCHMARK_STATUS, exitStatus,
                       boot, remote, archives, latest, campaigns>>
        /\ hostPc = "exited" /\ campaign = "active" /\ hostPc' \in {"idle", "reach"}
        /\ \/ campaign' = "stopped" /\ hostPc' = "idle" /\ job' = job
           \/ exitStatus = 0 /\ job < Jobs /\ job' = job + 1 /\ hostPc' = "reach" /\ campaign' = campaign
           \/ exitStatus = 0 /\ ~(job < Jobs) /\ job' = job /\ hostPc' = "idle" /\ campaign' = "complete"
    BY DEF Inv, NextJob, MustStop, MoreJobs, Proceed, scriptVars, boardVars
  <1>1. Numbered' /\ Named'
    BY <1>a DEF Numbered, Named, InScript, Accepted
  <1>2. Unsevered'
    BY <1>a DEF Unsevered, Afterwards
  <1>3. /\ job \in 1 .. Jobs /\ Jobs \in Nat \ {0} /\ Len(saved) \in Nat /\ DOMAIN saved = 1 .. Len(saved)
        /\ exitStatus = 0 => EndsWith(job)
    BY <1>a, CollectorAssumption DEF Campaigning, Numbered
  <1>4. SuccessIsOwn'
    BY <1>a DEF SuccessIsOwn
  <1>5. CASE campaign' = "stopped"
    BY <1>a, <1>1, <1>2, <1>4, <1>5 DEF Inv, Campaigning, CampaignIsWhole
  <1>6. CASE campaign' = campaign
    <2>1. exitStatus = 0 /\ job < Jobs /\ job' = job + 1 /\ hostPc' = "reach"
      BY <1>a, <1>6
    <2>2. job' \in 1 .. Jobs /\ job' - 1 = job
      BY <2>1, <1>3
    <2>3. EndsWith(job - 1)'
      BY <1>a, <1>3, <2>1, <2>2 DEF EndsWith
    <2>4. Campaigning'
      BY <1>a, <1>6, <2>1, <2>2, <2>3 DEF Campaigning, Afterwards, InScript
    <2> QED
      BY <1>a, <1>1, <1>2, <1>4, <1>6, <2>4 DEF Inv, CampaignIsWhole
  <1>7. CASE campaign' = "complete"
    <2>1. exitStatus = 0 /\ job = Jobs /\ EndsWith(Jobs)
      BY <1>a, <1>7, <1>3
    <2>2. Campaigning'
      BY <1>a, <1>7 DEF Campaigning
    <2>3. CampaignIsWhole'
      <3> DEFINE whole == {k \in DOMAIN saved : saved[k].campaign = campaigns}
                 first == Len(saved) - Jobs + 1
      <3>1. first \in DOMAIN saved /\ first + Jobs - 1 = Len(saved)
        BY <1>3, <2>1 DEF EndsWith
      <3>2. whole = first .. Len(saved)
        BY <1>3, <2>1 DEF EndsWith
      <3>3. \A k \in whole : saved[k].exit = 0 /\ (saved[k].boot \notin severed => saved[k].passed)
        BY <1>3, <2>1 DEF EndsWith
      <3> HIDE DEF first
      <3> QED
        BY <3>1, <3>2, <3>3, <1>a DEF CampaignIsWhole
    <2> QED
      BY <1>1, <1>2, <1>4, <2>2, <2>3 DEF Inv
  <1> QED
    BY <1>a, <1>5, <1>6, <1>7

LEMMA CollectorInv == Spec => []Inv
  <1>1. ASSUME Inv, UNCHANGED vars PROVE Inv'
    <2>1. UNCHANGED <<boot, remote, archives, latest, hostPc, exitStatus, session, BOOT_ID, BENCHMARK_STATUS,
                      REMOTE_ARCHIVE, StateFile, saved, severed, campaign, job, campaigns>>
      BY <1>1 DEF vars, boardVars, hostVars, scriptVars, campaignVars
    <2>2. Numbered /\ Named /\ Unsevered /\ Campaigning /\ SuccessIsOwn /\ CampaignIsWhole
      BY <1>1 DEF Inv
    <2> QED
      BY <2>1, <2>2 DEF Inv, Numbered, Named, Unsevered, Campaigning, EndsWith, SuccessIsOwn, CampaignIsWhole
  <1>2. ASSUME Inv, Next PROVE Inv'
    BY <1>2, HostStep, RememberStep, FinishSessionStep, AbortSessionStep, RebootStep, StartCampaignStep,
       ByHandStep, NextJobStep DEF Next, Host, Board, Operator
  <1> QED
    BY <1>1, <1>2, InvInit, PTL DEF Spec

-----------------------------------------------------------------------------
\* However often the board boots while a session is prepared, and whoever runs
\* it: of two saved archives of one boot, one is named for another boot.
THEOREM BootsAreFresh == Spec => []FreshBoots
  <1>1. Inv => FreshBoots
    <2> SUFFICES ASSUME Inv, NEW i \in DOMAIN saved, NEW j \in DOMAIN saved, i # j,
                        NamedForItsBoot(saved[i]), NamedForItsBoot(saved[j])
                 PROVE  saved[i].boot # saved[j].boot
      BY DEF FreshBoots
    <2>1. saved \in Seq(Entry) /\ i \in 1 .. Len(saved) /\ j \in 1 .. Len(saved)
      BY DEF Inv, Numbered
    <2>2. saved[i].name \in Nat /\ saved[j].name \in Nat
      <3>1. saved[i] \in Entry /\ saved[j] \in Entry
        BY <2>1
      <3> QED
        BY <3>1 DEF Entry
    <2>3. saved[i].name < saved[j].name \/ saved[j].name < saved[i].name
      BY <2>1 DEF Inv, Named
    <2> QED
      BY <2>2, <2>3 DEF NamedForItsBoot
  <1> QED
    BY <1>1, CollectorInv, PTL

\* A script that returns 0 has saved its own session's passing archive, on
\* every boot on which no session was left without its connection.
THEOREM SuccessIsTheSessions == Spec => []SuccessIsOwn
  <1>1. Inv => SuccessIsOwn
    BY DEF Inv
  <1> QED
    BY <1>1, CollectorInv, PTL

\* A campaign of any length that is complete has saved an archive for each of
\* its sessions and none besides, wherever the board booted between, passing
\* ones but for a boot on which an earlier connection was lost.
THEOREM CompleteCampaignIsWhole == Spec => []CampaignIsWhole
  <1>1. Inv => CampaignIsWhole
    BY DEF Inv
  <1> QED
    BY <1>1, CollectorInv, PTL
=============================================================================
