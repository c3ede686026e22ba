------------------------------- MODULE VpProofs -------------------------------
(***************************************************************************)
(* Proofs about the two programs that drive a virtual platform, for        *)
(* consoles of any length, any number of runs and any scheduling of host,  *)
(* reader thread and guest.  Why a judgement can be trusted: the host only *)
(* judges a console on which nobody writes any more, whole if its reader   *)
(* has ended and a beginning of it if the reader was given up; a script    *)
(* that prints a good exit status has made all of its runs, and one that   *)
(* prints an operation that is stuck has ended badly.                      *)
(***************************************************************************)
EXTENDS MCVpSession, TLAPS

LOCAL INSTANCE SequencesExt
FS == INSTANCE FiniteSetTheorems

Lines == {"root", "command", "nvdla", "setup", "final"}
Kinds == Lines \cup {"banner", "text", "autorun", "login", "prompt", "marker", "Password:", "dmesg", "status", "probe", "sdp", "bad"}
Names == {"", "match", "other", "stuck", "completed", "payload_mount", "drm_load", "module_load", "sshd_start", "dev_dri",
          "runtime_server_ready", "runtime_client", "runtime_compare", "runtime", "smoke", "exit"}
Tokens == [kind : Kinds, name : Names, value : Int \cup {NoStatus}]

\* The console, how far it was read, and what the host may conclude from the
\* place where it is.
Silenced == vp = "ended" \/ signal = "kill"
Reading ==
    /\ console \in Seq(Tokens) /\ delivered \in 0 .. Len(console) /\ taken \in 0 .. delivered
    /\ typed \in Seq(Lines)
    /\ reader = "done" => delivered = Len(console) /\ vp = "ended"
    /\ vp = "none" => console = <<>> /\ host \in {"prepare", "done", "raised"}
    /\ host = "prepare" => vp = "none"
    /\ host \in {"join", "collect", "judge"} => Silenced
    /\ host \in {"collect", "judge"} => reader \in {"done", "late"}
    /\ host = "judge" /\ reader = "done" => taken = delivered
    /\ host = "done" => vp = "none" \/ (Silenced /\ (reader = "late" \/ (reader = "done" /\ taken = delivered)))

-----------------------------------------------------------------------------
(* What a guest has done when it says that it ended well.                  *)

ExitIsGood == Status("exit", 0)
StuckTokens == {token \in Tokens : token.kind = "sdp" /\ token.name # "completed"}
Says(text, token) == \E k \in DOMAIN text : text[k] = token

Guests == {"off", "autorun", "login", "user", "shell", "script", "runtime", "smoke", "poll", "report", "exit", "poweroff"}
BeforeRuns == {"off", "autorun", "login", "user", "shell", "script"}

SessionTypes ==
    /\ mode \in {"runtime", "smoke"} /\ rootfs \in {"autorun", "login"} /\ guest \in Guests
    /\ {module, dri, writable} \subseteq {0, 1, NoStatus}
    /\ {server, client, compare} \subseteq Int /\ status \in Int \cup {NoStatus}
    /\ exits \in Seq(Int)

AllRunsMade ==
    /\ Len(exits) = Repeat /\ exits[Len(exits)] = 0
    /\ mode = "runtime" => \A k \in DOMAIN exits : exits[k] = 0

\* The file with the status of the smoke utility: not there, empty, or what
\* the last run has left.
PollsLastRun ==
    \/ statusFile = <<>> /\ Len(exits) < Repeat
    \/ /\ Len(exits) \in 1 .. Repeat
       /\ statusFile \in {<<NoStatus>>, <<exits[Len(exits)]>>}

Progress ==
    /\ vp = "running" /\ guest \in BeforeRuns => exits = <<>> /\ output = "none"
    /\ guest = "runtime" => mode = "runtime" /\ \A k \in DOMAIN exits : exits[k] = 0
    /\ guest \in {"smoke", "poll"} => mode = "smoke"
    /\ guest = "poll" => PollsLastRun
    /\ guest \in {"report", "exit"} /\ status = 0 => AllRunsMade
    /\ Says(console, ExitIsGood) => AllRunsMade /\ (guest = "poweroff" \/ vp = "ended")

\* What the diagnosis of a failure looks at.
Traces ==
    /\ Shows(console, "sdp") => mode = "runtime" /\ exits # <<>>
    /\ \A token \in StuckTokens : Says(console, token) => exits[Len(exits)] # 0
    /\ mode = "runtime" /\ exits # <<>> /\ exits[Len(exits)] = 0 => (writable = 0 => output = "golden")
    /\ output # "none" => writable = 0

Session ==
    /\ SessionTypes
    /\ host = "prepare" => guest = "off" /\ exits = <<>> /\ output = "none"
    /\ vp # "none" => Progress /\ Traces
    /\ host # "done" => manifest = NoManifest
    /\ SessionPassIsEarned

-----------------------------------------------------------------------------
(* What the control of the stock image has done when it judges.            *)

BeforeClient == {"prepare", "boot", "user", "await-shell", "password", "await-password", "setup", "await-sshd", "client"}

Control ==
    /\ clientStatus = 0 => served /\ shell
    /\ host \in BeforeClient => clientStatus = 125
    /\ host \in {"await-sshd", "client"} => shell
    /\ host # "done" => outcome.classification = "none"
    /\ StockPassIsEarned

Inv ==
    /\ Reading
    /\ \/ lane = "modern" /\ Session /\ outcome.classification = "none"
       \/ lane = "stock" /\ Control /\ manifest = NoManifest
-----------------------------------------------------------------------------
(* Searching a text.                                                       *)

\* A set of positions has a first one: of its initial parts, which are finite,
\* one is the smallest.
LEMMA FirstPosition ==
    ASSUME NEW S \in SUBSET Nat, S # {}
    PROVE  Min(S) \in S /\ \A k \in S : Min(S) <= k
  <1> DEFINE Upto(k) == {j \in S : j <= k}
             Parts == {Upto(k) : k \in S}
  <1>1. Parts \subseteq FS!FiniteSubsetsOf(S) /\ Parts # {}
    <2>1. ASSUME NEW k \in S PROVE FS!IsFiniteSet(Upto(k))
      <3> HIDE DEF Upto
      <3>1. Upto(k) \in SUBSET Nat /\ \A j \in Upto(k) : j <= k
        BY DEF Upto
      <3> QED
        BY <3>1, FS!FS_BoundedSetOfNaturals
    <2> QED
      BY <2>1 DEF FS!FiniteSubsetsOf
  <1>2. PICK part \in Parts : \A other \in Parts : ~(<<other, part>> \in FS!StrictSubsetOrdering(S))
    <2> HIDE DEF Parts
    <2>1. FS!IsWellFoundedOn(FS!StrictSubsetOrdering(S), FS!FiniteSubsetsOf(S))
      BY FS!FS_StrictSubsetOrderingWellFounded
    <2> QED
      BY <1>1, <2>1, FS!WFMin
  <1>3. PICK m \in S : part = Upto(m)
    BY <1>2
  <1>4. ASSUME NEW k \in S, k < m PROVE FALSE
    <2>1. \A j \in S : j <= k => j <= m
      BY <1>4
    <2>2. m <= m /\ ~(m <= k)
      BY <1>4
    <2>3. Upto(k) \subseteq Upto(m) /\ Upto(m) \subseteq S
      BY <2>1
    <2>4. m \in Upto(m) /\ m \notin Upto(k)
      BY <2>2
    <2>5. Upto(k) \in Parts
      OBVIOUS
    <2>6. <<Upto(k), Upto(m)>> \in FS!StrictSubsetOrdering(S)
      <3> HIDE DEF Upto
      <3> QED
        BY <2>3, <2>4 DEF FS!StrictSubsetOrdering
    <2> HIDE DEF Upto, Parts
    <2> QED
      BY <2>5, <2>6, <1>2, <1>3
  <1>5. \A k \in S : m <= k
    BY <1>4
  <1> QED
    BY <1>5 DEF Min

\* A status that is found is in the text.
LEMMA ExtractedIsSaid ==
    ASSUME NEW text \in Seq(Tokens), NEW name, NEW value \in Int, Extract(text, name) = value
    PROVE  Says(text, Status(name, value))
  <1>1. Statuses(text, name) # {} /\ text[Min(Statuses(text, name))].value = value
    <2> HIDE DEF Statuses, Min
    <2> QED
      BY NoStatusAssumption DEF Extract
  <1>2. Statuses(text, name) \in SUBSET Nat
    BY DEF Statuses
  <1>3. Min(Statuses(text, name)) \in Statuses(text, name)
    BY <1>1, <1>2, FirstPosition
  <1>4. PICK k \in DOMAIN text : text[k].kind = "status" /\ text[k].name = name /\ text[k].value = value
    BY <1>1, <1>3 DEF Statuses
  <1>5. text[k] \in Tokens
    BY <1>4
  <1>6. text[k] = Status(name, value)
    BY <1>4, <1>5 DEF Status, Tokens
  <1> QED
    BY <1>6 DEF Says

\* What is said after a text has been added to another.
LEMMA SaidLater ==
    ASSUME NEW S, NEW text \in Seq(S), NEW more \in Seq(S)
    PROVE  /\ text \o more \in Seq(S) /\ Len(text \o more) >= Len(text)
           /\ \A token : Says(text \o more, token) <=> Says(text, token) \/ Says(more, token)
           /\ \A kind : Shows(text \o more, kind) <=> Shows(text, kind) \/ Shows(more, kind)
  <1>1. Len(text \o more) = Len(text) + Len(more) /\ text \o more \in Seq(S)
    OBVIOUS
  <1>2. \A k \in DOMAIN text : k \in DOMAIN (text \o more) /\ (text \o more)[k] = text[k]
    OBVIOUS
  <1>3. \A k \in DOMAIN more : k + Len(text) \in DOMAIN (text \o more) /\ (text \o more)[k + Len(text)] = more[k]
    OBVIOUS
  <1>4. \A k \in DOMAIN (text \o more) :
          \/ k \in DOMAIN text /\ (text \o more)[k] = text[k]
          \/ k - Len(text) \in DOMAIN more /\ (text \o more)[k] = more[k - Len(text)]
    OBVIOUS
  <1> HIDE DEF Says
  <1>5. ASSUME NEW token PROVE Says(text \o more, token) <=> Says(text, token) \/ Says(more, token)
    BY <1>2, <1>3, <1>4 DEF Says
  <1>6. ASSUME NEW kind PROVE Shows(text \o more, kind) <=> Shows(text, kind) \/ Shows(more, kind)
    <2> DEFINE both == text \o more
    <2> HIDE DEF both
    <2>1. Shows(text, kind) => Shows(both, kind)
      BY <1>2 DEF Shows, both
    <2>2. Shows(more, kind) => Shows(both, kind)
      BY <1>3 DEF Shows, both
    <2>3. ASSUME NEW k \in DOMAIN both, both[k].kind = kind PROVE Shows(text, kind) \/ Shows(more, kind)
      BY <1>4, <2>3 DEF Shows, both
    <2>4. Shows(both, kind) => Shows(text, kind) \/ Shows(more, kind)
      BY <2>3 DEF Shows
    <2> QED
      BY <2>1, <2>2, <2>4 DEF both
  <1> QED
    BY <1>1, <1>5, <1>6

-----------------------------------------------------------------------------
(* How the host, the reader and the guest share the console.               *)

HostMoves ==
    /\ UNCHANGED <<outputVars, delivered>> /\ taken' \in taken .. delivered /\ typed' \in Seq(Lines)
    /\ \/ /\ host \notin {"prepare", "done", "raised"} /\ host' \notin {"prepare", "collect", "judge", "done"}
          /\ host' = "join" => Silenced'
          /\ reader' = reader
       \/ host' = "raised" /\ reader' = reader
       \/ host = "join" /\ host' = "collect" /\ signal' = signal /\ (reader' = "late" \/ (reader' = "done" /\ reader = "done"))
       \/ host = "collect" /\ host' = "judge" /\ UNCHANGED <<signal, reader>> /\ (reader = "done" => taken' = delivered)
       \/ host \in {"judge", "prepare"} /\ host' = "done" /\ UNCHANGED <<taken, signal, reader>>

Starts == host = "prepare" /\ Spawn("boot")

GuestMoves ==
    /\ Running /\ UNCHANGED <<readerVars, host, taken>> /\ typed' \in Seq(Lines)
    /\ \/ vp' = vp /\ \E text \in Seq(Tokens) : Say(text)
       \/ vp' = "ended" /\ UNCHANGED console

LEMMA ReadingStep ==
    ASSUME Reading, HostMoves \/ Starts \/ GuestMoves \/ Deliver \/ EndOfFile \/ Die \/ UNCHANGED consoleVars
    PROVE  Reading'
  <1>1. CASE HostMoves
    BY <1>1 DEF HostMoves, Reading, Silenced, outputVars
  <1>2. CASE Starts
    BY <1>2 DEF Starts, Spawn, Reading
  <1>3. CASE GuestMoves
    <2>1. vp = "running" /\ ~Silenced /\ vp' # "none" /\ UNCHANGED <<delivered, reader, host, taken>> /\ typed' \in Seq(Lines)
      BY <1>3 DEF GuestMoves, Running, Silenced, readerVars
    <2>2. reader # "done" /\ host \notin {"prepare", "join", "collect", "judge", "done"}
      BY <2>1 DEF Reading
    <2>3. console' \in Seq(Tokens) /\ Len(console') >= Len(console)
      <3>1. ASSUME NEW text \in Seq(Tokens), Say(text) PROVE console' \in Seq(Tokens) /\ Len(console') >= Len(console)
        BY <3>1, SaidLater DEF Say, Reading
      <3> QED
        BY <1>3, <3>1 DEF GuestMoves, Reading
    <2>4. console' \in Seq(Tokens) /\ delivered' \in 0 .. Len(console') /\ taken' \in 0 .. delivered'
      BY <2>1, <2>3 DEF Reading
    <2> QED
      BY <2>1, <2>2, <2>4 DEF Reading
  <1>4. CASE Deliver
    BY <1>4 DEF Deliver, Reading, Silenced, outputVars, hostVars
  <1>5. CASE EndOfFile
    BY <1>5 DEF EndOfFile, Reading, Silenced, outputVars, hostVars
  <1>6. CASE Die
    BY <1>6 DEF Die, Reading, Silenced, readerVars, hostVars
  <1>7. CASE UNCHANGED consoleVars
    BY <1>7 DEF Reading, Silenced, consoleVars, outputVars, readerVars, hostVars
  <1> QED
    BY <1>1, <1>2, <1>3, <1>4, <1>5, <1>6, <1>7

\* What _drain_until takes is there to be taken.
LEMMA DrainTakes ==
    ASSUME Reading, NEW hits \in SUBSET Offered, NEW next, Drain(hits, next)
    PROVE  taken' \in taken .. delivered /\ host' = next /\ UNCHANGED <<signal, typed>>
  <1> DEFINE later == hits \ {taken}
  <1>1. later \in SUBSET Nat /\ taken \in Nat /\ delivered \in Nat /\ taken <= delivered
    BY DEF Offered, Reading
  <1>2. later # {} => Min(later) \in Offered
    <2> HIDE DEF Min
    <2> QED
      BY <1>1, FirstPosition
  <1> HIDE DEF Min
  <1> QED
    BY <1>1, <1>2 DEF Drain, Offered

\* What is judged is a beginning of the console, and all of it if the reader
\* has ended.
LEMMA JudgedIsRead ==
    ASSUME Reading, host = "judge"
    PROVE  /\ serial \in Seq(Tokens) /\ vp # "none"
           /\ \A token : Says(serial, token) => Says(console, token)
           /\ \A kind : Shows(serial, kind) => Shows(console, kind)
           /\ ~Shows(serial, "bad") => NoTroubleSeen
  <1>1. console \in Seq(Tokens) /\ taken \in 0 .. Len(console) /\ vp # "none"
    BY DEF Reading
  <1>2. /\ serial \in Seq(Tokens) /\ DOMAIN serial = 1 .. taken /\ DOMAIN console = 1 .. Len(console)
        /\ \A k \in 1 .. taken : serial[k] = console[k]
    BY <1>1 DEF serial
  <1> HIDE DEF serial
  <1>3. ASSUME ~Shows(serial, "bad") PROVE NoTroubleSeen
    <2>1. reader = "late" \/ taken = Len(console)
      BY DEF Reading
    <2>2. ASSUME NEW k \in DOMAIN console, console[k].kind = "bad" PROVE reader = "late" /\ taken < k
      <3>1. k \notin 1 .. taken
        BY <1>2, <1>3, <2>2 DEF Shows
      <3>2. k \in 1 .. Len(console)
        BY <1>2
      <3> QED
        BY <1>1, <2>1, <3>1, <3>2
    <2> QED
      BY <2>2 DEF NoTroubleSeen
  <1>4. ASSUME NEW token, Says(serial, token) PROVE Says(console, token)
    BY <1>1, <1>2, <1>4 DEF Says
  <1>5. ASSUME NEW kind, Shows(serial, kind) PROVE Shows(console, kind)
    BY <1>1, <1>2, <1>5 DEF Shows
  <1> QED
    BY <1>1, <1>2, <1>3, <1>4, <1>5

-----------------------------------------------------------------------------
(* The hosts and the guests of both programs move like that.               *)

LEMMA TailMoves ==
    ASSUME Reading, HostTail
    PROVE  HostMoves /\ host \notin {"prepare", "done"} /\ host' \in {"join", "wait", "collect", "judge"}
  <1>1. UNCHANGED <<outputVars, delivered>> /\ typed' \in Seq(Lines)
    BY DEF HostTail, Terminate, AwaitEnd, Join, Collect, Proceed, Reading
  <1>2. vp' = vp
    BY <1>1 DEF outputVars
  <1>3. CASE Terminate /\ UNCHANGED reader
    BY <1>1, <1>2, <1>3 DEF Terminate, Proceed, HostMoves, Silenced, Reading
  <1>4. CASE AwaitEnd /\ UNCHANGED reader
    BY <1>1, <1>2, <1>4 DEF AwaitEnd, Proceed, HostMoves, Silenced, Reading
  <1>5. CASE Join
    BY <1>1, <1>5 DEF Join, Proceed, HostMoves, Reading
  <1>6. CASE Collect /\ UNCHANGED reader
    <2>1. taken' \in taken .. delivered /\ (reader = "done" => taken' = delivered)
      BY <1>6 DEF Collect, Offered, Reading
    <2> QED
      BY <1>1, <1>6, <2>1 DEF Collect, HostMoves
  <1> QED
    BY <1>3, <1>4, <1>5, <1>6 DEF HostTail

\* A line that is sent, or a pipe that is broken; and a host that only goes on.
LEMMA LineSent ==
    ASSUME Reading, NEW line \in Lines, NEW next, Send(line, next)
    PROVE  typed' \in Seq(Lines) /\ taken' = taken /\ host' \in {next, "raised"}
  <1>1. typed \in Seq(Lines)
    BY DEF Reading
  <1>2. Append(typed, line) \in Seq(Lines)
    BY <1>1
  <1> QED
    BY <1>1, <1>2 DEF Send, Proceed

LEMMA HostContinues ==
    ASSUME Reading, NEW next, Proceed(next)
    PROVE  typed' \in Seq(Lines) /\ taken' = taken /\ host' = next
  BY DEF Proceed, Reading

LEMMA ModernMoves ==
    ASSUME Reading, ModernHost
    PROVE  /\ HostMoves /\ host \notin {"prepare", "done"} /\ host' # "prepare"
           /\ UNCHANGED guestVars
           /\ (host = "judge" /\ Judge) \/ (host' # "done" /\ UNCHANGED manifest)
  <1>1. ASSUME NEW hits \in SUBSET Offered, NEW pc, NEW next, host = pc, Drain(hits, next), HostKeeps, UNCHANGED verdictVars,
               pc \in {"boot", "shell", "script", "grace"}, next \in {"greeted", "type", "exited", "stop"}
        PROVE  /\ HostMoves /\ host \notin {"prepare", "done"} /\ host' # "prepare" /\ UNCHANGED guestVars
               /\ host' # "done" /\ UNCHANGED manifest
    BY <1>1, DrainTakes DEF HostKeeps, verdictVars, HostMoves, readerVars, Reading
  <1>2. CASE Booting
    BY <1>1, <1>2 DEF Booting
  <1>3. CASE AwaitShell
    BY <1>1, <1>3 DEF AwaitShell
  <1>4. CASE AwaitExit
    BY <1>1, <1>4 DEF AwaitExit
  <1>5. CASE Grace
    BY <1>1, <1>5 DEF Grace
  <1>6. CASE Greeted
    <2>1. typed' \in Seq(Lines) /\ taken' = taken /\ host' \in {"shell", "type", "script", "raised"}
      <3>1. Send("root", "shell") \/ \E next \in {"type", "script"} : Proceed(next)
        BY <1>6 DEF Greeted
      <3> QED
        BY <3>1, LineSent, HostContinues DEF Lines
    <2> QED
      BY <1>6, <2>1 DEF Greeted, HostKeeps, HostMoves, readerVars, Reading
  <1>7. CASE TypeCommand
    <2>1. typed' \in Seq(Lines) /\ taken' = taken /\ host' \in {"script", "raised"}
      <3>1. Send("command", "script")
        BY <1>7 DEF TypeCommand
      <3> QED
        BY <3>1, LineSent DEF Lines
    <2> QED
      BY <1>7, <2>1 DEF TypeCommand, HostKeeps, HostMoves, readerVars, verdictVars, Reading
  <1>8. CASE Exited
    BY <1>8 DEF Exited, Proceed, HostKeeps, HostMoves, readerVars, Reading
  <1>9. CASE HostTail /\ UNCHANGED <<guestVars, verdictVars>>
    BY <1>9, TailMoves DEF verdictVars
  <1>10. CASE Judge
    BY <1>10 DEF Judge, Proceed, HostKeeps, HostMoves, readerVars, Reading
  <1> QED
    BY <1>2, <1>3, <1>4, <1>5, <1>6, <1>7, <1>8, <1>9, <1>10 DEF ModernHost

LEMMA StockMoves ==
    ASSUME Reading, StockHost
    PROVE  HostMoves /\ host \notin {"prepare", "done"} /\ host' # "prepare"
  <1>1. ASSUME NEW hits \in SUBSET Offered, NEW pc, NEW next, Step(pc), Drain(hits, next),
               pc \in {"boot", "await-shell", "await-password", "await-sshd", "await-final"},
               next \in {"user", "password", "setup", "client", "stop"}
        PROVE  HostMoves /\ host \notin {"prepare", "done"} /\ host' # "prepare"
    BY <1>1, DrainTakes DEF Step, ControlKeeps, HostMoves, readerVars, Reading
  <1>2. CASE StockAwaits
    BY <1>1, <1>2 DEF StockAwaits
  <1>3. CASE StockSendRoot
    <2>1. typed' \in Seq(Lines) /\ taken' = taken /\ host' \in {"await-shell", "stop", "raised"}
      <3>1. Send("root", "await-shell") \/ Proceed("stop")
        BY <1>3 DEF StockSendRoot
      <3> QED
        BY <3>1, LineSent, HostContinues DEF Lines
    <2> QED
      BY <1>3, <2>1 DEF StockSendRoot, Step, ControlKeeps, HostMoves, readerVars, Reading
  <1>4. CASE StockSendPassword
    <2>1. typed' \in Seq(Lines) /\ taken' = taken /\ host' \in {"await-password", "setup", "raised"}
      <3>1. Send("nvdla", "await-password") \/ Proceed("setup")
        BY <1>4 DEF StockSendPassword
      <3> QED
        BY <3>1, LineSent, HostContinues DEF Lines
    <2> QED
      BY <1>4, <2>1 DEF StockSendPassword, Step, ControlKeeps, HostMoves, readerVars, Reading
  <1>5. CASE StockSendSetup
    <2>1. typed' \in Seq(Lines) /\ taken' = taken /\ host' \in {"await-sshd", "stop", "raised"}
      <3>1. Send("setup", "await-sshd") \/ Proceed("stop")
        BY <1>5 DEF StockSendSetup
      <3> QED
        BY <3>1, LineSent, HostContinues DEF Lines
    <2> QED
      BY <1>5, <2>1 DEF StockSendSetup, Step, ControlKeeps, HostMoves, readerVars, Reading
  <1>6. CASE StockClient
    BY <1>6 DEF StockClient, Step, ControlKeeps, Proceed, HostMoves, readerVars, Reading
  <1>7. CASE StockSendFinal
    <2>1. typed' \in Seq(Lines) /\ taken' = taken /\ host' \in {"await-final", "raised"}
      <3>1. Send("final", "await-final")
        BY <1>7 DEF StockSendFinal
      <3> QED
        BY <3>1, LineSent DEF Lines
    <2> QED
      BY <1>7, <2>1 DEF StockSendFinal, Step, ControlKeeps, HostMoves, readerVars, Reading
  <1>8. CASE HostTail
    BY <1>8, TailMoves
  <1>9. CASE StockJudge
    BY <1>9 DEF StockJudge, Step, ControlKeeps, Proceed, HostMoves, readerVars, Reading
  <1> QED
    BY <1>2, <1>3, <1>4, <1>5, <1>6, <1>7, <1>8, <1>9 DEF StockHost

\* The tokens that a guest writes.
LEMMA TokensWritten ==
    /\ \A kind \in Kinds : Token(kind) \in Tokens
    /\ \A name \in Names, value \in Int \cup {NoStatus} : Status(name, value) \in Tokens
  BY DEF Token, Status, Tokens, Names, Kinds

\* Short texts, and what is written after them.
LEMMA ShortTexts ==
    ASSUME NEW S
    PROVE  /\ <<>> \in Seq(S)
           /\ \A a \in S : <<a>> \in Seq(S)
           /\ \A a, b \in S : <<a, b>> \in Seq(S)
           /\ \A text, more \in Seq(S) : text \o more \in Seq(S)
  OBVIOUS

LEMMA StockGuestMoves ==
    ASSUME Reading, StockGuest
    PROVE  GuestMoves /\ UNCHANGED controlVars
  <1> USE DEF Runs, StockKeeps
  <1> DEFINE Rest == Running /\ UNCHANGED <<readerVars, host, taken, controlVars>> /\ typed' \in Seq(Lines)
             Writes == vp' = vp /\ \E text \in Seq(Tokens) : Say(text)
  <1>1. typed # <<>> => Head(typed) \in Lines /\ Tail(typed) \in Seq(Lines)
    BY DEF Reading
  <1>2. \A kind \in Kinds : Token(kind) \in Tokens
    BY TokensWritten
  <1>3. CASE StockBoot
    <2>1. \A banner \in {<<>>, <<Token("banner"), Token("text")>>} : banner \o <<Token("login")>> \in Seq(Tokens)
      <3>1. {"banner", "text", "login"} \subseteq Kinds
        BY DEF Kinds
      <3>2. Token("banner") \in Tokens /\ Token("text") \in Tokens /\ Token("login") \in Tokens
        BY <1>2, <3>1
      <3>3. {<<>>, <<Token("banner"), Token("text")>>} \subseteq Seq(Tokens) /\ <<Token("login")>> \in Seq(Tokens)
        BY <3>2, ShortTexts
      <3> QED
        BY <3>3, ShortTexts
    <2>2. Writes
      BY <1>3, <2>1 DEF StockBoot
    <2>3. Rest
      BY <1>3 DEF StockBoot, hostVars, Reading
    <2> QED
      BY <2>2, <2>3 DEF GuestMoves
  <1>4. CASE StockUser
    <2>1. \A answer \in {"prompt", "Password:"} : <<Token(answer)>> \in Seq(Tokens)
      BY <1>2 DEF Kinds
    <2>2. Writes
      BY <1>4, <2>1 DEF StockUser
    <2>3. Rest
      BY <1>1, <1>4 DEF StockUser, Read
    <2> QED
      BY <2>2, <2>3 DEF GuestMoves
  <1>5. CASE StockPassword
    <2>1. <<Token("prompt")>> \in Seq(Tokens)
      BY <1>2 DEF Kinds
    <2>2. Writes
      BY <1>5, <2>1 DEF StockPassword
    <2>3. Rest
      BY <1>1, <1>5 DEF StockPassword, Read
    <2> QED
      BY <2>2, <2>3 DEF GuestMoves
  <1>6. CASE StockShell
    <2>1. Token(Head(typed)) \in Tokens
      BY <1>1, <1>2, <1>6 DEF StockShell, Kinds
    <2>2. Echoes(Head(typed)) \subseteq Seq(Tokens)
      BY <2>1 DEF Echoes
    <2>3. Writes
      BY <1>6, <2>2 DEF StockShell
    <2>4. Rest
      BY <1>1, <1>6 DEF StockShell, Read
    <2> QED
      BY <2>3, <2>4 DEF GuestMoves
  <1>7. CASE StockSetup
    <2>1. ASSUME NEW drm \in {0, 1}, NEW m \in {0, 1}, NEW ssh \in {0, 1}
          PROVE  <<Status("drm_load", drm), Status("module_load", m), Status("sshd_start", ssh)>> \in Seq(Tokens)
      <3>1. {Status("drm_load", drm), Status("module_load", m), Status("sshd_start", ssh)} \subseteq Tokens
        <4>1. \A name \in Names, value \in {0, 1} : Status(name, value) \in Tokens
          BY TokensWritten
        <4>2. {"drm_load", "module_load", "sshd_start"} \subseteq Names
          BY DEF Names
        <4> QED
          BY <4>1, <4>2
      <3> QED
        BY <3>1
    <2>2. Writes
      BY <1>7, <2>1 DEF StockSetup
    <2>3. Rest
      BY <1>7 DEF StockSetup, hostVars, Reading
    <2> QED
      BY <2>2, <2>3 DEF GuestMoves
  <1>8. CASE StockFinal
    <2>1. <<Token("dmesg"), Status("exit", 0)>> \in Seq(Tokens)
      <3>1. Token("dmesg") \in Tokens
        BY <1>2 DEF Kinds
      <3>2. "exit" \in Names /\ 0 \in Int
        BY DEF Names
      <3>3. Status("exit", 0) \in Tokens
        BY <3>2, TokensWritten
      <3> QED
        BY <3>1, <3>3
    <2>2. Writes
      BY <1>8, <2>1 DEF StockFinal
    <2>3. Rest
      BY <1>8 DEF StockFinal, hostVars, Reading
    <2> QED
      BY <2>2, <2>3 DEF GuestMoves
  <1>9. CASE StockPowerOff
    BY <1>9 DEF StockPowerOff, GuestMoves, hostVars, Reading
  <1> QED
    BY <1>3, <1>4, <1>5, <1>6, <1>7, <1>8, <1>9 DEF StockGuest, GuestMoves

-----------------------------------------------------------------------------
(* What the guest of a session writes.                                     *)

\* What says nothing of a run, or of how the script has ended.
Quiet == {token \in Tokens : token.kind # "sdp" /\ token # ExitIsGood}

LEMMA QuietTokensWritten ==
    /\ \A kind \in Kinds \ {"sdp"} : Token(kind) \in Quiet
    /\ \A name \in Names \ {"exit"}, value \in Int \cup {NoStatus} : Status(name, value) \in Quiet
    /\ \A value \in (Int \ {0}) \cup {NoStatus} : Status("exit", value) \in Quiet
  <1>1. "exit" \in Names /\ "status" \in Kinds
    BY DEF Names, Kinds
  <1>2. ASSUME NEW kind \in Kinds \ {"sdp"} PROVE Token(kind) \in Quiet
    BY NoStatusAssumption, TokensWritten DEF Quiet, ExitIsGood, Token, Status
  <1>3. ASSUME NEW name \in Names \ {"exit"}, NEW value \in Int \cup {NoStatus} PROVE Status(name, value) \in Quiet
    BY TokensWritten DEF Quiet, ExitIsGood, Status
  <1>4. ASSUME NEW value \in (Int \ {0}) \cup {NoStatus} PROVE Status("exit", value) \in Quiet
    BY <1>1, NoStatusAssumption, TokensWritten DEF Quiet, ExitIsGood, Status
  <1> QED
    BY <1>2, <1>3, <1>4

Quietly == Boot \/ Autorun \/ Getty \/ User \/ Shell \/ Script \/ SmokeStart \/ SmokeExit \/ SmokeWrite \/ SmokePoll \/ ReportStatus

LEMMA QuietlyWrites ==
    ASSUME SessionTypes, Quietly
    PROVE  \E text \in Seq(Quiet) : Say(text)
  <1>1. <<>> \in Seq(Quiet)
    OBVIOUS
  <1>2. {"marker", "login", "prompt", "banner", "text", "autorun"} \subseteq Kinds \ {"sdp"}
    BY DEF Kinds
  <1>3. /\ <<Token("banner"), Token("text")>> \in Seq(Quiet) /\ <<Token("login")>> \in Seq(Quiet)
        /\ <<Token("prompt")>> \in Seq(Quiet) /\ <<Token("marker")>> \in Seq(Quiet)
    <2>1. \A kind \in {"marker", "login", "prompt", "banner", "text"} : Token(kind) \in Quiet
      BY <1>2, QuietTokensWritten
    <2> QED
      BY <2>1, ShortTexts
  <1>4. CASE Boot
    BY <1>1, <1>3, <1>4 DEF Boot
  <1>5. CASE Autorun
    <2>1. ASSUME NEW mounted \in {0, 1} PROVE <<Token("autorun"), Status("payload_mount", mounted)>> \in Seq(Quiet)
      <3>1. Token("autorun") \in Quiet
        BY <1>2, QuietTokensWritten
      <3>2. "payload_mount" \in Names \ {"exit"} /\ mounted \in Int
        BY DEF Names
      <3>3. Status("payload_mount", mounted) \in Quiet
        BY <3>2, QuietTokensWritten
      <3> QED
        BY <3>1, <3>3, ShortTexts
    <2> QED
      BY <1>5, <2>1 DEF Autorun
  <1>6. CASE Getty
    BY <1>3, <1>6 DEF Getty
  <1>7. CASE User
    BY <1>1, <1>3, <1>7 DEF User, Echoes
  <1>8. CASE Shell
    BY <1>1, <1>3, <1>8 DEF Shell, Echoes
  <1>9. CASE Script
    <2>1. ASSUME NEW m \in {0, 1}, NEW d \in {0, 1}, NEW config \in {"match", "other"}
          PROVE  <<Status("module_load", m)>>
                   \o (IF m = 0 THEN <<[kind |-> "probe", name |-> config, value |-> NoStatus]>> ELSE <<>>)
                   \o <<Status("dev_dri", d)>> \in Seq(Quiet)
      <3>1. {"module_load", "dev_dri"} \subseteq Names \ {"exit"} /\ m \in Int /\ d \in Int
        BY DEF Names
      <3>6. config \in Names /\ "probe" \in Kinds
        BY DEF Names, Kinds
      <3>2. Status("module_load", m) \in Quiet /\ Status("dev_dri", d) \in Quiet
        BY <3>1, QuietTokensWritten
      <3>3. [kind |-> "probe", name |-> config, value |-> NoStatus] \in Quiet
        BY <3>6 DEF Quiet, Tokens, ExitIsGood, Status
      <3>4. (IF m = 0 THEN <<[kind |-> "probe", name |-> config, value |-> NoStatus]>> ELSE <<>>) \in Seq(Quiet)
        BY <3>3, ShortTexts
      <3>5. <<Status("module_load", m)>> \in Seq(Quiet) /\ <<Status("dev_dri", d)>> \in Seq(Quiet)
        BY <3>2, ShortTexts
      <3> QED
        BY <3>4, <3>5, ShortTexts
    <2> QED
      BY <1>9, <2>1 DEF Script
  <1>10. CASE SmokeStart \/ SmokeExit \/ SmokeWrite \/ SmokePoll
    BY <1>1, <1>10 DEF SmokeStart, SmokeExit, SmokeWrite, SmokePoll
  <1>11. CASE ReportStatus
    <2>1. {"runtime_server_ready", "runtime_client", "runtime_compare", "runtime", "smoke"} \subseteq Names \ {"exit"}
      BY DEF Names
    <2>2. /\ Status("runtime_server_ready", server) \in Quiet /\ Status("runtime_client", client) \in Quiet
          /\ Status("runtime_compare", compare) \in Quiet /\ Status("runtime", status) \in Quiet /\ Status("smoke", status) \in Quiet
      BY <2>1, QuietTokensWritten DEF SessionTypes
    <2>3. <<Status("smoke", status)>> \in Seq(Quiet)
      BY <2>2, ShortTexts
    <2>4. <<Status("runtime_server_ready", server), Status("runtime_client", client),
            Status("runtime_compare", compare), Status("runtime", status)>> \in Seq(Quiet)
      BY <2>2
    <2> QED
      BY <1>11, <2>3, <2>4 DEF ReportStatus
  <1> QED
    BY <1>4, <1>5, <1>6, <1>7, <1>8, <1>9, <1>10, <1>11 DEF Quietly

\* A client that ends well has seen the answer to the command that runs the
\* workload: the operation has completed.
LEMMA ClientHasItsAnswer ==
    ASSUME NEW answers, NEW data, RunProtocol(answers, data).status = 0
    PROVE  answers[2] # "closed"
  <1>1. \A j \in 1 .. 5 : ~Raises(j, answers[j])
    BY DEF RunProtocol
  <1> QED
    BY <1>1 DEF Raises

\* One turn of the loop: how the run really ended, what the console shows of
\* it and what the script makes of it.
Reports(text, code) ==
    /\ Say(text) /\ exits' = Append(exits, code)
    /\ ~Says(text, ExitIsGood)
    /\ code = 0 => (\A token \in StuckTokens : ~Says(text, token)) /\ (writable = 0 => output' = "golden")
    /\ status' \in Int /\ (status' = 0 <=> code = 0)
    /\ server' \in Int /\ client' \in Int /\ compare' \in Int
    /\ guest' = IF code = 0 /\ Len(exits') < Repeat THEN "runtime" ELSE "report"
    /\ output' = output \/ writable = 0

LEMMA RunIsReported ==
    ASSUME SessionTypes, RuntimeRun
    PROVE  \E text \in Seq(Tokens), code \in Int : Reports(text, code)
  <1> DEFINE NotRun == /\ client' = 98 /\ compare' = 98 /\ Say(<<>>)
                       /\ exits' = Append(exits, 98) /\ UNCHANGED <<server, output>>
             file(ready, answers, data) == IF ready = 0 THEN RunProtocol(answers, data).file ELSE "none"
             Run(ready, answers, data) ==
                 /\ server' = ready
                 /\ client' = (IF ready = 0 THEN RunProtocol(answers, data).status ELSE 125)
                 /\ compare' = (IF client' # 0 THEN 126 ELSE IF file(ready, answers, data) = "golden" THEN 0 ELSE 1)
                 /\ output' = IF writable = 0 /\ file(ready, answers, data) # "none" THEN file(ready, answers, data) ELSE output
                 /\ exits' = Append(exits, IF client' = 0 /\ file(ready, answers, data) = "golden" THEN 0 ELSE 1)
                 /\ Say(IF ready = 0 THEN Sdp(answers) ELSE <<>>)
  <1>1. /\ status' = IF client' = 0 /\ compare' = 0 THEN 0 ELSE 1
        /\ guest' = IF client' = 0 /\ compare' = 0 /\ Len(exits') < Repeat THEN "runtime" ELSE "report"
    BY DEF RuntimeRun, RunsOn
  <1>2. \/ NotRun
        \/ \E ready \in {0, 1}, answers \in Conversations, data \in {"golden", "zero", "other"} : Run(ready, answers, data)
    <2>1. PICK node \in NodeSeen :
            \/ NotRun
            \/ \E ready \in {0, 1}, answers \in Conversations, data \in {"golden", "zero", "other"} : Run(ready, answers, data)
      <3>1. PICK node \in NodeSeen :
              IF ~(DeviceReady /\ node) THEN NotRun
              ELSE \E ready \in {0, 1}, answers \in Conversations, data \in {"golden", "zero", "other"} : Run(ready, answers, data)
        BY DEF RuntimeRun
      <3> HIDE DEF NotRun, Run
      <3> QED
        BY <3>1
    <2> QED
      BY <2>1
  <1>3. CASE NotRun
    <2>1. <<>> \in Seq(Tokens) /\ ~Says(<<>>, ExitIsGood)
      BY DEF Says
    <2>2. /\ status' \in Int /\ status' # 0 /\ guest' = "report"
          /\ server' \in Int /\ client' \in Int /\ compare' \in Int
      BY <1>1, <1>3 DEF SessionTypes
    <2>3. Reports(<<>>, 98)
      BY <1>3, <2>1, <2>2 DEF Reports
    <2> WITNESS <<>> \in Seq(Tokens), 98 \in Int
    <2> QED
      BY <2>3
  <1>4. ASSUME NEW ready \in {0, 1}, NEW answers \in Conversations, NEW data \in {"golden", "zero", "other"},
               Run(ready, answers, data)
        PROVE  \E text \in Seq(Tokens), code \in Int : Reports(text, code)
    <2> DEFINE text == IF ready = 0 THEN Sdp(answers) ELSE <<>>
               code == IF client' = 0 /\ file(ready, answers, data) = "golden" THEN 0 ELSE 1
               token == [kind |-> "sdp", name |-> IF answers[2] = "closed" THEN "stuck" ELSE "completed", value |-> NoStatus]
    <2>1. token \in Tokens
      <3>1. {"stuck", "completed"} \subseteq Names /\ "sdp" \in Kinds
        BY DEF Names, Kinds
      <3> QED
        BY <3>1 DEF Tokens
    <2>2. Sdp(answers) = <<token>>
      BY DEF Sdp
    <2>3. token # ExitIsGood /\ (answers[2] # "closed" => token \notin StuckTokens)
      BY DEF ExitIsGood, Status, StuckTokens
    <2> HIDE DEF token
    <2>4. text \in Seq(Tokens) /\ \A said : Says(text, said) => said = token
      <3>1. <<>> \in Seq(Tokens) /\ <<token>> \in Seq(Tokens)
        BY <2>1, ShortTexts
      <3>2. \A said : ~Says(<<>>, said) /\ (Says(<<token>>, said) => said = token)
        BY DEF Says
      <3> QED
        BY <2>2, <3>1, <3>2
    <2>5. RunProtocol(answers, data).status \in {0, 1}
      BY DEF RunProtocol
    <2>6. client' = 0 => ready = 0 /\ answers[2] # "closed"
      BY <1>4, ClientHasItsAnswer
    <2>7. ~Says(text, ExitIsGood) /\ (client' = 0 => \A stuck \in StuckTokens : ~Says(text, stuck))
      BY <2>3, <2>4, <2>6
    <2>8. (client' = 0 /\ compare' = 0) <=> code = 0
      BY <1>4
    <2>9. status' \in Int /\ (status' = 0 <=> code = 0) /\ guest' = IF code = 0 /\ Len(exits') < Repeat THEN "runtime" ELSE "report"
      <3> HIDE DEF code
      <3> QED
        BY <1>1, <2>8
    <2>10. server' \in Int /\ client' \in Int /\ compare' \in Int
      BY <1>4, <2>5
    <2>11. code \in Int /\ exits' = Append(exits, code)
      BY <1>4
    <2>12. Say(text) /\ (output' = output \/ writable = 0) /\ (code = 0 /\ writable = 0 => output' = "golden")
      BY <1>4
    <2>13. code = 0 => client' = 0
      OBVIOUS
    <2> HIDE DEF text, code
    <2>14. Reports(text, code)
      BY <2>4, <2>7, <2>9, <2>10, <2>11, <2>12, <2>13 DEF Reports
    <2> QED
      BY <2>4, <2>11, <2>14
  <1> QED
    <2> HIDE DEF NotRun, Run
    <2> QED
      BY <1>2, <1>3, <1>4

-----------------------------------------------------------------------------
(* A step of the guest leaves the traces that it should.                   *)

LEMMA QuietStep ==
    ASSUME console \in Seq(Tokens), Progress, Traces, vp = "running", guest # "poweroff",
           NEW text \in Seq(Quiet), Say(text), UNCHANGED <<mode, output>>,
           UNCHANGED writable \/ (exits = <<>> /\ output = "none"),
           UNCHANGED exits \/ mode = "smoke"
    PROVE  Traces' /\ ~Says(console', ExitIsGood)
  <1>1. text \in Seq(Tokens) /\ \A k \in DOMAIN text : text[k] \in Quiet
    BY DEF Quiet
  <1>2. ~Says(text, ExitIsGood) /\ ~Shows(text, "sdp")
    BY <1>1 DEF Says, Shows, Quiet
  <1>3. /\ Says(console', ExitIsGood) <=> Says(console, ExitIsGood)
        /\ Shows(console', "sdp") <=> Shows(console, "sdp")
        /\ \A token \in StuckTokens : Says(console', token) => Says(console, token)
    <2>1. \A token \in StuckTokens : ~Says(text, token)
      BY <1>1 DEF Says, Quiet, StuckTokens
    <2> QED
      BY <1>1, <1>2, <2>1, SaidLater DEF Say
  <1>4. ~Says(console', ExitIsGood)
    BY <1>3 DEF Progress
  <1>5. Shows(console', "sdp") => mode' = "runtime" /\ exits' # <<>>
    BY <1>3 DEF Traces
  <1>6. ASSUME mode' = "runtime", exits' # <<>>, exits'[Len(exits')] = 0
        PROVE  writable' = 0 => output' = "golden"
    BY <1>6 DEF Traces
  <1>7. output' # "none" => writable' = 0
    BY DEF Traces
  <1>8. ASSUME NEW token \in StuckTokens, Says(console', token) PROVE exits'[Len(exits')] # 0
    <2>1. Says(console, token)
      BY <1>3, <1>8
    <2>2. mode = "runtime"
      BY <2>1 DEF Says, Shows, StuckTokens, Traces
    <2>3. exits' = exits
      BY <2>2
    <2> QED
      BY <2>1, <2>3 DEF Traces
  <1> QED
    BY <1>4, <1>5, <1>6, <1>7, <1>8 DEF Traces

\* The part of the invariant that a step of the guest can disturb.
ProgressKept ==
    /\ SessionTypes' /\ Progress'
    /\ vp' = vp /\ UNCHANGED <<readerVars, verdictVars, host, taken, mode, output>>
    /\ UNCHANGED writable \/ (exits = <<>> /\ output = "none")
    /\ UNCHANGED exits \/ mode = "smoke"

LEMMA BeforeTheRuns ==
    ASSUME SessionTypes, Progress, Running, ~Says(console', ExitIsGood),
           Boot \/ Autorun \/ Getty \/ User \/ Shell \/ Script
    PROVE  ProgressKept
  <1>1. exits = <<>> /\ output = "none" /\ vp = "running"
    BY DEF Progress, Running, BeforeRuns, SessionTypes, Boot, Autorun, Getty, User, Shell, Script
  <1>2. /\ vp' = vp /\ UNCHANGED <<readerVars, verdictVars, host, taken, mode, rootfs, exits, output, server, client, compare>>
    BY DEF Boot, Autorun, Getty, User, Shell, Script, GuestKeeps, HostUntouched, ScriptUntouched, hostVars, scriptVars, Read
  <1>3. CASE Boot \/ Getty \/ User \/ Shell
    <2>1. guest' \in BeforeRuns /\ UNCHANGED scriptVars
      BY <1>3 DEF Boot, Getty, User, Shell, ScriptUntouched, SessionTypes, BeforeRuns
    <2>2. SessionTypes'
      BY <1>2, <2>1 DEF SessionTypes, Guests, BeforeRuns, scriptVars
    <2>3. Progress'
      BY <1>1, <1>2, <2>1 DEF Progress, BeforeRuns
    <2> QED
      BY <1>1, <1>2, <2>2, <2>3 DEF ProgressKept
  <1>4. CASE Autorun
    <2>1. /\ (guest' = "script" /\ status' = status) \/ (guest' = "exit" /\ status' = 1)
          /\ UNCHANGED <<module, dri, writable>>
      BY <1>4 DEF Autorun
    <2>2. SessionTypes'
      BY <1>2, <2>1 DEF SessionTypes, Guests
    <2>3. Progress'
      BY <1>1, <1>2, <2>1 DEF Progress, BeforeRuns
    <2> QED
      BY <1>1, <1>2, <2>2, <2>3 DEF ProgressKept
  <1>5. CASE Script
    <2>1. guest' = mode /\ {module', dri', writable'} \subseteq {0, 1} /\ status' = status
      BY <1>5 DEF Script
    <2>2. SessionTypes'
      BY <1>2, <2>1 DEF SessionTypes, Guests
    <2>3. Progress'
      BY <1>1, <1>2, <2>1 DEF Progress, BeforeRuns, SessionTypes
    <2> QED
      BY <1>1, <1>2, <2>2, <2>3 DEF ProgressKept
  <1> QED
    BY <1>3, <1>4, <1>5

\* The smoke utility: the last status that its file had is that of the last run.
LEMMA SmokeRuns ==
    ASSUME SessionTypes, Progress, Running, ~Says(console', ExitIsGood),
           SmokeStart \/ SmokeExit \/ SmokeWrite \/ SmokePoll
    PROVE  ProgressKept
  <1>1. mode = "smoke" /\ guest \in {"smoke", "poll"} /\ exits \in Seq(Int) /\ Repeat \in Nat \ {0} /\ vp = "running"
    BY RepeatAssumption DEF SessionTypes, Progress, Running, SmokeStart, SmokeExit, SmokeWrite, SmokePoll
  <1>2. /\ vp' = vp
        /\ UNCHANGED <<readerVars, verdictVars, host, taken, mode, rootfs, output, module, dri, server, client, compare, writable>>
    BY DEF SmokeStart, SmokeExit, SmokeWrite, SmokePoll, GuestKeeps, HostUntouched, hostVars
  <1>3. \A code \in Int : /\ Append(exits, code) \in Seq(Int) /\ Len(Append(exits, code)) = Len(exits) + 1
                          /\ Append(exits, code)[Len(exits) + 1] = code
    BY <1>1
  <1>4. ASSUME guest' \in {"smoke", "poll", "report"}, exits' \in Seq(Int), status' \in Int \cup {NoStatus},
               guest' = "poll" => PollsLastRun', guest' = "report" /\ status' = 0 => AllRunsMade'
        PROVE  ProgressKept
    <2>1. SessionTypes'
      BY <1>2, <1>4 DEF SessionTypes, Guests
    <2>2. Progress'
      BY <1>1, <1>2, <1>4 DEF Progress, BeforeRuns
    <2> QED
      BY <1>1, <1>2, <2>1, <2>2 DEF ProgressKept
  <1>5. CASE SmokeStart
    <2>1. \/ statusFile' = <<>> /\ guest' = "poll" /\ UNCHANGED <<status, exits>>
          \/ status' = 98 /\ guest' = "report" /\ exits' = Append(exits, 98)
      BY <1>5 DEF SmokeStart
    <2>2. Len(exits) < Repeat
      BY <1>5 DEF SmokeStart
    <2>3. CASE statusFile' = <<>> /\ guest' = "poll" /\ UNCHANGED <<status, exits>>
      BY <1>1, <1>4, <2>2, <2>3 DEF PollsLastRun, SessionTypes
    <2>4. CASE status' = 98 /\ guest' = "report" /\ exits' = Append(exits, 98)
      BY <1>3, <1>4, <2>4
    <2> QED
      BY <2>1, <2>3, <2>4
  <1>6. CASE SmokeExit
    <2>1. PICK code \in {0, 1} : exits' = Append(exits, code)
      BY <1>6 DEF SmokeExit
    <2>2. /\ guest = "poll" /\ guest' = "poll" /\ status' = status
          /\ statusFile = <<>> /\ statusFile' = <<NoStatus>>
      BY <1>6 DEF SmokeExit
    <2>3. Len(exits) < Repeat
      BY <2>2 DEF Progress, PollsLastRun
    <2>4. PollsLastRun'
      BY <1>1, <1>3, <2>1, <2>2, <2>3 DEF PollsLastRun
    <2> QED
      BY <1>3, <1>4, <2>1, <2>2, <2>4 DEF SessionTypes
  <1>7. CASE SmokeWrite
    <2>1. /\ guest = "poll" /\ guest' = "poll" /\ status' = status /\ exits' = exits
          /\ statusFile = <<NoStatus>> /\ statusFile' = <<Last(exits)>>
      BY <1>7 DEF SmokeWrite
    <2>2. Len(exits) \in 1 .. Repeat
      BY <2>1 DEF Progress, PollsLastRun
    <2>3. PollsLastRun'
      BY <2>1, <2>2 DEF PollsLastRun, Last
    <2> QED
      BY <1>1, <1>4, <2>1, <2>3 DEF SessionTypes
  <1>8. CASE SmokePoll
    <2>1. guest = "poll" /\ PollsLastRun
      BY <1>8 DEF SmokePoll, Progress
    <2>2. guest' = IF status' \in {0, NoStatus} /\ Len(exits') < Repeat THEN "smoke" ELSE "report"
      BY <1>8 DEF SmokePoll
    <2>3. CASE statusFile # <<>> /\ status' = Head(statusFile) /\ UNCHANGED exits
      <3>1. Len(exits) \in 1 .. Repeat /\ status' \in {NoStatus, exits[Len(exits)]}
        BY <2>1, <2>3 DEF PollsLastRun
      <3>2. exits[Len(exits)] \in Int
        BY <1>1, <3>1
      <3>3. ASSUME guest' = "report", status' = 0 PROVE AllRunsMade'
        <4>1. Len(exits) = Repeat
          BY <1>1, <2>2, <2>3, <3>1, <3>3
        <4>2. exits[Len(exits)] = 0
          BY <3>1, <3>3, NoStatusAssumption
        <4> QED
          BY <1>1, <1>2, <2>3, <4>1, <4>2 DEF AllRunsMade
      <3> QED
        BY <1>1, <1>4, <2>2, <2>3, <3>1, <3>2, <3>3
    <2>4. CASE status' = 124 /\ exits' = Append(exits, 124)
      BY <1>3, <1>4, <2>2, <2>4, NoStatusAssumption
    <2> QED
      BY <1>8, <2>3, <2>4 DEF SmokePoll
  <1> QED
    BY <1>5, <1>6, <1>7, <1>8

\* The last statuses of the script, and its exit status.
LEMMA Reported ==
    ASSUME SessionTypes, Progress, Running, ~Says(console', ExitIsGood), ReportStatus
    PROVE  ProgressKept
  <1>1. /\ vp = "running" /\ vp' = vp /\ guest = "report" /\ guest' = "exit"
        /\ UNCHANGED <<readerVars, verdictVars, host, taken, mode, rootfs, output, exits, module, dri, server, client, compare, writable>>
    BY DEF ReportStatus, Running, GuestKeeps, HostUntouched, hostVars
  <1>2. status' \in {0, 1} /\ (status' = 0 => status = 0)
    BY DEF ReportStatus
  <1>3. SessionTypes'
    BY <1>1, <1>2 DEF SessionTypes, Guests
  <1>4. Progress'
    BY <1>1, <1>2 DEF Progress, BeforeRuns, AllRunsMade
  <1> QED
    BY <1>1, <1>3, <1>4 DEF ProgressKept

\* What is common to all of the steps of the guest but the last one.
GuestUntouched == vp' = vp /\ UNCHANGED <<readerVars, verdictVars, host, taken, mode, rootfs>>

LEMMA RuntimeRuns ==
    ASSUME console \in Seq(Tokens), SessionTypes, Progress, Traces, Running, RuntimeRun
    PROVE  /\ SessionTypes' /\ Progress' /\ Traces' /\ GuestUntouched
           /\ \E text \in Seq(Tokens) : Say(text)
  <1>1. PICK text \in Seq(Tokens), code \in Int : Reports(text, code)
    BY RunIsReported
  <1>2. /\ GuestUntouched /\ UNCHANGED <<module, dri, writable>>
        /\ vp = "running" /\ guest = "runtime" /\ mode = "runtime" /\ Len(exits) < Repeat
        /\ \A k \in DOMAIN exits : exits[k] = 0
    BY DEF RuntimeRun, Running, GuestKeeps, HostUntouched, hostVars, GuestUntouched, Progress
  <1>3. exits \in Seq(Int) /\ Repeat \in Nat \ {0}
    BY RepeatAssumption DEF SessionTypes
  <1>4. /\ exits' \in Seq(Int) /\ Len(exits') = Len(exits) + 1 /\ exits'[Len(exits')] = code /\ exits' # <<>>
        /\ \A k \in DOMAIN exits' : exits'[k] = 0 \/ (k = Len(exits') /\ exits'[k] = code)
    <2>1. exits' = Append(exits, code)
      BY <1>1 DEF Reports
    <2> QED
      BY <1>2, <1>3, <2>1
  <1>5. guest' \in {"runtime", "report"}
    BY <1>1 DEF Reports
  <1>6. SessionTypes'
    BY <1>1, <1>2, <1>4, <1>5 DEF SessionTypes, Reports, GuestUntouched, Guests
  <1>7. /\ Says(console', ExitIsGood) <=> Says(console, ExitIsGood)
        /\ \A token \in StuckTokens : Says(console', token) => Says(console, token) \/ code # 0
    BY <1>1, SaidLater DEF Reports, Say
  <1>8. ~Says(console', ExitIsGood)
    BY <1>2, <1>7 DEF Progress
  <1>9. code = 0 => \A k \in DOMAIN exits' : exits'[k] = 0
    BY <1>4
  <1>10. guest' = "runtime" => code = 0
    BY <1>1 DEF Reports
  <1>11. ASSUME guest' = "report", status' = 0 PROVE AllRunsMade'
    <2>1. code = 0 /\ ~(Len(exits') < Repeat)
      BY <1>1, <1>11 DEF Reports
    <2>2. Len(exits') = Repeat /\ exits'[Len(exits')] = 0
      BY <1>2, <1>3, <1>4, <2>1
    <2> QED
      BY <1>9, <2>1, <2>2 DEF AllRunsMade
  <1>12. Progress'
    BY <1>2, <1>5, <1>8, <1>9, <1>10, <1>11 DEF Progress, GuestUntouched, BeforeRuns
  <1>13. Traces'
    <2>1. mode' = "runtime" /\ exits' # <<>> /\ writable' = writable
      BY <1>2, <1>4 DEF GuestUntouched
    <2>2. exits'[Len(exits')] = 0 => (writable' = 0 => output' = "golden")
      BY <1>1, <1>4, <2>1 DEF Reports
    <2>4. ASSUME NEW token \in StuckTokens, Says(console', token) PROVE exits'[Len(exits')] # 0
      <3>1. CASE code # 0
        BY <1>4, <3>1
      <3>2. CASE Says(console, token)
        <4>1. exits # <<>> /\ exits[Len(exits)] # 0
          BY <3>2 DEF Says, Shows, StuckTokens, Traces
        <4>2. Len(exits) \in DOMAIN exits
          BY <1>3, <4>1
        <4> QED
          BY <1>2, <4>1, <4>2
      <3> QED
        BY <1>7, <2>4, <3>1, <3>2
    <2>3. output' # "none" => writable' = 0
      BY <1>1, <2>1 DEF Reports, Traces
    <2> QED
      BY <2>1, <2>2, <2>3, <2>4 DEF Traces
  <1> QED
    BY <1>1, <1>2, <1>6, <1>12, <1>13 DEF Reports

LEMMA Exits ==
    ASSUME console \in Seq(Tokens), SessionTypes, Progress, Traces, Running, Exit
    PROVE  /\ SessionTypes' /\ Progress' /\ Traces' /\ GuestUntouched
           /\ \E text \in Seq(Tokens) : Say(text)
  <1>1. /\ GuestUntouched /\ UNCHANGED <<scriptVars, output>> /\ vp = "running"
        /\ guest = "exit" /\ guest' = "poweroff" /\ Say(<<Status("exit", status)>>)
    BY DEF Exit, Running, GuestKeeps, HostUntouched, hostVars, GuestUntouched, ScriptUntouched
  <1>2. <<Status("exit", status)>> \in Seq(Tokens)
    <2>1. "exit" \in Names
      BY DEF Names
    <2>2. Status("exit", status) \in Tokens
      BY <2>1, TokensWritten DEF SessionTypes
    <2> QED
      BY <2>2, ShortTexts
  <1>3. /\ Says(console', ExitIsGood) <=> Says(console, ExitIsGood) \/ Says(<<Status("exit", status)>>, ExitIsGood)
        /\ Shows(console', "sdp") <=> Shows(console, "sdp") \/ Shows(<<Status("exit", status)>>, "sdp")
        /\ \A token : Says(console', token) => Says(console, token) \/ Says(<<Status("exit", status)>>, token)
    BY <1>1, <1>2, SaidLater DEF Say
  <1>4. Says(<<Status("exit", status)>>, ExitIsGood) => status = 0
    BY DEF Says, ExitIsGood, Status
  <1>5. ~Shows(<<Status("exit", status)>>, "sdp") /\ \A token \in StuckTokens : ~Says(<<Status("exit", status)>>, token)
    BY DEF Shows, Says, Status, StuckTokens
  <1>6. Says(console', ExitIsGood) => AllRunsMade
    BY <1>1, <1>3, <1>4 DEF Progress
  <1>7. SessionTypes'
    BY <1>1 DEF SessionTypes, GuestUntouched, scriptVars, Guests
  <1>8. Progress'
    BY <1>1, <1>6 DEF Progress, GuestUntouched, scriptVars, BeforeRuns, AllRunsMade
  <1>9. Traces'
    BY <1>1, <1>3, <1>5 DEF Traces, GuestUntouched, scriptVars
  <1> QED
    BY <1>1, <1>2, <1>7, <1>8, <1>9

LEMMA PlatformEnds ==
    ASSUME SessionTypes, Progress, Traces,
           (PowerOff /\ UNCHANGED verdictVars) \/ (Die /\ UNCHANGED <<guestVars, verdictVars>>)
    PROVE  SessionTypes' /\ Progress' /\ Traces'
  <1>1. /\ vp' = "ended" /\ UNCHANGED <<console, mode, rootfs, scriptVars, output>> /\ (guest' = guest \/ guest' = "off")
    BY DEF PowerOff, Die, guestVars
  <1>2. SessionTypes'
    BY <1>1 DEF SessionTypes, scriptVars, Guests
  <1>3. Progress'
    BY <1>1 DEF Progress, scriptVars, BeforeRuns, AllRunsMade, PollsLastRun
  <1>4. Traces'
    BY <1>1 DEF Traces, scriptVars
  <1> QED
    BY <1>2, <1>3, <1>4

LEMMA GuestStep ==
    ASSUME Reading, Session, Guest
    PROVE  GuestMoves /\ Session' /\ UNCHANGED verdictVars
  <1>1. Running /\ vp = "running" /\ host' = host /\ host \notin {"prepare", "done"} /\ SessionTypes /\ Progress /\ Traces /\ manifest = NoManifest
    <2>1. Running /\ host' = host
      BY DEF Guest, Boot, Autorun, Getty, User, Shell, Script, RuntimeRun, SmokeStart, SmokeExit, SmokeWrite, SmokePoll,
             ReportStatus, Exit, PowerOff, HostUntouched, hostVars, Read
    <2>2. host \notin {"prepare", "done"} /\ vp = "running"
      BY <2>1 DEF Reading, Running, Silenced
    <2> QED
      BY <2>1, <2>2 DEF Session
  <1>2. typed' \in Seq(Lines)
    <2>1. typed' = typed \/ (typed # <<>> /\ typed' = Tail(typed))
      BY DEF Guest, Boot, Autorun, Getty, User, Shell, Script, RuntimeRun, SmokeStart, SmokeExit, SmokeWrite, SmokePoll,
             ReportStatus, Exit, PowerOff, HostUntouched, hostVars, Read
    <2> QED
      BY <2>1 DEF Reading
  <1>3. ASSUME SessionTypes', Progress', Traces', UNCHANGED verdictVars
        PROVE  Session'
    BY <1>1, <1>3 DEF Session, verdictVars, SessionPassIsEarned, NoManifest
  <1>4. CASE PowerOff
    <2>1. UNCHANGED verdictVars /\ vp' = "ended" /\ UNCHANGED <<console, readerVars, hostVars>>
      BY <1>4 DEF PowerOff
    <2>2. Session'
      BY <1>1, <1>3, <1>4, <2>1, PlatformEnds
    <2> QED
      BY <1>1, <1>2, <2>1, <2>2 DEF GuestMoves, hostVars
  <1>5. CASE RuntimeRun \/ Exit
    <2>1. SessionTypes' /\ Progress' /\ Traces' /\ GuestUntouched /\ \E text \in Seq(Tokens) : Say(text)
      BY <1>1, <1>5, RuntimeRuns, Exits DEF Reading, RuntimeRun, Exit
    <2> QED
      BY <1>1, <1>2, <1>3, <2>1 DEF GuestMoves, GuestUntouched
  <1>6. CASE Quietly
    <2>1. PICK text \in Seq(Quiet) : Say(text)
      BY <1>1, <1>6, QuietlyWrites
    <2>2. Running /\ guest # "poweroff"
      BY <1>6 DEF Quietly, Boot, Autorun, Getty, User, Shell, Script, SmokeStart, SmokeExit, SmokeWrite, SmokePoll, ReportStatus
    <2>3. /\ UNCHANGED <<mode, output>> /\ (UNCHANGED exits \/ mode = "smoke")
          /\ UNCHANGED writable \/ (exits = <<>> /\ output = "none")
      BY <1>1, <1>6 DEF Quietly, Boot, Autorun, Getty, User, Shell, Script, SmokeStart, SmokeExit, SmokeWrite, SmokePoll, ReportStatus,
         GuestKeeps, ScriptUntouched, scriptVars, Progress, BeforeRuns
    <2>4. Traces' /\ ~Says(console', ExitIsGood)
      BY <1>1, <2>1, <2>2, <2>3, QuietStep DEF Reading
    <2>5. ProgressKept
      BY <1>1, <1>6, <2>2, <2>4, BeforeTheRuns, SmokeRuns, Reported DEF Quietly
    <2>6. text \in Seq(Tokens)
      BY DEF Quiet
    <2>7. /\ SessionTypes' /\ Progress' /\ UNCHANGED verdictVars
          /\ vp' = vp /\ UNCHANGED <<readerVars, host, taken>>
      BY <2>5 DEF ProgressKept
    <2>8. GuestMoves
      BY <1>1, <1>2, <2>1, <2>6, <2>7 DEF GuestMoves
    <2> QED
      BY <1>3, <2>4, <2>7, <2>8
  <1> QED
    BY <1>4, <1>5, <1>6 DEF Guest, Quietly

-----------------------------------------------------------------------------
(* The judgement of a session.                                             *)

LEMMA JudgementIsEarned ==
    ASSUME Reading, Session, Judge
    PROVE  SessionPassIsEarned'
  <1> DEFINE Excused == KnownTimeout(serial) \/ KnownZeroOutput(serial)
  <1>1. /\ serial \in Seq(Tokens) /\ SessionTypes /\ Progress /\ Traces
        /\ \A token : Says(serial, token) => Says(console, token)
        /\ \A kind : Shows(serial, kind) => Shows(console, kind)
        /\ ~Shows(serial, "bad") => NoTroubleSeen
    BY JudgedIsRead DEF Judge, Session
  <1>2. PICK named \in BOOLEAN :
          /\ manifest' = [status |-> IF PassConditions(serial, named) THEN "pass" ELSE "fail", diagnosis |-> Diagnosis(serial, named)]
          /\ UNCHANGED <<console, exits, mode, output, reader, taken>>
    BY DEF Judge, Ends, Proceed, HostKeeps, outputVars, readerVars, guestVars, scriptVars
  <1>3. Diagnosis(serial, named) # "reference"
    BY DEF Diagnosis
  <1>4. ASSUME PassConditions(serial, named)
        PROVE  /\ Len(exits) = Repeat /\ Last(exits) = 0
               /\ mode = "runtime" => ToSet(exits) = {0} /\ output = "golden"
               /\ ~Shows(serial, "bad")
    <2>1. Extract(serial, "exit") = 0 /\ ~Shows(serial, "bad") /\ (mode = "runtime" => output = "golden")
      BY <1>4 DEF PassConditions, Bad, HostCompare
    <2>2. Says(console, ExitIsGood)
      BY <1>1, <2>1, ExtractedIsSaid DEF ExitIsGood
    <2>3. AllRunsMade /\ exits \in Seq(Int) /\ Repeat \in Nat \ {0}
      BY <1>1, <2>2, RepeatAssumption DEF Progress, SessionTypes
    <2>4. mode = "runtime" => ToSet(exits) = {0}
      <3>1. 1 \in DOMAIN exits
        BY <2>3 DEF AllRunsMade
      <3> QED
        BY <2>3, <3>1 DEF AllRunsMade, ToSet
    <2> QED
      BY <2>1, <2>3, <2>4 DEF AllRunsMade, Last
  <1>5. ASSUME mode = "runtime", Excused
        PROVE  ~Shows(serial, "bad") /\ Last(exits) # 0
    <2>1. ~Shows(serial, "bad")
      BY <1>5 DEF KnownTimeout, KnownZeroOutput, Bad
    <2>2. Shows(serial, "sdp")
      BY <1>5 DEF KnownTimeout, KnownZeroOutput, SdpShape, Shows
    <2>3. exits # <<>>
      BY <1>1, <2>2 DEF Traces
    <2>4. CASE KnownTimeout(serial)
      <3>1. PICK k \in DOMAIN serial : serial[k].kind = "sdp" /\ serial[k].name # "completed"
        BY <2>4 DEF KnownTimeout, SdpShape
      <3>2. serial[k] \in StuckTokens
        BY <1>1, <3>1 DEF StuckTokens
      <3>3. Says(console, serial[k])
        BY <1>1, <3>1 DEF Says
      <3> QED
        BY <1>1, <2>1, <3>2, <3>3 DEF Traces, Last
    <2>5. CASE KnownZeroOutput(serial)
      <3>1. output = "zero"
        BY <2>5 DEF KnownZeroOutput
      <3> QED
        BY <1>1, <1>5, <2>1, <2>3, <3>1 DEF Traces, Last
    <2> QED
      BY <1>5, <2>1, <2>4, <2>5
  <1>6. Diagnosis(serial, named) \in {"known_sdp_completion_timeout", "known_sdp_zero_output_golden_mismatch"}
          => mode = "runtime" /\ Excused
    BY <1>1 DEF Diagnosis, SessionTypes
  <1>7. ~Shows(serial, "bad") => NoTroubleSeen'
    BY <1>1, <1>2 DEF NoTroubleSeen
  <1> HIDE DEF Excused
  <1> QED
    BY <1>2, <1>3, <1>4, <1>5, <1>6, <1>7 DEF SessionPassIsEarned

\* Trouble on the console is no run, and no exit status.
LEMMA TroubleStep ==
    ASSUME Reading, NEW there, Trouble(there), typed' = typed
    PROVE  /\ GuestMoves
           /\ \A token : token # Token("bad") => (Says(console', token) <=> Says(console, token))
           /\ \A kind : kind # "bad" => (Shows(console', kind) <=> Shows(console, kind))
  <1>1. <<Token("bad")>> \in Seq(Tokens) /\ Say(<<Token("bad")>>)
    <2>1. Token("bad") \in Tokens
      BY TokensWritten DEF Kinds
    <2> QED
      BY <2>1, ShortTexts DEF Trouble
  <1>2. \A token : Says(<<Token("bad")>>, token) => token = Token("bad")
    BY DEF Says
  <1>3. \A kind : Shows(<<Token("bad")>>, kind) => kind = "bad"
    <2>1. Token("bad").kind = "bad"
      BY DEF Token
    <2> QED
      BY <2>1 DEF Shows
  <1>4. GuestMoves
    BY <1>1 DEF Trouble, GuestMoves, hostVars, Reading
  <1> QED
    BY <1>1, <1>2, <1>3, <1>4, SaidLater DEF Say, Reading

-----------------------------------------------------------------------------
(* The steps of both programs.                                             *)

LEMMA SessionStep ==
    ASSUME Reading, Session, SessionNext
    PROVE  Reading' /\ Session'
  <1>1. CASE Prepare
    <2>1. Starts \/ HostMoves
      BY <1>1 DEF Prepare, Starts, HostMoves, HostKeeps, readerVars, Proceed, Reading
    <2>2. Reading'
      BY <2>1, ReadingStep
    <2>3. ASSUME Spawn("boot"), UNCHANGED <<guestVars, verdictVars>>, host = "prepare" PROVE Session'
      <3>1. vp' # "none" /\ host' = "boot" /\ console' = <<>> /\ UNCHANGED <<guestVars, manifest>>
            /\ guest = "off" /\ exits = <<>> /\ output = "none" /\ manifest = NoManifest
        BY <2>3 DEF Spawn, verdictVars, Session, Reading
      <3>2. Progress' /\ Traces'
        BY <3>1 DEF Progress, Traces, Says, Shows, guestVars, scriptVars
      <3> QED
        BY <3>1, <3>2 DEF Session, SessionTypes, guestVars, scriptVars, SessionPassIsEarned, NoManifest
    <2>4. ASSUME NEW result \in {"pass", "fail", "blocked"}, result # "pass", Ends(result, "none"), Proceed("done"), HostKeeps, host = "prepare"
          PROVE  Session'
      <3>1. vp' = "none" /\ host' = "done" /\ UNCHANGED guestVars /\ SessionTypes
        BY <2>4 DEF Proceed, HostKeeps, outputVars, Reading, Session
      <3>2. manifest' = [status |-> result, diagnosis |-> "none"]
        BY <2>4 DEF Ends
      <3> QED
        BY <2>4, <3>1, <3>2 DEF Session, SessionTypes, guestVars, scriptVars, SessionPassIsEarned
    <2> QED
      BY <1>1, <2>2, <2>3, <2>4 DEF Prepare, Builds
  <1>2. CASE Reference
    <2>1. /\ host = "prepare" /\ vp = "none" /\ UNCHANGED <<outputVars, readerVars, taken, typed, signal>>
          /\ UNCHANGED <<mode, rootfs, guest, module, dri, server, client, compare, status, writable, statusFile, output>>
          /\ \/ host' = "raised" /\ UNCHANGED <<exits, manifest>>
             \/ /\ host' = "done" /\ manifest'.diagnosis = "reference" /\ exits' \in Seq(Int)
                /\ manifest'.status = "pass" => exits'[1] # 1 /\ exits'[2] = 0
                /\ manifest'.status \in {"pass", "fail"}
      <3>1. host = "prepare" /\ vp = "none" /\ UNCHANGED <<outputVars, readerVars, taken, typed, signal>>
            /\ UNCHANGED <<mode, rootfs, guest, module, dri, server, client, compare, status, writable, statusFile, output>>
        BY <1>2 DEF Reference, Proceed, Reading
      <3>2. PICK boot \in [banner : BOOLEAN, login : BOOLEAN, bad : BOOLEAN, code : {0, 1, 124}],
                 compiler \in [code : {0, 1}, usage : BOOLEAN] :
              \/ /\ Ends(IF ReferenceBoots(boot) /\ CompilerSmoke(compiler) THEN "pass" ELSE "fail", "reference")
                 /\ exits' = <<boot.code, compiler.code>>
                 /\ Proceed("done")
              \/ Proceed("raised") /\ UNCHANGED <<exits, manifest>>
        BY <1>2 DEF Reference
      <3>3. CASE Proceed("raised") /\ UNCHANGED <<exits, manifest>>
        BY <3>1, <3>3 DEF Proceed
      <3>4. CASE /\ Ends(IF ReferenceBoots(boot) /\ CompilerSmoke(compiler) THEN "pass" ELSE "fail", "reference")
                 /\ exits' = <<boot.code, compiler.code>>
                 /\ Proceed("done")
        <4>1. boot.code \in {0, 1, 124} /\ compiler.code \in {0, 1}
          OBVIOUS
        <4>2. exits' \in Seq(Int) /\ exits'[1] = boot.code /\ exits'[2] = compiler.code
          BY <3>4, <4>1
        <4>3. /\ host' = "done" /\ manifest'.diagnosis = "reference"
              /\ manifest'.status = IF ReferenceBoots(boot) /\ CompilerSmoke(compiler) THEN "pass" ELSE "fail"
          BY <3>4 DEF Ends, Proceed
        <4>4. ReferenceBoots(boot) /\ CompilerSmoke(compiler) => boot.code # 1 /\ compiler.code = 0
          BY DEF ReferenceBoots, CompilerSmoke
        <4> QED
          BY <3>1, <4>2, <4>3, <4>4
      <3> QED
        BY <3>2, <3>3, <3>4
    <2>2. HostMoves
      BY <2>1 DEF HostMoves, readerVars, Reading
    <2>3. Reading'
      BY <2>2, ReadingStep
    <2>4. vp' = "none" /\ SessionTypes'
      BY <2>1 DEF Session, SessionTypes, outputVars
    <2>5. SessionPassIsEarned'
      BY <2>1 DEF Session, SessionPassIsEarned, NoManifest
    <2> QED
      BY <2>1, <2>3, <2>4, <2>5 DEF Session
  <1>3. CASE ModernHost
    <2>1. /\ HostMoves /\ host \notin {"prepare", "done"} /\ host' # "prepare" /\ UNCHANGED guestVars
          /\ (host = "judge" /\ Judge) \/ (host' # "done" /\ UNCHANGED manifest)
      BY <1>3, ModernMoves
    <2>2. Reading'
      BY <2>1, ReadingStep
    <2>3. SessionPassIsEarned'
      <3>1. CASE Judge
        BY <3>1, JudgementIsEarned
      <3>2. CASE UNCHANGED manifest
        BY <2>1, <3>2 DEF Session, SessionPassIsEarned, NoManifest
      <3> QED
        BY <2>1, <3>1, <3>2
    <2>4. vp' = vp /\ console' = console
      BY <2>1 DEF HostMoves, outputVars
    <2>5. SessionTypes' /\ (vp' # "none" => Progress' /\ Traces')
      BY <2>1, <2>4 DEF Session, SessionTypes, Progress, Traces, AllRunsMade, PollsLastRun, guestVars, scriptVars
    <2>6. host' # "done" => manifest' = NoManifest
      BY <2>1 DEF Session, Judge, Proceed
    <2> QED
      BY <2>1, <2>2, <2>3, <2>5, <2>6 DEF Session
  <1>4. CASE Guest
    BY <1>4, GuestStep, ReadingStep
  <1>5. CASE Trouble(guest) /\ UNCHANGED <<guestVars, verdictVars>>
    <2>1. /\ GuestMoves /\ vp' = vp /\ host' = host /\ UNCHANGED <<manifest, mode, rootfs, scriptVars, guest, output>>
          /\ \A token : token # Token("bad") => (Says(console', token) <=> Says(console, token))
          /\ Shows(console', "sdp") <=> Shows(console, "sdp")
      <3>1. typed' = typed
        BY <1>5 DEF Trouble, hostVars
      <3>2. vp' = vp /\ host' = host /\ UNCHANGED <<manifest, mode, rootfs, scriptVars, guest, output>>
        BY <1>5 DEF Trouble, hostVars, guestVars, verdictVars
      <3> QED
        BY <1>5, <3>1, <3>2, TroubleStep
    <2>2. Reading' /\ manifest = NoManifest /\ host # "prepare" /\ vp # "none"
      BY <2>1, ReadingStep DEF GuestMoves, Running, Reading, Silenced, Session
    <2>3. Progress'
      <3>1. Says(console', ExitIsGood) <=> Says(console, ExitIsGood)
        BY <2>1 DEF ExitIsGood, Token, Status
      <3> QED
        BY <2>1, <2>2, <3>1 DEF Session, Progress, AllRunsMade, PollsLastRun, scriptVars
    <2>4. Traces'
      <3>1. \A token \in StuckTokens : token # Token("bad")
        <4>1. Token("bad").kind = "bad"
          BY DEF Token
        <4> QED
          BY <4>1 DEF StuckTokens
      <3> QED
        BY <2>1, <2>2, <3>1 DEF Session, Traces, scriptVars
    <2> QED
      BY <2>1, <2>2, <2>3, <2>4 DEF Session, SessionTypes, SessionPassIsEarned, NoManifest, scriptVars
  <1>6. CASE (Deliver \/ EndOfFile \/ Die) /\ UNCHANGED <<guestVars, verdictVars>>
    <2>1. Reading'
      BY <1>6, ReadingStep
    <2>2. /\ UNCHANGED <<host, console, manifest, mode, rootfs, scriptVars, guest, output>>
          /\ vp' = vp \/ (vp = "running" /\ Die)
      BY <1>6 DEF Deliver, EndOfFile, Die, outputVars, hostVars, verdictVars, guestVars
    <2>3. SessionTypes' /\ SessionPassIsEarned' /\ (host' # "done" => manifest' = NoManifest)
      <3>1. SessionTypes' /\ (host' # "done" => manifest' = NoManifest)
        BY <2>2 DEF Session, SessionTypes, scriptVars
      <3>2. CASE host # "done"
        BY <2>2, <3>1, <3>2 DEF Session, SessionPassIsEarned, NoManifest
      <3>3. CASE host = "done"
        <4>1. reader' = reader /\ taken' = taken
          BY <1>6, <3>3 DEF Deliver, EndOfFile, Die, hostVars, readerVars, Reading
        <4> QED
          BY <2>2, <3>1, <4>1 DEF Session, SessionPassIsEarned, NoTroubleSeen, scriptVars
      <3> QED
        BY <3>1, <3>2, <3>3
    <2>4. ASSUME vp' # "none" PROVE Progress' /\ Traces'
      <3>1. SessionTypes /\ Progress /\ Traces
        BY <2>2, <2>4 DEF Session
      <3>2. CASE Die
        BY <1>6, <3>1, <3>2, PlatformEnds
      <3>3. CASE vp' = vp
        BY <2>2, <3>1, <3>3 DEF Progress, Traces, AllRunsMade, PollsLastRun, scriptVars
      <3> QED
        BY <2>2, <3>2, <3>3
    <2>5. host' = "prepare" => guest' = "off" /\ exits' = <<>> /\ output' = "none"
      BY <2>2 DEF Session, scriptVars
    <2> QED
      BY <2>1, <2>3, <2>4, <2>5 DEF Session
  <1> QED
    BY <1>1, <1>2, <1>3, <1>4, <1>5, <1>6 DEF SessionNext

LEMMA ControlStep ==
    ASSUME Reading, Control, StockNext
    PROVE  Reading' /\ Control'
  <1>1. CASE StockPrepare
    <2>1. /\ host = "prepare" /\ host' \in {"boot", "raised"} /\ UNCHANGED <<console, stockVars>>
          /\ Starts \/ HostMoves
      BY <1>1 DEF StockPrepare, Starts, Spawn, Proceed, HostMoves, outputVars, readerVars, Reading
    <2>2. Control'
      BY <2>1 DEF Control, BeforeClient, StockPassIsEarned, stockVars
    <2> QED
      BY <2>1, <2>2, ReadingStep
  <1>2. CASE StockHost
    <2>1. HostMoves /\ host \notin {"prepare", "done"} /\ host' # "prepare"
      BY <1>2, StockMoves
    <2>2. Reading' /\ console' = console /\ outcome.classification = "none"
      BY <2>1, ReadingStep DEF HostMoves, outputVars, Control
    <2>3. ASSUME UNCHANGED <<stockOutput, clientStatus, served, outcome>>, host' # "done",
                 clientStatus = 0 => shell', host' \in BeforeClient => clientStatus = 125, host' \in {"await-sshd", "client"} => shell'
          PROVE  Control'
      BY <2>2, <2>3 DEF Control, StockPassIsEarned
    <2>4. CASE StockAwaits
      <3>1. ASSUME NEW hits, NEW pc, NEW next, Step(pc), Drain(hits, next) PROVE host = pc /\ host' = next
        BY <3>1 DEF Step, Drain
      <3>2. /\ \/ host = "boot" /\ host' = "user"
               \/ host = "await-shell" /\ host' = "password"
               \/ host = "await-password" /\ host' = "setup"
               \/ host = "await-sshd" /\ host' = "client"
               \/ host = "await-final" /\ host' = "stop"
            /\ UNCHANGED controlVars
        BY <2>4, <3>1 DEF StockAwaits
      <3> QED
        BY <2>2, <2>3, <3>2 DEF Control, BeforeClient, controlVars
    <2>5. CASE StockSendRoot
      <3>1. host = "user" /\ host' \in {"await-shell", "stop", "raised"} /\ shell' = shell /\ UNCHANGED <<stockOutput, clientStatus, served, outcome>>
        BY <2>5 DEF StockSendRoot, Step, JudgesNothing, Send, Proceed
      <3> QED
        BY <2>2, <2>3, <3>1 DEF Control, BeforeClient
    <2>6. CASE StockSendPassword
      <3>1. host = "password" /\ host' \in {"await-password", "setup", "raised"} /\ UNCHANGED controlVars
        BY <2>6 DEF StockSendPassword, Step, Send, Proceed
      <3> QED
        BY <2>2, <2>3, <3>1 DEF Control, BeforeClient, controlVars
    <2>7. CASE StockSendSetup
      <3>1. /\ host = "setup" /\ UNCHANGED <<stockOutput, clientStatus, served, outcome>>
            /\ (host' = "await-sshd" /\ shell') \/ host' \in {"stop", "raised"}
        BY <2>7 DEF StockSendSetup, Step, JudgesNothing, Send, Proceed
      <3> QED
        BY <2>2, <2>3, <3>1 DEF Control, BeforeClient
    <2>8. CASE StockClient
      <3>1. /\ host = "client" /\ host' = "final" /\ shell' = shell /\ outcome' = outcome
            /\ clientStatus' = 0 => served'
        BY <2>8 DEF StockClient, Step, Proceed
      <3> QED
        BY <2>2, <3>1 DEF Control, BeforeClient, StockPassIsEarned
    <2>9. CASE StockSendFinal
      <3>1. host = "final" /\ host' \in {"await-final", "raised"} /\ UNCHANGED controlVars
        BY <2>9 DEF StockSendFinal, Step, Send, Proceed
      <3> QED
        BY <2>2, <2>3, <3>1 DEF Control, BeforeClient, controlVars
    <2>10. CASE HostTail /\ UNCHANGED stockVars
      <3>1. host' \in {"join", "wait", "collect", "judge"} /\ UNCHANGED stockVars
        BY <2>10, TailMoves
      <3> QED
        BY <2>2, <2>3, <3>1 DEF Control, BeforeClient, stockVars
    <2>11. CASE StockJudge
      <3>1. host' = "done" /\ UNCHANGED <<stockOutput, clientStatus, shell, served, console, reader, taken>>
        BY <2>11 DEF StockJudge, Step, ControlKeeps, Proceed, outputVars, readerVars
      <3>2. outcome' = [status |-> IF StockPasses(serial) THEN "pass" ELSE "fail",
                        classification |-> IF StockPasses(serial) THEN "pass"
                                           ELSE IF ZeroOutput(serial) THEN "runtime_pass_zero_output_golden_mismatch"
                                           ELSE "none"]
        BY <2>11 DEF StockJudge
      <3>3. StockPasses(serial) => clientStatus = 0 /\ stockOutput = "golden" /\ ~Shows(serial, "bad")
        BY DEF StockPasses
      <3>4. ZeroOutput(serial) => clientStatus = 0 /\ stockOutput = "zero" /\ ~Shows(serial, "bad")
        BY DEF ZeroOutput
      <3>6. ~Shows(serial, "bad") => NoTroubleSeen'
        <4>1. ~Shows(serial, "bad") => NoTroubleSeen
          BY <2>11, JudgedIsRead DEF StockJudge, Step
        <4> QED
          BY <3>1, <4>1 DEF NoTroubleSeen
      <3>5. StockPassIsEarned'
        BY <2>2, <3>1, <3>2, <3>3, <3>4, <3>6 DEF Control, StockPassIsEarned
      <3> QED
        BY <2>2, <3>1, <3>5 DEF Control, BeforeClient
    <2> QED
      BY <1>2, <2>2, <2>4, <2>5, <2>6, <2>7, <2>8, <2>9, <2>10, <2>11 DEF StockHost
  <1>3. CASE StockGuest
    <2>1. GuestMoves /\ UNCHANGED controlVars
      BY <1>3, StockGuestMoves
    <2>2. Reading' /\ host' = host /\ host # "done"
      BY <2>1, ReadingStep DEF GuestMoves, Running, Silenced, Reading
    <2> QED
      BY <2>1, <2>2 DEF Control, StockPassIsEarned, controlVars
  <1>4. CASE (Deliver \/ EndOfFile \/ Die) /\ UNCHANGED stockVars
    <2>1. Reading'
      BY <1>4, ReadingStep
    <2>2. UNCHANGED <<host, console, stockVars>>
      BY <1>4 DEF Deliver, EndOfFile, Die, outputVars, hostVars
    <2>3. CASE host # "done"
      BY <2>1, <2>2, <2>3 DEF Control, StockPassIsEarned, stockVars
    <2>4. CASE host = "done"
      <3>1. reader' = reader /\ taken' = taken
        BY <1>4, <2>4 DEF Deliver, EndOfFile, Die, hostVars, readerVars, Reading
      <3> QED
        BY <2>1, <2>2, <3>1 DEF Control, StockPassIsEarned, NoTroubleSeen, stockVars
    <2> QED
      BY <2>3, <2>4
  <1>5. CASE Trouble(stockGuest) /\ UNCHANGED stockVars
    <2>1. GuestMoves /\ host' = host /\ UNCHANGED stockVars
      <3>1. typed' = typed /\ host' = host
        BY <1>5 DEF Trouble, hostVars
      <3> QED
        BY <1>5, <3>1, TroubleStep
    <2>2. Reading' /\ host # "done"
      BY <2>1, ReadingStep DEF GuestMoves, Running, Reading, Silenced
    <2> QED
      BY <2>1, <2>2 DEF Control, StockPassIsEarned, stockVars
  <1> QED
    BY <1>1, <1>2, <1>3, <1>4, <1>5 DEF StockNext

-----------------------------------------------------------------------------

LEMMA InvStart == Init => Inv
  <1> SUFFICES ASSUME Init PROVE Inv
    OBVIOUS
  <1>1. Reading
    <2>1. ConsoleInit /\ host = "prepare"
      BY DEF Init, SessionInit, StockInit
    <2>2. <<>> \in Seq(Tokens) /\ <<>> \in Seq(Lines)
      BY ShortTexts
    <2> QED
      BY <2>1, <2>2 DEF ConsoleInit, Reading
  <1>2. CASE lane = "modern" /\ SessionInit /\ StockIdle
    <2>1. SessionTypes
      BY <1>2 DEF SessionInit, SessionTypes, Guests
    <2> QED
      BY <1>1, <1>2, <2>1 DEF SessionInit, ConsoleInit, StockIdle, Session, SessionPassIsEarned, NoManifest, Inv
  <1>3. CASE lane = "stock" /\ StockInit /\ SessionIdle
    BY <1>1, <1>3 DEF StockInit, StockIdle, SessionIdle, Control, StockPassIsEarned, Inv
  <1> QED
    BY <1>2, <1>3 DEF Init

LEMMA InvStep == Inv /\ [Next]_vpVars => Inv'
  <1> SUFFICES ASSUME Inv, [Next]_vpVars PROVE Inv'
    OBVIOUS
  <1>1. CASE lane = "modern" /\ SessionNext /\ UNCHANGED <<lane, stockVars>>
    <2>1. Reading' /\ Session'
      BY <1>1, SessionStep DEF Inv
    <2> QED
      BY <1>1, <2>1 DEF Inv, stockVars
  <1>2. CASE lane = "stock" /\ StockNext /\ UNCHANGED <<lane, guestVars, verdictVars>>
    <2>1. Reading' /\ Control'
      BY <1>2, ControlStep DEF Inv
    <2> QED
      BY <1>2, <2>1 DEF Inv, verdictVars
  <1>3. CASE UNCHANGED vpVars
    <2>1. Reading'
      BY <1>3, ReadingStep DEF Inv, vpVars, sessionVars
    <2>2. Session => Session'
      BY <1>3 DEF Session, SessionTypes, Progress, Traces, AllRunsMade, PollsLastRun, SessionPassIsEarned, NoTroubleSeen,
                  vpVars, sessionVars, consoleVars, outputVars, readerVars, hostVars, guestVars, scriptVars, verdictVars
    <2>3. Control => Control'
      BY <1>3 DEF Control, StockPassIsEarned, NoTroubleSeen, vpVars, sessionVars, consoleVars, outputVars, readerVars, hostVars, stockVars
    <2> QED
      BY <1>3, <2>1, <2>2, <2>3 DEF Inv, vpVars, sessionVars, verdictVars, stockVars
  <1> QED
    BY <1>1, <1>2, <1>3 DEF Next

\* What the host may conclude from the place where it is, in every state.
THEOREM VpInvariant == Spec => []Inv
  BY InvStart, InvStep, PTL DEF Spec

\* vp.py 813-841 and stock.py 385-402: nothing is judged before the platform
\* has ended or was killed, and what is judged then is all that it has ever
\* written, for a console of any length and although each wait of the host gives
\* up at its deadline, unless the host has given the reader itself up.
THEOREM JudgedLogIsWhole == Spec => []LogIsWhole
  <1>1. Inv => LogIsWhole
    BY DEF Inv, Reading, LogIsWhole, WholeLog
  <1> QED
    BY <1>1, VpInvariant, PTL

\* _run_modern_vp 1152-1178, stock.py 437-462: for any number of runs, and
\* wherever a reader that was given up has stopped, a pass is the verdict on a
\* guest that made all of them and ended well, and a failure is excused only
\* where the last run has failed and no kernel trouble was printed.
THEOREM EveryPassIsEarned == Spec => []PassIsEarned
  <1>1. Inv => PassIsEarned
    BY DEF Inv, Session, Control, PassIsEarned, SessionPassIsEarned, StockPassIsEarned, NoManifest
  <1> QED
    BY <1>1, VpInvariant, PTL
=============================================================================
