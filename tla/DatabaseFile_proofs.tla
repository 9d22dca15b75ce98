--------------------------- MODULE DatabaseFile_proofs ---------------------------
(***************************************************************************)
(* Proofs about DatabaseFile for every number of servers, pages, commits   *)
(* and kills.                                                              *)
(***************************************************************************)
EXTENDS DatabaseFile, TLAPS

PageMap == [Pages -> Page \cup {Hole}]
WalMap == [Pages -> Page \cup {None, Hole}]
Reads(m, w) == [n \in Pages |-> IF w[n] # None THEN w[n] ELSE m[n]]

\* As long as no server is started while another one is up, the PID file names the one
\* that may take requests.
Listening ==
    ~second => /\ \A s, t \in Servers : server[s] # "down" /\ server[t] # "down" => s = t
               /\ \A s \in Servers : server[s] \in {"pid", "serving", "stopping"} => pidfile = s

\* Once the last connection was closed, the main file is all there is.
Recovered == open = {} /\ ~left => wal = NoWal

\* A restore that has looked: no server takes requests, unless one began to since.
Checked ==
    MaySignal /\ ~second /\ op.pc = "checked" /\ op.calm => \A s \in Servers : server[s] # "serving"

\* A backup in progress: what connections read is one of the states since the
\* checkpoint, and so is the main file until somebody moves pages to it; the pages
\* copied are those of the main file.
BackingUp ==
    /\ op.pc \in {"idle", "checkpoint", "close", "checked"} => op.page = 1
    /\ op.pc = "checkpoint" => ~op.calm
    /\ op.pc \in {"close", "copy"} => View \in op.since /\ (op.calm => main \in op.since)
    /\ op.pc = "copy" => copy \in PageMap /\ (op.calm => \A n \in 1..(op.page - 1) : copy[n] = main[n])

\* A restore in progress with nobody connected: the main file alone is read, and has
\* the pages of the backup that were copied.
Restoring ==
    /\ op.pc \in {"checked", "replace"} => copy \in PageMap
    /\ op.pc = "replace" /\ op.calm =>
          /\ open = {} /\ wal = NoWal
          /\ \A n \in 1..(op.page - 1) : main[n] = copy[n]

FileInv == TypeOK /\ Listening /\ Checked /\ Recovered /\ BackingUp /\ Restoring

-------------------------------------------------------------------------------
\* View is what the two files give, and with no -wal file it is the main file.
LEMMA ViewFacts ==
    /\ View = Reads(main, wal)
    /\ \A m \in PageMap, w \in WalMap : Reads(m, w) \in PageMap
    /\ \A m \in PageMap : Reads(m, NoWal) = m
    /\ NoWal \in WalMap
BY DEF View, Reads, PageMap, WalMap, NoWal

\* Nothing has happened at first.
LEMMA InitFile == Init => FileInv
<1> SUFFICES ASSUME Init PROVE FileInv
  OBVIOUS
<1> USE FileAssumption
<1>1. TypeOK
  <2>1. main \in [Pages -> Page \cup {Hole}] /\ wal \in [Pages -> Page \cup {None, Hole}] /\ stamp \in Page
    BY DEF Init, Page, NoWal
  <2>2. op \in [pc : {"idle", "checkpoint", "close", "copy", "checked", "replace"}, page : Pages,
                calm : BOOLEAN, since : SUBSET [Pages -> Page \cup {Hole}]]
    BY DEF Init, Idle, Pages
  <2>3. server \in [Servers -> {"down", "up", "pid", "serving", "stopping", "nopid"}]
    BY DEF Init
  <2>4. left \in BOOLEAN /\ second \in BOOLEAN
    BY DEF Init
  <2>5. QED
    BY <2>1, <2>2, <2>3, <2>4 DEF Init, TypeOK
<1>2. Listening /\ Checked /\ Recovered
  BY DEF Init, Idle, Listening, Checked, Recovered
<1>3. BackingUp /\ Restoring
  BY DEF Init, Idle, BackingUp, Restoring
<1>4. QED
  BY <1>1, <1>2, <1>3 DEF FileInv

\* Which server is up, and what the PID file says of it.
LEMMA StepListening ==
    ASSUME TypeOK, Listening, Next
    PROVE  Listening'
<1> USE FileAssumption DEF TypeOK, Listening, Become
<1>1. ASSUME UNCHANGED <<server, pidfile, second>> PROVE Listening'
  BY <1>1
<1>2. ASSUME NEW s \in Servers, StartServer(s) PROVE Listening'
  BY <1>2 DEF StartServer
<1>3. ASSUME NEW s \in Servers, WritePid(s) \/ Bind(s) \/ StopServer(s) \/ RemovePid(s) PROVE Listening'
  BY <1>3 DEF WritePid, Bind, StopServer, RemovePid
<1>4. ASSUME NEW s \in Servers, CloseServer(s) PROVE Listening'
  BY <1>4 DEF CloseServer
<1>5. ASSUME NEW s \in Servers, KillServer(s) PROVE Listening'
  <2>1. /\ second' = second /\ server[s] # "down" /\ server' = [server EXCEPT ![s] = "down"]
        /\ pidfile' = IF pidfile = s THEN Dead ELSE pidfile
    BY <1>5 DEF KillServer
  <2>2. QED
    BY <2>1
<1>6. QED
  BY <1>1, <1>2, <1>3, <1>4, <1>5
     DEF Next, Commit, CheckpointPage, OpenCli, CloseCli, KillCli, Backup, Checkpoint, CheckpointBusy,
         BackupClose, BackupCopy, Restore, RestoreOpen, RestoreCopy, KillOp

\* Between the check of a restore and its first write, a server that begins to take
\* requests is noted.
LEMMA StepChecked ==
    ASSUME TypeOK, Listening, Checked, Next
    PROVE  Checked'
<1> USE FileAssumption DEF TypeOK, Checked, Become
<1>1. ASSUME UNCHANGED <<server, second>>, op' = op PROVE Checked'
  BY <1>1
<1>2. ASSUME UNCHANGED <<server, second>>, op'.pc # "checked" PROVE Checked'
  BY <1>2
<1>3. ASSUME UNCHANGED <<server, second>>, op'.pc = op.pc, op'.calm => op.calm PROVE Checked'
  BY <1>3
<1>4. ASSUME NEW s \in Servers, StartServer(s) PROVE Checked'
  <2>1. op'.pc = op.pc /\ (op'.calm => op.calm)
    BY <1>4 DEF StartServer, Connects
  <2>2. QED
    BY <1>4, <2>1 DEF StartServer
<1>5. ASSUME NEW s \in Servers, Bind(s) PROVE Checked'
  <2>1. CASE op' = [op EXCEPT !.calm = @ /\ op.pc # "checked"]
    BY <2>1
  <2>2. CASE Become(s, "pid", "stopping") /\ UNCHANGED op
    BY <1>5, <2>2 DEF Bind
  <2>3. QED
    BY <1>5, <2>1, <2>2 DEF Bind, Serves
<1>6. ASSUME NEW s \in Servers, WritePid(s) \/ StopServer(s) \/ RemovePid(s) \/ KillServer(s)
      PROVE  Checked'
  BY <1>6 DEF WritePid, StopServer, RemovePid, KillServer
<1>7. ASSUME NEW s \in Servers, CloseServer(s) PROVE Checked'
  <2>1. op'.pc = op.pc /\ (op'.calm => op.calm)
    BY <1>7 DEF CloseServer, MovesPages
  <2>2. QED
    BY <1>7, <2>1 DEF CloseServer
<1>8. ASSUME NEW c, NEW ns, Commit(c, ns) PROVE Checked'
  <2>1. op'.pc = op.pc /\ op'.calm = op.calm
    BY <1>8 DEF Commit
  <2>2. QED
    BY <1>3, <1>8, <2>1 DEF Commit
<1>9. ASSUME NEW n, CheckpointPage(n) PROVE Checked'
  <2>1. op'.pc = op.pc /\ (op'.calm => op.calm)
    BY <1>9 DEF CheckpointPage, MovesPages
  <2>2. QED
    BY <1>3, <1>9, <2>1 DEF CheckpointPage
<1>10. ASSUME OpenCli \/ CloseCli PROVE Checked'
  <2>1. op'.pc = op.pc /\ (op'.calm => op.calm)
    BY <1>10 DEF OpenCli, CloseCli, Connects, MovesPages
  <2>2. QED
    BY <1>3, <1>10, <2>1 DEF OpenCli, CloseCli
<1>11. ASSUME KillCli \/ KillOp PROVE Checked'
  <2>1. UNCHANGED <<server, second>> /\ (op' = op \/ op' = Idle)
    BY <1>11 DEF KillCli, KillOp
  <2>2. Idle.pc # "checked"
    BY DEF Idle
  <2>3. QED
    BY <1>1, <1>2, <2>1, <2>2
<1>12. ASSUME Backup \/ Checkpoint \/ CheckpointBusy \/ BackupClose \/ RestoreOpen PROVE Checked'
  <2>1. op'.pc # "checked"
    <3>0. CASE CheckpointBusy
      <4>1. op' = [op EXCEPT !.pc = "close", !.since = {View}]
        BY <3>0 DEF CheckpointBusy
      <4>2. QED
        BY <4>1
    <3>1. CASE Backup \/ BackupClose
      <4>1. \E pc \in {"checkpoint", "copy"} : op' = [op EXCEPT !.pc = pc]
        BY <3>1 DEF Backup, BackupClose
      <4>2. QED
        BY <4>1
    <3>2. CASE Checkpoint
      <4>1. op' = [op EXCEPT !.pc = "close", !.calm = TRUE, !.since = {View}]
        BY <3>2 DEF Checkpoint
      <4>2. QED
        BY <4>1
    <3>3. CASE RestoreOpen
      <4> DEFINE calm == open = {} /\ ~left
      <4>1. op' = [op EXCEPT !.pc = "replace", !.calm = calm]
        BY <3>3 DEF RestoreOpen
      <4> HIDE DEF calm
      <4>2. QED
        BY <4>1
    <3>4. QED
      BY <1>12, <3>0, <3>1, <3>2, <3>3
  <2>2. QED
    BY <1>2, <1>12, <2>1 DEF Backup, Checkpoint, CheckpointBusy, BackupClose, RestoreOpen
<1>13. ASSUME BackupCopy \/ RestoreCopy PROVE Checked'
  <2>1. op'.pc # "checked"
    BY <1>13 DEF BackupCopy, RestoreCopy, NextPage, Idle
  <2>2. QED
    BY <1>2, <1>13, <2>1 DEF BackupCopy, RestoreCopy
<1>14. ASSUME Restore PROVE Checked'
  BY <1>14 DEF Restore, ServerRunning, Listening
<1>15. QED
  BY <1>4, <1>5, <1>6, <1>7, <1>8, <1>9, <1>10, <1>11, <1>12, <1>13, <1>14 DEF Next

-------------------------------------------------------------------------------
\* The part of the state that is about files.
FilePart == TypeOK /\ Recovered /\ BackingUp /\ Restoring

\* The server's variables keep their types.
LEMMA ServerTypes ==
    ASSUME TypeOK, Next
    PROVE  /\ server' \in [Servers -> {"down", "up", "pid", "serving", "stopping", "nopid"}]
           /\ pidfile' \in Servers \cup {None, Dead}
           /\ second' \in BOOLEAN
<1> USE DEF TypeOK, Become
<1>1. ASSUME UNCHANGED <<server, pidfile, second>>
      PROVE  /\ server' \in [Servers -> {"down", "up", "pid", "serving", "stopping", "nopid"}]
             /\ pidfile' \in Servers \cup {None, Dead}
             /\ second' \in BOOLEAN
  BY <1>1
<1>2. ASSUME NEW s \in Servers,
             \/ StartServer(s) \/ WritePid(s) \/ Bind(s) \/ StopServer(s) \/ RemovePid(s)
             \/ CloseServer(s) \/ KillServer(s)
      PROVE  /\ server' \in [Servers -> {"down", "up", "pid", "serving", "stopping", "nopid"}]
             /\ pidfile' \in Servers \cup {None, Dead}
             /\ second' \in BOOLEAN
  BY <1>2 DEF StartServer, WritePid, Bind, StopServer, RemovePid, CloseServer, KillServer
<1>3. QED
  BY <1>1, <1>2
     DEF Next, Commit, CheckpointPage, OpenCli, CloseCli, KillCli, Backup, Checkpoint, CheckpointBusy,
         BackupClose, BackupCopy, Restore, RestoreOpen, RestoreCopy, KillOp

\* A commit adds a state to those that a backup may be.
LEMMA CommitStep ==
    ASSUME FilePart, NEW c, NEW ns \in SUBSET Pages, Commit(c, ns), Next
    PROVE  FilePart'
<1>1. PICK base \in {wal} \cup {w \in {NoWal} : main = View} :
          wal' = [n \in Pages |-> IF n \in ns THEN stamp + 1 ELSE base[n]]
  BY DEF Commit
<1>2. base \in WalMap /\ stamp + 1 \in Page /\ stamp' = stamp + 1
  BY <1>1, ViewFacts, FileAssumption DEF Commit, FilePart, TypeOK, WalMap, Page
<1>3. wal' \in WalMap /\ main' = main /\ main \in PageMap /\ open' = open /\ open # {}
  BY <1>1, <1>2 DEF Commit, MayCommit, FilePart, TypeOK, WalMap, PageMap
<1>4. View' = Reads(main', wal') /\ View' \in PageMap
  BY <1>3, ViewFacts DEF View, Reads
<1> DEFINE since == IF op.since = {} THEN {} ELSE op.since \cup {View'}
<1>5. since \in SUBSET PageMap /\ op.since \subseteq since /\ (op.since # {} => View' \in since)
  BY <1>4 DEF FilePart, TypeOK, PageMap
<1>6. op' = [op EXCEPT !.since = since]
  BY DEF Commit
<1> HIDE DEF since
<1>7. /\ op' \in [pc : {"idle", "checkpoint", "close", "copy", "checked", "replace"}, page : Pages,
                  calm : BOOLEAN, since : SUBSET [Pages -> Page \cup {Hole}]]
      /\ op'.pc = op.pc /\ op'.page = op.page /\ op'.calm = op.calm /\ op'.since = since
  BY <1>5, <1>6 DEF FilePart, TypeOK, PageMap
<1>8. TypeOK'
  BY <1>2, <1>3, <1>7, ServerTypes DEF Commit, FilePart, TypeOK, WalMap
<1>9. Recovered'
  BY <1>3 DEF Recovered
<1>10. BackingUp'
  BY <1>3, <1>5, <1>7 DEF Commit, FilePart, BackingUp
<1>11. Restoring'
  BY <1>3, <1>7 DEF Commit, FilePart, Restoring
<1>12. QED
  BY <1>8, <1>9, <1>10, <1>11 DEF FilePart

\* Somebody moves pages to the main file: a backup or restore in progress notes it.
\* What connections read stays the same.
LEMMA MovingStep ==
    ASSUME FilePart, Next, main' \in PageMap, wal' \in WalMap, View' = View, MovesPages,
           open' \subseteq Servers \cup {Cli, Op}, Recovered', left' \in BOOLEAN, open # {},
           UNCHANGED <<stamp, copy, kills>>
    PROVE  FilePart'
<1>1. /\ op' \in [pc : {"idle", "checkpoint", "close", "copy", "checked", "replace"}, page : Pages,
                  calm : BOOLEAN, since : SUBSET [Pages -> Page \cup {Hole}]]
      /\ op'.pc = op.pc /\ op'.page = op.page /\ op'.since = op.since
      /\ op'.calm => op.calm /\ op.pc \notin {"close", "copy"}
  BY DEF MovesPages, FilePart, TypeOK
<1>2. TypeOK'
  BY <1>1, ServerTypes DEF FilePart, TypeOK, PageMap, WalMap
<1>3. BackingUp' /\ Restoring'
  BY <1>1 DEF FilePart, BackingUp, Restoring
<1>4. QED
  BY <1>2, <1>3 DEF FilePart

\* Connections come and go, except the last one to be closed, and servers take requests.
LEMMA ConnectionStep ==
    ASSUME FilePart, Next, UNCHANGED <<main, wal, stamp, copy>>, kills' \in 0..MaxKills, left' \in BOOLEAN,
           open' \subseteq Servers \cup {Cli, Op}, Recovered',
           \/ op' = op /\ open' \subseteq open
           \/ Connects
           \/ Serves /\ open' \subseteq open
           \/ op' = Idle
    PROVE  FilePart'
<1>1. View' = View
  BY DEF View
<1> DEFINE OpType == [pc : {"idle", "checkpoint", "close", "copy", "checked", "replace"}, page : Pages,
                      calm : BOOLEAN, since : SUBSET [Pages -> Page \cup {Hole}]]
<1>2. /\ op' \in OpType
      /\ \/ op'.pc = "idle" /\ op'.page = 1
         \/ /\ op'.pc = op.pc /\ op'.page = op.page /\ op'.since = op.since /\ (op'.calm => op.calm)
            /\ op'.pc = "replace" /\ op'.calm => open' \subseteq open
  <2>1. CASE op' = op /\ open' \subseteq open
    BY <2>1 DEF FilePart, TypeOK
  <2>2. CASE Connects
    <3> DEFINE calm == op.calm /\ op.pc # "replace"
    <3>1. op' = [op EXCEPT !.calm = calm] /\ op \in OpType
      BY <2>2 DEF Connects, FilePart, TypeOK
    <3>2. calm \in BOOLEAN /\ (calm => op.calm /\ op.pc # "replace")
      BY <3>1
    <3> HIDE DEF calm
    <3>3. QED
      BY <3>1, <3>2
  <2>3. CASE op' = Idle
    BY <2>3, FileAssumption DEF Idle, Pages
  <2>4. CASE Serves /\ open' \subseteq open
    <3> DEFINE calm == op.calm /\ op.pc # "checked"
    <3>1. op' = [op EXCEPT !.calm = calm] /\ op \in OpType /\ open' \subseteq open
      BY <2>4 DEF Serves, FilePart, TypeOK
    <3>2. calm \in BOOLEAN /\ (calm => op.calm)
      BY <3>1
    <3> HIDE DEF calm
    <3>3. QED
      BY <3>1, <3>2
  <2>5. QED
    BY <2>1, <2>2, <2>3, <2>4
<1>3. TypeOK'
  BY <1>2, ServerTypes DEF FilePart, TypeOK
<1>4. BackingUp'
  BY <1>1, <1>2 DEF FilePart, BackingUp
<1>5. Restoring'
  BY <1>2 DEF FilePart, Restoring
<1>6. QED
  BY <1>3, <1>4, <1>5 DEF FilePart

\* Closing a connection: the last one moves the rest of the -wal file.
LEMMA CloseStep ==
    ASSUME FilePart, Next, NEW c \in Servers \cup {Cli}, Close(c), Gone(c, FALSE),
           IF open = {c} THEN MovesPages ELSE UNCHANGED op, UNCHANGED <<copy, kills>>
    PROVE  FilePart'
<1>1. stamp' = stamp /\ open' \subseteq open /\ left' \in BOOLEAN /\ kills' \in 0..MaxKills
  BY DEF Close, Gone, FilePart, TypeOK
<1>2. main \in PageMap /\ wal \in WalMap /\ View \in PageMap
  BY ViewFacts DEF FilePart, TypeOK, PageMap, WalMap
<1>3. CASE open = {c}
  <2>1. main' = View /\ wal' = NoWal /\ MovesPages
    BY <1>3 DEF Close
  <2>2. View' = Reads(main', wal')
    BY DEF View, Reads
  <2>3. View' = View
    BY <1>2, <2>1, <2>2, ViewFacts
  <2>4. Recovered'
    BY <2>1 DEF Recovered
  <2>5. QED
    BY <1>1, <1>2, <1>3, <2>1, <2>3, <2>4, ViewFacts, MovingStep DEF FilePart, TypeOK
<1>4. CASE open # {c}
  <2>1. main' = main /\ wal' = wal /\ op' = op /\ left' = left
    BY <1>4 DEF Close, Gone
  <2>2. open' = {} => open = {}
    BY <1>4 DEF Close
  <2>3. Recovered'
    BY <2>1, <2>2 DEF FilePart, Recovered
  <2>4. QED
    BY <1>1, <2>1, <2>3, ConnectionStep DEF FilePart, TypeOK
<1>5. QED
  BY <1>3, <1>4

\* A kill: what the process had is left as it is.
LEMMA KillStep ==
    ASSUME FilePart, Next, NEW c, open' = open \ {c}, Gone(c, TRUE), kills < MaxKills, kills' = kills + 1,
           op' = op \/ op' = Idle, UNCHANGED <<main, wal, stamp, copy>>
    PROVE  FilePart'
<1>1. left' \in BOOLEAN /\ open' \subseteq open
  BY DEF Gone, FilePart, TypeOK
<1>k. kills' \in 0..MaxKills
  BY FileAssumption DEF FilePart, TypeOK
<1>2. Recovered'
  <2>1. CASE open = {c}
    BY <2>1 DEF Gone, Recovered
  <2>2. CASE open # {c}
    BY <2>2 DEF Gone, FilePart, Recovered
  <2>3. QED
    BY <2>1, <2>2
<1>3. QED
  BY <1>1, <1>2, <1>k, ConnectionStep DEF FilePart, TypeOK

\* backup: after the checkpoint the main file is what connections read.
LEMMA BackupStep ==
    ASSUME FilePart, Next, Backup \/ Checkpoint \/ CheckpointBusy \/ BackupClose \/ BackupCopy
    PROVE  FilePart'
<1> DEFINE OpType == [pc : {"idle", "checkpoint", "close", "copy", "checked", "replace"}, page : Pages,
                      calm : BOOLEAN, since : SUBSET [Pages -> Page \cup {Hole}]]
<1>f. /\ main \in PageMap /\ wal \in WalMap /\ View \in PageMap /\ NoWal \in WalMap
      /\ View' = Reads(main', wal') /\ op \in OpType
  BY ViewFacts DEF FilePart, TypeOK, PageMap, WalMap, View, Reads
<1>1. CASE Backup
  <2>1. op' \in OpType /\ op'.pc = "checkpoint" /\ op'.page = 1 /\ ~op'.calm
    BY <1>1, <1>f DEF Backup, Idle
  <2>2. UNCHANGED <<main, wal, stamp, copy, kills, left>> /\ open' = open \cup {Op}
    BY <1>1 DEF Backup, Open
  <2>3. TypeOK'
    BY <2>1, <2>2, ServerTypes DEF FilePart, TypeOK
  <2>4. BackingUp' /\ Restoring' /\ Recovered'
    BY <2>1, <2>2 DEF BackingUp, Restoring, Recovered
  <2>5. QED
    BY <2>3, <2>4 DEF FilePart
<1>2. CASE Checkpoint
  <2>1. main' = View /\ wal' = NoWal /\ View' = View
    BY <1>2, <1>f, ViewFacts DEF Checkpoint
  <2>2. /\ op' \in OpType /\ op'.pc = "close" /\ op'.page = 1 /\ op'.since = {View}
    BY <1>2, <1>f DEF Checkpoint, PageMap, FilePart, BackingUp
  <2>3. UNCHANGED <<open, stamp, copy, kills, left>>
    BY <1>2 DEF Checkpoint
  <2>4. TypeOK'
    BY <1>f, <2>1, <2>2, <2>3, ServerTypes DEF FilePart, TypeOK, PageMap, WalMap
  <2>5. BackingUp' /\ Restoring' /\ Recovered'
    BY <2>1, <2>2 DEF BackingUp, Restoring, Recovered
  <2>6. QED
    BY <2>4, <2>5 DEF FilePart
<1>3. CASE CheckpointBusy
  <2>1. UNCHANGED <<main, wal, open, stamp, copy, kills, left>> /\ View' = View
    BY <1>3, <1>f, ViewFacts DEF CheckpointBusy, files
  <2>2. /\ op' \in OpType /\ op'.pc = "close" /\ op'.page = 1 /\ op'.since = {View} /\ op'.calm = op.calm
    BY <1>3, <1>f DEF CheckpointBusy, PageMap, FilePart, BackingUp
  <2>3. ~op.calm
    BY <1>3 DEF CheckpointBusy, FilePart, BackingUp
  <2>4. TypeOK'
    BY <2>1, <2>2, ServerTypes DEF FilePart, TypeOK
  <2>5. BackingUp' /\ Restoring' /\ Recovered'
    BY <2>1, <2>2, <2>3 DEF FilePart, BackingUp, Restoring, Recovered
  <2>6. QED
    BY <2>4, <2>5 DEF FilePart
<1>4. CASE BackupClose
  <2>1. /\ op' \in OpType /\ op'.pc = "copy" /\ op'.page = 1 /\ op'.since = op.since
        /\ op'.calm = op.calm /\ op.pc = "close"
    BY <1>4, <1>f DEF BackupClose, FilePart, BackingUp
  <2>2. copy' \in PageMap /\ stamp' = stamp /\ kills' = kills /\ open' = open \ {Op} /\ left' \in BOOLEAN
    BY <1>4 DEF BackupClose, Close, Gone, PageMap, FilePart, TypeOK
  <2>3. main' \in {main, View} /\ wal' \in {wal, NoWal} /\ View' = View
    BY <1>4, <1>f, ViewFacts DEF BackupClose, Close
  <2>4. Recovered'
    BY <1>4 DEF BackupClose, Close, Gone, FilePart, Recovered
  <2>5. TypeOK'
    BY <1>f, <2>1, <2>2, <2>3, ServerTypes DEF FilePart, TypeOK, PageMap, WalMap
  <2>6. BackingUp' /\ Restoring'
    BY <2>1, <2>2, <2>3 DEF FilePart, BackingUp, Restoring
  <2>7. QED
    BY <2>4, <2>5, <2>6 DEF FilePart
<1>5. CASE BackupCopy
  <2>1. UNCHANGED <<main, wal, open, stamp, kills, left>> /\ View' = View /\ op.pc = "copy"
    BY <1>5, <1>f, ViewFacts DEF BackupCopy, files
  <2>2. copy \in PageMap /\ op.page \in Pages /\ copy' = [copy EXCEPT ![op.page] = main[op.page]]
    BY <1>5, <1>f DEF BackupCopy, FilePart, BackingUp
  <2>3. copy' \in PageMap
    BY <1>f, <2>2 DEF PageMap
  <2>4. CASE op.page = Last
    <3>1. op' = Idle /\ Idle \in OpType /\ op'.pc = "idle" /\ op'.page = 1
      BY <1>5, <2>4, FileAssumption DEF BackupCopy, NextPage, Idle, Pages
    <3>2. TypeOK'
      BY <2>1, <2>3, <3>1, ServerTypes DEF FilePart, TypeOK, PageMap
    <3>3. BackingUp' /\ Restoring' /\ Recovered'
      BY <2>1, <3>1 DEF FilePart, BackingUp, Restoring, Recovered
    <3>4. QED
      BY <3>2, <3>3 DEF FilePart
  <2>5. CASE op.page # Last
    <3>1. op' = [op EXCEPT !.page = op.page + 1] /\ op.page + 1 \in Pages
      BY <1>5, <2>2, <2>5, FileAssumption DEF BackupCopy, NextPage, Pages
    <3>2. /\ op' \in OpType /\ op'.pc = "copy" /\ op'.page = op.page + 1 /\ op'.since = op.since
          /\ op'.calm = op.calm
      BY <1>f, <2>1, <3>1
    <3>3. op.calm => \A n \in 1..op.page : copy'[n] = main[n]
      BY <2>1, <2>2, FileAssumption DEF FilePart, BackingUp, PageMap, Pages
    <3>4. TypeOK'
      BY <2>1, <2>3, <3>2, ServerTypes DEF FilePart, TypeOK, PageMap
    <3>5. op'.page - 1 = op.page
      BY <2>2, <3>2 DEF Pages
    <3>6. BackingUp' /\ Restoring' /\ Recovered'
      BY <2>1, <2>3, <3>2, <3>3, <3>5 DEF FilePart, BackingUp, Restoring, Recovered
    <3>7. QED
      BY <3>4, <3>6 DEF FilePart
  <2>6. QED
    BY <2>4, <2>5
<1>6. QED
  BY <1>1, <1>2, <1>3, <1>4, <1>5

\* restore: the pages of the backup, one by one.
LEMMA RestoreStep ==
    ASSUME FilePart, Next, Restore \/ RestoreOpen \/ RestoreCopy
    PROVE  FilePart'
<1> DEFINE OpType == [pc : {"idle", "checkpoint", "close", "copy", "checked", "replace"}, page : Pages,
                      calm : BOOLEAN, since : SUBSET [Pages -> Page \cup {Hole}]]
<1>f. main \in PageMap /\ op \in OpType
  BY DEF FilePart, TypeOK, PageMap
<1>0. CASE Restore
  <2>1. UNCHANGED <<main, wal, open, stamp, copy, kills, left>> /\ View' = View /\ copy \in PageMap
    BY <1>0 DEF Restore, files, View, FilePart, TypeOK, PageMap
  <2>2. op' \in OpType /\ op'.pc = "checked" /\ op'.page = 1
    BY <1>0, <1>f DEF Restore, Idle
  <2>3. TypeOK'
    BY <2>1, <2>2, ServerTypes DEF FilePart, TypeOK
  <2>4. BackingUp' /\ Restoring' /\ Recovered'
    BY <2>1, <2>2 DEF FilePart, BackingUp, Restoring, Recovered
  <2>5. QED
    BY <2>3, <2>4 DEF FilePart
<1>1. CASE RestoreOpen
  <2> DEFINE calm == open = {} /\ ~left
  <2>1. /\ op' = [op EXCEPT !.pc = "replace", !.calm = calm] /\ calm \in BOOLEAN
        /\ op.page = 1 /\ copy \in PageMap
    BY <1>1 DEF RestoreOpen, FilePart, TypeOK, BackingUp, Restoring
  <2>2. calm => open = {} /\ wal = NoWal
    BY DEF FilePart, Recovered
  <2> HIDE DEF calm
  <2>3. op' \in OpType /\ op'.pc = "replace" /\ op'.page = 1 /\ op'.calm = calm
    BY <1>f, <2>1
  <2>4. main' \in PageMap /\ copy' = copy /\ copy \in PageMap /\ UNCHANGED <<wal, open, stamp, kills, left>>
    BY <1>1, <2>1 DEF RestoreOpen, PageMap
  <2>5. TypeOK'
    BY <2>3, <2>4, ServerTypes DEF FilePart, TypeOK, PageMap
  <2>6. BackingUp' /\ Restoring' /\ Recovered'
    BY <2>2, <2>3, <2>4 DEF FilePart, BackingUp, Restoring, Recovered
  <2>7. QED
    BY <2>5, <2>6 DEF FilePart
<1>2. CASE RestoreCopy
  <2>1. UNCHANGED <<wal, open, stamp, kills, left, copy>> /\ op.pc = "replace"
    BY <1>2 DEF RestoreCopy
  <2>2. /\ copy \in PageMap /\ op.page \in Pages /\ main' = [main EXCEPT ![op.page] = copy[op.page]]
    BY <1>2, <1>f DEF RestoreCopy, FilePart, Restoring
  <2>3. main' \in PageMap
    BY <1>f, <2>2 DEF PageMap
  <2>4. CASE op.page = Last
    <3>1. op' = Idle /\ Idle \in OpType /\ op'.pc = "idle" /\ op'.page = 1
      BY <1>2, <2>4, FileAssumption DEF RestoreCopy, NextPage, Idle, Pages
    <3>2. TypeOK'
      BY <2>1, <2>3, <3>1, ServerTypes DEF FilePart, TypeOK, PageMap
    <3>3. BackingUp' /\ Restoring' /\ Recovered'
      BY <2>1, <3>1 DEF FilePart, BackingUp, Restoring, Recovered
    <3>4. QED
      BY <3>2, <3>3 DEF FilePart
  <2>5. CASE op.page # Last
    <3>1. op' = [op EXCEPT !.page = op.page + 1] /\ op.page + 1 \in Pages
      BY <1>2, <2>2, <2>5, FileAssumption DEF RestoreCopy, NextPage, Pages
    <3>2. op' \in OpType /\ op'.pc = "replace" /\ op'.page = op.page + 1 /\ op'.calm = op.calm
      BY <1>f, <2>1, <3>1
    <3>3. op.calm => \A n \in 1..op.page : main'[n] = copy[n]
      BY <1>f, <2>1, <2>2, FileAssumption DEF FilePart, Restoring, PageMap, Pages
    <3>4. TypeOK'
      BY <2>1, <2>3, <3>2, ServerTypes DEF FilePart, TypeOK, PageMap
    <3>5. op'.page - 1 = op.page
      BY <2>2, <3>2 DEF Pages
    <3>6. BackingUp' /\ Restoring' /\ Recovered'
      BY <2>1, <2>2, <3>2, <3>3, <3>5 DEF FilePart, BackingUp, Restoring, Recovered
    <3>7. QED
      BY <3>4, <3>6 DEF FilePart
  <2>6. QED
    BY <2>4, <2>5
<1>3. QED
  BY <1>0, <1>1, <1>2

\* Every step keeps the files what a backup and a restore rely on.
LEMMA StepFile == FileInv /\ [Next]_vars => FileInv'
<1> SUFFICES ASSUME FileInv, [Next]_vars PROVE FileInv'
  OBVIOUS
<1>1. CASE UNCHANGED vars
  BY <1>1 DEF vars, FileInv, TypeOK, Listening, Checked, Recovered, BackingUp, Restoring, View
<1>2. CASE Next
  <2>f. FilePart
    BY DEF FileInv, FilePart
  <2>1. ASSUME NEW c, NEW ns \in SUBSET Pages, Commit(c, ns) PROVE FilePart'
    BY <1>2, <2>1, <2>f, CommitStep
  <2>2. ASSUME NEW n \in Pages, CheckpointPage(n) PROVE FilePart'
    <3>1. main \in PageMap /\ wal \in WalMap
      BY <2>f DEF FilePart, TypeOK, PageMap, WalMap
    <3>2. main' \in PageMap /\ View' = View /\ open # {} /\ MovesPages
      BY <2>2, <3>1 DEF CheckpointPage, View, PageMap, WalMap
    <3>3. Recovered' /\ open' \subseteq Servers \cup {Cli, Op} /\ left' \in BOOLEAN
      BY <2>2, <2>f DEF CheckpointPage, FilePart, TypeOK, Recovered
    <3>4. QED
      BY <1>2, <2>2, <2>f, <3>1, <3>2, <3>3, MovingStep DEF CheckpointPage
  <2>3. ASSUME NEW c \in Servers \cup {Cli}, Open(c), Connects, UNCHANGED <<copy, kills, left>>
        PROVE  FilePart'
    <3>1. open' \subseteq Servers \cup {Cli, Op} /\ Recovered' /\ left' \in BOOLEAN /\ kills' \in 0..MaxKills
      BY <2>3, <2>f DEF Open, FilePart, TypeOK, Recovered
    <3>2. QED
      BY <1>2, <2>3, <2>f, <3>1, ConnectionStep DEF Open
  <2>4. ASSUME UNCHANGED <<files, op, copy, kills, left>> PROVE FilePart'
    BY <1>2, <2>4, <2>f, ConnectionStep DEF files, FilePart, TypeOK, Recovered
  <2>5. ASSUME NEW s \in Servers,
               \/ StartServer(s) \/ WritePid(s) \/ Bind(s) \/ StopServer(s)
               \/ RemovePid(s) \/ CloseServer(s) \/ KillServer(s)
        PROVE  FilePart'
    <3>1. CASE StartServer(s)
      BY <2>3, <3>1 DEF StartServer
    <3>2. CASE WritePid(s) \/ StopServer(s) \/ RemovePid(s)
      BY <2>4, <3>2 DEF WritePid, StopServer, RemovePid
    <3>b. CASE Bind(s)
      <4>1. UNCHANGED <<files, copy, kills, left>> /\ (Serves \/ UNCHANGED op)
        BY <3>b DEF Bind
      <4>2. CASE UNCHANGED op
        BY <2>4, <4>1, <4>2
      <4>3. CASE Serves
        BY <1>2, <2>f, <4>1, <4>3, ConnectionStep DEF files, FilePart, TypeOK, Recovered
      <4>4. QED
        BY <4>1, <4>2, <4>3
    <3>3. CASE CloseServer(s)
      BY <1>2, <2>f, <3>3, CloseStep DEF CloseServer
    <3>4. CASE KillServer(s)
      BY <1>2, <2>f, <3>4, KillStep DEF KillServer
    <3>5. QED
      BY <2>5, <3>1, <3>2, <3>b, <3>3, <3>4
  <2>6. ASSUME OpenCli PROVE FilePart'
    BY <2>3, <2>6 DEF OpenCli
  <2>7. ASSUME CloseCli PROVE FilePart'
    BY <1>2, <2>7, <2>f, CloseStep DEF CloseCli
  <2>8. ASSUME KillCli \/ KillOp PROVE FilePart'
    BY <1>2, <2>8, <2>f, KillStep DEF KillCli, KillOp
  <2>9. FilePart'
    BY <1>2, <2>1, <2>2, <2>5, <2>6, <2>7, <2>8, <2>f, BackupStep, RestoreStep DEF Next
  <2>10. QED
    BY <1>2, <2>9, StepListening, StepChecked DEF FileInv, FilePart
<1>3. QED
  BY <1>1, <1>2

\* The invariant holds in every reachable state.
LEMMA FilesAreKept == Spec => []FileInv
BY InitFile, StepFile, PTL DEF Spec

\* The variables of DatabaseFile keep their types: pages, connections, PID file.
THEOREM TypeCorrect == Spec => []TypeOK
<1>1. FileInv => TypeOK
  BY DEF FileInv
<1>2. QED
  BY <1>1, FilesAreKept, PTL

\* A backup is one committed state since its checkpoint, if the checkpoint was not kept
\* waiting and nobody moved pages until the file was read (cmd_backup).
THEOREM BackupIsCommitted == Spec => BackupIsOneState
<1>1. FileInv /\ Saved /\ op.calm => copy' \in op.since
  <2> SUFFICES ASSUME FileInv, Saved, op.calm PROVE copy' \in op.since
    OBVIOUS
  <2>1. /\ op.pc = "copy" /\ op.page = Last /\ copy \in PageMap /\ main \in PageMap
        /\ copy' = [copy EXCEPT ![Last] = main[Last]] /\ main \in op.since
        /\ \A n \in 1..(Last - 1) : copy[n] = main[n]
    BY DEF Saved, BackupCopy, FileInv, BackingUp, TypeOK, PageMap
  <2>2. \A n \in Pages : copy'[n] = main[n]
    BY <2>1, FileAssumption DEF PageMap, Pages
  <2>3. copy' = main
    BY <2>1, <2>2 DEF PageMap
  <2>4. QED
    BY <2>1, <2>3
<1>2. QED
  BY <1>1, FilesAreKept, PTL DEF BackupIsOneState

\* A restore during which nobody is connected gives the backup, if the last one before
\* was closed and not killed (cmd_restore).
THEOREM RestoreGivesBackup == Spec => RestoreIsExact
<1>1. FileInv /\ Restored /\ op.calm => View' = copy
  <2> SUFFICES ASSUME FileInv, Restored, op.calm PROVE View' = copy
    OBVIOUS
  <2>1. /\ op.page = Last /\ copy \in PageMap /\ main \in PageMap /\ wal' = NoWal
        /\ main' = [main EXCEPT ![Last] = copy[Last]]
        /\ \A n \in 1..(Last - 1) : main[n] = copy[n]
    BY DEF Restored, RestoreCopy, FileInv, Restoring, TypeOK, PageMap
  <2>2. \A n \in Pages : main'[n] = copy[n]
    BY <2>1, FileAssumption DEF PageMap, Pages
  <2>3. main' = copy
    BY <2>1, <2>2 DEF PageMap
  <2>4. View' = Reads(main', wal')
    BY DEF View, Reads
  <2>5. QED
    BY <2>1, <2>3, <2>4, ViewFacts
<1>2. QED
  BY <1>1, FilesAreKept, PTL DEF RestoreIsExact

\* A restore that may send signals does not truncate the file under a server that takes
\* requests, through any number of crashes, while servers are started one at a time and
\* none begins to take them between the check and the truncation (server_running).
THEOREM RestoreRefused == ASSUME MaySignal PROVE Spec => RefusedUnderServer
<1>1. FileInv /\ RestoreOpen /\ op.calm /\ ~second => \A s \in Servers : server[s] # "serving"
  BY DEF FileInv, Checked, RestoreOpen
<1>2. QED
  BY <1>1, FilesAreKept, PTL DEF RefusedUnderServer
===============================================================================
