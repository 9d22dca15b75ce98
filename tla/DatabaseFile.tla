------------------------------ MODULE DatabaseFile ------------------------------
(***************************************************************************)
(* The database as files: the main file, page by page, and the -wal file   *)
(* that commits go to; the server, which keeps a PID file beside them;     *)
(* commands that write; and `agentnews backup` and `restore`, which copy   *)
(* the main file with shutil.copy2, outside of SQLite (db.py, cli.py, the  *)
(* lifespan of api.py).                                                    *)
(*                                                                         *)
(* SQLite's part is external: a commit appends its pages to the -wal file, *)
(* which a checkpoint moves to the main file page by page; whoever closes  *)
(* the last connection checkpoints and removes the -wal file; a -wal file  *)
(* left by a killed process is replayed by the next connection.            *)
(***************************************************************************)
EXTENDS Integers, FiniteSets

CONSTANTS
    Servers,     \* server processes: `serve`, or the systemd unit
    Cli,         \* a process that writes: import-run, watch, key, ...
    Op,          \* the process of backup and restore, one at a time
    Last,        \* the pages are 1..Last
    MaxCommits, MaxKills,    \* bounds
    MaySignal,   \* restore runs as the server's user, or as root
    Hole,        \* a page of a truncated file
    None, Dead

Pages == 1..Last

ASSUME FileAssumption ==
    /\ Last \in Nat \ {0} /\ MaxCommits \in Nat /\ MaxKills \in Nat
    /\ MaySignal \in BOOLEAN
    /\ Cardinality({Cli, Op, None, Dead}) = 4
    /\ {Cli, Op, None, Dead} \cap Servers = {}
    /\ Hole \notin Int /\ None \notin Int

VARIABLES
    main,     \* main[n]: which commit wrote page n of the main file last
    wal,      \* wal[n]: the same in the -wal file, None without a frame of n
    open,     \* the processes with a connection
    server,   \* server[s]: where in its life s is
    pidfile,  \* <db>.pid
    op,       \* what Op is doing, from which page on
    copy,     \* the pages of the backup file; None: there is none
    stamp,    \* the number of commits
    kills,    \* the number of kills
    left,     \* history: the last connection was killed, not closed
    second    \* history: a server was started while another one was up

vars == <<main, wal, open, server, pidfile, op, copy, stamp, kills, left, second>>
files == <<main, wal, open, stamp>>

Page == 0..MaxCommits
NoWal == [n \in Pages |-> None]

\* What a connection reads.
View == [n \in Pages |-> IF wal[n] # None THEN wal[n] ELSE main[n]]

\* calm: what the properties ask of the others until Op's next step; since: the committed
\* states since the checkpoint of a backup.
Idle == [pc |-> "idle", page |-> 1, calm |-> FALSE, since |-> {}]

TypeOK ==
    /\ main \in [Pages -> Page \cup {Hole}]
    /\ wal \in [Pages -> Page \cup {None, Hole}]
    /\ open \subseteq Servers \cup {Cli, Op}
    /\ server \in [Servers -> {"down", "up", "pid", "serving", "stopping", "nopid"}]
    /\ pidfile \in Servers \cup {None, Dead}
    /\ op \in [pc : {"idle", "checkpoint", "close", "copy", "checked", "replace"}, page : Pages,
               calm : BOOLEAN, since : SUBSET [Pages -> Page \cup {Hole}]]
    /\ copy = None \/ copy \in [Pages -> Page \cup {Hole}]
    /\ stamp \in Page /\ kills \in 0..MaxKills
    /\ left \in BOOLEAN /\ second \in BOOLEAN

Init ==
    /\ main = [n \in Pages |-> 0] /\ wal = NoWal /\ open = {} /\ stamp = 0
    /\ server = [s \in Servers |-> "down"] /\ pidfile = None
    /\ op = Idle /\ copy = None
    /\ kills = 0 /\ left = FALSE /\ second = FALSE

-------------------------------------------------------------------------------
\* SQLite.
Open(c) == open' = open \cup {c} /\ UNCHANGED <<main, wal, stamp>>

\* conn.close(): the last one moves the rest of the -wal file and removes it.
CloseOnly(c) == open' = open \ {c} /\ UNCHANGED <<main, wal, stamp>>   \* mutant: no close()
Close(c) ==
    /\ open' = open \ {c}
    /\ IF open = {c} THEN main' = View /\ wal' = NoWal ELSE UNCHANGED <<main, wal>>
    /\ UNCHANGED stamp

\* What the histories note when c is gone, or somebody else meets Op.
Gone(c, killed) == left' = IF open = {c} THEN killed ELSE left
MovesPages == op' = [op EXCEPT !.calm = @ /\ op.pc \notin {"close", "copy"}]
Connects == op' = [op EXCEPT !.calm = @ /\ op.pc # "replace"]
Serves == op' = [op EXCEPT !.calm = @ /\ op.pc # "checked"]

MayCommit(c) ==
    /\ c \in open \ {Op}
    /\ c \in Servers => server[c] \in {"serving", "stopping", "nopid"}

\* A transaction that writes some pages; with all frames checkpointed it may begin the
\* -wal file anew.
Commit(c, ns) ==
    /\ MayCommit(c) /\ stamp < MaxCommits
    /\ \A n \in Pages : View[n] # Hole
    /\ stamp' = stamp + 1
    /\ \E base \in {wal} \cup {w \in {NoWal} : main = View} :
          wal' = [n \in Pages |-> IF n \in ns THEN stamp + 1 ELSE base[n]]
    /\ UNCHANGED <<main, open, server, pidfile, copy, kills, left, second>>
    /\ op' = [op EXCEPT !.since = IF @ = {} THEN {} ELSE @ \cup {View'}]

\* The automatic checkpoint of somebody's commit, one page at a time.
CheckpointPage(n) ==
    /\ open \ {Op} # {}
    /\ wal[n] # None /\ main[n] # wal[n]
    /\ main' = [main EXCEPT ![n] = wal[n]]
    /\ MovesPages
    /\ UNCHANGED <<wal, open, stamp, server, pidfile, copy, kills, left, second>>

-------------------------------------------------------------------------------
\* The server: cmd_serve, uvicorn, the lifespan.
Become(s, from, to) == server[s] = from /\ server' = [server EXCEPT ![s] = to]

\* db.connect; nobody is asked whether another server is up.
StartServer(s) ==
    /\ Become(s, "down", "up") /\ Open(s)
    /\ second' = (second \/ \E t \in Servers \ {s} : server[t] # "down")
    /\ Connects
    /\ UNCHANGED <<pidfile, copy, kills, left>>

WritePidIfNone(s) ==                                   \* mutant: a stale file is kept
    /\ Become(s, "up", "pid")
    /\ pidfile' = IF pidfile = None THEN s ELSE pidfile
    /\ UNCHANGED <<files, op, copy, kills, left, second>>
WritePid(s) ==
    /\ Become(s, "up", "pid")
    /\ pidfile' = s
    /\ UNCHANGED <<files, op, copy, kills, left, second>>

\* uvicorn binds its socket after the lifespan's startup, and when the port is taken
\* runs the lifespan's shutdown.
Bind(s) ==
    /\ \/ (\A t \in Servers : server[t] # "serving") /\ Become(s, "pid", "serving") /\ Serves
       \/ (\E t \in Servers : server[t] = "serving") /\ Become(s, "pid", "stopping") /\ UNCHANGED op
    /\ UNCHANGED <<files, pidfile, copy, kills, left, second>>

\* SIGTERM: no new connections; then the lifespan's finally.
StopServer(s) ==
    /\ Become(s, "serving", "stopping")
    /\ UNCHANGED <<files, pidfile, op, copy, kills, left, second>>
RemovePid(s) ==
    /\ Become(s, "stopping", "nopid")
    /\ pidfile' = None
    /\ UNCHANGED <<files, op, copy, kills, left, second>>
CloseServer(s) ==
    /\ Become(s, "nopid", "down")
    /\ Close(s) /\ Gone(s, FALSE) /\ IF open = {s} THEN MovesPages ELSE UNCHANGED op
    /\ UNCHANGED <<pidfile, copy, kills, second>>

KillServer(s) ==
    /\ server[s] # "down" /\ kills < MaxKills
    /\ kills' = kills + 1
    /\ server' = [server EXCEPT ![s] = "down"]
    /\ open' = open \ {s} /\ Gone(s, TRUE)
    /\ pidfile' = IF pidfile = s THEN Dead ELSE pidfile
    /\ UNCHANGED <<main, wal, stamp, op, copy, second>>

\* A command that writes has no PID file.
OpenCli ==
    /\ Cli \notin open /\ Open(Cli)
    /\ Connects
    /\ UNCHANGED <<server, pidfile, copy, kills, left, second>>
CloseCli ==
    /\ Cli \in open
    /\ Close(Cli) /\ Gone(Cli, FALSE) /\ IF open = {Cli} THEN MovesPages ELSE UNCHANGED op
    /\ UNCHANGED <<server, pidfile, copy, kills, second>>
KillCli ==
    /\ Cli \in open /\ kills < MaxKills
    /\ kills' = kills + 1
    /\ open' = open \ {Cli} /\ Gone(Cli, TRUE)
    /\ UNCHANGED <<main, wal, stamp, server, pidfile, op, copy, second>>

-------------------------------------------------------------------------------
\* cmd_backup.
Backup ==
    /\ op = Idle /\ Open(Op)
    /\ op' = [op EXCEPT !.pc = "checkpoint"]
    /\ UNCHANGED <<server, pidfile, copy, kills, left, second>>

\* PRAGMA wal_checkpoint(TRUNCATE); when another connection is in a transaction it
\* waits, and then gives up without an exception that is let through.
CheckpointSkipped ==                                   \* mutant: no checkpoint
    /\ op.pc = "checkpoint"
    /\ op' = [op EXCEPT !.pc = "close", !.calm = TRUE, !.since = {View}]
    /\ UNCHANGED <<files, server, pidfile, copy, kills, left, second>>
Checkpoint ==
    /\ op.pc = "checkpoint"
    /\ main' = View /\ wal' = NoWal
    /\ op' = [op EXCEPT !.pc = "close", !.calm = TRUE, !.since = {View}]
    /\ UNCHANGED <<open, stamp, server, pidfile, copy, kills, left, second>>
CheckpointBusy ==
    /\ op.pc = "checkpoint" /\ open # {Op}
    /\ op' = [op EXCEPT !.pc = "close", !.since = {View}]
    /\ UNCHANGED <<files, server, pidfile, copy, kills, left, second>>

\* The connection is closed, and the destination opened, that is truncated.
BackupClose ==
    /\ op.pc = "close" /\ Close(Op) /\ Gone(Op, FALSE)
    /\ op' = [op EXCEPT !.pc = "copy"]
    /\ copy' = [n \in Pages |-> Hole]
    /\ UNCHANGED <<server, pidfile, kills, second>>

NextPage == op' = IF op.page = Last THEN Idle ELSE [op EXCEPT !.page = @ + 1]

BackupCopy ==
    /\ op.pc = "copy" /\ NextPage
    /\ copy' = [copy EXCEPT ![op.page] = main[op.page]]
    /\ UNCHANGED <<files, server, pidfile, kills, left, second>>

\* server_running: the PID file names a process that may be sent signal 0.
ServerRunning == MaySignal /\ pidfile \in Servers /\ server[pidfile] # "down"

\* cmd_restore: the check, and, whatever was started in between, shutil.copy2, which
\* truncates the main file and writes it.
Restore ==
    /\ op = Idle /\ copy # None
    /\ ~ServerRunning
    /\ op' = [op EXCEPT !.pc = "checked", !.calm = TRUE]
    /\ UNCHANGED <<files, server, pidfile, copy, kills, left, second>>

RestoreOpen ==
    /\ op.pc = "checked"
    /\ main' = [n \in Pages |-> Hole]
    /\ op' = [op EXCEPT !.pc = "replace", !.calm = open = {} /\ ~left]
    /\ UNCHANGED <<wal, open, stamp, server, pidfile, copy, kills, left, second>>

RestoreCopy ==
    /\ op.pc = "replace" /\ NextPage
    /\ main' = [main EXCEPT ![op.page] = copy[op.page]]
    /\ UNCHANGED <<wal, open, stamp, server, pidfile, copy, kills, left, second>>

KillOp ==
    /\ op # Idle /\ kills < MaxKills
    /\ kills' = kills + 1 /\ op' = Idle
    /\ open' = open \ {Op} /\ Gone(Op, TRUE)
    /\ UNCHANGED <<main, wal, stamp, server, pidfile, copy, second>>

Next ==
    \/ \E c \in Servers \cup {Cli} : \E ns \in (SUBSET Pages) \ {{}} : Commit(c, ns)
    \/ \E n \in Pages : CheckpointPage(n)
    \/ \E s \in Servers : \/ StartServer(s) \/ WritePid(s) \/ Bind(s) \/ StopServer(s)
                          \/ RemovePid(s) \/ CloseServer(s) \/ KillServer(s)
    \/ OpenCli \/ CloseCli \/ KillCli
    \/ Backup \/ Checkpoint \/ CheckpointBusy \/ BackupClose \/ BackupCopy
    \/ Restore \/ RestoreOpen \/ RestoreCopy \/ KillOp

Spec == Init /\ [][Next]_vars

-------------------------------------------------------------------------------
\* A backup is one committed state, not older than its checkpoint, though others
\* commit meanwhile: if the checkpoint was not kept waiting, and nobody moved pages
\* to the main file until it was read.
Saved == BackupCopy /\ op.page = Last
BackupIsOneState == [][Saved /\ op.calm => copy' \in op.since]_vars

\* A restore gives the backup, whatever stops, kills and recoveries came before: if
\* nobody is connected while it copies, and the last one before was not killed.
Restored == RestoreCopy /\ op.page = Last
RestoreIsExact == [][Restored /\ op.calm => View' = copy]_vars

\* "stop the server before restoring": no restore truncates the file under a server that
\* takes requests, through any number of crashes and stale PID files, unless two servers
\* were started at once or the server began to take them after the restore had looked.
RefusedUnderServer ==
    [][RestoreOpen /\ op.calm /\ ~second => \A s \in Servers : server[s] # "serving"]_vars

-------------------------------------------------------------------------------
\* Four statements of the repository that do not hold (see the README).

\* "so the backup is consistent": one committed state, with everything from before.
BackupIsConsistent == [][Saved => copy' \in op.since]_vars

\* "restore replaces the live DB file": with nobody connected, the next one reads it.
RestoreReplaces == [][Restored /\ open = {} => View' = copy]_vars

\* "stop the server before restoring": also when `serve` starts just after the check, or
\* a second `serve` has removed the PID file.
NoRestoreUnderServer == [][RestoreOpen => \A s \in Servers : server[s] # "serving"]_vars

\* "restore DB from a backup": of one that was written to its end.
BackupFileIsWhole == [][RestoreOpen => \A n \in Pages : copy[n] # Hole]_vars
===============================================================================
