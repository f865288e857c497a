------------------------------- MODULE PidFile -------------------------------
(***************************************************************************)
(* Daemon control of nanomq through the PID file /tmp/nanomq/nanomq.pid   *)
(* (src/nanomq/apps/broker.c: status_check, store_pid, broker_start,      *)
(* broker_stop, broker_restart).                                           *)
(*                                                                         *)
(* Every CLI invocation is a process whose pid is its own name.  A        *)
(* `start` (and a `restart`, which ends in broker_start) becomes the       *)
(* broker itself.  Each file-system call and each kill() is one atomic    *)
(* step; nothing serialises two invocations.  nng_file_put is fopen("wb")  *)
(* followed by fwrite, so an empty file is visible in between; an empty    *)
(* file is read by nng_file_get as data == NULL.  Nothing removes the PID  *)
(* file when a broker exits.  Between status_check and store_pid,         *)
(* broker_start parses the command line (module Opts).                    *)
(***************************************************************************)
EXTENDS Opts

CONSTANTS
    Procs,        \* CLI invocations (and their pids)
    Kind,         \* Kind[p] \in {"start", "stop", "restart"}
    Overlap,      \* may an invocation begin while another is still running?
    PortTaken,    \* may another program hold the listen address initially?
    Foreign,      \* that other program
    None,         \* no PID file, no pid read yet, no holder of the port
    Empty,        \* the PID file exists but nothing is written in it yet
    Args          \* Args[p]: the command lines (after the subcommand) p may get

ASSUME Kind \in [Procs -> {"start", "stop", "restart"}]
ASSUME Overlap \in BOOLEAN /\ PortTaken \in BOOLEAN
ASSUME \A p \in Procs : Args[p] # {}

VARIABLES
    pc,      \* where each invocation is
    caller,  \* which call of status_check is running: start, stop, restart, loop
    pid,     \* the local `pid` filled in by status_check
    rc,      \* the value status_check returned
    file,    \* None, or [ino |-> creator, data |-> Empty or a pid]
    fd,      \* inode a store_pid has open, or None
    alive,   \* the processes that exist
    sig,     \* a SIGTERM or SIGKILL pending for the process
    port,    \* holder of the listen address: a broker, Foreign, or None
    argv,    \* the command line p was given
    opts,    \* what broker_parse_opts made of it, once it ran
    detached \* brokers whose parent exited in process_daemonize

vars == <<pc, caller, pid, rc, file, fd, alive, sig, port, argv, opts, detached>>
NotParsed == [exit |-> "none", conf |-> ConfInit]

Checking == {"chk_read", "chk_probe", "chk_delete"}
Settled  == {"done", "serving", "orphan", "dead", "idle"}
Brokers  == {p \in Procs : pc[p] \in {"active", "open", "write", "listen", "serving", "orphan"}}
\* The shell has its prompt back: every invocation has ended or detached.
Quiet    == \A q \in Procs : pc[q] \in Settled \/ q \in detached

\* p calls status_check from `who`.
CallStatus(p, who) == pc' = [pc EXCEPT ![p] = "chk_read"] /\ caller' = [caller EXCEPT ![p] = who]

\* Leave status_check returning v.
Return(p, v) == /\ pc' = [pc EXCEPT ![p] = "ret"]
                /\ rc' = [rc EXCEPT ![p] = v]

\* Mutant: sscanf of whatever was read, an empty file included.
StatusReadNoNullCheck(p) ==
    /\ pc[p] = "chk_read"
    /\ IF file = None
         THEN Return(p, 1) /\ UNCHANGED pid
         ELSE /\ pid' = [pid EXCEPT ![p] = file.data]
              /\ pc' = [pc EXCEPT ![p] = "chk_probe"]
              /\ UNCHANGED rc
    /\ UNCHANGED <<caller, file, fd, alive, sig, port, argv, opts, detached>>

-----------------------------------------------------------------------------
(* status_check: read the file, probe the pid with kill(pid, 0), delete a *)
(* stale file.                                                             *)

\* Mutant: the kill(pid, 0) probe is left out; every PID file is stale.
StatusProbeNoKill(p) ==
    /\ pc[p] = "chk_probe"
    /\ pc' = [pc EXCEPT ![p] = "chk_delete"]
    /\ UNCHANGED <<rc, caller, pid, file, fd, alive, sig, port, argv, opts, detached>>

StatusRead(p) ==
    /\ pc[p] = "chk_read"
    /\ IF file = None
         THEN Return(p, 1) /\ UNCHANGED pid
         ELSE IF file.data = Empty
           THEN pc' = [pc EXCEPT ![p] = "chk_delete"] /\ UNCHANGED <<rc, pid>>
           ELSE /\ pid' = [pid EXCEPT ![p] = file.data]
                /\ pc' = [pc EXCEPT ![p] = "chk_probe"]
                /\ UNCHANGED rc
    /\ UNCHANGED <<caller, file, fd, alive, sig, port, argv, opts, detached>>

StatusProbe(p) ==
    /\ pc[p] = "chk_probe"
    /\ IF pid[p] \in alive
         THEN Return(p, 0)
         ELSE pc' = [pc EXCEPT ![p] = "chk_delete"] /\ UNCHANGED rc
    /\ UNCHANGED <<caller, pid, file, fd, alive, sig, port, argv, opts, detached>>

\* unlink() by name: whatever file is there now goes, whoever wrote it.
StatusDelete(p) ==
    /\ pc[p] = "chk_delete"
    /\ IF file # None
         THEN Return(p, 1) /\ file' = None
         ELSE Return(p, -1) /\ UNCHANGED file
    /\ UNCHANGED <<caller, pid, fd, alive, sig, port, argv, opts, detached>>

-----------------------------------------------------------------------------
(* The callers of status_check, and store_pid and broker().               *)

\* The shell runs the invocation with one of its command lines.  stop
\* wants argc = 0, restart argc >= 1: with other arguments they only print
\* usage and exit.
Invoke(p) ==
    /\ pc[p] = "idle"
    /\ Overlap \/ Quiet
    /\ alive' = alive \cup {p}
    /\ \E a \in Args[p] :
         /\ argv' = [argv EXCEPT ![p] = a]
         /\ IF \/ Kind[p] = "start"
               \/ Kind[p] = "stop" /\ Len(a) = 0
               \/ Kind[p] = "restart" /\ Len(a) >= 1
              THEN CallStatus(p, Kind[p])
              ELSE pc' = [pc EXCEPT ![p] = "done"] /\ UNCHANGED caller
    /\ UNCHANGED <<pid, rc, file, fd, sig, port, opts, detached>>

\* Mutant: the broker runs without calling store_pid.
StartCheckedNoStore(p) ==
    /\ pc[p] = "ret" /\ caller[p] = "start"
    /\ IF rc[p] = 0
         THEN pc' = [pc EXCEPT ![p] = "done"] /\ alive' = alive \ {p} /\ UNCHANGED opts
         ELSE LET r == broker_parse_opts(argv[p]) IN
              /\ opts' = [opts EXCEPT ![p] = r]
              /\ IF r.exit = "ok"
                   THEN pc' = [pc EXCEPT ![p] = "listen"] /\ UNCHANGED alive
                   ELSE pc' = [pc EXCEPT ![p] = "done"] /\ alive' = alive \ {p}
    /\ UNCHANGED <<caller, pid, rc, file, fd, sig, port, argv, detached>>

\* broker_start after status_check: a running instance refuses the start
\* (exit); otherwise broker_parse_opts reads the command line: a help
\* or a repeated path exits, a parse error makes broker_start return -1,
\* and the process ends; a parsed line goes on to store_pid.  rc = -1
\* counts as "not running".
StartChecked(p) ==
    /\ pc[p] = "ret" /\ caller[p] = "start"
    /\ IF rc[p] = 0
         THEN pc' = [pc EXCEPT ![p] = "done"] /\ alive' = alive \ {p} /\ UNCHANGED opts
         ELSE LET r == broker_parse_opts(argv[p]) IN
              /\ opts' = [opts EXCEPT ![p] = r]
              /\ IF r.exit = "ok"
                   THEN pc' = [pc EXCEPT ![p] = "active"] /\ UNCHANGED alive
                   ELSE pc' = [pc EXCEPT ![p] = "done"] /\ alive' = alive \ {p}
    /\ UNCHANGED <<caller, pid, rc, file, fd, sig, port, argv, detached>>

\* active_conf: with daemon set, process_daemonize forks and the parent
\* exits, so the shell gets its prompt back while the child goes on to
\* store_pid; the child's pid is the one store_pid writes, and the model
\* keeps the process's name for it.  nng_taskq_setter touches nothing
\* modelled here.
ActiveConf(p) ==
    /\ pc[p] = "active"
    /\ pc' = [pc EXCEPT ![p] = "open"]
    /\ detached' = IF opts[p].conf.daemon THEN detached \cup {p} ELSE detached
    /\ UNCHANGED <<caller, pid, rc, file, fd, alive, sig, port, argv, opts>>

\* store_pid, first half: fopen(PID_PATH_NAME, "wb") creates or truncates.
StorePidOpen(p) ==
    /\ pc[p] = "open"
    /\ LET ino == IF file = None THEN p ELSE file.ino
       IN /\ file' = [ino |-> ino, data |-> Empty]
          /\ fd' = [fd EXCEPT ![p] = ino]
    /\ pc' = [pc EXCEPT ![p] = "write"]
    /\ UNCHANGED <<caller, pid, rc, alive, sig, port, argv, opts, detached>>

\* store_pid, second half: the write lands in the inode it opened, which
\* is the PID file only if nobody unlinked it in between.
StorePidWrite(p) ==
    /\ pc[p] = "write"
    /\ file' = IF file # None /\ file.ino = fd[p]
                 THEN [file EXCEPT !.data = p] ELSE file
    /\ fd' = [fd EXCEPT ![p] = None]
    /\ pc' = [pc EXCEPT ![p] = "listen"]
    /\ UNCHANGED <<caller, pid, rc, alive, sig, port, argv, opts, detached>>

\* broker(): nng_listen; on failure fatal() only prints and the broker
\* goes on to its sleep loop.
Listen(p) ==
    /\ pc[p] = "listen"
    /\ IF port = None
         THEN port' = p /\ pc' = [pc EXCEPT ![p] = "serving"]
         ELSE UNCHANGED port /\ pc' = [pc EXCEPT ![p] = "orphan"]
    /\ UNCHANGED <<caller, pid, rc, file, fd, alive, sig, argv, opts, detached>>

\* broker_stop: SIGTERM to the running instance, or "no running instance".
StopChecked(p) ==
    /\ pc[p] = "ret" /\ caller[p] = "stop"
    /\ sig' = IF rc[p] = 0 /\ pid[p] \in alive THEN sig \cup {pid[p]} ELSE sig
    /\ pc' = [pc EXCEPT ![p] = "done"]
    /\ alive' = alive \ {p}
    /\ UNCHANGED <<caller, pid, rc, file, fd, port, argv, opts, detached>>

\* Mutant: the wait loop tests `status_check(&pid)` without the `!`.
RestartCheckedLoopInverted(p) ==
    /\ pc[p] = "ret" /\ caller[p] \in {"restart", "loop"}
    /\ IF (rc[p] = 0) = (caller[p] = "restart")
         THEN /\ sig' = IF pid[p] \in alive THEN sig \cup {pid[p]} ELSE sig
              /\ CallStatus(p, "loop")
         ELSE /\ CallStatus(p, "start")
              /\ UNCHANGED sig
    /\ UNCHANGED <<pid, rc, file, fd, alive, port, argv, opts, detached>>

\* broker_restart: SIGTERM, then `while (!status_check(&pid)) kill(pid,
\* SIGKILL);`, then broker_start.
RestartChecked(p) ==
    /\ pc[p] = "ret" /\ caller[p] \in {"restart", "loop"}
    /\ IF rc[p] = 0
         THEN /\ sig' = IF pid[p] \in alive THEN sig \cup {pid[p]} ELSE sig
              /\ CallStatus(p, "loop")
         ELSE /\ CallStatus(p, "start")
              /\ UNCHANGED sig
    /\ UNCHANGED <<pid, rc, file, fd, alive, port, argv, opts, detached>>

-----------------------------------------------------------------------------
(* The operating system.                                                   *)

\* A pending signal ends the process (no SIGTERM handler is installed);
\* its listen socket closes, its PID file stays.
Die(q) ==
    /\ q \in sig /\ q \in alive
    /\ alive' = alive \ {q}
    /\ sig' = sig \ {q}
    /\ pc' = [pc EXCEPT ![q] = "dead"]
    /\ port' = IF port = q THEN None ELSE port
    /\ fd' = [fd EXCEPT ![q] = None]
    /\ UNCHANGED <<caller, pid, rc, file, argv, opts, detached>>

\* A broker crashes or is killed from outside, leaving a stale PID file,
\* or an empty one when it dies between fopen and fwrite in store_pid.
Crash(q) ==
    /\ q \in Brokers \cap alive
    /\ alive' = alive \ {q}
    /\ sig' = sig \ {q}
    /\ pc' = [pc EXCEPT ![q] = "dead"]
    /\ port' = IF port = q THEN None ELSE port
    /\ fd' = [fd EXCEPT ![q] = None]
    /\ UNCHANGED <<caller, pid, rc, file, argv, opts, detached>>

Init ==
    /\ pc = [p \in Procs |-> "idle"]
    /\ caller = [p \in Procs |-> "start"]
    /\ pid = [p \in Procs |-> None]
    /\ rc = [p \in Procs |-> 1]
    /\ file = None
    /\ fd = [p \in Procs |-> None]
    /\ alive = {}
    /\ sig = {}
    /\ port \in IF PortTaken THEN {None, Foreign} ELSE {None}
    /\ argv = [p \in Procs |-> <<>>]
    /\ opts = [p \in Procs |-> NotParsed]
    /\ detached = {}

Step(p) ==
    \/ Invoke(p) \/ StatusRead(p) \/ StatusProbe(p) \/ StatusDelete(p)
    \/ StartChecked(p) \/ ActiveConf(p) \/ StorePidOpen(p) \/ StorePidWrite(p)
    \/ Listen(p) \/ StopChecked(p) \/ RestartChecked(p)

Next == \E p \in Procs : Step(p) \/ Die(p) \/ Crash(p)

\* Every process that has been invoked keeps being scheduled, and the
\* kernel delivers pending signals.  Invocation and crashes are the
\* environment's choice and get no fairness.
Fairness ==
    \A p \in Procs :
        /\ WF_vars(Step(p) /\ pc[p] # "idle")
        /\ WF_vars(Die(p))

Spec == Init /\ [][Next]_vars /\ Fairness

-----------------------------------------------------------------------------
TypeOK ==
    /\ pc \in [Procs -> Checking \cup Settled \cup {"ret", "active", "open", "write", "listen"}]
    /\ detached \subseteq Procs
    /\ caller \in [Procs -> {"start", "stop", "restart", "loop"}]
    /\ pid \in [Procs -> Procs \cup {None}]
    /\ rc \in [Procs -> {-1, 0, 1}]
    /\ file \in {None} \cup [ino : Procs, data : Procs \cup {Empty}]
    /\ fd \in [Procs -> Procs \cup {None}]
    /\ alive \subseteq Procs /\ sig \subseteq alive
    /\ port \in Procs \cup {Foreign, None}
    /\ \A p \in Procs : argv[p] \in Args[p] \cup {<<>>}
    /\ \A p \in Procs : opts[p].exit \in {"none", "ok", "fail", "help", "dup"}

\* broker_start refuses to start "until the other one is stopped": at no
\* time do two processes that passed status_check run as brokers.
SingleInstance == Cardinality(Brokers \cap alive) <= 1

\* Whenever no invocation is in progress, the PID file names the broker
\* that holds the listen address, so that stop and restart reach it.
PidFileTracks ==
    Quiet /\ port \in Procs => file # None /\ file.data = port

\* Every invocation, the restart's wait for the old broker to die
\* included, ends: it exits or becomes a broker.
Finishes ==
    \A p \in Procs : pc[p] # "idle" ~> pc[p] \in {"done", "serving", "orphan", "dead"}


\* broker_start reads a command line written as the CLI table of the
\* specification shows it (section 6) into the configuration the table
\* gives it, and goes on to start the broker with it.
ConfiguredAsSpecified ==
    \A p \in Procs : opts[p] # NotParsed =>
        \A c \in SpecConf(argv[p]) : opts[p] = [exit |-> "ok", conf |-> c]
=============================================================================
