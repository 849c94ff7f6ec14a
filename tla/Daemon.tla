------------------------------- MODULE Daemon -------------------------------
(***************************************************************************)
(* How the retcon command and its background daemon find, replace and stop *)
(* one another (cli/daemon-control.ts, cli/daemon.ts, cli/health-probe.ts, *)
(* cli/clean.ts, migrate in db.ts).  They share one pid file and one       *)
(* database, with its schema version, and the ports: which of them an      *)
(* invocation uses is its own RETCON_PORT.  Each process is sequential;    *)
(* between two of its steps any other may step.                            *)
(*                                                                         *)
(* The port is who is asked, the pid file is whom a signal goes to, and    *)
(* nothing ties the two together: daemons may serve on several ports, and  *)
(* the file names the last of them to come up.  Process ids are not reused *)
(* here, and a killed process dies.                                        *)
(***************************************************************************)
EXTENDS Integers

CONSTANTS
  Commands,    \* the invocations of retcon, in the order they may begin
  MaxDaemons,  \* bound: daemons ever spawned; daemon d has process id d
  Ports,       \* what RETCON_PORT may say
  DefaultPort, \* DEFAULT_PORT, where nothing says
  Plans        \* what is invoked, and what may go wrong

Version == 1 .. 2    \* of the binary and, with it, of the schema it wants
Upstream == {"a", "b"}
Op == {"run", "stop", "clean"}
Fault ==
  {"crash",     \* a daemon is killed
   "shutdown",  \* a daemon shuts itself down: unhandledRejection, a signal
   "late",      \* a daemon takes longer to come up than its command waits
   "stuck",     \* a daemon outlives the grace period after SIGTERM
   "slow"}      \* a daemon does not answer a probe in time

ASSUME CommandsAssumption == Commands \subseteq Nat /\ MaxDaemons \in Nat
ASSUME PortsAssumption == DefaultPort \in Ports
ASSUME PlansAssumption ==
  Plans \subseteq [want : [Commands -> [op : Op, ver : Version, up : Upstream, port : Ports]],
                   overlap : BOOLEAN, faults : SUBSET Fault, schema : {0} \cup Version]

VARIABLES
  cmd,      \* the commands: where each is, the process it minds, its result
  daemon,   \* the daemons: where each is, what it runs, the signal it got
  born,     \* daemons spawned so far
  port,     \* the daemon that listens on each port
  pidfile,  \* the process id in ~/.retcon/proxy.pid
  schema,   \* the database's schema_version; 0 is a fresh database
  plan,     \* what this behaviour invokes
  left,     \* faults that have not happened yet
  \* History:
  mixed     \* retcon was run for one port while a daemon of another lived

vars == <<cmd, daemon, born, port, pidfile, schema, plan, left, mixed>>

None == 0
Pid == 1 .. MaxDaemons
CmdPc == {"idle", "unlink", "probe", "replace", "wait", "reap", "clear", "spawn",
          "poll", "delete", "done"}
DaemonPc == {"unborn", "boot", "migrate", "bind", "listen", "naked", "up", "closing", "dead"}
Result == {"none", "ok", "error", "stopped", "not_running", "refused", "cleaned"}

TypeOK ==
  /\ cmd \in [Commands -> [pc : CmdPc, pid : {None} \cup Pid, result : Result,
                           saw : Upstream \cup {"none"}]]
  /\ daemon \in [Pid -> [pc : DaemonPc, ver : Version, up : Upstream, port : Ports,
                         saw : {0} \cup Version, term : BOOLEAN]]
  /\ born \in 0 .. MaxDaemons
  /\ port \in [Ports -> {None} \cup Pid] /\ pidfile \in {None} \cup Pid
  /\ schema \in {0} \cup Version
  /\ plan \in Plans /\ left \subseteq plan.faults /\ mixed \in BOOLEAN

Init ==
  /\ cmd = [c \in Commands |-> [pc |-> "idle", pid |-> None, result |-> "none", saw |-> "none"]]
  /\ daemon = [d \in Pid |-> [pc |-> "unborn", ver |-> 1, up |-> "a", port |-> DefaultPort,
                               saw |-> 0, term |-> FALSE]]
  /\ born = 0 /\ port = [p \in Ports |-> None] /\ pidfile = None
  /\ plan \in Plans /\ schema = plan.schema /\ left = plan.faults /\ mixed = FALSE

Want(c) == plan.want[c]
IsAlive(d) == d # None /\ daemon[d].pc \notin {"unborn", "dead"}

-----------------------------------------------------------------------------
(* The daemon's own life: openDb and migrate, listen, write the pid file,   *)
(* install the signal handlers, in this order.                              *)

To(d, pc) == daemon' = [daemon EXCEPT ![d].pc = pc]
Release(d) == port' = [p \in Ports |-> IF port[p] = d THEN None ELSE port[p]]

(* migrate reads the version first and refuses a newer database.            *)
Boot(d) ==
  /\ daemon[d].pc = "boot"
  /\ daemon' = [daemon EXCEPT ![d].pc = IF schema > daemon[d].ver THEN "dead" ELSE "migrate",
                              ![d].saw = schema]
  /\ UNCHANGED <<cmd, born, port, pidfile, schema, plan, left, mixed>>

(* The steps from what was read up to this binary's version, each stamped   *)
(* with the step; the version is the largest stamp.                         *)
Stamp(d) == IF schema > daemon[d].ver THEN schema ELSE daemon[d].ver
Migrate(d) ==
  /\ daemon[d].pc = "migrate"
  /\ schema' = Stamp(d)
  /\ To(d, "bind")
  /\ UNCHANGED <<cmd, born, port, pidfile, plan, left, mixed>>

(* A daemon that cannot have its port ends, and leaves the pid file alone.  *)
StartServer(d) ==
  /\ daemon[d].pc = "bind"
  /\ IF port[daemon[d].port] = None
     THEN port' = [port EXCEPT ![daemon[d].port] = d] /\ To(d, "listen")
     ELSE port' = port /\ To(d, "dead")
  /\ UNCHANGED <<cmd, born, pidfile, schema, plan, left, mixed>>

WritePidFile(d) ==
  /\ daemon[d].pc = "listen"
  /\ pidfile' = d /\ To(d, "naked")
  /\ UNCHANGED <<cmd, born, port, schema, plan, left, mixed>>

InstallHandlers(d) ==
  /\ daemon[d].pc = "naked"
  /\ To(d, "up")
  /\ UNCHANGED <<cmd, born, port, pidfile, schema, plan, left, mixed>>

(* gracefulShutdown: its port is given up first; the pid file goes last,    *)
(* whoever it names.                                                        *)
ShutDown(d) ==
  /\ daemon[d].pc = "up"
  /\ \/ daemon[d].term /\ UNCHANGED left
     \/ "shutdown" \in left /\ left' = left \ {"shutdown"}
  /\ To(d, "closing") /\ Release(d)
  /\ UNCHANGED <<cmd, born, pidfile, schema, plan, mixed>>

UnlinkFirst(d) ==
  /\ daemon[d].pc = "closing"
  /\ pidfile' = None /\ To(d, "dead")
  /\ UNCHANGED <<cmd, born, port, schema, plan, left, mixed>>

(* A signal before the handlers are installed, or a fault.                  *)
Killed(d) ==
  /\ IsAlive(d)
  /\ \/ daemon[d].term /\ daemon[d].pc \notin {"up", "closing"} /\ UNCHANGED left
     \/ "crash" \in left /\ left' = left \ {"crash"}
  /\ To(d, "dead") /\ Release(d)
  /\ UNCHANGED <<cmd, born, pidfile, schema, plan, mixed>>

DaemonStep(d) ==
  Boot(d) \/ Migrate(d) \/ StartServer(d) \/ WritePidFile(d) \/ InstallHandlers(d)
    \/ (daemon[d].term /\ (ShutDown(d) \/ Killed(d))) \/ UnlinkFirst(d)

-----------------------------------------------------------------------------
(* Commands *)

Go(c, pc) == cmd' = [cmd EXCEPT ![c].pc = pc]
Finish(c, result) == cmd' = [cmd EXCEPT ![c].pc = "done", ![c].result = result]
SigTerm(d) == daemon' = [daemon EXCEPT ![d].term = TRUE]

MayBegin(c) ==
  /\ cmd[c].pc = "idle"
  /\ \A b \in Commands : b < c =>
       cmd[b].pc # "idle" /\ (plan.overlap \/ cmd[b].pc = "done")

(* A daemon lives that this invocation, on another port, does not see.      *)
Elsewhere(c) == \E d \in Pid : IsAlive(d) /\ daemon[d].port # Want(c).port

(* ensureDaemon: a stale pid file is removed before the port is probed.     *)
BeginRun(c) ==
  /\ MayBegin(c) /\ Want(c).op = "run"
  /\ Go(c, IF pidfile # None /\ ~IsAlive(pidfile) THEN "unlink" ELSE "probe")
  /\ mixed' = (mixed \/ Elsewhere(c))
  /\ UNCHANGED <<daemon, born, port, pidfile, schema, plan, left>>

UnlinkStale(c) ==
  /\ cmd[c].pc = "unlink"
  /\ pidfile' = None /\ Go(c, "probe")
  /\ UNCHANGED <<daemon, born, port, schema, plan, left, mixed>>

(* Who listens where this invocation asks.                                  *)
Server(c) == port[Want(c).port]

(* probeHealth, and what ensureDaemon makes of it.  The server listens      *)
(* before the pid file is written, but answers only when the event loop is  *)
(* free again, and then the handlers are installed.                         *)
Answers(c, ver) ==
  Server(c) # None /\ daemon[Server(c)].pc = "up" /\ daemon[Server(c)].ver = ver

ProbeFree(c) ==
  /\ cmd[c].pc = "probe" /\ Server(c) = None
  /\ Go(c, "spawn")
  /\ UNCHANGED <<daemon, born, port, pidfile, schema, plan, left, mixed>>

ProbeMatch(c) ==
  /\ cmd[c].pc = "probe" /\ Answers(c, Want(c).ver)
  /\ IF daemon[Server(c)].up = Want(c).up
     THEN cmd' = [cmd EXCEPT ![c].pc = "done", ![c].result = "ok", ![c].saw = daemon[Server(c)].up]
     ELSE Finish(c, "error")
  /\ UNCHANGED <<daemon, born, port, pidfile, schema, plan, left, mixed>>

ProbeMismatch(c) ==
  /\ cmd[c].pc = "probe" /\ \E v \in Version \ {Want(c).ver} : Answers(c, v)
  /\ Go(c, "replace")
  /\ UNCHANGED <<daemon, born, port, pidfile, schema, plan, left, mixed>>

ProbeForeign(c) ==
  /\ cmd[c].pc = "probe" /\ Server(c) # None /\ "slow" \in left
  /\ Finish(c, "error") /\ left' = left \ {"slow"}
  /\ UNCHANGED <<daemon, born, port, pidfile, schema, plan, mixed>>

(* stopExistingDaemon and stopDaemon go by the pid file.                    *)
SignalNamed(c) ==
  IF IsAlive(pidfile)
  THEN /\ SigTerm(pidfile)
       /\ cmd' = [cmd EXCEPT ![c].pc = "wait", ![c].pid = pidfile]
  ELSE Go(c, "clear") /\ UNCHANGED daemon
SpawnAtOnce(c) ==
  /\ cmd[c].pc = "replace"
  /\ IF IsAlive(pidfile) THEN SigTerm(pidfile) ELSE UNCHANGED daemon
  /\ Go(c, "clear")
  /\ UNCHANGED <<born, port, pidfile, schema, plan, left, mixed>>
StopExisting(c) ==
  /\ cmd[c].pc = "replace"
  /\ SignalNamed(c)
  /\ UNCHANGED <<born, port, pidfile, schema, plan, left, mixed>>

StopAtOnce(c) ==
  /\ MayBegin(c) /\ Want(c).op = "stop"
  /\ IF pidfile = None THEN Finish(c, "not_running") /\ UNCHANGED daemon
     ELSE Go(c, "clear") /\ SigTerm(pidfile)
  /\ UNCHANGED <<born, port, pidfile, schema, plan, left, mixed>>
BeginStop(c) ==
  /\ MayBegin(c) /\ Want(c).op = "stop"
  /\ IF pidfile = None THEN Finish(c, "not_running") /\ UNCHANGED daemon ELSE SignalNamed(c)
  /\ UNCHANGED <<born, port, pidfile, schema, plan, left, mixed>>

SeesItDead(c) ==
  /\ cmd[c].pc \in {"wait", "reap"} /\ ~IsAlive(cmd[c].pid)
  /\ Go(c, "clear")
  /\ UNCHANGED <<daemon, born, port, pidfile, schema, plan, left, mixed>>

(* The grace period is over: SIGKILL.  Only a replacement waits again.      *)
GraceExpires(c) ==
  /\ cmd[c].pc = "wait" /\ IsAlive(cmd[c].pid) /\ "stuck" \in left
  /\ left' = left \ {"stuck"}
  /\ To(cmd[c].pid, "dead") /\ Release(cmd[c].pid)
  /\ Go(c, IF Want(c).op = "run" THEN "reap" ELSE "clear")
  /\ UNCHANGED <<born, pidfile, schema, plan, mixed>>

CleanupPidFile(c) ==
  /\ cmd[c].pc = "clear"
  /\ pidfile' = None
  /\ IF Want(c).op = "run" THEN Go(c, "spawn") ELSE Finish(c, "stopped")
  /\ UNCHANGED <<daemon, born, port, schema, plan, left, mixed>>

(* spawnAndWait: detached, with the command's version, upstream and port.   *)
Spawn(c) ==
  /\ cmd[c].pc = "spawn" /\ born < MaxDaemons
  /\ born' = born + 1
  /\ daemon' = [daemon EXCEPT ![born + 1] =
       [pc |-> "boot", ver |-> Want(c).ver, up |-> Want(c).up, port |-> Want(c).port,
        saw |-> 0, term |-> FALSE]]
  /\ cmd' = [cmd EXCEPT ![c].pc = "poll", ![c].pid = born + 1]
  /\ UNCHANGED <<port, pidfile, schema, plan, left, mixed>>

(* waitForHealthMatch asks for the version only.                            *)
PollMatch(c) ==
  /\ cmd[c].pc = "poll" /\ Answers(c, Want(c).ver)
  /\ cmd' = [cmd EXCEPT ![c].pc = "done", ![c].result = "ok", ![c].saw = daemon[Server(c)].up]
  /\ UNCHANGED <<daemon, born, port, pidfile, schema, plan, left, mixed>>

PollForGood(c) == FALSE   \* without a deadline
PollTimesOut(c) ==
  /\ cmd[c].pc = "poll" /\ ~Answers(c, Want(c).ver)
  /\ \/ ~IsAlive(cmd[c].pid) /\ UNCHANGED left
     \/ "late" \in left /\ left' = left \ {"late"}
  /\ Finish(c, "error")
  /\ UNCHANGED <<daemon, born, port, pidfile, schema, plan, mixed>>

(* clean: detectLiveDaemon, then one transaction on the database.           *)
BeginClean(c) ==
  /\ MayBegin(c) /\ Want(c).op = "clean"
  /\ IF IsAlive(pidfile) THEN Finish(c, "refused") ELSE Go(c, "delete")
  /\ UNCHANGED <<daemon, born, port, pidfile, schema, plan, left, mixed>>

RunClean(c) ==
  /\ cmd[c].pc = "delete"
  /\ Finish(c, "cleaned")
  /\ UNCHANGED <<daemon, born, port, pidfile, schema, plan, left, mixed>>

CommandStep(c) ==
  BeginRun(c) \/ UnlinkStale(c) \/ ProbeFree(c) \/ ProbeMatch(c) \/ ProbeMismatch(c)
    \/ ProbeForeign(c) \/ StopExisting(c) \/ BeginStop(c) \/ SeesItDead(c)
    \/ GraceExpires(c) \/ CleanupPidFile(c) \/ Spawn(c) \/ PollMatch(c)
    \/ PollTimesOut(c) \/ BeginClean(c) \/ RunClean(c)

Next ==
  \/ \E d \in Pid : DaemonStep(d) \/ ShutDown(d) \/ Killed(d)
  \/ \E c \in Commands : CommandStep(c)

(* A process that can go on does; no fault has to happen.                   *)
Fairness ==
  /\ \A d \in Pid : WF_vars(DaemonStep(d))
  /\ \A c \in Commands : WF_vars(CommandStep(c))

Spec == Init /\ [][Next]_vars
LiveSpec == Spec /\ Fairness

-----------------------------------------------------------------------------
(* One command at a time, no daemon that is slow to come up or shuts down   *)
(* by itself; daemons may crash, be stuck and miss a probe.                 *)
KeptApart == ~plan.overlap /\ plan.faults \cap {"late", "shutdown"} = {}

(* And nobody runs retcon for a port while a daemon of another lives: to    *)
(* change the port is to stop the daemon first.                             *)
Orderly == KeptApart /\ ~mixed

(* While commands keep out of each other's way, stop and clean, which go by *)
(* the pid file alone, are right when they say that no daemon runs any      *)
(* more, or delete because none does: nobody has any port.                  *)
OverlooksNobody ==
  [][\A c \in Commands :
       Orderly /\ cmd[c].result = "none" /\ cmd'[c].result \in {"not_running", "stopped", "cleaned"}
         => \A p \in Ports : port[p] = None]_vars

(* The database is never migrated under the daemon that serves it: whoever  *)
(* has a port finds the schema it was written for.                          *)
ServersFit == \A p \in Ports : port[p] # None => schema = daemon[port[p]].ver
SchemaFitsTheServer == TypeOK /\ (Orderly => ServersFit)

(* Every command ends, whatever becomes of the daemon it waits for.         *)
CommandEnds ==
  \A c \in Commands : (cmd[c].pc # "idle") ~> (cmd[c].pc = "done")

(* "... or set RETCON_PORT=<other> to use a different port": the same two,  *)
(* of commands in order on whatever ports.                                  *)
PortsKeepApart ==
  KeptApart => /\ ServersFit
             /\ \A c \in Commands :
                  cmd[c].result = "cleaned" /\ (\A b \in Commands : b > c => cmd[b].pc = "idle")
                    => \A p \in Ports : port[p] = None

(* "Returns once /health confirms a matching version + upstream is up."     *)
EnsuredUpstream ==
  \A c \in Commands : cmd[c].result = "ok" => cmd[c].saw = Want(c).up

=============================================================================
