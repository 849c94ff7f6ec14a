---------------------------- MODULE RetconProofs ----------------------------
(***************************************************************************)
(* The theorems about three parts of retcon, each for every value of its    *)
(* constants.                                                               *)
(* Daemon, for any number of commands, daemons and ports: while commands    *)
(* keep out of each other's way, nobody serves unseen or loses the schema.  *)
(* Conversation, for any habits and any length: chains of parents lead back *)
(* in time, a branch view only grows from the turn it was put on, and what  *)
(* was rolled back stays back while injections stay in sight.               *)
(* Channel, for any projectors and topics: references go first, and every   *)
(* outcome of a committed event is recorded, none of them by halves.        *)
(***************************************************************************)
EXTENDS Daemon, Conversation, Channel,
        FiniteSetTheorems, SequenceTheorems, WellFoundedInduction, TLAPS

-----------------------------------------------------------------------------
(* Daemon *)

(* One command after the other. *)
InTurn ==
  \A b, c \in Commands : b < c /\ cmd[c].pc # "idle" => cmd[b].pc = "done"

(* Where a command is sure that no daemon lives. *)
Sure == {"unlink", "reap", "clear", "spawn", "delete"}

(* Who lives is the only one; a command that asks a port asks its own.            *)
(* A daemon is left alone, comes up for a command that polls for it, or goes down *)
(* for one that waits for it.                                                     *)
Settled(d) == daemon[d].pc = "up" /\ ~daemon[d].term /\ port[daemon[d].port] = d /\ pidfile = d
Rising(d) ==
  /\ daemon[d].pc \in {"boot", "migrate", "bind", "listen", "naked", "up"} /\ ~daemon[d].term
  /\ daemon[d].pc \in {"listen", "naked", "up"} => port[daemon[d].port] = d
  /\ daemon[d].pc \in {"naked", "up"} => pidfile = d
Falling(d) == daemon[d].pc \in {"up", "closing"}

(* The schema of the daemon that lives. *)
Fits(d) ==
  /\ daemon[d].pc = "migrate" => schema <= daemon[d].ver
  /\ daemon[d].pc \in {"bind", "listen", "naked", "up"} => schema = daemon[d].ver

AliveInv ==
  \A d \in Pid : IsAlive(d) =>
    /\ \A e \in Pid : IsAlive(e) => e = d
    /\ \A c \in Commands : cmd[c].pc \notin Sure
    /\ \A c \in Commands : cmd[c].pc = "probe" => daemon[d].port = Want(c).port
    /\ \/ Settled(d) /\ \A c \in Commands : cmd[c].pc \notin {"poll", "wait"}
       \/ Rising(d) /\ \E c \in Commands : cmd[c].pc = "poll" /\ cmd[c].pid = d
       \/ Falling(d) /\ \E c \in Commands : cmd[c].pc = "wait" /\ cmd[c].pid = d
    /\ Fits(d)
PortInv ==
  \A p \in Ports : port[p] # None =>
    daemon[port[p]].pc \in {"listen", "naked", "up"} /\ daemon[port[p]].port = p

OrderInv == Orderly => InTurn /\ AliveInv /\ PortInv
IInv == TypeOK /\ OrderInv

-----------------------------------------------------------------------------
(* Records of cmd and daemon, and what moving one does. *)

CmdRec == [pc : CmdPc, pid : {None} \cup Pid, result : Result, saw : Upstream \cup {"none"}]
DaemonRec == [pc : DaemonPc, ver : Version, up : Upstream, port : Ports, saw : {0} \cup Version, term : BOOLEAN]

LEMMA Fields ==
  ASSUME TypeOK
  PROVE  /\ cmd \in [Commands -> CmdRec] /\ daemon \in [Pid -> DaemonRec]
         /\ \A c \in Commands : cmd[c].pid \in {None} \cup Pid /\ Want(c).op \in Op
                             /\ Want(c).ver \in Version /\ Want(c).up \in Upstream
                             /\ Want(c).port \in Ports
         /\ \A d \in Pid : daemon[d].ver \in Version /\ daemon[d].up \in Upstream /\ daemon[d].port \in Ports
         /\ MaxDaemons \in Nat /\ None \notin Pid /\ Pid \subseteq Nat
<1>1. cmd \in [Commands -> CmdRec] /\ daemon \in [Pid -> DaemonRec]
  BY DEF TypeOK, CmdRec, DaemonRec
<1>2. plan.want \in [Commands -> [op : Op, ver : Version, up : Upstream, port : Ports]]
  BY PlansAssumption DEF TypeOK
<1>3. None \notin Pid /\ Pid \subseteq Nat /\ MaxDaemons \in Nat
  BY CommandsAssumption DEF None, Pid
<1> QED
  BY <1>1, <1>2, <1>3 DEF CmdRec, DaemonRec, Want

LEMMA CmdGoes ==
  ASSUME TypeOK, NEW c \in Commands, NEW pc \in CmdPc, Go(c, pc)
  PROVE  /\ cmd' \in [Commands -> CmdRec]
         /\ cmd'[c].pc = pc /\ cmd'[c].pid = cmd[c].pid /\ cmd'[c].result = cmd[c].result
         /\ \A b \in Commands : b # c => cmd'[b] = cmd[b]
<1>1. cmd' = [cmd EXCEPT ![c] = [cmd[c] EXCEPT !.pc = pc]]
  BY DEF Go
<1>2. [cmd[c] EXCEPT !.pc = pc] \in CmdRec
  BY Fields DEF CmdRec
<1> QED
  BY <1>1, <1>2, Fields DEF CmdRec

LEMMA CmdFinishes ==
  ASSUME TypeOK, NEW c \in Commands, NEW result \in Result, Finish(c, result)
  PROVE  /\ cmd' \in [Commands -> CmdRec]
         /\ cmd'[c].pc = "done" /\ cmd'[c].result = result
         /\ \A b \in Commands : b # c => cmd'[b] = cmd[b]
<1>1. cmd' = [cmd EXCEPT ![c] = [cmd[c] EXCEPT !.pc = "done", !.result = result]]
  BY DEF Finish
<1>2. [cmd[c] EXCEPT !.pc = "done", !.result = result] \in CmdRec
  BY Fields DEF CmdRec, CmdPc
<1> QED
  BY <1>1, <1>2, Fields DEF CmdRec

LEMMA DaemonGoes ==
  ASSUME TypeOK, NEW d \in Pid, NEW pc \in DaemonPc, To(d, pc)
  PROVE  /\ daemon' \in [Pid -> DaemonRec]
         /\ daemon'[d].pc = pc /\ daemon'[d].ver = daemon[d].ver /\ daemon'[d].port = daemon[d].port
         /\ daemon'[d].term = daemon[d].term
         /\ \A e \in Pid : e # d => daemon'[e] = daemon[e]
<1>1. daemon' = [daemon EXCEPT ![d] = [daemon[d] EXCEPT !.pc = pc]]
  BY DEF To
<1>2. [daemon[d] EXCEPT !.pc = pc] \in DaemonRec
  BY Fields DEF DaemonRec
<1> QED
  BY <1>1, <1>2, Fields DEF DaemonRec

LEMMA DaemonSignalled ==
  ASSUME TypeOK, NEW d \in Pid, SigTerm(d)
  PROVE  /\ daemon' \in [Pid -> DaemonRec]
         /\ daemon'[d].pc = daemon[d].pc /\ daemon'[d].ver = daemon[d].ver /\ daemon'[d].port = daemon[d].port
         /\ \A e \in Pid : e # d => daemon'[e] = daemon[e]
<1>1. daemon' = [daemon EXCEPT ![d] = [daemon[d] EXCEPT !.term = TRUE]]
  BY DEF SigTerm
<1>2. [daemon[d] EXCEPT !.term = TRUE] \in DaemonRec
  BY Fields DEF DaemonRec
<1> QED
  BY <1>1, <1>2, Fields DEF DaemonRec

-----------------------------------------------------------------------------
(* Type correctness. *)

LEMMA TypeStep ==
  ASSUME TypeOK, [Next]_vars
  PROVE  TypeOK'
<1> USE Fields
<1> DEFINE Typed == /\ cmd' \in [Commands -> CmdRec] /\ daemon' \in [Pid -> DaemonRec]
                      /\ born' \in 0 .. MaxDaemons /\ port' \in [Ports -> {None} \cup Pid]
                      /\ pidfile' \in {None} \cup Pid /\ mixed' \in BOOLEAN
                      /\ schema' \in {0} \cup Version /\ plan' = plan /\ left' \subseteq left
<1> SUFFICES Typed
  BY DEF TypeOK, CmdRec, DaemonRec
<1>0. /\ cmd \in [Commands -> CmdRec] /\ daemon \in [Pid -> DaemonRec]
      /\ born \in 0 .. MaxDaemons /\ port \in [Ports -> {None} \cup Pid] /\ pidfile \in {None} \cup Pid
      /\ schema \in {0} \cup Version /\ mixed \in BOOLEAN
  BY DEF TypeOK
<1>1. ASSUME NEW d \in Pid, Boot(d) PROVE Typed
  <2>1. PICK pc \in DaemonPc : daemon' = [daemon EXCEPT ![d] = [daemon[d] EXCEPT !.pc = pc, !.saw = schema]]
    BY <1>1 DEF Boot, DaemonPc
  <2>2. [daemon[d] EXCEPT !.pc = pc, !.saw = schema] \in DaemonRec
    BY <1>0 DEF DaemonRec
  <2>3. UNCHANGED <<cmd, born, port, pidfile, schema, plan, left, mixed>>
    BY <1>1 DEF Boot
  <2> QED
    BY <1>0, <2>1, <2>2, <2>3
<1>2. ASSUME NEW d \in Pid, Migrate(d) PROVE Typed
  BY <1>0, <1>2, DaemonGoes DEF Migrate, Stamp, DaemonPc
<1>3. ASSUME NEW d \in Pid, StartServer(d) PROVE Typed
  BY <1>0, <1>3, DaemonGoes DEF StartServer, DaemonPc
<1>4. ASSUME NEW d \in Pid, WritePidFile(d) PROVE Typed
  BY <1>0, <1>4, DaemonGoes DEF WritePidFile, DaemonPc
<1>5. ASSUME NEW d \in Pid, InstallHandlers(d) PROVE Typed
  BY <1>0, <1>5, DaemonGoes DEF InstallHandlers, DaemonPc
<1>6. ASSUME NEW d \in Pid, ShutDown(d) PROVE Typed
  BY <1>0, <1>6, DaemonGoes DEF ShutDown, DaemonPc, Release
<1>7. ASSUME NEW d \in Pid, UnlinkFirst(d) PROVE Typed
  BY <1>0, <1>7, DaemonGoes DEF UnlinkFirst, DaemonPc
<1>8. ASSUME NEW d \in Pid, Killed(d) PROVE Typed
  BY <1>0, <1>8, DaemonGoes DEF Killed, DaemonPc, Release
<1>9. ASSUME NEW c \in Commands, BeginRun(c) PROVE Typed
  BY <1>0, <1>9, CmdGoes DEF BeginRun, CmdPc
<1>10. ASSUME NEW c \in Commands, UnlinkStale(c) PROVE Typed
  BY <1>0, <1>10, CmdGoes DEF UnlinkStale, CmdPc
<1>11. ASSUME NEW c \in Commands, ProbeFree(c) PROVE Typed
  BY <1>0, <1>11, CmdGoes DEF ProbeFree, CmdPc
<1>12. ASSUME NEW c \in Commands, ProbeMatch(c) PROVE Typed
  BY <1>0, <1>12, CmdFinishes DEF ProbeMatch, Answers, Server, CmdRec, CmdPc, Result
<1>13. ASSUME NEW c \in Commands, ProbeMismatch(c) PROVE Typed
  BY <1>0, <1>13, CmdGoes DEF ProbeMismatch, CmdPc
<1>14. ASSUME NEW c \in Commands, ProbeForeign(c) PROVE Typed
  BY <1>0, <1>14, CmdFinishes DEF ProbeForeign, Result
<1>15. ASSUME NEW c \in Commands, StopExisting(c) PROVE Typed
  BY <1>0, <1>15, CmdGoes, DaemonSignalled DEF StopExisting, SignalNamed, IsAlive, CmdPc, CmdRec
<1>16. ASSUME NEW c \in Commands, BeginStop(c) PROVE Typed
  BY <1>0, <1>16, CmdGoes, CmdFinishes, DaemonSignalled DEF BeginStop, SignalNamed, IsAlive, CmdPc,
                                                            CmdRec, Result
<1>17. ASSUME NEW c \in Commands, SeesItDead(c) PROVE Typed
  BY <1>0, <1>17, CmdGoes DEF SeesItDead, CmdPc
<1>18. ASSUME NEW c \in Commands, GraceExpires(c) PROVE Typed
  BY <1>0, <1>18, CmdGoes, DaemonGoes DEF GraceExpires, IsAlive, CmdPc, DaemonPc, Release
<1>19. ASSUME NEW c \in Commands, CleanupPidFile(c) PROVE Typed
  BY <1>0, <1>19, CmdGoes, CmdFinishes DEF CleanupPidFile, CmdPc, Result
<1>20. ASSUME NEW c \in Commands, Spawn(c) PROVE Typed
  <2>1. born + 1 \in Pid /\ born + 1 \in 0 .. MaxDaemons
    BY <1>0, <1>20 DEF Spawn, Pid
  <2>2. /\ [pc |-> "boot", ver |-> Want(c).ver, up |-> Want(c).up, port |-> Want(c).port,
         saw |-> 0, term |-> FALSE] \in DaemonRec
        /\ [cmd[c] EXCEPT !.pc = "poll", !.pid = born + 1] \in CmdRec
    <3>1. [pc |-> "boot", ver |-> Want(c).ver, up |-> Want(c).up, port |-> Want(c).port,
         saw |-> 0, term |-> FALSE] \in DaemonRec
      BY DEF DaemonRec, DaemonPc
    <3>2. [cmd[c] EXCEPT !.pc = "poll", !.pid = born + 1] \in CmdRec
      BY <1>0, <2>1 DEF CmdRec, CmdPc
    <3> QED
      BY <3>1, <3>2
  <2>3. cmd' = [cmd EXCEPT ![c] = [cmd[c] EXCEPT !.pc = "poll", !.pid = born + 1]]
    BY <1>20 DEF Spawn
  <2> QED
    BY <1>0, <1>20, <2>1, <2>2, <2>3 DEF Spawn
<1>21. ASSUME NEW c \in Commands, PollMatch(c) PROVE Typed
  <2>1. cmd' = [cmd EXCEPT ![c] = [cmd[c] EXCEPT !.pc = "done", !.result = "ok", !.saw = daemon[Server(c)].up]]
    BY <1>21 DEF PollMatch
  <2>2. [cmd[c] EXCEPT !.pc = "done", !.result = "ok", !.saw = daemon[Server(c)].up] \in CmdRec
    BY <1>0, <1>21 DEF PollMatch, Answers, Server, CmdRec, CmdPc, Result
  <2> QED
    BY <1>0, <1>21, <2>1, <2>2 DEF PollMatch
<1>22. ASSUME NEW c \in Commands, PollTimesOut(c) PROVE Typed
  BY <1>0, <1>22, CmdFinishes DEF PollTimesOut, Result
<1>23. ASSUME NEW c \in Commands, BeginClean(c) PROVE Typed
  BY <1>0, <1>23, CmdGoes, CmdFinishes DEF BeginClean, CmdPc, Result
<1>24. ASSUME NEW c \in Commands, RunClean(c) PROVE Typed
  BY <1>0, <1>24, CmdFinishes DEF RunClean, Result
<1>25. CASE UNCHANGED vars
  BY <1>0, <1>25 DEF vars
<1> QED
  BY <1>1, <1>2, <1>3, <1>4, <1>5, <1>6, <1>7, <1>8, <1>9, <1>10, <1>11, <1>12, <1>13,
     <1>14, <1>15, <1>16, <1>17, <1>18, <1>19, <1>20, <1>21, <1>22, <1>23, <1>24, <1>25 DEF Next, DaemonStep, CommandStep

-----------------------------------------------------------------------------
(* Commands that keep out of each other's way. *)

Busy(c) == cmd[c].pc \notin {"idle", "done"}

LEMMA OneBusy ==
  ASSUME InTurn, NEW b \in Commands, NEW c \in Commands, Busy(b), Busy(c)
  PROVE  b = c
BY CommandsAssumption DEF InTurn, Busy

LEMMA NobodyBusy ==
  ASSUME InTurn, ~plan.overlap, NEW c \in Commands, MayBegin(c), NEW b \in Commands
  PROVE  ~Busy(b)
<1>1. cmd[c].pc = "idle" /\ \A a \in Commands : a < c => cmd[a].pc = "done"
  BY DEF MayBegin
<1>2. \A a \in Commands : c < a => cmd[a].pc = "idle"
  BY <1>1 DEF InTurn
<1>3. b < c \/ b = c \/ c < b
  BY CommandsAssumption
<1> QED
  BY <1>1, <1>2, <1>3 DEF Busy

(* A command that begins, moves on or ends keeps the others' turns.               *)
LEMMA TurnKept ==
  ASSUME InTurn, NEW c \in Commands, Busy(c) \/ (MayBegin(c) /\ ~plan.overlap),
         cmd'[c].pc # "idle", \A b \in Commands : b # c => cmd'[b] = cmd[b]
  PROVE  InTurn'
<1> SUFFICES ASSUME NEW a \in Commands, NEW b \in Commands, a < b, cmd'[b].pc # "idle"
             PROVE  cmd'[a].pc = "done"
  BY DEF InTurn
<1>1. CASE a # c /\ b # c
  BY <1>1 DEF InTurn
<1>2. CASE b = c
  BY <1>2, CommandsAssumption DEF InTurn, Busy, MayBegin
<1>3. CASE a = c /\ b # c
  BY <1>3 DEF InTurn, Busy, MayBegin
<1> QED
  BY <1>1, <1>2, <1>3

(* With a command at work, the daemon that lives is the one it polls for, or the  *)
(* one it waits for; or it is left alone, and the command has only asked for it.   *)
LEMMA WhoLives ==
  ASSUME InTurn, AliveInv, NEW c \in Commands, Busy(c), NEW d \in Pid, IsAlive(d)
  PROVE  /\ cmd[c].pc \notin Sure
         /\ cmd[c].pc = "poll" => Rising(d) /\ cmd[c].pid = d
         /\ cmd[c].pc = "wait" => Falling(d) /\ cmd[c].pid = d
         /\ cmd[c].pc \notin {"poll", "wait"} => Settled(d)
         /\ cmd[c].pc = "probe" => daemon[d].port = Want(c).port
BY OneBusy DEF AliveInv, Busy, Sure

LEMMA WhoLivesAlone ==
  ASSUME InTurn, AliveInv, \A c \in Commands : ~Busy(c), NEW d \in Pid, IsAlive(d)
  PROVE  Settled(d)
BY DEF AliveInv, Busy, Sure

LEMMA CommandFrame ==
  ASSUME InTurn, AliveInv, NEW c \in Commands, Busy(c) \/ (MayBegin(c) /\ ~plan.overlap),
         UNCHANGED <<daemon, schema, plan>>,
         \A b \in Commands : b # c => cmd'[b] = cmd[b],
         \A d \in Pid : IsAlive(d) =>
           /\ cmd'[c].pc \notin Sure
           /\ cmd'[c].pc = "probe" => daemon[d].port = Want(c).port
           /\ \/ Settled(d)' /\ cmd'[c].pc \notin {"poll", "wait"}
              \/ Rising(d)' /\ cmd'[c].pc = "poll" /\ cmd'[c].pid = d
              \/ Falling(d)' /\ cmd'[c].pc = "wait" /\ cmd'[c].pid = d
  PROVE  AliveInv'
<1>1. \A b \in Commands : b # c => ~Busy(b)
  BY OneBusy, NobodyBusy
<1>2. \A d \in Pid : IsAlive(d)' => IsAlive(d)
  BY DEF IsAlive
<1> SUFFICES ASSUME NEW d \in Pid, IsAlive(d)'
             PROVE  /\ \A e \in Pid : IsAlive(e)' => e = d
                    /\ \A b \in Commands : cmd'[b].pc \notin Sure
                    /\ \A b \in Commands : cmd'[b].pc = "probe" => daemon'[d].port = Want(b)'.port
                    /\ \/ Settled(d)' /\ \A b \in Commands : cmd'[b].pc \notin {"poll", "wait"}
                       \/ Rising(d)' /\ \E b \in Commands : cmd'[b].pc = "poll" /\ cmd'[b].pid = d
                       \/ Falling(d)' /\ \E b \in Commands : cmd'[b].pc = "wait" /\ cmd'[b].pid = d
                    /\ Fits(d)'
  BY DEF AliveInv
<1>3. IsAlive(d)
  BY <1>2
<1>4. (\A e \in Pid : IsAlive(e)' => e = d) /\ Fits(d)'
  BY <1>2, <1>3 DEF AliveInv, Fits
<1>5. \A b \in Commands : b # c => cmd'[b].pc \in {"idle", "done"}
  BY <1>1 DEF Busy
<1> QED
  BY <1>3, <1>4, <1>5 DEF Sure, Want

LEMMA DaemonFrame ==
  ASSUME TypeOK, AliveInv, NEW d \in Pid, IsAlive(d), UNCHANGED <<cmd, plan>>,
         daemon'[d].port = daemon[d].port,
         \A e \in Pid : e # d => daemon'[e] = daemon[e],
         daemon'[d].pc = "dead"
           \/ /\ Settled(d) => Settled(d)'
              /\ Rising(d) => Rising(d)'
              /\ Falling(d) => Falling(d)'
              /\ Fits(d)'
  PROVE  AliveInv'
<1>1. \A e \in Pid : IsAlive(e)' => e = d /\ daemon'[d].pc # "dead"
  BY DEF AliveInv, IsAlive
<1> QED
  BY <1>1 DEF AliveInv, Want

LEMMA OrderStep ==
  ASSUME TypeOK, OrderInv, [Next]_vars
  PROVE  OrderInv'
<1> USE Fields
<1>a. plan' = plan /\ (mixed => mixed')
  <2>1. CASE \E c \in Commands : BeginRun(c)
    BY <2>1 DEF BeginRun
  <2>2. CASE ~\E c \in Commands : BeginRun(c)
    <3>1. UNCHANGED <<plan, mixed>>
      BY <2>2 DEF Next, vars, DaemonStep, CommandStep, Boot, Migrate, StartServer, WritePidFile,
             InstallHandlers, ShutDown, UnlinkFirst, Killed, UnlinkStale, ProbeFree, ProbeMatch,
             ProbeMismatch, ProbeForeign, StopExisting, BeginStop, SeesItDead, GraceExpires,
             CleanupPidFile, Spawn, PollMatch, PollTimesOut, BeginClean, RunClean
    <3> QED
      BY <3>1
  <2> QED
    BY <2>1, <2>2
<1> SUFFICES ASSUME Orderly' PROVE InTurn' /\ AliveInv' /\ PortInv'
  BY DEF OrderInv
<1>b. /\ InTurn /\ AliveInv /\ PortInv /\ ~plan.overlap /\ ~mixed'
      /\ "late" \notin left /\ "shutdown" \notin left
  BY <1>a DEF OrderInv, Orderly, KeptApart, TypeOK
<1>c. /\ schema \in {0} \cup Version /\ Version \subseteq Nat
      /\ port \in [Ports -> {None} \cup Pid] /\ pidfile \in {None} \cup Pid
  BY DEF TypeOK, Version
<1>1. ASSUME NEW d \in Pid, Boot(d) PROVE InTurn' /\ AliveInv' /\ PortInv'
  <2>1. /\ daemon'[d].pc = (IF schema > daemon[d].ver THEN "dead" ELSE "migrate") /\ daemon'[d].ver = daemon[d].ver
        /\ daemon'[d].term = daemon[d].term /\ daemon'[d].port = daemon[d].port
        /\ \A e \in Pid : e # d => daemon'[e] = daemon[e]
    BY <1>1, DaemonGoes DEF Boot, DaemonPc, DaemonRec
  <2>2. IsAlive(d) /\ UNCHANGED <<cmd, plan>>
    BY <1>1 DEF Boot, IsAlive
  <2>3. AliveInv'
    <3>1. ~Settled(d) /\ ~Falling(d)
      BY <1>1 DEF Boot, Settled, Falling
    <3>2. (Rising(d) => Rising(d)') \/ daemon'[d].pc = "dead"
      BY <1>1, <2>1 DEF Boot, Rising
    <3>3. Fits(d)' \/ daemon'[d].pc = "dead"
      BY <1>1, <1>c, <2>1 DEF Boot, Fits
    <3> QED
      BY <1>b, <2>1, <2>2, <3>1, <3>2, <3>3, DaemonFrame
  <2>4. PortInv'
    BY <1>1, <1>b, <1>c, <2>1 DEF Boot, PortInv
  <2> QED
    BY <1>b, <2>2, <2>3, <2>4 DEF InTurn
<1>2. ASSUME NEW d \in Pid, Migrate(d) PROVE InTurn' /\ AliveInv' /\ PortInv'
  <2>1. /\ daemon'[d].pc = "bind" /\ daemon'[d].ver = daemon[d].ver
        /\ daemon'[d].term = daemon[d].term /\ daemon'[d].port = daemon[d].port
        /\ \A e \in Pid : e # d => daemon'[e] = daemon[e]
    BY <1>2, DaemonGoes DEF Migrate, DaemonPc
  <2>2. IsAlive(d) /\ UNCHANGED <<cmd, plan>>
    BY <1>2 DEF Migrate, IsAlive
  <2>3. AliveInv'
    <3>1. ~Settled(d) /\ ~Falling(d) /\ schema <= daemon[d].ver
      BY <1>2, <1>b, <2>2 DEF Migrate, Settled, Falling, AliveInv, Fits
    <3>2. Rising(d) => Rising(d)'
      BY <1>2, <2>1 DEF Migrate, Rising
    <3>3. schema' = daemon[d].ver
      BY <1>2, <1>c, <3>1 DEF Migrate, Stamp
    <3>4. Fits(d)'
      BY <2>1, <3>3 DEF Fits
    <3> QED
      BY <1>b, <2>1, <2>2, <3>1, <3>2, <3>4, DaemonFrame
  <2>4. PortInv'
    BY <1>2, <1>b, <1>c, <2>1 DEF Migrate, PortInv
  <2> QED
    BY <1>b, <2>2, <2>3, <2>4 DEF InTurn
<1>3. ASSUME NEW d \in Pid, StartServer(d) PROVE InTurn' /\ AliveInv' /\ PortInv'
  <2>1. /\ daemon'[d].pc = (IF port[daemon[d].port] = None THEN "listen" ELSE "dead") /\ daemon'[d].ver = daemon[d].ver
        /\ daemon'[d].term = daemon[d].term /\ daemon'[d].port = daemon[d].port
        /\ \A e \in Pid : e # d => daemon'[e] = daemon[e]
    BY <1>3, DaemonGoes DEF StartServer, DaemonPc
  <2>2. IsAlive(d) /\ UNCHANGED <<cmd, plan>>
    BY <1>3 DEF StartServer, IsAlive
  <2>3. AliveInv'
    BY <1>3, <1>b, <1>c, <2>1, <2>2, DaemonFrame
       DEF StartServer, AliveInv, Settled, Rising, Falling, Fits
  <2>4. PortInv'
    BY <1>3, <1>b, <1>c, <2>1 DEF StartServer, PortInv
  <2> QED
    BY <1>b, <2>2, <2>3, <2>4 DEF InTurn
<1>4. ASSUME NEW d \in Pid, WritePidFile(d) PROVE InTurn' /\ AliveInv' /\ PortInv'
  <2>1. /\ daemon'[d].pc = "naked" /\ daemon'[d].ver = daemon[d].ver
        /\ daemon'[d].term = daemon[d].term /\ daemon'[d].port = daemon[d].port
        /\ \A e \in Pid : e # d => daemon'[e] = daemon[e]
    BY <1>4, DaemonGoes DEF WritePidFile, DaemonPc
  <2>2. IsAlive(d) /\ UNCHANGED <<cmd, plan>>
    BY <1>4 DEF WritePidFile, IsAlive
  <2>3. AliveInv'
    BY <1>4, <1>b, <1>c, <2>1, <2>2, DaemonFrame
       DEF WritePidFile, AliveInv, Settled, Rising, Falling, Fits
  <2>4. PortInv'
    BY <1>4, <1>b, <1>c, <2>1 DEF WritePidFile, PortInv
  <2> QED
    BY <1>b, <2>2, <2>3, <2>4 DEF InTurn
<1>5. ASSUME NEW d \in Pid, InstallHandlers(d) PROVE InTurn' /\ AliveInv' /\ PortInv'
  <2>1. /\ daemon'[d].pc = "up" /\ daemon'[d].ver = daemon[d].ver
        /\ daemon'[d].term = daemon[d].term /\ daemon'[d].port = daemon[d].port
        /\ \A e \in Pid : e # d => daemon'[e] = daemon[e]
    BY <1>5, DaemonGoes DEF InstallHandlers, DaemonPc
  <2>2. IsAlive(d) /\ UNCHANGED <<cmd, plan>>
    BY <1>5 DEF InstallHandlers, IsAlive
  <2>3. AliveInv'
    BY <1>5, <1>b, <1>c, <2>1, <2>2, DaemonFrame
       DEF InstallHandlers, AliveInv, Settled, Rising, Falling, Fits
  <2>4. PortInv'
    BY <1>5, <1>b, <1>c, <2>1 DEF InstallHandlers, PortInv
  <2> QED
    BY <1>b, <2>2, <2>3, <2>4 DEF InTurn
<1>6. ASSUME NEW d \in Pid, ShutDown(d) PROVE InTurn' /\ AliveInv' /\ PortInv'
  <2>1. /\ daemon'[d].pc = "closing" /\ daemon'[d].ver = daemon[d].ver
        /\ daemon'[d].term = daemon[d].term /\ daemon'[d].port = daemon[d].port
        /\ \A e \in Pid : e # d => daemon'[e] = daemon[e]
    BY <1>6, DaemonGoes DEF ShutDown, DaemonPc
  <2>2. IsAlive(d) /\ UNCHANGED <<cmd, plan>>
    BY <1>6 DEF ShutDown, IsAlive
  <2>3. AliveInv'
    BY <1>6, <1>b, <1>c, <2>1, <2>2, DaemonFrame
       DEF ShutDown, AliveInv, Settled, Rising, Falling, Fits, Release
  <2>4. PortInv'
    BY <1>6, <1>b, <1>c, <2>1 DEF ShutDown, PortInv, Release
  <2> QED
    BY <1>b, <2>2, <2>3, <2>4 DEF InTurn
<1>7. ASSUME NEW d \in Pid, UnlinkFirst(d) PROVE InTurn' /\ AliveInv' /\ PortInv'
  <2>1. /\ daemon'[d].pc = "dead" /\ daemon'[d].ver = daemon[d].ver
        /\ daemon'[d].term = daemon[d].term /\ daemon'[d].port = daemon[d].port
        /\ \A e \in Pid : e # d => daemon'[e] = daemon[e]
    BY <1>7, DaemonGoes DEF UnlinkFirst, DaemonPc
  <2>2. IsAlive(d) /\ UNCHANGED <<cmd, plan>>
    BY <1>7 DEF UnlinkFirst, IsAlive
  <2>3. AliveInv'
    BY <1>7, <1>b, <1>c, <2>1, <2>2, DaemonFrame
       DEF UnlinkFirst, AliveInv, Settled, Rising, Falling, Fits
  <2>4. PortInv'
    BY <1>7, <1>b, <1>c, <2>1 DEF UnlinkFirst, PortInv
  <2> QED
    BY <1>b, <2>2, <2>3, <2>4 DEF InTurn
<1>8. ASSUME NEW d \in Pid, Killed(d) PROVE InTurn' /\ AliveInv' /\ PortInv'
  <2>1. /\ daemon'[d].pc = "dead" /\ daemon'[d].ver = daemon[d].ver
        /\ daemon'[d].term = daemon[d].term /\ daemon'[d].port = daemon[d].port
        /\ \A e \in Pid : e # d => daemon'[e] = daemon[e]
    BY <1>8, DaemonGoes DEF Killed, DaemonPc
  <2>2. IsAlive(d) /\ UNCHANGED <<cmd, plan>>
    BY <1>8 DEF Killed, IsAlive
  <2>3. AliveInv'
    BY <1>8, <1>b, <1>c, <2>1, <2>2, DaemonFrame
       DEF Killed, AliveInv, Settled, Rising, Falling, Fits, Release
  <2>4. PortInv'
    BY <1>8, <1>b, <1>c, <2>1 DEF Killed, PortInv, Release, IsAlive
  <2> QED
    BY <1>b, <2>2, <2>3, <2>4 DEF InTurn
<1>9. ASSUME NEW c \in Commands, BeginRun(c) PROVE InTurn' /\ AliveInv' /\ PortInv'
  <2>1. /\ cmd'[c].pc = IF pidfile # None /\ ~IsAlive(pidfile) THEN "unlink" ELSE "probe"
        /\ \A b \in Commands : b # c => cmd'[b] = cmd[b]
    BY <1>9, CmdGoes DEF BeginRun, CmdPc
  <2>2. /\ UNCHANGED <<daemon, port, schema, plan>>
        /\ Busy(c) \/ (MayBegin(c) /\ ~plan.overlap)
    BY <1>9, <1>b DEF BeginRun, Busy
  <2>3. AliveInv'
    <3>1. MayBegin(c) /\ mixed' = (mixed \/ Elsewhere(c)) /\ UNCHANGED pidfile
      BY <1>9 DEF BeginRun
    <3>2. \A d \in Pid : IsAlive(d) => Settled(d)
      BY <1>b, <3>1, NobodyBusy, WhoLivesAlone
    <3>3. \A d \in Pid : IsAlive(d) => daemon[d].port = Want(c).port
      BY <1>b, <3>1 DEF Elsewhere
    <3>4. \A d \in Pid : IsAlive(d) => cmd'[c].pc = "probe"
      BY <2>1, <3>2 DEF Settled
    <3>5. \A d \in Pid : IsAlive(d) => Settled(d)'
      BY <2>2, <3>1, <3>2 DEF Settled
    <3> QED
      BY <1>b, <2>1, <2>2, <3>3, <3>4, <3>5, CommandFrame DEF Sure
  <2>4. InTurn'
    BY <1>b, <2>1, <2>2, TurnKept
  <2> QED
    BY <1>b, <2>2, <2>3, <2>4 DEF PortInv
<1>10. ASSUME NEW c \in Commands, UnlinkStale(c) PROVE InTurn' /\ AliveInv' /\ PortInv'
  <2>1. /\ cmd'[c].pc = "probe"
        /\ \A b \in Commands : b # c => cmd'[b] = cmd[b]
    BY <1>10, CmdGoes DEF UnlinkStale, CmdPc
  <2>2. /\ UNCHANGED <<daemon, port, schema, plan>>
        /\ Busy(c) \/ (MayBegin(c) /\ ~plan.overlap)
    BY <1>10, <1>b DEF UnlinkStale, Busy
  <2>3. AliveInv'
    BY <1>10, <1>b, <1>c, <2>1, <2>2, CommandFrame, WhoLives, WhoLivesAlone, NobodyBusy
       DEF UnlinkStale, Settled, Rising, Sure, Busy
  <2>4. InTurn'
    BY <1>b, <2>1, <2>2, TurnKept
  <2> QED
    BY <1>b, <2>2, <2>3, <2>4 DEF PortInv
<1>11. ASSUME NEW c \in Commands, ProbeFree(c) PROVE InTurn' /\ AliveInv' /\ PortInv'
  <2>1. /\ cmd'[c].pc = "spawn"
        /\ \A b \in Commands : b # c => cmd'[b] = cmd[b]
    BY <1>11, CmdGoes DEF ProbeFree, CmdPc
  <2>2. /\ UNCHANGED <<daemon, port, schema, plan>>
        /\ Busy(c) \/ (MayBegin(c) /\ ~plan.overlap)
    BY <1>11, <1>b DEF ProbeFree, Busy
  <2>3. AliveInv'
    BY <1>11, <1>b, <1>c, <2>1, <2>2, CommandFrame, WhoLives, WhoLivesAlone, NobodyBusy
       DEF ProbeFree, Server, Settled, Rising, Sure, Busy
  <2>4. InTurn'
    BY <1>b, <2>1, <2>2, TurnKept
  <2> QED
    BY <1>b, <2>2, <2>3, <2>4 DEF PortInv
<1>12. ASSUME NEW c \in Commands, ProbeMatch(c) PROVE InTurn' /\ AliveInv' /\ PortInv'
  <2>1. /\ cmd'[c].pc = "done"
        /\ \A b \in Commands : b # c => cmd'[b] = cmd[b]
    BY <1>12, CmdFinishes DEF ProbeMatch, Result, CmdRec
  <2>2. /\ UNCHANGED <<daemon, port, schema, plan>>
        /\ Busy(c) \/ (MayBegin(c) /\ ~plan.overlap)
    BY <1>12, <1>b DEF ProbeMatch, Busy
  <2>3. AliveInv'
    BY <1>12, <1>b, <1>c, <2>1, <2>2, CommandFrame, WhoLives, WhoLivesAlone, NobodyBusy
       DEF ProbeMatch, Settled, Rising, Sure, Busy
  <2>4. InTurn'
    BY <1>b, <2>1, <2>2, TurnKept
  <2> QED
    BY <1>b, <2>2, <2>3, <2>4 DEF PortInv
<1>13. ASSUME NEW c \in Commands, ProbeMismatch(c) PROVE InTurn' /\ AliveInv' /\ PortInv'
  <2>1. /\ cmd'[c].pc = "replace"
        /\ \A b \in Commands : b # c => cmd'[b] = cmd[b]
    BY <1>13, CmdGoes DEF ProbeMismatch, CmdPc
  <2>2. /\ UNCHANGED <<daemon, port, schema, plan>>
        /\ Busy(c) \/ (MayBegin(c) /\ ~plan.overlap)
    BY <1>13, <1>b DEF ProbeMismatch, Busy
  <2>3. AliveInv'
    BY <1>13, <1>b, <1>c, <2>1, <2>2, CommandFrame, WhoLives, WhoLivesAlone, NobodyBusy
       DEF ProbeMismatch, Settled, Rising, Sure, Busy
  <2>4. InTurn'
    BY <1>b, <2>1, <2>2, TurnKept
  <2> QED
    BY <1>b, <2>2, <2>3, <2>4 DEF PortInv
<1>14. ASSUME NEW c \in Commands, ProbeForeign(c) PROVE InTurn' /\ AliveInv' /\ PortInv'
  <2>1. /\ cmd'[c].pc = "done"
        /\ \A b \in Commands : b # c => cmd'[b] = cmd[b]
    BY <1>14, CmdFinishes DEF ProbeForeign, Result
  <2>2. /\ UNCHANGED <<daemon, port, schema, plan>>
        /\ Busy(c) \/ (MayBegin(c) /\ ~plan.overlap)
    BY <1>14, <1>b DEF ProbeForeign, Busy
  <2>3. AliveInv'
    BY <1>14, <1>b, <1>c, <2>1, <2>2, CommandFrame, WhoLives, WhoLivesAlone, NobodyBusy
       DEF ProbeForeign, Settled, Rising, Sure, Busy
  <2>4. InTurn'
    BY <1>b, <2>1, <2>2, TurnKept
  <2> QED
    BY <1>b, <2>2, <2>3, <2>4 DEF PortInv
<1>15. ASSUME NEW c \in Commands, SeesItDead(c) PROVE InTurn' /\ AliveInv' /\ PortInv'
  <2>1. /\ cmd'[c].pc = "clear"
        /\ \A b \in Commands : b # c => cmd'[b] = cmd[b]
    BY <1>15, CmdGoes DEF SeesItDead, CmdPc
  <2>2. /\ UNCHANGED <<daemon, port, schema, plan>>
        /\ Busy(c) \/ (MayBegin(c) /\ ~plan.overlap)
    BY <1>15, <1>b DEF SeesItDead, Busy
  <2>3. AliveInv'
    BY <1>15, <1>b, <1>c, <2>1, <2>2, CommandFrame, WhoLives, WhoLivesAlone, NobodyBusy
       DEF SeesItDead, Settled, Rising, Sure, Busy
  <2>4. InTurn'
    BY <1>b, <2>1, <2>2, TurnKept
  <2> QED
    BY <1>b, <2>2, <2>3, <2>4 DEF PortInv
<1>16. ASSUME NEW c \in Commands, CleanupPidFile(c) PROVE InTurn' /\ AliveInv' /\ PortInv'
  <2>1. /\ cmd'[c].pc \in {"spawn", "done"}
        /\ \A b \in Commands : b # c => cmd'[b] = cmd[b]
    BY <1>16, CmdGoes, CmdFinishes DEF CleanupPidFile, CmdPc, Result
  <2>2. /\ UNCHANGED <<daemon, port, schema, plan>>
        /\ Busy(c) \/ (MayBegin(c) /\ ~plan.overlap)
    BY <1>16, <1>b DEF CleanupPidFile, Busy
  <2>3. AliveInv'
    BY <1>16, <1>b, <1>c, <2>1, <2>2, CommandFrame, WhoLives, WhoLivesAlone, NobodyBusy
       DEF CleanupPidFile, Settled, Rising, Sure, Busy
  <2>4. InTurn'
    BY <1>b, <2>1, <2>2, TurnKept
  <2> QED
    BY <1>b, <2>2, <2>3, <2>4 DEF PortInv
<1>17. ASSUME NEW c \in Commands, PollMatch(c) PROVE InTurn' /\ AliveInv' /\ PortInv'
  <2>1. /\ cmd'[c].pc = "done"
        /\ \A b \in Commands : b # c => cmd'[b] = cmd[b]
    BY <1>17 DEF PollMatch, CmdRec
  <2>2. /\ UNCHANGED <<daemon, port, schema, plan>>
        /\ Busy(c) \/ (MayBegin(c) /\ ~plan.overlap)
    BY <1>17, <1>b DEF PollMatch, Busy
  <2>3. AliveInv'
    <3>1. Server(c) \in Pid /\ IsAlive(Server(c))
      BY <1>17, <1>c DEF PollMatch, Answers, Server, IsAlive
    <3>a. daemon[Server(c)].pc = "up"
      BY <1>17 DEF PollMatch, Answers
    <3>2. cmd[c].pc = "poll" /\ Busy(c)
      BY <1>17 DEF PollMatch, Busy
    <3>3. \A d \in Pid : IsAlive(d) => d = Server(c) /\ Rising(d)
      BY <1>b, <3>1, <3>2, WhoLives DEF Sure, AliveInv
    <3>4. pidfile' = pidfile
      BY <1>17 DEF PollMatch
    <3>5. \A d \in Pid : IsAlive(d) => Settled(d)'
      BY <2>2, <3>1, <3>a, <3>3, <3>4 DEF Rising, Settled
    <3> QED
      BY <1>b, <2>1, <2>2, <3>5, CommandFrame DEF Sure
  <2>4. InTurn'
    BY <1>b, <2>1, <2>2, TurnKept
  <2> QED
    BY <1>b, <2>2, <2>3, <2>4 DEF PortInv
<1>18. ASSUME NEW c \in Commands, PollTimesOut(c) PROVE InTurn' /\ AliveInv' /\ PortInv'
  <2>1. /\ cmd'[c].pc = "done"
        /\ \A b \in Commands : b # c => cmd'[b] = cmd[b]
    BY <1>18, CmdFinishes DEF PollTimesOut, Result
  <2>2. /\ UNCHANGED <<daemon, port, schema, plan>>
        /\ Busy(c) \/ (MayBegin(c) /\ ~plan.overlap)
    BY <1>18, <1>b DEF PollTimesOut, Busy
  <2>3. AliveInv'
    BY <1>18, <1>b, <1>c, <2>1, <2>2, CommandFrame, WhoLives, WhoLivesAlone, NobodyBusy
       DEF PollTimesOut, Settled, Rising, Sure, Busy
  <2>4. InTurn'
    BY <1>b, <2>1, <2>2, TurnKept
  <2> QED
    BY <1>b, <2>2, <2>3, <2>4 DEF PortInv
<1>19. ASSUME NEW c \in Commands, BeginClean(c) PROVE InTurn' /\ AliveInv' /\ PortInv'
  <2>1. /\ cmd'[c].pc = IF IsAlive(pidfile) THEN "done" ELSE "delete"
        /\ \A b \in Commands : b # c => cmd'[b] = cmd[b]
    BY <1>19, CmdGoes, CmdFinishes DEF BeginClean, CmdPc, Result
  <2>2. /\ UNCHANGED <<daemon, port, schema, plan>>
        /\ Busy(c) \/ (MayBegin(c) /\ ~plan.overlap)
    BY <1>19, <1>b DEF BeginClean, Busy
  <2>3. AliveInv'
    BY <1>19, <1>b, <1>c, <2>1, <2>2, CommandFrame, WhoLives, WhoLivesAlone, NobodyBusy
       DEF BeginClean, Settled, Rising, Sure, Busy
  <2>4. InTurn'
    BY <1>b, <2>1, <2>2, TurnKept
  <2> QED
    BY <1>b, <2>2, <2>3, <2>4 DEF PortInv
<1>20. ASSUME NEW c \in Commands, RunClean(c) PROVE InTurn' /\ AliveInv' /\ PortInv'
  <2>1. /\ cmd'[c].pc = "done"
        /\ \A b \in Commands : b # c => cmd'[b] = cmd[b]
    BY <1>20, CmdFinishes DEF RunClean, Result
  <2>2. /\ UNCHANGED <<daemon, port, schema, plan>>
        /\ Busy(c) \/ (MayBegin(c) /\ ~plan.overlap)
    BY <1>20, <1>b DEF RunClean, Busy
  <2>3. AliveInv'
    BY <1>20, <1>b, <1>c, <2>1, <2>2, CommandFrame, WhoLives, WhoLivesAlone, NobodyBusy
       DEF RunClean, Settled, Rising, Sure, Busy
  <2>4. InTurn'
    BY <1>b, <2>1, <2>2, TurnKept
  <2> QED
    BY <1>b, <2>2, <2>3, <2>4 DEF PortInv
<1>21. ASSUME NEW c \in Commands, StopExisting(c) \/ BeginStop(c) PROVE InTurn' /\ AliveInv' /\ PortInv'
  <2>1. /\ \A b \in Commands : b # c => cmd'[b] = cmd[b]
        /\ \/ cmd'[c].pc \in {"clear", "done"} /\ UNCHANGED daemon /\ ~IsAlive(pidfile)
           \/ cmd'[c].pc = "wait" /\ cmd'[c].pid = pidfile /\ IsAlive(pidfile) /\ SigTerm(pidfile)
    BY <1>21, CmdGoes, CmdFinishes DEF StopExisting, BeginStop, SignalNamed, IsAlive, CmdPc,
                                       CmdRec, Result
  <2>2. /\ UNCHANGED <<port, pidfile, schema, plan>>
        /\ Busy(c) \/ (MayBegin(c) /\ ~plan.overlap)
        /\ Busy(c) => cmd[c].pc = "replace"
    BY <1>21, <1>b DEF StopExisting, BeginStop, Busy, MayBegin
  <2>3. \A d \in Pid : IsAlive(d) => Settled(d)
    BY <1>b, <2>2, WhoLives, WhoLivesAlone, NobodyBusy
  <2>4. InTurn'
    BY <1>b, <2>1, <2>2, TurnKept
  <2>5. CASE UNCHANGED daemon /\ ~IsAlive(pidfile) /\ cmd'[c].pc \in {"clear", "done"}
    <3>1. \A d \in Pid : ~IsAlive(d)
      BY <2>3, <2>5 DEF Settled
    <3> QED
      BY <1>b, <2>1, <2>2, <2>4, <2>5, <3>1, CommandFrame DEF PortInv
  <2>6. CASE cmd'[c].pc = "wait" /\ cmd'[c].pid = pidfile /\ IsAlive(pidfile) /\ SigTerm(pidfile)
    <3>1. pidfile \in Pid /\ Settled(pidfile)
      BY <1>c, <2>3, <2>6 DEF IsAlive
    <3>2. /\ daemon'[pidfile].pc = daemon[pidfile].pc /\ daemon'[pidfile].ver = daemon[pidfile].ver
          /\ daemon'[pidfile].port = daemon[pidfile].port
          /\ \A e \in Pid : e # pidfile => daemon'[e] = daemon[e]
      BY <2>6, <3>1, DaemonSignalled
    <3>3. \A d \in Pid : IsAlive(d)' => d = pidfile
      BY <1>b, <2>6, <3>1, <3>2 DEF IsAlive, AliveInv
    <3>4. Falling(pidfile)' /\ Fits(pidfile)'
      BY <1>b, <2>2, <2>6, <3>1, <3>2 DEF Falling, Settled, Fits, AliveInv
    <3>a. \A b \in Commands : cmd'[b].pc # "probe"
      BY <1>b, <2>1, <2>2, <2>6, OneBusy, NobodyBusy DEF Busy
    <3>5. \A b \in Commands : b # c => ~Busy(b)
      BY <1>b, <2>2, OneBusy, NobodyBusy
    <3>6. \A b \in Commands : cmd'[b].pc \notin Sure
      BY <2>1, <2>6, <3>5 DEF Busy, Sure
    <3>7. AliveInv'
      BY <2>2, <2>6, <3>3, <3>4, <3>6, <3>a DEF AliveInv, Falling, Fits
    <3>8. PortInv'
      BY <1>b, <1>c, <2>2, <3>1, <3>2 DEF PortInv, Settled
    <3> QED
      BY <2>4, <3>7, <3>8
  <2> QED
    BY <2>1, <2>5, <2>6
<1>22. ASSUME NEW c \in Commands, GraceExpires(c) PROVE InTurn' /\ AliveInv' /\ PortInv'
  <2>1. /\ cmd'[c].pc \in {"reap", "clear"}
        /\ \A b \in Commands : b # c => cmd'[b] = cmd[b]
    BY <1>22, CmdGoes DEF GraceExpires, CmdPc
  <2>2. Busy(c) /\ cmd[c].pc = "wait" /\ cmd[c].pid \in Pid /\ IsAlive(cmd[c].pid)
    BY <1>22 DEF GraceExpires, Busy, IsAlive
  <2>3. /\ daemon'[cmd[c].pid].pc = "dead"
        /\ \A e \in Pid : e # cmd[c].pid => daemon'[e] = daemon[e]
    BY <1>22, <2>2, DaemonGoes DEF GraceExpires, DaemonPc
  <2>4. \A d \in Pid : IsAlive(d) => d = cmd[c].pid
    BY <1>b, <2>2 DEF AliveInv
  <2>5. \A d \in Pid : ~IsAlive(d)'
    BY <2>3, <2>4 DEF IsAlive
  <2>6. AliveInv'
    BY <2>5 DEF AliveInv
  <2>7. \A p \in Ports : port'[p] = None
    BY <1>22, <1>b, <1>c, <2>4 DEF GraceExpires, Release, PortInv, IsAlive
  <2> QED
    BY <1>b, <2>1, <2>2, <2>6, <2>7, TurnKept DEF PortInv
<1>23. ASSUME NEW c \in Commands, Spawn(c) PROVE InTurn' /\ AliveInv' /\ PortInv'
  <2>1. PICK p \in Pid : p = born + 1
    BY <1>23 DEF Spawn, TypeOK, Pid
  <2>2. /\ cmd'[c].pc = "poll" /\ cmd'[c].pid = p
        /\ \A b \in Commands : b # c => cmd'[b] = cmd[b]
    BY <1>23, <2>1 DEF Spawn, CmdRec
  <2>3. /\ daemon'[p].pc = "boot" /\ ~daemon'[p].term
        /\ \A e \in Pid : e # p => daemon'[e] = daemon[e]
    BY <1>23, <2>1 DEF Spawn, DaemonRec
  <2>4. Busy(c) /\ cmd[c].pc = "spawn" /\ UNCHANGED <<port, schema>>
    BY <1>23 DEF Spawn, Busy
  <2>5. \A d \in Pid : ~IsAlive(d)
    BY <1>b, <2>4 DEF AliveInv, Sure
  <2>6. \A q \in Ports : port[q] = None
    BY <1>b, <1>c, <2>5 DEF PortInv, IsAlive
  <2>7. \A d \in Pid : IsAlive(d)' => d = p
    BY <2>3, <2>5 DEF IsAlive
  <2>8. \A b \in Commands : b # c => ~Busy(b)
    BY <1>b, <2>4, OneBusy
  <2>9. \A b \in Commands : cmd'[b].pc \notin Sure
    BY <2>2, <2>8 DEF Busy, Sure
  <2>10. Rising(p)' /\ Fits(p)'
    BY <2>3 DEF Rising, Fits
  <2>12. \A b \in Commands : cmd'[b].pc # "probe"
    BY <2>2, <2>8 DEF Busy
  <2>11. AliveInv'
    BY <2>2, <2>7, <2>9, <2>10, <2>12 DEF AliveInv, Rising, Fits
  <2> QED
    BY <1>b, <2>2, <2>4, <2>6, <2>11, TurnKept DEF PortInv
<1>24. CASE UNCHANGED vars
  BY <1>24, <1>b DEF vars, InTurn, AliveInv, PortInv, IsAlive, Settled, Rising, Falling, Fits, Want
<1> QED
  BY <1>1, <1>2, <1>3, <1>4, <1>5, <1>6, <1>7, <1>8, <1>9, <1>10, <1>11, <1>12, <1>13,
     <1>14, <1>15, <1>16, <1>17, <1>18, <1>19, <1>20, <1>21, <1>22, <1>23, <1>24 DEF Next, DaemonStep, CommandStep

-----------------------------------------------------------------------------
(* The theorems. *)

LEMMA InitInv == Init => IInv
<1> SUFFICES ASSUME Init PROVE IInv
  OBVIOUS
<1>1. TypeOK
  <2>1. 0 \in 0 .. MaxDaemons
    BY CommandsAssumption
  <2>2. plan.schema \in {0} \cup Version
    BY PlansAssumption DEF Init
  <2>3. cmd \in [Commands -> CmdRec]
    BY DEF Init, CmdRec, CmdPc, Result, None
  <2>4. daemon \in [Pid -> DaemonRec]
    <3>1. 1 \in Version /\ "a" \in Upstream /\ "unborn" \in DaemonPc
      BY DEF Version, Upstream, DaemonPc
    <3>2. [pc |-> "unborn", ver |-> 1, up |-> "a", port |-> DefaultPort, saw |-> 0, term |-> FALSE] \in DaemonRec
      BY <3>1, PortsAssumption DEF DaemonRec
    <3> QED
      BY <3>2 DEF Init
  <2>5. port \in [Ports -> {None} \cup Pid] /\ pidfile \in {None} \cup Pid
    BY DEF Init
  <2>6. born = 0 /\ schema = plan.schema /\ plan \in Plans /\ left \subseteq plan.faults /\ mixed \in BOOLEAN
    BY DEF Init
  <2> QED
    BY <2>1, <2>2, <2>3, <2>4, <2>5, <2>6 DEF TypeOK, CmdRec, DaemonRec
<1>2. OrderInv
  BY DEF Init, OrderInv, InTurn, AliveInv, PortInv, IsAlive
<1> QED
  BY <1>1, <1>2 DEF IInv

LEMMA StepInv == IInv /\ [Next]_vars => IInv'
BY TypeStep, OrderStep DEF IInv

LEMMA Invariant == Spec => []IInv
BY InitInv, StepInv, PTL DEF Spec

(* The database is never migrated under the daemon that serves it, whatever      *)
(* sequence of run, stop and clean, of versions, ports and crashes                *)
(* (daemon-control.ts, migrate in db.ts), while one command runs at a time, the    *)
(* port changes only after the daemon is gone, and none is late or shuts down      *)
(* unasked.                                                                        *)
THEOREM SchemaFits == Spec => []SchemaFitsTheServer
<1>1. IInv => SchemaFitsTheServer
  <2> SUFFICES ASSUME IInv, Orderly, NEW p \in Ports, port[p] # None PROVE schema = daemon[port[p]].ver
    BY DEF IInv, SchemaFitsTheServer, ServersFit
  <2>1. port[p] \in Pid /\ AliveInv /\ daemon[port[p]].pc \in {"listen", "naked", "up"}
    BY DEF IInv, OrderInv, PortInv, TypeOK
  <2> QED
    BY <2>1, Fields DEF IInv, AliveInv, Fits, IsAlive
<1> QED
  BY <1>1, Invariant, PTL

(* stop and clean, which go by the pid file, never report or assume that no        *)
(* daemon runs while one has a port, in the same circumstances.                  *)
THEOREM Overlooks == Spec => OverlooksNobody
<1>1. IInv /\ [Next]_vars
        => [\A c \in Commands :
              Orderly /\ cmd[c].result = "none" /\ cmd'[c].result \in {"not_running", "stopped", "cleaned"}
                => \A p \in Ports : port[p] = None]_vars
  <2> SUFFICES ASSUME IInv, Next, Orderly, NEW c \in Commands, cmd[c].result = "none",
                      cmd'[c].result \in {"not_running", "stopped", "cleaned"}
               PROVE  \A p \in Ports : port[p] = None
    BY DEF vars
  <2> USE Fields
  <2>1. TypeOK /\ InTurn /\ AliveInv /\ PortInv /\ ~plan.overlap
        /\ port \in [Ports -> {None} \cup Pid]
    BY DEF IInv, OrderInv, Orderly, KeptApart, TypeOK
  <2> SUFFICES \A d \in Pid : ~IsAlive(d)
    BY <2>1 DEF PortInv, IsAlive
  <2>2. cmd' # cmd
    OBVIOUS
  <2>3. PICK b \in Commands : CommandStep(b)
    BY <2>2 DEF Next, DaemonStep, Boot, Migrate, StartServer, WritePidFile, InstallHandlers,
                ShutDown,
                UnlinkFirst, Killed
  <2>4. CASE CleanupPidFile(b) \/ RunClean(b)
    BY <2>1, <2>4 DEF CleanupPidFile, RunClean, AliveInv, Sure
  <2>5. CASE BeginStop(b)
    <3>1. CASE pidfile = None
      <4>1. InTurn /\ AliveInv /\ ~plan.overlap /\ MayBegin(b)
        BY <2>1, <2>5 DEF BeginStop
      <4>2. \A a \in Commands : ~Busy(a)
        BY <4>1, NobodyBusy
      <4>3. \A d \in Pid : IsAlive(d) => Settled(d)
        BY <4>1, <4>2, WhoLivesAlone
      <4>4. None \notin Pid
        BY <2>1
      <4> QED
        BY <3>1, <4>3, <4>4 DEF Settled
    <3>2. CASE pidfile # None
      <4>1. cmd'[b].result = cmd[b].result /\ \A a \in Commands : a # b => cmd'[a] = cmd[a]
        BY <2>1, <2>5, <3>2, CmdGoes DEF BeginStop, SignalNamed, CmdPc, CmdRec
      <4> QED
        BY <4>1
    <3> QED
      BY <3>1, <3>2
  <2>6. CASE \/ BeginRun(b) \/ UnlinkStale(b) \/ ProbeFree(b) \/ ProbeMismatch(b) \/ StopExisting(b)
             \/ SeesItDead(b) \/ GraceExpires(b) \/ Spawn(b)
    <3>1. cmd'[b].result = cmd[b].result /\ \A a \in Commands : a # b => cmd'[a] = cmd[a]
      BY <2>1, <2>6, CmdGoes DEF BeginRun, UnlinkStale, ProbeFree, ProbeMismatch, StopExisting,
                                 SignalNamed,
                                 SeesItDead, GraceExpires, Spawn, CmdPc, CmdRec
    <3> QED
      BY <3>1
  <2>7. CASE ProbeMatch(b) \/ ProbeForeign(b) \/ PollMatch(b) \/ PollTimesOut(b) \/ BeginClean(b)
    <3>1. /\ cmd'[b].result \in {"ok", "error", "refused", cmd[b].result}
          /\ \A a \in Commands : a # b => cmd'[a] = cmd[a]
      BY <2>1, <2>7, CmdGoes, CmdFinishes
         DEF ProbeMatch, ProbeForeign, PollMatch, PollTimesOut, BeginClean, CmdPc, CmdRec, Result
    <3> QED
      BY <3>1
  <2> QED
    BY <2>3, <2>4, <2>5, <2>6, <2>7 DEF CommandStep
<1> QED
  BY <1>1, Invariant, PTL DEF OverlooksNobody, Spec

-----------------------------------------------------------------------------
(* Conversation *)

(* The types of the rows of a conversation. *)
Classes == {"in_flight", "closed_forkable", "open", "dangling_unforkable"}
RevRec == [kind : Kind, parent : Nat, class : Classes, created : Nat, sealed : Nat,
           body : Body, spliced : BOOLEAN]
ViewRec == [head : Nat, origin : Nat, label : {"null", "L"}, bookmark : BOOLEAN, live : BOOLEAN]
AnchorRec == [id : Nat, base : Body, fork : Nat, r1 : Nat, at : Nat,
              sr : {"gone", "bare", "deferred"}, kind : {"rewind", "submit"}]
LocalRec == [turn : Nat, tok : Nat]
DumpRec == [of : Nat, msgs : Body, fork : BOOLEAN]

HistoryShape ==
  /\ rev \in Seq(RevRec) /\ Len(rev) <= MaxRevisions
  /\ now \in Nat /\ forks \in Nat /\ pend \in 0 .. forks
  /\ views \in Seq(ViewRec) /\ anchor \in AnchorRec
  /\ local \in Seq(LocalRec) /\ dump \in DumpRec
  /\ pair \subseteq {"rewind", "submit"} /\ used \subseteq {"rewind", "submit", "other"}
  /\ phase \in {"typing", "tool", "result"} /\ habit \in Habits

(* A row is sealed when it leaves its flight, and its parent was sealed before *)
(* it began; a marker's parent began before the rewind was asked for.          *)
PastOf(r, p) ==
  IF rev[r].kind = "sr" THEN rev[p].created < rev[r].sealed
  ELSE rev[p].sealed # 0 /\ rev[p].sealed <= rev[r].created
GoodRow(r) ==
  /\ rev[r].parent \in {Nil} \cup Rows
  /\ rev[r].created \in 1 .. now /\ rev[r].sealed \in 0 .. now
  /\ rev[r].class = "in_flight" <=> rev[r].sealed = 0
  /\ rev[r].kind = "models" => ~rev[r].spliced
  /\ rev[r].kind = "sr" => rev[r].sealed # 0
  /\ rev[r].parent # Nil => PastOf(r, rev[r].parent)
HistoryRows == \A r \in Rows : GoodRow(r)

ViewRefs == \A v \in DOMAIN views : views[v].head \in Rows /\ views[v].origin \in Rows
LocalRefs == \A i \in DOMAIN local : local[i].turn \in Rows /\ local[i].tok \in 0 .. forks
DumpRef == dump.of \in {Nil} \cup Rows
HistoryRefs == ViewRefs /\ LocalRefs /\ DumpRef

(* The active anchor is at a sealed row; a departure that is still to be       *)
(* recorded has room for its marker.                                           *)
AnchorRefs ==
  /\ anchor.id \in 0 .. forks /\ anchor.fork \in {Nil} \cup Rows
  /\ anchor.id # Nil => anchor.fork \in Rows /\ rev[anchor.fork].sealed # 0
  /\ anchor.sr # "gone" =>
       /\ anchor.id # Nil /\ anchor.at \in 1 .. now
       /\ anchor.r1 \in {Nil} \cup Rows
       /\ anchor.r1 # Nil => rev[anchor.r1].created < anchor.at
MarkerRoom ==
  anchor.sr = "deferred" \/ (anchor.sr = "bare" /\ call # Nil /\ rev[call].spliced)
    => Len(rev) < MaxRevisions
HistoryAnchor == AnchorRefs /\ MarkerRoom

HistoryCall ==
  call # Nil => call \in Rows /\ rev[call].sealed = 0 /\ rev[call].kind \notin {"sr", "models"}

HistoryInv == HistoryShape /\ HistoryRows /\ HistoryRefs /\ HistoryAnchor /\ HistoryCall
-----------------------------------------------------------------------------
(* Recursive functions and choices. *)

LEMMA LeastOf ==
  ASSUME NEW T \in SUBSET Nat, T # {}
  PROVE  \E x \in T : \A y \in T : x <= y
<1>1. PICK x \in T : \A y \in T : ~(<<y, x>> \in OpToRel(<, Nat))
  BY NatLessThanWellFounded, WFMin
<1>2. \A y \in T : ~(y < x)
  BY <1>1 DEF OpToRel
<1> QED
  BY <1>2

(* A recursive function on an interval exists and has the type of its step. *)
Iterates(f, n, a, F) == f = [k \in 0 .. n |-> IF k = 0 THEN a ELSE F[f[k - 1]]]

LEMMA OneMore ==
  ASSUME NEW S, NEW a \in S, NEW F \in [S -> S], NEW n \in Nat,
         NEW f \in [0 .. n -> S], Iterates(f, n, a, F)
  PROVE  \E g \in [0 .. n + 1 -> S] : Iterates(g, n + 1, a, F)
<1> DEFINE g == [k \in 0 .. n + 1 |-> IF k = n + 1 THEN F[f[n]] ELSE f[k]]
<1>1. g \in [0 .. n + 1 -> S]
  OBVIOUS
<1>2. \A k \in 0 .. n + 1 : g[k] = IF k = 0 THEN a ELSE F[g[k - 1]]
  <2> TAKE k \in 0 .. n + 1
  <2>1. CASE k = 0
    BY <2>1 DEF Iterates
  <2>2. CASE k \in 1 .. n
    BY <2>2 DEF Iterates
  <2>3. CASE k = n + 1
    BY <2>3
  <2> QED
    BY <2>1, <2>2, <2>3
<1> QED
  <2> HIDE DEF g
  <2> QED
    BY <1>1, <1>2 DEF Iterates

LEMMA Recursion ==
  ASSUME NEW S, NEW a \in S, NEW F \in [S -> S], NEW n \in Nat
  PROVE  \E f \in [0 .. n -> S] : Iterates(f, n, a, F)
<1> DEFINE bad == {m \in Nat : ~ \E f \in [0 .. m -> S] : Iterates(f, m, a, F)}
<1>1. 0 \notin bad
  <2>1. [k \in 0 .. 0 |-> a] \in [0 .. 0 -> S] /\ Iterates([k \in 0 .. 0 |-> a], 0, a, F)
    BY DEF Iterates
  <2> QED
    BY <2>1
<1>2. \A m \in Nat : m \notin bad => m + 1 \notin bad
  BY OneMore
<1>3. bad = {}
  <2> SUFFICES ASSUME bad # {} PROVE FALSE
    OBVIOUS
  <2>1. PICK x \in bad : \A y \in bad : x <= y
    <3>1. bad \in SUBSET Nat
      OBVIOUS
    <3> HIDE DEF bad
    <3> QED
      BY <3>1, LeastOf
  <2>2. x \in Nat /\ x # 0
    BY <1>1
  <2>3. x - 1 \in Nat /\ x - 1 \notin bad
    BY <2>1, <2>2
  <2>4. x \notin bad
    <3> HIDE DEF bad
    <3> QED
      BY <2>2, <2>3, <1>2
  <2> QED
    BY <2>4
<1> QED
  BY <1>3

LEMMA Stays ==
  ASSUME NEW S, NEW n \in Nat, NEW f, f[0] \in S,
         \A k \in 0 .. n - 1 : f[k] \in S => f[k + 1] \in S
  PROVE  \A k \in 0 .. n : f[k] \in S
<1> DEFINE bad == {k \in 0 .. n : f[k] \notin S}
<1> SUFFICES ASSUME bad # {} PROVE FALSE
  OBVIOUS
<1>1. bad \in SUBSET Nat
  OBVIOUS
<1>2. PICK x \in bad : \A y \in bad : x <= y
  <2> HIDE DEF bad
  <2> QED
    BY <1>1, LeastOf
<1>3. x \in 1 .. n
  OBVIOUS
<1>4. x - 1 \notin bad
  BY <1>2, <1>3
<1>5. f[x - 1] \in S /\ x - 1 \in 0 .. n - 1 /\ (x - 1) + 1 = x
  BY <1>3, <1>4
<1> QED
  BY <1>5

(* The stamps of rows, and the rows chosen by them. *)
LEMMA LargestOf ==
  ASSUME NEW T, NEW b \in Nat, NEW f \in [T -> 0 .. b], T # {}
  PROVE  \E r \in T : \A s \in T : f[s] <= f[r]
<1> DEFINE U == {b - f[r] : r \in T}
<1>1. U \in SUBSET Nat /\ U # {}
  OBVIOUS
<1>2. PICK x \in U : \A y \in U : x <= y
  <2> HIDE DEF U
  <2> QED
    BY <1>1, LeastOf
<1>3. PICK r \in T : x = b - f[r]
  OBVIOUS
<1>4. \A s \in T : f[s] \in 0 .. b /\ b - f[r] <= b - f[s]
  BY <1>2, <1>3
<1> QED
  BY <1>4

LEMMA SmallestOf ==
  ASSUME NEW T, NEW f \in [T -> Nat], T # {}
  PROVE  \E r \in T : \A s \in T : f[r] <= f[s]
<1> DEFINE U == {f[r] : r \in T}
<1>1. U \in SUBSET Nat /\ U # {}
  OBVIOUS
<1>2. PICK x \in U : \A y \in U : x <= y
  <2> HIDE DEF U
  <2> QED
    BY <1>1, LeastOf
<1> QED
  BY <1>2

LEMMA RowsAre ==
  ASSUME HistoryShape
  PROVE  /\ Rows = 1 .. Len(rev) /\ Len(rev) \in Nat /\ Nil \notin Rows /\ Rows \subseteq Nat
         /\ \A r \in Rows : rev[r] \in RevRec
BY DEF HistoryShape, Rows, Nil

LEMMA LatestSealed ==
  ASSUME HistoryShape, HistoryRows, NEW T \in SUBSET Rows, T # {}
  PROVE  /\ Latest(T, SealedAt) \in T
         /\ \A s \in T : rev[s].sealed <= rev[Latest(T, SealedAt)].sealed
<1> DEFINE f == [r \in T |-> rev[r].sealed]
<1>1. f \in [T -> 0 .. now] /\ now \in Nat
  BY DEF HistoryShape, HistoryRows, GoodRow
<1>2. \E r \in T : \A s \in T : f[s] <= f[r]
  <2> HIDE DEF f
  <2> QED
    BY <1>1, LargestOf
<1>3. \E r \in T : \A s \in T : SealedAt(s) <= SealedAt(r)
  BY <1>2 DEF SealedAt
<1>4. Latest(T, SealedAt) = CHOOSE r \in T : \A s \in T : SealedAt(s) <= SealedAt(r)
  BY DEF Latest
<1> QED
  BY <1>3, <1>4 DEF SealedAt

LEMMA LatestCreated ==
  ASSUME HistoryShape, HistoryRows, NEW T \in SUBSET Rows, T # {}
  PROVE  Latest(T, CreatedAt) \in T
<1> DEFINE f == [r \in T |-> rev[r].created]
<1>1. f \in [T -> 0 .. now] /\ now \in Nat
  BY DEF HistoryShape, HistoryRows, GoodRow
<1>2. \E r \in T : \A s \in T : f[s] <= f[r]
  <2> HIDE DEF f
  <2> QED
    BY <1>1, LargestOf
<1>3. \E r \in T : \A s \in T : CreatedAt(s) <= CreatedAt(r)
  BY <1>2 DEF CreatedAt
<1> QED
  BY <1>3 DEF Latest

LEMMA EarliestCreated ==
  ASSUME HistoryShape, HistoryRows, NEW T \in SUBSET Rows, T # {}
  PROVE  /\ Earliest(T, CreatedAt) \in T
         /\ \A s \in T : rev[Earliest(T, CreatedAt)].created <= rev[s].created
<1> DEFINE f == [r \in T |-> rev[r].created]
<1>1. f \in [T -> Nat]
  BY DEF HistoryShape, HistoryRows, GoodRow
<1>2. \E r \in T : \A s \in T : f[r] <= f[s]
  <2> HIDE DEF f
  <2> QED
    BY <1>1, SmallestOf
<1>3. \E r \in T : \A s \in T : CreatedAt(r) <= CreatedAt(s)
  BY <1>2 DEF CreatedAt
<1>4. Earliest(T, CreatedAt) = CHOOSE r \in T : \A s \in T : CreatedAt(r) <= CreatedAt(s)
  BY DEF Earliest
<1> QED
  BY <1>3, <1>4 DEF CreatedAt

(* What the walks over the rows come to. *)
LEMMA ChainFacts ==
  ASSUME HistoryShape, HistoryRows, NEW r \in {Nil} \cup Rows
  PROVE  Chain(r) \in [0 .. Len(rev) -> {Nil} \cup Rows]
<1> DEFINE S == {Nil} \cup Rows
           F == [x \in S |-> IF x = Nil THEN Nil ELSE rev[x].parent]
           n == Len(rev)
<1>1. F \in [S -> S] /\ n \in Nat /\ r \in S
  BY RowsAre DEF HistoryRows, GoodRow
<1>2. PICK f \in [0 .. n -> S] : Iterates(f, n, r, F)
  <2> HIDE DEF S, F, n
  <2> QED
    BY <1>1, Recursion
<1>3. f = [k \in 0 .. n |-> IF k = 0 THEN r
                             ELSE IF f[k - 1] = Nil THEN Nil ELSE rev[f[k - 1]].parent]
  <2>1. \A x \in S : F[x] = IF x = Nil THEN Nil ELSE rev[x].parent
    OBVIOUS
  <2>2. \A k \in 0 .. n : k # 0 => f[k - 1] \in S
    BY <1>1
  <2> HIDE DEF S, F
  <2>3. f = [k \in 0 .. n |-> IF k = 0 THEN r ELSE F[f[k - 1]]]
    BY <1>2 DEF Iterates
  <2> QED
    BY <2>1, <2>2, <2>3
<1>4. Chain(r) = [k \in 0 .. n |-> IF k = 0 THEN r
               ELSE IF Chain(r)[k - 1] = Nil THEN Nil ELSE rev[Chain(r)[k - 1]].parent]
  <2> HIDE DEF S, F
  <2> QED
    BY <1>3 DEF Chain
<1>5. PICK c : c = Chain(r)
  OBVIOUS
<1>6. c = [k \in 0 .. n |-> IF k = 0 THEN r ELSE IF c[k - 1] = Nil THEN Nil ELSE rev[c[k - 1]].parent]
  BY <1>4, <1>5
<1>7. c[0] \in S /\ \A k \in 0 .. n - 1 : c[k] \in S => c[k + 1] \in S
  <2>1. c[0] = r
    BY <1>1, <1>6
  <2>2. \A k \in 0 .. n - 1 : c[k + 1] = IF c[k] = Nil THEN Nil ELSE rev[c[k]].parent
    <3> TAKE k \in 0 .. n - 1
    <3>1. k + 1 \in 0 .. n /\ k + 1 # 0 /\ (k + 1) - 1 = k
      BY <1>1
    <3> QED
      BY <1>6, <3>1
  <2> QED
    BY <2>1, <2>2, RowsAre DEF HistoryRows, GoodRow
<1>8. \A k \in 0 .. n : c[k] \in S
  <2> HIDE DEF S, F, n
  <2> QED
    BY <1>1, <1>7, Stays
<1>9. c \in [0 .. n -> S]
  <2> HIDE DEF S, n
  <2> QED
    BY <1>6, <1>8
<1> QED
  BY <1>5, <1>9
LEMMA NthBack ==
  ASSUME HistoryShape, HistoryRows, NEW r \in Rows, NEW n
  PROVE  LET p == NthForkableBack(r, n) IN p = Nil \/ (p \in Rows /\ Forkable(p))
<1> DEFINE c == Chain(r)
           back == {k \in 1 .. Len(rev) : c[k] # Nil /\ Forkable(c[k])}
           nth == {k \in back : Cardinality({j \in back : j <= k}) = n}
<1>1. \A k \in 0 .. Len(rev) : c[k] \in {Nil} \cup Rows
  BY ChainFacts
<1>2. \A k \in nth : c[k] \in Rows /\ Forkable(c[k])
  <2>1. \A k \in nth : k \in 0 .. Len(rev) /\ c[k] # Nil /\ Forkable(c[k])
    BY RowsAre
  <2> HIDE DEF c, nth
  <2> QED
    BY <1>1, <2>1
<1>3. NthForkableBack(r, n) = IF nth = {} THEN Nil ELSE c[CHOOSE k \in nth : TRUE]
  BY DEF NthForkableBack
<1> HIDE DEF c, nth
<1>4. nth # {} => (CHOOSE k \in nth : TRUE) \in nth
  OBVIOUS
<1> QED
  BY <1>2, <1>3, <1>4

LEMMA HeadFacts ==
  ASSUME HistoryShape, HistoryRows
  PROVE  EffectiveHead \in {Nil} \cup Rows
<1> DEFINE c == Chain(MostRecentRevision)
           settled == {k \in 0 .. Len(rev) :
                    /\ c[k] # Nil
                    /\ rev[c[k]].class \notin {"open", "in_flight"}
                    /\ rev[c[k]].class = "closed_forkable" => rev[c[k]].kind # "inject"}
<1>1. MostRecentRevision \in {Nil} \cup Rows
  BY LatestCreated DEF MostRecentRevision, Latest
<1>2. c \in [0 .. Len(rev) -> {Nil} \cup Rows]
  BY <1>1, ChainFacts
<1>3. settled \in SUBSET Nat /\ settled \subseteq 0 .. Len(rev)
  BY RowsAre
<1>4. EffectiveHead = IF settled = {} THEN Nil
                      ELSE c[CHOOSE k \in settled : \A j \in settled : k <= j]
  BY DEF EffectiveHead
<1> HIDE DEF c, settled
<1>5. settled # {} => (CHOOSE k \in settled : \A j \in settled : k <= j) \in settled
  BY <1>3, LeastOf
<1> QED
  BY <1>2, <1>3, <1>4, <1>5

LEMMA TargetFacts ==
  ASSUME HistoryShape, HistoryRows, NEW n
  PROVE  Target(n) = Nil \/ (Target(n) \in Rows /\ rev[Target(n)].sealed # 0)
<1>1. CASE EffectiveHead = Nil
  BY <1>1 DEF Target
<1>2. CASE EffectiveHead # Nil
  <2>1. EffectiveHead \in Rows
    BY <1>2, HeadFacts
  <2>2. Target(n) = NthForkableBack(EffectiveHead, n)
    BY <1>2 DEF Target
  <2>3. Target(n) = Nil \/ (Target(n) \in Rows /\ Forkable(Target(n)))
    BY <2>1, <2>2, NthBack
  <2> QED
    BY <2>3 DEF Forkable, HistoryRows, GoodRow
<1> QED
  BY <1>1, <1>2

LEMMA NamedFacts ==
  ASSUME HistoryShape, HistoryRows, NEW t \in Rows
  PROVE  Named(t) = Nil \/ (Named(t) \in Rows /\ rev[Named(t)].sealed # 0)
BY DEF Named, HistoryRows, GoodRow

LEMMA MostRecentFacts ==
  ASSUME HistoryShape, HistoryRows
  PROVE  /\ MostRecentRevision \in {Nil} \cup Rows
         /\ MostRecentForkableRevision = Nil
              \/ (MostRecentForkableRevision \in Rows /\ rev[MostRecentForkableRevision].sealed # 0)
<1>1. MostRecentRevision \in {Nil} \cup Rows
  BY LatestCreated DEF MostRecentRevision, Latest
<1> DEFINE T == {r \in Rows : Forkable(r) /\ Sealed(r)}
<1>2. T # {} => Latest(T, SealedAt) \in T
  BY LatestSealed
<1>3. T = {} => Latest(T, SealedAt) = Nil
  BY DEF Latest
<1> QED
  BY <1>1, <1>2, <1>3 DEF MostRecentForkableRevision, Sealed

(* The first child: the walk over the injections. *)
Offspring(r) == {c \in Rows : rev[c].parent = r}
PlainOf(r) == {c \in Offspring(r) : rev[c].kind # "inject"}
ProbeOf(r) == Earliest(Offspring(r) \ PlainOf(r), CreatedAt)
FirstOr(r, beyond) ==
  IF PlainOf(r) # {} THEN Earliest(PlainOf(r), CreatedAt)
  ELSE IF ProbeOf(r) = Nil \/ beyond = Nil THEN ProbeOf(r) ELSE beyond
Walks(w) ==
  w = [d \in 0 .. Len(rev) |-> [r \in Rows |->
         IF PlainOf(r) # {} THEN Earliest(PlainOf(r), CreatedAt)
         ELSE IF ProbeOf(r) = Nil \/ d = 0 THEN ProbeOf(r)
         ELSE IF w[d - 1][ProbeOf(r)] = Nil THEN ProbeOf(r) ELSE w[d - 1][ProbeOf(r)]]]

LEMMA OffspringFacts ==
  ASSUME HistoryShape, HistoryRows, NEW r \in Rows
  PROVE  /\ ProbeOf(r) \in {Nil} \cup Rows
         /\ \A x \in {Nil} \cup Rows : FirstOr(r, x) \in {Nil} \cup Rows
<1>1. PlainOf(r) \in SUBSET Rows /\ Offspring(r) \ PlainOf(r) \in SUBSET Rows
  BY DEF PlainOf, Offspring
<1>2. ProbeOf(r) \in {Nil} \cup Rows
  <2>1. CASE Offspring(r) \ PlainOf(r) = {}
    BY <2>1 DEF ProbeOf, Earliest
  <2>2. CASE Offspring(r) \ PlainOf(r) # {}
    BY <1>1, <2>2, EarliestCreated DEF ProbeOf
  <2> QED
    BY <2>1, <2>2
<1>3. PlainOf(r) # {} => Earliest(PlainOf(r), CreatedAt) \in Rows
  BY <1>1, EarliestCreated
<1> QED
  BY <1>2, <1>3 DEF FirstOr

LEMMA WalkExists ==
  ASSUME HistoryShape, HistoryRows
  PROVE  \E w : Walks(w)
<1> DEFINE S == [Rows -> {Nil} \cup Rows]
           a == [r \in Rows |-> FirstOr(r, Nil)]
           F == [g \in S |-> [r \in Rows |->
                  FirstOr(r, IF ProbeOf(r) = Nil THEN Nil ELSE g[ProbeOf(r)])]]
           n == Len(rev)
<1>1. a \in S /\ n \in Nat
  BY OffspringFacts, RowsAre
<1>2. F \in [S -> S]
  <2> SUFFICES ASSUME NEW g \in S, NEW r \in Rows
               PROVE  FirstOr(r, IF ProbeOf(r) = Nil THEN Nil ELSE g[ProbeOf(r)]) \in {Nil} \cup Rows
    OBVIOUS
  <2>1. (IF ProbeOf(r) = Nil THEN Nil ELSE g[ProbeOf(r)]) \in {Nil} \cup Rows
    BY OffspringFacts
  <2> QED
    BY <2>1, OffspringFacts
<1>3. PICK f \in [0 .. n -> S] : Iterates(f, n, a, F)
  <2> HIDE DEF S, a, F, n
  <2> QED
    BY <1>1, <1>2, Recursion
<1>4. \A d \in 0 .. n : f[d] = IF d = 0 THEN a ELSE F[f[d - 1]]
  <2> HIDE DEF S, a, F, n
  <2> QED
    BY <1>3 DEF Iterates
<1>6. ASSUME NEW d \in 0 .. n, NEW r \in Rows
      PROVE  f[d][r] = FirstOr(r, IF ProbeOf(r) = Nil \/ d = 0 THEN Nil ELSE f[d - 1][ProbeOf(r)])
  <2>1. CASE d = 0
    <3>1. f[d] = a
      BY <1>4, <2>1
    <3> QED
      BY <3>1, <2>1
  <2>2. CASE d # 0
    <3>1. d - 1 \in 0 .. n /\ f[d - 1] \in S
      BY <1>1, <2>2
    <3>2. f[d] = F[f[d - 1]]
      BY <1>4, <2>2
    <3>3. f[d][r] = FirstOr(r, IF ProbeOf(r) = Nil THEN Nil ELSE f[d - 1][ProbeOf(r)])
      BY <3>1, <3>2
    <3> HIDE DEF F
    <3> QED
      BY <3>3, <2>2
  <2> QED
    BY <2>1, <2>2
<1>7. \A d \in 0 .. n : \A r \in Rows : f[d][r] =
        IF PlainOf(r) # {} THEN Earliest(PlainOf(r), CreatedAt)
        ELSE IF ProbeOf(r) = Nil \/ d = 0 THEN ProbeOf(r)
        ELSE IF f[d - 1][ProbeOf(r)] = Nil THEN ProbeOf(r) ELSE f[d - 1][ProbeOf(r)]
  <2> HIDE DEF F, a, S
  <2> QED
    BY <1>6 DEF FirstOr
<1>8. \A d \in 0 .. n : f[d] = [r \in Rows |->
        IF PlainOf(r) # {} THEN Earliest(PlainOf(r), CreatedAt)
        ELSE IF ProbeOf(r) = Nil \/ d = 0 THEN ProbeOf(r)
        ELSE IF f[d - 1][ProbeOf(r)] = Nil THEN ProbeOf(r) ELSE f[d - 1][ProbeOf(r)]]
  <2> HIDE DEF F, a
  <2>1. \A d \in 0 .. n : f[d] = [r \in Rows |-> f[d][r]]
    OBVIOUS
  <2> HIDE DEF S
  <2> QED
    BY <1>7, <2>1
<1>9. Walks(f)
  <2> HIDE DEF F, a
  <2>1. f = [d \in 0 .. n |-> f[d]]
    OBVIOUS
  <2> HIDE DEF S
  <2> QED
    BY <1>8, <2>1 DEF Walks
<1> QED
  BY <1>9

LEMMA WalkTyped ==
  ASSUME HistoryShape, HistoryRows, NEW w, Walks(w), NEW r \in Rows
  PROVE  w[Len(rev)][r] \in {Nil} \cup Rows
<1> DEFINE S == [Rows -> {Nil} \cup Rows]
           n == Len(rev)
<1>1. n \in Nat
  BY RowsAre
<1>2. \A d \in 0 .. n : w[d] = [q \in Rows |->
         IF PlainOf(q) # {} THEN Earliest(PlainOf(q), CreatedAt)
         ELSE IF ProbeOf(q) = Nil \/ d = 0 THEN ProbeOf(q)
         ELSE IF w[d - 1][ProbeOf(q)] = Nil THEN ProbeOf(q) ELSE w[d - 1][ProbeOf(q)]]
  BY DEF Walks
<1>3. \A d \in 0 .. n : \A q \in Rows :
        w[d][q] = FirstOr(q, IF ProbeOf(q) = Nil \/ d = 0 THEN Nil ELSE w[d - 1][ProbeOf(q)])
  BY <1>2 DEF FirstOr
<1>4. \A d \in 0 .. n : w[d] = [q \in Rows |-> w[d][q]]
  BY <1>2
<1>5. w[0] \in S
  <2>1. \A q \in Rows : w[0][q] \in {Nil} \cup Rows
    BY <1>1, <1>3, OffspringFacts
  <2>2. 0 \in 0 .. n
    BY <1>1
  <2>3. w[0] = [q \in Rows |-> w[0][q]]
    BY <1>4, <2>2
  <2> QED
    BY <2>1, <2>3
<1>8. \A d \in 0 .. n - 1 : d + 1 \in 0 .. n /\ d + 1 # 0 /\ (d + 1) - 1 = d
  BY <1>1
<1>6. \A d \in 0 .. n - 1 : w[d] \in S => w[d + 1] \in S
  <2> HIDE DEF n
  <2> SUFFICES ASSUME NEW d \in 0 .. n - 1, w[d] \in S PROVE w[d + 1] \in S
    OBVIOUS
  <2>0. d + 1 \in 0 .. n /\ d + 1 # 0 /\ (d + 1) - 1 = d
    BY <1>8
  <2>1. w[d + 1] = [q \in Rows |-> w[d + 1][q]]
    BY <1>4, <2>0
  <2> SUFFICES ASSUME NEW q \in Rows PROVE w[d + 1][q] \in {Nil} \cup Rows
    BY <2>1
  <2>2. w[d + 1][q] = FirstOr(q, IF ProbeOf(q) = Nil THEN Nil ELSE w[d][ProbeOf(q)])
    <3>1. w[d + 1][q] = FirstOr(q, IF ProbeOf(q) = Nil \/ d + 1 = 0 THEN Nil
                                   ELSE w[(d + 1) - 1][ProbeOf(q)])
      BY <1>3, <2>0
    <3>2. (ProbeOf(q) = Nil \/ d + 1 = 0) <=> ProbeOf(q) = Nil
      BY <2>0
    <3>3. w[(d + 1) - 1] = w[d]
      BY <2>0
    <3> QED
      BY <3>1, <3>2, <3>3
  <2>3. (IF ProbeOf(q) = Nil THEN Nil ELSE w[d][ProbeOf(q)]) \in {Nil} \cup Rows
    BY OffspringFacts
  <2>4. PICK x : x = (IF ProbeOf(q) = Nil THEN Nil ELSE w[d][ProbeOf(q)])
    OBVIOUS
  <2> QED
    BY <2>2, <2>3, <2>4, OffspringFacts
<1>7. \A d \in 0 .. n : w[d] \in S
  <2> HIDE DEF S, n
  <2> QED
    BY <1>1, <1>5, <1>6, Stays
<1> QED
  BY <1>1, <1>7

LEMMA FirstChildFacts ==
  ASSUME HistoryShape, HistoryRows, NEW r \in Rows
  PROVE  FirstChild(r) \in {Nil} \cup Rows
<1> DEFINE W == CHOOSE w : Walks(w)
<1>1. Walks(W)
  BY WalkExists
<1>2. FirstChild(r) = W[Len(rev)][r]
  BY DEF FirstChild, Walks, PlainOf, ProbeOf, Offspring
<1> HIDE DEF W
<1> QED
  BY <1>1, <1>2, WalkTyped

LEMMA BodyFacts ==
  ASSUME HistoryShape
  PROVE  /\ \A r \in Rows : r \in -MaxRevisions .. MaxRevisions /\ -r \in -MaxRevisions .. MaxRevisions
         /\ \A r \in Rows : rev[r].body \in Body
         /\ NoMessages \in Body /\ <<>> \in Body
         /\ \A b \in Body : \A e \in -MaxRevisions .. MaxRevisions : Append(b, e) \in Body
         /\ \A b, c \in Body : b \o c \in Body
<1>1. MaxRevisions \in Nat
  BY BoundsAssumption
<1>2. \A r \in Rows : r \in -MaxRevisions .. MaxRevisions /\ -r \in -MaxRevisions .. MaxRevisions
  BY <1>1, RowsAre DEF HistoryShape
<1>3. \A r \in Rows : rev[r].body \in Body
  BY RowsAre DEF RevRec
<1>4. 0 \in -MaxRevisions .. MaxRevisions
  BY <1>1
<1>5. NoMessages \in Body /\ <<>> \in Body
  BY <1>4 DEF NoMessages, Nil, Body
<1> QED
  BY <1>2, <1>3, <1>5 DEF Body

LEMMA ReconstructFacts ==
  ASSUME HistoryShape, HistoryRows, NEW t \in Rows
  PROVE  ReconstructForkMessages(t) \in Body
<1>1. FirstChild(t) \in {Nil} \cup Rows
  BY FirstChildFacts
<1>2. HasMessages(FirstChild(t)) => FirstChild(t) \in Rows
  BY <1>1 DEF HasMessages
<1> QED
  BY <1>2, BodyFacts DEF ReconstructForkMessages

LEMMA UpToAnswerFacts ==
  ASSUME NEW b \in Body
  PROVE  UpToAnswer(b) \in Body
<1> DEFINE ends == {i \in DOMAIN b : b[i] > 0}
<1>1. CASE ends = {}
  <2>1. UpToAnswer(b) = <<>>
    BY <1>1 DEF UpToAnswer
  <2> QED
    BY <2>1, EmptySeq DEF Body
<1>2. CASE ends # {}
  <2>1. b \in Seq(-MaxRevisions .. MaxRevisions) /\ DOMAIN b = 1 .. Len(b) /\ Len(b) \in Nat
    BY DEF Body
  <2> DEFINE f == [i \in ends |-> i]
             m == CHOOSE i \in ends : \A j \in ends : j <= i
  <2>2. f \in [ends -> 0 .. Len(b)]
    BY <2>1
  <2>3. \E i \in ends : \A j \in ends : f[j] <= f[i]
    <3> HIDE DEF f, ends
    <3> QED
      BY <1>2, <2>1, <2>2, LargestOf
  <2>4. \E i \in ends : \A j \in ends : j <= i
    BY <2>3
  <2>5. m \in ends
    BY <2>4
  <2>6. m \in 1 .. Len(b)
    BY <2>1, <2>5
  <2>7. UpToAnswer(b) = SubSeq(b, 1, m)
    BY <1>2 DEF UpToAnswer
  <2> HIDE DEF m
  <2>8. \A i \in 1 .. m : b[i] \in -MaxRevisions .. MaxRevisions
    <3> HIDE DEF ends
    <3>1. \A i \in 1 .. m : i \in 1 .. Len(b)
      BY <2>1, <2>6
    <3>2. b \in Seq(-MaxRevisions .. MaxRevisions)
      BY <2>1
    <3>3. \A i \in 1 .. Len(b) : b[i] \in -MaxRevisions .. MaxRevisions
      BY <3>2, ElementOfSeq
    <3> QED
      BY <3>1, <3>3
  <2>9. SubSeq(b, 1, m) \in Seq(-MaxRevisions .. MaxRevisions)
    <3>1. m \in Int /\ 1 \in Int
      BY <2>1, <2>6
    <3> HIDE DEF ends
    <3> QED
      BY <3>1, <2>8, SubSeqProperties
  <2> QED
    BY <2>7, <2>9 DEF Body
<1> QED
  BY <1>1, <1>2

LEMMA AfterAnchorFacts ==
  ASSUME HistoryShape, HistoryRefs
  PROVE  AfterAnchor \in Body /\ Turns(local) \in Body
<1>1. local \in Seq(LocalRec) /\ DOMAIN local = 1 .. Len(local) /\ Len(local) \in Nat
  BY DEF HistoryShape
<1>2. \A i \in 1 .. Len(local) : local[i].turn \in -MaxRevisions .. MaxRevisions
  BY <1>1, BodyFacts DEF HistoryRefs, LocalRefs
<1>3. Turns(local) \in Body
  <2>1. Turns(local) = [i \in 1 .. Len(local) |-> local[i].turn]
    BY <1>1 DEF Turns
  <2> QED
    BY <1>1, <1>2, <2>1 DEF Body
<1> DEFINE at == {i \in DOMAIN local : local[i].tok = anchor.id}
<1>4. CASE at = {}
  BY <1>4, BodyFacts, <1>3 DEF AfterAnchor
<1>5. CASE at # {}
  <2> DEFINE f == [i \in at |-> i]
             m == CHOOSE i \in at : \A j \in at : j <= i
  <2>2. f \in [at -> 0 .. Len(local)]
    BY <1>1
  <2>3. \E i \in at : \A j \in at : f[j] <= f[i]
    <3> HIDE DEF f, at
    <3> QED
      BY <1>1, <1>5, <2>2, LargestOf
  <2>4. \E i \in at : \A j \in at : j <= i
    BY <2>3
  <2>5. m \in at
    BY <2>4
  <2>6. m \in 1 .. Len(local)
    BY <1>1, <2>5
  <2> DEFINE s == SubSeq(local, m, Len(local))
  <2>7. AfterAnchor = Turns(s)
    BY <1>5 DEF AfterAnchor
  <2> HIDE DEF m
  <2>8. s \in Seq(LocalRec) /\ Len(s) = Len(local) - m + 1
        /\ \A i \in 1 .. Len(local) - m + 1 : s[i] = local[m + i - 1]
    BY <1>1, <2>6, SubSeqProperties
  <2>9. \A i \in 1 .. Len(s) : s[i].turn \in -MaxRevisions .. MaxRevisions
    <3> SUFFICES ASSUME NEW i \in 1 .. Len(s)
                 PROVE  s[i].turn \in -MaxRevisions .. MaxRevisions
      OBVIOUS
    <3>1. m + i - 1 \in 1 .. Len(local) /\ s[i] = local[m + i - 1]
      BY <1>1, <2>6, <2>8
    <3> HIDE DEF s
    <3> QED
      BY <1>2, <3>1
  <2> HIDE DEF s
  <2>10. Turns(s) = [i \in 1 .. Len(s) |-> s[i].turn] /\ Len(s) \in Nat
    BY <2>8 DEF Turns
  <2> QED
    BY <1>3, <2>7, <2>9, <2>10 DEF Body
<1> QED
  BY <1>4, <1>5

-----------------------------------------------------------------------------
(* Rows are added and sealed. *)

PastIn(s, r, p) ==
  IF s[r].kind = "sr" THEN s[p].created < s[r].sealed
  ELSE s[p].sealed # 0 /\ s[p].sealed <= s[r].created
GoodIn(s, n, r) ==
  /\ s[r].parent \in {Nil} \cup DOMAIN s
  /\ s[r].created \in 1 .. n /\ s[r].sealed \in 0 .. n
  /\ s[r].class = "in_flight" <=> s[r].sealed = 0
  /\ s[r].kind = "models" => ~s[r].spliced
  /\ s[r].kind = "sr" => s[r].sealed # 0
  /\ s[r].parent # Nil => PastIn(s, r, s[r].parent)
GoodHistory(s, n) == s \in Seq(RevRec) /\ n \in Nat /\ \A r \in DOMAIN s : GoodIn(s, n, r)
Keeps(x, y) ==
  /\ y.kind = x.kind /\ y.created = x.created /\ y.spliced = x.spliced /\ y.body = x.body
  /\ x.sealed # 0 => y.sealed = x.sealed
  /\ x.parent # Nil => y.parent = x.parent
Grown(s, t) == DOMAIN s \subseteq DOMAIN t /\ \A r \in DOMAIN s : Keeps(s[r], t[r])

LEMMA HistoryIsGood == HistoryShape => (HistoryRows <=> GoodHistory(rev, now))
BY DEF HistoryShape, HistoryRows, GoodRow, PastOf, GoodHistory, GoodIn, PastIn, Rows

LEMMA GoodStays ==
  ASSUME NEW s, NEW t, NEW n \in Nat, NEW m \in Nat, n <= m, Nil \notin DOMAIN s,
         s \in Seq(RevRec), Grown(s, t), NEW r \in DOMAIN s, t[r] = s[r], GoodIn(s, n, r)
  PROVE  GoodIn(t, m, r)
<1>1. s[r].parent # Nil => s[r].parent \in DOMAIN s /\ PastIn(s, r, s[r].parent)
  BY DEF GoodIn
<1>2. s[r].parent # Nil => PastIn(t, r, s[r].parent)
  BY <1>1 DEF PastIn, Grown, Keeps
<1>3. s[r].parent \in {Nil} \cup DOMAIN t
  BY <1>1 DEF Grown
<1> QED
  BY <1>2, <1>3 DEF GoodIn

LEMMA Appending ==
  ASSUME NEW s, NEW n, NEW m \in Nat, GoodHistory(s, n), n <= m, NEW x \in RevRec,
         NEW t, t = Append(s, x), GoodIn(t, m, Len(s) + 1)
  PROVE  /\ GoodHistory(t, m) /\ Grown(s, t) /\ Len(t) = Len(s) + 1
         /\ DOMAIN t = DOMAIN s \cup {Len(s) + 1} /\ t[Len(s) + 1] = x
         /\ \A r \in DOMAIN s : t[r] = s[r]
<1>1. s \in Seq(RevRec) /\ n \in Nat /\ DOMAIN s = 1 .. Len(s) /\ Len(s) \in Nat /\ Nil \notin DOMAIN s
  BY DEF GoodHistory, Nil
<1>2. t \in Seq(RevRec) /\ Len(t) = Len(s) + 1 /\ DOMAIN t = 1 .. Len(s) + 1
        /\ t[Len(s) + 1] = x /\ \A r \in 1 .. Len(s) : t[r] = s[r]
  BY <1>1
<1>3. Grown(s, t)
  BY <1>1, <1>2 DEF Grown, Keeps
<1>4. \A r \in DOMAIN s : GoodIn(t, m, r)
  BY <1>1, <1>2, <1>3, GoodStays DEF GoodHistory
<1> QED
  BY <1>1, <1>2, <1>3, <1>4 DEF GoodHistory

LEMMA ParentFacts ==
  ASSUME HistoryShape, HistoryRows, NEW r \in Rows
  PROVE  /\ ParentOf(r) \in {Nil} \cup Rows
         /\ rev[r].parent = Nil /\ ParentOf(r) # Nil =>
              rev[ParentOf(r)].sealed # 0 /\ rev[ParentOf(r)].sealed <= rev[r].created
<1> DEFINE T == {p \in Rows : Sealed(p) /\ rev[p].sealed <= rev[r].created}
<1>1. T # {} => Latest(T, SealedAt) \in T
  BY LatestSealed
<1>2. T = {} => Latest(T, SealedAt) = Nil
  BY DEF Latest
<1>3. ResolveParentAtSealTime(r) = Latest(T, SealedAt)
  BY DEF ResolveParentAtSealTime
<1>4. ResolveParentAtSealTime(r) = Nil \/ ResolveParentAtSealTime(r) \in T
  BY <1>1, <1>2, <1>3
<1>5. rev[r].parent \in {Nil} \cup Rows
  BY DEF HistoryRows, GoodRow
<1> QED
  BY <1>4, <1>5 DEF ParentOf, Sealed

SealedRow(r, class) ==
  [rev[r] EXCEPT !.parent = ParentOf(r), !.class = class, !.sealed = now + 1]

LEMMA SealForm ==
  ASSUME HistoryShape, HistoryRows, NEW r \in Rows, NEW class \in Classes
  PROVE  /\ Seal(r, class) = [rev EXCEPT ![r] = SealedRow(r, class)]
         /\ SealedRow(r, class) \in RevRec
         /\ LET y == SealedRow(r, class)
            IN  /\ y.parent = ParentOf(r) /\ y.class = class /\ y.sealed = now + 1
                /\ y.kind = rev[r].kind /\ y.created = rev[r].created /\ y.body = rev[r].body
                /\ y.spliced = rev[r].spliced
<1>1. rev[r] \in RevRec /\ ParentOf(r) \in Nat /\ now + 1 \in Nat
  BY RowsAre, ParentFacts DEF HistoryShape, Nil
<1>2. PICK x, p, n : x = rev[r] /\ p = ParentOf(r) /\ n = now + 1
  OBVIOUS
<1>3. SealedRow(r, class) = [x EXCEPT !.parent = p, !.class = class, !.sealed = n]
  BY <1>2 DEF SealedRow
<1>4. Seal(r, class) = [rev EXCEPT ![r] = SealedRow(r, class)]
  BY DEF Seal, SealedRow
<1>5. PICK y : y = SealedRow(r, class)
  OBVIOUS
<1>6. /\ y \in RevRec /\ y.parent = p /\ y.class = class /\ y.sealed = n
      /\ y.kind = x.kind /\ y.created = x.created /\ y.body = x.body /\ y.spliced = x.spliced
  <2>1. x \in RevRec /\ p \in Nat /\ n \in Nat
    BY <1>1, <1>2
  <2>2. y = [x EXCEPT !.parent = p, !.class = class, !.sealed = n]
    BY <1>3, <1>5
  <2> HIDE DEF Classes
  <2> QED
    BY <2>1, <2>2 DEF RevRec
<1> QED
  BY <1>2, <1>4, <1>5, <1>6

LEMMA Sealing ==
  ASSUME HistoryShape, HistoryRows, NEW r \in Rows, rev[r].sealed = 0,
         NEW class \in Classes \ {"in_flight"}, NEW t, t = Seal(r, class)
  PROVE  /\ GoodHistory(t, now + 1) /\ Grown(rev, t) /\ Len(t) = Len(rev) /\ DOMAIN t = Rows
         /\ t[r] = SealedRow(r, class) /\ t[r].sealed # 0
         /\ \A q \in Rows : q # r => t[q] = rev[q]
<1>1. rev \in Seq(RevRec) /\ now \in Nat /\ Rows = 1 .. Len(rev) /\ Len(rev) \in Nat /\ Nil \notin Rows
      /\ Rows \subseteq Nat /\ rev[r] \in RevRec
  BY RowsAre DEF HistoryShape
<1>2. SealedRow(r, class) \in RevRec
  BY SealForm
<1>3. t = [rev EXCEPT ![r] = SealedRow(r, class)]
  BY SealForm
<1>4. /\ t \in Seq(RevRec) /\ Len(t) = Len(rev) /\ DOMAIN t = Rows
      /\ t[r] = SealedRow(r, class) /\ \A q \in Rows : q # r => t[q] = rev[q]
  <2> PICK x : x = SealedRow(r, class)
    OBVIOUS
  <2>1. t = [rev EXCEPT ![r] = x] /\ x \in RevRec
    BY <1>2, <1>3
  <2>2. t \in Seq(RevRec) /\ Len(t) = Len(rev) /\ \A q \in 1 .. Len(rev) : t[q] = IF q = r THEN x ELSE rev[q]
    BY <1>1, <2>1, ExceptSeq
  <2> QED
    BY <1>1, <2>2
<1>5. Keeps(rev[r], t[r])
  <2>1. rev[r].parent # Nil => ParentOf(r) = rev[r].parent
    BY DEF ParentOf
  <2> QED
    BY <1>4, <2>1, SealForm DEF Keeps
<1>6. Grown(rev, t)
  BY <1>1, <1>4, <1>5 DEF Grown, Keeps, Rows
<1>7. GoodHistory(rev, now) /\ GoodIn(rev, now, r)
  BY HistoryIsGood DEF GoodHistory, Rows
<1>8. \A q \in Rows : q # r => GoodIn(t, now + 1, q)
  <2> SUFFICES ASSUME NEW q \in Rows, q # r PROVE GoodIn(t, now + 1, q)
    OBVIOUS
  <2>1. GoodIn(rev, now, q) /\ q \in DOMAIN rev /\ Nil \notin DOMAIN rev
    BY <1>1, <1>7 DEF GoodHistory, Rows
  <2>2. now + 1 \in Nat /\ now <= now + 1
    BY <1>1
  <2> QED
    BY <1>1, <1>4, <1>6, <2>1, <2>2, GoodStays
<1>9. GoodIn(t, now + 1, r)
  <2>1. t[r].kind # "sr"
    BY <1>4, <1>7, SealForm DEF GoodIn
  <2>2. t[r].parent # Nil => t[t[r].parent].sealed # 0 /\ t[t[r].parent].sealed <= rev[r].created
    <3> SUFFICES ASSUME ParentOf(r) # Nil
                 PROVE  t[ParentOf(r)].sealed # 0 /\ t[ParentOf(r)].sealed <= rev[r].created
      BY <1>4, SealForm
    <3>1. ParentOf(r) \in Rows
      BY ParentFacts
    <3>2. rev[ParentOf(r)].sealed # 0 /\ rev[ParentOf(r)].sealed <= rev[r].created
      <4>1. CASE rev[r].parent = Nil
        BY <4>1, ParentFacts
      <4>2. CASE rev[r].parent # Nil
        <5>1. ParentOf(r) = rev[r].parent /\ PastIn(rev, r, rev[r].parent)
          BY <4>2, <1>7 DEF ParentOf, GoodIn
        <5>2. rev[r].kind # "sr"
          BY <2>1, <1>4, SealForm
        <5> QED
          BY <5>1, <5>2 DEF PastIn
      <4> QED
        BY <4>1, <4>2
    <3>3. ParentOf(r) # r
      BY <3>2
    <3> QED
      BY <1>4, <3>1, <3>2, <3>3
  <2>3. /\ t[r].parent \in {Nil} \cup Rows /\ t[r].created = rev[r].created /\ t[r].sealed = now + 1
        /\ t[r].class = class /\ t[r].kind = rev[r].kind /\ t[r].spliced = rev[r].spliced
    BY <1>4, ParentFacts, SealForm
  <2>4. rev[r].created \in 1 .. now + 1 /\ now + 1 \in 0 .. now + 1 /\ now + 1 # 0
    BY <1>1, <1>7 DEF GoodIn
  <2>5. rev[r].kind = "models" => ~rev[r].spliced
    BY <1>7 DEF GoodIn
  <2> QED
    BY <1>4, <2>1, <2>2, <2>3, <2>4, <2>5 DEF GoodIn, PastIn
<1>10. GoodHistory(t, now + 1)
  BY <1>1, <1>4, <1>8, <1>9 DEF GoodHistory
<1> QED
  <2>1. t[r].sealed = now + 1 /\ now + 1 # 0
    BY <1>1, <1>4, SealForm
  <2> QED
    BY <1>4, <1>6, <1>10, <2>1

-----------------------------------------------------------------------------
(* The steps. *)

LEMMA Shown ==
  ASSUME HistoryInv
  PROVE  ChainsGoBack
<1>1. \A r \in Rows : rev[r].kind \in Kind /\ rev[r].class \in Classes /\ rev[r].body \in Body
                      /\ rev[r].spliced \in BOOLEAN
  BY RowsAre DEF HistoryInv, RevRec
<1>2. \A v \in DOMAIN views : views[v].live \in BOOLEAN
  <2>1. views \in Seq(ViewRec)
    BY DEF HistoryInv, HistoryShape
  <2>2. \A v \in DOMAIN views : views[v] \in ViewRec
    BY <2>1
  <2> QED
    BY <2>2 DEF ViewRec
<1>3. anchor.base \in Body /\ dump.msgs \in Body
  BY DEF HistoryInv, HistoryShape, AnchorRec, DumpRec
<1>4. \A r \in Rows : GoodRow(r)
  BY DEF HistoryInv, HistoryRows
<1>5. \A r \in Rows : /\ rev[r].parent \in {Nil} \cup Rows
                      /\ rev[r].created \in 1 .. now /\ rev[r].sealed \in 0 .. now
  BY <1>4 DEF GoodRow
<1>6. ConversationTypeOK
  <2>1. \A r \in Rows :
          /\ rev[r].kind \in Kind /\ rev[r].parent \in {Nil} \cup Rows
          /\ rev[r].class \in {"in_flight", "closed_forkable", "open", "dangling_unforkable"}
          /\ rev[r].created \in 1 .. now /\ rev[r].sealed \in 0 .. now
          /\ rev[r].body \in Body /\ rev[r].spliced \in BOOLEAN
    BY <1>1, <1>5 DEF Classes
  <2>2. \A v \in DOMAIN views :
          views[v].head \in Rows /\ views[v].origin \in Rows /\ views[v].live \in BOOLEAN
    BY <1>2 DEF HistoryInv, HistoryRefs, ViewRefs
  <2>3. anchor.fork \in {Nil} \cup Rows /\ anchor.base \in Body /\ anchor.id \in 0 .. forks
    BY <1>3 DEF HistoryInv, HistoryAnchor, AnchorRefs
  <2>4. \A i \in DOMAIN local : local[i].turn \in Rows /\ local[i].tok \in 0 .. forks
    BY DEF HistoryInv, HistoryRefs, LocalRefs
  <2>5. pair \subseteq {"rewind", "submit"} /\ pend \in 0 .. forks /\ phase \in {"typing", "tool", "result"}
        /\ used \subseteq {"rewind", "submit", "other"} /\ habit \in Habits
    BY DEF HistoryInv, HistoryShape
  <2>6. dump.of \in {Nil} \cup Rows /\ dump.msgs \in Body /\ call \in {Nil} \cup Rows
    BY <1>3 DEF HistoryInv, HistoryRefs, DumpRef, HistoryCall
  <2> QED
    BY <2>1, <2>2, <2>3, <2>4, <2>5, <2>6 DEF ConversationTypeOK
<1>7. \A r \in Rows : rev[r].parent # Nil => PastOf(r, rev[r].parent)
  BY <1>4 DEF GoodRow
<1> QED
  BY <1>6, <1>7 DEF ChainsGoBack, PastOf, Sealed, SealedAt, CreatedAt

LEMMA HistoryStart == ConversationInit => HistoryInv
<1> SUFFICES ASSUME ConversationInit PROVE HistoryInv
  OBVIOUS
<1>1. Rows = {} /\ Len(rev) = 0
  BY DEF ConversationInit, Rows
<1>2. NoAnchorRow \in AnchorRec /\ NoDump \in DumpRec
  BY EmptySeq DEF NoAnchorRow, NoDump, AnchorRec, DumpRec, Nil, Body
<1>3. HistoryShape
  BY <1>1, <1>2, BoundsAssumption DEF ConversationInit, HistoryShape, Nil
<1>4. HistoryRows /\ HistoryCall
  BY <1>1 DEF ConversationInit, HistoryRows, HistoryCall
<1>5. HistoryRefs
  BY <1>1 DEF ConversationInit, HistoryRefs, ViewRefs, LocalRefs, DumpRef, NoDump
<1>6. HistoryAnchor
  BY <1>1 DEF ConversationInit, HistoryAnchor, AnchorRefs, MarkerRoom, NoAnchorRow, Nil
<1> QED
  BY <1>3, <1>4, <1>5, <1>6 DEF HistoryInv

(* What the growth of the history leaves as it was. *)
Goes == GoodHistory(rev', now') /\ Grown(rev, rev') /\ now <= now' /\ Len(rev') <= MaxRevisions

LEMMA GoesFacts ==
  ASSUME HistoryShape, Goes
  PROVE  /\ Rows \subseteq Rows' /\ Nil \notin Rows' /\ now \in Nat /\ now' \in Nat
         /\ rev' \in Seq(RevRec) /\ HistoryRows'
         /\ \A r \in Rows : /\ rev'[r].created = rev[r].created /\ rev'[r].kind = rev[r].kind
                            /\ rev'[r].spliced = rev[r].spliced
                            /\ rev[r].sealed # 0 => rev'[r].sealed = rev[r].sealed
<1>1. rev' \in Seq(RevRec) /\ now' \in Nat /\ now \in Nat
  BY DEF Goes, GoodHistory, HistoryShape
<1>2. DOMAIN rev' = 1 .. Len(rev') /\ Rows' = DOMAIN rev'
  BY <1>1 DEF Rows
<1>3. \A r \in DOMAIN rev' : GoodIn(rev', now', r)
  BY DEF Goes, GoodHistory
<1>4. HistoryRows'
  BY <1>2, <1>3 DEF HistoryRows, GoodRow, GoodIn, PastIn, PastOf
<1>5. Rows \subseteq Rows' /\ \A r \in Rows : Keeps(rev[r], rev'[r])
  BY <1>2 DEF Goes, Grown, Rows
<1> QED
  BY <1>1, <1>2, <1>4, <1>5 DEF Nil, Keeps

LEMMA ViewsStay == ASSUME HistoryShape, HistoryRefs, Goes, views' = views PROVE ViewRefs'
BY GoesFacts DEF HistoryRefs, ViewRefs
LEMMA LocalStays ==
  ASSUME HistoryShape, HistoryRefs, Goes, local' = local, forks' \in Nat, forks <= forks'
  PROVE  LocalRefs'
BY GoesFacts DEF HistoryRefs, LocalRefs, HistoryShape
LEMMA DumpStays == ASSUME HistoryShape, HistoryRefs, Goes, dump' = dump PROVE DumpRef'
BY GoesFacts DEF HistoryRefs, DumpRef
LEMMA AnchorStays ==
  ASSUME HistoryShape, AnchorRefs, Goes, forks' = forks,
         NEW sr, sr \in {"gone", "bare", "deferred"}, sr # "gone" => anchor.sr # "gone",
         anchor' = [anchor EXCEPT !.sr = sr]
  PROVE  AnchorRefs' /\ anchor' \in AnchorRec /\ anchor'.sr = sr
<1>1. anchor \in AnchorRec
  BY DEF HistoryShape
<1>2. /\ anchor' \in AnchorRec /\ anchor'.sr = sr /\ anchor'.id = anchor.id /\ anchor'.fork = anchor.fork
      /\ anchor'.r1 = anchor.r1 /\ anchor'.at = anchor.at
  BY <1>1 DEF AnchorRec
<1>3. now \in Nat /\ now' \in Nat /\ now <= now'
  BY GoesFacts DEF Goes
<1>4. anchor'.id # Nil => anchor'.fork \in Rows' /\ rev'[anchor'.fork].sealed # 0
  BY <1>2, GoesFacts DEF AnchorRefs
<1>5. anchor'.sr # "gone" =>
       /\ anchor'.id # Nil /\ anchor'.at \in 1 .. now'
       /\ anchor'.r1 \in {Nil} \cup Rows'
       /\ anchor'.r1 # Nil => rev'[anchor'.r1].created < anchor'.at
  BY <1>2, <1>3, GoesFacts DEF AnchorRefs
<1> QED
  BY <1>2, <1>4, <1>5, GoesFacts DEF AnchorRefs

LEMMA NoAnchorFacts ==
  ASSUME HistoryShape, anchor' = NoAnchorRow, forks' = forks
  PROVE  AnchorRefs' /\ anchor' \in AnchorRec /\ MarkerRoom'
<1>1. anchor'.id = Nil /\ anchor'.fork = Nil /\ anchor'.sr = "gone" /\ anchor' \in AnchorRec
  BY EmptySeq DEF NoAnchorRow, AnchorRec, Nil, Body
<1> QED
  BY <1>1 DEF AnchorRefs, MarkerRoom, HistoryShape, Nil

LEMMA Standing ==
  ASSUME HistoryShape, HistoryRows, rev' = rev, now' \in {now, now + 1}
  PROVE  Goes
<1>1. now \in Nat /\ now' \in Nat /\ now <= now' /\ rev \in Seq(RevRec) /\ Nil \notin DOMAIN rev
  BY RowsAre DEF HistoryShape, Rows
<1>2. Grown(rev, rev)
  BY DEF Grown, Keeps
<1>3. GoodHistory(rev, now)
  BY HistoryIsGood
<1>4. \A r \in DOMAIN rev : GoodIn(rev, now', r)
  BY <1>1, <1>2, <1>3, GoodStays DEF GoodHistory
<1> QED
  BY <1>1, <1>2, <1>4 DEF Goes, GoodHistory, HistoryShape

(* A row is opened. *)
LEMMA OpenedRow ==
  ASSUME HistoryShape, NEW kind \in Kind, kind # "sr", NEW parent \in Nat, NEW body \in Body,
         NEW spliced \in BOOLEAN, NEW x, x = Row(kind, parent, "in_flight", 0, body, spliced)
  PROVE  /\ x \in RevRec /\ x.kind = kind /\ x.parent = parent /\ x.class = "in_flight"
         /\ x.sealed = 0 /\ x.created = now + 1 /\ x.spliced = spliced
BY DEF Row, RevRec, Classes, HistoryShape

LEMMA Opening ==
  ASSUME HistoryShape, HistoryRows, Len(rev) < MaxRevisions,
         NEW x \in RevRec, x.kind # "sr", x.class = "in_flight", x.sealed = 0,
         x.created = now + 1, x.kind = "models" => ~x.spliced,
         x.parent = Nil \/ (x.parent \in Rows /\ rev[x.parent].sealed # 0),
         rev' = Append(rev, x), now' = now + 1
  PROVE  /\ Goes /\ Len(rev') = Len(rev) + 1 /\ Len(rev) + 1 \in Rows' /\ rev'[Len(rev) + 1] = x
         /\ \A r \in Rows : rev'[r] = rev[r]
<1>1. now \in Nat /\ now + 1 \in Nat /\ now <= now + 1 /\ rev \in Seq(RevRec) /\ Len(rev) \in Nat
      /\ Rows = 1 .. Len(rev) /\ MaxRevisions \in Nat
  BY BoundsAssumption, RowsAre DEF HistoryShape
<1>2. GoodHistory(rev, now)
  BY HistoryIsGood
<1> PICK t : t = rev'
  OBVIOUS
<1>3. DOMAIN t = 1 .. Len(rev) + 1 /\ t[Len(rev) + 1] = x /\ \A r \in Rows : t[r] = rev[r]
  BY <1>1
<1>4. GoodIn(t, now + 1, Len(rev) + 1)
  <2>1. x.parent # Nil => /\ x.parent \in DOMAIN t /\ t[x.parent] = rev[x.parent]
                          /\ rev[x.parent].sealed # 0 /\ rev[x.parent].sealed <= now + 1
    <3>1. \A r \in Rows : rev[r].sealed <= now + 1
      BY <1>1 DEF HistoryRows, GoodRow
    <3> QED
      BY <1>1, <1>3, <3>1
  <2> QED
    BY <1>1, <1>3, <2>1 DEF GoodIn, PastIn, Nil
<1>5. /\ GoodHistory(t, now + 1) /\ Grown(rev, t) /\ Len(t) = Len(rev) + 1
      /\ DOMAIN t = DOMAIN rev \cup {Len(rev) + 1}
  <2> PICK m : m = now + 1
    OBVIOUS
  <2>1. m \in Nat /\ now <= m /\ GoodIn(t, m, Len(rev) + 1) /\ t = Append(rev, x)
    BY <1>1, <1>4
  <2>2. GoodHistory(t, m) /\ Grown(rev, t) /\ Len(t) = Len(rev) + 1
        /\ DOMAIN t = DOMAIN rev \cup {Len(rev) + 1}
    BY ONLY <1>2, <2>1, Appending, x \in RevRec
  <2> QED
    BY <2>2
<1> QED
  BY <1>1, <1>3, <1>5 DEF Goes, Rows

LEMMA AnchorSame ==
  ASSUME HistoryShape, AnchorRefs, Goes, forks' = forks, anchor' = anchor
  PROVE  AnchorRefs' /\ anchor' \in AnchorRec
<1>1. anchor \in AnchorRec
  BY DEF HistoryShape
<1>2. anchor' = [anchor EXCEPT !.sr = anchor.sr] /\ anchor.sr \in {"gone", "bare", "deferred"}
  BY <1>1 DEF AnchorRec
<1> QED
  BY <1>2, AnchorStays

LEMMA SendKeeps ==
  ASSUME HistoryInv, NEW kind \in Kind, SendMessages(kind)
  PROVE  HistoryInv'
<1> USE DEF HistoryInv
<1>1. kind \in {"turn", "inject", "count_tokens"}
  <2>1. kind = "turn" \/ kind \in habit.traffic \ {"models"}
    BY DEF SendMessages
  <2>2. habit.traffic \subseteq Side
    BY HabitsAssumption DEF HistoryShape
  <2> QED
    BY <2>1, <2>2 DEF Side
<1>2. Len(rev) \in Nat /\ Len(rev) < MaxRevisions /\ MaxRevisions \in Nat
      /\ (anchor.sr # "gone" => Len(rev) + 1 < MaxRevisions)
  BY BoundsAssumption, RowsAre DEF SendMessages, Room
<1> DEFINE splice == kind # "count_tokens" /\ Matches /\ ~Aborted
<1>3. anchor.base \o AfterAnchor \in Body /\ Turns(local) \in Body /\ <<>> \in Body
  <2>1. anchor.base \in Body
    BY DEF HistoryShape, AnchorRec
  <2> QED
    BY <2>1, AfterAnchorFacts, BodyFacts
<1>4. Matches => anchor.fork \in Rows /\ rev[anchor.fork].sealed # 0
  BY DEF Matches, HistoryAnchor, AnchorRefs
<1>5. PICK p \in Nat, b \in Body, s \in BOOLEAN :
        /\ rev' = Append(rev, Row(kind, p, "in_flight", 0, b, s))
        /\ p = Nil \/ (p \in Rows /\ rev[p].sealed # 0)
  <2>1. CASE splice
    <3>1. rev' = Append(rev, Row(kind, anchor.fork, "in_flight", 0, anchor.base \o AfterAnchor, TRUE))
      BY <2>1 DEF SendMessages, RequestReceived
    <3>2. anchor.fork \in Rows /\ anchor.fork \in Nat /\ rev[anchor.fork].sealed # 0
      BY <1>4, <2>1, RowsAre
    <3> QED
      BY <1>3, <3>1, <3>2
  <2>2. CASE ~splice
    <3>1. rev' = Append(rev, Row(kind, Nil, "in_flight", 0,
                                 IF kind = "count_tokens" THEN <<>> ELSE Turns(local), FALSE))
      BY <2>2 DEF SendMessages, RequestReceived
    <3> QED
      BY <1>3, <3>1 DEF Nil
  <2> QED
    BY <2>1, <2>2
<1>6. PICK x : x = Row(kind, p, "in_flight", 0, b, s)
  OBVIOUS
<1>7. /\ x \in RevRec /\ x.kind = kind /\ x.parent = p /\ x.class = "in_flight"
      /\ x.sealed = 0 /\ x.created = now + 1 /\ x.spliced = s
  BY <1>1, <1>6, OpenedRow
<1>8. now' = now + 1 /\ rev' = Append(rev, x)
  BY <1>5, <1>6 DEF SendMessages, RequestReceived
<1>9. /\ Goes /\ Len(rev') = Len(rev) + 1 /\ Len(rev) + 1 \in Rows' /\ rev'[Len(rev) + 1] = x
      /\ \A r \in Rows : rev'[r] = rev[r]
  BY <1>1, <1>2, <1>5, <1>7, <1>8, Opening
<1>10. /\ views' = views /\ forks' = forks /\ pair' = pair /\ dump' = dump /\ local' = local
       /\ pend' = pend /\ used' = used /\ habit' = habit /\ call' = Len(rev) + 1
       /\ phase' \in {"typing", "tool", "result"}
  BY DEF SendMessages, HistoryShape
<1>11. AnchorRefs' /\ anchor' \in AnchorRec /\ MarkerRoom'
  <2>1. CASE anchor' = NoAnchorRow
    BY <2>1, <1>10, NoAnchorFacts
  <2>2. CASE anchor' = anchor
    <3>1. AnchorRefs' /\ anchor' \in AnchorRec
      BY <2>2, <1>9, <1>10, AnchorSame DEF HistoryAnchor
    <3>2. MarkerRoom'
      BY <2>2, <1>2, <1>9 DEF MarkerRoom
    <3> QED
      BY <3>1, <3>2
  <2> QED
    BY <2>1, <2>2 DEF SendMessages, RequestReceived
<1>12. HistoryShape'
  BY <1>9, <1>10, <1>11, GoesFacts DEF HistoryShape, Goes
<1>13. HistoryRows'
  BY <1>9, GoesFacts
<1>14. HistoryRefs'
  <2>1. forks' \in Nat /\ forks <= forks'
    BY <1>10 DEF HistoryShape
  <2> QED
    BY <1>9, <1>10, <2>1, ViewsStay, LocalStays, DumpStays DEF HistoryRefs
<1>15. HistoryCall'
  BY <1>1, <1>7, <1>9, <1>10 DEF HistoryCall
<1> QED
  BY <1>11, <1>12, <1>13, <1>14, <1>15 DEF HistoryAnchor

(* A view stays where it is, moves on to a child of its head, or is new. *)
ViewsGrow ==
  \A v \in DOMAIN views' :
    \/ /\ v \in DOMAIN views /\ views'[v].origin = views[v].origin
       /\ \/ views'[v].head = views[v].head
          \/ views'[v].head \in Rows' /\ rev'[views'[v].head].parent = views[v].head
    \/ views'[v].head = views'[v].origin

(* A row is sealed, and a departure is recorded. *)
LEMMA FollowFacts ==
  ASSUME HistoryShape, NEW r \in Nat, NEW parent, NEW w,
         w = OnResponseCompleted(views, r, parent)
  PROVE  /\ w \in Seq(ViewRec) /\ Len(w) = Len(views) /\ DOMAIN w = DOMAIN views
         /\ \A v \in DOMAIN views :
              /\ w[v].origin = views[v].origin
              /\ w[v].head = IF parent # Nil /\ views[v].head = parent THEN r ELSE views[v].head
<1>1. views \in Seq(ViewRec) /\ DOMAIN views = 1 .. Len(views) /\ Len(views) \in Nat
  BY DEF HistoryShape
<1>2. \A v \in 1 .. Len(views) : views[v] \in ViewRec
  BY <1>1
<1>3. \A v \in 1 .. Len(views) :
        w[v] = IF parent # Nil /\ views[v].head = parent THEN [views[v] EXCEPT !.head = r] ELSE views[v]
  BY <1>1 DEF OnResponseCompleted
<1>4. \A x \in ViewRec : /\ [x EXCEPT !.head = r] \in ViewRec
                         /\ [x EXCEPT !.head = r].origin = x.origin /\ [x EXCEPT !.head = r].head = r
  BY DEF ViewRec
<1>5. \A v \in 1 .. Len(views) :
        /\ w[v] \in ViewRec /\ w[v].origin = views[v].origin
        /\ w[v].head = IF parent # Nil /\ views[v].head = parent THEN r ELSE views[v].head
  BY <1>2, <1>3, <1>4
<1>6. w = [v \in 1 .. Len(views) |-> w[v]]
  BY <1>1 DEF OnResponseCompleted
<1>7. w \in Seq(ViewRec) /\ Len(w) = Len(views) /\ DOMAIN w = 1 .. Len(views)
  BY <1>1, <1>5, <1>6
<1> QED
  BY <1>1, <1>5, <1>7

LEMMA FollowRefs ==
  ASSUME HistoryShape, HistoryRefs, Goes, NEW r \in Rows, NEW parent,
         rev'[r].parent = parent, views' = OnResponseCompleted(views, r, parent)
  PROVE  views' \in Seq(ViewRec) /\ ViewRefs' /\ ViewsGrow
<1> PICK w : w = views'
  OBVIOUS
<1>1. r \in Nat /\ w = OnResponseCompleted(views, r, parent)
  BY RowsAre
<1>2. /\ w \in Seq(ViewRec) /\ DOMAIN w = DOMAIN views
      /\ \A v \in DOMAIN views :
           /\ w[v].origin = views[v].origin
           /\ w[v].head = IF parent # Nil /\ views[v].head = parent THEN r ELSE views[v].head
  BY ONLY HistoryShape, <1>1, FollowFacts
<1>3. Rows \subseteq Rows'
  BY GoesFacts
<1>4. ViewRefs'
  BY <1>2, <1>3 DEF HistoryRefs, ViewRefs
<1>5. ViewsGrow
  BY <1>2, <1>3 DEF ViewsGrow
<1> QED
  BY <1>2, <1>4, <1>5

LEMMA SealGoes ==
  ASSUME HistoryShape, HistoryRows, NEW r \in Rows, rev[r].sealed = 0,
         NEW class \in Classes \ {"in_flight"}, rev' = Seal(r, class), now' = now + 1
  PROVE  /\ Goes /\ Rows' = Rows /\ Len(rev') = Len(rev)
         /\ rev'[r].sealed # 0 /\ rev'[r].parent = ParentOf(r)
         /\ \A q \in Rows : q # r => rev'[q] = rev[q]
<1> PICK t : t = rev'
  OBVIOUS
<1>1. /\ GoodHistory(t, now + 1) /\ Grown(rev, t) /\ Len(t) = Len(rev) /\ DOMAIN t = Rows
      /\ t[r] = SealedRow(r, class) /\ t[r].sealed # 0
      /\ \A q \in Rows : q # r => t[q] = rev[q]
  BY Sealing
<1>2. SealedRow(r, class).parent = ParentOf(r)
  BY SealForm
<1>3. now <= now + 1 /\ Len(rev) <= MaxRevisions
  BY DEF HistoryShape
<1> QED
  BY <1>1, <1>2, <1>3 DEF Goes, Rows

LEMMA MarkerFacts ==
  ASSUME now \in Nat, anchor.r1 \in Nat, anchor.at \in Nat, NEW x, x = Marker
  PROVE  /\ x \in RevRec /\ x.kind = "sr" /\ x.parent = anchor.r1 /\ x.class = "closed_forkable"
         /\ x.created = now + 2 /\ x.sealed = anchor.at /\ x.spliced = FALSE
<1>1. PICK p, a, n, b : /\ p \in Nat /\ a \in Nat /\ n \in Nat
                        /\ p = anchor.r1 /\ a = anchor.at /\ n = now + 1 /\ b = <<>>
  OBVIOUS
<1>2. PICK y : y = [kind |-> "sr", parent |-> p, class |-> "closed_forkable", created |-> n,
                    sealed |-> a, body |-> b, spliced |-> FALSE]
  OBVIOUS
<1>3. PICK m \in Nat : m = now + 2
  OBVIOUS
<1>4. x = [y EXCEPT !.created = m]
  BY <1>1, <1>2, <1>3 DEF Marker, Row
<1>5. b \in Body
  BY <1>1, EmptySeq DEF Body
<1>6. "sr" \in Kind /\ "closed_forkable" \in Classes
  BY DEF Kind, Classes
<1>7. y \in RevRec
  BY <1>1, <1>2, <1>5, <1>6 DEF RevRec
<1>8. x \in RevRec /\ x.created = m /\ x.kind = y.kind /\ x.parent = y.parent /\ x.class = y.class
      /\ x.sealed = y.sealed /\ x.spliced = y.spliced
  <2> HIDE DEF Classes
  <2> QED
    BY <1>4, <1>7 DEF RevRec
<1> QED
  BY <1>1, <1>2, <1>3, <1>8

LEMMA DepartGoes ==
  ASSUME HistoryShape, HistoryRows, NEW r \in Rows, rev[r].sealed = 0,
         NEW class \in Classes \ {"in_flight"}, Len(rev) < MaxRevisions,
         anchor.r1 \in {Nil} \cup Rows, anchor.at \in 1 .. now,
         anchor.r1 # Nil => rev[anchor.r1].created < anchor.at,
         rev' = Append(Seal(r, class), Marker), now' = now + 2
  PROVE  /\ Goes /\ Rows' = Rows \cup {Len(rev) + 1} /\ Len(rev') = Len(rev) + 1
         /\ rev'[r].sealed # 0 /\ rev'[r].parent = ParentOf(r)
         /\ \A q \in Rows : q # r => rev'[q] = rev[q]
<1> PICK t : t = Seal(r, class)
  OBVIOUS
<1> PICK u : u = rev'
  OBVIOUS
<1> PICK x : x = Marker
  OBVIOUS
<1> PICK n : n = now + 1
  OBVIOUS
<1> PICK m : m = now + 2
  OBVIOUS
<1>1. /\ GoodHistory(t, n) /\ Grown(rev, t) /\ Len(t) = Len(rev) /\ DOMAIN t = Rows
      /\ t[r] = SealedRow(r, class) /\ t[r].sealed # 0
      /\ \A q \in Rows : q # r => t[q] = rev[q]
  BY Sealing
<1>2. now \in Nat /\ n \in Nat /\ m \in Nat /\ n <= m /\ now <= m /\ Len(rev) \in Nat /\ Rows = 1 .. Len(rev)
      /\ MaxRevisions \in Nat
  BY RowsAre, BoundsAssumption DEF HistoryShape
<1>3. anchor.r1 \in Nat /\ anchor.at \in Nat
  BY <1>2 DEF Nil
<1>4. /\ x \in RevRec /\ x.kind = "sr" /\ x.parent = anchor.r1 /\ x.class = "closed_forkable"
      /\ x.created = now + 2 /\ x.sealed = anchor.at /\ x.spliced = FALSE
  BY <1>2, <1>3, MarkerFacts
<1>5. u = Append(t, x) /\ t \in Seq(RevRec)
  BY <1>1 DEF GoodHistory
<1>6. DOMAIN u = 1 .. Len(rev) + 1 /\ u[Len(rev) + 1] = x /\ \A q \in Rows : u[q] = t[q]
  <2>1. Len(t) = Len(rev) /\ Len(t) \in Nat /\ x \in RevRec /\ Rows = 1 .. Len(t)
    BY <1>1, <1>2, <1>4
  <2>2. DOMAIN u = 1 .. Len(t) + 1 /\ u[Len(t) + 1] = x /\ \A q \in 1 .. Len(t) : u[q] = t[q]
    BY ONLY <1>5, <2>1
  <2> QED
    BY ONLY <2>1, <2>2
<1>7. \A q \in Rows : t[q].created = rev[q].created
  BY <1>1 DEF Grown, Keeps, Rows
<1>8. GoodIn(u, m, Len(t) + 1)
  <2>1. x.parent # Nil => x.parent \in Rows /\ u[x.parent].created < x.sealed
    <3>1. anchor.r1 # Nil => anchor.r1 \in Rows /\ u[anchor.r1].created = rev[anchor.r1].created
      BY <1>6, <1>7
    <3>2. x.parent = anchor.r1 /\ x.sealed = anchor.at
      BY <1>4
    <3> QED
      BY <3>1, <3>2
  <2>2. x.parent \in {Nil} \cup DOMAIN u
    BY <1>2, <1>4, <1>6
  <2>3. x.created \in 1 .. m /\ x.sealed \in 0 .. m /\ x.sealed # 0
    BY <1>2, <1>4
  <2>4. x.kind = "sr" /\ x.class # "in_flight"
    BY <1>4
  <2>5. u[Len(t) + 1] = x
    BY <1>1, <1>6
  <2> QED
    BY ONLY <2>1, <2>2, <2>3, <2>4, <2>5 DEF GoodIn, PastIn
<1>9. GoodHistory(u, m) /\ Grown(t, u) /\ Len(u) = Len(t) + 1
  <2>1. GoodHistory(t, n) /\ m \in Nat /\ n <= m /\ x \in RevRec
    BY <1>1, <1>2, <1>4
  <2>2. u = Append(t, x)
    BY <1>5
  <2> QED
    BY ONLY <2>1, <2>2, <1>8, Appending
<1>10. Grown(rev, u)
  BY <1>1, <1>6 DEF Grown, Keeps, Rows
<1>11. SealedRow(r, class).parent = ParentOf(r)
  BY SealForm
<1>12. Goes
  BY <1>1, <1>2, <1>9, <1>10 DEF Goes
<1>13. Rows' = Rows \cup {Len(rev) + 1} /\ Len(rev') = Len(rev) + 1
  BY <1>1, <1>2, <1>6, <1>9 DEF Rows
<1>14. rev'[r].sealed # 0 /\ rev'[r].parent = ParentOf(r)
  BY <1>1, <1>6, <1>11
<1> QED
  BY <1>1, <1>6, <1>12, <1>13, <1>14

LEMMA ForkedFacts ==
  ASSUME HistoryShape, HistoryRefs, AnchorRefs, anchor.id # Nil, Goes, NEW r \in Rows, NEW parent,
         rev'[r].parent = parent, views' = OnForkForked(OnResponseCompleted(views, r, parent))
  PROVE  views' \in Seq(ViewRec) /\ ViewRefs' /\ ViewsGrow
<1> PICK w : w = OnResponseCompleted(views, r, parent)
  OBVIOUS
<1> PICK x : x = [head |-> anchor.fork, origin |-> anchor.fork, label |-> "null",
                  bookmark |-> FALSE, live |-> TRUE]
  OBVIOUS
<1>1. r \in Nat
  BY RowsAre
<1>2. /\ w \in Seq(ViewRec) /\ Len(w) = Len(views) /\ DOMAIN w = DOMAIN views
      /\ \A v \in DOMAIN views :
           /\ w[v].origin = views[v].origin
           /\ w[v].head = IF parent # Nil /\ views[v].head = parent THEN r ELSE views[v].head
  BY ONLY HistoryShape, w = OnResponseCompleted(views, r, parent), <1>1, FollowFacts
<1>3. anchor.fork \in Rows /\ anchor.fork \in Nat
  BY RowsAre DEF AnchorRefs
<1>4. x \in ViewRec /\ x.head = anchor.fork /\ x.origin = anchor.fork
  BY <1>3 DEF ViewRec
<1>5. views' = Append(w, x)
  BY DEF OnForkForked
<1>6. \A v \in DOMAIN views : w[v].head \in Rows /\ w[v].origin \in Rows
  BY <1>2 DEF HistoryRefs, ViewRefs
<1>7. DOMAIN views' = 1 .. Len(w) + 1 /\ views'[Len(w) + 1] = x /\ \A v \in 1 .. Len(w) : views'[v] = w[v]
  BY <1>2, <1>4, <1>5
<1>8. DOMAIN w = 1 .. Len(w) /\ Len(w) \in Nat
  BY <1>2
<1>9. views' \in Seq(ViewRec)
  BY <1>2, <1>4, <1>5
<1>10. \A v \in DOMAIN views' : views'[v].head \in Rows /\ views'[v].origin \in Rows
  BY <1>2, <1>3, <1>4, <1>6, <1>7, <1>8
<1>11. Rows \subseteq Rows'
  BY GoesFacts
<1>12. ViewRefs'
  BY <1>10, <1>11 DEF ViewRefs
<1>13. ViewsGrow
  <2> SUFFICES ASSUME NEW v \in DOMAIN views'
      PROVE  \/ /\ v \in DOMAIN views /\ views'[v].origin = views[v].origin
                /\ \/ views'[v].head = views[v].head
                   \/ views'[v].head \in Rows' /\ rev'[views'[v].head].parent = views[v].head
             \/ views'[v].head = views'[v].origin
    BY DEF ViewsGrow
  <2>1. CASE v = Len(w) + 1
    BY <1>4, <1>7, <2>1
  <2>2. CASE v \in 1 .. Len(w)
    BY <1>2, <1>7, <1>8, <1>11, <2>2
  <2> QED
    BY <1>7, <1>8, <2>1, <2>2
<1> QED
  BY <1>9, <1>12, <1>13

LEMMA MarkerAfterFacts ==
  ASSUME anchor.sr \in {"gone", "bare", "deferred"}, NEW r, NEW class, rev[r].spliced \in BOOLEAN,
         NEW sr, sr = MarkerAfter(r, class)
  PROVE  /\ sr \in {"gone", "bare", "deferred"}
         /\ sr # "gone" => anchor.sr # "gone"
         /\ sr = "deferred" =>
              class = "open" /\ (anchor.sr = "deferred" \/ (anchor.sr = "bare" /\ rev[r].spliced))
         /\ sr = "bare" => anchor.sr = "bare" /\ ~rev[r].spliced
<1>1. CASE anchor.sr = "gone" \/ (anchor.sr = "bare" /\ ~rev[r].spliced)
  BY <1>1 DEF MarkerAfter
<1>2. CASE ~(anchor.sr = "gone" \/ (anchor.sr = "bare" /\ ~rev[r].spliced)) /\ class = "open"
  <2>1. sr = "deferred"
    BY <1>2 DEF MarkerAfter
  <2> QED
    BY <1>2, <2>1
<1>3. CASE ~(anchor.sr = "gone" \/ (anchor.sr = "bare" /\ ~rev[r].spliced)) /\ class # "open"
  <2>1. sr = "gone"
    BY <1>3 DEF MarkerAfter
  <2> QED
    BY <2>1
<1> QED
  BY <1>1, <1>2, <1>3

LEMMA CompleteKeeps ==
  ASSUME HistoryInv, NEW r \in Rows, rev[r].sealed = 0, NEW class \in Classes \ {"in_flight"},
         Complete(r, class), forks' = forks,
         \/ r = call /\ call' = Nil
         \/ rev[r].kind = "models" /\ class = "dangling_unforkable" /\ call' = call
  PROVE  /\ Goes /\ views' \in Seq(ViewRec) /\ ViewRefs' /\ ViewsGrow
         /\ AnchorRefs' /\ anchor' \in AnchorRec /\ MarkerRoom'
         /\ r # call /\ call # Nil => rev'[call] = rev[call]
<1> USE DEF HistoryInv
<1>1. anchor.sr \in {"gone", "bare", "deferred"} /\ Len(rev) \in Nat /\ MaxRevisions \in Nat
      /\ Len(rev) <= MaxRevisions
  BY BoundsAssumption, RowsAre DEF HistoryShape, AnchorRec
<1>2. rev[r].kind = "models" => ~rev[r].spliced
  BY DEF HistoryRows, GoodRow
<1>3. r # Nil
  BY RowsAre
<1> PICK sr : sr = MarkerAfter(r, class)
  OBVIOUS
<1>4. /\ sr \in {"gone", "bare", "deferred"}
      /\ sr # "gone" => anchor.sr # "gone"
      /\ sr = "deferred" =>
           class = "open" /\ (anchor.sr = "deferred" \/ (anchor.sr = "bare" /\ rev[r].spliced))
      /\ sr = "bare" => anchor.sr = "bare" /\ ~rev[r].spliced
  <2>1. rev[r].spliced \in BOOLEAN
    BY RowsAre DEF RevRec
  <2> QED
    BY ONLY <1>1, <2>1, sr = MarkerAfter(r, class), MarkerAfterFacts
<1>5. anchor' = [anchor EXCEPT !.sr = sr]
  BY DEF Complete
<1>6. /\ Goes /\ views' \in Seq(ViewRec) /\ ViewRefs' /\ ViewsGrow
      /\ (Len(rev') = Len(rev) \/ Departs(r, class))
      /\ \A q \in Rows : q # r => rev'[q] = rev[q]
  <2>1. CASE Departs(r, class)
    <3>1. anchor.sr # "gone" /\ (rev[r].spliced \/ anchor.sr = "deferred") /\ class = "closed_forkable"
      BY <2>1 DEF Departs
    <3>2. r = call
      BY <3>1
    <3>3. Len(rev) < MaxRevisions
      BY <1>1, <1>3, <3>1, <3>2 DEF HistoryAnchor, MarkerRoom
    <3>4. /\ anchor.id # Nil /\ anchor.at \in 1 .. now /\ anchor.r1 \in {Nil} \cup Rows
          /\ anchor.r1 # Nil => rev[anchor.r1].created < anchor.at
      BY <3>1 DEF HistoryAnchor, AnchorRefs
    <3>5. rev' = Append(Seal(r, class), Marker) /\ now' = now + 2
          /\ views' = OnForkForked(OnResponseCompleted(views, r, ParentOf(r)))
      BY <2>1 DEF Complete
    <3>6. Goes /\ rev'[r].parent = ParentOf(r) /\ \A q \in Rows : q # r => rev'[q] = rev[q]
      BY <3>3, <3>4, <3>5, DepartGoes
    <3>7. views' \in Seq(ViewRec) /\ ViewRefs' /\ ViewsGrow
      BY <3>4, <3>5, <3>6, ForkedFacts DEF HistoryAnchor
    <3> QED
      BY <2>1, <3>6, <3>7
  <2>2. CASE ~Departs(r, class)
    <3>1. rev' = Seal(r, class) /\ now' = now + 1 /\ views' = OnResponseCompleted(views, r, ParentOf(r))
      BY <2>2 DEF Complete
    <3>2. Goes /\ rev'[r].parent = ParentOf(r) /\ Len(rev') = Len(rev)
          /\ \A q \in Rows : q # r => rev'[q] = rev[q]
      BY <3>1, SealGoes
    <3>3. views' \in Seq(ViewRec) /\ ViewRefs' /\ ViewsGrow
      BY <3>1, <3>2, FollowRefs
    <3> QED
      BY <3>2, <3>3
  <2> QED
    BY <2>1, <2>2
<1>7. AnchorRefs' /\ anchor' \in AnchorRec /\ anchor'.sr = sr
  <2>1. HistoryShape /\ AnchorRefs /\ Goes /\ forks' = forks
    BY <1>6 DEF HistoryAnchor
  <2> QED
    BY ONLY <2>1, <1>4, <1>5, AnchorStays
<1>8. r # call /\ call # Nil => call \in Rows /\ rev'[call] = rev[call]
  BY <1>6 DEF HistoryCall
<1>9. MarkerRoom'
  <2>1. CASE sr = "deferred"
    <3>1. class = "open" /\ r = call /\ ~Departs(r, class)
      BY <1>4, <2>1 DEF Departs
    <3>2. Len(rev') = Len(rev)
      BY <1>6, <3>1
    <3>3. anchor.sr = "deferred" \/ (anchor.sr = "bare" /\ rev[r].spliced)
      BY <2>1, <1>4
    <3>4. Len(rev) < MaxRevisions
      BY <1>3, <3>1, <3>3 DEF HistoryAnchor, MarkerRoom
    <3> QED
      BY <3>2, <3>4 DEF MarkerRoom
  <2>2. CASE sr = "bare" /\ call' # Nil /\ rev'[call'].spliced
    <3>1. rev[r].kind = "models" /\ class = "dangling_unforkable" /\ call' = call
      BY <2>2
    <3>2. r # call
      BY <2>2, <3>1 DEF HistoryCall
    <3>3. rev[call].spliced /\ anchor.sr = "bare"
      BY <1>4, <1>8, <2>2, <3>1, <3>2
    <3>4. Len(rev) < MaxRevisions
      BY <2>2, <3>1, <3>3 DEF HistoryAnchor, MarkerRoom
    <3>5. Len(rev') = Len(rev)
      BY <1>6, <3>1 DEF Departs
    <3> QED
      BY <3>4, <3>5 DEF MarkerRoom
  <2> QED
    BY <1>7, <2>1, <2>2 DEF MarkerRoom
<1> QED
  BY <1>6, <1>7, <1>8, <1>9

LEMMA ClassFacts ==
  ASSUME NEW stop
  PROVE  Classify(stop) \in Classes \ {"in_flight"} /\ Classify("null") = "dangling_unforkable"
BY DEF Classify, Classes

LEMMA AnsweredKeeps ==
  ASSUME HistoryInv, NEW stop \in {"end_turn", "tool_use", "max_tokens"}, Answered(stop)
  PROVE  HistoryInv'
<1> USE DEF HistoryInv
<1>1. call # Nil /\ call \in Rows /\ rev[call].sealed = 0 /\ call' = Nil
      /\ forks' = forks /\ pair' = pair /\ dump' = dump /\ habit' = habit
  BY DEF Answered, HistoryCall
<1> PICK class : class = IF rev[call].kind = "count_tokens" THEN Classify("null") ELSE Classify(stop)
  OBVIOUS
<1>2. class \in Classes \ {"in_flight"} /\ Complete(call, class)
  BY ClassFacts DEF Answered
<1>3. /\ Goes /\ views' \in Seq(ViewRec) /\ ViewRefs'
      /\ AnchorRefs' /\ anchor' \in AnchorRec /\ MarkerRoom'
  BY <1>1, <1>2, CompleteKeeps
<1>4. /\ forks \in Nat /\ forks' \in Nat /\ pend \in 0 .. forks /\ phase \in {"typing", "tool", "result"}
      /\ used \subseteq {"rewind", "submit", "other"} /\ local \in Seq(LocalRec)
  BY <1>1 DEF HistoryShape
<1>5. /\ pend' \in 0 .. forks' /\ phase' \in {"typing", "tool", "result"}
      /\ used' \subseteq {"rewind", "submit", "other"}
      /\ local' = local \/ local' = Append(local, [turn |-> call, tok |-> pend])
  <2>1. CASE rev[call].kind = "turn"
    <3>1. /\ local' = Append(local, [turn |-> call, tok |-> pend]) /\ pend' = Nil /\ used' = {}
          /\ phase' = IF stop = "tool_use" THEN "tool" ELSE "typing"
      BY <2>1 DEF Answered
    <3> QED
      BY <1>1, <1>4, <3>1 DEF Nil
  <2>2. CASE rev[call].kind # "turn"
    <3>1. local' = local /\ pend' = pend /\ used' = used /\ phase' = phase
      BY <2>2 DEF Answered, client
    <3> QED
      BY <1>1, <1>4, <3>1
  <2> QED
    BY <2>1, <2>2
<1>6. local' \in Seq(LocalRec) /\ LocalRefs'
  <2>1. LocalRefs /\ Rows \subseteq Rows' /\ call \in Nat
    BY <1>1, <1>3, GoesFacts, RowsAre DEF HistoryRefs
  <2>2. CASE local' = local
    BY <1>1, <1>4, <2>1, <2>2 DEF LocalRefs
  <2>3. CASE local' = Append(local, [turn |-> call, tok |-> pend])
    <3> PICK x : x = [turn |-> call, tok |-> pend]
      OBVIOUS
    <3>1. x \in LocalRec /\ x.turn \in Rows' /\ x.tok \in 0 .. forks'
      BY <1>1, <1>4, <2>1 DEF LocalRec
    <3>2. local' = Append(local, x) /\ Len(local) \in Nat /\ DOMAIN local = 1 .. Len(local)
      BY <1>4, <2>3
    <3>3. /\ local' \in Seq(LocalRec) /\ DOMAIN local' = 1 .. Len(local) + 1
          /\ local'[Len(local) + 1] = x /\ \A i \in 1 .. Len(local) : local'[i] = local[i]
      BY <1>4, <3>1, <3>2
    <3>4. \A i \in 1 .. Len(local) : local[i].turn \in Rows' /\ local[i].tok \in 0 .. forks'
      BY <1>1, <2>1, <3>2 DEF LocalRefs
    <3> QED
      BY <3>1, <3>2, <3>3, <3>4 DEF LocalRefs
  <2> QED
    BY <1>5, <2>2, <2>3
<1>7. HistoryShape'
  BY <1>1, <1>3, <1>4, <1>5, <1>6, GoesFacts DEF HistoryShape, Goes
<1>8. HistoryRefs'
  BY <1>1, <1>3, <1>6, DumpStays DEF HistoryRefs
<1>9. HistoryRows' /\ HistoryCall'
  BY <1>1, <1>3, GoesFacts DEF HistoryCall
<1> QED
  BY <1>3, <1>7, <1>8, <1>9 DEF HistoryAnchor

LEMMA ModelsKeeps ==
  ASSUME HistoryInv, ModelsAnswered
  PROVE  HistoryInv'
<1> USE DEF HistoryInv
<1>1. PICK r \in Rows : rev[r].kind = "models" /\ ~Sealed(r) /\ Complete(r, Classify("null"))
                        /\ UNCHANGED <<forks, pair, dump, client, call, habit>>
  BY DEF ModelsAnswered
<1>2. /\ forks' = forks /\ pair' = pair /\ dump' = dump /\ call' = call /\ habit' = habit
      /\ local' = local /\ pend' = pend /\ phase' = phase /\ used' = used /\ rev[r].sealed = 0
  BY <1>1 DEF client, Sealed
<1>3. Classify("null") = "dangling_unforkable" /\ Classify("null") \in Classes \ {"in_flight"}
  BY ClassFacts
<1>4. call # Nil => call # r
  BY <1>1 DEF HistoryCall
<1>5. /\ Goes /\ views' \in Seq(ViewRec) /\ ViewRefs'
      /\ AnchorRefs' /\ anchor' \in AnchorRec /\ MarkerRoom'
      /\ call # Nil => rev'[call] = rev[call]
  BY <1>1, <1>2, <1>3, <1>4, CompleteKeeps
<1>6. HistoryShape'
  BY <1>2, <1>5, GoesFacts DEF HistoryShape, Goes
<1>7. HistoryRefs'
  <2>1. forks' \in Nat /\ forks <= forks'
    BY <1>2 DEF HistoryShape
  <2> QED
    BY <1>2, <1>5, <2>1, LocalStays, DumpStays DEF HistoryRefs
<1>8. HistoryRows' /\ HistoryCall'
  BY <1>2, <1>5, GoesFacts DEF HistoryCall
<1> QED
  BY <1>5, <1>6, <1>7, <1>8 DEF HistoryAnchor

LEMMA BrokenOffKeeps ==
  ASSUME HistoryInv, Refused \/ MarkDangling
  PROVE  HistoryInv'
<1> USE DEF HistoryInv
<1>1. /\ call # Nil /\ call \in Rows /\ rev[call].sealed = 0 /\ call' = Nil
      /\ anchor' = anchor /\ forks' = forks /\ pair' = pair /\ dump' = dump /\ habit' = habit
      /\ local' = local /\ pend' = pend /\ phase' = phase /\ used' = used
      /\ rev' = Seal(call, "dangling_unforkable") /\ now' = now + 1
      /\ views' = views \/ views' = OnResponseCompleted(views, call, ParentOf(call))
  BY DEF Refused, MarkDangling, HistoryCall, toolVars, client
<1>2. "dangling_unforkable" \in Classes \ {"in_flight"}
  BY DEF Classes
<1>3. Goes /\ Len(rev') = Len(rev) /\ rev'[call].parent = ParentOf(call)
  BY <1>1, <1>2, SealGoes
<1>4. views' \in Seq(ViewRec) /\ ViewRefs'
  BY <1>1, <1>3, FollowRefs, ViewsStay DEF HistoryShape
<1>5. AnchorRefs' /\ anchor' \in AnchorRec
  BY <1>1, <1>3, AnchorSame DEF HistoryAnchor
<1>6. MarkerRoom'
  BY <1>1, <1>3 DEF HistoryAnchor, MarkerRoom
<1>7. HistoryShape'
  BY <1>1, <1>3, <1>4, <1>5, GoesFacts DEF HistoryShape, Goes
<1>8. HistoryRefs'
  <2>1. forks' \in Nat /\ forks <= forks'
    BY <1>1 DEF HistoryShape
  <2> QED
    BY <1>1, <1>3, <1>4, <2>1, LocalStays, DumpStays DEF HistoryRefs
<1>9. HistoryRows' /\ HistoryCall'
  BY <1>1, <1>3, GoesFacts DEF HistoryCall
<1> QED
  BY <1>5, <1>6, <1>7, <1>8, <1>9 DEF HistoryAnchor

LEMMA AskModelsKeeps ==
  ASSUME HistoryInv, AskModels
  PROVE  HistoryInv'
<1> USE DEF HistoryInv
<1>1. /\ views' = views /\ anchor' = anchor /\ forks' = forks /\ pair' = pair /\ dump' = dump
      /\ habit' = habit /\ call' = call /\ Room
      /\ local' = local /\ pend' = pend /\ phase' = phase /\ used' = used /\ now' = now + 1
  BY DEF AskModels, toolVars, client
<1> PICK x : x = Row("models", Nil, "in_flight", 0, <<>>, FALSE)
  OBVIOUS
<1>2. "models" \in Kind /\ <<>> \in Body /\ Nil \in Nat
  BY EmptySeq DEF Kind, Side, Body, Nil
<1>3. /\ x \in RevRec /\ x.kind = "models" /\ x.parent = Nil /\ x.class = "in_flight"
      /\ x.sealed = 0 /\ x.created = now + 1 /\ x.spliced = FALSE
  <2> PICK kind \in Kind, p \in Nat, b \in Body, s \in BOOLEAN :
        kind = "models" /\ p = Nil /\ b = <<>> /\ s = FALSE
    BY <1>2
  <2>1. x = Row(kind, p, "in_flight", 0, b, s) /\ kind # "sr"
    OBVIOUS
  <2>2. /\ x \in RevRec /\ x.kind = kind /\ x.parent = p /\ x.class = "in_flight"
        /\ x.sealed = 0 /\ x.created = now + 1 /\ x.spliced = s
    <3>1. HistoryShape
      OBVIOUS
    <3>2. kind \in Kind /\ p \in Nat /\ b \in Body /\ s \in BOOLEAN
      OBVIOUS
    <3> QED
      BY ONLY <2>1, <3>1, <3>2, OpenedRow
  <2> QED
    BY <2>2
<1>4. rev' = Append(rev, x) /\ Len(rev) \in Nat /\ MaxRevisions \in Nat
      /\ Len(rev) < MaxRevisions /\ (anchor.sr # "gone" => Len(rev) + 1 < MaxRevisions)
  BY <1>1, BoundsAssumption, RowsAre DEF AskModels, Room
<1>5. Goes /\ Len(rev') = Len(rev) + 1 /\ \A r \in Rows : rev'[r] = rev[r]
  BY <1>1, <1>3, <1>4, Opening
<1>6. AnchorRefs' /\ anchor' \in AnchorRec
  BY <1>1, <1>5, AnchorSame DEF HistoryAnchor
<1>7. MarkerRoom'
  BY <1>1, <1>4, <1>5 DEF MarkerRoom
<1>8. HistoryShape'
  BY <1>1, <1>5, <1>6, GoesFacts DEF HistoryShape, Goes
<1>9. HistoryRefs'
  <2>1. forks' \in Nat /\ forks <= forks'
    BY <1>1 DEF HistoryShape
  <2> QED
    BY <1>1, <1>5, <2>1, ViewsStay, LocalStays, DumpStays DEF HistoryRefs
<1>10. HistoryRows' /\ HistoryCall'
  BY <1>1, <1>5, GoesFacts DEF HistoryCall
<1> QED
  BY <1>6, <1>7, <1>8, <1>9, <1>10 DEF HistoryAnchor

(* The tools and the user's edits leave the rows as they are. *)
LEMMA ToolKeeps ==
  ASSUME HistoryInv, rev' = rev, now' \in {now, now + 1}, call = Nil, call' = call,
         phase' = phase, habit' = habit,
         used' \subseteq {"rewind", "submit", "other"}, pair' \subseteq {"rewind", "submit"},
         local' \in Seq(LocalRec), LocalRefs',
         views' \in Seq(ViewRec), ViewRefs', dump' \in DumpRec, DumpRef',
         forks' \in Nat, forks <= forks', pend' \in 0 .. forks',
         anchor' \in AnchorRec, AnchorRefs', anchor'.sr = "deferred" => anchor.sr = "deferred"
  PROVE  HistoryInv'
<1> USE DEF HistoryInv
<1>1. Goes
  BY Standing
<1>2. HistoryShape'
  BY <1>1, GoesFacts DEF HistoryShape, Goes
<1>3. MarkerRoom'
  BY DEF HistoryAnchor, MarkerRoom
<1>4. HistoryRows' /\ HistoryCall'
  BY <1>1, GoesFacts DEF HistoryCall
<1> QED
  BY <1>2, <1>3, <1>4 DEF HistoryRefs, HistoryAnchor

LEMMA ToolUseFacts ==
  ASSUME HistoryInv, NEW name \in {"rewind", "submit", "other"}, ToolUse(name)
  PROVE  /\ rev' = rev /\ call = Nil /\ call' = call /\ phase' = phase /\ habit' = habit
         /\ used' \subseteq {"rewind", "submit", "other"}
         /\ local' = local /\ local \in Seq(LocalRec)
         /\ used' = used \cup {name}
<1>1. used \subseteq {"rewind", "submit", "other"} /\ local \in Seq(LocalRec)
  BY DEF HistoryInv, HistoryShape
<1> QED
  BY <1>1 DEF ToolUse

(* What a tool that is asked nothing of the anchor leaves as it was. *)
LEMMA SameFacts ==
  ASSUME HistoryInv, rev' = rev, now' \in {now, now + 1}, forks' \in Nat, forks <= forks'
  PROVE  /\ local' = local => LocalRefs' /\ local' \in Seq(LocalRec)
         /\ views' = views => ViewRefs' /\ views' \in Seq(ViewRec)
         /\ dump' = dump => DumpRef' /\ dump' \in DumpRec
         /\ anchor' = anchor /\ forks' = forks => AnchorRefs' /\ anchor' \in AnchorRec
<1> USE DEF HistoryInv
<1>1. Goes
  BY Standing
<1> QED
  BY <1>1, LocalStays, ViewsStay, DumpStays, AnchorSame DEF HistoryShape, HistoryAnchor

LEMMA InsertedFacts ==
  ASSUME HistoryInv, rev' = rev, NEW kind \in {"rewind", "submit"}, NEW base \in Body,
         NEW fork \in Rows, rev[fork].sealed # 0, InsertActiveAnchor(kind, base, fork)
  PROVE  /\ now' = now + 1 /\ forks' \in Nat /\ forks <= forks' /\ pend' \in 0 .. forks'
         /\ anchor' \in AnchorRec /\ AnchorRefs' /\ anchor'.sr = "bare"
<1> USE DEF HistoryInv
<1>1. now \in Nat /\ forks \in Nat /\ fork \in Nat /\ Rows \subseteq Nat /\ Rows' = Rows
  BY RowsAre DEF HistoryShape, Rows
<1>2. MostRecentRevision \in {Nil} \cup Rows
  BY MostRecentFacts
<1> PICK r1 : r1 = MostRecentRevision
  OBVIOUS
<1>3. r1 # Nil => rev[r1].created < now + 1
  <2>1. \A r \in Rows : rev[r].created \in 1 .. now
    BY DEF HistoryRows, GoodRow
  <2>2. \A r \in Rows : rev[r].created < now + 1
    BY <1>1, <2>1
  <2> QED
    BY <1>2, <2>2
<1>4. /\ forks' = forks + 1 /\ pend' = forks + 1 /\ now' = now + 1
      /\ anchor' = [id |-> forks + 1, base |-> base, fork |-> fork,
                    r1 |-> r1, at |-> now + 1, sr |-> "bare", kind |-> kind]
  BY DEF InsertActiveAnchor
<1>5. r1 \in Nat
  BY <1>1, <1>2 DEF Nil
<1>6. /\ anchor' \in AnchorRec /\ anchor'.id = forks + 1 /\ anchor'.fork = fork /\ anchor'.r1 = r1
      /\ anchor'.at = now + 1 /\ anchor'.sr = "bare"
  BY <1>1, <1>4, <1>5 DEF AnchorRec
<1>7. /\ anchor'.id \in 0 .. forks' /\ anchor'.id # Nil /\ anchor'.at \in 1 .. now'
      /\ forks' \in Nat /\ forks <= forks' /\ pend' \in 0 .. forks'
  BY <1>1, <1>4, <1>6 DEF Nil
<1>8. AnchorRefs'
  BY <1>1, <1>2, <1>3, <1>4, <1>6, <1>7 DEF AnchorRefs
<1> QED
  BY <1>4, <1>6, <1>7, <1>8

LEMMA RulesKeep ==
  ASSUME HistoryInv, OtherTool \/ \E tool \in {"rewind", "submit"} : ReturnRules(tool)
  PROVE  HistoryInv'
<1>1. PICK name \in {"rewind", "submit", "other"} : ToolUse(name)
  BY DEF OtherTool, ReturnRules
<1>2. /\ now' = now /\ views' = views /\ anchor' = anchor /\ forks' = forks /\ dump' = dump
      /\ pend' = pend /\ pair' \subseteq {"rewind", "submit"}
  BY DEF OtherTool, ReturnRules, toolVars, HistoryInv, HistoryShape
<1>3. forks' \in Nat /\ forks <= forks' /\ pend' \in 0 .. forks'
  BY <1>2 DEF HistoryInv, HistoryShape
<1> QED
  BY <1>1, <1>2, <1>3, ToolUseFacts, SameFacts, ToolKeeps

LEMMA RewindKeeps ==
  ASSUME HistoryInv, NEW target, RewindTo(target),
         target = Nil \/ (target \in Rows /\ rev[target].sealed # 0)
  PROVE  HistoryInv'
<1>1. ToolUse("rewind") /\ pair' = pair \ {"rewind"} /\ views' = views /\ dump' = dump
  BY DEF RewindTo, Confirmed
<1>2. /\ rev' = rev /\ call = Nil /\ call' = call /\ phase' = phase /\ habit' = habit
      /\ used' \subseteq {"rewind", "submit", "other"}
      /\ local' = local /\ local \in Seq(LocalRec)
  BY <1>1, ToolUseFacts
<1>3. pair' \subseteq {"rewind", "submit"}
  BY <1>1 DEF HistoryInv, HistoryShape
<1>4. /\ now' \in {now, now + 1} /\ forks' \in Nat /\ forks <= forks' /\ pend' \in 0 .. forks'
      /\ anchor' \in AnchorRec /\ AnchorRefs'
      /\ anchor'.sr = "deferred" => anchor.sr = "deferred"
  <2> DEFINE base == IF target = Nil THEN NoMessages ELSE ReconstructForkMessages(target)
  <2>1. CASE base # NoMessages /\ InsertActiveAnchor("rewind", base, target)
    <3>1. target # Nil
      BY <2>1
    <3>2. base \in Body
      BY <3>1, ReconstructFacts DEF HistoryInv
    <3> HIDE DEF base
    <3> QED
      BY <1>2, <2>1, <3>1, <3>2, InsertedFacts
  <2>2. CASE anchor' = anchor /\ forks' = forks /\ pend' = pend /\ now' = now
    <3>1. forks' \in Nat /\ forks <= forks' /\ pend' \in 0 .. forks'
      BY <2>2 DEF HistoryInv, HistoryShape
    <3> QED
      BY <1>2, <2>2, <3>1, SameFacts
  <2> QED
    BY <2>1, <2>2 DEF RewindTo
<1> QED
  BY <1>1, <1>2, <1>3, <1>4, SameFacts, ToolKeeps

LEMMA SubmitKeeps ==
  ASSUME HistoryInv, SubmitFile
  PROVE  HistoryInv'
<1>1. ToolUse("submit") /\ pair' = pair \ {"submit"} /\ views' = views /\ dump' = dump
  BY DEF SubmitFile, Confirmed
<1>2. /\ rev' = rev /\ call = Nil /\ call' = call /\ phase' = phase /\ habit' = habit
      /\ used' \subseteq {"rewind", "submit", "other"}
      /\ local' = local /\ local \in Seq(LocalRec)
  BY <1>1, ToolUseFacts
<1>3. pair' \subseteq {"rewind", "submit"}
  BY <1>1 DEF HistoryInv, HistoryShape
<1>4. /\ now' \in {now, now + 1} /\ forks' \in Nat /\ forks <= forks' /\ pend' \in 0 .. forks'
      /\ anchor' \in AnchorRec /\ AnchorRefs'
      /\ anchor'.sr = "deferred" => anchor.sr = "deferred"
  <2>1. CASE MostRecentForkableRevision # Nil
             /\ InsertActiveAnchor("submit", dump.msgs, MostRecentForkableRevision)
    <3>1. dump.msgs \in Body
      BY DEF HistoryInv, HistoryShape, DumpRec
    <3>2. MostRecentForkableRevision \in Rows /\ rev[MostRecentForkableRevision].sealed # 0
      BY <2>1, MostRecentFacts DEF HistoryInv
    <3> QED
      BY <1>2, <2>1, <3>1, <3>2, InsertedFacts
  <2>2. CASE anchor' = anchor /\ forks' = forks /\ pend' = pend /\ now' = now
    <3>1. forks' \in Nat /\ forks <= forks' /\ pend' \in 0 .. forks'
      BY <2>2 DEF HistoryInv, HistoryShape
    <3> QED
      BY <1>2, <2>2, <3>1, SameFacts
  <2> QED
    BY <2>1, <2>2 DEF SubmitFile
<1> QED
  BY <1>1, <1>2, <1>3, <1>4, SameFacts, ToolKeeps

(* What the tools that only write views or a file leave as it was. *)
LEMMA OtherKeeps ==
  ASSUME HistoryInv, ToolUse("other"), now' = now, anchor' = anchor, forks' = forks,
         pair' = pair, pend' = pend, views' \in Seq(ViewRec), ViewRefs', dump' \in DumpRec, DumpRef'
  PROVE  HistoryInv'
<1>1. /\ rev' = rev /\ call = Nil /\ call' = call /\ phase' = phase /\ habit' = habit
      /\ used' \subseteq {"rewind", "submit", "other"}
      /\ local' = local /\ local \in Seq(LocalRec)
  BY ToolUseFacts
<1>2. /\ pair' \subseteq {"rewind", "submit"} /\ forks' \in Nat /\ forks <= forks'
      /\ pend' \in 0 .. forks'
  BY DEF HistoryInv, HistoryShape
<1> QED
  BY <1>1, <1>2, SameFacts, ToolKeeps

LEMMA BookmarkFacts ==
  ASSUME HistoryShape, HistoryRows, NEW label \in {"null", "L"}, MostRecentForkableRevision # Nil,
         NEW x, x = [head |-> MostRecentForkableRevision, origin |-> MostRecentForkableRevision,
                     label |-> label, bookmark |-> TRUE, live |-> TRUE]
  PROVE  x \in ViewRec /\ x.head \in Rows /\ x.origin = x.head
<1>1. MostRecentForkableRevision \in Rows /\ MostRecentForkableRevision \in Nat
  BY MostRecentFacts, RowsAre
<1> PICK m : m = MostRecentForkableRevision
  OBVIOUS
<1> QED
  BY <1>1 DEF ViewRec

LEMMA BookmarkKeeps ==
  ASSUME HistoryInv, NEW label \in {"null", "L"}, Bookmark(label)
  PROVE  HistoryInv'
<1> PICK x : x = [head |-> MostRecentForkableRevision, origin |-> MostRecentForkableRevision,
                  label |-> label, bookmark |-> TRUE, live |-> TRUE]
  OBVIOUS
<1>1. x \in ViewRec /\ x.head \in Rows /\ x.origin = x.head
  BY BookmarkFacts DEF Bookmark, HistoryInv
<1>2. views' = Append(views, x) /\ views \in Seq(ViewRec) /\ Rows' = Rows
  BY DEF Bookmark, ToolUse, HistoryInv, HistoryShape, Rows
<1>3. /\ views' \in Seq(ViewRec) /\ DOMAIN views' = 1 .. Len(views) + 1
      /\ DOMAIN views = 1 .. Len(views) /\ Len(views) \in Nat
      /\ views'[Len(views) + 1] = x /\ \A v \in 1 .. Len(views) : views'[v] = views[v]
  BY <1>1, <1>2
<1>4. ViewRefs'
  <2>1. \A v \in 1 .. Len(views) : views[v].head \in Rows /\ views[v].origin \in Rows
    BY <1>3 DEF HistoryInv, HistoryRefs, ViewRefs
  <2> QED
    BY <1>1, <1>2, <1>3, <2>1 DEF ViewRefs
<1>5. /\ ToolUse("other") /\ now' = now /\ anchor' = anchor /\ forks' = forks /\ pair' = pair
      /\ pend' = pend /\ dump' = dump /\ rev' = rev
  BY DEF Bookmark, toolVars, ToolUse
<1>6. dump' \in DumpRec /\ DumpRef'
  BY <1>5, <1>2 DEF HistoryInv, HistoryShape, HistoryRefs, DumpRef
<1> QED
  BY <1>3, <1>4, <1>5, <1>6, OtherKeeps

LEMMA DeletedFacts ==
  ASSUME HistoryShape, NEW label, DeleteBookmark(label), NEW w, w = views'
  PROVE  /\ w \in Seq(ViewRec) /\ DOMAIN w = DOMAIN views
         /\ \A v \in DOMAIN views : w[v].head = views[v].head /\ w[v].origin = views[v].origin
<1> DEFINE named == {v \in DOMAIN views : views[v].live /\ views[v].label = label}
<1>1. views \in Seq(ViewRec) /\ DOMAIN views = 1 .. Len(views) /\ Len(views) \in Nat
  BY DEF HistoryShape
<1>2. w = [v \in 1 .. Len(views) |-> IF v \in named THEN [views[v] EXCEPT !.live = FALSE] ELSE views[v]]
  BY <1>1 DEF DeleteBookmark
<1> HIDE DEF named
<1>3. \A v \in 1 .. Len(views) : views[v] \in ViewRec
  BY <1>1
<1>4. \A x \in ViewRec : /\ [x EXCEPT !.live = FALSE] \in ViewRec
                         /\ [x EXCEPT !.live = FALSE].head = x.head
                         /\ [x EXCEPT !.live = FALSE].origin = x.origin
  BY DEF ViewRec
<1>5. \A v \in 1 .. Len(views) :
        w[v] \in ViewRec /\ w[v].head = views[v].head /\ w[v].origin = views[v].origin
  BY <1>2, <1>3, <1>4
<1>6. w \in Seq(ViewRec) /\ DOMAIN w = 1 .. Len(views)
  <2>1. w = [v \in 1 .. Len(views) |-> w[v]]
    BY <1>2
  <2> QED
    BY <1>1, <1>5, <2>1
<1> QED
  BY <1>1, <1>5, <1>6

LEMMA DeleteKeeps ==
  ASSUME HistoryInv, NEW label, DeleteBookmark(label)
  PROVE  HistoryInv'
<1> PICK w : w = views'
  OBVIOUS
<1>1. /\ w \in Seq(ViewRec) /\ DOMAIN w = DOMAIN views
      /\ \A v \in DOMAIN views : w[v].head = views[v].head /\ w[v].origin = views[v].origin
  BY DeletedFacts DEF HistoryInv
<1>2. /\ ToolUse("other") /\ now' = now /\ anchor' = anchor /\ forks' = forks /\ pair' = pair
      /\ pend' = pend /\ dump' = dump /\ rev' = rev /\ Rows' = Rows
  BY DEF DeleteBookmark, toolVars, ToolUse, Rows
<1>3. ViewRefs'
  BY <1>1, <1>2 DEF HistoryInv, HistoryRefs, ViewRefs
<1>4. dump' \in DumpRec /\ DumpRef'
  BY <1>2 DEF HistoryInv, HistoryShape, HistoryRefs, DumpRef
<1> QED
  BY <1>1, <1>2, <1>3, <1>4, OtherKeeps

LEMMA DumpKeeps ==
  ASSUME HistoryInv, NEW target \in {Nil} \cup Rows, DumpToFile(target)
  PROVE  HistoryInv'
<1> PICK msgs : msgs = DumpOf(target)
  OBVIOUS
<1>1. target \in Rows /\ target \in Nat
  BY RowsAre DEF DumpToFile, HistoryInv
<1>2. msgs \in Body
  <2>1. anchor.base \in Body
    BY DEF HistoryInv, HistoryShape, AnchorRec
  <2>2. UpToAnswer(anchor.base) \in Body /\ ReconstructForkMessages(target) \in Body
    BY <1>1, <2>1, UpToAnswerFacts, ReconstructFacts DEF HistoryInv
  <2> QED
    BY <2>2 DEF DumpOf
<1> PICK f \in BOOLEAN : f = FromFork(target)
  BY DEF FromFork
<1>3. dump' = [of |-> target, msgs |-> msgs, fork |-> f]
  BY DEF DumpToFile
<1>4. dump' \in DumpRec /\ dump'.of = target
  BY <1>1, <1>2, <1>3 DEF DumpRec
<1>5. /\ ToolUse("other") /\ now' = now /\ anchor' = anchor /\ forks' = forks /\ pair' = pair
      /\ pend' = pend /\ views' = views /\ rev' = rev /\ Rows' = Rows
  BY DEF DumpToFile, ToolUse, Rows
<1>6. DumpRef'
  BY <1>1, <1>4, <1>5 DEF DumpRef
<1>7. views' \in Seq(ViewRec) /\ ViewRefs'
  BY <1>5 DEF HistoryInv, HistoryShape, HistoryRefs, ViewRefs
<1> QED
  BY <1>4, <1>5, <1>6, <1>7, OtherKeeps

LEMMA ToolCallKeeps ==
  ASSUME HistoryInv, ToolCall
  PROVE  HistoryInv'
<1>1. CASE OtherTool \/ ReturnRules("rewind") \/ ReturnRules("submit")
  BY <1>1, RulesKeep
<1>2. CASE RewindBack
  <2>1. PICK n \in 1 .. MaxBack : RewindTo(Target(n))
    BY <1>2 DEF RewindBack
  <2> QED
    BY <2>1, TargetFacts, RewindKeeps DEF HistoryInv
<1>3. CASE RewindToTurn
  <2>1. PICK t \in RecallList \cup {views[v].head : v \in DOMAIN views} : RewindTo(Named(t))
    BY <1>3 DEF RewindToTurn
  <2>2. t \in Rows
    BY DEF RecallList, HistoryInv, HistoryRefs, ViewRefs
  <2> QED
    BY <2>1, <2>2, NamedFacts, RewindKeeps DEF HistoryInv
<1>4. CASE Bookmark("null") \/ Bookmark("L")
  BY <1>4, BookmarkKeeps
<1>5. CASE DeleteBookmark("L")
  BY <1>5, DeleteKeeps
<1>6. CASE \E t \in {DumpTarget} \cup {Named(r) : r \in RecallList} : DumpToFile(t)
  <2>1. PICK t \in {DumpTarget} \cup {Named(r) : r \in RecallList} : DumpToFile(t)
    BY <1>6
  <2>2. DumpTarget \in {Nil} \cup Rows
    BY MostRecentFacts, TargetFacts DEF DumpTarget, HistoryInv
  <2>3. \A r \in RecallList : Named(r) \in {Nil} \cup Rows
    BY NamedFacts DEF RecallList, HistoryInv
  <2>4. t \in {Nil} \cup Rows
    BY <2>2, <2>3
  <2> QED
    BY <2>1, <2>4, DumpKeeps
<1>7. CASE SubmitFile
  BY <1>7, SubmitKeeps
<1> QED
  BY <1>1, <1>2, <1>3, <1>4, <1>5, <1>6, <1>7 DEF ToolCall

LEMMA CutBackKeeps ==
  ASSUME HistoryInv, CutBack
  PROVE  HistoryInv'
<1>1. /\ rev' = rev /\ now' = now /\ views' = views /\ anchor' = anchor /\ forks' = forks
      /\ pair' = pair /\ dump' = dump /\ pend' = pend /\ phase' = phase /\ used' = used
      /\ call' = call /\ call = Nil /\ habit' = habit /\ Rows' = Rows
  BY DEF CutBack, toolVars, Rows
<1>2. PICK n \in 0 .. Len(local) - 1 : local' = SubSeq(local, 1, n)
  BY DEF CutBack
<1>3. local \in Seq(LocalRec) /\ Len(local) \in Nat /\ DOMAIN local = 1 .. Len(local)
  BY DEF HistoryInv, HistoryShape
<1>4. /\ local' \in Seq(LocalRec) /\ DOMAIN local' = 1 .. n
      /\ \A i \in 1 .. n : local'[i] = local[i] /\ i \in 1 .. Len(local)
  BY <1>2, <1>3
<1>5. LocalRefs'
  <2>1. \A i \in 1 .. Len(local) : local[i].turn \in Rows /\ local[i].tok \in 0 .. forks
    BY <1>3 DEF HistoryInv, HistoryRefs, LocalRefs
  <2> QED
    BY <1>1, <1>4, <2>1 DEF LocalRefs
<1>6. /\ used' \subseteq {"rewind", "submit", "other"} /\ pair' \subseteq {"rewind", "submit"}
      /\ forks' \in Nat /\ forks <= forks' /\ pend' \in 0 .. forks'
  BY <1>1 DEF HistoryInv, HistoryShape
<1> QED
  BY <1>1, <1>4, <1>5, <1>6, SameFacts, ToolKeeps

LEMMA ClearKeeps ==
  ASSUME HistoryInv, Clear
  PROVE  HistoryInv'
<1>1. /\ rev' = rev /\ now' = now /\ views' = views /\ anchor' = NoAnchorRow /\ forks' = forks
      /\ pair' = pair /\ dump' = dump /\ pend' = pend /\ phase' = phase /\ used' = used
      /\ call' = call /\ call = Nil /\ habit' = habit /\ local' = <<>>
  BY DEF Clear
<1>2. /\ used' \subseteq {"rewind", "submit", "other"} /\ pair' \subseteq {"rewind", "submit"}
      /\ forks' \in Nat /\ forks <= forks' /\ pend' \in 0 .. forks'
  BY <1>1 DEF HistoryInv, HistoryShape
<1>3. anchor' \in AnchorRec /\ AnchorRefs'
  BY <1>1, NoAnchorFacts DEF HistoryInv
<1>4. local' \in Seq(LocalRec) /\ LocalRefs'
  BY <1>1, EmptySeq DEF LocalRefs
<1>5. anchor'.sr = "gone"
  BY <1>1 DEF NoAnchorRow
<1> QED
  BY <1>1, <1>2, <1>3, <1>4, <1>5, SameFacts, ToolKeeps

LEMMA HistoryStep ==
  ASSUME HistoryInv, [ConversationNext]_conversationVars
  PROVE  HistoryInv'
<1>1. CASE \E kind \in Kind : SendMessages(kind)
  BY <1>1, SendKeeps
<1>2. CASE \E stop \in {"end_turn", "tool_use", "max_tokens"} : Answered(stop)
  BY <1>2, AnsweredKeeps
<1>3. CASE Refused \/ MarkDangling
  BY <1>3, BrokenOffKeeps
<1>4. CASE AskModels
  BY <1>4, AskModelsKeeps
<1>5. CASE ModelsAnswered
  BY <1>5, ModelsKeeps
<1>6. CASE ToolCall
  BY <1>6, ToolCallKeeps
<1>7. CASE CutBack
  BY <1>7, CutBackKeeps
<1>8. CASE Clear
  BY <1>8, ClearKeeps
<1>9. CASE UNCHANGED conversationVars
  <2>1. /\ rev' = rev /\ now' = now /\ views' = views /\ anchor' = anchor /\ forks' = forks
        /\ pair' = pair /\ dump' = dump /\ local' = local /\ pend' = pend /\ phase' = phase
        /\ used' = used /\ call' = call /\ habit' = habit
    BY <1>9 DEF conversationVars
  <2> QED
    BY <2>1 DEF HistoryInv, HistoryShape, HistoryRows, GoodRow, PastOf, HistoryRefs, ViewRefs,
                LocalRefs, DumpRef, HistoryAnchor, AnchorRefs, MarkerRoom, HistoryCall, Rows
<1> QED
  BY <1>1, <1>2, <1>3, <1>4, <1>5, <1>6, <1>7, <1>8, <1>9 DEF ConversationNext

THEOREM HistoryInvariant == ConversationSpec => []HistoryInv
<1>1. HistoryInv /\ [ConversationNext]_conversationVars => HistoryInv'
  BY HistoryStep
<1> QED
  BY HistoryStart, <1>1, PTL DEF ConversationSpec

(* Every chain of parents leads back in time: in every conversation, whatever its habits *)
(* and however long it is, a call's parent was sealed before the call began.             *)
THEOREM ParentsLeadBack == ConversationSpec => []ChainsGoBack
<1>1. HistoryInv => ChainsGoBack
  BY Shown
<1> QED
  BY HistoryInvariant, <1>1, PTL

-----------------------------------------------------------------------------
(* The branch views. *)

ParentsStay ==
  Rows \subseteq Rows' /\ \A r \in Rows : rev[r].parent # Nil => rev'[r].parent = rev[r].parent

LEMMA GoesParents == ASSUME HistoryShape, Goes PROVE ParentsStay
<1>1. Rows \subseteq Rows'
  BY GoesFacts
<1>2. \A r \in Rows : rev[r].parent # Nil => rev'[r].parent = rev[r].parent
  BY DEF Goes, Grown, Keeps, Rows
<1> QED
  BY <1>1, <1>2 DEF ParentsStay

LEMMA AppendedParents ==
  ASSUME HistoryShape, NEW x, rev' = Append(rev, x)
  PROVE  ParentsStay
<1>1. rev \in Seq(RevRec) /\ DOMAIN rev = 1 .. Len(rev) /\ Len(rev) \in Nat
  BY DEF HistoryShape
<1>2. DOMAIN rev' = 1 .. Len(rev) + 1 /\ \A r \in 1 .. Len(rev) : rev'[r] = rev[r]
  BY <1>1
<1> QED
  BY <1>1, <1>2 DEF ParentsStay, Rows

LEMMA GrownViews ==
  ASSUME HistoryInv, BookmarksGrowFromTheirSpot, ParentsStay, ViewsGrow
  PROVE  BookmarksGrowFromTheirSpot'
<1> SUFFICES ASSUME NEW v \in DOMAIN views', NEW S \in SUBSET Rows',
                    views'[v].head \in S, ParentClosed(S)'
             PROVE  views'[v].origin \in S
  BY DEF BookmarksGrowFromTheirSpot
<1> DEFINE T == S \cap Rows
<1>1. \A r \in Rows : rev[r].parent \in {Nil} \cup Rows
  BY DEF HistoryInv, HistoryRows, GoodRow
<1>2. \A r \in S : rev'[r].parent \in {Nil} \cup S
  BY DEF ParentClosed
<1>3. \A r \in T : rev[r].parent \in {Nil} \cup T
  BY <1>1, <1>2 DEF ParentsStay
<1>4. ParentClosed(T) /\ T \in SUBSET Rows
  BY <1>3 DEF ParentClosed
<1> HIDE DEF T
<1>5. \A u \in DOMAIN views : views[u].head \in T => views[u].origin \in T
  BY <1>4 DEF BookmarksGrowFromTheirSpot
<1>6. \A u \in DOMAIN views : views[u].head \in Rows /\ views[u].head # Nil
  <2>1. Nil \notin Rows
    BY RowsAre DEF HistoryInv
  <2> QED
    BY <2>1 DEF HistoryInv, HistoryRefs, ViewRefs
<1>7. CASE views'[v].head = views'[v].origin
  BY <1>7
<1>8. CASE v \in DOMAIN views /\ views'[v].origin = views[v].origin /\ views'[v].head = views[v].head
  <2>1. views[v].head \in T
    BY <1>6, <1>8 DEF T
  <2> QED
    BY <1>5, <1>8, <2>1 DEF T
<1>9. CASE v \in DOMAIN views /\ views'[v].origin = views[v].origin
           /\ rev'[views'[v].head].parent = views[v].head
  <2>1. views[v].head \in T
    BY <1>2, <1>6, <1>9 DEF T
  <2> QED
    BY <1>5, <1>9, <2>1 DEF T
<1> QED
  BY <1>7, <1>8, <1>9 DEF ViewsGrow

LEMMA SameViews == ASSUME views' = views PROVE ViewsGrow
BY DEF ViewsGrow

LEMMA NewView ==
  ASSUME HistoryShape, NEW x, x.head = x.origin, views' = Append(views, x)
  PROVE  ViewsGrow
<1>1. views \in Seq(ViewRec) /\ DOMAIN views = 1 .. Len(views) /\ Len(views) \in Nat
  BY DEF HistoryShape
<1>2. DOMAIN views' = 1 .. Len(views) + 1 /\ views'[Len(views) + 1] = x
      /\ \A v \in 1 .. Len(views) : views'[v] = views[v]
  BY <1>1
<1> QED
  BY <1>1, <1>2 DEF ViewsGrow

LEMMA AnswersGrow ==
  ASSUME HistoryInv, (\E stop \in {"end_turn", "tool_use", "max_tokens"} : Answered(stop)) \/ ModelsAnswered
  PROVE  ParentsStay /\ ViewsGrow
<1> USE DEF HistoryInv
<1>1. CASE \E stop \in {"end_turn", "tool_use", "max_tokens"} : Answered(stop)
  <2> PICK stop \in {"end_turn", "tool_use", "max_tokens"} : Answered(stop)
    BY <1>1
  <2> PICK class : class = IF rev[call].kind = "count_tokens" THEN Classify("null") ELSE Classify(stop)
    OBVIOUS
  <2>1. class \in Classes \ {"in_flight"} /\ Complete(call, class)
    BY ClassFacts DEF Answered
  <2>2. call \in Rows /\ rev[call].sealed = 0 /\ call' = Nil /\ forks' = forks
    BY DEF Answered, HistoryCall
  <2> QED
    BY <2>1, <2>2, CompleteKeeps, GoesParents
<1>2. CASE ModelsAnswered
  <2> PICK r \in Rows : rev[r].kind = "models" /\ ~Sealed(r) /\ Complete(r, Classify("null"))
                        /\ UNCHANGED <<forks, pair, dump, client, call, habit>>
    BY <1>2 DEF ModelsAnswered
  <2>1. Classify("null") = "dangling_unforkable" /\ Classify("null") \in Classes \ {"in_flight"}
    BY ClassFacts
  <2>2. rev[r].sealed = 0 /\ forks' = forks /\ call' = call
    BY DEF Sealed
  <2> QED
    BY <2>1, <2>2, CompleteKeeps, GoesParents
<1> QED
  BY <1>1, <1>2

LEMMA ToolsGrow ==
  ASSUME HistoryInv, ToolCall
  PROVE  ParentsStay /\ ViewsGrow
<1>1. rev' = rev
  BY DEF ToolCall, OtherTool, ReturnRules, RewindBack, RewindToTurn, RewindTo, Confirmed, Bookmark,
         DeleteBookmark, DumpToFile, SubmitFile, ToolUse
<1>2. ParentsStay
  BY <1>1 DEF ParentsStay, Rows
<1>3. CASE Bookmark("null") \/ Bookmark("L")
  <2>1. PICK label \in {"null", "L"} : Bookmark(label)
    BY <1>3
  <2> PICK x : x = [head |-> MostRecentForkableRevision, origin |-> MostRecentForkableRevision,
                    label |-> label, bookmark |-> TRUE, live |-> TRUE]
    OBVIOUS
  <2>2. views' = Append(views, x) /\ x.head = x.origin
    BY <2>1 DEF Bookmark
  <2> QED
    BY <1>2, <2>2, NewView DEF HistoryInv
<1>4. CASE DeleteBookmark("L")
  <2> PICK w : w = views'
    OBVIOUS
  <2>1. /\ DOMAIN w = DOMAIN views
        /\ \A v \in DOMAIN views : w[v].head = views[v].head /\ w[v].origin = views[v].origin
    BY <1>4, DeletedFacts DEF HistoryInv
  <2> QED
    BY <1>2, <2>1 DEF ViewsGrow
<1>5. CASE ~(Bookmark("null") \/ Bookmark("L") \/ DeleteBookmark("L"))
  <2>1. views' = views
    BY <1>5 DEF ToolCall, OtherTool, ReturnRules, RewindBack, RewindToTurn, RewindTo, DumpToFile, SubmitFile
  <2> QED
    BY <1>2, <2>1, SameViews
<1> QED
  BY <1>3, <1>4, <1>5

LEMMA BookmarkStep ==
  ASSUME HistoryInv, BookmarksGrowFromTheirSpot, [ConversationNext]_conversationVars
  PROVE  BookmarksGrowFromTheirSpot'
<1> SUFFICES ParentsStay /\ ViewsGrow
  BY GrownViews
<1>1. CASE (\E kind \in Kind : SendMessages(kind)) \/ AskModels
  <2>1. views' = views
    BY <1>1 DEF SendMessages, AskModels
  <2>2. PICK x : rev' = Append(rev, x)
    BY <1>1 DEF SendMessages, RequestReceived, AskModels
  <2> QED
    BY <2>1, <2>2, SameViews, AppendedParents DEF HistoryInv
<1>2. CASE (\E stop \in {"end_turn", "tool_use", "max_tokens"} : Answered(stop)) \/ ModelsAnswered
  BY <1>2, AnswersGrow
<1>3. CASE Refused \/ MarkDangling
  <2>1. /\ call \in Rows /\ rev[call].sealed = 0
        /\ rev' = Seal(call, "dangling_unforkable") /\ now' = now + 1
        /\ views' = views \/ views' = OnResponseCompleted(views, call, ParentOf(call))
    BY <1>3 DEF Refused, MarkDangling, HistoryInv, HistoryCall
  <2>2. "dangling_unforkable" \in Classes \ {"in_flight"}
    BY DEF Classes
  <2>3. Goes /\ rev'[call].parent = ParentOf(call)
    BY <2>1, <2>2, SealGoes DEF HistoryInv
  <2> QED
    BY <2>1, <2>3, FollowRefs, SameViews, GoesParents DEF HistoryInv
<1>4. CASE ToolCall
  BY <1>4, ToolsGrow
<1>5. CASE CutBack \/ Clear \/ UNCHANGED conversationVars
  <2>1. rev' = rev /\ views' = views
    BY <1>5 DEF CutBack, Clear, conversationVars
  <2> QED
    BY <2>1, SameViews DEF ParentsStay, Rows
<1> QED
  BY <1>1, <1>2, <1>3, <1>4, <1>5 DEF ConversationNext

(* A branch view only grows from the turn it was put on: no rewind, marker, probe or  *)
(* deletion ever carries the head of a view to a line its first turn is not part of.  *)
THEOREM ViewsKeepTheirOrigin == ConversationSpec => []BookmarksGrowFromTheirSpot
<1>1. ConversationInit => BookmarksGrowFromTheirSpot
  BY DEF ConversationInit, BookmarksGrowFromTheirSpot
<1>2. /\ HistoryInv /\ BookmarksGrowFromTheirSpot /\ [ConversationNext]_conversationVars
      => BookmarksGrowFromTheirSpot'
  BY BookmarkStep
<1> QED
  BY HistoryInvariant, <1>1, <1>2, PTL DEF ConversationSpec

-----------------------------------------------------------------------------
(* What was rolled back does not return. *)

(* The turns a body is put together from: a turn, or an injection at an anchor. *)
Spoken(h, q) == h[q].kind = "turn" \/ (h[q].kind = "inject" /\ h[q].spliced)
Said(h, s, n) ==
  \A i \in DOMAIN s : /\ Abs(s[i]) \in DOMAIN h /\ Spoken(h, Abs(s[i]))
                      /\ h[Abs(s[i])].sealed \in 1 .. n
Until(h, s, t) == \A i \in DOMAIN s : h[Abs(s[i])].sealed <= h[t].sealed

Plain(h, p) == {c \in DOMAIN h : h[c].parent = p /\ h[c].kind # "inject"}
Queued(h, r) == h[r].kind \notin {"sr", "models"}

(* A body holds what had been said when its call began. *)
Timely(h) == \A r \in DOMAIN h : Said(h, h[r].body, h[r].created)

(* A call that is not at an anchor hangs off what was sealed last when it began. *)
AtSealTime(h, r) ==
  /\ h[r].sealed = 0 => h[r].parent = Nil
  /\ h[r].parent # Nil =>
       \A q \in DOMAIN h : h[q].kind # "sr" /\ h[q].sealed \in 1 .. h[r].created =>
         h[q].sealed <= h[h[r].parent].sealed

(* A call at an anchor hangs off the fork: the first there repeats the history up to *)
(* it, and an injection is never the first.                                          *)
AtTheFork(h, r) ==
  /\ h[r].kind \in {"turn", "inject"} /\ h[r].parent # Nil
  /\ h[r].kind = "inject" => Plain(h, h[r].parent) # {}
  /\ h[r].kind # "inject" /\ (\A d \in Plain(h, h[r].parent) : h[r].created <= h[d].created)
       => Until(h, h[r].body, h[r].parent)
Placed(h) ==
  \A r \in DOMAIN h : h[r].kind # "sr" =>
    IF h[r].spliced THEN AtTheFork(h, r) ELSE AtSealTime(h, r)

(* Queued calls are answered one by one. *)
OneByOne(h) ==
  \A r \in DOMAIN h : Queued(h, r) /\ h[r].sealed # 0 =>
    /\ h[r].created < h[r].sealed
    /\ \A q \in DOMAIN h : q # r /\ Queued(h, q) /\ h[q].sealed # 0 =>
         h[q].sealed <= h[r].created \/ h[r].sealed < h[q].sealed

Sorted(h, traffic) ==
  \A r \in DOMAIN h :
    /\ h[r].kind \in Side => h[r].kind \in traffic
    /\ h[r].class = "closed_forkable" => h[r].kind \in {"turn", "inject", "sr"}
    /\ h[r].kind = "sr" /\ h[r].parent # Nil => h[h[r].parent].kind # "inject"

Sound(h, traffic) == Timely(h) /\ Placed(h) /\ OneByOne(h) /\ Sorted(h, traffic)

(* The client has no answer yet that holds the anchor's token. *)
Unseen == anchor.id = Nil \/ \A i \in DOMAIN local : local[i].tok # anchor.id

CallSound ==
  /\ \A r \in Rows : Queued(rev, r) /\ rev[r].sealed = 0 => r = call
  /\ call # Nil => \A q \in Rows : q # call /\ Queued(rev, q) => rev[q].sealed <= rev[call].created
  /\ call # Nil /\ rev[call].kind = "inject" => phase = "typing" /\ (rev[call].spliced \/ Unseen)

(* A token is newer than those before it, the last one is the anchor's. *)
TokensSound ==
  /\ anchor.id \in {Nil, forks} /\ pend \in {Nil, forks}
  /\ \A i, j \in DOMAIN local : i <= j /\ local[j].tok # Nil => local[i].tok <= local[j].tok

ClientSound ==
  /\ \A i \in DOMAIN local : rev[local[i].turn].kind = "turn" /\ rev[local[i].turn].sealed # 0
  /\ phase = "typing" => pend = Nil
  /\ phase = "tool" => \A r \in Rows : rev[r].kind = "inject" =>
                         \E m \in Rows : rev[r].created < rev[m].created

(* The history at the anchor ends at the fork, where a turn with the anchor's token *)
(* in it has been sent.                                                             *)
AnchorSound ==
  anchor.id # Nil =>
    /\ Said(rev, anchor.base, now) /\ Until(rev, anchor.base, anchor.fork)
    /\ rev[anchor.fork].class = "closed_forkable"
    /\ ~Unseen \/ (pend = anchor.id /\ call # Nil /\ rev[call].kind = "turn") =>
         Plain(rev, anchor.fork) # {}
    /\ anchor.sr # "gone" /\ anchor.r1 # Nil => rev[anchor.r1].kind # "inject"

DumpSound ==
  dump # NoDump =>
    /\ dump.of \in Rows /\ rev[dump.of].class = "closed_forkable" /\ Said(rev, dump.msgs, now)
    /\ ~dump.fork \/ "inject" \notin habit.traffic => Until(rev, dump.msgs, dump.of)

PairSound == "submit" \in pair => "submit" \in habit.tools

(* An injection has a child from the next call on, if no /v1/models call comes between. *)
Alone(r) == rev[r].kind = "inject" /\ ~rev[r].spliced /\ rev[r].sealed # 0
Pending(r) ==
  /\ \A q \in Rows : q # r => rev[q].sealed < rev[r].sealed
  /\ anchor.sr # "gone" => anchor.at < rev[r].sealed
  /\ IF call = Nil THEN phase = "typing" /\ Unseen
     ELSE ~rev[call].spliced /\ rev[r].sealed <= rev[call].created
HeardSound ==
  "models" \notin habit.traffic =>
    \A r \in Rows : Alone(r) => (\E c \in Rows : rev[c].parent = r) \/ Pending(r)

InSightInv ==
  /\ Sound(rev, habit.traffic) /\ CallSound /\ TokensSound /\ ClientSound
  /\ AnchorSound /\ DumpSound /\ PairSound /\ HeardSound

(* Rewinding to an injection needs a call after it that repeats it.  Where the user   *)
(* injects, submit_file must not put other bodies in that call's place, and rewinds   *)
(* to a turn by its id must not come where a /v1/models call may be the only child:   *)
(* ConversationHidden.cfg shows, in two ways, what happens otherwise.                 *)
InjectionsInSight ==
  \A h \in Habits : "inject" \in h.traffic =>
    "submit" \notin h.tools /\ ("models" \in h.traffic => "turn" \notin h.tools)


(* What is said stays said. *)
LEMMA SaidStays ==
  ASSUME NEW g, NEW h, Grown(g, h), NEW s, NEW n \in Nat, NEW m \in Nat, n <= m, Said(g, s, n)
  PROVE  Said(h, s, m)
<1> SUFFICES ASSUME NEW i \in DOMAIN s
             PROVE  /\ Abs(s[i]) \in DOMAIN h /\ Spoken(h, Abs(s[i]))
                    /\ h[Abs(s[i])].sealed \in 1 .. m
  BY DEF Said
<1> PICK q : q = Abs(s[i])
  OBVIOUS
<1>1. q \in DOMAIN g /\ Spoken(g, q) /\ g[q].sealed \in 1 .. n
  BY DEF Said
<1>2. q \in DOMAIN h /\ Keeps(g[q], h[q])
  BY <1>1 DEF Grown
<1>3. g[q].sealed # 0 /\ g[q].sealed \in 1 .. m
  BY <1>1
<1> QED
  BY <1>1, <1>2, <1>3 DEF Keeps, Spoken

LEMMA UntilStays ==
  ASSUME NEW g, NEW h, Grown(g, h), NEW s, NEW n, Said(g, s, n), NEW t \in DOMAIN g,
         g[t].sealed # 0, Until(g, s, t)
  PROVE  Until(h, s, t)
<1> SUFFICES ASSUME NEW i \in DOMAIN s PROVE h[Abs(s[i])].sealed <= h[t].sealed
  BY DEF Until
<1> PICK q : q = Abs(s[i])
  OBVIOUS
<1>1. q \in DOMAIN g /\ g[q].sealed # 0 /\ g[q].sealed <= g[t].sealed
  BY DEF Said, Until
<1>2. h[q].sealed = g[q].sealed /\ h[t].sealed = g[t].sealed
  BY <1>1 DEF Grown, Keeps
<1> QED
  BY <1>1, <1>2

LEMMA PlainStays ==
  ASSUME NEW g, NEW h, Grown(g, h), NEW p, p # Nil
  PROVE  Plain(g, p) \subseteq Plain(h, p)
BY DEF Plain, Grown, Keeps

(* A row that stays as it is, in a history that goes on. *)
LEMMA SpliceStays ==
  ASSUME NEW g, NEW n, GoodHistory(g, n), NEW h, Grown(g, h), Timely(g), NEW r \in DOMAIN g,
         g[r].kind # "sr", h[r].parent = g[r].parent, AtTheFork(g, r)
  PROVE  AtTheFork(h, r)
<1> PICK p : p = g[r].parent
  OBVIOUS
<1>1. /\ h[r].kind = g[r].kind /\ h[r].created = g[r].created /\ h[r].body = g[r].body
      /\ h[r].parent = p
  BY DEF Grown, Keeps
<1>2. p # Nil /\ p \in DOMAIN g /\ g[p].sealed # 0
  BY DEF AtTheFork, GoodHistory, GoodIn, PastIn
<1>3. Plain(g, p) \subseteq Plain(h, p)
  BY <1>2, PlainStays
<1>4. \A d \in Plain(g, p) : h[d].created = g[d].created
  BY DEF Plain, Grown, Keeps
<1>5. ASSUME h[r].kind # "inject", \A d \in Plain(h, p) : h[r].created <= h[d].created
      PROVE  Until(h, h[r].body, p)
  <2>1. \A d \in Plain(g, p) : g[r].created <= g[d].created
    BY <1>1, <1>3, <1>4, <1>5
  <2>2. Until(g, g[r].body, p)
    BY <1>1, <1>5, <2>1 DEF AtTheFork
  <2>3. Said(g, g[r].body, g[r].created)
    BY DEF Timely
  <2> QED
    BY <1>1, <1>2, <2>2, <2>3, UntilStays
<1> QED
  BY <1>1, <1>2, <1>3, <1>5 DEF AtTheFork

LEMMA TimelyStays ==
  ASSUME NEW g, NEW n, GoodHistory(g, n), NEW h, Grown(g, h), Timely(g), NEW r \in DOMAIN g
  PROVE  Said(h, h[r].body, h[r].created)
<1>1. h[r].body = g[r].body /\ h[r].created = g[r].created /\ g[r].created \in Nat
  BY DEF Grown, Keeps, GoodHistory, GoodIn
<1>2. Said(g, g[r].body, g[r].created)
  BY DEF Timely
<1> QED
  BY <1>1, <1>2, SaidStays

(* A row is added. *)
AddsRow(g, h, k, x) ==
  /\ k \notin DOMAIN g /\ DOMAIN h = DOMAIN g \cup {k} /\ h[k] = x
  /\ \A r \in DOMAIN g : h[r] = g[r]

LEMMA AddsGrown ==
  ASSUME NEW g, NEW h, NEW k, NEW x, AddsRow(g, h, k, x)
  PROVE  Grown(g, h)
BY DEF AddsRow, Grown, Keeps

LEMMA AddedStays ==
  ASSUME NEW g, NEW n, GoodHistory(g, n), NEW h, NEW k, NEW x, AddsRow(g, h, k, x),
         NEW traffic, Sound(g, traffic), x.sealed = 0 \/ x.kind = "sr", NEW r \in DOMAIN g
  PROVE  /\ Said(h, h[r].body, h[r].created)
         /\ h[r].kind # "sr" => IF h[r].spliced THEN AtTheFork(h, r) ELSE AtSealTime(h, r)
<1>1. Grown(g, h)
  BY AddsGrown
<1>2. Said(h, h[r].body, h[r].created)
  BY <1>1, TimelyStays DEF Sound
<1>3. h[r] = g[r]
  BY DEF AddsRow
<1>4. ASSUME h[r].kind # "sr", h[r].spliced
      PROVE  AtTheFork(h, r)
  <2>1. AtTheFork(g, r)
    BY <1>3, <1>4 DEF Sound, Placed
  <2> QED
    BY <1>1, <1>3, <1>4, <2>1, SpliceStays DEF Sound
<1>5. ASSUME h[r].kind # "sr", ~h[r].spliced
      PROVE  AtSealTime(h, r)
  <2>1. AtSealTime(g, r)
    BY <1>3, <1>5 DEF Sound, Placed
  <2>2. ASSUME g[r].parent # Nil, NEW q \in DOMAIN h, h[q].kind # "sr", h[q].sealed \in 1 .. g[r].created
        PROVE  h[q].sealed <= h[g[r].parent].sealed
    <3>1. q \in DOMAIN g
      BY <2>2 DEF AddsRow
    <3>2. g[r].parent \in DOMAIN g
      BY <2>2 DEF GoodHistory, GoodIn
    <3>3. h[q] = g[q] /\ h[g[r].parent] = g[g[r].parent]
      BY <3>1, <3>2 DEF AddsRow
    <3> QED
      BY <2>1, <2>2, <3>1, <3>3 DEF AtSealTime
  <2> QED
    BY <1>3, <2>1, <2>2 DEF AtSealTime
<1> QED
  BY <1>2, <1>4, <1>5

LEMMA OpenedSound ==
  ASSUME NEW g, NEW n, GoodHistory(g, n), NEW h, NEW k, NEW x, AddsRow(g, h, k, x),
         NEW traffic, Sound(g, traffic),
         x.sealed = 0, x.class = "in_flight", x.kind # "sr", x.kind \in Side => x.kind \in traffic,
         x.created \in Nat, Said(g, x.body, x.created),
         \A r \in DOMAIN g : g[r].created < x.created,
         ~x.spliced => x.parent = Nil,
         x.spliced => /\ x.parent \in DOMAIN g /\ g[x.parent].sealed # 0
                      /\ x.kind \in {"turn", "inject"}
                      /\ x.kind = "inject" => Plain(g, x.parent) # {}
                      /\ x.kind = "turn" /\ Plain(g, x.parent) = {} => Until(g, x.body, x.parent)
  PROVE  Sound(h, traffic)
<1>1. Grown(g, h) /\ Nil \notin DOMAIN g
  BY AddsGrown DEF GoodHistory, Nil
<1>2. Timely(h)
  <2> SUFFICES ASSUME NEW r \in DOMAIN h PROVE Said(h, h[r].body, h[r].created)
    BY DEF Timely
  <2>1. CASE r \in DOMAIN g
    BY <2>1, AddedStays
  <2>2. CASE r = k
    BY <1>1, <2>2, SaidStays DEF AddsRow
  <2> QED
    BY <2>1, <2>2 DEF AddsRow
<1>3. Placed(h)
  <2> SUFFICES ASSUME NEW r \in DOMAIN h, h[r].kind # "sr"
               PROVE  IF h[r].spliced THEN AtTheFork(h, r) ELSE AtSealTime(h, r)
    BY DEF Placed
  <2>1. CASE r \in DOMAIN g
    BY <2>1, AddedStays
  <2>2. CASE r = k /\ ~x.spliced
    <3>1. h[r] = x
      BY <2>2 DEF AddsRow
    <3>2. AtSealTime(h, r)
      BY <2>2, <3>1 DEF AtSealTime
    <3> QED
      BY <2>2, <3>1, <3>2
  <2>3. CASE r = k /\ x.spliced
    <3>1. h[r] = x /\ x.parent # Nil /\ k \in DOMAIN h
      BY <1>1, <2>3 DEF AddsRow
    <3>2. Plain(g, x.parent) \subseteq Plain(h, x.parent)
      BY <1>1, <3>1, PlainStays
    <3>3. ASSUME x.kind # "inject", \A d \in Plain(h, x.parent) : x.created <= h[d].created
          PROVE  Until(h, x.body, x.parent)
      <4>1. \A d \in Plain(g, x.parent) : d \in DOMAIN g /\ h[d] = g[d] /\ x.created <= g[d].created
        BY <3>2, <3>3 DEF Plain, AddsRow
      <4>2. Plain(g, x.parent) = {}
        <5> SUFFICES ASSUME NEW d \in Plain(g, x.parent) PROVE FALSE
          OBVIOUS
        <5>1. d \in DOMAIN g /\ x.created <= g[d].created /\ g[d].created < x.created
          BY <4>1
        <5>2. g[d].created \in Nat
          BY <5>1 DEF GoodHistory, GoodIn
        <5> QED
          BY <5>1, <5>2
      <4>3. Until(g, x.body, x.parent)
        BY <2>3, <3>3, <4>2
      <4> QED
        BY <1>1, <2>3, <4>3, UntilStays
    <3>4. AtTheFork(h, r)
      BY <2>3, <3>1, <3>2, <3>3 DEF AtTheFork
    <3> QED
      BY <2>3, <3>1, <3>4
  <2> QED
    BY <2>1, <2>2, <2>3 DEF AddsRow
<1>4. OneByOne(h)
  <2>1. \A r \in DOMAIN h : h[r].sealed # 0 => r \in DOMAIN g /\ h[r] = g[r]
    BY DEF AddsRow
  <2> QED
    BY <2>1 DEF Sound, OneByOne, Queued
<1>5. Sorted(h, traffic)
  <2> SUFFICES ASSUME NEW r \in DOMAIN h
      PROVE  /\ h[r].kind \in Side => h[r].kind \in traffic
             /\ h[r].class = "closed_forkable" => h[r].kind \in {"turn", "inject", "sr"}
             /\ h[r].kind = "sr" /\ h[r].parent # Nil => h[h[r].parent].kind # "inject"
    BY DEF Sorted
  <2>1. CASE r = k
    BY <2>1 DEF AddsRow
  <2>2. CASE r \in DOMAIN g
    <3>1. h[r] = g[r] /\ g[r].parent \in {Nil} \cup DOMAIN g
      BY <2>2 DEF AddsRow, GoodHistory, GoodIn
    <3>2. g[r].parent # Nil => h[g[r].parent] = g[g[r].parent]
      BY <3>1 DEF AddsRow
    <3> QED
      BY <2>2, <3>1, <3>2 DEF Sound, Sorted
  <2> QED
    BY <2>1, <2>2 DEF AddsRow
<1> QED
  BY <1>2, <1>3, <1>4, <1>5 DEF Sound

(* A marker is added: it speaks for nobody, and only counts as one more child. *)
LEMMA MarkedSound ==
  ASSUME NEW g, NEW n, GoodHistory(g, n), NEW h, NEW k, NEW x, AddsRow(g, h, k, x),
         NEW traffic, Sound(g, traffic), x.kind = "sr", x.body = <<>>,
         x.parent # Nil => x.parent \in DOMAIN g /\ g[x.parent].kind # "inject"
  PROVE  Sound(h, traffic)
<1>1. \A r \in DOMAIN h : r = k \/ (r \in DOMAIN g /\ h[r] = g[r])
  BY DEF AddsRow
<1>2. Timely(h)
  <2> SUFFICES ASSUME NEW r \in DOMAIN h PROVE Said(h, h[r].body, h[r].created)
    BY DEF Timely
  <2>1. CASE r \in DOMAIN g
    BY <2>1, AddedStays
  <2>2. CASE r = k
    BY <2>2 DEF AddsRow, Said
  <2> QED
    BY <1>1, <2>1, <2>2
<1>3. Placed(h)
  <2> SUFFICES ASSUME NEW r \in DOMAIN h, h[r].kind # "sr"
               PROVE  IF h[r].spliced THEN AtTheFork(h, r) ELSE AtSealTime(h, r)
    BY DEF Placed
  <2>1. r \in DOMAIN g
    BY <1>1 DEF AddsRow
  <2> QED
    BY <2>1, AddedStays
<1>4. OneByOne(h)
  <2>1. \A r \in DOMAIN h : Queued(h, r) => r \in DOMAIN g /\ h[r] = g[r] /\ Queued(g, r)
    BY <1>1 DEF AddsRow, Queued
  <2> QED
    BY <2>1 DEF Sound, OneByOne
<1>5. Sorted(h, traffic)
  <2> SUFFICES ASSUME NEW r \in DOMAIN h
      PROVE  /\ h[r].kind \in Side => h[r].kind \in traffic
             /\ h[r].class = "closed_forkable" => h[r].kind \in {"turn", "inject", "sr"}
             /\ h[r].kind = "sr" /\ h[r].parent # Nil => h[h[r].parent].kind # "inject"
    BY DEF Sorted
  <2>1. CASE r = k
    <3>1. h[r] = x /\ x.kind = "sr" /\ x.kind \notin Side
      BY <2>1 DEF AddsRow, Side
    <3>2. x.parent # Nil => h[x.parent] = g[x.parent]
      BY DEF AddsRow
    <3> QED
      BY <3>1, <3>2
  <2>2. CASE r \in DOMAIN g
    <3>1. h[r] = g[r] /\ g[r].parent \in {Nil} \cup DOMAIN g
      BY <2>2 DEF AddsRow, GoodHistory, GoodIn
    <3>2. g[r].parent # Nil => h[g[r].parent] = g[g[r].parent]
      BY <3>1 DEF AddsRow
    <3> QED
      BY <2>2, <3>1, <3>2 DEF Sound, Sorted
  <2> QED
    BY <1>1, <2>1, <2>2
<1> QED
  BY <1>2, <1>3, <1>4, <1>5 DEF Sound

(* A call is sealed. *)
Shuts(g, h, r, y) ==
  /\ DOMAIN h = DOMAIN g /\ h[r] = y
  /\ \A q \in DOMAIN g : q # r => h[q] = g[q]

LEMMA ShutSound ==
  ASSUME NEW g, NEW n \in Nat, GoodHistory(g, n), NEW h, GoodHistory(h, n + 1), NEW r \in DOMAIN g,
         NEW y, Shuts(g, h, r, y), Grown(g, h), NEW traffic, Sound(g, traffic),
         g[r].sealed = 0, g[r].kind # "sr", y.sealed = n + 1,
         y.class = "closed_forkable" => g[r].kind \in {"turn", "inject"},
         g[r].parent = Nil => \A q \in DOMAIN g : g[q].sealed \in 1 .. g[r].created =>
                                y.parent \in DOMAIN g /\ g[q].sealed <= g[y.parent].sealed,
         Queued(g, r) => \A q \in DOMAIN g : q # r /\ Queued(g, q) => g[q].sealed <= g[r].created
  PROVE  Sound(h, traffic)
<1>1. /\ y.kind = g[r].kind /\ y.created = g[r].created /\ y.spliced = g[r].spliced
      /\ y.body = g[r].body
      /\ g[r].parent # Nil => y.parent = g[r].parent
  BY DEF Shuts, Grown, Keeps
<1>2. DOMAIN h = DOMAIN g /\ h[r] = y /\ \A q \in DOMAIN g : q # r => h[q] = g[q]
  BY DEF Shuts
<1>3. \A q \in DOMAIN g : g[q].created \in 1 .. n /\ g[q].sealed \in 0 .. n
  BY DEF GoodHistory, GoodIn
<1>4. Timely(h)
  BY <1>2, TimelyStays DEF Sound, Timely
<1>5. Placed(h)
  <2> SUFFICES ASSUME NEW c \in DOMAIN g, g[c].kind # "sr"
               PROVE  IF g[c].spliced THEN AtTheFork(h, c) ELSE AtSealTime(h, c)
    BY <1>1, <1>2 DEF Placed
  <2>1. CASE g[c].spliced
    <3>1. AtTheFork(g, c)
      BY <2>1 DEF Sound, Placed
    <3>2. h[c].parent = g[c].parent
      BY <1>1, <1>2, <3>1 DEF AtTheFork
    <3>3. AtTheFork(h, c)
      BY <3>1, <3>2, SpliceStays DEF Sound
    <3> QED
      BY <2>1, <3>3
  <2>2. CASE ~g[c].spliced
    <3>1. AtSealTime(g, c)
      BY <2>2 DEF Sound, Placed
    <3>2. ASSUME NEW q \in DOMAIN h, h[q].kind # "sr", h[q].sealed \in 1 .. h[c].created
          PROVE  q \in DOMAIN g /\ q # r /\ h[q] = g[q] /\ g[q].sealed \in 1 .. g[c].created
      <4>1. h[c].created = g[c].created /\ g[c].created \in 1 .. n
        BY <1>1, <1>2, <1>3
      <4>2. q # r
        BY <1>2, <3>2, <4>1
      <4> QED
        BY <1>2, <3>2, <4>1, <4>2
    <3>3. CASE c # r
      <4>1. h[c] = g[c] /\ (g[c].parent # Nil => g[c].parent \in DOMAIN g /\ g[g[c].parent].sealed # 0)
        BY <1>2, <3>3 DEF GoodHistory, GoodIn, PastIn
      <4>2. g[c].parent # Nil => h[g[c].parent] = g[g[c].parent]
        BY <1>2, <4>1
      <4>3. AtSealTime(h, c)
        BY <3>1, <3>2, <4>1, <4>2 DEF AtSealTime
      <4> QED
        BY <2>2, <4>3
    <3>4. CASE c = r
      <4>1. g[r].parent = Nil
        BY <3>1, <3>4 DEF AtSealTime
      <4>2. h[r].sealed # 0
        BY <1>2
      <4>3. ASSUME NEW q \in DOMAIN h, h[q].kind # "sr", h[q].sealed \in 1 .. h[r].created
            PROVE  h[q].sealed <= h[h[r].parent].sealed
        <5>1. q \in DOMAIN g /\ h[q] = g[q] /\ g[q].sealed \in 1 .. g[r].created
          BY <3>2, <3>4, <4>3
        <5>2. y.parent \in DOMAIN g /\ g[q].sealed <= g[y.parent].sealed
          BY <4>1, <5>1
        <5>3. y.parent # r
          BY <5>1, <5>2, <1>3
        <5> QED
          BY <1>2, <5>1, <5>2, <5>3
      <4>4. AtSealTime(h, c)
        BY <3>4, <4>2, <4>3 DEF AtSealTime
      <4> QED
        BY <2>2, <4>4
    <3> QED
      BY <3>3, <3>4
  <2> QED
    BY <2>1, <2>2
<1>6. OneByOne(h)
  <2> SUFFICES ASSUME NEW c \in DOMAIN h, Queued(h, c), h[c].sealed # 0
      PROVE  /\ h[c].created < h[c].sealed
             /\ \A q \in DOMAIN h : q # c /\ Queued(h, q) /\ h[q].sealed # 0 =>
                  h[q].sealed <= h[c].created \/ h[c].sealed < h[q].sealed
    BY DEF OneByOne
  <2>0. \A q \in DOMAIN g : Queued(h, q) <=> Queued(g, q)
    BY <1>1, <1>2 DEF Queued
  <2>1. CASE c = r
    <3>1. h[c].created = g[r].created /\ h[c].sealed = n + 1 /\ g[r].created \in 1 .. n
      BY <1>1, <1>2, <1>3, <2>1
    <3>2. \A q \in DOMAIN h : q # c /\ Queued(h, q) => h[q].sealed <= h[c].created
      BY <1>2, <2>0, <2>1, <3>1
    <3> QED
      BY <3>1, <3>2
  <2>2. CASE c # r
    <3>1. h[c] = g[c] /\ Queued(g, c) /\ c \in DOMAIN g
      BY <1>2, <2>0, <2>2
    <3>2. ASSUME NEW q \in DOMAIN h, q # c, Queued(h, q), h[q].sealed # 0
          PROVE  h[q].sealed <= h[c].created \/ h[c].sealed < h[q].sealed
      <4>1. CASE q = r
        <5>1. h[q].sealed = n + 1 /\ g[c].sealed \in 0 .. n
          BY <1>2, <1>3, <3>1, <4>1
        <5> QED
          BY <3>1, <5>1
      <4>2. CASE q # r
        <5>1. h[q] = g[q] /\ Queued(g, q) /\ q \in DOMAIN g
          BY <1>2, <2>0, <3>2, <4>2
        <5> QED
          BY <3>1, <3>2, <5>1 DEF Sound, OneByOne
      <4> QED
        BY <4>1, <4>2
    <3>3. h[c].created < h[c].sealed
      BY <3>1 DEF Sound, OneByOne
    <3> QED
      BY <3>2, <3>3
  <2> QED
    BY <2>1, <2>2
<1>7. Sorted(h, traffic)
  <2> SUFFICES ASSUME NEW c \in DOMAIN g
      PROVE  /\ h[c].kind \in Side => h[c].kind \in traffic
             /\ h[c].class = "closed_forkable" => h[c].kind \in {"turn", "inject", "sr"}
             /\ h[c].kind = "sr" /\ h[c].parent # Nil => h[h[c].parent].kind # "inject"
    BY <1>2 DEF Sorted
  <2>1. \A q \in DOMAIN g : h[q].kind = g[q].kind
    BY <1>1, <1>2
  <2>2. g[c].kind \in Side => g[c].kind \in traffic
    BY DEF Sound, Sorted
  <2>3. h[c].class = "closed_forkable" => g[c].kind \in {"turn", "inject", "sr"}
    <3>1. CASE c = r
      BY <1>2, <3>1
    <3>2. CASE c # r
      BY <1>2, <3>2 DEF Sound, Sorted
    <3> QED
      BY <3>1, <3>2
  <2>4. g[c].kind = "sr" /\ h[c].parent # Nil => h[h[c].parent].kind # "inject"
    <3> SUFFICES ASSUME g[c].kind = "sr", h[c].parent # Nil PROVE h[h[c].parent].kind # "inject"
      OBVIOUS
    <3>1. c # r
      OBVIOUS
    <3>2. h[c] = g[c] /\ g[c].parent \in DOMAIN g /\ g[g[c].parent].kind # "inject"
      BY <1>2, <3>1 DEF Sound, Sorted, GoodHistory, GoodIn
    <3> QED
      BY <2>1, <3>2
  <2> QED
    BY <2>1, <2>2, <2>3, <2>4
<1> QED
  BY <1>4, <1>5, <1>6, <1>7 DEF Sound

(* What the walk over the injections comes to. *)
LEMMA WalkInduction ==
  ASSUME HistoryShape, HistoryRows, NEW G,
         \A r \in Rows : <<r, FirstOr(r, Nil)>> \in G,
         \A r \in Rows : \A x \in {Nil} \cup Rows :
           ProbeOf(r) # Nil /\ <<ProbeOf(r), x>> \in G => <<r, FirstOr(r, x)>> \in G
  PROVE  \A r \in Rows : <<r, FirstChild(r)>> \in G
<1> DEFINE S == {f \in [Rows -> {Nil} \cup Rows] : \A r \in Rows : <<r, f[r]>> \in G}
           W == CHOOSE w : Walks(w)
           n == Len(rev)
<1>1. Walks(W)
  BY WalkExists
<1>2. \A r \in Rows : FirstChild(r) = W[Len(rev)][r]
  BY DEF FirstChild, Walks, PlainOf, ProbeOf, Offspring
<1> PICK w : w = W
  OBVIOUS
<1>3. Walks(w) /\ \A r \in Rows : FirstChild(r) = w[n][r]
  BY <1>1, <1>2
<1> HIDE DEF W
<1>4. n \in Nat
  BY RowsAre
<1>5. \A d \in 0 .. n : w[d] = [q \in Rows |->
         IF PlainOf(q) # {} THEN Earliest(PlainOf(q), CreatedAt)
         ELSE IF ProbeOf(q) = Nil \/ d = 0 THEN ProbeOf(q)
         ELSE IF w[d - 1][ProbeOf(q)] = Nil THEN ProbeOf(q) ELSE w[d - 1][ProbeOf(q)]]
  BY <1>3 DEF Walks
<1>6. \A d \in 0 .. n : \A q \in Rows :
        w[d][q] = FirstOr(q, IF ProbeOf(q) = Nil \/ d = 0 THEN Nil ELSE w[d - 1][ProbeOf(q)])
  BY ONLY <1>5 DEF FirstOr
<1>7. \A d \in 0 .. n : w[d] = [q \in Rows |-> w[d][q]]
  BY <1>5
<1>8. w[0] \in S
  <2>1. \A q \in Rows : w[0][q] = FirstOr(q, Nil)
    BY <1>4, <1>6
  <2>2. \A q \in Rows : w[0][q] \in {Nil} \cup Rows
    BY <2>1, OffspringFacts
  <2>3. w[0] = [q \in Rows |-> w[0][q]]
    BY <1>4, <1>7
  <2> QED
    BY <2>1, <2>2, <2>3
<1>9. \A d \in 0 .. n - 1 : d + 1 \in 0 .. n /\ d + 1 # 0 /\ (d + 1) - 1 = d
  BY <1>4
<1>10. \A d \in 0 .. n - 1 : w[d] \in S => w[d + 1] \in S
  <2> HIDE DEF n
  <2> SUFFICES ASSUME NEW d \in 0 .. n - 1, w[d] \in S PROVE w[d + 1] \in S
    OBVIOUS
  <2>0. d + 1 \in 0 .. n /\ d + 1 # 0 /\ (d + 1) - 1 = d
    BY <1>9
  <2>1. w[d + 1] = [q \in Rows |-> w[d + 1][q]]
    BY <1>7, <2>0
  <2> SUFFICES ASSUME NEW q \in Rows
               PROVE  w[d + 1][q] \in {Nil} \cup Rows /\ <<q, w[d + 1][q]>> \in G
    BY <2>1
  <2>2. w[d + 1][q] = FirstOr(q, IF ProbeOf(q) = Nil THEN Nil ELSE w[d][ProbeOf(q)])
    <3>1. w[d + 1][q] = FirstOr(q, IF ProbeOf(q) = Nil \/ d + 1 = 0 THEN Nil
                                   ELSE w[(d + 1) - 1][ProbeOf(q)])
      BY <1>6, <2>0
    <3>2. (ProbeOf(q) = Nil \/ d + 1 = 0) <=> ProbeOf(q) = Nil
      BY <2>0
    <3>3. w[(d + 1) - 1] = w[d]
      BY <2>0
    <3> QED
      BY <3>1, <3>2, <3>3
  <2>3. CASE ProbeOf(q) = Nil
    <3>1. w[d + 1][q] = FirstOr(q, Nil)
      BY <2>2, <2>3
    <3> QED
      BY <3>1, OffspringFacts
  <2>4. CASE ProbeOf(q) # Nil
    <3> PICK x : x = w[d][ProbeOf(q)]
      OBVIOUS
    <3>1. w[d + 1][q] = FirstOr(q, x)
      BY <2>2, <2>4
    <3>2. ProbeOf(q) \in Rows
      BY <2>4, OffspringFacts
    <3>3. x \in {Nil} \cup Rows /\ <<ProbeOf(q), x>> \in G
      BY <3>2
    <3> QED
      BY <2>4, <3>1, <3>3, OffspringFacts
  <2> QED
    BY <2>3, <2>4
<1>11. \A d \in 0 .. n : w[d] \in S
  <2> HIDE DEF S, n
  <2> QED
    BY <1>4, <1>8, <1>10, Stays
<1>12. w[n] \in S
  BY <1>4, <1>11
<1> QED
  BY <1>3, <1>12

LEMMA ChildrenFacts ==
  ASSUME HistoryShape, HistoryRows, NEW r \in Rows
  PROVE  /\ PlainOf(r) = Plain(rev, r)
         /\ ProbeOf(r) = Nil => \A c \in Rows : rev[c].parent = r => c \in PlainOf(r)
         /\ ProbeOf(r) # Nil => /\ ProbeOf(r) \in Rows /\ rev[ProbeOf(r)].parent = r
                                /\ rev[ProbeOf(r)].kind = "inject"
         /\ PlainOf(r) # {} => \E c \in Plain(rev, r) :
              /\ \A x : FirstOr(r, x) = c
              /\ \A d \in Plain(rev, r) : rev[c].created <= rev[d].created
<1>1. PlainOf(r) = Plain(rev, r) /\ PlainOf(r) \in SUBSET Rows
  BY DEF PlainOf, Offspring, Plain, Rows
<1> DEFINE T == Offspring(r) \ PlainOf(r)
<1>2. T \in SUBSET Rows /\ \A c \in T : rev[c].parent = r /\ rev[c].kind = "inject"
  BY DEF Offspring, PlainOf
<1>3. T # {} => ProbeOf(r) \in T
  BY <1>2, EarliestCreated DEF ProbeOf
<1>4. T = {} => ProbeOf(r) = Nil
  BY DEF ProbeOf, Earliest
<1>5. Nil \notin Rows
  BY RowsAre
<1>6. PlainOf(r) # {} => /\ Earliest(PlainOf(r), CreatedAt) \in PlainOf(r)
                         /\ \A s \in PlainOf(r) : rev[Earliest(PlainOf(r), CreatedAt)].created <= rev[s].created
  BY <1>1, EarliestCreated
<1>7. PlainOf(r) # {} => \A x : FirstOr(r, x) = Earliest(PlainOf(r), CreatedAt)
  BY DEF FirstOr
<1>8. ProbeOf(r) = Nil => \A c \in Rows : rev[c].parent = r => c \in PlainOf(r)
  <2>1. ProbeOf(r) = Nil => T = {}
    BY <1>2, <1>3, <1>5
  <2> QED
    BY <2>1 DEF Offspring
<1> HIDE DEF T
<1> QED
  BY <1>1, <1>2, <1>3, <1>4, <1>6, <1>7, <1>8

(* A child that is not at an anchor repeats what was sealed before its parent was. *)
LEMMA UnsplicedChild ==
  ASSUME HistoryShape, NEW traffic, Sound(rev, traffic), NEW c \in Rows, ~rev[c].spliced,
         rev[c].kind # "sr", rev[c].parent # Nil
  PROVE  Until(rev, rev[c].body, rev[c].parent)
<1> SUFFICES ASSUME NEW i \in DOMAIN rev[c].body
             PROVE  rev[Abs(rev[c].body[i])].sealed <= rev[rev[c].parent].sealed
  BY DEF Until
<1> PICK q : q = Abs(rev[c].body[i])
  OBVIOUS
<1>1. q \in DOMAIN rev /\ Spoken(rev, q) /\ rev[q].sealed \in 1 .. rev[c].created
  BY DEF Sound, Timely, Said, Rows
<1>2. rev[q].kind # "sr"
  BY <1>1 DEF Spoken
<1>3. AtSealTime(rev, c)
  BY DEF Sound, Placed, Rows
<1> QED
  BY <1>1, <1>2, <1>3 DEF AtSealTime

LEMMA PlainChild ==
  ASSUME HistoryShape, NEW traffic, Sound(rev, traffic), NEW r \in Rows, NEW c \in Plain(rev, r),
         \A d \in Plain(rev, r) : rev[c].created <= rev[d].created, HasMessages(c)
  PROVE  Until(rev, rev[c].body, r)
<1>1. c \in Rows /\ rev[c].parent = r /\ rev[c].kind # "inject" /\ rev[c].kind # "sr" /\ r # Nil
  BY RowsAre DEF Plain, HasMessages, Rows
<1>2. CASE rev[c].spliced
  <2>1. AtTheFork(rev, c)
    BY <1>1, <1>2 DEF Sound, Placed, Rows
  <2> QED
    BY <1>1, <2>1 DEF AtTheFork
<1>3. CASE ~rev[c].spliced
  BY <1>1, <1>3, UnsplicedChild
<1> QED
  BY <1>2, <1>3

(* An injection with nothing else at its parent is not at an anchor: what lies behind *)
(* it repeats nothing that was sealed while it was out.                               *)
LEMMA BehindTheProbe ==
  ASSUME HistoryShape, HistoryRows, NEW traffic, Sound(rev, traffic), NEW r \in Rows,
         Plain(rev, r) = {}, NEW p \in Rows, rev[p].parent = r, rev[p].kind = "inject"
  PROVE  /\ Until(rev, rev[p].body, r)
         /\ \A x \in Rows : Until(rev, rev[x].body, p) => Until(rev, rev[x].body, r)
<1>1. r # Nil
  BY RowsAre
<1>2. ~rev[p].spliced
  BY <1>1 DEF Sound, Placed, AtTheFork, Rows
<1>3. AtSealTime(rev, p) /\ rev[p].sealed # 0
  BY <1>1, <1>2 DEF Sound, Placed, AtSealTime, Rows
<1>4. Until(rev, rev[p].body, r)
  BY <1>1, <1>2, UnsplicedChild
<1>5. ASSUME NEW x \in Rows, Until(rev, rev[x].body, p), NEW i \in DOMAIN rev[x].body
      PROVE  rev[Abs(rev[x].body[i])].sealed <= rev[r].sealed
  <2> PICK q : q = Abs(rev[x].body[i])
    OBVIOUS
  <2>1. q \in DOMAIN rev /\ Spoken(rev, q) /\ rev[q].sealed \in 1 .. rev[x].created
    BY DEF Sound, Timely, Said, Rows
  <2>2. rev[q].sealed <= rev[p].sealed
    BY <1>5 DEF Until
  <2>3. q # p /\ Queued(rev, q) /\ Queued(rev, p) /\ rev[q].sealed # 0 /\ rev[q].kind # "sr"
    BY <1>2, <2>1 DEF Spoken, Queued
  <2>4. rev[q].sealed <= rev[p].created \/ rev[p].sealed < rev[q].sealed
    BY <1>3, <2>1, <2>3 DEF Sound, OneByOne, Rows
  <2>5. rev[q].sealed \in 0 .. now /\ rev[p].sealed \in 0 .. now /\ rev[p].created \in 1 .. now /\ now \in Nat
    BY <2>1 DEF HistoryRows, GoodRow, HistoryShape, Rows
  <2>6. rev[q].sealed \in 1 .. rev[p].created
    BY <2>2, <2>3, <2>4, <2>5
  <2> QED
    BY <1>1, <1>3, <2>1, <2>3, <2>6 DEF AtSealTime
<1> QED
  BY <1>4, <1>5 DEF Until

LEMMA FirstChildUntil ==
  ASSUME HistoryShape, HistoryRows, NEW traffic, Sound(rev, traffic), NEW t \in Rows,
         HasMessages(FirstChild(t))
  PROVE  FirstChild(t) \in Rows /\ Until(rev, rev[FirstChild(t)].body, t)
<1> DEFINE G == {g \in Rows \X ({Nil} \cup Rows) :
                   HasMessages(g[2]) => Until(rev, rev[g[2]].body, g[1])}
<1>0. \A r \in Rows : \A x \in {Nil} \cup Rows :
        <<r, x>> \in G <=> (HasMessages(x) => Until(rev, rev[x].body, r))
  OBVIOUS
<1>1. ~HasMessages(Nil)
  BY DEF HasMessages
<1>2. ASSUME NEW r \in Rows, NEW x \in {Nil} \cup Rows,
             ProbeOf(r) # Nil => x = Nil \/ (HasMessages(x) => Until(rev, rev[x].body, ProbeOf(r))),
             ProbeOf(r) = Nil => x = Nil
      PROVE  <<r, FirstOr(r, x)>> \in G
  <2>1. FirstOr(r, x) \in {Nil} \cup Rows
    BY OffspringFacts
  <2>2. CASE PlainOf(r) # {}
    <3>1. PICK c \in Plain(rev, r) :
              /\ FirstOr(r, x) = c
              /\ \A d \in Plain(rev, r) : rev[c].created <= rev[d].created
      BY <2>2, ChildrenFacts
    <3>2. HasMessages(c) => Until(rev, rev[c].body, r)
      BY <3>1, PlainChild
    <3> HIDE DEF G
    <3> QED
      BY <1>0, <2>1, <3>1, <3>2
  <2>3. CASE PlainOf(r) = {} /\ ProbeOf(r) = Nil
    <3>1. FirstOr(r, x) = Nil
      BY <2>3 DEF FirstOr
    <3> HIDE DEF G
    <3> QED
      BY <1>0, <1>1, <2>1, <3>1
  <2>4. CASE PlainOf(r) = {} /\ ProbeOf(r) # Nil
    <3> PICK p : p = ProbeOf(r)
      OBVIOUS
    <3>1. p \in Rows /\ rev[p].parent = r /\ rev[p].kind = "inject" /\ Plain(rev, r) = {}
      BY <2>4, ChildrenFacts
    <3>2. Until(rev, rev[p].body, r) /\ \A y \in Rows : Until(rev, rev[y].body, p) => Until(rev, rev[y].body, r)
      BY <3>1, BehindTheProbe
    <3>3. FirstOr(r, x) = IF x = Nil THEN p ELSE x
      BY <2>4 DEF FirstOr
    <3>4. CASE x = Nil
      <4>1. FirstOr(r, x) = p
        BY <3>3, <3>4
      <4> HIDE DEF G
      <4> QED
        BY <1>0, <2>1, <3>2, <4>1
    <3>5. CASE x # Nil
      <4>1. FirstOr(r, x) = x /\ x \in Rows
        BY <3>3, <3>5
      <4>2. HasMessages(x) => Until(rev, rev[x].body, r)
        BY <1>2, <2>4, <3>2, <3>5, <4>1
      <4> HIDE DEF G
      <4> QED
        BY <1>0, <2>1, <4>1, <4>2
    <3> QED
      BY <3>4, <3>5
  <2> QED
    BY <2>2, <2>3, <2>4
<1>3. \A r \in Rows : <<r, FirstOr(r, Nil)>> \in G
  <2> HIDE DEF G
  <2> QED
    BY <1>2
<1>4. \A r \in Rows : \A x \in {Nil} \cup Rows :
        ProbeOf(r) # Nil /\ <<ProbeOf(r), x>> \in G => <<r, FirstOr(r, x)>> \in G
  <2> SUFFICES ASSUME NEW r \in Rows, NEW x \in {Nil} \cup Rows, ProbeOf(r) # Nil,
                      <<ProbeOf(r), x>> \in G
               PROVE  <<r, FirstOr(r, x)>> \in G
    OBVIOUS
  <2>1. ProbeOf(r) \in Rows
    BY OffspringFacts
  <2> HIDE DEF G
  <2> QED
    BY <1>0, <1>2, <2>1
<1>5. <<t, FirstChild(t)>> \in G
  <2> HIDE DEF G
  <2> QED
    BY <1>3, <1>4, WalkInduction
<1>6. FirstChild(t) \in {Nil} \cup Rows
  BY FirstChildFacts
<1>7. FirstChild(t) # Nil
  BY DEF HasMessages
<1> QED
  <2> HIDE DEF G
  <2> QED
    BY <1>0, <1>5, <1>6, <1>7

(* Without /v1/models calls an injection with a child has one with messages behind it. *)
LEMMA FirstChildHeard ==
  ASSUME HistoryShape, HistoryRows, NEW traffic, Sound(rev, traffic), "models" \notin traffic,
         NEW t \in Rows, rev[t].kind = "inject", NEW k \in Rows, rev[k].parent = t
  PROVE  HasMessages(FirstChild(t))
<1> DEFINE G == {g \in Rows \X ({Nil} \cup Rows) :
                   rev[g[1]].kind = "inject" =>
                     HasMessages(g[2]) \/ (g[2] = Nil /\ \A c \in Rows : rev[c].parent # g[1])}
<1>0. \A r \in Rows : \A x \in {Nil} \cup Rows :
        <<r, x>> \in G <=> (rev[r].kind = "inject" =>
                              HasMessages(x) \/ (x = Nil /\ \A c \in Rows : rev[c].parent # r))
  OBVIOUS
<1>1. Nil \notin Rows
  BY RowsAre
<1>2. ASSUME NEW r \in Rows, NEW x \in {Nil} \cup Rows,
             ProbeOf(r) # Nil => x = Nil \/ HasMessages(x),
             ProbeOf(r) = Nil => x = Nil
      PROVE  <<r, FirstOr(r, x)>> \in G
  <2>1. FirstOr(r, x) \in {Nil} \cup Rows
    BY OffspringFacts
  <2> SUFFICES ASSUME rev[r].kind = "inject"
               PROVE  HasMessages(FirstOr(r, x))
                        \/ (FirstOr(r, x) = Nil /\ \A c \in Rows : rev[c].parent # r)
    <3> HIDE DEF G
    <3> QED
      BY <1>0, <2>1
  <2>2. CASE PlainOf(r) # {}
    <3>1. PICK c \in Plain(rev, r) : FirstOr(r, x) = c
      BY <2>2, ChildrenFacts
    <3>2. c \in Rows /\ rev[c].parent = r /\ rev[c].kind # "inject" /\ c # Nil
      BY <1>1, <3>1 DEF Plain, Rows
    <3>3. rev[c].kind # "sr"
      BY <1>1, <3>2 DEF Sound, Sorted, Rows
    <3>4. rev[c].kind # "models"
      BY <3>2 DEF Sound, Sorted, Rows, Side
    <3> QED
      BY <3>1, <3>2, <3>3, <3>4 DEF HasMessages
  <2>3. CASE PlainOf(r) = {} /\ ProbeOf(r) = Nil
    <3>1. FirstOr(r, x) = Nil
      BY <2>3 DEF FirstOr
    <3>2. \A c \in Rows : rev[c].parent # r
      BY <2>3, ChildrenFacts
    <3> QED
      BY <3>1, <3>2
  <2>4. CASE PlainOf(r) = {} /\ ProbeOf(r) # Nil
    <3> PICK p : p = ProbeOf(r)
      OBVIOUS
    <3>1. p \in Rows /\ rev[p].kind = "inject"
      BY <2>4, ChildrenFacts
    <3>2. HasMessages(p)
      BY <1>1, <3>1 DEF HasMessages
    <3>3. FirstOr(r, x) = IF x = Nil THEN p ELSE x
      BY <2>4 DEF FirstOr
    <3> QED
      BY <1>2, <2>4, <3>2, <3>3
  <2> QED
    BY <2>2, <2>3, <2>4
<1>3. \A r \in Rows : <<r, FirstOr(r, Nil)>> \in G
  <2> HIDE DEF G
  <2> QED
    BY <1>2
<1>4. \A r \in Rows : \A x \in {Nil} \cup Rows :
        ProbeOf(r) # Nil /\ <<ProbeOf(r), x>> \in G => <<r, FirstOr(r, x)>> \in G
  <2> SUFFICES ASSUME NEW r \in Rows, NEW x \in {Nil} \cup Rows, ProbeOf(r) # Nil,
                      <<ProbeOf(r), x>> \in G
               PROVE  <<r, FirstOr(r, x)>> \in G
    OBVIOUS
  <2>1. ProbeOf(r) \in Rows /\ rev[ProbeOf(r)].kind = "inject"
    BY ChildrenFacts
  <2> HIDE DEF G
  <2> QED
    BY <1>0, <1>2, <2>1
<1>5. <<t, FirstChild(t)>> \in G
  <2> HIDE DEF G
  <2> QED
    BY <1>3, <1>4, WalkInduction
<1>6. FirstChild(t) \in {Nil} \cup Rows
  BY FirstChildFacts
<1> QED
  <2> HIDE DEF G
  <2> QED
    BY <1>0, <1>5, <1>6

(* The messages up to a target's answer, pieced together. *)
LEMMA RepeatedSound ==
  ASSUME HistoryShape, HistoryRows, NEW traffic, Sound(rev, traffic), NEW t \in Rows,
         rev[t].class = "closed_forkable",
         rev[t].kind = "inject" => HasMessages(FirstChild(t)) \/ rev[t].spliced,
         NEW b, b = ReconstructForkMessages(t), b # NoMessages
  PROVE  Said(rev, b, now) /\ Until(rev, b, t)
<1>1. now \in Nat /\ \A r \in Rows : rev[r].created \in 1 .. now /\ rev[r].sealed \in 0 .. now
  BY DEF HistoryShape, HistoryRows, GoodRow
<1>2. \A r \in Rows : Said(rev, rev[r].body, rev[r].created)
  BY DEF Sound, Timely, Rows
<1>3. CASE HasMessages(FirstChild(t))
  <2> PICK c : c = FirstChild(t)
    OBVIOUS
  <2>1. c \in Rows /\ b = rev[c].body /\ Until(rev, b, t)
    BY <1>3, FirstChildUntil DEF ReconstructForkMessages
  <2>2. Said(rev, rev[c].body, rev[c].created) /\ rev[c].created \in 1 .. now
    BY <1>1, <1>2, <2>1
  <2>3. Said(rev, b, now)
    BY <1>1, <2>1, <2>2 DEF Said
  <2> QED
    BY <2>1, <2>3
<1>4. CASE ~HasMessages(FirstChild(t))
  <2>1. HasMessages(t) /\ b = Append(rev[t].body, -t)
    BY <1>4 DEF ReconstructForkMessages
  <2>2. rev[t].sealed # 0 /\ rev[t].sealed \in 1 .. now /\ rev[t].created \in 1 .. now
    BY <1>1 DEF HistoryRows, GoodRow
  <2>3. Queued(rev, t)
    BY <2>1 DEF HasMessages, Queued
  <2>4. Spoken(rev, t)
    BY <1>4, <2>3 DEF Sound, Sorted, Spoken, Queued, Rows
  <2>5. rev[t].created < rev[t].sealed
    BY <2>2, <2>3 DEF Sound, OneByOne, Rows
  <2>6. Said(rev, rev[t].body, rev[t].created)
    BY <1>2
  <2>7. rev[t].body \in Body /\ t \in Nat /\ t # 0
    BY BodyFacts, RowsAre DEF Nil
  <2>8. Abs(-t) = t
    BY <2>7 DEF Abs
  <2> PICK s : s = rev[t].body
    OBVIOUS
  <2>9. /\ DOMAIN s = 1 .. Len(s) /\ Len(s) \in Nat /\ DOMAIN b = 1 .. Len(s) + 1
        /\ b[Len(s) + 1] = -t /\ \A i \in 1 .. Len(s) : b[i] = s[i]
    BY <2>1, <2>7 DEF Body
  <2>10. ASSUME NEW i \in DOMAIN b
         PROVE  /\ Abs(b[i]) \in DOMAIN rev /\ Spoken(rev, Abs(b[i]))
                /\ rev[Abs(b[i])].sealed \in 1 .. now
                /\ rev[Abs(b[i])].sealed <= rev[t].sealed
    <3>1. CASE i = Len(s) + 1
      <4>1. Abs(b[i]) = t
        BY <2>8, <2>9, <3>1
      <4> QED
        BY <2>2, <2>4, <4>1 DEF Rows
    <3>2. CASE i \in 1 .. Len(s)
      <4> PICK q : q = Abs(s[i])
        OBVIOUS
      <4>1. q \in DOMAIN rev /\ Spoken(rev, q) /\ rev[q].sealed \in 1 .. rev[t].created
        BY <2>6, <2>9, <3>2 DEF Said
      <4>2. Abs(b[i]) = q
        BY <2>9, <3>2
      <4> PICK a, m, n, k : a = rev[q].sealed /\ m = rev[t].created /\ n = rev[t].sealed /\ k = now
        OBVIOUS
      <4>3. a \in 1 .. k /\ a <= n
        <5>1. a \in 1 .. m /\ m \in 1 .. k /\ n \in 1 .. k /\ m < n /\ k \in Nat
          BY <1>1, <2>2, <2>5, <4>1
        <5> QED
          BY ONLY <5>1
      <4> QED
        BY <4>1, <4>2, <4>3
    <3> QED
      BY <2>9, <3>1, <3>2
  <2> QED
    BY <2>10 DEF Said, Until
<1> QED
  BY <1>3, <1>4

(* Without messages behind the target they do not end with an answer. *)
LEMMA RepeatedEnds ==
  ASSUME HistoryShape, NEW t \in Rows, ~HasMessages(FirstChild(t)),
         NEW b, b = ReconstructForkMessages(t)
  PROVE  ~(b[Len(b)] > 0)
<1>1. CASE HasMessages(t)
  <2>1. b = Append(rev[t].body, -t)
    BY <1>1 DEF ReconstructForkMessages
  <2>2. rev[t].body \in Body /\ t \in Nat
    BY BodyFacts, RowsAre
  <2> PICK s \in Body : s = rev[t].body
    BY <2>2
  <2>3. Len(s) \in Nat /\ Len(b) = Len(s) + 1 /\ b[Len(s) + 1] = -t
    BY <2>1 DEF Body
  <2> QED
    BY <2>2, <2>3
<1>2. CASE ~HasMessages(t)
  <2>1. b = <<0>>
    BY <1>2 DEF ReconstructForkMessages, NoMessages, Nil
  <2> QED
    BY <2>1
<1> QED
  BY <1>1, <1>2

LEMMA SaidBoth ==
  ASSUME NEW h, NEW n, NEW s \in Body, NEW t \in Body, Said(h, s, n), Said(h, t, n)
  PROVE  Said(h, s \o t, n)
<1>1. /\ DOMAIN s = 1 .. Len(s) /\ DOMAIN t = 1 .. Len(t) /\ Len(s) \in Nat /\ Len(t) \in Nat
      /\ DOMAIN (s \o t) = 1 .. Len(s) + Len(t)
  BY DEF Body
<1>2. \A i \in 1 .. Len(s) + Len(t) : (s \o t)[i] = IF i <= Len(s) THEN s[i] ELSE t[i - Len(s)]
  BY DEF Body
<1> SUFFICES ASSUME NEW i \in 1 .. Len(s) + Len(t)
             PROVE  LET q == Abs((s \o t)[i])
                    IN  q \in DOMAIN h /\ Spoken(h, q) /\ h[q].sealed \in 1 .. n
  BY <1>1 DEF Said
<1>3. CASE i <= Len(s)
  <2>1. (s \o t)[i] = s[i] /\ i \in DOMAIN s
    BY <1>1, <1>2, <1>3
  <2> QED
    BY <2>1 DEF Said
<1>4. CASE ~(i <= Len(s))
  <2>1. (s \o t)[i] = t[i - Len(s)] /\ i - Len(s) \in DOMAIN t
    BY <1>1, <1>2, <1>4
  <2> QED
    BY <2>1 DEF Said
<1> QED
  BY <1>3, <1>4

(* What the client says again. *)
LEMMA LocalSaid ==
  ASSUME HistoryShape, HistoryRows, HistoryRefs, ClientSound
  PROVE  Said(rev, Turns(local), now) /\ Said(rev, AfterAnchor, now)
<1>1. local \in Seq(LocalRec) /\ DOMAIN local = 1 .. Len(local) /\ Len(local) \in Nat
  BY DEF HistoryShape
<1>2. ASSUME NEW i \in DOMAIN local
      PROVE  LET q == Abs(local[i].turn)
             IN  q \in DOMAIN rev /\ Spoken(rev, q) /\ rev[q].sealed \in 1 .. now
  <2> PICK q : q = local[i].turn
    OBVIOUS
  <2>1. q \in Rows /\ q \in Nat /\ rev[q].kind = "turn" /\ rev[q].sealed # 0
    BY RowsAre DEF HistoryRefs, LocalRefs, ClientSound
  <2>2. Abs(q) = q
    BY <2>1 DEF Abs
  <2>3. rev[q].sealed \in 1 .. now
    BY <2>1 DEF HistoryRows, GoodRow, HistoryShape
  <2> QED
    BY <2>1, <2>2, <2>3 DEF Spoken, Rows
<1>3. Said(rev, Turns(local), now)
  <2> SUFFICES ASSUME NEW i \in DOMAIN Turns(local)
               PROVE  LET q == Abs(Turns(local)[i])
                      IN  q \in DOMAIN rev /\ Spoken(rev, q) /\ rev[q].sealed \in 1 .. now
    BY DEF Said
  <2>1. i \in DOMAIN local /\ Turns(local)[i] = local[i].turn
    BY DEF Turns
  <2> QED
    BY <1>2, <2>1
<1> DEFINE at == {i \in DOMAIN local : local[i].tok = anchor.id}
           m == CHOOSE i \in at : \A j \in at : j <= i
<1>4. CASE at = {}
  <2>1. AfterAnchor = <<>>
    BY <1>4 DEF AfterAnchor
  <2> QED
    BY <1>3, <2>1 DEF Said
<1>5. CASE at # {}
  <2> DEFINE f == [i \in at |-> i]
  <2>1. f \in [at -> 0 .. Len(local)]
    BY <1>1
  <2>2. \E i \in at : \A j \in at : f[j] <= f[i]
    <3> HIDE DEF f, at
    <3> QED
      BY <1>1, <1>5, <2>1, LargestOf
  <2>3. \E i \in at : \A j \in at : j <= i
    BY <2>2
  <2>4. m \in 1 .. Len(local)
    BY <1>1, <2>3
  <2>5. AfterAnchor = Turns(SubSeq(local, m, Len(local)))
    BY <1>5 DEF AfterAnchor
  <2> HIDE DEF m
  <2> PICK s : s = SubSeq(local, m, Len(local))
    OBVIOUS
  <2>6. /\ s \in Seq(LocalRec) /\ Len(s) = Len(local) - m + 1
        /\ \A i \in 1 .. Len(local) - m + 1 : s[i] = local[m + i - 1]
    BY <1>1, <2>4, SubSeqProperties
  <2>7. DOMAIN s = 1 .. Len(local) - m + 1
    BY <2>6
  <2> SUFFICES ASSUME NEW i \in DOMAIN Turns(s)
               PROVE  LET q == Abs(Turns(s)[i])
                      IN  q \in DOMAIN rev /\ Spoken(rev, q) /\ rev[q].sealed \in 1 .. now
    BY <1>3, <2>5 DEF Said
  <2>8. i \in DOMAIN s /\ Turns(s)[i] = s[i].turn
    BY DEF Turns
  <2>9. m + i - 1 \in DOMAIN local /\ s[i] = local[m + i - 1]
    BY <1>1, <2>4, <2>6, <2>7, <2>8
  <2> QED
    BY <1>2, <2>8, <2>9
<1> QED
  BY <1>4, <1>5

(* The anchor's token is the last one if it is there at all. *)
LEMMA TokenFacts ==
  ASSUME HistoryShape, HistoryRefs, TokensSound, anchor.id # Nil
  PROVE  /\ pend # Nil => LastToken = anchor.id
         /\ pend = Nil => (LastToken = anchor.id <=> ~Unseen)
         /\ Unseen => AfterAnchor = <<>>
<1>1. local \in Seq(LocalRec) /\ DOMAIN local = 1 .. Len(local) /\ Len(local) \in Nat /\ forks \in Nat
  BY DEF HistoryShape
<1>2. anchor.id = forks /\ pend \in {Nil, forks}
  BY DEF TokensSound
<1>3. pend # Nil => LastToken = anchor.id
  BY <1>2 DEF LastToken
<1>4. Unseen => AfterAnchor = <<>>
  BY DEF Unseen, AfterAnchor
<1>5. ASSUME pend = Nil
      PROVE  LastToken = anchor.id <=> ~Unseen
  <2> DEFINE at == {i \in DOMAIN local : local[i].tok # Nil}
             m == CHOOSE i \in at : \A j \in at : j <= i
  <2>1. LastToken = IF at = {} THEN Nil ELSE local[m].tok
    BY <1>5 DEF LastToken
  <2>2. at # {} => m \in at /\ \A j \in at : j <= m
    <3> SUFFICES ASSUME at # {} PROVE \E i \in at : \A j \in at : j <= i
      OBVIOUS
    <3> DEFINE f == [i \in at |-> i]
    <3>1. f \in [at -> 0 .. Len(local)]
      BY <1>1
    <3>2. \E i \in at : \A j \in at : f[j] <= f[i]
      <4> HIDE DEF f, at
      <4> QED
        BY <1>1, <3>1, LargestOf
    <3> QED
      BY <3>2
  <2> HIDE DEF m
  <2>3. ASSUME LastToken = anchor.id PROVE ~Unseen
    <3>1. at # {} /\ local[m].tok = anchor.id
      BY <2>1, <2>3
    <3>2. m \in DOMAIN local
      BY <2>2, <3>1
    <3> QED
      BY <3>1, <3>2 DEF Unseen
  <2>4. ASSUME ~Unseen PROVE LastToken = anchor.id
    <3>1. PICK i \in DOMAIN local : local[i].tok = anchor.id
      BY <2>4 DEF Unseen
    <3>2. i \in at
      BY <3>1
    <3>3. m \in DOMAIN local /\ local[m].tok # Nil /\ i <= m
      BY <2>2, <3>2
    <3>4. local[i].tok <= local[m].tok
      BY <3>1, <3>3 DEF TokensSound
    <3>5. local[m].tok \in 0 .. forks
      BY <3>3 DEF HistoryRefs, LocalRefs
    <3>6. local[m].tok = anchor.id
      BY <1>1, <1>2, <3>1, <3>4, <3>5
    <3> QED
      BY <2>1, <3>2, <3>6
  <2> QED
    BY <2>3, <2>4
<1> QED
  BY <1>3, <1>4, <1>5

(* What a step does to the rows: it adds to them, and a sealed row stays as it is. *)
Onward == Goes /\ \A r \in Rows : rev[r].sealed # 0 => rev'[r] = rev[r]

LEMMA SaidGoes ==
  ASSUME HistoryShape, Goes, NEW s, Said(rev, s, now)
  PROVE  Said(rev', s, now')
<1> PICK g, h, n, m : g = rev /\ h = rev' /\ n = now /\ m = now'
  OBVIOUS
<1>1. Grown(g, h) /\ n \in Nat /\ m \in Nat /\ n <= m /\ Said(g, s, n)
  BY GoesFacts DEF Goes
<1>2. Said(h, s, m)
  BY ONLY <1>1, SaidStays
<1> QED
  BY <1>2

LEMMA UntilGoes ==
  ASSUME HistoryShape, Goes, NEW s, Said(rev, s, now), NEW t \in Rows, rev[t].sealed # 0,
         Until(rev, s, t)
  PROVE  Until(rev', s, t)
<1> PICK g, h, n : g = rev /\ h = rev' /\ n = now
  OBVIOUS
<1>1. Grown(g, h) /\ Said(g, s, n) /\ t \in DOMAIN g /\ g[t].sealed # 0 /\ Until(g, s, t)
  BY DEF Goes, Rows
<1>2. Until(h, s, t)
  BY ONLY <1>1, UntilStays
<1> QED
  BY <1>2

LEMMA PlainGoes ==
  ASSUME HistoryShape, Goes, NEW p \in Rows, Plain(rev, p) # {}
  PROVE  Plain(rev', p) # {}
<1> PICK g, h : g = rev /\ h = rev'
  OBVIOUS
<1>1. Grown(g, h) /\ p # Nil /\ Plain(g, p) # {}
  BY RowsAre DEF Goes
<1>2. Plain(h, p) # {}
  BY ONLY <1>1, PlainStays
<1> QED
  BY <1>2

(* The anchor stays where it is. *)
Holds == ~Unseen \/ (pend = anchor.id /\ call # Nil /\ rev[call].kind = "turn")
LEMMA AnchorSoundStays ==
  ASSUME HistoryShape, HistoryAnchor, AnchorSound, Onward,
         anchor'.id = anchor.id, anchor'.base = anchor.base, anchor'.fork = anchor.fork,
         anchor'.r1 = anchor.r1, anchor'.sr # "gone" => anchor.sr # "gone",
         anchor.id # Nil /\ Holds' => Holds \/ Plain(rev', anchor.fork) # {}
  PROVE  AnchorSound'
<1> SUFFICES ASSUME anchor.id # Nil PROVE AnchorSound'
  BY DEF AnchorSound
<1> PICK b, t, r : b = anchor.base /\ t = anchor.fork /\ r = anchor.r1
  OBVIOUS
<1>1. Said(rev, b, now) /\ Until(rev, b, t) /\ rev[t].class = "closed_forkable"
      /\ (Holds => Plain(rev, t) # {}) /\ (anchor.sr # "gone" /\ r # Nil => rev[r].kind # "inject")
  BY DEF AnchorSound, Holds
<1>2. t \in Rows /\ rev[t].sealed # 0 /\ (anchor.sr # "gone" /\ r # Nil => r \in Rows)
  BY DEF HistoryAnchor, AnchorRefs
<1>3. Said(rev', b, now') /\ Until(rev', b, t) /\ rev'[t] = rev[t]
  BY <1>1, <1>2, SaidGoes, UntilGoes DEF Onward
<1>4. Holds' => Plain(rev', t) # {}
  BY <1>1, <1>2, PlainGoes DEF Onward
<1>5. anchor'.sr # "gone" /\ r # Nil => rev'[r].kind # "inject"
  BY <1>1, <1>2, GoesFacts DEF Onward
<1> QED
  BY <1>1, <1>3, <1>4, <1>5 DEF AnchorSound, Holds

LEMMA NoAnchorSound ==
  ASSUME anchor' = NoAnchorRow
  PROVE  AnchorSound' /\ Unseen' /\ anchor'.id = Nil /\ anchor'.sr = "gone"
BY DEF NoAnchorRow, AnchorSound, Unseen

LEMMA DumpSoundStays ==
  ASSUME HistoryShape, HistoryRows, DumpSound, Onward, dump' = dump, habit' = habit
  PROVE  DumpSound'
<1> SUFFICES ASSUME dump # NoDump PROVE DumpSound'
  BY DEF DumpSound
<1> PICK s, t : s = dump.msgs /\ t = dump.of
  OBVIOUS
<1>1. /\ t \in Rows /\ rev[t].class = "closed_forkable" /\ Said(rev, s, now)
      /\ ~dump.fork \/ "inject" \notin habit.traffic => Until(rev, s, t)
  BY DEF DumpSound
<1>2. rev[t].sealed # 0
  BY <1>1 DEF HistoryRows, GoodRow
<1>3. t \in Rows' /\ rev'[t] = rev[t] /\ Said(rev', s, now')
  BY <1>1, <1>2, SaidGoes, GoesFacts DEF Onward
<1>4. Until(rev, s, t) => Until(rev', s, t)
  BY <1>1, <1>2, UntilGoes DEF Onward
<1> QED
  BY <1>1, <1>3, <1>4 DEF DumpSound

LEMMA InSightStart == ConversationInit => InSightInv
<1> SUFFICES ASSUME ConversationInit PROVE InSightInv
  OBVIOUS
<1>1. Rows = {} /\ DOMAIN rev = {} /\ DOMAIN local = {}
  BY DEF ConversationInit, Rows
<1>2. Sound(rev, habit.traffic)
  BY <1>1 DEF Sound, Timely, Placed, OneByOne, Sorted
<1>3. CallSound /\ HeardSound
  BY <1>1 DEF ConversationInit, CallSound, HeardSound
<1>4. TokensSound /\ ClientSound /\ AnchorSound
  BY <1>1 DEF ConversationInit, TokensSound, ClientSound, AnchorSound, NoAnchorRow
<1>5. DumpSound /\ PairSound
  BY DEF ConversationInit, DumpSound, PairSound
<1> QED
  BY <1>2, <1>3, <1>4, <1>5 DEF InSightInv

-----------------------------------------------------------------------------
(* A call is sent. *)

LEMMA SaidLater ==
  ASSUME NEW g, NEW s, NEW n \in Nat, NEW m \in Nat, n <= m, Said(g, s, n)
  PROVE  Said(g, s, m)
<1> SUFFICES ASSUME NEW i \in DOMAIN s PROVE g[Abs(s[i])].sealed \in 1 .. m
  BY DEF Said
<1>1. g[Abs(s[i])].sealed \in 1 .. n
  BY DEF Said
<1> QED
  BY <1>1

LEMMA OpenedBody ==
  ASSUME NEW kind, NEW parent, NEW body, NEW spliced,
         NEW x, x = Row(kind, parent, "in_flight", 0, body, spliced)
  PROVE  x.body = body
BY DEF Row

Sends(kind, x) ==
  /\ kind \in {"turn", "inject", "count_tokens"} /\ x \in RevRec
  /\ x.kind = kind /\ x.class = "in_flight" /\ x.sealed = 0 /\ x.created = now + 1
  /\ x.spliced <=> (kind # "count_tokens" /\ Matches /\ ~Aborted)
  /\ x.parent = IF x.spliced THEN anchor.fork ELSE Nil
  /\ x.body = IF x.spliced THEN anchor.base \o AfterAnchor
              ELSE IF kind = "count_tokens" THEN <<>> ELSE Turns(local)

LEMMA SendFacts ==
  ASSUME HistoryInv, NEW kind \in Kind, SendMessages(kind)
  PROVE  \E x : /\ Sends(kind, x) /\ Onward /\ AddsRow(rev, rev', Len(rev) + 1, x)
                /\ call' = Len(rev) + 1 /\ Len(rev) + 1 \in Rows' /\ now' = now + 1
<1> USE DEF HistoryInv
<1>1. kind \in {"turn", "inject", "count_tokens"} /\ kind # "sr"
  <2>1. kind = "turn" \/ kind \in habit.traffic \ {"models"}
    BY DEF SendMessages
  <2>2. habit.traffic \subseteq Side
    BY HabitsAssumption DEF HistoryShape
  <2> QED
    BY <2>1, <2>2 DEF Side
<1>2. Len(rev) < MaxRevisions /\ Len(rev) \in Nat /\ Rows = 1 .. Len(rev)
  <2>1. Len(rev) \in Nat /\ MaxRevisions \in Nat /\ Rows = 1 .. Len(rev)
    BY BoundsAssumption, RowsAre
  <2> QED
    BY <2>1 DEF SendMessages, Room
<1> PICK splice \in BOOLEAN : splice = (kind # "count_tokens" /\ Matches /\ ~Aborted)
  OBVIOUS
<1> PICK p : p = IF splice THEN anchor.fork ELSE Nil
  OBVIOUS
<1> PICK b : b = IF splice THEN anchor.base \o AfterAnchor
                 ELSE IF kind = "count_tokens" THEN <<>> ELSE Turns(local)
  OBVIOUS
<1>3. b \in Body
  <2>1. anchor.base \in Body
    BY DEF HistoryShape, AnchorRec
  <2>2. anchor.base \o AfterAnchor \in Body /\ Turns(local) \in Body /\ <<>> \in Body
    BY <2>1, AfterAnchorFacts, BodyFacts
  <2> QED
    BY <2>2
<1>4. p = Nil \/ (p \in Rows /\ rev[p].sealed # 0)
  BY DEF Matches, HistoryAnchor, AnchorRefs
<1>5. p \in Nat
  BY <1>4, RowsAre DEF Nil
<1> PICK x : x = Row(kind, p, "in_flight", 0, b, splice)
  OBVIOUS
<1>6. rev' = Append(rev, x) /\ now' = now + 1
  <2>1. CASE splice
    BY <2>1 DEF SendMessages, RequestReceived
  <2>2. CASE ~splice
    BY <2>2 DEF SendMessages, RequestReceived
  <2> QED
    BY <2>1, <2>2
<1>7. /\ x \in RevRec /\ x.kind = kind /\ x.parent = p /\ x.class = "in_flight"
      /\ x.sealed = 0 /\ x.created = now + 1 /\ x.spliced = splice
  <2>1. HistoryShape /\ kind \in Kind /\ kind # "sr" /\ p \in Nat /\ b \in Body /\ splice \in BOOLEAN
        /\ x = Row(kind, p, "in_flight", 0, b, splice)
    BY <1>1, <1>3, <1>5
  <2> QED
    BY ONLY <2>1, OpenedRow
<1>8. x.body = b
  BY OpenedBody
<1>9. /\ Goes /\ Len(rev') = Len(rev) + 1 /\ Len(rev) + 1 \in Rows' /\ rev'[Len(rev) + 1] = x
      /\ \A r \in Rows : rev'[r] = rev[r]
  BY <1>1, <1>2, <1>4, <1>6, <1>7, Opening
<1>10. AddsRow(rev, rev', Len(rev) + 1, x)
  <2>1. DOMAIN rev' = 1 .. Len(rev) + 1 /\ DOMAIN rev = 1 .. Len(rev)
    BY <1>2, <1>9, GoesFacts DEF Rows
  <2> QED
    BY <1>2, <1>9, <2>1 DEF AddsRow, Rows
<1>11. Sends(kind, x)
  BY <1>1, <1>7, <1>8 DEF Sends
<1> QED
  BY <1>6, <1>9, <1>10, <1>11 DEF Onward, SendMessages

LEMMA SentSound ==
  ASSUME HistoryInv, InSightInv, NEW kind \in Kind, SendMessages(kind), NEW x, Sends(kind, x),
         AddsRow(rev, rev', Len(rev) + 1, x)
  PROVE  Sound(rev', habit.traffic)
<1> USE DEF HistoryInv
<1> PICK g, h, n, k, t : g = rev /\ h = rev' /\ n = now /\ k = Len(rev) + 1 /\ t = habit.traffic
  OBVIOUS
<1>1. GoodHistory(g, n) /\ AddsRow(g, h, k, x) /\ Sound(g, t) /\ n \in Nat
  BY HistoryIsGood DEF InSightInv, HistoryShape
<1>2. /\ x.sealed = 0 /\ x.class = "in_flight" /\ x.kind # "sr" /\ x.created = n + 1 /\ x.created \in Nat
      /\ x.kind = kind
  BY <1>1 DEF Sends
<1>3. x.kind \in Side => x.kind \in t
  BY <1>2 DEF SendMessages, Side
<1>4. Said(g, x.body, n)
  <2>1. Said(g, Turns(local), n) /\ Said(g, AfterAnchor, n)
    BY LocalSaid DEF InSightInv
  <2>2. CASE x.spliced
    <3>1. anchor.id # Nil
      BY <2>2 DEF Sends, Matches
    <3>2. Said(g, anchor.base, n) /\ anchor.base \in Body /\ AfterAnchor \in Body
      BY <3>1, AfterAnchorFacts DEF InSightInv, AnchorSound, HistoryShape, AnchorRec
    <3>3. Said(g, anchor.base \o AfterAnchor, n)
      BY <2>1, <3>2, SaidBoth
    <3> QED
      BY <2>2, <3>3 DEF Sends
  <2>3. CASE ~x.spliced
    <3>1. Said(g, <<>>, n)
      BY DEF Said
    <3> QED
      BY <2>1, <2>3, <3>1 DEF Sends
  <2> QED
    BY <2>2, <2>3
<1>5. Said(g, x.body, x.created)
  BY <1>1, <1>2, <1>4, SaidLater
<1>6. \A r \in DOMAIN g : g[r].created < x.created
  BY <1>1, <1>2 DEF GoodHistory, GoodIn
<1>7. ~x.spliced => x.parent = Nil
  BY DEF Sends
<1>8. ASSUME x.spliced
      PROVE  /\ x.parent \in DOMAIN g /\ g[x.parent].sealed # 0 /\ x.kind \in {"turn", "inject"}
             /\ x.kind = "inject" => Plain(g, x.parent) # {}
             /\ x.kind = "turn" /\ Plain(g, x.parent) = {} => Until(g, x.body, x.parent)
  <2>1. anchor.id # Nil /\ LastToken = anchor.id /\ x.parent = anchor.fork
        /\ x.body = anchor.base \o AfterAnchor
    BY <1>8 DEF Sends, Matches
  <2>2. x.parent \in DOMAIN g /\ g[x.parent].sealed # 0
    BY <2>1 DEF HistoryAnchor, AnchorRefs, Rows
  <2>3. x.kind \in {"turn", "inject"}
    BY <1>8 DEF Sends
  <2>4. Until(g, anchor.base, anchor.fork) /\ (~Unseen => Plain(g, anchor.fork) # {})
    BY <2>1 DEF InSightInv, AnchorSound
  <2>5. /\ pend = Nil => (LastToken = anchor.id <=> ~Unseen)
        /\ Unseen => AfterAnchor = <<>>
    BY <2>1, TokenFacts DEF InSightInv
  <2>6. x.kind = "inject" => Plain(g, x.parent) # {}
    <3>1. x.kind = "inject" => pend = Nil
      BY <1>2 DEF SendMessages, InSightInv, ClientSound
    <3> QED
      BY <2>1, <2>4, <2>5, <3>1
  <2>7. Plain(g, x.parent) = {} => Until(g, x.body, x.parent)
    <3> SUFFICES ASSUME Plain(g, x.parent) = {} PROVE Until(g, x.body, x.parent)
      OBVIOUS
    <3>1. AfterAnchor = <<>>
      BY <2>1, <2>4, <2>5
    <3>2. anchor.base \in Body
      BY DEF HistoryShape, AnchorRec
    <3>3. x.body = anchor.base
      <4> PICK b : b = anchor.base
        OBVIOUS
      <4>1. b \o <<>> = b
        BY <3>2 DEF Body
      <4> QED
        BY <2>1, <3>1, <4>1
    <3> QED
      BY <2>1, <2>4, <3>3
  <2> QED
    BY <2>2, <2>3, <2>6, <2>7
<1>9. x.spliced => /\ x.parent \in DOMAIN g /\ g[x.parent].sealed # 0 /\ x.kind \in {"turn", "inject"}
                   /\ x.kind = "inject" => Plain(g, x.parent) # {}
                   /\ x.kind = "turn" /\ Plain(g, x.parent) = {} => Until(g, x.body, x.parent)
  BY <1>8
<1>10. Sound(h, t)
  BY ONLY <1>1, <1>2, <1>3, <1>5, <1>6, <1>7, <1>9, OpenedSound
<1> QED
  BY <1>10

LEMMA SendSound ==
  ASSUME HistoryInv, InSightInv, NEW kind \in Kind, SendMessages(kind)
  PROVE  InSightInv'
<1> USE DEF HistoryInv, InSightInv
<1> PICK x : /\ Sends(kind, x) /\ Onward /\ AddsRow(rev, rev', Len(rev) + 1, x)
             /\ call' = Len(rev) + 1 /\ Len(rev) + 1 \in Rows' /\ now' = now + 1
  BY SendFacts
<1> PICK k : k = Len(rev) + 1
  OBVIOUS
<1>1. /\ rev'[k] = x /\ k \notin Rows /\ Rows' = Rows \cup {k} /\ \A r \in Rows : rev'[r] = rev[r]
      /\ call' = k
  BY DEF AddsRow, Rows
<1>2. k # Nil /\ Nil \notin Rows /\ now \in Nat
  BY RowsAre DEF HistoryShape, Nil
<1>3. /\ call = Nil /\ forks' = forks /\ pair' = pair /\ dump' = dump /\ local' = local
      /\ pend' = pend /\ habit' = habit /\ (phase' = "typing" => phase = "typing") /\ phase' # "tool"
      /\ (phase = "typing" => phase' = phase)
  BY DEF SendMessages
<1>4. /\ x.kind = kind /\ x.sealed = 0 /\ x.created = now + 1
      /\ kind \in {"turn", "inject", "count_tokens"}
      /\ x.spliced <=> (kind # "count_tokens" /\ Matches /\ ~Aborted)
      /\ x.parent = IF x.spliced THEN anchor.fork ELSE Nil
  BY DEF Sends
<1>5. anchor' = NoAnchorRow \/ (anchor' = anchor /\ (kind # "count_tokens" => ~Diverged /\ ~Aborted))
  BY DEF SendMessages, RequestReceived
<1>6. \A r \in Rows : rev[r].sealed \in 0 .. now
  BY DEF HistoryRows, GoodRow
<1>7. anchor.id # Nil => /\ pend # Nil => LastToken = anchor.id
                         /\ pend = Nil => (LastToken = anchor.id <=> ~Unseen)
  BY TokenFacts
<1>8. Unseen' <=> (anchor' = NoAnchorRow \/ Unseen)
  <2>1. anchor' = NoAnchorRow => Unseen'
    BY NoAnchorSound
  <2>2. anchor' = anchor => (Unseen' <=> Unseen)
    BY <1>3 DEF Unseen
  <2>3. anchor' = NoAnchorRow /\ anchor' = anchor => Unseen'
    BY <2>1
  <2> QED
    BY <1>5, <2>1, <2>2
<1>9. phase = "typing" /\ Unseen => ~x.spliced
  BY <1>4, <1>7 DEF ClientSound, Matches
<1>10. Sound(rev', habit'.traffic)
  BY <1>3, SentSound
<1>11. CallSound'
  <2>1. \A r \in Rows' : Queued(rev', r) /\ rev'[r].sealed = 0 => r = call'
    BY <1>1, <1>2, <1>3 DEF CallSound, Queued
  <2>2. \A q \in Rows' : q # call' /\ Queued(rev', q) => rev'[q].sealed <= rev'[call'].created
    <3> SUFFICES ASSUME NEW q \in Rows PROVE rev[q].sealed <= now + 1
      BY <1>1, <1>4
    <3> QED
      BY <1>2, <1>6
  <2>3. ASSUME rev'[call'].kind = "inject"
        PROVE  phase' = "typing" /\ (rev'[call'].spliced \/ Unseen')
    <3>1. kind = "inject" /\ phase = "typing"
      BY <1>1, <1>4, <2>3 DEF SendMessages
    <3>2. pend = Nil
      BY <3>1 DEF ClientSound
    <3>3. x.spliced \/ Unseen'
      BY <1>4, <1>5, <1>7, <1>8, <3>1, <3>2 DEF Matches, Unseen
    <3> QED
      BY <1>1, <1>3, <3>1, <3>3
  <2> QED
    BY <2>1, <2>2, <2>3 DEF CallSound
<1>12. TokensSound'
  <2>1. anchor'.id \in {Nil, anchor.id}
    BY <1>5 DEF NoAnchorRow
  <2> QED
    BY <1>3, <2>1 DEF TokensSound
<1>13. ClientSound'
  <2>1. \A i \in DOMAIN local : local[i].turn \in Rows
    BY DEF HistoryRefs, LocalRefs
  <2> QED
    BY <1>1, <1>3, <2>1 DEF ClientSound
<1>14. AnchorSound'
  <2>1. CASE anchor' = NoAnchorRow
    BY <2>1, NoAnchorSound
  <2>2. CASE anchor' = anchor /\ (kind # "count_tokens" => ~Diverged /\ ~Aborted)
    <3>1. ASSUME anchor.id # Nil, Holds' PROVE Holds \/ Plain(rev', anchor.fork) # {}
      <4>1. CASE ~Unseen'
        BY <1>8, <4>1 DEF Holds
      <4>2. CASE Unseen'
        <5>1. pend = anchor.id /\ kind = "turn"
          BY <1>1, <1>3, <1>4, <2>2, <3>1, <4>2 DEF Holds
        <5>2. x.spliced
          BY <1>4, <1>7, <2>2, <3>1, <5>1 DEF Matches
        <5>3. k \in Plain(rev', anchor.fork)
          BY <1>1, <1>4, <5>1, <5>2 DEF Plain, Rows
        <5> QED
          BY <5>3
      <4> QED
        BY <4>1, <4>2
    <3> QED
      BY <2>2, <3>1, AnchorSoundStays
  <2> QED
    BY <1>5, <2>1, <2>2
<1>15. DumpSound'
  BY <1>3, DumpSoundStays
<1>16. PairSound'
  BY <1>3 DEF PairSound
<1>17. HeardSound'
  <2> SUFFICES ASSUME "models" \notin habit.traffic, NEW r \in Rows', Alone(r)'
               PROVE  (\E c \in Rows' : rev'[c].parent = r) \/ Pending(r)'
    BY <1>3 DEF HeardSound
  <2>1. r \in Rows /\ rev'[r] = rev[r] /\ Alone(r)
    BY <1>1, <1>4 DEF Alone
  <2>2. CASE \E c \in Rows : rev[c].parent = r
    BY <1>1, <2>2
  <2>3. CASE Pending(r)
    <3>1. phase = "typing" /\ Unseen /\ \A q \in Rows : q # r => rev[q].sealed < rev[r].sealed
      BY <1>3, <2>3 DEF Pending
    <3>2. ~x.spliced
      BY <1>9, <3>1
    <3>3. rev[r].sealed \in 1 .. now
      BY <1>6, <2>1 DEF Alone
    <3>4. \A q \in Rows' : q # r => rev'[q].sealed < rev'[r].sealed
      BY <1>1, <1>4, <2>1, <3>1, <3>3
    <3>5. anchor'.sr # "gone" => anchor'.at < rev'[r].sealed
      <4>1. anchor'.sr # "gone" => anchor' = anchor
        BY <1>5 DEF NoAnchorRow
      <4>2. anchor.sr # "gone" => anchor.at < rev[r].sealed
        BY <2>3 DEF Pending
      <4> QED
        BY <2>1, <4>1, <4>2
    <3>6. ~rev'[call'].spliced /\ rev'[r].sealed <= rev'[call'].created /\ call' # Nil
      BY <1>1, <1>2, <1>4, <2>1, <3>2, <3>3
    <3> QED
      BY <3>4, <3>5, <3>6 DEF Pending
  <2> QED
    BY <2>1, <2>2, <2>3 DEF HeardSound
<1> QED
  BY <1>10, <1>11, <1>12, <1>13, <1>14, <1>15, <1>16, <1>17

LEMMA AskModelsSound ==
  ASSUME HistoryInv, InSightInv, AskModels
  PROVE  InSightInv'
<1> USE DEF HistoryInv, InSightInv
<1>1. /\ views' = views /\ anchor' = anchor /\ forks' = forks /\ pair' = pair /\ dump' = dump
      /\ habit' = habit /\ call' = call /\ Room /\ "models" \in habit.traffic
      /\ local' = local /\ pend' = pend /\ phase' = phase /\ used' = used /\ now' = now + 1
  BY DEF AskModels, toolVars, client
<1> PICK k, x : k = Len(rev) + 1 /\ x = Row("models", Nil, "in_flight", 0, <<>>, FALSE)
  OBVIOUS
<1>2. /\ x \in RevRec /\ x.kind = "models" /\ x.parent = Nil /\ x.class = "in_flight"
      /\ x.sealed = 0 /\ x.created = now + 1 /\ x.spliced = FALSE /\ x.body = <<>>
  <2>1. "models" \in Kind /\ <<>> \in Body /\ Nil \in Nat /\ FALSE \in BOOLEAN /\ "models" # "sr"
    BY EmptySeq DEF Kind, Side, Body, Nil
  <2> PICK kind, p, b, s : kind = "models" /\ p = Nil /\ b = <<>> /\ s = FALSE
    OBVIOUS
  <2>2. /\ HistoryShape /\ kind \in Kind /\ kind # "sr" /\ p \in Nat /\ b \in Body /\ s \in BOOLEAN
        /\ x = Row(kind, p, "in_flight", 0, b, s)
    BY <2>1
  <2>3. /\ x \in RevRec /\ x.kind = kind /\ x.parent = p /\ x.class = "in_flight"
        /\ x.sealed = 0 /\ x.created = now + 1 /\ x.spliced = s
    BY ONLY <2>2, OpenedRow
  <2>4. x.body = b
    BY ONLY <2>2, OpenedBody
  <2> QED
    BY <2>3, <2>4
<1>3. rev' = Append(rev, x) /\ Len(rev) < MaxRevisions /\ Len(rev) \in Nat /\ Rows = 1 .. Len(rev)
  <2>1. Len(rev) \in Nat /\ MaxRevisions \in Nat /\ Rows = 1 .. Len(rev)
    BY BoundsAssumption, RowsAre
  <2> QED
    BY <1>1, <2>1 DEF AskModels, Room
<1>4. /\ Goes /\ Len(rev') = Len(rev) + 1 /\ k \in Rows' /\ rev'[k] = x
      /\ \A r \in Rows : rev'[r] = rev[r]
  BY <1>1, <1>2, <1>3, Opening
<1>5. Rows' = Rows \cup {k} /\ k \notin Rows /\ Onward /\ Nil \notin Rows
  <2>1. Rows' = 1 .. Len(rev) + 1
    BY <1>4, GoesFacts DEF Rows
  <2> QED
    BY <1>3, <1>4, <2>1, RowsAre DEF Onward
<1>6. AddsRow(rev, rev', k, x)
  BY <1>4, <1>5 DEF AddsRow, Rows
<1>7. Sound(rev', habit'.traffic)
  <2> PICK g, h, n, t : g = rev /\ h = rev' /\ n = now /\ t = habit.traffic
    OBVIOUS
  <2>1. GoodHistory(g, n) /\ AddsRow(g, h, k, x) /\ Sound(g, t) /\ n \in Nat
    BY <1>6, HistoryIsGood DEF HistoryShape
  <2>2. x.body = <<>> /\ x.created = n + 1 /\ x.kind = "models" /\ "models" \in t
        /\ x.sealed = 0 /\ x.class = "in_flight" /\ x.parent = Nil /\ x.spliced = FALSE
    BY <1>1, <1>2
  <2>3. (\A r \in DOMAIN g : g[r].created < x.created) /\ Said(g, x.body, x.created)
    BY ONLY <2>1, <2>2 DEF GoodHistory, GoodIn, Said
  <2>4. x.kind # "sr" /\ x.created \in Nat /\ (x.kind \in Side => x.kind \in t)
    BY ONLY <2>1, <2>2
  <2>5. Sound(h, t)
    BY ONLY <2>1, <2>2, <2>3, <2>4, OpenedSound
  <2> QED
    BY <1>1, <2>5
<1>8. call # Nil => call \in Rows /\ rev'[call] = rev[call]
  BY <1>4 DEF HistoryCall
<1>9. CallSound'
  <2>1. \A r \in Rows' : Queued(rev', r) => r \in Rows /\ rev'[r] = rev[r] /\ Queued(rev, r)
    BY <1>2, <1>4, <1>5 DEF Queued
  <2>2. Unseen' <=> Unseen
    BY <1>1 DEF Unseen
  <2> QED
    BY <1>1, <1>8, <2>1, <2>2 DEF CallSound
<1>10. TokensSound'
  BY <1>1 DEF TokensSound
<1>11. ClientSound'
  <2>1. \A i \in DOMAIN local : local[i].turn \in Rows
    BY DEF HistoryRefs, LocalRefs
  <2>2. \A r \in Rows' : rev'[r].kind = "inject" => r \in Rows /\ rev'[r] = rev[r]
    BY <1>2, <1>4, <1>5
  <2> QED
    BY <1>1, <1>4, <1>5, <2>1, <2>2 DEF ClientSound
<1>12. AnchorSound'
  <2>1. Holds' => Holds
    BY <1>1, <1>8 DEF Holds, Unseen
  <2> QED
    BY <1>1, <1>5, <2>1, AnchorSoundStays
<1>13. DumpSound'
  BY <1>1, <1>5, DumpSoundStays
<1>14. PairSound' /\ HeardSound'
  BY <1>1 DEF PairSound, HeardSound
<1> QED
  BY <1>7, <1>9, <1>10, <1>11, <1>12, <1>13, <1>14

-----------------------------------------------------------------------------
(* A call is answered, or breaks off. *)

LEMMA NewestParent ==
  ASSUME HistoryShape, HistoryRows, NEW r \in Rows, rev[r].parent = Nil,
         NEW q \in Rows, rev[q].sealed \in 1 .. rev[r].created
  PROVE  ParentOf(r) \in Rows /\ rev[q].sealed <= rev[ParentOf(r)].sealed
<1> DEFINE T == {p \in Rows : Sealed(p) /\ rev[p].sealed <= rev[r].created}
<1>1. q \in T
  <2>1. rev[r].created \in Nat
    BY DEF HistoryRows, GoodRow, HistoryShape
  <2> QED
    BY <2>1 DEF Sealed
<1>2. Latest(T, SealedAt) \in T /\ \A s \in T : rev[s].sealed <= rev[Latest(T, SealedAt)].sealed
  BY <1>1, LatestSealed
<1>3. ParentOf(r) = Latest(T, SealedAt)
  BY DEF ParentOf, ResolveParentAtSealTime
<1> QED
  BY <1>1, <1>2, <1>3

LEMMA SealedSound ==
  ASSUME HistoryInv, InSightInv, NEW r \in Rows, rev[r].sealed = 0,
         r = call \/ rev[r].kind = "models", NEW class \in Classes \ {"in_flight"},
         class = "closed_forkable" => rev[r].kind \in {"turn", "inject"},
         NEW t, t = Seal(r, class)
  PROVE  Sound(t, habit.traffic)
<1> USE DEF HistoryInv, InSightInv
<1>1. /\ GoodHistory(t, now + 1) /\ Grown(rev, t) /\ DOMAIN t = Rows
      /\ t[r] = SealedRow(r, class) /\ \A q \in Rows : q # r => t[q] = rev[q]
  BY Sealing
<1> PICK y : y = SealedRow(r, class)
  OBVIOUS
<1>2. y.parent = ParentOf(r) /\ y.class = class /\ y.sealed = now + 1
  BY SealForm
<1>3. rev[r].kind # "sr"
  BY DEF HistoryRows, GoodRow
<1> PICK g, n, tr : g = rev /\ n = now /\ tr = habit.traffic
  OBVIOUS
<1>4. GoodHistory(g, n) /\ Sound(g, tr) /\ n \in Nat /\ GoodHistory(t, n + 1) /\ Grown(g, t)
  BY <1>1, HistoryIsGood DEF HistoryShape
<1>5. r \in DOMAIN g /\ g[r].sealed = 0 /\ g[r].kind # "sr" /\ y.sealed = n + 1
      /\ (y.class = "closed_forkable" => g[r].kind \in {"turn", "inject"})
  BY <1>2, <1>3 DEF Rows
<1>6. Shuts(g, t, r, y)
  BY <1>1 DEF Shuts, Rows
<1>7. ASSUME g[r].parent = Nil, NEW q \in DOMAIN g, g[q].sealed \in 1 .. g[r].created
      PROVE  y.parent \in DOMAIN g /\ g[q].sealed <= g[y.parent].sealed
  BY <1>2, <1>7, NewestParent DEF Rows
<1>8. Queued(g, r) => \A q \in DOMAIN g : q # r /\ Queued(g, q) => g[q].sealed <= g[r].created
  <2>1. Queued(g, r) => r = call /\ call # Nil
    BY RowsAre DEF Queued
  <2> QED
    BY <2>1 DEF CallSound, Rows
<1>9. g[r].parent = Nil => \A q \in DOMAIN g : g[q].sealed \in 1 .. g[r].created =>
                             y.parent \in DOMAIN g /\ g[q].sealed <= g[y.parent].sealed
  BY <1>7
<1>10. Sound(t, tr)
  BY ONLY <1>4, <1>5, <1>6, <1>8, <1>9, ShutSound
<1> QED
  BY <1>10

(* What the end of a call r does to the history. *)
Closes(r) ==
  /\ Onward /\ Rows \subseteq Rows' /\ Sound(rev', habit.traffic)
  /\ \A q \in Rows : q # r => rev'[q] = rev[q]
  /\ rev'[r].kind = rev[r].kind /\ rev'[r].created = rev[r].created
  /\ rev'[r].spliced = rev[r].spliced
  /\ rev'[r].sealed = now + 1 /\ rev'[r].parent = ParentOf(r)
  /\ \A q \in Rows' : q \in Rows \/ (rev'[q].kind = "sr" /\ rev'[q].sealed \in 1 .. now)
  /\ anchor'.id = anchor.id /\ anchor'.base = anchor.base /\ anchor'.fork = anchor.fork
  /\ anchor'.r1 = anchor.r1 /\ anchor'.at = anchor.at
  /\ anchor'.sr # "gone" => anchor.sr # "gone"

LEMMA SealCloses ==
  ASSUME HistoryInv, InSightInv, NEW r \in Rows, rev[r].sealed = 0,
         r = call \/ rev[r].kind = "models", NEW class \in Classes \ {"in_flight"},
         class = "closed_forkable" => rev[r].kind \in {"turn", "inject"},
         rev' = Seal(r, class), now' = now + 1,
         anchor'.id = anchor.id, anchor'.base = anchor.base, anchor'.fork = anchor.fork,
         anchor'.r1 = anchor.r1, anchor'.at = anchor.at, anchor'.sr # "gone" => anchor.sr # "gone"
  PROVE  Closes(r)
<1> USE DEF HistoryInv
<1> PICK t : t = rev'
  OBVIOUS
<1>1. /\ Goes /\ Rows' = Rows /\ \A q \in Rows : q # r => rev'[q] = rev[q]
  BY SealGoes
<1>2. t[r] = SealedRow(r, class) /\ t = Seal(r, class)
  BY Sealing
<1>3. Sound(t, habit.traffic)
  BY <1>2, SealedSound
<1>4. /\ t[r].kind = rev[r].kind /\ t[r].created = rev[r].created /\ t[r].spliced = rev[r].spliced
      /\ t[r].sealed = now + 1 /\ t[r].parent = ParentOf(r)
  BY <1>2, SealForm
<1>5. Onward
  BY <1>1 DEF Onward
<1> QED
  BY <1>1, <1>3, <1>4, <1>5 DEF Closes

LEMMA MarkerBody ==
  ASSUME NEW x, x = Marker
  PROVE  x.body = <<>>
<1> PICK p, a, n, m, b : p = anchor.r1 /\ a = anchor.at /\ n = now + 1 /\ m = now + 2 /\ b = <<>>
  OBVIOUS
<1>1. x = [[kind |-> "sr", parent |-> p, class |-> "closed_forkable", created |-> n,
            sealed |-> a, body |-> b, spliced |-> FALSE] EXCEPT !.created = m]
  BY DEF Marker, Row
<1>2. x.body = b
  BY ONLY <1>1
<1> QED
  BY <1>2

LEMMA DepartCloses ==
  ASSUME HistoryInv, InSightInv, NEW r \in Rows, rev[r].sealed = 0,
         r = call \/ rev[r].kind = "models", NEW class \in Classes \ {"in_flight"},
         class = "closed_forkable" => rev[r].kind \in {"turn", "inject"},
         Len(rev) < MaxRevisions, anchor.sr # "gone",
         rev' = Append(Seal(r, class), Marker), now' = now + 2,
         anchor'.id = anchor.id, anchor'.base = anchor.base, anchor'.fork = anchor.fork,
         anchor'.r1 = anchor.r1, anchor'.at = anchor.at
  PROVE  Closes(r)
<1> USE DEF HistoryInv
<1>0. anchor.id # Nil /\ anchor.at \in 1 .. now /\ anchor.r1 \in {Nil} \cup Rows
      /\ (anchor.r1 # Nil => rev[anchor.r1].created < anchor.at)
  BY DEF HistoryAnchor, AnchorRefs
<1>1. Goes /\ Rows' = Rows \cup {Len(rev) + 1} /\ \A q \in Rows : q # r => rev'[q] = rev[q]
  BY <1>0, DepartGoes
<1> PICK t : t = Seal(r, class)
  OBVIOUS
<1> PICK u : u = rev'
  OBVIOUS
<1> PICK x : x = Marker
  OBVIOUS
<1> PICK k : k = Len(rev) + 1
  OBVIOUS
<1>2. /\ GoodHistory(t, now + 1) /\ Grown(rev, t) /\ DOMAIN t = Rows /\ Len(t) = Len(rev)
      /\ t[r] = SealedRow(r, class) /\ \A q \in Rows : q # r => t[q] = rev[q]
  BY Sealing
<1>3. Sound(t, habit.traffic)
  BY SealedSound
<1>4. Rows = 1 .. Len(rev) /\ Len(rev) \in Nat /\ now \in Nat /\ anchor.r1 \in Nat /\ anchor.at \in Nat
  BY <1>0, RowsAre DEF HistoryShape, Nil
<1>5. x \in RevRec /\ x.kind = "sr" /\ x.parent = anchor.r1 /\ x.sealed = anchor.at /\ x.body = <<>>
  BY <1>4, MarkerFacts, MarkerBody
<1>6. /\ u[k] = x /\ DOMAIN u = DOMAIN t \cup {k} /\ k \notin DOMAIN t /\ \A q \in DOMAIN t : u[q] = t[q]
  <2>1. u = Append(t, x) /\ t \in Seq(RevRec) /\ x \in RevRec /\ k = Len(t) + 1
    BY <1>2, <1>5 DEF GoodHistory
  <2>2. DOMAIN u = 1 .. Len(t) + 1 /\ u[Len(t) + 1] = x /\ \A q \in 1 .. Len(t) : u[q] = t[q]
    BY ONLY <2>1
  <2>3. DOMAIN t = 1 .. Len(t) /\ Len(t) \in Nat
    BY <2>1
  <2> QED
    BY ONLY <2>1, <2>2, <2>3
<1>7. Sound(u, habit.traffic)
  <2> PICK tr, n : tr = habit.traffic /\ n = now + 1
    OBVIOUS
  <2>1. anchor.r1 # Nil => rev[anchor.r1].kind # "inject"
    BY <1>0 DEF InSightInv, AnchorSound
  <2>2. x.parent # Nil => x.parent \in DOMAIN t /\ t[x.parent].kind # "inject"
    BY <1>0, <1>2, <1>5, <2>1 DEF Grown, Keeps, Rows
  <2>3. GoodHistory(t, n) /\ AddsRow(t, u, k, x) /\ Sound(t, tr) /\ x.kind = "sr" /\ x.body = <<>>
    BY <1>2, <1>3, <1>5, <1>6 DEF AddsRow
  <2>4. Sound(u, tr)
    BY ONLY <2>2, <2>3, MarkedSound
  <2> QED
    BY <2>4
<1>8. /\ t[r].kind = rev[r].kind /\ t[r].created = rev[r].created /\ t[r].spliced = rev[r].spliced
      /\ t[r].sealed = now + 1 /\ t[r].parent = ParentOf(r)
  BY <1>2, SealForm
<1>9. u[r] = t[r]
  BY <1>2, <1>6
<1>10. \A q \in Rows' : q \in Rows \/ (rev'[q].kind = "sr" /\ rev'[q].sealed \in 1 .. now)
  BY <1>0, <1>1, <1>5, <1>6
<1>11. Onward /\ Rows \subseteq Rows'
  BY <1>1 DEF Onward
<1> QED
  BY <1>1, <1>7, <1>8, <1>9, <1>10, <1>11 DEF Closes

LEMMA CompleteCloses ==
  ASSUME HistoryInv, InSightInv, NEW r \in Rows, rev[r].sealed = 0,
         NEW class \in Classes \ {"in_flight"},
         r = call \/ (rev[r].kind = "models" /\ class = "dangling_unforkable"),
         class = "closed_forkable" => rev[r].kind \in {"turn", "inject"}, Complete(r, class)
  PROVE  Closes(r)
<1> USE DEF HistoryInv
<1> PICK sr : sr = MarkerAfter(r, class)
  OBVIOUS
<1>1. anchor \in AnchorRec /\ anchor.sr \in {"gone", "bare", "deferred"} /\ rev[r].spliced \in BOOLEAN
  BY RowsAre DEF HistoryShape, AnchorRec, RevRec
<1>2. sr # "gone" => anchor.sr # "gone"
  BY <1>1, MarkerAfterFacts
<1>3. anchor' = [anchor EXCEPT !.sr = sr]
  BY DEF Complete
<1>4. /\ anchor'.id = anchor.id /\ anchor'.base = anchor.base /\ anchor'.fork = anchor.fork
      /\ anchor'.r1 = anchor.r1 /\ anchor'.at = anchor.at /\ anchor'.sr = sr
  BY <1>1, <1>3 DEF AnchorRec
<1>5. CASE ~Departs(r, class)
  <2>1. rev' = Seal(r, class) /\ now' = now + 1
    BY <1>5 DEF Complete
  <2> QED
    BY <1>2, <1>4, <2>1, SealCloses
<1>6. CASE Departs(r, class)
  <2>1. anchor.sr # "gone" /\ (rev[r].spliced \/ anchor.sr = "deferred") /\ class = "closed_forkable"
    BY <1>6 DEF Departs
  <2>2. rev' = Append(Seal(r, class), Marker) /\ now' = now + 2
    BY <1>6 DEF Complete
  <2>3. r = call /\ call # Nil
    BY <2>1, RowsAre
  <2>4. Len(rev) < MaxRevisions
    BY <1>1, <2>1, <2>3 DEF HistoryAnchor, MarkerRoom
  <2> QED
    BY <1>4, <2>1, <2>2, <2>4, DepartCloses
<1> QED
  BY <1>5, <1>6

(* The client's part in it: it keeps the answer, with the token it sent; or nothing. *)
Keeping ==
  \/ local' = local /\ pend' = pend /\ phase' = phase
  \/ /\ rev[call].kind = "turn" /\ local' = Append(local, [turn |-> call, tok |-> pend])
     /\ pend' = Nil /\ phase' \in {"tool", "typing"}

LEMMA KeptFacts ==
  ASSUME HistoryShape, HistoryCall, call # Nil, pend \in 0 .. forks,
         local' = Append(local, [turn |-> call, tok |-> pend])
  PROVE  /\ DOMAIN local = 1 .. Len(local) /\ Len(local) \in Nat
         /\ DOMAIN local' = 1 .. Len(local) + 1
         /\ local'[Len(local) + 1].turn = call /\ local'[Len(local) + 1].tok = pend
         /\ \A i \in 1 .. Len(local) : local'[i] = local[i]
<1> PICK x : x = [turn |-> call, tok |-> pend]
  OBVIOUS
<1> PICK n : n = pend
  OBVIOUS
<1>1. x = [turn |-> call, tok |-> n] /\ n \in Nat /\ call \in Nat
  BY RowsAre DEF HistoryCall, HistoryShape
<1>2. x \in LocalRec /\ x.turn = call /\ x.tok = n
  BY <1>1 DEF LocalRec
<1>3. local \in Seq(LocalRec) /\ local' = Append(local, x)
  BY DEF HistoryShape
<1>4. /\ DOMAIN local = 1 .. Len(local) /\ Len(local) \in Nat /\ DOMAIN local' = 1 .. Len(local) + 1
      /\ local'[Len(local) + 1] = x /\ \A i \in 1 .. Len(local) : local'[i] = local[i]
  BY <1>2, <1>3
<1> QED
  BY <1>2, <1>4

LEMMA KeepingClient ==
  ASSUME HistoryInv, InSightInv, call # Nil, Closes(call), Keeping, forks' = forks
  PROVE  TokensSound' /\ ClientSound'
<1> USE DEF HistoryInv, InSightInv
<1>1. \A i \in DOMAIN local : local[i].turn \in Rows /\ local[i].tok \in 0 .. forks
  BY DEF HistoryRefs, LocalRefs
<1>2. call \in Rows /\ rev[call].sealed = 0 /\ Rows \subseteq Rows' /\ now \in Nat /\ forks \in Nat
  BY DEF HistoryCall, Closes, HistoryShape
<1>3. \A r \in Rows : /\ rev'[r].kind = rev[r].kind /\ rev'[r].created = rev[r].created
                      /\ rev[r].sealed # 0 => rev'[r].sealed # 0
  BY <1>2 DEF Closes
<1>4. \A r \in Rows' : rev'[r].kind = "inject" => r \in Rows /\ rev[r].kind = "inject"
  BY <1>3 DEF Closes
<1>5. CASE local' = local /\ pend' = pend /\ phase' = phase
  <2>1. TokensSound'
    BY <1>5 DEF TokensSound, Closes
  <2>2. ClientSound'
    BY <1>1, <1>2, <1>3, <1>4, <1>5 DEF ClientSound
  <2> QED
    BY <2>1, <2>2
<1>6. CASE /\ rev[call].kind = "turn" /\ local' = Append(local, [turn |-> call, tok |-> pend])
           /\ pend' = Nil /\ phase' \in {"tool", "typing"}
  <2>1. pend \in 0 .. forks /\ pend \in {Nil, forks}
    BY DEF HistoryShape, TokensSound
  <2>2. /\ DOMAIN local = 1 .. Len(local) /\ Len(local) \in Nat
        /\ DOMAIN local' = 1 .. Len(local) + 1
        /\ local'[Len(local) + 1].turn = call /\ local'[Len(local) + 1].tok = pend
        /\ \A i \in 1 .. Len(local) : local'[i] = local[i]
    BY <1>6, <2>1, KeptFacts
  <2>3. ASSUME NEW i \in DOMAIN local', NEW j \in DOMAIN local', i <= j, local'[j].tok # Nil
        PROVE  local'[i].tok <= local'[j].tok
    <3>1. CASE j \in 1 .. Len(local)
      <4>1. i \in 1 .. Len(local)
        BY <2>2, <2>3, <3>1
      <4> QED
        BY <2>2, <2>3, <3>1, <4>1 DEF TokensSound
    <3>2. CASE j = Len(local) + 1
      <4>1. local'[j].tok = forks
        BY <2>1, <2>2, <2>3, <3>2
      <4>2. i \in 1 .. Len(local) => local'[i].tok \in 0 .. forks
        BY <1>1, <2>2
      <4>3. i = Len(local) + 1 => local'[i].tok = forks
        BY <3>2, <4>1
      <4> QED
        BY <1>2, <2>2, <4>1, <4>2, <4>3
    <3> QED
      BY <2>2, <3>1, <3>2
  <2>4. TokensSound'
    BY <1>6, <2>3 DEF TokensSound, Closes
  <2>5. \A i \in DOMAIN local' : rev'[local'[i].turn].kind = "turn" /\ rev'[local'[i].turn].sealed # 0
    <3>1. \A i \in 1 .. Len(local) : rev'[local'[i].turn].kind = "turn" /\ rev'[local'[i].turn].sealed # 0
      BY <1>1, <1>3, <2>2 DEF ClientSound
    <3>2. rev'[call].kind = "turn" /\ rev'[call].sealed # 0
      BY <1>2, <1>6 DEF Closes
    <3> QED
      BY <2>2, <3>1, <3>2
  <2>6. ASSUME NEW r \in Rows', rev'[r].kind = "inject"
        PROVE  \E m \in Rows' : rev'[r].created < rev'[m].created
    <3>1. r \in Rows /\ rev[r].kind = "inject" /\ r # call /\ Queued(rev, r) /\ Queued(rev, call)
      BY <1>4, <1>6, <2>6 DEF Queued
    <3>2. rev[r].sealed # 0 /\ rev[r].sealed <= rev[call].created
      BY <3>1 DEF CallSound
    <3>3. rev[r].created < rev[r].sealed
      BY <3>1, <3>2 DEF Sound, OneByOne, Rows
    <3>4. rev[r].created \in Nat /\ rev[r].sealed \in Nat /\ rev[call].created \in Nat
      BY <1>2, <3>1 DEF HistoryRows, GoodRow
    <3>5. rev[r].created < rev[call].created
      BY <3>2, <3>3, <3>4
    <3> QED
      BY <1>2, <1>3, <3>1, <3>5
  <2>7. ClientSound'
    BY <1>6, <2>5, <2>6 DEF ClientSound
  <2> QED
    BY <2>4, <2>7
<1> QED
  BY <1>5, <1>6 DEF Keeping

LEMMA CallClosedSound ==
  ASSUME HistoryInv, InSightInv, call # Nil, Closes(call), Keeping, call' = Nil,
         forks' = forks, pair' = pair, dump' = dump, habit' = habit
  PROVE  InSightInv'
<1> USE DEF HistoryInv, InSightInv
<1>1. TokensSound' /\ ClientSound'
  BY KeepingClient
<1>2. Sound(rev', habit'.traffic)
  BY DEF Closes
<1>3. call \in Rows /\ rev[call].sealed = 0 /\ Nil \notin Rows /\ now \in Nat
  BY RowsAre DEF HistoryCall, HistoryShape
<1>4. Onward /\ Rows \subseteq Rows' /\ rev'[call].sealed = now + 1 /\ rev'[call].parent = ParentOf(call)
      /\ rev'[call].kind = rev[call].kind /\ rev'[call].spliced = rev[call].spliced
  BY DEF Closes
<1>5. \A q \in Rows : q # call => rev'[q] = rev[q]
  BY DEF Closes
<1>6. \A q \in Rows' : q \in Rows \/ (rev'[q].kind = "sr" /\ rev'[q].sealed \in 1 .. now)
  BY DEF Closes
<1>7. CallSound'
  <2>1. \A r \in Rows' : Queued(rev', r) /\ rev'[r].sealed = 0 => FALSE
    <3> SUFFICES ASSUME NEW r \in Rows', Queued(rev', r), rev'[r].sealed = 0 PROVE FALSE
      OBVIOUS
    <3>1. r \in Rows /\ r # call
      BY <1>3, <1>4, <1>6
    <3>2. Queued(rev, r) /\ rev[r].sealed = 0
      BY <1>5, <3>1 DEF Queued
    <3> QED
      BY <3>1, <3>2 DEF CallSound
  <2> QED
    BY <2>1 DEF CallSound
<1>8. anchor.id # Nil /\ Holds' => Holds
  <2> SUFFICES ASSUME anchor.id # Nil, Holds' PROVE Holds
    OBVIOUS
  <2>1. anchor'.id = anchor.id /\ pend \in 0 .. forks
    BY DEF Closes, HistoryShape
  <2>2. PICK i \in DOMAIN local' : local'[i].tok = anchor.id
    BY <2>1 DEF Holds, Unseen
  <2>3. CASE local' = local
    BY <2>2, <2>3 DEF Holds, Unseen
  <2>4. CASE /\ rev[call].kind = "turn" /\ local' = Append(local, [turn |-> call, tok |-> pend])
    <3>1. /\ DOMAIN local = 1 .. Len(local) /\ Len(local) \in Nat
          /\ DOMAIN local' = 1 .. Len(local) + 1
          /\ local'[Len(local) + 1].turn = call /\ local'[Len(local) + 1].tok = pend
          /\ \A j \in 1 .. Len(local) : local'[j] = local[j]
      BY <2>1, <2>4, KeptFacts
    <3>2. CASE i = Len(local) + 1
      BY <2>2, <2>4, <3>1, <3>2 DEF Holds
    <3>3. CASE i \in 1 .. Len(local)
      BY <2>2, <3>1, <3>3 DEF Holds, Unseen
    <3> QED
      BY <3>1, <3>2, <3>3
  <2> QED
    BY <2>3, <2>4 DEF Keeping
<1>9. AnchorSound'
  BY <1>4, <1>8, AnchorSoundStays DEF Closes
<1>10. DumpSound' /\ PairSound'
  BY <1>4, DumpSoundStays DEF PairSound
<1>11. HeardSound'
  <2> SUFFICES ASSUME "models" \notin habit.traffic, NEW r \in Rows', Alone(r)'
               PROVE  (\E c \in Rows' : rev'[c].parent = r) \/ Pending(r)'
    BY DEF HeardSound
  <2>1. r \in Rows
    BY <1>6 DEF Alone
  <2>2. CASE r = call
    <3>1. rev[call].kind = "inject" /\ ~rev[call].spliced
      BY <1>4, <2>2 DEF Alone
    <3>2. phase = "typing" /\ Unseen
      BY <3>1 DEF CallSound
    <3>3. local' = local /\ phase' = phase /\ anchor'.id = anchor.id
      BY <3>1 DEF Keeping, Closes
    <3>4. phase' = "typing" /\ Unseen'
      BY <3>2, <3>3 DEF Unseen
    <3>5. \A q \in Rows' : q # r => rev'[q].sealed < rev'[r].sealed
      <4> SUFFICES ASSUME NEW q \in Rows', q # r PROVE rev'[q].sealed \in 0 .. now
        BY <1>3, <1>4, <2>2
      <4>1. CASE q \in Rows
        BY <1>5, <2>2, <4>1 DEF HistoryRows, GoodRow
      <4>2. CASE q \notin Rows
        BY <1>3, <1>6, <4>2
      <4> QED
        BY <4>1, <4>2
    <3>6. anchor'.sr # "gone" => anchor'.at < rev'[r].sealed
      <4>1. anchor'.sr # "gone" => anchor.sr # "gone" /\ anchor'.at = anchor.at
        BY DEF Closes
      <4>2. anchor.sr # "gone" => anchor.at \in 1 .. now
        BY DEF HistoryAnchor, AnchorRefs
      <4> QED
        BY <1>3, <1>4, <2>2, <4>1, <4>2
    <3> QED
      BY <3>4, <3>5, <3>6 DEF Pending
  <2>3. CASE r # call
    <3>1. rev'[r] = rev[r] /\ Alone(r)
      BY <1>5, <2>1, <2>3 DEF Alone
    <3>2. CASE \E c \in Rows : rev[c].parent = r
      <4>1. PICK c \in Rows : rev[c].parent = r
        BY <3>2
      <4>2. Keeps(rev[c], rev'[c]) /\ r # Nil
        BY <1>3, <1>4, <2>1 DEF Onward, Goes, Grown, Rows
      <4> QED
        BY <1>4, <4>1, <4>2 DEF Keeps
    <3>3. CASE Pending(r)
      <4>1. ~rev[call].spliced /\ rev[r].sealed <= rev[call].created
            /\ \A q \in Rows : q # r => rev[q].sealed < rev[r].sealed
        BY <3>3 DEF Pending
      <4>2. rev[call].kind # "sr"
        BY DEF HistoryCall
      <4>3. rev[call].parent = Nil
        BY <1>3, <4>1, <4>2 DEF Sound, Placed, AtSealTime, Rows
      <4>4. rev[r].sealed \in 1 .. rev[call].created
        <5>1. rev[r].sealed \in Nat /\ rev[r].sealed # 0
          BY <2>1, <3>1 DEF HistoryRows, GoodRow, Alone
        <5>2. rev[call].created \in Nat
          BY <1>3 DEF HistoryRows, GoodRow
        <5> QED
          BY <4>1, <5>1, <5>2
      <4>5. ParentOf(call) \in Rows /\ rev[r].sealed <= rev[ParentOf(call)].sealed
        BY <1>3, <2>1, <4>3, <4>4, NewestParent
      <4>6. ParentOf(call) = r
        <5>1. rev[ParentOf(call)].sealed \in Nat /\ rev[r].sealed \in Nat
          BY <2>1, <4>5 DEF HistoryRows, GoodRow
        <5> QED
          BY <4>1, <4>5, <5>1
      <4> QED
        BY <1>3, <1>4, <4>6
    <3> QED
      BY <3>1, <3>2, <3>3, <2>1 DEF HeardSound
  <2> QED
    BY <2>2, <2>3
<1> QED
  BY <1>1, <1>2, <1>7, <1>9, <1>10, <1>11

LEMMA AnsweredSound ==
  ASSUME HistoryInv, InSightInv, NEW stop \in {"end_turn", "tool_use", "max_tokens"}, Answered(stop)
  PROVE  InSightInv'
<1>1. call # Nil /\ call \in Rows /\ rev[call].sealed = 0 /\ rev[call].kind \notin {"sr", "models"}
      /\ call' = Nil /\ forks' = forks /\ pair' = pair /\ dump' = dump /\ habit' = habit
  BY DEF Answered, HistoryCall, HistoryInv
<1> PICK class : class = IF rev[call].kind = "count_tokens" THEN Classify("null") ELSE Classify(stop)
  OBVIOUS
<1>2. class \in Classes \ {"in_flight"} /\ Complete(call, class)
  BY ClassFacts DEF Answered
<1>3. class = "closed_forkable" => rev[call].kind \in {"turn", "inject"}
  <2>1. rev[call].kind \in Kind
    BY <1>1, RowsAre DEF HistoryInv, RevRec
  <2>2. rev[call].kind = "count_tokens" => class = "dangling_unforkable"
    BY ClassFacts
  <2> QED
    BY <1>1, <2>1, <2>2 DEF Kind, Side
<1>4. Closes(call)
  BY <1>1, <1>2, <1>3, CompleteCloses
<1>5. Keeping
  <2>1. CASE rev[call].kind = "turn"
    BY <2>1 DEF Answered, Keeping
  <2>2. CASE rev[call].kind # "turn"
    BY <2>2 DEF Answered, Keeping, client
  <2> QED
    BY <2>1, <2>2
<1> QED
  BY <1>1, <1>4, <1>5, CallClosedSound

LEMMA BrokenOffSound ==
  ASSUME HistoryInv, InSightInv, Refused \/ MarkDangling
  PROVE  InSightInv'
<1>1. /\ call # Nil /\ call \in Rows /\ rev[call].sealed = 0 /\ call' = Nil
      /\ anchor' = anchor /\ forks' = forks /\ pair' = pair /\ dump' = dump /\ habit' = habit
      /\ local' = local /\ pend' = pend /\ phase' = phase
      /\ rev' = Seal(call, "dangling_unforkable") /\ now' = now + 1
  BY DEF Refused, MarkDangling, HistoryCall, toolVars, client, HistoryInv
<1>2. "dangling_unforkable" \in Classes \ {"in_flight"}
  BY DEF Classes
<1>3. Closes(call)
  BY <1>1, <1>2, SealCloses
<1> QED
  BY <1>1, <1>3, CallClosedSound DEF Keeping

LEMMA ModelsSound ==
  ASSUME HistoryInv, InSightInv, ModelsAnswered
  PROVE  InSightInv'
<1> USE DEF HistoryInv, InSightInv
<1>1. PICK r \in Rows : rev[r].kind = "models" /\ ~Sealed(r) /\ Complete(r, Classify("null"))
                        /\ UNCHANGED <<forks, pair, dump, client, call, habit>>
  BY DEF ModelsAnswered
<1>2. /\ forks' = forks /\ pair' = pair /\ dump' = dump /\ call' = call /\ habit' = habit
      /\ local' = local /\ pend' = pend /\ phase' = phase /\ rev[r].sealed = 0
  BY <1>1 DEF client, Sealed
<1>3. Classify("null") = "dangling_unforkable" /\ Classify("null") \in Classes \ {"in_flight"}
  BY ClassFacts
<1>4. Closes(r)
  BY <1>1, <1>2, <1>3, CompleteCloses
<1>5. /\ Onward /\ Rows \subseteq Rows' /\ Sound(rev', habit'.traffic)
      /\ \A q \in Rows : q # r => rev'[q] = rev[q]
      /\ rev'[r].kind = "models" /\ rev'[r].created = rev[r].created
      /\ \A q \in Rows' : q \in Rows \/ (rev'[q].kind = "sr" /\ rev'[q].sealed \in 1 .. now)
      /\ anchor'.id = anchor.id
  BY <1>1, <1>2, <1>4 DEF Closes
<1>6. call # Nil => call \in Rows /\ call # r /\ rev'[call] = rev[call]
  BY <1>1, <1>5 DEF HistoryCall
<1>7. \A q \in Rows' : rev'[q].kind # "sr" /\ rev'[q].kind # "models" => q \in Rows /\ rev'[q] = rev[q]
  BY <1>5
<1>8. CallSound'
  <2>1. \A q \in Rows' : Queued(rev', q) => q \in Rows /\ rev'[q] = rev[q] /\ Queued(rev, q)
    BY <1>7 DEF Queued
  <2>2. Unseen' <=> Unseen
    BY <1>2, <1>5 DEF Unseen
  <2> QED
    BY <1>2, <1>6, <2>1, <2>2 DEF CallSound
<1>9. TokensSound'
  BY <1>2, <1>5 DEF TokensSound
<1>10. ClientSound'
  <2>1. \A i \in DOMAIN local : local[i].turn \in Rows
    BY DEF HistoryRefs, LocalRefs
  <2>2. \A i \in DOMAIN local : rev'[local[i].turn] = rev[local[i].turn]
    BY <1>1, <1>5, <2>1 DEF ClientSound
  <2>3. \A q \in Rows' : rev'[q].kind = "inject" => q \in Rows /\ rev'[q] = rev[q]
    BY <1>7
  <2>4. \A q \in Rows : q \in Rows' /\ rev'[q].created = rev[q].created
    BY <1>5
  <2> QED
    BY <1>2, <2>2, <2>3, <2>4 DEF ClientSound
<1>11. AnchorSound'
  <2>1. Holds' => Holds
    BY <1>2, <1>5, <1>6 DEF Holds, Unseen
  <2> QED
    BY <1>4, <1>5, <2>1, AnchorSoundStays DEF Closes
<1>12. DumpSound' /\ PairSound'
  BY <1>2, <1>5, DumpSoundStays DEF PairSound
<1>13. HeardSound'
  <2>1. "models" \in habit.traffic
    BY <1>1 DEF Sound, Sorted, Rows, Side
  <2> QED
    BY <1>2, <2>1 DEF HeardSound
<1> QED
  BY <1>5, <1>8, <1>9, <1>10, <1>11, <1>12, <1>13

-----------------------------------------------------------------------------
(* A tool is used. *)

LEMMA ToolSound ==
  ASSUME HistoryInv, InSightInv, rev' = rev, now' \in {now, now + 1}, call = Nil, call' = call,
         phase = "tool", phase' = phase, habit' = habit, local' = local,
         TokensSound', AnchorSound', DumpSound', PairSound'
  PROVE  InSightInv'
<1> USE DEF InSightInv
<1>1. Rows' = Rows /\ Sound(rev', habit'.traffic)
  BY DEF Rows
<1>2. CallSound'
  BY <1>1 DEF CallSound
<1>3. ClientSound'
  BY <1>1 DEF ClientSound
<1>4. HeardSound'
  BY <1>1 DEF HeardSound, Pending, Alone
<1> QED
  BY <1>1, <1>2, <1>3, <1>4

LEMMA SameAnchorSound ==
  ASSUME HistoryInv, InSightInv, rev' = rev, now' \in {now, now + 1}, call = Nil, call' = call,
         local' = local, anchor' = anchor, forks' = forks, pend' = pend
  PROVE  TokensSound' /\ AnchorSound' /\ Onward
<1>1. Onward
  BY Standing DEF Onward, HistoryInv
<1>2. TokensSound'
  BY DEF TokensSound, InSightInv
<1>3. Holds' => Holds
  BY DEF Holds, Unseen
<1>4. AnchorSound'
  BY <1>1, <1>3, AnchorSoundStays DEF HistoryInv, InSightInv
<1> QED
  BY <1>1, <1>2, <1>4

LEMMA NewestRow ==
  ASSUME HistoryShape, HistoryRows, NEW q \in Rows
  PROVE  MostRecentRevision \in Rows /\ rev[q].created <= rev[MostRecentRevision].created
<1> DEFINE f == [r \in Rows |-> rev[r].created]
<1>1. f \in [Rows -> 0 .. now] /\ now \in Nat
  BY DEF HistoryShape, HistoryRows, GoodRow
<1>2. \E r \in Rows : \A s \in Rows : f[s] <= f[r]
  <2> HIDE DEF f
  <2> QED
    BY <1>1, LargestOf
<1>3. \E r \in Rows : \A s \in Rows : CreatedAt(s) <= CreatedAt(r)
  BY <1>2 DEF CreatedAt
<1>4. MostRecentRevision = CHOOSE r \in Rows : \A s \in Rows : CreatedAt(s) <= CreatedAt(r)
  BY DEF MostRecentRevision, Latest
<1> QED
  BY <1>3, <1>4 DEF CreatedAt

LEMMA InsertedSound ==
  ASSUME HistoryInv, InSightInv, rev' = rev, call = Nil, call' = call, local' = local,
         phase = "tool", NEW kind \in {"rewind", "submit"}, NEW base \in Body, NEW fork \in Rows,
         rev[fork].class = "closed_forkable", Said(rev, base, now), Until(rev, base, fork),
         InsertActiveAnchor(kind, base, fork)
  PROVE  TokensSound' /\ AnchorSound' /\ Onward
<1> USE DEF HistoryInv, InSightInv
<1>1. /\ forks' = forks + 1 /\ pend' = forks + 1 /\ now' = now + 1
      /\ anchor'.id = forks + 1 /\ anchor'.base = base /\ anchor'.fork = fork
      /\ anchor'.r1 = MostRecentRevision /\ forks \in Nat
  BY DEF InsertActiveAnchor, HistoryShape
<1>2. Onward
  BY <1>1, Standing DEF Onward
<1>3. TokensSound'
  BY <1>1 DEF TokensSound
<1>4. ~Holds'
  <2>1. \A i \in DOMAIN local : local[i].tok # forks + 1
    <3>1. \A i \in DOMAIN local : local[i].tok \in 0 .. forks
      BY DEF HistoryRefs, LocalRefs
    <3> QED
      BY <1>1, <3>1
  <2> QED
    BY <1>1, <2>1 DEF Holds, Unseen
<1>5. Said(rev', base, now')
  BY <1>2, SaidGoes DEF Onward
<1>6. anchor'.r1 # Nil => rev'[anchor'.r1].kind # "inject"
  <2> SUFFICES ASSUME rev[MostRecentRevision].kind = "inject" PROVE FALSE
    BY <1>1
  <2>1. MostRecentRevision \in Rows
    BY NewestRow
  <2>2. PICK m \in Rows : rev[MostRecentRevision].created < rev[m].created
    BY <2>1 DEF ClientSound
  <2>3. rev[m].created <= rev[MostRecentRevision].created
    BY NewestRow
  <2>4. rev[m].created \in Nat /\ rev[MostRecentRevision].created \in Nat
    BY <2>1 DEF HistoryRows, GoodRow
  <2> QED
    BY <2>2, <2>3, <2>4
<1> QED
  BY <1>1, <1>2, <1>3, <1>4, <1>5, <1>6 DEF AnchorSound, Holds

(* What may be rewound to: a turn, or an injection that its first child tells of. *)
Tellable(t) ==
  /\ t \in Rows /\ rev[t].class = "closed_forkable"
  /\ rev[t].kind = "inject" => HasMessages(FirstChild(t)) \/ rev[t].spliced

LEMMA BackTellable ==
  ASSUME HistoryShape, HistoryRows, NEW n, Target(n) # Nil
  PROVE  Tellable(Target(n))
<1>1. EffectiveHead \in Rows
  BY HeadFacts DEF Target
<1>2. Target(n) \in Rows /\ Forkable(Target(n))
  BY <1>1, NthBack DEF Target
<1> QED
  BY <1>2 DEF Tellable, Forkable

LEMMA NamedTellable ==
  ASSUME HistoryInv, InSightInv, InjectionsInSight, call = Nil, phase = "tool",
         "turn" \in habit.tools, NEW t \in Rows, Named(t) # Nil
  PROVE  Tellable(Named(t))
<1> USE DEF HistoryInv, InSightInv
<1>1. Named(t) = t /\ rev[t].class = "closed_forkable"
  BY DEF Named
<1>2. ASSUME rev[t].kind = "inject", ~rev[t].spliced
      PROVE  HasMessages(FirstChild(t))
  <2>1. "inject" \in habit.traffic /\ habit \in Habits
    BY <1>2 DEF Sound, Sorted, Rows, Side, HistoryShape
  <2>2. "models" \notin habit.traffic
    BY <2>1 DEF InjectionsInSight
  <2>3. Alone(t)
    BY <1>1, <1>2 DEF Alone, HistoryRows, GoodRow
  <2>4. ~Pending(t)
    BY DEF Pending
  <2>5. PICK c \in Rows : rev[c].parent = t
    BY <2>2, <2>3, <2>4 DEF HeardSound
  <2> QED
    BY <1>2, <2>2, <2>5, FirstChildHeard
<1> QED
  BY <1>1, <1>2 DEF Tellable

LEMMA RewindSound ==
  ASSUME HistoryInv, InSightInv, NEW target, RewindTo(target), target # Nil => Tellable(target)
  PROVE  InSightInv'
<1>1. ToolUse("rewind") /\ pair' = pair \ {"rewind"} /\ views' = views /\ dump' = dump
      /\ phase = "tool"
  BY DEF RewindTo, Confirmed, ToolUse
<1>2. /\ rev' = rev /\ call = Nil /\ call' = call /\ phase' = phase /\ habit' = habit
      /\ local' = local
  BY <1>1, ToolUseFacts
<1>3. PairSound'
  BY <1>1, <1>2 DEF PairSound, InSightInv
<1>4. now' \in {now, now + 1} /\ TokensSound' /\ AnchorSound' /\ Onward
  <2> PICK base : base = IF target = Nil THEN NoMessages ELSE ReconstructForkMessages(target)
    OBVIOUS
  <2>1. CASE base # NoMessages /\ InsertActiveAnchor("rewind", base, target)
    <3>1. target # Nil /\ Tellable(target) /\ base = ReconstructForkMessages(target)
      BY <2>1
    <3>2. target \in Rows /\ rev[target].class = "closed_forkable" /\ base \in Body
      BY <3>1, ReconstructFacts DEF Tellable, HistoryInv
    <3>3. Said(rev, base, now) /\ Until(rev, base, target)
      <4> PICK t, tr : t = target /\ tr = habit.traffic
        OBVIOUS
      <4>1. HistoryShape /\ HistoryRows /\ Sound(rev, tr) /\ t \in Rows
            /\ rev[t].class = "closed_forkable" /\ base = ReconstructForkMessages(t) /\ base # NoMessages
        BY <2>1, <3>1, <3>2 DEF HistoryInv, InSightInv
      <4>2. rev[t].kind = "inject" => HasMessages(FirstChild(t)) \/ rev[t].spliced
        BY <3>1 DEF Tellable
      <4>3. Said(rev, base, now) /\ Until(rev, base, t)
        BY ONLY <4>1, <4>2, RepeatedSound
      <4> QED
        BY <4>3
    <3>4. now' = now + 1
      BY <2>1 DEF InsertActiveAnchor
    <3> QED
      BY <1>1, <1>2, <2>1, <3>2, <3>3, <3>4, InsertedSound
  <2>2. CASE anchor' = anchor /\ forks' = forks /\ pend' = pend /\ now' = now
    BY <1>2, <2>2, SameAnchorSound
  <2> QED
    BY <2>1, <2>2 DEF RewindTo
<1>5. DumpSound'
  BY <1>1, <1>2, <1>4, DumpSoundStays DEF HistoryInv, InSightInv
<1> QED
  BY <1>1, <1>2, <1>3, <1>4, <1>5, ToolSound

LEMMA NewestForkable ==
  ASSUME HistoryShape, HistoryRows
  PROVE  /\ MostRecentForkableRevision # Nil =>
              MostRecentForkableRevision \in Rows /\ Forkable(MostRecentForkableRevision)
         /\ \A r \in Rows : Forkable(r) => rev[r].sealed <= rev[MostRecentForkableRevision].sealed
<1> DEFINE T == {r \in Rows : Forkable(r) /\ Sealed(r)}
<1>1. T # {} => /\ Latest(T, SealedAt) \in T
                /\ \A s \in T : rev[s].sealed <= rev[Latest(T, SealedAt)].sealed
  BY LatestSealed
<1>2. T = {} => Latest(T, SealedAt) = Nil
  BY DEF Latest
<1>3. \A r \in Rows : Forkable(r) => r \in T
  BY DEF Forkable, Sealed, HistoryRows, GoodRow
<1>4. MostRecentForkableRevision = Latest(T, SealedAt)
  BY DEF MostRecentForkableRevision
<1> QED
  BY <1>1, <1>2, <1>3, <1>4

(* Without injections, what ends at a closed turn ends at the newest. *)
LEMMA UntilNewest ==
  ASSUME HistoryInv, InSightInv, "inject" \notin habit.traffic, NEW t \in Rows,
         rev[t].class = "closed_forkable", NEW s, Said(rev, s, now), Until(rev, s, t)
  PROVE  Until(rev, s, MostRecentForkableRevision)
<1> USE DEF HistoryInv, InSightInv
<1>1. rev[t].kind # "inject"
  BY DEF Sound, Sorted, Rows, Side
<1> PICK m : m = MostRecentForkableRevision
  OBVIOUS
<1>2. Forkable(t)
  BY <1>1 DEF Forkable
<1>3. m \in Rows /\ rev[t].sealed <= rev[m].sealed
  <2>1. m # Nil
    <3> DEFINE T == {r \in Rows : Forkable(r) /\ Sealed(r)}
    <3>1. t \in T
      BY <1>2 DEF Sealed, HistoryRows, GoodRow
    <3>2. Latest(T, SealedAt) \in T
      BY <3>1, LatestSealed
    <3>3. m = Latest(T, SealedAt)
      BY DEF MostRecentForkableRevision
    <3> QED
      BY <3>2, <3>3, RowsAre
  <2> QED
    BY <1>2, <2>1, NewestForkable
<1>4. rev[t].sealed \in Nat /\ rev[m].sealed \in Nat /\ now \in Nat
  BY <1>3 DEF HistoryRows, GoodRow, HistoryShape
<1>5. ASSUME NEW i \in DOMAIN s PROVE rev[Abs(s[i])].sealed <= rev[m].sealed
  <2> PICK a : a = rev[Abs(s[i])].sealed
    OBVIOUS
  <2>1. a \in 1 .. now /\ a <= rev[t].sealed
    BY DEF Said, Until
  <2>2. a <= rev[m].sealed
    BY <1>3, <1>4, <2>1
  <2> QED
    BY <2>2
<1> QED
  BY <1>5 DEF Until

LEMMA SubmitSound ==
  ASSUME HistoryInv, InSightInv, InjectionsInSight, SubmitFile
  PROVE  InSightInv'
<1>1. /\ ToolUse("submit") /\ pair' = pair \ {"submit"} /\ views' = views /\ dump' = dump
      /\ phase = "tool" /\ "submit" \in pair /\ dump # NoDump
  BY DEF SubmitFile, Confirmed, ToolUse
<1>2. /\ rev' = rev /\ call = Nil /\ call' = call /\ phase' = phase /\ habit' = habit
      /\ local' = local
  BY <1>1, ToolUseFacts
<1>3. PairSound' /\ "submit" \in habit.tools
  BY <1>1, <1>2 DEF PairSound, InSightInv
<1>4. "inject" \notin habit.traffic
  BY <1>3 DEF InjectionsInSight, HistoryInv, HistoryShape
<1>5. now' \in {now, now + 1} /\ TokensSound' /\ AnchorSound' /\ Onward
  <2>1. CASE MostRecentForkableRevision # Nil
             /\ InsertActiveAnchor("submit", dump.msgs, MostRecentForkableRevision)
    <3> PICK m, s : m = MostRecentForkableRevision /\ s = dump.msgs
      OBVIOUS
    <3>1. m \in Rows /\ rev[m].class = "closed_forkable" /\ s \in Body
      BY <2>1, NewestForkable DEF Forkable, HistoryInv, HistoryShape, DumpRec
    <3>2. Said(rev, s, now) /\ dump.of \in Rows /\ rev[dump.of].class = "closed_forkable"
          /\ Until(rev, s, dump.of)
      BY <1>1, <1>4 DEF DumpSound, InSightInv
    <3>3. Until(rev, s, m)
      BY <1>4, <3>2, UntilNewest
    <3>4. InsertActiveAnchor("submit", s, m) /\ now' = now + 1
      BY <2>1 DEF InsertActiveAnchor
    <3> QED
      BY <1>1, <1>2, <3>1, <3>2, <3>3, <3>4, InsertedSound
  <2>2. CASE anchor' = anchor /\ forks' = forks /\ pend' = pend /\ now' = now
    BY <1>2, <2>2, SameAnchorSound
  <2> QED
    BY <2>1, <2>2 DEF SubmitFile
<1>6. DumpSound'
  BY <1>1, <1>2, <1>5, DumpSoundStays DEF HistoryInv, InSightInv
<1> QED
  BY <1>1, <1>2, <1>3, <1>5, <1>6, ToolSound

LEMMA UpToAnswerWithin ==
  ASSUME NEW b \in Body, NEW i \in DOMAIN UpToAnswer(b)
  PROVE  i \in DOMAIN b /\ UpToAnswer(b)[i] = b[i]
<1> DEFINE ends == {j \in DOMAIN b : b[j] > 0}
           m == CHOOSE k \in ends : \A j \in ends : j <= k
<1>1. b \in Seq(-MaxRevisions .. MaxRevisions) /\ DOMAIN b = 1 .. Len(b) /\ Len(b) \in Nat
  BY DEF Body
<1>2. ends # {}
  <2> SUFFICES ASSUME ends = {} PROVE FALSE
    OBVIOUS
  <2>1. UpToAnswer(b) = <<>>
    BY DEF UpToAnswer
  <2> QED
    BY <2>1
<1>3. m \in 1 .. Len(b)
  <2> DEFINE f == [k \in ends |-> k]
  <2>1. f \in [ends -> 0 .. Len(b)]
    BY <1>1
  <2>2. \E k \in ends : \A j \in ends : f[j] <= f[k]
    <3> HIDE DEF f, ends
    <3> QED
      BY <1>1, <1>2, <2>1, LargestOf
  <2>3. \E k \in ends : \A j \in ends : j <= k
    BY <2>2
  <2>4. m \in ends
    BY <2>3
  <2> QED
    BY <1>1, <2>4
<1>4. UpToAnswer(b) = SubSeq(b, 1, m)
  BY <1>2 DEF UpToAnswer
<1> HIDE DEF m, ends
<1>5. DOMAIN SubSeq(b, 1, m) = 1 .. m /\ \A k \in 1 .. m : SubSeq(b, 1, m)[k] = b[k]
  BY <1>1, <1>3
<1> QED
  BY <1>1, <1>3, <1>4, <1>5

(* What a dump holds ends at its target, if the file is not the fork's own. *)
LEMMA DumpedSound ==
  ASSUME HistoryInv, InSightInv, NEW target \in Rows, rev[target].class = "closed_forkable",
         NEW s, s = DumpOf(target), s[Len(s)] > 0
  PROVE  /\ Said(rev, s, now)
         /\ ~FromFork(target) \/ "inject" \notin habit.traffic => Until(rev, s, target)
<1> USE DEF HistoryInv, InSightInv
<1>2. CASE FromFork(target)
  <2> PICK b, t : b = anchor.base /\ t = anchor.fork
    OBVIOUS
  <2>1. s = UpToAnswer(b) /\ anchor.id # Nil /\ target = MostRecentForkableRevision /\ b \in Body
    BY <1>2 DEF DumpOf, FromFork, HistoryShape, AnchorRec
  <2>2. t \in Rows /\ rev[t].class = "closed_forkable" /\ Said(rev, b, now) /\ Until(rev, b, t)
    BY <2>1 DEF AnchorSound, HistoryAnchor, AnchorRefs
  <2>3. \A i \in DOMAIN s : i \in DOMAIN b /\ s[i] = b[i]
    BY <2>1, UpToAnswerWithin
  <2>4. Said(rev, s, now) /\ Until(rev, s, t)
    BY <2>2, <2>3 DEF Said, Until
  <2>5. "inject" \notin habit.traffic => Until(rev, s, target)
    BY <2>1, <2>2, <2>4, UntilNewest
  <2> QED
    BY <1>2, <2>4, <2>5
<1>3. CASE ~FromFork(target)
  <2> PICK t, tr : t = target /\ tr = habit.traffic
    OBVIOUS
  <2>1. s = ReconstructForkMessages(t) /\ t \in Rows /\ rev[t].class = "closed_forkable"
    BY <1>3 DEF DumpOf
  <2>2. HasMessages(FirstChild(t))
    BY <2>1, RepeatedEnds
  <2>3. s # NoMessages
    <3> SUFFICES ASSUME s = NoMessages PROVE FALSE
      OBVIOUS
    <3>1. Len(s) = 1 /\ s[1] = 0
      BY DEF NoMessages, Nil
    <3> QED
      BY <3>1
  <2>4. HistoryShape /\ HistoryRows /\ Sound(rev, tr)
    OBVIOUS
  <2>5. Said(rev, s, now) /\ Until(rev, s, t)
    BY ONLY <2>1, <2>2, <2>3, <2>4, RepeatedSound
  <2> QED
    BY <2>5
<1> QED
  BY <1>2, <1>3

LEMMA DumpSoundStep ==
  ASSUME HistoryInv, InSightInv, NEW target, DumpToFile(target),
         target # Nil => target \in Rows /\ rev[target].class = "closed_forkable"
  PROVE  InSightInv'
<1>1. /\ ToolUse("other") /\ now' = now /\ anchor' = anchor /\ forks' = forks /\ pair' = pair
      /\ pend' = pend /\ target # Nil /\ phase = "tool"
  BY DEF DumpToFile, ToolUse
<1>2. /\ rev' = rev /\ call = Nil /\ call' = call /\ phase' = phase /\ habit' = habit
      /\ local' = local
  BY <1>1, ToolUseFacts
<1>3. TokensSound' /\ AnchorSound' /\ PairSound' /\ Rows' = Rows
  BY <1>1, <1>2, SameAnchorSound DEF PairSound, InSightInv, Rows
<1> PICK s, f : s = DumpOf(target) /\ f = FromFork(target)
  OBVIOUS
<1>4. s[Len(s)] > 0 /\ dump' = [of |-> target, msgs |-> s, fork |-> f]
  BY DEF DumpToFile
<1>5. dump'.of = target /\ dump'.msgs = s /\ dump'.fork = f
  BY <1>4
<1>6. target \in Rows /\ rev[target].class = "closed_forkable"
  BY <1>1
<1>7. /\ Said(rev, s, now)
      /\ ~FromFork(target) \/ "inject" \notin habit.traffic => Until(rev, s, target)
  BY <1>4, <1>6, DumpedSound
<1>8. DumpSound'
  BY <1>1, <1>2, <1>3, <1>5, <1>6, <1>7 DEF DumpSound
<1> QED
  BY <1>1, <1>2, <1>3, <1>8, ToolSound

(* The tools that leave the anchor and the file as they are. *)
LEMMA LookSound ==
  ASSUME HistoryInv, InSightInv, NEW name \in {"rewind", "submit", "other"}, ToolUse(name),
         now' = now, anchor' = anchor, forks' = forks, pend' = pend, dump' = dump, PairSound'
  PROVE  InSightInv'
<1>1. /\ rev' = rev /\ call = Nil /\ call' = call /\ phase' = phase /\ habit' = habit
      /\ local' = local /\ phase = "tool"
  BY ToolUseFacts DEF ToolUse
<1>2. TokensSound' /\ AnchorSound' /\ Onward
  BY <1>1, SameAnchorSound
<1>3. DumpSound'
  BY <1>1, <1>2, DumpSoundStays DEF HistoryInv, InSightInv
<1> QED
  BY <1>1, <1>2, <1>3, ToolSound

LEMMA ToolCallSound ==
  ASSUME HistoryInv, InSightInv, InjectionsInSight, ToolCall
  PROVE  InSightInv'
<1>0. PairSound /\ \A name \in {"rewind", "submit", "other"} : ToolUse(name) => habit' = habit
  BY DEF InSightInv, ToolUse
<1>1. CASE OtherTool
  <2>1. /\ ToolUse("other") /\ now' = now /\ anchor' = anchor /\ forks' = forks /\ pend' = pend
        /\ dump' = dump /\ pair' = pair
    BY <1>1 DEF OtherTool, toolVars
  <2>2. PairSound'
    BY <1>0, <2>1 DEF PairSound
  <2> QED
    BY <2>1, <2>2, LookSound
<1>2. ASSUME NEW tool \in {"rewind", "submit"}, ReturnRules(tool),
             tool = "submit" => "submit" \in habit.tools
      PROVE  InSightInv'
  <2>1. /\ ToolUse(tool) /\ now' = now /\ anchor' = anchor /\ forks' = forks /\ pend' = pend
        /\ dump' = dump /\ pair' = pair \cup {tool}
    BY <1>2 DEF ReturnRules
  <2>2. PairSound'
    BY <1>0, <1>2, <2>1 DEF PairSound
  <2> QED
    BY <2>1, <2>2, LookSound
<1>3. CASE RewindBack
  <2>1. PICK n \in 1 .. MaxBack : RewindTo(Target(n))
    BY <1>3 DEF RewindBack
  <2> PICK t : t = Target(n)
    OBVIOUS
  <2>2. t # Nil => Tellable(t)
    BY BackTellable DEF HistoryInv
  <2> QED
    BY <2>1, <2>2, RewindSound
<1>4. CASE RewindToTurn
  <2>1. PICK r \in RecallList \cup {views[v].head : v \in DOMAIN views} : RewindTo(Named(r))
    BY <1>4 DEF RewindToTurn
  <2>2. r \in Rows
    BY DEF RecallList, HistoryInv, HistoryRefs, ViewRefs
  <2>3. "turn" \in habit.tools /\ call = Nil /\ phase = "tool"
    BY <1>4, <2>1 DEF RewindToTurn, RewindTo, Confirmed, ToolUse
  <2> PICK t : t = Named(r)
    OBVIOUS
  <2>4. t # Nil => Tellable(t)
    BY <2>2, <2>3, NamedTellable
  <2> QED
    BY <2>1, <2>4, RewindSound
<1>5. ASSUME NEW label, Bookmark(label) PROVE InSightInv'
  <2>1. /\ ToolUse("other") /\ now' = now /\ anchor' = anchor /\ forks' = forks /\ pend' = pend
        /\ dump' = dump /\ pair' = pair
    BY <1>5 DEF Bookmark, toolVars
  <2>2. PairSound'
    BY <1>0, <2>1 DEF PairSound
  <2> QED
    BY <2>1, <2>2, LookSound
<1>6. CASE DeleteBookmark("L")
  <2>1. /\ ToolUse("other") /\ now' = now /\ anchor' = anchor /\ forks' = forks /\ pend' = pend
        /\ dump' = dump /\ pair' = pair
    BY <1>6 DEF DeleteBookmark, toolVars
  <2>2. PairSound'
    BY <1>0, <2>1 DEF PairSound
  <2> QED
    BY <2>1, <2>2, LookSound
<1>7. CASE \E t \in {DumpTarget} \cup {Named(r) : r \in RecallList} : DumpToFile(t)
  <2>1. PICK t \in {DumpTarget} \cup {Named(r) : r \in RecallList} : DumpToFile(t)
    BY <1>7
  <2>2. MostRecentForkableRevision # Nil => /\ MostRecentForkableRevision \in Rows
                                            /\ Forkable(MostRecentForkableRevision)
    BY NewestForkable DEF HistoryInv
  <2>3. Target(1) # Nil => Tellable(Target(1))
    BY BackTellable DEF HistoryInv
  <2>4. DumpTarget # Nil => DumpTarget \in Rows /\ rev[DumpTarget].class = "closed_forkable"
    BY <2>2, <2>3 DEF DumpTarget, Tellable, Forkable
  <2>5. \A r \in RecallList : Named(r) \in Rows /\ rev[Named(r)].class = "closed_forkable"
    BY DEF RecallList, Named
  <2>6. t # Nil => t \in Rows /\ rev[t].class = "closed_forkable"
    <3>1. CASE t = DumpTarget
      BY <2>4, <3>1
    <3>2. CASE \E r \in RecallList : t = Named(r)
      BY <2>5, <3>2
    <3> QED
      BY <3>1, <3>2
  <2> QED
    BY <2>1, <2>6, DumpSoundStep
<1>8. CASE SubmitFile
  BY <1>8, SubmitSound
<1> QED
  BY <1>1, <1>2, <1>3, <1>4, <1>5, <1>6, <1>7, <1>8 DEF ToolCall

-----------------------------------------------------------------------------
(* The user edits the conversation. *)

LEMMA EditSound ==
  ASSUME HistoryInv, InSightInv, rev' = rev, now' = now, call = Nil, call' = call,
         phase = "typing", phase' = phase, habit' = habit, pair' = pair, dump' = dump,
         forks' = forks, pend' = pend,
         Len(local') \in Nat, DOMAIN local' = 1 .. Len(local'), DOMAIN local' \subseteq DOMAIN local,
         \A i \in DOMAIN local' : local'[i] = local[i],
         anchor' = anchor \/ anchor' = NoAnchorRow
  PROVE  InSightInv'
<1> USE DEF HistoryInv, InSightInv
<1>1. Onward /\ Rows' = Rows
  BY Standing DEF Onward, Rows
<1>2. Unseen => Unseen'
  BY NoAnchorSound DEF Unseen
<1>3. CallSound'
  BY <1>1 DEF CallSound
<1>4. TokensSound'
  <2>1. anchor'.id \in {Nil, anchor.id}
    BY DEF NoAnchorRow
  <2> QED
    BY <2>1 DEF TokensSound
<1>5. ClientSound'
  BY <1>1 DEF ClientSound
<1>6. AnchorSound'
  <2>1. CASE anchor' = NoAnchorRow
    BY <2>1, NoAnchorSound
  <2>2. CASE anchor' = anchor
    <3>1. Holds' => Holds
      BY <1>2, <2>2 DEF Holds
    <3> QED
      BY <1>1, <2>2, <3>1, AnchorSoundStays
  <2> QED
    BY <2>1, <2>2
<1>7. DumpSound' /\ PairSound'
  BY <1>1, DumpSoundStays DEF PairSound
<1>8. HeardSound'
  <2>1. anchor'.sr # "gone" => anchor' = anchor
    BY DEF NoAnchorRow
  <2>2. \A r \in Rows : Pending(r) => Pending(r)'
    BY <1>1, <1>2, <2>1 DEF Pending
  <2>3. \A r \in Rows : Alone(r)' => Alone(r)
    BY DEF Alone
  <2> QED
    BY <1>1, <2>2, <2>3 DEF HeardSound
<1> QED
  BY <1>3, <1>4, <1>5, <1>6, <1>7, <1>8

LEMMA UserSound ==
  ASSUME HistoryInv, InSightInv, CutBack \/ Clear
  PROVE  InSightInv'
<1>0. local \in Seq(LocalRec) /\ Len(local) \in Nat /\ DOMAIN local = 1 .. Len(local)
  BY DEF HistoryInv, HistoryShape
<1>1. CASE CutBack
  <2>1. PICK n \in 0 .. Len(local) - 1 : local' = SubSeq(local, 1, n)
    BY <1>1 DEF CutBack
  <2>2. /\ Len(local') = n /\ n \in Nat /\ DOMAIN local' = 1 .. n
        /\ \A i \in 1 .. n : local'[i] = local[i] /\ i \in 1 .. Len(local)
    BY <1>0, <2>1
  <2> QED
    BY <1>0, <1>1, <2>2, EditSound DEF CutBack, toolVars
<1>2. CASE Clear
  <2>1. Len(local') = 0 /\ DOMAIN local' = 1 .. 0 /\ DOMAIN local' = {}
    BY <1>2 DEF Clear
  <2> QED
    BY <1>2, <2>1, EditSound DEF Clear
<1> QED
  BY <1>1, <1>2

LEMMA InSightStep ==
  ASSUME InjectionsInSight, HistoryInv, InSightInv, [ConversationNext]_conversationVars
  PROVE  InSightInv'
<1>1. CASE \E kind \in Kind : SendMessages(kind)
  BY <1>1, SendSound
<1>2. CASE \E stop \in {"end_turn", "tool_use", "max_tokens"} : Answered(stop)
  BY <1>2, AnsweredSound
<1>3. CASE Refused \/ MarkDangling
  BY <1>3, BrokenOffSound
<1>4. CASE AskModels
  BY <1>4, AskModelsSound
<1>5. CASE ModelsAnswered
  BY <1>5, ModelsSound
<1>6. CASE ToolCall
  BY <1>6, ToolCallSound
<1>7. CASE CutBack \/ Clear
  BY <1>7, UserSound
<1>8. CASE UNCHANGED conversationVars
  <2>1. /\ rev' = rev /\ now' = now /\ views' = views /\ anchor' = anchor /\ forks' = forks
        /\ pair' = pair /\ dump' = dump /\ local' = local /\ pend' = pend /\ phase' = phase
        /\ used' = used /\ call' = call /\ habit' = habit /\ Rows' = Rows
    BY <1>8 DEF conversationVars, Rows
  <2>2. Unseen' <=> Unseen
    BY <2>1 DEF Unseen
  <2>3. CallSound' /\ TokensSound' /\ ClientSound'
    BY <2>1, <2>2 DEF InSightInv, CallSound, TokensSound, ClientSound
  <2>4. AnchorSound' /\ DumpSound' /\ PairSound'
    BY <2>1, <2>2 DEF InSightInv, AnchorSound, DumpSound, PairSound
  <2>5. \A r \in Rows : (Pending(r)' <=> Pending(r)) /\ (Alone(r)' <=> Alone(r))
    BY <2>1, <2>2 DEF Pending, Alone
  <2>6. HeardSound'
    BY <2>1, <2>5 DEF InSightInv, HeardSound
  <2> QED
    BY <2>1, <2>3, <2>4, <2>6 DEF InSightInv
<1> QED
  BY <1>1, <1>2, <1>3, <1>4, <1>5, <1>6, <1>7, <1>8 DEF ConversationNext

LEMMA InSightShown ==
  ASSUME InjectionsInSight, HistoryInv, InSightInv
  PROVE  NothingRolledBackReturns
<1> USE DEF HistoryInv, InSightInv
<1>1. \A s, t : Said(rev, s, now) /\ Until(rev, s, t) => UpTo(s, t)
  BY DEF Said, Until, UpTo, Sealed, SealedAt
<1>2. anchor.id # Nil => UpTo(anchor.base, anchor.fork)
  BY <1>1 DEF AnchorSound
<1>3. dump # NoDump /\ ~dump.fork => UpTo(dump.msgs, dump.of)
  BY <1>1 DEF DumpSound
<1> QED
  BY <1>2, <1>3 DEF NothingRolledBackReturns

(* While injections stay in sight: bodies hold what had been said, histories kept at  *)
(* an anchor or in a dump end at the turn they are kept for, calls hang off the turn  *)
(* they answer, and every injection is repeated by a call after it.                   *)
THEOREM InSightInvariant ==
  ASSUME InjectionsInSight PROVE ConversationSpec => [](HistoryInv /\ InSightInv)
<1>1. ConversationInit => HistoryInv /\ InSightInv
  BY HistoryStart, InSightStart
<1>2. HistoryInv /\ InSightInv /\ [ConversationNext]_conversationVars => (HistoryInv /\ InSightInv)'
  BY HistoryStep, InSightStep
<1> QED
  BY <1>1, <1>2, PTL DEF ConversationSpec

(* "The rolled-back user input" never comes back (mcp-tools.ts,                       *)
(* reconstructForkMessages): the history rebuilt for a rewind or a dump holds nothing *)
(* sealed after the turn gone back to, whatever children, edits, probes and earlier   *)
(* forks it was pieced together from, for every habit that keeps injections in sight. *)
THEOREM RolledBackStaysBack ==
  ASSUME InjectionsInSight PROVE ConversationSpec => []NothingRolledBackReturns
<1>1. HistoryInv /\ InSightInv => NothingRolledBackReturns
  BY InSightShown
<1> QED
  BY InSightInvariant, <1>1, PTL

-----------------------------------------------------------------------------
(* Channel *)

LEMMA StaysZero ==
  ASSUME NEW n \in Nat, NEW h, h[0] = 0,
         \A k \in 0 .. n - 1 : h[k] = 0 => h[k + 1] = 0
  PROVE  \A k \in 0 .. n : h[k] = 0
<1> PICK S : S = {0}
  OBVIOUS
<1>1. h[0] \in S /\ \A k \in 0 .. n - 1 : h[k] \in S => h[k + 1] \in S
  OBVIOUS
<1>2. \A k \in 0 .. n : h[k] \in S
  BY ONLY n \in Nat, <1>1, Stays
<1> QED
  BY <1>2

(* Lists of tasks, taken through a function one after the other. *)

Takes(f, m, F, s, a) == f = [k \in 0 .. m |-> IF k = 0 THEN a ELSE F[s[k]][f[k - 1]]]

LEMMA TakesOne ==
  ASSUME NEW S, NEW F, NEW s, NEW m \in Nat, F[s[m + 1]] \in [S -> S], NEW a,
         NEW f \in [0 .. m -> S], Takes(f, m, F, s, a)
  PROVE  \E g \in [0 .. m + 1 -> S] : Takes(g, m + 1, F, s, a)
<1> PICK G \in [S -> S] : G = F[s[m + 1]]
  OBVIOUS
<1> DEFINE g == [k \in 0 .. m + 1 |-> IF k = m + 1 THEN G[f[m]] ELSE f[k]]
<1>1. g \in [0 .. m + 1 -> S]
  OBVIOUS
<1>2. \A k \in 0 .. m + 1 : g[k] = IF k = 0 THEN a ELSE F[s[k]][g[k - 1]]
  <2> TAKE k \in 0 .. m + 1
  <2>1. CASE k = 0
    BY <2>1 DEF Takes
  <2>2. CASE k \in 1 .. m
    <3>1. f[k] = F[s[k]][f[k - 1]]
      BY <2>2 DEF Takes
    <3>2. g[k] = f[k] /\ g[k - 1] = f[k - 1]
      BY <2>2
    <3> QED
      BY <2>2, <3>1, <3>2
  <2>3. CASE k = m + 1
    <3>1. g[k] = G[f[m]] /\ g[k - 1] = f[m] /\ k # 0
      BY <2>3
    <3> QED
      BY <2>3, <3>1
  <2> QED
    BY <2>1, <2>2, <2>3
<1> QED
  <2> HIDE DEF g
  <2> QED
    BY <1>1, <1>2 DEF Takes

LEMMA TakesAll ==
  ASSUME NEW S, NEW F, NEW s, NEW n \in Nat, \A i \in 1 .. n : F[s[i]] \in [S -> S], NEW a \in S
  PROVE  \E f \in [0 .. n -> S] : Takes(f, n, F, s, a)
<1> DEFINE bad == {m \in 0 .. n : ~ \E f \in [0 .. m -> S] : Takes(f, m, F, s, a)}
<1>1. 0 \notin bad
  <2>1. [k \in 0 .. 0 |-> a] \in [0 .. 0 -> S] /\ Takes([k \in 0 .. 0 |-> a], 0, F, s, a)
    BY DEF Takes
  <2> QED
    BY <2>1
<1>2. \A m \in 0 .. n - 1 : m \notin bad => m + 1 \notin bad
  <2> TAKE m \in 0 .. n - 1
  <2> HAVE m \notin bad
  <2>1. PICK f \in [0 .. m -> S] : Takes(f, m, F, s, a)
    OBVIOUS
  <2>2. F[s[m + 1]] \in [S -> S] /\ m \in Nat
    OBVIOUS
  <2>3. \E g \in [0 .. m + 1 -> S] : Takes(g, m + 1, F, s, a)
    BY ONLY <2>1, <2>2, TakesOne
  <2> QED
    BY <2>3
<1>3. bad = {}
  <2> SUFFICES ASSUME bad # {} PROVE FALSE
    OBVIOUS
  <2>1. bad \in SUBSET Nat /\ bad \subseteq 0 .. n
    OBVIOUS
  <2> HIDE DEF bad
  <2>2. PICK x \in bad : \A y \in bad : x <= y
    BY <2>1, LeastOf
  <2>3. x # 0 /\ x \in 0 .. n
    BY <1>1, <2>1
  <2>4. x - 1 \in 0 .. n - 1 /\ x - 1 \notin bad /\ (x - 1) + 1 = x
    BY <2>2, <2>3
  <2> QED
    BY <1>2, <2>4
<1> QED
  BY <1>3

Stations(f, n, F, s, a, r) ==
  f[0] = a /\ r = f[n] /\ \A k \in 0 .. n - 1 : f[k + 1] = F[s[k + 1]][f[k]]

(* Through takes the list through every value between the first and its own. *)
LEMMA ThroughFacts ==
  ASSUME NEW S, NEW F, NEW s, NEW n \in Nat, n = Len(s),
         \A i \in 1 .. n : F[s[i]] \in [S -> S], NEW a \in S, NEW r, r = Through(F, s, a)
  PROVE  \E f \in [0 .. n -> S] : Stations(f, n, F, s, a, r)
<1>1. \E f : Takes(f, n, F, s, a)
  <2>1. \E f \in [0 .. n -> S] : Takes(f, n, F, s, a)
    BY TakesAll
  <2> QED
    BY <2>1
<1>2. Through(F, s, a) = (CHOOSE f : Takes(f, n, F, s, a))[n]
  BY DEF Through, Takes
<1> PICK f : f = CHOOSE g : Takes(g, n, F, s, a)
  OBVIOUS
<1>3. f = [k \in 0 .. n |-> IF k = 0 THEN a ELSE F[s[k]][f[k - 1]]]
  BY <1>1 DEF Takes
<1>4. f[0] = a /\ \A k \in 0 .. n - 1 : f[k + 1] = F[s[k + 1]][f[k]]
  <2>1. \A k \in 0 .. n : f[k] = IF k = 0 THEN a ELSE F[s[k]][f[k - 1]]
    BY <1>3
  <2>2. \A k \in 0 .. n - 1 : k + 1 \in 0 .. n /\ k + 1 # 0 /\ (k + 1) - 1 = k
    OBVIOUS
  <2> QED
    BY <2>1, <2>2
<1>5. \A k \in 0 .. n - 1 : f[k] \in S => f[k + 1] \in S
  BY <1>4
<1>6. \A k \in 0 .. n : f[k] \in S
  BY <1>4, <1>5, Stays
<1>7. f \in [0 .. n -> S]
  BY <1>3, <1>6
<1> QED
  BY <1>2, <1>4, <1>7 DEF Stations

LEMMA ThroughTyped ==
  ASSUME NEW S, NEW F, NEW s, NEW n \in Nat, n = Len(s),
         \A i \in 1 .. n : F[s[i]] \in [S -> S], NEW a \in S
  PROVE  Through(F, s, a) \in S
<1> PICK r : r = Through(F, s, a)
  OBVIOUS
<1>1. PICK f \in [0 .. n -> S] : r = f[n]
  <2>1. \E f \in [0 .. n -> S] : Stations(f, n, F, s, a, r)
    BY ThroughFacts
  <2> QED
    BY <2>1 DEF Stations
<1> QED
  BY <1>1

LEMMA ThroughSame ==
  ASSUME NEW S, NEW F, NEW G, NEW s, NEW n \in Nat, n = Len(s),
         \A i \in 1 .. n : F[s[i]] \in [S -> S],
         \A i \in 1 .. n : F[s[i]] = G[s[i]], NEW a \in S
  PROVE  Through(F, s, a) = Through(G, s, a)
<1> PICK r, q : r = Through(F, s, a) /\ q = Through(G, s, a)
  OBVIOUS
<1>1. PICK f \in [0 .. n -> S] : Stations(f, n, F, s, a, r)
  BY ThroughFacts
<1>2. \A i \in 1 .. n : G[s[i]] \in [S -> S]
  OBVIOUS
<1>3. PICK g \in [0 .. n -> S] : Stations(g, n, G, s, a, q)
  BY <1>2, ThroughFacts
<1> DEFINE h == [k \in 0 .. n |-> IF f[k] = g[k] THEN 0 ELSE 1]
<1>4. h[0] = 0
  <2>1. f[0] = a /\ g[0] = a
    BY <1>1, <1>3 DEF Stations
  <2>2. 0 \in 0 .. n
    OBVIOUS
  <2> QED
    BY <2>1, <2>2
<1>5. \A k \in 0 .. n - 1 : h[k] = 0 => h[k + 1] = 0
  <2> TAKE k \in 0 .. n - 1
  <2> HAVE h[k] = 0
  <2>1. f[k] = g[k] /\ k + 1 \in 1 .. n /\ k + 1 \in 0 .. n
    OBVIOUS
  <2>2. f[k + 1] = g[k + 1]
    <3>1. f[k + 1] = F[s[k + 1]][f[k]]
      BY <1>1 DEF Stations
    <3>2. g[k + 1] = G[s[k + 1]][g[k]]
      BY <1>3 DEF Stations
    <3> QED
      BY <2>1, <3>1, <3>2
  <2> QED
    BY <2>1, <2>2
<1>6. \A k \in 0 .. n : h[k] = 0
  <2> HIDE DEF h
  <2> QED
    BY ONLY n \in Nat, <1>4, <1>5, StaysZero
<1>7. f[n] = g[n]
  <2>1. h[n] = IF f[n] = g[n] THEN 0 ELSE 1
    OBVIOUS
  <2>2. h[n] = 0
    <3> HIDE DEF h
    <3> QED
      BY <1>6
  <2> QED
    BY <2>1, <2>2
<1> QED
  BY <1>1, <1>3, <1>7 DEF Stations

(* A list that grows by every element it is taken through. *)
LEMMA ThroughCollects ==
  ASSUME NEW Nice \in SUBSET Lists, NEW F, NEW s, NEW n \in Nat, n = Len(s), DOMAIN s = 1 .. n,
         \A i \in 1 .. n : F[s[i]] \in [Lists -> Lists],
         \A i \in 1 .. n : \A y \in Nice :
           F[s[i]][y] \in Nice /\ ToSet(y) \cup {s[i]} \subseteq ToSet(F[s[i]][y]),
         NEW a \in Nice
  PROVE  /\ Through(F, s, a) \in Nice
         /\ ToSet(a) \cup ToSet(s) \subseteq ToSet(Through(F, s, a))
<1> PICK r : r = Through(F, s, a)
  OBVIOUS
<1>1. PICK f \in [0 .. n -> Lists] : Stations(f, n, F, s, a, r)
  <2>1. a \in Lists
    OBVIOUS
  <2> QED
    BY <2>1, ThroughFacts
<1>2. \A k \in 0 .. n - 1 : k + 1 \in 1 .. n
  OBVIOUS
<1>3. \A k \in 0 .. n - 1 : f[k] \in Nice => f[k + 1] \in Nice
  BY <1>1, <1>2 DEF Stations
<1>4. \A k \in 0 .. n : f[k] \in Nice
  <2>1. f[0] \in Nice
    BY <1>1 DEF Stations
  <2> QED
    BY ONLY n \in Nat, <1>3, <2>1, Stays
<1>5. \A k \in 0 .. n - 1 : ToSet(f[k]) \cup {s[k + 1]} \subseteq ToSet(f[k + 1])
  <2>1. \A k \in 0 .. n - 1 : f[k] \in Nice /\ k + 1 \in 1 .. n
    BY <1>2, <1>4
  <2> QED
    BY <1>1, <2>1 DEF Stations
<1> DEFINE got(k) == ToSet(a) \cup {s[i] : i \in 1 .. k} \subseteq ToSet(f[k])
<1> DEFINE h == [k \in 0 .. n |-> IF got(k) THEN 0 ELSE 1]
<1>6. got(0)
  <2>1. \A x : x \notin {s[i] : i \in 1 .. 0}
    OBVIOUS
  <2> QED
    BY <1>1, <2>1 DEF Stations
<1>7. \A k \in 0 .. n - 1 : got(k) => got(k + 1)
  <2> TAKE k \in 0 .. n - 1
  <2> HAVE got(k)
  <2>2. {s[i] : i \in 1 .. k + 1} \subseteq {s[i] : i \in 1 .. k} \cup {s[k + 1]}
    <3>1. \A i \in 1 .. k + 1 : i \in 1 .. k \/ i = k + 1
      OBVIOUS
    <3> QED
      BY <3>1
  <2>3. ToSet(f[k]) \cup {s[k + 1]} \subseteq ToSet(f[k + 1])
    BY <1>5
  <2> QED
    BY ONLY got(k), <2>2, <2>3
<1>8. got(n)
  <2> HIDE DEF got
  <2>0. \A k \in 0 .. n : h[k] = IF got(k) THEN 0 ELSE 1
    OBVIOUS
  <2> HIDE DEF h
  <2>1. h[0] = 0
    BY <1>6, <2>0
  <2>2. \A k \in 0 .. n - 1 : h[k] = 0 => h[k + 1] = 0
    <3> TAKE k \in 0 .. n - 1
    <3> HAVE h[k] = 0
    <3>1. k \in 0 .. n /\ k + 1 \in 0 .. n
      OBVIOUS
    <3>2. got(k)
      BY <2>0, <3>1
    <3>3. got(k + 1)
      BY <1>7, <3>2
    <3> QED
      BY <2>0, <3>1, <3>3
  <2>3. \A k \in 0 .. n : h[k] = 0
    BY ONLY n \in Nat, <2>1, <2>2, StaysZero
  <2>4. h[n] = 0 /\ n \in 0 .. n
    BY <2>3
  <2> QED
    BY <2>0, <2>4
<1>9. ToSet(s) = {s[i] : i \in 1 .. n}
  BY DEF ToSet
<1> QED
  BY <1>1, <1>4, <1>8, <1>9 DEF Stations

-----------------------------------------------------------------------------
(* Visit is defined by recursion along the references; it exists because    *)
(* they make no cycle.                                                      *)

LEMMA References ==
  ASSUME NEW t \in Tasks
  PROVE  /\ DependsOn[t] \in Lists /\ Len(DependsOn[t]) \in Nat
         /\ DOMAIN DependsOn[t] = 1 .. Len(DependsOn[t])
         /\ \A i \in 1 .. Len(DependsOn[t]) : DependsOn[t][i] \in Tasks
         /\ Deps(t) = {DependsOn[t][i] : i \in 1 .. Len(DependsOn[t])}
<1>1. DependsOn[t] \in Seq(Tasks)
  BY ChannelAssumption
<1> PICK s \in Seq(Tasks) : s = DependsOn[t]
  BY <1>1
<1>2. Len(s) \in Nat /\ DOMAIN s = 1 .. Len(s) /\ \A i \in 1 .. Len(s) : s[i] \in Tasks
  OBVIOUS
<1> QED
  BY <1>1, <1>2 DEF Deps, ToSet, Lists

Ranks(rank, n) ==
  /\ rank \in [Tasks -> 1 .. n]
  /\ \A t \in Tasks : \A i \in 1 .. Len(DependsOn[t]) : rank[DependsOn[t][i]] < rank[t]

LEMMA Ranked == \E n \in Nat : \E rank : Ranks(rank, n)
<1>1. Cardinality(Tasks) \in Nat
  BY ChannelAssumption, FS_CardinalityType
<1>2. PICK rank \in [Tasks -> 1 .. Cardinality(Tasks)] :
        \A t \in Tasks : \A i \in DOMAIN DependsOn[t] : rank[DependsOn[t][i]] < rank[t]
  BY AcyclicAssumption
<1>3. \A t \in Tasks : DOMAIN DependsOn[t] = 1 .. Len(DependsOn[t])
  BY References
<1> QED
  BY <1>1, <1>2, <1>3 DEF Ranks

(* What holds of a task when it holds of those of smaller rank holds of all. *)
LEMMA ByRank ==
  ASSUME NEW n \in Nat, NEW rank, Ranks(rank, n), NEW good,
         \A t \in Tasks : (\A u \in Tasks : rank[u] < rank[t] => u \in good) => t \in good
  PROVE  Tasks \subseteq good
<1> DEFINE bad == {rank[t] : t \in Tasks \ good}
<1> SUFFICES ASSUME bad # {} PROVE FALSE
  OBVIOUS
<1>1. \A t \in Tasks : rank[t] \in Nat
  BY DEF Ranks
<1>2. bad \in SUBSET Nat
  BY <1>1
<1>3. PICK x \in bad : \A y \in bad : x <= y
  <2> HIDE DEF bad
  <2> QED
    BY <1>2, LeastOf
<1>4. PICK t \in Tasks \ good : rank[t] = x
  OBVIOUS
<1>5. \A u \in Tasks : rank[u] < rank[t] => u \in good
  <2> TAKE u \in Tasks
  <2> HAVE rank[u] < rank[t]
  <2>1. ~(rank[u] >= rank[t]) /\ rank[u] \in Nat /\ rank[t] \in Nat
    BY <1>1
  <2>2. u \in good \/ rank[u] \in bad
    OBVIOUS
  <2>3. rank[u] \notin bad
    <3> HIDE DEF bad
    <3> QED
      BY <1>3, <1>4, <2>1
  <2> QED
    BY <2>2, <2>3
<1> QED
  BY <1>4, <1>5

Visitors == [Tasks -> [Lists -> Lists]]
Once(w) == [t \in Tasks |-> [out \in Lists |->
  IF Contains(out, t) THEN out ELSE Append(Through(w, DependsOn[t], out), t)]]

LEMMA OnceTyped ==
  ASSUME NEW w, NEW t \in Tasks,
         \A i \in 1 .. Len(DependsOn[t]) : w[DependsOn[t][i]] \in [Lists -> Lists]
  PROVE  Once(w)[t] \in [Lists -> Lists]
<1>1. \A out \in Lists : Through(w, DependsOn[t], out) \in Lists
  <2> TAKE out \in Lists
  <2>1. Len(DependsOn[t]) \in Nat
    BY References
  <2> QED
    BY <2>1, ThroughTyped
<1>2. \A out \in Lists : Append(Through(w, DependsOn[t], out), t) \in Lists
  <2> TAKE out \in Lists
  <2> PICK x \in Lists : x = Through(w, DependsOn[t], out)
    BY <1>1
  <2>1. Append(x, t) \in Lists
    BY DEF Lists
  <2> QED
    BY <2>1
<1> QED
  BY <1>2 DEF Once

LEMMA OnceSame ==
  ASSUME NEW w, NEW v, NEW t \in Tasks,
         \A i \in 1 .. Len(DependsOn[t]) :
           w[DependsOn[t][i]] \in [Lists -> Lists] /\ w[DependsOn[t][i]] = v[DependsOn[t][i]]
  PROVE  Once(w)[t] = Once(v)[t]
<1>1. \A out \in Lists : Through(w, DependsOn[t], out) = Through(v, DependsOn[t], out)
  <2> TAKE out \in Lists
  <2>1. Len(DependsOn[t]) \in Nat
    BY References
  <2> QED
    BY <2>1, ThroughSame
<1> QED
  BY <1>1 DEF Once

LEMMA VisitExists == \E v : v = Once(v)
<1> PICK n \in Nat : \E rank : Ranks(rank, n)
  BY Ranked
<1> PICK rank : Ranks(rank, n)
  OBVIOUS
<1> DEFINE F == [w \in Visitors |-> Once(w)]
           start == [t \in Tasks |-> [out \in Lists |-> out]]
<1>1. \A w \in Visitors : Once(w) \in Visitors
  <2> TAKE w \in Visitors
  <2>1. \A t \in Tasks : Once(w)[t] \in [Lists -> Lists]
    <3> TAKE t \in Tasks
    <3>1. \A i \in 1 .. Len(DependsOn[t]) : w[DependsOn[t][i]] \in [Lists -> Lists]
      BY References DEF Visitors
    <3> QED
      BY <3>1, OnceTyped
  <2> QED
    BY <2>1 DEF Once, Visitors
<1>2. F \in [Visitors -> Visitors] /\ start \in Visitors /\ n + 1 \in Nat
  BY <1>1 DEF Visitors
<1>3. PICK f \in [0 .. n + 1 -> Visitors] : Iterates(f, n + 1, start, F)
  <2> HIDE DEF F, start
  <2> QED
    BY <1>2, Recursion
<1>4. \A k \in 0 .. n : f[k] \in Visitors /\ f[k + 1] = Once(f[k])
  <2> TAKE k \in 0 .. n
  <2>1. k \in 0 .. n + 1 /\ k + 1 \in 0 .. n + 1 /\ k + 1 # 0 /\ (k + 1) - 1 = k
    OBVIOUS
  <2>2. f[k] \in Visitors /\ f[k + 1] = F[f[k]]
    <3> HIDE DEF F, start
    <3> QED
      BY <1>3, <2>1 DEF Iterates
  <2> QED
    BY <2>2
<1> DEFINE settled(k) == \A t \in Tasks : rank[t] <= k => f[k + 1][t] = f[k][t]
           h == [k \in 0 .. n |-> IF settled(k) THEN 0 ELSE 1]
<1>5. settled(0)
  BY DEF Ranks
<1>6. \A k \in 0 .. n - 1 : settled(k) => settled(k + 1)
  <2> TAKE k \in 0 .. n - 1
  <2> HAVE settled(k)
  <2>1. k \in 0 .. n /\ k + 1 \in 0 .. n /\ k \in Nat
    OBVIOUS
  <2> SUFFICES ASSUME NEW t \in Tasks, rank[t] <= k + 1 PROVE f[(k + 1) + 1][t] = f[k + 1][t]
    OBVIOUS
  <2>2. \A i \in 1 .. Len(DependsOn[t]) :
          f[k + 1][DependsOn[t][i]] \in [Lists -> Lists] /\ f[k + 1][DependsOn[t][i]] = f[k][DependsOn[t][i]]
    <3> TAKE i \in 1 .. Len(DependsOn[t])
    <3> PICK u \in Tasks : u = DependsOn[t][i]
      BY References
    <3>1. rank[u] < rank[t] /\ rank[u] \in Nat /\ rank[t] \in Nat
      BY DEF Ranks
    <3>2. rank[u] <= k
      BY <2>1, <3>1
    <3>3. f[k + 1][u] = f[k][u]
      BY <3>2
    <3>4. f[k + 1] \in Visitors
      BY <1>4, <2>1
    <3> QED
      BY <3>3, <3>4 DEF Visitors
  <2>3. Once(f[k + 1])[t] = Once(f[k])[t]
    <3> HIDE DEF F, start, settled, h
    <3> PICK v, w : v = f[k + 1] /\ w = f[k]
      OBVIOUS
    <3>1. \A i \in 1 .. Len(DependsOn[t]) :
            v[DependsOn[t][i]] \in [Lists -> Lists] /\ v[DependsOn[t][i]] = w[DependsOn[t][i]]
      BY <2>2
    <3>2. Once(v)[t] = Once(w)[t]
      BY ONLY t \in Tasks, <3>1, OnceSame
    <3> QED
      BY <3>2
  <2> QED
    BY <1>4, <2>1, <2>3
<1>7. settled(n)
  <2> HIDE DEF settled
  <2>0. \A k \in 0 .. n : h[k] = IF settled(k) THEN 0 ELSE 1
    OBVIOUS
  <2> HIDE DEF h
  <2>1. h[0] = 0
    BY <1>5, <2>0
  <2>2. \A k \in 0 .. n - 1 : h[k] = 0 => h[k + 1] = 0
    <3> TAKE k \in 0 .. n - 1
    <3> HAVE h[k] = 0
    <3>1. k \in 0 .. n /\ k + 1 \in 0 .. n
      OBVIOUS
    <3>2. settled(k)
      BY <2>0, <3>1
    <3>3. settled(k + 1)
      BY <1>6, <3>2
    <3> QED
      BY <2>0, <3>1, <3>3
  <2>3. \A k \in 0 .. n : h[k] = 0
    BY ONLY n \in Nat, <2>1, <2>2, StaysZero
  <2>4. h[n] = 0 /\ n \in 0 .. n
    BY <2>3
  <2> QED
    BY <2>0, <2>4
<1>8. f[n + 1] = f[n]
  <2>1. \A t \in Tasks : f[n + 1][t] = f[n][t]
    BY <1>7 DEF Ranks
  <2>2. f[n + 1] \in Visitors /\ f[n] \in Visitors
    OBVIOUS
  <2> QED
    BY <2>1, <2>2 DEF Visitors
<1>9. f[n] = Once(f[n])
  BY <1>4, <1>8
<1> QED
  BY <1>9

LEMMA VisitFacts ==
  /\ Visit \in Visitors
  /\ \A t \in Tasks : \A out \in Lists : Visit[t][out] =
       IF Contains(out, t) THEN out ELSE Append(Through(Visit, DependsOn[t], out), t)
<1> PICK n \in Nat : \E rank : Ranks(rank, n)
  BY Ranked
<1> PICK rank : Ranks(rank, n)
  OBVIOUS
<1>1. Visit = CHOOSE v : v = Once(v)
  BY DEF Visit, Once
<1>2. Visit = Once(Visit)
  BY <1>1, VisitExists
<1> DEFINE good == {t \in Tasks : Visit[t] \in [Lists -> Lists]}
<1>3. \A t \in Tasks : (\A u \in Tasks : rank[u] < rank[t] => u \in good) => t \in good
  <2> TAKE t \in Tasks
  <2> HAVE \A u \in Tasks : rank[u] < rank[t] => u \in good
  <2>1. \A i \in 1 .. Len(DependsOn[t]) : Visit[DependsOn[t][i]] \in [Lists -> Lists]
    <3> TAKE i \in 1 .. Len(DependsOn[t])
    <3> PICK u \in Tasks : u = DependsOn[t][i]
      BY References
    <3>1. rank[u] < rank[t]
      BY DEF Ranks
    <3> QED
      BY <3>1
  <2>2. Once(Visit)[t] \in [Lists -> Lists]
    BY <2>1, OnceTyped
  <2> QED
    BY <1>2, <2>2
<1>4. Tasks \subseteq good
  <2> HIDE DEF good
  <2> QED
    BY <1>3, ByRank
<1>5. \A t \in Tasks : Once(Visit)[t] = [out \in Lists |->
        IF Contains(out, t) THEN out ELSE Append(Through(Visit, DependsOn[t], out), t)]
  BY DEF Once
<1>6. DOMAIN Once(Visit) = Tasks /\ Once(Visit) = [t \in Tasks |-> Once(Visit)[t]]
  BY DEF Once
<1>7. \A t \in Tasks : Visit[t] \in [Lists -> Lists]
  BY <1>4
<1>8. Visit \in Visitors
  BY <1>2, <1>6, <1>7 DEF Visitors
<1>9. \A t \in Tasks : \A out \in Lists : Visit[t][out] =
        IF Contains(out, t) THEN out ELSE Append(Through(Visit, DependsOn[t], out), t)
  BY <1>2, <1>5
<1> QED
  BY <1>8, <1>9

-----------------------------------------------------------------------------
(* What visit makes of a list.                                               *)

Closed(A) == \A r \in A : Deps(r) \subseteq A
(* lists of members of A without repetition, what is referred to first       *)
Nice(A) ==
  {y \in Lists :
     /\ ToSet(y) \subseteq A
     /\ \A i, j \in 1 .. Len(y) : y[i] = y[j] => i = j
     /\ \A j \in 1 .. Len(y) : \A u \in Deps(y[j]) : \E i \in 1 .. j - 1 : y[i] = u}

LEMMA ListFacts ==
  ASSUME NEW y \in Lists
  PROVE  /\ Len(y) \in Nat /\ DOMAIN y = 1 .. Len(y)
         /\ \A i \in 1 .. Len(y) : y[i] \in Tasks
         /\ ToSet(y) = {y[i] : i \in 1 .. Len(y)} /\ ToSet(y) \subseteq Tasks
<1>1. Len(y) \in Nat /\ DOMAIN y = 1 .. Len(y)
  BY DEF Lists
<1>2. \A i \in 1 .. Len(y) : y[i] \in Tasks
  BY DEF Lists
<1> QED
  BY <1>1, <1>2 DEF ToSet

LEMMA AppendFacts ==
  ASSUME NEW y \in Lists, NEW t \in Tasks
  PROVE  /\ Append(y, t) \in Lists /\ Len(Append(y, t)) = Len(y) + 1
         /\ \A i \in 1 .. Len(y) : Append(y, t)[i] = y[i]
         /\ Append(y, t)[Len(y) + 1] = t
         /\ ToSet(Append(y, t)) = ToSet(y) \cup {t}
<1>1. Append(y, t) \in Lists /\ Len(Append(y, t)) = Len(y) + 1
  BY DEF Lists
<1>2. \A i \in 1 .. Len(y) : Append(y, t)[i] = y[i]
  BY DEF Lists
<1>3. Append(y, t)[Len(y) + 1] = t
  BY DEF Lists
<1> PICK z \in Lists : z = Append(y, t)
  BY <1>1
<1>4. \A i \in 1 .. Len(z) : i \in 1 .. Len(y) \/ i = Len(y) + 1
  BY <1>1, ListFacts
<1>5. \A i \in 1 .. Len(y) : i \in 1 .. Len(z)
  BY <1>1, ListFacts
<1>6. Len(y) + 1 \in 1 .. Len(z)
  BY <1>1, ListFacts
<1>7. ToSet(z) = ToSet(y) \cup {t}
  <2>1. ToSet(z) = {z[i] : i \in 1 .. Len(z)} /\ ToSet(y) = {y[i] : i \in 1 .. Len(y)}
    BY ListFacts
  <2>2. \A x \in ToSet(z) : x \in ToSet(y) \cup {t}
    BY <1>2, <1>3, <1>4, <2>1
  <2>3. \A x \in ToSet(y) \cup {t} : x \in ToSet(z)
    BY <1>2, <1>3, <1>5, <1>6, <2>1
  <2> QED
    BY <2>2, <2>3
<1> QED
  BY <1>1, <1>2, <1>3, <1>7

LEMMA AppendNice ==
  ASSUME NEW A \in SUBSET Tasks, NEW y \in Nice(A), NEW t \in A, t \notin ToSet(y), Deps(t) \subseteq ToSet(y)
  PROVE  Append(y, t) \in Nice(A)
<1>0. y \in Lists /\ t \in Tasks
  BY DEF Nice
<1> PICK z \in Lists : z = Append(y, t)
  BY <1>0, AppendFacts
<1>1. /\ Len(z) = Len(y) + 1 /\ Len(y) \in Nat
      /\ \A i \in 1 .. Len(y) : z[i] = y[i]
      /\ z[Len(y) + 1] = t /\ ToSet(z) = ToSet(y) \cup {t}
  BY <1>0, AppendFacts, ListFacts
<1>2. ToSet(y) = {y[i] : i \in 1 .. Len(y)}
  BY <1>0, ListFacts
<1>3. \A i \in 1 .. Len(z) : (i \in 1 .. Len(y) /\ z[i] = y[i]) \/ (i = Len(y) + 1 /\ z[i] = t)
  BY <1>1
<1>4. \A i, j \in 1 .. Len(z) : z[i] = z[j] => i = j
  <2>1. \A i \in 1 .. Len(y) : y[i] # t
    BY <1>2
  <2>2. \A i, j \in 1 .. Len(y) : y[i] = y[j] => i = j
    BY DEF Nice
  <2> QED
    BY <1>3, <2>1, <2>2
<1>5. \A j \in 1 .. Len(z) : \A u \in Deps(z[j]) : \E i \in 1 .. j - 1 : z[i] = u
  <2> TAKE j \in 1 .. Len(z)
  <2> TAKE u \in Deps(z[j])
  <2>1. CASE j \in 1 .. Len(y)
    <3>1. z[j] = y[j]
      BY <1>1, <2>1
    <3>2. PICK i \in 1 .. j - 1 : y[i] = u
      BY <2>1, <3>1 DEF Nice
    <3>3. i \in 1 .. Len(y)
      BY <1>1, <2>1
    <3> QED
      BY <1>1, <3>2, <3>3
  <2>2. CASE j = Len(y) + 1
    <3>1. u \in ToSet(y)
      BY <1>1, <2>2
    <3>2. PICK i \in 1 .. Len(y) : y[i] = u
      BY <1>2, <3>1
    <3>3. i \in 1 .. j - 1
      BY <1>1, <2>2
    <3> QED
      BY <1>1, <3>2, <3>3
  <2> QED
    BY <1>3, <2>1, <2>2
<1>6. ToSet(z) \subseteq A
  BY <1>1 DEF Nice
<1>7. z \in Nice(A)
  BY <1>4, <1>5, <1>6 DEF Nice
<1> QED
  BY <1>7

LEMMA VisitCollects ==
  ASSUME NEW A \in SUBSET Tasks, Closed(A), NEW t \in A, NEW y \in Nice(A)
  PROVE  Visit[t][y] \in Nice(A) /\ ToSet(y) \cup {t} \subseteq ToSet(Visit[t][y])
<1> PICK n \in Nat : \E rank : Ranks(rank, n)
  BY Ranked
<1> PICK rank : Ranks(rank, n)
  OBVIOUS
<1> DEFINE Adds(v, B) == \A x \in Nice(B) :
                 Visit[v][x] \in Nice(B) /\ ToSet(x) \cup {v} \subseteq ToSet(Visit[v][x])
           good == {v \in Tasks : \A B \in SUBSET Tasks : v \in B /\ Closed(B) => Adds(v, B)}
<1>1. \A v \in Tasks : (\A u \in Tasks : rank[u] < rank[v] => u \in good) => v \in good
  <2> TAKE v \in Tasks
  <2> HAVE \A u \in Tasks : rank[u] < rank[v] => u \in good
  <2> SUFFICES ASSUME NEW B \in SUBSET Tasks, v \in B, Closed(B), NEW x \in Nice(B)
               PROVE  Visit[v][x] \in Nice(B) /\ ToSet(x) \cup {v} \subseteq ToSet(Visit[v][x])
    OBVIOUS
  <2>0. x \in Lists
    BY DEF Nice
  <2>1. \A i \in 1 .. Len(DependsOn[v]) :
          /\ DependsOn[v][i] \in Tasks /\ rank[DependsOn[v][i]] < rank[v]
          /\ DependsOn[v][i] \in good /\ Visit[DependsOn[v][i]] \in [Lists -> Lists]
    <3> TAKE i \in 1 .. Len(DependsOn[v])
    <3> PICK u \in Tasks : u = DependsOn[v][i]
      BY References
    <3>1. rank[u] < rank[v]
      BY DEF Ranks
    <3>2. Visit[u] \in [Lists -> Lists]
      BY VisitFacts DEF Visitors
    <3>3. u \in good
      <4> HIDE DEF good
      <4> QED
        BY <3>1
    <3> HIDE DEF good
    <3> QED
      BY <3>1, <3>2, <3>3
  <2>2. \A C \in SUBSET Tasks : Closed(C) /\ Deps(v) \subseteq C /\ x \in Nice(C) =>
          /\ Through(Visit, DependsOn[v], x) \in Nice(C)
          /\ ToSet(x) \cup Deps(v) \subseteq ToSet(Through(Visit, DependsOn[v], x))
    <3> TAKE C \in SUBSET Tasks
    <3> HAVE Closed(C) /\ Deps(v) \subseteq C /\ x \in Nice(C)
    <3> PICK N, s, m : N = Nice(C) /\ s = DependsOn[v] /\ m = Len(DependsOn[v])
      OBVIOUS
    <3>1. N \in SUBSET Lists /\ x \in N
      BY DEF Nice
    <3>2. m \in Nat /\ m = Len(s) /\ DOMAIN s = 1 .. m /\ ToSet(s) = Deps(v)
      BY References DEF Deps
    <3>3. \A i \in 1 .. m : Visit[s[i]] \in [Lists -> Lists]
      BY <2>1
    <3>4. \A i \in 1 .. m : \A z \in N :
            Visit[s[i]][z] \in N /\ ToSet(z) \cup {s[i]} \subseteq ToSet(Visit[s[i]][z])
      <4> TAKE i \in 1 .. m
      <4>1. s[i] \in good /\ s[i] \in C
        <5>1. s[i] \in Deps(v)
          BY References
        <5> QED
          BY <2>1, <5>1
      <4>2. Adds(s[i], C)
        BY <4>1
      <4> QED
        BY <4>2
    <3>5. Through(Visit, s, x) \in N /\ ToSet(x) \cup ToSet(s) \subseteq ToSet(Through(Visit, s, x))
      BY ONLY <3>1, <3>2, <3>3, <3>4, ThroughCollects
    <3> QED
      BY <3>2, <3>5
  <2>3. CASE Contains(x, v)
    <3>1. Visit[v][x] = x
      BY <2>0, <2>3, VisitFacts
    <3>2. v \in ToSet(x)
      BY <2>0, <2>3, ListFacts DEF Contains
    <3> QED
      BY <3>1, <3>2
  <2>4. CASE ~Contains(x, v)
    <3> PICK z : z = Through(Visit, DependsOn[v], x)
      OBVIOUS
    <3>1. Visit[v][x] = Append(z, v)
      BY <2>0, <2>4, VisitFacts
    <3>2. v \notin ToSet(x)
      BY <2>0, <2>4, ListFacts DEF Contains
    <3>3. z \in Nice(B) /\ ToSet(x) \cup Deps(v) \subseteq ToSet(z)
      <4>1. Deps(v) \subseteq B
        BY DEF Closed
      <4> QED
        BY <2>2, <4>1
    <3> DEFINE C == ToSet(x) \cup {u \in Tasks : rank[u] < rank[v]}
    <3>4. C \in SUBSET Tasks /\ x \in Nice(C) /\ v \notin C
      <4>1. ToSet(x) \subseteq Tasks
        BY <2>0, ListFacts
      <4>2. ~(rank[v] < rank[v])
        BY DEF Ranks
      <4> QED
        BY <3>2, <4>1, <4>2 DEF Nice
    <3>5. \A w \in Tasks : Deps(w) = {DependsOn[w][i] : i \in 1 .. Len(DependsOn[w])}
      BY References
    <3>6. \A w \in Tasks : \A u \in Deps(w) : u \in Tasks /\ rank[u] < rank[w]
      BY <3>5, References DEF Ranks
    <3>7. Closed(C) /\ Deps(v) \subseteq C
      <4>1. ASSUME NEW w \in ToSet(x), NEW u \in Deps(w) PROVE u \in ToSet(x)
        <5>1. PICK j \in 1 .. Len(x) : w = x[j]
          BY <2>0, ListFacts
        <5>2. PICK i \in 1 .. j - 1 : x[i] = u
          BY <5>1 DEF Nice
        <5>3. i \in 1 .. Len(x)
          BY <2>0, <5>2, ListFacts
        <5> QED
          BY <2>0, <5>2, <5>3, ListFacts
      <4>2. \A w \in Tasks : rank[w] \in Nat
        BY DEF Ranks
      <4>3. \A w \in Tasks : rank[w] < rank[v] => Deps(w) \subseteq C
        BY <3>6, <4>2
      <4>4. Deps(v) \subseteq C
        BY <3>6
      <4> QED
        BY <4>1, <4>3, <4>4 DEF Closed
    <3>8. v \notin ToSet(z)
      <4> HIDE DEF C
      <4>1. z \in Nice(C)
        BY <2>2, <3>4, <3>7
      <4> QED
        BY <3>4, <4>1 DEF Nice
    <3>9. Append(z, v) \in Nice(B)
      BY <3>3, <3>8, AppendNice
    <3>10. z \in Lists
      BY <3>3 DEF Nice
    <3>11. ToSet(Append(z, v)) = ToSet(z) \cup {v}
      BY <3>10, AppendFacts
    <3> QED
      BY <3>1, <3>3, <3>9, <3>11
  <2> QED
    BY <2>3, <2>4
<1>2. Tasks \subseteq good
  <2> HIDE DEF good
  <2> QED
    BY <1>1, ByRank
<1>3. t \in good
  <2> HIDE DEF good
  <2> QED
    BY <1>2
<1> QED
  BY <1>3

InOrder(s) == \A i, j \in DOMAIN s : s[i] \in RefersTo(s[j]) => i < j

LEMMA NiceInOrder ==
  ASSUME NEW A, NEW y \in Nice(A)
  PROVE  y \in Lists /\ IsInjective(y) /\ InOrder(y)
<1>1. y \in Lists /\ DOMAIN y = 1 .. Len(y) /\ Len(y) \in Nat /\ \A i \in 1 .. Len(y) : y[i] \in Tasks
  BY ListFacts DEF Nice
<1>2. IsInjective(y)
  BY <1>1 DEF Nice, IsInjective
<1>3. ASSUME NEW k \in DOMAIN y, NEW j \in DOMAIN y, y[k] \in RefersTo(y[j]) PROVE k < j
  <2> PICK S : S = {y[i] : i \in 1 .. j}
    OBVIOUS
  <2>1. \A i \in 1 .. j : i \in 1 .. Len(y)
    BY <1>1
  <2>2. S \in SUBSET Tasks
    BY <1>1, <2>1
  <2>3. y[j] \in S
    BY <1>1
  <2>4. ASSUME NEW r \in S, NEW u \in Deps(r) PROVE u \in S
    <3>1. PICK m \in 1 .. j : r = y[m]
      OBVIOUS
    <3>2. PICK i \in 1 .. m - 1 : y[i] = u
      BY <2>1, <3>1 DEF Nice
    <3>3. i \in 1 .. j
      BY <1>1, <3>1, <3>2
    <3> QED
      BY <3>2, <3>3
  <2>5. y[k] \in S /\ y[k] # y[j]
    BY <1>3, <2>2, <2>3, <2>4 DEF RefersTo
  <2>6. PICK i \in 1 .. j : y[k] = y[i]
    BY <2>5
  <2>7. i = k
    BY <1>1, <1>3, <2>1, <2>6 DEF Nice
  <2>8. k # j /\ k \in 1 .. j /\ j \in Nat
    BY <1>1, <2>5, <2>6, <2>7
  <2> QED
    BY <2>8
<1> QED
  BY <1>1, <1>2, <1>3 DEF InOrder

(* The dispatch order holds each registered task once, references first.    *)
LEMMA TopoSortFacts ==
  ASSUME NEW s \in Lists, ~SortThrows(s)
  PROVE  /\ TopoSort(s) \in Lists /\ IsInjective(TopoSort(s)) /\ InOrder(TopoSort(s))
         /\ ToSet(TopoSort(s)) = ToSet(s)
<1> PICK A, n : A = ToSet(s) /\ n = Len(s)
  OBVIOUS
<1> PICK N : N = Nice(A)
  OBVIOUS
<1> PICK a : a = <<>>
  OBVIOUS
<1>1. A \in SUBSET Tasks /\ n \in Nat /\ n = Len(s) /\ DOMAIN s = 1 .. n /\ \A i \in 1 .. n : s[i] \in A
  BY ListFacts
<1>2. Closed(A)
  BY DEF SortThrows, Closed
<1>3. a \in N /\ N \in SUBSET Lists /\ ToSet(a) = {}
  BY DEF Nice, Lists, ToSet
<1>4. \A i \in 1 .. n : Visit[s[i]] \in [Lists -> Lists]
  BY <1>1, VisitFacts DEF Visitors
<1>5. \A i \in 1 .. n : \A y \in N :
        Visit[s[i]][y] \in N /\ ToSet(y) \cup {s[i]} \subseteq ToSet(Visit[s[i]][y])
  BY <1>1, <1>2, VisitCollects
<1>6. Through(Visit, s, a) \in N /\ ToSet(a) \cup ToSet(s) \subseteq ToSet(Through(Visit, s, a))
  BY ONLY <1>1, <1>3, <1>4, <1>5, ThroughCollects
<1>7. TopoSort(s) \in Nice(A) /\ ToSet(s) \subseteq ToSet(TopoSort(s))
  BY <1>3, <1>6 DEF TopoSort
<1>8. ToSet(TopoSort(s)) \subseteq A
  BY <1>7 DEF Nice
<1>9. TopoSort(s) \in Lists /\ IsInjective(TopoSort(s)) /\ InOrder(TopoSort(s))
  BY <1>7, NiceInOrder
<1> QED
  BY <1>7, <1>8, <1>9

(* Those dispatched to are some of them, in that order. *)
LEMMA DispatchFacts ==
  ASSUME NEW topic, NEW s \in Lists, IsInjective(s), InOrder(s), NEW d, d = DispatchOrder(topic, s)
  PROVE  d \in Lists /\ IsInjective(d) /\ InOrder(d) /\ ToSet(d) \subseteq ToSet(s)
<1> PICK F, n, a, r : /\ F = Subscribed(topic) /\ n = Len(s) /\ a = <<>>
                      /\ r = Through(F, s, a)
  OBVIOUS
<1>0. n \in Nat /\ n = Len(s) /\ DOMAIN s = 1 .. n /\ \A i \in 1 .. n : s[i] \in Tasks
  BY ListFacts
<1>1. \A t \in Tasks : \A y \in Lists : F[t][y] = IF topic \in Subscribes[t] THEN Append(y, t) ELSE y
  BY DEF Subscribed
<1>2. \A t \in Tasks : F[t] \in [Lists -> Lists]
  <2>1. \A t \in Tasks : \A y \in Lists : F[t][y] \in Lists
    BY <1>1, AppendFacts
  <2>2. \A t \in Tasks : F[t] = [y \in Lists |-> F[t][y]]
    BY DEF Subscribed
  <2> QED
    BY <2>1, <2>2
<1>3. PICK f \in [0 .. n -> Lists] : Stations(f, n, F, s, a, r)
  <2>1. a \in Lists
    BY DEF Lists
  <2>2. \A i \in 1 .. n : F[s[i]] \in [Lists -> Lists]
    BY <1>0, <1>2
  <2> QED
    BY <1>0, <2>1, <2>2, ThroughFacts
<1> DEFINE fine(k) == /\ IsInjective(f[k]) /\ InOrder(f[k])
                      /\ \A i \in DOMAIN f[k] : \E m \in 1 .. k : f[k][i] = s[m]
           h == [k \in 0 .. n |-> IF fine(k) THEN 0 ELSE 1]
<1>4. fine(0)
  <2>1. f[0] = <<>>
    BY <1>3 DEF Stations
  <2>2. DOMAIN f[0] = {}
    BY <2>1
  <2> QED
    BY <2>2 DEF IsInjective, InOrder
<1>5. \A k \in 0 .. n - 1 : fine(k) => fine(k + 1)
  <2> TAKE k \in 0 .. n - 1
  <2> HAVE fine(k)
  <2>1. k \in 0 .. n /\ k + 1 \in 1 .. n /\ k + 1 \in 0 .. n /\ k \in Nat
    OBVIOUS
  <2> PICK y \in Lists : y = f[k]
    BY <2>1
  <2> PICK t \in Tasks : t = s[k + 1]
    BY <1>0, <2>1
  <2> PICK z : z = f[k + 1]
    OBVIOUS
  <2>2. z = IF topic \in Subscribes[t] THEN Append(y, t) ELSE y
    BY <1>1, <1>3, <2>1 DEF Stations
  <2>3. IsInjective(y) /\ InOrder(y) /\ \A i \in DOMAIN y : \E m \in 1 .. k : y[i] = s[m]
    OBVIOUS
  <2>4. \A i \in DOMAIN y : \E m \in 1 .. k + 1 : y[i] = s[m]
    BY <2>1, <2>3
  <2>5. CASE z = y
    BY <2>3, <2>4, <2>5
  <2>6. CASE z = Append(y, t)
    <3>1. /\ Len(z) = Len(y) + 1 /\ DOMAIN y = 1 .. Len(y) /\ Len(y) \in Nat /\ DOMAIN z = 1 .. Len(z)
          /\ \A i \in 1 .. Len(y) : z[i] = y[i]
          /\ z[Len(y) + 1] = t
      BY <2>6, AppendFacts, ListFacts
    <3>2. \A i \in DOMAIN z : (i \in DOMAIN y /\ z[i] = y[i]) \/ (i = Len(y) + 1 /\ z[i] = t)
      BY <3>1
    <3>3. \A i \in DOMAIN y : \E m \in 1 .. k : m \in 1 .. n /\ y[i] = s[m]
      BY <2>1, <2>3
    <3>4. \A i \in DOMAIN y : y[i] # t
      <4> TAKE i \in DOMAIN y
      <4>1. PICK m \in 1 .. k : m \in 1 .. n /\ y[i] = s[m]
        BY <3>3
      <4> QED
        BY <1>0, <2>1, <4>1 DEF IsInjective
    <3>5. \A i \in DOMAIN y : t \notin RefersTo(y[i])
      <4> TAKE i \in DOMAIN y
      <4>1. PICK m \in 1 .. k : m \in 1 .. n /\ y[i] = s[m]
        BY <3>3
      <4>2. ~(k + 1 < m)
        BY <2>1
      <4> QED
        BY <1>0, <2>1, <4>1, <4>2 DEF InOrder
    <3>6. t \notin RefersTo(t)
      BY DEF RefersTo
    <3>7. IsInjective(z)
      BY <2>3, <3>2, <3>4 DEF IsInjective
    <3>8. InOrder(z)
      <4>1. ASSUME NEW i \in DOMAIN z, NEW j \in DOMAIN z, z[i] \in RefersTo(z[j]) PROVE i < j
        <5>1. i \in DOMAIN y /\ z[i] = y[i]
          BY <3>2, <3>5, <3>6, <4>1
        <5>2. CASE j \in DOMAIN y /\ z[j] = y[j]
          BY <2>3, <4>1, <5>1, <5>2 DEF InOrder
        <5>3. CASE j = Len(y) + 1
          BY <3>1, <5>1, <5>3
        <5> QED
          BY <3>2, <5>2, <5>3
      <4> QED
        BY <4>1 DEF InOrder
    <3>9. \A i \in DOMAIN z : \E m \in 1 .. k + 1 : z[i] = s[m]
      <4>1. k + 1 \in 1 .. k + 1
        BY <2>1
      <4> QED
        BY <2>4, <3>2, <4>1
    <3> QED
      BY <3>7, <3>8, <3>9
  <2> QED
    BY <2>2, <2>5, <2>6
<1>6. fine(n)
  <2> HIDE DEF fine
  <2>0. \A k \in 0 .. n : h[k] = IF fine(k) THEN 0 ELSE 1
    OBVIOUS
  <2> HIDE DEF h
  <2>1. h[0] = 0
    BY <1>0, <1>4, <2>0
  <2>2. \A k \in 0 .. n - 1 : h[k] = 0 => h[k + 1] = 0
    <3> TAKE k \in 0 .. n - 1
    <3> HAVE h[k] = 0
    <3>1. k \in 0 .. n /\ k + 1 \in 0 .. n
      BY <1>0
    <3>2. fine(k)
      BY <2>0, <3>1
    <3>3. fine(k + 1)
      BY <1>5, <3>2
    <3> QED
      BY <2>0, <3>1, <3>3
  <2>3. \A k \in 0 .. n : h[k] = 0
    BY ONLY <1>0, <2>1, <2>2, StaysZero
  <2>4. h[n] = 0 /\ n \in 0 .. n
    BY <1>0, <2>3
  <2> QED
    BY <2>0, <2>4
<1>7. DispatchOrder(topic, s) = f[n] /\ f[n] \in Lists
  BY <1>0, <1>3 DEF Stations, DispatchOrder
<1>8. ToSet(f[n]) \subseteq ToSet(s)
  BY <1>0, <1>6 DEF ToSet
<1> QED
  BY <1>6, <1>7, <1>8

-----------------------------------------------------------------------------
(* The invariant of the channel.                                             *)

EventRec == [id : Nat, source : Nat, for : SUBSET Tasks]
TxRec == [id : Nat \ {0}, topic : Topics, todo : Lists, raised : Seq(EventRec), log : SUBSET EventRec,
          done : [Tasks -> SUBSET Nat], half : [Tasks -> SUBSET Nat], offset : [Tasks -> Nat]]

ChannelShape ==
  /\ registered \in Lists /\ IsInjective(registered)
  /\ order \in Lists
  /\ order # <<>> => IsInjective(order) /\ ToSet(order) = ToSet(registered) /\ InOrder(order)
  /\ log \subseteq EventRec
  /\ done \in [Tasks -> SUBSET Nat] /\ half = [t \in Tasks |-> {}] /\ offset \in [Tasks -> Nat]
  /\ lastId \in 0 .. MaxIds /\ crashes \in 0 .. MaxCrashes

(* The committed rows know of no event after n.                             *)
Known(n) ==
  /\ \A e \in log : e.id \in 1 .. n /\ e.source \in 0 .. e.id - 1
  /\ \A t \in Tasks : /\ done[t] \subseteq 1 .. n /\ offset[t] \in done[t] \cup {0}
                      /\ \A i \in done[t] : i <= offset[t]
Told(e, rows, had) ==
  e.source = 0 => \A t \in e.for : (e.id \in had[t]) <=> ~(\E x \in rows : x.source = e.id /\ t \in x.for)
Outcomes == \A e \in log : Told(e, log, done)

(* The submit in progress: whose turn is still to come, what those who had  *)
(* theirs wrote, and the rows it will commit.                               *)
Dispatched == ToSet(DispatchOrder(tx.topic, order))
Turned == Dispatched \ ToSet(tx.todo)
TxLists ==
  /\ IsInjective(tx.todo) /\ InOrder(tx.todo)
  /\ ToSet(tx.todo) \subseteq Dispatched /\ Dispatched \subseteq Tasks
  /\ \A t \in Turned : ToSet(tx.todo) \cap RefersTo(t) = {}
TxRows ==
  \A t \in Tasks :
    /\ tx.done[t] = done[t] \/ (t \in Turned /\ tx.done[t] = done[t] \cup {tx.id})
    /\ tx.offset[t] = IF tx.id \in tx.done[t] THEN tx.id ELSE offset[t]
    /\ tx.half[t] = {} \/ (tx.todo # <<>> /\ t = Turn /\ tx.half[t] = {tx.id})
TxEvents ==
  /\ tx.log = {[id |-> tx.id, source |-> 0, for |-> Dispatched]}
  /\ \A x \in ToSet(tx.raised) :
       /\ x.id \in tx.id + 1 .. lastId /\ x.source = tx.id
       /\ \A t \in x.for : t \in Turned /\ tx.id \notin tx.done[t]
  /\ \A t \in Turned : tx.id \in tx.done[t] \/ \E x \in ToSet(tx.raised) : t \in x.for
Transaction ==
  /\ tx \in TxRec /\ tx.id \in 1 .. lastId /\ Known(tx.id - 1)
  /\ TxLists /\ TxRows /\ TxEvents
ChannelInv == ChannelShape /\ Known(lastId) /\ Outcomes /\ (Open => Transaction)

(* Who is left when the first has had its turn. *)
LEMMA TailFacts ==
  ASSUME NEW y \in Lists, y # <<>>, IsInjective(y), InOrder(y)
  PROVE  /\ Head(y) \in Tasks /\ Head(y) \in ToSet(y)
         /\ Tail(y) \in Lists /\ IsInjective(Tail(y)) /\ InOrder(Tail(y))
         /\ ToSet(Tail(y)) = ToSet(y) \ {Head(y)}
         /\ ToSet(y) \cap RefersTo(Head(y)) = {}
<1>0. y \in Seq(Tasks)
  BY DEF Lists
<1> PICK t, z, n : t = Head(y) /\ z = Tail(y) /\ n = Len(y)
  OBVIOUS
<1>1. n \in Nat \ {0} /\ DOMAIN y = 1 .. n /\ t = y[1] /\ t \in Tasks
  BY <1>0
<1>2. z \in Seq(Tasks) /\ Len(z) = n - 1 /\ \A i \in 1 .. n - 1 : z[i] = y[i + 1]
  BY <1>0, <1>1
<1>3. DOMAIN z = 1 .. n - 1
  BY <1>1, <1>2
<1>4. \A i \in 1 .. n - 1 : i + 1 \in 1 .. n /\ i + 1 # 1
  BY <1>1
<1>5. \A i \in 1 .. n : i = 1 \/ (i - 1 \in 1 .. n - 1 /\ (i - 1) + 1 = i)
  BY <1>1
<1>6. IsInjective(z)
  <2>1. ASSUME NEW i \in 1 .. n - 1, NEW j \in 1 .. n - 1, z[i] = z[j] PROVE i = j
    <3>1. y[i + 1] = y[j + 1]
      BY <1>2, <2>1
    <3>2. i + 1 = j + 1
      BY <1>1, <1>4, <3>1 DEF IsInjective
    <3> QED
      BY <1>1, <3>2
  <2> QED
    BY <1>3, <2>1 DEF IsInjective
<1>7. InOrder(z)
  <2>1. ASSUME NEW i \in 1 .. n - 1, NEW j \in 1 .. n - 1, z[i] \in RefersTo(z[j]) PROVE i < j
    <3>1. y[i + 1] \in RefersTo(y[j + 1])
      BY <1>2, <2>1
    <3>2. i + 1 < j + 1
      BY <1>1, <1>4, <3>1 DEF InOrder
    <3> QED
      BY <1>1, <3>2
  <2> QED
    BY <1>3, <2>1 DEF InOrder
<1>8. ToSet(y) = {y[i] : i \in 1 .. n} /\ ToSet(z) = {z[i] : i \in 1 .. n - 1}
  BY <1>1, <1>3 DEF ToSet
<1>9. \A x \in ToSet(z) : x \in ToSet(y) \ {t}
  <2> TAKE x \in ToSet(z)
  <2>1. PICK i \in 1 .. n - 1 : x = z[i]
    BY <1>8
  <2>2. x = y[i + 1] /\ i + 1 \in 1 .. n /\ i + 1 # 1
    BY <1>2, <1>4, <2>1
  <2>3. 1 \in 1 .. n
    BY <1>1
  <2> QED
    BY <1>1, <1>8, <2>2, <2>3 DEF IsInjective
<1>10. \A x \in ToSet(y) \ {t} : x \in ToSet(z)
  <2> TAKE x \in ToSet(y) \ {t}
  <2>1. PICK i \in 1 .. n : x = y[i]
    BY <1>8
  <2>2. i # 1
    BY <1>1, <2>1
  <2>3. i - 1 \in 1 .. n - 1 /\ z[i - 1] = x
    BY <1>2, <1>5, <2>1, <2>2
  <2> QED
    BY <1>8, <2>3
<1>11. \A x \in ToSet(y) : x \notin RefersTo(t)
  <2> TAKE x \in ToSet(y)
  <2>1. PICK i \in 1 .. n : x = y[i]
    BY <1>8
  <2>2. ~(i < 1) /\ 1 \in 1 .. n
    BY <1>1
  <2> QED
    BY <1>1, <2>1, <2>2 DEF InOrder
<1>12. t \in ToSet(y)
  BY <1>1, <1>8
<1> QED
  BY <1>1, <1>2, <1>6, <1>7, <1>9, <1>10, <1>11, <1>12 DEF Lists

(* Rows known up to n are known up to any later m.                          *)
LEMMA KnownLater ==
  ASSUME NEW n \in Nat, NEW m \in Nat, n <= m, Known(n)
  PROVE  Known(m)
<1>1. \A i \in 1 .. n : i \in 1 .. m
  OBVIOUS
<1> QED
  BY <1>1 DEF Known

LEMMA StillKnown ==
  ASSUME NEW n, Known(n), UNCHANGED committed
  PROVE  Known(n)'
BY DEF Known, committed

LEMMA StillTold ==
  ASSUME Outcomes, UNCHANGED committed
  PROVE  Outcomes'
BY DEF Outcomes, Told, committed

LEMMA ChannelInitInv == ChannelInit => ChannelInv
<1> SUFFICES ASSUME ChannelInit PROVE ChannelInv
  OBVIOUS
<1>1. registered \in Lists /\ IsInjective(registered) /\ order \in Lists
  BY DEF ChannelInit, Lists, IsInjective
<1>2. ChannelShape
  BY <1>1, ChannelAssumption DEF ChannelInit, ChannelShape
<1>3. Known(lastId)
  BY DEF ChannelInit, Known
<1>4. Outcomes /\ ~Open
  BY DEF ChannelInit, Outcomes, Open
<1> QED
  BY <1>2, <1>3, <1>4 DEF ChannelInv

LEMMA RegisterInv ==
  ASSUME ChannelInv, NEW t \in Tasks, RegisterTask(t)
  PROVE  ChannelInv'
<1>1. registered' \in Lists /\ IsInjective(registered')
  <2> PICK y \in Lists : y = registered
    BY DEF ChannelInv, ChannelShape
  <2> PICK z : z = registered'
    OBVIOUS
  <2>1. IsInjective(y) /\ z = Append(y, t) /\ ~Contains(y, t)
    BY DEF ChannelInv, ChannelShape, RegisterTask
  <2>2. /\ z \in Lists /\ Len(z) = Len(y) + 1 /\ Len(y) \in Nat
        /\ DOMAIN y = 1 .. Len(y) /\ DOMAIN z = 1 .. Len(z)
        /\ \A i \in 1 .. Len(y) : z[i] = y[i]
        /\ z[Len(y) + 1] = t
    BY <2>1, AppendFacts, ListFacts
  <2>3. \A i \in DOMAIN z : (i \in DOMAIN y /\ z[i] = y[i]) \/ (i = Len(y) + 1 /\ z[i] = t)
    BY <2>2
  <2>4. \A i \in DOMAIN y : y[i] # t
    BY <2>1, <2>2 DEF Contains
  <2>5. IsInjective(z)
    BY <2>1, <2>3, <2>4 DEF IsInjective
  <2> QED
    BY <2>2, <2>5
<1>2. order' \in Lists /\ order' = <<>>
  BY DEF RegisterTask, Lists
<1>3. ChannelShape'
  BY <1>1, <1>2 DEF ChannelInv, ChannelShape, RegisterTask, committed
<1>4. Known(lastId)'
  BY DEF ChannelInv, RegisterTask, Known, committed
<1>5. Outcomes'
  BY StillTold DEF ChannelInv, RegisterTask
<1>6. ~Open'
  BY DEF RegisterTask, Open, NoTx
<1> QED
  BY <1>3, <1>4, <1>5, <1>6 DEF ChannelInv

LEMMA RejectInv ==
  ASSUME ChannelInv, Reject
  PROVE  ChannelInv'
<1>1. ChannelShape'
  BY DEF ChannelInv, ChannelShape, Reject, committed
<1>2. Known(lastId)'
  BY DEF ChannelInv, Reject, Known, committed
<1>3. Outcomes'
  BY StillTold DEF ChannelInv, Reject
<1>4. ~Open'
  BY DEF Reject, Open, NoTx
<1> QED
  BY <1>1, <1>2, <1>3, <1>4 DEF ChannelInv

LEMMA CrashInv ==
  ASSUME ChannelInv, Crash
  PROVE  ChannelInv'
<1>1. registered' \in Lists /\ IsInjective(registered') /\ order' \in Lists /\ order' = <<>>
  BY DEF Crash, Lists, IsInjective
<1>2. crashes' \in 0 .. MaxCrashes
  BY ChannelAssumption DEF ChannelInv, ChannelShape, Crash
<1>3. ChannelShape'
  BY <1>1, <1>2 DEF ChannelInv, ChannelShape, Crash, committed
<1>4. Known(lastId)'
  BY DEF ChannelInv, Crash, Known, committed
<1>5. Outcomes'
  BY StillTold DEF ChannelInv, Crash
<1>6. ~Open'
  BY DEF Crash, Open, NoTx
<1> QED
  BY <1>3, <1>4, <1>5, <1>6 DEF ChannelInv

LEMMA SubmitInv ==
  ASSUME ChannelInv, NEW topic \in Topics, Submit(topic)
  PROVE  ChannelInv'
<1> PICK n, sorted : /\ n = lastId + 1
                     /\ sorted = IF order = <<>> THEN TopoSort(registered) ELSE order
  OBVIOUS
<1> PICK d : d = DispatchOrder(topic, sorted)
  OBVIOUS
<1>1. /\ order' = sorted /\ lastId' = n
      /\ tx' = [id |-> n, topic |-> topic, raised |-> <<>>, todo |-> d,
                log |-> {[id |-> n, source |-> 0, for |-> ToSet(d)]},
                done |-> done, half |-> half, offset |-> offset]
  BY DEF Submit
<1>2. n \in Nat \ {0} /\ n \in 0 .. MaxIds /\ n = lastId + 1 /\ lastId \in Nat
  BY ChannelAssumption DEF ChannelInv, ChannelShape, Submit
<1>3. registered \in Lists /\ IsInjective(registered)
  BY DEF ChannelInv, ChannelShape
<1>4. sorted \in Lists /\ IsInjective(sorted) /\ InOrder(sorted) /\ ToSet(sorted) = ToSet(registered)
  <2>1. CASE order = <<>>
    BY <1>3, <2>1, TopoSortFacts DEF Submit
  <2>2. CASE order # <<>>
    BY <2>2 DEF ChannelInv, ChannelShape
  <2> QED
    BY <2>1, <2>2
<1>5. d \in Lists /\ IsInjective(d) /\ InOrder(d) /\ ToSet(d) \subseteq Tasks
  <2>1. d \in Lists /\ IsInjective(d) /\ InOrder(d)
    BY <1>4, DispatchFacts
  <2> QED
    BY <2>1, ListFacts
<1>6. ChannelShape'
  BY <1>1, <1>2, <1>3, <1>4 DEF ChannelInv, ChannelShape, Submit, committed
<1>7. Known(lastId) /\ UNCHANGED committed
  BY DEF ChannelInv, Submit
<1>8. Known(lastId)'
  <2>1. Known(n)
    BY <1>2, <1>7, KnownLater
  <2> QED
    BY <1>1, <1>7, <2>1 DEF Known, committed
<1>9. Outcomes'
  BY <1>7, StillTold DEF ChannelInv
<1>10. /\ tx'.id = n /\ tx'.topic = topic /\ tx'.raised = <<>> /\ tx'.todo = d
       /\ tx'.log = {[id |-> n, source |-> 0, for |-> ToSet(d)]}
       /\ tx'.done = done /\ tx'.half = half /\ tx'.offset = offset
  BY <1>1
<1>11. Dispatched' = ToSet(d) /\ Turned' = {}
  BY <1>1, <1>10 DEF Dispatched, Turned
<1>12. tx' \in TxRec /\ tx'.id \in 1 .. lastId'
  <2>1. done \in [Tasks -> SUBSET Nat] /\ half \in [Tasks -> SUBSET Nat] /\ offset \in [Tasks -> Nat]
    BY DEF ChannelInv, ChannelShape
  <2>2. <<>> \in Seq(EventRec)
    OBVIOUS
  <2>3. {[id |-> n, source |-> 0, for |-> ToSet(d)]} \in SUBSET EventRec
    BY <1>2, <1>5 DEF EventRec
  <2>4. tx' \in TxRec
    BY <1>1, <1>2, <1>5, <2>1, <2>2, <2>3 DEF TxRec
  <2>5. n \in 1 .. n
    BY <1>2
  <2> QED
    BY <1>1, <1>10, <2>4, <2>5
<1>13. Known(tx.id - 1)'
  <2>1. tx'.id - 1 = lastId
    BY <1>2, <1>10
  <2> QED
    BY <1>7, <2>1 DEF Known, committed
<1>14. TxLists'
  BY <1>5, <1>10, <1>11 DEF TxLists
<1>15. TxRows'
  <2>1. \A t \in Tasks : half[t] = {} /\ n \notin done[t]
    BY <1>2, <1>7 DEF ChannelInv, ChannelShape, Known
  <2>2. \A t \in Tasks : done'[t] = done[t] /\ offset'[t] = offset[t]
    BY <1>7 DEF committed
  <2> QED
    BY <1>10, <2>1, <2>2 DEF TxRows
<1>16. TxEvents'
  <2>1. ToSet(tx'.raised) = {}
    BY <1>10 DEF ToSet
  <2> QED
    BY <1>10, <1>11, <2>1 DEF TxEvents
<1> QED
  BY <1>6, <1>8, <1>9, <1>12, <1>13, <1>14, <1>15, <1>16 DEF ChannelInv, Transaction

(* The fields of the transaction, and whose turn it is.                     *)
LEMMA OpenFacts ==
  ASSUME ChannelInv, Open, tx.todo # <<>>
  PROVE  /\ Transaction /\ tx.id \in Nat \ {0} /\ tx.todo \in Lists /\ tx.raised \in Seq(EventRec)
         /\ tx.done \in [Tasks -> SUBSET Nat] /\ tx.half \in [Tasks -> SUBSET Nat]
         /\ tx.offset \in [Tasks -> Nat]
         /\ Turn \in Tasks /\ Turn \in ToSet(tx.todo) /\ Turn \in Dispatched /\ Turn \notin Turned
         /\ Tail(tx.todo) \in Lists /\ IsInjective(Tail(tx.todo)) /\ InOrder(Tail(tx.todo))
         /\ ToSet(Tail(tx.todo)) = ToSet(tx.todo) \ {Turn}
         /\ ToSet(tx.todo) \cap RefersTo(Turn) = {}
         /\ tx.done[Turn] = done[Turn] /\ tx.id \notin tx.done[Turn]
         /\ tx.half[Turn] \subseteq {tx.id} /\ \A t \in Tasks \ {Turn} : tx.half[t] = {}
<1>1. Transaction
  BY DEF ChannelInv
<1>2. /\ tx.id \in Nat \ {0} /\ tx.todo \in Lists /\ tx.raised \in Seq(EventRec)
      /\ tx.done \in [Tasks -> SUBSET Nat] /\ tx.half \in [Tasks -> SUBSET Nat]
      /\ tx.offset \in [Tasks -> Nat]
  BY <1>1 DEF Transaction, TxRec
<1>3. IsInjective(tx.todo) /\ InOrder(tx.todo) /\ ToSet(tx.todo) \subseteq Dispatched
  BY <1>1 DEF Transaction, TxLists
<1>4. /\ Turn \in Tasks /\ Turn \in ToSet(tx.todo)
      /\ Tail(tx.todo) \in Lists /\ IsInjective(Tail(tx.todo)) /\ InOrder(Tail(tx.todo))
      /\ ToSet(Tail(tx.todo)) = ToSet(tx.todo) \ {Turn}
      /\ ToSet(tx.todo) \cap RefersTo(Turn) = {}
  BY <1>2, <1>3, TailFacts DEF Turn
<1>5. Turn \in Dispatched /\ Turn \notin Turned
  BY <1>3, <1>4 DEF Turned
<1>6. \A t \in Tasks : /\ tx.done[t] = done[t] \/ t \in Turned
                       /\ tx.half[t] = {} \/ (t = Turn /\ tx.half[t] = {tx.id})
  BY <1>1 DEF Transaction, TxRows
<1>7. tx.id \notin done[Turn]
  <2>1. done[Turn] \subseteq 1 .. tx.id - 1
    BY <1>1, <1>4 DEF Transaction, Known
  <2> QED
    BY <1>2, <2>1
<1> QED
  BY <1>1, <1>2, <1>4, <1>5, <1>6, <1>7

LEMMA ApplyHalfInv ==
  ASSUME ChannelInv, ApplyHalf
  PROVE  ChannelInv'
<1>0. Open /\ tx.todo # <<>> /\ UNCHANGED <<registered, order, committed, lastId, crashes>>
  BY DEF ApplyHalf
<1>1. /\ Transaction /\ tx.id \in Nat \ {0} /\ tx.half \in [Tasks -> SUBSET Nat] /\ Turn \in Tasks
      /\ tx.half[Turn] \subseteq {tx.id}
  BY <1>0, OpenFacts
<1>2. /\ tx' \in TxRec /\ tx'.id = tx.id /\ tx'.topic = tx.topic /\ tx'.raised = tx.raised
      /\ tx'.todo = tx.todo /\ tx'.log = tx.log /\ tx'.done = tx.done /\ tx'.offset = tx.offset
      /\ tx'.half = [tx.half EXCEPT ![Turn] = @ \cup {tx.id}]
  <2>1. [tx.half EXCEPT ![Turn] = @ \cup {tx.id}] \in [Tasks -> SUBSET Nat]
    BY <1>1
  <2>2. tx' = [tx EXCEPT !.half = [tx.half EXCEPT ![Turn] = @ \cup {tx.id}]]
    BY DEF ApplyHalf
  <2> QED
    BY <1>1, <2>1, <2>2 DEF Transaction, TxRec
<1>3. ChannelShape' /\ Known(lastId)' /\ Outcomes'
  BY <1>0, StillTold DEF ChannelInv, ChannelShape, Known, committed
<1>4. Dispatched' = Dispatched /\ Turned' = Turned /\ Turn' = Turn
  BY <1>0, <1>2 DEF Dispatched, Turned, Turn
<1>5. Known(tx.id - 1)'
  BY <1>0, <1>1, <1>2 DEF Transaction, Known, committed
<1>6. TxLists'
  BY <1>1, <1>2, <1>4 DEF Transaction, TxLists
<1>7. TxRows'
  <2>1. tx'.half[Turn] = {tx.id} /\ \A t \in Tasks \ {Turn} : tx'.half[t] = tx.half[t]
    BY <1>1, <1>2
  <2>2. TxRows /\ done' = done /\ offset' = offset
    BY <1>0, <1>1 DEF Transaction, committed
  <2> QED
    BY <1>0, <1>2, <1>4, <2>1, <2>2 DEF TxRows
<1>8. TxEvents'
  BY <1>0, <1>1, <1>2, <1>4 DEF Transaction, TxEvents
<1>9. tx'.id \in 1 .. lastId'
  BY <1>0, <1>1, <1>2 DEF Transaction
<1> QED
  BY <1>2, <1>3, <1>5, <1>6, <1>7, <1>8, <1>9 DEF ChannelInv, Transaction

(* One more projector has had its turn.                                     *)
LEMMA TurnPasses ==
  ASSUME ChannelInv, Open, tx.todo # <<>>, order' = order, tx'.topic = tx.topic, tx'.todo = Tail(tx.todo)
  PROVE  Dispatched' = Dispatched /\ Turned' = Turned \cup {Turn} /\ TxLists'
<1>1. /\ Transaction /\ Turn \in ToSet(tx.todo) /\ Turn \in Dispatched
      /\ IsInjective(tx'.todo) /\ InOrder(tx'.todo) /\ ToSet(tx'.todo) = ToSet(tx.todo) \ {Turn}
      /\ ToSet(tx.todo) \cap RefersTo(Turn) = {}
  BY OpenFacts
<1>2. Dispatched' = Dispatched
  BY DEF Dispatched
<1>3. Turned' = Turned \cup {Turn}
  BY <1>1, <1>2 DEF Turned
<1>4. /\ ToSet(tx.todo) \subseteq Dispatched /\ Dispatched \subseteq Tasks
      /\ \A t \in Turned : ToSet(tx.todo) \cap RefersTo(t) = {}
  BY <1>1 DEF Transaction, TxLists
<1>5. \A t \in Turned \cup {Turn} : ToSet(tx'.todo) \cap RefersTo(t) = {}
  BY <1>1, <1>4
<1>6. TxLists'
  BY <1>1, <1>2, <1>3, <1>4, <1>5 DEF TxLists
<1> QED
  BY <1>2, <1>3, <1>6

LEMMA AcceptInv ==
  ASSUME ChannelInv, Accept
  PROVE  ChannelInv'
<1>0. Open /\ tx.todo # <<>> /\ UNCHANGED <<registered, order, committed, lastId, crashes>>
  BY DEF Accept
<1> PICK t : t = Turn
  OBVIOUS
<1>1. /\ Transaction /\ tx.id \in Nat \ {0} /\ t \in Tasks /\ Tail(tx.todo) \in Lists
      /\ tx.done \in [Tasks -> SUBSET Nat] /\ tx.half \in [Tasks -> SUBSET Nat]
      /\ tx.offset \in [Tasks -> Nat] /\ t \notin Turned /\ tx.done[t] = done[t]
      /\ tx.half[t] \subseteq {tx.id} /\ \A u \in Tasks \ {t} : tx.half[u] = {}
  BY <1>0, OpenFacts
<1>2. /\ tx' \in TxRec /\ tx'.id = tx.id /\ tx'.topic = tx.topic /\ tx'.raised = tx.raised
      /\ tx'.todo = Tail(tx.todo) /\ tx'.log = tx.log
      /\ tx'.done = [tx.done EXCEPT ![t] = @ \cup {tx.id}]
      /\ tx'.half = [tx.half EXCEPT ![t] = @ \ {tx.id}]
      /\ tx'.offset = [tx.offset EXCEPT ![t] = tx.id]
  <2>1. /\ [tx.half EXCEPT ![t] = @ \ {tx.id}] \in [Tasks -> SUBSET Nat]
        /\ [tx.done EXCEPT ![t] = @ \cup {tx.id}] \in [Tasks -> SUBSET Nat]
        /\ [tx.offset EXCEPT ![t] = tx.id] \in [Tasks -> Nat]
    BY <1>1
  <2>2. tx' = [tx EXCEPT !.todo = Tail(tx.todo), !.offset = [tx.offset EXCEPT ![t] = tx.id],
                         !.half = [tx.half EXCEPT ![t] = @ \ {tx.id}],
                         !.done = [tx.done EXCEPT ![t] = @ \cup {tx.id}]]
    BY DEF Accept
  <2> QED
    BY <1>1, <2>1, <2>2 DEF Transaction, TxRec
<1>3. ChannelShape' /\ Known(lastId)' /\ Outcomes'
  BY <1>0, StillTold DEF ChannelInv, ChannelShape, Known, committed
<1>4. Dispatched' = Dispatched /\ Turned' = Turned \cup {t} /\ TxLists'
  BY <1>0, <1>2, TurnPasses
<1>5. Known(tx.id - 1)'
  BY <1>0, <1>1, <1>2 DEF Transaction, Known, committed
<1>6. /\ tx'.done[t] = done[t] \cup {tx.id} /\ tx'.half[t] = {} /\ tx'.offset[t] = tx.id
      /\ \A u \in Tasks \ {t} : /\ tx'.done[u] = tx.done[u] /\ tx'.half[u] = {}
                                /\ tx'.offset[u] = tx.offset[u]
  BY <1>1, <1>2
<1>7. TxRows'
  <2>1. TxRows /\ done' = done /\ offset' = offset
    BY <1>0, <1>1 DEF Transaction, committed
  <2>2. ASSUME NEW u \in Tasks \ {t}
        PROVE  /\ tx'.done[u] = done[u] \/ (u \in Turned' /\ tx'.done[u] = done[u] \cup {tx.id})
               /\ tx'.offset[u] = IF tx.id \in tx'.done[u] THEN tx.id ELSE offset[u]
    BY <1>4, <1>6, <2>1 DEF TxRows
  <2> QED
    BY <1>2, <1>4, <1>6, <2>1, <2>2 DEF TxRows
<1>8. TxEvents'
  <2>1. tx'.log = {[id |-> tx'.id, source |-> 0, for |-> Dispatched']}
    BY <1>1, <1>2, <1>4 DEF Transaction, TxEvents
  <2>2. \A x \in ToSet(tx'.raised) :
          /\ x.id \in tx'.id + 1 .. lastId' /\ x.source = tx'.id
          /\ \A u \in x.for : u \in Turned' /\ tx'.id \notin tx'.done[u]
    <3> TAKE x \in ToSet(tx'.raised)
    <3>1. /\ x.id \in tx.id + 1 .. lastId /\ x.source = tx.id
          /\ \A u \in x.for : u \in Turned /\ tx.id \notin tx.done[u]
      BY <1>1, <1>2 DEF Transaction, TxEvents
    <3>2. Turned \subseteq Tasks
      BY <1>1 DEF Transaction, TxLists, Turned
    <3> QED
      BY <1>0, <1>1, <1>2, <1>4, <1>6, <3>1, <3>2
  <2>3. \A u \in Turned' : tx'.id \in tx'.done[u] \/ \E x \in ToSet(tx'.raised) : u \in x.for
    <3> TAKE u \in Turned'
    <3>1. CASE u = t
      BY <1>2, <1>6, <3>1
    <3>2. CASE u # t
      <4>1. u \in Turned /\ u \in Tasks
        BY <1>1, <1>4, <3>2 DEF Transaction, TxLists, Turned
      <4>2. tx.id \in tx.done[u] \/ \E x \in ToSet(tx.raised) : u \in x.for
        BY <1>1, <4>1 DEF Transaction, TxEvents
      <4> QED
        BY <1>2, <1>6, <3>2, <4>1, <4>2
    <3> QED
      BY <3>1, <3>2
  <2> QED
    BY <2>1, <2>2, <2>3 DEF TxEvents
<1>9. tx'.id \in 1 .. lastId'
  BY <1>0, <1>1, <1>2 DEF Transaction
<1> QED
  BY <1>2, <1>3, <1>4, <1>5, <1>7, <1>8, <1>9 DEF ChannelInv, Transaction

LEMMA ThrowInv ==
  ASSUME ChannelInv, Throw
  PROVE  ChannelInv'
<1>0. Open /\ tx.todo # <<>> /\ UNCHANGED <<registered, order, committed, crashes>>
  BY DEF Throw
<1> PICK t, n : t = Turn /\ n = lastId + 1
  OBVIOUS
<1> PICK row : row = [id |-> n, source |-> tx.id, for |-> {t}]
  OBVIOUS
<1>1. /\ Transaction /\ tx.id \in Nat \ {0} /\ t \in Tasks /\ Tail(tx.todo) \in Lists
      /\ tx.raised \in Seq(EventRec)
      /\ tx.done \in [Tasks -> SUBSET Nat] /\ tx.half \in [Tasks -> SUBSET Nat]
      /\ t \notin Turned /\ tx.done[t] = done[t] /\ tx.id \notin tx.done[t]
      /\ tx.half[t] \subseteq {tx.id} /\ \A u \in Tasks \ {t} : tx.half[u] = {}
  BY <1>0, OpenFacts
<1>2. /\ lastId' = n /\ n = lastId + 1 /\ lastId \in Nat /\ n \in 0 .. MaxIds
      /\ n \in tx.id + 1 .. n /\ tx.id \in 1 .. n
  BY <1>1, ChannelAssumption DEF Throw, ChannelInv, ChannelShape, Transaction
<1>3. row \in EventRec /\ row.id = n /\ row.source = tx.id /\ row.for = {t}
  BY <1>1, <1>2 DEF EventRec
<1>4. /\ tx' \in TxRec /\ tx'.id = tx.id /\ tx'.topic = tx.topic /\ tx'.log = tx.log
      /\ tx'.todo = Tail(tx.todo) /\ tx'.done = tx.done /\ tx'.offset = tx.offset
      /\ tx'.raised = Append(tx.raised, row)
      /\ tx'.half = [tx.half EXCEPT ![t] = @ \ {tx.id}]
  <2>1. /\ [tx.half EXCEPT ![t] = @ \ {tx.id}] \in [Tasks -> SUBSET Nat]
        /\ Append(tx.raised, row) \in Seq(EventRec)
    BY <1>1, <1>3
  <2>2. tx' = [tx EXCEPT !.todo = Tail(tx.todo), !.half = [tx.half EXCEPT ![t] = @ \ {tx.id}],
                         !.raised = Append(tx.raised, row)]
    BY DEF Throw, Threw, ExceptionRow
  <2> QED
    BY <1>1, <2>1, <2>2 DEF Transaction, TxRec
<1>5. ToSet(tx'.raised) = ToSet(tx.raised) \cup {row}
  <2> PICK q \in Seq(EventRec) : q = tx.raised
    BY <1>1
  <2>1. /\ Len(q) \in Nat /\ DOMAIN q = 1 .. Len(q)
        /\ DOMAIN Append(q, row) = 1 .. Len(q) + 1 /\ Append(q, row)[Len(q) + 1] = row
        /\ \A i \in 1 .. Len(q) : Append(q, row)[i] = q[i]
    BY <1>3
  <2>2. \A i \in 1 .. Len(q) + 1 : i \in 1 .. Len(q) \/ i = Len(q) + 1
    BY <2>1
  <2>3. Len(q) + 1 \in 1 .. Len(q) + 1 /\ \A i \in 1 .. Len(q) : i \in 1 .. Len(q) + 1
    BY <2>1
  <2>4. ToSet(Append(q, row)) = ToSet(q) \cup {row}
    <3>1. \A x \in ToSet(Append(q, row)) : x \in ToSet(q) \cup {row}
      BY <2>1, <2>2 DEF ToSet
    <3>2. \A x \in ToSet(q) \cup {row} : x \in ToSet(Append(q, row))
      BY <2>1, <2>3 DEF ToSet
    <3> QED
      BY <3>1, <3>2
  <2> QED
    BY <1>4, <2>4
<1>6. ChannelShape'
  BY <1>0, <1>2 DEF ChannelInv, ChannelShape, committed
<1>7. Known(lastId)'
  <2>1. Known(n)
    BY <1>2, KnownLater DEF ChannelInv
  <2> QED
    BY <1>0, <1>2, <2>1 DEF Known, committed
<1>8. Outcomes'
  BY <1>0, StillTold DEF ChannelInv
<1>9. Dispatched' = Dispatched /\ Turned' = Turned \cup {t} /\ TxLists'
  BY <1>0, <1>4, TurnPasses
<1>10. Known(tx.id - 1)'
  BY <1>0, <1>1, <1>4 DEF Transaction, Known, committed
<1>11. TxRows'
  <2>1. TxRows /\ done' = done /\ offset' = offset
    BY <1>0, <1>1 DEF Transaction, committed
  <2>2. \A u \in Tasks : tx'.half[u] = {}
    BY <1>1, <1>4
  <2> QED
    BY <1>4, <1>9, <2>1, <2>2 DEF TxRows
<1>12. TxEvents'
  <2>1. tx'.log = {[id |-> tx'.id, source |-> 0, for |-> Dispatched']}
    BY <1>1, <1>4, <1>9 DEF Transaction, TxEvents
  <2>2. \A x \in ToSet(tx'.raised) :
          /\ x.id \in tx'.id + 1 .. lastId' /\ x.source = tx'.id
          /\ \A u \in x.for : u \in Turned' /\ tx'.id \notin tx'.done[u]
    <3> TAKE x \in ToSet(tx'.raised)
    <3>1. CASE x = row
      BY <1>1, <1>2, <1>3, <1>4, <1>9, <3>1
    <3>2. CASE x \in ToSet(tx.raised)
      <4>1. /\ x.id \in tx.id + 1 .. lastId /\ x.source = tx.id
            /\ \A u \in x.for : u \in Turned /\ tx.id \notin tx.done[u]
        BY <1>1, <3>2 DEF Transaction, TxEvents
      <4>2. x.id \in tx.id + 1 .. n
        BY <1>1, <1>2, <4>1
      <4> QED
        BY <1>2, <1>4, <1>9, <4>1, <4>2
    <3> QED
      BY <1>5, <3>1, <3>2
  <2>3. \A u \in Turned' : tx'.id \in tx'.done[u] \/ \E x \in ToSet(tx'.raised) : u \in x.for
    BY <1>1, <1>3, <1>4, <1>5, <1>9 DEF Transaction, TxEvents
  <2> QED
    BY <2>1, <2>2, <2>3 DEF TxEvents
<1>13. tx'.id \in 1 .. lastId'
  BY <1>2, <1>4
<1> QED
  BY <1>4, <1>6, <1>7, <1>8, <1>9, <1>10, <1>11, <1>12, <1>13 DEF ChannelInv, Transaction

LEMMA CommitInv ==
  ASSUME ChannelInv, Commit
  PROVE  ChannelInv'
<1> PICK n, new, rows : /\ n = tx.id /\ rows = ToSet(tx.raised)
                        /\ new = [id |-> n, source |-> 0, for |-> Dispatched]
  OBVIOUS
<1>1. Transaction /\ tx.todo = <<>> /\ UNCHANGED <<registered, order, lastId, crashes>> /\ tx' = NoTx
  BY DEF Commit, ChannelInv
<1>2. /\ n \in Nat \ {0} /\ n \in 1 .. lastId /\ lastId \in Nat
      /\ tx.done \in [Tasks -> SUBSET Nat] /\ tx.half \in [Tasks -> SUBSET Nat]
      /\ tx.offset \in [Tasks -> Nat] /\ rows \subseteq EventRec
  <2>1. tx.raised \in Seq(EventRec)
    BY <1>1 DEF Transaction, TxRec
  <2>2. rows \subseteq EventRec
    <3> PICK q \in Seq(EventRec) : q = tx.raised
      BY <2>1
    <3>1. DOMAIN q = 1 .. Len(q) /\ \A i \in 1 .. Len(q) : q[i] \in EventRec
      OBVIOUS
    <3> QED
      BY <3>1 DEF ToSet
  <2> QED
    BY <1>1, <2>2 DEF Transaction, TxRec, ChannelInv, ChannelShape
<1>3. Turned = Dispatched /\ Dispatched \subseteq Tasks
  <2>1. ToSet(tx.todo) = {}
    BY <1>1 DEF ToSet
  <2> QED
    BY <1>1, <2>1 DEF Turned, Transaction, TxLists
<1>4. /\ new \in EventRec /\ new.id = n /\ new.source = 0 /\ new.for = Dispatched
      /\ tx.log = {new}
  BY <1>1, <1>2, <1>3 DEF EventRec, Transaction, TxEvents
<1>5. log' = log \cup {new} \cup rows /\ done' = tx.done /\ half' = tx.half /\ offset' = tx.offset
  BY <1>4 DEF Commit
<1>6. \A t \in Tasks : /\ done'[t] = done[t] \/ (t \in Dispatched /\ done'[t] = done[t] \cup {n})
                       /\ offset'[t] = IF n \in done'[t] THEN n ELSE offset[t]
                       /\ half'[t] = {}
  BY <1>1, <1>3, <1>5 DEF Transaction, TxRows
<1>7. /\ \A e \in log : e.id \in 1 .. n - 1 /\ e.source \in 0 .. e.id - 1
      /\ \A t \in Tasks : /\ done[t] \subseteq 1 .. n - 1 /\ offset[t] \in done[t] \cup {0}
                          /\ \A i \in done[t] : i <= offset[t]
  BY <1>1 DEF Transaction, Known
<1>8. /\ \A x \in rows : /\ x.id \in n + 1 .. lastId /\ x.source = n
                         /\ \A t \in x.for : t \in Dispatched /\ n \notin done'[t]
      /\ \A t \in Dispatched : n \in done'[t] \/ \E x \in rows : t \in x.for
  BY <1>1, <1>3, <1>5 DEF Transaction, TxEvents
<1>9. ChannelShape'
  <2>1. log' \subseteq EventRec
    BY <1>2, <1>4, <1>5 DEF ChannelInv, ChannelShape
  <2>2. half' = [t \in Tasks |-> {}]
    BY <1>2, <1>5, <1>6
  <2> QED
    BY <1>1, <1>2, <1>5, <2>1, <2>2 DEF ChannelInv, ChannelShape
<1>10. Known(lastId)'
  <2>1. ASSUME NEW e \in log' PROVE e.id \in 1 .. lastId /\ e.source \in 0 .. e.id - 1
    <3>1. CASE e \in log
      BY <1>2, <1>7, <3>1
    <3>2. CASE e = new
      BY <1>2, <1>4, <3>2
    <3>3. CASE e \in rows
      BY <1>2, <1>8, <3>3
    <3> QED
      BY <1>5, <2>1, <3>1, <3>2, <3>3
  <2>2. ASSUME NEW t \in Tasks
        PROVE  /\ done'[t] \subseteq 1 .. lastId /\ offset'[t] \in done'[t] \cup {0}
               /\ \A i \in done'[t] : i <= offset'[t]
    <3>1. \A i \in 1 .. n - 1 : i \in 1 .. lastId /\ i <= n /\ i # n
      BY <1>2
    <3>2. CASE done'[t] = done[t]
      <4>1. n \notin done'[t]
        BY <1>7, <3>1, <3>2
      <4> QED
        BY <1>6, <1>7, <3>1, <3>2, <4>1
    <3>3. CASE done'[t] = done[t] \cup {n}
      <4>1. offset'[t] = n
        BY <1>6, <3>3
      <4> QED
        BY <1>2, <1>7, <3>1, <3>3, <4>1
    <3> QED
      BY <1>6, <3>2, <3>3
  <2> QED
    BY <1>1, <2>1, <2>2 DEF Known
<1>11. Outcomes'
  <2> SUFFICES ASSUME NEW e \in log', e.source = 0, NEW t \in e.for
               PROVE  (e.id \in done'[t]) <=> ~(\E x \in log' : x.source = e.id /\ t \in x.for)
    BY DEF Outcomes, Told
  <2>1. CASE e \in log
    <3>1. t \in Tasks
      BY <2>1 DEF ChannelInv, ChannelShape, EventRec
    <3>2. e.id # n /\ e.id # 0
      BY <1>2, <1>7, <2>1
    <3>3. (e.id \in done'[t]) <=> (e.id \in done[t])
      BY <1>6, <3>1, <3>2
    <3>4. (\E x \in log' : x.source = e.id /\ t \in x.for) <=> (\E x \in log : x.source = e.id /\ t \in x.for)
      BY <1>4, <1>5, <1>8, <3>2
    <3>5. (e.id \in done[t]) <=> ~(\E x \in log : x.source = e.id /\ t \in x.for)
      BY <2>1 DEF ChannelInv, Outcomes, Told
    <3> QED
      BY <3>3, <3>4, <3>5
  <2>2. CASE e = new
    <3>1. \A x \in log : x.source # n
      BY <1>2, <1>7
    <3>2. (\E x \in log' : x.source = n /\ t \in x.for) <=> (\E x \in rows : t \in x.for)
      BY <1>2, <1>4, <1>5, <1>8, <3>1
    <3>3. (n \in done'[t]) <=> ~(\E x \in rows : t \in x.for)
      BY <1>4, <1>8, <2>2
    <3> QED
      BY <1>4, <2>2, <3>2, <3>3
  <2>3. CASE e \in rows
    BY <1>2, <1>8, <2>3
  <2> QED
    BY <1>5, <2>1, <2>2, <2>3
<1>12. ~Open'
  BY <1>1 DEF Open, NoTx
<1> QED
  BY <1>9, <1>10, <1>11, <1>12 DEF ChannelInv

LEMMA ChannelStepInv == ChannelInv /\ [ChannelNext]_channelVars => ChannelInv'
<1> SUFFICES ASSUME ChannelInv, [ChannelNext]_channelVars PROVE ChannelInv'
  OBVIOUS
<1>1. CASE UNCHANGED channelVars
  BY <1>1 DEF channelVars, ChannelInv, ChannelShape, Known, Outcomes, Told, Open, Transaction, TxLists,
     TxRows, TxEvents, Turned, Dispatched, Turn
<1>2. ASSUME NEW t \in Tasks, RegisterTask(t) PROVE ChannelInv'
  BY <1>2, RegisterInv
<1>3. ASSUME NEW topic \in Topics, Submit(topic) PROVE ChannelInv'
  BY <1>3, SubmitInv
<1>4. CASE ApplyHalf
  BY <1>4, ApplyHalfInv
<1>5. CASE Accept
  BY <1>5, AcceptInv
<1>6. CASE Throw
  BY <1>6, ThrowInv
<1>7. CASE Commit
  BY <1>7, CommitInv
<1>8. CASE Reject
  BY <1>8, RejectInv
<1>9. CASE Crash
  BY <1>9, CrashInv
<1> QED
  BY <1>1, <1>2, <1>3, <1>4, <1>5, <1>6, <1>7, <1>8, <1>9 DEF ChannelNext

(* The invariant of the channel, inductive: the submit in progress is half  *)
(* of it.                                                                   *)
THEOREM ChannelInvariant == ChannelSpec => []ChannelInv
BY ChannelInitInv, ChannelStepInv, PTL DEF ChannelSpec

LEMMA InvOutcomes == ChannelInv => EveryOutcomeIsRecorded
<1> SUFFICES ASSUME ChannelInv PROVE EveryOutcomeIsRecorded
  OBVIOUS
<1>1. lastId \in Nat /\ registered \in Lists /\ half = [t \in Tasks |-> {}]
  BY ChannelAssumption DEF ChannelInv, ChannelShape
<1>2. \A t \in Tasks : /\ done[t] \subseteq 1 .. lastId /\ offset[t] \in done[t] \cup {0}
                       /\ \A i \in done[t] : i <= offset[t]
  BY DEF ChannelInv, Known
<1>3. done \in [Tasks -> SUBSET (1 .. lastId)] /\ half \in [Tasks -> SUBSET (1 .. lastId)]
  BY <1>1, <1>2 DEF ChannelInv, ChannelShape
<1>4. offset \in [Tasks -> 0 .. lastId]
  <2>1. \A t \in Tasks : offset[t] \in 0 .. lastId
    BY <1>1, <1>2
  <2> QED
    BY <2>1 DEF ChannelInv, ChannelShape
<1>5. \A e \in log : e.id \in 1 .. lastId /\ e.source \in 0 .. e.id - 1 /\ e.for \subseteq Tasks
  BY DEF ChannelInv, ChannelShape, Known, EventRec
<1>6. ToSet(registered) \subseteq Tasks /\ IsInjective(registered)
  BY <1>1, ListFacts DEF ChannelInv, ChannelShape
<1>7. ChannelTypeOK
  BY <1>3, <1>4, <1>5, <1>6 DEF ChannelTypeOK, ChannelInv, ChannelShape
<1>8. \A e \in log : e.source = 0 => \A t \in e.for :
        (e.id \in done[t]) # (\E x \in log : x.source = e.id /\ t \in x.for)
  BY DEF ChannelInv, Outcomes, Told
<1> QED
  BY <1>2, <1>7, <1>8 DEF EveryOutcomeIsRecorded

LEMMA InvDependencies == ChannelInv => DependenciesFirst
<1> SUFFICES ASSUME ChannelInv, Open, NEW t \in Tasks, tx.id \in tx.done[t] \cup tx.half[t]
             PROVE  ToSet(tx.todo) \cap RefersTo(t) = {}
  BY DEF DependenciesFirst
<1>1. Transaction /\ tx.id \in Nat
  BY DEF ChannelInv, Transaction, TxRec
<1>2. tx.id \notin done[t]
  BY <1>1 DEF Transaction, Known
<1>3. t \in Turned \/ (tx.todo # <<>> /\ t = Turn)
  BY <1>1, <1>2 DEF Transaction, TxRows
<1>4. CASE t \in Turned
  BY <1>1, <1>4 DEF Transaction, TxLists
<1>5. CASE tx.todo # <<>> /\ t = Turn
  BY <1>5, OpenFacts
<1> QED
  BY <1>3, <1>4, <1>5

LEMMA InvHalf == ChannelInv => NoHalfProjection
<1> SUFFICES ASSUME ChannelInv PROVE NoHalfProjection
  OBVIOUS
<1>1. \A t \in Tasks : half[t] = {}
  BY DEF ChannelInv, ChannelShape
<1>2. Open => \A t \in Tasks : tx.half[t] # {} => tx.todo # <<>> /\ t = Turn
  BY DEF ChannelInv, Transaction, TxRows
<1> QED
  BY <1>1, <1>2 DEF NoHalfProjection

(* Every event and every projector it was dispatched to: either the         *)
(* projection has the event, or a row of the same transaction says that it  *)
(* threw, never both, whatever throws, fails or crashes, and for any tasks  *)
(* (channel.ts: "Explicit Discarding").                                     *)
THEOREM OutcomesAreRecorded == ChannelSpec => []EveryOutcomeIsRecorded
BY ChannelInvariant, InvOutcomes, PTL

(* No projector is given an event before those it refers to, directly or    *)
(* not, have had their turn, whatever the order in which the process        *)
(* registered them (projector-runner.ts, visit).                            *)
THEOREM ReferencesGoFirst == ChannelSpec => []DependenciesFirst
BY ChannelInvariant, InvDependencies, PTL

(* What a projector wrote before it threw is never committed, nor there     *)
(* when the next has its turn (channel.ts, ROLLBACK TO).                    *)
THEOREM HalvesAreUndone == ChannelSpec => []NoHalfProjection
BY ChannelInvariant, InvHalf, PTL
=============================================================================
