------------------------------- MODULE Serving ------------------------------
(***************************************************************************)
(* Which daemon serves a state directory, and how a client finds or starts *)
(* one.                                                                    *)
(*                                                                         *)
(* A daemon holds the serving lock from before it looks at anything until  *)
(* its process ends; socket, pid file, the record in the lock file and the *)
(* generation stamp say who it is.  A client connects, asks a daemon older *)
(* than itself to make way, stops one that has not for ten minutes, sweeps *)
(* up what the stopped one left, and starts a daemon of its own build when *)
(* nobody serves.  Whether anybody does it learns by taking the lock for a *)
(* moment.                                                                 *)
(*                                                                         *)
(* Abstracted: a build is its rank; a wait ends when what it waits for has *)
(* happened or when nothing is left that could bring it about; whether the *)
(* asker is a daemon's only client, and whether its patience is over, may  *)
(* be either.  Left out: daemons from before the lock or the request.      *)
(***************************************************************************)
EXTENDS Naturals, FiniteSets

CONSTANTS
    Launchers,      \* clients that call connect_or_start
    Build,          \* the rank of the build each runs
    Daemons,        \* process ids; the kernel gives one out again
    Nobody,         \* no process
    MaxCalls,       \* BOUND: calls each client makes
    MaxKills,       \* BOUND: daemons killed
    Faults          \* a subset of KnownFaults

KnownFaults == {"two ask at once", "swept late", "stamped late", "killed unrecorded",
                "stopped for another", "signalled late", "gone before seen"}

ASSUME LaunchersAssumption ==
    /\ Build \in [Launchers -> Nat \ {0}]
    /\ Launchers \cap Daemons = {}
    /\ Nobody \notin Launchers \cup Daemons
ASSUME BoundsAssumption == MaxCalls \in [Launchers -> Nat] /\ MaxKills \in Nat
ASSUME FaultsAssumption == Faults \subseteq KnownFaults

VARIABLES
    lock,       \* who holds the serving lock
    record,     \* the daemon the lock file names
    socket,     \* the daemon that bound the socket's path
    pid,        \* the daemon the pid file names
    stamp,      \* the build in the generation file, 0 for none
    noted,      \* the build the handover file says is being asked, 0 for none
    daemon,     \* where each daemon is
    rank,       \* the build each runs
    retiring,   \* those that stand down when they find a quiet moment
    pc, conn,   \* what each client does, and the daemon it is connected to
    why,        \* what has it stop a daemon, or wait for one to stop
    mine,       \* the daemon it started
    settled,    \* the stamp it has already waited out, 0 for none
    calls, kills,
    \* What really happened, which no process knows:
    signalled,  \* processes that were signalled and are none of this system's
    retiredBy,  \* the lowest build that had each serving daemon stand down
    misjudged   \* builds, and daemons they took for the one before them

fileVars  == <<record, socket, pid, stamp, noted>>
procVars  == <<daemon, rank, retiring>>
clientVars == <<conn, why, mine, settled>>
boundVars == <<calls, kills>>
ghostVars == <<signalled, retiredBy, misjudged>>
vars == <<lock, fileVars, procVars, pc, clientVars, boundVars, ghostVars>>

Stages == {"gone", "starting", "locked", "bound", "numbered", "serving",
           "standing down", "ending", "zombie", "stranger"}
Sites == {"start", "stop", "wait"}
Reasons == {"ready", "broken", "overdue"}
Points == {"out", "failed", "connect", "settle", "ask", "deferred", "broken",
           "kill", "sweep", "spawn", "await", "served"}
          \cup Sites

Listening(d) == d # Nobody /\ daemon[d] \in {"bound", "numbered", "serving", "standing down"}
\* kill(pid, 0), which a process not yet reaped answers and a stranger does too.
Alive(d) == d # Nobody /\ daemon[d] # "gone"
Goto(l, where) == pc' = [pc EXCEPT ![l] = where]

Strangers == {d \in Daemons : daemon[d] = "stranger"}
\* The pid file is only believed when the lock file does not say the same.
PidFileAlone == Alive(pid)
PidFileStillNamesADaemon == Alive(pid) /\ record # pid

(***************************************************************************)
(* A daemon.                                                               *)
(***************************************************************************)
Become(d, stage) == daemon' = [daemon EXCEPT ![d] = stage]
\* However the process ends, the kernel gives up its lock; its files stay.
End(d) ==
    /\ Become(d, "zombie")
    /\ lock' = IF lock = d THEN Nobody ELSE lock
    /\ retiring' = retiring \ {d}

AboutToStop(l) == pc[l] \in {"deferred", "broken", "stop", "kill"}
HalfStarted(d) == d \in Daemons /\ daemon[d] \in {"locked", "bound", "numbered"}

TakeLockOrGoOn(d) ==
    /\ daemon[d] = "starting"
    /\ lock' = (IF lock = Nobody THEN d ELSE lock) /\ Become(d, "locked")
    /\ UNCHANGED <<retiring, fileVars, rank, pc, clientVars, boundVars, ghostVars>>
\* A client that only asks holds the lock for a moment, so it is tried again;
\* a daemon holds it for good.
TakeLock(d) ==
    /\ daemon[d] = "starting"
    /\ "swept late" \in Faults \/ \A l \in Launchers : pc[l] # "sweep"
    /\ "stopped for another" \in Faults \/ \A l \in Launchers : ~AboutToStop(l)
    /\ IF lock = Nobody
         THEN lock' = d /\ Become(d, "locked") /\ UNCHANGED retiring
         ELSE End(d)
    /\ UNCHANGED <<fileVars, rank, pc, clientVars, boundVars, ghostVars>>

BindAFreshPath(d) ==
    /\ daemon[d] = "locked"
    /\ IF socket # Nobody
         THEN End(d) /\ UNCHANGED socket
         ELSE Become(d, "bound") /\ socket' = d /\ UNCHANGED <<lock, retiring>>
    /\ UNCHANGED <<record, pid, stamp, noted, rank, pc, clientVars, boundVars, ghostVars>>
\* Whatever is there is stale, unless somebody answers or the pid file names a
\* daemon that did not know of the lock.
Bind(d) ==
    /\ daemon[d] = "locked"
    /\ IF socket # Nobody /\ (Listening(socket) \/ PidFileStillNamesADaemon)
         THEN End(d) /\ UNCHANGED socket
         ELSE Become(d, "bound") /\ socket' = d /\ UNCHANGED <<lock, retiring>>
    /\ UNCHANGED <<record, pid, stamp, noted, rank, pc, clientVars, boundVars, ghostVars>>

WritePid(d) ==
    /\ daemon[d] = "bound"
    /\ Become(d, "numbered") /\ pid' = d
    /\ UNCHANGED <<lock, record, socket, stamp, noted, rank, retiring, pc, clientVars,
                   boundVars, ghostVars>>

\* The record, the stamp, and the ask that has been answered by this.
StartServing(d) ==
    /\ daemon[d] = "numbered"
    /\ Become(d, "serving") /\ record' = d /\ stamp' = rank[d] /\ noted' = 0
    /\ UNCHANGED <<lock, socket, pid, rank, retiring, pc, clientVars, boundVars, ghostVars>>

\* The retirement watcher's moment has come.
Retire(d) ==
    /\ daemon[d] = "serving" /\ d \in retiring
    /\ Become(d, "standing down")
    /\ UNCHANGED <<lock, fileVars, rank, retiring, pc, clientVars, boundVars, ghostVars>>

\* SocketGuard goes before the lock does. A client that waits for a daemon looks
\* every twentieth of a second, and no daemon comes and goes within that.
DropGuard(d) ==
    /\ daemon[d] = "standing down"
    /\ "gone before seen" \in Faults \/ \A l \in Launchers : pc[l] # "await"
    /\ Become(d, "ending") /\ socket' = Nobody /\ pid' = Nobody
    /\ UNCHANGED <<lock, record, stamp, noted, rank, retiring, pc, clientVars, boundVars,
                   ghostVars>>

Exit(d) ==
    /\ daemon[d] = "ending"
    /\ End(d)
    /\ UNCHANGED <<fileVars, rank, pc, clientVars, boundVars, ghostVars>>

Kill(d) ==
    /\ kills < MaxKills /\ kills' = kills + 1
    /\ daemon[d] \notin {"gone", "zombie", "stranger"}
    /\ daemon[d] = "numbered" => "killed unrecorded" \in Faults
    /\ End(d)
    /\ UNCHANGED <<fileVars, rank, pc, clientVars, calls, ghostVars>>

\* Whoever started it ends, and the number may go to a stranger for good. Where
\* the pid file does not have the number, that is all one.
Reap(d) ==
    /\ \/ daemon[d] = "zombie" /\ Become(d, "gone")
       \/ /\ daemon[d] = "zombie" /\ pid = d
          /\ "signalled late" \in Faults \/ \A l \in Launchers : pc[l] # "kill"
          /\ Become(d, "stranger")
       \/ daemon[d] = "stranger" /\ pid # d /\ Become(d, "gone")
    /\ rank' = [rank EXCEPT ![d] = 0] /\ retiredBy' = [retiredBy EXCEPT ![d] = 0]
    /\ misjudged' = {judged \in misjudged : judged.daemon # d}
    /\ UNCHANGED <<lock, fileVars, retiring, pc, clientVars, boundVars, signalled>>

(***************************************************************************)
(* A client: connect_or_start.                                             *)
(***************************************************************************)
Call(l) ==
    /\ pc[l] \in {"out", "served"} /\ calls[l] < MaxCalls[l]
    /\ calls' = [calls EXCEPT ![l] = @ + 1]
    /\ Goto(l, "connect")
    /\ UNCHANGED <<lock, fileVars, procVars, clientVars, kills, ghostVars>>

\* A dashboard's round and an agent's tool both call again.
CallAgain(l) ==
    /\ pc[l] = "failed"
    /\ Goto(l, "connect")
    /\ UNCHANGED <<lock, fileVars, procVars, clientVars, boundVars, ghostVars>>

ReadsAnyOther(l) == stamp # Build[l]
ReadsAsOlder(l) == stamp = 0 \/ stamp < Build[l]

\* A stamp that says this build or a better one settles it, and the ask.
Believe(l, otherwise) ==
    /\ Goto(l, IF ReadsAsOlder(l) THEN otherwise ELSE "served")
    /\ noted' = IF ReadsAsOlder(l) THEN noted ELSE 0

\* The stamp this process has already waited out is believed at once, whichever
\* daemon it is connected to: a daemon that has bound and not stamped is taken for
\* the one before it.
WaitedOut(l) == ReadsAsOlder(l) /\ stamp # 0 /\ settled[l] = stamp
Judgement(l) == [build |-> Build[l], daemon |-> socket]

Connect(l) ==
    /\ pc[l] = "connect"
    /\ IF Listening(socket)
         THEN /\ Believe(l, IF WaitedOut(l) THEN "ask" ELSE "settle")
              /\ conn' = [conn EXCEPT ![l] = socket]
              /\ misjudged' = IF WaitedOut(l) /\ HalfStarted(socket)
                                THEN misjudged \cup {Judgement(l)} ELSE misjudged
         ELSE Goto(l, "start") /\ UNCHANGED <<noted, conn, misjudged>>
    /\ UNCHANGED <<lock, record, socket, pid, stamp, procVars, why, mine, settled, boundVars,
                   signalled, retiredBy>>

\* A daemon binds before it stamps: a tenth of a second later it should have.
Settle(l) ==
    /\ pc[l] = "settle"
    /\ "stamped late" \in Faults \/ daemon[conn[l]] \notin {"bound", "numbered"}
    /\ Believe(l, "ask")
    /\ settled' = IF ReadsAsOlder(l) /\ stamp # 0 THEN [settled EXCEPT ![l] = stamp] ELSE settled
    /\ UNCHANGED <<lock, record, socket, pid, stamp, procVars, conn, why, mine, boundVars,
                   ghostVars>>

Blame(d, l) ==
    retiredBy' = [retiredBy EXCEPT ![d] = IF @ = 0 \/ Build[l] < @ THEN Build[l] ELSE @]

\* A daemon with no other client drains at once, another says later and watches
\* for the moment; one that is draining says later or has hung up.
Ask(l) ==
    LET d == conn[l]
    IN /\ pc[l] = "ask"
       /\ \/ /\ daemon[d] = "serving"
             /\ Become(d, "standing down") /\ Blame(d, l)
             /\ Goto(l, "wait") /\ why' = [why EXCEPT ![l] = "ready"]
             /\ UNCHANGED retiring
          \/ /\ daemon[d] = "serving"
             /\ retiring' = retiring \cup {d} /\ Blame(d, l)
             /\ Goto(l, "deferred") /\ UNCHANGED <<daemon, why>>
          \/ /\ daemon[d] = "standing down"
             /\ Goto(l, "deferred") /\ UNCHANGED <<daemon, retiring, why, retiredBy>>
          \/ /\ daemon[d] \in {"standing down", "ending", "zombie", "gone", "stranger"}
             /\ "stopped for another" \in Faults \/ ~HalfStarted(lock)
             /\ Goto(l, "broken") /\ UNCHANGED <<daemon, retiring, why, retiredBy>>
    /\ conn' = [conn EXCEPT ![l] = Nobody]
    /\ UNCHANGED <<lock, fileVars, rank, mine, settled, boundVars, signalled, misjudged>>

\* The first ask of this generation is written down; ten minutes after it a build
\* that outranks the generation stops waiting. Until then the old one will do.
Deferred(l) ==
    /\ pc[l] = "deferred"
    /\ \/ /\ Goto(l, "served")
          /\ noted' = IF ReadsAsOlder(l) THEN stamp ELSE noted
          /\ UNCHANGED why
       \/ /\ stamp # 0 /\ ReadsAsOlder(l) /\ noted = stamp
          /\ Goto(l, "stop") /\ why' = [why EXCEPT ![l] = "overdue"]
          /\ UNCHANGED noted
    /\ UNCHANGED <<lock, record, socket, pid, stamp, procVars, conn, mine, settled, boundVars,
                   ghostVars>>

Broken(l) ==
    /\ pc[l] = "broken"
    /\ IF Listening(socket)
         THEN Goto(l, "served") /\ UNCHANGED why
         ELSE Goto(l, "stop") /\ why' = [why EXCEPT ![l] = "broken"]
    /\ UNCHANGED <<lock, fileVars, procVars, conn, mine, settled, boundVars, ghostVars>>

\* The daemon to be stopped has not gone. Where it had agreed to go, that is an
\* error; where its patience had ended, the old daemon will do; where it had hung
\* up, its place may be free.
GiveUp(l) ==
    /\ Goto(l, CASE why[l] = "ready" -> "failed"
               [] why[l] = "overdue" -> IF Listening(socket) THEN "served" ELSE "start"
               [] why[l] = "broken" -> "start")
    /\ noted' = IF why[l] = "broken" THEN 0 ELSE noted
    /\ why' = [why EXCEPT ![l] = "broken"]

\* a_daemon_is_serving: a daemon has the lock, or it is free, and taken for the
\* moment in which the pid file is looked at; two that ask at once see each other.
ADaemonIsServing(l) ==
    \/ lock # Nobody \/ PidFileStillNamesADaemon
    \/ "two ask at once" \in Faults /\ \E k \in Launchers \ {l} : pc[k] \in Sites

AskTheLock(l) ==
    /\ \/ pc[l] = "start" /\ Goto(l, IF ADaemonIsServing(l) THEN "failed" ELSE "spawn")
       \/ pc[l] = "stop" /\ Goto(l, IF ADaemonIsServing(l) THEN "kill" ELSE "sweep")
       \/ pc[l] = "wait" /\ ~ADaemonIsServing(l) /\ Goto(l, "sweep")
    /\ UNCHANGED <<lock, fileVars, procVars, clientVars, boundVars, ghostVars>>

\* SIGTERM to whomever the pid file names: nobody, and that is an error; a
\* daemon that has not yet put up its handlers dies of it.
Signal(l) ==
    /\ pc[l] = "kill"
    /\ IF Alive(pid)
         THEN /\ Goto(l, "wait")
              /\ signalled' = signalled \cup ({pid} \cap Strangers)
              /\ \/ /\ daemon[pid] = "serving"
                    /\ Become(pid, "standing down") /\ Blame(pid, l)
                    /\ UNCHANGED <<lock, retiring>>
                 \/ /\ daemon[pid] \in {"numbered", "serving"}
                    /\ End(pid) /\ Blame(pid, l)
                 \/ /\ daemon[pid] \notin {"numbered", "serving"}
                    /\ UNCHANGED <<lock, daemon, retiring, retiredBy>>
              /\ UNCHANGED <<noted, why, misjudged>>
         ELSE GiveUp(l) /\ UNCHANGED <<lock, daemon, retiring, ghostVars>>
    /\ UNCHANGED <<record, socket, pid, stamp, rank, conn, mine, settled, boundVars>>

\* A daemon that takes its time is not waited for.
GiveUpWaiting(l) ==
    /\ pc[l] = "wait" /\ ADaemonIsServing(l)
    /\ GiveUp(l)
    /\ UNCHANGED <<lock, record, socket, pid, stamp, procVars, conn, mine, settled, boundVars,
                   ghostVars>>

\* What the stopped daemon left is removed; by now it may be another's.
Sweep(l) ==
    /\ pc[l] = "sweep"
    /\ socket' = Nobody /\ pid' = Nobody /\ noted' = 0
    /\ Goto(l, "start") /\ why' = [why EXCEPT ![l] = "broken"]
    /\ UNCHANGED <<lock, record, stamp, procVars, conn, mine, settled, boundVars, ghostVars>>

\* A number nothing refers to: which of them it is makes no difference.
Unused(d) ==
    /\ daemon[d] = "gone" /\ d \notin {record, socket, pid} \cup signalled
    /\ \A l \in Launchers : d \notin {conn[l], mine[l]}

Spawn(l) ==
    /\ pc[l] = "spawn"
    /\ \E d \in Daemons : Unused(d)
    /\ LET d == CHOOSE d \in Daemons : Unused(d)
       IN /\ Become(d, "starting")
          /\ rank' = [rank EXCEPT ![d] = Build[l]]
          /\ mine' = [mine EXCEPT ![l] = d]
    /\ Goto(l, "await")
    /\ UNCHANGED <<lock, fileVars, retiring, conn, why, settled, boundVars, ghostVars>>

\* Any daemon will do, and none has come when the one started here is gone.
Await(l) ==
    /\ pc[l] = "await"
    /\ \/ Listening(socket) /\ Goto(l, "served")
       \/ ~Listening(socket) /\ daemon[mine[l]] \in {"zombie", "gone", "stranger"} /\ Goto(l, "failed")
    /\ mine' = [mine EXCEPT ![l] = Nobody]
    /\ UNCHANGED <<lock, fileVars, procVars, conn, why, settled, boundVars, ghostVars>>

Init ==
    /\ lock = Nobody /\ record = Nobody /\ socket = Nobody /\ pid = Nobody
    /\ stamp = 0 /\ noted = 0
    /\ daemon = [d \in Daemons |-> "gone"] /\ rank = [d \in Daemons |-> 0]
    /\ retiring = {}
    /\ pc = [l \in Launchers |-> "out"] /\ why = [l \in Launchers |-> "broken"]
    /\ conn = [l \in Launchers |-> Nobody] /\ mine = [l \in Launchers |-> Nobody]
    /\ settled = [l \in Launchers |-> 0]
    /\ calls = [l \in Launchers |-> 0] /\ kills = 0
    /\ signalled = {} /\ retiredBy = [d \in Daemons |-> 0] /\ misjudged = {}

DaemonStep(d) == \/ TakeLock(d) \/ Bind(d) \/ WritePid(d) \/ StartServing(d)
                 \/ Retire(d) \/ DropGuard(d) \/ Exit(d) \/ Reap(d)
ClientStep(l) == \/ CallAgain(l) \/ Connect(l) \/ Settle(l) \/ Ask(l)
                 \/ Deferred(l) \/ Broken(l)
                 \/ AskTheLock(l) \/ Signal(l) \/ GiveUpWaiting(l) \/ Sweep(l)
                 \/ Spawn(l) \/ Await(l)

Next ==
    \/ \E d \in Daemons : DaemonStep(d) \/ Kill(d)
    \/ \E l \in Launchers : Call(l) \/ ClientStep(l)

Spec == Init /\ [][Next]_vars

\* Processes run, the accept loop looks up five times a second, the watcher
\* stands down after five minutes at most, and a failed call is made again.
Fairness ==
    /\ \A d \in Daemons : WF_vars(DaemonStep(d))
    /\ \A l \in Launchers : WF_vars(ClientStep(l))
FairSpec == Spec /\ Fairness

(***************************************************************************)
(* What must hold.                                                         *)
(***************************************************************************)
Process == Daemons \cup {Nobody}
BuildsOrNone == {Build[l] : l \in Launchers} \cup {0}

\* Everything is of its type, one process at most has the lock for good, and
\* only a daemon that is up means to stand down.
TypeOK ==
    /\ lock \in Process
    /\ {record, socket, pid} \subseteq Process
    /\ {stamp, noted} \subseteq BuildsOrNone
    /\ daemon \in [Daemons -> Stages] /\ rank \in [Daemons -> BuildsOrNone]
    /\ retiring \subseteq {d \in Daemons : daemon[d] \in {"serving", "standing down", "ending"}}
    /\ pc \in [Launchers -> Points] /\ why \in [Launchers -> Reasons]
    /\ conn \in [Launchers -> Process] /\ mine \in [Launchers -> Process]
    /\ calls \in [Launchers -> Nat] /\ kills \in 0 .. MaxKills
    /\ \A l \in Launchers : calls[l] <= MaxCalls[l]
    /\ settled \in [Launchers -> BuildsOrNone]
    /\ signalled \subseteq Daemons /\ retiredBy \in [Daemons -> BuildsOrNone]
    /\ misjudged \subseteq [build : BuildsOrNone, daemon : Daemons]

\* A daemon that serves holds the lock, and the socket's path, the pid file, the
\* record and the stamp are all its own, whatever other daemons that were
\* started, killed, or told to go leave behind and sweep up.
FilesAreItsOwn ==
    \A d \in Daemons : daemon[d] = "serving" =>
        lock = d /\ socket = d /\ pid = d /\ record = d /\ stamp = rank[d]

\* A daemon that died leaves its number in the pid file, and nobody who was given
\* that number since is signalled for it.
StrangersLeftAlone == signalled = {}

\* Who had a daemon stand down outranks it, so two builds never take turns, but
\* for one case: a process that had waited out the stamp of the daemon before, and
\* reached this one between its bind and its stamp (daemon.rs:8697-8703).
RetiredByItsBetters ==
    \A d \in Daemons :
        \/ retiredBy[d] = 0 \/ retiredBy[d] > rank[d]
        \/ [build |-> retiredBy[d], daemon |-> d] \in misjudged

\* "Whether to ask the daemon already running to make way for this build. Never
\* for one that outranks it", and equal rank does not hand over
\* (daemon.rs:8775-8787).
NeverForItsBetters == \A d \in Daemons : retiredBy[d] = 0 \/ retiredBy[d] > rank[d]

\* A client that calls is served, however often it has to call, unless it is
\* the daemons that keep being killed.
EveryoneIsServed == \A l \in Launchers : pc[l] = "connect" ~> pc[l] = "served"
=============================================================================
