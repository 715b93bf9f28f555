---------------------------- MODULE ServingProofs ---------------------------
(***************************************************************************)
(* Proofs about Serving, for any clients, builds and numbers of processes, *)
(* and, in the second half, about Revival.                                 *)
(*                                                                         *)
(* Everything rests on the lock.  Who is past taking it holds it, so that  *)
(* of the daemons at work there is one; each stage of its start adds a     *)
(* file that is then its own.  A client that sweeps found the lock free,   *)
(* and one about to stop a daemon was answered by it: what the two do fits *)
(* the daemon they mean as long as no other takes the lock in between.     *)
(***************************************************************************)
EXTENDS Serving, Revival, TLAPS

Half == {"locked", "bound", "numbered"}
Up   == Half \cup {"serving", "standing down", "ending"}

\* The lock is held by whoever is past taking it, and what it has put into its
\* files so far is still there.
LockInv ==
    /\ \A d \in Daemons : daemon[d] \in Up <=> lock = d
    /\ \A d \in Daemons :
          /\ daemon[d] \in {"bound", "numbered", "serving", "standing down"} => socket = d
          /\ daemon[d] \in {"numbered", "serving", "standing down"} => pid = d
          /\ daemon[d] = "serving" => record = d /\ stamp = rank[d]
          /\ daemon[d] = "ending" => pid = Nobody
    /\ \A l \in Launchers : pc[l] = "sweep" => lock = Nobody

\* The daemon was taken for the one before it.
Judged(l, d) == [build |-> Build[l], daemon |-> d] \in misjudged

\* A daemon a client asks is older than the client, if it still serves, or it was
\* taken for the one before it.
AskInv ==
    /\ \A d \in Daemons :
          /\ daemon[d] \in Up \cup {"starting"} => rank[d] \in Nat \ {0}
          /\ daemon[d] = "gone" => retiredBy[d] = 0
    /\ \A l \in Launchers :
          /\ pc[l] \in {"settle", "ask"} =>
                conn[l] \in Daemons /\ daemon[conn[l]] \notin {"starting", "locked"}
          /\ pc[l] = "ask" /\ daemon[conn[l]] \in Half \cup {"serving"} =>
                rank[conn[l]] < Build[l] \/ Judged(l, conn[l])

\* The one a client is about to stop is older, and no other is on its way.
StopInv ==
    /\ \A l \in Launchers : AboutToStop(l) => \A d \in Daemons : daemon[d] \notin Half
    /\ \A l \in Launchers : pc[l] \in {"stop", "kill"} =>
          \A d \in Daemons : daemon[d] = "serving" => rank[d] < Build[l]
    /\ RetiredByItsBetters

\* The pid file says what the lock file does, but for a daemon that is about to
\* write there; and while a client means to send a signal, the file does not
\* name a stranger.
PidInv ==
    /\ pid # Nobody => record = pid \/ daemon[pid] = "numbered"
    /\ \A l \in Launchers : pc[l] = "kill" => pid \notin Strangers
    /\ StrangersLeftAlone

-----------------------------------------------------------------------------
\* Every variable is of its type at first.
LEMMA TypeInitially == Init => TypeOK
BY LaunchersAssumption, BoundsAssumption
   DEF Init, TypeOK, Process, BuildsOrNone, Stages, Points, Sites, Reasons

\* A build that is written down anywhere is a client's.
LEMMA Builds == \A l \in Launchers : Build[l] \in BuildsOrNone /\ Build[l] \in Nat \ {0}
BY LaunchersAssumption DEF BuildsOrNone

\* A client that is asking, or about to, has somebody to ask.
ConnInv == \A l \in Launchers : pc[l] \in {"settle", "ask"} => conn[l] \in Daemons

\* The types by what they are of: files, processes, clients, bounds.
FileOK ==
    /\ lock \in Process /\ record \in Process /\ socket \in Process /\ pid \in Process
    /\ stamp \in BuildsOrNone /\ noted \in BuildsOrNone
ProcOK ==
    /\ daemon \in [Daemons -> Stages] /\ rank \in [Daemons -> BuildsOrNone]
    /\ retiring \subseteq {d \in Daemons : daemon[d] \in {"serving", "standing down", "ending"}}
    /\ signalled \subseteq Daemons /\ retiredBy \in [Daemons -> BuildsOrNone]
    /\ misjudged \subseteq [build : BuildsOrNone, daemon : Daemons]
ClientOK ==
    /\ pc \in [Launchers -> Points] /\ why \in [Launchers -> Reasons]
    /\ conn \in [Launchers -> Process] /\ mine \in [Launchers -> Process]
    /\ settled \in [Launchers -> BuildsOrNone]
BoundOK ==
    /\ calls \in [Launchers -> Nat] /\ kills \in 0 .. MaxKills
    /\ \A l \in Launchers : calls[l] <= MaxCalls[l]

LEMMA Parts == TypeOK <=> FileOK /\ ProcOK /\ ClientOK /\ BoundOK
BY DEF TypeOK, FileOK, ProcOK, ClientOK, BoundOK

LEMMA FileStep ==
    ASSUME FileOK, ProcOK, [Next]_vars
    PROVE  FileOK'
<1> USE DEF fileVars, procVars, clientVars, boundVars, ghostVars, Process, Become, Goto
<1>0. 0 \in BuildsOrNone
  BY DEF BuildsOrNone
<1>1. ASSUME NEW d \in Daemons,
             TakeLock(d) \/ Bind(d) \/ WritePid(d) \/ Retire(d) \/ DropGuard(d) \/ Exit(d)
             \/ Reap(d) \/ Kill(d)
      PROVE  FileOK'
  BY <1>1 DEF TakeLock, Bind, WritePid, Retire, DropGuard, Exit, Reap, Kill, End, FileOK
<1>2. ASSUME NEW d \in Daemons, StartServing(d) PROVE FileOK'
  <2>1. rank[d] \in BuildsOrNone
    BY DEF ProcOK
  <2> QED BY <1>0, <1>2, <2>1 DEF StartServing, FileOK
<1>3. ASSUME NEW l \in Launchers, Call(l) \/ CallAgain(l) \/ Ask(l) \/ Broken(l)
             \/ AskTheLock(l) \/ Spawn(l) \/ Await(l)
      PROVE  FileOK'
  BY <1>3 DEF Call, CallAgain, Ask, Broken, AskTheLock, Spawn, Await, FileOK
<1>4. ASSUME NEW l \in Launchers, Connect(l) \/ Settle(l) \/ Deferred(l)
             \/ GiveUpWaiting(l) \/ Sweep(l)
      PROVE  FileOK'
  BY <1>0, <1>4 DEF Connect, Settle, Believe, Deferred, GiveUpWaiting, GiveUp, Sweep, FileOK
<1>5. ASSUME NEW l \in Launchers, Signal(l) PROVE FileOK'
  BY <1>0, <1>5 DEF Signal, GiveUp, End, FileOK
<1>6. CASE UNCHANGED vars
  BY <1>6 DEF vars, FileOK
<1> QED
  BY <1>1, <1>2, <1>3, <1>4, <1>5, <1>6 DEF Next, DaemonStep, ClientStep

LEMMA ProcStep ==
    ASSUME FileOK, ProcOK, ConnInv, [Next]_vars
    PROVE  ProcOK'
<1> USE DEF fileVars, procVars, clientVars, boundVars, ghostVars, Process, Become, Goto
<1>0. 0 \in BuildsOrNone
  BY DEF BuildsOrNone
<1>1. ASSUME NEW d \in Daemons,
             TakeLock(d) \/ Bind(d) \/ Exit(d) \/ Kill(d)
      PROVE  ProcOK'
  BY <1>1 DEF TakeLock, Bind, Exit, Kill, End, ProcOK, Stages
<1>2. ASSUME NEW d \in Daemons,
             WritePid(d) \/ StartServing(d) \/ Retire(d) \/ DropGuard(d)
      PROVE  ProcOK'
  BY <1>2 DEF WritePid, StartServing, Retire, DropGuard, ProcOK, Stages
<1>3. ASSUME NEW d \in Daemons, Reap(d) PROVE ProcOK'
  <2>1. daemon' \in [Daemons -> Stages] /\ rank' \in [Daemons -> BuildsOrNone]
        /\ retiredBy' \in [Daemons -> BuildsOrNone]
    BY <1>0, <1>3 DEF Reap, ProcOK, Stages
  <2>2. retiring' \subseteq {b \in Daemons : daemon'[b] \in {"serving", "standing down", "ending"}}
    BY <1>3 DEF Reap, ProcOK
  <2>3. misjudged' \subseteq misjudged
    BY <1>3 DEF Reap
  <2> QED BY <1>3, <2>1, <2>2, <2>3 DEF Reap, ProcOK
<1>4. CASE UNCHANGED <<procVars, ghostVars>>
  BY <1>4 DEF ProcOK
<1>5. ASSUME NEW l \in Launchers, Call(l) \/ CallAgain(l) \/ Broken(l) \/ AskTheLock(l)
             \/ Await(l) \/ Settle(l) \/ Deferred(l) \/ GiveUpWaiting(l) \/ Sweep(l)
      PROVE  ProcOK'
  BY <1>4, <1>5 DEF Call, CallAgain, Broken, AskTheLock, Await, Settle, Deferred,
                    GiveUpWaiting, Sweep
<1>11. ASSUME NEW l \in Launchers, Connect(l) PROVE ProcOK'
  <2>1. \/ misjudged' = misjudged
        \/ Listening(socket) /\ misjudged' = misjudged \cup {Judgement(l)}
    BY <1>11 DEF Connect
  <2>2. Listening(socket) => Judgement(l) \in [build : BuildsOrNone, daemon : Daemons]
    BY Builds DEF Judgement, Listening, FileOK
  <2>3. UNCHANGED <<procVars, signalled, retiredBy>>
    BY <1>11 DEF Connect
  <2> QED BY <2>1, <2>2, <2>3 DEF ProcOK
<1>6. ASSUME NEW l \in Launchers, NEW d \in Daemons, Blame(d, l)
      PROVE  retiredBy' \in [Daemons -> BuildsOrNone]
  BY <1>6, Builds DEF Blame, ProcOK
<1>7. ASSUME NEW l \in Launchers, Ask(l) PROVE ProcOK'
  <2>1. conn[l] \in Daemons
    BY <1>7 DEF Ask, ConnInv
  <2>2. retiredBy' \in [Daemons -> BuildsOrNone]
    BY <1>6, <1>7, <2>1 DEF Ask, ProcOK
  <2>3. daemon' \in [Daemons -> Stages]
    BY <1>7 DEF Ask, ProcOK, Stages
  <2>4. retiring' \subseteq {b \in Daemons : daemon'[b] \in {"serving", "standing down", "ending"}}
    BY <1>7, <2>1 DEF Ask, ProcOK
  <2> QED BY <1>7, <2>2, <2>3, <2>4 DEF Ask, ProcOK
<1>8. ASSUME NEW l \in Launchers, Signal(l) PROVE ProcOK'
  <2>1. CASE Alive(pid)
    <3>1. pid \in Daemons
      BY <2>1 DEF Alive, FileOK
    <3>2. retiredBy' \in [Daemons -> BuildsOrNone]
      BY <1>6, <1>8, <2>1, <3>1 DEF Signal, ProcOK
    <3>3. /\ daemon' \in [Daemons -> Stages]
          /\ retiring' \subseteq {b \in Daemons : daemon'[b] \in {"serving", "standing down", "ending"}}
      BY <1>8, <2>1, <3>1 DEF Signal, End, ProcOK, Stages
    <3>4. signalled' \subseteq Daemons /\ rank' = rank /\ misjudged' = misjudged
      BY <1>8, <2>1 DEF Signal, Strangers, ProcOK
    <3> QED BY <3>2, <3>3, <3>4 DEF ProcOK
  <2>2. CASE ~Alive(pid)
    BY <1>4, <1>8, <2>2 DEF Signal
  <2> QED BY <2>1, <2>2
<1>9. ASSUME NEW l \in Launchers, Spawn(l) PROVE ProcOK'
  <2> DEFINE d == CHOOSE d \in Daemons : Unused(d)
  <2>1. d \in Daemons /\ Unused(d)
    BY <1>9 DEF Spawn
  <2>2. /\ daemon' = [daemon EXCEPT ![d] = "starting"] /\ rank' = [rank EXCEPT ![d] = Build[l]]
        /\ UNCHANGED <<retiring, ghostVars>>
    BY <1>9 DEF Spawn
  <2> HIDE DEF d
  <2>3. d \notin retiring
    BY <2>1 DEF Unused, ProcOK
  <2> QED BY <2>1, <2>2, <2>3, Builds DEF ProcOK, Stages
<1>10. CASE UNCHANGED vars
  BY <1>4, <1>10 DEF vars
<1> QED
  BY <1>1, <1>2, <1>3, <1>5, <1>7, <1>8, <1>9, <1>10, <1>11 DEF Next, DaemonStep, ClientStep

LEMMA ClientTypeStep ==
    ASSUME FileOK, ProcOK, ClientOK, ConnInv, [Next]_vars
    PROVE  ClientOK' /\ ConnInv'
<1> USE DEF fileVars, procVars, clientVars, boundVars, ghostVars, Process, Become, Goto
<1>1. CASE UNCHANGED <<pc, clientVars>>
  BY <1>1 DEF ClientOK, ConnInv
<1>2. ASSUME NEW d \in Daemons, DaemonStep(d) \/ Kill(d) PROVE UNCHANGED <<pc, clientVars>>
  BY <1>2 DEF DaemonStep, TakeLock, Bind, WritePid, StartServing, Retire, DropGuard, Exit,
              Reap, Kill
<1>3. ASSUME NEW l \in Launchers,
             Call(l) \/ CallAgain(l) \/ Broken(l) \/ AskTheLock(l) \/ Sweep(l) \/ Await(l)
      PROVE  ClientOK' /\ ConnInv'
  BY <1>3 DEF Call, CallAgain, Broken, AskTheLock, Sweep, Await, ClientOK, ConnInv, Points,
              Sites, Reasons
<1>4. ASSUME NEW l \in Launchers, Connect(l) \/ Settle(l) PROVE ClientOK' /\ ConnInv'
  <2>1. Listening(socket) => socket \in Daemons
    BY DEF Listening, FileOK
  <2>2. PICK next \in {"settle", "ask", "served", "start"} : pc' = [pc EXCEPT ![l] = next]
    BY <1>4 DEF Connect, Settle, Believe
  <2>4. settled' \in [Launchers -> BuildsOrNone]
    BY <1>4 DEF Connect, Settle, FileOK, ClientOK
  <2>3. /\ why' = why /\ mine' = mine
        /\ \/ Listening(socket) /\ conn' = [conn EXCEPT ![l] = socket]
           \/ conn' = conn /\ (next \in {"served", "start"} \/ pc[l] = "settle")
    BY <1>4, <2>2 DEF Connect, Settle, Believe, ClientOK
  <2> QED BY <2>1, <2>2, <2>3, <2>4 DEF ClientOK, ConnInv, Points, Sites
<1>5. ASSUME NEW l \in Launchers, Ask(l) PROVE ClientOK' /\ ConnInv'
  <2>1. PICK next \in {"wait", "deferred", "broken"} : pc' = [pc EXCEPT ![l] = next]
    BY <1>5 DEF Ask
  <2>2. /\ conn' = [conn EXCEPT ![l] = Nobody] /\ mine' = mine /\ settled' = settled
        /\ why' = why \/ why' = [why EXCEPT ![l] = "ready"]
    BY <1>5 DEF Ask
  <2> QED BY <2>1, <2>2 DEF ClientOK, ConnInv, Points, Sites, Reasons
<1>6. ASSUME NEW l \in Launchers, Deferred(l) PROVE ClientOK' /\ ConnInv'
  BY <1>6 DEF Deferred, ClientOK, ConnInv, Points, Sites, Reasons
<1>7. ASSUME NEW l \in Launchers, GiveUp(l), UNCHANGED <<conn, mine, settled>>
      PROVE  ClientOK' /\ ConnInv'
  <2>1. why[l] \in Reasons
    BY DEF ClientOK
  <2>2. PICK next \in {"failed", "served", "start"} : pc' = [pc EXCEPT ![l] = next]
    BY <1>7, <2>1 DEF GiveUp, Reasons
  <2>3. why' = [why EXCEPT ![l] = "broken"]
    BY <1>7 DEF GiveUp
  <2> QED BY <1>7, <2>2, <2>3 DEF ClientOK, ConnInv, Points, Sites, Reasons
<1>8. ASSUME NEW l \in Launchers, GiveUpWaiting(l) PROVE ClientOK' /\ ConnInv'
  BY <1>7, <1>8 DEF GiveUpWaiting
<1>9. ASSUME NEW l \in Launchers, Signal(l) PROVE ClientOK' /\ ConnInv'
  <2>1. CASE Alive(pid)
    <3>1. pc' = [pc EXCEPT ![l] = "wait"] /\ UNCHANGED <<conn, mine, why, settled>>
      BY <1>9, <2>1 DEF Signal
    <3> QED BY <3>1 DEF ClientOK, ConnInv, Points, Sites
  <2>2. CASE ~Alive(pid)
    BY <1>7, <1>9, <2>2 DEF Signal
  <2> QED BY <2>1, <2>2
<1>10. ASSUME NEW l \in Launchers, Spawn(l) PROVE ClientOK' /\ ConnInv'
  <2> DEFINE d == CHOOSE d \in Daemons : Unused(d)
  <2>1. d \in Daemons
    BY <1>10 DEF Spawn
  <2>2. /\ mine' = [mine EXCEPT ![l] = d] /\ pc' = [pc EXCEPT ![l] = "await"]
        /\ UNCHANGED <<conn, why, settled>>
    BY <1>10 DEF Spawn
  <2> HIDE DEF d
  <2> QED BY <2>1, <2>2 DEF ClientOK, ConnInv, Points
<1>11. CASE UNCHANGED vars
  BY <1>1, <1>11 DEF vars
<1> QED
  BY <1>1, <1>2, <1>3, <1>4, <1>5, <1>6, <1>8, <1>9, <1>10, <1>11 DEF Next, ClientStep

LEMMA BoundStep ==
    ASSUME BoundOK, [Next]_vars
    PROVE  BoundOK'
<1> USE DEF fileVars, procVars, clientVars, boundVars, ghostVars
<1>1. CASE UNCHANGED boundVars
  BY <1>1 DEF BoundOK
<1>2. ASSUME NEW d \in Daemons, DaemonStep(d) PROVE UNCHANGED boundVars
  BY <1>2 DEF DaemonStep, TakeLock, Bind, WritePid, StartServing, Retire, DropGuard, Exit,
              Reap
<1>3. ASSUME NEW d \in Daemons, Kill(d) PROVE BoundOK'
  <2>1. kills' \in 0 .. MaxKills
    <3>1. kills < MaxKills /\ kills' = kills + 1
      BY <1>3 DEF Kill
    <3> QED BY <3>1, BoundsAssumption DEF BoundOK
  <2>2. calls' = calls
    BY <1>3 DEF Kill
  <2> QED BY <2>1, <2>2 DEF BoundOK
<1>4. ASSUME NEW l \in Launchers, Call(l) PROVE BoundOK'
  <2>1. calls[l] \in Nat /\ MaxCalls[l] \in Nat /\ calls[l] < MaxCalls[l]
        /\ calls' = [calls EXCEPT ![l] = calls[l] + 1] /\ kills' = kills
    BY <1>4, BoundsAssumption DEF Call, BoundOK
  <2> QED BY <2>1 DEF BoundOK
<1>5. ASSUME NEW l \in Launchers, ClientStep(l) PROVE UNCHANGED boundVars
  BY <1>5 DEF ClientStep, CallAgain, Connect, Settle, Ask, Deferred, Broken, AskTheLock,
              Signal, GiveUpWaiting, Sweep, Spawn, Await
<1>6. CASE UNCHANGED vars
  BY <1>1, <1>6 DEF vars
<1> QED BY <1>1, <1>2, <1>3, <1>4, <1>5, <1>6 DEF Next

-----------------------------------------------------------------------------
Types == FileOK /\ ProcOK /\ ClientOK

\* Nobody sweeps while a daemon takes the lock, and so no daemon's files are
\* taken from it.
LEMMA LockStep ==
    ASSUME Types, ConnInv, LockInv, "swept late" \notin Faults, [Next]_vars
    PROVE  LockInv'
<1> USE DEF fileVars, procVars, clientVars, boundVars, ghostVars, Process, Become, Goto, Types
<1>0. Nobody \notin Daemons
  BY LaunchersAssumption
<1>end. ASSUME NEW d \in Daemons, End(d), UNCHANGED <<fileVars, rank, pc>> PROVE LockInv'
  <2>1. \/ lock = d /\ lock' = Nobody
        \/ lock # d /\ lock' = lock
    BY <1>end DEF End
  <2> QED BY <1>0, <1>end, <2>1 DEF End, LockInv, Up, Half, ProcOK
<1>1. ASSUME NEW d \in Daemons, TakeLock(d) PROVE LockInv'
  <2>1. UNCHANGED <<fileVars, rank, pc>> /\ \A l \in Launchers : pc[l] # "sweep"
    BY <1>1 DEF TakeLock
  <2>2. CASE lock = Nobody
    <3>1. lock' = d /\ daemon' = [daemon EXCEPT ![d] = "locked"]
      BY <1>1, <2>2 DEF TakeLock
    <3> QED BY <1>0, <2>1, <2>2, <3>1 DEF LockInv, Up, Half, ProcOK
  <2>3. CASE lock # Nobody
    BY <1>end, <1>1, <2>1, <2>3 DEF TakeLock
  <2> QED BY <2>2, <2>3
<1>2. ASSUME NEW d \in Daemons, Bind(d) PROVE LockInv'
  <2>1. UNCHANGED <<record, pid, stamp, noted, rank, pc>> /\ daemon[d] = "locked"
    BY <1>2 DEF Bind
  <2>2. CASE socket' = d /\ daemon' = [daemon EXCEPT ![d] = "bound"] /\ lock' = lock
    BY <1>0, <2>1, <2>2 DEF LockInv, Up, Half, ProcOK
  <2>3. CASE End(d) /\ socket' = socket
    BY <1>end, <2>1, <2>3
  <2> QED BY <1>2, <2>2, <2>3 DEF Bind
<1>3. ASSUME NEW d \in Daemons, WritePid(d) \/ StartServing(d) \/ Retire(d) PROVE LockInv'
  BY <1>0, <1>3 DEF WritePid, StartServing, Retire, LockInv, Up, Half, FileOK, ProcOK
<1>4. ASSUME NEW d \in Daemons, DropGuard(d) PROVE LockInv'
  BY <1>0, <1>4 DEF DropGuard, LockInv, Up, Half, FileOK, ProcOK
<1>5. ASSUME NEW d \in Daemons, Exit(d) \/ Kill(d) PROVE LockInv'
  BY <1>end, <1>5 DEF Exit, Kill
<1>6. ASSUME NEW d \in Daemons, Reap(d) PROVE LockInv'
  <2>1. PICK next \in {"gone", "stranger"} : daemon' = [daemon EXCEPT ![d] = next]
    BY <1>6 DEF Reap
  <2>2. /\ daemon[d] \notin Up /\ rank' = [rank EXCEPT ![d] = 0]
        /\ UNCHANGED <<lock, fileVars, pc>>
    BY <1>6 DEF Reap, Up, Half
  <2> QED BY <1>0, <2>1, <2>2 DEF LockInv, Up, Half, ProcOK
<1>7. ASSUME UNCHANGED <<lock, record, socket, pid, stamp, daemon, rank>>,
             \A l \in Launchers : pc'[l] = "sweep" => pc[l] = "sweep" \/ lock = Nobody
      PROVE  LockInv'
  BY <1>7 DEF LockInv
<1>8. ASSUME NEW l \in Launchers,
             Call(l) \/ CallAgain(l) \/ Connect(l) \/ Settle(l) \/ Deferred(l) \/ Broken(l)
             \/ AskTheLock(l) \/ GiveUpWaiting(l) \/ Await(l)
      PROVE  LockInv'
  <2>1. \A k \in Launchers : pc'[k] = "sweep" => pc[k] = "sweep" \/ lock = Nobody
    <3>1. CASE AskTheLock(l)
      BY <3>1 DEF AskTheLock, ADaemonIsServing, ClientOK
    <3>2. CASE GiveUpWaiting(l)
      BY <3>2 DEF GiveUpWaiting, GiveUp, ClientOK, Reasons
    <3>3. CASE ~AskTheLock(l) /\ ~GiveUpWaiting(l)
      BY <1>8, <3>3 DEF Call, CallAgain, Connect, Settle, Believe, Deferred, Broken, Await, ClientOK
    <3> QED BY <3>1, <3>2, <3>3
  <2> QED
    BY <1>7, <1>8, <2>1 DEF Call, CallAgain, Connect, Settle, Deferred, Broken, AskTheLock,
                            GiveUpWaiting, Await
<1>9. ASSUME NEW l \in Launchers, Ask(l) PROVE LockInv'
  <2>1. conn[l] \in Daemons
    BY <1>9 DEF Ask, ConnInv
  <2>2. PICK next \in {"wait", "deferred", "broken"} : pc' = [pc EXCEPT ![l] = next]
    BY <1>9 DEF Ask
  <2>3. /\ UNCHANGED <<lock, fileVars, rank>>
        /\ \/ daemon' = daemon
           \/ /\ daemon[conn[l]] = "serving"
              /\ daemon' = [daemon EXCEPT ![conn[l]] = "standing down"]
    BY <1>9 DEF Ask
  <2> QED BY <1>0, <2>1, <2>2, <2>3 DEF LockInv, Up, Half, ProcOK, ClientOK
<1>10. ASSUME NEW l \in Launchers, Signal(l) PROVE LockInv'
  <2>1. CASE Alive(pid)
    <3>1. pid \in Daemons
      BY <2>1 DEF Alive, FileOK
    <3>2. pc' = [pc EXCEPT ![l] = "wait"] /\ UNCHANGED <<record, socket, pid, stamp, rank>>
      BY <1>10, <2>1 DEF Signal
    <3>3. \/ /\ daemon[pid] = "serving" /\ lock' = lock
             /\ daemon' = [daemon EXCEPT ![pid] = "standing down"]
          \/ daemon[pid] \in {"numbered", "serving"} /\ End(pid)
          \/ UNCHANGED <<lock, daemon>>
      BY <1>10, <2>1 DEF Signal
    <3> QED BY <1>0, <3>1, <3>2, <3>3 DEF End, LockInv, Up, Half, ProcOK, ClientOK
  <2>2. CASE ~Alive(pid)
    <3>1. UNCHANGED <<lock, record, socket, pid, stamp, daemon, rank>> /\ GiveUp(l)
      BY <1>10, <2>2 DEF Signal
    <3>2. \A k \in Launchers : pc'[k] = "sweep" => pc[k] = "sweep"
      BY <3>1 DEF GiveUp, ClientOK, Reasons
    <3> QED BY <1>7, <3>1, <3>2
  <2> QED BY <2>1, <2>2
<1>11. ASSUME NEW l \in Launchers, Sweep(l) PROVE LockInv'
  <2>1. lock = Nobody
    BY <1>11 DEF Sweep, LockInv
  <2> QED BY <1>0, <1>11, <2>1 DEF Sweep, LockInv, Up, Half, ClientOK
<1>12. ASSUME NEW l \in Launchers, Spawn(l) PROVE LockInv'
  <2> DEFINE d == CHOOSE d \in Daemons : Unused(d)
  <2>1. d \in Daemons /\ daemon[d] = "gone"
    BY <1>12 DEF Spawn, Unused
  <2>2. /\ daemon' = [daemon EXCEPT ![d] = "starting"] /\ rank' = [rank EXCEPT ![d] = Build[l]]
        /\ pc' = [pc EXCEPT ![l] = "await"]
        /\ UNCHANGED <<lock, fileVars>>
    BY <1>12 DEF Spawn
  <2> HIDE DEF d
  <2> QED BY <1>0, <2>1, <2>2 DEF LockInv, Up, Half, ProcOK, ClientOK
<1>13. CASE UNCHANGED vars
  BY <1>7, <1>13 DEF vars
<1> QED
  BY <1>1, <1>2, <1>3, <1>4, <1>5, <1>6, <1>8, <1>9, <1>10, <1>11, <1>12, <1>13
     DEF Next, DaemonStep, ClientStep

-----------------------------------------------------------------------------
\* What the rest takes for granted: each wait is over in time, except that for a
\* daemon just started.
Orderly == Faults \subseteq {"gone before seen"}

\* A daemon is asked by a client that has seen it stamp an older build than the
\* client's own.
LEMMA AskStep ==
    ASSUME Types, ConnInv, LockInv, AskInv, Orderly, [Next]_vars
    PROVE  AskInv'
<1> USE DEF fileVars, procVars, clientVars, boundVars, ghostVars, Process, Become, Goto, Types
<1>1. ASSUME NEW d \in Daemons, NEW next,
             daemon' = [daemon EXCEPT ![d] = next], 
             UNCHANGED <<rank, pc, conn, retiredBy, misjudged>>,
             daemon[d] \in Up \cup {"starting"} \/ next \notin Up \cup {"starting", "gone"},
             next # "gone", next # "starting", next = "locked" => daemon[d] = "starting",
             next \in Half => daemon[d] \in {"starting", "locked", "bound"},
             next = "bound" => daemon[d] = "locked",
             next = "numbered" => daemon[d] = "bound",
             next = "serving" => daemon[d] = "numbered"
      PROVE  AskInv'
  <2>1. \A b \in Daemons : daemon'[b] = IF b = d THEN next ELSE daemon[b]
    BY <1>1 DEF ProcOK
  <2>2. \A b \in Daemons :
            /\ daemon'[b] \in Up \cup {"starting"} => rank'[b] \in Nat \ {0}
            /\ daemon'[b] = "gone" => retiredBy'[b] = 0
    BY <1>1, <2>1 DEF AskInv
  <2>3. ASSUME NEW l \in Launchers, pc'[l] \in {"settle", "ask"}
        PROVE  /\ conn'[l] \in Daemons /\ daemon'[conn'[l]] \notin {"starting", "locked"}
               /\ pc'[l] = "ask" /\ daemon'[conn'[l]] \in Half \cup {"serving"} =>
                     rank'[conn'[l]] < Build[l] \/ Judged(l, conn[l])'
    <3>1. conn[l] \in Daemons /\ conn'[l] = conn[l] /\ pc'[l] = pc[l] /\ rank' = rank
      BY <1>1, <2>3 DEF AskInv
    <3>2. daemon[conn[l]] \notin {"starting", "locked"}
      BY <2>3, <3>1 DEF AskInv
    <3>3. pc[l] = "ask" /\ daemon[conn[l]] \in Half \cup {"serving"} =>
             rank[conn[l]] < Build[l] \/ Judged(l, conn[l])
      BY DEF AskInv
    <3> QED BY <1>1, <2>1, <3>1, <3>2, <3>3 DEF Half, Judged
  <2> QED BY <1>1, <2>2, <2>3 DEF AskInv, Judged
<1>2. ASSUME NEW d \in Daemons,
             TakeLock(d) \/ Bind(d) \/ WritePid(d) \/ StartServing(d) \/ Retire(d)
             \/ DropGuard(d) \/ Exit(d)
      PROVE  AskInv'
  <2>1. UNCHANGED <<rank, pc, conn, retiredBy, misjudged>>
    BY <1>2 DEF TakeLock, Bind, WritePid, StartServing, Retire, DropGuard, Exit
  <2>2. CASE daemon' = [daemon EXCEPT ![d] = "zombie"] /\ daemon[d] \in Up \cup {"starting"}
    BY <1>1, <2>1, <2>2 DEF Up, Half
  <2>3. CASE \/ daemon[d] = "starting" /\ daemon' = [daemon EXCEPT ![d] = "locked"]
             \/ daemon[d] = "locked" /\ daemon' = [daemon EXCEPT ![d] = "bound"]
             \/ daemon[d] = "bound" /\ daemon' = [daemon EXCEPT ![d] = "numbered"]
             \/ daemon[d] = "numbered" /\ daemon' = [daemon EXCEPT ![d] = "serving"]
             \/ daemon[d] = "serving" /\ daemon' = [daemon EXCEPT ![d] = "standing down"]
             \/ daemon[d] = "standing down" /\ daemon' = [daemon EXCEPT ![d] = "ending"]
    BY <1>1, <2>1, <2>3 DEF Up, Half
  <2> QED
    BY <1>2, <2>2, <2>3 DEF TakeLock, Bind, WritePid, StartServing, Retire, DropGuard, Exit, End,
                            Up, Half
<1>3. ASSUME NEW d \in Daemons, Kill(d) PROVE AskInv'
  <2>1. daemon[d] \in Up \cup {"starting"} /\ daemon' = [daemon EXCEPT ![d] = "zombie"]
        /\ UNCHANGED <<rank, pc, conn, retiredBy, misjudged>>
    BY <1>3 DEF Kill, End, Up, Half, ProcOK, Stages
  <2> QED BY <1>1, <2>1 DEF Up, Half
<1>4. ASSUME NEW d \in Daemons, Reap(d) PROVE AskInv'
  <2>1. PICK next \in {"gone", "stranger"} : daemon' = [daemon EXCEPT ![d] = next]
    BY <1>4 DEF Reap
  <2>2. /\ rank' = [rank EXCEPT ![d] = 0] /\ retiredBy' = [retiredBy EXCEPT ![d] = 0]
        /\ misjudged' = {judged \in misjudged : judged.daemon # d}
        /\ UNCHANGED <<pc, conn>>
    BY <1>4 DEF Reap
  <2>3. \A l \in Launchers : conn[l] # d => Judged(l, conn[l])' = Judged(l, conn[l])
    BY <2>2 DEF Judged
  <2> QED BY <2>1, <2>2, <2>3 DEF AskInv, ConnInv, Up, Half, ProcOK
<1>5. ASSUME UNCHANGED <<daemon, rank, retiredBy, misjudged>>,
             \A l \in Launchers : pc'[l] \in {"settle", "ask"} =>
                 pc'[l] = pc[l] /\ conn'[l] = conn[l]
      PROVE  AskInv'
  BY <1>5 DEF AskInv, Judged
<1>6. ASSUME NEW l \in Launchers, NEW next, pc' = [pc EXCEPT ![l] = next], next \notin {"settle", "ask"},
             UNCHANGED <<daemon, rank, retiredBy, conn, misjudged>>
      PROVE  AskInv'
  BY <1>5, <1>6 DEF ClientOK
<1>7. ASSUME NEW l \in Launchers, GiveUp(l), UNCHANGED <<daemon, rank, retiredBy, conn, misjudged>>
      PROVE  AskInv'
  <2>1. why[l] \in Reasons
    BY DEF ClientOK
  <2>2. PICK next \in {"failed", "served", "start"} : pc' = [pc EXCEPT ![l] = next]
    BY <1>7, <2>1 DEF GiveUp, Reasons
  <2> QED BY <1>6, <1>7, <2>2
<1>8. ASSUME NEW l \in Launchers,
             Call(l) \/ CallAgain(l) \/ Deferred(l) \/ Broken(l) \/ AskTheLock(l)
             \/ GiveUpWaiting(l) \/ Sweep(l) \/ Await(l)
      PROVE  AskInv'
  <2>1. UNCHANGED <<daemon, rank, retiredBy, conn, misjudged>>
    BY <1>8 DEF Call, CallAgain, Deferred, Broken, AskTheLock, GiveUpWaiting, Sweep, Await
  <2>2. CASE GiveUpWaiting(l)
    BY <1>7, <2>1, <2>2 DEF GiveUpWaiting
  <2>3. CASE ~GiveUpWaiting(l)
    <3>1. PICK next \in Points \ {"settle", "ask"} : pc' = [pc EXCEPT ![l] = next]
      BY <1>8, <2>3 DEF Call, CallAgain, Deferred, Broken, AskTheLock, Sweep, Await, Points, Sites
    <3> QED BY <1>6, <2>1, <3>1
  <2> QED BY <2>2, <2>3
<1>9. ASSUME NEW l \in Launchers, Connect(l) PROVE AskInv'
  <2>1. UNCHANGED <<daemon, rank, retiredBy, socket>> /\ misjudged \subseteq misjudged'
    BY <1>9 DEF Connect
  <2>2. CASE Listening(socket)
    <3>1. socket \in Daemons /\ daemon[socket] \notin {"starting", "locked"}
      BY <2>2 DEF Listening, FileOK
    <3>2. PICK next \in {"settle", "served", "ask"} : pc' = [pc EXCEPT ![l] = next]
      BY <1>9, <2>2 DEF Connect, Believe
    <3>3. conn' = [conn EXCEPT ![l] = socket]
      BY <1>9, <2>2 DEF Connect
    <3>4. ASSUME next = "ask", daemon[socket] \in Half \cup {"serving"}
          PROVE  rank[socket] < Build[l] \/ Judged(l, socket)'
      <4>1. WaitedOut(l)
        BY <1>9, <2>2, <3>2, <3>4 DEF Connect, Believe, ClientOK
      <4>2. CASE daemon[socket] = "serving"
        BY <3>1, <4>1, <4>2 DEF WaitedOut, ReadsAsOlder, LockInv
      <4>3. CASE daemon[socket] \in Half
        BY <1>9, <2>2, <3>1, <4>1, <4>3 DEF Connect, HalfStarted, Half, Judgement, Judged
      <4> QED BY <3>4, <4>2, <4>3
    <3>5. \A b \in Daemons :
              /\ daemon'[b] \in Up \cup {"starting"} => rank'[b] \in Nat \ {0}
              /\ daemon'[b] = "gone" => retiredBy'[b] = 0
      BY <2>1 DEF AskInv
    <3>6. ASSUME NEW k \in Launchers, pc'[k] \in {"settle", "ask"}
          PROVE  /\ conn'[k] \in Daemons /\ daemon'[conn'[k]] \notin {"starting", "locked"}
                 /\ pc'[k] = "ask" /\ daemon'[conn'[k]] \in Half \cup {"serving"} =>
                       rank'[conn'[k]] < Build[k] \/ Judged(k, conn[k])'
      <4>1. CASE k = l
        <5>1. pc'[k] = next /\ conn'[k] = socket
          BY <3>2, <3>3, <4>1 DEF ClientOK
        <5>2. Judged(k, conn[k])' <=> Judged(l, socket)'
          BY <2>1, <4>1, <5>1 DEF Judged
        <5> QED BY <2>1, <3>1, <3>4, <5>1, <5>2, <4>1
      <4>2. CASE k # l
        <5>1. pc'[k] = pc[k] /\ conn'[k] = conn[k]
          BY <3>2, <3>3, <4>2 DEF ClientOK
        <5>2. Judged(k, conn[k]) => Judged(k, conn[k])'
          BY <2>1, <5>1 DEF Judged
        <5> QED BY <2>1, <3>6, <5>1, <5>2 DEF AskInv
      <4> QED BY <4>1, <4>2
    <3> QED BY <3>5, <3>6 DEF AskInv, Judged
  <2>3. CASE ~Listening(socket)
    BY <1>6, <1>9, <2>1, <2>3 DEF Connect
  <2> QED BY <2>2, <2>3
<1>10. ASSUME NEW l \in Launchers, Settle(l) PROVE AskInv'
  <2>1. UNCHANGED <<daemon, rank, retiredBy, conn, misjudged>> /\ pc[l] = "settle"
    BY <1>10 DEF Settle
  <2>2. conn[l] \in Daemons /\ daemon[conn[l]] \notin Half \cup {"starting"}
    BY <1>10 DEF Settle, AskInv, Orderly, Half
  <2>3. CASE pc' = [pc EXCEPT ![l] = "served"]
    BY <1>6, <2>1, <2>3
  <2>4. CASE ReadsAsOlder(l) /\ pc' = [pc EXCEPT ![l] = "ask"]
    <3>1. daemon[conn[l]] = "serving" => rank[conn[l]] < Build[l]
      BY <2>2, <2>4 DEF ReadsAsOlder, LockInv, AskInv, Up
    <3> QED BY <2>1, <2>2, <2>4, <3>1 DEF AskInv, Half, ClientOK, Judged
  <2> QED BY <1>10, <2>3, <2>4 DEF Settle, Believe
<1>11. ASSUME NEW l \in Launchers, Ask(l) PROVE AskInv'
  <2>1. conn[l] \in Daemons
    BY <1>11 DEF Ask, ConnInv
  <2>2. PICK next \in {"wait", "deferred", "broken"} : pc' = [pc EXCEPT ![l] = next]
    BY <1>11 DEF Ask
  <2>3. rank' = rank /\ misjudged' = misjudged /\ conn' = [conn EXCEPT ![l] = Nobody]
    BY <1>11 DEF Ask
  <2>4. \/ daemon' = daemon
        \/ /\ daemon[conn[l]] = "serving"
           /\ daemon' = [daemon EXCEPT ![conn[l]] = "standing down"]
    BY <1>11 DEF Ask
  <2>5. \/ retiredBy' = retiredBy
        \/ daemon[conn[l]] = "serving" /\ Blame(conn[l], l)
    BY <1>11 DEF Ask
  <2>6. \A b \in Daemons : daemon'[b] = "gone" => retiredBy'[b] = 0
    BY <2>1, <2>4, <2>5 DEF Blame, AskInv, ProcOK
  <2> QED BY <2>1, <2>2, <2>3, <2>4, <2>6 DEF AskInv, Judged, Up, Half, ProcOK, ClientOK
<1>12. ASSUME NEW l \in Launchers, Signal(l) PROVE AskInv'
  <2>1. CASE Alive(pid)
    <3>1. pid \in Daemons
      BY <2>1 DEF Alive, FileOK
    <3>2. pc' = [pc EXCEPT ![l] = "wait"] /\ UNCHANGED <<rank, conn, misjudged>>
      BY <1>12, <2>1 DEF Signal
    <3>3. \/ UNCHANGED <<daemon, retiredBy>>
          \/ /\ daemon[pid] \in {"numbered", "serving"} /\ Blame(pid, l)
             /\ \/ daemon' = [daemon EXCEPT ![pid] = "standing down"]
                \/ daemon' = [daemon EXCEPT ![pid] = "zombie"]
      BY <1>12, <2>1 DEF Signal, End
    <3>4. \A b \in Daemons : daemon'[b] = "gone" => retiredBy'[b] = 0
      <4>1. CASE UNCHANGED <<daemon, retiredBy>>
        BY <4>1 DEF AskInv
      <4>2. CASE /\ Blame(pid, l)
                 /\ \E next \in {"standing down", "zombie"} : daemon' = [daemon EXCEPT ![pid] = next]
        <5>1. \A b \in Daemons \ {pid} : daemon'[b] = daemon[b] /\ retiredBy'[b] = retiredBy[b]
          BY <4>2 DEF Blame, ProcOK
        <5>2. daemon'[pid] # "gone"
          BY <3>1, <4>2 DEF ProcOK
        <5> QED BY <5>1, <5>2 DEF AskInv
      <4> QED BY <3>3, <4>1, <4>2
    <3> QED BY <3>1, <3>2, <3>3, <3>4 DEF AskInv, Judged, ConnInv, Up, Half, ProcOK, ClientOK
  <2>2. CASE ~Alive(pid)
    BY <1>7, <1>12, <2>2 DEF Signal
  <2> QED BY <2>1, <2>2
<1>13. ASSUME NEW l \in Launchers, Spawn(l) PROVE AskInv'
  <2> DEFINE d == CHOOSE d \in Daemons : Unused(d)
  <2>1. d \in Daemons /\ Unused(d)
    BY <1>13 DEF Spawn
  <2>2. /\ daemon' = [daemon EXCEPT ![d] = "starting"] /\ rank' = [rank EXCEPT ![d] = Build[l]]
        /\ pc' = [pc EXCEPT ![l] = "await"] /\ UNCHANGED <<conn, retiredBy, misjudged>>
    BY <1>13 DEF Spawn
  <2> HIDE DEF d
  <2>3. \A k \in Launchers : conn[k] # d
    BY <2>1 DEF Unused
  <2> QED BY <2>1, <2>2, <2>3, Builds DEF AskInv, Judged, ConnInv, Up, Half, ProcOK, ClientOK
<1>14. CASE UNCHANGED vars
  BY <1>5, <1>14 DEF vars
<1> QED
  BY <1>2, <1>3, <1>4, <1>8, <1>9, <1>10, <1>11, <1>12, <1>13, <1>14
     DEF Next, DaemonStep, ClientStep

\* While a client is about to stop a daemon no other comes, so that the one it
\* stops is the one that was asked.
LEMMA StopStep ==
    ASSUME Types, ConnInv, LockInv, AskInv, StopInv, Orderly, [Next]_vars
    PROVE  StopInv'
<1> USE DEF fileVars, procVars, clientVars, boundVars, ghostVars, Process, Become, Goto, Types
<1>0. Nobody \notin Daemons
  BY LaunchersAssumption
<1>1. ASSUME NEW d \in Daemons, NEW next, daemon' = [daemon EXCEPT ![d] = next],
             UNCHANGED <<rank, pc, retiredBy, misjudged>>,
             next \in Half => \/ daemon[d] \in Half
                            \/ \A l \in Launchers : ~AboutToStop(l),
             next = "serving" => daemon[d] \in Half
      PROVE  StopInv'
  <2>1. \A b \in Daemons : daemon'[b] = IF b = d THEN next ELSE daemon[b]
    BY <1>1 DEF ProcOK
  <2> QED BY <1>1, <2>1 DEF StopInv, AboutToStop, RetiredByItsBetters
<1>2. ASSUME NEW d \in Daemons,
             TakeLock(d) \/ Bind(d) \/ WritePid(d) \/ StartServing(d) \/ Retire(d)
             \/ DropGuard(d) \/ Exit(d) \/ Kill(d)
      PROVE  StopInv'
  <2>1. UNCHANGED <<rank, pc, retiredBy, misjudged>>
    BY <1>2 DEF TakeLock, Bind, WritePid, StartServing, Retire, DropGuard, Exit, Kill
  <2>2. CASE daemon' = [daemon EXCEPT ![d] = "zombie"]
    BY <1>1, <2>1, <2>2 DEF Half
  <2>3. CASE \/ daemon[d] = "locked" /\ daemon' = [daemon EXCEPT ![d] = "bound"]
             \/ daemon[d] = "bound" /\ daemon' = [daemon EXCEPT ![d] = "numbered"]
             \/ daemon[d] = "numbered" /\ daemon' = [daemon EXCEPT ![d] = "serving"]
             \/ daemon[d] = "serving" /\ daemon' = [daemon EXCEPT ![d] = "standing down"]
             \/ daemon[d] = "standing down" /\ daemon' = [daemon EXCEPT ![d] = "ending"]
    BY <1>1, <2>1, <2>3 DEF Half
  <2>4. CASE TakeLock(d) /\ daemon' = [daemon EXCEPT ![d] = "locked"]
    <3>1. \A l \in Launchers : ~AboutToStop(l)
      BY <2>4 DEF TakeLock, Orderly
    <3> QED BY <1>1, <2>1, <2>4, <3>1
  <2> QED
    BY <1>2, <2>2, <2>3, <2>4 DEF TakeLock, Bind, WritePid, StartServing, Retire, DropGuard, Exit,
                                  Kill, End
<1>3. ASSUME NEW d \in Daemons, Reap(d) PROVE StopInv'
  <2>1. PICK next \in {"gone", "stranger"} : daemon' = [daemon EXCEPT ![d] = next]
    BY <1>3 DEF Reap
  <2>2. /\ rank' = [rank EXCEPT ![d] = 0] /\ retiredBy' = [retiredBy EXCEPT ![d] = 0]
        /\ misjudged' = {judged \in misjudged : judged.daemon # d} /\ pc' = pc
    BY <1>3 DEF Reap
  <2>3. RetiredByItsBetters'
    BY <2>2 DEF StopInv, RetiredByItsBetters, ProcOK
  <2> QED BY <2>1, <2>2, <2>3 DEF StopInv, AboutToStop, RetiredByItsBetters, Half, ProcOK
<1>4. ASSUME UNCHANGED <<daemon, rank, retiredBy>>, misjudged \subseteq misjudged',
             \A l \in Launchers : AboutToStop(l)' =>
                 \/ pc'[l] = pc[l]
                 \/ /\ \A d \in Daemons : daemon[d] \notin Half
                    /\ \A d \in Daemons : daemon[d] = "serving" => rank[d] < Build[l]
      PROVE  StopInv'
  BY <1>4 DEF StopInv, AboutToStop, RetiredByItsBetters
<1>5. ASSUME NEW l \in Launchers, NEW next, pc' = [pc EXCEPT ![l] = next],
             next \notin {"deferred", "broken", "stop", "kill"},
             UNCHANGED <<daemon, rank, retiredBy>>, misjudged \subseteq misjudged'
      PROVE  StopInv'
  BY <1>4, <1>5 DEF AboutToStop, ClientOK
<1>6. ASSUME NEW l \in Launchers, GiveUp(l), UNCHANGED <<daemon, rank, retiredBy, misjudged>>
      PROVE  StopInv'
  <2>1. why[l] \in Reasons
    BY DEF ClientOK
  <2>2. PICK next \in {"failed", "served", "start"} : pc' = [pc EXCEPT ![l] = next]
    BY <1>6, <2>1 DEF GiveUp, Reasons
  <2> QED BY <1>5, <1>6, <2>2
<1>7. ASSUME NEW l \in Launchers,
             Call(l) \/ CallAgain(l) \/ Connect(l) \/ Settle(l) \/ GiveUpWaiting(l) \/ Sweep(l)
             \/ Await(l)
      PROVE  StopInv'
  <2>1. UNCHANGED <<daemon, rank, retiredBy>> /\ misjudged \subseteq misjudged'
    BY <1>7 DEF Call, CallAgain, Connect, Settle, GiveUpWaiting, Sweep, Await
  <2>2. CASE GiveUpWaiting(l)
    BY <1>6, <2>1, <2>2 DEF GiveUpWaiting
  <2>3. CASE ~GiveUpWaiting(l)
    <3>1. PICK next \in {"connect", "settle", "ask", "served", "start", "failed"} :
             pc' = [pc EXCEPT ![l] = next]
      BY <1>7, <2>3 DEF Call, CallAgain, Connect, Settle, Believe, Sweep, Await
    <3> QED BY <1>5, <2>1, <3>1
  <2> QED BY <2>2, <2>3
<1>8. ASSUME NEW l \in Launchers, NEW next, pc' = [pc EXCEPT ![l] = next],
             next \in {"served", "stop", "kill", "sweep", "spawn", "failed"},
             UNCHANGED <<daemon, rank, retiredBy, misjudged>>,
             next = "stop" => \A d \in Daemons : daemon[d] = "serving" => rank[d] < Build[l],
             next = "stop" => pc[l] \in {"deferred", "broken"},
             next = "kill" => pc[l] = "stop"
      PROVE  StopInv'
  <2>1. pc'[l] = next /\ \A k \in Launchers \ {l} : pc'[k] = pc[k]
    BY <1>8 DEF ClientOK
  <2>2. next \in {"stop", "kill"} => /\ \A d \in Daemons : daemon[d] \notin Half
                                   /\ \A d \in Daemons : daemon[d] = "serving" => rank[d] < Build[l]
    BY <1>8 DEF StopInv, AboutToStop
  <2> QED BY <1>4, <1>8, <2>1, <2>2 DEF AboutToStop
<1>9. ASSUME NEW l \in Launchers, Deferred(l) PROVE StopInv'
  <2>1. ReadsAsOlder(l) /\ stamp # 0
           => \A d \in Daemons : daemon[d] = "serving" => rank[d] < Build[l]
    BY DEF ReadsAsOlder, LockInv
  <2> QED BY <1>8, <1>9, <2>1 DEF Deferred
<1>10. ASSUME NEW l \in Launchers, Broken(l) PROVE StopInv'
  <2>1. ~Listening(socket) => \A d \in Daemons : daemon[d] # "serving"
    BY <1>0 DEF Listening, LockInv
  <2> QED BY <1>8, <1>10, <2>1 DEF Broken
<1>11. ASSUME NEW l \in Launchers, AskTheLock(l) PROVE StopInv'
  BY <1>8, <1>11 DEF AskTheLock
<1>12. ASSUME NEW l \in Launchers, NEW d \in Daemons, Blame(d, l),
              rank[d] < Build[l] \/ Judged(l, d), misjudged' = misjudged, rank' = rank
       PROVE  RetiredByItsBetters'
  <2>1. retiredBy' = [retiredBy EXCEPT ![d] = IF @ = 0 \/ Build[l] < @ THEN Build[l] ELSE @]
    BY <1>12 DEF Blame
  <2> QED BY <1>12, <2>1 DEF StopInv, RetiredByItsBetters, Judged, ProcOK
<1>13. ASSUME NEW l \in Launchers, Ask(l) PROVE StopInv'
  <2>1. conn[l] \in Daemons /\ pc[l] = "ask"
    BY <1>13 DEF Ask, ConnInv
  <2>2. rank' = rank /\ misjudged' = misjudged
    BY <1>13 DEF Ask
  <2>3. daemon[conn[l]] = "serving" => rank[conn[l]] < Build[l] \/ Judged(l, conn[l])
    BY <2>1 DEF AskInv
  <2>4. \A b \in Daemons : daemon[b] \in Up => lock = b
    BY DEF LockInv
  <2>5. CASE /\ daemon[conn[l]] = "serving"
             /\ daemon' = [daemon EXCEPT ![conn[l]] = "standing down"]
             /\ Blame(conn[l], l) /\ pc' = [pc EXCEPT ![l] = "wait"]
    <3>1. RetiredByItsBetters'
      BY <1>12, <2>1, <2>2, <2>3, <2>5
    <3> QED BY <2>1, <2>2, <2>5, <3>1 DEF StopInv, AboutToStop, RetiredByItsBetters, Half,
                                          ProcOK, ClientOK
  <2>6. CASE /\ daemon[conn[l]] = "serving" /\ daemon' = daemon
             /\ Blame(conn[l], l) /\ pc' = [pc EXCEPT ![l] = "deferred"]
    <3>1. RetiredByItsBetters'
      BY <1>12, <2>1, <2>2, <2>3, <2>6
    <3>2. \A b \in Daemons : b # conn[l] => daemon[b] \notin Up
      BY <2>1, <2>4, <2>6 DEF Up
    <3> QED BY <2>1, <2>2, <2>3, <2>6, <3>1, <3>2
            DEF StopInv, AboutToStop, RetiredByItsBetters, Up, Half, ClientOK
  <2>7. CASE /\ daemon[conn[l]] = "standing down" /\ UNCHANGED <<daemon, retiredBy>>
             /\ pc' = [pc EXCEPT ![l] = "deferred"]
    <3>1. \A b \in Daemons : daemon[b] \in Up => daemon[b] = "standing down"
      BY <2>1, <2>4, <2>7 DEF Up
    <3> QED BY <2>2, <2>7, <3>1 DEF StopInv, AboutToStop, RetiredByItsBetters, Up, Half, ClientOK
  <2>8. CASE /\ ~HalfStarted(lock) /\ UNCHANGED <<daemon, retiredBy>>
             /\ pc' = [pc EXCEPT ![l] = "broken"]
    <3>1. \A b \in Daemons : daemon[b] \notin Half
      BY <2>4, <2>8 DEF HalfStarted, Half, Up
    <3> QED BY <2>2, <2>8, <3>1 DEF StopInv, AboutToStop, RetiredByItsBetters, ClientOK
  <2> QED BY <1>13, <2>5, <2>6, <2>7, <2>8 DEF Ask, Orderly
<1>14. ASSUME NEW l \in Launchers, Signal(l) PROVE StopInv'
  <2>1. CASE Alive(pid)
    <3>1. pid \in Daemons /\ pc[l] = "kill"
      BY <1>14, <2>1 DEF Alive, FileOK, Signal
    <3>2. pc' = [pc EXCEPT ![l] = "wait"] /\ rank' = rank /\ misjudged' = misjudged
      BY <1>14, <2>1 DEF Signal
    <3>3. daemon[pid] \notin Half /\ (daemon[pid] = "serving" => rank[pid] < Build[l])
      BY <3>1 DEF StopInv, AboutToStop
    <3>4. \/ UNCHANGED <<daemon, retiredBy>>
          \/ /\ daemon[pid] \in {"numbered", "serving"} /\ Blame(pid, l)
             /\ \/ daemon' = [daemon EXCEPT ![pid] = "standing down"]
                \/ daemon' = [daemon EXCEPT ![pid] = "zombie"]
      BY <1>14, <2>1 DEF Signal, End
    <3>5. CASE UNCHANGED <<daemon, retiredBy>>
      BY <1>5, <3>2, <3>5
    <3>6. CASE /\ daemon[pid] \in {"numbered", "serving"} /\ Blame(pid, l)
               /\ \/ daemon' = [daemon EXCEPT ![pid] = "standing down"]
                  \/ daemon' = [daemon EXCEPT ![pid] = "zombie"]
      <4>1. RetiredByItsBetters'
        BY <1>12, <3>1, <3>2, <3>3, <3>6 DEF Half
      <4> QED BY <3>1, <3>2, <3>6, <4>1 DEF StopInv, AboutToStop, RetiredByItsBetters, Half,
                                            ProcOK, ClientOK
    <3> QED BY <3>4, <3>5, <3>6
  <2>2. CASE ~Alive(pid)
    BY <1>6, <1>14, <2>2 DEF Signal
  <2> QED BY <2>1, <2>2
<1>15. ASSUME NEW l \in Launchers, Spawn(l) PROVE StopInv'
  <2> DEFINE d == CHOOSE d \in Daemons : Unused(d)
  <2>1. d \in Daemons /\ daemon[d] = "gone"
    BY <1>15 DEF Spawn, Unused
  <2>2. /\ daemon' = [daemon EXCEPT ![d] = "starting"] /\ rank' = [rank EXCEPT ![d] = Build[l]]
        /\ pc' = [pc EXCEPT ![l] = "await"] /\ UNCHANGED <<retiredBy, misjudged>>
    BY <1>15 DEF Spawn
  <2> HIDE DEF d
  <2>3. retiredBy[d] = 0
    BY <2>1 DEF AskInv
  <2> QED BY <2>1, <2>2, <2>3 DEF StopInv, AboutToStop, RetiredByItsBetters, Half, ProcOK, ClientOK
<1>16. CASE UNCHANGED vars
  BY <1>4, <1>16 DEF vars
<1> QED
  BY <1>2, <1>3, <1>7, <1>9, <1>10, <1>11, <1>13, <1>14, <1>15, <1>16
     DEF Next, DaemonStep, ClientStep

\* While a client means to signal, the pid file names the daemon it means, or
\* nobody.
LEMMA PidStep ==
    ASSUME Types, ConnInv, LockInv, StopInv, PidInv, Orderly, [Next]_vars
    PROVE  PidInv'
<1> USE DEF fileVars, procVars, clientVars, boundVars, ghostVars, Process, Become, Goto, Types
<1>0. Nobody \notin Daemons
  BY LaunchersAssumption
<1>1. ASSUME NEW d \in Daemons, NEW next, daemon' = [daemon EXCEPT ![d] = next],
             UNCHANGED <<record, pid, pc, signalled>>,
             next # "stranger", daemon[d] # "numbered"
      PROVE  PidInv'
  <2>1. \A b \in Daemons : daemon'[b] = IF b = d THEN next ELSE daemon[b]
    BY <1>1 DEF ProcOK
  <2> QED BY <1>1, <2>1 DEF PidInv, StrangersLeftAlone, Strangers, FileOK
<1>2. ASSUME NEW d \in Daemons,
             TakeLock(d) \/ Bind(d) \/ Retire(d) \/ Exit(d) \/ Kill(d)
      PROVE  PidInv'
  <2>1. UNCHANGED <<record, pid, pc, signalled>> /\ daemon[d] # "numbered"
    BY <1>2 DEF TakeLock, Bind, Retire, Exit, Kill, Orderly
  <2>2. PICK next \in {"locked", "bound", "standing down", "zombie"} :
           daemon' = [daemon EXCEPT ![d] = next]
    BY <1>2 DEF TakeLock, Bind, Retire, Exit, Kill, End
  <2> QED BY <1>1, <2>1, <2>2
<1>3. ASSUME NEW d \in Daemons, WritePid(d) PROVE PidInv'
  <2>1. daemon' = [daemon EXCEPT ![d] = "numbered"] /\ pid' = d /\ UNCHANGED <<pc, signalled>>
    BY <1>3 DEF WritePid
  <2> QED BY <2>1 DEF PidInv, StrangersLeftAlone, Strangers, ProcOK
<1>4. ASSUME NEW d \in Daemons, StartServing(d) PROVE PidInv'
  <2>1. daemon' = [daemon EXCEPT ![d] = "serving"] /\ record' = d
        /\ UNCHANGED <<pid, pc, signalled>>
    BY <1>4 DEF StartServing
  <2>2. pid = d
    BY <1>4 DEF StartServing, LockInv
  <2> QED BY <2>1, <2>2 DEF PidInv, StrangersLeftAlone, Strangers, ProcOK
<1>5. ASSUME pid' = Nobody, UNCHANGED signalled PROVE PidInv'
  BY <1>0, <1>5 DEF PidInv, StrangersLeftAlone, Strangers
<1>6. ASSUME NEW d \in Daemons, DropGuard(d) PROVE PidInv'
  BY <1>5, <1>6 DEF DropGuard
<1>7. ASSUME NEW d \in Daemons, Reap(d) PROVE PidInv'
  <2>1. PICK next \in {"gone", "stranger"} : daemon' = [daemon EXCEPT ![d] = next]
    BY <1>7 DEF Reap
  <2>2. /\ UNCHANGED <<record, pid, pc, signalled>> /\ daemon[d] # "numbered"
        /\ daemon'[d] = "stranger" => \A l \in Launchers : pc[l] # "kill"
    BY <1>7 DEF Reap, Orderly, ProcOK
  <2> QED BY <2>1, <2>2 DEF PidInv, StrangersLeftAlone, Strangers, ProcOK, FileOK
<1>8. ASSUME UNCHANGED <<record, pid, daemon, signalled>>,
             \A l \in Launchers : pc'[l] = "kill" => pc[l] = "kill" \/ pid \notin Strangers
      PROVE  PidInv'
  BY <1>8 DEF PidInv, StrangersLeftAlone, Strangers
<1>9. ASSUME NEW l \in Launchers, GiveUp(l), UNCHANGED <<record, pid, daemon, signalled>>
      PROVE  PidInv'
  <2>1. why[l] \in Reasons
    BY DEF ClientOK
  <2>2. PICK next \in {"failed", "served", "start"} : pc' = [pc EXCEPT ![l] = next]
    BY <1>9, <2>1 DEF GiveUp, Reasons
  <2> QED BY <1>8, <1>9, <2>2 DEF ClientOK
<1>10. ASSUME NEW l \in Launchers,
              Call(l) \/ CallAgain(l) \/ Connect(l) \/ Settle(l) \/ Deferred(l) \/ Broken(l)
              \/ GiveUpWaiting(l) \/ Await(l)
       PROVE  PidInv'
  <2>1. UNCHANGED <<record, pid, daemon, signalled>>
    BY <1>10 DEF Call, CallAgain, Connect, Settle, Deferred, Broken, GiveUpWaiting, Await
  <2>2. CASE GiveUpWaiting(l)
    BY <1>9, <2>1, <2>2 DEF GiveUpWaiting
  <2>3. CASE ~GiveUpWaiting(l)
    <3>1. PICK next \in {"connect", "settle", "ask", "served", "start", "failed", "stop"} :
             pc' = [pc EXCEPT ![l] = next]
      BY <1>10, <2>3 DEF Call, CallAgain, Connect, Settle, Believe, Deferred, Broken, Await
    <3> QED BY <1>8, <2>1, <3>1 DEF ClientOK
  <2> QED BY <2>2, <2>3
<1>11. ASSUME NEW l \in Launchers, Sweep(l) PROVE PidInv'
  BY <1>5, <1>11 DEF Sweep
<1>12. ASSUME NEW l \in Launchers, AskTheLock(l) PROVE PidInv'
  <2>1. UNCHANGED <<record, pid, daemon, signalled>>
    BY <1>12 DEF AskTheLock
  <2>2. CASE pc' = [pc EXCEPT ![l] = "kill"]
    <3>1. pc[l] = "stop" /\ ADaemonIsServing(l)
      BY <1>12, <2>2 DEF AskTheLock, ClientOK
    <3>2. \A d \in Daemons : daemon[d] \notin Half
      BY <3>1 DEF StopInv, AboutToStop
    <3>3. ~PidFileStillNamesADaemon
      BY <3>2 DEF PidFileStillNamesADaemon, Alive, PidInv, FileOK, Half
    <3>4. lock # Nobody
      BY <3>1, <3>3 DEF ADaemonIsServing, Orderly
    <3>5. lock \in Daemons /\ daemon[lock] \in {"serving", "standing down", "ending"}
      BY <3>2, <3>4 DEF FileOK, LockInv, Up
    <3>6. pid \notin Strangers
      BY <1>0, <3>5 DEF LockInv, Strangers
    <3> QED BY <1>8, <2>1, <3>6
  <2>3. CASE \E next \in {"failed", "spawn", "sweep"} : pc' = [pc EXCEPT ![l] = next]
    BY <1>8, <2>1, <2>3 DEF ClientOK
  <2> QED BY <1>12, <2>2, <2>3 DEF AskTheLock
<1>13. ASSUME NEW l \in Launchers, Ask(l) PROVE PidInv'
  <2>1. conn[l] \in Daemons /\ UNCHANGED <<record, pid, signalled>>
    BY <1>13 DEF Ask, ConnInv
  <2>2. PICK next \in {"wait", "deferred", "broken"} : pc' = [pc EXCEPT ![l] = next]
    BY <1>13 DEF Ask
  <2>3. \/ daemon' = daemon
        \/ /\ daemon[conn[l]] = "serving"
           /\ daemon' = [daemon EXCEPT ![conn[l]] = "standing down"]
    BY <1>13 DEF Ask
  <2> QED BY <2>1, <2>2, <2>3 DEF PidInv, StrangersLeftAlone, Strangers, ProcOK, ClientOK, FileOK
<1>14. ASSUME NEW l \in Launchers, Signal(l) PROVE PidInv'
  <2>1. CASE Alive(pid)
    <3>1. pid \in Daemons /\ pc[l] = "kill"
      BY <1>14, <2>1 DEF Alive, FileOK, Signal
    <3>2. pc' = [pc EXCEPT ![l] = "wait"] /\ UNCHANGED <<record, pid>>
      BY <1>14, <2>1 DEF Signal
    <3>3. signalled' = {}
      BY <1>14, <2>1, <3>1 DEF Signal, PidInv, StrangersLeftAlone, Strangers
    <3>4. daemon[pid] # "numbered"
      BY <3>1 DEF StopInv, AboutToStop, Half
    <3>5. daemon' = daemon \/ \E next \in {"standing down", "zombie"} :
                                   daemon' = [daemon EXCEPT ![pid] = next]
      BY <1>14, <2>1 DEF Signal, End
    <3> QED BY <3>1, <3>2, <3>3, <3>4, <3>5 DEF PidInv, StrangersLeftAlone, Strangers, ProcOK, ClientOK
  <2>2. CASE ~Alive(pid)
    BY <1>9, <1>14, <2>2 DEF Signal
  <2> QED BY <2>1, <2>2
<1>15. ASSUME NEW l \in Launchers, Spawn(l) PROVE PidInv'
  <2> DEFINE d == CHOOSE d \in Daemons : Unused(d)
  <2>1. d \in Daemons /\ daemon[d] = "gone" /\ pid # d
    BY <1>15 DEF Spawn, Unused
  <2>2. /\ daemon' = [daemon EXCEPT ![d] = "starting"] /\ pc' = [pc EXCEPT ![l] = "await"]
        /\ UNCHANGED <<record, pid, signalled>>
    BY <1>15 DEF Spawn
  <2> HIDE DEF d
  <2> QED BY <2>1, <2>2 DEF PidInv, StrangersLeftAlone, Strangers, ProcOK, ClientOK, FileOK
<1>16. CASE UNCHANGED vars
  BY <1>8, <1>16 DEF vars
<1> QED
  BY <1>2, <1>3, <1>4, <1>6, <1>7, <1>10, <1>11, <1>12, <1>13, <1>14, <1>15, <1>16
     DEF Next, DaemonStep, ClientStep

-----------------------------------------------------------------------------
\* Every variable keeps its type, whatever goes wrong.
THEOREM TypeCorrect == Spec => []TypeOK
<1>1. Init => TypeOK /\ ConnInv
  BY TypeInitially DEF Init, ConnInv
<1>2. TypeOK /\ ConnInv /\ [Next]_vars => TypeOK' /\ ConnInv'
  <2> SUFFICES ASSUME TypeOK, ConnInv, [Next]_vars PROVE TypeOK' /\ ConnInv'
    OBVIOUS
  <2>1. FileOK /\ ProcOK /\ ClientOK /\ BoundOK
    BY Parts
  <2>2. FileOK' /\ ProcOK' /\ ClientOK' /\ ConnInv' /\ BoundOK'
    BY <2>1, FileStep, ProcStep, ClientTypeStep, BoundStep
  <2>3. TypeOK'
    BY <2>2, Parts, PTL
  <2> QED BY <2>2, <2>3
<1> QED BY <1>1, <1>2, PTL DEF Spec

\* The part of it the rest builds on.
LEMMA Typed == Spec => [](Types /\ ConnInv)
<1>1. Init => Types /\ ConnInv
  BY TypeInitially, Parts DEF Init, ConnInv, Types
<1>2. Types /\ ConnInv /\ [Next]_vars => Types' /\ ConnInv'
  BY FileStep, ProcStep, ClientTypeStep DEF Types
<1> QED BY <1>1, <1>2, PTL DEF Spec

LEMMA Locked == "swept late" \notin Faults => (Spec => []LockInv)
<1> SUFFICES ASSUME "swept late" \notin Faults PROVE Spec => []LockInv
  OBVIOUS
<1>1. ASSUME Init PROVE LockInv
  <2>1. lock \notin Daemons /\ lock = Nobody
    BY <1>1, LaunchersAssumption DEF Init
  <2>2. \A d \in Daemons : daemon[d] = "gone"
    BY <1>1 DEF Init
  <2> QED BY <2>1, <2>2 DEF LockInv, Up, Half
<1>2. Types /\ ConnInv /\ LockInv /\ [Next]_vars => LockInv'
  BY LockStep
<1> QED BY Typed, <1>1, <1>2, PTL DEF Spec

\* Between its start and its end a daemon's lock, socket, pid file, record and
\* stamp are its own, whoever else starts, stops, asks or sweeps.
THEOREM FilesStayItsOwn == "swept late" \notin Faults => (Spec => []FilesAreItsOwn)
<1> SUFFICES ASSUME "swept late" \notin Faults PROVE Spec => []FilesAreItsOwn
  OBVIOUS
<1>1. LockInv => FilesAreItsOwn
  BY DEF LockInv, FilesAreItsOwn, Up
<1> QED BY Locked, <1>1, PTL

LEMMA Stopping == Orderly => (Spec => [](AskInv /\ StopInv /\ PidInv))
<1> SUFFICES ASSUME Orderly PROVE Spec => [](AskInv /\ StopInv /\ PidInv)
  OBVIOUS
<1>1. "swept late" \notin Faults
  BY DEF Orderly
<1>2. Init => AskInv /\ StopInv /\ PidInv
  BY DEF Init, AskInv, StopInv, PidInv, AboutToStop, RetiredByItsBetters, StrangersLeftAlone,
         Up, Half
<1>3. Types /\ ConnInv /\ LockInv /\ (AskInv /\ StopInv /\ PidInv) /\ [Next]_vars
        => (AskInv /\ StopInv /\ PidInv)'
  BY AskStep, StopStep, PidStep
<1> QED BY Typed, <1>1, Locked, <1>2, <1>3, PTL DEF Spec

\* A daemon stands down for a better build than its own only, so that no two
\* builds have each other make way, but for a daemon that had bound and not yet
\* stamped when somebody who had waited out the stamp before came to it.
THEOREM BettersOnly == Orderly => (Spec => []RetiredByItsBetters)
<1> SUFFICES ASSUME Orderly PROVE Spec => []RetiredByItsBetters
  OBVIOUS
<1>1. AskInv /\ StopInv /\ PidInv => RetiredByItsBetters
  BY DEF StopInv
<1> QED BY Stopping, <1>1, PTL

\* No process that was given a dead daemon's number is signalled for it.
THEOREM StrangersSafe == Orderly => (Spec => []StrangersLeftAlone)
<1> SUFFICES ASSUME Orderly PROVE Spec => []StrangersLeftAlone
  OBVIOUS
<1>1. AskInv /\ StopInv /\ PidInv => StrangersLeftAlone
  BY DEF PidInv
<1> QED BY Stopping, <1>1, PTL

-----------------------------------------------------------------------------
(***************************************************************************)
(* Revival.                                                                *)
(*                                                                         *)
(* The types, and what the clients are told, hold whatever else happens:   *)
(* nothing is on record before the client that made the number up was      *)
(* served, and how far a client has come says whether its launch was       *)
(* begun.                                                                  *)
(***************************************************************************)
Live(r) == keeper[r] \in {"starting", "up"}
Reads(r) == reader[r] \in {"reading", "burying"}

\* The types of the daemon's own state, of the keepers, of the records and of
\* the launch in hand.
DaemonTypes ==
    /\ gen \in 1..MaxGen /\ up \in BOOLEAN /\ queue \subseteq Clients \X (1..2)
    /\ asker \in [Clients -> {"idle", "asked", "lost", "asked again", "refused",
                             "ok", "failed"}]
    /\ began \subseteq Clients /\ erased \in BOOLEAN

LateType == late \in BOOLEAN

KeeperTypes ==
    /\ mapped \in Runs \cup {NoRun} /\ shut \in [Runs -> BOOLEAN]
    /\ to \in [Runs -> Runs \cup {NoRun}] /\ client \in [Runs -> Runs \cup {NoRun}]
    /\ reader \in [Runs -> {"none", "reading", "burying", "done"}]
    /\ keeper \in [Runs -> {"none", "starting", "up", "gone"}]
    /\ child \in [Runs -> {"none", "running", "ended"}]
    /\ path \in Runs \cup {NoRun} /\ started \in 0..MaxRuns
    /\ archiving \in Runs \cup {NoRun} /\ deleting \in Runs \cup {NoRun}

RecordTypes ==
    /\ filed \in Records \cup {Nothing} /\ (filed # Nothing => filed.dead)
    /\ copy \in [Runs -> Records \cup {Nothing}] /\ file \in Records \cup {Nothing}

JobType ==
    job \in [at : {"idle", "taken", "written", "spawned", "greeted"},
             for : {<<>>} \cup (Clients \X (1..2)),
             took : Records \cup {Nothing}, run : Runs \cup {NoRun}]

\* A daemon that is down can be followed by another.
GenInv == up \/ gen < MaxGen

\* A launch behind the gate answers a request, has room for its keeper, and has
\* that keeper once it is started.
GateInv ==
    /\ job.at # "idle" => job.for \in Clients \X (1..2)
    /\ job.at = "written" => started < MaxRuns
    /\ job.at \in {"spawned", "greeted"} => job.run \in Runs

\* A handle that somebody looks after has a record.
HeldInv ==
    /\ mapped # NoRun => copy[mapped] # Nothing
    /\ archiving # NoRun => copy[archiving] # Nothing
    /\ \A r \in Runs : Reads(r) => copy[r] # Nothing

SoundInv == RevivalTypeOK /\ GenInv /\ GateInv /\ HeldInv

\* Runs are numbered from one; none has the number zero.
LEMMA NumbersOfRuns ==
    /\ NoRun \notin Runs
    /\ \A r \in Runs : r \in Nat /\ r >= 1 /\ r <= MaxRuns
    /\ \A n \in 0..MaxRuns : n < MaxRuns => n + 1 \in Runs
BY MaxRunsAssumption DEF NoRun, Runs

\* The sign for no record is not a record.
LEMMA NothingIsNoRecord == Nothing \notin Records
BY NothingAssumption DEF Records

\* What records become when they are made, repaired and read back.
LEMMA RecordsMade ==
    /\ \A c \in Clients : Fresh(c) \in Records /\ Fresh(c).who = c
                          /\ ~Over(Fresh(c)) /\ ~Fresh(c).dead
    /\ \A x \in Records :
          /\ Repaired(x) \in Records /\ ReadBack(x) \in Records
          /\ Over(Repaired(x)) /\ Repaired(x).who = x.who
          /\ ReadBack(x).dead /\ ReadBack(x).who = x.who
          /\ ReadBack(x) = [Repaired(x) EXCEPT !.dead = TRUE]
          /\ x.dead => Repaired(x) = x /\ ReadBack(x) = x
BY DEF Fresh, Records, Over, Repaired, ReadBack

\* The type invariant, in four parts.
LEMMA TypesBySlice ==
    RevivalTypeOK <=> DaemonTypes /\ LateType /\ KeeperTypes /\ RecordTypes /\ JobType
<1>1. filed \in {x \in Records : x.dead} \cup {Nothing}
      <=> filed \in Records \cup {Nothing} /\ (filed # Nothing => filed.dead)
  BY NothingIsNoRecord
<1> QED
  BY <1>1 DEF RevivalTypeOK, DaemonTypes, LateType, KeeperTypes, RecordTypes, JobType

\* The types of what the clients and the gate know.
LEMMA AskTypes ==
    ASSUME SoundInv
    PROVE  /\ asker \in [Clients -> {"idle", "asked", "lost", "asked again", "refused",
                                     "ok", "failed"}]
           /\ began \subseteq Clients /\ queue \subseteq Clients \X (1..2)
           /\ job.at # "idle" => job.for \in Clients \X (1..2)
BY DEF SoundInv, GateInv, RevivalTypeOK

\* An answer leaves the clients in one of their states.
LEMMA AnswersTyped ==
    ASSUME SoundInv, NEW request \in Clients \X (1..2), NEW ok \in BOOLEAN
    PROVE  Answered(request, ok) \in
              [Clients -> {"idle", "asked", "lost", "asked again", "refused", "ok",
                           "failed"}]
BY AskTypes DEF Answered

\* What a launch that fails puts back is a record if it took one, and the rest
\* is as it was.
LEMMA FailsSoundly ==
    ASSUME SoundInv, FailEarly \/ FailToSpawn \/ GivesUp \/ FailOnceConnected
    PROVE  /\ job.at # "idle" /\ job' = Idle /\ asker' = Answered(job.for, FALSE)
           /\ job.for \in Clients \X (1..2)
           /\ \/ UNCHANGED <<file, filed>>
              \/ file' = Nothing /\ UNCHANGED filed
              \/ /\ job.took # Nothing /\ file' \in Records
                 /\ filed' \in Records /\ filed'.dead
           /\ UNCHANGED <<gen, up, mapped, copy, reader, archiving, started,
                          queue, began, erased>>
<1>1. /\ job.at # "idle" /\ UNCHANGED started
      /\ Undo \/ (job.took = Nothing /\ UNCHANGED <<file, filed>>)
  BY DEF FailEarly, FailToSpawn, GivesUp, FailOnceConnected, Fail, Undo, launching, runVars
<1>2. job' = Idle /\ asker' = Answered(job.for, FALSE)
      /\ UNCHANGED <<gen, up, mapped, copy, reader, archiving, queue, began, erased>>
  BY DEF FailEarly, FailToSpawn, GivesUp, FailOnceConnected, Fail, handleVars, endVars
<1>3. job.for \in Clients \X (1..2) /\ job.took \in Records \cup {Nothing}
  BY <1>1 DEF SoundInv, GateInv, RevivalTypeOK
<1>4. CASE job.took = Nothing
  BY <1>1, <1>2, <1>3, <1>4 DEF Undo
<1>5. CASE job.took # Nothing
  BY <1>1, <1>2, <1>3, <1>5, RecordsMade DEF Undo, PutBack
<1> QED
  BY <1>4, <1>5

\* A reader or an archival writes the record of a handle that has one.
LEMMA DeathsRecorded ==
    ASSUME SoundInv, NEW h,
           (ArchiveWritten /\ h = archiving) \/ (\E r \in Runs : MarkDead(r) /\ h = r)
    PROVE  /\ h \in Runs /\ copy[h] \in Records
           /\ \E x \in Records :
                 copy' = [copy EXCEPT ![h] = x] /\ (file' = x \/ file' = file)
           /\ reader' = reader \/ reader' = [reader EXCEPT ![h] = "done"]
           /\ UNCHANGED <<gen, up, mapped, filed, job, queue, asker, began, started>>
           /\ archiving' \in {archiving, NoRun}
<1>1. h \in Runs /\ copy[h] \in Records
  <2>1. /\ HeldInv /\ copy \in [Runs -> Records \cup {Nothing}]
        /\ archiving \in Runs \cup {NoRun}
    BY DEF SoundInv, RevivalTypeOK
  <2> QED
    BY <2>1 DEF ArchiveWritten, MarkDead, HeldInv, Reads
<1>2. PICK x : x = [copy[h] EXCEPT !.dead = TRUE]
  OBVIOUS
<1>3. x \in Records
  BY <1>1, <1>2 DEF Records
<1>4. copy' = [copy EXCEPT ![h] = x] /\ (file' = x \/ file' = file)
  BY <1>2 DEF ArchiveWritten, MarkDead, Persist
<1> QED
  BY <1>1, <1>3, <1>4 DEF ArchiveWritten, MarkDead, daemonVars, runVars, launchVars,
     endVars

\* An archival marks the record of the session in the map, or of one in the
\* archive.
LEMMA ArchivedSoundly ==
    ASSUME SoundInv
    PROVE  /\ Archive => \E x \in Records :
                 /\ mapped \in Runs /\ copy[mapped] \in Records
                 /\ copy' = [copy EXCEPT ![mapped] = x] /\ archiving' = mapped
                 /\ UNCHANGED <<file, filed>>
           /\ ArchiveFiled => \E x \in Records :
                 /\ x.dead /\ filed' = x /\ file' = x /\ filed # Nothing
                 /\ UNCHANGED copy
<1>1. ASSUME Archive
      PROVE  \E x \in Records :
                 /\ mapped \in Runs /\ copy[mapped] \in Records
                 /\ copy' = [copy EXCEPT ![mapped] = x] /\ archiving' = mapped
                 /\ UNCHANGED <<file, filed>>
  <2>1. PICK x : x = [copy[mapped] EXCEPT !.archived = TRUE]
    OBVIOUS
  <2>2. mapped \in Runs /\ copy[mapped] \in Records
    BY <1>1 DEF Archive, SoundInv, HeldInv, RevivalTypeOK
  <2>3. x \in Records
    BY <2>1, <2>2 DEF Records
  <2>4. copy' = [copy EXCEPT ![mapped] = x]
    BY <1>1, <2>1, <2>2 DEF Archive, SoundInv, RevivalTypeOK
  <2> QED
    BY <1>1, <2>2, <2>3, <2>4 DEF Archive, daemonVars
<1>2. ASSUME ArchiveFiled
      PROVE  \E x \in Records :
                 /\ x.dead /\ filed' = x /\ file' = x /\ filed # Nothing
                 /\ UNCHANGED copy
  <2>1. filed \in Records
    BY <1>2 DEF ArchiveFiled, SoundInv, RevivalTypeOK
  <2>2. PICK x : x = [filed EXCEPT !.archived = TRUE, !.dead = TRUE]
    OBVIOUS
  <2>3. x \in Records /\ x.dead
    BY <2>1, <2>2 DEF Records
  <2> QED
    BY <1>2, <2>1, <2>2, <2>3, NothingIsNoRecord DEF ArchiveFiled, handleVars
<1> QED
  BY <1>1, <1>2

\* A starting daemon reads a record, adopts a keeper under one, or has neither.
LEMMA StartsSoundly ==
    ASSUME SoundInv, Start
    PROVE  /\ ~up /\ up' /\ gen' = gen + 1
           /\ UNCHANGED <<started, job, queue, asker, began, archiving, deleting, erased>>
           /\ \/ UNCHANGED <<file, filed, mapped, copy, reader>>
              \/ /\ file \in Records /\ file' \in Records
                 /\ filed' \in Records /\ filed'.dead
                 /\ UNCHANGED <<mapped, copy, reader>>
              \/ /\ file \in Records /\ file' \in Records /\ path \in Runs /\ mapped' = path
                 /\ copy' = [copy EXCEPT ![path] = file']
                 /\ reader' = [reader EXCEPT ![path] = "reading"]
                 /\ UNCHANGED filed
<1>1. /\ ~up /\ up' /\ gen' = gen + 1 /\ file \in Records \cup {Nothing}
      /\ path \in Runs \cup {NoRun}
      /\ UNCHANGED <<started, job, queue, asker, began, archiving, deleting, erased>>
  BY DEF Start, launchVars, endVars, SoundInv, RevivalTypeOK
<1>2. CASE ReadsRecord
  BY <1>1, <1>2, RecordsMade DEF ReadsRecord, handleVars
<1>3. CASE Dismisses
  BY <1>1, <1>3 DEF Dismisses, handleVars
<1>4. CASE Adopts /\ path \in Runs /\ file \in Records
  <2>1. PICK x : x = [file EXCEPT !.dead = FALSE]
    OBVIOUS
  <2>2. x \in Records
    BY <1>4, <2>1 DEF Records
  <2> QED
    BY <1>1, <1>4, <2>1, <2>2 DEF Adopts
<1>5. CASE Retires /\ file \in Records
  <2>1. PICK x : x = [file EXCEPT !.dead = TRUE]
    OBVIOUS
  <2>2. x \in Records /\ x.dead
    BY <1>5, <2>1 DEF Records
  <2> QED
    BY <1>1, <1>5, <2>1, <2>2 DEF Retires, handleVars
<1> QED
  BY <1>1, <1>2, <1>3, <1>4, <1>5 DEF Start

\* Every step keeps the types of the daemon's own state.
LEMMA DaemonTypesKept ==
    ASSUME SoundInv, [RevivalNext]_revivalVars
    PROVE  DaemonTypes'
<1>0. DaemonTypes /\ GateInv /\ GenInv /\ JobType
  BY TypesBySlice DEF SoundInv
<1>1. ASSUME NEW c \in Clients, AskToLaunch(c) PROVE DaemonTypes'
  <2>1. queue' \subseteq queue \cup {<<c, 1>>, <<c, 2>>}
        /\ UNCHANGED <<gen, up, began, erased>>
    BY <1>1 DEF AskToLaunch, daemonVars, endVars
  <2>2. asker' \in [Clients -> {"idle", "asked", "lost", "asked again", "refused",
                                "ok", "failed"}]
    BY <1>1, <1>0 DEF AskToLaunch, DaemonTypes
  <2>3. <<c, 1>> \in Clients \X (1..2) /\ <<c, 2>> \in Clients \X (1..2)
    OBVIOUS
  <2> QED
    BY <1>0, <2>1, <2>2, <2>3 DEF DaemonTypes
<1>2. ASSUME NEW c \in Clients, LoseBridge(c) PROVE DaemonTypes'
  BY <1>2, <1>0 DEF LoseBridge, CutOff, daemonVars, endVars, DaemonTypes
<1>3. ASSUME NEW c \in Clients, Look(c) PROVE DaemonTypes'
  <2>1. queue' \subseteq queue \cup {<<c, 1>>, <<c, 2>>}
        /\ UNCHANGED <<gen, up, began, erased>>
    BY <1>3 DEF Look, daemonVars, endVars
  <2>2. asker' \in [Clients -> {"idle", "asked", "lost", "asked again", "refused",
                                "ok", "failed"}]
    BY <1>3, <1>0 DEF Look, DaemonTypes
  <2>3. <<c, 1>> \in Clients \X (1..2) /\ <<c, 2>> \in Clients \X (1..2)
    OBVIOUS
  <2> QED
    BY <1>0, <2>1, <2>2, <2>3 DEF DaemonTypes
<1>4. ASSUME NEW c \in Clients, LookAgain(c) PROVE DaemonTypes'
  BY <1>4, <1>0 DEF LookAgain, daemonVars, endVars, DaemonTypes
<1>5. ASSUME NEW request \in queue, Refuse(request) PROVE DaemonTypes'
  BY <1>5, <1>0 DEF Refuse, Answered, daemonVars, endVars, DaemonTypes
<1>6. ASSUME NEW request \in queue, Take(request) PROVE DaemonTypes'
  BY <1>6, <1>0 DEF Take, TakeFromMap, TakeFromArchive, TakeNothing, Begins, endVars,
     DaemonTypes
<1>7. ASSUME FailEarly PROVE DaemonTypes'
  <2>1. /\ asker' = Answered(job.for, FALSE) /\ job.for \in Clients \X (1..2)
        /\ UNCHANGED <<gen, up, began, queue, erased>>
    BY <1>7, FailsSoundly
  <2> QED
    BY <1>0, <2>1, AnswersTyped DEF DaemonTypes
<1>8. ASSUME WriteRecord PROVE DaemonTypes'
  <2>1. job.for \in Clients \X (1..2)
    BY <1>8, <1>0 DEF WriteRecord, launching, GateInv
  <2> QED
    BY <1>8, <1>0, <2>1 DEF WriteRecord, daemonVars, DaemonTypes
<1>9. ASSUME FailToSpawn PROVE DaemonTypes'
  <2>1. /\ asker' = Answered(job.for, FALSE) /\ job.for \in Clients \X (1..2)
        /\ UNCHANGED <<gen, up, began, queue, erased>>
    BY <1>9, FailsSoundly
  <2> QED
    BY <1>0, <2>1, AnswersTyped DEF DaemonTypes
<1>10. ASSUME SpawnKeeper PROVE DaemonTypes'
  BY <1>10, <1>0 DEF SpawnKeeper, launching, daemonVars, endVars, DaemonTypes
<1>11. ASSUME ConnectToKeeper PROVE DaemonTypes'
  BY <1>11, <1>0 DEF ConnectToKeeper, launching, daemonVars, endVars, DaemonTypes
<1>12. ASSUME GivesUp PROVE DaemonTypes'
  <2>1. /\ asker' = Answered(job.for, FALSE) /\ job.for \in Clients \X (1..2)
        /\ UNCHANGED <<gen, up, began, queue, erased>>
    BY <1>12, FailsSoundly
  <2> QED
    BY <1>0, <2>1, AnswersTyped DEF DaemonTypes
<1>13. ASSUME Insert PROVE DaemonTypes'
  <2>1. /\ asker' = Answered(job.for, TRUE) /\ job.for \in Clients \X (1..2)
        /\ UNCHANGED <<gen, up, began, queue>> /\ erased' = FALSE
    BY <1>13, <1>0 DEF Insert, launching, GateInv
  <2> QED
    BY <1>0, <2>1, AnswersTyped DEF DaemonTypes
<1>13a. ASSUME FailOnceConnected PROVE DaemonTypes'
  <2>1. /\ asker' = Answered(job.for, FALSE) /\ job.for \in Clients \X (1..2)
        /\ UNCHANGED <<gen, up, began, queue, erased>>
    BY <1>13a, FailsSoundly
  <2> QED
    BY <1>0, <2>1, AnswersTyped DEF DaemonTypes
<1>14. ASSUME NEW r \in Runs, KeeperBinds(r) PROVE DaemonTypes'
  BY <1>14, <1>0 DEF KeeperBinds, daemonVars, launchVars, endVars, DaemonTypes
<1>15. ASSUME NEW r \in Runs, KeeperFails(r) PROVE DaemonTypes'
  BY <1>15, <1>0 DEF KeeperFails, daemonVars, launchVars, endVars, DaemonTypes
<1>16. ASSUME NEW r \in Runs, ChildEnds(r) PROVE DaemonTypes'
  BY <1>16, <1>0 DEF ChildEnds, daemonVars, launchVars, endVars, DaemonTypes
<1>17. ASSUME NEW r \in Runs, KeeperLeaves(r) PROVE DaemonTypes'
  BY <1>17, <1>0 DEF KeeperLeaves, Dismissed, daemonVars, launchVars, endVars,
     DaemonTypes
<1>18. ASSUME NEW r \in Runs, ReaderHears(r) PROVE DaemonTypes'
  BY <1>18, <1>0 DEF ReaderHears, daemonVars, launchVars, endVars, DaemonTypes
<1>19. ASSUME NEW r \in Runs, MarkDead(r) PROVE DaemonTypes'
  BY <1>19, <1>0 DEF MarkDead, Persist, daemonVars, launchVars, endVars, DaemonTypes
<1>20. ASSUME Archive PROVE DaemonTypes'
  BY <1>20, <1>0 DEF Archive, daemonVars, launchVars, DaemonTypes
<1>21. ASSUME ArchiveWritten PROVE DaemonTypes'
  BY <1>21, <1>0 DEF ArchiveWritten, Persist, daemonVars, launchVars, DaemonTypes
<1>22. ASSUME ArchiveFiled PROVE DaemonTypes'
  BY <1>22, <1>0 DEF ArchiveFiled, launchVars, endVars, DaemonTypes
<1>23. ASSUME Delete PROVE DaemonTypes'
  BY <1>23, <1>0 DEF Delete, launchVars, DaemonTypes
<1>24. ASSUME Discard PROVE DaemonTypes'
  BY <1>24, <1>0 DEF Discard, daemonVars, launchVars, DaemonTypes
<1>25. ASSUME DeleteFiled PROVE DaemonTypes'
  BY <1>25, <1>0 DEF DeleteFiled, launchVars, DaemonTypes
<1>26. ASSUME HandOver PROVE DaemonTypes'
  BY <1>26, <1>0 DEF HandOver, Gone, CutOff, DaemonTypes
<1>27. ASSUME Killed PROVE DaemonTypes'
  BY <1>27, <1>0 DEF Killed, Gone, CutOff, DaemonTypes
<1>28. ASSUME Start PROVE DaemonTypes'
  <2>1. gen' = gen + 1 /\ up' = TRUE /\ gen < MaxGen
        /\ UNCHANGED <<queue, asker, began, erased>>
    BY <1>28, <1>0 DEF Start, GenInv, launchVars, endVars
  <2>2. gen' \in 1..MaxGen
    <3>1. gen \in 1..MaxGen /\ gen' = gen + 1 /\ gen < MaxGen
      BY <1>0, <2>1 DEF DaemonTypes
    <3> QED
      BY <3>1, MaxGenAssumption
  <2> QED
    BY <1>0, <2>1, <2>2 DEF DaemonTypes
<1>29. CASE UNCHANGED revivalVars
  BY <1>0, <1>29 DEF revivalVars, daemonVars, launchVars, endVars, DaemonTypes
<1>30. QED
  BY <1>1, <1>2, <1>3, <1>4, <1>5, <1>6, <1>7, <1>8, <1>9, <1>10, <1>11, <1>12, <1>13,
     <1>13a, <1>14, <1>15, <1>16, <1>17, <1>18, <1>19, <1>20, <1>21, <1>22, <1>23, <1>24, <1>25,
     <1>26, <1>27, <1>28, <1>29 DEF RevivalNext, Launch

\* Every step keeps the types of the keepers.
LEMMA KeeperTypesKept ==
    ASSUME SoundInv, [RevivalNext]_revivalVars
    PROVE  KeeperTypes'
<1>0. KeeperTypes /\ GateInv /\ JobType
  BY TypesBySlice DEF SoundInv
<1>1. ASSUME NEW c \in Clients, AskToLaunch(c) PROVE KeeperTypes'
  BY <1>1, <1>0 DEF AskToLaunch, daemonVars, handleVars, runVars, endVars, KeeperTypes
<1>2. ASSUME NEW c \in Clients, LoseBridge(c) PROVE KeeperTypes'
  BY <1>2, <1>0 DEF LoseBridge, CutOff, daemonVars, handleVars, runVars, endVars,
     KeeperTypes
<1>3. ASSUME NEW c \in Clients, Look(c) PROVE KeeperTypes'
  BY <1>3, <1>0 DEF Look, daemonVars, handleVars, runVars, endVars, KeeperTypes
<1>4. ASSUME NEW c \in Clients, LookAgain(c) PROVE KeeperTypes'
  BY <1>4, <1>0 DEF LookAgain, daemonVars, handleVars, runVars, endVars, KeeperTypes
<1>5. ASSUME NEW request \in queue, Refuse(request) PROVE KeeperTypes'
  BY <1>5, <1>0 DEF Refuse, Answered, daemonVars, handleVars, runVars, endVars,
     KeeperTypes
<1>6. ASSUME NEW request \in queue, Take(request) PROVE KeeperTypes'
  BY <1>6, <1>0 DEF Take, TakeFromMap, TakeFromArchive, TakeNothing, Begins,
     handleVars, runVars, endVars, KeeperTypes
<1>7. ASSUME FailEarly PROVE KeeperTypes'
  BY <1>7, <1>0 DEF FailEarly, Fail, handleVars, runVars, endVars, KeeperTypes
<1>8. ASSUME WriteRecord PROVE KeeperTypes'
  BY <1>8, <1>0 DEF WriteRecord, launching, daemonVars, handleVars, runVars,
     KeeperTypes
<1>9. ASSUME FailToSpawn PROVE KeeperTypes'
  BY <1>9, <1>0 DEF FailToSpawn, Fail, launching, handleVars, runVars, endVars,
     KeeperTypes
<1>10. ASSUME SpawnKeeper PROVE KeeperTypes'
  <2>1. started + 1 \in Runs /\ started + 1 \in 0..MaxRuns
    BY <1>10, <1>0, MaxRunsAssumption
       DEF SpawnKeeper, launching, GateInv, KeeperTypes, Runs
  <2> QED
    BY <1>10, <1>0, <2>1 DEF SpawnKeeper, daemonVars, handleVars, endVars, KeeperTypes
<1>11. ASSUME ConnectToKeeper PROVE KeeperTypes'
  <2>1. job.run \in Runs
    BY <1>11, <1>0 DEF ConnectToKeeper, launching, GateInv
  <2> QED
    BY <1>11, <1>0, <2>1 DEF ConnectToKeeper, daemonVars, endVars, KeeperTypes
<1>12. ASSUME GivesUp PROVE KeeperTypes'
  BY <1>12, <1>0 DEF GivesUp, Fail, launching, handleVars, runVars, endVars,
     KeeperTypes
<1>13. ASSUME Insert PROVE KeeperTypes'
  <2>1. job.run \in Runs
    BY <1>13, <1>0 DEF Insert, launching, GateInv
  <2> QED
    BY <1>13, <1>0, <2>1 DEF Insert, runVars, KeeperTypes
<1>13a. ASSUME FailOnceConnected PROVE KeeperTypes'
  BY <1>13a, <1>0 DEF FailOnceConnected, handleVars, endVars, KeeperTypes
<1>14. ASSUME NEW r \in Runs, KeeperBinds(r) PROVE KeeperTypes'
  BY <1>14, <1>0 DEF KeeperBinds, daemonVars, handleVars, endVars, KeeperTypes
<1>15. ASSUME NEW r \in Runs, KeeperFails(r) PROVE KeeperTypes'
  BY <1>15, <1>0 DEF KeeperFails, daemonVars, handleVars, endVars, KeeperTypes
<1>16. ASSUME NEW r \in Runs, ChildEnds(r) PROVE KeeperTypes'
  BY <1>16, <1>0 DEF ChildEnds, daemonVars, handleVars, endVars, KeeperTypes
<1>17. ASSUME NEW r \in Runs, KeeperLeaves(r) PROVE KeeperTypes'
  BY <1>17, <1>0 DEF KeeperLeaves, Dismissed, daemonVars, handleVars, endVars,
     KeeperTypes
<1>18. ASSUME NEW r \in Runs, ReaderHears(r) PROVE KeeperTypes'
  BY <1>18, <1>0 DEF ReaderHears, daemonVars, runVars, endVars, KeeperTypes
<1>19. ASSUME NEW r \in Runs, MarkDead(r) PROVE KeeperTypes'
  BY <1>19, <1>0 DEF MarkDead, Persist, daemonVars, runVars, endVars, KeeperTypes
<1>20. ASSUME Archive PROVE KeeperTypes'
  BY <1>20, <1>0 DEF Archive, daemonVars, runVars, KeeperTypes
<1>21. ASSUME ArchiveWritten PROVE KeeperTypes'
  BY <1>21, <1>0 DEF ArchiveWritten, Persist, daemonVars, runVars, KeeperTypes
<1>22. ASSUME ArchiveFiled PROVE KeeperTypes'
  BY <1>22, <1>0 DEF ArchiveFiled, handleVars, runVars, endVars, KeeperTypes
<1>23. ASSUME Delete PROVE KeeperTypes'
  BY <1>23, <1>0 DEF Delete, handleVars, runVars, KeeperTypes
<1>24. ASSUME Discard PROVE KeeperTypes'
  BY <1>24, <1>0 DEF Discard, daemonVars, runVars, KeeperTypes
<1>25. ASSUME DeleteFiled PROVE KeeperTypes'
  BY <1>25, <1>0 DEF DeleteFiled, handleVars, runVars, KeeperTypes
<1>26. ASSUME HandOver PROVE KeeperTypes'
  BY <1>26, <1>0 DEF HandOver, Gone, KeeperTypes
<1>27. ASSUME Killed PROVE KeeperTypes'
  BY <1>27, <1>0 DEF Killed, Gone, KeeperTypes
<1>28. ASSUME Start PROVE KeeperTypes'
  BY <1>28, <1>0 DEF Start, ReadsRecord, Dismisses, Adopts, Retires, handleVars,
     endVars, KeeperTypes
<1>29. CASE UNCHANGED revivalVars
  BY <1>0, <1>29 DEF revivalVars, daemonVars, handleVars, runVars, endVars, KeeperTypes
<1>30. QED
  BY <1>1, <1>2, <1>3, <1>4, <1>5, <1>6, <1>7, <1>8, <1>9, <1>10, <1>11, <1>12, <1>13,
     <1>13a, <1>14, <1>15, <1>16, <1>17, <1>18, <1>19, <1>20, <1>21, <1>22, <1>23, <1>24, <1>25,
     <1>26, <1>27, <1>28, <1>29 DEF RevivalNext, Launch

\* Every step keeps the types of the records.
LEMMA RecordTypesKept ==
    ASSUME SoundInv, [RevivalNext]_revivalVars
    PROVE  RecordTypes'
<1>0. RecordTypes /\ KeeperTypes /\ GateInv /\ JobType
  BY TypesBySlice DEF SoundInv
<1>1. ASSUME NEW c \in Clients, AskToLaunch(c) PROVE RecordTypes'
  BY <1>1, <1>0 DEF AskToLaunch, daemonVars, handleVars, RecordTypes
<1>2. ASSUME NEW c \in Clients, LoseBridge(c) PROVE RecordTypes'
  BY <1>2, <1>0 DEF LoseBridge, CutOff, daemonVars, handleVars, RecordTypes
<1>3. ASSUME NEW c \in Clients, Look(c) PROVE RecordTypes'
  BY <1>3, <1>0 DEF Look, daemonVars, handleVars, RecordTypes
<1>4. ASSUME NEW c \in Clients, LookAgain(c) PROVE RecordTypes'
  BY <1>4, <1>0 DEF LookAgain, daemonVars, handleVars, RecordTypes
<1>5. ASSUME NEW request \in queue, Refuse(request) PROVE RecordTypes'
  BY <1>5, <1>0 DEF Refuse, Answered, daemonVars, handleVars, RecordTypes
<1>6. ASSUME NEW request \in queue, Take(request) PROVE RecordTypes'
  BY <1>6, <1>0 DEF Take, TakeFromMap, TakeFromArchive, TakeNothing, Begins,
     handleVars, RecordTypes
<1>7. ASSUME FailEarly PROVE RecordTypes'
  BY <1>7, <1>0, FailsSoundly DEF RecordTypes
<1>8. ASSUME WriteRecord PROVE RecordTypes'
  <2>1. /\ job.for[1] \in Clients /\ (job.took # Nothing => job.took.who \in Clients)
        /\ UNCHANGED <<filed, copy>>
    BY <1>8, <1>0 DEF WriteRecord, launching, GateInv, JobType, Records, daemonVars,
       handleVars
  <2>2. file' \in Records
    BY <1>8, <2>1, RecordsMade DEF WriteRecord
  <2> QED
    BY <1>0, <2>1, <2>2 DEF RecordTypes
<1>9. ASSUME FailToSpawn PROVE RecordTypes'
  BY <1>9, <1>0, FailsSoundly DEF RecordTypes
<1>10. ASSUME SpawnKeeper PROVE RecordTypes'
  BY <1>10, <1>0 DEF SpawnKeeper, launching, daemonVars, handleVars, RecordTypes
<1>11. ASSUME ConnectToKeeper PROVE RecordTypes'
  BY <1>11, <1>0 DEF ConnectToKeeper, launching, daemonVars, RecordTypes
<1>12. ASSUME GivesUp PROVE RecordTypes'
  BY <1>12, <1>0, FailsSoundly DEF RecordTypes
<1>13. ASSUME Insert PROVE RecordTypes'
  <2>1. job.for[1] \in Clients /\ (job.took # Nothing => job.took.who \in Clients)
    BY <1>13, <1>0 DEF Insert, launching, GateInv, JobType, Records
  <2>2. PICK x \in Records : file' = x /\ copy' = [copy EXCEPT ![job.run] = x]
    BY <1>13, <2>1, RecordsMade DEF Insert
  <2> QED
    BY <1>13, <1>0, <2>2 DEF Insert, RecordTypes
<1>13a. ASSUME FailOnceConnected PROVE RecordTypes'
  BY <1>13a, <1>0, FailsSoundly DEF RecordTypes
<1>14. ASSUME NEW r \in Runs, KeeperBinds(r) PROVE RecordTypes'
  BY <1>14, <1>0 DEF KeeperBinds, daemonVars, handleVars, RecordTypes
<1>15. ASSUME NEW r \in Runs, KeeperFails(r) PROVE RecordTypes'
  BY <1>15, <1>0 DEF KeeperFails, daemonVars, handleVars, RecordTypes
<1>16. ASSUME NEW r \in Runs, ChildEnds(r) PROVE RecordTypes'
  BY <1>16, <1>0 DEF ChildEnds, daemonVars, handleVars, RecordTypes
<1>17. ASSUME NEW r \in Runs, KeeperLeaves(r) PROVE RecordTypes'
  BY <1>17, <1>0 DEF KeeperLeaves, Dismissed, daemonVars, handleVars, RecordTypes
<1>18. ASSUME NEW r \in Runs, ReaderHears(r) PROVE RecordTypes'
  BY <1>18, <1>0 DEF ReaderHears, daemonVars, RecordTypes
<1>19. ASSUME NEW r \in Runs, MarkDead(r) PROVE RecordTypes'
  BY <1>19, <1>0, DeathsRecorded DEF RecordTypes
<1>20. ASSUME Archive PROVE RecordTypes'
  BY <1>20, <1>0, ArchivedSoundly DEF RecordTypes
<1>21. ASSUME ArchiveWritten PROVE RecordTypes'
  BY <1>21, <1>0, DeathsRecorded DEF RecordTypes
<1>22. ASSUME ArchiveFiled PROVE RecordTypes'
  BY <1>22, <1>0, ArchivedSoundly DEF RecordTypes
<1>23. ASSUME Delete PROVE RecordTypes'
  BY <1>23, <1>0 DEF Delete, handleVars, RecordTypes
<1>24. ASSUME Discard PROVE RecordTypes'
  BY <1>24, <1>0 DEF Discard, daemonVars, RecordTypes
<1>25. ASSUME DeleteFiled PROVE RecordTypes'
  BY <1>25, <1>0 DEF DeleteFiled, handleVars, RecordTypes
<1>26. ASSUME HandOver PROVE RecordTypes'
  BY <1>26, <1>0 DEF HandOver, Gone, RecordTypes
<1>27. ASSUME Killed PROVE RecordTypes'
  BY <1>27, <1>0 DEF Killed, Gone, RecordTypes
<1>28. ASSUME Start PROVE RecordTypes'
  BY <1>28, <1>0, StartsSoundly DEF RecordTypes
<1>29. CASE UNCHANGED revivalVars
  BY <1>0, <1>29 DEF revivalVars, daemonVars, handleVars, RecordTypes
<1>30. QED
  BY <1>1, <1>2, <1>3, <1>4, <1>5, <1>6, <1>7, <1>8, <1>9, <1>10, <1>11, <1>12, <1>13,
     <1>13a, <1>14, <1>15, <1>16, <1>17, <1>18, <1>19, <1>20, <1>21, <1>22, <1>23, <1>24, <1>25,
     <1>26, <1>27, <1>28, <1>29 DEF RevivalNext, Launch

\* Every step keeps the type of the launch in hand.
LEMMA JobTypeKept ==
    ASSUME SoundInv, [RevivalNext]_revivalVars
    PROVE  JobType'
<1>0. JobType /\ DaemonTypes /\ RecordTypes /\ KeeperTypes /\ GateInv
  BY TypesBySlice DEF SoundInv
<1>1. ASSUME NEW c \in Clients, AskToLaunch(c) PROVE JobType'
  BY <1>1, <1>0 DEF AskToLaunch, JobType
<1>2. ASSUME NEW c \in Clients, LoseBridge(c) PROVE JobType'
  BY <1>2, <1>0 DEF LoseBridge, CutOff, JobType
<1>3. ASSUME NEW c \in Clients, Look(c) PROVE JobType'
  BY <1>3, <1>0 DEF Look, JobType
<1>4. ASSUME NEW c \in Clients, LookAgain(c) PROVE JobType'
  BY <1>4, <1>0 DEF LookAgain, JobType
<1>5. ASSUME NEW request \in queue, Refuse(request) PROVE JobType'
  BY <1>5, <1>0 DEF Refuse, Answered, JobType
<1>6. ASSUME NEW request \in queue, Take(request) PROVE JobType'
  <2>1. PICK took \in Records \cup {Nothing} :
          job' = [at |-> "taken", for |-> request, took |-> took, run |-> NoRun]
    <3>1. mapped # NoRun => copy[mapped] \in Records \cup {Nothing}
      BY <1>0 DEF KeeperTypes, RecordTypes
    <3>2. filed \in Records \cup {Nothing}
      BY <1>0 DEF RecordTypes
    <3> QED
      BY <1>6, <3>1, <3>2 DEF Take, TakeFromMap, TakeFromArchive, TakeNothing, Begins
  <2>2. request \in Clients \X (1..2)
    BY <1>0 DEF DaemonTypes
  <2> QED
    BY <2>1, <2>2 DEF JobType
<1>7. ASSUME FailEarly PROVE JobType'
  BY <1>7, FailsSoundly DEF JobType, Idle
<1>8. ASSUME WriteRecord PROVE JobType'
  BY <1>8, <1>0 DEF WriteRecord, launching, JobType
<1>9. ASSUME FailToSpawn PROVE JobType'
  BY <1>9, FailsSoundly DEF JobType, Idle
<1>10. ASSUME SpawnKeeper PROVE JobType'
  <2>1. started + 1 \in Runs
        /\ job' = [job EXCEPT !.at = "spawned", !.run = started + 1]
    BY <1>10, <1>0, MaxRunsAssumption
       DEF SpawnKeeper, launching, GateInv, KeeperTypes, Runs
  <2> QED
    BY <1>0, <2>1 DEF JobType
<1>11. ASSUME ConnectToKeeper PROVE JobType'
  BY <1>11, <1>0 DEF ConnectToKeeper, launching, JobType
<1>12. ASSUME GivesUp PROVE JobType'
  BY <1>12, FailsSoundly DEF JobType, Idle
<1>13. ASSUME Insert PROVE JobType'
  BY <1>13 DEF Insert, JobType, Idle
<1>13a. ASSUME FailOnceConnected PROVE JobType'
  BY <1>13a, FailsSoundly DEF JobType, Idle
<1>14. ASSUME NEW r \in Runs, KeeperBinds(r) PROVE JobType'
  BY <1>14, <1>0 DEF KeeperBinds, launchVars, JobType
<1>15. ASSUME NEW r \in Runs, KeeperFails(r) PROVE JobType'
  BY <1>15, <1>0 DEF KeeperFails, launchVars, JobType
<1>16. ASSUME NEW r \in Runs, ChildEnds(r) PROVE JobType'
  BY <1>16, <1>0 DEF ChildEnds, launchVars, JobType
<1>17. ASSUME NEW r \in Runs, KeeperLeaves(r) PROVE JobType'
  BY <1>17, <1>0 DEF KeeperLeaves, Dismissed, launchVars, JobType
<1>18. ASSUME NEW r \in Runs, ReaderHears(r) PROVE JobType'
  BY <1>18, <1>0 DEF ReaderHears, launchVars, JobType
<1>19. ASSUME NEW r \in Runs, MarkDead(r) PROVE JobType'
  BY <1>19, <1>0 DEF MarkDead, Persist, launchVars, JobType
<1>20. ASSUME Archive PROVE JobType'
  BY <1>20, <1>0 DEF Archive, launchVars, JobType
<1>21. ASSUME ArchiveWritten PROVE JobType'
  BY <1>21, <1>0 DEF ArchiveWritten, Persist, launchVars, JobType
<1>22. ASSUME ArchiveFiled PROVE JobType'
  BY <1>22, <1>0 DEF ArchiveFiled, launchVars, JobType
<1>23. ASSUME Delete PROVE JobType'
  BY <1>23, <1>0 DEF Delete, launchVars, JobType
<1>24. ASSUME Discard PROVE JobType'
  BY <1>24, <1>0 DEF Discard, launchVars, JobType
<1>25. ASSUME DeleteFiled PROVE JobType'
  BY <1>25, <1>0 DEF DeleteFiled, launchVars, JobType
<1>26. ASSUME HandOver PROVE JobType'
  BY <1>26 DEF HandOver, Gone, JobType, Idle
<1>27. ASSUME Killed PROVE JobType'
  BY <1>27 DEF Killed, Gone, JobType, Idle
<1>28. ASSUME Start PROVE JobType'
  BY <1>28, <1>0 DEF Start, ReadsRecord, Dismisses, Adopts, Retires, launchVars,
     JobType
<1>29. CASE UNCHANGED revivalVars
  BY <1>0, <1>29 DEF revivalVars, launchVars, JobType
<1>30. QED
  BY <1>1, <1>2, <1>3, <1>4, <1>5, <1>6, <1>7, <1>8, <1>9, <1>10, <1>11, <1>12, <1>13,
     <1>13a, <1>14, <1>15, <1>16, <1>17, <1>18, <1>19, <1>20, <1>21, <1>22, <1>23, <1>24, <1>25,
     <1>26, <1>27, <1>28, <1>29 DEF RevivalNext, Launch

\* A launch behind the gate keeps what it needs, whatever else happens.
LEMMA GateKept ==
    ASSUME SoundInv, [RevivalNext]_revivalVars
    PROVE  (GenInv /\ GateInv)'
<1>0. GenInv /\ GateInv /\ JobType /\ KeeperTypes
  BY TypesBySlice DEF SoundInv
<1>1. ASSUME NEW c \in Clients, AskToLaunch(c) PROVE (GenInv /\ GateInv)'
  BY <1>1, <1>0 DEF AskToLaunch, daemonVars, runVars, GenInv, GateInv, Idle
<1>2. ASSUME NEW c \in Clients, LoseBridge(c) PROVE (GenInv /\ GateInv)'
  BY <1>2, <1>0 DEF LoseBridge, CutOff, daemonVars, runVars, GenInv, GateInv, Idle
<1>3. ASSUME NEW c \in Clients, Look(c) PROVE (GenInv /\ GateInv)'
  BY <1>3, <1>0 DEF Look, daemonVars, runVars, GenInv, GateInv, Idle
<1>4. ASSUME NEW c \in Clients, LookAgain(c) PROVE (GenInv /\ GateInv)'
  BY <1>4, <1>0 DEF LookAgain, daemonVars, runVars, GenInv, GateInv, Idle
<1>5. ASSUME NEW request \in queue, Refuse(request) PROVE (GenInv /\ GateInv)'
  BY <1>5, <1>0 DEF Refuse, Answered, daemonVars, runVars, GenInv, GateInv, Idle
<1>6. ASSUME NEW request \in queue, Take(request) PROVE (GenInv /\ GateInv)'
  <2>1. job'.at = "taken" /\ job'.for = request /\ UNCHANGED <<gen, up, started>>
    BY <1>6 DEF Take, TakeFromMap, TakeFromArchive, TakeNothing, Begins, runVars
  <2>2. request \in Clients \X (1..2)
    BY AskTypes
  <2> QED
    BY <1>0, <2>1, <2>2 DEF GenInv, GateInv
<1>7. ASSUME FailEarly PROVE (GenInv /\ GateInv)'
  BY <1>7, <1>0, FailsSoundly DEF GenInv, GateInv, Idle
<1>8. ASSUME WriteRecord PROVE (GenInv /\ GateInv)'
  BY <1>8, <1>0 DEF WriteRecord, launching, JobType, GenInv, GateInv, daemonVars, runVars
<1>9. ASSUME FailToSpawn PROVE (GenInv /\ GateInv)'
  BY <1>9, <1>0, FailsSoundly DEF GenInv, GateInv, Idle
<1>10. ASSUME SpawnKeeper PROVE (GenInv /\ GateInv)'
  <2>1. started + 1 \in Runs /\ job.for \in Clients \X (1..2)
    BY <1>10, <1>0, NumbersOfRuns DEF SpawnKeeper, launching, GateInv, KeeperTypes
  <2> QED
    BY <1>10, <1>0, <2>1 DEF SpawnKeeper, JobType, GenInv, GateInv, daemonVars
<1>11. ASSUME ConnectToKeeper PROVE (GenInv /\ GateInv)'
  BY <1>11, <1>0 DEF ConnectToKeeper, launching, JobType, GenInv, GateInv, daemonVars
<1>12. ASSUME GivesUp PROVE (GenInv /\ GateInv)'
  BY <1>12, <1>0, FailsSoundly DEF GenInv, GateInv, Idle
<1>13. ASSUME Insert PROVE (GenInv /\ GateInv)'
  BY <1>13, <1>0 DEF Insert, launching, runVars, GenInv, GateInv, Idle
<1>13a. ASSUME FailOnceConnected PROVE (GenInv /\ GateInv)'
  BY <1>13a, <1>0, FailsSoundly DEF GenInv, GateInv, Idle
<1>14. ASSUME NEW r \in Runs, KeeperBinds(r) PROVE (GenInv /\ GateInv)'
  BY <1>14, <1>0 DEF KeeperBinds, daemonVars, launchVars, GenInv, GateInv, Idle
<1>15. ASSUME NEW r \in Runs, KeeperFails(r) PROVE (GenInv /\ GateInv)'
  BY <1>15, <1>0 DEF KeeperFails, daemonVars, launchVars, GenInv, GateInv, Idle
<1>16. ASSUME NEW r \in Runs, ChildEnds(r) PROVE (GenInv /\ GateInv)'
  BY <1>16, <1>0 DEF ChildEnds, daemonVars, launchVars, GenInv, GateInv, Idle
<1>17. ASSUME NEW r \in Runs, KeeperLeaves(r) PROVE (GenInv /\ GateInv)'
  BY <1>17, <1>0 DEF KeeperLeaves, Dismissed, daemonVars, launchVars, GenInv, GateInv,
     Idle
<1>18. ASSUME NEW r \in Runs, ReaderHears(r) PROVE (GenInv /\ GateInv)'
  BY <1>18, <1>0 DEF ReaderHears, daemonVars, runVars, launchVars, GenInv, GateInv,
     Idle
<1>19. ASSUME NEW r \in Runs, MarkDead(r) PROVE (GenInv /\ GateInv)'
  BY <1>19, <1>0 DEF MarkDead, Persist, daemonVars, runVars, launchVars, GenInv,
     GateInv, Idle
<1>20. ASSUME Archive PROVE (GenInv /\ GateInv)'
  BY <1>20, <1>0 DEF Archive, daemonVars, runVars, launchVars, GenInv, GateInv, Idle
<1>21. ASSUME ArchiveWritten PROVE (GenInv /\ GateInv)'
  BY <1>21, <1>0 DEF ArchiveWritten, Persist, daemonVars, runVars, launchVars, GenInv,
     GateInv, Idle
<1>22. ASSUME ArchiveFiled PROVE (GenInv /\ GateInv)'
  BY <1>22, <1>0 DEF ArchiveFiled, runVars, launchVars, GenInv, GateInv, Idle
<1>23. ASSUME Delete PROVE (GenInv /\ GateInv)'
  BY <1>23, <1>0 DEF Delete, runVars, launchVars, GenInv, GateInv, Idle
<1>24. ASSUME Discard PROVE (GenInv /\ GateInv)'
  BY <1>24, <1>0 DEF Discard, daemonVars, runVars, launchVars, GenInv, GateInv, Idle
<1>25. ASSUME DeleteFiled PROVE (GenInv /\ GateInv)'
  BY <1>25, <1>0 DEF DeleteFiled, runVars, launchVars, GenInv, GateInv, Idle
<1>26. ASSUME HandOver PROVE (GenInv /\ GateInv)'
  BY <1>26, <1>0 DEF HandOver, Gone, GenInv, GateInv, Idle
<1>27. ASSUME Killed PROVE (GenInv /\ GateInv)'
  BY <1>27, <1>0 DEF Killed, Gone, GenInv, GateInv, Idle
<1>28. ASSUME Start PROVE (GenInv /\ GateInv)'
  BY <1>28, <1>0, StartsSoundly DEF GenInv, GateInv
<1>29. CASE UNCHANGED revivalVars
  BY <1>0, <1>29 DEF revivalVars, daemonVars, runVars, launchVars, GenInv, GateInv, Idle
<1>30. QED
  BY <1>1, <1>2, <1>3, <1>4, <1>5, <1>6, <1>7, <1>8, <1>9, <1>10, <1>11, <1>12, <1>13,
     <1>13a, <1>14, <1>15, <1>16, <1>17, <1>18, <1>19, <1>20, <1>21, <1>22, <1>23, <1>24, <1>25,
     <1>26, <1>27, <1>28, <1>29 DEF RevivalNext, Launch

\* Whoever looks after a handle finds its record, whatever else happens.
LEMMA HeldKept ==
    ASSUME SoundInv, [RevivalNext]_revivalVars
    PROVE  HeldInv'
<1>0. HeldInv /\ KeeperTypes /\ RecordTypes /\ JobType /\ GateInv
  BY TypesBySlice DEF SoundInv
<1>1. ASSUME NEW c \in Clients, AskToLaunch(c) PROVE HeldInv'
  BY <1>1, <1>0 DEF AskToLaunch, daemonVars, handleVars, endVars, HeldInv, Reads,
     KeeperTypes
<1>2. ASSUME NEW c \in Clients, LoseBridge(c) PROVE HeldInv'
  BY <1>2, <1>0 DEF LoseBridge, CutOff, daemonVars, handleVars, endVars, HeldInv,
     Reads, KeeperTypes
<1>3. ASSUME NEW c \in Clients, Look(c) PROVE HeldInv'
  BY <1>3, <1>0 DEF Look, daemonVars, handleVars, endVars, HeldInv, Reads, KeeperTypes
<1>4. ASSUME NEW c \in Clients, LookAgain(c) PROVE HeldInv'
  BY <1>4, <1>0 DEF LookAgain, daemonVars, handleVars, endVars, HeldInv, Reads,
     KeeperTypes
<1>5. ASSUME NEW request \in queue, Refuse(request) PROVE HeldInv'
  BY <1>5, <1>0 DEF Refuse, Answered, daemonVars, handleVars, endVars, HeldInv, Reads,
     KeeperTypes
<1>6. ASSUME NEW request \in queue, Take(request) PROVE HeldInv'
  BY <1>6, <1>0 DEF Take, TakeFromMap, TakeFromArchive, TakeNothing, Begins,
     handleVars, endVars, HeldInv, Reads, KeeperTypes
<1>7. ASSUME FailEarly PROVE HeldInv'
  BY <1>7, <1>0, FailsSoundly DEF HeldInv, Reads
<1>8. ASSUME WriteRecord PROVE HeldInv'
  BY <1>8, <1>0 DEF WriteRecord, launching, daemonVars, handleVars, HeldInv, Reads,
     KeeperTypes
<1>9. ASSUME FailToSpawn PROVE HeldInv'
  BY <1>9, <1>0, FailsSoundly DEF HeldInv, Reads
<1>10. ASSUME SpawnKeeper PROVE HeldInv'
  BY <1>10, <1>0 DEF SpawnKeeper, launching, daemonVars, handleVars, endVars, HeldInv,
     Reads, KeeperTypes
<1>11. ASSUME ConnectToKeeper PROVE HeldInv'
  BY <1>11, <1>0 DEF ConnectToKeeper, launching, daemonVars, endVars, HeldInv, Reads,
     KeeperTypes
<1>12. ASSUME GivesUp PROVE HeldInv'
  BY <1>12, <1>0, FailsSoundly DEF HeldInv, Reads
<1>13. ASSUME Insert PROVE HeldInv'
  <2>1. job.run \in Runs /\ job.for[1] \in Clients
        /\ (job.took # Nothing => job.took.who \in Clients)
    BY <1>13, <1>0 DEF Insert, launching, GateInv, JobType, Records
  <2>2. PICK x \in Records : copy' = [copy EXCEPT ![job.run] = x]
    BY <1>13, <2>1, RecordsMade DEF Insert
  <2>3. mapped' = job.run /\ reader' = [reader EXCEPT ![job.run] = "reading"]
        /\ UNCHANGED archiving
    BY <1>13 DEF Insert
  <2> QED
    BY <1>0, <2>1, <2>2, <2>3, NothingIsNoRecord
       DEF HeldInv, Reads, KeeperTypes, RecordTypes
<1>13a. ASSUME FailOnceConnected PROVE HeldInv'
  BY <1>13a, <1>0, FailsSoundly DEF HeldInv, Reads
<1>14. ASSUME NEW r \in Runs, KeeperBinds(r) PROVE HeldInv'
  BY <1>14, <1>0 DEF KeeperBinds, daemonVars, handleVars, endVars, HeldInv, Reads,
     KeeperTypes
<1>15. ASSUME NEW r \in Runs, KeeperFails(r) PROVE HeldInv'
  BY <1>15, <1>0 DEF KeeperFails, daemonVars, handleVars, endVars, HeldInv, Reads,
     KeeperTypes
<1>16. ASSUME NEW r \in Runs, ChildEnds(r) PROVE HeldInv'
  BY <1>16, <1>0 DEF ChildEnds, daemonVars, handleVars, endVars, HeldInv, Reads,
     KeeperTypes
<1>17. ASSUME NEW r \in Runs, KeeperLeaves(r) PROVE HeldInv'
  BY <1>17, <1>0 DEF KeeperLeaves, Dismissed, daemonVars, handleVars, endVars,
     HeldInv, Reads, KeeperTypes
<1>18. ASSUME NEW r \in Runs, ReaderHears(r) PROVE HeldInv'
  BY <1>18, <1>0 DEF ReaderHears, daemonVars, endVars, HeldInv, Reads, KeeperTypes
<1>19. ASSUME NEW r \in Runs, MarkDead(r) PROVE HeldInv'
  BY <1>19, <1>0, DeathsRecorded, NothingIsNoRecord
     DEF HeldInv, Reads, KeeperTypes, RecordTypes
<1>20. ASSUME Archive PROVE HeldInv'
  <2>1. UNCHANGED <<mapped, reader>>
    BY <1>20 DEF Archive, daemonVars
  <2> QED
    BY <1>20, <1>0, <2>1, ArchivedSoundly, NothingIsNoRecord
       DEF HeldInv, Reads, KeeperTypes, RecordTypes
<1>21. ASSUME ArchiveWritten PROVE HeldInv'
  BY <1>21, <1>0, DeathsRecorded, NothingIsNoRecord
     DEF HeldInv, Reads, KeeperTypes, RecordTypes
<1>22. ASSUME ArchiveFiled PROVE HeldInv'
  BY <1>22, <1>0 DEF ArchiveFiled, handleVars, endVars, HeldInv, Reads, KeeperTypes
<1>23. ASSUME Delete PROVE HeldInv'
  BY <1>23, <1>0 DEF Delete, handleVars, HeldInv, Reads, KeeperTypes
<1>24. ASSUME Discard PROVE HeldInv'
  BY <1>24, <1>0 DEF Discard, daemonVars, HeldInv, Reads, KeeperTypes
<1>25. ASSUME DeleteFiled PROVE HeldInv'
  BY <1>25, <1>0 DEF DeleteFiled, handleVars, HeldInv, Reads, KeeperTypes
<1>26. ASSUME HandOver PROVE HeldInv'
  BY <1>26, <1>0 DEF HandOver, Gone, HeldInv, Reads
<1>27. ASSUME Killed PROVE HeldInv'
  BY <1>27, <1>0 DEF Killed, Gone, HeldInv, Reads
<1>28. ASSUME Start PROVE HeldInv'
  BY <1>28, <1>0, StartsSoundly, NothingIsNoRecord
     DEF HeldInv, Reads, KeeperTypes, RecordTypes
<1>29. CASE UNCHANGED revivalVars
  BY <1>0, <1>29 DEF revivalVars, daemonVars, handleVars, endVars, HeldInv, Reads,
     KeeperTypes
<1>30. QED
  BY <1>1, <1>2, <1>3, <1>4, <1>5, <1>6, <1>7, <1>8, <1>9, <1>10, <1>11, <1>12, <1>13,
     <1>13a, <1>14, <1>15, <1>16, <1>17, <1>18, <1>19, <1>20, <1>21, <1>22, <1>23, <1>24, <1>25,
     <1>26, <1>27, <1>28, <1>29 DEF RevivalNext, Launch

\* No step takes back that a launch failed late, and one step says so.
LEMMA LateStays ==
    ASSUME [RevivalNext]_revivalVars
    PROVE  IF FailOnceConnected THEN late' = TRUE ELSE late' = late
<1> USE DEF endVars
<1>1. FailOnceConnected => late' = TRUE
  BY DEF FailOnceConnected
<1>2. ASSUME NEW c \in Clients, AskToLaunch(c) \/ LoseBridge(c) \/ Look(c) \/ LookAgain(c)
      PROVE  late' = late
  BY <1>2 DEF AskToLaunch, LoseBridge, Look, LookAgain
<1>3. ASSUME NEW request \in queue, Refuse(request) \/ Take(request)
      PROVE  late' = late
  BY <1>3 DEF Refuse, Take
<1>4. FailEarly \/ FailToSpawn \/ GivesUp => late' = late
  BY DEF FailEarly, FailToSpawn, GivesUp, Fail
<1>5. WriteRecord \/ SpawnKeeper \/ ConnectToKeeper \/ Insert => late' = late
  BY DEF WriteRecord, SpawnKeeper, ConnectToKeeper, Insert
<1>6. ASSUME NEW r \in Runs,
             KeeperBinds(r) \/ KeeperFails(r) \/ ChildEnds(r) \/ KeeperLeaves(r)
                \/ ReaderHears(r) \/ MarkDead(r)
      PROVE  late' = late
  BY <1>6 DEF KeeperBinds, KeeperFails, ChildEnds, KeeperLeaves, ReaderHears, MarkDead
<1>7. Archive \/ ArchiveWritten \/ ArchiveFiled => late' = late
  BY DEF Archive, ArchiveWritten, ArchiveFiled
<1>8. Delete \/ Discard \/ DeleteFiled => late' = late
  BY DEF Delete, Discard, DeleteFiled
<1>9. HandOver \/ Killed \/ Start => late' = late
  BY DEF HandOver, Killed, Gone, Start
<1>10. UNCHANGED revivalVars => late' = late
  BY DEF revivalVars
<1> QED
  BY <1>1, <1>2, <1>3, <1>4, <1>5, <1>6, <1>7, <1>8, <1>9, <1>10 DEF RevivalNext, Launch

\* The types are kept by every step, whatever else happens.
LEMMA SoundSteps == SoundInv /\ [RevivalNext]_revivalVars => SoundInv'
<1> SUFFICES ASSUME SoundInv, [RevivalNext]_revivalVars PROVE SoundInv'
  OBVIOUS
<1>1. DaemonTypes' /\ LateType' /\ KeeperTypes' /\ RecordTypes' /\ JobType'
  <2>1. LateType
    BY DEF SoundInv, RevivalTypeOK, LateType
  <2>2. LateType'
    BY <2>1, LateStays DEF LateType
  <2> QED
    BY <2>2, DaemonTypesKept, KeeperTypesKept, RecordTypesKept, JobTypeKept
<1>2. RevivalTypeOK'
  BY <1>1, TypesBySlice, PTL
<1> QED
  BY <1>2, GateKept, HeldKept DEF SoundInv

\* At the start there is nothing to account for.
LEMMA SoundInitially == RevivalInit => SoundInv
<1> SUFFICES ASSUME RevivalInit PROVE SoundInv
  OBVIOUS
<1>1. RevivalTypeOK
  <2>1. /\ gen \in 1..MaxGen /\ started \in 0..MaxRuns
        /\ copy \in [Runs -> Records \cup {Nothing}] /\ shut \in [Runs -> BOOLEAN]
        /\ to \in [Runs -> Runs \cup {NoRun}] /\ client \in [Runs -> Runs \cup {NoRun}]
        /\ asker = [c \in Clients |-> "idle"]
    BY MaxRunsAssumption, MaxGenAssumption DEF RevivalInit
  <2>2. job \in [at : {"idle", "taken", "written", "spawned", "greeted"},
                for : {<<>>} \cup (Clients \X (1..2)),
                took : Records \cup {Nothing}, run : Runs \cup {NoRun}]
    BY DEF RevivalInit, Idle
  <2> QED
    BY <2>1, <2>2 DEF RevivalInit, RevivalTypeOK
<1> QED
  BY <1>1 DEF RevivalInit, SoundInv, GenInv, GateInv, HeldInv, Reads, Idle

\* The types hold in every state, whatever else happens.
THEOREM RevivalTypeCorrect == RevivalSpec => []RevivalTypeOK
<1>1. RevivalSpec => []SoundInv
  BY SoundInitially, SoundSteps, PTL DEF RevivalSpec
<1>2. SoundInv => RevivalTypeOK
  BY DEF SoundInv
<1> QED BY <1>1, <1>2, PTL

\* There is a record: on file, in one of the daemon's indexes, with a launch, or
\* in a handle.
Recorded ==
    \/ file # Nothing \/ filed # Nothing \/ job.took # Nothing
    \/ \E r \in Runs : copy[r] # Nothing

\* How far a client has come says whether its launch has been begun.
BegunBy(c) ==
    /\ asker[c] # "idle" /\ c # Minter => Minter \in began
    /\ asker[c] \in {"lost", "asked again", "refused"} /\ c # Minter => c \in began
    /\ asker[c] = "ok" => c \in began

\* Nothing is recorded before the client that made the number up was served.
BeganInv ==
    /\ Recorded \/ began # {} => Minter \in began
    /\ \A c \in Clients : BegunBy(c)
    /\ \A q \in queue : asker[q[1]] # "idle"
    /\ job.at # "idle" => asker[job.for[1]] # "idle"
    /\ job.at \in {"written", "spawned", "greeted"} => job.for[1] \in began

\* No launch of a number that is taken is lost before it has been begun.
BridgesHold == "bridge lost under a revival" \notin Mishaps

\* Whom an answer reaches, and what it can make of a client.
LEMMA AnswersGiven ==
    ASSUME SoundInv, NEW request \in Clients \X (1..2), NEW ok \in BOOLEAN,
           asker' = Answered(request, ok)
    PROVE  \A c \in Clients :
              \/ asker'[c] = asker[c]
              \/ /\ c = request[1] /\ asker[c] # "idle"
                 /\ \/ ok /\ asker'[c] = "ok"
                    \/ ~ok /\ asker'[c] = "failed"
                    \/ ~ok /\ asker[c] = "asked again" /\ asker'[c] = "refused"
BY AskTypes DEF Answered

\* What the end of its connection can make of a client.
LEMMA ConnectionsGone ==
    ASSUME SoundInv, NEW lost \in SUBSET Clients, asker' = CutOff(lost)
    PROVE  \A c \in Clients :
              \/ asker'[c] = asker[c]
              \/ asker[c] # "idle" /\ asker'[c] = "failed"
              \/ c \in lost /\ asker[c] = "asked" /\ asker'[c] = "lost"
BY AskTypes DEF CutOff

\* Every step leaves the clients with what is true.
LEMMA BeganKept ==
    ASSUME BridgesHold, SoundInv, BeganInv, [RevivalNext]_revivalVars
    PROVE  BeganInv'
<1>0. BeganInv /\ GateInv /\ HeldInv /\ KeeperTypes /\ RecordTypes /\ JobType
  BY TypesBySlice DEF SoundInv
<1>1. ASSUME NEW c \in Clients, AskToLaunch(c) PROVE BeganInv'
  <2>1. /\ UNCHANGED <<file, filed, copy, job, began>>
        /\ \A d \in Clients : d # c => asker'[d] = asker[d]
        /\ asker'[c] # "idle" /\ queue' \subseteq queue \cup {<<c, 1>>, <<c, 2>>}
        /\ queue \subseteq Clients \X (1..2)
    BY <1>1, AskTypes DEF AskToLaunch, daemonVars, handleVars
  <2>2. BegunBy(c)'
    BY <1>1, <1>0, AskTypes DEF AskToLaunch, daemonVars, BeganInv, BegunBy
  <2>3. \A q \in queue' : asker'[q[1]] # "idle"
    BY <1>0, <2>1 DEF BeganInv
  <2>4. job.at # "idle" => asker'[job.for[1]] # "idle"
    BY <1>0, <2>1 DEF BeganInv, GateInv
  <2> QED
    BY <1>0, <2>1, <2>2, <2>3, <2>4 DEF BeganInv, Recorded, BegunBy
<1>2. ASSUME NEW c \in Clients, LoseBridge(c) PROVE BeganInv'
  <2>1. /\ asker' = CutOff({c}) /\ MayBeLost(c)
        /\ UNCHANGED <<file, filed, copy, job, queue, began>>
    BY <1>2 DEF LoseBridge, daemonVars, handleVars
  <2>2. asker[c] = "asked" => c = Minter \/ c \in began
    BY <2>1 DEF MayBeLost, Waiting, BridgesHold
  <2>3. ASSUME NEW d \in Clients PROVE BegunBy(d)'
    <3>1. \/ asker'[d] = asker[d]
          \/ asker[d] # "idle" /\ asker'[d] = "failed"
          \/ d = c /\ asker[c] = "asked" /\ asker'[c] = "lost"
      BY <2>1, ConnectionsGone, {c} \in SUBSET Clients
    <3> QED
      BY <1>0, <2>1, <2>2, <3>1 DEF BeganInv, BegunBy
  <2>4. \A d \in Clients : asker[d] # "idle" => asker'[d] # "idle"
    BY <2>1, ConnectionsGone
  <2> QED
    BY <1>0, <2>1, <2>3, <2>4, AskTypes DEF BeganInv, Recorded, GateInv
<1>3. ASSUME NEW c \in Clients, Look(c) PROVE BeganInv'
  <2>1. /\ UNCHANGED <<file, filed, copy, job, began>>
        /\ \A d \in Clients : d # c => asker'[d] = asker[d]
        /\ asker'[c] # "idle" /\ queue' \subseteq queue \cup {<<c, 1>>, <<c, 2>>}
        /\ queue \subseteq Clients \X (1..2)
    BY <1>3, AskTypes DEF Look, daemonVars, handleVars
  <2>2. BegunBy(c)'
    <3>1. Listed => Minter \in began
      BY <1>0 DEF Listed, HeldInv, BeganInv, Recorded, KeeperTypes
    <3> QED
      BY <1>3, <1>0, <3>1, AskTypes DEF Look, BeganInv, BegunBy
  <2>3. \A q \in queue' : asker'[q[1]] # "idle"
    BY <1>0, <2>1 DEF BeganInv
  <2>4. job.at # "idle" => asker'[job.for[1]] # "idle"
    BY <1>0, <2>1 DEF BeganInv, GateInv
  <2> QED
    BY <1>0, <2>1, <2>2, <2>3, <2>4 DEF BeganInv, Recorded, BegunBy
<1>4. ASSUME NEW c \in Clients, LookAgain(c) PROVE BeganInv'
  <2>1. /\ UNCHANGED <<file, filed, copy, job, began>>
        /\ \A d \in Clients : d # c => asker'[d] = asker[d]
        /\ asker'[c] # "idle" /\ queue' \subseteq queue \cup {<<c, 1>>, <<c, 2>>}
        /\ queue \subseteq Clients \X (1..2)
    BY <1>4, AskTypes DEF LookAgain, daemonVars, handleVars
  <2>2. BegunBy(c)'
    <3>1. Listed => Minter \in began
      BY <1>0 DEF Listed, HeldInv, BeganInv, Recorded, KeeperTypes
    <3> QED
      BY <1>4, <1>0, <3>1, AskTypes DEF LookAgain, BeganInv, BegunBy
  <2>3. \A q \in queue' : asker'[q[1]] # "idle"
    BY <1>0, <2>1 DEF BeganInv
  <2>4. job.at # "idle" => asker'[job.for[1]] # "idle"
    BY <1>0, <2>1 DEF BeganInv, GateInv
  <2> QED
    BY <1>0, <2>1, <2>2, <2>3, <2>4 DEF BeganInv, Recorded, BegunBy
<1>5. ASSUME NEW request \in queue, Refuse(request) PROVE BeganInv'
  <2>1. /\ asker' = Answered(request, FALSE) /\ request \in Clients \X (1..2)
        /\ queue' \subseteq queue /\ UNCHANGED <<file, filed, copy, began, job>>
    BY <1>5, AskTypes DEF Refuse, daemonVars, handleVars
  <2>2. \A c \in Clients : BegunBy(c)'
    BY <1>0, <2>1, AnswersGiven DEF BeganInv, BegunBy
  <2>3. \A q \in queue : asker'[q[1]] # "idle"
    <3>1. \A c \in Clients : asker[c] # "idle" => asker'[c] # "idle"
      BY <2>1, AnswersGiven
    <3> QED
      BY <1>0, <3>1, AskTypes DEF BeganInv
  <2>4. job.at = "idle"
    BY <1>5 DEF Refuse, Idle
  <2> QED
    BY <1>0, <2>1, <2>2, <2>3, <2>4 DEF BeganInv, Recorded
<1>6. ASSUME NEW request \in queue, Take(request) PROVE BeganInv'
  <2>1. /\ job'.at = "taken" /\ job'.for = request /\ queue' \subseteq queue
        /\ \/ job'.took = Nothing \/ job'.took = filed
           \/ mapped # NoRun /\ job'.took = copy[mapped]
        /\ filed' = filed \/ filed' = Nothing
        /\ UNCHANGED <<file, copy, began, asker>>
    BY <1>6 DEF Take, TakeFromMap, TakeFromArchive, TakeNothing, Begins, handleVars
  <2>2. Recorded' => Recorded
    BY <1>0, <2>1 DEF Recorded, KeeperTypes
  <2> QED
    BY <1>0, <1>6, <2>1, <2>2 DEF BeganInv, BegunBy
<1>7. ASSUME FailEarly PROVE BeganInv'
  <2>1. /\ job' = Idle /\ asker' = Answered(job.for, FALSE) /\ job.at # "idle"
        /\ job.for \in Clients \X (1..2) /\ UNCHANGED <<queue, began>>
    BY <1>7, FailsSoundly
  <2>2. Recorded' => Recorded
    BY <1>7, FailsSoundly DEF Recorded, Idle
  <2>3. \A c \in Clients : BegunBy(c)'
    BY <1>0, <2>1, AnswersGiven DEF BeganInv, BegunBy
  <2>4. \A q \in queue : asker'[q[1]] # "idle"
    <3>1. \A c \in Clients : asker[c] # "idle" => asker'[c] # "idle"
      BY <2>1, AnswersGiven
    <3> QED
      BY <1>0, <3>1, AskTypes DEF BeganInv
  <2> QED
    BY <1>0, <2>1, <2>2, <2>3, <2>4 DEF BeganInv, Idle
<1>8. ASSUME WriteRecord PROVE BeganInv'
  <2>1. /\ began' = began \cup {job.for[1]} /\ job'.for = job.for /\ job.at = "taken"
        /\ UNCHANGED <<queue, asker>>
    BY <1>8, <1>0 DEF WriteRecord, launching, JobType
  <2>2. asker[job.for[1]] # "idle" /\ job.for[1] \in Clients
    BY <1>0, <2>1 DEF BeganInv, GateInv
  <2>3. Minter \in began'
    BY <1>0, <2>1, <2>2 DEF BeganInv, BegunBy
  <2> QED
    BY <1>0, <2>1, <2>2, <2>3 DEF BeganInv, BegunBy
<1>9. ASSUME FailToSpawn PROVE BeganInv'
  <2>1. /\ job' = Idle /\ asker' = Answered(job.for, FALSE) /\ job.at # "idle"
        /\ job.for \in Clients \X (1..2) /\ UNCHANGED <<queue, began>>
    BY <1>9, FailsSoundly
  <2>2. Recorded' => Recorded
    BY <1>9, FailsSoundly DEF Recorded, Idle
  <2>3. \A c \in Clients : BegunBy(c)'
    BY <1>0, <2>1, AnswersGiven DEF BeganInv, BegunBy
  <2>4. \A q \in queue : asker'[q[1]] # "idle"
    <3>1. \A c \in Clients : asker[c] # "idle" => asker'[c] # "idle"
      BY <2>1, AnswersGiven
    <3> QED
      BY <1>0, <3>1, AskTypes DEF BeganInv
  <2> QED
    BY <1>0, <2>1, <2>2, <2>3, <2>4 DEF BeganInv, Idle
<1>10. ASSUME SpawnKeeper PROVE BeganInv'
  <2>1. /\ job'.for = job.for /\ job'.took = job.took /\ job.at = "written"
        /\ UNCHANGED <<file, filed, copy, queue, asker, began>>
    BY <1>10, <1>0 DEF SpawnKeeper, launching, JobType, daemonVars, handleVars
  <2> QED
    BY <1>0, <2>1 DEF BeganInv, BegunBy, Recorded
<1>11. ASSUME ConnectToKeeper PROVE BeganInv'
  <2>1. /\ job'.for = job.for /\ job'.took = job.took /\ job.at = "spawned"
        /\ UNCHANGED <<file, filed, copy, queue, asker, began>>
    BY <1>11, <1>0 DEF ConnectToKeeper, launching, JobType, daemonVars, handleVars
  <2> QED
    BY <1>0, <2>1 DEF BeganInv, BegunBy, Recorded
<1>12. ASSUME GivesUp PROVE BeganInv'
  <2>1. /\ job' = Idle /\ asker' = Answered(job.for, FALSE) /\ job.at # "idle"
        /\ job.for \in Clients \X (1..2) /\ UNCHANGED <<queue, began>>
    BY <1>12, FailsSoundly
  <2>2. Recorded' => Recorded
    BY <1>12, FailsSoundly DEF Recorded, Idle
  <2>3. \A c \in Clients : BegunBy(c)'
    BY <1>0, <2>1, AnswersGiven DEF BeganInv, BegunBy
  <2>4. \A q \in queue : asker'[q[1]] # "idle"
    <3>1. \A c \in Clients : asker[c] # "idle" => asker'[c] # "idle"
      BY <2>1, AnswersGiven
    <3> QED
      BY <1>0, <3>1, AskTypes DEF BeganInv
  <2> QED
    BY <1>0, <2>1, <2>2, <2>3, <2>4 DEF BeganInv, Idle
<1>13. ASSUME Insert PROVE BeganInv'
  <2>1. /\ job.for[1] \in began /\ job.at = "greeted"
        /\ job' = Idle /\ asker' = Answered(job.for, TRUE)
        /\ job.for \in Clients \X (1..2) /\ UNCHANGED <<queue, began>>
    BY <1>13, <1>0 DEF Insert, launching, GateInv, BeganInv
  <2>2. \A c \in Clients : BegunBy(c)'
    BY <1>0, <2>1, AnswersGiven DEF BeganInv, BegunBy
  <2>3. \A q \in queue : asker'[q[1]] # "idle"
    <3>1. \A c \in Clients : asker[c] # "idle" => asker'[c] # "idle"
      BY <2>1, AnswersGiven
    <3> QED
      BY <1>0, <3>1, AskTypes DEF BeganInv
  <2> QED
    BY <1>0, <2>1, <2>2, <2>3 DEF BeganInv, Idle
<1>13a. ASSUME FailOnceConnected PROVE BeganInv'
  <2>1. /\ job' = Idle /\ asker' = Answered(job.for, FALSE) /\ job.at # "idle"
        /\ job.for \in Clients \X (1..2) /\ UNCHANGED <<queue, began>>
    BY <1>13a, FailsSoundly
  <2>2. Recorded' => Recorded
    BY <1>13a, FailsSoundly DEF Recorded, Idle
  <2>3. \A c \in Clients : BegunBy(c)'
    BY <1>0, <2>1, AnswersGiven DEF BeganInv, BegunBy
  <2>4. \A q \in queue : asker'[q[1]] # "idle"
    <3>1. \A c \in Clients : asker[c] # "idle" => asker'[c] # "idle"
      BY <2>1, AnswersGiven
    <3> QED
      BY <1>0, <3>1, AskTypes DEF BeganInv
  <2> QED
    BY <1>0, <2>1, <2>2, <2>3, <2>4 DEF BeganInv, Idle
<1>14. ASSUME NEW r \in Runs, KeeperBinds(r) PROVE BeganInv'
  BY <1>14, <1>0 DEF KeeperBinds, daemonVars, handleVars, launchVars, BeganInv, BegunBy,
     Recorded
<1>15. ASSUME NEW r \in Runs, KeeperFails(r) PROVE BeganInv'
  BY <1>15, <1>0 DEF KeeperFails, daemonVars, handleVars, launchVars, BeganInv, BegunBy,
     Recorded
<1>16. ASSUME NEW r \in Runs, ChildEnds(r) PROVE BeganInv'
  BY <1>16, <1>0 DEF ChildEnds, daemonVars, handleVars, launchVars, BeganInv, BegunBy,
     Recorded
<1>17. ASSUME NEW r \in Runs, KeeperLeaves(r) PROVE BeganInv'
  BY <1>17, <1>0 DEF KeeperLeaves, daemonVars, handleVars, launchVars, BeganInv, BegunBy,
     Recorded
<1>18. ASSUME NEW r \in Runs, ReaderHears(r) PROVE BeganInv'
  BY <1>18, <1>0 DEF ReaderHears, daemonVars, handleVars, launchVars, BeganInv, BegunBy,
     Recorded
<1>19. ASSUME NEW r \in Runs, MarkDead(r) PROVE BeganInv'
  <2>1. UNCHANGED <<job, queue, asker, began>>
    BY <1>19, DeathsRecorded
  <2>2. Recorded' => Recorded
    BY <1>19, <1>0, <2>1, DeathsRecorded, NothingIsNoRecord DEF Recorded, RecordTypes
  <2> QED
    BY <1>0, <2>1, <2>2 DEF BeganInv, BegunBy
<1>20. ASSUME Archive PROVE BeganInv'
  <2>1. UNCHANGED <<job, queue, asker, began>>
    BY <1>20 DEF Archive, launchVars
  <2>2. Recorded' => Recorded
    BY <1>20, <1>0, <2>1, ArchivedSoundly, NothingIsNoRecord DEF Recorded, RecordTypes
  <2> QED
    BY <1>0, <2>1, <2>2 DEF BeganInv, BegunBy
<1>21. ASSUME ArchiveWritten PROVE BeganInv'
  <2>1. UNCHANGED <<job, queue, asker, began>>
    BY <1>21, DeathsRecorded
  <2>2. Recorded' => Recorded
    BY <1>21, <1>0, <2>1, DeathsRecorded, NothingIsNoRecord DEF Recorded, RecordTypes
  <2> QED
    BY <1>0, <2>1, <2>2 DEF BeganInv, BegunBy
<1>22. ASSUME ArchiveFiled PROVE BeganInv'
  <2>1. UNCHANGED <<job, queue, asker, began>>
    BY <1>22 DEF ArchiveFiled, launchVars
  <2>2. Recorded' => Recorded
    BY <1>22, <1>0, <2>1, ArchivedSoundly, NothingIsNoRecord DEF Recorded, RecordTypes
  <2> QED
    BY <1>0, <2>1, <2>2 DEF BeganInv, BegunBy
<1>23. ASSUME Delete PROVE BeganInv'
  BY <1>23, <1>0 DEF Delete, handleVars, launchVars, BeganInv, BegunBy, Recorded
<1>24. ASSUME Discard PROVE BeganInv'
  BY <1>24, <1>0 DEF Discard, daemonVars, launchVars, BeganInv, BegunBy, Recorded
<1>25. ASSUME DeleteFiled PROVE BeganInv'
  BY <1>25, <1>0 DEF DeleteFiled, handleVars, launchVars, BeganInv, BegunBy, Recorded
<1>26. ASSUME HandOver PROVE BeganInv'
  <2>1. /\ asker' = CutOff(Clients) /\ \A c \in Clients : MayBeLost(c)
        /\ queue' = {} /\ job' = Idle /\ filed' = Nothing
        /\ UNCHANGED <<file, copy, began>>
    BY <1>26 DEF HandOver, Gone
  <2>2. \A c \in Clients : asker[c] = "asked" => c = Minter \/ c \in began
    BY <2>1 DEF MayBeLost, Waiting, BridgesHold
  <2>3. \A c \in Clients : BegunBy(c)'
    BY <1>0, <2>1, <2>2, ConnectionsGone DEF BeganInv, BegunBy
  <2> QED
    BY <1>0, <2>1, <2>3 DEF BeganInv, Recorded, Idle
<1>27. ASSUME Killed PROVE BeganInv'
  <2>1. /\ asker' = CutOff(Clients) /\ \A c \in Clients : MayBeLost(c)
        /\ queue' = {} /\ job' = Idle /\ filed' = Nothing
        /\ UNCHANGED <<file, copy, began>>
    BY <1>27 DEF Killed, Gone
  <2>2. \A c \in Clients : asker[c] = "asked" => c = Minter \/ c \in began
    BY <2>1 DEF MayBeLost, Waiting, BridgesHold
  <2>3. \A c \in Clients : BegunBy(c)'
    BY <1>0, <2>1, <2>2, ConnectionsGone DEF BeganInv, BegunBy
  <2> QED
    BY <1>0, <2>1, <2>3 DEF BeganInv, Recorded, Idle
<1>28. ASSUME Start PROVE BeganInv'
  <2>1. UNCHANGED <<job, queue, asker, began>>
    BY <1>28, StartsSoundly
  <2>2. Recorded' => Recorded
    BY <1>28, <1>0, <2>1, StartsSoundly, NothingIsNoRecord DEF Recorded, RecordTypes
  <2> QED
    BY <1>0, <2>1, <2>2 DEF BeganInv, BegunBy
<1>29. CASE UNCHANGED revivalVars
  BY <1>0, <1>29
     DEF revivalVars, daemonVars, handleVars, launchVars, BeganInv, BegunBy, Recorded
<1>30. QED
  BY <1>1, <1>2, <1>3, <1>4, <1>5, <1>6, <1>7, <1>8, <1>9, <1>10, <1>11, <1>12, <1>13,
     <1>13a, <1>14, <1>15, <1>16, <1>17, <1>18, <1>19, <1>20, <1>21, <1>22, <1>23, <1>24, <1>25,
     <1>26, <1>27, <1>28, <1>29 DEF RevivalNext, Launch

\* AnsweredTruthfully: who is told that its session is there had its own launch begun,
\* over lost bridges and second attempts too, and whatever becomes of keepers, records
\* and launches (bridge.rs:2755-2836).
THEOREM AnswersAreTrue == BridgesHold => (RevivalSpec => []AnsweredTruthfully)
<1> SUFFICES ASSUME BridgesHold PROVE RevivalSpec => []AnsweredTruthfully
  OBVIOUS
<1>1. RevivalInit => BeganInv
  BY DEF RevivalInit, BeganInv, BegunBy, Recorded, Idle
<1>2. SoundInv /\ BeganInv /\ [RevivalNext]_revivalVars => BeganInv'
  BY BeganKept
<1>3. BeganInv => AnsweredTruthfully
  BY DEF BeganInv, BegunBy, AnsweredTruthfully
<1> QED
  BY SoundInitially, SoundSteps, <1>1, <1>2, <1>3, PTL DEF RevivalSpec

(***************************************************************************)
(* The argument for the rest follows a keeper through the hands it passes: *)
(* the launch that started it, the handle that launch inserts, and whoever *)
(* puts that handle down.  A keeper at work is always in one of these      *)
(* hands, and a launch takes the number only when it finds it in none,     *)
(* which is why there is never a second.  The same holds of the record: it *)
(* is in the map, in the archive's index or with the launch that took it,  *)
(* and the file agrees with the one that has it.                           *)
(***************************************************************************)
\* A keeper is with the launch that started it, in the map, or being put down.
Kept(r) ==
    /\ keeper[r] = "none" <=> r > started
    /\ keeper[r] = "starting" => job.at = "spawned" /\ job.run = r
    /\ keeper[r] \in {"none", "starting"} => child[r] = "none"
    /\ keeper[r] = "up" => path = r /\ child[r] # "none"
    /\ child[r] = "running" => keeper[r] = "up"
    /\ keeper[r] = "up" /\ up /\ job.at = "idle" =>
          mapped = r \/ deleting = r \/ (shut[r] /\ to[r] = r)

KeeperInv == \A r \in Runs : Kept(r)

\* A launch has the number to itself, and no keeper is at work but its own.
JobInv ==
    /\ job.at = "idle" => job = Idle
    /\ job.at # "idle" =>
          /\ up /\ job.for \in Clients \X (1..2)
          /\ archiving = NoRun /\ deleting = NoRun /\ filed = Nothing
          /\ \A r \in Runs : Live(r) => r = job.run
    /\ job.at = "written" => started < MaxRuns
    /\ job.at \in {"taken", "written"} => job.run = NoRun
    /\ job.at \in {"spawned", "greeted"} =>
          /\ job.run \in Runs /\ job.run = started
          /\ mapped # job.run /\ reader[job.run] = "none"
    /\ job.at = "spawned" => client[job.run] = NoRun
    /\ job.at = "greeted" => client[job.run] = job.run /\ keeper[job.run] = "up"

\* A handle is connected to the keeper of its own run, and its reader reads
\* for as long as somebody may still look at the session.
Handled(r) ==
    /\ to[r] \in {r, NoRun} /\ client[r] \in {r, NoRun}
    /\ client[r] = r => to[r] = r /\ up /\ keeper[r] \in {"up", "gone"}
    /\ reader[r] # "none" => client[r] = r
    /\ Reads(r) => /\ keeper[r] = "up" /\ copy[r] # Nothing
                   /\ mapped = r \/ deleting = r \/ shut[r]
    /\ reader[r] = "burying" => child[r] = "ended"

HandleInv == \A r \in Runs : Handled(r)

\* What is in the map has its keeper's slot, and is not marked dead while its
\* child runs, unless it was archived.
MapInv ==
    mapped # NoRun =>
        /\ client[mapped] = mapped /\ copy[mapped] # Nothing /\ ~shut[mapped]
        /\ copy[mapped].dead => copy[mapped].archived \/ child[mapped] = "ended"

\* Whoever puts a session down does so alone.
DownInv ==
    /\ deleting # NoRun =>
          /\ up /\ job.at = "idle" /\ mapped = NoRun /\ filed = Nothing
          /\ copy[deleting] # Nothing /\ to[deleting] = deleting
    /\ archiving # NoRun =>
          /\ up /\ job.at = "idle" /\ filed = Nothing
          /\ copy[archiving] # Nothing /\ copy[archiving].archived
          /\ mapped = archiving \/ deleting = archiving \/ shut[archiving]

\* The file says what whoever has the record says.
FileInv ==
    /\ mapped # NoRun => filed = Nothing
    /\ mapped # NoRun /\ job.at = "idle" =>
          /\ file # Nothing /\ file.who = copy[mapped].who
          /\ archiving # mapped => file = copy[mapped]
    /\ deleting # NoRun => file # Nothing /\ file.who = copy[deleting].who
    /\ filed # Nothing =>
          up /\ file # Nothing /\ Over(file) /\ filed = [file EXCEPT !.dead = TRUE]
    /\ up /\ job.at = "idle" /\ mapped = NoRun /\ deleting = NoRun /\ filed = Nothing =>
          file = Nothing
    /\ erased => file = Nothing

\* What a launch took is what it has to put back, and what it writes is the
\* same conversation's.
TookInv ==
    /\ job.at # "idle" /\ job.took = Nothing => mapped = NoRun
    /\ job.took # Nothing =>
          IF mapped = NoRun THEN job.took.dead ELSE job.took = copy[mapped]
    /\ job.at = "taken" =>
          IF job.took = Nothing THEN file = Nothing
          ELSE /\ file # Nothing /\ Over(file) /\ file.who = job.took.who
               /\ job.took = IF mapped = NoRun THEN [file EXCEPT !.dead = TRUE] ELSE file
    /\ job.at \in {"written", "spawned", "greeted"} =>
          file = Fresh(IF job.took = Nothing THEN job.for[1] ELSE job.took.who)

\* Nothing happens that the code does not defend against, but for lost bridges
\* and launches that fail once their keeper has greeted them.
Calm == Mishaps \subseteq {"bridge lost under a revival", "fails once connected"}

RevivalInv ==
    /\ SoundInv /\ KeeperInv /\ JobInv /\ HandleInv /\ MapInv /\ DownInv
    /\ FileInv /\ TookInv

\* Until a launch fails late, one that has been greeted is through.
LEMMA GreetedIsThrough == ~late' => ~FailOnceConnected
BY DEF FailOnceConnected

\* The types of what is kept by run.
LEMMA RunTypes ==
    ASSUME RevivalInv
    PROVE  /\ keeper \in [Runs -> {"none", "starting", "up", "gone"}]
           /\ child \in [Runs -> {"none", "running", "ended"}]
           /\ client \in [Runs -> Runs \cup {NoRun}]
           /\ to \in [Runs -> Runs \cup {NoRun}]
           /\ reader \in [Runs -> {"none", "reading", "burying", "done"}]
           /\ shut \in [Runs -> BOOLEAN] /\ copy \in [Runs -> Records \cup {Nothing}]
           /\ path \in Runs \cup {NoRun} /\ mapped \in Runs \cup {NoRun}
           /\ archiving \in Runs \cup {NoRun} /\ deleting \in Runs \cup {NoRun}
           /\ started \in Nat /\ started <= MaxRuns
<1>1. RevivalTypeOK
  BY DEF RevivalInv, SoundInv
<1>2. started \in 0..MaxRuns
  BY <1>1 DEF RevivalTypeOK
<1>3. started \in Nat /\ started <= MaxRuns
  BY <1>2, MaxRunsAssumption
<1> QED
  BY <1>1, <1>3 DEF RevivalTypeOK

\* The types of the launch in hand and of the record.
LEMMA JobTypes ==
    ASSUME RevivalInv
    PROVE  /\ job = [at |-> job.at, for |-> job.for, took |-> job.took, run |-> job.run]
           /\ job.at \in {"idle", "taken", "written", "spawned", "greeted"}
           /\ job.for \in {<<>>} \cup (Clients \X (1..2))
           /\ job.took \in Records \cup {Nothing} /\ job.run \in Runs \cup {NoRun}
           /\ filed \in Records \cup {Nothing} /\ file \in Records \cup {Nothing}
           /\ queue \subseteq Clients \X (1..2) /\ up \in BOOLEAN
           /\ (filed # Nothing => filed.dead)
<1>1. job \in [at : {"idle", "taken", "written", "spawned", "greeted"},
              for : {<<>>} \cup (Clients \X (1..2)),
              took : Records \cup {Nothing}, run : Runs \cup {NoRun}]
  BY DEF RevivalInv, SoundInv, RevivalTypeOK
<1>2. filed \in {x \in Records : x.dead} \cup {Nothing} /\ up \in BOOLEAN
      /\ queue \subseteq Clients \X (1..2)
      /\ file \in Records \cup {Nothing}
  BY DEF RevivalInv, SoundInv, RevivalTypeOK
<1> QED
  BY <1>1, <1>2

\* A launch that takes the number finds no keeper at work and nothing under way.
LEMMA TakenWhenClear ==
    ASSUME Calm, RevivalInv, NEW request \in queue, Take(request)
    PROVE  /\ up /\ job = Idle /\ archiving = NoRun /\ deleting = NoRun
           /\ \A r \in Runs : ~Live(r)
<1>1. job.at = "idle" /\ ~InTheWay /\ archiving = NoRun /\ deleting = NoRun
  BY DEF Take, Idle, InTheWay, Calm
<1>2. \A r \in Runs : ~Lingers(r)
  BY <1>1 DEF InTheWay, Calm
<1>3. ASSUME NEW r \in Runs, keeper[r] = "up" PROVE FALSE
  <2>1. child[r] # "ended" /\ ~Condemned(r)
    BY <1>2, <1>3 DEF Lingers
  <2>2. ~(to[r] = r /\ shut[r]) /\ ~(to[r] = r /\ copy[r] # Nothing /\ copy[r].archived)
    BY <2>1 DEF Condemned
  <2>3. mapped = r
    BY <1>1, <1>3, <2>2, NumbersOfRuns DEF RevivalInv, KeeperInv, Kept, Take
  <2>4. /\ to[r] = r /\ copy[r] # Nothing
        /\ copy[r].dead => copy[r].archived \/ child[r] = "ended"
    BY <2>3, NumbersOfRuns DEF RevivalInv, HandleInv, Handled, MapInv
  <2>5. Over(copy[r])
    BY <2>3, NumbersOfRuns
       DEF Take, TakeFromMap, TakeFromArchive, TakeNothing, StillRunning
  <2> QED
    BY <2>1, <2>2, <2>4, <2>5 DEF Over
<1> QED
  BY <1>1, <1>3 DEF Take, RevivalInv, KeeperInv, Kept, Live

\* What a launch took is where it was when the launch has failed.
LEMMA FailedLaunch ==
    ASSUME RevivalInv, Fail, job.at # "idle", job.at = "taken" \/ mapped = NoRun
    PROVE  /\ job' = Idle
           /\ filed' = IF mapped = NoRun THEN job.took ELSE Nothing
           /\ file' = IF mapped = NoRun THEN job.took ELSE copy[mapped]
           /\ mapped # NoRun => file' = file
           /\ mapped # NoRun => job.took # Nothing
           /\ job.took # Nothing /\ mapped = NoRun =>
                 /\ job.took \in Records /\ Over(job.took)
                 /\ job.took = [job.took EXCEPT !.dead = TRUE]
           /\ UNCHANGED <<gen, up, mapped, copy, shut, to, reader, queue, began,
                          archiving, deleting, erased>>
<1>1. filed = Nothing /\ job.at \in {"taken", "written", "spawned", "greeted"}
  BY DEF RevivalInv, JobInv, SoundInv, RevivalTypeOK
<1>2. job' = Idle /\ Undo /\ UNCHANGED <<gen, up, mapped, copy, shut, to, reader, queue,
                                         began, archiving, deleting, erased>>
  BY DEF Fail, handleVars, endVars
<1>3. CASE job.took = Nothing
  BY <1>1, <1>2, <1>3 DEF Undo, RevivalInv, TookInv
<1>4. CASE job.took # Nothing /\ mapped # NoRun
  <2>1. job.took = file /\ job.took = copy[mapped]
    BY <1>4 DEF RevivalInv, TookInv
  <2> QED
    BY <1>1, <1>2, <1>4, <2>1 DEF Undo, PutBack
<1>5. CASE job.took # Nothing /\ mapped = NoRun
  <2>1. job.took \in Records /\ job.took.dead
    BY <1>5 DEF RevivalInv, TookInv, SoundInv, RevivalTypeOK
  <2>2. Over(job.took) /\ job.took = [job.took EXCEPT !.dead = TRUE]
    BY <2>1 DEF Over, Records
  <2> QED
    BY <1>2, <1>5, <2>1, <2>2, RecordsMade DEF Undo, PutBack
<1> QED
  BY <1>3, <1>4, <1>5

\* Nobody puts down a session that a launch has in hand.
LEMMA PutDownAlone ==
    ASSUME Calm, RevivalInv, Archive \/ Delete
    PROVE  job = Idle /\ filed = Nothing /\ mapped \in Runs
<1>1. mapped # NoRun /\ job.took = Nothing
  BY DEF Archive, Delete, MayDelete, Calm
<1> QED
  BY <1>1 DEF RevivalInv, TookInv, JobInv, FileInv, SoundInv, RevivalTypeOK

\* With no launch in hand nothing is asked of one.
LEMMA NothingTaken ==
    ASSUME job' = Idle
    PROVE  TookInv' /\ JobInv'
<1>1. job'.at = "idle" /\ job'.took = Nothing
  BY DEF Idle
<1> QED
  BY <1>1 DEF TookInv, JobInv

\* A launch that fails, wherever it does, puts what it took where it was, and
\* deletes nothing on its way.
LEMMA LaunchFails ==
    ASSUME Calm, RevivalInv, FailEarly \/ FailToSpawn \/ GivesUp
    PROVE  /\ up /\ job.at # "idle" /\ job' = Idle /\ asker' = Answered(job.for, FALSE)
           /\ filed = Nothing /\ archiving = NoRun /\ deleting = NoRun
           /\ \/ /\ mapped \in Runs /\ filed' = Nothing /\ file' = file
                 /\ file = copy[mapped] /\ file # Nothing
              \/ mapped = NoRun /\ filed' = Nothing /\ file' = Nothing
              \/ /\ mapped = NoRun /\ file' \in Records /\ filed' = file' /\ Over(file')
                 /\ file' = [file' EXCEPT !.dead = TRUE]
                 /\ file # Nothing /\ file'.who = file.who
           /\ UNCHANGED <<up, mapped, copy, archiving, deleting, erased, queue, began>>
<1>1. job.at # "idle" /\ (job.at = "taken" \/ mapped = NoRun) /\ Fail /\ up
  BY DEF FailEarly, FailToSpawn, GivesUp, launching, MayFail, Calm
<1>2. filed = Nothing /\ archiving = NoRun /\ deleting = NoRun
  BY <1>1 DEF RevivalInv, JobInv
<1>3. /\ job' = Idle
      /\ filed' = IF mapped = NoRun THEN job.took ELSE Nothing
      /\ file' = IF mapped = NoRun THEN job.took ELSE copy[mapped]
      /\ mapped # NoRun => file' = file
      /\ mapped # NoRun => job.took # Nothing
      /\ job.took # Nothing /\ mapped = NoRun =>
            /\ job.took \in Records /\ Over(job.took)
            /\ job.took = [job.took EXCEPT !.dead = TRUE]
      /\ UNCHANGED <<up, mapped, copy, archiving, deleting, erased, queue, began>>
  BY <1>1, FailedLaunch
<1>4. CASE mapped # NoRun
  <2>1. mapped \in Runs /\ file = copy[mapped] /\ file # Nothing
    BY <1>1, <1>3, <1>4, RunTypes DEF RevivalInv, TookInv
  <2> QED
    BY <1>1, <1>2, <1>3, <1>4, <2>1 DEF Fail
<1>5. CASE mapped = NoRun /\ job.took = Nothing
  BY <1>1, <1>2, <1>3, <1>5 DEF Fail
<1>6. CASE mapped = NoRun /\ job.took # Nothing
  <2>1. file # Nothing /\ job.took.who = file.who
    <3>1. job.took \in Records
      BY <1>3, <1>6
    <3>2. CASE job.at = "taken"
      BY <1>6, <3>2 DEF RevivalInv, TookInv
    <3>3. CASE job.at # "taken"
      <4>1. file = Fresh(job.took.who) /\ job.took.who \in Clients
        BY <1>1, <1>6, <3>1, <3>3, JobTypes DEF RevivalInv, TookInv, Records
      <4> QED
        BY <4>1, RecordsMade, NothingIsNoRecord
    <3> QED
      BY <3>2, <3>3
  <2> QED
    BY <1>1, <1>2, <1>3, <1>6, <2>1 DEF Fail
<1> QED
  BY <1>4, <1>5, <1>6

\* What a reader writes of a session that has ended: one it has, or one being
\* deleted, or in memory only.
LEMMA ReaderRecords ==
    ASSUME RevivalInv, NEW r \in Runs, MarkDead(r)
    PROVE  /\ up /\ job = Idle /\ copy[r] \in Records /\ child[r] = "ended"
           /\ mapped = r \/ deleting = r \/ shut[r]
           /\ \E x \in Records :
                 /\ x.dead /\ x.archived = copy[r].archived /\ x.who = copy[r].who
                 /\ copy' = [copy EXCEPT ![r] = x]
                 /\ file' = IF shut[r] THEN file ELSE x
           /\ UNCHANGED <<up, mapped, filed, shut, to, job, archiving, deleting, erased,
                          queue, asker, began>>
<1>1. /\ up /\ copy[r] \in Records /\ child[r] = "ended" /\ keeper[r] = "up"
      /\ mapped = r \/ deleting = r \/ shut[r]
  BY RunTypes DEF MarkDead, RevivalInv, HandleInv, Handled, Reads
<1>2. job.at = "idle"
  BY <1>1, JobTypes, NumbersOfRuns DEF MarkDead, RevivalInv, JobInv, Live
<1>3. PICK x : x = [copy[r] EXCEPT !.dead = TRUE]
  OBVIOUS
<1>4. x \in Records /\ x.dead /\ x.archived = copy[r].archived /\ x.who = copy[r].who
  BY <1>1, <1>3 DEF Records
<1>5. /\ copy' = [copy EXCEPT ![r] = x] /\ file' = IF shut[r] THEN file ELSE x
      /\ UNCHANGED <<up, mapped, filed, shut, to, job, archiving, deleting, erased,
                     queue, asker, began>>
  BY <1>3 DEF MarkDead, Persist, daemonVars, launchVars, endVars
<1> QED
  BY <1>1, <1>2, <1>4, <1>5 DEF RevivalInv, JobInv

\* The same of an archival.
LEMMA ArchivalRecords ==
    ASSUME RevivalInv, ArchiveWritten
    PROVE  /\ up /\ job = Idle /\ archiving \in Runs /\ copy[archiving] \in Records
           /\ mapped = archiving \/ deleting = archiving \/ shut[archiving]
           /\ \E x \in Records :
                 /\ x.dead /\ x.archived /\ x.who = copy[archiving].who
                 /\ copy' = [copy EXCEPT ![archiving] = x]
                 /\ file' = IF shut[archiving] THEN file ELSE x
           /\ archiving' = NoRun
           /\ UNCHANGED <<up, mapped, filed, shut, to, job, deleting, erased,
                          queue, asker, began>>
<1>1. /\ up /\ job = Idle /\ archiving \in Runs /\ copy[archiving] \in Records
      /\ copy[archiving].archived
      /\ mapped = archiving \/ deleting = archiving \/ shut[archiving]
  BY RunTypes DEF ArchiveWritten, RevivalInv, DownInv, JobInv
<1>2. PICK x : x = [copy[archiving] EXCEPT !.dead = TRUE]
  OBVIOUS
<1>3. x \in Records /\ x.dead /\ x.archived /\ x.who = copy[archiving].who
  BY <1>1, <1>2 DEF Records
<1>4. /\ copy' = [copy EXCEPT ![archiving] = x]
      /\ file' = IF shut[archiving] THEN file ELSE x
      /\ archiving' = NoRun
      /\ UNCHANGED <<up, mapped, filed, shut, to, job, deleting, erased,
                     queue, asker, began>>
  BY <1>2 DEF ArchiveWritten, Persist, daemonVars, launchVars
<1> QED
  BY <1>1, <1>3, <1>4

\* An archival marks the handle of the session it puts down.
LEMMA ArchivalMarks ==
    ASSUME Calm, RevivalInv, Archive
    PROVE  /\ up /\ job = Idle /\ filed = Nothing /\ deleting = NoRun
           /\ archiving = NoRun
           /\ mapped \in Runs /\ copy[mapped] \in Records
           /\ \E x \in Records :
                 /\ x.archived /\ x.dead = copy[mapped].dead /\ x.who = copy[mapped].who
                 /\ copy' = [copy EXCEPT ![mapped] = x]
           /\ archiving' = mapped
           /\ UNCHANGED <<up, mapped, filed, shut, to, job, file, deleting, erased,
                          queue, asker, began>>
<1>1. /\ up /\ job = Idle /\ filed = Nothing /\ deleting = NoRun /\ archiving = NoRun
      /\ mapped \in Runs /\ copy[mapped] \in Records
  BY PutDownAlone, RunTypes, NumbersOfRuns DEF Archive, RevivalInv, MapInv, DownInv
<1>2. PICK x : x = [copy[mapped] EXCEPT !.archived = TRUE]
  OBVIOUS
<1>3. x \in Records /\ x.archived /\ x.dead = copy[mapped].dead
      /\ x.who = copy[mapped].who
  BY <1>1, <1>2 DEF Records
<1>4. /\ copy' = [copy EXCEPT ![mapped] = x] /\ archiving' = mapped
      /\ UNCHANGED <<up, mapped, filed, shut, to, job, file, deleting, erased,
                     queue, asker, began>>
  BY <1>2 DEF Archive, daemonVars, launchVars
<1> QED
  BY <1>1, <1>3, <1>4

\* A record that is archived once more is still the one on file.
LEMMA ArchivedOnFile ==
    ASSUME RevivalInv, ArchiveFiled
    PROVE  /\ up /\ mapped = NoRun /\ filed # Nothing /\ file \in Records
           /\ file' = filed' /\ file' \in Records
           /\ Over(file') /\ file'.who = file.who
           /\ file' = [file' EXCEPT !.dead = TRUE]
           /\ UNCHANGED <<up, mapped, job, copy, archiving, deleting, erased,
                          queue, asker, began>>
<1>1. up /\ mapped = NoRun /\ filed \in Records /\ file \in Records
      /\ filed.who = file.who
  BY JobTypes DEF ArchiveFiled, RevivalInv, FileInv, Records
<1>2. filed' \in Records /\ filed'.dead /\ filed'.archived /\ filed'.who = filed.who
  BY <1>1 DEF ArchiveFiled, Records
<1>3. filed' = [filed' EXCEPT !.dead = TRUE] /\ Over(filed')
  BY <1>2 DEF Records, Over
<1> QED
  BY <1>1, <1>2, <1>3, NothingIsNoRecord
     DEF ArchiveFiled, handleVars, launchVars, endVars

\* The record a launch writes is that of the session it brings back.
LEMMA LaunchRecords ==
    ASSUME RevivalInv, job.at # "idle"
    PROVE  \E c \in Clients : c = IF job.took = Nothing THEN job.for[1] ELSE job.took.who
<1>1. job.for \in Clients \X (1..2) /\ job.took \in Records \cup {Nothing}
  BY JobTypes DEF RevivalInv, JobInv
<1> QED
  BY <1>1 DEF Records

\* A launch that writes its record has the number to itself.
LEMMA RecordWritten ==
    ASSUME RevivalInv, WriteRecord
    PROVE  /\ up /\ job.at = "taken"
           /\ \E c \in Clients :
                 /\ c = IF job.took = Nothing THEN job.for[1] ELSE job.took.who
                 /\ file' = Fresh(c) /\ (file # Nothing => file.who = c)
           /\ job'.at = "written" /\ job'.took = job.took /\ job'.for = job.for
           /\ ~erased' /\ filed = Nothing /\ archiving = NoRun /\ deleting = NoRun
           /\ began' = began \cup {job.for[1]}
           /\ UNCHANGED <<up, mapped, filed, copy, archiving, deleting, queue, asker>>
<1>1. job.at = "taken"
  BY DEF WriteRecord, launching
<1>2. PICK c \in Clients : c = IF job.took = Nothing THEN job.for[1] ELSE job.took.who
  BY <1>1, LaunchRecords
<1>3. file # Nothing => file.who = c
  BY <1>1, <1>2 DEF RevivalInv, TookInv
<1>4. file' = Fresh(c) /\ job' = [job EXCEPT !.at = "written"]
  BY <1>2 DEF WriteRecord
<1>5. job'.at = "written" /\ job'.took = job.took /\ job'.for = job.for
  BY <1>4, JobTypes
<1>6. filed = Nothing /\ archiving = NoRun /\ deleting = NoRun
  BY <1>1 DEF RevivalInv, JobInv
<1> QED
  BY <1>1, <1>2, <1>3, <1>4, <1>5, <1>6
     DEF WriteRecord, launching, daemonVars, handleVars

\* A session that is inserted has the record its launch wrote.
LEMMA SessionInserted ==
    ASSUME RevivalInv, Insert
    PROVE  /\ up /\ job.at = "greeted" /\ job.run \in Runs
           /\ \E c \in Clients :
                 /\ file = Fresh(c)
                 /\ copy' = [copy EXCEPT ![job.run] = Fresh(c)] /\ file' = Fresh(c)
           /\ mapped' = job.run /\ job' = Idle /\ ~erased'
           /\ asker' = Answered(job.for, TRUE)
           /\ UNCHANGED <<up, filed, archiving, deleting, queue, began>>
<1>1. job.at = "greeted" /\ job.run \in Runs
  BY DEF Insert, launching, RevivalInv, JobInv
<1>2. PICK c \in Clients : c = IF job.took = Nothing THEN job.for[1] ELSE job.took.who
  BY <1>1, LaunchRecords
<1>3. file = Fresh(c)
  BY <1>1, <1>2 DEF RevivalInv, TookInv
<1>4. copy' = [copy EXCEPT ![job.run] = Fresh(c)] /\ file' = Fresh(c)
  BY <1>2 DEF Insert
<1> QED
  BY <1>1, <1>3, <1>4 DEF Insert, launching

\* What a starting daemon reads, adopts or retires is what was on file.
LEMMA DaemonStarts ==
    ASSUME RevivalInv, Start
    PROVE  /\ ~up /\ up' /\ mapped = NoRun /\ filed = Nothing /\ job = Idle
           /\ archiving = NoRun /\ deleting = NoRun
           /\ \/ file = Nothing /\ UNCHANGED <<file, mapped, filed, copy>>
              \/ /\ file \in Records /\ file' \in Records /\ file'.who = file.who
                 /\ Over(file') /\ filed' = [file' EXCEPT !.dead = TRUE]
                 /\ filed' \in Records /\ UNCHANGED <<mapped, copy>>
              \/ /\ file \in Records /\ file' \in Records /\ file'.who = file.who
                 /\ path \in Runs /\ mapped' = path
                 /\ copy' = [copy EXCEPT ![path] = file']
                 /\ ~file'.dead /\ UNCHANGED filed
           /\ UNCHANGED <<job, archiving, deleting, erased, queue, asker, began>>
<1>1. /\ ~up /\ up' /\ mapped = NoRun /\ filed = Nothing /\ job = Idle
      /\ archiving = NoRun /\ deleting = NoRun
      /\ UNCHANGED <<job, archiving, deleting, erased, queue, asker, began>>
  BY JobTypes, RunTypes, NumbersOfRuns
     DEF Start, RevivalInv, JobInv, MapInv, HandleInv, Handled, FileInv, DownInv,
        launchVars, endVars
<1>2. CASE path = NoRun \/ keeper[path] # "up"
  <2>1. ReadsRecord
    BY <1>2 DEF Start
  <2>2. CASE file = Nothing
    BY <1>1, <2>1, <2>2 DEF ReadsRecord, handleVars
  <2>3. CASE file # Nothing
    <3>1. file \in Records
      BY <2>3, JobTypes
    <3>2. file' = Repaired(file) /\ filed' = ReadBack(file)
          /\ UNCHANGED <<mapped, copy>>
      BY <2>1, <2>3 DEF ReadsRecord, handleVars
    <3> QED
      BY <1>1, <3>1, <3>2, RecordsMade
  <2> QED
    BY <2>2, <2>3
<1>3. CASE path # NoRun /\ keeper[path] = "up" /\ file = Nothing
  BY <1>1, <1>3 DEF Start, Dismisses, handleVars
<1>4. CASE path # NoRun /\ keeper[path] = "up" /\ file # Nothing
      /\ child[path] = "running"
  <2>1. Adopts /\ path \in Runs /\ file \in Records
    BY <1>4, JobTypes, RunTypes DEF Start
  <2>2. file' = [file EXCEPT !.dead = FALSE]
    BY <2>1 DEF Adopts
  <2>3. file' \in Records /\ file'.who = file.who /\ ~file'.dead
    BY <2>1, <2>2 DEF Records
  <2> QED
    BY <1>1, <2>1, <2>2, <2>3 DEF Adopts
<1>5. CASE path # NoRun /\ keeper[path] = "up" /\ file # Nothing
      /\ child[path] # "running"
  <2>1. Retires /\ file \in Records
    BY <1>5, JobTypes DEF Start
  <2>2. file' = [file EXCEPT !.dead = TRUE] /\ filed' = file'
        /\ UNCHANGED <<mapped, copy>>
    BY <2>1 DEF Retires, handleVars
  <2>3. file' \in Records /\ file'.who = file.who /\ file'.dead
    BY <2>1, <2>2 DEF Records
  <2>4. file' = [file' EXCEPT !.dead = TRUE]
    BY <2>3 DEF Records
  <2> QED
    BY <1>1, <2>1, <2>2, <2>3, <2>4 DEF Over
<1> QED
  BY <1>2, <1>3, <1>4, <1>5

\* Every step leaves each keeper accounted for.
LEMMA KeepersKept ==
    ASSUME Calm, ~late', RevivalInv, [RevivalNext]_revivalVars
    PROVE  KeeperInv'
<1> SUFFICES ASSUME NEW t \in Runs PROVE Kept(t)'
  BY DEF KeeperInv
<1>0. Kept(t) /\ KeeperInv /\ JobInv /\ HandleInv /\ DownInv
  BY DEF RevivalInv, KeeperInv
<1>1. ASSUME NEW c \in Clients, AskToLaunch(c) PROVE Kept(t)'
  BY <1>1, <1>0, RunTypes, JobTypes, NumbersOfRuns DEF AskToLaunch, daemonVars,
     handleVars, runVars, endVars, Kept, Live, JobInv, HandleInv, Handled, Idle
<1>2. ASSUME NEW c \in Clients, LoseBridge(c) PROVE Kept(t)'
  BY <1>2, <1>0, RunTypes, JobTypes, NumbersOfRuns DEF LoseBridge, CutOff, daemonVars,
     handleVars, runVars, endVars, Kept, Live, JobInv, HandleInv, Handled, Idle
<1>3. ASSUME NEW c \in Clients, Look(c) PROVE Kept(t)'
  BY <1>3, <1>0, RunTypes, JobTypes, NumbersOfRuns DEF Look, daemonVars, handleVars,
     runVars, endVars, Kept, Live, JobInv, HandleInv, Handled, Idle
<1>4. ASSUME NEW c \in Clients, LookAgain(c) PROVE Kept(t)'
  BY <1>4, <1>0, RunTypes, JobTypes, NumbersOfRuns DEF LookAgain, daemonVars,
     handleVars, runVars, endVars, Kept, Live, JobInv, HandleInv, Handled, Idle
<1>5. ASSUME NEW request \in queue, Refuse(request) PROVE Kept(t)'
  BY <1>5, <1>0, RunTypes, JobTypes, NumbersOfRuns DEF Refuse, Answered, daemonVars,
     handleVars, runVars, endVars, Kept, Live, JobInv, HandleInv, Handled, Idle
<1>6. ASSUME NEW request \in queue, Take(request) PROVE Kept(t)'
  BY <1>6, TakenWhenClear, <1>0, RunTypes, JobTypes, NumbersOfRuns DEF Take,
     TakeFromMap, TakeFromArchive, TakeNothing, Begins, handleVars, runVars, endVars,
     Kept, Live, JobInv, HandleInv, Handled, Idle
<1>7. ASSUME FailEarly PROVE Kept(t)'
  <2>1. job.at = "taken"
    BY <1>7 DEF FailEarly, launching
  <2>2. job' = Idle
        /\ UNCHANGED <<up, mapped, deleting, shut, to, keeper, child, path, started>>
    BY <1>7, <2>1, FailedLaunch DEF FailEarly, runVars
  <2>3. ~Live(t) /\ job.at # "spawned"
    BY <1>0, <2>1, NumbersOfRuns DEF JobInv
  <2> QED
    BY <1>0, <2>2, <2>3 DEF Kept, Live, JobInv, HandleInv, Handled, Idle
<1>8. ASSUME WriteRecord PROVE Kept(t)'
  BY <1>8, <1>0, RunTypes, JobTypes, NumbersOfRuns DEF WriteRecord, launching,
     daemonVars, handleVars, runVars, Kept, Live, JobInv, HandleInv, Handled, Idle
<1>9. ASSUME FailToSpawn PROVE Kept(t)'
  BY <1>9, FailedLaunch, <1>0, RunTypes, JobTypes, NumbersOfRuns DEF FailToSpawn,
     Fail, launching, handleVars, runVars, endVars, Kept, Live, JobInv, HandleInv,
     Handled, Idle
<1>10. ASSUME SpawnKeeper PROVE Kept(t)'
  <2>1. /\ started < MaxRuns /\ started + 1 \in Runs /\ ~Live(t) /\ up
        /\ job' = [job EXCEPT !.at = "spawned", !.run = started + 1]
        /\ keeper' = [keeper EXCEPT ![started + 1] = "starting"]
        /\ started' = started + 1
        /\ UNCHANGED <<up, mapped, deleting, shut, to, child, path>>
    BY <1>10, <1>0, RunTypes, NumbersOfRuns
       DEF SpawnKeeper, launching, JobInv, daemonVars, handleVars, endVars
  <2>2. job'.at = "spawned" /\ job'.run = started + 1
    BY <2>1, JobTypes
  <2>3. CASE t = started + 1
    BY <1>0, <2>1, <2>2, <2>3, RunTypes DEF Kept
  <2>4. CASE t # started + 1
    BY <1>0, <2>1, <2>2, <2>4, RunTypes, NumbersOfRuns
       DEF Kept, Live, JobInv, HandleInv, Handled, Idle
  <2> QED
    BY <2>3, <2>4
<1>11. ASSUME ConnectToKeeper PROVE Kept(t)'
  BY <1>11, <1>0, RunTypes, JobTypes, NumbersOfRuns DEF ConnectToKeeper, launching,
     daemonVars, endVars, Kept, Live, JobInv, HandleInv, Handled, Idle
<1>12. ASSUME GivesUp PROVE Kept(t)'
  <2>1. job.at = "spawned" /\ mapped = NoRun /\ keeper[job.run] = "gone"
    <3>1. /\ job.at = "spawned" /\ mapped = NoRun
          /\ keeper[job.run] = "gone" \/ (keeper[job.run] = "up" /\ path = NoRun)
      BY <1>12 DEF GivesUp, launching, MayFail, Calm
    <3>2. job.run \in Runs /\ job.run # NoRun
      BY <1>0, <3>1, NumbersOfRuns DEF JobInv
    <3>3. keeper[job.run] # "up" \/ path = job.run
      BY <1>0, <3>2 DEF RevivalInv, KeeperInv, Kept
    <3> QED BY <3>1, <3>2, <3>3
  <2>2. job' = Idle
        /\ UNCHANGED <<up, mapped, deleting, shut, to, keeper, child, path, started>>
    BY <1>12, <2>1, FailedLaunch DEF GivesUp, runVars
  <2>3. ~Live(t)
    BY <1>0, <2>1 DEF JobInv, Live, JobInv, HandleInv, Handled, Idle
  <2> QED
    BY <1>0, <2>2, <2>3 DEF Kept, Live, JobInv, HandleInv, Handled, Idle
<1>13. ASSUME Insert PROVE Kept(t)'
  BY <1>13, <1>0, RunTypes, JobTypes, NumbersOfRuns DEF Insert, launching, runVars,
     Kept, Live, JobInv, HandleInv, Handled, Idle
<1>14. ASSUME NEW r \in Runs, KeeperBinds(r) PROVE Kept(t)'
  <2>1. /\ keeper[r] = "starting" /\ job.at = "spawned" /\ job.run = r
        /\ keeper' = [keeper EXCEPT ![r] = "up"]
        /\ child' = [child EXCEPT ![r] = "running"]
        /\ path' = r /\ UNCHANGED <<up, mapped, deleting, shut, to, started, job>>
    BY <1>14, <1>0
       DEF KeeperBinds, KeeperInv, Kept, daemonVars, handleVars, launchVars, endVars
  <2>2. CASE t = r
    BY <1>0, <2>1, <2>2, RunTypes DEF Kept
  <2>3. CASE t # r
    <3>1. ~Live(t)
      BY <1>0, <2>1, <2>3 DEF JobInv
    <3> QED
      BY <1>0, <2>1, <2>3, <3>1 DEF Kept, Live, JobInv, HandleInv, Handled, Idle
  <2> QED
    BY <2>2, <2>3
<1>15. ASSUME NEW r \in Runs, KeeperFails(r) PROVE Kept(t)'
  <2>1. /\ keeper[r] = "starting" /\ job.at = "spawned" /\ job.run = r
        /\ keeper' = [keeper EXCEPT ![r] = "gone"]
        /\ UNCHANGED <<up, mapped, deleting, shut, to, child, started, job>>
    BY <1>15, <1>0
       DEF KeeperFails, KeeperInv, Kept, daemonVars, handleVars, launchVars, endVars
  <2>2. CASE t = r
    BY <1>0, <2>1, <2>2, RunTypes DEF Kept
  <2>3. CASE t # r
    <3>1. ~Live(t)
      BY <1>0, <2>1, <2>3 DEF JobInv
    <3> QED
      BY <1>0, <2>1, <2>3, <3>1 DEF Kept, Live, JobInv, HandleInv, Handled, Idle
  <2> QED
    BY <2>2, <2>3
<1>16. ASSUME NEW r \in Runs, ChildEnds(r) PROVE Kept(t)'
  BY <1>16, <1>0, RunTypes, JobTypes, NumbersOfRuns DEF ChildEnds, daemonVars,
     handleVars, launchVars, endVars, Kept, Live, JobInv, HandleInv, Handled, Idle
<1>17. ASSUME NEW r \in Runs, KeeperLeaves(r) PROVE Kept(t)'
  BY <1>17, <1>0, RunTypes, JobTypes, NumbersOfRuns DEF KeeperLeaves, Dismissed,
     daemonVars, handleVars, launchVars, endVars, Kept, Live, KeeperInv
<1>18. ASSUME NEW r \in Runs, ReaderHears(r) PROVE Kept(t)'
  BY <1>18, <1>0, RunTypes, JobTypes, NumbersOfRuns DEF ReaderHears, daemonVars,
     runVars, launchVars, endVars, Kept, Live, JobInv, HandleInv, Handled, Idle
<1>19. ASSUME NEW r \in Runs, MarkDead(r) PROVE Kept(t)'
  BY <1>19, <1>0, RunTypes, JobTypes, NumbersOfRuns DEF MarkDead, Persist, daemonVars,
     runVars, launchVars, endVars, Kept, Live, JobInv, HandleInv, Handled, Idle
<1>20. ASSUME Archive PROVE Kept(t)'
  BY <1>20, <1>0, RunTypes, JobTypes, NumbersOfRuns DEF Archive, daemonVars, runVars,
     launchVars, Kept, Live, JobInv, HandleInv, Handled, Idle
<1>21. ASSUME ArchiveWritten PROVE Kept(t)'
  BY <1>21, <1>0, RunTypes, JobTypes, NumbersOfRuns DEF ArchiveWritten, Persist,
     daemonVars, runVars, launchVars, Kept, Live, JobInv, HandleInv, Handled, Idle
<1>22. ASSUME ArchiveFiled PROVE Kept(t)'
  BY <1>22, <1>0, RunTypes, JobTypes, NumbersOfRuns DEF ArchiveFiled, handleVars,
     runVars, launchVars, endVars, Kept, Live, JobInv, HandleInv, Handled, Idle
<1>23. ASSUME Delete PROVE Kept(t)'
  BY <1>23, PutDownAlone, <1>0, RunTypes, JobTypes, NumbersOfRuns DEF Delete,
     handleVars, runVars, launchVars, Kept, Live, JobInv, HandleInv, Handled, Idle
<1>24. ASSUME Discard PROVE Kept(t)'
  BY <1>24, <1>0, RunTypes, JobTypes, NumbersOfRuns DEF Discard, daemonVars, runVars,
     launchVars, Kept, Live, DownInv
<1>25. ASSUME DeleteFiled PROVE Kept(t)'
  BY <1>25, <1>0, RunTypes, JobTypes, NumbersOfRuns DEF DeleteFiled, handleVars,
     runVars, launchVars, Kept, Live, JobInv, HandleInv, Handled, Idle
<1>26. ASSUME HandOver PROVE Kept(t)'
  BY <1>26, <1>0, RunTypes, JobTypes, NumbersOfRuns
     DEF HandOver, Gone, Kept, Live, JobInv, HandleInv, Handled, Idle
<1>27. ASSUME Killed PROVE Kept(t)'
  <2>1. keeper[t] # "starting" /\ ~up' /\ UNCHANGED <<keeper, child, path, started>>
    BY <1>27 DEF Killed, Gone, Calm
  <2> QED
    BY <1>0, <2>1 DEF Kept
<1>28. ASSUME Start PROVE Kept(t)'
  <2>1. ~up /\ keeper[t] # "starting" /\ UNCHANGED <<started, job, deleting>>
    BY <1>28, <1>0 DEF Start, Kept, JobInv, launchVars, endVars
  <2>2. CASE path = NoRun \/ keeper[path] # "up"
    BY <1>28, <1>0, <2>1, <2>2, NumbersOfRuns DEF Start, ReadsRecord, Kept
  <2>3. CASE path # NoRun /\ keeper[path] = "up"
    <3>1. path \in Runs /\ (t # path => keeper[t] # "up")
      BY <1>0, <2>3, RunTypes DEF Kept
    <3>2. CASE file = Nothing
      BY <1>28, <1>0, <2>1, <2>3, <3>1, <3>2, RunTypes DEF Start, Dismisses, Kept
    <3>3. CASE file # Nothing /\ child[path] = "running"
      <4>1. mapped' = path /\ UNCHANGED <<keeper, child, path>>
        BY <1>28, <2>3, <3>1, <3>3, NumbersOfRuns DEF Start, Adopts
      <4> QED
        BY <1>0, <2>1, <3>1, <4>1 DEF Kept
    <3>4. CASE file # Nothing /\ child[path] # "running"
      BY <1>28, <1>0, <2>1, <2>3, <3>1, <3>4, RunTypes DEF Start, Retires, Kept
    <3> QED
      BY <3>2, <3>3, <3>4
  <2> QED
    BY <2>2, <2>3
<1>29. CASE UNCHANGED revivalVars
  BY <1>0, <1>29 DEF revivalVars, daemonVars, handleVars, runVars, launchVars, endVars,
     Kept, Live, JobInv, HandleInv, Handled, Idle
<1>30. QED
  BY <1>1, <1>2, <1>3, <1>4, <1>5, <1>6, <1>7, <1>8, <1>9, <1>10, <1>11, <1>12, <1>13,
     <1>14, <1>15, <1>16, <1>17, <1>18, <1>19, <1>20, <1>21, <1>22, <1>23, <1>24, <1>25,
     <1>26, <1>27, <1>28, <1>29, GreetedIsThrough
     DEF RevivalNext, Launch

\* Every step leaves the launch in hand what it needs.
LEMMA JobKept ==
    ASSUME Calm, ~late', RevivalInv, [RevivalNext]_revivalVars
    PROVE  JobInv'
<1>0. KeeperInv /\ JobInv /\ HandleInv /\ MapInv /\ DownInv /\ FileInv
  BY DEF RevivalInv
<1>1. ASSUME NEW c \in Clients, AskToLaunch(c) PROVE JobInv'
  BY <1>1, <1>0, RunTypes, JobTypes, NumbersOfRuns DEF AskToLaunch, daemonVars,
     handleVars, runVars, endVars, JobInv, Live, Idle
<1>2. ASSUME NEW c \in Clients, LoseBridge(c) PROVE JobInv'
  BY <1>2, <1>0, RunTypes, JobTypes, NumbersOfRuns DEF LoseBridge, CutOff, daemonVars,
     handleVars, runVars, endVars, JobInv, Live, Idle
<1>3. ASSUME NEW c \in Clients, Look(c) PROVE JobInv'
  BY <1>3, <1>0, RunTypes, JobTypes, NumbersOfRuns DEF Look, daemonVars, handleVars,
     runVars, endVars, JobInv, Live, Idle
<1>4. ASSUME NEW c \in Clients, LookAgain(c) PROVE JobInv'
  BY <1>4, <1>0, RunTypes, JobTypes, NumbersOfRuns DEF LookAgain, daemonVars,
     handleVars, runVars, endVars, JobInv, Live, Idle
<1>5. ASSUME NEW request \in queue, Refuse(request) PROVE JobInv'
  BY <1>5, <1>0, RunTypes, JobTypes, NumbersOfRuns DEF Refuse, Answered, daemonVars,
     handleVars, runVars, endVars, JobInv, Live, Idle
<1>6. ASSUME NEW request \in queue, Take(request) PROVE JobInv'
  <2>1. /\ job'.at = "taken" /\ job'.for = request /\ job'.run = NoRun
        /\ UNCHANGED <<up, archiving, deleting, keeper, started, mapped>>
    BY <1>6 DEF Take, TakeFromMap, TakeFromArchive, TakeNothing, Begins, handleVars,
       runVars, endVars
  <2>2. filed' = Nothing
    BY <1>6, <1>0 DEF Take, TakeFromMap, TakeFromArchive, TakeNothing, FileInv
  <2> QED
    BY <1>6, <2>1, <2>2, TakenWhenClear, JobTypes DEF JobInv, Live
<1>7. ASSUME FailEarly PROVE JobInv'
  BY <1>7, FailedLaunch, <1>0, RunTypes, JobTypes, NumbersOfRuns DEF FailEarly, Fail,
     handleVars, runVars, endVars, JobInv, Live, Idle
<1>8. ASSUME WriteRecord PROVE JobInv'
  BY <1>8, <1>0, RunTypes, JobTypes, NumbersOfRuns DEF WriteRecord, launching,
     daemonVars, handleVars, runVars, JobInv, Live, Idle
<1>9. ASSUME FailToSpawn PROVE JobInv'
  BY <1>9, FailedLaunch, <1>0, RunTypes, JobTypes, NumbersOfRuns DEF FailToSpawn,
     Fail, launching, handleVars, runVars, endVars, JobInv, Live, Idle
<1>10. ASSUME SpawnKeeper PROVE JobInv'
  <2>1. /\ started < MaxRuns /\ started + 1 \in Runs /\ up /\ filed = Nothing
        /\ archiving = NoRun /\ deleting = NoRun /\ \A r \in Runs : ~Live(r)
        /\ job.for \in Clients \X (1..2)
        /\ job' = [job EXCEPT !.at = "spawned", !.run = started + 1]
        /\ keeper' = [keeper EXCEPT ![started + 1] = "starting"]
        /\ started' = started + 1
        /\ UNCHANGED <<up, mapped, filed, deleting, archiving, reader, client>>
    BY <1>10, <1>0, RunTypes, NumbersOfRuns
       DEF SpawnKeeper, launching, JobInv, daemonVars, handleVars, endVars
  <2>2. job'.at = "spawned" /\ job'.run = started + 1 /\ job'.for = job.for
    BY <2>1, JobTypes
  <2>3. \A r \in Runs : Live(r)' => r = job'.run
    BY <2>1, <2>2, RunTypes DEF Live
  <2>4. keeper[started + 1] = "none"
    BY <1>0, <2>1, RunTypes DEF KeeperInv, Kept
  <2>5. mapped # started + 1 /\ reader[started + 1] = "none"
        /\ client[started + 1] = NoRun
    BY <1>0, <2>1, <2>4, NumbersOfRuns, RunTypes DEF HandleInv, Handled, MapInv
  <2> QED
    BY <2>1, <2>2, <2>3, <2>5 DEF JobInv
<1>11. ASSUME ConnectToKeeper PROVE JobInv'
  BY <1>11, <1>0, RunTypes, JobTypes, NumbersOfRuns DEF ConnectToKeeper, launching,
     daemonVars, endVars, JobInv, Live, Idle
<1>12. ASSUME GivesUp PROVE JobInv'
  BY <1>12, FailedLaunch, <1>0, RunTypes, JobTypes, NumbersOfRuns DEF GivesUp, Fail,
     launching, handleVars, runVars, endVars, JobInv, Live, Idle
<1>13. ASSUME Insert PROVE JobInv'
  BY <1>13, <1>0, RunTypes, JobTypes, NumbersOfRuns DEF Insert, launching, runVars,
     JobInv, Live, Idle
<1>14. ASSUME NEW r \in Runs, KeeperBinds(r) PROVE JobInv'
  BY <1>14, <1>0, RunTypes, JobTypes, NumbersOfRuns DEF KeeperBinds, daemonVars,
     handleVars, launchVars, endVars, JobInv, Live, Idle
<1>15. ASSUME NEW r \in Runs, KeeperFails(r) PROVE JobInv'
  BY <1>15, <1>0, RunTypes, JobTypes, NumbersOfRuns DEF KeeperFails, daemonVars,
     handleVars, launchVars, endVars, JobInv, Live, Idle
<1>16. ASSUME NEW r \in Runs, ChildEnds(r) PROVE JobInv'
  BY <1>16, <1>0, RunTypes, JobTypes, NumbersOfRuns DEF ChildEnds, daemonVars,
     handleVars, launchVars, endVars, JobInv, Live, Idle
<1>17. ASSUME NEW r \in Runs, KeeperLeaves(r) PROVE JobInv'
  BY <1>17, <1>0, RunTypes, JobTypes, NumbersOfRuns DEF KeeperLeaves, Dismissed,
     daemonVars, handleVars, launchVars, endVars, JobInv, Live, Idle, KeeperInv
<1>18. ASSUME NEW r \in Runs, ReaderHears(r) PROVE JobInv'
  BY <1>18, <1>0, RunTypes, JobTypes, NumbersOfRuns DEF ReaderHears, daemonVars,
     runVars, launchVars, endVars, JobInv, Live, Idle
<1>19. ASSUME NEW r \in Runs, MarkDead(r) PROVE JobInv'
  BY <1>19, <1>0, RunTypes, JobTypes, NumbersOfRuns DEF MarkDead, Persist, daemonVars,
     runVars, launchVars, endVars, JobInv, Live, Idle
<1>20. ASSUME Archive PROVE JobInv'
  <2>1. job' = Idle
    BY <1>20, PutDownAlone DEF Archive, launchVars
  <2> QED
    BY <2>1 DEF JobInv, Idle
<1>21. ASSUME ArchiveWritten PROVE JobInv'
  BY <1>21, <1>0, RunTypes, JobTypes, NumbersOfRuns DEF ArchiveWritten, Persist,
     daemonVars, runVars, launchVars, JobInv, Live, Idle
<1>22. ASSUME ArchiveFiled PROVE JobInv'
  BY <1>22, <1>0, RunTypes, JobTypes, NumbersOfRuns DEF ArchiveFiled, handleVars,
     runVars, launchVars, endVars, JobInv, Live, Idle
<1>23. ASSUME Delete PROVE JobInv'
  BY <1>23, PutDownAlone, <1>0, RunTypes, JobTypes, NumbersOfRuns DEF Delete,
     handleVars, runVars, launchVars, JobInv, Live, Idle
<1>24. ASSUME Discard PROVE JobInv'
  BY <1>24, <1>0, RunTypes, JobTypes, NumbersOfRuns DEF Discard, daemonVars, runVars,
     launchVars, JobInv, Live, Idle
<1>25. ASSUME DeleteFiled PROVE JobInv'
  BY <1>25, <1>0, RunTypes, JobTypes, NumbersOfRuns DEF DeleteFiled, handleVars,
     runVars, launchVars, JobInv, Live, Idle
<1>26. ASSUME HandOver PROVE JobInv'
  BY <1>26, <1>0, RunTypes, JobTypes, NumbersOfRuns DEF HandOver, Gone, JobInv, Live,
     Idle
<1>27. ASSUME Killed PROVE JobInv'
  BY <1>27, <1>0, RunTypes, JobTypes, NumbersOfRuns DEF Killed, Gone, JobInv, Live,
     Idle
<1>28. ASSUME Start PROVE JobInv'
  BY <1>28, <1>0, RunTypes, JobTypes, NumbersOfRuns DEF Start, ReadsRecord, Dismisses,
     Adopts, Retires, handleVars, launchVars, endVars, JobInv, Live, Idle
<1>29. CASE UNCHANGED revivalVars
  BY <1>0, <1>29 DEF revivalVars, daemonVars, handleVars, runVars, launchVars, endVars,
     JobInv, Live, Idle
<1>30. QED
  BY <1>1, <1>2, <1>3, <1>4, <1>5, <1>6, <1>7, <1>8, <1>9, <1>10, <1>11, <1>12, <1>13,
     <1>14, <1>15, <1>16, <1>17, <1>18, <1>19, <1>20, <1>21, <1>22, <1>23, <1>24, <1>25,
     <1>26, <1>27, <1>28, <1>29, GreetedIsThrough
     DEF RevivalNext, Launch

\* Every step leaves the handles connected to their own keepers.
LEMMA HandlesKept ==
    ASSUME Calm, ~late', RevivalInv, [RevivalNext]_revivalVars
    PROVE  HandleInv'
<1> SUFFICES ASSUME NEW t \in Runs PROVE Handled(t)'
  BY DEF HandleInv
<1>0. Handled(t) /\ Kept(t) /\ HandleInv /\ JobInv /\ MapInv /\ DownInv
  BY DEF RevivalInv, HandleInv, KeeperInv
<1>1. ASSUME NEW c \in Clients, AskToLaunch(c) PROVE Handled(t)'
  BY <1>1, <1>0, RunTypes, JobTypes, NumbersOfRuns DEF AskToLaunch, daemonVars,
     handleVars, runVars, endVars, Handled, Reads, Kept, JobInv
<1>2. ASSUME NEW c \in Clients, LoseBridge(c) PROVE Handled(t)'
  BY <1>2, <1>0, RunTypes, JobTypes, NumbersOfRuns DEF LoseBridge, CutOff, daemonVars,
     handleVars, runVars, endVars, Handled, Reads, Kept, JobInv
<1>3. ASSUME NEW c \in Clients, Look(c) PROVE Handled(t)'
  BY <1>3, <1>0, RunTypes, JobTypes, NumbersOfRuns DEF Look, daemonVars, handleVars,
     runVars, endVars, Handled, Reads, Kept, JobInv
<1>4. ASSUME NEW c \in Clients, LookAgain(c) PROVE Handled(t)'
  BY <1>4, <1>0, RunTypes, JobTypes, NumbersOfRuns DEF LookAgain, daemonVars,
     handleVars, runVars, endVars, Handled, Reads, Kept, JobInv
<1>5. ASSUME NEW request \in queue, Refuse(request) PROVE Handled(t)'
  BY <1>5, <1>0, RunTypes, JobTypes, NumbersOfRuns DEF Refuse, Answered, daemonVars,
     handleVars, runVars, endVars, Handled, Reads, Kept, JobInv
<1>6. ASSUME NEW request \in queue, Take(request) PROVE Handled(t)'
  BY <1>6, TakenWhenClear, <1>0, RunTypes, JobTypes, NumbersOfRuns DEF Take,
     TakeFromMap, TakeFromArchive, TakeNothing, Begins, handleVars, runVars, endVars,
     Handled, Reads, Kept, JobInv
<1>7. ASSUME FailEarly PROVE Handled(t)'
  BY <1>7, FailedLaunch, <1>0, RunTypes, JobTypes, NumbersOfRuns DEF FailEarly, Fail,
     handleVars, runVars, endVars, Handled, Reads, Kept, JobInv
<1>8. ASSUME WriteRecord PROVE Handled(t)'
  BY <1>8, <1>0, RunTypes, JobTypes, NumbersOfRuns DEF WriteRecord, launching,
     daemonVars, handleVars, runVars, Handled, Reads, Kept, JobInv
<1>9. ASSUME FailToSpawn PROVE Handled(t)'
  BY <1>9, FailedLaunch, <1>0, RunTypes, JobTypes, NumbersOfRuns DEF FailToSpawn,
     Fail, launching, handleVars, runVars, endVars, Handled, Reads, Kept, JobInv
<1>10. ASSUME SpawnKeeper PROVE Handled(t)'
  BY <1>10, <1>0, RunTypes, JobTypes, NumbersOfRuns DEF SpawnKeeper, launching,
     daemonVars, handleVars, endVars, Handled, Reads, Kept, JobInv
<1>11. ASSUME ConnectToKeeper PROVE Handled(t)'
  <2>1. path \in Runs /\ path = job.run
    BY <1>11, <1>0, RunTypes DEF ConnectToKeeper, launching, JobInv, Live
  <2> QED
    BY <1>11, <1>0, <2>1, RunTypes
       DEF ConnectToKeeper, launching, daemonVars, Handled, Reads, Kept, JobInv, JobInv
<1>12. ASSUME GivesUp PROVE Handled(t)'
  BY <1>12, FailedLaunch, <1>0, RunTypes, JobTypes, NumbersOfRuns DEF GivesUp, Fail,
     launching, handleVars, runVars, endVars, Handled, Reads, Kept, JobInv
<1>13. ASSUME Insert PROVE Handled(t)'
  <2>1. /\ job.run \in Runs /\ job.at = "greeted" /\ up
        /\ client[job.run] = job.run /\ keeper[job.run] = "up"
        /\ t # job.run => ~Live(t)
    BY <1>13, <1>0 DEF Insert, launching, JobInv
  <2>2. PICK x \in Records : /\ copy' = [copy EXCEPT ![job.run] = x]
        /\ mapped' = job.run
                             /\ reader' = [reader EXCEPT ![job.run] = "reading"]
                             /\ shut' = [shut EXCEPT ![job.run] = FALSE]
                             /\ UNCHANGED <<to, up, deleting, keeper, child, client>>
    <3>1. Fresh(IF job.took = Nothing THEN job.for[1] ELSE job.took.who) \in Records
      BY <1>0, <2>1, JobTypes, RecordsMade DEF JobInv, Records
    <3> QED
      BY <1>13, <3>1 DEF Insert, runVars
  <2>3. HandleInv /\ x # Nothing
    BY <1>0, NothingIsNoRecord
  <2>4. CASE t = job.run
    BY <1>0, <2>1, <2>2, <2>3, <2>4, RunTypes DEF Handled, Reads, Kept, JobInv
  <2>5. CASE t # job.run
    BY <1>0, <2>1, <2>2, <2>5, RunTypes DEF Handled, Reads, Kept, JobInv, Live
  <2> QED
    BY <2>4, <2>5
<1>14. ASSUME NEW r \in Runs, KeeperBinds(r) PROVE Handled(t)'
  BY <1>14, <1>0, RunTypes, JobTypes, NumbersOfRuns DEF KeeperBinds, daemonVars,
     handleVars, endVars, Handled, Reads, Kept, JobInv
<1>15. ASSUME NEW r \in Runs, KeeperFails(r) PROVE Handled(t)'
  BY <1>15, <1>0, RunTypes, JobTypes, NumbersOfRuns DEF KeeperFails, daemonVars,
     handleVars, endVars, Handled, Reads, Kept, JobInv
<1>16. ASSUME NEW r \in Runs, ChildEnds(r) PROVE Handled(t)'
  BY <1>16, <1>0, RunTypes, JobTypes, NumbersOfRuns DEF ChildEnds, daemonVars,
     handleVars, endVars, Handled, Reads, Kept, JobInv
<1>17. ASSUME NEW r \in Runs, KeeperLeaves(r) PROVE Handled(t)'
  BY <1>17, <1>0, RunTypes, JobTypes, NumbersOfRuns DEF KeeperLeaves, Dismissed,
     daemonVars, handleVars, endVars, Handled, Reads, Kept, JobInv
<1>18. ASSUME NEW r \in Runs, ReaderHears(r) PROVE Handled(t)'
  <2>1. /\ reader[r] = "reading"
        /\ reader' = [reader EXCEPT ![r] = IF mapped = r THEN "burying" ELSE "done"]
        /\ UNCHANGED <<up, mapped, copy, shut, to, keeper, child, client, deleting>>
    BY <1>18 DEF ReaderHears, daemonVars, runVars, endVars
  <2>2. child[r] = "ended" /\ Handled(r)
    BY <1>18, <1>0, <2>1 DEF ReaderHears, Ended, HandleInv, Handled
  <2> QED
    BY <1>0, <2>1, <2>2, RunTypes DEF Handled, Reads, Kept, JobInv
<1>19. ASSUME NEW r \in Runs, MarkDead(r) PROVE Handled(t)'
  <2>1. copy[r] \in Records /\ reader[r] = "burying"
    BY <1>19, <1>0, RunTypes DEF MarkDead, HandleInv, Handled, Reads, Kept, JobInv
  <2>2. [copy[r] EXCEPT !.dead = TRUE] # Nothing
    BY <2>1, NothingAssumption DEF Records
  <2>3. /\ copy' = [copy EXCEPT ![r] = [copy[r] EXCEPT !.dead = TRUE]]
        /\ reader' = [reader EXCEPT ![r] = "done"]
        /\ UNCHANGED <<up, mapped, shut, to, keeper, child, client, deleting>>
    BY <1>19 DEF MarkDead, Persist, daemonVars, runVars, endVars
  <2> QED
    BY <1>0, <2>1, <2>2, <2>3, RunTypes DEF Handled, Reads, Kept, JobInv
<1>20. ASSUME Archive PROVE Handled(t)'
  <2>1. mapped \in Runs /\ copy[mapped] \in Records
    BY <1>20, <1>0, PutDownAlone, RunTypes, NumbersOfRuns DEF MapInv
  <2>2. [copy[mapped] EXCEPT !.archived = TRUE] # Nothing
    BY <2>1, NothingAssumption DEF Records
  <2>3. /\ copy' = [copy EXCEPT ![mapped] = [copy[mapped] EXCEPT !.archived = TRUE]]
        /\ UNCHANGED <<up, mapped, shut, to, reader, keeper, child, client, deleting>>
    BY <1>20 DEF Archive, daemonVars, runVars
  <2> QED
    BY <1>0, <2>1, <2>2, <2>3, RunTypes DEF Handled, Reads, Kept, JobInv
<1>21. ASSUME ArchiveWritten PROVE Handled(t)'
  <2>1. archiving \in Runs /\ copy[archiving] \in Records
    BY <1>21, <1>0, RunTypes DEF ArchiveWritten, DownInv
  <2>2. [copy[archiving] EXCEPT !.dead = TRUE] # Nothing
    BY <2>1, NothingAssumption DEF Records
  <2>3. /\ copy' = [copy EXCEPT ![archiving] = [copy[archiving] EXCEPT !.dead = TRUE]]
        /\ UNCHANGED <<up, mapped, shut, to, reader, keeper, child, client, deleting>>
    BY <1>21 DEF ArchiveWritten, Persist, daemonVars, runVars
  <2> QED
    BY <1>0, <2>1, <2>2, <2>3, RunTypes DEF Handled, Reads, Kept, JobInv
<1>22. ASSUME ArchiveFiled PROVE Handled(t)'
  BY <1>22, <1>0, RunTypes, JobTypes, NumbersOfRuns DEF ArchiveFiled, handleVars,
     runVars, endVars, Handled, Reads, Kept, JobInv
<1>23. ASSUME Delete PROVE Handled(t)'
  BY <1>23, PutDownAlone, <1>0, RunTypes, JobTypes, NumbersOfRuns DEF Delete,
     handleVars, runVars, Handled, Reads, Kept, JobInv
<1>24. ASSUME Discard PROVE Handled(t)'
  BY <1>24, <1>0, RunTypes, JobTypes, NumbersOfRuns DEF Discard, daemonVars, runVars,
     Handled, Reads, Kept, JobInv
<1>25. ASSUME DeleteFiled PROVE Handled(t)'
  BY <1>25, <1>0, RunTypes, JobTypes, NumbersOfRuns DEF DeleteFiled, handleVars,
     runVars, Handled, Reads, Kept, JobInv
<1>26. ASSUME HandOver PROVE Handled(t)'
  BY <1>26, <1>0, RunTypes, JobTypes, NumbersOfRuns
     DEF HandOver, Gone, Handled, Reads, Kept, JobInv
<1>27. ASSUME Killed PROVE Handled(t)'
  BY <1>27, <1>0, RunTypes, JobTypes, NumbersOfRuns
     DEF Killed, Gone, Handled, Reads, Kept, JobInv
<1>28. ASSUME Start PROVE Handled(t)'
  <2>1. /\ ~up /\ up' /\ client[t] # t /\ reader[t] = "none" /\ mapped = NoRun
        /\ deleting = NoRun
        /\ UNCHANGED <<deleting>>
    BY <1>28, <1>0, RunTypes, NumbersOfRuns
       DEF Start, Handled, MapInv, DownInv, HandleInv, endVars
  <2>2. CASE path = NoRun \/ keeper[path] # "up" \/ file = Nothing
    BY <1>28, <1>0, <2>1, <2>2
       DEF Start, ReadsRecord, Dismisses, Handled, Reads, Kept, JobInv, handleVars
  <2>3. CASE path # NoRun /\ keeper[path] = "up" /\ file # Nothing
        /\ child[path] # "running"
    BY <1>28, <1>0, <2>1, <2>3
       DEF Start, Retires, Handled, Reads, Kept, JobInv, handleVars
  <2>4. CASE path # NoRun /\ keeper[path] = "up" /\ file # Nothing
        /\ child[path] = "running"
    <3>1. path \in Runs /\ file \in Records /\ [file EXCEPT !.dead = FALSE] # Nothing
      BY <2>4, RunTypes, JobTypes, NothingAssumption DEF Records
    <3>2. /\ mapped' = path
          /\ copy' = [copy EXCEPT ![path] = [file EXCEPT !.dead = FALSE]]
          /\ shut' = [shut EXCEPT ![path] = FALSE] /\ to' = [to EXCEPT ![path] = path]
          /\ client' = [client EXCEPT ![path] = path]
          /\ reader' = [reader EXCEPT ![path] = "reading"]
          /\ UNCHANGED <<keeper, child>>
      BY <1>28, <2>4, <3>1 DEF Start, Adopts
    <3> QED
      BY <1>0, <2>1, <2>4, <3>1, <3>2, RunTypes DEF Handled, Reads, Kept, JobInv
  <2> QED
    BY <2>2, <2>3, <2>4
<1>29. CASE UNCHANGED revivalVars
  BY <1>0, <1>29 DEF revivalVars, daemonVars, handleVars, runVars, endVars, Handled,
     Reads, Kept, JobInv
<1>30. QED
  BY <1>1, <1>2, <1>3, <1>4, <1>5, <1>6, <1>7, <1>8, <1>9, <1>10, <1>11, <1>12, <1>13,
     <1>14, <1>15, <1>16, <1>17, <1>18, <1>19, <1>20, <1>21, <1>22, <1>23, <1>24, <1>25,
     <1>26, <1>27, <1>28, <1>29, GreetedIsThrough
     DEF RevivalNext, Launch

\* Every step leaves a session that is listed a handle that serves it.
LEMMA MapKept ==
    ASSUME Calm, ~late', RevivalInv, [RevivalNext]_revivalVars
    PROVE  MapInv'
<1>0. MapInv /\ HandleInv /\ JobInv /\ DownInv
  BY DEF RevivalInv
<1>1. ASSUME NEW c \in Clients, AskToLaunch(c) PROVE MapInv'
  BY <1>1, <1>0, RunTypes DEF AskToLaunch, daemonVars, handleVars, runVars, MapInv
<1>2. ASSUME NEW c \in Clients, LoseBridge(c) PROVE MapInv'
  BY <1>2, <1>0, RunTypes DEF LoseBridge, CutOff, daemonVars, handleVars, runVars,
     MapInv
<1>3. ASSUME NEW c \in Clients, Look(c) PROVE MapInv'
  BY <1>3, <1>0, RunTypes DEF Look, daemonVars, handleVars, runVars, MapInv
<1>4. ASSUME NEW c \in Clients, LookAgain(c) PROVE MapInv'
  BY <1>4, <1>0, RunTypes DEF LookAgain, daemonVars, handleVars, runVars, MapInv
<1>5. ASSUME NEW request \in queue, Refuse(request) PROVE MapInv'
  BY <1>5, <1>0, RunTypes DEF Refuse, Answered, daemonVars, handleVars, runVars,
     MapInv
<1>6. ASSUME NEW request \in queue, Take(request) PROVE MapInv'
  BY <1>6, TakenWhenClear, <1>0, RunTypes DEF Take, TakeFromMap, TakeFromArchive,
     TakeNothing, Begins, handleVars, runVars, MapInv
<1>7. ASSUME FailEarly PROVE MapInv'
  BY <1>7, FailedLaunch, <1>0, RunTypes DEF FailEarly, Fail, handleVars, runVars,
     MapInv
<1>8. ASSUME WriteRecord PROVE MapInv'
  BY <1>8, <1>0, RunTypes DEF WriteRecord, launching, daemonVars, handleVars, runVars,
     MapInv
<1>9. ASSUME FailToSpawn PROVE MapInv'
  BY <1>9, FailedLaunch, <1>0, RunTypes DEF FailToSpawn, Fail, launching, handleVars,
     runVars, MapInv
<1>10. ASSUME SpawnKeeper PROVE MapInv'
  BY <1>10, <1>0, RunTypes DEF SpawnKeeper, launching, daemonVars, handleVars, MapInv
<1>11. ASSUME ConnectToKeeper PROVE MapInv'
  <2>1. path \in Runs /\ path = job.run /\ mapped # job.run
    BY <1>11, <1>0, RunTypes DEF ConnectToKeeper, launching, JobInv, Live
  <2> QED
    BY <1>11, <1>0, <2>1, RunTypes DEF ConnectToKeeper, daemonVars, MapInv
<1>12. ASSUME GivesUp PROVE MapInv'
  BY <1>12, FailedLaunch, <1>0, RunTypes DEF GivesUp, Fail, launching, handleVars,
     runVars, MapInv
<1>13. ASSUME Insert PROVE MapInv'
  <2>1. job.run \in Runs /\ job.at = "greeted" /\ client[job.run] = job.run
    BY <1>13, <1>0 DEF Insert, launching, JobInv
  <2>2. PICK c \in Clients : copy' = [copy EXCEPT ![job.run] = Fresh(c)]
    BY <1>13, <1>0, <2>1, JobTypes DEF Insert, JobInv, Records
  <2>3. /\ mapped' = job.run /\ shut' = [shut EXCEPT ![job.run] = FALSE]
        /\ UNCHANGED <<child, client>>
    BY <1>13 DEF Insert, runVars
  <2>4. Fresh(c) # Nothing /\ ~Fresh(c).dead
    BY RecordsMade, NothingIsNoRecord
  <2> QED
    BY <2>1, <2>2, <2>3, <2>4, RunTypes DEF MapInv
<1>14. ASSUME NEW r \in Runs, KeeperBinds(r) PROVE MapInv'
  <2>1. mapped # r
    BY <1>14, <1>0, RunTypes, NumbersOfRuns DEF KeeperBinds, MapInv, HandleInv, Handled
  <2> QED
    BY <1>14, <1>0, <2>1, RunTypes DEF KeeperBinds, daemonVars, handleVars, MapInv
<1>15. ASSUME NEW r \in Runs, KeeperFails(r) PROVE MapInv'
  BY <1>15, <1>0, RunTypes DEF KeeperFails, daemonVars, handleVars, MapInv
<1>16. ASSUME NEW r \in Runs, ChildEnds(r) PROVE MapInv'
  BY <1>16, <1>0, RunTypes DEF ChildEnds, daemonVars, handleVars, MapInv
<1>17. ASSUME NEW r \in Runs, KeeperLeaves(r) PROVE MapInv'
  BY <1>17, <1>0, RunTypes DEF KeeperLeaves, Dismissed, daemonVars, handleVars, MapInv
<1>18. ASSUME NEW r \in Runs, ReaderHears(r) PROVE MapInv'
  BY <1>18, <1>0, RunTypes DEF ReaderHears, daemonVars, runVars, MapInv
<1>19. ASSUME NEW r \in Runs, MarkDead(r) PROVE MapInv'
  <2>1. child[r] = "ended" /\ copy[r] \in Records
    BY <1>19, <1>0, RunTypes DEF MarkDead, HandleInv, Handled, Reads
  <2>2. [copy[r] EXCEPT !.dead = TRUE] # Nothing
    BY <2>1, NothingAssumption DEF Records
  <2>3. /\ copy' = [copy EXCEPT ![r] = [copy[r] EXCEPT !.dead = TRUE]]
        /\ UNCHANGED <<mapped, shut, child, client>>
    BY <1>19 DEF MarkDead, Persist, daemonVars, runVars
  <2> QED
    BY <1>0, <2>1, <2>2, <2>3, RunTypes DEF MapInv
<1>20. ASSUME Archive PROVE MapInv'
  <2>1. mapped \in Runs /\ copy[mapped] \in Records
    BY <1>20, <1>0, PutDownAlone, RunTypes, NumbersOfRuns DEF MapInv
  <2>2. /\ [copy[mapped] EXCEPT !.archived = TRUE] # Nothing
        /\ [copy[mapped] EXCEPT !.archived = TRUE].archived
    BY <2>1, NothingAssumption DEF Records
  <2>3. /\ copy' = [copy EXCEPT ![mapped] = [copy[mapped] EXCEPT !.archived = TRUE]]
        /\ UNCHANGED <<mapped, shut, child, client>>
    BY <1>20 DEF Archive, daemonVars, runVars
  <2> QED
    BY <1>0, <2>1, <2>2, <2>3, RunTypes DEF MapInv
<1>21. ASSUME ArchiveWritten PROVE MapInv'
  <2>1. archiving \in Runs /\ copy[archiving] \in Records /\ copy[archiving].archived
    BY <1>21, <1>0, RunTypes DEF ArchiveWritten, DownInv
  <2>2. /\ [copy[archiving] EXCEPT !.dead = TRUE] # Nothing
        /\ [copy[archiving] EXCEPT !.dead = TRUE].archived
    BY <2>1, NothingAssumption DEF Records
  <2>3. /\ copy' = [copy EXCEPT ![archiving] = [copy[archiving] EXCEPT !.dead = TRUE]]
        /\ UNCHANGED <<mapped, shut, child, client>>
    BY <1>21 DEF ArchiveWritten, Persist, daemonVars, runVars
  <2> QED
    BY <1>0, <2>1, <2>2, <2>3, RunTypes DEF MapInv
<1>22. ASSUME ArchiveFiled PROVE MapInv'
  BY <1>22, <1>0, RunTypes DEF ArchiveFiled, handleVars, runVars, MapInv
<1>23. ASSUME Delete PROVE MapInv'
  BY <1>23, PutDownAlone, <1>0, RunTypes DEF Delete, handleVars, runVars, MapInv
<1>24. ASSUME Discard PROVE MapInv'
  BY <1>24, <1>0, RunTypes DEF Discard, daemonVars, runVars, MapInv, DownInv
<1>25. ASSUME DeleteFiled PROVE MapInv'
  BY <1>25, <1>0, RunTypes DEF DeleteFiled, handleVars, runVars, MapInv
<1>26. ASSUME HandOver PROVE MapInv'
  BY <1>26, <1>0, RunTypes DEF HandOver, Gone, MapInv
<1>27. ASSUME Killed PROVE MapInv'
  BY <1>27, <1>0, RunTypes DEF Killed, Gone, MapInv
<1>28. ASSUME Start PROVE MapInv'
  <2>1. mapped = NoRun
    BY <1>28, <1>0, RunTypes, NumbersOfRuns DEF Start, MapInv, HandleInv, Handled
  <2>2. CASE mapped' = NoRun
    BY <2>2 DEF MapInv
  <2>3. CASE mapped' # NoRun
    <3>1. /\ path \in Runs /\ file \in Records /\ mapped' = path
          /\ copy' = [copy EXCEPT ![path] = [file EXCEPT !.dead = FALSE]]
          /\ shut' = [shut EXCEPT ![path] = FALSE]
          /\ client' = [client EXCEPT ![path] = path]
      BY <1>28, <2>1, <2>3, RunTypes, JobTypes
         DEF Start, ReadsRecord, Dismisses, Retires, Adopts
    <3>2. [file EXCEPT !.dead = FALSE] # Nothing /\ ~[file EXCEPT !.dead = FALSE].dead
      BY <3>1, NothingAssumption DEF Records
    <3> QED
      BY <3>1, <3>2, RunTypes DEF MapInv
  <2> QED
    BY <2>2, <2>3
<1>29. CASE UNCHANGED revivalVars
  BY <1>0, <1>29 DEF revivalVars, daemonVars, handleVars, runVars, MapInv
<1>30. QED
  BY <1>1, <1>2, <1>3, <1>4, <1>5, <1>6, <1>7, <1>8, <1>9, <1>10, <1>11, <1>12, <1>13,
     <1>14, <1>15, <1>16, <1>17, <1>18, <1>19, <1>20, <1>21, <1>22, <1>23, <1>24, <1>25,
     <1>26, <1>27, <1>28, <1>29, GreetedIsThrough
     DEF RevivalNext, Launch

\* Every step leaves what is being put down to whoever does it.
LEMMA DownKept ==
    ASSUME Calm, ~late', RevivalInv, [RevivalNext]_revivalVars
    PROVE  DownInv'
<1>0. MapInv /\ HandleInv /\ JobInv /\ DownInv /\ FileInv
  BY DEF RevivalInv
<1>1. ASSUME NEW c \in Clients, AskToLaunch(c) PROVE DownInv'
  BY <1>1, <1>0, RunTypes DEF AskToLaunch, daemonVars, handleVars, endVars, DownInv
<1>2. ASSUME NEW c \in Clients, LoseBridge(c) PROVE DownInv'
  BY <1>2, <1>0, RunTypes DEF LoseBridge, CutOff, daemonVars, handleVars, endVars,
     DownInv
<1>3. ASSUME NEW c \in Clients, Look(c) PROVE DownInv'
  BY <1>3, <1>0, RunTypes DEF Look, daemonVars, handleVars, endVars, DownInv
<1>4. ASSUME NEW c \in Clients, LookAgain(c) PROVE DownInv'
  BY <1>4, <1>0, RunTypes DEF LookAgain, daemonVars, handleVars, endVars, DownInv
<1>5. ASSUME NEW request \in queue, Refuse(request) PROVE DownInv'
  BY <1>5, <1>0, RunTypes DEF Refuse, Answered, daemonVars, handleVars, endVars,
     DownInv
<1>6. ASSUME NEW request \in queue, Take(request) PROVE DownInv'
  BY <1>6, TakenWhenClear, <1>0, RunTypes DEF Take, TakeFromMap, TakeFromArchive,
     TakeNothing, Begins, handleVars, endVars, DownInv
<1>7. ASSUME FailEarly PROVE DownInv'
  BY <1>7, FailedLaunch, <1>0, RunTypes DEF FailEarly, Fail, handleVars, endVars,
     DownInv, launching, JobInv
<1>8. ASSUME WriteRecord PROVE DownInv'
  BY <1>8, <1>0, RunTypes DEF WriteRecord, launching, daemonVars, handleVars, DownInv
<1>9. ASSUME FailToSpawn PROVE DownInv'
  BY <1>9, FailedLaunch, <1>0, RunTypes DEF FailToSpawn, Fail, launching, handleVars,
     endVars, DownInv
<1>10. ASSUME SpawnKeeper PROVE DownInv'
  BY <1>10, <1>0, RunTypes DEF SpawnKeeper, launching, daemonVars, handleVars,
     endVars, DownInv
<1>11. ASSUME ConnectToKeeper PROVE DownInv'
  BY <1>11, <1>0, RunTypes DEF ConnectToKeeper, launching, daemonVars, endVars,
     DownInv
<1>12. ASSUME GivesUp PROVE DownInv'
  BY <1>12, FailedLaunch, <1>0, RunTypes DEF GivesUp, Fail, launching, handleVars,
     endVars, DownInv
<1>13. ASSUME Insert PROVE DownInv'
  BY <1>13, <1>0, RunTypes DEF Insert, launching, DownInv
<1>14. ASSUME NEW r \in Runs, KeeperBinds(r) PROVE DownInv'
  BY <1>14, <1>0, RunTypes DEF KeeperBinds, daemonVars, handleVars, launchVars,
     endVars, DownInv
<1>15. ASSUME NEW r \in Runs, KeeperFails(r) PROVE DownInv'
  BY <1>15, <1>0, RunTypes DEF KeeperFails, daemonVars, handleVars, launchVars,
     endVars, DownInv
<1>16. ASSUME NEW r \in Runs, ChildEnds(r) PROVE DownInv'
  BY <1>16, <1>0, RunTypes DEF ChildEnds, daemonVars, handleVars, launchVars, endVars,
     DownInv
<1>17. ASSUME NEW r \in Runs, KeeperLeaves(r) PROVE DownInv'
  BY <1>17, <1>0, RunTypes DEF KeeperLeaves, Dismissed, daemonVars, handleVars,
     launchVars, endVars, DownInv
<1>18. ASSUME NEW r \in Runs, ReaderHears(r) PROVE DownInv'
  BY <1>18, <1>0, RunTypes DEF ReaderHears, daemonVars, launchVars, endVars, DownInv
<1>19. ASSUME NEW r \in Runs, MarkDead(r) PROVE DownInv'
  <2>1. copy[r] \in Records
    BY <1>19, <1>0, RunTypes DEF MarkDead, HandleInv, Handled, Reads
  <2>2. /\ [copy[r] EXCEPT !.dead = TRUE] # Nothing
        /\ copy[r].archived => [copy[r] EXCEPT !.dead = TRUE].archived
    BY <2>1, NothingAssumption DEF Records
  <2>3. /\ copy' = [copy EXCEPT ![r] = [copy[r] EXCEPT !.dead = TRUE]]
        /\ UNCHANGED <<up, mapped, filed, shut, to, job, archiving, deleting>>
    BY <1>19 DEF MarkDead, Persist, daemonVars, launchVars, endVars
  <2> QED
    BY <1>0, <2>2, <2>3, RunTypes DEF DownInv
<1>20. ASSUME Archive PROVE DownInv'
  <2>1. mapped \in Runs /\ copy[mapped] \in Records /\ job = Idle /\ filed = Nothing
        /\ deleting = NoRun
    BY <1>20, <1>0, PutDownAlone, RunTypes, NumbersOfRuns DEF MapInv, DownInv
  <2>2. /\ [copy[mapped] EXCEPT !.archived = TRUE] # Nothing
        /\ [copy[mapped] EXCEPT !.archived = TRUE].archived
    BY <2>1, NothingAssumption DEF Records
  <2>3. /\ copy' = [copy EXCEPT ![mapped] = [copy[mapped] EXCEPT !.archived = TRUE]]
        /\ archiving' = mapped /\ up
        /\ UNCHANGED <<up, mapped, filed, shut, to, job, deleting>>
    BY <1>20 DEF Archive, daemonVars, launchVars
  <2> QED
    BY <2>1, <2>2, <2>3, RunTypes DEF DownInv, Idle
<1>21. ASSUME ArchiveWritten PROVE DownInv'
  <2>1. archiving \in Runs /\ copy[archiving] \in Records
    BY <1>21, <1>0, RunTypes DEF ArchiveWritten, DownInv
  <2>2. [copy[archiving] EXCEPT !.dead = TRUE] # Nothing
    BY <2>1, NothingAssumption DEF Records
  <2>3. /\ copy' = [copy EXCEPT ![archiving] = [copy[archiving] EXCEPT !.dead = TRUE]]
        /\ archiving' = NoRun
        /\ UNCHANGED <<up, mapped, filed, shut, to, job, deleting>>
    BY <1>21 DEF ArchiveWritten, Persist, daemonVars, launchVars
  <2> QED
    BY <1>0, <2>1, <2>2, <2>3, RunTypes DEF DownInv
<1>22. ASSUME ArchiveFiled PROVE DownInv'
  BY <1>22, <1>0, RunTypes DEF ArchiveFiled, handleVars, launchVars, endVars, DownInv
<1>23. ASSUME Delete PROVE DownInv'
  <2>1. /\ mapped \in Runs /\ job = Idle /\ filed = Nothing /\ copy[mapped] # Nothing
        /\ to[mapped] = mapped
    BY <1>23, <1>0, PutDownAlone, NumbersOfRuns DEF MapInv, HandleInv, Handled
  <2>2. /\ up /\ deleting = NoRun /\ deleting' = mapped /\ mapped' = NoRun
        /\ UNCHANGED <<up, filed, copy, shut, to, job, archiving>>
    BY <1>23 DEF Delete, handleVars, launchVars
  <2> QED
    BY <1>0, <2>1, <2>2 DEF DownInv, Idle
<1>24. ASSUME Discard PROVE DownInv'
  BY <1>24, <1>0, RunTypes DEF Discard, daemonVars, launchVars, DownInv
<1>25. ASSUME DeleteFiled PROVE DownInv'
  BY <1>25, <1>0, RunTypes DEF DeleteFiled, handleVars, launchVars, DownInv
<1>26. ASSUME HandOver PROVE DownInv'
  BY <1>26, <1>0, RunTypes DEF HandOver, Gone, DownInv
<1>27. ASSUME Killed PROVE DownInv'
  BY <1>27, <1>0, RunTypes DEF Killed, Gone, DownInv
<1>28. ASSUME Start PROVE DownInv'
  BY <1>28, <1>0, RunTypes DEF Start, ReadsRecord, Dismisses, Adopts, Retires,
     handleVars, launchVars, endVars, DownInv
<1>29. CASE UNCHANGED revivalVars
  BY <1>0, <1>29 DEF revivalVars, daemonVars, handleVars, launchVars, endVars, DownInv
<1>30. QED
  BY <1>1, <1>2, <1>3, <1>4, <1>5, <1>6, <1>7, <1>8, <1>9, <1>10, <1>11, <1>12, <1>13,
     <1>14, <1>15, <1>16, <1>17, <1>18, <1>19, <1>20, <1>21, <1>22, <1>23, <1>24, <1>25,
     <1>26, <1>27, <1>28, <1>29, GreetedIsThrough
     DEF RevivalNext, Launch

\* Every step leaves the file and the memory in agreement.
LEMMA FileKept ==
    ASSUME Calm, ~late', RevivalInv, [RevivalNext]_revivalVars
    PROVE  FileInv'
<1>0. FileInv /\ TookInv /\ HandleInv /\ MapInv /\ JobInv /\ DownInv
  BY DEF RevivalInv
<1>1. ASSUME NEW c \in Clients, AskToLaunch(c) PROVE FileInv'
  BY <1>1, <1>0, RunTypes DEF AskToLaunch, daemonVars, handleVars, endVars, FileInv,
     Idle, DownInv, MapInv
<1>2. ASSUME NEW c \in Clients, LoseBridge(c) PROVE FileInv'
  BY <1>2, <1>0, RunTypes DEF LoseBridge, CutOff, daemonVars, handleVars, endVars,
     FileInv, Idle, DownInv, MapInv
<1>3. ASSUME NEW c \in Clients, Look(c) PROVE FileInv'
  BY <1>3, <1>0, RunTypes DEF Look, daemonVars, handleVars, endVars, FileInv, Idle,
     DownInv, MapInv
<1>4. ASSUME NEW c \in Clients, LookAgain(c) PROVE FileInv'
  BY <1>4, <1>0, RunTypes DEF LookAgain, daemonVars, handleVars, endVars, FileInv,
     Idle, DownInv, MapInv
<1>5. ASSUME NEW request \in queue, Refuse(request) PROVE FileInv'
  BY <1>5, <1>0, RunTypes DEF Refuse, Answered, daemonVars, handleVars, endVars,
     FileInv, Idle, DownInv, MapInv
<1>6. ASSUME NEW request \in queue, Take(request) PROVE FileInv'
  BY <1>6, TakenWhenClear, <1>0, RunTypes DEF Take, TakeFromMap, TakeFromArchive,
     TakeNothing, Begins, handleVars, endVars, FileInv, Idle, DownInv, MapInv
<1>7. ASSUME FailEarly PROVE FileInv'
  BY <1>7, <1>0, LaunchFails, RunTypes, JobTypes, NumbersOfRuns, NothingIsNoRecord,
     RecordsMade DEF FileInv, DownInv, MapInv, Idle
<1>8. ASSUME WriteRecord PROVE FileInv'
  BY <1>8, <1>0, RecordWritten, RunTypes, JobTypes, NumbersOfRuns, NothingIsNoRecord,
     RecordsMade DEF FileInv, DownInv, MapInv, Idle
<1>9. ASSUME FailToSpawn PROVE FileInv'
  BY <1>9, <1>0, LaunchFails, RunTypes, JobTypes, NumbersOfRuns, NothingIsNoRecord,
     RecordsMade DEF FileInv, DownInv, MapInv, Idle
<1>10. ASSUME SpawnKeeper PROVE FileInv'
  BY <1>10, <1>0, RunTypes DEF SpawnKeeper, launching, daemonVars, handleVars,
     endVars, FileInv, Idle, DownInv, MapInv
<1>11. ASSUME ConnectToKeeper PROVE FileInv'
  BY <1>11, <1>0, RunTypes DEF ConnectToKeeper, launching, daemonVars, endVars,
     FileInv, Idle, DownInv, MapInv
<1>12. ASSUME GivesUp PROVE FileInv'
  BY <1>12, <1>0, LaunchFails, RunTypes, JobTypes, NumbersOfRuns, NothingIsNoRecord,
     RecordsMade DEF FileInv, DownInv, MapInv, Idle
<1>13. ASSUME Insert PROVE FileInv'
  BY <1>13, <1>0, SessionInserted, RunTypes, JobTypes, NumbersOfRuns,
     NothingIsNoRecord, RecordsMade DEF FileInv, DownInv, MapInv, Idle
<1>14. ASSUME NEW r \in Runs, KeeperBinds(r) PROVE FileInv'
  BY <1>14, <1>0, RunTypes DEF KeeperBinds, daemonVars, handleVars, launchVars,
     endVars, FileInv, Idle, DownInv, MapInv
<1>15. ASSUME NEW r \in Runs, KeeperFails(r) PROVE FileInv'
  BY <1>15, <1>0, RunTypes DEF KeeperFails, daemonVars, handleVars, launchVars,
     endVars, FileInv, Idle, DownInv, MapInv
<1>16. ASSUME NEW r \in Runs, ChildEnds(r) PROVE FileInv'
  BY <1>16, <1>0, RunTypes DEF ChildEnds, daemonVars, handleVars, launchVars, endVars,
     FileInv, Idle, DownInv, MapInv
<1>17. ASSUME NEW r \in Runs, KeeperLeaves(r) PROVE FileInv'
  BY <1>17, <1>0, RunTypes DEF KeeperLeaves, Dismissed, daemonVars, handleVars,
     launchVars, endVars, FileInv, Idle, DownInv, MapInv
<1>18. ASSUME NEW r \in Runs, ReaderHears(r) PROVE FileInv'
  BY <1>18, <1>0, RunTypes DEF ReaderHears, daemonVars, launchVars, endVars, FileInv,
     Idle, DownInv, MapInv
<1>19. ASSUME NEW r \in Runs, MarkDead(r) PROVE FileInv'
  <2>1. PICK x \in Records : /\ x.who = copy[r].who /\ copy' = [copy EXCEPT ![r] = x]
                             /\ file' = IF shut[r] THEN file ELSE x
    BY <1>19, ReaderRecords
  <2>2. /\ up /\ job.at = "idle" /\ copy[r] \in Records /\ x # Nothing
        /\ mapped = r \/ deleting = r \/ shut[r]
        /\ UNCHANGED <<up, mapped, filed, job, archiving, deleting, erased>>
    BY <1>19, ReaderRecords, NothingIsNoRecord DEF Idle
  <2>3. CASE mapped = r
    BY <1>0, <2>1, <2>2, <2>3, RunTypes, NumbersOfRuns DEF FileInv, MapInv, DownInv
  <2>4. CASE deleting = r
    BY <1>0, <2>1, <2>2, <2>4, RunTypes, NumbersOfRuns DEF FileInv, MapInv, DownInv
  <2>5. CASE mapped # r /\ deleting # r
    BY <1>0, <2>1, <2>2, <2>5, RunTypes DEF FileInv
  <2> QED
    BY <2>3, <2>4, <2>5
<1>20. ASSUME Archive PROVE FileInv'
  BY <1>20, <1>0, ArchivalMarks, RunTypes, JobTypes, NumbersOfRuns, NothingIsNoRecord,
     RecordsMade DEF FileInv, DownInv, MapInv, Idle
<1>21. ASSUME ArchiveWritten PROVE FileInv'
  BY <1>21, <1>0, ArchivalRecords, RunTypes, JobTypes, NumbersOfRuns,
     NothingIsNoRecord, RecordsMade DEF FileInv, DownInv, MapInv, Idle
<1>22. ASSUME ArchiveFiled PROVE FileInv'
  BY <1>22, <1>0, ArchivedOnFile, RunTypes, JobTypes, NumbersOfRuns, NothingIsNoRecord,
     RecordsMade DEF FileInv, DownInv, MapInv, Idle
<1>23. ASSUME Delete PROVE FileInv'
  BY <1>23, PutDownAlone, <1>0, RunTypes DEF Delete, handleVars, launchVars, FileInv,
     Idle, DownInv, MapInv
<1>24. ASSUME Discard PROVE FileInv'
  BY <1>24, <1>0, RunTypes DEF Discard, daemonVars, launchVars, FileInv, Idle,
     DownInv, MapInv
<1>25. ASSUME DeleteFiled PROVE FileInv'
  BY <1>25, <1>0, RunTypes DEF DeleteFiled, handleVars, launchVars, FileInv, Idle,
     DownInv, MapInv
<1>26. ASSUME HandOver PROVE FileInv'
  BY <1>26, <1>0, RunTypes DEF HandOver, Gone, FileInv, Idle, DownInv, MapInv
<1>27. ASSUME Killed PROVE FileInv'
  BY <1>27, <1>0, RunTypes DEF Killed, Gone, FileInv, Idle, DownInv, MapInv
<1>28. ASSUME Start PROVE FileInv'
  BY <1>28, <1>0, DaemonStarts, RunTypes, JobTypes, NumbersOfRuns, NothingIsNoRecord,
     RecordsMade DEF FileInv, DownInv, MapInv, Idle
<1>29. CASE UNCHANGED revivalVars
  BY <1>0, <1>29 DEF revivalVars, daemonVars, handleVars, launchVars, endVars, FileInv,
     Idle, DownInv, MapInv
<1>30. QED
  BY <1>1, <1>2, <1>3, <1>4, <1>5, <1>6, <1>7, <1>8, <1>9, <1>10, <1>11, <1>12, <1>13,
     <1>14, <1>15, <1>16, <1>17, <1>18, <1>19, <1>20, <1>21, <1>22, <1>23, <1>24, <1>25,
     <1>26, <1>27, <1>28, <1>29, GreetedIsThrough
     DEF RevivalNext, Launch

\* Every step leaves what a launch took where it can be put back.
LEMMA TookKept ==
    ASSUME Calm, ~late', RevivalInv, [RevivalNext]_revivalVars
    PROVE  TookInv'
<1>0. TookInv /\ FileInv /\ MapInv /\ HandleInv /\ JobInv /\ DownInv
  BY DEF RevivalInv
<1>1. ASSUME NEW c \in Clients, AskToLaunch(c) PROVE TookInv'
  BY <1>1, <1>0, RunTypes DEF AskToLaunch, daemonVars, handleVars, TookInv
<1>2. ASSUME NEW c \in Clients, LoseBridge(c) PROVE TookInv'
  BY <1>2, <1>0, RunTypes DEF LoseBridge, CutOff, daemonVars, handleVars, TookInv
<1>3. ASSUME NEW c \in Clients, Look(c) PROVE TookInv'
  BY <1>3, <1>0, RunTypes DEF Look, daemonVars, handleVars, TookInv
<1>4. ASSUME NEW c \in Clients, LookAgain(c) PROVE TookInv'
  BY <1>4, <1>0, RunTypes DEF LookAgain, daemonVars, handleVars, TookInv
<1>5. ASSUME NEW request \in queue, Refuse(request) PROVE TookInv'
  BY <1>5, <1>0, RunTypes DEF Refuse, Answered, daemonVars, handleVars, TookInv
<1>6. ASSUME NEW request \in queue, Take(request) PROVE TookInv'
  <2>1. /\ job'.at = "taken" /\ job'.took \in {copy[mapped], filed, Nothing}
        /\ mapped # NoRun => job'.took = copy[mapped] /\ Over(copy[mapped])
        /\ mapped = NoRun => job'.took = filed
        /\ UNCHANGED <<mapped, file, copy>>
    BY <1>6, RunTypes, NumbersOfRuns
       DEF Take, TakeFromMap, TakeFromArchive, TakeNothing, Begins, StillRunning,
          handleVars
  <2>2. up /\ job.at = "idle" /\ archiving = NoRun /\ deleting = NoRun
    BY <1>6, TakenWhenClear DEF Idle
  <2>3. CASE mapped # NoRun
    BY <1>0, <2>1, <2>2, <2>3 DEF TookInv, FileInv, MapInv
  <2>4. CASE mapped = NoRun
    <3>1. filed # Nothing => filed.dead /\ filed.who = file.who
      BY <1>0, JobTypes DEF FileInv, Records
    <3> QED
      BY <1>0, <2>1, <2>2, <2>4, <3>1 DEF TookInv, FileInv
  <2> QED
    BY <2>3, <2>4
<1>7. ASSUME FailEarly PROVE TookInv'
  BY <1>7, LaunchFails, NothingTaken
<1>8. ASSUME WriteRecord PROVE TookInv'
  BY <1>8, <1>0, RecordWritten, RunTypes, JobTypes, NumbersOfRuns, NothingIsNoRecord,
     RecordsMade DEF TookInv, Idle
<1>9. ASSUME FailToSpawn PROVE TookInv'
  BY <1>9, LaunchFails, NothingTaken
<1>10. ASSUME SpawnKeeper PROVE TookInv'
  BY <1>10, <1>0, RunTypes DEF SpawnKeeper, launching, daemonVars, handleVars, TookInv
<1>11. ASSUME ConnectToKeeper PROVE TookInv'
  BY <1>11, <1>0, RunTypes DEF ConnectToKeeper, launching, daemonVars, TookInv
<1>12. ASSUME GivesUp PROVE TookInv'
  BY <1>12, LaunchFails, NothingTaken
<1>13. ASSUME Insert PROVE TookInv'
  BY <1>13, SessionInserted, NothingTaken
<1>14. ASSUME NEW r \in Runs, KeeperBinds(r) PROVE TookInv'
  BY <1>14, <1>0, RunTypes DEF KeeperBinds, daemonVars, handleVars, launchVars,
     TookInv
<1>15. ASSUME NEW r \in Runs, KeeperFails(r) PROVE TookInv'
  BY <1>15, <1>0, RunTypes DEF KeeperFails, daemonVars, handleVars, launchVars,
     TookInv
<1>16. ASSUME NEW r \in Runs, ChildEnds(r) PROVE TookInv'
  BY <1>16, <1>0, RunTypes DEF ChildEnds, daemonVars, handleVars, launchVars, TookInv
<1>17. ASSUME NEW r \in Runs, KeeperLeaves(r) PROVE TookInv'
  BY <1>17, <1>0, RunTypes DEF KeeperLeaves, Dismissed, daemonVars, handleVars,
     launchVars, TookInv
<1>18. ASSUME NEW r \in Runs, ReaderHears(r) PROVE TookInv'
  BY <1>18, <1>0, RunTypes DEF ReaderHears, daemonVars, launchVars, TookInv
<1>19. ASSUME NEW r \in Runs, MarkDead(r) PROVE TookInv'
  BY <1>19, ReaderRecords, NothingTaken
<1>20. ASSUME Archive PROVE TookInv'
  BY <1>20, ArchivalMarks, NothingTaken
<1>21. ASSUME ArchiveWritten PROVE TookInv'
  BY <1>21, ArchivalRecords, NothingTaken
<1>22. ASSUME ArchiveFiled PROVE TookInv'
  <2>1. job.at = "idle" /\ UNCHANGED job
    BY <1>22, <1>0, ArchivedOnFile DEF JobInv
  <2> QED
    BY <1>0, <2>1, NothingTaken DEF JobInv
<1>23. ASSUME Delete PROVE TookInv'
  BY <1>23, PutDownAlone, NothingTaken DEF Delete, launchVars
<1>24. ASSUME Discard PROVE TookInv'
  <2>1. job.at = "idle" /\ UNCHANGED job
    BY <1>24, <1>0 DEF Discard, DownInv, launchVars
  <2> QED
    BY <1>0, <2>1, NothingTaken DEF JobInv
<1>25. ASSUME DeleteFiled PROVE TookInv'
  <2>1. job.at = "idle" /\ UNCHANGED job
    BY <1>25, <1>0 DEF DeleteFiled, JobInv, launchVars
  <2> QED
    BY <1>0, <2>1, NothingTaken DEF JobInv
<1>26. ASSUME HandOver PROVE TookInv'
  BY <1>26, NothingTaken DEF HandOver, Gone
<1>27. ASSUME Killed PROVE TookInv'
  BY <1>27, NothingTaken DEF Killed, Gone
<1>28. ASSUME Start PROVE TookInv'
  BY <1>28, DaemonStarts, NothingTaken
<1>29. CASE UNCHANGED revivalVars
  BY <1>0, <1>29 DEF revivalVars, daemonVars, handleVars, launchVars, TookInv
<1>30. QED
  BY <1>1, <1>2, <1>3, <1>4, <1>5, <1>6, <1>7, <1>8, <1>9, <1>10, <1>11, <1>12, <1>13,
     <1>14, <1>15, <1>16, <1>17, <1>18, <1>19, <1>20, <1>21, <1>22, <1>23, <1>24, <1>25,
     <1>26, <1>27, <1>28, <1>29, GreetedIsThrough
     DEF RevivalNext, Launch

\* No step writes a record over another conversation's.
LEMMA SameConversation ==
    ASSUME Calm, ~late', RevivalInv, [RevivalNext]_revivalVars
    PROVE  file # Nothing /\ file' # Nothing => file'.who = file.who
<1>0. FileInv /\ MapInv
  BY DEF RevivalInv
<1>1. ASSUME NEW c \in Clients, AskToLaunch(c)
      PROVE  file # Nothing /\ file' # Nothing => file'.who = file.who
  BY <1>1, <1>0 DEF AskToLaunch
<1>2. ASSUME NEW c \in Clients, LoseBridge(c)
      PROVE  file # Nothing /\ file' # Nothing => file'.who = file.who
  BY <1>2, <1>0 DEF LoseBridge, CutOff
<1>3. ASSUME NEW c \in Clients, Look(c)
      PROVE  file # Nothing /\ file' # Nothing => file'.who = file.who
  BY <1>3, <1>0 DEF Look
<1>4. ASSUME NEW c \in Clients, LookAgain(c)
      PROVE  file # Nothing /\ file' # Nothing => file'.who = file.who
  BY <1>4, <1>0 DEF LookAgain
<1>5. ASSUME NEW request \in queue, Refuse(request)
      PROVE  file # Nothing /\ file' # Nothing => file'.who = file.who
  BY <1>5, <1>0 DEF Refuse, Answered
<1>6. ASSUME NEW request \in queue, Take(request)
      PROVE  file # Nothing /\ file' # Nothing => file'.who = file.who
  BY <1>6, <1>0 DEF Take, TakeFromMap, TakeFromArchive, TakeNothing, Begins
<1>7. ASSUME FailEarly PROVE file # Nothing /\ file' # Nothing => file'.who = file.who
  BY <1>7, LaunchFails
<1>8. ASSUME WriteRecord PROVE file # Nothing /\ file' # Nothing => file'.who = file.who
  BY <1>8, RecordWritten, RecordsMade
<1>9. ASSUME FailToSpawn PROVE file # Nothing /\ file' # Nothing => file'.who = file.who
  BY <1>9, LaunchFails
<1>10. ASSUME SpawnKeeper
      PROVE  file # Nothing /\ file' # Nothing => file'.who = file.who
  BY <1>10, <1>0 DEF SpawnKeeper, launching
<1>11. ASSUME ConnectToKeeper
      PROVE  file # Nothing /\ file' # Nothing => file'.who = file.who
  BY <1>11, <1>0 DEF ConnectToKeeper, launching
<1>12. ASSUME GivesUp PROVE file # Nothing /\ file' # Nothing => file'.who = file.who
  BY <1>12, LaunchFails
<1>13. ASSUME Insert PROVE file # Nothing /\ file' # Nothing => file'.who = file.who
  BY <1>13, SessionInserted, RecordsMade
<1>14. ASSUME NEW r \in Runs, KeeperBinds(r)
      PROVE  file # Nothing /\ file' # Nothing => file'.who = file.who
  BY <1>14, <1>0 DEF KeeperBinds
<1>15. ASSUME NEW r \in Runs, KeeperFails(r)
      PROVE  file # Nothing /\ file' # Nothing => file'.who = file.who
  BY <1>15, <1>0 DEF KeeperFails
<1>16. ASSUME NEW r \in Runs, ChildEnds(r)
      PROVE  file # Nothing /\ file' # Nothing => file'.who = file.who
  BY <1>16, <1>0 DEF ChildEnds
<1>17. ASSUME NEW r \in Runs, KeeperLeaves(r)
      PROVE  file # Nothing /\ file' # Nothing => file'.who = file.who
  BY <1>17, <1>0 DEF KeeperLeaves, Dismissed
<1>18. ASSUME NEW r \in Runs, ReaderHears(r)
      PROVE  file # Nothing /\ file' # Nothing => file'.who = file.who
  BY <1>18, <1>0 DEF ReaderHears
<1>19. ASSUME NEW r \in Runs, MarkDead(r)
      PROVE  file # Nothing /\ file' # Nothing => file'.who = file.who
  BY <1>19, <1>0, ReaderRecords, NumbersOfRuns DEF FileInv, MapInv, Idle
<1>20. ASSUME Archive PROVE file # Nothing /\ file' # Nothing => file'.who = file.who
  BY <1>20, ArchivalMarks
<1>21. ASSUME ArchiveWritten
      PROVE  file # Nothing /\ file' # Nothing => file'.who = file.who
  BY <1>21, <1>0, ArchivalRecords, NumbersOfRuns DEF FileInv, MapInv, Idle
<1>22. ASSUME ArchiveFiled
      PROVE  file # Nothing /\ file' # Nothing => file'.who = file.who
  BY <1>22, ArchivedOnFile
<1>23. ASSUME Delete PROVE file # Nothing /\ file' # Nothing => file'.who = file.who
  BY <1>23, <1>0 DEF Delete
<1>24. ASSUME Discard PROVE file # Nothing /\ file' # Nothing => file'.who = file.who
  BY <1>24, <1>0 DEF Discard
<1>25. ASSUME DeleteFiled
      PROVE  file # Nothing /\ file' # Nothing => file'.who = file.who
  BY <1>25, <1>0 DEF DeleteFiled
<1>26. ASSUME HandOver PROVE file # Nothing /\ file' # Nothing => file'.who = file.who
  BY <1>26, <1>0 DEF HandOver, Gone
<1>27. ASSUME Killed PROVE file # Nothing /\ file' # Nothing => file'.who = file.who
  BY <1>27, <1>0 DEF Killed, Gone
<1>28. ASSUME Start PROVE file # Nothing /\ file' # Nothing => file'.who = file.who
  BY <1>28, DaemonStarts
<1>29. CASE UNCHANGED revivalVars
  BY <1>0, <1>29 DEF revivalVars
<1>30. QED
  BY <1>1, <1>2, <1>3, <1>4, <1>5, <1>6, <1>7, <1>8, <1>9, <1>10, <1>11, <1>12, <1>13,
     <1>14, <1>15, <1>16, <1>17, <1>18, <1>19, <1>20, <1>21, <1>22, <1>23, <1>24, <1>25,
     <1>26, <1>27, <1>28, <1>29, GreetedIsThrough
     DEF RevivalNext, Launch

\* The invariant holds at the start.
LEMMA RevivalInitially == RevivalInit => RevivalInv
<1> SUFFICES ASSUME RevivalInit PROVE RevivalInv
  OBVIOUS
<1>1. KeeperInv /\ JobInv /\ HandleInv /\ MapInv /\ DownInv
  BY MaxRunsAssumption DEF RevivalInit, KeeperInv, Kept, JobInv, HandleInv, Handled,
     MapInv, DownInv, Idle, NoRun, Runs, Live, Reads
<1>2. FileInv /\ TookInv
  BY DEF RevivalInit, FileInv, TookInv, Idle
<1> QED
  BY SoundInitially, <1>1, <1>2 DEF RevivalInv

\* Every step keeps the invariant, until a launch fails late.
LEMMA RevivalSteps ==
    Calm => ((~late => RevivalInv) /\ [RevivalNext]_revivalVars => (~late' => RevivalInv'))
<1> SUFFICES ASSUME Calm, ~late => RevivalInv, [RevivalNext]_revivalVars, ~late'
             PROVE  RevivalInv'
  OBVIOUS
<1>0. RevivalInv
  BY LateStays
<1>1. SoundInv'
  BY <1>0, SoundSteps DEF RevivalInv
<1>2. KeeperInv' /\ JobInv' /\ HandleInv' /\ MapInv' /\ DownInv'
  BY <1>0, KeepersKept, JobKept, HandlesKept, MapKept, DownKept
<1>3. FileInv' /\ TookInv'
  BY <1>0, FileKept, TookKept
<1> QED
  BY <1>1, <1>2, <1>3 DEF RevivalInv

\* The invariant holds in every state until a launch fails late.
THEOREM RevivalInvariance == Calm => (RevivalSpec => [](~late => RevivalInv))
<1> SUFFICES ASSUME Calm PROVE RevivalSpec => [](~late => RevivalInv)
  OBVIOUS
<1> QED BY RevivalInitially, RevivalSteps, PTL DEF RevivalSpec

\* OneChild: until a launch fails that had been greeted, at most one child runs
\* under a number, and a session that is listed as running holds the slot of its
\* own keeper (daemon.rs:4916-4967, keeper.rs:436-533).
THEOREM OneChildAtMost == Calm => (RevivalSpec => []OneChild)
<1> SUFFICES ASSUME Calm PROVE RevivalSpec => []OneChild
  OBVIOUS
<1>1. (~late => RevivalInv) => OneChild
  <2> SUFFICES ASSUME RevivalInv PROVE OneChild
    BY DEF OneChild
  <2>1. \A r, s \in Runs : child[r] = "running" /\ child[s] = "running" => r = s
    BY DEF RevivalInv, KeeperInv, Kept
  <2>2. mapped # NoRun => to[mapped] = mapped /\ client[mapped] = mapped
    BY RunTypes DEF RevivalInv, MapInv, HandleInv, Handled
  <2> QED BY <2>1, <2>2 DEF OneChild
<1> QED BY RevivalInvariance, <1>1, PTL

\* NothingForgotten: until a launch fails that had been greeted, the daemon's
\* memory and the file agree about the record between changes, whatever a launch
\* had taken and could not use (RevivalRollback).
THEOREM NoneForgotten == Calm => (RevivalSpec => []NothingForgotten)
<1> SUFFICES ASSUME Calm PROVE RevivalSpec => []NothingForgotten
  OBVIOUS
<1>1. (~late => RevivalInv) => NothingForgotten
  <2> SUFFICES ASSUME RevivalInv, up, job = Idle, archiving = NoRun, deleting = NoRun
               PROVE  /\ file # Nothing <=> Listed
                      /\ mapped = NoRun \/ filed = Nothing
                      /\ mapped # NoRun => file = copy[mapped]
                      /\ filed # Nothing => Over(file)
                                            /\ filed = [file EXCEPT !.dead = TRUE]
    BY DEF NothingForgotten, InHand
  <2>1. FileInv /\ job.at = "idle"
    BY DEF RevivalInv, Idle
  <2> QED BY <2>1 DEF FileInv, Listed
<1> QED BY RevivalInvariance, <1>1, PTL

\* DeletedStaysDeleted: after a delete there is no record until a launch writes one,
\* where no launch fails once it has been greeted.
THEOREM NothingComesBack ==
    Calm /\ "fails once connected" \notin Mishaps => (RevivalSpec => []DeletedStaysDeleted)
<1> SUFFICES ASSUME Calm, "fails once connected" \notin Mishaps
             PROVE  RevivalSpec => []DeletedStaysDeleted
  OBVIOUS
<1>1. RevivalInit => ~late
  BY DEF RevivalInit
<1>2. ~late /\ [RevivalNext]_revivalVars => ~late'
  BY LateStays DEF FailOnceConnected
<1>3. ~late /\ (~late => RevivalInv) => DeletedStaysDeleted
  BY DEF RevivalInv, FileInv, DeletedStaysDeleted
<1> QED BY RevivalInvariance, <1>1, <1>2, <1>3, PTL DEF RevivalSpec

\* SameIdentity: until a launch fails that had been greeted, a record is not
\* written over by another conversation's.
THEOREM IdentityKept == Calm => (RevivalSpec => SameIdentity)
<1> SUFFICES ASSUME Calm PROVE RevivalSpec => SameIdentity
  OBVIOUS
<1>1. (~late => RevivalInv) /\ [RevivalNext]_revivalVars
        => [~late' /\ file # Nothing /\ file' # Nothing
            => file'.who = file.who]_revivalVars
  <2> SUFFICES ASSUME ~late => RevivalInv, [RevivalNext]_revivalVars, ~late'
               PROVE  file # Nothing /\ file' # Nothing => file'.who = file.who
    OBVIOUS
  <2>1. RevivalInv
    BY LateStays
  <2> QED BY <2>1, SameConversation
<1> QED BY RevivalInvariance, <1>1, PTL DEF RevivalSpec, SameIdentity

=============================================================================
