------------------------------ MODULE Adoption ------------------------------
(***************************************************************************)
(* One session and the daemon generations that serve it in turn.           *)
(*                                                                         *)
(* The session's child belongs to a keeper process, so it outlives the     *)
(* daemon.  A daemon that stands down - asked to, signalled, or killed -   *)
(* leaves the record of the session on disk, and the next daemon connects  *)
(* to the keeper, which evicts the one before, and serves the session      *)
(* again.  Each daemon has a reader thread on its keeper connection that   *)
(* decides what the end of that connection meant; the reader of an old     *)
(* daemon is still running after the lock on the state directory has gone  *)
(* to the next one.                                                        *)
(*                                                                         *)
(* Abstracted: the keeper is its slot, its child and whether it is up      *)
(* (module Keeper has its threads); the record is the two flags adoption   *)
(* and retirement read; the transcript is left out.                        *)
(***************************************************************************)
EXTENDS Integers, FiniteSets

CONSTANTS
    MaxGen,         \* BOUND: generations of the daemon
    AcceptFails,    \* the ways accept() may end the loop: {FALSE} or BOOLEAN
    SlowKeeper,     \* may a keeper come up after its launch stopped waiting
    NoRecord        \* there is no metadata file

ASSUME MaxGenAssumption == MaxGen \in Nat \ {0}
ASSUME AcceptAssumption == AcceptFails \in {{FALSE}, BOOLEAN}
ASSUME SlowKeeperAssumption == SlowKeeper \in BOOLEAN
ASSUME NoRecordAssumption == NoRecord \notin [dead : BOOLEAN, archived : BOOLEAN]

Gen == 1..MaxGen

VARIABLES
    pc,         \* where each daemon is between its start and its process's end
    draining,   \* DaemonState::draining
    signalled,  \* a signal has been caught
    shutdown,   \* DaemonState::shutdown
    holds,      \* which of the daemon's maps the session is in
    copy,       \* the daemon's own metadata of the session
    discarded,  \* the gate on the daemon's handle to the record
    stream,     \* what the daemon's keeper connection brings next
    reader,     \* the session reader thread
    heard,      \* how the connection ended, and whether the map still had it
    work,       \* the requests being answered, by the step they have reached
    keeper, claimed, client, child,
    kind,       \* what session was launched, if one was: an id is used once
    condemned,  \* a request has asked for the child to be killed
    record      \* the metadata file

flagVars   == <<draining, signalled, shutdown>>
handleVars == <<holds, copy, discarded>>
readerVars == <<reader, heard>>
keeperVars == <<keeper, claimed, client, child>>
vars == <<pc, flagVars, handleVars, stream, readerVars, work, keeperVars,
          kind, condemned, record>>

Records  == [dead : BOOLEAN, archived : BOOLEAN]
Live     == [dead |-> FALSE, archived |-> FALSE]
Nobody   == 0
Unheard  == [exited |-> FALSE, tracked |-> FALSE]

temporary == kind = "temporary"

Holding   == {"scanning", "greeted", "burying", "serving"}
Launching == {"recorded", "spawned"}

(***************************************************************************)
(* The daemon's end of a keeper connection.  A connection closed at the    *)
(* other end still delivers what was sent before, so an exit already on    *)
(* its way is heard first.                                                 *)
(***************************************************************************)
Cut(g) == IF g # Nobody /\ stream[g] = "open"
          THEN [stream EXCEPT ![g] = "cut"] ELSE stream

\* A new client takes the slot and the one before it is shut out.
TakeSlot(g, brings) ==
    /\ client' = g
    /\ claimed' = TRUE
    /\ stream' = [Cut(client) EXCEPT ![g] = brings]

\* A thread clears the slot only while it is still its own connection's.
AnyonesSlot(g) == client # Nobody
OwnsSlot(g) == client = g

\* The daemon's connection closes.  With the exit known there is nothing left
\* to wait for and the keeper goes too.
DropConnection(g) ==
    IF OwnsSlot(g)
    THEN /\ client' = Nobody
         /\ keeper' = IF child = "dead" THEN "gone" ELSE keeper
    ELSE UNCHANGED <<client, keeper>>

\* QUIT is heard only from the client in the slot, and only once the child is
\* gone; the keeper leaves and takes its socket with it.
SendQuit(g) ==
    IF OwnsSlot(g) /\ child = "dead"
    THEN /\ client' = Nobody
         /\ keeper' = "gone"
    ELSE UNCHANGED <<client, keeper>>

(***************************************************************************)
(* Writing the record through a session handle.                            *)
(***************************************************************************)
GateIgnored(g) == TRUE
GateOpen(g) == ~discarded[g]

Persist(g, metadata) ==
    /\ copy' = [copy EXCEPT ![g] = metadata]
    /\ record' = IF GateOpen(g) THEN metadata ELSE record

MarkDead(g) == Persist(g, [copy[g] EXCEPT !.dead = TRUE])

Discard(g) ==
    /\ discarded' = [discarded EXCEPT ![g] = TRUE]
    /\ record' = NoRecord

(***************************************************************************)
(* A daemon starts: it has the lock, and looks at what was left behind.    *)
(***************************************************************************)
Start(g) ==
    /\ pc[g] = "unborn"
    /\ g > 1 => pc[g - 1] # "unborn"
    /\ \A h \in Gen : pc[h] \notin Holding
    /\ SlowKeeper \/ keeper # "spawned"
    /\ pc' = [pc EXCEPT ![g] = "scanning"]
    /\ UNCHANGED <<flagVars, handleVars, stream, readerVars, work, keeperVars,
                   kind, condemned, record>>

\* No record and no keeper.
NothingToAdopt(g) ==
    /\ pc[g] = "scanning" /\ record = NoRecord /\ keeper # "up"
    /\ pc' = [pc EXCEPT ![g] = "serving"]
    /\ UNCHANGED <<flagVars, handleVars, stream, readerVars, work, keeperVars,
                   kind, condemned, record>>

\* What a daemon makes of a record nobody is behind: an interrupted session
\* is retired into the archive, a temporary one is removed.
Retired(metadata) ==
    IF metadata.dead \/ metadata.archived THEN metadata
    ELSE [dead |-> TRUE, archived |-> TRUE]

Shelve(g, metadata) ==
    IF temporary
    THEN /\ record' = NoRecord
         /\ UNCHANGED handleVars
    ELSE /\ record' = Retired(metadata)
         /\ copy' = [copy EXCEPT ![g] = [Retired(metadata) EXCEPT !.dead = TRUE]]
         /\ holds' = [holds EXCEPT ![g] = "shelved"]
         /\ UNCHANGED discarded

\* A record whose keeper does not answer.
LoadInterrupted(g) ==
    /\ pc[g] = "scanning" /\ record # NoRecord /\ keeper # "up"
    /\ Shelve(g, record)
    /\ pc' = [pc EXCEPT ![g] = "serving"]
    /\ UNCHANGED <<flagVars, stream, readerVars, work, keeperVars, kind,
                   condemned>>

\* A record whose keeper answers: the greeting says if the child is alive.
ConnectKeeper(g) ==
    /\ pc[g] = "scanning" /\ record # NoRecord /\ keeper = "up"
    /\ TakeSlot(g, IF child = "alive" THEN "open" ELSE "exited")
    /\ pc' = [pc EXCEPT ![g] = IF child = "alive" THEN "greeted" ELSE "burying"]
    /\ UNCHANGED <<flagVars, handleVars, readerVars, work, keeper, child,
                   kind, condemned, record>>

\* The child died while no daemon was listening: the death is recorded, the
\* keeper dismissed, and the session shelved.
BuryFinished(g) ==
    /\ pc[g] = "burying" /\ record # NoRecord
    /\ Shelve(g, [record EXCEPT !.dead = TRUE])
    /\ SendQuit(g)
    /\ pc' = [pc EXCEPT ![g] = "serving"]
    /\ UNCHANGED <<flagVars, stream, readerVars, work, claimed, child,
                   kind, condemned>>

\* The session is live again under this daemon.
AdoptLive(g) ==
    /\ pc[g] = "greeted" /\ record # NoRecord
    /\ Persist(g, [record EXCEPT !.dead = FALSE])
    /\ holds' = [holds EXCEPT ![g] = "live"]
    /\ reader' = [reader EXCEPT ![g] = "reading"]
    /\ pc' = [pc EXCEPT ![g] = "serving"]
    /\ UNCHANGED <<flagVars, discarded, stream, heard, work, keeperVars,
                   kind, condemned>>

\* The record went between the scan and the read: the connection is dropped
\* and the session is left to its keeper.
AdoptFails(g) ==
    /\ pc[g] \in {"greeted", "burying"} /\ record = NoRecord
    /\ DropConnection(g)
    /\ pc' = [pc EXCEPT ![g] = "serving"]
    /\ UNCHANGED <<flagVars, handleVars, stream, readerVars, work, claimed,
                   child, kind, condemned, record>>

\* A keeper no record accounts for: its child is killed and it is dismissed.
DismissOrphan(g) ==
    /\ pc[g] = "scanning" /\ record = NoRecord /\ keeper = "up"
    /\ keeper' = "gone" /\ client' = Nobody /\ claimed' = TRUE
    /\ child' = "dead"
    /\ stream' = Cut(client)
    /\ pc' = [pc EXCEPT ![g] = "serving"]
    /\ UNCHANGED <<flagVars, handleVars, readerVars, work, kind, condemned,
                   record>>

(***************************************************************************)
(* Standing down.                                                          *)
(***************************************************************************)
HasSuccessor(g) == g < MaxGen

\* PrepareHandover, or the retirement watcher: the write half of the client
\* gate waits for a launch, which holds the read half until it is over.
PrepareHandover(g) ==
    /\ pc[g] = "serving" /\ HasSuccessor(g)
    /\ ~draining[g]
    /\ work[g] \cap Launching = {}
    /\ draining' = [draining EXCEPT ![g] = TRUE]
    /\ UNCHANGED <<pc, signalled, shutdown, handleVars, stream, readerVars,
                   work, keeperVars, kind, condemned, record>>

\* The answer is written; whether or not it arrived, the promise is kept.
AnswerHandover(g) ==
    /\ pc[g] = "serving" /\ draining[g] /\ ~shutdown[g]
    /\ shutdown' = [shutdown EXCEPT ![g] = TRUE]
    /\ UNCHANGED <<pc, draining, signalled, handleVars, stream, readerVars,
                   work, keeperVars, kind, condemned, record>>

CatchSignal(g) ==
    /\ pc[g] = "serving" /\ HasSuccessor(g) /\ ~signalled[g]
    /\ signalled' = [signalled EXCEPT ![g] = TRUE]
    /\ UNCHANGED <<pc, draining, shutdown, handleVars, stream, readerVars,
                   work, keeperVars, kind, condemned, record>>

\* A signal is latched into the shutdown flag.
SignalOnly(g) == shutdown[g]
Latched(g) == shutdown[g] \/ signalled[g]

\* The accept loop ends: nobody is served any more, or accept failed for good
\* and the loop returned the error.  serve returns and the lock goes with its
\* last local, while the threads are still running.
LeaveAcceptLoop(g) ==
    /\ pc[g] = "serving"
    /\ \E failed \in AcceptFails :
          /\ IF failed THEN HasSuccessor(g) ELSE shutdown[g] \/ signalled[g]
          /\ shutdown' = [shutdown EXCEPT ![g] =
                             IF failed THEN @ ELSE Latched(g)]
    /\ pc' = [pc EXCEPT ![g] = "ending"]
    /\ UNCHANGED <<draining, signalled, handleVars, stream, readerVars, work,
                   keeperVars, kind, condemned, record>>

\* A process ends and its memory, threads and connections with it.
Vanish(g) ==
    /\ pc' = [pc EXCEPT ![g] = "gone"]
    /\ draining' = [draining EXCEPT ![g] = FALSE]
    /\ signalled' = [signalled EXCEPT ![g] = FALSE]
    /\ shutdown' = [shutdown EXCEPT ![g] = FALSE]
    /\ holds' = [holds EXCEPT ![g] = "nothing"]
    /\ copy' = [copy EXCEPT ![g] = Live]
    /\ stream' = [stream EXCEPT ![g] = "none"]
    /\ reader' = [reader EXCEPT ![g] = "none"]
    /\ heard' = [heard EXCEPT ![g] = Unheard]
    /\ work' = [work EXCEPT ![g] = {}]
    /\ DropConnection(g)
    /\ UNCHANGED <<discarded, claimed, child, kind, condemned, record>>

ProcessEnds(g) == pc[g] = "ending" /\ Vanish(g)

\* SIGKILL, or a signal before the handlers are in place.
Crash(g) == pc[g] \in Holding /\ HasSuccessor(g) /\ Vanish(g)

(***************************************************************************)
(* Requests.                                                               *)
(***************************************************************************)

\* Launch: the record goes down before the keeper comes up.
LaunchRecords(g) ==
    /\ pc[g] = "serving" /\ ~draining[g]
    /\ kind = "unlaunched" /\ work[g] = {}
    /\ work' = [work EXCEPT ![g] = {"recorded"}]
    /\ record' = Live
    /\ kind' \in {"lasting", "temporary"}
    /\ UNCHANGED <<pc, flagVars, handleVars, stream, readerVars, keeperVars,
                   condemned>>

LaunchSpawns(g) ==
    /\ pc[g] = "serving" /\ work[g] = {"recorded"}
    /\ work' = [work EXCEPT ![g] = {"spawned"}]
    /\ keeper' = "spawned"
    /\ UNCHANGED <<pc, flagVars, handleVars, stream, readerVars, claimed,
                   client, child, kind, condemned, record>>

LaunchFinishes(g) ==
    /\ pc[g] = "serving" /\ work[g] = {"spawned"} /\ keeper = "up"
    /\ TakeSlot(g, IF child = "alive" THEN "open" ELSE "exited")
    /\ Persist(g, Live)
    /\ holds' = [holds EXCEPT ![g] = "live"]
    /\ reader' = [reader EXCEPT ![g] = "reading"]
    /\ work' = [work EXCEPT ![g] = {}]
    /\ UNCHANGED <<pc, flagVars, discarded, heard, keeper, child, kind,
                   condemned>>

\* The keeper could not be started, or never answered: the record is removed.
LaunchFails(g) ==
    /\ pc[g] = "serving"
    /\ \/ work[g] = {"recorded"}
       \/ /\ work[g] = {"spawned"}
          /\ keeper = "gone" \/ (SlowKeeper /\ keeper = "spawned")
    /\ record' = NoRecord
    /\ work' = [work EXCEPT ![g] = {}]
    /\ keeper' = IF keeper = "none" THEN "gone" ELSE keeper
    /\ UNCHANGED <<pc, flagVars, handleVars, stream, readerVars, claimed,
                   client, child, kind, condemned>>

\* DeleteSession on a live session: out of the map and its child stopped ...
DeleteStops(g) ==
    /\ pc[g] = "serving" /\ holds[g] = "live"
    /\ holds' = [holds EXCEPT ![g] = "nothing"]
    /\ condemned' = TRUE
    /\ work' = [work EXCEPT ![g] = @ \cup {"deleting"}]
    /\ UNCHANGED <<pc, flagVars, copy, discarded, stream, readerVars,
                   keeperVars, kind, record>>

\* ... and then its record discarded.
DeleteDiscards(g) ==
    /\ pc[g] = "serving" /\ "deleting" \in work[g]
    /\ Discard(g)
    /\ work' = [work EXCEPT ![g] = @ \ {"deleting"}]
    /\ UNCHANGED <<pc, flagVars, holds, copy, stream, readerVars, keeperVars,
                   kind, condemned>>

\* ArchiveSession on a live session: flagged and its child stopped ...
ArchiveStops(g) ==
    /\ pc[g] = "serving" /\ holds[g] = "live" /\ ~temporary
    /\ copy' = [copy EXCEPT ![g].archived = TRUE]
    /\ condemned' = TRUE
    /\ work' = [work EXCEPT ![g] = @ \cup {"archiving"}]
    /\ UNCHANGED <<pc, flagVars, holds, discarded, stream, readerVars,
                   keeperVars, kind, record>>

\* ... and then recorded, through a handle the map may no longer have.
ArchiveRecords(g) ==
    /\ pc[g] = "serving" /\ "archiving" \in work[g]
    /\ MarkDead(g)
    /\ work' = [work EXCEPT ![g] = @ \ {"archiving"}]
    /\ UNCHANGED <<pc, flagVars, holds, discarded, stream, readerVars,
                   keeperVars, kind, condemned>>

\* Any request that rewrites the record of a live session: a rename, a notice,
\* a new parent.
Touch(g) ==
    /\ pc[g] = "serving" /\ holds[g] = "live"
    /\ Persist(g, copy[g])
    /\ UNCHANGED <<pc, flagVars, holds, discarded, stream, readerVars, work,
                   keeperVars, kind, condemned>>

DeleteShelved(g) ==
    /\ pc[g] = "serving" /\ holds[g] = "shelved"
    /\ holds' = [holds EXCEPT ![g] = "nothing"]
    /\ Discard(g)
    /\ UNCHANGED <<pc, flagVars, copy, stream, readerVars, work, keeperVars,
                   kind, condemned>>

ArchiveShelved(g) ==
    /\ pc[g] = "serving" /\ holds[g] = "shelved"
    /\ Persist(g, [dead |-> TRUE, archived |-> TRUE])
    /\ UNCHANGED <<pc, flagVars, holds, discarded, stream, readerVars, work,
                   keeperVars, kind, condemned>>

(***************************************************************************)
(* The session reader.                                                     *)
(***************************************************************************)

\* The connection has ended; the reader notes how, and looks in the map.
ReaderHears(g) ==
    /\ reader[g] = "reading" /\ stream[g] \in {"exited", "cut"}
    /\ heard' = [heard EXCEPT ![g] = [exited  |-> stream[g] = "exited",
                                      tracked |-> holds[g] = "live"]]
    /\ reader' = [reader EXCEPT ![g] = "judging"]
    /\ UNCHANGED <<pc, flagVars, handleVars, stream, work, keeperVars,
                   kind, condemned, record>>

\* A connection that ended without an exit is a death only while this daemon
\* is the one serving.
KeeperCrashed(g) == ~draining[g] /\ ~shutdown[g]

OnlyExits(g) == heard[g].tracked /\ heard[g].exited
RecordsADeath(g) ==
    heard[g].tracked /\ (heard[g].exited \/ KeeperCrashed(g))

\* Only an exit is answered with QUIT.
NeverDismisses(g) == FALSE
Dismisses(g) == heard[g].exited

ReaderJudges(g) ==
    /\ reader[g] = "judging" /\ ~temporary
    /\ IF RecordsADeath(g) THEN MarkDead(g) ELSE UNCHANGED <<copy, record>>
    /\ IF Dismisses(g) THEN SendQuit(g) ELSE UNCHANGED <<client, keeper>>
    /\ reader' = [reader EXCEPT ![g] = "done"]
    /\ UNCHANGED <<pc, flagVars, holds, discarded, stream, heard, work,
                   claimed, child, kind, condemned>>

\* A temporary session leaves nothing, however its connection ended.
ReaderRemoves(g) ==
    /\ reader[g] = "judging" /\ temporary
    /\ Discard(g)
    /\ holds' = [holds EXCEPT ![g] = IF heard[g].tracked THEN "nothing" ELSE @]
    /\ SendQuit(g)
    /\ reader' = [reader EXCEPT ![g] = "done"]
    /\ UNCHANGED <<pc, flagVars, copy, stream, heard, work, claimed, child,
                   kind, condemned>>

(***************************************************************************)
(* The keeper.                                                             *)
(***************************************************************************)
KeeperComesUp ==
    /\ keeper = "spawned"
    /\ keeper' = "up" /\ child' = "alive"
    /\ UNCHANGED <<pc, flagVars, handleVars, stream, readerVars, work, claimed,
                   client, kind, condemned, record>>

KeeperFails ==
    /\ keeper = "spawned"
    /\ keeper' = "gone"
    /\ UNCHANGED <<pc, flagVars, handleVars, stream, readerVars, work, claimed,
                   client, child, kind, condemned, record>>

\* A keeper with an exit to tell: to its client, or to one that may yet come;
\* one that has had its client and lost it has nothing left to wait for.
NobodyLeftToTell == client = Nobody /\ claimed

ChildDies ==
    /\ keeper = "up" /\ child = "alive"
    /\ child' = "dead"
    /\ stream' = IF client = Nobody THEN stream
                 ELSE [stream EXCEPT ![client] = "exited"]
    /\ keeper' = IF NobodyLeftToTell THEN "gone" ELSE keeper
    /\ UNCHANGED <<pc, flagVars, handleVars, readerVars, work, claimed, client,
                   kind, condemned, record>>

\* The wait for a first client has gone on long enough.
KeeperGivesUp ==
    /\ keeper = "up" /\ child = "dead" /\ ~claimed
    /\ keeper' = "gone"
    /\ UNCHANGED <<pc, flagVars, handleVars, stream, readerVars, work, claimed,
                   client, child, kind, condemned, record>>

\* The keeper is killed; its terminal goes with it, and its child is hung up.
KeeperCrash ==
    /\ keeper = "up"
    /\ keeper' = "gone" /\ client' = Nobody /\ child' = "dead"
    /\ stream' = Cut(client)
    /\ UNCHANGED <<pc, flagVars, handleVars, readerVars, work, claimed,
                   kind, condemned, record>>

(***************************************************************************)
(* The specification.                                                      *)
(***************************************************************************)
Init ==
    /\ pc = [g \in Gen |-> "unborn"]
    /\ draining = [g \in Gen |-> FALSE]
    /\ signalled = [g \in Gen |-> FALSE]
    /\ shutdown = [g \in Gen |-> FALSE]
    /\ holds = [g \in Gen |-> "nothing"]
    /\ copy = [g \in Gen |-> Live]
    /\ discarded = [g \in Gen |-> FALSE]
    /\ stream = [g \in Gen |-> "none"]
    /\ reader = [g \in Gen |-> "none"]
    /\ heard = [g \in Gen |-> Unheard]
    /\ work = [g \in Gen |-> {}]
    /\ keeper = "none" /\ claimed = FALSE /\ client = Nobody /\ child = "none"
    /\ kind = "unlaunched" /\ condemned = FALSE
    /\ record = NoRecord

Adopting(g) ==
    \/ NothingToAdopt(g) \/ LoadInterrupted(g) \/ ConnectKeeper(g)
    \/ BuryFinished(g) \/ AdoptLive(g) \/ AdoptFails(g) \/ DismissOrphan(g)

StandingDown(g) ==
    AnswerHandover(g) \/ LeaveAcceptLoop(g) \/ ProcessEnds(g)

Finishing(g) ==
    \/ LaunchSpawns(g) \/ LaunchFinishes(g) \/ LaunchFails(g)
    \/ DeleteDiscards(g) \/ ArchiveRecords(g)

Reading(g) == ReaderHears(g) \/ ReaderJudges(g) \/ ReaderRemoves(g)

Asking(g) ==
    \/ LaunchRecords(g) \/ DeleteStops(g) \/ ArchiveStops(g) \/ Touch(g)
    \/ DeleteShelved(g) \/ ArchiveShelved(g)

Generation(g) ==
    \/ Start(g) \/ Adopting(g)
    \/ PrepareHandover(g) \/ CatchSignal(g) \/ Crash(g) \/ StandingDown(g)
    \/ Asking(g) \/ Finishing(g) \/ Reading(g)

Keeping ==
    \/ KeeperComesUp \/ KeeperFails \/ ChildDies \/ KeeperGivesUp \/ KeeperCrash

Next == (\E g \in Gen : Generation(g)) \/ Keeping

Spec == Init /\ [][Next]_vars

\* Threads are scheduled; a daemon is started by the next client that finds
\* none; a keeper that was spawned comes up or fails; one nobody claims gives
\* up; and a child that was asked to die does.
Fairness ==
    /\ \A g \in Gen :
          /\ WF_vars(Start(g)) /\ WF_vars(Adopting(g))
          /\ WF_vars(StandingDown(g)) /\ WF_vars(Finishing(g))
          /\ WF_vars(Reading(g))
    /\ WF_vars(KeeperComesUp \/ KeeperFails)
    /\ WF_vars(KeeperGivesUp)
    /\ WF_vars(condemned /\ ChildDies)

FairSpec == Spec /\ Fairness

(***************************************************************************)
(* Properties.                                                             *)
(***************************************************************************)

\* Every variable has its type, and the keeper's slot a daemon that lives.
Living == {g \in Gen : pc[g] \notin {"unborn", "gone"}}

TypeOK ==
    /\ pc \in [Gen -> Holding \cup {"unborn", "ending", "gone"}]
    /\ draining \in [Gen -> BOOLEAN] /\ signalled \in [Gen -> BOOLEAN]
    /\ shutdown \in [Gen -> BOOLEAN] /\ discarded \in [Gen -> BOOLEAN]
    /\ holds \in [Gen -> {"nothing", "live", "shelved"}]
    /\ copy \in [Gen -> Records]
    /\ stream \in [Gen -> {"none", "open", "exited", "cut"}]
    /\ reader \in [Gen -> {"none", "reading", "judging", "done"}]
    /\ heard \in [Gen -> [exited : BOOLEAN, tracked : BOOLEAN]]
    /\ work \in [Gen -> SUBSET (Launching \cup {"deleting", "archiving"})]
    /\ keeper \in {"none", "spawned", "up", "gone"}
    /\ claimed \in BOOLEAN /\ kind \in {"unlaunched", "lasting", "temporary"}
    /\ condemned \in BOOLEAN
    /\ client \in Living \cup {Nobody}
    /\ child \in {"none", "alive", "dead"}
    /\ record \in Records \cup {NoRecord}

\* The session runs, some daemon has had it, and nobody asked it to stop.
Running == keeper = "up" /\ child = "alive" /\ claimed /\ ~condemned

\* A session that is running is on record, and not as dead: no reader of a
\* daemon that was told to stand down may write `dead` over a session the
\* next daemon has brought back.
NeverBuriedAlive ==
    Running /\ ~temporary => record # NoRecord /\ ~record.dead

\* The daemon that serves has every running session, on a connection that
\* nothing has cut, with a reader that will hear it end.
ServedByTheDaemon ==
    \A g \in Gen :
        pc[g] = "serving" /\ Running /\ ~temporary =>
            /\ holds[g] = "live" /\ reader[g] = "reading"
            /\ client = g /\ stream[g] = "open"

\* A session that was deleted stays deleted: whoever still has a handle to it
\* writes nothing.  The gate is one process's; the threads of a daemon older
\* than the one that deleted it have their own until that process ends.
DeletedStaysDeleted ==
    [][record = NoRecord /\ record' # NoRecord /\ ~temporary
       /\ (\E g \in Gen : discarded[g])
          => \E g \in Gen, h \in Gen : discarded[g] /\ h < g /\ pc[h] = "ending"]_vars

\* Once the child is dead the record says the session is over - dead, or in
\* the archive - and goes on saying so, whoever was serving when it happened.
\* (An archive cut short by a kill -9 may leave `archived` without `dead`.)
DeathIsRecorded ==
    <>[](child = "dead" /\ record # NoRecord => record.dead \/ record.archived)

\* A keeper whose child is dead, which it stays, does not stay for ever.
KeepersLeave == <>[](child = "dead" => keeper = "gone")

\* A drain leaves the record alone for the daemon that took over, also when
\* the session is a temporary one.
TakenOverOnRecord ==
    Running /\ (\E g \in Gen : pc[g] = "serving" /\ holds[g] = "live")
    => record # NoRecord

=============================================================================
