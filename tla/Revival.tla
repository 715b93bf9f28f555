------------------------------ MODULE Revival -------------------------------
(***************************************************************************)
(* Launching a session under a number that may already be taken.           *)
(*                                                                         *)
(* A launch that names a session which has ended brings it back in place:  *)
(* same number, same record.  The daemon serves one launch at a time, but  *)
(* deletes, archivals, the readers of sessions and its own end come        *)
(* between the steps of one, and a launch that fails has to leave what it  *)
(* took as it was.  The client that asked loses its bridge when daemons    *)
(* change; it looks whether its session is there and asks once more.       *)
(*                                                                         *)
(* One session number.  A run is one keeper and its child; the handle of a *)
(* run is the daemon's ManagedSession for it.  The record is its two flags *)
(* and `who`, the request that first created it, which stands for all that *)
(* a revival has to keep (label, parent, creation time, history).          *)
(***************************************************************************)
EXTENDS Integers, FiniteSets

CONSTANTS
    Clients,    \* the requests to launch this number, one to a client
    Minter,     \* the client that made the number up; the others revive it
    MaxRuns,    \* BOUND: keepers started
    MaxGen,     \* BOUND: generations of the daemon
    Nothing,    \* no record
    Mishaps     \* what else may happen, see below

(***************************************************************************)
(* "old keeper lingers": a launch begins while the keeper of the last run  *)
(* still has its socket, which resume_in_place does not look at.           *)
(* "archive overlaps": an archival and a launch that revives the session   *)
(* come between each other's steps.                                        *)
(* "deleted under a launch": the session a launch is reviving is deleted.  *)
(* "fails over a live entry": a launch fails after it wrote its record     *)
(* over that of a session still in the map of live ones.                   *)
(* "bridge lost under a revival": the connection goes before a launch of a *)
(* number that is taken has been begun.                                    *)
(* "killed as a keeper starts": the daemon is killed before a keeper it    *)
(* started has its socket.                                                 *)
(* "slow keeper": a keeper comes up after its launch stopped waiting.      *)
(* "fails once connected": the keeper has greeted the launch when the      *)
(* connection cannot be duplicated or the record not be written again; the *)
(* keeper and its child stay.                                              *)
(***************************************************************************)
MishapKinds == {"old keeper lingers", "archive overlaps", "deleted under a launch",
                "fails over a live entry", "bridge lost under a revival",
                "killed as a keeper starts", "slow keeper", "fails once connected"}

ASSUME MaxRunsAssumption == MaxRuns \in Nat \ {0}
ASSUME MaxGenAssumption == MaxGen \in Nat \ {0}
ASSUME MishapsAssumption == Mishaps \subseteq MishapKinds
ASSUME MinterAssumption == Minter \in Clients
ASSUME NothingAssumption ==
    Nothing \notin [dead : BOOLEAN, archived : BOOLEAN, who : Clients]

Runs == 1..MaxRuns
NoRun == 0

VARIABLES
    gen, up,    \* the daemon's generation, and whether it is serving
    mapped,     \* DaemonState::sessions: the run whose handle it holds
    filed,      \* DaemonState::persisted_sessions: the record it holds
    copy, shut, \* each handle's metadata, and its `discarded`
    to, reader, \* the keeper each handle is connected to, and its reader
    file,       \* the metadata file
    keeper, child, client,  \* each run: its keeper, child, and the handle in its slot
    path,       \* the keeper whose listener the socket's path leads to
    started,    \* keepers started so far
    job,        \* the launch behind the gate
    queue,      \* launches waiting for the gate, by client and attempt
    asker,      \* where each client is in BridgePool::launch
    archiving, deleting,    \* the run a request is half way through putting down
    began,      \* HISTORY: requests whose launch wrote its record
    erased,     \* HISTORY: a delete went through and nothing was launched since
    late        \* HISTORY: a launch failed once its keeper had greeted it

daemonVars == <<gen, up, mapped, filed>>
handleVars == <<copy, shut, to, reader>>
runVars    == <<keeper, child, client, path, started>>
launchVars == <<job, queue, asker, began>>
endVars    == <<archiving, deleting, erased, late>>
revivalVars == <<daemonVars, handleVars, file, runVars, launchVars, endVars>>

Records == [dead : BOOLEAN, archived : BOOLEAN, who : Clients]
Fresh(c) == [dead |-> FALSE, archived |-> FALSE, who |-> c]
Over(record) == record.dead \/ record.archived

Idle == [at |-> "idle", for |-> <<>>, took |-> Nothing, run |-> NoRun]

(***************************************************************************)
(* Reading a record back: one that claims to be running was interrupted    *)
(* and is archived, on file too; whatever is read in here is not running.  *)
(***************************************************************************)
\* Variant: what was interrupted is archived but not dead.
ReadBack(record) == [record EXCEPT !.dead = TRUE, !.archived = @ \/ ~record.dead]
Repaired(record) == IF Over(record) THEN record ELSE ReadBack(record)

(***************************************************************************)
(* The client.                                                             *)
(***************************************************************************)
Waiting(c) == asker[c] \in {"asked", "asked again"}

AskToLaunch(c) ==
    /\ asker[c] = "idle" /\ up
    /\ c = Minter \/ began # {}
    /\ asker' = [asker EXCEPT ![c] = "asked"]
    /\ queue' = queue \cup {<<c, 1>>}
    /\ UNCHANGED <<daemonVars, handleVars, file, runVars, job, began, endVars>>

\* Variant: the answer to a second attempt goes nowhere.
AnsweredOnce(request, ok) ==
    LET c == request[1] IN
    IF asker[c] = "asked" /\ request[2] = 1
    THEN [asker EXCEPT ![c] = IF ok THEN "ok" ELSE "failed"]
    ELSE asker

\* An answer to the first attempt is passed on; one that refuses the second
\* has the client look once more.
Answered(request, ok) ==
    LET c == request[1] IN
    CASE asker[c] = "asked" /\ request[2] = 1 ->
            [asker EXCEPT ![c] = IF ok THEN "ok" ELSE "failed"]
      [] asker[c] = "asked again" /\ request[2] = 2 ->
            [asker EXCEPT ![c] = IF ok THEN "ok" ELSE "refused"]
      [] OTHER -> asker

\* Waiting clients when their connection is gone.
CutOff(lost) ==
    [c \in Clients |->
        IF c \notin lost THEN asker[c]
        ELSE CASE asker[c] = "asked" -> "lost"
               [] asker[c] \in {"asked again", "refused"} -> "failed"
               [] OTHER -> asker[c]]

\* A revival nobody has begun: the number is on the list without it.
MayBeLost(c) ==
    \/ c = Minter \/ c \in began \/ ~Waiting(c)
    \/ "bridge lost under a revival" \in Mishaps

LoseBridge(c) ==
    /\ Waiting(c) /\ MayBeLost(c)
    /\ asker' = CutOff({c})
    /\ UNCHANGED <<daemonVars, handleVars, file, runVars, job, queue, began, endVars>>

\* Variant: a session is listed from the moment its launch begins.
ListedEarly == mapped # NoRun \/ filed # Nothing \/ job # Idle
\* list_sessions answers with the running and the filed alike.
Listed == mapped # NoRun \/ filed # Nothing

Look(c) ==
    /\ asker[c] = "lost" /\ up
    /\ asker' = [asker EXCEPT ![c] = IF Listed THEN "ok" ELSE "asked again"]
    /\ queue' = IF Listed THEN queue ELSE queue \cup {<<c, 2>>}
    /\ UNCHANGED <<daemonVars, handleVars, file, runVars, job, began, endVars>>

LookAgain(c) ==
    /\ asker[c] = "refused" /\ up
    /\ asker' = [asker EXCEPT ![c] = IF Listed THEN "ok" ELSE "failed"]
    /\ UNCHANGED <<daemonVars, handleVars, file, runVars, job, queue, began, endVars>>

(***************************************************************************)
(* The daemon begins a launch: who has the number, and may it be had back. *)
(***************************************************************************)
\* A handle that was archived or deleted has had its child killed.
Condemned(r) ==
    \E h \in Runs : to[h] = r /\ (shut[h] \/ (copy[h] # Nothing /\ copy[h].archived))

Lingers(r) == keeper[r] = "up" /\ (child[r] = "ended" \/ Condemned(r))

InTheWay ==
    \/ (\E r \in Runs : Lingers(r)) /\ "old keeper lingers" \notin Mishaps
    \/ archiving # NoRun /\ "archive overlaps" \notin Mishaps
    \/ deleting # NoRun /\ "deleted under a launch" \notin Mishaps

Begins(request, took) ==
    /\ job' = [at |-> "taken", for |-> request, took |-> took, run |-> NoRun]
    /\ UNCHANGED asker

\* Variant: whoever has the number is taken to have ended.
NeverRunning == FALSE
StillRunning == mapped # NoRun /\ ~Over(copy[mapped])

Refuse(request) ==
    /\ up /\ job = Idle /\ request \in queue /\ StillRunning
    /\ queue' = queue \ {request}
    /\ asker' = Answered(request, FALSE)
    /\ UNCHANGED <<daemonVars, handleVars, file, runVars, job, began, endVars>>

\* resume_in_place: the session in the map is left there, a record in the
\* archive is taken out.
TakeFromMap(request) ==
    /\ mapped # NoRun /\ ~StillRunning
    /\ Begins(request, copy[mapped])
    /\ UNCHANGED filed

\* Variant: an archived record is taken out without being carried on.
TakeAndForget(request) ==
    /\ mapped = NoRun /\ filed # Nothing
    /\ Begins(request, Nothing)
    /\ filed' = Nothing

TakeFromArchive(request) ==
    /\ mapped = NoRun /\ filed # Nothing
    /\ Begins(request, filed)
    /\ filed' = Nothing

TakeNothing(request) ==
    /\ mapped = NoRun /\ filed = Nothing
    /\ Begins(request, Nothing)
    /\ UNCHANGED filed

Take(request) ==
    /\ up /\ job = Idle /\ request \in queue /\ ~InTheWay
    /\ TakeFromMap(request) \/ TakeFromArchive(request) \/ TakeNothing(request)
    /\ queue' = queue \ {request}
    /\ UNCHANGED <<gen, up, mapped, handleVars, file, runVars, began, endVars>>

(***************************************************************************)
(* The steps of a launch.                                                  *)
(***************************************************************************)
launching(step) == up /\ job.at = step

\* Variant: the index does not get the record back.
PutBackOnFile ==
    IF mapped # NoRun THEN UNCHANGED <<file, filed>>
    ELSE /\ file' = Repaired(job.took)
         /\ UNCHANGED filed

\* Variant: the file is left as the launch wrote it.
\* What the launch took goes back where it came from: a session still in the
\* map was never taken, a record goes back on file and is read in again.
PutBack ==
    IF mapped # NoRun THEN UNCHANGED <<file, filed>>
    ELSE /\ file' = Repaired(job.took)
         /\ filed' = ReadBack(job.took)

\* A new session leaves no record; one revived is put back.
Undo ==
    IF job.took = Nothing
    THEN /\ file' = IF job.at = "taken" THEN file ELSE Nothing
         /\ UNCHANGED filed
    ELSE PutBack

Fail ==
    /\ Undo
    /\ job' = Idle
    /\ asker' = Answered(job.for, FALSE)
    /\ UNCHANGED <<gen, up, mapped, handleVars, queue, began, endVars>>

\* The folder is gone, or its program is not installed.
FailEarly ==
    /\ launching("taken")
    /\ Fail
    /\ UNCHANGED runVars

WriteRecord ==
    /\ launching("taken")
    /\ started < MaxRuns        \* out of keepers a launch can only fail
    /\ LET c == job.for[1] IN
       /\ file' = IF job.took = Nothing THEN Fresh(c) ELSE Fresh(job.took.who)
       /\ began' = began \cup {c}
    /\ job' = [job EXCEPT !.at = "written"]
    /\ erased' = FALSE
    /\ UNCHANGED <<daemonVars, handleVars, runVars, queue, asker, archiving, deleting, late>>

MayFail == mapped = NoRun \/ "fails over a live entry" \in Mishaps

\* spawn_keeper_process cannot start one.
FailToSpawn ==
    /\ launching("written") /\ MayFail
    /\ Fail
    /\ UNCHANGED runVars

SpawnKeeper ==
    /\ launching("written")
    /\ started' = started + 1
    /\ keeper' = [keeper EXCEPT ![started + 1] = "starting"]
    /\ job' = [job EXCEPT !.at = "spawned", !.run = started + 1]
    /\ UNCHANGED <<daemonVars, handleVars, file, child, client, path, queue, asker,
                   began, endVars>>

\* Whichever keeper the path leads to greets the launch, and shuts out the
\* client it had.
ConnectToKeeper ==
    /\ launching("spawned")
    /\ path # NoRun /\ keeper[path] = "up"
    /\ client' = [client EXCEPT ![path] = job.run]
    /\ to' = [to EXCEPT ![job.run] = path]
    /\ job' = [job EXCEPT !.at = "greeted"]
    /\ UNCHANGED <<daemonVars, copy, shut, reader, file, keeper, child, path, started,
                   queue, asker, began, endVars>>

\* Nothing answers at the path: its keeper did not come up, or an older one
\* removed the path as it left.
GivesUp ==
    /\ launching("spawned") /\ MayFail
    /\ \/ keeper[job.run] = "gone"
       \/ keeper[job.run] = "up" /\ path = NoRun
       \/ "slow keeper" \in Mishaps /\ keeper[job.run] = "starting"
    /\ Fail
    /\ UNCHANGED runVars

Insert ==
    /\ launching("greeted")
    /\ LET c == job.for[1]  r == job.run
           record == Fresh(IF job.took = Nothing THEN c ELSE job.took.who) IN
       /\ copy' = [copy EXCEPT ![r] = record]
       /\ shut' = [shut EXCEPT ![r] = FALSE]
       /\ reader' = [reader EXCEPT ![r] = "reading"]
       /\ mapped' = r
       /\ file' = record
    /\ job' = Idle
    /\ asker' = Answered(job.for, TRUE)
    /\ erased' = FALSE
    /\ UNCHANGED <<gen, up, filed, to, runVars, queue, began, archiving, deleting, late>>

\* The connection is given up with the handle that was being made.  A new
\* session's record stays on file, as its launch wrote it, and in neither index.
FailOnceConnected ==
    /\ launching("greeted") /\ "fails once connected" \in Mishaps
    /\ IF job.took = Nothing THEN UNCHANGED <<file, filed>> ELSE PutBack
    /\ client' = [client EXCEPT ![to[job.run]] = NoRun]
    /\ job' = Idle
    /\ asker' = Answered(job.for, FALSE)
    /\ late' = TRUE
    /\ UNCHANGED <<gen, up, mapped, handleVars, keeper, child, path, started, queue,
                   began, archiving, deleting, erased>>

(***************************************************************************)
(* Keepers.  The socket's path leads to the last one that bound it; one    *)
(* that leaves removes the path, whoever's it is.                          *)
(***************************************************************************)
KeeperBinds(r) ==
    /\ keeper[r] = "starting"
    /\ keeper' = [keeper EXCEPT ![r] = "up"]
    /\ child' = [child EXCEPT ![r] = "running"]
    /\ path' = r
    /\ UNCHANGED <<daemonVars, handleVars, file, client, started, launchVars, endVars>>

\* It cannot bind, or its child does not start: the path may be left behind.
KeeperFails(r) ==
    /\ keeper[r] = "starting" /\ MayFail
    /\ keeper' = [keeper EXCEPT ![r] = "gone"]
    /\ path' \in {path, r}
    /\ UNCHANGED <<daemonVars, handleVars, file, child, client, started, launchVars, endVars>>

ChildEnds(r) ==
    /\ child[r] = "running"
    /\ child' = [child EXCEPT ![r] = "ended"]
    /\ UNCHANGED <<daemonVars, handleVars, file, keeper, client, path, started,
                   launchVars, endVars>>

\* Told to quit, or its client gone; one never spoken to waits for longer
\* than a launch does.
Dismissed(r) ==
    IF client[r] = NoRun THEN ~(job.at = "spawned" /\ job.run = r)
    ELSE reader[client[r]] = "done"

KeeperLeaves(r) ==
    /\ keeper[r] = "up" /\ child[r] = "ended" /\ Dismissed(r)
    /\ keeper' = [keeper EXCEPT ![r] = "gone"]
    /\ path' = NoRun
    /\ UNCHANGED <<daemonVars, handleVars, file, child, client, started, launchVars, endVars>>

(***************************************************************************)
(* The reader of a handle hears of the exit, or its connection ends, and   *)
(* looks whether the map still has this handle before it records a death.  *)
(***************************************************************************)
Ended(r) == client[to[r]] # r \/ child[to[r]] = "ended"

ReaderHears(r) ==
    /\ up /\ reader[r] = "reading" /\ Ended(r)
    /\ reader' = [reader EXCEPT ![r] = IF mapped = r THEN "burying" ELSE "done"]
    /\ UNCHANGED <<daemonVars, copy, shut, to, file, runVars, launchVars, endVars>>

\* Variant: a handle writes although its record was discarded.
PersistAnyway(r, record) ==
    /\ copy' = [copy EXCEPT ![r] = record]
    /\ file' = record

Persist(r, record) ==
    /\ copy' = [copy EXCEPT ![r] = record]
    /\ file' = IF shut[r] THEN file ELSE record

MarkDead(r) ==
    /\ up /\ reader[r] = "burying"
    /\ reader' = [reader EXCEPT ![r] = "done"]
    /\ Persist(r, [copy[r] EXCEPT !.dead = TRUE])
    /\ UNCHANGED <<daemonVars, shut, to, runVars, launchVars, endVars>>

(***************************************************************************)
(* Putting a session down.  Archiving marks it, has its child killed and   *)
(* then writes; a delete takes it from the map first.                      *)
(***************************************************************************)
Archive ==
    /\ up /\ archiving = NoRun /\ mapped # NoRun
    /\ job.took = Nothing \/ "archive overlaps" \in Mishaps
    /\ copy' = [copy EXCEPT ![mapped].archived = TRUE]
    /\ archiving' = mapped
    /\ UNCHANGED <<daemonVars, shut, to, reader, file, runVars, launchVars,
                   deleting, erased, late>>

ArchiveWritten ==
    /\ up /\ archiving # NoRun
    /\ Persist(archiving, [copy[archiving] EXCEPT !.dead = TRUE])
    /\ archiving' = NoRun
    /\ UNCHANGED <<daemonVars, shut, to, reader, runVars, launchVars, deleting, erased,
                   late>>

ArchiveFiled ==
    /\ up /\ mapped = NoRun /\ filed # Nothing
    /\ filed' = [filed EXCEPT !.archived = TRUE, !.dead = TRUE]
    /\ file' = filed'
    /\ UNCHANGED <<gen, up, mapped, handleVars, runVars, launchVars, endVars>>

MayDelete == job.took = Nothing \/ "deleted under a launch" \in Mishaps

Delete ==
    /\ up /\ deleting = NoRun /\ mapped # NoRun /\ MayDelete
    /\ mapped' = NoRun
    /\ deleting' = mapped
    /\ UNCHANGED <<gen, up, filed, handleVars, file, runVars, launchVars,
                   archiving, erased, late>>

Discard ==
    /\ up /\ deleting # NoRun
    /\ shut' = [shut EXCEPT ![deleting] = TRUE]
    /\ file' = Nothing
    /\ deleting' = NoRun
    /\ erased' = TRUE
    /\ UNCHANGED <<daemonVars, copy, to, reader, runVars, launchVars, archiving,
                   late>>

DeleteFiled ==
    /\ up /\ mapped = NoRun /\ filed # Nothing
    /\ filed' = Nothing
    /\ file' = Nothing
    /\ erased' = TRUE
    /\ UNCHANGED <<gen, up, mapped, handleVars, runVars, launchVars, archiving, deleting,
                   late>>

(***************************************************************************)
(* A daemon's end.  A handover waits for the launch behind the gate; being *)
(* killed does not.                                                        *)
(***************************************************************************)
Gone ==
    /\ \A c \in Clients : MayBeLost(c)
    /\ gen < MaxGen
    /\ up' = FALSE
    /\ mapped' = NoRun /\ filed' = Nothing
    /\ reader' = [r \in Runs |-> "none"]
    /\ client' = [r \in Runs |-> NoRun]
    /\ job' = Idle /\ queue' = {}
    /\ archiving' = NoRun /\ deleting' = NoRun
    /\ asker' = CutOff(Clients)
    /\ UNCHANGED <<gen, copy, shut, to, file, keeper, child, path, started, began, erased,
                   late>>

HandOver == up /\ job = Idle /\ Gone

Killed ==
    /\ up
    /\ (\E r \in Runs : keeper[r] = "starting") => "killed as a keeper starts" \in Mishaps
    /\ Gone

(***************************************************************************)
(* The next daemon reads the record, and adopts the keeper if its path is  *)
(* there.                                                                  *)
(***************************************************************************)
Adopts ==
    /\ LET record == [file EXCEPT !.dead = FALSE] IN
       /\ mapped' = path
       /\ copy' = [copy EXCEPT ![path] = record]
       /\ file' = record
    /\ shut' = [shut EXCEPT ![path] = FALSE]
    /\ to' = [to EXCEPT ![path] = path]
    /\ client' = [client EXCEPT ![path] = path]
    /\ reader' = [reader EXCEPT ![path] = "reading"]
    /\ UNCHANGED <<filed, keeper, child, path>>

\* The child ended while nobody listened: recorded, and the keeper dismissed.
Retires ==
    /\ file' = [file EXCEPT !.dead = TRUE]
    /\ filed' = file'
    /\ keeper' = [keeper EXCEPT ![path] = "gone"]
    /\ path' = NoRun
    /\ UNCHANGED <<mapped, handleVars, child, client>>

ReadsRecord ==
    /\ IF file = Nothing THEN UNCHANGED <<file, filed>>
       ELSE /\ file' = Repaired(file)
            /\ filed' = ReadBack(file)
    /\ path' = NoRun
    /\ UNCHANGED <<mapped, handleVars, keeper, child, client>>

\* A keeper no record accounts for is ended.
Dismisses ==
    /\ child' = [child EXCEPT ![path] = "ended"]
    /\ keeper' = [keeper EXCEPT ![path] = "gone"]
    /\ path' = NoRun
    /\ UNCHANGED <<mapped, filed, handleVars, file, client>>

Start ==
    /\ ~up
    /\ up' = TRUE /\ gen' = gen + 1
    /\ IF path = NoRun \/ keeper[path] # "up" THEN ReadsRecord
       ELSE IF file = Nothing THEN Dismisses
       ELSE IF child[path] = "running" THEN Adopts
       ELSE Retires
    /\ UNCHANGED <<started, launchVars, endVars>>

-----------------------------------------------------------------------------
RevivalInit ==
    /\ gen = 1 /\ up = TRUE
    /\ mapped = NoRun /\ filed = Nothing /\ file = Nothing
    /\ copy = [r \in Runs |-> Nothing] /\ shut = [r \in Runs |-> FALSE]
    /\ to = [r \in Runs |-> NoRun] /\ reader = [r \in Runs |-> "none"]
    /\ keeper = [r \in Runs |-> "none"] /\ child = [r \in Runs |-> "none"]
    /\ client = [r \in Runs |-> NoRun] /\ path = NoRun /\ started = 0
    /\ job = Idle /\ queue = {} /\ asker = [c \in Clients |-> "idle"]
    /\ archiving = NoRun /\ deleting = NoRun
    /\ began = {} /\ erased = FALSE /\ late = FALSE

Launch ==
    \/ FailEarly \/ WriteRecord \/ FailToSpawn \/ SpawnKeeper \/ ConnectToKeeper \/ GivesUp
    \/ Insert \/ FailOnceConnected

RevivalNext ==
    \/ \E c \in Clients : AskToLaunch(c) \/ LoseBridge(c) \/ Look(c) \/ LookAgain(c)
    \/ \E request \in queue : Refuse(request) \/ Take(request)
    \/ Launch
    \/ \E r \in Runs : \/ KeeperBinds(r) \/ KeeperFails(r) \/ ChildEnds(r)
                       \/ KeeperLeaves(r) \/ ReaderHears(r) \/ MarkDead(r)
    \/ Archive \/ ArchiveWritten \/ ArchiveFiled \/ Delete \/ Discard \/ DeleteFiled
    \/ HandOver \/ Killed \/ Start

RevivalSpec == RevivalInit /\ [][RevivalNext]_revivalVars

\* Threads run, a child that was killed ends, the daemon is started by whoever
\* needs it, a client carries on.
RevivalFairness ==
    /\ WF_revivalVars(Launch) /\ WF_revivalVars(Start)
    /\ \A r \in Runs : /\ WF_revivalVars(KeeperBinds(r)) /\ WF_revivalVars(KeeperLeaves(r))
                       /\ WF_revivalVars(ReaderHears(r)) /\ WF_revivalVars(MarkDead(r))
                       /\ WF_revivalVars(Condemned(r) /\ ChildEnds(r))
    /\ WF_revivalVars(ArchiveWritten) /\ WF_revivalVars(Discard)
    /\ \A c \in Clients : /\ WF_revivalVars(Look(c)) /\ WF_revivalVars(LookAgain(c))
                          /\ \A k \in 1..2 : LET request == <<c, k>> IN
                                SF_revivalVars(/\ request \in queue
                                               /\ Refuse(request) \/ Take(request))

RevivalFairSpec == RevivalSpec /\ RevivalFairness

-----------------------------------------------------------------------------
\* Every variable has its type; what is in the archive's index is not running.
RevivalTypeOK ==
    /\ gen \in 1..MaxGen /\ up \in BOOLEAN
    /\ mapped \in Runs \cup {NoRun}
    /\ filed \in {record \in Records : record.dead} \cup {Nothing}
    /\ copy \in [Runs -> Records \cup {Nothing}] /\ shut \in [Runs -> BOOLEAN]
    /\ to \in [Runs -> Runs \cup {NoRun}]
    /\ reader \in [Runs -> {"none", "reading", "burying", "done"}]
    /\ file \in Records \cup {Nothing}
    /\ keeper \in [Runs -> {"none", "starting", "up", "gone"}]
    /\ child \in [Runs -> {"none", "running", "ended"}]
    /\ client \in [Runs -> Runs \cup {NoRun}]
    /\ path \in Runs \cup {NoRun} /\ started \in 0..MaxRuns
    /\ job \in [at : {"idle", "taken", "written", "spawned", "greeted"},
               for : {<<>>} \cup (Clients \X (1..2)),
               took : Records \cup {Nothing}, run : Runs \cup {NoRun}]
    /\ queue \subseteq Clients \X (1..2)
    /\ asker \in [Clients -> {"idle", "asked", "lost", "asked again", "refused",
                             "ok", "failed"}]
    /\ archiving \in Runs \cup {NoRun} /\ deleting \in Runs \cup {NoRun}
    /\ began \subseteq Clients /\ erased \in BOOLEAN /\ late \in BOOLEAN

\* One conversation is never in two places: however often a number is launched,
\* retried and brought back, at most one child is running under it, and a
\* session the daemon lists as running is connected to the keeper that its own
\* launch or adoption connected it to, and holds that keeper's slot.  Until a
\* launch fails that had been greeted: nothing tells its keeper to go.
OneChild ==
    ~late =>
        /\ \A r, s \in Runs : child[r] = "running" /\ child[s] = "running" => r = s
        /\ up /\ mapped # NoRun /\ ~Over(copy[mapped])
           => to[mapped] = mapped /\ client[mapped] = mapped

\* A request is part way through a change of the record.
InHand == job # Idle \/ archiving # NoRun \/ deleting # NoRun

\* Between changes a record on file is in exactly one of the daemon's two
\* indexes, neither index holds a session without a record, and the file says
\* what the daemon's memory says: whatever a launch took and could not use is
\* back, and a failed revival leaves no trace for the next daemon.  Until a
\* launch fails that had been greeted.
NothingForgotten ==
    up /\ ~InHand /\ ~late =>
        /\ file # Nothing <=> Listed
        /\ mapped = NoRun \/ filed = Nothing
        /\ mapped # NoRun => file = copy[mapped]
        /\ filed # Nothing => Over(file) /\ filed = [file EXCEPT !.dead = TRUE]

\* Once a delete is through there is no record until a launch writes one,
\* whatever archivals, readers and rollbacks were still on their way.
DeletedStaysDeleted == erased => file = Nothing

\* A record is never written over by another conversation's: the label, the
\* parent and the history of a number change hands only through a delete.  Until
\* a launch fails that had been greeted.
SameIdentity ==
    [][~late' /\ file # Nothing /\ file' # Nothing => file'.who = file.who]_revivalVars

\* A client told that its session is there has had a launch of its own begun.
AnsweredTruthfully == \A c \in Clients : asker[c] = "ok" => c \in began

\* A launch is answered in the end, over whatever bridges and daemons.
EveryRequestEnds ==
    \A c \in Clients : asker[c] # "idle" ~> asker[c] \in {"ok", "failed"}
=============================================================================
